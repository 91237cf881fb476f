------------------------------ MODULE Platform ------------------------------
(***************************************************************************)
(* The host of one Roc program (brush-platform's VfsPlatform): the program's*)
(* stdin, its buffered output, the jobs it has started and not yet waited  *)
(* for, and the signals it has not yet read.  The program calls one effect *)
(* after the other, any of them, in any order.                             *)
(*                                                                         *)
(* stdin is a sequence of lines and output a sequence of texts, with the   *)
(* end of a line as a text of its own.  What a command is, and the numbers *)
(* that say how it ended, are left to the guest.                           *)
(***************************************************************************)
EXTENDS Integers, Sequences, FiniteSets

CONSTANTS Input,       \* the lines piped to the program
          Text,        \* what is written
          Newline,     \* the end of a line
          Exits,       \* how a command may end
          Signals,     \* the signals delivered
          MaxWrites,   \* bound: writes by the program itself
          MaxReports,  \* bound: reports by the Roc runtime
          MaxSpawns,   \* bound: commands started
          MaxSignals   \* bound: signals delivered

ASSUME PlatformAssumption ==
  /\ Input \in Seq(STRING)
  /\ {MaxWrites, MaxReports, MaxSpawns, MaxSignals} \subseteq Nat

VARIABLES stage,      \* "running", "ended" or "crashed"
          cursor,     \* StdinSource: the lines read so far
          log,        \* OutputLog: the segments
          jobs,       \* finished jobs by handle, until they are waited for
          next_handle,
          installed, pending,  \* SignalQueue
          shown,      \* what each real stream has been given
          (* History. *)
          consumed,   \* the lines readers were given, in order
          written,    \* what was written, and to which stream, in order
          writes,     \* how often the program itself wrote
          reported,   \* the reports of the Roc runtime, in order
          given,      \* the handles of all jobs, in the order of their start
          ran,        \* how each of them ended
          collected,  \* what was waited for: handle and result
          caught, taken        \* the signals delivered to a handler, and read

output == <<log, written>>
table == <<jobs, next_handle, given, ran, collected>>
signals == <<installed, pending, caught, taken>>
vars == <<stage, cursor, output, table, signals, shown, reported, consumed, writes>>

Streams == {"stdout", "stderr"}

(* IoPlan, of the effects that start a command. *)
IoPlan == [output : {"inherit", "capture"}, stdin : {"inherit", "null"}]

ExecPlans == IoPlan \ {[output |-> "inherit", stdin |-> "null"]}

(* A child writes at most one text to each stream. *)
Output == {<<>>} \cup {<<t>> : t \in Text}

RunResult == [exit : Exits, stdout : Output, stderr : Output]

---------------------------------------------------------------------------
(* The output log *)

Segment(stream, bytes) == [stream |-> stream, bytes |-> bytes]

(* Variant: the text joins the last segment of its stream, wherever that is. *)
WriteAnywhere(segments, stream, bytes) ==
  LET own == {i \in DOMAIN segments : segments[i].stream = stream}
  IN IF own = {} THEN Append(segments, Segment(stream, bytes))
     ELSE LET i == CHOOSE n \in own : \A m \in own : m <= n
          IN [segments EXCEPT ![i].bytes = @ \o bytes]

Write(segments, stream, bytes) ==
  LET n == Len(segments)
  IN IF n > 0 /\ segments[n].stream = stream
     THEN [segments EXCEPT ![n].bytes = @ \o bytes]
     ELSE Append(segments, Segment(stream, bytes))

(* collect: the segments of some streams, one after the other. *)
Collect(segments, streams) ==
  LET upto[n \in 0..Len(segments)] ==
        IF n = 0 THEN <<>>
        ELSE upto[n - 1] \o IF segments[n].stream \in streams
                            THEN segments[n].bytes ELSE <<>>
  IN upto[Len(segments)]

---------------------------------------------------------------------------
Init ==
  /\ stage = "running"
  /\ cursor = 0
  /\ log = <<>> /\ written = <<>> /\ writes = 0
  /\ jobs = <<>> /\ next_handle = 0
  /\ given = <<>> /\ ran = <<>> /\ collected = <<>>
  /\ installed = FALSE /\ pending = <<>> /\ caught = <<>> /\ taken = <<>>
  /\ shown = [s \in Streams |-> <<>>] /\ reported = <<>>
  /\ consumed = <<>>

Running == stage = "running" /\ UNCHANGED <<stage, shown, reported>>

(* stdout_write, stdout_line and their like for stderr and for bytes. *)
WriteText(stream, t, line) ==
  /\ Running
  /\ writes < MaxWrites
  /\ writes' = writes + 1
  /\ LET text == Write(log, stream, <<t>>)
     IN log' = IF line THEN Write(text, stream, <<Newline>>) ELSE text
  /\ written' = Append(written, Segment(stream, IF line THEN <<t, Newline>> ELSE <<t>>))
  /\ UNCHANGED <<cursor, consumed, table, signals>>

---------------------------------------------------------------------------
(* stdin *)

(* The lines up to the n-th are read, and somebody is given them. *)
ReadUpTo(n) ==
  /\ cursor' = n
  /\ consumed' = consumed \o SubSeq(Input, cursor + 1, n)

(* Variant: a child is given what is left, and it stays for others. *)
PeekToEnd ==
  /\ consumed' = consumed \o SubSeq(Input, cursor + 1, Len(Input))
  /\ UNCHANGED cursor

ReadToEnd == ReadUpTo(Len(Input))

(* stdin_line; at the end of the input the answer is the end of the file.  *)
ReadLine ==
  /\ Running
  /\ cursor < Len(Input)
  /\ ReadUpTo(cursor + 1)
  /\ UNCHANGED <<output, writes, table, signals>>

(* stdin_read_to_end and stdin_bytes, whose one chunk is all that is left. *)
ReadRest ==
  /\ Running
  /\ cursor < Len(Input)
  /\ ReadToEnd
  /\ UNCHANGED <<output, writes, table, signals>>

---------------------------------------------------------------------------
(* Commands *)

DrainsFor(io) ==
  IF io.stdin = "inherit" THEN ReadToEnd ELSE UNCHANGED <<cursor, consumed>>

(* Apply the output plan: the child writes where the program would, or     *)
(* what it wrote is kept for the program.                                  *)
ShowOutput(io, r) ==
  IF io.output = "inherit"
  THEN /\ log' = Write(Write(log, "stdout", r.stdout), "stderr", r.stderr)
       /\ written' = written \o <<Segment("stdout", r.stdout), Segment("stderr", r.stderr)>>
  ELSE UNCHANGED output

Finished(io, r) ==
  [exit |-> r.exit,
   captured |-> IF io.output = "capture" THEN <<r.stdout, r.stderr>> ELSE <<>>]

(* Variant: as many as there are jobs. *)
MintHandleByLength == Cardinality(DOMAIN jobs)

MintHandle == next_handle

Inserted(table0, h, f) ==
  [x \in DOMAIN table0 \cup {h} |-> IF x = h THEN f ELSE table0[x]]

Removed(table0, h) == [x \in DOMAIN table0 \ {h} |-> table0[x]]

(* The command runs to its end here. *)
Runs(io, r) ==
  /\ Running
  /\ Len(given) < MaxSpawns
  /\ DrainsFor(io)
  /\ ShowOutput(io, r)
  /\ next_handle' = next_handle + 1
  /\ given' = Append(given, MintHandle)
  /\ ran' = Append(ran, Finished(io, r))
  /\ UNCHANGED <<signals, writes>>

Spawn(io, r) ==
  /\ Runs(io, r)
  /\ jobs' = Inserted(jobs, MintHandle, Finished(io, r))
  /\ UNCHANGED collected

(* There is no executor, or it cannot run the command: what was left of    *)
(* stdin is gone all the same.                                             *)
SpawnFails(io) ==
  /\ Running
  /\ Len(given) < MaxSpawns
  /\ DrainsFor(io)
  /\ UNCHANGED <<output, writes, table, signals>>

(* The first of the handles that names a job gives its result. *)
WaitAny(handles) ==
  /\ Running
  /\ \E i \in DOMAIN handles :
       /\ handles[i] \in DOMAIN jobs
       /\ \A j \in 1..(i - 1) : handles[j] \notin DOMAIN jobs
       /\ collected' = Append(collected, [handle |-> handles[i], result |-> jobs[handles[i]]])
       /\ jobs' = Removed(jobs, handles[i])
  /\ UNCHANGED <<cursor, consumed, output, writes, next_handle, given, ran, signals>>

(* The four exec effects: spawn, and wait for the handle it gave. *)
Exec(io, r) ==
  /\ Runs(io, r)
  /\ LET spawned == Inserted(jobs, MintHandle, Finished(io, r))
     IN /\ collected' = Append(collected, [handle |-> MintHandle,
                                           result |-> spawned[MintHandle]])
        /\ jobs' = Removed(spawned, MintHandle)

---------------------------------------------------------------------------
(* Signals *)

Install ==
  /\ Running
  /\ installed' = TRUE
  /\ UNCHANGED <<cursor, consumed, output, writes, table, pending, caught, taken>>

(* The sandbox's path; without a handler the signal is dropped. *)
Deliver(sig) ==
  /\ Running
  /\ installed
  /\ Len(caught) < MaxSignals
  /\ pending' = Append(pending, sig)
  /\ caught' = Append(caught, sig)
  /\ UNCHANGED <<cursor, consumed, output, writes, table, installed, taken>>

Take ==
  /\ Running
  /\ pending # <<>>
  /\ taken' = Append(taken, Head(pending))
  /\ pending' = Tail(pending)
  /\ UNCHANGED <<cursor, consumed, output, writes, table, installed, caught>>

---------------------------------------------------------------------------
(* The Roc runtime's reports, and the end *)

(* A report goes to the real stderr at once, past the output log. *)
ReportText(t) ==
  /\ reported' = Append(reported, t)
  /\ shown' = [shown EXCEPT !["stderr"] = Append(@, t)]

(* roc_dbg and roc_expect_failed: the program goes on. *)
Report(t) ==
  /\ stage = "running"
  /\ Len(reported) < MaxReports
  /\ ReportText(t)
  /\ UNCHANGED <<stage, cursor, consumed, output, writes, table, signals>>

(* What a stream may get when the error of writing to it is discarded. *)
Beginnings(text) == {SubSeq(text, 1, n) : n \in 0..Len(text)}

(* roc_main returns, and flush_guest_output writes each stream: all of it, *)
(* or as much as the real stream takes.                                    *)
Finish ==
  /\ stage = "running"
  /\ stage' = "ended"
  /\ \E out \in Beginnings(Collect(log, {"stdout"})),
        err \in Beginnings(Collect(log, {"stderr"})) :
       shown' = [s \in Streams |-> shown[s] \o IF s = "stdout" THEN out ELSE err]
  /\ UNCHANGED <<cursor, consumed, output, writes, table, signals, reported>>

(* roc_crashed, or roc_alloc without memory, reports and exits: what is     *)
(* buffered is never shown.                                                *)
Crash(t) ==
  /\ stage = "running"
  /\ stage' = "crashed"
  /\ ReportText(t)
  /\ UNCHANGED <<cursor, consumed, output, writes, table, signals>>

(* A report that cannot be written panics, which the C ABI turns into an    *)
(* abort.                                                                  *)
Abort ==
  /\ stage = "running"
  /\ stage' = "crashed"
  /\ UNCHANGED <<cursor, consumed, output, writes, table, signals, shown, reported>>

Over == stage # "running" /\ UNCHANGED vars

Handles == {given[i] : i \in DOMAIN given}

(* Lists of handles the program may wait for: any two it was ever given. *)
Waits == {<<h, g>> : h \in Handles, g \in Handles}

Next ==
  \/ \E s \in Streams, t \in Text, line \in BOOLEAN : WriteText(s, t, line)
  \/ ReadLine
  \/ ReadRest
  \/ \E io \in IoPlan, r \in RunResult : Spawn(io, r)
  \/ \E io \in IoPlan : SpawnFails(io)
  \/ \E handles \in Waits : WaitAny(handles)
  \/ \E io \in ExecPlans, r \in RunResult : Exec(io, r)
  \/ Install
  \/ \E sig \in Signals : Deliver(sig)
  \/ Take
  \/ \E t \in Text : Report(t) \/ Crash(t)
  \/ Finish
  \/ Abort
  \/ Over

Spec == Init /\ [][Next]_vars

---------------------------------------------------------------------------
(* Properties *)

(* A line of stdin goes to one reader, the program or a command, in order, *)
(* whoever reads in between (or is gone with a command that could not be   *)
(* run); and a signal that found a handler is read once, in order, however *)
(* often the handler is installed.                                         *)
InputsOnce ==
  /\ consumed = SubSeq(Input, 1, cursor)
  /\ caught = taken \o pending

(* A job's result is kept under the handle its start gave until it is      *)
(* waited for, and given out once: no handle, however old, names another   *)
(* job, and no result is lost.                                             *)
HandleNamesItsJob ==
  \A i \in DOMAIN given :
    LET mine == {c \in DOMAIN collected : collected[c].handle = given[i]}
    IN IF given[i] \in DOMAIN jobs
       THEN jobs[given[i]] = ran[i] /\ mine = {}
       ELSE \E c \in mine : mine = {c} /\ collected[c].result = ran[i]

(* What a real stream has besides the program's output. *)
Outside(s) == IF s = "stderr" THEN reported ELSE <<>>

(* "separate on the wire, ordered for render": joining writes changes      *)
(* neither stream by itself nor the two in the order they were written,    *)
(* with the output of commands among the program's own.  None of it        *)
(* reaches a real stream before the program ends, or if it crashes; when   *)
(* it ends, each real stream gets its own after the reports already there, *)
(* from the beginning and with nothing left out in between, though maybe   *)
(* not to the end (flush_guest_output discards the errors of writing).     *)
OutputKept ==
  /\ \A streams \in {{"stdout"}, {"stderr"}, Streams} :
       Collect(log, streams) = Collect(written, streams)
  /\ \A s \in Streams :
       IF stage = "ended"
       THEN \E b \in Beginnings(Collect(written, {s})) : shown[s] = Outside(s) \o b
       ELSE shown[s] = Outside(s)
=============================================================================
