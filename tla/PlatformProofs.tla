--------------------------- MODULE PlatformProofs ---------------------------
(***************************************************************************)
(* Proofs about Platform: what is piped in is read once, a handle names its *)
(* own job, and output comes out as it was written, for any input, any      *)
(* commands and any number of calls.                                       *)
(***************************************************************************)
EXTENDS Platform, SequenceTheorems, WellFoundedInduction, TLAPS

---------------------------------------------------------------------------
(* Inputs *)

(* InputsOnce, and the types it needs to be inductive. *)
Inputs ==
  /\ cursor \in 0..Len(Input)
  /\ consumed = SubSeq(Input, 1, cursor)
  /\ pending \in Seq(Signals)
  /\ taken \in Seq(Signals)
  /\ caught = taken \o pending

(* Reading further gives what lies between. *)
LEMMA Reading ==
  ASSUME Inputs, NEW n \in cursor..Len(Input), ReadUpTo(n)
  PROVE  cursor' \in 0..Len(Input) /\ consumed' = SubSeq(Input, 1, cursor')
<1>1. Input \in Seq(STRING) /\ Len(Input) \in Nat
  BY PlatformAssumption
<1>2. 1 \in 1..(Len(Input) + 1) /\ cursor \in (1 - 1)..Len(Input)
  BY <1>1 DEF Inputs
<1>3. SubSeq(Input, 1, cursor) \o SubSeq(Input, cursor + 1, n) = SubSeq(Input, 1, n)
  BY <1>1, <1>2, ConcatAdjacentSubSeq
<1>4. consumed' = SubSeq(Input, 1, cursor) \o SubSeq(Input, cursor + 1, n) /\ cursor' = n
  BY DEF Inputs, ReadUpTo
<1>5. n \in 0..Len(Input)
  BY <1>1, <1>2
<1> QED
  BY <1>3, <1>4, <1>5

LEMMA Draining ==
  ASSUME Inputs, NEW io, DrainsFor(io)
  PROVE  cursor' \in 0..Len(Input) /\ consumed' = SubSeq(Input, 1, cursor')
<1>1. Len(Input) \in cursor..Len(Input)
  BY PlatformAssumption DEF Inputs
<1>2. CASE io.stdin = "inherit"
  BY <1>1, <1>2, Reading DEF DrainsFor, ReadToEnd
<1>3. CASE io.stdin # "inherit"
  BY <1>3 DEF DrainsFor, Inputs
<1> QED
  BY <1>2, <1>3

LEMMA DeliveredInOrder ==
  ASSUME Inputs, NEW sig \in Signals, Deliver(sig)
  PROVE  pending' \in Seq(Signals) /\ caught' = taken \o pending'
<1>1. /\ pending \in Seq(Signals) /\ taken \in Seq(Signals)
      /\ <<sig>> \in Seq(Signals)
  BY DEF Inputs
<1>2. pending' = pending \o <<sig>> /\ pending' \in Seq(Signals)
  BY <1>1, AppendIsConcat, AppendProperties DEF Deliver
<1>3. caught' = (taken \o pending) \o <<sig>>
  BY <1>1, ConcatProperties, AppendIsConcat DEF Inputs, Deliver
<1>4. (taken \o pending) \o <<sig>> = taken \o (pending \o <<sig>>)
  BY <1>1, ConcatAssociative
<1> QED
  BY <1>2, <1>3, <1>4

LEMMA TakenInOrder ==
  ASSUME Inputs, Take
  PROVE  /\ pending' \in Seq(Signals) /\ taken' \in Seq(Signals)
         /\ caught' = taken' \o pending'
<1>1. /\ pending \in Seq(Signals) /\ taken \in Seq(Signals) /\ pending # <<>>
      /\ pending' = Tail(pending) /\ taken' = Append(taken, Head(pending))
      /\ caught' = taken \o pending
  BY DEF Inputs, Take
<1>2. /\ Head(pending) \in Signals /\ Tail(pending) \in Seq(Signals)
      /\ Len(pending) \in Nat \ {0}
  BY <1>1, HeadTailProperties, EmptySeq
<1>3. pending = <<Head(pending)>> \o Tail(pending)
  <2>1. 1 \in 1..Len(pending) /\ Len(pending) \in 1..Len(pending)
    BY <1>2
  <2>2. SubSeq(pending, 1, Len(pending))
          = <<pending[1]>> \o SubSeq(pending, 1 + 1, Len(pending))
    BY <1>1, <2>1, SubSeqRecursiveFirst
  <2>3. /\ SubSeq(pending, 1, Len(pending)) = pending
        /\ SubSeq(pending, 1 + 1, Len(pending)) = Tail(pending)
        /\ Head(pending) = pending[1]
    BY <1>1, SubSeqFull, TailIsSubSeq
  <2> QED
    BY <2>2, <2>3
<1>4. taken' = taken \o <<Head(pending)>> /\ taken' \in Seq(Signals)
  BY <1>1, <1>2, AppendIsConcat, AppendProperties
<1>5. <<Head(pending)>> \in Seq(Signals)
  BY <1>2
<1>6. (taken \o <<Head(pending)>>) \o Tail(pending)
        = taken \o (<<Head(pending)>> \o Tail(pending))
  BY <1>1, <1>2, <1>5, ConcatAssociative
<1> QED
  BY <1>1, <1>2, <1>3, <1>4, <1>6

(* Each kind of step reads stdin, changes the queue of signals, or does    *)
(* neither.                                                                *)
LEMMA InputsStep ==
  ASSUME Inputs, [Next]_vars
  PROVE  Inputs'
<1>1. ASSUME UNCHANGED <<cursor, consumed, pending, taken, caught>>
      PROVE  Inputs'
  BY <1>1 DEF Inputs
<1>2. ASSUME UNCHANGED signals,
             cursor' \in 0..Len(Input), consumed' = SubSeq(Input, 1, cursor')
      PROVE  Inputs'
  BY <1>2 DEF Inputs, signals
<1>3. ASSUME UNCHANGED <<cursor, consumed>>,
             pending' \in Seq(Signals), taken' \in Seq(Signals),
             caught' = taken' \o pending'
      PROVE  Inputs'
  BY <1>3 DEF Inputs
<1>4. ASSUME NEW s \in Streams, NEW t \in Text, NEW line \in BOOLEAN,
             WriteText(s, t, line)
      PROVE  Inputs'
  BY <1>1, <1>4 DEF WriteText, signals
<1>5. CASE ReadLine
  <2>1. cursor + 1 \in cursor..Len(Input)
    BY <1>5, PlatformAssumption DEF ReadLine, Inputs
  <2> QED
    BY <1>2, <1>5, <2>1, Reading DEF ReadLine
<1>6. CASE ReadRest
  <2>1. Len(Input) \in cursor..Len(Input)
    BY PlatformAssumption DEF Inputs
  <2> QED
    BY <1>2, <1>6, <2>1, Reading DEF ReadRest, ReadToEnd
<1>7. ASSUME NEW io \in IoPlan, NEW r \in RunResult, Runs(io, r)
      PROVE  Inputs'
  BY <1>2, <1>7, Draining DEF Runs, signals
<1>8. ASSUME NEW io \in IoPlan, SpawnFails(io)
      PROVE  Inputs'
  BY <1>2, <1>8, Draining DEF SpawnFails
<1>9. ASSUME NEW handles, WaitAny(handles)
      PROVE  Inputs'
  BY <1>1, <1>9 DEF WaitAny, signals
<1>10. CASE Install
  BY <1>1, <1>10 DEF Install
<1>11. ASSUME NEW sig \in Signals, Deliver(sig)
       PROVE  Inputs'
  <2>1. pending' \in Seq(Signals) /\ caught' = taken \o pending'
    BY <1>11, DeliveredInOrder
  <2> QED
    BY <1>3, <1>11, <2>1 DEF Deliver, Inputs
<1>12. CASE Take
  <2>1. /\ pending' \in Seq(Signals) /\ taken' \in Seq(Signals)
        /\ caught' = taken' \o pending'
    BY <1>12, TakenInOrder
  <2> QED
    BY <1>3, <1>12, <2>1 DEF Take
<1>13. CASE Finish \/ Abort \/ \E t \in Text : Report(t) \/ Crash(t)
  BY <1>1, <1>13 DEF Finish, Abort, Report, Crash, signals
<1>14. CASE UNCHANGED vars
  BY <1>1, <1>14 DEF vars, signals
<1> QED
  BY <1>4, <1>5, <1>6, <1>7, <1>8, <1>9, <1>10, <1>11, <1>12, <1>13, <1>14
  DEF Next, Spawn, Exec, ExecPlans, Over

(* stdin is read once and in order, and so are signals (stdio.rs, the      *)
(* draining spawn of vfs_host.rs, runtime.rs).                             *)
THEOREM InputsReadOnce == Spec => []InputsOnce
<1>1. Init => Inputs
  <2> SUFFICES ASSUME Init PROVE Inputs
    OBVIOUS
  <2>1. SubSeq(Input, 1, 0) = <<>>
    BY SubSeqEmpty
  <2>2. <<>> \o <<>> = <<>> /\ <<>> \in Seq(Signals)
    BY EmptySeq, ConcatEmptySeq
  <2> QED
    BY <2>1, <2>2, PlatformAssumption DEF Init, Inputs
<1>2. Inputs /\ [Next]_vars => Inputs'
  BY InputsStep
<1>3. Inputs => InputsOnce
  BY DEF Inputs, InputsOnce
<1> QED
  BY <1>1, <1>2, <1>3, PTL DEF Spec

---------------------------------------------------------------------------
(* Handles *)

Results == {Finished(io, r) : io \in IoPlan, r \in RunResult}

(* The handles given are the numbers below next_handle, in order. *)
GivenInOrder ==
  /\ next_handle \in Nat
  /\ given \in Seq(Nat) /\ Len(given) = next_handle
  /\ \A i \in 1..next_handle : given[i] = i - 1
  /\ ran \in Seq(Results) /\ Len(ran) = next_handle

(* What the table holds was run under its handle. *)
HeldIsRun ==
  \A h \in DOMAIN jobs : h \in 0..(next_handle - 1) /\ jobs[h] = ran[h + 1]

(* What was waited for was run under its handle, and has left the table. *)
WaitedIsRun ==
  /\ collected \in Seq([handle : Nat, result : Results])
  /\ \A c \in 1..Len(collected) :
       /\ collected[c].handle \in 0..(next_handle - 1)
       /\ collected[c].handle \notin DOMAIN jobs
       /\ collected[c].result = ran[collected[c].handle + 1]

(* ... and was waited for once. *)
WaitedOnce ==
  \A c, d \in 1..Len(collected) : collected[c].handle = collected[d].handle => c = d

(* No job is forgotten. *)
HeldOrWaited ==
  \A h \in 0..(next_handle - 1) :
    h \in DOMAIN jobs \/ \E c \in 1..Len(collected) : collected[c].handle = h

HandlesKept == GivenInOrder /\ HeldIsRun /\ WaitedIsRun /\ WaitedOnce /\ HeldOrWaited

(* A new handle is the next number. *)
LEMMA Minting ==
  ASSUME HandlesKept, NEW io \in IoPlan, NEW r \in RunResult, Runs(io, r)
  PROVE  /\ GivenInOrder'
         /\ next_handle' = next_handle + 1
         /\ \A h \in 0..(next_handle - 1) : ran'[h + 1] = ran[h + 1]
         /\ ran'[next_handle + 1] = Finished(io, r)
         /\ Finished(io, r) \in Results
<1>1. /\ next_handle \in Nat /\ given \in Seq(Nat) /\ ran \in Seq(Results)
      /\ Len(given) = next_handle /\ Len(ran) = next_handle
      /\ \A i \in 1..next_handle : given[i] = i - 1
  BY DEF HandlesKept, GivenInOrder
<1>2. Finished(io, r) \in Results
  BY DEF Results
<1>3. /\ next_handle' = next_handle + 1
      /\ given' = Append(given, next_handle)
      /\ ran' = Append(ran, Finished(io, r))
  BY DEF Runs, MintHandle
<1>4. /\ given' \in Seq(Nat) /\ Len(given') = next_handle + 1
      /\ \A i \in 1..next_handle : given'[i] = given[i]
      /\ given'[next_handle + 1] = next_handle
  BY <1>1, <1>3, AppendProperties
<1>5. /\ ran' \in Seq(Results) /\ Len(ran') = next_handle + 1
      /\ \A i \in 1..next_handle : ran'[i] = ran[i]
      /\ ran'[next_handle + 1] = Finished(io, r)
  BY <1>1, <1>2, <1>3, AppendProperties
<1>6. \A i \in 1..(next_handle + 1) : given'[i] = i - 1
  BY <1>1, <1>4
<1>7. \A h \in 0..(next_handle - 1) : ran'[h + 1] = ran[h + 1]
  BY <1>1, <1>5
<1> QED
  BY <1>1, <1>2, <1>3, <1>4, <1>5, <1>6, <1>7 DEF GivenInOrder

(* One more result is given out; those before it stay. *)
LEMMA Collecting ==
  ASSUME collected \in Seq([handle : Nat, result : Results]),
         NEW h \in Nat, NEW f \in Results,
         collected' = Append(collected, [handle |-> h, result |-> f])
  PROVE  /\ collected' \in Seq([handle : Nat, result : Results])
         /\ Len(collected) \in Nat
         /\ Len(collected') = Len(collected) + 1
         /\ \A c \in 1..Len(collected) : collected'[c] = collected[c]
         /\ collected'[Len(collected) + 1].handle = h
         /\ collected'[Len(collected) + 1].result = f
<1>1. [handle |-> h, result |-> f] \in [handle : Nat, result : Results]
  OBVIOUS
<1> QED
  BY <1>1, AppendProperties

LEMMA SpawnKeepsHandles ==
  ASSUME HandlesKept, NEW io \in IoPlan, NEW r \in RunResult, Spawn(io, r)
  PROVE  HandlesKept'
<1>1. Runs(io, r) /\ collected' = collected
      /\ jobs' = Inserted(jobs, next_handle, Finished(io, r))
  BY DEF Spawn, MintHandle
<1>2. /\ GivenInOrder'
      /\ next_handle' = next_handle + 1
      /\ \A h \in 0..(next_handle - 1) : ran'[h + 1] = ran[h + 1]
      /\ ran'[next_handle + 1] = Finished(io, r)
  BY <1>1, Minting
<1>3. next_handle \in Nat
  BY DEF HandlesKept, GivenInOrder
<1>4. /\ DOMAIN jobs' = DOMAIN jobs \cup {next_handle}
      /\ jobs'[next_handle] = Finished(io, r)
      /\ \A h \in DOMAIN jobs \ {next_handle} : jobs'[h] = jobs[h]
  BY <1>1 DEF Inserted
<1>5. HeldIsRun'
  BY <1>2, <1>3, <1>4 DEF HandlesKept, HeldIsRun
<1>6. WaitedIsRun'
  BY <1>1, <1>2, <1>3, <1>4 DEF HandlesKept, WaitedIsRun
<1>7. WaitedOnce'
  BY <1>1 DEF HandlesKept, WaitedOnce
<1>8. HeldOrWaited'
  BY <1>1, <1>2, <1>3, <1>4 DEF HandlesKept, HeldOrWaited
<1> QED
  BY <1>2, <1>5, <1>6, <1>7, <1>8 DEF HandlesKept

LEMMA WaitKeepsHandles ==
  ASSUME HandlesKept, NEW handles, WaitAny(handles)
  PROVE  HandlesKept'
<1>1. PICK h \in DOMAIN jobs :
        /\ collected' = Append(collected, [handle |-> h, result |-> jobs[h]])
        /\ jobs' = Removed(jobs, h)
  BY DEF WaitAny
<1>2. UNCHANGED <<next_handle, given, ran>>
  BY DEF WaitAny
<1>3. next_handle \in Nat /\ ran \in Seq(Results) /\ Len(ran) = next_handle
  BY DEF HandlesKept, GivenInOrder
<1>4. h \in 0..(next_handle - 1) /\ jobs[h] = ran[h + 1]
  BY DEF HandlesKept, HeldIsRun
<1>5. h \in Nat /\ jobs[h] \in Results
  <2>1. h + 1 \in 1..Len(ran)
    BY <1>3, <1>4
  <2> QED
    BY <1>3, <1>4, <2>1, ElementOfSeq
<1>6. /\ DOMAIN jobs' = DOMAIN jobs \ {h}
      /\ \A g \in DOMAIN jobs' : jobs'[g] = jobs[g]
  BY <1>1 DEF Removed
<1>7. /\ collected' \in Seq([handle : Nat, result : Results])
      /\ Len(collected) \in Nat
      /\ Len(collected') = Len(collected) + 1
      /\ \A c \in 1..Len(collected) : collected'[c] = collected[c]
      /\ collected'[Len(collected) + 1].handle = h
      /\ collected'[Len(collected) + 1].result = jobs[h]
  BY <1>1, <1>5, Collecting DEF HandlesKept, WaitedIsRun
<1>8. GivenInOrder' /\ HeldIsRun'
  BY <1>2, <1>6 DEF HandlesKept, GivenInOrder, HeldIsRun
<1>9. WaitedIsRun'
  <2> SUFFICES ASSUME NEW c \in 1..Len(collected')
               PROVE  /\ collected'[c].handle \in 0..(next_handle - 1)
                      /\ collected'[c].handle \notin DOMAIN jobs'
                      /\ collected'[c].result = ran[collected'[c].handle + 1]
    BY <1>2, <1>7 DEF WaitedIsRun
  <2>1. CASE c \in 1..Len(collected)
    BY <1>6, <1>7, <2>1 DEF HandlesKept, WaitedIsRun
  <2>2. CASE c = Len(collected) + 1
    BY <1>4, <1>6, <1>7, <2>2
  <2> QED
    BY <1>7, <2>1, <2>2
<1>10. WaitedOnce'
  <2>1. \A c \in 1..Len(collected) : collected[c].handle # h
    BY <1>1 DEF HandlesKept, WaitedIsRun
  <2>2. \A c \in 1..Len(collected') :
          c \in 1..Len(collected) \/ c = Len(collected) + 1
    BY <1>7
  <2> QED
    BY <1>7, <2>1, <2>2 DEF HandlesKept, WaitedOnce
<1>11. HeldOrWaited'
  <2> SUFFICES ASSUME NEW g \in 0..(next_handle - 1), g \notin DOMAIN jobs'
               PROVE  \E c \in 1..Len(collected') : collected'[c].handle = g
    BY <1>2 DEF HeldOrWaited
  <2>1. CASE g = h
    BY <1>7, <2>1
  <2>2. CASE g # h
    <3>1. PICK c \in 1..Len(collected) : collected[c].handle = g
      BY <1>6, <2>2 DEF HandlesKept, HeldOrWaited
    <3> QED
      BY <1>7, <3>1
  <2> QED
    BY <2>1, <2>2
<1> QED
  BY <1>8, <1>9, <1>10, <1>11 DEF HandlesKept

LEMMA ExecKeepsHandles ==
  ASSUME HandlesKept, NEW io \in IoPlan, NEW r \in RunResult, Exec(io, r)
  PROVE  HandlesKept'
<1> DEFINE f == Finished(io, r)
           spawned == Inserted(jobs, next_handle, f)
<1>1. /\ Runs(io, r)
      /\ collected' = Append(collected, [handle |-> next_handle,
                                         result |-> spawned[next_handle]])
      /\ jobs' = Removed(spawned, next_handle)
  BY DEF Exec, MintHandle
<1>2. /\ GivenInOrder'
      /\ next_handle' = next_handle + 1
      /\ \A h \in 0..(next_handle - 1) : ran'[h + 1] = ran[h + 1]
      /\ ran'[next_handle + 1] = f /\ f \in Results
  BY <1>1, Minting
<1>3. next_handle \in Nat /\ next_handle \notin DOMAIN jobs
  BY DEF HandlesKept, GivenInOrder, HeldIsRun
<1>4. /\ spawned[next_handle] = f
      /\ DOMAIN jobs' = DOMAIN jobs
      /\ \A h \in DOMAIN jobs : jobs'[h] = jobs[h]
  BY <1>1, <1>3 DEF Inserted, Removed
<1>5. collected' = Append(collected, [handle |-> next_handle, result |-> f])
  BY <1>1, <1>4
<1> HIDE DEF f, spawned
<1>6. /\ collected' \in Seq([handle : Nat, result : Results])
      /\ Len(collected) \in Nat
      /\ Len(collected') = Len(collected) + 1
      /\ \A c \in 1..Len(collected) : collected'[c] = collected[c]
      /\ collected'[Len(collected) + 1].handle = next_handle
      /\ collected'[Len(collected) + 1].result = f
  BY <1>2, <1>3, <1>5, Collecting DEF HandlesKept, WaitedIsRun
<1>7. HeldIsRun'
  BY <1>2, <1>3, <1>4 DEF HandlesKept, HeldIsRun
<1>8. WaitedIsRun'
  <2> SUFFICES ASSUME NEW c \in 1..Len(collected')
               PROVE  /\ collected'[c].handle \in 0..next_handle
                      /\ collected'[c].handle \notin DOMAIN jobs
                      /\ collected'[c].result = ran'[collected'[c].handle + 1]
    BY <1>2, <1>3, <1>4, <1>6 DEF WaitedIsRun
  <2>1. CASE c \in 1..Len(collected)
    <3>1. /\ collected'[c] = collected[c]
          /\ collected[c].handle \in 0..(next_handle - 1)
          /\ collected[c].handle \notin DOMAIN jobs
          /\ collected[c].result = ran[collected[c].handle + 1]
      BY <1>6, <2>1 DEF HandlesKept, WaitedIsRun
    <3>2. ran'[collected[c].handle + 1] = ran[collected[c].handle + 1]
      BY <1>2, <3>1
    <3> QED
      BY <1>3, <3>1, <3>2
  <2>2. CASE c = Len(collected) + 1
    BY <1>2, <1>3, <1>6, <2>2
  <2> QED
    BY <1>6, <2>1, <2>2
<1>9. WaitedOnce'
  <2>1. \A c \in 1..Len(collected) : collected[c].handle # next_handle
    BY <1>3 DEF HandlesKept, WaitedIsRun
  <2> QED
    BY <1>6, <2>1 DEF HandlesKept, WaitedOnce
<1>10. HeldOrWaited'
  <2> SUFFICES ASSUME NEW g \in 0..next_handle, g \notin DOMAIN jobs
               PROVE  \E c \in 1..Len(collected') : collected'[c].handle = g
    BY <1>2, <1>3, <1>4 DEF HeldOrWaited
  <2>1. CASE g = next_handle
    BY <1>6, <2>1
  <2>2. CASE g # next_handle
    <3>1. PICK c \in 1..Len(collected) : collected[c].handle = g
      BY <1>3, <2>2 DEF HandlesKept, HeldOrWaited
    <3> QED
      BY <1>6, <3>1
  <2> QED
    BY <2>1, <2>2
<1> QED
  BY <1>2, <1>7, <1>8, <1>9, <1>10 DEF HandlesKept

LEMMA HandlesStep ==
  ASSUME HandlesKept, [Next]_vars
  PROVE  HandlesKept'
<1>1. ASSUME UNCHANGED table
      PROVE  HandlesKept'
  BY <1>1 DEF table, HandlesKept, GivenInOrder, HeldIsRun, WaitedIsRun, WaitedOnce, HeldOrWaited
<1>2. ASSUME NEW s \in Streams, NEW t \in Text, NEW line \in BOOLEAN,
             WriteText(s, t, line)
      PROVE  HandlesKept'
  BY <1>1, <1>2 DEF WriteText
<1>3. CASE ReadLine \/ ReadRest
  BY <1>1, <1>3 DEF ReadLine, ReadRest
<1>4. ASSUME NEW io \in IoPlan, SpawnFails(io)
      PROVE  HandlesKept'
  BY <1>1, <1>4 DEF SpawnFails
<1>5. CASE Install \/ Take \/ \E sig \in Signals : Deliver(sig)
  BY <1>1, <1>5 DEF Install, Take, Deliver
<1>6. CASE Finish \/ Abort \/ \E t \in Text : Report(t) \/ Crash(t)
  BY <1>1, <1>6 DEF Finish, Abort, Report, Crash
<1>7. CASE UNCHANGED vars
  BY <1>1, <1>7 DEF vars
<1> QED
  BY <1>2, <1>3, <1>4, <1>5, <1>6, <1>7,
     SpawnKeepsHandles, WaitKeepsHandles, ExecKeepsHandles
  DEF Next, ExecPlans, Over

(* A handle names the job its start gave it to, and no other, and the      *)
(* job's result is given out once (mint_handle, spawn and wait_any of      *)
(* vfs_host.rs), for any number of jobs.                                   *)
THEOREM HandlesName == Spec => []HandleNamesItsJob
<1>1. Init => HandlesKept
  <2> SUFFICES ASSUME Init PROVE HandlesKept
    OBVIOUS
  <2>1. /\ next_handle = 0 /\ given = <<>> /\ ran = <<>> /\ collected = <<>>
        /\ DOMAIN jobs = {}
    BY DEF Init
  <2>2. /\ <<>> \in Seq(Nat) /\ <<>> \in Seq(Results) /\ Len(<<>>) = 0
        /\ <<>> \in Seq([handle : Nat, result : Results])
    BY EmptySeq
  <2> QED
    BY <2>1, <2>2
    DEF HandlesKept, GivenInOrder, HeldIsRun, WaitedIsRun, WaitedOnce, HeldOrWaited
<1>2. HandlesKept /\ [Next]_vars => HandlesKept'
  BY HandlesStep
<1>3. HandlesKept => HandleNamesItsJob
  <2> SUFFICES ASSUME HandlesKept, NEW i \in DOMAIN given
               PROVE  LET mine == {c \in DOMAIN collected : collected[c].handle = given[i]}
                      IN IF given[i] \in DOMAIN jobs
                         THEN jobs[given[i]] = ran[i] /\ mine = {}
                         ELSE \E c \in mine : mine = {c} /\ collected[c].result = ran[i]
    BY DEF HandleNamesItsJob
  <2> DEFINE h == i - 1
  <2>1. /\ i \in 1..next_handle /\ next_handle \in Nat /\ given[i] = h
        /\ h \in 0..(next_handle - 1) /\ h + 1 = i
    BY DEF HandlesKept, GivenInOrder
  <2>2. DOMAIN collected = 1..Len(collected)
    BY DEF HandlesKept, WaitedIsRun
  <2>3. CASE h \in DOMAIN jobs
    BY <2>1, <2>2, <2>3 DEF HandlesKept, HeldIsRun, WaitedIsRun
  <2>4. CASE h \notin DOMAIN jobs
    <3>1. PICK c \in 1..Len(collected) : collected[c].handle = h
      BY <2>1, <2>4 DEF HandlesKept, HeldOrWaited
    <3>2. collected[c].result = ran[i]
      BY <2>1, <3>1 DEF HandlesKept, WaitedIsRun
    <3>3. \A d \in 1..Len(collected) : collected[d].handle = h => d = c
      BY <3>1 DEF HandlesKept, WaitedOnce
    <3> QED
      BY <2>1, <2>2, <2>4, <3>1, <3>2, <3>3
  <2> QED
    BY <2>3, <2>4
<1> QED
  BY <1>1, <1>2, <1>3, PTL DEF Spec

---------------------------------------------------------------------------
(* Output *)

(* A set of natural numbers that is not empty has a smallest element.       *)
LEMMA Smallest ==
  ASSUME NEW S, S \subseteq Nat, S # {}
  PROVE  \E x \in S : \A n \in S : x <= n
<1>1. IsWellFoundedOn(OpToRel(<, Nat), Nat)
  BY NatLessThanWellFounded
<1>2. PICK x \in S : \A y \in S : ~(<<y, x>> \in OpToRel(<, Nat))
  BY <1>1, WFMin
<1>3. \A y \in S : ~(y < x)
  BY <1>2 DEF OpToRel
<1> QED
  BY <1>3

(* What holds of 0, and of the next number whenever of a number, holds      *)
(* as far as one counts.                                                   *)
LEMMA Counting ==
  ASSUME NEW T, NEW n \in Nat, 0 \in T, \A i \in 0..(n - 1) : i \in T => i + 1 \in T
  PROVE  n \in T
<1> DEFINE Missed == {i \in 0..n : i \notin T}
<1> SUFFICES ASSUME Missed # {} PROVE FALSE
  OBVIOUS
<1>1. Missed \subseteq Nat
  OBVIOUS
<1>2. PICK x \in Missed : \A i \in Missed : x <= i
  BY <1>1, Smallest
<1>3. x # 0 /\ x - 1 \in 0..(n - 1) /\ x - 1 \notin Missed /\ x - 1 \in 0..n
  BY <1>2
<1> QED
  BY <1>2, <1>3

Part(segment, streams) == IF segment.stream \in streams THEN segment.bytes ELSE <<>>

(* f says what is collected from the first n segments, for every n.        *)
Unfolds(f, segments, streams) ==
  f = [n \in 0..Len(segments) |->
         IF n = 0 THEN <<>>
         ELSE f[n - 1] \o IF segments[n].stream \in streams
                          THEN segments[n].bytes ELSE <<>>]

LEMMA CollectIs ==
  ASSUME NEW L, NEW S
  PROVE  Collect(L, S) = (CHOOSE f : Unfolds(f, L, S))[Len(L)]
BY DEF Collect, Unfolds


Segments(B) == [stream : Streams, bytes : Seq(B)]

(* f says it for the first m of them.                                      *)
Sums(f, segments, streams, m) ==
  f[0] = <<>> /\ \A n \in 1..m : f[n] = f[n - 1] \o Part(segments[n], streams)

Adds(f, segments, streams, B, m) ==
  f \in [0..m -> Seq(B)] /\ Sums(f, segments, streams, m)

LEMMA PartIs ==
  ASSUME NEW B, NEW S, NEW x \in Segments(B)
  PROVE  Part(x, S) \in Seq(B)
<1>1. <<>> \in Seq(B)
  OBVIOUS
<1> QED
  BY <1>1 DEF Part, Segments

LEMMA SumsAgree ==
  ASSUME NEW L, NEW S, NEW m \in Nat, NEW f, NEW g,
         Sums(f, L, S, m), Sums(g, L, S, m)
  PROVE  \A n \in 0..m : f[n] = g[n]
<1> SUFFICES ASSUME NEW k \in 0..m
             PROVE  f[k] = g[k]
  OBVIOUS
<1> DEFINE T == {n \in 0..m : f[n] = g[n]}
<1>1. 0 \in T
  BY DEF Sums
<1>2. ASSUME NEW i \in 0..(k - 1), i \in T
      PROVE  i + 1 \in T
  <2>1. i + 1 \in 1..m /\ (i + 1) - 1 = i /\ f[i] = g[i]
    BY <1>2
  <2> DEFINE j == i + 1
  <2>2. j \in 1..m /\ j - 1 = i /\ j \in 0..m
    BY <2>1
  <2> HIDE DEF j
  <2>3. f[j] = g[j]
    BY <2>1, <2>2 DEF Sums
  <2>4. j \in T
    BY <2>2, <2>3
  <2> QED
    BY <2>4 DEF j
<1> HIDE DEF T
<1>3. k \in T
  BY <1>1, <1>2, Counting
<1> QED
  BY <1>3 DEF T

LEMMA AddsIs ==
  ASSUME NEW B, NEW S, NEW L \in Seq(Segments(B)), NEW f, Adds(f, L, S, B, Len(L))
  PROVE  Collect(L, S) = f[Len(L)]
<1> DEFINE m == Len(L)
           g == CHOOSE h : Unfolds(h, L, S)
<1>0. m \in Nat /\ m = Len(L)
  OBVIOUS
<1> HIDE DEF m
<1>1. Unfolds(f, L, S)
  <2> DEFINE F == [n \in 0..m |-> IF n = 0 THEN <<>>
                                 ELSE f[n - 1] \o IF L[n].stream \in S
                                                  THEN L[n].bytes ELSE <<>>]
  <2>1. ASSUME NEW n \in 0..m
        PROVE  F[n] = f[n]
    <3>1. CASE n = 0
      BY <3>1 DEF Adds, Sums
    <3>2. CASE n # 0
      <4>1. n \in 1..m
        BY <1>0, <3>2
      <4>2. f[n] = f[n - 1] \o Part(L[n], S)
        BY <1>0, <4>1 DEF Adds, Sums
      <4>3. F[n] = f[n - 1] \o Part(L[n], S)
        BY <3>2, Zenon DEF Part
      <4> QED
        BY <4>2, <4>3
    <3> QED
      BY <3>1, <3>2
  <2>2. f = [n \in 0..m |-> f[n]]
    BY <1>0 DEF Adds, Sums
  <2>3. F = [n \in 0..m |-> F[n]]
    OBVIOUS
  <2> HIDE DEF F
  <2>4. f = F
    BY <2>1, <2>2, <2>3
  <2> QED
    BY <1>0, <2>4 DEF Unfolds, F
<1>2. Unfolds(g, L, S)
  BY <1>1
<1> HIDE DEF g
<1>3. g[0] = <<>>
  BY <1>0, <1>2 DEF Unfolds
<1>4. ASSUME NEW n \in 1..m
      PROVE  g[n] = g[n - 1] \o Part(L[n], S)
  <2> DEFINE G == [k \in 0..m |-> IF k = 0 THEN <<>>
                                 ELSE g[k - 1] \o IF L[k].stream \in S
                                                  THEN L[k].bytes ELSE <<>>]
  <2>1. g = G
    BY <1>0, <1>2 DEF Unfolds
  <2>2. n \in 0..m /\ n # 0
    BY <1>0
  <2>3. G[n] = g[n - 1] \o Part(L[n], S)
    BY <2>2, Zenon DEF Part
  <2> HIDE DEF G
  <2> QED
    BY <2>1, <2>3
<1>5. f[m] = g[m]
  <2>1. m \in 0..m
    BY <1>0
  <2>2. \A n \in 0..m : f[n] = g[n]
    <3>1. Sums(f, L, S, m)
      BY DEF m, Adds
    <3>2. Sums(g, L, S, m)
      BY <1>3, <1>4 DEF Sums
    <3> QED
      BY <1>0, <3>1, <3>2, SumsAgree
  <2> QED
    BY <2>1, <2>2
<1> QED
  BY <1>0, <1>5, CollectIs DEF g

LEMMA AddsExist ==
  ASSUME NEW B, NEW S, NEW L \in Seq(Segments(B))
  PROVE  \E f : Adds(f, L, S, B, Len(L))
<1> DEFINE T == {n \in 0..Len(L) : \E f : Adds(f, L, S, B, n)}
<1>0. Len(L) \in Nat
  OBVIOUS
<1>1. 0 \in T
  <2> DEFINE f == [n \in 0..0 |-> <<>>]
  <2>1. <<>> \in Seq(B)
    OBVIOUS
  <2>2. f \in [0..0 -> Seq(B)] /\ f[0] = <<>>
    BY <2>1
  <2> HIDE DEF f
  <2>3. Adds(f, L, S, B, 0)
    BY <2>2 DEF Adds, Sums
  <2> QED
    BY <1>0, <2>3
<1>2. ASSUME NEW i \in 0..(Len(L) - 1), i \in T
      PROVE  i + 1 \in T
  <2>1. PICK f : Adds(f, L, S, B, i)
    BY <1>2
  <2> DEFINE j == i + 1
             x == f[i] \o Part(L[j], S)
             g == [n \in 0..j |-> IF n = j THEN x ELSE f[n]]
  <2>2. i \in Nat /\ j \in 1..Len(L) /\ j = i + 1 /\ j \in 0..Len(L)
    BY <1>0
  <2>3. x \in Seq(B)
    <3>1. L[j] \in Segments(B)
      BY <2>2
    <3>2. Part(L[j], S) \in Seq(B)
      BY <3>1, PartIs
    <3>3. f[i] \in Seq(B)
      BY <2>1, <2>2 DEF Adds, Sums
    <3> QED
      BY <3>2, <3>3
  <2> HIDE DEF j
  <2>4. \A n \in 0..i : f[n] \in Seq(B) /\ n # j /\ n \in 0..j
    BY <2>1, <2>2 DEF Adds, Sums
  <2>5. \A n \in 0..j : n = j \/ n \in 0..i
    BY <2>2
  <2> HIDE DEF x
  <2>6. g \in [0..j -> Seq(B)]
    BY <2>3, <2>4, <2>5
  <2>7. g[0] = <<>>
    BY <2>1, <2>2, <2>4 DEF Adds, Sums
  <2>8. ASSUME NEW n \in 1..j
        PROVE  g[n] = g[n - 1] \o Part(L[n], S)
    <3>1. n \in 0..j /\ n - 1 \in 0..i /\ n - 1 # j /\ n - 1 \in 0..j
      BY <2>2
    <3>2. g[n - 1] = f[n - 1]
      BY <3>1
    <3>3. CASE n = j
      <4>1. n - 1 = i
        BY <2>2, <3>3
      <4> QED
        BY <3>1, <3>2, <3>3, <4>1 DEF x
    <3>4. CASE n # j
      <4>1. n \in 1..i
        BY <2>2, <3>4
      <4>2. f[n] = f[n - 1] \o Part(L[n], S)
        BY <2>1, <4>1 DEF Adds, Sums
      <4> QED
        BY <3>1, <3>2, <3>4, <4>2
    <3> QED
      BY <3>3, <3>4
  <2> HIDE DEF g
  <2>9. Adds(g, L, S, B, j)
    BY <2>6, <2>7, <2>8 DEF Adds, Sums
  <2>10. j \in T
    BY <2>2, <2>9
  <2> QED
    BY <2>10 DEF j
<1> HIDE DEF T
<1>3. Len(L) \in T
  BY <1>0, <1>1, <1>2, Counting
<1> QED
  BY <1>3 DEF T


(* Another segment.                                                        *)
LEMMA AppendCollects ==
  ASSUME NEW B, NEW S, NEW L \in Seq(Segments(B)), NEW x \in Segments(B)
  PROVE  /\ Append(L, x) \in Seq(Segments(B))
         /\ Collect(Append(L, x), S) = Collect(L, S) \o Part(x, S)
<1> DEFINE n == Len(L)
           k == n + 1
           M == Append(L, x)
<1>1. /\ M \in Seq(Segments(B)) /\ Len(M) = k /\ M[k] = x /\ \A i \in 1..n : M[i] = L[i]
      /\ n \in Nat /\ k = n + 1
  OBVIOUS
<1>2. n = Len(L)
  OBVIOUS
<1> HIDE DEF n, k, M
<1>3. PICK f : Adds(f, L, S, B, n)
  BY <1>2, AddsExist
<1>4. PICK g : Adds(g, M, S, B, k)
  BY <1>1, AddsExist
<1>5. Sums(f, L, S, n)
  BY <1>3 DEF Adds
<1>6. \A i \in 1..k : g[i] = g[i - 1] \o Part(M[i], S)
  BY <1>4 DEF Adds, Sums
<1>7. Sums(g, L, S, n)
  <2>1. ASSUME NEW i \in 1..n
        PROVE  g[i] = g[i - 1] \o Part(L[i], S)
    <3>1. i \in 1..k /\ M[i] = L[i]
      BY <1>1
    <3>2. g[i] = g[i - 1] \o Part(M[i], S)
      BY <1>6, <3>1
    <3> QED
      BY <3>1, <3>2
  <2>2. g[0] = <<>>
    BY <1>4 DEF Adds, Sums
  <2> QED
    BY <2>1, <2>2 DEF Sums
<1>8. f[n] = g[n]
  <2>1. \A i \in 0..n : f[i] = g[i]
    BY <1>1, <1>5, <1>7, SumsAgree
  <2> QED
    BY <1>1, <2>1
<1>9. g[k] = g[n] \o Part(x, S)
  <2>1. k \in 1..k /\ k - 1 = n
    BY <1>1
  <2>2. g[k] = g[k - 1] \o Part(M[k], S)
    BY <1>6, <2>1
  <2> QED
    BY <2>1, <2>2, <1>1
<1>10. Collect(L, S) = f[n]
  BY <1>2, <1>3, AddsIs
<1>11. Collect(M, S) = g[k]
  BY <1>1, <1>4, AddsIs
<1> QED
  BY <1>1, <1>8, <1>9, <1>10, <1>11 DEF M

(* More in the last segment.                                               *)
Joined(L, b) == [L EXCEPT ![Len(L)].bytes = @ \o b]

LEMMA JoinCollects ==
  ASSUME NEW B, NEW S, NEW L \in Seq(Segments(B)), Len(L) > 0, NEW b \in Seq(B)
  PROVE  /\ Joined(L, b) \in Seq(Segments(B))
         /\ Collect(Joined(L, b), S)
              = Collect(L, S) \o Part(Segment(L[Len(L)].stream, b), S)
<1> DEFINE n == Len(L)
           x == L[n]
           y == [x EXCEPT !.bytes = @ \o b]
           M == [L EXCEPT ![n] = y]
           s == x.stream
<1>1. n \in Nat \ {0} /\ n = Len(L)
  OBVIOUS
<1>2. x \in Segments(B)
  OBVIOUS
<1>3. M = Joined(L, b)
  BY DEF Joined
<1> HIDE DEF n
<1>4. y \in Segments(B) /\ y.stream = s /\ y.bytes = x.bytes \o b /\ x.bytes \in Seq(B)
  <2> HIDE DEF x
  <2>1. x.bytes \in Seq(B) /\ x.bytes \o b \in Seq(B)
    BY <1>2 DEF Segments
  <2> QED
    BY <1>2, <2>1 DEF Segments
<1> HIDE DEF x, y, s
<1>5. /\ M \in Seq(Segments(B)) /\ Len(M) = n
      /\ \A i \in 1..n : M[i] = IF i = n THEN y ELSE L[i]
  BY <1>1, <1>4
<1> HIDE DEF M
<1>6. PICK f : Adds(f, L, S, B, n)
  BY <1>1, AddsExist
<1>7. PICK g : Adds(g, M, S, B, n)
  BY <1>5, AddsExist
<1> DEFINE m == n - 1
<1>8. m \in Nat /\ n \in 1..n /\ n - 1 = m /\ m \in 0..m /\ m \in 0..n /\ \A i \in 1..m : i \in 1..n /\ i # n
  BY <1>1
<1> HIDE DEF m
<1>9. Sums(f, L, S, m) /\ f[n] = f[m] \o Part(x, S) /\ f[m] \in Seq(B)
  BY <1>6, <1>8 DEF Adds, Sums, x
<1>10. \A i \in 1..n : g[i] = g[i - 1] \o Part(M[i], S)
  BY <1>7 DEF Adds, Sums
<1>11. Sums(g, L, S, m)
  <2>1. ASSUME NEW i \in 1..m
        PROVE  g[i] = g[i - 1] \o Part(L[i], S)
    <3>1. i \in 1..n /\ M[i] = L[i]
      BY <1>5, <1>8
    <3>2. g[i] = g[i - 1] \o Part(M[i], S)
      BY <1>10, <3>1
    <3> QED
      BY <3>1, <3>2
  <2>2. g[0] = <<>>
    BY <1>7 DEF Adds, Sums
  <2> QED
    BY <2>1, <2>2 DEF Sums
<1>12. f[m] = g[m]
  <2>1. \A i \in 0..m : f[i] = g[i]
    <3>1. Sums(f, L, S, m) /\ m \in Nat
      BY <1>8, <1>9
    <3> QED
      BY <3>1, <1>11, SumsAgree
  <2> QED
    BY <1>8, <2>1
<1>13. g[n] = f[m] \o Part(y, S)
  <2>1. g[n] = g[n - 1] \o Part(M[n], S) /\ M[n] = y
    BY <1>5, <1>8, <1>10
  <2> QED
    BY <2>1, <1>8, <1>12
<1>14. f[m] \o Part(y, S) = (f[m] \o Part(x, S)) \o Part(Segment(s, b), S)
  <2> DEFINE c == f[m]
             d == x.bytes
  <2>1. c \in Seq(B) /\ d \in Seq(B)
    BY <1>4, <1>9
  <2>2. CASE s \in S
    <3>1. Part(y, S) = d \o b /\ Part(x, S) = d /\ Part(Segment(s, b), S) = b
      BY <1>4, <2>2 DEF Part, Segment, s
    <3> HIDE DEF c, d
    <3>2. c \o (d \o b) = (c \o d) \o b
      BY <2>1, ConcatAssociative
    <3> QED
      BY <3>1, <3>2 DEF c
  <2>3. CASE s \notin S
    <3>1. Part(y, S) = <<>> /\ Part(x, S) = <<>> /\ Part(Segment(s, b), S) = <<>>
      BY <1>4, <2>3 DEF Part, Segment, s
    <3> HIDE DEF c, d
    <3>2. c \o <<>> = c
      BY <2>1
    <3> QED
      BY <3>1, <3>2 DEF c
  <2> QED
    BY <2>2, <2>3
<1>15. Collect(L, S) = f[n] /\ Collect(M, S) = g[n]
  BY <1>1, <1>5, <1>6, <1>7, AddsIs
<1>16. Collect(M, S) = Collect(L, S) \o Part(Segment(s, b), S)
  BY <1>9, <1>13, <1>14, <1>15
<1>17. s = L[Len(L)].stream
  BY <1>1 DEF s, x
<1> QED
  BY <1>3, <1>5, <1>16, <1>17

(* However a text is joined to the log, it comes last.                     *)
LEMMA WriteCollects ==
  ASSUME NEW B, NEW S, NEW L \in Seq(Segments(B)), NEW s \in Streams, NEW b \in Seq(B)
  PROVE  /\ Write(L, s, b) \in Seq(Segments(B))
         /\ Collect(Write(L, s, b), S) = Collect(L, S) \o Part(Segment(s, b), S)
<1>1. Segment(s, b) \in Segments(B)
  BY DEF Segment, Segments
<1>2. CASE Len(L) > 0 /\ L[Len(L)].stream = s
  <2>1. Write(L, s, b) = Joined(L, b)
    BY <1>2 DEF Write, Joined
  <2> QED
    BY <1>2, <2>1, JoinCollects
<1>3. CASE ~(Len(L) > 0 /\ L[Len(L)].stream = s)
  <2>1. Write(L, s, b) = Append(L, Segment(s, b))
    BY <1>3 DEF Write
  <2> QED
    BY <1>1, <2>1, AppendCollects
<1> QED
  BY <1>2, <1>3


LEMMA CollectType ==
  ASSUME NEW B, NEW S, NEW L \in Seq(Segments(B))
  PROVE  Collect(L, S) \in Seq(B)
<1>1. PICK f : Adds(f, L, S, B, Len(L))
  BY AddsExist
<1>2. Collect(L, S) = f[Len(L)]
  BY <1>1, AddsIs
<1>3. Len(L) \in 0..Len(L)
  OBVIOUS
<1> QED
  BY <1>1, <1>2, <1>3 DEF Adds

Bytes == Text \cup {Newline}

(* The log and what was written say the same of each set of streams.       *)
Same(segments, texts) ==
  /\ segments \in Seq(Segments(Bytes)) /\ texts \in Seq(Segments(Bytes))
  /\ \A S \in SUBSET Streams : Collect(segments, S) = Collect(texts, S)

LEMMA OneWrite ==
  ASSUME NEW L, NEW W, Same(L, W), NEW s \in Streams, NEW b \in Seq(Bytes)
  PROVE  Same(Write(L, s, b), Append(W, Segment(s, b)))
<1>1. L \in Seq(Segments(Bytes)) /\ W \in Seq(Segments(Bytes))
  BY DEF Same
<1>2. Segment(s, b) \in Segments(Bytes)
  BY DEF Segment, Segments
<1>3. Write(L, s, b) \in Seq(Segments(Bytes))
  BY <1>1, WriteCollects
<1>4. Append(W, Segment(s, b)) \in Seq(Segments(Bytes))
  BY <1>1, <1>2, AppendCollects
<1>5. ASSUME NEW S \in SUBSET Streams
      PROVE  Collect(Write(L, s, b), S) = Collect(Append(W, Segment(s, b)), S)
  <2>1. Collect(Write(L, s, b), S) = Collect(L, S) \o Part(Segment(s, b), S)
    BY <1>1, WriteCollects
  <2>2. Collect(Append(W, Segment(s, b)), S) = Collect(W, S) \o Part(Segment(s, b), S)
    BY <1>1, <1>2, AppendCollects
  <2> QED
    BY <2>1, <2>2 DEF Same
<1> QED
  BY <1>3, <1>4, <1>5 DEF Same

(* A line is written in two parts, and counts as one text.                 *)
LEMMA OneLine ==
  ASSUME NEW L, NEW W, Same(L, W), NEW s \in Streams,
         NEW b \in Seq(Bytes), NEW c \in Seq(Bytes)
  PROVE  Same(Write(Write(L, s, b), s, c), Append(W, Segment(s, b \o c)))
<1> DEFINE d == b \o c
<1>1. L \in Seq(Segments(Bytes)) /\ W \in Seq(Segments(Bytes)) /\ d \in Seq(Bytes)
  BY DEF Same
<1> HIDE DEF d
<1>2. Segment(s, d) \in Segments(Bytes)
  BY <1>1 DEF Segment, Segments
<1>3. Write(L, s, b) \in Seq(Segments(Bytes))
  BY <1>1, WriteCollects
<1>4. Write(Write(L, s, b), s, c) \in Seq(Segments(Bytes))
  BY <1>3, WriteCollects
<1>5. Append(W, Segment(s, d)) \in Seq(Segments(Bytes))
  BY <1>1, <1>2, AppendCollects
<1>6. ASSUME NEW S \in SUBSET Streams
      PROVE  Collect(Write(Write(L, s, b), s, c), S) = Collect(Append(W, Segment(s, d)), S)
  <2> DEFINE x == Part(Segment(s, b), S)
             y == Part(Segment(s, c), S)
             z == Collect(L, S)
  <2>1. Collect(Write(Write(L, s, b), s, c), S) = (z \o x) \o y
    <3> DEFINE M == Write(L, s, b)
    <3>1. M \in Seq(Segments(Bytes)) /\ Collect(M, S) = z \o x
      BY <1>1, <1>3, WriteCollects
    <3> HIDE DEF M, x, y, z
    <3>2. Collect(Write(M, s, c), S) = Collect(M, S) \o Part(Segment(s, c), S)
      BY <3>1, WriteCollects
    <3> QED
      BY <3>1, <3>2 DEF M, y
  <2>2. Collect(Append(W, Segment(s, d)), S) = z \o Part(Segment(s, d), S)
    BY <1>1, <1>2, AppendCollects DEF Same
  <2>3. z \in Seq(Bytes)
    BY <1>1, CollectType
  <2>4. x \in Seq(Bytes) /\ y \in Seq(Bytes) /\ Part(Segment(s, d), S) = x \o y
    <3>1. CASE s \in S
      BY <3>1 DEF Part, Segment, d
    <3>2. CASE s \notin S
      BY <3>2 DEF Part, Segment
    <3> QED
      BY <3>1, <3>2
  <2> HIDE DEF x, y, z
  <2>5. (z \o x) \o y = z \o (x \o y)
    BY <2>3, <2>4, ConcatAssociative
  <2> QED
    BY <2>1, <2>2, <2>4, <2>5
<1> QED
  BY <1>4, <1>5, <1>6 DEF Same, d

(* OutputKept, with the types it needs.                                    *)
Logged ==
  /\ Same(log, written)
  /\ stage # "ended" => shown = [s \in Streams |-> Outside(s)]
  /\ stage = "ended" =>
       \A s \in Streams :
         \E b \in Beginnings(Collect(written, {s})) : shown[s] = Outside(s) \o b

LEMMA WriteTextLogs ==
  ASSUME Logged, NEW s \in Streams, NEW t \in Text, NEW line \in BOOLEAN,
         WriteText(s, t, line)
  PROVE  Same(log', written')
<1>1. Same(log, written) /\ <<t>> \in Seq(Bytes) /\ <<Newline>> \in Seq(Bytes)
  BY DEF Logged, Bytes
<1>2. CASE line
  <2>1. <<t>> \o <<Newline>> = <<t, Newline>>
    <3>1. <<t>> \in Seq(Bytes) /\ Newline \in Bytes
      BY DEF Bytes
    <3>2. <<t>> \o <<Newline>> = Append(<<t>>, Newline)
      BY <3>1, AppendIsConcat
    <3> DEFINE u == Append(<<t>>, Newline)
               v == <<t, Newline>>
    <3>3. u \in Seq(Bytes) /\ Len(u) = 2 /\ u[1] = t /\ u[2] = Newline
      BY <3>1
    <3>4. v \in Seq(Bytes) /\ Len(v) = 2 /\ v[1] = t /\ v[2] = Newline
      BY DEF Bytes
    <3> HIDE DEF u, v
    <3>5. u = v
      <4>1. ASSUME NEW i \in 1..Len(u)
            PROVE  u[i] = v[i]
        <5>1. i = 1 \/ i = 2
          BY <3>3
        <5> QED
          BY <5>1, <3>3, <3>4
      <4> QED
        BY <3>3, <3>4, <4>1, SeqEqual
    <3> QED
      BY <3>2, <3>5 DEF u, v
  <2>2. /\ log' = Write(Write(log, s, <<t>>), s, <<Newline>>)
        /\ written' = Append(written, Segment(s, <<t>> \o <<Newline>>))
    BY <1>2, <2>1 DEF WriteText
  <2> QED
    BY <1>1, <2>2, OneLine
<1>3. CASE ~line
  <2>1. /\ log' = Write(log, s, <<t>>)
        /\ written' = Append(written, Segment(s, <<t>>))
    BY <1>3 DEF WriteText
  <2> QED
    BY <1>1, <2>1, OneWrite
<1> QED
  BY <1>2, <1>3

LEMMA ShowLogs ==
  ASSUME Logged, NEW io, NEW r \in RunResult, ShowOutput(io, r)
  PROVE  Same(log', written')
<1>1. Same(log, written) /\ written \in Seq(Segments(Bytes))
  BY DEF Logged, Same
<1>2. r.stdout \in Seq(Bytes) /\ r.stderr \in Seq(Bytes)
  <2>1. ASSUME NEW o \in Output
        PROVE  o \in Seq(Bytes)
    <3>1. CASE o = <<>>
      BY <3>1
    <3>2. ASSUME NEW t \in Text
          PROVE  <<t>> \in Seq(Bytes)
      BY DEF Bytes
    <3> QED
      BY <3>1, <3>2 DEF Output
  <2> QED
    BY <2>1 DEF RunResult
<1>3. CASE io.output = "inherit"
  <2> DEFINE x == Segment("stdout", r.stdout)
             y == Segment("stderr", r.stderr)
             L == Write(log, "stdout", r.stdout)
             W == Append(written, x)
  <2>1. "stdout" \in Streams /\ "stderr" \in Streams
    BY DEF Streams
  <2>2. Same(L, W)
    BY <1>1, <1>2, <2>1, OneWrite
  <2>3. x \in Segments(Bytes) /\ y \in Segments(Bytes)
    BY <1>2, <2>1 DEF Segment, Segments
  <2>4. log' = Write(L, "stderr", r.stderr) /\ written' = written \o <<x, y>>
    BY <1>3 DEF ShowOutput
  <2> HIDE DEF x, y, L
  <2>5. written \o <<x, y>> = Append(W, y)
    BY <1>1, <2>3
  <2> HIDE DEF W
  <2>6. Same(Write(L, "stderr", r.stderr), Append(W, Segment("stderr", r.stderr)))
    BY <1>2, <2>1, <2>2, OneWrite
  <2> QED
    BY <2>4, <2>5, <2>6 DEF y
<1>4. CASE io.output # "inherit"
  BY <1>1, <1>4 DEF ShowOutput, output
<1> QED
  BY <1>3, <1>4

LEMMA LoggedStep ==
  ASSUME Logged, [Next]_vars
  PROVE  Logged'
<1>1. ASSUME Running, Same(log', written')
      PROVE  Logged'
  <2>1. Same(log, written)'
    BY <1>1 DEF Same
  <2>2. stage' # "ended" /\ shown' = shown /\ reported' = reported
    BY <1>1 DEF Running
  <2>3. shown' = [s \in Streams |-> Outside(s)']
    BY <1>1, <2>2 DEF Running, Logged, Outside
  <2> QED
    BY <2>1, <2>2, <2>3 DEF Logged
<1>2. ASSUME Running, UNCHANGED output
      PROVE  Logged'
  <2>1. Same(log', written')
    BY <1>2 DEF Logged, output
  <2> QED
    BY <1>1, <1>2, <2>1
<1>3. ASSUME NEW s \in Streams, NEW t \in Text, NEW line \in BOOLEAN, WriteText(s, t, line)
      PROVE  Logged'
  <2>1. Running
    BY <1>3 DEF WriteText
  <2> QED
    BY <1>1, <1>3, <2>1, WriteTextLogs
<1>4. ASSUME NEW io, NEW r \in RunResult, Runs(io, r)
      PROVE  Logged'
  <2>1. Running /\ ShowOutput(io, r)
    BY <1>4 DEF Runs
  <2> QED
    BY <1>1, <2>1, ShowLogs
<1>5. CASE \E io \in IoPlan, r \in RunResult : Spawn(io, r)
  BY <1>4, <1>5 DEF Spawn
<1>6. CASE \E io \in ExecPlans, r \in RunResult : Exec(io, r)
  BY <1>4, <1>6 DEF Exec
<1>7. CASE ReadLine \/ ReadRest \/ Install \/ Take
  BY <1>2, <1>7 DEF ReadLine, ReadRest, Install, Take
<1>8. CASE \/ \E io \in IoPlan : SpawnFails(io)
           \/ \E handles \in Waits : WaitAny(handles)
           \/ \E sig \in Signals : Deliver(sig)
  BY <1>2, <1>8 DEF SpawnFails, WaitAny, Deliver
<1>9. CASE Finish
  <2>1. PICK out \in Beginnings(Collect(log, {"stdout"})),
             err \in Beginnings(Collect(log, {"stderr"})) :
          shown' = [s \in Streams |-> shown[s] \o IF s = "stdout" THEN out ELSE err]
    BY <1>9 DEF Finish
  <2>2. /\ log' = log /\ written' = written /\ reported' = reported
        /\ stage # "ended" /\ stage' = "ended"
    BY <1>9 DEF Finish, output
  <2>3. Same(log, written)'
    BY <2>2 DEF Logged, Same
  <2>4. ASSUME NEW s \in Streams
        PROVE  \E b \in Beginnings(Collect(log, {s})) : shown'[s] = shown[s] \o b
    BY <2>1 DEF Streams
  <2>5. ASSUME NEW s \in Streams
        PROVE  shown[s] = Outside(s)' /\ Collect(log, {s}) = Collect(written', {s})
    <3>1. shown = [r \in Streams |-> Outside(r)]
      BY <2>2 DEF Logged
    <3>2. Collect(log, {s}) = Collect(written, {s})
      BY DEF Logged, Same
    <3> QED
      BY <2>2, <3>1, <3>2 DEF Outside
  <2> QED
    BY <2>2, <2>3, <2>4, <2>5 DEF Logged
<1>10. ASSUME stage = "running", stage' # "ended", UNCHANGED output,
              NEW t, ReportText(t)
       PROVE  Logged'
  <2>1. Same(log, written)'
    BY <1>10 DEF Logged, Same, output
  <2>2. shown = [s \in Streams |-> Outside(s)]
    BY <1>10 DEF Logged
  <2>3. /\ shown' = [shown EXCEPT !["stderr"] = Append(@, t)]
        /\ reported' = Append(reported, t)
    BY <1>10 DEF ReportText
  <2>4. shown' = [s \in Streams |-> Outside(s)']
    BY <2>2, <2>3 DEF Outside, Streams
  <2> QED
    BY <1>10, <2>1, <2>4 DEF Logged
<1>11. CASE \E t \in Text : Report(t) \/ Crash(t)
  BY <1>10, <1>11 DEF Report, Crash
<1>12. CASE Abort
  BY <1>12 DEF Abort, output, Logged, Same, Outside
<1>13. CASE UNCHANGED vars
  BY <1>13 DEF vars, output, Logged, Same, Outside
<1> QED
  BY <1>3, <1>5, <1>6, <1>7, <1>8, <1>9, <1>11, <1>12, <1>13 DEF Next, Over

(* OutputLog: whatever is written, by whom and in what order, joining the   *)
(* writes to one stream changes neither stream nor their order; and the     *)
(* real streams get the beginning of what was written, at the end of the    *)
(* program and behind the reports of the Roc runtime.                      *)
THEOREM OutputUnchanged == Spec => []OutputKept
<1>1. Init => Logged
  <2> SUFFICES ASSUME Init
               PROVE  Logged
    OBVIOUS
  <2>1. <<>> \in Seq(Segments(Bytes))
    OBVIOUS
  <2> QED
    BY <2>1 DEF Init, Logged, Same, Outside
<1>2. Logged /\ [Next]_vars => Logged'
  BY LoggedStep
<1>3. Logged => OutputKept
  <2> SUFFICES ASSUME Logged PROVE OutputKept
    OBVIOUS
  <2>1. {{"stdout"}, {"stderr"}, Streams} \subseteq SUBSET Streams
    BY DEF Streams
  <2>2. \A streams \in {{"stdout"}, {"stderr"}, Streams} :
          Collect(log, streams) = Collect(written, streams)
    BY <2>1 DEF Logged, Same
  <2>3. stage # "ended" => \A s \in Streams : shown[s] = Outside(s)
    BY DEF Logged
  <2>4. stage = "ended" =>
          \A s \in Streams :
            \E b \in Beginnings(Collect(written, {s})) : shown[s] = Outside(s) \o b
    BY DEF Logged
  <2> QED
    BY <2>2, <2>3, <2>4 DEF OutputKept
<1> QED
  BY <1>1, <1>2, <1>3, PTL DEF Spec

=============================================================================
