-------------------------------- MODULE Jobs --------------------------------
(***************************************************************************)
(* The shell's job table (brush-core/src/jobs.rs) with everything that     *)
(* works on it: background lists and stopped pipelines that add jobs       *)
(* (interp.rs), the check before each prompt, and the builtins `wait`,     *)
(* `fg`, `bg` and `kill`.                                                  *)
(*                                                                         *)
(* The shell is one thread of control: while it waits it does nothing      *)
(* else, but its children end, stop and are continued at any moment.  A    *)
(* child's end is seen through the one future that holds its result, and   *)
(* a future must not be polled again once it has given that result.  A     *)
(* stop is seen through SIGCHLD and one waitid over all children, which    *)
(* says that some child has stopped and forgets that it said so.           *)
(***************************************************************************)
EXTENDS Integers, Sequences, SequencesExt, FiniteSetsExt

CONSTANTS
  Proc,       \* external processes
  Work,       \* tasks of the shell's own (background lists, subshells)
  MaxPipe,    \* bound of the model: commands in one pipeline
  None        \* absent value

Task == Proc \cup Work

ASSUME JobsAssumption ==
  /\ Proc \cap Work = {}
  /\ None \notin Task
  /\ MaxPipe \in Nat

VARIABLES
  table,      \* JobManager::jobs: records of an id, a note (its mark), a state and tasks
  run,        \* what the operating system or the runtime says of each task
  outcome,    \* how each task has ended
  taken,      \* the tasks whose future has given its result
  unseen,     \* the stopped processes waitid has not reported yet
  chld,       \* a SIGCHLD is pending at the listener of the present wait
  mode,       \* what the shell is doing: at the prompt, or waiting for what
  at,         \* the position in the table of the job it waits for
  front,      \* the foreground pipeline's children still to wait for
  kids,       \* the foreground pipeline's stopped children
  dropped     \* the children of a pipeline abandoned on an error

taskVars  == <<run, outcome, unseen>>
shellVars == <<mode, at, front, kids, dropped>>
vars == <<table, taskVars, taken, chld, shellVars>>

Outcomes == {"ok", "error", "panic"}
Pipelines == {s \in UNION {[1..n -> Task] : n \in 1..MaxPipe} : IsInjective(s)}

(* The future of t has a result to give. *)
Ready(t) == run[t] = "ended" /\ t \notin taken

(* The process a job is signalled through: its first one left. *)
Rep(job) ==
  LET procs == {i \in DOMAIN job.tasks : job.tasks[i] \in Proc}
  IN  IF procs = {} THEN None ELSE job.tasks[Min(procs)]
-----------------------------------------------------------------------------
Init ==
  /\ table = <<>>
  /\ run = [t \in Task |-> "fresh"]
  /\ outcome = [t \in Task |-> None]
  /\ taken = {} /\ unseen = {} /\ chld = FALSE
  /\ mode = "prompt" /\ at = 0
  /\ front = <<>> /\ kids = <<>> /\ dropped = {}
-----------------------------------------------------------------------------
(* JobManager.                                                             *)

(* The positions in K, the smallest first. *)
InOrder(K) ==
  CHOOSE s \in [1..Cardinality(K) -> K] :
    Range(s) = K /\ \A i, j \in DOMAIN s : i < j => s[i] < s[j]

(* The jobs that have tasks left, in the order they had. *)
Kept(jobs) ==
  LET places == InOrder({i \in DOMAIN jobs : jobs[i].tasks # <<>>})
  IN  [n \in DOMAIN places |-> jobs[places[n]]]

\* Variant: ids count the jobs there are.
NextIdByLength(jobs) == Len(jobs) + 1

(* The smallest id no job in the table has. *)
NextId(jobs) == Min((1..(Len(jobs) + 1)) \ {jobs[i].id : i \in DOMAIN jobs})

\* Variant: the job that was current keeps its mark.
DemoteNone(jobs) == jobs

(* The first job marked current becomes the previous one. *)
Demote(jobs) ==
  LET current == {i \in DOMAIN jobs : jobs[i].note = "Current"}
  IN  IF current = {} THEN jobs ELSE [jobs EXCEPT ![Min(current)].note = "Previous"]

AddAsCurrent(jobs, tasks, state) ==
  Append(Demote(jobs), [id |-> NextId(jobs), note |-> "Current", state |-> state, tasks |-> tasks])

\* Variant: a job is done when its last task is.
UnfinishedByLast(job) ==
  IF job.tasks # <<>> /\ ~Ready(Last(job.tasks)) THEN job.tasks ELSE <<>>

(* Job::poll_done takes results from the front as long as there are any; a  *)
(* task that panicked gives none.                                          *)
Unfinished(job) ==
  LET stuck == {i \in DOMAIN job.tasks :
                  ~Ready(job.tasks[i]) \/ outcome[job.tasks[i]] = "panic"}
  IN  IF stuck = {} THEN <<>> ELSE SubSeq(job.tasks, Min(stuck), Len(job.tasks))

(* Polling an exhausted future is a panic of the shell. *)
PollPanics(job) == Unfinished(job) # <<>> /\ Head(Unfinished(job)) \in taken

Polled(job) ==
  {t \in Range(job.tasks) :
     Ready(t) /\ (t \in Range(Unfinished(job)) => t = Head(Unfinished(job)))}

(* JobManager::poll, before each prompt. *)
CheckJobs ==
  /\ mode = "prompt"
  /\ ~\E i \in DOMAIN table : PollPanics(table[i])
  /\ table' = Kept([i \in DOMAIN table |-> [table[i] EXCEPT !.tasks = Unfinished(table[i])]])
  /\ taken' = taken \cup UNION {Polled(table[i]) : i \in DOMAIN table}
  /\ UNCHANGED <<taskVars, chld, shellVars>>

CheckJobsPanics ==
  /\ mode = "prompt"
  /\ \E i \in DOMAIN table : PollPanics(table[i])
  /\ mode' = "panicked"
  /\ UNCHANGED <<table, taskVars, taken, chld, at, front, kids, dropped>>
-----------------------------------------------------------------------------
(* Commands that start tasks.                                              *)

(* `list &`: the list runs in a task of the shell. *)
Background(w) ==
  /\ mode = "prompt" /\ run[w] = "fresh"
  /\ run' = [run EXCEPT ![w] = "running"]
  /\ table' = AddAsCurrent(table, <<w>>, "Running")
  /\ UNCHANGED <<outcome, unseen, taken, chld, shellVars>>

StartPipeline(s) ==
  /\ mode = "prompt"
  /\ \A t \in Range(s) : run[t] = "fresh"
  /\ run' = [t \in Task |-> IF t \in Range(s) THEN "running" ELSE run[t]]
  /\ mode' = "pipeline" /\ front' = s /\ kids' = <<>> /\ chld' = FALSE
  /\ UNCHANGED <<table, outcome, unseen, taken, at, dropped>>

(* A command of the pipeline cannot be started: those before it are let go. *)
PipelineSpawnFails(s) ==
  /\ mode = "prompt"
  /\ \A t \in Range(s) : run[t] = "fresh"
  /\ run' = [t \in Task |-> IF t \in Range(s) THEN "running" ELSE run[t]]
  /\ dropped' = dropped \cup Range(s)
  /\ UNCHANGED <<table, outcome, unseen, taken, chld, mode, at, front, kids>>

(* Waiting front to back; once one child has stopped, a process is not      *)
(* waited for any more, but a task of the shell still is.                  *)
PipeWaits(t) ==
  /\ mode = "pipeline" /\ front # <<>> /\ t = Head(front)
  /\ kids = <<>> \/ t \in Work

PipeTaskEnds(t) ==
  /\ PipeWaits(t) /\ Ready(t) /\ outcome[t] = "ok"
  /\ taken' = taken \cup {t}
  /\ front' = Tail(front) /\ chld' = FALSE
  /\ UNCHANGED <<table, taskVars, mode, at, kids, dropped>>

(* The error ends the wait for the whole pipeline. *)
PipeTaskFails(t) ==
  /\ PipeWaits(t) /\ Ready(t) /\ outcome[t] # "ok"
  /\ taken' = taken \cup {t}
  /\ dropped' = dropped \cup Range(kids) \cup (Range(front) \ {t})
  /\ front' = <<>> /\ kids' = <<>> /\ mode' = "prompt" /\ chld' = FALSE
  /\ UNCHANGED <<table, taskVars, at>>

(* poll_for_stopped_children, at a SIGCHLD: any child will do. *)
PipeTaskStops(t) ==
  /\ PipeWaits(t) /\ t \in Proc
  /\ chld /\ unseen # {}
  /\ unseen' = {}
  /\ kids' = <<t>> /\ front' = Tail(front) /\ chld' = FALSE
  /\ UNCHANGED <<table, run, outcome, taken, mode, at, dropped>>

\* Variant: only the child seen to stop is kept.
PipeTaskForgotten(t) ==
  /\ mode = "pipeline" /\ front # <<>> /\ t = Head(front)
  /\ kids # <<>> /\ t \in Proc
  /\ front' = Tail(front)
  /\ UNCHANGED <<table, taskVars, taken, chld, mode, at, kids, dropped>>

PipeTaskKept(t) ==
  /\ mode = "pipeline" /\ front # <<>> /\ t = Head(front)
  /\ kids # <<>> /\ t \in Proc
  /\ kids' = Append(kids, t) /\ front' = Tail(front)
  /\ UNCHANGED <<table, taskVars, taken, chld, mode, at, dropped>>

(* The stopped children become a job. *)
PipelineReturns ==
  /\ mode = "pipeline" /\ front = <<>>
  /\ table' = IF kids = <<>> THEN table ELSE AddAsCurrent(table, kids, "Stopped")
  /\ mode' = "prompt" /\ kids' = <<>>
  /\ UNCHANGED <<taskVars, taken, chld, at, front, dropped>>
-----------------------------------------------------------------------------
(* Builtins.  A job specification finds a job at some position.            *)

WaitFor(i) ==
  /\ mode = "prompt"
  /\ mode' = "wait" /\ at' = i /\ chld' = FALSE
  /\ UNCHANGED <<table, taskVars, taken, front, kids, dropped>>

WaitForAll ==
  /\ mode = "prompt"
  /\ mode' = "waitall" /\ at' = 1 /\ chld' = FALSE
  /\ UNCHANGED <<table, taskVars, taken, front, kids, dropped>>

(* A process that is stopped, or marked for reporting as stopped, runs on. *)
Continue(p) ==
  /\ run' = IF run[p] = "stopped" THEN [run EXCEPT ![p] = "running"] ELSE run
  /\ unseen' = unseen \ {p}

(* A stopped job is continued through one of its processes, then waited for. *)
Foreground(i) ==
  /\ mode = "prompt"
  /\ IF table[i].state = "Stopped"
     THEN /\ Rep(table[i]) # None
          /\ Continue(Rep(table[i]))
          /\ table' = [table EXCEPT ![i].state = "Running"]
     ELSE UNCHANGED <<table, run, unseen>>
  /\ mode' = "wait" /\ at' = i /\ chld' = FALSE
  /\ UNCHANGED <<outcome, taken, front, kids, dropped>>

(* The terminal cannot be given to the job. *)
ForegroundFails(i) ==
  /\ mode = "prompt"
  /\ table[i].state = "Stopped" /\ Rep(table[i]) # None
  /\ Continue(Rep(table[i]))
  /\ table' = [table EXCEPT ![i].state = "Running"]
  /\ UNCHANGED <<outcome, taken, chld, shellVars>>

(* Moving a job that is not stopped is an error that changes nothing. *)
ToBackground(i) ==
  /\ mode = "prompt"
  /\ table[i].state = "Stopped" /\ Rep(table[i]) # None
  /\ Continue(Rep(table[i]))
  /\ table' = [table EXCEPT ![i].state = "Running"]
  /\ UNCHANGED <<outcome, taken, chld, shellVars>>

(* Job::kill signals one process as well. *)
Kill(i) ==
  /\ mode = "prompt"
  /\ Rep(table[i]) # None
  /\ run[Rep(table[i])] \in {"running", "stopped"}
  /\ run' = [run EXCEPT ![Rep(table[i])] = "ended"]
  /\ outcome' = [outcome EXCEPT ![Rep(table[i])] = "ok"]
  /\ unseen' = unseen \ {Rep(table[i])}
  /\ UNCHANGED <<table, taken, chld, shellVars>>
-----------------------------------------------------------------------------
(* Job::wait, from the last task to the first.                             *)

Waits(t) ==
  /\ mode \in {"wait", "waitall"}
  /\ at \in DOMAIN table
  /\ table[at].tasks # <<>> /\ t = Last(table[at].tasks)

(* `wait` without arguments goes on to the next job. *)
NextJob ==
  IF mode = "waitall" THEN at' = at + 1 /\ mode' = mode
  ELSE at' = 0 /\ mode' = "prompt"

\* Variant: an end is looked for when a signal says so.
JobTaskEndsOnSignal(t) ==
  /\ Waits(t) /\ Ready(t) /\ outcome[t] = "ok"
  /\ t \in Proc => chld
  /\ taken' = taken \cup {t}
  /\ table' = [table EXCEPT ![at].tasks = Front(@)]
  /\ chld' = FALSE
  /\ UNCHANGED <<taskVars, shellVars>>

JobTaskEnds(t) ==
  /\ Waits(t) /\ Ready(t) /\ outcome[t] = "ok"
  /\ taken' = taken \cup {t}
  /\ table' = [table EXCEPT ![at].tasks = Front(@)]
  /\ chld' = FALSE
  /\ UNCHANGED <<taskVars, shellVars>>

(* The error leaves the task, with its future exhausted, in the job. *)
JobTaskFails(t) ==
  /\ Waits(t) /\ Ready(t) /\ outcome[t] # "ok"
  /\ taken' = taken \cup {t}
  /\ mode' = "prompt" /\ at' = 0 /\ chld' = FALSE
  /\ UNCHANGED <<table, taskVars, front, kids, dropped>>

JobTaskPanics(t) ==
  /\ Waits(t) /\ t \in taken
  /\ mode' = "panicked"
  /\ UNCHANGED <<table, taskVars, taken, chld, at, front, kids, dropped>>

\* Variant: a stop ends the wait for every job.
WaitEndsAtStop(t) ==
  /\ Waits(t) /\ t \in Proc
  /\ chld /\ unseen # {}
  /\ unseen' = {} /\ chld' = FALSE
  /\ table' = Kept([table EXCEPT ![at].state = "Stopped"])
  /\ mode' = "prompt" /\ at' = 0
  /\ UNCHANGED <<run, outcome, taken, front, kids, dropped>>

JobTaskStops(t) ==
  /\ Waits(t) /\ t \in Proc
  /\ chld /\ unseen # {}
  /\ unseen' = {} /\ chld' = FALSE
  /\ table' = [table EXCEPT ![at].state = "Stopped"]
  /\ NextJob
  /\ UNCHANGED <<run, outcome, taken, front, kids, dropped>>

(* SIGTSTP reaches the shell and the process in the foreground with it. *)
TerminalStop(t) ==
  /\ t \in Proc /\ run[t] # "ended"
  /\ run' = [run EXCEPT ![t] = "stopped"]
  /\ unseen' = IF run[t] = "running" THEN unseen \cup {t} ELSE unseen
  /\ chld' = FALSE
  /\ \/ /\ Waits(t)
        /\ table' = [table EXCEPT ![at].state = "Stopped"]
        /\ NextJob
        /\ UNCHANGED <<front, kids>>
     \/ /\ PipeWaits(t)
        /\ kids' = <<t>> /\ front' = Tail(front)
        /\ UNCHANGED <<table, mode, at>>
  /\ UNCHANGED <<outcome, taken, dropped>>

(* A SIGCHLD that no stop explains: the wait goes on. *)
IgnoreSignal(t) ==
  /\ Waits(t) \/ PipeWaits(t)
  /\ t \in Proc /\ chld /\ unseen = {}
  /\ chld' = FALSE
  /\ UNCHANGED <<table, taskVars, taken, shellVars>>

JobEnds ==
  /\ mode \in {"wait", "waitall"}
  /\ at \in DOMAIN table /\ table[at].tasks = <<>>
  /\ table' = [table EXCEPT ![at].state = "Done"]
  /\ NextJob
  /\ UNCHANGED <<taskVars, taken, chld, front, kids, dropped>>

(* sweep_completed_jobs. *)
WaitAllReturns ==
  /\ mode = "waitall" /\ at > Len(table)
  /\ table' = Kept(table)
  /\ mode' = "prompt" /\ at' = 0
  /\ UNCHANGED <<taskVars, taken, chld, front, kids, dropped>>
-----------------------------------------------------------------------------
(* What tasks do by themselves.                                            *)

TaskEnds(t) ==
  /\ run[t] = "running"
  /\ run' = [run EXCEPT ![t] = "ended"]
  /\ \E o \in IF t \in Work THEN Outcomes ELSE {"ok", "error"} :
       outcome' = [outcome EXCEPT ![t] = o]
  /\ chld' = (chld \/ (t \in Proc /\ mode # "prompt"))
  /\ UNCHANGED <<table, taken, unseen, shellVars>>

ProcessStops(p) ==
  /\ run[p] = "running"
  /\ run' = [run EXCEPT ![p] = "stopped"]
  /\ unseen' = unseen \cup {p}
  /\ chld' = (mode # "prompt")
  /\ UNCHANGED <<table, outcome, taken, shellVars>>
-----------------------------------------------------------------------------
(* What the shell does by itself while it waits. *)
Waiting ==
  \/ \E t \in Task :
       \/ PipeTaskEnds(t) \/ PipeTaskFails(t) \/ PipeTaskStops(t) \/ PipeTaskKept(t)
       \/ JobTaskEnds(t) \/ JobTaskFails(t) \/ JobTaskPanics(t) \/ JobTaskStops(t)
       \/ IgnoreSignal(t)
  \/ PipelineReturns \/ JobEnds \/ WaitAllReturns

Command ==
  \/ CheckJobs \/ CheckJobsPanics
  \/ \E w \in Work : Background(w)
  \/ \E s \in Pipelines : StartPipeline(s) \/ PipelineSpawnFails(s)
  \/ WaitForAll
  \/ \E i \in DOMAIN table :
       WaitFor(i) \/ Foreground(i) \/ ForegroundFails(i) \/ ToBackground(i) \/ Kill(i)

Panicked == mode = "panicked" /\ UNCHANGED vars

Next ==
  \/ Command \/ Waiting
  \/ \E t \in Task : TaskEnds(t) \/ TerminalStop(t)
  \/ \E p \in Proc : ProcessStops(p)
  \/ Panicked

Spec == Init /\ [][Next]_vars

(* The runtime schedules the shell; nothing is assumed of the commands, of  *)
(* how long they run or of who stops them.                                 *)
FairSpec == Spec /\ WF_vars(Waiting)
-----------------------------------------------------------------------------
(* No two jobs in the table share an id, whatever has been removed between  *)
(* two additions: a job specification names one job (next_id).             *)
IdsDistinct ==
  \A i, j \in DOMAIN table : i # j => table[i].id # table[j].id

(* The job marked current is the newest in the table, so `%+` never names an *)
(* older one, even when the newest has left (add_as_current, current_job).  *)
CurrentIsNewest ==
  \A i \in DOMAIN table : table[i].note = "Current" => i = Len(table)

(* A process that has not ended is in one job, or in the pipeline in the    *)
(* foreground, or was let go with a pipeline that failed: a stop in the     *)
(* middle of a pipeline loses none of its processes.                       *)
NoProcessLost ==
  \A p \in Proc :
    run[p] \in {"running", "stopped"} =>
      \/ \E i \in DOMAIN table : p \in Range(table[i].tasks)
      \/ p \in Range(front) \cup Range(kids) \cup dropped

(* A job leaves the table only when all its tasks have ended                *)
(* (poll_done, sweep_completed_jobs).                                      *)
LeavesWhenEnded ==
  [][\A i \in DOMAIN table :
       table[i].id \notin {table'[j].id : j \in DOMAIN table'} =>
         \A t \in Range(table[i].tasks) : run[t] = "ended"]_vars

(* `wait` without arguments that returns has left only jobs it was told are *)
(* stopped (wait_all).                                                     *)
WaitAllWaits ==
  [][mode = "waitall" /\ mode' = "prompt" =>
       \/ \A j \in DOMAIN table' : table'[j].state = "Stopped"
       \/ \E t \in Task : t \in taken' \ taken /\ outcome[t] # "ok"]_vars

(* The shell never goes on waiting for a task that has ended, even one that *)
(* ended before the wait began (ChildProcess::wait, JobTask::wait).        *)
EndIsSeen ==
  \A t \in Task : (Waits(t) \/ PipeWaits(t)) /\ run[t] = "ended" ~> ~(Waits(t) \/ PipeWaits(t))

(* jobs.rs:64-67: poll gives a result or None, "Behaves in a best-effort    *)
(* manner": the shell survives any job it looks at, as often as it looks.  *)
NeverPanics == mode # "panicked"
=============================================================================
