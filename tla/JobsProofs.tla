----------------------------- MODULE JobsProofs -----------------------------
(***************************************************************************)
(* Theorems about Jobs, for any processes, any tasks of the shell and      *)
(* pipelines of any length.                                                *)
(***************************************************************************)
EXTENDS Jobs, FiniteSetTheorems, WellFoundedInduction, TLAPS

-----------------------------------------------------------------------------
(* The inductive invariant: the types of the variables, the three invariants *)
(* of the table, and what the shell keeps between its steps.               *)
JobType == [id : Nat \ {0}, note : {"Current", "Previous"},
            state : {"Running", "Stopped", "Done"}, tasks : Seq(Task)]

TypeOK ==
  /\ table \in Seq(JobType)
  /\ run \in [Task -> {"fresh", "running", "stopped", "ended"}]
  /\ outcome \in [Task -> Outcomes \cup {None}]
  /\ taken \subseteq Task /\ unseen \subseteq Proc
  /\ mode \in {"prompt", "pipeline", "wait", "waitall", "panicked"} /\ at \in Nat
  /\ front \in Seq(Task) /\ kids \in Seq(Proc) /\ dropped \subseteq Task

(* Only a pipeline in the foreground has children to wait for.             *)
OnlyThePipeline == mode # "pipeline" => front = <<>> /\ kids = <<>>

(* `wait` without arguments leaves behind it jobs that have ended, or that  *)
(* it was told are stopped.                                                *)
Passed ==
  mode = "waitall" =>
    \A i \in DOMAIN table : i < at => table[i].tasks = <<>> \/ table[i].state = "Stopped"

Inv == TypeOK /\ OnlyThePipeline /\ Passed /\ IdsDistinct /\ CurrentIsNewest /\ NoProcessLost

-----------------------------------------------------------------------------
(* Numbers and positions.                                                  *)

(* A set of natural numbers that is not empty has a smallest element.       *)
LEMMA Smallest ==
  ASSUME NEW S, S \subseteq Nat, S # {}
  PROVE  Min(S) \in S /\ \A n \in S : Min(S) <= n
<1>1. IsWellFoundedOn(OpToRel(<, Nat), Nat)
  BY NatLessThanWellFounded
<1>2. PICK x \in S : \A y \in S : ~(<<y, x>> \in OpToRel(<, Nat))
  BY <1>1, WFMin
<1>3. \A y \in S : ~(y < x)
  BY <1>2 DEF OpToRel
<1>4. \A y \in S : x <= y
  BY <1>3
<1> QED
  BY <1>4 DEF Min

(* What holds of 0, and of the next number whenever of a number, holds      *)
(* as far as one counts.                                                   *)
LEMMA Counting ==
  ASSUME NEW T, NEW n \in Nat, 0 \in T, \A i \in 0..(n - 1) : i \in T => i + 1 \in T
  PROVE  n \in T
<1> DEFINE Missed == {i \in 0..n : i \notin T}
<1> SUFFICES ASSUME Missed # {} PROVE FALSE
  OBVIOUS
<1>1. Missed \subseteq Nat
  OBVIOUS
<1>2. Min(Missed) \in Missed /\ \A i \in Missed : Min(Missed) <= i
  BY <1>1, Smallest
<1> DEFINE x == Min(Missed)
<1> HIDE DEF x
<1>3. x \in Missed /\ \A i \in Missed : x <= i
  BY <1>2 DEF x
<1>4. x # 0 /\ x - 1 \in 0..(n - 1) /\ x - 1 \notin Missed /\ x - 1 \in 0..n
  BY <1>3
<1> QED
  BY <1>3, <1>4

(* Positions can be put in order.                                          *)
LEMMA Ordered ==
  ASSUME NEW n \in Nat, NEW K \in SUBSET (1..n)
  PROVE  \E s \in Seq(K) :
           Range(s) = K /\ \A i, j \in DOMAIN s : i < j => s[i] < s[j]
<1> DEFINE T == {m \in 0..n : \E s \in Seq(K) :
                   /\ Range(s) = K \cap (1..m)
                   /\ \A i, j \in DOMAIN s : i < j => s[i] < s[j]}
<1>1. 0 \in T
  <2>1. \A e \in Seq(K) : e = <<>> => DOMAIN e = {} /\ Range(e) = {}
    BY DEF Range
  <2>2. \E e \in Seq(K) : e = <<>>
    <3>1. <<>> \in Seq(K)
      OBVIOUS
    <3> QED
      BY <3>1, Zenon
  <2>3. PICK e \in Seq(K) : DOMAIN e = {} /\ Range(e) = {}
    BY <2>1, <2>2
  <2>4. Range(e) = K \cap (1..0) /\ \A i, j \in DOMAIN e : i < j => e[i] < e[j]
    BY <2>3
  <2> QED
    BY <2>4
<1>2. ASSUME NEW m \in 0..(n - 1), m \in T
      PROVE  m + 1 \in T
  <2>1. PICK s \in Seq(K) : /\ Range(s) = K \cap (1..m)
                            /\ \A i, j \in DOMAIN s : i < j => s[i] < s[j]
    BY <1>2
  <2>2. CASE m + 1 \notin K
    <3>1. K \cap (1..(m + 1)) = K \cap (1..m)
      BY <2>2
    <3> QED
      BY <2>1, <3>1
  <2>3. CASE m + 1 \in K
    <3> DEFINE u == Append(s, m + 1)
    <3>1. /\ u \in Seq(K) /\ Len(u) = Len(s) + 1 /\ u[Len(s) + 1] = m + 1
          /\ \A i \in 1..Len(s) : u[i] = s[i]
      BY <2>3
    <3> HIDE DEF u
    <3>2. DOMAIN u = 1..(Len(s) + 1) /\ DOMAIN s = 1..Len(s) /\ Len(s) \in Nat
      BY <3>1
    <3>3. \A i \in DOMAIN s : s[i] \in K /\ s[i] \in 1..m
      BY <2>1 DEF Range
    <3>4. Range(u) = K \cap (1..(m + 1))
      <4>1. Range(u) = Range(s) \cup {m + 1}
        BY <3>1, <3>2 DEF Range
      <4> QED
        BY <2>1, <2>3, <4>1
    <3>5. \A i, j \in DOMAIN u : i < j => u[i] < u[j]
      BY <2>1, <3>1, <3>2, <3>3
    <3> QED
      BY <3>1, <3>4, <3>5
  <2> QED
    BY <2>2, <2>3
<1>3. n \in T
  BY <1>1, <1>2, Counting
<1> QED
  BY <1>3

(* InOrder is defined: it lists each of the positions once.                *)
LEMMA InOrderLists ==
  ASSUME NEW n \in Nat, NEW K \in SUBSET (1..n)
  PROVE  /\ Cardinality(K) \in Nat
         /\ InOrder(K) \in [1..Cardinality(K) -> K]
         /\ Range(InOrder(K)) = K
         /\ \A i, j \in DOMAIN InOrder(K) : i < j => InOrder(K)[i] < InOrder(K)[j]
<1>1. PICK s \in Seq(K) :
        Range(s) = K /\ \A i, j \in DOMAIN s : i < j => s[i] < s[j]
  BY Ordered
<1>2. s \in [1..Len(s) -> K] /\ Len(s) \in Nat /\ DOMAIN s = 1..Len(s)
  OBVIOUS
<1>3. s \in Bijection(1..Len(s), K)
  <2>1. \A i, j \in 1..Len(s) : s[i] = s[j] => i = j
    <3> SUFFICES ASSUME NEW i \in 1..Len(s), NEW j \in 1..Len(s), s[i] = s[j], i # j
                 PROVE  FALSE
      OBVIOUS
    <3>1. s[i] \in 1..n /\ s[j] \in 1..n
      BY <1>2
    <3>2. i < j \/ j < i
      BY <1>2
    <3> QED
      BY <1>1, <1>2, <3>1, <3>2
  <2>2. \A x \in K : \E i \in 1..Len(s) : s[i] = x
    BY <1>1, <1>2 DEF Range
  <2> QED
    BY <1>2, <2>1, <2>2 DEF Bijection, Injection, IsInjective, Surjection
<1>4. Cardinality(K) = Len(s)
  <2>1. IsFiniteSet(1..Len(s)) /\ Cardinality(1..Len(s)) = Len(s)
    BY <1>2, FS_Interval
  <2> QED
    BY <1>3, <2>1, FS_Bijection DEF ExistsBijection
<1> DEFINE Listing(u) == Range(u) = K /\ \A i, j \in DOMAIN u : i < j => u[i] < u[j]
           Listings == [1..Cardinality(K) -> K]
<1>5. s \in Listings /\ Listing(s)
  BY <1>1, <1>2, <1>4
<1>6. InOrder(K) = CHOOSE u \in Listings : Listing(u)
  BY DEF InOrder
<1> HIDE DEF Listing, Listings
<1>7. InOrder(K) \in Listings /\ Listing(InOrder(K))
  BY <1>5, <1>6
<1> QED
  BY <1>2, <1>4, <1>7 DEF Listing, Listings

(* What is kept of a table: the jobs with tasks left, each where its        *)
(* neighbours expect it (sweep_completed_jobs).                            *)
LEMMA KeptJobs ==
  ASSUME NEW jobs \in Seq(JobType)
  PROVE  /\ Kept(jobs) \in Seq(JobType)
         /\ \E place \in [1..Len(Kept(jobs)) -> DOMAIN jobs] :
              /\ \A n \in DOMAIN Kept(jobs) :
                   Kept(jobs)[n] = jobs[place[n]] /\ jobs[place[n]].tasks # <<>>
              /\ \A m, n \in DOMAIN Kept(jobs) : m < n => place[m] < place[n]
              /\ \A i \in DOMAIN jobs :
                   jobs[i].tasks # <<>> => \E n \in DOMAIN Kept(jobs) : place[n] = i
<1> DEFINE K == {i \in DOMAIN jobs : jobs[i].tasks # <<>>}
           place == InOrder(K)
           c == Cardinality(K)
<1>1. Len(jobs) \in Nat /\ DOMAIN jobs = 1..Len(jobs) /\ K \in SUBSET (1..Len(jobs))
  OBVIOUS
<1>2. /\ c \in Nat /\ place \in [1..c -> K] /\ Range(place) = K
      /\ \A i, j \in DOMAIN place : i < j => place[i] < place[j]
  BY <1>1, InOrderLists
<1>3. Kept(jobs) = [n \in DOMAIN place |-> jobs[place[n]]]
  BY DEF Kept
<1> HIDE DEF place, c
<1>4. DOMAIN place = 1..c /\ place \in [1..c -> DOMAIN jobs]
  BY <1>2
<1>5. Kept(jobs) = [n \in 1..c |-> jobs[place[n]]]
  BY <1>3, <1>4
<1>6. \A n \in 1..c : jobs[place[n]] \in JobType
  BY <1>4
<1>7. Kept(jobs) \in Seq(JobType) /\ Len(Kept(jobs)) = c /\ DOMAIN Kept(jobs) = 1..c
  BY <1>2, <1>5, <1>6
<1>8. \A n \in 1..c : Kept(jobs)[n] = jobs[place[n]] /\ jobs[place[n]].tasks # <<>>
  BY <1>2, <1>5
<1>9. \A i \in DOMAIN jobs : jobs[i].tasks # <<>> => \E n \in 1..c : place[n] = i
  BY <1>2, <1>4 DEF Range
<1>10. \A m, n \in 1..c : m < n => place[m] < place[n]
  BY <1>2, <1>4
<1> DEFINE left == Kept(jobs)
<1> HIDE DEF K, left
<1> SUFFICES /\ left \in Seq(JobType)
             /\ \E u \in [1..Len(left) -> DOMAIN jobs] :
                  /\ \A n \in DOMAIN left : left[n] = jobs[u[n]] /\ jobs[u[n]].tasks # <<>>
                  /\ \A m, n \in DOMAIN left : m < n => u[m] < u[n]
                  /\ \A i \in DOMAIN jobs :
                       jobs[i].tasks # <<>> => \E n \in DOMAIN left : u[n] = i
  BY DEF left
<1>11. left \in Seq(JobType) /\ Len(left) = c /\ DOMAIN left = 1..c
  BY <1>7 DEF left
<1>12. \A n \in 1..c : left[n] = jobs[place[n]] /\ jobs[place[n]].tasks # <<>>
  BY <1>8 DEF left
<1>13. /\ place \in [1..Len(left) -> DOMAIN jobs]
       /\ \A n \in DOMAIN left : left[n] = jobs[place[n]] /\ jobs[place[n]].tasks # <<>>
       /\ \A m, n \in DOMAIN left : m < n => place[m] < place[n]
       /\ \A i \in DOMAIN jobs :
            jobs[i].tasks # <<>> => \E n \in DOMAIN left : place[n] = i
  BY <1>4, <1>9, <1>10, <1>11, <1>12
<1> QED
  BY <1>11, <1>13, Zenon

(* The id a new job gets is one no job has (next_id).                       *)
LEMMA NextIdFree ==
  ASSUME NEW jobs \in Seq(JobType)
  PROVE  NextId(jobs) \in Nat \ {0} /\ \A i \in DOMAIN jobs : jobs[i].id # NextId(jobs)
<1> DEFINE n == Len(jobs)
           Ids == {jobs[i].id : i \in DOMAIN jobs}
<1>1. n \in Nat /\ DOMAIN jobs = 1..n
  OBVIOUS
<1>2. (1..(n + 1)) \ Ids # {}
  <2> SUFFICES ASSUME 1..(n + 1) \subseteq Ids PROVE FALSE
    OBVIOUS
  <2> DEFINE holder == [x \in 1..(n + 1) |-> CHOOSE i \in 1..n : jobs[i].id = x]
  <2>1. \A x \in 1..(n + 1) : holder[x] \in 1..n /\ jobs[holder[x]].id = x
    BY <1>1
  <2> HIDE DEF holder
  <2>2. holder \in [1..(n + 1) -> 1..n]
    BY <2>1 DEF holder
  <2>3. /\ IsFiniteSet(1..(n + 1)) /\ Cardinality(1..(n + 1)) = n + 1
        /\ IsFiniteSet(1..n) /\ Cardinality(1..n) = n
    BY <1>1, FS_Interval
  <2>4. \E x, y \in 1..(n + 1) : x # y /\ holder[x] = holder[y]
    <3> DEFINE A == 1..(n + 1)
               B == 1..n
    <3>1. /\ IsFiniteSet(A) /\ IsFiniteSet(B) /\ Cardinality(B) < Cardinality(A)
          /\ holder \in [A -> B]
      BY <1>1, <2>2, <2>3
    <3> HIDE DEF A, B
    <3>2. \E x, y \in A : x # y /\ holder[x] = holder[y]
      BY <3>1, FS_PigeonHole
    <3> QED
      BY <3>2 DEF A
  <2> QED
    BY <2>1, <2>4
<1>3. NextId(jobs) = Min((1..(n + 1)) \ Ids)
  BY DEF NextId
<1>4. (1..(n + 1)) \ Ids \subseteq Nat
  OBVIOUS
<1>5. NextId(jobs) \in (1..(n + 1)) \ Ids
  BY <1>2, <1>3, <1>4, Smallest
<1> QED
  BY <1>1, <1>5


(* Adding a job changes no other, save that none of them is current any    *)
(* more where only the newest was (add_as_current).                        *)
LEMMA Demoted ==
  ASSUME NEW jobs \in Seq(JobType)
  PROVE  /\ Demote(jobs) \in Seq(JobType) /\ Len(Demote(jobs)) = Len(jobs)
         /\ \A i \in DOMAIN jobs :
              /\ Demote(jobs)[i].id = jobs[i].id
              /\ Demote(jobs)[i].state = jobs[i].state
              /\ Demote(jobs)[i].tasks = jobs[i].tasks
         /\ (\A i \in DOMAIN jobs : jobs[i].note = "Current" => i = Len(jobs))
              => \A i \in DOMAIN jobs : Demote(jobs)[i].note # "Current"
<1> DEFINE current == {i \in DOMAIN jobs : jobs[i].note = "Current"}
           m == Min(current)
<1>0. DOMAIN jobs = 1..Len(jobs) /\ Len(jobs) \in Nat
  OBVIOUS
<1>1. CASE current = {}
  <2>1. Demote(jobs) = jobs
    BY <1>1 DEF Demote
  <2> QED
    BY <1>1, <2>1
<1>2. CASE current # {}
  <2>1. m \in current
    <3>1. current \subseteq Nat
      BY <1>0
    <3> HIDE DEF current
    <3> QED
      BY <1>2, <3>1, Smallest
  <2>2. Demote(jobs) = [jobs EXCEPT ![m].note = "Previous"]
    BY <1>2 DEF Demote
  <2> HIDE DEF m
  <2>3. m \in 1..Len(jobs) /\ jobs[m].note = "Current"
    BY <1>0, <2>1
  <2> DEFINE less == [jobs[m] EXCEPT !.note = "Previous"]
  <2>4. /\ less \in JobType /\ less.note = "Previous" /\ less.id = jobs[m].id
        /\ less.state = jobs[m].state /\ less.tasks = jobs[m].tasks
    <3>1. jobs[m] \in JobType
      BY <2>3
    <3> QED
      BY <3>1 DEF JobType
  <2>5. Demote(jobs) = [jobs EXCEPT ![m] = less]
    BY <2>2
  <2> HIDE DEF less
  <2>6. /\ Demote(jobs) \in Seq(JobType) /\ Len(Demote(jobs)) = Len(jobs)
        /\ \A i \in DOMAIN jobs : Demote(jobs)[i] = IF i = m THEN less ELSE jobs[i]
    BY <1>0, <2>3, <2>4, <2>5
  <2> QED
    BY <1>0, <2>3, <2>4, <2>6
<1> QED
  BY <1>1, <1>2

Extends(more, jobs, tasks) ==
  /\ more \in Seq(JobType) /\ Len(more) = Len(jobs) + 1
  /\ more[Len(more)].tasks = tasks
  /\ \A i \in DOMAIN jobs :
       /\ more[i].id = jobs[i].id /\ more[i].tasks = jobs[i].tasks
       /\ more[i].id # more[Len(more)].id
  /\ (\A i \in DOMAIN jobs : jobs[i].note = "Current" => i = Len(jobs))
       => \A i \in DOMAIN more : more[i].note = "Current" => i = Len(more)

LEMMA Added ==
  ASSUME NEW jobs \in Seq(JobType), NEW tasks \in Seq(Task), NEW state \in {"Running", "Stopped"},
         NEW more, more = AddAsCurrent(jobs, tasks, state)
  PROVE  Extends(more, jobs, tasks)
<1> DEFINE job == [id |-> NextId(jobs), note |-> "Current", state |-> state, tasks |-> tasks]
           less == Demote(jobs)
<1>1. job \in JobType /\ job.tasks = tasks /\ \A i \in DOMAIN jobs : job.id # jobs[i].id
  BY NextIdFree DEF JobType
<1>2. AddAsCurrent(jobs, tasks, state) = Append(less, job)
  BY DEF AddAsCurrent
<1>3. /\ less \in Seq(JobType) /\ Len(less) = Len(jobs)
      /\ \A i \in DOMAIN jobs :
           less[i].id = jobs[i].id /\ less[i].tasks = jobs[i].tasks
      /\ (\A i \in DOMAIN jobs : jobs[i].note = "Current" => i = Len(jobs))
           => \A i \in DOMAIN jobs : less[i].note # "Current"
  BY Demoted
<1> HIDE DEF job, less
<1>6. more = Append(less, job)
  BY <1>2
<1>4. /\ more \in Seq(JobType) /\ Len(more) = Len(jobs) + 1 /\ more[Len(more)] = job
      /\ \A i \in 1..Len(jobs) : more[i] = less[i]
      /\ DOMAIN more = 1..(Len(jobs) + 1)
  BY <1>1, <1>3, <1>6
<1>5. DOMAIN jobs = 1..Len(jobs) /\ Len(jobs) \in Nat
  OBVIOUS
<1>7. \A i \in DOMAIN jobs :
        /\ more[i].id = jobs[i].id /\ more[i].tasks = jobs[i].tasks
        /\ more[i].id # more[Len(more)].id
  BY <1>1, <1>3, <1>4, <1>5
<1>8. (\A i \in DOMAIN jobs : jobs[i].note = "Current" => i = Len(jobs))
        => \A i \in DOMAIN more : more[i].note = "Current" => i = Len(more)
  BY <1>3, <1>4, <1>5
<1> QED
  BY <1>1, <1>4, <1>7, <1>8 DEF Extends

(* A poll takes a task from a job only with the result it gives (poll_done). *)
LEMMA Taken ==
  ASSUME NEW job \in JobType
  PROVE  /\ Unfinished(job) \in Seq(Task)
         /\ \A t \in Range(job.tasks) : t \in Range(Unfinished(job)) \/ run[t] = "ended"
<1> DEFINE s == job.tasks
           stuck == {i \in DOMAIN s : ~Ready(s[i]) \/ outcome[s[i]] = "panic"}
           m == Min(stuck)
<1>0. s \in Seq(Task) /\ Len(s) \in Nat /\ DOMAIN s = 1..Len(s)
  BY DEF JobType
<1>1. Unfinished(job) = IF stuck = {} THEN <<>> ELSE SubSeq(s, m, Len(s))
  BY DEF Unfinished
<1>2. \A i \in DOMAIN s : i \notin stuck => run[s[i]] = "ended"
  BY DEF Ready
<1>3. stuck \subseteq 1..Len(s)
  BY <1>0
<1> HIDE DEF stuck
<1>4. CASE stuck = {}
  <2>1. Unfinished(job) = <<>>
    BY <1>1, <1>4
  <2>2. \A t \in Range(s) : run[t] = "ended"
    BY <1>2, <1>4 DEF Range
  <2> QED
    BY <2>1, <2>2
<1>5. CASE stuck # {}
  <2>1. m \in stuck /\ \A i \in stuck : m <= i
    <3>1. stuck \subseteq Nat
      BY <1>3
    <3> QED
      BY <1>5, <3>1, Smallest
  <2> HIDE DEF m
  <2> DEFINE u == SubSeq(s, m, Len(s))
  <2>2. m \in 1..Len(s)
    BY <1>3, <2>1
  <2> HIDE DEF s
  <2>3. /\ u \in Seq(Task) /\ DOMAIN u = 1..(Len(s) - m + 1)
        /\ \A j \in 1..(Len(s) - m + 1) : u[j] = s[m + j - 1]
    BY <1>0, <2>2
  <2>4. Unfinished(job) = u
    BY <1>1, <1>5
  <2> HIDE DEF u
  <2>5. ASSUME NEW i \in DOMAIN s
        PROVE  s[i] \in Range(u) \/ run[s[i]] = "ended"
    <3>1. CASE i < m
      BY <1>2, <2>1, <3>1, <1>0, <2>2
    <3>2. CASE i >= m
      <4>1. i - m + 1 \in 1..(Len(s) - m + 1) /\ m + (i - m + 1) - 1 = i
        BY <1>0, <2>2, <3>2
      <4>2. s[i] = u[i - m + 1]
        BY <2>3, <4>1
      <4> QED
        BY <2>3, <4>1, <4>2 DEF Range
    <3> QED
      BY <1>0, <2>2, <3>1, <3>2
  <2> QED
    BY <2>3, <2>4, <2>5 DEF Range, s
<1> QED
  BY <1>4, <1>5


-----------------------------------------------------------------------------
(* What a step does to the table.                                          *)

(* The jobs are those of the table, under their ids and marks, and any task *)
(* a job has lost has ended.                                               *)
Alike(jobs) ==
  /\ jobs \in Seq(JobType) /\ Len(jobs) = Len(table)
  /\ \A i \in DOMAIN table :
       /\ jobs[i].id = table[i].id /\ jobs[i].note = table[i].note
       /\ \A t \in Range(table[i].tasks) : t \in Range(jobs[i].tasks) \/ run[t] = "ended"

TableStep ==
  \/ Alike(table')
  \/ \E jobs \in Seq(JobType) : Alike(jobs) /\ table' = Kept(jobs)
  \/ \E tasks \in Seq(Task), state \in {"Running", "Stopped"} :
       table' = AddAsCurrent(table, tasks, state)

LEMMA Ends ==
  ASSUME NEW S, NEW s \in Seq(S), s # <<>>
  PROVE  /\ Head(s) \in S /\ Tail(s) \in Seq(S) /\ Range(s) = {Head(s)} \cup Range(Tail(s))
         /\ Last(s) \in S /\ Front(s) \in Seq(S) /\ Range(s) = Range(Front(s)) \cup {Last(s)}
<1>1. /\ Len(s) \in Nat \ {0} /\ DOMAIN s = 1..Len(s)
      /\ Head(s) = s[1] /\ Head(s) \in S /\ Last(s) = s[Len(s)] /\ Last(s) \in S
  BY DEF Last
<1> DEFINE t == Tail(s)
           f == Front(s)
<1>2. /\ t \in Seq(S) /\ Len(t) = Len(s) - 1 /\ DOMAIN t = 1..(Len(s) - 1)
      /\ \A i \in 1..(Len(s) - 1) : t[i] = s[i + 1]
  BY <1>1
<1>3. /\ f \in Seq(S) /\ Len(f) = Len(s) - 1 /\ DOMAIN f = 1..(Len(s) - 1)
      /\ \A i \in 1..(Len(s) - 1) : f[i] = s[i]
  BY <1>1 DEF Front
<1> HIDE DEF t, f
<1>4. Range(s) = {s[1]} \cup Range(t)
  <2>1. ASSUME NEW i \in 1..Len(s)
        PROVE  s[i] \in {s[1]} \cup Range(t)
    <3>1. i = 1 \/ (i - 1 \in 1..(Len(s) - 1) /\ s[(i - 1) + 1] = s[i])
      BY <1>1
    <3> QED
      BY <1>2, <3>1 DEF Range
  <2>2. ASSUME NEW i \in 1..(Len(s) - 1)
        PROVE  t[i] \in Range(s)
    <3>1. i + 1 \in 1..Len(s)
      BY <1>1
    <3> QED
      BY <1>1, <1>2, <3>1 DEF Range
  <2>3. s[1] \in Range(s)
    BY <1>1 DEF Range
  <2>4. Range(s) \subseteq {s[1]} \cup Range(t) /\ Range(t) \subseteq Range(s)
    <3>1. \A x \in Range(s) : \E i \in 1..Len(s) : x = s[i]
      BY <1>1 DEF Range
    <3>2. \A x \in Range(t) : \E i \in 1..(Len(s) - 1) : x = t[i]
      BY <1>2 DEF Range
    <3> QED
      BY <2>1, <2>2, <3>1, <3>2
  <2> QED
    BY <2>3, <2>4
<1>5. Range(s) = Range(f) \cup {s[Len(s)]}
  <2>1. ASSUME NEW i \in 1..Len(s)
        PROVE  s[i] \in Range(f) \cup {s[Len(s)]}
    <3>1. i = Len(s) \/ i \in 1..(Len(s) - 1)
      <4>1. \A n \in Nat \ {0} : \A j \in 1..n : j = n \/ j \in 1..(n - 1)
        OBVIOUS
      <4>2. Len(s) \in Nat \ {0}
        BY <1>1
      <4> QED
        BY <4>1, <4>2
    <3> QED
      BY <1>3, <3>1 DEF Range
  <2>2. ASSUME NEW i \in 1..(Len(s) - 1)
        PROVE  f[i] \in Range(s)
    <3>1. i \in 1..Len(s)
      BY <1>1
    <3> QED
      BY <1>1, <1>3, <3>1 DEF Range
  <2>3. s[Len(s)] \in Range(s)
    BY <1>1 DEF Range
  <2>4. Range(s) \subseteq Range(f) \cup {s[Len(s)]} /\ Range(f) \subseteq Range(s)
    <3>1. \A x \in Range(s) : \E i \in 1..Len(s) : x = s[i]
      BY <1>1 DEF Range
    <3>2. \A x \in Range(f) : \E i \in 1..(Len(s) - 1) : x = f[i]
      BY <1>3 DEF Range
    <3> QED
      BY <2>1, <2>2, <3>1, <3>2
  <2> QED
    BY <2>3, <2>4
<1> QED
  BY <1>1, <1>2, <1>3, <1>4, <1>5 DEF t, f

(* One job changes its state, or loses its last task.                      *)
LEMMA OneChanges ==
  ASSUME TypeOK, NEW i \in DOMAIN table, NEW job \in JobType,
         job.id = table[i].id, job.note = table[i].note,
         \A t \in Range(table[i].tasks) : t \in Range(job.tasks) \/ run[t] = "ended"
  PROVE  /\ Alike([table EXCEPT ![i] = job])
         /\ \A j \in DOMAIN table : [table EXCEPT ![i] = job][j] = IF j = i THEN job ELSE table[j]
<1>1. table \in Seq(JobType) /\ i \in 1..Len(table) /\ DOMAIN table = 1..Len(table)
  BY DEF TypeOK
<1> DEFINE jobs == [table EXCEPT ![i] = job]
<1>2. /\ jobs \in Seq(JobType) /\ Len(jobs) = Len(table)
      /\ \A j \in DOMAIN table : jobs[j] = IF j = i THEN job ELSE table[j]
  BY <1>1
<1> HIDE DEF jobs
<1>3. Alike(jobs)
  BY <1>2 DEF Alike
<1> QED
  BY <1>2, <1>3 DEF jobs

Moved(jobs, i, state) ==
  /\ Alike(jobs) /\ jobs[i].state = state
  /\ \A j \in DOMAIN table : jobs[j].tasks = table[j].tasks /\ (j # i => jobs[j] = table[j])

LEMMA StateSet ==
  ASSUME TypeOK, NEW i \in DOMAIN table, NEW state \in {"Running", "Stopped", "Done"},
         NEW jobs, jobs = [table EXCEPT ![i].state = state]
  PROVE  Moved(jobs, i, state)
<1>1. table[i] \in JobType
  BY DEF TypeOK
<1> DEFINE job == [table[i] EXCEPT !.state = state]
<1>2. /\ job \in JobType /\ job.id = table[i].id /\ job.note = table[i].note
      /\ job.tasks = table[i].tasks /\ job.state = state
  BY <1>1 DEF JobType
<1>3. [table EXCEPT ![i].state = state] = [table EXCEPT ![i] = job]
  OBVIOUS
<1> HIDE DEF job
<1>4. /\ Alike([table EXCEPT ![i] = job])
      /\ \A j \in DOMAIN table : [table EXCEPT ![i] = job][j] = IF j = i THEN job ELSE table[j]
  BY <1>2, OneChanges
<1> QED
  BY <1>2, <1>3, <1>4 DEF Moved

LEMMA LastTaken ==
  ASSUME TypeOK, NEW t, Waits(t), run[t] = "ended",
         NEW jobs, jobs = [table EXCEPT ![at].tasks = Front(@)]
  PROVE  Alike(jobs) /\ \A j \in DOMAIN table : j # at => jobs[j] = table[j]
<1>1. /\ at \in DOMAIN table /\ table[at] \in JobType /\ table[at].tasks # <<>>
      /\ t = Last(table[at].tasks)
  BY DEF TypeOK, Waits
<1>2. table[at].tasks \in Seq(Task)
  BY <1>1 DEF JobType
<1>3. /\ Front(table[at].tasks) \in Seq(Task)
      /\ Range(table[at].tasks) = Range(Front(table[at].tasks)) \cup {t}
  BY <1>1, <1>2, Ends
<1> DEFINE job == [table[at] EXCEPT !.tasks = Front(table[at].tasks)]
<1>4. /\ job \in JobType /\ job.id = table[at].id /\ job.note = table[at].note
      /\ job.tasks = Front(table[at].tasks)
  BY <1>1, <1>3 DEF JobType
<1>5. [table EXCEPT ![at].tasks = Front(@)] = [table EXCEPT ![at] = job]
  BY <1>1
<1> HIDE DEF job
<1>6. \A u \in Range(table[at].tasks) : u \in Range(job.tasks) \/ run[u] = "ended"
  BY <1>3, <1>4
<1>7. /\ Alike([table EXCEPT ![at] = job])
      /\ \A j \in DOMAIN table : [table EXCEPT ![at] = job][j] = IF j = at THEN job ELSE table[j]
  BY <1>1, <1>4, <1>6, OneChanges
<1> QED
  BY <1>5, <1>7

(* The process a job is signalled through is one of its processes
   (representative_pid).                                                   *)
LEMMA RepIsProc ==
  ASSUME NEW job \in JobType, Rep(job) # None
  PROVE  Rep(job) \in Proc
<1> DEFINE procs == {i \in DOMAIN job.tasks : job.tasks[i] \in Proc}
<1>1. procs # {} /\ Rep(job) = job.tasks[Min(procs)]
  BY DEF Rep
<1>2. procs \subseteq Nat
  BY DEF JobType
<1>3. Min(procs) \in procs
  <2> HIDE DEF procs
  <2> QED
    BY <1>1, <1>2, Smallest
<1> QED
  BY <1>1, <1>3


(* Every step keeps the jobs, or sweeps those left with no task, or adds    *)
(* one job.                                                                *)
LEMMA TableSteps ==
  ASSUME TypeOK, Next
  PROVE  TableStep
<1>0. table \in Seq(JobType) /\ Alike(table)
  BY DEF TypeOK, Alike
<1>1. CASE CheckJobs
  <2> DEFINE jobs == [i \in DOMAIN table |-> [table[i] EXCEPT !.tasks = Unfinished(table[i])]]
  <2>1. ASSUME NEW i \in DOMAIN table
        PROVE  /\ jobs[i] \in JobType /\ jobs[i].id = table[i].id /\ jobs[i].note = table[i].note
               /\ \A t \in Range(table[i].tasks) : t \in Range(jobs[i].tasks) \/ run[t] = "ended"
    <3>1. table[i] \in JobType
      BY <1>0
    <3> DEFINE left == Unfinished(table[i])
    <3>2. left \in Seq(Task) /\ \A t \in Range(table[i].tasks) : t \in Range(left) \/ run[t] = "ended"
      BY <3>1, Taken
    <3>3. jobs[i] = [table[i] EXCEPT !.tasks = left]
      OBVIOUS
    <3> HIDE DEF jobs, left
    <3>4. /\ jobs[i] \in JobType /\ jobs[i].id = table[i].id /\ jobs[i].note = table[i].note
          /\ jobs[i].tasks = left
      BY <3>1, <3>2, <3>3 DEF JobType
    <3> QED
      BY <3>2, <3>4
  <2>2. DOMAIN jobs = 1..Len(table) /\ Len(table) \in Nat /\ DOMAIN table = 1..Len(table)
    BY <1>0
  <2>3. table' = Kept(jobs)
    BY <1>1 DEF CheckJobs
  <2>4. jobs \in Seq(JobType) /\ Len(jobs) = Len(table)
    <3>1. jobs \in [1..Len(table) -> JobType]
      <4>1. \A i \in 1..Len(table) : jobs[i] \in JobType
        BY <2>1, <2>2
      <4>2. jobs = [i \in 1..Len(table) |-> jobs[i]]
        BY <2>2
      <4> HIDE DEF jobs
      <4> QED
        BY <4>1, <4>2
    <3> HIDE DEF jobs
    <3> QED
      BY <2>2, <3>1
  <2> HIDE DEF jobs
  <2>5. Alike(jobs)
    BY <2>1, <2>4 DEF Alike
  <2> QED
    BY <2>3, <2>4, <2>5 DEF TableStep
<1>2. CASE WaitAllReturns
  BY <1>0, <1>2 DEF WaitAllReturns, TableStep
<1>3. ASSUME NEW w \in Work, Background(w)
      PROVE  TableStep
  <2>1. <<w>> \in Seq(Task)
    BY DEF Task
  <2>2. table' = AddAsCurrent(table, <<w>>, "Running")
    BY <1>3 DEF Background
  <2> QED
    BY <2>1, <2>2 DEF TableStep
<1>4. CASE PipelineReturns
  <2>1. CASE kids = <<>>
    BY <1>0, <1>4, <2>1 DEF PipelineReturns, TableStep
  <2>2. CASE kids # <<>>
    <3>1. kids \in Seq(Task)
      BY DEF TypeOK, Task
    <3>2. table' = AddAsCurrent(table, kids, "Stopped")
      BY <1>4, <2>2 DEF PipelineReturns
    <3> QED
      BY <3>1, <3>2 DEF TableStep
  <2> QED
    BY <2>1, <2>2
<1>5. ASSUME NEW t \in Task,
             JobTaskEnds(t) \/ JobTaskStops(t) \/ TerminalStop(t)
      PROVE  Alike(table')
  <2>1. CASE JobTaskEnds(t)
    <3>1. /\ Waits(t) /\ run[t] = "ended"
          /\ table' = [table EXCEPT ![at].tasks = Front(@)]
      BY <2>1 DEF JobTaskEnds, Ready
    <3> QED
      BY <3>1, LastTaken
  <2>2. CASE JobTaskStops(t)
    <3>1. at \in DOMAIN table /\ table' = [table EXCEPT ![at].state = "Stopped"]
      BY <2>2 DEF JobTaskStops, Waits
    <3> QED
      BY <3>1, StateSet DEF Moved
  <2>3. CASE TerminalStop(t)
    <3>1. \/ table' = table
          \/ at \in DOMAIN table /\ table' = [table EXCEPT ![at].state = "Stopped"]
      BY <2>3 DEF TerminalStop, Waits
    <3> QED
      BY <1>0, <3>1, StateSet DEF Moved
  <2> QED
    BY <1>5, <2>1, <2>2, <2>3
<1>6. ASSUME NEW i \in DOMAIN table, Foreground(i) \/ ForegroundFails(i) \/ ToBackground(i)
      PROVE  Alike(table')
  <2>1. table' = table \/ table' = [table EXCEPT ![i].state = "Running"]
    BY <1>6 DEF Foreground, ForegroundFails, ToBackground
  <2> QED
    BY <1>0, <2>1, StateSet DEF Moved
<1>7. ASSUME JobEnds
      PROVE  Alike(table')
  <2>1. at \in DOMAIN table /\ table' = [table EXCEPT ![at].state = "Done"]
    BY <1>7 DEF JobEnds
  <2> QED
    BY <2>1, StateSet DEF Moved
<1>8. table' = table => Alike(table')
  BY <1>0
<1>9. ASSUME NEW t \in Task,
             \/ PipeTaskEnds(t) \/ PipeTaskFails(t) \/ PipeTaskStops(t) \/ PipeTaskKept(t)
             \/ JobTaskFails(t) \/ JobTaskPanics(t) \/ IgnoreSignal(t) \/ TaskEnds(t)
      PROVE  table' = table
  BY <1>9 DEF PipeTaskEnds, PipeTaskFails, PipeTaskStops, PipeTaskKept, JobTaskFails,
       JobTaskPanics, IgnoreSignal, TaskEnds
<1>10. ASSUME NEW i \in DOMAIN table, WaitFor(i) \/ Kill(i)
       PROVE  table' = table
  BY <1>10 DEF WaitFor, Kill
<1>11. ASSUME NEW s \in Pipelines, StartPipeline(s) \/ PipelineSpawnFails(s)
       PROVE  table' = table
  BY <1>11 DEF StartPipeline, PipelineSpawnFails
<1>12. ASSUME NEW p \in Proc, ProcessStops(p)
       PROVE  table' = table
  BY <1>12 DEF ProcessStops
<1>13. CheckJobsPanics \/ WaitForAll \/ Panicked => table' = table
  BY DEF CheckJobsPanics, WaitForAll, Panicked, vars
<1> QED
  BY <1>1, <1>2, <1>3, <1>4, <1>5, <1>6, <1>7, <1>8, <1>9, <1>10, <1>11, <1>12, <1>13
     DEF TableStep, Next, Command, Waiting

(* What follows for the jobs: they are told apart, only the newest is       *)
(* current, and a task in a job stays in one until it has ended.           *)
LEMMA TableFacts ==
  ASSUME TypeOK, IdsDistinct, CurrentIsNewest, TableStep
  PROVE  /\ table' \in Seq(JobType) /\ IdsDistinct' /\ CurrentIsNewest'
         /\ \A i \in DOMAIN table, t \in Task :
              t \in Range(table[i].tasks) /\ run[t] # "ended" =>
                \E j \in DOMAIN table' : /\ table'[j].id = table[i].id
                                         /\ t \in Range(table'[j].tasks)
         /\ \A i \in DOMAIN table :
              table[i].id \notin {table'[j].id : j \in DOMAIN table'} =>
                \A t \in Range(table[i].tasks) : run[t] = "ended"
<1>0. /\ table \in Seq(JobType) /\ Len(table) \in Nat /\ DOMAIN table = 1..Len(table)
      /\ \A i \in DOMAIN table : table[i].tasks \in Seq(Task)
  <2>1. table \in Seq(JobType) /\ Len(table) \in Nat /\ DOMAIN table = 1..Len(table)
    BY DEF TypeOK
  <2>2. \A i \in DOMAIN table : table[i] \in JobType
    BY <2>1
  <2> QED
    BY <2>1, <2>2 DEF JobType
<1>1. CASE Alike(table')
  <2>1. /\ table' \in Seq(JobType) /\ Len(table') = Len(table) /\ DOMAIN table' = DOMAIN table
        /\ \A i \in DOMAIN table : table'[i].id = table[i].id /\ table'[i].note = table[i].note
        /\ \A i \in DOMAIN table : \A t \in Range(table[i].tasks) :
             t \in Range(table'[i].tasks) \/ run[t] = "ended"
    BY <1>0, <1>1 DEF Alike
  <2> QED
    BY <2>1 DEF IdsDistinct, CurrentIsNewest
<1>2. ASSUME NEW jobs \in Seq(JobType), Alike(jobs), table' = Kept(jobs)
      PROVE  /\ table' \in Seq(JobType) /\ IdsDistinct' /\ CurrentIsNewest'
             /\ \A i \in DOMAIN table :
                  \/ \E j \in DOMAIN table' : table'[j].id = table[i].id /\ table'[j] = jobs[i]
                  \/ \A t \in Range(table[i].tasks) : run[t] = "ended"
  <2>1. /\ Len(jobs) = Len(table) /\ DOMAIN jobs = DOMAIN table
        /\ \A i \in DOMAIN table : jobs[i].id = table[i].id /\ jobs[i].note = table[i].note
        /\ \A i \in DOMAIN table : \A t \in Range(table[i].tasks) :
             t \in Range(jobs[i].tasks) \/ run[t] = "ended"
    BY <1>0, <1>2 DEF Alike
  <2>2. /\ table' \in Seq(JobType)
        /\ \E place \in [1..Len(table') -> DOMAIN jobs] :
             /\ \A n \in DOMAIN table' : table'[n] = jobs[place[n]] /\ jobs[place[n]].tasks # <<>>
             /\ \A m, n \in DOMAIN table' : m < n => place[m] < place[n]
             /\ \A i \in DOMAIN jobs :
                  jobs[i].tasks # <<>> => \E n \in DOMAIN table' : place[n] = i
    BY <1>2, KeptJobs
  <2>3. PICK place \in [1..Len(table') -> DOMAIN jobs] :
          /\ \A n \in DOMAIN table' : table'[n] = jobs[place[n]] /\ jobs[place[n]].tasks # <<>>
          /\ \A m, n \in DOMAIN table' : m < n => place[m] < place[n]
          /\ \A i \in DOMAIN jobs :
               jobs[i].tasks # <<>> => \E n \in DOMAIN table' : place[n] = i
    BY <2>2
  <2>4. /\ Len(table') \in Nat /\ DOMAIN table' = 1..Len(table')
        /\ \A n \in DOMAIN table' : place[n] \in 1..Len(table)
    BY <1>0, <2>1, <2>2, <2>3
  <2>5. IdsDistinct'
    <3> SUFFICES ASSUME NEW m \in DOMAIN table', NEW n \in DOMAIN table', m # n
                 PROVE  table'[m].id # table'[n].id
      BY DEF IdsDistinct
    <3>1. place[m] # place[n]
      <4>1. m < n \/ n < m
        BY <2>4
      <4>2. place[m] \in Nat /\ place[n] \in Nat
        BY <2>4
      <4> QED
        BY <2>3, <4>1, <4>2
    <3>2. table'[m].id = table[place[m]].id /\ table'[n].id = table[place[n]].id
      BY <1>0, <2>1, <2>3, <2>4
    <3> QED
      BY <1>0, <2>4, <3>1, <3>2 DEF IdsDistinct
  <2>6. CurrentIsNewest'
    <3> SUFFICES ASSUME NEW n \in DOMAIN table', table'[n].note = "Current", n # Len(table')
                 PROVE  FALSE
      BY DEF CurrentIsNewest
    <3>1. place[n] = Len(table)
      BY <1>0, <2>1, <2>3, <2>4 DEF CurrentIsNewest
    <3>2. n + 1 \in DOMAIN table' /\ n < n + 1
      BY <2>4
    <3>3. place[n] < place[n + 1]
      BY <2>3, <3>2
    <3> QED
      BY <1>0, <2>4, <3>1, <3>2, <3>3
  <2>7. ASSUME NEW i \in DOMAIN table
        PROVE  \/ \E j \in DOMAIN table' : table'[j].id = table[i].id /\ table'[j] = jobs[i]
               \/ \A t \in Range(table[i].tasks) : run[t] = "ended"
    <3>1. CASE jobs[i].tasks = <<>>
      <4>1. Range(jobs[i].tasks) = {}
        BY <3>1 DEF Range
      <4> QED
        BY <2>1, <4>1
    <3>2. CASE jobs[i].tasks # <<>>
      <4>1. PICK j \in DOMAIN table' : place[j] = i
        BY <2>1, <2>3, <3>2
      <4> QED
        BY <2>1, <2>3, <4>1
    <3> QED
      BY <3>1, <3>2
  <2> QED
    BY <2>2, <2>5, <2>6, <2>7
<1>3. CASE \E jobs \in Seq(JobType) : Alike(jobs) /\ table' = Kept(jobs)
  <2>1. PICK jobs \in Seq(JobType) : Alike(jobs) /\ table' = Kept(jobs)
    BY <1>3
  <2>2. /\ table' \in Seq(JobType) /\ IdsDistinct' /\ CurrentIsNewest'
        /\ \A i \in DOMAIN table :
             \/ \E j \in DOMAIN table' : table'[j].id = table[i].id /\ table'[j] = jobs[i]
             \/ \A t \in Range(table[i].tasks) : run[t] = "ended"
    BY <1>2, <2>1
  <2>3. \A i \in DOMAIN table : \A t \in Range(table[i].tasks) :
          t \in Range(jobs[i].tasks) \/ run[t] = "ended"
    BY <2>1 DEF Alike
  <2> QED
    BY <2>2, <2>3
<1>4. CASE \E tasks \in Seq(Task), state \in {"Running", "Stopped"} :
             table' = AddAsCurrent(table, tasks, state)
  <2>1. PICK tasks \in Seq(Task), state \in {"Running", "Stopped"} :
               table' = AddAsCurrent(table, tasks, state)
    BY <1>4
  <2>2. /\ table' \in Seq(JobType) /\ Len(table') = Len(table) + 1
        /\ \A i \in DOMAIN table :
             /\ table'[i].id = table[i].id /\ table'[i].tasks = table[i].tasks
             /\ table'[i].id # table'[Len(table')].id
        /\ (\A i \in DOMAIN table : table[i].note = "Current" => i = Len(table))
             => \A i \in DOMAIN table' : table'[i].note = "Current" => i = Len(table')
    <3> DEFINE more == table'
    <3>1. table \in Seq(JobType) /\ more = AddAsCurrent(table, tasks, state)
      BY <1>0, <2>1
    <3> HIDE DEF more
    <3>2. Extends(more, table, tasks)
      BY <3>1, Added
    <3> QED
      BY <3>2 DEF more, Extends
  <2>3. DOMAIN table' = DOMAIN table \cup {Len(table')}
    BY <1>0, <2>2
  <2> QED
    BY <2>2, <2>3 DEF IdsDistinct, CurrentIsNewest
<1> QED
  BY <1>1, <1>3, <1>4 DEF TableStep


-----------------------------------------------------------------------------
(* The inductive invariant.                                                *)

LEMMA InvInit == Init => Inv
<1> SUFFICES ASSUME Init PROVE Inv
  OBVIOUS
<1>1. TypeOK
  <2>1. <<>> \in Seq(JobType) /\ <<>> \in Seq(Task) /\ <<>> \in Seq(Proc)
    OBVIOUS
  <2> QED
    BY <2>1 DEF Init, TypeOK, Task
<1>2. OnlyThePipeline /\ Passed /\ NoProcessLost
  BY DEF Init, OnlyThePipeline, Passed, NoProcessLost, Task
<1>3. DOMAIN table = {}
  BY DEF Init
<1>4. IdsDistinct /\ CurrentIsNewest
  BY <1>3 DEF IdsDistinct, CurrentIsNewest
<1> QED
  BY <1>1, <1>2, <1>4 DEF Inv

(* Everything but the table, and what it says of the shell's position.      *)
OthersTyped ==
  /\ run \in [Task -> {"fresh", "running", "stopped", "ended"}]
  /\ outcome \in [Task -> Outcomes \cup {None}]
  /\ taken \subseteq Task /\ unseen \subseteq Proc
  /\ mode \in {"prompt", "pipeline", "wait", "waitall", "panicked"} /\ at \in Nat
  /\ front \in Seq(Task) /\ kids \in Seq(Proc) /\ dropped \subseteq Task

(* What Continue leaves of a process and of the others.                     *)
LEMMA Continued ==
  ASSUME TypeOK, NEW p \in Proc, Continue(p)
  PROVE  /\ run' \in [Task -> {"fresh", "running", "stopped", "ended"}] /\ unseen' \subseteq Proc
         /\ \A q \in Proc : run'[q] \in {"running", "stopped"} => run[q] \in {"running", "stopped"}
<1>1. p \in Task /\ Proc \subseteq Task
  BY DEF Task
<1>2. run \in [Task -> {"fresh", "running", "stopped", "ended"}] /\ unseen \subseteq Proc
  BY DEF TypeOK
<1> QED
  BY <1>1, <1>2 DEF Continue

LEMMA OthersNext ==
  ASSUME TypeOK, Next
  PROVE  OthersTyped'
<1>0. /\ OthersTyped /\ Proc \subseteq Task /\ Work \subseteq Task
      /\ \A i \in DOMAIN table : table[i] \in JobType
      /\ \A i \in DOMAIN table : i \in Nat /\ i + 1 \in Nat
  BY DEF TypeOK, OthersTyped, Task
<1>1. CASE CheckJobs
  <2>1. \A i \in DOMAIN table : Polled(table[i]) \subseteq Task
    <3> SUFFICES ASSUME NEW i \in DOMAIN table, NEW t \in Polled(table[i])
                 PROVE  t \in Task
      OBVIOUS
    <3>1. table[i].tasks \in Seq(Task) /\ t \in Range(table[i].tasks)
      BY <1>0 DEF Polled, JobType
    <3> QED
      BY <3>1 DEF Range
  <2>2. taken' \subseteq Task
    BY <1>0, <1>1, <2>1 DEF CheckJobs, OthersTyped
  <2> QED
    BY <1>0, <1>1, <2>2 DEF CheckJobs, taskVars, shellVars, OthersTyped
<1>2. CASE CheckJobsPanics \/ WaitForAll \/ PipelineReturns \/ Panicked
  <2>1. <<>> \in Seq(Proc)
    OBVIOUS
  <2> QED
    BY <1>0, <1>2, <2>1 DEF CheckJobsPanics, WaitForAll, PipelineReturns, Panicked, taskVars,
       shellVars, vars, OthersTyped
<1>3. CASE JobEnds \/ WaitAllReturns
  <2>1. at + 1 \in Nat
    BY <1>0 DEF OthersTyped
  <2> QED
    BY <1>0, <1>3, <2>1 DEF JobEnds, WaitAllReturns, NextJob, taskVars, shellVars, OthersTyped
<1>4. ASSUME NEW w \in Work, Background(w)
      PROVE  OthersTyped'
  BY <1>0, <1>4 DEF Background, shellVars, OthersTyped
<1>5. ASSUME NEW s \in Pipelines, StartPipeline(s) \/ PipelineSpawnFails(s)
      PROVE  OthersTyped'
  <2>1. s \in Seq(Task) /\ Range(s) \subseteq Task
    <3>1. PICK n \in 1..MaxPipe : s \in [1..n -> Task]
      BY <1>5 DEF Pipelines
    <3>2. n \in Nat
      BY <3>1, JobsAssumption
    <3>3. s \in Seq(Task) /\ DOMAIN s = 1..n
      BY <3>1, <3>2
    <3> QED
      BY <3>1, <3>3 DEF Range
  <2>2. run' \in [Task -> {"fresh", "running", "stopped", "ended"}]
    BY <1>0, <1>5 DEF StartPipeline, PipelineSpawnFails, OthersTyped
  <2>3. <<>> \in Seq(Proc)
    OBVIOUS
  <2>4. CASE StartPipeline(s)
    BY <1>0, <2>1, <2>2, <2>3, <2>4 DEF StartPipeline, OthersTyped
  <2>5. CASE PipelineSpawnFails(s)
    BY <1>0, <2>1, <2>2, <2>5 DEF PipelineSpawnFails, OthersTyped
  <2> QED
    BY <1>5, <2>4, <2>5
<1>6. ASSUME NEW i \in DOMAIN table,
             WaitFor(i) \/ Foreground(i) \/ ForegroundFails(i) \/ ToBackground(i) \/ Kill(i)
      PROVE  OthersTyped'
  <2> DEFINE r == Rep(table[i])
  <2>1. r # None => r \in Proc
    BY <1>0, RepIsProc
  <2> HIDE DEF r
  <2>2. CASE WaitFor(i)
    BY <1>0, <2>2 DEF WaitFor, taskVars, OthersTyped
  <2>3. CASE Kill(i)
    <3>1. /\ r \in Proc /\ run' = [run EXCEPT ![r] = "ended"]
          /\ outcome' = [outcome EXCEPT ![r] = "ok"] /\ unseen' = unseen \ {r}
      BY <2>1, <2>3 DEF Kill, r
    <3>2. UNCHANGED <<taken, shellVars>>
      BY <2>3 DEF Kill
    <3> QED
      BY <1>0, <3>1, <3>2 DEF shellVars, OthersTyped, Outcomes
  <2>4. CASE Foreground(i) \/ ForegroundFails(i) \/ ToBackground(i)
    <3>1. \/ r # None /\ Continue(r)
          \/ UNCHANGED <<run, unseen>>
      BY <2>4 DEF Foreground, ForegroundFails, ToBackground, r
    <3>2. run' \in [Task -> {"fresh", "running", "stopped", "ended"}] /\ unseen' \subseteq Proc
      BY <1>0, <2>1, <3>1, Continued DEF OthersTyped
    <3>3. /\ UNCHANGED <<outcome, taken, front, kids, dropped>>
          /\ (mode' = "wait" /\ at' = i) \/ UNCHANGED <<mode, at>>
      BY <2>4 DEF Foreground, ForegroundFails, ToBackground, shellVars
    <3> QED
      BY <1>0, <3>2, <3>3 DEF OthersTyped
  <2> QED
    BY <1>6, <2>2, <2>3, <2>4
<1>7. ASSUME NEW t \in Task,
             PipeTaskEnds(t) \/ PipeTaskFails(t) \/ PipeTaskStops(t) \/ PipeTaskKept(t)
      PROVE  OthersTyped'
  <2>0. front \in Seq(Task) /\ kids \in Seq(Proc) /\ <<>> \in Seq(Task) /\ <<>> \in Seq(Proc)
    BY <1>0 DEF OthersTyped
  <2>1. front # <<>>
    BY <1>7 DEF PipeTaskEnds, PipeTaskFails, PipeTaskStops, PipeTaskKept, PipeWaits
  <2>2. Tail(front) \in Seq(Task) /\ Range(front) \subseteq Task /\ Range(kids) \subseteq Task
    BY <1>0, <2>0, <2>1, Ends DEF Range
  <2>3. t \in Proc => <<t>> \in Seq(Proc) /\ Append(kids, t) \in Seq(Proc)
    BY <2>0
  <2>4. CASE PipeTaskEnds(t)
    BY <1>0, <2>2, <2>4 DEF PipeTaskEnds, taskVars, OthersTyped
  <2>5. CASE PipeTaskFails(t)
    BY <1>0, <2>0, <2>2, <2>5 DEF PipeTaskFails, taskVars, OthersTyped
  <2>6. CASE PipeTaskStops(t)
    BY <1>0, <2>2, <2>3, <2>6 DEF PipeTaskStops, OthersTyped
  <2>7. CASE PipeTaskKept(t)
    BY <1>0, <2>2, <2>3, <2>7 DEF PipeTaskKept, taskVars, OthersTyped
  <2> QED
    BY <1>7, <2>4, <2>5, <2>6, <2>7
<1>8. ASSUME NEW t \in Task,
             \/ JobTaskEnds(t) \/ JobTaskFails(t) \/ JobTaskPanics(t) \/ JobTaskStops(t)
             \/ IgnoreSignal(t) \/ TaskEnds(t) \/ TerminalStop(t)
      PROVE  OthersTyped'
  <2>0. at + 1 \in Nat
    BY <1>0 DEF OthersTyped
  <2>1. CASE JobTaskEnds(t) \/ JobTaskFails(t) \/ JobTaskPanics(t) \/ IgnoreSignal(t)
    BY <1>0, <2>1 DEF JobTaskEnds, JobTaskFails, JobTaskPanics, IgnoreSignal, taskVars,
       shellVars, OthersTyped
  <2>2. CASE JobTaskStops(t)
    BY <1>0, <2>0, <2>2 DEF JobTaskStops, NextJob, OthersTyped
  <2>3. CASE TaskEnds(t)
    <3>1. PICK o \in Outcomes : outcome' = [outcome EXCEPT ![t] = o]
      BY <2>3 DEF TaskEnds, Outcomes
    <3>2. run' = [run EXCEPT ![t] = "ended"] /\ UNCHANGED <<taken, unseen, shellVars>>
      BY <2>3 DEF TaskEnds
    <3> QED
      BY <1>0, <3>1, <3>2 DEF shellVars, OthersTyped
  <2>4. CASE TerminalStop(t)
    <3>1. /\ t \in Proc /\ run' = [run EXCEPT ![t] = "stopped"]
          /\ unseen' \subseteq unseen \cup {t} /\ UNCHANGED <<outcome, taken, dropped>>
      BY <2>4 DEF TerminalStop
    <3>2. \/ NextJob /\ UNCHANGED <<front, kids>>
          \/ PipeWaits(t) /\ kids' = <<t>> /\ front' = Tail(front) /\ UNCHANGED <<mode, at>>
      BY <2>4 DEF TerminalStop
    <3>3. mode' \in {"prompt", "pipeline", "wait", "waitall", "panicked"} /\ at' \in Nat
      BY <1>0, <2>0, <3>2 DEF NextJob, OthersTyped
    <3>4. front' \in Seq(Task) /\ kids' \in Seq(Proc)
      <4>1. CASE UNCHANGED <<front, kids>>
        BY <1>0, <4>1 DEF OthersTyped
      <4>2. CASE PipeWaits(t) /\ kids' = <<t>> /\ front' = Tail(front)
        <5>1. front \in Seq(Task) /\ front # <<>>
          BY <1>0, <4>2 DEF PipeWaits, OthersTyped
        <5>2. <<t>> \in Seq(Proc)
          BY <3>1
        <5> QED
          BY <4>2, <5>1, <5>2, Ends
      <4> QED
        BY <3>2, <4>1, <4>2
    <3> QED
      BY <1>0, <3>1, <3>3, <3>4 DEF OthersTyped
  <2> QED
    BY <1>8, <2>1, <2>2, <2>3, <2>4
<1>9. ASSUME NEW p \in Proc, ProcessStops(p)
      PROVE  OthersTyped'
  BY <1>0, <1>9 DEF ProcessStops, shellVars, OthersTyped
<1> QED
  BY <1>1, <1>2, <1>3, <1>4, <1>5, <1>6, <1>7, <1>8, <1>9 DEF Next, Command, Waiting


LEMMA TypeNext ==
  ASSUME Inv, Next
  PROVE  TypeOK'
<1>1. table' \in Seq(JobType)
  BY TableSteps, TableFacts DEF Inv
<1> QED
  BY <1>1, OthersNext DEF Inv, TypeOK, OthersTyped

(* The pipeline's children are gone from the shell's hands when it stops    *)
(* waiting for them.                                                       *)
LEMMA PipelineNext ==
  ASSUME Inv, Next
  PROVE  OnlyThePipeline'
<1>0. OnlyThePipeline
  BY DEF Inv
<1>1. ASSUME mode' = mode, UNCHANGED <<front, kids>>
      PROVE  OnlyThePipeline'
  BY <1>0, <1>1 DEF OnlyThePipeline
<1>2. ASSUME mode # "pipeline", UNCHANGED <<front, kids>>
      PROVE  OnlyThePipeline'
  BY <1>0, <1>2 DEF OnlyThePipeline
<1>3. CheckJobs \/ WaitForAll \/ CheckJobsPanics \/ Panicked \/ JobEnds \/ WaitAllReturns
        => OnlyThePipeline'
  BY <1>1, <1>2 DEF CheckJobs, WaitForAll, CheckJobsPanics, Panicked, JobEnds, WaitAllReturns,
     shellVars, vars
<1>4. ASSUME NEW i \in DOMAIN table,
             WaitFor(i) \/ Foreground(i) \/ ForegroundFails(i) \/ ToBackground(i) \/ Kill(i)
      PROVE  OnlyThePipeline'
  BY <1>1, <1>2, <1>4 DEF WaitFor, Foreground, ForegroundFails, ToBackground, Kill, shellVars
<1>5. ASSUME NEW t \in Task,
             \/ JobTaskEnds(t) \/ JobTaskFails(t) \/ JobTaskPanics(t) \/ JobTaskStops(t)
             \/ IgnoreSignal(t) \/ TaskEnds(t)
      PROVE  OnlyThePipeline'
  BY <1>1, <1>2, <1>5 DEF JobTaskEnds, JobTaskFails, JobTaskPanics, JobTaskStops, IgnoreSignal,
     TaskEnds, Waits, shellVars
<1>6. ASSUME NEW t \in Task,
             \/ PipeTaskEnds(t) \/ PipeTaskFails(t) \/ PipeTaskStops(t) \/ PipeTaskKept(t)
             \/ TerminalStop(t)
      PROVE  OnlyThePipeline'
  <2>1. CASE PipeTaskFails(t)
    BY <2>1 DEF PipeTaskFails, OnlyThePipeline
  <2>2. CASE TerminalStop(t) /\ Waits(t) /\ UNCHANGED <<front, kids>>
    BY <1>2, <2>2 DEF Waits
  <2>3. CASE mode = "pipeline" /\ mode' = mode
    BY <2>3 DEF OnlyThePipeline
  <2> QED
    BY <1>6, <2>1, <2>2, <2>3 DEF PipeTaskEnds, PipeTaskStops, PipeTaskKept, TerminalStop,
       PipeWaits
<1>7. CASE PipelineReturns
  BY <1>7 DEF PipelineReturns, OnlyThePipeline
<1>8. ASSUME NEW s \in Pipelines, StartPipeline(s) \/ PipelineSpawnFails(s)
      PROVE  OnlyThePipeline'
  BY <1>1, <1>8 DEF StartPipeline, PipelineSpawnFails, OnlyThePipeline
<1>9. ASSUME NEW w \in Work, Background(w)
      PROVE  OnlyThePipeline'
  BY <1>1, <1>9 DEF Background, shellVars
<1>10. ASSUME NEW p \in Proc, ProcessStops(p)
       PROVE  OnlyThePipeline'
  BY <1>1, <1>10 DEF ProcessStops, shellVars
<1> QED
  BY <1>3, <1>4, <1>5, <1>6, <1>7, <1>8, <1>9, <1>10 DEF Next, Command, Waiting

(* `wait` without arguments passes a job when it has no task left or when   *)
(* it was told that the job is stopped; no step changes a job it passed.    *)
LEMMA PassedNext ==
  ASSUME Inv, Next
  PROVE  Passed'
<1> SUFFICES ASSUME mode' = "waitall" PROVE Passed'
  BY DEF Passed
<1>0. /\ TypeOK /\ Passed /\ at \in Nat
      /\ table \in Seq(JobType) /\ DOMAIN table = 1..Len(table) /\ Len(table) \in Nat
  BY DEF Inv, TypeOK
<1>1. ASSUME mode = "waitall", UNCHANGED <<table, at>>
      PROVE  Passed'
  BY <1>0, <1>1 DEF Passed
<1>2. ASSUME mode = "waitall", at \in DOMAIN table,
             NEW jobs, jobs = table', Alike(jobs),
             \A j \in DOMAIN table : j # at => jobs[j] = table[j],
             \/ at' = at
             \/ at' = at + 1 /\ (jobs[at].tasks = <<>> \/ jobs[at].state = "Stopped")
      PROVE  Passed'
  <2>1. DOMAIN jobs = DOMAIN table
    BY <1>0, <1>2 DEF Alike
  <2> SUFFICES ASSUME NEW i \in DOMAIN table, i < at'
               PROVE  jobs[i].tasks = <<>> \/ jobs[i].state = "Stopped"
    BY <1>2, <2>1 DEF Passed
  <2>2. CASE i = at
    BY <1>0, <1>2, <2>2
  <2>3. CASE i # at
    <3>1. i < at
      BY <1>0, <1>2, <2>3
    <3> QED
      BY <1>0, <1>2, <2>3, <3>1 DEF Passed
  <2> QED
    BY <2>2, <2>3
<1>3. CASE WaitForAll
  <2>1. \A i \in DOMAIN table : ~(i < 1)
    BY <1>0
  <2> QED
    BY <1>3, <2>1 DEF WaitForAll, Passed
<1>4. ASSUME NEW t \in Task, JobTaskEnds(t)
      PROVE  Passed'
  <2>1. /\ mode = "waitall" /\ at' = at /\ Waits(t) /\ run[t] = "ended" /\ at \in DOMAIN table
        /\ table' = [table EXCEPT ![at].tasks = Front(@)]
    BY <1>4 DEF JobTaskEnds, Waits, Ready, shellVars
  <2> DEFINE jobs == table'
  <2>2. Alike(jobs) /\ \A j \in DOMAIN table : j # at => jobs[j] = table[j]
    BY <1>0, <2>1, LastTaken
  <2> QED
    BY <1>2, <2>1, <2>2
<1>5. ASSUME at \in DOMAIN table, mode = "waitall", NextJob,
             \/ table' = [table EXCEPT ![at].state = "Stopped"]
             \/ table' = [table EXCEPT ![at].state = "Done"] /\ table[at].tasks = <<>>
      PROVE  Passed'
  <2> DEFINE jobs == table'
  <2>1. PICK state \in {"Stopped", "Done"} :
          /\ jobs = [table EXCEPT ![at].state = state]
          /\ state = "Done" => table[at].tasks = <<>>
    BY <1>5
  <2> HIDE DEF jobs
  <2>2. /\ Alike(jobs) /\ jobs[at].state = state
        /\ \A j \in DOMAIN table : jobs[j].tasks = table[j].tasks /\ (j # at => jobs[j] = table[j])
    <3>1. /\ TypeOK /\ at \in DOMAIN table /\ state \in {"Running", "Stopped", "Done"}
          /\ jobs = [table EXCEPT ![at].state = state]
      BY <1>0, <1>5, <2>1
    <3>2. Moved(jobs, at, state)
      BY <3>1, StateSet
    <3> QED
      BY <3>2 DEF Moved
  <2>3. jobs[at].tasks = <<>> \/ jobs[at].state = "Stopped"
    BY <1>5, <2>1, <2>2
  <2>4. at' = at + 1
    BY <1>5 DEF NextJob
  <2>5. jobs = table'
    BY DEF jobs
  <2> QED
    BY <1>2, <1>5, <2>2, <2>3, <2>4, <2>5
<1>6. ASSUME NEW t \in Task, JobTaskStops(t) \/ TerminalStop(t)
      PROVE  Passed'
  <2>1. Waits(t) => at \in DOMAIN table
    BY DEF Waits
  <2>2. /\ Waits(t) /\ NextJob /\ mode = "waitall"
        /\ table' = [table EXCEPT ![at].state = "Stopped"]
    BY <1>6 DEF JobTaskStops, TerminalStop, PipeWaits, Waits, NextJob
  <2> QED
    BY <1>5, <2>1, <2>2
<1>7. CASE JobEnds
  <2>1. /\ at \in DOMAIN table /\ mode = "waitall" /\ NextJob /\ table[at].tasks = <<>>
        /\ table' = [table EXCEPT ![at].state = "Done"]
    BY <1>7 DEF JobEnds, NextJob
  <2> QED
    BY <1>5, <2>1
<1>8. ASSUME NEW t \in Task, TaskEnds(t) \/ IgnoreSignal(t)
      PROVE  Passed'
  BY <1>1, <1>8 DEF TaskEnds, IgnoreSignal, shellVars
<1>9. ASSUME NEW p \in Proc, ProcessStops(p)
      PROVE  Passed'
  BY <1>1, <1>9 DEF ProcessStops, shellVars
<1>10. ~(CheckJobs \/ CheckJobsPanics \/ PipelineReturns \/ WaitAllReturns \/ Panicked)
  BY DEF CheckJobs, CheckJobsPanics, PipelineReturns, WaitAllReturns, Panicked, shellVars, vars
<1>11. ASSUME NEW i \in DOMAIN table
       PROVE  ~(WaitFor(i) \/ Foreground(i) \/ ForegroundFails(i) \/ ToBackground(i) \/ Kill(i))
  BY DEF WaitFor, Foreground, ForegroundFails, ToBackground, Kill, shellVars
<1>12. ASSUME NEW s \in Pipelines
       PROVE  ~(StartPipeline(s) \/ PipelineSpawnFails(s))
  BY DEF StartPipeline, PipelineSpawnFails
<1>13. ASSUME NEW w \in Work
       PROVE  ~Background(w)
  BY DEF Background, shellVars
<1>14. ASSUME NEW t \in Task
       PROVE  ~(\/ PipeTaskEnds(t) \/ PipeTaskFails(t) \/ PipeTaskStops(t) \/ PipeTaskKept(t)
                \/ JobTaskFails(t) \/ JobTaskPanics(t))
  BY DEF PipeTaskEnds, PipeTaskFails, PipeTaskStops, PipeTaskKept, PipeWaits, JobTaskFails,
     JobTaskPanics
<1> QED
  BY <1>3, <1>4, <1>6, <1>7, <1>8, <1>9, <1>10, <1>11, <1>12, <1>13, <1>14
     DEF Next, Command, Waiting


-----------------------------------------------------------------------------
(* No process is lost.                                                     *)

Held(p) ==
  \/ \E i \in DOMAIN table : p \in Range(table[i].tasks)
  \/ p \in Range(front) \cup Range(kids) \cup dropped

Live(p) == run[p] \in {"running", "stopped"}

(* A process in a job stays in one.                                        *)
LEMMA JobKeeps ==
  ASSUME Inv, Next, NEW p \in Proc, run[p] # "ended",
         NEW i \in DOMAIN table, p \in Range(table[i].tasks)
  PROVE  Held(p)'
<1>1. TypeOK /\ IdsDistinct /\ CurrentIsNewest /\ TableStep /\ p \in Task
  BY TableSteps DEF Inv, Task
<1>2. \E j \in DOMAIN table' : p \in Range(table'[j].tasks)
  BY <1>1, TableFacts
<1> QED
  BY <1>2 DEF Held

(* One that was let go stays let go.                                       *)
LEMMA DroppedKept ==
  ASSUME Next
  PROVE  dropped \subseteq dropped'
BY DEF Next, Command, Waiting, CheckJobs, CheckJobsPanics, Background, StartPipeline,
   PipelineSpawnFails, WaitForAll, WaitFor, Foreground, ForegroundFails, ToBackground, Kill,
   PipeTaskEnds, PipeTaskFails, PipeTaskStops, PipeTaskKept, PipelineReturns, JobTaskEnds,
   JobTaskFails, JobTaskPanics, JobTaskStops, IgnoreSignal, JobEnds, WaitAllReturns, TaskEnds,
   TerminalStop, ProcessStops, Panicked, shellVars, vars

(* One of the pipeline in the foreground stays in it, becomes one of the    *)
(* stopped ones, goes to a job with them, or is let go.                    *)
LEMMA PipelineKeeps ==
  ASSUME Inv, Next, NEW p \in Proc, run[p] # "ended", p \in Range(front) \cup Range(kids)
  PROVE  Held(p)'
<1>0. /\ front \in Seq(Task) /\ kids \in Seq(Proc) /\ table \in Seq(JobType)
      /\ kids \in Seq(Task) /\ OnlyThePipeline
  BY DEF Inv, TypeOK, Task
<1>1. mode = "pipeline"
  <2>1. Range(<<>>) = {}
    BY DEF Range
  <2> QED
    BY <1>0, <2>1 DEF OnlyThePipeline
<1>2. CASE UNCHANGED <<front, kids>>
  BY <1>2 DEF Held
<1>3. ASSUME NEW t \in Task, front # <<>>, t = Head(front), front' = Tail(front)
      PROVE  Range(front) = {t} \cup Range(front')
  BY <1>0, <1>3, Ends
<1>4. ASSUME NEW t \in Task
      PROVE  /\ Range(<<t>>) = {t}
             /\ Range(Append(kids, t)) = Range(kids) \cup {t}
  <2>1. DOMAIN <<t>> = {1} /\ <<t>>[1] = t
    OBVIOUS
  <2>2. /\ DOMAIN Append(kids, t) = DOMAIN kids \cup {Len(kids) + 1}
        /\ Append(kids, t)[Len(kids) + 1] = t /\ Len(kids) + 1 \notin DOMAIN kids
        /\ \A i \in DOMAIN kids : Append(kids, t)[i] = kids[i]
    BY <1>0
  <2>3. Range(<<t>>) = {t}
    BY <2>1 DEF Range
  <2> DEFINE more == Append(kids, t)
             n == Len(kids) + 1
  <2>4. /\ DOMAIN more = DOMAIN kids \cup {n} /\ more[n] = t
        /\ \A i \in DOMAIN kids : more[i] = kids[i]
    BY <2>2
  <2> HIDE DEF more, n
  <2>5. Range(more) = Range(kids) \cup {t}
    BY <2>4 DEF Range
  <2> QED
    BY <2>3, <2>5 DEF more
<1>5. ASSUME NEW t \in Task, PipeTaskEnds(t)
      PROVE  Held(p)'
  <2>1. front # <<>> /\ t = Head(front) /\ front' = Tail(front) /\ kids' = kids /\ run[t] = "ended"
    BY <1>5 DEF PipeTaskEnds, PipeWaits, Ready
  <2> QED
    BY <1>3, <2>1 DEF Held
<1>6. ASSUME NEW t \in Task, PipeTaskFails(t)
      PROVE  Held(p)'
  <2>1. run[t] = "ended" /\ dropped' = dropped \cup Range(kids) \cup (Range(front) \ {t})
    BY <1>6 DEF PipeTaskFails, Ready
  <2>2. p \in dropped'
    BY <2>1
  <2> QED
    BY <2>2 DEF Held
<1>7. ASSUME NEW t \in Task, PipeTaskStops(t) \/ (TerminalStop(t) /\ PipeWaits(t))
      PROVE  Held(p)'
  <2>1. front # <<>> /\ t = Head(front) /\ kids = <<>> /\ front' = Tail(front) /\ kids' = <<t>>
    <3>1. PipeWaits(t) /\ t \in Proc /\ ~Waits(t)
      BY <1>1, <1>7 DEF PipeTaskStops, TerminalStop, Waits
    <3>2. kids = <<>>
      BY <3>1, JobsAssumption DEF PipeWaits
    <3> QED
      BY <1>7, <3>1, <3>2 DEF PipeWaits, PipeTaskStops, TerminalStop
  <2>2. Range(kids) = {}
    BY <2>1 DEF Range
  <2>3. p \in Range(front') \cup Range(kids')
    BY <1>3, <1>4, <2>1, <2>2
  <2> QED
    BY <2>3 DEF Held
<1>8. ASSUME NEW t \in Task, PipeTaskKept(t)
      PROVE  Held(p)'
  <2>1. front # <<>> /\ t = Head(front) /\ front' = Tail(front) /\ kids' = Append(kids, t)
    BY <1>8 DEF PipeTaskKept
  <2>2. p \in Range(front') \cup Range(kids')
    BY <1>3, <1>4, <2>1
  <2> QED
    BY <2>2 DEF Held
<1>9. CASE PipelineReturns
  <2>1. front = <<>> /\ Range(<<>>) = {} /\ p \in Range(kids) /\ kids # <<>>
    BY <1>9 DEF PipelineReturns, Range
  <2> DEFINE more == table'
  <2>2. more = AddAsCurrent(table, kids, "Stopped")
    BY <1>9, <2>1 DEF PipelineReturns
  <2> HIDE DEF more
  <2>3. Extends(more, table, kids)
    BY <1>0, <2>2, Added
  <2>4. Len(more) \in DOMAIN more /\ p \in Range(more[Len(more)].tasks)
    BY <1>0, <2>1, <2>3 DEF Extends
  <2> QED
    BY <2>4 DEF Held, more
<1>10. ASSUME NEW t \in Task, TaskEnds(t) \/ TerminalStop(t)
       PROVE  Held(p)'
  <2>1. CASE TaskEnds(t)
    BY <1>2, <2>1 DEF TaskEnds, shellVars
  <2>2. CASE TerminalStop(t)
    BY <1>1, <1>7, <2>2 DEF TerminalStop, Waits
  <2> QED
    BY <1>10, <2>1, <2>2
<1>11. ASSUME NEW q \in Proc, ProcessStops(q)
       PROVE  Held(p)'
  BY <1>2, <1>11 DEF ProcessStops, shellVars
<1>12. Panicked => Held(p)'
  BY <1>1 DEF Panicked
<1>13. ~Command
  BY <1>1 DEF Command, CheckJobs, CheckJobsPanics, Background, StartPipeline, PipelineSpawnFails,
     WaitForAll, WaitFor, Foreground, ForegroundFails, ToBackground, Kill
<1>14. ASSUME NEW t \in Task
       PROVE  /\ ~JobTaskEnds(t) /\ ~JobTaskFails(t) /\ ~JobTaskPanics(t) /\ ~JobTaskStops(t)
              /\ IgnoreSignal(t) => UNCHANGED <<front, kids>>
  BY <1>1 DEF JobTaskEnds, JobTaskFails, JobTaskPanics, JobTaskStops, IgnoreSignal, Waits,
     shellVars
<1>15. ~JobEnds /\ ~WaitAllReturns
  BY <1>1 DEF JobEnds, WaitAllReturns
<1> QED
  BY <1>2, <1>5, <1>6, <1>7, <1>8, <1>9, <1>10, <1>11, <1>12, <1>13, <1>14, <1>15
     DEF Next, Waiting

(* A process runs, or is stopped, that did so before, that was just         *)
(* started, or that a stop reached while it was waited for.                *)
LEMMA Started ==
  ASSUME Inv, Next, NEW p \in Proc, Live(p)'
  PROVE  Live(p) \/ Held(p)'
<1>0. /\ run \in [Task -> {"fresh", "running", "stopped", "ended"}] /\ Proc \subseteq Task
      /\ TypeOK /\ \A i \in DOMAIN table : table[i] \in JobType
  BY DEF Inv, TypeOK, Task
<1>1. ASSUME run' = run
      PROVE  Live(p)
  BY <1>1 DEF Live
<1>2. ASSUME NEW t \in Task, NEW v, run' = [run EXCEPT ![t] = v],
             v = "ended" \/ t \in Work \/ run[t] = "running" \/ run[t] = "stopped"
      PROVE  Live(p)
  BY <1>0, <1>2, JobsAssumption DEF Live
<1>3. ASSUME NEW s \in Pipelines, StartPipeline(s) \/ PipelineSpawnFails(s)
      PROVE  Live(p) \/ Held(p)'
  <2>1. /\ run' = [t \in Task |-> IF t \in Range(s) THEN "running" ELSE run[t]]
        /\ front' = s \/ dropped' = dropped \cup Range(s)
    BY <1>3 DEF StartPipeline, PipelineSpawnFails
  <2>2. CASE p \in Range(s)
    BY <2>1, <2>2 DEF Held
  <2>3. CASE p \notin Range(s)
    BY <1>0, <2>1, <2>3 DEF Live
  <2> QED
    BY <2>2, <2>3
<1>4. ASSUME NEW i \in DOMAIN table, Foreground(i) \/ ForegroundFails(i) \/ ToBackground(i)
      PROVE  Live(p)
  <2> DEFINE r == Rep(table[i])
  <2>1. r # None => r \in Proc
    BY <1>0, RepIsProc
  <2> HIDE DEF r
  <2>2. (r # None /\ Continue(r)) \/ run' = run
    BY <1>4 DEF Foreground, ForegroundFails, ToBackground, r
  <2> QED
    BY <1>0, <1>1, <2>1, <2>2, Continued DEF Live
<1>5. ASSUME NEW i \in DOMAIN table, Kill(i)
      PROVE  Live(p)
  <2> DEFINE r == Rep(table[i])
  <2>1. r # None => r \in Proc
    BY <1>0, RepIsProc
  <2> HIDE DEF r
  <2>2. r # None /\ run' = [run EXCEPT ![r] = "ended"]
    BY <1>5 DEF Kill, r
  <2> QED
    BY <1>0, <2>1, <2>2 DEF Live
<1>6. ASSUME NEW t \in Task, TerminalStop(t)
      PROVE  Live(p) \/ Held(p)'
  <2>1. t \in Proc /\ run' = [run EXCEPT ![t] = "stopped"] /\ run[t] # "ended"
    BY <1>6 DEF TerminalStop
  <2>2. CASE p # t
    BY <1>0, <2>1, <2>2 DEF Live
  <2>3. CASE p = t /\ Waits(t)
    <3>1. at \in DOMAIN table /\ t \in Range(table[at].tasks)
      <4>1. /\ at \in DOMAIN table /\ table[at].tasks \in Seq(Task) /\ table[at].tasks # <<>>
            /\ t = Last(table[at].tasks)
        BY <1>0, <2>3 DEF Waits, JobType
      <4> QED
        BY <4>1, Ends
    <3> QED
      BY <2>1, <2>3, <3>1, JobKeeps
  <2>4. CASE p = t /\ PipeWaits(t)
    <3>1. front \in Seq(Task) /\ front # <<>> /\ t = Head(front)
      BY <1>0, <2>4 DEF PipeWaits, TypeOK
    <3>2. t \in Range(front)
      BY <3>1, Ends
    <3> QED
      BY <2>1, <2>4, <3>2, PipelineKeeps
  <2> QED
    BY <1>6, <2>2, <2>3, <2>4 DEF TerminalStop
<1>7. ASSUME NEW t \in Task,
             \/ PipeTaskEnds(t) \/ PipeTaskFails(t) \/ PipeTaskStops(t) \/ PipeTaskKept(t)
             \/ JobTaskEnds(t) \/ JobTaskFails(t) \/ JobTaskPanics(t) \/ JobTaskStops(t)
             \/ IgnoreSignal(t)
      PROVE  run' = run
  BY <1>7 DEF PipeTaskEnds, PipeTaskFails, PipeTaskStops, PipeTaskKept, JobTaskEnds, JobTaskFails,
     JobTaskPanics, JobTaskStops, IgnoreSignal, taskVars
<1>8. ASSUME \/ CheckJobs \/ CheckJobsPanics \/ WaitForAll \/ PipelineReturns \/ JobEnds
             \/ WaitAllReturns \/ Panicked
      PROVE  run' = run
  BY <1>8 DEF CheckJobs, CheckJobsPanics, WaitForAll, PipelineReturns, JobEnds, WaitAllReturns,
     Panicked, taskVars, vars
<1>9. ASSUME NEW i \in DOMAIN table, WaitFor(i)
      PROVE  run' = run
  BY <1>9 DEF WaitFor, taskVars
<1>10. ASSUME NEW w \in Work, Background(w)
       PROVE  Live(p)
  BY <1>0, <1>10, JobsAssumption DEF Background, Live
<1>11. ASSUME NEW t \in Task, TaskEnds(t)
       PROVE  Live(p)
  BY <1>0, <1>11 DEF TaskEnds, Live
<1>12. ASSUME NEW q \in Proc, ProcessStops(q)
       PROVE  Live(p)
  BY <1>0, <1>12 DEF ProcessStops, Live
<1> QED
  BY <1>1, <1>3, <1>4, <1>5, <1>6, <1>7, <1>8, <1>9, <1>10, <1>11, <1>12
     DEF Next, Command, Waiting


LEMMA HeldNext ==
  ASSUME Inv, Next
  PROVE  NoProcessLost'
<1> SUFFICES ASSUME NEW p \in Proc, Live(p)'
             PROVE  Held(p)'
  BY DEF NoProcessLost, Live, Held
<1>1. CASE ~Live(p)
  BY <1>1, Started
<1>2. CASE Live(p)
  <2>1. run[p] # "ended" /\ Held(p)
    BY <1>2 DEF Inv, NoProcessLost, Live, Held
  <2> QED
    BY <2>1, JobKeeps, PipelineKeeps, DroppedKept DEF Held
<1> QED
  BY <1>1, <1>2

LEMMA InvNext == Inv /\ [Next]_vars => Inv'
<1>1. ASSUME Inv, Next
      PROVE  Inv'
  <2>1. IdsDistinct' /\ CurrentIsNewest'
    BY <1>1, TableSteps, TableFacts DEF Inv
  <2> QED
    BY <1>1, <2>1, TypeNext, PipelineNext, PassedNext, HeldNext DEF Inv
<1>2. ASSUME Inv, UNCHANGED vars
      PROVE  Inv'
  BY <1>2 DEF Inv, TypeOK, OnlyThePipeline, Passed, IdsDistinct, CurrentIsNewest, NoProcessLost,
     vars, taskVars, shellVars
<1> QED
  BY <1>1, <1>2

LEMMA InvHolds == Spec => []Inv
<1> QED
  BY InvInit, InvNext, PTL DEF Spec

-----------------------------------------------------------------------------
(* A job specification names one job: whatever has left the table, a new    *)
(* job gets an id no other has, and the id it has is the one it keeps      *)
(* (next_id, poll, sweep_completed_jobs).                                  *)
THEOREM IdsNameOneJob == Spec => []IdsDistinct
<1>1. Inv => IdsDistinct
  BY DEF Inv
<1> QED
  BY <1>1, InvHolds, PTL

(* `%+` never names a job older than another in the table: a job added      *)
(* takes the mark from the one that has it, and no sweep gives it to a job  *)
(* that is not the last (add_as_current, current_job).                     *)
THEOREM CurrentNewest == Spec => []CurrentIsNewest
<1>1. Inv => CurrentIsNewest
  BY DEF Inv
<1> QED
  BY <1>1, InvHolds, PTL

(* Every process that has been started and has not ended is in a job, or in *)
(* the pipeline in the foreground, or was let go with a pipeline that       *)
(* failed, whatever stops, ends or is continued and in whatever order the   *)
(* shell looks at it (wait_for_pipeline_processes, Job::wait).             *)
THEOREM ProcessesKept == Spec => []NoProcessLost
<1>1. Inv => NoProcessLost
  BY DEF Inv
<1> QED
  BY <1>1, InvHolds, PTL

(* No step takes a job with a task that has not ended out of the table, not *)
(* even under another job's id (poll_done, sweep_completed_jobs).          *)
THEOREM JobsLeaveEnded == Spec => LeavesWhenEnded
<1> DEFINE Leaves == \A i \in DOMAIN table :
             table[i].id \notin {table'[j].id : j \in DOMAIN table'} =>
               \A t \in Range(table[i].tasks) : run[t] = "ended"
<1>1. ASSUME Inv, Next
      PROVE  Leaves
  BY <1>1, TableSteps, TableFacts DEF Inv
<1>2. Inv /\ [Next]_vars => [Leaves]_vars
  BY <1>1
<1>3. Spec => [][Leaves]_vars
  BY <1>2, InvHolds, PTL DEF Spec
<1> QED
  BY <1>3 DEF LeavesWhenEnded

(* `wait` without arguments does not return early: when it does, every job  *)
(* still in the table was reported stopped, or the result of a task was an  *)
(* error (wait_all).                                                       *)
THEOREM WaitAllReturnsLate == Spec => WaitAllWaits
<1> DEFINE Waited == mode = "waitall" /\ mode' = "prompt" =>
             \/ \A j \in DOMAIN table' : table'[j].state = "Stopped"
             \/ \E t \in Task : t \in taken' \ taken /\ outcome[t] # "ok"
<1>1. ASSUME Inv, Next, mode = "waitall", mode' = "prompt"
      PROVE  \/ \A j \in DOMAIN table' : table'[j].state = "Stopped"
             \/ \E t \in Task : t \in taken' \ taken /\ outcome[t] # "ok"
  <2>1. (\E t \in Task : JobTaskFails(t)) \/ WaitAllReturns
    <3>1. ~Command /\ ~Panicked /\ ~PipelineReturns
      BY <1>1 DEF Command, CheckJobs, CheckJobsPanics, Background, StartPipeline,
         PipelineSpawnFails, WaitForAll, WaitFor, Foreground, ForegroundFails, ToBackground,
         Kill, Panicked, PipelineReturns
    <3>2. ASSUME NEW t \in Task
          PROVE  /\ ~PipeTaskEnds(t) /\ ~PipeTaskFails(t) /\ ~PipeTaskStops(t)
                 /\ ~PipeTaskKept(t) /\ ~PipeWaits(t)
      BY <1>1 DEF PipeTaskEnds, PipeTaskFails, PipeTaskStops, PipeTaskKept, PipeWaits
    <3>3. ~NextJob
      BY <1>1 DEF NextJob
    <3>4. ASSUME NEW t \in Task
          PROVE  /\ ~JobTaskEnds(t) /\ ~JobTaskPanics(t) /\ ~JobTaskStops(t)
                 /\ ~IgnoreSignal(t) /\ ~TaskEnds(t)
      BY <1>1, <3>3 DEF JobTaskEnds, JobTaskPanics, JobTaskStops, IgnoreSignal, TaskEnds,
         shellVars
    <3>5. ASSUME NEW t \in Task
          PROVE  ~TerminalStop(t)
      BY <3>2, <3>3 DEF TerminalStop
    <3>6. ~JobEnds /\ ~\E p \in Proc : ProcessStops(p)
      BY <1>1, <3>3 DEF JobEnds, ProcessStops, shellVars
    <3> QED
      BY <1>1, <3>1, <3>2, <3>4, <3>5, <3>6 DEF Next, Waiting
  <2>2. ASSUME NEW t \in Task, JobTaskFails(t)
        PROVE  t \in taken' \ taken /\ outcome[t] # "ok"
    BY <2>2 DEF JobTaskFails, Ready
  <2>3. ASSUME WaitAllReturns
        PROVE  \A j \in DOMAIN table' : table'[j].state = "Stopped"
    <3>1. /\ table \in Seq(JobType) /\ DOMAIN table = 1..Len(table) /\ Len(table) \in Nat
          /\ Passed /\ at \in Nat
      BY <1>1 DEF Inv, TypeOK
    <3>2. table' = Kept(table) /\ at > Len(table)
      BY <2>3 DEF WaitAllReturns
    <3>3. PICK place \in [1..Len(table') -> DOMAIN table] :
            \A n \in DOMAIN table' : table'[n] = table[place[n]] /\ table[place[n]].tasks # <<>>
      BY <3>1, <3>2, KeptJobs
    <3>4. Len(table') \in Nat /\ DOMAIN table' = 1..Len(table')
      BY <1>1, TypeNext DEF TypeOK
    <3>5. \A i \in DOMAIN table : i < at
      BY <3>1, <3>2
    <3> QED
      BY <1>1, <3>1, <3>3, <3>4, <3>5 DEF Passed
  <2> QED
    BY <2>1, <2>2, <2>3
<1>2. Inv /\ [Next]_vars => [Waited]_vars
  BY <1>1
<1>3. Spec => [][Waited]_vars
  BY <1>2, InvHolds, PTL DEF Spec
<1> QED
  BY <1>3 DEF WaitAllWaits


=============================================================================
