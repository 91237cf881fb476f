----------------------------- MODULE WalkProofs -----------------------------
(***************************************************************************)
(* Theorems about Walk, for any namespace, any trees, any options and any  *)
(* number of changes by others.                                            *)
(*                                                                         *)
(* The walk is in order, and free of loops, because of what it keeps on its *)
(* two stacks, whatever the directories hold.  That it stays beneath its    *)
(* root rests on the host: a directory lies in one place only, and changes  *)
(* keep it so.  That nothing left alone is lost rests on both: what has     *)
(* been left alone lies where it lay, so the walk finds it there.           *)
(***************************************************************************)
EXTENDS Walk, SequenceTheorems, TLAPS

-----------------------------------------------------------------------------
(* Paths and stacks.                                                       *)

IsTuple(s) == s \in Seq(Range(s))

(* p is q, or an ancestor of q. *)
Leads(p, q) == Len(p) <= Len(q) /\ \A i \in 1..Len(p) : p[i] = q[i]

LEMMA TupleFacts ==
  ASSUME NEW S, NEW s \in Seq(S)
  PROVE  /\ IsTuple(s) /\ Len(s) \in Nat /\ DOMAIN s = 1..Len(s)
         /\ \A i \in 1..Len(s) : s[i] \in Range(s)
<1>1. /\ Len(s) \in Nat /\ DOMAIN s = 1..Len(s)
      /\ s = [i \in 1..Len(s) |-> s[i]]
  OBVIOUS
<1>2. \A i \in 1..Len(s) : s[i] \in Range(s)
  BY <1>1 DEF Range
<1>3. s \in [1..Len(s) -> Range(s)]
  BY <1>1, <1>2
<1>4. s \in Seq(Range(s))
  BY <1>1, <1>3
<1> QED
  BY <1>1, <1>2, <1>4 DEF IsTuple

LEMMA TupleIs ==
  ASSUME NEW s, IsTuple(s)
  PROVE  Len(s) \in Nat /\ DOMAIN s = 1..Len(s)
BY DEF IsTuple

LEMMA EmptyIs ==
  IsTuple(<<>>) /\ Len(<<>>) = 0 /\ DOMAIN <<>> = {}
<1>1. <<>> \in Seq(Range(<<>>))
  OBVIOUS
<1>2. Len(<<>>) = 0
  OBVIOUS
<1>3. IsTuple(<<>>)
  BY <1>1 DEF IsTuple
<1>4. DOMAIN <<>> = 1..0
  BY <1>2, <1>3, TupleIs
<1> QED
  BY <1>2, <1>3, <1>4

LEMMA Grown ==
  ASSUME NEW s, IsTuple(s), NEW x
  PROVE  /\ IsTuple(Append(s, x)) /\ Len(Append(s, x)) = Len(s) + 1
         /\ Append(s, x)[Len(s) + 1] = x
         /\ \A i \in 1..Len(s) : Append(s, x)[i] = s[i]
<1>1. PICK S : s \in Seq(S)
  BY DEF IsTuple
<1> DEFINE T == S \cup {x}
           t == Append(s, x)
<1>2. s \in Seq(T) /\ x \in T /\ Len(s) \in Nat
  <2>1. Len(s) \in Nat /\ s \in [1..Len(s) -> S]
    BY <1>1
  <2>2. s \in [1..Len(s) -> T]
    BY <2>1
  <2> QED
    BY <2>1, <2>2
<1> HIDE DEF T
<1>3. /\ t \in Seq(T) /\ Len(t) = Len(s) + 1 /\ t[Len(s) + 1] = x
      /\ \A i \in 1..Len(s) : t[i] = s[i]
  BY <1>2
<1> HIDE DEF t
<1>4. IsTuple(t)
  BY <1>3, TupleFacts
<1> QED
  BY <1>3, <1>4 DEF t

LEMMA Shrunk ==
  ASSUME NEW s, IsTuple(s), s # <<>>
  PROVE  /\ IsTuple(Front(s)) /\ Len(Front(s)) = Len(s) - 1 /\ Len(s) \in Nat \ {0}
         /\ Last(s) = s[Len(s)]
         /\ \A i \in 1..(Len(s) - 1) : Front(s)[i] = s[i]
<1>1. PICK S : s \in Seq(S)
  BY DEF IsTuple
<1>2. Len(s) \in Nat \ {0}
  BY <1>1
<1> DEFINE n == Len(s) - 1
           f == SubSeq(s, 1, n)
<1>3. /\ f \in Seq(S) /\ Len(f) = n /\ n = Len(s) - 1
      /\ \A i \in 1..n : f[i] = s[i]
  <2>1. n \in Nat /\ n < Len(s) /\ n = Len(s) - 1
    BY <1>2
  <2> HIDE DEF n
  <2>2. f \in Seq(S)
    BY <1>1, <2>1
  <2>3. Len(f) = n
    BY <1>1, <2>1
  <2>4. \A i \in 1..n : f[i] = s[i]
    BY <1>1, <2>1
  <2> QED
    BY <2>1, <2>2, <2>3, <2>4
<1> HIDE DEF f, n
<1>4. IsTuple(f)
  BY <1>3, TupleFacts
<1>5. Front(s) = f /\ Last(s) = s[Len(s)]
  BY DEF Front, Last, f, n
<1> QED
  BY <1>2, <1>3, <1>4, <1>5

LEMMA Replaced ==
  ASSUME NEW s, IsTuple(s), NEW n \in DOMAIN s, NEW x
  PROVE  /\ IsTuple([s EXCEPT ![n] = x]) /\ Len([s EXCEPT ![n] = x]) = Len(s)
         /\ \A i \in 1..Len(s) : [s EXCEPT ![n] = x][i] = IF i = n THEN x ELSE s[i]
<1>1. Len(s) \in Nat /\ DOMAIN s = 1..Len(s) /\ s \in [1..Len(s) -> Range(s)]
  BY DEF IsTuple
<1> DEFINE t == [s EXCEPT ![n] = x]
<1>2. /\ t \in [1..Len(s) -> Range(s) \cup {x}]
      /\ \A i \in 1..Len(s) : t[i] = IF i = n THEN x ELSE s[i]
  BY <1>1
<1> HIDE DEF t
<1>3. t \in Seq(Range(s) \cup {x}) /\ Len(t) = Len(s)
  BY <1>1, <1>2
<1> QED
  BY <1>2, <1>3, TupleFacts DEF t

(* IsPrefix, place by place. *)
LEMMA PrefixLeads ==
  ASSUME NEW p, NEW q, IsTuple(p), IsTuple(q), IsPrefix(p, q)
  PROVE  Leads(p, q)
<1>1. /\ p \in Seq(Range(p)) /\ q \in Seq(Range(q)) /\ Len(p) \in Nat /\ Len(q) \in Nat
      /\ Len(p) <= Len(q)
      /\ SubSeq(p, 1, Len(p)) = SubSeq(q, 1, Len(p))
  BY DEF IsTuple, IsPrefix
<1>2. ASSUME NEW i \in 1..Len(p)
      PROVE  p[i] = q[i]
  <2>1. SubSeq(p, 1, Len(p))[i] = p[i]
    BY <1>1
  <2>2. SubSeq(q, 1, Len(p))[i] = q[i]
    BY <1>1
  <2> QED
    BY <1>1, <2>1, <2>2
<1> QED
  BY <1>1, <1>2 DEF Leads

-----------------------------------------------------------------------------
(* The two stacks.  They are given as parameters, as a step changes one     *)
(* and then the other.                                                     *)

Frame(f) ==
  /\ f = [id |-> f.id, rel |-> f.rel, followed |-> f.followed, entries |-> f.entries]
  /\ IsTuple(f.rel)

(* Each directory being read lies in the one before it, under a name that   *)
(* has been taken from it.                                                 *)
Nested(frames) ==
  /\ IsTuple(frames)
  /\ \A i \in DOMAIN frames : Frame(frames[i]) /\ Len(frames[i].rel) = i - 1
  /\ \A i, j \in DOMAIN frames :
       i < j => Leads(frames[i].rel, frames[j].rel) /\ frames[j].rel[i] \notin frames[i].entries

(* No name that is still to come leads to p.                                *)
Passed(frames, p) ==
  \A i \in DOMAIN frames :
    Leads(frames[i].rel, p) /\ i <= Len(p) => p[i] \notin frames[i].entries

(* The path of an entry in hand: a name taken from the innermost directory, *)
(* of which nothing has been given yet.                                    *)
Fresh(frames, owed, given, p) ==
  /\ IsTuple(p) /\ Len(p) = Len(frames)
  /\ \A i \in DOMAIN frames : Leads(frames[i].rel, p) /\ p[i] \notin frames[i].entries
  /\ \A e \in given : ~Leads(p, e.rel)
  /\ \A i \in DOMAIN owed : ~Leads(p, owed[i].rel)

GivenDir(e) == opts.contents_first /\ e.kind = "entry" /\ IsDir(e)

(* What has been given is not to come again, and with contents_first       *)
(* nothing beneath a directory that has been given is.                     *)
Behind(frames, given) ==
  \A e \in given :
    /\ IsTuple(e.rel) /\ Passed(frames, e.rel)
    /\ GivenDir(e) => \A i \in DOMAIN frames : ~Leads(e.rel, frames[i].rel)

(* The directories that are to be given after their contents: none lies     *)
(* beneath a later one, and none has been given.                           *)
Waiting(frames, owed, given) ==
  /\ IsTuple(owed)
  /\ opts.contents_first \/ owed = <<>>
  /\ \A i \in DOMAIN owed :
       /\ IsTuple(owed[i].rel) /\ i - 1 <= Len(owed[i].rel) /\ Passed(frames, owed[i].rel)
       /\ \A j \in DOMAIN owed : i < j => ~Leads(owed[j].rel, owed[i].rel)
       /\ \A e \in given : e.rel # owed[i].rel /\ (GivenDir(e) => ~Leads(e.rel, owed[i].rel))

(* Nothing has been given that p must not come after.                       *)
NotAfter(given, p) == \A e \in given : GivenDir(e) => ~Leads(e.rel, p)

InHand(p) ==
  Fresh(stack, deferred, seen, p) /\ NotAfter(seen, p)

Entries(e) == e = [rel |-> e.rel, node |-> e.node, followed |-> e.followed, id |-> e.id]

(* The invariant for the order: how far the two stacks are apart, and what  *)
(* they and the entry in hand say of what has been given.                  *)
Ordered ==
  /\ Nested(stack) /\ Behind(stack, seen) /\ Waiting(stack, deferred, seen)
  /\ Len(deferred) <= IF pc = "next" THEN Len(stack) + 1 ELSE Len(stack)
  /\ pc \in {"entry", "list"} => Entries(cur) /\ InHand(cur.rel)
  /\ pc = "start" => stack = <<>> /\ deferred = <<>> /\ seen = {}

(* The invariant for the loops: the check made when a directory is opened   *)
(* still holds when it is put on the stack.                                *)
Checked ==
  pc = "list" /\ cur.followed => \A i \in DOMAIN stack : stack[i].id # cur.id

Inv == Ordered /\ Checked /\ NoLoop

LEMMA SelfLeads ==
  ASSUME NEW p, IsTuple(p)
  PROVE  Leads(p, p)
BY TupleIs DEF Leads

(* Leaving a directory.                                                    *)
LEMMA Popped ==
  ASSUME NEW F, NEW D, NEW G, Nested(F), F # <<>>, Behind(F, G), Waiting(F, D, G)
  PROVE  /\ Nested(Front(F)) /\ Behind(Front(F), G) /\ Waiting(Front(F), D, G)
         /\ Len(Front(F)) = Len(F) - 1
<1> DEFINE f == Front(F)
           n == Len(F) - 1
<1>0. IsTuple(F)
  BY DEF Nested
<1>1. /\ IsTuple(f) /\ Len(f) = n /\ n \in Nat /\ n = Len(F) - 1
      /\ \A i \in 1..n : f[i] = F[i]
      /\ DOMAIN f = 1..n /\ DOMAIN F = 1..(n + 1)
  BY <1>0, Shrunk, TupleIs
<1> HIDE DEF f, n
<1>2. \A i \in 1..n : i \in DOMAIN F /\ f[i] = F[i]
  BY <1>1
<1>3. Nested(f)
  BY <1>1, <1>2 DEF Nested
<1>4. ASSUME NEW p, Passed(F, p)
      PROVE  Passed(f, p)
  BY <1>1, <1>2, <1>4 DEF Passed
<1>5. Behind(f, G)
  BY <1>1, <1>2, <1>4 DEF Behind
<1>6. Waiting(f, D, G)
  BY <1>4 DEF Waiting
<1> QED
  BY <1>1, <1>3, <1>5, <1>6 DEF f

(* A deferred directory is taken off.                                      *)
LEMMA OwedLess ==
  ASSUME NEW F, NEW D, NEW G, D # <<>>, Waiting(F, D, G)
  PROVE  Waiting(F, Front(D), G) /\ Len(Front(D)) = Len(D) - 1
<1> DEFINE f == Front(D)
           n == Len(D) - 1
<1>0. IsTuple(D)
  BY DEF Waiting
<1>1. /\ IsTuple(f) /\ Len(f) = n /\ n \in Nat /\ n = Len(D) - 1
      /\ \A i \in 1..n : f[i] = D[i]
      /\ DOMAIN f = 1..n /\ DOMAIN D = 1..(n + 1)
  BY <1>0, Shrunk, TupleIs
<1> HIDE DEF f, n
<1>2. \A i \in 1..n : i \in DOMAIN D /\ f[i] = D[i]
  BY <1>1
<1>3. opts.contents_first
  BY DEF Waiting
<1>4. Waiting(F, f, G)
  BY <1>1, <1>2, <1>3 DEF Waiting
<1> QED
  BY <1>1, <1>4 DEF f, n

(* Nothing at p or beneath it has been given or deferred, and no name that  *)
(* is still to come leads there.                                           *)
NotYet(frames, owed, given, p) ==
  /\ IsTuple(p) /\ Passed(frames, p)
  /\ \A e \in given : ~Leads(p, e.rel)
  /\ \A i \in DOMAIN owed : ~Leads(p, owed[i].rel)

LEMMA FreshNotYet ==
  ASSUME NEW F, NEW D, NEW G, NEW p, Fresh(F, D, G, p)
  PROVE  NotYet(F, D, G, p)
BY DEF Fresh, NotYet, Passed

(* Something is given of which nothing had been given.                     *)
LEMMA FreshGiven ==
  ASSUME NEW F, NEW D, NEW G, NEW e, Behind(F, G), Waiting(F, D, G),
         NotYet(F, D, G, e.rel), ~GivenDir(e)
  PROVE  Behind(F, G \cup {e}) /\ Waiting(F, D, G \cup {e})
<1>1. IsTuple(e.rel) /\ Passed(F, e.rel)
  BY DEF NotYet
<1>2. Behind(F, G \cup {e})
  BY <1>1 DEF Behind
<1>3. ASSUME NEW i \in DOMAIN D
      PROVE  e.rel # D[i].rel
  BY <1>1, SelfLeads DEF NotYet
<1>4. Waiting(F, D, G \cup {e})
  BY <1>3 DEF Waiting
<1> QED
  BY <1>2, <1>4

(* It is deferred.                                                         *)
LEMMA Deferred ==
  ASSUME NEW F, NEW D, NEW G, NEW d, Waiting(F, D, G),
         NotYet(F, D, G, d.rel), NotAfter(G, d.rel),
         opts.contents_first, Len(D) <= Len(d.rel)
  PROVE  Waiting(F, Append(D, d), G) /\ Len(Append(D, d)) = Len(D) + 1
<1> DEFINE A == Append(D, d)
           k == Len(D) + 1
<1>1. IsTuple(D) /\ IsTuple(d.rel)
  BY DEF Waiting, NotYet
<1>2. /\ IsTuple(A) /\ Len(A) = k /\ A[k] = d /\ Len(D) \in Nat /\ k = Len(D) + 1
      /\ \A i \in 1..Len(D) : A[i] = D[i]
  BY <1>1, Grown, TupleIs
<1> HIDE DEF A, k
<1>3. DOMAIN A = 1..k /\ DOMAIN D = 1..Len(D)
  BY <1>1, <1>2, TupleIs
<1>4. ASSUME NEW i \in DOMAIN A
      PROVE  i = k \/ (i \in DOMAIN D /\ i < k /\ A[i] = D[i])
  BY <1>2, <1>3
<1>5. ASSUME NEW i \in DOMAIN A
      PROVE  /\ IsTuple(A[i].rel) /\ i - 1 <= Len(A[i].rel) /\ Passed(F, A[i].rel)
             /\ \A j \in DOMAIN A : i < j => ~Leads(A[j].rel, A[i].rel)
             /\ \A e \in G : e.rel # A[i].rel /\ (GivenDir(e) => ~Leads(e.rel, A[i].rel))
  <2>1. CASE i = k
    <3>1. IsTuple(d.rel) /\ Passed(F, d.rel)
      BY DEF NotYet
    <3>2. \A e \in G : e.rel # d.rel /\ (GivenDir(e) => ~Leads(e.rel, d.rel))
      BY <1>1, SelfLeads DEF NotYet, NotAfter
    <3>3. A[i] = d /\ i - 1 = Len(D) /\ \A j \in DOMAIN A : ~(i < j)
      BY <1>2, <1>3, <2>1
    <3> QED
      BY <3>1, <3>2, <3>3
  <2>2. CASE i # k
    <3>1. i \in DOMAIN D /\ i < k /\ A[i] = D[i]
      BY <1>4, <2>2
    <3>2. ASSUME NEW j \in DOMAIN A, i < j
          PROVE  ~Leads(A[j].rel, D[i].rel)
      <4>1. CASE j = k
        BY <4>1, <3>1, <1>2 DEF NotYet
      <4>2. CASE j # k
        <5>1. j \in DOMAIN D /\ A[j] = D[j]
          BY <1>4, <4>2
        <5> QED
          BY <5>1, <3>1, <3>2 DEF Waiting
      <4> QED
        BY <4>1, <4>2
    <3>3. /\ IsTuple(D[i].rel) /\ i - 1 <= Len(D[i].rel) /\ Passed(F, D[i].rel)
          /\ \A e \in G : e.rel # D[i].rel /\ (GivenDir(e) => ~Leads(e.rel, D[i].rel))
      BY <3>1 DEF Waiting
    <3> QED
      BY <3>1, <3>2, <3>3
  <2> QED
    BY <2>1, <2>2
<1>6. Waiting(F, A, G)
  BY <1>2, <1>5 DEF Waiting
<1> QED
  BY <1>2, <1>6 DEF A, k

(* A directory is entered.                                                 *)
LEMMA Entered ==
  ASSUME NEW F, NEW D, NEW G, NEW f, Nested(F), Behind(F, G), Waiting(F, D, G),
         Frame(f), Fresh(F, D, G, f.rel), NotAfter(G, f.rel)
  PROVE  /\ Nested(Append(F, f)) /\ Behind(Append(F, f), G) /\ Waiting(Append(F, f), D, G)
         /\ Len(Append(F, f)) = Len(F) + 1 /\ NotYet(Append(F, f), D, G, f.rel)
<1> DEFINE A == Append(F, f)
           k == Len(F) + 1
<1>1. IsTuple(F) /\ IsTuple(f.rel) /\ Len(f.rel) = Len(F)
  BY DEF Nested, Fresh
<1>2. /\ IsTuple(A) /\ Len(A) = k /\ A[k] = f /\ Len(F) \in Nat /\ k = Len(F) + 1
      /\ \A i \in 1..Len(F) : A[i] = F[i]
  BY <1>1, Grown, TupleIs
<1> HIDE DEF A, k
<1>3. DOMAIN A = 1..k /\ DOMAIN F = 1..Len(F)
  BY <1>1, <1>2, TupleIs
<1>4. ASSUME NEW i \in DOMAIN A
      PROVE  i = k \/ (i \in DOMAIN F /\ i < k /\ A[i] = F[i])
  BY <1>2, <1>3
<1>5. ASSUME NEW i \in DOMAIN F
      PROVE  Leads(F[i].rel, f.rel) /\ f.rel[i] \notin F[i].entries
  BY DEF Fresh
<1>6. ASSUME NEW i \in DOMAIN A
      PROVE  Frame(A[i]) /\ Len(A[i].rel) = i - 1
  <2>1. CASE i = k
    BY <2>1, <1>1, <1>2
  <2>2. CASE i # k
    BY <2>2, <1>4 DEF Nested
  <2> QED
    BY <2>1, <2>2
<1>7. ASSUME NEW i \in DOMAIN A, NEW j \in DOMAIN A, i < j
      PROVE  Leads(A[i].rel, A[j].rel) /\ A[j].rel[i] \notin A[i].entries
  <2>1. i \in DOMAIN F /\ A[i] = F[i]
    BY <1>4, <1>2, <1>3, <1>7
  <2>2. CASE j = k
    BY <2>1, <2>2, <1>2, <1>5
  <2>3. CASE j # k
    <3>1. j \in DOMAIN F /\ A[j] = F[j]
      BY <1>4, <2>3
    <3> QED
      BY <2>1, <3>1, <1>7 DEF Nested
  <2> QED
    BY <2>2, <2>3
<1>8. Nested(A)
  BY <1>2, <1>6, <1>7 DEF Nested
<1>9. ASSUME NEW p, Passed(F, p), ~Leads(f.rel, p) \/ Len(p) = Len(F)
      PROVE  Passed(A, p)
  <2> SUFFICES ASSUME NEW i \in DOMAIN A, Leads(A[i].rel, p), i <= Len(p)
               PROVE  p[i] \notin A[i].entries
    BY DEF Passed
  <2>1. CASE i = k
    BY <2>1, <1>2, <1>9
  <2>2. CASE i # k
    BY <2>2, <1>4, <1>9 DEF Passed
  <2> QED
    BY <2>1, <2>2
<1>10. Behind(A, G)
  <2> SUFFICES ASSUME NEW e \in G
               PROVE  /\ IsTuple(e.rel) /\ Passed(A, e.rel)
                      /\ GivenDir(e) => \A i \in DOMAIN A : ~Leads(e.rel, A[i].rel)
    BY DEF Behind
  <2>1. IsTuple(e.rel) /\ Passed(F, e.rel)
    BY DEF Behind
  <2>2. Passed(A, e.rel)
    BY <2>1, <1>9 DEF Fresh
  <2>3. ASSUME GivenDir(e), NEW i \in DOMAIN A
        PROVE  ~Leads(e.rel, A[i].rel)
    <3>1. CASE i = k
      BY <3>1, <2>3, <1>2 DEF NotAfter
    <3>2. CASE i # k
      BY <3>2, <2>3, <1>4 DEF Behind
    <3> QED
      BY <3>1, <3>2
  <2> QED
    BY <2>1, <2>2, <2>3
<1>11. ASSUME NEW i \in DOMAIN D
       PROVE  Passed(A, D[i].rel)
  BY <1>9 DEF Waiting, Fresh
<1>12. Waiting(A, D, G)
  BY <1>11 DEF Waiting
<1>13. NotYet(A, D, G, f.rel)
  <2>1. Passed(F, f.rel)
    BY DEF Fresh, Passed
  <2>2. Passed(A, f.rel)
    BY <2>1, <1>1, <1>9
  <2> QED
    BY <2>2 DEF NotYet, Fresh
<1> QED
  BY <1>2, <1>8, <1>10, <1>12, <1>13 DEF A, k

(* The last of the deferred directories is given: none that is still read,  *)
(* and none that is still deferred, lies beneath it.                       *)
LEMMA OwedGiven ==
  ASSUME NEW F, NEW D, NEW G, NEW e, Nested(F), Behind(F, G), Waiting(F, D, G),
         Len(F) < Len(D), D # <<>>, e.rel = Last(D).rel
  PROVE  Behind(F, G \cup {e}) /\ Waiting(F, Front(D), G \cup {e})
<1> DEFINE f == Front(D)
           n == Len(D) - 1
           d == Last(D)
<1>0. IsTuple(D)
  BY DEF Waiting
<1>1. /\ IsTuple(f) /\ Len(f) = n /\ n \in Nat /\ n = Len(D) - 1
      /\ \A i \in 1..n : f[i] = D[i]
      /\ DOMAIN f = 1..n /\ DOMAIN D = 1..(n + 1)
  BY <1>0, Shrunk, TupleIs
<1>1a. d = D[n + 1]
  BY <1>0, <1>1, Shrunk
<1>2. Len(F) \in Nat /\ DOMAIN F = 1..Len(F)
  BY TupleIs DEF Nested
<1> HIDE DEF f, n, d
<1>3. n + 1 \in DOMAIN D /\ \A i \in 1..n : i \in DOMAIN D /\ i < n + 1 /\ f[i] = D[i]
  BY <1>1
<1>4. /\ IsTuple(e.rel) /\ n <= Len(e.rel) /\ Passed(F, e.rel) /\ e.rel = D[n + 1].rel
      /\ \A i \in 1..n : ~Leads(e.rel, D[i].rel)
  <2>1. e.rel = D[n + 1].rel /\ (n + 1) - 1 = n
    BY <1>1, <1>1a DEF d
  <2> DEFINE k == n + 1
  <2>2. k \in DOMAIN D /\ k - 1 = n /\ \A i \in 1..n : i \in DOMAIN D /\ i < k
    BY <1>3, <2>1
  <2>3. e.rel = D[k].rel
    BY <2>1
  <2> HIDE DEF k
  <2>4. IsTuple(D[k].rel) /\ k - 1 <= Len(D[k].rel) /\ Passed(F, D[k].rel)
    BY <2>2 DEF Waiting
  <2>5. \A i \in 1..n : ~Leads(D[k].rel, D[i].rel)
    BY <2>2 DEF Waiting
  <2> QED
    BY <2>2, <2>3, <2>4, <2>5 DEF k
<1>5. Len(e.rel) \in Nat
  BY <1>4, TupleIs
<1>6. ASSUME NEW i \in DOMAIN F
      PROVE  ~Leads(e.rel, F[i].rel)
  <2>1. Len(F[i].rel) = i - 1
    BY DEF Nested
  <2> QED
    BY <1>1, <1>2, <1>4, <1>5, <2>1 DEF Leads
<1>7. Behind(F, G \cup {e})
  BY <1>4, <1>6 DEF Behind
<1>8. ASSUME NEW i \in 1..n
      PROVE  e.rel # D[i].rel
  <2>1. IsTuple(D[i].rel)
    BY <1>3 DEF Waiting
  <2> QED
    BY <1>4, <2>1, SelfLeads
<1>9. Waiting(F, f, G)
  BY OwedLess DEF f
<1>10. Waiting(F, f, G \cup {e})
  BY <1>1, <1>3, <1>4, <1>8, <1>9 DEF Waiting
<1> QED
  BY <1>7, <1>10 DEF f

LEMMA LeadsOn ==
  ASSUME NEW p, NEW q, NEW r, IsTuple(p), IsTuple(q), IsTuple(r), Leads(p, q), Leads(q, r)
  PROVE  Leads(p, r)
<1>1. Len(p) \in Nat /\ Len(q) \in Nat /\ Len(r) \in Nat
  BY TupleIs
<1>2. ASSUME NEW i \in 1..Len(p)
      PROVE  i \in 1..Len(q) /\ p[i] = q[i]
  BY <1>1 DEF Leads
<1>3. ASSUME NEW i \in 1..Len(p)
      PROVE  p[i] = r[i]
  BY <1>2 DEF Leads
<1>4. Len(p) <= Len(r)
  BY <1>1 DEF Leads
<1> QED
  BY <1>3, <1>4 DEF Leads

(* The same directories are being read, with no more names to come.         *)
Thinner(frames, thin) ==
  /\ IsTuple(thin) /\ DOMAIN thin = DOMAIN frames /\ Len(thin) = Len(frames)
  /\ \A i \in DOMAIN frames :
       /\ Frame(thin[i])
       /\ thin[i].rel = frames[i].rel /\ thin[i].entries \subseteq frames[i].entries
       /\ thin[i].id = frames[i].id /\ thin[i].followed = frames[i].followed

LEMMA ThinnerKeeps ==
  ASSUME NEW F, NEW T, NEW D, NEW G, Thinner(F, T),
         Nested(F), Behind(F, G), Waiting(F, D, G)
  PROVE  Nested(T) /\ Behind(T, G) /\ Waiting(T, D, G)
<1>1. ASSUME NEW p, Passed(F, p)
      PROVE  Passed(T, p)
  BY <1>1 DEF Passed, Thinner
<1>2. Nested(T)
  BY DEF Nested, Thinner
<1>3. Behind(T, G)
  BY <1>1 DEF Behind, Thinner
<1>4. Waiting(T, D, G)
  BY <1>1 DEF Waiting
<1> QED
  BY <1>2, <1>3, <1>4

(* A name is taken from the innermost directory.                           *)
LEMMA TakenFresh ==
  ASSUME NEW F, NEW T, NEW D, NEW G, NEW name, NEW p,
         Nested(F), F # <<>>, Behind(F, G), Waiting(F, D, G), Thinner(F, T),
         name \in Last(F).entries, name \notin T[Len(F)].entries,
         p = Append(Last(F).rel, name)
  PROVE  /\ Fresh(T, D, G, p)
         /\ NotAfter(G, p)
<1> DEFINE n == Len(F)
           q == F[n].rel
<1>1. /\ n \in Nat \ {0} /\ Last(F) = F[n] /\ DOMAIN F = 1..n
  BY Shrunk, TupleIs DEF Nested
<1>2. n \in DOMAIN F
  BY <1>1
<1>3. /\ IsTuple(q) /\ Len(q) = n - 1
      /\ \A i \in DOMAIN F : i < n => Leads(F[i].rel, q) /\ q[i] \notin F[i].entries
  <2>1. \A i \in DOMAIN F : Frame(F[i]) /\ Len(F[i].rel) = i - 1
    BY DEF Nested
  <2> HIDE DEF n
  <2>2. \A i \in DOMAIN F : i < n => Leads(F[i].rel, q) /\ q[i] \notin F[i].entries
    BY <1>2 DEF Nested
  <2> QED
    BY <1>2, <2>1, <2>2 DEF Frame
<1> HIDE DEF q, n
<1>4. /\ IsTuple(p) /\ Len(p) = n /\ p[n] = name /\ \A i \in 1..(n - 1) : p[i] = q[i]
  <2>1. Len(q) + 1 = n
    BY <1>1, <1>3
  <2>2. p = Append(q, name)
    BY <1>1 DEF q
  <2>3. /\ IsTuple(p) /\ Len(p) = Len(q) + 1 /\ p[Len(q) + 1] = name
        /\ \A i \in 1..Len(q) : p[i] = q[i]
    BY <2>2, <1>3, Grown
  <2> QED
    BY <2>1, <2>3, <1>1, <1>3
<1>5. name \in F[n].entries /\ name \notin T[n].entries
  BY <1>1 DEF n
<1>6. Leads(q, p)
  BY <1>1, <1>3, <1>4 DEF Leads
<1>7. ASSUME NEW i \in DOMAIN F
      PROVE  /\ IsTuple(F[i].rel) /\ Leads(F[i].rel, p) /\ p[i] \notin T[i].entries
             /\ T[i].rel = F[i].rel /\ i \in DOMAIN T
  <2>1. IsTuple(F[i].rel) /\ T[i].rel = F[i].rel /\ T[i].entries \subseteq F[i].entries
    BY DEF Nested, Frame, Thinner
  <2>2. CASE i = n
    BY <2>1, <2>2, <1>4, <1>5, <1>6 DEF Thinner, q
  <2>3. CASE i # n
    <3>1. i < n /\ i \in 1..(n - 1)
      BY <1>1, <2>3
    <3>2. Leads(F[i].rel, q) /\ q[i] \notin F[i].entries /\ p[i] = q[i]
      BY <3>1, <1>3, <1>4
    <3>3. Leads(F[i].rel, p)
      BY <3>2, <1>3, <1>4, <1>6, <2>1, LeadsOn
    <3> QED
      BY <2>1, <3>2, <3>3 DEF Thinner
  <2> QED
    BY <2>2, <2>3
<1>8. ASSUME NEW r, IsTuple(r), Passed(F, r)
      PROVE  ~Leads(p, r)
  <2> SUFFICES ASSUME Leads(p, r)
               PROVE  FALSE
    OBVIOUS
  <2>1. Leads(F[n].rel, r) /\ Len(r) \in Nat
    BY <1>3, <1>4, <1>6, <1>8, LeadsOn, TupleIs DEF q
  <2>2. n <= Len(r) /\ r[n] = name
    BY <1>1, <1>4 DEF Leads
  <2> QED
    BY <1>2, <1>5, <1>8, <2>1, <2>2 DEF Passed
<1>9. ASSUME NEW e \in G
      PROVE  IsTuple(e.rel) /\ ~Leads(p, e.rel)
  BY <1>8 DEF Behind
<1>10. ASSUME NEW i \in DOMAIN D
       PROVE  ~Leads(p, D[i].rel)
  BY <1>8 DEF Waiting
<1>11. Fresh(T, D, G, p)
  BY <1>1, <1>4, <1>7, <1>9, <1>10 DEF Fresh, Thinner, n
<1>12. ASSUME NEW e \in G, GivenDir(e), Leads(e.rel, p)
       PROVE  FALSE
  <2>1. ~Leads(e.rel, q)
    BY <1>2, <1>12 DEF Behind, q
  <2>2. Len(e.rel) \in Nat /\ Len(e.rel) <= n
    BY <1>9, <1>12, <1>4, TupleIs DEF Leads
  <2>3. CASE Len(e.rel) = n
    BY <2>3, <1>4, <1>9, <1>12 DEF Leads
  <2>4. CASE Len(e.rel) # n
    <3>1. Len(e.rel) <= n - 1
      BY <2>2, <2>4, <1>1
    <3>2. \A i \in 1..Len(e.rel) : i \in 1..(n - 1) /\ e.rel[i] = p[i]
      BY <3>1, <1>12, <2>2, <1>1 DEF Leads
    <3> QED
      BY <3>1, <3>2, <1>3, <1>4, <2>1 DEF Leads
  <2> QED
    BY <2>3, <2>4
<1> QED
  BY <1>11, <1>12 DEF NotAfter

-----------------------------------------------------------------------------
(* The order.                                                              *)

(* InOrder, of one step.                                                   *)
InOrderStep ==
  pc # "ready" /\ pc' \in {"ready", "done"} /\ item' # Nothing =>
    \A e \in seen :
      /\ e.rel # item'.rel
      /\ IF opts.contents_first
         THEN e.kind = "entry" /\ IsDir(e) => ~IsStrictPrefix(e.rel, item'.rel)
         ELSE ~IsStrictPrefix(item'.rel, e.rel)

(* What a step has to keep, with the parts named by their next values.      *)
LEMMA StepKeeps ==
  ASSUME opts' = opts, Nested(stack'), Behind(stack', seen'),
         Waiting(stack', deferred', seen'),
         Len(deferred') <= IF pc' = "next" THEN Len(stack') + 1 ELSE Len(stack'),
         pc' # "start",
         ASSUME pc' \in {"entry", "list"}
         PROVE  /\ Entries(cur') /\ Fresh(stack', deferred', seen', cur'.rel)
                /\ NotAfter(seen', cur'.rel)
  PROVE  Ordered'
<1>1. Nested(stack)'
  BY DEF Nested, Frame, Leads
<1>2. Behind(stack, seen)'
  BY DEF Behind, Passed, GivenDir, IsDir, Leads
<1>3. Waiting(stack, deferred, seen)'
  BY DEF Waiting, Passed, GivenDir, IsDir, Leads
<1>4. ASSUME pc' \in {"entry", "list"}
      PROVE  Entries(cur)' /\ InHand(cur.rel)'
  <2>1. /\ Entries(cur') /\ Fresh(stack', deferred', seen', cur'.rel)
        /\ NotAfter(seen', cur'.rel)
    BY <1>4
  <2>2. Entries(cur)'
    BY <2>1 DEF Entries
  <2>3. Fresh(stack, deferred, seen, cur.rel)'
    BY <2>1 DEF Fresh, Leads
  <2>4. NotAfter(seen, cur.rel)'
    BY <2>1 DEF NotAfter, GivenDir, IsDir, Leads
  <2> QED
    BY <2>2, <2>3, <2>4 DEF InHand
<1> QED
  BY <1>1, <1>2, <1>3, <1>4 DEF Ordered

LEMMA ItemFresh ==
  ASSUME NEW F, NEW D, Behind(stack, seen), NotYet(F, D, seen, item'.rel),
         NotAfter(seen, item'.rel)
  PROVE  InOrderStep
<1> SUFFICES ASSUME NEW e \in seen
             PROVE  /\ e.rel # item'.rel
                    /\ IF opts.contents_first
                       THEN e.kind = "entry" /\ IsDir(e) => ~IsStrictPrefix(e.rel, item'.rel)
                       ELSE ~IsStrictPrefix(item'.rel, e.rel)
  BY DEF InOrderStep
<1> DEFINE p == item'.rel
<1>1. IsTuple(e.rel) /\ IsTuple(p) /\ ~Leads(p, e.rel)
  BY DEF Behind, NotYet
<1>2. GivenDir(e) => ~Leads(e.rel, p)
  BY DEF NotAfter
<1> HIDE DEF p
<1>3. e.rel # p
  BY <1>1, SelfLeads
<1>4. ~IsPrefix(p, e.rel) /\ (GivenDir(e) => ~IsPrefix(e.rel, p))
  BY <1>1, <1>2, PrefixLeads
<1> QED
  BY <1>3, <1>4 DEF p, GivenDir, IsStrictPrefix

LEMMA ItemOwed ==
  ASSUME Behind(stack, seen), Waiting(stack, deferred, seen), deferred # <<>>,
         item'.rel = Last(deferred).rel
  PROVE  InOrderStep
<1> SUFFICES ASSUME NEW e \in seen
             PROVE  /\ e.rel # item'.rel
                    /\ IF opts.contents_first
                       THEN e.kind = "entry" /\ IsDir(e) => ~IsStrictPrefix(e.rel, item'.rel)
                       ELSE ~IsStrictPrefix(item'.rel, e.rel)
  BY DEF InOrderStep
<1> DEFINE p == item'.rel
           n == Len(deferred)
<1>1. IsTuple(deferred) /\ opts.contents_first /\ IsTuple(e.rel)
  BY DEF Waiting, Behind
<1>2. n \in DOMAIN deferred /\ Last(deferred) = deferred[n]
  BY <1>1, Shrunk, TupleIs
<1>3. p = deferred[n].rel
  BY <1>2
<1> HIDE DEF p, n
<1>4. IsTuple(p) /\ e.rel # p /\ (GivenDir(e) => ~Leads(e.rel, p))
  BY <1>2, <1>3 DEF Waiting
<1>5. GivenDir(e) => ~IsPrefix(e.rel, p)
  BY <1>1, <1>4, PrefixLeads
<1> QED
  BY <1>1, <1>4, <1>5 DEF p, GivenDir, IsStrictPrefix

(* A call ends with something new.                                         *)
LEMMA ReturnKeeps ==
  ASSUME NEW x, item' = x, seen' = seen \cup {x}, pc' \in {"ready", "done"}, opts' = opts,
         ~GivenDir(x), Behind(stack, seen),
         Nested(stack'), Behind(stack', seen), Waiting(stack', deferred', seen),
         NotYet(stack', deferred', seen, x.rel), NotAfter(seen, x.rel),
         Len(deferred') <= Len(stack')
  PROVE  Ordered' /\ InOrderStep
<1>1. Behind(stack', seen') /\ Waiting(stack', deferred', seen')
  BY FreshGiven
<1>2. Ordered'
  BY <1>1, StepKeeps
<1>3. InOrderStep
  BY ItemFresh
<1> QED
  BY <1>2, <1>3

(* The end of handle_entry, whether or not the directory was entered.       *)
LEMMA SettleKeeps ==
  ASSUME Settle, opts' = opts, pc \in {"entry", "list"},
         Behind(stack, seen), IsTuple(stack), IsTuple(deferred),
         Nested(stack'), Behind(stack', seen), Waiting(stack', deferred, seen),
         NotYet(stack', deferred, seen, cur.rel), NotAfter(seen, cur.rel),
         Len(cur.rel) = Len(stack), Len(deferred) <= Len(stack),
         Len(stack') \in {Len(stack), Len(stack) + 1}
  PROVE  Ordered' /\ InOrderStep
<1>1. Len(stack) \in Nat /\ Len(deferred) \in Nat
  BY TupleIs
<1>2. CASE IsDir(cur) /\ opts.contents_first
  <2>1. /\ deferred' = Append(deferred, cur) /\ pc' = "next" /\ seen' = seen
    BY <1>2 DEF Settle, Continue
  <2>2. Waiting(stack', deferred', seen) /\ Len(deferred') = Len(deferred) + 1
    BY <1>2, <2>1, Deferred
  <2>3. Len(deferred') <= Len(stack') + 1
    BY <1>1, <2>2
  <2>4. Ordered'
    BY <2>1, <2>2, <2>3, StepKeeps
  <2> QED
    BY <2>1, <2>4 DEF InOrderStep
<1>3. CASE ~(IsDir(cur) /\ opts.contents_first)
  <2>1. deferred' = deferred /\ Len(deferred') <= Len(stack')
    BY <1>1, <1>3 DEF Settle
  <2>2. CASE Skippable(Len(cur.rel))
    <3>1. pc' = "next" /\ seen' = seen
      BY <1>3, <2>2 DEF Settle, Continue
    <3>2. Len(deferred') <= Len(stack') + 1
      BY <1>1, <2>1
    <3>3. Ordered'
      BY <2>1, <3>1, <3>2, StepKeeps
    <3> QED
      BY <3>1, <3>3 DEF InOrderStep
  <2>3. CASE ~Skippable(Len(cur.rel))
    <3> DEFINE x == [kind |-> "entry", rel |-> cur.rel, node |-> cur.node,
                     followed |-> cur.followed]
    <3>1. item' = x /\ seen' = seen \cup {x} /\ pc' = "ready"
      BY <1>3, <2>3 DEF Settle, Yield, Return
    <3>2. ~GivenDir(x) /\ x.rel = cur.rel
      BY <1>3 DEF GivenDir, IsDir
    <3> HIDE DEF x
    <3> QED
      BY <2>1, <3>1, <3>2, ReturnKeeps
  <2> QED
    BY <2>2, <2>3
<1> QED
  BY <1>2, <1>3

(* What get_deferred_dir takes off for nobody.                             *)
LEMMA PaidKeeps ==
  ASSUME Ordered, pc = "next", Paid
  PROVE  Waiting(stack, deferred', seen) /\ Len(deferred') <= Len(stack)
<1>1. /\ Waiting(stack, deferred, seen) /\ Len(deferred) <= Len(stack) + 1
      /\ Len(stack) \in Nat /\ Len(deferred) \in Nat
      /\ opts.contents_first \/ deferred = <<>>
  BY TupleIs DEF Ordered, Nested, Waiting
<1>2. CASE Owed
  <2>1. deferred' = Front(deferred) /\ deferred # <<>>
    BY <1>1, <1>2 DEF Paid, Owed
  <2>2. Waiting(stack, deferred', seen) /\ Len(deferred') = Len(deferred) - 1
    BY <1>1, <2>1, OwedLess
  <2> QED
    BY <1>1, <2>2
<1>3. CASE ~Owed
  <2>1. deferred' = deferred
    BY <1>3 DEF Paid
  <2>2. Len(deferred) <= Len(stack)
    BY <1>1, <1>3 DEF Owed
  <2> QED
    BY <1>1, <2>1, <2>2
<1> QED
  BY <1>2, <1>3

LEMMA NothingGiven ==
  ASSUME pc' \notin {"ready", "done"} \/ item' = Nothing
  PROVE  InOrderStep
BY DEF InOrderStep

LEMMA CallKeeps ==
  ASSUME Ordered, Call
  PROVE  Ordered' /\ InOrderStep
<1>1. /\ Nested(stack) /\ Behind(stack, seen) /\ Waiting(stack, deferred, seen)
      /\ Len(deferred) <= Len(stack) /\ Len(stack) \in Nat /\ Len(deferred) \in Nat
  BY TupleIs DEF Ordered, Nested, Waiting, Call
<1>2. /\ opts' = opts /\ stack' = stack /\ deferred' = deferred /\ seen' = seen /\ pc' = "next"
  BY DEF Call, Continue, world
<1>3. Len(deferred) <= Len(stack) + 1
  BY <1>1
<1> QED
  BY <1>1, <1>2, <1>3, StepKeeps, NothingGiven

LEMMA SkipKeeps ==
  ASSUME Ordered, SkipCurrentDir
  PROVE  Ordered' /\ InOrderStep
<1>1. /\ Nested(stack) /\ Behind(stack, seen) /\ Waiting(stack, deferred, seen)
      /\ Len(deferred) <= Len(stack) /\ Len(stack) \in Nat /\ Len(deferred) \in Nat
      /\ stack # <<>>
  BY TupleIs DEF Ordered, Nested, Waiting, SkipCurrentDir
<1>2. /\ opts' = opts /\ stack' = Front(stack) /\ deferred' = deferred /\ seen' = seen
      /\ pc' = "next"
  BY DEF SkipCurrentDir, Continue, world
<1>3. /\ Nested(stack') /\ Behind(stack', seen) /\ Waiting(stack', deferred, seen)
      /\ Len(stack') = Len(stack) - 1
  BY <1>1, <1>2, Popped
<1>4. Len(deferred) <= Len(stack') + 1
  BY <1>1, <1>3
<1> QED
  BY <1>2, <1>3, <1>4, StepKeeps, NothingGiven

LEMMA RootKeeps ==
  ASSUME Ordered, RootEntry
  PROVE  Ordered' /\ InOrderStep
<1>1. stack = <<>> /\ deferred = <<>> /\ seen = {} /\ pc = "start"
  BY DEF Ordered, RootEntry
<1>2. opts' = opts /\ stack' = <<>> /\ deferred' = <<>>
  BY <1>1 DEF RootEntry, world
<1>3. IsTuple(<<>>) /\ Len(<<>>) = 0 /\ DOMAIN <<>> = {}
  BY EmptyIs
<1>4. /\ Fresh(<<>>, <<>>, {}, <<>>) /\ NotAfter({}, <<>>)
      /\ Nested(<<>>) /\ Behind(<<>>, {}) /\ Waiting(<<>>, <<>>, {})
  BY <1>3 DEF Fresh, NotAfter, Nested, Behind, Waiting
<1> DEFINE node == StatPath(Root, FALSE)
<1>5. CASE node = Missing
  <2> DEFINE x == [kind |-> "io", rel |-> <<>>]
  <2>1. item' = x /\ seen' = seen \cup {x} /\ pc' = "done"
    BY <1>1, <1>5 DEF RootEntry, Fail, Return
  <2>2. x.rel = <<>> /\ ~GivenDir(x)
    BY DEF GivenDir
  <2> HIDE DEF x, node
  <2>3. NotYet(<<>>, <<>>, {}, <<>>)
    BY <1>4, FreshNotYet
  <2>4. Len(deferred') <= Len(stack')
    BY <1>2, <1>3
  <2> QED
    BY <1>1, <1>2, <1>4, <2>1, <2>2, <2>3, <2>4, ReturnKeeps
<1>6. CASE node # Missing
  <2>1. pc' = "entry" /\ cur' = Entry(<<>>, node) /\ seen' = {}
    BY <1>1, <1>6 DEF RootEntry, Continue
  <2> HIDE DEF node
  <2>2. cur'.rel = <<>> /\ Entries(cur')
    BY <2>1 DEF Entry, Entries
  <2>3. Len(deferred') <= Len(stack')
    BY <1>2, <1>3
  <2> QED
    BY <1>2, <1>4, <2>1, <2>2, <2>3, StepKeeps, NothingGiven
<1> QED
  BY <1>5, <1>6

LEMMA PayKeeps ==
  ASSUME Ordered, Pay
  PROVE  Ordered' /\ InOrderStep
<1>1. /\ Nested(stack) /\ Behind(stack, seen) /\ Waiting(stack, deferred, seen)
      /\ Len(deferred) <= Len(stack) + 1 /\ Len(stack) \in Nat /\ Len(deferred) \in Nat
      /\ Len(stack) < Len(deferred) /\ deferred # <<>>
  BY TupleIs DEF Ordered, Nested, Waiting, Pay, Owed
<1> DEFINE e == Last(deferred)
           x == [kind |-> "entry", rel |-> e.rel, node |-> e.node, followed |-> e.followed]
<1>2. /\ opts' = opts /\ stack' = stack /\ deferred' = Front(deferred) /\ pc' = "ready"
      /\ item' = x /\ seen' = seen \cup {x}
  BY DEF Pay, Yield, Return, world
<1>3. x.rel = Last(deferred).rel
  OBVIOUS
<1> HIDE DEF x
<1>4. Behind(stack, seen') /\ Waiting(stack, deferred', seen')
  BY <1>1, <1>2, <1>3, OwedGiven
<1>5. Len(deferred') <= Len(stack)
  <2>1. Len(Front(deferred)) = Len(deferred) - 1
    BY <1>1, OwedLess
  <2> QED
    BY <1>1, <1>2, <2>1
<1>6. Ordered'
  BY <1>1, <1>2, <1>4, <1>5, StepKeeps
<1> QED
  BY <1>1, <1>2, <1>3, <1>6, ItemOwed

LEMMA LeaveKeeps ==
  ASSUME Ordered, Leave
  PROVE  Ordered' /\ InOrderStep
<1>1. /\ Nested(stack) /\ Behind(stack, seen) /\ stack # <<>>
      /\ Waiting(stack, deferred', seen) /\ Len(deferred') <= Len(stack)
  BY PaidKeeps DEF Ordered, Leave
<1>2. /\ opts' = opts /\ stack' = Front(stack) /\ seen' = seen /\ pc' = "next"
  BY DEF Leave, Continue, world
<1>3. /\ Nested(stack') /\ Behind(stack', seen) /\ Waiting(stack', deferred', seen)
      /\ Len(stack') = Len(stack) - 1
  BY <1>1, <1>2, Popped
<1>4. Len(deferred') <= Len(stack') + 1
  <2>1. Len(stack) \in Nat /\ Len(deferred') \in Nat
    BY <1>1, TupleIs DEF Nested, Waiting
  <2> QED
    BY <1>1, <1>3, <2>1
<1> QED
  BY <1>2, <1>3, <1>4, StepKeeps, NothingGiven

LEMMA FinishKeeps ==
  ASSUME Ordered, Finish
  PROVE  Ordered' /\ InOrderStep
<1>1. /\ Nested(stack) /\ Behind(stack, seen)
      /\ Waiting(stack, deferred', seen) /\ Len(deferred') <= Len(stack)
  BY PaidKeeps DEF Ordered, Finish
<1>2. /\ opts' = opts /\ stack' = stack /\ seen' = seen /\ pc' = "done" /\ item' = Nothing
  BY DEF Finish, world
<1> QED
  BY <1>1, <1>2, StepKeeps, NothingGiven

LEMMA TakenThin ==
  ASSUME NEW F, NEW name, Nested(F), F # <<>>
  PROVE  LET T == [F EXCEPT ![Len(F)].entries = @ \ {name}]
         IN  Thinner(F, T) /\ name \notin T[Len(F)].entries
<1> DEFINE n == Len(F)
           x == [F[n] EXCEPT !.entries = @ \ {name}]
           T == [F EXCEPT ![n] = x]
<1>1. IsTuple(F) /\ n \in DOMAIN F /\ DOMAIN F = 1..n
  <2>1. IsTuple(F)
    BY DEF Nested
  <2> QED
    BY <2>1, Shrunk, TupleIs
<1>2. \A i \in DOMAIN F : Frame(F[i])
  BY DEF Nested
<1>3. /\ IsTuple(T) /\ Len(T) = n /\ DOMAIN T = 1..n
      /\ \A i \in 1..n : T[i] = IF i = n THEN x ELSE F[i]
  <2> HIDE DEF x
  <2>1. /\ IsTuple(T) /\ Len(T) = n
        /\ \A i \in 1..n : T[i] = IF i = n THEN x ELSE F[i]
    BY <1>1, Replaced
  <2> HIDE DEF T
  <2> QED
    BY <2>1, TupleIs
<1>4. /\ Frame(x) /\ x.rel = F[n].rel /\ x.entries = F[n].entries \ {name}
      /\ x.id = F[n].id /\ x.followed = F[n].followed
  <2> DEFINE f == F[n]
             rest == f.entries \ {name}
  <2>1. Frame(f)
    BY <1>1, <1>2
  <2>2. x = [f EXCEPT !.entries = rest]
    OBVIOUS
  <2> HIDE DEF f, rest, x
  <2>3. f = [id |-> f.id, rel |-> f.rel, followed |-> f.followed, entries |-> f.entries]
    BY <2>1 DEF Frame
  <2>4. x = [id |-> f.id, rel |-> f.rel, followed |-> f.followed, entries |-> rest]
    BY <2>2, <2>3
  <2>5. Frame(x)
    BY <2>1, <2>4 DEF Frame
  <2> QED
    BY <2>4, <2>5 DEF f, rest
<1>5. T = [F EXCEPT ![Len(F)].entries = @ \ {name}]
  OBVIOUS
<1> HIDE DEF x, T, n
<1>6. Thinner(F, T)
  BY <1>1, <1>2, <1>3, <1>4 DEF Thinner, n
<1>7. name \notin T[n].entries
  BY <1>1, <1>3, <1>4
<1> QED
  BY <1>5, <1>6, <1>7 DEF n

LEMMA TakeKeeps ==
  ASSUME Ordered, Take
  PROVE  Ordered' /\ InOrderStep
<1>1. /\ Nested(stack) /\ Behind(stack, seen) /\ stack # <<>>
      /\ Waiting(stack, deferred', seen) /\ Len(deferred') <= Len(stack)
  BY PaidKeeps DEF Ordered, Take
<1>2. PICK name \in Last(stack).entries : ChildEntry(name)
  BY DEF Take
<1> DEFINE T == [stack EXCEPT ![Len(stack)].entries = @ \ {name}]
           p == Append(Last(stack).rel, name)
           node == StatAt(Last(stack).id, name)
<1>3. opts' = opts /\ stack' = T /\ pc = "next"
  BY <1>2 DEF Take, ChildEntry, world
<1>4. Thinner(stack, T) /\ name \notin T[Len(stack)].entries
  BY <1>1, TakenThin
<1> HIDE DEF T
<1>5. /\ Nested(T) /\ Behind(T, seen) /\ Waiting(T, deferred', seen) /\ Len(T) = Len(stack)
  BY <1>1, <1>4, ThinnerKeeps DEF Thinner
<1>6. Fresh(T, deferred', seen, p) /\ NotAfter(seen, p)
  <2> HIDE DEF p
  <2>1. p = Append(Last(stack).rel, name)
    BY DEF p
  <2> QED
    BY <1>1, <1>4, <2>1, TakenFresh
<1>7. CASE node = Missing
  <2> DEFINE x == [kind |-> "io", rel |-> p]
  <2>1. item' = x /\ seen' = seen \cup {x} /\ pc' = "ready"
    BY <1>2, <1>3, <1>7 DEF ChildEntry, Fail, Return
  <2>2. x.rel = p /\ ~GivenDir(x)
    BY DEF GivenDir
  <2> HIDE DEF x, node, p
  <2>3. NotYet(T, deferred', seen, p)
    BY <1>6, FreshNotYet
  <2> QED
    BY <1>1, <1>3, <1>5, <1>6, <2>1, <2>2, <2>3, ReturnKeeps
<1>8. CASE node # Missing
  <2>1. pc' = "entry" /\ cur' = Entry(p, node) /\ seen' = seen
    BY <1>2, <1>8 DEF ChildEntry, Continue
  <2> HIDE DEF node, p
  <2>2. cur'.rel = p /\ Entries(cur')
    BY <2>1 DEF Entry, Entries
  <2> QED
    BY <1>1, <1>3, <1>5, <1>6, <2>1, <2>2, StepKeeps, NothingGiven
<1> QED
  BY <1>7, <1>8

(* What the invariant says while there is an entry in hand.                 *)
LEMMA Holding ==
  ASSUME Ordered, pc \in {"entry", "list"}
  PROVE  /\ Nested(stack) /\ Behind(stack, seen) /\ Waiting(stack, deferred, seen)
         /\ IsTuple(stack) /\ IsTuple(deferred)
         /\ Len(deferred) <= Len(stack) /\ Len(stack) \in Nat /\ Len(deferred) \in Nat
         /\ Entries(cur) /\ Fresh(stack, deferred, seen, cur.rel) /\ NotAfter(seen, cur.rel)
         /\ NotYet(stack, deferred, seen, cur.rel)
         /\ Len(cur.rel) = Len(stack) /\ IsTuple(cur.rel)
<1>1. /\ Nested(stack) /\ Behind(stack, seen) /\ Waiting(stack, deferred, seen)
      /\ Len(deferred) <= Len(stack)
      /\ Entries(cur) /\ Fresh(stack, deferred, seen, cur.rel) /\ NotAfter(seen, cur.rel)
  BY DEF Ordered, InHand
<1>2. IsTuple(stack) /\ IsTuple(deferred) /\ Len(cur.rel) = Len(stack) /\ IsTuple(cur.rel)
  BY <1>1 DEF Nested, Waiting, Fresh
<1>3. Len(stack) \in Nat /\ Len(deferred) \in Nat
  BY <1>2, TupleIs
<1> QED
  BY <1>1, <1>2, <1>3, FreshNotYet

(* An error ends the call.                                                 *)
LEMMA FailKeeps ==
  ASSUME Ordered, pc \in {"entry", "list"}, NEW why, why # "entry", Fail(why, cur.rel),
         opts' = opts, stack' = stack, deferred' = deferred
  PROVE  Ordered' /\ InOrderStep
<1> DEFINE x == [kind |-> why, rel |-> cur.rel]
<1>1. item' = x /\ seen' = seen \cup {x} /\ pc' = "ready"
  BY DEF Fail, Return
<1>2. x.rel = cur.rel /\ ~GivenDir(x)
  BY DEF GivenDir
<1> HIDE DEF x
<1> QED
  BY <1>1, <1>2, Holding, ReturnKeeps

(* The entry in hand goes on, with something else known about it.          *)
LEMMA HandKeeps ==
  ASSUME Ordered, pc \in {"entry", "list"}, pc' \in {"entry", "list"},
         Entries(cur'), cur'.rel = cur.rel,
         opts' = opts, stack' = stack, deferred' = deferred, seen' = seen
  PROVE  Ordered' /\ InOrderStep
BY Holding, StepKeeps, NothingGiven

LEMMA FollowKeeps ==
  ASSUME Ordered, Follow
  PROVE  Ordered' /\ InOrderStep
<1> DEFINE node == StatPath(Root \o cur.rel, TRUE)
<1>1. pc = "entry" /\ opts' = opts /\ stack' = stack /\ deferred' = deferred
  BY DEF Follow, world
<1>2. CASE node = Missing
  BY <1>1, <1>2, FailKeeps DEF Follow
<1>3. CASE node # Missing
  <2>1. pc' = "entry" /\ cur' = [cur EXCEPT !.node = node, !.followed = TRUE] /\ seen' = seen
    BY <1>3 DEF Follow, Continue
  <2> HIDE DEF node
  <2>2. Entries(cur') /\ cur'.rel = cur.rel
    BY <1>1, <2>1, Holding DEF Entries
  <2> QED
    BY <1>1, <2>1, <2>2, HandKeeps
<1> QED
  BY <1>2, <1>3

LEMMA PassKeeps ==
  ASSUME Ordered, Pass
  PROVE  Ordered' /\ InOrderStep
<1>1. pc = "entry" /\ Settle /\ opts' = opts /\ stack' = stack
  BY DEF Pass, world
<1> QED
  BY <1>1, Holding, SettleKeeps

LEMMA OpenKeeps ==
  ASSUME Ordered, Open
  PROVE  Ordered' /\ InOrderStep
<1> DEFINE node == OpenChild(cur)
<1>1. pc = "entry" /\ opts' = opts /\ stack' = stack
  BY DEF Open, world
<1>2. CASE node.kind # "dir"
  BY <1>1, <1>2, FailKeeps DEF Open
<1>3. CASE node.kind = "dir" /\ Elsewhere(node.id)
  <2>1. Settle
    BY <1>3 DEF Open
  <2> QED
    BY <1>1, <2>1, Holding, SettleKeeps
<1>4. CASE node.kind = "dir" /\ ~Elsewhere(node.id) /\ ClosesLoop(node.id)
  BY <1>1, <1>4, FailKeeps DEF Open
<1>5. CASE node.kind = "dir" /\ ~Elsewhere(node.id) /\ ~ClosesLoop(node.id)
  <2>1. /\ pc' = "list" /\ cur' = [cur EXCEPT !.id = node.id] /\ seen' = seen
        /\ deferred' = deferred
    BY <1>5 DEF Open, Continue
  <2> HIDE DEF node
  <2>2. Entries(cur') /\ cur'.rel = cur.rel
    BY <1>1, <2>1, Holding DEF Entries
  <2> QED
    BY <1>1, <2>1, <2>2, HandKeeps
<1> QED
  BY <1>2, <1>3, <1>4, <1>5

LEMMA ListKeeps ==
  ASSUME Ordered, List
  PROVE  Ordered' /\ InOrderStep
<1> DEFINE f == [id |-> cur.id, rel |-> cur.rel, followed |-> cur.followed,
                 entries |-> EntryNames(cur.id)]
<1>1. pc = "list" /\ Settle /\ opts' = opts /\ stack' = Append(stack, f)
  BY DEF List, world
<1>2. Frame(f) /\ f.rel = cur.rel
  BY <1>1, Holding DEF Frame
<1> HIDE DEF f
<1>3. /\ Nested(stack') /\ Behind(stack', seen) /\ Waiting(stack', deferred, seen)
      /\ Len(stack') = Len(stack) + 1 /\ NotYet(stack', deferred, seen, cur.rel)
  BY <1>1, <1>2, Holding, Entered
<1> QED
  BY <1>1, <1>3, Holding, SettleKeeps

LEMMA StillKeeps ==
  ASSUME Ordered, opts' = opts, pc' = pc, cur' = cur, stack' = stack, deferred' = deferred,
         seen' = seen
  PROVE  Ordered'
BY DEF Ordered, Nested, Behind, Waiting, Passed, Frame, InHand, Fresh, NotAfter, GivenDir,
       IsDir, Entries, Leads

LEMMA OtherKeeps ==
  ASSUME Ordered, Other
  PROVE  Ordered' /\ InOrderStep
<1>1. /\ opts' = opts /\ pc' = pc /\ cur' = cur /\ stack' = stack /\ deferred' = deferred
      /\ seen' = seen /\ pc # "done"
  BY DEF Other
<1> QED
  BY <1>1, StillKeeps DEF InOrderStep

LEMMA InitOrdered ==
  ASSUME Init
  PROVE  Ordered
<1>1. /\ stack = <<>> /\ deferred = <<>> /\ seen = {} /\ pc = "start"
  BY DEF Init
<1>2. IsTuple(<<>>) /\ Len(<<>>) = 0 /\ DOMAIN <<>> = {}
  BY EmptyIs
<1> QED
  BY <1>1, <1>2 DEF Ordered, Nested, Behind, Waiting

LEMMA StepOrdered ==
  ASSUME Ordered, [Next]_vars
  PROVE  Ordered' /\ (InOrderStep \/ UNCHANGED vars)
<1>1. CASE Call
  BY <1>1, CallKeeps
<1>2. CASE SkipCurrentDir
  BY <1>2, SkipKeeps
<1>3. CASE RootEntry
  BY <1>3, RootKeeps
<1>4. CASE Pay
  BY <1>4, PayKeeps
<1>5. CASE Leave
  BY <1>5, LeaveKeeps
<1>6. CASE Take
  BY <1>6, TakeKeeps
<1>7. CASE Finish
  BY <1>7, FinishKeeps
<1>8. CASE Follow
  BY <1>8, FollowKeeps
<1>9. CASE Pass
  BY <1>9, PassKeeps
<1>10. CASE Open
  BY <1>10, OpenKeeps
<1>11. CASE List
  BY <1>11, ListKeeps
<1>12. CASE Other
  BY <1>12, OtherKeeps
<1>13. CASE UNCHANGED vars
  BY <1>13, StillKeeps DEF vars
<1> QED
  BY <1>1, <1>2, <1>3, <1>4, <1>5, <1>6, <1>7, <1>8, <1>9, <1>10, <1>11, <1>12, <1>13
     DEF Next, Walker, Ended

(* walk.rs: whatever the caller skips and others change, no path is given   *)
(* twice, and a directory comes before all that is given from beneath it,   *)
(* or with contents_first after it.                                        *)
THEOREM GivenInOrder == Spec => InOrder
<1>1. Init => Ordered
  BY InitOrdered
<1>2. Ordered /\ [Next]_vars => Ordered'
  BY StepOrdered
<1>3. Ordered /\ [Next]_vars =>
        [pc # "ready" /\ pc' \in {"ready", "done"} /\ item' # Nothing =>
           \A e \in seen :
             /\ e.rel # item'.rel
             /\ IF opts.contents_first
                THEN e.kind = "entry" /\ IsDir(e) => ~IsStrictPrefix(e.rel, item'.rel)
                ELSE ~IsStrictPrefix(item'.rel, e.rel)]_vars
  BY StepOrdered DEF InOrderStep
<1> QED
  BY <1>1, <1>2, <1>3, PTL DEF Spec, InOrder

-----------------------------------------------------------------------------
(* The loops.                                                              *)

LEMMA LoopFree ==
  ASSUME Inv, [Next]_vars
  PROVE  Checked' /\ NoLoop'
<1>1. Nested(stack) /\ IsTuple(stack)
  BY DEF Inv, Ordered, Nested
<1>2. ASSUME pc' # "list", stack' = stack
      PROVE  Checked' /\ NoLoop'
  BY <1>2 DEF Inv, Checked, NoLoop
<1>3. ASSUME pc' # "list", stack # <<>>, stack' = Front(stack)
      PROVE  Checked' /\ NoLoop'
  <2>1. \A i \in DOMAIN stack' : i \in DOMAIN stack /\ stack'[i] = stack[i]
    <3> DEFINE n == Len(stack) - 1
               f == Front(stack)
    <3>1. /\ IsTuple(f) /\ Len(f) = n /\ n \in Nat /\ n = Len(stack) - 1
          /\ \A i \in 1..n : f[i] = stack[i]
          /\ DOMAIN f = 1..n /\ DOMAIN stack = 1..(n + 1)
      BY <1>1, <1>3, Shrunk, TupleIs
    <3> HIDE DEF n, f
    <3> QED
      BY <3>1, <1>3 DEF f
  <2> QED
    BY <1>3, <2>1 DEF Inv, Checked, NoLoop
<1>4. ASSUME pc' # "list", Thinner(stack, stack')
      PROVE  Checked' /\ NoLoop'
  BY <1>4 DEF Inv, Checked, NoLoop, Thinner
<1>5. CASE Call \/ RootEntry \/ Pay \/ Finish \/ Follow \/ Pass
  <2>1. stack' = stack
    BY <1>5 DEF Call, RootEntry, Pay, Finish, Follow, Pass
  <2>2. pc' # "list"
    BY <1>5 DEF Call, RootEntry, Pay, Finish, Follow, Pass, Settle, Continue, Fail, Yield,
                Return
  <2> QED
    BY <1>2, <2>1, <2>2
<1>6. CASE SkipCurrentDir \/ Leave
  BY <1>3, <1>6 DEF SkipCurrentDir, Leave, Continue
<1>7. CASE Take
  <2>1. PICK name \in Last(stack).entries : ChildEntry(name)
    BY <1>7 DEF Take
  <2>2. stack' = [stack EXCEPT ![Len(stack)].entries = @ \ {name}] /\ stack # <<>>
    BY <1>7, <2>1 DEF Take, ChildEntry
  <2>3. Thinner(stack, stack')
    BY <1>1, <2>2, TakenThin
  <2>4. pc' # "list"
    BY <1>7, <2>1 DEF Take, ChildEntry, Continue, Fail, Return
  <2> QED
    BY <1>4, <2>3, <2>4
<1>8. CASE Open
  <2> DEFINE node == OpenChild(cur)
  <2>1. stack' = stack /\ pc = "entry"
    BY <1>8 DEF Open
  <2>2. CASE pc' # "list"
    BY <1>2, <2>1, <2>2
  <2>3. CASE pc' = "list"
    <3>1. /\ node.kind = "dir" /\ ~Elsewhere(node.id) /\ ~ClosesLoop(node.id)
          /\ cur' = [cur EXCEPT !.id = node.id]
      BY <1>8, <2>3, <2>1 DEF Open, Fail, Return, Settle, Yield, Continue
    <3> HIDE DEF node
    <3>2. cur'.id = node.id /\ cur'.followed = cur.followed
      BY <2>1, <3>1, Holding DEF Inv, Entries
    <3>3. Checked'
      BY <2>1, <3>1, <3>2 DEF Checked, ClosesLoop
    <3> QED
      BY <2>1, <3>3 DEF Inv, NoLoop
  <2> QED
    BY <2>2, <2>3
<1>9. CASE List
  <2> DEFINE f == [id |-> cur.id, rel |-> cur.rel, followed |-> cur.followed,
                   entries |-> EntryNames(cur.id)]
             k == Len(stack) + 1
  <2>1. stack' = Append(stack, f) /\ pc = "list" /\ pc' # "list"
    BY <1>9 DEF List, Settle, Continue, Yield, Return
  <2>2. f.id = cur.id /\ f.followed = cur.followed
    OBVIOUS
  <2> HIDE DEF f
  <2>3. /\ IsTuple(stack') /\ Len(stack') = k /\ stack'[k] = f
        /\ \A i \in 1..Len(stack) : stack'[i] = stack[i]
        /\ k = Len(stack) + 1 /\ Len(stack) \in Nat
    BY <1>1, <2>1, Grown, TupleIs
  <2> HIDE DEF k
  <2>4. \A i \in DOMAIN stack' :
          (i = k) \/ (i \in DOMAIN stack /\ i < k /\ stack'[i] = stack[i])
    BY <1>1, <2>3, TupleIs
  <2>5. ASSUME NEW i \in DOMAIN stack', NEW j \in DOMAIN stack', i < j, stack'[j].followed
        PROVE  stack'[i].id # stack'[j].id
    <3>1. k \in Nat /\ DOMAIN stack' = 1..k
      BY <2>3, TupleIs
    <3>2. i \in DOMAIN stack /\ stack'[i] = stack[i]
      BY <2>4, <2>5, <3>1
    <3>3. CASE j = k
      BY <2>1, <2>2, <2>3, <2>5, <3>2, <3>3 DEF Inv, Checked
    <3>4. CASE j # k
      BY <2>4, <2>5, <3>2, <3>4 DEF Inv, NoLoop
    <3> QED
      BY <3>3, <3>4
  <2> QED
    BY <2>1, <2>5 DEF Checked, NoLoop
<1>10. CASE Other \/ UNCHANGED vars
  <2>1. pc' = pc /\ cur' = cur /\ stack' = stack
    BY <1>10 DEF Other, vars
  <2> QED
    BY <2>1 DEF Inv, Checked, NoLoop
<1> QED
  BY <1>5, <1>6, <1>7, <1>8, <1>9, <1>10 DEF Next, Walker, Ended

THEOREM InvHolds == Spec => []Inv
<1>1. Init => Inv
  <2> SUFFICES ASSUME Init
               PROVE  Inv
    OBVIOUS
  <2>1. DOMAIN stack = {} /\ pc = "start"
    BY EmptyIs DEF Init
  <2> QED
    BY <2>1, InitOrdered DEF Inv, Checked, NoLoop
<1>2. Inv /\ [Next]_vars => Inv'
  BY StepOrdered, LoopFree DEF Inv
<1> QED
  BY <1>1, <1>2, PTL DEF Spec

(* walk.rs:692-702: a followed link never leads the walk into a directory   *)
(* it is inside of, however the directories are renamed while it opens      *)
(* them.                                                                   *)
THEOREM NeverInside == Spec => []NoLoop
<1>1. Inv => NoLoop
  BY DEF Inv
<1> QED
  BY <1>1, InvHolds, PTL

-----------------------------------------------------------------------------
(* Paths, as one path continued by another.                                *)

Path == Seq(STRING)

After(r, s) == SubSeq(s, Len(r) + 1, Len(s))

LEMMA Splits ==
  ASSUME NEW r \in Path, NEW s \in Path, IsPrefix(r, s)
  PROVE  After(r, s) \in Path /\ s = r \o After(r, s)
<1> DEFINE x == After(r, s)
<1>1. /\ Len(r) \in Nat /\ Len(s) \in Nat /\ Len(r) <= Len(s)
      /\ SubSeq(r, 1, Len(r)) = SubSeq(s, 1, Len(r))
  BY LenProperties DEF Path, IsPrefix
<1>2. x \in Path /\ Len(x) = Len(s) - Len(r) /\ \A i \in 1..Len(x) : x[i] = s[Len(r) + i]
  <2>1. \A i \in (Len(r) + 1)..Len(s) : s[i] \in STRING
    BY <1>1, ElementOfSeq DEF Path
  <2>2. /\ x \in Path
        /\ Len(x) = IF Len(r) + 1 <= Len(s) THEN Len(s) - (Len(r) + 1) + 1 ELSE 0
        /\ \A i \in 1..(Len(s) - (Len(r) + 1) + 1) : x[i] = s[(Len(r) + 1) + i - 1]
    BY <1>1, <2>1, SubSeqProperties DEF Path, After
  <2>3. Len(x) = Len(s) - Len(r)
    BY <1>1, <2>2
  <2> QED
    BY <1>1, <2>2, <2>3
<1>3. ASSUME NEW i \in 1..Len(r)
      PROVE  r[i] = s[i]
  <2>1. SubSeq(r, 1, Len(r))[i] = r[i]
    BY <1>1 DEF Path
  <2>2. SubSeq(s, 1, Len(r))[i] = s[i]
    BY <1>1 DEF Path
  <2> QED
    BY <1>1, <2>1, <2>2
<1> HIDE DEF x
<1> DEFINE z == r \o x
<1>4. /\ z \in Path /\ Len(z) = Len(s)
      /\ \A i \in 1..Len(s) : z[i] = IF i <= Len(r) THEN r[i] ELSE x[i - Len(r)]
  BY <1>1, <1>2, ConcatProperties DEF Path
<1> HIDE DEF z
<1>5. ASSUME NEW i \in 1..Len(s)
      PROVE  z[i] = s[i]
  <2>1. CASE i <= Len(r)
    BY <2>1, <1>1, <1>3, <1>4
  <2>2. CASE ~(i <= Len(r))
    BY <2>2, <1>1, <1>2, <1>4
  <2> QED
    BY <2>1, <2>2
<1>6. z = s
  BY <1>4, <1>5, SeqEqual DEF Path
<1> QED
  BY <1>2, <1>6 DEF z, x

LEMMA Continued ==
  ASSUME NEW r \in Path, NEW x \in Path
  PROVE  r \o x \in Path /\ IsPrefix(r, r \o x) /\ After(r, r \o x) = x
<1> DEFINE z == r \o x
<1>1. /\ z \in Path /\ Len(z) = Len(r) + Len(x) /\ Len(r) \in Nat /\ Len(x) \in Nat
      /\ Len(z) \in Nat
      /\ \A i \in 1..(Len(r) + Len(x)) : z[i] = IF i <= Len(r) THEN r[i] ELSE x[i - Len(r)]
  BY ConcatProperties, LenProperties DEF Path
<1> HIDE DEF z
<1>2. SubSeq(r, 1, Len(r)) = r
  BY SubSeqFull DEF Path
<1>3. SubSeq(z, 1, Len(r)) = r
  <2> DEFINE y == SubSeq(z, 1, Len(r))
  <2>1. y \in Path /\ Len(y) = Len(r) /\ \A i \in 1..Len(r) : y[i] = z[i]
    <3>1. \A i \in 1..Len(r) : z[i] \in STRING
      BY <1>1, ElementOfSeq DEF Path
    <3>2. /\ y \in Path /\ Len(y) = IF 1 <= Len(r) THEN Len(r) - 1 + 1 ELSE 0
          /\ \A i \in 1..(Len(r) - 1 + 1) : y[i] = z[1 + i - 1]
      BY <1>1, <3>1, SubSeqProperties DEF Path
    <3> QED
      BY <1>1, <3>2
  <2> HIDE DEF y
  <2>2. \A i \in 1..Len(r) : y[i] = r[i]
    BY <1>1, <2>1
  <2>3. y = r
    BY <2>1, <2>2, SeqEqual DEF Path
  <2> QED
    BY <2>3 DEF y
<1>4. After(r, z) = x
  <2> DEFINE y == After(r, z)
  <2>1. IsPrefix(r, z)
    BY <1>1, <1>2, <1>3 DEF IsPrefix
  <2>2. y \in Path /\ z = r \o y
    BY <1>1, <2>1, Splits
  <2> HIDE DEF y
  <2>3. r \o x = r \o y
    BY <2>2 DEF z
  <2>4. x = y
    BY <2>2, <2>3, ConcatSimplifications DEF Path
  <2> QED
    BY <2>4 DEF y
<1>5. IsPrefix(r, z)
  BY <1>1, <1>2, <1>3 DEF IsPrefix
<1> QED
  BY <1>1, <1>4, <1>5 DEF z

LEMMA OneAfter ==
  ASSUME NEW r \in Path, NEW x \in Path, NEW y \in Path, r \o x = r \o y
  PROVE  x = y
<1>1. x = After(r, r \o x) /\ y = After(r, r \o y)
  BY Continued
<1> QED
  BY <1>1

LEMMA Associates ==
  ASSUME NEW p \in Path, NEW q \in Path, NEW r \in Path
  PROVE  (p \o q) \o r = p \o (q \o r)
<1>1. ASSUME NEW S, NEW a \in Seq(S), NEW b \in Seq(S), NEW c \in Seq(S)
      PROVE  (a \o b) \o c = a \o (b \o c)
  BY <1>1, ConcatAssociative
<1> QED
  BY <1>1 DEF Path

LEMMA NothingAfter ==
  ASSUME NEW r \in Path
  PROVE  /\ <<>> \in Path /\ IsPrefix(<<>>, r) /\ IsPrefix(r, r)
         /\ r \o <<>> = r /\ <<>> \o r = r /\ After(<<>>, r) = r /\ After(r, r) = <<>>
<1>1. <<>> \in Path
  BY EmptySeq DEF Path
<1>2. r \o <<>> = r /\ <<>> \o r = r
  BY ConcatEmptySeq DEF Path
<1>3. /\ IsPrefix(<<>>, <<>> \o r) /\ After(<<>>, <<>> \o r) = r
      /\ IsPrefix(r, r \o <<>>) /\ After(r, r \o <<>>) = <<>>
  BY <1>1, Continued
<1> QED
  BY <1>1, <1>2, <1>3

LEMMA Further ==
  ASSUME NEW p \in Path, NEW q \in Path, NEW r \in Path, IsPrefix(p, q), IsPrefix(q, r)
  PROVE  IsPrefix(p, r)
<1> DEFINE x == After(p, q)
           y == After(q, r)
<1>1. x \in Path /\ y \in Path /\ q = p \o x /\ r = q \o y
  BY Splits
<1> HIDE DEF x, y
<1>2. r = p \o (x \o y)
  BY <1>1, Associates
<1>3. x \o y \in Path
  BY <1>1, Continued
<1> QED
  BY <1>2, <1>3, Continued

LEMMA LeadsPrefix ==
  ASSUME NEW p \in Path, NEW q \in Path, Leads(p, q)
  PROVE  IsPrefix(p, q)
<1>1. Len(p) \in Nat /\ Len(q) \in Nat /\ Len(p) <= Len(q)
  BY LenProperties DEF Path, Leads
<1> DEFINE y == SubSeq(q, 1, Len(p))
<1>2. y \in Path /\ Len(y) = Len(p) /\ \A i \in 1..Len(p) : y[i] = q[i]
  <2>1. \A i \in 1..Len(p) : q[i] \in STRING
    BY <1>1, ElementOfSeq DEF Path
  <2>2. /\ y \in Path /\ Len(y) = IF 1 <= Len(p) THEN Len(p) - 1 + 1 ELSE 0
        /\ \A i \in 1..(Len(p) - 1 + 1) : y[i] = q[1 + i - 1]
    BY <1>1, <2>1, SubSeqProperties DEF Path
  <2> QED
    BY <1>1, <2>2
<1> HIDE DEF y
<1>3. p = y
  BY <1>2, SeqEqual DEF Path, Leads
<1>4. SubSeq(p, 1, Len(p)) = p
  BY SubSeqFull DEF Path
<1> QED
  BY <1>1, <1>3, <1>4 DEF IsPrefix, y

(* An ancestor of what lies beneath a is a or above it, or beneath a.       *)
LEMMA Ancestor ==
  ASSUME NEW p \in Path, NEW a \in Path, NEW x \in Path, IsPrefix(p, a \o x)
  PROVE  \/ IsPrefix(p, a)
         \/ \E y \in Path : p = a \o y /\ IsPrefix(y, x)
<1> DEFINE z == a \o x
           w == After(p, z)
<1>1. w \in Path /\ z = p \o w
  BY Continued, Splits
<1> HIDE DEF w
<1>2. Len(p) \in Nat /\ Len(a) \in Nat
  BY LenProperties DEF Path
<1>3. /\ Leads(p, z) /\ Leads(a, z)
  <2>1. IsPrefix(a, z) /\ z \in Path
    BY Continued
  <2>2. IsTuple(p) /\ IsTuple(a) /\ IsTuple(z)
    BY <2>1, TupleFacts DEF Path
  <2> QED
    BY <2>1, <2>2, PrefixLeads
<1> HIDE DEF z
<1>4. CASE Len(p) <= Len(a)
  <2>1. Leads(p, a)
    BY <1>2, <1>3, <1>4 DEF Leads
  <2>2. IsPrefix(p, a)
    BY <2>1, LeadsPrefix
  <2> QED
    BY <2>2
<1>5. CASE Len(a) <= Len(p)
  <2>1. Leads(a, p)
    BY <1>2, <1>3, <1>5 DEF Leads
  <2>2. IsPrefix(a, p)
    BY <2>1, LeadsPrefix
  <2> DEFINE y == After(a, p)
  <2>3. y \in Path /\ p = a \o y
    BY <2>2, Splits
  <2> HIDE DEF y
  <2>4. a \o x = a \o (y \o w) /\ y \o w \in Path
    <3>1. a \o (y \o w) = (a \o y) \o w
      BY <1>1, <2>3, Associates
    <3> QED
      BY <1>1, <2>3, <3>1, Continued DEF z
  <2>5. x = y \o w
    BY <2>4, OneAfter
  <2>6. IsPrefix(y, x)
    BY <1>1, <2>3, <2>5, Continued
  <2> QED
    BY <2>3, <2>6
<1> QED
  BY <1>2, <1>4, <1>5

-----------------------------------------------------------------------------
(* Host trees.                                                             *)

Forest(trees) ==
  /\ trees = [m \in Mount |-> trees[m]]
  /\ OnePlaceEach(trees)
  /\ \A m \in Mount : HostTree(trees[m])

(* HostTree, in terms of IsPrefix.                                         *)
AboveToo(t) == \A s \in DOMAIN t, p \in Path : IsPrefix(p, s) => p \in DOMAIN t

DirsKnown(t) == \A s \in DOMAIN t : t[s].kind = "dir" => t[s] = Directory(t[s].id)

LEMMA HostTreeAbove ==
  ASSUME NEW t, HostTree(t)
  PROVE  DOMAIN t \subseteq Path /\ AboveToo(t) /\ DirsKnown(t)
<1>1. DOMAIN t \subseteq Path /\ DirsKnown(t)
  BY DEF HostTree, DirsKnown, Path
<1>2. ASSUME NEW s \in DOMAIN t, NEW p \in Path, IsPrefix(p, s)
      PROVE  p \in DOMAIN t
  <2>1. Len(p) \in Nat /\ Len(s) \in Nat /\ Len(p) <= Len(s)
    BY <1>1, <1>2, LenProperties DEF Path, IsPrefix
  <2>2. SubSeq(p, 1, Len(p)) = p
    BY SubSeqFull DEF Path
  <2>3. p = SubSeq(s, 1, Len(p))
    BY <1>2, <2>2 DEF IsPrefix
  <2>4. Len(p) \in 0..Len(s)
    BY <2>1
  <2>5. SubSeq(s, 1, Len(p)) \in DOMAIN t
    BY <2>4 DEF HostTree
  <2> QED
    BY <2>3, <2>5
<1> QED
  BY <1>1, <1>2 DEF AboveToo

LEMMA AboveHostTree ==
  ASSUME NEW t, DOMAIN t \subseteq Path, AboveToo(t), DirsKnown(t)
  PROVE  HostTree(t)
<1>1. ASSUME NEW s \in DOMAIN t, NEW n \in 0..Len(s)
      PROVE  SubSeq(s, 1, n) \in DOMAIN t
  <2>1. s \in Path /\ Len(s) \in Nat /\ n \in Nat /\ n <= Len(s)
    <3>1. s \in Path
      OBVIOUS
    <3>2. Len(s) \in Nat
      BY <3>1, LenProperties DEF Path
    <3> QED
      BY <3>1, <3>2
  <2> DEFINE y == SubSeq(s, 1, n)
  <2>2. y \in Path /\ Len(y) = n /\ \A i \in 1..n : y[i] = s[i]
    <3>1. \A i \in 1..n : s[i] \in STRING
      BY <2>1, ElementOfSeq DEF Path
    <3>2. /\ y \in Path /\ Len(y) = IF 1 <= n THEN n - 1 + 1 ELSE 0
          /\ \A i \in 1..(n - 1 + 1) : y[i] = s[1 + i - 1]
      BY <2>1, <3>1, SubSeqProperties DEF Path
    <3> QED
      BY <2>1, <3>2
  <2> HIDE DEF y
  <2>3. IsPrefix(y, s)
    BY <2>1, <2>2, LeadsPrefix DEF Leads
  <2>4. y \in DOMAIN t
    BY <2>2, <2>3 DEF AboveToo
  <2> QED
    BY <2>4 DEF y
<1> QED
  BY <1>1 DEF HostTree, DirsKnown, Path

(* A tree each of whose directories is one of another tree's.              *)
Carries(from, t, u) ==
  \A r \in DOMAIN t :
    Is(t, r, "dir") =>
      /\ from[r] \in DOMAIN u /\ u[from[r]] = t[r]
      /\ \A s \in DOMAIN t : Is(t, s, "dir") /\ from[r] = from[s] => r = s

LEMMA Carried ==
  ASSUME NEW trees, Forest(trees), NEW m \in Mount, NEW t, HostTree(t), NEW from,
         Carries(from, t, trees[m])
  PROVE  Forest([trees EXCEPT ![m] = t])
<1> DEFINE new == [trees EXCEPT ![m] = t]
<1>1. new[m] = t /\ \A n \in Mount : n # m => new[n] = trees[n]
  BY DEF Forest
<1>2. new = [n \in Mount |-> new[n]]
  BY DEF Forest
<1> HIDE DEF new
<1>3. \A n \in Mount : HostTree(new[n])
  BY <1>1 DEF Forest
<1>4. ASSUME NEW n \in Mount, NEW s \in DOMAIN new[n], Is(new[n], s, "dir")
      PROVE  \E r \in DOMAIN trees[n] :
               /\ trees[n][r] = new[n][s] /\ Is(trees[n], r, "dir")
               /\ r = IF n = m THEN from[s] ELSE s
  <2>1. CASE n = m
    BY <2>1, <1>1, <1>4 DEF Carries, Is
  <2>2. CASE n # m
    BY <2>2, <1>1, <1>4
  <2> QED
    BY <2>1, <2>2
<1>5. ASSUME NEW n \in Mount, NEW k \in Mount, NEW s \in DOMAIN new[n], NEW r \in DOMAIN new[k],
             Is(new[n], s, "dir"), new[n][s] = new[k][r]
      PROVE  n = k /\ s = r
  <2>1. Is(new[k], r, "dir")
    BY <1>5 DEF Is
  <2>2. PICK a \in DOMAIN trees[n] :
          /\ trees[n][a] = new[n][s] /\ Is(trees[n], a, "dir")
          /\ a = IF n = m THEN from[s] ELSE s
    BY <1>4, <1>5
  <2>3. PICK b \in DOMAIN trees[k] :
          /\ trees[k][b] = new[k][r] /\ Is(trees[k], b, "dir")
          /\ b = IF k = m THEN from[r] ELSE r
    BY <1>4, <2>1
  <2>4. n = k /\ a = b
    BY <1>5, <2>2, <2>3 DEF Forest, OnePlaceEach
  <2>5. CASE n = m
    <3>1. from[s] = from[r] /\ s \in DOMAIN t /\ r \in DOMAIN t /\ Is(t, s, "dir") /\ Is(t, r, "dir")
      BY <1>1, <1>5, <2>1, <2>2, <2>3, <2>4, <2>5
    <3> QED
      BY <2>4, <3>1 DEF Carries
  <2>6. CASE n # m
    BY <2>2, <2>3, <2>4, <2>6
  <2> QED
    BY <2>5, <2>6
<1>6. OnePlaceEach(new)
  BY <1>5 DEF OnePlaceEach
<1> QED
  BY <1>2, <1>3, <1>6 DEF Forest, new

LEMMA FrontIs ==
  ASSUME NEW r \in Path, r # <<>>
  PROVE  Front(r) \in Path /\ IsPrefix(Front(r), r)
<1> DEFINE f == Front(r)
<1>1. IsTuple(r)
  BY TupleFacts DEF Path
<1>2. /\ Len(r) \in Nat \ {0} /\ Len(f) = Len(r) - 1
      /\ \A i \in 1..(Len(r) - 1) : f[i] = r[i]
  BY <1>1, Shrunk
<1>3. f \in Path
  <2>1. \A i \in 1..(Len(r) - 1) : r[i] \in STRING
    BY <1>2, ElementOfSeq DEF Path
  <2> QED
    BY <1>2, <2>1, SubSeqProperties DEF Path, Front
<1> HIDE DEF f
<1>4. Leads(f, r)
  BY <1>2 DEF Leads
<1>5. IsPrefix(f, r)
  BY <1>3, <1>4, LeadsPrefix
<1> QED
  BY <1>3, <1>5 DEF f

LEMMA AboveFront ==
  ASSUME NEW p \in Path, NEW r \in Path, r # <<>>, IsPrefix(p, r), p # r
  PROVE  IsPrefix(p, Front(r))
<1> DEFINE f == Front(r)
<1>1. IsTuple(p) /\ IsTuple(r)
  BY TupleFacts DEF Path
<1>2. Leads(p, r) /\ Len(p) \in Nat /\ Len(r) \in Nat
  BY <1>1, PrefixLeads, TupleIs
<1>3. Len(p) # Len(r)
  BY <1>2, SeqEqual DEF Leads, Path
<1>4. /\ Len(f) = Len(r) - 1 /\ \A i \in 1..(Len(r) - 1) : f[i] = r[i]
  BY <1>1, Shrunk
<1>5. f \in Path
  BY FrontIs
<1> HIDE DEF f
<1>6. Leads(p, f)
  <2>1. Len(p) <= Len(r) - 1
    BY <1>2, <1>3 DEF Leads
  <2>2. \A i \in 1..Len(p) : i \in 1..(Len(r) - 1) /\ p[i] = r[i]
    BY <1>2, <2>1 DEF Leads
  <2> QED
    BY <1>4, <2>1, <2>2 DEF Leads
<1>7. IsPrefix(p, f)
  BY <1>5, <1>6, LeadsPrefix
<1> QED
  BY <1>7 DEF f

(* A directory is removed with all that is in it.                          *)
LEMMA Removed ==
  ASSUME NEW t, HostTree(t), NEW r \in Path
  PROVE  LET u == Without(t, Below(t, r))
         IN  HostTree(u) /\ Carries([s \in DOMAIN u |-> s], u, t)
<1> DEFINE u == Without(t, Below(t, r))
           from == [s \in DOMAIN u |-> s]
<1>1. /\ DOMAIN u = {s \in DOMAIN t : ~IsPrefix(r, s)}
      /\ \A s \in DOMAIN u : u[s] = t[s] /\ from[s] = s
  BY DEF Without, Below
<1> HIDE DEF u, from
<1>2. DOMAIN t \subseteq Path /\ AboveToo(t) /\ DirsKnown(t)
  BY HostTreeAbove
<1>3. ASSUME NEW s \in DOMAIN u, NEW p \in Path, IsPrefix(p, s)
      PROVE  p \in DOMAIN u
  <2>1. p \in DOMAIN t
    BY <1>1, <1>2, <1>3 DEF AboveToo
  <2>2. ~IsPrefix(r, p)
    BY <1>1, <1>2, <1>3, Further
  <2> QED
    BY <1>1, <2>1, <2>2
<1>4. HostTree(u)
  <2>1. DOMAIN u \subseteq Path /\ AboveToo(u)
    BY <1>1, <1>2, <1>3 DEF AboveToo
  <2>2. DirsKnown(u)
    BY <1>1, <1>2 DEF DirsKnown
  <2> QED
    BY <2>1, <2>2, AboveHostTree
<1>5. Carries(from, u, t)
  BY <1>1 DEF Carries
<1> QED
  BY <1>4, <1>5 DEF u, from

(* A link is made.                                                         *)
LEMMA Made ==
  ASSUME NEW t, HostTree(t), NEW r \in Path, Absent(t, r), NEW node, node.kind # "dir"
  PROVE  LET u == With(t, r, node)
         IN  HostTree(u) /\ Carries([s \in DOMAIN u |-> s], u, t)
<1> DEFINE u == With(t, r, node)
           from == [s \in DOMAIN u |-> s]
<1>1. /\ DOMAIN u = DOMAIN t \cup {r}
      /\ \A s \in DOMAIN u : u[s] = (IF s = r THEN node ELSE t[s]) /\ from[s] = s
  BY DEF With
<1> HIDE DEF u, from
<1>2. DOMAIN t \subseteq Path /\ AboveToo(t) /\ DirsKnown(t)
  BY HostTreeAbove
<1>3. ASSUME NEW s \in DOMAIN u, NEW p \in Path, IsPrefix(p, s)
      PROVE  p \in DOMAIN u
  <2>1. CASE s \in DOMAIN t
    BY <2>1, <1>1, <1>2, <1>3 DEF AboveToo
  <2>2. CASE s = r /\ p = r
    BY <2>2, <1>1
  <2>3. CASE s = r /\ p # r
    <3>1. r # <<>> /\ Front(r) \in DOMAIN t
      BY DEF Absent, Is
    <3>2. IsPrefix(p, Front(r))
      BY <2>3, <1>3, <3>1, AboveFront
    <3> QED
      BY <1>1, <1>2, <3>1, <3>2 DEF AboveToo
  <2> QED
    BY <1>1, <2>1, <2>2, <2>3
<1>4. HostTree(u)
  <2>1. DOMAIN u \subseteq Path /\ AboveToo(u)
    BY <1>1, <1>2, <1>3 DEF AboveToo
  <2>2. DirsKnown(u)
    BY <1>1, <1>2 DEF DirsKnown
  <2> QED
    BY <2>1, <2>2, AboveHostTree
<1>5. ASSUME NEW s \in DOMAIN u, Is(u, s, "dir")
      PROVE  s \in DOMAIN t /\ t[s] = u[s]
  BY <1>1, <1>5 DEF Is
<1>6. Carries(from, u, t)
  BY <1>1, <1>5 DEF Carries
<1> QED
  BY <1>4, <1>6 DEF u, from

(* A rename, which takes what lies below r along.                          *)
LEMMA Moves ==
  ASSUME NEW t, HostTree(t), NEW r \in DOMAIN t, NEW to \in Path, r # <<>>, ~IsPrefix(r, to),
         Absent(t, to) \/ (to # <<>> /\ Below(t, to) = {to})
  PROVE  LET u == Move(t, r, to)
         IN  /\ HostTree(u)
             /\ Carries([s \in DOMAIN u |-> IF IsPrefix(to, s) THEN r \o After(to, s) ELSE s],
                        u, t)
<1> DEFINE u == Move(t, r, to)
           from == [s \in DOMAIN u |-> IF IsPrefix(to, s) THEN r \o After(to, s) ELSE s]
<1>1. DOMAIN t \subseteq Path /\ AboveToo(t) /\ DirsKnown(t) /\ r \in Path
  BY HostTreeAbove
<1>2. DOMAIN u = {s \in DOMAIN t : ~IsPrefix(r, s)} \cup {to \o After(r, b) : b \in Below(t, r)}
  BY DEF Move, Below, After
<1>3. \A s \in DOMAIN u : /\ u[s] = IF IsPrefix(to, s) THEN t[r \o After(to, s)] ELSE t[s]
                          /\ from[s] = IF IsPrefix(to, s) THEN r \o After(to, s) ELSE s
  BY DEF Move, After
<1> HIDE DEF u, from
<1>4. ASSUME NEW x \in Path, r \o x \in DOMAIN t
      PROVE  to \o x \in DOMAIN u
  <2>1. IsPrefix(r, r \o x) /\ After(r, r \o x) = x
    BY <1>1, Continued
  <2>2. r \o x \in Below(t, r)
    BY <1>4, <2>1 DEF Below
  <2> QED
    BY <1>2, <2>1, <2>2
<1>5. ASSUME NEW s \in DOMAIN t, ~IsPrefix(r, s), IsPrefix(to, s)
      PROVE  s = to
  <2>1. to \in DOMAIN t
    BY <1>1, <1>5 DEF AboveToo
  <2>2. Below(t, to) = {to}
    BY <2>1 DEF Absent
  <2> QED
    BY <1>5, <2>2 DEF Below
<1>6. ASSUME NEW s \in DOMAIN u
      PROVE  \/ s \in DOMAIN t /\ ~IsPrefix(r, s) /\ ~IsPrefix(to, s)
             \/ \E x \in Path : r \o x \in DOMAIN t /\ s = to \o x
  <2>1. CASE s \in DOMAIN t /\ ~IsPrefix(r, s) /\ IsPrefix(to, s)
    <3>1. s = to
      BY <2>1, <1>5
    <3>2. <<>> \in Path /\ r \o <<>> = r /\ to \o <<>> = to
      BY <1>1, NothingAfter
    <3> QED
      BY <3>1, <3>2
  <2>2. ASSUME NEW b \in Below(t, r), s = to \o After(r, b)
        PROVE  \E x \in Path : r \o x \in DOMAIN t /\ s = to \o x
    <3>1. b \in DOMAIN t /\ b \in Path /\ IsPrefix(r, b)
      BY <1>1 DEF Below
    <3>2. After(r, b) \in Path /\ b = r \o After(r, b)
      BY <1>1, <3>1, Splits
    <3> QED
      BY <2>2, <3>1, <3>2
  <2> QED
    BY <1>2, <2>1, <2>2
<1>7. ASSUME NEW x \in Path
      PROVE  to \o x \in Path /\ IsPrefix(to, to \o x) /\ After(to, to \o x) = x
  BY Continued
<1>8. ASSUME NEW s \in DOMAIN u
      PROVE  /\ s \in Path /\ from[s] \in DOMAIN t /\ u[s] = t[from[s]]
             /\ IsPrefix(to, s) => IsPrefix(r, from[s])
             /\ ~IsPrefix(to, s) => ~IsPrefix(r, from[s])
  <2>1. CASE s \in DOMAIN t /\ ~IsPrefix(r, s) /\ ~IsPrefix(to, s)
    BY <2>1, <1>1, <1>3
  <2>2. ASSUME NEW x \in Path, r \o x \in DOMAIN t, s = to \o x
        PROVE  /\ s \in Path /\ IsPrefix(to, s) /\ from[s] = r \o x /\ u[s] = t[r \o x]
               /\ IsPrefix(r, from[s])
    <3>1. s \in Path /\ IsPrefix(to, s) /\ After(to, s) = x
      BY <2>2, <1>7
    <3>2. from[s] = r \o x /\ u[s] = t[r \o x]
      BY <3>1, <1>3
    <3>3. IsPrefix(r, r \o x)
      BY <1>1, Continued
    <3> QED
      BY <3>1, <3>2, <3>3
  <2> QED
    BY <1>6, <2>1, <2>2
<1>9. ASSUME NEW s \in DOMAIN u, NEW q \in DOMAIN u, from[s] = from[q]
      PROVE  s = q
  <2>1. CASE IsPrefix(to, s)
    <3>1. IsPrefix(to, q)
      BY <2>1, <1>8, <1>9
    <3>2. /\ After(to, s) \in Path /\ s = to \o After(to, s)
          /\ After(to, q) \in Path /\ q = to \o After(to, q)
      BY <2>1, <3>1, <1>8, Splits
    <3>3. r \o After(to, s) = r \o After(to, q)
      BY <2>1, <3>1, <1>3, <1>9
    <3>4. After(to, s) = After(to, q)
      BY <1>1, <3>2, <3>3, OneAfter
    <3> QED
      BY <3>2, <3>4
  <2>2. CASE ~IsPrefix(to, s)
    <3>1. ~IsPrefix(to, q)
      BY <2>2, <1>8, <1>9
    <3> QED
      BY <2>2, <3>1, <1>3, <1>9
  <2> QED
    BY <2>1, <2>2
<1>10. Carries(from, u, t)
  <2>1. ASSUME NEW s \in DOMAIN u
        PROVE  from[s] \in DOMAIN t /\ t[from[s]] = u[s]
    BY <1>8
  <2> QED
    BY <2>1, <1>9 DEF Carries
<1>11. ASSUME NEW s \in DOMAIN u, NEW p \in Path, IsPrefix(p, s)
       PROVE  p \in DOMAIN u
  <2>1. ASSUME NEW q \in DOMAIN t, IsPrefix(p, q), ~IsPrefix(r, q)
        PROVE  p \in DOMAIN u
    <3>1. p \in DOMAIN t
      BY <2>1, <1>1 DEF AboveToo
    <3>2. q \in Path
      BY <1>1
    <3>3. ~IsPrefix(r, p)
      BY <2>1, <3>2, <1>1, Further
    <3> QED
      BY <3>1, <3>3, <1>2
  <2>2. ASSUME NEW x \in Path, r \o x \in DOMAIN t, s = to \o x
        PROVE  p \in DOMAIN u
    <3>1. CASE p = to
      <4>1. <<>> \in Path /\ r \o <<>> = r /\ to \o <<>> = to
        BY <1>1, NothingAfter
      <4> QED
        BY <3>1, <4>1, <1>4
    <3>2. CASE IsPrefix(p, to) /\ p # to
      <4>1. CASE Absent(t, to)
        <5>1. to # <<>> /\ Front(to) \in DOMAIN t
          BY <4>1 DEF Absent, Is
        <5>2. IsPrefix(p, Front(to)) /\ IsPrefix(Front(to), to) /\ Front(to) \in Path
          BY <3>2, <5>1, AboveFront, FrontIs
        <5>3. ~IsPrefix(r, Front(to))
          BY <5>2, <1>1, Further
        <5> QED
          BY <5>1, <5>2, <5>3, <2>1
      <4>2. CASE Below(t, to) = {to}
        <5>1. to \in DOMAIN t
          BY <4>2 DEF Below
        <5> QED
          BY <5>1, <3>2, <2>1
      <4> QED
        BY <4>1, <4>2
    <3>3. ASSUME NEW y \in Path, p = to \o y, IsPrefix(y, x)
          PROVE  p \in DOMAIN u
      <4>1. r \o y \in Path /\ IsPrefix(r \o y, r \o x)
        <5> DEFINE z == After(y, x)
        <5>1. z \in Path /\ x = y \o z
          BY <3>3, Splits
        <5> HIDE DEF z
        <5>2. r \o x = (r \o y) \o z
          <6>1. (r \o y) \o z = r \o (y \o z)
            BY <1>1, <5>1, Associates
          <6> QED
            BY <5>1, <6>1
        <5> QED
          BY <1>1, <5>1, <5>2, Continued
      <4>2. r \o y \in DOMAIN t
        BY <2>2, <4>1, <1>1 DEF AboveToo
      <4> QED
        BY <3>3, <4>2, <1>4
    <3>4. \/ IsPrefix(p, to)
          \/ \E y \in Path : p = to \o y /\ IsPrefix(y, x)
      BY <1>11, <2>2, Ancestor
    <3> QED
      BY <3>1, <3>2, <3>3, <3>4
  <2> QED
    BY <1>6, <1>11, <2>1, <2>2
<1>12. HostTree(u)
  <2>1. DOMAIN u \subseteq Path
    BY <1>8
  <2>2. AboveToo(u)
    BY <1>11 DEF AboveToo
  <2>3. DirsKnown(u)
    BY <1>1, <1>8 DEF DirsKnown
  <2> QED
    BY <2>1, <2>2, <2>3, AboveHostTree
<1> QED
  BY <1>10, <1>12 DEF u, from

-----------------------------------------------------------------------------
(* What lies beneath a directory.                                          *)

LEMMA SubtreeIs ==
  ASSUME NEW t, HostTree(t), NEW r \in Path
  PROVE  /\ \A x : x \in DOMAIN Subtree(t, r) <=> x \in Path /\ r \o x \in DOMAIN t
         /\ \A x \in DOMAIN Subtree(t, r) : Subtree(t, r)[x] = t[r \o x]
<1> DEFINE u == Subtree(t, r)
<1>1. /\ DOMAIN u = {After(r, s) : s \in Below(t, r)}
      /\ \A x \in DOMAIN u : u[x] = t[r \o x]
  BY DEF Subtree, After
<1> HIDE DEF u
<1>2. DOMAIN t \subseteq Path
  BY HostTreeAbove
<1>3. ASSUME NEW x \in DOMAIN u
      PROVE  x \in Path /\ r \o x \in DOMAIN t
  <2>1. PICK s \in Below(t, r) : x = After(r, s)
    BY <1>1
  <2>2. s \in DOMAIN t /\ s \in Path /\ IsPrefix(r, s)
    BY <1>2, <2>1 DEF Below
  <2> QED
    BY <2>1, <2>2, Splits
<1>4. ASSUME NEW x \in Path, r \o x \in DOMAIN t
      PROVE  x \in DOMAIN u
  <2>1. IsPrefix(r, r \o x) /\ After(r, r \o x) = x
    BY Continued
  <2>2. r \o x \in Below(t, r)
    BY <1>4, <2>1 DEF Below
  <2> QED
    BY <1>1, <2>1, <2>2
<1> QED
  BY <1>1, <1>3, <1>4 DEF u

LEMMA UnderPlace ==
  ASSUME NEW trees, Forest(trees), NEW id, NEW m \in Mount, NEW r \in DOMAIN trees[m],
         trees[m][r] = Directory(id)
  PROVE  Under(trees, id) = Subtree(trees[m], r)
<1> DEFINE places(n) == {s \in DOMAIN trees[n] : trees[n][s] = Directory(id)}
           found == UNION {{Subtree(trees[n], s) : s \in places(n)} : n \in Mount}
<1>1. ASSUME NEW n \in Mount, NEW s \in places(n)
      PROVE  n = m /\ s = r
  <2>1. Is(trees[m], r, "dir") /\ trees[m][r] = trees[n][s] /\ s \in DOMAIN trees[n]
    BY <1>1 DEF Is, Directory
  <2> QED
    BY <2>1 DEF Forest, OnePlaceEach
<1>2. r \in places(m)
  OBVIOUS
<1>3. found = {Subtree(trees[m], r)}
  <2>1. ASSUME NEW u \in found
        PROVE  u = Subtree(trees[m], r)
    <3> HIDE DEF places
    <3>1. PICK n \in Mount : u \in {Subtree(trees[n], s) : s \in places(n)}
      BY <2>1
    <3>2. PICK s \in places(n) : u = Subtree(trees[n], s)
      BY <3>1
    <3> QED
      BY <1>1, <3>2
  <2>2. Subtree(trees[m], r) \in found
    <3> HIDE DEF places
    <3> QED
      BY <1>2
  <2> HIDE DEF found
  <2> QED
    BY <2>1, <2>2
<1>4. Under(trees, id) = IF found = {} THEN <<>> ELSE CHOOSE t \in found : TRUE
  BY DEF Under
<1> HIDE DEF found
<1> QED
  BY <1>3, <1>4

LEMMA UnderNone ==
  ASSUME NEW trees, NEW id,
         \A m \in Mount : \A r \in DOMAIN trees[m] : trees[m][r] # Directory(id)
  PROVE  Under(trees, id) = <<>>
BY DEF Under

(* What lies beneath a directory beneath another lies beneath that too.     *)
LEMMA BeneathDeeper ==
  ASSUME NEW trees, Forest(trees), NEW id, NEW x \in Beneath(trees, id)
  PROVE  Beneath(trees, x) \subseteq Beneath(trees, id)
<1>1. CASE x = id
  BY <1>1
<1>2. CASE x # id
  <2> DEFINE t == Under(trees, id)
  <2>1. PICK q \in DOMAIN t : t[q].kind = "dir" /\ x = t[q].id
    BY <1>2 DEF Beneath
  <2>2. PICK m \in Mount : \E r \in DOMAIN trees[m] : trees[m][r] = Directory(id)
    <3>1. DOMAIN <<>> = {}
      BY EmptyIs
    <3> QED
      BY <2>1, <3>1, UnderNone
  <2>3. PICK r \in DOMAIN trees[m] : trees[m][r] = Directory(id)
    BY <2>2
  <2>4. t = Subtree(trees[m], r)
    BY <2>3, UnderPlace
  <2> HIDE DEF t
  <2>5. HostTree(trees[m]) /\ r \in Path /\ DirsKnown(trees[m])
    BY <2>3, HostTreeAbove DEF Forest
  <2>6. q \in Path /\ r \o q \in DOMAIN trees[m] /\ t[q] = trees[m][r \o q]
    BY <2>1, <2>4, <2>5, SubtreeIs
  <2>7. trees[m][r \o q] = Directory(x)
    BY <2>1, <2>5, <2>6 DEF DirsKnown
  <2> DEFINE u == Under(trees, x)
  <2>8. u = Subtree(trees[m], r \o q)
    BY <2>6, <2>7, UnderPlace
  <2>9. r \o q \in Path
    BY <2>5, <2>6, Continued
  <2> HIDE DEF u
  <2>10. ASSUME NEW p \in DOMAIN u
         PROVE  q \o p \in DOMAIN t /\ t[q \o p] = u[p]
    <3>1. p \in Path /\ (r \o q) \o p \in DOMAIN trees[m] /\ u[p] = trees[m][(r \o q) \o p]
      BY <2>5, <2>8, <2>9, <2>10, SubtreeIs
    <3>2. (r \o q) \o p = r \o (q \o p) /\ q \o p \in Path
      BY <2>5, <2>6, <3>1, Associates, Continued
    <3>3. q \o p \in DOMAIN t
      BY <2>4, <2>5, <3>1, <3>2, SubtreeIs
    <3>4. t[q \o p] = trees[m][r \o (q \o p)]
      BY <2>4, <2>5, <3>3, SubtreeIs
    <3> QED
      BY <3>1, <3>2, <3>3, <3>4
  <2>11. x \in Beneath(trees, id)
    OBVIOUS
  <2>12. ASSUME NEW p \in DOMAIN u, u[p].kind = "dir"
         PROVE  u[p].id \in Beneath(trees, id)
    BY <2>10, <2>12 DEF Beneath, t
  <2> QED
    BY <2>11, <2>12 DEF Beneath, u
<1> QED
  BY <1>1, <1>2

-----------------------------------------------------------------------------
(* Staying beneath the root.                                               *)

(* What the walk has reached is closed under going down, in the trees as    *)
(* they are.                                                               *)
Closed(ids, trees) == \A id \in ids : Beneath(trees, id) \subseteq ids

(* The entry in hand has not been followed to, and the directory about to   *)
(* be read, unless it is the root, was found in one that was reached.       *)
Reached ==
  /\ StaysBeneath
  /\ ~opts.follow_links =>
       /\ pc \in {"entry", "list"} => cur.followed = FALSE
       /\ pc = "list" /\ stack # <<>> => cur.id \in beneath

Inside == Forest(tree) /\ Closed(beneath, tree) /\ Reached

LEMMA ItselfBeneath ==
  ASSUME NEW trees, NEW id
  PROVE  id \in Beneath(trees, id)
BY DEF Beneath

(* Every change another process makes leaves the host a forest.             *)
LEMMA ChangedForest ==
  ASSUME Forest(tree), Other
  PROVE  Forest(tree') /\ beneath' = beneath \cup UNION {Beneath(tree', id) : id \in beneath}
<1>1. ASSUME NEW m \in Mount, NEW t, HostTree(t), NEW from, Carries(from, t, tree[m]),
             tree' = [tree EXCEPT ![m] = t]
      PROVE  Forest(tree')
  BY <1>1, Carried
<1>2. \A p \in Places : p[1] \in Mount /\ p[2] \in Path /\ HostTree(tree[p[1]])
  BY WalkAssumption DEF Forest, Path
<1>3. ASSUME NEW p \in Places, NEW r \in DOMAIN tree[p[1]],
             Change(p[1], HostRename(tree[p[1]], r, p[2]))
      PROVE  Forest(tree')
  <2> DEFINE t == tree[p[1]]
             to == p[2]
             u == Move(t, r, to)
             from == [s \in DOMAIN u |-> IF IsPrefix(to, s) THEN r \o After(to, s) ELSE s]
  <2>1. PICK v \in HostRename(t, r, to) : tree' = [tree EXCEPT ![p[1]] = v]
    BY <1>3 DEF Change
  <2>2. /\ v = u /\ r # <<>> /\ ~IsPrefix(r, to)
        /\ Absent(t, to) \/ (to # <<>> /\ Below(t, to) = {to})
    BY <2>1 DEF HostRename
  <2>3. HostTree(t) /\ to \in Path /\ p[1] \in Mount /\ r \in DOMAIN t
    BY <1>2
  <2> HIDE DEF t, to
  <2>4. HostTree(u) /\ Carries(from, u, t)
    BY <2>2, <2>3, Moves
  <2> HIDE DEF u, from
  <2> QED
    BY <1>1, <2>1, <2>2, <2>3, <2>4 DEF t
<1>4. ASSUME NEW p \in Places, Change(p[1], HostDo(tree[p[1]], "remove_dir_all", p[2]))
      PROVE  Forest(tree')
  <2> DEFINE t == tree[p[1]]
             r == p[2]
             u == Without(t, Below(t, r))
             from == [s \in DOMAIN u |-> s]
  <2>1. PICK v \in HostDo(t, "remove_dir_all", r) : tree' = [tree EXCEPT ![p[1]] = v]
    BY <1>4 DEF Change
  <2>2. v = u
    BY <2>1 DEF HostDo
  <2>3. HostTree(t) /\ r \in Path /\ p[1] \in Mount
    BY <1>2
  <2> HIDE DEF t, r
  <2>4. HostTree(u) /\ Carries(from, u, t)
    BY <2>3, Removed
  <2> HIDE DEF u, from
  <2> QED
    BY <1>1, <2>1, <2>2, <2>3, <2>4 DEF t
<1>5. ASSUME NEW p \in Places, NEW target \in Targets, Absent(tree[p[1]], p[2]),
             Change(p[1], {With(tree[p[1]], p[2], target)})
      PROVE  Forest(tree')
  <2> DEFINE t == tree[p[1]]
             r == p[2]
             u == With(t, r, target)
             from == [s \in DOMAIN u |-> s]
  <2>1. tree' = [tree EXCEPT ![p[1]] = u]
    BY <1>5 DEF Change
  <2>2. HostTree(t) /\ r \in Path /\ p[1] \in Mount /\ Absent(t, r)
    BY <1>2, <1>5
  <2>3. target.kind # "dir"
    BY HostAssumption
  <2> HIDE DEF t, r
  <2>4. HostTree(u) /\ Carries(from, u, t)
    BY <2>2, <2>3, Made
  <2> HIDE DEF u, from
  <2> QED
    BY <1>1, <2>1, <2>2, <2>4 DEF t
<1>6. ASSUME NEW m, NEW outcomes, Change(m, outcomes)
      PROVE  beneath' = beneath \cup UNION {Beneath(tree', id) : id \in beneath}
  BY <1>6 DEF Change
<1> QED
  BY <1>3, <1>4, <1>5, <1>6 DEF Other

LEMMA ChangedClosed ==
  ASSUME NEW ids, NEW trees, Forest(trees)
  PROVE  Closed(ids \cup UNION {Beneath(trees, id) : id \in ids}, trees)
<1> DEFINE all == ids \cup UNION {Beneath(trees, id) : id \in ids}
<1>1. ASSUME NEW x \in all
      PROVE  Beneath(trees, x) \subseteq all
  <2>1. PICK id \in ids : x \in Beneath(trees, id)
    BY <1>1, ItselfBeneath
  <2>2. Beneath(trees, x) \subseteq Beneath(trees, id)
    BY <2>1, BeneathDeeper
  <2> QED
    BY <2>1, <2>2
<1> HIDE DEF all
<1>2. Closed(all, trees)
  BY <1>1 DEF Closed
<1> QED
  BY <1>2 DEF all

(* A directory opened from the one that is open lies beneath it.            *)
LEMMA OpenedBeneath ==
  ASSUME NEW id, NEW name, OpenAt(id, name).kind = "dir"
  PROVE  OpenAt(id, name).id \in Beneath(tree, id)
<1> DEFINE t == Under(tree, id)
           h == HostWalk(t, <<name>>, TRUE)
<1>1. Missing.kind # "dir"
  BY DEF Missing
<1>2. OpenAt(id, name) \in {NodeAt(t, <<name>>), NodeAt(t, h.rel), Missing}
  BY DEF OpenAt, StatAt
<1> HIDE DEF h
<1>3. PICK place \in DOMAIN t : OpenAt(id, name) = t[place]
  BY <1>1, <1>2 DEF NodeAt
<1>4. Beneath(tree, id) = {id} \cup {t[r].id : r \in {s \in DOMAIN t : t[s].kind = "dir"}}
  BY DEF Beneath
<1> HIDE DEF t
<1> QED
  BY <1>3, <1>4

(* The walk's own steps leave the host alone.                              *)
LEMMA ReachedKept ==
  ASSUME Inv, Inside, Walker
  PROVE  Reached' /\ tree' = tree /\ Closed(beneath', tree)
<1>1. tree' = tree /\ opts' = opts
  BY DEF Walker, world, Call, SkipCurrentDir, RootEntry, Pay, Leave, Take, Finish, Follow, Pass,
         Open, List
<1>2. Closed(beneath, tree) /\ Reached /\ Forest(tree) /\ IsTuple(stack) /\ Nested(stack)
  BY DEF Inside, Inv, Ordered, Nested
<1>3. CASE opts.follow_links /\ ~List
  <2>1. beneath' = beneath
    BY <1>3 DEF Walker, Call, SkipCurrentDir, RootEntry, Pay, Leave, Take, Finish, Follow, Pass,
                Open
  <2> QED
    BY <1>1, <1>2, <1>3, <2>1 DEF Reached, StaysBeneath
<1>4. ASSUME pc' \notin {"entry", "list"}, beneath' = beneath,
             \A i \in DOMAIN stack' : i \in DOMAIN stack /\ stack'[i].id = stack[i].id
      PROVE  Reached' /\ Closed(beneath', tree)
  BY <1>1, <1>2, <1>4 DEF Reached, StaysBeneath
<1>5. ASSUME pc' = "entry", cur'.followed = FALSE, beneath' = beneath,
             \A i \in DOMAIN stack' : i \in DOMAIN stack /\ stack'[i].id = stack[i].id
      PROVE  Reached' /\ Closed(beneath', tree)
  BY <1>1, <1>2, <1>5 DEF Reached, StaysBeneath
<1>6. CASE Call \/ Pay \/ Finish \/ Pass
  <2>1. stack' = stack /\ beneath' = beneath
    BY <1>6 DEF Call, Pay, Finish, Pass
  <2>2. pc' \notin {"entry", "list"}
    BY <1>6 DEF Call, Pay, Finish, Pass, Settle, Continue, Yield, Return
  <2> QED
    BY <1>1, <1>4, <2>1, <2>2
<1>7. CASE SkipCurrentDir \/ Leave
  <2>1. stack # <<>> /\ stack' = Front(stack) /\ beneath' = beneath /\ pc' = "next"
    BY <1>7 DEF SkipCurrentDir, Leave, Continue
  <2>2. \A i \in DOMAIN stack' : i \in DOMAIN stack /\ stack'[i] = stack[i]
    <3> DEFINE n == Len(stack) - 1
               f == Front(stack)
    <3>1. /\ IsTuple(f) /\ Len(f) = n /\ n \in Nat /\ n = Len(stack) - 1
          /\ \A i \in 1..n : f[i] = stack[i]
          /\ DOMAIN f = 1..n /\ DOMAIN stack = 1..(n + 1)
      BY <1>2, <2>1, Shrunk, TupleIs
    <3> HIDE DEF n, f
    <3> QED
      BY <3>1, <2>1 DEF f
  <2> QED
    BY <1>1, <1>4, <2>1, <2>2
<1>8. CASE RootEntry
  <2> DEFINE node == StatPath(Root, FALSE)
  <2>1. stack' = stack /\ beneath' = beneath
    BY <1>8 DEF RootEntry
  <2>2. CASE node = Missing
    BY <1>1, <1>4, <1>8, <2>1, <2>2 DEF RootEntry, Fail, Return
  <2>3. CASE node # Missing
    <3>1. pc' = "entry" /\ cur' = Entry(<<>>, node)
      BY <1>8, <2>3 DEF RootEntry, Continue
    <3> HIDE DEF node
    <3>2. cur'.followed = FALSE
      BY <3>1 DEF Entry
    <3> QED
      BY <1>1, <1>5, <2>1, <3>1, <3>2
  <2> QED
    BY <2>2, <2>3
<1>9. CASE Take
  <2>1. PICK name \in Last(stack).entries : ChildEntry(name)
    BY <1>9 DEF Take
  <2>2. /\ stack' = [stack EXCEPT ![Len(stack)].entries = @ \ {name}] /\ stack # <<>>
        /\ beneath' = beneath
    BY <1>9, <2>1 DEF Take, ChildEntry
  <2>3. Thinner(stack, stack')
    BY <1>2, <2>2, TakenThin
  <2>4. \A i \in DOMAIN stack' : i \in DOMAIN stack /\ stack'[i].id = stack[i].id
    BY <2>3 DEF Thinner
  <2>5. CASE pc' = "entry"
    <3>1. cur'.followed = FALSE
      BY <2>1, <2>5 DEF ChildEntry, Fail, Return, Continue, Entry
    <3> QED
      BY <1>1, <1>5, <2>2, <2>4, <2>5, <3>1
  <2>6. CASE pc' # "entry"
    <3>1. pc' \notin {"entry", "list"}
      BY <2>1, <2>6 DEF ChildEntry, Fail, Return, Continue
    <3> QED
      BY <1>1, <1>4, <2>2, <2>4, <3>1
  <2> QED
    BY <2>5, <2>6
<1>10. CASE Follow
  <2>1. opts.follow_links
    BY <1>10 DEF Follow, Follows
  <2>2. ~List
    BY <1>10 DEF Follow, List
  <2> QED
    BY <1>1, <1>3, <2>1, <2>2
<1>11. CASE Open /\ ~opts.follow_links
  <2> DEFINE node == OpenChild(cur)
  <2>1. stack' = stack /\ pc = "entry" /\ beneath' = beneath
    BY <1>11 DEF Open
  <2>2. CASE pc' # "list"
    <3>1. pc' \notin {"entry", "list"}
      BY <1>11, <2>1, <2>2 DEF Open, Fail, Return, Settle, Yield, Continue
    <3> QED
      BY <1>1, <1>4, <2>1, <3>1
  <2>3. CASE pc' = "list"
    <3>1. /\ node.kind = "dir" /\ cur' = [cur EXCEPT !.id = node.id]
      BY <1>11, <2>3, <2>1 DEF Open, Fail, Return, Settle, Yield, Continue
    <3>2. node = OpenChild(cur)
      OBVIOUS
    <3> HIDE DEF node
    <3>3. cur'.id = node.id /\ cur'.followed = cur.followed /\ cur.followed = FALSE
      BY <1>2, <1>11, <2>1, <3>1, Holding DEF Inv, Entries, Reached
    <3>4. ASSUME stack # <<>>
          PROVE  node.id \in beneath
      <4>1. node = OpenAt(Last(stack).id, Last(cur.rel))
        BY <3>2, <3>3, <3>4 DEF OpenChild
      <4>2. Last(stack).id \in beneath
        <5>1. Len(stack) \in DOMAIN stack /\ Last(stack) = stack[Len(stack)]
          BY <1>2, <3>4, Shrunk, TupleIs
        <5> QED
          BY <1>2, <1>11, <5>1 DEF Reached, StaysBeneath
      <4>3. node.id \in Beneath(tree, Last(stack).id)
        BY <3>1, <4>1, OpenedBeneath
      <4> QED
        BY <1>2, <4>2, <4>3 DEF Closed
    <3> QED
      BY <1>1, <1>2, <2>1, <2>3, <3>3, <3>4 DEF Reached, StaysBeneath
  <2> QED
    BY <2>2, <2>3
<1>12. CASE List
  <2> DEFINE f == [id |-> cur.id, rel |-> cur.rel, followed |-> cur.followed,
                   entries |-> EntryNames(cur.id)]
             k == Len(stack) + 1
  <2>1. stack' = Append(stack, f) /\ pc = "list" /\ pc' \notin {"entry", "list"}
    BY <1>12 DEF List, Settle, Continue, Yield, Return
  <2>2. beneath' = IF stack = <<>> THEN Beneath(tree, cur.id) ELSE beneath
    BY <1>12 DEF List
  <2>3. f.id = cur.id
    OBVIOUS
  <2> HIDE DEF f
  <2>4. /\ IsTuple(stack') /\ Len(stack') = k /\ stack'[k] = f
        /\ \A i \in 1..Len(stack) : stack'[i] = stack[i]
        /\ k = Len(stack) + 1 /\ Len(stack) \in Nat
    BY <1>2, <2>1, Grown, TupleIs
  <2> HIDE DEF k
  <2>5. \A i \in DOMAIN stack' :
          (i = k) \/ (i \in DOMAIN stack /\ stack'[i] = stack[i])
    BY <1>2, <2>4, TupleIs
  <2>6. CASE stack = <<>>
    <3>1. Closed(beneath', tree)
      BY <1>2, <2>2, <2>6, BeneathDeeper DEF Closed
    <3>2. cur.id \in beneath'
      BY <2>2, <2>6, ItselfBeneath
    <3>3. DOMAIN stack = {}
      BY <2>6, EmptyIs
    <3>4. \A i \in DOMAIN stack' : stack'[i].id \in beneath'
      BY <2>3, <2>4, <2>5, <3>2, <3>3
    <3> QED
      BY <2>1, <1>1, <3>1, <3>4 DEF Reached, StaysBeneath
  <2>7. CASE stack # <<>>
    <3>1. beneath' = beneath
      BY <2>2, <2>7
    <3>2. ASSUME ~opts.follow_links, NEW i \in DOMAIN stack'
          PROVE  stack'[i].id \in beneath'
      <4>1. cur.id \in beneath
        BY <1>2, <2>1, <2>7, <3>2 DEF Reached
      <4>2. \A j \in DOMAIN stack : stack[j].id \in beneath
        BY <1>2, <3>2 DEF Reached, StaysBeneath
      <4> QED
        BY <2>3, <2>4, <2>5, <3>1, <4>1, <4>2
    <3> QED
      BY <1>1, <1>2, <2>1, <3>1, <3>2 DEF Reached, StaysBeneath
  <2> QED
    BY <2>6, <2>7
<1> QED
  BY <1>1, <1>3, <1>6, <1>7, <1>8, <1>9, <1>10, <1>11, <1>12 DEF Walker

THEOREM InsideHolds == Spec => []Inside
<1>1. Init => Inside
  <2> SUFFICES ASSUME Init
               PROVE  Inside
    OBVIOUS
  <2>1. tree \in HostData /\ DOMAIN stack = {} /\ pc = "start" /\ beneath = {}
    BY EmptyIs DEF Init
  <2>2. Forest(tree)
    BY <2>1, WalkAssumption, HostAssumption DEF Forest
  <2> QED
    BY <2>1, <2>2 DEF Inside, Closed, Reached, StaysBeneath
<1>2. Inv /\ Inside /\ [Next]_vars => Inside'
  <2> SUFFICES ASSUME Inv, Inside, [Next]_vars
               PROVE  Inside'
    OBVIOUS
  <2>1. CASE Walker
    <3>1. Reached' /\ tree' = tree /\ Closed(beneath', tree)
      BY <2>1, ReachedKept
    <3> QED
      BY <3>1 DEF Inside
  <2>2. CASE Other
    <3>1. Forest(tree') /\ beneath' = beneath \cup UNION {Beneath(tree', id) : id \in beneath}
      BY <2>2, ChangedForest DEF Inside
    <3>2. Closed(beneath', tree') /\ beneath \subseteq beneath'
      BY <3>1, ChangedClosed
    <3>3. opts' = opts /\ pc' = pc /\ cur' = cur /\ stack' = stack
      BY <2>2 DEF Other
    <3> QED
      BY <3>1, <3>2, <3>3 DEF Inside, Reached, StaysBeneath
  <2>3. CASE UNCHANGED vars
    BY <2>3 DEF vars, Inside, Reached, StaysBeneath
  <2> QED
    BY <2>1, <2>2, <2>3 DEF Next, Ended
<1> QED
  BY <1>1, <1>2, InvHolds, PTL DEF Spec

(* walk.rs:564-569: a walk that follows no links enters nothing but what    *)
(* has been beneath its root, or beneath a directory that had been,        *)
(* whatever is renamed, removed or linked between two of its steps.         *)
THEOREM NeverOutside == Spec => []StaysBeneath
<1>1. Inside => StaysBeneath
  BY DEF Inside, Reached
<1> QED
  BY <1>1, InsideHolds, PTL

-----------------------------------------------------------------------------
(* Nothing is lost: every path that is left alone has been given, is        *)
(* deferred, in hand, or lies beneath a name that is still to come.         *)

(* Where the root leads, and what lies at a path from there.                *)
Home == StatPath(Root, TRUE)
Node(p) == NodeAt(Under(tree, Home.id), p)
IsDirAt(p) == Node(p).kind = "dir"

(* What has been left alone is there, and so is all that leads to it.       *)
Still ==
  /\ stable # {} => Home.kind = "dir"
  /\ \A p \in stable :
       /\ p \in Path /\ Node(p).kind # "missing"
       /\ \A q \in Path : IsPrefix(q, p) => q \in stable /\ (q # p => IsDirAt(q))

(* A directory being read, at a path that has been left alone, is the one   *)
(* there.                                                                  *)
Genuine ==
  \A i \in DOMAIN stack :
    stack[i].rel \in stable /\ IsDirAt(stack[i].rel) => stack[i].id = Node(stack[i].rel).id

(* And so is the entry in hand, or else a link that has been followed.      *)
GenuineInHand ==
  /\ pc \in {"entry", "list"} /\ cur.rel \in stable =>
       /\ cur.followed => opts.follow_links
       /\ cur.rel = <<>> => IF cur.followed THEN IsDir(cur) ELSE cur.node = StatPath(Root, FALSE)
       /\ cur.rel # <<>> => IF cur.followed THEN ~IsDirAt(cur.rel) ELSE cur.node = Node(cur.rel)
       /\ pc = "list" /\ IsDirAt(cur.rel) => cur.id = Node(cur.rel).id
  /\ pc = "list" => IsDir(cur) \/ (RootLink(cur) /\ ~opts.follow_links)

(* Where there is a minimal depth, the deferred directories are those being *)
(* read and perhaps one that was.                                          *)
Level(frames, owed) ==
  /\ Len(frames) <= Len(owed)
  /\ \A i \in DOMAIN owed : Len(owed[i].rel) <= i - 1

Even == opts.contents_first /\ opts.min > 0 => Level(stack, deferred)

(* A path the walk will come to, or has come to.                            *)
Known(p) ==
  \/ pc = "start"
  \/ \E e \in seen : e.rel = p
  \/ \E i \in DOMAIN deferred : deferred[i].rel = p
  \/ pc \in {"entry", "list"} /\ Leads(cur.rel, p)
  \/ \E i \in DOMAIN stack :
       i <= Len(p) /\ Leads(stack[i].rel, p) /\ p[i] \in stack[i].entries

Remembered == \A p \in stable : Excused(p) \/ Known(p)

Over == pc = "done" => stack = <<>> /\ deferred = <<>>

(* The invariant for what is not lost.                                      *)
Kept ==
  /\ opts \in Options /\ Still /\ Over
  /\ ~skipped => Genuine /\ GenuineInHand
  /\ ~skipped /\ stable # {} /\ ~Uneven => Even /\ Remembered

LEMMA OneName ==
  ASSUME NEW x \in STRING
  PROVE  <<x>> \in Path
<1>1. ASSUME NEW S, NEW y \in S
      PROVE  <<y>> \in Seq(S)
  OBVIOUS
<1> QED
  BY <1>1 DEF Path

LEMMA PartIs ==
  ASSUME NEW p \in Path, NEW n \in 0..Len(p)
  PROVE  /\ SubSeq(p, 1, n) \in Path /\ Len(SubSeq(p, 1, n)) = n /\ IsPrefix(SubSeq(p, 1, n), p)
         /\ \A i \in 1..n : SubSeq(p, 1, n)[i] = p[i]
<1> DEFINE y == SubSeq(p, 1, n)
<1>1. Len(p) \in Nat /\ n \in Nat /\ n <= Len(p)
  <2>1. Len(p) \in Nat
    BY LenProperties DEF Path
  <2> QED
    BY <2>1
<1>2. \A i \in 1..n : p[i] \in STRING
  BY <1>1, ElementOfSeq DEF Path
<1>3. /\ y \in Path /\ Len(y) = IF 1 <= n THEN n - 1 + 1 ELSE 0
      /\ \A i \in 1..(n - 1 + 1) : y[i] = p[1 + i - 1]
  BY <1>1, <1>2, SubSeqProperties DEF Path
<1>4. y \in Path /\ Len(y) = n /\ \A i \in 1..n : y[i] = p[i]
  BY <1>1, <1>3
<1> HIDE DEF y
<1>5. IsPrefix(y, p)
  BY <1>1, <1>4, LeadsPrefix DEF Leads
<1> QED
  BY <1>4, <1>5 DEF y

LEMMA PrefixIs ==
  ASSUME NEW p \in Path, NEW q \in Path, IsPrefix(q, p)
  PROVE  Len(q) \in 0..Len(p) /\ q = SubSeq(p, 1, Len(q))
<1>1. Len(p) \in Nat /\ Len(q) \in Nat /\ Len(q) <= Len(p)
  BY LenProperties DEF Path, IsPrefix
<1>2. SubSeq(q, 1, Len(q)) = q
  BY SubSeqFull DEF Path
<1> QED
  BY <1>1, <1>2 DEF IsPrefix

LEMMA LeadingPath ==
  ASSUME NEW a, IsTuple(a), NEW p \in Path, Leads(a, p)
  PROVE  a \in Path /\ IsPrefix(a, p) /\ IsTuple(p)
<1>1. /\ a \in [1..Len(a) -> Range(a)] /\ Len(a) \in Nat /\ Len(p) \in Nat /\ IsTuple(p)
      /\ Len(a) <= Len(p) /\ \A i \in 1..Len(a) : a[i] = p[i]
  BY TupleFacts, TupleIs DEF Path, IsTuple, Leads
<1>2. \A i \in 1..Len(a) : a[i] \in STRING
  BY <1>1, ElementOfSeq DEF Path
<1>3. a \in [1..Len(a) -> STRING]
  BY <1>1, <1>2
<1>4. a \in Path
  BY <1>1, <1>3 DEF Path
<1> QED
  BY <1>1, <1>4, LeadsPrefix

(* The root's directory is somewhere, and its contents lie beneath it.      *)
HomeAt(m, r) ==
  /\ m \in Mount /\ r \in DOMAIN tree[m] /\ r \in Path /\ HostTree(tree[m])
  /\ tree[m][r] = Directory(Home.id)
  /\ \A x \in Path : Node(x) = NodeAt(tree[m], r \o x)

LEMMA HomeIs ==
  ASSUME Forest(tree), Still, stable # {}
  PROVE  \E m, r : HomeAt(m, r)
<1>1. PICK p : p \in stable
  OBVIOUS
<1>2. p \in DOMAIN Under(tree, Home.id)
  BY <1>1 DEF Still, Node, NodeAt, Missing
<1>3. DOMAIN <<>> = {}
  BY EmptyIs
<1>4. PICK m \in Mount : \E r \in DOMAIN tree[m] : tree[m][r] = Directory(Home.id)
  BY <1>2, <1>3, UnderNone
<1>5. PICK r \in DOMAIN tree[m] : tree[m][r] = Directory(Home.id)
  BY <1>4
<1>6. HostTree(tree[m]) /\ r \in Path
  BY HostTreeAbove DEF Forest
<1>7. Under(tree, Home.id) = Subtree(tree[m], r)
  BY <1>5, UnderPlace
<1>8. ASSUME NEW x \in Path
      PROVE  Node(x) = NodeAt(tree[m], r \o x)
  BY <1>6, <1>7, SubtreeIs DEF Node, NodeAt
<1> QED
  BY <1>6, <1>8, <1>5 DEF HomeAt

(* So what lies beneath a directory there is what lies there.               *)
LEMMA Within ==
  ASSUME Forest(tree), Still, NEW p \in stable, IsDirAt(p), NEW w \in Path
  PROVE  NodeAt(Under(tree, Node(p).id), w) = Node(p \o w)
<1>0. PICK m, r : HomeAt(m, r)
  BY HomeIs
<1>1. /\ m \in Mount /\ r \in DOMAIN tree[m] /\ r \in Path /\ HostTree(tree[m])
      /\ tree[m][r] = Directory(Home.id)
      /\ \A x \in Path : Node(x) = NodeAt(tree[m], r \o x)
  BY <1>0 DEF HomeAt
<1>2. p \in Path /\ r \o p \in Path /\ p \o w \in Path
  BY <1>1, Continued DEF Still
<1>3. Node(p).kind = "dir" /\ Node(p) = NodeAt(tree[m], r \o p)
  BY <1>1, <1>2 DEF IsDirAt
<1>4. r \o p \in DOMAIN tree[m] /\ tree[m][r \o p] = Node(p)
  BY <1>3 DEF NodeAt, Missing
<1>5. Node(p) = Directory(Node(p).id)
  BY <1>1, <1>3, <1>4, HostTreeAbove DEF DirsKnown
<1>6. Under(tree, Node(p).id) = Subtree(tree[m], r \o p)
  <2> DEFINE s == r \o p
             id == Node(p).id
  <2> HIDE DEF s, id
  <2> QED
    BY <1>1, <1>4, <1>5, UnderPlace DEF s, id
<1>7. NodeAt(Subtree(tree[m], r \o p), w) = NodeAt(tree[m], (r \o p) \o w)
  BY <1>1, <1>2, SubtreeIs DEF NodeAt
<1>8. (r \o p) \o w = r \o (p \o w)
  BY <1>1, <1>2, Associates
<1> QED
  BY <1>1, <1>2, <1>6, <1>7, <1>8

LEMMA AtHome ==
  ASSUME Forest(tree), Still, stable # {}
  PROVE  /\ <<>> \in stable /\ IsDirAt(<<>>) /\ Node(<<>>).id = Home.id /\ Home.kind = "dir"
         /\ StatPath(Root \o <<>>, TRUE) = Home
<1>0. PICK m, r : HomeAt(m, r)
  BY HomeIs
<1>1. /\ m \in Mount /\ r \in DOMAIN tree[m] /\ r \in Path /\ HostTree(tree[m])
      /\ tree[m][r] = Directory(Home.id)
      /\ \A x \in Path : Node(x) = NodeAt(tree[m], r \o x)
  BY <1>0 DEF HomeAt
<1>2. <<>> \in Path /\ r \o <<>> = r
  BY <1>1, NothingAfter
<1>3. Node(<<>>) = Directory(Home.id)
  BY <1>1, <1>2 DEF NodeAt
<1>4. IsDirAt(<<>>) /\ Node(<<>>).id = Home.id
  BY <1>3 DEF Directory, IsDirAt
<1>5. PICK p \in stable : p \in Path
  BY DEF Still
<1>6. <<>> \in stable
  BY <1>2, <1>5, NothingAfter DEF Still
<1>7. Root \o <<>> = Root
  BY WalkAssumption, NothingAfter DEF Path
<1> QED
  BY <1>4, <1>6, <1>7 DEF Still, Home

(* From a directory on the way to a path, one name on.                      *)
LEMMA Onward ==
  ASSUME Forest(tree), Still, NEW p \in stable, NEW a, IsTuple(a), Leads(a, p), Len(a) < Len(p)
  PROVE  /\ a \in stable /\ IsDirAt(a)
         /\ Append(a, p[Len(a) + 1]) \in stable /\ Leads(Append(a, p[Len(a) + 1]), p)
         /\ NodeAt(Under(tree, Node(a).id), <<p[Len(a) + 1]>>) = Node(Append(a, p[Len(a) + 1]))
         /\ Node(Append(a, p[Len(a) + 1])).kind # "missing"
<1> DEFINE k == Len(a) + 1
           name == p[k]
           b == Append(a, name)
<1>1. p \in Path /\ IsTuple(p) /\ a \in Path /\ IsPrefix(a, p) /\ a # p /\ Len(p) \in Nat /\ Len(a) \in Nat
  BY LeadingPath, TupleIs DEF Still
<1>2. a \in stable /\ IsDirAt(a)
  BY <1>1 DEF Still
<1>3. name \in STRING /\ <<name>> \in Path
  <2>1. k \in 1..Len(p)
    BY <1>1
  <2> HIDE DEF k
  <2>2. name \in STRING
    BY <1>1, <2>1, ElementOfSeq DEF Path
  <2> HIDE DEF name
  <2> QED
    BY <2>2, OneName
<1>4. IsTuple(b) /\ Len(b) = k /\ b[k] = name /\ \A i \in 1..Len(a) : b[i] = a[i]
  BY Grown
<1>5. Leads(b, p)
  <2>1. Len(b) <= Len(p)
    BY <1>1, <1>4
  <2>2. \A i \in 1..Len(b) : i \in 1..Len(a) \/ i = k
    BY <1>1, <1>4
  <2> HIDE DEF b, k
  <2>3. \A i \in 1..Len(b) : b[i] = p[i]
    BY <1>4, <2>2 DEF Leads
  <2> QED
    BY <2>1, <2>3 DEF Leads
<1>6. b \in Path /\ b \in stable
  <2> HIDE DEF b
  <2>1. b \in Path /\ IsPrefix(b, p)
    BY <1>1, <1>4, <1>5, LeadingPath
  <2> QED
    BY <2>1 DEF Still
<1>7. b = a \o <<name>>
  <2> HIDE DEF name
  <2> QED
    BY <1>1, <1>3, AppendIsConcat DEF Path
<1>8. NodeAt(Under(tree, Node(a).id), <<name>>) = Node(b)
  <2> HIDE DEF name
  <2> QED
    BY <1>2, <1>3, <1>7, Within
<1>9. Node(b).kind # "missing"
  <2> HIDE DEF b
  <2> QED
    BY <1>6 DEF Still
<1> QED
  BY <1>2, <1>5, <1>6, <1>8, <1>9


(* The walk's own steps leave what is there as it is.                       *)
LEMMA SameWorld ==
  ASSUME tree' = tree, opts' = opts, stable' = stable
  PROVE  /\ Still => Still'
         /\ Home' = Home /\ StatPath(Root, FALSE)' = StatPath(Root, FALSE)
         /\ \A p : Node(p)' = Node(p) /\ (IsDirAt(p)' <=> IsDirAt(p)) /\ (Excused(p)' <=> Excused(p))
         /\ Uneven' <=> Uneven
<1>1. \A follow : StatPath(Root, follow)' = StatPath(Root, follow)
  BY DEF StatPath
<1>2. Home' = Home
  BY <1>1 DEF Home
<1>3. \A p : Node(p)' = Node(p) /\ (IsDirAt(p)' <=> IsDirAt(p))
  BY <1>2 DEF Node, IsDirAt
<1>4. \A p : Excused(p)' <=> Excused(p)
  <2>1. StatPath(Root, TRUE)' = StatPath(Root, TRUE) /\ StatPath(Root, FALSE)' = StatPath(Root, FALSE)
    BY <1>1
  <2>2. Under(tree, StatPath(Root, TRUE).id)' = Under(tree, StatPath(Root, TRUE).id)
    BY <2>1
  <2>3. ASSUME NEW p
        PROVE  Excused(p)' <=> Excused(p)
    <3> DEFINE t == Under(tree, StatPath(Root, TRUE).id)
               crosses == \E n \in 1..(Len(p) - 1) : Device[t[SubSeq(p, 1, n)].id] # Device[t[<<>>].id]
    <3>1. crosses' <=> crosses
      <4>1. t' = t
        BY <2>2
      <4> HIDE DEF t
      <4> QED
        BY <4>1
    <3>2. Excused(p) <=>
            \/ Len(p) \notin opts.min..opts.max
            \/ /\ p # <<>> /\ StatPath(Root, FALSE).kind # "dir"
               /\ StatPath(Root, FALSE).kind = "link" => ~opts.follow_links /\ ~opts.follow_root_links
            \/ opts.same_file_system /\ crosses
      BY DEF Excused
    <3>3. Excused(p)' <=>
            \/ Len(p) \notin opts'.min..opts'.max
            \/ /\ p # <<>> /\ StatPath(Root, FALSE)'.kind # "dir"
               /\ StatPath(Root, FALSE)'.kind = "link" => ~opts'.follow_links /\ ~opts'.follow_root_links
            \/ opts'.same_file_system /\ crosses'
      BY DEF Excused
    <3> HIDE DEF crosses
    <3> QED
      BY <2>1, <3>1, <3>2, <3>3
  <2> QED
    BY <2>3
<1>5. Uneven' <=> Uneven
  BY <1>1 DEF Uneven
<1>6. Still => Still'
  BY <1>2, <1>3 DEF Still
<1> QED
  BY <1>1, <1>2, <1>3, <1>4, <1>5, <1>6

LEMMA FrontParts ==
  ASSUME NEW s, IsTuple(s), s # <<>>
  PROVE  /\ \A i \in DOMAIN Front(s) : i \in DOMAIN s /\ Front(s)[i] = s[i]
         /\ \A i \in DOMAIN s : i # Len(s) => i \in DOMAIN Front(s)
         /\ Len(s) \in DOMAIN s /\ Last(s) = s[Len(s)] /\ Len(s) \in Nat
         /\ Len(Front(s)) = Len(s) - 1
<1> DEFINE f == Front(s)
           n == Len(s) - 1
<1>1. /\ IsTuple(f) /\ Len(f) = n /\ n \in Nat /\ n = Len(s) - 1 /\ Len(s) \in Nat
      /\ \A i \in 1..n : f[i] = s[i]
      /\ DOMAIN f = 1..n /\ DOMAIN s = 1..(n + 1) /\ Last(s) = s[Len(s)]
  BY Shrunk, TupleIs
<1> HIDE DEF f, n
<1> QED
  BY <1>1 DEF f

(* The next name on the way to a path, in the innermost directory.          *)
LEMMA Innermost ==
  ASSUME Forest(tree), Still, Genuine, Nested(stack), stack # <<>>,
         NEW p \in stable, Leads(Last(stack).rel, p), Len(stack) <= Len(p),
         NEW b, b = Append(Last(stack).rel, p[Len(stack)])
  PROVE  /\ StatAt(Last(stack).id, p[Len(stack)]) = Node(b) /\ Node(b).kind # "missing"
         /\ b \in stable /\ Leads(b, p) /\ IsTuple(b) /\ Len(b) = Len(stack)
<1> DEFINE a == Last(stack).rel
           k == Len(stack)
<1>1. k \in Nat /\ k \in DOMAIN stack /\ Last(stack) = stack[k]
  BY FrontParts DEF Nested
<1>2. IsTuple(a) /\ Len(a) = k - 1 /\ Len(a) + 1 = k /\ Len(p) \in Nat
  <2>1. Len(p) \in Nat
    BY TupleFacts DEF Still, Path
  <2> QED
    BY <1>1, <2>1 DEF Nested, Frame
<1>3. Len(a) < Len(p)
  <2>1. k <= Len(p)
    OBVIOUS
  <2>2. Len(a) \in Nat
    BY <1>2, TupleIs
  <2> HIDE DEF a, k
  <2> QED
    BY <1>1, <1>2, <2>1, <2>2
<1>4. /\ a \in stable /\ IsDirAt(a) /\ b \in stable /\ Leads(b, p)
      /\ NodeAt(Under(tree, Node(a).id), <<p[k]>>) = Node(b) /\ Node(b).kind # "missing"
  <2> HIDE DEF a, k
  <2>1. b = Append(a, p[Len(a) + 1])
    BY <1>2 DEF a, k
  <2>2. Leads(a, p)
    BY DEF a
  <2> QED
    BY <1>2, <1>3, <2>1, <2>2, Onward
<1>5. Last(stack).id = Node(a).id
  BY <1>1, <1>4 DEF Genuine
<1>6. StatAt(Last(stack).id, p[k]) = NodeAt(Under(tree, Last(stack).id), <<p[k]>>)
  BY DEF StatAt
<1>7. IsTuple(b) /\ Len(b) = k
  BY <1>2, Grown
<1> QED
  BY <1>4, <1>5, <1>6, <1>7

(* Fewer directories are being read, or fewer names are to come.            *)
LEMMA GenuineLess ==
  ASSUME tree' = tree, opts' = opts, stable' = stable, Genuine,
         \A i \in DOMAIN stack' :
           i \in DOMAIN stack /\ stack'[i].id = stack[i].id /\ stack'[i].rel = stack[i].rel
  PROVE  Genuine'
BY SameWorld DEF Genuine

(* The directory in hand, when it is opened.                                *)
LEMMA OpenedIs ==
  ASSUME Ordered, Forest(tree), Still, Genuine, GenuineInHand, pc = "entry",
         cur.rel \in stable, IsDirAt(cur.rel)
  PROVE  OpenChild(cur).kind = "dir" /\ OpenChild(cur).id = Node(cur.rel).id
<1>1. /\ Nested(stack) /\ IsTuple(stack) /\ Fresh(stack, deferred, seen, cur.rel)
      /\ Len(cur.rel) = Len(stack) /\ IsTuple(cur.rel) /\ Len(stack) \in Nat
  BY Holding
<1>2. CASE stack = <<>>
  <2>1. Len(cur.rel) = 0
    BY <1>1, <1>2, EmptyIs
  <2>2. cur.rel = <<>>
    BY <1>1, <2>1 DEF IsTuple
  <2>3. OpenChild(cur) = Home
    BY <1>2, <2>2, AtHome DEF OpenChild
  <2> QED
    BY <2>2, <2>3, AtHome
<1>3. CASE stack # <<>>
  <2> DEFINE k == Len(stack)
  <2>0. PICK b : b = Append(Last(stack).rel, cur.rel[k])
    OBVIOUS
  <2>1. k \in DOMAIN stack /\ Last(stack) = stack[k] /\ k \in Nat
    BY <1>1, <1>3, FrontParts
  <2>2. Leads(Last(stack).rel, cur.rel)
    BY <1>1, <2>1 DEF Fresh
  <2>3. /\ StatAt(Last(stack).id, cur.rel[k]) = Node(b)
        /\ b \in stable /\ Leads(b, cur.rel) /\ IsTuple(b) /\ Len(b) = k
    <3>1. Len(stack) <= Len(cur.rel)
      BY <1>1
    <3> DEFINE p == cur.rel
    <3>2. p \in stable /\ b = Append(Last(stack).rel, p[Len(stack)]) /\ Len(stack) <= Len(p)
          /\ Leads(Last(stack).rel, p)
      BY <2>0, <2>2, <3>1
    <3> HIDE DEF p
    <3>3. /\ StatAt(Last(stack).id, p[Len(stack)]) = Node(b)
          /\ b \in stable /\ Leads(b, p) /\ IsTuple(b) /\ Len(b) = Len(stack)
      BY <1>1, <1>3, <3>2, Innermost
    <3> QED
      BY <3>3 DEF p
  <2>4. b = cur.rel
    <3>1. b \in Path /\ cur.rel \in Path
      BY <2>3 DEF Still
    <3>2. \A i \in 1..Len(b) : b[i] = cur.rel[i]
      BY <2>3 DEF Leads
    <3> QED
      BY <1>1, <2>3, <3>1, <3>2, SeqEqual DEF Path
  <2>5. Last(cur.rel) = cur.rel[k]
    BY <1>1 DEF Last
  <2>6. cur.rel # <<>>
    BY <1>1, <2>1, EmptyIs, TupleIs
  <2>7. ~cur.followed
    BY <2>6 DEF GenuineInHand
  <2>8. OpenChild(cur) = OpenAt(Last(stack).id, cur.rel[k])
    BY <1>3, <2>5, <2>7 DEF OpenChild
  <2>9. StatAt(Last(stack).id, cur.rel[k]) = Node(cur.rel) /\ Node(cur.rel).kind = "dir"
    BY <2>3, <2>4 DEF IsDirAt
  <2>10. OpenAt(Last(stack).id, cur.rel[k]) = Node(cur.rel)
    BY <2>9 DEF OpenAt
  <2> QED
    BY <2>8, <2>9, <2>10
<1> QED
  BY <1>2, <1>3


LEMMA WorldStays ==
  ASSUME Walker
  PROVE  tree' = tree /\ opts' = opts /\ stable' = stable /\ changes' = changes
BY DEF Walker, world, Call, SkipCurrentDir, RootEntry, Pay, Leave, Take, Finish, Follow, Pass, Open,
       List

LEMMA RootGenuine ==
  ASSUME RootEntry, tree' = tree
  PROVE  GenuineInHand'
<1> DEFINE node == StatPath(Root, FALSE)
<1>1. CASE node = Missing
  BY <1>1 DEF RootEntry, Fail, Return, GenuineInHand
<1>2. CASE node # Missing
  <2>1. pc' = "entry" /\ cur' = Entry(<<>>, node)
    BY <1>2 DEF RootEntry, Continue
  <2>2. node' = node
    BY DEF StatPath
  <2> HIDE DEF node
  <2>3. cur'.rel = <<>> /\ cur'.node = node /\ cur'.followed = FALSE
    BY <2>1 DEF Entry
  <2> QED
    BY <2>1, <2>2, <2>3 DEF GenuineInHand, node
<1> QED
  BY <1>1, <1>2

LEMMA TakeGenuine ==
  ASSUME Ordered, Forest(tree), Still, Genuine, Take
  PROVE  Genuine' /\ GenuineInHand'
<1>0. tree' = tree /\ opts' = opts /\ stable' = stable
  BY WorldStays DEF Walker
<1>1. Nested(stack) /\ stack # <<>> /\ IsTuple(stack)
  BY DEF Ordered, Nested, Take
<1>2. PICK name \in Last(stack).entries : ChildEntry(name)
  BY DEF Take
<1> DEFINE k == Len(stack)
           a == Last(stack).rel
           node == StatAt(Last(stack).id, name)
<1>3. stack' = [stack EXCEPT ![Len(stack)].entries = @ \ {name}]
  BY <1>2 DEF ChildEntry
<1>4. Genuine'
  <2>1. Thinner(stack, stack')
    BY <1>1, <1>3, TakenThin
  <2>2. \A i \in DOMAIN stack' :
           i \in DOMAIN stack /\ stack'[i].id = stack[i].id /\ stack'[i].rel = stack[i].rel
    BY <2>1 DEF Thinner
  <2> QED
    BY <1>0, <2>2, GenuineLess
<1>5. CASE node = Missing
  BY <1>2, <1>4, <1>5 DEF ChildEntry, Fail, Return, GenuineInHand
<1>6. CASE node # Missing
  <2>1. pc' = "entry" /\ cur' = Entry(Append(a, name), node)
    BY <1>2, <1>6 DEF ChildEntry, Continue
  <2>2. /\ k \in Nat /\ k \in DOMAIN stack /\ Last(stack) = stack[k]
        /\ IsTuple(a) /\ Len(a) = k - 1 /\ Len(a) + 1 = k
    <3>1. k \in Nat /\ k \in DOMAIN stack /\ Last(stack) = stack[k]
      BY <1>1, FrontParts
    <3> QED
      BY <1>1, <3>1 DEF Nested, Frame
  <2> HIDE DEF node
  <2>3. PICK p : p = Append(a, name)
    OBVIOUS
  <2>4. cur'.rel = p /\ cur'.node = node /\ cur'.followed = FALSE
    BY <2>1, <2>3 DEF Entry
  <2>5. IsTuple(p) /\ Len(p) = k /\ p[k] = name /\ Leads(a, p) /\ p # <<>>
    <3> HIDE DEF a, k
    <3>1. IsTuple(p) /\ Len(p) = k /\ p[k] = name /\ \A i \in 1..Len(a) : p[i] = a[i]
      BY <2>2, <2>3, Grown
    <3>2. Len(a) <= k /\ k # 0
      BY <2>2, TupleIs
    <3> QED
      BY <3>1, <3>2, EmptyIs DEF Leads
  <2>6. ASSUME p \in stable
        PROVE  node = Node(p)
    <3>1. p = Append(a, p[k]) /\ k <= Len(p)
      <4> HIDE DEF a, k
      <4> QED
        BY <2>2, <2>3, <2>5
    <3>2. StatAt(Last(stack).id, p[Len(stack)]) = Node(p)
      BY <1>1, <2>5, <2>6, <3>1, Innermost
    <3> QED
      BY <2>5, <3>2 DEF node
  <2>7. Node(p)' = Node(p)
    BY <1>0, SameWorld
  <2>8. ASSUME cur'.rel \in stable'
        PROVE  /\ ~cur'.followed /\ cur'.rel # <<>> /\ cur'.node = Node(p)'
    BY <1>0, <2>4, <2>5, <2>6, <2>7, <2>8
  <2>9. Node(p)' = Node(cur.rel)'
    BY <2>4 DEF Node
  <2> QED
    BY <1>4, <2>1, <2>8, <2>9 DEF GenuineInHand
<1> QED
  BY <1>5, <1>6

LEMMA FollowGenuine ==
  ASSUME Ordered, Forest(tree), Still, GenuineInHand, Follow
  PROVE  GenuineInHand'
<1>0. tree' = tree /\ opts' = opts /\ stable' = stable
  BY WorldStays DEF Walker
<1> DEFINE node == StatPath(Root \o cur.rel, TRUE)
<1>1. CASE node = Missing
  BY <1>1 DEF Follow, Fail, Return, GenuineInHand
<1>2. CASE node # Missing
  <2>1. /\ pc = "entry" /\ pc' = "entry" /\ cur' = [cur EXCEPT !.node = node, !.followed = TRUE]
        /\ opts.follow_links /\ IsLink(cur)
    BY <1>2 DEF Follow, Follows, Continue
  <2>2. Entries(cur)
    BY <2>1, Holding
  <2>3. cur'.rel = cur.rel /\ cur'.node = node /\ cur'.followed = TRUE
    BY <2>1, <2>2 DEF Entries
  <2>4. ASSUME cur.rel \in stable, cur.rel = <<>>
        PROVE  node.kind = "dir"
    <3>1. stable # {}
      BY <2>4
    <3> QED
      BY <2>4, <3>1, AtHome
  <2>5. ASSUME cur.rel \in stable, cur.rel # <<>>
        PROVE  ~IsDirAt(cur.rel)
    BY <2>1, <2>5 DEF GenuineInHand, IsDirAt, IsLink
  <2>6. Home' = Home
    BY <1>0, SameWorld
  <2>7. IsDirAt(cur.rel)' <=> IsDirAt(cur.rel)
    BY <1>0, <2>3, <2>6 DEF IsDirAt, Node
  <2> HIDE DEF node
  <2> QED
    BY <1>0, <2>1, <2>3, <2>4, <2>5, <2>7 DEF GenuineInHand, IsDir
<1> QED
  BY <1>1, <1>2

LEMMA OpenGenuine ==
  ASSUME Ordered, Forest(tree), Still, Genuine, GenuineInHand, Open
  PROVE  GenuineInHand'
<1>0. tree' = tree /\ opts' = opts /\ stable' = stable /\ pc = "entry"
  BY WorldStays DEF Walker, Open
<1> DEFINE node == OpenChild(cur)
<1>1. CASE pc' # "list"
  <2>1. pc' \notin {"entry", "list"}
    BY <1>0, <1>1 DEF Open, Fail, Return, Settle, Yield, Continue
  <2> QED
    BY <2>1 DEF GenuineInHand
<1>2. CASE pc' = "list"
  <2>1. node.kind = "dir" /\ cur' = [cur EXCEPT !.id = node.id]
    BY <1>0, <1>2 DEF Open, Fail, Return, Settle, Yield, Continue
  <2>2. IsDir(cur) \/ (RootLink(cur) /\ ~opts.follow_links)
    BY DEF Open, Follows, RootLink
  <2>3. Entries(cur)
    BY <1>0, Holding
  <2>4. ASSUME cur.rel \in stable, IsDirAt(cur.rel)
        PROVE  node.id = Node(cur.rel).id
    BY <1>0, <2>4, OpenedIs
  <2> HIDE DEF node
  <2>5. /\ cur'.rel = cur.rel /\ cur'.node = cur.node /\ cur'.followed = cur.followed
        /\ cur'.id = node.id
    BY <2>1, <2>3 DEF Entries
  <2>6. Home' = Home /\ StatPath(Root, FALSE)' = StatPath(Root, FALSE)
    BY <1>0, SameWorld
  <2>7. Node(cur.rel)' = Node(cur.rel) /\ (IsDirAt(cur.rel)' <=> IsDirAt(cur.rel))
    BY <1>0, <2>5, <2>6 DEF IsDirAt, Node
  <2>8. IsDir(cur)' = IsDir(cur) /\ RootLink(cur)' = RootLink(cur)
    BY <1>0, <2>5 DEF IsDir, RootLink, IsLink
  <2>9. ASSUME cur.rel \in stable
        PROVE  /\ cur.followed => opts.follow_links
               /\ cur.rel = <<>> => IF cur.followed THEN IsDir(cur) ELSE cur.node = StatPath(Root, FALSE)
               /\ cur.rel # <<>> => IF cur.followed THEN ~IsDirAt(cur.rel) ELSE cur.node = Node(cur.rel)
    BY <1>0, <2>9 DEF GenuineInHand
  <2>10. ASSUME cur'.rel \in stable'
         PROVE  /\ cur'.followed => opts'.follow_links
                /\ cur'.rel = <<>> =>
                     IF cur'.followed THEN IsDir(cur)' ELSE cur'.node = StatPath(Root, FALSE)'
                /\ cur'.rel # <<>> =>
                     IF cur'.followed THEN ~IsDirAt(cur.rel)' ELSE cur'.node = Node(cur.rel)'
                /\ IsDirAt(cur.rel)' => cur'.id = Node(cur.rel)'.id
    BY <1>0, <2>4, <2>5, <2>6, <2>7, <2>8, <2>9, <2>10
  <2>11. IsDir(cur)' \/ (RootLink(cur)' /\ ~opts'.follow_links)
    BY <1>0, <2>2, <2>8
  <2> QED
    BY <2>10, <2>11 DEF GenuineInHand
<1> QED
  BY <1>1, <1>2

LEMMA ListGenuine ==
  ASSUME Ordered, Genuine, GenuineInHand, List
  PROVE  Genuine' /\ GenuineInHand'
<1>0. tree' = tree /\ opts' = opts /\ stable' = stable /\ pc = "list"
  BY WorldStays DEF Walker, List
<1> DEFINE f == [id |-> cur.id, rel |-> cur.rel, followed |-> cur.followed,
                 entries |-> EntryNames(cur.id)]
           k == Len(stack) + 1
<1>1. stack' = Append(stack, f) /\ pc' \notin {"entry", "list"}
  BY DEF List, Settle, Continue, Yield, Return
<1>2. f.id = cur.id /\ f.rel = cur.rel
  OBVIOUS
<1>3. IsTuple(stack)
  BY <1>0, Holding
<1> HIDE DEF f
<1>4. /\ IsTuple(stack') /\ Len(stack') = k /\ stack'[k] = f
      /\ \A i \in 1..Len(stack) : stack'[i] = stack[i]
      /\ k = Len(stack) + 1 /\ Len(stack) \in Nat
  BY <1>1, <1>3, Grown, TupleIs
<1> HIDE DEF k
<1>5. ASSUME NEW i \in DOMAIN stack'
      PROVE  (i = k) \/ (i \in DOMAIN stack /\ stack'[i] = stack[i])
  BY <1>3, <1>4, TupleIs
<1>6. ASSUME NEW i \in DOMAIN stack', stack'[i].rel \in stable, IsDirAt(stack'[i].rel)
      PROVE  stack'[i].id = Node(stack'[i].rel).id
  <2>1. CASE i = k
    BY <1>0, <1>2, <1>4, <1>6, <2>1 DEF GenuineInHand
  <2>2. CASE i \in DOMAIN stack /\ stack'[i] = stack[i]
    BY <1>6, <2>2 DEF Genuine
  <2> QED
    BY <1>5, <2>1, <2>2
<1>7. Genuine'
  BY <1>0, <1>6, SameWorld DEF Genuine
<1> QED
  BY <1>1, <1>7 DEF GenuineInHand

LEMMA WalkerGenuine ==
  ASSUME Ordered, Forest(tree), Still, Genuine, GenuineInHand, Walker
  PROVE  Genuine' /\ GenuineInHand'
<1>0. tree' = tree /\ opts' = opts /\ stable' = stable
  BY WorldStays
<1>1. IsTuple(stack)
  BY DEF Ordered, Nested
<1>2. ASSUME stack' = stack
      PROVE  Genuine'
  BY <1>0, <1>2, GenuineLess
<1>3. ASSUME stack # <<>>, stack' = Front(stack)
      PROVE  Genuine'
  <2>1. \A i \in DOMAIN stack' : i \in DOMAIN stack /\ stack'[i] = stack[i]
    BY <1>1, <1>3, FrontParts
  <2> QED
    BY <1>0, <2>1, GenuineLess
<1>4. CASE Call \/ Pay \/ Finish \/ Pass
  <2>1. stack' = stack /\ pc' \notin {"entry", "list"}
    BY <1>4 DEF Call, Pay, Finish, Pass, Settle, Continue, Yield, Return
  <2> QED
    BY <1>2, <2>1 DEF GenuineInHand
<1>5. CASE SkipCurrentDir \/ Leave
  <2>1. stack # <<>> /\ stack' = Front(stack) /\ pc' = "next"
    BY <1>5 DEF SkipCurrentDir, Leave, Continue
  <2> QED
    BY <1>3, <2>1 DEF GenuineInHand
<1>6. CASE RootEntry
  <2>1. stack' = stack
    BY <1>6 DEF RootEntry
  <2> QED
    BY <1>0, <1>2, <1>6, <2>1, RootGenuine
<1>7. CASE Follow \/ Open
  <2>1. stack' = stack
    BY <1>7 DEF Follow, Open
  <2> QED
    BY <1>2, <1>7, <2>1, FollowGenuine, OpenGenuine
<1> QED
  BY <1>4, <1>5, <1>6, <1>7, TakeGenuine, ListGenuine DEF Walker


(* Whatever the walk has to look after.                                     *)
Tracked ==
  /\ Ordered /\ Forest(tree) /\ opts \in Options /\ Still /\ Genuine /\ GenuineInHand
  /\ Even /\ Remembered /\ stable # {} /\ ~Uneven

LEMMA RememberedBy ==
  ASSUME tree' = tree, opts' = opts, stable' = stable, Remembered,
         ASSUME NEW p \in stable, ~Excused(p), Known(p)
         PROVE  Known(p)'
  PROVE  Remembered'
<1>1. \A p : Excused(p)' <=> Excused(p)
  BY SameWorld
<1>2. \A p \in stable : Excused(p) \/ Known(p)'
  BY DEF Remembered
<1> QED
  BY <1>1, <1>2 DEF Remembered

(* What has been given or deferred stays so.                                *)
LEMMA GivenStays ==
  ASSUME seen \subseteq seen', \A i \in DOMAIN deferred : \E j \in DOMAIN deferred' :
                                  deferred'[j].rel = deferred[i].rel,
         NEW p, (\E e \in seen : e.rel = p) \/ \E i \in DOMAIN deferred : deferred[i].rel = p
  PROVE  Known(p)'
BY DEF Known

LEMMA LengthIs ==
  ASSUME Still, NEW p \in stable
  PROVE  p \in Path /\ IsTuple(p) /\ Len(p) \in Nat
BY TupleFacts DEF Still, Path

(* What is not excused lies within the depths asked for.                    *)
LEMMA NotSkippable ==
  ASSUME opts \in Options, Still, NEW p \in stable, ~Excused(p)
  PROVE  /\ ~Skippable(Len(p)) /\ opts.min <= Len(p) /\ Len(p) <= opts.max
         /\ opts.min \in Nat /\ opts.max \in Nat /\ Len(p) \in Nat
<1>1. opts.min \in Nat /\ opts.max \in Nat /\ Len(p) \in Nat
  BY LengthIs DEF Options
<1>2. Len(p) \in opts.min..opts.max
  BY DEF Excused
<1> QED
  BY <1>1, <1>2 DEF Skippable

LEMMA LeadsCases ==
  ASSUME Still, NEW p \in stable, NEW a, IsTuple(a), Leads(a, p)
  PROVE  a = p \/ (Len(a) < Len(p) /\ a \in stable /\ IsDirAt(a))
<1>1. p \in Path /\ a \in Path /\ IsPrefix(a, p) /\ Len(p) \in Nat /\ Len(a) \in Nat
  BY LengthIs, LeadingPath, TupleIs
<1>2. CASE Len(a) = Len(p)
  <2>1. \A i \in 1..Len(a) : a[i] = p[i]
    BY DEF Leads
  <2> QED
    BY <1>1, <1>2, <2>1, SeqEqual DEF Path
<1>3. CASE Len(a) # Len(p)
  <2>1. Len(a) < Len(p)
    BY <1>1, <1>3 DEF Leads
  <2> QED
    BY <1>1, <1>3, <2>1 DEF Still
<1> QED
  BY <1>2, <1>3

(* The two stacks, level again after what is done to them.                  *)
LEMMA LevelPaid ==
  ASSUME NEW F, NEW D, IsTuple(F), IsTuple(D), Len(F) < Len(D), Level(F, D)
  PROVE  Level(F, Front(D))
<1>1. D # <<>> /\ Len(F) \in Nat /\ Len(D) \in Nat
  <2>1. Len(F) \in Nat /\ Len(D) \in Nat
    BY TupleIs
  <2>2. Len(D) # 0
    BY <2>1
  <2> QED
    BY <2>1, <2>2, EmptyIs
<1>2. /\ \A i \in DOMAIN Front(D) : i \in DOMAIN D /\ Front(D)[i] = D[i]
      /\ Len(Front(D)) = Len(D) - 1
  BY <1>1, FrontParts
<1>3. Len(F) <= Len(D) - 1
  BY <1>1
<1> QED
  BY <1>2, <1>3 DEF Level

LEMMA LevelLeft ==
  ASSUME NEW F, NEW D, IsTuple(F), IsTuple(D), F # <<>>, Level(F, D)
  PROVE  Level(Front(F), D)
<1>1. Len(Front(F)) = Len(F) - 1 /\ Len(F) \in Nat /\ Len(D) \in Nat
  BY FrontParts, TupleIs
<1> QED
  BY <1>1 DEF Level

LEMMA LevelDeferred ==
  ASSUME NEW F, NEW D, IsTuple(F), IsTuple(D), Len(D) <= Len(F), Level(F, D),
         NEW d, Len(d.rel) = Len(F), NEW f
  PROVE  Level(F, Append(D, d)) /\ Level(Append(F, f), Append(D, d))
<1> DEFINE A == Append(D, d)
           k == Len(D) + 1
<1>1. /\ IsTuple(A) /\ Len(A) = k /\ A[k] = d /\ k = Len(D) + 1
      /\ \A i \in 1..Len(D) : A[i] = D[i]
      /\ Len(Append(F, f)) = Len(F) + 1
  BY Grown
<1>2. Len(F) \in Nat /\ Len(D) \in Nat /\ Len(F) = Len(D)
  <2>1. Len(F) \in Nat /\ Len(D) \in Nat
    BY TupleIs
  <2>2. Len(F) <= Len(D)
    BY DEF Level
  <2> QED
    BY <2>1, <2>2
<1> HIDE DEF A, k
<1>3. DOMAIN A = 1..k /\ DOMAIN D = 1..Len(D)
  BY <1>1, TupleIs
<1>4. ASSUME NEW i \in DOMAIN A
      PROVE  Len(A[i].rel) <= i - 1
  <2>1. CASE i = k
    <3>1. Len(A[i].rel) = Len(D)
      BY <1>1, <1>2, <2>1
    <3> QED
      BY <1>1, <1>2, <2>1, <3>1
  <2>2. CASE i # k
    <3>1. i \in DOMAIN D /\ A[i] = D[i]
      BY <1>1, <1>2, <1>3, <2>2
    <3> QED
      BY <3>1 DEF Level
  <2> QED
    BY <2>1, <2>2
<1>5. Len(F) <= k /\ Len(F) + 1 <= k
  BY <1>1, <1>2
<1>6. Level(F, A)
  BY <1>1, <1>4, <1>5 DEF Level
<1>7. Level(Append(F, f), A)
  BY <1>1, <1>4, <1>5 DEF Level
<1> QED
  BY <1>6, <1>7 DEF A

(* A deferred directory that is taken off without being given is not to be  *)
(* given.                                                                  *)
LEMMA PaidLess ==
  ASSUME Tracked, pc = "next", Paid, Owed => Skippable(Len(stack)),
         NEW p \in stable, ~Excused(p), NEW i \in DOMAIN deferred, deferred[i].rel = p
  PROVE  \E j \in DOMAIN deferred' : deferred'[j].rel = p
<1>1. /\ opts.min \in Nat /\ opts.max \in Nat /\ Len(p) \in Nat
      /\ opts.min <= Len(p) /\ Len(p) <= opts.max
  BY NotSkippable DEF Tracked
<1>2. /\ IsTuple(stack) /\ IsTuple(deferred) /\ Len(deferred) <= Len(stack) + 1
      /\ opts.contents_first \/ deferred = <<>>
      /\ \A j \in DOMAIN deferred : j - 1 <= Len(deferred[j].rel)
  BY DEF Tracked, Ordered, Nested, Waiting
<1>3. Len(stack) \in Nat /\ Len(deferred) \in Nat /\ DOMAIN deferred = 1..Len(deferred)
  BY <1>2, TupleIs
<1>4. deferred # <<>> /\ opts.contents_first
  BY <1>2, EmptyIs
<1>5. CASE ~Owed
  BY <1>5 DEF Paid
<1>6. CASE Owed
  <2>1. deferred' = Front(deferred) /\ Len(stack) < Len(deferred)
    BY <1>6 DEF Paid, Owed
  <2>2. Len(deferred) = Len(stack) + 1
    <3> DEFINE m == Len(stack)
               n == Len(deferred)
    <3>1. m \in Nat /\ n \in Nat /\ m < n /\ n <= m + 1
      BY <1>2, <1>3, <2>1
    <3> HIDE DEF m, n
    <3>2. n = m + 1
      BY <3>1
    <3> QED
      BY <3>2 DEF m, n
  <2>3. i # Len(deferred)
    <3> SUFFICES ASSUME i = Len(deferred)
                 PROVE  FALSE
      OBVIOUS
    <3>1. Len(stack) <= Len(p)
      <4>1. i - 1 <= Len(p)
        BY <1>2
      <4> QED
        BY <1>1, <1>3, <2>2, <4>1
    <3>2. Len(stack) < opts.min
      BY <1>1, <1>3, <1>6, <3>1 DEF Skippable
    <3>3. opts.min > 0
      BY <1>1, <1>3, <3>2
    <3>4. Level(stack, deferred)
      BY <1>4, <3>3 DEF Tracked, Even
    <3>5. Len(p) <= i - 1
      BY <3>4 DEF Level
    <3> QED
      BY <1>1, <1>3, <2>2, <3>2, <3>5
  <2>4. i \in DOMAIN Front(deferred) /\ Front(deferred)[i] = deferred[i]
    BY <1>2, <1>4, <2>3, FrontParts
  <2> QED
    BY <2>1, <2>4
<1> QED
  BY <1>5, <1>6

LEMMA PaidLevel ==
  ASSUME Tracked, pc = "next", Paid, opts.contents_first, opts.min > 0
  PROVE  Level(stack, deferred')
<1>1. IsTuple(stack) /\ IsTuple(deferred) /\ Level(stack, deferred)
  BY DEF Tracked, Ordered, Nested, Waiting, Even
<1>2. CASE Owed
  BY <1>1, <1>2, LevelPaid DEF Paid, Owed
<1>3. CASE ~Owed
  BY <1>1, <1>3 DEF Paid
<1> QED
  BY <1>2, <1>3


(* The end of a call of handle_entry: the entry is given or deferred, or is *)
(* not to be given.                                                        *)
LEMMA Settled ==
  ASSUME Tracked, pc \in {"entry", "list"}, Settle
  PROVE  /\ seen \subseteq seen'
         /\ \A i \in DOMAIN deferred : \E j \in DOMAIN deferred' : deferred'[j].rel = deferred[i].rel
         /\ \A p \in stable : p = cur.rel /\ ~Excused(p) => Known(p)'
<1>1. IsTuple(deferred)
  BY Holding DEF Tracked
<1>2. CASE IsDir(cur) /\ opts.contents_first
  <2>1. deferred' = Append(deferred, cur) /\ seen' = seen
    BY <1>2 DEF Settle, Continue
  <2> DEFINE k == Len(deferred) + 1
  <2>2. /\ IsTuple(deferred') /\ Len(deferred') = k /\ deferred'[k] = cur
        /\ \A i \in 1..Len(deferred) : deferred'[i] = deferred[i]
    BY <1>1, <2>1, Grown
  <2>3. /\ DOMAIN deferred' = 1..k /\ DOMAIN deferred = 1..Len(deferred) /\ Len(deferred) \in Nat
        /\ k = Len(deferred) + 1
    BY <1>1, <2>2, TupleIs
  <2> HIDE DEF k
  <2>4. \A i \in DOMAIN deferred : i \in DOMAIN deferred' /\ deferred'[i] = deferred[i]
    BY <2>2, <2>3
  <2>5. k \in DOMAIN deferred'
    BY <2>3
  <2> QED
    BY <2>1, <2>2, <2>4, <2>5 DEF Known
<1>3. CASE ~(IsDir(cur) /\ opts.contents_first) /\ Skippable(Len(cur.rel))
  <2>1. deferred' = deferred /\ seen' = seen
    BY <1>3 DEF Settle, Continue
  <2>2. ASSUME NEW p \in stable, p = cur.rel, ~Excused(p)
        PROVE  FALSE
    BY <1>3, <2>2, NotSkippable DEF Tracked
  <2> QED
    BY <2>1, <2>2
<1>4. CASE ~(IsDir(cur) /\ opts.contents_first) /\ ~Skippable(Len(cur.rel))
  <2> DEFINE x == [kind |-> "entry", rel |-> cur.rel, node |-> cur.node, followed |-> cur.followed]
  <2>1. deferred' = deferred /\ seen' = seen \cup {x}
    BY <1>4 DEF Settle, Yield, Return
  <2>2. x.rel = cur.rel
    OBVIOUS
  <2> HIDE DEF x
  <2> QED
    BY <2>1, <2>2 DEF Known
<1> QED
  BY <1>2, <1>3, <1>4

(* An error names the entry.                                               *)
LEMMA ErrorNames ==
  ASSUME NEW why, NEW p, Fail(why, p), deferred' = deferred
  PROVE  /\ seen \subseteq seen' /\ Known(p)'
         /\ \A i \in DOMAIN deferred : \E j \in DOMAIN deferred' : deferred'[j].rel = deferred[i].rel
<1> DEFINE x == [kind |-> why, rel |-> p]
<1>1. seen' = seen \cup {x}
  BY DEF Fail, Return
<1>2. x.rel = p
  OBVIOUS
<1> HIDE DEF x
<1> QED
  BY <1>1, <1>2 DEF Known

(* Where nothing is taken from the directories being read.                  *)
LEMMA StackStays ==
  ASSUME stack' = stack, pc # "start",
         seen \subseteq seen', \A i \in DOMAIN deferred : \E j \in DOMAIN deferred' :
                                  deferred'[j].rel = deferred[i].rel,
         NEW p, Known(p), pc \in {"entry", "list"} /\ Leads(cur.rel, p) => Known(p)'
  PROVE  Known(p)'
<1>1. CASE (\E e \in seen : e.rel = p) \/ \E i \in DOMAIN deferred : deferred[i].rel = p
  BY <1>1, GivenStays
<1>2. CASE \E i \in DOMAIN stack : i <= Len(p) /\ Leads(stack[i].rel, p) /\ p[i] \in stack[i].entries
  BY <1>2 DEF Known
<1> QED
  BY <1>1, <1>2 DEF Known

LEMMA EvenStays ==
  ASSUME Even, opts' = opts, stack' = stack, deferred' = deferred
  PROVE  Even'
BY DEF Even, Level

LEMMA MissingIs ==
  ASSUME NEW node, node = Missing
  PROVE  node.kind = "missing" /\ node.kind # "dir" /\ node.kind # "link"
BY DEF Missing

LEMMA RootRemembers ==
  ASSUME Tracked, RootEntry
  PROVE  Even' /\ Remembered'
<1>0. tree' = tree /\ opts' = opts /\ stable' = stable
  BY WorldStays DEF Walker
<1> DEFINE node == StatPath(Root, FALSE)
<1>1. Even'
  <2>1. stack' = stack /\ deferred' = deferred
    BY DEF RootEntry
  <2> QED
    BY <1>0, <2>1, EvenStays DEF Tracked
<1>2. ASSUME NEW p \in stable, ~Excused(p)
      PROVE  Known(p)'
  <2>1. CASE node = Missing
    <3>1. Fail("io", <<>>) /\ deferred' = deferred
      BY <2>1 DEF RootEntry
    <3>2. Known(<<>>)'
      BY <3>1, ErrorNames
    <3>5. StatPath(Root, FALSE).kind # "dir" /\ StatPath(Root, FALSE).kind # "link"
      BY <2>1, MissingIs
    <3> HIDE DEF node
    <3>6. p = <<>>
      BY <1>2, <3>5 DEF Excused
    <3> QED
      BY <3>2, <3>6
  <2>2. CASE node # Missing
    <3>1. pc' = "entry" /\ cur' = Entry(<<>>, node)
      BY <2>2 DEF RootEntry, Continue
    <3>2. cur'.rel = <<>>
      BY <3>1 DEF Entry
    <3>3. Leads(<<>>, p)
      BY <1>2, LengthIs, EmptyIs DEF Leads, Tracked
    <3> QED
      BY <3>1, <3>2, <3>3 DEF Known
  <2> QED
    BY <2>1, <2>2
<1> QED
  BY <1>0, <1>1, <1>2, RememberedBy DEF Tracked

LEMMA PayRemembers ==
  ASSUME Tracked, Pay
  PROVE  Even' /\ Remembered'
<1>0. tree' = tree /\ opts' = opts /\ stable' = stable
  BY WorldStays DEF Walker
<1> DEFINE e == Last(deferred)
           x == [kind |-> "entry", rel |-> e.rel, node |-> e.node, followed |-> e.followed]
<1>1. /\ deferred' = Front(deferred) /\ stack' = stack /\ pc = "next" /\ Owed
      /\ seen' = seen \cup {x}
  BY DEF Pay, Yield, Return
<1>2. IsTuple(stack) /\ IsTuple(deferred) /\ deferred # <<>> /\ Len(stack) < Len(deferred)
  <2>1. IsTuple(stack) /\ IsTuple(deferred) /\ Len(stack) < Len(deferred)
    BY <1>1 DEF Tracked, Ordered, Nested, Waiting, Owed
  <2>2. Len(stack) \in Nat /\ Len(deferred) \in Nat
    BY <2>1, TupleIs
  <2>3. Len(deferred) # 0
    BY <2>1, <2>2
  <2> QED
    BY <2>1, <2>3, EmptyIs
<1>3. Even'
  BY <1>0, <1>1, <1>2, LevelPaid DEF Tracked, Even
<1>4. ASSUME NEW p \in stable, Known(p)
      PROVE  Known(p)'
  <2>1. x.rel = e.rel
    OBVIOUS
  <2> HIDE DEF x
  <2>2. CASE \E i \in DOMAIN deferred : deferred[i].rel = p
    <3>1. PICK i \in DOMAIN deferred : deferred[i].rel = p
      BY <2>2
    <3>2. CASE i = Len(deferred)
      <4>1. e = deferred[i]
        BY <1>2, <3>2, FrontParts
      <4> HIDE DEF e
      <4> QED
        BY <1>1, <2>1, <3>1, <4>1 DEF Known
    <3>3. CASE i # Len(deferred)
      <4>1. i \in DOMAIN Front(deferred) /\ Front(deferred)[i] = deferred[i]
        BY <1>2, <3>3, FrontParts
      <4> QED
        BY <1>1, <3>1, <4>1 DEF Known
    <3> QED
      BY <3>2, <3>3
  <2>3. CASE ~\E i \in DOMAIN deferred : deferred[i].rel = p
    <3> HIDE DEF e
    <3> QED
      BY <1>1, <1>4, <2>3 DEF Known
  <2> QED
    BY <2>2, <2>3
<1> QED
  BY <1>0, <1>3, <1>4, RememberedBy DEF Tracked

(* Leaving a directory, of which nothing is to come that is to be given.    *)
LEMMA LeaveRemembers ==
  ASSUME Tracked, Leave
  PROVE  Even' /\ Remembered'
<1>0. tree' = tree /\ opts' = opts /\ stable' = stable
  BY WorldStays DEF Walker
<1>1. /\ stack # <<>> /\ stack' = Front(stack) /\ pc = "next" /\ Paid /\ seen' = seen
      /\ Owed => Skippable(Len(stack))
      /\ Len(stack) > opts.max \/ Last(stack).entries = {}
  BY DEF Leave, Continue
<1>2. IsTuple(stack) /\ IsTuple(deferred') /\ IsTuple(deferred)
  BY <1>1, PaidKeeps DEF Tracked, Ordered, Nested, Waiting
<1>3. Even'
  BY <1>0, <1>1, <1>2, PaidLevel, LevelLeft DEF Even
<1>4. ASSUME NEW p \in stable, ~Excused(p), Known(p)
      PROVE  Known(p)'
  <2>1. CASE \E i \in DOMAIN deferred : deferred[i].rel = p
    BY <1>1, <1>4, <2>1, PaidLess DEF Known
  <2>2. CASE \E e \in seen : e.rel = p
    BY <1>1, <2>2 DEF Known
  <2>3. CASE \E i \in DOMAIN stack :
               i <= Len(p) /\ Leads(stack[i].rel, p) /\ p[i] \in stack[i].entries
    <3>1. PICK i \in DOMAIN stack :
                 i <= Len(p) /\ Leads(stack[i].rel, p) /\ p[i] \in stack[i].entries
      BY <2>3
    <3>2. i # Len(stack)
      <4> SUFFICES ASSUME i = Len(stack)
                   PROVE  FALSE
        OBVIOUS
      <4>1. Last(stack) = stack[i] /\ i \in Nat
        BY <1>1, <1>2, FrontParts
      <4>2. i > opts.max /\ i <= Len(p)
        BY <1>1, <3>1, <4>1
      <4>3. Len(p) <= opts.max /\ opts.max \in Nat /\ Len(p) \in Nat
        BY <1>4, NotSkippable DEF Tracked
      <4> QED
        BY <4>1, <4>2, <4>3
    <3>3. i \in DOMAIN stack' /\ stack'[i] = stack[i]
      BY <1>1, <1>2, <3>2, FrontParts
    <3> QED
      BY <3>1, <3>3 DEF Known
  <2> QED
    BY <1>1, <1>4, <2>1, <2>2, <2>3 DEF Known
<1> QED
  BY <1>0, <1>3, <1>4, RememberedBy DEF Tracked

LEMMA FinishRemembers ==
  ASSUME Tracked, Finish
  PROVE  Even' /\ Remembered'
<1>0. tree' = tree /\ opts' = opts /\ stable' = stable
  BY WorldStays DEF Walker
<1>1. /\ stack = <<>> /\ stack' = stack /\ pc = "next" /\ Paid /\ seen' = seen
      /\ Owed => Skippable(Len(stack))
  BY EmptyIs DEF Finish
<1>2. Even'
  BY <1>0, <1>1, PaidLevel DEF Even
<1>3. ASSUME NEW p \in stable, ~Excused(p), Known(p)
      PROVE  Known(p)'
  <2>1. CASE \E i \in DOMAIN deferred : deferred[i].rel = p
    BY <1>1, <1>3, <2>1, PaidLess DEF Known
  <2> QED
    BY <1>1, <1>3, <2>1 DEF Known
<1> QED
  BY <1>0, <1>2, <1>3, RememberedBy DEF Tracked

LEMMA CallRemembers ==
  ASSUME Tracked, Call
  PROVE  Even' /\ Remembered'
<1>0. /\ tree' = tree /\ opts' = opts /\ stable' = stable
      /\ stack' = stack /\ deferred' = deferred /\ seen' = seen /\ pc = "ready"
  BY DEF Call, Continue, world
<1>1. Even'
  BY <1>0, EvenStays DEF Tracked
<1>2. ASSUME NEW p \in stable, Known(p)
      PROVE  Known(p)'
  BY <1>0, <1>2, StackStays
<1> QED
  BY <1>0, <1>1, <1>2, RememberedBy DEF Tracked

(* Taking a name: what it leads to is in hand.                              *)
LEMMA TakenEntries ==
  ASSUME NEW F, NEW name, Nested(F), F # <<>>, NEW T,
         T = [F EXCEPT ![Len(F)].entries = @ \ {name}]
  PROVE  /\ Len(T) = Len(F) /\ DOMAIN T = DOMAIN F
         /\ \A i \in DOMAIN F : T[i].rel = F[i].rel
         /\ \A i \in DOMAIN F : \A x :
              x \in F[i].entries /\ (i = Len(F) => x # name) => x \in T[i].entries
<1>1. Thinner(F, T)
  BY TakenThin
<1>2. IsTuple(F) /\ Len(F) \in DOMAIN F /\ \A i \in DOMAIN F : Frame(F[i])
  BY FrontParts DEF Nested
<1> DEFINE k == Len(F)
           f == [F[k] EXCEPT !.entries = @ \ {name}]
<1>3. T = [F EXCEPT ![k] = f]
  OBVIOUS
<1>4. f.entries = F[k].entries \ {name}
  BY <1>2 DEF Frame
<1> HIDE DEF k, f
<1>5. F = [i \in DOMAIN F |-> F[i]]
  <2>1. F \in [1..Len(F) -> Range(F)]
    BY <1>2, TupleFacts DEF IsTuple
  <2> QED
    BY <2>1
<1>6. \A i \in DOMAIN F : T[i] = IF i = k THEN f ELSE F[i]
  BY <1>3, <1>5
<1>7. ASSUME NEW i \in DOMAIN F, NEW x, x \in F[i].entries, i = k => x # name
      PROVE  x \in T[i].entries
  BY <1>4, <1>6, <1>7
<1> QED
  BY <1>1, <1>7 DEF Thinner, k

LEMMA TakeRemembers ==
  ASSUME Tracked, Take
  PROVE  Even' /\ Remembered'
<1>0. tree' = tree /\ opts' = opts /\ stable' = stable
  BY WorldStays DEF Walker
<1>1. /\ stack # <<>> /\ pc = "next" /\ Paid /\ Nested(stack)
      /\ Owed => Skippable(Len(stack))
  BY DEF Take, Tracked, Ordered
<1>2. PICK name \in Last(stack).entries : ChildEntry(name)
  BY DEF Take
<1> DEFINE k == Len(stack)
           a == Last(stack).rel
           node == StatAt(Last(stack).id, name)
<1>3. stack' = [stack EXCEPT ![Len(stack)].entries = @ \ {name}]
  BY <1>2 DEF ChildEntry
<1>4. /\ Len(stack') = Len(stack) /\ DOMAIN stack' = DOMAIN stack
      /\ \A i \in DOMAIN stack : stack'[i].rel = stack[i].rel
      /\ \A i \in DOMAIN stack : \A x :
           x \in stack[i].entries /\ (i = Len(stack) => x # name) => x \in stack'[i].entries
  BY <1>1, <1>3, TakenEntries
<1>5. Even'
  BY <1>0, <1>1, <1>4, PaidLevel DEF Even, Level
<1>6. seen \subseteq seen'
  BY <1>2 DEF ChildEntry, Fail, Return, Continue
<1>7. k \in Nat /\ k \in DOMAIN stack /\ Last(stack) = stack[k]
  BY <1>1, FrontParts DEF Nested
<1>8. ASSUME NEW p \in stable, ~Excused(p), Known(p)
      PROVE  Known(p)'
  <2>1. CASE \E i \in DOMAIN deferred : deferred[i].rel = p
    BY <1>1, <1>8, <2>1, PaidLess DEF Known
  <2>2. CASE \E e \in seen : e.rel = p
    BY <1>6, <2>2 DEF Known
  <2>3. CASE \E i \in DOMAIN stack :
               i <= Len(p) /\ Leads(stack[i].rel, p) /\ p[i] \in stack[i].entries
    <3>1. PICK i \in DOMAIN stack :
                 i <= Len(p) /\ Leads(stack[i].rel, p) /\ p[i] \in stack[i].entries
      BY <2>3
    <3>2. CASE i = k /\ p[i] = name
      <4>0. PICK b : b = Append(a, p[k])
        OBVIOUS
      <4>1. Leads(a, p) /\ k <= Len(p)
        BY <1>7, <3>1, <3>2
      <4>2. StatAt(Last(stack).id, p[k]) = Node(b) /\ Node(b).kind # "missing" /\ Leads(b, p)
        BY <1>1, <4>0, <4>1, Innermost DEF Tracked
      <4>3. node = Node(b) /\ b = Append(a, name)
        BY <3>2, <4>0, <4>2
      <4>4. node # Missing
        BY <4>2, <4>3, MissingIs
      <4>5. pc' = "entry" /\ cur' = Entry(b, node)
        BY <1>2, <4>3, <4>4 DEF ChildEntry, Continue
      <4> HIDE DEF node
      <4>6. cur'.rel = b
        BY <4>5 DEF Entry
      <4> QED
        BY <4>2, <4>5, <4>6 DEF Known
    <3>3. CASE ~(i = k /\ p[i] = name)
      <4>1. i \in DOMAIN stack' /\ Leads(stack'[i].rel, p) /\ p[i] \in stack'[i].entries
        BY <1>4, <3>1, <3>3
      <4> QED
        BY <3>1, <4>1 DEF Known
    <3> QED
      BY <3>2, <3>3
  <2> QED
    BY <1>1, <1>8, <2>1, <2>2, <2>3 DEF Known
<1> QED
  BY <1>0, <1>5, <1>8, RememberedBy DEF Tracked

(* A directory that leads on to what was left alone is in hand as what it   *)
(* is, unless it is the root's.                                            *)
LEMMA InHandIs ==
  ASSUME Tracked, pc = "entry", cur.rel \in stable, IsDirAt(cur.rel)
  PROVE  /\ cur.rel # <<>> => IsDir(cur) /\ ~IsLink(cur) /\ ~cur.followed
         /\ cur.rel = <<>> =>
              /\ cur.followed => IsDir(cur)
              /\ ~IsDir(cur) => cur.node = StatPath(Root, FALSE)
BY DEF Tracked, GenuineInHand, IsDirAt, IsDir, IsLink

LEMMA FollowRemembers ==
  ASSUME Tracked, Follow
  PROVE  Even' /\ Remembered'
<1>0. tree' = tree /\ opts' = opts /\ stable' = stable /\ stack' = stack /\ deferred' = deferred
  BY WorldStays DEF Walker, Follow
<1> DEFINE node == StatPath(Root \o cur.rel, TRUE)
<1>1. /\ pc = "entry" /\ IsLink(cur)
      /\ IF node = Missing THEN Fail("io", cur.rel)
         ELSE Continue("entry", [cur EXCEPT !.node = node, !.followed = TRUE])
  BY DEF Follow, Follows
<1>2. Even'
  BY <1>0, EvenStays DEF Tracked
<1>3. Entries(cur) /\ IsTuple(cur.rel)
  BY <1>1, Holding DEF Tracked
<1>4. ASSUME NEW p \in stable, Known(p)
      PROVE  Known(p)'
  <2>1. CASE node = Missing
    <3>0. PICK q : q = cur.rel /\ Fail("io", q)
      BY <1>1, <2>1
    <3>1. seen \subseteq seen' /\ Known(q)'
      BY <1>0, <3>0, ErrorNames
    <3>2. ASSUME Leads(cur.rel, p)
          PROVE  cur.rel = p
      <4> SUFFICES ASSUME cur.rel \in stable, IsDirAt(cur.rel)
                   PROVE  FALSE
        BY <1>3, <3>2, LeadsCases DEF Tracked
      <4>1. cur.rel = <<>>
        BY <1>1, InHandIs
      <4>2. node = Home /\ Home.kind = "dir"
        BY <4>1, AtHome DEF Tracked
      <4> QED
        BY <2>1, <4>2, MissingIs
    <3> QED
      BY <1>0, <1>1, <1>4, <3>0, <3>1, <3>2, StackStays
  <2>2. CASE node # Missing
    <3>1. pc' = "entry" /\ cur' = [cur EXCEPT !.node = node, !.followed = TRUE] /\ seen' = seen
      BY <1>1, <2>2 DEF Continue
    <3> HIDE DEF node
    <3>2. cur'.rel = cur.rel
      BY <1>3, <3>1 DEF Entries
    <3>3. ASSUME Leads(cur.rel, p)
          PROVE  Known(p)'
      BY <3>1, <3>2, <3>3 DEF Known
    <3> QED
      BY <1>0, <1>1, <1>4, <3>1, <3>3, StackStays
  <2> QED
    BY <2>1, <2>2
<1> QED
  BY <1>0, <1>2, <1>4, RememberedBy DEF Tracked

(* What is passed leads nowhere the walk is to go.                          *)
LEMMA PassRemembers ==
  ASSUME Tracked, Pass
  PROVE  Even' /\ Remembered'
<1>0. tree' = tree /\ opts' = opts /\ stable' = stable /\ stack' = stack
  BY WorldStays DEF Walker, Pass
<1>1. /\ pc = "entry" /\ ~Follows(cur) /\ ~IsDir(cur) /\ Settle
      /\ RootLink(cur) => StatPath(Root, TRUE).kind \notin {"dir", "missing"}
  BY DEF Pass
<1>2. Even'
  <2>1. deferred' = deferred
    BY <1>1 DEF Settle
  <2> QED
    BY <1>0, <2>1, EvenStays DEF Tracked
<1>3. IsTuple(cur.rel)
  BY <1>1, Holding DEF Tracked
<1>4. /\ seen \subseteq seen'
      /\ \A i \in DOMAIN deferred : \E j \in DOMAIN deferred' : deferred'[j].rel = deferred[i].rel
      /\ \A p \in stable : p = cur.rel /\ ~Excused(p) => Known(p)'
  BY <1>1, Settled
<1>5. ASSUME NEW p \in stable, ~Excused(p), Known(p)
      PROVE  Known(p)'
  <2>1. ASSUME Leads(cur.rel, p)
        PROVE  cur.rel = p
    <3> SUFFICES ASSUME cur.rel \in stable, IsDirAt(cur.rel), Len(cur.rel) < Len(p)
                 PROVE  FALSE
      BY <1>3, <2>1, LeadsCases DEF Tracked
    <3>1. cur.rel = <<>> /\ cur.node = StatPath(Root, FALSE)
      BY <1>1, InHandIs
    <3>2. p # <<>>
      BY <3>1
    <3>3. Home.kind = "dir"
      BY AtHome DEF Tracked
    <3>4. ~RootLink(cur)
      BY <1>1, <3>3 DEF Home
    <3>5. StatPath(Root, FALSE).kind # "dir"
      BY <1>1, <3>1 DEF IsDir
    <3>6. StatPath(Root, FALSE).kind = "link" => ~opts.follow_links /\ ~opts.follow_root_links
      BY <1>1, <3>1, <3>4 DEF RootLink, Follows, IsLink
    <3> QED
      BY <1>5, <3>2, <3>5, <3>6 DEF Excused
  <2> QED
    BY <1>0, <1>1, <1>4, <1>5, <2>1, StackStays
<1> QED
  BY <1>0, <1>2, <1>5, RememberedBy DEF Tracked

(* What is opened leads on: it is the directory there, on the same file     *)
(* system if that is asked for, and closes no loop.                         *)
LEMMA DeviceIs ==
  ASSUME Tracked, pc = "entry", cur.rel # <<>>, IsTuple(cur.rel),
         NEW p \in stable, ~Excused(p), Leads(cur.rel, p), Len(cur.rel) < Len(p),
         NEW id, id = Node(cur.rel).id
  PROVE  ~Elsewhere(id)
<1>0. PICK a : a = cur.rel
  OBVIOUS
<1> DEFINE n == Len(a)
           t == Under(tree, StatPath(Root, TRUE).id)
<1>1. /\ a \in Path /\ IsPrefix(a, p) /\ p \in Path /\ Len(p) \in Nat /\ n \in Nat /\ n = Len(a)
      /\ a \in stable /\ <<>> \in stable
  <2>1. a \in Path /\ IsPrefix(a, p) /\ p \in Path /\ Len(p) \in Nat /\ n \in Nat
    BY <1>0, LeadingPath, LengthIs, TupleIs DEF Tracked
  <2> QED
    BY <1>0, <2>1, AtHome DEF Tracked, Still
<1>2. SubSeq(p, 1, n) = a
  BY <1>1, PrefixIs
<1>3. n \in 1..(Len(p) - 1)
  <2>1. n # 0
    BY <1>0 DEF IsTuple
  <2>2. n < Len(p)
    BY <1>0
  <2> HIDE DEF n
  <2> QED
    BY <1>1, <2>1, <2>2
<1>4. t[a] = Node(a) /\ t[<<>>] = Node(<<>>)
  BY <1>1 DEF Tracked, Still, Node, NodeAt, Missing, Home
<1>5. stack # <<>> /\ stack[1].id = Node(<<>>).id
  <2>1. IsTuple(stack) /\ Nested(stack) /\ Len(stack) = n
    BY <1>0, Holding DEF Tracked
  <2>2. 1 \in DOMAIN stack
    <3>1. DOMAIN stack = 1..n
      BY <2>1, TupleIs
    <3> HIDE DEF n
    <3> QED
      BY <1>1, <1>3, <3>1
  <2>3. IsTuple(stack[1].rel) /\ Len(stack[1].rel) = 0
    BY <2>1, <2>2 DEF Nested, Frame
  <2>4. stack[1].rel = <<>>
    BY <2>3 DEF IsTuple
  <2>5. stack[1].id = Node(<<>>).id
    BY <2>2, <2>4, AtHome DEF Tracked, Genuine
  <2> QED
    BY <2>2, <2>5, EmptyIs
<1>6. opts.same_file_system => Device[t[a].id] = Device[t[<<>>].id]
  BY <1>2, <1>3 DEF Excused
<1> HIDE DEF t, n
<1> QED
  BY <1>0, <1>4, <1>5, <1>6 DEF Elsewhere

LEMMA OpenRemembers ==
  ASSUME Tracked, Open
  PROVE  Even' /\ Remembered'
<1>0. tree' = tree /\ opts' = opts /\ stable' = stable /\ stack' = stack
  BY WorldStays DEF Walker, Open
<1> DEFINE node == OpenChild(cur)
<1>1. /\ pc = "entry"
      /\ IF node.kind # "dir" THEN Fail("io", cur.rel) /\ UNCHANGED deferred
         ELSE IF Elsewhere(node.id) THEN Settle
         ELSE IF ClosesLoop(node.id) THEN Fail("loop", cur.rel) /\ UNCHANGED deferred
         ELSE Continue("list", [cur EXCEPT !.id = node.id]) /\ UNCHANGED deferred
  BY DEF Open
<1>2. /\ Entries(cur) /\ IsTuple(cur.rel) /\ Len(cur.rel) = Len(stack)
      /\ IsTuple(stack) /\ IsTuple(deferred) /\ Len(deferred) <= Len(stack)
  BY <1>1, Holding DEF Tracked
<1>3. Even'
  <2>1. CASE deferred' = deferred
    BY <1>0, <2>1, EvenStays DEF Tracked
  <2>2. CASE opts.contents_first /\ opts.min > 0 /\ deferred' = Append(deferred, cur)
    <3>1. Level(stack, deferred)
      BY <2>2 DEF Tracked, Even
    <3>2. Level(stack, Append(deferred, cur))
      BY <1>2, <3>1, LevelDeferred
    <3> QED
      BY <1>0, <2>2, <3>2 DEF Even
  <2>3. CASE ~(opts.contents_first /\ opts.min > 0)
    BY <1>0, <2>3 DEF Even
  <2> QED
    BY <1>1, <2>1, <2>2, <2>3 DEF Settle
<1>4. ASSUME NEW p \in stable, ~Excused(p), Leads(cur.rel, p), cur.rel # p
      PROVE  node.kind = "dir" /\ ~Elsewhere(node.id) /\ ~ClosesLoop(node.id)
  <2>1. Len(cur.rel) < Len(p) /\ cur.rel \in stable /\ IsDirAt(cur.rel)
    BY <1>2, <1>4, LeadsCases DEF Tracked
  <2>2. node.kind = "dir" /\ node.id = Node(cur.rel).id
    BY <1>1, <2>1, OpenedIs DEF Tracked
  <2> HIDE DEF node
  <2>3. ~Elsewhere(node.id)
    BY <1>1, <1>2, <1>4, <2>1, <2>2, DeviceIs DEF Elsewhere
  <2>4. ~ClosesLoop(node.id)
    <3>1. CASE cur.rel # <<>>
      BY <1>1, <2>1, <3>1, InHandIs DEF ClosesLoop
    <3>2. CASE cur.rel = <<>>
      <4>1. DOMAIN stack = {}
        BY <1>2, <3>2, EmptyIs, TupleIs
      <4> QED
        BY <4>1 DEF ClosesLoop
    <3> QED
      BY <3>1, <3>2
  <2> QED
    BY <2>2, <2>3, <2>4
<1> HIDE DEF node
<1>5. ASSUME NEW p \in stable, ~Excused(p), Known(p)
      PROVE  Known(p)'
  <2>1. ASSUME NEW why, NEW q, q = cur.rel, Fail(why, q), deferred' = deferred,
               node.kind # "dir" \/ Elsewhere(node.id) \/ ClosesLoop(node.id)
        PROVE  Known(p)'
    <3>1. seen \subseteq seen' /\ Known(q)'
      BY <2>1, ErrorNames
    <3>2. Leads(cur.rel, p) => p = q
      BY <1>4, <1>5, <2>1
    <3> QED
      BY <1>0, <1>1, <1>5, <2>1, <3>1, <3>2, StackStays
  <2>2. CASE node.kind = "dir" /\ Elsewhere(node.id)
    <3>1. Settle
      BY <1>1, <2>2
    <3>2. /\ seen \subseteq seen'
          /\ \A i \in DOMAIN deferred : \E j \in DOMAIN deferred' : deferred'[j].rel = deferred[i].rel
          /\ \A z \in stable : z = cur.rel /\ ~Excused(z) => Known(z)'
      BY <1>1, <3>1, Settled
    <3>3. Leads(cur.rel, p) => p = cur.rel
      BY <1>4, <1>5, <2>2
    <3> QED
      BY <1>0, <1>1, <1>5, <3>2, <3>3, StackStays
  <2>3. CASE pc' = "list" /\ cur' = [cur EXCEPT !.id = node.id] /\ seen' = seen /\ deferred' = deferred
    <3>1. cur'.rel = cur.rel
      BY <1>2, <2>3 DEF Entries
    <3>2. Leads(cur.rel, p) => Known(p)'
      BY <2>3, <3>1 DEF Known
    <3> QED
      BY <1>0, <1>1, <1>5, <2>3, <3>2, StackStays
  <2>4. CASE node.kind # "dir"
    <3>1. PICK q : q = cur.rel /\ Fail("io", q) /\ deferred' = deferred
      BY <1>1, <2>4
    <3> QED
      BY <2>1, <2>4, <3>1
  <2>5. CASE node.kind = "dir" /\ ~Elsewhere(node.id) /\ ClosesLoop(node.id)
    <3>1. PICK q : q = cur.rel /\ Fail("loop", q) /\ deferred' = deferred
      BY <1>1, <2>5
    <3> QED
      BY <2>1, <2>5, <3>1
  <2> QED
    BY <1>1, <2>2, <2>3, <2>4, <2>5 DEF Continue
<1> QED
  BY <1>0, <1>3, <1>5, RememberedBy DEF Tracked

(* Reading a directory: the names that lead on are to come.                 *)
LEMMA ListRemembers ==
  ASSUME Tracked, List
  PROVE  Even' /\ Remembered'
<1>0. tree' = tree /\ opts' = opts /\ stable' = stable
  BY WorldStays DEF Walker
<1> DEFINE f == [id |-> cur.id, rel |-> cur.rel, followed |-> cur.followed,
                 entries |-> EntryNames(cur.id)]
           k == Len(stack) + 1
<1>1. pc = "list" /\ stack' = Append(stack, f) /\ Settle
  BY DEF List
<1>2. f.entries = EntryNames(cur.id) /\ f.rel = cur.rel
  OBVIOUS
<1>3. /\ Entries(cur) /\ IsTuple(cur.rel) /\ Len(cur.rel) = Len(stack) /\ Len(stack) \in Nat
      /\ IsTuple(stack) /\ IsTuple(deferred) /\ Len(deferred) <= Len(stack)
  BY <1>1, Holding DEF Tracked
<1> HIDE DEF f
<1>4. /\ IsTuple(stack') /\ Len(stack') = k /\ stack'[k] = f /\ k = Len(stack) + 1
      /\ \A i \in 1..Len(stack) : stack'[i] = stack[i]
  BY <1>1, <1>3, Grown
<1> HIDE DEF k
<1>5. DOMAIN stack' = 1..k /\ DOMAIN stack = 1..Len(stack)
  BY <1>3, <1>4, TupleIs
<1>6. k \in DOMAIN stack' /\ \A i \in DOMAIN stack : i \in DOMAIN stack' /\ stack'[i] = stack[i]
  BY <1>3, <1>4, <1>5
<1>7. Even'
  <2> SUFFICES ASSUME opts.contents_first, opts.min > 0
               PROVE  Level(stack', deferred')
    BY <1>0 DEF Even
  <2>1. IsDir(cur)
    <3> SUFFICES ASSUME ~IsDir(cur)
                 PROVE  FALSE
      OBVIOUS
    <3>1. RootLink(cur) /\ ~opts.follow_links
      BY <1>1 DEF Tracked, GenuineInHand
    <3>2. cur.rel = <<>> /\ IsLink(cur) /\ opts.follow_root_links /\ cur.rel \in stable
      BY <3>1, AtHome DEF RootLink, Tracked
    <3>3. cur.node = StatPath(Root, FALSE)
      BY <1>1, <3>2 DEF Tracked, GenuineInHand
    <3> QED
      BY <3>1, <3>2, <3>3 DEF Uneven, Tracked, IsLink
  <2>2. deferred' = Append(deferred, cur)
    BY <1>1, <2>1 DEF Settle
  <2>3. Level(stack, deferred)
    BY DEF Tracked, Even
  <2>4. Level(Append(stack, f), Append(deferred, cur))
    BY <1>3, <2>3, LevelDeferred
  <2> QED
    BY <1>1, <2>2, <2>4
<1>8. /\ seen \subseteq seen'
      /\ \A i \in DOMAIN deferred : \E j \in DOMAIN deferred' : deferred'[j].rel = deferred[i].rel
      /\ \A p \in stable : p = cur.rel /\ ~Excused(p) => Known(p)'
  BY <1>1, Settled
<1>9. ASSUME NEW p \in stable, ~Excused(p), Known(p)
      PROVE  Known(p)'
  <2>1. CASE (\E e \in seen : e.rel = p) \/ \E i \in DOMAIN deferred : deferred[i].rel = p
    BY <1>8, <2>1, GivenStays
  <2>2. CASE \E i \in DOMAIN stack :
               i <= Len(p) /\ Leads(stack[i].rel, p) /\ p[i] \in stack[i].entries
    BY <1>6, <2>2 DEF Known
  <2>3. CASE Leads(cur.rel, p)
    <3>1. CASE cur.rel = p
      BY <1>8, <1>9, <3>1
    <3>2. CASE cur.rel # p
      <4>0. PICK a : a = cur.rel
        OBVIOUS
      <4>1. IsTuple(a) /\ Leads(a, p) /\ Len(a) < Len(p) /\ a \in stable /\ IsDirAt(a)
        BY <1>3, <2>3, <3>2, <4>0, LeadsCases DEF Tracked
      <4>2. PICK name : name = p[Len(a) + 1]
        OBVIOUS
      <4>3. PICK b : b = Append(a, name)
        OBVIOUS
      <4>4. NodeAt(Under(tree, Node(a).id), <<name>>) = Node(b) /\ Node(b).kind # "missing"
        BY <4>1, <4>2, <4>3, Onward DEF Tracked
      <4>5. cur.id = Node(a).id
        BY <1>1, <4>0, <4>1 DEF Tracked, GenuineInHand
      <4>6. <<name>> \in DOMAIN Under(tree, cur.id)
        BY <4>4, <4>5 DEF NodeAt, Missing
      <4>7. name \in EntryNames(cur.id)
        BY <4>6 DEF EntryNames
      <4>8. k = Len(a) + 1 /\ k <= Len(p) /\ Len(p) \in Nat
        BY <1>3, <1>4, <4>0, <4>1, LengthIs DEF Tracked
      <4>9. k <= Len(p) /\ Leads(stack'[k].rel, p) /\ p[k] \in stack'[k].entries
        BY <1>2, <1>4, <2>3, <4>2, <4>7, <4>8
      <4> QED
        BY <1>6, <4>9 DEF Known
    <3> QED
      BY <3>1, <3>2
  <2> QED
    BY <1>1, <1>9, <2>1, <2>2, <2>3 DEF Known
<1> QED
  BY <1>0, <1>7, <1>9, RememberedBy DEF Tracked

LEMMA WalkerRemembers ==
  ASSUME Tracked, Walker, ~SkipCurrentDir
  PROVE  Even' /\ Remembered'
BY CallRemembers, RootRemembers, PayRemembers, LeaveRemembers, TakeRemembers, FinishRemembers,
   FollowRemembers, PassRemembers, OpenRemembers, ListRemembers DEF Walker

-----------------------------------------------------------------------------
(* What others leave alone.                                                *)
Leaves ==
  /\ stable' \subseteq stable /\ opts' = opts
  /\ stable' # {} => Home' = Home /\ StatPath(Root, FALSE)' = StatPath(Root, FALSE)
  /\ \A p \in stable' : \A q \in Path : IsPrefix(q, p) => q \in stable' /\ Node(q)' = Node(q)

LEMMA PrefixParts ==
  ASSUME NEW p \in Path, NEW q \in Path, IsPrefix(q, p), NEW n \in 0..Len(q)
  PROVE  n \in 0..Len(p) /\ SubSeq(q, 1, n) = SubSeq(p, 1, n)
<1>1. Len(q) \in 0..Len(p) /\ q = SubSeq(p, 1, Len(q)) /\ Len(p) \in Nat /\ Len(q) \in Nat
  BY PrefixIs, LenProperties DEF Path
<1>2. \A i \in 1..Len(q) : q[i] = p[i]
  BY <1>1, PartIs
<1>3. n \in 0..Len(p) /\ n \in Nat /\ n <= Len(q)
  BY <1>1
<1> DEFINE a == SubSeq(q, 1, n)
           b == SubSeq(p, 1, n)
<1>4. a \in Path /\ Len(a) = n /\ \A i \in 1..n : a[i] = q[i]
  BY PartIs
<1>5. b \in Path /\ Len(b) = n /\ \A i \in 1..n : b[i] = p[i]
  BY <1>3, PartIs
<1> HIDE DEF a, b
<1>6. \A i \in 1..n : a[i] = b[i]
  BY <1>1, <1>2, <1>3, <1>4, <1>5
<1>7. a = b
  BY <1>4, <1>5, <1>6, SeqEqual DEF Path
<1> QED
  BY <1>3, <1>7 DEF a, b

LEMMA UntouchedIs ==
  ASSUME Still, NEW trees, Untouched(trees) # {}
  PROVE  /\ Untouched(trees) \subseteq stable
         /\ \A follow \in BOOLEAN : StatIn(trees, Root, follow) = StatPath(Root, follow)
         /\ \A p \in Untouched(trees) : \A q \in Path : IsPrefix(q, p) =>
              q \in Untouched(trees) /\ NodeAt(Under(trees, Home.id), q) = Node(q)
<1> DEFINE x == Under(trees, Home.id)
           y == Under(tree, Home.id)
           same(p) == \A n \in 0..Len(p) : NodeAt(x, SubSeq(p, 1, n)) = NodeAt(y, SubSeq(p, 1, n))
<1>1. \A follow \in BOOLEAN : StatIn(trees, Root, follow) = StatPath(Root, follow)
  BY DEF Untouched
<1>2. Untouched(trees) = {p \in stable : same(p)}
  BY <1>1 DEF Untouched, Home
<1>3. \A q : Node(q) = NodeAt(y, q)
  BY DEF Node
<1> HIDE DEF x, y
<1>4. ASSUME NEW p \in Untouched(trees), NEW q \in Path, IsPrefix(q, p)
      PROVE  q \in Untouched(trees) /\ NodeAt(x, q) = Node(q)
  <2>1. p \in stable /\ same(p) /\ p \in Path /\ q \in stable
    BY <1>2, <1>4 DEF Still
  <2>2. Len(q) \in 0..Len(p) /\ q = SubSeq(p, 1, Len(q))
    BY <1>4, <2>1, PrefixIs
  <2>3. NodeAt(x, q) = NodeAt(y, q)
    BY <2>1, <2>2
  <2>4. same(q)
    BY <1>4, <2>1, PrefixParts
  <2> QED
    BY <1>2, <1>3, <2>1, <2>3, <2>4
<1> QED
  BY <1>1, <1>2, <1>4 DEF x

LEMMA OtherLeaves ==
  ASSUME Other, Still
  PROVE  Leaves
<1>1. stable' = Untouched(tree') /\ opts' = opts
  BY DEF Other, Change
<1>2. CASE stable' = {}
  BY <1>1, <1>2 DEF Leaves
<1>3. CASE stable' # {}
  <2>1. /\ stable' \subseteq stable
        /\ \A follow \in BOOLEAN : StatIn(tree', Root, follow) = StatPath(Root, follow)
        /\ \A p \in stable' : \A q \in Path : IsPrefix(q, p) =>
             q \in stable' /\ NodeAt(Under(tree', Home.id), q) = Node(q)
    BY <1>1, <1>3, UntouchedIs
  <2>2. \A follow \in BOOLEAN : StatPath(Root, follow)' = StatPath(Root, follow)
    BY <2>1 DEF StatPath
  <2>3. Home' = Home /\ StatPath(Root, FALSE)' = StatPath(Root, FALSE)
    BY <2>2 DEF Home
  <2>4. \A q : Node(q)' = NodeAt(Under(tree', Home.id), q)
    BY <2>3 DEF Node
  <2> QED
    BY <1>1, <2>1, <2>3, <2>4 DEF Leaves
<1> QED
  BY <1>2, <1>3

LEMMA NothingLeaves ==
  ASSUME tree' = tree, opts' = opts, stable' = stable, Still
  PROVE  Leaves
BY SameWorld DEF Leaves, Still

LEMMA LeftStill ==
  ASSUME Leaves, Still
  PROVE  /\ Still'
         /\ \A p \in stable' : p \in stable /\ Node(p)' = Node(p) /\ (IsDirAt(p)' <=> IsDirAt(p))
<1>1. ASSUME NEW p \in stable'
      PROVE  /\ p \in stable /\ p \in Path /\ IsPrefix(p, p) /\ Node(p)' = Node(p)
             /\ IsDirAt(p)' <=> IsDirAt(p)
  <2>1. p \in stable /\ p \in Path /\ IsPrefix(p, p)
    BY NothingAfter DEF Leaves, Still
  <2>2. Node(p)' = Node(p)
    BY <2>1 DEF Leaves
  <2> QED
    BY <2>1, <2>2 DEF IsDirAt
<1>2. \A p \in stable' : \A q \in Path : IsPrefix(q, p) => q \in stable'
  BY DEF Leaves
<1>3. stable' # {} => Home'.kind = "dir"
  BY DEF Leaves, Still
<1>4. \A p \in stable' : Node(p)'.kind # "missing"
  BY <1>1 DEF Still
<1>5. \A p \in stable' : \A q \in Path : IsPrefix(q, p) => (q # p => IsDirAt(q)')
  BY <1>1, <1>2 DEF Still
<1>6. Still'
  BY <1>1, <1>2, <1>3, <1>4, <1>5 DEF Still
<1> QED
  BY <1>1, <1>6

LEMMA LeftExcused ==
  ASSUME Leaves, Still, NEW p \in stable'
  PROVE  Excused(p) => Excused(p)'
<1> DEFINE t == Under(tree, StatPath(Root, TRUE).id)
           crosses == \E n \in 1..(Len(p) - 1) : Device[t[SubSeq(p, 1, n)].id] # Device[t[<<>>].id]
<1>1. stable' # {} /\ p \in stable /\ p \in Path /\ Len(p) \in Nat
  BY LengthIs DEF Leaves
<1>2. /\ Home' = Home /\ StatPath(Root, FALSE)' = StatPath(Root, FALSE)
      /\ opts' = opts
  BY <1>1 DEF Leaves
<1>3. ASSUME NEW q \in Path, IsPrefix(q, p)
      PROVE  t[q] = Node(q) /\ t'[q] = Node(q)
  <2>1. q \in stable /\ Node(q).kind # "missing" /\ Node(q)' = Node(q)
    BY <1>1, <1>3 DEF Leaves, Still
  <2>2. Node(q) = NodeAt(t, q)
    BY DEF Node, Home
  <2>3. Node(q)' = NodeAt(t', q)
    BY DEF Node, Home
  <2> HIDE DEF t
  <2> QED
    BY <2>1, <2>2, <2>3 DEF NodeAt, Missing
<1>4. <<>> \in Path /\ IsPrefix(<<>>, p)
  BY <1>1, NothingAfter
<1>5. \A n \in 1..(Len(p) - 1) : SubSeq(p, 1, n) \in Path /\ IsPrefix(SubSeq(p, 1, n), p)
  <2>1. \A n \in 1..(Len(p) - 1) : n \in 0..Len(p)
    BY <1>1
  <2> QED
    BY <1>1, <2>1, PartIs
<1>6. crosses => crosses'
  <2>1. \A n \in 1..(Len(p) - 1) : t'[SubSeq(p, 1, n)] = t[SubSeq(p, 1, n)]
    BY <1>3, <1>5
  <2>2. t'[<<>>] = t[<<>>]
    BY <1>3, <1>4
  <2> HIDE DEF t
  <2> QED
    BY <2>1, <2>2
<1>7. Excused(p) <=>
        \/ Len(p) \notin opts.min..opts.max
        \/ /\ p # <<>> /\ StatPath(Root, FALSE).kind # "dir"
           /\ StatPath(Root, FALSE).kind = "link" => ~opts.follow_links /\ ~opts.follow_root_links
        \/ opts.same_file_system /\ crosses
  BY DEF Excused
<1>8. Excused(p)' <=>
        \/ Len(p) \notin opts'.min..opts'.max
        \/ /\ p # <<>> /\ StatPath(Root, FALSE)'.kind # "dir"
           /\ StatPath(Root, FALSE)'.kind = "link" => ~opts'.follow_links /\ ~opts'.follow_root_links
        \/ opts'.same_file_system /\ crosses'
  BY DEF Excused
<1> HIDE DEF crosses
<1> QED
  BY <1>2, <1>6, <1>7, <1>8

(* What the walk remembers, it remembers whatever others do.                *)
LEMMA LeftKept ==
  ASSUME Leaves, Kept,
         UNCHANGED <<pc, cur, stack, deferred, seen, skipped>>
  PROVE  Kept'
<1>0. /\ pc' = pc /\ cur' = cur /\ stack' = stack /\ deferred' = deferred /\ seen' = seen
      /\ skipped' = skipped /\ opts' = opts
  BY DEF Leaves
<1>1. Still /\ Over /\ opts \in Options
  BY DEF Kept
<1>2. /\ Still'
      /\ \A p \in stable' : p \in stable /\ Node(p)' = Node(p) /\ (IsDirAt(p)' <=> IsDirAt(p))
  BY <1>1, LeftStill
<1>3. Over'
  BY <1>0, <1>1 DEF Over
<1>4. ASSUME Genuine
      PROVE  Genuine'
  <2>1. ASSUME NEW i \in DOMAIN stack, NEW a, a = stack[i].rel, a \in stable', IsDirAt(a)'
        PROVE  stack[i].id = Node(a)'.id
    BY <1>2, <1>4, <2>1 DEF Genuine
  <2> QED
    BY <1>0, <2>1 DEF Genuine
<1>5. ASSUME GenuineInHand
      PROVE  GenuineInHand'
  <2>0. PICK a : a = cur.rel
    OBVIOUS
  <2>1. (pc = "list" => IsDir(cur) \/ (RootLink(cur) /\ ~opts.follow_links))'
    BY <1>0, <1>5 DEF GenuineInHand, IsDir, RootLink, IsLink
  <2>2. CASE pc \in {"entry", "list"} /\ a \in stable'
    <3>1. /\ cur.followed => opts.follow_links
          /\ a = <<>> => IF cur.followed THEN IsDir(cur) ELSE cur.node = StatPath(Root, FALSE)
          /\ a # <<>> => IF cur.followed THEN ~IsDirAt(a) ELSE cur.node = Node(a)
          /\ pc = "list" /\ IsDirAt(a) => cur.id = Node(a).id
      BY <1>2, <1>5, <2>0, <2>2 DEF GenuineInHand
    <3>2. StatPath(Root, FALSE)' = StatPath(Root, FALSE) /\ IsDir(cur)' = IsDir(cur)
      BY <1>0, <2>2 DEF Leaves, IsDir
    <3>3. /\ cur'.followed => opts'.follow_links
          /\ a = <<>> => IF cur'.followed THEN IsDir(cur)' ELSE cur'.node = StatPath(Root, FALSE)'
          /\ a # <<>> => IF cur'.followed THEN ~IsDirAt(a)' ELSE cur'.node = Node(a)'
          /\ pc' = "list" /\ IsDirAt(a)' => cur'.id = Node(a)'.id
      BY <1>0, <1>2, <2>2, <3>1, <3>2
    <3>4. a = cur'.rel /\ Node(cur.rel)' = Node(a)' /\ (IsDirAt(cur.rel)' <=> IsDirAt(a)')
      BY <1>0, <2>0 DEF Node, IsDirAt
    <3> QED
      BY <2>1, <3>3, <3>4 DEF GenuineInHand
  <2>3. CASE ~(pc \in {"entry", "list"} /\ a \in stable')
    BY <1>0, <2>0, <2>1, <2>3 DEF GenuineInHand
  <2> QED
    BY <2>2, <2>3
<1>6. ASSUME ~skipped', stable' # {}, ~Uneven'
      PROVE  Even' /\ Remembered'
  <2>1. stable # {} /\ ~Uneven
    BY <1>6 DEF Leaves, Uneven
  <2>2. Even /\ Remembered
    BY <1>0, <1>6, <2>1 DEF Kept
  <2>3. Even'
    BY <1>0, <2>2, EvenStays
  <2>4. ASSUME NEW p \in stable'
        PROVE  Excused(p)' \/ Known(p)'
    <3>1. Excused(p) \/ Known(p)
      BY <1>2, <2>2 DEF Remembered
    <3>2. Excused(p) => Excused(p)'
      BY <1>1, LeftExcused
    <3>3. Known(p) => Known(p)'
      BY <1>0 DEF Known
    <3> QED
      BY <3>1, <3>2, <3>3
  <2> QED
    BY <2>3, <2>4 DEF Remembered
<1> QED
  BY <1>0, <1>1, <1>2, <1>3, <1>4, <1>5, <1>6 DEF Kept

(* The walk is over when there is nothing left to read or to give.          *)
LEMMA OverIs ==
  ASSUME Ordered, Walker
  PROVE  Over'
<1>1. ASSUME pc' = "done"
      PROVE  stack' = <<>> /\ deferred' = <<>>
  <2>1. RootEntry \/ Finish
    BY <1>1 DEF Walker, Call, SkipCurrentDir, Pay, Leave, Take, ChildEntry, Follow, Pass, Open, List,
                Settle, Yield, Fail, Return, Continue
  <2>2. CASE RootEntry
    BY <2>2 DEF RootEntry, Ordered
  <2>3. CASE Finish
    <3>1. stack = <<>> /\ stack' = stack /\ pc = "next" /\ Paid
      BY <2>3 DEF Finish
    <3>2. IsTuple(deferred') /\ Len(deferred') <= 0 /\ Len(deferred') \in Nat
      BY <3>1, PaidKeeps, EmptyIs, TupleIs DEF Waiting
    <3>3. Len(deferred') = 0
      BY <3>2
    <3>4. deferred' = <<>>
      BY <3>2, <3>3 DEF IsTuple
    <3> QED
      BY <3>1, <3>4
  <2> QED
    BY <2>1, <2>2, <2>3
<1> QED
  BY <1>1 DEF Over

LEMMA WalkerKept ==
  ASSUME Ordered, Forest(tree), Kept, Walker
  PROVE  Kept'
<1>1. tree' = tree /\ opts' = opts /\ stable' = stable
  BY WorldStays
<1>2. opts' \in Options /\ Still' /\ Over' /\ (Uneven' <=> Uneven)
  BY <1>1, SameWorld, OverIs DEF Kept
<1>3. CASE SkipCurrentDir
  <2>1. skipped'
    BY <1>3 DEF SkipCurrentDir
  <2> QED
    BY <1>2, <2>1 DEF Kept
<1>4. CASE ~SkipCurrentDir
  <2>1. skipped' = skipped
    BY <1>4 DEF Walker, Call, RootEntry, Pay, Leave, Take, Finish, Follow, Pass, Open, List
  <2>2. ASSUME ~skipped'
        PROVE  Genuine' /\ GenuineInHand'
    BY <2>1, <2>2, WalkerGenuine DEF Kept
  <2>3. ASSUME ~skipped', stable' # {}, ~Uneven'
        PROVE  Even' /\ Remembered'
    <3>1. Tracked
      BY <1>1, <1>2, <2>1, <2>3 DEF Kept, Tracked
    <3> QED
      BY <1>4, <3>1, WalkerRemembers
  <2> QED
    BY <1>2, <2>2, <2>3 DEF Kept
<1> QED
  BY <1>3, <1>4

(* What leads to anything the host keeps is a directory.                    *)
LEMMA OnTheWay ==
  ASSUME NEW t, HostDirectory(t), HostTree(t),
         NEW s \in DOMAIN t, NEW q \in Path, IsPrefix(q, s), q # s
  PROVE  t[q].kind = "dir"
<1>1. s \in Path
  BY HostTreeAbove
<1>2. /\ Len(s) \in Nat /\ Len(q) \in Nat /\ Len(q) \in 0..Len(s) /\ q = SubSeq(s, 1, Len(q))
      /\ \A i \in 1..Len(q) : q[i] = s[i]
  BY <1>1, PrefixIs, PartIs, LenProperties DEF Path
<1>3. Len(q) # Len(s)
  BY <1>1, <1>2, SeqEqual DEF Path
<1>4. PICK n \in 0..Len(s) : n = Len(q) + 1
  BY <1>2, <1>3
<1>5. PICK b : b = SubSeq(s, 1, n)
  OBVIOUS
<1>6. b \in Path /\ Len(b) = n /\ b \in DOMAIN t /\ \A i \in 1..n : b[i] = s[i]
  <2>1. b \in DOMAIN t
    BY <1>4, <1>5 DEF HostTree
  <2> QED
    BY <1>1, <1>4, <1>5, <2>1, PartIs
<1>7. b # <<>>
  BY <1>2, <1>4, <1>6, EmptyIs
<1>8. Is(t, Front(b), "dir")
  BY <1>6, <1>7 DEF HostDirectory
<1>9. Front(b) = q
  <2> DEFINE f == Front(b)
  <2>1. IsTuple(b) /\ f \in Path
    BY <1>6, <1>7, TupleFacts, FrontIs DEF Path
  <2>2. Len(f) = n - 1 /\ \A i \in 1..(n - 1) : f[i] = b[i]
    BY <1>6, <1>7, <2>1, Shrunk
  <2> HIDE DEF f
  <2>3. Len(f) = Len(q)
    BY <1>2, <1>4, <2>2
  <2>4. \A i \in 1..Len(q) : f[i] = q[i]
    BY <1>2, <1>4, <1>6, <2>2
  <2>5. f = q
    BY <2>1, <2>3, <2>4, SeqEqual DEF Path
  <2> QED
    BY <2>5 DEF f
<1> QED
  BY <1>8, <1>9 DEF Is

LEMMA FirstStill ==
  ASSUME Init, Forest(tree)
  PROVE  Still
<1>1. stable = IF Home.kind = "dir" THEN DOMAIN Under(tree, Home.id) ELSE {}
  BY DEF Init, Stable, Home, StatPath
<1>2. ASSUME NEW p \in stable
      PROVE  /\ p \in Path /\ Node(p).kind # "missing"
             /\ \A q \in Path : IsPrefix(q, p) => q \in stable /\ (q # p => IsDirAt(q))
  <2>1. /\ Home.kind = "dir" /\ p \in DOMAIN Under(tree, Home.id)
        /\ stable = DOMAIN Under(tree, Home.id)
    BY <1>1, <1>2
  <2>2. DOMAIN <<>> = {}
    BY EmptyIs
  <2>3. PICK m \in Mount : \E r \in DOMAIN tree[m] : tree[m][r] = Directory(Home.id)
    BY <2>1, <2>2, UnderNone
  <2>4. PICK r \in DOMAIN tree[m] : tree[m][r] = Directory(Home.id)
    BY <2>3
  <2>5. Under(tree, Home.id) = Subtree(tree[m], r)
    BY <2>4, UnderPlace
  <2>6. HostTree(tree[m]) /\ r \in Path /\ AboveToo(tree[m])
    BY HostTreeAbove DEF Forest
  <2>7. /\ HostDirectory(tree[m])
        /\ \A s \in DOMAIN tree[m] : tree[m][s].kind \in {"dir", "file", "link"}
    BY WalkAssumption DEF Init
  <2>8. /\ \A x : x \in stable <=> x \in Path /\ r \o x \in DOMAIN tree[m]
        /\ \A x \in stable : Node(x) = tree[m][r \o x]
    <3>1. /\ \A x : x \in stable <=> x \in Path /\ r \o x \in DOMAIN tree[m]
          /\ \A x \in stable : Under(tree, Home.id)[x] = tree[m][r \o x]
      BY <2>1, <2>5, <2>6, SubtreeIs
    <3> QED
      BY <2>1, <3>1 DEF Node, NodeAt
  <2>9. p \in Path /\ Node(p).kind # "missing"
    BY <2>7, <2>8
  <2>10. ASSUME NEW q \in Path, IsPrefix(q, p)
         PROVE  q \in stable /\ (q # p => IsDirAt(q))
    <3>1. PICK x \in Path : p = q \o x
      BY <2>9, <2>10, Splits
    <3>2. r \o p = (r \o q) \o x /\ r \o q \in Path
      BY <2>6, <3>1, Associates, Continued
    <3>3. IsPrefix(r \o q, r \o p)
      BY <3>2, Continued
    <3>4. r \o p \in DOMAIN tree[m]
      BY <2>8
    <3>5. q \in stable
      BY <2>6, <2>8, <3>2, <3>3, <3>4 DEF AboveToo
    <3>6. ASSUME q # p
          PROVE  IsDirAt(q)
      <4>1. r \o q # r \o p
        BY <2>6, <2>9, <3>6, OneAfter
      <4>2. tree[m][r \o q].kind = "dir"
        BY <2>6, <2>7, <3>2, <3>3, <3>4, <4>1, OnTheWay
      <4> QED
        BY <2>8, <3>5, <4>2 DEF IsDirAt
    <3> QED
      BY <3>5, <3>6
  <2> QED
    BY <2>9, <2>10
<1> QED
  BY <1>1, <1>2 DEF Still

LEMMA InitKept ==
  ASSUME Init, Forest(tree)
  PROVE  Kept
<1>1. pc = "start" /\ stack = <<>> /\ deferred = <<>> /\ opts \in Options
  BY WalkAssumption DEF Init
<1>2. Even
  BY <1>1, EmptyIs DEF Even, Level
<1>3. Genuine
  BY <1>1, EmptyIs DEF Genuine
<1>4. GenuineInHand /\ Over /\ Remembered
  BY <1>1 DEF GenuineInHand, Over, Remembered, Known
<1> QED
  BY <1>1, <1>2, <1>3, <1>4, FirstStill DEF Kept

(* walk.rs:431-487, 563-715: every path that has been left alone is on the  *)
(* walk's stacks, in its hand, or has been given.                          *)
THEOREM KeptHolds == Spec => []Kept
<1>1. Init => Kept
  <2> SUFFICES ASSUME Init
               PROVE  Kept
    OBVIOUS
  <2>1. Forest(tree)
    BY WalkAssumption, HostAssumption DEF Init, Forest
  <2> QED
    BY <2>1, InitKept
<1>2. Inv /\ Inside /\ Kept /\ [Next]_vars => Kept'
  <2> SUFFICES ASSUME Inv, Inside, Kept, [Next]_vars
               PROVE  Kept'
    OBVIOUS
  <2>1. CASE Walker
    BY <2>1, WalkerKept DEF Inv, Inside
  <2>2. CASE Other
    <3>1. Leaves
      BY <2>2, OtherLeaves DEF Kept
    <3>2. UNCHANGED <<pc, cur, stack, deferred, seen, skipped>>
      BY <2>2 DEF Other
    <3> QED
      BY <3>1, <3>2, LeftKept
  <2>3. CASE UNCHANGED vars
    <3>1. Leaves
      BY <2>3, NothingLeaves DEF Kept, vars
    <3>2. UNCHANGED <<pc, cur, stack, deferred, seen, skipped>>
      BY <2>3 DEF vars
    <3> QED
      BY <3>1, <3>2, LeftKept
  <2> QED
    BY <2>1, <2>2, <2>3 DEF Next, Ended
<1> QED
  BY <1>1, <1>2, InvHolds, InsideHolds, PTL DEF Spec

(* walk.rs:431-487, 563-715: when the walk is over, everything beneath the  *)
(* root's directory that nobody has touched, and that is to be given, has   *)
(* been, as an entry or in an error, whatever others renamed, removed or   *)
(* put there meanwhile.                                                    *)
THEOREM AllGiven == Spec => []NothingLost
<1>1. Kept => NothingLost
  <2> SUFFICES ASSUME Kept, pc = "done", ~skipped, ~Uneven, NEW p \in stable
               PROVE  Excused(p) \/ \E e \in seen : e.rel = p
    BY DEF NothingLost
  <2>1. stack = <<>> /\ deferred = <<>> /\ Remembered
    BY DEF Kept, Over
  <2>2. DOMAIN stack = {} /\ DOMAIN deferred = {}
    BY <2>1, EmptyIs
  <2> QED
    BY <2>1, <2>2 DEF Remembered, Known
<1> QED
  BY <1>1, KeptHolds, PTL

=============================================================================
