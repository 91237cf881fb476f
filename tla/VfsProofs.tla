------------------------------ MODULE VfsProofs ------------------------------
(***************************************************************************)
(* Theorems about Vfs, for any mounts, trees, paths, targets and number of *)
(* processes.                                                              *)
(*                                                                         *)
(* The access mode comes first.  What follows is about where walks lead:   *)
(* paths as sequences; walks as functions that a rule defines and that end *)
(* from everywhere; the two walks side by side, beneath a mount that none  *)
(* is nested in; the way to a mount point; what the host and `symlink` put *)
(* into a tree.  The last theorems are that the trees stay trees, that the *)
(* two ways of `at` agree, and that a link leads to its target.            *)
(***************************************************************************)
EXTENDS Vfs, SequenceTheorems, WellFoundedInduction, TLAPS

-----------------------------------------------------------------------------
(* Operations on two paths, and `symlink`, look at the access mode when     *)
(* they locate their paths and not again: what a process is about to do is *)
(* located in a writable mount.  The operations of `at` look again.        *)
Cleared ==
  \A p \in Proc :
    job[p] # None /\ job[p].op \notin AtOps => job[p].on \in Writable

IInv ==
  /\ tree = [m \in Mount |-> tree[m]]
  /\ job = [p \in Proc |-> job[p]]
  /\ Cleared

ReadOnlyStays == \A m \in Mount \ Writable : tree'[m] = tree[m]

(* What becomes of one writable mount changes no other (Becomes).           *)
LEMMA OneMount ==
  ASSUME tree = [m \in Mount |-> tree[m]],
         NEW n, NEW outcomes, Becomes(n, outcomes),
         outcomes # {} => n \in Writable
  PROVE  /\ tree' = [m \in Mount |-> tree'[m]]
         /\ ReadOnlyStays
<1>1. CASE outcomes = {}
  <2>1. tree' = tree
    BY <1>1 DEF Becomes
  <2> QED
    BY <2>1 DEF ReadOnlyStays
<1>2. CASE outcomes # {}
  <2>1. PICK t \in outcomes : tree' = [tree EXCEPT ![n] = t]
    BY <1>2 DEF Becomes
  <2>2. n \in Writable
    BY <1>2
  <2>3. tree' = [m \in Mount |-> IF m = n THEN t ELSE tree[m]]
    BY <2>1
  <2> QED
    BY <2>2, <2>3 DEF ReadOnlyStays
<1> QED
  BY <1>1, <1>2

(* A process that has done its operation has nothing located (Done).        *)
LEMMA NothingLeft ==
  ASSUME job = [p \in Proc |-> job[p]], Cleared, NEW q \in Proc, Done(q)
  PROVE  job' = [p \in Proc |-> job'[p]] /\ Cleared'
<1>1. job' = [p \in Proc |-> IF p = q THEN None ELSE job[p]]
  BY DEF Done
<1> QED
  BY <1>1 DEF Cleared

(* A process that has located something has located it where it may write,  *)
(* or will look again (Plan).                                              *)
LEMMA Planned ==
  ASSUME job = [p \in Proc |-> job[p]], Cleared, NEW q \in Proc, NEW what, Plan(q, what),
         what.op \notin AtOps => what.on \in Writable
  PROVE  job' = [p \in Proc |-> job'[p]] /\ Cleared'
<1>1. job' = [p \in Proc |-> IF p = q THEN what ELSE job[p]]
  BY DEF Plan
<1> QED
  BY <1>1 DEF Cleared

(* Operations of `at` that locate their path first, with nothing changed.   *)
LEMMA Locating ==
  ASSUME IInv, NEW p \in Proc, NEW q \in Paths,
         \/ \E op \in AtOps : AtLocate(p, op, q)
         \/ \E to \in Paths : RenameLocate(p, q, to) \/ HardLinkLocate(p, q, to)
                              \/ CopyLocate(p, q, to)
         \/ \E target \in Targets : SymlinkLocate(p, q, target)
  PROVE  IInv' /\ tree' = tree
<1> DEFINE May(what) == what.op \notin AtOps => what.on \in Writable
<1>1. CASE \E op \in AtOps : AtLocate(p, op, q)
  <2>1. PICK op \in AtOps : AtLocate(p, op, q)
    BY <1>1
  <2>2. PICK v : Plan(p, [op |-> op, on |-> v.mount, rel |-> v.rel, named |-> q])
    BY <2>1 DEF AtLocate
  <2>3. tree' = tree
    BY <2>1 DEF AtLocate
  <2> QED
    BY <2>2, <2>3, Planned DEF IInv
<1>2. ASSUME NEW to \in Paths, RenameLocate(p, q, to)
      PROVE  IInv' /\ tree' = tree
  <2>1. PICK f, g : /\ f.mount \in Writable
                    /\ Plan(p, [op |-> "rename", on |-> f.mount, rel |-> f.rel, to |-> g.rel])
    BY <1>2 DEF RenameLocate
  <2>2. tree' = tree
    BY <1>2 DEF RenameLocate
  <2> QED
    BY <2>1, <2>2, Planned DEF IInv
<1>3. ASSUME NEW to \in Paths, HardLinkLocate(p, q, to)
      PROVE  IInv' /\ tree' = tree
  <2>1. PICK f, g : /\ f.mount = g.mount /\ g.mount \in Writable
                    /\ Plan(p, [op |-> "hard_link", on |-> f.mount, rel |-> f.rel, to |-> g.rel])
    BY <1>3 DEF HardLinkLocate
  <2>2. tree' = tree
    BY <1>3 DEF HardLinkLocate
  <2> QED
    BY <2>1, <2>2, Planned DEF IInv
<1>4. ASSUME NEW to \in Paths, CopyLocate(p, q, to)
      PROVE  IInv' /\ tree' = tree
  <2>1. PICK f, g : /\ g.mount \in Writable
                    /\ Plan(p, [op |-> "copy", from |-> f.mount, source |-> f.rel,
                                on |-> g.mount, rel |-> g.rel])
    BY <1>4 DEF CopyLocate
  <2>2. tree' = tree
    BY <1>4 DEF CopyLocate
  <2> QED
    BY <2>1, <2>2, Planned DEF IInv
<1>5. ASSUME NEW target \in Targets, SymlinkLocate(p, q, target)
      PROVE  IInv' /\ tree' = tree
  <2>1. Stored(q, target) # None /\ Plan(p, Stored(q, target)) /\ tree' = tree
    BY <1>5 DEF SymlinkLocate
  <2>2. Stored(q, target).on \in Writable
    <3> DEFINE link == Locate(tree, q, FALSE)
    <3>1. link.mount \in Writable /\ Stored(q, target).on = link.mount
      BY <2>1 DEF Stored
    <3> QED
      BY <3>1
  <2> QED
    BY <2>1, <2>2, Planned DEF IInv
<1> QED
  BY <1>1, <1>2, <1>3, <1>4, <1>5

(* What a process does with what it has located.                            *)
LEMMA Performing ==
  ASSUME IInv, NEW p \in Proc, Perform(p)
  PROVE  IInv' /\ ReadOnlyStays
<1>1. PICK outcomes : /\ Becomes(job[p].on, outcomes)
                      /\ outcomes # {} => job[p].on \in Writable
  <2>1. CASE AtPerform(p)
    BY <2>1 DEF AtPerform
  <2>2. ASSUME job[p] # None, job[p].op \notin AtOps
        PROVE  job[p].on \in Writable
    BY <2>2 DEF IInv, Cleared
  <2>3. CASE RenamePerform(p)
    <3>1. job[p] # None /\ job[p].op \notin AtOps
      BY <2>3 DEF RenamePerform, Idle, AtOps
    <3> QED
      BY <2>2, <2>3, <3>1 DEF RenamePerform
  <2>4. CASE HardLinkPerform(p)
    <3>1. job[p] # None /\ job[p].op \notin AtOps
      BY <2>4 DEF HardLinkPerform, Idle, AtOps
    <3> QED
      BY <2>2, <2>4, <3>1 DEF HardLinkPerform
  <2>5. CASE CopyPerform(p)
    <3>1. job[p] # None /\ job[p].op \notin AtOps
      BY <2>5 DEF CopyPerform, Idle, AtOps
    <3> QED
      BY <2>2, <2>5, <3>1 DEF CopyPerform
  <2>6. CASE SymlinkPerform(p)
    <3>1. job[p] # None /\ job[p].op \notin AtOps
      BY <2>6 DEF SymlinkPerform, Idle, AtOps
    <3> QED
      BY <2>2, <2>6, <3>1 DEF SymlinkPerform
  <2> QED
    BY <2>1, <2>3, <2>4, <2>5, <2>6 DEF Perform
<1>2. Done(p)
  BY DEF Perform, AtPerform, RenamePerform, HardLinkPerform, CopyPerform, SymlinkPerform
<1>3. tree' = [m \in Mount |-> tree'[m]] /\ ReadOnlyStays
  BY <1>1, OneMount DEF IInv
<1>4. job' = [q \in Proc |-> job'[q]] /\ Cleared'
  BY <1>2, NothingLeft DEF IInv
<1> QED
  BY <1>3, <1>4 DEF IInv

(* A path given to the host in one step (Vfs::at).                          *)
LEMMA InOneStep ==
  ASSUME IInv, NEW p \in Proc, NEW op \in AtOps, NEW q \in Paths, AtDirect(p, op, q)
  PROVE  IInv' /\ ReadOnlyStays
<1>1. Resolve(q) \in Writable
  BY DEF AtDirect, Direct
<1>2. Becomes(Resolve(q), Effect(Resolve(q), op, Relative(Resolve(q), q)))
  BY DEF AtDirect
<1>3. tree' = [m \in Mount |-> tree'[m]] /\ ReadOnlyStays
  BY <1>1, <1>2, OneMount DEF IInv
<1>4. job' = job
  BY DEF AtDirect
<1> QED
  BY <1>3, <1>4 DEF IInv, Cleared

(* Every step keeps the invariant, and what is read-only as it is.         *)
LEMMA NextStays ==
  ASSUME IInv, [Next]_vars
  PROVE  IInv' /\ ReadOnlyStays
<1>1. CASE UNCHANGED vars
  BY <1>1 DEF vars, IInv, Cleared, ReadOnlyStays
<1>2. ASSUME NEW p \in Proc, NEW q \in Paths, NEW op \in AtOps, AtDirect(p, op, q)
      PROVE  IInv' /\ ReadOnlyStays
  BY <1>2, InOneStep
<1>3. ASSUME NEW p \in Proc, NEW q \in Paths,
             \/ \E op \in AtOps : AtLocate(p, op, q)
             \/ \E to \in Paths : RenameLocate(p, q, to) \/ HardLinkLocate(p, q, to)
                                  \/ CopyLocate(p, q, to)
             \/ \E target \in Targets : SymlinkLocate(p, q, target)
      PROVE  IInv' /\ ReadOnlyStays
  BY <1>3, Locating DEF ReadOnlyStays
<1>4. ASSUME NEW p \in Proc, Perform(p)
      PROVE  IInv' /\ ReadOnlyStays
  BY <1>4, Performing
<1>5. CASE Quiet
  BY <1>1, <1>5 DEF Quiet
<1> QED
  BY <1>1, <1>2, <1>3, <1>4, <1>5 DEF Next

(* Every reachable state has its trees and its jobs, and every job that     *)
(* will not look at the access mode again is in a writable mount.          *)
THEOREM Clearance == Spec => []IInv
<1>1. Init => IInv
  BY VfsAssumption DEF Init, IInv, Cleared
<1>2. IInv /\ [Next]_vars => IInv'
  BY NextStays
<1> QED
  BY <1>1, <1>2, PTL DEF Spec

(* No operation of any process ever changes a read-only mount, whatever     *)
(* links there are and whatever the others do between a walk and its       *)
(* operation (require_writable, open_with).                                *)
THEOREM ReadOnly == Spec => ReadOnlyUntouched
<1>1. IInv /\ [Next]_vars => [\A m \in Mount \ Writable : tree'[m] = tree[m]]_vars
  BY NextStays DEF ReadOnlyStays
<1> QED
  BY <1>1, Clearance, PTL DEF Spec, ReadOnlyUntouched

-----------------------------------------------------------------------------
(* Paths, as one path continued by another.                                *)

Name == STRING
Path == Seq(Name)

After(r, s) == SubSeq(s, Len(r) + 1, Len(s))

(* p is q, or an ancestor of q: IsPrefix, place by place. *)
Leads(p, q) == Len(p) <= Len(q) /\ \A i \in 1..Len(p) : p[i] = q[i]

(* A path is any ancestor of it, continued by what comes after.            *)
LEMMA Splits ==
  ASSUME NEW r \in Path, NEW s \in Path, IsPrefix(r, s)
  PROVE  After(r, s) \in Path /\ s = r \o After(r, s)
<1> DEFINE x == After(r, s)
<1>1. /\ Len(r) \in Nat /\ Len(s) \in Nat /\ Len(r) <= Len(s)
      /\ SubSeq(r, 1, Len(r)) = SubSeq(s, 1, Len(r))
  BY LenProperties DEF Path, IsPrefix
<1>2. x \in Path /\ Len(x) = Len(s) - Len(r) /\ \A i \in 1..Len(x) : x[i] = s[Len(r) + i]
  <2>1. \A i \in (Len(r) + 1)..Len(s) : s[i] \in Name
    BY <1>1, ElementOfSeq DEF Path
  <2>2. /\ x \in Path
        /\ Len(x) = IF Len(r) + 1 <= Len(s) THEN Len(s) - (Len(r) + 1) + 1 ELSE 0
        /\ \A i \in 1..(Len(s) - (Len(r) + 1) + 1) : x[i] = s[(Len(r) + 1) + i - 1]
    BY <1>1, <2>1, SubSeqProperties DEF Path, After
  <2>3. Len(x) = Len(s) - Len(r)
    BY <1>1, <2>2
  <2> QED
    BY <1>1, <2>2, <2>3
<1>3. ASSUME NEW i \in 1..Len(r)
      PROVE  r[i] = s[i]
  <2>1. SubSeq(r, 1, Len(r))[i] = r[i]
    BY <1>1 DEF Path
  <2>2. SubSeq(s, 1, Len(r))[i] = s[i]
    BY <1>1 DEF Path
  <2> QED
    BY <1>1, <2>1, <2>2
<1> HIDE DEF x
<1> DEFINE z == r \o x
<1>4. /\ z \in Path /\ Len(z) = Len(s)
      /\ \A i \in 1..Len(s) : z[i] = IF i <= Len(r) THEN r[i] ELSE x[i - Len(r)]
  BY <1>1, <1>2, ConcatProperties DEF Path
<1> HIDE DEF z
<1>5. ASSUME NEW i \in 1..Len(s)
      PROVE  z[i] = s[i]
  <2>1. CASE i <= Len(r)
    BY <2>1, <1>1, <1>3, <1>4
  <2>2. CASE ~(i <= Len(r))
    BY <2>2, <1>1, <1>2, <1>4
  <2> QED
    BY <2>1, <2>2
<1>6. z = s
  BY <1>4, <1>5, SeqEqual DEF Path
<1> QED
  BY <1>2, <1>6 DEF z, x

(* A path continued lies beneath where it began.                           *)
LEMMA Continued ==
  ASSUME NEW r \in Path, NEW x \in Path
  PROVE  r \o x \in Path /\ IsPrefix(r, r \o x) /\ After(r, r \o x) = x
<1> DEFINE z == r \o x
<1>1. /\ z \in Path /\ Len(z) = Len(r) + Len(x) /\ Len(r) \in Nat /\ Len(x) \in Nat
      /\ Len(z) \in Nat
      /\ \A i \in 1..(Len(r) + Len(x)) : z[i] = IF i <= Len(r) THEN r[i] ELSE x[i - Len(r)]
  BY ConcatProperties, LenProperties DEF Path
<1> HIDE DEF z
<1>2. SubSeq(r, 1, Len(r)) = r
  BY SubSeqFull DEF Path
<1>3. SubSeq(z, 1, Len(r)) = r
  <2> DEFINE y == SubSeq(z, 1, Len(r))
  <2>1. y \in Path /\ Len(y) = Len(r) /\ \A i \in 1..Len(r) : y[i] = z[i]
    <3>1. \A i \in 1..Len(r) : z[i] \in Name
      BY <1>1, ElementOfSeq DEF Path
    <3>2. /\ y \in Path /\ Len(y) = IF 1 <= Len(r) THEN Len(r) - 1 + 1 ELSE 0
          /\ \A i \in 1..(Len(r) - 1 + 1) : y[i] = z[1 + i - 1]
      BY <1>1, <3>1, SubSeqProperties DEF Path
    <3> QED
      BY <1>1, <3>2
  <2> HIDE DEF y
  <2>2. \A i \in 1..Len(r) : y[i] = r[i]
    BY <1>1, <2>1
  <2>3. y = r
    BY <2>1, <2>2, SeqEqual DEF Path
  <2> QED
    BY <2>3 DEF y
<1>4. After(r, z) = x
  <2> DEFINE y == After(r, z)
  <2>1. IsPrefix(r, z)
    BY <1>1, <1>2, <1>3 DEF IsPrefix
  <2>2. y \in Path /\ z = r \o y
    BY <1>1, <2>1, Splits
  <2> HIDE DEF y
  <2>3. r \o x = r \o y
    BY <2>2 DEF z
  <2>4. x = y
    BY <2>2, <2>3, ConcatSimplifications DEF Path
  <2> QED
    BY <2>4 DEF y
<1>5. IsPrefix(r, z)
  BY <1>1, <1>2, <1>3 DEF IsPrefix
<1> QED
  BY <1>1, <1>4, <1>5 DEF z

(* What a path is continued by is determined.                              *)
LEMMA OneAfter ==
  ASSUME NEW r \in Path, NEW x \in Path, NEW y \in Path, r \o x = r \o y
  PROVE  x = y
<1>1. x = After(r, r \o x) /\ y = After(r, r \o y)
  BY Continued
<1> QED
  BY <1>1

(* It does not matter in how many pieces a path is continued.              *)
LEMMA Associates ==
  ASSUME NEW p \in Path, NEW q \in Path, NEW r \in Path
  PROVE  (p \o q) \o r = p \o (q \o r)
<1>1. ASSUME NEW S, NEW a \in Seq(S), NEW b \in Seq(S), NEW c \in Seq(S)
      PROVE  (a \o b) \o c = a \o (b \o c)
  BY <1>1, ConcatAssociative
<1> QED
  BY <1>1 DEF Path

(* The empty path, before and after.                                       *)
LEMMA NothingAfter ==
  ASSUME NEW r \in Path
  PROVE  /\ <<>> \in Path /\ IsPrefix(<<>>, r) /\ IsPrefix(r, r)
         /\ r \o <<>> = r /\ <<>> \o r = r /\ After(<<>>, r) = r /\ After(r, r) = <<>>
<1>1. <<>> \in Path
  BY EmptySeq DEF Path
<1>2. r \o <<>> = r /\ <<>> \o r = r
  BY ConcatEmptySeq DEF Path
<1>3. /\ IsPrefix(<<>>, <<>> \o r) /\ After(<<>>, <<>> \o r) = r
      /\ IsPrefix(r, r \o <<>>) /\ After(r, r \o <<>>) = <<>>
  BY <1>1, Continued
<1> QED
  BY <1>1, <1>2, <1>3

(* An ancestor's ancestor is an ancestor.                                  *)
LEMMA Further ==
  ASSUME NEW p \in Path, NEW q \in Path, NEW r \in Path, IsPrefix(p, q), IsPrefix(q, r)
  PROVE  IsPrefix(p, r)
<1> DEFINE x == After(p, q)
           y == After(q, r)
<1>1. x \in Path /\ y \in Path /\ q = p \o x /\ r = q \o y
  BY Splits
<1> HIDE DEF x, y
<1>2. r = p \o (x \o y)
  BY <1>1, Associates
<1>3. x \o y \in Path
  BY <1>1, Continued
<1> QED
  BY <1>2, <1>3, Continued

(* The two ways to say that p is an ancestor of q.                         *)
LEMMA LeadsPrefix ==
  ASSUME NEW p \in Path, NEW q \in Path, Leads(p, q)
  PROVE  IsPrefix(p, q)
<1>1. Len(p) \in Nat /\ Len(q) \in Nat /\ Len(p) <= Len(q)
  BY LenProperties DEF Path, Leads
<1> DEFINE y == SubSeq(q, 1, Len(p))
<1>2. y \in Path /\ Len(y) = Len(p) /\ \A i \in 1..Len(p) : y[i] = q[i]
  <2>1. \A i \in 1..Len(p) : q[i] \in Name
    BY <1>1, ElementOfSeq DEF Path
  <2>2. /\ y \in Path /\ Len(y) = IF 1 <= Len(p) THEN Len(p) - 1 + 1 ELSE 0
        /\ \A i \in 1..(Len(p) - 1 + 1) : y[i] = q[1 + i - 1]
    BY <1>1, <2>1, SubSeqProperties DEF Path
  <2> QED
    BY <1>1, <2>2
<1> HIDE DEF y
<1>3. p = y
  BY <1>2, SeqEqual DEF Path, Leads
<1>4. SubSeq(p, 1, Len(p)) = p
  BY SubSeqFull DEF Path
<1> QED
  BY <1>1, <1>3, <1>4 DEF IsPrefix, y

(* And the other way round.                                                *)
LEMMA PrefixLeads ==
  ASSUME NEW p \in Path, NEW q \in Path, IsPrefix(p, q)
  PROVE  Leads(p, q) /\ Len(p) \in Nat /\ Len(q) \in Nat
<1>1. /\ Len(p) \in Nat /\ Len(q) \in Nat /\ Len(p) <= Len(q)
      /\ SubSeq(p, 1, Len(p)) = SubSeq(q, 1, Len(p))
  BY LenProperties DEF Path, IsPrefix
<1>2. ASSUME NEW i \in 1..Len(p)
      PROVE  p[i] = q[i]
  <2>1. SubSeq(p, 1, Len(p))[i] = p[i]
    BY <1>1 DEF Path
  <2>2. SubSeq(q, 1, Len(p))[i] = q[i]
    BY <1>1 DEF Path
  <2> QED
    BY <1>1, <2>1, <2>2
<1> QED
  BY <1>1, <1>2 DEF Leads

(* Of two ancestors of one path, one is an ancestor of the other.          *)
LEMMA Comparable ==
  ASSUME NEW p \in Path, NEW q \in Path, NEW z \in Path, IsPrefix(p, z), IsPrefix(q, z),
         Len(p) <= Len(q)
  PROVE  IsPrefix(p, q)
<1>1. Leads(p, z) /\ Leads(q, z) /\ Len(p) \in Nat /\ Len(q) \in Nat
  BY PrefixLeads
<1>2. Leads(p, q)
  BY <1>1 DEF Leads
<1> QED
  BY <1>2, LeadsPrefix

(* An ancestor that is no shorter is the path itself.                      *)
LEMMA SameLength ==
  ASSUME NEW p \in Path, NEW q \in Path, IsPrefix(p, q), Len(q) <= Len(p)
  PROVE  p = q
<1>1. Leads(p, q) /\ Len(p) \in Nat /\ Len(q) \in Nat
  BY PrefixLeads
<1>2. Len(p) = Len(q) /\ \A i \in 1..Len(p) : p[i] = q[i]
  BY <1>1 DEF Leads
<1> QED
  BY <1>2, SeqEqual DEF Path

(* One component more, and one less.                                       *)
LEMMA OneMore ==
  ASSUME NEW p \in Path, NEW n \in Name
  PROVE  /\ Append(p, n) \in Path /\ Append(p, n) # <<>> /\ IsPrefix(p, Append(p, n))
         /\ Len(Append(p, n)) = Len(p) + 1 /\ Len(p) \in Nat
         /\ Append(p, n) = p \o <<n>> /\ <<n>> \in Path
         /\ Front(Append(p, n)) = p
<1>1. <<n>> \in Path /\ Len(p) \in Nat
  <2>1. Len(p) \in Nat
    BY LenProperties DEF Path
  <2>2. <<n>> \in Seq(Name)
    OBVIOUS
  <2> QED
    BY <2>1, <2>2 DEF Path
<1>2. Append(p, n) = p \o <<n>>
  BY AppendIsConcat DEF Path
<1> DEFINE z == Append(p, n)
<1>3. /\ z \in Path /\ z # <<>> /\ Len(z) = Len(p) + 1
      /\ \A i \in 1..Len(p) : z[i] = p[i]
  <2>1. p \in Seq(Name) /\ n \in Name
    BY DEF Path
  <2>2. /\ Append(p, n) \in Seq(Name) /\ Append(p, n) # <<>>
        /\ Len(Append(p, n)) = Len(p) + 1
        /\ \A i \in 1..Len(p) : Append(p, n)[i] = p[i]
    BY <2>1, AppendProperties
  <2> QED
    BY <2>2 DEF Path
<1>4. IsPrefix(p, z)
  BY <1>1, <1>2, Continued
<1> HIDE DEF z
<1>5. Front(z) = p
  <2> DEFINE f == SubSeq(z, 1, Len(p))
  <2>1. \A i \in 1..Len(p) : z[i] \in Name
    BY <1>1, <1>3, ElementOfSeq DEF Path
  <2>2. /\ f \in Path /\ Len(f) = (IF 1 <= Len(p) THEN Len(p) - 1 + 1 ELSE 0)
        /\ \A i \in 1..(Len(p) - 1 + 1) : f[i] = z[1 + i - 1]
    BY <1>1, <2>1, SubSeqProperties DEF Path
  <2> HIDE DEF f
  <2>3. Len(f) = Len(p) /\ \A i \in 1..Len(p) : f[i] = p[i]
    BY <1>1, <1>3, <2>2
  <2>4. f = p
    BY <2>2, <2>3, SeqEqual DEF Path
  <2>5. Len(z) - 1 = Len(p)
    BY <1>1, <1>3
  <2> QED
    BY <2>4, <2>5 DEF f, Front
<1> QED
  BY <1>1, <1>2, <1>3, <1>4, <1>5 DEF z

(* Front takes off the last component.                                     *)
LEMMA OneLess ==
  ASSUME NEW p \in Path, p # <<>>
  PROVE  /\ Front(p) \in Path /\ IsPrefix(Front(p), p) /\ Len(p) \in Nat
         /\ Len(p) = Len(Front(p)) + 1
         /\ \E n \in Name : p = Append(Front(p), n)
<1>1. PICK q \in Path, n \in Name : p = Append(q, n)
  BY SequenceEmptyOrAppend DEF Path
<1>2. Front(p) = q /\ IsPrefix(q, p) /\ Len(p) = Len(q) + 1 /\ Len(q) \in Nat
  BY <1>1, OneMore
<1> QED
  BY <1>1, <1>2

(* What lies strictly above p lies above its last component.                *)
LEMMA AboveFront ==
  ASSUME NEW p \in Path, NEW r \in Path, r # <<>>, IsPrefix(p, r), p # r
  PROVE  IsPrefix(p, Front(r))
<1>1. /\ Front(r) \in Path /\ IsPrefix(Front(r), r) /\ Len(r) \in Nat
      /\ Len(r) = Len(Front(r)) + 1
  BY OneLess
<1>2. Len(p) \in Nat /\ Len(Front(r)) \in Nat
  BY <1>1, LenProperties DEF Path
<1>3. ~(Len(r) <= Len(p))
  BY SameLength
<1>4. Len(p) <= Len(Front(r))
  BY <1>1, <1>2, <1>3
<1> QED
  BY <1>1, <1>4, Comparable

(* The same, of a path with one component more.                            *)
LEMMA AboveOneMore ==
  ASSUME NEW p \in Path, NEW q \in Path, NEW n \in Name, IsPrefix(p, Append(q, n)),
         p # Append(q, n)
  PROVE  IsPrefix(p, q)
BY OneMore, AboveFront

(* Beneath a, one component more and one less.                             *)
LEMMA BeneathMore ==
  ASSUME NEW a \in Path, NEW p \in Path, NEW n \in Name
  PROVE  Append(a \o p, n) = a \o Append(p, n)
<1>1. a \o p \in Path
  BY Continued
<1>2. Append(a \o p, n) = (a \o p) \o <<n>> /\ Append(p, n) = p \o <<n>> /\ <<n>> \in Path
  BY <1>1, OneMore
<1> QED
  BY <1>2, Associates

(* And one less.                                                           *)
LEMMA BeneathLess ==
  ASSUME NEW a \in Path, NEW p \in Path, p # <<>>
  PROVE  a \o p # <<>> /\ Front(a \o p) = a \o Front(p)
<1> DEFINE q == Front(p)
<1>1. PICK n \in Name : p = Append(q, n)
  BY OneLess
<1>2. q \in Path
  BY OneLess
<1> HIDE DEF q
<1>3. a \o q \in Path
  BY <1>2, Continued
<1>4. a \o p = Append(a \o q, n)
  BY <1>1, <1>2, BeneathMore
<1>5. a \o p # <<>> /\ Front(a \o p) = a \o q
  BY <1>3, <1>4, OneMore
<1> QED
  BY <1>5 DEF q

(* Head and Tail of a path.                                                *)
LEMMA FirstOff ==
  ASSUME NEW p \in Path, p # <<>>
  PROVE  /\ Head(p) \in Name /\ Tail(p) \in Path /\ Len(p) \in Nat /\ Len(Tail(p)) \in Nat
         /\ Len(p) = Len(Tail(p)) + 1
BY HeadTailProperties, LenProperties DEF Path

-----------------------------------------------------------------------------
(* Numbers.                                                                *)

(* A set of natural numbers that is not empty has a smallest element.       *)
LEMMA Smallest ==
  ASSUME NEW S, S \subseteq Nat, S # {}
  PROVE  \E x \in S : \A n \in S : x <= n
<1>1. IsWellFoundedOn(OpToRel(<, Nat), Nat)
  BY NatLessThanWellFounded
<1>2. PICK x \in S : \A y \in S : ~(<<y, x>> \in OpToRel(<, Nat))
  BY <1>1, WFMin
<1>3. \A y \in S : ~(y < x)
  BY <1>2 DEF OpToRel
<1> QED
  BY <1>3

(* What holds of 0, and of the next number whenever of a number, holds      *)
(* as far as one counts.                                                   *)
LEMMA Counting ==
  ASSUME NEW T, NEW n \in Nat, 0 \in T, \A i \in 0..(n - 1) : i \in T => i + 1 \in T
  PROVE  n \in T
<1> DEFINE Missed == {i \in 0..n : i \notin T}
<1> SUFFICES ASSUME Missed # {} PROVE FALSE
  OBVIOUS
<1>1. Missed \subseteq Nat
  OBVIOUS
<1>2. PICK x \in Missed : \A i \in Missed : x <= i
  BY <1>1, Smallest
<1>3. x # 0 /\ x - 1 \in 0..(n - 1) /\ x - 1 \notin Missed /\ x - 1 \in 0..n
  BY <1>2
<1> QED
  BY <1>2, <1>3

-----------------------------------------------------------------------------
(* Walks.  Each is a function defined by what it is where it ends and by    *)
(* what comes next where it does not; there is such a function whether or  *)
(* not the walk ends from everywhere.                                      *)

Ends(f, S, D, res, nx) == f = [s \in S |-> IF s \in D THEN res[s] ELSE f[nx[s]]]

(* For every such rule there is a function that keeps it: where the walk   *)
(* ends, it is the result there; where it goes on for ever, it is          *)
(* anything, the same all along.                                           *)
LEMMA TailRecursion ==
  ASSUME NEW S, NEW D, D \subseteq S, NEW res, NEW nx, \A s \in S \ D : nx[s] \in S
  PROVE  \E f : Ends(f, S, D, res, nx)
<1> DEFINE Closed(X) == \A y \in X : y \in S /\ (y \notin D => nx[y] \in X)
           Reach(s) == {y \in S : \A X \in SUBSET S : s \in X /\ Closed(X) => y \in X}
           EndOf(s) == Reach(s) \cap D
           end(E) == CHOOSE d : d \in E
           f == [s \in S |-> res[end(EndOf(s))]]
<1>1. ASSUME NEW s \in S
      PROVE  s \in Reach(s) /\ Closed(Reach(s)) /\ Reach(s) \subseteq S
  <2>1. ASSUME NEW y \in Reach(s), y \notin D
        PROVE  nx[y] \in Reach(s)
    BY <2>1
  <2> QED
    BY <2>1
<1>2. ASSUME NEW s \in D
      PROVE  EndOf(s) = {s}
  <2>1. {s} \in SUBSET S /\ Closed({s})
    BY <1>2
  <2>2. Reach(s) \subseteq {s}
    BY <2>1
  <2> QED
    BY <1>1, <2>2
<1>3. ASSUME NEW s \in S \ D
      PROVE  EndOf(s) = EndOf(nx[s])
  <2> DEFINE n == nx[s]
             X == {s} \cup Reach(n)
  <2>1. n \in S
    OBVIOUS
  <2>2. X \in SUBSET S /\ s \in X
    BY <1>1, <2>1
  <2>3. Closed(X)
    BY <1>1, <2>1
  <2>4. Reach(s) \subseteq X
    BY <2>2, <2>3
  <2>5. Reach(n) \subseteq Reach(s)
    BY <2>1
  <2> HIDE DEF Reach
  <2> QED
    BY <2>4, <2>5
<1> HIDE DEF EndOf, end
<1>4. ASSUME NEW s \in D
      PROVE  f[s] = res[s]
  <2>1. end({s}) = s
    BY DEF end
  <2> QED
    BY <1>2, <2>1
<1>5. ASSUME NEW s \in S \ D
      PROVE  f[s] = f[nx[s]]
  BY <1>3
<1>6. f = [s \in S |-> f[s]]
  OBVIOUS
<1> HIDE DEF f
<1>7. \A s \in S : f[s] = IF s \in D THEN res[s] ELSE f[nx[s]]
  BY <1>4, <1>5
<1>8. Ends(f, S, D, res, nx)
  BY <1>6, <1>7 DEF Ends
<1> QED
  BY <1>8

(* Where a walk is taken to be wrong somewhere, there is a place where it  *)
(* is that is nearest to an end: a link fewer can be followed from         *)
(* wherever it goes next, or as many and a component fewer is left.        *)
LEMMA Nearest ==
  ASSUME NEW B, B \subseteq Step, B # {}, \A s \in B : s.hops <= MaxHops
  PROVE  \E s \in B : \A u \in B :
           /\ u.hops <= s.hops
           /\ u.hops = s.hops => Len(s.todo) <= Len(u.todo)
<1>0. \A s \in B : s.hops \in Nat /\ Len(s.todo) \in Nat
  <2>1. \A s \in B : s.hops \in Nat /\ s.todo \in Path
    BY DEF Step, Path, Name
  <2> QED
    BY <2>1, LenProperties DEF Path
<1> DEFINE Room == {MaxHops - s.hops : s \in B}
<1>1. Room \subseteq Nat /\ Room # {}
  BY <1>0, NamespaceAssumption
<1>2. PICK x \in Room : \A n \in Room : x <= n
  BY <1>1, Smallest
<1>3. PICK b \in B : x = MaxHops - b.hops
  BY <1>2
<1>4. \A u \in B : u.hops <= b.hops
  <2>1. \A u \in B : MaxHops - u.hops \in Room
    OBVIOUS
  <2> HIDE DEF Room
  <2>2. \A u \in B : MaxHops - b.hops <= MaxHops - u.hops
    BY <1>2, <1>3, <2>1
  <2> QED
    BY <1>0, <1>3, <2>2, NamespaceAssumption
<1> HIDE DEF Room
<1> DEFINE Left == {Len(s.todo) : s \in {c \in B : c.hops = b.hops}}
<1>5. Left \subseteq Nat /\ Left # {}
  BY <1>0, <1>3
<1>6. PICK y \in Left : \A n \in Left : y <= n
  BY <1>5, Smallest
<1>7. PICK s \in B : s.hops = b.hops /\ y = Len(s.todo)
  BY <1>6
<1>8. \A u \in B : u.hops = s.hops => Len(s.todo) <= Len(u.todo)
  BY <1>6, <1>7
<1> QED
  BY <1>4, <1>7, <1>8

-----------------------------------------------------------------------------
(* The host's walk, step by step.                                          *)

Here(s) == Append(s.at, Head(s.todo))
Passing(s, where) == [s EXCEPT !.at = where, !.todo = Tail(@)]

(* A link is met that is followed. *)
HostMeets(t, follow, s) == Is(t, Here(s), "link") /\ (Tail(s.todo) # <<>> \/ follow)

HostOver(t, follow, s) ==
  \/ s.todo = <<>>
  \/ ~Is(t, s.at, "dir")
  \/ Head(s.todo) = ".." /\ s.at = <<>>
  \/ Head(s.todo) # ".." /\ HostMeets(t, follow, s)
       /\ (s.hops = MaxHops \/ t[Here(s)].abs)

HostResult(t, s) ==
  IF s.todo = <<>> THEN [verdict |-> "ok", rel |-> s.at]
  ELSE IF ~Is(t, s.at, "dir") THEN Failed("missing")
  ELSE IF Head(s.todo) = ".." THEN Failed("denied")
  ELSE IF s.hops = MaxHops THEN Failed("loop") ELSE Failed("denied")

HostOn(t, follow, s) ==
  IF Head(s.todo) = ".." THEN Passing(s, Front(s.at))
  ELSE IF ~HostMeets(t, follow, s) THEN Passing(s, Here(s))
  ELSE [s EXCEPT !.todo = t[Here(s)].to \o Tail(s.todo), !.hops = @ + 1]

HostRule(t, follow, w) ==
  w = [s \in Step |-> IF HostOver(t, follow, s) THEN HostResult(t, s)
                      ELSE w[HostOn(t, follow, s)]]

(* The walk as HostWalk has it. *)
HostBody(t, follow, w, s) ==
  IF s.todo = <<>> THEN [verdict |-> "ok", rel |-> s.at]
  ELSE LET name == Head(s.todo)
           rest == Tail(s.todo)
           here == Append(s.at, name)
       IN  IF ~Is(t, s.at, "dir") THEN Failed("missing")
           ELSE IF name = ".."
           THEN IF s.at = <<>> THEN Failed("denied")
                ELSE w[[s EXCEPT !.at = Front(@), !.todo = rest]]
           ELSE IF ~Is(t, here, "link") \/ (rest = <<>> /\ ~follow)
           THEN w[[s EXCEPT !.at = here, !.todo = rest]]
           ELSE IF s.hops = MaxHops THEN Failed("loop")
           ELSE IF t[here].abs THEN Failed("denied")
           ELSE w[[s EXCEPT !.todo = t[here].to \o rest, !.hops = @ + 1]]

(* HostWalk is the function chosen to keep its rule, at its start.         *)
LEMMA HostWalkIs ==
  ASSUME NEW t, NEW follow, NEW rel
  PROVE  HostWalk(t, rel, follow)
           = (CHOOSE w : w = [s \in Step |-> HostBody(t, follow, w, s)])[Start(rel)]
BY DEF HostWalk, HostBody

(* The rule, by where the walk is over and where it goes on.               *)
LEMMA HostBodyIs ==
  ASSUME NEW t, NEW follow, NEW w, NEW s \in Step
  PROVE  HostBody(t, follow, w, s)
           = IF HostOver(t, follow, s) THEN HostResult(t, s) ELSE w[HostOn(t, follow, s)]
BY DEF HostBody, HostOver, HostResult, HostOn, Here, Passing, HostMeets

(* The steps of a walk, of paths.                                          *)
LEMMA StepIs ==
  /\ Step = [at : Path, todo : Path, hops : Nat]
  /\ <<>> \in Path
  /\ \A p \in Path : Start(p) \in Step
<1>1. Step = [at : Path, todo : Path, hops : Nat]
  BY DEF Step, Path, Name
<1>2. <<>> \in Path
  BY EmptySeq DEF Path
<1> QED
  BY <1>1, <1>2 DEF Start

(* A tree's paths, and what its links may hold (HostDirectory).            *)
LEMMA TreeIs ==
  ASSUME NEW t, HostDirectory(t)
  PROVE  /\ DOMAIN t \subseteq Path /\ Is(t, <<>>, "dir")
         /\ \A r : Is(t, r, "link") => t[r].abs \in BOOLEAN /\ t[r].to \in Path
BY DEF HostDirectory, Path, Name, Is

(* One link more has been followed.                                        *)
LEMMA Hopped ==
  ASSUME NEW a, NEW x, NEW n, NEW s, s = [at |-> a, todo |-> x, hops |-> n], NEW y
  PROVE  [s EXCEPT !.todo = y, !.hops = @ + 1] = [at |-> a, todo |-> y, hops |-> n + 1]
<1>1. [s EXCEPT !.todo = y] = [at |-> a, todo |-> y, hops |-> n] /\ s.hops = n
  OBVIOUS
<1>2. ASSUME NEW r, r = [at |-> a, todo |-> y, hops |-> n]
      PROVE  [r EXCEPT !.hops = n + 1] = [at |-> a, todo |-> y, hops |-> n + 1]
  BY <1>2
<1> QED
  BY <1>1, <1>2

(* The parts of a step, and of the step after it.                          *)
LEMMA Nexts ==
  ASSUME NEW s \in Step, s.todo # <<>>
  PROVE  /\ s = [at |-> s.at, todo |-> s.todo, hops |-> s.hops]
         /\ s.at \in Path /\ s.todo \in Path /\ s.hops \in Nat
         /\ Head(s.todo) \in Name /\ Tail(s.todo) \in Path /\ Here(s) \in Path
         /\ s.at # <<>> => Front(s.at) \in Path
         /\ \A where \in Path :
              /\ Passing(s, where) = [at |-> where, todo |-> Tail(s.todo), hops |-> s.hops]
              /\ Passing(s, where) \in Step
<1>1. /\ s = [at |-> s.at, todo |-> s.todo, hops |-> s.hops]
      /\ s.at \in Path /\ s.todo \in Path /\ s.hops \in Nat
  BY StepIs
<1>2. Head(s.todo) \in Name /\ Tail(s.todo) \in Path
  BY <1>1, FirstOff
<1>3. Here(s) \in Path
  BY <1>1, <1>2, OneMore DEF Here
<1>4. s.at # <<>> => Front(s.at) \in Path
  BY <1>1, OneLess
<1>5. ASSUME NEW where \in Path
      PROVE  /\ Passing(s, where) = [at |-> where, todo |-> Tail(s.todo), hops |-> s.hops]
             /\ Passing(s, where) \in Step
  <2>1. Passing(s, where) = [at |-> where, todo |-> Tail(s.todo), hops |-> s.hops]
    <3> DEFINE y == Tail(s.todo)
    <3>1. Passing(s, where) = [s EXCEPT !.at = where, !.todo = y]
      BY DEF Passing
    <3> HIDE DEF y
    <3>2. PICK a, x, n : s = [at |-> a, todo |-> x, hops |-> n]
      BY <1>1
    <3> DEFINE r == [s EXCEPT !.at = where]
    <3>3. [s EXCEPT !.at = where, !.todo = y] = [at |-> where, todo |-> y, hops |-> n]
      <4>1. r = [at |-> where, todo |-> x, hops |-> n]
        BY <3>2
      <4> HIDE DEF r
      <4>2. [r EXCEPT !.todo = y] = [at |-> where, todo |-> y, hops |-> n]
        BY <4>1
      <4> QED
        BY <4>2 DEF r
    <3>4. n = s.hops
      BY <3>2
    <3> QED
      BY <3>1, <3>3, <3>4 DEF y
  <2> QED
    BY <1>1, <1>2, <2>1, StepIs
<1> QED
  BY <1>1, <1>2, <1>3, <1>4, <1>5

(* Where the host's walk goes on, it is at a step again.                   *)
LEMMA HostGoesOn ==
  ASSUME NEW t, HostDirectory(t), NEW follow, NEW s \in Step, ~HostOver(t, follow, s)
  PROVE  HostOn(t, follow, s) \in Step
<1>1. s.todo # <<>> /\ (Head(s.todo) = ".." => s.at # <<>>)
  BY DEF HostOver
<1>2. CASE Head(s.todo) = ".."
  BY <1>1, <1>2, Nexts DEF HostOn
<1>3. CASE Head(s.todo) # ".." /\ ~HostMeets(t, follow, s)
  BY <1>1, <1>3, Nexts DEF HostOn
<1>4. CASE Head(s.todo) # ".." /\ HostMeets(t, follow, s)
  <2>1. t[Here(s)].to \in Path
    BY <1>4, TreeIs DEF HostMeets
  <2>2. t[Here(s)].to \o Tail(s.todo) \in Path
    BY <1>1, <2>1, Nexts, Continued
  <2>3. HostOn(t, follow, s)
          = [at |-> s.at, todo |-> t[Here(s)].to \o Tail(s.todo), hops |-> s.hops + 1]
    <3>1. s = [at |-> s.at, todo |-> s.todo, hops |-> s.hops]
      BY <1>1, Nexts
    <3>2. HostOn(t, follow, s)
            = [s EXCEPT !.todo = t[Here(s)].to \o Tail(s.todo), !.hops = @ + 1]
      BY <1>4 DEF HostOn
    <3> QED
      BY <3>1, <3>2, Hopped
  <2>4. s.at \in Path /\ s.hops + 1 \in Nat
    BY <1>1, Nexts
  <2> QED
    BY <2>2, <2>3, <2>4, StepIs
<1> QED
  BY <1>2, <1>3, <1>4

(* HostWalk keeps its rule.                                                *)
LEMMA HostWalks ==
  ASSUME NEW t, HostDirectory(t), NEW follow
  PROVE  \E w : /\ HostRule(t, follow, w)
                /\ \A rel : HostWalk(t, rel, follow) = w[Start(rel)]
<1> DEFINE D == {s \in Step : HostOver(t, follow, s)}
           res == [s \in Step |-> HostResult(t, s)]
           nx == [s \in Step |-> HostOn(t, follow, s)]
           Rule(w) == w = [s \in Step |-> HostBody(t, follow, w, s)]
<1>1. \A s \in Step \ D : nx[s] \in Step
  BY HostGoesOn
<1>2. D \subseteq Step
  OBVIOUS
<1>3. \A s \in Step : /\ s \in D <=> HostOver(t, follow, s)
                      /\ res[s] = HostResult(t, s) /\ nx[s] = HostOn(t, follow, s)
  OBVIOUS
<1> HIDE DEF D, res, nx
<1>4. PICK f : Ends(f, Step, D, res, nx)
  BY <1>1, <1>2, TailRecursion
<1>5. ASSUME NEW w
      PROVE  Rule(w) <=> HostRule(t, follow, w)
  BY HostBodyIs DEF HostRule
<1>6. HostRule(t, follow, f)
  BY <1>3, <1>4 DEF HostRule, Ends
<1>7. \E w : Rule(w)
  BY <1>5, <1>6
<1> DEFINE v == CHOOSE w : Rule(w)
<1>8. Rule(v)
  BY <1>7
<1>9. \A rel : HostWalk(t, rel, follow) = v[Start(rel)]
  BY HostWalkIs
<1> HIDE DEF v, Rule
<1> QED
  BY <1>5, <1>8, <1>9

(* What a walk says of one step.                                           *)
LEMMA HostStep ==
  ASSUME NEW t, NEW follow, NEW w, HostRule(t, follow, w), NEW s \in Step
  PROVE  /\ HostOver(t, follow, s) => w[s] = HostResult(t, s)
         /\ ~HostOver(t, follow, s) => w[s] = w[HostOn(t, follow, s)]
BY DEF HostRule

-----------------------------------------------------------------------------
(* The mount that governs a path.                                          *)

(* Mount points are paths.                                                 *)
LEMMA Points ==
  \A m \in Mount : At[m] \in Path /\ Len(At[m]) \in Nat
<1>1. \A m \in Mount : At[m] \in Path
  BY NamespaceAssumption DEF Path, Name
<1> QED
  BY <1>1, LenProperties DEF Path

Over(p) == {m \in Mount : IsPrefix(At[m], p)}

(* A path's governing mount has the longest mount point above it.          *)
LEMMA Governed ==
  ASSUME NEW p \in Path
  PROVE  /\ Resolve(p) = None <=> Over(p) = {}
         /\ Resolve(p) # None =>
              /\ Resolve(p) \in Over(p)
              /\ \A n \in Over(p) : Len(At[n]) <= Len(At[Resolve(p)])
<1> DEFINE over == Over(p)
           Best(m) == \A n \in over : Len(At[n]) <= Len(At[m])
<1>1. Resolve(p) = IF over = {} THEN None ELSE CHOOSE m \in over : Best(m)
  BY DEF Resolve, Over
<1>2. over \subseteq Mount
  BY DEF Over
<1>3. ASSUME over # {}
      PROVE  \E m \in over : Best(m)
  <2> DEFINE room == {Len(p) - Len(At[m]) : m \in over}
  <2>1. Len(p) \in Nat /\ \A m \in over : Len(At[m]) \in Nat /\ Len(At[m]) <= Len(p)
    BY <1>2, Points, LenProperties DEF Over, IsPrefix, Path
  <2>2. room \subseteq Nat /\ room # {}
    BY <1>3, <2>1
  <2>3. PICK x \in room : \A n \in room : x <= n
    BY <2>2, Smallest
  <2>4. PICK m \in over : x = Len(p) - Len(At[m])
    BY <2>3
  <2>5. ASSUME NEW n \in over
        PROVE  Len(At[n]) <= Len(At[m])
    <3>1. Len(p) - Len(At[n]) \in room
      OBVIOUS
    <3> HIDE DEF room
    <3>2. x <= Len(p) - Len(At[n])
      BY <2>3, <3>1
    <3> HIDE DEF over
    <3> QED
      BY <2>1, <2>4, <3>2
  <2> QED
    BY <2>5
<1> HIDE DEF over, Best
<1>4. over # {} => Resolve(p) \in over /\ Best(Resolve(p))
  BY <1>1, <1>3
<1>5. Resolve(p) = None <=> over = {}
  BY <1>1, <1>2, <1>4, NamespaceAssumption
<1> QED
  BY <1>4, <1>5 DEF over, Best

(* And no other mount has.                                                 *)
LEMMA OneGoverns ==
  ASSUME NEW p \in Path, NEW m \in Over(p),
         \A n \in Over(p) : Len(At[n]) <= Len(At[m])
  PROVE  Resolve(p) = m
<1> DEFINE d == Resolve(p)
<1>1. d \in Over(p) /\ Len(At[m]) <= Len(At[d])
  BY Governed
<1>2. d \in Mount /\ m \in Mount /\ IsPrefix(At[d], p) /\ IsPrefix(At[m], p)
  BY <1>1 DEF Over
<1> HIDE DEF d
<1>3. IsPrefix(At[m], At[d])
  BY <1>1, <1>2, Comparable, Points
<1>4. Len(At[d]) <= Len(At[m])
  BY <1>1
<1>5. At[m] = At[d]
  BY <1>2, <1>3, <1>4, SameLength, Points
<1>6. m = d
  BY <1>2, <1>5, NamespaceAssumption
<1> QED
  BY <1>6 DEF d

(* A path is its mount's point, continued by its path in the mount.        *)
LEMMA GovernedBy ==
  ASSUME NEW p \in Path, Resolve(p) # None
  PROVE  /\ Resolve(p) \in Mount
         /\ Relative(Resolve(p), p) \in Path
         /\ p = At[Resolve(p)] \o Relative(Resolve(p), p)
<1> DEFINE m == Resolve(p)
<1>1. m \in Mount /\ IsPrefix(At[m], p)
  BY Governed DEF Over
<1> HIDE DEF m
<1>2. After(At[m], p) \in Path /\ p = At[m] \o After(At[m], p)
  BY <1>1, Splits, Points
<1>3. Relative(m, p) = After(At[m], p)
  BY DEF Relative, After
<1> QED
  BY <1>1, <1>2, <1>3 DEF m

(* A mount with none nested in it governs all that lies beneath it.         *)
LEMMA ResolveBeneath ==
  ASSUME NEW m \in Mount, ~ShadowsNested(m), NEW a \in Path
  PROVE  /\ At[m] \o a \in Path /\ Resolve(At[m] \o a) = m
         /\ Relative(m, At[m] \o a) = a
<1> DEFINE p == At[m] \o a
<1>1. p \in Path /\ IsPrefix(At[m], p) /\ After(At[m], p) = a
  BY Continued, Points
<1>2. Relative(m, p) = a
  BY <1>1 DEF Relative, After
<1> HIDE DEF p
<1>3. m \in Over(p)
  BY <1>1 DEF Over
<1>4. ASSUME NEW n \in Over(p), ~(Len(At[n]) <= Len(At[m]))
      PROVE  FALSE
  <2>1. n \in Mount /\ IsPrefix(At[n], p) /\ Len(At[m]) <= Len(At[n])
    BY <1>4, Points DEF Over
  <2>2. IsPrefix(At[m], At[n])
    BY <1>1, <2>1, Comparable, Points
  <2>3. At[m] # At[n]
    BY <1>4, <2>1, Points
  <2> QED
    BY <2>1, <2>2, <2>3 DEF ShadowsNested, HasMountBelow, IsStrictPrefix
<1>5. Resolve(p) = m
  BY <1>1, <1>3, <1>4, OneGoverns
<1> QED
  BY <1>1, <1>2, <1>5 DEF p

-----------------------------------------------------------------------------
(* The namespace's walk, step by step.                                     *)

Candidate(s) == IF Head(s.todo) = ".." THEN Front(s.at) ELSE Here(s)

(* A link is met that is followed. *)
Meets(trees, follow, s) ==
  LET c == Candidate(s)
      m == Resolve(c)
  IN  /\ m # None /\ Is(trees[m], Relative(m, c), "link")
      /\ Tail(s.todo) # <<>> \/ follow

Lost(s) ==
  LET c == Candidate(s)
  IN  Resolve(c) = None /\ (Tail(s.todo) = <<>> \/ c = <<>> \/ ~HasMountBelow(c))

LocateOver(trees, follow, s) ==
  \/ s.todo = <<>>
  \/ Head(s.todo) = ".." /\ s.at = <<>>
  \/ Lost(s)
  \/ Meets(trees, follow, s) /\ s.hops = MaxHops

LocateResult(s) ==
  IF s.todo = <<>>
  THEN IF Resolve(s.at) = None THEN Failed("missing")
       ELSE [verdict |-> "ok", mount |-> Resolve(s.at),
             rel |-> Relative(Resolve(s.at), s.at), path |-> s.at]
  ELSE IF Head(s.todo) = ".." /\ s.at = <<>> THEN Failed("invalid")
  ELSE IF Resolve(Candidate(s)) = None THEN Failed("missing") ELSE Failed("loop")

(* Where the walk goes on from a link. *)
Followed(trees, s) ==
  LET c == Candidate(s)
      link == trees[Resolve(c)][Relative(Resolve(c), c)]
  IN  [at |-> LinkBase(link.abs, c), todo |-> link.to \o Tail(s.todo), hops |-> s.hops + 1]

LocateOn(trees, follow, s) ==
  IF Meets(trees, follow, s) THEN Followed(trees, s) ELSE Passing(s, Candidate(s))

LocateRule(trees, follow, w) ==
  w = [s \in Step |-> IF LocateOver(trees, follow, s) THEN LocateResult(s)
                      ELSE w[LocateOn(trees, follow, s)]]

(* The walk as Locate has it. *)
LocateBody(trees, follow, w, s) ==
  IF s.todo = <<>>
  THEN IF Resolve(s.at) = None THEN Failed("missing")
       ELSE [verdict |-> "ok", mount |-> Resolve(s.at),
             rel |-> Relative(Resolve(s.at), s.at), path |-> s.at]
  ELSE LET rest == Tail(s.todo)
           up == Head(s.todo) = ".."
           candidate == IF up THEN Front(s.at) ELSE Append(s.at, Head(s.todo))
           m == Resolve(candidate)
           r == Relative(m, candidate)
           on == [s EXCEPT !.at = candidate, !.todo = rest]
       IN  IF up /\ s.at = <<>> THEN Failed("invalid")
           ELSE IF m = None
           THEN IF rest # <<>> /\ candidate # <<>> /\ HasMountBelow(candidate)
                THEN w[on] ELSE Failed("missing")
           ELSE IF ~Is(trees[m], r, "link") \/ (rest = <<>> /\ ~follow)
           THEN w[on]
           ELSE IF s.hops = MaxHops THEN Failed("loop")
           ELSE w[[at |-> LinkBase(trees[m][r].abs, candidate),
                   todo |-> trees[m][r].to \o rest,
                   hops |-> s.hops + 1]]

(* Locate is the function chosen to keep its rule, at its start.           *)
LEMMA LocateIs ==
  ASSUME NEW trees, NEW follow, NEW p
  PROVE  Locate(trees, p, follow)
           = (CHOOSE w : w = [s \in Step |-> LocateBody(trees, follow, w, s)])[Start(p)]
BY DEF Locate, LocateBody

(* The rule, by where the walk is over and where it goes on.               *)
LEMMA LocateBodyIs ==
  ASSUME NEW trees, NEW follow, NEW w, NEW s \in Step
  PROVE  LocateBody(trees, follow, w, s)
           = IF LocateOver(trees, follow, s) THEN LocateResult(s)
             ELSE w[LocateOn(trees, follow, s)]
BY DEF LocateBody, LocateOver, LocateResult, LocateOn, Here, Passing, Meets, Lost, Candidate,
       Followed

Trees(trees) == \A m \in Mount : HostDirectory(trees[m])

(* Where the namespace's walk goes on, it is at a step again.              *)
LEMMA LocateGoesOn ==
  ASSUME NEW trees, Trees(trees), NEW follow, NEW s \in Step, ~LocateOver(trees, follow, s)
  PROVE  LocateOn(trees, follow, s) \in Step /\ Candidate(s) \in Path
<1> DEFINE c == Candidate(s)
           m == Resolve(c)
           r == Relative(m, c)
<1>1. s.todo # <<>> /\ (Head(s.todo) = ".." => s.at # <<>>)
  BY DEF LocateOver
<1>2. c \in Path
  BY <1>1, Nexts DEF Candidate
<1>3. CASE ~Meets(trees, follow, s)
  BY <1>1, <1>2, <1>3, Nexts DEF LocateOn
<1>4. CASE Meets(trees, follow, s)
  <2>1. m # None /\ Is(trees[m], r, "link")
    BY <1>4 DEF Meets
  <2>2. m \in Mount
    BY <1>2, <2>1, GovernedBy
  <2>3. HostDirectory(trees[m])
    BY <2>2 DEF Trees
  <2> DEFINE link == trees[m][r]
  <2>4. link.to \in Path
    BY <2>1, <2>3, TreeIs
  <2>5. LocateOn(trees, follow, s)
          = [at |-> LinkBase(link.abs, c), todo |-> link.to \o Tail(s.todo),
             hops |-> s.hops + 1]
    BY <1>4 DEF LocateOn, Followed
  <2> HIDE DEF link
  <2>6. link.to \o Tail(s.todo) \in Path
    BY <1>1, <2>4, Nexts, Continued
  <2>7. LinkBase(link.abs, c) \in Path
    BY <1>2, StepIs, OneLess DEF LinkBase
  <2>8. s.hops + 1 \in Nat
    BY <1>1, Nexts
  <2> HIDE DEF c
  <2>9. s.hops + 1 \in Nat /\ LocateOn(trees, follow, s) \in Step
    BY <2>5, <2>6, <2>7, <2>8, StepIs
  <2> QED
    BY <1>2, <2>9 DEF c
<1> QED
  BY <1>2, <1>3, <1>4

(* Locate keeps its rule.                                                  *)
LEMMA Locates ==
  ASSUME NEW trees, Trees(trees), NEW follow
  PROVE  \E w : /\ LocateRule(trees, follow, w)
                /\ \A p : Locate(trees, p, follow) = w[Start(p)]
<1> DEFINE D == {s \in Step : LocateOver(trees, follow, s)}
           res == [s \in Step |-> LocateResult(s)]
           nx == [s \in Step |-> LocateOn(trees, follow, s)]
           Rule(w) == w = [s \in Step |-> LocateBody(trees, follow, w, s)]
<1>1. \A s \in Step \ D : nx[s] \in Step
  BY LocateGoesOn
<1>2. D \subseteq Step
  OBVIOUS
<1>3. \A s \in Step : /\ s \in D <=> LocateOver(trees, follow, s)
                      /\ res[s] = LocateResult(s) /\ nx[s] = LocateOn(trees, follow, s)
  OBVIOUS
<1> HIDE DEF D, res, nx
<1>4. PICK f : Ends(f, Step, D, res, nx)
  BY <1>1, <1>2, TailRecursion
<1>5. ASSUME NEW w
      PROVE  Rule(w) <=> LocateRule(trees, follow, w)
  BY LocateBodyIs DEF LocateRule
<1>6. LocateRule(trees, follow, f)
  BY <1>3, <1>4 DEF LocateRule, Ends
<1>7. \E w : Rule(w)
  BY <1>5, <1>6
<1> DEFINE v == CHOOSE w : Rule(w)
<1>8. Rule(v)
  BY <1>7
<1>9. \A p : Locate(trees, p, follow) = v[Start(p)]
  BY LocateIs
<1> HIDE DEF v, Rule
<1> QED
  BY <1>5, <1>8, <1>9

(* What the namespace's walk says of one step.                             *)
LEMMA LocateStep ==
  ASSUME NEW trees, NEW follow, NEW w, LocateRule(trees, follow, w), NEW s \in Step
  PROVE  /\ LocateOver(trees, follow, s) => w[s] = LocateResult(s)
         /\ ~LocateOver(trees, follow, s) => w[s] = w[LocateOn(trees, follow, s)]
BY DEF LocateRule

-----------------------------------------------------------------------------
(* The two walks, side by side.                                            *)

(* s comes before u: a link more has been followed, or as many and a        *)
(* component less is left.                                                 *)
Closer(u, s) ==
  /\ u \in Step /\ u.hops <= MaxHops
  /\ u.hops > s.hops \/ (u.hops = s.hops /\ Len(u.todo) < Len(s.todo))

(* Each step of the host brings its end closer.                            *)
LEMMA HostCloser ==
  ASSUME NEW t, HostDirectory(t), NEW follow, NEW s \in Step, s.hops <= MaxHops,
         ~HostOver(t, follow, s)
  PROVE  Closer(HostOn(t, follow, s), s)
<1> DEFINE n == HostOn(t, follow, s)
<1>1. /\ s.todo # <<>> /\ s.hops \in Nat /\ MaxHops \in Nat
      /\ s.at \in Path /\ s.todo \in Path
      /\ Len(Tail(s.todo)) < Len(s.todo)
  <2>1. s.todo # <<>>
    BY DEF HostOver
  <2>2. s.todo \in Path /\ s.at \in Path /\ s.hops \in Nat
    BY <2>1, Nexts
  <2>3. Len(Tail(s.todo)) \in Nat /\ Len(s.todo) = Len(Tail(s.todo)) + 1
    BY <2>1, <2>2, FirstOff
  <2> QED
    BY <2>1, <2>2, <2>3, NamespaceAssumption
<1>2. n \in Step
  BY HostGoesOn
<1>3. ASSUME NEW where \in Path, n = Passing(s, where)
      PROVE  Closer(n, s)
  <2>1. n = [at |-> where, todo |-> Tail(s.todo), hops |-> s.hops]
    BY <1>1, <1>3, Nexts
  <2> HIDE DEF n
  <2>2. n.hops = s.hops /\ n.todo = Tail(s.todo)
    BY <2>1
  <2> QED
    BY <1>1, <1>2, <2>2 DEF Closer
<1>4. CASE Head(s.todo) = ".."
  BY <1>1, <1>3, <1>4, Nexts DEF HostOn, HostOver
<1>5. CASE Head(s.todo) # ".." /\ ~HostMeets(t, follow, s)
  BY <1>1, <1>3, <1>5, Nexts DEF HostOn
<1>6. CASE Head(s.todo) # ".." /\ HostMeets(t, follow, s)
  <2>1. s.hops # MaxHops
    BY <1>6 DEF HostOver
  <2>2. n.hops = s.hops + 1
    <3> DEFINE y == t[Here(s)].to \o Tail(s.todo)
    <3>1. n = [s EXCEPT !.todo = y, !.hops = @ + 1]
      BY <1>6 DEF HostOn
    <3>2. s = [at |-> s.at, todo |-> s.todo, hops |-> s.hops]
      BY <1>1, Nexts
    <3> HIDE DEF y, n
    <3>3. n = [at |-> s.at, todo |-> y, hops |-> s.hops + 1]
      BY <3>1, <3>2, Hopped
    <3> QED
      BY <3>3 DEF n
  <2> HIDE DEF n
  <2>3. n.hops > s.hops /\ n.hops <= MaxHops
    BY <1>1, <2>1, <2>2
  <2>4. Closer(n, s)
    BY <1>2, <2>3 DEF Closer
  <2> QED
    BY <2>4 DEF n
<1> QED
  BY <1>4, <1>5, <1>6

(* Everything strictly above a place is a directory. *)
ClearTo(t, at) == \A a \in Path : IsPrefix(a, at) /\ a # at => Is(t, a, "dir")

(* The host is at s beneath mount d where the namespace is at u. *)
Twin(t, d, s, u) ==
  /\ s \in Step /\ s.hops <= MaxHops /\ ClearTo(t, s.at)
  /\ u \in Step /\ u.at = At[d] \o s.at /\ u.todo = s.todo /\ u.hops <= s.hops

Agreed(d, host, found) ==
  /\ found.verdict = "ok" /\ found.mount = d
  /\ host.rel \in Path /\ found.rel = host.rel /\ found.path = At[d] \o host.rel

(* Into a directory, everything above stays a directory.                   *)
LEMMA ClearMore ==
  ASSUME NEW t, NEW at \in Path, NEW n \in Name, ClearTo(t, at), Is(t, at, "dir")
  PROVE  ClearTo(t, Append(at, n))
BY AboveOneMore DEF ClearTo

(* And out of one.                                                         *)
LEMMA ClearLess ==
  ASSUME NEW t, NEW at \in Path, at # <<>>, ClearTo(t, at)
  PROVE  ClearTo(t, Front(at)) /\ Is(t, Front(at), "dir")
<1>1. /\ Front(at) \in Path /\ IsPrefix(Front(at), at) /\ Len(Front(at)) \in Nat
      /\ Len(at) = Len(Front(at)) + 1
  BY OneLess, LenProperties DEF Path
<1>2. Front(at) # at
  BY <1>1
<1>3. ASSUME NEW a \in Path, IsPrefix(a, Front(at)), a # Front(at)
      PROVE  Is(t, a, "dir")
  <2>1. IsPrefix(a, at)
    BY <1>1, <1>3, Further
  <2>2. Len(a) \in Nat /\ Len(a) <= Len(Front(at))
    BY <1>1, <1>3, LenProperties DEF Path, IsPrefix
  <2>3. a # at
    BY <1>1, <2>2
  <2> QED
    BY <2>1, <2>3 DEF ClearTo
<1> QED
  BY <1>1, <1>2, <1>3 DEF ClearTo

(* One step of the host, and the same step of the namespace.               *)
LEMMA TwinStep ==
  ASSUME NEW trees, Trees(trees), NEW d \in Mount, ~ShadowsNested(d), NEW follow,
         NEW s, NEW u, Twin(trees[d], d, s, u), ~HostOver(trees[d], follow, s)
  PROVE  /\ ~LocateOver(trees, follow, u)
         /\ Twin(trees[d], d, HostOn(trees[d], follow, s), LocateOn(trees, follow, u))
<1> DEFINE t == trees[d]
           n == HostOn(t, follow, s)
           v == LocateOn(trees, follow, u)
           c == Candidate(u)
<1>1. /\ HostDirectory(t) /\ s \in Step /\ u \in Step /\ s.hops <= MaxHops /\ u.hops <= s.hops
      /\ s.todo # <<>> /\ u.todo = s.todo /\ u.at = At[d] \o s.at
      /\ ClearTo(t, s.at) /\ Is(t, s.at, "dir") /\ At[d] \in Path
      /\ s.at \in Path /\ Head(s.todo) \in Name /\ Tail(s.todo) \in Path
      /\ s.hops \in Nat /\ u.hops \in Nat /\ MaxHops \in Nat
  <2>1. /\ HostDirectory(t) /\ s \in Step /\ u \in Step /\ s.hops <= MaxHops /\ u.hops <= s.hops
        /\ s.todo # <<>> /\ u.todo = s.todo /\ u.at = At[d] \o s.at
        /\ ClearTo(t, s.at) /\ Is(t, s.at, "dir") /\ At[d] \in Path
    BY Points DEF Twin, HostOver, Trees
  <2>2. u.todo # <<>>
    BY <2>1
  <2> QED
    BY <2>1, <2>2, Nexts, NamespaceAssumption
<1>2. Closer(n, s) /\ n \in Step
  BY <1>1, HostCloser DEF Closer
(* A component that is passed. *)
<1>3. ASSUME NEW where \in Path, n = Passing(s, where), ClearTo(t, where),
             c = At[d] \o where, ~Is(t, where, "link") \/ (Tail(s.todo) = <<>> /\ ~follow),
             Head(s.todo) = ".." => s.at # <<>>
      PROVE  ~LocateOver(trees, follow, u) /\ Twin(t, d, n, v)
  <2>1. c \in Path /\ Resolve(c) = d /\ Relative(d, c) = where
    BY <1>3, ResolveBeneath
  <2>2. ~Meets(trees, follow, u)
    BY <1>1, <1>3, <2>1 DEF Meets
  <2>3. ~Lost(u)
    BY <2>1, NamespaceAssumption DEF Lost
  <2>4. Head(u.todo) = ".." => u.at # <<>>
    BY <1>1, <1>3, BeneathLess
  <2>5. ~LocateOver(trees, follow, u)
    BY <1>1, <2>2, <2>3, <2>4 DEF LocateOver
  <2>6. v = Passing(u, c)
    BY <2>2 DEF LocateOn
  <2>7. v = [at |-> c, todo |-> Tail(u.todo), hops |-> u.hops] /\ v \in Step
    BY <1>1, <2>1, <2>6, Nexts
  <2>8. n = [at |-> where, todo |-> Tail(s.todo), hops |-> s.hops]
    BY <1>1, <1>3, Nexts
  <2>9. Twin(t, d, n, v)
    BY <1>1, <1>2, <1>3, <2>7, <2>8 DEF Twin
  <2> QED
    BY <2>5, <2>9
<1>4. CASE Head(s.todo) = ".."
  <2>1. s.at # <<>>
    BY <1>4 DEF HostOver
  <2>2. Front(s.at) \in Path /\ ClearTo(t, Front(s.at)) /\ Is(t, Front(s.at), "dir")
    BY <1>1, <2>1, ClearLess, OneLess
  <2>3. n = Passing(s, Front(s.at))
    BY <1>4 DEF HostOn
  <2>4. c = At[d] \o Front(s.at)
    BY <1>1, <1>4, <2>1, BeneathLess DEF Candidate
  <2>5. ~Is(t, Front(s.at), "link")
    BY <2>2 DEF Is
  <2> QED
    BY <1>3, <2>1, <2>2, <2>3, <2>4, <2>5
<1>5. ASSUME Head(s.todo) # ".."
      PROVE  Here(s) \in Path /\ ClearTo(t, Here(s)) /\ c = At[d] \o Here(s)
  <2>1. Here(s) \in Path /\ ClearTo(t, Here(s))
    BY <1>1, OneMore, ClearMore DEF Here
  <2>2. c = Append(At[d] \o s.at, Head(s.todo))
    BY <1>1, <1>5 DEF Candidate, Here
  <2>3. c = At[d] \o Here(s)
    BY <1>1, <2>2, BeneathMore DEF Here
  <2> QED
    BY <2>1, <2>3
<1>6. CASE Head(s.todo) # ".." /\ ~HostMeets(t, follow, s)
  <2>1. n = Passing(s, Here(s))
    BY <1>6 DEF HostOn
  <2>2. ~Is(t, Here(s), "link") \/ (Tail(s.todo) = <<>> /\ ~follow)
    BY <1>6 DEF HostMeets
  <2> QED
    BY <1>3, <1>5, <1>6, <2>1, <2>2
<1>7. CASE Head(s.todo) # ".." /\ HostMeets(t, follow, s)
  <2>1. /\ Is(t, Here(s), "link")
        /\ Tail(s.todo) # <<>> \/ follow
        /\ s.hops # MaxHops /\ ~t[Here(s)].abs
    BY <1>7 DEF HostMeets, HostOver
  <2>2. c \in Path /\ Resolve(c) = d /\ Relative(d, c) = Here(s) /\ c = At[d] \o Here(s)
    BY <1>5, <1>7, ResolveBeneath
  <2>3. Meets(trees, follow, u)
    BY <1>1, <2>1, <2>2, NamespaceAssumption DEF Meets
  <2>4. ~Lost(u)
    BY <2>2, NamespaceAssumption DEF Lost
  <2>5. u.hops # MaxHops
    BY <1>1, <2>1
  <2>6. ~LocateOver(trees, follow, u)
    BY <1>1, <1>7, <2>4, <2>5 DEF LocateOver
  <2> DEFINE y == t[Here(s)].to \o Tail(s.todo)
  <2>7. v = [at |-> LinkBase(t[Here(s)].abs, c), todo |-> y, hops |-> u.hops + 1]
    BY <1>1, <2>2, <2>3 DEF LocateOn, Followed
  <2>8. LinkBase(t[Here(s)].abs, c) = At[d] \o s.at
    <3>1. c # <<>> /\ Front(c) = At[d] \o s.at
      <4>1. c = Append(At[d] \o s.at, Head(s.todo)) /\ At[d] \o s.at \in Path
        BY <1>1, <1>7, Continued DEF Candidate, Here
      <4> QED
        BY <1>1, <4>1, OneMore
    <3> QED
      BY <2>1, <3>1 DEF LinkBase
  <2>9. n = [at |-> s.at, todo |-> y, hops |-> s.hops + 1]
    <3>1. n = [s EXCEPT !.todo = y, !.hops = @ + 1]
      BY <1>7 DEF HostOn
    <3>2. s = [at |-> s.at, todo |-> s.todo, hops |-> s.hops]
      BY <1>1, Nexts
    <3> HIDE DEF y, n
    <3> QED
      BY <3>1, <3>2, Hopped
  <2>10. v \in Step
    BY <1>1, <2>6, LocateGoesOn
  <2>11. u.hops + 1 <= s.hops + 1 /\ s.hops + 1 <= MaxHops
    BY <1>1, <2>1
  <2>12. Twin(t, d, n, v)
    <3> HIDE DEF y, n, v
    <3> QED
      BY <1>1, <1>2, <2>7, <2>8, <2>9, <2>10, <2>11 DEF Twin
  <2> QED
    BY <2>6, <2>12
<1> QED
  BY <1>4, <1>6, <1>7

(* Wherever the host finds its way from, the namespace finds the same file. *)
LEMMA Simulated ==
  ASSUME NEW trees, Trees(trees), NEW d \in Mount, ~ShadowsNested(d), NEW follow,
         NEW h, HostRule(trees[d], follow, h), NEW l, LocateRule(trees, follow, l),
         NEW s, NEW u, Twin(trees[d], d, s, u), h[s].verdict = "ok"
  PROVE  Agreed(d, h[s], l[u])
<1> DEFINE t == trees[d]
           Wrong(x, y) == Twin(t, d, x, y) /\ h[x].verdict = "ok" /\ ~Agreed(d, h[x], l[y])
           B == {x \in Step : \E y \in Step : Wrong(x, y)}
<1> SUFFICES ASSUME ~Agreed(d, h[s], l[u])
             PROVE  FALSE
  OBVIOUS
<1>0. HostDirectory(t)
  BY DEF Trees
<1>1. s \in B
  BY DEF Twin
<1>2. B \subseteq Step /\ B # {} /\ \A x \in B : x.hops <= MaxHops
  BY <1>1 DEF Twin
<1>3. PICK x \in B : \A z \in B :
        /\ z.hops <= x.hops
        /\ z.hops = x.hops => Len(x.todo) <= Len(z.todo)
  <2> HIDE DEF B
  <2> QED
    BY <1>2, Nearest
<1>4. PICK y \in Step : Wrong(x, y)
  OBVIOUS
<1>5. x \in Step /\ y \in Step /\ x.hops <= MaxHops /\ x.at \in Path
  BY <1>4, StepIs DEF Twin
<1>6. CASE HostOver(t, follow, x)
  <2>1. h[x] = HostResult(t, x)
    BY <1>5, <1>6, HostStep
  <2>2. x.todo = <<>> /\ h[x] = [verdict |-> "ok", rel |-> x.at]
    BY <1>4, <2>1 DEF HostResult, Failed
  <2>3. y.todo = <<>> /\ y.at = At[d] \o x.at
    BY <1>4, <2>2 DEF Twin
  <2>4. Resolve(y.at) = d /\ Relative(d, y.at) = x.at
    BY <1>5, <2>3, ResolveBeneath
  <2>5. LocateOver(trees, follow, y)
    BY <2>3 DEF LocateOver
  <2>6. l[y] = LocateResult(y)
    BY <1>5, <2>5, LocateStep
  <2>7. l[y] = [verdict |-> "ok", mount |-> d, rel |-> x.at, path |-> y.at]
    BY <2>3, <2>4, <2>6, NamespaceAssumption DEF LocateResult
  <2>8. Agreed(d, h[x], l[y])
    <3> HIDE DEF Wrong, B
    <3>1. h[x].rel = x.at
      BY <2>2
    <3>2. /\ l[y].verdict = "ok" /\ l[y].mount = d
          /\ l[y].rel = x.at /\ l[y].path = y.at
      BY <2>7
    <3> QED
      BY <1>5, <2>3, <3>1, <3>2 DEF Agreed
  <2> QED
    BY <1>4, <2>8
<1>7. CASE ~HostOver(t, follow, x)
  <2> DEFINE xn == HostOn(t, follow, x)
             yn == LocateOn(trees, follow, y)
  <2>1. ~LocateOver(trees, follow, y) /\ Twin(t, d, xn, yn)
    BY <1>4, <1>7, TwinStep
  <2>2. h[x] = h[xn] /\ l[y] = l[yn]
    BY <1>5, <1>7, <2>1, HostStep, LocateStep
  <2>3. Wrong(xn, yn)
    BY <1>4, <2>1, <2>2
  <2>4. xn \in B
    BY <2>1, <2>3 DEF Twin
  <2>5. Closer(xn, x)
    BY <1>0, <1>5, <1>7, HostCloser
  <2>6. xn.hops \in Nat /\ x.hops \in Nat /\ Len(xn.todo) \in Nat /\ Len(x.todo) \in Nat
    <3>1. \A z \in Step : z.hops \in Nat /\ z.todo \in Path
      BY StepIs
    <3>2. \A z \in Step : z.hops \in Nat /\ Len(z.todo) \in Nat
      BY <3>1, LenProperties DEF Path
    <3> QED
      BY <1>5, <2>5, <3>2 DEF Closer
  <2> HIDE DEF xn, B
  <2>7. xn.hops <= x.hops /\ (xn.hops = x.hops => Len(x.todo) <= Len(xn.todo))
    BY <1>3, <2>4
  <2> QED
    BY <2>5, <2>6, <2>7 DEF Closer
<1> QED
  BY <1>6, <1>7

-----------------------------------------------------------------------------
(* The way to a mount point.                                               *)

(* The first component of a path continued.                                *)
LEMMA FirstIs ==
  ASSUME NEW p \in Path, p # <<>>, NEW r \in Path
  PROVE  /\ p \o r \in Path /\ p \o r # <<>>
         /\ Head(p \o r) = Head(p) /\ Tail(p \o r) = Tail(p) \o r
<1> DEFINE z == p \o r
           x == Tail(p)
           y == Tail(z)
           w == x \o r
<1>1. /\ z \in Path /\ Len(z) = Len(p) + Len(r) /\ Len(p) \in Nat \ {0} /\ Len(r) \in Nat
      /\ \A i \in 1..(Len(p) + Len(r)) : z[i] = IF i <= Len(p) THEN p[i] ELSE r[i - Len(p)]
  <2>1. Len(p) \in Nat \ {0}
    BY FirstOff
  <2> QED
    BY <2>1, ConcatProperties, LenProperties DEF Path
<1> HIDE DEF z
<1>2. z # <<>>
  BY <1>1
<1>3. /\ x \in Path /\ Len(x) = Len(p) - 1
      /\ \A i \in 1..Len(x) : x[i] = p[i + 1]
  BY HeadTailProperties DEF Path
<1>4. /\ y \in Path /\ Len(y) = Len(z) - 1
      /\ \A i \in 1..Len(y) : y[i] = z[i + 1]
  BY <1>1, <1>2, HeadTailProperties DEF Path
<1> HIDE DEF x, y
<1>5. /\ w \in Path /\ Len(w) = Len(x) + Len(r)
      /\ \A i \in 1..(Len(x) + Len(r)) : w[i] = IF i <= Len(x) THEN x[i] ELSE r[i - Len(x)]
  BY <1>3, ConcatProperties DEF Path
<1> HIDE DEF w
<1>6. Len(y) = Len(w)
  BY <1>1, <1>3, <1>4, <1>5
<1>7. ASSUME NEW i \in 1..Len(y)
      PROVE  y[i] = w[i]
  <2>1. CASE i <= Len(x)
    BY <2>1, <1>1, <1>3, <1>4, <1>5
  <2>2. CASE ~(i <= Len(x))
    BY <2>2, <1>1, <1>3, <1>4, <1>5
  <2> QED
    BY <2>1, <2>2
<1>8. y = w
  BY <1>4, <1>5, <1>6, <1>7, SeqEqual DEF Path
<1>9. Head(z) = Head(p)
  <2>1. Head(z) = z[1] /\ Head(p) = p[1]
    BY <1>1, <1>2 DEF Path
  <2> QED
    BY <1>1, <2>1
<1> QED
  BY <1>1, <1>2, <1>8, <1>9 DEF z, x, y, w

(* The first component of what is left goes over to what is behind.        *)
LEMMA FirstTaken ==
  ASSUME NEW a \in Path, NEW b \in Path, b # <<>>
  PROVE  /\ Append(a, Head(b)) \in Path /\ Tail(b) \in Path
         /\ Append(a, Head(b)) \o Tail(b) = a \o b
         /\ Head(b) = (a \o b)[Len(a) + 1] /\ Len(a) + 1 \in 1..Len(a \o b)
<1> DEFINE n == Head(b)
           y == Tail(b)
           m == Append(a, n)
           z == a \o b
           w == m \o y
<1>1. n \in Name /\ y \in Path /\ Len(b) \in Nat \ {0} /\ Len(y) = Len(b) - 1
  BY FirstOff
<1>2. \A i \in 1..Len(y) : y[i] = b[i + 1]
  BY HeadTailProperties DEF Path
<1>3. n = b[1]
  BY <1>1 DEF Path
<1> HIDE DEF n, y
<1>4. /\ m \in Path /\ Len(m) = Len(a) + 1 /\ Len(a) \in Nat
      /\ \A i \in 1..Len(a) : m[i] = a[i]
      /\ m[Len(a) + 1] = n
  BY <1>1, AppendProperties, LenProperties DEF Path
<1> HIDE DEF m
<1>5. /\ z \in Path /\ Len(z) = Len(a) + Len(b)
      /\ \A i \in 1..(Len(a) + Len(b)) : z[i] = IF i <= Len(a) THEN a[i] ELSE b[i - Len(a)]
  BY ConcatProperties DEF Path
<1>6. /\ w \in Path /\ Len(w) = Len(m) + Len(y)
      /\ \A i \in 1..(Len(m) + Len(y)) : w[i] = IF i <= Len(m) THEN m[i] ELSE y[i - Len(m)]
  BY <1>1, <1>4, ConcatProperties DEF Path
<1> HIDE DEF z, w
<1>7. Len(w) = Len(z)
  BY <1>1, <1>4, <1>5, <1>6
<1>8. ASSUME NEW i \in 1..Len(w)
      PROVE  w[i] = z[i]
  <2>1. CASE i <= Len(a)
    BY <2>1, <1>1, <1>4, <1>5, <1>6
  <2>2. CASE i = Len(a) + 1
    BY <2>2, <1>1, <1>3, <1>4, <1>5, <1>6
  <2>3. CASE i > Len(a) + 1
    <3>1. i - Len(m) \in 1..Len(y) /\ ~(i <= Len(m)) /\ ~(i <= Len(a))
          /\ i \in 1..(Len(m) + Len(y)) /\ i \in 1..(Len(a) + Len(b))
      BY <2>3, <1>1, <1>4, <1>5, <1>6, <1>7
    <3>2. w[i] = y[i - Len(m)] /\ z[i] = b[i - Len(a)]
      BY <3>1, <1>5, <1>6
    <3>3. y[i - Len(m)] = b[(i - Len(m)) + 1] /\ (i - Len(m)) + 1 = i - Len(a)
      BY <3>1, <1>2, <1>4
    <3> QED
      BY <3>2, <3>3
  <2> QED
    BY <2>1, <2>2, <2>3, <1>4
<1>9. w = z
  BY <1>5, <1>6, <1>7, <1>8, SeqEqual DEF Path
<1>10. n = z[Len(a) + 1] /\ Len(a) + 1 \in 1..Len(z)
  BY <1>1, <1>3, <1>4, <1>5
<1> QED
  BY <1>1, <1>4, <1>9, <1>10 DEF n, y, m, z, w

NoUps(p) == \A i \in 1..Len(p) : p[i] # ".."

(* Nothing on the way to x, nor x itself, stops a walk or leads it astray.  *)
Straight(trees, x) ==
  \A c \in Path :
    IsPrefix(c, x) /\ c # <<>> =>
      /\ Resolve(c) = None => c # x /\ HasMountBelow(c)
      /\ Resolve(c) # None => ~Is(trees[Resolve(c)], Relative(Resolve(c), c), "link")

Place(a, b) == [at |-> a, todo |-> b, hops |-> 0]

(* One step straight on.                                                   *)
LEMMA StraightStep ==
  ASSUME NEW trees, NEW follow, NEW l, LocateRule(trees, follow, l),
         NEW a \in Path, NEW b \in Path, b # <<>>, NEW rest \in Path,
         NoUps(a \o b), Straight(trees, a \o b)
  PROVE  l[Place(a, b \o rest)] = l[Place(Append(a, Head(b)), Tail(b) \o rest)]
<1> DEFINE s == Place(a, b \o rest)
           c == Append(a, Head(b))
<1>1. /\ b \o rest \in Path /\ b \o rest # <<>>
      /\ Head(b \o rest) = Head(b) /\ Tail(b \o rest) = Tail(b) \o rest
  BY FirstIs
<1>2. /\ s \in Step /\ s.at = a /\ s.todo = b \o rest /\ s.hops = 0
  BY <1>1, StepIs DEF Place
<1>3. /\ c \in Path /\ Tail(b) \in Path /\ c \o Tail(b) = a \o b
      /\ Head(b) # ".." /\ Head(b) \in Name
  BY FirstTaken, FirstOff DEF NoUps
<1>4. c # <<>> /\ IsPrefix(c, a \o b)
  <2>1. c # <<>>
    BY <1>3, OneMore
  <2>2. IsPrefix(c, c \o Tail(b))
    BY <1>3, Continued
  <2> QED
    BY <1>3, <2>1, <2>2
<1> HIDE DEF s
<1>5. Candidate(s) = c
  BY <1>1, <1>2, <1>3 DEF Candidate, Here
<1>6. ASSUME Resolve(c) = None
      PROVE  Tail(s.todo) # <<>> /\ HasMountBelow(c)
  <2>1. c # a \o b /\ HasMountBelow(c)
    BY <1>3, <1>4, <1>6 DEF Straight
  <2>2. Tail(b) # <<>>
    <3>1. c \o <<>> = c
      BY <1>3, NothingAfter
    <3> QED
      BY <1>3, <2>1, <3>1
  <2>3. Tail(b) \o rest # <<>>
    BY <1>3, <2>2, FirstIs
  <2> QED
    BY <1>1, <1>2, <2>1, <2>3
<1>7. ~Lost(s)
  BY <1>4, <1>5, <1>6 DEF Lost
<1>8. ~Meets(trees, follow, s)
  BY <1>3, <1>4, <1>5 DEF Meets, Straight
<1>9. ~LocateOver(trees, follow, s)
  BY <1>1, <1>2, <1>3, <1>7, <1>8 DEF LocateOver
<1>10. LocateOn(trees, follow, s) = Place(c, Tail(b) \o rest)
  <2>1. LocateOn(trees, follow, s) = Passing(s, c)
    BY <1>5, <1>8 DEF LocateOn
  <2> HIDE DEF c
  <2>2. Passing(s, c) = [at |-> c, todo |-> Tail(s.todo), hops |-> s.hops]
    BY <1>1, <1>2, <1>3, Nexts
  <2> QED
    BY <1>1, <1>2, <2>1, <2>2 DEF Place
<1>11. l[s] = l[LocateOn(trees, follow, s)]
  BY <1>2, <1>9, LocateStep
<1> QED
  BY <1>10, <1>11 DEF s

(* A walk goes straight on to where nothing stops it.                      *)
LEMMA StraightOn ==
  ASSUME NEW trees, NEW follow, NEW l, LocateRule(trees, follow, l),
         NEW x \in Path, NEW rest \in Path, NoUps(x), Straight(trees, x)
  PROVE  l[Start(x \o rest)] = l[Place(x, rest)]
<1> DEFINE Wrong(a, b) == a \o b = x /\ l[Place(a, b \o rest)] # l[Place(x, rest)]
           B == {b \in Path : \E a \in Path : Wrong(a, b)}
           left == {Len(b) : b \in B}
<1> SUFFICES ASSUME B # {}
             PROVE  FALSE
  <2>1. <<>> \in Path /\ <<>> \o x = x
    BY NothingAfter
  <2>2. x \notin B
    OBVIOUS
  <2>3. l[Place(<<>>, x \o rest)] = l[Place(x, rest)]
    BY <2>1, <2>2
  <2> QED
    BY <2>3 DEF Place, Start
<1>1. left \subseteq Nat /\ left # {}
  <2>1. \A b \in B : Len(b) \in Nat
    BY LenProperties DEF Path
  <2> HIDE DEF B
  <2> QED
    BY <2>1
<1>2. PICK n \in left : \A k \in left : n <= k
  <2> HIDE DEF left
  <2> QED
    BY <1>1, Smallest
<1>3. PICK b \in B : n = Len(b)
  OBVIOUS
<1>4. PICK a \in Path : Wrong(a, b)
  OBVIOUS
<1>5. b \in Path
  OBVIOUS
<1>6. CASE b = <<>>
  <2>1. a = x /\ b \o rest = rest
    BY <1>4, <1>6, NothingAfter
  <2> QED
    BY <1>4, <2>1
<1>7. CASE b # <<>>
  <2> DEFINE c == Append(a, Head(b))
             y == Tail(b)
  <2>1. c \in Path /\ y \in Path /\ c \o y = x
    BY <1>4, <1>5, <1>7, FirstTaken
  <2>2. l[Place(a, b \o rest)] = l[Place(c, y \o rest)]
    <3>1. NoUps(a \o b) /\ Straight(trees, a \o b)
      BY <1>4
    <3> HIDE DEF left, B, Wrong
    <3> QED
      BY <1>5, <1>7, <3>1, StraightStep
  <2>3. Len(y) \in Nat /\ Len(b) = Len(y) + 1
    BY <1>5, <1>7, FirstOff
  <2> HIDE DEF c, y
  <2>4. Wrong(c, y)
    BY <1>4, <2>1, <2>2
  <2>5. y \in B
    BY <2>1, <2>4
  <2>6. Len(y) \in left
    BY <2>5
  <2> HIDE DEF left, B, Wrong
  <2>7. n <= Len(y)
    BY <1>2, <2>6
  <2> QED
    BY <1>3, <2>3, <2>7
<1> QED
  BY <1>6, <1>7

(* No mount point lies beneath a link of another mount: PointsClear, of any *)
(* trees.                                                                  *)
Clears(trees) ==
  \A m, n \in Mount : \A q \in Prefixes(At[m]) \ {At[m]} :
    Resolve(q) = n => ~Is(trees[n], Relative(n, q), "link")

(* The way to a mount point is straight, with no mount point beneath a     *)
(* link.                                                                   *)
LEMMA PointStraight ==
  ASSUME NEW trees, Trees(trees), Clears(trees), NEW d \in Mount, ~ShadowsNested(d)
  PROVE  Straight(trees, At[d]) /\ NoUps(At[d])
<1> DEFINE x == At[d]
<1>0. x \in Path
  BY Points
<1>1. ASSUME NEW c \in Path, IsPrefix(c, x)
      PROVE  /\ Resolve(c) = None => c # x /\ HasMountBelow(c)
             /\ Resolve(c) # None => ~Is(trees[Resolve(c)], Relative(Resolve(c), c), "link")
  <2>1. CASE c = x
    <3>1. x = x \o <<>>
      BY <1>0, NothingAfter
    <3>2. Resolve(x) = d /\ Relative(d, x) = <<>>
      BY <3>1, StepIs, ResolveBeneath
    <3>3. Is(trees[d], <<>>, "dir")
      BY TreeIs DEF Trees
    <3> QED
      BY <2>1, <3>2, <3>3, NamespaceAssumption DEF Is
  <2>2. CASE c # x
    <3>1. HasMountBelow(c)
      BY <1>1, <2>2 DEF HasMountBelow, IsStrictPrefix
    <3>2. c \in Prefixes(x)
      <4>1. /\ Len(c) \in Nat /\ Len(x) \in Nat /\ Len(c) <= Len(x)
            /\ SubSeq(c, 1, Len(c)) = SubSeq(x, 1, Len(c))
        BY <1>0, <1>1, LenProperties DEF Path, IsPrefix
      <4>2. SubSeq(c, 1, Len(c)) = c
        BY SubSeqFull DEF Path
      <4>3. Len(c) \in 0..Len(x)
        BY <4>1
      <4> QED
        BY <4>1, <4>2, <4>3 DEF Prefixes
    <3>3. Resolve(c) # None => Resolve(c) \in Mount
      BY GovernedBy
    <3> QED
      BY <2>2, <3>1, <3>2, <3>3 DEF Clears
  <2> QED
    BY <2>1, <2>2
<1>2. Straight(trees, x)
  BY <1>1 DEF Straight
<1>3. NoUps(x)
  <2>1. DOMAIN x = 1..Len(x)
    BY <1>0, LenProperties DEF Path
  <2> QED
    BY <2>1, NamespaceAssumption DEF NoUps
<1> QED
  BY <1>2, <1>3

(* A path given to the host in one step, and walked.                        *)
LEMMA Agreement ==
  ASSUME NEW trees, Trees(trees), Clears(trees), NEW d \in Mount, ~ShadowsNested(d),
         NEW rel \in Path, NEW follow, HostWalk(trees[d], rel, follow).verdict = "ok"
  PROVE  Agreed(d, HostWalk(trees[d], rel, follow), Locate(trees, At[d] \o rel, follow))
<1>1. HostDirectory(trees[d])
  BY DEF Trees
<1>2. PICK h : /\ HostRule(trees[d], follow, h)
               /\ \A r : HostWalk(trees[d], r, follow) = h[Start(r)]
  BY <1>1, HostWalks
<1>3. PICK l : /\ LocateRule(trees, follow, l)
               /\ \A p : Locate(trees, p, follow) = l[Start(p)]
  BY Locates
<1> DEFINE s == Start(rel)
           u == Place(At[d], rel)
<1>4. l[Start(At[d] \o rel)] = l[u]
  BY <1>3, PointStraight, Points, StraightOn
<1>5. Twin(trees[d], d, s, u)
  <2>1. /\ s \in Step /\ s.at = <<>> /\ s.todo = rel /\ s.hops = 0
        /\ u \in Step /\ u.at = At[d] /\ u.todo = rel /\ u.hops = 0
    BY StepIs, Points DEF Start, Place
  <2>2. At[d] \o <<>> = At[d]
    BY Points, NothingAfter
  <2>3. ClearTo(trees[d], <<>>)
    <3>1. ASSUME NEW a \in Path, IsPrefix(a, <<>>)
          PROVE  a = <<>>
      <4>1. Len(a) \in Nat /\ Len(a) <= 0 /\ Len(<<>>) = 0
        BY <3>1, LenProperties DEF Path, IsPrefix
      <4> QED
        BY <3>1, <4>1, SameLength, StepIs
    <3> QED
      BY <3>1 DEF ClearTo
  <2> QED
    BY <2>1, <2>2, <2>3, NamespaceAssumption DEF Twin
<1>6. h[s].verdict = "ok"
  BY <1>2
<1>7. Agreed(d, h[s], l[u])
  BY <1>2, <1>3, <1>5, <1>6, Simulated
<1> QED
  BY <1>2, <1>3, <1>4, <1>7

-----------------------------------------------------------------------------
(* Where walks end.                                                        *)

Within == {s \in Step : s.hops <= MaxHops}

(* Each step of the namespace brings its end closer.                       *)
LEMMA LocateCloser ==
  ASSUME NEW trees, Trees(trees), NEW follow, NEW s \in Within, ~LocateOver(trees, follow, s)
  PROVE  Closer(LocateOn(trees, follow, s), s)
<1> DEFINE n == LocateOn(trees, follow, s)
           c == Candidate(s)
<1>1. /\ s \in Step /\ s.todo # <<>> /\ s.hops \in Nat /\ MaxHops \in Nat /\ s.hops <= MaxHops
      /\ Len(Tail(s.todo)) < Len(s.todo)
  <2>1. s \in Step /\ s.todo # <<>> /\ s.hops <= MaxHops
    BY DEF LocateOver, Within
  <2>2. s.todo \in Path /\ s.hops \in Nat
    BY <2>1, Nexts
  <2>3. Len(Tail(s.todo)) \in Nat /\ Len(s.todo) = Len(Tail(s.todo)) + 1
    BY <2>1, <2>2, FirstOff
  <2> QED
    BY <2>1, <2>2, <2>3, NamespaceAssumption
<1>2. n \in Step /\ c \in Path
  BY <1>1, LocateGoesOn
<1>3. CASE ~Meets(trees, follow, s)
  <2>1. n = [at |-> c, todo |-> Tail(s.todo), hops |-> s.hops]
    BY <1>1, <1>2, <1>3, Nexts DEF LocateOn
  <2> HIDE DEF n
  <2>2. n.hops = s.hops /\ n.todo = Tail(s.todo)
    BY <2>1
  <2>3. Closer(n, s)
    BY <1>1, <1>2, <2>2 DEF Closer
  <2> QED
    BY <2>3 DEF n
<1>4. CASE Meets(trees, follow, s)
  <2>1. s.hops # MaxHops
    BY <1>4 DEF LocateOver
  <2>2. n.hops = s.hops + 1
    BY <1>4 DEF LocateOn, Followed
  <2> HIDE DEF n
  <2>3. n.hops > s.hops /\ n.hops <= MaxHops
    BY <1>1, <2>1, <2>2
  <2>4. Closer(n, s)
    BY <1>2, <2>3 DEF Closer
  <2> QED
    BY <2>4 DEF n
<1> QED
  BY <1>3, <1>4

(* No walk goes on for ever: from anywhere in a set that it does not leave, *)
(* it ends somewhere in it.                                                *)
Goes(w, nx, res, over, I) ==
  /\ I \subseteq Within
  /\ \A s \in I : s \in over => w[s] = res[s]
  /\ \A s \in I : s \notin over => nx[s] \in I /\ Closer(nx[s], s) /\ w[s] = w[nx[s]]

(* Otherwise there were a step nearest to the end that did not end.        *)
LEMMA Ending ==
  ASSUME NEW w, NEW nx, NEW res, NEW over, NEW I, Goes(w, nx, res, over, I), NEW s \in I
  PROVE  \E e \in I : e \in over /\ w[s] = res[e]
<1> USE DEF Goes
<1> DEFINE Good(x) == \E e \in I : e \in over /\ w[x] = res[e]
           B == {x \in I : ~Good(x)}
<1> SUFFICES ASSUME ~Good(s)
             PROVE  FALSE
  OBVIOUS
<1>1. B \subseteq Step /\ B # {} /\ \A x \in B : x.hops <= MaxHops
  BY DEF Within
<1>2. PICK x \in B : \A z \in B :
        /\ z.hops <= x.hops
        /\ z.hops = x.hops => Len(x.todo) <= Len(z.todo)
  <2> HIDE DEF B
  <2> QED
    BY <1>1, Nearest
<1>3. x \in I /\ ~Good(x)
  OBVIOUS
<1>4. x \notin over
  BY <1>3
<1>5. nx[x] \in I /\ Closer(nx[x], x) /\ w[x] = w[nx[x]]
  BY <1>3, <1>4
<1>6. ~Good(nx[x])
  BY <1>3, <1>5
<1>7. nx[x] \in B
  BY <1>5, <1>6
<1>8. /\ nx[x].hops \in Nat /\ x.hops \in Nat
      /\ Len(nx[x].todo) \in Nat /\ Len(x.todo) \in Nat
  <2>1. \A z \in Step : z.hops \in Nat /\ z.todo \in Path
    BY StepIs
  <2>2. \A z \in Step : z.hops \in Nat /\ Len(z.todo) \in Nat
    BY <2>1, LenProperties DEF Path
  <2> QED
    BY <1>3, <1>5, <2>2 DEF Within
<1> HIDE DEF B
<1>9. nx[x].hops <= x.hops /\ (nx[x].hops = x.hops => Len(x.todo) <= Len(nx[x].todo))
  BY <1>2, <1>7
<1> QED
  BY <1>5, <1>8, <1>9 DEF Closer

(* The host's walk ends.                                                   *)
LEMMA HostEnding ==
  ASSUME NEW t, HostDirectory(t), NEW follow, NEW w, HostRule(t, follow, w),
         NEW I, I \subseteq Within,
         \A s \in I : ~HostOver(t, follow, s) => HostOn(t, follow, s) \in I,
         NEW s \in I
  PROVE  \E e \in I : HostOver(t, follow, e) /\ w[s] = HostResult(t, e)
<1> DEFINE nx == [x \in I |-> HostOn(t, follow, x)]
           res == [x \in I |-> HostResult(t, x)]
           over == {x \in I : HostOver(t, follow, x)}
<1>1. ASSUME NEW x \in I
      PROVE  /\ x \in over <=> HostOver(t, follow, x)
             /\ nx[x] = HostOn(t, follow, x) /\ res[x] = HostResult(t, x)
  OBVIOUS
<1> HIDE DEF nx, res, over
<1>2. \A x \in I : x \in over => w[x] = res[x]
  BY <1>1, HostStep DEF Within
<1>3. ASSUME NEW x \in I, x \notin over
      PROVE  nx[x] \in I /\ Closer(nx[x], x) /\ w[x] = w[nx[x]]
  BY <1>1, <1>3, HostStep, HostCloser DEF Within
<1>4. PICK e \in I : e \in over /\ w[s] = res[e]
  <2>1. Goes(w, nx, res, over, I)
    BY <1>2, <1>3 DEF Goes
  <2> QED
    BY <2>1, Ending
<1> QED
  BY <1>1, <1>4

(* The namespace's walk ends.                                              *)
LEMMA LocateEnding ==
  ASSUME NEW trees, Trees(trees), NEW follow, NEW w, LocateRule(trees, follow, w),
         NEW I, I \subseteq Within,
         \A s \in I : ~LocateOver(trees, follow, s) => LocateOn(trees, follow, s) \in I,
         NEW s \in I
  PROVE  \E e \in I : LocateOver(trees, follow, e) /\ w[s] = LocateResult(e)
<1> DEFINE nx == [x \in I |-> LocateOn(trees, follow, x)]
           res == [x \in I |-> LocateResult(x)]
           over == {x \in I : LocateOver(trees, follow, x)}
<1>1. ASSUME NEW x \in I
      PROVE  /\ x \in over <=> LocateOver(trees, follow, x)
             /\ nx[x] = LocateOn(trees, follow, x) /\ res[x] = LocateResult(x)
  OBVIOUS
<1> HIDE DEF nx, res, over
<1>2. \A x \in I : x \in over => w[x] = res[x]
  BY <1>1, LocateStep DEF Within
<1>3. ASSUME NEW x \in I, x \notin over
      PROVE  nx[x] \in I /\ Closer(nx[x], x) /\ w[x] = w[nx[x]]
  BY <1>1, <1>3, LocateStep, LocateCloser DEF Within
<1>4. PICK e \in I : e \in over /\ w[s] = res[e]
  <2>1. Goes(w, nx, res, over, I)
    BY <1>2, <1>3 DEF Goes
  <2> QED
    BY <2>1, Ending
<1> QED
  BY <1>1, <1>4

(* What a walk finds, it finds at a path.                                  *)
LEMMA HostFinds ==
  ASSUME NEW t, HostDirectory(t), NEW rel \in Path, NEW follow,
         HostWalk(t, rel, follow).verdict = "ok"
  PROVE  HostWalk(t, rel, follow).rel \in Path
<1>1. PICK w : /\ HostRule(t, follow, w)
               /\ \A r : HostWalk(t, r, follow) = w[Start(r)]
  BY HostWalks
<1>2. Start(rel) \in Within
  <2>1. Start(rel) \in Step /\ Start(rel).hops = 0
    BY StepIs DEF Start
  <2> QED
    BY <2>1, NamespaceAssumption DEF Within
<1>3. \A s \in Within : ~HostOver(t, follow, s) => HostOn(t, follow, s) \in Within
  BY HostCloser DEF Within, Closer
<1>4. PICK e \in Within : HostOver(t, follow, e) /\ w[Start(rel)] = HostResult(t, e)
  BY <1>1, <1>2, <1>3, HostEnding
<1>5. HostResult(t, e).verdict = "ok"
  BY <1>1, <1>4
<1>6. HostResult(t, e) = [verdict |-> "ok", rel |-> e.at]
  BY <1>5 DEF HostResult, Failed
<1>7. e.at \in Path
  BY StepIs DEF Within
<1>8. HostResult(t, e).rel = e.at
  BY <1>6
<1> QED
  BY <1>1, <1>4, <1>7, <1>8

(* Located, by its governing mount.                                        *)
Found(v) ==
  /\ v.path \in Path /\ v.mount = Resolve(v.path) /\ v.mount \in Mount
  /\ v.rel = Relative(v.mount, v.path) /\ v.rel \in Path
  /\ v.path = At[v.mount] \o v.rel

(* What is located is located in a mount, at a path beneath its point.     *)
LEMMA LocateFinds ==
  ASSUME NEW trees, Trees(trees), NEW p \in Path, NEW follow,
         Locate(trees, p, follow).verdict = "ok"
  PROVE  Found(Locate(trees, p, follow))
<1>1. PICK w : /\ LocateRule(trees, follow, w)
               /\ \A q : Locate(trees, q, follow) = w[Start(q)]
  BY Locates
<1>2. Start(p) \in Within
  <2>1. Start(p) \in Step /\ Start(p).hops = 0
    BY StepIs DEF Start
  <2> QED
    BY <2>1, NamespaceAssumption DEF Within
<1>3. \A s \in Within : ~LocateOver(trees, follow, s) => LocateOn(trees, follow, s) \in Within
  BY LocateCloser DEF Within, Closer
<1>4. PICK e \in Within : LocateOver(trees, follow, e) /\ w[Start(p)] = LocateResult(e)
  BY <1>1, <1>2, <1>3, LocateEnding
<1> DEFINE v == LocateResult(e)
           m == Resolve(e.at)
<1>5. v.verdict = "ok"
  BY <1>1, <1>4
<1>6. m # None /\ v = [verdict |-> "ok", mount |-> m, rel |-> Relative(m, e.at), path |-> e.at]
  BY <1>5 DEF LocateResult, Failed
<1>7. e.at \in Path
  BY StepIs DEF Within
<1>8. m \in Mount /\ Relative(m, e.at) \in Path /\ e.at = At[m] \o Relative(m, e.at)
  BY <1>6, <1>7, GovernedBy
<1> HIDE DEF v
<1>9. v.mount = m /\ v.rel = Relative(m, e.at) /\ v.path = e.at
  BY <1>6
<1>10. Found(v)
  BY <1>7, <1>8, <1>9 DEF Found
<1> QED
  BY <1>1, <1>4, <1>10 DEF v

-----------------------------------------------------------------------------
(* What the host does to a tree leaves a tree.                             *)

(* HostDirectory, in parts. *)
Placed(t) == \A r \in DOMAIN t : r # <<>> => Is(t, Front(r), "dir")
Linked(t) == \A r \in DOMAIN t : t[r].kind = "link" => t[r].abs \in BOOLEAN /\ t[r].to \in Path

(* HostDirectory, by its parts.                                            *)
LEMMA TreeParts ==
  ASSUME NEW t
  PROVE  HostDirectory(t)
           <=> /\ DOMAIN t \subseteq Path /\ <<>> \in DOMAIN t /\ t[<<>>].kind = "dir"
               /\ Placed(t) /\ Linked(t)
<1>1. Is(t, <<>>, "dir") <=> <<>> \in DOMAIN t /\ t[<<>>].kind = "dir"
  BY DEF Is
<1>2. Path = Seq(STRING)
  BY DEF Path, Name
<1> QED
  BY <1>1, <1>2 DEF HostDirectory, Placed, Linked

(* The root has nothing above it.                                          *)
LEMMA NothingAbove ==
  ASSUME NEW p \in Path, IsPrefix(p, <<>>)
  PROVE  p = <<>>
<1>1. Len(p) \in Nat /\ Len(p) <= 0 /\ Len(<<>>) = 0
  BY LenProperties DEF Path, IsPrefix
<1> QED
  BY <1>1, SameLength, StepIs

(* Everything above what is there is a directory.                          *)
LEMMA AboveIsDir ==
  ASSUME NEW t, HostDirectory(t), NEW s \in DOMAIN t, NEW p \in Path, IsPrefix(p, s), p # s
  PROVE  Is(t, p, "dir")
<1> DEFINE B == {x \in DOMAIN t : IsPrefix(p, x) /\ p # x}
           lengths == {Len(x) : x \in B}
<1> SUFFICES ASSUME ~Is(t, p, "dir")
             PROVE  FALSE
  OBVIOUS
<1>0. DOMAIN t \subseteq Path /\ Placed(t)
  BY TreeParts
<1>1. lengths \subseteq Nat /\ lengths # {}
  <2>1. \A x \in B : Len(x) \in Nat
    BY <1>0, LenProperties DEF Path
  <2>2. s \in B
    OBVIOUS
  <2> HIDE DEF B
  <2> QED
    BY <2>1, <2>2
<1>2. PICK n \in lengths : \A k \in lengths : n <= k
  <2> HIDE DEF lengths
  <2> QED
    BY <1>1, Smallest
<1>3. PICK x \in B : n = Len(x)
  OBVIOUS
<1>4. x \in Path /\ x \in DOMAIN t /\ IsPrefix(p, x) /\ p # x
  BY <1>0
<1>5. x # <<>>
  BY <1>4, NothingAbove
<1> DEFINE f == Front(x)
<1>6. f \in Path /\ Len(x) = Len(f) + 1 /\ Len(f) \in Nat
  BY <1>4, <1>5, OneLess, LenProperties DEF Path
<1>7. IsPrefix(p, f)
  BY <1>4, <1>5, AboveFront
<1>8. Is(t, f, "dir")
  BY <1>0, <1>4, <1>5 DEF Placed
<1> HIDE DEF f
<1>9. f \in B
  BY <1>7, <1>8 DEF Is
<1>10. Len(f) \in lengths
  BY <1>9
<1> HIDE DEF lengths
<1>11. n <= Len(f)
  BY <1>2, <1>10
<1> QED
  BY <1>3, <1>6, <1>11

(* Something is put where there was nothing, or in the place of what is not *)
(* a directory.                                                            *)
Fits(node) ==
  node.kind = "link" => node.abs \in BOOLEAN /\ node.to \in Path

(* Then the tree stays one.                                                *)
LEMMA PutStays ==
  ASSUME NEW t, HostDirectory(t), NEW r \in Path, NEW node, Fits(node),
         Absent(t, r) \/ (r \in DOMAIN t /\ ~Is(t, r, "dir"))
  PROVE  HostDirectory(With(t, r, node))
<1> DEFINE u == With(t, r, node)
<1>1. /\ DOMAIN u = DOMAIN t \cup {r}
      /\ \A s \in DOMAIN u : u[s] = IF s = r THEN node ELSE t[s]
  BY DEF With
<1> HIDE DEF u
<1>2. /\ DOMAIN t \subseteq Path /\ <<>> \in DOMAIN t /\ t[<<>>].kind = "dir"
      /\ Placed(t) /\ Linked(t)
  BY TreeParts
<1>3. r # <<>> /\ Is(t, Front(r), "dir")
  <2>1. r # <<>>
    BY <1>2 DEF Absent, Is
  <2> QED
    BY <1>2, <2>1 DEF Absent, Placed
<1>4. ASSUME NEW s, Is(t, s, "dir")
      PROVE  Is(u, s, "dir")
  <2>1. s # r
    BY <1>4 DEF Absent, Is
  <2> QED
    BY <1>1, <1>4, <2>1 DEF Is
<1>5. Placed(u)
  <2>1. ASSUME NEW s \in DOMAIN u, s # <<>>
        PROVE  Is(t, Front(s), "dir")
    BY <1>1, <1>2, <1>3, <2>1 DEF Placed
  <2> QED
    BY <1>4, <2>1 DEF Placed
<1>6. Linked(u)
  BY <1>1, <1>2 DEF Linked, Fits
<1> QED
  BY <1>1, <1>2, <1>3, <1>5, <1>6, TreeParts DEF u

(* Something is removed, and with it all that is beneath it.                *)
LEMMA TakenStays ==
  ASSUME NEW t, HostDirectory(t), NEW gone,
         <<>> \notin gone,
         \A s \in DOMAIN t : s # <<>> /\ Front(s) \in gone => s \in gone
  PROVE  HostDirectory(Without(t, gone))
<1> DEFINE u == Without(t, gone)
<1>1. DOMAIN u = DOMAIN t \ gone /\ \A s \in DOMAIN u : u[s] = t[s]
  BY DEF Without
<1> HIDE DEF u
<1>2. /\ DOMAIN t \subseteq Path /\ <<>> \in DOMAIN t /\ t[<<>>].kind = "dir"
      /\ Placed(t) /\ Linked(t)
  BY TreeParts
<1>3. Placed(u)
  <2>1. ASSUME NEW s \in DOMAIN u, s # <<>>
        PROVE  Is(u, Front(s), "dir")
    <3>1. Is(t, Front(s), "dir") /\ Front(s) \notin gone
      BY <1>1, <1>2, <2>1 DEF Placed
    <3> QED
      BY <1>1, <3>1 DEF Is
  <2> QED
    BY <2>1 DEF Placed
<1>4. Linked(u)
  BY <1>1, <1>2 DEF Linked
<1> QED
  BY <1>1, <1>2, <1>3, <1>4, TreeParts DEF u

(* What the host does to one path leaves a tree (HostDo).                  *)
LEMMA DoneStays ==
  ASSUME NEW t, HostDirectory(t), NEW r \in Path,
         NEW op \in {"open_with", "copy", "set_permissions", "set_times", "create_dir",
                     "remove_file", "remove_dir", "remove_dir_all"},
         NEW u \in HostDo(t, op, r)
  PROVE  HostDirectory(u)
<1>0. DOMAIN t \subseteq Path /\ <<>> \in DOMAIN t /\ t[<<>>].kind = "dir" /\ Placed(t)
  BY TreeParts
<1>1. Fits(File("new")) /\ Fits(Dir)
  BY DEF Fits, File, Dir
<1>2. ASSUME NEW node, Fits(node), u = With(t, r, node),
             Absent(t, r) \/ Is(t, r, "file")
      PROVE  HostDirectory(u)
  BY <1>2, PutStays DEF Is
<1>3. CASE op \in {"open_with", "copy"}
  <2>1. u = With(t, r, File("new")) /\ (Absent(t, r) \/ Is(t, r, "file"))
    BY <1>3 DEF HostDo
  <2> QED
    BY <1>1, <1>2, <2>1
<1>4. CASE op \in {"set_permissions", "set_times"}
  <2>1. u = With(t, r, File("new")) /\ Is(t, r, "file")
    BY <1>4 DEF HostDo
  <2> QED
    BY <1>1, <1>2, <2>1
<1>5. CASE op = "create_dir"
  <2>1. u = With(t, r, Dir) /\ Absent(t, r)
    BY <1>5 DEF HostDo
  <2> QED
    BY <1>1, <1>2, <2>1
<1>6. CASE op = "remove_file"
  <2>1. u = Without(t, {r}) /\ ~Is(t, r, "dir")
    BY <1>6 DEF HostDo, Is
  <2>2. <<>> \notin {r}
    BY <1>0, <2>1 DEF Is
  <2>3. \A s \in DOMAIN t : s # <<>> /\ Front(s) \in {r} => s \in {r}
    BY <1>0, <2>1 DEF Placed
  <2> QED
    BY <2>1, <2>2, <2>3, TakenStays
<1>7. CASE op = "remove_dir"
  <2>1. u = Without(t, {r}) /\ r # <<>> /\ Below(t, r) = {r}
    BY <1>7 DEF HostDo
  <2>2. ASSUME NEW s \in DOMAIN t, s # <<>>, Front(s) \in {r}
        PROVE  s \in {r}
    <3>1. IsPrefix(r, s)
      BY <1>0, <2>2, OneLess
    <3> QED
      BY <2>1, <3>1 DEF Below
  <2>3. <<>> \notin {r}
    BY <2>1
  <2> QED
    BY <2>1, <2>2, <2>3, TakenStays
<1>8. CASE op = "remove_dir_all"
  <2>1. u = Without(t, Below(t, r)) /\ r # <<>>
    BY <1>8 DEF HostDo
  <2>2. ASSUME NEW s \in DOMAIN t, s # <<>>, Front(s) \in Below(t, r)
        PROVE  s \in Below(t, r)
    <3>1. Front(s) \in Path /\ IsPrefix(Front(s), s) /\ IsPrefix(r, Front(s))
      BY <1>0, <2>2, OneLess DEF Below
    <3>2. IsPrefix(r, s)
      BY <1>0, <3>1, Further
    <3> QED
      BY <3>2 DEF Below
  <2>3. <<>> \notin Below(t, r)
    BY <2>1, NothingAbove DEF Below
  <2> QED
    BY <2>1, <2>2, <2>3, TakenStays
<1> QED
  BY <1>3, <1>4, <1>5, <1>6, <1>7, <1>8

(* What is above a directory is above all that is in it.                   *)
LEMMA AboveDeeper ==
  ASSUME NEW p \in Path, NEW s \in Path, s # <<>>, IsPrefix(p, Front(s))
  PROVE  IsPrefix(p, s)
BY OneLess, Further

(* A rename takes what lies beneath r along, and leaves nothing of what was *)
(* at its destination.                                                     *)
LEMMA MoveStays ==
  ASSUME NEW t, HostDirectory(t), NEW r \in DOMAIN t, NEW to \in Path, r # <<>>,
         ~IsPrefix(r, to),
         Absent(t, to) \/ (to # <<>> /\ to \in DOMAIN t /\ Below(t, to) = {to})
  PROVE  HostDirectory(Move(t, r, to))
<1> DEFINE u == Move(t, r, to)
           taken == {to \o After(r, b) : b \in Below(t, r)}
<1>1. /\ DOMAIN u = (DOMAIN t \ Below(t, r)) \cup taken
      /\ \A s \in DOMAIN u :
           u[s] = IF IsPrefix(to, s) THEN t[r \o After(to, s)] ELSE t[s]
  BY DEF Move, After
<1> HIDE DEF u
<1>2. /\ DOMAIN t \subseteq Path /\ <<>> \in DOMAIN t /\ t[<<>>].kind = "dir"
      /\ Placed(t) /\ Linked(t) /\ r \in Path
  BY TreeParts
<1>3. to # <<>>
  BY DEF Absent
(* Where it is from. *)
<1>4. ASSUME NEW x \in Path, r \o x \in DOMAIN t
      PROVE  to \o x \in DOMAIN u /\ u[to \o x] = t[r \o x]
  <2>1. IsPrefix(r, r \o x) /\ After(r, r \o x) = x
    BY <1>2, Continued
  <2>2. to \o x \in taken
    BY <1>4, <2>1 DEF Below
  <2>3. IsPrefix(to, to \o x) /\ After(to, to \o x) = x
    BY Continued
  <2> QED
    BY <1>1, <2>2, <2>3
<1>5. ASSUME NEW s \in taken
      PROVE  \E x \in Path : s = to \o x /\ r \o x \in DOMAIN t /\ u[s] = t[r \o x]
  <2>1. PICK b \in Below(t, r) : s = to \o After(r, b)
    BY <1>5
  <2>2. b \in DOMAIN t /\ b \in Path /\ IsPrefix(r, b)
    BY <1>2, <2>1 DEF Below
  <2>3. After(r, b) \in Path /\ b = r \o After(r, b)
    BY <1>2, <2>2, Splits
  <2> QED
    BY <1>4, <2>1, <2>2, <2>3
<1>6. ASSUME NEW s \in DOMAIN t, ~IsPrefix(r, s)
      PROVE  \/ s = to
             \/ s \in DOMAIN u /\ ~IsPrefix(to, s) /\ u[s] = t[s]
  <2>1. s \in DOMAIN u
    BY <1>1, <1>6 DEF Below
  <2>2. CASE IsPrefix(to, s) /\ s # to
    <3>1. Is(t, to, "dir")
      BY <1>2, <2>2, AboveIsDir
    <3>2. s \in Below(t, to) /\ ~Absent(t, to)
      BY <2>2, <3>1 DEF Below, Absent, Is
    <3> QED
      BY <2>2, <3>2
  <2>3. CASE ~IsPrefix(to, s)
    BY <1>1, <2>1, <2>3
  <2> QED
    BY <2>2, <2>3
(* The directory of the destination stays where it is. *)
<1>7. Is(u, Front(to), "dir")
  <2>1. Is(t, Front(to), "dir") /\ Front(to) \in Path /\ Front(to) # to
    <3>1. Front(to) \in Path /\ Len(to) = Len(Front(to)) + 1 /\ Len(Front(to)) \in Nat
      BY <1>3, OneLess, LenProperties DEF Path
    <3>2. Front(to) # to
      BY <3>1
    <3> QED
      BY <1>2, <1>3, <3>1, <3>2 DEF Absent, Placed
  <2>2. ~IsPrefix(r, Front(to))
    BY <1>2, <1>3, AboveDeeper
  <2> QED
    BY <1>6, <2>1, <2>2 DEF Is
<1>8. ASSUME NEW s \in DOMAIN u
      PROVE  \/ s = to
             \/ s \in taken /\ s # to
             \/ s \in DOMAIN t /\ s \in Path /\ ~IsPrefix(r, s) /\ ~IsPrefix(to, s) /\ u[s] = t[s]
  BY <1>1, <1>2, <1>6 DEF Below
<1>9. DOMAIN u \subseteq Path
  <2>1. \A s \in taken : s \in Path
    BY <1>5, Continued
  <2> HIDE DEF taken
  <2> QED
    BY <1>8, <2>1
<1>10. <<>> \in DOMAIN u /\ u[<<>>].kind = "dir"
  <2>1. ~IsPrefix(r, <<>>)
    BY <1>2, NothingAbove
  <2> QED
    BY <1>2, <1>3, <1>6, <2>1
<1>11. Placed(u)
  <2>1. ASSUME NEW s \in DOMAIN u, s # <<>>
        PROVE  Is(u, Front(s), "dir")
    <3>1. CASE s = to
      BY <1>7, <3>1
    <3>2. CASE s \in taken /\ s # to
      <4>1. PICK x \in Path : s = to \o x /\ r \o x \in DOMAIN t
        BY <1>5, <3>2
      <4>2. x # <<>>
        BY <3>2, <4>1, NothingAfter
      <4>3. Front(s) = to \o Front(x) /\ Front(x) \in Path
        BY <4>1, <4>2, BeneathLess, OneLess
      <4>4. r \o x # <<>> /\ Front(r \o x) = r \o Front(x)
        BY <1>2, <4>2, BeneathLess
      <4>5. Is(t, r \o Front(x), "dir")
        BY <1>2, <4>1, <4>4 DEF Placed
      <4>6. to \o Front(x) \in DOMAIN u /\ u[to \o Front(x)] = t[r \o Front(x)]
        BY <1>4, <4>3, <4>5 DEF Is
      <4> QED
        BY <4>3, <4>5, <4>6 DEF Is
    <3>3. CASE s \in DOMAIN t /\ s \in Path /\ ~IsPrefix(r, s) /\ ~IsPrefix(to, s)
      <4>1. Is(t, Front(s), "dir") /\ Front(s) \in Path
        BY <1>2, <2>1, <3>3, OneLess DEF Placed
      <4>2. ~IsPrefix(r, Front(s)) /\ ~IsPrefix(to, Front(s))
        BY <1>2, <2>1, <3>3, AboveDeeper
      <4>3. Front(s) # to
        BY <4>2, NothingAfter
      <4> QED
        BY <1>6, <4>1, <4>2, <4>3 DEF Is
    <3> QED
      BY <1>8, <3>1, <3>2, <3>3
  <2> QED
    BY <2>1 DEF Placed
<1>12. Linked(u)
  <2>1. ASSUME NEW s \in DOMAIN u
        PROVE  \E o \in DOMAIN t : u[s] = t[o]
    <3>1. to = to \o <<>> /\ r = r \o <<>>
      BY <1>2, NothingAfter
    <3>2. CASE s = to
      <4>1. u[to] = t[r]
        BY <1>2, <1>4, <3>1, StepIs
      <4> QED
        BY <3>2, <4>1
    <3>3. CASE s \in taken
      BY <1>5, <3>3
    <3> QED
      BY <1>8, <3>2, <3>3
  <2> QED
    BY <1>2, <2>1 DEF Linked
<1> QED
  BY <1>9, <1>10, <1>11, <1>12, TreeParts DEF u

(* A rename leaves a tree.                                                 *)
LEMMA RenamedStays ==
  ASSUME NEW t, HostDirectory(t), NEW r, NEW to \in Path, NEW u \in HostRename(t, r, to)
  PROVE  HostDirectory(u)
<1>1. /\ r \in DOMAIN t /\ r # <<>> /\ ~IsPrefix(r, to) /\ u = Move(t, r, to)
      /\ Absent(t, to) \/ (to # <<>> /\ to \in DOMAIN t /\ Below(t, to) = {to})
  BY DEF HostRename
<1> QED
  BY <1>1, MoveStays

(* And so does a hard link.                                                *)
LEMMA LinkedStays ==
  ASSUME NEW t, HostDirectory(t), NEW r, NEW to \in Path, NEW u \in HostLink(t, r, to)
  PROVE  HostDirectory(u)
<1>1. r \in DOMAIN t /\ Absent(t, to) /\ u = With(t, to, t[r])
  BY DEF HostLink
<1>2. Fits(t[r])
  BY <1>1, TreeParts DEF Fits, Linked
<1> QED
  BY <1>1, <1>2, PutStays

-----------------------------------------------------------------------------
(* What a link is given to hold.                                           *)

LandingBody(base, target, go, i) ==
  IF i = 0 THEN IF target.abs THEN <<>> ELSE base
  ELSE IF go[i - 1] = None THEN None
  ELSE IF target.to[i] # ".." THEN Append(go[i - 1], target.to[i])
  ELSE IF go[i - 1] = <<>> THEN None ELSE Front(go[i - 1])

(* Landing is the function chosen to keep its rule, at its end.            *)
LEMMA LandingIs ==
  ASSUME NEW base, NEW target
  PROVE  Landing(base, target)
           = (CHOOSE go : go = [i \in 0..Len(target.to) |-> LandingBody(base, target, go, i)])
               [Len(target.to)]
BY DEF Landing, LandingBody

(* A set of paths that one component more or less does not lead out of.    *)
Steady(K) ==
  /\ K \subseteq Path /\ <<>> \in K
  /\ \A p \in K, n \in Name : n # ".." => Append(p, n) \in K
  /\ \A p \in K : p # <<>> => Front(p) \in K

(* So a target lands in the set, if it lands at all.                       *)
LEMMA Lands ==
  ASSUME NEW K, Steady(K), NEW base \in K, NEW target, target.to \in Path
  PROVE  Landing(base, target) \in K \cup {None}
<1> DEFINE n == Len(target.to)
           Body(go, i) == LandingBody(base, target, go, i)
           Holds(g, k) == g = [i \in 0..k |-> Body(g, i)]
           T == {k \in Nat : \E g : Holds(g, k)}
<1>1. n \in Nat /\ \A i \in 1..n : target.to[i] \in Name
  BY LenProperties, ElementOfSeq DEF Path
<1> HIDE DEF n
<1>2. 0 \in T
  <2> DEFINE g == [i \in 0..0 |-> Body(<<>>, 0)]
  <2>1. \A i \in 0..0 : Body(g, i) = Body(<<>>, 0)
    BY DEF LandingBody
  <2> HIDE DEF Body
  <2>2. Holds(g, 0)
    BY <2>1
  <2> QED
    BY <2>2
<1>3. ASSUME NEW k \in 0..(n - 1), k \in T
      PROVE  k + 1 \in T
  <2>1. PICK g : Holds(g, k)
    BY <1>3
  <2> DEFINE f == [i \in 0..(k + 1) |-> IF i = k + 1 THEN Body(g, k + 1) ELSE g[i]]
  <2>2. \A i \in 0..k : f[i] = g[i]
    OBVIOUS
  <2>3. \A i \in 0..(k + 1) : Body(f, i) = Body(g, i)
    <3>1. \A i \in 1..(k + 1) : f[i - 1] = g[i - 1]
      BY <2>2
    <3> HIDE DEF f
    <3>2. ASSUME NEW i \in 0..(k + 1)
          PROVE  Body(f, i) = Body(g, i)
      <4>1. CASE i = 0
        BY <4>1 DEF LandingBody
      <4>2. CASE i # 0
        <5>1. f[i - 1] = g[i - 1]
          BY <3>1, <4>2
        <5> QED
          BY <4>2, <5>1 DEF LandingBody
      <4> QED
        BY <4>1, <4>2
    <3> QED
      BY <3>2
  <2> HIDE DEF Body
  <2>4. \A i \in 0..k : g[i] = Body(g, i)
    BY <2>1
  <2>5. \A i \in 0..(k + 1) : f[i] = Body(f, i)
    BY <2>3, <2>4
  <2>6. f = [i \in 0..(k + 1) |-> f[i]]
    OBVIOUS
  <2> HIDE DEF f
  <2>7. Holds(f, k + 1)
    BY <2>5, <2>6
  <2> QED
    BY <2>7
<1>4. n \in T
  <2> HIDE DEF T
  <2> QED
    BY <1>1, <1>2, <1>3, Counting
<1> DEFINE go == CHOOSE g : Holds(g, n)
<1>5. Holds(go, n)
  BY <1>4
<1>6. Landing(base, target) = go[n]
  BY LandingIs DEF n
<1> HIDE DEF go
<1>7. \A i \in 0..n : go[i] = Body(go, i)
  <2> HIDE DEF Body
  <2> QED
    BY <1>5
<1> DEFINE G == {i \in 0..n : go[i] \in K \cup {None}}
<1>8. 0 \in G
  <2>1. go[0] = Body(go, 0)
    BY <1>1, <1>7
  <2> QED
    BY <1>1, <2>1 DEF LandingBody, Steady
<1>9. ASSUME NEW i \in 0..(n - 1), i \in G
      PROVE  i + 1 \in G
  <2>1. i + 1 \in 1..n /\ (i + 1) - 1 = i /\ i + 1 # 0 /\ i + 1 \in 0..n
    BY <1>1
  <2>2. go[i + 1] = Body(go, i + 1)
    BY <1>7, <2>1
  <2> DEFINE j == i + 1
  <2> HIDE DEF j
  <2>3. go[j] = Body(go, j) /\ j # 0 /\ j - 1 = i /\ target.to[j] \in Name
    BY <1>1, <2>1, <2>2 DEF j
  <2>4. CASE go[i] = None
    <3>1. go[j] = None
      BY <2>3, <2>4 DEF LandingBody
    <3> QED
      BY <2>1, <3>1 DEF j
  <2>5. CASE go[i] # None
    <3>1. go[i] \in K
      BY <1>9, <2>5
    <3>2. go[j] \in K \cup {None}
      BY <2>3, <2>5, <3>1 DEF LandingBody, Steady
    <3> QED
      BY <2>1, <3>2 DEF j
  <2> QED
    BY <2>4, <2>5
<1>10. n \in G
  <2> HIDE DEF G
  <2> QED
    BY <1>1, <1>8, <1>9, Counting
<1> QED
  BY <1>6, <1>10

(* What two paths share.                                                   *)
LEMMA Shared ==
  ASSUME NEW p \in Path, NEW q \in Path
  PROVE  LET c == LongestCommonPrefix({p, q})
         IN  /\ c \in Path /\ IsPrefix(c, p) /\ IsPrefix(c, q)
             /\ \A b \in Path : IsPrefix(b, p) /\ IsPrefix(b, q) => Len(b) <= Len(c)
<1> DEFINE C == CommonPrefixes({p, q})
           Best(c) == \A b \in C : Len(b) <= Len(c)
           S == {c \in Path : IsPrefix(c, p) /\ IsPrefix(c, q)}
<1>1. ASSUME NEW c, NEW r \in Path
      PROVE  c \in Prefixes(r) <=> c \in Path /\ IsPrefix(c, r)
  <2>1. Len(r) \in Nat
    BY LenProperties DEF Path
  <2>2. ASSUME c \in Path, IsPrefix(c, r)
        PROVE  c \in Prefixes(r)
    <3>1. Len(c) \in Nat /\ Len(c) <= Len(r) /\ SubSeq(c, 1, Len(c)) = SubSeq(r, 1, Len(c))
      BY <2>2, LenProperties DEF Path, IsPrefix
    <3>2. SubSeq(c, 1, Len(c)) = c
      BY <2>2, SubSeqFull DEF Path
    <3>3. Len(c) \in 0..Len(r)
      BY <2>1, <3>1
    <3> QED
      BY <3>1, <3>2, <3>3 DEF Prefixes
  <2>3. ASSUME NEW k \in 0..Len(r), c = SubSeq(r, 1, k)
        PROVE  c \in Path /\ IsPrefix(c, r)
    <3>1. k \in Nat /\ k <= Len(r)
      BY <2>1
    <3>2. \A i \in 1..k : r[i] \in Name
      BY <2>1, <3>1, ElementOfSeq DEF Path
    <3>3. /\ c \in Path /\ Len(c) = (IF 1 <= k THEN k - 1 + 1 ELSE 0)
          /\ \A i \in 1..(k - 1 + 1) : c[i] = r[1 + i - 1]
      BY <2>3, <3>1, <3>2, SubSeqProperties DEF Path
    <3>4. Len(c) = k /\ \A i \in 1..k : c[i] = r[i]
      BY <3>1, <3>3
    <3>5. Leads(c, r)
      BY <3>1, <3>4 DEF Leads
    <3> QED
      BY <3>3, <3>5, LeadsPrefix
  <2> QED
    BY <2>2, <2>3 DEF Prefixes
<1>2. C = S
  <2>1. UNION {Prefixes(r) : r \in {p, q}} = Prefixes(p) \cup Prefixes(q)
    OBVIOUS
  <2>2. C = {c \in Prefixes(p) \cup Prefixes(q) : \A r \in {p, q} : IsPrefix(c, r)}
    BY <2>1 DEF CommonPrefixes
  <2> HIDE DEF C
  <2> QED
    BY <1>1, <2>2
<1>3. LongestCommonPrefix({p, q}) = CHOOSE c \in C : Best(c)
  BY DEF LongestCommonPrefix
<1> HIDE DEF C
<1>4. \E c \in C : Best(c)
  <2> DEFINE room == {Len(p) - Len(c) : c \in S}
  <2>1. Len(p) \in Nat /\ \A c \in S : Len(c) \in Nat /\ Len(c) <= Len(p)
    BY LenProperties DEF IsPrefix, Path
  <2>2. <<>> \in S
    BY NothingAfter
  <2> HIDE DEF S
  <2>3. room \subseteq Nat /\ room # {}
    BY <2>1, <2>2
  <2>4. PICK x \in room : \A n \in room : x <= n
    <3> HIDE DEF room
    <3> QED
      BY <2>3, Smallest
  <2>5. PICK c \in S : x = Len(p) - Len(c)
    OBVIOUS
  <2>6. ASSUME NEW b \in S
        PROVE  Len(b) <= Len(c)
    <3>1. Len(p) - Len(b) \in room
      OBVIOUS
    <3> HIDE DEF room
    <3>2. x <= Len(p) - Len(b)
      BY <2>4, <3>1
    <3> QED
      BY <2>1, <2>5, <3>2
  <2> QED
    BY <1>2, <2>6
<1> DEFINE c == LongestCommonPrefix({p, q})
<1>5. c \in C /\ Best(c)
  BY <1>3, <1>4
<1> HIDE DEF c
<1> QED
  BY <1>2, <1>5 DEF c

(* A path of n components "..".                                            *)
Ups(n) == [i \in 1..n |-> ".."]

(* It is a path.                                                           *)
LEMMA UpsPath ==
  ASSUME NEW n \in Nat
  PROVE  Ups(n) \in Path /\ Len(Ups(n)) = n
<1>1. ".." \in Name
  BY UpAssumption DEF Name
<1>2. Ups(n) \in [1..n -> Name]
  BY <1>1 DEF Ups
<1> HIDE DEF Ups
<1>3. Ups(n) \in Seq(Name) /\ Len(Ups(n)) = n
  BY <1>2
<1> QED
  BY <1>3 DEF Path

(* The link climbs to an ancestor of both, and goes down from there.       *)
LEMMA RelativeFromIs ==
  ASSUME NEW link \in Path, NEW target \in Path
  PROVE  \E c \in Path, n \in Nat :
           /\ IsPrefix(c, Parent(link)) /\ IsPrefix(c, target)
           /\ n = Len(Parent(link)) - Len(c)
           /\ RelativeFrom(link, target) = Link(FALSE, Ups(n) \o After(c, target))
           /\ Ups(n) \o After(c, target) \in Path
<1> DEFINE above == Parent(link)
           c == LongestCommonPrefix({above, target})
<1>1. above \in Path
  BY StepIs, OneLess DEF Parent
<1>2. c \in Path /\ IsPrefix(c, above) /\ IsPrefix(c, target)
  BY <1>1, Shared
<1>3. /\ Len(above) \in Nat /\ Len(c) \in Nat /\ Len(c) <= Len(above)
  BY <1>1, <1>2, LenProperties DEF Path, IsPrefix
<1> DEFINE n == Len(above) - Len(c)
<1>4. n \in Nat
  BY <1>3
<1>5. RelativeFrom(link, target) = Link(FALSE, Ups(n) \o After(c, target))
  BY DEF RelativeFrom, Ups, After
<1>6. Ups(n) \o After(c, target) \in Path
  BY <1>2, <1>4, Splits, UpsPath, Continued
<1> HIDE DEF c, above
<1> QED
  BY <1>2, <1>4, <1>5, <1>6 DEF above

-----------------------------------------------------------------------------
(* The trees stay trees, and what a process has located is a place in one.  *)

JobTyped(s) ==
  /\ s.on \in Mount /\ s.rel \in Path
  /\ s.op \in {"rename", "hard_link"} => s.to \in Path
  /\ s.op = "copy" => s.from \in Mount /\ s.source \in Path
  /\ s.op = "symlink" => Fits(s.node)

JobsTyped == \A p \in Proc : job[p] # None => JobTyped(job[p])

Typed == IInv /\ Trees(tree) /\ JobsTyped

(* What an operation on one path may do leaves a tree.                     *)
LEMMA EffectStays ==
  ASSUME Trees(tree), NEW m \in Mount, NEW rel \in Path, NEW op \in AtOps \cup {"copy"},
         NEW u \in Effect(m, op, rel)
  PROVE  HostDirectory(u)
<1> DEFINE h == HostWalk(tree[m], rel, HostFollows(op))
<1>1. HostDirectory(tree[m])
  BY DEF Trees
<1>2. h.verdict = "ok" /\ u \in HostDo(tree[m], op, h.rel)
  BY DEF Effect
<1>3. h.rel \in Path
  BY <1>1, <1>2, HostFinds
<1>4. op \in {"open_with", "copy", "set_permissions", "set_times", "create_dir",
              "remove_file", "remove_dir", "remove_dir_all"}
  BY DEF AtOps
<1> HIDE DEF h
<1> QED
  BY <1>1, <1>2, <1>3, <1>4, DoneStays

(* And what an operation on two may do.                                    *)
LEMMA Effect2Stays ==
  ASSUME Trees(tree), NEW m \in Mount, NEW rel \in Path, NEW to \in Path, NEW op,
         NEW u \in Effect2(m, op, rel, to)
  PROVE  HostDirectory(u)
<1> DEFINE g == HostWalk(tree[m], rel, FALSE)
           h == HostWalk(tree[m], to, FALSE)
<1>1. HostDirectory(tree[m])
  BY DEF Trees
<1>2. /\ g.verdict = "ok" /\ h.verdict = "ok"
      /\ u \in HostRename(tree[m], g.rel, h.rel) \/ u \in HostLink(tree[m], g.rel, h.rel)
  BY DEF Effect2
<1>3. h.rel \in Path
  BY <1>1, <1>2, HostFinds
<1> HIDE DEF g, h
<1> QED
  BY <1>1, <1>2, <1>3, RenamedStays, LinkedStays

(* Whatever comes of it, the trees are trees.                              *)
LEMMA BecomesStays ==
  ASSUME tree = [m \in Mount |-> tree[m]], Trees(tree), NEW n, NEW outcomes,
         Becomes(n, outcomes), \A u \in outcomes : HostDirectory(u)
  PROVE  Trees(tree')
<1>1. CASE outcomes = {}
  BY <1>1 DEF Becomes, Trees
<1>2. CASE outcomes # {}
  <2>1. PICK t \in outcomes : tree' = [tree EXCEPT ![n] = t]
    BY <1>2 DEF Becomes
  <2>2. tree' = [m \in Mount |-> IF m = n THEN t ELSE tree[m]]
    BY <2>1
  <2> QED
    BY <2>2 DEF Trees
<1> QED
  BY <1>1, <1>2

(* A process that is done has nothing left to be of the right kind.        *)
LEMMA NothingLeftTyped ==
  ASSUME job = [p \in Proc |-> job[p]], JobsTyped, NEW q \in Proc, Done(q)
  PROVE  JobsTyped'
<1>1. job' = [p \in Proc |-> IF p = q THEN None ELSE job[p]]
  BY DEF Done
<1> QED
  BY <1>1 DEF JobsTyped

(* What a process plans is of the right kind.                              *)
LEMMA PlannedTyped ==
  ASSUME job = [p \in Proc |-> job[p]], JobsTyped, NEW q \in Proc, NEW what, Plan(q, what),
         JobTyped(what)
  PROVE  JobsTyped'
<1>1. job' = [p \in Proc |-> IF p = q THEN what ELSE job[p]]
  BY DEF Plan
<1> QED
  BY <1>1 DEF JobsTyped

(* What `symlink` has looked at when it agrees to make a link.              *)
Agreeing(q, target, link, landing, followed, lexical) ==
  /\ link = Locate(tree, q, FALSE) /\ link.verdict = "ok" /\ Found(link)
  /\ link.mount \in Writable
  /\ landing = Landing(Parent(link.path), target) /\ landing \in Path
  /\ Resolve(landing) = link.mount
  /\ lexical = Relative(link.mount, landing) /\ lexical \in Path
  /\ landing = At[link.mount] \o lexical
  /\ followed = Locate(tree, landing, TRUE)
  /\ followed.verdict = "ok" /\ followed.mount = link.mount
  /\ StaysInMount(link.rel, RelativeFrom(link.rel, lexical))
  /\ Stored(q, target)
       = [op |-> "symlink", on |-> link.mount, rel |-> link.rel, landing |-> landing,
          node |-> RelativeFrom(link.rel, lexical)]

(* It has looked at all of it.                                             *)
LEMMA StoredIs ==
  ASSUME Trees(tree), NEW q \in Path, NEW target \in Targets, Stored(q, target) # None
  PROVE  \E link, landing, followed, lexical :
           Agreeing(q, target, link, landing, followed, lexical)
<1> DEFINE link == Locate(tree, q, FALSE)
           landing == Landing(Parent(link.path), target)
           lexical == Relative(Resolve(landing), landing)
           followed == Locate(tree, landing, TRUE)
<1>1. /\ link.verdict = "ok" /\ link.mount \in Writable
      /\ landing # None /\ Resolve(landing) = link.mount
      /\ followed.verdict = "ok" /\ followed.mount = link.mount
      /\ StaysInMount(link.rel, RelativeFrom(link.rel, lexical))
      /\ Stored(q, target)
           = [op |-> "symlink", on |-> link.mount, rel |-> link.rel, landing |-> landing,
              node |-> RelativeFrom(link.rel, lexical)]
  BY DEF Stored
<1>2. Found(link)
  BY <1>1, LocateFinds
<1>3. landing \in Path
  <2>1. Steady(Path)
    BY StepIs, OneMore, OneLess DEF Steady
  <2>2. Parent(link.path) \in Path
    BY <1>2, StepIs, OneLess DEF Parent, Found
  <2>3. target.to \in Path
    BY VfsAssumption DEF Path, Name
  <2> HIDE DEF link
  <2>4. landing \in Path \cup {None}
    BY <2>1, <2>2, <2>3, Lands
  <2> QED
    BY <1>1, <2>4 DEF link
<1> HIDE DEF link, landing
<1>4. Resolve(landing) \in Mount /\ Resolve(landing) # None
  BY <1>1, <1>2, NamespaceAssumption DEF Found
<1>5. lexical \in Path /\ landing = At[Resolve(landing)] \o lexical
  BY <1>3, <1>4, GovernedBy
<1>6. lexical = Relative(link.mount, landing)
  BY <1>1
<1> HIDE DEF lexical, followed
<1>7. /\ link.verdict = "ok" /\ Found(link) /\ link.mount \in Writable
      /\ landing \in Path /\ Resolve(landing) = link.mount
      /\ lexical = Relative(link.mount, landing) /\ lexical \in Path
      /\ landing = At[link.mount] \o lexical
      /\ followed.verdict = "ok" /\ followed.mount = link.mount
  BY <1>1, <1>2, <1>3, <1>5, <1>6
<1>8. link = Locate(tree, q, FALSE) /\ landing = Landing(Parent(link.path), target)
      /\ followed = Locate(tree, landing, TRUE)
  BY DEF link, landing, followed
<1>9. Agreeing(q, target, link, landing, followed, lexical)
  BY <1>1, <1>7, <1>8 DEF Agreeing
<1> QED
  BY <1>9

(* And the link fits into a tree.                                          *)
LEMMA StoredTyped ==
  ASSUME Trees(tree), NEW q \in Path, NEW target \in Targets, Stored(q, target) # None
  PROVE  JobTyped(Stored(q, target))
<1>0. PICK link, landing, followed, lexical :
        Agreeing(q, target, link, landing, followed, lexical)
  BY StoredIs
<1>1. /\ Found(link) /\ lexical \in Path
      /\ Stored(q, target)
           = [op |-> "symlink", on |-> link.mount, rel |-> link.rel, landing |-> landing,
              node |-> RelativeFrom(link.rel, lexical)]
  BY <1>0 DEF Agreeing
<1>2. link.mount \in Mount /\ link.rel \in Path
  BY <1>1 DEF Found
<1>3. Fits(RelativeFrom(link.rel, lexical))
  <2>1. PICK to \in Path : RelativeFrom(link.rel, lexical) = Link(FALSE, to)
    BY <1>1, <1>2, RelativeFromIs
  <2> QED
    BY <2>1 DEF Fits, Link
<1> DEFINE s == Stored(q, target)
<1> HIDE DEF s
<1>4. /\ s.op = "symlink" /\ s.on = link.mount /\ s.rel = link.rel
      /\ s.node = RelativeFrom(link.rel, lexical)
  BY <1>1 DEF s
<1>5. JobTyped(s)
  BY <1>2, <1>3, <1>4 DEF JobTyped
<1> QED
  BY <1>5 DEF s

(* What a process has located is of the right kind.                        *)
LEMMA LocatingTyped ==
  ASSUME Typed, NEW p \in Proc, NEW q \in Paths,
         \/ \E op \in AtOps : AtLocate(p, op, q)
         \/ \E to \in Paths : RenameLocate(p, q, to) \/ HardLinkLocate(p, q, to)
                              \/ CopyLocate(p, q, to)
         \/ \E target \in Targets : SymlinkLocate(p, q, target)
  PROVE  JobsTyped'
<1>0. /\ job = [r \in Proc |-> job[r]] /\ JobsTyped /\ Trees(tree)
      /\ \A r \in Paths : r \in Path
  BY VfsAssumption DEF Typed, IInv, Path, Name
<1>1. ASSUME NEW r \in Path, NEW follow, Locate(tree, r, follow).verdict = "ok"
      PROVE  /\ Locate(tree, r, follow).mount \in Mount
             /\ Locate(tree, r, follow).rel \in Path
  BY <1>0, <1>1, LocateFinds DEF Found
<1>2. ASSUME NEW op \in AtOps, AtLocate(p, op, q)
      PROVE  JobsTyped'
  <2> DEFINE v == Locate(tree, q, AtFollows(op))
             what == [op |-> op, on |-> v.mount, rel |-> v.rel, named |-> q]
  <2>1. v.verdict = "ok" /\ Plan(p, what)
    BY <1>2 DEF AtLocate
  <2>2. v.mount \in Mount /\ v.rel \in Path
    BY <1>0, <1>1, <2>1
  <2> HIDE DEF v
  <2>3. what.op = op /\ what.on = v.mount /\ what.rel = v.rel
    OBVIOUS
  <2>4. op \notin {"rename", "hard_link", "copy", "symlink"}
    BY DEF AtOps
  <2> HIDE DEF what
  <2>5. JobTyped(what)
    BY <2>2, <2>3, <2>4 DEF JobTyped
  <2> QED
    BY <1>0, <2>1, <2>5, PlannedTyped
<1>3. ASSUME NEW to \in Paths, NEW op \in {"rename", "hard_link"},
             NEW f, f = Locate(tree, q, FALSE), f.verdict = "ok",
             NEW g, g = Locate(tree, to, FALSE), g.verdict = "ok",
             Plan(p, [op |-> op, on |-> f.mount, rel |-> f.rel, to |-> g.rel])
      PROVE  JobsTyped'
  <2> DEFINE what == [op |-> op, on |-> f.mount, rel |-> f.rel, to |-> g.rel]
  <2>1. f.mount \in Mount /\ f.rel \in Path /\ g.rel \in Path
    BY <1>0, <1>1, <1>3
  <2>2. what.op = op /\ what.on = f.mount /\ what.rel = f.rel /\ what.to = g.rel
    OBVIOUS
  <2>3. Plan(p, what)
    BY <1>3
  <2> HIDE DEF what
  <2>4. JobTyped(what)
    BY <2>1, <2>2 DEF JobTyped
  <2> QED
    BY <1>0, <2>3, <2>4, PlannedTyped
<1>4. ASSUME NEW to \in Paths, CopyLocate(p, q, to)
      PROVE  JobsTyped'
  <2> DEFINE f == Locate(tree, q, TRUE)
             g == Locate(tree, to, FALSE)
             what == [op |-> "copy", from |-> f.mount, source |-> f.rel,
                      on |-> g.mount, rel |-> g.rel]
  <2>1. f.verdict = "ok" /\ g.verdict = "ok" /\ Plan(p, what)
    BY <1>4 DEF CopyLocate
  <2>2. f.mount \in Mount /\ f.rel \in Path /\ g.mount \in Mount /\ g.rel \in Path
    BY <1>0, <1>1, <2>1
  <2> HIDE DEF f, g
  <2>3. /\ what.op = "copy" /\ what.from = f.mount /\ what.source = f.rel
        /\ what.on = g.mount /\ what.rel = g.rel
    OBVIOUS
  <2> HIDE DEF what
  <2>4. JobTyped(what)
    BY <2>2, <2>3 DEF JobTyped
  <2> QED
    BY <1>0, <2>1, <2>4, PlannedTyped
<1>5. ASSUME NEW target \in Targets, SymlinkLocate(p, q, target)
      PROVE  JobsTyped'
  <2>1. Stored(q, target) # None /\ Plan(p, Stored(q, target))
    BY <1>5 DEF SymlinkLocate
  <2>2. JobTyped(Stored(q, target))
    BY <1>0, <2>1, StoredTyped
  <2> QED
    BY <1>0, <2>1, <2>2, PlannedTyped
<1>6. ASSUME NEW to \in Paths, RenameLocate(p, q, to)
      PROVE  JobsTyped'
  BY <1>3, <1>6 DEF RenameLocate
<1>7. ASSUME NEW to \in Paths, HardLinkLocate(p, q, to)
      PROVE  JobsTyped'
  BY <1>3, <1>7 DEF HardLinkLocate
<1> QED
  BY <1>2, <1>4, <1>5, <1>6, <1>7

(* What a process does with it leaves trees.                               *)
LEMMA PerformingTyped ==
  ASSUME Typed, NEW p \in Proc, Perform(p)
  PROVE  Trees(tree') /\ JobsTyped'
<1>0. /\ job = [q \in Proc |-> job[q]] /\ tree = [m \in Mount |-> tree[m]]
      /\ Trees(tree) /\ JobsTyped
  BY DEF Typed, IInv
<1>1. Done(p) /\ job[p] # None
  BY DEF Perform, AtPerform, RenamePerform, HardLinkPerform, CopyPerform, SymlinkPerform, Idle
<1>2. JobsTyped'
  BY <1>0, <1>1, NothingLeftTyped
<1>3. JobTyped(job[p])
  BY <1>0, <1>1 DEF JobsTyped
<1> DEFINE s == job[p]
<1>4. s.on \in Mount /\ s.rel \in Path
  BY <1>3 DEF JobTyped
<1>5. \E outcomes : Becomes(s.on, outcomes) /\ \A u \in outcomes : HostDirectory(u)
  <2>1. CASE AtPerform(p)
    <3>1. /\ s.op \in AtOps \cup {"copy"}
          /\ Becomes(s.on, IF s.on \in Writable THEN Effect(s.on, s.op, s.rel) ELSE {})
      BY <2>1 DEF AtPerform
    <3>2. \A u \in Effect(s.on, s.op, s.rel) : HostDirectory(u)
      BY <1>0, <1>4, <3>1, EffectStays
    <3> HIDE DEF s
    <3> QED
      BY <3>1, <3>2
  <2>2. CASE RenamePerform(p)
    <3>1. s.to \in Path /\ Becomes(s.on, Effect2(s.on, "rename", s.rel, s.to))
      BY <1>3, <2>2 DEF RenamePerform, JobTyped
    <3>2. \A u \in Effect2(s.on, "rename", s.rel, s.to) : HostDirectory(u)
      BY <1>0, <1>4, <3>1, Effect2Stays
    <3> HIDE DEF s
    <3> QED
      BY <3>1, <3>2
  <2>3. CASE HardLinkPerform(p)
    <3>1. s.to \in Path /\ Becomes(s.on, Effect2(s.on, "hard_link", s.rel, s.to))
      BY <1>3, <2>3 DEF HardLinkPerform, JobTyped
    <3>2. \A u \in Effect2(s.on, "hard_link", s.rel, s.to) : HostDirectory(u)
      BY <1>0, <1>4, <3>1, Effect2Stays
    <3> HIDE DEF s
    <3> QED
      BY <3>1, <3>2
  <2>4. CASE CopyPerform(p)
    <3>1. \A u \in Effect(s.on, "copy", s.rel) : HostDirectory(u)
      BY <1>0, <1>4, EffectStays
    <3>2. PICK outcomes : /\ Becomes(s.on, outcomes)
                          /\ outcomes = {} \/ outcomes = Effect(s.on, "copy", s.rel)
      BY <2>4 DEF CopyPerform
    <3> HIDE DEF s
    <3> QED
      BY <3>1, <3>2
  <2>5. CASE SymlinkPerform(p)
    <3> DEFINE t == tree[s.on]
               h == HostWalk(t, s.rel, FALSE)
               made == With(t, h.rel, s.node)
    <3>1. /\ s.op = "symlink"
          /\ Becomes(s.on, IF h.verdict = "ok" /\ Absent(t, h.rel) THEN {made} ELSE {})
      BY <2>5 DEF SymlinkPerform
    <3>2. Fits(s.node) /\ HostDirectory(t)
      BY <1>0, <1>3, <1>4, <3>1 DEF JobTyped, Trees
    <3>3. ASSUME h.verdict = "ok", Absent(t, h.rel)
          PROVE  HostDirectory(made)
      <4>1. h.rel \in Path
        BY <1>4, <3>2, <3>3, HostFinds
      <4> HIDE DEF s, t, h
      <4> QED
        BY <3>2, <3>3, <4>1, PutStays
    <3> HIDE DEF s, t, h, made
    <3> QED
      BY <3>1, <3>3
  <2> QED
    BY <2>1, <2>2, <2>3, <2>4, <2>5 DEF Perform
<1>6. Trees(tree')
  BY <1>0, <1>5, BecomesStays
<1> QED
  BY <1>2, <1>6

(* What `at` hands to the host in one step leaves trees.                   *)
LEMMA InOneStepTyped ==
  ASSUME Typed, NEW p \in Proc, NEW op \in AtOps, NEW q \in Paths, AtDirect(p, op, q)
  PROVE  Trees(tree') /\ JobsTyped'
<1> DEFINE d == Resolve(q)
           rel == Relative(d, q)
<1>1. /\ d # None /\ Becomes(d, Effect(d, op, rel)) /\ job' = job
  BY DEF AtDirect, Direct
<1>2. q \in Path
  BY VfsAssumption DEF Path, Name
<1>3. d \in Mount /\ rel \in Path
  BY <1>1, <1>2, GovernedBy
<1> HIDE DEF d, rel
<1>4. \A u \in Effect(d, op, rel) : HostDirectory(u)
  BY <1>3, EffectStays DEF Typed
<1>5. Trees(tree')
  BY <1>1, <1>4, BecomesStays DEF Typed, IInv
<1>6. JobsTyped'
  BY <1>1 DEF Typed, JobsTyped
<1> QED
  BY <1>5, <1>6

(* Every step keeps the trees trees.                                       *)
LEMMA NextTyped ==
  ASSUME Typed, [Next]_vars
  PROVE  Typed'
<1>0. IInv'
  BY NextStays DEF Typed
<1>1. CASE UNCHANGED vars
  BY <1>0, <1>1 DEF vars, Typed, JobsTyped
<1>2. ASSUME NEW p \in Proc, NEW q \in Paths, NEW op \in AtOps, AtDirect(p, op, q)
      PROVE  Typed'
  BY <1>0, <1>2, InOneStepTyped DEF Typed
<1>3. ASSUME NEW p \in Proc, NEW q \in Paths,
             \/ \E op \in AtOps : AtLocate(p, op, q)
             \/ \E to \in Paths : RenameLocate(p, q, to) \/ HardLinkLocate(p, q, to)
                                  \/ CopyLocate(p, q, to)
             \/ \E target \in Targets : SymlinkLocate(p, q, target)
      PROVE  Typed'
  <2>1. JobsTyped'
    BY <1>3, LocatingTyped
  <2>2. tree' = tree
    BY <1>3, Locating DEF Typed
  <2> QED
    BY <1>0, <2>1, <2>2 DEF Typed
<1>4. ASSUME NEW p \in Proc, Perform(p)
      PROVE  Typed'
  BY <1>0, <1>4, PerformingTyped DEF Typed
<1>5. CASE Quiet
  BY <1>1, <1>5 DEF Quiet
<1> QED
  BY <1>1, <1>2, <1>3, <1>4, <1>5 DEF Next

(* The trees of the mounts stay trees of directories, and whatever a       *)
(* process has located it has located at a path of a mount: what an        *)
(* operation of Vfs does beneath a mount's directory, in whatever order,   *)
(* never puts anything where the host has no directory.                    *)
THEOREM Types == Spec => []Typed
<1>1. Init => Typed
  <2> SUFFICES ASSUME Init
               PROVE  Typed
    OBVIOUS
  <2>1. tree = [m \in Mount |-> tree[m]] /\ Trees(tree)
    BY VfsAssumption DEF Init, Trees
  <2>2. job = [p \in Proc |-> None]
    BY DEF Init
  <2> QED
    BY <2>1, <2>2 DEF Typed, IInv, Cleared, JobsTyped
<1>2. Typed /\ [Next]_vars => Typed'
  BY NextTyped
<1> QED
  BY <1>1, <1>2, PTL DEF Spec

(* The two ways of `at` agree, of any trees.                               *)
LEMMA TypedAgrees ==
  ASSUME Typed
  PROVE  FastPathAgrees
<1> SUFFICES ASSUME PointsClear, NEW q \in Paths, NEW follow \in BOOLEAN,
                    Resolve(q) # None, ~ShadowsNested(Resolve(q)),
                    HostWalk(tree[Resolve(q)], Relative(Resolve(q), q), follow).verdict = "ok"
             PROVE  LET h == HostWalk(tree[Resolve(q)], Relative(Resolve(q), q), follow)
                        v == Locate(tree, q, follow)
                    IN  v.verdict = "ok" /\ v.mount = Resolve(q) /\ v.rel = h.rel
  BY DEF FastPathAgrees
<1> DEFINE d == Resolve(q)
           rel == Relative(d, q)
<1>1. q \in Path
  BY VfsAssumption DEF Path, Name
<1>2. d \in Mount /\ rel \in Path /\ q = At[d] \o rel
  BY <1>1, GovernedBy
<1>3. Trees(tree) /\ Clears(tree)
  BY DEF Typed, PointsClear, Clears
<1> HIDE DEF rel
<1>4. Agreed(d, HostWalk(tree[d], rel, follow), Locate(tree, At[d] \o rel, follow))
  BY <1>2, <1>3, Agreement DEF rel
<1> QED
  BY <1>2, <1>4 DEF Agreed, rel

(* The whole path to the host in one step, or walked by the namespace:      *)
(* wherever the host finds its way, both find the same file (Vfs::at).      *)
THEOREM FastPath == Spec => []FastPathAgrees
<1>1. Typed => FastPathAgrees
  BY TypedAgrees
<1> QED
  BY <1>1, Types, PTL

-----------------------------------------------------------------------------
(* Where a link that `symlink` makes leads.                                *)

(* Paths without "..", which all that is located is at. *)
Plain == {p \in Path : NoUps(p)}

(* A path without ".." has none in its parts.                              *)
LEMMA PlainParts ==
  ASSUME NEW a \in Path, NEW b \in Path, a \o b \in Plain
  PROVE  a \in Plain /\ b \in Plain
<1> DEFINE z == a \o b
<1>1. /\ Len(z) = Len(a) + Len(b) /\ Len(a) \in Nat /\ Len(b) \in Nat
      /\ \A i \in 1..(Len(a) + Len(b)) : z[i] = IF i <= Len(a) THEN a[i] ELSE b[i - Len(a)]
  BY ConcatProperties, LenProperties DEF Path
<1>2. NoUps(z)
  BY DEF Plain
<1> HIDE DEF z
<1>3. ASSUME NEW i \in 1..Len(a)
      PROVE  a[i] # ".."
  <2>1. i \in 1..(Len(a) + Len(b)) /\ i <= Len(a)
    BY <1>1
  <2>2. z[i] = a[i] /\ i \in 1..Len(z)
    BY <1>1, <2>1
  <2> QED
    BY <1>2, <2>2 DEF NoUps
<1>4. ASSUME NEW i \in 1..Len(b)
      PROVE  b[i] # ".."
  <2> DEFINE k == Len(a) + i
  <2>1. k \in 1..(Len(a) + Len(b)) /\ ~(k <= Len(a)) /\ k - Len(a) = i
    BY <1>1
  <2> HIDE DEF k
  <2>2. z[k] = b[i] /\ k \in 1..Len(z)
    BY <1>1, <2>1
  <2> QED
    BY <1>2, <2>2 DEF NoUps
<1> QED
  BY <1>3, <1>4 DEF Plain, NoUps

(* Nor has it with a component more.                                       *)
LEMMA PlainMore ==
  ASSUME NEW p \in Plain, NEW n \in Name, n # ".."
  PROVE  Append(p, n) \in Plain
<1> DEFINE z == Append(p, n)
<1>1. p \in Path /\ NoUps(p)
  BY DEF Plain
<1>2. z \in Path /\ Len(z) = Len(p) + 1 /\ Len(p) \in Nat
  BY <1>1, OneMore
<1>3. p \in Seq(Name) /\ n \in Name
  BY <1>1 DEF Path
<1>4. z[Len(p) + 1] = n /\ \A i \in 1..Len(p) : z[i] = p[i]
  BY <1>3, AppendProperties
<1> HIDE DEF z
<1>5. ASSUME NEW i \in 1..Len(z)
      PROVE  z[i] # ".."
  <2>1. i \in 1..Len(p) \/ i = Len(p) + 1
    BY <1>2
  <2> QED
    BY <1>1, <1>4, <2>1 DEF NoUps
<1> QED
  BY <1>2, <1>5 DEF Plain, NoUps, z

(* Components pushed and popped bring none about.                          *)
LEMMA PlainSteady ==
  Steady(Plain)
<1>1. Plain \subseteq Path
  BY DEF Plain
<1>2. <<>> \in Plain
  <2>1. Len(<<>>) = 0 /\ <<>> \in Path
    BY StepIs
  <2> QED
    BY <2>1 DEF Plain, NoUps
<1>3. ASSUME NEW p \in Plain, p # <<>>
      PROVE  Front(p) \in Plain
  <2>1. PICK n \in Name : p = Append(Front(p), n)
    BY <1>1, <1>3, OneLess
  <2>2. Front(p) \in Path
    BY <1>1, <1>3, OneLess
  <2>3. p = Front(p) \o <<n>> /\ <<n>> \in Path
    BY <2>1, <2>2, OneMore
  <2> QED
    BY <2>2, <2>3, PlainParts
<1> QED
  BY <1>1, <1>2, <1>3, PlainMore DEF Steady

(* Nothing is located at a path that holds ".." (Vfs::locate).              *)
LEMMA LocatePlain ==
  ASSUME NEW trees, Trees(trees), NEW p \in Path, NEW follow,
         Locate(trees, p, follow).verdict = "ok"
  PROVE  Locate(trees, p, follow).path \in Plain
<1> DEFINE I == {s \in Within : s.at \in Plain}
<1>1. PICK w : /\ LocateRule(trees, follow, w)
               /\ \A q : Locate(trees, q, follow) = w[Start(q)]
  BY Locates
<1>2. Start(p) \in I
  <2>1. Start(p) \in Step /\ Start(p).hops = 0 /\ Start(p).at = <<>>
    BY StepIs DEF Start
  <2> QED
    BY <2>1, NamespaceAssumption, PlainSteady DEF Within, Steady
<1>3. ASSUME NEW s \in I, ~LocateOver(trees, follow, s)
      PROVE  LocateOn(trees, follow, s) \in I
  <2> DEFINE n == LocateOn(trees, follow, s)
             c == Candidate(s)
  <2>1. s \in Within /\ s \in Step /\ s.at \in Plain /\ s.todo # <<>>
    BY <1>3 DEF LocateOver, Within
  <2>2. n \in Within
    BY <1>3, <2>1, LocateCloser DEF Within, Closer
  <2>3. Head(s.todo) \in Name
    BY <2>1, Nexts
  <2>4. c \in Plain
    <3>1. CASE Head(s.todo) = ".."
      <4>1. s.at # <<>> /\ c = Front(s.at)
        BY <1>3, <3>1 DEF LocateOver, Candidate
      <4> QED
        BY <2>1, <4>1, PlainSteady DEF Steady
    <3>2. CASE Head(s.todo) # ".."
      <4>1. c = Append(s.at, Head(s.todo))
        BY <3>2 DEF Candidate, Here
      <4> QED
        BY <2>1, <2>3, <3>2, <4>1, PlainSteady DEF Steady
    <3> QED
      BY <3>1, <3>2
  <2> HIDE DEF c
  <2>5. \A abs : LinkBase(abs, c) \in Plain
    BY <2>4, PlainSteady DEF Steady, LinkBase
  <2>6. n.at \in Plain
    <3>1. CASE Meets(trees, follow, s)
      <4>1. \E abs : n.at = LinkBase(abs, c)
        BY <3>1 DEF LocateOn, Followed, c
      <4> QED
        BY <2>5, <4>1
    <3>2. CASE ~Meets(trees, follow, s)
      <4>1. c \in Path
        BY <2>4 DEF Plain
      <4>2. Passing(s, c) = [at |-> c, todo |-> Tail(s.todo), hops |-> s.hops]
        BY <2>1, <4>1, Nexts
      <4>3. n = Passing(s, c)
        BY <3>2 DEF LocateOn, c
      <4> HIDE DEF n
      <4>4. n.at = c
        BY <4>2, <4>3
      <4> QED
        BY <2>4, <4>4
    <3> QED
      BY <3>1, <3>2
  <2> QED
    BY <2>2, <2>6
<1>4. I \subseteq Within
  OBVIOUS
<1>5. PICK e \in I : LocateOver(trees, follow, e) /\ w[Start(p)] = LocateResult(e)
  <2> HIDE DEF I
  <2> QED
    BY <1>1, <1>2, <1>3, <1>4, LocateEnding
<1> DEFINE v == LocateResult(e)
<1>6. v.verdict = "ok"
  BY <1>1, <1>5
<1>7. \E m, r : v = [verdict |-> "ok", mount |-> m, rel |-> r, path |-> e.at]
  BY <1>6 DEF LocateResult, Failed
<1> HIDE DEF v
<1>8. v.path = e.at
  BY <1>7
<1> QED
  BY <1>1, <1>5, <1>8 DEF v

(* The host goes straight along directories. *)
Paved(t, x) == \A c \in Path : IsPrefix(c, x) => Is(t, c, "dir")

Standing(a, b, k) == [at |-> a, todo |-> b, hops |-> k]

(* One step along a directory.                                             *)
LEMMA PavedStep ==
  ASSUME NEW t, NEW follow, NEW h, HostRule(t, follow, h),
         NEW a \in Path, NEW b \in Path, b # <<>>, NEW rest \in Path,
         NoUps(a \o b), Paved(t, a \o b)
  PROVE  h[Place(a, b \o rest)] = h[Place(Append(a, Head(b)), Tail(b) \o rest)]
<1> DEFINE s == Place(a, b \o rest)
           c == Append(a, Head(b))
<1>1. /\ b \o rest \in Path /\ b \o rest # <<>>
      /\ Head(b \o rest) = Head(b) /\ Tail(b \o rest) = Tail(b) \o rest
  BY FirstIs
<1>2. s \in Step /\ s.at = a /\ s.todo = b \o rest /\ s.hops = 0
  BY <1>1, StepIs DEF Place
<1>3. /\ c \in Path /\ Tail(b) \in Path /\ c \o Tail(b) = a \o b
      /\ Head(b) # ".." /\ Head(b) \in Name
  BY FirstTaken, FirstOff DEF NoUps
<1>4. IsPrefix(c, c \o Tail(b)) /\ IsPrefix(a, a \o b)
  BY <1>3, Continued
<1>5. Is(t, a, "dir") /\ ~Is(t, c, "link")
  BY <1>3, <1>4 DEF Paved, Is
<1> HIDE DEF s
<1>6. Here(s) = c
  BY <1>1, <1>2 DEF Here
<1>7. ~HostMeets(t, follow, s)
  BY <1>5, <1>6 DEF HostMeets
<1>8. ~HostOver(t, follow, s)
  BY <1>1, <1>2, <1>3, <1>5, <1>7 DEF HostOver
<1>9. HostOn(t, follow, s) = Place(c, Tail(b) \o rest)
  <2>1. HostOn(t, follow, s) = Passing(s, c)
    BY <1>1, <1>2, <1>3, <1>6, <1>7 DEF HostOn
  <2> HIDE DEF c
  <2>2. Passing(s, c) = [at |-> c, todo |-> Tail(s.todo), hops |-> s.hops]
    BY <1>1, <1>2, <1>3, Nexts
  <2> QED
    BY <1>1, <1>2, <2>1, <2>2 DEF Place
<1>10. h[s] = h[HostOn(t, follow, s)]
  BY <1>2, <1>8, HostStep
<1> QED
  BY <1>9, <1>10 DEF s

(* The host's walk goes straight along directories.                        *)
LEMMA PavedOn ==
  ASSUME NEW t, NEW follow, NEW h, HostRule(t, follow, h),
         NEW x \in Path, NEW rest \in Path, NoUps(x), Paved(t, x)
  PROVE  h[Start(x \o rest)] = h[Place(x, rest)]
<1> DEFINE Wrong(a, b) == a \o b = x /\ h[Place(a, b \o rest)] # h[Place(x, rest)]
           B == {b \in Path : \E a \in Path : Wrong(a, b)}
           left == {Len(b) : b \in B}
<1> SUFFICES ASSUME B # {}
             PROVE  FALSE
  <2>1. <<>> \in Path /\ <<>> \o x = x
    BY NothingAfter
  <2>2. x \notin B
    OBVIOUS
  <2>3. h[Place(<<>>, x \o rest)] = h[Place(x, rest)]
    BY <2>1, <2>2
  <2> QED
    BY <2>3 DEF Place, Start
<1>1. left \subseteq Nat /\ left # {}
  <2>1. \A b \in B : Len(b) \in Nat
    BY LenProperties DEF Path
  <2> HIDE DEF B
  <2> QED
    BY <2>1
<1>2. PICK n \in left : \A k \in left : n <= k
  <2> HIDE DEF left
  <2> QED
    BY <1>1, Smallest
<1>3. PICK b \in B : n = Len(b)
  OBVIOUS
<1>4. PICK a \in Path : Wrong(a, b)
  OBVIOUS
<1>5. b \in Path
  OBVIOUS
<1>6. CASE b = <<>>
  <2>1. a = x /\ b \o rest = rest
    BY <1>4, <1>6, NothingAfter
  <2> QED
    BY <1>4, <2>1
<1>7. CASE b # <<>>
  <2> DEFINE c == Append(a, Head(b))
             y == Tail(b)
  <2>1. c \in Path /\ y \in Path /\ c \o y = x
    BY <1>4, <1>5, <1>7, FirstTaken
  <2>2. h[Place(a, b \o rest)] = h[Place(c, y \o rest)]
    <3>1. NoUps(a \o b) /\ Paved(t, a \o b)
      BY <1>4
    <3> HIDE DEF left, B, Wrong
    <3> QED
      BY <1>5, <1>7, <3>1, PavedStep
  <2>3. Len(y) \in Nat /\ Len(b) = Len(y) + 1
    BY <1>5, <1>7, FirstOff
  <2> HIDE DEF c, y
  <2>4. Wrong(c, y)
    BY <1>4, <2>1, <2>2
  <2>5. y \in B
    BY <2>1, <2>4
  <2>6. Len(y) \in left
    BY <2>5
  <2> HIDE DEF left, B, Wrong
  <2>7. n <= Len(y)
    BY <1>2, <2>6
  <2> QED
    BY <1>3, <2>3, <2>7
<1> QED
  BY <1>6, <1>7

Following(follow) == follow = TRUE
Names(n) == n \in Name /\ n # ".."
Leading(t, p, to) == p \in DOMAIN t /\ t[p] = Link(FALSE, to)

(* The host takes the link that is the last component of a path.            *)
LEMMA LinkTaken ==
  ASSUME NEW t, NEW follow, Following(follow), NEW h, HostRule(t, follow, h),
         NEW a \in Path, NEW n, Names(n), NEW to \in Path, Leading(t, Append(a, n), to),
         h[Place(a, <<n>>)].verdict = "ok"
  PROVE  1 <= MaxHops /\ h[Place(a, <<n>>)] = h[Standing(a, to, 1)]
<1> DEFINE s == Place(a, <<n>>)
<1>1. /\ s \in Step /\ s.at = a /\ s.todo = <<n>> /\ s.hops = 0 /\ s.todo # <<>>
      /\ s = [at |-> a, todo |-> <<n>>, hops |-> 0]
  <2>1. <<n>> \in Path
    BY OneMore DEF Names
  <2> QED
    BY <2>1, StepIs DEF Place
<1>2. Head(<<n>>) = n /\ Tail(<<n>>) = <<>>
  OBVIOUS
<1> HIDE DEF s
<1>3. Here(s) = Append(a, n)
  BY <1>1, <1>2 DEF Here
<1> DEFINE l == Append(a, n)
<1>4. Is(t, l, "link") /\ t[l].abs = FALSE /\ t[l].to = to
  BY DEF Leading, Is, Link
<1> HIDE DEF l
<1>5. HostMeets(t, follow, s)
  BY <1>3, <1>4 DEF HostMeets, Following, l
<1>6. ~HostOver(t, follow, s)
  <2> SUFFICES ASSUME HostOver(t, follow, s)
               PROVE  FALSE
    OBVIOUS
  <2>1. h[s] = HostResult(t, s)
    BY <1>1, HostStep
  <2>2. HostResult(t, s).verdict # "ok"
    BY <1>1 DEF HostResult, Failed
  <2> QED
    BY <2>1, <2>2 DEF s
<1>7. MaxHops # 0
  BY <1>1, <1>2, <1>5, <1>6 DEF HostOver, Names
<1>8. to \o <<>> = to
  BY NothingAfter
<1>9. HostOn(t, follow, s) = Standing(a, to, 1)
  <2>1. HostOn(t, follow, s) = [s EXCEPT !.todo = to \o Tail(s.todo), !.hops = @ + 1]
    BY <1>1, <1>2, <1>3, <1>4, <1>5 DEF HostOn, Names, l
  <2> DEFINE y == to \o Tail(s.todo)
  <2>2. y = to
    BY <1>1, <1>2, <1>8
  <2> HIDE DEF y
  <2>3. [s EXCEPT !.todo = y, !.hops = @ + 1] = [at |-> a, todo |-> y, hops |-> 1]
    <3> DEFINE r == [s EXCEPT !.todo = y]
    <3>1. r = [at |-> a, todo |-> y, hops |-> 0]
      BY <1>1
    <3> HIDE DEF r
    <3>2. s.hops + 1 = 1
      BY <1>1
    <3>3. [r EXCEPT !.hops = s.hops + 1] = [at |-> a, todo |-> y, hops |-> 1]
      BY <3>1, <3>2
    <3> QED
      BY <3>3 DEF r
  <2>4. HostOn(t, follow, s) = [s EXCEPT !.todo = y, !.hops = @ + 1]
    BY <2>1 DEF y
  <2> QED
    BY <2>2, <2>3, <2>4 DEF Standing
<1>10. h[s] = h[HostOn(t, follow, s)]
  BY <1>1, <1>6, HostStep
<1>11. 1 <= MaxHops
  BY <1>7, NamespaceAssumption
<1> QED
  BY <1>9, <1>10, <1>11 DEF s

(* The first of n + 1 components "..".                                     *)
LEMMA UpsMore ==
  ASSUME NEW n \in Nat
  PROVE  Ups(n + 1) # <<>> /\ Head(Ups(n + 1)) = ".." /\ Tail(Ups(n + 1)) = Ups(n)
<1> DEFINE u == Ups(n + 1)
<1>1. u \in Path /\ Len(u) = n + 1 /\ Ups(n) \in Path /\ Len(Ups(n)) = n
  BY UpsPath
<1>2. \A i \in 1..(n + 1) : u[i] = ".."
  BY DEF Ups
<1>3. \A i \in 1..n : Ups(n)[i] = ".."
  BY DEF Ups
<1> HIDE DEF u
<1>4. u # <<>>
  <2>1. Len(<<>>) = 0
    OBVIOUS
  <2> QED
    BY <1>1, <2>1
<1>5. /\ Head(u) = u[1] /\ Tail(u) \in Path /\ Len(Tail(u)) = Len(u) - 1
      /\ \A i \in 1..(Len(u) - 1) : Tail(u)[i] = u[i + 1]
  BY <1>1, <1>4, HeadTailProperties DEF Path
<1>6. Len(Tail(u)) = Len(Ups(n)) /\ \A i \in 1..Len(Ups(n)) : Tail(u)[i] = Ups(n)[i]
  BY <1>1, <1>2, <1>3, <1>5
<1>7. Tail(u) = Ups(n)
  BY <1>1, <1>5, <1>6, SeqEqual DEF Path
<1>8. Head(u) = ".."
  BY <1>1, <1>2, <1>5
<1> QED
  BY <1>4, <1>7, <1>8 DEF u

(* The host climbs as often as it is told to. *)
Rises(b) == b # <<>> /\ Head(b) = ".."

(* One ".." takes the host one directory up.                               *)
LEMMA UpOnce ==
  ASSUME NEW t, NEW follow, NEW h, HostRule(t, follow, h), NEW a \in Path, a # <<>>,
         NEW b \in Path, Rises(b), NEW k \in Nat,
         h[Standing(a, b, k)].verdict = "ok"
  PROVE  h[Standing(a, b, k)] = h[Standing(Front(a), Tail(b), k)]
<1> DEFINE s == Standing(a, b, k)
<1>1. /\ s \in Step /\ s.at = a /\ s.todo = b /\ s.hops = k
      /\ s.todo # <<>> /\ Head(s.todo) = ".."
  BY StepIs DEF Standing, Rises
<1> HIDE DEF s
<1>2. ~HostOver(t, follow, s)
  <2> SUFFICES ASSUME HostOver(t, follow, s)
               PROVE  FALSE
    OBVIOUS
  <2>1. h[s] = HostResult(t, s)
    BY <1>1, HostStep
  <2>2. HostResult(t, s).verdict # "ok"
    BY <1>1 DEF HostResult, Failed
  <2> QED
    BY <2>1, <2>2 DEF s
<1>3. HostOn(t, follow, s) = Passing(s, Front(a))
  BY <1>1 DEF HostOn
<1> DEFINE f == Front(a)
<1>4. f \in Path
  BY OneLess
<1> HIDE DEF f
<1>5. Passing(s, f) = [at |-> f, todo |-> Tail(s.todo), hops |-> s.hops]
  BY <1>1, <1>4, Nexts
<1>6. Passing(s, f) = Standing(f, Tail(b), k)
  BY <1>1, <1>5 DEF Standing
<1> QED
  BY <1>1, <1>2, <1>3, <1>6, HostStep DEF s, f

(* At a, beneath c by x, and told to climb to c and go on along rest. *)
Climbing(a, u, c, x, rest) == a = c \o x /\ u = Ups(Len(x)) \o rest

(* It gets there.                                                          *)
LEMMA Climbed ==
  ASSUME NEW t, NEW follow, NEW h, HostRule(t, follow, h), NEW c \in Path, NEW x \in Path,
         NEW rest \in Path, NEW k \in Nat, NEW a, NEW u, Climbing(a, u, c, x, rest),
         h[Standing(a, u, k)].verdict = "ok"
  PROVE  h[Standing(a, u, k)] = h[Standing(c, rest, k)]
<1> DEFINE from(y) == Standing(c \o y, Ups(Len(y)) \o rest, k)
           Wrong(y) == h[from(y)].verdict = "ok" /\ h[from(y)] # h[Standing(c, rest, k)]
           B == {y \in Path : Wrong(y)}
           left == {Len(y) : y \in B}
<1> SUFFICES ASSUME B # {}
             PROVE  FALSE
  BY DEF Climbing
<1>1. left \subseteq Nat /\ left # {}
  <2>1. \A y \in B : Len(y) \in Nat
    BY LenProperties DEF Path
  <2> HIDE DEF B
  <2> QED
    BY <2>1
<1>2. PICK n \in left : \A i \in left : n <= i
  <2> HIDE DEF left
  <2> QED
    BY <1>1, Smallest
<1>3. PICK y \in B : n = Len(y)
  OBVIOUS
<1>4. y \in Path /\ Wrong(y)
  OBVIOUS
<1> HIDE DEF Wrong
<1>5. CASE y = <<>>
  <2>1. Ups(0) \in Path /\ Len(Ups(0)) = 0 /\ Len(<<>>) = 0
    BY UpsPath
  <2>2. Ups(0) = <<>>
    BY <2>1, EmptySeq DEF Path
  <2>3. c \o y = c /\ Ups(Len(y)) \o rest = rest
    BY <1>5, <2>1, <2>2, NothingAfter
  <2> QED
    BY <1>4, <2>3 DEF Wrong
<1>6. CASE y # <<>>
  <2> DEFINE z == Front(y)
  <2>1. z \in Path /\ Len(z) \in Nat /\ Len(y) = Len(z) + 1
    BY <1>4, <1>6, OneLess, LenProperties DEF Path
  <2>2. c \o y \in Path /\ c \o y # <<>> /\ Front(c \o y) = c \o z
    BY <1>4, <1>6, BeneathLess, Continued
  <2> HIDE DEF z
  <2>3. /\ Ups(Len(y)) \in Path /\ Ups(Len(y)) # <<>> /\ Head(Ups(Len(y))) = ".."
        /\ Tail(Ups(Len(y))) = Ups(Len(z))
    BY <2>1, UpsMore, UpsPath
  <2>4. h[from(y)].verdict = "ok"
    BY <1>4 DEF Wrong
  <2>5. h[from(y)] = h[from(z)]
    <3> DEFINE g == Ups(Len(y)) \o rest
               f == Ups(Len(z)) \o rest
               w == c \o y
    <3>1. g \in Path /\ g # <<>> /\ Head(g) = ".." /\ Tail(g) = f
      BY <2>3, FirstIs
    <3>2. w \in Path /\ w # <<>> /\ Front(w) = c \o z /\ h[Standing(w, g, k)].verdict = "ok"
      BY <2>2, <2>4
    <3> HIDE DEF left, B, g, f, w
    <3>3. Rises(g)
      BY <3>1 DEF Rises
    <3>4. g \in Path /\ w \in Path /\ w # <<>>
      BY <3>1, <3>2
    <3>5. h[Standing(w, g, k)].verdict = "ok"
      BY <3>2
    <3>6. h[Standing(w, g, k)] = h[Standing(Front(w), Tail(g), k)]
      BY <3>3, <3>4, <3>5, UpOnce
    <3> QED
      BY <3>1, <3>2, <3>6 DEF g, f, w
  <2> HIDE DEF from
  <2>6. Wrong(z)
    BY <1>4, <2>5 DEF Wrong
  <2>7. z \in B
    BY <2>1, <2>6
  <2>8. Len(z) \in left
    BY <2>7
  <2> HIDE DEF left, B
  <2>9. n <= Len(z)
    BY <1>2, <2>8
  <2> QED
    BY <1>3, <2>1, <2>9
<1> QED
  BY <1>5, <1>6


(* A mount point, and directories beneath it, stop no walk.                 *)
LEMMA BeneathStraight ==
  ASSUME NEW trees, Trees(trees), Clears(trees), NEW d \in Mount, ~ShadowsNested(d),
         NEW c \in Path, Paved(trees[d], c)
  PROVE  Straight(trees, At[d] \o c)
<1> DEFINE x == At[d] \o c
           a == At[d]
<1>1. a \in Path /\ Straight(trees, a)
  BY Points, PointStraight
<1>2. x \in Path /\ IsPrefix(a, x) /\ Resolve(x) = d /\ d # None
  BY Points, Continued, ResolveBeneath, NamespaceAssumption
<1>3. x = a \o c
  OBVIOUS
<1>4. \A y \in Path : Resolve(a \o y) = d /\ Relative(d, a \o y) = y
  BY ResolveBeneath
<1> HIDE DEF x, a
<1>5. ASSUME NEW q \in Path, IsPrefix(q, x), q # <<>>
      PROVE  /\ Resolve(q) = None => q # x /\ HasMountBelow(q)
             /\ Resolve(q) # None => ~Is(trees[Resolve(q)], Relative(Resolve(q), q), "link")
  <2>1. CASE Len(q) <= Len(a)
    <3>1. IsPrefix(q, a)
      BY <1>1, <1>2, <1>5, <2>1, Comparable
    <3> QED
      BY <1>1, <1>2, <1>5, <3>1 DEF Straight
  <2>2. CASE ~(Len(q) <= Len(a))
    <3>1. Len(a) <= Len(q)
      BY <1>1, <1>5, <2>2, LenProperties DEF Path
    <3>2. IsPrefix(a, q)
      BY <1>1, <1>2, <1>5, <3>1, Comparable
    <3> DEFINE y == After(a, q)
               z == After(q, x)
    <3>3. y \in Path /\ q = a \o y /\ z \in Path /\ x = q \o z
      BY <1>1, <1>2, <1>5, <3>2, Splits
    <3> HIDE DEF y, z
    <3>4. a \o c = a \o (y \o z) /\ y \o z \in Path
      BY <1>1, <1>3, <3>3, Associates, Continued
    <3>5. c = y \o z
      BY <1>1, <3>4, OneAfter
    <3>6. IsPrefix(y, c)
      BY <3>3, <3>5, Continued
    <3>7. Is(trees[d], y, "dir")
      BY <3>3, <3>6 DEF Paved
    <3>8. Resolve(q) = d /\ Relative(d, q) = y
      BY <1>4, <3>3
    <3> QED
      BY <1>2, <3>7, <3>8 DEF Is
  <2> QED
    BY <2>1, <2>2
<1> QED
  BY <1>5 DEF Straight, x

(* A relative link leads the host to where the namespace goes from the link's *)
(* directory, climbed out of as far as c, and on along the rest.            *)
LEMMA LinkLeads ==
  ASSUME NEW trees, Trees(trees), Clears(trees), NEW d \in Mount, ~ShadowsNested(d),
         NEW follow, Following(follow),
         NEW c \in Path, NEW x \in Path, NEW rest \in Path, NEW n, Names(n),
         NEW above, above = c \o x, NoUps(above), Paved(trees[d], above), NoUps(At[d] \o c),
         Leading(trees[d], Append(above, n), Ups(Len(x)) \o rest),
         HostWalk(trees[d], Append(above, n), follow).verdict = "ok"
  PROVE  Agreed(d, HostWalk(trees[d], Append(above, n), follow),
                Locate(trees, At[d] \o (c \o rest), follow))
<1> DEFINE t == trees[d]
           to == Ups(Len(x)) \o rest
<1>1. HostDirectory(t)
  BY DEF Trees
<1>2. PICK h : /\ HostRule(t, follow, h)
               /\ \A r : HostWalk(t, r, follow) = h[Start(r)]
  BY <1>1, HostWalks
<1>3. PICK l : /\ LocateRule(trees, follow, l)
               /\ \A p : Locate(trees, p, follow) = l[Start(p)]
  BY Locates
<1>4. above \in Path /\ IsPrefix(c, above) /\ Len(x) \in Nat
  BY Continued, LenProperties DEF Path
<1>5. Append(above, n) = above \o <<n>> /\ <<n>> \in Path
  BY <1>4, OneMore DEF Names
<1>6. to \in Path
  BY <1>4, UpsPath, Continued
<1> DEFINE p == Append(above, n)
<1>7. h[Start(p)] = h[Place(above, <<n>>)]
  BY <1>2, <1>4, <1>5, PavedOn
<1>8. h[Start(p)].verdict = "ok"
  BY <1>2
<1>9. Leading(t, p, to)
  OBVIOUS
<1> HIDE DEF t, to
<1>10. 1 <= MaxHops /\ h[Place(above, <<n>>)] = h[Standing(above, to, 1)]
  BY <1>2, <1>4, <1>6, <1>7, <1>8, <1>9, LinkTaken
<1>11. h[Standing(above, to, 1)] = h[Standing(c, rest, 1)]
  <2> DEFINE i == 1
  <2>1. i \in Nat /\ h[Standing(above, to, i)].verdict = "ok"
    BY <1>7, <1>8, <1>10
  <2>2. Climbing(above, to, c, x, rest)
    BY DEF Climbing, to
  <2> HIDE DEF i
  <2>3. h[Standing(above, to, i)] = h[Standing(c, rest, i)]
    BY <1>2, <2>1, <2>2, Climbed
  <2> QED
    BY <2>3 DEF i
<1> DEFINE s == Standing(c, rest, 1)
           u == Place(At[d] \o c, rest)
<1>12. l[Start(At[d] \o (c \o rest))] = l[u]
  <2> DEFINE q == At[d] \o c
  <2>1. q \in Path /\ At[d] \o (c \o rest) = q \o rest
    <3> DEFINE a == At[d]
    <3>1. a \in Path
      BY Points
    <3> HIDE DEF a
    <3>2. a \o c \in Path /\ (a \o c) \o rest = a \o (c \o rest)
      BY <3>1, Continued, Associates
    <3> QED
      BY <3>2 DEF a
  <2>2. Straight(trees, q)
    <3>1. Paved(trees[d], c)
      BY <1>4, Further DEF Paved
    <3> QED
      BY <3>1, BeneathStraight
  <2>3. NoUps(q)
    OBVIOUS
  <2> HIDE DEF q
  <2>4. l[Start(q \o rest)] = l[Place(q, rest)]
    BY <1>3, <2>1, <2>2, <2>3, StraightOn
  <2> QED
    BY <2>1, <2>4 DEF q
<1>13. Twin(t, d, s, u)
  <2>1. s \in Step /\ s.at = c /\ s.todo = rest /\ s.hops = 1
    BY StepIs DEF Standing
  <2>2. u \in Step /\ u.at = At[d] \o c /\ u.todo = rest /\ u.hops = 0
    BY StepIs, Points, Continued DEF Place
  <2>3. ClearTo(t, c)
    BY <1>4, Further DEF ClearTo, Paved, t
  <2> HIDE DEF s, u
  <2>4. s.hops <= MaxHops /\ u.hops <= s.hops
    BY <1>10, <2>1, <2>2, NamespaceAssumption
  <2> QED
    BY <2>1, <2>2, <2>3, <2>4 DEF Twin
<1>14. h[s].verdict = "ok"
  BY <1>7, <1>8, <1>10, <1>11
<1>15. Agreed(d, h[s], l[u])
  BY <1>2, <1>3, <1>13, <1>14, Simulated DEF t
<1>16. HostWalk(t, p, follow) = h[s]
  BY <1>2, <1>7, <1>10, <1>11
<1>17. Locate(trees, At[d] \o (c \o rest), follow) = l[u]
  BY <1>3, <1>12
<1> QED
  BY <1>15, <1>16, <1>17 DEF t


(* A new link brings no link above a mount point where none is beneath.     *)
LEMMA StillClear ==
  ASSUME tree = [m \in Mount |-> tree[m]], PointsClear, NEW d \in Mount, ~ShadowsNested(d),
         NEW after
  PROVE  Clears([tree EXCEPT ![d] = after])
<1> DEFINE trees == [tree EXCEPT ![d] = after]
<1>1. \A n \in Mount : n # d => trees[n] = tree[n]
  OBVIOUS
<1> HIDE DEF trees
<1>2. ASSUME NEW m \in Mount, NEW q \in Prefixes(At[m]) \ {At[m]}, Resolve(q) = d
      PROVE  FALSE
  <2>1. PICK i \in 0..Len(At[m]) : q = SubSeq(At[m], 1, i)
    BY DEF Prefixes
  <2>2. At[m] \in Path /\ Len(At[m]) \in Nat
    BY Points
  <2>3. q \in Path /\ Len(q) = i
    <3>1. \A j \in 1..i : At[m][j] \in Name
      BY <2>1, <2>2, ElementOfSeq DEF Path
    <3>2. q \in Path /\ Len(q) = IF 1 <= i THEN i - 1 + 1 ELSE 0
      BY <2>1, <2>2, <3>1, SubSeqProperties DEF Path
    <3> QED
      BY <2>1, <2>2, <3>2
  <2>4. IsPrefix(q, At[m])
    <3>1. SubSeq(q, 1, Len(q)) = q
      BY <2>3, SubSeqFull DEF Path
    <3> QED
      BY <2>1, <2>2, <2>3, <3>1 DEF IsPrefix
  <2>5. IsPrefix(At[d], q) /\ At[d] \in Path
    <3>1. Resolve(q) # None
      BY <1>2, NamespaceAssumption
    <3> QED
      BY <1>2, <2>3, <3>1, Governed, Points DEF Over
  <2>6. IsPrefix(At[d], At[m])
    BY <2>2, <2>3, <2>4, <2>5, Further
  <2>7. At[d] # At[m]
    <3>1. q # At[m] /\ Len(q) <= Len(At[m])
      BY <2>1, <2>2, <2>3
    <3>2. ~(Len(At[m]) <= Len(q))
      BY <2>2, <2>3, <2>4, <3>1, SameLength
    <3>3. Len(At[d]) <= Len(q) /\ Len(At[d]) \in Nat
      BY <2>3, <2>5, PrefixLeads DEF Leads
    <3> QED
      BY <2>2, <2>3, <3>2, <3>3
  <2> QED
    BY <2>6, <2>7 DEF ShadowsNested, HasMountBelow, IsStrictPrefix
<1>3. ASSUME NEW m \in Mount, NEW n \in Mount, NEW q \in Prefixes(At[m]) \ {At[m]},
             Resolve(q) = n
      PROVE  ~Is(trees[n], Relative(n, q), "link")
  BY <1>1, <1>2, <1>3 DEF PointsClear
<1>4. Clears(trees)
  BY <1>3 DEF Clears
<1> QED
  BY <1>4 DEF trees

(* What LinkMeansTarget says of one link.                                   *)
Means(s) ==
  LET after == With(tree[s.on], s.rel, s.node)
      h == HostWalk(after, s.rel, TRUE)
      v == Locate([tree EXCEPT ![s.on] = after], s.landing, TRUE)
  IN  ~ShadowsNested(s.on) /\ Absent(tree[s.on], s.rel) /\ h.verdict = "ok"
        => v.verdict = "ok" /\ v.mount = s.on /\ v.rel = h.rel

(* Where something may be put, everything above is a directory.            *)
LEMMA LinkPaved ==
  ASSUME NEW t, HostDirectory(t), NEW rel \in Path, Absent(t, rel), NEW node
  PROVE  Paved(With(t, rel, node), Front(rel)) /\ rel # <<>>
<1> DEFINE u == With(t, rel, node)
           above == Front(rel)
<1>1. rel # <<>> /\ Is(t, above, "dir") /\ rel \notin DOMAIN t
  BY DEF Absent
<1>2. ASSUME NEW c \in Path, IsPrefix(c, above)
      PROVE  Is(t, c, "dir")
  <2>1. above \in DOMAIN t
    BY <1>1 DEF Is
  <2> HIDE DEF above
  <2> QED
    BY <1>1, <1>2, <2>1, AboveIsDir
<1>3. ASSUME NEW c, Is(t, c, "dir")
      PROVE  Is(u, c, "dir")
  BY <1>1, <1>3 DEF Is, With
<1> HIDE DEF u, above
<1>4. Paved(u, above)
  BY <1>2, <1>3 DEF Paved
<1> QED
  BY <1>1, <1>4 DEF u, above

(* A link that `symlink` agrees to make means its target.                  *)
LEMMA StoredMeans ==
  ASSUME Trees(tree), tree = [m \in Mount |-> tree[m]], PointsClear,
         NEW q \in Path, NEW target \in Targets, Stored(q, target) # None
  PROVE  Means(Stored(q, target))
<1>1. PICK link, landing, followed, lexical :
        Agreeing(q, target, link, landing, followed, lexical)
  BY StoredIs
<1> DEFINE d == link.mount
           rel == link.rel
           above == Front(rel)
           node == RelativeFrom(rel, lexical)
           after == With(tree[d], rel, node)
           trees == [tree EXCEPT ![d] = after]
<1>2. /\ d \in Mount /\ rel \in Path /\ link.path = At[d] \o rel /\ link.path \in Path
      /\ lexical \in Path /\ landing \in Path /\ landing = At[d] \o lexical
  BY <1>1 DEF Agreeing, Found
<1>3. /\ Stored(q, target).on = d /\ Stored(q, target).rel = rel
      /\ Stored(q, target).landing = landing /\ Stored(q, target).node = node
  <2>1. Stored(q, target) = [op |-> "symlink", on |-> d, rel |-> rel, landing |-> landing,
                             node |-> node]
    BY <1>1 DEF Agreeing
  <2> DEFINE s == Stored(q, target)
  <2> HIDE DEF s, d, rel, node
  <2>2. s = [op |-> "symlink", on |-> d, rel |-> rel, landing |-> landing, node |-> node]
    BY <2>1 DEF s
  <2>3. s.on = d /\ s.rel = rel /\ s.landing = landing /\ s.node = node
    BY <2>2
  <2> QED
    BY <2>3 DEF s
<1>4. SUFFICES ASSUME ~ShadowsNested(d), Absent(tree[d], rel),
                      HostWalk(after, rel, TRUE).verdict = "ok"
               PROVE  Agreed(d, HostWalk(after, rel, TRUE), Locate(trees, landing, TRUE))
  BY <1>3 DEF Means, Agreed
<1>5. link.path \in Plain
  BY <1>1, LocatePlain DEF Agreeing
<1>6. landing \in Plain
  <2>1. Parent(link.path) \in Plain
    BY <1>5, PlainSteady DEF Parent, Steady
  <2>2. target.to \in Path
    BY VfsAssumption DEF Path, Name
  <2>3. landing = Landing(Parent(link.path), target)
    BY <1>1 DEF Agreeing
  <2>4. landing # None
    BY <1>1 DEF Agreeing, Stored
  <2> DEFINE base == Parent(link.path)
  <2> HIDE DEF base
  <2>5. Landing(base, target) \in Plain \cup {None}
    BY <2>1, <2>2, PlainSteady, Lands DEF base
  <2> QED
    BY <2>3, <2>4, <2>5 DEF base
<1>7. rel \in Plain
  BY <1>2, <1>5, PlainParts, Points
<1>8. rel # <<>> /\ above \in Path /\ Paved(after, above)
  <2>1. HostDirectory(tree[d])
    BY <1>2 DEF Trees
  <2> HIDE DEF node
  <2> QED
    BY <1>2, <1>4, <2>1, LinkPaved, OneLess
<1>9. PICK c \in Path, n \in Nat :
        /\ IsPrefix(c, Parent(rel)) /\ IsPrefix(c, lexical)
        /\ n = Len(Parent(rel)) - Len(c)
        /\ node = Link(FALSE, Ups(n) \o After(c, lexical))
        /\ Ups(n) \o After(c, lexical) \in Path
  BY <1>2, RelativeFromIs
<1>10. Parent(rel) = above
  BY <1>8 DEF Parent
<1> DEFINE x == After(c, above)
           rest == After(c, lexical)
<1>11. x \in Path /\ rest \in Path /\ above = c \o x /\ lexical = c \o rest
  BY <1>2, <1>8, <1>9, <1>10, Splits
<1>12. Len(x) = n
  <2>1. Len(above) = Len(c) + Len(x) /\ Len(c) \in Nat /\ Len(x) \in Nat
    BY <1>11, ConcatProperties, LenProperties DEF Path
  <2> QED
    BY <1>9, <1>10, <2>1
<1>13. Fits(node)
  BY <1>9 DEF Fits, Link
<1>14. Leading(after, rel, Ups(Len(x)) \o rest)
  <2>1. node = Link(FALSE, Ups(Len(x)) \o rest)
    BY <1>9, <1>12
  <2>2. rel \in DOMAIN after /\ after[rel] = node
    BY DEF With
  <2> QED
    BY <2>1, <2>2 DEF Leading
<1> HIDE DEF d, rel, node, x, rest
<1>15. trees[d] = after /\ Trees(trees)
  <2>1. trees[d] = after /\ \A m \in Mount : m # d => trees[m] = tree[m]
    BY <1>2
  <2>2. HostDirectory(after)
    BY <1>2, <1>4, <1>13, PutStays DEF Trees
  <2> HIDE DEF trees, after
  <2> QED
    BY <2>1, <2>2 DEF Trees
<1>16. Clears(trees)
  <2> HIDE DEF after
  <2> QED
    BY <1>2, <1>4, StillClear
<1> HIDE DEF after, trees, above
<1>17. PICK name \in Name : rel = Append(above, name)
  BY <1>2, <1>8, OneLess DEF above
<1>18. Names(name) /\ NoUps(above)
  <2>1. rel = above \o <<name>> /\ <<name>> \in Path
    BY <1>8, <1>17, OneMore
  <2>2. above \in Plain /\ <<name>> \in Plain
    BY <1>7, <1>8, <2>1, PlainParts
  <2>3. name # ".."
    <3>1. Len(<<name>>) = 1 /\ <<name>>[1] = name
      OBVIOUS
    <3> QED
      BY <2>2, <3>1 DEF Plain, NoUps
  <2> QED
    BY <2>2, <2>3 DEF Names, Plain
<1>19. landing = At[d] \o (c \o rest)
  BY <1>2, <1>11
<1>20. NoUps(At[d] \o c)
  <2> DEFINE a == At[d]
  <2>1. a \in Path
    BY <1>2, Points
  <2> HIDE DEF a
  <2>2. landing = (a \o c) \o rest /\ a \o c \in Path
    BY <1>11, <1>19, <2>1, Associates, Continued DEF a
  <2>3. a \o c \in Plain
    BY <1>6, <1>11, <2>2, PlainParts
  <2> QED
    BY <2>3 DEF Plain, a
<1> DEFINE follow == TRUE
<1>21. Following(follow)
  BY DEF Following
<1>22. HostWalk(after, rel, follow).verdict = "ok"
  BY <1>4
<1> HIDE DEF follow
<1>23. Agreed(d, HostWalk(trees[d], Append(above, name), follow),
              Locate(trees, At[d] \o (c \o rest), follow))
  BY <1>2, <1>4, <1>8, <1>11, <1>14, <1>15, <1>16, <1>17, <1>18, <1>20, <1>21, <1>22, LinkLeads
<1> QED
  BY <1>15, <1>17, <1>19, <1>23 DEF follow


(* Only `symlink` gives a process that had nothing to do a link to make.    *)
LEMMA LinkPlanned ==
  ASSUME Typed, [Next]_vars, NEW p \in Proc, Idle(p), job'[p] # None, job'[p].op = "symlink"
  PROVE  \E q \in Paths, target \in Targets :
           Stored(q, target) # None /\ job'[p] = Stored(q, target)
<1> DEFINE Goal == \E q \in Paths, target \in Targets :
                     Stored(q, target) # None /\ job'[p] = Stored(q, target)
<1>0. job = [r \in Proc |-> job[r]] /\ job[p] = None
  BY DEF Typed, IInv, Idle
<1>1. ASSUME job' = job
      PROVE  FALSE
  BY <1>0, <1>1
<1>2. ASSUME NEW r \in Proc, NEW what, Plan(r, what)
      PROVE  r = p /\ job'[p] = what
  BY <1>0, <1>2 DEF Plan
<1>3. ASSUME NEW r \in Proc, Done(r)
      PROVE  FALSE
  BY <1>0, <1>3 DEF Done
<1>4. ASSUME UNCHANGED vars
      PROVE  FALSE
  BY <1>1, <1>4 DEF vars
<1>5. ASSUME Quiet
      PROVE  FALSE
  BY <1>1, <1>5 DEF Quiet, vars
<1>6. ASSUME NEW r \in Proc, Perform(r)
      PROVE  FALSE
  BY <1>3, <1>6
     DEF Perform, AtPerform, RenamePerform, HardLinkPerform, CopyPerform, SymlinkPerform
<1>7. ASSUME NEW r \in Proc, NEW what, Plan(r, what), what.op # "symlink"
      PROVE  FALSE
  BY <1>2, <1>7
<1>8. ASSUME NEW r \in Proc, NEW q \in Paths, NEW op \in AtOps, AtDirect(r, op, q)
      PROVE  FALSE
  BY <1>1, <1>8 DEF AtDirect
<1>9. ASSUME NEW r \in Proc, NEW q \in Paths, NEW op \in AtOps, AtLocate(r, op, q)
      PROVE  FALSE
  <2>1. PICK v : Plan(r, [op |-> op, on |-> v.mount, rel |-> v.rel, named |-> q])
    BY <1>9 DEF AtLocate
  <2>2. op # "symlink"
    BY DEF AtOps
  <2> QED
    BY <1>7, <2>1, <2>2
<1>10. ASSUME NEW r \in Proc, NEW q \in Paths, NEW to \in Paths, RenameLocate(r, q, to)
       PROVE  FALSE
  <2>1. PICK f, g : Plan(r, [op |-> "rename", on |-> f.mount, rel |-> f.rel, to |-> g.rel])
    BY <1>10 DEF RenameLocate
  <2> QED
    BY <1>7, <2>1
<1>11. ASSUME NEW r \in Proc, NEW q \in Paths, NEW to \in Paths, HardLinkLocate(r, q, to)
       PROVE  FALSE
  <2>1. PICK f, g : Plan(r, [op |-> "hard_link", on |-> f.mount, rel |-> f.rel, to |-> g.rel])
    BY <1>11 DEF HardLinkLocate
  <2> QED
    BY <1>7, <2>1
<1>12. ASSUME NEW r \in Proc, NEW q \in Paths, NEW to \in Paths, CopyLocate(r, q, to)
       PROVE  FALSE
  <2>1. PICK f, g : Plan(r, [op |-> "copy", from |-> f.mount, source |-> f.rel,
                             on |-> g.mount, rel |-> g.rel])
    BY <1>12 DEF CopyLocate
  <2> QED
    BY <1>7, <2>1
<1>13. ASSUME NEW r \in Proc, NEW q \in Paths, NEW target \in Targets,
              SymlinkLocate(r, q, target)
       PROVE  Goal
  <2>1. Stored(q, target) # None /\ Plan(r, Stored(q, target))
    BY <1>13 DEF SymlinkLocate
  <2>2. job'[p] = Stored(q, target)
    BY <1>2, <2>1
  <2> QED
    BY <2>1, <2>2
<1> HIDE DEF Goal
<1>14. Goal
  BY <1>4, <1>5, <1>6, <1>8, <1>9, <1>10, <1>11, <1>12, <1>13 DEF Next
<1> QED
  BY <1>14 DEF Goal

(* A link that `symlink` stores leads the host to where its target lies in  *)
(* the namespace (Vfs::symlink).                                           *)
THEOREM LinkMeaning == Spec => LinkMeansTarget
<1>1. ASSUME Typed, [Next]_vars, PointsClear, NEW p \in Proc,
             Idle(p), job'[p] # None, job'[p].op = "symlink"
      PROVE  Means(job'[p])
  <2>1. PICK q \in Paths, target \in Targets :
          Stored(q, target) # None /\ job'[p] = Stored(q, target)
    BY <1>1, LinkPlanned
  <2>2. Trees(tree) /\ tree = [m \in Mount |-> tree[m]] /\ q \in Path
    BY <1>1, VfsAssumption DEF Typed, IInv, Path, Name
  <2>3. Means(Stored(q, target))
    BY <1>1, <2>1, <2>2, StoredMeans
  <2> QED
    BY <2>1, <2>3
<1> DEFINE Said ==
      PointsClear =>
        \A p \in Proc :
          LET s == job'[p]
              after == With(tree[s.on], s.rel, s.node)
              h == HostWalk(after, s.rel, TRUE)
              v == Locate([tree EXCEPT ![s.on] = after], s.landing, TRUE)
          IN  Idle(p) /\ s # None /\ s.op = "symlink" /\ ~ShadowsNested(s.on)
                /\ Absent(tree[s.on], s.rel) /\ h.verdict = "ok"
              => v.verdict = "ok" /\ v.mount = s.on /\ v.rel = h.rel
<1>2. Typed /\ [Next]_vars => Said
  <2> SUFFICES ASSUME Typed, [Next]_vars, PointsClear, NEW p \in Proc,
                      Idle(p), job'[p] # None, job'[p].op = "symlink"
               PROVE  LET s == job'[p]
                          after == With(tree[s.on], s.rel, s.node)
                          h == HostWalk(after, s.rel, TRUE)
                          v == Locate([tree EXCEPT ![s.on] = after], s.landing, TRUE)
                      IN  ~ShadowsNested(s.on) /\ Absent(tree[s.on], s.rel) /\ h.verdict = "ok"
                          => v.verdict = "ok" /\ v.mount = s.on /\ v.rel = h.rel
    OBVIOUS
  <2>1. Means(job'[p])
    BY <1>1
  <2> QED
    BY <2>1 DEF Means
<1>3. Typed /\ [Next]_vars => [Said]_vars
  BY <1>2
<1> QED
  BY <1>3, Types, PTL DEF Spec, LinkMeansTarget

=============================================================================
