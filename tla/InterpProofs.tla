---------------------------- MODULE InterpProofs ----------------------------
(***************************************************************************)
(* Proofs about Interp, for every bound, every set of signals and options. *)
(*                                                                         *)
(* Every step of the interpreter does one of three things to the           *)
(* activations: it changes the last one and leaves the stacks of the shell *)
(* alone, it adds one and enters what that one enters, or it removes the   *)
(* last one and leaves what it had entered.  The lemmas Same, Pushed and   *)
(* Popped say that each of the three keeps the activations and the shell   *)
(* in agreement; the steps of the proofs show which of them an action is.  *)
(***************************************************************************)
EXTENDS Interp, SequenceTheorems, WellFoundedInduction, TLAPS

---------------------------------------------------------------------------
(* Induction over positions: a set that has the first of them, and the     *)
(* next one with each, has them all.                                       *)

LEMMA Least ==
  ASSUME NEW T, T \subseteq Nat, T # {}
  PROVE  \E n \in T : \A m \in T : n <= m
<1>1. IsWellFoundedOn(OpToRel(<, Nat), Nat)
  BY NatLessThanWellFounded
<1>2. PICK x \in T : \A y \in T : ~ (<<y, x>> \in OpToRel(<, Nat))
  BY <1>1, WFMin
<1>3. \A y \in T : ~ (y < x)
  BY <1>2 DEF OpToRel
<1> QED
  BY <1>3

LEMMA Along ==
  ASSUME NEW T, NEW m \in Nat, NEW n \in Nat,
         m \in T, \A i \in m..(n - 1) : i \in T => i + 1 \in T
  PROVE  \A i \in m..n : i \in T
<1> DEFINE Missed == {i \in m..n : i \notin T}
<1> SUFFICES ASSUME Missed # {} PROVE FALSE
  OBVIOUS
<1>1. Missed \subseteq Nat
  OBVIOUS
<1>2. PICK x \in Missed : \A y \in Missed : x <= y
  BY <1>1, Least
<1>3. x # m /\ x - 1 \in m..(n - 1) /\ x - 1 \notin Missed /\ x - 1 \in m..n
  BY <1>2
<1> QED
  BY <1>2, <1>3

---------------------------------------------------------------------------
(* Sequences *)

LEMMA PopAppend ==
  ASSUME NEW S, NEW s \in Seq(S), NEW x \in S
  PROVE  Pop(Append(s, x)) = s
<1> DEFINE t == Append(s, x)
<1>1. /\ t \in Seq(S) /\ Len(t) = Len(s) + 1 /\ Len(s) \in Nat
      /\ \A i \in 1..Len(s) : t[i] = s[i]
  BY AppendProperties, LenProperties
<1>2. \A i \in 1..Len(s) : t[i] \in S
  BY <1>1, ElementOfSeq
<1>3. /\ SubSeq(t, 1, Len(s)) \in Seq(S)
      /\ Len(SubSeq(t, 1, Len(s))) = Len(s)
      /\ \A i \in 1..Len(s) : SubSeq(t, 1, Len(s))[i] = t[i]
  <2>1. 1 \in Int /\ Len(s) \in Int
    BY <1>1
  <2>2. /\ SubSeq(t, 1, Len(s)) \in Seq(S)
        /\ Len(SubSeq(t, 1, Len(s)))
             = IF 1 <= Len(s) THEN Len(s) - 1 + 1 ELSE 0
        /\ \A i \in 1..(Len(s) - 1 + 1) : SubSeq(t, 1, Len(s))[i] = t[1 + i - 1]
    BY <2>1, <1>2, SubSeqProperties
  <2> HIDE DEF t
  <2> QED
    BY <2>2, <1>1
<1>4. SubSeq(t, 1, Len(s)) = s
  <2> HIDE DEF t
  <2> QED
    BY <1>1, <1>3, SeqEqual
<1> QED
  BY <1>1, <1>4 DEF Pop

LEMMA PopProperties ==
  ASSUME NEW S, NEW s \in Seq(S), s # <<>>
  PROVE  /\ Pop(s) \in Seq(S)
         /\ Len(s) \in Nat \ {0}
         /\ Len(Pop(s)) = Len(s) - 1
         /\ \A i \in 1..(Len(s) - 1) : Pop(s)[i] = s[i]
<1> DEFINE n == Len(s) - 1
<1>1. Len(s) \in Nat \ {0} /\ n \in Nat /\ n \in Int /\ 1 \in Int
  BY EmptySeq
<1>2. \A i \in 1..n : s[i] \in S
  BY <1>1, ElementOfSeq
<1> HIDE DEF n
<1>3. /\ SubSeq(s, 1, n) \in Seq(S)
      /\ Len(SubSeq(s, 1, n)) = IF 1 <= n THEN n - 1 + 1 ELSE 0
      /\ \A i \in 1..(n - 1 + 1) : SubSeq(s, 1, n)[i] = s[1 + i - 1]
  BY <1>1, <1>2, SubSeqProperties
<1>4. /\ SubSeq(s, 1, n) \in Seq(S)
      /\ Len(SubSeq(s, 1, n)) = n
      /\ \A i \in 1..n : SubSeq(s, 1, n)[i] = s[i]
  BY <1>1, <1>3
<1> QED
  BY <1>1, <1>4 DEF n, Pop

---------------------------------------------------------------------------
(* Activations and shell in agreement *)

(* A step never changes these parts of an activation. *)
Kept(a, c) ==
  /\ a.op = c.op /\ a.sup = c.sup /\ a.sig = c.sig
  /\ a.entry = c.entry /\ a.home = c.home

(* What is true of each activation by itself, at its place. *)
Placed(a, i) ==
  /\ a.op \in {"subshell", "pipe"} => Stacks(a.home) = a.entry
  /\ a.op \in {"top", "completion"} => i = 1
  /\ i = 1 => a.op \in {"top", "completion", "trap"}
  /\ a.op = "top" => a.entry.frames # <<>>
  /\ a.op = "trap" => /\ a.sig \in Signals /\ a.sig \notin a.entry.active
                      /\ a.entry.blocks = 0
                      /\ a.sig = "ERR" => ~a.sup

(* What is true of it whatever it is doing: it is quiet where it was told  *)
(* to be, it fires the ERR trap only where it is not, and a result is      *)
(* forgotten before the next command starts.                               *)
Ready(a) ==
  /\ a.sup /\ a.busy # "idle" => a.op = "simple" \/ a.quiet
  /\ a.busy = "errtrap" => ~a.quiet
  /\ a.op \in {"simple", "completion"} => ~a.quiet /\ a.busy # "errtrap"
  /\ a.op \in {"simple", "completion", "pipe"} => a.res = Ok(0)
  /\ a.res.kind = "ok"
  /\ a.busy = "run" => a.res.flow = "normal"

(* What an activation hands down to the one it has started. *)
Passes(a, c) ==
  /\ a.busy # "idle"
  /\ a.sup \/ (a.busy = "run" /\ a.quiet) => c.sup

(* A function or a script is among the first n activations. *)
Target(kk, n) == \E j \in 1..n : kk[j].op \in {"function", "source"}

(* Balanced, with the facts that make it inductive, of any activations kk, *)
(* any shell s and any base b.                                             *)
Sound(kk, s, b) ==
  /\ kk \in Seq(ActivationType)
  /\ s \in Shell
  /\ Stacks(s) = IF kk = <<>> THEN b ELSE Within(kk[Len(kk)])
  /\ kk # <<>> => kk[1].entry = b
  /\ \A i \in 1..(Len(kk) - 1) : kk[i + 1].entry = Within(kk[i])
  /\ \A i \in 1..Len(kk) : Placed(kk[i], i) /\ Ready(kk[i])
  /\ \A i \in 1..(Len(kk) - 1) : Passes(kk[i], kk[i + 1])
  /\ \A i \in 1..Len(kk) : kk[i].res.flow = "return" => Target(kk, i)

LEMMA KeptWithin ==
  ASSUME NEW a, NEW c, Kept(a, c)
  PROVE  /\ Within(a) = Within(c)
         /\ \A i : Placed(c, i) => Placed(a, i)
  BY DEF Kept, Within, Placed

(* The last activation changes, the stacks do not. *)
LEMMA Same ==
  ASSUME NEW kk, NEW s, NEW b, Sound(kk, s, b), kk # <<>>,
         NEW a \in ActivationType, Kept(a, kk[Len(kk)]), Ready(a),
         a.res.flow = "return" => Target(kk, Len(kk)),
         NEW t \in Shell, Stacks(t) = Stacks(s)
  PROVE  /\ Sound([kk EXCEPT ![Len(kk)] = a], t, b)
         /\ \A i \in 1..Len(kk) :
              Target(kk, i) => Target([kk EXCEPT ![Len(kk)] = a], i)
<1> DEFINE n == Len(kk)
           kn == [kk EXCEPT ![n] = a]
<1>1. kk \in Seq(ActivationType) /\ n \in Nat \ {0}
  BY EmptySeq DEF Sound
<1>2. /\ kn \in Seq(ActivationType) /\ Len(kn) = n
      /\ \A j \in 1..n : kn[j] = IF j = n THEN a ELSE kk[j]
  BY <1>1, ExceptSeq
<1>3. kn # <<>> /\ kn[n] = a
  BY <1>1, <1>2
<1> HIDE DEF kn
<1>4. \A j \in 1..n : Kept(kn[j], kk[j])
  BY <1>1, <1>2 DEF Kept
<1>5. \A j \in 1..n : Within(kn[j]) = Within(kk[j]) /\ Placed(kn[j], j)
  BY <1>4, KeptWithin, <1>1 DEF Sound
<1>6. \A j \in 1..n : kn[j].entry = kk[j].entry
  BY <1>4 DEF Kept
<1>7. Stacks(t) = Within(kn[n])
  BY <1>1, <1>5 DEF Sound
<1>8. kn[1].entry = b
  BY <1>1, <1>6 DEF Sound
<1>9. \A i \in 1..(n - 1) : kn[i + 1].entry = Within(kn[i])
  <2> TAKE i \in 1..(n - 1)
  <2>1. i \in 1..n /\ i + 1 \in 1..n
    BY <1>1
  <2>2. kk[i + 1].entry = Within(kk[i])
    BY <1>1 DEF Sound
  <2> QED
    BY <2>1, <2>2, <1>5, <1>6
<1>10. \A j \in 1..n : Ready(kn[j])
  BY <1>2 DEF Sound
<1>11. \A i \in 1..(n - 1) : Passes(kn[i], kn[i + 1])
  <2> TAKE i \in 1..(n - 1)
  <2>1. i \in 1..n /\ i + 1 \in 1..n /\ i # n
    BY <1>1
  <2>2. Passes(kk[i], kk[i + 1]) /\ kn[i] = kk[i] /\ kn[i + 1].sup = kk[i + 1].sup
    BY <2>1, <1>2, <1>4 DEF Sound, Kept
  <2> QED
    BY <2>2 DEF Passes
<1>12. ASSUME NEW i \in 1..n, Target(kk, i)
       PROVE  Target(kn, i)
  <2>1. PICK j \in 1..i : kk[j].op \in {"function", "source"}
    BY <1>12 DEF Target
  <2>2. j \in 1..n
    BY <1>1
  <2> QED
    BY <2>1, <2>2, <1>4 DEF Kept, Target
<1>13. \A j \in 1..n : kn[j].res.flow = "return" => Target(kn, j)
  BY <1>2, <1>12 DEF Sound
<1>14. Sound(kn, t, b)
  BY <1>2, <1>3, <1>5, <1>7, <1>8, <1>9, <1>10, <1>11, <1>13 DEF Sound
<1> QED
  BY <1>12, <1>14 DEF kn

(* An activation is added and the shell enters what it enters. *)
LEMMA Pushed ==
  ASSUME NEW kk, NEW s, NEW b, Sound(kk, s, b),
         NEW a \in ActivationType, a.entry = Stacks(s),
         Placed(a, Len(kk) + 1), Ready(a), a.res.flow = "normal",
         kk # <<>> => Passes(kk[Len(kk)], a),
         NEW t \in Shell, Stacks(t) = Within(a)
  PROVE  Sound(Append(kk, a), t, b)
<1> DEFINE n == Len(kk)
           kn == Append(kk, a)
<1>1. kk \in Seq(ActivationType) /\ n \in Nat
  BY LenProperties DEF Sound
<1>2. /\ kn \in Seq(ActivationType) /\ kn # <<>> /\ Len(kn) = n + 1
      /\ \A i \in 1..n : kn[i] = kk[i]
      /\ kn[n + 1] = a
  BY <1>1, AppendProperties
<1> HIDE DEF kn
<1>3. kn[1].entry = b
  <2>1. CASE kk = <<>>
    <3>1. n = 0
      BY <2>1, EmptySeq
    <3> QED
      BY <2>1, <3>1, <1>2 DEF Sound
  <2>2. CASE kk # <<>>
    <3>1. n \in Nat \ {0}
      BY <2>2, <1>1, EmptySeq
    <3> QED
      BY <2>2, <3>1, <1>2 DEF Sound
  <2> QED
    BY <2>1, <2>2
<1>4. \A i \in 1..n : kn[i + 1].entry = Within(kn[i])
  <2> TAKE i \in 1..n
  <2>1. CASE i = n
    <3>1. kk # <<>>
      BY <1>1, EmptySeq
    <3> QED
      BY <2>1, <3>1, <1>1, <1>2 DEF Sound
  <2>2. CASE i # n
    <3>1. i \in 1..(n - 1) /\ i + 1 \in 1..n
      BY <2>2, <1>1
    <3> QED
      BY <3>1, <1>2 DEF Sound
  <2> QED
    BY <2>1, <2>2
<1>5. \A i \in 1..(n + 1) : Placed(kn[i], i) /\ Ready(kn[i])
  <2> TAKE i \in 1..(n + 1)
  <2>1. i \in 1..n \/ i = n + 1
    BY <1>1
  <2> QED
    BY <2>1, <1>2 DEF Sound
<1>6. \A i \in 1..(Len(kn) - 1) : kn[i + 1].entry = Within(kn[i])
  BY <1>1, <1>2, <1>4
<1>7. Stacks(t) = Within(kn[Len(kn)])
  BY <1>2
<1>8. \A i \in 1..(Len(kn) - 1) : Passes(kn[i], kn[i + 1])
  <2> TAKE i \in 1..(Len(kn) - 1)
  <2>1. i \in 1..n
    BY <1>1, <1>2
  <2>2. CASE i = n
    <3>1. kk # <<>>
      BY <2>1, <1>1, EmptySeq
    <3> QED
      BY <2>1, <2>2, <3>1, <1>2
  <2>3. CASE i # n
    <3>1. i \in 1..(n - 1) /\ i + 1 \in 1..n
      BY <2>1, <2>3, <1>1
    <3> QED
      BY <2>1, <3>1, <1>2 DEF Sound
  <2> QED
    BY <2>2, <2>3
<1>9. \A i \in 1..Len(kn) : kn[i].res.flow = "return" => Target(kn, i)
  <2> SUFFICES ASSUME NEW i \in 1..Len(kn), kn[i].res.flow = "return"
               PROVE  Target(kn, i)
    OBVIOUS
  <2>1. i \in 1..n
    BY <1>1, <1>2
  <2>2. PICK j \in 1..i : kk[j].op \in {"function", "source"}
    BY <2>1, <1>2 DEF Sound, Target
  <2>3. j \in 1..n
    BY <2>1, <1>1
  <2> QED
    BY <2>2, <2>3, <1>2 DEF Target
<1>10. Sound(kn, t, b)
  BY <1>2, <1>3, <1>5, <1>6, <1>7, <1>8, <1>9 DEF Sound
<1> QED
  BY <1>10 DEF kn

(* The last activation is removed and the shell is as it found it. *)
LEMMA Popped ==
  ASSUME NEW kk, NEW s, NEW b, Sound(kk, s, b), kk # <<>>,
         NEW t \in Shell, Stacks(t) = kk[Len(kk)].entry
  PROVE  Sound(Pop(kk), t, b)
<1> DEFINE n == Len(kk)
           kn == Pop(kk)
<1>1. kk \in Seq(ActivationType)
  BY DEF Sound
<1>2. /\ kn \in Seq(ActivationType) /\ n \in Nat \ {0} /\ Len(kn) = n - 1
      /\ \A i \in 1..(n - 1) : kn[i] = kk[i]
  BY <1>1, PopProperties
<1> HIDE DEF kn
<1>0. \A i \in 1..(n - 1) : kn[i].res.flow = "return" => Target(kn, i)
  <2> SUFFICES ASSUME NEW i \in 1..(n - 1), kn[i].res.flow = "return"
               PROVE  Target(kn, i)
    OBVIOUS
  <2>1. i \in 1..n
    BY <1>2
  <2>2. PICK j \in 1..i : kk[j].op \in {"function", "source"}
    BY <2>1, <1>2 DEF Sound, Target
  <2>3. j \in 1..(n - 1)
    BY <1>2
  <2> QED
    BY <2>2, <2>3, <1>2 DEF Target
<1>3. CASE n = 1
  <2>1. kn = <<>>
    BY <1>2, <1>3, EmptySeq
  <2>2. Stacks(t) = b
    BY <1>3 DEF Sound
  <2>3. Sound(kn, t, b)
    BY <1>2, <1>3, <2>1, <2>2 DEF Sound
  <2> QED
    BY <2>3 DEF kn
<1>4. CASE n # 1
  <2>1. n - 1 \in 1..(n - 1) /\ n - 1 + 1 = n /\ 1 \in 1..(n - 1)
    BY <1>2, <1>4
  <2>2. kn # <<>>
    BY <1>2, <2>1, EmptySeq
  <2>3. Stacks(t) = Within(kn[Len(kn)])
    <3>1. kk[n - 1 + 1].entry = Within(kk[n - 1])
      BY <2>1 DEF Sound
    <3> QED
      BY <3>1, <2>1, <1>2
  <2>4. kn[1].entry = b
    BY <1>2, <2>1 DEF Sound
  <2>5. \A i \in 1..(Len(kn) - 1) : kn[i + 1].entry = Within(kn[i])
    <3> TAKE i \in 1..(Len(kn) - 1)
    <3>1. i \in 1..(n - 1) /\ i + 1 \in 1..(n - 1)
      BY <1>2
    <3> QED
      BY <3>1, <1>2 DEF Sound
  <2>6. \A i \in 1..Len(kn) : Placed(kn[i], i) /\ Ready(kn[i])
    <3> TAKE i \in 1..Len(kn)
    <3>1. i \in 1..(n - 1) /\ i \in 1..n
      BY <1>2
    <3> QED
      BY <3>1, <1>2 DEF Sound
  <2>7. \A i \in 1..(Len(kn) - 1) : Passes(kn[i], kn[i + 1])
    <3> TAKE i \in 1..(Len(kn) - 1)
    <3>1. i \in 1..(n - 1) /\ i + 1 \in 1..(n - 1)
      BY <1>2
    <3> QED
      BY <3>1, <1>2 DEF Sound
  <2>8. Sound(kn, t, b)
    BY <1>0, <1>2, <2>2, <2>3, <2>4, <2>5, <2>6, <2>7 DEF Sound
  <2> QED
    BY <2>8 DEF kn
<1> QED
  BY <1>3, <1>4

---------------------------------------------------------------------------
(* The operations of the shell *)

LEMMA StacksType ==
  ASSUME NEW s \in Shell
  PROVE  Stacks(s) \in StackType
  BY DEF Shell, Stacks, StackType

LEMMA SignalsAreFrames == Signals \subseteq FrameTypes
  BY InterpAssumption DEF FrameTypes

LEMMA StackEqual ==
  ASSUME NEW a \in StackType, NEW c \in StackType,
         a.frames = c.frames, a.calls = c.calls, a.active = c.active,
         a.blocks = c.blocks, a.scopes = c.scopes, a.level = c.level
  PROVE  a = c
  BY DEF StackType

LEMMA Entered ==
  ASSUME NEW s \in Shell
  PROVE  /\ Append(s.frames, "function") \in Seq(FrameTypes)
         /\ Append(s.frames, "source") \in Seq(FrameTypes)
         /\ \A sig \in Signals : Append(s.frames, sig) \in Seq(FrameTypes)
         /\ Append(s.scopes, "Local") \in Seq(ScopeTypes)
         /\ Append(s.scopes, "Command") \in Seq(ScopeTypes)
<1>1. /\ "function" \in FrameTypes /\ "source" \in FrameTypes
      /\ Signals \subseteq FrameTypes /\ "Local" \in ScopeTypes
      /\ "Command" \in ScopeTypes
  BY SignalsAreFrames DEF FrameTypes, ScopeTypes
<1>2. s.frames \in Seq(FrameTypes) /\ s.scopes \in Seq(ScopeTypes)
  BY DEF Shell
<1> QED
  BY <1>1, <1>2, AppendProperties

LEMMA EnteringFunction ==
  ASSUME NEW s \in Shell
  PROVE  EnterFunction(s) \in Shell /\ Stacks(EnterFunction(s)) = EnterFunction(Stacks(s))
<1> DEFINE t == EnterFunction(s)
           u == EnterFunction(Stacks(s))
<1>0. s.calls + 1 \in Nat /\ s.level + 1 \in Nat /\ {} \subseteq Signals
  BY DEF Shell
<1>1. t \in Shell
  BY Entered, <1>0 DEF Shell, EnterFunction, Push
<1>2. Stacks(s) \in StackType
  BY StacksType
<1>3. u \in StackType
  BY Entered, <1>0, <1>2 DEF Shell, Stacks, StackType, EnterFunction, Push
<1>4. Stacks(t) \in StackType
  BY <1>1, StacksType
<1>5. /\ Stacks(t).frames = Append(s.frames, "function")
      /\ Stacks(t).calls = s.calls + 1
      /\ Stacks(t).active = s.active
      /\ Stacks(t).blocks = s.blocks
      /\ Stacks(t).scopes = Append(s.scopes, "Local")
      /\ Stacks(t).level = s.level
  BY DEF Stacks, Shell, EnterFunction, Push
<1>6. /\ u.frames = Append(s.frames, "function")
      /\ u.calls = s.calls + 1
      /\ u.active = s.active
      /\ u.blocks = s.blocks
      /\ u.scopes = Append(s.scopes, "Local")
      /\ u.level = s.level
  BY DEF Stacks, EnterFunction, Push
<1> HIDE DEF t, u
<1>7. Stacks(t) = u
  BY <1>3, <1>4, <1>5, <1>6, StackEqual
<1> QED
  BY <1>1, <1>7 DEF t, u

LEMMA EnteringSource ==
  ASSUME NEW s \in Shell
  PROVE  EnterSource(s) \in Shell /\ Stacks(EnterSource(s)) = EnterSource(Stacks(s))
<1> DEFINE t == EnterSource(s)
           u == EnterSource(Stacks(s))
<1>0. s.calls + 1 \in Nat /\ s.level + 1 \in Nat /\ {} \subseteq Signals
  BY DEF Shell
<1>1. t \in Shell
  BY Entered, <1>0 DEF Shell, EnterSource, Push
<1>2. Stacks(s) \in StackType
  BY StacksType
<1>3. u \in StackType
  BY Entered, <1>0, <1>2 DEF Shell, Stacks, StackType, EnterSource, Push
<1>4. Stacks(t) \in StackType
  BY <1>1, StacksType
<1>5. /\ Stacks(t).frames = Append(s.frames, "source")
      /\ Stacks(t).calls = s.calls
      /\ Stacks(t).active = s.active
      /\ Stacks(t).blocks = s.blocks
      /\ Stacks(t).scopes = s.scopes
      /\ Stacks(t).level = s.level
  BY DEF Stacks, Shell, EnterSource, Push
<1>6. /\ u.frames = Append(s.frames, "source")
      /\ u.calls = s.calls
      /\ u.active = s.active
      /\ u.blocks = s.blocks
      /\ u.scopes = s.scopes
      /\ u.level = s.level
  BY DEF Stacks, EnterSource, Push
<1> HIDE DEF t, u
<1>7. Stacks(t) = u
  BY <1>3, <1>4, <1>5, <1>6, StackEqual
<1> QED
  BY <1>1, <1>7 DEF t, u

LEMMA EnteringTrap ==
  ASSUME NEW s \in Shell, NEW sig \in Signals
  PROVE  EnterTrap(s, sig) \in Shell /\ Stacks(EnterTrap(s, sig)) = EnterTrap(Stacks(s), sig)
<1> DEFINE t == EnterTrap(s, sig)
           u == EnterTrap(Stacks(s), sig)
<1>0. s.calls + 1 \in Nat /\ s.level + 1 \in Nat /\ {} \subseteq Signals
  BY DEF Shell
<1>1. t \in Shell
  BY Entered, <1>0 DEF Shell, EnterTrap, Push
<1>2. Stacks(s) \in StackType
  BY StacksType
<1>3. u \in StackType
  BY Entered, <1>0, <1>2 DEF Shell, Stacks, StackType, EnterTrap, Push
<1>4. Stacks(t) \in StackType
  BY <1>1, StacksType
<1>5. /\ Stacks(t).frames = Append(s.frames, sig)
      /\ Stacks(t).calls = s.calls
      /\ Stacks(t).active = s.active \cup {sig}
      /\ Stacks(t).blocks = s.blocks
      /\ Stacks(t).scopes = s.scopes
      /\ Stacks(t).level = s.level
  BY DEF Stacks, Shell, EnterTrap, Push
<1>6. /\ u.frames = Append(s.frames, sig)
      /\ u.calls = s.calls
      /\ u.active = s.active \cup {sig}
      /\ u.blocks = s.blocks
      /\ u.scopes = s.scopes
      /\ u.level = s.level
  BY DEF Stacks, EnterTrap, Push
<1> HIDE DEF t, u
<1>7. Stacks(t) = u
  BY <1>3, <1>4, <1>5, <1>6, StackEqual
<1> QED
  BY <1>1, <1>7 DEF t, u

LEMMA EnteringCommand ==
  ASSUME NEW s \in Shell
  PROVE  EnterCommand(s) \in Shell /\ Stacks(EnterCommand(s)) = EnterCommand(Stacks(s))
<1> DEFINE t == EnterCommand(s)
           u == EnterCommand(Stacks(s))
<1>0. s.calls + 1 \in Nat /\ s.level + 1 \in Nat /\ {} \subseteq Signals
  BY DEF Shell
<1>1. t \in Shell
  BY Entered, <1>0 DEF Shell, EnterCommand, Push
<1>2. Stacks(s) \in StackType
  BY StacksType
<1>3. u \in StackType
  BY Entered, <1>0, <1>2 DEF Shell, Stacks, StackType, EnterCommand, Push
<1>4. Stacks(t) \in StackType
  BY <1>1, StacksType
<1>5. /\ Stacks(t).frames = s.frames
      /\ Stacks(t).calls = s.calls
      /\ Stacks(t).active = s.active
      /\ Stacks(t).blocks = s.blocks
      /\ Stacks(t).scopes = Append(s.scopes, "Command")
      /\ Stacks(t).level = s.level
  BY DEF Stacks, Shell, EnterCommand, Push
<1>6. /\ u.frames = s.frames
      /\ u.calls = s.calls
      /\ u.active = s.active
      /\ u.blocks = s.blocks
      /\ u.scopes = Append(s.scopes, "Command")
      /\ u.level = s.level
  BY DEF Stacks, EnterCommand, Push
<1> HIDE DEF t, u
<1>7. Stacks(t) = u
  BY <1>3, <1>4, <1>5, <1>6, StackEqual
<1> QED
  BY <1>1, <1>7 DEF t, u

LEMMA Cloning ==
  ASSUME NEW s \in Shell
  PROVE  Cloned(s) \in Shell /\ Stacks(Cloned(s)) = Cloned(Stacks(s))
<1> DEFINE t == Cloned(s)
           u == Cloned(Stacks(s))
<1>0. s.calls + 1 \in Nat /\ s.level + 1 \in Nat /\ {} \subseteq Signals
  BY DEF Shell
<1>1. t \in Shell
  BY <1>0 DEF Shell, Cloned, Push
<1>2. Stacks(s) \in StackType
  BY StacksType
<1>3. u \in StackType
  BY <1>0, <1>2 DEF Shell, Stacks, StackType, Cloned, Push
<1>4. Stacks(t) \in StackType
  BY <1>1, StacksType
<1>5. /\ Stacks(t).frames = s.frames
      /\ Stacks(t).calls = s.calls
      /\ Stacks(t).active = {}
      /\ Stacks(t).blocks = s.blocks
      /\ Stacks(t).scopes = s.scopes
      /\ Stacks(t).level = s.level + 1
  BY DEF Stacks, Shell, Cloned, Push
<1>6. /\ u.frames = s.frames
      /\ u.calls = s.calls
      /\ u.active = {}
      /\ u.blocks = s.blocks
      /\ u.scopes = s.scopes
      /\ u.level = s.level + 1
  BY DEF Stacks, Cloned, Push
<1> HIDE DEF t, u
<1>7. Stacks(t) = u
  BY <1>3, <1>4, <1>5, <1>6, StackEqual
<1> QED
  BY <1>1, <1>7 DEF t, u

LEMMA LeavingFunction ==
  ASSUME NEW s \in Shell, NEW e \in StackType, Stacks(s) = EnterFunction(e)
  PROVE  LeaveFunction(s) \in Shell /\ Stacks(LeaveFunction(s)) = e
<1>1. /\ e.frames \in Seq(FrameTypes) /\ e.scopes \in Seq(ScopeTypes)
      /\ e.calls \in Nat /\ "function" \in FrameTypes /\ "Local" \in ScopeTypes
  BY DEF StackType, FrameTypes, ScopeTypes
<1>2. /\ s.frames = Append(e.frames, "function") /\ s.calls = e.calls + 1
      /\ s.scopes = Append(e.scopes, "Local") /\ s.active = e.active
      /\ s.blocks = e.blocks /\ s.level = e.level
  BY DEF Stacks, EnterFunction, Push, StackType
<1>3. /\ Pop(s.frames) = e.frames /\ Pop(s.scopes) = e.scopes
      /\ s.calls - 1 = e.calls
  BY <1>1, <1>2, PopAppend
<1> QED
  BY <1>1, <1>2, <1>3 DEF LeaveFunction, Shell, StackType, Stacks

LEMMA LeavingSource ==
  ASSUME NEW s \in Shell, NEW e \in StackType, Stacks(s) = EnterSource(e)
  PROVE  LeaveSource(s) \in Shell /\ Stacks(LeaveSource(s)) = e
<1>1. e.frames \in Seq(FrameTypes) /\ "source" \in FrameTypes
  BY DEF StackType, FrameTypes
<1>2. /\ s.frames = Append(e.frames, "source") /\ s.calls = e.calls
      /\ s.scopes = e.scopes /\ s.active = e.active
      /\ s.blocks = e.blocks /\ s.level = e.level
  BY DEF Stacks, EnterSource, Push, StackType
<1>3. Pop(s.frames) = e.frames
  BY <1>1, <1>2, PopAppend
<1> QED
  BY <1>1, <1>2, <1>3 DEF LeaveSource, Shell, StackType, Stacks

LEMMA LeavingTrap ==
  ASSUME NEW s \in Shell, NEW e \in StackType, NEW sig \in Signals,
         sig \notin e.active, Stacks(s) = EnterTrap(e, sig), NEW st \in {0, 1}
  PROVE  LeaveTrap(s, sig, st) \in Shell /\ Stacks(LeaveTrap(s, sig, st)) = e
<1>1. e.frames \in Seq(FrameTypes) /\ sig \in FrameTypes
      /\ e.active \subseteq Signals
  BY SignalsAreFrames DEF StackType
<1>2. /\ s.frames = Append(e.frames, sig) /\ s.calls = e.calls
      /\ s.scopes = e.scopes /\ s.active = e.active \cup {sig}
      /\ s.blocks = e.blocks /\ s.level = e.level
  BY DEF Stacks, EnterTrap, Push, StackType
<1>3. Pop(s.frames) = e.frames /\ s.active \ {sig} = e.active
  BY <1>1, <1>2, PopAppend
<1> QED
  BY <1>1, <1>2, <1>3 DEF LeaveTrap, Shell, StackType, Stacks

LEMMA LeavingCommand ==
  ASSUME NEW s \in Shell, NEW e \in StackType, Stacks(s) = EnterCommand(e)
  PROVE  LeaveCommand(s) \in Shell /\ Stacks(LeaveCommand(s)) = e
<1>1. e.scopes \in Seq(ScopeTypes) /\ "Command" \in ScopeTypes
  BY DEF StackType, ScopeTypes
<1>2. /\ s.frames = e.frames /\ s.calls = e.calls
      /\ s.scopes = Append(e.scopes, "Command") /\ s.active = e.active
      /\ s.blocks = e.blocks /\ s.level = e.level
  BY DEF Stacks, EnterCommand, Push, StackType
<1>3. Pop(s.scopes) = e.scopes
  BY <1>1, <1>2, PopAppend
<1> QED
  BY <1>1, <1>2, <1>3 DEF LeaveCommand, Shell, StackType, Stacks

---------------------------------------------------------------------------
(* Results *)

LEMMA ResultTypes ==
  /\ NoRet \in Result
  /\ \A code \in {0, 1} : Ok(code) \in Result
  /\ \A code \in {0, 1}, flow \in Flows : Leave(code, flow, 0) \in Result
  /\ \A fatal \in BOOLEAN : Err(fatal) \in Result
<1>1. 0 \in 0..MaxLevels
  BY InterpAssumption
<1> QED
  BY <1>1 DEF Result, NoRet, Ok, Leave, Err, Flows

LEMMA ResultOps ==
  ASSUME NEW r \in Result
  PROVE  /\ IntoResult(r) \in Result
         /\ Decrement(r) \in Result
         /\ Returned(r) \in Result
         /\ Inverted(r) \in Result
         /\ r.code \in {0, 1} /\ r.flow \in Flows
<1>1. r.code \in {0, 1} /\ r.flow \in Flows /\ r.levels \in 0..MaxLevels
      /\ "normal" \in Flows /\ MaxLevels \in Nat
  BY InterpAssumption DEF Result, Flows
<1>2. IntoResult(r) \in Result
  BY <1>1, ResultTypes DEF IntoResult
<1>3. Decrement(r) \in Result
  <2>1. r.levels # 0 => r.levels - 1 \in 0..MaxLevels
    BY <1>1
  <2> QED
    BY <2>1, <1>1 DEF Decrement, Result
<1>4. Returned(r) \in Result
  BY <1>1 DEF Returned, Result
<1>5. Inverted(r) \in Result
  <2>1. 1 - r.code \in {0, 1}
    BY <1>1
  <2> QED
    BY <2>1 DEF Inverted, Result
<1> QED
  BY <1>1, <1>2, <1>3, <1>4, <1>5

LEMMA ErrexitType ==
  ASSUME NEW r \in Result, NEW s, NEW quiet
  PROVE  Errexit(s, quiet, r) \in Result
<1>1. "exit" \in Flows
  BY DEF Flows
<1> QED
  BY <1>1 DEF Errexit, Result

LEMMA OutcomeTypes == Outcomes \cup TaskErrors \subseteq Result
<1>1. \A n \in 0..(MaxLevels - 1) : n \in 0..MaxLevels
  BY InterpAssumption
<1>2. \A flow \in {"break", "continue"}, n \in 0..(MaxLevels - 1) :
        Leave(0, flow, n) \in Result
  BY <1>1 DEF Leave, Result, Flows
<1>3. \A code \in {0, 1} : Leave(code, "exit", 0) \in Result
                            /\ Leave(code, "return", 0) \in Result
  BY ResultTypes DEF Flows
<1>4. \A fatal \in BOOLEAN : IntoResult(Err(fatal)) \in Result
  BY ResultTypes, ResultOps
<1>5. Outcomes \subseteq Result
  BY <1>2, <1>3, <1>4, ResultTypes DEF Outcomes
<1>6. TaskErrors \subseteq Result
  BY ResultTypes DEF TaskErrors
<1> QED
  BY <1>5, <1>6

(* Where a request to return, or to exit, can come from. *)
LEMMA PlainFlows ==
  /\ \A code : Ok(code).flow = "normal" /\ Ok(code).kind = "ok"
  /\ NoRet.flow = "normal" /\ NoRet.kind = "none"
  /\ \A fatal \in BOOLEAN : /\ Err(fatal).flow \in {"normal", "exit"}
                            /\ Err(fatal).kind = "err"
                            /\ IntoResult(Err(fatal)).flow \in {"normal", "exit"}
                            /\ IntoResult(Err(fatal)).kind = "ok"
  BY DEF Ok, NoRet, Err, IntoResult, Leave

LEMMA FlowOps ==
  ASSUME NEW r \in Result
  PROVE  /\ r.kind = "err" => /\ IntoResult(r).flow \in {r.flow, "normal"}
                              /\ IntoResult(r).kind = "ok"
         /\ r.kind # "err" => IntoResult(r) = r
         /\ Decrement(r).kind = r.kind /\ Decrement(r).code = r.code
         /\ r.flow \in {"normal", "exit", "return"} => Decrement(r) = r
         /\ Decrement(r).flow \in {r.flow, "normal"}
         /\ Returned(r).kind = r.kind
         /\ Returned(r).flow = IF r.flow = "return" THEN "normal" ELSE r.flow
         /\ Inverted(r).kind = r.kind /\ Inverted(r).flow = r.flow
<1>1. /\ r.kind = "err" => /\ IntoResult(r).flow \in {r.flow, "normal"}
                          /\ IntoResult(r).kind = "ok"
      /\ r.kind # "err" => IntoResult(r) = r
  BY DEF IntoResult, Leave
<1>2. r \in [kind : {"none", "ok", "err"}, code : {0, 1}, flow : Flows,
            levels : 0..MaxLevels]
  BY DEF Result
<1>3. /\ Decrement(r).kind = r.kind /\ Decrement(r).code = r.code
      /\ r.flow \in {"normal", "exit", "return"} => Decrement(r) = r
      /\ Decrement(r).flow \in {r.flow, "normal"}
  BY <1>2 DEF Decrement, IsLoopFlow
<1>4. /\ Returned(r).kind = r.kind
      /\ Returned(r).flow = IF r.flow = "return" THEN "normal" ELSE r.flow
  BY <1>2 DEF Returned
<1>5. Inverted(r).kind = r.kind /\ Inverted(r).flow = r.flow
  BY <1>2 DEF Inverted
<1> QED
  BY <1>1, <1>3, <1>4, <1>5

LEMMA Returns ==
  ASSUME NEW r \in Result, r.kind = "ok"
  PROVE  /\ Returned(r) \in Result /\ Returned(r).flow # "return"
         /\ Returned(r).kind = "ok"
<1>1. Returned(r) \in Result
  BY ResultOps
<1>2. /\ Returned(r).kind = r.kind
      /\ Returned(r).flow = IF r.flow = "return" THEN "normal" ELSE r.flow
  BY FlowOps
<1> QED
  BY <1>1, <1>2

LEMMA Decrements ==
  ASSUME NEW r \in Result, r.kind = "ok"
  PROVE  /\ Decrement(r) \in Result /\ Decrement(r).kind = "ok"
         /\ Decrement(r).flow = "return" => r.flow = "return"
<1>1. Decrement(r) \in Result
  BY ResultOps
<1>2. Decrement(r).kind = r.kind /\ Decrement(r).flow \in {r.flow, "normal"}
  BY FlowOps
<1> QED
  BY <1>1, <1>2

LEMMA FlowErrexit ==
  ASSUME NEW s, NEW quiet, NEW r \in Result
  PROVE  /\ Errexit(s, quiet, r).kind = r.kind
         /\ \/ Errexit(s, quiet, r).flow = r.flow
            \/ r.flow = "normal" /\ Errexit(s, quiet, r).flow = "exit"
<1>1. \/ Errexit(s, quiet, r) = r
      \/ /\ r.flow = "normal"
         /\ Errexit(s, quiet, r) = [r EXCEPT !.flow = "exit"]
  BY DEF Errexit
<1>2. /\ [r EXCEPT !.flow = "exit"].flow = "exit"
      /\ [r EXCEPT !.flow = "exit"].kind = r.kind
  BY DEF Result
<1> HIDE DEF Errexit
<1> QED
  BY <1>1, <1>2

LEMMA OutcomeFlows ==
  /\ \A r \in Outcomes : r.kind = "ok"
  /\ \A r \in Outcomes : r.flow = "return" => InFunction(sh) \/ InSourced(sh)
  /\ \A r \in TaskErrors : r.flow \in {"normal", "exit"} /\ r.kind = "err"
<1>1. ASSUME NEW r \in Outcomes
      PROVE  r.kind = "ok" /\ (r.flow = "return" => InFunction(sh) \/ InSourced(sh))
  <2>1. CASE r \in {Ok(0), Ok(1)}
    BY <2>1, PlainFlows
  <2>2. CASE r \in {IntoResult(Err(fatal)) : fatal \in BOOLEAN}
    BY <2>2, PlainFlows
  <2>3. CASE r \in {Leave(code, "exit", 0) : code \in {0, 1}}
    BY <2>3 DEF Leave
  <2>4. CASE r \in {Leave(code, "return", 0) :
                      code \in IF InFunction(sh) \/ InSourced(sh) THEN {0, 1} ELSE {}}
    BY <2>4 DEF Leave
  <2>5. CASE r \in {Leave(0, flow, n) :
                      flow \in {"break", "continue"}, n \in 0..(MaxLevels - 1)}
    BY <2>5 DEF Leave
  <2> QED
    BY <2>1, <2>2, <2>3, <2>4, <2>5 DEF Outcomes
<1>2. \A r \in TaskErrors : r.flow \in {"normal", "exit"} /\ r.kind = "err"
  BY PlainFlows DEF TaskErrors
<1> QED
  BY <1>1, <1>2

---------------------------------------------------------------------------
(* The inductive invariant, and the three kinds of steps *)

(* A result on its way finds someone to take it. *)
Fits(r, kk) ==
  /\ r.flow = "return" => Target(kk, Len(kk))
  /\ r.kind = "err" => r.flow \in {"normal", "exit"}
  /\ kk = <<>> => r = NoRet

Inv ==
  /\ mode \in Modes
  /\ stage \in {"ready", "ending", "exiting", "done", "failed"}
  /\ ret \in Result
  /\ Sound(k, sh, Base)
  /\ Fits(ret, k)

LEMMA InvImplies == Inv => TypeOK /\ Balanced
<1> SUFFICES ASSUME Inv PROVE TypeOK /\ Balanced
  OBVIOUS
<1>1. TypeOK
  BY DEF Inv, Sound, TypeOK
<1>2. DOMAIN k = 1..Len(k)
  BY LenProperties DEF Inv, Sound
<1>3. Balanced
  BY <1>2 DEF Inv, Sound, Placed, Balanced, Top
<1> QED
  BY <1>1, <1>3

LEMMA TopFacts ==
  ASSUME Inv, k # <<>>
  PROVE  /\ k \in Seq(ActivationType)
         /\ Len(k) \in Nat \ {0}
         /\ Top \in ActivationType
         /\ Top.entry \in StackType
         /\ sh \in Shell
         /\ Stacks(sh) = Within(Top)
         /\ Placed(Top, Len(k)) /\ Ready(Top)
         /\ Top.res.flow = "return" => Target(k, Len(k))
<1>1. k \in Seq(ActivationType) /\ Len(k) \in Nat \ {0}
  BY EmptySeq DEF Inv, Sound
<1>2. Len(k) \in 1..Len(k)
  BY <1>1
<1>3. Top \in ActivationType
  BY <1>1, <1>2, ElementOfSeq DEF Top
<1>4. /\ Placed(Top, Len(k)) /\ Ready(Top)
      /\ Top.res.flow = "return" => Target(k, Len(k))
  BY <1>2 DEF Inv, Sound, Top
<1> QED
  BY <1>1, <1>3, <1>4 DEF Inv, Sound, Top, ActivationType

(* The frames of a function or of a script are those of an activation. *)
HasFrame(frames) == \E i \in DOMAIN frames : frames[i] \in {"function", "source"}

LEMMA HasFrameAppend ==
  ASSUME NEW frames \in Seq(FrameTypes), NEW x \in FrameTypes,
         HasFrame(Append(frames, x))
  PROVE  HasFrame(frames) \/ x \in {"function", "source"}
<1> DEFINE t == Append(frames, x)
<1>1. /\ t \in Seq(FrameTypes) /\ Len(t) = Len(frames) + 1 /\ Len(frames) \in Nat
      /\ \A i \in 1..Len(frames) : t[i] = frames[i]
      /\ t[Len(frames) + 1] = x
  BY AppendProperties
<1>2. PICK i \in DOMAIN t : t[i] \in {"function", "source"}
  BY DEF HasFrame
<1> HIDE DEF t
<1>3. DOMAIN t = 1..(Len(frames) + 1) /\ DOMAIN frames = 1..Len(frames)
  BY <1>1
<1> QED
  BY <1>1, <1>2, <1>3 DEF HasFrame

LEMMA WithinFrame ==
  ASSUME NEW a \in ActivationType, NEW i, Placed(a, i), HasFrame(Within(a).frames)
  PROVE  HasFrame(a.entry.frames) \/ a.op \in {"function", "source"}
<1>1. a.entry \in StackType /\ a.op \in Ops
  BY DEF ActivationType
<1>2. a.entry.frames \in Seq(FrameTypes)
  BY <1>1 DEF StackType
<1>3. CASE a.op \in {"function", "source"}
  BY <1>3
<1>4. CASE a.op = "trap"
  <2>1. a.sig \in Signals /\ a.sig \in FrameTypes
        /\ a.sig \notin {"function", "source"}
    BY <1>4, InterpAssumption DEF Placed, FrameTypes
  <2>2. Within(a).frames = Append(a.entry.frames, a.sig)
    BY <1>1, <1>4 DEF Within, EnterTrap, Push, StackType
  <2> QED
    BY <1>2, <2>1, <2>2, HasFrameAppend
<1>5. CASE a.op \notin {"function", "source", "trap"}
  <2>1. Within(a).frames = a.entry.frames
    BY <1>1, <1>5 DEF Within, EnterCommand, Cloned, StackType
  <2> QED
    BY <2>1
<1> QED
  BY <1>3, <1>4, <1>5

LEMMA BaseFrames ==
  ASSUME mode \in Modes
  PROVE  ~HasFrame(Base.frames)
<1>1. mode \notin {"function", "source"}
  BY InterpAssumption
<1>2. Base.frames \in {<<mode>>, <<>>}
  BY DEF Base, Stacks, Fresh
<1> QED
  BY <1>1, <1>2 DEF HasFrame

LEMMA FramesTarget ==
  ASSUME Inv, k # <<>>, InFunction(sh) \/ InSourced(sh)
  PROVE  Target(k, Len(k))
<1> DEFINE N == Len(k)
           T == {n \in Nat : HasFrame(Within(k[n]).frames) => Target(k, n)}
<1>1. /\ k \in Seq(ActivationType) /\ N \in Nat \ {0} /\ Stacks(sh) = Within(k[N])
      /\ k[1].entry = Base /\ mode \in Modes
      /\ \A i \in 1..(N - 1) : k[i + 1].entry = Within(k[i])
      /\ \A i \in 1..N : Placed(k[i], i) /\ k[i] \in ActivationType
  BY TopFacts, ElementOfSeq DEF Inv, Sound, Top
<1>2. 1 \in T
  <2> SUFFICES ASSUME HasFrame(Within(k[1]).frames) PROVE Target(k, 1)
    OBVIOUS
  <2>1. k[1].op \in {"function", "source"}
    BY <1>1, BaseFrames, WithinFrame
  <2> QED
    BY <2>1 DEF Target
<1>3. ASSUME NEW i \in 1..(N - 1), i \in T
      PROVE  i + 1 \in T
  <2> SUFFICES ASSUME HasFrame(Within(k[i + 1]).frames) PROVE Target(k, i + 1)
    OBVIOUS
  <2>1. i + 1 \in 1..N /\ k[i + 1].entry = Within(k[i])
    BY <1>1
  <2>2. CASE k[i + 1].op \in {"function", "source"}
    BY <2>1, <2>2 DEF Target
  <2>3. CASE k[i + 1].op \notin {"function", "source"}
    <3>1. HasFrame(Within(k[i]).frames)
      BY <1>1, <2>1, <2>3, WithinFrame
    <3>2. PICK j \in 1..i : k[j].op \in {"function", "source"}
      BY <1>3, <3>1 DEF Target
    <3> QED
      BY <3>2 DEF Target
  <2> QED
    BY <2>2, <2>3
<1>4. N \in T
  <2>1. \A i \in 1..(N - 1) : i \in T => i + 1 \in T
    BY <1>3
  <2>2. 1 \in Nat /\ N \in Nat /\ N \in 1..N
    BY <1>1
  <2> HIDE DEF T, N
  <2> QED
    BY <2>1, <2>2, <1>2, Along
<1>5. HasFrame(Stacks(sh).frames)
  <2>1. Stacks(sh).frames = sh.frames
    BY DEF Stacks
  <2> QED
    BY <2>1 DEF HasFrame, InFunction, InSourced
<1> QED
  BY <1>1, <1>4, <1>5

LEMMA BaseKept ==
  ASSUME UNCHANGED <<mode, stage>>
  PROVE  Base' = Base
  BY DEF Base

LEMMA SameStep ==
  ASSUME Inv, k # <<>>,
         NEW a \in ActivationType, Kept(a, Top), Ready(a),
         a.res.flow = "return" => Target(k, Len(k)), k' = With(a),
         sh' \in Shell, Stacks(sh') = Stacks(sh), ret' \in Result,
         ret'.flow \in {"normal", "exit"}, UNCHANGED <<mode, stage>>
  PROVE  Inv'
<1>1. Sound(k', sh', Base)
  BY Same DEF Inv, With, Top
<1>2. k \in Seq(ActivationType) /\ Len(k) \in 1..Len(k)
  BY TopFacts
<1>3. Len(k') = Len(k) /\ k' # <<>>
  BY <1>2, ExceptSeq, EmptySeq DEF With
<1>4. Fits(ret', k')
  BY <1>3 DEF Fits
<1> QED
  BY <1>1, <1>4, BaseKept DEF Inv

LEMMA PushStep ==
  ASSUME Inv, k # <<>>,
         NEW a \in ActivationType, Kept(a, Top), Ready(a),
         a.res.flow = "return" => Target(k, Len(k)),
         NEW c \in ActivationType, c.entry = Stacks(sh),
         Placed(c, Len(k) + 1), Ready(c), c.res.flow = "normal",
         Passes(a, c), k' = Append(With(a), c),
         sh' \in Shell, Stacks(sh') = Within(c), ret' = NoRet,
         UNCHANGED <<mode, stage>>
  PROVE  Inv'
<1>1. sh \in Shell /\ k \in Seq(ActivationType) /\ Len(k) \in 1..Len(k)
  BY TopFacts
<1>2. Sound(With(a), sh, Base)
  BY <1>1, Same DEF Inv, With, Top
<1>3. Len(With(a)) = Len(k) /\ With(a)[Len(k)] = a
      /\ With(a) \in Seq(ActivationType)
  BY <1>1, ExceptSeq DEF With
<1>4. Sound(k', sh', Base)
  BY <1>2, <1>3, Pushed
<1>5. k' # <<>>
  BY <1>3, AppendProperties, EmptySeq
<1>6. Fits(ret', k')
  BY <1>5 DEF Fits, NoRet
<1> QED
  BY <1>4, <1>6, BaseKept, ResultTypes DEF Inv

LEMMA PopStep ==
  ASSUME Inv, k # <<>>, NEW r \in Result, NEW s \in Shell,
         Stacks(s) = Top.entry, GiveBack(r, s),
         r.flow = "return" => Target(k, Len(k) - 1),
         r.kind = "err" => r.flow \in {"normal", "exit"},
         r = NoRet \/ Top.op \notin {"top", "completion", "trap"}
  PROVE  Inv'
<1>1. Sound(Pop(k), s, Base)
  BY Popped DEF Inv, Top
<1>2. /\ Len(k) \in Nat \ {0} /\ Len(Pop(k)) = Len(k) - 1
      /\ \A i \in 1..(Len(k) - 1) : Pop(k)[i] = k[i]
      /\ Placed(Top, Len(k)) /\ Pop(k) \in Seq(ActivationType)
  BY TopFacts, PopProperties
<1>3. r.flow = "return" => Target(Pop(k), Len(Pop(k)))
  <2> SUFFICES ASSUME r.flow = "return" PROVE Target(Pop(k), Len(Pop(k)))
    OBVIOUS
  <2>1. PICK j \in 1..(Len(k) - 1) : k[j].op \in {"function", "source"}
    BY DEF Target
  <2> QED
    BY <2>1, <1>2 DEF Target
<1>4. Pop(k) = <<>> => r = NoRet
  <2> SUFFICES ASSUME Pop(k) = <<>> PROVE r = NoRet
    OBVIOUS
  <2>1. Len(k) = 1
    BY <1>2, EmptySeq
  <2> QED
    BY <2>1, <1>2 DEF Placed
<1>5. Fits(r, Pop(k))
  BY <1>3, <1>4 DEF Fits
<1> QED
  BY <1>1, <1>5, BaseKept DEF Inv, GiveBack

(* A target other than the last activation is below it. *)
LEMMA TargetBelow ==
  ASSUME Inv, k # <<>>, Target(k, Len(k)), Top.op \notin {"function", "source"}
  PROVE  Target(k, Len(k) - 1)
<1>1. Len(k) \in Nat \ {0}
  BY TopFacts
<1>2. PICK j \in 1..Len(k) : k[j].op \in {"function", "source"}
  BY DEF Target
<1>3. j # Len(k)
  BY <1>2 DEF Top
<1> QED
  BY <1>1, <1>2, <1>3 DEF Target

(* A new activation. *)
LEMMA ActivationTypes ==
  ASSUME sh \in Shell, NEW op \in Ops, NEW phase \in Phases,
         NEW sup \in BOOLEAN
  PROVE  /\ Activation(op, phase, sup) \in ActivationType
         /\ Activation(op, phase, sup).op = op
         /\ Activation(op, phase, sup).entry = Stacks(sh)
         /\ Activation(op, phase, sup).sup = sup
         /\ Activation(op, phase, sup).res = Ok(0)
         /\ Activation(op, phase, sup).res.flow = "normal"
         /\ Activation(op, phase, sup).quiet = FALSE
         /\ Ready(Activation(op, phase, sup))
         /\ [Activation(op, phase, sup) EXCEPT !.home = sh] \in ActivationType
         /\ [Activation(op, phase, sup) EXCEPT !.busy = "run"] \in ActivationType
<1>1. Fresh \in Shell
  BY DEF Fresh, Shell, ScopeTypes
<1>2. Stacks(sh) \in StackType /\ Ok(0) \in Result
  BY StacksType, ResultTypes
<1>3. Ok(0).kind = "ok" /\ Ok(0).flow = "normal"
  BY DEF Ok
<1> QED
  BY <1>1, <1>2, <1>3 DEF Activation, ActivationType, Ready

LEMMA TrapTypes ==
  ASSUME sh \in Shell, NEW sig \in Signals, NEW sup \in BOOLEAN
  PROVE  /\ OnTrap(sig, sup) \in ActivationType
         /\ OnTrap(sig, sup).op = "trap"
         /\ OnTrap(sig, sup).sig = sig
         /\ OnTrap(sig, sup).entry = Stacks(sh)
         /\ OnTrap(sig, sup).sup = sup
         /\ OnTrap(sig, sup).res.flow = "normal"
         /\ Ready(OnTrap(sig, sup))
<1>1. "trap" \in Ops /\ "body" \in Phases
  BY DEF Ops, Lists, Programs, Phases
<1>2. Activation("trap", "body", sup) \in ActivationType
      /\ Activation("trap", "body", sup).op = "trap"
      /\ Activation("trap", "body", sup).entry = Stacks(sh)
  BY <1>1, ActivationTypes
<1>3. sh.status \in {0, 1}
  BY DEF Shell
<1> DEFINE d == Activation("trap", "body", sup)
<1>4. d.sup = sup /\ d.res.flow = "normal" /\ Ready(d)
  BY <1>1, ActivationTypes
<1>5. OnTrap(sig, sup) = [d EXCEPT !.sig = sig, !.st = sh.status]
  BY DEF OnTrap
<1> HIDE DEF d
<1>6. d \in ActivationType /\ d.op = "trap" /\ d.entry = Stacks(sh)
  BY <1>2 DEF d
<1> QED
  BY <1>3, <1>4, <1>5, <1>6 DEF ActivationType, Ready

---------------------------------------------------------------------------
(* The steps of the session *)

LEMMA BaseFacts ==
  ASSUME mode \in Modes
  PROVE  /\ Base \in StackType
         /\ Base.frames = IF stage \in {"ready", "ending"} THEN <<mode>> ELSE <<>>
         /\ mode \in FrameTypes
<1>1. mode \in FrameTypes
  BY InterpAssumption DEF FrameTypes
<1>2. Fresh \in Shell
  BY DEF Fresh, Shell, ScopeTypes
<1>3. Stacks(Fresh) \in StackType
  BY <1>2, StacksType
<1>4. <<mode>> \in Seq(FrameTypes) /\ <<>> \in Seq(FrameTypes)
  BY <1>1
<1> QED
  BY <1>1, <1>3, <1>4 DEF Base, StackType

LEMMA InvInit == Init => Inv
<1> SUFFICES ASSUME Init PROVE Inv
  OBVIOUS
<1>1. mode \in Modes /\ stage = "ready" /\ k = <<>> /\ ret = NoRet
      /\ sh = [Fresh EXCEPT !.frames = <<mode>>]
  BY DEF Init
<1>2. mode \in FrameTypes
  BY <1>1, BaseFacts
<1>3. sh \in Shell
  <2>1. Fresh \in Shell
    BY DEF Fresh, Shell, ScopeTypes
  <2>2. <<mode>> \in Seq(FrameTypes)
    BY <1>2
  <2> QED
    BY <1>1, <2>1, <2>2 DEF Shell
<1>4. Stacks(sh) = Base
  <2>1. Stacks(sh) \in StackType /\ Base \in StackType /\ Base.frames = <<mode>>
    BY <1>1, <1>3, StacksType, BaseFacts
  <2>2. /\ Base.calls = 0 /\ Base.active = {} /\ Base.blocks = 0
        /\ Base.scopes = <<"Global">> /\ Base.level = 0
    BY DEF Base, Stacks, Fresh
  <2>3. /\ sh.calls = 0 /\ sh.active = {} /\ sh.blocks = 0
        /\ sh.scopes = <<"Global">> /\ sh.level = 0 /\ sh.frames = <<mode>>
    BY <1>1 DEF Fresh
  <2>4. /\ Stacks(sh).calls = 0 /\ Stacks(sh).active = {}
        /\ Stacks(sh).blocks = 0 /\ Stacks(sh).scopes = <<"Global">>
        /\ Stacks(sh).level = 0 /\ Stacks(sh).frames = <<mode>>
    BY <2>3 DEF Stacks
  <2> QED
    BY <2>1, <2>2, <2>4, StackEqual
<1>5. k \in Seq(ActivationType) /\ Len(k) = 0
  BY <1>1
<1>6. Sound(k, sh, Base)
  BY <1>1, <1>3, <1>4, <1>5 DEF Sound
<1> QED
  BY <1>1, <1>6, ResultTypes DEF Inv, Fits, NoRet

(* Between programs the shell has the stacks of the session. *)
LEMMA AtRest ==
  ASSUME Inv, k = <<>>
  PROVE  sh \in Shell /\ Stacks(sh) = Base /\ Sound(<<>>, sh, Base)
         /\ Len(k) = 0 /\ ret = NoRet
  BY DEF Inv, Sound, Fits

LEMMA RestStep ==
  ASSUME Inv, k' = <<>>, sh' \in Shell, Stacks(sh') = Base', ret' = NoRet,
         mode' \in Modes,
         stage' \in {"ready", "ending", "exiting", "done", "failed"}
  PROVE  Inv'
<1>1. k' \in Seq(ActivationType) /\ Len(k') = 0
  OBVIOUS
<1> QED
  BY <1>1, ResultTypes DEF Inv, Sound, Fits, NoRet

LEMMA FirstStep ==
  ASSUME Inv, k = <<>>, NEW a \in ActivationType, a.entry = Stacks(sh),
         Placed(a, 1), Ready(a), a.res.flow = "normal",
         k' = <<a>>, sh' \in Shell, Stacks(sh') = Within(a), ret' = NoRet,
         mode' \in Modes, Base' = Base,
         stage' \in {"ready", "ending", "exiting", "done", "failed"}
  PROVE  Inv'
<1>1. Sound(<<>>, sh, Base) /\ Len(<<>>) = 0
  BY AtRest
<1>2. Append(<<>>, a) = <<a>>
  OBVIOUS
<1>3. Sound(k', sh', Base)
  <2>1. Placed(a, Len(<<>>) + 1)
    BY <1>1
  <2>2. Sound(Append(<<>>, a), sh', Base)
    BY <1>1, <2>1, Pushed
  <2> QED
    BY <2>2, <1>2
<1>4. k' # <<>>
  OBVIOUS
<1> QED
  BY <1>3, <1>4, ResultTypes DEF Inv, Fits, NoRet

LEMMA SessionInv ==
  ASSUME Inv, Session
  PROVE  Inv'
<1> USE DEF Inv
<1>1. CASE RunProgram
  <2>1. sh \in Shell /\ "top" \in Ops /\ "body" \in Phases
    BY <1>1, AtRest DEF RunProgram, Ops, Lists, Programs, Phases
  <2> DEFINE a == Activation("top", "body", FALSE)
  <2>2. /\ a \in ActivationType /\ a.op = "top" /\ a.entry = Stacks(sh)
        /\ Ready(a) /\ a.res.flow = "normal"
    BY <2>1, ActivationTypes
  <2> HIDE DEF a
  <2>3. Placed(a, 1) /\ Stacks(sh) = Within(a)
    <3>1. Stacks(sh).frames = <<mode>>
      BY <1>1, AtRest, BaseFacts DEF RunProgram
    <3>2. <<mode>> # <<>>
      OBVIOUS
    <3> QED
      BY <2>2, <3>1, <3>2 DEF Placed, Within
  <2>4. k' = <<a>> /\ k = <<>> /\ UNCHANGED <<mode, stage, sh>> /\ ret' = NoRet
    BY <1>1, AtRest DEF RunProgram, a
  <2> QED
    BY <2>1, <2>2, <2>3, <2>4, FirstStep, BaseKept
<1>2. CASE EndTop
  <2>1. k # <<>> /\ Top.op = "top"
    BY <1>2 DEF EndTop, Idle
  <2>2. Len(k) = 1 /\ Stacks(sh) = Top.entry /\ sh \in Shell
    BY <2>1, TopFacts DEF Placed, Within
  <2>3. Stacks(sh) = Base
    BY <2>1, <2>2 DEF Sound, Top
  <2>4. stage \in {"ready", "ending"}
    <3>1. Base.frames # <<>>
      BY <2>1, <2>2, <2>3, TopFacts DEF Placed
    <3> QED
      BY <3>1, BaseFacts
  <2>5. Base' = Base
    BY <1>2, <2>4 DEF EndTop, Base
  <2> QED
    BY <1>2, <2>2, <2>3, <2>5, RestStep DEF EndTop, Idle
<1>3. CASE Eof
  <2>1. Base' = Base
    BY <1>3 DEF Eof, Base
  <2> QED
    BY <1>3, <2>1, AtRest, RestStep DEF Eof
<1>4. CASE Complete
  <2> DEFINE t == [sh EXCEPT !.blocks = @ + 1]
             a == [Activation("completion", "body", FALSE) EXCEPT !.busy = "run"]
             c == [Activation("function", "body", FALSE)
                     EXCEPT !.entry = Stacks(t)]
  <2>1. k = <<>> /\ sh \in Shell /\ Stacks(sh) = Base /\ Sound(<<>>, sh, Base)
        /\ Len(<<>>) = 0 /\ ret = NoRet
    BY <1>4, AtRest DEF Complete
  <2>2. /\ k' = <<a, c>> /\ sh' = EnterFunction(t)
        /\ UNCHANGED <<mode, stage, ret>>
    BY <1>4 DEF Complete
  <2>3. t \in Shell /\ Stacks(t) \in StackType
    <3>1. sh.blocks + 1 \in Nat
      BY <2>1 DEF Shell
    <3>2. t \in Shell
      BY <2>1, <3>1 DEF Shell
    <3> QED
      BY <3>2, StacksType
  <2>4. Stacks(t) = [Stacks(sh) EXCEPT !.blocks = @ + 1]
    <3>1. Stacks(sh) \in StackType
      BY <2>1, StacksType
    <3>2. [Stacks(sh) EXCEPT !.blocks = @ + 1] \in StackType
      BY <3>1 DEF StackType
    <3>3. /\ [Stacks(sh) EXCEPT !.blocks = @ + 1].frames = sh.frames
          /\ [Stacks(sh) EXCEPT !.blocks = @ + 1].calls = sh.calls
          /\ [Stacks(sh) EXCEPT !.blocks = @ + 1].active = sh.active
          /\ [Stacks(sh) EXCEPT !.blocks = @ + 1].blocks = sh.blocks + 1
          /\ [Stacks(sh) EXCEPT !.blocks = @ + 1].scopes = sh.scopes
          /\ [Stacks(sh) EXCEPT !.blocks = @ + 1].level = sh.level
      BY DEF Stacks
    <3>4. /\ Stacks(t).frames = sh.frames /\ Stacks(t).calls = sh.calls
          /\ Stacks(t).active = sh.active /\ Stacks(t).blocks = sh.blocks + 1
          /\ Stacks(t).scopes = sh.scopes /\ Stacks(t).level = sh.level
      BY <2>1 DEF Stacks, Shell
    <3> QED
      BY <2>3, <3>2, <3>3, <3>4, StackEqual
  <2>5. "completion" \in Ops /\ "function" \in Ops /\ "body" \in Phases
    BY DEF Ops, Lists, Phases
  <2> HIDE DEF t
  <2>6. /\ a \in ActivationType /\ a.op = "completion" /\ a.entry = Stacks(sh)
        /\ a.sup = FALSE /\ a.quiet = FALSE /\ a.busy = "run"
        /\ Ready(a) /\ a.res.flow = "normal"
    <3> DEFINE d == Activation("completion", "body", FALSE)
    <3>1. /\ d \in ActivationType /\ d.op = "completion" /\ d.entry = Stacks(sh)
          /\ d.sup = FALSE /\ d.quiet = FALSE /\ d.res = Ok(0)
          /\ d.res.flow = "normal" /\ Ready(d)
      BY <2>1, <2>5, ActivationTypes
    <3> HIDE DEF d
    <3>2. LET x == [d EXCEPT !.busy = "run"]
          IN /\ x \in ActivationType /\ x.op = "completion" /\ x.entry = Stacks(sh)
             /\ x.sup = FALSE /\ x.quiet = FALSE /\ x.busy = "run"
             /\ x.res = Ok(0) /\ x.res.flow = "normal"
      BY <3>1 DEF ActivationType
    <3>3. Ready([d EXCEPT !.busy = "run"])
      BY <3>2, PlainFlows DEF Ready
    <3> QED
      BY <3>2, <3>3 DEF d
  <2>7. /\ c \in ActivationType /\ c.op = "function" /\ c.entry = Stacks(t)
        /\ Ready(c) /\ c.res.flow = "normal"
    <3> DEFINE d == Activation("function", "body", FALSE)
    <3>1. /\ d \in ActivationType /\ d.op = "function"
          /\ d.res.flow = "normal" /\ Ready(d)
      BY <2>1, <2>5, ActivationTypes
    <3> HIDE DEF d
    <3>2. LET x == [d EXCEPT !.entry = Stacks(t)]
          IN /\ x \in ActivationType /\ x.op = "function" /\ x.entry = Stacks(t)
             /\ x.res.flow = "normal" /\ Ready(x)
      BY <3>1, <2>3 DEF ActivationType, Ready
    <3> QED
      BY <3>2 DEF d
  <2> HIDE DEF a, c
  <2>8. Sound(<<a>>, t, Base)
    <3>1. Placed(a, Len(<<>>) + 1) /\ Stacks(t) = Within(a)
      BY <2>1, <2>4, <2>6 DEF Placed, Within
    <3>2. Sound(Append(<<>>, a), t, Base)
      BY <2>1, <2>3, <2>6, <3>1, Pushed
    <3>3. Append(<<>>, a) = <<a>>
      OBVIOUS
    <3> QED
      BY <3>2, <3>3
  <2>9. Sound(<<a, c>>, sh', Base)
    <3>1. EnterFunction(t) \in Shell
          /\ Stacks(EnterFunction(t)) = EnterFunction(Stacks(t))
      BY <2>3, EnteringFunction
    <3>2. Placed(c, Len(<<a>>) + 1) /\ Stacks(EnterFunction(t)) = Within(c)
      BY <2>7, <3>1 DEF Placed, Within
    <3>5. Passes(<<a>>[Len(<<a>>)], c)
      BY <2>6 DEF Passes
    <3>3. Sound(Append(<<a>>, c), EnterFunction(t), Base)
      BY <2>7, <2>8, <3>1, <3>2, <3>5, Pushed
    <3>4. Append(<<a>>, c) = <<a, c>>
      <4>1. <<a>> \in Seq(ActivationType) /\ <<a, c>> \in Seq(ActivationType)
        BY <2>6, <2>7
      <4>2. Len(<<a>>) = 1 /\ Len(<<a, c>>) = 2
        OBVIOUS
      <4>3. /\ Append(<<a>>, c) \in Seq(ActivationType)
            /\ Len(Append(<<a>>, c)) = 2
            /\ Append(<<a>>, c)[1] = a /\ Append(<<a>>, c)[2] = c
        BY <4>1, <4>2, <2>7, AppendProperties
      <4>4. \A i \in 1..2 : Append(<<a>>, c)[i] = <<a, c>>[i]
        BY <4>3
      <4> QED
        BY <4>1, <4>2, <4>3, <4>4, SeqEqual
    <3> QED
      BY <2>2, <3>3, <3>4
  <2>10. Fits(ret', k')
    <3>1. <<a, c>> # <<>>
      OBVIOUS
    <3> QED
      BY <2>1, <2>2, <3>1 DEF Fits, NoRet
  <2> QED
    BY <2>2, <2>9, <2>10, BaseKept
<1>5. CASE EndCompletion
  <2>1. k # <<>> /\ Top.op = "completion"
    BY <1>5 DEF EndCompletion, Receiving
  <2> DEFINE t == [sh EXCEPT !.blocks = @ - 1]
             e == Top.entry
  <2>2. /\ sh \in Shell /\ e \in StackType
        /\ Stacks(sh) = [e EXCEPT !.blocks = @ + 1]
    BY <2>1, TopFacts DEF Within
  <2>3. /\ sh.frames = e.frames /\ sh.calls = e.calls /\ sh.active = e.active
        /\ sh.blocks = e.blocks + 1 /\ sh.scopes = e.scopes
        /\ sh.level = e.level /\ e.blocks \in Nat
    BY <2>2 DEF Stacks, StackType
  <2>4. t \in Shell
    <3> HIDE DEF e
    <3>1. sh.blocks - 1 \in Nat /\ sh.blocks - 1 = e.blocks
      BY <2>3
    <3> QED
      BY <2>2, <3>1 DEF Shell
  <2>5. Stacks(t) = e
    <3>1. /\ Stacks(t).frames = e.frames /\ Stacks(t).calls = e.calls
          /\ Stacks(t).active = e.active /\ Stacks(t).blocks = e.blocks
          /\ Stacks(t).scopes = e.scopes /\ Stacks(t).level = e.level
      BY <2>2, <2>3 DEF Stacks, Shell
    <3> QED
      BY <2>2, <2>4, <3>1, StacksType, StackEqual
  <2> QED
    BY <1>5, <2>1, <2>4, <2>5, PopStep, ResultTypes, PlainFlows DEF EndCompletion
<1>6. CASE EndSession
  <2>1. /\ k = <<>> /\ sh \in Shell /\ Stacks(sh) = Base /\ stage = "ending"
        /\ UNCHANGED <<mode, k, ret>> /\ ret = NoRet
    BY <1>6, AtRest DEF EndSession
  <2>2. /\ Base.frames = <<mode>> /\ Base \in StackType /\ mode \in FrameTypes
    BY <2>1, BaseFacts
  <2>3. sh.frames = <<mode>>
    BY <2>1, <2>2 DEF Stacks
  <2>4. sh.frames # <<>> /\ sh.frames[Len(sh.frames)] = mode
    BY <2>3
  <2>5. stage' = "exiting" /\ sh' = [sh EXCEPT !.frames = Pop(@)]
    BY <1>6, <2>4 DEF EndSession
  <2>6. Pop(<<mode>>) = <<>>
    <3>1. <<>> \in Seq(FrameTypes) /\ Append(<<>>, mode) = <<mode>>
      OBVIOUS
    <3>2. Pop(Append(<<>>, mode)) = <<>>
      BY <3>1, <2>2, PopAppend
    <3> QED
      BY <3>1, <3>2
  <2>7. sh' \in Shell
    <3>1. <<>> \in Seq(FrameTypes)
      OBVIOUS
    <3> QED
      BY <2>1, <2>3, <2>5, <2>6, <3>1 DEF Shell
  <2>8. Stacks(sh') = Base'
    <3>1. Base' \in StackType /\ Base'.frames = <<>>
      <4>1. Base' = [Base EXCEPT !.frames = <<>>]
        BY <2>5 DEF Base, Stacks, Fresh
      <4>2. <<>> \in Seq(FrameTypes)
        OBVIOUS
      <4> QED
        BY <4>1, <4>2, <2>2 DEF StackType
    <3>2. /\ Base'.calls = Base.calls /\ Base'.active = Base.active
          /\ Base'.blocks = Base.blocks /\ Base'.scopes = Base.scopes
          /\ Base'.level = Base.level
      BY DEF Base, Stacks, Fresh
    <3>3. /\ Stacks(sh').frames = <<>> /\ Stacks(sh').calls = Stacks(sh).calls
          /\ Stacks(sh').active = Stacks(sh).active
          /\ Stacks(sh').blocks = Stacks(sh).blocks
          /\ Stacks(sh').scopes = Stacks(sh).scopes
          /\ Stacks(sh').level = Stacks(sh).level
      BY <2>1, <2>3, <2>5, <2>6 DEF Stacks, Shell
    <3>4. Stacks(sh') \in StackType
      BY <2>7, StacksType
    <3> QED
      BY <2>1, <3>1, <3>2, <3>3, <3>4, StackEqual
  <2> QED
    BY <2>1, <2>5, <2>7, <2>8, RestStep
<1>7. CASE OnExit
  <2>1. k = <<>> /\ sh \in Shell /\ Stacks(sh) = Base /\ stage = "exiting"
        /\ stage' = "done" /\ UNCHANGED <<mode, ret>> /\ ret = NoRet
    BY <1>7, AtRest DEF OnExit
  <2>2. Base' = Base
    BY <2>1 DEF Base
  <2>3. CASE ~Delivered(sh, "EXIT")
    BY <1>7, <2>1, <2>2, <2>3, RestStep DEF OnExit
  <2>4. CASE Delivered(sh, "EXIT")
    <3> DEFINE a == OnTrap("EXIT", FALSE)
    <3>1. "EXIT" \in Signals /\ "EXIT" \notin sh.active /\ sh.blocks = 0
      BY <2>1, <2>4 DEF Delivered, Shell
    <3>2. /\ a \in ActivationType /\ a.op = "trap" /\ a.sig = "EXIT"
          /\ a.entry = Stacks(sh) /\ Ready(a) /\ a.res.flow = "normal"
      BY <2>1, <3>1, TrapTypes
    <3>3. /\ EnterTrap(sh, "EXIT") \in Shell
          /\ Stacks(EnterTrap(sh, "EXIT")) = EnterTrap(Stacks(sh), "EXIT")
      BY <2>1, <3>1, EnteringTrap
    <3>4. k' = <<a>> /\ sh' = EnterTrap(sh, "EXIT")
      BY <1>7, <2>4 DEF OnExit
    <3> HIDE DEF a
    <3>5. Placed(a, 1) /\ Stacks(sh') = Within(a)
      BY <3>1, <3>2, <3>3, <3>4 DEF Placed, Within, Stacks
    <3> QED
      BY <2>1, <2>2, <3>2, <3>3, <3>4, <3>5, FirstStep
  <2> QED
    BY <2>3, <2>4
<1>8. CASE Ended
  BY <1>8, BaseKept DEF Ended, vars
<1> QED
  BY <1>1, <1>2, <1>3, <1>4, <1>5, <1>6, <1>7, <1>8 DEF Session

---------------------------------------------------------------------------
(* The steps that start a command *)

LEMMA StartingKept ==
  ASSUME Inv, CanStart, NEW guarded \in BOOLEAN
  PROVE  /\ k # <<>> /\ Starting(guarded) \in ActivationType
         /\ Kept(Starting(guarded), Top)
         /\ Starting(guarded).quiet \in BOOLEAN
         /\ Ready(Starting(guarded)) /\ Starting(guarded).res.flow = "normal"
         /\ \A c : c.sup = Starting(guarded).quiet => Passes(Starting(guarded), c)
         /\ ret = NoRet
<1>1. k # <<>> /\ ret = NoRet /\ Top.op \in Lists \cup {"pipe"}
  BY DEF CanStart, Idle
<1>2. Top \in ActivationType /\ Ok(0) \in Result
  BY <1>1, TopFacts, ResultTypes
<1> DEFINE q == Top.sup \/ Top.phase = "cond" \/ (guarded /\ Top.op # "pipe")
<1>3. q \in BOOLEAN
  BY <1>2 DEF ActivationType
<1>4. Starting(guarded)
        = [Top EXCEPT !.busy = "run", !.res = Ok(0), !.quiet = q]
  BY DEF Starting
<1>5. Top.sup => q
  OBVIOUS
<1> HIDE DEF q
<1>6. /\ Starting(guarded) \in ActivationType /\ Kept(Starting(guarded), Top)
      /\ Starting(guarded).quiet = q /\ Starting(guarded).sup = Top.sup
      /\ Starting(guarded).busy = "run" /\ Starting(guarded).res = Ok(0)
      /\ Starting(guarded).op = Top.op
  BY <1>2, <1>3, <1>4 DEF ActivationType, Kept
<1>7. Top.op \notin {"simple", "completion"}
  BY <1>1 DEF Lists, Programs, Compounds
<1>8. Ready(Starting(guarded))
  BY <1>5, <1>6, <1>7, PlainFlows DEF Ready
<1>9. \A c : c.sup = Starting(guarded).quiet => Passes(Starting(guarded), c)
  BY <1>5, <1>6 DEF Passes
<1> QED
  BY <1>1, <1>3, <1>6, <1>8, <1>9, PlainFlows

(* An activation is not the first one unless the session starts it. *)
LEMMA NotFirst ==
  ASSUME NEW n \in Nat \ {0}, NEW c, c.op \notin {"top", "completion", "trap"},
         c.op \in {"subshell", "pipe"} => Stacks(c.home) = c.entry
  PROVE  Placed(c, n + 1)
  BY DEF Placed

LEMMA StartInv ==
  ASSUME Inv, Start
  PROVE  Inv'
<1>0. k # <<>> /\ CanStart
  BY DEF Start, AtOnce, Background, StartCompound, StartClone, StartSimple,
         CanNest, CanStart, Idle
<1>00. /\ sh \in Shell /\ Top \in ActivationType /\ ret \in Result
       /\ Len(k) \in Nat \ {0} /\ ret = NoRet /\ Ready(Top)
       /\ Top.res.flow = "normal" /\ Top.busy = "idle"
       /\ Placed(Top, Len(k))
  BY <1>0, TopFacts DEF Inv, CanStart, Idle
<1>1. CASE AtOnce
  <2>1. PICK guarded \in BOOLEAN : k' = With(Starting(guarded))
    BY <1>1 DEF AtOnce
  <2>2. /\ ret' \in Result /\ ret'.flow \in {"normal", "exit"}
        /\ UNCHANGED <<mode, stage, sh>>
    BY <1>1, ResultTypes, PlainFlows DEF AtOnce
  <2> QED
    BY <1>0, <1>00, <2>1, <2>2, StartingKept, SameStep
<1>2. CASE Background
  <2> DEFINE a == [Top EXCEPT !.res = Ok(0)]
  <2>1. /\ a \in ActivationType /\ Kept(a, Top)
        /\ Ready(a) /\ a.res.flow = "normal"
    <3>1. /\ a \in ActivationType /\ Kept(a, Top) /\ a.res = Ok(0)
          /\ a.op = Top.op /\ a.busy = "idle" /\ a.quiet = Top.quiet
      BY <1>00, ResultTypes DEF ActivationType, Kept
    <3> QED
      BY <1>00, <3>1, PlainFlows DEF Ready
  <2>2. k' = With(a) /\ UNCHANGED <<mode, stage, sh, ret>>
    BY <1>2 DEF Background
  <2> QED
    BY <1>0, <1>00, <2>1, <2>2, PlainFlows, SameStep
<1>3. CASE StartCompound
  <2>1. PICK op \in Compounds, guarded \in BOOLEAN :
          k' = Append(With(Starting(guarded)),
                      Activation(op, IF op \in {"if", "while"} THEN "cond"
                                     ELSE "body", Starting(guarded).quiet))
    BY <1>3 DEF StartCompound
  <2> DEFINE phase == IF op \in {"if", "while"} THEN "cond" ELSE "body"
             a == Starting(guarded)
             c == Activation(op, phase, a.quiet)
  <2>2. op \in Ops /\ phase \in Phases
    BY DEF Ops, Lists, Compounds, Phases
  <2>3. /\ a \in ActivationType /\ Kept(a, Top) /\ a.quiet \in BOOLEAN
        /\ Ready(a) /\ a.res.flow = "normal"
        /\ \A x : x.sup = a.quiet => Passes(a, x)
    BY <1>0, StartingKept
  <2> HIDE DEF a, phase
  <2>4. /\ c \in ActivationType /\ c.op = op /\ c.entry = Stacks(sh)
        /\ c.sup = a.quiet /\ Ready(c) /\ c.res.flow = "normal"
    <3>1. sh \in Shell /\ a.quiet \in BOOLEAN
      BY <1>00, <2>3
    <3> HIDE DEF a
    <3> QED
      BY <2>2, <3>1, ActivationTypes
  <2>5. k' = Append(With(a), c) /\ UNCHANGED <<mode, stage, sh, ret>>
    BY <1>3, <2>1 DEF StartCompound, a, phase
  <2> HIDE DEF c
  <2>6. Placed(c, Len(k) + 1) /\ Stacks(sh) = Within(c)
    BY <1>00, <2>4, NotFirst DEF Within, Compounds
  <2> QED
    BY <1>0, <1>00, <2>3, <2>4, <2>5, <2>6, PushStep
<1>4. CASE StartClone
  <2>1. PICK op \in {"subshell", "pipe"}, guarded \in BOOLEAN :
          k' = Append(With(Starting(guarded)),
                      [Activation(op, IF op = "pipe" THEN "first" ELSE "body",
                                  Starting(guarded).quiet) EXCEPT !.home = sh])
    BY <1>4 DEF StartClone
  <2> DEFINE phase == IF op = "pipe" THEN "first" ELSE "body"
             a == Starting(guarded)
             d == Activation(op, phase, a.quiet)
             c == [d EXCEPT !.home = sh]
  <2>2. op \in Ops /\ phase \in Phases
    BY DEF Ops, Lists, Phases
  <2>3. /\ a \in ActivationType /\ Kept(a, Top) /\ a.quiet \in BOOLEAN
        /\ Ready(a) /\ a.res.flow = "normal"
        /\ \A x : x.sup = a.quiet => Passes(a, x)
    BY <1>0, StartingKept
  <2>4. k' = Append(With(a), c)
        /\ sh' = Cloned(sh) /\ UNCHANGED <<mode, stage, ret>>
    BY <1>4, <2>1 DEF StartClone
  <2> HIDE DEF a, phase
  <2>5. /\ d \in ActivationType /\ d.op = op /\ d.entry = Stacks(sh)
        /\ d.sup = a.quiet /\ Ready(d) /\ d.res.flow = "normal"
    <3>1. sh \in Shell /\ a.quiet \in BOOLEAN
      BY <1>00, <2>3
    <3> HIDE DEF a
    <3> QED
      BY <2>2, <3>1, ActivationTypes
  <2> HIDE DEF d
  <2>6. /\ c \in ActivationType /\ c.op = op /\ c.entry = Stacks(sh) /\ c.home = sh
        /\ c.sup = a.quiet /\ Ready(c) /\ c.res.flow = "normal"
    BY <1>00, <2>5 DEF ActivationType, Ready
  <2> HIDE DEF c
  <2>7. sh' \in Shell /\ Stacks(sh') = Cloned(Stacks(sh))
    BY <1>00, <2>4, Cloning
  <2>8. Placed(c, Len(k) + 1) /\ Stacks(sh') = Within(c)
    BY <1>00, <2>6, <2>7, NotFirst DEF Within
  <2> QED
    BY <1>0, <1>00, <2>3, <2>4, <2>6, <2>7, <2>8, PushStep
<1>5. CASE StartSimple
  <2>1. PICK guarded \in BOOLEAN :
          k' = Append(With(Starting(guarded)),
                      Activation("simple", "assign", Starting(guarded).quiet))
    BY <1>5 DEF StartSimple
  <2> DEFINE a == Starting(guarded)
             c == Activation("simple", "assign", a.quiet)
  <2>2. "simple" \in Ops /\ "assign" \in Phases
    BY DEF Ops, Phases
  <2>3. /\ a \in ActivationType /\ Kept(a, Top) /\ a.quiet \in BOOLEAN
        /\ Ready(a) /\ a.res.flow = "normal"
        /\ \A x : x.sup = a.quiet => Passes(a, x)
    BY <1>0, StartingKept
  <2>4. k' = Append(With(a), c)
        /\ sh' = EnterCommand(sh) /\ UNCHANGED <<mode, stage, ret>>
    BY <1>5, <2>1 DEF StartSimple
  <2> HIDE DEF a
  <2>5. /\ c \in ActivationType /\ c.op = "simple" /\ c.entry = Stacks(sh)
        /\ c.sup = a.quiet /\ Ready(c) /\ c.res.flow = "normal"
    <3> DEFINE op == "simple"
               phase == "assign"
    <3>1. sh \in Shell /\ a.quiet \in BOOLEAN /\ op \in Ops /\ phase \in Phases
      BY <1>00, <2>2, <2>3
    <3>2. c = Activation(op, phase, a.quiet)
      OBVIOUS
    <3> HIDE DEF a, c, op, phase
    <3>3. c \in ActivationType /\ c.op = op /\ c.entry = Stacks(sh)
      BY <3>1, <3>2, ActivationTypes
    <3>4. c.sup = a.quiet /\ Ready(c) /\ c.res.flow = "normal"
      BY <3>1, <3>2, ActivationTypes
    <3> QED
      BY <3>3, <3>4 DEF op
  <2> HIDE DEF c
  <2>6. sh' \in Shell /\ Stacks(sh') = EnterCommand(Stacks(sh))
    BY <1>00, <2>4, EnteringCommand
  <2>7. Placed(c, Len(k) + 1) /\ Stacks(sh') = Within(c)
    BY <1>00, <2>5, <2>6, NotFirst DEF Within
  <2> QED
    BY <1>0, <1>00, <2>3, <2>4, <2>5, <2>6, <2>7, PushStep
<1> QED
  BY <1>1, <1>2, <1>3, <1>4, <1>5 DEF Start

---------------------------------------------------------------------------
(* The steps of a simple command *)

LEMMA SimpleFacts ==
  ASSUME Inv, k # <<>>, Top.op = "simple"
  PROVE  LeaveCommand(sh) \in Shell /\ Stacks(LeaveCommand(sh)) = Top.entry
<1>1. sh \in Shell /\ Top.entry \in StackType /\ Stacks(sh) = EnterCommand(Top.entry)
  BY TopFacts DEF Within
<1> QED
  BY <1>1, LeavingCommand

(* A command that runs a program or a function. *)
LEMMA CallsInv ==
  ASSUME Inv, k # <<>>, Top.op = "simple", ret = NoRet,
         NEW op \in {"eval", "source", "function"},
         k' = Calls(op), UNCHANGED <<mode, stage, ret>>,
         sh' \in Shell,
         \A c : c.op = op /\ c.entry = Stacks(sh) => Stacks(sh') = Within(c)
  PROVE  Inv'
<1> DEFINE a == [Top EXCEPT !.phase = "running", !.busy = "run"]
           c == Activation(op, "body", Top.sup)
<1>1. /\ Top \in ActivationType /\ sh \in Shell /\ ret \in Result
      /\ Ready(Top) /\ Len(k) \in Nat \ {0}
  BY TopFacts DEF Inv
<1>2. /\ a \in ActivationType /\ Kept(a, Top) /\ Top.sup \in BOOLEAN
      /\ a.op = "simple" /\ a.busy = "run" /\ a.quiet = Top.quiet
      /\ a.res = Top.res /\ a.sup = Top.sup
  BY <1>1 DEF ActivationType, Kept, Phases
<1>20. Ready(a) /\ a.res.flow = "normal" /\ ~a.quiet
  BY <1>1, <1>2, PlainFlows DEF Ready
<1>3. op \in Ops /\ "body" \in Phases
  BY DEF Ops, Lists, Programs, Phases
<1>4. /\ c \in ActivationType /\ c.op = op /\ c.entry = Stacks(sh)
      /\ c.sup = Top.sup /\ Ready(c) /\ c.res.flow = "normal"
  <2>1. sh \in Shell /\ Top.sup \in BOOLEAN
    BY <1>1, <1>2
  <2> QED
    BY <1>3, <2>1, ActivationTypes
<1>5. k' = Append(With(a), c)
  BY DEF Calls
<1> HIDE DEF a, c
<1>6. Placed(c, Len(k) + 1) /\ Stacks(sh') = Within(c)
  BY <1>1, <1>4, NotFirst
<1>7. Passes(a, c)
  BY <1>2, <1>20, <1>4 DEF Passes
<1> QED
  BY <1>1, <1>2, <1>20, <1>4, <1>5, <1>6, <1>7, PushStep

LEMMA SimpleInv ==
  ASSUME Inv, Simple
  PROVE  Inv'
<1>0. k # <<>> /\ Top.op = "simple"
  BY DEF Simple, AssignFails, PreExecute, Finishes, SetsTrap, SetsOption,
         Evaluates, Sources, Invokes, EndSimple, At, Idle, Receiving
<1>00. /\ sh \in Shell /\ Top \in ActivationType /\ ret \in Result
       /\ Len(k) \in Nat \ {0} /\ Ready(Top)
  BY <1>0, TopFacts DEF Inv
<1>02. ret = NoRet \/ EndSimple
  BY DEF Simple, AssignFails, PreExecute, Finishes, SetsTrap, SetsOption,
         Evaluates, Sources, Invokes, At, Idle
<1>03. /\ Top.op \notin {"top", "completion", "trap", "function", "source"}
       /\ ~Top.quiet /\ Top.busy # "errtrap" /\ Top.res = Ok(0)
       /\ Top.res.flow = "normal" /\ Top.sup \in BOOLEAN
  BY <1>0, <1>00, PlainFlows DEF Ready, ActivationType
<1>01. LeaveCommand(sh) \in Shell /\ Stacks(LeaveCommand(sh)) = Top.entry
  BY <1>0, SimpleFacts
<1>1. CASE AssignFails
  <2>1. PICK fatal \in BOOLEAN : GiveBack(IntoResult(Err(fatal)), LeaveCommand(sh))
    BY <1>1 DEF AssignFails
  <2> DEFINE r == IntoResult(Err(fatal))
  <2>2. r \in Result /\ r.flow \in {"normal", "exit"}
    BY ResultTypes, ResultOps, PlainFlows
  <2>3. GiveBack(r, LeaveCommand(sh))
    BY <2>1
  <2> HIDE DEF r
  <2> QED
    BY <1>0, <1>01, <1>03, <2>2, <2>3, PopStep
<1>2. CASE PreExecute
  <2>1. UNCHANGED <<mode, stage, ret>> /\ ret = NoRet /\ NoRet.flow = "normal"
    BY <1>2, PlainFlows DEF PreExecute, At, Idle
  <2>2. CASE ~Delivered(sh, "DEBUG")
    <3> DEFINE a == [Top EXCEPT !.phase = "run"]
    <3>1. /\ a \in ActivationType /\ Kept(a, Top) /\ a.res = Top.res
          /\ a.op = Top.op /\ a.busy = Top.busy /\ a.quiet = Top.quiet
      BY <1>00 DEF ActivationType, Kept, Phases
    <3>3. Ready(a) /\ a.res.flow = "normal"
      BY <1>0, <1>00, <1>03, <3>1 DEF Ready
    <3> HIDE DEF a
    <3>2. k' = With(a) /\ sh' = sh
      BY <1>2, <2>2 DEF PreExecute, a
    <3> QED
      BY <1>0, <1>00, <2>1, <3>1, <3>2, <3>3, SameStep
  <2>3. CASE Delivered(sh, "DEBUG")
    <3> DEFINE a == [Top EXCEPT !.phase = "debug", !.busy = "run"]
               c == OnTrap("DEBUG", Top.sup)
    <3>1. /\ a \in ActivationType /\ Kept(a, Top) /\ a.res = Top.res
          /\ a.op = Top.op /\ a.busy = "run" /\ a.quiet = Top.quiet
          /\ a.sup = Top.sup
      BY <1>00 DEF ActivationType, Kept, Phases
    <3>7. Ready(a) /\ a.res.flow = "normal" /\ ~a.quiet
      BY <1>0, <1>00, <1>03, <3>1 DEF Ready
    <3>2. "DEBUG" \in Signals /\ "DEBUG" \notin sh.active /\ sh.blocks = 0
      BY <1>00, <2>3 DEF Delivered, Shell
    <3>3. /\ c \in ActivationType /\ c.op = "trap" /\ c.sig = "DEBUG"
          /\ c.entry = Stacks(sh) /\ c.sup = Top.sup
          /\ Ready(c) /\ c.res.flow = "normal"
      BY <1>00, <1>03, <3>2, TrapTypes
    <3>4. k' = Append(With(a), c) /\ sh' = EnterTrap(sh, "DEBUG")
      BY <1>2, <2>3 DEF PreExecute
    <3> HIDE DEF a, c
    <3>5. sh' \in Shell /\ Stacks(sh') = EnterTrap(Stacks(sh), "DEBUG")
      BY <1>00, <3>2, <3>4, EnteringTrap
    <3>6. Placed(c, Len(k) + 1) /\ Stacks(sh') = Within(c)
      BY <3>2, <3>3, <3>5 DEF Placed, Within, Stacks
    <3>8. Passes(a, c)
      BY <3>1, <3>3, <3>7 DEF Passes
    <3> QED
      BY <1>0, <1>00, <2>1, <3>1, <3>3, <3>4, <3>5, <3>6, <3>7, <3>8, PushStep
  <2> QED
    BY <2>2, <2>3
<1>3. CASE Finishes
  <2>1. PICK r \in Outcomes \cup TaskErrors : GiveBack(r, LeaveCommand(sh))
    BY <1>3 DEF Finishes
  <2>2. r \in Result
    BY OutcomeTypes
  <2>3. r.flow = "return" => Target(k, Len(k) - 1)
    <3> SUFFICES ASSUME r.flow = "return" PROVE Target(k, Len(k) - 1)
      OBVIOUS
    <3>1. InFunction(sh) \/ InSourced(sh)
      BY OutcomeFlows
    <3> QED
      BY <1>0, <1>03, <3>1, FramesTarget, TargetBelow
  <2>4. r.kind = "err" => r.flow \in {"normal", "exit"}
    BY OutcomeFlows
  <2> QED
    BY <1>0, <1>01, <1>03, <2>1, <2>2, <2>3, <2>4, PopStep
<1>4. CASE SetsTrap
  <2>1. PICK traps \in SUBSET Signals :
          GiveBack(Ok(0), [LeaveCommand(sh) EXCEPT !.traps = traps])
    BY <1>00, <1>4 DEF SetsTrap, Shell
  <2> DEFINE t == LeaveCommand(sh)
             u == [t EXCEPT !.traps = traps]
  <2>2. GiveBack(Ok(0), u)
    BY <2>1
  <2>3. t \in Shell /\ Stacks(t) = Top.entry
    BY <1>01
  <2> HIDE DEF t
  <2>4. u \in Shell /\ Stacks(u) = Stacks(t)
    BY <2>3 DEF Shell, Stacks
  <2> HIDE DEF u
  <2> QED
    BY <1>0, <1>03, <2>2, <2>3, <2>4, PopStep, ResultTypes, PlainFlows
<1>5. CASE SetsOption
  <2>1. PICK opts \in SUBSET Options :
          GiveBack(Ok(0), [LeaveCommand(sh) EXCEPT !.opts = opts])
    BY <1>00, <1>5 DEF SetsOption, Shell
  <2> DEFINE t == LeaveCommand(sh)
             u == [t EXCEPT !.opts = opts]
  <2>2. GiveBack(Ok(0), u)
    BY <2>1
  <2>3. t \in Shell /\ Stacks(t) = Top.entry
    BY <1>01
  <2> HIDE DEF t
  <2>4. u \in Shell /\ Stacks(u) = Stacks(t)
    BY <2>3 DEF Shell, Stacks
  <2> HIDE DEF u
  <2> QED
    BY <1>0, <1>03, <2>2, <2>3, <2>4, PopStep, ResultTypes, PlainFlows
<1>6. CASE Evaluates
  <2>1. \A c : c.op = "eval" /\ c.entry = Stacks(sh) => Stacks(sh) = Within(c)
    BY DEF Within
  <2> QED
    BY <1>0, <1>00, <1>6, <2>1, CallsInv DEF Evaluates, At, Idle
<1>7. CASE Sources
  <2>1. sh' = EnterSource(sh) /\ k' = Calls("source")
        /\ UNCHANGED <<mode, stage, ret>> /\ ret = NoRet
    BY <1>7 DEF Sources, At, Idle
  <2>2. sh' \in Shell /\ Stacks(sh') = EnterSource(Stacks(sh))
    BY <1>00, <2>1, EnteringSource
  <2>3. \A c : c.op = "source" /\ c.entry = Stacks(sh) => Stacks(sh') = Within(c)
    BY <2>2 DEF Within
  <2> QED
    BY <1>0, <2>1, <2>2, <2>3, CallsInv
<1>8. CASE Invokes
  <2>1. CASE sh.calls < MaxCalls
    <3>1. sh' = EnterFunction(sh) /\ k' = Calls("function")
          /\ UNCHANGED <<mode, stage, ret>> /\ ret = NoRet
      BY <1>8, <2>1 DEF Invokes, At, Idle
    <3>2. sh' \in Shell /\ Stacks(sh') = EnterFunction(Stacks(sh))
      BY <1>00, <3>1, EnteringFunction
    <3>3. \A c : c.op = "function" /\ c.entry = Stacks(sh)
                  => Stacks(sh') = Within(c)
      BY <3>2 DEF Within
    <3> QED
      BY <1>0, <3>1, <3>2, <3>3, CallsInv
  <2>2. CASE ~(sh.calls < MaxCalls)
    <3> DEFINE r == IntoResult(Err(FALSE))
    <3>1. GiveBack(r, LeaveCommand(sh))
      BY <1>8, <2>2 DEF Invokes
    <3>2. r \in Result /\ r.flow \in {"normal", "exit"}
      BY ResultTypes, ResultOps, PlainFlows
    <3> HIDE DEF r
    <3> QED
      BY <1>0, <1>01, <1>03, <3>1, <3>2, PopStep
  <2> QED
    BY <2>1, <2>2
<1>9. CASE EndSimple
  <2> DEFINE r == IntoResult(ret)
  <2>1. GiveBack(r, LeaveCommand(sh)) /\ r \in Result
    BY <1>00, <1>9, ResultOps DEF EndSimple
  <2>2. /\ r.flow = "return" => Target(k, Len(k) - 1)
        /\ r.kind = "err" => r.flow \in {"normal", "exit"}
    <3>1. CASE ret.kind = "err"
      BY <1>00, <3>1, FlowOps DEF Inv, Fits
    <3>2. CASE ret.kind # "err"
      <4>1. r = ret /\ (ret.flow = "return" => Target(k, Len(k)))
        BY <1>00, <3>2, FlowOps DEF Inv, Fits
      <4> QED
        BY <1>0, <1>03, <3>2, <4>1, TargetBelow
    <3> QED
      BY <3>1, <3>2
  <2> HIDE DEF r
  <2> QED
    BY <1>0, <1>01, <1>03, <2>1, <2>2, PopStep
<1> QED
  BY <1>1, <1>2, <1>3, <1>4, <1>5, <1>6, <1>7, <1>8, <1>9 DEF Simple

---------------------------------------------------------------------------
(* The steps that end something *)

LEMMA StatusOnly ==
  ASSUME NEW s \in Shell, NEW code \in {0, 1}
  PROVE  LET t == [s EXCEPT !.status = code]
         IN t \in Shell /\ Stacks(t) = Stacks(s)
  BY DEF Shell, Stacks

LEMMA SettledType ==
  ASSUME NEW a \in ActivationType, NEW r \in Result
  PROVE  /\ Settled(a, r) \in ActivationType /\ Kept(Settled(a, r), a)
         /\ Settled(a, r).res = r
         /\ /\ r.kind = "ok"
            /\ a.op \in {"simple", "completion", "pipe"} => r = Ok(0)
            => Ready(Settled(a, r))
<1> DEFINE c == Settled(a, r)
<1>1. /\ c \in ActivationType /\ Kept(c, a) /\ c.res = r /\ c.op = a.op
      /\ c.busy = "idle" /\ c.quiet = FALSE
  BY DEF ActivationType, Kept, Settled
<1> HIDE DEF c
<1>2. ASSUME r.kind = "ok", a.op \in {"simple", "completion", "pipe"} => r = Ok(0)
      PROVE  Ready(c)
  BY <1>1, <1>2 DEF Ready
<1> QED
  BY <1>1, <1>2 DEF c

LEMMA EndPipelineInv ==
  ASSUME Inv, EndPipeline
  PROVE  Inv'
<1>0. k # <<>>
  BY DEF EndPipeline, Receiving
<1>1. /\ sh \in Shell /\ Top \in ActivationType /\ ret \in Result
      /\ Ready(Top) /\ Top.busy = "run" /\ ret.kind = "ok" /\ Len(k) \in Nat \ {0}
      /\ Top.op \notin {"simple", "completion", "pipe"}
      /\ ret.flow = "return" => Target(k, Len(k))
  BY <1>0, TopFacts DEF Inv, Fits, EndPipeline, Receiving, Lists, Programs, Compounds
<1>2. PICK r \in {ret} \cup IF Top.quiet THEN {Inverted(ret)} ELSE {} :
        LET after == [sh EXCEPT !.status = r.code]
        IN IF r.code # 0 /\ ~Top.quiet /\ Delivered(after, "ERR")
           THEN /\ k' = Append(With([Top EXCEPT !.busy = "errtrap", !.res = r]),
                               [OnTrap("ERR", Top.quiet) EXCEPT !.st = r.code])
                /\ sh' = EnterTrap(after, "ERR")
           ELSE /\ k' = With(Settled(Top, Errexit(sh, Top.quiet, r)))
                /\ sh' = after
  BY DEF EndPipeline
<1>3. r \in Result /\ r.code \in {0, 1}
  BY <1>1, ResultOps
<1>30. r.kind = "ok" /\ r.flow = ret.flow
  BY <1>1, FlowOps
<1>4. ret' \in Result /\ ret' = NoRet /\ UNCHANGED <<mode, stage>>
  BY ResultTypes DEF EndPipeline
<1> DEFINE after == [sh EXCEPT !.status = r.code]
<1>5. after \in Shell /\ Stacks(after) = Stacks(sh)
  BY <1>1, <1>3, StatusOnly
<1>6. CASE r.code # 0 /\ ~Top.quiet /\ Delivered(after, "ERR")
  <2> DEFINE a == [Top EXCEPT !.busy = "errtrap", !.res = r]
             d == OnTrap("ERR", Top.quiet)
             c == [d EXCEPT !.st = r.code]
  <2>1. k' = Append(With(a), c) /\ sh' = EnterTrap(after, "ERR")
    BY <1>2, <1>6
  <2>2. /\ a \in ActivationType /\ Kept(a, Top) /\ Top.quiet = FALSE
        /\ a.op = Top.op /\ a.busy = "errtrap" /\ a.quiet = Top.quiet
        /\ a.res = r /\ a.sup = Top.sup
    BY <1>1, <1>3, <1>6 DEF ActivationType, Kept
  <2>20. ~Top.sup
    BY <1>1, <2>2 DEF Ready
  <2>21. Ready(a)
    BY <1>1, <1>30, <2>2, <2>20 DEF Ready
  <2>3. "ERR" \in Signals /\ "ERR" \notin after.active /\ after.blocks = 0
    BY <1>5, <1>6 DEF Delivered, Shell
  <2>4. /\ d \in ActivationType /\ d.op = "trap" /\ d.sig = "ERR"
        /\ d.entry = Stacks(sh) /\ d.sup = FALSE /\ d.res.flow = "normal"
        /\ Ready(d)
    <3> HIDE DEF a, after, d
    <3>1. sh \in Shell /\ FALSE \in BOOLEAN /\ "ERR" \in Signals
      BY <1>1, <2>3
    <3>2. d = OnTrap("ERR", FALSE)
      BY <2>2 DEF d
    <3> QED
      BY <3>1, <3>2, TrapTypes
  <2> HIDE DEF a, d, after
  <2>5. /\ c \in ActivationType /\ c.op = "trap" /\ c.sig = "ERR"
        /\ c.entry = Stacks(sh) /\ c.sup = FALSE /\ c.res.flow = "normal"
        /\ Ready(c)
    BY <1>3, <2>4 DEF ActivationType, Ready
  <2>6. sh' \in Shell /\ Stacks(sh') = EnterTrap(Stacks(after), "ERR")
    BY <1>5, <2>1, <2>3, EnteringTrap
  <2> HIDE DEF c
  <2>7. "ERR" \notin Stacks(sh).active /\ Stacks(sh).blocks = 0
    BY <1>5, <2>3 DEF Stacks
  <2>8. Placed(c, Len(k) + 1) /\ Stacks(sh') = Within(c)
    BY <1>5, <2>3, <2>5, <2>6, <2>7 DEF Placed, Within
  <2>9. Passes(a, c)
    BY <2>2, <2>20 DEF Passes
  <2>10. a.res.flow = "return" => Target(k, Len(k))
    BY <1>1, <1>30, <2>2
  <2> QED
    BY <1>0, <1>4, <2>1, <2>2, <2>21, <2>5, <2>6, <2>8, <2>9, <2>10, PushStep
<1>7. CASE ~(r.code # 0 /\ ~Top.quiet /\ Delivered(after, "ERR"))
  <2> DEFINE a == Settled(Top, Errexit(sh, Top.quiet, r))
  <2>1. k' = With(a) /\ sh' = after
    BY <1>2, <1>7
  <2>3. /\ Errexit(sh, Top.quiet, r) \in Result /\ Errexit(sh, Top.quiet, r).kind = "ok"
        /\ Errexit(sh, Top.quiet, r).flow = "return" => ret.flow = "return"
    BY <1>1, <1>3, <1>30, ErrexitType, FlowErrexit
  <2>2. /\ a \in ActivationType /\ Kept(a, Top) /\ Ready(a)
        /\ a.res.flow = "return" => Target(k, Len(k))
    BY <1>1, <2>3, SettledType
  <2> HIDE DEF a
  <2> QED
    BY <1>0, <1>4, <1>5, <2>1, <2>2, SameStep, PlainFlows
<1> QED
  BY <1>6, <1>7

LEMMA EndTrapInv ==
  ASSUME Inv, EndTrap
  PROVE  Inv'
<1>0. k # <<>> /\ Top.op = "trap"
  BY DEF EndTrap, Idle
<1>1. /\ sh \in Shell /\ Top \in ActivationType /\ ret \in Result
      /\ k \in Seq(ActivationType) /\ Len(k) \in Nat \ {0}
      /\ Top.entry \in StackType /\ Stacks(sh) = EnterTrap(Top.entry, Top.sig)
      /\ Top.sig \in Signals /\ Top.sig \notin Top.entry.active
      /\ Top.st \in {0, 1} /\ ret = NoRet
  BY <1>0, TopFacts DEF Inv, Within, Placed, ActivationType, EndTrap, Idle
<1> DEFINE after == LeaveTrap(sh, Top.sig, Top.st)
<1>2. after \in Shell /\ Stacks(after) = Top.entry
  BY <1>1, LeavingTrap
<1>3. sh' = after /\ UNCHANGED <<mode, stage, ret>>
  BY DEF EndTrap
<1>4. Sound(Pop(k), after, Base)
  BY <1>0, <1>2, Popped DEF Inv, Top
<1>5. /\ Pop(k) \in Seq(ActivationType) /\ Len(Pop(k)) = Len(k) - 1
      /\ \A i \in 1..(Len(k) - 1) : Pop(k)[i] = k[i]
  BY <1>0, <1>1, PopProperties
<1>6. CASE Len(k) = 1
  <2>1. Pop(k) = <<>> /\ k' = <<>>
    BY <1>5, <1>6, EmptySeq DEF EndTrap
  <2> QED
    BY <1>1, <1>3, <1>4, <2>1, BaseKept DEF Inv, Fits, NoRet
<1>7. CASE Len(k) # 1
  <2> DEFINE p == k[Len(k) - 1]
             a == IF p.op = "simple" THEN [p EXCEPT !.phase = "run", !.busy = "idle"]
                  ELSE Settled(p, Errexit(after, p.quiet, p.res))
  <2>1. k' = [Pop(k) EXCEPT ![Len(k) - 1] = a]
    BY <1>7 DEF EndTrap
  <2>2. Len(k) - 1 \in 1..Len(k) /\ Len(k) - 1 \in 1..(Len(k) - 1)
    <3>1. Len(k) \in Nat \ {0} /\ Len(k) # 1
      BY <1>1, <1>7
    <3> QED
      BY <3>1, SMT
  <2>3. p \in ActivationType /\ p = Pop(k)[Len(Pop(k))] /\ Pop(k) # <<>>
    BY <1>1, <1>5, <2>2, ElementOfSeq, EmptySeq
  <2>30. /\ Ready(p)
         /\ p.res.flow = "return" => Target(Pop(k), Len(Pop(k)))
    BY <1>4, <1>5, <2>2 DEF Sound
  <2> HIDE DEF p, after
  <2>4. /\ a \in ActivationType /\ Kept(a, p) /\ Ready(a)
        /\ a.res.flow = "return" => p.res.flow = "return"
    <3>1. CASE p.op = "simple"
      <4> DEFINE q == [p EXCEPT !.phase = "run", !.busy = "idle"]
      <4>1. /\ q \in ActivationType /\ Kept(q, p) /\ q.res = p.res
            /\ q.op = p.op /\ q.quiet = p.quiet /\ q.busy = "idle"
        BY <2>3 DEF ActivationType, Kept, Phases
      <4>2. a = q
        BY <3>1
      <4> HIDE DEF q, a
      <4>3. Ready(q)
        BY <4>1, <2>30 DEF Ready
      <4> QED
        BY <4>1, <4>2, <4>3
    <3>2. CASE p.op # "simple"
      <4> DEFINE r == Errexit(after, p.quiet, p.res)
      <4>1. p.res \in Result /\ p.res.kind = "ok"
        BY <2>3, <2>30 DEF ActivationType, Ready
      <4>2. /\ r \in Result /\ r.kind = "ok"
            /\ r.flow = "return" => p.res.flow = "return"
        BY <4>1, ErrexitType, FlowErrexit
      <4>3. p.op \in {"simple", "completion", "pipe"} => r = Ok(0)
        <5>1. Ok(0).code = 0
          BY DEF Ok
        <5> QED
          BY <2>30, <5>1 DEF Ready, Errexit
      <4>4. a = Settled(p, r)
        BY <3>2
      <4> HIDE DEF r, a
      <4> QED
        BY <2>3, <4>2, <4>3, <4>4, SettledType
    <3> QED
      BY <3>1, <3>2
  <2> HIDE DEF a
  <2>5. Sound([Pop(k) EXCEPT ![Len(Pop(k))] = a], after, Base)
    BY <1>2, <1>4, <2>3, <2>30, <2>4, Same
  <2>6. Len([Pop(k) EXCEPT ![Len(Pop(k))] = a]) = Len(Pop(k)) /\ Len(Pop(k)) \in Nat \ {0}
    BY <1>1, <1>5, <2>2, <2>4, ExceptSeq
  <2>7. k' # <<>>
    BY <1>5, <2>1, <2>6, EmptySeq
  <2> QED
    BY <1>1, <1>3, <1>5, <2>1, <2>5, <2>7, BaseKept DEF Inv, Fits, NoRet
<1> QED
  BY <1>6, <1>7

(* The list of a subshell ends, or an error does: its shell is dropped. *)
LEMMA HomeFacts ==
  ASSUME Inv, k # <<>>, Top.op \in {"subshell", "pipe"}
  PROVE  /\ Top.home \in Shell /\ Stacks(Top.home) = Top.entry
         /\ Cloned(Top.home) \in Shell /\ Stacks(Cloned(Top.home)) = Stacks(sh)
<1>1. Top.home \in Shell /\ Stacks(Top.home) = Top.entry
      /\ Stacks(sh) = Cloned(Top.entry)
  BY TopFacts DEF Placed, Within, ActivationType
<1> QED
  BY <1>1, Cloning

(* An activation that forgets its result is as ready as it was. *)
LEMMA KeepsReady ==
  ASSUME NEW a, NEW c, Ready(c), Kept(a, c), a.res = Ok(0),
         a.busy = c.busy, a.quiet = c.quiet
  PROVE  Ready(a)
  BY PlainFlows DEF Ready, Kept

LEMMA EndInv ==
  ASSUME Inv, End
  PROVE  Inv'
<1>0. k # <<>>
  BY DEF End, EndPipeline, EndTrap, CatchError, PassError, EndFunction, EndEval,
         EndSource, EndSubshell, EndElement, EndIf, EndWhile, EndFor, Idle,
         Receiving
<1>00. /\ sh \in Shell /\ Top \in ActivationType /\ ret \in Result
       /\ Top.entry \in StackType /\ Top.res \in Result
       /\ Top.res.code \in {0, 1} /\ ret.code \in {0, 1}
       /\ Top.st \in {0, 1} /\ Stacks(sh) = Within(Top)
  <2>1. /\ sh \in Shell /\ Top \in ActivationType /\ ret \in Result
        /\ Top.entry \in StackType /\ Stacks(sh) = Within(Top)
    BY <1>0, TopFacts DEF Inv
  <2>2. Top.res \in Result /\ Top.st \in {0, 1}
    BY <2>1 DEF ActivationType
  <2> QED
    BY <2>1, <2>2, ResultOps
<1>01. /\ Ready(Top) /\ Top.res.kind = "ok" /\ Len(k) \in Nat \ {0}
       /\ Top.res.flow = "return" => Target(k, Len(k))
       /\ ret.flow = "return" => Target(k, Len(k))
       /\ ret.kind = "err" => ret.flow \in {"normal", "exit"}
  BY <1>0, TopFacts DEF Inv, Fits, Ready
<1>1. CASE EndPipeline
  BY <1>1, EndPipelineInv
<1>2. CASE EndTrap
  BY <1>2, EndTrapInv
<1>3. CASE CatchError
  <2> DEFINE a == Settled(Top, IntoResult(ret))
             t == [sh EXCEPT !.status = ret.code]
  <2>1. k' = With(a) /\ sh' = t /\ ret' = NoRet /\ UNCHANGED <<mode, stage>>
    BY <1>3 DEF CatchError
  <2>2. /\ a \in ActivationType /\ Kept(a, Top) /\ Ready(a)
        /\ a.res.flow # "return"
    <3>1. ret.kind = "err" /\ Top.op \notin {"simple", "completion", "pipe"}
      BY <1>3 DEF CatchError, Receiving, Programs
    <3>2. /\ IntoResult(ret) \in Result /\ IntoResult(ret).kind = "ok"
          /\ IntoResult(ret).flow # "return"
      BY <1>00, <1>01, <3>1, ResultOps, FlowOps
    <3> QED
      BY <1>00, <3>1, <3>2, SettledType
  <2>3. t \in Shell /\ Stacks(t) = Stacks(sh)
    BY <1>00, StatusOnly
  <2> QED
    BY <1>0, <2>1, <2>2, <2>3, SameStep, ResultTypes, PlainFlows
<1>4. CASE PassError
  <2>0. ret.flow # "return" /\ Top.op \notin {"top", "completion", "trap"}
        /\ ret.kind = "err"
    BY <1>01, <1>4 DEF PassError, Receiving, Compounds
  <2>1. CASE Top.op = "subshell"
    <3>1. GiveBack(Ok(ret.code), Top.home)
      BY <1>4, <2>1 DEF PassError
    <3> QED
      BY <1>0, <1>00, <2>1, <3>1, HomeFacts, PopStep, ResultTypes, PlainFlows
  <2>2. CASE Top.op = "function"
    <3>1. GiveBack(ret, LeaveFunction(sh))
      BY <1>4, <2>2 DEF PassError
    <3>2. Stacks(sh) = EnterFunction(Top.entry)
      BY <1>00, <2>2 DEF Within
    <3> QED
      BY <1>0, <1>00, <1>01, <2>0, <3>1, <3>2, LeavingFunction, PopStep
  <2>3. CASE Top.op \notin {"subshell", "function"}
    <3>1. GiveBack(ret, sh) /\ Top.op \in Compounds
      BY <1>4, <2>3 DEF PassError, Receiving
    <3>2. Stacks(sh) = Top.entry
      BY <1>00, <3>1 DEF Within, Compounds
    <3> QED
      BY <1>0, <1>00, <1>01, <2>0, <3>1, <3>2, PopStep
  <2> QED
    BY <2>1, <2>2, <2>3
<1>5. CASE EndFunction
  <2>1. Stacks(sh) = EnterFunction(Top.entry)
    BY <1>00, <1>5 DEF EndFunction, Idle, Within
  <2> DEFINE r == IF IsLoopFlow(Top.res) THEN Err(FALSE) ELSE Returned(Top.res)
  <2>2. GiveBack(r, LeaveFunction(sh)) /\ Top.op = "function"
    BY <1>5 DEF EndFunction, Idle
  <2>3. /\ r \in Result /\ r.flow # "return"
        /\ r.kind = "err" => r.flow \in {"normal", "exit"}
    <3>1. CASE IsLoopFlow(Top.res)
      BY <3>1, ResultTypes, PlainFlows
    <3>2. CASE ~IsLoopFlow(Top.res)
      BY <1>00, <1>01, <3>2, Returns
    <3> QED
      BY <3>1, <3>2
  <2> HIDE DEF r
  <2> QED
    BY <1>0, <1>00, <2>1, <2>2, <2>3, LeavingFunction, PopStep
<1>6. CASE EndEval
  <2>1. Stacks(sh) = Top.entry /\ Top.op = "eval"
    BY <1>00, <1>6 DEF EndEval, Idle, Within
  <2>2. Top.res.flow = "return" => Target(k, Len(k) - 1)
    BY <1>0, <1>01, <2>1, TargetBelow
  <2> QED
    BY <1>0, <1>00, <1>01, <1>6, <2>1, <2>2, PopStep DEF EndEval
<1>7. CASE EndSource
  <2>1. Stacks(sh) = EnterSource(Top.entry) /\ Top.op = "source"
    BY <1>00, <1>7 DEF EndSource, Idle, Within
  <2> DEFINE r == Returned(Top.res)
  <2>2. r \in Result /\ r.flow # "return" /\ r.kind = "ok"
    BY <1>00, <1>01, Returns
  <2>3. GiveBack(r, LeaveSource(sh))
    BY <1>7 DEF EndSource
  <2> HIDE DEF r
  <2> QED
    BY <1>0, <1>00, <2>1, <2>2, <2>3, LeavingSource, PopStep
<1>8. CASE EndSubshell
  <2>1. Top.op = "subshell" /\ GiveBack(Ok(Top.res.code), Top.home)
    BY <1>8 DEF EndSubshell, Idle
  <2> QED
    BY <1>0, <1>00, <2>1, HomeFacts, ResultTypes, PlainFlows, PopStep
<1>9. CASE EndElement
  <2>1. Top.op = "pipe"
    BY <1>9 DEF EndElement, Receiving
  <2>2. CASE ret.kind = "ok" /\ Top.phase = "first"
    <3>1. PICK phase \in {"first", "last"} :
            k' = With([Top EXCEPT !.phase = phase, !.busy = "idle"])
      BY <1>9, <2>2 DEF EndElement
    <3>2. sh' = Cloned(Top.home) /\ ret' = NoRet /\ UNCHANGED <<mode, stage>>
      BY <1>9, <2>2 DEF EndElement
    <3> DEFINE a == [Top EXCEPT !.phase = phase, !.busy = "idle"]
    <3>3. /\ a \in ActivationType /\ Kept(a, Top) /\ a.res = Top.res
          /\ a.op = Top.op /\ a.busy = "idle" /\ a.quiet = Top.quiet
      BY <1>00 DEF ActivationType, Kept, Phases
    <3>6. Ready(a) /\ a.res.flow = "normal"
      BY <1>01, <2>1, <3>3, PlainFlows DEF Ready
    <3>4. sh' \in Shell /\ Stacks(sh') = Stacks(sh)
      BY <1>0, <2>1, <3>2, HomeFacts
    <3> HIDE DEF a
    <3>5. k' = With(a)
      BY <3>1 DEF a
    <3> QED
      BY <1>0, <3>2, <3>3, <3>4, <3>5, <3>6, SameStep, ResultTypes, PlainFlows
  <2>3. CASE ~(ret.kind = "ok" /\ Top.phase = "first")
    <3>1. GiveBack(ret, Top.home)
      BY <1>9, <2>3 DEF EndElement
    <3>2. ret.flow = "return" => Target(k, Len(k) - 1)
      BY <1>0, <1>01, <2>1, TargetBelow
    <3> QED
      BY <1>0, <1>00, <1>01, <2>1, <3>1, <3>2, HomeFacts, PopStep
  <2> QED
    BY <2>2, <2>3
<1>10. CASE EndIf
  <2>1. Stacks(sh) = Top.entry /\ Top.op = "if" /\ ret = NoRet
    BY <1>00, <1>10 DEF EndIf, Idle, Within
  <2>10. Top.res.flow = "return" => Target(k, Len(k) - 1)
    BY <1>0, <1>01, <2>1, TargetBelow
  <2>2. CASE GiveBack(Top.res, sh)
    BY <1>0, <1>00, <1>01, <2>1, <2>10, <2>2, PopStep
  <2>3. CASE GiveBack(Ok(0), [sh EXCEPT !.status = 0])
    BY <1>0, <1>00, <2>1, <2>3, StatusOnly, ResultTypes, PlainFlows, PopStep
  <2>4. CASE /\ \E phase \in {"body", "cond"} :
                  k' = With([Top EXCEPT !.phase = phase, !.res = Ok(0)])
             /\ UNCHANGED <<mode, stage, sh, ret>>
    <3>1. PICK phase \in {"body", "cond"} :
            k' = With([Top EXCEPT !.phase = phase, !.res = Ok(0)])
      BY <2>4
    <3> DEFINE a == [Top EXCEPT !.phase = phase, !.res = Ok(0)]
    <3>2. /\ a \in ActivationType /\ Kept(a, Top) /\ a.res = Ok(0)
          /\ a.op = Top.op /\ a.busy = Top.busy /\ a.quiet = Top.quiet
      BY <1>00, ResultTypes DEF ActivationType, Kept, Phases
    <3> HIDE DEF a
    <3>3. Ready(a) /\ a.res.flow = "normal"
      BY <1>00, <1>01, <3>2, PlainFlows, KeepsReady
    <3>4. k' = With(a)
      BY <3>1 DEF a
    <3> QED
      BY <1>0, <1>00, <2>1, <2>4, <3>2, <3>3, <3>4, SameStep, PlainFlows
  <2> QED
    BY <1>10, <2>2, <2>3, <2>4 DEF EndIf
<1>11. CASE EndWhile
  <2>1. Stacks(sh) = Top.entry /\ Top.op = "while" /\ ret = NoRet
    BY <1>00, <1>11 DEF EndWhile, Idle, Within
  <2>10. Top.res.flow = "return" => Target(k, Len(k) - 1)
    BY <1>0, <1>01, <2>1, TargetBelow
  <2>2. ASSUME NEW r \in Result, GiveBack(r, [sh EXCEPT !.status = r.code]),
               r.kind = "ok", r.flow = "return" => Target(k, Len(k) - 1)
        PROVE  Inv'
    BY <1>0, <1>00, <2>1, <2>2, StatusOnly, ResultOps, PopStep
  <2>3. ASSUME NEW phase \in {"body", "cond"}, NEW st \in {0, 1},
               k' = With([Top EXCEPT !.phase = phase, !.st = st, !.res = Ok(0)]),
               sh' = [sh EXCEPT !.status = Top.res.code],
               UNCHANGED <<mode, stage, ret>>
        PROVE  Inv'
    <3> DEFINE a == [Top EXCEPT !.phase = phase, !.st = st, !.res = Ok(0)]
    <3>1. /\ a \in ActivationType /\ Kept(a, Top) /\ a.res = Ok(0)
          /\ a.op = Top.op /\ a.busy = Top.busy /\ a.quiet = Top.quiet
      BY <1>00, ResultTypes DEF ActivationType, Kept, Phases
    <3>2. sh' \in Shell /\ Stacks(sh') = Stacks(sh)
      BY <1>00, <2>3, StatusOnly
    <3> HIDE DEF a
    <3>3. Ready(a) /\ a.res.flow = "normal"
      BY <1>00, <1>01, <3>1, PlainFlows, KeepsReady
    <3>4. k' = With(a)
      BY <2>3 DEF a
    <3> QED
      BY <1>0, <1>00, <2>1, <2>3, <3>1, <3>2, <3>3, <3>4, SameStep, PlainFlows
  <2>4. /\ Decrement(Top.res) \in Result /\ Ok(Top.st) \in Result
        /\ Decrement(Top.res).kind = "ok" /\ Ok(Top.st).kind = "ok"
        /\ Decrement(Top.res).flow = "return" => Target(k, Len(k) - 1)
        /\ Ok(Top.st).flow = "normal"
    <3>1. /\ Decrement(Top.res) \in Result /\ Decrement(Top.res).kind = "ok"
          /\ Decrement(Top.res).flow = "return" => Target(k, Len(k) - 1)
      BY <1>00, <1>01, <2>10, Decrements
    <3>2. Ok(Top.st) \in Result /\ Ok(Top.st).kind = "ok" /\ Ok(Top.st).flow = "normal"
      BY <1>00, ResultTypes, PlainFlows
    <3> QED
      BY <3>1, <3>2
  <2> QED
    BY <1>00, <1>11, <2>2, <2>3, <2>4 DEF EndWhile
<1>12. CASE EndFor
  <2>1. Stacks(sh) = Top.entry /\ Top.op = "for" /\ ret = NoRet
    BY <1>00, <1>12 DEF EndFor, Idle, Within
  <2>10. Top.res.flow = "return" => Target(k, Len(k) - 1)
    BY <1>0, <1>01, <2>1, TargetBelow
  <2>2. CASE GiveBack(Decrement(Top.res), [sh EXCEPT !.status = Top.res.code])
    <3> DEFINE r == Decrement(Top.res)
    <3>1. /\ r \in Result /\ r.kind = "ok"
          /\ r.flow = "return" => Target(k, Len(k) - 1)
      BY <1>00, <1>01, <2>10, Decrements
    <3>2. GiveBack(r, [sh EXCEPT !.status = Top.res.code])
      BY <2>2
    <3> HIDE DEF r
    <3> QED
      BY <1>0, <1>00, <2>1, <3>1, <3>2, StatusOnly, PopStep
  <2>3. CASE k' = With([Top EXCEPT !.res = Ok(0)])
             /\ UNCHANGED <<mode, stage, sh, ret>>
    <3> DEFINE a == [Top EXCEPT !.res = Ok(0)]
    <3>1. /\ a \in ActivationType /\ Kept(a, Top) /\ a.res = Ok(0)
          /\ a.op = Top.op /\ a.busy = Top.busy /\ a.quiet = Top.quiet
      BY <1>00, ResultTypes DEF ActivationType, Kept
    <3> HIDE DEF a
    <3>3. Ready(a) /\ a.res.flow = "normal"
      BY <1>00, <1>01, <3>1, PlainFlows, KeepsReady
    <3>4. k' = With(a)
      BY <2>3 DEF a
    <3> QED
      BY <1>0, <1>00, <2>1, <2>3, <3>1, <3>3, <3>4, SameStep, PlainFlows
  <2>4. CASE GiveBack(Err(FALSE), sh)
    BY <1>0, <1>00, <2>1, <2>4, ResultTypes, PlainFlows, PopStep
  <2> QED
    BY <1>12, <2>2, <2>3, <2>4 DEF EndFor
<1> QED
  BY <1>1, <1>2, <1>3, <1>4, <1>5, <1>6, <1>7, <1>8, <1>9, <1>10, <1>11, <1>12
     DEF End

LEMMA InvNext == Inv /\ [Next]_vars => Inv'
<1> SUFFICES ASSUME Inv, [Next]_vars PROVE Inv'
  OBVIOUS
<1>1. CASE Next
  BY <1>1, SessionInv, StartInv, SimpleInv, EndInv DEF Next
<1>2. CASE UNCHANGED vars
  BY <1>2, BaseKept DEF vars, Inv
<1> QED
  BY <1>1, <1>2

(* Inv is an invariant. *)
THEOREM InvHolds == Spec => []Inv
  BY InvInit, InvNext, PTL DEF Spec

(* The types hold: no step decrements a count of calls, loops or blocks    *)
(* below zero, whatever the program does.                                  *)
THEOREM TypeCorrect == Spec => []TypeOK
  BY InvHolds, InvImplies, PTL

(* The call stack, the active signals, the blocks and the scopes are those *)
(* of the activations in progress, whatever the program does and however   *)
(* deep it nests.                                                          *)
THEOREM StacksBalanced == Spec => []Balanced
  BY InvHolds, InvImplies, PTL

---------------------------------------------------------------------------
(* What the activations in between say of two of them *)

LEMMA WithinFacts ==
  ASSUME NEW a \in ActivationType
  PROVE  /\ a.op \notin {"subshell", "pipe"} => a.entry.active \subseteq Within(a).active
         /\ a.op = "trap" => a.sig \in Within(a).active
         /\ a.entry.blocks \in Nat /\ Within(a).blocks \in Nat
         /\ a.entry.blocks > 0 \/ a.op = "completion" => Within(a).blocks > 0
<1>1. a.entry \in [frames : Seq(FrameTypes), calls : Nat, active : SUBSET Signals,
                  blocks : Nat, scopes : Seq(ScopeTypes), level : Nat]
  BY DEF ActivationType, StackType
<1>2. CASE a.op = "trap"
  <2>1. Within(a).active = a.entry.active \cup {a.sig}
        /\ Within(a).blocks = a.entry.blocks
    BY <1>1, <1>2 DEF Within, EnterTrap
  <2> QED
    BY <1>1, <1>2, <2>1
<1>3. CASE a.op = "completion"
  <2>1. Within(a).active = a.entry.active /\ Within(a).blocks = a.entry.blocks + 1
    BY <1>1, <1>3 DEF Within
  <2> QED
    BY <1>1, <1>3, <2>1
<1>4. CASE a.op \in {"subshell", "pipe"}
  <2>1. Within(a).blocks = a.entry.blocks
    BY <1>1, <1>4 DEF Within, Cloned
  <2> QED
    BY <1>1, <1>4, <2>1
<1>5. CASE a.op \notin {"trap", "completion", "subshell", "pipe"}
  <2>1. Within(a).active = a.entry.active /\ Within(a).blocks = a.entry.blocks
    BY <1>1, <1>5 DEF Within, EnterFunction, EnterSource, EnterCommand
  <2> QED
    BY <1>1, <1>5, <2>1
<1> QED
  BY <1>2, <1>3, <1>4, <1>5

LEMMA StackFacts ==
  ASSUME Inv
  PROVE  /\ k \in Seq(ActivationType) /\ Len(k) \in Nat /\ DOMAIN k = 1..Len(k)
         /\ \A i \in 1..Len(k) :
              k[i] \in ActivationType /\ Placed(k[i], i) /\ Ready(k[i])
         /\ \A i \in 1..(Len(k) - 1) :
              k[i + 1].entry = Within(k[i]) /\ Passes(k[i], k[i + 1])
<1>1. k \in Seq(ActivationType) /\ Len(k) \in Nat /\ DOMAIN k = 1..Len(k)
  BY DEF Inv, Sound
<1>2. \A i \in 1..Len(k) : k[i] \in ActivationType
  BY <1>1, ElementOfSeq
<1> QED
  BY <1>1, <1>2 DEF Inv, Sound

(* A signal that is active stays so until a shell is cloned. *)
LEMMA ActiveAbove ==
  ASSUME Inv, NEW i \in 1..Len(k), NEW j \in 1..Len(k), i < j, k[i].op = "trap",
         \A c \in (i + 1)..(j - 1) : k[c].op \notin {"subshell", "pipe"}
  PROVE  k[i].sig \in k[j].entry.active
<1> DEFINE T == {n \in Nat : k[i].sig \in Within(k[n]).active}
<1>1. i \in T
  BY StackFacts, WithinFacts
<1>2. ASSUME NEW n \in i..((j - 1) - 1), n \in T PROVE n + 1 \in T
  <2>1. n + 1 \in 1..Len(k) /\ n \in 1..(Len(k) - 1) /\ n + 1 \in (i + 1)..(j - 1)
    BY StackFacts
  <2>2. k[n + 1].entry.active \subseteq Within(k[n + 1]).active
    BY <2>1, StackFacts, WithinFacts
  <2> QED
    BY <1>2, <2>1, <2>2, StackFacts
<1>3. j - 1 \in T
  <2>1. i \in Nat /\ j - 1 \in Nat /\ j - 1 \in i..(j - 1)
    BY StackFacts
  <2>2. \A n \in i..((j - 1) - 1) : n \in T => n + 1 \in T
    BY <1>2
  <2> HIDE DEF T
  <2> QED
    BY <1>1, <2>1, <2>2, Along
<1>4. j - 1 \in 1..(Len(k) - 1) /\ (j - 1) + 1 = j
  BY StackFacts
<1>5. k[j].entry = Within(k[j - 1])
  BY <1>4, StackFacts
<1> QED
  BY <1>3, <1>5

LEMMA SelfNesting == Inv => NoSelfNesting
<1> SUFFICES ASSUME Inv, NEW i \in DOMAIN k, NEW j \in DOMAIN k, i < j,
                    k[i].op = "trap", k[j].op = "trap", k[i].sig = k[j].sig,
                    \A c \in (i + 1)..(j - 1) : k[c].op \notin {"subshell", "pipe"}
             PROVE  FALSE
  BY DEF NoSelfNesting
<1>1. i \in 1..Len(k) /\ j \in 1..Len(k)
  BY StackFacts
<1>2. k[i].sig \in k[j].entry.active
  BY <1>1, ActiveAbove
<1>3. Placed(k[j], j)
  BY <1>1, StackFacts
<1> QED
  BY <1>2, <1>3 DEF Placed

(* Delivery is blocked for all that a completion function runs. *)
LEMMA BlockedAbove ==
  ASSUME Inv, k # <<>>, k[1].op = "completion", NEW j \in 2..Len(k)
  PROVE  k[j].entry.blocks > 0
<1> DEFINE T == {n \in Nat : Within(k[n]).blocks > 0}
<1>1. Len(k) \in Nat \ {0} /\ 1 \in 1..Len(k)
  BY StackFacts, EmptySeq
<1>2. 1 \in T
  BY <1>1, StackFacts, WithinFacts
<1>3. ASSUME NEW n \in 1..((j - 1) - 1), n \in T PROVE n + 1 \in T
  <2>1. n + 1 \in 1..Len(k) /\ n \in 1..(Len(k) - 1)
    BY StackFacts
  <2>2. k[n + 1].entry.blocks > 0
    BY <1>3, <2>1, StackFacts
  <2> QED
    BY <2>1, <2>2, StackFacts, WithinFacts
<1>4. j - 1 \in T
  <2>1. 1 \in Nat /\ j - 1 \in Nat /\ j - 1 \in 1..(j - 1)
    BY <1>1
  <2>2. \A n \in 1..((j - 1) - 1) : n \in T => n + 1 \in T
    BY <1>3
  <2> HIDE DEF T
  <2> QED
    BY <1>2, <2>1, <2>2, Along
<1>5. j - 1 \in 1..(Len(k) - 1) /\ (j - 1) + 1 = j
  BY <1>1
<1>6. k[j].entry = Within(k[j - 1])
  BY <1>5, StackFacts
<1> QED
  BY <1>4, <1>6

LEMMA CompletionTraps == Inv => NoTrapInCompletion
<1> SUFFICES ASSUME Inv, NEW i \in DOMAIN k, NEW j \in DOMAIN k,
                    k[i].op = "completion", k[j].op = "trap"
             PROVE  FALSE
  BY DEF NoTrapInCompletion
<1>1. i \in 1..Len(k) /\ j \in 1..Len(k) /\ Placed(k[i], i) /\ Placed(k[j], j)
  BY StackFacts
<1>2. i = 1 /\ k[j].entry.blocks = 0 /\ k # <<>>
  BY <1>1, EmptySeq DEF Placed
<1>3. j \in 2..Len(k)
  BY <1>1, <1>2
<1> QED
  BY <1>2, <1>3, BlockedAbove

(* What is quiet hands that down to all that it runs. *)
LEMMA QuietAbove ==
  ASSUME Inv, NEW i \in 1..Len(k), NEW j \in 1..Len(k), i < j,
         k[i].busy = "run", k[i].quiet
  PROVE  k[j].sup
<1> DEFINE T == {n \in Nat : k[n].sup}
<1>1. i + 1 \in T
  <2>1. i \in 1..(Len(k) - 1)
    BY StackFacts
  <2> QED
    BY <2>1, StackFacts DEF Passes
<1>2. ASSUME NEW n \in (i + 1)..(j - 1), n \in T PROVE n + 1 \in T
  <2>1. n \in 1..(Len(k) - 1)
    BY StackFacts
  <2> QED
    BY <1>2, <2>1, StackFacts DEF Passes
<1>3. i + 1 \in Nat /\ j \in Nat /\ j \in (i + 1)..j
  BY StackFacts
<1>4. \A n \in (i + 1)..(j - 1) : n \in T => n + 1 \in T
  BY <1>2
<1>5. j \in T
  <2> HIDE DEF T
  <2> QED
    BY <1>1, <1>3, <1>4, Along
<1> QED
  BY <1>5

LEMMA QuietTraps == Inv => QuietStaysQuiet
<1> SUFFICES ASSUME Inv, NEW i \in DOMAIN k, NEW j \in DOMAIN k, i < j,
                    k[i].busy = "run", k[i].quiet, k[j].op = "trap", k[j].sig = "ERR"
             PROVE  FALSE
  BY DEF QuietStaysQuiet
<1>1. i \in 1..Len(k) /\ j \in 1..Len(k) /\ Placed(k[j], j)
  BY StackFacts
<1>2. k[j].sup
  BY <1>1, QuietAbove
<1> QED
  BY <1>1, <1>2 DEF Placed

LEMMA ReturnTargets == Inv => ReturnHasTarget
<1> SUFFICES ASSUME Inv PROVE ReturnHasTarget
  OBVIOUS
<1>1. DOMAIN k = 1..Len(k)
  BY StackFacts
<1> QED
  BY <1>1 DEF Inv, Sound, Fits, Target, ReturnHasTarget

(* No trap runs inside its own handler, whatever is between the two, unless *)
(* a shell is cloned there (invoke_trap_handler, active_trap_signals).     *)
THEOREM NeverNested == Spec => []NoSelfNesting
  BY InvHolds, SelfNesting, PTL

(* No trap runs while a completion function does, however deep the commands *)
(* it runs nest and in whatever shells (block_trap_delivery).              *)
THEOREM CompletionUntrapped == Spec => []NoTrapInCompletion
  BY InvHolds, CompletionTraps, PTL

(* The ERR trap never runs inside a quiet pipeline, at any depth below it   *)
(* (suppress_errexit).                                                     *)
THEOREM QuietKept == Spec => []QuietStaysQuiet
  BY InvHolds, QuietTraps, PTL

(* A request to return always has a function or a script below it to end    *)
(* (the return builtin, in_function, in_sourced_script).                   *)
THEOREM ReturnAnswered == Spec => []ReturnHasTarget
  BY InvHolds, ReturnTargets, PTL

---------------------------------------------------------------------------
(* A request to exit *)

(* The first n activations belong to the session's own shell. *)
Own(kk, n) == \A i \in 1..n : kk[i].op \notin {"trap", "subshell", "pipe", "completion"}

LEMMA PendingNow ==
  ExitPending <=> \/ ret.kind = "ok" /\ ret.flow = "exit" /\ Own(k, Len(k))
                  \/ \E i \in DOMAIN k : k[i].res.flow = "exit" /\ Own(k, i)
  BY DEF ExitPending, Own

LEMMA PendingNext ==
  ExitPending' <=> \/ ret'.kind = "ok" /\ ret'.flow = "exit" /\ Own(k', Len(k'))
                   \/ \E i \in DOMAIN k' : k'[i].res.flow = "exit" /\ Own(k', i)
  BY DEF ExitPending, Own

(* The last activation gives it back. *)
LEMMA ExitGivenBack ==
  ASSUME Inv, k # <<>>, Own(k, Len(k)), NEW r, NEW s, GiveBack(r, s),
         r.kind = "ok", r.flow = "exit"
  PROVE  ExitPending'
<1>1. /\ Len(k) \in Nat \ {0} /\ Len(Pop(k)) = Len(k) - 1
      /\ \A i \in 1..(Len(k) - 1) : Pop(k)[i] = k[i]
  BY TopFacts, PopProperties
<1>2. Own(Pop(k), Len(Pop(k)))
  BY <1>1 DEF Own
<1> QED
  BY <1>2, PendingNext DEF GiveBack

(* The steps that change the last activation, add one, or remove one leave  *)
(* the others as they are.                                                 *)
Stays(n) == /\ n \in DOMAIN k'
            /\ \A j \in 1..n : k'[j].op = k[j].op
            /\ k[n].res.flow = "exit" => k'[n].res.flow = "exit"

LEMMA LastWith ==
  ASSUME Inv, k # <<>>, NEW a, k' = With(a) \/ \E c : k' = Append(With(a), c)
  PROVE  /\ Len(k) \in DOMAIN k' /\ k'[Len(k)] = a
         /\ \A j \in 1..(Len(k) - 1) : j \in DOMAIN k' /\ k'[j] = k[j]
<1> DEFINE w == [k EXCEPT ![Len(k)] = a]
           N == Len(k)
<1>1. k \in Seq(ActivationType) /\ N \in Nat \ {0}
  BY TopFacts
<1>2. k \in Seq(ActivationType \cup {a})
  BY <1>1, SeqMonotonic
<1>3. /\ w \in Seq(ActivationType \cup {a}) /\ Len(w) = N
      /\ \A j \in 1..N : w[j] = IF j = N THEN a ELSE k[j]
  BY <1>1, <1>2, ExceptSeq
<1>4. k' = w \/ \E c : k' = Append(w, c)
  BY DEF With
<1> HIDE DEF w, N
<1>5. DOMAIN w = 1..N /\ N \in 1..N /\ \A j \in 1..(N - 1) : j \in 1..N /\ j # N
  BY <1>1, <1>3
<1>6. CASE k' = w
  BY <1>3, <1>5, <1>6 DEF N
<1>7. CASE \E c : k' = Append(w, c)
  <2>1. PICK c : k' = Append(w, c)
    BY <1>7
  <2> DEFINE S == ActivationType \cup {a} \cup {c}
  <2>2. w \in Seq(S) /\ c \in S
    BY <1>3, SeqMonotonic
  <2> HIDE DEF S
  <2>3. /\ k' \in Seq(S) /\ Len(k') = N + 1
        /\ \A j \in 1..N : k'[j] = w[j]
    BY <1>3, <2>1, <2>2, AppendProperties
  <2>4. DOMAIN k' = 1..(N + 1)
    BY <2>3
  <2>5. /\ N \in DOMAIN k' /\ k'[N] = a
        /\ \A j \in 1..(N - 1) : j \in DOMAIN k' /\ k'[j] = k[j]
    BY <1>1, <1>3, <1>5, <2>3, <2>4
  <2> QED
    BY <2>5 DEF N
<1> QED
  BY <1>4, <1>6, <1>7

LEMMA StaysWith ==
  ASSUME Inv, k # <<>>, NEW n \in 1..(Len(k) - 1), NEW a,
         k' = With(a) \/ \E c : k' = Append(With(a), c)
  PROVE  Stays(n)
<1>1. \A j \in 1..(Len(k) - 1) : j \in DOMAIN k' /\ k'[j] = k[j]
  BY LastWith
<1>2. Len(k) \in Nat /\ \A j \in 1..n : j \in 1..(Len(k) - 1)
  BY StackFacts
<1> QED
  BY <1>1, <1>2 DEF Stays

LEMMA StaysBelow ==
  ASSUME Inv, k # <<>>, NEW n \in 1..(Len(k) - 1), NEW r, NEW s, GiveBack(r, s)
  PROVE  Stays(n)
<1>1. /\ Len(k) \in Nat \ {0} /\ Len(Pop(k)) = Len(k) - 1
      /\ Pop(k) \in Seq(ActivationType)
      /\ \A i \in 1..(Len(k) - 1) : Pop(k)[i] = k[i]
  BY TopFacts, PopProperties
<1>2. DOMAIN Pop(k) = 1..(Len(k) - 1)
  BY <1>1
<1> QED
  BY <1>1, <1>2 DEF Stays, GiveBack

LEMMA Shapes ==
  ASSUME Next, k # <<>>
  PROVE  \/ \E a : k' = With(a) \/ \E c : k' = Append(With(a), c)
         \/ \E r, s : GiveBack(r, s)
         \/ EndTrap \/ EndTop
<1>1. CASE Session
  <2>1. CASE EndCompletion
    BY <2>1 DEF EndCompletion
  <2> QED
    BY <1>1, <2>1 DEF Session, RunProgram, Eof, Complete, EndSession, OnExit, Ended
<1>2. CASE Start
  BY <1>2 DEF Start, AtOnce, Background, StartCompound, StartClone, StartSimple
<1>3. CASE Simple
  <2>1. CASE AssignFails \/ Finishes \/ SetsTrap \/ SetsOption \/ EndSimple
    BY <2>1 DEF AssignFails, Finishes, SetsTrap, SetsOption, EndSimple
  <2>2. CASE PreExecute
    BY <2>2 DEF PreExecute
  <2>3. CASE Evaluates \/ Sources \/ Invokes
    BY <2>3 DEF Evaluates, Sources, Invokes, Calls
  <2> QED
    BY <1>3, <2>1, <2>2, <2>3 DEF Simple
<1>4. CASE End
  <2>1. CASE EndPipeline
    <3>1. PICK r : LET after == [sh EXCEPT !.status = r.code]
                   IN IF r.code # 0 /\ ~Top.quiet /\ Delivered(after, "ERR")
                      THEN k' = Append(With([Top EXCEPT !.busy = "errtrap", !.res = r]),
                                       [OnTrap("ERR", Top.quiet) EXCEPT !.st = r.code])
                      ELSE k' = With(Settled(Top, Errexit(sh, Top.quiet, r)))
      BY <2>1 DEF EndPipeline
    <3> QED
      BY <3>1
  <2>2. CASE CatchError
    BY <2>2 DEF CatchError
  <2>3. CASE PassError
    BY <2>3 DEF PassError
  <2>4. CASE EndFunction \/ EndEval \/ EndSource \/ EndSubshell
    BY <2>4 DEF EndFunction, EndEval, EndSource, EndSubshell
  <2>5. CASE EndElement
    BY <2>5 DEF EndElement
  <2>6. CASE EndIf
    BY <2>6 DEF EndIf
  <2>7. CASE EndWhile
    BY <2>7 DEF EndWhile
  <2>8. CASE EndFor
    BY <2>8 DEF EndFor
  <2> QED
    BY <1>4, <2>1, <2>2, <2>3, <2>4, <2>5, <2>6, <2>7, <2>8 DEF End
<1> QED
  BY <1>1, <1>2, <1>3, <1>4 DEF Next

LEMMA LowerStays ==
  ASSUME Inv, Next, NEW n \in 1..(Len(k) - 1)
  PROVE  Stays(n)
<1>0. k # <<>> /\ Len(k) \in Nat \ {0, 1}
  BY StackFacts, EmptySeq
<1>1. CASE \E a : k' = With(a) \/ \E c : k' = Append(With(a), c)
  BY <1>0, <1>1, StaysWith
<1>2. CASE \E r, s : GiveBack(r, s)
  BY <1>0, <1>2, StaysBelow
<1>3. CASE EndTrap
  <2> DEFINE N == Len(k) - 1
             p == k[N]
             after == LeaveTrap(sh, Top.sig, Top.st)
             a == IF p.op = "simple" THEN [p EXCEPT !.phase = "run", !.busy = "idle"]
                  ELSE Settled(p, Errexit(after, p.quiet, p.res))
  <2>1. k' = [Pop(k) EXCEPT ![N] = a]
    BY <1>0, <1>3 DEF EndTrap
  <2>2. /\ N \in Nat \ {0} /\ Pop(k) \in Seq(ActivationType) /\ Len(Pop(k)) = N
        /\ \A i \in 1..N : Pop(k)[i] = k[i]
    BY <1>0, TopFacts, PopProperties
  <2>3. N \in 1..N /\ N \in 1..Len(k)
    BY <1>0
  <2>4. p \in ActivationType
    BY <2>3, StackFacts
  <2>5. a.op = p.op /\ (p.res.flow = "exit" => a.res.flow = "exit")
    <3>1. p.res \in Result
      BY <2>4 DEF ActivationType
    <3> HIDE DEF p, after
    <3>2. CASE p.op = "simple"
      <4>1. /\ [p EXCEPT !.phase = "run", !.busy = "idle"].op = p.op
            /\ [p EXCEPT !.phase = "run", !.busy = "idle"].res = p.res
        BY <2>4 DEF ActivationType
      <4> QED
        BY <3>2, <4>1
    <3>3. CASE p.op # "simple"
      <4> DEFINE r == Errexit(after, p.quiet, p.res)
      <4>1. p.res.flow = "exit" => r.flow = "exit"
        BY <3>1, FlowErrexit
      <4>2. Settled(p, r).op = p.op /\ Settled(p, r).res = r
        BY <2>4 DEF Settled, ActivationType
      <4> HIDE DEF r
      <4>3. a = Settled(p, r)
        BY <3>3 DEF r
      <4> HIDE DEF a
      <4> QED
        BY <4>1, <4>2, <4>3
    <3> QED
      BY <3>2, <3>3
  <2>6. n \in 1..N
    BY <1>0
  <2> HIDE DEF a, N, after
  <2>7. DOMAIN Pop(k) = 1..N
    BY <2>2
  <2>8. /\ DOMAIN k' = 1..N /\ k'[N] = a
        /\ \A i \in 1..N : i # N => k'[i] = k[i]
    BY <2>1, <2>2, <2>3, <2>7
  <2>9. \A j \in 1..n : j \in 1..N
    BY <2>2, <2>6
  <2> QED
    BY <2>5, <2>6, <2>8, <2>9 DEF Stays, p
<1>4. CASE EndTop
  <2>1. Placed(Top, Len(k)) /\ Top.op = "top"
    BY <1>0, <1>4, TopFacts DEF EndTop, Idle
  <2> QED
    BY <1>0, <2>1 DEF Placed
<1> QED
  BY <1>0, <1>1, <1>2, <1>3, <1>4, Shapes

(* Who may take a result that asks to exit, and what becomes of it. *)
LEMMA ExitReceived ==
  ASSUME Inv, Next, ret.kind = "ok", ret.flow = "exit", Own(k, Len(k))
  PROVE  ExitPending'
<1>1. ret # NoRet /\ k # <<>>
  BY PlainFlows DEF Inv, Fits
<1>2. /\ Len(k) \in Nat \ {0} /\ Top.op \notin {"trap", "subshell", "pipe", "completion"}
      /\ ret \in Result /\ Top \in ActivationType /\ k \in Seq(ActivationType)
  BY <1>1, TopFacts DEF Own, Top, Inv
<1>3. EndSimple \/ EndPipeline
  <2>1. ~Session
    BY <1>1, <1>2 DEF Session, RunProgram, EndTop, Eof, Complete, EndCompletion,
         EndSession, OnExit, Ended, Idle, Receiving
  <2>2. ~Start
    BY <1>1 DEF Start, AtOnce, Background, StartCompound, StartClone, StartSimple,
         CanNest, CanStart, Idle
  <2>3. Simple => EndSimple
    BY <1>1 DEF Simple, AssignFails, PreExecute, Finishes, SetsTrap, SetsOption,
         Evaluates, Sources, Invokes, At, Idle
  <2>4. End => EndPipeline
    BY <1>1, <1>2 DEF End, EndTrap, CatchError, PassError, EndFunction, EndEval,
         EndSource, EndSubshell, EndElement, EndIf, EndWhile, EndFor, Idle, Receiving
  <2> QED
    BY <2>1, <2>2, <2>3, <2>4 DEF Next
<1>4. CASE EndSimple
  <2>1. GiveBack(ret, LeaveCommand(sh))
    BY <1>2, <1>4, FlowOps DEF EndSimple
  <2> QED
    BY <1>1, <2>1, ExitGivenBack
<1>5. CASE EndPipeline
  <2>1. PICK r \in {ret} \cup IF Top.quiet THEN {Inverted(ret)} ELSE {} :
          LET after == [sh EXCEPT !.status = r.code]
          IN IF r.code # 0 /\ ~Top.quiet /\ Delivered(after, "ERR")
             THEN k' = Append(With([Top EXCEPT !.busy = "errtrap", !.res = r]),
                              [OnTrap("ERR", Top.quiet) EXCEPT !.st = r.code])
             ELSE k' = With(Settled(Top, Errexit(sh, Top.quiet, r)))
    BY <1>5 DEF EndPipeline
  <2>2. r \in Result /\ r.flow = "exit"
    <3>1. Inverted(ret) \in Result
      BY <1>2, ResultOps
    <3>2. Inverted(ret).flow = "exit"
      BY <1>2, FlowOps
    <3>3. r = ret \/ r = Inverted(ret)
      BY <2>1
    <3> QED
      BY <1>2, <3>1, <3>2, <3>3
  <2>3. PICK a : /\ k' = With(a) \/ \E c : k' = Append(With(a), c)
                 /\ a.op = Top.op /\ a.res.flow = "exit"
    <3>1. LET a == [Top EXCEPT !.busy = "errtrap", !.res = r]
          IN a.op = Top.op /\ a.res.flow = "exit"
      BY <1>2, <2>2 DEF ActivationType
    <3>2. LET a == Settled(Top, Errexit(sh, Top.quiet, r))
          IN a.op = Top.op /\ a.res.flow = "exit"
      <4>1. Errexit(sh, Top.quiet, r).flow = "exit"
        BY <2>2, FlowErrexit
      <4> QED
        BY <1>2, <4>1 DEF Settled, ActivationType
    <3> QED
      BY <2>1, <3>1, <3>2
  <2>4. /\ Len(k) \in DOMAIN k' /\ k'[Len(k)] = a
        /\ \A j \in 1..(Len(k) - 1) : k'[j] = k[j]
    BY <1>1, <2>3, LastWith
  <2>5. Own(k', Len(k))
    <3> SUFFICES ASSUME NEW i \in 1..Len(k)
                 PROVE  k'[i].op = k[i].op
      BY DEF Own
    <3>1. i = Len(k) \/ i \in 1..(Len(k) - 1)
      BY <1>2
    <3> QED
      BY <2>3, <2>4, <3>1 DEF Top
  <2> QED
    BY <2>3, <2>4, <2>5, PendingNext
<1> QED
  BY <1>3, <1>4, <1>5

(* The last activation holds the request: it ends with it. *)
LEMMA ExitHeld ==
  ASSUME Inv, Next, k # <<>>, Top.res.flow = "exit", Own(k, Len(k))
  PROVE  ExitPending' \/ stage' = "ending"
<1>1. /\ Ready(Top) /\ Top.res \in Result /\ Top \in ActivationType
      /\ Len(k) \in Nat \ {0}
      /\ Top.op \notin {"trap", "subshell", "pipe", "completion", "simple"}
      /\ Top.busy # "run" /\ Top.res.kind = "ok"
  <2>1. Top.op \notin {"trap", "subshell", "pipe", "completion"} /\ Len(k) \in Nat \ {0}
    BY TopFacts DEF Own, Top
  <2> QED
    BY <2>1, TopFacts, PlainFlows DEF Ready, ActivationType
<1>2. EndTop \/ EndFunction \/ EndEval \/ EndSource \/ EndIf \/ EndWhile \/ EndFor
  <2>1. Session => EndTop
    BY <1>1 DEF Session, RunProgram, EndTop, Eof, Complete, EndCompletion,
         EndSession, OnExit, Ended, Idle, Receiving
  <2>2. ~Start
    BY DEF Start, AtOnce, Background, StartCompound, StartClone, StartSimple,
         CanNest, CanStart
  <2>3. ~Simple
    BY <1>1 DEF Simple, AssignFails, PreExecute, Finishes, SetsTrap, SetsOption,
         Evaluates, Sources, Invokes, EndSimple, At, Idle, Receiving
  <2>4. End => EndFunction \/ EndEval \/ EndSource \/ EndIf \/ EndWhile \/ EndFor
    BY <1>1 DEF End, EndPipeline, EndTrap, CatchError, PassError, EndSubshell,
         EndElement, Idle, Receiving
  <2> QED
    BY <2>1, <2>2, <2>3, <2>4 DEF Next
<1>3. CASE EndTop
  BY <1>3 DEF EndTop
<1>4. Decrement(Top.res) = Top.res /\ LeavesLoop(Top.res) /\ ~IsLoopFlow(Top.res)
      /\ Returned(Top.res) = Top.res
  BY <1>1, FlowOps DEF LeavesLoop, IsLoopFlow, Returned
<1>5. \E s : GiveBack(Top.res, s)
      \/ ~(EndFunction \/ EndEval \/ EndSource \/ EndIf \/ EndWhile \/ EndFor)
  <2>1. EndFunction => \E s : GiveBack(Top.res, s)
    BY <1>4 DEF EndFunction
  <2>2. EndEval => \E s : GiveBack(Top.res, s)
    BY DEF EndEval
  <2>3. EndSource => \E s : GiveBack(Top.res, s)
    BY <1>4 DEF EndSource
  <2>4. EndIf => \E s : GiveBack(Top.res, s)
    BY DEF EndIf
  <2>5. EndWhile => \E s : GiveBack(Top.res, s)
    BY <1>4 DEF EndWhile
  <2>6. EndFor => \E s : GiveBack(Top.res, s)
    BY <1>4 DEF EndFor
  <2> QED
    BY <2>1, <2>2, <2>3, <2>4, <2>5, <2>6
<1> QED
  BY <1>1, <1>2, <1>3, <1>5, ExitGivenBack

(* The steps of the interpreter keep a request to exit, or end the session. *)
LEMMA ExitStep ==
  ASSUME Inv, Next, ExitPending
  PROVE  ExitPending' \/ stage' = "ending"
<1>1. CASE ret.kind = "ok" /\ ret.flow = "exit" /\ Own(k, Len(k))
  BY <1>1, ExitReceived
<1>2. CASE \E i \in DOMAIN k : k[i].res.flow = "exit" /\ Own(k, i)
  <2>1. PICK i \in DOMAIN k : k[i].res.flow = "exit" /\ Own(k, i)
    BY <1>2
  <2>2. i \in 1..Len(k) /\ Len(k) \in Nat /\ k # <<>>
    BY StackFacts, EmptySeq
  <2>3. CASE i = Len(k)
    BY <2>1, <2>2, <2>3, ExitHeld DEF Top
  <2>4. CASE i # Len(k)
    <3>1. i \in 1..(Len(k) - 1)
      BY <2>2, <2>4
    <3>2. Stays(i)
      BY <3>1, LowerStays
    <3>3. Own(k', i)
      BY <2>1, <3>2 DEF Stays, Own
    <3> QED
      BY <2>1, <3>2, <3>3, PendingNext DEF Stays
  <2> QED
    BY <2>3, <2>4
<1> QED
  BY <1>1, <1>2, PendingNow

(* A request to exit made in the session's own shell reaches the end of the *)
(* session, through whatever loops, functions, scripts and ERR traps are in *)
(* between, and nothing makes the shell forget it.                         *)
THEOREM ExitReaches == Spec => ExitSticks
<1>1. Inv /\ [Next]_vars => [ExitPending => ExitPending' \/ stage' = "ending"]_vars
  BY ExitStep
<1> QED
  BY <1>1, InvHolds, PTL DEF Spec, ExitSticks

=============================================================================
