-------------------------- MODULE BrokerWireProofs --------------------------
(***************************************************************************)
(* Proofs about the broker's wire, for any paths, handles and limits.      *)
(***************************************************************************)
EXTENDS BrokerWire, TLAPS

(* A session's mounts are a sequence, as long as its count says.            *)
LEMMA SessionType ==
  ASSUME NEW s \in Session
  PROVE  /\ s.cwd \in Path
         /\ s.mounts \in Seq(Mount)
         /\ Len(s.mounts) \in Nat
         /\ DOMAIN s.mounts = 1..Len(s.mounts)
BY WireAssumption DEF Session, WireAssumption

(* The message has the fields `encode` writes, in their places.             *)
LEMMA EncodeFields ==
  ASSUME NEW s \in Session
  PROVE  LET e == Encode(s) N == Len(s.mounts) IN
         /\ e \in Seq(Nat \cup Path \cup [at : Path, access : Access])
         /\ Len(e) = 3 + N
         /\ e[1] = WireVersion /\ e[2] = s.cwd /\ e[3] = N
         /\ \A i \in 1..N : e[3 + i] = [at |-> s.mounts[i].at, access |-> s.mounts[i].access]
<1> DEFINE N == Len(s.mounts)
           T == Nat \cup Path \cup [at : Path, access : Access]
           head == <<WireVersion, s.cwd, N>>
           tail == [i \in 1..N |-> [at |-> s.mounts[i].at, access |-> s.mounts[i].access]]
<1>1. N \in Nat /\ s.cwd \in Path /\ \A i \in 1..N : s.mounts[i] \in Mount
  BY SessionType
<1>2. head \in Seq(T) /\ Len(head) = 3
  BY <1>1 DEF WireVersion
<1>3. tail \in Seq(T) /\ Len(tail) = N
  BY <1>1 DEF Mount
<1>4. /\ head \o tail \in Seq(T)
      /\ Len(head \o tail) = 3 + N
      /\ \A i \in 1..3 : (head \o tail)[i] = head[i]
      /\ \A i \in 1..N : (head \o tail)[3 + i] = tail[i]
  BY <1>1, <1>2, <1>3
<1> QED
  BY <1>4 DEF Encode

(* A message that decodes and assembles is the whole message, with all its  *)
(* descriptors, and the table built from it is the parent's.               *)
LEMMA WholeOrNothing ==
  ASSUME NEW s \in Session,
         NEW n \in 1..Len(Encode(s)), NEW k \in 0..Len(Handles(s)),
         NEW m, m = SubSeq(Encode(s), 1, n),
         NEW hs, hs = SubSeq(Handles(s), 1, k),
         Decodes(m), Assembles(m, hs)
  PROVE  /\ m[2] = s.cwd
         /\ Zip(Entries(m), hs) = Range(s.mounts)
<1> DEFINE N == Len(s.mounts)
           e == Encode(s)
<1>1. /\ N \in Nat /\ Len(e) = 3 + N /\ e[2] = s.cwd /\ e[3] = N
      /\ \A i \in 1..N : e[3 + i] = [at |-> s.mounts[i].at, access |-> s.mounts[i].access]
      /\ \E T : e \in Seq(T)
  BY SessionType, EncodeFields
<1>2. n \in Nat /\ n <= 3 + N /\ Len(m) = n /\ \A i \in 1..n : m[i] = e[i]
  BY <1>1
<1>3. m[2] = s.cwd /\ m[3] = N /\ n = 3 + N
  BY <1>1, <1>2 DEF Decodes
<1>4. \A i \in 1..N : /\ Entries(m)[i] = [at |-> s.mounts[i].at, access |-> s.mounts[i].access]
                      /\ s.mounts[i] \in Mount
  BY <1>1, <1>2, <1>3, SessionType DEF Entries
<1>5. Handles(s) \in Seq({s.mounts[i].handle : i \in 1..N}) /\ Len(Handles(s)) = N
  <2> DEFINE handle(i) == s.mounts[i].handle
             H == {handle(i) : i \in 1..N}
  <2>1. Handles(s) = [i \in 1..N |-> handle(i)]
    BY DEF Handles
  <2>2. \A i \in 1..N : handle(i) \in H
    OBVIOUS
  <2> HIDE DEF handle, H, N
  <2>3. Handles(s) \in [1..N -> H]
    BY <2>1, <2>2
  <2>4. Handles(s) \in Seq(H) /\ Len(Handles(s)) = N
    BY <1>1, <2>1, <2>3
  <2> QED
    BY <2>4 DEF handle, H, N
<1>6. k \in Nat /\ Len(hs) = k /\ k = N /\ DOMAIN hs = 1..N
  BY <1>3, <1>5 DEF Assembles
<1>7. \A i \in 1..N : hs[i] = s.mounts[i].handle
  BY <1>5, <1>6 DEF Handles
<1>8. DOMAIN Entries(m) = 1..N /\ DOMAIN s.mounts = 1..N
  BY <1>3, SessionType DEF Entries
<1>9. ASSUME NEW i \in 1..N
      PROVE  [at |-> Entries(m)[i].at, access |-> Entries(m)[i].access,
              handle |-> hs[i]] = s.mounts[i]
  <2> DEFINE x == s.mounts[i]
  <2>1. Entries(m)[i].at = x.at /\ Entries(m)[i].access = x.access
    <3>1. Entries(m)[i] = [at |-> x.at, access |-> x.access]
      BY <1>4
    <3> HIDE DEF x
    <3> QED
      BY <3>1
  <2>2. hs[i] = s.mounts[i].handle
    BY <1>7
  <2>3. ASSUME NEW y \in Mount
        PROVE  y = [at |-> y.at, access |-> y.access, handle |-> y.handle]
    BY DEF Mount
  <2> QED
    BY <1>4, <2>1, <2>2, <2>3
<1>10. Zip(Entries(m), hs) = {s.mounts[i] : i \in 1..N}
  <2> DEFINE F(i) == [at |-> Entries(m)[i].at, access |-> Entries(m)[i].access,
                      handle |-> hs[i]]
  <2>1. Zip(Entries(m), hs) = {F(i) : i \in 1..N}
    BY <1>6, <1>8 DEF Zip
  <2>2. \A i \in 1..N : F(i) = s.mounts[i]
    BY <1>9
  <2> HIDE DEF F
  <2> QED
    BY <2>1, <2>2
<1> QED
  BY <1>3, <1>8, <1>10 DEF Range

(* A descriptor travels for every mount.                                    *)
LEMMA HandlesType ==
  ASSUME NEW s \in Session
  PROVE  /\ \E H : Handles(s) \in Seq(H)
         /\ Len(Handles(s)) = Len(s.mounts)
<1> DEFINE N == Len(s.mounts)
           handle(i) == s.mounts[i].handle
           H == {handle(i) : i \in 1..N}
<1>1. N \in Nat
  BY SessionType
<1>2. Handles(s) = [i \in 1..N |-> handle(i)]
  BY DEF Handles
<1>3. \A i \in 1..N : handle(i) \in H
  OBVIOUS
<1> HIDE DEF handle, H, N
<1>4. Handles(s) \in [1..N -> H]
  BY <1>2, <1>3
<1>5. Handles(s) \in Seq(H) /\ Len(Handles(s)) = N
  BY <1>1, <1>2, <1>4
<1> QED
  BY <1>5 DEF N

(* The whole message, with all its descriptors, decodes and assembles, and  *)
(* gives the parent's table.                                               *)
LEMMA WholeAccepted ==
  ASSUME NEW s \in Session
  PROVE  LET e == Encode(s) hs == Handles(s) IN
         /\ Decodes(e) /\ Assembles(e, hs)
         /\ e[2] = s.cwd /\ Zip(Entries(e), hs) = Range(s.mounts)
<1> DEFINE N == Len(s.mounts)
           e == Encode(s)
           hs == Handles(s)
<1>1. /\ N \in Nat /\ Len(e) = 3 + N
      /\ e[1] = WireVersion /\ e[2] = s.cwd /\ e[3] = N
      /\ \A i \in 1..N : e[3 + i] = [at |-> s.mounts[i].at, access |-> s.mounts[i].access]
      /\ \E T : e \in Seq(T)
  BY SessionType, EncodeFields
<1>2. Decodes(e)
  BY <1>1 DEF Decodes
<1>3. Len(hs) = N /\ \E H : hs \in Seq(H)
  BY HandlesType
<1>4. Distinct(Entries(e))
  <2>1. Distinct(s.mounts) /\ DOMAIN s.mounts = 1..N
    BY SessionType DEF Session
  <2>2. DOMAIN Entries(e) = 1..N
    BY <1>1 DEF Entries
  <2>3. \A i \in 1..N : Entries(e)[i] = [at |-> s.mounts[i].at, access |-> s.mounts[i].access]
    BY <1>1 DEF Entries
  <2>4. ASSUME NEW i \in 1..N
        PROVE  Entries(e)[i].at = s.mounts[i].at
    <3> DEFINE x == s.mounts[i]
    <3>1. Entries(e)[i] = [at |-> x.at, access |-> x.access]
      BY <2>3
    <3> HIDE DEF x
    <3>2. Entries(e)[i].at = x.at
      BY <3>1
    <3> QED
      BY <3>2 DEF x
  <2> QED
    BY <2>1, <2>2, <2>4 DEF Distinct
<1>5. Assembles(e, hs)
  BY <1>1, <1>3, <1>4 DEF Assembles
<1>6. e = SubSeq(e, 1, Len(e)) /\ hs = SubSeq(hs, 1, Len(hs))
  <2>1. ASSUME NEW T, NEW q \in Seq(T) PROVE q = SubSeq(q, 1, Len(q))
    OBVIOUS
  <2> QED
    BY <1>1, <1>3, <2>1
<1>7. Len(e) \in 1..Len(e) /\ Len(hs) \in 0..Len(hs)
  BY <1>1, <1>3
<1>8. Zip(Entries(e), hs) = Range(s.mounts)
  BY <1>2, <1>5, <1>6, <1>7, WholeOrNothing
<1> QED
  BY <1>1, <1>2, <1>5, <1>8

-----------------------------------------------------------------------------
(* What is on the wire, or has been read from it, is the message or a part  *)
(* of it from its beginning; what has been installed is the session.       *)
OnTheWire ==
  /\ session \in Session
  /\ phase = "sent" => msg = Encode(session) /\ fds = Handles(session)
  /\ phase = "received" =>
       \E n \in 1..Len(Encode(session)), k \in 0..Len(Handles(session)) :
         msg = SubSeq(Encode(session), 1, n) /\ fds = SubSeq(Handles(session), 1, k)
  /\ phase = "installed" => cwd = session.cwd /\ table = Range(session.mounts)

(* Every step keeps it.                                                     *)
LEMMA WireStep == OnTheWire /\ [Next]_vars => OnTheWire'
<1> SUFFICES ASSUME OnTheWire, [Next]_vars PROVE OnTheWire'
  OBVIOUS
<1> USE DEF OnTheWire
<1>1. CASE Send
  BY <1>1 DEF Send
<1>2. CASE SendTooMany
  BY <1>2 DEF SendTooMany
<1>3. CASE Receive
  BY <1>3 DEF Receive
<1>4. CASE CwdRemoved
  BY <1>4 DEF CwdRemoved
<1>5. CASE Install
  <2>1. session \in Session /\ session' = session /\ phase' = "installed"
    BY <1>5 DEF Install
  <2>2. PICK n \in 1..Len(Encode(session)), k \in 0..Len(Handles(session)) :
          msg = SubSeq(Encode(session), 1, n) /\ fds = SubSeq(Handles(session), 1, k)
    BY <1>5 DEF Install
  <2>3. msg[2] = session.cwd /\ Zip(Entries(msg), fds) = Range(session.mounts)
    BY <1>5, <2>1, <2>2, WholeOrNothing DEF Install
  <2> QED
    BY <1>5, <2>1, <2>3 DEF Install
<1>6. CASE Refuse
  BY <1>6 DEF Refuse
<1>7. CASE Decided \/ UNCHANGED vars
  BY <1>7 DEF Decided, vars
<1> QED
  BY <1>1, <1>2, <1>3, <1>4, <1>5, <1>6, <1>7 DEF Next

(* The child's namespace resolves every path as the parent's, for sessions  *)
(* of any size and any limits of the transport (decode, assemble).         *)
THEOREM WireFaithful == Spec => []SameNamespace
<1>1. Init => OnTheWire
  BY DEF Init, OnTheWire
<1>2. OnTheWire /\ [Next]_vars => OnTheWire'
  BY WireStep
<1>3. OnTheWire => SameNamespace
  BY DEF OnTheWire, SameNamespace
<1> QED
  BY <1>1, <1>2, <1>3, PTL DEF Spec

(* A working directory that is there is a directory of the parent's own     *)
(* namespace, and a session has been refused for a reason.                 *)
Accountable ==
  /\ OnTheWire
  /\ alive => Reachable(session)
  /\ RefusedForCause

(* The child refuses only a message cut on its way or a working directory   *)
(* that has gone, for sessions of any size (decode, assemble, set_cwd).    *)
THEOREM WireRefusedForCause == Spec => []RefusedForCause
<1>1. Init => Accountable
  BY DEF Init, Accountable, OnTheWire, RefusedForCause
<1>2. Accountable /\ [Next]_vars => Accountable'
  <2> SUFFICES ASSUME Accountable, [Next]_vars PROVE Accountable'
    OBVIOUS
  <2>1. OnTheWire'
    BY WireStep DEF Accountable
  <2>2. session' = session /\ (alive' => alive)
    BY DEF Next, vars, Send, SendTooMany, Receive, CwdRemoved, Install, Refuse, Decided
  <2>3. (alive => Reachable(session))'
    BY <2>2 DEF Accountable, Reachable
  <2>4. RefusedForCause'
    <3>1. CASE Refuse
      <4> SUFFICES ASSUME msg = Encode(session), fds = Handles(session), alive
                   PROVE  FALSE
        BY <3>1 DEF Refuse, RefusedForCause
      <4>1. /\ Decodes(msg) /\ Assembles(msg, fds) /\ msg[2] = session.cwd
            /\ Zip(Entries(msg), fds) = Range(session.mounts)
        BY WholeAccepted DEF Accountable, OnTheWire
      <4>2. CwdHolds(Zip(Entries(msg), fds), msg[2])
        BY <4>1 DEF CwdHolds, Accountable, Reachable
      <4> QED
        BY <3>1, <4>1, <4>2 DEF Refuse
    <3>2. CASE Send \/ SendTooMany \/ Receive \/ CwdRemoved \/ Install
      BY <3>2 DEF RefusedForCause, Send, SendTooMany, Receive, CwdRemoved, Install
    <3>3. CASE Decided \/ UNCHANGED vars
      BY <3>3 DEF Accountable, RefusedForCause, Decided, vars
    <3> QED
      BY <3>1, <3>2, <3>3 DEF Next
  <2> QED
    BY <2>1, <2>3, <2>4 DEF Accountable
<1>3. Accountable => RefusedForCause
  BY DEF Accountable
<1> QED
  BY <1>1, <1>2, <1>3, PTL DEF Spec
=============================================================================
