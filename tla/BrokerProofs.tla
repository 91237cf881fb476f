---------------------------- MODULE BrokerProofs ----------------------------
(***************************************************************************)
(* Proofs about the session broker, for any number of dispatches and of    *)
(* processes run by hand, any sessions and any socket names.               *)
(*                                                                         *)
(* None of the safety invariants of Broker is inductive.  IInv below adds  *)
(* what they rest on: sockets have distinct names (Names), who may be at   *)
(* the other end of a connection (Connections), what a dispatch carries    *)
(* (Carried), and that a child can only have run what was sent (Ran).      *)
(***************************************************************************)
EXTENDS Broker, TLAPS

(* A dispatch with a rendezvous of its own that it has not begun to drop. *)
Standing == {"spawn", "capture", "accept", "check", "send", "unlink"}

(* next_id: a name is never given twice. *)
Names ==
  /\ \A d \in Dispatch : pc[d] \in {"idle", "name"} => sock[d] = None
  /\ \A d \in Dispatch : pc[d] \notin {"idle", "name", "nocreate", "crashed"} => sock[d] \in Nat
  /\ \A d \in Dispatch : sock[d] # None => sock[d] < nextId
  /\ \A d, e \in Dispatch : d # e /\ sock[d] # None => sock[d] # sock[e]

(* Every file has an owner that will remove it, or has given up on it, or   *)
(* could not remove it.                                                    *)
OwnedFiles ==
  \A f \in files : \E d \in Dispatch :
    /\ sock[d] = f
    /\ \/ pc[d] \in Standing \cup {"nocreate", "crashed"}
       \/ <<d, "file">> \in left

(* While the parent lives, so has the directory, unless a removal failed. *)
OwnedDir ==
  up =>
    /\ \A d \in Dispatch : pc[d] # "crashed"
    /\ \/ ~scratch
       \/ left # {}
       \/ \E d \in Dispatch : pc[d] \in {"name", "bind", "rmdir", "nocreate"} \cup Standing

(* A dispatched child exists from the spawn on, and is told its own socket. *)
Dispatched ==
  \A d \in Dispatch :
    /\ pc[d] \in {"idle", "name", "bind", "spawn", "nocreate"} => child[d] = "unborn"
    /\ child[d] # "unborn" => sock[d] \in Nat /\ told[d] = sock[d]

(* A dispatched child can be at the other end of its own rendezvous only,   *)
(* and a connection is open only while the rendezvous is being served.     *)
Connections ==
  \A d \in Dispatch :
    /\ d \in listening => pc[d] \in Standing \cup {"rmdir", "close"}
    /\ d \notin listening => backlog[d] = <<>>
    /\ \A i \in 1..Len(backlog[d]) : backlog[d][i] \in Hand \cup {d}
    /\ stream[d] \in Hand \cup {d, None}
    /\ stream[d] # None => pc[d] \in {"check", "send"}
    /\ conn[d] \in {d, None}

(* What is about to be sent is the dispatcher's session, to the child. *)
Carried ==
  \A d \in Dispatch :
    /\ pc[d] \in {"accept", "check", "send"} => payload[d] = SessionOf[d]
    /\ pc[d] = "send" => stream[d] = d

(* A child that ran received a session, which its dispatcher knows it sent. *)
Ran ==
  \A d \in Dispatch :
    /\ child[d] \in {"working", "exited"} => inbox[d] # None
    /\ inbox[d] # None => d \in served
    /\ pc[d] \in {"failed", "nocreate"} => child[d] = "unborn" \/ inbox[d] = None

IInv ==
  /\ TypeOK /\ Names
  /\ RendezvousStands /\ OwnedFiles /\ OwnedDir
  /\ Dispatched /\ Connections
  /\ Carried /\ OnlyItsChild /\ Ran /\ NeverUnconfined
-----------------------------------------------------------------------------
(* The type of the state is established by Init.                            *)
LEMMA TypeInit == Init => TypeOK
<1> SUFFICES ASSUME Init PROVE TypeOK
  OBVIOUS
<1> USE DEF Init
<1>1. told \in [Child -> Nat \cup {None}]
  <2> PICK t \in [Hand -> HandTold \cup {None}] :
        told = [c \in Child |-> IF c \in Hand THEN t[c] ELSE None]
    OBVIOUS
  <2> QED
    BY BrokerAssumption DEF Child, BrokerAssumption
<1>2. backlog \in [Dispatch -> Seq(Child)]
  OBVIOUS
<1> QED
  BY <1>1, <1>2 DEF TypeOK, Child, Pcs, ChildStates

(* The inductive invariant holds initially.                                *)
LEMMA IInvInit == Init => IInv
<1> SUFFICES ASSUME Init PROVE IInv
  OBVIOUS
<1>1. TypeOK
  BY TypeInit
<1> USE BrokerAssumption DEF BrokerAssumption, Init, Child
<1>2. Names /\ RendezvousStands /\ OwnedFiles /\ OwnedDir
  BY DEF Names, RendezvousStands, OwnedFiles, OwnedDir
<1>3. Dispatched /\ Connections
  BY DEF Dispatched, Connections
<1>4. Carried /\ OnlyItsChild /\ Ran /\ NeverUnconfined
  BY DEF Carried, OnlyItsChild, Ran, NeverUnconfined
<1> QED
  BY <1>1, <1>2, <1>3, <1>4 DEF IInv
-----------------------------------------------------------------------------
(* IInv is inductive.  The lemmas take its conjuncts in the order in which  *)
(* they rest on one another.                                               *)

(* The types, and the names of the sockets: the counter only grows, and the *)
(* fetch_add of next_id is one step.                                       *)
LEMMA NamesStep ==
  ASSUME IInv, [Next]_vars
  PROVE  TypeOK' /\ Names'
<1> USE BrokerAssumption DEF BrokerAssumption, IInv, TypeOK, Names, Child, Pcs,
      ChildStates, Sessions, Standing, Goto, Become, dirVars, kernelVars,
      childVars
<1>1. ASSUME NEW d \in Dispatch, Parent(d)
      PROVE  TypeOK' /\ Names'
  <2>1. CASE MakeDir(d)
    BY <2>1 DEF MakeDir
  <2>2. CASE MakeDirFails(d)
    BY <2>2 DEF MakeDirFails
  <2>3. CASE TakeName(d)
    BY <2>3 DEF TakeName
  <2>4. CASE Bind(d)
    BY <2>4 DEF Bind
  <2>5. CASE BindFails(d)
    BY <2>5 DEF BindFails
  <2>6. CASE NonblockFails(d)
    BY <2>6 DEF NonblockFails
  <2>7. CASE Spawn(d)
    BY <2>7 DEF Spawn
  <2>8. CASE SpawnFails(d)
    BY <2>8 DEF SpawnFails
  <2>9. CASE Capture(d)
    BY <2>9 DEF Capture
  <2>10. CASE CaptureFails(d)
    BY <2>10 DEF CaptureFails
  <2>11. CASE Accept(d)
    BY <2>11 DEF Accept
  <2>12. CASE AcceptTimesOut(d)
    BY <2>12 DEF AcceptTimesOut, ServeFails
  <2>13. CASE AcceptFails(d)
    BY <2>13 DEF AcceptFails, ServeFails
  <2>14. CASE PeerIsChild(d)
    BY <2>14 DEF PeerIsChild
  <2>15. CASE PeerIsStranger(d)
    BY <2>15 DEF PeerIsStranger, ServeFails
  <2>16. CASE PeerUnknown(d)
    BY <2>16 DEF PeerUnknown, ServeFails
  <2>17. CASE Send(d)
    BY <2>17 DEF Send
  <2>18. CASE SendFails(d)
    BY <2>18 DEF SendFails, ServeFails
  <2>19. CASE Unlink(d)
    BY <2>19 DEF Unlink
  <2>20. CASE RemoveDir(d)
    BY <2>20 DEF RemoveDir
  <2>21. CASE CloseListener(d)
    BY <2>21 DEF CloseListener, AfterServe
  <2>22. CASE WaitForChild(d)
    BY <2>22 DEF WaitForChild
  <2>23. CASE UnlinkFails(d)
    BY <2>23 DEF UnlinkFails
  <2>24. CASE RemoveDirFails(d)
    BY <2>24 DEF RemoveDirFails
  <2> QED
    BY <1>1, <2>1, <2>2, <2>3, <2>4, <2>5, <2>6, <2>7, <2>8, <2>9, <2>10, <2>11,
       <2>12, <2>13, <2>14, <2>15, <2>16, <2>17, <2>18, <2>19, <2>20, <2>21,
       <2>22, <2>23, <2>24
       DEF Parent, Create, Serve, Drop
<1>2. ASSUME NEW c \in Child, Handshake(c) \/ HandshakeError(c) \/ Finish(c) \/ Die(c)
      PROVE  TypeOK' /\ Names'
  <2>1. CASE TakeRendezvous(c)
    BY <2>1 DEF TakeRendezvous
  <2>2. CASE UseIdentity(c)
    BY <2>2 DEF UseIdentity
  <2>3. CASE Connect(c)
    BY <2>3 DEF Connect
  <2>4. CASE ConnectNotFound(c)
    BY <2>4 DEF ConnectNotFound
  <2>5. CASE ConnectTimesOut(c)
    BY <2>5 DEF ConnectTimesOut
  <2>6. CASE Receive(c)
    BY <2>6 DEF Receive
  <2>7. CASE ReceiveMalformed(c)
    BY <2>7 DEF ReceiveMalformed
  <2>8. CASE ReceiveEof(c)
    BY <2>8 DEF ReceiveEof
  <2>9. CASE HandshakeError(c)
    BY <2>9 DEF HandshakeError
  <2>10. CASE Finish(c)
    BY <2>10 DEF Finish
  <2>11. CASE Die(c)
    BY <2>11 DEF Die
  <2> QED
    BY <1>2, <2>1, <2>2, <2>3, <2>4, <2>5, <2>6, <2>7, <2>8, <2>9, <2>10, <2>11 DEF Handshake
<1>3. CASE ParentCrash
  <2>1. backlog' \in [Dispatch -> Seq(Child)]
    BY <1>3 DEF ParentCrash
  <2> QED
    BY <1>3, <2>1 DEF ParentCrash, Over
<1>4. CASE UNCHANGED vars
  BY <1>4 DEF vars
<1>5. ASSUME NEW d \in Dispatch, WaitFails(d)
      PROVE  TypeOK' /\ Names'
  BY <1>5 DEF WaitFails
<1> QED
  BY <1>1, <1>2, <1>3, <1>4, <1>5 DEF Next, Quiet

(* A rendezvous stands until its own dispatch drops it: Unlink removes one  *)
(* name, and RemoveDir a directory with no file in it.                     *)
LEMMA StandsStep ==
  ASSUME IInv, [Next]_vars
  PROVE  RendezvousStands'
<1> USE BrokerAssumption DEF BrokerAssumption, IInv, TypeOK, Names, Child, Pcs,
      ChildStates, Sessions, Standing, RendezvousStands, Goto, Become, dirVars,
      kernelVars, childVars
<1>1. ASSUME NEW d \in Dispatch, Parent(d)
      PROVE  RendezvousStands'
  <2>1. CASE MakeDir(d)
    BY <2>1 DEF MakeDir
  <2>2. CASE MakeDirFails(d)
    BY <2>2 DEF MakeDirFails
  <2>3. CASE TakeName(d)
    BY <2>3 DEF TakeName
  <2>4. CASE Bind(d)
    BY <2>4 DEF Bind
  <2>5. CASE BindFails(d)
    BY <2>5 DEF BindFails
  <2>6. CASE NonblockFails(d)
    BY <2>6 DEF NonblockFails
  <2>7. CASE Spawn(d)
    BY <2>7 DEF Spawn
  <2>8. CASE SpawnFails(d)
    BY <2>8 DEF SpawnFails
  <2>9. CASE Capture(d)
    BY <2>9 DEF Capture
  <2>10. CASE CaptureFails(d)
    BY <2>10 DEF CaptureFails
  <2>11. CASE Accept(d)
    BY <2>11 DEF Accept
  <2>12. CASE AcceptTimesOut(d)
    BY <2>12 DEF AcceptTimesOut, ServeFails
  <2>13. CASE AcceptFails(d)
    BY <2>13 DEF AcceptFails, ServeFails
  <2>14. CASE PeerIsChild(d)
    BY <2>14 DEF PeerIsChild
  <2>15. CASE PeerIsStranger(d)
    BY <2>15 DEF PeerIsStranger, ServeFails
  <2>16. CASE PeerUnknown(d)
    BY <2>16 DEF PeerUnknown, ServeFails
  <2>17. CASE Send(d)
    BY <2>17 DEF Send
  <2>18. CASE SendFails(d)
    BY <2>18 DEF SendFails, ServeFails
  <2>19. CASE Unlink(d)
    BY <2>19 DEF Unlink
  <2>20. CASE RemoveDir(d)
    BY <2>20 DEF RemoveDir
  <2>21. CASE CloseListener(d)
    BY <2>21 DEF CloseListener, AfterServe
  <2>22. CASE WaitForChild(d)
    BY <2>22 DEF WaitForChild
  <2>23. CASE UnlinkFails(d)
    BY <2>23 DEF UnlinkFails
  <2>24. CASE RemoveDirFails(d)
    BY <2>24 DEF RemoveDirFails
  <2> QED
    BY <1>1, <2>1, <2>2, <2>3, <2>4, <2>5, <2>6, <2>7, <2>8, <2>9, <2>10, <2>11,
       <2>12, <2>13, <2>14, <2>15, <2>16, <2>17, <2>18, <2>19, <2>20, <2>21,
       <2>22, <2>23, <2>24
       DEF Parent, Create, Serve, Drop
<1>2. ASSUME NEW c \in Child, Handshake(c) \/ HandshakeError(c) \/ Finish(c) \/ Die(c)
      PROVE  RendezvousStands'
  <2>1. CASE TakeRendezvous(c)
    BY <2>1 DEF TakeRendezvous
  <2>2. CASE UseIdentity(c)
    BY <2>2 DEF UseIdentity
  <2>3. CASE Connect(c)
    BY <2>3 DEF Connect
  <2>4. CASE ConnectNotFound(c)
    BY <2>4 DEF ConnectNotFound
  <2>5. CASE ConnectTimesOut(c)
    BY <2>5 DEF ConnectTimesOut
  <2>6. CASE Receive(c)
    BY <2>6 DEF Receive
  <2>7. CASE ReceiveMalformed(c)
    BY <2>7 DEF ReceiveMalformed
  <2>8. CASE ReceiveEof(c)
    BY <2>8 DEF ReceiveEof
  <2>9. CASE HandshakeError(c)
    BY <2>9 DEF HandshakeError
  <2>10. CASE Finish(c)
    BY <2>10 DEF Finish
  <2>11. CASE Die(c)
    BY <2>11 DEF Die
  <2> QED
    BY <1>2, <2>1, <2>2, <2>3, <2>4, <2>5, <2>6, <2>7, <2>8, <2>9, <2>10, <2>11 DEF Handshake
<1>3. CASE ParentCrash
  BY <1>3 DEF ParentCrash, Over
<1>4. CASE UNCHANGED vars
  BY <1>4 DEF vars
<1>5. ASSUME NEW d \in Dispatch, WaitFails(d)
      PROVE  RendezvousStands'
  BY <1>5 DEF WaitFails
<1> QED
  BY <1>1, <1>2, <1>3, <1>4, <1>5 DEF Next, Quiet

(* A child's rendezvous is the one its own dispatch made, so no other       *)
(* dispatch ever finds it in its backlog.                                  *)
LEMMA ConnectionsStep ==
  ASSUME IInv, [Next]_vars
  PROVE  Dispatched' /\ Connections'
<1> USE BrokerAssumption DEF BrokerAssumption, IInv, TypeOK, Names, Child, Pcs,
      ChildStates, Sessions, Standing, Dispatched, Connections, Goto, Become,
      dirVars, kernelVars, childVars
<1>1. ASSUME NEW d \in Dispatch, Parent(d)
      PROVE  Dispatched' /\ Connections'
  <2>1. CASE MakeDir(d)
    BY <2>1 DEF MakeDir
  <2>2. CASE MakeDirFails(d)
    BY <2>2 DEF MakeDirFails
  <2>3. CASE TakeName(d)
    BY <2>3 DEF TakeName
  <2>4. CASE Bind(d)
    BY <2>4 DEF Bind
  <2>5. CASE BindFails(d)
    BY <2>5 DEF BindFails
  <2>6. CASE NonblockFails(d)
    BY <2>6 DEF NonblockFails
  <2>7. CASE Spawn(d)
    BY <2>7 DEF Spawn
  <2>8. CASE SpawnFails(d)
    BY <2>8 DEF SpawnFails
  <2>9. CASE Capture(d)
    BY <2>9 DEF Capture
  <2>10. CASE CaptureFails(d)
    BY <2>10 DEF CaptureFails
  <2>11. CASE Accept(d)
    BY <2>11 DEF Accept
  <2>12. CASE AcceptTimesOut(d)
    BY <2>12 DEF AcceptTimesOut, ServeFails
  <2>13. CASE AcceptFails(d)
    BY <2>13 DEF AcceptFails, ServeFails
  <2>14. CASE PeerIsChild(d)
    BY <2>14 DEF PeerIsChild
  <2>15. CASE PeerIsStranger(d)
    BY <2>15 DEF PeerIsStranger, ServeFails
  <2>16. CASE PeerUnknown(d)
    BY <2>16 DEF PeerUnknown, ServeFails
  <2>17. CASE Send(d)
    BY <2>17 DEF Send
  <2>18. CASE SendFails(d)
    BY <2>18 DEF SendFails, ServeFails
  <2>19. CASE Unlink(d)
    BY <2>19 DEF Unlink
  <2>20. CASE RemoveDir(d)
    BY <2>20 DEF RemoveDir
  <2>21. CASE CloseListener(d)
    BY <2>21 DEF CloseListener, AfterServe
  <2>22. CASE WaitForChild(d)
    BY <2>22 DEF WaitForChild
  <2>23. CASE UnlinkFails(d)
    BY <2>23 DEF UnlinkFails
  <2>24. CASE RemoveDirFails(d)
    BY <2>24 DEF RemoveDirFails
  <2> QED
    BY <1>1, <2>1, <2>2, <2>3, <2>4, <2>5, <2>6, <2>7, <2>8, <2>9, <2>10, <2>11,
       <2>12, <2>13, <2>14, <2>15, <2>16, <2>17, <2>18, <2>19, <2>20, <2>21,
       <2>22, <2>23, <2>24
       DEF Parent, Create, Serve, Drop
<1>2. ASSUME NEW c \in Child, Handshake(c) \/ HandshakeError(c) \/ Finish(c) \/ Die(c)
      PROVE  Dispatched' /\ Connections'
  <2>1. CASE TakeRendezvous(c)
    BY <2>1 DEF TakeRendezvous
  <2>2. CASE UseIdentity(c)
    BY <2>2 DEF UseIdentity
  <2>3. CASE Connect(c)
    BY <2>3 DEF Connect
  <2>4. CASE ConnectNotFound(c)
    BY <2>4 DEF ConnectNotFound
  <2>5. CASE ConnectTimesOut(c)
    BY <2>5 DEF ConnectTimesOut
  <2>6. CASE Receive(c)
    BY <2>6 DEF Receive
  <2>7. CASE ReceiveMalformed(c)
    BY <2>7 DEF ReceiveMalformed
  <2>8. CASE ReceiveEof(c)
    BY <2>8 DEF ReceiveEof
  <2>9. CASE HandshakeError(c)
    BY <2>9 DEF HandshakeError
  <2>10. CASE Finish(c)
    BY <2>10 DEF Finish
  <2>11. CASE Die(c)
    BY <2>11 DEF Die
  <2> QED
    BY <1>2, <2>1, <2>2, <2>3, <2>4, <2>5, <2>6, <2>7, <2>8, <2>9, <2>10, <2>11 DEF Handshake
<1>3. CASE ParentCrash
  BY <1>3 DEF ParentCrash, Over
<1>4. CASE UNCHANGED vars
  BY <1>4 DEF vars
<1>5. ASSUME NEW d \in Dispatch, WaitFails(d)
      PROVE  Dispatched' /\ Connections'
  BY <1>5 DEF WaitFails
<1> QED
  BY <1>1, <1>2, <1>3, <1>4, <1>5 DEF Next, Quiet

(* What is sent, to whom, and what a child that ran was given.              *)
LEMMA SessionsStep ==
  ASSUME IInv, [Next]_vars
  PROVE  Carried' /\ OnlyItsChild' /\ Ran' /\ NeverUnconfined'
<1> USE BrokerAssumption DEF BrokerAssumption, IInv, TypeOK, Names, Child, Pcs,
      ChildStates, Sessions, Standing, Dispatched, Connections, Carried,
      OnlyItsChild, Ran, NeverUnconfined, Goto, Become, dirVars, kernelVars,
      childVars
<1>1. ASSUME NEW d \in Dispatch, Parent(d)
      PROVE  Carried' /\ OnlyItsChild' /\ Ran' /\ NeverUnconfined'
  <2>1. CASE MakeDir(d)
    BY <2>1 DEF MakeDir
  <2>2. CASE MakeDirFails(d)
    BY <2>2 DEF MakeDirFails
  <2>3. CASE TakeName(d)
    BY <2>3 DEF TakeName
  <2>4. CASE Bind(d)
    BY <2>4 DEF Bind
  <2>5. CASE BindFails(d)
    BY <2>5 DEF BindFails
  <2>6. CASE NonblockFails(d)
    BY <2>6 DEF NonblockFails
  <2>7. CASE Spawn(d)
    BY <2>7 DEF Spawn
  <2>8. CASE SpawnFails(d)
    BY <2>8 DEF SpawnFails
  <2>9. CASE Capture(d)
    BY <2>9 DEF Capture
  <2>10. CASE CaptureFails(d)
    BY <2>10 DEF CaptureFails
  <2>11. CASE Accept(d)
    BY <2>11 DEF Accept
  <2>12. CASE AcceptTimesOut(d)
    BY <2>12 DEF AcceptTimesOut, ServeFails
  <2>13. CASE AcceptFails(d)
    BY <2>13 DEF AcceptFails, ServeFails
  <2>14. CASE PeerIsChild(d)
    BY <2>14 DEF PeerIsChild
  <2>15. CASE PeerIsStranger(d)
    BY <2>15 DEF PeerIsStranger, ServeFails
  <2>16. CASE PeerUnknown(d)
    BY <2>16 DEF PeerUnknown, ServeFails
  <2>17. CASE Send(d)
    BY SMTT(60), <2>17 DEF Send
  <2>18. CASE SendFails(d)
    BY <2>18 DEF SendFails, ServeFails
  <2>19. CASE Unlink(d)
    BY <2>19 DEF Unlink
  <2>20. CASE RemoveDir(d)
    BY <2>20 DEF RemoveDir
  <2>21. CASE CloseListener(d)
    BY <2>21 DEF CloseListener, AfterServe
  <2>22. CASE WaitForChild(d)
    BY <2>22 DEF WaitForChild
  <2>23. CASE UnlinkFails(d)
    BY <2>23 DEF UnlinkFails
  <2>24. CASE RemoveDirFails(d)
    BY <2>24 DEF RemoveDirFails
  <2> QED
    BY <1>1, <2>1, <2>2, <2>3, <2>4, <2>5, <2>6, <2>7, <2>8, <2>9, <2>10, <2>11,
       <2>12, <2>13, <2>14, <2>15, <2>16, <2>17, <2>18, <2>19, <2>20, <2>21,
       <2>22, <2>23, <2>24
       DEF Parent, Create, Serve, Drop
<1>2. ASSUME NEW c \in Child, Handshake(c) \/ HandshakeError(c) \/ Finish(c) \/ Die(c)
      PROVE  Carried' /\ OnlyItsChild' /\ Ran' /\ NeverUnconfined'
  <2>1. CASE TakeRendezvous(c)
    BY <2>1 DEF TakeRendezvous
  <2>2. CASE UseIdentity(c)
    BY <2>2 DEF UseIdentity
  <2>3. CASE Connect(c)
    BY <2>3 DEF Connect
  <2>4. CASE ConnectNotFound(c)
    BY <2>4 DEF ConnectNotFound
  <2>5. CASE ConnectTimesOut(c)
    BY <2>5 DEF ConnectTimesOut
  <2>6. CASE Receive(c)
    BY <2>6 DEF Receive
  <2>7. CASE ReceiveMalformed(c)
    BY <2>7 DEF ReceiveMalformed
  <2>8. CASE ReceiveEof(c)
    BY <2>8 DEF ReceiveEof
  <2>9. CASE HandshakeError(c)
    BY <2>9 DEF HandshakeError
  <2>10. CASE Finish(c)
    BY <2>10 DEF Finish
  <2>11. CASE Die(c)
    BY <2>11 DEF Die
  <2> QED
    BY <1>2, <2>1, <2>2, <2>3, <2>4, <2>5, <2>6, <2>7, <2>8, <2>9, <2>10, <2>11 DEF Handshake
<1>3. CASE ParentCrash
  BY <1>3 DEF ParentCrash, Over
<1>4. CASE UNCHANGED vars
  BY <1>4 DEF vars
<1>5. ASSUME NEW d \in Dispatch, WaitFails(d)
      PROVE  Carried' /\ OnlyItsChild' /\ Ran' /\ NeverUnconfined'
  BY <1>5 DEF WaitFails
<1> QED
  BY <1>1, <1>2, <1>3, <1>4, <1>5 DEF Next, Quiet

(* No file is forgotten: a dispatch leaves the owners only by removing its  *)
(* file, or by failing to.                                                 *)
LEMMA FilesStep ==
  ASSUME IInv, [Next]_vars
  PROVE  OwnedFiles'
<1> USE BrokerAssumption DEF BrokerAssumption, IInv, TypeOK, Names, Child, Pcs,
      ChildStates, Sessions, Standing, OwnedFiles, RendezvousStands, Goto,
      Become, dirVars, kernelVars, childVars
<1>1. ASSUME NEW d \in Dispatch, Parent(d)
      PROVE  OwnedFiles'
  <2>1. CASE MakeDir(d)
    <3> SUFFICES ASSUME NEW f \in files
                 PROVE  \E e \in Dispatch : /\ sock'[e] = f
                                            /\ \/ pc'[e] \in Standing \cup {"nocreate", "crashed"}
                                               \/ <<e, "file">> \in left
      BY <2>1 DEF MakeDir
    <3>1. PICK e \in Dispatch : /\ sock[e] = f
                               /\ \/ pc[e] \in Standing \cup {"nocreate", "crashed"}
                                  \/ <<e, "file">> \in left
      OBVIOUS
    <3>2. e # d
      BY <2>1, <3>1 DEF MakeDir
    <3>3. sock'[e] = f /\ pc'[e] = pc[e]
      BY <2>1, <3>1, <3>2 DEF MakeDir
    <3> QED
      BY <3>1, <3>2, <3>3
  <2>2. CASE MakeDirFails(d)
    <3> SUFFICES ASSUME NEW f \in files
                 PROVE  \E e \in Dispatch : /\ sock'[e] = f
                                            /\ \/ pc'[e] \in Standing \cup {"nocreate", "crashed"}
                                               \/ <<e, "file">> \in left
      BY <2>2 DEF MakeDirFails
    <3>1. PICK e \in Dispatch : /\ sock[e] = f
                               /\ \/ pc[e] \in Standing \cup {"nocreate", "crashed"}
                                  \/ <<e, "file">> \in left
      OBVIOUS
    <3>2. e # d
      BY <2>2, <3>1 DEF MakeDirFails
    <3>3. sock'[e] = f /\ pc'[e] = pc[e]
      BY <2>2, <3>1, <3>2 DEF MakeDirFails
    <3> QED
      BY <3>1, <3>2, <3>3
  <2>3. CASE TakeName(d)
    <3> SUFFICES ASSUME NEW f \in files
                 PROVE  \E e \in Dispatch : /\ sock'[e] = f
                                            /\ \/ pc'[e] \in Standing \cup {"nocreate", "crashed"}
                                               \/ <<e, "file">> \in left
      BY <2>3 DEF TakeName
    <3>1. PICK e \in Dispatch : /\ sock[e] = f
                               /\ \/ pc[e] \in Standing \cup {"nocreate", "crashed"}
                                  \/ <<e, "file">> \in left
      OBVIOUS
    <3>2. e # d
      BY <2>3, <3>1 DEF TakeName
    <3>3. sock'[e] = f /\ pc'[e] = pc[e]
      BY <2>3, <3>1, <3>2 DEF TakeName
    <3> QED
      BY <3>1, <3>2, <3>3
  <2>4. CASE Bind(d)
    <3> SUFFICES ASSUME NEW f \in files \cup {sock[d]}
                 PROVE  \E e \in Dispatch : /\ sock[e] = f
                                            /\ \/ pc'[e] \in Standing \cup {"nocreate", "crashed"}
                                               \/ <<e, "file">> \in left
      BY <2>4 DEF Bind
    <3>1. CASE f = sock[d]
      BY <2>4, <3>1 DEF Bind
    <3>2. CASE f \in files
      <4>1. PICK e \in Dispatch : /\ sock[e] = f
                                 /\ \/ pc[e] \in Standing \cup {"nocreate", "crashed"}
                                    \/ <<e, "file">> \in left
        BY <3>2
      <4>2. e # d
        BY <2>4, <3>2, <4>1 DEF Bind
      <4>3. pc'[e] = pc[e]
        BY <2>4, <4>1, <4>2 DEF Bind
      <4> QED
        BY <4>1, <4>3
    <3> QED
      BY <3>1, <3>2
  <2>5. CASE BindFails(d)
    BY ZenonT(60), <2>5 DEF BindFails
  <2>6. CASE NonblockFails(d)
    <3> SUFFICES ASSUME NEW f \in files \cup {sock[d]}
                 PROVE  \E e \in Dispatch : /\ sock[e] = f
                                            /\ \/ pc'[e] \in Standing \cup {"nocreate", "crashed"}
                                               \/ <<e, "file">> \in left
      BY <2>6 DEF NonblockFails
    <3>1. CASE f = sock[d]
      BY <2>6, <3>1 DEF NonblockFails
    <3>2. CASE f \in files
      <4>1. PICK e \in Dispatch : /\ sock[e] = f
                                 /\ \/ pc[e] \in Standing \cup {"nocreate", "crashed"}
                                    \/ <<e, "file">> \in left
        BY <3>2
      <4>2. e # d
        BY <2>6, <3>2, <4>1 DEF NonblockFails
      <4>3. pc'[e] = pc[e]
        BY <2>6, <4>1, <4>2 DEF NonblockFails
      <4> QED
        BY <4>1, <4>3
    <3> QED
      BY <3>1, <3>2
  <2>7. CASE Spawn(d)
    BY ZenonT(60), <2>7 DEF Spawn
  <2>8. CASE SpawnFails(d)
    BY ZenonT(60), <2>8 DEF SpawnFails
  <2>9. CASE Capture(d)
    BY ZenonT(60), <2>9 DEF Capture
  <2>10. CASE CaptureFails(d)
    BY ZenonT(60), <2>10 DEF CaptureFails
  <2>11. CASE Accept(d)
    BY ZenonT(60), <2>11 DEF Accept
  <2>12. CASE AcceptTimesOut(d)
    BY ZenonT(60), <2>12 DEF AcceptTimesOut, ServeFails
  <2>13. CASE AcceptFails(d)
    BY ZenonT(60), <2>13 DEF AcceptFails, ServeFails
  <2>14. CASE PeerIsChild(d)
    BY ZenonT(60), <2>14 DEF PeerIsChild
  <2>15. CASE PeerIsStranger(d)
    BY ZenonT(60), <2>15 DEF PeerIsStranger, ServeFails
  <2>16. CASE PeerUnknown(d)
    BY ZenonT(60), <2>16 DEF PeerUnknown, ServeFails
  <2>17. CASE Send(d)
    BY ZenonT(60), <2>17 DEF Send
  <2>18. CASE SendFails(d)
    BY ZenonT(60), <2>18 DEF SendFails, ServeFails
  <2>19. CASE Unlink(d)
    BY ZenonT(60), <2>19 DEF Unlink
  <2>20. CASE RemoveDir(d)
    BY ZenonT(60), <2>20 DEF RemoveDir
  <2>21. CASE CloseListener(d)
    BY ZenonT(60), <2>21 DEF CloseListener, AfterServe
  <2>22. CASE WaitForChild(d)
    BY ZenonT(60), <2>22 DEF WaitForChild
  <2>23. CASE UnlinkFails(d)
    BY ZenonT(60), <2>23 DEF UnlinkFails
  <2>24. CASE RemoveDirFails(d)
    BY ZenonT(60), <2>24 DEF RemoveDirFails
  <2> QED
    BY <1>1, <2>1, <2>2, <2>3, <2>4, <2>5, <2>6, <2>7, <2>8, <2>9, <2>10, <2>11,
       <2>12, <2>13, <2>14, <2>15, <2>16, <2>17, <2>18, <2>19, <2>20, <2>21,
       <2>22, <2>23, <2>24
       DEF Parent, Create, Serve, Drop
<1>2. ASSUME NEW c \in Child, Handshake(c) \/ HandshakeError(c) \/ Finish(c) \/ Die(c)
      PROVE  OwnedFiles'
  <2>1. CASE TakeRendezvous(c)
    BY <2>1 DEF TakeRendezvous
  <2>2. CASE UseIdentity(c)
    BY <2>2 DEF UseIdentity
  <2>3. CASE Connect(c)
    BY <2>3 DEF Connect
  <2>4. CASE ConnectNotFound(c)
    BY <2>4 DEF ConnectNotFound
  <2>5. CASE ConnectTimesOut(c)
    BY <2>5 DEF ConnectTimesOut
  <2>6. CASE Receive(c)
    BY <2>6 DEF Receive
  <2>7. CASE ReceiveMalformed(c)
    BY <2>7 DEF ReceiveMalformed
  <2>8. CASE ReceiveEof(c)
    BY <2>8 DEF ReceiveEof
  <2>9. CASE HandshakeError(c)
    BY <2>9 DEF HandshakeError
  <2>10. CASE Finish(c)
    BY <2>10 DEF Finish
  <2>11. CASE Die(c)
    BY <2>11 DEF Die
  <2> QED
    BY <1>2, <2>1, <2>2, <2>3, <2>4, <2>5, <2>6, <2>7, <2>8, <2>9, <2>10, <2>11 DEF Handshake
<1>3. CASE ParentCrash
  BY <1>3 DEF ParentCrash, Over
<1>4. CASE UNCHANGED vars
  BY <1>4 DEF vars
<1>5. ASSUME NEW d \in Dispatch, WaitFails(d)
      PROVE  OwnedFiles'
  BY <1>5 DEF WaitFails
<1> QED
  BY <1>1, <1>2, <1>3, <1>4, <1>5 DEF Next, Quiet

(* Nor is the directory: the last dispatch in it removes it, if it can.     *)
LEMMA DirStep ==
  ASSUME IInv, [Next]_vars
  PROVE  OwnedDir'
<1> USE BrokerAssumption DEF BrokerAssumption, IInv, TypeOK, Names, Child, Pcs,
      ChildStates, Sessions, Standing, OwnedDir, OwnedFiles, Goto, Become,
      dirVars, kernelVars, childVars
<1>1. ASSUME NEW d \in Dispatch, Parent(d)
      PROVE  OwnedDir'
  <2>1. CASE MakeDir(d)
    BY <2>1 DEF MakeDir
  <2>2. CASE MakeDirFails(d)
    BY <2>2 DEF MakeDirFails
  <2>3. CASE TakeName(d)
    BY <2>3 DEF TakeName
  <2>4. CASE Bind(d)
    BY <2>4 DEF Bind
  <2>5. CASE BindFails(d)
    BY <2>5 DEF BindFails
  <2>6. CASE NonblockFails(d)
    BY <2>6 DEF NonblockFails
  <2>7. CASE Spawn(d)
    BY <2>7 DEF Spawn
  <2>8. CASE SpawnFails(d)
    BY <2>8 DEF SpawnFails
  <2>9. CASE Capture(d)
    BY <2>9 DEF Capture
  <2>10. CASE CaptureFails(d)
    BY <2>10 DEF CaptureFails
  <2>11. CASE Accept(d)
    BY <2>11 DEF Accept
  <2>12. CASE AcceptTimesOut(d)
    BY <2>12 DEF AcceptTimesOut, ServeFails
  <2>13. CASE AcceptFails(d)
    BY <2>13 DEF AcceptFails, ServeFails
  <2>14. CASE PeerIsChild(d)
    BY <2>14 DEF PeerIsChild
  <2>15. CASE PeerIsStranger(d)
    BY <2>15 DEF PeerIsStranger, ServeFails
  <2>16. CASE PeerUnknown(d)
    BY <2>16 DEF PeerUnknown, ServeFails
  <2>17. CASE Send(d)
    BY <2>17 DEF Send
  <2>18. CASE SendFails(d)
    BY <2>18 DEF SendFails, ServeFails
  <2>19. CASE Unlink(d)
    BY <2>19 DEF Unlink
  <2>20. CASE RemoveDir(d)
    <3>1. CASE files = {}
      BY ZenonT(60), <2>20, <3>1 DEF RemoveDir
    <3>2. CASE files # {}
      <4>1. CASE left # {}
        BY <2>20, <4>1 DEF RemoveDir
      <4>2. CASE left = {}
        <5>1. PICK e \in Dispatch : pc[e] \in Standing \cup {"nocreate", "crashed"}
          BY <3>2, <4>2
        <5>2. up /\ e # d /\ pc[e] # "crashed"
          BY <2>20, <5>1 DEF RemoveDir
        <5>3. pc'[e] = pc[e] /\ \A x \in Dispatch : pc'[x] # "crashed"
          BY <2>20, <5>1, <5>2 DEF RemoveDir
        <5> QED
          BY <2>20, <5>1, <5>2, <5>3 DEF RemoveDir
      <4> QED
        BY <4>1, <4>2
    <3> QED
      BY <3>1, <3>2
  <2>21. CASE CloseListener(d)
    BY <2>21 DEF CloseListener, AfterServe
  <2>22. CASE WaitForChild(d)
    BY <2>22 DEF WaitForChild
  <2>23. CASE UnlinkFails(d)
    BY <2>23 DEF UnlinkFails
  <2>24. CASE RemoveDirFails(d)
    BY <2>24 DEF RemoveDirFails
  <2> QED
    BY <1>1, <2>1, <2>2, <2>3, <2>4, <2>5, <2>6, <2>7, <2>8, <2>9, <2>10, <2>11,
       <2>12, <2>13, <2>14, <2>15, <2>16, <2>17, <2>18, <2>19, <2>20, <2>21,
       <2>22, <2>23, <2>24
       DEF Parent, Create, Serve, Drop
<1>2. ASSUME NEW c \in Child, Handshake(c) \/ HandshakeError(c) \/ Finish(c) \/ Die(c)
      PROVE  OwnedDir'
  <2>1. CASE TakeRendezvous(c)
    BY <2>1 DEF TakeRendezvous
  <2>2. CASE UseIdentity(c)
    BY <2>2 DEF UseIdentity
  <2>3. CASE Connect(c)
    BY <2>3 DEF Connect
  <2>4. CASE ConnectNotFound(c)
    BY <2>4 DEF ConnectNotFound
  <2>5. CASE ConnectTimesOut(c)
    BY <2>5 DEF ConnectTimesOut
  <2>6. CASE Receive(c)
    BY <2>6 DEF Receive
  <2>7. CASE ReceiveMalformed(c)
    BY <2>7 DEF ReceiveMalformed
  <2>8. CASE ReceiveEof(c)
    BY <2>8 DEF ReceiveEof
  <2>9. CASE HandshakeError(c)
    BY <2>9 DEF HandshakeError
  <2>10. CASE Finish(c)
    BY <2>10 DEF Finish
  <2>11. CASE Die(c)
    BY <2>11 DEF Die
  <2> QED
    BY <1>2, <2>1, <2>2, <2>3, <2>4, <2>5, <2>6, <2>7, <2>8, <2>9, <2>10, <2>11 DEF Handshake
<1>3. CASE ParentCrash
  BY <1>3 DEF ParentCrash, Over
<1>4. CASE UNCHANGED vars
  BY <1>4 DEF vars
<1>5. ASSUME NEW d \in Dispatch, WaitFails(d)
      PROVE  OwnedDir'
  BY <1>5 DEF WaitFails
<1> QED
  BY <1>1, <1>2, <1>3, <1>4, <1>5 DEF Next, Quiet

-----------------------------------------------------------------------------
(* The inductive invariant holds in every reachable state.                  *)
THEOREM Invariance == Spec => []IInv
<1>1. Init => IInv
  BY IInvInit
<1>2. IInv /\ [Next]_vars => IInv'
  <2> SUFFICES ASSUME IInv, [Next]_vars PROVE IInv'
    OBVIOUS
  <2> QED
    BY NamesStep, StandsStep, FilesStep, DirStep, ConnectionsStep, SessionsStep DEF IInv
<1> QED
  BY <1>1, <1>2, PTL DEF Spec

(* The broker's state keeps its shape (TypeOK).                             *)
THEOREM TypeCorrect == Spec => []TypeOK
<1>1. IInv => TypeOK
  BY DEF IInv
<1> QED
  BY <1>1, Invariance, PTL

(* Rendezvous::serve delivers a session to the child it was captured for,   *)
(* whoever else connects.                                                  *)
THEOREM Delivery == Spec => []OnlyItsChild
<1>1. IInv => OnlyItsChild
  BY DEF IInv
<1> QED
  BY <1>1, Invariance, PTL

(* A dispatched child works in its dispatcher's namespace or not at all     *)
(* (install_dispatch_session).                                             *)
THEOREM Confinement == Spec => []NeverUnconfined
<1>1. IInv => NeverUnconfined
  BY DEF IInv
<1> QED
  BY <1>1, Invariance, PTL

(* No dispatch's Drop takes the socket or the directory from another.       *)
THEOREM Standfast == Spec => []RendezvousStands
<1>1. IInv => RendezvousStands
  BY DEF IInv
<1> QED
  BY <1>1, Invariance, PTL

(* A stranger at a rendezvous was run by hand (next_id).                    *)
THEOREM Strangers == Spec => []StrangerIsByHand
<1>1. IInv => StrangerIsByHand
  BY DEF IInv, Connections, StrangerIsByHand
<1> QED
  BY <1>1, Invariance, PTL

(* Serve before wait never leaves parent and child waiting on each other.   *)
THEOREM Handoff == Spec => []NoMutualWait
<1>1. IInv => NoMutualWait
  <2> SUFFICES ASSUME IInv, NEW d \in Dispatch, pc[d] = "wait"
               PROVE  d \notin listening /\ ~Open(d)
    BY DEF NoMutualWait
  <2>1. d \notin listening /\ backlog[d] = <<>> /\ stream[d] = None
    BY DEF IInv, Connections, Standing
  <2>2. conn[d] \in {d, None}
    BY DEF IInv, Connections
  <2> QED
    BY <2>1, <2>2, BrokerAssumption DEF Open, Queued, BrokerAssumption
<1> QED
  BY <1>1, Invariance, PTL

(* A dispatch that returns an error from before its wait has run nothing.   *)
THEOREM Failure == Spec => []ServeErrorMeansNothingRan
<1>1. IInv => ServeErrorMeansNothingRan
  BY DEF IInv, Ran, ServeErrorMeansNothingRan
<1> QED
  BY <1>1, Invariance, PTL

(* Drop for Rendezvous leaves nothing behind that it could remove.          *)
THEOREM Tidiness == Spec => []NoLitter
<1>1. IInv => NoLitter
  BY DEF IInv, OwnedFiles, OwnedDir, NoLitter, Standing
<1> QED
  BY <1>1, Invariance, PTL
-----------------------------------------------------------------------------
(* The broker implements the handover of SessionHandover: a step either     *)
(* decides one child, for its dispatcher's session or against, or decides  *)
(* nothing.                                                                *)

(* No step of the parent decides anything: only the child installs.         *)
LEMMA ParentDecidesNothing ==
  ASSUME IInv, NEW d \in Dispatch, Parent(d)
  PROVE  UNCHANGED Handover!vars
<1> USE DEF IInv, TypeOK, Dispatched, Child, ChildStates, Become, Handover!vars, childVars
<1>1. CASE MakeDir(d)
  BY <1>1 DEF MakeDir
<1>2. CASE MakeDirFails(d)
  BY <1>2 DEF MakeDirFails
<1>3. CASE TakeName(d)
  BY <1>3 DEF TakeName
<1>4. CASE Bind(d)
  BY <1>4 DEF Bind
<1>5. CASE BindFails(d)
  BY <1>5 DEF BindFails
<1>6. CASE NonblockFails(d)
  BY <1>6 DEF NonblockFails
<1>7. CASE Spawn(d)
  BY <1>7 DEF Spawn
<1>8. CASE SpawnFails(d)
  BY <1>8 DEF SpawnFails
<1>9. CASE Capture(d)
  BY <1>9 DEF Capture
<1>10. CASE CaptureFails(d)
  BY <1>10 DEF CaptureFails
<1>11. CASE Accept(d)
  BY <1>11 DEF Accept
<1>12. CASE AcceptTimesOut(d)
  BY <1>12 DEF AcceptTimesOut, ServeFails
<1>13. CASE AcceptFails(d)
  BY <1>13 DEF AcceptFails, ServeFails
<1>14. CASE PeerIsChild(d)
  BY <1>14 DEF PeerIsChild
<1>15. CASE PeerIsStranger(d)
  BY <1>15 DEF PeerIsStranger, ServeFails
<1>16. CASE PeerUnknown(d)
  BY <1>16 DEF PeerUnknown, ServeFails
<1>17. CASE Send(d)
  BY <1>17 DEF Send
<1>18. CASE SendFails(d)
  BY <1>18 DEF SendFails, ServeFails
<1>19. CASE Unlink(d)
  BY <1>19 DEF Unlink
<1>20. CASE RemoveDir(d)
  BY <1>20 DEF RemoveDir
<1>21. CASE CloseListener(d)
  BY <1>21 DEF CloseListener, AfterServe
<1>22. CASE WaitForChild(d)
  BY <1>22 DEF WaitForChild
<1>23. CASE UnlinkFails(d)
  BY <1>23 DEF UnlinkFails
<1>24. CASE RemoveDirFails(d)
  BY <1>24 DEF RemoveDirFails
<1> QED
  BY <1>1, <1>2, <1>3, <1>4, <1>5, <1>6, <1>7, <1>8, <1>9, <1>10, <1>11, <1>12,
     <1>13, <1>14, <1>15, <1>16, <1>17, <1>18, <1>19, <1>20, <1>21, <1>22,
     <1>23, <1>24
     DEF Parent, Create, Serve, Drop

(* A child that gives up, or dies, before it has a session is turned away.  *)
LEMMA Refusing ==
  ASSUME IInv, NEW c \in Child, child[c] \in {"started", "connect", "receive"},
         NEW state \in {"refused", "dead"}, Become(c, state), UNCHANGED ambient
  PROVE  [Handover!Next]_(Handover!vars)
<1> USE DEF IInv, TypeOK, Become, Child
<1>1. CASE c \notin Dispatch
  BY <1>1 DEF Handover!vars
<1>2. CASE c \in Dispatch
  <2>1. Handover!TurnAway(c)
    BY <1>2 DEF Handover!TurnAway
  <2> QED
    BY <1>2, <2>1 DEF Handover!Next
<1> QED
  BY <1>1, <1>2

(* A child that receives a session receives its dispatcher's: HandOver.     *)
LEMMA Receiving ==
  ASSUME IInv, NEW c \in Child, Receive(c)
  PROVE  [Handover!Next]_(Handover!vars)
<1> USE BrokerAssumption DEF BrokerAssumption, IInv, TypeOK, Child, Receive, Become
<1>1. c \in Dispatch /\ inbox[c] = SessionOf[c]
  BY DEF OnlyItsChild
<1>2. Handover!HandOver(c)
  BY <1>1 DEF Handover!HandOver
<1> QED
  BY <1>1, <1>2 DEF Handover!Next

(* A step of a child decides that child, or nothing.                        *)
LEMMA ChildDecides ==
  ASSUME IInv, NEW c \in Child, Handshake(c) \/ HandshakeError(c) \/ Finish(c) \/ Die(c)
  PROVE  [Handover!Next]_(Handover!vars)
<1>1. CASE TakeRendezvous(c) \/ Connect(c) \/ Finish(c)
  BY <1>1 DEF TakeRendezvous, Connect, Finish, IInv, TypeOK, Child, Become, Handover!vars
<1>2. CASE UseIdentity(c)
  <2>1. c \notin Dispatch
    BY <1>2, BrokerAssumption DEF BrokerAssumption, UseIdentity, IInv, Dispatched
  <2> QED
    BY <1>2, <2>1 DEF UseIdentity, IInv, TypeOK, Child, Become, Handover!vars
<1>3. CASE ConnectNotFound(c) \/ ConnectTimesOut(c)
  BY <1>3, Refusing DEF ConnectNotFound, ConnectTimesOut
<1>4. CASE Receive(c)
  BY <1>4, Receiving
<1>5. CASE ReceiveMalformed(c) \/ ReceiveEof(c) \/ HandshakeError(c)
  BY <1>5, Refusing DEF ReceiveMalformed, ReceiveEof, HandshakeError
<1>6. CASE Die(c)
  BY <1>6, Refusing DEF Die
<1> QED
  BY <1>1, <1>2, <1>3, <1>4, <1>5, <1>6 DEF Handshake

(* The handover is implemented, for any number of dispatches.               *)
THEOREM Implementation == Spec => ImplementsHandover
<1>1. Init => Handover!Init
  BY BrokerAssumption DEF BrokerAssumption, Init, Handover!Init, Child
<1>2. IInv /\ [Next]_vars => [Handover!Next]_(Handover!vars)
  <2> SUFFICES ASSUME IInv, [Next]_vars PROVE [Handover!Next]_(Handover!vars)
    OBVIOUS
  <2>1. CASE ParentCrash \/ UNCHANGED vars
    BY <2>1 DEF ParentCrash, vars, childVars, Handover!vars
  <2>2. ASSUME NEW d \in Dispatch, WaitFails(d) PROVE UNCHANGED Handover!vars
    BY <2>2 DEF WaitFails, childVars, Handover!vars
  <2> QED
    BY <2>1, <2>2, ParentDecidesNothing, ChildDecides DEF Next, Quiet
<1> QED
  BY <1>1, <1>2, Invariance, PTL DEF Spec, ImplementsHandover, Handover!Spec
=============================================================================
