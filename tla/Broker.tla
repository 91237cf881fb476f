------------------------------- MODULE Broker -------------------------------
(***************************************************************************)
(* The session broker (brush-core/src/broker, Unix half) between one       *)
(* parent process and the children it dispatches, with its two callers:    *)
(* `execute_external_command` of the shell and `BrokerExecutor::run` of    *)
(* the platform.                                                           *)
(*                                                                         *)
(* Several dispatches of one process run at once (a pipeline of bundled    *)
(* commands, `&` lists).  They share the process's scratch directory; each *)
(* has a socket file of its own in it.  A dispatch is a sequence of system *)
(* calls, one action each, because another dispatch may run between any    *)
(* two of them.  Processes started by hand with a dispatch command line    *)
(* run the same child code; they may or may not carry a rendezvous in      *)
(* their environment, and if they do it is not theirs.                     *)
(*                                                                         *)
(* Kernel objects are modelled from how this code uses them: a socket file *)
(* exists or not, a listener has a FIFO backlog, a connection the parent   *)
(* drops reads as end of file in the child.  Timeouts have no clock: a     *)
(* deadline may pass at any moment at which the code looks at it.          *)
(***************************************************************************)
EXTENDS Naturals, Sequences, FiniteSets

CONSTANTS
  Dispatch,    \* bundled dispatches of the parent; d also names d's child
  Hand,        \* processes run by hand with a dispatch command line
  HandTold,    \* the socket names a process run by hand may carry
  Executor,    \* the dispatches made by BrokerExecutor::run; the others are
               \* made by execute_external_command
  SessionOf,   \* the session of the shell or platform behind each dispatch
  Identity,    \* the unconfined namespace Policy::identity builds
  MaxLeft,     \* bound: the removals that may fail
  None         \* absent value

ASSUME BrokerAssumption ==
  /\ Dispatch \cap Hand = {}
  /\ HandTold \subseteq Nat
  /\ \A d \in Dispatch : SessionOf[d] \notin {Identity, None}
  /\ Identity # None
  /\ MaxLeft \in Nat
  /\ None \notin Dispatch \cup Hand \cup Nat

VARIABLES
  up,        \* the parent process is alive
  pc,        \* where each dispatch is
  nextId,    \* the NEXT counter of next_id
  sock,      \* the name of each dispatch's socket file
  scratch,   \* the scratch directory exists
  files,     \* the socket files in it
  left,      \* what each dispatch could not remove (history: <<d, what>>)
  listening, \* the dispatches whose listener is open
  backlog,   \* the connections waiting at each listener, oldest first
  stream,    \* the connection each dispatch has accepted and still holds
  payload,   \* the session each dispatch has captured for sending
  served,    \* the dispatches whose serve returned Ok
  child,     \* where each child is
  told,      \* the rendezvous each child reads from its environment
  conn,      \* the dispatch at the other end of each child's connection
  inbox,     \* the message sent on each child's connection
  ambient    \* the session installed in each child

dirVars    == <<nextId, sock, scratch, files, left>>
kernelVars == <<listening, backlog, stream>>
childVars  == <<child, told, conn, inbox, ambient>>
vars == <<up, pc, dirVars, kernelVars, payload, served, childVars>>

Child == Dispatch \cup Hand

(* "unlink", "rmdir" and "close" are the steps of dropping a rendezvous;   *)
(* "nocreate" is an error return before there was one, "failed" one of the *)
(* spawn or of `serve`, and "lost" one of the wait for the child.          *)
Pcs == {"idle", "name", "bind", "spawn", "capture", "accept", "check", "send",
        "unlink", "rmdir", "close", "wait",
        "done", "failed", "nocreate", "lost", "crashed"}
Over == {"done", "failed", "nocreate", "lost", "crashed"}

ChildStates == {"unborn", "started", "connect", "receive", "working",
                "exited", "refused", "dead"}
Ended == {"exited", "refused", "dead"}

Sessions == {SessionOf[d] : d \in Dispatch}

Goto(d, to) == up /\ pc' = [pc EXCEPT ![d] = to]
Become(c, state) == child' = [child EXCEPT ![c] = state]

(* A child's connection is open while the parent has it queued or accepted. *)
Queued(c, d) == \E i \in 1..Len(backlog[d]) : backlog[d][i] = c
Open(c) == \E d \in Dispatch : conn[c] = d /\ (Queued(c, d) \/ stream[d] = c)
-----------------------------------------------------------------------------
Init ==
  /\ up = TRUE
  /\ pc = [d \in Dispatch |-> "idle"]
  /\ nextId = 0
  /\ sock = [d \in Dispatch |-> None]
  /\ scratch = FALSE
  /\ files = {}
  /\ left = {}
  /\ listening = {}
  /\ backlog = [d \in Dispatch |-> <<>>]
  /\ stream = [d \in Dispatch |-> None]
  /\ payload = [d \in Dispatch |-> None]
  /\ served = {}
  /\ child = [c \in Child |-> IF c \in Hand THEN "started" ELSE "unborn"]
  /\ \E t \in [Hand -> HandTold \cup {None}] :
       told = [c \in Child |-> IF c \in Hand THEN t[c] ELSE None]
  /\ conn = [c \in Child |-> None]
  /\ inbox = [c \in Child |-> None]
  /\ ambient = [c \in Child |-> None]
-----------------------------------------------------------------------------
(* Rendezvous::create.                                                     *)

(* mkdir -p: an existing directory is a success. *)
MakeDir(d) ==
  /\ pc[d] = "idle"
  /\ scratch' = TRUE
  /\ Goto(d, "name")
  /\ UNCHANGED <<up, nextId, sock, files, left, kernelVars, payload, served, childVars>>

MakeDirFails(d) ==
  /\ pc[d] = "idle"
  /\ Goto(d, "nocreate")
  /\ UNCHANGED <<up, dirVars, kernelVars, payload, served, childVars>>

\* Variant: the counter is read but never advanced.
TakeNameStuck(d) ==
  /\ pc[d] = "name"
  /\ sock' = [sock EXCEPT ![d] = nextId]
  /\ Goto(d, "bind")
  /\ UNCHANGED <<up, nextId, scratch, files, left, kernelVars, payload, served, childVars>>

(* One atomic fetch_add, whatever the other dispatches do. *)
TakeName(d) ==
  /\ pc[d] = "name"
  /\ sock' = [sock EXCEPT ![d] = nextId]
  /\ nextId' = nextId + 1
  /\ Goto(d, "bind")
  /\ UNCHANGED <<up, scratch, files, left, kernelVars, payload, served, childVars>>

Bind(d) ==
  /\ pc[d] = "bind"
  /\ scratch
  /\ sock[d] \notin files
  /\ files' = files \cup {sock[d]}
  /\ listening' = listening \cup {d}
  /\ Goto(d, "spawn")
  /\ UNCHANGED <<up, nextId, sock, scratch, left, backlog, stream, payload, served, childVars>>

(* No rendezvous was made, so none is dropped: the directory stays as it is. *)
BindFails(d) ==
  /\ pc[d] = "bind"
  /\ Goto(d, "nocreate")
  /\ UNCHANGED <<up, dirVars, kernelVars, payload, served, childVars>>

(* Bound but not made non-blocking: an error with the socket file on disk   *)
(* and no rendezvous to remove it.                                         *)
NonblockFails(d) ==
  /\ pc[d] = "bind"
  /\ scratch
  /\ sock[d] \notin files
  /\ files' = files \cup {sock[d]}
  /\ Goto(d, "nocreate")
  /\ UNCHANGED <<up, nextId, sock, scratch, left, kernelVars, payload, served, childVars>>
-----------------------------------------------------------------------------
(* The spawn, and `serve`.                                                 *)

Spawn(d) ==
  /\ pc[d] = "spawn"
  /\ told' = [told EXCEPT ![d] = sock[d]]
  /\ Become(d, "started")
  /\ Goto(d, "capture")
  /\ UNCHANGED <<up, dirVars, kernelVars, payload, served, conn, inbox, ambient>>

SpawnFails(d) ==
  /\ pc[d] = "spawn"
  /\ Goto(d, "unlink")
  /\ UNCHANGED <<up, dirVars, kernelVars, payload, served, childVars>>

(* SessionPayload::capture duplicates every mount handle. *)
Capture(d) ==
  /\ pc[d] = "capture"
  /\ payload' = [payload EXCEPT ![d] = SessionOf[d]]
  /\ Goto(d, "accept")
  /\ UNCHANGED <<up, dirVars, kernelVars, served, childVars>>

(* The child has no pid to authenticate, or a handle cannot be duplicated. *)
CaptureFails(d) ==
  /\ pc[d] = "capture"
  /\ Goto(d, "unlink")
  /\ UNCHANGED <<up, dirVars, kernelVars, payload, served, childVars>>

Accept(d) ==
  /\ pc[d] = "accept"
  /\ backlog[d] # <<>>
  /\ stream' = [stream EXCEPT ![d] = Head(backlog[d])]
  /\ backlog' = [backlog EXCEPT ![d] = Tail(@)]
  /\ Goto(d, "check")
  /\ UNCHANGED <<up, dirVars, listening, payload, served, childVars>>

(* Every error return of `serve`: the stream and the payload are dropped,  *)
(* then the rendezvous.                                                    *)
ServeFails(d) ==
  /\ stream' = [stream EXCEPT ![d] = None]
  /\ payload' = [payload EXCEPT ![d] = None]
  /\ Goto(d, "unlink")
  /\ UNCHANGED <<up, dirVars, listening, backlog, served, childVars>>

\* Variant: accepting without a deadline.
AcceptForever(d) ==
  /\ pc[d] = "accept"
  /\ backlog[d] = <<>>
  /\ ~up
  /\ ServeFails(d)

(* The deadline is looked at only when there is nobody to accept. *)
AcceptTimesOut(d) ==
  /\ pc[d] = "accept"
  /\ backlog[d] = <<>>
  /\ ServeFails(d)

(* accept fails although somebody is waiting (no descriptor left). *)
AcceptFails(d) ==
  /\ pc[d] = "accept"
  /\ backlog[d] # <<>>
  /\ ServeFails(d)

\* Variant: the first to connect is taken for the child.
PeerIsAnyone(d) ==
  /\ pc[d] = "check"
  /\ Goto(d, "send")
  /\ UNCHANGED <<up, dirVars, kernelVars, payload, served, childVars>>

PeerIsChild(d) ==
  /\ pc[d] = "check"
  /\ stream[d] = d
  /\ Goto(d, "send")
  /\ UNCHANGED <<up, dirVars, kernelVars, payload, served, childVars>>

PeerIsStranger(d) ==
  /\ pc[d] = "check"
  /\ stream[d] # d
  /\ ServeFails(d)

(* The kernel does not say who the peer is. *)
PeerUnknown(d) ==
  /\ pc[d] = "check"
  /\ ServeFails(d)

Send(d) ==
  /\ pc[d] = "send"
  /\ child[stream[d]] # "dead"
  /\ inbox' = [inbox EXCEPT ![stream[d]] = payload[d]]
  /\ stream' = [stream EXCEPT ![d] = None]
  /\ payload' = [payload EXCEPT ![d] = None]
  /\ served' = served \cup {d}
  /\ Goto(d, "unlink")
  /\ UNCHANGED <<up, dirVars, listening, backlog, child, told, conn, ambient>>

\* Variant: an error after sendmsg has passed the descriptors.
SendFailsLate(d) ==
  /\ pc[d] = "send"
  /\ inbox' = [inbox EXCEPT ![stream[d]] = payload[d]]
  /\ stream' = [stream EXCEPT ![d] = None]
  /\ payload' = [payload EXCEPT ![d] = None]
  /\ Goto(d, "unlink")
  /\ UNCHANGED <<up, dirVars, listening, backlog, served, child, told, conn, ambient>>

(* The peer is gone, or the kernel will not pass the descriptors. *)
SendFails(d) ==
  /\ pc[d] = "send"
  /\ ServeFails(d)
-----------------------------------------------------------------------------
(* Drop for Rendezvous: the two removals, best effort ("leaving them behind *)
(* on a failure path is untidy rather than unsafe"), so that the error of  *)
(* either is discarded; then the listener closes with the fields.          *)

\* Variant: the socket file is removed on success only.
UnlinkServed(d) ==
  /\ pc[d] = "unlink"
  /\ files' = IF d \in served THEN files \ {sock[d]} ELSE files
  /\ Goto(d, "rmdir")
  /\ UNCHANGED <<up, nextId, sock, scratch, left, kernelVars, payload, served, childVars>>

Unlink(d) ==
  /\ pc[d] = "unlink"
  /\ files' = files \ {sock[d]}
  /\ Goto(d, "rmdir")
  /\ UNCHANGED <<up, nextId, sock, scratch, left, kernelVars, payload, served, childVars>>

UnlinkFails(d) ==
  /\ pc[d] = "unlink"
  /\ Cardinality(left) < MaxLeft
  /\ left' = left \cup {<<d, "file">>}
  /\ Goto(d, "rmdir")
  /\ UNCHANGED <<up, nextId, sock, scratch, files, kernelVars, payload, served, childVars>>

\* Variant: remove_dir_all.
RemoveDirAll(d) ==
  /\ pc[d] = "rmdir"
  /\ scratch' = FALSE
  /\ files' = {}
  /\ Goto(d, "close")
  /\ UNCHANGED <<up, nextId, sock, left, kernelVars, payload, served, childVars>>

(* remove_dir fails on a directory that is gone or is not empty ... *)
RemoveDir(d) ==
  /\ pc[d] = "rmdir"
  /\ scratch' = (scratch /\ files # {})
  /\ Goto(d, "close")
  /\ UNCHANGED <<up, nextId, sock, files, left, kernelVars, payload, served, childVars>>

(* ... and may fail on an empty one. *)
RemoveDirFails(d) ==
  /\ pc[d] = "rmdir"
  /\ scratch
  /\ files = {}
  /\ Cardinality(left) < MaxLeft
  /\ left' = left \cup {<<d, "dir">>}
  /\ Goto(d, "close")
  /\ UNCHANGED <<up, nextId, sock, scratch, files, kernelVars, payload, served, childVars>>

(* The shell reports a failed `serve` and waits for its child all the same; *)
(* the executor returns the error and leaves the child to itself.          *)
AfterServe(d) ==
  IF child[d] = "unborn" \/ (d \in Executor /\ d \notin served)
  THEN "failed" ELSE "wait"

\* Variant: the rendezvous outlives the wait for the child.
KeepListener(d) ==
  /\ pc[d] = "close"
  /\ Goto(d, AfterServe(d))
  /\ UNCHANGED <<up, dirVars, kernelVars, payload, served, childVars>>

CloseListener(d) ==
  /\ pc[d] = "close"
  /\ listening' = listening \ {d}
  /\ backlog' = [backlog EXCEPT ![d] = <<>>]
  /\ Goto(d, AfterServe(d))
  /\ UNCHANGED <<up, dirVars, stream, payload, served, childVars>>

WaitForChild(d) ==
  /\ pc[d] = "wait"
  /\ child[d] \in Ended
  /\ Goto(d, "done")
  /\ UNCHANGED <<up, dirVars, kernelVars, payload, served, childVars>>

(* The wait, or the reading of the child's output, fails, whatever the child *)
(* has done or is doing.  The executor maps that error by the function it  *)
(* maps a failed spawn by.                                                 *)
WaitFails(d) ==
  /\ pc[d] = "wait"
  /\ Goto(d, "lost")
  /\ UNCHANGED <<up, dirVars, kernelVars, payload, served, childVars>>

(* The parent process dies: its descriptors close, its files stay. *)
ParentCrash ==
  /\ up
  /\ up' = FALSE
  /\ pc' = [d \in Dispatch |-> IF pc[d] \in Over THEN pc[d] ELSE "crashed"]
  /\ listening' = {}
  /\ backlog' = [d \in Dispatch |-> <<>>]
  /\ stream' = [d \in Dispatch |-> None]
  /\ payload' = [d \in Dispatch |-> None]
  /\ UNCHANGED <<dirVars, served, childVars>>
-----------------------------------------------------------------------------
(* The child: maybe_dispatch, install_dispatch_session, broker::receive.    *)

(* A rendezvous in the environment means a handshake is owed. *)
TakeRendezvous(c) ==
  /\ child[c] = "started"
  /\ told[c] # None
  /\ Become(c, "connect")
  /\ UNCHANGED <<up, pc, dirVars, kernelVars, payload, served, told, conn, inbox, ambient>>

(* No rendezvous: the identity namespace, or none at all if that cannot be  *)
(* built.                                                                  *)
UseIdentity(c) ==
  /\ child[c] = "started"
  /\ told[c] = None
  /\ \E n \in {Identity, None} : ambient' = [ambient EXCEPT ![c] = n]
  /\ Become(c, "working")
  /\ UNCHANGED <<up, pc, dirVars, kernelVars, payload, served, told, conn, inbox>>

(* A connection is made as soon as it is queued, long before it is accepted. *)
Connect(c) ==
  /\ child[c] = "connect"
  /\ told[c] \in files
  /\ \E d \in listening :
       /\ sock[d] = told[c]
       /\ backlog' = [backlog EXCEPT ![d] = Append(@, c)]
       /\ conn' = [conn EXCEPT ![c] = d]
  /\ Become(c, "receive")
  /\ UNCHANGED <<up, pc, dirVars, listening, stream, payload, served, told, inbox, ambient>>

(* A missing file is an error at once, it is not retried. *)
ConnectNotFound(c) ==
  /\ child[c] = "connect"
  /\ told[c] \notin files
  /\ Become(c, "refused")
  /\ UNCHANGED <<up, pc, dirVars, kernelVars, payload, served, told, conn, inbox, ambient>>

\* Variant: a refused connection is retried without a deadline.
ConnectForever(c) ==
  /\ child[c] = "connect"
  /\ FALSE
  /\ UNCHANGED vars

(* A file nobody listens on is retried until the deadline. *)
ConnectTimesOut(c) ==
  /\ child[c] = "connect"
  /\ told[c] \in files
  /\ \A d \in listening : sock[d] # told[c]
  /\ Become(c, "refused")
  /\ UNCHANGED <<up, pc, dirVars, kernelVars, payload, served, told, conn, inbox, ambient>>

(* recvmsg, decode, assemble; then the session is installed. *)
Receive(c) ==
  /\ child[c] = "receive"
  /\ inbox[c] # None
  /\ ambient' = [ambient EXCEPT ![c] = inbox[c]]
  /\ Become(c, "working")
  /\ UNCHANGED <<up, pc, dirVars, kernelVars, payload, served, told, conn, inbox>>

\* Variant: the utility runs on without a session, every access failing.
RunWithoutSession(c) ==
  /\ child[c] = "receive"
  /\ inbox[c] # None
  /\ Become(c, "working")
  /\ UNCHANGED <<up, pc, dirVars, kernelVars, payload, served, told, conn, inbox, ambient>>

(* A message that does not decode, or that no session can be built from     *)
(* (BrokerWire says when).                                                 *)
ReceiveMalformed(c) ==
  /\ child[c] = "receive"
  /\ inbox[c] # None
  /\ Become(c, "refused")
  /\ UNCHANGED <<up, pc, dirVars, kernelVars, payload, served, told, conn, inbox, ambient>>

\* Variant: a failed handshake falls back to the identity namespace.
FallBackToIdentity(c) ==
  /\ child[c] = "receive"
  /\ inbox[c] = None
  /\ ~Open(c)
  /\ ambient' = [ambient EXCEPT ![c] = Identity]
  /\ Become(c, "working")
  /\ UNCHANGED <<up, pc, dirVars, kernelVars, payload, served, told, conn, inbox>>

(* The parent's end closed with nothing sent. *)
ReceiveEof(c) ==
  /\ child[c] = "receive"
  /\ inbox[c] = None
  /\ ~Open(c)
  /\ Become(c, "refused")
  /\ UNCHANGED <<up, pc, dirVars, kernelVars, payload, served, told, conn, inbox, ambient>>

(* Any other error of connect or recvmsg. *)
HandshakeError(c) ==
  /\ child[c] \in {"connect", "receive"}
  /\ Become(c, "refused")
  /\ UNCHANGED <<up, pc, dirVars, kernelVars, payload, served, told, conn, inbox, ambient>>

(* The utility runs in the installed session, and ends. *)
Finish(c) ==
  /\ child[c] = "working"
  /\ Become(c, "exited")
  /\ UNCHANGED <<up, pc, dirVars, kernelVars, payload, served, told, conn, inbox, ambient>>

(* The child is killed before it has a session. *)
Die(c) ==
  /\ child[c] \in {"started", "connect", "receive"}
  /\ Become(c, "dead")
  /\ UNCHANGED <<up, pc, dirVars, kernelVars, payload, served, told, conn, inbox, ambient>>
-----------------------------------------------------------------------------
Create(d) == MakeDir(d) \/ MakeDirFails(d) \/ TakeName(d)
             \/ Bind(d) \/ BindFails(d) \/ NonblockFails(d)

Serve(d) ==
  \/ Capture(d) \/ CaptureFails(d)
  \/ Accept(d) \/ AcceptTimesOut(d) \/ AcceptFails(d)
  \/ PeerIsChild(d) \/ PeerIsStranger(d) \/ PeerUnknown(d)
  \/ Send(d) \/ SendFails(d)

Drop(d) == Unlink(d) \/ UnlinkFails(d) \/ RemoveDir(d) \/ RemoveDirFails(d) \/ CloseListener(d)

Parent(d) == Create(d) \/ Spawn(d) \/ SpawnFails(d) \/ Serve(d) \/ Drop(d) \/ WaitForChild(d)

Handshake(c) ==
  \/ TakeRendezvous(c) \/ UseIdentity(c)
  \/ Connect(c) \/ ConnectNotFound(c) \/ ConnectTimesOut(c)
  \/ Receive(c) \/ ReceiveMalformed(c) \/ ReceiveEof(c)

(* Every dispatch has returned and every child has ended. *)
Quiet ==
  /\ \A d \in Dispatch : pc[d] \in Over
  /\ \A c \in Child : child[c] \in Ended \cup {"unborn"}
  /\ UNCHANGED vars

Next ==
  \/ \E d \in Dispatch : Parent(d) \/ WaitFails(d)
  \/ \E c \in Child : Handshake(c) \/ HandshakeError(c) \/ Finish(c) \/ Die(c)
  \/ ParentCrash
  \/ Quiet

Spec == Init /\ [][Next]_vars

(* Every process that runs is scheduled, and a utility comes to its end; a  *)
(* wait need not fail.                                                     *)
FairSpec ==
  /\ Spec
  /\ \A d \in Dispatch : WF_vars(Parent(d))
  /\ \A c \in Child : WF_vars(Handshake(c) \/ Finish(c))
-----------------------------------------------------------------------------
(* Type invariant: the shape of the broker's state, `Rendezvous` and its    *)
(* kernel objects included.                                                *)
TypeOK ==
  /\ up \in BOOLEAN
  /\ pc \in [Dispatch -> Pcs]
  /\ nextId \in Nat
  /\ sock \in [Dispatch -> Nat \cup {None}]
  /\ scratch \in BOOLEAN
  /\ files \in SUBSET Nat
  /\ left \in SUBSET (Dispatch \X {"file", "dir"})
  /\ listening \in SUBSET Dispatch
  /\ backlog \in [Dispatch -> Seq(Child)]
  /\ stream \in [Dispatch -> Child \cup {None}]
  /\ payload \in [Dispatch -> Sessions \cup {None}]
  /\ served \in SUBSET Dispatch
  /\ child \in [Child -> ChildStates]
  /\ told \in [Child -> Nat \cup {None}]
  /\ conn \in [Child -> Dispatch \cup {None}]
  /\ inbox \in [Child -> Sessions \cup {None}]
  /\ ambient \in [Child -> Sessions \cup {Identity, None}]

(* A session is delivered to nobody but the child it was captured for,      *)
(* whoever connects to the socket first (the pid check of                  *)
(* Rendezvous::serve).                                                     *)
OnlyItsChild ==
  \A c \in Child : inbox[c] # None => c \in Dispatch /\ inbox[c] = SessionOf[c]

(* A dispatched child that runs its utility runs it in its dispatcher's     *)
(* namespace: never in the identity namespace, never in a sibling's, never *)
(* in none, whatever failed on either side (install_dispatch_session).     *)
NeverUnconfined ==
  \A d \in Dispatch : child[d] \in {"working", "exited"} => ambient[d] = SessionOf[d]

(* While a dispatch is being served, its socket file and the shared         *)
(* directory are there: no other dispatch's Drop takes them away.          *)
RendezvousStands ==
  \A d \in Dispatch :
    pc[d] \in {"spawn", "capture", "accept", "check", "send", "unlink"} =>
      scratch /\ sock[d] \in files

(* A child that presents itself at the wrong rendezvous was run by hand:    *)
(* concurrent dispatches never confuse their sockets (next_id).            *)
StrangerIsByHand ==
  \A d \in Dispatch : stream[d] # None /\ stream[d] # d => stream[d] \in Hand

(* A parent that waits for its child has nothing left to give it: the child *)
(* is not waiting for the parent (serve before wait, and every connection  *)
(* closed when serve returns).                                             *)
NoMutualWait ==
  \A d \in Dispatch :
    pc[d] = "wait" =>
      /\ ~(child[d] = "receive" /\ inbox[d] = None /\ Open(d))
      /\ d \notin listening

(* An error of the rendezvous, of the spawn or of `serve` that ends a       *)
(* dispatch means the utility has not run and never will: a caller may try *)
(* again.  An error of the wait ("lost") means nothing of the kind,        *)
(* although BrokerExecutor::run words it as a launcher that could not be   *)
(* spawned.                                                                *)
ServeErrorMeansNothingRan ==
  \A d \in Dispatch :
    pc[d] \in {"failed", "nocreate"} => child[d] \notin {"working", "exited"}

(* A parent that returns from all its dispatches leaves nothing behind but  *)
(* what a `create` that failed half way left and what could not be removed *)
(* (Drop for Rendezvous): a file is left by its own dispatch only, and a   *)
(* directory because it, or a file in it, was.                             *)
NoLitter ==
  up /\ (\A d \in Dispatch : pc[d] \in {"done", "failed", "nocreate", "lost"}) =>
    /\ files \subseteq {sock[d] : d \in {e \in Dispatch : pc[e] = "nocreate" \/ <<e, "file">> \in left}}
    /\ scratch => left # {} \/ \E d \in Dispatch : pc[d] = "nocreate"

(* Every dispatch that was begun returns, however the handshake goes: the   *)
(* accept deadline and the closed connection bound every wait, so that     *)
(* time and again there is no dispatch under way.  (A dispatch is begun    *)
(* once and never leaves Over, so each of them comes to its end.)          *)
DispatchReturns == []<>(\A d \in Dispatch : pc[d] \in Over \cup {"idle"})

(* Every process that starts a handshake is decided: time and again there   *)
(* is none that is not.                                                    *)
ChildDecided ==
  []<>(\A c \in Child : child[c] \in {"unborn", "working"} \cup Ended)
-----------------------------------------------------------------------------
Handover == INSTANCE SessionHandover WITH
  verdict <- [d \in Dispatch |->
                CASE child[d] \in {"working", "exited"} -> "confined"
                  [] child[d] \in {"refused", "dead"}   -> "turned_away"
                  [] OTHER                              -> "open"],
  holds <- [d \in Dispatch |-> ambient[d]]

(* The broker implements the handover it promises: each dispatched child is *)
(* decided once, for its dispatcher's namespace or for none.               *)
ImplementsHandover == Handover!Spec
=============================================================================
