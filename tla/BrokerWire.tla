----------------------------- MODULE BrokerWire -----------------------------
(***************************************************************************)
(* What the session broker puts on the wire (brush-core/src/broker/mod.rs, *)
(* and the two ends of its transport in unix.rs), and what the child makes *)
(* of it: a namespace that resolves every path as its parent's does, or an *)
(* error.                                                                  *)
(*                                                                         *)
(* The message travels on a stream that the child reads once, so it may    *)
(* see less of it than was sent, and fewer descriptors.  A message is a    *)
(* sequence of fields; a field cut in two decodes as a field that is not   *)
(* there.  A path is the sequence of its components.                       *)
(***************************************************************************)
EXTENDS Naturals, Sequences, FiniteSets, Functions

CONSTANTS
  Path,        \* virtual paths
  Fold,        \* the spelling under which two mount points collide
  Handle,      \* open directories
  MaxMounts,   \* bound of the model: the mounts of one session
  SendLimit,   \* the descriptors the kernel passes in one message
  FdRoom,      \* the descriptors the child's control buffer takes (64)
  ByteRoom,    \* the fields the child's data buffer takes (64 KiB)
  Nothing      \* absent value

ASSUME WireAssumption ==
  /\ \A p \in Path : p \in Seq(STRING)
  /\ {MaxMounts, SendLimit, FdRoom, ByteRoom} \subseteq Nat

WireVersion == 1

Access == {"ReadOnly", "ReadWrite"}

Mount == [at : Path, access : Access, handle : Handle]

VARIABLES
  phase,       \* how far the handover has got
  session,     \* the parent's session: a working directory and its mounts
  alive,       \* the working directory is a directory of the parent's namespace
  msg,         \* the fields on the wire
  fds,         \* the descriptors that travel with them
  table,       \* the mount table the child has built
  cwd          \* the working directory the child has set

vars == <<phase, session, alive, msg, fds, table, cwd>>

Under(at, p) == Len(at) <= Len(p) /\ at = SubSeq(p, 1, Len(at))

(* check_mount_points: no two mounts under one spelling. *)
Distinct(mounts) ==
  \A i, j \in DOMAIN mounts : i # j => Fold[mounts[i].at] # Fold[mounts[j].at]

(* MountTable::resolve: the longest mount point that p lies under. *)
Resolve(mounts, p) ==
  LET over == {m \in mounts : Under(m.at, p)}
  IN  IF over = {} THEN Nothing
      ELSE CHOOSE m \in over : \A o \in over : Len(o.at) <= Len(m.at)

(* The sessions a parent can have: its own table was built under the same   *)
(* check, and its handles are descriptors of its own.                      *)
Session ==
  {s \in [cwd : Path, mounts : UNION {[1..n -> Mount] : n \in 0..MaxMounts}] :
     Distinct(s.mounts)}

(* Session::new starts at the root, mounted or not. *)
Reachable(s) == Resolve(Range(s.mounts), s.cwd) # Nothing
-----------------------------------------------------------------------------
Encode(s) ==
  <<WireVersion, s.cwd, Len(s.mounts)>>
    \o [i \in 1..Len(s.mounts) |-> [at |-> s.mounts[i].at, access |-> s.mounts[i].access]]

Handles(s) == [i \in 1..Len(s.mounts) |-> s.mounts[i].handle]

(* Every field the decoder takes is there. *)
Decodes(m) ==
  /\ Len(m) >= 3
  /\ m[1] = WireVersion
  /\ Len(m) >= 3 + m[3]

Entries(m) == [i \in 1..m[3] |-> m[3 + i]]

\* Variant: handles are zipped with the mounts without counting them.
AssemblesUncounted(m, hs) == Distinct(Entries(m))

(* The two checks of `assemble` on what the message says. *)
Assembles(m, hs) ==
  /\ m[3] = Len(hs)
  /\ Distinct(Entries(m))

(* Entries are paired with handles as far as both go (zip). *)
Zip(entries, hs) ==
  {[at |-> entries[i].at, access |-> entries[i].access, handle |-> hs[i]] :
     i \in DOMAIN entries \cap DOMAIN hs}
-----------------------------------------------------------------------------
Init ==
  /\ phase = "captured"
  /\ session \in Session
  /\ alive \in BOOLEAN
  /\ alive => Reachable(session)
  /\ msg = <<>> /\ fds = <<>>
  /\ table = {} /\ cwd = Nothing

(* One sendmsg carries the fields and the descriptors. *)
Send ==
  /\ phase = "captured"
  /\ Len(session.mounts) <= SendLimit
  /\ msg' = Encode(session)
  /\ fds' = Handles(session)
  /\ phase' = "sent"
  /\ UNCHANGED <<session, alive, table, cwd>>

SendTooMany ==
  /\ phase = "captured"
  /\ Len(session.mounts) > SendLimit
  /\ phase' = "unsent"
  /\ UNCHANGED <<session, alive, msg, fds, table, cwd>>

(* One recvmsg takes what has arrived and fits. *)
Receive ==
  /\ phase = "sent"
  /\ \E n \in 1..Len(msg), k \in 0..Len(fds) :
       /\ n <= ByteRoom /\ k <= FdRoom
       /\ msg' = SubSeq(msg, 1, n)
       /\ fds' = SubSeq(fds, 1, k)
  /\ phase' = "received"
  /\ UNCHANGED <<session, alive, table, cwd>>

(* Somebody else removes the working directory before the child looks. *)
CwdRemoved ==
  /\ phase \in {"captured", "sent", "received"}
  /\ alive
  /\ alive' = FALSE
  /\ UNCHANGED <<phase, session, msg, fds, table, cwd>>

\* Variant: only a mount point can be a working directory.
CwdIsMount(t, c) == alive /\ \E m \in t : m.at = c

(* Session::set_cwd probes the directory in the child's own namespace. *)
CwdHolds(t, c) == alive /\ Resolve(t, c) # Nothing

(* decode and assemble succeed, and the session is installed. *)
Install ==
  /\ phase = "received"
  /\ Decodes(msg) /\ Assembles(msg, fds)
  /\ CwdHolds(Zip(Entries(msg), fds), msg[2])
  /\ table' = Zip(Entries(msg), fds)
  /\ cwd' = msg[2]
  /\ phase' = "installed"
  /\ UNCHANGED <<session, alive, msg, fds>>

Refuse ==
  /\ phase = "received"
  /\ ~(/\ Decodes(msg) /\ Assembles(msg, fds)
       /\ CwdHolds(Zip(Entries(msg), fds), msg[2]))
  /\ phase' = "refused"
  /\ UNCHANGED <<session, alive, msg, fds, table, cwd>>

Decided == phase \in {"unsent", "installed", "refused"} /\ UNCHANGED vars

Next == Send \/ SendTooMany \/ Receive \/ CwdRemoved \/ Install \/ Refuse \/ Decided

Spec == Init /\ [][Next]_vars
-----------------------------------------------------------------------------
(* A child that has a session sees through every path what its parent saw:  *)
(* the same directory under the same access mode, from the same working    *)
(* directory, however the message was cut (decode, assemble).              *)
SameNamespace ==
  phase = "installed" =>
    /\ cwd = session.cwd
    /\ \A p \in Path : Resolve(table, p) = Resolve(Range(session.mounts), p)

(* A child refuses only what was cut on the way or a working directory that *)
(* is not there: every other session a parent can have is handed over.     *)
RefusedForCause ==
  phase = "refused" =>
    \/ msg # Encode(session)
    \/ fds # Handles(session)
    \/ ~alive
=============================================================================
