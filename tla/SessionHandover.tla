-------------------------- MODULE SessionHandover --------------------------
(***************************************************************************)
(* What the session broker promises about one parent and the children it   *)
(* dispatches (the module comment of brush-core/src/broker/mod.rs): a      *)
(* dispatched child either ends up confined to the very namespace of the   *)
(* shell that dispatched it, or it is turned away; the decision is made    *)
(* once, and no other namespace is ever an outcome.                        *)
(*                                                                         *)
(* Nothing is said of sockets, pids or timeouts.  Broker.tla is shown to   *)
(* implement this module.                                                  *)
(***************************************************************************)
CONSTANTS
  Dispatch,    \* the bundled dispatches; each spawns at most one child
  SessionOf,   \* the namespace of the shell behind each dispatch
  None         \* no namespace

VARIABLES
  verdict,     \* what has been decided for the child of each dispatch
  holds        \* the namespace the child of each dispatch works in

vars == <<verdict, holds>>

Init ==
  /\ verdict = [d \in Dispatch |-> "open"]
  /\ holds = [d \in Dispatch |-> None]

(* The child is handed its dispatcher's namespace, and nothing else. *)
HandOver(d) ==
  /\ verdict[d] = "open"
  /\ verdict' = [verdict EXCEPT ![d] = "confined"]
  /\ holds' = [holds EXCEPT ![d] = SessionOf[d]]

(* The child gets no namespace and will never have one. *)
TurnAway(d) ==
  /\ verdict[d] = "open"
  /\ verdict' = [verdict EXCEPT ![d] = "turned_away"]
  /\ UNCHANGED holds

Next == \E d \in Dispatch : HandOver(d) \/ TurnAway(d)

Spec == Init /\ [][Next]_vars
=============================================================================
