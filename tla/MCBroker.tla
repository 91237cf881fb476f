------------------------------ MODULE MCBroker ------------------------------
(* Instances of Broker for TLC: each dispatch's shell holds a session of its *)
(* own, so a mix-up between two dispatches is visible.                      *)
EXTENDS Broker

MCSessionOf == [d \in Dispatch |-> <<"session", d>>]
=============================================================================
