---------------------------- MODULE MCBrokerWire ----------------------------
(* An instance of BrokerWire for TLC: nested, disjoint and colliding mount   *)
(* points, and directories that two mounts may share.                       *)
EXTENDS BrokerWire

MCPath == {<<>>, <<"w">>, <<"w", "t">>, <<"W">>, <<"o">>}
MCFold == [p \in MCPath |-> IF p = <<"W">> THEN <<"w">> ELSE p]
=============================================================================
