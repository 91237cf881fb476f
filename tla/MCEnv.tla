------------------------------- MODULE MCEnv -------------------------------
(* Instances of Env.  Names do not interact, so that one is enough; the   *)
(* values are interchangeable.                                             *)
EXTENDS Env, TLC

(* At most one option, with or without a value. *)
MCRequests == {q \in Request : /\ q.value # "array"
                               /\ \/ ~q.array /\ ~q.readonly
                                  \/ q.export = "keep" /\ ~(q.array /\ q.readonly)}

Symmetry == Permutations(Value)
============================================================================
