----------------------------- MODULE MCPlatform -----------------------------
(* An instance of Platform for TLC. *)
EXTENDS Platform

MCInput == <<"a", "b">>
=============================================================================
