------------------------------- MODULE MCRpc -------------------------------
(* A small exchange for TLC. *)
EXTENDS Rpc, TLC

CONSTANTS r1, h1, h2
==============================================================================
