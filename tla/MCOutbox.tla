------------------------------ MODULE MCOutbox ------------------------------
(* Two callers of one queue publisher.                                       *)
EXTENDS Outbox

CONSTANTS t1, t2
=============================================================================
