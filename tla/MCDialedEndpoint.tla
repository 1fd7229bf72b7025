-------------------------- MODULE MCDialedEndpoint --------------------------
(* Two callers of one publisher and a subscription beside it.                *)
EXTENDS DialedEndpoint

CONSTANTS c1, c2, s1, k1, k2, k3
=============================================================================
