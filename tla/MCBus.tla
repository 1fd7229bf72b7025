------------------------------- MODULE MCBus -------------------------------
(* A small transport for TLC, of every kind a broker connects. *)
EXTENDS Bus, TLC

CONSTANTS s1, s2, x1, x2, a, b

AllKinds == {"queue", "fanout", "rpc"} \X {"bind", "connect"}
(* The name of s1 prefixes every name, that of s2 one of them. *)
Prefixes == {<<s1, a>>, <<s1, b>>, <<s2, b>>}
==============================================================================
