---------------------------- MODULE MCLlmGateway ----------------------------
(* A profile with two fallbacks, the first of which is never retried.      *)
EXTENDS LlmGatewayProps

TwoRetriesNoneOne == [p \in 0 .. 2 |-> CASE p = 0 -> 2 [] p = 1 -> 0 [] p = 2 -> 1]
=============================================================================
