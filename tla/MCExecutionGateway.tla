------------------------- MODULE MCExecutionGateway -------------------------
(* ExecutionGateway on small instances for TLC. *)
EXTENDS ExecutionGateway, TLC

MCSymmetry == Permutations(Gateways)
=============================================================================
