---------------------------- MODULE MCGatewayApi ----------------------------
(* GatewayApi on small instances for TLC. *)
EXTENDS GatewayApi, TLC

MCSymmetry == Permutations(Gateways)
=============================================================================
