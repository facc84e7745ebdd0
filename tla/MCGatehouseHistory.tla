-------------------------- MODULE MCGatehouseHistory --------------------------
(* Instances of GatehouseHistory for TLC. *)
EXTENDS GatehouseHistory

CONSTANTS ana, u1

MCResides == {<<ana, u1>>}
=============================================================================
