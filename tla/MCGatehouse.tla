----------------------------- MODULE MCGatehouse -----------------------------
(* Instances of Gatehouse for TLC. *)
EXTENDS Gatehouse, TLC

CONSTANTS ana, bea, u1, u2

\* ana lives in u1; bea does not.
MCResides == {<<ana, u1>>}

\* Bound: of three requests at most one is a PATCH.
LonePatch == Cardinality({r \in Requests : call[r] \in UpdateCalls}) <= 1

RequestSymmetry == Permutations(Requests)
=============================================================================
