------------------------- MODULE MCReservationBilling -------------------------
(* Instances of ReservationBilling for TLC. *)
EXTENDS ReservationBilling, TLC

CONSTANTS ana, bea, root, u1, u2

\* ana lives in u1 and bea in u2; root is the administrator.
MCResides == {<<ana, u1>>, <<bea, u2>>}

RequestSymmetry == Permutations(Requests)
=============================================================================
