------------------------- MODULE MCReservationHistory -------------------------
(* Instances of ReservationHistory for TLC. *)
EXTENDS ReservationHistory

CONSTANTS ana, root, u1

MCResides == {<<ana, u1>>}
=============================================================================
