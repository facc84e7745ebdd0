----------------------------- MODULE MCLoginCodes -----------------------------
(* Instances of LoginCodes for TLC. *)
EXTENDS LoginCodes, TLC

RequestSymmetry == Permutations(Requests)
=============================================================================
