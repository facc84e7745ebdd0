------------------------------ MODULE MCRegistry ------------------------------
(* Instances of Registry for TLC. *)
EXTENDS Registry, TLC

\* PATCHes narrow the contract of both days to either.
BothDays == {[starts_on |-> 0, ends_on |-> 1]}

Symmetry == Permutations(Requests) \cup Permutations(Names)
=============================================================================
