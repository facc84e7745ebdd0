---------------------------- MODULE MCVisitWindow ----------------------------
(* Instances of VisitWindow for TLC: a zone without a change of clocks, and *)
(* one each where they are put forward and back in the night of a Thursday. *)
EXTENDS VisitWindow

MCZones == {[change |-> 0, before |-> -360, after |-> -360],
            [change |-> 80 * 60, before |-> -360, after |-> -300],
            [change |-> 73 * 60, before |-> 120, after |-> 60]}

MCInstants == {60 * h : h \in 0..215}
=============================================================================
