--------------------------- MODULE MCMatchReports ---------------------------
(***************************************************************************)
(* Small instances of MatchReports for TLC.                                *)
(***************************************************************************)
EXTENDS MatchReports, TLC

\* A newcomer, and one whose rank will take a place on the ladder.
CONSTANTS p1, p2

Newcomer == (p1 :> <<>>) @@ (p2 :> <<55000, 600>>)

SomeResults == {[score |-> 0, won |-> FALSE], [score |-> 55000, won |-> TRUE]}

\* TLC keeps one fault for the last report, and follows no report that begins
\* after the last fault.
FaultBound ==
    /\ reports < MaxReports => faults < MaxFaults
    /\ ~(faults = MaxFaults /\ at = "auto0" /\ part = "stats")
=============================================================================
