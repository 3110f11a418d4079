---------------------------- MODULE MCCabinFlows ----------------------------
(* Constants of CabinFlows for TLC.                                        *)
EXTENDS CabinFlows, TLC

\* IDs and cabins are interchangeable (invariants only).
Interchangeable ==
    Permutations(AnomalyIDs) \cup Permutations(InspectionIDs) \cup Permutations(Cabins)

CriticalAndMajor == {1, 2}

=============================================================================
