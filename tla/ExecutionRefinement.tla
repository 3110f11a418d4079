------------------------ MODULE ExecutionRefinement ------------------------
(***************************************************************************)
(* One execution of BlackStartExecution as an implementation of            *)
(* FaultIsolation.  Other executions, reports and operator calls are its   *)
(* environment; the steps they take must not be visible to it.             *)
(***************************************************************************)
EXTENDS BlackStartExecution

CONSTANT Observed   \* the execution looked at

ASSUME ObservedAssumption == Observed \in Executions

Begun == pc[Observed] = "announce" \/ watcher[Observed] # "off"

PhaseOf ==
    IF ~Begun THEN "idle" ELSE IF Running(Observed) THEN "running" ELSE "over"

PlanOf == IF Begun THEN Participants(bs[Observed]) ELSE {}

\* Reports that paused the observed execution before its point of no return.
FaultedCabins == {rcabin[r] : r \in {q \in intime : conflict[q] = Observed}}

FateOf ==
    [c \in Cabins |->
       IF ~Begun THEN "pending"
       ELSE IF c \in bs[Observed].started THEN "energized"
       ELSE IF c \in bs[Observed].excluded THEN "skipped"
       ELSE IF ~ShortOf(Observed, c) /\ c \notin FaultedCabins THEN "committed"
       ELSE "pending"]

Abstract ==
    INSTANCE FaultIsolation
    WITH Cabins <- Cabins, phase <- PhaseOf, plan <- PlanOf, fate <- FateOf,
         faulted <- FaultedCabins

\* The execution implements FaultIsolation: a fault declared before the point
\* of no return is never energized, every cabin is decided once, and the
\* execution decides all of them and finishes.
ImplementsFaultIsolation == Abstract!Spec

=============================================================================
