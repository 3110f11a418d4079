------------------------------- MODULE Cabin -------------------------------
(***************************************************************************)
(* A battery cabin (internal/domain/cabin.go).  Everything the dispatch    *)
(* flows decide about a cabin depends on its status alone, so a cabin is   *)
(* its status, and each method of the Go type is an operator on statuses.  *)
(* A method that can refuse has a guard named CanX beside it.              *)
(***************************************************************************)

CabinStatus ==
    {"operational", "under_inspection", "fault_reported", "frozen",
     "maintenance", "isolated", "offline"}

\* Locked against inspection and maintenance.
IsFrozen(s) == s \in {"frozen", "isolated"}

CanBeginInspection(s) == ~IsFrozen(s) /\ s \notin {"under_inspection", "maintenance"}

BeginInspection(s) == "under_inspection"

FinishInspection(s) == "operational"

\* Freeze and Isolate overwrite whatever status the cabin had.
Freeze(s) == "frozen"

\* Mutant: a misspelt status constant.
IsolateMisspelt(s) == "isolate"

Isolate(s) == "isolated"

\* Mutant: the status is not written.
RestoreNothing(s) == s

Restore(s) == "operational"

\* The callers of the next two ignore a refusal and save the cabin as it is.
ReportFault(s) == IF IsFrozen(s) THEN s ELSE "fault_reported"

BeginMaintenance(s) ==
    IF s \in {"frozen", "isolated", "fault_reported"} THEN "maintenance" ELSE s

=============================================================================
