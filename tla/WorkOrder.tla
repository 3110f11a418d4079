----------------------------- MODULE WorkOrder -----------------------------
(***************************************************************************)
(* A maintenance work order (internal/domain/workorder.go).  The inspector *)
(* who must sign it is any Inspector value the request carries; the code   *)
(* does not ask for a certificate here.                                    *)
(***************************************************************************)
CONSTANTS
    Cabins,
    AnomalyIDs,
    Inspectors,
    NoAnomaly,   \* an order that is linked to no anomaly
    NoOne        \* the empty signature

WorkOrderState == {"open", "in_progress", "awaiting_review", "closed"}

WorkOrderRecord ==
    [cabin     : Cabins,
     anomaly   : AnomalyIDs \cup {NoAnomaly},
     inspector : Inspectors,
     state     : WorkOrderState,
     signedBy  : Inspectors \cup {NoOne}]

NewWorkOrder(c, anomaly, inspector) ==
    [cabin |-> c, anomaly |-> anomaly, inspector |-> inspector, state |-> "open",
     signedBy |-> NoOne]

CanStart(w) == w.state = "open"

Start(w) == [w EXCEPT !.state = "in_progress"]

CanSubmitForReview(w) == w.state = "in_progress"

SubmitForReview(w) == [w EXCEPT !.state = "awaiting_review"]

\* Mutant: whoever is asked may sign.
CanReviewByAnyone(w, inspector) == w.state = "awaiting_review"

\* Mutant: an order that was not submitted for review is signed.
CanReviewInProgress(w, inspector) ==
    w.state \in {"in_progress", "awaiting_review"} /\ inspector = w.inspector

\* A review leaves the state as it is: an order may be signed again.
CanReview(w, inspector) == w.state = "awaiting_review" /\ inspector = w.inspector

Review(w, inspector) == [w EXCEPT !.signedBy = inspector]

CanClose(w) == w.state = "awaiting_review" /\ w.signedBy # NoOne

Close(w) == [w EXCEPT !.state = "closed"]

=============================================================================
