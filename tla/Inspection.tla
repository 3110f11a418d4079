----------------------------- MODULE Inspection -----------------------------
(***************************************************************************)
(* A daily cabin inspection (internal/domain/inspection.go).  Photos, note *)
(* and times are left out: that a photo was uploaded is the state          *)
(* photo_uploaded, and no branch looks at the rest.                        *)
(***************************************************************************)
CONSTANTS
    Cabins,
    Inspectors,
    Certified,   \* the inspectors with a valid certificate
    NoOne        \* the empty signature

InspectionState ==
    {"dispatched", "in_progress", "photo_uploaded", "reviewed", "completed", "frozen"}

InspectionRecord ==
    [cabin     : Cabins,
     inspector : Inspectors,
     state     : InspectionState,
     signedBy  : Inspectors \cup {NoOne}]

\* inWindow: the hour lies in the daily window for inspections.
CanCreate(inspector, inWindow) == inspector \in Certified /\ inWindow

NewInspection(c, inspector) ==
    [cabin |-> c, inspector |-> inspector, state |-> "dispatched", signedBy |-> NoOne]

CanStart(in) == in.state = "dispatched"

Start(in) == [in EXCEPT !.state = "in_progress"]

CanUploadPhoto(in) == in.state \in {"in_progress", "photo_uploaded"}

UploadPhoto(in) == [in EXCEPT !.state = "photo_uploaded"]

\* Mutant: whoever is asked may sign.
CanReviewByAnyone(in, inspector) == in.state = "photo_uploaded"

\* Only the assigned inspector may sign.
CanReview(in, inspector) == in.state = "photo_uploaded" /\ inspector = in.inspector

Review(in, inspector) == [in EXCEPT !.state = "reviewed", !.signedBy = inspector]

CanComplete(in) == in.state = "reviewed"

Complete(in) == [in EXCEPT !.state = "completed"]

IsClosed(in) == in.state \in {"completed", "frozen"}

\* Mutant: a signed inspection is let through.
FreezeUnsigned(in) ==
    IF IsClosed(in) \/ in.state = "reviewed" THEN in ELSE [in EXCEPT !.state = "frozen"]

Freeze(in) == IF IsClosed(in) THEN in ELSE [in EXCEPT !.state = "frozen"]

=============================================================================
