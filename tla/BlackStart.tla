----------------------------- MODULE BlackStart -----------------------------
(***************************************************************************)
(* The black-start record and its methods (internal/domain/blackstart.go): *)
(* a restoration over a list of cabins that two principals must authorize. *)
(*                                                                         *)
(* Timestamps, the requester, the fail reason and the paused_for_cabin     *)
(* display field are left out: no branch of the program reads them.  The   *)
(* two slices of decided cabins are sets, because their methods only ask   *)
(* for membership and never add a cabin twice.                             *)
(***************************************************************************)
EXTENDS Naturals, Sequences

CONSTANTS
    Cabins,      \* cabin IDs
    Principals,  \* names of people who authorize
    Nobody       \* the empty principal ""

ASSUME NobodyAssumption == Nobody \notin Principals

Roles == {"duty_officer", "maintenance_lead"}

BlackStartState ==
    {"requested", "duty_authorized", "dual_authorized", "executing",
     "paused", "completed", "failed", "rolled_back"}

\* A State string that a copy made without the lock can hold: half of one
\* state and half of another.  It equals none of the program's constants.
Torn == "torn"

BlackStartRecord ==
    [cabins   : Seq(Cabins),
     state    : BlackStartState \cup {Torn},
     auth     : [Roles -> Principals \cup {Nobody}],
     started  : SUBSET Cabins,
     excluded : SUBSET Cabins]

NewBlackStart(cabins) ==
    [cabins |-> cabins, state |-> "requested", auth |-> [r \in Roles |-> Nobody],
     started |-> {}, excluded |-> {}]

FullyAuthorized(b) == \A r \in Roles : b.auth[r] # Nobody

\* Authorize refuses a second principal for a role and any state past the
\* authorization stage.
CanAuthorize(b, role, principal) ==
    /\ b.state \in {"requested", "duty_authorized", "dual_authorized"}
    /\ b.auth[role] \in {Nobody, principal}

\* One authorization gives duty_authorized whichever role gave it, and so does
\* an empty principal, which leaves its role open.
Authorize(b, role, principal) ==
    LET signed == [b EXCEPT !.auth[role] = principal]
    IN  [signed EXCEPT !.state = IF FullyAuthorized(signed) THEN "dual_authorized"
                                                            ELSE "duty_authorized"]

\* Mutant: the authorization check is dropped.
CanBeginOnOneSignature(b) ==
    b.state \in {"duty_authorized", "dual_authorized", "paused"}

\* Mutant: an execution that was interrupted may be begun again.
CanBeginAgain(b) ==
    FullyAuthorized(b) /\ b.state \in {"dual_authorized", "paused", "executing"}

CanBeginExecution(b) ==
    FullyAuthorized(b) /\ b.state \in {"dual_authorized", "paused"}

BeginExecution(b) == [b EXCEPT !.state = "executing"]

Participants(b) == {b.cabins[i] : i \in 1..Len(b.cabins)}

Participates(b, c) == c \in Participants(b)

\* Mutant: cabins that have been started are not skipped.
RemainingUnlessExcluded(b) == {i \in 1..Len(b.cabins) : b.cabins[i] \notin b.excluded}

\* Positions of RemainingCabinIDs in the list of cabins; a cabin listed twice
\* keeps both positions until it is decided.
Remaining(b) == {i \in 1..Len(b.cabins) : b.cabins[i] \notin b.started \cup b.excluded}

\* remaining[0], the cabin the execution loop takes up next.
NextCabin(b) ==
    b.cabins[CHOOSE i \in Remaining(b) : \A j \in Remaining(b) : i <= j]

MarkCabinStarted(b, c) == [b EXCEPT !.started = @ \cup {c}]

MarkCabinExcluded(b, c) == [b EXCEPT !.excluded = @ \cup {c}]

\* Pause, Resume and Complete leave the record alone when they refuse.
Pause(b) == [b EXCEPT !.state = IF @ \in {"executing", "paused"} THEN "paused" ELSE @]

Resume(b) == [b EXCEPT !.state = IF @ = "paused" THEN "executing" ELSE @]

CanComplete(b) == b.state \in {"executing", "paused"} /\ Remaining(b) = {}

Complete(b) == [b EXCEPT !.state = IF CanComplete(b) THEN "completed" ELSE @]

\* Rollback asks nothing about the state it leaves.
Rollback(b) == [b EXCEPT !.state = "rolled_back"]

IsTerminal(b) == b.state \in {"completed", "failed", "rolled_back"}

=============================================================================
