------------------------------ MODULE Anomaly ------------------------------
(***************************************************************************)
(* A reported equipment anomaly (internal/domain/anomaly.go).              *)
(*                                                                         *)
(* Time is counted in ticks from 1; 0 is the zero time.Time.  The fault    *)
(* code, the reporter and the texts are left out: nothing reads them.      *)
(***************************************************************************)
EXTENDS Naturals

CONSTANTS
    Cabins,
    AckDeadline   \* ticks the duty officer has to acknowledge a Level-1 anomaly

AnomalyLevel == 1..3

AnomalyState == {"reported", "acknowledged", "isolated", "resolved", "escalated"}

AnomalyRecord ==
    [cabin          : Cabins,
     level          : AnomalyLevel,
     state          : AnomalyState,
     reportedAt     : Nat,
     acknowledgedAt : Nat,
     escalated      : BOOLEAN]

NewAnomaly(c, level, now) ==
    [cabin |-> c, level |-> level, state |-> "reported", reportedAt |-> now,
     acknowledgedAt |-> 0, escalated |-> FALSE]

ShouldFreeze(a) == a.level = 1

AckDeadlineAt(a) == a.reportedAt + AckDeadline

\* The duty officer may no longer acknowledge a.
Late(a, now) == a.level = 1 /\ now > AckDeadlineAt(a)

CanEscalate(a) == a.state = "reported"

Escalate(a) == [a EXCEPT !.state = "escalated", !.escalated = TRUE]

\* Mutant: the deadline is not looked at.
AcknowledgeAnyTime(a, now) ==
    IF a.state # "reported" THEN a
    ELSE [a EXCEPT !.state = "acknowledged", !.acknowledgedAt = now]

\* A refused acknowledgement leaves the record as it is, a late one escalates.
Acknowledge(a, now) ==
    IF a.state # "reported" THEN a
    ELSE IF Late(a, now) THEN Escalate(a)
    ELSE [a EXCEPT !.state = "acknowledged", !.acknowledgedAt = now]

CanIsolate(a) == a.state # "resolved"

Isolate(a) == [a EXCEPT !.state = "isolated"]

CanResolve(a) == a.state # "resolved"

Resolve(a) == [a EXCEPT !.state = "resolved"]

IsTerminal(a) == a.state = "resolved"

=============================================================================
