------------------------------ MODULE HttpApi ------------------------------
(***************************************************************************)
(* The HTTP API (internal/api): one operator for each POST route, named    *)
(* after its handler.  It says what the request asks of the store s when   *)
(* no other request overlaps it: the status code it is answered with, the  *)
(* saves it makes, in their order, and whether it takes a new ID.  Steps   *)
(* of overlapping requests are the subject of BlackStartExecution,         *)
(* GridSwitching and CabinFlows.                                           *)
(*                                                                         *)
(* A save is a record [kind, id, value].  The saves of a request are a     *)
(* sequence of sets; those of one set are made in any order.               *)
(*                                                                         *)
(* No route calls SubmitWorkOrderForReview.                                *)
(***************************************************************************)
EXTENDS Cabin, Naturals, Sequences

CONSTANTS
    Cabins,
    MaxID,                  \* bound on the counter of the ID generator
    Inspectors, Certified,
    Principals, Nobody,
    AckDeadline,
    None,                   \* the lookup of an ID that is not stored
    NoOne, NoAnomaly, Standalone, NoReading

\* IDs are "<prefix>-<counter>" with one prefix for each kind of record.
IDs == 1..MaxID

A == INSTANCE Anomaly
I == INSTANCE Inspection
W == INSTANCE WorkOrder WITH AnomalyIDs <- IDs
B == INSTANCE BlackStart
G == INSTANCE GridSync WITH BlackStarts <- IDs

\* What the store holds, and what one save does to it.
Store ==
    [cabin      : [Cabins -> CabinStatus \cup {None}],
     inspection : [IDs -> I!InspectionRecord \cup {None}],
     anomaly    : [IDs -> A!AnomalyRecord \cup {None}],
     order      : [IDs -> W!WorkOrderRecord \cup {None}],
     blackStart : [IDs -> B!BlackStartRecord \cup {None}],
     gridSync   : [IDs -> G!GridSyncRecord \cup {None}]]

EmptyStore ==
    [cabin      |-> [c \in Cabins |-> None],
     inspection |-> [i \in IDs |-> None],
     anomaly    |-> [i \in IDs |-> None],
     order      |-> [i \in IDs |-> None],
     blackStart |-> [i \in IDs |-> None],
     gridSync   |-> [i \in IDs |-> None]]

Save(kind, id, value) == [kind |-> kind, id |-> id, value |-> value]

Apply(s, save) == [s EXCEPT ![save.kind][save.id] = save.value]

-----------------------------------------------------------------------------
(* Answers.                                                                *)

Answer(code, saves) == [code |-> code, saves |-> saves, issues |-> FALSE]

Created(saves) == [code |-> 201, saves |-> saves, issues |-> TRUE]

Refuse(code) == Answer(code, <<>>)

\* Refused when the ID for the new record had already been taken.
RefuseWithID(code) == [code |-> code, saves |-> <<>>, issues |-> TRUE]

\* Saves made in any order, if there are any.
AnyOrder(saves) == IF saves = {} THEN <<>> ELSE <<saves>>

\* A request that loads a record, calls one method on it and saves the result.
Method(s, kind, i, accepted, result) ==
    IF s[kind][i] = None THEN Refuse(404)
    ELSE IF ~accepted THEN Refuse(422)
    ELSE Answer(200, <<{Save(kind, i, result)}>>)

-----------------------------------------------------------------------------
(* Cabins and inspections.                                                 *)

\* Whatever was stored under the ID is replaced.
seedCabin(s, c) == Answer(201, <<{Save("cabin", c, "operational")}>>)

\* Mutant: the cabin is stored before the inspector and the hour are checked.
dispatchInspectionSavingFirst(s, n, c, inspector, inWindow) ==
    IF s.cabin[c] = None THEN Refuse(404)
    ELSE IF ~CanBeginInspection(s.cabin[c]) THEN Refuse(422)
    ELSE LET busy == Save("cabin", c, BeginInspection(s.cabin[c]))
         IN  IF ~I!CanCreate(inspector, inWindow)
             THEN [RefuseWithID(422) EXCEPT !.saves = <<{busy}>>]
             ELSE Created(<<{busy}, {Save("inspection", n, I!NewInspection(c, inspector))}>>)

dispatchInspection(s, n, c, inspector, inWindow) ==
    IF s.cabin[c] = None THEN Refuse(404)
    ELSE IF ~CanBeginInspection(s.cabin[c]) THEN Refuse(422)
    ELSE IF ~I!CanCreate(inspector, inWindow) THEN RefuseWithID(422)
    ELSE Created(<<{Save("cabin", c, BeginInspection(s.cabin[c]))},
                   {Save("inspection", n, I!NewInspection(c, inspector))}>>)

startInspection(s, i) ==
    Method(s, "inspection", i, I!CanStart(s.inspection[i]), I!Start(s.inspection[i]))

uploadPhoto(s, i) ==
    Method(s, "inspection", i, I!CanUploadPhoto(s.inspection[i]), I!UploadPhoto(s.inspection[i]))

reviewInspection(s, i, inspector) ==
    Method(s, "inspection", i, I!CanReview(s.inspection[i], inspector),
           I!Review(s.inspection[i], inspector))

OpenAnomalies(s, c) ==
    {i \in IDs : /\ s.anomaly[i] # None
                 /\ s.anomaly[i].cabin = c
                 /\ ~A!IsTerminal(s.anomaly[i])}

\* The cabin is given back, when it has no open anomaly, before the inspection
\* is stored as completed.
completeInspection(s, i) ==
    LET c == s.inspection[i].cabin
        completed == {Save("inspection", i, I!Complete(s.inspection[i]))}
    IN  IF s.inspection[i] = None THEN Refuse(404)
        ELSE IF ~I!CanComplete(s.inspection[i]) THEN Refuse(422)
        ELSE IF OpenAnomalies(s, c) # {} \/ s.cabin[c] = None THEN Answer(200, <<completed>>)
        ELSE Answer(200, <<{Save("cabin", c, FinishInspection(s.cabin[c]))}, completed>>)

-----------------------------------------------------------------------------
(* Anomalies.                                                              *)

OpenInspections(s, c) ==
    {i \in IDs : /\ s.inspection[i] # None
                 /\ s.inspection[i].cabin = c
                 /\ ~I!IsClosed(s.inspection[i])}

\* Mutant: the anomaly is stored first.
reportAnomalySavingFirst(s, n, c, level, now) ==
    LET a == A!NewAnomaly(c, level, now)
    IN  IF s.cabin[c] = None THEN Refuse(404)
        ELSE Created(<<{Save("anomaly", n, a)},
                       {Save("cabin", c, IF A!ShouldFreeze(a) THEN Freeze(s.cabin[c])
                                         ELSE ReportFault(s.cabin[c]))}>>)

\* No execution is under way, so that a Level-1 report freezes.  Any number is
\* taken as a level; all but 1 act alike.
reportAnomaly(s, n, c, level, now) ==
    LET a == A!NewAnomaly(c, level, now)
        frozen == {Save("inspection", i, I!Freeze(s.inspection[i])) : i \in OpenInspections(s, c)}
    IN  IF s.cabin[c] = None THEN Refuse(404)
        ELSE IF A!ShouldFreeze(a)
        THEN Created(<<{Save("cabin", c, Freeze(s.cabin[c]))}>>
                       \o AnyOrder(frozen) \o <<{Save("anomaly", n, a)}>>)
        ELSE Created(<<{Save("cabin", c, ReportFault(s.cabin[c]))}, {Save("anomaly", n, a)}>>)

\* The clone is saved whether or not the acknowledgement was refused.
ackAnomaly(s, i, now) ==
    LET a == s.anomaly[i]
    IN  IF a = None THEN Refuse(404)
        ELSE Answer(IF a.state = "reported" /\ ~A!Late(a, now) THEN 200 ELSE 422,
                    <<{Save("anomaly", i, A!Acknowledge(a, now))}>>)

\* The cabin of the anomaly i, if it is stored, and then the anomaly.
CabinThenAnomaly(s, i, status, a) ==
    LET c == s.anomaly[i].cabin
    IN  (IF s.cabin[c] = None THEN <<>> ELSE <<{Save("cabin", c, status)}>>)
          \o <<{Save("anomaly", i, a)}>>

isolateAnomaly(s, i) ==
    IF s.anomaly[i] = None THEN Refuse(404)
    ELSE IF ~A!CanIsolate(s.anomaly[i]) THEN Refuse(422)
    ELSE Answer(200, CabinThenAnomaly(s, i, "isolated", A!Isolate(s.anomaly[i])))

\* A second resolution is a duplicate.
resolveAnomaly(s, i) ==
    IF s.anomaly[i] = None THEN Refuse(404)
    ELSE IF ~A!CanResolve(s.anomaly[i]) THEN Refuse(409)
    ELSE Answer(200, CabinThenAnomaly(s, i, "operational", A!Resolve(s.anomaly[i])))

-----------------------------------------------------------------------------
(* Work orders.                                                            *)

\* linked is the ID of an anomaly, stored or not, or NoAnomaly.
openWorkOrder(s, n, c, linked, inspector) ==
    LET freezing == /\ linked # NoAnomaly
                    /\ s.anomaly[linked] # None
                    /\ s.anomaly[linked].cabin = c
                    /\ A!ShouldFreeze(s.anomaly[linked])
        opened == <<{Save("order", n, W!NewWorkOrder(c, linked, inspector))}>>
    IN  IF s.cabin[c] = None THEN Refuse(404)
        ELSE IF freezing THEN Created(<<{Save("cabin", c, BeginMaintenance(s.cabin[c]))}>> \o opened)
        ELSE Created(opened)

startWorkOrder(s, i) == Method(s, "order", i, W!CanStart(s.order[i]), W!Start(s.order[i]))

reviewWorkOrder(s, i, inspector) ==
    Method(s, "order", i, W!CanReview(s.order[i], inspector), W!Review(s.order[i], inspector))

\* Closing twice is a duplicate.  The order is stored as closed before the
\* anomaly it is linked to is resolved.
closeWorkOrder(s, i) ==
    LET linked == s.order[i].anomaly
        closed == <<{Save("order", i, W!Close(s.order[i]))}>>
    IN  IF s.order[i] = None THEN Refuse(404)
        ELSE IF s.order[i].state = "closed" THEN Refuse(409)
        ELSE IF ~W!CanClose(s.order[i]) THEN Refuse(422)
        ELSE IF linked = NoAnomaly THEN Answer(200, closed)
        ELSE Answer(200, closed \o resolveAnomaly(s, linked).saves)

-----------------------------------------------------------------------------
(* Black starts.                                                           *)

\* Mutant: only a black start that is executing counts as active.
ActiveWhenExecuting(s) ==
    {i \in IDs : s.blackStart[i] # None /\ s.blackStart[i].state = "executing"}

ActiveBlackStarts(s) ==
    {i \in IDs : s.blackStart[i] # None /\ ~B!IsTerminal(s.blackStart[i])}

\* Mutant: the cabins of the plan are not looked up.
requestBlackStartUnchecked(s, n, plan) ==
    IF ActiveBlackStarts(s) # {} THEN Refuse(400)
    ELSE Created(<<{Save("blackStart", n, B!NewBlackStart(plan))}>>)

\* The refusal for an active black start is no domain error, and hence a 400.
requestBlackStart(s, n, plan) ==
    IF ActiveBlackStarts(s) # {} THEN Refuse(400)
    ELSE IF \E k \in 1..Len(plan) : s.cabin[plan[k]] = None THEN Refuse(404)
    ELSE Created(<<{Save("blackStart", n, B!NewBlackStart(plan))}>>)

authorizeBlackStart(s, i, role, principal) ==
    Method(s, "blackStart", i, B!CanAuthorize(s.blackStart[i], role, principal),
           B!Authorize(s.blackStart[i], role, principal))

\* b after the execution loop has dealt with the first k positions of its plan.
\* A position whose cabin is decided leaves it as it is.
Restored(s, b, k) ==
    LET open  == {b.cabins[j] : j \in 1..k} \ (b.started \cup b.excluded)
        ready == {c \in open : s.cabin[c] # None /\ ~IsFrozen(s.cabin[c])}
    IN  [b EXCEPT !.started = @ \cup ready, !.excluded = @ \cup (open \ ready)]

\* The whole loop.  Nobody writes a cabin meanwhile.
executeBlackStart(s, i) ==
    LET b == B!BeginExecution(s.blackStart[i])
        n == Len(b.cabins)
    IN  IF s.blackStart[i] = None THEN Refuse(404)
        ELSE IF ~B!CanBeginExecution(s.blackStart[i]) THEN Refuse(422)
        ELSE Answer(200, [k \in 1..n + 2 |->
                            {Save("blackStart", i,
                                  IF k <= n + 1 THEN Restored(s, b, k - 1)
                                  ELSE B!Complete(Restored(s, b, n)))}])

rollbackBlackStart(s, i) ==
    Method(s, "blackStart", i, TRUE, B!Rollback(s.blackStart[i]))

-----------------------------------------------------------------------------
(* Grid syncs.                                                             *)

\* A black start that is not completed is refused with a 400.
initiateGridSync(s, n, b) ==
    IF b # Standalone /\ s.blackStart[b] = None THEN Refuse(404)
    ELSE IF b # Standalone /\ s.blackStart[b].state # "completed" THEN Refuse(400)
    ELSE Created(<<{Save("gridSync", n, G!NewGridSync(b))}>>)

beginSyncing(s, i) ==
    IF s.gridSync[i] # None /\ G!IsTerminal(s.gridSync[i]) THEN Refuse(409)
    ELSE Method(s, "gridSync", i, G!CanBeginSyncing(s.gridSync[i]), G!BeginSyncing(s.gridSync[i]))

\* Every error is answered with a 422, and the clone is saved all the same.
verifySync(s, i, m) ==
    LET g == s.gridSync[i]
    IN  IF g = None THEN Refuse(422)
        ELSE Answer(IF G!CanVerify(g) /\ G!Within(m) THEN 200 ELSE 422,
                    <<{Save("gridSync", i, G!Verify(g, m))}>>)

connectGrid(s, i) ==
    IF s.gridSync[i] # None /\ G!IsTerminal(s.gridSync[i]) THEN Refuse(409)
    ELSE Method(s, "gridSync", i, G!CanConnect(s.gridSync[i]), G!Connect(s.gridSync[i]))

beginRetest(s, i) ==
    Method(s, "gridSync", i, G!CanBeginRetest(s.gridSync[i]), G!BeginRetest(s.gridSync[i]))

=============================================================================
