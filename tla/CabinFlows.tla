----------------------------- MODULE CabinFlows -----------------------------
(***************************************************************************)
(* The flows that share cabins: inspections, anomalies and work orders     *)
(* (internal/service/inspection.go, anomaly.go, workorder.go), and the     *)
(* part of the background worker that escalates anomalies.                 *)
(*                                                                         *)
(* A request makes several calls of the store, and those of other requests *)
(* may come between any two of them.  todo[u] is what goroutine u has      *)
(* still to do: a sequence of calls, each with the clone it will save or   *)
(* the lookup it will make.  A request enters with its first lookup, which *)
(* fixes the clone it works on; one that is refused there changes nothing  *)
(* and is no action.                                                       *)
(*                                                                         *)
(* Cabins are seeded before the flows begin and never removed.             *)
(***************************************************************************)
EXTENDS Cabin, Naturals, Sequences

CONSTANTS
    Cabins, AnomalyIDs, InspectionIDs, OrderIDs,
    Inspectors,
    Certified,     \* the inspectors with a valid certificate
    Callers,       \* request goroutines
    Workers,       \* the background worker, or nobody
    AckDeadline,   \* ticks the duty officer has to acknowledge a Level-1 anomaly
    Levels,        \* anomaly levels that are reported
    MaxTime,       \* bound on the clock
    NoRecord, NoAnomaly, NoOne

A == INSTANCE Anomaly
I == INSTANCE Inspection
W == INSTANCE WorkOrder

ASSUME DeadlineAssumption == AckDeadline \in Nat
ASSUME LevelsAssumption == Levels \subseteq A!AnomalyLevel
ASSUME CertifiedAssumption == Certified \subseteq Inspectors
ASSUME IDsAssumption ==
    /\ AnomalyIDs \cap InspectionIDs = {}
    /\ AnomalyIDs \cap OrderIDs = {}
    /\ InspectionIDs \cap OrderIDs = {}
    /\ NoAnomaly \notin AnomalyIDs
ASSUME NullAssumption ==
    /\ NoRecord \notin A!AnomalyRecord \cup I!InspectionRecord \cup W!WorkOrderRecord
    /\ NoOne \notin Inspectors
ASSUME CallersAssumption == Callers \cap Workers = {}

VARIABLES
    cabin, anomaly, inspection, order,  \* the store
    now,                                \* Clock.Now
    issued,                             \* the IDs given out so far
    todo                                \* what each goroutine has still to do

store == <<cabin, anomaly, inspection, order>>

vars == <<cabin, anomaly, inspection, order, now, issued, todo>>

Clients == Callers \cup Workers

\* What is left of a request: a save of a clone, or a lookup and what follows.
Call ==
    [call : {"SaveCabin"}, cabin : Cabins, status : CabinStatus]
      \cup [call : {"SaveAnomaly"}, anomaly : AnomalyIDs, clone : A!AnomalyRecord]
      \cup [call : {"SaveInspection"}, inspection : InspectionIDs, clone : I!InspectionRecord]
      \cup [call : {"SaveWorkOrder"}, order : OrderIDs, clone : W!WorkOrderRecord]
      \cup [call : {"ReportFault", "FreezeInspections", "FinishIfClear"}, cabin : Cabins]
      \cup [call : {"Freeze"}, frozen : SUBSET (InspectionIDs \X I!InspectionRecord)]
      \cup [call : {"Acknowledge"}, anomaly : AnomalyIDs, loaded : A!AnomalyRecord]
      \cup [call : {"Resolve"}, anomaly : AnomalyIDs]
      \cup [call : {"ListOverdue"}, at : Nat]
      \cup [call : {"Escalate"}, overdue : SUBSET AnomalyIDs]

\* Types of the variables.
TypeOK ==
    /\ cabin \in [Cabins -> CabinStatus]
    /\ anomaly \in [AnomalyIDs -> A!AnomalyRecord \cup {NoRecord}]
    /\ inspection \in [InspectionIDs -> I!InspectionRecord \cup {NoRecord}]
    /\ order \in [OrderIDs -> W!WorkOrderRecord \cup {NoRecord}]
    /\ now \in Nat \ {0}
    /\ issued \subseteq AnomalyIDs \cup InspectionIDs \cup OrderIDs
    /\ todo \in [Clients -> Seq(Call)]

Init ==
    /\ cabin = [c \in Cabins |-> "operational"]
    /\ anomaly = [i \in AnomalyIDs |-> NoRecord]
    /\ inspection = [i \in InspectionIDs |-> NoRecord]
    /\ order = [i \in OrderIDs |-> NoRecord]
    /\ now = 1
    /\ issued = {}
    /\ todo = [u \in Clients |-> <<>>]

-----------------------------------------------------------------------------
(* The calls a request is made of.                                         *)

SaveCabin(c, status) == [call |-> "SaveCabin", cabin |-> c, status |-> status]
SaveAnomaly(i, a) == [call |-> "SaveAnomaly", anomaly |-> i, clone |-> a]
SaveInspection(i, in) == [call |-> "SaveInspection", inspection |-> i, clone |-> in]
SaveWorkOrder(i, w) == [call |-> "SaveWorkOrder", order |-> i, clone |-> w]

\* Goroutine u takes up a request and has the given calls left.
Enter(u, calls) ==
    /\ todo[u] = <<>>
    /\ todo' = [todo EXCEPT ![u] = calls]
    /\ UNCHANGED <<store, now>>

\* Goroutine u makes its next call, and then the given ones before the rest.
Proceed(u, calls) == todo' = [todo EXCEPT ![u] = calls \o Tail(@)]

AtCall(u, call) == todo[u] # <<>> /\ Head(todo[u]).call = call

Issue(i) == i \notin issued /\ issued' = issued \cup {i}

-----------------------------------------------------------------------------
(* Anomalies.                                                              *)

\* Whether a Level-1 report isolates or freezes is isolateOrFreeze's decision,
\* which BlackStartExecution models; here either may happen.
ReportAnomaly(u, i, c, level, conflict) ==
    LET a == A!NewAnomaly(c, level, now)
    IN  /\ Issue(i)
        /\ Enter(u,
             IF ~A!ShouldFreeze(a)
             THEN <<[call |-> "ReportFault", cabin |-> c], SaveAnomaly(i, a)>>
             ELSE <<SaveCabin(c, IF conflict THEN Isolate(cabin[c]) ELSE Freeze(cabin[c])),
                    [call |-> "FreezeInspections", cabin |-> c],
                    SaveAnomaly(i, IF conflict THEN A!Isolate(a) ELSE a)>>)

LoadAndReportFault(u) ==
    LET c == Head(todo[u]).cabin
    IN  /\ AtCall(u, "ReportFault")
        /\ Proceed(u, <<SaveCabin(c, ReportFault(cabin[c]))>>)
        /\ UNCHANGED <<store, now, issued>>

\* The clock is read after the load, and the clone is saved whatever it said.
AcknowledgeAnomaly(u, i) ==
    /\ anomaly[i] # NoRecord
    /\ Enter(u, <<[call |-> "Acknowledge", anomaly |-> i, loaded |-> anomaly[i]]>>)
    /\ UNCHANGED issued

AcknowledgeNow(u) ==
    LET k == Head(todo[u])
    IN  /\ AtCall(u, "Acknowledge")
        /\ Proceed(u, <<SaveAnomaly(k.anomaly, A!Acknowledge(k.loaded, now))>>)
        /\ UNCHANGED <<store, now, issued>>

IsolateAnomaly(u, i) ==
    /\ anomaly[i] # NoRecord /\ A!CanIsolate(anomaly[i])
    /\ LET c == anomaly[i].cabin
       IN  Enter(u, <<SaveCabin(c, Isolate(cabin[c])), SaveAnomaly(i, A!Isolate(anomaly[i]))>>)
    /\ UNCHANGED issued

\* What ResolveAnomaly does after its load of the anomaly i.
Resolution(i) ==
    LET c == anomaly[i].cabin
    IN  <<SaveCabin(c, Restore(cabin[c])), SaveAnomaly(i, A!Resolve(anomaly[i]))>>

CanResolveAnomaly(i) == anomaly[i] # NoRecord /\ A!CanResolve(anomaly[i])

ResolveAnomaly(u, i) ==
    /\ CanResolveAnomaly(i)
    /\ Enter(u, Resolution(i))
    /\ UNCHANGED issued

-----------------------------------------------------------------------------
(* Inspections.                                                            *)

DispatchInspection(u, i, c, inspector, inWindow) ==
    /\ CanBeginInspection(cabin[c])
    /\ I!CanCreate(inspector, inWindow)
    /\ Issue(i)
    /\ Enter(u, <<SaveCabin(c, BeginInspection(cabin[c])),
                  SaveInspection(i, I!NewInspection(c, inspector))>>)

\* One method of the inspection i, and the save of the result.
Inspect(u, i, result) ==
    /\ inspection[i] # NoRecord
    /\ Enter(u, <<SaveInspection(i, result)>>)
    /\ UNCHANGED issued

StartInspection(u, i) == Inspect(u, i, I!Start(inspection[i])) /\ I!CanStart(inspection[i])

UploadPhoto(u, i) ==
    Inspect(u, i, I!UploadPhoto(inspection[i])) /\ I!CanUploadPhoto(inspection[i])

ReviewInspection(u, i, inspector) ==
    /\ Inspect(u, i, I!Review(inspection[i], inspector))
    /\ I!CanReview(inspection[i], inspector)

CompleteInspection(u, i) ==
    /\ inspection[i] # NoRecord /\ I!CanComplete(inspection[i])
    /\ Enter(u, <<[call |-> "FinishIfClear", cabin |-> inspection[i].cabin],
                  SaveInspection(i, I!Complete(inspection[i]))>>)
    /\ UNCHANGED issued

OpenAnomaliesForCabin(c) ==
    {i \in AnomalyIDs : /\ anomaly[i] # NoRecord
                        /\ anomaly[i].cabin = c
                        /\ ~A!IsTerminal(anomaly[i])}

\* The cabin is given back only when it has no open anomaly.
FinishIfClear(u) ==
    LET c == Head(todo[u]).cabin
    IN  /\ AtCall(u, "FinishIfClear")
        /\ Proceed(u, IF OpenAnomaliesForCabin(c) = {}
                      THEN <<SaveCabin(c, FinishInspection(cabin[c]))>> ELSE <<>>)
        /\ UNCHANGED <<store, now, issued>>

OpenInspectionsForCabin(c) ==
    {i \in InspectionIDs : /\ inspection[i] # NoRecord
                           /\ inspection[i].cabin = c
                           /\ ~I!IsClosed(inspection[i])}

FreezeInspectionsForCabin(u) ==
    LET open == OpenInspectionsForCabin(Head(todo[u]).cabin)
    IN  /\ AtCall(u, "FreezeInspections")
        /\ Proceed(u, <<[call |-> "Freeze", frozen |-> {<<i, I!Freeze(inspection[i])>> : i \in open}]>>)
        /\ UNCHANGED <<store, now, issued>>

\* The clones are saved one by one, in no particular order.
SaveFrozen(u) ==
    LET frozen == Head(todo[u]).frozen
    IN  /\ AtCall(u, "Freeze")
        /\ \/ /\ frozen = {}
              /\ Proceed(u, <<>>)
              /\ UNCHANGED inspection
           \/ \E f \in frozen :
                 /\ inspection' = [inspection EXCEPT ![f[1]] = f[2]]
                 /\ Proceed(u, <<[call |-> "Freeze", frozen |-> frozen \ {f}]>>)
        /\ UNCHANGED <<cabin, anomaly, order, now, issued>>

-----------------------------------------------------------------------------
(* Work orders.  An order is linked to a stored anomaly or to none; an ID  *)
(* the store does not know acts like none.                                 *)

OpenWorkOrder(u, i, c, linked, inspector) ==
    LET freezing == /\ linked # NoAnomaly
                    /\ anomaly[linked].cabin = c
                    /\ A!ShouldFreeze(anomaly[linked])
        save == SaveWorkOrder(i, W!NewWorkOrder(c, linked, inspector))
    IN  /\ linked # NoAnomaly => anomaly[linked] # NoRecord
        /\ Issue(i)
        /\ Enter(u, IF freezing THEN <<SaveCabin(c, BeginMaintenance(cabin[c])), save>>
                    ELSE <<save>>)

\* One method of the order i, and the save of the result.
Work(u, i, result) ==
    /\ order[i] # NoRecord
    /\ Enter(u, <<SaveWorkOrder(i, result)>>)
    /\ UNCHANGED issued

StartWorkOrder(u, i) == Work(u, i, W!Start(order[i])) /\ W!CanStart(order[i])

SubmitWorkOrderForReview(u, i) ==
    Work(u, i, W!SubmitForReview(order[i])) /\ W!CanSubmitForReview(order[i])

ReviewWorkOrder(u, i, inspector) ==
    Work(u, i, W!Review(order[i], inspector)) /\ W!CanReview(order[i], inspector)

\* Mutant: the linked anomaly is left alone.
CloseOrderOnly(u, i) ==
    /\ order[i] # NoRecord /\ W!CanClose(order[i])
    /\ Enter(u, <<SaveWorkOrder(i, W!Close(order[i]))>>)
    /\ UNCHANGED issued

\* The order is stored as closed before its anomaly is resolved.
CloseWorkOrder(u, i) ==
    /\ order[i] # NoRecord /\ W!CanClose(order[i])
    /\ Enter(u, <<SaveWorkOrder(i, W!Close(order[i]))>>
                  \o IF order[i].anomaly = NoAnomaly THEN <<>>
                     ELSE <<[call |-> "Resolve", anomaly |-> order[i].anomaly]>>)
    /\ UNCHANGED issued

ResolveLinked(u) ==
    LET i == Head(todo[u]).anomaly
    IN  /\ AtCall(u, "Resolve")
        /\ Proceed(u, IF CanResolveAnomaly(i) THEN Resolution(i) ELSE <<>>)
        /\ UNCHANGED <<store, now, issued>>

-----------------------------------------------------------------------------
(* The saves: whatever is stored by then is overwritten.                   *)

StoreCabin(u) ==
    LET k == Head(todo[u])
    IN  /\ AtCall(u, "SaveCabin")
        /\ cabin' = [cabin EXCEPT ![k.cabin] = k.status]
        /\ Proceed(u, <<>>)
        /\ UNCHANGED <<anomaly, inspection, order, now, issued>>

StoreAnomaly(u) ==
    LET k == Head(todo[u])
    IN  /\ AtCall(u, "SaveAnomaly")
        /\ anomaly' = [anomaly EXCEPT ![k.anomaly] = k.clone]
        /\ Proceed(u, <<>>)
        /\ UNCHANGED <<cabin, inspection, order, now, issued>>

StoreInspection(u) ==
    LET k == Head(todo[u])
    IN  /\ AtCall(u, "SaveInspection")
        /\ inspection' = [inspection EXCEPT ![k.inspection] = k.clone]
        /\ Proceed(u, <<>>)
        /\ UNCHANGED <<cabin, anomaly, order, now, issued>>

StoreWorkOrder(u) ==
    LET k == Head(todo[u])
    IN  /\ AtCall(u, "SaveWorkOrder")
        /\ order' = [order EXCEPT ![k.order] = k.clone]
        /\ Proceed(u, <<>>)
        /\ UNCHANGED <<cabin, anomaly, inspection, now, issued>>

-----------------------------------------------------------------------------
(* The worker and the clock.                                               *)

\* A pass of the worker: it reads the clock, then the list of anomalies, then
\* escalates what was overdue one by one.
EscalationPass(w) ==
    /\ Enter(w, <<[call |-> "ListOverdue", at |-> now]>>)
    /\ UNCHANGED issued

\* Mutant: anomalies of the other levels are looked for.
MinorNeedsEscalation(a, at) ==
    a.state = "reported" /\ a.level # 1 /\ at > A!AckDeadlineAt(a)

NeedsEscalation(a, at) == a.state = "reported" /\ A!Late(a, at)

AnomaliesNeedingEscalation(w) ==
    LET k == Head(todo[w])
    IN  /\ AtCall(w, "ListOverdue")
        /\ Proceed(w, <<[call |-> "Escalate",
                         overdue |-> {i \in AnomalyIDs : /\ anomaly[i] # NoRecord
                                                         /\ NeedsEscalation(anomaly[i], k.at)}]>>)
        /\ UNCHANGED <<store, now, issued>>

\* The anomaly is loaded again; one that has been dealt with is skipped.
EscalateAnomaly(w) ==
    LET overdue == Head(todo[w]).overdue
    IN  /\ AtCall(w, "Escalate")
        /\ \/ overdue = {} /\ Proceed(w, <<>>)
           \/ \E i \in overdue :
                 LET rest == [call |-> "Escalate", overdue |-> overdue \ {i}]
                 IN  Proceed(w, IF A!CanEscalate(anomaly[i])
                                THEN <<SaveAnomaly(i, A!Escalate(anomaly[i])), rest>>
                                ELSE <<rest>>)
        /\ UNCHANGED <<store, now, issued>>

Tick ==
    /\ now < MaxTime
    /\ now' = now + 1
    /\ UNCHANGED <<store, issued, todo>>

-----------------------------------------------------------------------------
Request(u) ==
    \/ \E i \in AnomalyIDs :
          \/ \E c \in Cabins, level \in Levels, conflict \in BOOLEAN :
                ReportAnomaly(u, i, c, level, conflict)
          \/ AcknowledgeAnomaly(u, i)
          \/ IsolateAnomaly(u, i)
          \/ ResolveAnomaly(u, i)
    \/ \E i \in InspectionIDs :
          \/ \E c \in Cabins, inspector \in Inspectors, inWindow \in BOOLEAN :
                DispatchInspection(u, i, c, inspector, inWindow)
          \/ StartInspection(u, i)
          \/ UploadPhoto(u, i)
          \/ \E inspector \in Inspectors : ReviewInspection(u, i, inspector)
          \/ CompleteInspection(u, i)
    \/ \E i \in OrderIDs :
          \/ \E c \in Cabins, linked \in AnomalyIDs \cup {NoAnomaly}, inspector \in Inspectors :
                OpenWorkOrder(u, i, c, linked, inspector)
          \/ StartWorkOrder(u, i)
          \/ SubmitWorkOrderForReview(u, i)
          \/ \E inspector \in Inspectors : ReviewWorkOrder(u, i, inspector)
          \/ CloseWorkOrder(u, i)

\* A step of a request that is under way.
Continue(u) ==
    \/ LoadAndReportFault(u)
    \/ AcknowledgeNow(u)
    \/ FinishIfClear(u)
    \/ FreezeInspectionsForCabin(u)
    \/ SaveFrozen(u)
    \/ ResolveLinked(u)
    \/ StoreCabin(u)
    \/ StoreAnomaly(u)
    \/ StoreInspection(u)
    \/ StoreWorkOrder(u)

WorkerStep(w) ==
    \/ EscalationPass(w)
    \/ AnomaliesNeedingEscalation(w)
    \/ EscalateAnomaly(w)
    \/ StoreAnomaly(w)

Next ==
    \/ \E u \in Callers : Request(u) \/ Continue(u)
    \/ \E w \in Workers : WorkerStep(w)
    \/ Tick

Spec == Init /\ [][Next]_vars

\* The ticker keeps firing and a goroutine that has work is run; requests come
\* when the clients please, and the clock owes nobody a tick.
FairSpec ==
    /\ Spec
    /\ \A w \in Workers : WF_vars(WorkerStep(w))
    /\ \A u \in Callers : WF_vars(Continue(u))

-----------------------------------------------------------------------------
(* Properties.                                                             *)

Stored(f) == {f[i] : i \in {j \in DOMAIN f : f[j] # NoRecord}}

\* Acknowledgements are in time and escalations are not early: whatever order
\* the duty officer, other operators and the worker save their clones in, a
\* Level-1 anomaly that carries an acknowledgement got it by its deadline, and
\* only a Level-1 anomaly whose deadline has passed is ever escalated.
DeadlineDecides ==
    \A a \in Stored(anomaly) :
        /\ a.level = 1 => a.acknowledgedAt <= A!AckDeadlineAt(a)
        /\ a.escalated => A!Late(a, now)

\* An inspection is completed and a work order closed only with the signature
\* of the inspector it was assigned to.
SignedOff ==
    /\ \A in \in Stored(inspection) : in.state = "completed" => in.signedBy = in.inspector
    /\ \A w \in Stored(order) : w.state = "closed" => w.signedBy = w.inspector

\* A Level-1 anomaly nobody has dealt with by its deadline is escalated, or
\* dealt with after all.
OverdueEscalated ==
    \A i \in AnomalyIDs :
        LET Overdue == /\ anomaly[i] # NoRecord
                       /\ anomaly[i].state = "reported"
                       /\ A!Late(anomaly[i], now)
        IN  Overdue ~> ~Overdue

\* No request is under way.
Quiet == \A u \in Clients : todo[u] = <<>>

\* Every cabin that is not operational can be brought back: it has an open
\* anomaly, whose resolution restores it, or it is under an open inspection,
\* whose completion does.
NoStrandedCabin ==
    Quiet => \A c \in Cabins :
        \/ cabin[c] = "operational"
        \/ OpenAnomaliesForCabin(c) # {}
        \/ cabin[c] = "under_inspection" /\ OpenInspectionsForCabin(c) # {}

\* No inspection goes on in a cabin that a Level-1 report froze.
FrozenCabinClear ==
    Quiet => \A in \in Stored(inspection) : cabin[in.cabin] = "frozen" => I!IsClosed(in)

\* Closed-loop control: the anomaly a closed order was opened for is resolved.
ClosedLoop ==
    Quiet => \A w \in Stored(order) :
        w.state = "closed" /\ w.anomaly # NoAnomaly => A!IsTerminal(anomaly[w.anomaly])

=============================================================================
