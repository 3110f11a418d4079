-------------------------- MODULE CabinFlows_proofs --------------------------
(***************************************************************************)
(* Theorems about the flows over cabins and their proofs.                  *)
(*                                                                         *)
(* Every clone in the program, stored or waiting in some goroutine's todo, *)
(* is the result of the entity's methods, so a predicate that new records  *)
(* have and the methods keep holds of all of them in whatever order they   *)
(* are saved.  Escalation needs more: the worker escalates by a list older *)
(* than the record it loads, so all records of one ID must agree on what   *)
(* the deadline depends on.  birth says what they agree on.                *)
(***************************************************************************)
EXTENDS CabinFlows, SequenceTheorems, TLAPS

-----------------------------------------------------------------------------
(* The inductive invariant                                                 *)

\* The level and the time of a report.
Births == [level : A!AnomalyLevel, at : Nat]

LateAt(e, t) == e.level = 1 /\ t > e.at + AckDeadline

\* At time t, a record of the anomaly that was reported as e.
SoundAnomaly(e, t) ==
    {a \in A!AnomalyRecord :
        /\ a.level = e.level /\ a.reportedAt = e.at
        /\ a.level = 1 => a.acknowledgedAt <= a.reportedAt + AckDeadline
        /\ a.escalated => LateAt(e, t)}

SoundInspection ==
    {in \in I!InspectionRecord :
        in.state \in {"reviewed", "completed"} => in.signedBy = in.inspector}

SoundOrder ==
    {w \in W!WorkOrderRecord :
        /\ w.signedBy \in {NoOne, w.inspector}
        /\ w.state = "closed" => w.signedBy # NoOne}

\* The calls that may be waiting at time t, when the IDs in ids are issued and
\* those in kept are stored.
SaveAnomalyCalls(birth, ids, t) ==
    {k \in [call : {"SaveAnomaly"}, anomaly : AnomalyIDs \cap ids, clone : A!AnomalyRecord] :
        k.clone \in SoundAnomaly(birth[k.anomaly], t)}

AcknowledgeCalls(birth, ids, t) ==
    {k \in [call : {"Acknowledge"}, anomaly : AnomalyIDs \cap ids, loaded : A!AnomalyRecord] :
        k.loaded \in SoundAnomaly(birth[k.anomaly], t)}

EscalateCalls(birth, kept, t) ==
    [call : {"Escalate"}, overdue : SUBSET {i \in kept : LateAt(birth[i], t)}]

SaveCabinCalls == [call : {"SaveCabin"}, cabin : Cabins, status : CabinStatus]
SaveInspectionCalls ==
    [call : {"SaveInspection"}, inspection : InspectionIDs, clone : SoundInspection]
SaveOrderCalls == [call : {"SaveWorkOrder"}, order : OrderIDs, clone : SoundOrder]
CabinCalls == [call : {"ReportFault", "FreezeInspections", "FinishIfClear"}, cabin : Cabins]
FreezeCalls == [call : {"Freeze"}, frozen : SUBSET (InspectionIDs \X SoundInspection)]
ResolveCalls == [call : {"Resolve"}, anomaly : AnomalyIDs]
ListCalls(t) == [call : {"ListOverdue"}, at : {s \in Nat : s <= t}]

SoundCall(birth, ids, kept, t) ==
    SaveCabinCalls \cup SaveAnomalyCalls(birth, ids, t) \cup SaveInspectionCalls
      \cup SaveOrderCalls \cup CabinCalls \cup FreezeCalls
      \cup AcknowledgeCalls(birth, ids, t) \cup ResolveCalls \cup ListCalls(t)
      \cup EscalateCalls(birth, kept, t)

Kept == {i \in AnomalyIDs : anomaly[i] # NoRecord}

\* Every record is sound, and those of one anomaly agree with its birth.
SoundFor(birth) ==
    /\ birth \in [AnomalyIDs -> Births]
    /\ anomaly \in [AnomalyIDs -> A!AnomalyRecord \cup {NoRecord}]
    /\ \A i \in Kept : i \in issued /\ anomaly[i] \in SoundAnomaly(birth[i], now)
    /\ todo \in [Clients -> Seq(SoundCall(birth, issued, Kept, now))]

StoreSound ==
    /\ cabin \in [Cabins -> CabinStatus]
    /\ inspection \in [InspectionIDs -> SoundInspection \cup {NoRecord}]
    /\ order \in [OrderIDs -> SoundOrder \cup {NoRecord}]
    /\ now \in Nat \ {0}
    /\ issued \subseteq AnomalyIDs \cup InspectionIDs \cup OrderIDs

FlowsInv == StoreSound /\ \E birth \in [AnomalyIDs -> Births] : SoundFor(birth)

-----------------------------------------------------------------------------
(* The methods                                                             *)

\* The methods of an anomaly keep what its records agree on.
LEMMA AnomalyMethods ==
    ASSUME NEW e \in Births, NEW t \in Nat, NEW a \in SoundAnomaly(e, t)
    PROVE  /\ A!Acknowledge(a, t) \in SoundAnomaly(e, t)
           /\ A!Isolate(a) \in SoundAnomaly(e, t)
           /\ A!Resolve(a) \in SoundAnomaly(e, t)
           /\ LateAt(e, t) => A!Escalate(a) \in SoundAnomaly(e, t)
<1> USE DeadlineAssumption DEF SoundAnomaly, LateAt, Births, A!AnomalyRecord, A!AnomalyState,
      A!AnomalyLevel
<1>1. LateAt(e, t) => A!Escalate(a) \in SoundAnomaly(e, t)
  BY DEF A!Escalate
<1>2. A!Acknowledge(a, t) \in SoundAnomaly(e, t)
  <2>1. CASE a.state # "reported"
    BY <2>1 DEF A!Acknowledge
  <2>2. CASE a.state = "reported" /\ A!Late(a, t)
    BY <1>1, <2>2 DEF A!Acknowledge, A!Late, A!AckDeadlineAt
  <2>3. CASE a.state = "reported" /\ ~A!Late(a, t)
    <3>1. A!Acknowledge(a, t) = [a EXCEPT !.state = "acknowledged", !.acknowledgedAt = t]
      BY <2>3 DEF A!Acknowledge
    <3>2. a.level = 1 => t <= a.reportedAt + AckDeadline
      BY <2>3 DEF A!Late, A!AckDeadlineAt
    <3> QED
      BY <3>1, <3>2
  <2> QED
    BY <2>1, <2>2, <2>3
<1>3. A!Isolate(a) \in SoundAnomaly(e, t)
  BY DEF A!Isolate
<1>4. A!Resolve(a) \in SoundAnomaly(e, t)
  BY DEF A!Resolve
<1> QED
  BY <1>1, <1>2, <1>3, <1>4

\* A new anomaly is sound for the report that creates it.
LEMMA NewAnomalySound ==
    ASSUME NEW c \in Cabins, NEW level \in A!AnomalyLevel, NEW t \in Nat,
           NEW e \in Births, e.level = level, e.at = t
    PROVE  A!NewAnomaly(c, level, t) \in SoundAnomaly(e, t)
BY DeadlineAssumption
   DEF A!NewAnomaly, SoundAnomaly, Births, LateAt, A!AnomalyRecord, A!AnomalyState, A!AnomalyLevel

\* The methods of an inspection sign it, if at all, for its inspector.
LEMMA InspectionMethods ==
    ASSUME NEW in \in SoundInspection
    PROVE  /\ I!CanStart(in) => I!Start(in) \in SoundInspection
           /\ I!CanUploadPhoto(in) => I!UploadPhoto(in) \in SoundInspection
           /\ \A p \in Inspectors : I!CanReview(in, p) => I!Review(in, p) \in SoundInspection
           /\ I!CanComplete(in) => I!Complete(in) \in SoundInspection
           /\ I!Freeze(in) \in SoundInspection
<1> USE DEF SoundInspection, I!InspectionRecord, I!InspectionState
<1>1. I!CanStart(in) => I!Start(in) \in SoundInspection
  BY DEF I!CanStart, I!Start
<1>2. I!CanUploadPhoto(in) => I!UploadPhoto(in) \in SoundInspection
  BY DEF I!CanUploadPhoto, I!UploadPhoto
<1>3. ASSUME NEW p \in Inspectors, I!CanReview(in, p)
      PROVE  I!Review(in, p) \in SoundInspection
  BY <1>3 DEF I!CanReview, I!Review
<1>4. I!CanComplete(in) => I!Complete(in) \in SoundInspection
  BY DEF I!CanComplete, I!Complete
<1>5. I!Freeze(in) \in SoundInspection
  BY DEF I!Freeze, I!IsClosed
<1> QED
  BY <1>1, <1>2, <1>3, <1>4, <1>5

\* A new inspection is sound.
LEMMA NewInspectionSound ==
    ASSUME NEW c \in Cabins, NEW p \in Inspectors
    PROVE  I!NewInspection(c, p) \in SoundInspection
BY DEF I!NewInspection, SoundInspection, I!InspectionRecord, I!InspectionState

\* The methods of a work order sign it, if at all, for its inspector.
LEMMA OrderMethods ==
    ASSUME NEW w \in SoundOrder
    PROVE  /\ W!CanStart(w) => W!Start(w) \in SoundOrder
           /\ W!CanSubmitForReview(w) => W!SubmitForReview(w) \in SoundOrder
           /\ \A p \in Inspectors : W!CanReview(w, p) => W!Review(w, p) \in SoundOrder
           /\ W!CanClose(w) => W!Close(w) \in SoundOrder
<1> USE DEF SoundOrder, W!WorkOrderRecord, W!WorkOrderState
<1>1. W!CanStart(w) => W!Start(w) \in SoundOrder
  BY DEF W!CanStart, W!Start
<1>2. W!CanSubmitForReview(w) => W!SubmitForReview(w) \in SoundOrder
  BY DEF W!CanSubmitForReview, W!SubmitForReview
<1>3. ASSUME NEW p \in Inspectors, W!CanReview(w, p)
      PROVE  W!Review(w, p) \in SoundOrder
  BY <1>3, NullAssumption DEF W!CanReview, W!Review
<1>4. W!CanClose(w) => W!Close(w) \in SoundOrder
  BY DEF W!CanClose, W!Close
<1> QED
  BY <1>1, <1>2, <1>3, <1>4

\* A new work order is sound.
LEMMA NewOrderSound ==
    ASSUME NEW c \in Cabins, NEW a \in AnomalyIDs \cup {NoAnomaly}, NEW p \in Inspectors
    PROVE  W!NewWorkOrder(c, a, p) \in SoundOrder
BY DEF W!NewWorkOrder, SoundOrder, W!WorkOrderRecord, W!WorkOrderState

-----------------------------------------------------------------------------
(* The calls                                                               *)

\* A call stays sound as time passes, IDs are issued and records are stored,
\* and whatever births are given to IDs that were not issued.
LEMMA SoundCallsGrow ==
    ASSUME NEW b \in [AnomalyIDs -> Births], NEW b2 \in [AnomalyIDs -> Births],
           NEW ids, NEW ids2, ids \subseteq ids2,
           NEW kept, NEW kept2, kept \subseteq kept2, kept \subseteq AnomalyIDs \cap ids,
           NEW t \in Nat, NEW t2 \in Nat, t <= t2,
           \A i \in AnomalyIDs \cap ids : b2[i] = b[i]
    PROVE  SoundCall(b, ids, kept, t) \subseteq SoundCall(b2, ids2, kept2, t2)
<1>1. \A e \in Births : LateAt(e, t) => LateAt(e, t2)
  BY DeadlineAssumption DEF LateAt, Births
<1>2. \A e \in Births : SoundAnomaly(e, t) \subseteq SoundAnomaly(e, t2)
  BY <1>1 DEF SoundAnomaly
<1>3. \A i \in AnomalyIDs : b[i] \in Births
  OBVIOUS
<1>4. SaveAnomalyCalls(b, ids, t) \subseteq SaveAnomalyCalls(b2, ids2, t2)
  BY <1>2, <1>3 DEF SaveAnomalyCalls
<1>5. AcknowledgeCalls(b, ids, t) \subseteq AcknowledgeCalls(b2, ids2, t2)
  BY <1>2, <1>3 DEF AcknowledgeCalls
<1>6. EscalateCalls(b, kept, t) \subseteq EscalateCalls(b2, kept2, t2)
  <2>1. {i \in kept : LateAt(b[i], t)} \subseteq {i \in kept2 : LateAt(b2[i], t2)}
    BY <1>1, <1>3
  <2> QED
    BY <2>1 DEF EscalateCalls
<1>7. ListCalls(t) \subseteq ListCalls(t2)
  BY DEF ListCalls
<1> QED
  BY <1>4, <1>5, <1>6, <1>7 DEF SoundCall

\* What the kind of a sound call says about it.
LEMMA CallKinds ==
    ASSUME NEW birth, NEW ids, NEW kept, NEW t, NEW k \in SoundCall(birth, ids, kept, t)
    PROVE  /\ k.call = "SaveCabin" => k \in SaveCabinCalls
           /\ k.call = "SaveAnomaly" => k \in SaveAnomalyCalls(birth, ids, t)
           /\ k.call = "SaveInspection" => k \in SaveInspectionCalls
           /\ k.call = "SaveWorkOrder" => k \in SaveOrderCalls
           /\ k.call \in {"ReportFault", "FreezeInspections", "FinishIfClear"} => k \in CabinCalls
           /\ k.call = "Freeze" => k \in FreezeCalls
           /\ k.call = "Acknowledge" => k \in AcknowledgeCalls(birth, ids, t)
           /\ k.call = "Resolve" => k \in ResolveCalls
           /\ k.call = "ListOverdue" => k \in ListCalls(t)
           /\ k.call = "Escalate" => k \in EscalateCalls(birth, kept, t)
BY DEF SoundCall, SaveCabinCalls, SaveAnomalyCalls, SaveInspectionCalls, SaveOrderCalls,
       CabinCalls, FreezeCalls, AcknowledgeCalls, ResolveCalls, ListCalls, EscalateCalls

\* A goroutine that takes up a request has the request's calls to make.
LEMMA Entering ==
    ASSUME NEW S, NEW T, S \subseteq T, todo \in [Clients -> Seq(S)],
           NEW u \in Clients, NEW calls \in Seq(T), todo' = [todo EXCEPT ![u] = calls]
    PROVE  todo' \in [Clients -> Seq(T)]
<1>1. Seq(S) \subseteq Seq(T)
  OBVIOUS
<1> QED
  BY <1>1

\* A goroutine that makes a call has the new calls and the remaining ones.
LEMMA Proceeding ==
    ASSUME NEW S, NEW T, S \subseteq T, todo \in [Clients -> Seq(S)],
           NEW u \in Clients, todo[u] # <<>>, NEW calls \in Seq(T), Proceed(u, calls)
    PROVE  todo' \in [Clients -> Seq(T)]
<1>1. Seq(S) \subseteq Seq(T)
  OBVIOUS
<1>2. Tail(todo[u]) \in Seq(T)
  <2>1. todo[u] \in Seq(T)
    BY <1>1
  <2> QED
    BY <2>1
<1>3. calls \o Tail(todo[u]) \in Seq(T)
  BY <1>2
<1> QED
  BY <1>1, <1>3 DEF Proceed

-----------------------------------------------------------------------------
(* Steps that change the calls only                                        *)

\* A request that is taken up, or a call that is made, keeps the invariant if
\* it leaves sound calls.
LEMMA CallsOnly ==
    ASSUME StoreSound, NEW birth \in [AnomalyIDs -> Births], SoundFor(birth),
           NEW u \in Clients, NEW calls \in Seq(SoundCall(birth, issued, Kept, now)),
           \/ todo' = [todo EXCEPT ![u] = calls]
           \/ todo[u] # <<>> /\ Proceed(u, calls),
           UNCHANGED <<store, now, issued>>
    PROVE  FlowsInv'
<1>1. Kept' = Kept
  BY DEF Kept, store
<1>2. todo' \in [Clients -> Seq(SoundCall(birth, issued, Kept, now))]
  <2> DEFINE S == SoundCall(birth, issued, Kept, now)
  <2>1. S \subseteq S /\ todo \in [Clients -> Seq(S)]
    BY DEF SoundFor
  <2> HIDE DEF S
  <2>2. todo' \in [Clients -> Seq(S)]
    BY <2>1, Entering, Proceeding DEF S
  <2> QED
    BY <2>2 DEF S
<1>3. SoundFor(birth)'
  BY <1>1, <1>2 DEF SoundFor, store
<1>4. StoreSound'
  BY DEF StoreSound, store
<1> QED
  BY <1>3, <1>4 DEF FlowsInv

\* The same for a request that takes a new ID: its birth may be chosen.
LEMMA IssuingRequest ==
    ASSUME StoreSound, NEW birth \in [AnomalyIDs -> Births], SoundFor(birth),
           NEW u \in Clients, NEW i \in AnomalyIDs \cup InspectionIDs \cup OrderIDs, Issue(i),
           NEW birth2 \in [AnomalyIDs -> Births],
           \A j \in AnomalyIDs \cap issued : birth2[j] = birth[j],
           NEW calls \in Seq(SoundCall(birth2, issued', Kept, now)), Enter(u, calls)
    PROVE  FlowsInv'
<1>1. Kept' = Kept /\ Kept \subseteq AnomalyIDs \cap issued /\ issued \subseteq issued'
  BY DEF Kept, Enter, store, SoundFor, Issue
<1>2. todo' \in [Clients -> Seq(SoundCall(birth2, issued', Kept, now))]
  <2> DEFINE S == SoundCall(birth, issued, Kept, now)
             T == SoundCall(birth2, issued', Kept, now)
  <2>1. S \subseteq T
    BY <1>1, SoundCallsGrow DEF StoreSound
  <2>2. todo \in [Clients -> Seq(S)] /\ todo' = [todo EXCEPT ![u] = calls] /\ calls \in Seq(T)
    BY DEF SoundFor, Enter
  <2> HIDE DEF S, T
  <2>3. todo' \in [Clients -> Seq(T)]
    BY <2>1, <2>2, Entering
  <2> QED
    BY <2>3 DEF T
<1>3. SoundFor(birth2)'
  <2>1. \A j \in Kept : j \in issued' /\ anomaly[j] \in SoundAnomaly(birth2[j], now)
    BY <1>1 DEF SoundFor
  <2> QED
    BY <1>1, <1>2, <2>1 DEF SoundFor, Enter, store
<1>4. StoreSound'
  BY DEF StoreSound, Enter, store, Issue
<1> QED
  BY <1>3, <1>4 DEF FlowsInv

-----------------------------------------------------------------------------
(* The requests                                                            *)

\* The cabin's methods return statuses.
LEMMA CabinMethods ==
    ASSUME NEW s \in CabinStatus
    PROVE  {BeginInspection(s), FinishInspection(s), Freeze(s), Isolate(s), Restore(s),
            ReportFault(s), BeginMaintenance(s)} \subseteq CabinStatus
BY DEF BeginInspection, FinishInspection, Freeze, Isolate, Restore, ReportFault,
       BeginMaintenance, CabinStatus

\* The calls that save sound clones, and those on cabins, are sound.
LEMMA SoundCalls ==
    ASSUME NEW birth, NEW ids, NEW kept, NEW t
    PROVE  /\ \A c \in Cabins, st \in CabinStatus :
                 SaveCabin(c, st) \in SoundCall(birth, ids, kept, t)
           /\ \A i \in AnomalyIDs \cap ids, a \in A!AnomalyRecord :
                 a \in SoundAnomaly(birth[i], t)
                   => SaveAnomaly(i, a) \in SoundCall(birth, ids, kept, t)
           /\ \A i \in InspectionIDs, in \in SoundInspection :
                 SaveInspection(i, in) \in SoundCall(birth, ids, kept, t)
           /\ \A i \in OrderIDs, w \in SoundOrder :
                 SaveWorkOrder(i, w) \in SoundCall(birth, ids, kept, t)
           /\ \A c \in Cabins, k \in {"ReportFault", "FreezeInspections", "FinishIfClear"} :
                 [call |-> k, cabin |-> c] \in SoundCall(birth, ids, kept, t)
           /\ \A i \in AnomalyIDs :
                 [call |-> "Resolve", anomaly |-> i] \in SoundCall(birth, ids, kept, t)
BY DEF SoundCall, SaveCabin, SaveCabinCalls, SaveAnomaly, SaveAnomalyCalls, SaveInspection,
       SaveInspectionCalls, SaveWorkOrder, SaveOrderCalls, CabinCalls, ResolveCalls

\* A report gives its ID the birth that its record has.
LEMMA ReportAnomalyKeeps ==
    ASSUME StoreSound, NEW birth \in [AnomalyIDs -> Births], SoundFor(birth),
           NEW u \in Clients, NEW i \in AnomalyIDs, NEW c \in Cabins, NEW level \in Levels,
           NEW conflict \in BOOLEAN, ReportAnomaly(u, i, c, level, conflict)
    PROVE  FlowsInv'
<1> DEFINE e      == [level |-> level, at |-> now]
           birth2 == [birth EXCEPT ![i] = e]
           a      == A!NewAnomaly(c, level, now)
           T      == SoundCall(birth2, issued', Kept, now)
<1>1. level \in A!AnomalyLevel /\ now \in Nat /\ e \in Births /\ cabin[c] \in CabinStatus
  BY LevelsAssumption DEF StoreSound, Births
<1>2. /\ Issue(i) /\ birth2 \in [AnomalyIDs -> Births] /\ birth2[i] = e
      /\ \A j \in AnomalyIDs \cap issued : birth2[j] = birth[j]
      /\ i \in AnomalyIDs \cap issued'
  BY <1>1 DEF ReportAnomaly, Issue
<1>3. a \in SoundAnomaly(e, now) /\ A!Isolate(a) \in SoundAnomaly(e, now)
  <2>1. a \in SoundAnomaly(e, now)
    BY <1>1, NewAnomalySound
  <2> QED
    BY <1>1, <2>1, AnomalyMethods
<1>4. SaveAnomaly(i, a) \in T /\ SaveAnomaly(i, A!Isolate(a)) \in T
  BY <1>2, <1>3, SoundCalls DEF SoundAnomaly
<1>5. /\ [call |-> "ReportFault", cabin |-> c] \in T
      /\ [call |-> "FreezeInspections", cabin |-> c] \in T
      /\ SaveCabin(c, Isolate(cabin[c])) \in T /\ SaveCabin(c, Freeze(cabin[c])) \in T
  BY <1>1, CabinMethods, SoundCalls
<1>6. PICK calls \in Seq(T) : Enter(u, calls)
  <2> HIDE DEF T, a
  <2>1. \A x, y, z \in T : <<x, y>> \in Seq(T) /\ <<x, y, z>> \in Seq(T)
    OBVIOUS
  <2>2. CASE ~A!ShouldFreeze(a)
    BY <1>4, <1>5, <2>1, <2>2 DEF ReportAnomaly, a
  <2>3. CASE A!ShouldFreeze(a) /\ conflict
    BY <1>4, <1>5, <2>1, <2>3 DEF ReportAnomaly, a
  <2>4. CASE A!ShouldFreeze(a) /\ ~conflict
    BY <1>4, <1>5, <2>1, <2>4 DEF ReportAnomaly, a
  <2> QED
    BY <2>2, <2>3, <2>4
<1> QED
  BY <1>2, <1>6, IssuingRequest

\* The requests on anomalies that exist.
LEMMA AnomalyRequestsKeep ==
    ASSUME StoreSound, NEW birth \in [AnomalyIDs -> Births], SoundFor(birth),
           NEW u \in Clients, NEW i \in AnomalyIDs,
           AcknowledgeAnomaly(u, i) \/ IsolateAnomaly(u, i) \/ ResolveAnomaly(u, i)
    PROVE  FlowsInv'
<1> DEFINE S == SoundCall(birth, issued, Kept, now)
           a == anomaly[i]
           c == a.cabin
<1>1. /\ a # NoRecord /\ UNCHANGED <<store, now, issued>>
      /\ \A calls : Enter(u, calls) => todo' = [todo EXCEPT ![u] = calls]
  BY DEF AcknowledgeAnomaly, IsolateAnomaly, ResolveAnomaly, CanResolveAnomaly, Enter
<1>2. /\ i \in AnomalyIDs \cap issued /\ a \in SoundAnomaly(birth[i], now)
      /\ birth[i] \in Births /\ now \in Nat
  BY <1>1 DEF SoundFor, Kept, StoreSound
<1>3. c \in Cabins /\ cabin[c] \in CabinStatus
  BY <1>2 DEF SoundAnomaly, A!AnomalyRecord, StoreSound
<1>4. PICK calls \in Seq(S) : Enter(u, calls)
  <2>1. \A x \in S, y \in S : <<x>> \in Seq(S) /\ <<x, y>> \in Seq(S)
    OBVIOUS
  <2>2. CASE AcknowledgeAnomaly(u, i)
    <3>1. [call |-> "Acknowledge", anomaly |-> i, loaded |-> a] \in S
      BY <1>2 DEF SoundCall, AcknowledgeCalls, SoundAnomaly
    <3> QED
      BY <2>1, <2>2, <3>1 DEF AcknowledgeAnomaly
  <2>3. CASE IsolateAnomaly(u, i)
    <3>1. SaveCabin(c, Isolate(cabin[c])) \in S
      BY <1>3, CabinMethods, SoundCalls
    <3>2. SaveAnomaly(i, A!Isolate(a)) \in S
      BY <1>2, AnomalyMethods, SoundCalls DEF SoundAnomaly
    <3> QED
      BY <2>1, <2>3, <3>1, <3>2 DEF IsolateAnomaly
  <2>4. CASE ResolveAnomaly(u, i)
    <3>1. SaveCabin(c, Restore(cabin[c])) \in S
      BY <1>3, CabinMethods, SoundCalls
    <3>2. SaveAnomaly(i, A!Resolve(a)) \in S
      BY <1>2, AnomalyMethods, SoundCalls DEF SoundAnomaly
    <3> QED
      BY <2>1, <2>4, <3>1, <3>2 DEF ResolveAnomaly, Resolution
  <2> QED
    BY <2>2, <2>3, <2>4
<1> QED
  BY <1>1, <1>4, CallsOnly

\* The requests on inspections.
LEMMA InspectionRequestsKeep ==
    ASSUME StoreSound, NEW birth \in [AnomalyIDs -> Births], SoundFor(birth),
           NEW u \in Clients, NEW i \in InspectionIDs,
           \/ \E c \in Cabins, p \in Inspectors, w \in BOOLEAN : DispatchInspection(u, i, c, p, w)
           \/ StartInspection(u, i) \/ UploadPhoto(u, i)
           \/ \E p \in Inspectors : ReviewInspection(u, i, p)
           \/ CompleteInspection(u, i)
    PROVE  FlowsInv'
<1> DEFINE in == inspection[i]
<1>1. ASSUME NEW c \in Cabins, NEW p \in Inspectors, NEW w \in BOOLEAN,
             DispatchInspection(u, i, c, p, w)
      PROVE  FlowsInv'
  <2> DEFINE T     == SoundCall(birth, issued', Kept, now)
             calls == <<SaveCabin(c, BeginInspection(cabin[c])),
                        SaveInspection(i, I!NewInspection(c, p))>>
  <2>1. SaveCabin(c, BeginInspection(cabin[c])) \in T
    BY CabinMethods, SoundCalls DEF StoreSound
  <2>2. SaveInspection(i, I!NewInspection(c, p)) \in T
    BY NewInspectionSound, SoundCalls
  <2>3. calls \in Seq(T) /\ Enter(u, calls) /\ Issue(i)
    BY <1>1, <2>1, <2>2 DEF DispatchInspection
  <2> QED
    BY <2>3, IssuingRequest
<1>2. ASSUME ~\E c \in Cabins, p \in Inspectors, w \in BOOLEAN : DispatchInspection(u, i, c, p, w)
      PROVE  FlowsInv'
  <2> DEFINE S == SoundCall(birth, issued, Kept, now)
  <2>1. /\ in # NoRecord /\ UNCHANGED <<store, now, issued>>
        /\ \A calls : Enter(u, calls) => todo' = [todo EXCEPT ![u] = calls]
    BY <1>2 DEF StartInspection, UploadPhoto, ReviewInspection, CompleteInspection, Inspect, Enter
  <2>2. in \in SoundInspection
    BY <2>1 DEF StoreSound
  <2>3. \A r \in SoundInspection : <<SaveInspection(i, r)>> \in Seq(S)
    BY SoundCalls
  <2>4. ASSUME CompleteInspection(u, i)
        PROVE  \E calls \in Seq(S) : Enter(u, calls)
    <3>1. in.cabin \in Cabins
      BY <2>2 DEF SoundInspection, I!InspectionRecord
    <3>2. SaveInspection(i, I!Complete(in)) \in S
      BY <2>2, <2>4, InspectionMethods, SoundCalls DEF CompleteInspection
    <3>3. [call |-> "FinishIfClear", cabin |-> in.cabin] \in S
      BY <3>1, SoundCalls
    <3> HIDE DEF S
    <3>4. <<[call |-> "FinishIfClear", cabin |-> in.cabin], SaveInspection(i, I!Complete(in))>>
             \in Seq(S)
      BY <3>2, <3>3
    <3> QED
      BY <2>4, <3>4 DEF CompleteInspection
  <2>5. ASSUME ~CompleteInspection(u, i)
        PROVE  \E calls \in Seq(S) : Enter(u, calls)
    <3>1. PICK r \in SoundInspection : Inspect(u, i, r)
      BY <1>2, <2>2, <2>5, InspectionMethods DEF StartInspection, UploadPhoto, ReviewInspection
    <3> QED
      BY <2>3, <3>1 DEF Inspect
  <2>6. PICK calls \in Seq(S) : Enter(u, calls)
    BY <2>4, <2>5
  <2> QED
    BY <2>1, <2>6, CallsOnly
<1> QED
  BY <1>1, <1>2

\* The requests on work orders.
LEMMA OrderRequestsKeep ==
    ASSUME StoreSound, NEW birth \in [AnomalyIDs -> Births], SoundFor(birth),
           NEW u \in Clients, NEW i \in OrderIDs,
           \/ \E c \in Cabins, a \in AnomalyIDs \cup {NoAnomaly}, p \in Inspectors :
                 OpenWorkOrder(u, i, c, a, p)
           \/ StartWorkOrder(u, i) \/ SubmitWorkOrderForReview(u, i)
           \/ \E p \in Inspectors : ReviewWorkOrder(u, i, p)
           \/ CloseWorkOrder(u, i)
    PROVE  FlowsInv'
<1> DEFINE w == order[i]
<1>1. ASSUME NEW c \in Cabins, NEW a \in AnomalyIDs \cup {NoAnomaly}, NEW p \in Inspectors,
             OpenWorkOrder(u, i, c, a, p)
      PROVE  FlowsInv'
  <2> DEFINE T == SoundCall(birth, issued', Kept, now)
             x == SaveCabin(c, BeginMaintenance(cabin[c]))
             y == SaveWorkOrder(i, W!NewWorkOrder(c, a, p))
  <2>1. x \in T
    BY CabinMethods, SoundCalls DEF StoreSound
  <2>2. y \in T
    BY NewOrderSound, SoundCalls
  <2>3. Issue(i) /\ (Enter(u, <<x, y>>) \/ Enter(u, <<y>>))
    BY <1>1 DEF OpenWorkOrder
  <2>4. <<x, y>> \in Seq(T) /\ <<y>> \in Seq(T)
    BY <2>1, <2>2
  <2> QED
    BY <2>3, <2>4, IssuingRequest
<1>2. ASSUME ~\E c \in Cabins, a \in AnomalyIDs \cup {NoAnomaly}, p \in Inspectors :
                 OpenWorkOrder(u, i, c, a, p)
      PROVE  FlowsInv'
  <2> DEFINE S == SoundCall(birth, issued, Kept, now)
  <2>1. /\ w # NoRecord /\ UNCHANGED <<store, now, issued>>
        /\ \A calls : Enter(u, calls) => todo' = [todo EXCEPT ![u] = calls]
    BY <1>2 DEF StartWorkOrder, SubmitWorkOrderForReview, ReviewWorkOrder, CloseWorkOrder, Work, Enter
  <2>2. w \in SoundOrder
    BY <2>1 DEF StoreSound
  <2>3. \A r \in SoundOrder : SaveWorkOrder(i, r) \in S
    BY SoundCalls
  <2>4. ASSUME CloseWorkOrder(u, i)
        PROVE  \E calls \in Seq(S) : Enter(u, calls)
    <3> DEFINE y == SaveWorkOrder(i, W!Close(w))
               z == [call |-> "Resolve", anomaly |-> w.anomaly]
    <3>1. y \in S
      BY <2>2, <2>3, <2>4, OrderMethods DEF CloseWorkOrder
    <3>2. CASE w.anomaly = NoAnomaly
      <4>1. Enter(u, <<y>> \o <<>>)
        BY <2>4, <3>2 DEF CloseWorkOrder
      <4> HIDE DEF S, y
      <4>2. <<y>> \in Seq(S) /\ <<>> \in Seq(S)
        BY <3>1
      <4>3. <<y>> \o <<>> \in Seq(S)
        BY <4>2
      <4> QED
        BY <4>1, <4>3
    <3>3. CASE w.anomaly # NoAnomaly
      <4>1. z \in S
        BY <2>2, <3>3, SoundCalls DEF SoundOrder, W!WorkOrderRecord
      <4>2. Enter(u, <<y>> \o <<z>>)
        BY <2>4, <3>3 DEF CloseWorkOrder
      <4> HIDE DEF S, y, z
      <4>3. <<y>> \in Seq(S) /\ <<z>> \in Seq(S)
        BY <3>1, <4>1
      <4>4. <<y>> \o <<z>> \in Seq(S)
        BY <4>3
      <4> QED
        BY <4>2, <4>4
    <3> QED
      BY <3>2, <3>3
  <2>5. ASSUME ~CloseWorkOrder(u, i)
        PROVE  \E calls \in Seq(S) : Enter(u, calls)
    <3>1. PICK r \in SoundOrder : Work(u, i, r)
      BY <1>2, <2>2, <2>5, OrderMethods DEF StartWorkOrder, SubmitWorkOrderForReview, ReviewWorkOrder
    <3>2. <<SaveWorkOrder(i, r)>> \in Seq(S)
      BY <2>3
    <3> QED
      BY <3>1, <3>2 DEF Work
  <2>6. PICK calls \in Seq(S) : Enter(u, calls)
    BY <2>4, <2>5
  <2> QED
    BY <2>1, <2>6, CallsOnly
<1> QED
  BY <1>1, <1>2

-----------------------------------------------------------------------------
(* The calls of requests under way, the worker and the clock               *)

\* The call a goroutine is about to make is sound.
LEMMA NextCallSound ==
    ASSUME NEW birth, SoundFor(birth), NEW u \in Clients, todo[u] # <<>>
    PROVE  Head(todo[u]) \in SoundCall(birth, issued, Kept, now)
<1> DEFINE S == SoundCall(birth, issued, Kept, now)
<1>1. todo[u] \in Seq(S)
  BY DEF SoundFor
<1> HIDE DEF S
<1>2. Head(todo[u]) \in S
  BY <1>1
<1> QED
  BY <1>2 DEF S

\* The lookups a request makes on its way.
LEMMA LookupsKeep ==
    ASSUME StoreSound, NEW birth \in [AnomalyIDs -> Births], SoundFor(birth), NEW u \in Clients,
           \/ LoadAndReportFault(u) \/ AcknowledgeNow(u) \/ FinishIfClear(u)
           \/ FreezeInspectionsForCabin(u) \/ ResolveLinked(u)
    PROVE  FlowsInv'
<1> DEFINE S == SoundCall(birth, issued, Kept, now)
           k == Head(todo[u])
<1>1. todo[u] # <<>> /\ UNCHANGED <<store, now, issued>>
  BY DEF LoadAndReportFault, AcknowledgeNow, FinishIfClear, FreezeInspectionsForCabin,
         ResolveLinked, AtCall
<1>2. k \in S
  BY <1>1, NextCallSound
<1>3. \A x \in S, y \in S : <<>> \in Seq(S) /\ <<x>> \in Seq(S) /\ <<x, y>> \in Seq(S)
  OBVIOUS
<1>4. PICK calls \in Seq(S) : Proceed(u, calls)
  <2>1. CASE LoadAndReportFault(u)
    <3>1. k.cabin \in Cabins
      BY <1>2, <2>1, CallKinds DEF LoadAndReportFault, AtCall, CabinCalls
    <3>2. SaveCabin(k.cabin, ReportFault(cabin[k.cabin])) \in S
      BY <3>1, CabinMethods, SoundCalls DEF StoreSound
    <3> QED
      BY <1>3, <2>1, <3>2 DEF LoadAndReportFault
  <2>2. CASE AcknowledgeNow(u)
    <3>1. k \in AcknowledgeCalls(birth, issued, now)
      BY <1>2, <2>2, CallKinds DEF AcknowledgeNow, AtCall
    <3>2. /\ k.anomaly \in AnomalyIDs \cap issued /\ birth[k.anomaly] \in Births
          /\ k.loaded \in SoundAnomaly(birth[k.anomaly], now) /\ now \in Nat
      BY <3>1 DEF AcknowledgeCalls, StoreSound
    <3>3. A!Acknowledge(k.loaded, now) \in SoundAnomaly(birth[k.anomaly], now)
      BY <3>2, AnomalyMethods
    <3>4. SaveAnomaly(k.anomaly, A!Acknowledge(k.loaded, now)) \in S
      BY <3>2, <3>3, SoundCalls DEF SoundAnomaly
    <3> QED
      BY <1>3, <2>2, <3>4 DEF AcknowledgeNow
  <2>3. CASE FinishIfClear(u)
    <3>1. k.cabin \in Cabins
      BY <1>2, <2>3, CallKinds DEF FinishIfClear, AtCall, CabinCalls
    <3>2. SaveCabin(k.cabin, FinishInspection(cabin[k.cabin])) \in S
      BY <3>1, CabinMethods, SoundCalls DEF StoreSound
    <3> QED
      BY <1>3, <1>2, <2>3, <3>2 DEF FinishIfClear
  <2>4. CASE FreezeInspectionsForCabin(u)
    <3> DEFINE frozen == {<<i, I!Freeze(inspection[i])>> : i \in OpenInspectionsForCabin(k.cabin)}
    <3>1. \A i \in OpenInspectionsForCabin(k.cabin) :
             i \in InspectionIDs /\ I!Freeze(inspection[i]) \in SoundInspection
      BY InspectionMethods DEF OpenInspectionsForCabin, StoreSound
    <3>2. [call |-> "Freeze", frozen |-> frozen] \in S
      BY <3>1 DEF SoundCall, FreezeCalls
    <3> QED
      BY <1>3, <2>4, <3>2 DEF FreezeInspectionsForCabin
  <2>5. CASE ResolveLinked(u)
    <3> DEFINE i == k.anomaly
               c == anomaly[i].cabin
    <3>1. i \in AnomalyIDs
      BY <1>2, <2>5, CallKinds DEF ResolveLinked, AtCall, ResolveCalls
    <3>2. CASE CanResolveAnomaly(i)
      <4>1. /\ i \in issued /\ anomaly[i] \in SoundAnomaly(birth[i], now)
            /\ birth[i] \in Births /\ now \in Nat
        BY <3>1, <3>2 DEF CanResolveAnomaly, SoundFor, Kept, StoreSound
      <4>2. SaveAnomaly(i, A!Resolve(anomaly[i])) \in S
        BY <3>1, <4>1, AnomalyMethods, SoundCalls DEF SoundAnomaly
      <4>3. SaveCabin(c, Restore(cabin[c])) \in S
        BY <4>1, CabinMethods, SoundCalls DEF SoundAnomaly, A!AnomalyRecord, StoreSound
      <4>4. Resolution(i) \in Seq(S)
        BY <1>3, <4>2, <4>3 DEF Resolution
      <4> QED
        BY <2>5, <3>2, <4>4 DEF ResolveLinked
    <3>3. CASE ~CanResolveAnomaly(i)
      BY <1>2, <1>3, <2>5, <3>3 DEF ResolveLinked
    <3> QED
      BY <3>2, <3>3
  <2> QED
    BY <2>1, <2>2, <2>3, <2>4, <2>5
<1> QED
  BY <1>1, <1>4, CallsOnly

\* A call that changes the store keeps the invariant if what it stores is sound.
LEMMA Saving ==
    ASSUME StoreSound, StoreSound', NEW birth \in [AnomalyIDs -> Births], SoundFor(birth),
           NEW u \in Clients, todo[u] # <<>>,
           NEW calls \in Seq(SoundCall(birth, issued, Kept, now)), Proceed(u, calls),
           UNCHANGED <<now, issued>>, Kept \subseteq Kept',
           anomaly' \in [AnomalyIDs -> A!AnomalyRecord \cup {NoRecord}],
           \A i \in Kept' : i \in issued /\ anomaly'[i] \in SoundAnomaly(birth[i], now)
    PROVE  FlowsInv'
<1> DEFINE S == SoundCall(birth, issued, Kept, now)
           T == SoundCall(birth, issued, Kept', now)
<1>1. S \subseteq T
  <2>1. Kept \subseteq AnomalyIDs \cap issued
    BY DEF SoundFor, Kept
  <2> QED
    BY <2>1, SoundCallsGrow DEF StoreSound
<1>2. todo \in [Clients -> Seq(S)]
  BY DEF SoundFor
<1>3. todo' \in [Clients -> Seq(T)]
  <2> HIDE DEF S, T
  <2>1. calls \in Seq(S)
    BY DEF S
  <2>2. calls \in Seq(T)
    BY <1>1, <2>1
  <2> QED
    BY <1>1, <1>2, <2>2, Proceeding
<1>4. SoundFor(birth)'
  BY <1>3 DEF SoundFor
<1> QED
  BY <1>4 DEF FlowsInv

\* The saves.
LEMMA SavesKeep ==
    ASSUME StoreSound, NEW birth \in [AnomalyIDs -> Births], SoundFor(birth), NEW u \in Clients,
           \/ SaveFrozen(u) \/ StoreCabin(u) \/ StoreAnomaly(u) \/ StoreInspection(u)
           \/ StoreWorkOrder(u)
    PROVE  FlowsInv'
<1> DEFINE S == SoundCall(birth, issued, Kept, now)
           k == Head(todo[u])
<1>1. todo[u] # <<>> /\ UNCHANGED <<now, issued>>
  BY DEF SaveFrozen, StoreCabin, StoreAnomaly, StoreInspection, StoreWorkOrder, AtCall
<1>2. k \in S
  BY <1>1, NextCallSound
<1>3. <<>> \in Seq(S) /\ \A x \in S : <<x>> \in Seq(S)
  OBVIOUS
<1>4. ASSUME UNCHANGED anomaly
      PROVE  /\ Kept \subseteq Kept'
             /\ anomaly' \in [AnomalyIDs -> A!AnomalyRecord \cup {NoRecord}]
             /\ \A i \in Kept' : i \in issued /\ anomaly'[i] \in SoundAnomaly(birth[i], now)
  BY <1>4 DEF Kept, SoundFor
<1>5. CASE SaveFrozen(u)
  <2>1. k.frozen \subseteq InspectionIDs \X SoundInspection
    BY <1>2, <1>5, CallKinds DEF SaveFrozen, AtCall, FreezeCalls
  <2>2. \A f \in k.frozen : [call |-> "Freeze", frozen |-> k.frozen \ {f}] \in S
    BY <2>1 DEF SoundCall, FreezeCalls
  <2>3. PICK calls \in Seq(S) : Proceed(u, calls)
    BY <1>3, <1>5, <2>2 DEF SaveFrozen
  <2>4. StoreSound'
    BY <1>5, <2>1 DEF SaveFrozen, StoreSound
  <2>5. UNCHANGED anomaly
    BY <1>5 DEF SaveFrozen
  <2> QED
    BY <1>1, <1>4, <2>3, <2>4, <2>5, Saving
<1>6. CASE StoreCabin(u)
  <2>1. k \in SaveCabinCalls
    BY <1>2, <1>6, CallKinds DEF StoreCabin, AtCall
  <2>2. StoreSound' /\ UNCHANGED anomaly /\ Proceed(u, <<>>)
    BY <1>6, <2>1 DEF StoreCabin, StoreSound, SaveCabinCalls
  <2> QED
    BY <1>1, <1>3, <1>4, <2>2, Saving
<1>7. CASE StoreAnomaly(u)
  <2>1. k \in SaveAnomalyCalls(birth, issued, now)
    BY <1>2, <1>7, CallKinds DEF StoreAnomaly, AtCall
  <2>2. /\ k.anomaly \in AnomalyIDs \cap issued /\ k.clone \in A!AnomalyRecord
        /\ k.clone \in SoundAnomaly(birth[k.anomaly], now)
    BY <2>1 DEF SaveAnomalyCalls
  <2>3. /\ anomaly' = [anomaly EXCEPT ![k.anomaly] = k.clone]
        /\ anomaly \in [AnomalyIDs -> A!AnomalyRecord \cup {NoRecord}]
        /\ Proceed(u, <<>>)
    BY <1>7 DEF StoreAnomaly, SoundFor
  <2>4. Kept' = Kept \cup {k.anomaly}
    BY <2>2, <2>3, NullAssumption DEF Kept
  <2>5. \A i \in Kept' : i \in issued /\ anomaly'[i] \in SoundAnomaly(birth[i], now)
    BY <2>2, <2>3, <2>4 DEF SoundFor, Kept
  <2>6. StoreSound'
    BY <1>7 DEF StoreAnomaly, StoreSound
  <2> QED
    BY <1>1, <1>3, <2>2, <2>3, <2>4, <2>5, <2>6, Saving
<1>8. CASE StoreInspection(u)
  <2>1. k \in SaveInspectionCalls
    BY <1>2, <1>8, CallKinds DEF StoreInspection, AtCall
  <2>2. StoreSound' /\ UNCHANGED anomaly /\ Proceed(u, <<>>)
    BY <1>8, <2>1 DEF StoreInspection, StoreSound, SaveInspectionCalls
  <2> QED
    BY <1>1, <1>3, <1>4, <2>2, Saving
<1>9. CASE StoreWorkOrder(u)
  <2>1. k \in SaveOrderCalls
    BY <1>2, <1>9, CallKinds DEF StoreWorkOrder, AtCall
  <2>2. StoreSound' /\ UNCHANGED anomaly /\ Proceed(u, <<>>)
    BY <1>9, <2>1 DEF StoreWorkOrder, StoreSound, SaveOrderCalls
  <2> QED
    BY <1>1, <1>3, <1>4, <2>2, Saving
<1> QED
  BY <1>5, <1>6, <1>7, <1>8, <1>9

\* The steps of the worker that do not save.  What it lists was late when it read
\* the clock, and whatever is stored for the ID by now is late as well.
LEMMA EscalationKeeps ==
    ASSUME StoreSound, NEW birth \in [AnomalyIDs -> Births], SoundFor(birth), NEW w \in Clients,
           EscalationPass(w) \/ AnomaliesNeedingEscalation(w) \/ EscalateAnomaly(w)
    PROVE  FlowsInv'
<1> DEFINE S == SoundCall(birth, issued, Kept, now)
           k == Head(todo[w])
<1>1. \A x \in S, y \in S : <<>> \in Seq(S) /\ <<x>> \in Seq(S) /\ <<x, y>> \in Seq(S)
  OBVIOUS
<1>2. now \in Nat
  BY DEF StoreSound
<1>3. CASE EscalationPass(w)
  <2>1. [call |-> "ListOverdue", at |-> now] \in S
    BY <1>2 DEF SoundCall, ListCalls
  <2> QED
    BY <1>1, <1>3, <2>1, CallsOnly DEF EscalationPass, Enter
<1>4. CASE AnomaliesNeedingEscalation(w)
  <2> DEFINE overdue == {i \in AnomalyIDs : /\ anomaly[i] # NoRecord
                                            /\ NeedsEscalation(anomaly[i], k.at)}
  <2>1. k.at \in Nat /\ k.at <= now
    BY <1>4, NextCallSound, CallKinds DEF AnomaliesNeedingEscalation, AtCall, ListCalls
  <2>2. ASSUME NEW i \in overdue
        PROVE  i \in Kept /\ LateAt(birth[i], now)
    <3>1. i \in Kept /\ birth[i] \in Births
      BY DEF Kept
    <3>2. anomaly[i].level = birth[i].level /\ anomaly[i].reportedAt = birth[i].at
      BY <3>1 DEF SoundFor, SoundAnomaly
    <3> QED
      BY <1>2, <2>1, <3>1, <3>2, DeadlineAssumption
         DEF NeedsEscalation, A!Late, A!AckDeadlineAt, LateAt, Births
  <2>3. [call |-> "Escalate", overdue |-> overdue] \in S
    <3>1. overdue \subseteq {i \in Kept : LateAt(birth[i], now)}
      BY <2>2
    <3> HIDE DEF overdue
    <3> QED
      BY <3>1 DEF SoundCall, EscalateCalls
  <2> QED
    BY <1>1, <1>4, <2>3, CallsOnly DEF AnomaliesNeedingEscalation, AtCall
<1>5. CASE EscalateAnomaly(w)
  <2>1. k.overdue \subseteq {i \in Kept : LateAt(birth[i], now)}
    BY <1>5, NextCallSound, CallKinds DEF EscalateAnomaly, AtCall, EscalateCalls
  <2>2. ASSUME NEW i \in k.overdue
        PROVE  /\ [call |-> "Escalate", overdue |-> k.overdue \ {i}] \in S
               /\ SaveAnomaly(i, A!Escalate(anomaly[i])) \in S
    <3>1. [call |-> "Escalate", overdue |-> k.overdue \ {i}] \in S
      BY <2>1 DEF SoundCall, EscalateCalls
    <3>2. i \in Kept /\ LateAt(birth[i], now) /\ i \in AnomalyIDs /\ birth[i] \in Births
      BY <2>1 DEF Kept
    <3>3. i \in issued /\ anomaly[i] \in SoundAnomaly(birth[i], now)
      BY <3>2 DEF SoundFor
    <3>4. A!Escalate(anomaly[i]) \in SoundAnomaly(birth[i], now)
      BY <1>2, <3>2, <3>3, AnomalyMethods
    <3> QED
      BY <3>1, <3>2, <3>3, <3>4, SoundCalls DEF SoundAnomaly
  <2>3. PICK calls \in Seq(S) : Proceed(w, calls)
    <3>1. CASE Proceed(w, <<>>)
      <4>1. <<>> \in Seq(S)
        OBVIOUS
      <4> QED
        BY <3>1, <4>1
    <3>2. CASE ~Proceed(w, <<>>)
      <4>1. PICK i \in k.overdue :
               LET rest == [call |-> "Escalate", overdue |-> k.overdue \ {i}]
               IN  \/ Proceed(w, <<SaveAnomaly(i, A!Escalate(anomaly[i])), rest>>)
                   \/ Proceed(w, <<rest>>)
        BY <1>5, <3>2 DEF EscalateAnomaly
      <4> DEFINE rest == [call |-> "Escalate", overdue |-> k.overdue \ {i}]
                 save == SaveAnomaly(i, A!Escalate(anomaly[i]))
      <4>2. rest \in S /\ save \in S
        BY <2>2
      <4>3. <<save, rest>> \in Seq(S) /\ <<rest>> \in Seq(S)
        BY <1>1, <4>2
      <4> QED
        BY <4>1, <4>3
    <3> QED
      BY <3>1, <3>2
  <2> QED
    BY <1>5, <2>3, CallsOnly DEF EscalateAnomaly, AtCall
<1> QED
  BY <1>3, <1>4, <1>5

\* What is late stays late.
LEMMA TickKeeps ==
    ASSUME StoreSound, NEW birth \in [AnomalyIDs -> Births], SoundFor(birth), Tick
    PROVE  FlowsInv'
<1> DEFINE S == SoundCall(birth, issued, Kept, now)
           T == SoundCall(birth, issued, Kept, now + 1)
<1>1. now \in Nat /\ now + 1 \in Nat \ {0} /\ now <= now + 1
  BY DEF StoreSound
<1>2. now' = now + 1 /\ UNCHANGED <<store, issued, todo>> /\ Kept' = Kept
  BY DEF Tick, Kept, store
<1>3. S \subseteq T
  <2>1. Kept \subseteq AnomalyIDs \cap issued
    BY DEF SoundFor, Kept
  <2> QED
    BY <1>1, <2>1, SoundCallsGrow
<1>4. todo' \in [Clients -> Seq(T)]
  <2>1. todo \in [Clients -> Seq(S)]
    BY DEF SoundFor
  <2> HIDE DEF S, T
  <2>2. Seq(S) \subseteq Seq(T)
    BY <1>3
  <2> QED
    BY <1>2, <2>1, <2>2
<1>5. \A i \in Kept : anomaly[i] \in SoundAnomaly(birth[i], now + 1)
  <2>1. \A e \in Births : LateAt(e, now) => LateAt(e, now + 1)
    BY <1>1, DeadlineAssumption DEF LateAt, Births
  <2> QED
    BY <2>1 DEF SoundFor, SoundAnomaly, Kept
<1>6. SoundFor(birth)'
  BY <1>2, <1>4, <1>5 DEF SoundFor, store
<1>7. StoreSound'
  BY <1>1, <1>2 DEF StoreSound, store
<1> QED
  BY <1>6, <1>7 DEF FlowsInv

-----------------------------------------------------------------------------
(* The theorems                                                            *)

\* The invariant holds at first.
LEMMA InitSound == Init => FlowsInv
<1> SUFFICES ASSUME Init PROVE FlowsInv
  OBVIOUS
<1>1. StoreSound
  BY DEF Init, StoreSound, CabinStatus
<1>2. PICK birth : birth \in [AnomalyIDs -> Births]
  <2>1. [level |-> 1, at |-> 0] \in Births
    BY DEF Births, A!AnomalyLevel
  <2>2. [i \in AnomalyIDs |-> [level |-> 1, at |-> 0]] \in [AnomalyIDs -> Births]
    BY <2>1
  <2> QED
    BY <2>2
<1>3. SoundFor(birth)
  BY <1>2 DEF Init, SoundFor, Kept
<1> QED
  BY <1>1, <1>2, <1>3 DEF FlowsInv

\* Every step keeps the invariant.
LEMMA NextSound == FlowsInv /\ [Next]_vars => FlowsInv'
<1> SUFFICES ASSUME FlowsInv, [Next]_vars PROVE FlowsInv'
  OBVIOUS
<1>1. PICK birth \in [AnomalyIDs -> Births] : SoundFor(birth)
  BY DEF FlowsInv
<1>2. StoreSound
  BY DEF FlowsInv
<1>3. ASSUME NEW u \in Callers, Request(u)
      PROVE  FlowsInv'
  <2>1. u \in Clients
    BY DEF Clients
  <2>2. ASSUME NEW i \in AnomalyIDs, NEW c \in Cabins, NEW level \in Levels,
               NEW conflict \in BOOLEAN, ReportAnomaly(u, i, c, level, conflict)
        PROVE  FlowsInv'
    BY <1>1, <1>2, <2>1, <2>2, ReportAnomalyKeeps
  <2>3. ASSUME NEW i \in AnomalyIDs,
               AcknowledgeAnomaly(u, i) \/ IsolateAnomaly(u, i) \/ ResolveAnomaly(u, i)
        PROVE  FlowsInv'
    BY <1>1, <1>2, <2>1, <2>3, AnomalyRequestsKeep
  <2>4. ASSUME NEW i \in InspectionIDs,
               \/ \E c \in Cabins, p \in Inspectors, w \in BOOLEAN :
                     DispatchInspection(u, i, c, p, w)
               \/ StartInspection(u, i) \/ UploadPhoto(u, i)
               \/ \E p \in Inspectors : ReviewInspection(u, i, p)
               \/ CompleteInspection(u, i)
        PROVE  FlowsInv'
    BY <1>1, <1>2, <2>1, <2>4, InspectionRequestsKeep
  <2>5. ASSUME NEW i \in OrderIDs,
               \/ \E c \in Cabins, a \in AnomalyIDs \cup {NoAnomaly}, p \in Inspectors :
                     OpenWorkOrder(u, i, c, a, p)
               \/ StartWorkOrder(u, i) \/ SubmitWorkOrderForReview(u, i)
               \/ \E p \in Inspectors : ReviewWorkOrder(u, i, p)
               \/ CloseWorkOrder(u, i)
        PROVE  FlowsInv'
    BY <1>1, <1>2, <2>1, <2>5, OrderRequestsKeep
  <2> QED
    BY <1>3, <2>2, <2>3, <2>4, <2>5 DEF Request
<1>4. ASSUME NEW u \in Callers, Continue(u)
      PROVE  FlowsInv'
  BY <1>1, <1>2, <1>4, LookupsKeep, SavesKeep DEF Continue, Clients
<1>5. ASSUME NEW w \in Workers, WorkerStep(w)
      PROVE  FlowsInv'
  BY <1>1, <1>2, <1>5, EscalationKeeps, SavesKeep DEF WorkerStep, Clients
<1>6. CASE Tick
  BY <1>1, <1>2, <1>6, TickKeeps
<1>7. CASE UNCHANGED vars
  BY <1>7 DEF vars, FlowsInv, StoreSound, SoundFor, Kept
<1> QED
  BY <1>3, <1>4, <1>5, <1>6, <1>7 DEF Next

\* A sound state has the types of the specification.
LEMMA FlowsTyped == FlowsInv => TypeOK
<1> SUFFICES ASSUME FlowsInv PROVE TypeOK
  OBVIOUS
<1>1. PICK birth \in [AnomalyIDs -> Births] : SoundFor(birth)
  BY DEF FlowsInv
<1> DEFINE S == SoundCall(birth, issued, Kept, now)
<1>2. S \subseteq Call
  <2>1. SaveCabinCalls \cup CabinCalls \cup ResolveCalls \subseteq Call
    BY DEF Call, SaveCabinCalls, CabinCalls, ResolveCalls
  <2>2. SaveInspectionCalls \cup SaveOrderCalls \cup FreezeCalls \subseteq Call
    BY DEF Call, SaveInspectionCalls, SaveOrderCalls, FreezeCalls, SoundInspection, SoundOrder
  <2>3. SaveAnomalyCalls(birth, issued, now) \cup AcknowledgeCalls(birth, issued, now) \subseteq Call
    BY DEF Call, SaveAnomalyCalls, AcknowledgeCalls
  <2>4. ListCalls(now) \cup EscalateCalls(birth, Kept, now) \subseteq Call
    BY DEF Call, ListCalls, EscalateCalls, Kept
  <2> QED
    BY <2>1, <2>2, <2>3, <2>4 DEF SoundCall
<1>3. todo \in [Clients -> Seq(Call)]
  <2>1. todo \in [Clients -> Seq(S)]
    BY <1>1 DEF SoundFor
  <2> HIDE DEF S
  <2>2. Seq(S) \subseteq Seq(Call)
    BY <1>2
  <2> QED
    BY <2>1, <2>2
<1> QED
  BY <1>1, <1>3 DEF FlowsInv, StoreSound, SoundFor, TypeOK, SoundInspection, SoundOrder

\* The variables keep their types.
THEOREM TypeCorrect == Spec => []TypeOK
BY InitSound, NextSound, FlowsTyped, PTL DEF Spec

\* However clones and lists go stale, a Level-1 anomaly is acknowledged by its
\* deadline or not at all, and only a late one is escalated.
THEOREM DeadlineDecidesHolds == Spec => []DeadlineDecides
<1>1. FlowsInv => DeadlineDecides
  <2> SUFFICES ASSUME FlowsInv, NEW i \in AnomalyIDs, anomaly[i] # NoRecord
               PROVE  /\ anomaly[i].level = 1 =>
                            anomaly[i].acknowledgedAt <= A!AckDeadlineAt(anomaly[i])
                      /\ anomaly[i].escalated => A!Late(anomaly[i], now)
    <3>1. FlowsInv => DOMAIN anomaly = AnomalyIDs
      BY DEF FlowsInv, SoundFor
    <3> QED
      BY <3>1 DEF DeadlineDecides, Stored
  <2>1. PICK birth \in [AnomalyIDs -> Births] : SoundFor(birth)
    BY DEF FlowsInv
  <2>2. anomaly[i] \in SoundAnomaly(birth[i], now)
    BY <2>1 DEF SoundFor, Kept
  <2> QED
    BY <2>2 DEF SoundAnomaly, LateAt, A!Late, A!AckDeadlineAt
<1> QED
  BY InitSound, NextSound, <1>1, PTL DEF Spec

\* No inspection is completed and no order closed without the signature of the
\* inspector it was assigned to.
THEOREM SignedOffHolds == Spec => []SignedOff
<1>1. FlowsInv => SignedOff
  BY DEF FlowsInv, StoreSound, SoundInspection, SoundOrder, SignedOff, Stored
<1> QED
  BY InitSound, NextSound, <1>1, PTL DEF Spec

-----------------------------------------------------------------------------
(* Closed-loop control, step by step                                       *)
(*                                                                         *)
(* What one goroutine's steps do when no other's come between, here for    *)
(* orders and anomalies, then for what keeps a cabin locked.               *)

\* Calls that concern neither anomalies nor orders.
Neutral ==
    {k \in Call : k.call \in {"SaveCabin", "ReportFault", "FreezeInspections", "FinishIfClear",
                              "SaveInspection", "Freeze"}}

Resolved(i) == anomaly[i] # NoRecord /\ A!IsTerminal(anomaly[i])

LinkStored(w) == w.anomaly # NoAnomaly => anomaly[w.anomaly] # NoRecord

\* The last call of a request: a save of an anomaly does not open it again, and
\* an order is not closed over an open anomaly.
LastCalls ==
    {k \in Call :
        /\ k.call \notin {"ListOverdue", "Escalate"}
        /\ k.call = "SaveAnomaly" /\ Resolved(k.anomaly) => A!IsTerminal(k.clone)
        /\ k.call = "Acknowledge" /\ Resolved(k.anomaly) => A!IsTerminal(k.loaded)
        /\ k.call = "Resolve" => anomaly[k.anomaly] # NoRecord
        /\ k.call = "SaveWorkOrder"
              => /\ LinkStored(k.clone)
                 /\ k.clone.state = "closed" => k.clone.anomaly = NoAnomaly}

ResolveCall(i) == [call |-> "Resolve", anomaly |-> i]

\* A linked order is about to be closed.
Closing(t) ==
    /\ Len(t) = 2
    /\ t[1].call = "SaveWorkOrder"
    /\ t[1].clone.anomaly # NoAnomaly
    /\ LinkStored(t[1].clone)
    /\ t[2] = ResolveCall(t[1].clone.anomaly)

Orderly(t) == \A k \in 1..Len(t) : t[k] \in Neutral \/ (k = Len(t) /\ t[k] \in LastCalls)

\* What is left of the request ends with the resolution of the anomaly i.
Settles(t, i) ==
    /\ t # <<>>
    /\ \/ t[Len(t)] = ResolveCall(i)
       \/ /\ t[Len(t)].call = "SaveAnomaly" /\ t[Len(t)].anomaly = i
          /\ A!IsTerminal(t[Len(t)].clone)

ClosedOrdersSettled(u) ==
    \A w \in Stored(order) :
        /\ LinkStored(w)
        /\ w.state = "closed" /\ w.anomaly # NoAnomaly
              => Resolved(w.anomaly) \/ Settles(todo[u], w.anomaly)

LoopInv(u) == (Orderly(todo[u]) \/ Closing(todo[u])) /\ ClosedOrdersSettled(u)

KeptIssued == \A i \in AnomalyIDs : anomaly[i] # NoRecord => i \in issued

\* The ID of a stored anomaly is not issued again.
LEMMA FlowsKeepIssued == FlowsInv => KeptIssued
BY DEF FlowsInv, SoundFor, Kept, KeptIssued

\* The two kinds of calls are calls, with the parts their kind has.
LEMMA CallParts ==
    ASSUME NEW k \in Call
    PROVE  /\ k.call = "SaveAnomaly" => k.anomaly \in AnomalyIDs /\ k.clone \in A!AnomalyRecord
           /\ k.call = "Acknowledge" => k.anomaly \in AnomalyIDs /\ k.loaded \in A!AnomalyRecord
           /\ k.call = "Resolve" => k.anomaly \in AnomalyIDs /\ k = ResolveCall(k.anomaly)
           /\ k.call = "SaveWorkOrder" => k.order \in OrderIDs /\ k.clone \in W!WorkOrderRecord
BY DEF Call, ResolveCall

\* A request begins, with nothing of the store changed.
LEMMA LoneEnters ==
    ASSUME NEW u \in Clients, TypeOK, LoopInv(u), NEW calls, Enter(u, calls),
           Orderly(calls) \/ Closing(calls)
    PROVE  LoopInv(u)'
<1>1. todo[u] = <<>> /\ todo'[u] = calls /\ UNCHANGED <<anomaly, order>>
  BY DEF Enter, TypeOK, store
<1>2. (Orderly(todo[u]) \/ Closing(todo[u]))'
  BY <1>1 DEF Orderly, Closing, LastCalls, LinkStored, Resolved
<1>3. ClosedOrdersSettled(u)'
  BY <1>1 DEF LoopInv, ClosedOrdersSettled, Settles, Resolved, LinkStored, Stored
<1> QED
  BY <1>2, <1>3 DEF LoopInv

\* Sequences of calls that requests begin with.
LEMMA ShortOrderly ==
    /\ \A a \in LastCalls : Orderly(<<a>>)
    /\ \A a \in Neutral, b \in LastCalls : Orderly(<<a, b>>)
    /\ \A a \in Neutral, b \in Neutral, c \in LastCalls : Orderly(<<a, b, c>>)
<1>1. ASSUME NEW a \in LastCalls PROVE Orderly(<<a>>)
  <2>1. Len(<<a>>) = 1 /\ <<a>>[1] = a
    OBVIOUS
  <2> QED
    BY <2>1 DEF Orderly
<1>2. ASSUME NEW a \in Neutral, NEW b \in LastCalls PROVE Orderly(<<a, b>>)
  <2>1. Len(<<a, b>>) = 2 /\ <<a, b>>[1] = a /\ <<a, b>>[2] = b
    OBVIOUS
  <2> QED
    BY <2>1 DEF Orderly
<1>3. ASSUME NEW a \in Neutral, NEW b \in Neutral, NEW c \in LastCalls
      PROVE  Orderly(<<a, b, c>>)
  <2>1. Len(<<a, b, c>>) = 3 /\ <<a, b, c>>[1] = a /\ <<a, b, c>>[2] = b /\ <<a, b, c>>[3] = c
    OBVIOUS
  <2>2. \A k \in 1..3 : k = 1 \/ k = 2 \/ k = 3
    OBVIOUS
  <2> QED
    BY <2>1, <2>2 DEF Orderly
<1> QED
  BY <1>1, <1>2, <1>3

\* The last place of a sequence with more than one call.
LEMMA LastIndex ==
    /\ \A n \in Nat \ {0} : n # 1 => n \in 2..n /\ n - 1 \in 1..n - 1 /\ (n - 1) + 1 = n
    /\ \A s : Len(s) # 0 => s # <<>>
OBVIOUS

LEMMA NeutralLast == Neutral \subseteq LastCalls
BY DEF Neutral, LastCalls

LEMMA Appended == \A a, b : <<a>> \o <<b>> = <<a, b>>
<1> SUFFICES ASSUME NEW a, NEW b PROVE <<a>> \o <<b>> = <<a, b>>
  OBVIOUS
<1>1. PICK S : a \in S /\ b \in S
  BY a \in {a, b} /\ b \in {a, b}
<1>2. <<a>> \in Seq(S) /\ <<b>> \in Seq(S) /\ <<a, b>> \in Seq(S)
  BY <1>1
<1>3. Len(<<a>>) = 1 /\ Len(<<b>>) = 1 /\ Len(<<a, b>>) = 2
  OBVIOUS
<1>4. <<a>>[1] = a /\ <<b>>[1] = b /\ <<a, b>>[1] = a /\ <<a, b>>[2] = b
  OBVIOUS
<1>5. <<a>> \o <<b>> \in Seq(S) /\ Len(<<a>> \o <<b>>) = 2
  BY <1>2, <1>3, ConcatProperties
<1>6. \A i \in 1..2 : (<<a>> \o <<b>>)[i] = <<a, b>>[i]
  <2>1. \A i \in 1..2 : (<<a>> \o <<b>>)[i] = IF i <= 1 THEN <<a>>[i] ELSE <<b>>[i - 1]
    <3>1. \A i \in 1..1 + 1 : (<<a>> \o <<b>>)[i] = IF i <= 1 THEN <<a>>[i] ELSE <<b>>[i - 1]
      BY <1>2, <1>3, ConcatProperties
    <3> QED
      BY <3>1
  <2>2. \A i \in 1..2 : i = 1 \/ i = 2
    OBVIOUS
  <2> QED
    BY <1>4, <2>1, <2>2
<1> QED
  BY <1>2, <1>3, <1>5, <1>6, SeqEqual

\* The requests.
LEMMA LoneRequests ==
    ASSUME NEW u \in Clients, TypeOK, KeptIssued, LoopInv(u), Request(u)
    PROVE  LoopInv(u)'
<1> USE ShortOrderly, NeutralLast, LoneEnters
<1>1. ASSUME NEW i \in AnomalyIDs, NEW c \in Cabins, NEW level \in Levels,
             NEW conflict \in BOOLEAN, ReportAnomaly(u, i, c, level, conflict)
      PROVE  LoopInv(u)'
  <2> DEFINE a == A!NewAnomaly(c, level, now)
  <2>1. a \in A!AnomalyRecord /\ A!Isolate(a) \in A!AnomalyRecord
    BY LevelsAssumption DEF A!NewAnomaly, A!Isolate, A!AnomalyRecord, A!AnomalyState, TypeOK
  <2>2. ~Resolved(i)
    BY <1>1 DEF ReportAnomaly, Issue, KeptIssued, Resolved
  <2>3. SaveAnomaly(i, a) \in LastCalls /\ SaveAnomaly(i, A!Isolate(a)) \in LastCalls
    BY <2>1, <2>2 DEF SaveAnomaly, LastCalls, Call
  <2>4. /\ [call |-> "ReportFault", cabin |-> c] \in Neutral
        /\ [call |-> "FreezeInspections", cabin |-> c] \in Neutral
        /\ SaveCabin(c, Isolate(cabin[c])) \in Neutral
        /\ SaveCabin(c, Freeze(cabin[c])) \in Neutral
    BY DEF Neutral, Call, SaveCabin, Isolate, Freeze, CabinStatus
  <2> QED
    BY <1>1, <2>3, <2>4 DEF ReportAnomaly
<1>2. ASSUME NEW i \in AnomalyIDs,
             AcknowledgeAnomaly(u, i) \/ IsolateAnomaly(u, i) \/ ResolveAnomaly(u, i)
      PROVE  LoopInv(u)'
  <2> DEFINE a == anomaly[i]
             c == a.cabin
  <2>1. /\ a \in A!AnomalyRecord /\ c \in Cabins
        /\ A!Isolate(a) \in A!AnomalyRecord /\ A!Resolve(a) \in A!AnomalyRecord
    BY <1>2 DEF AcknowledgeAnomaly, IsolateAnomaly, ResolveAnomaly, CanResolveAnomaly,
                A!Isolate, A!Resolve, A!AnomalyRecord, A!AnomalyState, TypeOK
  <2>2. /\ SaveCabin(c, Isolate(cabin[c])) \in Neutral
        /\ SaveCabin(c, Restore(cabin[c])) \in Neutral
    BY <2>1 DEF Neutral, Call, SaveCabin, Isolate, Restore, CabinStatus
  <2>3. CASE AcknowledgeAnomaly(u, i)
    <3>1. [call |-> "Acknowledge", anomaly |-> i, loaded |-> a] \in LastCalls
      BY <2>1 DEF LastCalls, Call, Resolved
    <3> QED
      BY <2>3, <3>1 DEF AcknowledgeAnomaly
  <2>4. CASE IsolateAnomaly(u, i)
    <3>1. SaveAnomaly(i, A!Isolate(a)) \in LastCalls
      BY <2>1, <2>4 DEF LastCalls, Call, Resolved, SaveAnomaly, IsolateAnomaly, A!CanIsolate,
                        A!IsTerminal
    <3> QED
      BY <2>2, <2>4, <3>1 DEF IsolateAnomaly
  <2>5. CASE ResolveAnomaly(u, i)
    <3>1. A!IsTerminal(A!Resolve(a))
      BY <2>1 DEF A!IsTerminal, A!Resolve, A!AnomalyRecord
    <3>2. SaveAnomaly(i, A!Resolve(a)) \in LastCalls
      BY <2>1, <3>1 DEF LastCalls, Call, SaveAnomaly
    <3> QED
      BY <2>2, <2>5, <3>2 DEF ResolveAnomaly, Resolution
  <2> QED
    BY <1>2, <2>3, <2>4, <2>5
<1>3. ASSUME NEW i \in InspectionIDs,
             \/ StartInspection(u, i) \/ UploadPhoto(u, i)
             \/ \E p \in Inspectors : ReviewInspection(u, i, p)
      PROVE  LoopInv(u)'
  <2>1. PICK in \in I!InspectionRecord : Enter(u, <<SaveInspection(i, in)>>)
    BY <1>3 DEF StartInspection, UploadPhoto, ReviewInspection, Inspect, I!Start, I!UploadPhoto,
                I!Review, I!InspectionRecord, I!InspectionState, TypeOK
  <2>2. SaveInspection(i, in) \in Neutral
    BY DEF SaveInspection, Neutral, Call
  <2> QED
    BY <2>1, <2>2
<1>4. ASSUME NEW i \in InspectionIDs, CompleteInspection(u, i) PROVE LoopInv(u)'
  <2> DEFINE in == inspection[i]
  <2>1. in \in I!InspectionRecord /\ in.cabin \in Cabins /\ I!Complete(in) \in I!InspectionRecord
    BY <1>4 DEF CompleteInspection, I!Complete, I!InspectionRecord, I!InspectionState, TypeOK
  <2>2. /\ SaveInspection(i, I!Complete(in)) \in Neutral
        /\ [call |-> "FinishIfClear", cabin |-> in.cabin] \in Neutral
    BY <2>1 DEF SaveInspection, Neutral, Call
  <2> QED
    BY <1>4, <2>2 DEF CompleteInspection
<1>5. ASSUME NEW i \in InspectionIDs, NEW c \in Cabins, NEW p \in Inspectors, NEW w \in BOOLEAN,
             DispatchInspection(u, i, c, p, w)
      PROVE  LoopInv(u)'
  <2>1. /\ SaveInspection(i, I!NewInspection(c, p)) \in Neutral
        /\ SaveCabin(c, BeginInspection(cabin[c])) \in Neutral
    BY DEF SaveInspection, SaveCabin, Neutral, Call, I!NewInspection, I!InspectionRecord,
           I!InspectionState, BeginInspection, CabinStatus
  <2> QED
    BY <1>5, <2>1 DEF DispatchInspection
<1>6. ASSUME NEW i \in OrderIDs, NEW c \in Cabins, NEW linked \in AnomalyIDs \cup {NoAnomaly},
             NEW p \in Inspectors, OpenWorkOrder(u, i, c, linked, p)
      PROVE  LoopInv(u)'
  <2> DEFINE w == W!NewWorkOrder(c, linked, p)
  <2>1. /\ w \in W!WorkOrderRecord /\ w.anomaly = linked /\ w.state = "open"
    BY DEF W!NewWorkOrder, W!WorkOrderRecord, W!WorkOrderState
  <2>2. SaveWorkOrder(i, w) \in LastCalls
    BY <1>6, <2>1 DEF SaveWorkOrder, LastCalls, Call, OpenWorkOrder, LinkStored
  <2>3. SaveCabin(c, BeginMaintenance(cabin[c])) \in Neutral
    BY DEF SaveCabin, Neutral, Call, BeginMaintenance, CabinStatus, TypeOK
  <2> QED
    BY <1>6, <2>2, <2>3 DEF OpenWorkOrder
<1>7. ASSUME NEW i \in OrderIDs,
             \/ StartWorkOrder(u, i) \/ SubmitWorkOrderForReview(u, i)
             \/ \E p \in Inspectors : ReviewWorkOrder(u, i, p)
      PROVE  LoopInv(u)'
  <2>1. /\ order[i] \in W!WorkOrderRecord /\ LinkStored(order[i])
    BY <1>7 DEF StartWorkOrder, SubmitWorkOrderForReview, ReviewWorkOrder, Work, TypeOK, LoopInv,
                ClosedOrdersSettled, Stored
  <2>2. \E w \in W!WorkOrderRecord :
          /\ Enter(u, <<SaveWorkOrder(i, w)>>)
          /\ w.anomaly = order[i].anomaly /\ w.state # "closed"
    <3>1. CASE StartWorkOrder(u, i)
      <4>1. W!Start(order[i]) \in W!WorkOrderRecord
            /\ W!Start(order[i]).anomaly = order[i].anomaly
            /\ W!Start(order[i]).state # "closed"
        BY <2>1 DEF W!Start, W!WorkOrderRecord, W!WorkOrderState
      <4> QED
        BY <3>1, <4>1 DEF StartWorkOrder, Work
    <3>2. CASE SubmitWorkOrderForReview(u, i)
      <4>1. W!SubmitForReview(order[i]) \in W!WorkOrderRecord
            /\ W!SubmitForReview(order[i]).anomaly = order[i].anomaly
            /\ W!SubmitForReview(order[i]).state # "closed"
        BY <2>1 DEF W!SubmitForReview, W!WorkOrderRecord, W!WorkOrderState
      <4> QED
        BY <3>2, <4>1 DEF SubmitWorkOrderForReview, Work
    <3>3. ASSUME NEW p \in Inspectors, ReviewWorkOrder(u, i, p)
          PROVE  \E w \in W!WorkOrderRecord :
                   /\ Enter(u, <<SaveWorkOrder(i, w)>>)
                   /\ w.anomaly = order[i].anomaly /\ w.state # "closed"
      <4>1. W!Review(order[i], p) \in W!WorkOrderRecord
            /\ W!Review(order[i], p).anomaly = order[i].anomaly
            /\ W!Review(order[i], p).state # "closed"
        BY <2>1, <3>3 DEF ReviewWorkOrder, W!Review, W!CanReview, W!WorkOrderRecord,
                          W!WorkOrderState
      <4> QED
        BY <3>3, <4>1 DEF ReviewWorkOrder, Work
    <3> QED
      BY <1>7, <3>1, <3>2, <3>3
  <2>3. PICK w \in W!WorkOrderRecord :
          /\ Enter(u, <<SaveWorkOrder(i, w)>>)
          /\ w.anomaly = order[i].anomaly /\ w.state # "closed"
    BY <2>2
  <2>4. SaveWorkOrder(i, w) \in LastCalls
    BY <2>1, <2>3 DEF SaveWorkOrder, LastCalls, Call, LinkStored
  <2> QED
    BY <2>3, <2>4
<1>8. ASSUME NEW i \in OrderIDs, CloseWorkOrder(u, i) PROVE LoopInv(u)'
  <2> DEFINE w == W!Close(order[i])
             k == SaveWorkOrder(i, w)
  <2>1. order[i] \in W!WorkOrderRecord /\ LinkStored(order[i])
    BY <1>8 DEF CloseWorkOrder, TypeOK, LoopInv, ClosedOrdersSettled, Stored
  <2>2. w \in W!WorkOrderRecord /\ w.anomaly = order[i].anomaly /\ LinkStored(w)
    BY <2>1 DEF W!Close, W!WorkOrderRecord, W!WorkOrderState, LinkStored
  <2>3. k.call = "SaveWorkOrder" /\ k.clone = w /\ k \in Call
    BY <2>2 DEF SaveWorkOrder, Call
  <2>4. CASE order[i].anomaly = NoAnomaly
    <3>1. k \in LastCalls
      BY <2>2, <2>3, <2>4 DEF LastCalls
    <3>2. Enter(u, <<k>> \o <<>>)
      BY <1>8, <2>4 DEF CloseWorkOrder
    <3>3. <<k>> \o <<>> = <<k>>
      OBVIOUS
    <3> QED
      BY <3>1, <3>2, <3>3
  <2>5. CASE order[i].anomaly # NoAnomaly
    <3>1. Enter(u, <<k>> \o <<ResolveCall(w.anomaly)>>)
      BY <1>8, <2>2, <2>5 DEF CloseWorkOrder, ResolveCall
    <3>2. <<k>> \o <<ResolveCall(w.anomaly)>> = <<k, ResolveCall(w.anomaly)>>
      BY Appended
    <3>3. Closing(<<k, ResolveCall(w.anomaly)>>)
      BY <2>2, <2>3, <2>5 DEF Closing
    <3> QED
      BY <3>1, <3>2, <3>3
  <2> QED
    BY <2>4, <2>5
<1> QED
  BY <1>1, <1>2, <1>3, <1>4, <1>5, <1>6, <1>7, <1>8 DEF Request

\* A neutral call is made, and at most one neutral call comes in its place.
LEMMA NeutralStep ==
    ASSUME NEW u \in Clients, TypeOK, LoopInv(u), todo[u] # <<>>, Head(todo[u]) \in Neutral,
           UNCHANGED <<anomaly, order>>,
           NEW calls, calls = <<>> \/ \E k \in Neutral : calls = <<k>>,
           Proceed(u, calls)
    PROVE  LoopInv(u)'
<1> DEFINE t == todo[u]
           t2 == todo'[u]
<1>0. t \in Seq(Call) /\ t # <<>> /\ Len(t) \in Nat \ {0}
  BY DEF TypeOK
<1>1. Tail(t) \in Seq(Call) /\ Len(Tail(t)) = Len(t) - 1
  BY <1>0
<1>2. \A k \in 1..Len(t) - 1 : Tail(t)[k] = t[k + 1]
  BY <1>0
<1>3. t[1] \in Neutral
  BY <1>0
<1>4. Orderly(t)
  BY <1>3 DEF LoopInv, Closing, Neutral
<1>5. t2 = calls \o Tail(t)
  BY DEF Proceed, TypeOK
<1>6. (Orderly(todo[u]))' /\ \A i : Settles(t, i) => Settles(t2, i)
  <2>1. CASE calls = <<>>
    <3>1. t2 = Tail(t)
      BY <1>1, <1>5, <2>1
    <3>2. (Orderly(todo[u]))'
      BY <1>0, <1>1, <1>2, <1>4, <3>1 DEF Orderly, LastCalls, LinkStored, Resolved
    <3>3. ASSUME NEW i, Settles(t, i) PROVE Settles(t2, i)
      <4>1. Len(t) # 1
        BY <1>3, <3>3 DEF Settles, Neutral, ResolveCall
      <4>2. Len(t) - 1 \in 1..Len(t) - 1 /\ (Len(t) - 1) + 1 = Len(t)
        BY <1>0, <4>1, LastIndex
      <4>3. Tail(t)[Len(t) - 1] = t[Len(t)]
        BY <1>2, <4>2
      <4>4. Tail(t) # <<>> /\ Tail(t)[Len(Tail(t))] = t[Len(t)]
        <5>1. Len(Tail(t)) # 0
          BY <1>0, <1>1, <4>1
        <5> QED
          BY <1>1, <4>3, <5>1, LastIndex
      <4> QED
        BY <3>1, <3>3, <4>4 DEF Settles
    <3> QED
      BY <3>2, <3>3
  <2>2. ASSUME NEW k \in Neutral, calls = <<k>>
        PROVE  (Orderly(todo[u]))' /\ \A i : Settles(t, i) => Settles(t2, i)
    <3>0. k \in Call
      BY DEF Neutral
    <3>1. /\ t2 \in Seq(Call) /\ Len(t2) = Len(t) /\ t2[1] = k
          /\ \A j \in 2..Len(t) : t2[j] = t[j]
      BY <1>0, <1>1, <1>2, <1>5, <2>2, <3>0
    <3>2. (Orderly(todo[u]))'
      BY <1>0, <1>4, <3>1 DEF Orderly, LastCalls, LinkStored, Resolved
    <3>3. ASSUME NEW i, Settles(t, i) PROVE Settles(t2, i)
      <4>1. Len(t) # 1
        BY <1>3, <3>3 DEF Settles, Neutral, ResolveCall
      <4>2. Len(t) \in 2..Len(t)
        BY <1>0, <4>1, LastIndex
      <4>3. t2[Len(t)] = t[Len(t)]
        BY <3>1, <4>2
      <4>4. t2 # <<>> /\ t2[Len(t2)] = t[Len(t)]
        BY <1>0, <3>1, <4>3
      <4> QED
        BY <3>3, <4>4 DEF Settles
    <3> QED
      BY <3>2, <3>3
  <2> QED
    BY <2>1, <2>2
<1>7. ClosedOrdersSettled(u)'
  <2> SUFFICES ASSUME NEW w \in Stored(order)
               PROVE  /\ LinkStored(w)'
                      /\ w.state = "closed" /\ w.anomaly # NoAnomaly
                            => Resolved(w.anomaly)' \/ Settles(todo[u], w.anomaly)'
    BY DEF ClosedOrdersSettled, Stored
  <2>1. Settles(t, w.anomaly) => Settles(todo[u], w.anomaly)'
    BY <1>6 DEF Settles
  <2> QED
    BY <2>1 DEF LoopInv, ClosedOrdersSettled, LinkStored, Resolved
<1> QED
  BY <1>6, <1>7 DEF LoopInv

\* A request whose next call is not neutral has no other left, unless it is
\* closing a linked order.
LEMMA LastCall ==
    ASSUME NEW u \in Clients, TypeOK, LoopInv(u), todo[u] # <<>>, Head(todo[u]) \notin Neutral
    PROVE  \/ todo[u] = <<Head(todo[u])>> /\ Head(todo[u]) \in LastCalls
           \/ Closing(todo[u]) /\ todo[u] = <<Head(todo[u]), todo[u][2]>>
<1> DEFINE t == todo[u]
<1>0. t \in Seq(Call) /\ t # <<>> /\ Len(t) \in Nat \ {0}
  BY DEF TypeOK
<1>1. CASE Orderly(t)
  <2>1. 1 \in 1..Len(t) /\ t[1] \notin Neutral
    BY <1>0
  <2>2. Len(t) = 1 /\ t[1] \in LastCalls
    BY <1>0, <1>1, <2>1 DEF Orderly
  <2>3. t = <<Head(t)>>
    BY <1>0, <2>2
  <2> QED
    BY <2>2, <2>3
<1>2. CASE Closing(t)
  <2>1. t = <<t[1], t[2]>>
    BY <1>0, <1>2 DEF Closing
  <2> QED
    BY <1>0, <1>2, <2>1
<1> QED
  BY <1>1, <1>2 DEF LoopInv

\* A step that leaves anomalies and orders alone, and of the goroutine no more
\* than a last call, keeps what the orders rely on.
LEMMA Shortened ==
    ASSUME NEW u \in Clients, TypeOK, ClosedOrdersSettled(u), UNCHANGED <<anomaly, order>>,
           \A i \in AnomalyIDs : Settles(todo[u], i) => Resolved(i) \/ Settles(todo'[u], i)
    PROVE  ClosedOrdersSettled(u)'
<1> SUFFICES ASSUME NEW w \in Stored(order)
             PROVE  /\ LinkStored(w)'
                    /\ w.state = "closed" /\ w.anomaly # NoAnomaly
                          => Resolved(w.anomaly)' \/ Settles(todo[u], w.anomaly)'
  BY DEF ClosedOrdersSettled, Stored
<1>1. w.anomaly \in AnomalyIDs \cup {NoAnomaly}
  BY DEF Stored, TypeOK, W!WorkOrderRecord
<1>2. \A i : Settles(todo'[u], i) => Settles(todo[u], i)'
  BY DEF Settles
<1> QED
  BY <1>1, <1>2 DEF ClosedOrdersSettled, LinkStored, Resolved

\* The clone an acknowledgement saves is no more open than the one it loaded.
LEMMA LoneAcknowledges ==
    ASSUME NEW u \in Clients, TypeOK, LoopInv(u), AcknowledgeNow(u)
    PROVE  LoopInv(u)'
<1> DEFINE k == Head(todo[u])
           k2 == SaveAnomaly(k.anomaly, A!Acknowledge(k.loaded, now))
<1>1. k.call = "Acknowledge" /\ todo[u] # <<>> /\ k \in Call
  BY DEF AcknowledgeNow, AtCall, TypeOK
<1>2. todo[u] = <<k>> /\ k \in LastCalls
  BY <1>1, LastCall DEF Neutral, Closing
<1>3. UNCHANGED <<anomaly, order>> /\ todo'[u] = <<k2>>
  <2>1. UNCHANGED <<anomaly, order>> /\ todo'[u] = <<k2>> \o Tail(<<k>>)
    BY <1>2 DEF AcknowledgeNow, Proceed, store, TypeOK
  <2>2. Tail(<<k>>) = <<>> /\ <<k2>> \o <<>> = <<k2>>
    OBVIOUS
  <2> QED
    BY <2>1, <2>2
<1>4. k2 \in LastCalls
  <2>1. k.anomaly \in AnomalyIDs /\ k.loaded \in A!AnomalyRecord
    BY <1>1, CallParts
  <2>2. A!Acknowledge(k.loaded, now) \in A!AnomalyRecord
    BY <2>1 DEF A!Acknowledge, A!Escalate, A!AnomalyRecord, A!AnomalyState, TypeOK
  <2>3. A!IsTerminal(k.loaded) => A!IsTerminal(A!Acknowledge(k.loaded, now))
    BY DEF A!Acknowledge, A!IsTerminal
  <2>4. k2.call = "SaveAnomaly" /\ k2.anomaly = k.anomaly
        /\ k2.clone = A!Acknowledge(k.loaded, now)
    BY DEF SaveAnomaly
  <2>5. k2 \in Call
    BY <2>1, <2>2 DEF SaveAnomaly, Call
  <2> QED
    BY <1>1, <1>2, <2>3, <2>4, <2>5 DEF LastCalls
<1> HIDE DEF k, k2
<1>5. Orderly(todo[u])'
  <2>1. Orderly(<<k2>>)
    BY <1>4, ShortOrderly
  <2> QED
    BY <1>3, <2>1 DEF Orderly, LastCalls, LinkStored, Resolved
<1>6. \A i \in AnomalyIDs : ~Settles(todo[u], i)
  <2>1. Len(<<k>>) = 1 /\ <<k>>[1] = k
    OBVIOUS
  <2> QED
    BY <1>1, <1>2, <2>1 DEF Settles, ResolveCall
<1> QED
  BY <1>3, <1>5, <1>6, Shortened DEF LoopInv

\* The anomaly of a closed order is resolved, or was.
LEMMA LoneResolves ==
    ASSUME NEW u \in Clients, TypeOK, LoopInv(u), ResolveLinked(u)
    PROVE  LoopInv(u)'
<1> DEFINE k == Head(todo[u])
           i == k.anomaly
<1>1. k.call = "Resolve" /\ todo[u] # <<>> /\ k \in Call
  BY DEF ResolveLinked, AtCall, TypeOK
<1>2. todo[u] = <<k>> /\ k \in LastCalls
  BY <1>1, LastCall DEF Neutral, Closing
<1>3. i \in AnomalyIDs /\ k = ResolveCall(i) /\ anomaly[i] # NoRecord
  BY <1>1, <1>2, CallParts DEF LastCalls
<1>4. \A j : Settles(todo[u], j) => j = i
  <2>1. Len(<<k>>) = 1 /\ <<k>>[1] = k
    OBVIOUS
  <2>2. \A j : Settles(todo[u], j) => ResolveCall(j) = k
    BY <1>1, <1>2, <2>1 DEF Settles
  <2>3. \A j : ResolveCall(j).anomaly = j
    BY DEF ResolveCall
  <2> QED
    BY <2>2, <2>3
<1>5. UNCHANGED <<anomaly, order>>
  BY DEF ResolveLinked, store
<1>6. CASE ~CanResolveAnomaly(i)
  <2>1. Resolved(i)
    BY <1>3, <1>6 DEF CanResolveAnomaly, A!CanResolve, Resolved, A!IsTerminal
  <2>2. todo'[u] = <<>>
    <3>1. todo'[u] = <<>> \o Tail(<<k>>)
      BY <1>2, <1>6 DEF ResolveLinked, Proceed, TypeOK
    <3>2. <<>> \o Tail(<<k>>) = <<>>
      OBVIOUS
    <3> QED
      BY <3>1, <3>2
  <2>3. Orderly(todo[u])'
    BY <2>2 DEF Orderly
  <2> HIDE DEF k, i
  <2> QED
    BY <1>4, <1>5, <2>1, <2>3, Shortened DEF LoopInv
<1>7. CASE CanResolveAnomaly(i)
  <2> DEFINE c == anomaly[i].cabin
             a == SaveCabin(c, Restore(cabin[c]))
             b == SaveAnomaly(i, A!Resolve(anomaly[i]))
  <2>1. todo'[u] = <<a, b>>
    <3>1. todo'[u] = <<a, b>> \o Tail(<<k>>)
      BY <1>2, <1>7 DEF ResolveLinked, Proceed, TypeOK, Resolution
    <3>2. Tail(<<k>>) = <<>> /\ <<a, b>> \o <<>> = <<a, b>>
      OBVIOUS
    <3> QED
      BY <3>1, <3>2
  <2>2. anomaly[i] \in A!AnomalyRecord /\ c \in Cabins /\ A!Resolve(anomaly[i]) \in A!AnomalyRecord
    BY <1>3 DEF TypeOK, A!Resolve, A!AnomalyRecord, A!AnomalyState
  <2>3. A!IsTerminal(A!Resolve(anomaly[i]))
    BY <2>2 DEF A!IsTerminal, A!Resolve, A!AnomalyRecord
  <2>4. a \in Neutral
    BY <2>2 DEF Neutral, Call, SaveCabin, Restore, CabinStatus
  <2>5. b \in LastCalls
    BY <1>3, <2>2, <2>3 DEF LastCalls, Call, SaveAnomaly
  <2>6. b.call = "SaveAnomaly" /\ b.anomaly = i /\ b.clone = A!Resolve(anomaly[i])
    BY DEF SaveAnomaly
  <2>7. A!IsTerminal(b.clone)
    BY <2>3, <2>6
  <2> HIDE DEF a, b, k, i
  <2>8. Orderly(todo[u])'
    <3>1. Orderly(<<a, b>>)
      BY <2>4, <2>5, ShortOrderly
    <3> QED
      BY <1>5, <2>1, <3>1 DEF Orderly, LastCalls, LinkStored, Resolved
  <2>9. Settles(todo'[u], i)
    <3>1. Len(<<a, b>>) = 2 /\ <<a, b>>[2] = b /\ <<a, b>> # <<>>
      OBVIOUS
    <3> QED
      BY <2>1, <2>6, <2>7, <3>1 DEF Settles
  <2> QED
    BY <1>4, <1>5, <2>8, <2>9, Shortened DEF LoopInv
<1> QED
  BY <1>6, <1>7

\* An anomaly is saved, and none is opened again.
LEMMA LoneStoresAnomaly ==
    ASSUME NEW u \in Clients, TypeOK, LoopInv(u), StoreAnomaly(u)
    PROVE  LoopInv(u)'
<1> DEFINE k == Head(todo[u])
<1>1. k.call = "SaveAnomaly" /\ todo[u] # <<>> /\ k \in Call
  BY DEF StoreAnomaly, AtCall, TypeOK
<1>2. todo[u] = <<k>> /\ k \in LastCalls
  BY <1>1, LastCall DEF Neutral, Closing
<1>3. k.anomaly \in AnomalyIDs /\ k.clone \in A!AnomalyRecord
  BY <1>1, CallParts
<1>4. UNCHANGED order /\ todo'[u] = <<>>
  <2>1. UNCHANGED order /\ todo'[u] = <<>> \o Tail(<<k>>)
    BY <1>2 DEF StoreAnomaly, Proceed, TypeOK
  <2>2. <<>> \o Tail(<<k>>) = <<>>
    OBVIOUS
  <2> QED
    BY <2>1, <2>2
<1>5. /\ anomaly'[k.anomaly] = k.clone
      /\ \A i \in AnomalyIDs \ {k.anomaly} : anomaly'[i] = anomaly[i]
  BY <1>3 DEF StoreAnomaly, TypeOK
<1>6. k.clone # NoRecord
  BY <1>3, NullAssumption
<1>7. \A i \in AnomalyIDs : Settles(todo[u], i) => i = k.anomaly /\ A!IsTerminal(k.clone)
  <2>1. Len(<<k>>) = 1 /\ <<k>>[1] = k
    OBVIOUS
  <2> QED
    BY <1>1, <1>2, <2>1 DEF Settles, ResolveCall
<1> HIDE DEF k
<1>8. Orderly(todo[u])'
  BY <1>4 DEF Orderly
<1>9. \A i \in AnomalyIDs : /\ anomaly[i] # NoRecord => anomaly'[i] # NoRecord
                            /\ Resolved(i) \/ Settles(todo[u], i) => Resolved(i)'
  <2> SUFFICES ASSUME NEW i \in AnomalyIDs
               PROVE  /\ anomaly[i] # NoRecord => anomaly'[i] # NoRecord
                      /\ Resolved(i) \/ Settles(todo[u], i) => Resolved(i)'
    OBVIOUS
  <2>1. CASE i # k.anomaly
    BY <1>5, <1>7, <2>1 DEF Resolved
  <2>2. CASE i = k.anomaly
    <3>1. Resolved(i) => A!IsTerminal(k.clone)
      BY <1>1, <1>2, <2>2 DEF LastCalls
    <3> QED
      BY <1>5, <1>6, <1>7, <2>2, <3>1 DEF Resolved
  <2> QED
    BY <2>1, <2>2
<1>10. ClosedOrdersSettled(u)'
  <2> SUFFICES ASSUME NEW w \in Stored(order)
               PROVE  /\ LinkStored(w)'
                      /\ w.state = "closed" /\ w.anomaly # NoAnomaly => Resolved(w.anomaly)'
    BY <1>4 DEF ClosedOrdersSettled, Stored
  <2>1. w.anomaly \in AnomalyIDs \cup {NoAnomaly}
    BY DEF Stored, TypeOK, W!WorkOrderRecord
  <2> QED
    BY <1>9, <2>1 DEF LoopInv, ClosedOrdersSettled, LinkStored
<1> QED
  BY <1>8, <1>10 DEF LoopInv

\* An order is saved: one that is closed has no anomaly or goes on to resolve it.
LEMMA LoneStoresWorkOrder ==
    ASSUME NEW u \in Clients, TypeOK, LoopInv(u), StoreWorkOrder(u)
    PROVE  LoopInv(u)'
<1> DEFINE t == todo[u]
           k == Head(t)
           x == k.clone
<1>1. k.call = "SaveWorkOrder" /\ t # <<>> /\ k \in Call
  BY DEF StoreWorkOrder, AtCall, TypeOK
<1>2. k.order \in OrderIDs /\ x \in W!WorkOrderRecord
  BY <1>1, CallParts
<1>3. UNCHANGED anomaly /\ todo'[u] = <<>> \o Tail(t) /\ order' = [order EXCEPT ![k.order] = x]
  BY DEF StoreWorkOrder, Proceed, TypeOK
<1>4. \A w : w \in Stored(order)' => w = x \/ w \in Stored(order)
  BY <1>2, <1>3 DEF Stored, TypeOK
<1>5. \A i \in AnomalyIDs : Resolved(i)' <=> Resolved(i)
  BY <1>3 DEF Resolved
<1>6. ASSUME LinkStored(x), Orderly(todo[u])',
             \A i \in AnomalyIDs : Settles(t, i) => Settles(todo'[u], i),
             x.state = "closed" /\ x.anomaly # NoAnomaly => Settles(todo'[u], x.anomaly)
      PROVE  LoopInv(u)'
  <2> SUFFICES ASSUME NEW w \in Stored(order)'
               PROVE  /\ LinkStored(w)'
                      /\ w.state = "closed" /\ w.anomaly # NoAnomaly
                            => Resolved(w.anomaly)' \/ Settles(todo[u], w.anomaly)'
    BY <1>6 DEF LoopInv, ClosedOrdersSettled
  <2>1. w.anomaly \in AnomalyIDs \cup {NoAnomaly}
    <3>1. \A y \in Stored(order) : y \in W!WorkOrderRecord
      BY DEF Stored, TypeOK
    <3>2. w \in W!WorkOrderRecord
      <4> HIDE DEF x
      <4> QED
        BY <1>2, <1>4, <3>1
    <3> QED
      BY <3>2 DEF W!WorkOrderRecord
  <2>2. \A i : Settles(todo'[u], i) => Settles(todo[u], i)'
    BY DEF Settles
  <2>3. LinkStored(w)'
    BY <1>3, <1>4, <1>6 DEF LoopInv, ClosedOrdersSettled, LinkStored
  <2>4. CASE w = x
    BY <1>6, <2>2, <2>3, <2>4
  <2>5. CASE w \in Stored(order)
    BY <1>5, <1>6, <2>1, <2>2, <2>3, <2>5 DEF LoopInv, ClosedOrdersSettled
  <2> QED
    BY <1>4, <2>4, <2>5
<1>7. CASE t = <<k>> /\ k \in LastCalls
  <2>1. LinkStored(x) /\ (x.state = "closed" => x.anomaly = NoAnomaly)
    BY <1>1, <1>7 DEF LastCalls
  <2>2. todo'[u] = <<>>
    <3>1. <<>> \o Tail(<<k>>) = <<>>
      OBVIOUS
    <3> QED
      BY <1>3, <1>7, <3>1
  <2>3. Orderly(todo[u])'
    BY <2>2 DEF Orderly
  <2>4. \A i \in AnomalyIDs : ~Settles(t, i)
    <3> HIDE DEF k
    <3>1. Len(<<k>>) = 1 /\ <<k>>[1] = k
      OBVIOUS
    <3> QED
      BY <1>1, <1>7, <3>1 DEF Settles, ResolveCall
  <2> QED
    BY <1>6, <2>1, <2>3, <2>4
<1>8. CASE Closing(t) /\ t = <<k, t[2]>>
  <2> DEFINE r == t[2]
  <2>1. t[1] = k
    BY <1>1 DEF TypeOK
  <2>2. x.anomaly # NoAnomaly /\ LinkStored(x) /\ r = ResolveCall(x.anomaly) /\ Len(t) = 2
    BY <1>8, <2>1 DEF Closing
  <2>3. todo'[u] = <<r>>
    <3>1. <<>> \o Tail(<<k, r>>) = <<r>>
      OBVIOUS
    <3> QED
      BY <1>3, <1>8, <3>1
  <2>4. x.anomaly \in AnomalyIDs /\ anomaly[x.anomaly] # NoRecord
    BY <1>2, <2>2 DEF W!WorkOrderRecord, LinkStored
  <2>5. r \in LastCalls
    BY <2>2, <2>4 DEF LastCalls, ResolveCall, Call
  <2>10. t[Len(t)] = r /\ t # <<>>
    BY <1>1, <2>2
  <2> HIDE DEF r, k, x
  <2>6. Orderly(todo[u])'
    <3>1. Orderly(<<r>>)
      BY <2>5, ShortOrderly
    <3> QED
      BY <1>3, <2>3, <3>1, <1>5 DEF Orderly, LastCalls, LinkStored, Resolved
  <2>7. Len(<<r>>) = 1 /\ <<r>>[1] = r /\ <<r>> # <<>>
    OBVIOUS
  <2>8. \A i \in AnomalyIDs : Settles(t, i) => Settles(todo'[u], i)
    BY <2>10, <2>3, <2>7 DEF Settles
  <2>9. Settles(todo'[u], x.anomaly)
    BY <2>2, <2>3, <2>7 DEF Settles
  <2> QED
    BY <1>6, <2>2, <2>6, <2>8, <2>9
<1> QED
  BY <1>1, <1>7, <1>8, LastCall DEF Neutral

\* The calls that concern neither anomalies nor orders.
LEMMA LoneNeutral ==
    ASSUME NEW u \in Clients, TypeOK, LoopInv(u),
           \/ LoadAndReportFault(u) \/ FinishIfClear(u) \/ FreezeInspectionsForCabin(u)
           \/ SaveFrozen(u) \/ StoreCabin(u) \/ StoreInspection(u)
    PROVE  LoopInv(u)'
<1> DEFINE k == Head(todo[u])
<1>1. todo[u] # <<>> /\ k \in Call /\ k \in Neutral
  BY DEF LoadAndReportFault, FinishIfClear, FreezeInspectionsForCabin, SaveFrozen, StoreCabin,
         StoreInspection, AtCall, TypeOK, Neutral
<1>2. UNCHANGED <<anomaly, order>>
  BY DEF LoadAndReportFault, FinishIfClear, FreezeInspectionsForCabin, SaveFrozen, StoreCabin,
         StoreInspection, store
<1>3. \E calls : (calls = <<>> \/ \E n \in Neutral : calls = <<n>>) /\ Proceed(u, calls)
  <2>1. CASE LoadAndReportFault(u) \/ FinishIfClear(u)
    <3>1. k.cabin \in Cabins
      BY <1>1, <2>1 DEF LoadAndReportFault, FinishIfClear, AtCall, Call
    <3>2. /\ SaveCabin(k.cabin, ReportFault(cabin[k.cabin])) \in Neutral
          /\ SaveCabin(k.cabin, FinishInspection(cabin[k.cabin])) \in Neutral
      BY <3>1, CabinMethods DEF SaveCabin, Neutral, Call, TypeOK
    <3> QED
      BY <2>1, <3>2 DEF LoadAndReportFault, FinishIfClear
  <2>2. CASE FreezeInspectionsForCabin(u)
    <3> DEFINE open == OpenInspectionsForCabin(k.cabin)
               frozen == {<<i, I!Freeze(inspection[i])>> : i \in open}
               n == [call |-> "Freeze", frozen |-> frozen]
    <3>1. \A i \in open : i \in InspectionIDs /\ I!Freeze(inspection[i]) \in I!InspectionRecord
      BY DEF OpenInspectionsForCabin, I!Freeze, I!InspectionRecord, I!InspectionState, TypeOK
    <3>2. frozen \in SUBSET (InspectionIDs \X I!InspectionRecord)
      BY <3>1
    <3>3. n \in Neutral
      <4> HIDE DEF frozen
      <4> QED
        BY <3>2 DEF Neutral, Call
    <3> QED
      BY <2>2, <3>3 DEF FreezeInspectionsForCabin
  <2>3. CASE SaveFrozen(u)
    <3>1. k.frozen \in SUBSET (InspectionIDs \X I!InspectionRecord)
      BY <1>1, <2>3 DEF SaveFrozen, AtCall, Call
    <3>2. \A f : [call |-> "Freeze", frozen |-> k.frozen \ {f}] \in Neutral
      BY <3>1 DEF Neutral, Call
    <3> QED
      BY <2>3, <3>2 DEF SaveFrozen
  <2>4. CASE StoreCabin(u) \/ StoreInspection(u)
    BY <2>4 DEF StoreCabin, StoreInspection
  <2> QED
    BY <2>1, <2>2, <2>3, <2>4
<1> QED
  BY <1>1, <1>2, <1>3, NeutralStep

-----------------------------------------------------------------------------
(* The lock on a cabin, step by step                                       *)

\* The call saves an open anomaly of cabin c.
SavesOpen(k, c) ==
    /\ k.call = "SaveAnomaly"
    /\ k.clone.cabin = c /\ ~A!IsTerminal(k.clone)
    /\ anomaly[k.anomaly] # NoRecord => anomaly[k.anomaly].cabin = c

\* The call saves an inspection that stays where it was.
SavesInspection(k) ==
    /\ k.call = "SaveInspection" /\ k.inspection \in issued
    /\ inspection[k.inspection] # NoRecord
          => inspection[k.inspection].cabin = k.clone.cabin

FreezeCall(c) == [call |-> "FreezeInspections", cabin |-> c]

\* The last call of a request keeps what holds a cabin locked, or finds it
\* restored; an inspection that goes on is not saved into a frozen cabin.
LastSafe(k) ==
    \/ k.call \in {"SaveWorkOrder", "Resolve"}
    \/ \E c \in Cabins : SavesOpen(k, c)
    \/ /\ k.call = "SaveAnomaly"
       /\ anomaly[k.anomaly] # NoRecord
       /\ k.clone.cabin = anomaly[k.anomaly].cabin
       /\ A!IsTerminal(anomaly[k.anomaly]) \/ cabin[k.clone.cabin] = "operational"
    \/ /\ k.call = "Acknowledge"
       /\ anomaly[k.anomaly] # NoRecord /\ k.loaded = anomaly[k.anomaly]
    \/ /\ SavesInspection(k)
       /\ IF I!IsClosed(k.clone)
          THEN \/ cabin[k.clone.cabin] = "operational"
               \/ OpenAnomaliesForCabin(k.clone.cabin) # {}
          ELSE cabin[k.clone.cabin] # "frozen"

\* The last two calls of a request.
PairSafe(k, l) ==
    \/ k.call = "SaveWorkOrder" /\ l.call = "Resolve"
    \/ k.call = "SaveCabin" /\ SavesOpen(l, k.cabin)
         /\ (k.status = "frozen" => cabin[k.cabin] = "frozen")
    \/ k.call \in {"ReportFault", "FreezeInspections"} /\ SavesOpen(l, k.cabin)
    \/ /\ k.call = "Freeze"
       /\ \E c \in Cabins :
            /\ SavesOpen(l, c)
            /\ \A f \in k.frozen : /\ I!IsClosed(f[2]) /\ f[2].cabin = c
                                   /\ inspection[f[1]] # NoRecord
                                   /\ inspection[f[1]].cabin = c
    \/ /\ k.call = "SaveCabin" /\ k.status = "operational" /\ l.call = "SaveAnomaly"
       /\ anomaly[l.anomaly] # NoRecord
       /\ anomaly[l.anomaly].cabin = k.cabin /\ l.clone.cabin = k.cabin
    \/ /\ k.call = "SaveCabin" /\ k.status = "under_inspection"
       /\ SavesInspection(l) /\ ~I!IsClosed(l.clone) /\ l.clone.cabin = k.cabin
    \/ /\ k.call = "FinishIfClear" \/ (k.call = "SaveCabin" /\ k.status = "operational")
       /\ SavesInspection(l) /\ I!IsClosed(l.clone) /\ l.clone.cabin = k.cabin
    \/ /\ k.call = "SaveCabin" /\ l.call = "SaveWorkOrder"
       /\ \/ k.status = cabin[k.cabin]
          \/ /\ k.status = "maintenance"
             /\ cabin[k.cabin] \notin {"operational", "under_inspection"}

\* What may be left of a request.
Safe(t) ==
    \/ t = <<>>
    \/ \E k \in Call : t = <<k>> /\ LastSafe(k)
    \/ \E k \in Call, l \in Call : t = <<k, l>> /\ PairSafe(k, l)
    \/ \E c \in Cabins, s \in CabinStatus, l \in Call :
          t = <<SaveCabin(c, s), FreezeCall(c), l>> /\ SavesOpen(l, c)

\* The last call brings what the cabin c is to be kept locked for.
Coming(t, c) ==
    /\ t # <<>>
    /\ LET l == t[Len(t)]
       IN  \/ SavesOpen(l, c)
           \/ /\ l.call = "SaveInspection" /\ ~I!IsClosed(l.clone) /\ l.clone.cabin = c
              /\ cabin[c] = "under_inspection"

\* NoStrandedCabin, also while a request is under way.
Sheltered(u) ==
    \A c \in Cabins :
        \/ cabin[c] = "operational"
        \/ OpenAnomaliesForCabin(c) # {}
        \/ cabin[c] = "under_inspection" /\ OpenInspectionsForCabin(c) # {}
        \/ Coming(todo[u], c)

\* The next call is about to freeze the inspection i.
Freezing(t, i) ==
    /\ t # <<>>
    /\ \/ Head(t) = FreezeCall(inspection[i].cabin)
       \/ Head(t).call = "Freeze" /\ \E f \in Head(t).frozen : f[1] = i

\* FrozenCabinClear, also while a request is under way.
FrozenClear(u) ==
    \A i \in {j \in InspectionIDs : inspection[j] # NoRecord /\ ~I!IsClosed(inspection[j])} :
        cabin[inspection[i].cabin] = "frozen" => Freezing(todo[u], i)

\* The ID of a stored inspection is not issued again.
KeptInspections == \A i \in InspectionIDs : inspection[i] # NoRecord => i \in issued

LockInv(u) == Safe(todo[u]) /\ Sheltered(u) /\ FrozenClear(u) /\ KeptInspections

\* The parts of the sequences a request is.
LEMMA ShortSequences ==
    \A k, l, m :
        /\ <<k>> # <<>> /\ <<k, l>> # <<>> /\ <<k, l, m>> # <<>>
        /\ Head(<<k>>) = k /\ Head(<<k, l>>) = k /\ Head(<<k, l, m>>) = k
        /\ Tail(<<k>>) = <<>> /\ Tail(<<k, l>>) = <<l>> /\ Tail(<<k, l, m>>) = <<l, m>>
        /\ <<k>>[Len(<<k>>)] = k
        /\ <<k, l>>[Len(<<k, l>>)] = l
        /\ <<k, l, m>>[Len(<<k, l, m>>)] = m
OBVIOUS

\* What a goroutine has left after a call.
LEMMA Left ==
    ASSUME NEW u \in Clients, TypeOK, NEW k, NEW l, NEW m
    PROVE  /\ todo[u] = <<k>> /\ Proceed(u, <<>>) => todo'[u] = <<>>
           /\ \A a : todo[u] = <<k>> /\ Proceed(u, <<a>>) => todo'[u] = <<a>>
           /\ \A a, b : todo[u] = <<k>> /\ Proceed(u, <<a, b>>) => todo'[u] = <<a, b>>
           /\ todo[u] = <<k, l>> /\ Proceed(u, <<>>) => todo'[u] = <<l>>
           /\ \A a : todo[u] = <<k, l>> /\ Proceed(u, <<a>>) => todo'[u] = <<a, l>>
           /\ todo[u] = <<k, l, m>> /\ Proceed(u, <<>>) => todo'[u] = <<l, m>>
<1>1. \A calls : Proceed(u, calls) => todo'[u] = calls \o Tail(todo[u])
  BY DEF Proceed, TypeOK
<1>2. /\ <<>> \o <<>> = <<>>
      /\ \A a : <<a>> \o <<>> = <<a>>
      /\ \A a, b : <<a, b>> \o <<>> = <<a, b>>
  OBVIOUS
<1>3. <<>> \o <<l>> = <<l>> /\ <<>> \o <<l, m>> = <<l, m>>
  OBVIOUS
<1>4. todo[u] = <<k>> => \A calls : Proceed(u, calls) => todo'[u] = calls \o <<>>
  BY <1>1, ShortSequences
<1>5. todo[u] = <<k, l>> => \A calls : Proceed(u, calls) => todo'[u] = calls \o <<l>>
  BY <1>1, ShortSequences
<1>6. todo[u] = <<k, l, m>> => \A calls : Proceed(u, calls) => todo'[u] = calls \o <<l, m>>
  BY <1>1, ShortSequences
<1> QED
  BY <1>2, <1>3, <1>4, <1>5, <1>6, Appended

LEMMA LeftOfOne ==
    ASSUME NEW u \in Clients, TypeOK, NEW k, todo[u] = <<k>>
    PROVE  /\ Proceed(u, <<>>) => todo'[u] = <<>>
           /\ \A a : Proceed(u, <<a>>) => todo'[u] = <<a>>
           /\ \A a, b : Proceed(u, <<a, b>>) => todo'[u] = <<a, b>>
BY Left

LEMMA LeftOfTwo ==
    ASSUME NEW u \in Clients, TypeOK, NEW k, NEW l, todo[u] = <<k, l>>
    PROVE  /\ Proceed(u, <<>>) => todo'[u] = <<l>>
           /\ \A a : Proceed(u, <<a>>) => todo'[u] = <<a, l>>
BY Left

LEMMA LeftOfThree ==
    ASSUME NEW u \in Clients, TypeOK, NEW k, NEW l, NEW m, todo[u] = <<k, l, m>>,
           Proceed(u, <<>>)
    PROVE  todo'[u] = <<l, m>>
BY Left

\* What is safe depends on cabins, anomalies, inspections and issued IDs only.
LEMMA SafeStays ==
    ASSUME UNCHANGED <<cabin, anomaly, inspection>>, issued \subseteq issued'
    PROVE  \A t : Safe(t) => Safe(t)'
<1>1. \A k, c : SavesOpen(k, c) => SavesOpen(k, c)'
  BY DEF SavesOpen
<1>2. \A k : SavesInspection(k) => SavesInspection(k)'
  BY DEF SavesInspection
<1>3. \A k : LastSafe(k) => LastSafe(k)'
  BY <1>1, <1>2 DEF LastSafe, OpenAnomaliesForCabin
<1>4. \A k, l : PairSafe(k, l) => PairSafe(k, l)'
  BY <1>1, <1>2 DEF PairSafe
<1> QED
  BY <1>1, <1>3, <1>4 DEF Safe

\* A request is taken up.
LEMMA LockEnters ==
    ASSUME NEW u \in Clients, TypeOK, LockInv(u), NEW calls, Enter(u, calls),
           issued \subseteq issued', Safe(calls) \/ Safe(calls)'
    PROVE  LockInv(u)'
<1>1. todo[u] = <<>> /\ todo'[u] = calls /\ UNCHANGED <<cabin, anomaly, inspection>>
  BY DEF Enter, TypeOK, store
<1>2. Safe(todo[u])'
  <2>1. CASE Safe(calls)
    <3>1. Safe(calls)'
      BY <1>1, <2>1, SafeStays
    <3> QED
      BY <1>1, <3>1 DEF Safe
  <2>2. CASE Safe(calls)'
    BY <1>1, <2>2 DEF Safe
  <2> QED
    BY <2>1, <2>2
<1>3. Sheltered(u)'
  BY <1>1 DEF LockInv, Sheltered, Coming, OpenAnomaliesForCabin, OpenInspectionsForCabin
<1>4. FrozenClear(u)'
  BY <1>1 DEF LockInv, FrozenClear, Freezing
<1>5. KeptInspections'
  BY <1>1 DEF LockInv, KeptInspections
<1> QED
  BY <1>2, <1>3, <1>4, <1>5 DEF LockInv

\* A call that changes no cabin, anomaly or inspection.
LEMMA LockSteps ==
    ASSUME NEW u \in Clients, LockInv(u), UNCHANGED <<cabin, anomaly, inspection, issued>>,
           Safe(todo'[u]),
           \A c \in Cabins : Coming(todo[u], c) => Coming(todo'[u], c),
           \A i \in InspectionIDs :
               inspection[i] # NoRecord /\ ~I!IsClosed(inspection[i]) /\ Freezing(todo[u], i)
                  => Freezing(todo'[u], i)
    PROVE  LockInv(u)'
<1>1. Safe(todo[u])'
  <2>1. PICK t : t = todo'[u] /\ Safe(t)
    OBVIOUS
  <2>2. Safe(t)'
    BY <2>1, SafeStays
  <2> QED
    BY <2>1, <2>2 DEF Safe
<1>2. \A c \in Cabins : Coming(todo'[u], c) => Coming(todo[u], c)'
  BY DEF Coming, SavesOpen
<1>3. \A i \in InspectionIDs : Freezing(todo'[u], i) => Freezing(todo[u], i)'
  BY DEF Freezing
<1>4. Sheltered(u)'
  BY <1>2 DEF LockInv, Sheltered, OpenAnomaliesForCabin, OpenInspectionsForCabin
<1>5. FrozenClear(u)'
  BY <1>3 DEF LockInv, FrozenClear
<1>6. KeptInspections'
  BY DEF LockInv, KeptInspections
<1> QED
  BY <1>1, <1>4, <1>5, <1>6 DEF LockInv

\* Sequences of calls that are safe.
LEMMA SafeSequences ==
    /\ \A k \in Call : LastSafe(k) => Safe(<<k>>)
    /\ \A k \in Call, l \in Call : PairSafe(k, l) => Safe(<<k, l>>)
    /\ \A c \in Cabins, s \in CabinStatus, l \in Call :
          SavesOpen(l, c) => Safe(<<SaveCabin(c, s), FreezeCall(c), l>>)
BY DEF Safe

\* The saves as calls.
LEMMA SavesAreCalls ==
    /\ \A c \in Cabins, s \in CabinStatus :
          LET k == SaveCabin(c, s)
          IN  k \in Call /\ k.call = "SaveCabin" /\ k.cabin = c /\ k.status = s
    /\ \A i \in AnomalyIDs, a \in A!AnomalyRecord :
          LET k == SaveAnomaly(i, a)
          IN  k \in Call /\ k.call = "SaveAnomaly" /\ k.anomaly = i /\ k.clone = a
    /\ \A i \in InspectionIDs, in \in I!InspectionRecord :
          LET k == SaveInspection(i, in)
          IN  k \in Call /\ k.call = "SaveInspection" /\ k.inspection = i /\ k.clone = in
    /\ \A i \in OrderIDs, w \in W!WorkOrderRecord :
          LET k == SaveWorkOrder(i, w)
          IN  k \in Call /\ k.call = "SaveWorkOrder"
BY DEF SaveCabin, SaveAnomaly, SaveInspection, SaveWorkOrder, Call

\* The calls that resolve an anomaly.
LEMMA ResolutionSafe ==
    ASSUME TypeOK, NEW i \in AnomalyIDs, anomaly[i] # NoRecord
    PROVE  \E k \in Call, l \in Call :
             /\ Resolution(i) = <<k, l>> /\ PairSafe(k, l)
             /\ k.call = "SaveCabin"
<1> DEFINE c == anomaly[i].cabin
           k == SaveCabin(c, Restore(cabin[c]))
           l == SaveAnomaly(i, A!Resolve(anomaly[i]))
<1>1. anomaly[i] \in A!AnomalyRecord /\ c \in Cabins
  BY DEF TypeOK, A!AnomalyRecord
<1>2. A!Resolve(anomaly[i]) \in A!AnomalyRecord /\ A!Resolve(anomaly[i]).cabin = c
  BY <1>1 DEF A!Resolve, A!AnomalyRecord, A!AnomalyState
<1>3. Restore(cabin[c]) \in CabinStatus /\ Restore(cabin[c]) = "operational"
  BY DEF Restore, CabinStatus
<1>4. /\ k \in Call /\ k.call = "SaveCabin" /\ k.cabin = c /\ k.status = "operational"
      /\ l \in Call /\ l.call = "SaveAnomaly" /\ l.anomaly = i /\ l.clone.cabin = c
  BY <1>1, <1>2, <1>3, SavesAreCalls
<1>5. PairSafe(k, l)
  BY <1>4 DEF PairSafe
<1>6. Resolution(i) = <<k, l>>
  BY DEF Resolution
<1> QED
  BY <1>4, <1>5, <1>6

\* The requests.
LEMMA LockRequests ==
    ASSUME NEW u \in Clients, TypeOK, KeptIssued, LockInv(u), Request(u)
    PROVE  LockInv(u)'
<1> USE LockEnters, SafeSequences
<1>0. issued \subseteq issued'
  <2>1. (\E i : Issue(i)) \/ UNCHANGED issued
    BY DEF Request, ReportAnomaly, AcknowledgeAnomaly, IsolateAnomaly, ResolveAnomaly,
           DispatchInspection, StartInspection, UploadPhoto, ReviewInspection, CompleteInspection,
           Inspect, OpenWorkOrder, StartWorkOrder, SubmitWorkOrderForReview, ReviewWorkOrder, Work,
           CloseWorkOrder
  <2> QED
    BY <2>1 DEF Issue
<1>1. \A calls : Enter(u, calls) => todo[u] = <<>>
  BY DEF Enter
<1> USE <1>0
<1>2. ASSUME NEW i \in AnomalyIDs, NEW c \in Cabins, NEW level \in Levels,
             NEW conflict \in BOOLEAN, ReportAnomaly(u, i, c, level, conflict)
      PROVE  LockInv(u)'
  <2> DEFINE a == A!NewAnomaly(c, level, now)
             s == IF conflict THEN Isolate(cabin[c]) ELSE Freeze(cabin[c])
             b == IF conflict THEN A!Isolate(a) ELSE a
             k == [call |-> "ReportFault", cabin |-> c]
  <2>1. /\ a \in A!AnomalyRecord /\ a.cabin = c /\ ~A!IsTerminal(a)
        /\ b \in A!AnomalyRecord /\ b.cabin = c /\ ~A!IsTerminal(b)
    BY LevelsAssumption
    DEF A!NewAnomaly, A!Isolate, A!AnomalyRecord, A!AnomalyState, A!IsTerminal, TypeOK
  <2>2. anomaly[i] = NoRecord
    BY <1>2 DEF ReportAnomaly, Issue, KeptIssued
  <2>3. k \in Call /\ k.call = "ReportFault" /\ k.cabin = c
    BY DEF Call
  <2>4. s \in CabinStatus
    BY DEF Isolate, Freeze, CabinStatus
  <2> HIDE DEF a, b, k, s
  <2>5. /\ SaveAnomaly(i, a) \in Call /\ SavesOpen(SaveAnomaly(i, a), c)
        /\ SaveAnomaly(i, b) \in Call /\ SavesOpen(SaveAnomaly(i, b), c)
    BY <2>1, <2>2, SavesAreCalls DEF SavesOpen
  <2>6. Safe(<<k, SaveAnomaly(i, a)>>)
    BY <2>3, <2>5 DEF PairSafe
  <2>7. Safe(<<SaveCabin(c, s), FreezeCall(c), SaveAnomaly(i, b)>>)
    BY <2>4, <2>5
  <2>8. \/ Enter(u, <<k, SaveAnomaly(i, a)>>)
        \/ Enter(u, <<SaveCabin(c, s), FreezeCall(c), SaveAnomaly(i, b)>>)
    BY <1>2 DEF ReportAnomaly, FreezeCall, a, b, k, s
  <2> QED
    BY <2>6, <2>7, <2>8
<1>3. ASSUME NEW i \in AnomalyIDs, AcknowledgeAnomaly(u, i) PROVE LockInv(u)'
  <2> DEFINE k == [call |-> "Acknowledge", anomaly |-> i, loaded |-> anomaly[i]]
  <2>1. anomaly[i] \in A!AnomalyRecord /\ anomaly[i] # NoRecord
    BY <1>3 DEF AcknowledgeAnomaly, TypeOK
  <2>2. k \in Call /\ LastSafe(k)
    BY <2>1 DEF Call, LastSafe
  <2> QED
    BY <1>3, <2>2 DEF AcknowledgeAnomaly
<1>4. ASSUME NEW i \in AnomalyIDs, IsolateAnomaly(u, i) PROVE LockInv(u)'
  <2> DEFINE c == anomaly[i].cabin
             k == SaveCabin(c, Isolate(cabin[c]))
             l == SaveAnomaly(i, A!Isolate(anomaly[i]))
  <2>1. anomaly[i] \in A!AnomalyRecord /\ anomaly[i] # NoRecord /\ c \in Cabins
    BY <1>4 DEF IsolateAnomaly, TypeOK, A!AnomalyRecord
  <2>2. /\ A!Isolate(anomaly[i]) \in A!AnomalyRecord
        /\ A!Isolate(anomaly[i]).cabin = c
        /\ ~A!IsTerminal(A!Isolate(anomaly[i]))
    BY <2>1 DEF A!Isolate, A!AnomalyRecord, A!AnomalyState, A!IsTerminal
  <2>3. Isolate(cabin[c]) \in CabinStatus /\ Isolate(cabin[c]) # "frozen"
    BY DEF Isolate, CabinStatus
  <2>4. /\ k \in Call /\ k.call = "SaveCabin" /\ k.cabin = c /\ k.status # "frozen"
        /\ l \in Call /\ SavesOpen(l, c)
    BY <2>1, <2>2, <2>3, SavesAreCalls DEF SavesOpen
  <2>5. PairSafe(k, l)
    BY <2>4 DEF PairSafe
  <2> QED
    BY <1>4, <2>4, <2>5 DEF IsolateAnomaly
<1>5. ASSUME NEW i \in AnomalyIDs, ResolveAnomaly(u, i) PROVE LockInv(u)'
  BY <1>5, ResolutionSafe DEF ResolveAnomaly, CanResolveAnomaly, Resolution
<1>6. ASSUME NEW i \in InspectionIDs,
             \/ StartInspection(u, i) \/ UploadPhoto(u, i)
             \/ \E p \in Inspectors : ReviewInspection(u, i, p)
      PROVE  LockInv(u)'
  <2>1. inspection[i] \in I!InspectionRecord /\ inspection[i] # NoRecord
    BY <1>6 DEF StartInspection, UploadPhoto, ReviewInspection, Inspect, TypeOK
  <2> DEFINE Result(in) == /\ in \in I!InspectionRecord /\ in.cabin = inspection[i].cabin
                           /\ ~I!IsClosed(inspection[i]) /\ ~I!IsClosed(in)
  <2>5. PICK in : Enter(u, <<SaveInspection(i, in)>>) /\ Result(in)
    <3>1. CASE StartInspection(u, i)
      <4>1. Result(I!Start(inspection[i]))
        BY <2>1, <3>1 DEF StartInspection, I!Start, I!CanStart, I!IsClosed, I!InspectionRecord,
                          I!InspectionState
      <4> QED
        BY <3>1, <4>1 DEF StartInspection, Inspect
    <3>2. CASE UploadPhoto(u, i)
      <4>1. Result(I!UploadPhoto(inspection[i]))
        BY <2>1, <3>2 DEF UploadPhoto, I!UploadPhoto, I!CanUploadPhoto, I!IsClosed,
                          I!InspectionRecord, I!InspectionState
      <4> QED
        BY <3>2, <4>1 DEF UploadPhoto, Inspect
    <3>3. ASSUME NEW p \in Inspectors, ReviewInspection(u, i, p)
          PROVE  \E in : Enter(u, <<SaveInspection(i, in)>>) /\ Result(in)
      <4>1. Result(I!Review(inspection[i], p))
        BY <2>1, <3>3 DEF ReviewInspection, I!Review, I!CanReview, I!IsClosed,
                          I!InspectionRecord, I!InspectionState
      <4> QED
        BY <3>3, <4>1 DEF ReviewInspection, Inspect
    <3> QED
      BY <1>6, <3>1, <3>2, <3>3
  <2>2. /\ in \in I!InspectionRecord /\ in.cabin = inspection[i].cabin
        /\ ~I!IsClosed(inspection[i]) /\ ~I!IsClosed(in)
    BY <2>5
  <2>3. cabin[in.cabin] # "frozen"
    <3>1. todo[u] = <<>>
      BY <1>1, <2>5
    <3>2. ~Freezing(todo[u], i)
      BY <3>1 DEF Freezing
    <3> QED
      BY <2>1, <2>2, <3>2 DEF LockInv, FrozenClear
  <2>4. i \in issued
    BY <2>1 DEF LockInv, KeptInspections
  <2>6. SaveInspection(i, in) \in Call /\ LastSafe(SaveInspection(i, in))
    BY <2>2, <2>3, <2>4, SavesAreCalls DEF LastSafe, SavesInspection
  <2> QED
    BY <2>5, <2>6
<1>7. ASSUME NEW i \in InspectionIDs, CompleteInspection(u, i) PROVE LockInv(u)'
  <2> DEFINE in == inspection[i]
             c == in.cabin
             k == [call |-> "FinishIfClear", cabin |-> c]
             l == SaveInspection(i, I!Complete(in))
  <2>1. in \in I!InspectionRecord /\ in # NoRecord /\ c \in Cabins /\ i \in issued
    BY <1>7 DEF CompleteInspection, TypeOK, I!InspectionRecord, LockInv, KeptInspections
  <2>2. /\ I!Complete(in) \in I!InspectionRecord
        /\ I!Complete(in).cabin = c /\ I!IsClosed(I!Complete(in))
    BY <2>1 DEF I!Complete, I!InspectionRecord, I!InspectionState, I!IsClosed
  <2>3. /\ k \in Call /\ k.call = "FinishIfClear" /\ k.cabin = c
        /\ l \in Call /\ SavesInspection(l) /\ I!IsClosed(l.clone) /\ l.clone.cabin = c
    BY <2>1, <2>2, SavesAreCalls DEF SavesInspection, Call
  <2>4. PairSafe(k, l)
    BY <2>3 DEF PairSafe
  <2> QED
    BY <1>7, <2>3, <2>4 DEF CompleteInspection
<1>8. ASSUME NEW i \in InspectionIDs, NEW c \in Cabins, NEW p \in Inspectors, NEW w \in BOOLEAN,
             DispatchInspection(u, i, c, p, w)
      PROVE  LockInv(u)'
  <2> DEFINE in == I!NewInspection(c, p)
  <2>1. /\ in \in I!InspectionRecord /\ in.cabin = c /\ ~I!IsClosed(in)
    BY DEF I!NewInspection, I!InspectionRecord, I!InspectionState, I!IsClosed
  <2>2. inspection[i] = NoRecord /\ i \in issued' /\ UNCHANGED inspection
    BY <1>8 DEF DispatchInspection, Issue, LockInv, KeptInspections, Enter, store
  <2>3. BeginInspection(cabin[c]) \in CabinStatus /\ BeginInspection(cabin[c]) = "under_inspection"
    BY DEF BeginInspection, CabinStatus
  <2> HIDE DEF in
  <2>4. PICK k \in Call : /\ k = SaveCabin(c, BeginInspection(cabin[c]))
                          /\ k.call = "SaveCabin" /\ k.cabin = c
                          /\ k.status = "under_inspection"
    BY <2>3, SavesAreCalls
  <2>5. PICK l \in Call : /\ l = SaveInspection(i, in)
                          /\ l.call = "SaveInspection" /\ l.inspection = i /\ l.clone = in
    BY <2>1, SavesAreCalls
  <2>6. SavesInspection(l)'
    BY <2>2, <2>5 DEF SavesInspection
  <2>7. PairSafe(k, l)'
    BY <2>1, <2>4, <2>5, <2>6 DEF PairSafe
  <2>8. Safe(<<k, l>>)'
    BY <2>7 DEF Safe
  <2>9. Enter(u, <<k, l>>)
    BY <1>8, <2>4, <2>5 DEF DispatchInspection, in
  <2> QED
    BY <2>8, <2>9
<1>9. ASSUME NEW i \in OrderIDs, NEW c \in Cabins, NEW linked \in AnomalyIDs \cup {NoAnomaly},
             NEW p \in Inspectors, OpenWorkOrder(u, i, c, linked, p)
      PROVE  LockInv(u)'
  <2> DEFINE k == SaveCabin(c, BeginMaintenance(cabin[c]))
             l == SaveWorkOrder(i, W!NewWorkOrder(c, linked, p))
  <2>1. W!NewWorkOrder(c, linked, p) \in W!WorkOrderRecord
    BY DEF W!NewWorkOrder, W!WorkOrderRecord, W!WorkOrderState
  <2>2. /\ BeginMaintenance(cabin[c]) \in CabinStatus
        /\ \/ BeginMaintenance(cabin[c]) = cabin[c]
           \/ /\ BeginMaintenance(cabin[c]) = "maintenance"
              /\ cabin[c] \notin {"operational", "under_inspection"}
    BY DEF BeginMaintenance, CabinStatus, TypeOK
  <2>3. /\ k \in Call /\ k.call = "SaveCabin" /\ k.cabin = c
        /\ k.status = BeginMaintenance(cabin[c])
        /\ l \in Call /\ l.call = "SaveWorkOrder"
    BY <2>1, <2>2, SavesAreCalls
  <2>4. PairSafe(k, l) /\ LastSafe(l)
    BY <2>2, <2>3 DEF PairSafe, LastSafe
  <2> HIDE DEF k, l
  <2>5. Enter(u, <<k, l>>) \/ Enter(u, <<l>>)
    BY <1>9 DEF OpenWorkOrder, k, l
  <2> QED
    BY <2>3, <2>4, <2>5
<1>10. ASSUME NEW i \in OrderIDs,
              \/ StartWorkOrder(u, i) \/ SubmitWorkOrderForReview(u, i)
              \/ \E p \in Inspectors : ReviewWorkOrder(u, i, p)
       PROVE  LockInv(u)'
  <2>1. PICK w \in W!WorkOrderRecord : Enter(u, <<SaveWorkOrder(i, w)>>)
    BY <1>10 DEF StartWorkOrder, SubmitWorkOrderForReview, ReviewWorkOrder, Work, W!Start,
                 W!SubmitForReview, W!Review, W!CanReview, W!WorkOrderRecord, W!WorkOrderState,
                 TypeOK
  <2>2. SaveWorkOrder(i, w) \in Call /\ LastSafe(SaveWorkOrder(i, w))
    BY SavesAreCalls DEF LastSafe
  <2> QED
    BY <2>1, <2>2
<1>11. ASSUME NEW i \in OrderIDs, CloseWorkOrder(u, i) PROVE LockInv(u)'
  <2> DEFINE k == SaveWorkOrder(i, W!Close(order[i]))
             l == [call |-> "Resolve", anomaly |-> order[i].anomaly]
  <2>1. order[i] \in W!WorkOrderRecord /\ W!Close(order[i]) \in W!WorkOrderRecord
    BY <1>11 DEF CloseWorkOrder, W!Close, W!WorkOrderRecord, W!WorkOrderState, TypeOK
  <2>2. k \in Call /\ k.call = "SaveWorkOrder" /\ LastSafe(k)
    BY <2>1, SavesAreCalls DEF LastSafe
  <2>3. order[i].anomaly # NoAnomaly => l \in Call /\ l.call = "Resolve"
    BY <2>1 DEF W!WorkOrderRecord, Call
  <2>4. order[i].anomaly # NoAnomaly => PairSafe(k, l)
    BY <2>2, <2>3 DEF PairSafe
  <2>5. /\ order[i].anomaly = NoAnomaly => Enter(u, <<k>> \o <<>>)
        /\ order[i].anomaly # NoAnomaly => Enter(u, <<k>> \o <<l>>)
    BY <1>11 DEF CloseWorkOrder
  <2> HIDE DEF k, l
  <2>6. <<k>> \o <<>> = <<k>> /\ <<k>> \o <<l>> = <<k, l>>
    BY Appended
  <2> QED
    BY <2>2, <2>3, <2>4, <2>5, <2>6
<1> QED
  BY <1>2, <1>3, <1>4, <1>5, <1>6, <1>7, <1>8, <1>9, <1>10, <1>11 DEF Request

\* Which calls are followed by what.
LEMMA NextSafe ==
    ASSUME NEW t, Safe(t), t # <<>>, NEW k, k = Head(t)
    PROVE  /\ k \in Call
           /\ \/ t = <<k>> /\ LastSafe(k)
              \/ \E l \in Call : t = <<k, l>> /\ PairSafe(k, l)
              \/ \E c \in Cabins, s \in CabinStatus, l \in Call :
                    /\ k = SaveCabin(c, s) /\ k.call = "SaveCabin"
                    /\ t = <<k, FreezeCall(c), l>> /\ SavesOpen(l, c)
<1>1. CASE \E a \in Call : t = <<a>> /\ LastSafe(a)
  BY <1>1, ShortSequences
<1>2. CASE \E a \in Call, l \in Call : t = <<a, l>> /\ PairSafe(a, l)
  BY <1>2, ShortSequences
<1>3. CASE \E c \in Cabins, s \in CabinStatus, l \in Call :
              t = <<SaveCabin(c, s), FreezeCall(c), l>> /\ SavesOpen(l, c)
  BY <1>3, ShortSequences, SavesAreCalls
<1> QED
  BY <1>1, <1>2, <1>3 DEF Safe

\* Only the calls that freeze do.
LEMMA OnlyFreezing ==
    ASSUME NEW t, NEW i, t # <<>>, Head(t).call \notin {"FreezeInspections", "Freeze"}
    PROVE  ~Freezing(t, i)
BY DEF Freezing, FreezeCall

\* The lookups of a request.
LEMMA LockLookups ==
    ASSUME NEW u \in Clients, TypeOK, LockInv(u),
           \/ LoadAndReportFault(u) \/ AcknowledgeNow(u) \/ FinishIfClear(u)
           \/ FreezeInspectionsForCabin(u) \/ ResolveLinked(u) \/ StoreWorkOrder(u)
    PROVE  LockInv(u)'
<1>1. /\ todo[u] # <<>> /\ Safe(todo[u]) /\ UNCHANGED <<cabin, anomaly, inspection, issued>>
  BY DEF LoadAndReportFault, AcknowledgeNow, FinishIfClear, FreezeInspectionsForCabin,
         ResolveLinked, StoreWorkOrder, AtCall, store, LockInv
<1>2. PICK k : k = Head(todo[u])
  OBVIOUS
<1>3. /\ k \in Call
      /\ \/ todo[u] = <<k>> /\ LastSafe(k)
         \/ \E l \in Call : todo[u] = <<k, l>> /\ PairSafe(k, l)
         \/ k.call = "SaveCabin"
  BY <1>1, <1>2, NextSafe
<1>4. ASSUME NEW l, NEW t, todo[u] = <<k, l>>, todo'[u] = t, t # <<>>, t[Len(t)] = l
      PROVE  \A c \in Cabins : Coming(todo[u], c) => Coming(todo'[u], c)
  BY <1>4, ShortSequences DEF Coming
<1>5. CASE LoadAndReportFault(u)
  <2>1. k.call = "ReportFault"
    BY <1>2, <1>5 DEF LoadAndReportFault, AtCall
  <2>2. PICK l \in Call : todo[u] = <<k, l>> /\ PairSafe(k, l)
    BY <1>3, <2>1 DEF LastSafe, SavesOpen, SavesInspection
  <2>3. SavesOpen(l, k.cabin) /\ k.cabin \in Cabins
    BY <1>3, <2>1, <2>2 DEF PairSafe, Call
  <2>4. ReportFault(cabin[k.cabin]) \in CabinStatus
        /\ (ReportFault(cabin[k.cabin]) = "frozen" => cabin[k.cabin] = "frozen")
    BY <2>3 DEF ReportFault, CabinStatus, IsFrozen, TypeOK
  <2>5. PICK a \in Call : a = SaveCabin(k.cabin, ReportFault(cabin[k.cabin]))
                          /\ a.call = "SaveCabin" /\ a.cabin = k.cabin
                          /\ a.status = ReportFault(cabin[k.cabin])
    BY <2>3, <2>4, SavesAreCalls
  <2>6. PairSafe(a, l)
    BY <2>3, <2>4, <2>5 DEF PairSafe
  <2>7. todo'[u] = <<a, l>>
    <3>1. Proceed(u, <<a>>)
      BY <1>2, <1>5, <2>5 DEF LoadAndReportFault
    <3> QED
      BY <2>2, <3>1, LeftOfTwo
  <2>8. Safe(todo'[u])
    BY <2>6, <2>7, SafeSequences
  <2>9. \A c \in Cabins : Coming(todo[u], c) => Coming(todo'[u], c)
    BY <1>4, <2>2, <2>7, ShortSequences
  <2> QED
    BY <1>1, <1>2, <2>1, <2>8, <2>9, OnlyFreezing, LockSteps
<1>6. CASE AcknowledgeNow(u)
  <2>1. k.call = "Acknowledge"
    BY <1>2, <1>6 DEF AcknowledgeNow, AtCall
  <2>2. todo[u] = <<k>> /\ LastSafe(k)
    BY <1>3, <2>1 DEF PairSafe
  <2>3. anomaly[k.anomaly] # NoRecord /\ k.loaded = anomaly[k.anomaly]
    BY <2>1, <2>2 DEF LastSafe, SavesOpen, SavesInspection
  <2> DEFINE a == A!Acknowledge(k.loaded, now)
  <2>4. k.anomaly \in AnomalyIDs /\ k.loaded \in A!AnomalyRecord
    BY <1>3, <2>1, CallParts
  <2>5. /\ a \in A!AnomalyRecord /\ a.cabin = k.loaded.cabin /\ a.cabin \in Cabins
        /\ A!IsTerminal(a) => A!IsTerminal(k.loaded)
    BY <2>4 DEF A!Acknowledge, A!Escalate, A!AnomalyRecord, A!AnomalyState, A!IsTerminal, TypeOK
  <2>6. PICK s \in Call : /\ s = SaveAnomaly(k.anomaly, a)
                          /\ s.call = "SaveAnomaly" /\ s.anomaly = k.anomaly /\ s.clone = a
    BY <2>4, <2>5, SavesAreCalls
  <2>7. todo'[u] = <<s>>
    <3>1. Proceed(u, <<s>>)
      BY <1>2, <1>6, <2>6 DEF AcknowledgeNow
    <3> QED
      BY <2>2, <3>1, LeftOfOne
  <2> HIDE DEF a
  <2>8. LastSafe(s)
    BY <2>3, <2>5, <2>6 DEF LastSafe, SavesOpen
  <2>9. \A c : ~Coming(todo[u], c)
    BY <2>1, <2>2, ShortSequences DEF Coming, SavesOpen
  <2> QED
    BY <1>1, <1>2, <2>1, <2>7, <2>8, <2>9, SafeSequences, OnlyFreezing, LockSteps
<1>7. CASE FinishIfClear(u)
  <2>1. k.call = "FinishIfClear"
    BY <1>2, <1>7 DEF FinishIfClear, AtCall
  <2>2. PICK l \in Call : todo[u] = <<k, l>> /\ PairSafe(k, l)
    BY <1>3, <2>1 DEF LastSafe, SavesOpen, SavesInspection
  <2>3. /\ SavesInspection(l) /\ I!IsClosed(l.clone) /\ l.clone.cabin = k.cabin
        /\ k.cabin \in Cabins
    BY <1>3, <2>1, <2>2 DEF PairSafe, Call
  <2>4. PICK a \in Call : a = SaveCabin(k.cabin, FinishInspection(cabin[k.cabin]))
                          /\ a.call = "SaveCabin" /\ a.cabin = k.cabin
                          /\ a.status = "operational"
    BY <2>3, SavesAreCalls DEF FinishInspection, CabinStatus
  <2>5. PairSafe(a, l)
    BY <2>3, <2>4 DEF PairSafe
  <2>6. OpenAnomaliesForCabin(k.cabin) # {} => LastSafe(l)
    BY <2>3 DEF LastSafe
  <2>7. \/ todo'[u] = <<a, l>>
        \/ todo'[u] = <<l>> /\ OpenAnomaliesForCabin(k.cabin) # {}
    <3>1. \/ Proceed(u, <<a>>)
          \/ Proceed(u, <<>>) /\ OpenAnomaliesForCabin(k.cabin) # {}
      BY <1>2, <1>7, <2>4 DEF FinishIfClear
    <3> QED
      BY <2>2, <3>1, LeftOfTwo
  <2>8. Safe(todo'[u])
    BY <2>5, <2>6, <2>7, SafeSequences
  <2>9. \A c \in Cabins : Coming(todo[u], c) => Coming(todo'[u], c)
    <3>1. todo'[u] # <<>> /\ todo'[u][Len(todo'[u])] = l
      <4>1. CASE todo'[u] = <<a, l>>
        BY <4>1, ShortSequences
      <4>2. CASE todo'[u] = <<l>>
        BY <4>2, ShortSequences
      <4> QED
        BY <2>7, <4>1, <4>2
    <3>2. todo[u][Len(todo[u])] = l
      BY <2>2, ShortSequences
    <3> QED
      BY <3>1, <3>2 DEF Coming
  <2>10. \A i : ~Freezing(todo[u], i)
    BY <1>1, <1>2, <2>1, OnlyFreezing
  <2> QED
    BY <1>1, <2>8, <2>9, <2>10, LockSteps
<1>8. CASE FreezeInspectionsForCabin(u)
  <2>1. k.call = "FreezeInspections"
    BY <1>2, <1>8 DEF FreezeInspectionsForCabin, AtCall
  <2>2. PICK l \in Call : todo[u] = <<k, l>> /\ PairSafe(k, l)
    BY <1>3, <2>1 DEF LastSafe, SavesOpen, SavesInspection
  <2>3. SavesOpen(l, k.cabin) /\ k.cabin \in Cabins
    BY <1>3, <2>1, <2>2 DEF PairSafe, Call
  <2> DEFINE open == OpenInspectionsForCabin(k.cabin)
             frozen == {<<i, I!Freeze(inspection[i])>> : i \in open}
  <2>4. ASSUME NEW i \in open
        PROVE  /\ i \in InspectionIDs /\ inspection[i] # NoRecord
               /\ inspection[i].cabin = k.cabin
               /\ I!Freeze(inspection[i]) \in I!InspectionRecord
               /\ I!Freeze(inspection[i]).cabin = k.cabin
               /\ I!IsClosed(I!Freeze(inspection[i]))
    BY <2>4 DEF OpenInspectionsForCabin, I!Freeze, I!InspectionRecord, I!InspectionState,
                I!IsClosed, TypeOK
  <2>5. /\ frozen \in SUBSET (InspectionIDs \X I!InspectionRecord)
        /\ \A f \in frozen : /\ I!IsClosed(f[2]) /\ f[2].cabin = k.cabin
                             /\ inspection[f[1]] # NoRecord
                             /\ inspection[f[1]].cabin = k.cabin
    BY <2>4
  <2>6. \A i \in open : \E f \in frozen : f[1] = i
    <3> SUFFICES ASSUME NEW i \in open PROVE \E f \in frozen : f[1] = i
      OBVIOUS
    <3>1. <<i, I!Freeze(inspection[i])>> \in frozen
      OBVIOUS
    <3> QED
      BY <3>1
  <2>7. PICK a : a = [call |-> "Freeze", frozen |-> frozen]
    OBVIOUS
  <2> HIDE DEF frozen
  <2>8. a \in Call /\ a.call = "Freeze" /\ a.frozen = frozen
    BY <2>5, <2>7 DEF Call
  <2>9. PairSafe(a, l)
    BY <2>3, <2>5, <2>8 DEF PairSafe
  <2>10. todo'[u] = <<a, l>>
    <3>1. Proceed(u, <<a>>)
      BY <1>2, <1>8, <2>7 DEF FreezeInspectionsForCabin, frozen
    <3> QED
      BY <2>2, <3>1, LeftOfTwo
  <2>11. ASSUME NEW i \in InspectionIDs, inspection[i] # NoRecord,
                ~I!IsClosed(inspection[i]), Freezing(todo[u], i)
         PROVE  Freezing(todo'[u], i)
    <3>1. k = FreezeCall(inspection[i].cabin)
      BY <1>2, <2>1, <2>11 DEF Freezing
    <3>2. i \in open
      BY <2>11, <3>1 DEF FreezeCall, OpenInspectionsForCabin
    <3> QED
      BY <2>6, <2>8, <2>10, <3>2, ShortSequences DEF Freezing
  <2>12. Safe(todo'[u])
    BY <2>8, <2>9, <2>10, SafeSequences
  <2>13. \A c \in Cabins : Coming(todo[u], c) => Coming(todo'[u], c)
    BY <1>4, <2>2, <2>10, ShortSequences
  <2> QED
    BY <1>1, <2>11, <2>12, <2>13, LockSteps
<1>9. CASE ResolveLinked(u) \/ StoreWorkOrder(u)
  <2>1. k.call \in {"Resolve", "SaveWorkOrder"}
    BY <1>2, <1>9 DEF ResolveLinked, StoreWorkOrder, AtCall
  <2>2. \/ todo[u] = <<k>>
        \/ \E l \in Call : /\ todo[u] = <<k, l>> /\ l.call = "Resolve"
                           /\ k.call = "SaveWorkOrder"
    BY <1>3, <2>1 DEF PairSafe
  <2>3. \A c : ~Coming(todo[u], c)
    BY <2>1, <2>2, ShortSequences DEF Coming, SavesOpen
  <2>4. Safe(todo'[u])
    <3>1. Safe(<<>>) /\ \A l \in Call : l.call = "Resolve" => Safe(<<l>>)
      BY SafeSequences DEF Safe, LastSafe
    <3>2. CASE StoreWorkOrder(u)
      <4>1. Proceed(u, <<>>)
        BY <3>2 DEF StoreWorkOrder
      <4>2. CASE todo[u] = <<k>>
        <5>1. todo'[u] = <<>>
          BY <1>1, <4>1, <4>2, LeftOfOne
        <5> QED
          BY <3>1, <5>1
      <4>3. ASSUME NEW l \in Call, todo[u] = <<k, l>>, l.call = "Resolve"
            PROVE  Safe(todo'[u])
        <5>1. todo'[u] = <<l>>
          BY <1>1, <4>1, <4>3, LeftOfTwo
        <5> QED
          BY <3>1, <4>3, <5>1
      <4> QED
        BY <2>2, <4>2, <4>3
    <3>3. CASE ResolveLinked(u)
      <4>1. k.call = "Resolve" /\ todo[u] = <<k>>
        BY <1>2, <2>2, <3>3 DEF ResolveLinked, AtCall
      <4>2. k.anomaly \in AnomalyIDs
        BY <1>3, <4>1, CallParts
      <4>3. CASE CanResolveAnomaly(k.anomaly)
        <5>1. PICK a \in Call, b \in Call : Resolution(k.anomaly) = <<a, b>> /\ PairSafe(a, b)
          BY <4>2, <4>3, ResolutionSafe DEF CanResolveAnomaly
        <5>2. todo'[u] = <<a, b>>
          <6>1. Proceed(u, <<a, b>>)
            BY <1>2, <3>3, <4>3, <5>1 DEF ResolveLinked
          <6> QED
            BY <4>1, <6>1, LeftOfOne
        <5> QED
          BY <5>1, <5>2, SafeSequences
      <4>4. CASE ~CanResolveAnomaly(k.anomaly)
        <5>1. Proceed(u, <<>>)
          BY <1>2, <3>3, <4>4 DEF ResolveLinked
        <5> QED
          BY <3>1, <4>1, <5>1, LeftOfOne
      <4> QED
        BY <4>3, <4>4
    <3> QED
      BY <1>9, <3>2, <3>3
  <2> QED
    BY <1>1, <1>2, <2>1, <2>3, <2>4, OnlyFreezing, LockSteps
<1> QED
  BY <1>5, <1>6, <1>7, <1>8, <1>9

\* A cabin is saved.
LEMMA LockStoresCabin ==
    ASSUME NEW u \in Clients, TypeOK, LockInv(u), StoreCabin(u)
    PROVE  LockInv(u)'
<1>1. /\ todo[u] # <<>> /\ Safe(todo[u]) /\ Proceed(u, <<>>)
      /\ UNCHANGED <<anomaly, inspection, issued>>
  BY DEF StoreCabin, AtCall, LockInv
<1>2. PICK k : k = Head(todo[u])
  OBVIOUS
<1>3. k \in Call /\ k.call = "SaveCabin"
  BY <1>1, <1>2, NextSafe DEF StoreCabin, AtCall
<1> DEFINE c == k.cabin
           s == k.status
<1>4. c \in Cabins /\ s \in CabinStatus
  BY <1>3 DEF Call
<1>5. /\ cabin'[c] = s
      /\ \A d \in Cabins \ {c} : cabin'[d] = cabin[d]
  BY <1>2, <1>4 DEF StoreCabin, TypeOK
<1>6. \A i : ~Freezing(todo[u], i)
  BY <1>1, <1>2, <1>3, OnlyFreezing
<1> HIDE DEF c, s
<1>7. /\ \A d : OpenAnomaliesForCabin(d)' = OpenAnomaliesForCabin(d)
      /\ \A d : OpenInspectionsForCabin(d)' = OpenInspectionsForCabin(d)
      /\ \A l, d : SavesOpen(l, d)' <=> SavesOpen(l, d)
      /\ \A l : SavesInspection(l)' <=> SavesInspection(l)
  BY <1>1 DEF OpenAnomaliesForCabin, OpenInspectionsForCabin, SavesOpen, SavesInspection
<1>8. ASSUME NEW l, todo[u][Len(todo[u])] = l, todo'[u] # <<>>, todo'[u][Len(todo'[u])] = l,
             Safe(todo[u])',
             \/ s = "operational"
             \/ OpenAnomaliesForCabin(c) # {}
             \/ SavesOpen(l, c)
             \/ s = cabin[c]
             \/ /\ s = "under_inspection"
                /\ l.call = "SaveInspection" /\ ~I!IsClosed(l.clone) /\ l.clone.cabin = c,
             s # "frozen" \/ cabin[c] = "frozen" \/ Head(todo'[u]) = FreezeCall(c)
      PROVE  LockInv(u)'
  <2>1. \A d \in Cabins : cabin'[d] = cabin[d] =>
            (Coming(todo[u], d) => Coming(todo[u], d)')
    BY <1>7, <1>8 DEF Coming
  <2>2. \A d \in Cabins : cabin'[d] = cabin[d] =>
            \/ cabin'[d] = "operational"
            \/ OpenAnomaliesForCabin(d)' # {}
            \/ cabin'[d] = "under_inspection" /\ OpenInspectionsForCabin(d)' # {}
            \/ Coming(todo[u], d)'
    BY <1>7, <2>1 DEF LockInv, Sheltered
  <2>3. cabin'[c] # cabin[c] =>
            \/ cabin'[c] = "operational"
            \/ OpenAnomaliesForCabin(c)' # {}
            \/ Coming(todo[u], c)'
    BY <1>5, <1>7, <1>8 DEF Coming
  <2>4. Sheltered(u)'
    BY <1>4, <1>5, <2>2, <2>3 DEF Sheltered
  <2>5. FrozenClear(u)'
    <3> SUFFICES ASSUME NEW i \in InspectionIDs, inspection[i] # NoRecord,
                        ~I!IsClosed(inspection[i]), cabin'[inspection[i].cabin] = "frozen"
                 PROVE  Freezing(todo[u], i)'
      BY <1>1 DEF FrozenClear
    <3>1. cabin[inspection[i].cabin] # "frozen"
      BY <1>6 DEF LockInv, FrozenClear
    <3>2. inspection[i].cabin \in Cabins
      BY DEF TypeOK, I!InspectionRecord
    <3>3. inspection[i].cabin = c
      BY <1>5, <3>1, <3>2
    <3>4. Head(todo'[u]) = FreezeCall(inspection[i].cabin)
      BY <1>5, <1>8, <3>1, <3>3
    <3> QED
      BY <1>1, <1>8, <3>4 DEF Freezing
  <2>6. KeptInspections'
    BY <1>1 DEF LockInv, KeptInspections
  <2> QED
    BY <1>8, <2>4, <2>5, <2>6 DEF LockInv
<1>9. ASSUME NEW l \in Call, todo[u] = <<k, l>>, PairSafe(k, l)
      PROVE  LockInv(u)'
  <2>1. todo'[u] = <<l>>
    BY <1>1, <1>9, LeftOfTwo
  <2>2. todo[u][Len(todo[u])] = l /\ todo'[u] # <<>> /\ todo'[u][Len(todo'[u])] = l
    BY <1>9, <2>1, ShortSequences
  <2>3. \/ SavesOpen(l, c) /\ (s = "frozen" => cabin[c] = "frozen")
        \/ /\ s = "operational" /\ l.call = "SaveAnomaly" /\ anomaly[l.anomaly] # NoRecord
           /\ anomaly[l.anomaly].cabin = c /\ l.clone.cabin = c
        \/ s = "under_inspection" /\ SavesInspection(l) /\ ~I!IsClosed(l.clone) /\ l.clone.cabin = c
        \/ s = "operational" /\ SavesInspection(l) /\ I!IsClosed(l.clone) /\ l.clone.cabin = c
        \/ /\ l.call = "SaveWorkOrder"
           /\ s = cabin[c] \/ (s = "maintenance" /\ cabin[c] \notin {"operational", "under_inspection"})
    BY <1>3, <1>9 DEF PairSafe, c, s
  <2>4. LastSafe(l)'
    BY <1>1, <1>4, <1>5, <1>7, <2>3 DEF LastSafe
  <2>5. Safe(todo[u])'
    BY <2>1, <2>4 DEF Safe
  <2>6. l.call = "SaveWorkOrder" /\ cabin[c] \notin {"operational", "under_inspection"}
           => OpenAnomaliesForCabin(c) # {}
    BY <1>4, <2>2 DEF LockInv, Sheltered, Coming, SavesOpen
  <2> QED
    BY <1>8, <2>2, <2>3, <2>5, <2>6 DEF SavesInspection
<1>10. ASSUME NEW d \in Cabins, NEW st \in CabinStatus, NEW l \in Call, k = SaveCabin(d, st),
              todo[u] = <<k, FreezeCall(d), l>>, SavesOpen(l, d)
       PROVE  LockInv(u)'
  <2>1. c = d
    BY <1>10, SavesAreCalls DEF c
  <2>2. todo'[u] = <<FreezeCall(c), l>>
    BY <1>1, <1>10, <2>1, LeftOfThree
  <2>3. /\ todo[u][Len(todo[u])] = l /\ todo'[u] # <<>> /\ todo'[u][Len(todo'[u])] = l
        /\ Head(todo'[u]) = FreezeCall(c)
    BY <1>10, <2>2, ShortSequences
  <2>4. PICK f \in Call : f = FreezeCall(c) /\ f.call = "FreezeInspections" /\ f.cabin = c
    <3>1. FreezeCall(c) \in Call
      BY <1>4 DEF FreezeCall, Call
    <3>2. FreezeCall(c).call = "FreezeInspections" /\ FreezeCall(c).cabin = c
      BY DEF FreezeCall
    <3> QED
      BY <3>1, <3>2
  <2>5. PairSafe(f, l)'
    BY <1>7, <1>10, <2>1, <2>4 DEF PairSafe
  <2>6. Safe(todo[u])'
    BY <2>2, <2>4, <2>5 DEF Safe
  <2> QED
    BY <1>8, <1>10, <2>1, <2>3, <2>6
<1>11. CASE todo[u] = <<k>> /\ LastSafe(k)
  BY <1>3, <1>11 DEF LastSafe, SavesOpen, SavesInspection
<1> QED
  BY <1>1, <1>2, <1>9, <1>10, <1>11, NextSafe

\* An anomaly is saved: it is open, or was not any more, or its cabin is
\* restored.
LEMMA LockStoresAnomaly ==
    ASSUME NEW u \in Clients, TypeOK, LockInv(u), StoreAnomaly(u)
    PROVE  LockInv(u)'
<1>1. /\ todo[u] # <<>> /\ Safe(todo[u]) /\ Proceed(u, <<>>)
      /\ UNCHANGED <<cabin, inspection, issued>>
  BY DEF StoreAnomaly, AtCall, LockInv
<1>2. PICK k : k = Head(todo[u])
  OBVIOUS
<1>3. k.call = "SaveAnomaly" /\ k \in Call /\ k.anomaly \in AnomalyIDs
      /\ k.clone \in A!AnomalyRecord
  BY <1>1, <1>2, NextSafe, CallParts DEF StoreAnomaly, AtCall
<1>4. todo[u] = <<k>> /\ LastSafe(k)
  BY <1>1, <1>2, <1>3, NextSafe DEF PairSafe
<1>5. todo'[u] = <<>>
  BY <1>1, <1>4, LeftOfOne
<1> DEFINE i == k.anomaly
           a == k.clone
           c == k.clone.cabin
<1>6. anomaly'[i] = a /\ (\A j \in AnomalyIDs \ {i} : anomaly'[j] = anomaly[j]) /\ a # NoRecord
  BY <1>2, <1>3, NullAssumption DEF StoreAnomaly, TypeOK
<1>7. /\ anomaly[i] # NoRecord => anomaly[i].cabin = c
      /\ \/ ~A!IsTerminal(a)
         \/ anomaly[i] = NoRecord
         \/ A!IsTerminal(anomaly[i])
         \/ cabin[c] = "operational"
  BY <1>3, <1>4 DEF LastSafe, SavesOpen, SavesInspection
<1> HIDE DEF i, a, c
<1>8. Safe(todo[u])' /\ KeptInspections'
  BY <1>1, <1>5 DEF Safe, LockInv, KeptInspections
<1>9. \A d : OpenInspectionsForCabin(d)' = OpenInspectionsForCabin(d)
  BY <1>1 DEF OpenInspectionsForCabin
<1>10. ASSUME NEW d \in Cabins, OpenAnomaliesForCabin(d) # {}
       PROVE  cabin[d] = "operational" \/ OpenAnomaliesForCabin(d)' # {}
  <2>1. PICK j \in AnomalyIDs : /\ anomaly[j] # NoRecord /\ anomaly[j].cabin = d
                                /\ ~A!IsTerminal(anomaly[j])
    BY <1>10 DEF OpenAnomaliesForCabin
  <2>2. CASE j # i
    BY <1>6, <2>1, <2>2 DEF OpenAnomaliesForCabin
  <2>3. CASE j = i
    <3>1. c = d /\ (~A!IsTerminal(a) \/ cabin[d] = "operational")
      BY <1>7, <2>1, <2>3
    <3> QED
      BY <1>6, <2>1, <2>3, <3>1 DEF OpenAnomaliesForCabin, a, c
  <2> QED
    BY <2>2, <2>3
<1>11. ASSUME NEW d \in Cabins, Coming(todo[u], d)
       PROVE  OpenAnomaliesForCabin(d)' # {}
  <2>1. SavesOpen(k, d)
    BY <1>3, <1>4, <1>11, ShortSequences DEF Coming
  <2>2. a.cabin = d /\ ~A!IsTerminal(a)
    BY <2>1 DEF SavesOpen, a
  <2> QED
    BY <1>3, <1>6, <2>2 DEF OpenAnomaliesForCabin, i
<1>12. Sheltered(u)'
  BY <1>1, <1>9, <1>10, <1>11 DEF LockInv, Sheltered
<1>13. \A j : ~Freezing(todo[u], j)
  BY <1>1, <1>2, <1>3, OnlyFreezing
<1>14. FrozenClear(u)'
  BY <1>1, <1>13 DEF LockInv, FrozenClear
<1> QED
  BY <1>8, <1>12, <1>14 DEF LockInv

\* An inspection is saved.
LEMMA LockStoresInspection ==
    ASSUME NEW u \in Clients, TypeOK, LockInv(u), StoreInspection(u)
    PROVE  LockInv(u)'
<1>1. /\ todo[u] # <<>> /\ Safe(todo[u]) /\ Proceed(u, <<>>)
      /\ UNCHANGED <<cabin, anomaly, issued>>
  BY DEF StoreInspection, AtCall, LockInv
<1>2. PICK k : k = Head(todo[u])
  OBVIOUS
<1>3. k.call = "SaveInspection" /\ k \in Call
  BY <1>1, <1>2, NextSafe DEF StoreInspection, AtCall
<1>4. todo[u] = <<k>> /\ LastSafe(k)
  BY <1>1, <1>2, <1>3, NextSafe DEF PairSafe
<1>5. todo'[u] = <<>>
  BY <1>1, <1>4, LeftOfOne
<1> DEFINE i == k.inspection
           x == k.clone
           c == k.clone.cabin
<1>6. i \in InspectionIDs /\ x \in I!InspectionRecord /\ c \in Cabins
  BY <1>3 DEF Call, I!InspectionRecord
<1>7. /\ inspection'[i] = x /\ x # NoRecord
      /\ \A j \in InspectionIDs \ {i} : inspection'[j] = inspection[j]
  BY <1>2, <1>6, NullAssumption DEF StoreInspection, TypeOK
<1>8. /\ i \in issued
      /\ inspection[i] # NoRecord => inspection[i].cabin = c
      /\ I!IsClosed(x) => cabin[c] = "operational" \/ OpenAnomaliesForCabin(c) # {}
      /\ ~I!IsClosed(x) => cabin[c] # "frozen"
  BY <1>3, <1>4 DEF LastSafe, SavesOpen, SavesInspection
<1> HIDE DEF i, x, c
<1>9. Safe(todo[u])'
  BY <1>5 DEF Safe
<1>10. KeptInspections'
  BY <1>1, <1>7, <1>8 DEF LockInv, KeptInspections
<1>11. \A d : OpenAnomaliesForCabin(d)' = OpenAnomaliesForCabin(d)
  BY <1>1 DEF OpenAnomaliesForCabin
<1>12. ASSUME NEW d \in Cabins, OpenInspectionsForCabin(d) # {}, cabin[d] = "under_inspection"
       PROVE  OpenAnomaliesForCabin(d) # {} \/ OpenInspectionsForCabin(d)' # {}
  <2>1. PICK j \in InspectionIDs : /\ inspection[j] # NoRecord /\ inspection[j].cabin = d
                                   /\ ~I!IsClosed(inspection[j])
    BY <1>12 DEF OpenInspectionsForCabin
  <2>2. CASE j # i
    BY <1>7, <2>1, <2>2 DEF OpenInspectionsForCabin
  <2>3. CASE j = i /\ I!IsClosed(x)
    BY <1>8, <1>12, <2>1, <2>3
  <2>4. CASE j = i /\ ~I!IsClosed(x)
    BY <1>7, <1>8, <2>1, <2>4 DEF OpenInspectionsForCabin, x, c
  <2> QED
    BY <2>2, <2>3, <2>4
<1>13. ASSUME NEW d \in Cabins, Coming(todo[u], d)
       PROVE  cabin[d] = "under_inspection" /\ OpenInspectionsForCabin(d)' # {}
  <2>1. cabin[d] = "under_inspection" /\ ~I!IsClosed(x) /\ x.cabin = d
    BY <1>3, <1>4, <1>13, ShortSequences DEF Coming, SavesOpen, x
  <2> QED
    BY <1>6, <1>7, <2>1 DEF OpenInspectionsForCabin
<1>14. Sheltered(u)'
  BY <1>1, <1>11, <1>12, <1>13 DEF LockInv, Sheltered
<1>15. \A j : ~Freezing(todo[u], j)
  BY <1>1, <1>2, <1>3, OnlyFreezing
<1>16. FrozenClear(u)'
  <2> SUFFICES ASSUME NEW j \in InspectionIDs, inspection'[j] # NoRecord,
                      ~I!IsClosed(inspection'[j])
               PROVE  cabin[inspection'[j].cabin] # "frozen"
    BY <1>1 DEF FrozenClear
  <2>1. CASE j = i
    BY <1>7, <1>8, <2>1 DEF x, c
  <2>2. CASE j # i
    BY <1>7, <1>15, <2>2 DEF LockInv, FrozenClear
  <2> QED
    BY <2>1, <2>2
<1> QED
  BY <1>9, <1>10, <1>14, <1>16 DEF LockInv

\* The clone of a frozen inspection is saved, or there are none left.
LEMMA LockSavesFrozen ==
    ASSUME NEW u \in Clients, TypeOK, LockInv(u), SaveFrozen(u)
    PROVE  LockInv(u)'
<1>1. /\ todo[u] # <<>> /\ Safe(todo[u]) /\ UNCHANGED <<cabin, anomaly, issued>>
  BY DEF SaveFrozen, AtCall, LockInv
<1>2. PICK k : k = Head(todo[u])
  OBVIOUS
<1>3. k.call = "Freeze" /\ k \in Call /\ k.frozen \in SUBSET (InspectionIDs \X I!InspectionRecord)
  BY <1>1, <1>2, NextSafe DEF SaveFrozen, AtCall, Call
<1>4. PICK l \in Call : todo[u] = <<k, l>> /\ PairSafe(k, l)
  BY <1>1, <1>2, <1>3, NextSafe DEF LastSafe, SavesOpen, SavesInspection
<1>5. PICK c \in Cabins :
        /\ SavesOpen(l, c)
        /\ \A f \in k.frozen : /\ I!IsClosed(f[2]) /\ f[2].cabin = c
                               /\ inspection[f[1]] # NoRecord
                               /\ inspection[f[1]].cabin = c
  BY <1>3, <1>4 DEF PairSafe
<1>6. CASE k.frozen = {} /\ Proceed(u, <<>>) /\ UNCHANGED inspection
  <2>1. todo'[u] = <<l>>
    BY <1>4, <1>6, LeftOfTwo
  <2>2. Safe(todo'[u])
    BY <1>5, <2>1, SafeSequences DEF LastSafe
  <2>3. \A d \in Cabins : Coming(todo[u], d) => Coming(todo'[u], d)
    BY <1>4, <2>1, ShortSequences DEF Coming
  <2>4. \A i : ~Freezing(todo[u], i)
    BY <1>1, <1>2, <1>3, <1>6 DEF Freezing, FreezeCall
  <2> QED
    BY <1>1, <1>6, <2>2, <2>3, <2>4, LockSteps
<1>7. ASSUME NEW f \in k.frozen, inspection' = [inspection EXCEPT ![f[1]] = f[2]],
             Proceed(u, <<[call |-> "Freeze", frozen |-> k.frozen \ {f}]>>)
      PROVE  LockInv(u)'
  <2>1. f[1] \in InspectionIDs /\ f[2] \in I!InspectionRecord
    BY <1>3
  <2>2. PICK b : b = [call |-> "Freeze", frozen |-> k.frozen \ {f}]
    OBVIOUS
  <2>3. b \in Call /\ b.call = "Freeze" /\ b.frozen = k.frozen \ {f}
    BY <1>3, <2>2 DEF Call
  <2>4. todo'[u] = <<b, l>>
    BY <1>4, <1>7, <2>2, LeftOfTwo
  <2>5. /\ inspection'[f[1]] = f[2] /\ f[2] # NoRecord
        /\ \A j \in InspectionIDs \ {f[1]} : inspection'[j] = inspection[j]
    BY <1>7, <2>1, NullAssumption DEF TypeOK
  <2>6. \A j \in InspectionIDs : inspection[j] # NoRecord =>
             inspection'[j] # NoRecord /\ inspection'[j].cabin = inspection[j].cabin
    BY <1>5, <2>5
  <2>7. \A d : SavesOpen(l, d)' <=> SavesOpen(l, d)
    BY <1>1 DEF SavesOpen
  <2>8. PairSafe(b, l)'
    <3>1. \A g \in b.frozen : /\ I!IsClosed(g[2]) /\ g[2].cabin = c
                              /\ inspection'[g[1]] # NoRecord
                              /\ inspection'[g[1]].cabin = c
      BY <1>3, <1>5, <2>3, <2>6
    <3> QED
      BY <1>5, <2>3, <2>7, <3>1 DEF PairSafe
  <2>9. Safe(todo[u])'
    BY <2>3, <2>4, <2>8 DEF Safe
  <2>10. \A d : OpenAnomaliesForCabin(d)' = OpenAnomaliesForCabin(d)
    BY <1>1 DEF OpenAnomaliesForCabin
  <2>11. \A d : Coming(todo[u], d) => Coming(todo[u], d)'
    BY <1>1, <1>4, <2>4, <2>7, ShortSequences DEF Coming
  <2>12. Coming(todo[u], c)'
    BY <1>5, <2>4, <2>7, ShortSequences DEF Coming
  <2>13. \A d \in Cabins \ {c} :
             OpenInspectionsForCabin(d) # {} => OpenInspectionsForCabin(d)' # {}
    <3> SUFFICES ASSUME NEW d \in Cabins \ {c}, NEW j \in OpenInspectionsForCabin(d)
                 PROVE  j \in OpenInspectionsForCabin(d)'
      OBVIOUS
    <3>1. j \in InspectionIDs /\ j # f[1]
      BY <1>5 DEF OpenInspectionsForCabin
    <3> QED
      BY <2>5, <3>1 DEF OpenInspectionsForCabin
  <2>14. Sheltered(u)'
    BY <1>1, <2>10, <2>11, <2>12, <2>13 DEF LockInv, Sheltered
  <2>15. FrozenClear(u)'
    <3> SUFFICES ASSUME NEW j \in InspectionIDs, inspection'[j] # NoRecord,
                        ~I!IsClosed(inspection'[j]), cabin[inspection'[j].cabin] = "frozen"
                 PROVE  Freezing(todo[u], j)'
      BY <1>1 DEF FrozenClear
    <3>1. j # f[1] /\ inspection'[j] = inspection[j]
      BY <1>5, <2>5
    <3>2. Freezing(todo[u], j)
      BY <3>1 DEF LockInv, FrozenClear
    <3>3. PICK g \in k.frozen : g[1] = j
      BY <1>2, <1>3, <3>2 DEF Freezing, FreezeCall
    <3>4. g \in b.frozen
      BY <2>3, <3>1, <3>3
    <3> QED
      BY <2>3, <2>4, <3>3, <3>4, ShortSequences DEF Freezing
  <2>16. KeptInspections'
    BY <1>1, <1>5, <2>5 DEF LockInv, KeptInspections
  <2> QED
    BY <2>9, <2>14, <2>15, <2>16 DEF LockInv
<1> QED
  BY <1>2, <1>6, <1>7 DEF SaveFrozen

-----------------------------------------------------------------------------
(* The run flows_alone, for every number of cabins and IDs                 *)
(*                                                                         *)
(* One request at a time keeps what the flows over a cabin are for.  With  *)
(* requests that overlap the code does not keep it.                        *)

\* Goroutine u makes request after request, and no worker is about.
LoneCaller(u) == Callers = {u} /\ Workers = {}

LoneInv(u) == FlowsInv /\ LoopInv(u) /\ LockInv(u)

LEMMA LoneStarts == ASSUME NEW u, LoneCaller(u) PROVE Init => LoneInv(u)
<1> SUFFICES ASSUME Init PROVE LoneInv(u)
  OBVIOUS
<1>1. todo[u] = <<>> /\ Stored(order) = {}
  BY DEF Init, LoneCaller, Clients, Stored
<1>2. LoopInv(u)
  BY <1>1 DEF LoopInv, Orderly, ClosedOrdersSettled
<1>3. LockInv(u)
  BY <1>1 DEF Init, LockInv, Safe, Sheltered, FrozenClear, KeptInspections
<1> QED
  BY <1>2, <1>3, InitSound DEF LoneInv

LEMMA LoneStep ==
    ASSUME NEW u, LoneCaller(u)
    PROVE  LoneInv(u) /\ [Next]_vars => LoneInv(u)'
<1> SUFFICES ASSUME LoneInv(u), [Next]_vars PROVE LoneInv(u)'
  OBVIOUS
<1>0. /\ u \in Clients /\ TypeOK /\ KeptIssued /\ LoopInv(u) /\ LockInv(u)
      /\ Request(u) \/ Continue(u) \/ Tick \/ UNCHANGED vars
  BY FlowsTyped, FlowsKeepIssued DEF LoneInv, LoneCaller, Clients, Next
<1>1. FlowsInv'
  BY NextSound DEF LoneInv
<1>2. CASE Request(u)
  BY <1>0, <1>1, <1>2, LoneRequests, LockRequests DEF LoneInv
<1>3. CASE Continue(u)
  <2>1. LoopInv(u)'
    BY <1>0, <1>3, LoneAcknowledges, LoneResolves, LoneStoresAnomaly, LoneStoresWorkOrder,
       LoneNeutral DEF Continue
  <2>2. LockInv(u)'
    BY <1>0, <1>3, LockLookups, LockStoresCabin, LockStoresAnomaly, LockStoresInspection,
       LockSavesFrozen DEF Continue
  <2> QED
    BY <1>1, <2>1, <2>2 DEF LoneInv
<1>4. CASE Tick \/ UNCHANGED vars
  <2>1. UNCHANGED <<cabin, anomaly, inspection, order, issued, todo>>
    BY <1>4 DEF Tick, store, vars
  <2>2. LoopInv(u)'
    <3>1. (Orderly(todo[u]) \/ Closing(todo[u]))'
      BY <1>0, <2>1 DEF LoopInv, Orderly, Closing, LastCalls, LinkStored, Resolved
    <3>2. ClosedOrdersSettled(u)'
      BY <1>0, <2>1 DEF LoopInv, ClosedOrdersSettled, Settles, Resolved, LinkStored, Stored
    <3> QED
      BY <3>1, <3>2 DEF LoopInv
  <2>3. Safe(todo[u])'
    <3>1. PICK t : t = todo[u] /\ Safe(t)
      BY <1>0 DEF LockInv
    <3>2. Safe(t)'
      BY <2>1, <3>1, SafeStays
    <3> QED
      BY <2>1, <3>1, <3>2 DEF Safe
  <2>4. LockInv(u)'
    BY <1>0, <2>1, <2>3 DEF LockInv, Sheltered, FrozenClear, KeptInspections, Coming, SavesOpen,
                            Freezing, OpenAnomaliesForCabin, OpenInspectionsForCabin
  <2> QED
    BY <1>1, <2>2, <2>4 DEF LoneInv
<1> QED
  BY <1>0, <1>2, <1>3, <1>4

LEMMA LoneHolds == ASSUME NEW u, LoneCaller(u) PROVE Spec => []LoneInv(u)
BY LoneStarts, LoneStep, PTL DEF Spec

\* A lone goroutine closes no order over an open anomaly but for the moment
\* until it has resolved it.
THEOREM ClosedLoopAlone == ASSUME NEW u, LoneCaller(u) PROVE Spec => []ClosedLoop
<1>1. LoneInv(u) => ClosedLoop
  BY DEF LoneInv, LoneCaller, Clients, LoopInv, ClosedOrdersSettled, Settles, Resolved,
         ClosedLoop, Quiet
<1> QED
  BY <1>1, LoneHolds, PTL

\* A lone goroutine leaves no cabin locked that could not be brought back.
THEOREM NoStrandedCabinAlone == ASSUME NEW u, LoneCaller(u) PROVE Spec => []NoStrandedCabin
<1>1. LoneInv(u) => NoStrandedCabin
  BY DEF LoneInv, LoneCaller, Clients, LockInv, Sheltered, Coming, NoStrandedCabin, Quiet
<1> QED
  BY <1>1, LoneHolds, PTL

\* A lone goroutine leaves no inspection open in a cabin that a report froze.
THEOREM FrozenCabinClearAlone == ASSUME NEW u, LoneCaller(u) PROVE Spec => []FrozenCabinClear
<1>1. LoneInv(u) => FrozenCabinClear
  <2>1. LoneInv(u) => DOMAIN inspection = InspectionIDs
    BY FlowsTyped DEF LoneInv, TypeOK
  <2> QED
    BY <2>1 DEF LoneInv, LoneCaller, Clients, LockInv, FrozenClear, Freezing, FrozenCabinClear,
                Quiet, Stored
<1> QED
  BY <1>1, LoneHolds, PTL

=============================================================================
