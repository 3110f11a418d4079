--------------------------- MODULE Backend_proofs ---------------------------
(***************************************************************************)
(* Theorems about the life of the process and their proofs.                *)
(*                                                                         *)
(* A snapshot may come between any two saves of a request and the process  *)
(* end after it, so what holds of the data file must hold of the store     *)
(* after every single save.  Allowed(s, i) are the saves that keep a sound *)
(* store s sound, where i is the black start that the request is about.    *)
(* The proof shows that every route asks for allowed saves only (the route *)
(* lemmas), that an allowed save leaves the store sound and the saves      *)
(* behind it allowed (SaveKeepsSound), and that the save the worker has    *)
(* prepared stays allowed whatever a request saves before it               *)
(* (OtherSavesAllowed).                                                    *)
(*                                                                         *)
(* The theorems about steps need to know more of the saves of a request    *)
(* than that they are allowed.  Routed says it, kind of route by kind of   *)
(* route, and Locking relates the saves that a Level-1 report has still to *)
(* make to what is locked already.                                         *)
(***************************************************************************)
EXTENDS Backend, SequenceTheorems, TLAPS

-----------------------------------------------------------------------------
(* The methods of the entities return records of the right shape.          *)

LEMMA InspectionMethods ==
    ASSUME NEW r \in I!InspectionRecord
    PROVE  /\ I!Start(r) \in I!InspectionRecord
           /\ I!UploadPhoto(r) \in I!InspectionRecord
           /\ \A p \in Inspectors : I!Review(r, p) \in I!InspectionRecord
           /\ I!Complete(r) \in I!InspectionRecord
           /\ I!Freeze(r) \in I!InspectionRecord
BY DEF I!InspectionRecord, I!InspectionState, I!Start, I!UploadPhoto, I!Review,
       I!Complete, I!Freeze, I!IsClosed

LEMMA NewInspectionTyped ==
    \A c \in Cabins, p \in Inspectors : I!NewInspection(c, p) \in I!InspectionRecord
BY DEF I!InspectionRecord, I!InspectionState, I!NewInspection

LEMMA AnomalyMethods ==
    ASSUME NEW a \in A!AnomalyRecord, NEW t \in Nat
    PROVE  /\ A!Acknowledge(a, t) \in A!AnomalyRecord
           /\ A!Escalate(a) \in A!AnomalyRecord
           /\ A!Isolate(a) \in A!AnomalyRecord
           /\ A!Resolve(a) \in A!AnomalyRecord
BY DEF A!AnomalyRecord, A!AnomalyState, A!Acknowledge, A!Escalate, A!Isolate, A!Resolve

LEMMA NewAnomalyTyped ==
    \A c \in Cabins, level \in Levels, t \in Nat : A!NewAnomaly(c, level, t) \in A!AnomalyRecord
BY LevelsAssumption DEF A!AnomalyRecord, A!AnomalyState, A!NewAnomaly

LEMMA OrderMethods ==
    ASSUME NEW w \in W!WorkOrderRecord
    PROVE  W!Start(w) \in W!WorkOrderRecord
BY DEF W!WorkOrderRecord, W!WorkOrderState, W!Start

LEMMA NewOrderTyped ==
    \A c \in Cabins, linked \in IDs \cup {NoAnomaly}, p \in Inspectors :
        W!NewWorkOrder(c, linked, p) \in W!WorkOrderRecord
BY DEF W!WorkOrderRecord, W!WorkOrderState, W!NewWorkOrder

LEMMA BlackStartMethods ==
    ASSUME NEW b \in B!BlackStartRecord
    PROVE  /\ \A role \in B!Roles, p \in Principals :
                 B!Authorize(b, role, p) \in B!BlackStartRecord
           /\ B!BeginExecution(b) \in B!BlackStartRecord
           /\ B!Complete(b) \in B!BlackStartRecord
           /\ B!Rollback(b) \in B!BlackStartRecord
BY DEF B!BlackStartRecord, B!BlackStartState, B!Authorize, B!BeginExecution, B!Complete,
       B!Rollback

LEMMA NewBlackStartTyped ==
    \A plan \in Plans : B!NewBlackStart(plan) \in B!BlackStartRecord
BY PlansAssumption DEF B!BlackStartRecord, B!BlackStartState, B!NewBlackStart

LEMMA GridSyncMethods ==
    ASSUME NEW g \in G!GridSyncRecord
    PROVE  /\ G!BeginSyncing(g) \in G!GridSyncRecord
           /\ \A m \in Readings : G!Verify(g, m) \in G!GridSyncRecord
           /\ G!Connect(g) \in G!GridSyncRecord
           /\ G!BeginRetest(g) \in G!GridSyncRecord
           /\ \A m \in Readings : G!Verify(g, m).blackStart = g.blackStart
<1>1. ASSUME NEW m \in Readings
      PROVE  G!Verify(g, m) \in G!GridSyncRecord /\ G!Verify(g, m).blackStart = g.blackStart
  <2>1. m \in SUBSET G!Parameters
    BY ReadingsAssumption
  <2>2. G!faultCodeFor(m) \in G!FaultCodes
    BY DEF G!faultCodeFor, G!FaultCodes
  <2>3. CASE ~G!CanVerify(g)
    BY <2>3 DEF G!Verify
  <2>4. CASE G!CanVerify(g) /\ G!Within(m)
    BY <2>1, <2>4 DEF G!Verify, G!GridSyncRecord, G!GridSyncState, G!NoFault
  <2>5. CASE G!CanVerify(g) /\ ~G!Within(m)
    <3> DEFINE h == [g EXCEPT !.reading = m]
    <3>1. h \in G!GridSyncRecord /\ h.blackStart = g.blackStart
      BY <2>1 DEF G!GridSyncRecord
    <3>2. G!Verify(g, m) = G!fail(h, m)
      BY <2>5 DEF G!Verify
    <3>3. G!fail(h, m) \in G!GridSyncRecord /\ G!fail(h, m).blackStart = h.blackStart
      <4> HIDE DEF h
      <4>1. h.attempt + 1 \in Nat
        BY <3>1 DEF G!GridSyncRecord
      <4> QED
        BY <2>2, <3>1, <4>1 DEF G!fail, G!GridSyncRecord, G!GridSyncState
    <3> QED
      BY <3>1, <3>2, <3>3
  <2> QED
    BY <2>3, <2>4, <2>5
<1> QED
  BY <1>1 DEF G!BeginSyncing, G!Connect, G!BeginRetest, G!GridSyncRecord, G!GridSyncState

LEMMA NewGridSyncTyped ==
    \A b \in Bindings : G!NewGridSync(b) \in G!GridSyncRecord
BY BindingsAssumption DEF G!NewGridSync, G!GridSyncRecord, G!GridSyncState

-----------------------------------------------------------------------------
(* Sound stores and the saves that keep them sound.                        *)

References(s) ==
    \A i \in IDs :
        /\ s.inspection[i] # None => s.cabin[s.inspection[i].cabin] # None
        /\ s.anomaly[i] # None => s.cabin[s.anomaly[i].cabin] # None
        /\ s.order[i] # None => s.cabin[s.order[i].cabin] # None
        /\ s.blackStart[i] # None
              => \A c \in B!Participants(s.blackStart[i]) : s.cabin[c] # None
        /\ s.gridSync[i] # None /\ s.gridSync[i].blackStart # Standalone
              => s.blackStart[s.gridSync[i].blackStart] # None

Unsubmitted(w) == w.state \in {"open", "in_progress"} /\ w.signedBy = NoOne

\* What the data file may hold.
Sound(s) ==
    /\ s \in Store
    /\ References(s)
    /\ \A i \in IDs : s.order[i] # None => Unsubmitted(s.order[i])
    /\ \A i, j \in ActiveBlackStarts(s) : i = j

Allowed(s, i) ==
    {save \in Saves :
        /\ save.kind \in {"inspection", "anomaly", "order"} => s.cabin[save.value.cabin] # None
        /\ save.kind = "order" => Unsubmitted(save.value)
        /\ save.kind = "blackStart"
              => /\ save.id = i
                 /\ \A c \in B!Participants(save.value) : s.cabin[c] # None
                 /\ B!IsTerminal(save.value) \/ ActiveBlackStarts(s) \subseteq {i}
        /\ save.kind = "gridSync" /\ save.value.blackStart # Standalone
              => s.blackStart[save.value.blackStart] # None}

\* A save replaces one entry of one map, and no entry becomes None.
LEMMA ApplyByKind ==
    ASSUME NEW s \in Store, NEW save \in Saves
    PROVE  /\ Apply(s, save) \in Store
           /\ save.kind = "cabin"
                => /\ save.id \in Cabins /\ save.value \in CabinStatus
                   /\ Apply(s, save) = [s EXCEPT !.cabin[save.id] = save.value]
           /\ save.kind = "inspection"
                => /\ save.id \in IDs /\ save.value \in I!InspectionRecord
                   /\ Apply(s, save) = [s EXCEPT !.inspection[save.id] = save.value]
           /\ save.kind = "anomaly"
                => /\ save.id \in IDs /\ save.value \in A!AnomalyRecord
                   /\ Apply(s, save) = [s EXCEPT !.anomaly[save.id] = save.value]
           /\ save.kind = "order"
                => /\ save.id \in IDs /\ save.value \in W!WorkOrderRecord
                   /\ Apply(s, save) = [s EXCEPT !.order[save.id] = save.value]
           /\ save.kind = "blackStart"
                => /\ save.id \in IDs /\ save.value \in B!BlackStartRecord
                   /\ Apply(s, save) = [s EXCEPT !.blackStart[save.id] = save.value]
           /\ save.kind = "gridSync"
                => /\ save.id \in IDs /\ save.value \in G!GridSyncRecord
                   /\ Apply(s, save) = [s EXCEPT !.gridSync[save.id] = save.value]
<1>1. CASE save.kind = "cabin"
  BY <1>1 DEF Saves, Store, Apply
<1>2. CASE save.kind = "inspection"
  BY <1>2 DEF Saves, Store, Apply
<1>3. CASE save.kind = "anomaly"
  BY <1>3 DEF Saves, Store, Apply
<1>4. CASE save.kind = "order"
  BY <1>4 DEF Saves, Store, Apply
<1>5. CASE save.kind = "blackStart"
  BY <1>5 DEF Saves, Store, Apply
<1>6. CASE save.kind = "gridSync"
  BY <1>6 DEF Saves, Store, Apply
<1>7. save.kind \in {"cabin", "inspection", "anomaly", "order", "blackStart", "gridSync"}
  BY DEF Saves
<1> QED
  BY <1>1, <1>2, <1>3, <1>4, <1>5, <1>6, <1>7

LEMMA NothingLost ==
    ASSUME NEW s \in Store, NEW save \in Saves
    PROVE  /\ \A c \in Cabins : s.cabin[c] # None => Apply(s, save).cabin[c] # None
           /\ \A i \in IDs : s.blackStart[i] # None => Apply(s, save).blackStart[i] # None
<1>1. CASE save.kind = "cabin"
  BY <1>1, ApplyByKind, NullAssumption DEF Store
<1>2. CASE save.kind = "blackStart"
  BY <1>2, ApplyByKind, NullAssumption DEF Store
<1>3. CASE save.kind \in {"inspection", "anomaly", "order", "gridSync"}
  BY <1>3, ApplyByKind DEF Store
<1>4. save.kind \in {"cabin", "inspection", "anomaly", "order", "blackStart", "gridSync"}
  BY DEF Saves
<1> QED
  BY <1>1, <1>2, <1>3, <1>4

\* The active black starts after a save.
LEMMA ActiveAfter ==
    ASSUME NEW s \in Store, NEW i, NEW save \in Allowed(s, i)
    PROVE  /\ save.kind # "blackStart"
                => ActiveBlackStarts(Apply(s, save)) = ActiveBlackStarts(s)
           /\ save.kind = "blackStart"
                => /\ ActiveBlackStarts(s) \subseteq {i}
                        => ActiveBlackStarts(Apply(s, save)) \subseteq {i}
                   /\ \/ ActiveBlackStarts(s) \subseteq {i}
                      \/ ActiveBlackStarts(Apply(s, save)) \subseteq ActiveBlackStarts(s)
<1>0. save \in Saves
  BY DEF Allowed
<1>1. ASSUME save.kind # "blackStart"
      PROVE  Apply(s, save).blackStart = s.blackStart
  <2>1. save.kind \in {"cabin", "inspection", "anomaly", "order", "gridSync"}
    BY <1>0, <1>1 DEF Saves
  <2> QED
    BY <1>0, <2>1, ApplyByKind DEF Store
<1>2. CASE save.kind # "blackStart"
  BY <1>1, <1>2 DEF ActiveBlackStarts
<1>3. CASE save.kind = "blackStart"
  <2>1. /\ save.id = i /\ i \in IDs
        /\ B!IsTerminal(save.value) \/ ActiveBlackStarts(s) \subseteq {i}
    BY <1>0, <1>3, ApplyByKind DEF Allowed
  <2>2. /\ Apply(s, save).blackStart[i] = save.value
        /\ \A j \in IDs \ {i} : Apply(s, save).blackStart[j] = s.blackStart[j]
    BY <1>0, <1>3, <2>1, ApplyByKind DEF Store
  <2> QED
    BY <1>3, <2>1, <2>2 DEF ActiveBlackStarts
<1> QED
  BY <1>2, <1>3

LEMMA SaveKeepsReferences ==
    ASSUME NEW s \in Store, References(s), NEW i, NEW save \in Allowed(s, i)
    PROVE  References(Apply(s, save))
<1> DEFINE t == Apply(s, save)
<1>0. save \in Saves
  BY DEF Allowed
<1>1. t \in Store
  BY <1>0, ApplyByKind
<1>2. /\ \A c \in Cabins : s.cabin[c] # None => t.cabin[c] # None
      /\ \A j \in IDs : s.blackStart[j] # None => t.blackStart[j] # None
  BY <1>0, NothingLost
<1>3. ASSUME NEW j \in IDs, t.inspection[j] # None
      PROVE  t.cabin[t.inspection[j].cabin] # None
  <2>1. t.inspection[j].cabin \in Cabins
    BY <1>1, <1>3 DEF Store, I!InspectionRecord
  <2>2. CASE t.inspection[j] = s.inspection[j]
    BY <1>2, <1>3, <2>1, <2>2 DEF References
  <2>3. CASE t.inspection[j] # s.inspection[j]
    <3>1. save.kind = "inspection" /\ t.inspection[j] = save.value
      BY <1>0, <2>3, ApplyByKind DEF Store, Saves
    <3> QED
      BY <1>2, <2>1, <3>1 DEF Allowed
  <2> QED
    BY <2>2, <2>3
<1>4. ASSUME NEW j \in IDs, t.anomaly[j] # None
      PROVE  t.cabin[t.anomaly[j].cabin] # None
  <2>1. t.anomaly[j].cabin \in Cabins
    BY <1>1, <1>4 DEF Store, A!AnomalyRecord
  <2>2. CASE t.anomaly[j] = s.anomaly[j]
    BY <1>2, <1>4, <2>1, <2>2 DEF References
  <2>3. CASE t.anomaly[j] # s.anomaly[j]
    <3>1. save.kind = "anomaly" /\ t.anomaly[j] = save.value
      BY <1>0, <2>3, ApplyByKind DEF Store, Saves
    <3> QED
      BY <1>2, <2>1, <3>1 DEF Allowed
  <2> QED
    BY <2>2, <2>3
<1>5. ASSUME NEW j \in IDs, t.order[j] # None
      PROVE  t.cabin[t.order[j].cabin] # None
  <2>1. t.order[j].cabin \in Cabins
    BY <1>1, <1>5 DEF Store, W!WorkOrderRecord
  <2>2. CASE t.order[j] = s.order[j]
    BY <1>2, <1>5, <2>1, <2>2 DEF References
  <2>3. CASE t.order[j] # s.order[j]
    <3>1. save.kind = "order" /\ t.order[j] = save.value
      BY <1>0, <2>3, ApplyByKind DEF Store, Saves
    <3> QED
      BY <1>2, <2>1, <3>1 DEF Allowed
  <2> QED
    BY <2>2, <2>3
<1>6. ASSUME NEW j \in IDs, t.blackStart[j] # None, NEW c \in B!Participants(t.blackStart[j])
      PROVE  t.cabin[c] # None
  <2>1. c \in Cabins
    BY <1>1, <1>6 DEF Store, B!BlackStartRecord, B!Participants
  <2>2. CASE t.blackStart[j] = s.blackStart[j]
    BY <1>2, <1>6, <2>1, <2>2 DEF References
  <2>3. CASE t.blackStart[j] # s.blackStart[j]
    <3>1. save.kind = "blackStart" /\ t.blackStart[j] = save.value
      BY <1>0, <2>3, ApplyByKind DEF Store, Saves
    <3> QED
      BY <1>2, <1>6, <2>1, <3>1 DEF Allowed
  <2> QED
    BY <2>2, <2>3
<1>7. ASSUME NEW j \in IDs, t.gridSync[j] # None, t.gridSync[j].blackStart # Standalone
      PROVE  t.blackStart[t.gridSync[j].blackStart] # None
  <2>1. t.gridSync[j].blackStart \in IDs
    BY <1>1, <1>7 DEF Store, G!GridSyncRecord
  <2>2. CASE t.gridSync[j] = s.gridSync[j]
    BY <1>2, <1>7, <2>1, <2>2 DEF References
  <2>3. CASE t.gridSync[j] # s.gridSync[j]
    <3>1. save.kind = "gridSync" /\ t.gridSync[j] = save.value
      BY <1>0, <2>3, ApplyByKind DEF Store, Saves
    <3> QED
      BY <1>2, <1>7, <2>1, <3>1 DEF Allowed
  <2> QED
    BY <2>2, <2>3
<1> HIDE DEF t
<1>8. References(t)
  BY <1>3, <1>4, <1>5, <1>6, <1>7 DEF References
<1> QED
  BY <1>8 DEF t

\* The save of a sound store that it allows: the store stays sound, and what else
\* the request is about to save stays allowed.
LEMMA SaveKeepsSound ==
    ASSUME NEW s, Sound(s), NEW i, NEW save \in Allowed(s, i)
    PROVE  /\ Sound(Apply(s, save))
           /\ Allowed(s, i) \subseteq Allowed(Apply(s, save), i)
           /\ save.kind # "blackStart"
                => \A j : Allowed(s, j) \subseteq Allowed(Apply(s, save), j)
<1> DEFINE t == Apply(s, save)
<1>0. s \in Store /\ save \in Saves
  BY DEF Allowed, Sound
<1>1. t \in Store
  BY <1>0, ApplyByKind
<1>2. References(t)
  BY <1>0, SaveKeepsReferences DEF Sound
<1>3. ASSUME NEW j \in IDs, t.order[j] # None
      PROVE  Unsubmitted(t.order[j])
  <2>1. CASE t.order[j] = s.order[j]
    BY <1>3, <2>1 DEF Sound
  <2>2. CASE t.order[j] # s.order[j]
    <3>1. save.kind = "order" /\ t.order[j] = save.value
      BY <1>0, <2>2, ApplyByKind DEF Store, Saves
    <3> QED
      BY <3>1 DEF Allowed
  <2> QED
    BY <2>1, <2>2
<1>4. \A j, k \in ActiveBlackStarts(t) : j = k
  <2>1. \/ ActiveBlackStarts(t) \subseteq ActiveBlackStarts(s)
        \/ ActiveBlackStarts(t) \subseteq {i}
    BY <1>0, ActiveAfter
  <2> QED
    BY <2>1 DEF Sound
<1>5. /\ \A c \in Cabins : s.cabin[c] # None => t.cabin[c] # None
      /\ \A j \in IDs : s.blackStart[j] # None => t.blackStart[j] # None
  BY <1>0, NothingLost
<1>6. ASSUME NEW j, NEW other \in Allowed(s, j), save.kind = "blackStart" => j = i
      PROVE  other \in Allowed(t, j)
  <2>0. other \in Saves
    BY <1>6 DEF Allowed
  <2>1. CASE other.kind = "cabin"
    BY <2>0, <2>1 DEF Allowed
  <2>2. CASE other.kind \in {"inspection", "anomaly", "order"}
    <3>1. other.value.cabin \in Cabins
      BY <2>0, <2>2 DEF Saves, I!InspectionRecord, A!AnomalyRecord, W!WorkOrderRecord
    <3>2. t.cabin[other.value.cabin] # None
      BY <1>5, <1>6, <2>2, <3>1 DEF Allowed
    <3> QED
      BY <1>6, <2>0, <2>2, <3>2 DEF Allowed
  <2>3. CASE other.kind = "blackStart"
    <3>1. B!Participants(other.value) \subseteq Cabins
      BY <1>0, <2>0, <2>3, ApplyByKind DEF B!Participants, B!BlackStartRecord
    <3>2. \A c \in B!Participants(other.value) : t.cabin[c] # None
      BY <1>5, <1>6, <2>3, <3>1 DEF Allowed
    <3>3. ActiveBlackStarts(s) \subseteq {j} => ActiveBlackStarts(t) \subseteq {j}
      BY <1>0, <1>6, ActiveAfter
    <3> QED
      BY <1>6, <2>0, <2>3, <3>2, <3>3 DEF Allowed
  <2>4. CASE other.kind = "gridSync"
    <3>1. other.value.blackStart \in IDs \cup {Standalone}
      BY <1>0, <2>0, <2>4, ApplyByKind DEF G!GridSyncRecord
    <3> QED
      BY <1>5, <1>6, <2>0, <2>4, <3>1 DEF Allowed
  <2> QED
    BY <2>0, <2>1, <2>2, <2>3, <2>4 DEF Saves
<1> HIDE DEF t
<1>7. Sound(t)
  BY <1>1, <1>2, <1>3, <1>4 DEF Sound
<1>8. Allowed(s, i) \subseteq Allowed(t, i)
  BY <1>6
<1>9. ASSUME save.kind # "blackStart", NEW j
      PROVE  Allowed(s, j) \subseteq Allowed(t, j)
  BY <1>6, <1>9
<1> QED
  BY <1>7, <1>8, <1>9 DEF t

-----------------------------------------------------------------------------
(* Every route asks for allowed saves only.                                *)

Fine(s, answer) ==
    /\ answer.code \in Nat
    /\ \E i : answer.saves \in Seq(SUBSET Allowed(s, i))

LEMMA SavesFine ==
    ASSUME NEW s, NEW i, NEW saves \in Seq(SUBSET Allowed(s, i)), NEW code \in Nat
    PROVE  Fine(s, Answer(code, saves)) /\ Fine(s, Created(saves))
BY DEF Fine, Answer, Created

LEMMA RefusalFine ==
    ASSUME NEW s, NEW code \in Nat
    PROVE  Fine(s, Refuse(code))
<1>1. <<>> \in Seq(SUBSET Allowed(s, 0))
  OBVIOUS
<1> QED
  BY <1>1 DEF Fine, Refuse, Answer

LEMMA OneSaveFine ==
    ASSUME NEW s, NEW i, NEW save \in Allowed(s, i), NEW code \in Nat
    PROVE  Fine(s, Answer(code, <<{save}>>)) /\ Fine(s, Created(<<{save}>>))
<1>1. <<{save}>> \in Seq(SUBSET Allowed(s, i))
  <2>1. {save} \in SUBSET Allowed(s, i)
    OBVIOUS
  <2> QED
    BY <2>1
<1> QED
  BY <1>1 DEF Fine, Answer, Created

LEMMA TwoSavesFine ==
    ASSUME NEW s, NEW i, NEW save \in Allowed(s, i), NEW other \in Allowed(s, i),
           NEW code \in Nat
    PROVE  /\ Fine(s, Answer(code, <<{save}, {other}>>))
           /\ Fine(s, Created(<<{save}, {other}>>))
<1>1. <<{save}, {other}>> \in Seq(SUBSET Allowed(s, i))
  <2>1. {save} \in SUBSET Allowed(s, i) /\ {other} \in SUBSET Allowed(s, i)
    OBVIOUS
  <2> QED
    BY <2>1
<1> QED
  BY <1>1 DEF Fine, Answer, Created

LEMMA MethodFine ==
    ASSUME NEW s, NEW kind, NEW i, NEW accepted, NEW result, NEW j,
           Save(kind, i, result) \in Allowed(s, j)
    PROVE  Fine(s, Method(s, kind, i, accepted, result))
<1>1. CASE s[kind][i] = None \/ ~accepted
  BY <1>1, RefusalFine DEF Method
<1>2. CASE s[kind][i] # None /\ accepted
  <2>1. Method(s, kind, i, accepted, result) = Answer(200, <<{Save(kind, i, result)}>>)
    BY <1>2 DEF Method
  <2> QED
    BY <2>1, OneSaveFine
<1> QED
  BY <1>1, <1>2

\* When a save of each kind is allowed.
LEMMA AllowedSaves ==
    ASSUME NEW s, Sound(s), NEW n \in IDs, NEW i
    PROVE  /\ \A c \in Cabins, v \in CabinStatus : Save("cabin", c, v) \in Allowed(s, i)
           /\ \A v \in I!InspectionRecord :
                 s.cabin[v.cabin] # None => Save("inspection", n, v) \in Allowed(s, i)
           /\ \A v \in A!AnomalyRecord :
                 s.cabin[v.cabin] # None => Save("anomaly", n, v) \in Allowed(s, i)
           /\ \A v \in W!WorkOrderRecord :
                 s.cabin[v.cabin] # None /\ Unsubmitted(v)
                    => Save("order", n, v) \in Allowed(s, i)
           /\ \A v \in G!GridSyncRecord :
                 (v.blackStart # Standalone => s.blackStart[v.blackStart] # None)
                    => Save("gridSync", n, v) \in Allowed(s, i)
           /\ \A v \in B!BlackStartRecord :
                 (\A c \in B!Participants(v) : s.cabin[c] # None)
                    => (B!IsTerminal(v) \/ ActiveBlackStarts(s) \subseteq {n}
                          => Save("blackStart", n, v) \in Allowed(s, n))
<1>1. \A c \in Cabins, v \in CabinStatus : Save("cabin", c, v) \in Allowed(s, i)
  BY DEF Allowed, Saves, Save
<1>2. \A v \in I!InspectionRecord :
         s.cabin[v.cabin] # None => Save("inspection", n, v) \in Allowed(s, i)
  BY DEF Allowed, Saves, Save
<1>3. \A v \in A!AnomalyRecord :
         s.cabin[v.cabin] # None => Save("anomaly", n, v) \in Allowed(s, i)
  BY DEF Allowed, Saves, Save
<1>4. \A v \in W!WorkOrderRecord :
         s.cabin[v.cabin] # None /\ Unsubmitted(v) => Save("order", n, v) \in Allowed(s, i)
  BY DEF Allowed, Saves, Save
<1>5. \A v \in G!GridSyncRecord :
         (v.blackStart # Standalone => s.blackStart[v.blackStart] # None)
            => Save("gridSync", n, v) \in Allowed(s, i)
  BY DEF Allowed, Saves, Save
<1>6. \A v \in B!BlackStartRecord :
         (\A c \in B!Participants(v) : s.cabin[c] # None)
            => (B!IsTerminal(v) \/ ActiveBlackStarts(s) \subseteq {n}
                  => Save("blackStart", n, v) \in Allowed(s, n))
  BY DEF Allowed, Saves, Save
<1> QED
  BY <1>1, <1>2, <1>3, <1>4, <1>5, <1>6

LEMMA InspectionRoutes ==
    ASSUME NEW s, Sound(s), NEW i \in IDs
    PROVE  /\ Fine(s, startInspection(s, i))
           /\ Fine(s, uploadPhoto(s, i))
           /\ \A inspector \in Inspectors : Fine(s, reviewInspection(s, i, inspector))
           /\ Fine(s, completeInspection(s, i))
<1>1. CASE s.inspection[i] = None
  BY <1>1, RefusalFine DEF startInspection, uploadPhoto, reviewInspection, completeInspection,
     Method
<1>2. CASE s.inspection[i] # None
  <2> DEFINE r == s.inspection[i]
  <2>1. /\ r \in I!InspectionRecord /\ r.cabin \in Cabins /\ s.cabin[r.cabin] # None
        /\ s.cabin[r.cabin] \in CabinStatus
    BY <1>2 DEF Sound, Store, References, I!InspectionRecord
  <2>2. ASSUME NEW v \in I!InspectionRecord, v.cabin = r.cabin
        PROVE  Save("inspection", i, v) \in Allowed(s, 0)
    BY <2>1, <2>2, AllowedSaves
  <2>3. /\ Save("inspection", i, I!Start(r)) \in Allowed(s, 0)
        /\ Save("inspection", i, I!UploadPhoto(r)) \in Allowed(s, 0)
        /\ \A p \in Inspectors : Save("inspection", i, I!Review(r, p)) \in Allowed(s, 0)
        /\ Save("inspection", i, I!Complete(r)) \in Allowed(s, 0)
    <3>1. /\ I!Start(r).cabin = r.cabin
          /\ I!UploadPhoto(r).cabin = r.cabin
          /\ \A p \in Inspectors : I!Review(r, p).cabin = r.cabin
          /\ I!Complete(r).cabin = r.cabin
      BY <2>1 DEF I!Start, I!UploadPhoto, I!Review, I!Complete, I!InspectionRecord
    <3> QED
      BY <2>1, <2>2, <3>1, InspectionMethods
  <2>4. Fine(s, startInspection(s, i))
    BY <2>3, MethodFine DEF startInspection
  <2>5. Fine(s, uploadPhoto(s, i))
    BY <2>3, MethodFine DEF uploadPhoto
  <2>6. \A p \in Inspectors : Fine(s, reviewInspection(s, i, p))
    BY <2>3, MethodFine DEF reviewInspection
  <2>7. Save("cabin", r.cabin, FinishInspection(s.cabin[r.cabin])) \in Allowed(s, 0)
    <3>1. FinishInspection(s.cabin[r.cabin]) \in CabinStatus
      BY DEF FinishInspection, CabinStatus
    <3> QED
      BY <2>1, <3>1, AllowedSaves
  <2>8. Fine(s, completeInspection(s, i))
    BY <1>2, <2>3, <2>7, RefusalFine, OneSaveFine, TwoSavesFine DEF completeInspection
  <2> QED
    BY <2>4, <2>5, <2>6, <2>8
<1> QED
  BY <1>1, <1>2

LEMMA SeedRoute ==
    ASSUME NEW s, NEW c \in Cabins
    PROVE  Fine(s, seedCabin(s, c))
<1>1. Save("cabin", c, "operational") \in Allowed(s, 0)
  BY DEF Allowed, Saves, Save, CabinStatus
<1> QED
  BY <1>1, OneSaveFine DEF seedCabin

LEMMA DispatchRoute ==
    ASSUME NEW s, Sound(s), NEW n \in IDs, NEW c \in Cabins, NEW inspector \in Inspectors,
           NEW inWindow \in BOOLEAN
    PROVE  Fine(s, dispatchInspection(s, n, c, inspector, inWindow))
<1>2. CASE s.cabin[c] = None
  BY <1>2, RefusalFine DEF dispatchInspection
<1>3. CASE s.cabin[c] # None
  <2>1. Save("cabin", c, BeginInspection(s.cabin[c])) \in Allowed(s, 0)
    <3>1. BeginInspection(s.cabin[c]) \in CabinStatus
      BY DEF BeginInspection, CabinStatus
    <3> QED
      BY <3>1, AllowedSaves
  <2>2. Save("inspection", n, I!NewInspection(c, inspector)) \in Allowed(s, 0)
    <3>1. I!NewInspection(c, inspector) \in I!InspectionRecord
      BY NewInspectionTyped
    <3>2. I!NewInspection(c, inspector).cabin = c
      BY DEF I!NewInspection
    <3> QED
      BY <1>3, <3>1, <3>2, AllowedSaves
  <2>3. Fine(s, RefuseWithID(422))
    <3>1. <<>> \in Seq(SUBSET Allowed(s, 0))
      OBVIOUS
    <3> QED
      BY <3>1 DEF Fine, RefuseWithID
  <2> QED
    BY <1>3, <2>1, <2>2, <2>3, RefusalFine, TwoSavesFine DEF dispatchInspection
<1> QED
  BY <1>2, <1>3

LEMMA ReportRoute ==
    ASSUME NEW s, Sound(s), NEW n \in IDs, NEW c \in Cabins, NEW level \in Levels, NEW t \in Nat
    PROVE  Fine(s, reportAnomaly(s, n, c, level, t))
<1> DEFINE a == A!NewAnomaly(c, level, t)
           frozen == {Save("inspection", i, I!Freeze(s.inspection[i])) : i \in OpenInspections(s, c)}
<1>1. CASE s.cabin[c] = None
  BY <1>1, RefusalFine DEF reportAnomaly
<1>2. CASE s.cabin[c] # None
  <2>1. s.cabin[c] \in CabinStatus
    BY <1>2 DEF Sound, Store
  <2>2. Save("anomaly", n, a) \in Allowed(s, 0)
    <3>1. a \in A!AnomalyRecord
      BY NewAnomalyTyped
    <3>2. a.cabin = c
      BY DEF A!NewAnomaly
    <3> QED
      BY <1>2, <3>1, <3>2, AllowedSaves
  <2>3. /\ Save("cabin", c, Freeze(s.cabin[c])) \in Allowed(s, 0)
        /\ Save("cabin", c, ReportFault(s.cabin[c])) \in Allowed(s, 0)
    <3>1. Freeze(s.cabin[c]) \in CabinStatus /\ ReportFault(s.cabin[c]) \in CabinStatus
      BY <2>1 DEF Freeze, ReportFault, CabinStatus
    <3>2. n \in IDs
      OBVIOUS
    <3> QED
      BY <3>1, <3>2, AllowedSaves
  <2>4. frozen \subseteq Allowed(s, 0)
    <3> SUFFICES ASSUME NEW i \in OpenInspections(s, c)
                 PROVE  Save("inspection", i, I!Freeze(s.inspection[i])) \in Allowed(s, 0)
      OBVIOUS
    <3>1. i \in IDs /\ s.inspection[i] # None
      BY DEF OpenInspections
    <3>2. s.inspection[i] \in I!InspectionRecord /\ s.cabin[s.inspection[i].cabin] # None
      BY <3>1 DEF Sound, Store, References
    <3>3. I!Freeze(s.inspection[i]) \in I!InspectionRecord
      BY <3>2, InspectionMethods
    <3>4. I!Freeze(s.inspection[i]).cabin = s.inspection[i].cabin
      BY <3>2 DEF I!Freeze, I!InspectionRecord
    <3> QED
      BY <3>1, <3>2, <3>3, <3>4, AllowedSaves
  <2> HIDE DEF a, frozen
  <2>5. AnyOrder(frozen) \in Seq(SUBSET Allowed(s, 0))
    <3>1. frozen \in SUBSET Allowed(s, 0)
      BY <2>4
    <3>2. <<frozen>> \in Seq(SUBSET Allowed(s, 0)) /\ <<>> \in Seq(SUBSET Allowed(s, 0))
      BY <3>1
    <3> QED
      BY <3>2 DEF AnyOrder
  <2>6. <<{Save("cabin", c, Freeze(s.cabin[c]))}>> \o AnyOrder(frozen) \o <<{Save("anomaly", n, a)}>>
           \in Seq(SUBSET Allowed(s, 0))
    <3>1. /\ <<{Save("cabin", c, Freeze(s.cabin[c]))}>> \in Seq(SUBSET Allowed(s, 0))
          /\ <<{Save("anomaly", n, a)}>> \in Seq(SUBSET Allowed(s, 0))
      <4>1. /\ {Save("cabin", c, Freeze(s.cabin[c]))} \in SUBSET Allowed(s, 0)
            /\ {Save("anomaly", n, a)} \in SUBSET Allowed(s, 0)
        BY <2>2, <2>3
      <4> QED
        BY <4>1
    <3> QED
      BY <2>5, <3>1
  <2>7. CASE A!ShouldFreeze(a)
    <3>1. reportAnomaly(s, n, c, level, t).saves
            = <<{Save("cabin", c, Freeze(s.cabin[c]))}>> \o AnyOrder(frozen) \o <<{Save("anomaly", n, a)}>>
      BY <1>2, <2>7 DEF reportAnomaly, a, frozen, Created
    <3>2. reportAnomaly(s, n, c, level, t).code \in Nat
      BY <1>2, <2>7 DEF reportAnomaly, a, Created
    <3> QED
      BY <2>6, <3>1, <3>2 DEF Fine
  <2>8. CASE ~A!ShouldFreeze(a)
    BY <1>2, <2>2, <2>3, <2>8, TwoSavesFine DEF reportAnomaly, a
  <2> QED
    BY <2>7, <2>8
<1> QED
  BY <1>1, <1>2

LEMMA AnomalyRoutes ==
    ASSUME NEW s, Sound(s), NEW i \in IDs, NEW t \in Nat
    PROVE  /\ Fine(s, ackAnomaly(s, i, t))
           /\ Fine(s, isolateAnomaly(s, i))
           /\ Fine(s, resolveAnomaly(s, i))
<1>1. CASE s.anomaly[i] = None
  BY <1>1, RefusalFine DEF ackAnomaly, isolateAnomaly, resolveAnomaly
<1>2. CASE s.anomaly[i] # None
  <2> DEFINE a == s.anomaly[i]
  <2>1. a \in A!AnomalyRecord /\ a.cabin \in Cabins /\ s.cabin[a.cabin] # None
    BY <1>2 DEF Sound, Store, References, A!AnomalyRecord
  <2>2. ASSUME NEW v \in A!AnomalyRecord, v.cabin = a.cabin
        PROVE  Save("anomaly", i, v) \in Allowed(s, 0)
    BY <2>1, <2>2, AllowedSaves
  <2>3. /\ Save("anomaly", i, A!Acknowledge(a, t)) \in Allowed(s, 0)
        /\ Save("anomaly", i, A!Isolate(a)) \in Allowed(s, 0)
        /\ Save("anomaly", i, A!Resolve(a)) \in Allowed(s, 0)
    <3>1. /\ A!Acknowledge(a, t).cabin = a.cabin
          /\ A!Isolate(a).cabin = a.cabin
          /\ A!Resolve(a).cabin = a.cabin
      BY <2>1 DEF A!Acknowledge, A!Escalate, A!Isolate, A!Resolve, A!AnomalyRecord
    <3> QED
      BY <2>1, <2>2, <3>1, AnomalyMethods
  <2>4. Save("cabin", a.cabin, "isolated") \in Allowed(s, 0)
        /\ Save("cabin", a.cabin, "operational") \in Allowed(s, 0)
    <3>1. "isolated" \in CabinStatus /\ "operational" \in CabinStatus /\ i \in IDs
      BY DEF CabinStatus
    <3> QED
      BY <2>1, <3>1, AllowedSaves
  <2>5. Fine(s, ackAnomaly(s, i, t))
    BY <1>2, <2>3, OneSaveFine DEF ackAnomaly
  <2>6. ASSUME NEW status \in {"isolated", "operational"}, NEW v,
               Save("anomaly", i, v) \in Allowed(s, 0)
        PROVE  Fine(s, Answer(200, CabinThenAnomaly(s, i, status, v)))
    <3>1. /\ {Save("cabin", a.cabin, status)} \in SUBSET Allowed(s, 0)
          /\ {Save("anomaly", i, v)} \in SUBSET Allowed(s, 0)
      BY <2>4, <2>6
    <3>2. /\ <<{Save("cabin", a.cabin, status)}>> \in Seq(SUBSET Allowed(s, 0))
          /\ <<{Save("anomaly", i, v)}>> \in Seq(SUBSET Allowed(s, 0))
      BY <3>1
    <3>3. CabinThenAnomaly(s, i, status, v) \in Seq(SUBSET Allowed(s, 0))
      BY <2>1, <3>2 DEF CabinThenAnomaly
    <3> QED
      BY <3>3 DEF Fine, Answer
  <2>7. Fine(s, isolateAnomaly(s, i))
    BY <1>2, <2>3, <2>6, RefusalFine DEF isolateAnomaly
  <2>8. Fine(s, resolveAnomaly(s, i))
    BY <1>2, <2>3, <2>6, RefusalFine DEF resolveAnomaly
  <2> QED
    BY <2>5, <2>7, <2>8
<1> QED
  BY <1>1, <1>2

LEMMA OrderRoutes ==
    ASSUME NEW s, Sound(s), NEW i \in IDs
    PROVE  /\ Fine(s, startWorkOrder(s, i))
           /\ \A p \in Inspectors : Fine(s, reviewWorkOrder(s, i, p))
           /\ Fine(s, closeWorkOrder(s, i))
<1>1. CASE s.order[i] = None
  BY <1>1, RefusalFine DEF startWorkOrder, reviewWorkOrder, closeWorkOrder, Method
<1>2. CASE s.order[i] # None
  <2> DEFINE w == s.order[i]
  <2>1. /\ w \in W!WorkOrderRecord /\ w.cabin \in Cabins /\ s.cabin[w.cabin] # None
        /\ Unsubmitted(w)
    BY <1>2 DEF Sound, Store, References, W!WorkOrderRecord
  <2>2. /\ \A p \in Inspectors : ~W!CanReview(w, p)
        /\ w.state # "closed" /\ ~W!CanClose(w)
    BY <2>1 DEF Unsubmitted, W!CanReview, W!CanClose
  <2>3. Save("order", i, W!Start(w)) \in Allowed(s, 0)
    <3>1. W!Start(w).cabin = w.cabin /\ Unsubmitted(W!Start(w))
      BY <2>1 DEF W!Start, W!WorkOrderRecord, Unsubmitted
    <3> QED
      BY <2>1, <3>1, OrderMethods, AllowedSaves
  <2>4. Fine(s, startWorkOrder(s, i))
    BY <2>3, MethodFine DEF startWorkOrder
  <2> QED
    BY <1>2, <2>2, <2>4, RefusalFine DEF reviewWorkOrder, closeWorkOrder, Method
<1> QED
  BY <1>1, <1>2

LEMMA OpenOrderRoute ==
    ASSUME NEW s, Sound(s), NEW n \in IDs, NEW c \in Cabins,
           NEW linked \in IDs \cup {NoAnomaly}, NEW inspector \in Inspectors
    PROVE  Fine(s, openWorkOrder(s, n, c, linked, inspector))
<1>1. CASE s.cabin[c] = None
  BY <1>1, RefusalFine DEF openWorkOrder
<1>2. CASE s.cabin[c] # None
  <2> DEFINE w == W!NewWorkOrder(c, linked, inspector)
  <2>1. Save("order", n, w) \in Allowed(s, 0)
    <3>1. w \in W!WorkOrderRecord
      BY NewOrderTyped
    <3>2. w.cabin = c /\ Unsubmitted(w)
      BY DEF W!NewWorkOrder, Unsubmitted
    <3> QED
      BY <1>2, <3>1, <3>2, AllowedSaves
  <2>2. Save("cabin", c, BeginMaintenance(s.cabin[c])) \in Allowed(s, 0)
    <3>1. BeginMaintenance(s.cabin[c]) \in CabinStatus /\ n \in IDs
      BY <1>2 DEF Sound, Store, BeginMaintenance, CabinStatus
    <3> QED
      BY <3>1, AllowedSaves
  <2> HIDE DEF w
  <2>3. /\ <<{Save("cabin", c, BeginMaintenance(s.cabin[c]))}>> \in Seq(SUBSET Allowed(s, 0))
        /\ <<{Save("order", n, w)}>> \in Seq(SUBSET Allowed(s, 0))
    <3>1. /\ {Save("cabin", c, BeginMaintenance(s.cabin[c]))} \in SUBSET Allowed(s, 0)
          /\ {Save("order", n, w)} \in SUBSET Allowed(s, 0)
      BY <2>1, <2>2
    <3> QED
      BY <3>1
  <2>4. <<{Save("cabin", c, BeginMaintenance(s.cabin[c]))}>> \o <<{Save("order", n, w)}>>
           \in Seq(SUBSET Allowed(s, 0))
    BY <2>3
  <2>5. \/ openWorkOrder(s, n, c, linked, inspector) = Created(<<{Save("order", n, w)}>>)
        \/ openWorkOrder(s, n, c, linked, inspector)
             = Created(<<{Save("cabin", c, BeginMaintenance(s.cabin[c]))}>> \o <<{Save("order", n, w)}>>)
    BY <1>2 DEF openWorkOrder, w
  <2> QED
    BY <2>3, <2>4, <2>5, SavesFine
<1> QED
  BY <1>1, <1>2

\* The loop changes neither the plan of its record nor its kind.
LEMMA LoopTyped ==
    ASSUME NEW s, NEW b \in B!BlackStartRecord, NEW k \in 0..Len(b.cabins)
    PROVE  /\ Restored(s, b, k) \in B!BlackStartRecord
           /\ Restored(s, b, k).cabins = b.cabins
           /\ B!Complete(Restored(s, b, k)) \in B!BlackStartRecord
           /\ B!Complete(Restored(s, b, k)).cabins = b.cabins
<1>1. \A j \in 1..k : b.cabins[j] \in Cabins
  BY DEF B!BlackStartRecord
<1>2. Restored(s, b, k) \in B!BlackStartRecord /\ Restored(s, b, k).cabins = b.cabins
  <2> DEFINE open  == {b.cabins[j] : j \in 1..k} \ (b.started \cup b.excluded)
             ready == {c \in open : s.cabin[c] # None /\ ~IsFrozen(s.cabin[c])}
  <2>1. open \subseteq Cabins /\ ready \subseteq Cabins
    BY <1>1
  <2>2. Restored(s, b, k) = [b EXCEPT !.started = @ \cup ready, !.excluded = @ \cup (open \ ready)]
    BY DEF Restored
  <2> HIDE DEF open, ready
  <2> QED
    BY <2>1, <2>2 DEF B!BlackStartRecord
<1>3. \A r \in B!BlackStartRecord : B!Complete(r).cabins = r.cabins
  BY DEF B!BlackStartRecord, B!Complete
<1> QED
  BY <1>2, <1>3, BlackStartMethods

LEMMA BlackStartRoutes ==
    ASSUME NEW s, Sound(s), NEW i \in IDs
    PROVE  /\ \A role \in B!Roles, p \in Principals : Fine(s, authorizeBlackStart(s, i, role, p))
           /\ Fine(s, executeBlackStart(s, i))
           /\ Fine(s, rollbackBlackStart(s, i))
<1>1. CASE s.blackStart[i] = None
  BY <1>1, RefusalFine DEF authorizeBlackStart, executeBlackStart, rollbackBlackStart, Method
<1>2. CASE s.blackStart[i] # None
  <2> DEFINE b == s.blackStart[i]
  <2>1. b \in B!BlackStartRecord /\ \A c \in B!Participants(b) : s.cabin[c] # None
    BY <1>2 DEF Sound, Store, References
  <2>2. ASSUME ~B!IsTerminal(b) PROVE ActiveBlackStarts(s) \subseteq {i}
    BY <1>2, <2>2 DEF Sound, ActiveBlackStarts
  <2>3. ASSUME NEW v \in B!BlackStartRecord, v.cabins = b.cabins,
               B!IsTerminal(v) \/ ~B!IsTerminal(b)
        PROVE  Save("blackStart", i, v) \in Allowed(s, i)
    <3>1. \A c \in B!Participants(v) : s.cabin[c] # None
      BY <2>1, <2>3 DEF B!Participants
    <3>2. B!IsTerminal(v) \/ ActiveBlackStarts(s) \subseteq {i}
      BY <2>2, <2>3
    <3> QED
      BY <2>3, <3>1, <3>2, AllowedSaves
  <2>4. ASSUME NEW role \in B!Roles, NEW p \in Principals
        PROVE  Fine(s, authorizeBlackStart(s, i, role, p))
    <3>1. CASE B!CanAuthorize(b, role, p)
      <4>1. B!Authorize(b, role, p).cabins = b.cabins /\ ~B!IsTerminal(b)
        BY <2>1, <3>1 DEF B!Authorize, B!CanAuthorize, B!IsTerminal, B!BlackStartRecord
      <4>2. Save("blackStart", i, B!Authorize(b, role, p)) \in Allowed(s, i)
        BY <2>1, <2>3, <4>1, BlackStartMethods
      <4> QED
        BY <1>2, <3>1, <4>2, OneSaveFine DEF authorizeBlackStart, Method
    <3>2. CASE ~B!CanAuthorize(b, role, p)
      BY <1>2, <3>2, RefusalFine DEF authorizeBlackStart, Method
    <3> QED
      BY <3>1, <3>2
  <2>5. Fine(s, executeBlackStart(s, i))
    <3>1. CASE ~B!CanBeginExecution(b)
      BY <1>2, <3>1, RefusalFine DEF executeBlackStart
    <3>2. CASE B!CanBeginExecution(b)
      <4> DEFINE begun == B!BeginExecution(b)
                 n == Len(begun.cabins)
                 value(k) == IF k <= n + 1 THEN Restored(s, begun, k - 1)
                             ELSE B!Complete(Restored(s, begun, n))
                 saves == [k \in 1..n + 2 |-> {Save("blackStart", i, value(k))}]
      <4>1. /\ begun \in B!BlackStartRecord /\ begun.cabins = b.cabins
            /\ ~B!IsTerminal(b)
        BY <2>1, <3>2, BlackStartMethods
           DEF B!BeginExecution, B!CanBeginExecution, B!IsTerminal, B!BlackStartRecord
      <4>2. n \in Nat
        BY <4>1 DEF B!BlackStartRecord
      <4> HIDE DEF begun, n
      <4>3. ASSUME NEW k \in 1..n + 2
            PROVE  Save("blackStart", i, value(k)) \in Allowed(s, i)
        <5>0. n = Len(begun.cabins)
          BY DEF n
        <5>1. value(k) \in B!BlackStartRecord /\ value(k).cabins = begun.cabins
          <6>1. CASE k <= n + 1
            <7>1. k - 1 \in 0..Len(begun.cabins)
              BY <4>2, <5>0, <6>1
            <7> QED
              BY <4>1, <6>1, <7>1, LoopTyped
          <6>2. CASE ~(k <= n + 1)
            <7>1. n \in 0..Len(begun.cabins)
              BY <4>2, <5>0
            <7> QED
              BY <4>1, <6>2, <7>1, LoopTyped
          <6> QED
            BY <6>1, <6>2
        <5> HIDE DEF value
        <5> QED
          BY <2>3, <4>1, <5>1
      <4> HIDE DEF value
      <4>4. saves \in Seq(SUBSET Allowed(s, i))
        <5>1. \A k \in 1..n + 2 : {Save("blackStart", i, value(k))} \in SUBSET Allowed(s, i)
          BY <4>3
        <5>2. n + 2 \in Nat
          BY <4>2
        <5>3. saves \in [1..n + 2 -> SUBSET Allowed(s, i)]
          BY <5>1
        <5> QED
          BY <5>2, <5>3, SeqDef
      <4>5. executeBlackStart(s, i) = Answer(200, saves)
        BY <1>2, <3>2 DEF executeBlackStart, begun, n, value
      <4> HIDE DEF saves
      <4> QED
        BY <4>4, <4>5, SavesFine
    <3> QED
      BY <3>1, <3>2
  <2>6. Fine(s, rollbackBlackStart(s, i))
    <3>1. B!Rollback(b).cabins = b.cabins /\ B!IsTerminal(B!Rollback(b))
      BY <2>1 DEF B!Rollback, B!IsTerminal, B!BlackStartRecord
    <3>2. Save("blackStart", i, B!Rollback(b)) \in Allowed(s, i)
      BY <2>1, <2>3, <3>1, BlackStartMethods
    <3> QED
      BY <3>2, MethodFine DEF rollbackBlackStart
  <2> QED
    BY <2>4, <2>5, <2>6
<1> QED
  BY <1>1, <1>2

LEMMA RequestBlackStartRoute ==
    ASSUME NEW s, Sound(s), NEW n \in IDs, NEW plan \in Plans
    PROVE  Fine(s, requestBlackStart(s, n, plan))
<1>1. CASE ActiveBlackStarts(s) # {} \/ \E k \in 1..Len(plan) : s.cabin[plan[k]] = None
  BY <1>1, RefusalFine DEF requestBlackStart
<1>2. CASE ActiveBlackStarts(s) = {} /\ \A k \in 1..Len(plan) : s.cabin[plan[k]] # None
  <2> DEFINE b == B!NewBlackStart(plan)
  <2>1. b \in B!BlackStartRecord
    BY NewBlackStartTyped
  <2>2. \A c \in B!Participants(b) : s.cabin[c] # None
    BY <1>2 DEF B!Participants, B!NewBlackStart
  <2> HIDE DEF b
  <2>3. Save("blackStart", n, b) \in Allowed(s, n)
    BY <1>2, <2>1, <2>2, AllowedSaves
  <2>4. requestBlackStart(s, n, plan) = Created(<<{Save("blackStart", n, b)}>>)
    BY <1>2 DEF requestBlackStart, b
  <2> QED
    BY <2>3, <2>4, OneSaveFine
<1> QED
  BY <1>1, <1>2

LEMMA GridSyncRoutes ==
    ASSUME NEW s, Sound(s), NEW i \in IDs
    PROVE  /\ Fine(s, beginSyncing(s, i))
           /\ \A m \in Readings : Fine(s, verifySync(s, i, m))
           /\ Fine(s, connectGrid(s, i))
           /\ Fine(s, beginRetest(s, i))
<1>1. CASE s.gridSync[i] = None
  BY <1>1, RefusalFine DEF beginSyncing, verifySync, connectGrid, beginRetest, Method
<1>2. CASE s.gridSync[i] # None
  <2> DEFINE g == s.gridSync[i]
  <2>1. /\ g \in G!GridSyncRecord
        /\ g.blackStart # Standalone => s.blackStart[g.blackStart] # None
    BY <1>2 DEF Sound, Store, References
  <2>2. ASSUME NEW v \in G!GridSyncRecord, v.blackStart = g.blackStart
        PROVE  Save("gridSync", i, v) \in Allowed(s, 0)
    BY <2>1, <2>2, AllowedSaves
  <2>3. /\ Save("gridSync", i, G!BeginSyncing(g)) \in Allowed(s, 0)
        /\ \A m \in Readings : Save("gridSync", i, G!Verify(g, m)) \in Allowed(s, 0)
        /\ Save("gridSync", i, G!Connect(g)) \in Allowed(s, 0)
        /\ Save("gridSync", i, G!BeginRetest(g)) \in Allowed(s, 0)
    <3>1. /\ G!BeginSyncing(g).blackStart = g.blackStart
          /\ G!Connect(g).blackStart = g.blackStart
          /\ G!BeginRetest(g).blackStart = g.blackStart
      BY <2>1 DEF G!BeginSyncing, G!Connect, G!BeginRetest, G!GridSyncRecord
    <3> QED
      BY <2>1, <2>2, <3>1, GridSyncMethods
  <2>4. Fine(s, beginSyncing(s, i))
    BY <1>2, <2>3, RefusalFine, OneSaveFine DEF beginSyncing, Method
  <2>5. ASSUME NEW m \in Readings
        PROVE  Fine(s, verifySync(s, i, m))
    <3> DEFINE code == IF G!CanVerify(g) /\ G!Within(m) THEN 200 ELSE 422
    <3>1. verifySync(s, i, m) = Answer(code, <<{Save("gridSync", i, G!Verify(g, m))}>>)
      BY <1>2 DEF verifySync
    <3>2. code \in Nat
      OBVIOUS
    <3> HIDE DEF code
    <3> QED
      BY <2>3, <3>1, <3>2, OneSaveFine
  <2>6. Fine(s, connectGrid(s, i))
    BY <1>2, <2>3, RefusalFine, OneSaveFine DEF connectGrid, Method
  <2>7. Fine(s, beginRetest(s, i))
    BY <2>3, MethodFine DEF beginRetest
  <2> QED
    BY <2>4, <2>5, <2>6, <2>7
<1> QED
  BY <1>1, <1>2

LEMMA InitiateRoute ==
    ASSUME NEW s, Sound(s), NEW n \in IDs, NEW b \in Bindings
    PROVE  Fine(s, initiateGridSync(s, n, b))
<1>1. CASE b # Standalone /\ (s.blackStart[b] = None \/ s.blackStart[b].state # "completed")
  BY <1>1, RefusalFine DEF initiateGridSync
<1>2. CASE b = Standalone \/ ~(s.blackStart[b] = None \/ s.blackStart[b].state # "completed")
  <2>1. G!NewGridSync(b) \in G!GridSyncRecord /\ G!NewGridSync(b).blackStart = b
    BY NewGridSyncTyped DEF G!NewGridSync
  <2>2. Save("gridSync", n, G!NewGridSync(b)) \in Allowed(s, 0)
    BY <1>2, <2>1, AllowedSaves
  <2>3. initiateGridSync(s, n, b) = Created(<<{Save("gridSync", n, G!NewGridSync(b))}>>)
    BY <1>2 DEF initiateGridSync
  <2> QED
    BY <2>2, <2>3, OneSaveFine
<1> QED
  BY <1>1, <1>2

\* A route that creates a record saves nothing unless it has taken an ID.
LEMMA NoIDNoSaves ==
    ASSUME NEW s, NEW n, NEW c, NEW inspector, NEW inWindow, NEW level, NEW t, NEW linked,
           NEW plan, NEW b
    PROVE  /\ LET answer == dispatchInspection(s, n, c, inspector, inWindow)
              IN  answer.issues \/ answer.saves = <<>>
           /\ LET answer == reportAnomaly(s, n, c, level, t)
              IN  answer.issues \/ answer.saves = <<>>
           /\ LET answer == openWorkOrder(s, n, c, linked, inspector)
              IN  answer.issues \/ answer.saves = <<>>
           /\ LET answer == requestBlackStart(s, n, plan)
              IN  answer.issues \/ answer.saves = <<>>
           /\ LET answer == initiateGridSync(s, n, b)
              IN  answer.issues \/ answer.saves = <<>>
<1>1. \A saves : Created(saves).issues
  BY DEF Created
<1>2. \A code : Refuse(code).saves = <<>> /\ RefuseWithID(code).saves = <<>>
  BY DEF Refuse, Answer, RefuseWithID
<1>3. LET answer == dispatchInspection(s, n, c, inspector, inWindow)
      IN  answer.issues \/ answer.saves = <<>>
  BY <1>1, <1>2 DEF dispatchInspection
<1>4. LET answer == reportAnomaly(s, n, c, level, t) IN answer.issues \/ answer.saves = <<>>
  BY <1>1, <1>2 DEF reportAnomaly
<1>5. LET answer == openWorkOrder(s, n, c, linked, inspector)
      IN  answer.issues \/ answer.saves = <<>>
  BY <1>1, <1>2 DEF openWorkOrder
<1>6. LET answer == requestBlackStart(s, n, plan) IN answer.issues \/ answer.saves = <<>>
  BY <1>1, <1>2 DEF requestBlackStart
<1>7. LET answer == initiateGridSync(s, n, b) IN answer.issues \/ answer.saves = <<>>
  BY <1>1, <1>2 DEF initiateGridSync
<1> QED
  BY <1>3, <1>4, <1>5, <1>6, <1>7

-----------------------------------------------------------------------------
(* A save and the saves of others.                                         *)

\* Whether a save that is not of a black start is allowed does not depend on what
\* the request under way is about.
LEMMA OtherSavesAllowed ==
    ASSUME NEW s, Sound(s), NEW i, NEW save \in Allowed(s, i),
           NEW j, NEW other \in Allowed(s, j), other.kind # "blackStart"
    PROVE  other \in Allowed(Apply(s, save), j)
<1>1. other \in Allowed(s, i)
  BY DEF Allowed
<1>2. other \in Allowed(Apply(s, save), i)
  BY <1>1, SaveKeepsSound
<1> QED
  BY <1>2 DEF Allowed

\* Records that are stored stay stored.
LEMMA NothingUnlisted ==
    ASSUME NEW s, Sound(s), NEW i, NEW save \in Allowed(s, i), NEW j \in IDs
    PROVE  /\ s.anomaly[j] # None => Apply(s, save).anomaly[j] # None
           /\ s.gridSync[j] # None => Apply(s, save).gridSync[j] # None
<1>0. s \in Store /\ save \in Saves
  BY DEF Sound, Allowed
<1>1. CASE save.kind = "anomaly"
  BY <1>0, <1>1, ApplyByKind, NullAssumption DEF Store
<1>2. CASE save.kind = "gridSync"
  BY <1>0, <1>2, ApplyByKind, NullAssumption DEF Store
<1>3. CASE save.kind \in {"cabin", "inspection", "order", "blackStart"}
  BY <1>0, <1>3, ApplyByKind DEF Store
<1> QED
  BY <1>0, <1>1, <1>2, <1>3 DEF Saves

-----------------------------------------------------------------------------
(* The invariant.                                                          *)

Pending ==
    request # NoRequest
      => /\ request.saves # <<>>
         /\ \E i : request.saves \in Seq(SUBSET Allowed(mem, i))

CloneAllowed == clone # None => clone.kind # "blackStart" /\ clone \in Allowed(mem, 0)

Listed ==
    /\ stage = "escalating" => \A i \in list : mem.anomaly[i] # None
    /\ stage = "retesting" => \A i \in list : mem.gridSync[i] # None

Down == ~up => request = NoRequest /\ clone = None /\ stage = "idle"

Inv ==
    /\ TypeOK
    /\ Down
    /\ \A s \in Stores : Sound(s)
    /\ Pending
    /\ CloneAllowed
    /\ Listed

LEMMA StoresSound ==
    ASSUME TypeOK
    PROVE  (\A s \in Stores : Sound(s))
              <=> /\ Sound(mem)
                  /\ file # NoFile => Sound(file)
                  /\ image # NoFile => Sound(image)
BY NullAssumption DEF Stores, TypeOK

LEMMA EmptySound == Sound(EmptyStore)
<1>1. EmptyStore \in Store
  BY DEF EmptyStore, Store
<1>2. /\ \A i \in IDs : /\ EmptyStore.inspection[i] = None
                        /\ EmptyStore.anomaly[i] = None
                        /\ EmptyStore.order[i] = None
                        /\ EmptyStore.blackStart[i] = None
                        /\ EmptyStore.gridSync[i] = None
  BY DEF EmptyStore
<1> QED
  BY <1>1, <1>2 DEF Sound, References, ActiveBlackStarts

LEMMA SeedSound ==
    ASSUME NEW s, Sound(s)
    PROVE  Sound(seedIfEmpty(s))
<1>1. CASE \E c \in Cabins : s.cabin[c] # None
  BY <1>1 DEF seedIfEmpty
<1>2. CASE \A c \in Cabins : s.cabin[c] = None
  <2> DEFINE t == [s EXCEPT !.cabin = [c \in Cabins |-> IF c \in Fleet THEN "operational" ELSE None]]
  <2>1. t \in Store
    BY DEF Sound, Store, CabinStatus
  <2>2. /\ t.inspection = s.inspection /\ t.anomaly = s.anomaly /\ t.order = s.order
        /\ t.blackStart = s.blackStart /\ t.gridSync = s.gridSync
    BY DEF Sound, Store
  <2>3. /\ \A i \in IDs : /\ s.inspection[i] = None
                          /\ s.anomaly[i] = None
                          /\ s.order[i] = None
    BY <1>2 DEF Sound, References, Store, I!InspectionRecord, A!AnomalyRecord, W!WorkOrderRecord
  <2>4. \A i \in IDs : s.blackStart[i] # None => B!Participants(s.blackStart[i]) = {}
    <3> SUFFICES ASSUME NEW i \in IDs, s.blackStart[i] # None, NEW c \in B!Participants(s.blackStart[i])
                 PROVE  FALSE
      OBVIOUS
    <3>1. c \in Cabins
      BY DEF Sound, Store, B!BlackStartRecord, B!Participants
    <3> QED
      BY <1>2, <3>1 DEF Sound, References
  <2>5. seedIfEmpty(s) = t
    BY <1>2 DEF seedIfEmpty
  <2> HIDE DEF t
  <2>6. References(t)
    BY <2>2, <2>3, <2>4 DEF References, Sound
  <2>7. ActiveBlackStarts(t) = ActiveBlackStarts(s)
    BY <2>2 DEF ActiveBlackStarts
  <2> QED
    BY <2>1, <2>2, <2>5, <2>6, <2>7 DEF Sound
<1> QED
  BY <1>1, <1>2

LEMMA InvInit == Init => Inv
<1> SUFFICES ASSUME Init PROVE Inv
  OBVIOUS
<1>1. TypeOK
  <2>1. EmptyStore \in Store
    BY EmptySound DEF Sound
  <2>2. 0 \in 0..MaxID /\ 0 \in 0..MaxBoots
    BY BoundsAssumption
  <2> QED
    BY <2>1, <2>2 DEF Init, TypeOK, Stage
<1>2. \A s \in Stores : Sound(s)
  BY <1>1, StoresSound, EmptySound DEF Init
<1> QED
  BY <1>1, <1>2 DEF Inv, Init, Down, Pending, CloneAllowed, Listed

-----------------------------------------------------------------------------
(* Every step keeps the invariant.                                         *)

LEMMA ServeKeepsInv ==
    ASSUME Inv, up, NEW answer, Serve(answer), Fine(mem, answer),
           UNCHANGED <<up, mem, file, worker, boots, world>>
    PROVE  Inv'
<1> USE DEF worker, world
<1>0. TypeOK /\ \A s \in Stores : Sound(s)
  BY DEF Inv
<1>1. /\ issued' \in 0..MaxID
      /\ \/ request' = NoRequest
         \/ answer.saves # <<>> /\ request' = [code |-> answer.code, saves |-> answer.saves]
  <2>1. issued \in 0..MaxID /\ using.ids \in 0..MaxID /\ MaxID \in Nat
    BY <1>0, ClienteleAssumption, BoundsAssumption DEF TypeOK
  <2> QED
    BY <2>1 DEF Serve
<1>2. PICK i : answer.saves \in Seq(SUBSET Allowed(mem, i))
  BY DEF Fine
<1>3. answer.saves \in Seq(SUBSET Saves)
  <2>1. SUBSET Allowed(mem, i) \subseteq SUBSET Saves
    BY DEF Allowed
  <2> QED
    BY <1>2, <2>1, SeqMonotonic
<1>4. TypeOK'
  <2>1. request' \in [code : Nat, saves : Seq(SUBSET Saves)] \cup {NoRequest}
    BY <1>1, <1>3 DEF Fine
  <2>2. /\ up' = up /\ mem' = mem /\ file' = file /\ stage' = stage /\ list' = list
        /\ clone' = clone /\ image' = image /\ now' = now /\ boots' = boots /\ using' = using
    OBVIOUS
  <2> QED
    BY <1>0, <1>1, <2>1, <2>2 DEF TypeOK, Saves
<1>5. Pending'
  <2>1. mem' = mem
    OBVIOUS
  <2>2. CASE request' = NoRequest
    BY <2>2 DEF Pending
  <2>3. CASE answer.saves # <<>> /\ request'.saves = answer.saves
    BY <1>2, <2>1, <2>3 DEF Pending
  <2> QED
    BY <1>1, <2>2, <2>3
<1>6. \A s \in Stores' : Sound(s)
  BY <1>0 DEF Stores
<1>7. up' = up
  OBVIOUS
<1> QED
  BY <1>4, <1>5, <1>6, <1>7 DEF Inv, CloneAllowed, Listed, Down

LEMMA RequestKeepsInv ==
    ASSUME Inv, Request
    PROVE  Inv'
<1>0. /\ Sound(mem) /\ now \in Nat /\ up
      /\ UNCHANGED <<up, mem, file, worker, boots, world>>
  BY StoresSound DEF Inv, TypeOK, Request
<1>1. ASSUME NEW answer, Serve(answer), answer.issues \/ answer.saves = <<>>
      PROVE  NewID \in IDs
  <2>1. issued < using.ids /\ issued \in 0..MaxID /\ using.ids \in 0..MaxID /\ MaxID \in Nat
    BY <1>1, ClienteleAssumption, BoundsAssumption DEF Serve, Inv, TypeOK
  <2> QED
    BY <2>1 DEF NewID, IDs
<1>2. CASE CabinRequest
  <2>1. PICK c \in Cabins : Serve(seedCabin(mem, c))
    BY <1>2 DEF CabinRequest
  <2>2. Fine(mem, seedCabin(mem, c))
    BY <1>0, SeedRoute
  <2> QED
    BY <1>0, <2>1, <2>2, ServeKeepsInv
<1>3. CASE InspectionRequest
  <2>1. ASSUME NEW c \in Cabins, NEW inspector \in Inspectors, NEW inWindow \in BOOLEAN,
               Serve(dispatchInspection(mem, NewID, c, inspector, inWindow))
        PROVE  Inv'
    <3>1. NewID \in IDs
      BY <1>1, <2>1, NoIDNoSaves
    <3> QED
      BY <1>0, <2>1, <3>1, DispatchRoute, ServeKeepsInv
  <2>2. ASSUME NEW i \in IDs, Serve(startInspection(mem, i)) \/ Serve(uploadPhoto(mem, i))
                              \/ Serve(completeInspection(mem, i))
                              \/ \E p \in Inspectors : Serve(reviewInspection(mem, i, p))
        PROVE  Inv'
    <3>1. /\ Fine(mem, startInspection(mem, i)) /\ Fine(mem, uploadPhoto(mem, i))
          /\ Fine(mem, completeInspection(mem, i))
          /\ \A p \in Inspectors : Fine(mem, reviewInspection(mem, i, p))
      BY <1>0, InspectionRoutes
    <3> QED
      BY <1>0, <2>2, <3>1, ServeKeepsInv
  <2> QED
    BY <1>3, <2>1, <2>2 DEF InspectionRequest
<1>4. CASE AnomalyRequest
  <2>1. ASSUME NEW c \in Cabins, NEW level \in Levels,
               Serve(reportAnomaly(mem, NewID, c, level, now))
        PROVE  Inv'
    <3>1. NewID \in IDs
      BY <1>1, <2>1, NoIDNoSaves
    <3> QED
      BY <1>0, <2>1, <3>1, ReportRoute, ServeKeepsInv
  <2>2. ASSUME NEW i \in IDs, Serve(ackAnomaly(mem, i, now)) \/ Serve(isolateAnomaly(mem, i))
                              \/ Serve(resolveAnomaly(mem, i))
        PROVE  Inv'
    BY <1>0, <2>2, AnomalyRoutes, ServeKeepsInv
  <2> QED
    BY <1>4, <2>1, <2>2 DEF AnomalyRequest
<1>5. CASE OrderRequest
  <2>1. ASSUME NEW c \in Cabins, NEW linked \in IDs \cup {NoAnomaly}, NEW inspector \in Inspectors,
               Serve(openWorkOrder(mem, NewID, c, linked, inspector))
        PROVE  Inv'
    <3>1. NewID \in IDs
      BY <1>1, <2>1, NoIDNoSaves
    <3> QED
      BY <1>0, <2>1, <3>1, OpenOrderRoute, ServeKeepsInv
  <2>2. ASSUME NEW i \in IDs, Serve(startWorkOrder(mem, i)) \/ Serve(closeWorkOrder(mem, i))
                              \/ \E p \in Inspectors : Serve(reviewWorkOrder(mem, i, p))
        PROVE  Inv'
    <3>1. /\ Fine(mem, startWorkOrder(mem, i)) /\ Fine(mem, closeWorkOrder(mem, i))
          /\ \A p \in Inspectors : Fine(mem, reviewWorkOrder(mem, i, p))
      BY <1>0, OrderRoutes
    <3> QED
      BY <1>0, <2>2, <3>1, ServeKeepsInv
  <2> QED
    BY <1>5, <2>1, <2>2 DEF OrderRequest
<1>6. CASE BlackStartRequest
  <2>1. ASSUME NEW plan \in Plans, Serve(requestBlackStart(mem, NewID, plan))
        PROVE  Inv'
    <3>1. NewID \in IDs
      BY <1>1, <2>1, NoIDNoSaves
    <3> QED
      BY <1>0, <2>1, <3>1, RequestBlackStartRoute, ServeKeepsInv
  <2>2. ASSUME NEW i \in IDs, Serve(executeBlackStart(mem, i)) \/ Serve(rollbackBlackStart(mem, i))
                              \/ \E role \in B!Roles, p \in Principals :
                                    Serve(authorizeBlackStart(mem, i, role, p))
        PROVE  Inv'
    <3>1. /\ Fine(mem, executeBlackStart(mem, i)) /\ Fine(mem, rollbackBlackStart(mem, i))
          /\ \A role \in B!Roles, p \in Principals : Fine(mem, authorizeBlackStart(mem, i, role, p))
      BY <1>0, BlackStartRoutes
    <3> QED
      BY <1>0, <2>2, <3>1, ServeKeepsInv
  <2> QED
    BY <1>6, <2>1, <2>2 DEF BlackStartRequest
<1>7. CASE GridSyncRequest
  <2>1. ASSUME NEW b \in Bindings, Serve(initiateGridSync(mem, NewID, b))
        PROVE  Inv'
    <3>1. NewID \in IDs
      BY <1>1, <2>1, NoIDNoSaves
    <3> QED
      BY <1>0, <2>1, <3>1, InitiateRoute, ServeKeepsInv
  <2>2. ASSUME NEW i \in IDs, Serve(beginSyncing(mem, i)) \/ Serve(connectGrid(mem, i))
                              \/ Serve(beginRetest(mem, i))
                              \/ \E m \in Readings : Serve(verifySync(mem, i, m))
        PROVE  Inv'
    <3>1. /\ Fine(mem, beginSyncing(mem, i)) /\ Fine(mem, connectGrid(mem, i))
          /\ Fine(mem, beginRetest(mem, i))
          /\ \A m \in Readings : Fine(mem, verifySync(mem, i, m))
      BY <1>0, GridSyncRoutes
    <3> QED
      BY <1>0, <2>2, <3>1, ServeKeepsInv
  <2> QED
    BY <1>7, <2>1, <2>2 DEF GridSyncRequest
<1> QED
  BY <1>2, <1>3, <1>4, <1>5, <1>6, <1>7 DEF Request

LEMMA BootKeepsInv ==
    ASSUME Inv, Boot
    PROVE  Inv'
<1>0. /\ TypeOK /\ up' = TRUE /\ boots' = boots + 1 /\ boots < MaxBoots
      /\ mem' = seedIfEmpty(Load)
      /\ UNCHANGED <<file, server, worker, world>>
      /\ request = NoRequest /\ clone = None /\ stage = "idle"
  BY DEF Boot, Inv, Down
<1>1. Sound(Load)
  BY <1>0, StoresSound, EmptySound DEF Load, Inv
<1>2. Sound(mem')
  BY <1>0, <1>1, SeedSound
<1>3. TypeOK'
  <2>1. boots' \in 0..MaxBoots
    BY <1>0, BoundsAssumption DEF TypeOK
  <2>2. mem' \in Store
    BY <1>2 DEF Sound
  <2> QED
    BY <1>0, <2>1, <2>2 DEF TypeOK, Saves, server, worker, world
<1>4. \A s \in Stores' : Sound(s)
  BY <1>0, <1>2 DEF Inv, Stores, worker
<1> QED
  BY <1>0, <1>3, <1>4 DEF Inv, Down, Pending, CloneAllowed, Listed, server, worker

LEMMA ExitKeepsInv ==
    ASSUME Inv, Exit
    PROVE  Inv'
<1>0. TypeOK /\ UNCHANGED <<file, boots, world>> /\ mem' = EmptyStore
  BY DEF Exit, Inv
<1>1. TypeOK'
  <2>1. mem' \in Store /\ issued' \in 0..MaxID
    BY <1>0, EmptySound, BoundsAssumption DEF Exit, Sound
  <2> QED
    BY <1>0, <2>1 DEF Exit, TypeOK, Saves, Stage, world
<1>2. \A s \in Stores' : Sound(s)
  BY <1>0, EmptySound DEF Inv, Stores, Exit
<1> QED
  BY <1>1, <1>2 DEF Exit, Inv, Down, Pending, CloneAllowed, Listed

LEMMA SaveNextKeepsInv ==
    ASSUME Inv, SaveNext
    PROVE  Inv'
<1>0. /\ TypeOK /\ Pending /\ request # NoRequest
      /\ UNCHANGED <<up, file, issued, worker, boots, world>>
  BY DEF SaveNext, Inv
<1>1. /\ request.saves # <<>>
      /\ request \in [code : Nat, saves : Seq(SUBSET Saves)]
  BY <1>0 DEF TypeOK, Pending
<1>2. PICK i : request.saves \in Seq(SUBSET Allowed(mem, i))
  BY <1>0 DEF Pending
<1> DEFINE left(save) == AnyOrder(Head(request.saves) \ {save}) \o Tail(request.saves)
<1>3. PICK save \in Head(request.saves) :
         /\ mem' = Apply(mem, save)
         /\ request' = IF left(save) = <<>> THEN NoRequest
                       ELSE [request EXCEPT !.saves = left(save)]
  BY DEF SaveNext
<1>4. /\ Head(request.saves) \in SUBSET Allowed(mem, i)
      /\ Tail(request.saves) \in Seq(SUBSET Allowed(mem, i))
  BY <1>1, <1>2, HeadTailProperties
<1>5. left(save) \in Seq(SUBSET Allowed(mem, i))
  <2>1. Head(request.saves) \ {save} \in SUBSET Allowed(mem, i)
    BY <1>4
  <2>2. AnyOrder(Head(request.saves) \ {save}) \in Seq(SUBSET Allowed(mem, i))
    <3> DEFINE rest == Head(request.saves) \ {save}
    <3>1. <<rest>> \in Seq(SUBSET Allowed(mem, i)) /\ <<>> \in Seq(SUBSET Allowed(mem, i))
      BY <2>1
    <3> HIDE DEF rest
    <3>2. AnyOrder(rest) \in Seq(SUBSET Allowed(mem, i))
      BY <3>1 DEF AnyOrder
    <3> QED
      BY <3>2 DEF rest
  <2> QED
    BY <1>4, <2>2, ConcatProperties
<1> HIDE DEF left
<1>6. /\ Sound(mem) /\ save \in Allowed(mem, i)
      /\ Sound(mem')
      /\ Allowed(mem, i) \subseteq Allowed(mem', i)
  <2>1. Sound(mem) /\ save \in Allowed(mem, i)
    BY <1>0, <1>3, <1>4, StoresSound DEF Inv
  <2> QED
    BY <1>3, <2>1, SaveKeepsSound
<1>7. left(save) \in Seq(SUBSET Allowed(mem', i)) /\ left(save) \in Seq(SUBSET Saves)
  <2>1. /\ SUBSET Allowed(mem, i) \subseteq SUBSET Allowed(mem', i)
        /\ SUBSET Allowed(mem, i) \subseteq SUBSET Saves
    BY <1>6 DEF Allowed
  <2> QED
    BY <1>5, <2>1, SeqMonotonic
<1>8. \/ request' = NoRequest
      \/ /\ left(save) # <<>> /\ request'.saves = left(save)
         /\ request' \in [code : Nat, saves : Seq(SUBSET Saves)]
  BY <1>1, <1>3, <1>7
<1>9. TypeOK'
  <2>1. mem' \in Store
    BY <1>6 DEF Sound
  <2> QED
    BY <1>0, <1>8, <2>1 DEF TypeOK, Saves, worker, world
<1>10. \A s \in Stores' : Sound(s)
  BY <1>0, <1>6 DEF Inv, Stores, worker
<1>11. Pending'
  BY <1>7, <1>8 DEF Pending
<1>12. CloneAllowed'
  <2>1. CASE clone = None
    BY <1>0, <2>1 DEF CloneAllowed, worker
  <2>2. CASE clone # None
    <3>1. clone \in Allowed(mem', 0)
      BY <1>0, <1>3, <1>6, <2>2, OtherSavesAllowed DEF Inv, CloneAllowed
    <3> QED
      BY <1>0, <2>2, <3>1 DEF Inv, CloneAllowed, worker
  <2> QED
    BY <2>1, <2>2
<1>13. Listed'
  <2>1. list \subseteq IDs /\ list' = list /\ stage' = stage
    BY <1>0 DEF TypeOK, worker
  <2>2. \A j \in list : /\ mem.anomaly[j] # None => mem'.anomaly[j] # None
                        /\ mem.gridSync[j] # None => mem'.gridSync[j] # None
    BY <1>3, <1>6, <2>1, NothingUnlisted
  <2> QED
    BY <2>1, <2>2 DEF Inv, Listed
<1>14. Down'
  BY <1>0 DEF Inv, Down
<1> QED
  BY <1>9, <1>10, <1>11, <1>12, <1>13, <1>14 DEF Inv

LEMMA SaveCloneKeepsInv ==
    ASSUME Inv, SaveClone
    PROVE  Inv'
<1>0. /\ TypeOK /\ clone # None /\ mem' = Apply(mem, clone) /\ clone' = None
      /\ UNCHANGED <<up, file, server, stage, list, image, boots, world>>
  BY DEF SaveClone, Inv
<1>1. Sound(mem) /\ clone \in Allowed(mem, 0) /\ clone.kind # "blackStart"
  BY <1>0, StoresSound DEF Inv, CloneAllowed
<1>2. Sound(mem') /\ \A i : Allowed(mem, i) \subseteq Allowed(mem', i)
  BY <1>0, <1>1, SaveKeepsSound
<1>3. TypeOK'
  <2>1. mem' \in Store
    BY <1>2 DEF Sound
  <2> QED
    BY <1>0, <2>1 DEF TypeOK, Saves, server, world
<1>4. \A s \in Stores' : Sound(s)
  BY <1>0, <1>2 DEF Inv, Stores
<1>5. Pending'
  <2>0. request' = request
    BY <1>0 DEF server
  <2>1. CASE request = NoRequest
    BY <2>0, <2>1 DEF Pending
  <2>2. CASE request # NoRequest
    <3>1. PICK i : request.saves \in Seq(SUBSET Allowed(mem, i))
      BY <2>2 DEF Inv, Pending
    <3>2. SUBSET Allowed(mem, i) \subseteq SUBSET Allowed(mem', i)
      BY <1>2
    <3>3. request.saves \in Seq(SUBSET Allowed(mem', i))
      BY <3>1, <3>2, SeqMonotonic
    <3> QED
      BY <2>0, <2>2, <3>3 DEF Inv, Pending
  <2> QED
    BY <2>1, <2>2
<1>6. Listed'
  <2>1. list \subseteq IDs /\ list' = list /\ stage' = stage
    BY <1>0 DEF TypeOK
  <2>2. \A j \in list : /\ mem.anomaly[j] # None => mem'.anomaly[j] # None
                        /\ mem.gridSync[j] # None => mem'.gridSync[j] # None
    BY <1>0, <1>1, <2>1, NothingUnlisted
  <2> QED
    BY <2>1, <2>2 DEF Inv, Listed
<1> QED
  BY <1>0, <1>3, <1>4, <1>5, <1>6 DEF Inv, Down, CloneAllowed, server

\* The two loops of a pass leave the store alone and prepare an allowed save.
LEMMA LoopKeepsInv ==
    ASSUME Inv, Escalate \/ PrepareRetest
    PROVE  Inv'
<1>0. /\ TypeOK /\ Sound(mem) /\ stage \in {"escalating", "retesting"}
      /\ UNCHANGED <<up, mem, file, server, stage, image, boots, world>>
      /\ list' \subseteq list
  BY StoresSound DEF Inv, Escalate, PrepareRetest, At
<1>1. clone' = None \/ (clone'.kind # "blackStart" /\ clone' \in Allowed(mem, 0))
  <2>1. CASE Escalate
    <3>1. PICK i \in list : clone' = None \/ clone' = Save("anomaly", i, A!Escalate(mem.anomaly[i]))
      BY <2>1 DEF Escalate
    <3> DEFINE a == mem.anomaly[i]
    <3>2. i \in IDs /\ a # None
      BY <1>0, <2>1 DEF Inv, Listed, Escalate, At, TypeOK
    <3>3. a \in A!AnomalyRecord /\ mem.cabin[a.cabin] # None
      BY <1>0, <3>2 DEF Sound, Store, References
    <3>4. A!Escalate(a) \in A!AnomalyRecord /\ A!Escalate(a).cabin = a.cabin
      BY <3>3 DEF A!Escalate, A!AnomalyRecord, A!AnomalyState
    <3>5. Save("anomaly", i, A!Escalate(a)) \in Allowed(mem, 0)
      BY <1>0, <3>2, <3>3, <3>4, AllowedSaves
    <3> QED
      BY <3>1, <3>5 DEF Save
  <2>2. CASE PrepareRetest
    <3>1. PICK i \in list : clone' = None \/ clone' = Save("gridSync", i, G!BeginRetest(mem.gridSync[i]))
      BY <2>2 DEF PrepareRetest
    <3> DEFINE g == mem.gridSync[i]
    <3>2. i \in IDs /\ g # None
      BY <1>0, <2>2 DEF Inv, Listed, PrepareRetest, At, TypeOK
    <3>3. /\ g \in G!GridSyncRecord
          /\ g.blackStart # Standalone => mem.blackStart[g.blackStart] # None
      BY <1>0, <3>2 DEF Sound, Store, References
    <3>4. G!BeginRetest(g) \in G!GridSyncRecord /\ G!BeginRetest(g).blackStart = g.blackStart
      BY <3>3 DEF G!BeginRetest, G!GridSyncRecord, G!GridSyncState
    <3>5. Save("gridSync", i, G!BeginRetest(g)) \in Allowed(mem, 0)
      BY <1>0, <3>2, <3>3, <3>4, AllowedSaves
    <3> QED
      BY <3>1, <3>5 DEF Save
  <2> QED
    BY <2>1, <2>2
<1>2. TypeOK'
  <2>1. clone' \in Saves \cup {None} /\ list' \subseteq IDs
    BY <1>0, <1>1 DEF Allowed, TypeOK
  <2> QED
    BY <1>0, <2>1 DEF TypeOK, Saves, server, world
<1>3. \A s \in Stores' : Sound(s)
  BY <1>0 DEF Inv, Stores
<1>4. Listed'
  BY <1>0 DEF Inv, Listed
<1>5. Pending'
  BY <1>0 DEF Inv, Pending, server
<1>6. CloneAllowed'
  BY <1>0, <1>1 DEF CloneAllowed
<1>7. Down'
  BY <1>0 DEF Inv, Down, server
<1> QED
  BY <1>2, <1>3, <1>4, <1>5, <1>6, <1>7 DEF Inv

\* A pass begins, or goes on to the grid syncs.
LEMMA ListingKeepsInv ==
    ASSUME Inv, BeginPass \/ ListRetests
    PROVE  Inv'
<1>0. /\ TypeOK
      /\ UNCHANGED <<up, mem, file, server, clone, image, boots, world>>
      /\ \/ up /\ stage = "idle" /\ stage' = "escalating" /\ list' = Overdue
         \/ stage = "escalating" /\ stage' = "retesting" /\ list' = FailedSyncs
  BY DEF Inv, BeginPass, ListRetests, At
<1>1. /\ Overdue \subseteq IDs /\ \A i \in Overdue : mem.anomaly[i] # None
      /\ FailedSyncs \subseteq IDs /\ \A i \in FailedSyncs : mem.gridSync[i] # None
  BY DEF Overdue, FailedSyncs
<1>2. TypeOK'
  BY <1>0, <1>1 DEF TypeOK, Saves, Stage, server, world
<1>3. Listed'
  BY <1>0, <1>1 DEF Listed
<1>4. Down'
  BY <1>0 DEF Inv, Down, server
<1>5. Pending' /\ CloneAllowed'
  BY <1>0 DEF Inv, Pending, CloneAllowed, server
<1>6. \A s \in Stores' : Sound(s)
  BY <1>0 DEF Inv, Stores
<1> QED
  BY <1>2, <1>3, <1>4, <1>5, <1>6 DEF Inv

LEMMA SnapshotKeepsInv ==
    ASSUME Inv, PassSnapshot \/ LastSnapshot
    PROVE  Inv'
<1>0. /\ TypeOK /\ up /\ image' = mem /\ stage' \in {"writing", "closing"}
      /\ UNCHANGED <<up, mem, file, server, list, clone, boots, world>>
  BY DEF Inv, Down, PassSnapshot, LastSnapshot, Snapshot, At
<1>1. mem \in Store /\ image' # NoFile
  BY <1>0, NullAssumption DEF TypeOK
<1>2. TypeOK'
  BY <1>0, <1>1 DEF TypeOK, Saves, Stage, server, world
<1>3. \A s \in Stores' : Sound(s)
  BY <1>0 DEF Inv, Stores
<1>4. Down'
  BY <1>0 DEF Down
<1>5. Pending' /\ CloneAllowed'
  BY <1>0 DEF Inv, Pending, CloneAllowed, server
<1>6. Listed'
  BY <1>0 DEF Listed
<1> QED
  BY <1>2, <1>3, <1>4, <1>5, <1>6 DEF Inv

LEMMA SnapshotOverKeepsInv ==
    ASSUME Inv, Rename \/ SnapshotFails
    PROVE  Inv'
<1>0. /\ TypeOK /\ stage \in {"writing", "closing"} /\ stage' \in {"idle", "stopped"}
      /\ image' = NoFile /\ file' \in {file, image} /\ image # NoFile
      /\ UNCHANGED <<up, mem, server, list, clone, boots, world>>
  BY DEF Inv, TypeOK, Rename, SnapshotFails, SnapshotOver
<1>1. TypeOK'
  BY <1>0 DEF TypeOK, Saves, Stage, server, world
<1>2. \A s \in Stores' : Sound(s)
  <2>1. Stores' \subseteq Stores
    BY <1>0 DEF Stores
  <2> QED
    BY <2>1 DEF Inv
<1>3. Down' /\ Listed'
  BY <1>0 DEF Inv, Down, Listed, server
<1>4. Pending' /\ CloneAllowed'
  BY <1>0 DEF Inv, Pending, CloneAllowed, server
<1> QED
  BY <1>1, <1>2, <1>3, <1>4 DEF Inv

LEMMA TickKeepsInv ==
    ASSUME Inv, Tick \/ UNCHANGED vars
    PROVE  Inv'
<1>0. /\ UNCHANGED <<up, mem, file, server, worker, boots, using>> /\ now' \in Nat
      /\ TypeOK
  BY DEF Tick, Inv, TypeOK, vars, world
<1>1. TypeOK'
  BY <1>0 DEF TypeOK, Saves, server, worker
<1>2. \A s \in Stores' : Sound(s)
  BY <1>0 DEF Inv, Stores, worker
<1>3. Down' /\ Listed'
  BY <1>0 DEF Inv, Down, Listed, server, worker
<1>4. Pending' /\ CloneAllowed'
  BY <1>0 DEF Inv, Pending, CloneAllowed, server, worker
<1> QED
  BY <1>1, <1>2, <1>3, <1>4 DEF Inv

LEMMA InvStep == Inv /\ [Next]_vars => Inv'
BY BootKeepsInv, ExitKeepsInv, RequestKeepsInv, SaveNextKeepsInv, SaveCloneKeepsInv,
   LoopKeepsInv, ListingKeepsInv, SnapshotKeepsInv, SnapshotOverKeepsInv, TickKeepsInv
   DEF Next, WorkerStep

LEMMA Invariant == Spec => []Inv
BY InvInit, InvStep, PTL DEF Spec

-----------------------------------------------------------------------------
(* The theorems about states.                                              *)

\* Every variable has its type, and the data file is never garbled: whenever the
\* process has ended, it can be started again.
THEOREM TypeCorrect == Spec => []TypeOK
<1>1. Inv => TypeOK
  BY DEF Inv
<1> QED
  BY <1>1, Invariant, PTL

\* At no time are two black starts active, in memory, on disk or in the snapshot
\* under way, however often the process ends in the middle of a request.
THEOREM OneActiveBlackStartHolds == Spec => []OneActiveBlackStart
<1>1. Inv => OneActiveBlackStart
  BY DEF Inv, Sound, OneActiveBlackStart
<1> QED
  BY <1>1, Invariant, PTL

\* The cabin of every record and the black start of every grid sync are stored
\* wherever the record is, between any two saves of a request.
THEOREM ReferencesResolveHolds == Spec => []ReferencesResolve
<1>1. Inv => ReferencesResolve
  BY DEF Inv, Sound, ReferencesResolve, References
<1> QED
  BY <1>1, Invariant, PTL

\* Over HTTP no work order is ever signed or closed.
THEOREM OrdersNeverClosedHolds == Spec => []OrdersNeverClosed
<1>1. Inv => OrdersNeverClosed
  BY DEF Inv, Sound, OrdersNeverClosed, Unsubmitted
<1> QED
  BY <1>1, Invariant, PTL

-----------------------------------------------------------------------------
(* What the saves of a request can be, route by route.                     *)

SavesOf(answer) == UNION {answer.saves[k] : k \in DOMAIN answer.saves}

Refused(answer) == answer.code >= 400

LEMMA NoSaves ==
    ASSUME NEW code
    PROVE  SavesOf(Refuse(code)) = {} /\ SavesOf(RefuseWithID(code)) = {}
BY DEF SavesOf, Refuse, RefuseWithID, Answer

LEMMA OneSave ==
    ASSUME NEW answer, NEW x, answer.saves = <<{x}>>
    PROVE  SavesOf(answer) = {x}
<1>1. DOMAIN answer.saves = {1} /\ answer.saves[1] = {x}
  OBVIOUS
<1> QED
  BY <1>1 DEF SavesOf

LEMMA TwoSaves ==
    ASSUME NEW answer, NEW x, NEW y, answer.saves = <<{x}, {y}>>
    PROVE  SavesOf(answer) = {x, y}
<1>1. DOMAIN answer.saves = {1, 2} /\ answer.saves[1] = {x} /\ answer.saves[2] = {y}
  OBVIOUS
<1> QED
  BY <1>1 DEF SavesOf

LEMMA Answered ==
    ASSUME NEW saves
    PROVE  /\ \A code : Answer(code, saves).saves = saves
           /\ Created(saves).saves = saves
           /\ ~Refused(Answer(200, saves)) /\ ~Refused(Answer(201, saves))
           /\ Refused(Answer(422, saves))
           /\ ~Refused(Created(saves))
BY DEF Answer, Created, Refused

LEMMA Appended == \A x, y : <<x>> \o <<y>> = <<x, y>> /\ <<>> \o <<y>> = <<y>>
<1> SUFFICES ASSUME NEW x, NEW y
             PROVE  <<x>> \o <<y>> = <<x, y>> /\ <<>> \o <<y>> = <<y>>
  OBVIOUS
<1>1. PICK S : x \in S /\ y \in S
  BY x \in {x, y} /\ y \in {x, y}
<1>2. <<x>> \in Seq(S) /\ <<y>> \in Seq(S) /\ <<x, y>> \in Seq(S) /\ <<>> \in Seq(S)
  BY <1>1
<1>3. Len(<<x>>) = 1 /\ Len(<<y>>) = 1 /\ Len(<<x, y>>) = 2
  OBVIOUS
<1>4. <<x>>[1] = x /\ <<y>>[1] = y /\ <<x, y>>[1] = x /\ <<x, y>>[2] = y
  OBVIOUS
<1>5. <<x>> \o <<y>> \in Seq(S) /\ Len(<<x>> \o <<y>>) = 2
  BY <1>2, <1>3, ConcatProperties
<1>6. \A i \in 1..2 : (<<x>> \o <<y>>)[i] = <<x, y>>[i]
  <2>1. \A i \in 1..2 : (<<x>> \o <<y>>)[i] = IF i <= 1 THEN <<x>>[i] ELSE <<y>>[i - 1]
    BY <1>2, <1>3, ConcatProperties
  <2> QED
    BY <1>4, <2>1
<1>7. <<x>> \o <<y>> = <<x, y>>
  BY <1>2, <1>3, <1>5, <1>6, SeqEqual
<1> QED
  BY <1>2, <1>7, ConcatEmptySeq

LEMMA MethodSaves ==
    ASSUME NEW s, NEW kind, NEW i, NEW accepted, NEW result
    PROVE  LET answer == Method(s, kind, i, accepted, result)
           IN  /\ SavesOf(answer) \subseteq {Save(kind, i, result)}
               /\ Refused(answer) \/ s[kind][i] = None \/ ~accepted => SavesOf(answer) = {}
<1>1. CASE s[kind][i] = None \/ ~accepted
  BY <1>1, NoSaves DEF Method
<1>2. CASE s[kind][i] # None /\ accepted
  <2>1. Method(s, kind, i, accepted, result) = Answer(200, <<{Save(kind, i, result)}>>)
    BY <1>2 DEF Method
  <2> QED
    <3>1. /\ Method(s, kind, i, accepted, result).saves = <<{Save(kind, i, result)}>>
          /\ ~Refused(Method(s, kind, i, accepted, result))
      BY <2>1, Answered
    <3> QED
      BY <1>2, <3>1, OneSave
<1> QED
  BY <1>1, <1>2

\* Neither an anomaly nor a black start nor a grid sync is saved.
Minor(answer) ==
    /\ \A save \in SavesOf(answer) : save.kind \in {"cabin", "inspection", "order"}
    /\ Refused(answer) => SavesOf(answer) = {}

LEMMA MinorRefusals ==
    ASSUME NEW code
    PROVE  Minor(Refuse(code)) /\ Minor(RefuseWithID(code))
BY NoSaves DEF Minor

LEMMA MinorSave ==
    ASSUME NEW x, x.kind \in {"cabin", "inspection", "order"}
    PROVE  /\ Minor(Answer(200, <<{x}>>)) /\ Minor(Answer(201, <<{x}>>))
           /\ Minor(Created(<<{x}>>))
<1>1. ASSUME NEW answer, answer.saves = <<{x}>>, ~Refused(answer) PROVE Minor(answer)
  BY <1>1, OneSave DEF Minor
<1> QED
  BY <1>1, Answered

LEMMA MinorSaves ==
    ASSUME NEW x, NEW y, x.kind \in {"cabin", "inspection", "order"},
           y.kind \in {"cabin", "inspection", "order"}
    PROVE  Minor(Answer(200, <<{x}, {y}>>)) /\ Minor(Created(<<{x}, {y}>>))
<1>1. ASSUME NEW answer, answer.saves = <<{x}, {y}>>, ~Refused(answer) PROVE Minor(answer)
  BY <1>1, TwoSaves DEF Minor
<1> QED
  BY <1>1, Answered

LEMMA SaveFields ==
    ASSUME NEW kind, NEW id, NEW value
    PROVE  /\ Save(kind, id, value).kind = kind
           /\ Save(kind, id, value).id = id
           /\ Save(kind, id, value).value = value
BY DEF Save

LEMMA MinorMethod ==
    ASSUME NEW s, NEW kind \in {"inspection", "order"}, NEW i, NEW accepted, NEW result
    PROVE  Minor(Method(s, kind, i, accepted, result))
<1>1. \A save \in SavesOf(Method(s, kind, i, accepted, result)) : save.kind = kind
  BY MethodSaves, SaveFields
<1> QED
  BY <1>1, MethodSaves DEF Minor

LEMMA MinorCreations ==
    ASSUME NEW s, NEW n, NEW c, NEW inspector, NEW inWindow, NEW linked
    PROVE  /\ Minor(seedCabin(s, c))
           /\ Minor(dispatchInspection(s, n, c, inspector, inWindow))
           /\ Minor(openWorkOrder(s, n, c, linked, inspector))
<1>1. \A id, value : /\ Save("cabin", id, value).kind = "cabin"
                     /\ Save("inspection", id, value).kind = "inspection"
                     /\ Save("order", id, value).kind = "order"
  BY SaveFields
<1>2. Minor(seedCabin(s, c))
  BY <1>1, MinorSave DEF seedCabin
<1>3. Minor(dispatchInspection(s, n, c, inspector, inWindow))
  <2> DEFINE busy == Save("cabin", c, BeginInspection(s.cabin[c]))
             created == Save("inspection", n, I!NewInspection(c, inspector))
  <2>1. busy.kind = "cabin" /\ created.kind = "inspection"
    BY <1>1
  <2>2. dispatchInspection(s, n, c, inspector, inWindow)
          \in {Refuse(404), Refuse(422), RefuseWithID(422), Created(<<{busy}, {created}>>)}
    BY DEF dispatchInspection
  <2> HIDE DEF busy, created
  <2> QED
    BY <2>1, <2>2, MinorRefusals, MinorSaves
<1>4. Minor(openWorkOrder(s, n, c, linked, inspector))
  <2> DEFINE busy == Save("cabin", c, BeginMaintenance(s.cabin[c]))
             opened == Save("order", n, W!NewWorkOrder(c, linked, inspector))
  <2>1. <<{busy}>> \o <<{opened}>> = <<{busy}, {opened}>>
    BY Appended
  <2> HIDE DEF busy, opened
  <2>2. openWorkOrder(s, n, c, linked, inspector)
          \in {Refuse(404), Created(<<{busy}>> \o <<{opened}>>), Created(<<{opened}>>)}
    BY DEF openWorkOrder, busy, opened
  <2>3. busy.kind = "cabin" /\ opened.kind = "order"
    BY <1>1 DEF busy, opened
  <2> QED
    <3>1. Minor(Created(<<{busy}, {opened}>>)) /\ Minor(Created(<<{opened}>>))
      BY <2>3, MinorSave, MinorSaves
    <3> QED
      BY <2>1, <2>2, <3>1, MinorRefusals
<1> QED
  BY <1>2, <1>3, <1>4

LEMMA MinorRoutes ==
    ASSUME NEW s, Sound(s), NEW i \in IDs
    PROVE  /\ Minor(startInspection(s, i)) /\ Minor(uploadPhoto(s, i))
           /\ \A inspector : Minor(reviewInspection(s, i, inspector))
           /\ Minor(completeInspection(s, i))
           /\ Minor(startWorkOrder(s, i))
           /\ \A inspector : Minor(reviewWorkOrder(s, i, inspector))
           /\ Minor(closeWorkOrder(s, i))
<1>1. \A id, value : /\ Save("cabin", id, value).kind = "cabin"
                     /\ Save("inspection", id, value).kind = "inspection"
                     /\ Save("order", id, value).kind = "order"
  BY SaveFields
<1>2. Minor(startInspection(s, i)) /\ Minor(uploadPhoto(s, i)) /\ (\A inspector : Minor(reviewInspection(s, i, inspector)))
  BY MinorMethod DEF startInspection, uploadPhoto, reviewInspection
<1>3. Minor(completeInspection(s, i))
  <2> DEFINE c0 == s.inspection[i].cabin
             free == Save("cabin", c0, FinishInspection(s.cabin[c0]))
             completed == Save("inspection", i, I!Complete(s.inspection[i]))
  <2>1. free.kind = "cabin" /\ completed.kind = "inspection"
    BY <1>1
  <2>2. completeInspection(s, i)
          \in {Refuse(404), Refuse(422), Answer(200, <<{completed}>>),
              Answer(200, <<{free}, {completed}>>)}
    BY DEF completeInspection
  <2> HIDE DEF free, completed
  <2> QED
    BY <2>1, <2>2, MinorRefusals, MinorSave, MinorSaves
<1>4. Minor(startWorkOrder(s, i)) /\ (\A inspector : Minor(reviewWorkOrder(s, i, inspector)))
  BY MinorMethod DEF startWorkOrder, reviewWorkOrder
<1>5. Minor(closeWorkOrder(s, i))
  <2>1. s.order[i] # None => s.order[i].state # "closed" /\ ~W!CanClose(s.order[i])
    BY DEF Sound, Unsubmitted, W!CanClose
  <2>2. closeWorkOrder(s, i) \in {Refuse(404), Refuse(422)}
    BY <2>1 DEF closeWorkOrder
  <2> QED
    BY <2>2, MinorRefusals
<1> QED
  BY <1>2, <1>3, <1>4, <1>5

\* An anomaly is dealt with, not reported, and a refusal escalates it at most.
Treated(s, answer) ==
    \A save \in SavesOf(answer) :
        \/ save.kind = "cabin" /\ ~Refused(answer)
        \/ /\ save.kind = "anomaly" /\ save.value.state # "reported"
           /\ \/ ~Refused(answer)
              \/ save.value = s.anomaly[save.id]
              \/ save.value.state = "escalated"

LEMMA TreatedRoutes ==
    ASSUME NEW s, Sound(s), NEW i \in IDs, NEW t
    PROVE  /\ Treated(s, ackAnomaly(s, i, t))
           /\ Treated(s, isolateAnomaly(s, i))
           /\ Treated(s, resolveAnomaly(s, i))
<1> DEFINE a == s.anomaly[i]
<1>1. ASSUME NEW code PROVE Treated(s, Refuse(code))
  BY NoSaves DEF Treated
<1>2. CASE a = None
  BY <1>1, <1>2 DEF ackAnomaly, isolateAnomaly, resolveAnomaly
<1>3. CASE a # None
  <2>1. a \in A!AnomalyRecord
    BY <1>3 DEF Sound, Store
  <2>2. Treated(s, ackAnomaly(s, i, t))
    <3> DEFINE good == a.state = "reported" /\ ~A!Late(a, t)
               save == Save("anomaly", i, A!Acknowledge(a, t))
    <3>1. ackAnomaly(s, i, t) = Answer(IF good THEN 200 ELSE 422, <<{save}>>)
      BY <1>3 DEF ackAnomaly
    <3>2. /\ SavesOf(ackAnomaly(s, i, t)) = {save}
          /\ Refused(ackAnomaly(s, i, t)) <=> ~good
      BY <3>1, OneSave, Answered
    <3>3. /\ A!Acknowledge(a, t).state # "reported"
          /\ ~good => A!Acknowledge(a, t) = a \/ A!Acknowledge(a, t).state = "escalated"
      BY <2>1 DEF A!Acknowledge, A!Escalate, A!AnomalyRecord
    <3>4. save.kind = "anomaly" /\ save.id = i /\ save.value = A!Acknowledge(a, t)
      BY SaveFields
    <3> HIDE DEF save, good
    <3> QED
      BY <3>2, <3>3, <3>4 DEF Treated
  <2>3. ASSUME NEW status, NEW v, v.state # "reported"
        PROVE  Treated(s, Answer(200, CabinThenAnomaly(s, i, status, v)))
    <3> DEFINE x == Save("cabin", a.cabin, status)
               y == Save("anomaly", i, v)
    <3>1. <<{x}>> \o <<{y}>> = <<{x}, {y}>> /\ <<>> \o <<{y}>> = <<{y}>>
      BY Appended
    <3>2. x.kind = "cabin" /\ y.kind = "anomaly" /\ y.value = v
      BY SaveFields
    <3>3. CabinThenAnomaly(s, i, status, v) \in {<<{x}, {y}>>, <<{y}>>}
      BY <3>1 DEF CabinThenAnomaly
    <3> HIDE DEF x, y
    <3>4. /\ SavesOf(Answer(200, CabinThenAnomaly(s, i, status, v))) \subseteq {x, y}
          /\ ~Refused(Answer(200, CabinThenAnomaly(s, i, status, v)))
      <4> DEFINE answer == Answer(200, CabinThenAnomaly(s, i, status, v))
      <4>1. answer.saves \in {<<{x}, {y}>>, <<{y}>>} /\ ~Refused(answer)
        BY <3>3, Answered
      <4> HIDE DEF answer
      <4>2. SavesOf(answer) \subseteq {x, y}
        BY <4>1, OneSave, TwoSaves
      <4> QED
        BY <4>1, <4>2 DEF answer
    <3> QED
      BY <2>3, <3>2, <3>4 DEF Treated
  <2>4. A!Isolate(a).state # "reported" /\ A!Resolve(a).state # "reported"
    BY <2>1 DEF A!Isolate, A!Resolve, A!AnomalyRecord
  <2> QED
    BY <1>1, <1>3, <2>2, <2>3, <2>4 DEF isolateAnomaly, resolveAnomaly
<1> QED
  BY <1>2, <1>3

\* A grid sync is saved as it should be, and a refusal records a failed reading
\* at most.
Switched(s, answer) ==
    \A save \in SavesOf(answer) :
        /\ save.kind = "gridSync"
        /\ \/ ~Refused(answer)
           \/ save.value = s.gridSync[save.id]
           \/ save.value.state = "sync_failed"

LEMMA SwitchedRefusal ==
    ASSUME NEW s, NEW code
    PROVE  Switched(s, Refuse(code))
BY NoSaves DEF Switched

LEMMA SwitchedCreation ==
    ASSUME NEW s, NEW n, NEW b
    PROVE  Switched(s, initiateGridSync(s, n, b))
<1> DEFINE save == Save("gridSync", n, G!NewGridSync(b))
<1>1. initiateGridSync(s, n, b) \in {Refuse(404), Refuse(400), Created(<<{save}>>)}
  BY DEF initiateGridSync
<1>2. save.kind = "gridSync"
  BY SaveFields
<1> HIDE DEF save
<1>3. Switched(s, Created(<<{save}>>))
  BY <1>2, OneSave, Answered DEF Switched
<1> QED
  BY <1>1, <1>3, SwitchedRefusal

LEMMA SwitchedRoutes ==
    ASSUME NEW s, Sound(s), NEW i \in IDs
    PROVE  /\ Switched(s, beginSyncing(s, i)) /\ \A m : Switched(s, verifySync(s, i, m))
           /\ Switched(s, connectGrid(s, i)) /\ Switched(s, beginRetest(s, i))
<1> DEFINE g == s.gridSync[i]
<1>1. ASSUME NEW accepted, NEW result
      PROVE  Switched(s, Method(s, "gridSync", i, accepted, result))
  BY MethodSaves, SaveFields DEF Switched
<1>2. ASSUME NEW m PROVE Switched(s, verifySync(s, i, m))
  <2>1. CASE g = None
    BY SwitchedRefusal, <2>1 DEF verifySync
  <2>2. CASE g # None
    <3> DEFINE good == G!CanVerify(g) /\ G!Within(m)
               save == Save("gridSync", i, G!Verify(g, m))
    <3>1. g \in G!GridSyncRecord
      BY <2>2 DEF Sound, Store
    <3>2. verifySync(s, i, m) = Answer(IF good THEN 200 ELSE 422, <<{save}>>)
      BY <2>2 DEF verifySync
    <3>3. /\ SavesOf(verifySync(s, i, m)) = {save}
          /\ Refused(verifySync(s, i, m)) <=> ~good
      BY <3>2, OneSave, Answered
    <3>4. ~good => G!Verify(g, m) = g \/ G!Verify(g, m).state = "sync_failed"
      BY <3>1 DEF G!Verify, G!fail, G!GridSyncRecord
    <3>5. save.kind = "gridSync" /\ save.id = i /\ save.value = G!Verify(g, m)
      BY SaveFields
    <3> HIDE DEF save, good
    <3> QED
      BY <3>3, <3>4, <3>5 DEF Switched
  <2> QED
    BY <2>1, <2>2
<1> HIDE DEF g
<1> QED
  BY <1>1, <1>2, SwitchedRefusal DEF beginSyncing, connectGrid, beginRetest, g

\* A black start is saved, and while one is executing nothing but a roll-back.
Guided(s, answer) ==
    /\ \A save \in SavesOf(answer) : save.kind = "blackStart"
    /\ Refused(answer) => SavesOf(answer) = {}
    /\ (\E i \in IDs : s.blackStart[i] # None /\ s.blackStart[i].state = "executing")
         => \A save \in SavesOf(answer) :
               /\ save.id \in IDs
               /\ s.blackStart[save.id] # None
               /\ save.value = B!Rollback(s.blackStart[save.id])

LEMMA GuidedRefusal ==
    ASSUME NEW s, NEW code
    PROVE  Guided(s, Refuse(code))
BY NoSaves DEF Guided

LEMMA GuidedCreation ==
    ASSUME NEW s, NEW n, NEW plan
    PROVE  Guided(s, requestBlackStart(s, n, plan))
<1> DEFINE save == Save("blackStart", n, B!NewBlackStart(plan))
           executing == \E j \in IDs : s.blackStart[j] # None /\ s.blackStart[j].state = "executing"
<1>1. executing => ActiveBlackStarts(s) # {}
  BY DEF ActiveBlackStarts, B!IsTerminal
<1>2. \/ requestBlackStart(s, n, plan) \in {Refuse(400), Refuse(404)}
      \/ ~executing /\ requestBlackStart(s, n, plan) = Created(<<{save}>>)
  BY <1>1 DEF requestBlackStart
<1>3. save.kind = "blackStart"
  BY SaveFields
<1> HIDE DEF save
<1>4. ASSUME ~executing PROVE Guided(s, Created(<<{save}>>))
  <2> DEFINE answer == Created(<<{save}>>)
  <2>1. answer.saves = <<{save}>> /\ ~Refused(answer)
    BY Answered
  <2> HIDE DEF answer
  <2>2. SavesOf(answer) = {save}
    BY <2>1, OneSave
  <2>3. Guided(s, answer)
    BY <1>3, <1>4, <2>1, <2>2 DEF Guided
  <2> QED
    BY <2>3 DEF answer
<1> HIDE DEF executing
<1> QED
  BY <1>2, <1>4, GuidedRefusal

LEMMA GuidedRoutes ==
    ASSUME NEW s, Sound(s), NEW i \in IDs
    PROVE  /\ \A role, p : Guided(s, authorizeBlackStart(s, i, role, p))
           /\ Guided(s, executeBlackStart(s, i))
           /\ Guided(s, rollbackBlackStart(s, i))
<1> DEFINE b == s.blackStart[i]
           executing == \E j \in IDs : s.blackStart[j] # None /\ s.blackStart[j].state = "executing"
<1>1. ASSUME executing, b # None
      PROVE  b.state = "executing" \/ B!IsTerminal(b)
  BY <1>1 DEF Sound, ActiveBlackStarts, B!IsTerminal
<1>2. ASSUME NEW role, NEW p PROVE Guided(s, authorizeBlackStart(s, i, role, p))
  <2> DEFINE accepted == B!CanAuthorize(b, role, p)
             save == Save("blackStart", i, B!Authorize(b, role, p))
             answer == Method(s, "blackStart", i, accepted, B!Authorize(b, role, p))
  <2>1. SavesOf(answer) \subseteq {save} /\ save.kind = "blackStart"
    BY MethodSaves, SaveFields
  <2>2. Refused(answer) \/ b = None \/ ~accepted => SavesOf(answer) = {}
    BY MethodSaves
  <2>3. executing /\ b # None => ~accepted
    BY <1>1 DEF B!CanAuthorize, B!IsTerminal
  <2>4. authorizeBlackStart(s, i, role, p) = answer
    BY DEF authorizeBlackStart
  <2> HIDE DEF answer, accepted, save, b
  <2>5. Guided(s, answer)
    BY <2>1, <2>2, <2>3 DEF Guided
  <2> QED
    BY <2>4, <2>5
<1>3. Guided(s, executeBlackStart(s, i))
  <2>1. CASE b = None \/ ~B!CanBeginExecution(b)
    BY <2>1, GuidedRefusal DEF executeBlackStart
  <2>2. CASE b # None /\ B!CanBeginExecution(b)
    <3>1. ~executing
      BY <1>1, <2>2 DEF B!CanBeginExecution, B!IsTerminal
    <3> DEFINE begun == B!BeginExecution(b)
               n2 == Len(begun.cabins) + 2
               value(k) == IF k <= Len(begun.cabins) + 1 THEN Restored(s, begun, k - 1)
                           ELSE B!Complete(Restored(s, begun, Len(begun.cabins)))
               saves == [k \in 1..n2 |-> {Save("blackStart", i, value(k))}]
    <3>2. executeBlackStart(s, i) = Answer(200, saves)
      BY <2>2 DEF executeBlackStart
    <3>3. /\ executeBlackStart(s, i).saves = saves
          /\ ~Refused(executeBlackStart(s, i))
      BY <3>2 DEF Answer, Refused
    <3>4. \A k \in DOMAIN saves : \A save \in saves[k] : save.kind = "blackStart"
      BY SaveFields
    <3> HIDE DEF saves
    <3>5. \A save \in SavesOf(executeBlackStart(s, i)) : save.kind = "blackStart"
      BY <3>3, <3>4 DEF SavesOf
    <3> QED
      BY <3>1, <3>3, <3>5 DEF Guided
  <2> QED
    BY <2>1, <2>2
<1>4. Guided(s, rollbackBlackStart(s, i))
  <2> DEFINE save == Save("blackStart", i, B!Rollback(b))
             answer == Method(s, "blackStart", i, TRUE, B!Rollback(b))
  <2>0. save.kind = "blackStart" /\ save.id = i /\ save.value = B!Rollback(b)
    BY SaveFields
  <2>1. SavesOf(answer) \subseteq {save}
    BY MethodSaves
  <2>2. Refused(answer) \/ b = None => SavesOf(answer) = {}
    BY MethodSaves
  <2>3. rollbackBlackStart(s, i) = answer
    BY DEF rollbackBlackStart
  <2> HIDE DEF answer, save
  <2>4. Guided(s, answer)
    BY <2>0, <2>1, <2>2 DEF Guided
  <2> QED
    BY <2>3, <2>4
<1> QED
  BY <1>2, <1>3, <1>4

-----------------------------------------------------------------------------
(* The lock that a Level-1 report puts on its cabin.                       *)

\* The save that puts a Level-1 anomaly on record.
Grave(save) ==
    save.kind = "anomaly" /\ save.value.level = 1 /\ save.value.state = "reported"

OnlyLocks(saves) ==
    \A j \in DOMAIN saves : \A other \in saves[j] :
        /\ other.kind = "cabin" => IsFrozen(other.value)
        /\ other.kind = "inspection" => I!IsClosed(other.value)

\* A record is saved before the turn of saves[k] comes.
Ahead(saves, k, kind, id) ==
    \E j \in 1..k - 1 : \E other \in saves[j] : other.kind = kind /\ other.id = id

\* Before a Level-1 anomaly is put on record, whatever of its cabin and of the
\* open inspections of its cabin is not locked yet will be.
Locking(s, saves) ==
    \A k \in DOMAIN saves : \A save \in saves[k] :
        Grave(save)
          => /\ OnlyLocks(saves)
             /\ \/ IsFrozen(s.cabin[save.value.cabin])
                \/ Ahead(saves, k, "cabin", save.value.cabin)
             /\ \A i \in OpenInspections(s, save.value.cabin) : Ahead(saves, k, "inspection", i)

\* The saves left, after the save x, are the saves there were, shifted by d, and
\* only x has gone.
LEMMA LeftOver ==
    ASSUME NEW T, NEW saves \in Seq(SUBSET T), saves # <<>>, NEW x \in Head(saves)
    PROVE  LET left == AnyOrder(Head(saves) \ {x}) \o Tail(saves)
           IN  \E d \in {0, 1} : \A k \in DOMAIN left :
                  /\ k \in Nat /\ k + d \in DOMAIN saves
                  /\ left[k] \subseteq saves[k + d]
                  /\ \A j \in 1..(k + d) - 1 : \A y \in saves[j] :
                        \/ y = x
                        \/ j - d \in 1..k - 1 /\ y \in left[j - d]
<1> DEFINE rest == Head(saves) \ {x}
           left == AnyOrder(rest) \o Tail(saves)
<1>0. Len(saves) \in Nat /\ Len(saves) >= 1 /\ DOMAIN saves = 1..Len(saves)
  BY EmptySeq, LenProperties
<1>1. /\ Head(saves) = saves[1] /\ Head(saves) \in SUBSET T
      /\ Tail(saves) \in Seq(SUBSET T) /\ Len(Tail(saves)) = Len(saves) - 1
      /\ \A k \in 1..Len(saves) - 1 : Tail(saves)[k] = saves[k + 1]
  BY HeadTailProperties
<1>2. CASE rest = {}
  <2>1. left = Tail(saves)
    BY <1>1, <1>2, ConcatEmptySeq DEF AnyOrder
  <2>2. DOMAIN left = 1..Len(saves) - 1
    BY <1>0, <1>1, <2>1, LenProperties
  <2> HIDE DEF left
  <2>3. ASSUME NEW k \in DOMAIN left
        PROVE  /\ k \in Nat /\ k + 1 \in DOMAIN saves
               /\ left[k] \subseteq saves[k + 1]
               /\ \A j \in 1..(k + 1) - 1 : \A y \in saves[j] :
                        \/ y = x
                        \/ j - 1 \in 1..k - 1 /\ y \in left[j - 1]
    <3>1. k \in 1..Len(saves) - 1 /\ k + 1 \in 1..Len(saves)
      BY <1>0, <2>2
    <3>2. left[k] = saves[k + 1]
      BY <1>1, <2>1, <3>1
    <3>3. ASSUME NEW j \in 1..k, NEW y \in saves[j], y # x
          PROVE  j - 1 \in 1..k - 1 /\ y \in left[j - 1]
      <4>1. j # 1
        BY <1>1, <1>2, <3>3
      <4>2. j - 1 \in 1..Len(saves) - 1 /\ j - 1 \in 1..k - 1 /\ (j - 1) + 1 = j
        BY <1>0, <3>1, <4>1
      <4>3. left[j - 1] = saves[j]
        BY <1>1, <2>1, <4>2
      <4> QED
        BY <3>3, <4>2, <4>3
    <3>4. (k + 1) - 1 = k
      BY <3>1
    <3> QED
      BY <1>0, <3>1, <3>2, <3>3, <3>4
  <2> QED
    BY <2>3 DEF left
<1>3. CASE rest # {}
  <2>1. AnyOrder(rest) = <<rest>> /\ <<rest>> \in Seq(SUBSET T)
    <3>1. rest \in SUBSET T
      BY <1>1
    <3> HIDE DEF rest
    <3> QED
      BY <1>3, <3>1 DEF AnyOrder
  <2>2. Len(<<rest>>) = 1 /\ <<rest>>[1] = rest
    OBVIOUS
  <2>3. /\ left \in Seq(SUBSET T) /\ Len(left) = 1 + Len(Tail(saves))
        /\ \A k \in 1..1 + Len(Tail(saves)) :
              left[k] = IF k <= 1 THEN <<rest>>[k] ELSE Tail(saves)[k - 1]
    <3> HIDE DEF rest
    <3>1. left = <<rest>> \o Tail(saves)
      BY <2>1
    <3> QED
      BY <1>1, <2>1, <2>2, <3>1, ConcatProperties
  <2>4. DOMAIN left = 1..Len(saves)
    BY <1>0, <1>1, <2>3, LenProperties
  <2>5. left[1] = rest /\ \A k \in 2..Len(saves) : left[k] = saves[k]
    <3>1. left[1] = rest
      <4>1. 1 \in 1..1 + Len(Tail(saves)) /\ 1 <= 1
        BY <1>0, <1>1
      <4> HIDE DEF rest, left
      <4> QED
        BY <2>2, <2>3, <4>1
    <3>2. ASSUME NEW k \in 2..Len(saves) PROVE left[k] = saves[k]
      <4>1. k - 1 \in 1..Len(saves) - 1 /\ (k - 1) + 1 = k /\ ~(k <= 1)
            /\ k \in 1..1 + Len(Tail(saves))
        BY <1>0, <1>1
      <4> QED
        BY <1>1, <2>3, <4>1
    <3> QED
      BY <3>1, <3>2
  <2> HIDE DEF left
  <2>6. ASSUME NEW k \in DOMAIN left
        PROVE  /\ k \in Nat /\ k + 0 \in DOMAIN saves
               /\ left[k] \subseteq saves[k + 0]
               /\ \A j \in 1..(k + 0) - 1 : \A y \in saves[j] :
                        \/ y = x
                        \/ j - 0 \in 1..k - 1 /\ y \in left[j - 0]
    <3>1. k \in 1..Len(saves) /\ k + 0 = k
      BY <1>0, <2>4
    <3>2. \A j \in 1..Len(saves) : left[j] = IF j = 1 THEN saves[1] \ {x} ELSE saves[j]
      <4>1. \A j \in 1..Len(saves) : j = 1 \/ j \in 2..Len(saves)
        BY <1>0
      <4>2. rest = saves[1] \ {x}
        BY <1>1
      <4> HIDE DEF rest
      <4> QED
        BY <2>5, <4>1, <4>2
    <3>3. \A j \in 1..k - 1 : j \in 1..Len(saves) /\ j - 0 = j
      BY <1>0, <3>1
    <3> QED
      BY <1>0, <3>1, <3>2, <3>3
  <2> QED
    BY <2>6 DEF left
<1> QED
  BY <1>2, <1>3

LEMMA SaveKeepsLocking ==
    ASSUME NEW s \in Store, NEW saves \in Seq(SUBSET Saves), saves # <<>>, NEW x \in Head(saves),
           Locking(s, saves)
    PROVE  Locking(Apply(s, x), AnyOrder(Head(saves) \ {x}) \o Tail(saves))
<1> DEFINE left == AnyOrder(Head(saves) \ {x}) \o Tail(saves)
           t == Apply(s, x)
<1>1. PICK d \in {0, 1} : \A k \in DOMAIN left :
                  /\ k \in Nat /\ k + d \in DOMAIN saves
                  /\ left[k] \subseteq saves[k + d]
                  /\ \A j \in 1..(k + d) - 1 : \A y \in saves[j] :
                        \/ y = x
                        \/ j - d \in 1..k - 1 /\ y \in left[j - d]
  BY LeftOver
<1> HIDE DEF left
<1>2. x \in Saves /\ 1 \in DOMAIN saves /\ x \in saves[1]
  <2>1. Head(saves) \in SUBSET Saves /\ Head(saves) = saves[1]
    BY HeadTailProperties
  <2>2. Len(saves) \in Nat /\ Len(saves) >= 1 /\ DOMAIN saves = 1..Len(saves)
    BY EmptySeq, LenProperties
  <2> QED
    BY <2>1, <2>2
<1>3. ASSUME NEW k \in DOMAIN left, NEW save \in left[k], Grave(save)
      PROVE  /\ OnlyLocks(left)
             /\ \/ IsFrozen(t.cabin[save.value.cabin])
                \/ Ahead(left, k, "cabin", save.value.cabin)
             /\ \A i \in OpenInspections(t, save.value.cabin) : Ahead(left, k, "inspection", i)
  <2> DEFINE c == save.value.cabin
  <2>1. k + d \in DOMAIN saves /\ save \in saves[k + d]
    BY <1>1, <1>3
  <2>2. /\ OnlyLocks(saves)
        /\ IsFrozen(s.cabin[c]) \/ Ahead(saves, k + d, "cabin", c)
        /\ \A i \in OpenInspections(s, c) : Ahead(saves, k + d, "inspection", i)
    BY <1>3, <2>1 DEF Locking
  <2>3. OnlyLocks(left)
    BY <1>1, <2>2 DEF OnlyLocks
  <2>4. /\ x.kind = "cabin" => IsFrozen(x.value)
        /\ x.kind = "inspection" => I!IsClosed(x.value)
    BY <1>2, <2>2 DEF OnlyLocks
  <2>5. ASSUME NEW kind, NEW id, Ahead(saves, k + d, kind, id), ~(x.kind = kind /\ x.id = id)
        PROVE  Ahead(left, k, kind, id)
    <3>1. PICK j \in 1..(k + d) - 1 : \E other \in saves[j] : other.kind = kind /\ other.id = id
      BY <2>5 DEF Ahead
    <3>2. PICK other \in saves[j] : other.kind = kind /\ other.id = id
      BY <3>1
    <3>3. j - d \in 1..k - 1 /\ other \in left[j - d]
      BY <1>1, <2>5, <3>2
    <3> QED
      BY <3>2, <3>3 DEF Ahead
  <2>6. save \in Saves
    <3>1. saves[k + d] \in SUBSET Saves
      BY <2>1, ElementOfSeq, LenProperties
    <3> QED
      BY <2>1, <3>1
  <2>7. c \in Cabins
    BY <1>3, <2>6, ApplyByKind DEF Grave, Saves, A!AnomalyRecord
  <2>8. IsFrozen(t.cabin[c]) \/ Ahead(left, k, "cabin", c)
    <3>1. CASE x.kind = "cabin" /\ x.id = c
      BY <1>2, <2>4, <2>7, <3>1, ApplyByKind DEF Store
    <3>2. CASE ~(x.kind = "cabin" /\ x.id = c)
      <4>1. t.cabin[c] = s.cabin[c]
        <5>1. CASE x.kind = "cabin"
          BY <1>2, <2>7, <3>2, <5>1, ApplyByKind DEF Store
        <5>2. CASE x.kind \in {"inspection", "anomaly", "order", "blackStart", "gridSync"}
          BY <1>2, <5>2, ApplyByKind DEF Store
        <5> QED
          BY <1>2, <5>1, <5>2 DEF Saves
      <4> QED
        BY <2>2, <2>5, <3>2, <4>1
    <3> QED
      BY <3>1, <3>2
  <2>9. ASSUME NEW i \in OpenInspections(t, c)
        PROVE  Ahead(left, k, "inspection", i)
    <3>1. /\ i \in IDs /\ t.inspection[i] # None /\ t.inspection[i].cabin = c
          /\ ~I!IsClosed(t.inspection[i])
      BY <2>9 DEF OpenInspections
    <3>2. ~(x.kind = "inspection" /\ x.id = i)
      BY <1>2, <2>4, <3>1, ApplyByKind DEF Store
    <3>3. t.inspection[i] = s.inspection[i]
      <4>1. CASE x.kind = "inspection"
        BY <1>2, <3>1, <3>2, <4>1, ApplyByKind DEF Store
      <4>2. CASE x.kind \in {"cabin", "anomaly", "order", "blackStart", "gridSync"}
        BY <1>2, <4>2, ApplyByKind DEF Store
      <4> QED
        BY <1>2, <4>1, <4>2 DEF Saves
    <3>4. i \in OpenInspections(s, c)
      BY <3>1, <3>3 DEF OpenInspections
    <3> QED
      BY <2>2, <2>5, <3>2, <3>4
  <2> QED
    BY <2>3, <2>8, <2>9
<1> HIDE DEF t
<1>4. Locking(t, left)
  BY <1>3 DEF Locking
<1> QED
  BY <1>4 DEF t, left

\* Saves among which no Level-1 report is.
LEMMA NothingGrave ==
    ASSUME NEW s, NEW answer, \A save \in SavesOf(answer) : ~Grave(save)
    PROVE  Locking(s, answer.saves)
BY DEF Locking, SavesOf

LEMMA ReportLocks ==
    ASSUME NEW s, Sound(s), NEW n, NEW c, NEW level, NEW t
    PROVE  /\ Locking(s, reportAnomaly(s, n, c, level, t).saves)
           /\ ~Refused(reportAnomaly(s, n, c, level, t))
                \/ SavesOf(reportAnomaly(s, n, c, level, t)) = {}
           /\ \A save \in SavesOf(reportAnomaly(s, n, c, level, t)) : save.kind # "blackStart"
<1> DEFINE a == A!NewAnomaly(c, level, t)
           frozen == {Save("inspection", i, I!Freeze(s.inspection[i])) : i \in OpenInspections(s, c)}
           locked == Save("cabin", c, Freeze(s.cabin[c]))
           faulty == Save("cabin", c, ReportFault(s.cabin[c]))
           stored == Save("anomaly", n, a)
           answer == reportAnomaly(s, n, c, level, t)
<1>1. CASE s.cabin[c] = None
  <2>1. answer = Refuse(404)
    BY <1>1 DEF reportAnomaly
  <2>2. SavesOf(answer) = {}
    BY <2>1, NoSaves
  <2> QED
    BY <2>2, NothingGrave
<1>2. CASE s.cabin[c] # None /\ ~A!ShouldFreeze(a)
  <2>1. answer = Created(<<{faulty}, {stored}>>)
    BY <1>2 DEF reportAnomaly
  <2>2. answer.saves = <<{faulty}, {stored}>> /\ ~Refused(answer)
    BY <2>1, Answered
  <2>3. faulty.kind = "cabin" /\ stored.kind = "anomaly" /\ stored.value.level # 1
    BY <1>2, SaveFields DEF A!ShouldFreeze
  <2> HIDE DEF answer, faulty, stored
  <2>4. SavesOf(answer) = {faulty, stored}
    BY <2>2, TwoSaves
  <2>5. Locking(s, answer.saves)
    BY <2>3, <2>4, NothingGrave DEF Grave
  <2> QED
    BY <2>2, <2>3, <2>4, <2>5 DEF answer
<1>3. CASE s.cabin[c] # None /\ A!ShouldFreeze(a)
  <2>1. answer = Created(<<{locked}>> \o AnyOrder(frozen) \o <<{stored}>>)
    BY <1>3 DEF reportAnomaly
  <2>2. answer.saves = <<{locked}>> \o AnyOrder(frozen) \o <<{stored}>> /\ ~Refused(answer)
    <3> DEFINE saves == <<{locked}>> \o AnyOrder(frozen) \o <<{stored}>>
    <3> HIDE DEF saves, answer
    <3>1. answer = Created(saves)
      BY <2>1 DEF saves
    <3>2. answer.saves = saves /\ ~Refused(answer)
      BY <3>1, Answered
    <3> QED
      BY <3>2 DEF saves
  <2>3. /\ locked.kind = "cabin" /\ locked.id = c /\ locked.value = "frozen"
        /\ stored.kind = "anomaly" /\ stored.value.cabin = c
    BY SaveFields DEF Freeze, A!NewAnomaly
  <2>4. /\ \A other \in frozen : other.kind = "inspection" /\ I!IsClosed(other.value)
        /\ \A i \in OpenInspections(s, c) : \E other \in frozen :
              other.kind = "inspection" /\ other.id = i
    <3>1. ASSUME NEW i \in OpenInspections(s, c)
          PROVE  I!IsClosed(I!Freeze(s.inspection[i]))
      <4>1. s.inspection[i] \in I!InspectionRecord
        BY DEF OpenInspections, Sound, Store
      <4> QED
        BY <4>1 DEF I!IsClosed, I!Freeze, I!InspectionRecord
    <3>2. \A i : /\ Save("inspection", i, I!Freeze(s.inspection[i])).kind = "inspection"
                 /\ Save("inspection", i, I!Freeze(s.inspection[i])).id = i
                 /\ Save("inspection", i, I!Freeze(s.inspection[i])).value = I!Freeze(s.inspection[i])
      BY SaveFields
    <3> QED
      BY <3>1, <3>2
  <2> HIDE DEF answer, frozen, locked, stored
  <2>5. \E m \in {2, 3} :
           /\ DOMAIN answer.saves = 1..m
           /\ answer.saves[1] = {locked} /\ answer.saves[m] = {stored}
           /\ m = 3 => answer.saves[2] = frozen
           /\ m = 2 => frozen = {}
    <3>1. CASE frozen = {}
      <4>1. answer.saves = <<{locked}, {stored}>>
        <5>1. <<{locked}>> \o <<>> = <<{locked}>>
          BY ConcatEmptySeq, {locked} \in {{locked}}, <<{locked}>> \in Seq({{locked}})
        <5> QED
          BY <2>2, <3>1, <5>1, Appended DEF AnyOrder
      <4>2. DOMAIN answer.saves = 1..2 /\ answer.saves[1] = {locked} /\ answer.saves[2] = {stored}
        BY <4>1
      <4> QED
        BY <3>1, <4>2
    <3>2. CASE frozen # {}
      <4> DEFINE T == {{locked}, frozen, {stored}}
      <4>1. answer.saves = <<{locked}, frozen>> \o <<{stored}>>
        BY <2>2, <3>2, Appended DEF AnyOrder
      <4>2. /\ <<{locked}, frozen>> \in Seq(T) /\ Len(<<{locked}, frozen>>) = 2
            /\ <<{stored}>> \in Seq(T) /\ Len(<<{stored}>>) = 1
        OBVIOUS
      <4>3. /\ answer.saves \in Seq(T) /\ Len(answer.saves) = 2 + 1
            /\ \A k \in 1..2 + 1 : answer.saves[k] = IF k <= 2 THEN <<{locked}, frozen>>[k]
                                                     ELSE <<{stored}>>[k - 2]
        BY <4>1, <4>2, ConcatProperties
      <4>4. DOMAIN answer.saves = 1..3
        BY <4>3, LenProperties
      <4>5. answer.saves[1] = {locked} /\ answer.saves[2] = frozen /\ answer.saves[3] = {stored}
        BY <4>3
      <4> QED
        BY <4>4, <4>5
    <3> QED
      BY <3>1, <3>2
  <2>6. PICK m \in {2, 3} :
           /\ DOMAIN answer.saves = 1..m
           /\ answer.saves[1] = {locked} /\ answer.saves[m] = {stored}
           /\ m = 3 => answer.saves[2] = frozen
           /\ m = 2 => frozen = {}
    BY <2>5
  <2>7. \A k \in DOMAIN answer.saves : k = 1 \/ k = m \/ (k = 2 /\ m = 3)
    BY <2>6
  <2>8. OnlyLocks(answer.saves)
    BY <2>3, <2>4, <2>6, <2>7 DEF OnlyLocks, IsFrozen
  <2>9. ASSUME NEW k \in DOMAIN answer.saves, NEW save \in answer.saves[k], Grave(save)
        PROVE  k = m /\ save = stored
    BY <2>3, <2>4, <2>6, <2>7, <2>9 DEF Grave
  <2>10. Ahead(answer.saves, m, "cabin", c)
    BY <2>3, <2>6 DEF Ahead
  <2>11. ASSUME NEW i \in OpenInspections(s, c)
         PROVE  Ahead(answer.saves, m, "inspection", i)
    <3>1. m = 3 /\ answer.saves[2] = frozen
      BY <2>4, <2>6
    <3>2. 2 \in 1..m - 1
      BY <3>1
    <3> QED
      BY <2>4, <3>1, <3>2 DEF Ahead
  <2>12. Locking(s, answer.saves)
    BY <2>3, <2>8, <2>9, <2>10, <2>11 DEF Locking
  <2>13. \A save \in SavesOf(answer) : save.kind # "blackStart"
    BY <2>3, <2>4, <2>6, <2>7 DEF SavesOf
  <2> QED
    BY <2>2, <2>12, <2>13 DEF answer
<1> QED
  BY <1>1, <1>2, <1>3

\* What a request may be answered with.
Routed(answer) ==
    \/ Minor(answer)
    \/ Treated(mem, answer)
    \/ Switched(mem, answer)
    \/ Guided(mem, answer)
    \/ /\ Locking(mem, answer.saves)
       /\ ~Refused(answer) \/ SavesOf(answer) = {}
       /\ \A save \in SavesOf(answer) : save.kind # "blackStart"

LEMMA RequestRouted ==
    ASSUME Inv, Request
    PROVE  \E answer : Serve(answer) /\ Routed(answer)
<1>0. Sound(mem)
  BY StoresSound DEF Inv
<1>1. CASE CabinRequest
  <2>1. PICK c \in Cabins : Serve(seedCabin(mem, c))
    BY <1>1 DEF CabinRequest
  <2>2. Minor(seedCabin(mem, c))
    BY MinorCreations
  <2> QED
    BY <2>1, <2>2 DEF Routed
<1>2. CASE InspectionRequest
  <2>1. CASE \E i \in IDs : \/ Serve(startInspection(mem, i)) \/ Serve(uploadPhoto(mem, i))
                            \/ Serve(completeInspection(mem, i))
                            \/ \E p \in Inspectors : Serve(reviewInspection(mem, i, p))
    <3>1. PICK i \in IDs : \/ Serve(startInspection(mem, i)) \/ Serve(uploadPhoto(mem, i))
                            \/ Serve(completeInspection(mem, i))
                            \/ \E p \in Inspectors : Serve(reviewInspection(mem, i, p))
      BY <2>1
    <3>2. /\ Minor(startInspection(mem, i)) /\ Minor(uploadPhoto(mem, i))
          /\ Minor(completeInspection(mem, i))
          /\ \A p : Minor(reviewInspection(mem, i, p))
      BY <1>0, MinorRoutes
    <3> QED
      BY <3>1, <3>2 DEF Routed
  <2>2. CASE \E c \in Cabins, p \in Inspectors, inWindow \in BOOLEAN :
                Serve(dispatchInspection(mem, NewID, c, p, inWindow))
    <3>1. PICK c \in Cabins, p \in Inspectors, inWindow \in BOOLEAN :
                Serve(dispatchInspection(mem, NewID, c, p, inWindow))
      BY <2>2
    <3>2. Minor(dispatchInspection(mem, NewID, c, p, inWindow))
      BY MinorCreations
    <3> QED
      BY <3>1, <3>2 DEF Routed
  <2> QED
    BY <1>2, <2>1, <2>2 DEF InspectionRequest
<1>3. CASE AnomalyRequest
  <2>1. CASE \E c \in Cabins, level \in Levels : Serve(reportAnomaly(mem, NewID, c, level, now))
    BY <1>0, <2>1, ReportLocks DEF Routed
  <2>2. CASE \E i \in IDs : Serve(ackAnomaly(mem, i, now)) \/ Serve(isolateAnomaly(mem, i))
                              \/ Serve(resolveAnomaly(mem, i))
    BY <1>0, <2>2, TreatedRoutes DEF Routed
  <2> QED
    BY <1>3, <2>1, <2>2 DEF AnomalyRequest
<1>4. CASE OrderRequest
  <2>1. CASE \E i \in IDs : \/ Serve(startWorkOrder(mem, i)) \/ Serve(closeWorkOrder(mem, i))
                            \/ \E p \in Inspectors : Serve(reviewWorkOrder(mem, i, p))
    <3>1. PICK i \in IDs : \/ Serve(startWorkOrder(mem, i)) \/ Serve(closeWorkOrder(mem, i))
                           \/ \E p \in Inspectors : Serve(reviewWorkOrder(mem, i, p))
      BY <2>1
    <3>2. /\ Minor(startWorkOrder(mem, i)) /\ Minor(closeWorkOrder(mem, i))
          /\ \A p : Minor(reviewWorkOrder(mem, i, p))
      BY <1>0, MinorRoutes
    <3> QED
      BY <3>1, <3>2 DEF Routed
  <2>2. CASE \E c \in Cabins, linked \in IDs \cup {NoAnomaly}, p \in Inspectors :
                Serve(openWorkOrder(mem, NewID, c, linked, p))
    <3>1. PICK c \in Cabins, linked \in IDs \cup {NoAnomaly}, p \in Inspectors :
                Serve(openWorkOrder(mem, NewID, c, linked, p))
      BY <2>2
    <3>2. Minor(openWorkOrder(mem, NewID, c, linked, p))
      BY MinorCreations
    <3> QED
      BY <3>1, <3>2 DEF Routed
  <2> QED
    BY <1>4, <2>1, <2>2 DEF OrderRequest
<1>5. CASE BlackStartRequest
  <2>1. ASSUME NEW plan \in Plans, Serve(requestBlackStart(mem, NewID, plan))
        PROVE  \E answer : Serve(answer) /\ Routed(answer)
    BY <2>1, GuidedCreation DEF Routed
  <2>2. ASSUME NEW i \in IDs, Serve(executeBlackStart(mem, i)) \/ Serve(rollbackBlackStart(mem, i))
        PROVE  \E answer : Serve(answer) /\ Routed(answer)
    BY <1>0, <2>2, GuidedRoutes DEF Routed
  <2>3. ASSUME NEW i \in IDs, NEW role \in B!Roles, NEW p \in Principals,
               Serve(authorizeBlackStart(mem, i, role, p))
        PROVE  \E answer : Serve(answer) /\ Routed(answer)
    BY <1>0, <2>3, GuidedRoutes DEF Routed
  <2> QED
    BY <1>5, <2>1, <2>2, <2>3 DEF BlackStartRequest
<1>6. CASE GridSyncRequest
  <2>1. ASSUME NEW b \in Bindings, Serve(initiateGridSync(mem, NewID, b))
        PROVE  \E answer : Serve(answer) /\ Routed(answer)
    BY <2>1, SwitchedCreation DEF Routed
  <2>2. ASSUME NEW i \in IDs, Serve(beginSyncing(mem, i)) \/ Serve(connectGrid(mem, i))
                              \/ Serve(beginRetest(mem, i))
                              \/ \E m \in Readings : Serve(verifySync(mem, i, m))
        PROVE  \E answer : Serve(answer) /\ Routed(answer)
    <3>1. /\ Switched(mem, beginSyncing(mem, i)) /\ Switched(mem, connectGrid(mem, i))
          /\ Switched(mem, beginRetest(mem, i)) /\ \A m : Switched(mem, verifySync(mem, i, m))
      BY <1>0, SwitchedRoutes
    <3> QED
      BY <2>2, <3>1 DEF Routed
  <2> QED
    BY <1>6, <2>1, <2>2 DEF GridSyncRequest
<1> QED
  BY <1>1, <1>2, <1>3, <1>4, <1>5, <1>6 DEF Request

-----------------------------------------------------------------------------
(* What the saves on their way say about the lock of a report.             *)

CloneDealsWith ==
    clone # None => \/ clone.kind = "gridSync"
                    \/ clone.kind = "anomaly" /\ clone.value.state = "escalated"

LockPending == request # NoRequest => Locking(mem, request.saves)

LockInv == CloneDealsWith /\ LockPending

LEMMA RequestKeepsLock ==
    ASSUME Inv, LockInv, Request
    PROVE  LockInv'
<1>1. PICK answer : Serve(answer) /\ Routed(answer)
  BY RequestRouted
<1>2. \/ request' = NoRequest
      \/ request' = [code |-> answer.code, saves |-> answer.saves]
  BY <1>1 DEF Serve
<1>3. mem' = mem /\ clone' = clone
  BY DEF Request, worker
<1>4. Locking(mem, answer.saves)
  <2>1. CASE Minor(answer)
    BY <2>1, NothingGrave DEF Minor, Grave
  <2>2. CASE Treated(mem, answer)
    BY <2>2, NothingGrave DEF Treated, Grave
  <2>3. CASE Switched(mem, answer)
    BY <2>3, NothingGrave DEF Switched, Grave
  <2>4. CASE Guided(mem, answer)
    BY <2>4, NothingGrave DEF Guided, Grave
  <2> QED
    BY <1>1, <2>1, <2>2, <2>3, <2>4 DEF Routed
<1>5. LockPending'
  <2>1. CASE request' = NoRequest
    BY <2>1 DEF LockPending
  <2>2. CASE request' = [code |-> answer.code, saves |-> answer.saves]
    <3>1. request'.saves = answer.saves
      BY <2>2
    <3> QED
      BY <1>3, <1>4, <3>1 DEF LockPending
  <2> QED
    BY <1>2, <2>1, <2>2
<1> QED
  BY <1>3, <1>5 DEF LockInv, CloneDealsWith

LEMMA SaveNextKeepsLock ==
    ASSUME Inv, LockInv, SaveNext
    PROVE  LockInv'
<1>1. mem \in Store /\ request.saves \in Seq(SUBSET Saves) /\ request.saves # <<>>
      /\ request # NoRequest /\ clone' = clone
  BY DEF Inv, TypeOK, Pending, SaveNext, worker
<1> DEFINE left(save) == AnyOrder(Head(request.saves) \ {save}) \o Tail(request.saves)
<1>2. PICK save \in Head(request.saves) :
         /\ mem' = Apply(mem, save)
         /\ request' = IF left(save) = <<>> THEN NoRequest
                       ELSE [request EXCEPT !.saves = left(save)]
  BY DEF SaveNext
<1>3. Locking(Apply(mem, save), left(save))
  BY <1>1, SaveKeepsLocking DEF LockInv, LockPending
<1> HIDE DEF left
<1>4. request' = NoRequest \/ request'.saves = left(save)
  BY <1>1, <1>2 DEF Inv, TypeOK
<1>5. LockPending'
  BY <1>2, <1>3, <1>4 DEF LockPending
<1> QED
  BY <1>1, <1>5 DEF LockInv, CloneDealsWith

\* What is saved changes no cabin and no inspection.
LEMMA SaveCloneKeepsLock ==
    ASSUME Inv, LockInv, SaveClone
    PROVE  LockInv'
<1>1. /\ mem' = Apply(mem, clone) /\ clone' = None /\ request' = request
      /\ mem \in Store /\ clone \in Saves /\ clone.kind \in {"anomaly", "gridSync"}
  BY DEF Inv, TypeOK, SaveClone, server, LockInv, CloneDealsWith
<1>2. mem'.cabin = mem.cabin /\ mem'.inspection = mem.inspection
  BY <1>1, ApplyByKind DEF Store
<1>3. \A c : OpenInspections(mem', c) = OpenInspections(mem, c)
  BY <1>2 DEF OpenInspections
<1>4. \A saves : Locking(mem, saves) => Locking(mem', saves)
  BY <1>2, <1>3 DEF Locking
<1> QED
  BY <1>1, <1>4 DEF LockInv, LockPending, CloneDealsWith

LEMMA LoopKeepsLock ==
    ASSUME Inv, LockInv, Escalate \/ PrepareRetest
    PROVE  LockInv'
<1>1. mem' = mem /\ request' = request
  BY DEF Escalate, PrepareRetest, server
<1>2. CASE Escalate
  <2>1. PICK i \in list : clone' = None \/ clone' = Save("anomaly", i, A!Escalate(mem.anomaly[i]))
    BY <1>2 DEF Escalate
  <2>2. mem.anomaly[i] \in A!AnomalyRecord
    BY <1>2 DEF Inv, TypeOK, Listed, Escalate, At, Store
  <2>3. A!Escalate(mem.anomaly[i]).state = "escalated"
    BY <2>2 DEF A!Escalate, A!AnomalyRecord
  <2>4. CloneDealsWith'
    BY <2>1, <2>3, SaveFields DEF CloneDealsWith
  <2> QED
    BY <1>1, <2>4 DEF LockInv, LockPending
<1>3. CASE PrepareRetest
  <2>1. PICK i \in list : clone' = None \/ clone' = Save("gridSync", i, G!BeginRetest(mem.gridSync[i]))
    BY <1>3 DEF PrepareRetest
  <2>2. CloneDealsWith'
    BY <2>1, SaveFields DEF CloneDealsWith
  <2> QED
    BY <1>1, <2>2 DEF LockInv, LockPending
<1> QED
  BY <1>2, <1>3

LEMMA LockInvStep == Inv /\ LockInv /\ [Next]_vars => LockInv'
<1> SUFFICES ASSUME Inv, LockInv, [Next]_vars PROVE LockInv'
  OBVIOUS
<1>1. CASE Boot
  BY <1>1 DEF Boot, Inv, Down, LockInv, CloneDealsWith, LockPending, server, worker
<1>2. CASE Exit
  BY <1>2 DEF Exit, LockInv, CloneDealsWith, LockPending
<1>3. CASE \/ BeginPass \/ ListRetests \/ PassSnapshot \/ LastSnapshot \/ Rename \/ SnapshotFails
           \/ Tick \/ UNCHANGED vars
  <2>1. mem' = mem /\ request' = request /\ clone' = clone
    BY <1>3 DEF BeginPass, ListRetests, PassSnapshot, LastSnapshot, Snapshot, Rename,
       SnapshotFails, SnapshotOver, Tick, vars, server, worker
  <2> QED
    BY <2>1 DEF LockInv, CloneDealsWith, LockPending
<1> QED
  BY <1>1, <1>2, <1>3, RequestKeepsLock, SaveNextKeepsLock, SaveCloneKeepsLock, LoopKeepsLock
     DEF Next, WorkerStep

LEMMA LockInvariant == Spec => []LockInv
<1>1. Init => LockInv
  BY DEF Init, LockInv, CloneDealsWith, LockPending
<1> QED
  BY <1>1, LockInvStep, Invariant, PTL DEF Spec

\* The only steps that change what is stored in the running process.
LEMMA MemoryChanges ==
    ASSUME [Next]_vars, up, mem' # mem
    PROVE  Exit \/ SaveNext \/ SaveClone
BY DEF Next, WorkerStep, Boot, Request, BeginPass, Escalate, ListRetests, PrepareRetest,
   PassSnapshot, LastSnapshot, Snapshot, Rename, SnapshotFails, SnapshotOver, Tick, vars

-----------------------------------------------------------------------------
(* The theorems about steps.                                               *)

\* A Level-1 anomaly is put on record only when its cabin is locked and every open
\* inspection of the cabin is frozen, whatever the worker does meanwhile.
THEOREM LockedBeforeReportedHolds == Spec => LockedBeforeReported
<1>1. Inv /\ LockInv /\ [Next]_vars
        => [\A i \in IDs :
              /\ up
              /\ mem'.anomaly[i] # mem.anomaly[i]
              /\ mem'.anomaly[i] # None
              /\ mem'.anomaly[i].level = 1 /\ mem'.anomaly[i].state = "reported"
              => /\ IsFrozen(mem.cabin[mem'.anomaly[i].cabin])
                 /\ OpenInspections(mem, mem'.anomaly[i].cabin) = {}]_vars
  <2> SUFFICES ASSUME Inv, LockInv, [Next]_vars, up, NEW i \in IDs,
                      mem'.anomaly[i] # mem.anomaly[i],
                      mem'.anomaly[i] # None,
                      mem'.anomaly[i].level = 1, mem'.anomaly[i].state = "reported"
               PROVE  /\ IsFrozen(mem.cabin[mem'.anomaly[i].cabin])
                      /\ OpenInspections(mem, mem'.anomaly[i].cabin) = {}
    OBVIOUS
  <2>1. mem \in Store
    BY DEF Inv, TypeOK
  <2>2. ~Exit
    BY DEF Exit, EmptyStore
  <2>3. ~SaveClone
    <3> SUFFICES ASSUME SaveClone PROVE FALSE
      OBVIOUS
    <3>1. mem' = Apply(mem, clone) /\ clone \in Saves
      BY DEF SaveClone, Inv, TypeOK
    <3>2. \/ clone.kind = "gridSync"
          \/ clone.kind = "anomaly" /\ clone.value.state = "escalated"
      BY DEF SaveClone, LockInv, CloneDealsWith
    <3> QED
      BY <2>1, <3>1, <3>2, ApplyByKind DEF Store
  <2>4. SaveNext
    BY <2>2, <2>3, MemoryChanges
  <2>5. PICK save \in Head(request.saves) : mem' = Apply(mem, save)
    BY <2>4 DEF SaveNext
  <2>6. /\ request # NoRequest /\ request.saves \in Seq(SUBSET Saves) /\ request.saves # <<>>
    BY <2>4 DEF SaveNext, Inv, TypeOK, Pending
  <2>7. Head(request.saves) = request.saves[1] /\ Head(request.saves) \in SUBSET Saves
        /\ 1 \in DOMAIN request.saves
    <3>1. Len(request.saves) \in Nat /\ Len(request.saves) >= 1
          /\ DOMAIN request.saves = 1..Len(request.saves)
      BY <2>6, EmptySeq, LenProperties
    <3> QED
      BY <2>6, <3>1, HeadTailProperties
  <2>8. save.kind = "anomaly" /\ mem'.anomaly[i] = save.value
    BY <2>1, <2>5, <2>7, ApplyByKind DEF Store, Saves
  <2>9. Grave(save)
    BY <2>8 DEF Grave
  <2>10. \A kind, id : ~Ahead(request.saves, 1, kind, id)
    BY DEF Ahead
  <2> QED
    BY <2>5, <2>6, <2>7, <2>8, <2>9, <2>10 DEF LockInv, LockPending, Locking
<1> QED
  BY <1>1, Invariant, LockInvariant, PTL DEF Spec, LockedBeforeReported

\* The step that begins a request.
LEMMA RequestBegins ==
    ASSUME [Next]_vars, request = NoRequest, request' # NoRequest
    PROVE  Request
BY DEF Next, WorkerStep, Boot, Exit, SaveNext, SaveClone, BeginPass, Escalate, ListRetests,
   PrepareRetest, PassSnapshot, LastSnapshot, Snapshot, Rename, SnapshotFails, SnapshotOver,
   Tick, vars, server

LEMMA SavesBegun ==
    ASSUME Inv, Request, request' # NoRequest
    PROVE  \E answer : /\ Routed(answer)
                       /\ request'.code = answer.code
                       /\ \A k \in DOMAIN request'.saves : \A save \in request'.saves[k] :
                             save \in SavesOf(answer)
<1>1. PICK answer : Serve(answer) /\ Routed(answer)
  BY RequestRouted
<1>2. request' = [code |-> answer.code, saves |-> answer.saves]
  BY <1>1 DEF Serve
<1>3. request'.code = answer.code /\ request'.saves = answer.saves
  BY <1>2
<1> QED
  BY <1>1, <1>3 DEF SavesOf

\* While a black start is executing with no request under way, what an earlier
\* process has left behind, no request does to any black start but roll it back.
THEOREM InterruptedOnlyRolledBackHolds == Spec => InterruptedOnlyRolledBack
<1>1. Inv /\ [Next]_vars
        => [\A i \in IDs :
              /\ request = NoRequest /\ request' # NoRequest
              /\ mem.blackStart[i] # None /\ mem.blackStart[i].state = "executing"
              => \A k \in DOMAIN request'.saves : \A save \in request'.saves[k] :
                    save.kind = "blackStart"
                      => /\ mem.blackStart[save.id] # None
                         /\ save.value = B!Rollback(mem.blackStart[save.id])]_vars
  <2> SUFFICES ASSUME Inv, [Next]_vars, NEW i \in IDs,
                      request = NoRequest, request' # NoRequest,
                      mem.blackStart[i] # None, mem.blackStart[i].state = "executing",
                      NEW k \in DOMAIN request'.saves, NEW save \in request'.saves[k],
                      save.kind = "blackStart"
               PROVE  /\ mem.blackStart[save.id] # None
                      /\ save.value = B!Rollback(mem.blackStart[save.id])
    OBVIOUS
  <2>1. PICK answer : Routed(answer) /\ save \in SavesOf(answer)
    BY RequestBegins, SavesBegun
  <2>2. Guided(mem, answer)
    BY <2>1 DEF Routed, Minor, Treated, Switched
  <2> QED
    BY <2>1, <2>2 DEF Guided
<1> QED
  BY <1>1, Invariant, PTL DEF Spec, InterruptedOnlyRolledBack

\* An error status means that nothing has changed, except that a late
\* acknowledgement escalates and a failed verification is recorded.
THEOREM RefusalsHarmlessHolds == Spec => RefusalsHarmless
<1>1. Inv /\ [Next]_vars
        => [request = NoRequest /\ request' # NoRequest /\ request'.code >= 400
              => \A k \in DOMAIN request'.saves : \A save \in request'.saves[k] :
                    \/ save.value = mem[save.kind][save.id]
                    \/ save.kind = "anomaly" /\ save.value.state = "escalated"
                    \/ save.kind = "gridSync" /\ save.value.state = "sync_failed"]_vars
  <2> SUFFICES ASSUME Inv, [Next]_vars,
                      request = NoRequest, request' # NoRequest, request'.code >= 400,
                      NEW k \in DOMAIN request'.saves, NEW save \in request'.saves[k]
               PROVE  \/ save.value = mem[save.kind][save.id]
                      \/ save.kind = "anomaly" /\ save.value.state = "escalated"
                      \/ save.kind = "gridSync" /\ save.value.state = "sync_failed"
    OBVIOUS
  <2>1. PICK answer : Routed(answer) /\ save \in SavesOf(answer) /\ request'.code = answer.code
    BY RequestBegins, SavesBegun
  <2>2. Refused(answer)
    BY <2>1 DEF Refused
  <2>3. Treated(mem, answer) \/ Switched(mem, answer)
    BY <2>1, <2>2 DEF Routed, Minor, Guided
  <2>4. mem \in Store
    BY DEF Inv, TypeOK
  <2>5. mem["anomaly"] = mem.anomaly /\ mem["gridSync"] = mem.gridSync
    OBVIOUS
  <2> QED
    BY <2>1, <2>2, <2>3, <2>5 DEF Treated, Switched
<1> QED
  BY <1>1, Invariant, PTL DEF Spec, RefusalsHarmless

-----------------------------------------------------------------------------
(* Which IDs a request stores records under.                               *)

\* But for cabins, a request saves records that are stored, and the one that it
\* has taken the new ID n for.
Creates(s, answer, n) ==
    \A save \in SavesOf(answer) :
        \/ save.kind = "cabin"
        \/ s[save.kind][save.id] # None
        \/ answer.issues /\ save.id = n

LEMMA CreatesNothing ==
    ASSUME NEW s, NEW n, NEW code
    PROVE  Creates(s, Refuse(code), n) /\ Creates(s, RefuseWithID(code), n)
BY NoSaves DEF Creates

LEMMA CreatesByMethod ==
    ASSUME NEW s, NEW n, NEW kind, NEW i, NEW accepted, NEW result
    PROVE  Creates(s, Method(s, kind, i, accepted, result), n)
<1> DEFINE answer == Method(s, kind, i, accepted, result)
<1>1. /\ SavesOf(answer) \subseteq {Save(kind, i, result)}
      /\ s[kind][i] = None => SavesOf(answer) = {}
  BY MethodSaves
<1>2. Save(kind, i, result).kind = kind /\ Save(kind, i, result).id = i
  BY SaveFields
<1> HIDE DEF answer
<1>3. Creates(s, answer, n)
  BY <1>1, <1>2 DEF Creates
<1> QED
  BY <1>3 DEF answer

\* The saves of the answer are one or two that are as they should be.
LEMMA CreatesOne ==
    ASSUME NEW s, NEW n, NEW x,
           x.kind = "cabin" \/ s[x.kind][x.id] # None
    PROVE  \A code : Creates(s, Answer(code, <<{x}>>), n)
<1>1. ASSUME NEW answer, answer.saves = <<{x}>> PROVE Creates(s, answer, n)
  BY <1>1, OneSave DEF Creates
<1> QED
  BY <1>1, Answered

LEMMA CreatesNew ==
    ASSUME NEW s, NEW x
    PROVE  Creates(s, Created(<<{x}>>), x.id)
<1>1. ASSUME NEW answer, answer.saves = <<{x}>>, answer.issues PROVE Creates(s, answer, x.id)
  BY <1>1, OneSave DEF Creates
<1>2. Created(<<{x}>>).issues
  BY DEF Created
<1> QED
  BY <1>1, <1>2, Answered

LEMMA CreatesAfterCabin ==
    ASSUME NEW s, NEW x, NEW y, x.kind = "cabin"
    PROVE  Creates(s, Created(<<{x}, {y}>>), y.id)
<1>1. ASSUME NEW answer, answer.saves = <<{x}, {y}>>, answer.issues PROVE Creates(s, answer, y.id)
  BY <1>1, TwoSaves DEF Creates
<1>2. Created(<<{x}, {y}>>).issues
  BY DEF Created
<1> QED
  BY <1>1, <1>2, Answered

LEMMA CreatesSecond ==
    ASSUME NEW s, NEW n, NEW x, NEW y, x.kind = "cabin", s[y.kind][y.id] # None
    PROVE  \A code : Creates(s, Answer(code, <<{x}, {y}>>), n)
<1>1. ASSUME NEW answer, answer.saves = <<{x}, {y}>> PROVE Creates(s, answer, n)
  BY <1>1, TwoSaves DEF Creates
<1> QED
  BY <1>1, Answered

LEMMA CreationsNumbered ==
    ASSUME NEW s, NEW n, NEW c, NEW inspector, NEW inWindow, NEW linked, NEW plan, NEW b
    PROVE  /\ Creates(s, seedCabin(s, c), n)
           /\ Creates(s, dispatchInspection(s, n, c, inspector, inWindow), n)
           /\ Creates(s, openWorkOrder(s, n, c, linked, inspector), n)
           /\ Creates(s, requestBlackStart(s, n, plan), n)
           /\ Creates(s, initiateGridSync(s, n, b), n)
<1>1. \A kind, id, value : Save(kind, id, value).kind = kind /\ Save(kind, id, value).id = id
  BY SaveFields
<1>2. Creates(s, seedCabin(s, c), n)
  <2> DEFINE save == Save("cabin", c, "operational")
  <2>1. seedCabin(s, c) = Answer(201, <<{save}>>)
    BY DEF seedCabin
  <2>2. save.kind = "cabin"
    BY <1>1
  <2> HIDE DEF save
  <2> QED
    BY <2>1, <2>2, CreatesOne
<1>3. Creates(s, dispatchInspection(s, n, c, inspector, inWindow), n)
  <2> DEFINE busy == Save("cabin", c, BeginInspection(s.cabin[c]))
             created == Save("inspection", n, I!NewInspection(c, inspector))
  <2>1. busy.kind = "cabin" /\ created.id = n
    BY <1>1
  <2>2. dispatchInspection(s, n, c, inspector, inWindow)
          \in {Refuse(404), Refuse(422), RefuseWithID(422), Created(<<{busy}, {created}>>)}
    BY DEF dispatchInspection
  <2> HIDE DEF busy, created
  <2>3. Creates(s, Created(<<{busy}, {created}>>), n)
    BY <2>1, CreatesAfterCabin
  <2> QED
    BY <2>2, <2>3, CreatesNothing
<1>4. Creates(s, openWorkOrder(s, n, c, linked, inspector), n)
  <2> DEFINE busy == Save("cabin", c, BeginMaintenance(s.cabin[c]))
             opened == Save("order", n, W!NewWorkOrder(c, linked, inspector))
  <2>1. busy.kind = "cabin" /\ opened.id = n
    BY <1>1
  <2>2. openWorkOrder(s, n, c, linked, inspector)
          \in {Refuse(404), Created(<<{busy}>> \o <<{opened}>>), Created(<<{opened}>>)}
    BY DEF openWorkOrder
  <2> HIDE DEF busy, opened
  <2>3. Creates(s, Created(<<{busy}, {opened}>>), n) /\ Creates(s, Created(<<{opened}>>), n)
    BY <2>1, CreatesAfterCabin, CreatesNew
  <2>4. <<{busy}>> \o <<{opened}>> = <<{busy}, {opened}>>
    BY Appended
  <2> QED
    BY <2>2, <2>3, <2>4, CreatesNothing
<1>5. Creates(s, requestBlackStart(s, n, plan), n)
  <2> DEFINE save == Save("blackStart", n, B!NewBlackStart(plan))
  <2>1. requestBlackStart(s, n, plan) \in {Refuse(400), Refuse(404), Created(<<{save}>>)}
    BY DEF requestBlackStart
  <2>2. save.id = n
    BY <1>1
  <2> HIDE DEF save
  <2>3. Creates(s, Created(<<{save}>>), n)
    BY <2>2, CreatesNew
  <2> QED
    BY <2>1, <2>3, CreatesNothing
<1>6. Creates(s, initiateGridSync(s, n, b), n)
  <2> DEFINE save == Save("gridSync", n, G!NewGridSync(b))
  <2>1. initiateGridSync(s, n, b) \in {Refuse(404), Refuse(400), Created(<<{save}>>)}
    BY DEF initiateGridSync
  <2>2. save.id = n
    BY <1>1
  <2> HIDE DEF save
  <2>3. Creates(s, Created(<<{save}>>), n)
    BY <2>2, CreatesNew
  <2> QED
    BY <2>1, <2>3, CreatesNothing
<1> QED
  BY <1>2, <1>3, <1>4, <1>5, <1>6

\* Next to the new anomaly and its cabin, a report saves inspections it has listed.
LEMMA ReportNumbered ==
    ASSUME NEW s, NEW n, NEW c, NEW level, NEW t
    PROVE  Creates(s, reportAnomaly(s, n, c, level, t), n)
<1> DEFINE a == A!NewAnomaly(c, level, t)
           frozen == {Save("inspection", i, I!Freeze(s.inspection[i])) : i \in OpenInspections(s, c)}
           locked == Save("cabin", c, Freeze(s.cabin[c]))
           faulty == Save("cabin", c, ReportFault(s.cabin[c]))
           stored == Save("anomaly", n, a)
<1>1. locked.kind = "cabin" /\ faulty.kind = "cabin" /\ stored.id = n
  BY SaveFields
<1>2. \A save \in frozen : save.kind = "inspection" /\ s.inspection[save.id] # None
  <2>1. \A i \in OpenInspections(s, c) : s.inspection[i] # None
    BY DEF OpenInspections
  <2> QED
    BY <2>1, SaveFields
<1>3. \/ reportAnomaly(s, n, c, level, t) \in {Refuse(404), Created(<<{faulty}, {stored}>>)}
      \/ reportAnomaly(s, n, c, level, t) = Created(<<{locked}>> \o AnyOrder(frozen) \o <<{stored}>>)
  BY DEF reportAnomaly
<1> HIDE DEF locked, faulty, stored, frozen
<1>4. Creates(s, Created(<<{faulty}, {stored}>>), n)
  BY <1>1, CreatesAfterCabin
<1>5. Creates(s, Created(<<{locked}>> \o AnyOrder(frozen) \o <<{stored}>>), n)
  <2> DEFINE saves == <<{locked}>> \o AnyOrder(frozen) \o <<{stored}>>
             T == {locked, stored} \cup frozen
  <2>1. \A k \in DOMAIN saves : saves[k] \in {{locked}, frozen, {stored}}
    <3> DEFINE U == {{locked}, frozen, {stored}}
    <3>1. /\ <<{locked}>> \in Seq(U) /\ <<{stored}>> \in Seq(U)
          /\ <<frozen>> \in Seq(U) /\ <<>> \in Seq(U)
      OBVIOUS
    <3>2. AnyOrder(frozen) \in Seq(U)
      BY <3>1 DEF AnyOrder
    <3> HIDE DEF U
    <3>3. saves \in Seq(U)
      BY <3>1, <3>2, ConcatProperties
    <3> HIDE DEF saves
    <3>4. \A k \in DOMAIN saves : saves[k] \in U
      BY <3>3, ElementOfSeq, LenProperties
    <3> QED
      BY <3>4 DEF U
  <2> HIDE DEF saves
  <2>2. Created(saves).saves = saves /\ Created(saves).issues
    BY DEF Created
  <2>3. SavesOf(Created(saves)) \subseteq {locked, stored} \cup frozen
    BY <2>1, <2>2 DEF SavesOf
  <2>4. \A save \in frozen : save.kind = "inspection" /\ s["inspection"][save.id] # None
    BY <1>2
  <2>5. Creates(s, Created(saves), n)
    BY <1>1, <2>2, <2>3, <2>4 DEF Creates
  <2> QED
    BY <2>5 DEF saves
<1> QED
  BY <1>3, <1>4, <1>5, CreatesNothing

LEMMA RoutesNumbered ==
    ASSUME NEW s, Sound(s), NEW i \in IDs, NEW n, NEW t
    PROVE  /\ Creates(s, startInspection(s, i), n) /\ Creates(s, uploadPhoto(s, i), n)
           /\ \A p : Creates(s, reviewInspection(s, i, p), n)
           /\ Creates(s, completeInspection(s, i), n)
           /\ Creates(s, ackAnomaly(s, i, t), n)
           /\ Creates(s, isolateAnomaly(s, i), n) /\ Creates(s, resolveAnomaly(s, i), n)
           /\ Creates(s, startWorkOrder(s, i), n) /\ Creates(s, closeWorkOrder(s, i), n)
           /\ \A p : Creates(s, reviewWorkOrder(s, i, p), n)
           /\ \A role, p : Creates(s, authorizeBlackStart(s, i, role, p), n)
           /\ Creates(s, executeBlackStart(s, i), n) /\ Creates(s, rollbackBlackStart(s, i), n)
           /\ Creates(s, beginSyncing(s, i), n) /\ \A m : Creates(s, verifySync(s, i, m), n)
           /\ Creates(s, connectGrid(s, i), n) /\ Creates(s, beginRetest(s, i), n)
<1>0. \A kind, id, value : Save(kind, id, value).kind = kind /\ Save(kind, id, value).id = id
  BY SaveFields
<1>1. /\ Creates(s, startInspection(s, i), n) /\ Creates(s, uploadPhoto(s, i), n)
      /\ \A p : Creates(s, reviewInspection(s, i, p), n)
  BY CreatesByMethod DEF startInspection, uploadPhoto, reviewInspection
<1>2. Creates(s, completeInspection(s, i), n)
  <2> DEFINE c == s.inspection[i].cabin
             free == Save("cabin", c, FinishInspection(s.cabin[c]))
             completed == Save("inspection", i, I!Complete(s.inspection[i]))
  <2>1. free.kind = "cabin" /\ completed.kind = "inspection" /\ completed.id = i
    BY <1>0
  <2>2. \/ completeInspection(s, i) \in {Refuse(404), Refuse(422)}
        \/ /\ s.inspection[i] # None
           /\ completeInspection(s, i)
                \in {Answer(200, <<{completed}>>), Answer(200, <<{free}, {completed}>>)}
    BY DEF completeInspection
  <2> HIDE DEF free, completed
  <2>3. ASSUME s.inspection[i] # None
        PROVE  /\ Creates(s, Answer(200, <<{completed}>>), n)
               /\ Creates(s, Answer(200, <<{free}, {completed}>>), n)
    <3>1. s[completed.kind][completed.id] # None
      BY <2>1, <2>3
    <3> QED
      BY <2>1, <3>1, CreatesOne, CreatesSecond
  <2> QED
    BY <2>2, <2>3, CreatesNothing
<1>3. Creates(s, ackAnomaly(s, i, t), n)
  <2> DEFINE save == Save("anomaly", i, A!Acknowledge(s.anomaly[i], t))
             code == IF s.anomaly[i].state = "reported" /\ ~A!Late(s.anomaly[i], t) THEN 200 ELSE 422
  <2>1. \/ ackAnomaly(s, i, t) = Refuse(404)
        \/ s.anomaly[i] # None /\ ackAnomaly(s, i, t) = Answer(code, <<{save}>>)
    BY DEF ackAnomaly
  <2>2. save.kind = "anomaly" /\ save.id = i
    BY <1>0
  <2> HIDE DEF save, code
  <2>3. ASSUME s.anomaly[i] # None PROVE Creates(s, Answer(code, <<{save}>>), n)
    <3>1. s[save.kind][save.id] # None
      BY <2>2, <2>3
    <3> QED
      BY <3>1, CreatesOne
  <2> QED
    BY <2>1, <2>3, CreatesNothing
<1>4. ASSUME s.anomaly[i] # None, NEW status, NEW v
      PROVE  Creates(s, Answer(200, CabinThenAnomaly(s, i, status, v)), n)
  <2> DEFINE x == Save("cabin", s.anomaly[i].cabin, status)
             y == Save("anomaly", i, v)
  <2>1. <<{x}>> \o <<{y}>> = <<{x}, {y}>> /\ <<>> \o <<{y}>> = <<{y}>>
    BY Appended
  <2>2. x.kind = "cabin" /\ y.kind = "anomaly" /\ y.id = i
    BY <1>0
  <2>3. CabinThenAnomaly(s, i, status, v) \in {<<{x}, {y}>>, <<{y}>>}
    BY <2>1 DEF CabinThenAnomaly
  <2> HIDE DEF x, y
  <2>4. s[y.kind][y.id] # None
    BY <1>4, <2>2
  <2>5. Creates(s, Answer(200, <<{x}, {y}>>), n) /\ Creates(s, Answer(200, <<{y}>>), n)
    BY <2>2, <2>4, CreatesOne, CreatesSecond
  <2> QED
    BY <2>3, <2>5
<1>5. Creates(s, isolateAnomaly(s, i), n) /\ Creates(s, resolveAnomaly(s, i), n)
  BY <1>4, CreatesNothing DEF isolateAnomaly, resolveAnomaly
<1>6. Creates(s, startWorkOrder(s, i), n) /\ \A p : Creates(s, reviewWorkOrder(s, i, p), n)
  BY CreatesByMethod DEF startWorkOrder, reviewWorkOrder
<1>7. Creates(s, closeWorkOrder(s, i), n)
  <2>1. s.order[i] # None => s.order[i].state # "closed" /\ ~W!CanClose(s.order[i])
    BY DEF Sound, Unsubmitted, W!CanClose
  <2>2. closeWorkOrder(s, i) \in {Refuse(404), Refuse(422)}
    BY <2>1 DEF closeWorkOrder
  <2> QED
    BY <2>2, CreatesNothing
<1>8. /\ \A role, p : Creates(s, authorizeBlackStart(s, i, role, p), n)
      /\ Creates(s, rollbackBlackStart(s, i), n)
  BY CreatesByMethod DEF authorizeBlackStart, rollbackBlackStart
<1>9. Creates(s, executeBlackStart(s, i), n)
  <2>1. CASE s.blackStart[i] = None \/ ~B!CanBeginExecution(s.blackStart[i])
    BY <2>1, CreatesNothing DEF executeBlackStart
  <2>2. CASE s.blackStart[i] # None /\ B!CanBeginExecution(s.blackStart[i])
    <3> DEFINE begun == B!BeginExecution(s.blackStart[i])
               m == Len(begun.cabins) + 2
               value(k) == IF k <= Len(begun.cabins) + 1 THEN Restored(s, begun, k - 1)
                           ELSE B!Complete(Restored(s, begun, Len(begun.cabins)))
               saves == [k \in 1..m |-> {Save("blackStart", i, value(k))}]
    <3>1. executeBlackStart(s, i) = Answer(200, saves)
      BY <2>2 DEF executeBlackStart
    <3>2. executeBlackStart(s, i).saves = saves
      BY <3>1 DEF Answer
    <3>3. \A k \in DOMAIN saves : \A save \in saves[k] : save.kind = "blackStart" /\ save.id = i
      BY <1>0
    <3> HIDE DEF saves
    <3>4. \A save \in SavesOf(executeBlackStart(s, i)) : save.kind = "blackStart" /\ save.id = i
      BY <3>2, <3>3 DEF SavesOf
    <3>5. s["blackStart"][i] # None
      BY <2>2
    <3> QED
      BY <3>4, <3>5 DEF Creates
  <2> QED
    BY <2>1, <2>2
<1>10. ASSUME NEW m PROVE Creates(s, verifySync(s, i, m), n)
  <2> DEFINE save == Save("gridSync", i, G!Verify(s.gridSync[i], m))
             code == IF G!CanVerify(s.gridSync[i]) /\ G!Within(m) THEN 200 ELSE 422
  <2>1. \/ verifySync(s, i, m) = Refuse(422)
        \/ s.gridSync[i] # None /\ verifySync(s, i, m) = Answer(code, <<{save}>>)
    BY DEF verifySync
  <2>2. save.kind = "gridSync" /\ save.id = i
    BY <1>0
  <2> HIDE DEF save, code
  <2>3. ASSUME s.gridSync[i] # None PROVE Creates(s, Answer(code, <<{save}>>), n)
    <3>1. s[save.kind][save.id] # None
      BY <2>2, <2>3
    <3> QED
      BY <3>1, CreatesOne
  <2> QED
    BY <2>1, <2>3, CreatesNothing
<1>11. /\ Creates(s, beginSyncing(s, i), n) /\ Creates(s, connectGrid(s, i), n)
       /\ Creates(s, beginRetest(s, i), n)
  BY CreatesByMethod, CreatesNothing DEF beginSyncing, connectGrid, beginRetest
<1> QED
  BY <1>1, <1>2, <1>3, <1>5, <1>6, <1>7, <1>8, <1>9, <1>10, <1>11

LEMMA RequestNumbered ==
    ASSUME Inv, Request
    PROVE  \E answer : Serve(answer) /\ Creates(mem, answer, NewID)
<1> DEFINE Goal == \E answer : Serve(answer) /\ Creates(mem, answer, NewID)
<1>0. Sound(mem)
  BY StoresSound DEF Inv
<1>1. CASE CabinRequest
  BY <1>1, CreationsNumbered DEF CabinRequest
<1>2. CASE InspectionRequest
  <2>1. ASSUME NEW i \in IDs, \/ Serve(startInspection(mem, i)) \/ Serve(uploadPhoto(mem, i))
                              \/ Serve(completeInspection(mem, i))
                              \/ \E p \in Inspectors : Serve(reviewInspection(mem, i, p))
        PROVE  Goal
    <3>1. /\ Creates(mem, startInspection(mem, i), NewID) /\ Creates(mem, uploadPhoto(mem, i), NewID)
          /\ Creates(mem, completeInspection(mem, i), NewID)
          /\ \A p : Creates(mem, reviewInspection(mem, i, p), NewID)
      BY <1>0, RoutesNumbered
    <3> QED
      BY <2>1, <3>1
  <2>2. ASSUME NEW c \in Cabins, NEW p \in Inspectors, NEW inWindow \in BOOLEAN,
               Serve(dispatchInspection(mem, NewID, c, p, inWindow))
        PROVE  Goal
    <3>1. Creates(mem, dispatchInspection(mem, NewID, c, p, inWindow), NewID)
      BY CreationsNumbered
    <3> QED
      BY <2>2, <3>1
  <2> QED
    BY <1>2, <2>1, <2>2 DEF InspectionRequest
<1>3. CASE AnomalyRequest
  <2>1. ASSUME NEW i \in IDs, Serve(ackAnomaly(mem, i, now)) \/ Serve(isolateAnomaly(mem, i))
                              \/ Serve(resolveAnomaly(mem, i))
        PROVE  Goal
    <3>1. /\ Creates(mem, ackAnomaly(mem, i, now), NewID)
          /\ Creates(mem, isolateAnomaly(mem, i), NewID)
          /\ Creates(mem, resolveAnomaly(mem, i), NewID)
      BY <1>0, RoutesNumbered
    <3> QED
      BY <2>1, <3>1
  <2>2. ASSUME NEW c \in Cabins, NEW level \in Levels,
               Serve(reportAnomaly(mem, NewID, c, level, now))
        PROVE  Goal
    <3>1. Creates(mem, reportAnomaly(mem, NewID, c, level, now), NewID)
      BY ReportNumbered
    <3> QED
      BY <2>2, <3>1
  <2> QED
    BY <1>3, <2>1, <2>2 DEF AnomalyRequest
<1>4. CASE OrderRequest
  <2>1. ASSUME NEW i \in IDs, \/ Serve(startWorkOrder(mem, i)) \/ Serve(closeWorkOrder(mem, i))
                              \/ \E p \in Inspectors : Serve(reviewWorkOrder(mem, i, p))
        PROVE  Goal
    <3>1. /\ Creates(mem, startWorkOrder(mem, i), NewID) /\ Creates(mem, closeWorkOrder(mem, i), NewID)
          /\ \A p : Creates(mem, reviewWorkOrder(mem, i, p), NewID)
      BY <1>0, RoutesNumbered
    <3> QED
      BY <2>1, <3>1
  <2>2. ASSUME NEW c \in Cabins, NEW linked \in IDs \cup {NoAnomaly}, NEW p \in Inspectors,
               Serve(openWorkOrder(mem, NewID, c, linked, p))
        PROVE  Goal
    <3>1. Creates(mem, openWorkOrder(mem, NewID, c, linked, p), NewID)
      BY CreationsNumbered
    <3> QED
      BY <2>2, <3>1
  <2> QED
    BY <1>4, <2>1, <2>2 DEF OrderRequest
<1>5. CASE BlackStartRequest
  <2>1. ASSUME NEW i \in IDs, \/ Serve(executeBlackStart(mem, i)) \/ Serve(rollbackBlackStart(mem, i))
                              \/ \E role \in B!Roles, p \in Principals :
                                    Serve(authorizeBlackStart(mem, i, role, p))
        PROVE  Goal
    <3>1. /\ Creates(mem, executeBlackStart(mem, i), NewID)
          /\ Creates(mem, rollbackBlackStart(mem, i), NewID)
          /\ \A role, p : Creates(mem, authorizeBlackStart(mem, i, role, p), NewID)
      BY <1>0, RoutesNumbered
    <3> QED
      BY <2>1, <3>1
  <2>2. ASSUME NEW plan \in Plans, Serve(requestBlackStart(mem, NewID, plan))
        PROVE  Goal
    <3>1. Creates(mem, requestBlackStart(mem, NewID, plan), NewID)
      BY CreationsNumbered
    <3> QED
      BY <2>2, <3>1
  <2> QED
    BY <1>5, <2>1, <2>2 DEF BlackStartRequest
<1>6. CASE GridSyncRequest
  <2>1. ASSUME NEW i \in IDs, \/ Serve(beginSyncing(mem, i)) \/ Serve(connectGrid(mem, i))
                              \/ Serve(beginRetest(mem, i))
                              \/ \E m \in Readings : Serve(verifySync(mem, i, m))
        PROVE  Goal
    <3>1. /\ Creates(mem, beginSyncing(mem, i), NewID) /\ Creates(mem, connectGrid(mem, i), NewID)
          /\ Creates(mem, beginRetest(mem, i), NewID)
          /\ \A m : Creates(mem, verifySync(mem, i, m), NewID)
      BY <1>0, RoutesNumbered
    <3> QED
      BY <2>1, <3>1
  <2>2. ASSUME NEW b \in Bindings, Serve(initiateGridSync(mem, NewID, b))
        PROVE  Goal
    <3>1. Creates(mem, initiateGridSync(mem, NewID, b), NewID)
      BY CreationsNumbered
    <3> QED
      BY <2>2, <3>1
  <2> QED
    BY <1>6, <2>1, <2>2 DEF GridSyncRequest
<1> QED
  BY <1>1, <1>2, <1>3, <1>4, <1>5, <1>6 DEF Request

RecordKinds == {"inspection", "anomaly", "order", "blackStart", "gridSync"}

\* In the first process every record has an ID that the process has given out.
Numbered ==
    /\ boots = 0 => ~up /\ file = NoFile
    /\ boots <= 1
         => /\ \A kind \in RecordKinds, i \in IDs : mem[kind][i] # None => i <= issued
            /\ request # NoRequest
                 => \A k \in DOMAIN request.saves : \A save \in request.saves[k] :
                       save.kind = "cabin" \/ save.id <= issued
            /\ clone # None => clone.id \in IDs /\ clone.id <= issued

LEMMA ApplyNumbered ==
    ASSUME NEW s \in Store, NEW save \in Saves, NEW m,
           \A kind \in RecordKinds, i \in IDs : s[kind][i] # None => i <= m,
           save.kind = "cabin" \/ save.id <= m
    PROVE  \A kind \in RecordKinds, i \in IDs : Apply(s, save)[kind][i] # None => i <= m
<1> SUFFICES ASSUME NEW kind \in RecordKinds, NEW i \in IDs, Apply(s, save)[kind][i] # None
             PROVE  i <= m
  OBVIOUS
<1> DEFINE t == Apply(s, save)
<1>1. CASE save.kind = kind /\ save.id = i
  BY <1>1 DEF RecordKinds
<1>2. CASE ~(save.kind = kind /\ save.id = i)
  <2>1. CASE save.kind = "cabin"
    BY <2>1, ApplyByKind DEF Store, RecordKinds
  <2>2. CASE save.kind = "inspection"
    BY <1>2, <2>2, ApplyByKind DEF Store, RecordKinds
  <2>3. CASE save.kind = "anomaly"
    BY <1>2, <2>3, ApplyByKind DEF Store, RecordKinds
  <2>4. CASE save.kind = "order"
    BY <1>2, <2>4, ApplyByKind DEF Store, RecordKinds
  <2>5. CASE save.kind = "blackStart"
    BY <1>2, <2>5, ApplyByKind DEF Store, RecordKinds
  <2>6. CASE save.kind = "gridSync"
    BY <1>2, <2>6, ApplyByKind DEF Store, RecordKinds
  <2> QED
    BY <2>1, <2>2, <2>3, <2>4, <2>5, <2>6 DEF Saves
<1> QED
  BY <1>1, <1>2

LEMMA NothingNumbered ==
    /\ \A kind \in RecordKinds, i \in IDs : EmptyStore[kind][i] = None
    /\ \A kind \in RecordKinds, i \in IDs : seedIfEmpty(EmptyStore)[kind][i] = None
<1>1. \A kind \in RecordKinds, i \in IDs : EmptyStore[kind][i] = None
  BY DEF RecordKinds, EmptyStore
<1>2. \A kind \in RecordKinds : seedIfEmpty(EmptyStore)[kind] = EmptyStore[kind]
  BY DEF RecordKinds, seedIfEmpty, EmptyStore
<1> QED
  BY <1>1, <1>2

LEMMA BootNumbered ==
    ASSUME Inv, Numbered, Boot
    PROVE  Numbered'
<1>1. /\ boots' = boots + 1 /\ boots \in Nat /\ mem' = seedIfEmpty(Load)
      /\ request' = NoRequest /\ clone' = None
  BY BoundsAssumption DEF Boot, Inv, TypeOK, Down, server, worker
<1>2. boots' # 0 /\ (boots' <= 1 => boots = 0)
  BY <1>1
<1>3. boots = 0 => \A kind \in RecordKinds, i \in IDs : mem'[kind][i] = None
  BY <1>1, NothingNumbered DEF Numbered, Load
<1> QED
  BY <1>1, <1>2, <1>3 DEF Numbered

LEMMA ExitNumbered ==
    ASSUME Inv, Numbered, Exit
    PROVE  Numbered'
<1>1. /\ boots' = boots /\ boots # 0 /\ mem' = EmptyStore
      /\ request' = NoRequest /\ clone' = None
  BY DEF Exit, Numbered
<1> QED
  BY <1>1, NothingNumbered DEF Numbered

LEMMA RequestKeepsNumbered ==
    ASSUME Inv, Numbered, Request
    PROVE  Numbered'
<1>1. PICK answer : Serve(answer) /\ Creates(mem, answer, NewID)
  BY RequestNumbered
<1>2. /\ UNCHANGED <<up, mem, file, clone, boots>> /\ issued \in Nat
      /\ issued' = IF answer.issues THEN issued + 1 ELSE issued
      /\ request' = NoRequest \/ request' = [code |-> answer.code, saves |-> answer.saves]
      /\ mem \in Store
  BY <1>1, BoundsAssumption DEF Request, Serve, worker, Inv, TypeOK
<1>3. issued' \in Nat /\ issued <= issued'
  BY <1>2
<1>4. ASSUME NEW i \in IDs, i <= issued PROVE i <= issued'
  BY <1>2, <1>3, <1>4 DEF IDs
<1>5. CASE boots <= 1
  <2>1. \A kind \in RecordKinds, i \in IDs : mem'[kind][i] # None => i <= issued'
    BY <1>2, <1>4, <1>5 DEF Numbered
  <2>2. clone' # None => clone'.id \in IDs /\ clone'.id <= issued'
    <3> SUFFICES ASSUME clone # None PROVE clone.id \in IDs /\ clone.id <= issued'
      BY <1>2
    <3> QED
      BY <1>4, <1>5 DEF Numbered
  <2>3. ASSUME request' # NoRequest, NEW k \in DOMAIN request'.saves, NEW save \in request'.saves[k],
               save.kind # "cabin"
        PROVE  save.id <= issued'
    <3>1. request'.saves = answer.saves
      BY <1>2, <2>3
    <3>2. save \in Saves
      <4>1. request'.saves \in Seq(SUBSET Saves)
        BY <2>3, RequestKeepsInv DEF Inv, TypeOK, Saves
      <4>2. request'.saves[k] \in SUBSET Saves
        BY <2>3, <4>1, ElementOfSeq, LenProperties
      <4> QED
        BY <2>3, <4>2
    <3>3. save.kind \in RecordKinds /\ save.id \in IDs
      BY <2>3, <3>2 DEF Saves, RecordKinds
    <3>4. save \in SavesOf(answer)
      BY <2>3, <3>1 DEF SavesOf
    <3>5. CASE mem[save.kind][save.id] # None
      BY <1>4, <1>5, <3>3, <3>5 DEF Numbered
    <3>6. CASE answer.issues /\ save.id = NewID
      BY <1>2, <3>6 DEF NewID
    <3> QED
      BY <1>1, <2>3, <3>4, <3>5, <3>6 DEF Creates
  <2> QED
    BY <1>2, <1>5, <2>1, <2>2, <2>3 DEF Numbered
<1> QED
  BY <1>2, <1>5 DEF Numbered

LEMMA SaveNextKeepsNumbered ==
    ASSUME Inv, Numbered, SaveNext
    PROVE  Numbered'
<1>1. /\ mem \in Store /\ request.saves \in Seq(SUBSET Saves) /\ request.saves # <<>>
      /\ request # NoRequest /\ UNCHANGED <<up, file, issued, clone, boots>>
  BY DEF Inv, TypeOK, Pending, SaveNext, worker
<1> DEFINE left(save) == AnyOrder(Head(request.saves) \ {save}) \o Tail(request.saves)
<1>2. PICK x \in Head(request.saves) :
         /\ mem' = Apply(mem, x)
         /\ request' = IF left(x) = <<>> THEN NoRequest
                       ELSE [request EXCEPT !.saves = left(x)]
  BY DEF SaveNext
<1>3. \E d \in {0, 1} : \A k \in DOMAIN left(x) :
         k + d \in DOMAIN request.saves /\ left(x)[k] \subseteq request.saves[k + d]
  BY <1>1, LeftOver
<1> HIDE DEF left
<1>4. request' = NoRequest \/ request'.saves = left(x)
  BY <1>1, <1>2 DEF Inv, TypeOK
<1>5. x \in Saves /\ 1 \in DOMAIN request.saves /\ x \in request.saves[1]
  <2>1. Head(request.saves) \in SUBSET Saves /\ Head(request.saves) = request.saves[1]
    BY <1>1, HeadTailProperties
  <2>2. /\ Len(request.saves) \in Nat /\ Len(request.saves) >= 1
        /\ DOMAIN request.saves = 1..Len(request.saves)
    BY <1>1, EmptySeq, LenProperties
  <2> QED
    BY <2>1, <2>2
<1>6. CASE boots <= 1
  <2>1. x.kind = "cabin" \/ x.id <= issued
    BY <1>1, <1>5, <1>6 DEF Numbered
  <2>2. \A kind \in RecordKinds, i \in IDs : mem'[kind][i] # None => i <= issued'
    BY <1>1, <1>2, <1>5, <1>6, <2>1, ApplyNumbered DEF Numbered
  <2>3. ASSUME request' # NoRequest, NEW k \in DOMAIN request'.saves, NEW save \in request'.saves[k]
        PROVE  save.kind = "cabin" \/ save.id <= issued'
    <3>1. PICK d \in {0, 1} : k + d \in DOMAIN request.saves /\ save \in request.saves[k + d]
      BY <1>3, <1>4, <2>3
    <3> QED
      BY <1>1, <1>6, <3>1 DEF Numbered
  <2> QED
    BY <1>1, <1>6, <2>2, <2>3 DEF Numbered
<1> QED
  BY <1>1, <1>6 DEF Numbered

LEMMA SaveCloneKeepsNumbered ==
    ASSUME Inv, Numbered, SaveClone
    PROVE  Numbered'
<1>1. /\ mem' = Apply(mem, clone) /\ clone' = None /\ clone # None /\ request' = request
      /\ mem \in Store /\ clone \in Saves /\ UNCHANGED <<up, file, issued, boots>>
  BY DEF Inv, TypeOK, SaveClone, server
<1>2. boots <= 1
        => \A kind \in RecordKinds, i \in IDs : mem'[kind][i] # None => i <= issued'
  BY <1>1, ApplyNumbered DEF Numbered
<1> QED
  BY <1>1, <1>2 DEF Numbered

LEMMA LoopKeepsNumbered ==
    ASSUME Inv, Numbered, Escalate \/ PrepareRetest
    PROVE  Numbered'
<1>1. /\ UNCHANGED <<up, mem, file, request, issued, boots>> /\ list \subseteq IDs
  BY DEF Escalate, PrepareRetest, server, Inv, TypeOK
<1>2. ASSUME boots <= 1, clone' # None PROVE clone'.id \in IDs /\ clone'.id <= issued
  <2>1. CASE Escalate
    <3>1. PICK i \in list : clone' = Save("anomaly", i, A!Escalate(mem.anomaly[i]))
      BY <1>2, <2>1 DEF Escalate
    <3>2. clone'.id = i /\ mem["anomaly"][i] # None /\ "anomaly" \in RecordKinds
      BY <2>1, <3>1 DEF Save, Inv, Listed, Escalate, At, RecordKinds
    <3> QED
      BY <1>1, <1>2, <3>1, <3>2 DEF Numbered
  <2>2. CASE PrepareRetest
    <3>1. PICK i \in list : clone' = Save("gridSync", i, G!BeginRetest(mem.gridSync[i]))
      BY <1>2, <2>2 DEF PrepareRetest
    <3>2. clone'.id = i /\ mem["gridSync"][i] # None /\ "gridSync" \in RecordKinds
      BY <2>2, <3>1 DEF Save, Inv, Listed, PrepareRetest, At, RecordKinds
    <3> QED
      BY <1>1, <1>2, <3>1, <3>2 DEF Numbered
  <2> QED
    BY <2>1, <2>2
<1> QED
  BY <1>1, <1>2 DEF Numbered

LEMMA NumberedStep == Inv /\ Numbered /\ [Next]_vars => Numbered'
<1> SUFFICES ASSUME Inv, Numbered, [Next]_vars PROVE Numbered'
  OBVIOUS
<1>1. CASE Rename \/ SnapshotFails
  <2>1. /\ UNCHANGED <<up, mem, request, issued, clone, boots>>
        /\ stage # "idle" /\ (file' = file \/ up)
    BY <1>1 DEF Rename, SnapshotFails, SnapshotOver, server, Inv, Down
  <2> QED
    BY <2>1 DEF Numbered
<1>2. CASE BeginPass \/ ListRetests \/ PassSnapshot \/ LastSnapshot \/ Tick \/ UNCHANGED vars
  <2>1. UNCHANGED <<up, mem, file, request, issued, clone, boots>>
    BY <1>2 DEF BeginPass, ListRetests, PassSnapshot, LastSnapshot, Snapshot, Tick, vars,
       server, worker
  <2> QED
    BY <2>1 DEF Numbered
<1> QED
  BY <1>1, <1>2, BootNumbered, ExitNumbered, RequestKeepsNumbered, SaveNextKeepsNumbered,
     SaveCloneKeepsNumbered, LoopKeepsNumbered DEF Next, WorkerStep

LEMMA NumberedInvariant == Spec => []Numbered
<1>1. Init => Numbered
  BY NothingNumbered DEF Init, Numbered
<1> QED
  BY <1>1, NumberedStep, Invariant, PTL DEF Spec

\* The process that has created the data file replaces no record by a new one: it
\* takes a restart for an ID to be given out that is in use.
THEOREM FirstIDsUnusedHolds == Spec => FirstIDsUnused
<1>1. Inv /\ Numbered /\ [Next]_vars => [boots = 1 => CreatedIsNew]_vars
  <2> SUFFICES ASSUME Inv, Numbered, boots = 1, [Next]_vars,
                      request = NoRequest, request' # NoRequest,
                      NEW k \in DOMAIN request'.saves, NEW save \in request'.saves[k],
                      save.id = NewID, save.kind # "cabin"
               PROVE  mem[save.kind][save.id] = None
    BY DEF CreatedIsNew
  <2>1. save \in Saves
    <3>1. request'.saves \in Seq(SUBSET Saves)
      BY InvStep DEF Inv, TypeOK, Saves
    <3>2. request'.saves[k] \in SUBSET Saves
      BY <3>1, ElementOfSeq, LenProperties
    <3> QED
      BY <3>2
  <2>2. save.kind \in RecordKinds /\ save.id \in IDs /\ issued \in Nat
    BY <2>1, BoundsAssumption DEF Saves, RecordKinds, Inv, TypeOK
  <2>3. ~(save.id <= issued)
    BY <2>2 DEF NewID
  <2> QED
    BY <2>2, <2>3 DEF Numbered
<1> QED
  BY <1>1, Invariant, NumberedInvariant, PTL DEF Spec, FirstIDsUnused

=============================================================================
