------------------------ MODULE GridSwitching_proofs ------------------------
(***************************************************************************)
(* Theorems about grid switching and their proofs.                         *)
(*                                                                         *)
(* Every step that adds a record either creates one or applies one method  *)
(* to a stored record.  So a predicate on records that new records have    *)
(* and every method keeps holds of all records, in whatever order the      *)
(* clones are saved.                                                       *)
(***************************************************************************)
EXTENDS GridSwitching, TLAPS

-----------------------------------------------------------------------------
(* The methods                                                             *)

\* What a goroutine may save after it has loaded g.
Results(g) ==
    {Verify(g, m) : m \in Readings}
    \cup {BeginSyncing(h) : h \in {x \in {g} : CanBeginSyncing(x)}}
    \cup {Connect(h) : h \in {x \in {g} : CanConnect(x)}}
    \cup {BeginRetest(h) : h \in {x \in {g} : CanBeginRetest(x)}}

\* The methods return records of the right shape.
LEMMA ResultsTyped ==
    ASSUME NEW g \in GridSyncRecord
    PROVE  Results(g) \subseteq GridSyncRecord
<1>1. BeginSyncing(g) \in GridSyncRecord
  BY DEF BeginSyncing, GridSyncRecord, GridSyncState
<1>2. ASSUME NEW m \in Readings PROVE Verify(g, m) \in GridSyncRecord
  <2>1. m \in SUBSET Parameters
    BY ReadingsAssumption
  <2>2. faultCodeFor(m) \in FaultCodes
    BY DEF faultCodeFor, FaultCodes
  <2>3. g.attempt + 1 \in Nat
    BY DEF GridSyncRecord
  <2> QED
    BY <2>1, <2>2, <2>3 DEF Verify, fail, GridSyncRecord, GridSyncState
<1>3. Connect(g) \in GridSyncRecord
  BY DEF Connect, GridSyncRecord, GridSyncState
<1>4. BeginRetest(g) \in GridSyncRecord
  BY DEF BeginRetest, GridSyncRecord, GridSyncState
<1> QED
  BY <1>1, <1>2, <1>3, <1>4 DEF Results

LEMMA NewTyped ==
    \A b \in BlackStarts \cup {Standalone} : NewGridSync(b) \in GridSyncRecord
BY DEF NewGridSync, GridSyncRecord, GridSyncState

\* A connection, and a fall-back, are recorded with the reading behind them.
Sound(g) == OnGoodReading(g) /\ FellBack(g)

LEMMA ResultsSound ==
    ASSUME NEW g \in GridSyncRecord, Sound(g), NEW h \in Results(g)
    PROVE  Sound(h)
<1>1. Sound(BeginSyncing(g))
  BY DEF Sound, OnGoodReading, FellBack, BeginSyncing, GridSyncRecord
<1>2. ASSUME NEW m \in Readings PROVE Sound(Verify(g, m))
  <2>1. m \in SUBSET Parameters /\ m # NoReading
    BY ReadingsAssumption, NoReadingAssumption
  <2>2. CASE ~CanVerify(g)
    BY <2>2 DEF Verify
  <2>3. CASE CanVerify(g) /\ Within(m)
    BY <2>3 DEF Verify, CanVerify, Within, Sound, OnGoodReading, FellBack, GridSyncRecord
  <2>4. CASE CanVerify(g) /\ ~Within(m)
    <3>1. g.attempt + 1 > 0
      BY DEF GridSyncRecord
    <3> QED
      BY <2>1, <2>4, <3>1 DEF Verify, fail, Sound, OnGoodReading, FellBack, GridSyncRecord
  <2> QED
    BY <2>2, <2>3, <2>4
<1>3. CanConnect(g) => Sound(Connect(g))
  BY DEF CanConnect, Connect, Sound, OnGoodReading, FellBack, GridSyncRecord
<1>4. CanBeginRetest(g) => Sound(BeginRetest(g))
  BY DEF CanBeginRetest, BeginRetest, Sound, OnGoodReading, FellBack, GridSyncRecord
<1> QED
  BY <1>1, <1>2, <1>3, <1>4 DEF Results

LEMMA NewSound == \A b \in BlackStarts \cup {Standalone} : Sound(NewGridSync(b))
BY DEF NewGridSync, Sound, OnGoodReading, FellBack

-----------------------------------------------------------------------------
(* The steps                                                               *)

\* The clone u is about to save is new, or the result of a method on what is
\* stored under its ID.
Drafted(u) ==
    /\ draft[u] = Idle
    /\ \E g \in SyncIDs, r \in GridSyncRecord :
          /\ draft' = [draft EXCEPT ![u] = [id |-> g, record |-> r, loaded |-> sync[g]]]
          /\ \/ sync[g] = NoSync /\ \E b \in BlackStarts \cup {Standalone} : r = NewGridSync(b)
             \/ sync[g] # NoSync /\ r \in Results(sync[g])
    /\ UNCHANGED sync

\* Every step drafts, saves, or leaves all records alone.
LEMMA StepsOfRecords ==
    ASSUME TypeOK, [Next]_vars
    PROVE  \/ \E u \in Clients : Drafted(u)
           \/ \E u \in Clients : SaveGridSync(u)
           \/ UNCHANGED <<sync, draft>>
<1>1. ASSUME NEW u \in Callers, NEW g \in SyncIDs, NEW b \in BlackStarts \cup {Standalone},
             InitiateGridSync(u, g, b)
      PROVE  Drafted(u)
  BY <1>1, NewTyped DEF InitiateGridSync, Drafted, Issued
<1>2. ASSUME NEW u \in Clients, NEW g \in SyncIDs, NEW r \in Results(sync[g]),
             Prepare(u, g, r), UNCHANGED sync
      PROVE  Drafted(u)
  <2>1. sync[g] \in GridSyncRecord
    BY <1>2 DEF Prepare, TypeOK
  <2> QED
    BY <1>2, <2>1, ResultsTyped DEF Prepare, Drafted
<1>3. ASSUME NEW u \in Callers, NEW g \in SyncIDs,
             \/ BeginSyncingOp(u, g)
             \/ \E m \in Readings : VerifySync(u, g, m)
             \/ ConnectGrid(u, g)
             \/ BeginRetestOp(u, g)
      PROVE  Drafted(u)
  BY <1>2, <1>3 DEF BeginSyncingOp, VerifySync, ConnectGrid, BeginRetestOp, Results, Clients
<1>4. ASSUME NEW w \in Workers, NEW g \in SyncIDs, PrepareRetest(w, g)
      PROVE  Drafted(w) \/ UNCHANGED <<sync, draft>>
  BY <1>2, <1>4 DEF PrepareRetest, Results, Clients
<1>5. ASSUME NEW w \in Workers, Tick(w) PROVE UNCHANGED <<sync, draft>>
  BY <1>5 DEF Tick
<1>6. ASSUME NEW b \in BlackStarts, CompleteBlackStart(b) \/ RollbackBlackStart(b)
      PROVE  UNCHANGED <<sync, draft>>
  BY <1>6 DEF CompleteBlackStart, RollbackBlackStart
<1> QED
  BY <1>1, <1>3, <1>4, <1>5, <1>6 DEF Next, WorkerStep, Clients, vars

-----------------------------------------------------------------------------
(* Type correctness                                                        *)

LEMMA NextTyped == TypeOK /\ [Next]_vars => TypeOK'
<1> SUFFICES ASSUME TypeOK, [Next]_vars PROVE TypeOK'
  OBVIOUS
<1>1. completed' \subseteq BlackStarts /\ pending' \in [Workers -> SUBSET SyncIDs]
  BY DEF TypeOK, Next, vars, InitiateGridSync, BeginSyncingOp, VerifySync, ConnectGrid,
         BeginRetestOp, SaveGridSync, WorkerStep, Tick, PrepareRetest,
         SyncFailuresNeedingRetest, CompleteBlackStart, RollbackBlackStart
<1>2. /\ sync' \in [SyncIDs -> GridSyncRecord \cup {NoSync}]
      /\ draft' \in [Clients -> Drafts \cup {Idle}]
  <2>1. ASSUME NEW u \in Clients, Drafted(u)
        PROVE  sync' = sync /\ draft' \in [Clients -> Drafts \cup {Idle}]
    BY <2>1 DEF Drafted, Drafts, TypeOK
  <2>2. ASSUME NEW u \in Clients, SaveGridSync(u)
        PROVE  /\ sync' \in [SyncIDs -> GridSyncRecord \cup {NoSync}]
               /\ draft' \in [Clients -> Drafts \cup {Idle}]
    <3>1. draft[u].id \in SyncIDs /\ draft[u].record \in GridSyncRecord
      BY <2>2 DEF SaveGridSync, TypeOK, Drafts
    <3> QED
      BY <2>2, <3>1 DEF SaveGridSync, TypeOK
  <2> QED
    BY <2>1, <2>2, StepsOfRecords DEF TypeOK
<1> QED
  BY <1>1, <1>2 DEF TypeOK

\* The variables keep their types.
THEOREM TypeCorrect == Spec => []TypeOK
<1>1. Init => TypeOK
  BY DEF Init, TypeOK
<1> QED
  BY <1>1, NextTyped, PTL DEF Spec

-----------------------------------------------------------------------------
(* Every record is sound                                                   *)

RecordsInv ==
    /\ \A g \in SyncIDs : sync[g] # NoSync => Sound(sync[g])
    /\ \A u \in Clients : draft[u] # Idle => Sound(draft[u].record)

LEMMA NextKeepsRecords == TypeOK /\ RecordsInv /\ [Next]_vars => RecordsInv'
<1> SUFFICES ASSUME TypeOK, RecordsInv, [Next]_vars PROVE RecordsInv'
  OBVIOUS
<1>1. ASSUME NEW u \in Clients, Drafted(u) PROVE RecordsInv'
  <2>1. PICK g \in SyncIDs, r \in GridSyncRecord :
          /\ draft' = [draft EXCEPT ![u] = [id |-> g, record |-> r, loaded |-> sync[g]]]
          /\ \/ sync[g] = NoSync /\ \E b \in BlackStarts \cup {Standalone} : r = NewGridSync(b)
             \/ sync[g] # NoSync /\ r \in Results(sync[g])
    BY <1>1 DEF Drafted
  <2>2. Sound(r)
    BY <2>1, NewSound, ResultsSound DEF RecordsInv, TypeOK
  <2>3. \A v \in Clients : draft'[v] = IF v = u THEN [id |-> g, record |-> r, loaded |-> sync[g]] ELSE draft[v]
    BY <2>1 DEF TypeOK
  <2> QED
    BY <1>1, <2>2, <2>3 DEF RecordsInv, Drafted
<1>2. ASSUME NEW u \in Clients, SaveGridSync(u) PROVE RecordsInv'
  BY <1>2 DEF SaveGridSync, RecordsInv, TypeOK
<1>3. CASE UNCHANGED <<sync, draft>>
  BY <1>3 DEF RecordsInv
<1> QED
  BY <1>1, <1>2, <1>3, StepsOfRecords

LEMMA RecordsSound == Spec => []RecordsInv
<1>1. Init => RecordsInv
  BY DEF Init, RecordsInv
<1> QED
  BY <1>1, TypeCorrect, NextKeepsRecords, PTL DEF Spec

\* Nothing is verified or connected unless its last reading was in band.
THEOREM BreakerHolds == Spec => []BreakerOnGoodReading
<1>1. RecordsInv => BreakerOnGoodReading
  BY DEF RecordsInv, BreakerOnGoodReading, Records, Sound
<1> QED
  BY <1>1, RecordsSound, PTL

\* Failures are recorded in full, and counted failures have been notified.
THEOREM FallbackHolds == Spec => []FallbackRecorded
<1>1. RecordsInv => FallbackRecorded
  BY DEF RecordsInv, FallbackRecorded, Records, Sound
<1> QED
  BY <1>1, RecordsSound, PTL

-----------------------------------------------------------------------------
(* What only stale saves do                                                *)
(*                                                                         *)
(* A clone that is up to date when it is saved is one method away from     *)
(* what is stored.  So what no method does takes a stale clone.            *)

\* The clone that u holds is new, or the result of a method on what it loaded.
Made(u) ==
    draft[u] # Idle =>
       \/ draft[u].loaded = NoSync
          /\ \E b \in BlackStarts \cup {Standalone} : draft[u].record = NewGridSync(b)
       \/ draft[u].loaded # NoSync /\ draft[u].record \in Results(draft[u].loaded)

ClonesMade == \A u \in Clients : Made(u)

LEMMA NextKeepsClones == TypeOK /\ ClonesMade /\ [Next]_vars => ClonesMade'
<1> SUFFICES ASSUME TypeOK, ClonesMade, [Next]_vars, NEW v \in Clients
             PROVE  Made(v)'
  BY DEF ClonesMade
<1>1. ASSUME NEW u \in Clients, Drafted(u) PROVE Made(v)'
  <2>1. PICK g \in SyncIDs, r \in GridSyncRecord :
          /\ draft' = [draft EXCEPT ![u] = [id |-> g, record |-> r, loaded |-> sync[g]]]
          /\ \/ sync[g] = NoSync /\ \E b \in BlackStarts \cup {Standalone} : r = NewGridSync(b)
             \/ sync[g] # NoSync /\ r \in Results(sync[g])
    BY <1>1 DEF Drafted
  <2>2. draft'[v] = IF v = u THEN [id |-> g, record |-> r, loaded |-> sync[g]] ELSE draft[v]
    BY <2>1 DEF TypeOK
  <2>3. CASE v = u
    BY <2>1, <2>2, <2>3 DEF Made
  <2>4. CASE v # u
    BY <2>2, <2>4 DEF Made, ClonesMade
  <2> QED
    BY <2>3, <2>4
<1>2. ASSUME NEW u \in Clients, SaveGridSync(u) PROVE Made(v)'
  BY <1>2 DEF SaveGridSync, Made, ClonesMade, TypeOK
<1>3. CASE UNCHANGED <<sync, draft>>
  BY <1>3 DEF Made, ClonesMade
<1> QED
  BY <1>1, <1>2, <1>3, StepsOfRecords

\* Every clone in every behaviour is made from what its goroutine loaded.
LEMMA AllClonesMade == Spec => []ClonesMade
<1>1. Init => ClonesMade
  BY DEF Init, ClonesMade, Made
<1> QED
  BY <1>1, TypeCorrect, NextKeepsClones, PTL DEF Spec

\* A step leaves a stored record alone, applies one method to it, or saves a
\* stale clone over it.
LEMMA MethodOrStale ==
    ASSUME TypeOK, ClonesMade, [Next]_vars, NEW g \in SyncIDs, sync[g] # NoSync
    PROVE  sync'[g] = sync[g] \/ sync'[g] \in Results(sync[g]) \/ StaleSave(g)
<1>1. ASSUME NEW u \in Clients, Drafted(u) PROVE sync'[g] = sync[g]
  BY <1>1 DEF Drafted
<1>2. ASSUME NEW u \in Clients, SaveGridSync(u)
      PROVE  sync'[g] = sync[g] \/ sync'[g] \in Results(sync[g]) \/ StaleSave(g)
  <2>1. draft[u] # Idle /\ draft'[u] = Idle /\ Made(u)
    BY <1>2 DEF SaveGridSync, TypeOK, ClonesMade
  <2>2. CASE draft[u].id # g
    BY <1>2, <2>2 DEF SaveGridSync, TypeOK
  <2>3. CASE draft[u].id = g /\ draft[u].loaded # sync[g]
    BY <2>1, <2>3 DEF StaleSave
  <2>4. CASE draft[u].id = g /\ draft[u].loaded = sync[g]
    BY <1>2, <2>1, <2>4 DEF SaveGridSync, TypeOK, Made
  <2> QED
    BY <2>2, <2>3, <2>4
<1> QED
  BY <1>1, <1>2, StepsOfRecords

\* No method takes a connected operation out of its terminal state.
LEMMA MethodsKeepTerminal ==
    ASSUME NEW g, IsTerminal(g), NEW h \in Results(g)
    PROVE  h = g
BY DEF Results, IsTerminal, Verify, CanVerify, CanBeginSyncing, CanConnect, CanBeginRetest

LEMMA ReopeningStep ==
    TypeOK /\ ClonesMade /\ [Next]_vars =>
        [\A g \in SyncIDs :
           /\ sync[g] # NoSync /\ IsTerminal(sync[g])
           /\ ~IsTerminal(sync'[g])
           => StaleSave(g)]_vars
BY MethodOrStale, MethodsKeepTerminal

\* Only a verified operation becomes connected by a method.
LEMMA MethodsConnectVerified ==
    ASSUME NEW g \in GridSyncRecord, ~IsTerminal(g), NEW h \in Results(g), IsTerminal(h)
    PROVE  g.state = "verified"
<1>1. \A m \in Readings : ~IsTerminal(Verify(g, m))
  BY DEF Verify, fail, IsTerminal, GridSyncRecord
<1>2. ~IsTerminal(BeginSyncing(g)) /\ ~IsTerminal(BeginRetest(g))
  BY DEF BeginSyncing, BeginRetest, IsTerminal, GridSyncRecord
<1> QED
  BY <1>1, <1>2 DEF Results, CanConnect

LEMMA ConnectingStep ==
    TypeOK /\ RecordsInv /\ ClonesMade /\ [Next]_vars =>
        [\A g \in SyncIDs :
           /\ sync[g] # NoSync /\ ~IsTerminal(sync[g])
           /\ IsTerminal(sync'[g])
           /\ ~(sync[g].reading = {} /\ sync[g].faultCode = NoFault)
           => StaleSave(g)]_vars
<1> SUFFICES ASSUME TypeOK, RecordsInv, ClonesMade, [Next]_vars,
                    NEW g \in SyncIDs, sync[g] # NoSync, ~IsTerminal(sync[g]),
                    IsTerminal(sync'[g]), ~StaleSave(g)
             PROVE  sync[g].reading = {} /\ sync[g].faultCode = NoFault
  OBVIOUS
<1>1. sync[g] \in GridSyncRecord /\ OnGoodReading(sync[g])
  BY DEF TypeOK, RecordsInv, Sound
<1>2. sync'[g] \in Results(sync[g])
  BY MethodOrStale
<1>3. sync[g].state = "verified"
  BY <1>1, <1>2, MethodsConnectVerified
<1> QED
  BY <1>1, <1>3 DEF OnGoodReading

\* With any number of goroutines and the worker, nothing but a stale save takes a
\* connected operation out of its terminal state.
THEOREM ReopenedOnlyByStaleSaveHolds == Spec => ReopenedOnlyByStaleSave
BY AllClonesMade, ReopeningStep, TypeCorrect, PTL DEF Spec, ReopenedOnlyByStaleSave

\* With any number of goroutines and the worker, nothing but a stale save connects
\* an operation whose last stored reading is not a good one.
THEOREM PassedOverOnlyByStaleSaveHolds == Spec => PassedOverOnlyByStaleSave
BY AllClonesMade, ConnectingStep, RecordsSound, TypeCorrect, PTL
   DEF Spec, PassedOverOnlyByStaleSave

=============================================================================
