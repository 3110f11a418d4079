---------------------------- MODULE GridSwitching ----------------------------
(***************************************************************************)
(* Off-grid/on-grid switching (internal/service/gridsync.go) and the part  *)
(* of the background worker that prepares retests (internal/worker).       *)
(*                                                                         *)
(* Each request runs in its own goroutine and so does the worker; nothing  *)
(* orders them.  Every operation loads a clone of the stored record, calls *)
(* one method on it and saves the clone over whatever is stored by then.   *)
(* The clone belongs to its call, so the step that loads it also changes   *)
(* it; the save is a step of its own.  loaded is history: what the store   *)
(* had when the clone was made, for stating what a stale save does.        *)
(***************************************************************************)
EXTENDS GridSync, FiniteSets

CONSTANTS
    SyncIDs,
    Callers,      \* request goroutines
    Workers,      \* the background worker, or nobody
    Readings,     \* readings the synchronizer may deliver
    MaxAttempts,  \* bound on the failures of one operation
    NoSync, Idle

ASSUME ReadingsAssumption == Readings \subseteq SUBSET Parameters
ASSUME CallersAssumption == Callers \cap Workers = {}
ASSUME NullAssumption ==
    /\ NoSync \notin GridSyncRecord
    /\ Idle \notin [id : SyncIDs, record : GridSyncRecord, loaded : GridSyncRecord \cup {NoSync}]

VARIABLES
    completed,  \* the black starts stored as completed
    sync,       \* the store's grid syncs
    draft,      \* the clone each goroutine is about to save
    pending     \* the failures the worker's pass has still to handle

vars == <<completed, sync, draft, pending>>

Clients == Callers \cup Workers

\* A new operation was loaded from nothing.
Drafts == [id : SyncIDs, record : GridSyncRecord, loaded : GridSyncRecord \cup {NoSync}]

\* Types of the variables.
TypeOK ==
    /\ completed \subseteq BlackStarts
    /\ sync \in [SyncIDs -> GridSyncRecord \cup {NoSync}]
    /\ draft \in [Clients -> Drafts \cup {Idle}]
    /\ pending \in [Workers -> SUBSET SyncIDs]

Init ==
    /\ completed \in SUBSET BlackStarts
    /\ sync = [g \in SyncIDs |-> NoSync]
    /\ draft = [u \in Clients |-> Idle]
    /\ pending = [w \in Workers |-> {}]

-----------------------------------------------------------------------------
\* The load of the operation g: what u is about to save is the record it finds,
\* changed by one method.
Prepare(u, g, record) ==
    /\ draft[u] = Idle
    /\ sync[g] # NoSync
    /\ draft' = [draft EXCEPT ![u] = [id |-> g, record |-> record, loaded |-> sync[g]]]

\* A fresh ID is one that no stored record and no clone has.
Issued(g) == sync[g] # NoSync \/ \E u \in Clients : draft[u] # Idle /\ draft[u].id = g

InitiateGridSync(u, g, b) ==
    /\ draft[u] = Idle
    /\ ~Issued(g)
    /\ b \in completed \cup {Standalone}
    /\ draft' = [draft EXCEPT ![u] = [id |-> g, record |-> NewGridSync(b), loaded |-> sync[g]]]
    /\ UNCHANGED <<completed, sync, pending>>

BeginSyncingOp(u, g) ==
    /\ Prepare(u, g, BeginSyncing(sync[g]))
    /\ CanBeginSyncing(sync[g])
    /\ UNCHANGED <<completed, sync, pending>>

\* The clone is saved whether Verify passed, failed or refused.
VerifySync(u, g, m) ==
    /\ Prepare(u, g, Verify(sync[g], m))
    /\ Within(m) \/ sync[g].attempt < MaxAttempts
    /\ UNCHANGED <<completed, sync, pending>>

ConnectGrid(u, g) ==
    /\ Prepare(u, g, Connect(sync[g]))
    /\ CanConnect(sync[g])
    /\ UNCHANGED <<completed, sync, pending>>

BeginRetestOp(u, g) ==
    /\ Prepare(u, g, BeginRetest(sync[g]))
    /\ CanBeginRetest(sync[g])
    /\ UNCHANGED <<completed, sync, pending>>

SaveGridSync(u) ==
    /\ draft[u] # Idle
    /\ sync' = [sync EXCEPT ![draft[u].id] = draft[u].record]
    /\ draft' = [draft EXCEPT ![u] = Idle]
    /\ UNCHANGED <<completed, pending>>

-----------------------------------------------------------------------------
(* The worker: every tick it lists the failures and prepares each of them  *)
(* for a retest through the same BeginRetest as the operators.             *)

\* Mutant: the worker looks for the wrong state.
NeedsAnotherRetest(g) == sync[g] # NoSync /\ sync[g].state = "retesting"

NeedsRetest(g) == sync[g] # NoSync /\ sync[g].state = "sync_failed"

SyncFailuresNeedingRetest == {g \in SyncIDs : NeedsRetest(g)}

\* A tick that finds nothing changes nothing.
Tick(w) ==
    /\ draft[w] = Idle /\ pending[w] = {}
    /\ SyncFailuresNeedingRetest # {}
    /\ pending' = [pending EXCEPT ![w] = SyncFailuresNeedingRetest]
    /\ UNCHANGED <<completed, sync, draft>>

\* One turn of the loop over the list; the list has no order, and an operation
\* that no longer is a failure is skipped.
PrepareRetest(w, g) ==
    /\ draft[w] = Idle
    /\ g \in pending[w]
    /\ pending' = [pending EXCEPT ![w] = @ \ {g}]
    /\ IF CanBeginRetest(sync[g])
       THEN Prepare(w, g, BeginRetest(sync[g]))
       ELSE UNCHANGED draft
    /\ UNCHANGED <<completed, sync>>

WorkerStep(w) == Tick(w) \/ (\E g \in SyncIDs : PrepareRetest(w, g)) \/ SaveGridSync(w)

-----------------------------------------------------------------------------
(* The stored black starts, as far as InitiateGridSync looks at them.      *)

CompleteBlackStart(b) ==
    /\ completed' = completed \cup {b}
    /\ UNCHANGED <<sync, draft, pending>>

RollbackBlackStart(b) ==
    /\ completed' = completed \ {b}
    /\ UNCHANGED <<sync, draft, pending>>

-----------------------------------------------------------------------------
Next ==
    \/ \E u \in Callers :
          \/ \E g \in SyncIDs :
                \/ \E b \in BlackStarts \cup {Standalone} : InitiateGridSync(u, g, b)
                \/ BeginSyncingOp(u, g)
                \/ \E m \in Readings : VerifySync(u, g, m)
                \/ ConnectGrid(u, g)
                \/ BeginRetestOp(u, g)
          \/ SaveGridSync(u)
    \/ \E w \in Workers : WorkerStep(w)
    \/ \E b \in BlackStarts : CompleteBlackStart(b) \/ RollbackBlackStart(b)

Spec == Init /\ [][Next]_vars

\* The ticker keeps firing and a goroutine that can run is run; requests come
\* when the clients please.
FairSpec ==
    /\ Spec
    /\ \A w \in Workers : WF_vars(WorkerStep(w))
    /\ \A u \in Callers : WF_vars(SaveGridSync(u))

-----------------------------------------------------------------------------
(* Properties.                                                             *)

\* Every grid-sync record in the program.
Records ==
    {g \in {sync[i] : i \in SyncIDs}
              \cup {draft[u].record : u \in {v \in Clients : draft[v] # Idle}}
       : g # NoSync}

OnGoodReading(g) ==
    g.state \in {"verified", "grid_connected"} => g.reading = {} /\ g.faultCode = NoFault

FellBack(g) ==
    /\ g.state \in {"sync_failed", "retesting"} =>
          /\ g.reading # NoReading /\ ~Within(g.reading)
          /\ g.faultCode = faultCodeFor(g.reading)
          /\ g.backupTieLine
    /\ g.backupTieLine => g.upperGridNotified /\ g.state # "grid_connected"
    /\ g.upperGridNotified <=> g.attempt > 0

\* No record, stored or about to be, claims to be verified or connected unless
\* its own last reading was within the band, whatever stale clones are saved.
BreakerOnGoodReading == \A g \in Records : OnGoodReading(g)

\* A record that failed carries the code of its reading and runs on the backup
\* tie-line until it connects; the tie-line is never closed without the upper
\* grid knowing, and the upper grid knows of every failure that is counted.
FallbackRecorded == \A g \in Records : FellBack(g)

\* A stored failure is sooner or later prepared for a retest.
FailureRetested ==
    \A g \in SyncIDs :
        LET Failed == sync[g] # NoSync /\ sync[g].state = "sync_failed"
        IN  Failed ~> ~Failed

\* A clone of g is saved that was made before what is stored now.
StaleSave(g) ==
    \E u \in Clients :
        /\ draft[u] # Idle /\ draft'[u] = Idle
        /\ draft[u].id = g /\ draft[u].loaded # sync[g]

\* Whoever else is at work, the worker included, the one thing that takes a
\* connected operation out of its terminal state is a stale save.  It does: the
\* code compares nothing when it saves.
ReopenedOnlyByStaleSave ==
    [][\A g \in SyncIDs :
         /\ sync[g] # NoSync /\ IsTerminal(sync[g])
         /\ ~IsTerminal(sync'[g])
         => StaleSave(g)]_vars

\* And the one thing that connects an operation whose last stored reading is not
\* a good one: no sequence of methods passes over a failure by itself.  A stale
\* connect can, though the synchronizer is said to confirm the readings first.
PassedOverOnlyByStaleSave ==
    [][\A g \in SyncIDs :
         /\ sync[g] # NoSync /\ ~IsTerminal(sync[g])
         /\ IsTerminal(sync'[g])
         /\ ~(sync[g].reading = {} /\ sync[g].faultCode = NoFault)
         => StaleSave(g)]_vars

=============================================================================
