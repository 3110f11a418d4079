------------------------ MODULE BlackStartExecution ------------------------
(***************************************************************************)
(* Execution of black starts against concurrent Level-1 anomaly reports    *)
(* and operator calls (internal/service/blackstart.go, coordinator.go).    *)
(*                                                                         *)
(* Every HTTP request runs in its own goroutine.  Three kinds of calls     *)
(* meet here, and each is a process:                                       *)
(*                                                                         *)
(*   Executions  calls of ExecuteBlackStart.  Each works on its own clone  *)
(*               of the stored record, bs[e]; the pointer activeBS is the  *)
(*               call whose clone is registered.                           *)
(*   Reports     Level-1 calls of ReportAnomaly, up to the end of          *)
(*               isolateOrFreeze.                                          *)
(*   Operators   callers of RequestBlackStart, AuthorizeBlackStart and     *)
(*               RollbackBlackStart, which read the store, change a clone  *)
(*               and write it back later.                                  *)
(*                                                                         *)
(* A section under bsMu is one step, and so is one call of the store,      *)
(* which has its own lock.  SaveBlackStart(bs) holds the store's lock but  *)
(* not bsMu: it copies bs[e] while a report may be writing its State.      *)
(***************************************************************************)
EXTENDS BlackStart, Cabin

CONSTANTS
    BlackStartIDs,
    Executions, Reports, Operators,
    Target,         \* Target[e] is the black-start ID the call e executes
    Plans,          \* lists of cabins that a black start may be requested over
    Ready,          \* IDs stored and doubly authorized when the behaviour begins
    InitialStatus,  \* statuses the cabins may have when the behaviour begins
    CancelPoints,   \* when a call's context may be cancelled
    NoBlackStart, NoExecution, NoCabin, Idle

ASSUME TargetAssumption == Target \in [Executions -> BlackStartIDs]
ASSUME PlansAssumption == Plans \subseteq Seq(Cabins)
ASSUME StatusAssumption == InitialStatus \subseteq CabinStatus
ASSUME CancelAssumption == CancelPoints \subseteq {"running", "returned"}
ASSUME NullAssumption ==
    /\ NoBlackStart \notin BlackStartRecord
    /\ NoExecution \notin Executions
    /\ NoCabin \notin Cabins
    /\ Idle \notin [id : BlackStartIDs, record : BlackStartRecord]

VARIABLES
    cabin,         \* the store's cabins: status of each
    stored,        \* the store's black starts
    activeBS,      \* Dispatch.activeBS
    bsPaused,      \* Dispatch.bsPaused
    bsPauseCabin,  \* Dispatch.bsPauseCabin
    waiters,       \* executions asleep in bsCond.Wait
    pc,            \* where each execution is
    bs,            \* the clone each execution works on
    current,       \* the cabin each execution is handling
    seen,          \* the status of that cabin when it was read
    watcher,       \* each execution's cancellation watcher
    cancelled,     \* whether each call's context is cancelled
    rpc,           \* where each report is
    rcabin,        \* the cabin each report is about
    conflict,      \* the execution whose clone the report paused, if any
    intime,        \* history: reports that paused a loop still short of their cabin
    draft          \* the clone each operator call is about to save

storeVars  == <<cabin, stored>>
coordVars  == <<activeBS, bsPaused, bsPauseCabin, waiters>>
execVars   == <<pc, bs, current, seen>>
cancelVars == <<watcher, cancelled>>
reportVars == <<rpc, rcabin, conflict, intime>>
vars == <<storeVars, coordVars, execVars, cancelVars, reportVars, draft>>

ExecutionPC ==
    {"call", "register", "announce", "loop", "await", "read", "decide", "save",
     "complete", "saveFinal", "unregister", "returned"}

ReportPC == {"call", "lock", "resume", "done"}

Drafts == [id : BlackStartIDs, record : BlackStartRecord]

\* Types of the variables, and what the pointers among them refer to: a call
\* past its load has a record, the registered and the paused clones exist, and a
\* report resumes only a clone it has paused.
TypeOK ==
    /\ cabin \in [Cabins -> CabinStatus]
    /\ stored \in [BlackStartIDs -> BlackStartRecord \cup {NoBlackStart}]
    /\ activeBS \in {NoExecution} \cup {e \in Executions : bs[e] # NoBlackStart}
    /\ bsPaused \in BOOLEAN
    /\ bsPauseCabin \in Cabins \cup {NoCabin}
    /\ waiters \subseteq Executions
    /\ pc \in [Executions -> ExecutionPC]
    /\ bs \in [Executions -> BlackStartRecord \cup {NoBlackStart}]
    /\ \A e \in Executions : pc[e] \notin {"call", "returned"} => bs[e] # NoBlackStart
    /\ current \in [Executions -> Cabins \cup {NoCabin}]
    /\ \A e \in Executions : pc[e] \in {"await", "read", "decide"} => current[e] \in Cabins
    /\ seen \in [Executions -> CabinStatus]
    /\ watcher \in [Executions -> {"off", "waiting", "gone"}]
    /\ cancelled \in [Executions -> BOOLEAN]
    /\ rpc \in [Reports -> ReportPC]
    /\ rcabin \in [Reports -> Cabins \cup {NoCabin}]
    /\ \A r \in Reports : rpc[r] # "call" => rcabin[r] \in Cabins
    /\ conflict \in [Reports -> {NoExecution} \cup {e \in Executions : bs[e] # NoBlackStart}]
    /\ \A r \in Reports : rpc[r] = "resume" => conflict[r] # NoExecution
    /\ intime \subseteq Reports
    /\ draft \in [Operators -> Drafts \cup {Idle}]

\* A record both principals have authorized and nobody has executed.
DualAuthorized(plan, principal) ==
    Authorize(Authorize(NewBlackStart(plan), "duty_officer", principal),
              "maintenance_lead", principal)

Init ==
    /\ cabin \in [Cabins -> InitialStatus]
    /\ \E plan \in [Ready -> Plans], p \in Principals :
          stored = [id \in BlackStartIDs |->
                      IF id \in Ready THEN DualAuthorized(plan[id], p) ELSE NoBlackStart]
    /\ activeBS = NoExecution
    /\ bsPaused = FALSE
    /\ bsPauseCabin = NoCabin
    /\ waiters = {}
    /\ pc = [e \in Executions |-> "call"]
    /\ bs = [e \in Executions |-> NoBlackStart]
    /\ current = [e \in Executions |-> NoCabin]
    /\ seen = [e \in Executions |-> "operational"]
    /\ watcher = [e \in Executions |-> "off"]
    /\ cancelled = [e \in Executions |-> FALSE]
    /\ rpc = [r \in Reports |-> "call"]
    /\ rcabin = [r \in Reports |-> NoCabin]
    /\ conflict = [r \in Reports |-> NoExecution]
    /\ intime = {}
    /\ draft = [o \in Operators |-> Idle]

-----------------------------------------------------------------------------
(* The coordination condition of isolateOrFreeze and the race it leaves.   *)

\* Would a report on c pause the registered black start?
Conflicts(c) ==
    /\ activeBS # NoExecution
    /\ bs[activeBS].state = "executing"
    /\ Participates(bs[activeBS], c)
    /\ c \notin bs[activeBS].started \cup bs[activeBS].excluded

\* A report is about to write bs[e].State: its lock section may run while the
\* save of e copies the record.
WriterReady(e) ==
    \E r \in Reports :
        \/ rpc[r] = "call" /\ activeBS = e /\ \E c \in Cabins : Conflicts(c)
        \/ rpc[r] = "resume" /\ conflict[r] = e /\ bs[e].state = "paused"

\* What SaveBlackStart may store for e: the record as it is or, when a writer
\* runs at the same time, a record whose State string is half-written.
Copies(e) ==
    {bs[e]} \cup {b \in {[bs[e] EXCEPT !.state = Torn]} : WriterReady(e)}

SaveBlackStart(e) ==
    \E copy \in Copies(e) : stored' = [stored EXCEPT ![Target[e]] = copy]

-----------------------------------------------------------------------------
(* ExecuteBlackStart *)

Goto(e, from, to) == pc[e] = from /\ pc' = [pc EXCEPT ![e] = to]

LoadMissing(e) ==
    /\ Goto(e, "call", "returned")
    /\ stored[Target[e]] = NoBlackStart
    /\ UNCHANGED <<storeVars, coordVars, bs, current, seen, cancelVars, reportVars, draft>>

Load(e) ==
    /\ Goto(e, "call", "register")
    /\ stored[Target[e]] # NoBlackStart
    /\ bs' = [bs EXCEPT ![e] = stored[Target[e]]]
    /\ UNCHANGED <<storeVars, coordVars, current, seen, cancelVars, reportVars, draft>>

\* Mutant: nobody asks whether another black start is executing.
MayAlwaysReplace(e) == TRUE

\* The registered black start, if there is one, is over or has the same ID.
MayReplaceActive(e) ==
    \/ activeBS = NoExecution
    \/ activeBS # NoExecution /\ Target[activeBS] = Target[e]
    \/ activeBS # NoExecution /\ IsTerminal(bs[activeBS])

Register(e) ==
    /\ Goto(e, "register", "announce")
    /\ CanBeginExecution(bs[e])
    /\ MayReplaceActive(e)
    /\ bs' = [bs EXCEPT ![e] = BeginExecution(@)]
    /\ activeBS' = e
    /\ UNCHANGED <<storeVars, bsPaused, bsPauseCabin, waiters, current, seen,
                   cancelVars, reportVars, draft>>

RegisterRefused(e) ==
    /\ Goto(e, "register", "returned")
    /\ ~(CanBeginExecution(bs[e]) /\ MayReplaceActive(e))
    /\ UNCHANGED <<storeVars, coordVars, bs, current, seen, cancelVars, reportVars, draft>>

\* Save the executing record and start the watcher goroutine.
Announce(e) ==
    /\ Goto(e, "announce", "loop")
    /\ SaveBlackStart(e)
    /\ watcher' = [watcher EXCEPT ![e] = "waiting"]
    /\ UNCHANGED <<cabin, coordVars, bs, current, seen, cancelled, reportVars, draft>>

TakeUpCabin(e) ==
    /\ Goto(e, "loop", "await")
    /\ Remaining(bs[e]) # {}
    /\ current' = [current EXCEPT ![e] = NextCabin(bs[e])]
    /\ UNCHANGED <<storeVars, coordVars, bs, seen, cancelVars, reportVars, draft>>

AllDecided(e) ==
    /\ Goto(e, "loop", "complete")
    /\ Remaining(bs[e]) = {}
    /\ UNCHANGED <<storeVars, coordVars, bs, current, seen, cancelVars, reportVars, draft>>

\* Mutant: the loop does not wait for the isolation of its cabin.
NeverHeldBack(e) == FALSE

\* The loop condition of waitForCabinReady.  Its stop channel is never closed,
\* so the wait ends only when this turns false.
HeldBack(e) == bsPaused /\ bsPauseCabin = current[e] /\ activeBS = e

\* bsCond.Wait: asleep until a Broadcast, then the condition is tested again.
Park(e) ==
    /\ pc[e] = "await" /\ e \notin waiters
    /\ HeldBack(e)
    /\ waiters' = waiters \cup {e}
    /\ UNCHANGED <<storeVars, activeBS, bsPaused, bsPauseCabin, execVars,
                   cancelVars, reportVars, draft>>

PassWait(e) ==
    /\ Goto(e, "await", "read")
    /\ e \notin waiters
    /\ ~HeldBack(e)
    /\ UNCHANGED <<storeVars, coordVars, bs, current, seen, cancelVars, reportVars, draft>>

\* Store.Cabin, before bsMu is taken.
ReadCabin(e) ==
    /\ Goto(e, "read", "decide")
    /\ seen' = [seen EXCEPT ![e] = cabin[current[e]]]
    /\ UNCHANGED <<storeVars, coordVars, bs, current, cancelVars, reportVars, draft>>

\* Start or exclude under bsMu, from the status read before.
Decide(e) ==
    /\ Goto(e, "decide", "save")
    /\ bs' = [bs EXCEPT ![e] = IF IsFrozen(seen[e]) THEN MarkCabinExcluded(@, current[e])
                                                    ELSE MarkCabinStarted(@, current[e])]
    /\ UNCHANGED <<storeVars, coordVars, current, seen, cancelVars, reportVars, draft>>

\* Mutant: the decision is not saved.
SkipSave(e) ==
    /\ Goto(e, "save", "loop")
    /\ UNCHANGED <<storeVars, coordVars, bs, current, seen, cancelVars, reportVars, draft>>

SaveProgress(e) ==
    /\ Goto(e, "save", "loop")
    /\ SaveBlackStart(e)
    /\ UNCHANGED <<cabin, coordVars, bs, current, seen, cancelVars, reportVars, draft>>

\* A refused Complete returns its error without a save.
CompleteStep(e) ==
    /\ Goto(e, "complete", IF CanComplete(bs[e]) THEN "saveFinal" ELSE "unregister")
    /\ bs' = [bs EXCEPT ![e] = Complete(@)]
    /\ UNCHANGED <<storeVars, coordVars, current, seen, cancelVars, reportVars, draft>>

SaveFinal(e) ==
    /\ Goto(e, "saveFinal", "unregister")
    /\ SaveBlackStart(e)
    /\ UNCHANGED <<cabin, coordVars, bs, current, seen, cancelVars, reportVars, draft>>

\* The deferred section: only the call that is still registered clears activeBS.
Unregister(e) ==
    /\ Goto(e, "unregister", "returned")
    /\ activeBS' = IF activeBS = e THEN NoExecution ELSE activeBS
    /\ UNCHANGED <<storeVars, bsPaused, bsPauseCabin, waiters, bs, current, seen,
                   cancelVars, reportVars, draft>>

ExecutionStep(e) ==
    \/ Register(e) \/ RegisterRefused(e) \/ Announce(e)
    \/ TakeUpCabin(e) \/ AllDecided(e) \/ Park(e) \/ PassWait(e)
    \/ ReadCabin(e) \/ Decide(e) \/ SaveProgress(e)
    \/ CompleteStep(e) \/ SaveFinal(e) \/ Unregister(e)

-----------------------------------------------------------------------------
(* Cancellation.  The HTTP server cancels a request's context when the     *)
(* client goes away and, always, once the handler has returned.            *)

Cancel(e) ==
    /\ ~cancelled[e]
    /\ \/ "running" \in CancelPoints /\ pc[e] \notin {"call", "returned"}
       \/ "returned" \in CancelPoints /\ pc[e] = "returned"
    /\ cancelled' = [cancelled EXCEPT ![e] = TRUE]
    /\ UNCHANGED <<storeVars, coordVars, execVars, watcher, reportVars, draft>>

WatcherCancel(e) ==
    /\ watcher[e] = "waiting" /\ cancelled[e]
    /\ watcher' = [watcher EXCEPT ![e] = "gone"]
    /\ bsPaused' = FALSE
    /\ waiters' = {}
    /\ UNCHANGED <<storeVars, activeBS, bsPauseCabin, execVars, cancelled, reportVars, draft>>

\* The channel done is closed before the call unregisters.
WatcherDone(e) ==
    /\ watcher[e] = "waiting" /\ pc[e] \in {"unregister", "returned"}
    /\ watcher' = [watcher EXCEPT ![e] = "gone"]
    /\ UNCHANGED <<storeVars, coordVars, execVars, cancelled, reportVars, draft>>

-----------------------------------------------------------------------------
(* isolateOrFreeze *)

\* The execution e has not yet got past its wait for the cabin c.
ShortOf(e, c) == ~(pc[e] \in {"read", "decide"} /\ current[e] = c)

\* First section: pause the registered black start if it still needs c.
PauseForFault(r, c) ==
    /\ rpc[r] = "call"
    /\ rpc' = [rpc EXCEPT ![r] = "lock"]
    /\ rcabin' = [rcabin EXCEPT ![r] = c]
    /\ \/ /\ Conflicts(c)
          /\ bs' = [bs EXCEPT ![activeBS] = Pause(@)]
          /\ bsPaused' = TRUE
          /\ bsPauseCabin' = c
          /\ conflict' = [conflict EXCEPT ![r] = activeBS]
          /\ intime' = IF ShortOf(activeBS, c) THEN intime \cup {r} ELSE intime
       \/ /\ ~Conflicts(c)
          /\ UNCHANGED <<bs, bsPaused, bsPauseCabin, conflict, intime>>
    /\ UNCHANGED <<storeVars, activeBS, waiters, pc, current, seen, cancelVars, draft>>

\* Load the cabin, isolate or freeze it, save it.  The status written does not
\* depend on the one loaded, so the load needs no step of its own.
LockCabin(r) ==
    /\ rpc[r] = "lock"
    /\ \/ /\ conflict[r] # NoExecution
          /\ cabin' = [cabin EXCEPT ![rcabin[r]] = Isolate(@)]
          /\ rpc' = [rpc EXCEPT ![r] = "resume"]
       \/ /\ conflict[r] = NoExecution
          /\ cabin' = [cabin EXCEPT ![rcabin[r]] = Freeze(@)]
          /\ rpc' = [rpc EXCEPT ![r] = "done"]
    /\ UNCHANGED <<stored, coordVars, execVars, cancelVars, rcabin, conflict, intime, draft>>

\* Mutants: the second section forgets one of the things it must undo.
ResumeKeepingFlag(r) ==
    /\ rpc[r] = "resume"
    /\ rpc' = [rpc EXCEPT ![r] = "done"]
    /\ bs' = [bs EXCEPT ![conflict[r]] = Resume(@)]
    /\ waiters' = {}
    /\ UNCHANGED <<storeVars, activeBS, bsPaused, bsPauseCabin, pc, current, seen,
                   cancelVars, rcabin, conflict, intime, draft>>

ResumeWithoutBroadcast(r) ==
    /\ rpc[r] = "resume"
    /\ rpc' = [rpc EXCEPT ![r] = "done"]
    /\ bs' = [bs EXCEPT ![conflict[r]] = Resume(@)]
    /\ bsPaused' = FALSE
    /\ bsPauseCabin' = NoCabin
    /\ UNCHANGED <<storeVars, activeBS, waiters, pc, current, seen, cancelVars, rcabin,
                   conflict, intime, draft>>

ResumeFlagOnly(r) ==
    /\ rpc[r] = "resume"
    /\ rpc' = [rpc EXCEPT ![r] = "done"]
    /\ bsPaused' = FALSE
    /\ bsPauseCabin' = NoCabin
    /\ waiters' = {}
    /\ UNCHANGED <<storeVars, activeBS, execVars, cancelVars, rcabin, conflict, intime, draft>>

\* Second section: resume the paused clone and wake every waiter.
ResumeStartup(r) ==
    /\ rpc[r] = "resume"
    /\ rpc' = [rpc EXCEPT ![r] = "done"]
    /\ bs' = [bs EXCEPT ![conflict[r]] = Resume(@)]
    /\ bsPaused' = FALSE
    /\ bsPauseCabin' = NoCabin
    /\ waiters' = {}
    /\ UNCHANGED <<storeVars, activeBS, pc, current, seen, cancelVars, rcabin,
                   conflict, intime, draft>>

-----------------------------------------------------------------------------
(* Operator calls.  The step that reads the store also changes the clone,  *)
(* which nobody else sees; the save is a step of its own.  A refused call  *)
(* changes nothing.                                                        *)

\* IDs the generator has already handed out.
IssuedIDs ==
    {id \in BlackStartIDs : stored[id] # NoBlackStart
                            \/ \E o \in Operators : draft[o] # Idle /\ draft[o].id = id}

Request(o, plan) ==
    /\ draft[o] = Idle
    /\ \A id \in BlackStartIDs : stored[id] # NoBlackStart => IsTerminal(stored[id])
    /\ \E id \in BlackStartIDs \ IssuedIDs :
          draft' = [draft EXCEPT ![o] = [id |-> id, record |-> NewBlackStart(plan)]]
    /\ UNCHANGED <<storeVars, coordVars, execVars, cancelVars, reportVars>>

AuthorizeBlackStart(o, id, role, principal) ==
    /\ draft[o] = Idle
    /\ stored[id] # NoBlackStart
    /\ CanAuthorize(stored[id], role, principal)
    /\ draft' = [draft EXCEPT ![o] =
                   [id |-> id, record |-> Authorize(stored[id], role, principal)]]
    /\ UNCHANGED <<storeVars, coordVars, execVars, cancelVars, reportVars>>

RollbackBlackStart(o, id) ==
    /\ draft[o] = Idle
    /\ stored[id] # NoBlackStart
    /\ draft' = [draft EXCEPT ![o] = [id |-> id, record |-> Rollback(stored[id])]]
    /\ UNCHANGED <<storeVars, coordVars, execVars, cancelVars, reportVars>>

SaveDraft(o) ==
    /\ draft[o] # Idle
    /\ stored' = [stored EXCEPT ![draft[o].id] = draft[o].record]
    /\ draft' = [draft EXCEPT ![o] = Idle]
    /\ UNCHANGED <<cabin, coordVars, execVars, cancelVars, reportVars>>

-----------------------------------------------------------------------------
\* Every call has returned: the program idles until the next request.
AllReturned ==
    /\ \A e \in Executions : pc[e] = "returned"
    /\ \A r \in Reports : rpc[r] = "done"
    /\ \A o \in Operators : draft[o] = Idle
    /\ UNCHANGED vars

Next ==
    \/ \E e \in Executions :
          \/ LoadMissing(e) \/ Load(e) \/ ExecutionStep(e)
          \/ Cancel(e) \/ WatcherCancel(e) \/ WatcherDone(e)
    \/ \E r \in Reports :
          \/ \E c \in Cabins : PauseForFault(r, c)
          \/ LockCabin(r) \/ ResumeStartup(r)
    \/ \E o \in Operators :
          \/ \E plan \in Plans : Request(o, plan)
          \/ \E id \in BlackStartIDs :
                \/ \E role \in Roles, p \in Principals \cup {Nobody} :
                      AuthorizeBlackStart(o, id, role, p)
                \/ RollbackBlackStart(o, id)
          \/ SaveDraft(o)
    \/ AllReturned

Spec == Init /\ [][Next]_vars

(***************************************************************************)
(* A goroutine that can run is run: once a call has begun, its next step   *)
(* is taken.  Whether a call is made, and whether a context is cancelled,  *)
(* is up to the clients.                                                   *)
(***************************************************************************)
Fairness ==
    /\ \A e \in Executions : WF_vars(ExecutionStep(e))
    /\ \A r \in Reports : WF_vars(LockCabin(r) \/ ResumeStartup(r))

FairSpec == Spec /\ Fairness

-----------------------------------------------------------------------------
(* Properties.                                                             *)

\* Every black-start record in the program: stored, executing, or about to be
\* saved by an operator call.
Records ==
    {b \in {stored[id] : id \in BlackStartIDs} \cup {bs[e] : e \in Executions}
              \cup {draft[o].record : o \in {p \in Operators : draft[p] # Idle}}
       : b # NoBlackStart}

Running(e) ==
    pc[e] \in {"announce", "loop", "await", "read", "decide", "save", "complete"}

\* The report r has paused some execution and not yet resumed it.
Isolating(r) == rpc[r] \in {"lock", "resume"} /\ conflict[r] # NoExecution

Signed(b) ==
    b.state \in {"dual_authorized", "executing", "paused", "completed"}
      => \A r \in Roles : b.auth[r] \in Principals

DecidedSoundly(b) ==
    /\ b.started \cap b.excluded = {}
    /\ b.started \cup b.excluded \subseteq Participants(b)
    /\ b.state = "completed" => Participants(b) = b.started \cup b.excluded

\* No record ever claims to be authorized, executing, paused or completed
\* without the signatures of both the duty officer and the maintenance lead,
\* whichever clone of it a stale save brought back.
DualAuthorization == \A b \in Records : Signed(b)

\* Restoration decides each cabin once: no cabin is both started and excluded,
\* nothing outside the plan is decided, and a completed black start has no
\* cabin left, through every reload, retry and stale save of its record.
DecidedOnce == \A b \in Records : DecidedSoundly(b)

\* The pause flag is never left behind: while it is set, a report that has yet
\* to isolate its cabin and resume startup is responsible for that very cabin,
\* whatever calls return or are cancelled.
PauseHasOwner ==
    bsPaused => \E r \in Reports : Isolating(r) /\ rcabin[r] = bsPauseCabin

\* A clone an execution works on is paused only while the report that paused it
\* is still at work, so an execution never runs on from a forgotten pause.
PausedCloneHasOwner ==
    \A e \in Executions :
        Running(e) /\ bs[e].state = "paused"
          => \E r \in Reports : Isolating(r) /\ conflict[r] = e

\* No lost wake-up: an execution asleep on bsCond has a report that is still
\* going to broadcast.
NoLostWakeup ==
    waiters # {} => \E r \in Reports : Isolating(r)

\* Two different black starts never run at the same time.
OneRunning ==
    \A e, f \in Executions : Running(e) /\ Running(f) => Target[e] = Target[f]

\* The concurrency boundary: a cabin whose Level-1 report paused the execution
\* before the execution got past its wait for that cabin is never energized.
IsolatedInTime ==
    \A r \in intime : rcabin[r] \notin bs[conflict[r]].started

\* A snapshot taken between two cabins has all decisions made so far: the loop
\* takes up no cabin before its previous decision is stored.
ProgressStored ==
    \A e \in Executions :
        pc[e] \in {"await", "read", "decide", "complete"}
          => /\ stored[Target[e]].started = bs[e].started
             /\ stored[Target[e]].excluded = bs[e].excluded

-----------------------------------------------------------------------------
(* What the repository says of the program and the program does not do.    *)

\* "prevents energizing a faulted cabin": no cabin is started while the store
\* has it frozen or isolated.
FaultedCabinNotEnergized ==
    [][\A e \in Executions : bs[e] # NoBlackStart /\ Running(e)
          => \A c \in bs'[e].started \ bs[e].started : ~IsFrozen(cabin[c])]_vars

\* "expected cancellation error" and the state failed: an execution whose watcher
\* has seen the cancellation while cabins are left to decide ends as failed.
CancelledExecutionFails ==
    \A e \in Executions :
        pc[e] = "loop" /\ watcher[e] = "gone" /\ Remaining(bs[e]) # {}
          ~> bs[e] # NoBlackStart /\ bs[e].state = "failed"

=============================================================================
