# Verification of the Ejina microgrid dispatch center

TLA+ modules of the Go backend in this repository, the TLC runs that check
them on small instances, and TLAPS proofs of their main properties for every
value of the constants.

    tlc -workers 2 -config exec_single.cfg MCBlackStart.tla
    tlapm ConcurrencyBoundary_proofs.tla

## 1. Inventory

The backend is one process. Every HTTP request runs in its own goroutine and
ends in one call of `service.Dispatch`; one background goroutine runs the
worker. They share the `store` (maps of records under one RWMutex) and the
coordination state of `Dispatch` (`bsMu`, `bsCond`, `activeBS`, `bsPaused`,
`bsPauseCabin`). The store hands out clones and stores clones: an operation
**loads a record, changes its clone and saves it**, and nothing ties the save
to the load. This is where most of what can go wrong comes from.

| Component | State | Operations | Hard behaviours | What makes it correct |
|---|---|---|---|---|
| Black start (`domain/blackstart.go`, `service/blackstart.go`) | record: plan, state, two signatures, started and excluded cabins; `activeBS`; each call's clone | request, authorize, execute (loop), roll back | load/save races, execution loop against reports, cancellation, double execution | two signatures before execution; each cabin decided once; one black start at a time; an execution completes |
| Coordinator (`service/coordinator.go`) | `bsPaused`, `bsPauseCabin`, waiters of `bsCond` | pause–isolate–resume; wait for a cabin | condition variable, one pause shared by all reports | no lost wake-up, no pause left behind, a cabin that is being isolated is not energized |
| Cabin (`domain/cabin.go`) | status | inspection, freeze, isolate, maintenance, restore | many flows write the status from stale clones | a faulted cabin stays locked until it is repaired |
| Grid sync (`domain/gridsync.go`, `service/gridsync.go`) | record: state, reading, fault code, notified, tie-line, attempts | initiate, begin syncing, verify, connect, begin retest | load/save races of operators and worker | connected only on a good reading; failures fully recorded; failures retested |
| Anomaly (`domain/anomaly.go`, `service/anomaly.go`) | record: level, state, deadline, escalated | report, acknowledge, isolate, resolve, escalate | deadline against acknowledgement, partial saves over cabin and anomaly | an overdue Level-1 anomaly is escalated; acknowledged in time or not at all; a cabin can always be brought back |
| Inspection (`domain/inspection.go`, `service/inspection.go`) | record: state, photos, review | dispatch, start, photo, review, complete, freeze | check-then-act per cabin, freeze against progress | signed by its inspector before it is completed; none on a frozen cabin |
| Work order (`domain/workorder.go`, `service/workorder.go`) | record: state, reviewer | open, start, submit, review, close | close stores the order before it resolves the anomaly; idempotent retry | closed only after the review; closing resolves the anomaly |
| Worker (`worker/worker.go`) | its list and the record it is about to save | escalate, prepare retests, snapshot, every tick; a last snapshot on shutdown | stale lists, the process ending between escalation and snapshot | overdue and failed records are handled eventually, also across restarts |
| Store (`store/store.go`, `domain/clone.go`) | all records, the data file | load, save, queries, snapshot, reload | snapshot in the middle of an operation, restart | the file is never garbled, and what it refers to is in it |
| Facade and IDs (`service/service.go`) | ID counter | new ID | counter starts over after a restart | IDs are unique |
| HTTP API (`api/handlers.go`, `api/router.go`) | – | 23 POST routes, each one call of the facade with a status code | which errors are which status, operations no route reaches | an error status has changed nothing |
| Entry point (`cmd/ejinagrid/main.go`) | – | load, seed, serve, shut down | shutdown waits neither for the worker nor, past its limit, for requests | it can always be started again |
| Clock (`clock/clock.go`) | the time | – | goes on over restarts | – |

The lines where each of these bites are the `hazards` of `PROJECT.json`, with
the properties that watch them.

## 2. Modules

    Cabin      BlackStart                     GridSync
        \         /    \                         |
     BlackStartExecution  BlackStart_proofs   GridSwitching -- MCGridSwitching
        |            \        |                  |
        |      BlackStartExecution_proofs     GridSwitching_proofs
        |             |
        |      BlackStartRecords_proofs
        |             |
        |      ConcurrencyBoundary_proofs
        |                        \
     ExecutionRefinement ---- ExecutionRefinement_proofs
        |          \ (INSTANCE)
        |           FaultIsolation
     MCBlackStart

     Cabin   Anomaly, Inspection, WorkOrder
         \       |  (INSTANCE)
          CabinFlows -- MCCabinFlows
             |
          CabinFlows_proofs

     Cabin   Anomaly, Inspection, WorkOrder, BlackStart, GridSync
         \       |  (INSTANCE)
          HttpApi
             |
          Backend -- MCBackend
             |
          Backend_proofs

**Cabin**, **BlackStart**, **GridSync**, **Anomaly**, **Inspection** and
**WorkOrder** are the entities: a set of records
(or statuses) and one operator per method of the Go type. A method that can
refuse has its guard beside it (`CanComplete`, `Complete`).

**BlackStartExecution** composes the execution loop, the coordinator, the
store and the operator calls.

| Code | Model |
|---|---|
| `Store.data.BlackStarts`, `.Cabins` | `stored`, `cabin` (statuses) |
| `activeBS` (a pointer to one call's clone) | `activeBS`, the call whose clone is registered |
| `bsPaused`, `bsPauseCabin`, goroutines in `bsCond.Wait` | `bsPaused`, `bsPauseCabin`, `waiters` |
| a call of `ExecuteBlackStart`: its program counter, clone, `cabinID`, `cabin` | `pc[e]`, `bs[e]`, `current[e]`, `seen[e]` |
| the cancellation watcher and the request's context | `watcher[e]`, `cancelled[e]` |
| a Level-1 report inside `isolateOrFreeze` | `rpc[r]`, `rcabin[r]`, `conflict[r]` |
| an operator call between its load and its save | `draft[o]` |

A section under `bsMu` is one step, and so is one call of the store. The save
of the loop is special: it copies the clone **without** `bsMu` while a report
may be writing the clone's `State` under it. `SaveBlackStart` therefore stores
either the record as it is or, when a writer is ready to run, a record with a
half-written state string (`Torn`), which equals none of the constants.
`intime` is a history variable: the reports that paused a loop before it was
past its wait for their cabin. Steps of the loop:

    call -Load-> register -Register-> announce -Announce-> loop
    loop -TakeUpCabin-> await -PassWait-> read -ReadCabin-> decide -Decide-> save -SaveProgress-> loop
    loop -AllDecided-> complete -CompleteStep-> saveFinal -SaveFinal-> unregister -Unregister-> returned

The cancelled branches of the loop (`Fail`) are not actions: the channel they
wait for, `stop`, is never closed.

**FaultIsolation** is what an execution promises, without coordinator, clones
and store: cabins get a fate one by one; a cabin declared faulty while the
execution has not committed itself to it is skipped; every fate is decided in
the end. **ExecutionRefinement** maps one execution to it: a cabin is declared
faulty when a report on it pauses the execution in time (`FaultedCabins`), and
the execution is committed to a cabin, unless it is faulty, from the moment it
is past its wait for it. That moment, and not the decision under the lock, is
the latest at which a report is sure to count; `bug_faulted_energized` shows the
window that is left.

**GridSwitching** composes operators and the worker over the stored grid
syncs. Every operation is a load with its method (`draft[u]`) and a save. The
worker lists the failures (`Tick`) and prepares them one by one
(`PrepareRetest`), from a list that may be stale. A reading is the set of
parameters out of the operation's band, so voltages, frequencies and angles
do not appear; the order in which `Within` tests them does, because it picks
the fault code. `loaded` in a draft is history: what the store had when the
clone was made. A save whose draft was loaded from something else than what is
stored by then is a **stale save** (`StaleSave`).

**CabinFlows** composes inspections, anomalies and work orders over the cabins
they share. Their requests make up to four calls of the store, so a goroutine
`u` has a list of calls still to make, `todo[u]`: saves of clones it holds
(`SaveCabin`, `SaveAnomaly`, ...) and lookups whose outcome decides what
follows (`FinishIfClear` before a cabin is given back, `FreezeInspections` when
a Level-1 report lists the inspections to freeze, `Resolve` after an order is
closed). `Enter` is a request's first load, with the guard of the method it
calls; `Proceed` is one call. A save whose value does not depend on the load
before it (isolate, freeze, restore) needs no step for the load. The clock ticks
at any moment: the acknowledgement reads it in a step of its own between load
and save, and the worker reads it before it lists. Whether a Level-1 report
isolates or freezes is a choice here; BlackStartExecution models what decides
it.

**HttpApi** is the API when no two requests overlap: for each POST route an
operator, named after its handler, that maps the store and the input to the
status code, the saves in their order, and whether an ID is taken. The saves of
a request are a sequence of sets, because the inspections a Level-1 report
freezes come from a Go map and are saved in any order.

**Backend** is the life of the process around these operators.

| Code | Model |
|---|---|
| the process runs | `up`; `boots` counts its starts |
| `Store.data`; the data file | `mem`; `file` (`NoFile`, a store, or `Garbled`, which no action of the code yields) |
| a request in its handler | `request`: its status code and the saves still to make |
| `DefaultIDs.n` | `issued` |
| `Worker.Run`: where it is, the list it works through, the clone it is about to save, the marshalled snapshot | `stage`, `list`, `clone`, `image` |
| `clock.Now` | `now` |
| – | `using`: the kinds of records the clients of a behaviour create, chosen at the start |

A request computes its answer in one step and makes its saves in steps of their
own (`SaveNext`), so that a snapshot, a worker's save or the end of the process
can fall between any two of them. `Boot` is `main` up to the start of worker
and server (`store.New`, `seedIfEmpty`), `Exit` the end of the process at
whatever point: a crash, or SIGTERM, after which `main` returns when the server
has stopped to listen and waits for nobody. `LastSnapshot` is the worker's
snapshot on shutdown, which may be cut off by `Exit` as any other. A snapshot
is marshalled in one step (under the store's lock) and replaces the file in
another (`Rename`), or fails; the temporary file in between is not a variable,
for nothing ever reads one that is left over.

## 3. Runs

`MCBlackStart`, `MCGridSwitching`, `MCCabinFlows` and `MCBackend` give the
constants; the bounds are in the `.cfg` files.

| Run | Instance | Shows |
|---|---|---|
| `exec_single` | 1 execution, 3 cabins (operational or frozen at first), plans with a repeated cabin and the empty plan, 2 reports | `ImplementsFaultIsolation` (with its progress), `IsolatedInTime`, `ProgressStored` |
| `exec_distinct` | 2 black starts executed by 2 calls, cancelled at any time, 2 cabins, 2 reports | `OneRunning`, `PauseHasOwner`, `NoLostWakeup`, `PausedCloneHasOwner` |
| `exec_operators` | 2 calls on one black start, 1 operator with two principals, 1 report, nothing stored at first | `TypeOK`, `DualAuthorization`, `DecidedOnce` |
| `sync_shared` | 1 grid sync, 2 request goroutines and the worker, readings in band, out in one and in two parameters | `TypeOK`, `BreakerOnGoodReading`, `FallbackRecorded`, `FailureRetested`, `ReopenedOnlyByStaleSave`, `PassedOverOnlyByStaleSave` |
| `flows_alone` | 1 cabin, 2 anomalies of level 1 or 2, 2 inspections, 1 work order, 2 inspectors, 1 goroutine | `TypeOK`, `NoStrandedCabin`, `FrozenCabinClear`, `ClosedLoop`, `SignedOff` |
| `flows_shared` | 1 cabin, 1 anomaly, 1 inspection, 2 goroutines and the worker, a tick that passes the deadline | `DeadlineDecides`, `SignedOff`, `OverdueEscalated` |
| `backend` | 2 cabins, one of them in the fleet that is seeded; 2 process lives; IDs 1 and 2; six clienteles (below); a tick that passes the deadline; a snapshot that fails or succeeds | `TypeOK`, `OneActiveBlackStart`, `ReferencesResolve`, `OrdersNeverClosed`, `LockedBeforeReported`, `InterruptedOnlyRolledBack`, `RefusalsHarmless`, `FirstIDsUnused`, `OverdueEscalatedOnDisk` |

With two goroutines or the worker about, a connected operation can be reopened
and a failed one connected, which contradicts `README.md:22-24`. `sync_shared`
says how: by a stale save and by nothing else, so that no sequence of methods
does it by itself. `SignedOff` is about inspections alone in `flows_shared`, which has no
orders, and about both in `flows_alone`.

What the properties of `backend` say: at most one black start is not terminal,
and every cabin and black start that a record names is stored, in memory, in
the file and in the snapshot under way alike; an anomaly of Level 1 is on
record only after its cabin is locked and the cabin's inspections are frozen
(so a crash can leave a locked cabin without an anomaly, and never an anomaly
whose cabin runs); a black start that an earlier process was executing can only
be rolled back, and until then blocks every new one; a status of 400 and above
means that nothing has changed, but for the escalation by a late
acknowledgement and the record of a failed verification; an overdue anomaly on
disk is escalated on disk, though the process may end between the escalation
and the snapshot; in the process that created the data file no request stores a
new record over another, which takes a restart (`bug_id_reuse`); and no order is
ever closed over HTTP.

Bounds. Two reports are the least that can share the pause, and one can come
late while the other holds it; two calls are the least that can take
`activeBS` from each other; with three cabins one is before, one at and one
after the loop. `MaxAttempts = 2` in GridSwitching bounds the failures of one
operation: the second failure is the first one that happens to a record that
has failed before, and no branch looks at the number. In the flows the clock
matters only as before or after a deadline, so `AckDeadline = 0` and one tick
give every order of the tick and the calls; a cabin influences no other cabin
but through an order linked to an anomaly elsewhere, which resolves it as any
resolution does. Two anomalies and two inspections are what it takes for one to
be left when the other ends. `flows_alone` explores every sequence of complete
requests, `flows_shared` every interleaving of their calls. In `backend` two
lives of the process are the least with a restart, and the second is not ended
(`MaxBoots`), so that it can be asked what it does in the end. Records of kinds
that no route relates need not meet in one behaviour: a clientele is a set of
kinds that one of the routes reads or writes together, and the store of one
behaviour has records of these only. Black starts come alone with two IDs, for
two of them to compete, and with grid syncs, which refer to them; anomalies with
inspections, which they freeze, and with orders, which refer to them; seeding
with inspections and black starts, whose cabins it may replace. One ID per kind
and process is then enough for each reference, and the ID a second process
gives out is the one it can collide on.

Deadlock is checked in every run but `flows_alone`, whose goroutine has nothing
left to ask for when the IDs are used up and every record has ended;
`AllReturned` is the idle program of BlackStartExecution.

Each of the following runs checks one property that a comment, a test or the
README of the repository states, and finds the code violating it. Paths are
relative to `src/` or `src/internal/service/`; `README.md` with a line is the
repository's.

| Run | What happens |
|---|---|
| `bug_faulted_energized` | The loop reads the cabin before it takes `bsMu`. A report isolates (or freezes) the cabin between the read and the decision, and the cabin is energized (against `README.md:30-33`). |
| `bug_shared_pause` | Report 1 pauses the first black start for its last cabin after the loop is past its wait. The first black start completes; report 2 pauses the second one; report 1 resumes and clears the pause of report 2, and the second loop starts the cabin that report 2 has yet to isolate. |
| `bug_cancel_ignored` | A call is cancelled with cabins left to decide. Its watcher clears the pause, but `stop` is never closed, and the loop completes the black start. A test wants an error and the state failed (`service_test.go:486-505`). |
| `bug_orders_never_closed` | Clients start an order and go on asking for its review and its closing. No route submits it for review, so both are refused for ever (`README.md:17-19`, `103-106`). The tests that close an order submit it through the service (`service_test.go:184`, `210`); the one over HTTP expects the refusal (`handlers_test.go:150-153`). |
| `bug_id_reuse` | The ID counter starts from zero in every process while the store is reloaded: the first record of a kind that is created after a restart replaces the one of that ID. |

`OrdersNeverClosed` passes and says what the code does where
`bug_orders_never_closed` shows that something else is documented.

Other disagreements seen while modelling and not turned into runs.

- Two overlapping requests each find no active black start, and each stores one
  (against `blackstart.go:11-12`). `OneActiveBlackStart` is about requests that
  do not overlap.
- A second call on the same black start replaces `activeBS` with its clone; when
  that is completed, a call on another black start registers while the first
  call still executes (against `service.go:55-56`). `OneRunning` is about black
  starts that one call each executes.
- A black start is rolled back while a call that has loaded it is under way; the
  next save of that call brings it back as executing (against
  `blackstart.go:143`).
- A connect loads the verified grid sync; a second verification fails and is
  stored; the connect saves its clone, and the breaker is closed over the
  recorded fault (against `README.md:22-24`). `PassedOverOnlyByStaleSave` says
  that there is no other way.
- A Level-1 report stores its anomaly after a completing request has looked for
  open ones and before it saves the cabin, which it gives back all the same
  (against `inspection.go:73-74`).
- The watcher of a cancelled call clears the pause of whatever report holds it
  (`blackstart.go:80`).
- Cabins in maintenance or under inspection are energized, because
  `Cabin.Available` is never called.
- With two goroutines `NoStrandedCabin` fails: an isolation or a maintenance
  order that loaded its anomaly before it was resolved locks the restored cabin
  again, and with every anomaly resolved nothing unlocks it. `FrozenCabinClear`
  and `ClosedLoop` fail as well: an inspection is saved over its freeze, an
  anomaly over its resolution. One request at a time keeps all three
  (`flows_alone`, section 5).
- Seeding a stored cabin again makes it operational, with its anomalies open
  (`handlers.go`, `seedCabin`).
- A black start that is refused because another is active, and a grid sync whose
  black start is not completed, are answered with 400, where other refusals of a
  state are 422; verifying an unknown grid sync is a 422 and not the documented
  404 (`README.md:78-80`); closing an order a second time is a 409, where
  `README.md:106` calls the route idempotent (it changes nothing).
- Any number is accepted as the level of an anomaly.
- The last snapshot is taken by a goroutine that `main` does not wait for: what
  changed since the last tick may be lost on SIGTERM (`worker.go:44`, "Persist
  final state on shutdown").
- A process that ends in the middle of a report or a dispatch, with a snapshot
  after the first save, leaves the cabin locked without an anomaly or under
  inspection without an inspection; only seeding the cabin again, or the
  resolution of another of its anomalies, frees it.

## 4. Fairness

`FairSpec` of BlackStartExecution: a call that has begun is run by the Go
scheduler, so the steps of an execution after its load are weakly fair, and so
are the second and third part of a report that has begun. Requests,
cancellations and the watcher's reaction are not fair: clients owe the program
nothing, and nothing may depend on the watcher. `FairSpec` of GridSwitching:
the ticker fires for ever and a goroutine that has loaded saves. `FairSpec` of
CabinFlows: likewise the worker's passes and the calls of a request that has
entered; the clock owes nobody a tick, and no request has to come. Locks need no
fairness of their own: a section under a lock is one step, and no section
waits inside except in `bsCond.Wait`, which releases the lock and is modelled
by `waiters`.

`FairSpec` of Backend: the process is started again after it ended (`Boot`), and
does end after its last snapshot; a request that was accepted makes its saves;
the worker runs at every tick. Nothing forces a crash or a request. The disk is
the one thing that needs strong fairness: `Rename` is enabled only while a
snapshot is under way and competes with `SnapshotFails` and `Exit`, so weak
fairness would say nothing about it; strong fairness says that the disk does
not fail every single time the worker tries again, as it does at every tick.

`PersistentSpec` of Backend adds clients who do not give up: whenever starting,
reviewing or closing an order is served again and again, one of them asks for
it. No passing run assumes it. `bug_orders_never_closed` does, so that its
behaviour is not one in which the clients have gone home.

## 5. Proofs

All theorems hold for any sets of cabins, calls, reports, operators and IDs.

- `BlackStart_proofs`: the methods return records of the right shape;
  `NextCabin` is an undecided participant when a cabin remains.
- `BlackStartExecution_proofs`: `TypeCorrect`. `TypeOK` contains what the
  pointers refer to (a registered clone exists, a report resumes a clone it
  paused), so it is inductive as it stands. `PauseReleased` and `WakeupNotLost`
  need each other: the loop falls asleep only while `bsPaused` is set, the flag
  has an isolating report as owner, and whoever stops isolating clears the flag
  and empties `waiters` in the same step.
- `BlackStartRecords_proofs`: `DualAuthorizationHolds`, `DecidedOnceHolds`.
  The invariant speaks of all records at once, stored, cloned and drafted, so a
  stale save moves a sound record and cannot make one unsound. For
  `DecidedOnce` the cabin a loop is handling must also be an undecided
  participant of its clone, from `TakeUpCabin` to `Decide`.
- `ConcurrencyBoundary_proofs`: `PausedCloneOwned`; `OneRunningHolds`, under
  the assumption that no black start is executed by two calls (`CalledOnce`;
  with two calls on one ID and a third on another it fails);
  `ProgressStoredHolds`, under `CalledOnce` and without operators, because a
  second call and an operator's stale clone overwrite what the loop has stored
  (its invariant, `StoredInv`, adds the positions of the loop at which no
  decision waits to be saved); `IsolatedInTimeHolds`, for a
  lone execution that nobody cancels. Its invariant says that reports pause one
  at a time (a second finds the state paused), that a report which has paused
  in time and not yet isolated holds the loop back (`HoldsLoop`), and that
  afterwards the loop can only read the isolated status (`SeenIsolated`). It
  needs that nothing is left to pause once the loop has ended (`OverInv`).
- `ExecutionRefinement_proofs`: `ImplementsFaultIsolationSteps`, the refinement
  without its progress, for a lone execution that nobody cancels among any
  number of reports and operators. `Register` is `Begin`, passing the wait is
  `Commit`, a decision is `Energize` or `Skip`, the end of the loop is `Finish`,
  a report in time is `Declare`; all else leaves the mapped variables alone
  (`Invisible`). That `Energize` finds its cabin committed is where the
  concurrency boundary enters: were the cabin declared faulty, `InTimeInv` says
  that its report is either still holding the loop back or has been seen.
- `GridSwitching_proofs`: every step drafts a new record or the result of one
  method on a stored record, so `BreakerHolds` and `FallbackHolds` follow from
  one lemma per method. Every clone is made from what its goroutine loaded
  (`ClonesMade`, an invariant of any number of goroutines), so a step leaves a
  stored record alone, applies one method to it or saves a stale clone over it
  (`MethodOrStale`). No method takes a connected operation out of its state or
  connects one without a good reading; `ReopenedOnlyByStaleSaveHolds` and
  `PassedOverOnlyByStaleSaveHolds` follow, with nothing assumed of how
  goroutines interleave. A save that compared what is stored with what was
  loaded would therefore be enough to rule both out.
- `CabinFlows_proofs`: `TypeCorrect`, `DeadlineDecidesHolds`, `SignedOffHolds`,
  from one invariant, `FlowsInv`: every record, stored or in a waiting call, is
  sound, and every waiting call is one its request could have left. That an
  escalation is never early needs more, because the worker escalates the record
  it finds by a list it made before: all records of one ID must have the level
  and the time of the report. The invariant therefore asks for a function
  `birth` that every record of an ID agrees with; a report extends it at an ID
  that was not issued before, which is why `issued` is part of it.
  Three more say of `flows_alone` what TLC checks for one cabin, for every
  number of cabins, anomalies, inspections and orders: `ClosedLoopAlone`,
  `NoStrandedCabinAlone` and `FrozenCabinClearAlone`. They are about sequences of
  complete requests by a lone goroutine (`LoneCaller`) and say nothing of
  requests that overlap, with which the code breaks all three (section 3); for
  that reason they are not among the `theorems` of `PROJECT.json`. Their
  invariants say what holds *while* a request is under way. `LoopInv`: an order
  that is closed over an open anomaly has the calls that resolve it still to come
  (`Settles`). `LockInv`: what is left of a request is one of a few short
  sequences (`Safe`), each in accord with the store it will be saved into; a
  cabin that is not operational has what will bring it back stored, or coming
  with the last call (`Sheltered`); an open inspection in a frozen cabin is about
  to be frozen (`FrozenClear`).
- `Backend_proofs`: `TypeCorrect`, `OneActiveBlackStartHolds`,
  `ReferencesResolveHolds`, `OrdersNeverClosedHolds`, for any number of cabins,
  IDs, process lives and clienteles. A store is `Sound` if it has the three
  properties, and a save is `Allowed` in a store if what it refers to is stored
  there and it makes no second black start active. `SaveKeepsSound` says that an
  allowed save keeps the store sound and leaves allowed what was; one lemma per
  group of routes says that an answer consists of allowed saves. The invariant is
  then that memory, file and snapshot are sound, and that the saves a request or
  the worker still has to make are allowed in memory. A request computes its
  saves from a store that the worker changes before they are made; that is
  harmless because nothing is ever deleted while the process runs
  (`NothingLost`) and the worker saves neither black starts nor orders.

  The properties of steps need more of what the saves of a request are
  (`SavesOf`). One lemma per group of routes says it: the routes of cabins,
  inspections and orders save neither anomalies nor black starts (`Minor`); an
  acknowledgement, isolation or resolution saves no anomaly as reported, and
  refused it escalates one at most (`Treated`); a refused switching route
  records a failed reading at most (`Switched`); while a black start is
  executing the routes of black starts roll back at most (`Guided`).
  `RequestRouted` puts them together, and `InterruptedOnlyRolledBackHolds` and
  `RefusalsHarmlessHolds` follow. `LockedBeforeReportedHolds` is about saves made
  many steps after the request was computed, so it needs an invariant: of the
  saves still to be made, one that puts a Level-1 anomaly on record has its
  cabin locked in memory, or the save that locks it ahead (`Ahead`), the same
  for every open inspection of the cabin, and none that unlocks it anywhere
  (`Locking`). The worker's save in between does not disturb this, because it
  concerns grid syncs and anomalies that it escalates (`CloneDealsWith`).

  `FirstIDsUnusedHolds` bounds the finding of `bug_id_reuse`: in the process that
  created the data file no request stores a new record over another. Its
  invariant (`Numbered`) says that the counter is not behind the ID of anything
  that is stored or waits to be saved. The next process loads the records and
  starts the counter from nothing, which is the only step that breaks it.

Only model-checked is liveness (`FailureRetested`, `OverdueEscalated`,
`OverdueEscalatedOnDisk` and the progress part of `ImplementsFaultIsolation`).
`NoStrandedCabin`, `FrozenCabinClear` and `ClosedLoop` are proved for a lone
client, the properties of `exec_single` and `exec_distinct` under the hypotheses
named above, and every other safety property of a passing run as it is checked.

## 6. Plan

Done, in this order: Cabin and BlackStart; BlackStartExecution with its runs;
FaultIsolation and the refinement; the proofs; GridSync and GridSwitching;
Anomaly, Inspection, WorkOrder and CabinFlows with their proofs; HttpApi and
Backend (API, persistence, crash and restart) with their proofs; the proofs of
the refinement's steps, of the stored progress, of what only stale saves do, of
the flows of a lone client, and of Backend's action properties.

What is left:

1. *CabinFlows* further: that cabins are separate, stated as a refinement. A view
   that keeps one cabin, its anomalies and inspections, the orders linked to
   them and the requests about any of these should be a behaviour of CabinFlows
   by itself, whatever goroutines do in other cabins. What holds of a lone client
   then holds of every cabin whose requests do not overlap, and the proof needs
   that no two requests hold the same new ID.
2. *Backend* with two requests at a time: the interleavings are those of the
   three concurrent modules, the crash between them is not.

## 7. Not modelled

Decoding of requests (a body that cannot be decoded is a 400 that changes
nothing), the GET routes, which only read, configuration, wiring, logging and
JSON layout; timestamps, names and free texts that no branch reads; the
`StepDelay` hold, which only delays the loop (any step may be delayed in the
model); `Store` queries that only list records for display; `Cabin.Available`
and `Store.ActiveGridSync`, which nothing calls; the fake clock of the tests.
Seeding a cabin while flows run is in Backend and not in CabinFlows. The hour of
the day and the expiry of certificates are inputs of a dispatch, not clocks. In
CabinFlows an order names an anomaly that exists, or none; in Backend also one
that does not. An inspector has an ID: the API takes an order with an empty one,
and `NullAssumption` keeps it apart from the signature nobody has given. The
concurrent modules begin with a fresh process and do not crash; Backend crashes
and serves one request at a time.
