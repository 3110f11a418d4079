------------------------------ MODULE Backend ------------------------------
(***************************************************************************)
(* The life of the process: start-up from the data file, requests one at a *)
(* time, the background worker with its snapshots, shutdown and crash      *)
(* (cmd/ejinagrid, internal/worker, internal/store).                       *)
(*                                                                         *)
(* Memory is lost when the process ends, the file is not.  A snapshot or   *)
(* the end of the process may come between any two saves of a request.  A  *)
(* request that saves nothing and takes no ID is not a step.               *)
(*                                                                         *)
(* The temporary file a snapshot is written to is not a variable: it is    *)
(* somewhere between empty and image while the worker is writing, and      *)
(* nothing ever reads one that is left over.                               *)
(***************************************************************************)
EXTENDS HttpApi, FiniteSets

CONSTANTS
    Fleet,         \* the cabins of seedIfEmpty
    Plans,         \* lists of cabins that a black start is requested over
    Levels,        \* anomaly levels that are reported
    Readings,      \* measurements of the synchronizer
    Bindings,      \* black starts that a grid sync is initiated for
    Clienteles,    \* [kinds, ids]: the kinds of records that the clients of a behaviour
                   \* use, and a bound on the IDs that one process gives out
    MaxAttempts,   \* bound on the failures of a grid sync
    MaxTime,       \* bound on the clock
    MaxBoots,      \* the start-up after which the process is not ended any more
    NoFile, Garbled, NoRequest

ASSUME FleetAssumption == Fleet \subseteq Cabins /\ Fleet # {}
ASSUME PlansAssumption == Plans \subseteq Seq(Cabins)
ASSUME LevelsAssumption == Levels \subseteq A!AnomalyLevel
ASSUME ReadingsAssumption == Readings \subseteq SUBSET G!Parameters
ASSUME BindingsAssumption == Bindings \subseteq IDs \cup {Standalone}
ASSUME ClienteleAssumption == \A u \in Clienteles : u.ids \in 0..MaxID
ASSUME BoundsAssumption == AckDeadline \in Nat /\ MaxID \in Nat /\ MaxBoots \in Nat
ASSUME NullAssumption ==
    /\ None \notin CabinStatus \cup I!InspectionRecord \cup A!AnomalyRecord
                     \cup W!WorkOrderRecord \cup B!BlackStartRecord \cup G!GridSyncRecord
    /\ NoFile \notin Store /\ Garbled \notin Store /\ NoFile # Garbled
    /\ Standalone \notin IDs /\ NoAnomaly \notin IDs

VARIABLES
    up,        \* the process is running
    mem,       \* Store.data
    file,      \* the data file
    request,   \* the request being served: its status code and the saves left
    issued,    \* DefaultIDs.n
    stage,     \* where the worker is
    list,      \* records the worker has still to look at
    clone,     \* the save the worker is about to make
    image,     \* the bytes of the snapshot under way
    now,       \* Clock.Now
    boots,     \* how often the process has been started
    using      \* the clientele of this behaviour

server == <<request, issued>>
worker == <<stage, list, clone, image>>
world  == <<now, using>>
vars == <<up, mem, file, server, worker, boots, world>>

\* "closing" writes the last snapshot, "stopped" is a worker that has returned.
Stage == {"idle", "escalating", "retesting", "writing", "closing", "stopped"}

Init ==
    /\ up = FALSE
    /\ mem = EmptyStore
    /\ file = NoFile
    /\ request = NoRequest
    /\ issued = 0
    /\ stage = "idle" /\ list = {} /\ clone = None /\ image = NoFile
    /\ now = 1
    /\ boots = 0
    /\ using \in Clienteles

-----------------------------------------------------------------------------
(* Start and end of the process.                                           *)

Load == IF file = NoFile THEN EmptyStore ELSE file

seedIfEmpty(s) ==
    IF \E c \in Cabins : s.cabin[c] # None THEN s
    ELSE [s EXCEPT !.cabin = [c \in Cabins |-> IF c \in Fleet THEN "operational" ELSE None]]

\* A file that cannot be parsed ends the process at once.  Seeding is over
\* before the worker and the server begin.
Boot ==
    /\ ~up /\ boots < MaxBoots /\ file # Garbled
    /\ up' = TRUE
    /\ boots' = boots + 1
    /\ mem' = seedIfEmpty(Load)
    /\ UNCHANGED <<file, server, worker, world>>

\* A crash, or SIGTERM: main returns as soon as the server stops to listen, and
\* waits neither for the requests under way nor for the worker.
Exit ==
    /\ up /\ boots < MaxBoots
    /\ up' = FALSE
    /\ mem' = EmptyStore
    /\ request' = NoRequest /\ issued' = 0
    /\ stage' = "idle" /\ list' = {} /\ clone' = None /\ image' = NoFile
    /\ UNCHANGED <<file, boots, world>>

-----------------------------------------------------------------------------
(* Requests.                                                               *)

Serve(answer) ==
    /\ answer.saves # <<>> \/ answer.issues
    /\ answer.issues => issued < using.ids
    /\ issued' = IF answer.issues THEN issued + 1 ELSE issued
    /\ request' = IF answer.saves = <<>> THEN NoRequest
                  ELSE [code |-> answer.code, saves |-> answer.saves]

\* Mutant: the counter is incremented in a copy of the generator.
NewIDOfCopy == 1

NewID == issued + 1

CabinRequest == \E c \in Cabins : Serve(seedCabin(mem, c))

InspectionRequest ==
    \/ \E c \in Cabins, inspector \in Inspectors, inWindow \in BOOLEAN :
          Serve(dispatchInspection(mem, NewID, c, inspector, inWindow))
    \/ \E i \in IDs :
          \/ Serve(startInspection(mem, i))
          \/ Serve(uploadPhoto(mem, i))
          \/ \E inspector \in Inspectors : Serve(reviewInspection(mem, i, inspector))
          \/ Serve(completeInspection(mem, i))

AnomalyRequest ==
    \/ \E c \in Cabins, level \in Levels : Serve(reportAnomaly(mem, NewID, c, level, now))
    \/ \E i \in IDs :
          \/ Serve(ackAnomaly(mem, i, now))
          \/ Serve(isolateAnomaly(mem, i))
          \/ Serve(resolveAnomaly(mem, i))

OrderRequest ==
    \/ \E c \in Cabins, linked \in IDs \cup {NoAnomaly}, inspector \in Inspectors :
          Serve(openWorkOrder(mem, NewID, c, linked, inspector))
    \/ \E i \in IDs :
          \/ Serve(startWorkOrder(mem, i))
          \/ \E inspector \in Inspectors : Serve(reviewWorkOrder(mem, i, inspector))
          \/ Serve(closeWorkOrder(mem, i))

BlackStartRequest ==
    \/ \E plan \in Plans : Serve(requestBlackStart(mem, NewID, plan))
    \/ \E i \in IDs :
          \/ \E role \in B!Roles, p \in Principals : Serve(authorizeBlackStart(mem, i, role, p))
          \/ Serve(executeBlackStart(mem, i))
          \/ Serve(rollbackBlackStart(mem, i))

GridSyncRequest ==
    \/ \E b \in Bindings : Serve(initiateGridSync(mem, NewID, b))
    \/ \E i \in IDs :
          \/ Serve(beginSyncing(mem, i))
          \/ /\ mem.gridSync[i] # None => mem.gridSync[i].attempt < MaxAttempts
             /\ \E m \in Readings : Serve(verifySync(mem, i, m))
          \/ Serve(connectGrid(mem, i))
          \/ Serve(beginRetest(mem, i))

Request ==
    /\ up /\ request = NoRequest
    /\ \/ "cabin" \in using.kinds /\ CabinRequest
       \/ "inspection" \in using.kinds /\ InspectionRequest
       \/ "anomaly" \in using.kinds /\ AnomalyRequest
       \/ "order" \in using.kinds /\ OrderRequest
       \/ "blackStart" \in using.kinds /\ BlackStartRequest
       \/ "gridSync" \in using.kinds /\ GridSyncRequest
    /\ UNCHANGED <<up, mem, file, worker, boots, world>>

\* One of the saves whose turn it is; the request is answered after the last.
SaveNext ==
    /\ request # NoRequest
    /\ \E save \in Head(request.saves) :
          LET left == AnyOrder(Head(request.saves) \ {save}) \o Tail(request.saves)
          IN  /\ mem' = Apply(mem, save)
              /\ request' = IF left = <<>> THEN NoRequest ELSE [request EXCEPT !.saves = left]
    /\ UNCHANGED <<up, file, issued, worker, boots, world>>

-----------------------------------------------------------------------------
(* The worker: RunOnce at every tick, a last snapshot on shutdown.  Its    *)
(* passes over anomalies and grid syncs load and save like any request.    *)

\* Mutant: only the anomalies this process has created are watched.
OverdueSinceBoot ==
    {i \in 1..issued : mem.anomaly[i] # None /\ mem.anomaly[i].state = "reported"
                                            /\ A!Late(mem.anomaly[i], now)}

Overdue ==
    {i \in IDs : mem.anomaly[i] # None /\ mem.anomaly[i].state = "reported"
                                       /\ A!Late(mem.anomaly[i], now)}

FailedSyncs == {i \in IDs : mem.gridSync[i] # None /\ mem.gridSync[i].state = "sync_failed"}

At(s) == stage = s /\ clone = None

BeginPass ==
    /\ up /\ At("idle")
    /\ stage' = "escalating" /\ list' = Overdue
    /\ UNCHANGED <<up, mem, file, server, clone, image, boots, world>>

Escalate ==
    /\ At("escalating")
    /\ \E i \in list :
          /\ list' = list \ {i}
          /\ clone' = IF A!CanEscalate(mem.anomaly[i])
                      THEN Save("anomaly", i, A!Escalate(mem.anomaly[i])) ELSE None
    /\ UNCHANGED <<up, mem, file, server, stage, image, boots, world>>

ListRetests ==
    /\ At("escalating") /\ list = {}
    /\ stage' = "retesting" /\ list' = FailedSyncs
    /\ UNCHANGED <<up, mem, file, server, clone, image, boots, world>>

PrepareRetest ==
    /\ At("retesting")
    /\ \E i \in list :
          /\ list' = list \ {i}
          /\ clone' = IF G!CanBeginRetest(mem.gridSync[i])
                      THEN Save("gridSync", i, G!BeginRetest(mem.gridSync[i])) ELSE None
    /\ UNCHANGED <<up, mem, file, server, stage, image, boots, world>>

SaveClone ==
    /\ clone # None
    /\ mem' = Apply(mem, clone)
    /\ clone' = None
    /\ UNCHANGED <<up, file, server, stage, list, image, boots, world>>

\* Mutant: the snapshot is written to the data file itself.
SnapshotInPlace ==
    /\ stage' = "writing" /\ image' = mem /\ file' = Garbled
    /\ UNCHANGED <<up, mem, server, list, clone, boots, world>>

\* The state is marshalled under the store's lock and the temporary file opened.
Snapshot ==
    /\ stage' = "writing" /\ image' = mem
    /\ UNCHANGED <<up, mem, file, server, list, clone, boots, world>>

PassSnapshot == At("retesting") /\ list = {} /\ Snapshot

\* After SIGTERM the worker takes a snapshot without a pass before it, and returns.
LastSnapshot ==
    /\ up /\ boots < MaxBoots /\ At("idle")
    /\ stage' = "closing" /\ image' = mem
    /\ UNCHANGED <<up, mem, file, server, list, clone, boots, world>>

SnapshotOver ==
    /\ stage \in {"writing", "closing"}
    /\ stage' = IF stage = "closing" THEN "stopped" ELSE "idle"
    /\ image' = NoFile
    /\ UNCHANGED <<up, mem, server, list, clone, boots, world>>

Rename == file' = image /\ SnapshotOver

\* Creating the directory, writing or renaming may fail; the next tick tries again.
SnapshotFails == UNCHANGED file /\ SnapshotOver

\* The steps of the worker that do not depend on the disk.
WorkerStep ==
    \/ BeginPass \/ Escalate \/ ListRetests \/ PrepareRetest \/ SaveClone \/ PassSnapshot

-----------------------------------------------------------------------------
\* Nobody but the flow of anomalies looks at the clock.
Tick ==
    /\ "anomaly" \in using.kinds /\ now < MaxTime
    /\ now' = now + 1
    /\ UNCHANGED <<up, mem, file, server, worker, boots, using>>

Next ==
    \/ Boot \/ Exit
    \/ Request \/ SaveNext
    \/ WorkerStep \/ LastSnapshot \/ Rename \/ SnapshotFails
    \/ Tick

Spec == Init /\ [][Next]_vars

\* The process ends after SIGTERM and is started again, a request under way is
\* served, the ticker keeps firing, and a snapshot that is tried again and again
\* is written in the end.
Fairness ==
    /\ WF_vars(Boot)
    /\ WF_vars(stage \in {"closing", "stopped"} /\ Exit)
    /\ WF_vars(SaveNext)
    /\ WF_vars(WorkerStep)
    /\ SF_vars(Rename)

FairSpec == Spec /\ Fairness
-----------------------------------------------------------------------------
(* Properties.                                                             *)

Saves ==
    [kind : {"cabin"}, id : Cabins, value : CabinStatus]
      \cup [kind : {"inspection"}, id : IDs, value : I!InspectionRecord]
      \cup [kind : {"anomaly"}, id : IDs, value : A!AnomalyRecord]
      \cup [kind : {"order"}, id : IDs, value : W!WorkOrderRecord]
      \cup [kind : {"blackStart"}, id : IDs, value : B!BlackStartRecord]
      \cup [kind : {"gridSync"}, id : IDs, value : G!GridSyncRecord]

\* Types of the variables.  The file is never garbled: whenever the process ends,
\* it can be started again.
TypeOK ==
    /\ up \in BOOLEAN
    /\ mem \in Store
    /\ file \in Store \cup {NoFile}
    /\ request \in [code : Nat, saves : Seq(SUBSET Saves)] \cup {NoRequest}
    /\ issued \in 0..MaxID
    /\ stage \in Stage
    /\ list \subseteq IDs
    /\ clone \in Saves \cup {None}
    /\ image \in Store \cup {NoFile}
    /\ image # NoFile <=> stage \in {"writing", "closing"}
    /\ now \in Nat /\ boots \in 0..MaxBoots /\ using \in Clienteles

\* What is stored in memory, on disk, or about to be.
Stores == {mem} \cup ({file, image} \ {NoFile, Garbled})

\* "Only one non-terminal black start may exist at a time", also after any number
\* of crashes in the middle of a request, and in what a restart will find.
OneActiveBlackStart ==
    \A s \in Stores : \A i, j \in ActiveBlackStarts(s) : i = j

\* However a snapshot falls between the saves of a request, what it refers to is
\* in it: the cabin of every record and the black start of every grid sync.
ReferencesResolve ==
    \A s \in Stores : \A i \in IDs :
        /\ \A kind \in {"inspection", "anomaly", "order"} :
              s[kind][i] # None => s.cabin[s[kind][i].cabin] # None
        /\ s.blackStart[i] # None
              => \A c \in B!Participants(s.blackStart[i]) : s.cabin[c] # None
        /\ s.gridSync[i] # None /\ s.gridSync[i].blackStart # Standalone
              => s.blackStart[s.gridSync[i].blackStart] # None

\* Over HTTP no work order is ever signed or closed, because no route submits one
\* for review: the closed loop of flow 3, which the repository describes
\* (StartedOrdersClosed below), cannot be completed.
OrdersNeverClosed ==
    \A s \in Stores : \A i \in IDs :
        s.order[i] # None => s.order[i].state # "closed" /\ s.order[i].signedBy = NoOne

\* A Level-1 anomaly is on record only after its cabin is locked and every open
\* inspection of the cabin is frozen.
LockedBeforeReported ==
    [][\A i \in IDs :
          /\ up
          /\ mem'.anomaly[i] # mem.anomaly[i]
          /\ mem'.anomaly[i] # None
          /\ mem'.anomaly[i].level = 1 /\ mem'.anomaly[i].state = "reported"
          => /\ IsFrozen(mem.cabin[mem'.anomaly[i].cabin])
             /\ OpenInspections(mem, mem'.anomaly[i].cabin) = {}]_vars

\* A black start that is executing with no request under way was interrupted by
\* the end of an earlier process.  Until it is rolled back, no request does
\* anything else to a black start.
InterruptedOnlyRolledBack ==
    [][\A i \in IDs :
          /\ request = NoRequest /\ request' # NoRequest
          /\ mem.blackStart[i] # None /\ mem.blackStart[i].state = "executing"
          => \A k \in DOMAIN request'.saves : \A save \in request'.saves[k] :
                save.kind = "blackStart"
                  => /\ mem.blackStart[save.id] # None
                     /\ save.value = B!Rollback(mem.blackStart[save.id])]_vars

\* An error status means that nothing has changed, except that a late
\* acknowledgement escalates and a failed verification is recorded.
RefusalsHarmless ==
    [][request = NoRequest /\ request' # NoRequest /\ request'.code >= 400
         => \A k \in DOMAIN request'.saves : \A save \in request'.saves[k] :
               \/ save.value = mem[save.kind][save.id]
               \/ save.kind = "anomaly" /\ save.value.state = "escalated"
               \/ save.kind = "gridSync" /\ save.value.state = "sync_failed"]_vars

\* A created record is stored under an ID that no record of its kind has.
CreatedIsNew ==
    request = NoRequest /\ request' # NoRequest /\ issued' = issued + 1
      => \A k \in DOMAIN request'.saves : \A save \in request'.saves[k] :
            save.id = NewID /\ save.kind # "cabin" => mem[save.kind][save.id] = None

\* The process that has created the data file replaces no record by a new one,
\* whatever its requests and its worker store meanwhile.
FirstIDsUnused == [][boots = 1 => CreatedIsNew]_vars

\* A Level-1 anomaly that the data file holds as unacknowledged past its deadline
\* is escalated or dealt with on disk, though the process may end before it
\* escalates it, or after that and before the snapshot.
OverdueEscalatedOnDisk ==
    \A i \in IDs :
        LET OverdueOnDisk == /\ file # NoFile
                             /\ file.anomaly[i] # None
                             /\ file.anomaly[i].state = "reported"
                             /\ A!Late(file.anomaly[i], now)
        IN  OverdueOnDisk ~> ~OverdueOnDisk

-----------------------------------------------------------------------------
(* What the repository says of the program and the program does not do.    *)

\* "collision-resistant IDs": a created record replaces none that is stored.
NewIDsUnused == [][CreatedIsNew]_vars

\* Clients who follow the documented routes of a work order and do not give up:
\* whenever starting, reviewing or closing an order is accepted again and again,
\* one of them asks for it.
Asked(answer) ==
    /\ "order" \in using.kinds /\ up /\ request = NoRequest
    /\ Serve(answer)
    /\ UNCHANGED <<up, mem, file, worker, boots, world>>

PersistentSpec ==
    /\ FairSpec
    /\ \A i \in IDs :
          /\ SF_vars(Asked(startWorkOrder(mem, i)))
          /\ \A inspector \in Inspectors : SF_vars(Asked(reviewWorkOrder(mem, i, inspector)))
          /\ SF_vars(Asked(closeWorkOrder(mem, i)))

\* "A work order can only be closed after the assigned inspector reviews and signs
\* it", by the routes start, review and close: an order that is in progress is
\* closed in the end if its clients persist.
StartedOrdersClosed ==
    \A i \in IDs :
        mem.order[i] # None /\ mem.order[i].state = "in_progress"
          ~> mem.order[i] = None \/ mem.order[i].state = "closed"

=============================================================================
