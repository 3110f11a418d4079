---------------------- MODULE ExecutionRefinement_proofs ----------------------
(***************************************************************************)
(* Every step of a lone execution is a step of FaultIsolation or invisible *)
(* to it.  The progress FaultIsolation promises is left to TLC.            *)
(***************************************************************************)
EXTENDS ConcurrencyBoundary_proofs, ExecutionRefinement

\* The watcher runs from the first save on, and only an execution that has begun
\* is registered: before, reports cannot pause it.
BegunInv ==
    /\ pc[Observed] \in {"call", "register", "announce"} => watcher[Observed] = "off"
    /\ pc[Observed] \notin {"call", "register", "announce", "returned"}
          => watcher[Observed] # "off"
    /\ ~Begun => activeBS = NoExecution

RefinementInv ==
    TypeOK /\ RecordsInv /\ OverInv(Observed) /\ BoundaryInv(Observed) /\ BegunInv

LEMMA NextKeepsBegun ==
    ASSUME LoneExecution(Observed)
    PROVE  RefinementInv /\ [Next]_vars => BegunInv'
<1> SUFFICES ASSUME RefinementInv, [Next]_vars PROVE BegunInv'
  OBVIOUS
<1> USE DEF RefinementInv, BegunInv, Begun, storeVars, coordVars, execVars, cancelVars
<1>0. Observed \in Executions /\ \A e \in Executions : e = Observed
  BY DEF LoneExecution
<1>1. ASSUME NEW e \in Executions,
             \/ LoadMissing(e) \/ Load(e) \/ RegisterRefused(e) \/ Register(e)
             \/ Announce(e) \/ TakeUpCabin(e) \/ AllDecided(e) \/ Park(e) \/ PassWait(e)
             \/ ReadCabin(e) \/ Decide(e) \/ SaveProgress(e) \/ CompleteStep(e)
             \/ SaveFinal(e) \/ Unregister(e)
             \/ Cancel(e) \/ WatcherCancel(e) \/ WatcherDone(e)
      PROVE  BegunInv'
  <2>1. e = Observed
    BY <1>0
  <2> QED
    BY <1>1, <2>1
       DEF LoadMissing, Load, RegisterRefused, Register, Announce, TakeUpCabin, AllDecided,
           Park, PassWait, ReadCabin, Decide, SaveProgress, CompleteStep, SaveFinal,
           Unregister, Cancel, WatcherCancel, WatcherDone, Goto, TypeOK, OverInv, ExecutionPC
<1>2. ASSUME NEW r \in Reports,
             \/ \E c \in Cabins : PauseForFault(r, c)
             \/ LockCabin(r) \/ ResumeStartup(r)
      PROVE  BegunInv'
  BY <1>2 DEF PauseForFault, LockCabin, ResumeStartup
<1>3. ASSUME NEW o \in Operators,
             \/ \E plan \in Plans : Request(o, plan)
             \/ \E id \in BlackStartIDs :
                   \/ \E role \in Roles, p \in Principals \cup {Nobody} :
                         AuthorizeBlackStart(o, id, role, p)
                   \/ RollbackBlackStart(o, id)
             \/ SaveDraft(o)
      PROVE  BegunInv'
  BY <1>3 DEF Request, AuthorizeBlackStart, RollbackBlackStart, SaveDraft
<1>4. CASE UNCHANGED vars
  BY <1>4 DEF vars
<1> QED
  BY <1>1, <1>2, <1>3, <1>4 DEF Next, ExecutionStep, AllReturned

-----------------------------------------------------------------------------
(* The mapping                                                             *)

\* What an execution looks like from outside.
View(b) == <<Participants(b), b.started, b.excluded>>

\* FaultIsolation sees of an execution that has begun whether it runs, its plan
\* and decisions, the cabins it is not past its wait for, and the reports in time.
LEMMA Invisible ==
    ASSUME UNCHANGED FaultedCabins,
           Begun' <=> Begun,
           Begun => /\ Running(Observed)' <=> Running(Observed)
                    /\ View(bs'[Observed]) = View(bs[Observed])
                    /\ \A c \in Cabins : \/ c \in FaultedCabins
                                         \/ ShortOf(Observed, c)' <=> ShortOf(Observed, c)
    PROVE  UNCHANGED Abstract!vars
<1>1. UNCHANGED PhaseOf
  BY DEF PhaseOf
<1>2. UNCHANGED PlanOf
  BY DEF PlanOf, View
<1>3. UNCHANGED FateOf
  <2>1. ASSUME NEW c \in Cabins PROVE FateOf'[c] = FateOf[c]
    BY <2>1 DEF FateOf, View
  <2> QED
    BY <2>1 DEF FateOf
<1> QED
  BY <1>1, <1>2, <1>3 DEF Abstract!vars

\* A step that leaves the reports alone declares no fault.
LEMMA NoFaultDeclared ==
    ASSUME UNCHANGED reportVars
    PROVE  UNCHANGED FaultedCabins
BY DEF FaultedCabins, reportVars

\* Steps of the execution before it begins, and those that move it without a
\* decision and without passing a wait.
LEMMA QuietSteps ==
    ASSUME LoneExecution(Observed), RefinementInv,
           \/ LoadMissing(Observed) \/ Load(Observed) \/ RegisterRefused(Observed)
           \/ Announce(Observed) \/ TakeUpCabin(Observed) \/ AllDecided(Observed)
           \/ Park(Observed) \/ ReadCabin(Observed) \/ SaveProgress(Observed)
           \/ SaveFinal(Observed) \/ Unregister(Observed)
           \/ Cancel(Observed) \/ WatcherCancel(Observed) \/ WatcherDone(Observed)
    PROVE  UNCHANGED Abstract!vars
<1> USE DEF storeVars, coordVars, execVars, cancelVars
<1>0. Observed \in Executions
  BY DEF LoneExecution
<1>1. UNCHANGED FaultedCabins
  BY NoFaultDeclared
     DEF LoadMissing, Load, RegisterRefused, Announce, TakeUpCabin, AllDecided, Park,
         ReadCabin, SaveProgress, SaveFinal, Unregister, Cancel, WatcherCancel, WatcherDone
<1>2. Begun' <=> Begun
  BY <1>0 DEF RefinementInv, BegunInv, Begun, TypeOK, Goto, BoundaryInv, OneIsolates,
              LoadMissing, Load, RegisterRefused, Announce, TakeUpCabin, AllDecided, Park,
              ReadCabin, SaveProgress, SaveFinal, Unregister, Cancel, WatcherCancel, WatcherDone
<1>3. CASE LoadMissing(Observed) \/ Load(Observed) \/ RegisterRefused(Observed)
  <2>1. ~Begun
    BY <1>0, <1>3 DEF RefinementInv, BegunInv, Begun, TypeOK, Goto, LoadMissing, Load,
                      RegisterRefused
  <2> QED
    BY <1>1, <1>2, <2>1, Invisible
<1>4. CASE \/ Announce(Observed) \/ TakeUpCabin(Observed) \/ AllDecided(Observed)
           \/ Park(Observed) \/ ReadCabin(Observed) \/ SaveProgress(Observed)
           \/ SaveFinal(Observed) \/ Unregister(Observed)
           \/ Cancel(Observed) \/ WatcherCancel(Observed) \/ WatcherDone(Observed)
  <2>1. UNCHANGED bs
    BY <1>4 DEF Announce, TakeUpCabin, AllDecided, Park, ReadCabin, SaveProgress, SaveFinal,
                Unregister, Cancel, WatcherCancel, WatcherDone
  <2>2. Running(Observed)' <=> Running(Observed)
    BY <1>0, <1>4 DEF Running, TypeOK, RefinementInv, Goto, Announce, TakeUpCabin, AllDecided,
                Park, ReadCabin, SaveProgress, SaveFinal, Unregister, Cancel, WatcherCancel,
                WatcherDone
  <2>3. \A c \in Cabins : ShortOf(Observed, c)' <=> ShortOf(Observed, c)
    BY <1>0, <1>4 DEF ShortOf, TypeOK, RefinementInv, Goto, Announce, TakeUpCabin, AllDecided,
                Park, ReadCabin, SaveProgress, SaveFinal, Unregister, Cancel, WatcherCancel,
                WatcherDone
  <2> QED
    BY <1>1, <1>2, <2>1, <2>2, <2>3, Invisible DEF View
<1> QED
  BY <1>3, <1>4

-----------------------------------------------------------------------------
(* Steps of the execution that FaultIsolation sees                         *)

LEMMA RegisterBegins ==
    ASSUME LoneExecution(Observed), RefinementInv, Register(Observed)
    PROVE  Abstract!Begin
<1>0. Observed \in Executions
  BY DEF LoneExecution
<1>1. /\ ~Begun /\ Begun'
      /\ Running(Observed)'
      /\ bs'[Observed] \in BlackStartRecord
      /\ \A c \in Cabins : ShortOf(Observed, c)'
  <2>1. TypeOK /\ pc[Observed] = "register" /\ pc'[Observed] = "announce"
    BY <1>0 DEF Register, Goto, RefinementInv, TypeOK
  <2>2. bs[Observed] \in BlackStartRecord /\ bs'[Observed] = BeginExecution(bs[Observed])
    BY <1>0, <2>1 DEF Register, TypeOK
  <2>3. bs'[Observed] \in BlackStartRecord
    BY <2>2 DEF BeginExecution, BlackStartRecord, BlackStartState
  <2> QED
    BY <2>1, <2>3 DEF Begun, Running, ShortOf, RefinementInv, BegunInv
<1>2. PhaseOf = "idle" /\ PhaseOf' = "running"
  BY <1>1 DEF PhaseOf
<1>3. PlanOf' \in SUBSET Cabins
  BY <1>1 DEF PlanOf, Participants, BlackStartRecord
<1>4. FateOf' \in [Cabins -> {"pending", "energized", "skipped"}]
  <2>1. FateOf' = [c \in Cabins |->
                     IF c \in bs'[Observed].started THEN "energized"
                     ELSE IF c \in bs'[Observed].excluded THEN "skipped" ELSE "pending"]
    BY <1>1 DEF FateOf
  <2> QED
    BY <2>1
<1>5. UNCHANGED FaultedCabins
  BY NoFaultDeclared DEF Register
<1> QED
  BY <1>2, <1>3, <1>4, <1>5 DEF Abstract!Begin

\* Where the execution stands while it handles a cabin.
LEMMA HandledCabin ==
    ASSUME LoneExecution(Observed), RefinementInv,
           pc[Observed] \in {"await", "read", "decide"}
    PROVE  /\ Begun /\ PhaseOf = "running"
           /\ PlanOf = Participants(bs[Observed])
           /\ bs[Observed] \in BlackStartRecord
           /\ current[Observed] \in Cabins
           /\ current[Observed] \in PlanOf
           /\ current[Observed] \notin bs[Observed].started \cup bs[Observed].excluded
<1>1. Observed \in Executions
  BY DEF LoneExecution
<1>2. Begun /\ Running(Observed)
  BY DEF Begun, Running, RefinementInv, BegunInv
<1>3. bs[Observed] \in BlackStartRecord /\ current[Observed] \in Cabins
  BY <1>1 DEF RefinementInv, TypeOK
<1> QED
  BY <1>1, <1>2, <1>3 DEF PhaseOf, PlanOf, RefinementInv, RecordsInv, CurrentUndecided

\* Past the wait, the execution is committed to its cabin, unless the cabin was
\* declared faulty before.
LEMMA PassWaitCommits ==
    ASSUME LoneExecution(Observed), RefinementInv, PassWait(Observed)
    PROVE  Abstract!Commit(current[Observed]) \/ UNCHANGED Abstract!vars
<1> DEFINE k == current[Observed]
<1>0. Observed \in Executions
  BY DEF LoneExecution
<1>1. /\ pc[Observed] = "await" /\ pc'[Observed] = "read"
      /\ UNCHANGED <<bs, current, watcher>>
  BY <1>0 DEF PassWait, Goto, RefinementInv, TypeOK, cancelVars
<1>2. UNCHANGED FaultedCabins
  BY NoFaultDeclared DEF PassWait
<1>3. /\ Begun /\ PhaseOf = "running"
      /\ k \in Cabins /\ k \in PlanOf
      /\ k \notin bs[Observed].started \cup bs[Observed].excluded
  BY <1>1, HandledCabin
<1>4. Begun' /\ Running(Observed) /\ Running(Observed)'
  BY <1>1, <1>3 DEF Begun, Running
<1>5. /\ \A c \in Cabins : ShortOf(Observed, c)
      /\ \A c \in Cabins : ShortOf(Observed, c)' <=> c # k
  BY <1>1 DEF ShortOf
<1>6. CASE k \in FaultedCabins
  BY <1>1, <1>2, <1>3, <1>4, <1>5, <1>6, Invisible DEF View
<1>7. CASE k \notin FaultedCabins
  <2>1. FateOf[k] = "pending" /\ FateOf'[k] = "committed"
    BY <1>1, <1>2, <1>3, <1>4, <1>5, <1>7 DEF FateOf
  <2>2. \A c \in Cabins \ {k} : FateOf'[c] = FateOf[c]
    BY <1>1, <1>2, <1>3, <1>4, <1>5 DEF FateOf
  <2>3. FateOf' = [FateOf EXCEPT ![k] = "committed"]
    BY <2>1, <2>2 DEF FateOf
  <2>4. UNCHANGED <<PhaseOf, PlanOf>>
    BY <1>1, <1>3, <1>4 DEF PhaseOf, PlanOf
  <2> QED
    BY <1>2, <1>3, <1>7, <2>1, <2>3, <2>4 DEF Abstract!Commit, Abstract!Becomes
<1> QED
  BY <1>6, <1>7

\* A decision energizes a cabin the execution is committed to, or skips it.
LEMMA DecideSettles ==
    ASSUME LoneExecution(Observed), RefinementInv, Decide(Observed)
    PROVE  Abstract!Energize(current[Observed]) \/ Abstract!Skip(current[Observed])
<1> DEFINE k == current[Observed]
<1>0. Observed \in Executions
  BY DEF LoneExecution
<1>1. /\ pc[Observed] = "decide" /\ pc'[Observed] = "save"
      /\ UNCHANGED <<current, seen, watcher>>
      /\ bs'[Observed] = IF IsFrozen(seen[Observed]) THEN MarkCabinExcluded(bs[Observed], k)
                                                     ELSE MarkCabinStarted(bs[Observed], k)
  BY <1>0 DEF Decide, Goto, RefinementInv, TypeOK, cancelVars
<1>2. UNCHANGED FaultedCabins
  BY NoFaultDeclared DEF Decide
<1>3. /\ Begun /\ PhaseOf = "running" /\ PlanOf = Participants(bs[Observed])
      /\ bs[Observed] \in BlackStartRecord
      /\ k \in Cabins /\ k \in PlanOf
      /\ k \notin bs[Observed].started \cup bs[Observed].excluded
  BY <1>1, HandledCabin
<1>4. Begun' /\ Running(Observed) /\ Running(Observed)'
  BY <1>1, <1>3 DEF Begun, Running
<1>5. UNCHANGED <<PhaseOf, PlanOf>>
  BY <1>1, <1>3, <1>4 DEF PhaseOf, PlanOf, MarkCabinExcluded, MarkCabinStarted, Participants,
                          BlackStartRecord
<1>6. /\ \A c \in Cabins : ShortOf(Observed, c) <=> c # k
      /\ \A c \in Cabins : ShortOf(Observed, c)'
  BY <1>1 DEF ShortOf
<1>7. \A c \in Cabins \ {k} :
        /\ c \in bs'[Observed].started <=> c \in bs[Observed].started
        /\ c \in bs'[Observed].excluded <=> c \in bs[Observed].excluded
  BY <1>1, <1>3 DEF MarkCabinExcluded, MarkCabinStarted, BlackStartRecord
<1>8. \A c \in Cabins \ {k} : FateOf'[c] = FateOf[c]
  BY <1>2, <1>3, <1>4, <1>6, <1>7 DEF FateOf
<1>9. FateOf[k] \in {"pending", "committed"}
  BY <1>3, <1>6 DEF FateOf
<1>10. CASE IsFrozen(seen[Observed])
  <2>1. k \in bs'[Observed].excluded /\ k \notin bs'[Observed].started
    BY <1>1, <1>3, <1>10 DEF MarkCabinExcluded, BlackStartRecord
  <2>2. FateOf'[k] = "skipped"
    BY <1>3, <1>4, <2>1 DEF FateOf
  <2>3. FateOf' = [FateOf EXCEPT ![k] = "skipped"]
    BY <1>8, <2>2 DEF FateOf
  <2> QED
    BY <1>2, <1>3, <1>5, <1>9, <2>3 DEF Abstract!Skip, Abstract!Becomes
<1>11. CASE ~IsFrozen(seen[Observed])
  <2>1. k \notin FaultedCabins
    <3>1. SUFFICES ASSUME NEW r \in intime, rcabin[r] = k PROVE FALSE
      BY DEF FaultedCabins
    <3>2. rpc[r] # "lock"
      BY <1>6, <3>1, <1>3 DEF RefinementInv, BoundaryInv, InTimeInv, HoldsLoop
    <3> QED
      BY <1>1, <1>11, <3>1, <3>2 DEF RefinementInv, BoundaryInv, InTimeInv, SeenIsolated
  <2>2. FateOf[k] = "committed"
    BY <1>3, <1>6, <2>1 DEF FateOf
  <2>3. k \in bs'[Observed].started
    BY <1>1, <1>3, <1>11 DEF MarkCabinStarted, BlackStartRecord
  <2>4. FateOf'[k] = "energized"
    BY <1>3, <1>4, <2>3 DEF FateOf
  <2>5. FateOf' = [FateOf EXCEPT ![k] = "energized"]
    BY <1>8, <2>4 DEF FateOf
  <2> QED
    BY <1>2, <1>3, <1>5, <2>2, <2>5 DEF Abstract!Energize, Abstract!Becomes
<1> QED
  BY <1>10, <1>11

\* The execution completes, or refuses to, when every cabin is decided.
LEMMA CompleteFinishes ==
    ASSUME LoneExecution(Observed), RefinementInv, CompleteStep(Observed)
    PROVE  Abstract!Finish
<1>0. Observed \in Executions
  BY DEF LoneExecution
<1>1. /\ pc[Observed] = "complete" /\ pc'[Observed] \in {"saveFinal", "unregister"}
      /\ UNCHANGED <<current, watcher>>
      /\ bs[Observed] \in BlackStartRecord
      /\ bs'[Observed] = Complete(bs[Observed])
  BY <1>0 DEF CompleteStep, Goto, RefinementInv, TypeOK, cancelVars
<1>2. UNCHANGED FaultedCabins
  BY NoFaultDeclared DEF CompleteStep
<1>3. Begun /\ Begun' /\ Running(Observed) /\ ~Running(Observed)'
  BY <1>1 DEF Begun, Running, RefinementInv, BegunInv
<1>4. PhaseOf = "running" /\ PhaseOf' = "over"
  BY <1>3 DEF PhaseOf
<1>5. View(bs'[Observed]) = View(bs[Observed])
  BY <1>1, StateMethodsKeepCabins DEF View
<1>6. UNCHANGED PlanOf
  BY <1>3, <1>5 DEF PlanOf, View
<1>7. UNCHANGED FateOf
  <2>1. \A c \in Cabins : ShortOf(Observed, c) /\ ShortOf(Observed, c)'
    BY <1>1 DEF ShortOf
  <2>2. \A c \in Cabins : FateOf'[c] = FateOf[c]
    BY <1>3, <1>5, <2>1 DEF FateOf, View
  <2> QED
    BY <2>2 DEF FateOf
<1>8. \A c \in PlanOf : FateOf[c] \in {"energized", "skipped"}
  <2>1. Remaining(bs[Observed]) = {}
    BY <1>1 DEF RefinementInv, OverInv
  <2>2. \A c \in Participants(bs[Observed]) :
          c \in Cabins /\ c \in bs[Observed].started \cup bs[Observed].excluded
    BY <1>1, <2>1 DEF Remaining, Participants, BlackStartRecord
  <2> QED
    BY <1>3, <2>2 DEF PlanOf, FateOf
<1> QED
  BY <1>2, <1>4, <1>6, <1>7, <1>8 DEF Abstract!Finish

-----------------------------------------------------------------------------
(* Steps of the environment                                                *)

\* A report that pauses the execution in time declares a fault; every other step
\* of a report is invisible.
LEMMA ReportDeclares ==
    ASSUME LoneExecution(Observed), RefinementInv,
           NEW r \in Reports, NEW c \in Cabins, PauseForFault(r, c)
    PROVE  Abstract!Declare(c) \/ UNCHANGED Abstract!vars
<1>0. Observed \in Executions /\ \A e \in Executions : e = Observed
  BY DEF LoneExecution
<1>1. /\ rpc[r] = "call" /\ r \notin intime
      /\ UNCHANGED <<pc, current, watcher>>
      /\ rcabin' = [rcabin EXCEPT ![r] = c]
  BY DEF PauseForFault, RefinementInv, BoundaryInv, InTimeInv, cancelVars
<1>2. /\ Begun' <=> Begun
      /\ Running(Observed)' <=> Running(Observed)
      /\ \A d \in Cabins : ShortOf(Observed, d)' <=> ShortOf(Observed, d)
  BY <1>1 DEF Begun, Running, ShortOf
<1>3. CASE ~Conflicts(c)
  <2>1. UNCHANGED <<bs, conflict, intime>>
    BY <1>3 DEF PauseForFault
  <2>2. UNCHANGED FaultedCabins
    BY <1>1, <2>1 DEF FaultedCabins, RefinementInv, TypeOK
  <2> QED
    BY <1>2, <2>1, <2>2, Invisible
<1>4. CASE Conflicts(c)
  <2>1. activeBS = Observed /\ bs[Observed] \in BlackStartRecord
    BY <1>0, <1>4 DEF Conflicts, RefinementInv, TypeOK
  <2>2. /\ bs'[Observed] = Pause(bs[Observed])
        /\ conflict' = [conflict EXCEPT ![r] = Observed]
        /\ intime' = IF ShortOf(Observed, c) THEN intime \cup {r} ELSE intime
    BY <1>0, <1>4, <2>1 DEF PauseForFault, RefinementInv, TypeOK
  <2>3. View(bs'[Observed]) = View(bs[Observed])
    BY <2>1, <2>2, StateMethodsKeepCabins DEF View
  <2>4. \A q \in intime : q \in Reports /\ rcabin'[q] = rcabin[q] /\ conflict'[q] = conflict[q]
    BY <1>1, <2>2 DEF RefinementInv, TypeOK
  <2>5. CASE ~ShortOf(Observed, c)
    <3>1. UNCHANGED FaultedCabins
      BY <2>2, <2>4, <2>5 DEF FaultedCabins
    <3> QED
      BY <1>2, <2>3, <3>1, Invisible
  <2>6. CASE ShortOf(Observed, c)
    <3>1. FaultedCabins' = FaultedCabins \cup {c}
      <4>1. rcabin'[r] = c /\ conflict'[r] = Observed /\ intime' = intime \cup {r}
        BY <1>1, <2>2, <2>6 DEF RefinementInv, TypeOK
      <4> QED
        BY <2>4, <4>1 DEF FaultedCabins
    <3>2. /\ c \in Participants(bs[Observed])
          /\ c \notin bs[Observed].started \cup bs[Observed].excluded
      BY <1>4, <2>1 DEF Conflicts, Participates
    <3>3. Begun /\ Running(Observed)
      <4>1. Begun
        BY <1>0, <2>1, NullAssumption DEF RefinementInv, BegunInv
      <4>2. Remaining(bs[Observed]) # {}
        BY <3>2 DEF Remaining, Participants
      <4>3. pc[Observed] \in ExecutionPC
        BY <1>0 DEF RefinementInv, TypeOK
      <4> QED
        BY <1>0, <2>1, <4>1, <4>2, <4>3, NullAssumption
           DEF RefinementInv, OverInv, Running, ExecutionPC
    <3>4. PhaseOf = "running" /\ c \in PlanOf /\ FateOf[c] = "pending"
      BY <2>6, <3>2, <3>3 DEF PhaseOf, PlanOf, FateOf
    <3>5. UNCHANGED <<PhaseOf, PlanOf>>
      BY <1>2, <2>3, <3>3 DEF PhaseOf, PlanOf, View
    <3>6. UNCHANGED FateOf
      <4>1. ASSUME NEW d \in Cabins PROVE FateOf'[d] = FateOf[d]
        BY <1>2, <2>3, <2>6, <3>1, <3>3 DEF FateOf, View
      <4> QED
        BY <4>1 DEF FateOf
    <3> QED
      BY <3>1, <3>4, <3>5, <3>6 DEF Abstract!Declare
  <2> QED
    BY <2>5, <2>6
<1> QED
  BY <1>3, <1>4

LEMMA QuietReports ==
    ASSUME LoneExecution(Observed), RefinementInv, NEW r \in Reports,
           LockCabin(r) \/ ResumeStartup(r)
    PROVE  UNCHANGED Abstract!vars
<1>0. Observed \in Executions /\ \A e \in Executions : e = Observed
  BY DEF LoneExecution
<1>1. UNCHANGED <<pc, current, watcher, rcabin, conflict, intime>>
  BY DEF LockCabin, ResumeStartup, execVars, cancelVars
<1>2. View(bs'[Observed]) = View(bs[Observed])
  <2>1. CASE LockCabin(r)
    BY <2>1 DEF LockCabin, execVars, View
  <2>2. CASE ResumeStartup(r)
    <3>1. conflict[r] = Observed /\ bs[Observed] \in BlackStartRecord
      BY <1>0, <2>2 DEF ResumeStartup, RefinementInv, TypeOK
    <3>2. bs'[Observed] = Resume(bs[Observed])
      BY <1>0, <2>2, <3>1 DEF ResumeStartup, RefinementInv, TypeOK
    <3> QED
      BY <3>1, <3>2, StateMethodsKeepCabins DEF View
  <2> QED
    BY <2>1, <2>2
<1> QED
  BY <1>1, <1>2, Invisible DEF FaultedCabins, Begun, Running, ShortOf

LEMMA QuietOperators ==
    ASSUME UNCHANGED <<execVars, cancelVars, reportVars>>
    PROVE  UNCHANGED Abstract!vars
BY Invisible DEF execVars, cancelVars, reportVars, FaultedCabins, Begun, Running, ShortOf

-----------------------------------------------------------------------------

LEMMA NextSimulates ==
    ASSUME LoneExecution(Observed)
    PROVE  RefinementInv /\ [Next]_vars => [Abstract!Next]_(Abstract!vars)
<1> SUFFICES ASSUME RefinementInv, [Next]_vars
             PROVE  Abstract!Next \/ UNCHANGED Abstract!vars
  OBVIOUS
<1>0. \A e \in Executions : e = Observed
  BY DEF LoneExecution
<1>1. \A c \in Cabins : Abstract!Declare(c) => Abstract!Next
  BY DEF Abstract!Next
<1>2. ASSUME NEW e \in Executions,
             \/ LoadMissing(e) \/ Load(e) \/ ExecutionStep(e)
             \/ Cancel(e) \/ WatcherCancel(e) \/ WatcherDone(e)
      PROVE  Abstract!Next \/ UNCHANGED Abstract!vars
  <2>1. e = Observed
    BY <1>0
  <2>2. CASE Register(Observed)
    BY <2>2, RegisterBegins DEF Abstract!Next
  <2>3. CASE PassWait(Observed)
    <3>1. current[Observed] \in Cabins
      BY <2>3, HandledCabin DEF PassWait, Goto
    <3> QED
      BY <2>3, <3>1, PassWaitCommits DEF Abstract!Next, Abstract!Advance
  <2>4. CASE Decide(Observed)
    <3>1. current[Observed] \in Cabins
      BY <2>4, HandledCabin DEF Decide, Goto
    <3> QED
      BY <2>4, <3>1, DecideSettles DEF Abstract!Next, Abstract!Advance
  <2>5. CASE CompleteStep(Observed)
    BY <2>5, CompleteFinishes DEF Abstract!Next, Abstract!Advance
  <2> QED
    BY <1>2, <2>1, <2>2, <2>3, <2>4, <2>5, QuietSteps DEF ExecutionStep
<1>3. ASSUME NEW r \in Reports,
             \/ \E c \in Cabins : PauseForFault(r, c)
             \/ LockCabin(r) \/ ResumeStartup(r)
      PROVE  Abstract!Next \/ UNCHANGED Abstract!vars
  BY <1>1, <1>3, ReportDeclares, QuietReports
<1>4. ASSUME NEW o \in Operators,
             \/ \E plan \in Plans : Request(o, plan)
             \/ \E id \in BlackStartIDs :
                   \/ \E role \in Roles, p \in Principals \cup {Nobody} :
                         AuthorizeBlackStart(o, id, role, p)
                   \/ RollbackBlackStart(o, id)
             \/ SaveDraft(o)
      PROVE  UNCHANGED Abstract!vars
  BY <1>4, QuietOperators DEF Request, AuthorizeBlackStart, RollbackBlackStart, SaveDraft
<1>5. CASE UNCHANGED vars
  BY <1>5, QuietOperators DEF vars
<1> QED
  BY <1>2, <1>3, <1>4, <1>5 DEF Next, AllReturned

LEMMA InitSimulates == Init => Abstract!Init
<1> SUFFICES ASSUME Init PROVE Abstract!Init
  OBVIOUS
<1>1. ~Begun
  BY ObservedAssumption DEF Init, Begun
<1>2. FaultedCabins = {}
  BY DEF Init, FaultedCabins
<1> QED
  BY <1>1, <1>2 DEF Abstract!Init, PhaseOf, PlanOf, FateOf

\* The steps of one execution that nobody cancels, among any reports and operator
\* calls, are steps of FaultIsolation: no cabin declared faulty before the point
\* of no return is energized, none is decided twice, and the execution ends only
\* when all are decided.
THEOREM ImplementsFaultIsolationSteps ==
    ASSUME LoneExecution(Observed)
    PROVE  Spec => Abstract!Init /\ [][Abstract!Next]_(Abstract!vars)
<1>0. Observed \in Executions /\ \A e \in Executions : e = Observed
  BY DEF LoneExecution
<1>1. Init => OverInv(Observed) /\ BoundaryInv(Observed) /\ BegunInv
  BY <1>0 DEF Init, OverInv, BoundaryInv, OneIsolates, InTimeInv, Isolating, BegunInv, Begun
<1>2. TypeOK /\ RecordsInv /\ OverInv(Observed) /\ BoundaryInv(Observed) /\ BegunInv
        <=> RefinementInv
  BY DEF RefinementInv
<1>3. TypeOK /\ OverInv(Observed) /\ [Next]_vars => OverInv(Observed)'
  BY NextKeepsOver
<1>4. TypeOK /\ OverInv(Observed) /\ BoundaryInv(Observed) /\ [Next]_vars
        => BoundaryInv(Observed)'
  BY NextKeepsBoundary
<1>5. Spec => []RefinementInv
  BY <1>1, <1>2, <1>3, <1>4, RecordsInvariant, NextKeepsBegun, TypeCorrect, PTL DEF Spec
<1> QED
  BY <1>5, NextSimulates, InitSimulates, PTL DEF Spec

=============================================================================
