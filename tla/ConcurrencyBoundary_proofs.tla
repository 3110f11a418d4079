--------------------- MODULE ConcurrencyBoundary_proofs ---------------------
(***************************************************************************)
(* Exclusive execution, the concurrency boundary and the stored progress   *)
(* of a black start.                                                       *)
(***************************************************************************)
EXTENDS BlackStartRecords_proofs

-----------------------------------------------------------------------------
(* Paused clones have owners                                               *)

\* A step that leaves the reports alone and pauses nobody.
LEMMA QuietKeepsOwner ==
    ASSUME PausedCloneHasOwner, UNCHANGED reportVars,
           \A e \in Executions :
              Running(e)' /\ bs'[e].state = "paused" => Running(e) /\ bs[e].state = "paused"
    PROVE  PausedCloneHasOwner'
BY DEF PausedCloneHasOwner, Isolating, reportVars

LEMMA NextKeepsOwner == TypeOK /\ PausedCloneHasOwner /\ [Next]_vars => PausedCloneHasOwner'
<1> SUFFICES ASSUME TypeOK, PausedCloneHasOwner, [Next]_vars PROVE PausedCloneHasOwner'
  OBVIOUS
<1> USE DEF execVars
<1>1. ASSUME NEW e \in Executions,
             LoadMissing(e) \/ Load(e) \/ RegisterRefused(e) \/ Announce(e)
             \/ TakeUpCabin(e) \/ AllDecided(e) \/ Park(e) \/ PassWait(e) \/ ReadCabin(e)
             \/ SaveProgress(e) \/ SaveFinal(e) \/ Unregister(e)
             \/ Cancel(e) \/ WatcherCancel(e) \/ WatcherDone(e)
      PROVE  PausedCloneHasOwner'
  <2>1. UNCHANGED reportVars
    BY <1>1 DEF LoadMissing, Load, RegisterRefused, Announce, TakeUpCabin, AllDecided, Park,
                PassWait, ReadCabin, SaveProgress, SaveFinal, Unregister, Cancel,
                WatcherCancel, WatcherDone
  <2>2. \A f \in Executions : Running(f)' => Running(f) /\ bs'[f] = bs[f]
    BY <1>1 DEF LoadMissing, Load, RegisterRefused, Announce, TakeUpCabin, AllDecided, Park,
                PassWait, ReadCabin, SaveProgress, SaveFinal, Unregister, Cancel,
                WatcherCancel, WatcherDone, Goto, Running, TypeOK
  <2> QED
    BY <2>1, <2>2, QuietKeepsOwner
<1>2. ASSUME NEW e \in Executions, Register(e) PROVE PausedCloneHasOwner'
  <2>1. bs[e] \in BlackStartRecord /\ bs'[e] = BeginExecution(bs[e])
    BY <1>2 DEF Register, Goto, TypeOK
  <2>2. bs'[e].state = "executing"
    BY <2>1 DEF BeginExecution, BlackStartRecord
  <2> QED
    BY <1>2, <2>2, QuietKeepsOwner DEF Register, Goto, Running, TypeOK
<1>3. ASSUME NEW e \in Executions, Decide(e) \/ CompleteStep(e) PROVE PausedCloneHasOwner'
  <2>1. bs[e] \in BlackStartRecord /\ Running(e)
    BY <1>3 DEF Decide, CompleteStep, Goto, TypeOK, Running
  <2>2. bs'[e].state = "paused" => bs[e].state = "paused"
    BY <1>3, <2>1 DEF Decide, CompleteStep, MarkCabinStarted, MarkCabinExcluded, Complete,
                      BlackStartRecord, TypeOK
  <2> QED
    BY <1>3, <2>1, <2>2, QuietKeepsOwner DEF Decide, CompleteStep, Goto, Running, TypeOK
<1>4. ASSUME NEW r \in Reports, NEW c \in Cabins, PauseForFault(r, c)
      PROVE  PausedCloneHasOwner'
  <2>1. \A q \in Reports : Isolating(q) => Isolating(q)' /\ conflict'[q] = conflict[q]
    BY <1>4 DEF PauseForFault, Isolating, TypeOK
  <2>2. CASE Conflicts(c)
    <3>1. Isolating(r)' /\ conflict'[r] = activeBS
      BY <1>4, <2>2 DEF PauseForFault, Isolating, Conflicts, TypeOK
    <3>2. \A e \in Executions : e # activeBS => bs'[e] = bs[e]
      BY <1>4, <2>2 DEF PauseForFault, TypeOK
    <3> QED
      BY <1>4, <2>1, <3>1, <3>2 DEF PausedCloneHasOwner, PauseForFault, Running
  <2>3. CASE ~Conflicts(c)
    BY <1>4, <2>1, <2>3 DEF PausedCloneHasOwner, PauseForFault, Running
  <2> QED
    BY <2>2, <2>3
<1>5. ASSUME NEW r \in Reports, LockCabin(r) PROVE PausedCloneHasOwner'
  <2>1. /\ \A q \in Reports : Isolating(q) => Isolating(q)'
        /\ UNCHANGED <<conflict, bs, pc>>
    BY <1>5 DEF LockCabin, Isolating, TypeOK
  <2> QED
    BY <2>1 DEF PausedCloneHasOwner, Running
<1>6. ASSUME NEW r \in Reports, ResumeStartup(r) PROVE PausedCloneHasOwner'
  <2>1. conflict[r] \in Executions /\ bs[conflict[r]] \in BlackStartRecord
    BY <1>6 DEF ResumeStartup, TypeOK
  <2>2. bs'[conflict[r]].state # "paused"
    BY <1>6, <2>1 DEF ResumeStartup, Resume, BlackStartRecord, TypeOK
  <2>3. /\ \A q \in Reports : Isolating(q) /\ q # r => Isolating(q)'
        /\ \A e \in Executions : e # conflict[r] => bs'[e] = bs[e]
        /\ UNCHANGED <<conflict, pc>>
    BY <1>6 DEF ResumeStartup, Isolating, TypeOK
  <2> QED
    BY <2>2, <2>3 DEF PausedCloneHasOwner, Running
<1>7. ASSUME NEW o \in Operators,
             \/ \E plan \in Plans : Request(o, plan)
             \/ \E id \in BlackStartIDs :
                   \/ \E role \in Roles, p \in Principals \cup {Nobody} :
                         AuthorizeBlackStart(o, id, role, p)
                   \/ RollbackBlackStart(o, id)
             \/ SaveDraft(o)
      PROVE  PausedCloneHasOwner'
  BY <1>7, QuietKeepsOwner
     DEF Request, AuthorizeBlackStart, RollbackBlackStart, SaveDraft, Running
<1>8. CASE UNCHANGED vars
  BY <1>8, QuietKeepsOwner DEF vars, Running
<1> QED
  BY <1>1, <1>2, <1>3, <1>4, <1>5, <1>6, <1>7, <1>8 DEF Next, ExecutionStep, AllReturned

\* A running execution is paused only while the report that paused it works.
THEOREM PausedCloneOwned == Spec => []PausedCloneHasOwner
<1>1. Init => PausedCloneHasOwner
  BY DEF Init, PausedCloneHasOwner, Running
<1> QED
  BY <1>1, NextKeepsOwner, TypeCorrect, PTL DEF Spec

-----------------------------------------------------------------------------
(* One black start runs at a time, when each is executed once              *)

\* No black start is executed by two calls.
CalledOnce == \A e, f \in Executions : Target[e] = Target[f] => e = f

\* A running execution is the registered one and is not over.
RegisteredInv ==
    \A e \in Executions :
        Running(e) => activeBS = e /\ bs[e].state \in {"executing", "paused"}

\* A step that keeps the registration and ends no running execution.
LEMMA QuietKeepsRegistration ==
    ASSUME RegisteredInv, UNCHANGED activeBS,
           \A e \in Executions :
              Running(e)' => /\ Running(e)
                             /\ \/ bs'[e].state = bs[e].state
                                \/ bs'[e].state \in {"executing", "paused"}
    PROVE  RegisteredInv'
BY DEF RegisteredInv

LEMMA NextKeepsRegistration ==
    ASSUME CalledOnce
    PROVE  TypeOK /\ RegisteredInv /\ [Next]_vars => RegisteredInv'
<1> SUFFICES ASSUME TypeOK, RegisteredInv, [Next]_vars PROVE RegisteredInv'
  OBVIOUS
<1> USE DEF execVars
<1>1. ASSUME NEW e \in Executions,
             LoadMissing(e) \/ Load(e) \/ RegisterRefused(e) \/ Announce(e)
             \/ TakeUpCabin(e) \/ AllDecided(e) \/ Park(e) \/ PassWait(e) \/ ReadCabin(e)
             \/ SaveProgress(e) \/ SaveFinal(e)
             \/ Cancel(e) \/ WatcherCancel(e) \/ WatcherDone(e)
      PROVE  RegisteredInv'
  <2>1. UNCHANGED activeBS
    BY <1>1 DEF LoadMissing, Load, RegisterRefused, Announce, TakeUpCabin, AllDecided, Park,
                PassWait, ReadCabin, SaveProgress, SaveFinal, Cancel,
                WatcherCancel, WatcherDone, coordVars
  <2>2. \A f \in Executions : Running(f)' => Running(f) /\ bs'[f] = bs[f]
    BY <1>1 DEF LoadMissing, Load, RegisterRefused, Announce, TakeUpCabin, AllDecided, Park,
                PassWait, ReadCabin, SaveProgress, SaveFinal, Cancel,
                WatcherCancel, WatcherDone, Goto, Running, TypeOK
  <2> QED
    BY <2>1, <2>2, QuietKeepsRegistration
<1>2. ASSUME NEW e \in Executions, Register(e) PROVE RegisteredInv'
  <2>1. /\ bs[e] \in BlackStartRecord
        /\ pc[e] = "register"
        /\ MayReplaceActive(e)
        /\ bs'[e] = BeginExecution(bs[e])
        /\ activeBS' = e
        /\ \A f \in Executions \ {e} : pc'[f] = pc[f] /\ bs'[f] = bs[f]
    BY <1>2 DEF Register, Goto, TypeOK
  <2>2. bs'[e].state = "executing"
    BY <2>1 DEF BeginExecution, BlackStartRecord
  <2>3. ASSUME NEW f \in Executions, f # e PROVE ~Running(f)
    <3>1. SUFFICES ASSUME Running(f) PROVE FALSE
      OBVIOUS
    <3>2. activeBS = f /\ ~IsTerminal(bs[f])
      BY <3>1 DEF RegisteredInv, IsTerminal
    <3>3. Target[f] = Target[e]
      BY <2>1, <3>2, NullAssumption DEF MayReplaceActive
    <3> QED
      BY <2>3, <3>3 DEF CalledOnce
  <2> QED
    BY <2>1, <2>2, <2>3 DEF RegisteredInv, Running
<1>3. ASSUME NEW e \in Executions, Decide(e) \/ CompleteStep(e) PROVE RegisteredInv'
  <2>1. bs[e] \in BlackStartRecord /\ Running(e)
    BY <1>3 DEF Decide, CompleteStep, Goto, TypeOK, Running
  <2>2. Running(e)' => bs'[e].state = bs[e].state
    BY <1>3, <2>1 DEF Decide, CompleteStep, Goto, Running, MarkCabinStarted,
                      MarkCabinExcluded, BlackStartRecord, TypeOK
  <2> QED
    BY <1>3, <2>1, <2>2, QuietKeepsRegistration
       DEF Decide, CompleteStep, Goto, Running, TypeOK, coordVars
<1>4. ASSUME NEW e \in Executions, Unregister(e) PROVE RegisteredInv'
  <2>1. /\ ~Running(e) /\ ~Running(e)'
        /\ \A f \in Executions : f # e => (Running(f)' <=> Running(f))
        /\ UNCHANGED bs
    BY <1>4 DEF Unregister, Goto, Running, TypeOK
  <2> QED
    BY <1>4, <2>1 DEF Unregister, RegisteredInv
<1>5. ASSUME NEW r \in Reports, NEW c \in Cabins, PauseForFault(r, c) PROVE RegisteredInv'
  <2>1. CASE Conflicts(c)
    <3>1. activeBS \in Executions /\ bs[activeBS] \in BlackStartRecord
      BY <2>1 DEF Conflicts, TypeOK
    <3>2. Pause(bs[activeBS]).state = "paused"
      BY <2>1, <3>1 DEF Conflicts, Pause, BlackStartRecord
    <3> QED
      BY <1>5, <2>1, <3>1, <3>2, QuietKeepsRegistration DEF PauseForFault, Running, TypeOK
  <2>2. CASE ~Conflicts(c)
    BY <1>5, <2>2, QuietKeepsRegistration DEF PauseForFault, Running
  <2> QED
    BY <2>1, <2>2
<1>6. ASSUME NEW r \in Reports, LockCabin(r) PROVE RegisteredInv'
  BY <1>6, QuietKeepsRegistration DEF LockCabin, Running, coordVars
<1>7. ASSUME NEW r \in Reports, ResumeStartup(r) PROVE RegisteredInv'
  <2>1. conflict[r] \in Executions /\ bs[conflict[r]] \in BlackStartRecord
    BY <1>7 DEF ResumeStartup, TypeOK
  <2>2. Resume(bs[conflict[r]]).state \in {bs[conflict[r]].state, "executing"}
    BY <2>1 DEF Resume, BlackStartRecord
  <2> QED
    BY <1>7, <2>1, <2>2, QuietKeepsRegistration DEF ResumeStartup, Running, TypeOK
<1>8. ASSUME NEW o \in Operators,
             \/ \E plan \in Plans : Request(o, plan)
             \/ \E id \in BlackStartIDs :
                   \/ \E role \in Roles, p \in Principals \cup {Nobody} :
                         AuthorizeBlackStart(o, id, role, p)
                   \/ RollbackBlackStart(o, id)
             \/ SaveDraft(o)
      PROVE  RegisteredInv'
  BY <1>8, QuietKeepsRegistration
     DEF Request, AuthorizeBlackStart, RollbackBlackStart, SaveDraft, Running, coordVars
<1>9. CASE UNCHANGED vars
  BY <1>9, QuietKeepsRegistration DEF vars, Running, coordVars
<1> QED
  BY <1>1, <1>2, <1>3, <1>4, <1>5, <1>6, <1>7, <1>8, <1>9 DEF Next, ExecutionStep, AllReturned

\* If no black start is executed by two calls, two black starts never run at
\* the same time.
THEOREM OneRunningHolds ==
    ASSUME CalledOnce
    PROVE  Spec => []OneRunning
<1>1. Init => RegisteredInv
  BY DEF Init, RegisteredInv, Running
<1>2. RegisteredInv => OneRunning
  BY DEF RegisteredInv, OneRunning
<1> QED
  BY <1>1, <1>2, NextKeepsRegistration, TypeCorrect, PTL DEF Spec

-----------------------------------------------------------------------------
(* The concurrency boundary of a lone execution                            *)
(*                                                                         *)
(* With one execution that nobody cancels, a report that pauses it in time *)
(* holds it back until the cabin is isolated.  Both conditions are needed: *)
(* a second execution breaks the property in the run bug_shared_pause, and *)
(* the watcher of a cancelled call clears the pause of any report.         *)

\* One call of ExecuteBlackStart, with a context that is never cancelled.
LoneExecution(x) == Executions = {x} /\ CancelPoints = {}

BeforeDecision == {"announce", "loop", "await", "read", "decide", "save"}

\* Reports only pause what is registered, one at a time, and a pause lasts until
\* the report resumes it or the black start completes.
OneIsolates(x) ==
    /\ ~cancelled[x]
    /\ pc[x] \in {"call", "register"} =>
          activeBS = NoExecution /\ \A r \in Reports : conflict[r] = NoExecution
    /\ \A r \in Reports : rpc[r] = "call" => conflict[r] = NoExecution
    /\ \A r \in Reports : Isolating(r) => bs[x].state \in {"paused", "completed"}
    /\ \A q, r \in Reports : Isolating(q) /\ Isolating(r) => q = r

\* The report r paused the loop in time and has yet to isolate its cabin: the
\* cabin is undecided and the loop cannot get past its wait for it.
HoldsLoop(x, r) ==
    /\ bsPaused
    /\ bsPauseCabin = rcabin[r]
    /\ activeBS = x
    /\ pc[x] \in BeforeDecision
    /\ ShortOf(x, rcabin[r])
    /\ rcabin[r] \notin bs[x].excluded

\* The report r paused the loop in time and has isolated its cabin: if the loop
\* has read the cabin, it has seen that.
SeenIsolated(x, r) ==
    /\ IsFrozen(cabin[rcabin[r]])
    /\ pc[x] = "decide" /\ current[x] = rcabin[r] => IsFrozen(seen[x])

InTimeInv(x) ==
    \A r \in intime :
        /\ conflict[r] = x
        /\ rcabin[r] \in Participants(bs[x])
        /\ rcabin[r] \notin bs[x].started
        /\ rpc[r] # "call"
        /\ rpc[r] = "lock" => HoldsLoop(x, r)
        /\ rpc[r] # "lock" => SeenIsolated(x, r)

BoundaryInv(x) == OneIsolates(x) /\ InTimeInv(x)

\* Steps of the execution that change nothing a report looks at.
LEMMA QuietKeepsBoundary ==
    ASSUME NEW x, LoneExecution(x), TypeOK, BoundaryInv(x),
           UNCHANGED <<reportVars, activeBS, bsPaused, bsPauseCabin, bs, cabin>>,
           ~cancelled'[x],
           pc'[x] \in {"call", "register"} => pc[x] \in {"call", "register"},
           \A r \in intime : rpc[r] = "lock" =>
              pc'[x] \in BeforeDecision /\ ShortOf(x, rcabin[r])',
           pc'[x] = "decide" /\ current'[x] \in Cabins /\ IsFrozen(cabin[current'[x]])
              => IsFrozen(seen'[x]) \/ (pc[x] = "decide" /\ current'[x] = current[x]
                                          /\ seen'[x] = seen[x])
    PROVE  BoundaryInv(x)'
<1>1. OneIsolates(x)'
  BY DEF BoundaryInv, OneIsolates, Isolating, reportVars
<1>2. InTimeInv(x)'
  <2> SUFFICES ASSUME NEW r \in intime'
               PROVE  /\ (conflict[r] = x)'
                      /\ (rcabin[r] \in Participants(bs[x]))'
                      /\ (rcabin[r] \notin bs[x].started)'
                      /\ (rpc[r] # "call")'
                      /\ (rpc[r] = "lock" => HoldsLoop(x, r))'
                      /\ (rpc[r] # "lock" => SeenIsolated(x, r))'
    BY DEF InTimeInv
  <2>1. /\ r \in intime /\ rcabin'[r] = rcabin[r] /\ rpc'[r] = rpc[r]
        /\ conflict'[r] = conflict[r]
    BY DEF reportVars
  <2>2. rcabin[r] \in Cabins
    BY <2>1 DEF BoundaryInv, InTimeInv, TypeOK
  <2>3. (rpc[r] = "lock" => HoldsLoop(x, r))'
    BY <2>1 DEF BoundaryInv, InTimeInv, HoldsLoop
  <2>4. (rpc[r] # "lock" => SeenIsolated(x, r))'
    BY <2>1, <2>2 DEF BoundaryInv, InTimeInv, SeenIsolated
  <2> QED
    BY <2>1, <2>3, <2>4 DEF BoundaryInv, InTimeInv, Participants
<1> QED
  BY <1>1, <1>2 DEF BoundaryInv

\* Once the loop has ended no cabin remains, and a call that has returned is not
\* registered: nothing is left that a report could pause.
OverInv(x) ==
    /\ pc[x] \in {"call", "register", "returned"} => activeBS = NoExecution
    /\ pc[x] \in {"complete", "saveFinal", "unregister"} => Remaining(bs[x]) = {}

LEMMA NextKeepsOver ==
    ASSUME NEW x, LoneExecution(x)
    PROVE  TypeOK /\ OverInv(x) /\ [Next]_vars => OverInv(x)'
<1> SUFFICES ASSUME TypeOK, OverInv(x), [Next]_vars PROVE OverInv(x)'
  OBVIOUS
<1> USE DEF storeVars, coordVars, execVars, cancelVars
<1>0. x \in Executions /\ \A e \in Executions : e = x
  BY DEF LoneExecution
<1>1. CASE \/ LoadMissing(x) \/ Load(x) \/ RegisterRefused(x) \/ Register(x) \/ Announce(x)
           \/ TakeUpCabin(x) \/ AllDecided(x) \/ Park(x) \/ PassWait(x) \/ ReadCabin(x)
           \/ Decide(x) \/ SaveProgress(x) \/ SaveFinal(x)
           \/ Cancel(x) \/ WatcherCancel(x) \/ WatcherDone(x)
  BY <1>0, <1>1
     DEF LoadMissing, Load, RegisterRefused, Register, Announce, TakeUpCabin, AllDecided, Park,
         PassWait, ReadCabin, Decide, SaveProgress, SaveFinal, Cancel, WatcherCancel,
         WatcherDone, Goto, OverInv, TypeOK
<1>2. CASE CompleteStep(x)
  <2>1. bs[x] \in BlackStartRecord /\ Remaining(bs[x]) = {}
    BY <1>0, <1>2 DEF CompleteStep, Goto, OverInv, TypeOK
  <2>2. Remaining(bs'[x]) = {}
    BY <1>0, <1>2, <2>1
       DEF CompleteStep, Complete, Remaining, Participants, BlackStartRecord, TypeOK
  <2> QED
    BY <1>0, <1>2, <2>2 DEF CompleteStep, Goto, OverInv, TypeOK
<1>3. CASE Unregister(x)
  BY <1>0, <1>3 DEF Unregister, Goto, OverInv, TypeOK
<1>4. ASSUME NEW r \in Reports, NEW c \in Cabins, PauseForFault(r, c) PROVE OverInv(x)'
  <2>1. CASE Conflicts(c)
    <3>1. activeBS = x /\ bs[x] \in BlackStartRecord
      BY <1>0, <2>1 DEF Conflicts, TypeOK
    <3>2. /\ bs'[x].cabins = bs[x].cabins
          /\ bs'[x].started = bs[x].started
          /\ bs'[x].excluded = bs[x].excluded
      BY <1>0, <1>4, <2>1, <3>1 DEF PauseForFault, Pause, BlackStartRecord, TypeOK
    <3>3. Remaining(bs'[x]) = Remaining(bs[x])
      BY <3>2 DEF Remaining
    <3> QED
      BY <1>4, <2>1, <3>3 DEF PauseForFault, OverInv
  <2>2. CASE ~Conflicts(c)
    BY <1>4, <2>2 DEF PauseForFault, OverInv
  <2> QED
    BY <2>1, <2>2
<1>5. ASSUME NEW r \in Reports, LockCabin(r) PROVE OverInv(x)'
  BY <1>5 DEF LockCabin, OverInv
<1>6. ASSUME NEW r \in Reports, ResumeStartup(r) PROVE OverInv(x)'
  <2>1. conflict[r] = x /\ bs[x] \in BlackStartRecord
    BY <1>0, <1>6 DEF ResumeStartup, TypeOK
  <2>2. Remaining(bs'[x]) = Remaining(bs[x])
    BY <1>0, <1>6, <2>1
       DEF ResumeStartup, Resume, Remaining, Participants, BlackStartRecord, TypeOK
  <2> QED
    BY <1>6, <2>2 DEF ResumeStartup, OverInv
<1>7. ASSUME NEW o \in Operators,
             \/ \E plan \in Plans : Request(o, plan)
             \/ \E id \in BlackStartIDs :
                   \/ \E role \in Roles, p \in Principals \cup {Nobody} :
                         AuthorizeBlackStart(o, id, role, p)
                   \/ RollbackBlackStart(o, id)
             \/ SaveDraft(o)
      PROVE  OverInv(x)'
  BY <1>7 DEF Request, AuthorizeBlackStart, RollbackBlackStart, SaveDraft, OverInv
<1>8. CASE UNCHANGED vars
  BY <1>8 DEF vars, OverInv
<1> QED
  BY <1>0, <1>1, <1>2, <1>3, <1>4, <1>5, <1>6, <1>7, <1>8 DEF Next, ExecutionStep, AllReturned

LEMMA NextKeepsBoundary ==
    ASSUME NEW x, LoneExecution(x)
    PROVE  TypeOK /\ OverInv(x) /\ BoundaryInv(x) /\ [Next]_vars => BoundaryInv(x)'
<1> SUFFICES ASSUME TypeOK, OverInv(x), BoundaryInv(x), [Next]_vars PROVE BoundaryInv(x)'
  OBVIOUS
<1> USE DEF storeVars, coordVars, execVars, cancelVars
<1>0. x \in Executions /\ \A e \in Executions : e = x
  BY DEF LoneExecution
\* Steps that move the execution and leave its clone and the registration alone.
<1>1. CASE LoadMissing(x) \/ RegisterRefused(x)
  <2>1. pc'[x] = "returned" /\ pc[x] \in {"call", "register"}
    BY <1>0, <1>1 DEF LoadMissing, RegisterRefused, Goto, TypeOK
  <2>2. \A r \in Reports : conflict[r] = NoExecution
    BY <2>1 DEF BoundaryInv, OneIsolates
  <2>3. intime = {}
    BY <1>0, <2>2, NullAssumption DEF BoundaryInv, InTimeInv, TypeOK
  <2> QED
    BY <1>0, <1>1, <2>1, <2>3, QuietKeepsBoundary
       DEF LoadMissing, RegisterRefused, BoundaryInv, OneIsolates
<1>2. CASE Announce(x) \/ SaveProgress(x)
  <2>1. pc'[x] = "loop"
    BY <1>0, <1>2 DEF Announce, SaveProgress, Goto, TypeOK
  <2> QED
    BY <1>0, <1>2, <2>1, QuietKeepsBoundary
       DEF Announce, SaveProgress, BoundaryInv, OneIsolates, BeforeDecision, ShortOf
<1>3. CASE TakeUpCabin(x)
  <2>1. pc'[x] = "await"
    BY <1>0, <1>3 DEF TakeUpCabin, Goto, TypeOK
  <2> QED
    BY <1>0, <1>3, <2>1, QuietKeepsBoundary
       DEF TakeUpCabin, BoundaryInv, OneIsolates, BeforeDecision, ShortOf
<1>4. CASE AllDecided(x)
  <2>1. pc'[x] = "complete" /\ pc[x] = "loop" /\ bs[x] \in BlackStartRecord
    BY <1>0, <1>4 DEF AllDecided, Goto, TypeOK
  <2>2. ASSUME NEW r \in intime, rpc[r] = "lock" PROVE FALSE
    <3>1. rcabin[r] \in Participants(bs[x]) \ (bs[x].started \cup bs[x].excluded)
      BY <2>2 DEF BoundaryInv, InTimeInv, HoldsLoop
    <3> QED
      BY <1>4, <2>1, <3>1, NoneRemaining DEF AllDecided
  <2> QED
    BY <1>0, <1>4, <2>1, <2>2, QuietKeepsBoundary DEF AllDecided, BoundaryInv, OneIsolates
<1>5. CASE Park(x)
  BY <1>0, <1>5, QuietKeepsBoundary
     DEF Park, BoundaryInv, OneIsolates, InTimeInv, HoldsLoop, ShortOf
<1>6. CASE PassWait(x)
  <2>1. pc'[x] = "read" /\ pc[x] = "await" /\ ~HeldBack(x) /\ UNCHANGED current
    BY <1>0, <1>6 DEF PassWait, Goto, TypeOK
  <2>2. \A r \in intime : rpc[r] = "lock" => ShortOf(x, rcabin[r])'
                                             /\ rcabin'[r] = rcabin[r]
    BY <1>6, <2>1 DEF PassWait, reportVars, BoundaryInv, InTimeInv, HoldsLoop, HeldBack, ShortOf
  <2> QED
    BY <1>0, <1>6, <2>1, <2>2, QuietKeepsBoundary
       DEF PassWait, reportVars, BoundaryInv, OneIsolates, BeforeDecision
<1>7. CASE ReadCabin(x)
  <2>1. /\ pc'[x] = "decide" /\ pc[x] = "read"
        /\ seen'[x] = cabin[current[x]]
        /\ UNCHANGED <<current, rcabin>>
    BY <1>0, <1>7 DEF ReadCabin, Goto, TypeOK, reportVars
  <2>2. \A r \in intime : rpc[r] = "lock" => ShortOf(x, rcabin[r])'
    BY <2>1 DEF BoundaryInv, InTimeInv, HoldsLoop, ShortOf
  <2> QED
    BY <1>0, <1>7, <2>1, <2>2, QuietKeepsBoundary
       DEF ReadCabin, BoundaryInv, OneIsolates, BeforeDecision
<1>8. CASE SaveFinal(x) \/ WatcherDone(x) \/ Cancel(x)
  <2>1. ~Cancel(x)
    BY DEF Cancel, LoneExecution
  <2>2. CASE SaveFinal(x)
    <3>1. pc'[x] = "unregister" /\ pc[x] = "saveFinal"
      BY <1>0, <2>2 DEF SaveFinal, Goto, TypeOK
    <3>2. \A r \in intime : rpc[r] # "lock"
      BY <3>1 DEF BoundaryInv, InTimeInv, HoldsLoop, BeforeDecision
    <3> QED
      BY <1>0, <2>2, <3>1, <3>2, QuietKeepsBoundary DEF SaveFinal, BoundaryInv, OneIsolates
  <2>3. CASE WatcherDone(x)
    BY <1>0, <2>3, QuietKeepsBoundary
       DEF WatcherDone, BoundaryInv, OneIsolates, InTimeInv, HoldsLoop, ShortOf
  <2> QED
    BY <1>8, <2>1, <2>2, <2>3
<1>9. ~WatcherCancel(x)
  BY DEF WatcherCancel, BoundaryInv, OneIsolates
\* Steps before the execution is registered: no report has paused it.
<1>10. CASE Load(x) \/ Register(x)
  <2>1. pc[x] \in {"call", "register"} /\ UNCHANGED <<reportVars, cancelVars>>
    BY <1>0, <1>10 DEF Load, Register, Goto
  <2>2. \A r \in Reports : conflict[r] = NoExecution
    BY <2>1 DEF BoundaryInv, OneIsolates
  <2>3. intime = {}
    BY <1>0, <2>2, NullAssumption DEF BoundaryInv, InTimeInv, TypeOK
  <2>4. pc'[x] \in {"call", "register"} => activeBS' = activeBS
    BY <1>0, <1>10 DEF Load, Register, Goto, TypeOK
  <2> QED
    BY <2>1, <2>2, <2>3, <2>4
       DEF BoundaryInv, OneIsolates, InTimeInv, Isolating, reportVars
\* Steps that change the clone or the registration.
<1>11. CASE Decide(x)
  <2>1. /\ pc[x] = "decide" /\ pc'[x] = "save"
        /\ bs[x] \in BlackStartRecord
        /\ UNCHANGED <<reportVars, cancelled, activeBS, bsPaused, bsPauseCabin, cabin, current>>
    BY <1>0, <1>11 DEF Decide, Goto, TypeOK
  <2>2. /\ bs'[x].state = bs[x].state
        /\ Participants(bs'[x]) = Participants(bs[x])
        /\ bs'[x].started = IF IsFrozen(seen[x]) THEN bs[x].started
                                                 ELSE bs[x].started \cup {current[x]}
        /\ bs'[x].excluded = IF IsFrozen(seen[x]) THEN bs[x].excluded \cup {current[x]}
                                                  ELSE bs[x].excluded
    BY <1>0, <1>11, <2>1
       DEF Decide, TypeOK, MarkCabinStarted, MarkCabinExcluded, Participants, BlackStartRecord
  <2>3. OneIsolates(x)'
    BY <2>1, <2>2 DEF BoundaryInv, OneIsolates, Isolating, reportVars
  <2>4. ASSUME NEW r \in intime
        PROVE  rcabin[r] \notin bs'[x].started /\ (rpc[r] = "lock" => rcabin[r] # current[x])
    BY <2>1, <2>2 DEF BoundaryInv, InTimeInv, HoldsLoop, ShortOf, SeenIsolated
  <2>5. InTimeInv(x)'
    BY <2>1, <2>2, <2>4
       DEF BoundaryInv, InTimeInv, HoldsLoop, ShortOf, SeenIsolated, BeforeDecision, reportVars
  <2> QED
    BY <2>3, <2>5 DEF BoundaryInv
<1>12. CASE CompleteStep(x)
  <2>1. /\ pc[x] = "complete" /\ pc'[x] \in {"saveFinal", "unregister"}
        /\ bs[x] \in BlackStartRecord
        /\ UNCHANGED <<reportVars, cancelled, activeBS, cabin>>
    BY <1>0, <1>12 DEF CompleteStep, Goto, TypeOK
  <2>2. /\ bs'[x].state \in {bs[x].state, "completed"}
        /\ Participants(bs'[x]) = Participants(bs[x])
        /\ bs'[x].started = bs[x].started
    BY <1>0, <1>12, <2>1 DEF CompleteStep, Complete, TypeOK, Participants, BlackStartRecord
  <2>3. OneIsolates(x)'
    BY <2>1, <2>2 DEF BoundaryInv, OneIsolates, Isolating, reportVars
  <2>4. \A r \in intime : rpc[r] # "lock"
    BY <2>1 DEF BoundaryInv, InTimeInv, HoldsLoop, BeforeDecision
  <2>5. InTimeInv(x)'
    BY <2>1, <2>2, <2>4 DEF BoundaryInv, InTimeInv, SeenIsolated, reportVars
  <2> QED
    BY <2>3, <2>5 DEF BoundaryInv
<1>13. CASE Unregister(x)
  <2>1. /\ pc[x] = "unregister" /\ pc'[x] = "returned"
        /\ UNCHANGED <<reportVars, cancelled, bs, cabin>>
    BY <1>0, <1>13 DEF Unregister, Goto, TypeOK
  <2>2. \A r \in intime : rpc[r] # "lock"
    BY <2>1 DEF BoundaryInv, InTimeInv, HoldsLoop, BeforeDecision
  <2> QED
    BY <2>1, <2>2
       DEF BoundaryInv, OneIsolates, InTimeInv, SeenIsolated, Isolating, Participants, reportVars
\* Steps of the reports.
<1>14. ASSUME NEW q \in Reports, NEW c \in Cabins, PauseForFault(q, c)
       PROVE  BoundaryInv(x)'
  <2>1. /\ rpc[q] = "call" /\ q \notin intime
        /\ UNCHANGED <<pc, current, seen, cancelled, cabin, activeBS>>
        /\ rpc' = [rpc EXCEPT ![q] = "lock"]
        /\ rcabin' = [rcabin EXCEPT ![q] = c]
    BY <1>14 DEF PauseForFault, BoundaryInv, InTimeInv
  <2>2. CASE Conflicts(c)
    <3>1. activeBS = x /\ bs[x].state = "executing" /\ bs[x] \in BlackStartRecord
      BY <1>0, <2>2 DEF Conflicts, TypeOK
    <3>2. /\ bs' = [bs EXCEPT ![x] = Pause(bs[x])]
          /\ bsPaused' /\ bsPauseCabin' = c
          /\ conflict' = [conflict EXCEPT ![q] = x]
          /\ intime' = IF ShortOf(x, c) THEN intime \cup {q} ELSE intime
      BY <1>14, <2>2, <3>1 DEF PauseForFault
    <3>3. /\ bs'[x].state = "paused"
          /\ Participants(bs'[x]) = Participants(bs[x])
          /\ bs'[x].started = bs[x].started
          /\ bs'[x].excluded = bs[x].excluded
      BY <1>0, <3>1, <3>2 DEF Pause, TypeOK, Participants, BlackStartRecord
    <3>4. \A r \in Reports : ~Isolating(r)
      BY <3>1 DEF BoundaryInv, OneIsolates
    <3>5. pc[x] \notin {"call", "register"}
      BY <1>0, <3>1, NullAssumption DEF BoundaryInv, OneIsolates
    <3>6. OneIsolates(x)'
      BY <2>1, <3>2, <3>3, <3>4, <3>5 DEF BoundaryInv, OneIsolates, Isolating, TypeOK
    <3>7. \A r \in intime : rpc[r] # "lock"
      BY <1>0, <3>4, NullAssumption DEF BoundaryInv, InTimeInv, Isolating, TypeOK
    <3>8. c \in Participants(bs[x]) \ (bs[x].started \cup bs[x].excluded)
      BY <2>2, <3>1 DEF Conflicts, Participates
    <3>9. pc[x] \in BeforeDecision
      <4>1. Remaining(bs[x]) # {}
        BY <3>8 DEF Remaining, Participants
      <4>2. pc[x] \in ExecutionPC
        BY <1>0 DEF TypeOK
      <4> QED
        BY <1>0, <3>1, <4>1, <4>2, NullAssumption DEF OverInv, BeforeDecision, ExecutionPC
    <3>10. ASSUME NEW r \in intime'
           PROVE  /\ conflict'[r] = x
                  /\ rcabin'[r] \in Participants(bs'[x])
                  /\ rcabin'[r] \notin bs'[x].started
                  /\ rpc'[r] # "call"
                  /\ rpc'[r] = "lock" => HoldsLoop(x, r)'
                  /\ rpc'[r] # "lock" => SeenIsolated(x, r)'
      <4>1. CASE r = q
        <5>1. ShortOf(x, c)
          BY <2>1, <3>2, <4>1
        <5>2. /\ conflict'[r] = x /\ rcabin'[r] = c /\ rpc'[r] = "lock"
          BY <2>1, <3>2, <4>1 DEF TypeOK
        <5>3. HoldsLoop(x, r)'
          BY <2>1, <3>1, <3>2, <3>3, <3>8, <3>9, <5>1, <5>2 DEF HoldsLoop, ShortOf
        <5> QED
          BY <3>3, <3>8, <5>2, <5>3
      <4>2. CASE r # q
        <5>1. r \in intime /\ r \in Reports
          BY <3>2, <4>2 DEF TypeOK
        <5>2. conflict'[r] = conflict[r] /\ rcabin'[r] = rcabin[r] /\ rpc'[r] = rpc[r]
          BY <2>1, <3>2, <4>2, <5>1 DEF TypeOK
        <5> QED
          BY <2>1, <3>3, <3>7, <5>1, <5>2 DEF BoundaryInv, InTimeInv, SeenIsolated
      <4> QED
        BY <4>1, <4>2
    <3> QED
      BY <3>6, <3>10 DEF BoundaryInv, InTimeInv
  <2>3. CASE ~Conflicts(c)
    <3>1. /\ UNCHANGED <<bs, bsPaused, bsPauseCabin, conflict, intime>>
          /\ conflict[q] = NoExecution
      BY <1>14, <2>1, <2>3 DEF PauseForFault, BoundaryInv, OneIsolates
    <3>2. /\ ~Isolating(q)'
          /\ \A r \in Reports \ {q} : Isolating(r)' <=> Isolating(r)
          /\ \A r \in Reports : rpc'[r] = "call" => rpc[r] = "call"
      BY <2>1, <3>1 DEF Isolating, TypeOK
    <3>3. OneIsolates(x)'
      BY <2>1, <3>1, <3>2 DEF BoundaryInv, OneIsolates
    <3>4. ASSUME NEW r \in intime PROVE rpc'[r] = rpc[r] /\ rcabin'[r] = rcabin[r]
      BY <2>1, <3>4 DEF TypeOK
    <3>5. InTimeInv(x)'
      BY <2>1, <3>1, <3>4 DEF BoundaryInv, InTimeInv, HoldsLoop, ShortOf, SeenIsolated
    <3> QED
      BY <3>3, <3>5 DEF BoundaryInv
  <2> QED
    BY <2>2, <2>3
<1>15. ASSUME NEW q \in Reports, LockCabin(q) PROVE BoundaryInv(x)'
  <2>1. /\ rpc[q] = "lock" /\ rpc'[q] \in {"resume", "done"}
        /\ \A r \in Reports \ {q} : rpc'[r] = rpc[r]
        /\ conflict[q] # NoExecution => rpc'[q] = "resume"
        /\ UNCHANGED <<pc, current, seen, bs, cancelled, coordVars, rcabin, conflict, intime>>
    BY <1>15 DEF LockCabin, TypeOK
  <2>2. OneIsolates(x)'
    BY <2>1 DEF BoundaryInv, OneIsolates, Isolating
  <2>3. ASSUME NEW c \in Cabins, IsFrozen(cabin[c]) PROVE IsFrozen(cabin'[c])
    BY <1>15, <2>3 DEF LockCabin, Isolate, Freeze, IsFrozen, TypeOK
  <2>4. q \in intime => IsFrozen(cabin'[rcabin[q]]) /\ ShortOf(x, rcabin[q])
    BY <1>15, <2>1 DEF LockCabin, Isolate, Freeze, IsFrozen, TypeOK, BoundaryInv, InTimeInv,
                       HoldsLoop
  <2>5. ASSUME NEW r \in intime PROVE r \in Reports /\ rcabin[r] \in Cabins
    BY <2>5 DEF TypeOK, BoundaryInv, InTimeInv
  <2>6. InTimeInv(x)'
    BY <2>1, <2>3, <2>4, <2>5
       DEF BoundaryInv, InTimeInv, HoldsLoop, ShortOf, SeenIsolated
  <2> QED
    BY <2>2, <2>6 DEF BoundaryInv
<1>16. ASSUME NEW q \in Reports, ResumeStartup(q) PROVE BoundaryInv(x)'
  <2>0. /\ rpc[q] = "resume" /\ conflict[q] = x
        /\ Isolating(q) /\ bs[x] \in BlackStartRecord
    BY <1>0, <1>16 DEF ResumeStartup, TypeOK, Isolating
  <2>1. /\ rpc'[q] = "done"
        /\ \A r \in Reports \ {q} : rpc'[r] = rpc[r]
        /\ bs' = [bs EXCEPT ![x] = Resume(bs[x])]
        /\ UNCHANGED <<pc, current, seen, cabin, activeBS, cancelled, rcabin, conflict, intime>>
    BY <1>16, <2>0 DEF ResumeStartup, TypeOK
  <2>2. /\ Participants(bs'[x]) = Participants(bs[x])
        /\ bs'[x].started = bs[x].started
    BY <1>0, <2>0, <2>1 DEF Resume, TypeOK, Participants, BlackStartRecord
  <2>3. \A r \in Reports : ~Isolating(r)'
    BY <2>0, <2>1 DEF BoundaryInv, OneIsolates, Isolating
  <2>4. OneIsolates(x)'
    BY <2>0, <2>1, <2>3 DEF BoundaryInv, OneIsolates
  <2>5. \A r \in intime : rpc'[r] # "lock" /\ rpc'[r] # "call"
    BY <1>0, <2>1, <2>3, NullAssumption DEF BoundaryInv, InTimeInv, Isolating, TypeOK
  <2>6. \A r \in intime : rpc[r] # "lock"
    BY <2>0, <2>1, <2>5 DEF TypeOK
  <2>7. InTimeInv(x)'
    BY <2>1, <2>2, <2>5, <2>6 DEF BoundaryInv, InTimeInv, SeenIsolated
  <2> QED
    BY <2>4, <2>7 DEF BoundaryInv
<1>17. CASE \/ \E o \in Operators :
                 \/ \E plan \in Plans : Request(o, plan)
                 \/ \E id \in BlackStartIDs :
                       \/ \E role \in Roles, p \in Principals \cup {Nobody} :
                             AuthorizeBlackStart(o, id, role, p)
                       \/ RollbackBlackStart(o, id)
                 \/ SaveDraft(o)
            \/ UNCHANGED vars
  <2>1. UNCHANGED <<cabin, coordVars, execVars, cancelVars, reportVars>>
    BY <1>17 DEF Request, AuthorizeBlackStart, RollbackBlackStart, SaveDraft, vars
  <2> QED
    BY <2>1 DEF BoundaryInv, OneIsolates, InTimeInv, HoldsLoop, ShortOf, SeenIsolated,
                Isolating, reportVars
<1> QED
  BY <1>0, <1>1, <1>2, <1>3, <1>4, <1>5, <1>6, <1>7, <1>8, <1>9, <1>10, <1>11, <1>12,
     <1>13, <1>14, <1>15, <1>16, <1>17
     DEF Next, ExecutionStep, AllReturned

\* When one call executes and nobody cancels it, a cabin whose report pauses the
\* execution before it is past its wait for the cabin is never energized.
THEOREM IsolatedInTimeHolds ==
    ASSUME NEW x, LoneExecution(x)
    PROVE  Spec => []IsolatedInTime
<1>0. x \in Executions /\ \A e \in Executions : e = x
  BY DEF LoneExecution
<1>1. Init => OverInv(x) /\ BoundaryInv(x)
  BY <1>0 DEF Init, OverInv, BoundaryInv, OneIsolates, InTimeInv, Isolating
<1>2. BoundaryInv(x) => IsolatedInTime
  BY DEF BoundaryInv, InTimeInv, IsolatedInTime
<1> QED
  BY <1>1, <1>2, NextKeepsOver, NextKeepsBoundary, TypeCorrect, PTL DEF Spec

-----------------------------------------------------------------------------
(* What a snapshot finds of an execution                                   *)
(*                                                                         *)
(* Two conditions: a second call on the same black start stores its own    *)
(* progress under the same ID, and an operator's stale save overwrites it. *)

\* Whenever the loop has no decision of its own left to save, the stored record
\* has them all.
StoredInv ==
    \A e \in Executions :
        pc[e] \in {"loop", "await", "read", "decide", "complete"}
          => /\ stored[Target[e]].started = bs[e].started
             /\ stored[Target[e]].excluded = bs[e].excluded

\* Steps of a call that change neither its clone nor the store.
LEMMA QuietKeepsStored ==
    ASSUME StoredInv, UNCHANGED stored, NEW e \in Executions,
           \A f \in Executions \ {e} : pc'[f] = pc[f],
           pc'[e] \in {"loop", "await", "read", "decide", "complete"}
             => /\ pc[e] \in {"loop", "await", "read", "decide", "complete"}
                /\ bs'[e].started = bs[e].started
                /\ bs'[e].excluded = bs[e].excluded,
           \A f \in Executions \ {e} : bs'[f] = bs[f]
    PROVE  StoredInv'
BY DEF StoredInv

\* A save by the call e.
LEMMA SaveKeepsStored ==
    ASSUME CalledOnce, TypeOK, StoredInv, NEW e \in Executions, bs[e] # NoBlackStart,
           SaveBlackStart(e), UNCHANGED bs,
           \A f \in Executions \ {e} : pc'[f] = pc[f]
    PROVE  StoredInv'
<1>1. bs[e] \in BlackStartRecord /\ Target[e] \in BlackStartIDs
  BY TargetAssumption DEF TypeOK
<1>2. PICK copy \in Copies(e) : stored' = [stored EXCEPT ![Target[e]] = copy]
  BY DEF SaveBlackStart
<1>3. copy.started = bs[e].started /\ copy.excluded = bs[e].excluded
  BY <1>1 DEF Copies, BlackStartRecord
<1>4. stored'[Target[e]] = copy
  BY <1>1, <1>2 DEF TypeOK
<1>5. \A f \in Executions \ {e} : stored'[Target[f]] = stored[Target[f]]
  BY <1>2, TargetAssumption DEF CalledOnce, TypeOK
<1> QED
  BY <1>3, <1>4, <1>5 DEF StoredInv

LEMMA NextKeepsStored ==
    ASSUME CalledOnce, Operators = {}
    PROVE  TypeOK /\ StoredInv /\ [Next]_vars => StoredInv'
<1> SUFFICES ASSUME TypeOK, StoredInv, [Next]_vars PROVE StoredInv'
  OBVIOUS
<1> USE DEF storeVars, coordVars, execVars
<1>1. ASSUME NEW e \in Executions,
             LoadMissing(e) \/ Load(e) \/ Register(e) \/ RegisterRefused(e)
             \/ TakeUpCabin(e) \/ AllDecided(e) \/ PassWait(e) \/ ReadCabin(e)
             \/ Decide(e) \/ CompleteStep(e) \/ Unregister(e)
      PROVE  StoredInv'
  <2>1. /\ UNCHANGED stored
        /\ \A f \in Executions \ {e} : pc'[f] = pc[f] /\ bs'[f] = bs[f]
    BY <1>1 DEF LoadMissing, Load, Register, RegisterRefused, TakeUpCabin, AllDecided,
                PassWait, ReadCabin, Decide, CompleteStep, Unregister, Goto, TypeOK
  <2>2. pc'[e] \in {"loop", "await", "read", "decide", "complete"}
          => /\ pc[e] \in {"loop", "await", "read", "decide", "complete"}
             /\ bs'[e].started = bs[e].started
             /\ bs'[e].excluded = bs[e].excluded
    BY <1>1 DEF LoadMissing, Load, Register, RegisterRefused, TakeUpCabin, AllDecided,
                PassWait, ReadCabin, Decide, CompleteStep, Unregister, Goto, TypeOK
  <2> QED
    BY <2>1, <2>2, QuietKeepsStored
<1>2. ASSUME NEW e \in Executions, Announce(e) \/ SaveProgress(e) \/ SaveFinal(e)
      PROVE  StoredInv'
  <2>1. /\ SaveBlackStart(e) /\ UNCHANGED bs
        /\ \A f \in Executions \ {e} : pc'[f] = pc[f]
        /\ bs[e] # NoBlackStart
    BY <1>2 DEF Announce, SaveProgress, SaveFinal, Goto, TypeOK
  <2> QED
    BY <2>1, SaveKeepsStored
<1>3. ASSUME NEW e \in Executions,
             Park(e) \/ Cancel(e) \/ WatcherCancel(e) \/ WatcherDone(e)
      PROVE  StoredInv'
  BY <1>3 DEF Park, Cancel, WatcherCancel, WatcherDone, StoredInv
<1>4. ASSUME NEW r \in Reports, NEW c \in Cabins, PauseForFault(r, c) PROVE StoredInv'
  <2>1. CASE Conflicts(c)
    <3>1. activeBS \in Executions /\ bs[activeBS] \in BlackStartRecord
      BY <2>1 DEF Conflicts, TypeOK
    <3>2. \A e \in Executions : /\ bs'[e].started = bs[e].started
                                /\ bs'[e].excluded = bs[e].excluded
      BY <1>4, <2>1, <3>1, StateMethodsKeepCabins DEF PauseForFault, TypeOK
    <3> QED
      BY <1>4, <3>2 DEF PauseForFault, StoredInv
  <2>2. CASE ~Conflicts(c)
    BY <1>4, <2>2 DEF PauseForFault, StoredInv
  <2> QED
    BY <2>1, <2>2
<1>5. ASSUME NEW r \in Reports, LockCabin(r) PROVE StoredInv'
  BY <1>5 DEF LockCabin, StoredInv
<1>6. ASSUME NEW r \in Reports, ResumeStartup(r) PROVE StoredInv'
  <2>1. conflict[r] \in Executions /\ bs[conflict[r]] \in BlackStartRecord
    BY <1>6 DEF ResumeStartup, TypeOK
  <2>2. \A e \in Executions : /\ bs'[e].started = bs[e].started
                              /\ bs'[e].excluded = bs[e].excluded
    BY <1>6, <2>1, StateMethodsKeepCabins DEF ResumeStartup, TypeOK
  <2> QED
    BY <1>6, <2>2 DEF ResumeStartup, StoredInv
<1>7. CASE UNCHANGED vars
  BY <1>7 DEF vars, StoredInv
<1> QED
  BY <1>1, <1>2, <1>3, <1>4, <1>5, <1>6, <1>7 DEF Next, ExecutionStep, AllReturned

\* If no black start is executed by two calls, and no operator saves a stale
\* clone, the stored record of an execution has every decision made before the
\* cabin that the loop is handling.
THEOREM ProgressStoredHolds ==
    ASSUME CalledOnce, Operators = {}
    PROVE  Spec => []ProgressStored
<1>1. Init => StoredInv
  BY DEF Init, StoredInv
<1>2. StoredInv => ProgressStored
  BY DEF StoredInv, ProgressStored
<1> QED
  BY <1>1, <1>2, NextKeepsStored, TypeCorrect, PTL DEF Spec

=============================================================================
