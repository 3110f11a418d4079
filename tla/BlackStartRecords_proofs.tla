---------------------- MODULE BlackStartRecords_proofs ----------------------
(***************************************************************************)
(* Every black-start record in the program is sound: DualAuthorization and *)
(* DecidedOnce, for all constants.  Records are copied between the store,  *)
(* the executions and the operator calls and saved back in any order, so   *)
(* the proof is that each method keeps a single record sound, and that     *)
(* every copy is of a sound record.                                        *)
(***************************************************************************)
EXTENDS BlackStartExecution_proofs

Sound(b) == Signed(b) /\ DecidedSoundly(b)

\* The cabin a loop is handling is one it still has to decide.
CurrentUndecided ==
    \A e \in Executions :
        pc[e] \in {"await", "read", "decide"}
          => current[e] \in Participants(bs[e]) \ (bs[e].started \cup bs[e].excluded)

RecordsInv ==
    /\ \A id \in BlackStartIDs : stored[id] # NoBlackStart => Sound(stored[id])
    /\ \A e \in Executions : bs[e] # NoBlackStart => Sound(bs[e])
    /\ \A o \in Operators : draft[o] # Idle => Sound(draft[o].record)
    /\ CurrentUndecided

-----------------------------------------------------------------------------
(* One record                                                              *)

\* Methods that change the state alone.
LEMMA StateMethodsSound ==
    ASSUME NEW b \in BlackStartRecord, Sound(b)
    PROVE  /\ CanBeginExecution(b) => Sound(BeginExecution(b))
           /\ Sound(Pause(b))
           /\ Sound(Resume(b))
           /\ Sound(Complete(b))
           /\ Sound(Rollback(b))
           /\ Sound([b EXCEPT !.state = Torn])
<1> USE DEF BlackStartRecord, Sound, Signed, DecidedSoundly, Participants
<1>1. CanBeginExecution(b) => Sound(BeginExecution(b))
  BY DEF CanBeginExecution, BeginExecution, FullyAuthorized
<1>2. Sound(Pause(b))
  BY DEF Pause
<1>3. Sound(Resume(b))
  BY DEF Resume
<1>4. Sound(Complete(b))
  <2>1. CanComplete(b) => Participants(b) \subseteq b.started \cup b.excluded
    BY NoneRemaining DEF CanComplete
  <2> QED
    BY <2>1 DEF Complete, CanComplete
<1>5. Sound(Rollback(b))
  BY DEF Rollback
<1>6. Sound([b EXCEPT !.state = Torn])
  BY DEF Torn
<1> QED
  BY <1>1, <1>2, <1>3, <1>4, <1>5, <1>6

\* Deciding a cabin that is still undecided.
LEMMA MarksSound ==
    ASSUME NEW b \in BlackStartRecord, Sound(b),
           NEW c \in Participants(b) \ (b.started \cup b.excluded)
    PROVE  Sound(MarkCabinStarted(b, c)) /\ Sound(MarkCabinExcluded(b, c))
BY DEF BlackStartRecord, Sound, Signed, DecidedSoundly, Participants,
       MarkCabinStarted, MarkCabinExcluded

LEMMA NewBlackStartSound ==
    ASSUME NEW plan \in Seq(Cabins)
    PROVE  Sound(NewBlackStart(plan))
BY DEF NewBlackStart, Sound, Signed, DecidedSoundly, Participants

LEMMA AuthorizeSound ==
    ASSUME NEW b \in BlackStartRecord, Sound(b), NEW role \in Roles,
           NEW p \in Principals \cup {Nobody}
    PROVE  Sound(Authorize(b, role, p))
<1> DEFINE signed == [b EXCEPT !.auth[role] = p]
<1>1. /\ signed.auth \in [Roles -> Principals \cup {Nobody}]
      /\ signed.cabins = b.cabins
      /\ signed.started = b.started
      /\ signed.excluded = b.excluded
      /\ signed = [cabins |-> b.cabins, state |-> b.state, auth |-> signed.auth,
                   started |-> b.started, excluded |-> b.excluded]
  BY DEF BlackStartRecord
<1>2. /\ Authorize(b, role, p).auth = signed.auth
      /\ Authorize(b, role, p).cabins = b.cabins
      /\ Authorize(b, role, p).started = b.started
      /\ Authorize(b, role, p).excluded = b.excluded
      /\ Authorize(b, role, p).state
           = IF FullyAuthorized(signed) THEN "dual_authorized" ELSE "duty_authorized"
  BY <1>1 DEF Authorize
<1>3. FullyAuthorized(signed) => \A r \in Roles : signed.auth[r] \in Principals
  BY <1>1 DEF FullyAuthorized
<1> QED
  BY <1>2, <1>3 DEF Sound, Signed, DecidedSoundly, Participants

-----------------------------------------------------------------------------
(* Every record                                                            *)

LEMMA InitSound == Init => RecordsInv
<1> SUFFICES ASSUME Init PROVE RecordsInv
  OBVIOUS
<1>1. PICK plan \in [Ready -> Plans], p \in Principals :
        stored = [id \in BlackStartIDs |->
                    IF id \in Ready THEN DualAuthorized(plan[id], p) ELSE NoBlackStart]
  BY DEF Init
<1>2. ASSUME NEW id \in Ready PROVE Sound(DualAuthorized(plan[id], p))
  <2>1. NewBlackStart(plan[id]) \in BlackStartRecord /\ Sound(NewBlackStart(plan[id]))
    BY PlansAssumption, NewBlackStartTyped, NewBlackStartSound
  <2> QED
    BY <2>1, AuthorizeTyped, AuthorizeSound DEF DualAuthorized, Roles
<1> QED
  BY <1>1, <1>2 DEF Init, RecordsInv, CurrentUndecided

\* What an execution saves is sound.
LEMMA SaveSound ==
    ASSUME TypeOK, RecordsInv, NEW e \in Executions, bs[e] # NoBlackStart, SaveBlackStart(e)
    PROVE  \A id \in BlackStartIDs : stored'[id] # NoBlackStart => Sound(stored'[id])
<1>1. bs[e] \in BlackStartRecord /\ Sound(bs[e])
  BY DEF TypeOK, RecordsInv
<1>2. \A b \in Copies(e) : Sound(b)
  BY <1>1, StateMethodsSound DEF Copies
<1> QED
  BY <1>2 DEF SaveBlackStart, TypeOK, RecordsInv

\* A step of e that changes its clone to a sound one, or moves it on, without
\* touching the store, the drafts or the other executions.
LEMMA OwnStepSound ==
    ASSUME TypeOK, RecordsInv, NEW e \in Executions, UNCHANGED <<stored, draft>>,
           \A f \in Executions \ {e} :
              UNCHANGED <<pc[f], bs[f], current[f]>>,
           bs'[e] # NoBlackStart => Sound(bs'[e]),
           pc'[e] \in {"await", "read", "decide"} =>
              current'[e] \in Participants(bs'[e]) \ (bs'[e].started \cup bs'[e].excluded)
    PROVE  RecordsInv'
BY DEF RecordsInv, CurrentUndecided

\* A change of the state field alone leaves the decided cabins as they were.
LEMMA StateMethodsKeepCabins ==
    ASSUME NEW b \in BlackStartRecord
    PROVE  \A d \in {Pause(b), Resume(b), Complete(b), BeginExecution(b)} :
              /\ Participants(d) = Participants(b)
              /\ d.started = b.started
              /\ d.excluded = b.excluded
BY DEF Pause, Resume, Complete, BeginExecution, BlackStartRecord, Participants

LEMMA NextSound == TypeOK /\ RecordsInv /\ [Next]_vars => RecordsInv'
<1> SUFFICES ASSUME TypeOK, RecordsInv, [Next]_vars PROVE RecordsInv'
  OBVIOUS
<1> USE DEF storeVars, coordVars, execVars, cancelVars, reportVars
<1>1. ASSUME NEW e \in Executions, LoadMissing(e) PROVE RecordsInv'
  BY <1>1, OwnStepSound DEF LoadMissing, Goto, TypeOK, RecordsInv
<1>2. ASSUME NEW e \in Executions, Load(e) PROVE RecordsInv'
  <2>1. bs'[e] = stored[Target[e]] /\ pc'[e] = "register"
    BY <1>2 DEF Load, Goto, TypeOK
  <2>2. bs'[e] # NoBlackStart => Sound(bs'[e])
    BY <2>1, TargetAssumption DEF RecordsInv
  <2> QED
    BY <1>2, <2>1, <2>2, OwnStepSound DEF Load, Goto, TypeOK
<1>3. ASSUME NEW e \in Executions, Register(e) PROVE RecordsInv'
  <2>1. bs[e] \in BlackStartRecord /\ Sound(bs[e])
    BY <1>3 DEF Register, Goto, TypeOK, RecordsInv
  <2>2. Sound(BeginExecution(bs[e]))
    BY <1>3, <2>1, StateMethodsSound DEF Register
  <2> QED
    BY <1>3, <2>2, OwnStepSound DEF Register, Goto, TypeOK
<1>4. ASSUME NEW e \in Executions, RegisterRefused(e) \/ AllDecided(e) \/ Unregister(e)
      PROVE  RecordsInv'
  BY <1>4, OwnStepSound DEF RegisterRefused, AllDecided, Unregister, Goto, TypeOK, RecordsInv
<1>5. ASSUME NEW e \in Executions, Announce(e) \/ SaveProgress(e) \/ SaveFinal(e)
      PROVE  RecordsInv'
  <2>1. bs[e] # NoBlackStart /\ SaveBlackStart(e) /\ UNCHANGED <<bs, current, draft>>
    BY <1>5 DEF Announce, SaveProgress, SaveFinal, Goto, TypeOK
  <2>2. \A f \in Executions :
          pc'[f] \in {"await", "read", "decide"} => pc[f] \in {"await", "read", "decide"}
    BY <1>5 DEF Announce, SaveProgress, SaveFinal, Goto, TypeOK
  <2> QED
    BY <2>1, <2>2, SaveSound DEF RecordsInv, CurrentUndecided
<1>6. ASSUME NEW e \in Executions, TakeUpCabin(e) PROVE RecordsInv'
  <2>1. bs[e] \in BlackStartRecord /\ Remaining(bs[e]) # {}
    BY <1>6 DEF TakeUpCabin, Goto, TypeOK
  <2>2. current'[e] \in Participants(bs[e]) \ (bs[e].started \cup bs[e].excluded)
    BY <1>6, <2>1, NextCabinUndecided DEF TakeUpCabin, TypeOK
  <2> QED
    BY <1>6, <2>2, OwnStepSound DEF TakeUpCabin, Goto, TypeOK, RecordsInv
<1>7. ASSUME NEW e \in Executions, Park(e) \/ PassWait(e) \/ ReadCabin(e)
      PROVE  RecordsInv'
  <2>1. /\ UNCHANGED <<stored, bs, current, draft>>
        /\ \A f \in Executions :
              pc'[f] \in {"await", "read", "decide"} => pc[f] \in {"await", "read", "decide"}
    BY <1>7 DEF Park, PassWait, ReadCabin, Goto, TypeOK
  <2> QED
    BY <2>1 DEF RecordsInv, CurrentUndecided
<1>8. ASSUME NEW e \in Executions, Decide(e) PROVE RecordsInv'
  <2>1. /\ bs[e] \in BlackStartRecord
        /\ Sound(bs[e])
        /\ current[e] \in Participants(bs[e]) \ (bs[e].started \cup bs[e].excluded)
    BY <1>8 DEF Decide, Goto, TypeOK, RecordsInv, CurrentUndecided
  <2>2. bs'[e] \in {MarkCabinStarted(bs[e], current[e]), MarkCabinExcluded(bs[e], current[e])}
    BY <1>8 DEF Decide, TypeOK
  <2> QED
    BY <1>8, <2>1, <2>2, MarksSound, OwnStepSound DEF Decide, Goto, TypeOK
<1>9. ASSUME NEW e \in Executions, CompleteStep(e) PROVE RecordsInv'
  <2>1. bs[e] \in BlackStartRecord /\ Sound(bs[e])
    BY <1>9 DEF CompleteStep, Goto, TypeOK, RecordsInv
  <2>2. Sound(Complete(bs[e]))
    BY <2>1, StateMethodsSound
  <2> QED
    BY <1>9, <2>2, OwnStepSound DEF CompleteStep, Goto, TypeOK
<1>10. ASSUME NEW e \in Executions, Cancel(e) \/ WatcherCancel(e) \/ WatcherDone(e)
       PROVE  RecordsInv'
  BY <1>10 DEF Cancel, WatcherCancel, WatcherDone, RecordsInv, CurrentUndecided
<1>11. ASSUME NEW r \in Reports, NEW c \in Cabins, PauseForFault(r, c) PROVE RecordsInv'
  <2>1. CASE Conflicts(c)
    <3>1. activeBS \in Executions /\ bs[activeBS] \in BlackStartRecord /\ Sound(bs[activeBS])
      BY <2>1 DEF Conflicts, TypeOK, RecordsInv
    <3>2. /\ bs' = [bs EXCEPT ![activeBS] = Pause(bs[activeBS])]
          /\ UNCHANGED <<stored, draft, pc, current>>
      BY <1>11, <2>1 DEF PauseForFault
    <3>3. Sound(Pause(bs[activeBS]))
      BY <3>1, StateMethodsSound
    <3> QED
      BY <3>1, <3>2, <3>3, StateMethodsKeepCabins, OwnStepSound
         DEF TypeOK, RecordsInv, CurrentUndecided
  <2>2. CASE ~Conflicts(c)
    BY <1>11, <2>2 DEF PauseForFault, RecordsInv, CurrentUndecided
  <2> QED
    BY <2>1, <2>2
<1>12. ASSUME NEW r \in Reports, LockCabin(r) PROVE RecordsInv'
  BY <1>12 DEF LockCabin, RecordsInv, CurrentUndecided
<1>13. ASSUME NEW r \in Reports, ResumeStartup(r) PROVE RecordsInv'
  <2>1. /\ conflict[r] \in Executions
        /\ bs[conflict[r]] \in BlackStartRecord
        /\ Sound(bs[conflict[r]])
    BY <1>13 DEF ResumeStartup, TypeOK, RecordsInv
  <2>2. /\ bs' = [bs EXCEPT ![conflict[r]] = Resume(bs[conflict[r]])]
        /\ UNCHANGED <<stored, draft, pc, current>>
    BY <1>13 DEF ResumeStartup
  <2>3. Sound(Resume(bs[conflict[r]]))
    BY <2>1, StateMethodsSound
  <2> QED
    BY <2>1, <2>2, <2>3, StateMethodsKeepCabins, OwnStepSound
       DEF TypeOK, RecordsInv, CurrentUndecided
<1>14. ASSUME NEW o \in Operators, NEW plan \in Plans, Request(o, plan) PROVE RecordsInv'
  <2>1. Sound(NewBlackStart(plan))
    BY PlansAssumption, NewBlackStartSound
  <2> QED
    BY <1>14, <2>1 DEF Request, TypeOK, RecordsInv, CurrentUndecided
<1>15. ASSUME NEW o \in Operators, NEW id \in BlackStartIDs, NEW role \in Roles,
              NEW p \in Principals \cup {Nobody}, AuthorizeBlackStart(o, id, role, p)
       PROVE  RecordsInv'
  <2>1. stored[id] \in BlackStartRecord /\ Sound(stored[id])
    BY <1>15 DEF AuthorizeBlackStart, TypeOK, RecordsInv
  <2>2. Sound(Authorize(stored[id], role, p))
    BY <2>1, AuthorizeSound
  <2> QED
    BY <1>15, <2>2 DEF AuthorizeBlackStart, TypeOK, RecordsInv, CurrentUndecided
<1>16. ASSUME NEW o \in Operators, NEW id \in BlackStartIDs, RollbackBlackStart(o, id)
       PROVE  RecordsInv'
  <2>1. stored[id] \in BlackStartRecord /\ Sound(stored[id])
    BY <1>16 DEF RollbackBlackStart, TypeOK, RecordsInv
  <2>2. Sound(Rollback(stored[id]))
    BY <2>1, StateMethodsSound
  <2> QED
    BY <1>16, <2>2 DEF RollbackBlackStart, TypeOK, RecordsInv, CurrentUndecided
<1>17. ASSUME NEW o \in Operators, SaveDraft(o) PROVE RecordsInv'
  <2>1. Sound(draft[o].record)
    BY <1>17 DEF SaveDraft, RecordsInv
  <2> QED
    BY <1>17, <2>1 DEF SaveDraft, TypeOK, RecordsInv, CurrentUndecided
<1>18. CASE UNCHANGED vars
  BY <1>18 DEF vars, RecordsInv, CurrentUndecided
<1> QED
  BY <1>1, <1>2, <1>3, <1>4, <1>5, <1>6, <1>7, <1>8, <1>9, <1>10, <1>11, <1>12,
     <1>13, <1>14, <1>15, <1>16, <1>17, <1>18
     DEF Next, ExecutionStep, AllReturned

LEMMA RecordsInvariant == Spec => []RecordsInv
BY InitSound, NextSound, TypeCorrect, PTL DEF Spec

\* Nothing is executed, and no record says it is authorized, without the
\* signatures of both roles.
THEOREM DualAuthorizationHolds == Spec => []DualAuthorization
<1>1. RecordsInv => DualAuthorization
  BY DEF RecordsInv, DualAuthorization, Records, Sound
<1> QED
  BY <1>1, RecordsInvariant, PTL

\* Each cabin of a plan is decided once, and a completed plan has none left.
THEOREM DecidedOnceHolds == Spec => []DecidedOnce
<1>1. RecordsInv => DecidedOnce
  BY DEF RecordsInv, DecidedOnce, Records, Sound
<1> QED
  BY <1>1, RecordsInvariant, PTL

=============================================================================
