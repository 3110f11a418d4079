--------------------- MODULE BlackStartExecution_proofs ---------------------
(***************************************************************************)
(* Theorems about BlackStartExecution for every set of cabins, executions, *)
(* reports and operator calls, whatever cancellations occur.               *)
(***************************************************************************)
EXTENDS BlackStartExecution, BlackStart_proofs

-----------------------------------------------------------------------------
(* Type correctness                                                        *)

\* The record an execution saves, torn or not, is a record.
LEMMA CopiesTyped ==
    ASSUME TypeOK, NEW e \in Executions, bs[e] # NoBlackStart, SaveBlackStart(e)
    PROVE  stored' \in [BlackStartIDs -> BlackStartRecord \cup {NoBlackStart}]
<1>1. bs[e] \in BlackStartRecord
  BY DEF TypeOK
<1>2. Copies(e) \subseteq BlackStartRecord
  BY <1>1, MethodsTyped DEF Copies
<1> QED
  BY <1>2 DEF SaveBlackStart, TypeOK

\* The initial states are well typed.
LEMMA InitTyped == Init => TypeOK
<1> SUFFICES ASSUME Init PROVE TypeOK
  OBVIOUS
<1>1. stored \in [BlackStartIDs -> BlackStartRecord \cup {NoBlackStart}]
  <2>1. PICK plan \in [Ready -> Plans], p \in Principals :
          stored = [id \in BlackStartIDs |->
                      IF id \in Ready THEN DualAuthorized(plan[id], p) ELSE NoBlackStart]
    BY DEF Init
  <2>2. ASSUME NEW id \in Ready PROVE DualAuthorized(plan[id], p) \in BlackStartRecord
    <3>1. NewBlackStart(plan[id]) \in BlackStartRecord
      BY PlansAssumption, NewBlackStartTyped
    <3> QED
      BY <3>1, AuthorizeTyped DEF DualAuthorized, Roles
  <2> QED
    BY <2>1, <2>2
<1> QED
  BY <1>1, StatusAssumption DEF Init, TypeOK, ExecutionPC, ReportPC, CabinStatus

\* Every step keeps the variables well typed.
LEMMA NextTyped == TypeOK /\ [Next]_vars => TypeOK'
<1> SUFFICES ASSUME TypeOK, [Next]_vars PROVE TypeOK'
  OBVIOUS
<1> USE DEF storeVars, coordVars, execVars, cancelVars, reportVars
<1>1. ASSUME NEW e \in Executions, LoadMissing(e) PROVE TypeOK'
  BY <1>1 DEF LoadMissing, Goto, TypeOK, ExecutionPC
<1>2. ASSUME NEW e \in Executions, Load(e) PROVE TypeOK'
  BY <1>2, TargetAssumption DEF Load, Goto, TypeOK, ExecutionPC
<1>3. ASSUME NEW e \in Executions, Register(e) PROVE TypeOK'
  <2>1. bs[e] \in BlackStartRecord /\ BeginExecution(bs[e]) \in BlackStartRecord
    BY <1>3, MethodsTyped DEF Register, Goto, TypeOK
  <2> QED
    BY <1>3, <2>1, NullAssumption DEF Register, Goto, TypeOK, ExecutionPC
<1>4. ASSUME NEW e \in Executions, RegisterRefused(e) PROVE TypeOK'
  BY <1>4 DEF RegisterRefused, Goto, TypeOK, ExecutionPC
<1>5. ASSUME NEW e \in Executions, Announce(e) PROVE TypeOK'
  BY <1>5, CopiesTyped DEF Announce, Goto, TypeOK, ExecutionPC
<1>6. ASSUME NEW e \in Executions, TakeUpCabin(e) PROVE TypeOK'
  <2>1. NextCabin(bs[e]) \in Cabins
    BY <1>6, NextCabinUndecided DEF TakeUpCabin, Goto, TypeOK
  <2> QED
    BY <1>6, <2>1 DEF TakeUpCabin, Goto, TypeOK, ExecutionPC
<1>7. ASSUME NEW e \in Executions, AllDecided(e) PROVE TypeOK'
  BY <1>7 DEF AllDecided, Goto, TypeOK, ExecutionPC
<1>8. ASSUME NEW e \in Executions, Park(e) PROVE TypeOK'
  BY <1>8 DEF Park, TypeOK
<1>9. ASSUME NEW e \in Executions, PassWait(e) PROVE TypeOK'
  BY <1>9 DEF PassWait, Goto, TypeOK, ExecutionPC
<1>10. ASSUME NEW e \in Executions, ReadCabin(e) PROVE TypeOK'
  BY <1>10 DEF ReadCabin, Goto, TypeOK, ExecutionPC
<1>11. ASSUME NEW e \in Executions, Decide(e) PROVE TypeOK'
  <2>1. bs[e] \in BlackStartRecord /\ current[e] \in Cabins
    BY <1>11 DEF Decide, Goto, TypeOK
  <2>2. bs'[e] \in BlackStartRecord /\ \A f \in Executions \ {e} : bs'[f] = bs[f]
    BY <1>11, <2>1, MethodsTyped DEF Decide, TypeOK
  <2> QED
    BY <1>11, <2>2, NullAssumption DEF Decide, Goto, TypeOK, ExecutionPC
<1>12. ASSUME NEW e \in Executions, SaveProgress(e) PROVE TypeOK'
  BY <1>12, CopiesTyped DEF SaveProgress, Goto, TypeOK, ExecutionPC
<1>13. ASSUME NEW e \in Executions, CompleteStep(e) PROVE TypeOK'
  <2>1. bs[e] \in BlackStartRecord /\ Complete(bs[e]) \in BlackStartRecord
    BY <1>13, MethodsTyped DEF CompleteStep, Goto, TypeOK
  <2> QED
    BY <1>13, <2>1, NullAssumption DEF CompleteStep, Goto, TypeOK, ExecutionPC
<1>14. ASSUME NEW e \in Executions, SaveFinal(e) PROVE TypeOK'
  BY <1>14, CopiesTyped DEF SaveFinal, Goto, TypeOK, ExecutionPC
<1>15. ASSUME NEW e \in Executions, Unregister(e) PROVE TypeOK'
  BY <1>15 DEF Unregister, Goto, TypeOK, ExecutionPC
<1>16. ASSUME NEW e \in Executions, Cancel(e) \/ WatcherCancel(e) \/ WatcherDone(e)
       PROVE  TypeOK'
  <2>1. CASE Cancel(e)
    BY <2>1 DEF Cancel, TypeOK
  <2>2. CASE WatcherCancel(e)
    BY <2>2 DEF WatcherCancel, TypeOK
  <2>3. CASE WatcherDone(e)
    BY <2>3 DEF WatcherDone, TypeOK
  <2> QED
    BY <1>16, <2>1, <2>2, <2>3
<1>17. ASSUME NEW r \in Reports, NEW c \in Cabins, PauseForFault(r, c) PROVE TypeOK'
  <2>1. CASE Conflicts(c)
    <3>1. /\ activeBS \in Executions
          /\ bs[activeBS] \in BlackStartRecord
          /\ Pause(bs[activeBS]) \in BlackStartRecord
      BY <2>1, MethodsTyped DEF Conflicts, TypeOK
    <3> QED
      BY <1>17, <2>1, <3>1, NullAssumption DEF PauseForFault, TypeOK, ReportPC
  <2>2. CASE ~Conflicts(c)
    BY <1>17, <2>2 DEF PauseForFault, TypeOK, ReportPC
  <2> QED
    BY <2>1, <2>2
<1>18. ASSUME NEW r \in Reports, LockCabin(r) PROVE TypeOK'
  BY <1>18 DEF LockCabin, TypeOK, ReportPC, CabinStatus, Isolate, Freeze
<1>19. ASSUME NEW r \in Reports, ResumeStartup(r) PROVE TypeOK'
  <2>1. /\ conflict[r] \in Executions
        /\ bs[conflict[r]] \in BlackStartRecord
        /\ Resume(bs[conflict[r]]) \in BlackStartRecord
    BY <1>19, MethodsTyped DEF ResumeStartup, TypeOK
  <2> QED
    BY <1>19, <2>1, NullAssumption DEF ResumeStartup, TypeOK, ReportPC
<1>20. ASSUME NEW o \in Operators, NEW plan \in Plans, Request(o, plan) PROVE TypeOK'
  BY <1>20, PlansAssumption, NewBlackStartTyped DEF Request, TypeOK, Drafts
<1>21. ASSUME NEW o \in Operators, NEW id \in BlackStartIDs, NEW role \in Roles,
              NEW p \in Principals \cup {Nobody}, AuthorizeBlackStart(o, id, role, p)
       PROVE  TypeOK'
  BY <1>21, AuthorizeTyped DEF AuthorizeBlackStart, TypeOK, Drafts
<1>22. ASSUME NEW o \in Operators, NEW id \in BlackStartIDs, RollbackBlackStart(o, id)
       PROVE  TypeOK'
  BY <1>22, MethodsTyped DEF RollbackBlackStart, TypeOK, Drafts
<1>23. ASSUME NEW o \in Operators, SaveDraft(o) PROVE TypeOK'
  BY <1>23 DEF SaveDraft, TypeOK, Drafts
<1>24. CASE UNCHANGED vars
  BY <1>24 DEF vars, TypeOK
<1> QED
  BY <1>1, <1>2, <1>3, <1>4, <1>5, <1>6, <1>7, <1>8, <1>9, <1>10, <1>11, <1>12,
     <1>13, <1>14, <1>15, <1>16, <1>17, <1>18, <1>19, <1>20, <1>21, <1>22, <1>23,
     <1>24
     DEF Next, ExecutionStep, AllReturned

\* The program keeps its variables well typed, and its pointers never dangle.
THEOREM TypeCorrect == Spec => []TypeOK
<1> QED
  BY InitTyped, NextTyped, PTL DEF Spec

-----------------------------------------------------------------------------
(* Pauses are released                                                     *)
(*                                                                         *)
(* PauseHasOwner and NoLostWakeup together are inductive: a report that    *)
(* sets the pause flag owns it until its own last section, every last      *)
(* section wakes all waiters, and an execution falls asleep only while the *)
(* flag is set.                                                            *)

PauseInv == PauseHasOwner /\ NoLostWakeup

\* Steps that leave the flag, the reports and the sleepers alone, or that only
\* wake sleepers and clear the flag, keep PauseInv.
LEMMA QuietKeepsPause ==
    ASSUME PauseInv, UNCHANGED reportVars, UNCHANGED bsPauseCabin,
           bsPaused' => bsPaused, waiters' \subseteq waiters
    PROVE  PauseInv'
BY DEF PauseInv, PauseHasOwner, NoLostWakeup, Isolating, reportVars

LEMMA NextKeepsPause == TypeOK /\ PauseInv /\ [Next]_vars => PauseInv'
<1> SUFFICES ASSUME TypeOK, PauseInv, [Next]_vars PROVE PauseInv'
  OBVIOUS
<1> USE DEF coordVars
<1>1. ASSUME NEW e \in Executions, LoadMissing(e) \/ Load(e) PROVE PauseInv'
  BY <1>1, QuietKeepsPause DEF LoadMissing, Load
<1>2. ASSUME NEW e \in Executions, ExecutionStep(e), ~Park(e) PROVE PauseInv'
  BY <1>2, QuietKeepsPause
     DEF ExecutionStep, Register, RegisterRefused, Announce, TakeUpCabin, AllDecided,
         PassWait, ReadCabin, Decide, SaveProgress, CompleteStep, SaveFinal, Unregister
<1>3. ASSUME NEW e \in Executions, Park(e) PROVE PauseInv'
  <2>1. bsPaused /\ UNCHANGED <<bsPaused, bsPauseCabin, rpc, rcabin, conflict>>
    BY <1>3 DEF Park, HeldBack, reportVars
  <2>2. \E r \in Reports : Isolating(r) /\ rcabin[r] = bsPauseCabin
    BY <2>1 DEF PauseInv, PauseHasOwner
  <2> QED
    BY <2>1, <2>2 DEF PauseInv, PauseHasOwner, NoLostWakeup, Isolating
<1>4. ASSUME NEW e \in Executions, Cancel(e) \/ WatcherCancel(e) \/ WatcherDone(e)
      PROVE  PauseInv'
  BY <1>4, QuietKeepsPause DEF Cancel, WatcherCancel, WatcherDone
<1>5. ASSUME NEW r \in Reports, NEW c \in Cabins, PauseForFault(r, c) PROVE PauseInv'
  <2>1. /\ \A q \in Reports : Isolating(q) => Isolating(q)' /\ rcabin'[q] = rcabin[q]
        /\ UNCHANGED waiters
    BY <1>5 DEF PauseForFault, Isolating, TypeOK
  <2>2. CASE Conflicts(c)
    <3>1. Isolating(r)' /\ rcabin'[r] = c /\ bsPauseCabin' = c
      BY <1>5, <2>2 DEF PauseForFault, Isolating, Conflicts, TypeOK
    <3> QED
      BY <2>1, <3>1 DEF PauseInv, PauseHasOwner, NoLostWakeup
  <2>3. CASE ~Conflicts(c)
    <3>1. UNCHANGED <<bsPaused, bsPauseCabin>>
      BY <1>5, <2>3 DEF PauseForFault
    <3> QED
      BY <2>1, <3>1 DEF PauseInv, PauseHasOwner, NoLostWakeup
  <2> QED
    BY <2>2, <2>3
<1>6. ASSUME NEW r \in Reports, LockCabin(r) PROVE PauseInv'
  <2>1. /\ \A q \in Reports : Isolating(q) => Isolating(q)'
        /\ UNCHANGED <<waiters, bsPaused, bsPauseCabin, rcabin>>
    BY <1>6 DEF LockCabin, Isolating, TypeOK
  <2> QED
    BY <2>1 DEF PauseInv, PauseHasOwner, NoLostWakeup
<1>7. ASSUME NEW r \in Reports, ResumeStartup(r) PROVE PauseInv'
  BY <1>7 DEF ResumeStartup, PauseInv, PauseHasOwner, NoLostWakeup
<1>8. ASSUME NEW o \in Operators,
             \/ \E plan \in Plans : Request(o, plan)
             \/ \E id \in BlackStartIDs :
                   \/ \E role \in Roles, p \in Principals \cup {Nobody} :
                         AuthorizeBlackStart(o, id, role, p)
                   \/ RollbackBlackStart(o, id)
             \/ SaveDraft(o)
      PROVE  PauseInv'
  BY <1>8, QuietKeepsPause
     DEF Request, AuthorizeBlackStart, RollbackBlackStart, SaveDraft
<1>9. CASE UNCHANGED vars
  BY <1>9, QuietKeepsPause DEF vars
<1> QED
  BY <1>1, <1>2, <1>3, <1>4, <1>5, <1>6, <1>7, <1>8, <1>9 DEF Next, AllReturned

\* The pause flag is never left set: whatever calls overlap and whatever is
\* cancelled, a report on that cabin is still going to clear it.
THEOREM PauseReleased == Spec => []PauseHasOwner
<1>1. Init => PauseInv
  BY DEF Init, PauseInv, PauseHasOwner, NoLostWakeup
<1>2. PauseInv => PauseHasOwner
  BY DEF PauseInv
<1> QED
  BY <1>1, <1>2, NextKeepsPause, TypeCorrect, PTL DEF Spec

\* An execution asleep on the condition variable always has a report that is
\* going to broadcast.
THEOREM WakeupNotLost == Spec => []NoLostWakeup
<1>1. Init => PauseInv
  BY DEF Init, PauseInv, PauseHasOwner, NoLostWakeup
<1>2. PauseInv => NoLostWakeup
  BY DEF PauseInv
<1> QED
  BY <1>1, <1>2, NextKeepsPause, TypeCorrect, PTL DEF Spec

=============================================================================
