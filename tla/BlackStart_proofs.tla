-------------------------- MODULE BlackStart_proofs --------------------------
(***************************************************************************)
(* Facts about the methods of a black-start record, for every record and   *)
(* every set of cabins and principals.                                     *)
(***************************************************************************)
EXTENDS BlackStart, WellFoundedInduction, TLAPS

\* The cabin the loop takes up next is one of the plan that is not decided.
LEMMA NextCabinUndecided ==
    ASSUME NEW b \in BlackStartRecord, Remaining(b) # {}
    PROVE  /\ NextCabin(b) \in Cabins
           /\ NextCabin(b) \in Participants(b)
           /\ NextCabin(b) \notin b.started \cup b.excluded
<1> DEFINE Less == {ss \in Nat \X Nat : ss[1] < ss[2]}
<1>1. Remaining(b) \subseteq Nat
  BY DEF Remaining
<1>2. IsWellFoundedOn(Less, Nat)
  BY NatLessThanWellFounded DEF OpToRel
<1>3. PICK i \in Remaining(b) : \A j \in Remaining(b) : i <= j
  <2>1. PICK i \in Remaining(b) : \A j \in Remaining(b) : <<j, i>> \notin Less
    BY <1>1, <1>2, WFMin
  <2>2. ASSUME NEW j \in Remaining(b) PROVE i <= j
    <3>1. j \in Nat /\ i \in Nat
      BY <1>1
    <3>2. <<j, i>> \in Less <=> j < i
      BY <3>1
    <3> QED
      BY <2>1, <3>1, <3>2
  <2> QED
    BY <2>2
<1>4. PICK k \in Remaining(b) : NextCabin(b) = b.cabins[k]
  BY <1>3 DEF NextCabin
<1>5. b.cabins \in Seq(Cabins) /\ k \in 1..Len(b.cabins)
  BY <1>4 DEF Remaining, BlackStartRecord
<1>6. b.cabins[k] \notin b.started \cup b.excluded
  BY <1>4 DEF Remaining
<1> QED
  BY <1>4, <1>5, <1>6 DEF Participants

\* A black start has no remaining position exactly when all its cabins are
\* decided, however often the list names a cabin.
LEMMA NoneRemaining ==
    ASSUME NEW b \in BlackStartRecord
    PROVE  Remaining(b) = {} <=> Participants(b) \subseteq b.started \cup b.excluded
BY DEF Remaining, Participants, BlackStartRecord

\* Every method keeps a record a record.
LEMMA MethodsTyped ==
    ASSUME NEW b \in BlackStartRecord
    PROVE  /\ BeginExecution(b) \in BlackStartRecord
           /\ Pause(b) \in BlackStartRecord
           /\ Resume(b) \in BlackStartRecord
           /\ Complete(b) \in BlackStartRecord
           /\ Rollback(b) \in BlackStartRecord
           /\ [b EXCEPT !.state = Torn] \in BlackStartRecord
           /\ \A c \in Cabins : /\ MarkCabinStarted(b, c) \in BlackStartRecord
                                /\ MarkCabinExcluded(b, c) \in BlackStartRecord
BY DEF BeginExecution, Pause, Resume, Complete, Rollback, MarkCabinStarted,
       MarkCabinExcluded, BlackStartRecord, BlackStartState

LEMMA NewBlackStartTyped ==
    ASSUME NEW plan \in Seq(Cabins)
    PROVE  NewBlackStart(plan) \in BlackStartRecord
BY DEF NewBlackStart, BlackStartRecord, BlackStartState

LEMMA AuthorizeTyped ==
    ASSUME NEW b \in BlackStartRecord, NEW role \in Roles,
           NEW p \in Principals \cup {Nobody}
    PROVE  Authorize(b, role, p) \in BlackStartRecord
BY DEF Authorize, BlackStartRecord, BlackStartState

=============================================================================
