---------------------------- MODULE MCBlackStart ----------------------------
(* Constants of BlackStartExecution for TLC.                               *)
EXTENDS ExecutionRefinement, TLC

CONSTANTS c1, c2, c3, b1, b2, e1, e2

\* One call for each black start.
TargetOne == e1 :> b1
TargetDistinct == (e1 :> b1) @@ (e2 :> b2)

\* The same black start executed twice.
TargetSame == (e1 :> b1) @@ (e2 :> b1)

PlansOfThree == {<<c1, c2, c3>>, <<c3, c1, c3>>, <<>>}
PlanOfTwo == {<<c1, c2>>}
PlanOne == {<<c1>>}

=============================================================================
