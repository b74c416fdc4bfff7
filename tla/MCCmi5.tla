------------------------------- MODULE MCCmi5 -------------------------------
(* An instance of Cmi5 for TLC: one learner, one training step that expires *)
(* after a day or never, and a course with one unit.                        *)
EXTENDS Cmi5, TLC

CONSTANTS u1, s1, au1, g1, begin, low, pass, fail, end

\* A step's retraining interval; -1 is none.
TermsM == {-1, 1}
Said(v, c, n) == [verb |-> v, counts |-> c, score |-> n]
SaysM ==
    begin :> Said("initialized", FALSE, 0) @@ low :> Said("passed", TRUE, 0)
    @@ pass :> Said("passed", TRUE, 1) @@ fail :> Said("failed", TRUE, 0)
    @@ end :> Said("terminated", FALSE, 0)
MoveOnM == au1 :> "CompletedOrPassed"
=============================================================================
