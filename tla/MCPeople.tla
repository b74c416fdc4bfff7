------------------------------ MODULE MCPeople -----------------------------
(* Instances of the parts about people: signing in, email addresses, roles, *)
(* merging accounts, training and cmi5 courses.  They share no state the    *)
(* properties speak of, save training and courses, so a behaviour is of one *)
(* part; courses run on top of training.                                    *)
EXTENDS Login, Emails, Roles, Merging, Cmi5, TLC

CONSTANTS b1, b2, p1, p2, wrong, t1, k1, r1, l1, l2, c1, c2,   \* browsers, passwords, factors, codes and links
          u1, u2, a1, a2,                                      \* accounts and addresses
          v1, v2, admin, guest, custom, d1, d2,                \* staff, roles and desks
          q1, q2, q3, card1, card2, code1, row1, key1, door1,  \* accounts that merge and what is theirs
          s1, au1, g1, begin, low, pass, fail, end             \* a step, a unit, a launch and its statements

CONSTANTS MaxCourseSteps, MaxCourseDay    \* bounds: training's requests and clock while courses run

VARIABLE part       \* the part that runs

partVars == <<loginVars, emailVars, rolesVars, mergeVars, trainingVars, cmi5Vars, part>>

LevelsOf == q1 :> 0 @@ q2 :> 1 @@ q3 :> 2
NamesOf == q1 :> 0 @@ q2 :> 1 @@ q3 :> 2
TermsM == {-1, 0, 1}
Said(v, c, n) == [verb |-> v, counts |-> c, score |-> n]
SaysM ==
    begin :> Said("initialized", FALSE, 0) @@ low :> Said("passed", TRUE, 0)
    @@ pass :> Said("passed", TRUE, 1) @@ fail :> Said("failed", TRUE, 0) @@ end :> Said("terminated", FALSE, 0)
MoveOnM == au1 :> "CompletedOrPassed"

Init ==
    /\ part \in {"login", "emails", "roles", "merging", "training", "courses"}
    /\ LoginInit /\ (part # "login" => ~ account.enrolled)
    /\ EmailsInit /\ (part # "emails" => mailOn)
    /\ RolesInit
    /\ MergingInit
    /\ TrainingInit /\ (part # "training" => tool = [locked |-> FALSE, requires_training |-> TRUE])
    /\ CoursesInit

\* The part that runs takes its steps, the others rest.
Next ==
    /\ UNCHANGED part
    /\ \/ /\ part = "login" /\ LoginNext
          /\ UNCHANGED <<emailVars, rolesVars, mergeVars, trainingVars, cmi5Vars>>
       \/ /\ part = "emails" /\ EmailsNext
          /\ UNCHANGED <<loginVars, rolesVars, mergeVars, trainingVars, cmi5Vars>>
       \/ /\ part = "roles" /\ RolesNext
          /\ UNCHANGED <<loginVars, emailVars, mergeVars, trainingVars, cmi5Vars>>
       \/ /\ part = "merging" /\ MergingNext
          /\ UNCHANGED <<loginVars, emailVars, rolesVars, trainingVars, cmi5Vars>>
       \/ /\ part = "training" /\ TrainingNext
          /\ UNCHANGED <<loginVars, emailVars, rolesVars, mergeVars, cmi5Vars>>
       \/ /\ part = "courses" /\ Cmi5Next /\ trained' <= MaxCourseSteps /\ today' <= MaxCourseDay
          /\ UNCHANGED <<loginVars, emailVars, rolesVars, mergeVars>>

Spec == Init /\ [][Next]_partVars
=============================================================================
