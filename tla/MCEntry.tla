------------------------------ MODULE MCEntry ------------------------------
(* Instances of the two ways in: doors and access to tools.  Each has its   *)
(* own snapshots and its own topics, so a behaviour is of one of them.      *)
EXTENDS Doors, Access, TLC

CONSTANTS u1, k1, k2, t1, room1, e1, plug   \* a member, cards, a tool, a room, an edge and a plug

VARIABLE part       \* the part that runs

partVars == <<doorVars, accessVars, part>>

\* Windows that touch, one that begins later and one that ends sooner, on a day when the wall clock goes from minute 1
\* to 4 and on one when it goes through 0 and 1 twice.
PlansM == {{<<0, 1>>, <<1, 2>>}, {<<1, 3>>}, {<<0, 1>>}}
ZonesM == {[at |-> 2, shift |-> 2], [at |-> 2, shift |-> -2]}
HolderM == k1 :> u1
DoorCardHolderM == k1 :> u1 @@ k2 :> u1
DeclaresM == e1 :> {"edge"} @@ plug :> {"power"}

Init ==
    /\ part \in {"doors", "access"}
    /\ DoorsInit /\ (part # "doors" => zone = CHOOSE z \in Zones : TRUE)
    /\ AccessInit

\* The part that runs takes its steps, the others rest.
Next ==
    /\ UNCHANGED part
    /\ \/ /\ part = "doors" /\ DoorsNext
          /\ UNCHANGED <<accessVars>>
       \/ /\ part = "access" /\ AccessNext
          /\ UNCHANGED <<doorVars>>

\* What each part relies on, while it runs.
Fairness ==
    /\ WF_doorVars(part = "doors" /\ HandlersPublish)
    /\ WF_doorVars(part = "doors" /\ TickerReads)
    /\ WF_doorVars(part = "doors" /\ TickerPublishes)
    /\ WF_doorVars(part = "doors" /\ EdgeApplies)
    /\ WF_accessVars(part = "access" /\ policy)
    /\ \A kind \in {"policy", "doors"} : WF_accessVars(part = "access" /\ SendsOf(kind))
    /\ WF_accessVars(part = "access" /\ PolicyComes)
    /\ WF_accessVars(part = "access" /\ AliasComes)

Spec == Init /\ [][Next]_partVars /\ Fairness

-----------------------------------------------------------------------------
(* The properties of liveness, each of the behaviours in which its part runs. *)

\* Once edits of doors, rules and schedules stop, the edge of a door comes to decide by the rules as they are
\* (compile_state_for), though pushes are lost, overtake each other or carry what was read before an edit.
DoorsEdgeCatchesUp == part = "doors" => EdgeCatchesUp

\* The edge's doors lose an edit only to a payload that was being built when it was made (build_resource_policy,
\* compile_state_for: stamped last), and once the tables rest the edge's lists and doors come to be those of the tables.
AccessCopiesConverge == DoorsLoseOnlyConcurrentEdits /\ (part = "access" => EdgeLearnsWhoMay)
=============================================================================
