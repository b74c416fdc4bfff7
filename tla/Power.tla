------------------------------- MODULE Power --------------------------------
(***************************************************************************)
(* Circuits, outlets and receptacles, the draw reported on them, and the   *)
(* lockouts that follow from it, at the server and at the edge (server/src/*)
(* api/power.rs, the power handlers of api/toolguard.rs, database.rs,      *)
(* edge/src/power.rs and handle_power of edge/src/mqtt.rs).                *)
(*                                                                         *)
(* Posts to the server may be lost or overtaken, and so may the snapshots  *)
(* it pushes; the edge also polls.  What a tool draws is the environment's.*)
(***************************************************************************)
EXTENDS Integers, FiniteSets, FiniteSetsExt

CONSTANTS
    Circuits, Outlets, Receptacles, PoweredTools,
    Limits, Amps,               \* values of amperage_limit and of a draw
    Wirings,                    \* the topologies the check starts from
    PowerEnabled,               \* power.enabled
    MaxPowerEdits, MaxPowerLost, MaxSnaps   \* bounds

ASSUME PowerAssumption == Limits \subseteq Nat \ {0} /\ Amps \subseteq Nat /\ PowerEnabled \in BOOLEAN

VARIABLES
    circuits,   \* power_circuits: id :> [parent, limit, locked]
    outlets,    \* power_outlets: id :> circuit
    receptacles,\* power_receptacles: id :> outlet
    plugged,    \* tools.receptacle_id
    powerState, \* tool_power_state: [draw, locked]
    amps,       \* what each tool draws, and whether its module has tripped
    posts, snaps,   \* requests on their way to the server, snapshots on their way to the edge
    edgeSnap, latestDraw, localTripped,   \* the edge's PowerState
    powerEdits, powerLost
powerTables == <<circuits, outlets, receptacles, plugged>>
powerEdge == <<edgeSnap, latestDraw, localTripped>>
powerVars == <<powerTables, powerState, amps, posts, snaps, powerEdge, powerEdits, powerLost>>

Unset == "unset"
NoReading == -1

PowerInit ==
    /\ \E w \in Wirings : circuits = w.circuits /\ outlets = w.outlets /\ receptacles = w.receptacles
                          /\ plugged = [t \in PoweredTools |-> IF t \in DOMAIN w.plugged THEN w.plugged[t] ELSE Unset]
    /\ powerState = [t \in PoweredTools |-> [draw |-> NoReading, locked |-> FALSE]]
    /\ (\E a \in Amps : amps = [t \in PoweredTools |-> [draw |-> a, tripped |-> FALSE]])
    /\ posts = {} /\ snaps = {}
    /\ edgeSnap = {} /\ latestDraw = [t \in PoweredTools |-> NoReading] /\ localTripped = {}
    /\ powerEdits = 0 /\ powerLost = 0

-----------------------------------------------------------------------------
(* Reading the tables. *)

tool_circuit(t) ==
    IF plugged[t] \in DOMAIN receptacles /\ receptacles[plugged[t]] \in DOMAIN outlets
    THEN outlets[receptacles[plugged[t]]] ELSE Unset

\* The chain above a circuit.  (The code refuses an edit below a chain of more than 32.)
above(cs, c) ==
    LET up(d) == IF d \in DOMAIN cs THEN {cs[d].parent} \ {Unset} ELSE {}
    IN  {d \in Circuits : \A S \in SUBSET Circuits : up(c) \subseteq S /\ (\A x \in S : up(x) \subseteq S) => d \in S}
power_circuit_ancestors(c) == above(circuits, c)

IsAForest(cs) == \A c \in DOMAIN cs : cs[c].parent \in DOMAIN cs \cup {Unset} /\ c \notin above(cs, c)
Breakers == [parent : Circuits \cup {Unset}, limit : Nat, locked : BOOLEAN]
ASSUME WiringsAssumption == Unset \notin Circuits /\ \A w \in Wirings :
    DOMAIN w.circuits \subseteq Circuits /\ w.circuits \in [DOMAIN w.circuits -> Breakers] /\ IsAForest(w.circuits)

\* Of the states the report has just been written to.
sum_draw_per_circuit(states, c) == MapThenSumSet(LAMBDA t : states[t].draw,
    {t \in PoweredTools : tool_circuit(t) = c /\ states[t].draw # NoReading})
circuit_draw_totals(states) == [c \in DOMAIN circuits |-> sum_draw_per_circuit(states, c)]
overloaded_circuits(totals) ==
    {c \in DOMAIN circuits : ~ circuits[c].locked /\ totals[c] > circuits[c].limit}

tool_is_locked_out(t) ==
    \/ powerState[t].locked
    \/ tool_circuit(t) \in DOMAIN circuits /\ circuits[tool_circuit(t)].locked

power_state_snapshot == [locked |-> {t \in PoweredTools : tool_is_locked_out(t)},
                         circuitOf |-> [t \in PoweredTools |-> tool_circuit(t)],
                         limits |-> [c \in DOMAIN circuits |-> circuits[c].limit]]

\* A push to the edge, which the broker may lose.
broadcast_power_state ==
    \/ Cardinality(snaps) < MaxSnaps /\ snaps' = snaps \cup {power_state_snapshot'}
    \/ UNCHANGED snaps

-----------------------------------------------------------------------------
(* Administrators edit the topology.  None of these pushes a snapshot.     *)

\* Asked before all but deletions.
require_power_enabled == PowerEnabled
TopologyEdit ==
    /\ powerEdits < MaxPowerEdits /\ powerEdits' = powerEdits + 1
    /\ UNCHANGED <<powerState, amps, posts, snaps, powerEdge, powerLost>>
With(f, k, v) == [x \in DOMAIN f \cup {k} |-> IF x = k THEN v ELSE f[x]]
Without(f, k) == [x \in DOMAIN f \ {k} |-> f[x]]

create_circuit(c, up, limit) ==
    /\ require_power_enabled /\ TopologyEdit /\ c \notin DOMAIN circuits /\ up \in DOMAIN circuits \cup {Unset}
    /\ circuits' = With(circuits, c, [parent |-> up, limit |-> limit, locked |-> FALSE])
    /\ UNCHANGED <<outlets, receptacles, plugged>>
no_cycle(c, up) == up # c /\ up \in DOMAIN circuits /\ c \notin power_circuit_ancestors(up)
\* The parent stays or becomes another circuit: a null is read as a field that is absent.
update_circuit(c, up, limit) ==
    /\ require_power_enabled /\ TopologyEdit /\ c \in DOMAIN circuits /\ (up = circuits[c].parent \/ no_cycle(c, up))
    /\ circuits' = [circuits EXCEPT ![c].parent = up, ![c].limit = limit]
    /\ UNCHANGED <<outlets, receptacles, plugged>>
delete_circuit(c) ==
    /\ TopologyEdit /\ c \in DOMAIN circuits
    /\ \A d \in DOMAIN circuits : circuits[d].parent # c
    /\ \A o \in DOMAIN outlets : outlets[o] # c
    /\ circuits' = Without(circuits, c) /\ UNCHANGED <<outlets, receptacles, plugged>>

create_outlet(o, c) ==
    /\ require_power_enabled /\ TopologyEdit /\ o \notin DOMAIN outlets /\ c \in DOMAIN circuits
    /\ outlets' = With(outlets, o, c) /\ UNCHANGED <<circuits, receptacles, plugged>>
update_outlet(o, c) ==
    /\ require_power_enabled /\ TopologyEdit /\ o \in DOMAIN outlets /\ c \in DOMAIN circuits
    /\ outlets' = [outlets EXCEPT ![o] = c] /\ UNCHANGED <<circuits, receptacles, plugged>>
\* Refused by the foreign key of a receptacle.
delete_outlet(o) ==
    /\ TopologyEdit /\ o \in DOMAIN outlets /\ \A r \in DOMAIN receptacles : receptacles[r] # o
    /\ outlets' = Without(outlets, o) /\ UNCHANGED <<circuits, receptacles, plugged>>

create_receptacle(r, o) ==
    /\ require_power_enabled /\ TopologyEdit /\ r \notin DOMAIN receptacles /\ o \in DOMAIN outlets
    /\ receptacles' = With(receptacles, r, o) /\ UNCHANGED <<circuits, outlets, plugged>>
update_receptacle(r, o) ==
    /\ require_power_enabled /\ TopologyEdit /\ r \in DOMAIN receptacles /\ o \in DOMAIN outlets
    /\ receptacles' = [receptacles EXCEPT ![r] = o] /\ UNCHANGED <<circuits, outlets, plugged>>
\* tools.receptacle_id is set null.
delete_receptacle(r) ==
    /\ TopologyEdit /\ r \in DOMAIN receptacles /\ receptacles' = Without(receptacles, r)
    /\ plugged' = [t \in PoweredTools |-> IF plugged[t] = r THEN Unset ELSE plugged[t]]
    /\ UNCHANGED <<circuits, outlets>>

assign_tool_receptacle(t, r) ==
    /\ require_power_enabled /\ TopologyEdit /\ r \in DOMAIN receptacles \cup {Unset}
    /\ r # Unset => \A v \in PoweredTools \ {t} : plugged[v] # r      \* uq_tools_receptacle
    /\ plugged' = [plugged EXCEPT ![t] = r] /\ UNCHANGED <<circuits, outlets, receptacles>>

-----------------------------------------------------------------------------
(* Lockouts. *)

engage_circuit_lockout(cs) == [c \in DOMAIN circuits |->
    IF c \in cs THEN [circuits[c] EXCEPT !.locked = TRUE] ELSE circuits[c]]
engage_tool_lockout(states, t) == [states EXCEPT ![t].locked = TRUE]
clear_circuit_lockout(c) == [circuits EXCEPT ![c].locked = FALSE]
clear_tool_lockout(t) == [powerState EXCEPT ![t].locked = FALSE]
upsert_tool_power_state(t, draw) == [powerState EXCEPT ![t].draw = draw]

reenable_circuit(c) ==
    /\ require_power_enabled /\ powerEdits < MaxPowerEdits /\ powerEdits' = powerEdits + 1
    /\ c \in DOMAIN circuits /\ circuits' = clear_circuit_lockout(c)
    /\ UNCHANGED <<outlets, receptacles, plugged, powerState, amps, posts, powerEdge, powerLost>>
    /\ broadcast_power_state
reenable_tool(t) ==
    /\ require_power_enabled /\ powerEdits < MaxPowerEdits /\ powerEdits' = powerEdits + 1
    /\ powerState' = clear_tool_lockout(t)
    /\ UNCHANGED <<powerTables, amps, posts, powerEdge, powerLost>>
    /\ broadcast_power_state

\* The totals are read after the reading is stored; a self-trip locks the tool and evaluates nothing.
evaluate_circuit_overages == engage_circuit_lockout(overloaded_circuits(circuit_draw_totals(powerState')))
power_report(m) ==
    /\ m \in posts /\ m.kind = "report" /\ posts' = posts \ {m}
    /\ IF m.tripped
       THEN /\ powerState' = engage_tool_lockout(upsert_tool_power_state(m.tool, m.draw), m.tool)
            /\ UNCHANGED <<powerTables, amps, powerEdge, powerEdits, powerLost>> /\ broadcast_power_state
       ELSE /\ powerState' = upsert_tool_power_state(m.tool, m.draw)
            /\ UNCHANGED <<outlets, receptacles, plugged, amps, powerEdge, powerEdits, powerLost>>
            /\ circuits' = evaluate_circuit_overages
            /\ IF circuits' # circuits THEN broadcast_power_state ELSE UNCHANGED snaps
power_trip(m) ==
    /\ m \in posts /\ m.kind = "trip" /\ posts' = posts \ {m}
    /\ circuits' = engage_circuit_lockout({m.circuit})
    /\ UNCHANGED <<outlets, receptacles, plugged, powerState, amps, powerEdge, powerEdits, powerLost>>
    /\ IF circuits' # circuits THEN broadcast_power_state ELSE UNCHANGED snaps

\* The edge's poll, answered; the answer is applied later.
power_state ==
    /\ Cardinality(snaps) < MaxSnaps /\ snaps' = snaps \cup {power_state_snapshot}
    /\ UNCHANGED <<powerTables, powerState, amps, posts, powerEdge, powerEdits, powerLost>>

-----------------------------------------------------------------------------
(* The edge. *)

circuit_locked(s, c) ==
    LET on == {t \in PoweredTools : s.circuitOf[t] = c} IN on # {} /\ on \subseteq s.locked
TripsKept(s) == localTripped
retained(s) == {c \in localTripped : circuit_locked(s, c)}
apply_state(s) ==
    /\ s \in snaps /\ snaps' = snaps \ {s}
    /\ localTripped' = retained(s) /\ edgeSnap' = {s}
    /\ UNCHANGED <<powerTables, powerState, amps, posts, latestDraw, powerEdits, powerLost>>

is_locked(t) == \E s \in edgeSnap : t \in s.locked \/ s.circuitOf[t] \in localTripped

record_draw(t) == latestDraw' = [latestDraw EXCEPT ![t] = amps[t].draw]
\* Circuits over their limit by what the edge has heard, one already tripped left out.
evaluate_overages == UNION {{c \in DOMAIN s.limits :
    /\ c \notin localTripped
    /\ MapThenSumSet(LAMBDA t : latestDraw'[t],
           {t \in PoweredTools : s.circuitOf[t] = c /\ latestDraw'[t] # NoReading}) > s.limits[c]} : s \in edgeSnap}
mark_tripped(cs) == localTripped' = localTripped \cup cs

\* A module's report: its draw recorded, circuits over the limit tripped, and the posts sent off (an earlier
\* report of the same tool still under way is taken as lost).
handle_power(t) ==
    /\ record_draw(t)
    /\ LET over == evaluate_overages
           out  == {[kind |-> "trip", circuit |-> c] : c \in over}
                   \cup {[kind |-> "report", tool |-> t, draw |-> amps[t].draw, tripped |-> amps[t].tripped]}
       IN  mark_tripped(over) /\ posts' = {m \in posts : m.kind = "report" => m.tool # t} \cup out
    /\ UNCHANGED <<powerTables, powerState, amps, snaps, edgeSnap, powerEdits, powerLost>>

\* The environment: what a tool draws, whether its module trips, and what is lost.
Draws(t, a, trip) ==
    /\ powerEdits < MaxPowerEdits /\ powerEdits' = powerEdits + 1
    /\ amps[t] # [draw |-> a, tripped |-> trip]
    /\ amps' = [amps EXCEPT ![t] = [draw |-> a, tripped |-> trip]]
    /\ UNCHANGED <<powerTables, powerState, posts, snaps, powerEdge, powerLost>>
PostLost(m) ==
    /\ m \in posts /\ posts' = posts \ {m} /\ powerLost < MaxPowerLost /\ powerLost' = powerLost + 1
    /\ UNCHANGED <<powerTables, powerState, amps, snaps, powerEdge, powerEdits>>

-----------------------------------------------------------------------------
PowerNext ==
    \/ \E c \in Circuits, up \in Circuits \cup {Unset}, limit \in Limits :
           create_circuit(c, up, limit) \/ update_circuit(c, up, limit)
    \/ \E c \in Circuits : delete_circuit(c) \/ reenable_circuit(c)
    \/ \E o \in Outlets : delete_outlet(o) \/ \E c \in Circuits : create_outlet(o, c) \/ update_outlet(o, c)
    \/ \E r \in Receptacles : delete_receptacle(r) \/ \E o \in Outlets : create_receptacle(r, o) \/ update_receptacle(r, o)
    \/ \E t \in PoweredTools : reenable_tool(t) \/ \E r \in Receptacles \cup {Unset} : assign_tool_receptacle(t, r)
    \/ \E m \in posts : power_report(m) \/ power_trip(m) \/ PostLost(m)
    \/ power_state
    \/ \E s \in snaps : apply_state(s)
    \/ \E t \in PoweredTools : handle_power(t) \/ \E a \in Amps, trip \in BOOLEAN : Draws(t, a, trip)

\* Modules report on a timer and the edge polls on one; losses come to an end.
PowerFairness ==
    /\ WF_powerVars(power_state) /\ WF_powerVars(\E s \in snaps : apply_state(s))
    /\ \A t \in PoweredTools : /\ WF_powerVars(handle_power(t))
                               /\ WF_powerVars(\E m \in posts : m.kind = "report" /\ m.tool = t /\ power_report(m))
    /\ \A c \in Circuits : WF_powerVars(\E m \in posts : m.kind = "trip" /\ m.circuit = c /\ power_trip(m))
PowerSpec == PowerInit /\ [][PowerNext]_powerVars /\ PowerFairness

-----------------------------------------------------------------------------
(* Properties. *)

\* No circuit is upstream of itself, whatever sequence of re-parentings staff make: the walks over the hierarchy end.
CircuitsFormAForest == IsAForest(circuits)

\* Once staff and the tools leave things alone, a circuit on which more is drawn than its limit has its tools
\* locked out, though posts got lost, staff re-enabled it too early, or a stale snapshot made the edge forget its trip.
Overdrawn(c) == MapThenSumSet(LAMBDA t : amps[t].draw, {t \in PoweredTools : tool_circuit(t) = c}) > circuits[c].limit
OverdrawnIsLocked == <>[](\A c \in DOMAIN circuits : Overdrawn(c) =>
    \A t \in PoweredTools : tool_circuit(t) = c => tool_is_locked_out(t))

\* And the edge comes to refuse the tools the server has locked and no other, though pushes are lost and
\* overtake each other and re-enabling is told only by a snapshot that no longer has the lock.
EdgeAgreesOnLocks == <>[](\A t \in PoweredTools : is_locked(t) = tool_is_locked_out(t))
=============================================================================
