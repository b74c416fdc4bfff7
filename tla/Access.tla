------------------------------- MODULE Access -------------------------------
(***************************************************************************)
(* Who may use a tool: the tables staff edit, the decision the server      *)
(* takes from them, the policy compiled from them for one edge device, and *)
(* the decision that device takes from the last policy it applied          *)
(* (server/src/api/tools.rs, tool_modules.rs, tool_tiers.rs, resources.rs, *)
(* toolguard.rs, database.rs, tool_billing.rs, edge/src/resources.rs).     *)
(*                                                                         *)
(* A policy is read, in one step, and stamped and sent in a later one, so  *)
(* that what it holds may be older than its stamp says.  A stamp is the    *)
(* number of edits before it; two that are equal count as either order.    *)
(* Rooms are doors with sessions; their rules and snapshots are in Doors   *)
(* and reach this module as an edition.  Training, locks and membership    *)
(* are inputs, and billing is prepaid: what a session may cost is its      *)
(* rate.  A card code is known to one person.                              *)
(***************************************************************************)
EXTENDS Integers, FiniteSets

CONSTANTS
    People, CardCodes, HolderOf,    \* HolderOf[code], a person
    Shop, Rooms,                    \* ids of tools and of doors
    Edge, Gear, Declares,           \* the edge, all devices, the roles a device declares
    OnlineSync,                     \* actuation_mode is online_synchronous
    MaxAccessSteps, MaxAccessLost, MaxWire  \* bounds

ASSUME AccessAssumption == Edge \in Gear /\ OnlineSync \in BOOLEAN /\ HolderOf \in [CardCodes -> People]

VARIABLES
    persons,        \* users: active, funds (available balance)
    codes,          \* user_cards and the legacy profile field, by code
    shop,           \* tools: {} or the row in a set
    tiers,          \* tool_rate_tiers: pairs <<tool, rate>>
    tierOf,         \* tool_tier_assignments: {} or the tier's rate in a set
    qualified, lockedOut,           \* training done or waived; power lockouts
    openHours,      \* whether the schedule tools refer to is open
    gearAt,         \* device_bindings: [dev, res, role]
    interlockRows,  \* tool_interlocks: [tool, source], source {} or a binding in a set
    roomProfile, roomSession,       \* resources.session_profile, resource_sessions open
    doorEdition,    \* how often the doors' rules changed
    policyDue,      \* a broadcast was requested and not yet published
    building,       \* payloads read and not yet stamped
    wire,           \* payloads on their way to the edge
    cache,          \* the edge's Policy, and (history) the doors there were at its stamp
    accessSteps, accessLost
accessVars == <<persons, codes, shop, tiers, tierOf, qualified, lockedOut, openHours, gearAt, interlockRows,
                roomProfile, roomSession, doorEdition, policyDue, building, wire, cache, accessSteps, accessLost>>
toolTables == <<shop, tiers, tierOf, gearAt, interlockRows>>
roomTables == <<roomProfile, roomSession, doorEdition>>
inputs == <<persons, codes, qualified, lockedOut, openHours>>
edgeSide == <<building, wire, cache, accessLost>>

Rates == {0, 1}
Statuses == {"idle", "in_use", "maintenance", "retired"}   \* broken and repair are refused as maintenance is
Resources == Shop \cup Rooms
ToolRow == [status : Statuses, requires_training : BOOLEAN, scheduled : BOOLEAN, rate : Rates]
Profiles == {"momentary", "until_stopped"}
NoPolicy == [tools |-> {}, members |-> {}, doors |-> 0, applied_at |-> -1, doorsAtStamp |-> 0]

AccessInit ==
    /\ persons = [p \in People |-> [active |-> TRUE, funds |-> 1]]
    /\ codes = [k \in CardCodes |-> [card |-> "active", legacy |-> FALSE]]
    /\ shop = [t \in Shop |-> {[status |-> "idle", requires_training |-> FALSE, scheduled |-> FALSE, rate |-> 0]}]
    /\ tiers = {} /\ tierOf = [pt \in People \X Shop |-> {}]
    /\ qualified = {} /\ lockedOut = {} /\ openHours = TRUE
    /\ gearAt = {[dev |-> Edge, res |-> t, role |-> "edge"] : t \in Shop} /\ interlockRows = {}
    /\ roomProfile = [r \in Rooms |-> "momentary"] /\ roomSession = {} /\ doorEdition = 0
    /\ policyDue = FALSE /\ building = {} /\ wire = {} /\ cache = NoPolicy /\ accessSteps = 0 /\ accessLost = 0

Edited == accessSteps < MaxAccessSteps /\ accessSteps' = accessSteps + 1

-----------------------------------------------------------------------------
(* The tables, read. *)

get_tool_by_id(t) == shop[t]
get_inuse_tools == {t \in Shop : \E row \in shop[t] : row.status = "in_use"}
row_of(t) == CHOOSE row \in shop[t] : TRUE

device_is_bound_to_tool(d, r) == \E b \in gearAt : b.dev = d /\ b.res = r
list_tool_modules_for_tool(t) == {b \in gearAt : b.res = t}
resource_kind(r) == (IF r \in Rooms THEN {"door"} ELSE {}) \cup (IF r \in Shop /\ shop[r] # {} THEN {"tool"} ELSE {})
space_device_capabilities(d) == IF d \in Gear THEN {Declares[d]} ELSE {}

\* The member's own rate for the tool: the assigned tier's, else the tool's.
resolve_effective_billing(p, t) == IF tierOf[<<p, t>>] # {} THEN CHOOSE r \in tierOf[<<p, t>>] : TRUE ELSE row_of(t).rate
required_for_rate(rate) == rate
authorizes_rate(rate, available) == rate = 0 \/ available >= required_for_rate(rate)
requires_online(t) == OnlineSync /\ row_of(t).rate # 0
tool_is_metered(t) == row_of(t).rate # 0

\* A tool with training is open to the trained; none without is closed, save for a lockout.
user_is_authorized_for_tool(p, t) ==
    t \notin lockedOut /\ (row_of(t).requires_training => <<p, t>> \in qualified)

closed_tool_ids_now == {t \in Shop : \E row \in shop[t] : row.scheduled /\ ~ openHours}

\* Who a code stands for: the card's row first, then the legacy field.
resolve_card(k) ==
    CASE codes[k].card = "active" -> "active"
      [] codes[k].card = "disabled" -> "revoked"
      [] codes[k].card = "none" /\ codes[k].legacy -> "active"
      [] OTHER -> "unknown"

-----------------------------------------------------------------------------
(* The server's decision on a scan at a tool. *)

authorize_resource(d, r) == resource_kind(r) # {} /\ device_is_bound_to_tool(d, r)

open_session_allowed(p, t) ==
    tool_is_metered(t) =>
        \/ resolve_effective_billing(p, t) = 0
        \/ persons[p].funds >= required_for_rate(resolve_effective_billing(p, t))

server_allows(k, t) ==
    /\ authorize_resource(Edge, t)
    /\ resolve_card(k) = "active" /\ persons[HolderOf[k]].active
    /\ row_of(t).status = "idle"
    /\ user_is_authorized_for_tool(HolderOf[k], t)
    /\ open_session_allowed(HolderOf[k], t)

-----------------------------------------------------------------------------
(* The policy. *)

\* Codes a person is known by: the legacy field's, whatever became of a card, and active cards.
CardsByRow(p) == {k \in CardCodes : HolderOf[k] = p /\ (codes[k].legacy \/ codes[k].card # "none")}
identifiers(p) == {k \in CardCodes : HolderOf[k] = p /\ (codes[k].legacy \/ codes[k].card = "active")}

bound_tools(d) == {t \in Shop : shop[t] # {} /\ device_is_bound_to_tool(d, t)}
authorized_tool_ids(d, p) ==
    {t \in bound_tools(d) : /\ user_is_authorized_for_tool(p, t)
                            /\ authorizes_rate(resolve_effective_billing(p, t), persons[p].funds)}
sync_users(d) ==
    {[code |-> k, is_active |-> persons[HolderOf[k]].active, authorized |-> authorized_tool_ids(d, HolderOf[k])] :
        k \in UNION {identifiers(p) : p \in {q \in People : authorized_tool_ids(d, q) # {}}}}
sync_tools(d) ==
    {[id |-> t, status |-> row_of(t).status, requires_online |-> requires_online(t)] :
        t \in UNION {authorized_tool_ids(d, p) : p \in People}}

build_sync_payload(d) ==
    [users |-> {[u EXCEPT !.authorized = @ \ closed_tool_ids_now] : u \in sync_users(d)},
     tools |-> {t \in sync_tools(d) : t.id \notin closed_tool_ids_now}]

\* What is read for the policy and for the doors snapshot, before they are stamped.
build_resource_policy(d) ==
    [kind |-> "policy", tools |-> build_sync_payload(d).tools, members |-> build_sync_payload(d).users, doors |-> doorEdition]
doors_alias == [kind |-> "doors", tools |-> {}, members |-> {}, doors |-> doorEdition]
\* The stamp, put on after all has been read; beside it, as history, the doors there are by then.
Stamped(b) == [kind |-> b.kind, tools |-> b.tools, members |-> b.members, doors |-> b.doors,
               as_of |-> accessSteps, doorsAtStamp |-> doorEdition]
\* The alias of the lists has no stamp.
sync_alias(d) == [kind |-> "alias", tools |-> build_sync_payload(d).tools, members |-> build_sync_payload(d).users,
                  doors |-> 0, as_of |-> 0, doorsAtStamp |-> 0]

\* Of each kind so many are under way, from their reading to their arrival.
UnderWay(kind) == Cardinality({b \in building : b.kind = kind}) + Cardinality({m \in wire : m.kind = kind})
RoomFor(kind) == UnderWay(kind) < MaxWire

\* GET /api/resources/policy, which the edge asks for from time to time.
policy == /\ RoomFor("policy") /\ building' = building \cup {build_resource_policy(Edge)}
          /\ UNCHANGED <<toolTables, roomTables, inputs, policyDue, wire, cache, accessSteps, accessLost>>

\* The broadcaster's push: the alias is sent (one that is read early and sent late is one long on its way), and the
\* policy read.
publish_to_devices ==
    /\ policyDue /\ policyDue' = FALSE /\ RoomFor("alias") /\ RoomFor("policy")
    /\ wire' = wire \cup {sync_alias(Edge)} /\ building' = building \cup {build_resource_policy(Edge)}
    /\ UNCHANGED <<toolTables, roomTables, inputs, cache, accessSteps, accessLost>>

\* What was read is stamped and sent off.
Sends(b) ==
    /\ b \in building /\ building' = building \ {b} /\ wire' = wire \cup {Stamped(b)}
    /\ UNCHANGED <<toolTables, roomTables, inputs, policyDue, cache, accessSteps, accessLost>>
PayloadSent == \E b \in building : Sends(b)

-----------------------------------------------------------------------------
(* The edge. *)

NeverStale(stamp) == FALSE
is_stale(stamp) == stamp < cache.applied_at

apply_policy(m) ==
    cache' = IF is_stale(m.as_of) THEN cache
             ELSE [tools |-> m.tools, members |-> m.members, doors |-> m.doors, applied_at |-> m.as_of,
                   doorsAtStamp |-> m.doorsAtStamp]
apply_sync_alias(m) == cache' = [cache EXCEPT !.tools = m.tools, !.members = m.members]
apply_doors(m) ==
    cache' = IF is_stale(m.as_of) THEN cache
             ELSE [cache EXCEPT !.doors = m.doors, !.applied_at = m.as_of, !.doorsAtStamp = m.doorsAtStamp]

PolicyComes ==
    \E m \in {x \in wire : x.kind = "policy"} :
        /\ wire' = wire \ {m} /\ apply_policy(m)
        /\ UNCHANGED <<toolTables, roomTables, inputs, policyDue, building, accessSteps, accessLost>>
AliasComes ==
    \E m \in {x \in wire : x.kind # "policy"} :
        /\ wire' = wire \ {m}
        /\ IF m.kind = "alias" THEN apply_sync_alias(m) ELSE apply_doors(m)
        /\ UNCHANGED <<toolTables, roomTables, inputs, policyDue, building, accessSteps, accessLost>>
PayloadGoesMissing ==
    /\ accessLost < MaxAccessLost /\ accessLost' = accessLost + 1
    /\ \E m \in wire : wire' = wire \ {m}
    /\ UNCHANGED <<toolTables, roomTables, inputs, policyDue, building, cache, accessSteps>>

\* decide: the entry's own word first, then the member's.
decide(k, t) ==
    LET entry == {e \in cache.tools : e.id = t}
        member == {m \in cache.members : m.code = k}
    IN  IF \E e \in entry : e.requires_online THEN "ask_server"
        ELSE IF /\ \E m \in member : m.is_active /\ t \in m.authorized
                /\ \E e \in entry : e.status = "idle"
             THEN "allow" ELSE "deny"

-----------------------------------------------------------------------------
(* Tools, at the desk.  None of these handlers asks for a broadcast. *)

db_create_tool(t, row) == shop' = [shop EXCEPT ![t] = {row}]
db_update_tool(t, row) == shop[t] # {} /\ shop' = [shop EXCEPT ![t] = {row}]
update_tool_status(t, status) == shop' = [shop EXCEPT ![t] = {[row_of(t) EXCEPT !.status = status]}]
\* The rows that refer to the tool go with it.
db_delete_tool(t) ==
    /\ shop' = [shop EXCEPT ![t] = {}]
    /\ tiers' = {x \in tiers : x[1] # t}
    /\ tierOf' = [pt \in People \X Shop |-> IF pt[2] = t THEN {} ELSE tierOf[pt]]
    /\ gearAt' = {b \in gearAt : b.res # t} /\ interlockRows' = {i \in interlockRows : i.tool # t}

create_tool(t, row) ==
    /\ Edited /\ shop[t] = {} /\ row.status \notin {"in_use", "retired"} /\ db_create_tool(t, row)
    /\ UNCHANGED <<tiers, tierOf, gearAt, interlockRows, roomTables, inputs, policyDue, edgeSide>>

update_tool(t, row) ==
    /\ Edited /\ db_update_tool(t, row)
    /\ Cardinality({f \in DOMAIN row : row[f] # row_of(t)[f]}) = 1
    /\ UNCHANGED <<tiers, tierOf, gearAt, interlockRows, roomTables, inputs, policyDue, edgeSide>>

change_tool_status(t, status) ==
    /\ Edited /\ get_tool_by_id(t) # {} /\ update_tool_status(t, status)
    /\ UNCHANGED <<tiers, tierOf, gearAt, interlockRows, roomTables, inputs, policyDue, edgeSide>>

delete_tool(t) ==
    /\ Edited /\ get_tool_by_id(t) # {} /\ db_delete_tool(t)
    /\ UNCHANGED <<roomTables, inputs, policyDue, edgeSide>>

-----------------------------------------------------------------------------
(* Rate tiers. *)

get_tier(t, rate) == tiers \cap {<<t, rate>>}
db_create_tier(t, rate) == tiers' = tiers \cup {<<t, rate>>}
\* Assignments refer to the tier, so they follow it, and go with it.
db_update_tier(t, old, new) ==
    /\ tiers' = (tiers \ {<<t, old>>}) \cup {<<t, new>>}
    /\ tierOf' = [pt \in People \X Shop |-> IF pt[2] = t /\ tierOf[pt] = {old} THEN {new} ELSE tierOf[pt]]
db_delete_tier(t, rate) ==
    /\ tiers' = tiers \ {<<t, rate>>}
    /\ tierOf' = [pt \in People \X Shop |-> IF pt[2] = t THEN tierOf[pt] \ {rate} ELSE tierOf[pt]]
upsert_tier_assignment(p, t, rate) == tierOf' = [tierOf EXCEPT ![<<p, t>>] = {rate}]
clear_tier_assignment(p, t) == tierOf' = [tierOf EXCEPT ![<<p, t>>] = {}]

create_tier(t, rate) ==
    /\ Edited /\ get_tool_by_id(t) # {} /\ db_create_tier(t, rate)
    /\ UNCHANGED <<shop, tierOf, gearAt, interlockRows, roomTables, inputs, policyDue, edgeSide>>
update_tier(t, old, new) ==
    /\ Edited /\ get_tier(t, old) # {} /\ get_tier(t, new) = {} /\ db_update_tier(t, old, new)
    /\ UNCHANGED <<shop, gearAt, interlockRows, roomTables, inputs, policyDue, edgeSide>>
delete_tier(t, rate) ==
    /\ Edited /\ get_tier(t, rate) # {} /\ db_delete_tier(t, rate)
    /\ UNCHANGED <<shop, gearAt, interlockRows, roomTables, inputs, policyDue, edgeSide>>
assign_tier(p, t, rate) ==
    /\ Edited /\ get_tier(t, rate) # {} /\ upsert_tier_assignment(p, t, rate)
    /\ UNCHANGED <<shop, tiers, gearAt, interlockRows, roomTables, inputs, policyDue, edgeSide>>
clear_tier(p, t) ==
    /\ Edited /\ tierOf[<<p, t>>] # {} /\ clear_tier_assignment(p, t)
    /\ UNCHANGED <<shop, tiers, gearAt, interlockRows, roomTables, inputs, policyDue, edgeSide>>

-----------------------------------------------------------------------------
(* Bindings and interlocks. *)

create_tool_module(b) == gearAt' = gearAt \cup {b}
create_module(b) ==
    /\ Edited /\ b \notin gearAt
    /\ resource_kind(b.res) # {} /\ \E roles \in space_device_capabilities(b.dev) : b.role \in roles
    /\ create_tool_module(b)
    /\ UNCHANGED <<shop, tiers, tierOf, interlockRows, roomTables, inputs, policyDue, edgeSide>>

\* An interlock that reads the module goes with it.
rules_without(b) == {i \in interlockRows : b \notin i.source}
delete_tool_module(b) == gearAt' = gearAt \ {b} /\ interlockRows' = rules_without(b)
get_device_binding(b) == gearAt \cap {b}
delete_module(b) ==
    /\ Edited /\ get_device_binding(b) # {} /\ delete_tool_module(b)
    /\ UNCHANGED <<shop, tiers, tierOf, roomTables, inputs, policyDue, edgeSide>>

create_tool_interlock(i) == interlockRows' = interlockRows \cup {i}
delete_tool_interlock(i) == interlockRows' = interlockRows \ {i}
create_interlock(t, source) ==
    /\ Edited /\ get_tool_by_id(t) # {} /\ source \subseteq list_tool_modules_for_tool(t)
    /\ [tool |-> t, source |-> source] \notin interlockRows
    /\ create_tool_interlock([tool |-> t, source |-> source])
    /\ UNCHANGED <<shop, tiers, tierOf, gearAt, roomTables, inputs, policyDue, edgeSide>>
delete_interlock(i) ==
    /\ Edited /\ i \in interlockRows /\ delete_tool_interlock(i)
    /\ UNCHANGED <<shop, tiers, tierOf, gearAt, roomTables, inputs, policyDue, edgeSide>>

-----------------------------------------------------------------------------
(* Scans and stops that reach the server, and sessions at rooms. *)

find_resource(r) == resource_kind(r)

activate_tool(k, t) ==
    /\ server_allows(k, t)
    /\ shop' = [shop EXCEPT ![t] = {[row_of(t) EXCEPT !.status = "in_use"]}] /\ policyDue' = TRUE
    /\ UNCHANGED <<tiers, tierOf, gearAt, interlockRows, roomTables, inputs, edgeSide>>
deactivate_tool(t) ==
    /\ shop[t] # {}
    /\ shop' = [shop EXCEPT ![t] = {[row_of(t) EXCEPT !.status = "idle"]}] /\ policyDue' = TRUE
    /\ UNCHANGED <<tiers, tierOf, gearAt, interlockRows, roomTables, inputs, edgeSide>>

\* Whether the door's rules admit the person is in Doors.
get_resource(r) == roomProfile[r]
update_resource_session_profile(r, profile) == roomProfile' = [roomProfile EXCEPT ![r] = profile]
open_resource_sessions == roomSession
open_resource_session(r) == roomSession' = roomSession \cup {r}
close_resource_session(r) == roomSession' = roomSession \ {r}
scan_door(k, r) ==
    /\ resolve_card(k) = "active" /\ persons[HolderOf[k]].active
    /\ IF get_resource(r) = "until_stopped" THEN open_resource_session(r) ELSE UNCHANGED roomSession
    /\ UNCHANGED <<toolTables, roomProfile, doorEdition, inputs, policyDue, edgeSide>>

scan(k, r) ==
    /\ Edited /\ authorize_resource(Edge, r)
    /\ IF "tool" \in find_resource(r) THEN activate_tool(k, r) ELSE scan_door(k, r)
EndsDoor(r) ==
    /\ close_resource_session(r) /\ UNCHANGED <<toolTables, roomProfile, doorEdition, inputs, policyDue, edgeSide>>
stop(r) ==
    /\ Edited /\ authorize_resource(Edge, r)
    /\ IF "tool" \in find_resource(r) THEN deactivate_tool(r) ELSE EndsDoor(r)
admin_stop(r) ==
    /\ Edited /\ find_resource(r) # {}
    /\ IF "tool" \in find_resource(r) THEN deactivate_tool(r) ELSE EndsDoor(r)
update_resource(r, profile) ==
    /\ Edited /\ update_resource_session_profile(r, profile)
    /\ UNCHANGED <<toolTables, roomSession, doorEdition, inputs, policyDue, edgeSide>>

\* What a device is told of a resource's wiring.
module_state_snapshot ==
    {[id |-> r, in_use |-> r \in get_inuse_tools \cup open_resource_sessions, modules |-> {b \in gearAt : b.res = r},
      rules |-> {i \in interlockRows : i.tool = r}] :
        r \in {b.res : b \in gearAt} \cup {i.tool : i \in interlockRows}}

-----------------------------------------------------------------------------
(* What the other parts change: each is followed by a broadcast, or, for a *)
(* door's rules, by its own push.                                          *)

PersonChanges(p) ==
    /\ Edited /\ policyDue' = TRUE
    /\ \/ persons' = [persons EXCEPT ![p].active = ~ @]
       \/ persons' = [persons EXCEPT ![p].funds = 1 - @]
    /\ UNCHANGED <<codes, qualified, lockedOut, openHours, toolTables, roomTables, edgeSide>>
CardChanges(k) ==
    /\ Edited /\ policyDue' = TRUE
    /\ \/ codes[k].card # "none" /\ codes' = [codes EXCEPT ![k].card = IF @ = "active" THEN "disabled" ELSE "active"]
       \/ codes' = [codes EXCEPT ![k].legacy = ~ @]
    /\ UNCHANGED <<persons, qualified, lockedOut, openHours, toolTables, roomTables, edgeSide>>
StandingChanges(p, t) ==
    /\ Edited /\ policyDue' = TRUE
    /\ \/ qualified' = (qualified \ {<<p, t>>}) \cup ({<<p, t>>} \ qualified) /\ UNCHANGED lockedOut
       \/ lockedOut' = (lockedOut \ {t}) \cup ({t} \ lockedOut) /\ UNCHANGED qualified
    /\ UNCHANGED <<persons, codes, openHours, toolTables, roomTables, edgeSide>>
HoursChange ==
    /\ Edited /\ openHours' = ~ openHours
    /\ UNCHANGED <<persons, codes, qualified, lockedOut, toolTables, roomTables, policyDue, edgeSide>>
DoorRulesChange ==
    /\ Edited /\ doorEdition' = doorEdition + 1
    /\ UNCHANGED <<toolTables, roomProfile, roomSession, inputs, policyDue, edgeSide>>
DoorsPublished ==
    /\ RoomFor("doors") /\ building' = building \cup {doors_alias}
    /\ UNCHANGED <<toolTables, roomTables, inputs, policyDue, wire, cache, accessSteps, accessLost>>

-----------------------------------------------------------------------------

AccessNext ==
    \/ policy \/ publish_to_devices \/ PayloadSent \/ PolicyComes \/ AliasComes \/ PayloadGoesMissing
    \/ DoorRulesChange \/ DoorsPublished \/ HoursChange
    \/ \E t \in Shop :
          \/ \E row \in ToolRow : create_tool(t, row) \/ update_tool(t, row)
          \/ \E s \in Statuses : change_tool_status(t, s)
          \/ delete_tool(t)
          \/ \E r1 \in Rates : create_tier(t, r1) \/ delete_tier(t, r1) \/ \E r2 \in Rates : update_tier(t, r1, r2)
          \/ \E p \in People : \/ \E r1 \in Rates : assign_tier(p, t, r1)
                               \/ clear_tier(p, t) \/ StandingChanges(p, t)
          \/ create_interlock(t, {}) \/ \E b \in gearAt : create_interlock(t, {b})
    \/ \E b \in [dev : Gear, res : Resources, role : {"edge", "power"}] : create_module(b)
    \/ \E b \in gearAt : delete_module(b)
    \/ \E i \in interlockRows : delete_interlock(i)
    \/ \E r \in Resources : \/ stop(r) \/ admin_stop(r)
                            \/ \E k \in CardCodes : scan(k, r)
    \/ \E r \in Rooms, x \in Profiles : update_resource(r, x)
    \/ \E p \in People : PersonChanges(p)
    \/ \E k \in CardCodes : CardChanges(k)

\* The edge's poll repeats, what was read is sent, and answers and pushes that are not lost arrive.
SendsOf(kind) == \E b \in building : b.kind = kind /\ Sends(b)
AccessFairness ==
    /\ WF_accessVars(policy) /\ \A kind \in {"policy", "doors"} : WF_accessVars(SendsOf(kind))
    /\ WF_accessVars(PolicyComes) /\ WF_accessVars(AliasComes)
AccessSpec == AccessInit /\ [][AccessNext]_accessVars /\ AccessFairness

-----------------------------------------------------------------------------

\* The edge is up to date when its lists are those of a policy built now.
UpToDate == cache.tools = build_resource_policy(Edge).tools /\ cache.members = build_resource_policy(Edge).members

\* An edge that is up to date admits nobody the server would refuse, save by a code whose card was disabled while the
\* legacy field still holds it; and it refuses whom the server would admit only at a tool that is closed by its
\* schedule, which the server's own path does not look at, or when a priced tier is set on a free tool.
EdgeDecidesAsTheServer ==
    UpToDate =>
        \A k \in CardCodes, t \in {x \in Shop : shop[x] # {}} :
            /\ decide(k, t) = "allow" =>
                  server_allows(k, t) \/ (codes[k].legacy /\ codes[k].card = "disabled")
            /\ decide(k, t) = "deny" /\ server_allows(k, t) =>
                  \/ row_of(t).scheduled /\ ~ openHours
                  \/ row_of(t).rate = 0 /\ 1 \in tierOf[<<HolderOf[k], t>>]

\* The policy and the doors snapshot carry the doors on two paths, and each is stamped after it is read.  Whichever
\* overtakes the other, the doors the edge holds lose an edit only to a payload that was being built when the edit was
\* made: one stamped before the edit never replaces one that has it.
DoorsLoseOnlyConcurrentEdits == [][cache'.doors < cache.doors => cache.doors <= cache'.doorsAtStamp]_accessVars

\* The snapshot of the wiring names only resources that exist, and a rule in it reads a module in it, whatever was
\* unbound or deleted since: an edge denies a tool whose rule has no source.
SnapshotIsWhole ==
    \A e \in module_state_snapshot :
        resource_kind(e.id) # {} /\ \A i \in e.rules : i.source \subseteq e.modules

\* What the edge is given lets it stand in for the server: a policy it decides by as the server does, and a wiring
\* that is whole.
EdgeActsForTheServer == EdgeDecidesAsTheServer /\ SnapshotIsWhole

\* Once the tables rest, the edge's lists and doors come to be those of the tables, whatever was lost, overtaken,
\* stale, or older than its stamp.
EdgeLearnsWhoMay == <>[](UpToDate /\ cache.doors = doorEdition)
=============================================================================
