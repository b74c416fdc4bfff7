------------------------------- MODULE Doors --------------------------------
(***************************************************************************)
(* One door: its access rules and schedules at the server, the snapshots   *)
(* compiled from them, and the edge device that decides by the last one it *)
(* applied (server/src/doors.rs, access_engine.rs, schedules.rs, api/      *)
(* doors.rs, api/schedules.rs, edge/src/resources.rs, edge/src/doors.rs).  *)
(*                                                                         *)
(* A snapshot is read from the tables, then stamped and pushed; a handler  *)
(* or the ticker may be overtaken in between, and a push may be lost or    *)
(* overtaken on its way.  Stamps are kept as ranks: 0 is the one the edge  *)
(* last applied, a negative one is older.  The edge's poll, which carries  *)
(* the doors as well, is in Access.                                        *)
(*                                                                         *)
(* The clock counts minutes of one local day, on which the site's wall     *)
(* clock may be set forward or back once.  The strike and its wiring are   *)
(* external: a pulse opens it for as long as it says.                      *)
(***************************************************************************)
EXTENDS Integers, FiniteSets, FiniteSetsExt

CONSTANTS
    Members, DoorCards, DoorCardHolder,    \* DoorCardHolder[k], the member a card is issued to
    Plans,          \* values of a schedule's intervals: sets of <<start, end>>, in local time
    Zones,          \* what site.timezone does that day: [at, shift], the wall clock moved by shift at an instant
    StaffLevel,
    HoldRefresh, HoldMargin,
    MaxDoorEdits, MaxAir, MaxDoorsLost, MaxClock   \* bounds

ASSUME DoorsAssumption ==
    /\ HoldRefresh \in Nat \ {0} /\ HoldMargin \in Nat
    /\ DoorCardHolder \in [DoorCards -> Members]
    /\ \A ws \in Plans : IsFiniteSet(ws) /\ ws \subseteq Nat \X Nat
    /\ \A z \in Zones : z.at \in Nat /\ z.shift \in Int /\ z.at + z.shift >= 0

VARIABLES
    door,       \* {} or the door's enabled flag in a set
    rules,      \* access_rules of the door
    schedule,   \* {} or the intervals of the one schedule, in a set
    zone,       \* the zone the site is in
    member,     \* users: active, level, active cards
    compiling,  \* snapshots read and not yet stamped: [by, doors], by a handler or the ticker
    air,        \* snapshots on their way
    lastHash,   \* last_snapshot_hash: the snapshots that have it
    edgeDoor,   \* the edge's entry: {} or a compiled door in a set
    holdSent, strikeUntil, held,   \* at the edge: hold_sent, the strike, and the latest window it was held for
    edits, lost, clock
doorVars == <<door, rules, schedule, zone, member, compiling, air, lastHash, edgeDoor, holdSent, strikeUntil, held,
              edits, lost, clock>>

Never == -1

\* The code of a live card is unique (idx_user_cards_code_bidx_live), so members share none.
OwnCards(u) == {k \in DoorCards : DoorCardHolder[k] = u}

DoorsInit ==
    /\ door = {} /\ rules = {} /\ schedule = {} /\ zone \in Zones
    /\ member = [u \in Members |-> [active |-> TRUE, level |-> 1, cards |-> OwnCards(u)]]
    /\ compiling = {} /\ air = {} /\ lastHash = {} /\ edgeDoor = {}
    /\ holdSent = Never /\ strikeUntil = Never /\ held = Never
    /\ edits = 0 /\ lost = 0 /\ clock = 0

-----------------------------------------------------------------------------
(* Schedules. *)

\* The wall clock at an instant, and the instants at which it shows a time: none in an hour that is skipped, two in
\* one that is repeated.
local_time(tz, t) == t + (IF t < tz.at THEN 0 ELSE tz.shift)
from_local_datetime(tz, l) == {t \in {l, l - tz.shift} : local_time(tz, t) = l}

validate(ws) == \A w \in ws : w[1] < w[2]
covers(ws, l) == \E w \in ws : w[1] <= l /\ l < w[2]
matches_at(ws, tz, t) == covers(ws, local_time(tz, t))
\* The end of the window a local time is in, windows that touch or overlap taken as one.
FirstWindowOnly(ws, l) == CHOOSE e \in {w[2] : w \in {v \in ws : v[1] <= l /\ l < v[2]}} : TRUE
window_end(ws, l) ==
    LET first(vs) == CHOOSE w \in vs : \A v \in vs : w[1] <= v[1]
        grow[n \in 0 .. Cardinality(ws)] ==
            IF n = 0 THEN first({w \in ws : w[1] <= l /\ l < w[2]})[2]
            ELSE LET next == {w \in ws : w[1] <= grow[n - 1] /\ w[2] > grow[n - 1]}
                 IN  IF next = {} THEN grow[n - 1] ELSE first(next)[2]
    IN  grow[Cardinality(ws)]
\* That end as an instant: the first of two; of none, the instant of the minute before, if there is just one.
active_until(ws, tz, t) ==
    LET end == window_end(ws, local_time(tz, t))
    IN  CASE from_local_datetime(tz, end) # {} -> Min(from_local_datetime(tz, end))
          [] from_local_datetime(tz, end) = {} /\ Cardinality(from_local_datetime(tz, end - 1)) = 1
                 -> Min(from_local_datetime(tz, end - 1))
          [] OTHER -> Never

\* A rule with no schedule always applies; one whose schedule is gone has nothing to resolve.
schedule_state_at(r) ==
    CASE ~ r.scheduled -> "active"
      [] r.scheduled /\ schedule = {} -> "unresolvable"
      [] OTHER -> IF \E ws \in schedule : matches_at(ws, zone, clock) THEN "active" ELSE "inactive"
rule_fires(r) == \/ schedule_state_at(r) = "active"
                 \/ schedule_state_at(r) = "unresolvable" /\ r.effect = "deny"

-----------------------------------------------------------------------------
(* Decisions. *)

\* access_engine::may for a door: restricted by default, no training and no meter.
may(u) ==
    LET matched(effect) == \E r \in rules :
            /\ r.effect = effect /\ rule_fires(r)
            /\ \/ r.kind = "card" /\ r.value \in member[u].cards
               \/ r.kind = "user" /\ r.value = u
               \/ r.kind = "role" /\ member[u].level >= r.value
    IN  member[u].active /\ ~ matched("deny") /\ matched("allow")
evaluate(u) == door = {TRUE} /\ may(u)

card_digests_by_user(u) == IF member[u].active THEN member[u].cards ELSE {}
user_levels(u) == member[u].level
expand_rules_at(effect) == UNION {IF r.kind = "card" THEN {r.value}
    ELSE UNION {card_digests_by_user(u) : u \in {v \in Members :
            \/ r.kind = "user" /\ r.value = v
            \/ r.kind = "role" /\ user_levels(v) >= r.value}} :
    r \in {q \in rules : q.kind # "open_access" /\ q.effect = effect /\ rule_fires(q)}}
open_access_hold_until_at ==
    LET ends == {active_until(ws, zone, clock) : ws \in {v \in schedule : matches_at(v, zone, clock)}} \ {Never}
    IN  IF (\E r \in rules : r.kind = "open_access" /\ r.effect = "allow") /\ ends # {} THEN Max(ends) ELSE Never
compile_state_for == {[enabled |-> on, allow |-> expand_rules_at("allow"), deny |-> expand_rules_at("deny"),
                       hold |-> open_access_hold_until_at] : on \in door}

-----------------------------------------------------------------------------
(* Pushing snapshots. *)

Stamp == Max({0} \cup {m.rank : m \in air}) + 1
push(content) == air' = air \cup {[rank |-> Stamp, doors |-> content]}

\* What is read now (next), to be stamped later.
Reads(who, content) ==
    /\ Cardinality({c \in compiling : c.by = who}) < MaxAir
    /\ compiling' = compiling \cup {[by |-> who, doors |-> content]}
Finishes(c, who) == c \in compiling /\ c.by = who /\ compiling' = compiling \ {c}

\* The rest of a request or of republish_all: what was read goes out under a newer stamp.
publish_state(c) ==
    /\ Finishes(c, "handler") /\ Cardinality(air) < MaxAir /\ push(c.doors)
    /\ UNCHANGED <<door, rules, schedule, zone, member, lastHash, edgeDoor, holdSent, strikeUntil, held, edits, lost, clock>>

\* The devices with a binding to a door that exists; a device whose last door is gone is not among them.
list_door_device_ids == {d \in {"edge"} : door # {}}
\* The ticker's round: it reads, and sends what it read if its bytes differ from the last it sent.
TickerReads ==
    /\ list_door_device_ids # {} /\ Reads("ticker", compile_state_for)
    /\ UNCHANGED <<door, rules, schedule, zone, member, air, lastHash, edgeDoor, holdSent, strikeUntil, held, edits, lost, clock>>
\* The snapshots that hash to the same value.  The bytes hashed hold the time of the snapshot, so no later one does.
ContentHash(content) == {content}
stable_hash(content) == {}
republish_changed(c) ==
    /\ Finishes(c, "ticker")
    /\ IF c.doors \in lastHash THEN UNCHANGED <<air, lastHash>>
       ELSE Cardinality(air) < MaxAir /\ push(c.doors) /\ lastHash' = stable_hash(c.doors)
    /\ UNCHANGED <<door, rules, schedule, zone, member, edgeDoor, holdSent, strikeUntil, held, edits, lost, clock>>

\* What is pushed after an edit, read from the tables as they are then: to the door's own device, or to every device
\* that has a door.
Publish == Reads("handler", compile_state_for')
PublishAll == IF list_door_device_ids # {} THEN Publish ELSE UNCHANGED compiling
Edit ==
    /\ edits < MaxDoorEdits /\ edits' = edits + 1
    /\ UNCHANGED <<zone, air, lastHash, edgeDoor, holdSent, strikeUntil, held, lost, clock>>

-----------------------------------------------------------------------------
(* Staff edit. *)

NewRules(kind, value, effect, scheduled) ==
    [kind |-> kind, value |-> value, effect |-> effect, scheduled |-> scheduled]
StaffRule == NewRules("role", StaffLevel, "allow", FALSE)
create_door ==
    /\ Edit /\ door = {} /\ door' = {TRUE} /\ rules' = {StaffRule} /\ UNCHANGED <<schedule, member>> /\ Publish
update_door(on) ==
    /\ Edit /\ door # {} /\ door # {on} /\ door' = {on} /\ UNCHANGED <<rules, schedule, member>> /\ Publish
delete_door ==
    /\ Edit /\ door # {} /\ door' = {} /\ rules' = {} /\ UNCHANGED <<schedule, member>> /\ Publish
\* The schedule a rule names is there, by its foreign key; open access asks for one.
add_rule(r) ==
    /\ Edit /\ door # {} /\ r \notin rules
    /\ r.kind = "open_access" => r.scheduled
    /\ r.scheduled => schedule # {}
    /\ rules' = rules \cup {r} /\ UNCHANGED <<door, schedule, member>> /\ Publish
remove_rule(r) ==
    /\ Edit /\ r \in rules /\ rules' = rules \ {r} /\ UNCHANGED <<door, schedule, member>> /\ Publish
create_schedule(ws) ==
    /\ Edit /\ schedule = {} /\ validate(ws) /\ schedule' = {ws} /\ UNCHANGED <<door, rules, member, compiling>>
update_schedule(ws) ==
    /\ Edit /\ schedule # {} /\ validate(ws) /\ schedule' = {ws} /\ UNCHANGED <<door, rules, member>> /\ PublishAll
schedule_reference_count == Cardinality({r \in rules : r.scheduled})
delete_schedule ==
    /\ Edit /\ schedule # {} /\ schedule_reference_count = 0 /\ schedule' = {}
    /\ UNCHANGED <<door, rules, member>> /\ PublishAll
\* A role, the activation or the cards change in api/admin.rs and api/cards.rs, each with a republish_all.
republish_all(u, to) ==
    /\ Edit /\ Cardinality({f \in DOMAIN to : to[f] # member[u][f]}) = 1 /\ member' = [member EXCEPT ![u] = to]
    /\ UNCHANGED <<door, rules, schedule>> /\ PublishAll

-----------------------------------------------------------------------------
(* The edge. *)

door_is_stale(m) == m.rank < 0
\* The ranks that are left are counted from what was applied.
apply_doors_alias(m) ==
    /\ m \in air
    /\ IF door_is_stale(m) THEN air' = air \ {m} /\ edgeDoor' = edgeDoor
       ELSE /\ edgeDoor' = m.doors
            /\ air' = {[o EXCEPT !.rank = IF @ < m.rank THEN -1 ELSE @ - m.rank] : o \in air \ {m}}
    /\ UNCHANGED <<door, rules, schedule, zone, member, compiling, lastHash, holdSent, strikeUntil, held, edits, lost, clock>>
PushLost(m) ==
    /\ m \in air /\ lost < MaxDoorsLost /\ lost' = lost + 1 /\ air' = air \ {m}
    /\ UNCHANGED <<door, rules, schedule, zone, member, compiling, lastHash, edgeDoor, holdSent, strikeUntil, held, edits, clock>>

edge_decide(k) == \E e \in edgeDoor : e.enabled /\ k \notin e.deny /\ (e.hold > clock \/ k \in e.allow)

\* A pulse of ms milliseconds; one already running may be cut short or go on.
Pulse(until) == strikeUntil' \in {until, Max({until, strikeUntil})}
Unlocks ==
    /\ Pulse(clock + 1)
    /\ UNCHANGED <<door, rules, schedule, zone, member, compiling, air, lastHash, edgeDoor, holdSent, held, edits, lost, clock>>
Scan(k) == edge_decide(k) /\ Unlocks
door_checkin(u) == evaluate(u) /\ Unlocks
\* An administrator at a distance composes with the rules, as one at the door does.
admin_unlock(u) == member[u].level >= StaffLevel /\ evaluate(u) /\ Unlocks

hold_pulse_ms(until) == IF until <= clock THEN 0 ELSE Min({HoldRefresh + HoldMargin, until - clock})
hold_pulses_at == {e.hold : e \in {d \in edgeDoor : d.enabled /\ hold_pulse_ms(d.hold) > 0}}
edge_tick ==
    LET due == hold_pulses_at # {} /\ (holdSent = Never \/ clock - holdSent >= HoldRefresh)
    IN  /\ holdSent' = IF hold_pulses_at = {} THEN Never ELSE IF due THEN clock ELSE holdSent
        /\ IF due THEN \E until \in hold_pulses_at :
                          Pulse(clock + hold_pulse_ms(until)) 
                          /\ held' = Max({until, held})
           ELSE UNCHANGED <<strikeUntil, held>>
        /\ UNCHANGED <<door, rules, schedule, zone, member, compiling, air, lastHash, edgeDoor, edits, lost, clock>>

ClockGoes ==
    /\ clock < MaxClock /\ clock' = clock + 1
    /\ UNCHANGED <<door, rules, schedule, zone, member, compiling, air, lastHash, edgeDoor, holdSent, strikeUntil, held, edits, lost>>

RuleChoices ==
    LET choices(kind, values) == [kind : {kind}, value : values, effect : {"allow", "deny"}, scheduled : BOOLEAN]
    IN  choices("card", DoorCards) \cup choices("user", Members) \cup choices("role", {1, StaffLevel})
        \cup {r \in choices("open_access", {0}) : r.scheduled}
MemberChoices(u) == [active : BOOLEAN, level : {1, StaffLevel}, cards : SUBSET OwnCards(u)]

StaffEdit ==
    \/ create_door \/ delete_door \/ delete_schedule \/ \E on \in BOOLEAN : update_door(on)
    \/ \E r \in RuleChoices : add_rule(r) \/ remove_rule(r)
    \/ \E ws \in Plans : create_schedule(ws) \/ update_schedule(ws)
    \/ \E u \in Members : \E to \in MemberChoices(u) : republish_all(u, to)
EdgeApplies == \E m \in air : apply_doors_alias(m)
HandlersPublish == \E c \in compiling : publish_state(c)
TickerPublishes == \E c \in compiling : republish_changed(c)
DoorsNext ==
    \/ StaffEdit \/ HandlersPublish \/ TickerReads \/ TickerPublishes \/ EdgeApplies
    \/ \E m \in air : PushLost(m)
    \/ \E k \in DoorCards : Scan(k)
    \/ \E u \in Members : door_checkin(u) \/ admin_unlock(u)
    \/ edge_tick \/ ClockGoes

\* The handlers finish, the one-minute ticker runs, and of what is pushed most arrives.
DoorsFairness ==
    /\ WF_doorVars(HandlersPublish) /\ WF_doorVars(TickerReads) /\ WF_doorVars(TickerPublishes)
    /\ WF_doorVars(EdgeApplies)
DoorsSpec == DoorsInit /\ [][DoorsNext]_doorVars /\ DoorsFairness

-----------------------------------------------------------------------------
(* The reader at the door and the check-in at the server agree: with the     *)
(* lists compiled now, an active member passes the check-in exactly when one *)
(* of their cards is allowed and none is denied (doors.rs:279 "mirrors the   *)
(* same allow/deny logic applied at edge").  A member with no card can only  *)
(* check in.                                                                 *)
CheckinAgreesWithTheReader ==
    \A e \in compile_state_for, u \in Members : member[u].active /\ member[u].cards # {} =>
        (may(u) <=> /\ \E k \in member[u].cards : k \in e.allow
                    /\ \A k \in member[u].cards : k \notin e.deny)

(* Open access lasts as long as the schedule says, in local time and however *)
(* its intervals touch and overlap: the hold compiled now ends when the      *)
(* schedule closes, or, when that minute is skipped, in the minute before;   *)
(* until then the schedule is open, save while a wall clock set back shows   *)
(* times earlier than now; and there is a hold ahead whenever the wall clock *)
(* shows the window's end just once.  (When it skips the end by more than a  *)
(* minute, or shows it twice and now is past the first, the door is not held *)
(* though its schedule is open: active_until, LocalResult::None, Ambiguous.) *)
HeldAsTheScheduleSays ==
    \A e \in compile_state_for, ws \in schedule :
        LET scheduled == matches_at(ws, zone, clock) /\ \E r \in rules : r.kind = "open_access" /\ r.effect = "allow"
        IN  /\ e.hold # Never =>
                  /\ scheduled
                  /\ \A t \in clock .. e.hold - 1 : matches_at(ws, zone, t) \/ local_time(zone, t) < local_time(zone, clock)
                  /\ ~ matches_at(ws, zone, e.hold) \/ from_local_datetime(zone, local_time(zone, e.hold) + 1) = {}
            /\ scheduled /\ Cardinality(from_local_datetime(zone, window_end(ws, local_time(zone, clock)))) = 1
                   => e.hold > clock

(* A strike the edge holds open falls shut at the end of the window it was   *)
(* held for, though no message ever comes to close it; a card or a check-in  *)
(* opens it for one pulse more.                                              *)
HoldEndsWithTheWindow == strikeUntil <= Max({held, clock + 1})

(* A door acts as its rules are written: for whom it opens, at the reader    *)
(* and at the check-in, and for how long it stands open.                     *)
DoorsActAsWritten == CheckinAgreesWithTheReader /\ HeldAsTheScheduleSays /\ HoldEndsWithTheWindow

(* Once edits stop, the edge of a door comes to decide by the rules as they  *)
(* are by pushes alone, whatever was lost, overtaken or read before a later  *)
(* edit.  A device whose last door was deleted is told once, and if that     *)
(* push is lost or overtaken it keeps the door until its next poll.          *)
EdgeCatchesUp == <>[](door # {} => edgeDoor = compile_state_for)
=============================================================================
