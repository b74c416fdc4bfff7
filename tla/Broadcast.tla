----------------------------- MODULE Broadcast -----------------------------
(***************************************************************************)
(* The policy broadcaster (server/src/toolguard_broadcast.rs and           *)
(* Broadcaster in api/toolguard.rs).  Handlers note what changed in a      *)
(* Coalescer under a lock and wake one task, which waits for a window to   *)
(* pass and then publishes the tool state and the resource policy to every *)
(* device concerned.  At shutdown it publishes what is pending.            *)
(*                                                                         *)
(* Instructions of the task take no time: the clock goes only while it     *)
(* waits.  Building and publishing are assumed to succeed.                 *)
(***************************************************************************)
EXTENDS Integers, FiniteSets

CONSTANTS
    Controllers, BoundTools,    \* approved devices, tools
    Window,                     \* BROADCAST_WINDOW
    MaxBroadcastClock, MaxRequests      \* bounds

ASSUME BroadcastAssumption == Window \in Nat \ {0}

VARIABLES
    binding,        \* device_bindings: pairs <<device, tool>>
    pending,        \* Coalescer: [all, tools, since]
    permit,         \* Notify's stored permit
    runner,         \* the task: [at, due, left], left the devices still to publish to
    asked,          \* history: when a change not yet published to the device was first noted
    cancelledAt,    \* Shutdown's token, and when
    broadcastClock, requests
broadcastVars == <<binding, pending, permit, runner, asked, cancelledAt, broadcastClock, requests>>

NoTime == -1
Nothing == [all |-> FALSE, tools |-> {}, since |-> NoTime]
BroadcastInit ==
    /\ binding \in SUBSET (Controllers \X BoundTools)
    /\ pending = Nothing /\ permit = FALSE /\ runner = [at |-> "top", due |-> NoTime, left |-> {}]
    /\ asked = [d \in Controllers |-> NoTime] /\ cancelledAt = NoTime /\ broadcastClock = 0 /\ requests = 0

-----------------------------------------------------------------------------
(* Coalescer. *)

\* A scope is a set of tools; that of every tool is Scope::All.
note(scope) ==
    [all |-> pending.all \/ scope = BoundTools, tools |-> pending.tools \cup (IF scope = BoundTools THEN {} ELSE scope),
     since |-> IF pending.since = NoTime THEN broadcastClock ELSE pending.since]
due_at == IF pending.since = NoTime THEN NoTime ELSE pending.since + Window
devices_for(all, tools) == IF all THEN Controllers ELSE {d \in Controllers : \E t \in tools : <<d, t>> \in binding}
take_now == IF pending.since = NoTime THEN {} ELSE devices_for(pending.all, pending.tools)
take == due_at # NoTime /\ broadcastClock >= due_at

-----------------------------------------------------------------------------
(* Handlers. *)

Concerned(scope) == IF scope = BoundTools THEN Controllers ELSE {d \in Controllers : \E t \in scope : <<d, t>> \in binding}
OnlyWhoWaits == permit \/ runner.at = "waits"
notify_one == TRUE
request(scope) ==
    /\ requests < MaxRequests /\ requests' = requests + 1
    /\ pending' = note(scope) /\ permit' = notify_one
    /\ asked' = [d \in Controllers |-> IF d \in Concerned(scope) /\ asked[d] = NoTime THEN broadcastClock ELSE asked[d]]
    /\ UNCHANGED <<binding, runner, cancelledAt, broadcastClock>>
broadcast_toolguard_state == request(BoundTools)
broadcast_toolguard_state_for_tool(t) == {t} # BoundTools /\ request({t})

-----------------------------------------------------------------------------
(* Broadcaster::run. *)

RunnerReads ==
    /\ runner.at = "top" /\ runner' = [at |-> "read", due |-> due_at, left |-> {}]
    /\ UNCHANGED <<binding, pending, permit, asked, cancelledAt, broadcastClock, requests>>
RunnerWaits ==
    /\ runner.at = "read" /\ runner' = [runner EXCEPT !.at = "waits"]
    /\ UNCHANGED <<binding, pending, permit, asked, cancelledAt, broadcastClock, requests>>
Taken == /\ runner' = [at |-> "publishes", due |-> NoTime, left |-> take_now] /\ pending' = Nothing
Woken(by) ==
    /\ runner.at = "waits" /\ IF by = "wake" THEN permit ELSE runner.due # NoTime /\ broadcastClock >= runner.due
    /\ permit' = (IF by = "wake" THEN FALSE ELSE permit)
    /\ IF take THEN Taken ELSE runner' = [runner EXCEPT !.at = "top"] /\ UNCHANGED pending
    /\ UNCHANGED <<binding, asked, cancelledAt, broadcastClock, requests>>
\* publish_batch, publish_to_devices: each device is sent the state of that moment.
publish_to_device(d) ==
    /\ d \in runner.left /\ runner' = [runner EXCEPT !.left = @ \ {d}] /\ asked' = [asked EXCEPT ![d] = NoTime]
    /\ UNCHANGED <<binding, pending, permit, cancelledAt, broadcastClock, requests>>
Published ==
    /\ runner.at \in {"publishes", "last"} /\ runner.left = {}
    /\ runner' = [runner EXCEPT !.at = IF @ = "last" THEN "ended" ELSE "top"]
    /\ UNCHANGED <<binding, pending, permit, asked, cancelledAt, broadcastClock, requests>>
LastBatch ==
    /\ runner.at = "waits" /\ cancelledAt # NoTime
    /\ runner' = [at |-> "last", due |-> NoTime, left |-> take_now] /\ pending' = Nothing
    /\ UNCHANGED <<binding, permit, asked, cancelledAt, broadcastClock, requests>>

Cancelled ==
    /\ cancelledAt = NoTime /\ cancelledAt' = broadcastClock
    /\ UNCHANGED <<binding, pending, permit, runner, asked, broadcastClock, requests>>
BroadcastClockGoes ==
    /\ broadcastClock < MaxBroadcastClock /\ broadcastClock' = broadcastClock + 1
    /\ \/ runner.at = "ended"
       \/ runner.at = "waits" /\ ~ permit /\ cancelledAt = NoTime /\ (runner.due = NoTime \/ broadcastClock < runner.due)
    /\ UNCHANGED <<binding, pending, permit, runner, asked, cancelledAt, requests>>

BroadcastNext ==
    \/ broadcast_toolguard_state \/ \E t \in BoundTools : broadcast_toolguard_state_for_tool(t)
    \/ RunnerReads \/ RunnerWaits \/ \E by \in {"wake", "due"} : Woken(by)
    \/ \E d \in Controllers : publish_to_device(d)
    \/ Published \/ LastBatch \/ Cancelled \/ BroadcastClockGoes
BroadcastSpec == BroadcastInit /\ [][BroadcastNext]_broadcastVars

-----------------------------------------------------------------------------
(* Properties. *)

\* A change reaches every device it concerns within one window of being noted, however many follow it and
\* whenever it falls between the task's reading of due_at, its wait and its publishing.
OutWithinTheWindow == runner.at # "ended" => \A d \in Controllers : asked[d] # NoTime => broadcastClock - asked[d] <= Window

\* The task does not end with a change pending that was noted before the shutdown.
LastBatchGoesOut == runner.at = "ended" => \A d \in Controllers : asked[d] # NoTime => asked[d] >= cancelledAt

\* A change that was noted goes out: within the window while the task runs, and with its last batch when it ends.
ChangesGoOut == OutWithinTheWindow /\ LastBatchGoesOut
=============================================================================
