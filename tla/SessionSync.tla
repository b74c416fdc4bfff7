---------------------------- MODULE SessionSync ----------------------------
(***************************************************************************)
(* Who is using which tool, as the edge and the server come to agree on    *)
(* it.  The edge answers scans and stops from its own cache and tells the  *)
(* server afterwards, fire and forget (edge/src/mqtt.rs: handle_scan,      *)
(* forward_scan, remote_scan, handle_stop).  The server's view comes back  *)
(* in policy payloads, polled (edge/src/main.rs) or pushed, which pass     *)
(* through a bounded channel to the lease engine's reconcile.              *)
(*                                                                         *)
(* The server is one bit per tool here, changed by `activate_tool` and     *)
(* `deactivate_tool`; ToolSession models those in full.  Each constant     *)
(* ending in "On" or "May..." switches one thing the network may do.       *)
(***************************************************************************)
EXTENDS LeaseEngine

CONSTANTS
    Online,           \* tools whose scans the server insists on deciding
    PostsMayLag,      \* a POST may be late, overtaken or lost
    AnswersMayBeLost, \* the server's answer to a scan may be lost
    PushesOn,         \* the server's pushes are connected
    PollBound,        \* longest time from asking to applying a polled answer
    ChannelCap,       \* capacity of the channel to the reconcile loop
    MaxOps            \* bound on what members do

ASSUME SyncAssumption ==
    /\ Online \subseteq Tools
    /\ PostsMayLag \in BOOLEAN /\ AnswersMayBeLost \in BOOLEAN /\ PushesOn \in BOOLEAN
    /\ PollBound \in Nat /\ ChannelCap \in Nat \ {0} /\ MaxOps \in Nat

VARIABLES
    server,      \* tools whose status at the server is in_use
    posts,       \* scan and stop POSTs on their way
    asking,      \* online scans waiting for the server's answer
    payloads,    \* policy payloads being built or on their way
    dirty,       \* the server owes its devices a broadcast
    listed,      \* tools the applied policy lists as in use
    applied_at,  \* stamp of the applied policy
    arrivals,    \* the channel to the reconcile loop
    ops,         \* history: how many operations members have made
    granted,     \* history: the last yes, by the edge or by the server
    stopped,     \* history: the last stop, or refusal of a scan
    scanned,     \* history: when the scan behind this edge's open session began
    calm         \* history: every POST has reached the server in turn and before
                 \* it built a policy, no answer was lost and nothing pushed

netVars == <<server, posts, asking, payloads, dirty>>
cacheVars == <<listed, applied_at, arrivals>>
historyVars == <<ops, granted, stopped, scanned, calm>>
syncVars == <<engineVars, netVars, cacheVars, historyVars>>

Op == ops + 1

-----------------------------------------------------------------------------
(* At the machine *)

\* What the cache answers for a member it authorizes: it leaves some tools to
\* the server, and refuses one whose cached status is not idle.
decide(t) ==
    CASE t \in Online -> "AskServer"
      [] t \notin Online /\ t \in listed -> "Deny"
      [] OTHER -> "Allow"

\* A scan the cache says yes to: the session opens at once and the server is
\* told afterwards.
ScanLocal(t) ==
    /\ ops < MaxOps
    /\ decide(t) = "Allow"
    /\ OpenSession(t, now, None)
    /\ posts' = posts \cup {[kind |-> "scan", tool |-> t, op |-> Op]}
    /\ ops' = Op
    /\ granted' = [granted EXCEPT ![t] = Op]
    /\ scanned' = [scanned EXCEPT ![t] = now]
    /\ UNCHANGED <<server, asking, payloads, dirty, cacheVars, stopped, calm>>

\* A scan the server insists on deciding; the handler waits.
ScanAsk(t) ==
    /\ ops < MaxOps
    /\ decide(t) = "AskServer"
    /\ \A a \in asking : a.tool # t
    /\ asking' = asking \cup {[tool |-> t, at |-> now, yes |-> "asked"]}
    /\ ops' = Op
    /\ UNCHANGED <<engineVars, server, posts, payloads, dirty, cacheVars,
                   granted, stopped, scanned, calm>>

\* The server decides: yes takes an idle tool into use.
ScanDecided(a) ==
    /\ a.yes = "asked"
    /\ LET yes == a.tool \notin server
       IN /\ asking' = (asking \ {a}) \cup {[a EXCEPT !.yes = IF yes THEN "yes" ELSE "no"]}
          /\ server' = server \cup {a.tool}
          /\ dirty' = (dirty \/ yes)
          /\ granted' = IF yes THEN [granted EXCEPT ![a.tool] = Op] ELSE granted
          /\ ops' = Op
    /\ UNCHANGED <<engineVars, posts, payloads, cacheVars, stopped, scanned, calm>>

\* Its answer arrives, and a yes opens the session as of the scan.
ScanAnswered(a) ==
    /\ asking' = asking \ {a}
    /\ \/ /\ a.yes = "yes"
          /\ OpenSession(a.tool, a.at, None)
          /\ granted' = [granted EXCEPT ![a.tool] = Op]
          /\ scanned' = [scanned EXCEPT ![a.tool] = a.at]
          /\ ops' = Op
       \/ a.yes = "no" /\ UNCHANGED <<engineVars, granted, scanned, ops>>
    /\ UNCHANGED <<server, posts, payloads, dirty, cacheVars, stopped, calm>>

\* The answer, or the question, is lost: any transport error is a refusal.
ScanFailed(a) ==
    /\ AnswersMayBeLost
    /\ asking' = asking \ {a}
    /\ stopped' = IF a.yes = "yes" THEN [stopped EXCEPT ![a.tool] = Op] ELSE stopped
    /\ ops' = Op
    /\ calm' = FALSE
    /\ UNCHANGED <<engineVars, server, posts, payloads, dirty, cacheVars, granted, scanned>>

\* The clock is finer than the model's ticks: no two of the edge's stamps tie.
Stop(t) ==
    /\ ops < MaxOps
    /\ \A p \in payloads : p.as_of # now
    /\ \A i \in 1 .. Len(arrivals) : arrivals[i].as_of # now
    /\ CloseSession(t)
    /\ posts' = posts \cup {[kind |-> "stop", tool |-> t, op |-> Op]}
    /\ ops' = Op
    /\ stopped' = [stopped EXCEPT ![t] = Op]
    /\ scanned' = [scanned EXCEPT ![t] = None]
    /\ UNCHANGED <<server, asking, payloads, dirty, cacheVars, granted, calm>>

-----------------------------------------------------------------------------
(* At the server *)

\* A forwarded scan takes an idle tool into use; a stop releases it whoever
\* holds it.  Both owe the devices a broadcast.
ServerTakes(p) ==
    /\ PostsMayLag \/ \A q \in posts : p.op <= q.op
    /\ calm' = (calm /\ \A q \in posts : p.op <= q.op)
    /\ posts' = posts \ {p}
    /\ server' = IF p.kind = "scan" THEN server \cup {p.tool} ELSE server \ {p.tool}
    /\ dirty' = (dirty \/ p.kind = "stop" \/ p.tool \notin server)
    /\ UNCHANGED <<engineVars, asking, payloads, cacheVars, ops, granted, stopped, scanned>>

PostLost(p) ==
    /\ PostsMayLag
    /\ posts' = posts \ {p}
    /\ calm' = FALSE
    /\ UNCHANGED <<engineVars, server, asking, payloads, dirty, cacheVars, ops, granted, stopped, scanned>>

\* The edge asks for the policy: one poll at a time, stamped before it is sent.
PollAsk ==
    /\ \A p \in payloads : p.src # "poll"
    /\ payloads' = payloads \cup {[src |-> "poll", pc |-> "asked", as_of |-> now,
                                   in_use |-> {}, stamp |-> None]}
    /\ UNCHANGED <<engineVars, server, posts, asking, dirty, cacheVars, historyVars>>

\* build_resource_policy reads the tools first ...
PolicyRead(p) ==
    /\ p.pc = "asked"
    /\ PostsMayLag \/ posts = {}
    /\ calm' = (calm /\ posts = {})
    /\ payloads' = (payloads \ {p}) \cup {[p EXCEPT !.pc = "read", !.in_use = server]}
    /\ UNCHANGED <<engineVars, server, posts, asking, dirty, cacheVars, ops, granted, stopped, scanned>>

\* ... and stamps the payload when it is assembled.
PolicyStamp(p) ==
    /\ p.pc = "read"
    /\ payloads' = (payloads \ {p}) \cup {[p EXCEPT !.pc = "sent", !.stamp = now]}
    /\ UNCHANGED <<engineVars, server, posts, asking, dirty, cacheVars, historyVars>>

\* A broadcast: the policy, and the allow-list alias older edges read.
Push ==
    /\ PushesOn /\ dirty
    /\ PostsMayLag \/ posts = {}
    /\ \A p \in payloads : p.src = "poll"
    /\ dirty' = FALSE
    /\ payloads' = payloads \cup
          {[src |-> s, pc |-> "read", as_of |-> None, in_use |-> server, stamp |-> None] :
             s \in {"push", "alias"}}
    /\ calm' = FALSE
    /\ UNCHANGED <<engineVars, server, posts, asking, cacheVars, ops, granted, stopped, scanned>>

-----------------------------------------------------------------------------
(* Back at the edge *)

\* A payload arrives: a policy older than the applied one is dropped, the alias
\* is never compared; a full channel drops the reconcile, not the policy.
PayloadArrives(p) ==
    /\ p.pc = "sent"
    /\ payloads' = payloads \ {p}
    /\ \/ /\ p.src # "alias" /\ p.stamp < applied_at
          /\ UNCHANGED cacheVars
       \/ /\ p.src = "alias" \/ p.stamp >= applied_at
          /\ listed' = p.in_use
          /\ applied_at' = IF p.src = "alias" THEN applied_at ELSE p.stamp
          /\ arrivals' = IF Len(arrivals) < ChannelCap
                         THEN Append(arrivals, [in_use |-> p.in_use, as_of |-> p.as_of])
                         ELSE arrivals
    /\ UNCHANGED <<engineVars, server, posts, asking, dirty, historyVars>>

\* A poll's request or answer fails; the next period asks again.
PollFails(p) ==
    /\ p.src = "poll"
    /\ payloads' = payloads \ {p}
    /\ UNCHANGED <<engineVars, server, posts, asking, dirty, cacheVars, historyVars>>

\* Deliberate fault: every arrival counts as of now, a polled one too.
AsOfArrival(a) == now

\* A polled payload is as old as its request; a pushed one counts as of now.
as_of(a) == IF a.as_of = None THEN now ELSE a.as_of

\* The reconcile loop takes the oldest arrival.
Drain ==
    /\ arrivals # <<>>
    /\ arrivals' = Tail(arrivals)
    /\ LET a == Head(arrivals)
       IN ReconcileSessions(Tools, a.in_use, as_of(a))
    /\ UNCHANGED <<netVars, listed, applied_at, historyVars>>

\* Time passes, but no polled answer is ever older than PollBound.
TimePasses ==
    /\ Advance
    /\ \A p \in payloads : p.as_of # None => now - p.as_of < PollBound
    /\ \A i \in 1 .. Len(arrivals) :
          arrivals[i].as_of # None => now - arrivals[i].as_of < PollBound
    /\ UNCHANGED <<netVars, cacheVars, historyVars>>

-----------------------------------------------------------------------------
SyncInit ==
    /\ EngineInit
    /\ server = {} /\ posts = {} /\ asking = {} /\ payloads = {} /\ dirty = FALSE
    /\ listed = {} /\ applied_at = None /\ arrivals = <<>>
    /\ ops = 0
    /\ granted = [t \in Tools |-> 0]
    /\ stopped = [t \in Tools |-> 0]
    /\ scanned = [t \in Tools |-> None]
    /\ calm = TRUE

SyncNext ==
    \/ \E t \in Tools : ScanLocal(t) \/ ScanAsk(t) \/ Stop(t)
    \/ \E a \in asking : ScanDecided(a) \/ ScanAnswered(a) \/ ScanFailed(a)
    \/ \E p \in posts : ServerTakes(p) \/ PostLost(p)
    \/ PollAsk
    \/ \E p \in payloads : PolicyRead(p) \/ PolicyStamp(p) \/ PayloadArrives(p) \/ PollFails(p)
    \/ Push
    \/ Drain
    \/ TimePasses

SyncSpec == SyncInit /\ [][SyncNext]_syncVars

-----------------------------------------------------------------------------
\* A tool is in use at the edge -- and so leased -- only while the last thing
\* that happened at it is a scan answered yes, never after its member's stop and
\* never on a scan that was refused, for as long as POSTs have arrived before the
\* next poll was answered (ModuleState::reconcile_tracked).
InUseOnlyAfterAYes == calm => \A t \in DOMAIN granted : in_use(t, now) => granted[t] > stopped[t]

\* Whatever the network does -- stale, lost, overtaking or dropped syncs -- a
\* member this edge signed on is not signed off within the grace except by a
\* stop at this edge ("A younger local session is kept").
YoungSessionSurvives ==
    \A t \in DOMAIN scanned :
        scanned[t] # None /\ now - scanned[t] < Grace => in_use(t, now)
=============================================================================
