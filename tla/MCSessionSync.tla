--------------------------- MODULE MCSessionSync ---------------------------
(* Two instances of SessionSync, tools known by their UUIDs alone: two      *)
(* tools with a network that keeps order, and one with a faulty network.    *)
EXTENDS SessionSync, TLC

CONSTANTS t1, t2

VARIABLE network    \* "calm" or "faulty"

NoWiring == {[t \in {} |-> t]}

\* POSTs late, overtaken or lost, answers lost, pushes and a full channel.
Faulty == INSTANCE SessionSync WITH
    Tools <- {t1}, Online <- {t1}, MaxTime <- 2, MaxOps <- 2,
    PostsMayLag <- TRUE, AnswersMayBeLost <- TRUE, PushesOn <- TRUE

Init ==
    \/ network = "calm" /\ SyncInit
    \/ network = "faulty" /\ Faulty!SyncInit
Next ==
    /\ UNCHANGED network
    /\ \/ network = "calm" /\ SyncNext
       \/ network = "faulty" /\ Faulty!SyncNext
Spec == Init /\ [][Next]_<<syncVars, network>>
=============================================================================
