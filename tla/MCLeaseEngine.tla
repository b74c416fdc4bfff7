--------------------------- MODULE MCLeaseEngine ---------------------------
(* Small instances of LeaseEngine: one tool, up to two bindings and rules.  *)
EXTENDS LeaseEngine, TLC

CONSTANTS t1, x1, b1, b2, d1, d2

Power(id, device, stage, delay, runOn) ==
    [id |-> id, device |-> device, role |-> "power", fail_off |-> FALSE,
     start_stage |-> stage, start_delay |-> delay, run_on |-> runOn]
Sensor(id, device) == [Power(id, device, 0, 0, 0) EXCEPT !.role = "sensor"]
Trip(c, latch, debounce) ==
    [kind |-> "trip", condition |-> c, latch |-> latch, debounce |-> debounce]
Wire(room, modules, rules) ==
    t1 :> [external_id |-> x1, room |-> room, modules |-> modules, interlocks |-> rules]

\* A tool and a room with one plug and no interlocks, and a snapshot from which
\* an administrator has removed it.
PlainSnapshots == {Wire(FALSE, {Power(b1, d1, 0, 0, 0)}, <<>>),
                   Wire(TRUE, {Power(b1, d1, 0, 0, 0)}, <<>>),
                   [t \in {} |-> t]}

\* A plug that must be heard from, behind a latching guard-door trip and a
\* coolant requirement that trips without latching; the second snapshot adds
\* a sensor.
FailOff(b) == [b EXCEPT !.fail_off = TRUE]
GuardRules == <<Trip("door_open", TRUE, 0), Trip("flow_ok", FALSE, 0)>>
GuardSnapshots ==
    {Wire(FALSE, {FailOff(Power(b1, d1, 0, 0, 0))}, GuardRules),
     Wire(FALSE, {FailOff(Power(b1, d1, 0, 0, 0)), Sensor(b2, d2)}, GuardRules)}
AllSnapshots == PlainSnapshots \cup GuardSnapshots

VARIABLE scene      \* which of the two instances below a behaviour is of

\* The session methods, with the watchdog reading what they write, over wiring
\* that comes and goes.
Sessions ==
    /\ scene = "sessions"
    /\ SessionCall \/ TickStep \/ TickEnd \/ Advance
    /\ snapshot' \in PlainSnapshots \cup {NoSnapshot}

\* The watchdog and the sensors, under a session the server reports (and ends).
Server == \E ids \in SUBSET Tools : ReconcileSessions(Tools, ids, 0)
Admin == \E s \in GuardSnapshots : ApplyState(s, {}, now)
Machine ==
    /\ scene = "machine"
    /\ Server \/ Admin \/ SensorCall \/ TickStep \/ TickEnd \/ Advance

Init == EngineInit /\ scene \in {"sessions", "machine"}
Next == (Sessions \/ Machine) /\ UNCHANGED scene
Spec == Init /\ [][Next]_<<engineVars, scene>>
=============================================================================
