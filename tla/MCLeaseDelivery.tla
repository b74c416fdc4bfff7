-------------------------- MODULE MCLeaseDelivery --------------------------
(* Small instances of LeaseDelivery: one tool, one or two plugs.           *)
EXTENDS LeaseDelivery, TLC

CONSTANTS t1, x1, b1, b2, d1, d2

Plug(id, device, stage, runOn, failOff) ==
    [id |-> id, device |-> device, role |-> "power", fail_off |-> failOff,
     start_stage |-> stage, start_delay |-> 0, run_on |-> runOn]
Wire(modules) ==
    t1 :> [external_id |-> x1, room |-> FALSE, modules |-> modules, interlocks |-> <<>>]

\* One plug that must be heard from, with run-on.
OnePlug == {Wire({Plug(b1, d1, 0, 1, TRUE)})}
\* An extractor, and behind it a machine.
TwoStages == {Wire({Plug(b1, d1, 0, 0, FALSE), Plug(b2, d2, 1, 0, FALSE)})}
=============================================================================
