------------------------------- MODULE MCSite -------------------------------
(* Instances of the parts around the tools: power distribution, the bypass  *)
(* sweeps, the device transport, the modules' reports and places.  They     *)
(* share no state the properties speak of, so a behaviour is of one part.   *)
EXTENDS Power, Bypass, Devices, Reports, Places, TLC

CONSTANTS c1, c2, o1, s1, s2, t1, t2,   \* circuits, outlets, receptacles, tools
          d1, d2, m1, i1, e1,           \* devices, module bindings, invitations
          a1, a2, a3, other, n1         \* places, the level outside the scheme, a name

VARIABLE part       \* the part that runs

partVars == <<powerVars, bypassVars, deviceVars, reportVars, placeVars, part>>

\* Circuits: one breaker, the same with an outlet, and two in line with two tools.
NoMap == [x \in {} |-> x]
Breaker(up) == [parent |-> up, limit |-> 1, locked |-> FALSE]
OneCircuit == [circuits |-> c1 :> Breaker(Unset), outlets |-> NoMap, receptacles |-> NoMap, plugged |-> NoMap]
TwoTools ==
    [circuits |-> c1 :> Breaker(Unset) @@ c2 :> Breaker(c1), outlets |-> o1 :> c1,
     receptacles |-> s1 :> o1 @@ s2 :> o1, plugged |-> t1 :> s1 @@ t2 :> s2]
WiringsM == {OneCircuit, [OneCircuit EXCEPT !.outlets = o1 :> c1], TwoTools}
\* The plug d1 speaks to the edge e1 alone.
EdgeM == d1 :> e1

Init ==
    /\ part \in {"power", "bypass", "devices", "reports", "places"}
    /\ PowerInit /\ (part # "power" => plugged[t1] = Unset /\ outlets = NoMap /\ amps[t1].draw = 0)
    /\ BypassInit
    /\ DevicesInit /\ (part # "devices" => \A d \in Kit : edgeFile[d].transport = "mqtt")
    /\ ReportsInit
    /\ PlacesInit

\* The part that runs takes its steps, the others rest.
Next ==
    /\ UNCHANGED part
    /\ \/ /\ part = "power" /\ PowerNext
          /\ UNCHANGED <<bypassVars, deviceVars, reportVars, placeVars>>
       \/ /\ part = "bypass" /\ BypassNext
          /\ UNCHANGED <<powerVars, deviceVars, reportVars, placeVars>>
       \/ /\ part = "devices" /\ DevicesNext
          /\ UNCHANGED <<powerVars, bypassVars, reportVars, placeVars>>
       \/ /\ part = "reports" /\ ReportsNext
          /\ UNCHANGED <<powerVars, bypassVars, deviceVars, placeVars>>
       \/ /\ part = "places" /\ PlacesNext
          /\ UNCHANGED <<powerVars, bypassVars, deviceVars, reportVars>>

\* What each part relies on, while it runs.
Fairness ==
    /\ WF_powerVars(part = "power" /\ power_state)
    /\ WF_powerVars(part = "power" /\ \E s \in snaps : apply_state(s))
    /\ \A t \in PoweredTools :
          /\ WF_powerVars(part = "power" /\ handle_power(t))
          /\ WF_powerVars(part = "power" /\ \E m \in posts : m.kind = "report" /\ m.tool = t /\ power_report(m))
    /\ \A c \in Circuits :
          WF_powerVars(part = "power" /\ \E m \in posts : m.kind = "trip" /\ m.circuit = c /\ power_trip(m))
    /\ WF_bypassVars(part = "bypass" /\ SweepReads(sweep_once))
    /\ WF_bypassVars(part = "bypass" /\ SweepReads(sweep_unbound_devices))
    /\ WF_bypassVars(part = "bypass" /\ SweepReads(check_unauthorized_power))
    /\ WF_bypassVars(part = "bypass" /\ \E r \in sweeping : write(r))
    /\ WF_deviceVars(part = "devices" /\ ServerResubscribes)
    /\ WF_deviceVars(part = "devices" /\ Reconnects(Server))
    /\ \A d \in Kit :
          /\ WF_deviceVars(part = "devices" /\ connect_once(d))
          /\ WF_deviceVars(part = "devices" /\ supervise(d))
          /\ WF_deviceVars(part = "devices" /\ Reconnects(d))
          /\ WF_deviceVars(part = "devices" /\ SendsOverSocket(d))
          /\ WF_deviceVars(part = "devices" /\ \E s \in HeldBy(d) : EdgeNotices(s))
    /\ \A d \in DOMAIN EdgeOf : WF_reportVars(part = "reports" /\ handle_alive(d))

Spec == Init /\ [][Next]_partVars /\ Fairness

-----------------------------------------------------------------------------
(* Properties of two parts at once, and those of liveness, each of the      *)
(* behaviours in which its part runs.                                       *)

\* No circuit comes to feed itself, and when draws and staff rest, circuits drawn over their limit have their tools
\* locked out, and the edge refuses exactly the tools the server has locked.
PowerLocksAgree == part = "power" => []CircuitsFormAForest /\ OverdrawnIsLocked /\ EdgeAgreesOnLocks

\* The log of the sweeps has a row for each change and each stretch of unauthorized power, no more, and comes to
\* tell the truth.
BypassLogIsTrue == part = "bypass" => [](LogHoldsTransitions /\ EpisodeReportedOnce) /\ LogCatchesUp

\* After the last outage the server is subscribed again, and every registered edge on a websocket is connected and
\* has handed over its scans.
DevicesReturn == part = "devices" => ServerHearsAgain /\ EdgeComesBack

\* A module behind an edge is heard at the server again and again, in whatever role it is wired.
ReportsAreHeard == part = "reports" => ModulesBehindAnEdgeAreHeard
=============================================================================
