----------------------------- MODULE MCOutside -----------------------------
(* Instances of the parts that follow an outside service: the membership    *)
(* ledger (Stripe), the mailing list (Groups.io) and the pages (git).  They *)
(* share no state the properties speak of, so a behaviour is of one part.   *)
EXTENDS Membership, MailingList, Pages, TLC

CONSTANTS u1, c1, h1, ticker,   \* a subscriber, a customer, a webhook request, the cycle
          m1, m2, auto, boss    \* mailboxes, the updater and an administrator

VARIABLE part       \* the part that runs

partVars == <<membershipVars, mailingVars, pagesVars, part>>

\* Months of two, one and two days.
Calendar == <<0, 2, 3, 5, 7, 9, 11>>
FirstM == u1 :> m1
Home == [slug |-> "index", symlink |-> FALSE, hidden |-> FALSE, readme |-> FALSE, markdown |-> TRUE]
Link == [Home EXCEPT !.slug = "secrets", !.symlink = TRUE]
EditionsM == {{}, {Home, Link}}
UpdaterM == "wiki" :> auto

Init ==
    /\ part \in {"membership", "mailing", "pages"}
    /\ MembershipInit
    /\ MailingListInit /\ (part # "mailing" => reader[u1].verified /\ reader[u1].mail = CHOOSE m \in Addresses : m[1] = m1)
    /\ PagesInit /\ (part # "pages" => upstream["wiki"] = [head |-> "main", refs |-> [b \in Branches |->
                          IF b = "main" THEN {[tree |-> {}, line |-> 0]} ELSE {}]])

\* The part that runs takes its steps, the others rest.
Next ==
    /\ UNCHANGED part
    /\ \/ /\ part = "membership" /\ MembershipNext
          /\ UNCHANGED <<mailingVars, pagesVars>>
       \/ /\ part = "mailing" /\ MailingListNext
          /\ UNCHANGED <<membershipVars, pagesVars>>
       \/ /\ part = "pages" /\ PagesNext
          /\ UNCHANGED <<membershipVars, mailingVars>>

\* What each part relies on, while it runs.
Fairness ==
    /\ \A j \in Cycles : WF_membershipVars(part = "membership" /\ CycleStep(j))
    /\ WF_mailingVars(part = "mailing" /\ \E ok \in BOOLEAN : groupsio_handle_event(ok))
    /\ \A k \in Reconcilers : WF_mailingVars(part = "mailing" /\ \E ok \in BOOLEAN :
           reconcile_once(k) \/ ReconcileAdds(k, ok) \/ ReconcileRemoves(k, ok) \/ ReconcileOptsOut(k))
    /\ \A k \in Kinds : WF_pagesVars(part = "pages" /\ AutoUpdate(k))
    /\ \A w \in Workers :
          /\ WF_pagesVars(part = "pages" /\ prepare(w))
          /\ WF_pagesVars(part = "pages" /\ (GitDone(w) \/ run_git_fails(w)))
          /\ WF_pagesVars(part = "pages" /\ publish_into(w))

Spec == Init /\ [][Next]_partVars /\ Fairness

-----------------------------------------------------------------------------
(* The properties of liveness, each of the behaviours in which its part runs. *)

\* Though webhooks are lost, calls fail and the server restarts, every payment of a linked customer is credited and
\* dues that fell due are debited or end the membership.
MembershipSettles == part = "membership" => EveryPaymentIsCredited /\ DuesAreSettled

\* The group and the members' wishes come to agree, those of members who left by the group's own link included.
MailingListSettles == part = "mailing" => RosterSettles /\ LeaversStayOut

\* Refreshes never fight over a working tree, and once upstream rests its pages are served.
PublishedPagesCatchUp == part = "pages" => []RefreshesDoNotFight /\ PagesCatchUp
=============================================================================
