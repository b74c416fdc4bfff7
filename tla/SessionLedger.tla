--------------------------- MODULE SessionLedger ---------------------------
(***************************************************************************)
(* What the billing of metered tools promises a member, whichever requests *)
(* serve the session and whatever fails between their database calls: a    *)
(* session is opened on a tool nobody else has open, holding an amount     *)
(* fixed there and then; it is debited once, within the hold; and only a   *)
(* debited session is closed, for good.  ToolSession implements it.        *)
(***************************************************************************)
EXTENDS Integers

CONSTANTS Ids, Tools, Members,
          Fee,      \* the least a session costs, however short it is
          Hold,     \* the most, set aside while it is open
          Unpaid    \* the charge of a session not debited yet

VARIABLES session,  \* id -> where the session stands and what it holds
          charge    \* id -> what it was debited

ledgerVars == <<session, charge>>

NoSession == [phase |-> "none", tool |-> Unpaid, member |-> Unpaid, hold |-> 0]

LedgerInit ==
    /\ session = [id \in Ids |-> NoSession]
    /\ charge = [id \in Ids |-> Unpaid]

Open(id, t, m) ==
    /\ session[id] = NoSession /\ charge[id] = Unpaid
    /\ \A other \in Ids : session[other].phase = "open" => session[other].tool # t
    /\ session' = [session EXCEPT ![id] =
                     [phase |-> "open", tool |-> t, member |-> m, hold |-> Hold]]
    /\ UNCHANGED charge

Debit(id, amount) ==
    /\ session[id].phase = "open" /\ charge[id] = Unpaid
    /\ charge' = [charge EXCEPT ![id] = amount]
    /\ UNCHANGED session

Close(id) ==
    /\ session[id].phase = "open" /\ charge[id] # Unpaid
    /\ session' = [session EXCEPT ![id].phase = "closed"]
    /\ UNCHANGED charge

LedgerNext ==
    \E id \in Ids :
        \/ \E t \in Tools, m \in Members : Open(id, t, m)
        \/ \E amount \in Fee .. session[id].hold : Debit(id, amount)
        \/ Close(id)

LedgerSpec == LedgerInit /\ [][LedgerNext]_ledgerVars
=============================================================================
