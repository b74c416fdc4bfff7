------------------------------- MODULE Merging ------------------------------
(***************************************************************************)
(* Cards, duplicate accounts and merging one account into another          *)
(* (server/src/api/cards.rs, user_merge.rs, duplicates.rs, the merge       *)
(* handlers of api/admin.rs, api/profiles.rs for the legacy card field,    *)
(* and their queries).                                                     *)
(*                                                                         *)
(* The tables that refer to users are told apart by how a merge treats     *)
(* them: rows that move (PLAIN), rows unique to a user and a key           *)
(* (UNIQUE_PAIRS), access rules, cards.  A merge reads the two users rows  *)
(* and then does the rest in one transaction.                              *)
(***************************************************************************)
EXTENDS Integers, FiniteSets, FiniteSetsExt

CONSTANTS
    Persons,
    PersonLevel,        \* each person's effective level
    FoldedName, FoldedEmail,   \* fold_name and fold_email of what each goes by
    CardIds, Codes,
    Rows,               \* rows of the PLAIN tables
    PairKeys,           \* keys of UNIQUE_PAIRS rows
    Guarded,             \* resources with access rules
    MaxMergeSteps       \* bound: requests made

ASSUME MergingAssumption ==
    PersonLevel \in [Persons -> Nat] /\ "no one" \notin Persons /\ "no code" \notin Codes

VARIABLES
    persons,    \* users: here, active, the legacy card field of the profile, the next due date
    cards,      \* user_cards
    plain,      \* the owner of each PLAIN row
    pairs,      \* UNIQUE_PAIRS rows
    rules,      \* access_rules of kind user
    merging,    \* a merge between its reads and its transaction
    heir,       \* who each account was merged into, or itself
    mergesAsked

mergeVars == <<persons, cards, plain, pairs, rules, merging, heir, mergesAsked>>

NoCode == "no code"
NoOne == "no one"

MergingInit ==
    /\ persons = [u \in Persons |-> [here |-> TRUE, active |-> TRUE, field |-> NoCode, due |-> FALSE]]
    /\ cards = [c \in CardIds |-> [owner |-> NoOne, code |-> NoCode, status |-> "none", at |-> 0]]
    /\ plain = [r \in Rows |-> NoOne] /\ pairs = {} /\ rules = {}
    /\ merging = {} /\ heir = [u \in Persons |-> u] /\ mergesAsked = 0

People == {u \in Persons : persons[u].here}
Step == mergesAsked < MaxMergeSteps /\ mergesAsked' = mergesAsked + 1

-----------------------------------------------------------------------------
(* Cards. *)

LiveCards(code) == {c \in CardIds : cards[c].code = code /\ cards[c].status \in {"active", "disabled"}}
ReleasedCards(code) == {c \in CardIds : cards[c].code = code /\ cards[c].status = "released"}
find_user_by_profile_field(code) == {u \in People : persons[u].field = code}

\* The card a code stands for: a live one, else the last one released.
card_of(code) ==
    IF LiveCards(code) # {} THEN LiveCards(code)
    ELSE {c \in ReleasedCards(code) : \A d \in ReleasedCards(code) : cards[d].at <= cards[c].at}
\* Whom a code resolves to and whether it grants access; empty for Unknown.
resolve_card(code) ==
    IF card_of(code) # {} THEN {<<cards[c].owner, cards[c].status = "active">> : c \in card_of(code)}
    ELSE {<<u, TRUE>> : u \in find_user_by_profile_field(code)}

\* The partial unique index: one card that is not released for each code.
OneLive(next) ==
    \A c, d \in CardIds : c # d /\ next[c].code = next[d].code /\ next[c].code # NoCode
        => "released" \in {next[c].status, next[d].status}
create_card(c, u, code) == [cards EXCEPT ![c] = [owner |-> u, code |-> code, status |-> "active", at |-> mergesAsked]]
issue_card(c, u, code) ==
    /\ Step /\ u \in People /\ cards[c].status = "none"
    /\ OneLive(create_card(c, u, code)) /\ cards' = create_card(c, u, code)
    /\ UNCHANGED <<persons, plain, pairs, rules, merging, heir>>
\* Either is allowed in any status.
SetStatus(c, status) ==
    /\ Step /\ cards[c].status # "none"
    /\ OneLive([cards EXCEPT ![c].status = status])
    /\ cards' = [cards EXCEPT ![c].status = status]
    /\ UNCHANGED <<persons, plain, pairs, rules, merging, heir>>
disable_card(c) == SetStatus(c, "disabled")
release_card(c) == SetStatus(c, "released")
update_user_profile(u, code) ==
    /\ Step /\ u \in People /\ persons' = [persons EXCEPT ![u].field = code]
    /\ UNCHANGED <<cards, plain, pairs, rules, merging, heir>>

-----------------------------------------------------------------------------
(* What the rest of the system writes about a user. *)

Recorded(u, r) ==
    /\ Step /\ u \in People /\ plain[r] = NoOne /\ plain' = [plain EXCEPT ![r] = u]
    /\ UNCHANGED <<persons, cards, pairs, rules, merging, heir>>
PairWritten(u, k) ==
    /\ Step /\ u \in People /\ ~ \E p \in pairs : p.owner = u /\ p.key = k
    /\ pairs' = pairs \cup {[owner |-> u, key |-> k]}
    /\ UNCHANGED <<persons, cards, plain, rules, merging, heir>>
RuleWritten(u, p, effect) ==
    /\ Step /\ u \in People /\ rules' = rules \cup {[who |-> u, place |-> p, effect |-> effect]}
    /\ UNCHANGED <<persons, cards, plain, pairs, merging, heir>>
Enrolled(u) ==
    /\ Step /\ u \in People /\ persons' = [persons EXCEPT ![u].due = TRUE]
    /\ UNCHANGED <<cards, plain, pairs, rules, merging, heir>>
Deactivated(u) ==
    /\ Step /\ u \in People /\ persons' = [persons EXCEPT ![u].active = FALSE]
    /\ UNCHANGED <<cards, plain, pairs, rules, merging, heir>>

-----------------------------------------------------------------------------
(* duplicates.rs. *)

card_owner(code) == {r[1] : r \in resolve_card(code)}
shared_card == UNION {{{u, v} : v \in (card_owner(persons[u].field) \cap People) \ {u}} :
                      u \in {w \in People : persons[w].field # NoCode}}
candidates ==
    shared_card \cup
    {{p[1], p[2]} : p \in {q \in People \X People : q[1] # q[2] /\
                  (FoldedName[q[1]] = FoldedName[q[2]] \/ FoldedEmail[q[1]] = FoldedEmail[q[2]])}}

-----------------------------------------------------------------------------
(* Merging a into s.  before holds the two users rows as they were read. *)

colliding(s, a) == {p \in pairs : p.owner = a /\ \E q \in pairs : q.owner = s /\ q.key = p.key}
access_rule_conflict(s, a) ==
    \E r, q \in rules : r.who = a /\ q.who = s /\ r.place = q.place /\ r.effect # q.effect
\* The codes of plan: what the rows read and the tables now say.
plan(s, a, before) ==
    {"absorbed_login_lost"}
    \cup {w \in {"duplicate_rows"} : colliding(s, a) # {}}
    \cup {w \in {"roles_raise_level"} : PersonLevel[a] > PersonLevel[s]}
    \cup {w \in {"access_rule_conflict"} : access_rule_conflict(s, a)}
    \cup {w \in {"activity_differs"} : before[s].active # before[a].active}
    \cup {w \in {"profile_conflicts"} : NoCode \notin {before[s].field, before[a].field}
                                          /\ before[s].field # before[a].field}
    \cup {w \in {"next_due_adopted"} : before[a].due /\ ~ before[s].due}
merged_profile(s, a, before) == IF before[s].field # NoCode THEN before[s].field ELSE before[a].field

\* merge_parties: two others, both below the caller.
merge_parties(caller, s, a) ==
    /\ Cardinality({caller, s, a}) = 3 /\ {caller, s, a} \subseteq People
    /\ PersonLevel[s] < PersonLevel[caller] /\ PersonLevel[a] < PersonLevel[caller]
merge_users(caller, s, a) ==
    /\ Step /\ merging = {} /\ merge_parties(caller, s, a)
    /\ merging' = {[s |-> s, a |-> a, before |-> persons, acknowledged |-> plan(s, a, persons)]}
    /\ UNCHANGED <<persons, cards, plain, pairs, rules, heir>>

\* UPDATE ... WHERE the same rule is not there yet, then DELETE what is left.
AllowsMoved(s, a) == {[r EXCEPT !.who = IF @ = a THEN s ELSE @] : r \in {q \in rules : q.who # a \/ q.effect = "allow"}}
move_rules(s, a) == {[r EXCEPT !.who = IF @ = a THEN s ELSE @] : r \in rules}
\* A pair the survivor has too is dropped.
move_pairs(s, a) == {IF p.owner = a THEN [p EXCEPT !.owner = s] ELSE p : p \in pairs \ colliding(s, a)}
move_plain(s, a) == [r \in Rows |-> IF plain[r] = a THEN s ELSE plain[r]]
execute ==
    /\ \E m \in merging : LET s == m.s  a == m.a  before == m.before
       IN  IF {s, a} \subseteq People /\ plan(s, a, before) = m.acknowledged
           THEN /\ plain' = move_plain(s, a) /\ pairs' = move_pairs(s, a) /\ rules' = move_rules(s, a)
                /\ cards' = [c \in CardIds |-> IF cards[c].owner = a THEN [cards[c] EXCEPT !.owner = s] ELSE cards[c]]
                /\ persons' = [persons EXCEPT ![a].here = FALSE,
                                 ![s].field = merged_profile(s, a, before), ![s].due = @ \/ before[a].due]
                /\ heir' = [u \in Persons |-> IF heir[u] = a THEN s ELSE heir[u]]
           ELSE UNCHANGED <<persons, cards, plain, pairs, rules, heir>>
    /\ merging' = {} /\ UNCHANGED mergesAsked

\* delete_user: rows with a foreign key cascade, access rules keep the id as text.
DeletesUser(caller, u) ==
    /\ Step /\ caller \in People /\ u \in People \ {caller}
    /\ persons' = [persons EXCEPT ![u].here = FALSE]
    /\ cards' = [c \in CardIds |-> IF cards[c].owner = u
                                   THEN [owner |-> NoOne, code |-> NoCode, status |-> "none", at |-> 0] ELSE cards[c]]
    /\ plain' = [r \in Rows |-> IF plain[r] = u THEN NoOne ELSE plain[r]]
    /\ pairs' = {p \in pairs : p.owner # u}
    /\ heir' = [v \in Persons |-> IF heir[v] = u THEN NoOne ELSE heir[v]]
    /\ UNCHANGED <<rules, merging>>

MergingNext ==
    \/ \E u \in Persons :
         \/ \E c \in CardIds, code \in Codes : issue_card(c, u, code)
         \/ \E code \in Codes : update_user_profile(u, code)
         \/ \E r \in Rows : Recorded(u, r)
         \/ \E k \in PairKeys : PairWritten(u, k)
         \/ \E p \in Guarded, effect \in {"allow", "deny"} : RuleWritten(u, p, effect)
         \/ Enrolled(u) \/ Deactivated(u)
         \/ \E s \in Persons : DeletesUser(u, s) \/ \E a \in Persons : merge_users(u, s, a)
    \/ \E c \in CardIds : disable_card(c) \/ release_card(c)
    \/ execute

MergingSpec == MergingInit /\ [][MergingNext]_mergeVars

-----------------------------------------------------------------------------
(* Merges lose no history: through any chain of them, a row written about   *)
(* an account belongs to its heir for as long as that account is there.     *)
HistoryFollowsTheHeir ==
    [][\A r \in Rows : plain[r] # NoOne /\ heir'[plain[r]] # NoOne => plain'[r] = heir'[plain[r]]]_mergeVars

(* A place denied to an account is denied to whoever it was merged into,    *)
(* even when the other account was allowed there: deny wins afterwards too. *)
DenialOutlivesMerges ==
    [][\A r \in rules : r.effect = "deny" /\ r.who \in People /\ heir'[r.who] # NoOne
          => [r EXCEPT !.who = heir'[r.who]] \in rules']_mergeVars

(* A disabled card opens nothing while its row is there and no card was     *)
(* issued for its code since: an old value left in some profile, or carried *)
(* over by a merge, does not bring it back.                                 *)
DisabledStaysDisabled ==
    \A c \in CardIds : cards[c].status = "disabled" => \A r \in resolve_card(cards[c].code) : ~ r[2]

(* When no duplicate is proposed, no card code is held by two accounts, be  *)
(* it in a profile or as a card, active or not.                             *)
NoCandidatesNoSharing ==
    candidates = {} => \A code \in Codes :
        Cardinality(find_user_by_profile_field(code) \cup {cards[c].owner : c \in card_of(code)}) <= 1

(* Through any chain of merges what an account had done, what it was denied *)
(* and which cards it had lost stand for its heir.                          *)
MergesKeepWhatCounts ==
    /\ HistoryFollowsTheHeir /\ DenialOutlivesMerges
    /\ [][DisabledStaysDisabled' /\ NoCandidatesNoSharing']_mergeVars
=============================================================================
