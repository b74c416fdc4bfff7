------------------------------- MODULE Emails -------------------------------
(***************************************************************************)
(* Accounts and the email addresses they hold: registration, the           *)
(* user_emails table, confirmation links (server/src/api/auth.rs,          *)
(* api/users.rs and their queries in database.rs).                         *)
(*                                                                         *)
(* A statement is atomic and so is a transaction.  A handler that goes on  *)
(* after its first write, or that writes after a check somebody may        *)
(* overtake, leaves the rest of itself in pending: the rest happens later, *)
(* or never (the database fails, the process stops).  Registration is one  *)
(* step: the unique index on addresses refuses the second of two that      *)
(* overlap.  Passwords and who may call are in Login and Roles.            *)
(***************************************************************************)
EXTENDS Integers, FiniteSets

CONSTANTS
    Holders,        \* users
    Addresses,
    SetupAddress,   \* initial_setup.setup_admin_email
    ClaimTtl,       \* VERIFICATION_TOKEN_TTL_HOURS
    MaxEmailSteps,  \* bound: requests made
    MaxHour         \* bound: the clock

ASSUME EmailsAssumption ==
    /\ IsFiniteSet(Holders) /\ SetupAddress \in Addresses /\ "primary" \notin Addresses
    /\ ClaimTtl \in Nat \ {0} /\ MaxHour \in Nat

VARIABLES
    holders,    \* users: "none", "here" or "gone", for an id is never used again
    admins,     \* those created as administrators
    rows,       \* user_emails
    links,      \* email_verification_tokens not yet spent, with the address each was mailed to
    pending,    \* the rest of requests in progress
    mailOn,     \* email.enabled
    asked, hour,
    disturbed   \* whether requests overlapped, one failed, or mail was off

emailVars == <<holders, admins, rows, links, pending, mailOn, asked, hour, disturbed>>

Primary == "primary"   \* user_email_id NULL
Nobody == "nobody"

EmailsInit ==
    /\ holders = [u \in Holders |-> "none"] /\ admins = {} /\ rows = {} /\ links = {} /\ pending = {}
    /\ mailOn \in BOOLEAN /\ asked = 0 /\ hour = 0
    /\ disturbed = ~ mailOn

Here == {u \in Holders : holders[u] = "here"}
Ask ==
    /\ asked < MaxEmailSteps /\ asked' = asked + 1
    /\ disturbed' = (disturbed \/ pending # {})
RowsOf(u) == {r \in rows : r.owner = u}
Row(u, a, primary) ==
    [owner |-> u, address |-> a, primary |-> primary, verified |-> FALSE, at |-> hour, by |-> Nobody]

-----------------------------------------------------------------------------
(* The queries.  Addresses are compared folded to lower case, so an address *)
(* here is a folded one. *)

find_user_by_email(a) == {r.owner : r \in {q \in rows : q.address = a}}
find_user_email(a) == {r \in rows : r.address = a}
get_user_email(u, a) == {r \in RowsOf(u) : r.address = a}
stale_claim_cutoff == hour - ClaimTtl
\* The rows an unconfirmed secondary claim to a gives up to a new one.
StaleClaims(a) == {r \in rows : r.address = a /\ ~ r.verified /\ ~ r.primary /\ r.at < stale_claim_cutoff}

\* ON DELETE CASCADE: a link that names a row goes with it.
LinksWithout(gone) ==
    {l \in links : l.target = Primary \/ ~ \E r \in gone : r.owner = l.owner /\ r.address = l.target}
\* A statement that leaves the table as next; the unique index fails it otherwise.
Store(next, gone) ==
    /\ \A r, q \in next : r.address = q.address => r = q
    /\ rows' = next /\ links' = LinksWithout(gone)

db_add_user_email(u, a) ==
    Store((rows \ StaleClaims(a)) \cup {Row(u, a, FALSE)}, StaleClaims(a))
db_remove_user_email(u, a) == {r \in RowsOf(u) : r.address = a /\ ~ r.primary}
db_set_primary_user_email(u, a) ==
    /\ \E r \in RowsOf(u) : r.address = a /\ r.verified
    /\ rows' = {IF r.owner = u THEN [r EXCEPT !.primary = (r.address = a)] ELSE r : r \in rows}
replace_primary_user_email(u, a) ==
    LET gone == StaleClaims(a) \cup {r \in RowsOf(u) : r.primary}
    IN  Store((rows \ gone) \cup {Row(u, a, TRUE)}, gone)

\* Older links for the same row are spent.  Answers the links that are left and the new one.
KeepsOlder(u, target, to) == links \cup {[owner |-> u, target |-> target, to |-> to, until |-> hour + ClaimTtl]}
create_email_verification_token(u, target, to) ==
    {l \in links : ~ (l.owner = u /\ l.target = target)} \cup
        {[owner |-> u, target |-> target, to |-> to, until |-> hour + ClaimTtl]}
claim_email_verification_token(l) == l \in links /\ hour < l.until
\* With no row named, whichever row is the primary now.
mark_email_verified(l) ==
    {r \in RowsOf(l.owner) : IF l.target = Primary THEN r.primary ELSE r.address = l.target}

\* create_user with the trigger that seeds the primary row.
create_user(u, a) == holders' = [holders EXCEPT ![u] = "here"] /\ Store(rows \cup {Row(u, a, TRUE)}, {})
count_active_admins == Cardinality(admins \cap Here)
should_grant_admin_role(a) == a = SetupAddress

-----------------------------------------------------------------------------
(* The handlers. *)

\* A refusal for an address somebody holds.
Refused(a) ==
    /\ find_user_by_email(a) # {}
    /\ UNCHANGED <<holders, admins, rows, links, pending, mailOn, hour>>

Later(what, u, target, to) == [do |-> what, owner |-> u, target |-> target, to |-> to]

should_be_admin(u, a) == should_grant_admin_role(a) /\ count_active_admins = 0
register(u, a) ==
    /\ Ask /\ holders[u] = "none"
    /\ \/ Refused(a)
       \/ /\ find_user_by_email(a) = {} /\ create_user(u, a)
          /\ admins' = IF should_be_admin(u, a) THEN admins \cup {u} ELSE admins
          /\ pending' = pending \cup {Later("issue", u, Primary, a)}
          /\ UNCHANGED <<mailOn, hour>>

\* issue_verification_mail_for: nothing at all when mail is off.
issue_verification_mail_for(p) ==
    /\ p \in pending /\ p.do = "issue" /\ pending' = pending \ {p}
    /\ links' = IF mailOn /\ p.owner \in Here
                   /\ (p.target = Primary \/ get_user_email(p.owner, p.target) # {})
                THEN create_email_verification_token(p.owner, p.target, p.to) ELSE links
    /\ UNCHANGED <<holders, admins, rows, mailOn, asked, hour, disturbed>>

verify_email(l) ==
    /\ Ask /\ claim_email_verification_token(l)
    /\ links' = links \ {l}
    /\ pending' = pending \cup {Later("mark", l.owner, l.target, l.to)}
    /\ UNCHANGED <<holders, admins, rows, mailOn, hour>>
verify_email_marks(p) ==
    /\ p \in pending /\ p.do = "mark" /\ pending' = pending \ {p}
    /\ rows' = {IF r \in mark_email_verified(p)
                THEN [r EXCEPT !.verified = TRUE, !.by = IF r.verified THEN @ ELSE p.to] ELSE r : r \in rows}
    /\ UNCHANGED <<holders, admins, links, mailOn, asked, hour, disturbed>>

Resend(r) ==
    /\ Ask /\ r \in rows /\ ~ r.verified
    /\ pending' = pending \cup {Later("issue", r.owner, IF r.primary THEN Primary ELSE r.address, r.address)}
    /\ UNCHANGED <<holders, admins, rows, links, mailOn, hour>>
\* One finds the row by its address, the other by its id.
resend_verification(a) == mailOn /\ \E r \in find_user_email(a) : Resend(r)
resend_user_email(r) == Resend(r)

add_user_email(u, a) ==
    /\ Ask /\ u \in Here
    /\ \/ Refused(a)
       \/ /\ find_user_by_email(a) = {} /\ db_add_user_email(u, a)
          /\ pending' = pending \cup {Later("issue", u, a, a)}
          /\ UNCHANGED <<holders, admins, mailOn, hour>>
remove_user_email(u, a) ==
    /\ Ask /\ \E r \in get_user_email(u, a) : ~ r.primary
    /\ pending' = pending \cup {Later("remove", u, a, a)}
    /\ UNCHANGED <<holders, admins, rows, links, mailOn, hour>>
remove_user_email_deletes(p) ==
    /\ p \in pending /\ p.do = "remove" /\ pending' = pending \ {p}
    /\ Store(rows \ db_remove_user_email(p.owner, p.target), db_remove_user_email(p.owner, p.target))
    /\ UNCHANGED <<holders, admins, mailOn, asked, hour, disturbed>>
set_primary_user_email(u, a) ==
    /\ Ask /\ \E r \in get_user_email(u, a) : ~ r.primary /\ r.verified
    /\ db_set_primary_user_email(u, a)
    /\ UNCHANGED <<holders, admins, links, pending, mailOn, hour>>
\* update_user with a new email.
update_user_email(u, a) ==
    /\ Ask /\ u \in Here
    /\ \/ Refused(a)
       \/ /\ find_user_by_email(a) = {} /\ replace_primary_user_email(u, a)
          /\ pending' = pending \cup {Later("issue", u, Primary, a)}
          /\ UNCHANGED <<holders, admins, mailOn, hour>>
\* Users are deleted by administrators, never by themselves; rows and links cascade.
delete_user(caller, u) ==
    /\ Ask /\ caller \in admins \cap Here /\ u \in Here \ {caller}
    /\ holders' = [holders EXCEPT ![u] = "gone"] /\ rows' = rows \ RowsOf(u)
    /\ links' = {l \in links : l.owner # u}
    /\ UNCHANGED <<admins, pending, mailOn, hour>>

EmailRequestFails(p) ==
    /\ p \in pending /\ pending' = pending \ {p} /\ disturbed' = TRUE
    /\ UNCHANGED <<holders, admins, rows, links, mailOn, asked, hour>>
MailSwitched ==
    /\ asked < MaxEmailSteps /\ asked' = asked + 1 /\ mailOn' = ~ mailOn /\ disturbed' = TRUE
    /\ UNCHANGED <<holders, admins, rows, links, pending, hour>>
HourPasses ==
    /\ hour < MaxHour /\ hour' = hour + 1
    /\ UNCHANGED <<holders, admins, rows, links, pending, mailOn, asked, disturbed>>

EmailsNext ==
    \/ \E u \in Holders, a \in Addresses :
          \/ register(u, a) \/ add_user_email(u, a) \/ remove_user_email(u, a)
          \/ set_primary_user_email(u, a) \/ update_user_email(u, a)
    \/ \E l \in links : verify_email(l)
    \/ \E p \in pending : issue_verification_mail_for(p) \/ verify_email_marks(p) \/ remove_user_email_deletes(p) \/ EmailRequestFails(p)
    \/ \E a \in Addresses : resend_verification(a)
    \/ \E r \in rows : resend_user_email(r)
    \/ \E c, u \in Holders : delete_user(c, u)
    \/ MailSwitched \/ HourPasses

EmailsSpec == EmailsInit /\ [][EmailsNext]_emailVars

-----------------------------------------------------------------------------
(* Every account keeps exactly one primary address, whatever removals,      *)
(* promotions and replacements overlap: users.email mirrors it, and login,  *)
(* resets and dues mail all go by it.                                       *)
OnePrimaryEach == \A u \in Here : Cardinality({r \in RowsOf(u) : r.primary}) = 1

(* An address is confirmed by a link that was mailed to it, whatever is     *)
(* added, promoted, replaced and sent again before the link is opened.  A    *)
(* link for the primary names no row, so this rests on every replacement     *)
(* having spent the older links: when mail is off, a request fails or two    *)
(* overlap, it is not promised.                                              *)
ConfirmedByItsReader == ~ disturbed => \A r \in rows : r.verified => r.by = r.address

(* The setup address makes one administrator: registering it again after    *)
(* its first holder moved to another address makes a guest, as long as the  *)
(* first is still there.                                                    *)
SetupMintsOneAdmin == Cardinality(admins \cap Here) <= 1

(* An account and its addresses stay matched over every order of adding,    *)
(* promoting, replacing, removing and registering: one primary each,        *)
(* confirmed by who reads it, and one administrator from the setup address. *)
AddressesKeepTheirHolders == OnePrimaryEach /\ ConfirmedByItsReader /\ SetupMintsOneAdmin
=============================================================================
