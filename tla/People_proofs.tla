---------------------------- MODULE People_proofs ----------------------------
(***************************************************************************)
(* Proofs about people: accounts and their addresses, training, courses,   *)
(* roles and merged accounts, for any number of them and of requests at    *)
(* once.                                                                   *)
(***************************************************************************)
EXTENDS Emails, Cmi5, Roles, Merging, FiniteSetTheorems, WellFoundedInduction, TLAPS

-----------------------------------------------------------------------------
(* Addresses: the tables *)

EmailRows == [owner : Holders, address : Addresses, primary : BOOLEAN, verified : BOOLEAN,
              at : Int, by : Addresses \cup {Nobody}]
Targets == Addresses \cup {Primary}
EmailLinks == [owner : Holders, target : Targets, to : Addresses, until : Int]
Rests == [do : {"issue", "mark", "remove"}, owner : Holders, target : Targets, to : Addresses]
EmailsTyped ==
    /\ holders \in [Holders -> {"none", "here", "gone"}] /\ rows \subseteq EmailRows
    /\ links \subseteq EmailLinks /\ pending \subseteq Rests
    /\ hour \in Nat /\ mailOn \in BOOLEAN /\ disturbed \in BOOLEAN
\* An address is on one row, of an account that is there.
AddressesApart == \A r, q \in rows : r.address = q.address => r = q
RowsAreHeld == \A r \in rows : r.owner \in Here
\* An account that is there has one primary row.
PrimaryStands ==
    \A u \in Here : \E r \in rows : /\ r.owner = u /\ r.primary = TRUE
                                    /\ \A q \in rows : q.owner = u /\ q.primary = TRUE => q = r
\* One administrator is there, and none is yet to come.
AdminsApart ==
    /\ admins \subseteq Holders /\ \A x \in admins : holders[x] # "none"
    /\ \A x, y \in admins : holders[x] = "here" /\ holders[y] = "here" => x = y
TablesHold == EmailsTyped /\ AddressesApart /\ RowsAreHeld /\ PrimaryStands /\ AdminsApart

\* A new row.
LEMMA RowTyped ==
    ASSUME EmailsTyped, NEW u \in Holders, NEW a \in Addresses, NEW b \in BOOLEAN
    PROVE  /\ Row(u, a, b) \in EmailRows
           /\ Row(u, a, b).owner = u /\ Row(u, a, b).address = a /\ Row(u, a, b).primary = b /\ Row(u, a, b).verified = FALSE
BY DEF Row, EmailRows, EmailsTyped

\* What a request leaves to be done.
LEMMA LaterTyped ==
    ASSUME NEW what \in {"issue", "mark", "remove"}, NEW u \in Holders, NEW target \in Targets, NEW to \in Addresses
    PROVE  /\ Later(what, u, target, to) \in Rests
           /\ Later(what, u, target, to).do = what /\ Later(what, u, target, to).owner = u
           /\ Later(what, u, target, to).target = target /\ Later(what, u, target, to).to = to
BY DEF Later, Rests

\* A link that is mailed.
LEMMA LinkTyped ==
    ASSUME EmailsTyped, NEW u \in Holders, NEW target \in Targets, NEW to \in Addresses,
           NEW l \in create_email_verification_token(u, target, to)
    PROVE  /\ l \in EmailLinks
           /\ \/ l \in links /\ ~ (l.owner = u /\ l.target = target)
              \/ l.owner = u /\ l.target = target /\ l.to = to
<1> DEFINE new == [owner |-> u, target |-> target, to |-> to, until |-> hour + ClaimTtl]
<1>1. new \in EmailLinks /\ new.owner = u /\ new.target = target /\ new.to = to
  BY EmailsAssumption DEF EmailsTyped, EmailLinks
<1>2. l = new \/ (l \in links /\ ~ (l.owner = u /\ l.target = target))
  BY DEF create_email_verification_token
<1> HIDE DEF new
<1> QED  BY <1>1, <1>2 DEF EmailsTyped

\* The rest of every request, and every link, is of an account and an address.
LEMMA MailStaysTyped ==
    ASSUME EmailsTyped, EmailsNext
    PROVE  /\ links' \subseteq EmailLinks /\ pending' \subseteq Rests
           /\ hour' \in Nat /\ mailOn' \in BOOLEAN /\ disturbed' \in BOOLEAN
<1>1. links \subseteq EmailLinks /\ pending \subseteq Rests /\ rows \subseteq EmailRows /\ Addresses \subseteq Targets
      /\ Primary \in Targets
  BY DEF EmailsTyped, Targets
<1>2. \A r \in rows : r.owner \in Holders /\ r.address \in Addresses
  BY <1>1 DEF EmailRows
<1>3. \A l \in links : l.owner \in Holders /\ l.target \in Targets /\ l.to \in Addresses
  BY <1>1 DEF EmailLinks
<1>4. \A p \in pending : p.owner \in Holders /\ p.target \in Targets /\ p.to \in Addresses
  BY <1>1 DEF Rests
<1>5. links' \subseteq EmailLinks
  <2>1. \A gone : LinksWithout(gone) \subseteq links
    BY DEF LinksWithout
  <2>2. ASSUME NEW p \in pending, issue_verification_mail_for(p) PROVE links' \subseteq EmailLinks
    <3>1. links' = links \/ links' = create_email_verification_token(p.owner, p.target, p.to)
      BY <2>2 DEF issue_verification_mail_for
    <3> QED  BY <1>1, <1>4, <3>1, LinkTyped
  <2>3. \/ links' = links \/ (\E gone : links' = LinksWithout(gone))
        \/ (\E l \in links : links' = links \ {l}) \/ (\E u \in Holders : links' = {l \in links : l.owner # u})
        \/ \E p \in pending : issue_verification_mail_for(p)
    BY ZenonT(60) DEF EmailsNext, register, create_user, Refused, add_user_email, db_add_user_email, remove_user_email,
           set_primary_user_email, update_user_email, replace_primary_user_email, verify_email, verify_email_marks,
           remove_user_email_deletes, EmailRequestFails, resend_verification, resend_user_email, Resend, delete_user,
           MailSwitched, HourPasses, Store
  <2> QED  BY <1>1, <2>1, <2>2, <2>3
<1>6. pending' \subseteq Rests
  <2>1. ASSUME NEW u \in Holders, NEW a \in Addresses,
               \/ register(u, a) \/ add_user_email(u, a) \/ remove_user_email(u, a)
               \/ set_primary_user_email(u, a) \/ update_user_email(u, a)
        PROVE  pending' \subseteq Rests
    <3>1. \/ pending' = pending
          \/ \E what \in {"issue", "mark", "remove"}, target \in Targets : pending' = pending \cup {Later(what, u, target, a)}
      BY <1>1, <2>1 DEF register, add_user_email, remove_user_email, set_primary_user_email, update_user_email, Refused
    <3> QED  BY <1>1, <3>1, LaterTyped
  <2>2. ASSUME NEW l \in links, verify_email(l) PROVE pending' \subseteq Rests
    BY <1>1, <1>3, <2>2, LaterTyped DEF verify_email
  <2>3. ASSUME NEW r \in rows, Resend(r) PROVE pending' \subseteq Rests
    <3>1. PICK target \in Targets : pending' = pending \cup {Later("issue", r.owner, target, r.address)}
      BY <1>1, <1>2, <2>3 DEF Resend
    <3> QED  BY <1>1, <1>2, <3>1, LaterTyped
  <2>4. ASSUME NEW p \in pending, \/ issue_verification_mail_for(p) \/ verify_email_marks(p)
                                  \/ remove_user_email_deletes(p) \/ EmailRequestFails(p)
        PROVE  pending' \subseteq Rests
    BY <1>1, <2>4 DEF issue_verification_mail_for, verify_email_marks, remove_user_email_deletes, EmailRequestFails
  <2>5. CASE (\E c, u \in Holders : delete_user(c, u)) \/ MailSwitched \/ HourPasses
    BY <1>1, <2>5 DEF delete_user, MailSwitched, HourPasses
  <2>6. (\E a \in Addresses : resend_verification(a)) \/ (\E r \in rows : resend_user_email(r)) => \E r \in rows : Resend(r)
    BY DEF resend_verification, resend_user_email, find_user_email
  <2> QED  BY <2>1, <2>2, <2>3, <2>4, <2>5, <2>6 DEF EmailsNext
<1>7. hour' \in Nat
  <2>1. hour' = hour \/ hour' = hour + 1
    BY DEF EmailsNext, register, Refused, add_user_email, remove_user_email, set_primary_user_email, update_user_email,
           issue_verification_mail_for, verify_email, verify_email_marks, remove_user_email_deletes, EmailRequestFails,
           resend_verification, resend_user_email, Resend, delete_user, MailSwitched, HourPasses
  <2> QED  BY <2>1 DEF EmailsTyped
<1>8. mailOn' \in BOOLEAN
  <2>1. mailOn' = mailOn \/ mailOn' = ~ mailOn
    BY Zenon DEF EmailsNext, register, Refused, add_user_email, remove_user_email, set_primary_user_email, update_user_email,
           issue_verification_mail_for, verify_email, verify_email_marks, remove_user_email_deletes, EmailRequestFails,
           resend_verification, resend_user_email, Resend, delete_user, MailSwitched, HourPasses
  <2> QED  BY <2>1, Zenon DEF EmailsTyped
<1>9. disturbed' \in BOOLEAN
  <2>1. disturbed' = disturbed \/ disturbed' = TRUE \/ disturbed' = (disturbed \/ pending # {})
    BY Zenon DEF EmailsNext, register, add_user_email, remove_user_email, set_primary_user_email, update_user_email,
           issue_verification_mail_for, verify_email, verify_email_marks, remove_user_email_deletes, EmailRequestFails,
           resend_verification, resend_user_email, Resend, delete_user, MailSwitched, HourPasses, Ask
  <2> QED  BY <2>1 DEF EmailsTyped
<1> QED  BY <1>5, <1>6, <1>7, <1>8, <1>9

\* A table with one row more, that is no primary, and without some that were none.
LEMMA SecondaryAdded ==
    ASSUME TablesHold, NEW u \in Here, NEW a \in Addresses, db_add_user_email(u, a), UNCHANGED <<holders, admins>>
    PROVE  rows' \subseteq EmailRows /\ AddressesApart' /\ RowsAreHeld' /\ PrimaryStands'
<1>1. PICK new \in EmailRows : new = Row(u, a, FALSE) /\ new.owner = u /\ new.primary = FALSE
  BY RowTyped DEF TablesHold, Here
<1>2. rows' = (rows \ StaleClaims(a)) \cup {new} /\ AddressesApart'
  BY <1>1 DEF db_add_user_email, Store, AddressesApart
<1>3. \A r \in rows : r \in StaleClaims(a) => r.primary # TRUE
  BY DEF StaleClaims
<1>4. Here' = Here
  BY DEF Here
<1>5. rows' \subseteq EmailRows /\ RowsAreHeld'
  BY <1>1, <1>2, <1>4 DEF TablesHold, EmailsTyped, RowsAreHeld
<1>6. ASSUME NEW v \in Here
      PROVE  \E r \in rows' : /\ r.owner = v /\ r.primary = TRUE
                              /\ \A q \in rows' : q.owner = v /\ q.primary = TRUE => q = r
  <2>1. PICK r \in rows : /\ r.owner = v /\ r.primary = TRUE
                          /\ \A q \in rows : q.owner = v /\ q.primary = TRUE => q = r
    BY DEF TablesHold, PrimaryStands
  <2>2. r \in rows' /\ new # r
    BY <1>1, <1>2, <1>3, <2>1, Zenon
  <2>3. ASSUME NEW q \in rows', q.owner = v, q.primary = TRUE PROVE q = r
    <3>1. q # new
      BY <1>1, <2>3, Zenon
    <3> QED  BY <1>2, <2>1, <2>3, <3>1
  <2> QED  BY <2>1, <2>2, <2>3
<1> QED  BY <1>2, <1>4, <1>5, <1>6 DEF PrimaryStands

\* A table whose primary row of one account is another.
LEMMA PrimaryReplaced ==
    ASSUME TablesHold, NEW u \in Here, NEW a \in Addresses, replace_primary_user_email(u, a), UNCHANGED <<holders, admins>>
    PROVE  rows' \subseteq EmailRows /\ AddressesApart' /\ RowsAreHeld' /\ PrimaryStands'
<1>1. PICK new \in EmailRows : new = Row(u, a, TRUE) /\ new.owner = u /\ new.primary = TRUE
  BY RowTyped DEF TablesHold, Here
<1> DEFINE gone == StaleClaims(a) \cup {r \in RowsOf(u) : r.primary}
<1>2. rows' = (rows \ gone) \cup {new} /\ AddressesApart'
  BY <1>1 DEF replace_primary_user_email, Store, AddressesApart
<1>3. \A r \in rows : r \in gone => r.primary # TRUE \/ r.owner = u
  BY DEF StaleClaims, RowsOf
<1>4. \A r \in rows : r.owner = u /\ r.primary = TRUE => r \in gone
  BY DEF RowsOf
<1> HIDE DEF gone
<1>5. Here' = Here
  BY DEF Here
<1>6. rows' \subseteq EmailRows /\ RowsAreHeld'
  BY <1>1, <1>2, <1>5 DEF TablesHold, EmailsTyped, RowsAreHeld
<1>7. ASSUME NEW v \in Here
      PROVE  \E r \in rows' : /\ r.owner = v /\ r.primary = TRUE
                              /\ \A q \in rows' : q.owner = v /\ q.primary = TRUE => q = r
  <2>1. CASE v = u
    BY <1>1, <1>2, <1>4, <2>1
  <2>2. CASE v # u
    <3>1. PICK r \in rows : /\ r.owner = v /\ r.primary = TRUE
                            /\ \A q \in rows : q.owner = v /\ q.primary = TRUE => q = r
      BY DEF TablesHold, PrimaryStands
    <3>2. r \in rows'
      BY <1>2, <1>3, <2>2, <3>1
    <3>3. ASSUME NEW q \in rows', q.owner = v, q.primary = TRUE PROVE q = r
      <4>1. q # new
        BY <1>1, <2>2, <3>3
      <4> QED  BY <1>2, <3>1, <3>3, <4>1
    <3> QED  BY <3>1, <3>2, <3>3
  <2> QED  BY <2>1, <2>2
<1> QED  BY <1>2, <1>5, <1>6, <1>7 DEF PrimaryStands

\* A table without some rows that were no primary.
LEMMA SecondaryRemoved ==
    ASSUME TablesHold, NEW gone, \A r \in gone : ~ r.primary, rows' = rows \ gone, UNCHANGED <<holders, admins>>
    PROVE  rows' \subseteq EmailRows /\ AddressesApart' /\ RowsAreHeld' /\ PrimaryStands'
<1>1. Here' = Here
  BY DEF Here
<1> QED  BY <1>1 DEF TablesHold, EmailsTyped, AddressesApart, RowsAreHeld, PrimaryStands

\* The primary of one account moved to another of its rows.
LEMMA PrimaryMoved ==
    ASSUME TablesHold, NEW u \in Holders, NEW a \in Addresses, db_set_primary_user_email(u, a), UNCHANGED <<holders, admins>>
    PROVE  rows' \subseteq EmailRows /\ AddressesApart' /\ RowsAreHeld' /\ PrimaryStands'
<1> DEFINE f(r) == IF r.owner = u THEN [r EXCEPT !.primary = (r.address = a)] ELSE r
<1>1. rows' = {f(r) : r \in rows}
  BY DEF db_set_primary_user_email
<1>2. ASSUME NEW r \in rows
      PROVE  /\ f(r) \in EmailRows /\ f(r).owner = r.owner /\ f(r).address = r.address
             /\ f(r).verified = r.verified /\ f(r).by = r.by
             /\ r.owner = u => f(r).primary = (r.address = a)
             /\ r.owner # u => f(r) = r
  BY DEF TablesHold, EmailsTyped, EmailRows
<1>3. PICK c \in rows : c.owner = u /\ c.address = a
  BY DEF db_set_primary_user_email, RowsOf
<1> HIDE DEF f
<1>4. Here' = Here
  BY DEF Here
<1>5. rows' \subseteq EmailRows /\ AddressesApart' /\ RowsAreHeld'
  BY <1>1, <1>2, <1>4 DEF TablesHold, AddressesApart, RowsAreHeld
<1>6. ASSUME NEW v \in Here
      PROVE  \E r \in rows' : /\ r.owner = v /\ r.primary = TRUE
                              /\ \A q \in rows' : q.owner = v /\ q.primary = TRUE => q = r
  <2>1. CASE v = u
    <3>1. f(c) \in rows' /\ f(c).owner = v /\ f(c).primary = TRUE
      BY <1>1, <1>2, <1>3, <2>1
    <3>2. ASSUME NEW q \in rows', q.owner = v, q.primary = TRUE PROVE q = f(c)
      <4>1. PICK r \in rows : q = f(r)
        BY <1>1
      <4>2. r.owner = u /\ r.address = a
        BY <1>2, <2>1, <3>2, <4>1
      <4> QED  BY <1>3, <4>1, <4>2 DEF TablesHold, AddressesApart
    <3> QED  BY <3>1, <3>2
  <2>2. CASE v # u
    <3>1. \A q : q.owner = v => (q \in rows' <=> q \in rows)
      BY <1>1, <1>2, <2>2
    <3> QED  BY <3>1 DEF TablesHold, PrimaryStands
  <2> QED  BY <2>1, <2>2
<1> QED  BY <1>4, <1>5, <1>6 DEF PrimaryStands

\* A row confirmed: nothing else of the table changes.
LEMMA RowMarked ==
    ASSUME TablesHold, NEW p \in pending, verify_email_marks(p)
    PROVE  /\ rows' \subseteq EmailRows /\ AddressesApart' /\ RowsAreHeld' /\ PrimaryStands'
           /\ \A q \in rows' : \E r \in rows :
                 /\ q.owner = r.owner /\ q.address = r.address /\ q.primary = r.primary
                 /\ \/ q = r
                    \/ r \in mark_email_verified(p) /\ q.verified = TRUE /\ (r.verified = TRUE => q.by = r.by)
                       /\ (r.verified = FALSE => q.by = p.to)
<1> DEFINE f(r) == IF r \in mark_email_verified(p)
                   THEN [r EXCEPT !.verified = TRUE, !.by = IF r.verified THEN @ ELSE p.to] ELSE r
<1>1. rows' = {f(r) : r \in rows}
  BY DEF verify_email_marks
<1>2. p.to \in Addresses
  BY DEF TablesHold, EmailsTyped, Rests
<1>3. ASSUME NEW r \in rows
      PROVE  /\ f(r) \in EmailRows /\ f(r).owner = r.owner /\ f(r).address = r.address /\ f(r).primary = r.primary
             /\ \/ f(r) = r
                \/ r \in mark_email_verified(p) /\ f(r).verified = TRUE /\ (r.verified = TRUE => f(r).by = r.by)
                   /\ (r.verified = FALSE => f(r).by = p.to)
  BY <1>2 DEF TablesHold, EmailsTyped, EmailRows
<1> HIDE DEF f
<1>4. Here' = Here
  BY DEF Here, verify_email_marks
<1>5. rows' \subseteq EmailRows /\ AddressesApart' /\ RowsAreHeld'
  <2>1. rows' \subseteq EmailRows /\ RowsAreHeld'
    BY <1>1, <1>3, <1>4 DEF TablesHold, RowsAreHeld
  <2>2. ASSUME NEW q \in rows', NEW s \in rows', q.address = s.address PROVE q = s
    <3>1. PICK r \in rows, t \in rows : q = f(r) /\ s = f(t)
      BY <1>1
    <3>2. r.address = t.address
      BY <1>3, <2>2, <3>1
    <3> QED  BY <3>1, <3>2 DEF TablesHold, AddressesApart
  <2> QED  BY <2>1, <2>2 DEF AddressesApart
<1>6. ASSUME NEW v \in Here
      PROVE  \E r \in rows' : /\ r.owner = v /\ r.primary = TRUE
                              /\ \A q \in rows' : q.owner = v /\ q.primary = TRUE => q = r
  <2>1. PICK r \in rows : /\ r.owner = v /\ r.primary = TRUE
                          /\ \A q \in rows : q.owner = v /\ q.primary = TRUE => q = r
    BY DEF TablesHold, PrimaryStands
  <2>2. f(r) \in rows' /\ f(r).owner = v /\ f(r).primary = TRUE
    BY <1>1, <1>3, <2>1
  <2>3. ASSUME NEW q \in rows', q.owner = v, q.primary = TRUE PROVE q = f(r)
    <3>1. PICK s \in rows : q = f(s)
      BY <1>1
    <3>2. s.owner = v /\ s.primary = TRUE
      BY <1>3, <2>3, <3>1
    <3> QED  BY <2>1, <3>1, <3>2
  <2> QED  BY <2>2, <2>3
<1>7. PrimaryStands'
  BY <1>4, <1>6 DEF PrimaryStands
<1>8. ASSUME NEW q \in rows'
      PROVE  \E r \in rows :
                 /\ q.owner = r.owner /\ q.address = r.address /\ q.primary = r.primary
                 /\ \/ q = r
                    \/ r \in mark_email_verified(p) /\ q.verified = TRUE /\ (r.verified = TRUE => q.by = r.by)
                       /\ (r.verified = FALSE => q.by = p.to)
  <2>1. PICK r \in rows : q = f(r)
    BY <1>1
  <2> QED  BY <1>3, <2>1, Zenon
<1> QED  BY <1>5, <1>7, <1>8

\* An account with its primary row.
LEMMA AccountCreated ==
    ASSUME TablesHold, NEW u \in Holders, NEW a \in Addresses, holders[u] = "none", create_user(u, a),
           admins' = IF should_be_admin(u, a) THEN admins \cup {u} ELSE admins
    PROVE  /\ holders' \in [Holders -> {"none", "here", "gone"}] /\ rows' \subseteq EmailRows
           /\ AddressesApart' /\ RowsAreHeld' /\ PrimaryStands' /\ AdminsApart'
<1>1. PICK new \in EmailRows : new = Row(u, a, TRUE) /\ new.owner = u /\ new.primary = TRUE
  BY RowTyped DEF TablesHold
<1>2. rows' = rows \cup {new} /\ AddressesApart' /\ holders' = [holders EXCEPT ![u] = "here"]
  BY <1>1 DEF create_user, Store, AddressesApart
<1>3. /\ holders' \in [Holders -> {"none", "here", "gone"}] /\ u \notin Here /\ Here' = Here \cup {u}
      /\ \A v \in Holders : v # u => holders'[v] = holders[v]
      /\ holders'[u] = "here"
  BY <1>2 DEF Here, TablesHold, EmailsTyped
<1>4. rows' \subseteq EmailRows /\ RowsAreHeld'
  BY <1>1, <1>2, <1>3 DEF TablesHold, EmailsTyped, RowsAreHeld
<1>5. ASSUME NEW v \in Here'
      PROVE  \E r \in rows' : /\ r.owner = v /\ r.primary = TRUE
                              /\ \A q \in rows' : q.owner = v /\ q.primary = TRUE => q = r
  <2>1. CASE v = u
    <3>1. new \in rows' /\ \A q \in rows' : q.owner = v => q = new
      BY <1>1, <1>2, <1>3, <2>1 DEF TablesHold, RowsAreHeld
    <3> QED  BY <1>1, <2>1, <3>1
  <2>2. CASE v # u
    <3>1. PICK r \in rows : /\ r.owner = v /\ r.primary = TRUE
                            /\ \A q \in rows : q.owner = v /\ q.primary = TRUE => q = r
      BY <1>3, <2>2 DEF TablesHold, PrimaryStands
    <3>2. r \in rows' /\ \A q \in rows' : q.owner = v => q \in rows
      BY <1>1, <1>2, <2>2, <3>1
    <3> QED  BY <3>1, <3>2
  <2> QED  BY <2>1, <2>2
<1>6. AdminsApart'
  <2>1. \A x \in admins : x # u /\ x \in Holders
    BY DEF TablesHold, AdminsApart
  <2>2. CASE admins' = admins
    BY <1>3, <2>1, <2>2 DEF TablesHold, AdminsApart
  <2>3. CASE admins' = admins \cup {u} /\ count_active_admins = 0
    <3>1. admins \cap Here = {}
      <4>1. IsFiniteSet(Here)
        BY EmailsAssumption, FS_Subset DEF Here
      <4>2. IsFiniteSet(admins \cap Here)
        BY <4>1, FS_Subset
      <4> QED  BY <2>3, <4>2, FS_EmptySet DEF count_active_admins
    <3>2. \A x \in admins : holders'[x] # "here" /\ holders'[x] # "none"
      BY <1>3, <2>1, <3>1 DEF TablesHold, AdminsApart, Here
    <3> QED  BY <1>3, <2>1, <2>3, <3>2 DEF AdminsApart, TablesHold
  <2> QED  BY <2>2, <2>3 DEF should_be_admin
<1> QED  BY <1>2, <1>3, <1>4, <1>5, <1>6 DEF PrimaryStands

\* An account deleted with its rows.
LEMMA AccountDeleted ==
    ASSUME TablesHold, NEW c \in Holders, NEW u \in Holders, delete_user(c, u)
    PROVE  /\ holders' \in [Holders -> {"none", "here", "gone"}] /\ rows' \subseteq EmailRows
           /\ AddressesApart' /\ RowsAreHeld' /\ PrimaryStands' /\ AdminsApart'
<1>1. rows' = rows \ RowsOf(u) /\ holders' = [holders EXCEPT ![u] = "gone"] /\ admins' = admins
  BY DEF delete_user
<1>2. /\ holders' \in [Holders -> {"none", "here", "gone"}] /\ Here' = Here \ {u}
      /\ \A v \in Holders : v # u => holders'[v] = holders[v]
      /\ holders'[u] = "gone"
  BY <1>1 DEF Here, TablesHold, EmailsTyped
<1>3. \A r \in rows : r \in rows' <=> r.owner # u
  BY <1>1 DEF RowsOf
<1>4. rows' \subseteq EmailRows /\ AddressesApart' /\ RowsAreHeld'
  BY <1>1, <1>2, <1>3 DEF TablesHold, EmailsTyped, AddressesApart, RowsAreHeld
<1>5. ASSUME NEW v \in Here'
      PROVE  \E r \in rows' : /\ r.owner = v /\ r.primary = TRUE
                              /\ \A q \in rows' : q.owner = v /\ q.primary = TRUE => q = r
  <2>1. PICK r \in rows : /\ r.owner = v /\ r.primary = TRUE
                          /\ \A q \in rows : q.owner = v /\ q.primary = TRUE => q = r
    BY <1>2 DEF TablesHold, PrimaryStands
  <2> QED  BY <1>1, <1>2, <1>3, <2>1
<1>6. AdminsApart'
  BY <1>1, <1>2 DEF TablesHold, AdminsApart
<1> QED  BY <1>2, <1>4, <1>5, <1>6 DEF PrimaryStands

\* The tables hold over every step.
LEMMA TablesStep == TablesHold /\ [EmailsNext]_emailVars => TablesHold'
<1> SUFFICES ASSUME TablesHold, [EmailsNext]_emailVars PROVE TablesHold'
  OBVIOUS
<1> DEFINE Kept == /\ holders' \in [Holders -> {"none", "here", "gone"}] /\ rows' \subseteq EmailRows
                   /\ AddressesApart' /\ RowsAreHeld' /\ PrimaryStands' /\ AdminsApart'
<1>1. UNCHANGED <<holders, admins>> => holders' \in [Holders -> {"none", "here", "gone"}] /\ AdminsApart'
  BY DEF TablesHold, EmailsTyped, AdminsApart
<1>2. ASSUME UNCHANGED <<holders, admins, rows>> PROVE Kept
  <2>1. AddressesApart' /\ RowsAreHeld' /\ PrimaryStands' /\ rows' \subseteq EmailRows
    BY <1>2 DEF TablesHold, EmailsTyped, AddressesApart, RowsAreHeld, PrimaryStands, Here
  <2> QED  BY <1>1, <1>2, <2>1
<1>3. CASE EmailsNext
  <2>1. ASSUME NEW u \in Holders, NEW a \in Addresses, register(u, a) PROVE Kept
    <3>1. CASE Refused(a)
      BY <1>2, <3>1 DEF Refused
    <3>2. CASE ~ Refused(a)
      BY <2>1, <3>2, AccountCreated DEF register
    <3> QED  BY <3>1, <3>2
  <2>2. ASSUME NEW u \in Holders, NEW a \in Addresses, add_user_email(u, a) PROVE Kept
    <3>1. CASE Refused(a)
      BY <1>2, <3>1 DEF Refused
    <3>2. CASE ~ Refused(a)
      BY <1>1, <2>2, <3>2, SecondaryAdded DEF add_user_email
    <3> QED  BY <3>1, <3>2
  <2>3. ASSUME NEW u \in Holders, NEW a \in Addresses, update_user_email(u, a) PROVE Kept
    <3>1. CASE Refused(a)
      BY <1>2, <3>1 DEF Refused
    <3>2. CASE ~ Refused(a)
      BY <1>1, <2>3, <3>2, PrimaryReplaced DEF update_user_email
    <3> QED  BY <3>1, <3>2
  <2>4. ASSUME NEW u \in Holders, NEW a \in Addresses, set_primary_user_email(u, a) PROVE Kept
    BY <1>1, <2>4, PrimaryMoved DEF set_primary_user_email
  <2>5. ASSUME NEW p \in pending, verify_email_marks(p) PROVE Kept
    BY <1>1, <2>5, RowMarked DEF verify_email_marks
  <2>6. ASSUME NEW p \in pending, remove_user_email_deletes(p) PROVE Kept
    <3>1. PICK gone : gone = db_remove_user_email(p.owner, p.target)
      OBVIOUS
    <3>2. rows' = rows \ gone /\ UNCHANGED <<holders, admins>>
      BY <2>6, <3>1 DEF remove_user_email_deletes, Store
    <3>3. \A r \in gone : ~ r.primary
      BY <3>1 DEF db_remove_user_email
    <3> QED  BY <1>1, <3>2, <3>3, SecondaryRemoved
  <2>7. ASSUME NEW c \in Holders, NEW u \in Holders, delete_user(c, u) PROVE Kept
    BY <2>7, AccountDeleted
  <2>8. \/ \E u \in Holders, a \in Addresses : register(u, a) \/ add_user_email(u, a) \/ set_primary_user_email(u, a) \/ update_user_email(u, a)
        \/ \E p \in pending : verify_email_marks(p) \/ remove_user_email_deletes(p)
        \/ \E c, u \in Holders : delete_user(c, u)
        \/ UNCHANGED <<holders, admins, rows>>
    BY <1>3, ZenonT(60) DEF EmailsNext, remove_user_email, verify_email, issue_verification_mail_for, EmailRequestFails,
         resend_verification, resend_user_email, Resend, MailSwitched, HourPasses
  <2>9. Kept
    BY <1>2, <2>1, <2>2, <2>3, <2>4, <2>5, <2>6, <2>7, <2>8
  <2> QED  BY <1>3, <2>9, MailStaysTyped DEF TablesHold, EmailsTyped
<1>4. CASE UNCHANGED emailVars
  <2>1. Kept
    BY <1>2, <1>4 DEF emailVars
  <2> QED  BY <1>4, <2>1 DEF TablesHold, EmailsTyped, emailVars
<1> QED  BY <1>3, <1>4

-----------------------------------------------------------------------------
(* Addresses: who confirmed them *)

\* A link to `to` that names no row of u confirms no other address: u's primary is it, or is confirmed already.
Meant(u, to) == \A r \in rows : r.owner = u /\ r.primary = TRUE => r.address = to \/ r.verified = TRUE
\* With requests one at a time, mail on and no failure:
MailIsOn == mailOn = TRUE
OneRequest == \A p, q \in pending : p = q
ReadByHolder == \A r \in rows : r.verified = TRUE => r.by = r.address
\* what is mailed for a row is mailed to it;
ForTheRow ==
    /\ \A l \in links : l.target # Primary => l.to = l.target
    /\ \A p \in pending : p.target # Primary => p.to = p.target
\* and what is mailed for a primary is mailed to it, or about to be replaced.
ForThePrimary ==
    /\ \A l \in links : l.target = Primary =>
          \/ Meant(l.owner, l.to)
          \/ \E p \in pending : p.do = "issue" /\ p.owner = l.owner /\ p.target = Primary
    /\ \A p \in pending : p.target = Primary => Meant(p.owner, p.to)
Readers == MailIsOn /\ OneRequest /\ ReadByHolder /\ ForTheRow /\ ForThePrimary
ReadersInvariant == TablesHold /\ (disturbed \/ Readers)

\* A request that disturbs nobody finds nothing in progress.
LEMMA Undisturbed ==
    ASSUME ReadersInvariant, Ask, ~ disturbed'
    PROVE  Readers /\ pending = {}
BY DEF Ask, ReadersInvariant

\* The rest of a request that is done.
LEMMA RestDone ==
    ASSUME Readers, NEW p \in pending, pending' = pending \ {p}
    PROVE  pending' = {}
BY DEF Readers, OneRequest

\* When a request leaves nothing, or something about a row, every link stands as it did.
LEMMA LinksStand ==
    ASSUME Readers, pending = {}, NEW new, pending' \subseteq {new},
           links' \subseteq links, MailIsOn', ReadByHolder',
           new.target # Primary => new.to = new.target,
           new.target = Primary => Meant(new.owner, new.to)',
           \A l \in links' : l.target = Primary /\ Meant(l.owner, l.to) =>
              \/ Meant(l.owner, l.to)'
              \/ new \in pending' /\ new.do = "issue" /\ new.owner = l.owner /\ new.target = Primary
    PROVE  Readers'
<1>1. OneRequest'
  BY DEF OneRequest
<1>2. ForTheRow'
  BY DEF ForTheRow, Readers
<1>3. ForThePrimary'
  <2>1. \A l \in links : l.target = Primary => Meant(l.owner, l.to)
    BY DEF Readers, ForThePrimary
  <2>2. ASSUME NEW l \in links', l.target = Primary
        PROVE  \/ Meant(l.owner, l.to)'
               \/ \E p \in pending' : p.do = "issue" /\ p.owner = l.owner /\ p.target = Primary
    BY <2>1, <2>2
  <2>3. ASSUME NEW p \in pending', p.target = Primary PROVE Meant(p.owner, p.to)'
    BY <2>3
  <2> QED  BY <2>2, <2>3 DEF ForThePrimary
<1> QED  BY <1>1, <1>2, <1>3 DEF Readers

\* Rows that no primary joins leave every link meant as it was.
LEMMA StillMeant ==
    ASSUME NEW u, NEW to, Meant(u, to),
           \A q \in rows' : q.owner = u /\ q.primary = TRUE => q.verified = TRUE \/ q.address = to \/ q \in rows
    PROVE  Meant(u, to)'
BY DEF Meant

\* Registration.
LEMMA RegisterRead ==
    ASSUME ReadersInvariant, NEW u \in Holders, NEW a \in Addresses, register(u, a), ~ disturbed'
    PROVE  Readers'
<1>1. Readers /\ pending = {} /\ TablesHold
  BY Undisturbed DEF register, ReadersInvariant
<1>2. CASE Refused(a)
  BY <1>1, <1>2 DEF Refused, Readers, MailIsOn, OneRequest, ReadByHolder, ForTheRow, ForThePrimary, Meant
<1>3. CASE ~ Refused(a)
  <2>1. PICK row \in EmailRows : row = Row(u, a, TRUE) /\ row.owner = u /\ row.address = a /\ row.verified = FALSE
    BY <1>1, RowTyped DEF TablesHold
  <2>2. PICK new : new = Later("issue", u, Primary, a)
    OBVIOUS
  <2>3. new.do = "issue" /\ new.owner = u /\ new.target = Primary /\ new.to = a
    BY <2>2 DEF Later
  <2>4. rows' = rows \cup {row} /\ links' \subseteq links /\ mailOn' = mailOn /\ pending' = {new} /\ holders[u] = "none"
    BY <1>1, <1>3, <2>1, <2>2 DEF register, create_user, Store, LinksWithout
  <2>5. \A r \in rows : r.owner # u
    BY <1>1, <2>4 DEF TablesHold, RowsAreHeld, Here
  <2>6. MailIsOn' /\ ReadByHolder'
    BY <1>1, <2>1, <2>4 DEF Readers, MailIsOn, ReadByHolder
  <2>7. Meant(new.owner, new.to)'
    BY <2>1, <2>3, <2>4, <2>5 DEF Meant
  <2>8. ASSUME NEW l \in links', Meant(l.owner, l.to), l.owner # u PROVE Meant(l.owner, l.to)'
    <3>1. \A q \in rows' : q.owner = l.owner => q \in rows
      BY <2>1, <2>4, <2>8
    <3> QED  BY <2>8, <3>1, StillMeant
  <2> QED  BY <1>1, <2>3, <2>4, <2>6, <2>7, <2>8, LinksStand
<1> QED  BY <1>2, <1>3

\* A secondary address.
LEMMA AddRead ==
    ASSUME ReadersInvariant, NEW u \in Holders, NEW a \in Addresses, add_user_email(u, a), ~ disturbed'
    PROVE  Readers'
<1>1. Readers /\ pending = {} /\ TablesHold
  BY Undisturbed DEF add_user_email, ReadersInvariant
<1>2. CASE Refused(a)
  BY <1>1, <1>2 DEF Refused, Readers, MailIsOn, OneRequest, ReadByHolder, ForTheRow, ForThePrimary, Meant
<1>3. CASE ~ Refused(a)
  <2>1. PICK row \in EmailRows : row = Row(u, a, FALSE) /\ row.primary = FALSE /\ row.verified = FALSE
    BY <1>1, RowTyped DEF TablesHold
  <2>2. PICK new : new = Later("issue", u, a, a)
    OBVIOUS
  <2>3. new.target = a /\ new.to = a /\ a # Primary
    BY <2>2, EmailsAssumption DEF Later, Primary
  <2>4. rows' \subseteq rows \cup {row} /\ links' \subseteq links /\ mailOn' = mailOn /\ pending' = {new}
    BY <1>1, <1>3, <2>1, <2>2 DEF add_user_email, db_add_user_email, Store, LinksWithout
  <2>5. MailIsOn' /\ ReadByHolder'
    BY <1>1, <2>1, <2>4 DEF Readers, MailIsOn, ReadByHolder
  <2>6. \A q \in rows' : q.primary = TRUE => q \in rows
    BY <2>1, <2>4, Zenon
  <2>7. ASSUME NEW l \in links', Meant(l.owner, l.to) PROVE Meant(l.owner, l.to)'
    BY <2>6, <2>7, StillMeant
  <2> QED  BY <1>1, <2>3, <2>4, <2>5, <2>7, LinksStand
<1> QED  BY <1>2, <1>3

\* A new primary address.
LEMMA UpdateRead ==
    ASSUME ReadersInvariant, NEW u \in Holders, NEW a \in Addresses, update_user_email(u, a), ~ disturbed'
    PROVE  Readers'
<1>1. Readers /\ pending = {} /\ TablesHold
  BY Undisturbed DEF update_user_email, ReadersInvariant
<1>2. CASE Refused(a)
  BY <1>1, <1>2 DEF Refused, Readers, MailIsOn, OneRequest, ReadByHolder, ForTheRow, ForThePrimary, Meant
<1>3. CASE ~ Refused(a)
  <2>1. PICK row \in EmailRows : row = Row(u, a, TRUE) /\ row.owner = u /\ row.address = a /\ row.verified = FALSE
    BY <1>1, RowTyped DEF TablesHold
  <2>2. PICK new : new = Later("issue", u, Primary, a)
    OBVIOUS
  <2>3. new.do = "issue" /\ new.owner = u /\ new.target = Primary /\ new.to = a
    BY <2>2 DEF Later
  <2>4. /\ rows' \subseteq rows \cup {row} /\ links' \subseteq links /\ mailOn' = mailOn /\ pending' = {new}
        /\ \A r \in rows' : r.owner = u /\ r.primary => r = row
    BY <1>1, <1>3, <2>1, <2>2 DEF update_user_email, replace_primary_user_email, RowsOf, Store, LinksWithout
  <2>5. MailIsOn' /\ ReadByHolder'
    BY <1>1, <2>1, <2>4 DEF Readers, MailIsOn, ReadByHolder
  <2>6. Meant(new.owner, new.to)'
    BY <2>1, <2>3, <2>4 DEF Meant
  <2>7. ASSUME NEW l \in links', Meant(l.owner, l.to), l.owner # u PROVE Meant(l.owner, l.to)'
    BY <2>1, <2>4, <2>7, StillMeant
  <2> QED  BY <1>1, <2>3, <2>4, <2>5, <2>6, <2>7, LinksStand
<1> QED  BY <1>2, <1>3

\* Another primary: it is confirmed, so no link says anything of it.
LEMMA SetPrimaryRead ==
    ASSUME ReadersInvariant, NEW u \in Holders, NEW a \in Addresses, set_primary_user_email(u, a), ~ disturbed'
    PROVE  Readers'
<1>1. Readers /\ pending = {} /\ TablesHold
  BY Undisturbed DEF set_primary_user_email, ReadersInvariant
<1> DEFINE f(r) == IF r.owner = u THEN [r EXCEPT !.primary = (r.address = a)] ELSE r
<1>2. rows' = {f(r) : r \in rows} /\ links' = links /\ pending' = {} /\ mailOn' = mailOn
  BY <1>1 DEF set_primary_user_email, db_set_primary_user_email
<1>3. ASSUME NEW r \in rows
      PROVE  /\ f(r).owner = r.owner /\ f(r).address = r.address
             /\ f(r).verified = r.verified /\ f(r).by = r.by
             /\ r.owner = u => f(r).primary = (r.address = a)
             /\ r.owner # u => f(r) = r
  BY <1>1 DEF TablesHold, EmailsTyped, EmailRows
<1>4. PICK c \in rows : c.owner = u /\ c.address = a /\ c.verified
  BY DEF set_primary_user_email, db_set_primary_user_email, RowsOf
<1>5. c.verified = TRUE
  BY <1>1, <1>4 DEF TablesHold, EmailsTyped, EmailRows
<1> HIDE DEF f
<1>6. MailIsOn' /\ ReadByHolder'
  BY <1>1, <1>2, <1>3 DEF Readers, MailIsOn, ReadByHolder
<1>7. ASSUME NEW q \in rows', q.primary = TRUE PROVE q \in rows \/ q.verified = TRUE
  <2>1. PICK r \in rows : q = f(r)
    BY <1>2
  <2>2. CASE r.owner = u
    <3>1. r.address = a
      BY <1>3, <1>7, <2>1, <2>2
    <3>2. r = c
      BY <1>1, <1>4, <3>1 DEF TablesHold, AddressesApart
    <3> QED  BY <1>3, <1>5, <2>1, <3>2
  <2>3. CASE r.owner # u
    BY <1>3, <2>1, <2>3
  <2> QED  BY <2>2, <2>3
<1>8. ASSUME NEW l \in links', Meant(l.owner, l.to) PROVE Meant(l.owner, l.to)'
  BY <1>7, <1>8, StillMeant
<1>9. PICK new : new = Later("remove", u, a, a)
  OBVIOUS
<1>10. new.target = a /\ new.to = a /\ a # Primary
  BY <1>9, EmailsAssumption DEF Later, Primary
<1> QED  BY <1>1, <1>2, <1>6, <1>8, <1>10, LinksStand

\* Requests that leave the rows, or take some away.
LEMMA FewerRowsRead ==
    ASSUME ReadersInvariant, Readers, pending = {}, rows' \subseteq rows, links' \subseteq links, mailOn' = mailOn,
           NEW new, pending' \subseteq {new}, new.target # Primary => new.to = new.target,
           new.target = Primary => Meant(new.owner, new.to)
    PROVE  Readers'
<1>1. MailIsOn' /\ ReadByHolder'
  BY DEF Readers, MailIsOn, ReadByHolder
<1>2. \A u, to : Meant(u, to) => Meant(u, to)'
  BY DEF Meant
<1> QED  BY <1>1, <1>2, LinksStand

\* A link opened.
LEMMA VerifyRead ==
    ASSUME ReadersInvariant, NEW l \in links, verify_email(l), ~ disturbed'
    PROVE  Readers'
<1>1. Readers /\ pending = {}
  BY Undisturbed DEF verify_email
<1>2. PICK new : new = Later("mark", l.owner, l.target, l.to)
  OBVIOUS
<1>3. new.owner = l.owner /\ new.target = l.target /\ new.to = l.to
  BY <1>2 DEF Later
<1>4. rows' \subseteq rows /\ links' \subseteq links /\ mailOn' = mailOn /\ pending' \subseteq {new}
  BY <1>1, <1>2 DEF verify_email
<1>5. new.target # Primary => new.to = new.target
  BY <1>1, <1>3 DEF Readers, ForTheRow
<1>6. new.target = Primary => Meant(new.owner, new.to)
  BY <1>1, <1>3 DEF Readers, ForThePrimary
<1> QED  BY <1>1, <1>4, <1>5, <1>6, FewerRowsRead

\* A link asked for again.
LEMMA ResendRead ==
    ASSUME ReadersInvariant, NEW r \in rows, Resend(r), ~ disturbed'
    PROVE  Readers'
<1>1. Readers /\ pending = {} /\ TablesHold
  BY Undisturbed DEF Resend, ReadersInvariant
<1>2. PICK new : new = Later("issue", r.owner, IF r.primary THEN Primary ELSE r.address, r.address)
  OBVIOUS
<1>3. /\ new.owner = r.owner /\ new.to = r.address
      /\ new.target = IF r.primary THEN Primary ELSE r.address
  BY <1>2 DEF Later
<1>4. rows' \subseteq rows /\ links' \subseteq links /\ mailOn' = mailOn /\ pending' \subseteq {new}
  BY <1>1, <1>2 DEF Resend
<1>5. r.address # Primary /\ r.primary \in BOOLEAN /\ r.owner \in Here
  BY <1>1, EmailsAssumption DEF TablesHold, EmailsTyped, EmailRows, Primary, RowsAreHeld
<1>6. new.target # Primary => new.to = new.target
  BY <1>3, <1>5
<1>7. new.target = Primary => Meant(new.owner, new.to)
  <2>1. ASSUME new.target = Primary PROVE Meant(r.owner, r.address)
    <3>1. r.primary = TRUE
      BY <1>3, <1>5, <2>1
    <3>2. PICK s \in rows : \A q \in rows : q.owner = r.owner /\ q.primary = TRUE => q = s
      BY <1>1, <1>5 DEF TablesHold, PrimaryStands
    <3> QED  BY <3>1, <3>2 DEF Meant
  <2> QED  BY <1>3, <2>1
<1> QED  BY <1>1, <1>4, <1>6, <1>7, FewerRowsRead

\* A removal begun, and an account deleted.
LEMMA RemovalRead ==
    ASSUME ReadersInvariant, ~ disturbed', NEW u \in Holders,
           \/ \E a \in Addresses : remove_user_email(u, a)
           \/ \E c \in Holders : delete_user(c, u)
    PROVE  Readers'
<1>1. CASE \E a \in Addresses : remove_user_email(u, a)
  <2>1. PICK a \in Addresses : remove_user_email(u, a)
    BY <1>1
  <2>2. PICK new : new = Later("remove", u, a, a)
    OBVIOUS
  <2>3. new.target # Primary /\ new.to = new.target
    BY <2>2, EmailsAssumption DEF Later, Primary
  <2>4. Readers /\ pending = {}
    BY <2>1, Undisturbed DEF remove_user_email
  <2>5. rows' \subseteq rows /\ links' \subseteq links /\ mailOn' = mailOn /\ pending' \subseteq {new}
    BY <2>1, <2>2, <2>4 DEF remove_user_email
  <2> QED  BY <2>3, <2>4, <2>5, FewerRowsRead
<1>2. CASE \E c \in Holders : delete_user(c, u)
  <2>1. PICK c \in Holders : delete_user(c, u)
    BY <1>2
  <2>2. PICK new : new = Later("remove", u, SetupAddress, SetupAddress)
    OBVIOUS
  <2>3. new.target # Primary /\ new.to = new.target
    BY <2>2, EmailsAssumption DEF Later, Primary
  <2>4. Readers /\ pending = {}
    BY <2>1, Undisturbed DEF delete_user
  <2>5. rows' \subseteq rows /\ links' \subseteq links /\ mailOn' = mailOn /\ pending' \subseteq {new}
    BY <2>1, <2>4 DEF delete_user
  <2> QED  BY <2>3, <2>4, <2>5, FewerRowsRead
<1> QED  BY <1>1, <1>2

\* A link mailed: older ones for the same row are spent.
LEMMA IssueRead ==
    ASSUME ReadersInvariant, Readers, NEW p \in pending, issue_verification_mail_for(p)
    PROVE  Readers'
<1>1. TablesHold /\ pending' = {} /\ rows' = rows /\ mailOn' = mailOn /\ holders' = holders
  BY RestDone DEF issue_verification_mail_for, ReadersInvariant
<1>2. MailIsOn' /\ OneRequest' /\ ReadByHolder'
  BY <1>1 DEF Readers, MailIsOn, OneRequest, ReadByHolder
<1>3. p.owner \in Holders /\ p.target \in Targets /\ p.to \in Addresses
  BY <1>1 DEF TablesHold, EmailsTyped, Rests
<1>4. \A u, to : Meant(u, to)' <=> Meant(u, to)
  BY <1>1 DEF Meant
<1>5. \A l \in links : l.target = Primary => Meant(l.owner, l.to) \/ (l.owner = p.owner /\ p.target = Primary)
  BY DEF Readers, ForThePrimary, OneRequest
<1>6. CASE links' = create_email_verification_token(p.owner, p.target, p.to)
  <2>1. ASSUME NEW l \in links'
        PROVE  \/ l \in links /\ ~ (l.owner = p.owner /\ l.target = p.target)
               \/ l.owner = p.owner /\ l.target = p.target /\ l.to = p.to
    <3>1. EmailsTyped /\ l \in create_email_verification_token(p.owner, p.target, p.to)
      BY <1>1, <1>6 DEF TablesHold
    <3> QED  BY <1>3, <3>1, LinkTyped
  <2>2. ForTheRow'
    BY <1>1, <2>1 DEF ForTheRow, Readers
  <2>3. \A l \in links' : l.target = Primary => Meant(l.owner, l.to)
    BY <1>5, <2>1 DEF Readers, ForThePrimary
  <2>4. ForThePrimary'
    BY <1>1, <1>4, <2>3 DEF ForThePrimary
  <2> QED  BY <1>2, <2>2, <2>4 DEF Readers
<1>7. CASE links' = links /\ (p.target # Primary \/ p.owner \notin Here)
  <2>1. p.owner \notin Here => \A to : Meant(p.owner, to)
    BY <1>1 DEF Meant, TablesHold, RowsAreHeld
  <2>2. \A l \in links : l.target = Primary => Meant(l.owner, l.to)
    BY <1>5, <1>7, <2>1
  <2>3. ForTheRow' /\ ForThePrimary'
    BY <1>1, <1>4, <1>7, <2>2 DEF ForTheRow, ForThePrimary, Readers
  <2> QED  BY <1>2, <2>3 DEF Readers
<1> QED  BY <1>6, <1>7 DEF issue_verification_mail_for, Readers, MailIsOn

\* A row confirmed by the reader of its address.
LEMMA MarkRead ==
    ASSUME ReadersInvariant, Readers, NEW p \in pending, verify_email_marks(p)
    PROVE  Readers'
<1>1. TablesHold /\ pending' = {} /\ links' = links /\ mailOn' = mailOn /\ p.do = "mark"
  BY RestDone DEF verify_email_marks, ReadersInvariant
<1>2. ASSUME NEW q \in rows'
      PROVE  \E r \in rows :
                 /\ q.owner = r.owner /\ q.address = r.address /\ q.primary = r.primary
                 /\ \/ q = r
                    \/ q.verified = TRUE /\ q.by = q.address
  <2>1. PICK r \in rows :
                 /\ q.owner = r.owner /\ q.address = r.address /\ q.primary = r.primary
                 /\ \/ q = r
                    \/ r \in mark_email_verified(p) /\ q.verified = TRUE /\ (r.verified = TRUE => q.by = r.by)
                       /\ (r.verified = FALSE => q.by = p.to)
    BY <1>1, RowMarked
  <2>2. r.verified \in BOOLEAN /\ r.primary \in BOOLEAN
    BY <1>1 DEF TablesHold, EmailsTyped, EmailRows
  <2>3. r.verified = TRUE => r.by = r.address
    BY DEF Readers, ReadByHolder
  <2>4. ASSUME r \in mark_email_verified(p), r.verified = FALSE PROVE r.address = p.to
    <3>1. CASE p.target = Primary
      <4>1. r.owner = p.owner /\ r.primary = TRUE
        BY <2>2, <2>4, <3>1 DEF mark_email_verified, RowsOf
      <4>2. Meant(p.owner, p.to)
        BY <3>1 DEF Readers, ForThePrimary
      <4> QED  BY <2>4, <4>1, <4>2 DEF Meant
    <3>2. CASE p.target # Primary
      BY <2>4, <3>2 DEF mark_email_verified, Readers, ForTheRow
    <3> QED  BY <3>1, <3>2
  <2> QED  BY <2>1, <2>2, <2>3, <2>4
<1>3. MailIsOn' /\ OneRequest' /\ ForTheRow'
  BY <1>1 DEF Readers, MailIsOn, OneRequest, ForTheRow
<1>4. ReadByHolder'
  BY <1>2 DEF Readers, ReadByHolder
<1>5. ASSUME NEW u, NEW to, Meant(u, to) PROVE Meant(u, to)'
  BY <1>2, <1>5 DEF Meant
<1>6. \A l \in links : l.target = Primary => Meant(l.owner, l.to)
  BY <1>1 DEF Readers, ForThePrimary, OneRequest
<1>7. ForThePrimary'
  BY <1>1, <1>5, <1>6 DEF ForThePrimary
<1> QED  BY <1>3, <1>4, <1>7 DEF Readers

\* A removal carried out.
LEMMA DeleteRead ==
    ASSUME ReadersInvariant, Readers, NEW p \in pending, remove_user_email_deletes(p)
    PROVE  Readers'
<1>1. pending' = {} /\ links' \subseteq links /\ rows' \subseteq rows /\ mailOn' = mailOn /\ p.do = "remove"
  BY RestDone DEF remove_user_email_deletes, Store, LinksWithout
<1>2. MailIsOn' /\ OneRequest' /\ ForTheRow' /\ ReadByHolder'
  BY <1>1 DEF Readers, MailIsOn, OneRequest, ForTheRow, ReadByHolder
<1>3. \A u, to : Meant(u, to) => Meant(u, to)'
  BY <1>1 DEF Meant
<1>4. \A l \in links : l.target = Primary => Meant(l.owner, l.to)
  BY <1>1 DEF Readers, ForThePrimary, OneRequest
<1>5. ForThePrimary'
  BY <1>1, <1>3, <1>4 DEF ForThePrimary
<1> QED  BY <1>2, <1>5 DEF Readers

\* What holds of addresses holds over every step.
LEMMA ReadersStep == ReadersInvariant /\ [EmailsNext]_emailVars => ReadersInvariant'
<1> SUFFICES ASSUME ReadersInvariant, [EmailsNext]_emailVars PROVE disturbed' \/ Readers'
  BY TablesStep DEF ReadersInvariant
<1> SUFFICES ASSUME ~ disturbed' PROVE Readers'
  OBVIOUS
<1>1. ASSUME UNCHANGED <<rows, links, pending, mailOn, disturbed>> PROVE Readers'
  <2>1. Readers
    BY <1>1 DEF ReadersInvariant
  <2> QED  BY <1>1, <2>1 DEF Readers, MailIsOn, OneRequest, ReadByHolder, ForTheRow, ForThePrimary, Meant
<1>2. CASE EmailsNext
  <2>1. ASSUME NEW u \in Holders, NEW a \in Addresses,
               \/ register(u, a) \/ add_user_email(u, a) \/ remove_user_email(u, a)
               \/ set_primary_user_email(u, a) \/ update_user_email(u, a)
        PROVE  Readers'
    BY <2>1, RegisterRead, AddRead, RemovalRead, SetPrimaryRead, UpdateRead
  <2>2. ASSUME NEW l \in links, verify_email(l) PROVE Readers'
    BY <2>2, VerifyRead
  <2>3. ASSUME NEW p \in pending, \/ issue_verification_mail_for(p) \/ verify_email_marks(p)
                                  \/ remove_user_email_deletes(p) \/ EmailRequestFails(p)
        PROVE  Readers'
    <3>1. disturbed' = disturbed
      BY <2>3 DEF issue_verification_mail_for, verify_email_marks, remove_user_email_deletes, EmailRequestFails
    <3>2. Readers /\ ~ EmailRequestFails(p)
      BY <3>1 DEF ReadersInvariant, EmailRequestFails
    <3> QED  BY <2>3, <3>2, IssueRead, MarkRead, DeleteRead
  <2>4. ASSUME NEW r \in rows, Resend(r) PROVE Readers'
    BY <2>4, ResendRead
  <2>5. ASSUME NEW c \in Holders, NEW u \in Holders, delete_user(c, u) PROVE Readers'
    BY <2>5, RemovalRead
  <2>6. CASE MailSwitched
    BY <2>6 DEF MailSwitched
  <2>7. CASE HourPasses
    BY <1>1, <2>7 DEF HourPasses
  <2>8. (\E a \in Addresses : resend_verification(a)) \/ (\E r \in rows : resend_user_email(r)) => \E r \in rows : Resend(r)
    BY DEF resend_verification, resend_user_email, find_user_email
  <2> QED  BY <1>2, <2>1, <2>2, <2>3, <2>4, <2>5, <2>6, <2>7, <2>8 DEF EmailsNext
<1>3. CASE UNCHANGED emailVars
  BY <1>1, <1>3 DEF emailVars
<1> QED  BY <1>2, <1>3

\* The invariant, from the start of an empty installation.
THEOREM ReadersInvariantHolds == EmailsSpec => []ReadersInvariant
<1>1. EmailsInit => ReadersInvariant
  <2> SUFFICES ASSUME EmailsInit PROVE ReadersInvariant
    OBVIOUS
  <2>1. /\ holders = [u \in Holders |-> "none"] /\ admins = {} /\ rows = {} /\ links = {} /\ pending = {}
        /\ mailOn \in BOOLEAN /\ hour = 0 /\ disturbed = ~ mailOn
    BY DEF EmailsInit
  <2>2. disturbed \in BOOLEAN /\ (disturbed \/ mailOn = TRUE)
    BY <2>1
  <2>3. TablesHold
    BY <2>1, <2>2 DEF TablesHold, EmailsTyped, AddressesApart, RowsAreHeld, PrimaryStands, AdminsApart, Here
  <2>4. mailOn = TRUE => Readers
    BY <2>1 DEF Readers, MailIsOn, OneRequest, ReadByHolder, ForTheRow, ForThePrimary
  <2> QED  BY <2>2, <2>3, <2>4 DEF ReadersInvariant
<1> QED  BY <1>1, ReadersStep, PTL DEF EmailsSpec

\* Whatever registrations, additions, promotions, replacements, removals and deletions overlap, every account
\* has exactly one primary address and the setup address makes at most one administrator; and while requests do
\* not overlap, none fails and mail is on, an address was confirmed from a link mailed to it.
THEOREM AddressesHold == EmailsSpec => []AddressesKeepTheirHolders
<1>1. ReadersInvariant => AddressesKeepTheirHolders
  <2> SUFFICES ASSUME ReadersInvariant PROVE AddressesKeepTheirHolders
    OBVIOUS
  <2>1. \A r \in rows : r.primary \in BOOLEAN /\ r.verified \in BOOLEAN
    BY DEF ReadersInvariant, TablesHold, EmailsTyped, EmailRows
  <2>2. ASSUME NEW u \in Here PROVE Cardinality({r \in RowsOf(u) : r.primary}) = 1
    <3>1. PICK s \in rows : /\ s.owner = u /\ s.primary = TRUE
                            /\ \A q \in rows : q.owner = u /\ q.primary = TRUE => q = s
      BY DEF ReadersInvariant, TablesHold, PrimaryStands
    <3>2. {r \in RowsOf(u) : r.primary} = {s}
      BY <2>1, <3>1 DEF RowsOf
    <3> QED  BY <3>2, FS_Singleton
  <2>3. ConfirmedByItsReader
    BY <2>1 DEF ConfirmedByItsReader, ReadersInvariant, Readers, ReadByHolder
  <2>4. SetupMintsOneAdmin
    <3>1. \A x, y \in admins \cap Here : x = y
      BY DEF ReadersInvariant, TablesHold, AdminsApart, Here
    <3>2. admins \cap Here = {} \/ \E x : admins \cap Here = {x}
      BY <3>1
    <3>3. Cardinality(admins \cap Here) = 0 \/ Cardinality(admins \cap Here) = 1
      BY <3>2, FS_Singleton, FS_EmptySet
    <3> QED  BY <3>3 DEF SetupMintsOneAdmin
  <2> QED  BY <2>2, <2>3, <2>4 DEF AddressesKeepTheirHolders, OnePrimaryEach
<1> QED  BY <1>1, ReadersInvariantHolds, PTL

-----------------------------------------------------------------------------
(* Training *)

TrainingSteps == [id : StepIds, self : BOOLEAN, assessed : BOOLEAN, term : Int]
Progress == [who : Learners, step : StepIds, status : {"in_progress", "completed", "failed"}, until : Int,
             how : {"none", "self", "judged", "course"}, assessed : BOOLEAN]
\* No step that asks for an assessment may be signed off by the learner, whatever staff make of it.
NoneAttestsAnAssessment == \A x \in steps : ~ (x.self = TRUE /\ x.assessed = TRUE)
\* Nor has one been.
NoneAttested == \A p \in progress : p.status = "completed" /\ p.assessed = TRUE => p.how # "self"
TrainingInvariant ==
    /\ steps \subseteq TrainingSteps /\ progress \subseteq Progress /\ today \in Nat
    /\ \A w \in waivers : w[2] \in Int
    /\ NoneAttestsAnAssessment /\ NoneAttested

\* A row put in place of the learner's row of a step.
LEMMA PutKept ==
    ASSUME TrainingInvariant, NEW u \in Learners, NEW s \in StepIds, NEW status \in {"in_progress", "completed", "failed"},
           NEW until \in Int, NEW how \in {"none", "self", "judged", "course"}, NEW assessed \in BOOLEAN,
           how = "self" => assessed = FALSE,
           Put(u, s, status, until, how, assessed)
    PROVE  progress' \subseteq Progress /\ NoneAttested'
<1> DEFINE new == [who |-> u, step |-> s, status |-> status, until |-> until, how |-> how, assessed |-> assessed]
<1>1. new \in Progress /\ new.how = how /\ new.assessed = assessed
  BY DEF Progress
<1>2. progress' \subseteq progress \cup {new}
  BY DEF Put
<1> HIDE DEF new
<1> QED  BY <1>1, <1>2 DEF TrainingInvariant, NoneAttested

\* Dates of steps.
LEMMA ExpiryTyped ==
    ASSUME TrainingInvariant, NEW x \in steps
    PROVE  calculate_expiry_date(x) \in Int /\ x.id \in StepIds /\ x.self \in BOOLEAN /\ x.assessed \in BOOLEAN
BY DEF calculate_expiry_date, NoTerm, TrainingInvariant, TrainingSteps

\* What staff may make of a step.
LEMMA StepsKept ==
    ASSUME TrainingInvariant, NEW s \in StepIds, NEW term \in Terms,
           \/ \E self, assessed \in BOOLEAN : create_training_step(s, self, assessed, term)
           \/ \E self, assessed \in Field : update_training_step(s, self, assessed, term)
    PROVE  steps' \subseteq TrainingSteps /\ NoneAttestsAnAssessment'
<1>0. term \in Int
  BY TrainingAssumption
<1>1. ASSUME NEW self \in BOOLEAN, NEW assessed \in BOOLEAN, create_training_step(s, self, assessed, term)
      PROVE  steps' \subseteq TrainingSteps /\ NoneAttestsAnAssessment'
  <2> DEFINE new == [id |-> s, self |-> self, assessed |-> assessed, term |-> term]
  <2>1. new \in TrainingSteps /\ new.self = self /\ new.assessed = assessed
    BY <1>0 DEF TrainingSteps
  <2>2. steps' = steps \cup {new} /\ ~ (self /\ assessed)
    BY <1>1 DEF create_training_step, db_create_training_step, reject_self_attestable_assessment
  <2> HIDE DEF new
  <2> QED  BY <2>1, <2>2 DEF TrainingInvariant, NoneAttestsAnAssessment
<1>2. ASSUME NEW self \in Field, NEW assessed \in Field, update_training_step(s, self, assessed, term)
      PROVE  steps' \subseteq TrainingSteps /\ NoneAttestsAnAssessment'
  <2>1. PICK x \in steps :
            /\ ~ update_rejected(x, self, assessed)
            /\ steps' = (steps \ {x}) \cup {[x EXCEPT !.self = Given(self, @), !.assessed = Given(assessed, @), !.term = term]}
    BY <1>2 DEF update_training_step, get_training_step_by_id
  <2>2. PICK a \in BOOLEAN, b \in BOOLEAN : a = Given(self, x.self) /\ b = Given(assessed, x.assessed)
    <3>1. x.self \in BOOLEAN /\ x.assessed \in BOOLEAN
      BY ExpiryTyped
    <3>2. ASSUME NEW field \in Field, NEW old \in BOOLEAN PROVE Given(field, old) \in BOOLEAN
      <4>1. CASE field = {}
        BY <4>1, Zenon DEF Given
      <4>2. CASE field # {}
        <5>1. PICK yes : yes = TRUE
          OBVIOUS
        <5>2. (yes \in field) \in BOOLEAN
          BY SMT
        <5>3. Given(field, old) = (yes \in field)
          BY <4>2, <5>1, Zenon DEF Given
        <5> QED  BY <5>2, <5>3, Zenon
      <4> QED  BY <4>1, <4>2
    <3> QED  BY <3>1, <3>2, Zenon
  <2> DEFINE new == [x EXCEPT !.self = a, !.assessed = b, !.term = term]
  <2>3. steps' = (steps \ {x}) \cup {new} /\ ~ (a /\ b)
    BY <2>1, <2>2 DEF update_rejected, reject_self_attestable_assessment
  <2>4. new \in TrainingSteps /\ new.self = a /\ new.assessed = b
    BY <1>0, <2>2 DEF TrainingInvariant, TrainingSteps
  <2> HIDE DEF new
  <2> QED  BY <2>2, <2>3, <2>4 DEF TrainingInvariant, NoneAttestsAnAssessment
<1> QED  BY <1>1, <1>2

\* The row a session that starts leaves.
LEMMA StartKept ==
    ASSUME TrainingInvariant, NEW u \in Learners, NEW s \in StepIds, db_start_training_session(u, s)
    PROVE  progress' \subseteq Progress /\ NoneAttested'
<1>1. PICK old : old = {p.until : p \in RowOf(u, s)}
  OBVIOUS
<1>2. old \subseteq Int
  BY <1>1 DEF RowOf, TrainingInvariant, Progress
<1>3. PICK d \in Int : d = IF old = {} THEN NoTerm ELSE CHOOSE e \in old : TRUE
  BY <1>2 DEF NoTerm
<1>4. Put(u, s, "in_progress", d, "none", FALSE)
  BY <1>1, <1>3 DEF db_start_training_session
<1> QED  BY <1>4, PutKept

\* The row of a session that is judged, or attested.
LEMMA CompleteKept ==
    ASSUME TrainingInvariant, NEW c, NEW u \in Learners, NEW s \in StepIds, NEW passed \in BOOLEAN,
           complete_training_session(c, u, s, passed)
    PROVE  progress' \subseteq Progress /\ NoneAttested'
<1>1. PICK x \in steps :
          /\ x.id = s /\ can_complete(c, u, x)
          /\ Put(u, s, IF passed THEN "completed" ELSE "failed",
                 IF passed THEN calculate_expiry_date(x) ELSE NoTerm,
                 IF Judges(c, s) THEN "judged" ELSE "self", x.assessed)
  BY DEF complete_training_session, get_training_step_by_id
<1>2. PICK status, until, how :
          status = (IF passed THEN "completed" ELSE "failed") /\ until = (IF passed THEN calculate_expiry_date(x) ELSE NoTerm)
          /\ how = (IF Judges(c, s) THEN "judged" ELSE "self")
  OBVIOUS
<1>3. status \in {"in_progress", "completed", "failed"} /\ until \in Int /\ how \in {"none", "self", "judged", "course"}
      /\ x.assessed \in BOOLEAN
  BY <1>2, ExpiryTyped DEF NoTerm
<1>4. how = "self" => x.assessed = FALSE
  <2>1. ASSUME how = "self" PROVE x.self = TRUE
    BY <1>1, <1>2, <2>1, ExpiryTyped DEF can_complete, is_self_attestation
  <2> QED  BY <2>1, ExpiryTyped DEF TrainingInvariant, NoneAttestsAnAssessment
<1> QED  BY <1>1, <1>2, <1>3, <1>4, PutKept

\* The row whose status is set.
LEMMA ProgressKept ==
    ASSUME TrainingInvariant, NEW c, NEW u \in Learners, NEW s \in StepIds, NEW status \in {"in_progress", "completed", "failed"},
           update_training_progress(c, u, s, status)
    PROVE  progress' \subseteq Progress /\ NoneAttested'
<1>1. PICK p \in progress, x \in steps : p.who = u /\ p.step = s /\ Put(u, s, status, p.until, "judged", x.assessed)
  BY DEF update_training_progress, update_user_training_progress, RowOf, get_training_step_by_id
<1>2. p.until \in Int /\ x.assessed \in BOOLEAN
  BY ExpiryTyped DEF TrainingInvariant, Progress
<1> QED  BY <1>1, <1>2, PutKept

\* Requests do not move the clock, nor touch what they say they leave.
LEMMA TrainingStep == TrainingInvariant /\ [TrainingNext]_trainingVars => TrainingInvariant'
<1> SUFFICES ASSUME TrainingInvariant, [TrainingNext]_trainingVars PROVE TrainingInvariant'
  OBVIOUS
<1>1. ASSUME UNCHANGED <<steps, progress>>
      PROVE  steps' \subseteq TrainingSteps /\ progress' \subseteq Progress /\ NoneAttestsAnAssessment' /\ NoneAttested'
  BY <1>1 DEF TrainingInvariant, NoneAttestsAnAssessment, NoneAttested
<1>2. ASSUME UNCHANGED waivers PROVE \A w \in waivers' : w[2] \in Int
  BY <1>2 DEF TrainingInvariant
<1>3. ASSUME Request PROVE today' \in Nat
  BY <1>3 DEF Request, TrainingInvariant
<1>4. CASE TrainingNext
  <2>1. ASSUME NEW s \in StepIds, NEW term \in Terms,
               \/ \E self, assessed \in BOOLEAN : create_training_step(s, self, assessed, term)
               \/ \E self, assessed \in Field : update_training_step(s, self, assessed, term)
        PROVE  TrainingInvariant'
    <3>1. Request /\ UNCHANGED <<progress, waivers>>
      BY <2>1 DEF create_training_step, update_training_step
    <3>2. NoneAttested' /\ progress' \subseteq Progress
      BY <3>1 DEF TrainingInvariant, NoneAttested
    <3> QED  BY <1>2, <1>3, <2>1, <3>1, <3>2, StepsKept DEF TrainingInvariant
  <2>2. ASSUME NEW s \in StepIds, delete_training_step(s) PROVE TrainingInvariant'
    BY <1>2, <1>3, <2>2 DEF delete_training_step, db_delete_training_step, TrainingInvariant, NoneAttestsAnAssessment, NoneAttested
  <2>3. ASSUME NEW c \in Callers, NEW u \in Learners, NEW s \in StepIds,
               \/ start_training_session(c, u, s)
               \/ \E passed \in BOOLEAN : complete_training_session(c, u, s, passed)
               \/ \E status \in {"in_progress", "completed", "failed"} : update_training_progress(c, u, s, status)
        PROVE  TrainingInvariant'
    <3>1. Request /\ UNCHANGED <<steps, waivers>>
      BY <2>3 DEF start_training_session, complete_training_session, update_training_progress
    <3>2. progress' \subseteq Progress /\ NoneAttested'
      BY <2>3, StartKept, CompleteKept, ProgressKept DEF start_training_session
    <3> QED  BY <1>2, <1>3, <3>1, <3>2 DEF TrainingInvariant, NoneAttestsAnAssessment
  <2>4. CASE \/ \E u \in Learners, s \in StepIds, d \in {NoTerm, today + 1} : certify_instructor(u, s, d)
             \/ \E i \in instructors : revoke_instructor_certification(i)
             \/ ToolLocked
    <3>1. Request /\ UNCHANGED <<steps, progress, waivers>>
      BY <2>4 DEF certify_instructor, revoke_instructor_certification, ToolLocked
    <3> QED  BY <1>1, <1>2, <1>3, <3>1 DEF TrainingInvariant
  <2>5. CASE \/ \E u \in Learners, d \in {NoTerm, today + 1} : grant_waiver(u, d)
             \/ \E w \in waivers : revoke_waiver(w)
    <3>1. Request /\ UNCHANGED <<steps, progress>>
      BY <2>5 DEF grant_waiver, revoke_waiver
    <3>2. waivers' \subseteq waivers \/ \E u \in Learners, d \in Int : waivers' \subseteq waivers \cup {<<u, d>>}
      BY <2>5 DEF grant_waiver, revoke_waiver, upsert_waiver, NoTerm, TrainingInvariant
    <3>3. \A w \in waivers' : w[2] \in Int
      BY <3>2 DEF TrainingInvariant
    <3> QED  BY <1>1, <1>3, <3>1, <3>3 DEF TrainingInvariant
  <2>6. CASE TrainingDayPasses
    <3>1. UNCHANGED <<steps, progress, waivers>> /\ today' \in Nat
      BY <2>6 DEF TrainingDayPasses, TrainingInvariant
    <3> QED  BY <1>1, <1>2, <3>1 DEF TrainingInvariant
  <2> QED  BY <1>4, <2>1, <2>2, <2>3, <2>4, <2>5, <2>6 DEF TrainingNext
<1>5. CASE UNCHANGED trainingVars
  BY <1>1, <1>2, <1>5 DEF trainingVars, TrainingInvariant
<1> QED  BY <1>4, <1>5

\* A day that passes: who is let in after it was before, and whose time is up is out.
LEMMA DayTakesAway ==
    ASSUME TrainingInvariant, TrainingDayPasses, NEW u \in Learners
    PROVE  /\ user_is_authorized_for_tool(u)' => user_is_authorized_for_tool(u)
           /\ (/\ steps # {} /\ \A w \in waivers : w[1] = u => w[2] = today'
               /\ \E x \in steps : \A p \in progress :
                     p.who = u /\ p.step = x.id => p.status # "completed" \/ p.until = today)
              => ~ user_is_authorized_for_tool(u)'
<1>1. UNCHANGED <<steps, progress, waivers, tool>> /\ today' = today + 1 /\ today \in Nat
  BY DEF TrainingDayPasses, TrainingInvariant
<1>2. \A p \in progress : p.until \in Int
  BY DEF TrainingInvariant, Progress
<1>3. \A w \in waivers : w[2] \in Int
  BY DEF TrainingInvariant
<1>4. user_has_active_waiver(u)' => user_has_active_waiver(u)
  BY <1>1, <1>3 DEF user_has_active_waiver, NoTerm
<1>5. user_has_completed_all_training_steps(u)' => user_has_completed_all_training_steps(u)
  BY <1>1, <1>2 DEF user_has_completed_all_training_steps, RowOf, NoTerm
<1>6. tool_has_training_steps' <=> tool_has_training_steps
  BY <1>1 DEF tool_has_training_steps
<1>7. user_is_authorized_for_tool(u)' => user_is_authorized_for_tool(u)
  BY <1>1, <1>4, <1>5, <1>6 DEF user_is_authorized_for_tool
<1>8. ASSUME steps # {}, \A w \in waivers : w[1] = u => w[2] = today', NEW x \in steps,
             \A p \in progress : p.who = u /\ p.step = x.id => p.status # "completed" \/ p.until = today
      PROVE  ~ user_is_authorized_for_tool(u)'
  <2>1. ~ user_has_active_waiver(u)'
    BY <1>1, <1>8 DEF user_has_active_waiver, NoTerm
  <2>2. ~ user_has_completed_all_training_steps(u)'
    BY <1>1, <1>8 DEF user_has_completed_all_training_steps, RowOf, NoTerm
  <2>3. tool_has_training_steps'
    BY <1>1, <1>8 DEF tool_has_training_steps
  <2> QED  BY <2>1, <2>2, <2>3 DEF user_is_authorized_for_tool
<1> QED  BY <1>7, <1>8

\* However staff turn the flags of a step between one request and the next, nobody signs off an assessment of their
\* own; and a day that passes lets nobody in and puts out those whose waiver or completion ends with it.
THEOREM TrainingEarned == TrainingSpec => TrainingIsEarned
<1>1. TrainingInit => TrainingInvariant
  BY DEF TrainingInit, TrainingInvariant, NoneAttestsAnAssessment, NoneAttested
<1>2. TrainingInvariant => AssessmentIsJudged
  <2> SUFFICES ASSUME TrainingInvariant, NEW p \in progress, p.status = "completed", p.assessed PROVE p.how # "self"
    BY DEF AssessmentIsJudged
  <2>1. p.assessed = TRUE
    BY DEF TrainingInvariant, Progress
  <2> QED  BY <2>1 DEF TrainingInvariant, NoneAttested
<1>3. TrainingInvariant /\ [TrainingNext]_trainingVars =>
        [today' > today =>
          \A u \in Learners :
             /\ user_is_authorized_for_tool(u)' => user_is_authorized_for_tool(u)
             /\ (/\ steps # {} /\ \A w \in waivers : w[1] = u => w[2] = today'
                 /\ \E x \in steps : \A p \in progress :
                       p.who = u /\ p.step = x.id => p.status # "completed" \/ p.until = today)
                => ~ user_is_authorized_for_tool(u)']_trainingVars
  <2> SUFFICES ASSUME TrainingInvariant, TrainingNext, today' > today PROVE TrainingDayPasses
    BY DayTakesAway
  <2>1. TrainingDayPasses \/ today' = today
    BY ZenonT(60) DEF TrainingNext, create_training_step, update_training_step, delete_training_step, start_training_session,
         complete_training_session, update_training_progress, certify_instructor, revoke_instructor_certification,
         grant_waiver, revoke_waiver, ToolLocked, Request
  <2> QED  BY <2>1 DEF TrainingInvariant
<1>4. TrainingSpec => []TrainingInvariant
  BY <1>1, TrainingStep, PTL DEF TrainingSpec
<1> QED  BY <1>2, <1>3, <1>4, TrainingStep, PTL DEF TrainingSpec, TrainingIsEarned, TimeOnlyTakesAway

-----------------------------------------------------------------------------
(* Courses: the session replayed *)

\* A set of naturals has a least element: what induction rests on here.
LEMMA LeastElement ==
    ASSUME NEW T \in SUBSET Nat, T # {}
    PROVE  \E y \in T : \A z \in T : y <= z
<1>1. PICK R : R = OpToRel(<, Nat)
  OBVIOUS
<1>2. IsWellFoundedOn(R, Nat)
  BY <1>1, NatLessThanWellFounded
<1>3. PICK y \in T : \A z \in T : ~ (<<z, y>> \in R)
  BY <1>2, WFMin
<1>4. ASSUME NEW z \in T, ~ (y <= z) PROVE FALSE
  <2>1. z \in Nat /\ y \in Nat /\ z < y
    BY <1>4
  <2>2. <<z, y>> \in R
    BY <1>1, <2>1 DEF OpToRel
  <2> QED  BY <1>3, <2>2
<1> QED  BY <1>4

Sessions == [initialized : BOOLEAN, terminated : BOOLEAN, passed : BOOLEAN, completed : BOOLEAN, failed : BOOLEAN]

\* f replays the first k statements of stored.
Replays(f, stored, k) ==
    f = [n \in 0 .. k |-> IF n = 0 THEN NewSession ELSE apply(f[n - 1], stored[n])]

\* There is such a replay, up to any statement.
LEMMA ReplayExists ==
    ASSUME NEW stored, NEW k \in Nat
    PROVE  \E f : Replays(f, stored, k)
<1> DEFINE T == {n \in Nat : ~ \E f : Replays(f, stored, n)}
<1>1. ASSUME T # {} PROVE FALSE
  <2>1. PICK n \in T : \A z \in T : n <= z
    BY <1>1, LeastElement
  <2>2. CASE n = 0
    <3>1. PICK f : f = [x \in 0 .. 0 |-> NewSession]
      OBVIOUS
    <3>2. f = [x \in 0 .. 0 |-> IF x = 0 THEN NewSession ELSE apply(f[x - 1], stored[x])]
      BY <3>1
    <3> QED  BY <2>1, <2>2, <3>2 DEF Replays
  <2>3. CASE n # 0
    <3>1. n - 1 \in Nat /\ n \in Nat /\ ~ (n <= n - 1)
      BY <2>3
    <3>2. n - 1 \notin T
      BY <2>1, <3>1
    <3>3. PICK g : Replays(g, stored, n - 1)
      BY <3>1, <3>2
    <3>4. PICK f : f = [x \in 0 .. n |-> IF x = n THEN apply(g[n - 1], stored[n]) ELSE g[x]]
      OBVIOUS
    <3>5. ASSUME NEW x \in 0 .. n PROVE f[x] = IF x = 0 THEN NewSession ELSE apply(f[x - 1], stored[x])
      <4>1. CASE x = n
        <5>1. f[n] = apply(g[n - 1], stored[n]) /\ f[n - 1] = g[n - 1]
          BY <3>1, <3>4
        <5> QED  BY <2>3, <4>1, <5>1
      <4>2. CASE x # n
        <5>1. x \in 0 .. n - 1 /\ f[x] = g[x]
          BY <3>1, <3>4, <4>2
        <5>2. g[x] = IF x = 0 THEN NewSession ELSE apply(g[x - 1], stored[x])
          BY <3>3, <5>1 DEF Replays
        <5>3. x # 0 => x - 1 \in 0 .. n /\ x - 1 # n
          BY <3>1, <5>1
        <5>4. x # 0 => f[x - 1] = g[x - 1]
          BY <3>4, <5>3
        <5> QED  BY <5>1, <5>2, <5>4
      <4> QED  BY <4>1, <4>2
    <3>6. f = [x \in 0 .. n |-> IF x = 0 THEN NewSession ELSE apply(f[x - 1], stored[x])]
      BY <3>4, <3>5
    <3> QED  BY <2>1, <3>6 DEF Replays
  <2> QED  BY <2>2, <2>3
<1> QED  BY <1>1

\* Replays agree on what they both replay.
LEMMA ReplaysAgree ==
    ASSUME NEW f, NEW g, NEW stored, NEW more, NEW j \in Nat, NEW k \in Nat, j <= k,
           Replays(f, stored, j), Replays(g, more, k), \A n \in 1 .. j : stored[n] = more[n]
    PROVE  \A n \in 0 .. j : f[n] = g[n]
<1> DEFINE T == {n \in 0 .. j : f[n] # g[n]}
<1>1. ASSUME T # {} PROVE FALSE
  <2>0. T \in SUBSET Nat
    OBVIOUS
  <2>1. PICK n \in T : \A z \in T : n <= z
    BY <1>1, <2>0, LeastElement
  <2>2. f[n] = (IF n = 0 THEN NewSession ELSE apply(f[n - 1], stored[n]))
    BY <2>1 DEF Replays
  <2>3. g[n] = (IF n = 0 THEN NewSession ELSE apply(g[n - 1], more[n]))
    <3>1. n \in 0 .. k
      BY <2>1
    <3> QED  BY <3>1 DEF Replays
  <2>4. n # 0
    BY <2>1, <2>2, <2>3
  <2>5. n - 1 \in 0 .. j /\ n \in 1 .. j /\ ~ (n <= n - 1)
    BY <2>1, <2>4
  <2>6. f[n - 1] = g[n - 1]
    BY <2>1, <2>5
  <2> QED  BY <2>1, <2>2, <2>3, <2>4, <2>5, <2>6
<1> QED  BY <1>1

\* The session is the last state of a replay.
LEMMA SessionReplayed ==
    ASSUME NEW stored \in Seq(StatementIds)
    PROVE  \E f : Replays(f, stored, Len(stored)) /\ SessionState(stored) = f[Len(stored)]
<1> DEFINE chosen == CHOOSE f : f = [n \in 0 .. Len(stored) |-> IF n = 0 THEN NewSession ELSE apply(f[n - 1], stored[n])]
<1>1. \E f : f = [n \in 0 .. Len(stored) |-> IF n = 0 THEN NewSession ELSE apply(f[n - 1], stored[n])]
  <2>1. Len(stored) \in Nat
    OBVIOUS
  <2>2. \E f : Replays(f, stored, Len(stored))
    BY <2>1, ReplayExists
  <2> QED  BY <2>2, Zenon DEF Replays
<1>2. Replays(chosen, stored, Len(stored))
  BY <1>1, Zenon DEF Replays
<1>3. SessionState(stored) = chosen[Len(stored)]
  BY Zenon DEF SessionState
<1> QED  BY <1>2, <1>3

\* Nothing stored is a new session.
LEMMA SessionBegins == SessionState(<<>>) = NewSession
<1>1. <<>> \in Seq(StatementIds) /\ Len(<<>>) = 0
  OBVIOUS
<1>2. PICK f : Replays(f, <<>>, 0) /\ SessionState(<<>>) = f[0]
  BY <1>1, SessionReplayed
<1> QED  BY <1>2 DEF Replays

\* One statement more is one more applied.
LEMMA SessionGoesOn ==
    ASSUME NEW stored \in Seq(StatementIds), NEW i \in StatementIds
    PROVE  SessionState(Append(stored, i)) = apply(SessionState(stored), i)
<1>1. PICK k \in Nat : k = Len(stored)
  OBVIOUS
<1>2. PICK more : more = Append(stored, i)
  OBVIOUS
<1>3. more \in Seq(StatementIds) /\ Len(more) = k + 1 /\ more[k + 1] = i /\ \A n \in 1 .. k : stored[n] = more[n]
  BY <1>1, <1>2
<1>4. PICK f : Replays(f, stored, k) /\ SessionState(stored) = f[k]
  BY <1>1, SessionReplayed
<1>5. PICK g : Replays(g, more, k + 1) /\ SessionState(more) = g[k + 1]
  BY <1>3, SessionReplayed
<1>6. f[k] = g[k]
  <2>1. k + 1 \in Nat /\ k <= k + 1 /\ k \in 0 .. k
    OBVIOUS
  <2> QED  BY <1>3, <1>4, <1>5, <2>1, ReplaysAgree
<1>7. g[k + 1] = apply(g[k], more[k + 1])
  <2>1. k + 1 \in 0 .. k + 1 /\ k + 1 # 0 /\ k + 1 - 1 = k
    OBVIOUS
  <2> QED  BY <1>5, <2>1 DEF Replays
<1> QED  BY <1>2, <1>3, <1>4, <1>5, <1>6, <1>7

\* A statement applied to a session is a session.
LEMMA AppliedTyped ==
    ASSUME NEW m \in Sessions, NEW i \in StatementIds
    PROVE  apply(m, i) \in Sessions
<1>1. CASE ~ apply_allowed(m, i)
  BY <1>1 DEF apply
<1>2. CASE apply_allowed(m, i)
  <2>1. Says[i].verb \in AuVerbs
    BY <1>2 DEF apply_allowed, is_au_verb
  <2>2. ASSUME NEW v \in AuVerbs PROVE [m EXCEPT ![v] = TRUE] \in Sessions
    BY DEF Sessions, AuVerbs
  <2> QED  BY <1>2, <2>1, <2>2 DEF apply
<1> QED  BY <1>1, <1>2

\* A session replayed is one.
LEMMA SessionTyped ==
    ASSUME NEW stored \in Seq(StatementIds)
    PROVE  SessionState(stored) \in Sessions
<1>1. PICK k \in Nat : k = Len(stored)
  OBVIOUS
<1>2. PICK f : Replays(f, stored, k) /\ SessionState(stored) = f[k]
  BY <1>1, SessionReplayed
<1> DEFINE T == {n \in 0 .. k : f[n] \notin Sessions}
<1>3. ASSUME T # {} PROVE FALSE
  <2>1. T \in SUBSET Nat
    OBVIOUS
  <2>2. PICK n \in T : \A z \in T : n <= z
    BY <1>3, <2>1, LeastElement
  <2>3. f[n] = (IF n = 0 THEN NewSession ELSE apply(f[n - 1], stored[n]))
    BY <1>2, <2>2 DEF Replays
  <2>4. NewSession \in Sessions
    BY DEF NewSession, Sessions
  <2>5. n # 0
    BY <2>2, <2>3, <2>4
  <2>6. n - 1 \in 0 .. k /\ n \in 1 .. Len(stored) /\ ~ (n <= n - 1)
    BY <1>1, <2>2, <2>5
  <2>7. f[n - 1] \in Sessions /\ stored[n] \in StatementIds
    BY <2>2, <2>6
  <2> QED  BY <2>2, <2>3, <2>5, <2>7, AppliedTyped
<1> QED  BY <1>1, <1>2, <1>3

\* A statement of this kind that counts is among those stored.
CountedIn(stored, v) == \E n \in DOMAIN stored : Says[stored[n]].verb = v /\ Says[stored[n]].counts
\* What a session in order tells of the statements stored.
InOrder(stored) ==
    \A n \in DOMAIN stored :
        /\ (Says[stored[n]].verb = "initialized") = (n = 1)
        /\ Says[stored[n]].verb = "terminated" => n = Len(stored)
Tells(stored, m) ==
    /\ InOrder(stored) /\ m \in Sessions
    /\ m.initialized = TRUE <=> Len(stored) > 0
    /\ m.terminated = TRUE <=> Len(stored) > 0 /\ Says[stored[Len(stored)]].verb = "terminated"
    /\ m.passed = TRUE <=> CountedIn(stored, "passed")
    /\ m.completed = TRUE <=> CountedIn(stored, "completed")
    /\ m.failed = TRUE <=> CountedIn(stored, "failed")
    /\ ~ (m.passed = TRUE /\ m.failed = TRUE)

\* What one statement more counts.
LEMMA CountedMore ==
    ASSUME NEW stored \in Seq(StatementIds), NEW i \in StatementIds, NEW v
    PROVE  CountedIn(Append(stored, i), v) <=> CountedIn(stored, v) \/ (Says[i].verb = v /\ Says[i].counts)
<1>1. PICK more : more = Append(stored, i)
  OBVIOUS
<1>2. PICK k \in Nat : k = Len(stored)
  OBVIOUS
<1>3. /\ DOMAIN stored = 1 .. k /\ DOMAIN more = 1 .. k + 1 /\ more[k + 1] = i
      /\ \A n \in 1 .. k : more[n] = stored[n]
  BY <1>1, <1>2
<1>4. \A n \in 1 .. k + 1 : n \in 1 .. k \/ n = k + 1
  OBVIOUS
<1>5. k + 1 \in 1 .. k + 1 /\ \A n \in 1 .. k : n \in 1 .. k + 1
  OBVIOUS
<1>6. CountedIn(more, v) <=> CountedIn(stored, v) \/ (Says[i].verb = v /\ Says[i].counts)
  BY <1>3, <1>4, <1>5 DEF CountedIn
<1> QED  BY <1>1, <1>6

\* A statement that may come now keeps the session in order.
LEMMA TellsMore ==
    ASSUME NEW stored \in Seq(StatementIds), NEW i \in StatementIds, NEW m, Tells(stored, m), apply_allowed(m, i)
    PROVE  Tells(Append(stored, i), apply(m, i))
<1>1. PICK v : v = Says[i].verb
  OBVIOUS
<1>2. PICK more : more = Append(stored, i)
  OBVIOUS
<1>3. PICK k \in Nat : k = Len(stored)
  OBVIOUS
<1>4. PICK q : q = apply(m, i)
  OBVIOUS
<1>5. m \in Sessions /\ q \in Sessions
  BY <1>4, AppliedTyped DEF Tells
<1>6. /\ v \in AuVerbs /\ m.terminated = FALSE /\ (v = "initialized" <=> m.initialized = FALSE)
      /\ Says[i].counts => ~ (v = "passed" /\ m.failed = TRUE) /\ ~ (v = "failed" /\ m.passed = TRUE)
  BY <1>1, <1>5 DEF apply_allowed, is_au_verb, is_moveon, Sessions
<1>7. q = IF v \in {"initialized", "terminated"} \/ Says[i].counts THEN [m EXCEPT ![v] = TRUE] ELSE m
  BY <1>1, <1>4 DEF apply, is_moveon
<1>8. /\ DOMAIN stored = 1 .. k /\ DOMAIN more = 1 .. k + 1 /\ more[k + 1] = i /\ Len(more) = k + 1
      /\ \A n \in 1 .. k : more[n] = stored[n]
  BY <1>2, <1>3
<1>9. InOrder(more)
  <2> SUFFICES ASSUME NEW n \in 1 .. k + 1
               PROVE  /\ (Says[more[n]].verb = "initialized") = (n = 1)
                      /\ Says[more[n]].verb = "terminated" => n = k + 1
    BY <1>8 DEF InOrder
  <2>1. CASE n \in 1 .. k
    <3>1. more[n] = stored[n] /\ n \in DOMAIN stored
      BY <1>8, <2>1
    <3>2. /\ (Says[stored[n]].verb = "initialized") = (n = 1)
          /\ Says[stored[n]].verb = "terminated" => n = k
      BY <1>3, <3>1 DEF Tells, InOrder
    <3>3. Says[stored[n]].verb # "terminated"
      BY <1>3, <1>5, <1>6, <2>1, <3>2 DEF Tells
    <3> QED  BY <3>1, <3>2, <3>3
  <2>2. CASE n = k + 1
    <3>1. k > 0 <=> m.initialized = TRUE
      BY <1>3 DEF Tells
    <3>2. m.initialized \in BOOLEAN
      BY <1>5 DEF Sessions
    <3>3. (v = "initialized") <=> k = 0
      BY <1>6, <3>1, <3>2
    <3> QED  BY <1>1, <1>8, <2>2, <3>3
  <2> QED  BY <2>1, <2>2
<1>10. /\ q.initialized = TRUE <=> m.initialized = TRUE \/ v = "initialized"
       /\ q.terminated = TRUE <=> v = "terminated"
       /\ q.passed = TRUE <=> m.passed = TRUE \/ (v = "passed" /\ Says[i].counts)
       /\ q.completed = TRUE <=> m.completed = TRUE \/ (v = "completed" /\ Says[i].counts)
       /\ q.failed = TRUE <=> m.failed = TRUE \/ (v = "failed" /\ Says[i].counts)
  BY <1>5, <1>6, <1>7 DEF Sessions, AuVerbs
<1>11. \A w : CountedIn(more, w) <=> CountedIn(stored, w) \/ (v = w /\ Says[i].counts)
  BY <1>1, <1>2, CountedMore
<1>12. q.initialized = TRUE <=> k + 1 > 0
  BY <1>3, <1>5, <1>6, <1>10 DEF Sessions
<1>13. Tells(more, q)
  <2>1. Len(more) = k + 1 /\ k + 1 > 0 /\ Says[more[k + 1]].verb = v
    BY <1>1, <1>8
  <2>2. ~ (q.passed = TRUE /\ q.failed = TRUE)
    BY <1>6, <1>10 DEF Tells
  <2> QED  BY <1>5, <1>9, <1>10, <1>11, <1>12, <2>1, <2>2 DEF Tells
<1> QED  BY <1>2, <1>4, <1>13

-----------------------------------------------------------------------------
(* Courses: what a registration and its requests are *)

CourseRests == [do : {"persist", "erase"}, unit : Units]
Sents == [do : {"store", "grant", "mark"}, launch : Launches, id : StatementIds, met : BOOLEAN]
LaunchRows == [id : Launches, unit : Units, who : Learners, fetch_until : Int, until : Int, sessions : {0, 1}, satisfied : BOOLEAN]
CoursesTyped ==
    /\ courses \in [Units -> {"none", "here", "deleted"}] /\ sending \subseteq CourseRests \cup Sents
    /\ launches \subseteq LaunchRows /\ log \in [Launches -> Seq(StatementIds)] /\ credits \in [Launches -> Nat]
    /\ overlapped \in BOOLEAN /\ broken \in BOOLEAN /\ today \in Int
\* Content is written before the course is there, and erased after it is gone.
ContentStands ==
    \A a \in Units :
        /\ courses[a] = "here" => a \in dirs
        /\ Rest("persist", a) \in sending => courses[a] = "none" /\ a \in dirs
        /\ Rest("erase", a) \in sending => courses[a] = "deleted"
\* A statement in progress is of one launch.
LaunchesApart == \A l, k \in launches : l.id = k.id => l = k
SentsLaunched == \A p \in Statements : \E l \in launches : l.id = p.launch
CreditsLaunched == \A g \in Launches : credits[g] > 0 => \E l \in launches : l.id = g
OneAtATime == ~ overlapped => \A p, q \in Statements : p = q
\* Credit given is marked, or about to be.
CreditsMarked ==
    ~ overlapped /\ ~ broken =>
        /\ \A g \in Launches :
              /\ credits[g] <= 1
              /\ credits[g] = 1 => \/ \E l \in launches : l.id = g /\ l.satisfied = TRUE
                                   \/ \E p \in Statements : p.do = "mark" /\ p.launch = g
        /\ \A p \in Statements : p.do = "grant" => credits[p.launch] = 0
\* What satisfies a launch's unit is stored.
Met(l) == evaluate_move_on(MoveOn[l.unit], SessionState(log[l.id])) = TRUE
ByTheRules ==
    ~ overlapped =>
        /\ \A g \in Launches : Tells(log[g], SessionState(log[g]))
        /\ \A l \in launches : credits[l.id] > 0 => Met(l)
        /\ \A p \in Statements, l \in launches : p.launch = l.id =>
              /\ p.do = "store" =>
                    /\ apply_allowed(SessionState(log[l.id]), p.id)
                    /\ p.met = evaluate_move_on(MoveOn[l.unit], apply(SessionState(log[l.id]), p.id))
              /\ p.do = "grant" => Met(l)
CreditInvariant == LaunchesApart /\ SentsLaunched /\ CreditsLaunched /\ OneAtATime /\ CreditsMarked /\ ByTheRules
CoursesInvariant == CoursesTyped /\ ContentStands /\ CreditInvariant

\* A rule met or not is a Boolean.
LEMMA MoveOnTyped ==
    ASSUME NEW m \in Sessions, NEW rule
    PROVE  evaluate_move_on(rule, m) \in BOOLEAN
BY DEF evaluate_move_on, Sessions

\* A statement in progress is one the content sent, or part of a course's import or deletion.
LEMMA SendingShapes ==
    ASSUME CoursesInvariant, NEW p \in sending
    PROVE  \/ p \in CourseRests /\ p.do \in {"persist", "erase"} /\ p \notin Statements
           \/ p \in Sents /\ p.do \in {"store", "grant", "mark"} /\ p \in Statements
<1>1. p \in CourseRests \/ p \in Sents
  BY DEF CoursesInvariant, CoursesTyped
<1> QED  BY <1>1 DEF CourseRests, Sents, Statements

\* Steps that leave launches, statements and credit to themselves.
LEMMA CreditStands ==
    ASSUME CoursesInvariant, Statements' = Statements, UNCHANGED <<launches, log, credits, overlapped>>,
           broken' = broken \/ broken' = TRUE
    PROVE  CreditInvariant'
<1>1. LaunchesApart' /\ SentsLaunched' /\ CreditsLaunched' /\ OneAtATime'
  BY DEF CoursesInvariant, CreditInvariant, LaunchesApart, SentsLaunched, CreditsLaunched, OneAtATime
<1>2. CreditsMarked'
  BY DEF CoursesInvariant, CreditInvariant, CreditsMarked
<1>3. ByTheRules'
  BY DEF CoursesInvariant, CreditInvariant, ByTheRules, Met
<1> QED  BY <1>1, <1>2, <1>3 DEF CreditInvariant

\* What an import or a deletion adds to or takes from sending is no statement.
LEMMA RestsApart ==
    ASSUME NEW what \in {"persist", "erase"}, NEW a \in Units
    PROVE  Rest(what, a) \in CourseRests /\ Rest(what, a).do = what /\ Rest(what, a).unit = a
BY DEF Rest, CourseRests

\* Imports and deletions keep it.
LEMMA CourseKept ==
    ASSUME CoursesInvariant, NEW a \in Units,
           import_package(a) \/ import_package_persists(a) \/ delete_course(a) \/ delete_course_erases(a)
    PROVE  CoursesInvariant'
<1>1. /\ UNCHANGED <<launches, log, credits, overlapped, today>> /\ (broken' = broken \/ broken' = TRUE)
  BY DEF import_package, extract_all, import_package_persists, delete_course, delete_course_erases, trainingVars
<1>2. /\ courses \in [Units -> {"none", "here", "deleted"}] /\ sending \subseteq CourseRests \cup Sents
      /\ broken \in BOOLEAN
  BY DEF CoursesInvariant, CoursesTyped
<1>3. PICK w \in {"persist", "erase"} : sending' = sending \/ sending' = sending \cup {Rest(w, a)} \/ sending' = sending \ {Rest(w, a)}
  BY DEF import_package, extract_all, import_package_persists, delete_course, delete_course_erases
<1>4. Statements' = Statements
  <2>1. Rest(w, a).do = w
    BY RestsApart
  <2> QED  BY <1>3, <2>1 DEF Statements
<1>5. CreditInvariant'
  BY <1>1, <1>4, CreditStands
<1>6. sending' \subseteq CourseRests \cup Sents
  BY <1>2, <1>3, RestsApart
<1>7. courses' \in [Units -> {"none", "here", "deleted"}]
  BY <1>2 DEF import_package, import_package_persists, delete_course, delete_course_erases
<1>8. CoursesTyped'
  BY <1>1, <1>2, <1>6, <1>7 DEF CoursesInvariant, CoursesTyped
<1>9. ContentStands'
  <2> SUFFICES ASSUME NEW b \in Units
               PROVE  /\ courses'[b] = "here" => b \in dirs'
                      /\ Rest("persist", b) \in sending' => courses'[b] = "none" /\ b \in dirs'
                      /\ Rest("erase", b) \in sending' => courses'[b] = "deleted"
    BY DEF ContentStands, Rest
  <2>1. /\ courses[b] = "here" => b \in dirs
        /\ Rest("persist", b) \in sending => courses[b] = "none" /\ b \in dirs
        /\ Rest("erase", b) \in sending => courses[b] = "deleted"
    BY DEF CoursesInvariant, ContentStands
  <2>2. \A x, y \in {"persist", "erase"} : Rest(x, a) = Rest(y, b) => x = y /\ a = b
    BY RestsApart
  <2>3. /\ Rest("persist", a) \in sending => courses[a] = "none" /\ a \in dirs
        /\ Rest("erase", a) \in sending => courses[a] = "deleted"
    BY DEF CoursesInvariant, ContentStands
  <2>4. CASE import_package(a)
    BY <1>2, <2>1, <2>2, <2>3, <2>4 DEF import_package, extract_all
  <2>5. CASE import_package_persists(a)
    BY <1>2, <2>1, <2>2, <2>3, <2>5 DEF import_package_persists
  <2>6. CASE delete_course(a)
    BY <1>2, <2>1, <2>2, <2>3, <2>6 DEF delete_course
  <2>7. CASE delete_course_erases(a)
    BY <1>2, <2>1, <2>2, <2>3, <2>7 DEF delete_course_erases
  <2> QED  BY <2>4, <2>5, <2>6, <2>7
<1> QED  BY <1>5, <1>8, <1>9 DEF CoursesInvariant

\* Steps that leave the courses and their files.
LEMMA ContentLeft ==
    ASSUME CoursesInvariant, UNCHANGED <<courses, dirs>>, \A p \in sending' : p \in CourseRests => p \in sending
    PROVE  ContentStands'
<1> SUFFICES ASSUME NEW b \in Units
             PROVE  /\ courses'[b] = "here" => b \in dirs'
                    /\ Rest("persist", b) \in sending' => courses'[b] = "none" /\ b \in dirs'
                    /\ Rest("erase", b) \in sending' => courses'[b] = "deleted"
  BY DEF ContentStands, Rest
<1>1. Rest("persist", b) \in CourseRests /\ Rest("erase", b) \in CourseRests
  BY RestsApart
<1> QED  BY <1>1 DEF CoursesInvariant, ContentStands

\* Steps of training, and of which unit is bound to which step, leave the rest.
LEMMA TrainingKept ==
    ASSUME CoursesInvariant, TrainingGoesOn \/ \E a \in Units, s \in SUBSET StepIds : assign_au_step(a, s)
    PROVE  CoursesInvariant'
<1>1. UNCHANGED <<courses, dirs, launches, log, sending, credits, overlapped, broken>>
  BY DEF TrainingGoesOn, assign_au_step
<1>2. today' \in Int
  <2>1. today \in Int
    BY DEF CoursesInvariant, CoursesTyped
  <2>2. today' = today \/ today' = today + 1
    BY DEF TrainingGoesOn, assign_au_step, trainingVars, Request, create_training_step, update_training_step,
           delete_training_step, start_training_session, update_training_progress, TrainingDayPasses
  <2> QED  BY <2>1, <2>2
<1>3. Statements' = Statements
  BY <1>1 DEF Statements
<1>4. CoursesTyped' /\ ContentStands'
  BY <1>1, <1>2, ContentLeft DEF CoursesInvariant, CoursesTyped
<1> QED  BY <1>1, <1>3, <1>4, CreditStands DEF CoursesInvariant

\* Launch rows that are replaced by others of the same launches, and statements that have been marked.
LEMMA LaunchesUpdated ==
    ASSUME CoursesInvariant, LaunchesApart',
           \A k \in launches' : \E l \in launches : l.id = k.id /\ l.unit = k.unit,
           \A l \in launches : \E k \in launches' : k.id = l.id /\ (l.satisfied = TRUE => k.satisfied = TRUE),
           UNCHANGED <<log, credits, overlapped, broken>>, Statements' \subseteq Statements,
           \A p \in Statements \ Statements' : \E k \in launches' : k.id = p.launch /\ k.satisfied = TRUE
    PROVE  CreditInvariant'
<1>1. SentsLaunched'
  BY DEF CoursesInvariant, CreditInvariant, SentsLaunched
<1>2. CreditsLaunched'
  BY DEF CoursesInvariant, CreditInvariant, CreditsLaunched
<1>3. OneAtATime'
  BY DEF CoursesInvariant, CreditInvariant, OneAtATime
<1>4. CreditsMarked'
  <2> SUFFICES ASSUME ~ overlapped, ~ broken PROVE CreditsMarked'
    BY DEF CreditsMarked
  <2>1. CreditsMarked
    BY DEF CoursesInvariant, CreditInvariant
  <2>2. ASSUME NEW g \in Launches, credits[g] = 1
        PROVE  \/ \E l \in launches' : l.id = g /\ l.satisfied = TRUE
               \/ \E p \in Statements' : p.do = "mark" /\ p.launch = g
    BY <2>1, <2>2 DEF CreditsMarked
  <2> QED  BY <2>1, <2>2 DEF CreditsMarked
<1>5. ByTheRules'
  <2> SUFFICES ASSUME ~ overlapped PROVE ByTheRules'
    BY DEF ByTheRules
  <2>1. ByTheRules
    BY DEF CoursesInvariant, CreditInvariant
  <2>2. ASSUME NEW k \in launches', credits[k.id] > 0 PROVE Met(k)'
    <3>1. PICK l \in launches : l.id = k.id /\ l.unit = k.unit
      OBVIOUS
    <3> QED  BY <2>1, <2>2, <3>1 DEF ByTheRules, Met
  <2>3. ASSUME NEW p \in Statements', NEW k \in launches', p.launch = k.id
        PROVE  /\ p.do = "store" =>
                     /\ apply_allowed(SessionState(log[k.id]), p.id)
                     /\ p.met = evaluate_move_on(MoveOn[k.unit], apply(SessionState(log[k.id]), p.id))
               /\ p.do = "grant" => Met(k)'
    <3>1. PICK l \in launches : l.id = k.id /\ l.unit = k.unit
      OBVIOUS
    <3>2. p \in Statements /\ p.launch = l.id
      BY <2>3, <3>1
    <3> QED  BY <2>1, <3>1, <3>2 DEF ByTheRules, Met
  <2> QED  BY <2>1, <2>2, <2>3 DEF ByTheRules
<1> QED  BY <1>1, <1>2, <1>3, <1>4, <1>5 DEF CreditInvariant

\* A launch begun keeps it.
LEMMA LaunchKept ==
    ASSUME CoursesInvariant, NEW g \in Launches, NEW a \in Units, NEW u \in Learners, create_launch(g, a, u)
    PROVE  CoursesInvariant'
<1>1. PICK x : x = [id |-> g, unit |-> a, who |-> u, fetch_until |-> today + FetchTtl,
                    until |-> today + SessionTtl, sessions |-> 0, satisfied |-> FALSE]
  OBVIOUS
<1>2. today \in Int /\ x \in LaunchRows /\ x.id = g
  BY <1>1, CoursesAssumption DEF LaunchRows, CoursesInvariant, CoursesTyped
<1>3. /\ launches' = launches \cup {x} /\ (\A l \in launches : l.id # g)
      /\ UNCHANGED <<courses, dirs, log, sending, credits, overlapped, broken, today>>
  BY <1>1 DEF create_launch, trainingVars
<1>4. Statements' = Statements
  BY <1>3 DEF Statements
<1>5. CoursesTyped' /\ ContentStands'
  BY <1>2, <1>3, ContentLeft DEF CoursesInvariant, CoursesTyped
<1>6. LaunchesApart' /\ SentsLaunched' /\ CreditsLaunched' /\ OneAtATime'
  BY <1>2, <1>3, <1>4 DEF CoursesInvariant, CreditInvariant, LaunchesApart, SentsLaunched, CreditsLaunched, OneAtATime
<1>7. CreditsMarked'
  BY <1>3, <1>4 DEF CoursesInvariant, CreditInvariant, CreditsMarked
<1>8. ~ (credits[g] > 0) /\ \A p \in Statements : p.launch # g
  BY <1>3 DEF CoursesInvariant, CreditInvariant, CreditsLaunched, SentsLaunched
<1>9. ByTheRules'
  BY <1>2, <1>3, <1>4, <1>8 DEF CoursesInvariant, CreditInvariant, ByTheRules, Met
<1> QED  BY <1>5, <1>6, <1>7, <1>9 DEF CoursesInvariant, CreditInvariant

\* A launch link followed keeps it.
LEMMA FetchKept ==
    ASSUME CoursesInvariant, NEW l \in launches, consume_fetch(l)
    PROVE  CoursesInvariant'
<1>1. l \in LaunchRows /\ l.sessions = 0
  BY DEF consume_fetch, fetch_matches, CoursesInvariant, CoursesTyped
<1>2. PICK x : x = [l EXCEPT !.sessions = 1]
  OBVIOUS
<1>3. x \in LaunchRows /\ x.id = l.id /\ x.unit = l.unit /\ x.satisfied = l.satisfied
  BY <1>1, <1>2 DEF LaunchRows
<1>4. /\ launches' = (launches \ {l}) \cup {x}
      /\ UNCHANGED <<courses, dirs, log, sending, credits, overlapped, broken, today>>
  BY <1>1, <1>2 DEF consume_fetch, trainingVars
<1>5. Statements' = Statements
  BY <1>4 DEF Statements
<1>6. CoursesTyped' /\ ContentStands'
  BY <1>3, <1>4, ContentLeft DEF CoursesInvariant, CoursesTyped
<1>7. LaunchesApart'
  BY <1>3, <1>4 DEF CoursesInvariant, CreditInvariant, LaunchesApart
<1>8. /\ \A k \in launches' : \E q \in launches : q.id = k.id /\ q.unit = k.unit
      /\ \A q \in launches : \E k \in launches' : k.id = q.id /\ (q.satisfied = TRUE => k.satisfied = TRUE)
  BY <1>3, <1>4
<1>9. CreditInvariant'
  BY <1>4, <1>5, <1>7, <1>8, LaunchesUpdated
<1> QED  BY <1>6, <1>9 DEF CoursesInvariant

\* A statement's launch.
LEMMA LaunchOfSent ==
    ASSUME CoursesInvariant, NEW p \in Statements
    PROVE  LaunchOf(p) \in launches /\ LaunchOf(p).id = p.launch
BY DEF CoursesInvariant, CreditInvariant, SentsLaunched, LaunchOf

\* A launch marked satisfied keeps it.
LEMMA MarkKept ==
    ASSUME CoursesInvariant, NEW p \in sending, record_statement_marks(p)
    PROVE  CoursesInvariant'
<1>1. p \in Statements /\ p \in Sents
  BY SendingShapes DEF record_statement_marks
<1>2. /\ sending' = sending \ {p}
      /\ launches' = {IF l.id = p.launch THEN [l EXCEPT !.satisfied = TRUE] ELSE l : l \in launches}
      /\ UNCHANGED <<courses, dirs, log, credits, overlapped, broken, today>>
  BY DEF record_statement_marks, trainingVars
<1> DEFINE marked(l) == IF l.id = p.launch THEN [l EXCEPT !.satisfied = TRUE] ELSE l
<1>3. ASSUME NEW l \in launches
      PROVE  /\ marked(l) \in LaunchRows /\ marked(l).id = l.id /\ marked(l).unit = l.unit
             /\ (l.satisfied = TRUE \/ l.id = p.launch => marked(l).satisfied = TRUE)
  <2>1. l \in LaunchRows
    BY DEF CoursesInvariant, CoursesTyped
  <2> QED  BY <2>1 DEF LaunchRows
<1>4. launches' = {marked(l) : l \in launches}
  BY <1>2
<1> HIDE DEF marked
<1>5. Statements' = Statements \ {p}
  BY <1>2 DEF Statements
<1>6. CoursesTyped' /\ ContentStands'
  BY <1>2, <1>3, <1>4, ContentLeft DEF CoursesInvariant, CoursesTyped
<1>7. LaunchesApart'
  <2> SUFFICES ASSUME NEW k \in launches', NEW q \in launches', k.id = q.id PROVE k = q
    BY DEF LaunchesApart
  <2>1. PICK l \in launches, n \in launches : k = marked(l) /\ q = marked(n)
    BY <1>4
  <2>2. l.id = n.id
    BY <1>3, <2>1
  <2>3. l = n
    BY <2>2 DEF CoursesInvariant, CreditInvariant, LaunchesApart
  <2> QED  BY <2>1, <2>3
<1>8. /\ \A k \in launches' : \E q \in launches : q.id = k.id /\ q.unit = k.unit
      /\ \A q \in launches : \E k \in launches' : k.id = q.id /\ (q.satisfied = TRUE => k.satisfied = TRUE)
  BY <1>3, <1>4
<1>9. \E k \in launches' : k.id = p.launch /\ k.satisfied = TRUE
  <2>1. PICK l \in launches : l.id = p.launch
    BY <1>1 DEF CoursesInvariant, CreditInvariant, SentsLaunched
  <2>2. marked(l) \in launches' /\ marked(l).id = p.launch /\ marked(l).satisfied = TRUE
    BY <1>3, <1>4, <2>1
  <2> QED  BY <2>2
<1>10. CreditInvariant'
  BY <1>2, <1>5, <1>7, <1>8, <1>9, LaunchesUpdated
<1> QED  BY <1>6, <1>10 DEF CoursesInvariant

\* A request that fails keeps it.
LEMMA FailureKept ==
    ASSUME CoursesInvariant, NEW p \in sending, CourseRequestFails(p)
    PROVE  CoursesInvariant'
<1>1. sending' = sending \ {p} /\ broken' = TRUE /\ UNCHANGED <<courses, dirs, launches, log, credits, overlapped, today>>
  BY DEF CourseRequestFails, trainingVars
<1>2. Statements' = Statements \ {p}
  BY <1>1 DEF Statements
<1>3. CoursesTyped' /\ ContentStands'
  BY <1>1, ContentLeft DEF CoursesInvariant, CoursesTyped
<1>4. LaunchesApart' /\ SentsLaunched' /\ CreditsLaunched' /\ OneAtATime' /\ CreditsMarked'
  BY <1>1, <1>2 DEF CoursesInvariant, CreditInvariant, LaunchesApart, SentsLaunched, CreditsLaunched, OneAtATime, CreditsMarked
<1>5. ByTheRules'
  BY <1>1, <1>2 DEF CoursesInvariant, CreditInvariant, ByTheRules, Met
<1> QED  BY <1>3, <1>4, <1>5 DEF CoursesInvariant, CreditInvariant

\* A rule that is met stays met.
LEMMA MetMore ==
    ASSUME NEW m \in Sessions, NEW i \in StatementIds, NEW rule, evaluate_move_on(rule, m) = TRUE
    PROVE  evaluate_move_on(rule, apply(m, i)) = TRUE
<1>1. PICK q : q = apply(m, i)
  OBVIOUS
<1>2. (m.passed = TRUE => q.passed = TRUE) /\ (m.completed = TRUE => q.completed = TRUE)
  <2>1. CASE ~ apply_allowed(m, i)
    BY <1>1, <2>1 DEF apply
  <2>2. CASE apply_allowed(m, i)
    <3>1. Says[i].verb \in AuVerbs
      BY <2>2 DEF apply_allowed, is_au_verb
    <3>2. q = m \/ \E v \in AuVerbs : q = [m EXCEPT ![v] = TRUE]
      BY <1>1, <3>1 DEF apply
    <3> QED  BY <3>2 DEF Sessions, AuVerbs
  <2> QED  BY <2>1, <2>2
<1>3. q \in Sessions
  BY <1>1, AppliedTyped
<1>4. evaluate_move_on(rule, q) = TRUE
  BY <1>2, <1>3 DEF evaluate_move_on, Sessions
<1> QED  BY <1>1, <1>4

\* A statement received keeps it.
LEMMA RecordKept ==
    ASSUME CoursesInvariant, NEW l \in launches, NEW i \in StatementIds, NEW mine \in BOOLEAN, record_statement(l, i, mine)
    PROVE  CoursesInvariant'
<1>1. l \in LaunchRows /\ l.id \in Launches /\ log[l.id] \in Seq(StatementIds)
  BY DEF CoursesInvariant, CoursesTyped, LaunchRows
<1>2. PICK m : m = SessionState(log[l.id])
  OBVIOUS
<1>3. PICK met : met = evaluate_move_on(MoveOn[l.unit], apply(m, i))
  OBVIOUS
<1>4. m \in Sessions /\ met \in BOOLEAN
  BY <1>1, <1>2, <1>3, SessionTyped, AppliedTyped, MoveOnTyped
<1>5. PICK x : x = [do |-> "store", launch |-> l.id, id |-> i, met |-> met]
  OBVIOUS
<1>6. x \in Sents /\ x.do = "store" /\ x.launch = l.id /\ x.id = i /\ x.met = met
  BY <1>1, <1>4, <1>5 DEF Sents
<1>7. /\ sending' = sending \cup {x} /\ overlapped' = (overlapped \/ Statements # {}) /\ apply_allowed(m, i)
      /\ UNCHANGED <<courses, dirs, launches, log, credits, broken, today>>
  BY <1>2, <1>3, <1>5 DEF record_statement, Sent, trainingVars
<1>8. Statements' = Statements \cup {x}
  BY <1>6, <1>7 DEF Statements
<1>9. x \notin CourseRests
  BY <1>6 DEF CourseRests
<1>10. overlapped' \in BOOLEAN /\ (~ overlapped' => ~ overlapped /\ Statements' = {x})
  BY <1>7, <1>8
<1>11. CoursesTyped' /\ ContentStands'
  BY <1>6, <1>7, <1>9, <1>10, ContentLeft DEF CoursesInvariant, CoursesTyped
<1>12. LaunchesApart' /\ SentsLaunched' /\ CreditsLaunched' /\ OneAtATime'
  BY <1>6, <1>7, <1>8, <1>10 DEF CoursesInvariant, CreditInvariant, LaunchesApart, SentsLaunched, CreditsLaunched, OneAtATime
<1>13. CreditsMarked'
  BY <1>6, <1>7, <1>8, <1>10 DEF CoursesInvariant, CreditInvariant, CreditsMarked
<1>14. ByTheRules'
  <2> SUFFICES ASSUME ~ overlapped' PROVE ByTheRules'
    BY DEF ByTheRules
  <2>1. ByTheRules /\ ~ overlapped
    BY <1>10 DEF CoursesInvariant, CreditInvariant
  <2>2. ASSUME NEW k \in launches, k.id = l.id PROVE k = l
    BY <2>2 DEF CoursesInvariant, CreditInvariant, LaunchesApart
  <2>3. ASSUME NEW p \in Statements', NEW k \in launches', p.launch = k.id
        PROVE  /\ p.do = "store" =>
                     /\ apply_allowed(SessionState(log[k.id]), p.id)
                     /\ p.met = evaluate_move_on(MoveOn[k.unit], apply(SessionState(log[k.id]), p.id))
               /\ p.do = "grant" => Met(k)'
    <3>1. p = x /\ k = l
      BY <1>6, <1>7, <1>10, <2>2, <2>3
    <3> QED  BY <1>2, <1>3, <1>6, <1>7, <3>1
  <2> QED  BY <1>7, <2>1, <2>3 DEF ByTheRules, Met
<1> QED  BY <1>11, <1>12, <1>13, <1>14 DEF CoursesInvariant, CreditInvariant

\* A statement stored keeps it.
LEMMA StoreKept ==
    ASSUME CoursesInvariant, NEW p \in sending, record_statement_stores(p)
    PROVE  CoursesInvariant'
<1>1. p \in Statements /\ p \in Sents /\ p.do = "store" /\ p.launch \in Launches /\ p.id \in StatementIds
  BY SendingShapes DEF record_statement_stores, Sents
<1>2. PICK x : x = [p EXCEPT !.do = "grant"]
  OBVIOUS
<1>3. x \in Sents /\ x.do = "grant" /\ x.launch = p.launch
  BY <1>1, <1>2 DEF Sents
<1>4. PICK more : more = IF grants(p) THEN {x} ELSE {}
  OBVIOUS
<1>5. /\ sending' = (sending \ {p}) \cup more /\ more \subseteq {x} /\ (more # {} => grants(p))
      /\ log' = [log EXCEPT ![p.launch] = Append(@, p.id)]
      /\ UNCHANGED <<courses, dirs, launches, credits, overlapped, broken, today>>
  BY <1>2, <1>4 DEF record_statement_stores, trainingVars
<1>6. Statements' = (Statements \ {p}) \cup more
  BY <1>3, <1>5 DEF Statements
<1>7. x \notin CourseRests
  BY <1>3 DEF CourseRests
<1>8. log \in [Launches -> Seq(StatementIds)] /\ log' \in [Launches -> Seq(StatementIds)]
      /\ log'[p.launch] = Append(log[p.launch], p.id) /\ \A g \in Launches : g # p.launch => log'[g] = log[g]
  BY <1>1, <1>5 DEF CoursesInvariant, CoursesTyped
<1>9. CoursesTyped' /\ ContentStands'
  BY <1>3, <1>5, <1>7, <1>8, ContentLeft DEF CoursesInvariant, CoursesTyped
<1>10. SentsLaunched'
  BY <1>1, <1>3, <1>5, <1>6 DEF CoursesInvariant, CreditInvariant, SentsLaunched
<1>11. LaunchesApart' /\ CreditsLaunched' /\ OneAtATime'
  BY <1>1, <1>5, <1>6 DEF CoursesInvariant, CreditInvariant, LaunchesApart, CreditsLaunched, OneAtATime
<1>12. ASSUME ~ overlapped PROVE Statements = {p} /\ Statements' = more
  BY <1>1, <1>6, <1>12 DEF CoursesInvariant, CreditInvariant, OneAtATime
<1>13. PICK l \in launches : l = LaunchOf(p) /\ l.id = p.launch
  BY <1>1, LaunchOfSent
<1>14. \A k \in launches : k.id = p.launch => k = l
  BY <1>13 DEF CoursesInvariant, CreditInvariant, LaunchesApart
<1>15. CreditsMarked'
  <2> SUFFICES ASSUME ~ overlapped, ~ broken PROVE CreditsMarked'
    BY <1>5 DEF CreditsMarked
  <2>1. CreditsMarked /\ Statements = {p} /\ Statements' = more
    BY <1>12 DEF CoursesInvariant, CreditInvariant
  <2>2. \A g \in Launches : credits[g] <= 1 /\ (credits[g] = 1 => \E k \in launches : k.id = g /\ k.satisfied = TRUE)
    BY <1>1, <2>1 DEF CreditsMarked
  <2>3. ASSUME NEW q \in more PROVE q.do = "grant" /\ credits[q.launch] = 0
    <3>1. q = x /\ ~ l.satisfied
      BY <1>5, <1>13, <2>3 DEF grants
    <3>2. credits[p.launch] # 1
      BY <1>1, <1>14, <2>2, <3>1
    <3>3. credits[p.launch] \in Nat
      BY <1>1 DEF CoursesInvariant, CoursesTyped
    <3> QED  BY <1>1, <1>3, <2>2, <3>1, <3>2, <3>3
  <2> QED  BY <1>5, <2>1, <2>2, <2>3 DEF CreditsMarked
<1>16. ByTheRules'
  <2> SUFFICES ASSUME ~ overlapped PROVE ByTheRules'
    BY <1>5 DEF ByTheRules
  <2>1. ByTheRules /\ Statements' = more
    BY <1>12 DEF CoursesInvariant, CreditInvariant
  <2>2. PICK m : m = SessionState(log[p.launch])
    OBVIOUS
  <2>3. /\ Tells(log[p.launch], m) /\ apply_allowed(m, p.id)
        /\ p.met = evaluate_move_on(MoveOn[l.unit], apply(m, p.id))
    BY <1>1, <1>13, <2>1, <2>2 DEF ByTheRules
  <2>4. SessionState(log'[p.launch]) = apply(m, p.id) /\ log[p.launch] \in Seq(StatementIds)
    BY <1>1, <1>8, <2>2, SessionGoesOn
  <2>5. \A g \in Launches : Tells(log'[g], SessionState(log'[g]))
    <3>1. Tells(log'[p.launch], apply(m, p.id))
      BY <1>1, <1>8, <2>3, <2>4, TellsMore
    <3> QED  BY <1>8, <2>1, <2>4, <3>1 DEF ByTheRules
  <2>6. ASSUME NEW k \in launches, Met(k) PROVE evaluate_move_on(MoveOn[k.unit], SessionState(log'[k.id])) = TRUE
    <3>1. CASE k.id = p.launch
      <4>1. evaluate_move_on(MoveOn[k.unit], m) = TRUE
        BY <2>2, <2>6, <3>1 DEF Met
      <4>2. m \in Sessions
        BY <2>3 DEF Tells
      <4> QED  BY <1>1, <2>4, <3>1, <4>1, <4>2, MetMore
    <3>2. CASE k.id # p.launch
      <4>1. k.id \in Launches
        BY DEF CoursesInvariant, CoursesTyped, LaunchRows
      <4> QED  BY <1>8, <2>6, <3>2, <4>1 DEF Met
    <3> QED  BY <3>1, <3>2
  <2>7. ASSUME NEW q \in more, NEW k \in launches, q.launch = k.id
        PROVE  q.do = "grant" /\ evaluate_move_on(MoveOn[k.unit], SessionState(log'[k.id])) = TRUE
    <3>1. q = x /\ k = l /\ p.met
      BY <1>3, <1>5, <1>14, <2>7 DEF grants
    <3>2. p.met \in BOOLEAN
      BY <1>1 DEF Sents
    <3> QED  BY <1>3, <1>13, <2>3, <2>4, <3>1, <3>2
  <2> QED  BY <1>5, <2>1, <2>5, <2>6, <2>7 DEF ByTheRules, Met
<1> QED  BY <1>9, <1>10, <1>11, <1>15, <1>16 DEF CoursesInvariant, CreditInvariant

\* A step completed by a course keeps it.
LEMMA GrantKept ==
    ASSUME CoursesInvariant, NEW p \in sending, grant_step(p)
    PROVE  CoursesInvariant'
<1>1. p \in Statements /\ p \in Sents /\ p.do = "grant" /\ p.launch \in Launches
  BY SendingShapes DEF grant_step, Sents
<1>2. PICK x : x = [p EXCEPT !.do = "mark"]
  OBVIOUS
<1>3. x \in Sents /\ x.do = "mark" /\ x.launch = p.launch
  BY <1>1, <1>2 DEF Sents
<1>4. /\ sending' = (sending \ {p}) \cup {x} /\ credits' = [credits EXCEPT ![p.launch] = @ + 1]
      /\ UNCHANGED <<courses, dirs, launches, log, overlapped, broken, today>>
  BY <1>2 DEF grant_step
<1>5. Statements' = (Statements \ {p}) \cup {x}
  BY <1>3, <1>4 DEF Statements
<1>6. x \notin CourseRests
  BY <1>3 DEF CourseRests
<1>7. /\ credits \in [Launches -> Nat] /\ credits' \in [Launches -> Nat] /\ credits'[p.launch] = credits[p.launch] + 1
      /\ \A g \in Launches : g # p.launch => credits'[g] = credits[g]
  BY <1>1, <1>4 DEF CoursesInvariant, CoursesTyped
<1>8. CoursesTyped' /\ ContentStands'
  BY <1>3, <1>4, <1>6, <1>7, ContentLeft DEF CoursesInvariant, CoursesTyped
<1>9. SentsLaunched'
  BY <1>1, <1>3, <1>4, <1>5 DEF CoursesInvariant, CreditInvariant, SentsLaunched
<1>10. LaunchesApart' /\ OneAtATime'
  BY <1>1, <1>4, <1>5 DEF CoursesInvariant, CreditInvariant, LaunchesApart, OneAtATime
<1>11. CreditsLaunched'
  BY <1>1, <1>4, <1>7 DEF CoursesInvariant, CreditInvariant, SentsLaunched, CreditsLaunched
<1>12. ASSUME ~ overlapped PROVE Statements = {p} /\ Statements' = {x}
  BY <1>1, <1>5, <1>12 DEF CoursesInvariant, CreditInvariant, OneAtATime
<1>13. CreditsMarked'
  <2> SUFFICES ASSUME ~ overlapped, ~ broken PROVE CreditsMarked'
    BY <1>4 DEF CreditsMarked
  <2>1. CreditsMarked /\ Statements = {p} /\ Statements' = {x}
    BY <1>12 DEF CoursesInvariant, CreditInvariant
  <2>2. credits'[p.launch] = 1
    BY <1>1, <1>7, <2>1 DEF CreditsMarked
  <2>3. ASSUME NEW g \in Launches
        PROVE  /\ credits'[g] <= 1
               /\ credits'[g] = 1 => \/ \E l \in launches : l.id = g /\ l.satisfied = TRUE
                                     \/ \E q \in {x} : q.do = "mark" /\ q.launch = g
    <3>1. CASE g = p.launch
      BY <1>3, <2>2, <3>1
    <3>2. CASE g # p.launch
      BY <1>1, <1>7, <2>1, <3>2 DEF CreditsMarked
    <3> QED  BY <3>1, <3>2
  <2> QED  BY <1>3, <1>4, <2>1, <2>3 DEF CreditsMarked
<1>14. ByTheRules'
  <2> SUFFICES ASSUME ~ overlapped PROVE ByTheRules'
    BY <1>4 DEF ByTheRules
  <2>1. ByTheRules /\ Statements' = {x}
    BY <1>12 DEF CoursesInvariant, CreditInvariant
  <2>2. ASSUME NEW l \in launches, credits'[l.id] > 0 PROVE Met(l)
    <3>1. l.id \in Launches
      BY DEF CoursesInvariant, CoursesTyped, LaunchRows
    <3>2. CASE l.id = p.launch
      BY <1>1, <2>1, <3>2 DEF ByTheRules
    <3>3. CASE l.id # p.launch
      BY <1>7, <2>1, <2>2, <3>1, <3>3 DEF ByTheRules
    <3> QED  BY <3>2, <3>3
  <2> QED  BY <1>3, <1>4, <2>1, <2>2 DEF ByTheRules, Met
<1> QED  BY <1>8, <1>9, <1>10, <1>11, <1>13, <1>14 DEF CoursesInvariant, CreditInvariant

\* Every step of a course keeps it.
LEMMA CoursesStep == CoursesInvariant /\ [Cmi5Next]_<<trainingVars, cmi5Vars>> => CoursesInvariant'
<1> SUFFICES ASSUME CoursesInvariant, [Cmi5Next]_<<trainingVars, cmi5Vars>> PROVE CoursesInvariant'
  OBVIOUS
<1>1. CASE UNCHANGED <<trainingVars, cmi5Vars>>
  <2>1. UNCHANGED <<courses, dirs, launches, log, sending, credits, overlapped, broken, today>>
    BY <1>1 DEF trainingVars, cmi5Vars
  <2>2. Statements' = Statements
    BY <2>1 DEF Statements
  <2>3. CoursesTyped' /\ ContentStands'
    BY <2>1, ContentLeft DEF CoursesInvariant, CoursesTyped
  <2> QED  BY <2>1, <2>2, <2>3, CreditStands DEF CoursesInvariant
<1>2. ASSUME NEW a \in Units, NEW s \in {{}} \cup {{i} : i \in StepIds}, assign_au_step(a, s) PROVE CoursesInvariant'
  <2>1. s \in SUBSET StepIds
    OBVIOUS
  <2> QED  BY <1>2, <2>1, TrainingKept
<1> QED  BY <1>1, <1>2, CourseKept, TrainingKept, LaunchKept, FetchKept, RecordKept, StoreKept, GrantKept, MarkKept, FailureKept
         DEF Cmi5Next

\* What the replay tells of a registration with credit.
LEMMA CreditByTheRules == CoursesInvariant => CreditFollowsTheRules
<1> SUFFICES ASSUME CoursesInvariant, ~ overlapped, NEW l \in launches, credits[l.id] > 0
             PROVE  /\ \A n \in DOMAIN log[l.id] :
                          /\ (Says[log[l.id][n]].verb = "initialized") = (n = 1)
                          /\ Says[log[l.id][n]].verb = "terminated" => n = Len(log[l.id])
                    /\ ~ (Counted(l.id, "passed") /\ Counted(l.id, "failed"))
                    /\ Counted(l.id, "passed") \/ Counted(l.id, "completed")
                    /\ MoveOn[l.unit] \in {"Passed", "CompletedAndPassed"} => Counted(l.id, "passed")
                    /\ MoveOn[l.unit] \in {"Completed", "CompletedAndPassed"} => Counted(l.id, "completed")
  BY DEF CreditFollowsTheRules
<1>1. l.id \in Launches
  BY DEF CoursesInvariant, CoursesTyped, LaunchRows
<1>2. PICK m : m = SessionState(log[l.id])
  OBVIOUS
<1>3. Tells(log[l.id], m) /\ evaluate_move_on(MoveOn[l.unit], m) = TRUE
  BY <1>1, <1>2 DEF CoursesInvariant, CreditInvariant, ByTheRules, Met
<1>4. \A v : Counted(l.id, v) <=> CountedIn(log[l.id], v)
  BY DEF Counted, CountedIn
<1>5. /\ m.passed = TRUE \/ m.completed = TRUE
      /\ MoveOn[l.unit] \in {"Passed", "CompletedAndPassed"} => m.passed = TRUE
      /\ MoveOn[l.unit] \in {"Completed", "CompletedAndPassed"} => m.completed = TRUE
  <2>1. m \in Sessions
    BY <1>3 DEF Tells
  <2> QED  BY <1>3, <2>1 DEF evaluate_move_on, Sessions
<1> QED  BY <1>3, <1>4, <1>5 DEF Tells, InOrder

\* A course gives the credit that is due: from content that is there, in one
\* session of a launch, by the course's rules and once, whatever the order in
\* which its statements are checked, stored, credited and marked (cmi5.rs).
THEOREM CoursesCredited == Cmi5Spec => []CoursesGiveDueCredit
<1>1. Cmi5Init => CoursesInvariant
  <2> SUFFICES ASSUME Cmi5Init PROVE CoursesInvariant
    OBVIOUS
  <2>1. /\ courses = [a \in Units |-> "none"] /\ dirs = {} /\ launches = {} /\ log = [g \in Launches |-> <<>>]
        /\ sending = {} /\ credits = [g \in Launches |-> 0] /\ overlapped = FALSE /\ broken = FALSE /\ today = 0
    BY DEF Cmi5Init, CoursesInit, TrainingInit
  <2>2. CoursesTyped /\ ContentStands
    <3>1. <<>> \in Seq(StatementIds)
      OBVIOUS
    <3>2. log \in [Launches -> Seq(StatementIds)]
      BY <2>1, <3>1
    <3>3. courses \in [Units -> {"none", "here", "deleted"}] /\ credits \in [Launches -> Nat] /\ today \in Int
      BY <2>1
    <3> QED  BY <2>1, <3>2, <3>3 DEF CoursesTyped, ContentStands
  <2>3. Statements = {}
    BY <2>1 DEF Statements
  <2>4. LaunchesApart /\ SentsLaunched /\ CreditsLaunched /\ OneAtATime /\ CreditsMarked
    BY <2>1, <2>3 DEF LaunchesApart, SentsLaunched, CreditsLaunched, OneAtATime, CreditsMarked
  <2>5. Tells(<<>>, NewSession)
    BY DEF Tells, InOrder, CountedIn, NewSession, Sessions
  <2>6. ByTheRules
    BY <2>1, <2>3, <2>5, SessionBegins DEF ByTheRules
  <2> QED  BY <2>2, <2>4, <2>6 DEF CoursesInvariant, CreditInvariant
<1>2. CoursesInvariant => CoursesGiveDueCredit
  <2> SUFFICES ASSUME CoursesInvariant PROVE CoursesGiveDueCredit
    OBVIOUS
  <2>1. CourseHasItsContent
    BY DEF CoursesInvariant, ContentStands, CourseHasItsContent
  <2>2. OneSessionPerLaunch
    BY DEF CoursesInvariant, CoursesTyped, LaunchRows, OneSessionPerLaunch
  <2>3. CreditedOnce
    BY DEF CoursesInvariant, CreditInvariant, CreditsMarked, CreditedOnce
  <2> QED  BY <2>1, <2>2, <2>3, CreditByTheRules DEF CoursesGiveDueCredit
<1> QED  BY <1>1, <1>2, CoursesStep, PTL DEF Cmi5Spec

-----------------------------------------------------------------------------
(* Roles *)

RoleTables == [live : SUBSET AllRoles, level : [AllRoles -> Int], perms : [AllRoles -> SUBSET Keys],
               parents : [AllRoles -> SUBSET AllRoles]]
\* Only a role that is there inherits.
Rooted(t) == \A r \in AllRoles : t.parents[r] # {} => r \in t.live
OnDesk(x) ==
    \/ x = Idle \/ x = [do |-> "load"]
    \/ \E g \in RoleTables : x = [do |-> "store", graph |-> g]
    \/ \E r \in AllRoles, parents \in SUBSET AllRoles : x = [do |-> "inherit", role |-> r, parents |-> parents]
    \/ \E u \in Staff, r \in AllRoles : x = [do |-> "unassign", user |-> u, role |-> r]
RolesTyped ==
    /\ tables \in RoleTables /\ Rooted(tables) /\ graph \in RoleTables
    /\ held \in [Staff -> SUBSET AllRoles] /\ active \in [Staff -> BOOLEAN]
    /\ editsOverlapped \in BOOLEAN
    /\ desk = [d \in Desks |-> desk[d]] /\ \A d \in Desks : OnDesk(desk[d])
\* What was checked when a request began still holds when it goes on.
InTurn(x) ==
    /\ x.do = "store" => x.graph = tables
    /\ x.do = "inherit" => graph = tables /\ ~ has_cycle([tables EXCEPT !.parents[x.role] = x.parents])
    /\ x.do = "unassign" => graph = tables /\ (\E w \in Staff : AdminUser(w)) /\ unassign_allowed(x.user, x.role)
\* With requests one at a time:
Calm ==
    /\ ~ has_cycle(tables)
    /\ \A d, e \in Desks : desk[d] # Idle /\ desk[e] # Idle => d = e
    /\ AtRest => graph = tables
    /\ \A d \in Desks : InTurn(desk[d])
RolesInvariant == RolesTyped /\ (editsOverlapped = FALSE => Calm)

\* Taking edges away, or adding a role that has none, makes no cycle.
LEMMA FewerEdges ==
    ASSUME NEW g, NEW h, ~ has_cycle(g), \A r \in AllRoles : h.parents[r] \subseteq g.parents[r],
           \A r \in h.live : r \in AllRoles /\ (r \in g.live \/ h.parents[r] = {})
    PROVE  ~ has_cycle(h)
<1> SUFFICES ASSUME NEW r \in h.live, r \in closure(h, h.parents[r]) PROVE FALSE
  BY DEF has_cycle
<1>1. r \in AllRoles /\ \A S \in SUBSET AllRoles :
        h.parents[r] \subseteq S /\ (\A q \in S : h.parents[q] \subseteq S) => r \in S
  BY DEF closure
<1>2. CASE h.parents[r] = {}
  <2>1. {} \in SUBSET AllRoles /\ h.parents[r] \subseteq {} /\ (\A q \in {} : h.parents[q] \subseteq {})
    BY <1>2
  <2> QED  BY <1>1, <2>1
<1>3. CASE r \in g.live
  <2>1. ASSUME NEW S \in SUBSET AllRoles, g.parents[r] \subseteq S, \A q \in S : g.parents[q] \subseteq S PROVE r \in S
    <3>1. h.parents[r] \subseteq S /\ \A q \in S : h.parents[q] \subseteq S
      BY <1>1, <2>1
    <3> QED  BY <1>1, <3>1
  <2>2. r \in closure(g, g.parents[r])
    BY <1>1, <2>1 DEF closure
  <2> QED  BY <1>3, <2>2 DEF has_cycle
<1> QED  BY <1>2, <1>3

\* The edits of the tables.
LEMMA EditsTyped ==
    ASSUME RolesTyped, NEW r \in AllRoles
    PROVE  /\ \A l \in Levels : /\ db_create_role(r, l) \in RoleTables /\ Rooted(db_create_role(r, l))
                                /\ db_update_role(r, l) \in RoleTables /\ Rooted(db_update_role(r, l))
                                /\ ~ has_cycle(tables) => ~ has_cycle(db_create_role(r, l)) /\ ~ has_cycle(db_update_role(r, l))
           /\ \A keys \in SUBSET Keys :
                 /\ db_set_role_permissions(r, keys) \in RoleTables /\ Rooted(db_set_role_permissions(r, keys))
                 /\ ~ has_cycle(tables) => ~ has_cycle(db_set_role_permissions(r, keys))
           /\ db_delete_role(r) \in RoleTables /\ Rooted(db_delete_role(r))
           /\ ~ has_cycle(tables) => ~ has_cycle(db_delete_role(r))
<1>1. /\ tables \in RoleTables /\ tables.live \subseteq AllRoles /\ tables.parents \in [AllRoles -> SUBSET AllRoles]
      /\ tables.level \in [AllRoles -> Int] /\ tables.perms \in [AllRoles -> SUBSET Keys] /\ Rooted(tables)
  BY DEF RolesTyped, RoleTables
<1>2. ASSUME NEW t \in RoleTables, t.parents = tables.parents, tables.live \subseteq t.live
      PROVE  Rooted(t) /\ (~ has_cycle(tables) => ~ has_cycle(t))
  <2>1. Rooted(t)
    BY <1>1, <1>2 DEF Rooted
  <2>2. \A q \in AllRoles : t.parents[q] \subseteq tables.parents[q]
    BY <1>2
  <2>3. \A q \in t.live : q \in AllRoles /\ (q \in tables.live \/ t.parents[q] = {})
    BY <1>1, <1>2 DEF RoleTables, Rooted
  <2> QED  BY <2>1, <2>2, <2>3, FewerEdges
<1>3. ASSUME NEW l \in Levels
      PROVE  /\ db_create_role(r, l) \in RoleTables /\ db_create_role(r, l).parents = tables.parents
             /\ tables.live \subseteq db_create_role(r, l).live
             /\ db_update_role(r, l) \in RoleTables /\ db_update_role(r, l).parents = tables.parents
             /\ tables.live \subseteq db_update_role(r, l).live
  <2>0. l \in Int
    BY DEF Levels
  <2> DEFINE level == [tables.level EXCEPT ![r] = l]
  <2>1. level \in [AllRoles -> Int]
    BY <1>1, <2>0
  <2>2. db_create_role(r, l) = [tables EXCEPT !.live = @ \cup {r}, !.level = level]
    BY DEF db_create_role
  <2>3. db_update_role(r, l) = [tables EXCEPT !.level = level]
    BY DEF db_update_role
  <2> HIDE DEF level
  <2>4. /\ db_create_role(r, l) \in RoleTables /\ db_create_role(r, l).parents = tables.parents
        /\ tables.live \subseteq db_create_role(r, l).live
    BY <1>1, <2>1, <2>2 DEF RoleTables
  <2>5. /\ db_update_role(r, l) \in RoleTables /\ db_update_role(r, l).parents = tables.parents
        /\ tables.live \subseteq db_update_role(r, l).live
    BY <1>1, <2>1, <2>3 DEF RoleTables
  <2> QED  BY <2>4, <2>5
<1>4. ASSUME NEW keys \in SUBSET Keys
      PROVE  /\ db_set_role_permissions(r, keys) \in RoleTables /\ db_set_role_permissions(r, keys).parents = tables.parents
             /\ tables.live \subseteq db_set_role_permissions(r, keys).live
  BY <1>1 DEF db_set_role_permissions, RoleTables
<1>5. PICK t : t = db_delete_role(r)
  OBVIOUS
<1>6. /\ t \in RoleTables /\ t.live = tables.live \ {r}
      /\ \A q \in AllRoles : t.parents[q] = IF q = r THEN {} ELSE tables.parents[q] \ {r}
  BY <1>1, <1>5 DEF db_delete_role, RoleTables
<1>7. Rooted(t)
  BY <1>1, <1>6 DEF Rooted
<1>8. ~ has_cycle(tables) => ~ has_cycle(t)
  <2>1. \A q \in AllRoles : t.parents[q] \subseteq tables.parents[q]
    BY <1>6
  <2>2. \A q \in t.live : q \in AllRoles /\ (q \in tables.live \/ t.parents[q] = {})
    BY <1>1, <1>6
  <2> QED  BY <2>1, <2>2, FewerEdges
<1> QED  BY <1>2, <1>3, <1>4, <1>5, <1>6, <1>7, <1>8

\* What is on a desk, by what it is for.
LEMMA DeskShapes ==
    ASSUME NEW x, OnDesk(x)
    PROVE  /\ x.do \in {"idle", "load", "store", "inherit", "unassign"} /\ (x.do = "idle" <=> x = Idle)
           /\ x.do = "store" => x.graph \in RoleTables
           /\ x.do = "inherit" => x.role \in AllRoles /\ x.parents \subseteq AllRoles
           /\ x.do = "unassign" => x.user \in Staff /\ x.role \in AllRoles
BY DEF OnDesk, Idle

\* A desk's record replaced.
LEMMA DeskReplaced ==
    ASSUME RolesTyped, NEW d \in Desks, NEW x, OnDesk(x), desk' = [desk EXCEPT ![d] = x]
    PROVE  /\ desk' = [e \in Desks |-> desk'[e]] /\ \A e \in Desks : OnDesk(desk'[e])
           /\ desk'[d] = x /\ \A e \in Desks : e # d => desk'[e] = desk[e]
BY DEF RolesTyped

\* When a step is taken at d and requests do not overlap, every other desk is free.
LEMMA OthersFree ==
    ASSUME RolesInvariant, NEW d \in Desks,
           \/ RoleRequest(d) /\ editsOverlapped' = FALSE
           \/ desk[d] # Idle /\ editsOverlapped = FALSE
    PROVE  editsOverlapped = FALSE /\ Calm /\ \A e \in Desks : e # d => desk[e] = Idle
<1>1. editsOverlapped = FALSE
  BY DEF RoleRequest, RolesInvariant, RolesTyped
<1> QED  BY <1>1 DEF RoleRequest, RolesInvariant, Calm

\* Then calm is kept when it is at d, and the tables have no cycle.
LEMMA CalmAt ==
    ASSUME NEW d \in Desks, \A e \in Desks : e # d => desk'[e] = Idle,
           ~ has_cycle(tables)', desk'[d] = Idle => graph' = tables', InTurn(desk[d])'
    PROVE  Calm'
<1>1. \A e \in Desks : e # d => InTurn(desk[e])'
  BY DEF InTurn, Idle
<1>2. AtRest' => graph' = tables'
  BY DEF AtRest
<1>3. \A e, f \in Desks : desk'[e] # Idle /\ desk'[f] # Idle => e = f
  OBVIOUS
<1>4. \A e \in Desks : InTurn(desk[e])'
  BY <1>1
<1> QED  BY <1>2, <1>3, <1>4 DEF Calm

\* Edits that leave the copy to be rebuilt.
LEMMA EditKept ==
    ASSUME RolesInvariant, NEW d \in Desks, NEW t \in RoleTables, Rooted(t), ~ has_cycle(tables) => ~ has_cycle(t),
           RoleRequest(d), tables' = t, desk' = [desk EXCEPT ![d] = [do |-> "load"]],
           held' \in [Staff -> SUBSET AllRoles], UNCHANGED <<graph, active>>
    PROVE  RolesInvariant'
<1>1. OnDesk([do |-> "load"])
  BY DEF OnDesk
<1>2. PICK x : x = [do |-> "load"]
  OBVIOUS
<1>3. /\ desk' = [e \in Desks |-> desk'[e]] /\ \A e \in Desks : OnDesk(desk'[e])
      /\ desk'[d] = x /\ \A e \in Desks : e # d => desk'[e] = desk[e]
  BY <1>1, <1>2, DeskReplaced DEF RolesInvariant
<1>4. editsOverlapped' \in BOOLEAN
  BY DEF RoleRequest, RolesInvariant, RolesTyped
<1>5. RolesTyped'
  BY <1>3, <1>4 DEF RolesInvariant, RolesTyped, Rooted
<1>6. ASSUME editsOverlapped' = FALSE PROVE Calm'
  <2>1. Calm /\ \A e \in Desks : e # d => desk'[e] = Idle
    BY <1>3, <1>6, OthersFree
  <2>2. ~ has_cycle(tables)'
    BY <2>1 DEF Calm, has_cycle, closure
  <2>3. InTurn(desk[d])' /\ desk'[d] # Idle
    BY <1>2, <1>3 DEF InTurn, Idle
  <2> QED  BY <2>1, <2>2, <2>3, CalmAt
<1> QED  BY <1>5, <1>6 DEF RolesInvariant

\* The copy rebuilt: the tables read, then stored.
LEMMA ReloadKept ==
    ASSUME RolesInvariant, NEW d \in Desks, RoleGraph_load(d) \/ Stores(d)
    PROVE  RolesInvariant'
<1>1. OnDesk(desk[d]) /\ tables \in RoleTables
  BY DEF RolesInvariant, RolesTyped
<1>2. CASE RoleGraph_load(d)
  <2>1. PICK x : x = [do |-> "store", graph |-> tables]
    OBVIOUS
  <2>2. OnDesk(x) /\ x.do = "store" /\ x.graph = tables /\ x # Idle
    BY <1>1, <2>1 DEF OnDesk, Idle
  <2>3. /\ desk' = [e \in Desks |-> desk'[e]] /\ \A e \in Desks : OnDesk(desk'[e])
        /\ desk'[d] = x /\ \A e \in Desks : e # d => desk'[e] = desk[e]
    BY <1>2, <2>1, <2>2, DeskReplaced DEF RoleGraph_load, RolesInvariant
  <2>4. RolesTyped'
    BY <1>2, <2>3 DEF RoleGraph_load, RolesInvariant, RolesTyped
  <2>5. ASSUME editsOverlapped' = FALSE PROVE Calm'
    <3>1. desk[d] # Idle /\ editsOverlapped = FALSE
      BY <1>2, <2>5 DEF RoleGraph_load, Idle
    <3>2. Calm /\ \A e \in Desks : e # d => desk'[e] = Idle
      BY <2>3, <3>1, OthersFree
    <3>3. ~ has_cycle(tables)'
      BY <1>2, <3>2 DEF Calm, has_cycle, closure, RoleGraph_load
    <3>4. InTurn(desk[d])'
      BY <1>2, <2>2, <2>3 DEF InTurn, RoleGraph_load
    <3> QED  BY <2>2, <2>3, <3>2, <3>3, <3>4, CalmAt
  <2> QED  BY <2>4, <2>5 DEF RolesInvariant
<1>3. CASE Stores(d)
  <2>1. OnDesk(Idle)
    BY DEF OnDesk
  <2>2. /\ desk' = [e \in Desks |-> desk'[e]] /\ \A e \in Desks : OnDesk(desk'[e])
        /\ desk'[d] = Idle /\ \A e \in Desks : e # d => desk'[e] = desk[e]
    BY <1>3, <2>1, DeskReplaced DEF Stores, RolesInvariant
  <2>3. graph' = desk[d].graph /\ graph' \in RoleTables
    BY <1>1, <1>3, DeskShapes DEF Stores, reload_rbac
  <2>4. RolesTyped'
    BY <1>3, <2>2, <2>3 DEF Stores, RolesInvariant, RolesTyped
  <2>5. ASSUME editsOverlapped' = FALSE PROVE Calm'
    <3>1. desk[d] # Idle /\ editsOverlapped = FALSE
      BY <1>3, <2>5 DEF Stores, Idle
    <3>2. Calm /\ \A e \in Desks : e # d => desk'[e] = Idle
      BY <2>2, <3>1, OthersFree
    <3>3. ~ has_cycle(tables)'
      BY <1>3, <3>2 DEF Calm, has_cycle, closure, Stores
    <3>4. InTurn(desk[d])'
      BY <2>2 DEF InTurn, Idle
    <3>5. graph' = tables'
      BY <1>3, <2>3, <3>2 DEF Calm, InTurn, Stores
    <3> QED  BY <3>2, <3>3, <3>4, <3>5, CalmAt
  <2> QED  BY <2>4, <2>5 DEF RolesInvariant
<1> QED  BY <1>2, <1>3

\* Inheritance: checked on what was read, then written.
LEMMA InheritKept ==
    ASSUME RolesInvariant, NEW d \in Desks,
           \/ \E r \in AllRoles, parents \in SUBSET AllRoles : set_role_inheritance(d, r, parents)
           \/ writes_inheritance(d)
    PROVE  RolesInvariant'
<1>1. OnDesk(desk[d]) /\ tables \in RoleTables
  BY DEF RolesInvariant, RolesTyped
<1>2. ASSUME NEW r \in AllRoles, NEW parents \in SUBSET AllRoles, set_role_inheritance(d, r, parents)
      PROVE  RolesInvariant'
  <2>1. PICK x : x = [do |-> "inherit", role |-> r, parents |-> parents]
    OBVIOUS
  <2>2. OnDesk(x) /\ x.do = "inherit" /\ x.role = r /\ x.parents = parents /\ x # Idle
    BY <2>1 DEF OnDesk, Idle
  <2>3. /\ desk' = [e \in Desks |-> desk'[e]] /\ \A e \in Desks : OnDesk(desk'[e])
        /\ desk'[d] = x /\ \A e \in Desks : e # d => desk'[e] = desk[e]
    BY <1>2, <2>1, <2>2, DeskReplaced DEF set_role_inheritance, RolesInvariant
  <2>4. RolesTyped'
    BY <1>2, <2>3 DEF set_role_inheritance, RoleRequest, RolesInvariant, RolesTyped
  <2>5. ASSUME editsOverlapped' = FALSE PROVE Calm'
    <3>1. Calm /\ (\A e \in Desks : e # d => desk[e] = Idle) /\ desk[d] = Idle
      BY <1>2, <2>5, OthersFree DEF set_role_inheritance, RoleRequest
    <3>2. ~ has_cycle(tables)' /\ graph' = tables'
      BY <1>2, <3>1 DEF Calm, AtRest, has_cycle, closure, set_role_inheritance
    <3>3. ~ has_cycle([tables EXCEPT !.parents[r] = parents])'
      BY <1>2 DEF has_cycle, closure, set_role_inheritance, inheritance_allowed, rbac_snapshot
    <3>4. InTurn(desk[d])'
      BY <2>2, <2>3, <3>2, <3>3 DEF InTurn
    <3> QED  BY <2>2, <2>3, <3>1, <3>2, <3>4, CalmAt
  <2> QED  BY <2>4, <2>5 DEF RolesInvariant
<1>3. CASE writes_inheritance(d)
  <2>1. /\ desk[d].do = "inherit" /\ desk[d].role \in AllRoles /\ desk[d].parents \subseteq AllRoles
    BY <1>1, <1>3, DeskShapes DEF writes_inheritance
  <2>2. ASSUME editsOverlapped' = FALSE
        PROVE  Calm /\ (\A e \in Desks : e # d => desk[e] = Idle) /\ InTurn(desk[d])
    <3>1. desk[d] # Idle /\ editsOverlapped = FALSE
      BY <1>3, <2>1, <2>2 DEF writes_inheritance, Idle
    <3> QED  BY <3>1, OthersFree DEF Calm
  <2>3. CASE desk[d].role \in tables.live /\ desk[d].parents \subseteq tables.live
    <3>1. PICK t : t = [tables EXCEPT !.parents[desk[d].role] = desk[d].parents]
      OBVIOUS
    <3>2. /\ t \in RoleTables /\ t.live = tables.live
          /\ \A q \in AllRoles : t.parents[q] = IF q = desk[d].role THEN desk[d].parents ELSE tables.parents[q]
      BY <1>1, <2>1, <3>1 DEF RoleTables
    <3>3. Rooted(t)
      BY <2>3, <3>2 DEF Rooted, RolesInvariant, RolesTyped
    <3>4. tables' = t /\ desk' = [desk EXCEPT ![d] = [do |-> "load"]] /\ UNCHANGED <<graph, held, active, editsOverlapped>>
      BY <1>3, <2>3, <3>1 DEF writes_inheritance, Edit, db_set_role_inheritance
    <3>5. PICK x : x = [do |-> "load"]
      OBVIOUS
    <3>6. OnDesk(x) /\ x # Idle /\ x.do = "load"
      BY <3>5 DEF OnDesk, Idle
    <3>7. /\ desk' = [e \in Desks |-> desk'[e]] /\ \A e \in Desks : OnDesk(desk'[e])
          /\ desk'[d] = x /\ \A e \in Desks : e # d => desk'[e] = desk[e]
      BY <3>4, <3>5, <3>6, DeskReplaced DEF RolesInvariant
    <3>8. RolesTyped'
      BY <3>2, <3>3, <3>4, <3>7 DEF RolesInvariant, RolesTyped, Rooted
    <3>9. ASSUME editsOverlapped' = FALSE PROVE Calm'
      <4>1. ~ has_cycle(t)
        BY <2>1, <2>2, <3>1, <3>9 DEF InTurn
      <4>2. ~ has_cycle(tables)'
        BY <3>4, <4>1 DEF has_cycle, closure
      <4>3. InTurn(desk[d])'
        BY <3>6, <3>7 DEF InTurn
      <4> QED  BY <2>2, <3>6, <3>7, <3>9, <4>2, <4>3, CalmAt
    <3> QED  BY <3>8, <3>9 DEF RolesInvariant
  <2>4. CASE ~ (desk[d].role \in tables.live /\ desk[d].parents \subseteq tables.live)
    <3>1. desk' = [desk EXCEPT ![d] = Idle] /\ UNCHANGED <<tables, graph, held, active, editsOverlapped>>
      BY <1>3, <2>4 DEF writes_inheritance
    <3>2. /\ desk' = [e \in Desks |-> desk'[e]] /\ \A e \in Desks : OnDesk(desk'[e])
          /\ desk'[d] = Idle /\ \A e \in Desks : e # d => desk'[e] = desk[e]
      BY <3>1, DeskReplaced DEF RolesInvariant, OnDesk
    <3>3. RolesTyped'
      BY <3>1, <3>2 DEF RolesInvariant, RolesTyped
    <3>4. ASSUME editsOverlapped' = FALSE PROVE Calm'
      <4>1. ~ has_cycle(tables)' /\ graph' = tables'
        BY <2>1, <2>2, <3>1, <3>4 DEF Calm, InTurn, has_cycle, closure
      <4>2. InTurn(desk[d])'
        BY <3>2 DEF InTurn, Idle
      <4> QED  BY <2>2, <3>2, <3>4, <4>1, <4>2, CalmAt
    <3> QED  BY <3>3, <3>4 DEF RolesInvariant
  <2> QED  BY <2>3, <2>4
<1> QED  BY <1>2, <1>3

\* Who holds what, when the desk stays free.
LEMMA HoldersKept ==
    ASSUME RolesInvariant, NEW d \in Desks, RoleRequest(d), held' \in [Staff -> SUBSET AllRoles],
           active' \in [Staff -> BOOLEAN], UNCHANGED <<tables, graph, desk>>
    PROVE  RolesInvariant'
<1>1. editsOverlapped' \in BOOLEAN
  BY DEF RoleRequest, RolesInvariant, RolesTyped
<1>2. RolesTyped'
  BY <1>1 DEF RolesInvariant, RolesTyped
<1>3. ASSUME editsOverlapped' = FALSE PROVE Calm'
  <2>1. Calm /\ (\A e \in Desks : e # d => desk[e] = Idle) /\ desk[d] = Idle
    BY <1>3, OthersFree DEF RoleRequest
  <2>2. ~ has_cycle(tables)' /\ graph' = tables'
    BY <2>1 DEF Calm, AtRest, has_cycle, closure
  <2>3. InTurn(desk[d])'
    BY <2>1 DEF InTurn, Idle
  <2> QED  BY <2>1, <2>2, <2>3, CalmAt
<1> QED  BY <1>2, <1>3 DEF RolesInvariant

\* A role taken away: allowed first, then done.
LEMMA UnassignKept ==
    ASSUME RolesInvariant, NEW d \in Desks,
           (\E u \in Staff, r \in AllRoles : unassign_user_role(d, u, r)) \/ unassigns(d)
    PROVE  RolesInvariant'
<1>1. OnDesk(desk[d])
  BY DEF RolesInvariant, RolesTyped
<1>2. ASSUME NEW u \in Staff, NEW r \in AllRoles, unassign_user_role(d, u, r) PROVE RolesInvariant'
  <2>1. PICK x : x = [do |-> "unassign", user |-> u, role |-> r]
    OBVIOUS
  <2>2. OnDesk(x) /\ x.do = "unassign" /\ x.user = u /\ x.role = r /\ x # Idle
    BY <2>1 DEF OnDesk, Idle
  <2>3. /\ desk' = [e \in Desks |-> desk'[e]] /\ \A e \in Desks : OnDesk(desk'[e])
        /\ desk'[d] = x /\ \A e \in Desks : e # d => desk'[e] = desk[e]
    BY <1>2, <2>1, <2>2, DeskReplaced DEF unassign_user_role, RolesInvariant
  <2>4. RolesTyped'
    BY <1>2, <2>3 DEF unassign_user_role, RoleRequest, RolesInvariant, RolesTyped
  <2>5. ASSUME editsOverlapped' = FALSE PROVE Calm'
    <3>1. Calm /\ (\A e \in Desks : e # d => desk[e] = Idle) /\ desk[d] = Idle
      BY <1>2, <2>5, OthersFree DEF unassign_user_role, RoleRequest
    <3>2. ~ has_cycle(tables)' /\ graph' = tables'
      BY <1>2, <3>1 DEF Calm, AtRest, has_cycle, closure, unassign_user_role
    <3>3. (\E w \in Staff : AdminUser(w)) /\ unassign_allowed(u, r) /\ UNCHANGED <<graph, held, active>>
      BY <1>2 DEF unassign_user_role, RoleRequest
    <3>4. (\E w \in Staff : AdminUser(w))' /\ unassign_allowed(u, r)'
      BY <3>3 DEF AdminUser, unassign_allowed, user_has_permission, admins_now, has_permission, effective_permissions, closure
    <3>5. InTurn(desk[d])'
      BY <2>2, <2>3, <3>2, <3>4 DEF InTurn
    <3> QED  BY <2>2, <2>3, <3>1, <3>2, <3>5, CalmAt
  <2> QED  BY <2>4, <2>5 DEF RolesInvariant
<1>3. CASE unassigns(d)
  <2>1. desk[d].do = "unassign" /\ desk[d].user \in Staff
    BY <1>1, <1>3, DeskShapes DEF unassigns
  <2>2. /\ desk' = [e \in Desks |-> desk'[e]] /\ \A e \in Desks : OnDesk(desk'[e])
        /\ desk'[d] = Idle /\ \A e \in Desks : e # d => desk'[e] = desk[e]
    BY <1>3, DeskReplaced DEF unassigns, RolesInvariant, OnDesk
  <2>3. held' \in [Staff -> SUBSET AllRoles]
    BY <1>3, <2>1 DEF unassigns, db_unassign_user_role, RolesInvariant, RolesTyped
  <2>4. RolesTyped'
    BY <1>3, <2>2, <2>3 DEF unassigns, RolesInvariant, RolesTyped
  <2>5. ASSUME editsOverlapped' = FALSE PROVE Calm'
    <3>1. desk[d] # Idle /\ editsOverlapped = FALSE
      BY <1>3, <2>1, <2>5 DEF unassigns, Idle
    <3>2. Calm /\ \A e \in Desks : e # d => desk'[e] = Idle
      BY <2>2, <3>1, OthersFree
    <3>3. ~ has_cycle(tables)' /\ graph' = tables'
      BY <1>3, <2>1, <3>2 DEF Calm, InTurn, has_cycle, closure, unassigns
    <3>4. InTurn(desk[d])'
      BY <2>2 DEF InTurn, Idle
    <3> QED  BY <3>2, <3>3, <3>4, CalmAt
  <2> QED  BY <2>4, <2>5 DEF RolesInvariant
<1> QED  BY <1>2, <1>3

\* Every step keeps it.
LEMMA RolesStep == RolesInvariant /\ [RolesNext]_rolesVars => RolesInvariant'
<1> SUFFICES ASSUME RolesInvariant, [RolesNext]_rolesVars PROVE RolesInvariant'
  OBVIOUS
<1>1. ASSUME NEW d \in Desks, NEW r \in AllRoles,
             \/ \E l \in Levels : create_role(d, r, l) \/ update_role(d, r, l)
             \/ \E keys \in SUBSET Keys : set_role_permissions(d, r, keys)
      PROVE  RolesInvariant'
  <2>1. PICK t : /\ RoleRequest(d) /\ Edit(d, t)
                 /\ \/ \E l \in Levels : t = db_create_role(r, l) \/ t = db_update_role(r, l)
                    \/ \E keys \in SUBSET Keys : t = db_set_role_permissions(r, keys)
    BY <1>1, Zenon DEF create_role, update_role, set_role_permissions
  <2>2. t \in RoleTables /\ Rooted(t) /\ (~ has_cycle(tables) => ~ has_cycle(t))
    BY <2>1, EditsTyped DEF RolesInvariant
  <2>3. held' \in [Staff -> SUBSET AllRoles]
    BY <2>1 DEF Edit, RolesInvariant, RolesTyped
  <2> QED  BY <2>1, <2>2, <2>3, EditKept DEF Edit
<1>2. ASSUME NEW d \in Desks, NEW r \in AllRoles, delete_role(d, r) PROVE RolesInvariant'
  <2>1. /\ db_delete_role(r) \in RoleTables /\ Rooted(db_delete_role(r))
        /\ ~ has_cycle(tables) => ~ has_cycle(db_delete_role(r))
    BY EditsTyped DEF RolesInvariant
  <2>2. held' \in [Staff -> SUBSET AllRoles]
    BY <1>2 DEF delete_role, RolesInvariant, RolesTyped
  <2>3. PICK t : t = db_delete_role(r)
    OBVIOUS
  <2> QED  BY <1>2, <2>1, <2>2, <2>3, EditKept DEF delete_role
<1>3. ASSUME NEW d \in Desks,
             \/ \E u \in Staff, r \in AllRoles : assign_user_role(d, u, r) \/ update_user_role(d, u, r)
             \/ \E u \in Staff, on \in BOOLEAN : SetsActive(d, u, on)
      PROVE  RolesInvariant'
  <2>1. held \in [Staff -> SUBSET AllRoles] /\ active \in [Staff -> BOOLEAN] /\ TierRoles \subseteq AllRoles
    BY DEF RolesInvariant, RolesTyped, AllRoles
  <2>2. RoleRequest(d) /\ UNCHANGED <<tables, graph, desk>>
    BY <1>3 DEF assign_user_role, update_user_role, SetsActive
  <2>3. held' \in [Staff -> SUBSET AllRoles] /\ active' \in [Staff -> BOOLEAN]
    BY <1>3, <2>1 DEF assign_user_role, update_user_role, SetsActive, db_assign_user_role, set_user_primary_role
  <2> QED  BY <2>2, <2>3, HoldersKept
<1>4. CASE UNCHANGED rolesVars
  <2>1. RolesTyped'
    BY <1>4 DEF rolesVars, RolesInvariant, RolesTyped, Rooted
  <2>2. ASSUME Calm PROVE Calm'
    <3>1. ~ has_cycle(tables)'
      BY <1>4, <2>2 DEF rolesVars, Calm, has_cycle, closure
    <3>2. \A d, e \in Desks : desk'[d] # Idle /\ desk'[e] # Idle => d = e
      BY <1>4, <2>2 DEF rolesVars, Calm
    <3>3. AtRest' => graph' = tables'
      BY <1>4, <2>2 DEF rolesVars, Calm, AtRest
    <3>4. ASSUME NEW d \in Desks PROVE InTurn(desk[d])'
      <4>1. InTurn(desk[d]) /\ UNCHANGED <<tables, graph, held, active, desk>>
        BY <1>4, <2>2 DEF rolesVars, Calm
      <4>2. desk[d].do = "inherit" => graph' = tables' /\ ~ has_cycle([tables EXCEPT !.parents[desk[d].role] = desk[d].parents])'
        BY <4>1 DEF InTurn, has_cycle, closure
      <4>3. desk[d].do = "unassign" =>
              graph' = tables' /\ (\E w \in Staff : AdminUser(w))' /\ unassign_allowed(desk[d].user, desk[d].role)'
        BY <4>1 DEF InTurn, AdminUser, unassign_allowed, user_has_permission, admins_now, has_permission, effective_permissions, closure
      <4> QED  BY <4>1, <4>2, <4>3 DEF InTurn
    <3> QED  BY <3>1, <3>2, <3>3, <3>4 DEF Calm
  <2> QED  BY <1>4, <2>1, <2>2 DEF rolesVars, RolesInvariant
<1> QED  BY <1>1, <1>2, <1>3, <1>4, ReloadKept, InheritKept, UnassignKept DEF RolesNext

\* A role that was allowed to go leaves somebody who may give it back.
LEMMA AdminRemains ==
    ASSUME RolesInvariant, RolesNext, NEW d \in Desks, desk[d].do = "unassign", desk'[d].do = "idle", editsOverlapped = FALSE
    PROVE  \E u \in Staff : active'[u] /\ has_permission(graph', held'[u], "admin.access")
<1>1. OnDesk(desk[d]) /\ Calm /\ InTurn(desk[d])
  BY DEF RolesInvariant, RolesTyped, Calm
<1>2. PICK e \in Desks : /\ desk' = desk \/ (\E x : desk' = [desk EXCEPT ![e] = x])
                         /\ unassigns(e) \/ desk[e] = Idle \/ desk[e].do \in {"load", "store", "inherit"}
  BY ZenonT(60) DEF RolesNext, create_role, update_role, delete_role, set_role_permissions, set_role_inheritance, Edit,
       RoleGraph_load, Stores, writes_inheritance,
       assign_user_role, unassign_user_role, unassigns, update_user_role, SetsActive, RoleRequest
<1>3. e = d
  <2>1. desk = [c \in Desks |-> desk[c]]
    BY DEF RolesInvariant, RolesTyped
  <2>2. ASSUME NEW x, desk' = [desk EXCEPT ![e] = x], e # d PROVE desk'[d] = desk[d]
    BY <2>1, <2>2
  <2>3. CASE \E x : desk' = [desk EXCEPT ![e] = x]
    <3>1. PICK x : desk' = [desk EXCEPT ![e] = x]
      BY <2>3
    <3>2. e # d => desk'[d] = desk[d]
      BY <2>2, <3>1
    <3> QED  BY <3>2
  <2>4. CASE desk' = desk
    BY <2>4
  <2> QED  BY <1>2, <2>3, <2>4
<1>4. unassigns(d)
  BY <1>2, <1>3 DEF Idle
<1>5. PICK u \in Staff, r \in AllRoles : u = desk[d].user /\ r = desk[d].role
  BY <1>1, DeskShapes
<1>6. /\ held' = [held EXCEPT ![u] = @ \ {r}] /\ graph' = graph /\ active' = active
      /\ held \in [Staff -> SUBSET AllRoles]
  BY <1>4, <1>5 DEF unassigns, db_unassign_user_role, RolesInvariant, RolesTyped
<1>7. PICK w \in Staff : active[w] /\ has_permission(graph, held[w], "admin.access")
  BY <1>1 DEF InTurn, AdminUser, user_has_permission
<1>8. CASE w # u \/ has_permission(graph, held[u] \ {r}, "admin.access")
  BY <1>6, <1>7, <1>8
<1>9. CASE w = u /\ ~ has_permission(graph, held[u] \ {r}, "admin.access")
  <2>1. Cardinality(admins_now) > 1
    BY <1>1, <1>5, <1>7, <1>9 DEF InTurn, unassign_allowed, user_has_permission
  <2>2. ~ (admins_now \subseteq {u})
    <3>1. ASSUME admins_now \subseteq {u} PROVE FALSE
      <4>1. admins_now = {} \/ admins_now = {u}
        BY <3>1
      <4>2. Cardinality(admins_now) = 0 \/ Cardinality(admins_now) = 1
        BY <4>1, FS_EmptySet, FS_Singleton
      <4> QED  BY <2>1, <4>2
    <3> QED  BY <3>1
  <2>3. PICK v \in admins_now : v # u
    BY <2>2
  <2>4. v \in Staff /\ active[v] /\ has_permission(graph, held[v], "admin.access")
    BY <2>3 DEF admins_now
  <2> QED  BY <1>6, <2>3, <2>4
<1> QED  BY <1>8, <1>9

\* While requests do not overlap, permissions are decided from the tables as they are, no chain of inheritance edits
\* ties a role to itself, and taking a role away leaves an administrator.
THEOREM RolesSound == RolesSpec => RolesStaySound
<1>1. RolesInit => RolesInvariant
  <2> SUFFICES ASSUME RolesInit PROVE RolesInvariant
    OBVIOUS
  <2>1. /\ tables = [live |-> TierRoles,
                 level |-> [r \in AllRoles |-> IF r = AdminRole THEN 2 ELSE IF r = GuestRole THEN 0 ELSE 1],
                 perms |-> [r \in AllRoles |-> IF r = AdminRole THEN Keys ELSE {}],
                 parents |-> [r \in AllRoles |-> {}]]
        /\ graph = tables /\ desk = [d \in Desks |-> Idle] /\ editsOverlapped = FALSE
        /\ held = [u \in Staff |-> IF u \in FirstStaff THEN {AdminRole} ELSE {GuestRole}]
        /\ active = [u \in Staff |-> TRUE]
    BY DEF RolesInit
  <2>2. tables \in RoleTables /\ (\A r \in AllRoles : tables.parents[r] = {}) /\ tables.live \subseteq AllRoles
    BY <2>1 DEF RoleTables, AllRoles
  <2>3. held \in [Staff -> SUBSET AllRoles]
    BY <2>1, RolesAssumption DEF AllRoles
  <2>4. RolesTyped
    BY <2>1, <2>2, <2>3 DEF RolesTyped, Rooted, OnDesk
  <2>5. ~ has_cycle(tables)
    <3> SUFFICES ASSUME NEW r \in tables.live, r \in closure(tables, tables.parents[r]) PROVE FALSE
      BY DEF has_cycle
    <3>1. r \in AllRoles /\ tables.parents[r] = {}
      BY <2>2
    <3>2. {} \in SUBSET AllRoles /\ tables.parents[r] \subseteq {} /\ \A q \in {} : tables.parents[q] \subseteq {}
      BY <3>1
    <3> QED  BY <3>2 DEF closure
  <2>6. Calm
    BY <2>1, <2>5 DEF Calm, InTurn, Idle
  <2> QED  BY <2>4, <2>6 DEF RolesInvariant
<1>2. RolesInvariant => DecidedFromTheTables /\ InheritanceIsAcyclic
  <2> SUFFICES ASSUME RolesInvariant PROVE DecidedFromTheTables /\ InheritanceIsAcyclic
    OBVIOUS
  <2>1. ~ editsOverlapped => Calm
    BY DEF RolesInvariant, RolesTyped
  <2> QED  BY <2>1 DEF Calm, DecidedFromTheTables, InheritanceIsAcyclic
<1>3. RolesInvariant /\ [RolesNext]_rolesVars =>
        [\A d \in Desks : desk[d].do = "unassign" /\ desk'[d].do = "idle" /\ ~ editsOverlapped
          => \E u \in Staff : active'[u] /\ has_permission(graph', held'[u], "admin.access")]_rolesVars
  <2> SUFFICES ASSUME RolesInvariant, RolesNext, NEW d \in Desks, desk[d].do = "unassign", desk'[d].do = "idle", ~ editsOverlapped
               PROVE  \E u \in Staff : active'[u] /\ has_permission(graph', held'[u], "admin.access")
    OBVIOUS
  <2>1. editsOverlapped = FALSE
    BY DEF RolesInvariant, RolesTyped
  <2> QED  BY <2>1, AdminRemains
<1>4. RolesSpec => []RolesInvariant
  BY <1>1, RolesStep, PTL DEF RolesSpec
<1> QED  BY <1>2, <1>3, <1>4, RolesStep, PTL DEF RolesSpec, RolesStaySound, UnassignLeavesAnAdmin

-----------------------------------------------------------------------------
(* Merging *)

Accounts == [here : BOOLEAN, active : BOOLEAN, field : Codes \cup {NoCode}, due : BOOLEAN]
Cards == [owner : Persons \cup {NoOne}, code : Codes \cup {NoCode}, status : {"none", "active", "disabled", "released"}, at : Nat]
MergeRules == [who : Persons, place : Guarded, effect : {"allow", "deny"}]
MergingTyped ==
    /\ persons \in [Persons -> Accounts] /\ cards \in [CardIds -> Cards] /\ rules \subseteq MergeRules
    /\ plain \in [Rows -> Persons \cup {NoOne}] /\ heir \in [Persons -> Persons \cup {NoOne}] /\ mergesAsked \in Nat
    /\ \A m \in merging : m.s \in Persons /\ m.a \in Persons /\ m.s # m.a /\ m.before \in [Persons -> Accounts]
\* An account that is there is its own heir, and rows are of accounts that are there.
HeirsAreHere == \A u \in People : heir[u] = u
RowsFollow == \A r \in Rows : plain[r] # NoOne => plain[r] \in People
\* A card that was issued has a code, an owner that is there and a time of its own.
CardsAreOwned ==
    /\ \A c \in CardIds :
          /\ cards[c].status = "none" => cards[c].code = NoCode
          /\ cards[c].status # "none" =>
                cards[c].code \in Codes /\ cards[c].owner \in People /\ cards[c].at < mergesAsked
    /\ \A c, e \in CardIds : cards[c].status # "none" /\ cards[e].status # "none" /\ cards[c].at = cards[e].at => c = e
    /\ OneLive(cards)
MergingInvariant == MergingTyped /\ HeirsAreHere /\ RowsFollow /\ CardsAreOwned

\* A code stands for one card at most.
LEMMA OneCardOf ==
    ASSUME MergingInvariant, NEW code \in Codes, NEW c \in card_of(code), NEW e \in card_of(code)
    PROVE  c = e
<1>1. code # NoCode
  BY MergingAssumption DEF NoCode
<1>2. \A x \in CardIds : cards[x].at \in Nat
  BY DEF MergingInvariant, MergingTyped, Cards
<1>3. CASE LiveCards(code) # {}
  <2>1. c \in LiveCards(code) /\ e \in LiveCards(code)
    BY <1>3 DEF card_of
  <2>2. c # e => "released" \in {cards[c].status, cards[e].status}
    BY <1>1, <2>1 DEF LiveCards, MergingInvariant, CardsAreOwned, OneLive
  <2> QED  BY <2>1, <2>2 DEF LiveCards
<1>4. CASE LiveCards(code) = {}
  <2>1. /\ c \in ReleasedCards(code) /\ e \in ReleasedCards(code)
        /\ cards[e].at <= cards[c].at /\ cards[c].at <= cards[e].at
    BY <1>4 DEF card_of
  <2>2. c \in CardIds /\ e \in CardIds /\ cards[c].status # "none" /\ cards[e].status # "none"
    BY <2>1 DEF ReleasedCards
  <2>3. cards[c].at = cards[e].at
    BY <1>2, <2>1, <2>2
  <2> QED  BY <2>2, <2>3 DEF MergingInvariant, CardsAreOwned
<1> QED  BY <1>3, <1>4

\* A card a code stands for was issued under it.
LEMMA CardOfIssued ==
    ASSUME MergingInvariant, NEW code \in Codes, NEW c \in card_of(code)
    PROVE  c \in CardIds /\ cards[c].code = code /\ cards[c].owner \in People
<1>1. c \in LiveCards(code) \/ c \in ReleasedCards(code)
  BY DEF card_of
<1>2. c \in CardIds /\ cards[c].code = code /\ cards[c].status # "none"
  BY <1>1 DEF LiveCards, ReleasedCards
<1> QED  BY <1>2 DEF MergingInvariant, CardsAreOwned

\* A disabled card opens nothing.
LEMMA DisabledHolds == MergingInvariant => DisabledStaysDisabled
<1> SUFFICES ASSUME MergingInvariant, NEW c \in CardIds, cards[c].status = "disabled", NEW r \in resolve_card(cards[c].code)
             PROVE  ~ r[2]
  BY DEF DisabledStaysDisabled
<1>1. cards[c].code \in Codes
  BY DEF MergingInvariant, CardsAreOwned
<1>2. c \in LiveCards(cards[c].code)
  BY DEF LiveCards
<1>3. c \in card_of(cards[c].code)
  BY <1>2 DEF card_of
<1>4. PICK e \in card_of(cards[c].code) : r = <<cards[e].owner, cards[e].status = "active">>
  BY <1>3 DEF resolve_card
<1>5. e = c
  BY <1>1, <1>3, OneCardOf
<1> QED  BY <1>4, <1>5

\* Whoever shares a code with another is proposed as a duplicate.
LEMMA SharingIsSeen ==
    ASSUME MergingInvariant, candidates = {}, NEW code \in Codes, NEW u, NEW v,
           u \in find_user_by_profile_field(code) \cup {cards[c].owner : c \in card_of(code)},
           v \in find_user_by_profile_field(code) \cup {cards[c].owner : c \in card_of(code)}
    PROVE  u = v
<1>1. code # NoCode
  BY MergingAssumption DEF NoCode
<1>2. ASSUME NEW x \in find_user_by_profile_field(code), NEW y \in card_owner(code) \cap People PROVE x = y
  <2>1. x \in People /\ persons[x].field = code
    BY DEF find_user_by_profile_field
  <2>2. x # y => {x, y} \in shared_card
    BY <1>1, <2>1 DEF shared_card
  <2>3. shared_card = {}
    BY DEF candidates
  <2> QED  BY <2>2, <2>3
<1>3. CASE card_of(code) = {}
  <2>1. ASSUME NEW y \in find_user_by_profile_field(code) PROVE y \in card_owner(code) \cap People
    <3>1. <<y, TRUE>> \in resolve_card(code)
      BY <1>3, Zenon DEF resolve_card
    <3>2. PICK q : q = <<y, TRUE>>
      OBVIOUS
    <3>3. q \in resolve_card(code) /\ q[1] = y
      BY <3>1, <3>2
    <3> QED  BY <3>3 DEF card_owner, find_user_by_profile_field
  <2> QED  BY <1>2, <1>3, <2>1
<1>4. CASE card_of(code) # {}
  <2>1. PICK c \in card_of(code) : TRUE
    BY <1>4
  <2>2. \A e \in card_of(code) : cards[e].owner = cards[c].owner
    BY <2>1, OneCardOf
  <2>3. cards[c].owner \in card_owner(code) \cap People
    <3>1. <<cards[c].owner, cards[c].status = "active">> \in resolve_card(code)
      BY <1>4, <2>1 DEF resolve_card
    <3>2. cards[c].owner \in card_owner(code)
      BY <3>1 DEF card_owner
    <3> QED  BY <2>1, <3>2, CardOfIssued
  <2>4. \A x \in find_user_by_profile_field(code) : x = cards[c].owner
    BY <1>2, <2>3
  <2> QED  BY <2>2, <2>4
<1> QED  BY <1>3, <1>4

\* So with no duplicate proposed none shares.
LEMMA NoSharingHolds == MergingInvariant => NoCandidatesNoSharing
<1> SUFFICES ASSUME MergingInvariant, candidates = {}, NEW code \in Codes
             PROVE  Cardinality(find_user_by_profile_field(code) \cup {cards[c].owner : c \in card_of(code)}) <= 1
  BY DEF NoCandidatesNoSharing
<1> DEFINE sharing == find_user_by_profile_field(code) \cup {cards[c].owner : c \in card_of(code)}
<1>1. \A u, v \in sharing : u = v
  BY SharingIsSeen
<1> HIDE DEF sharing
<1>2. sharing = {} \/ \E u : sharing = {u}
  BY <1>1
<1>3. Cardinality(sharing) = 0 \/ Cardinality(sharing) = 1
  BY <1>2, FS_EmptySet, FS_Singleton
<1> QED  BY <1>3 DEF sharing

\* A request counted.
LEMMA StepCounts == ASSUME MergingInvariant, Step PROVE mergesAsked' = mergesAsked + 1 /\ mergesAsked' \in Nat
BY DEF Step, MergingInvariant, MergingTyped

\* Cards stand while their owners do.
LEMMA CardsStand ==
    ASSUME MergingInvariant, cards' = cards, People' = People, mergesAsked' = mergesAsked \/ mergesAsked' = mergesAsked + 1
    PROVE  CardsAreOwned'
<1>1. \A c \in CardIds : cards[c].at \in Nat
  BY DEF MergingInvariant, MergingTyped, Cards
<1>2. mergesAsked \in Nat
  BY DEF MergingInvariant, MergingTyped
<1> QED  BY <1>1, <1>2 DEF MergingInvariant, CardsAreOwned, OneLive

\* Requests that leave the rows, the cards and who is there.
LEMMA QuietRequest ==
    ASSUME MergingInvariant, Step, persons' \in [Persons -> Accounts], People' = People, rules' \subseteq MergeRules,
           \A m \in merging' : m.s \in Persons /\ m.a \in Persons /\ m.s # m.a /\ m.before \in [Persons -> Accounts],
           UNCHANGED <<cards, plain, heir>>
    PROVE  MergingInvariant'
<1>1. mergesAsked' = mergesAsked + 1 /\ mergesAsked' \in Nat
  BY StepCounts
<1>2. MergingTyped'
  BY <1>1 DEF MergingInvariant, MergingTyped
<1>3. HeirsAreHere' /\ RowsFollow'
  BY DEF MergingInvariant, HeirsAreHere, RowsFollow
<1>4. CardsAreOwned'
  BY <1>1, CardsStand
<1> QED  BY <1>2, <1>3, <1>4 DEF MergingInvariant

\* What staff and members write of an account.
LEMMA WritesKept ==
    ASSUME MergingInvariant, NEW u \in Persons,
           \/ \E code \in Codes : update_user_profile(u, code)
           \/ Enrolled(u) \/ Deactivated(u)
           \/ \E k \in PairKeys : PairWritten(u, k)
           \/ \E p \in Guarded, effect \in {"allow", "deny"} : RuleWritten(u, p, effect)
    PROVE  MergingInvariant'
<1>1. /\ Step /\ UNCHANGED <<cards, plain, heir, merging>> /\ persons \in [Persons -> Accounts]
      /\ \A m \in merging' : m.s \in Persons /\ m.a \in Persons /\ m.s # m.a /\ m.before \in [Persons -> Accounts]
  BY DEF update_user_profile, Enrolled, Deactivated, PairWritten, RuleWritten, MergingInvariant, MergingTyped
<1>2. persons' \in [Persons -> Accounts] /\ \A v \in Persons : persons'[v].here = persons[v].here
  <2>1. CASE persons' = persons
    BY <1>1, <2>1
  <2>2. CASE \E code \in Codes : persons' = [persons EXCEPT ![u].field = code]
    BY <1>1, <2>2 DEF Accounts
  <2>3. CASE persons' = [persons EXCEPT ![u].due = TRUE]
    BY <1>1, <2>3 DEF Accounts
  <2>4. CASE persons' = [persons EXCEPT ![u].active = FALSE]
    BY <1>1, <2>4 DEF Accounts
  <2> QED  BY <2>1, <2>2, <2>3, <2>4 DEF update_user_profile, Enrolled, Deactivated, PairWritten, RuleWritten
<1>3. People' = People
  BY <1>2 DEF People
<1>4. rules' \subseteq MergeRules
  <2>1. CASE rules' = rules
    BY <2>1 DEF MergingInvariant, MergingTyped
  <2>2. CASE \E p \in Guarded, effect \in {"allow", "deny"} : RuleWritten(u, p, effect)
    <3>1. PICK p \in Guarded, effect \in {"allow", "deny"} : rules' = rules \cup {[who |-> u, place |-> p, effect |-> effect]}
      BY <2>2 DEF RuleWritten
    <3>2. [who |-> u, place |-> p, effect |-> effect] \in MergeRules
      BY DEF MergeRules
    <3> QED  BY <3>1, <3>2 DEF MergingInvariant, MergingTyped
  <2> QED  BY <2>1, <2>2 DEF update_user_profile, Enrolled, Deactivated, PairWritten
<1> QED  BY <1>1, <1>2, <1>3, <1>4, QuietRequest

\* A row recorded.
LEMMA RecordedKept ==
    ASSUME MergingInvariant, NEW u \in Persons, NEW r \in Rows, Recorded(u, r)
    PROVE  MergingInvariant'
<1>1. mergesAsked' = mergesAsked + 1 /\ mergesAsked' \in Nat
  BY StepCounts DEF Recorded
<1>2. /\ u \in People /\ plain' = [plain EXCEPT ![r] = u] /\ plain \in [Rows -> Persons \cup {NoOne}]
      /\ UNCHANGED <<persons, cards, rules, merging, heir>>
  BY DEF Recorded, MergingInvariant, MergingTyped
<1>3. People' = People
  BY <1>2 DEF People
<1>4. MergingTyped'
  BY <1>1, <1>2 DEF MergingInvariant, MergingTyped
<1>5. HeirsAreHere' /\ RowsFollow'
  BY <1>2, <1>3 DEF MergingInvariant, HeirsAreHere, RowsFollow
<1> QED  BY <1>1, <1>2, <1>3, <1>4, <1>5, CardsStand DEF MergingInvariant

\* A merge begun.
LEMMA MergeBegunKept ==
    ASSUME MergingInvariant, NEW c \in Persons, NEW s \in Persons, NEW a \in Persons, merge_users(c, s, a)
    PROVE  MergingInvariant'
<1>1. s # a
  <2>1. ASSUME s = a PROVE FALSE
    <3>1. {c, s, a} = {c, s}
      BY <2>1
    <3>2. Cardinality({c, s}) = 3
      BY <3>1 DEF merge_users, merge_parties
    <3>3. IsFiniteSet({s}) /\ Cardinality({s}) = 1
      BY FS_Singleton
    <3>4. {c, s} = {s} \cup {c}
      OBVIOUS
    <3>5. Cardinality({s} \cup {c}) = 1 \/ Cardinality({s} \cup {c}) = 2
      BY <3>3, FS_AddElement
    <3> QED  BY <3>2, <3>4, <3>5
  <2> QED  BY <2>1
<1>2. PICK m : m = [s |-> s, a |-> a, before |-> persons, acknowledged |-> plan(s, a, persons)]
  OBVIOUS
<1>3. m.s = s /\ m.a = a /\ m.before = persons
  BY <1>2
<1>4. merging' = {m} /\ Step /\ UNCHANGED <<persons, cards, plain, rules, heir>>
  BY <1>2 DEF merge_users
<1>5. People' = People /\ persons' \in [Persons -> Accounts] /\ rules' \subseteq MergeRules
  BY <1>4 DEF People, MergingInvariant, MergingTyped
<1> QED  BY <1>1, <1>3, <1>4, <1>5, QuietRequest

\* A card issued, disabled or released.
LEMMA CardsKept ==
    ASSUME MergingInvariant, NEW c \in CardIds,
           \/ \E u \in Persons, code \in Codes : issue_card(c, u, code)
           \/ disable_card(c) \/ release_card(c)
    PROVE  MergingInvariant'
<1>1. Step /\ OneLive(cards)' /\ UNCHANGED <<persons, plain, rules, merging, heir>>
  BY DEF issue_card, disable_card, release_card, SetStatus, OneLive
<1>2. mergesAsked' = mergesAsked + 1 /\ mergesAsked' \in Nat /\ mergesAsked \in Nat /\ People' = People
      /\ cards \in [CardIds -> Cards] /\ \A e \in CardIds : cards[e].at \in Nat
  BY <1>1, StepCounts DEF People, MergingInvariant, MergingTyped, Cards
<1>3. ASSUME NEW x \in Cards, cards' = [cards EXCEPT ![c] = x], x.status # "none", x.code \in Codes, x.owner \in People,
             x.at = mergesAsked \/ (cards[c].status # "none" /\ x.at = cards[c].at)
      PROVE  cards' \in [CardIds -> Cards] /\ CardsAreOwned'
  <2>1. cards' \in [CardIds -> Cards] /\ cards'[c] = x /\ \A e \in CardIds : e # c => cards'[e] = cards[e]
    BY <1>2, <1>3
  <2>2. x.at < mergesAsked'
    BY <1>2, <1>3 DEF MergingInvariant, CardsAreOwned
  <2>3. ASSUME NEW e \in CardIds
        PROVE  /\ cards'[e].status = "none" => cards'[e].code = NoCode
               /\ cards'[e].status # "none" =>
                     cards'[e].code \in Codes /\ cards'[e].owner \in People' /\ cards'[e].at < mergesAsked'
    <3>1. CASE e = c
      BY <1>2, <1>3, <2>1, <2>2, <3>1
    <3>2. CASE e # c
      BY <1>2, <2>1, <3>2 DEF MergingInvariant, CardsAreOwned
    <3> QED  BY <3>1, <3>2
  <2>4. ASSUME NEW e \in CardIds, e # c, cards[e].status # "none" PROVE x.at # cards[e].at
    BY <1>2, <1>3, <2>4 DEF MergingInvariant, CardsAreOwned
  <2>5. ASSUME NEW e \in CardIds, NEW f \in CardIds, cards'[e].status # "none", cards'[f].status # "none", cards'[e].at = cards'[f].at
        PROVE  e = f
    <3>1. CASE e = c \/ f = c
      BY <2>1, <2>4, <2>5, <3>1
    <3>2. CASE e # c /\ f # c
      BY <2>1, <2>5, <3>2 DEF MergingInvariant, CardsAreOwned
    <3> QED  BY <3>1, <3>2
  <2> QED  BY <1>1, <2>1, <2>3, <2>5 DEF CardsAreOwned
<1>4. cards' \in [CardIds -> Cards] /\ CardsAreOwned'
  <2>1. ASSUME NEW u \in Persons, NEW code \in Codes, issue_card(c, u, code) PROVE cards' \in [CardIds -> Cards] /\ CardsAreOwned'
    <3>1. PICK x : x = [owner |-> u, code |-> code, status |-> "active", at |-> mergesAsked]
      OBVIOUS
    <3>2. x \in Cards /\ x.status # "none" /\ x.code = code /\ x.owner = u /\ x.at = mergesAsked
      BY <1>2, <3>1 DEF Cards
    <3>3. cards' = [cards EXCEPT ![c] = x] /\ u \in People
      BY <2>1, <3>1 DEF issue_card, create_card
    <3> QED  BY <1>3, <3>2, <3>3
  <2>2. ASSUME NEW status \in {"disabled", "released"}, SetStatus(c, status) PROVE cards' \in [CardIds -> Cards] /\ CardsAreOwned'
    <3>1. PICK x : x = [cards[c] EXCEPT !.status = status]
      OBVIOUS
    <3>2. cards[c] \in Cards /\ cards[c].status # "none"
      BY <1>2, <2>2 DEF SetStatus
    <3>3. /\ x \in Cards /\ x.status = status /\ x.code = cards[c].code /\ x.owner = cards[c].owner /\ x.at = cards[c].at
      BY <3>1, <3>2 DEF Cards
    <3>4. cards[c].code \in Codes /\ cards[c].owner \in People
      BY <3>2 DEF MergingInvariant, CardsAreOwned
    <3>5. cards' = [cards EXCEPT ![c] = x]
      BY <2>2, <3>1 DEF SetStatus
    <3> QED  BY <1>3, <3>2, <3>3, <3>4, <3>5
  <2> QED  BY <2>1, <2>2 DEF disable_card, release_card
<1>5. MergingTyped'
  BY <1>1, <1>2, <1>4 DEF MergingInvariant, MergingTyped
<1>6. HeirsAreHere' /\ RowsFollow'
  BY <1>1, <1>2 DEF MergingInvariant, HeirsAreHere, RowsFollow
<1> QED  BY <1>4, <1>5, <1>6 DEF MergingInvariant

\* What a merge of a into s does, when it goes through.
Merged(s, a) ==
    /\ s \in People /\ a \in People /\ s # a
    /\ plain' = move_plain(s, a) /\ rules' = move_rules(s, a)
    /\ cards' = [c \in CardIds |-> IF cards[c].owner = a THEN [cards[c] EXCEPT !.owner = s] ELSE cards[c]]
    /\ heir' = [u \in Persons |-> IF heir[u] = a THEN s ELSE heir[u]]
    /\ persons' \in [Persons -> Accounts] /\ People' = People \ {a}
    /\ merging' = {} /\ mergesAsked' = mergesAsked

\* A merge goes through, or leaves everything.
LEMMA ExecuteCases ==
    ASSUME MergingInvariant, execute
    PROVE  \/ \E s, a \in Persons : Merged(s, a)
           \/ UNCHANGED <<persons, cards, plain, rules, heir, mergesAsked>> /\ merging' = {}
<1>1. PICK m \in merging :
        IF {m.s, m.a} \subseteq People /\ plan(m.s, m.a, m.before) = m.acknowledged
        THEN /\ plain' = move_plain(m.s, m.a) /\ pairs' = move_pairs(m.s, m.a) /\ rules' = move_rules(m.s, m.a)
             /\ cards' = [c \in CardIds |-> IF cards[c].owner = m.a THEN [cards[c] EXCEPT !.owner = m.s] ELSE cards[c]]
             /\ persons' = [persons EXCEPT ![m.a].here = FALSE,
                              ![m.s].field = merged_profile(m.s, m.a, m.before), ![m.s].due = @ \/ m.before[m.a].due]
             /\ heir' = [u \in Persons |-> IF heir[u] = m.a THEN m.s ELSE heir[u]]
        ELSE UNCHANGED <<persons, cards, plain, pairs, rules, heir>>
  BY DEF execute
<1>2. merging' = {} /\ mergesAsked' = mergesAsked
  BY DEF execute
<1>3. PICK s \in Persons, a \in Persons : s = m.s /\ a = m.a /\ s # a
  BY DEF MergingInvariant, MergingTyped
<1>4. CASE {s, a} \subseteq People /\ plan(s, a, m.before) = m.acknowledged
  <2>1. m.before \in [Persons -> Accounts] /\ persons \in [Persons -> Accounts]
    BY DEF MergingInvariant, MergingTyped
  <2>2. PICK f, e : f = merged_profile(s, a, m.before) /\ e = m.before[a].due
    OBVIOUS
  <2>3. f \in Codes \cup {NoCode}
    BY <2>1, <2>2 DEF merged_profile, Accounts
  <2>4. e \in BOOLEAN
    BY <2>1, <2>2 DEF Accounts
  <2>5. persons' = [persons EXCEPT ![a].here = FALSE, ![s].field = f, ![s].due = @ \/ e]
    BY <1>1, <1>3, <1>4, <2>2
  <2>6. ASSUME NEW v \in Persons PROVE persons'[v] \in Accounts /\ persons'[v].here = (IF v = a THEN FALSE ELSE persons[v].here)
    <3>1. CASE v = a
      <4>1. persons'[a] = [persons[a] EXCEPT !.here = FALSE]
        BY <1>3, <2>1, <2>5
      <4> QED  BY <2>1, <3>1, <4>1 DEF Accounts
    <3>2. CASE v = s
      <4>1. PICK due : due = (persons[s].due \/ e)
        OBVIOUS
      <4>2. due \in BOOLEAN
        BY <4>1, Zenon
      <4>3. persons'[s] = [persons[s] EXCEPT !.field = f, !.due = due]
        BY <1>3, <2>1, <2>5, <4>1
      <4> QED  BY <1>3, <2>1, <2>3, <3>2, <4>2, <4>3 DEF Accounts
    <3>3. CASE v # a /\ v # s
      <4>1. persons'[v] = persons[v]
        BY <2>1, <2>5, <3>3
      <4> QED  BY <2>1, <3>3, <4>1
    <3> QED  BY <3>1, <3>2, <3>3
  <2>7. persons' = [v \in Persons |-> persons'[v]]
    BY <2>1, <2>5
  <2>8. persons' \in [Persons -> Accounts]
    BY <2>6, <2>7
  <2>9. People' = People \ {a}
    BY <2>6 DEF People
  <2>10. Merged(s, a)
    BY <1>1, <1>2, <1>3, <1>4, <2>8, <2>9 DEF Merged
  <2> QED  BY <2>10
<1>5. CASE ~ ({s, a} \subseteq People /\ plan(s, a, m.before) = m.acknowledged)
  BY <1>1, <1>2, <1>3, <1>5
<1> QED  BY <1>4, <1>5

\* A merge that goes through keeps it.
LEMMA MergedKept ==
    ASSUME MergingInvariant, NEW s \in Persons, NEW a \in Persons, Merged(s, a)
    PROVE  MergingInvariant'
<1>1. /\ s \in People' /\ People' = People \ {a} /\ mergesAsked' = mergesAsked /\ mergesAsked \in Nat
      /\ cards \in [CardIds -> Cards] /\ plain \in [Rows -> Persons \cup {NoOne}] /\ heir \in [Persons -> Persons \cup {NoOne}]
  BY DEF Merged, MergingInvariant, MergingTyped
<1>2. rules' \subseteq MergeRules
  <2>1. \A r \in rules : [r EXCEPT !.who = IF @ = a THEN s ELSE @] \in MergeRules
    BY DEF MergingInvariant, MergingTyped, MergeRules
  <2> QED  BY <2>1 DEF Merged, move_rules
<1>3. ASSUME NEW c \in CardIds
      PROVE  /\ cards'[c] \in Cards /\ cards'[c].code = cards[c].code /\ cards'[c].status = cards[c].status
             /\ cards'[c].at = cards[c].at
             /\ cards'[c].owner = IF cards[c].owner = a THEN s ELSE cards[c].owner
  <2>1. cards'[c] = IF cards[c].owner = a THEN [cards[c] EXCEPT !.owner = s] ELSE cards[c]
    BY DEF Merged
  <2>2. cards[c] \in Cards
    BY <1>1
  <2> QED  BY <2>1, <2>2 DEF Cards
<1>4. cards' \in [CardIds -> Cards]
  <2>1. cards' = [c \in CardIds |-> cards'[c]]
    BY DEF Merged
  <2> QED  BY <1>3, <2>1
<1>5. CardsAreOwned'
  BY <1>1, <1>3 DEF CardsAreOwned, MergingInvariant, OneLive
<1>6. plain' \in [Rows -> Persons \cup {NoOne}] /\ heir' \in [Persons -> Persons \cup {NoOne}]
  BY <1>1 DEF Merged, move_plain
<1>7. MergingTyped'
  BY <1>1, <1>2, <1>4, <1>6 DEF MergingTyped, Merged
<1>8. HeirsAreHere'
  BY <1>1 DEF Merged, MergingInvariant, HeirsAreHere, People
<1>9. RowsFollow'
  BY <1>1 DEF Merged, MergingInvariant, RowsFollow, move_plain
<1> QED  BY <1>5, <1>7, <1>8, <1>9 DEF MergingInvariant

\* An account deleted takes its rows and cards with it.
LEMMA DeletedKept ==
    ASSUME MergingInvariant, NEW c \in Persons, NEW u \in Persons, DeletesUser(c, u)
    PROVE  MergingInvariant'
<1>1. mergesAsked' = mergesAsked + 1 /\ mergesAsked' \in Nat /\ mergesAsked \in Nat
  BY StepCounts DEF DeletesUser, MergingInvariant, MergingTyped
<1>2. /\ persons' = [persons EXCEPT ![u].here = FALSE] /\ persons \in [Persons -> Accounts] /\ u \in People
      /\ cards \in [CardIds -> Cards] /\ plain \in [Rows -> Persons \cup {NoOne}] /\ heir \in [Persons -> Persons \cup {NoOne}]
      /\ plain' = [r \in Rows |-> IF plain[r] = u THEN NoOne ELSE plain[r]]
      /\ heir' = [v \in Persons |-> IF heir[v] = u THEN NoOne ELSE heir[v]]
      /\ UNCHANGED <<rules, merging>>
  BY DEF DeletesUser, MergingInvariant, MergingTyped
<1>3. persons' \in [Persons -> Accounts] /\ People' = People \ {u}
  BY <1>2 DEF Accounts, People
<1>4. PICK none \in Cards : none = [owner |-> NoOne, code |-> NoCode, status |-> "none", at |-> 0]
  BY DEF Cards
<1>5. none.code = NoCode /\ none.status = "none"
  BY <1>4
<1>6. cards' = [e \in CardIds |-> IF cards[e].owner = u THEN none ELSE cards[e]]
  BY <1>4 DEF DeletesUser
<1>7. cards' \in [CardIds -> Cards] /\ \A e \in CardIds : cards'[e] = none \/ (cards'[e] = cards[e] /\ cards[e].owner # u)
  BY <1>2, <1>6
<1>8. ASSUME NEW e \in CardIds
      PROVE  /\ cards'[e].status = "none" => cards'[e].code = NoCode
             /\ cards'[e].status # "none" =>
                   cards'[e].code \in Codes /\ cards'[e].owner \in People' /\ cards'[e].at < mergesAsked'
  <2>1. cards[e].at \in Nat
    BY <1>2 DEF Cards
  <2> QED  BY <1>1, <1>3, <1>5, <1>7, <2>1 DEF MergingInvariant, CardsAreOwned
<1>9. \A e, f \in CardIds : cards'[e].status # "none" /\ cards'[f].status # "none" /\ cards'[e].at = cards'[f].at => e = f
  BY <1>5, <1>7 DEF MergingInvariant, CardsAreOwned
<1>10. OneLive(cards)'
  BY <1>5, <1>7 DEF MergingInvariant, CardsAreOwned, OneLive
<1>11. CardsAreOwned'
  BY <1>8, <1>9, <1>10 DEF CardsAreOwned
<1>12. MergingTyped'
  BY <1>1, <1>2, <1>3, <1>7 DEF MergingInvariant, MergingTyped
<1>13. HeirsAreHere' /\ RowsFollow'
  BY <1>2, <1>3 DEF MergingInvariant, HeirsAreHere, RowsFollow, People
<1> QED  BY <1>11, <1>12, <1>13 DEF MergingInvariant

\* Every step keeps it.
LEMMA MergingStep == MergingInvariant /\ [MergingNext]_mergeVars => MergingInvariant'
<1> SUFFICES ASSUME MergingInvariant, [MergingNext]_mergeVars PROVE MergingInvariant'
  OBVIOUS
<1>1. ASSUME UNCHANGED <<persons, cards, plain, rules, heir, mergesAsked>>, merging' = {} \/ merging' = merging PROVE MergingInvariant'
  <2>1. People' = People
    BY <1>1 DEF People
  <2>2. MergingTyped'
    BY <1>1 DEF MergingInvariant, MergingTyped
  <2>3. HeirsAreHere' /\ RowsFollow'
    BY <1>1, <2>1 DEF MergingInvariant, HeirsAreHere, RowsFollow
  <2> QED  BY <1>1, <2>1, <2>2, <2>3, CardsStand DEF MergingInvariant
<1>2. CASE execute
  BY <1>1, <1>2, ExecuteCases, MergedKept
<1>3. CASE UNCHANGED mergeVars
  BY <1>1, <1>3 DEF mergeVars
<1> QED  BY <1>2, <1>3, WritesKept, RecordedKept, MergeBegunKept, CardsKept, DeletedKept DEF MergingNext

\* A step moves the heirs and the rows together, and drops no rule: nothing
\* moves, or a row was recorded, or an account was merged or deleted.
LEMMA HeirsMoveTogether ==
    ASSUME MergingInvariant, MergingNext
    PROVE  \/ heir' = heir /\ rules \subseteq rules' /\ \A r \in Rows : plain[r] # NoOne => plain'[r] = plain[r]
           \/ \E s, a \in Persons : Merged(s, a)
           \/ \E c, u \in Persons : DeletesUser(c, u)
<1> DEFINE Stand == heir' = heir /\ rules \subseteq rules' /\ \A r \in Rows : plain[r] # NoOne => plain'[r] = plain[r]
<1>1. ASSUME NEW u \in Persons, NEW q \in Rows, Recorded(u, q) PROVE Stand
  BY <1>1 DEF Recorded, MergingInvariant, MergingTyped
<1>2. ASSUME NEW u \in Persons,
             \/ \E code \in Codes : update_user_profile(u, code)
             \/ Enrolled(u) \/ Deactivated(u)
             \/ \E k \in PairKeys : PairWritten(u, k)
             \/ \E p \in Guarded, effect \in {"allow", "deny"} : RuleWritten(u, p, effect)
             \/ \E c \in CardIds, code \in Codes : issue_card(c, u, code)
             \/ \E s, a \in Persons : merge_users(u, s, a)
      PROVE  Stand
  BY <1>2 DEF update_user_profile, Enrolled, Deactivated, PairWritten, RuleWritten, issue_card, merge_users
<1>3. ASSUME NEW c \in CardIds, disable_card(c) \/ release_card(c) PROVE Stand
  BY <1>3 DEF disable_card, release_card, SetStatus
<1>4. CASE execute
  BY <1>4, ExecuteCases
<1> HIDE DEF Stand
<1>5. Stand \/ execute \/ \E c, u \in Persons : DeletesUser(c, u)
  BY <1>1, <1>2, <1>3 DEF MergingNext
<1> QED  BY <1>4, <1>5 DEF Stand

\* A row written about an account goes to its heir.
LEMMA RowGoesToHeir ==
    ASSUME MergingInvariant, MergingNext, NEW r \in Rows, plain[r] # NoOne, heir'[plain[r]] # NoOne
    PROVE  plain'[r] = heir'[plain[r]]
<1>1. plain[r] \in People /\ plain[r] \in Persons /\ heir[plain[r]] = plain[r]
  BY DEF MergingInvariant, HeirsAreHere, RowsFollow, People
<1>2. CASE heir' = heir /\ plain'[r] = plain[r]
  BY <1>1, <1>2
<1>3. ASSUME NEW s \in Persons, NEW a \in Persons, Merged(s, a) PROVE plain'[r] = heir'[plain[r]]
  BY <1>1, <1>3 DEF Merged, move_plain
<1>4. ASSUME NEW c \in Persons, NEW u \in Persons, DeletesUser(c, u) PROVE plain'[r] = heir'[plain[r]]
  BY <1>1, <1>4 DEF DeletesUser
<1> QED  BY <1>2, <1>3, <1>4, HeirsMoveTogether

\* A denial stands for the heir of the account it was written about.
LEMMA DenialGoesToHeir ==
    ASSUME MergingInvariant, MergingNext, NEW r \in rules, r.who \in People, heir'[r.who] # NoOne
    PROVE  [r EXCEPT !.who = heir'[r.who]] \in rules'
<1>1. r \in MergeRules /\ r.who \in Persons /\ heir[r.who] = r.who
  BY DEF MergingInvariant, MergingTyped, HeirsAreHere, People
<1>2. [r EXCEPT !.who = r.who] = r
  BY <1>1 DEF MergeRules
<1>3. CASE heir' = heir /\ rules \subseteq rules'
  BY <1>1, <1>2, <1>3
<1>4. ASSUME NEW s \in Persons, NEW a \in Persons, Merged(s, a) PROVE [r EXCEPT !.who = heir'[r.who]] \in rules'
  <2>1. heir'[r.who] = IF r.who = a THEN s ELSE r.who
    BY <1>1, <1>4 DEF Merged
  <2>2. [r EXCEPT !.who = IF @ = a THEN s ELSE @] \in rules'
    BY <1>4 DEF Merged, move_rules
  <2>3. [r EXCEPT !.who = IF @ = a THEN s ELSE @] = [r EXCEPT !.who = heir'[r.who]]
    BY <1>1, <2>1 DEF MergeRules
  <2> QED  BY <2>2, <2>3
<1>5. ASSUME NEW c \in Persons, NEW u \in Persons, DeletesUser(c, u) PROVE [r EXCEPT !.who = heir'[r.who]] \in rules'
  <2>1. heir'[r.who] = r.who /\ rules' = rules
    BY <1>1, <1>5 DEF DeletesUser
  <2> QED  BY <1>2, <2>1
<1> QED  BY <1>3, <1>4, <1>5, HeirsMoveTogether

\* Through any chain of merges what an account had done, what it was denied
\* and which cards it had lost stand for its heir; and with no duplicate
\* proposed no two accounts hold one card code (user_merge.rs, duplicates.rs).
THEOREM MergesKept == MergingSpec => MergesKeepWhatCounts
<1>1. MergingInit => MergingInvariant
  <2> SUFFICES ASSUME MergingInit PROVE MergingInvariant
    OBVIOUS
  <2>1. PICK none \in Cards : none = [owner |-> NoOne, code |-> NoCode, status |-> "none", at |-> 0]
    BY DEF Cards
  <2>2. PICK fresh \in Accounts : fresh = [here |-> TRUE, active |-> TRUE, field |-> NoCode, due |-> FALSE]
    BY DEF Accounts
  <2>3. none.status = "none" /\ none.code = NoCode /\ fresh.here = TRUE
    BY <2>1, <2>2
  <2>4. /\ persons = [u \in Persons |-> fresh] /\ cards = [c \in CardIds |-> none] /\ plain = [r \in Rows |-> NoOne]
        /\ rules = {} /\ merging = {} /\ heir = [u \in Persons |-> u] /\ mergesAsked = 0
    BY <2>1, <2>2 DEF MergingInit
  <2>5. MergingTyped
    BY <2>4 DEF MergingTyped
  <2>6. HeirsAreHere /\ RowsFollow
    BY <2>4 DEF HeirsAreHere, RowsFollow, People
  <2>7. CardsAreOwned
    BY <2>3, <2>4 DEF CardsAreOwned, OneLive
  <2> QED  BY <2>5, <2>6, <2>7 DEF MergingInvariant
<1>2. MergingInvariant => DisabledStaysDisabled /\ NoCandidatesNoSharing
  BY DisabledHolds, NoSharingHolds
<1>3. MergingInvariant /\ [MergingNext]_mergeVars =>
        [\A r \in Rows : plain[r] # NoOne /\ heir'[plain[r]] # NoOne => plain'[r] = heir'[plain[r]]]_mergeVars
  BY RowGoesToHeir
<1>4. MergingInvariant /\ [MergingNext]_mergeVars =>
        [\A r \in rules : r.effect = "deny" /\ r.who \in People /\ heir'[r.who] # NoOne
            => [r EXCEPT !.who = heir'[r.who]] \in rules']_mergeVars
  BY DenialGoesToHeir
<1>5. MergingSpec => []MergingInvariant
  BY <1>1, MergingStep, PTL DEF MergingSpec
<1> QED  BY <1>2, <1>3, <1>4, <1>5, MergingStep, PTL
         DEF MergingSpec, MergesKeepWhatCounts, HistoryFollowsTheHeir, DenialOutlivesMerges

=============================================================================
