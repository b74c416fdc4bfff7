------------------------------- MODULE Login --------------------------------
(***************************************************************************)
(* Signing in to one account: passwords, sessions, the second factor,      *)
(* password resets and the throttle (server/src/api/auth.rs, api/mfa.rs,   *)
(* auth.rs, mfa.rs, throttle.rs and the queries they make).                *)
(*                                                                         *)
(* A request reads the account and acts on what it read in later           *)
(* statements, so requests are records with a position, and several run at *)
(* once.  Secrets are model values and a guess is a secret the account     *)
(* does not have.  Accounts share no state here but maps keyed by account  *)
(* or by a random token.                                                   *)
(***************************************************************************)
EXTENDS Integers, FiniteSets

CONSTANTS
    Browsers,           \* requests in progress at once
    MaxRequests,        \* bound: requests made
    Passwords,          \* what the password may be
    FirstPassword, WrongPassword,
    Authenticators,     \* TOTP secrets, each made for one setup
    Passkeys,
    RecoveryCodes,
    ResetLinks, ChallengeTokens,
    ThrottleAttempts, LockoutTime,   \* auth.login_throttle_*, in units of a TOTP period
    ResetTtl, ChallengeTtl,
    MaxTime             \* bound: the clock

ASSUME LoginAssumption ==
    /\ FirstPassword \in Passwords /\ WrongPassword \notin Passwords /\ IsFiniteSet(Browsers)
    /\ ThrottleAttempts \in Nat \ {0} /\ LockoutTime \in Nat \ {0}
    /\ ResetTtl \in Nat \ {0} /\ ChallengeTtl \in Nat \ {0} /\ MaxTime \in Nat
\* What is random is never the same secret twice, in one table or in two.
ASSUME SecretsAssumption ==
    /\ RecoveryCodes \cap ResetLinks = {}
    /\ \A t \in Authenticators, s \in 0..(MaxTime + 1) : <<t, s>> \notin RecoveryCodes \cup ResetLinks

VARIABLES
    account,        \* users: active, password, token_version, mfa_enrolled_at
    totp,           \* user_mfa_totp
    passkeys,       \* user_mfa_webauthn
    codes,          \* user_mfa_recovery_codes
    resets,         \* password_reset_tokens
    challenges,     \* MfaServiceInner.challenges
    throttle,       \* ThrottleEntry for each identifier
    issued,         \* the sessions handed out
    requests,       \* requests in progress
    made,           \* how many of MaxRequests were made
    clock,
    accepted,       \* what let somebody in or set a password, and how often
    raced           \* whether two requests were ever in progress at once

accountVars == <<account, totp, passkeys, codes>>
storeVars == <<resets, challenges, throttle>>
loginVars == <<accountVars, storeVars, issued, requests, made, clock, accepted, raced>>

Never == -1
Steps == 0..(MaxTime + 1)
Secrets == RecoveryCodes \cup ResetLinks \cup (Authenticators \X Steps)
Identifiers == {"login", "mfa", "reset"}
NoEntry == [attempts |-> 0, last |-> 0, until |-> Never]
NoRequest == [pc |-> "idle", arg |-> "none", version |-> 0, password |-> FirstPassword,
              factor |-> "none", keys |-> {}, enrolled |-> FALSE]

\* The account is new, or has one authenticator and the codes that came with it.
LoginInit ==
    /\ \/ /\ account = [active |-> TRUE, password |-> FirstPassword, version |-> 0, enrolled |-> FALSE]
          /\ totp = [t \in Authenticators |-> [st |-> "none", last |-> Never]]
          /\ codes = [c \in RecoveryCodes |-> "none"]
       \/ /\ account = [active |-> TRUE, password |-> FirstPassword, version |-> 0, enrolled |-> TRUE]
          /\ totp \in {[t \in Authenticators |-> [st |-> IF t = f THEN "confirmed" ELSE "none",
                                                 last |-> Never]] : f \in Authenticators}
          /\ codes \in {[c \in RecoveryCodes |-> IF c = f THEN "unused" ELSE "none"] : f \in RecoveryCodes}
    /\ passkeys = {}
    /\ resets = [r \in ResetLinks |-> [st |-> "none", until |-> 0]]
    /\ challenges = [c \in ChallengeTokens |-> [st |-> "none", until |-> 0, keys |-> {}]]
    /\ throttle = [i \in Identifiers |-> NoEntry]
    /\ issued = {} /\ requests = [b \in Browsers |-> NoRequest]
    /\ made = 0 /\ clock = 0 /\ raced = FALSE
    /\ accepted = [s \in Secrets |-> 0]

At(b, pc) == requests[b].pc = pc
Goto(b, pc) == requests' = [requests EXCEPT ![b].pc = pc]
Answer(b) == requests' = [requests EXCEPT ![b] = NoRequest]
Arrives(b) ==
    /\ At(b, "idle") /\ made < MaxRequests
    /\ made' = made + 1
    /\ raced' = (raced \/ \E o \in Browsers \ {b} : ~ At(o, "idle"))
Accept(secret) == accepted' = [accepted EXCEPT ![secret] = @ + 1]

-----------------------------------------------------------------------------
(* throttle.rs. *)

\* cleanup_old_entries: a lock that has run out, and an old count, are forgotten.
cleanup_old_entries(e) ==
    IF (e.until = Never /\ clock - e.last >= 2 * LockoutTime) \/ (e.until # Never /\ clock >= e.until)
    THEN NoEntry ELSE e
check_attempt(id) ==
    LET e == cleanup_old_entries(throttle[id])
    IN  e.until = Never /\ ~ (e.attempts >= ThrottleAttempts /\ clock < e.last + LockoutTime)
\* A check cleans up every entry, its own and the others.
cleaned == [i \in Identifiers |-> cleanup_old_entries(throttle[i])]
counted(entry) ==
    [attempts |-> entry.attempts + 1, last |-> clock,
     until |-> IF entry.attempts + 1 >= ThrottleAttempts THEN clock + LockoutTime ELSE entry.until]
record_failed_attempt(id) == throttle' = [throttle EXCEPT ![id] = counted(@)]
record_successful_attempt(id) == throttle' = [throttle EXCEPT ![id] = NoEntry]

-----------------------------------------------------------------------------
(* Sessions: a token carries the token_version of the row it was made from. *)

usable(session) == account.active /\ session.version = account.version
create_token(b) ==
    issued' = issued \cup {[version |-> requests[b].version, password |-> requests[b].password,
                            factor |-> requests[b].factor]}
\* from_request_parts of AuthUser: a signed-in request is one with a usable session.
AuthUser == \E s \in issued : usable(s)

\* list_user_totp and list_user_webauthn, as they are asked.
has_totp == \E t \in Authenticators : totp[t].st = "confirmed"
has_webauthn == passkeys # {}
count_unused_recovery_codes == Cardinality({c \in RecoveryCodes : codes[c] = "unused"})

-----------------------------------------------------------------------------
(* login. *)

login(b, guess) ==
    /\ Arrives(b) /\ check_attempt("login")
    /\ throttle' = cleaned
    /\ requests' = [requests EXCEPT ![b] = [NoRequest EXCEPT !.pc = "password", !.password = guess]]
    /\ UNCHANGED <<accountVars, resets, challenges, issued, clock, accepted>>

authenticate_user(guess) == guess = account.password /\ account.active
\* The row read here is the one the token or the challenge is made from.
login_checked(b) ==
    /\ At(b, "password")
    /\ IF authenticate_user(requests[b].password)
       THEN /\ record_successful_attempt("login")
            /\ requests' = [requests EXCEPT ![b].version = account.version,
                              ![b].pc = IF account.enrolled THEN "challenge" ELSE "issue"]
       ELSE record_failed_attempt("login") /\ Answer(b)
    /\ UNCHANGED <<accountVars, resets, challenges, issued, made, clock, accepted, raced>>

\* issue_token, the end of login and of verify_login.
issue_token(b) ==
    /\ At(b, "issue")
    /\ create_token(b) /\ Answer(b)
    /\ UNCHANGED <<accountVars, storeVars, made, clock, accepted, raced>>

\* prune_expired runs whenever the store is written.
prune_expired(store) ==
    [c \in ChallengeTokens |-> IF store[c].st = "live" /\ store[c].until <= clock
                               THEN [store[c] EXCEPT !.st = "none", !.keys = {}] ELSE store[c]]
put_login(c) ==
    challenges' = [prune_expired(challenges) EXCEPT ![c] =
                     [st |-> "live", until |-> clock + ChallengeTtl, keys |-> passkeys]]
take_login(c) ==
    /\ challenges[c].st = "live" /\ clock < challenges[c].until
    /\ challenges' = [prune_expired(challenges) EXCEPT ![c] =
                        [st |-> "none", until |-> 0, keys |-> {}]]

\* Without a method left the account is "marked MFA-enrolled but has no usable
\* methods".  A passkey challenge carries the keys registered now.
build_login_challenge(b) ==
    /\ At(b, "challenge")
    /\ \/ /\ ~ has_totp /\ ~ has_webauthn /\ count_unused_recovery_codes = 0
          /\ UNCHANGED challenges
       \/ /\ has_totp \/ has_webauthn \/ count_unused_recovery_codes > 0
          /\ \E c \in ChallengeTokens :
                challenges[c].st = "none" /\ put_login(c)
    /\ Answer(b)
    /\ UNCHANGED <<accountVars, resets, throttle, issued, made, clock, accepted, raced>>

-----------------------------------------------------------------------------
(* verify_login. *)

\* The challenge is taken whether or not the attempt then succeeds, and the
\* account is read again.
verify_login(b, c, method, arg) ==
    /\ Arrives(b) /\ take_login(c)
    /\ throttle' = cleaned
    /\ requests' = IF account.active /\ check_attempt("mfa")
                   THEN [requests EXCEPT ![b] =
                           [NoRequest EXCEPT !.pc = method, !.arg = arg, !.factor = method,
                              !.version = account.version, !.password = account.password,
                              !.keys = challenges[c].keys]]
                   ELSE requests
    /\ UNCHANGED <<accountVars, resets, issued, clock, accepted>>

\* The outcome of the three paths.
Passed(b) == record_successful_attempt("mfa") /\ Goto(b, "issue")
Failed(b) == record_failed_attempt("mfa") /\ Answer(b)

\* verify_totp_step: a code names a secret and a step, one either side of now.
verify_totp_step(code) == code[2] \in {clock - 1, clock, clock + 1}
replayed(t, step) == totp[t].last # Never /\ step <= totp[t].last
\* The watermark is compared ...
verify_totp_path(b) ==
    /\ At(b, "totp")
    /\ LET code == requests[b].arg
       IN  IF totp[code[1]].st = "confirmed" /\ verify_totp_step(code) /\ ~ replayed(code[1], code[2])
           THEN Goto(b, "mark") /\ UNCHANGED throttle
           ELSE Failed(b)
    /\ UNCHANGED <<accountVars, resets, challenges, issued, made, clock, accepted, raced>>
\* ... and advanced in a statement of its own, to whatever was read.
update_totp_last_used_step(b) ==
    /\ At(b, "mark")
    /\ LET code == requests[b].arg
       IN  IF totp[code[1]].st \notin {"pending", "confirmed"}
           THEN Failed(b) /\ UNCHANGED <<totp, accepted>>
           ELSE /\ totp' = [totp EXCEPT ![code[1]].last = code[2]]
                /\ Accept(code) /\ Passed(b)
    /\ UNCHANGED <<account, passkeys, codes, resets, challenges, issued, made, clock, raced>>

verify_recovery_path(b) ==
    /\ At(b, "recovery")
    /\ IF codes[requests[b].arg] = "unused" THEN Goto(b, "spend") /\ UNCHANGED throttle ELSE Failed(b)
    /\ UNCHANGED <<accountVars, resets, challenges, issued, made, clock, accepted, raced>>
SpendWhatever(b) ==
    /\ At(b, "spend")
    /\ codes' = [codes EXCEPT ![requests[b].arg] = "used"]
    /\ Accept(requests[b].arg) /\ Passed(b)
    /\ UNCHANGED <<account, totp, passkeys, resets, challenges, issued, made, clock, raced>>
\* mark_recovery_code_used: only the request that finds it unused goes on.
mark_recovery_code_used(b) ==
    /\ At(b, "spend")
    /\ IF codes[requests[b].arg] = "unused"
       THEN /\ codes' = [codes EXCEPT ![requests[b].arg] = "used"]
            /\ Accept(requests[b].arg) /\ Passed(b)
       ELSE Failed(b) /\ UNCHANGED <<codes, accepted>>
    /\ UNCHANGED <<account, totp, passkeys, resets, challenges, issued, made, clock, raced>>

\* The passkey is checked against the keys of the challenge.
verify_webauthn_path(b) ==
    /\ At(b, "webauthn")
    /\ IF requests[b].arg \in requests[b].keys THEN Passed(b) ELSE Failed(b)
    /\ UNCHANGED <<accountVars, resets, challenges, issued, made, clock, accepted, raced>>

-----------------------------------------------------------------------------
(* Enrolling and removing factors.  Each ends with recompute_user_mfa_enrolled, *)
(* which reads the factors and writes the flag in two statements.               *)

Enrols(b) == Arrives(b) /\ UNCHANGED <<storeVars, issued, clock, accepted>>
Recompute(b) == requests' = [requests EXCEPT ![b] = [NoRequest EXCEPT !.pc = "recompute"]]

\* A row that was deleted; its secret is not made again (generate_totp_secret_base32).
Gone == [st |-> "gone", last |-> Never]
\* An abandoned setup goes, a confirmed authenticator stays.
begin_totp_setup(t) ==
    totp' = [x \in Authenticators |->
               CASE x = t -> [st |-> "pending", last |-> Never]
                 [] totp[x].st = "pending" -> Gone
                 [] OTHER -> totp[x]]
finalize_totp_confirmation(t) == totp' = [totp EXCEPT ![t] = [st |-> "confirmed", last |-> Never]]
delete_user_totp(t) ==
    totp[t].st \in {"pending", "confirmed"} /\ totp' = [totp EXCEPT ![t] = Gone]
insert_user_webauthn(k) == k \notin passkeys /\ passkeys' = passkeys \cup {k}
delete_user_webauthn(k) == k \in passkeys /\ passkeys' = passkeys \ {k}

totp_setup(b, t) ==
    /\ Enrols(b) /\ AuthUser /\ totp[t].st = "none"
    /\ begin_totp_setup(t)
    /\ UNCHANGED <<account, passkeys, codes, requests>>

\* totp_confirm: the watermark starts again.  The first factor brings new recovery
\* codes, once the flag is written.
totp_confirm(b, t) ==
    /\ Enrols(b) /\ AuthUser /\ totp[t].st = "pending"
    /\ finalize_totp_confirmation(t)
    /\ requests' = [requests EXCEPT ![b] =
          [NoRequest EXCEPT !.pc = "recompute", !.arg = IF account.enrolled THEN "none" ELSE "codes"]]
    /\ UNCHANGED <<account, passkeys, codes>>

\* totp_disable, by the member, and remove_user_totp, by an administrator.
totp_disable(b, t) ==
    /\ Enrols(b) /\ AuthUser /\ delete_user_totp(t)
    /\ Recompute(b)
    /\ UNCHANGED <<account, passkeys, codes>>
remove_user_totp(b, t) ==
    /\ Enrols(b) /\ delete_user_totp(t)
    /\ Recompute(b)
    /\ UNCHANGED <<account, passkeys, codes>>

\* webauthn_register_begin and _finish, the ceremony between them taken as done.
webauthn_register_finish(b, k) ==
    /\ Enrols(b) /\ AuthUser /\ insert_user_webauthn(k)
    /\ Recompute(b)
    /\ UNCHANGED <<account, totp, codes>>
webauthn_remove(b, k) ==
    /\ Enrols(b) /\ AuthUser /\ delete_user_webauthn(k)
    /\ Recompute(b)
    /\ UNCHANGED <<account, totp, codes>>
remove_user_webauthn(b, k) ==
    /\ Enrols(b) /\ delete_user_webauthn(k)
    /\ Recompute(b)
    /\ UNCHANGED <<account, totp, codes>>

recompute_user_mfa_enrolled(b) ==
    /\ At(b, "recompute")
    /\ requests' = [requests EXCEPT ![b].pc = "flag", ![b].enrolled = has_totp \/ has_webauthn]
    /\ UNCHANGED <<accountVars, storeVars, issued, made, clock, accepted, raced>>
set_user_mfa_enrolled(b) ==
    /\ At(b, "flag")
    /\ account' = [account EXCEPT !.enrolled = requests[b].enrolled]
    /\ IF requests[b].arg = "codes" THEN Goto(b, "codes") ELSE Answer(b)
    /\ UNCHANGED <<totp, passkeys, codes, storeVars, issued, made, clock, accepted, raced>>

\* replace_user_recovery_codes: new codes, one at most under each name here.
replace_user_recovery_codes ==
    \E fresh \in {c \in RecoveryCodes : codes[c] = "none"} :
        codes' = [c \in RecoveryCodes |-> IF c = fresh THEN "unused"
                                          ELSE IF codes[c] = "unused" THEN "used" ELSE codes[c]]
FirstCodes(b) ==
    /\ At(b, "codes") /\ replace_user_recovery_codes /\ Answer(b)
    /\ UNCHANGED <<account, totp, passkeys, storeVars, issued, made, clock, accepted, raced>>
recovery_regenerate(b) ==
    /\ Enrols(b) /\ AuthUser /\ replace_user_recovery_codes
    /\ UNCHANGED <<account, totp, passkeys, requests>>

\* reset_user_mfa, one transaction.
reset_user_mfa(b) ==
    /\ Enrols(b)
    /\ totp' = [t \in Authenticators |-> IF totp[t].st = "none" THEN totp[t] ELSE Gone]
    /\ passkeys' = {} /\ codes' = [c \in RecoveryCodes |-> IF codes[c] = "unused" THEN "used" ELSE codes[c]]
    /\ account' = [account EXCEPT !.enrolled = FALSE]
    /\ UNCHANGED requests

-----------------------------------------------------------------------------
(* Passwords. *)

\* password_reset_request: every request counts against the address, and a new
\* link spends the ones before it (create_password_reset_token).
create_password_reset_token(r) ==
    resets' = [x \in ResetLinks |->
                 IF x = r THEN [st |-> "live", until |-> clock + ResetTtl]
                 ELSE IF resets[x].st = "live" THEN [resets[x] EXCEPT !.st = "spent"] ELSE resets[x]]
password_reset_request(b, r) ==
    /\ Arrives(b) /\ check_attempt("reset") /\ resets[r].st = "none"
    /\ throttle' = [cleaned EXCEPT !["reset"] = counted(@)]
    /\ create_password_reset_token(r)
    /\ UNCHANGED <<accountVars, challenges, issued, requests, clock, accepted>>

\* password_reset_consume claims the link in one statement ...
claim_password_reset_token(r) ==
    /\ resets[r].st = "live" /\ clock < resets[r].until
    /\ resets' = [resets EXCEPT ![r].st = "spent"]
password_reset_consume(b, r, new) ==
    /\ Arrives(b) /\ claim_password_reset_token(r)
    /\ Accept(r)
    /\ requests' = [requests EXCEPT ![b] = [NoRequest EXCEPT !.pc = "set", !.password = new]]
    /\ UNCHANGED <<accountVars, challenges, throttle, issued, clock>>
change_own_password(b, new) ==
    /\ Arrives(b) /\ AuthUser
    /\ requests' = [requests EXCEPT ![b] = [NoRequest EXCEPT !.pc = "set", !.password = new]]
    /\ UNCHANGED <<accountVars, storeVars, issued, clock, accepted>>
\* ... and update_user writes the password, moving token_version with it.
VersionKept(b) ==
    /\ At(b, "set")
    /\ account' = [account EXCEPT !.password = requests[b].password]
    /\ Answer(b)
    /\ UNCHANGED <<totp, passkeys, codes, storeVars, issued, made, clock, accepted, raced>>
SetPassword(b) ==
    /\ At(b, "set")
    /\ account' = [account EXCEPT !.password = requests[b].password, !.version = @ + 1]
    /\ Answer(b)
    /\ UNCHANGED <<totp, passkeys, codes, storeVars, issued, made, clock, accepted, raced>>

\* deactivate_user and activate_user, by an administrator.
set_active(b, active) ==
    /\ Enrols(b) /\ account.active # active
    /\ account' = [account EXCEPT !.active = active]
    /\ UNCHANGED <<totp, passkeys, codes, requests>>

\* A request dies with a database error.
RequestFails(b) ==
    /\ ~ At(b, "idle") /\ made < MaxRequests
    /\ made' = made + 1 /\ raced' = TRUE
    /\ Answer(b)
    /\ UNCHANGED <<accountVars, storeVars, issued, clock, accepted>>

LoginTick == clock < MaxTime /\ clock' = clock + 1
             /\ UNCHANGED <<accountVars, storeVars, issued, requests, made, accepted, raced>>

-----------------------------------------------------------------------------
LoginNext ==
    \/ LoginTick
    \/ \E b \in Browsers :
        \/ \E p \in Passwords \cup {WrongPassword} : login(b, p)
        \/ login_checked(b) \/ issue_token(b) \/ build_login_challenge(b)
        \/ \E c \in ChallengeTokens :
              \/ \E code \in Authenticators \X Steps : verify_login(b, c, "totp", code)
              \/ \E code \in RecoveryCodes : verify_login(b, c, "recovery", code)
              \/ \E k \in Passkeys : verify_login(b, c, "webauthn", k)
        \/ verify_totp_path(b) \/ update_totp_last_used_step(b)
        \/ verify_recovery_path(b) \/ mark_recovery_code_used(b) \/ verify_webauthn_path(b)
        \/ \E t \in Authenticators : \/ totp_setup(b, t) \/ totp_confirm(b, t)
                                     \/ totp_disable(b, t) \/ remove_user_totp(b, t)
        \/ \E k \in Passkeys : \/ webauthn_register_finish(b, k)
                               \/ webauthn_remove(b, k) \/ remove_user_webauthn(b, k)
        \/ recompute_user_mfa_enrolled(b) \/ set_user_mfa_enrolled(b) \/ FirstCodes(b)
        \/ recovery_regenerate(b) \/ reset_user_mfa(b)
        \/ \E r \in ResetLinks : \/ password_reset_request(b, r)
                                 \/ \E p \in Passwords : password_reset_consume(b, r, p)
        \/ \E p \in Passwords : change_own_password(b, p)
        \/ SetPassword(b)
        \/ \E a \in BOOLEAN : set_active(b, a)
        \/ RequestFails(b)

LoginSpec == LoginInit /\ [][LoginNext]_loginVars

-----------------------------------------------------------------------------
(* Properties. *)

\* A recovery code lets somebody in once, though two requests have both read it
\* unused (mark_recovery_code_used).
RecoveryCodeWorksOnce == \A c \in RecoveryCodes : accepted[c] <= 1

\* Of the reset links ever mailed at most one can still set a password, and none
\* sets two: asking again kills the older link, expired or not
\* (create_password_reset_token, claim_password_reset_token).
OneResetLinkAtMost ==
    /\ Cardinality({r \in ResetLinks : resets[r].st = "live"}) <= 1
    /\ \A r \in ResetLinks : accepted[r] <= 1

\* Setting a password ends every session that was opened with an older one: a
\* login that read the account before the change is issued a dead token
\* (update_user, get_user_from_token).
PasswordChangeEndsSessions ==
    \A s \in issued : (usable(s) /\ s.factor = "none") => s.password = account.password

\* A TOTP code lets somebody in once, unless requests overlap (verify_totp_path).
TotpCodeWorksOnce ==
    ~ raced => \A t \in Authenticators, s \in Steps :
                  totp[t].st = "confirmed" => accepted[<<t, s>>] <= 1

\* Between requests the account asks for a second factor exactly when it has one,
\* whatever was set up, removed or reset in between, unless requests overlapped
\* or failed (recompute_user_mfa_enrolled).
EnrolledMatchesFactors ==
    (~ raced /\ \A b \in Browsers : At(b, "idle"))
        => (account.enrolled <=> has_totp \/ has_webauthn)

\* A locked account is not guessed at: no more wrong guesses than the limit, and
\* those already past the check (check_attempt, record_failed_attempt).
GuessesAreThrottled ==
    \A i \in Identifiers : throttle[i].attempts <= ThrottleAttempts + Cardinality(Browsers) - 1

\* What is presented once is good once: recovery codes, reset links and TOTP codes, though each is compared in one
\* statement and spent in another.
SecretsAreSpentOnce == RecoveryCodeWorksOnce /\ OneResetLinkAtMost /\ TotpCodeWorksOnce

\* The account keeps its guard through every order of changes to it: old sessions end with the old password, the
\* second factor is asked for while there is one, and guessing is bounded.
AccountIsGuarded == PasswordChangeEndsSessions /\ EnrolledMatchesFactors /\ GuessesAreThrottled
=============================================================================
