---------------------------- MODULE Login_proofs ----------------------------
(***************************************************************************)
(* Proofs about signing in, for every number of requests at once and of    *)
(* secrets of each kind.                                                   *)
(***************************************************************************)
EXTENDS Login, FiniteSetTheorems, TLAPS

-----------------------------------------------------------------------------
(* Types *)

\* Where a request is that the throttle let through and that it has not heard
\* of again.
Checked(id) ==
    CASE id = "login" -> {"password"}
      [] id = "mfa" -> {"totp", "mark", "recovery", "spend", "webauthn"}
      [] OTHER -> {}

Guesses == Passwords \cup {WrongPassword}
Factors == {"none", "totp", "recovery", "webauthn"}
Requests ==
    [pc : {"idle", "password", "challenge", "issue", "totp", "mark", "recovery", "spend", "webauthn",
           "recompute", "flag", "codes", "set"},
     arg : {"none", "codes"} \cup (Authenticators \X Steps) \cup RecoveryCodes \cup Passkeys,
     version : Nat, password : Guesses, factor : Factors, keys : SUBSET Passkeys, enrolled : BOOLEAN]
\* A request carries what its position needs.
Fits(r) ==
    /\ r.pc \in {"totp", "mark"} => r.arg \in Authenticators \X Steps
    /\ r.pc \in {"recovery", "spend"} => r.arg \in RecoveryCodes
    /\ r.pc \in {"totp", "mark", "recovery", "spend", "webauthn"} => r.factor # "none"
Entries == [attempts : Nat, last : Int, until : Int]

StoresTyped ==
    /\ account \in [active : BOOLEAN, password : Guesses, version : Nat, enrolled : BOOLEAN]
    /\ totp \in [Authenticators -> [st : {"none", "pending", "confirmed", "gone"}, last : Int]]
    /\ codes \in [RecoveryCodes -> {"none", "unused", "used"}]
    /\ resets \in [ResetLinks -> [st : {"none", "live", "spent"}, until : Int]]
    /\ accepted \in [Secrets -> Nat]
    /\ issued \subseteq [version : Nat, password : Guesses, factor : Factors]
KeysTyped ==
    /\ passkeys \subseteq Passkeys
    /\ challenges \in [ChallengeTokens -> [st : {"none", "live"}, until : Int, keys : SUBSET Passkeys]]
RequestsTyped ==
    /\ requests \in [Browsers -> Requests] /\ \A b \in Browsers : Fits(requests[b])
    /\ raced \in BOOLEAN /\ clock \in Nat
    /\ throttle \in [Identifiers -> Entries]
LoginTypeOK == StoresTyped /\ KeysTyped /\ RequestsTyped

\* The steps of one request.
StepOf(b) ==
    \/ \E p \in Passwords \cup {WrongPassword} : login(b, p)
    \/ login_checked(b) \/ issue_token(b) \/ build_login_challenge(b)
    \/ \E c \in ChallengeTokens :
          \/ \E code \in Authenticators \X Steps : verify_login(b, c, "totp", code)
          \/ \E code \in RecoveryCodes : verify_login(b, c, "recovery", code)
          \/ \E k \in Passkeys : verify_login(b, c, "webauthn", k)
    \/ verify_totp_path(b) \/ update_totp_last_used_step(b)
    \/ verify_recovery_path(b) \/ mark_recovery_code_used(b) \/ verify_webauthn_path(b)
    \/ \E t \in Authenticators : \/ totp_setup(b, t) \/ totp_confirm(b, t)
                                 \/ totp_disable(b, t) \/ remove_user_totp(b, t)
    \/ \E k \in Passkeys : \/ webauthn_register_finish(b, k)
                           \/ webauthn_remove(b, k) \/ remove_user_webauthn(b, k)
    \/ recompute_user_mfa_enrolled(b) \/ set_user_mfa_enrolled(b) \/ FirstCodes(b)
    \/ recovery_regenerate(b) \/ reset_user_mfa(b)
    \/ \E r \in ResetLinks : \/ password_reset_request(b, r)
                             \/ \E p \in Passwords : password_reset_consume(b, r, p)
    \/ \E p \in Passwords : change_own_password(b, p)
    \/ SetPassword(b)
    \/ \E a \in BOOLEAN : set_active(b, a)
    \/ RequestFails(b)

\* A step is the clock's or some request's.
LEMMA StepsOfRequests == LoginNext <=> LoginTick \/ \E b \in Browsers : StepOf(b)
BY DEF LoginNext, StepOf

-----------------------------------------------------------------------------
(* What a step makes of the request that takes it: r, of which the parts of  *)
(* the proof need to know where it stands and what it has just read.         *)

Becomes(b, r) ==
    /\ r \in Requests /\ Fits(r) /\ requests' = [requests EXCEPT ![b] = r]
    /\ \/ At(b, "idle") /\ raced' = (raced \/ \E o \in Browsers \ {b} : ~ At(o, "idle"))
       \/ ~ At(b, "idle") /\ (raced' = raced \/ raced' = TRUE)
    /\ r.pc = "mark" => /\ UNCHANGED <<totp, accepted>>
                        /\ totp[r.arg[1]].st = "confirmed" /\ ~ replayed(r.arg[1], r.arg[2])
    /\ r.pc = "issue" /\ r.factor = "none" =>
           /\ UNCHANGED account
           /\ r.version = account.version /\ r.password = account.password
    /\ r.pc = "flag" => UNCHANGED <<totp, passkeys>> /\ r.enrolled = (has_totp \/ has_webauthn)
    /\ \A id \in Identifiers : r.pc \in Checked(id) =>
           requests[b].pc \in Checked(id) \/ (check_attempt(id) /\ throttle' = cleaned)

\* The request of nobody.
LEMMA NoRequestTyped == NoRequest \in Requests /\ Fits(NoRequest) /\ NoRequest.pc = "idle" /\ NoRequest.factor = "none"
BY LoginAssumption DEF NoRequest, Requests, Fits, Guesses, Factors

\* A request that is answered stands nowhere.
LEMMA AnswerBecomes ==
    ASSUME LoginTypeOK, NEW b \in Browsers, Answer(b), ~ At(b, "idle"), raced' = raced \/ raced' = TRUE
    PROVE  Becomes(b, NoRequest)
BY NoRequestTyped DEF Answer, Becomes, Checked, Identifiers

\* Nor does one that is served in one step.
LEMMA ServedBecomes ==
    ASSUME LoginTypeOK, NEW b \in Browsers, Arrives(b), UNCHANGED requests
    PROVE  Becomes(b, requests[b]) /\ requests[b].pc = "idle"
<1>1. requests[b] \in Requests /\ Fits(requests[b]) /\ requests' = [requests EXCEPT ![b] = requests[b]]
      /\ requests[b].pc = "idle"
  BY DEF LoginTypeOK, RequestsTyped, Arrives, At
<1> QED  BY <1>1 DEF Becomes, Arrives, At, Checked, Identifiers

\* A request that starts, with r.
LEMMA ArrivalBecomes ==
    ASSUME LoginTypeOK, NEW b \in Browsers, Arrives(b), NEW r, requests' = [requests EXCEPT ![b] = r],
           r \in Requests, Fits(r), r.pc \notin {"mark", "issue", "flag"},
           \A id \in Identifiers : r.pc \in Checked(id) => check_attempt(id) /\ throttle' = cleaned
    PROVE  Becomes(b, r)
BY DEF Becomes, Arrives, At

\* A request that goes on as it is, elsewhere.
LEMMA GotoBecomes ==
    ASSUME LoginTypeOK, NEW b \in Browsers, ~ At(b, "idle"), UNCHANGED raced,
           NEW pc \in {"issue", "mark", "spend", "codes"}, Goto(b, pc),
           pc = "issue" => requests[b].factor # "none",
           pc = "mark" => /\ UNCHANGED <<totp, accepted>> /\ requests[b].arg \in Authenticators \X Steps
                          /\ totp[requests[b].arg[1]].st = "confirmed"
                          /\ ~ replayed(requests[b].arg[1], requests[b].arg[2]),
           pc = "spend" => requests[b].arg \in RecoveryCodes,
           pc \in {"mark", "spend"} => requests[b].pc \in Checked("mfa")
    PROVE  \E r : Becomes(b, r) /\ r.pc = pc /\ r.arg = requests[b].arg
<1> DEFINE q == requests[b]
           r == [q EXCEPT !.pc = pc]
<1>1. q \in Requests /\ Fits(q)
  BY DEF LoginTypeOK, RequestsTyped
<1>2. requests' = [requests EXCEPT ![b] = r]
  BY DEF Goto
<1>3. /\ r \in Requests /\ r.pc = pc /\ r.arg = q.arg /\ r.version = q.version /\ r.password = q.password
      /\ r.factor = q.factor /\ r.enrolled = q.enrolled
  BY <1>1 DEF Requests
<1>4. Fits(r)
  BY <1>1, <1>3 DEF Fits, Checked
<1>5. \A id \in Identifiers : r.pc \in Checked(id) => id = "mfa" /\ pc \in {"mark", "spend"}
  BY <1>3 DEF Checked, Identifiers
<1> HIDE DEF r
<1>6. Becomes(b, r)
  BY <1>2, <1>3, <1>4, <1>5 DEF Becomes
<1> QED  BY <1>3, <1>6

\* Every step of a request is one of these.
LEMMA StepBecomes ==
    ASSUME LoginTypeOK, NEW b \in Browsers, StepOf(b)
    PROVE  \E r : Becomes(b, r)
<1> USE DEF At
<1> DEFINE q == requests[b]
<1>1. q \in Requests /\ Fits(q) /\ NoRequest \in Requests
  BY NoRequestTyped DEF LoginTypeOK, RequestsTyped
<1>2. ASSUME NEW p \in Guesses, login(b, p) PROVE \E r : Becomes(b, r)
  <2> DEFINE r == [NoRequest EXCEPT !.pc = "password", !.password = p]
  <2>1. r \in Requests /\ Fits(r) /\ r.pc = "password"
    BY <1>1, <1>2 DEF Requests, Fits
  <2>2. Arrives(b) /\ requests' = [requests EXCEPT ![b] = r] /\ check_attempt("login") /\ throttle' = cleaned
    BY <1>2 DEF login
  <2>3. \A id \in Identifiers : r.pc \in Checked(id) => id = "login"
    BY <2>1 DEF Checked, Identifiers
  <2> HIDE DEF r
  <2> QED  BY <2>1, <2>2, <2>3, ArrivalBecomes
<1>3. CASE login_checked(b)
  <2>1. CASE Answer(b)
    BY <1>3, <2>1, AnswerBecomes DEF login_checked
  <2>2. CASE ~ Answer(b)
    <3> DEFINE r == [q EXCEPT !.version = account.version, !.pc = IF account.enrolled THEN "challenge" ELSE "issue"]
    <3>1. /\ q.pc = "password" /\ q.password = account.password /\ UNCHANGED <<account, raced>>
          /\ requests' = [requests EXCEPT ![b].version = account.version,
                              ![b].pc = IF account.enrolled THEN "challenge" ELSE "issue"]
      BY <1>3, <2>2 DEF login_checked, authenticate_user, accountVars
    <3>2. requests' = [requests EXCEPT ![b] = r]
      BY <1>1, <3>1 DEF LoginTypeOK, RequestsTyped
    <3>3. account.version \in Nat /\ account.enrolled \in BOOLEAN
      BY DEF LoginTypeOK, StoresTyped
    <3>4. /\ r \in Requests /\ r.pc \in {"challenge", "issue"} /\ r.version = account.version
          /\ r.password = q.password
      BY <1>1, <3>3 DEF Requests
    <3> HIDE DEF r
    <3>5. Fits(r) /\ \A id \in Identifiers : r.pc \notin Checked(id)
      BY <3>4 DEF Fits, Checked, Identifiers
    <3> QED  BY <3>1, <3>2, <3>4, <3>5 DEF Becomes
  <2> QED  BY <2>1, <2>2
<1>4. CASE issue_token(b)
  BY <1>4, AnswerBecomes DEF issue_token
<1>5. CASE build_login_challenge(b)
  BY <1>5, AnswerBecomes DEF build_login_challenge
<1>6. ASSUME NEW c \in ChallengeTokens, NEW method \in {"totp", "recovery", "webauthn"}, NEW arg,
             method = "totp" => arg \in Authenticators \X Steps, method = "recovery" => arg \in RecoveryCodes,
             method = "webauthn" => arg \in Passkeys, verify_login(b, c, method, arg)
      PROVE  \E r : Becomes(b, r)
  <2>1. CASE UNCHANGED requests
    BY <1>6, <2>1, ServedBecomes DEF verify_login
  <2>2. CASE ~ UNCHANGED requests
    <3> DEFINE r == [NoRequest EXCEPT !.pc = method, !.arg = arg, !.factor = method,
                              !.version = account.version, !.password = account.password,
                              !.keys = challenges[c].keys]
    <3>1. /\ Arrives(b) /\ check_attempt("mfa") /\ throttle' = cleaned
          /\ requests' = [requests EXCEPT ![b] = r]
      BY <1>6, <2>2 DEF verify_login
    <3>2. account.version \in Nat /\ account.password \in Guesses /\ challenges[c].keys \in SUBSET Passkeys
      BY DEF LoginTypeOK, StoresTyped, KeysTyped
    <3>3. r \in Requests /\ r.pc = method /\ r.arg = arg /\ r.factor = method
      BY <1>1, <1>6, <3>2 DEF Requests, Factors
    <3> HIDE DEF r
    <3>4. Fits(r) /\ \A id \in Identifiers : r.pc \in Checked(id) => id = "mfa"
      BY <1>6, <3>3 DEF Fits, Checked, Identifiers
    <3> QED  BY <3>1, <3>3, <3>4, ArrivalBecomes
  <2> QED  BY <2>1, <2>2
<1>7. CASE verify_totp_path(b)
  <2>1. CASE Answer(b)
    BY <1>7, <2>1, AnswerBecomes DEF verify_totp_path
  <2>2. CASE ~ Answer(b)
    <3>1. /\ q.pc = "totp" /\ Goto(b, "mark") /\ UNCHANGED <<raced, totp, accepted>>
          /\ totp[q.arg[1]].st = "confirmed" /\ ~ replayed(q.arg[1], q.arg[2])
      BY <1>7, <2>2 DEF verify_totp_path, Failed, accountVars
    <3>2. q.arg \in Authenticators \X Steps /\ q.pc \in Checked("mfa")
      BY <1>1, <3>1 DEF Fits, Checked
    <3> QED  BY <3>1, <3>2, GotoBecomes
  <2> QED  BY <2>1, <2>2
<1>8. ASSUME Goto(b, "issue"), q.pc \in {"totp", "mark", "recovery", "spend", "webauthn"}, UNCHANGED raced
      PROVE  \E r : Becomes(b, r)
  <2>1. q.factor # "none" /\ q.pc # "idle"
    BY <1>1, <1>8 DEF Fits
  <2> QED  BY <1>8, <2>1, GotoBecomes
<1>9. CASE update_totp_last_used_step(b)
  <2>1. q.pc = "mark" /\ UNCHANGED raced /\ (Answer(b) \/ Goto(b, "issue"))
    BY <1>9 DEF update_totp_last_used_step, Failed, Passed
  <2> QED  BY <1>8, <2>1, AnswerBecomes
<1>10. CASE verify_recovery_path(b)
  <2>1. q.pc = "recovery" /\ UNCHANGED raced /\ (Answer(b) \/ Goto(b, "spend"))
    BY <1>10 DEF verify_recovery_path, Failed
  <2>2. q.arg \in RecoveryCodes /\ q.pc \in Checked("mfa")
    BY <1>1, <2>1 DEF Fits, Checked
  <2> QED  BY <2>1, <2>2, AnswerBecomes, GotoBecomes
<1>11. CASE mark_recovery_code_used(b)
  <2>1. q.pc = "spend" /\ UNCHANGED raced /\ (Answer(b) \/ Goto(b, "issue"))
    BY <1>11 DEF mark_recovery_code_used, Failed, Passed
  <2> QED  BY <1>8, <2>1, AnswerBecomes
<1>12. CASE verify_webauthn_path(b)
  <2>1. q.pc = "webauthn" /\ UNCHANGED raced /\ (Answer(b) \/ Goto(b, "issue"))
    BY <1>12 DEF verify_webauthn_path, Failed, Passed
  <2> QED  BY <1>8, <2>1, AnswerBecomes
<1>13. ASSUME Arrives(b), NEW r \in Requests, r.pc = "recompute", requests' = [requests EXCEPT ![b] = r]
       PROVE  \E x : Becomes(b, x)
  <2>1. Fits(r) /\ \A id \in Identifiers : r.pc \notin Checked(id)
    BY <1>13 DEF Fits, Checked, Identifiers
  <2> QED  BY <1>13, <2>1, ArrivalBecomes
<1>14. ASSUME Arrives(b), Recompute(b) PROVE \E r : Becomes(b, r)
  <2> DEFINE r == [NoRequest EXCEPT !.pc = "recompute"]
  <2>1. r \in Requests /\ r.pc = "recompute"
    BY <1>1 DEF Requests
  <2>2. requests' = [requests EXCEPT ![b] = r]
    BY <1>14 DEF Recompute
  <2> HIDE DEF r
  <2> QED  BY <1>13, <1>14, <2>1, <2>2
<1>15. ASSUME NEW t \in Authenticators,
              totp_setup(b, t) \/ totp_confirm(b, t) \/ totp_disable(b, t) \/ remove_user_totp(b, t)
       PROVE  \E r : Becomes(b, r)
  <2>1. CASE totp_setup(b, t)
    BY <2>1, ServedBecomes DEF totp_setup, Enrols
  <2>2. CASE totp_confirm(b, t)
    <3> DEFINE r == [NoRequest EXCEPT !.pc = "recompute", !.arg = IF account.enrolled THEN "none" ELSE "codes"]
    <3>1. r \in Requests /\ r.pc = "recompute"
      BY <1>1 DEF Requests
    <3>2. Arrives(b) /\ requests' = [requests EXCEPT ![b] = r]
      BY <2>2 DEF totp_confirm, Enrols
    <3> HIDE DEF r
    <3> QED  BY <1>13, <3>1, <3>2
  <2>3. CASE totp_disable(b, t) \/ remove_user_totp(b, t)
    BY <1>14, <2>3 DEF totp_disable, remove_user_totp, Enrols
  <2> QED  BY <1>15, <2>1, <2>2, <2>3
<1>16. ASSUME NEW k \in Passkeys,
              webauthn_register_finish(b, k) \/ webauthn_remove(b, k) \/ remove_user_webauthn(b, k)
       PROVE  \E r : Becomes(b, r)
  BY <1>14, <1>16 DEF webauthn_register_finish, webauthn_remove, remove_user_webauthn, Enrols
<1>17. CASE recompute_user_mfa_enrolled(b)
  <2> DEFINE has == has_totp \/ has_webauthn
             r == [q EXCEPT !.pc = "flag", !.enrolled = has]
  <2>1. /\ q.pc = "recompute" /\ UNCHANGED <<raced, totp, passkeys>>
        /\ requests' = [requests EXCEPT ![b].pc = "flag", ![b].enrolled = has]
    BY <1>17 DEF recompute_user_mfa_enrolled, accountVars
  <2>2. has \in BOOLEAN
    OBVIOUS
  <2> HIDE DEF has
  <2>3. requests' = [requests EXCEPT ![b] = r]
    BY <1>1, <2>1 DEF LoginTypeOK, RequestsTyped
  <2>4. r \in Requests /\ r.pc = "flag" /\ r.enrolled = has
    BY <1>1, <2>2 DEF Requests
  <2> HIDE DEF r
  <2>5. Fits(r) /\ \A id \in Identifiers : r.pc \notin Checked(id)
    BY <2>4 DEF Fits, Checked, Identifiers
  <2> QED  BY <2>1, <2>3, <2>4, <2>5 DEF Becomes, has
<1>18. CASE set_user_mfa_enrolled(b)
  <2>1. q.pc = "flag" /\ UNCHANGED raced /\ (Answer(b) \/ Goto(b, "codes"))
    BY <1>18 DEF set_user_mfa_enrolled
  <2> QED  BY <2>1, AnswerBecomes, GotoBecomes
<1>19. CASE FirstCodes(b)
  BY <1>19, AnswerBecomes DEF FirstCodes
<1>20. CASE recovery_regenerate(b) \/ reset_user_mfa(b)
  BY <1>20, ServedBecomes DEF recovery_regenerate, reset_user_mfa, Enrols
<1>21. ASSUME NEW x \in ResetLinks, password_reset_request(b, x) PROVE \E r : Becomes(b, r)
  BY <1>21, ServedBecomes DEF password_reset_request
<1>22. ASSUME NEW p \in Passwords, Arrives(b),
              requests' = [requests EXCEPT ![b] = [NoRequest EXCEPT !.pc = "set", !.password = p]]
       PROVE  \E r : Becomes(b, r)
  <2> DEFINE r == [NoRequest EXCEPT !.pc = "set", !.password = p]
  <2>1. r \in Requests /\ r.pc = "set"
    BY <1>1 DEF Requests, Guesses
  <2>2. requests' = [requests EXCEPT ![b] = r]
    BY <1>22
  <2> HIDE DEF r
  <2>3. Fits(r) /\ \A id \in Identifiers : r.pc \notin Checked(id)
    BY <2>1 DEF Fits, Checked, Identifiers
  <2> QED  BY <1>22, <2>1, <2>2, <2>3, ArrivalBecomes
<1>23. ASSUME NEW p \in Passwords, change_own_password(b, p) \/ \E x \in ResetLinks : password_reset_consume(b, x, p)
       PROVE  \E r : Becomes(b, r)
  BY <1>22, <1>23 DEF change_own_password, password_reset_consume
<1>24. CASE SetPassword(b)
  BY <1>24, AnswerBecomes DEF SetPassword
<1>25. ASSUME NEW a \in BOOLEAN, set_active(b, a) PROVE \E r : Becomes(b, r)
  BY <1>25, ServedBecomes DEF set_active, Enrols
<1>26. CASE RequestFails(b)
  BY <1>26, AnswerBecomes DEF RequestFails
<1> QED  BY <1>2, <1>3, <1>4, <1>5, <1>6, <1>7, <1>9, <1>10, <1>11, <1>12, <1>15, <1>16, <1>17, <1>18, <1>19,
            <1>20, <1>21, <1>23, <1>24, <1>25, <1>26 DEF StepOf, Guesses

-----------------------------------------------------------------------------
(* Which steps write what. *)

WritesAccount(b) == \/ set_user_mfa_enrolled(b) \/ reset_user_mfa(b) \/ SetPassword(b)
                    \/ \E a \in BOOLEAN : set_active(b, a)
WritesTotp(b) == \/ update_totp_last_used_step(b) \/ reset_user_mfa(b)
                 \/ \E t \in Authenticators : \/ totp_setup(b, t) \/ totp_confirm(b, t)
                                              \/ totp_disable(b, t) \/ remove_user_totp(b, t)
WritesPasskeys(b) == \/ reset_user_mfa(b)
                     \/ \E k \in Passkeys : \/ webauthn_register_finish(b, k)
                                            \/ webauthn_remove(b, k) \/ remove_user_webauthn(b, k)
WritesCodes(b) == mark_recovery_code_used(b) \/ FirstCodes(b) \/ recovery_regenerate(b) \/ reset_user_mfa(b)
WritesResets(b) == \E r \in ResetLinks : \/ password_reset_request(b, r)
                                         \/ \E p \in Passwords : password_reset_consume(b, r, p)
WritesAccepted(b) == \/ update_totp_last_used_step(b) \/ mark_recovery_code_used(b)
                     \/ \E r \in ResetLinks, p \in Passwords : password_reset_consume(b, r, p)
VerifiesLogin(b) ==
    \E c \in ChallengeTokens :
        \/ \E code \in Authenticators \X Steps : verify_login(b, c, "totp", code)
        \/ \E code \in RecoveryCodes : verify_login(b, c, "recovery", code)
        \/ \E k \in Passkeys : verify_login(b, c, "webauthn", k)

\* What the other steps leave alone.
LEMMA Untouched ==
    ASSUME NEW b \in Browsers, StepOf(b)
    PROVE  /\ WritesAccount(b) \/ UNCHANGED account
           /\ WritesTotp(b) \/ UNCHANGED totp
           /\ WritesPasskeys(b) \/ UNCHANGED passkeys
           /\ WritesCodes(b) \/ UNCHANGED codes
           /\ WritesResets(b) \/ UNCHANGED resets
           /\ WritesAccepted(b) \/ UNCHANGED accepted
           /\ build_login_challenge(b) \/ VerifiesLogin(b) \/ UNCHANGED challenges
           /\ issue_token(b) \/ UNCHANGED issued
           /\ UNCHANGED clock
<1> USE DEF login, login_checked, issue_token, build_login_challenge, verify_login, verify_totp_path,
            update_totp_last_used_step, verify_recovery_path, mark_recovery_code_used, verify_webauthn_path,
            totp_setup, totp_confirm, totp_disable, remove_user_totp, webauthn_register_finish, webauthn_remove,
            remove_user_webauthn, recompute_user_mfa_enrolled, set_user_mfa_enrolled, FirstCodes,
            recovery_regenerate, reset_user_mfa, password_reset_request, password_reset_consume,
            change_own_password, SetPassword, set_active, RequestFails, Enrols, accountVars, storeVars
<1>1. WritesAccount(b) \/ UNCHANGED account
  BY ZenonT(60) DEF StepOf, WritesAccount
<1>2. WritesTotp(b) \/ UNCHANGED totp
  BY ZenonT(60) DEF StepOf, WritesTotp
<1>3. WritesPasskeys(b) \/ UNCHANGED passkeys
  BY ZenonT(60) DEF StepOf, WritesPasskeys
<1>4. WritesCodes(b) \/ UNCHANGED codes
  BY ZenonT(60) DEF StepOf, WritesCodes
<1>5. WritesResets(b) \/ UNCHANGED resets
  BY ZenonT(60) DEF StepOf, WritesResets
<1>6. WritesAccepted(b) \/ UNCHANGED accepted
  BY ZenonT(60) DEF StepOf, WritesAccepted
<1>7. build_login_challenge(b) \/ VerifiesLogin(b) \/ UNCHANGED challenges
  BY ZenonT(60) DEF StepOf, VerifiesLogin
<1>8. issue_token(b) \/ UNCHANGED issued
  BY ZenonT(60) DEF StepOf
<1>9. UNCHANGED clock
  BY ZenonT(60) DEF StepOf
<1> QED  BY <1>1, <1>2, <1>3, <1>4, <1>5, <1>6, <1>7, <1>8, <1>9

-----------------------------------------------------------------------------

\* The secrets by kind.
LEMMA SecretsApart ==
    /\ \A c \in RecoveryCodes : c \in Secrets /\ c \notin ResetLinks /\ c \notin Authenticators \X Steps
    /\ \A r \in ResetLinks : r \in Secrets /\ r \notin RecoveryCodes /\ r \notin Authenticators \X Steps
    /\ \A x \in Authenticators \X Steps : x \in Secrets /\ x \notin RecoveryCodes /\ x \notin ResetLinks
BY SecretsAssumption DEF Secrets, Steps

\* A step keeps the types of the tables.
LEMMA StoresStep ==
    ASSUME LoginTypeOK, NEW b \in Browsers, StepOf(b)
    PROVE  StoresTyped' /\ KeysTyped'
<1> DEFINE q == requests[b]
<1>1. q \in Requests /\ Fits(q) /\ StoresTyped /\ KeysTyped /\ clock \in Nat
  BY DEF LoginTypeOK, RequestsTyped
<1>2. account' \in [active : BOOLEAN, password : Guesses, version : Nat, enrolled : BOOLEAN]
  <2>1. account \in [active : BOOLEAN, password : Guesses, version : Nat, enrolled : BOOLEAN]
    BY <1>1 DEF StoresTyped
  <2>2. q.password \in Guesses /\ q.enrolled \in BOOLEAN
    BY <1>1 DEF Requests
  <2>3. CASE set_user_mfa_enrolled(b)
    BY <2>1, <2>2, <2>3 DEF set_user_mfa_enrolled
  <2>4. CASE SetPassword(b)
    <3>1. account' = [account EXCEPT !.password = q.password, !.version = account.version + 1]
      BY <2>4 DEF SetPassword
    <3>2. account.version + 1 \in Nat
      BY <2>1
    <3> HIDE DEF q
    <3> QED  BY <2>1, <2>2, <3>1, <3>2
  <2>5. CASE reset_user_mfa(b)
    BY <2>1, <2>5 DEF reset_user_mfa
  <2>6. ASSUME NEW a \in BOOLEAN, set_active(b, a)
        PROVE  account' \in [active : BOOLEAN, password : Guesses, version : Nat, enrolled : BOOLEAN]
    BY <2>1, <2>6 DEF set_active
  <2> QED  BY <2>1, <2>3, <2>4, <2>5, <2>6, Untouched DEF WritesAccount
<1>3. totp' \in [Authenticators -> [st : {"none", "pending", "confirmed", "gone"}, last : Int]]
  <2> DEFINE Rows == [st : {"none", "pending", "confirmed", "gone"}, last : Int]
  <2>1. totp \in [Authenticators -> Rows]
    BY <1>1 DEF StoresTyped
  <2>2. Gone \in Rows
    BY DEF Gone, Never
  <2>3. CASE update_totp_last_used_step(b)
    <3>1. q.arg \in Authenticators \X Steps
      BY <1>1, <2>3 DEF update_totp_last_used_step, At, Fits
    <3>2. q.arg[1] \in Authenticators /\ q.arg[2] \in Int
      BY <3>1, LoginAssumption DEF Steps
    <3> DEFINE row == [totp[q.arg[1]] EXCEPT !.last = q.arg[2]]
    <3>3. row \in Rows
      BY <2>1, <3>2
    <3>4. UNCHANGED totp \/ totp' = [totp EXCEPT ![q.arg[1]] = row]
      BY <2>3 DEF update_totp_last_used_step
    <3> HIDE DEF Rows, row
    <3>5. \A t \in Authenticators : [totp EXCEPT ![t] = row] \in [Authenticators -> Rows]
      BY <2>1, <3>3
    <3> QED  BY <2>1, <3>2, <3>4, <3>5 DEF Rows
  <2>4. ASSUME NEW t \in Authenticators,
               totp_setup(b, t) \/ totp_confirm(b, t) \/ totp_disable(b, t) \/ remove_user_totp(b, t)
        PROVE  totp' \in [Authenticators -> Rows]
    <3>1. [st |-> "pending", last |-> Never] \in Rows /\ [st |-> "confirmed", last |-> Never] \in Rows
      BY DEF Never
    <3> HIDE DEF Rows
    <3>2. CASE totp_setup(b, t)
      BY <2>1, <2>2, <3>1, <3>2 DEF totp_setup, begin_totp_setup
    <3>3. CASE totp_confirm(b, t)
      BY <2>1, <3>1, <3>3 DEF totp_confirm, finalize_totp_confirmation
    <3>4. CASE totp_disable(b, t) \/ remove_user_totp(b, t)
      BY <2>1, <2>2, <3>4 DEF totp_disable, remove_user_totp, delete_user_totp
    <3> QED  BY <2>4, <3>2, <3>3, <3>4
  <2>5. CASE reset_user_mfa(b)
    BY <2>1, <2>2, <2>5 DEF reset_user_mfa
  <2> QED  BY <2>1, <2>3, <2>4, <2>5, Untouched DEF WritesTotp
<1>4. codes' \in [RecoveryCodes -> {"none", "unused", "used"}]
  <2>1. codes \in [RecoveryCodes -> {"none", "unused", "used"}]
    BY <1>1 DEF StoresTyped
  <2>2. replace_user_recovery_codes => codes' \in [RecoveryCodes -> {"none", "unused", "used"}]
    BY <2>1 DEF replace_user_recovery_codes
  <2>3. CASE mark_recovery_code_used(b)
    BY <2>1, <2>3 DEF mark_recovery_code_used
  <2>4. CASE FirstCodes(b) \/ recovery_regenerate(b)
    BY <2>2, <2>4 DEF FirstCodes, recovery_regenerate
  <2>5. CASE reset_user_mfa(b)
    BY <2>1, <2>5 DEF reset_user_mfa
  <2> QED  BY <2>1, <2>3, <2>4, <2>5, Untouched DEF WritesCodes
<1>5. resets' \in [ResetLinks -> [st : {"none", "live", "spent"}, until : Int]]
  <2> DEFINE Rows == [st : {"none", "live", "spent"}, until : Int]
  <2>1. resets \in [ResetLinks -> Rows]
    BY <1>1 DEF StoresTyped
  <2>2. \A r \in ResetLinks : [resets[r] EXCEPT !.st = "spent"] \in Rows
    BY <2>1
  <2>3. [st |-> "live", until |-> clock + ResetTtl] \in Rows
    BY <1>1, LoginAssumption
  <2> HIDE DEF Rows
  <2>4. ASSUME NEW r \in ResetLinks, password_reset_request(b, r) PROVE resets' \in [ResetLinks -> Rows]
    BY <2>1, <2>2, <2>3, <2>4 DEF password_reset_request, create_password_reset_token
  <2>5. ASSUME NEW r \in ResetLinks, NEW p \in Passwords, password_reset_consume(b, r, p)
        PROVE  resets' \in [ResetLinks -> Rows]
    <3>1. resets' = [resets EXCEPT ![r] = [resets[r] EXCEPT !.st = "spent"]]
      BY <2>5 DEF password_reset_consume, claim_password_reset_token
    <3> QED  BY <2>1, <2>2, <3>1
  <2> QED  BY <2>1, <2>4, <2>5, Untouched DEF WritesResets, Rows
<1>6. accepted' \in [Secrets -> Nat]
  <2>1. accepted \in [Secrets -> Nat]
    BY <1>1 DEF StoresTyped
  <2>2. ASSUME NEW x \in Secrets, Accept(x) PROVE accepted' \in [Secrets -> Nat]
    BY <2>1, <2>2 DEF Accept
  <2>3. CASE update_totp_last_used_step(b)
    <3>1. q.arg \in Secrets
      BY <1>1, <2>3, SecretsApart DEF update_totp_last_used_step, At, Fits
    <3> QED  BY <2>1, <2>2, <2>3, <3>1 DEF update_totp_last_used_step
  <2>4. CASE mark_recovery_code_used(b)
    <3>1. q.arg \in Secrets
      BY <1>1, <2>4, SecretsApart DEF mark_recovery_code_used, At, Fits
    <3> QED  BY <2>1, <2>2, <2>4, <3>1 DEF mark_recovery_code_used
  <2>5. ASSUME NEW r \in ResetLinks, NEW p \in Passwords, password_reset_consume(b, r, p)
        PROVE  accepted' \in [Secrets -> Nat]
    BY <2>2, <2>5, SecretsApart DEF password_reset_consume
  <2> QED  BY <2>1, <2>3, <2>4, <2>5, Untouched DEF WritesAccepted
<1>7. issued' \subseteq [version : Nat, password : Guesses, factor : Factors]
  <2>1. CASE issue_token(b)
    <3> DEFINE new == [version |-> q.version, password |-> q.password, factor |-> q.factor]
    <3>1. new \in [version : Nat, password : Guesses, factor : Factors]
      BY <1>1 DEF Requests
    <3>2. issued' = issued \cup {new}
      BY <2>1 DEF issue_token, create_token
    <3> HIDE DEF new
    <3> QED  BY <1>1, <3>1, <3>2 DEF StoresTyped
  <2> QED  BY <1>1, <2>1, Untouched DEF StoresTyped
<1>8. passkeys' \subseteq Passkeys
  <2>1. CASE reset_user_mfa(b)
    BY <2>1 DEF reset_user_mfa
  <2>2. ASSUME NEW k \in Passkeys, webauthn_register_finish(b, k) \/ webauthn_remove(b, k) \/ remove_user_webauthn(b, k)
        PROVE  passkeys' \subseteq Passkeys
    BY <1>1, <2>2 DEF KeysTyped, webauthn_register_finish, webauthn_remove, remove_user_webauthn,
                      insert_user_webauthn, delete_user_webauthn
  <2> QED  BY <1>1, <2>1, <2>2, Untouched DEF KeysTyped, WritesPasskeys
<1>9. challenges' \in [ChallengeTokens -> [st : {"none", "live"}, until : Int, keys : SUBSET Passkeys]]
  <2> DEFINE Rows == [st : {"none", "live"}, until : Int, keys : SUBSET Passkeys]
  <2>1. challenges \in [ChallengeTokens -> Rows]
    BY <1>1 DEF KeysTyped
  <2>2. \A c \in ChallengeTokens : [challenges[c] EXCEPT !.st = "none", !.keys = {}] \in Rows
    BY <2>1
  <2> DEFINE live == [st |-> "live", until |-> clock + ChallengeTtl, keys |-> passkeys]
  <2>3. /\ live \in Rows
        /\ [st |-> "none", until |-> 0, keys |-> {}] \in Rows
    BY <1>1, LoginAssumption DEF KeysTyped
  <2> HIDE DEF Rows
  <2>4. prune_expired(challenges) \in [ChallengeTokens -> Rows]
    BY <2>1, <2>2 DEF prune_expired
  <2>5. CASE build_login_challenge(b)
    <3>1. UNCHANGED challenges \/ \E c \in ChallengeTokens : challenges' = [prune_expired(challenges) EXCEPT ![c] = live]
      BY <2>5 DEF build_login_challenge, put_login
    <3> HIDE DEF live
    <3>2. \A f \in [ChallengeTokens -> Rows], c \in ChallengeTokens : [f EXCEPT ![c] = live] \in [ChallengeTokens -> Rows]
      BY <2>3
    <3> QED  BY <2>1, <2>4, <3>1, <3>2 DEF Rows
  <2>6. \A c \in ChallengeTokens : take_login(c) => challenges' \in [ChallengeTokens -> Rows]
    BY <2>3, <2>4 DEF take_login
  <2>7. VerifiesLogin(b) => \E c \in ChallengeTokens : take_login(c)
    BY DEF VerifiesLogin, verify_login
  <2> QED  BY <2>1, <2>5, <2>6, <2>7, Untouched DEF Rows
<1> QED  BY <1>2, <1>3, <1>4, <1>5, <1>6, <1>7, <1>8, <1>9 DEF StoresTyped, KeysTyped

-----------------------------------------------------------------------------
(* The throttle. *)

\* What a step of b does to the entry of id: nothing, or it is forgotten, or a
\* failure of a request that was let through is counted, or a request for a link.
EntryMoves(b, id) ==
    \/ throttle'[id] \in {throttle[id], NoEntry}
    \/ throttle'[id] = counted(throttle[id]) /\ requests[b].pc \in Checked(id) /\ requests'[b].pc = "idle"
    \/ id = "reset" /\ check_attempt(id) /\ throttle'[id] = counted(cleaned[id])
ThrottleMoves(b) ==
    /\ throttle' \in [Identifiers -> Entries]
    /\ \A id \in Identifiers : EntryMoves(b, id)

\* A check leaves every entry or forgets it.
LEMMA CleanedEntries ==
    ASSUME LoginTypeOK
    PROVE  /\ cleaned \in [Identifiers -> Entries]
           /\ \A id \in Identifiers : cleaned[id] = cleanup_old_entries(throttle[id])
                                      /\ cleaned[id] \in {throttle[id], NoEntry}
BY DEF LoginTypeOK, RequestsTyped, cleaned, cleanup_old_entries, NoEntry, Entries, Never

\* Counting makes an entry of an entry.
LEMMA CountedEntry ==
    ASSUME NEW e \in Entries, clock \in Nat
    PROVE  /\ counted(e) \in Entries /\ counted(e).attempts = e.attempts + 1
           /\ counted(e).until = (IF e.attempts + 1 >= ThrottleAttempts THEN clock + LockoutTime ELSE e.until)
BY LoginAssumption DEF counted, Entries

\* The throttle moves only so.
LEMMA ThrottleStep ==
    ASSUME LoginTypeOK, NEW b \in Browsers, StepOf(b)
    PROVE  ThrottleMoves(b)
<1> USE DEF At
<1>1. throttle \in [Identifiers -> Entries] /\ clock \in Nat /\ requests \in [Browsers -> Requests]
  BY DEF LoginTypeOK, RequestsTyped
<1>2. NoEntry \in Entries /\ \A e \in Entries : counted(e) \in Entries
  BY <1>1, CountedEntry DEF NoEntry, Entries, Never
<1>3. (throttle' = throttle \/ throttle' = cleaned) => ThrottleMoves(b)
  BY <1>1, CleanedEntries DEF ThrottleMoves, EntryMoves
<1>4. ASSUME NEW id \in Identifiers, record_successful_attempt(id) PROVE ThrottleMoves(b)
  BY <1>1, <1>2, <1>4 DEF ThrottleMoves, EntryMoves, record_successful_attempt
<1>5. ASSUME NEW id \in Identifiers, requests[b].pc \in Checked(id), record_failed_attempt(id), Answer(b)
      PROVE  ThrottleMoves(b)
  <2>1. throttle' = [throttle EXCEPT ![id] = counted(throttle[id])]
    BY <1>5 DEF record_failed_attempt
  <2>2. requests'[b].pc = "idle"
    BY <1>1, <1>5 DEF Answer, NoRequest
  <2> QED  BY <1>1, <1>2, <1>5, <2>1, <2>2 DEF ThrottleMoves, EntryMoves
<1>6. ASSUME requests[b].pc \in Checked("mfa"), Passed(b) \/ Failed(b) \/ UNCHANGED throttle PROVE ThrottleMoves(b)
  BY <1>3, <1>4, <1>5, <1>6 DEF Passed, Failed, Identifiers
<1>7. CASE login_checked(b)
  <2>1. requests[b].pc \in Checked("login")
    BY <1>7 DEF login_checked, Checked
  <2> QED  BY <1>4, <1>5, <1>7, <2>1 DEF login_checked, Identifiers
<1>8. CASE \/ verify_totp_path(b) \/ update_totp_last_used_step(b)
           \/ verify_recovery_path(b) \/ mark_recovery_code_used(b) \/ verify_webauthn_path(b)
  <2>1. requests[b].pc \in Checked("mfa")
    BY <1>8 DEF verify_totp_path, update_totp_last_used_step, verify_recovery_path, mark_recovery_code_used,
                verify_webauthn_path, Checked
  <2>2. Passed(b) \/ Failed(b) \/ UNCHANGED throttle
    BY <1>8, Zenon DEF verify_totp_path, update_totp_last_used_step, verify_recovery_path, mark_recovery_code_used,
                verify_webauthn_path
  <2> QED  BY <1>6, <2>1, <2>2
<1>9. ASSUME NEW r \in ResetLinks, password_reset_request(b, r) PROVE ThrottleMoves(b)
  <2>1. check_attempt("reset") /\ throttle' = [cleaned EXCEPT !["reset"] = counted(cleaned["reset"])]
    BY <1>9 DEF password_reset_request
  <2>2. cleaned \in [Identifiers -> Entries] /\ \A id \in Identifiers : cleaned[id] \in {throttle[id], NoEntry}
    BY CleanedEntries
  <2> HIDE DEF cleaned
  <2> QED  BY <1>2, <2>1, <2>2 DEF ThrottleMoves, EntryMoves, Identifiers
<1>10. \/ throttle' = throttle \/ throttle' = cleaned \/ login_checked(b)
       \/ verify_totp_path(b) \/ update_totp_last_used_step(b)
       \/ verify_recovery_path(b) \/ mark_recovery_code_used(b) \/ verify_webauthn_path(b)
       \/ \E r \in ResetLinks : password_reset_request(b, r)
  BY ZenonT(60) DEF StepOf, login, issue_token, build_login_challenge, verify_login,
            totp_setup, totp_confirm, totp_disable, remove_user_totp, webauthn_register_finish, webauthn_remove,
            remove_user_webauthn, recompute_user_mfa_enrolled, set_user_mfa_enrolled, FirstCodes,
            recovery_regenerate, reset_user_mfa, password_reset_consume,
            change_own_password, SetPassword, set_active, RequestFails, Enrols, accountVars, storeVars
<1> QED  BY <1>3, <1>7, <1>8, <1>9, <1>10

\* LoginTypeOK is inductive.
LEMMA LoginTypesInit == LoginInit => LoginTypeOK
<1> SUFFICES ASSUME LoginInit PROVE LoginTypeOK
  OBVIOUS
<1>1. account \in [active : BOOLEAN, password : Guesses, version : Nat, enrolled : BOOLEAN]
  <2>1. \E e \in BOOLEAN : account = [active |-> TRUE, password |-> FirstPassword, version |-> 0, enrolled |-> e]
    BY DEF LoginInit
  <2> QED  BY <2>1, LoginAssumption DEF Guesses
<1>2. totp \in [Authenticators -> [st : {"none", "pending", "confirmed", "gone"}, last : Int]]
  BY DEF LoginInit, Never
<1>3. codes \in [RecoveryCodes -> {"none", "unused", "used"}]
  BY DEF LoginInit
<1>4. /\ resets \in [ResetLinks -> [st : {"none", "live", "spent"}, until : Int]]
      /\ accepted \in [Secrets -> Nat] /\ issued \subseteq [version : Nat, password : Guesses, factor : Factors]
  BY DEF LoginInit
<1>5. KeysTyped
  BY DEF LoginInit, KeysTyped
<1>6. RequestsTyped
  <2>1. requests = [b \in Browsers |-> NoRequest] /\ raced = FALSE /\ clock = 0 /\ throttle = [i \in Identifiers |-> NoEntry]
    BY DEF LoginInit
  <2>2. NoEntry \in Entries
    BY DEF NoEntry, Entries, Never
  <2> QED  BY <2>1, <2>2, NoRequestTyped DEF RequestsTyped
<1> QED  BY <1>1, <1>2, <1>3, <1>4, <1>5, <1>6 DEF LoginTypeOK, StoresTyped
\* And every step keeps it.
LEMMA LoginTypesStep ==
    ASSUME LoginTypeOK, NEW b \in Browsers, StepOf(b)
    PROVE  LoginTypeOK'
<1>1. PICK r : Becomes(b, r)
  BY StepBecomes
<1>2. requests' \in [Browsers -> Requests] /\ \A o \in Browsers : Fits(requests[o])'
  BY <1>1 DEF Becomes, LoginTypeOK, RequestsTyped, Fits
<1>3. raced' \in BOOLEAN
  <2>1. raced' = raced \/ raced' = TRUE \/ raced' = (raced \/ \E o \in Browsers \ {b} : ~ At(o, "idle"))
    BY <1>1, Zenon DEF Becomes
  <2> QED BY <2>1 DEF LoginTypeOK, RequestsTyped
<1> QED  BY <1>2, <1>3, StoresStep, ThrottleStep, Untouched DEF ThrottleMoves, LoginTypeOK, RequestsTyped

-----------------------------------------------------------------------------
(* Secrets are spent once. *)

\* A recovery code that was accepted is used up.
CodesAreUsedUp == \A c \in RecoveryCodes : accepted[c] <= 1 /\ (accepted[c] > 0 => codes[c] = "used")
\* One link is live, and one that was accepted is not.
LinksAreUsedUp ==
    /\ \A r, s \in ResetLinks : resets[r].st = "live" /\ resets[s].st = "live" => r = s
    /\ \A r \in ResetLinks : accepted[r] <= 1 /\ (accepted[r] > 0 => resets[r].st = "spent")
\* Until requests overlap there is one at a time,
OneAtATime == ~ raced => \A b, o \in Browsers : b = o \/ At(b, "idle") \/ At(o, "idle")
\* the watermark of an authenticator is at least every step it was used at, and
\* a request that is about to move it has read it as it still is.
WatermarkHolds ==
    ~ raced =>
        /\ \A t \in Authenticators, s \in Steps :
              /\ totp[t].st \in {"none", "pending"} => accepted[<<t, s>>] = 0
              /\ totp[t].st = "confirmed" =>
                    accepted[<<t, s>>] <= 1 /\ (accepted[<<t, s>>] > 0 => s <= totp[t].last)
        /\ \A b \in Browsers : At(b, "mark") => LET code == requests[b].arg
                                                IN  totp[code[1]].st = "confirmed" /\ ~ replayed(code[1], code[2])
SecretsInvariant == LoginTypeOK /\ CodesAreUsedUp /\ LinksAreUsedUp /\ OneAtATime /\ WatermarkHolds

\* A step accepts one secret, of the kind its request presents.
LEMMA AcceptsOne ==
    ASSUME LoginTypeOK, NEW b \in Browsers, StepOf(b), NEW x \in Secrets
    PROVE  \/ accepted'[x] = accepted[x]
           \/ /\ accepted'[x] = accepted[x] + 1
              /\ \/ x \in Authenticators \X Steps /\ update_totp_last_used_step(b) /\ x = requests[b].arg
                 \/ x \in RecoveryCodes /\ mark_recovery_code_used(b) /\ x = requests[b].arg
                    /\ codes[x] = "unused" /\ codes'[x] = "used"
                 \/ x \in ResetLinks /\ resets[x].st = "live" /\ resets'[x].st = "spent"
<1>1. accepted \in [Secrets -> Nat] /\ Fits(requests[b]) /\ codes \in [RecoveryCodes -> {"none", "unused", "used"}]
      /\ resets \in [ResetLinks -> [st : {"none", "live", "spent"}, until : Int]]
  BY DEF LoginTypeOK, StoresTyped, RequestsTyped
<1>2. \A y \in Secrets : Accept(y) => accepted'[x] = accepted[x] \/ (x = y /\ accepted'[x] = accepted[x] + 1)
  BY <1>1 DEF Accept
<1>3. CASE update_totp_last_used_step(b)
  <2>1. requests[b].arg \in Authenticators \X Steps
    BY <1>1, <1>3 DEF update_totp_last_used_step, At, Fits
  <2>2. UNCHANGED accepted \/ Accept(requests[b].arg)
    BY <1>3 DEF update_totp_last_used_step
  <2> QED  BY <1>2, <1>3, <2>1, <2>2, SecretsApart
<1>4. CASE mark_recovery_code_used(b)
  <2>1. requests[b].arg \in RecoveryCodes
    BY <1>1, <1>4 DEF mark_recovery_code_used, At, Fits
  <2>2. \/ UNCHANGED accepted
        \/ Accept(requests[b].arg) /\ codes[requests[b].arg] = "unused"
           /\ codes' = [codes EXCEPT ![requests[b].arg] = "used"]
    BY <1>4 DEF mark_recovery_code_used
  <2> QED  BY <1>1, <1>2, <1>4, <2>1, <2>2, SecretsApart
<1>5. ASSUME NEW r \in ResetLinks, NEW p \in Passwords, password_reset_consume(b, r, p)
      PROVE  Accept(r) /\ resets[r].st = "live" /\ resets'[r].st = "spent"
  BY <1>1, <1>5 DEF password_reset_consume, claim_password_reset_token
<1> QED  BY <1>2, <1>3, <1>4, <1>5, Untouched, SecretsApart DEF WritesAccepted

\* Recovery codes.
LEMMA CodesStep ==
    ASSUME LoginTypeOK, CodesAreUsedUp, NEW b \in Browsers, StepOf(b)
    PROVE  CodesAreUsedUp'
<1> SUFFICES ASSUME NEW c \in RecoveryCodes
             PROVE  accepted'[c] <= 1 /\ (accepted'[c] > 0 => codes'[c] = "used")
  BY DEF CodesAreUsedUp
<1>1. accepted[c] \in Nat /\ codes \in [RecoveryCodes -> {"none", "unused", "used"}] /\ c \in Secrets
  BY SecretsApart DEF LoginTypeOK, StoresTyped
<1>2. codes[c] = "used" => codes'[c] = "used"
  <2>1. CASE mark_recovery_code_used(b)
    BY <1>1, <2>1 DEF mark_recovery_code_used
  <2>2. CASE FirstCodes(b) \/ recovery_regenerate(b)
    BY <1>1, <2>2 DEF FirstCodes, recovery_regenerate, replace_user_recovery_codes
  <2>3. CASE reset_user_mfa(b)
    BY <1>1, <2>3 DEF reset_user_mfa
  <2> QED  BY <2>1, <2>2, <2>3, Untouched DEF WritesCodes
<1>3. \/ accepted'[c] = accepted[c]
      \/ accepted'[c] = accepted[c] + 1 /\ codes[c] = "unused" /\ codes'[c] = "used"
  BY <1>1, AcceptsOne, SecretsApart
<1> QED  BY <1>1, <1>2, <1>3 DEF CodesAreUsedUp

\* Reset links.
LEMMA LinksStep ==
    ASSUME LoginTypeOK, LinksAreUsedUp, NEW b \in Browsers, StepOf(b)
    PROVE  LinksAreUsedUp'
<1>1. /\ accepted \in [Secrets -> Nat] /\ resets \in [ResetLinks -> [st : {"none", "live", "spent"}, until : Int]]
  BY DEF LoginTypeOK, StoresTyped
<1>2. /\ \A r \in ResetLinks : resets[r].st = "spent" => resets'[r].st = "spent"
      /\ \A r, s \in ResetLinks : resets'[r].st = "live" /\ resets'[s].st = "live" => r = s
  <2>1. ASSUME NEW x \in ResetLinks, password_reset_request(b, x)
        PROVE  \A r \in ResetLinks : /\ resets'[r].st = "live" => r = x
                                     /\ resets[r].st = "spent" => resets'[r].st = "spent"
    <3> SUFFICES ASSUME NEW r \in ResetLinks
                 PROVE  /\ resets'[r].st = "live" => r = x
                        /\ resets[r].st = "spent" => resets'[r].st = "spent"
      OBVIOUS
    <3>1. resets[x].st = "none" /\ create_password_reset_token(x)
      BY <2>1 DEF password_reset_request
    <3>2. resets'[r] = IF r = x THEN [st |-> "live", until |-> clock + ResetTtl]
                       ELSE IF resets[r].st = "live" THEN [resets[r] EXCEPT !.st = "spent"] ELSE resets[r]
      BY <3>1 DEF create_password_reset_token
    <3> QED  BY <1>1, <3>1, <3>2
  <2>2. ASSUME NEW x \in ResetLinks, NEW p \in Passwords, password_reset_consume(b, x, p)
        PROVE  \A r \in ResetLinks : /\ resets'[r].st = "live" => resets[r].st = "live"
                                     /\ resets[r].st = "spent" => resets'[r].st = "spent"
    BY <1>1, <2>2 DEF password_reset_consume, claim_password_reset_token
  <2>3. CASE UNCHANGED resets
    BY <2>3 DEF LinksAreUsedUp
  <2>4. CASE \E x \in ResetLinks : password_reset_request(b, x)
    BY <2>1, <2>4
  <2>5. CASE \E x \in ResetLinks, p \in Passwords : password_reset_consume(b, x, p)
    BY <2>2, <2>5 DEF LinksAreUsedUp
  <2> QED  BY <2>3, <2>4, <2>5, Untouched DEF WritesResets
<1>3. ASSUME NEW r \in ResetLinks PROVE accepted'[r] <= 1 /\ (accepted'[r] > 0 => resets'[r].st = "spent")
  <2>1. \/ accepted'[r] = accepted[r]
        \/ accepted'[r] = accepted[r] + 1 /\ resets[r].st = "live" /\ resets'[r].st = "spent"
    BY AcceptsOne, SecretsApart
  <2>2. accepted[r] \in Nat /\ accepted[r] <= 1 /\ (accepted[r] > 0 => resets[r].st = "spent")
    BY <1>1, SecretsApart DEF LinksAreUsedUp
  <2> QED  BY <1>2, <2>1, <2>2
<1> QED  BY <1>2, <1>3 DEF LinksAreUsedUp

\* While requests do not overlap, the others stand idle.
LEMMA OthersIdle ==
    ASSUME LoginTypeOK, OneAtATime, NEW b \in Browsers, NEW r, Becomes(b, r), ~ raced'
    PROVE  /\ ~ raced /\ requests'[b] = r
           /\ \A o \in Browsers \ {b} : At(o, "idle") /\ requests'[o] = requests[o]
<1>1. requests \in [Browsers -> Requests] /\ requests' = [requests EXCEPT ![b] = r] /\ raced \in BOOLEAN
  BY DEF Becomes, LoginTypeOK, RequestsTyped
<1>2. ~ raced /\ \A o \in Browsers \ {b} : At(b, "idle") => At(o, "idle")
  <2>1. \/ At(b, "idle") /\ raced' = (raced \/ \E o \in Browsers \ {b} : ~ At(o, "idle"))
        \/ ~ At(b, "idle") /\ (raced' = raced \/ raced' = TRUE)
    BY Zenon DEF Becomes
  <2>2. CASE raced' = (raced \/ \E o \in Browsers \ {b} : ~ At(o, "idle"))
    BY <2>2, Zenon
  <2>3. CASE ~ At(b, "idle") /\ raced' = raced
    BY <2>3, Zenon
  <2> QED  BY <2>1, <2>2, <2>3, Zenon
<1>3. \A o \in Browsers \ {b} : At(o, "idle")
  BY <1>2 DEF OneAtATime
<1> QED  BY <1>1, <1>2, <1>3

\* One at a time.
LEMMA OneAtATimeStep ==
    ASSUME LoginTypeOK, OneAtATime, NEW b \in Browsers, StepOf(b)
    PROVE  OneAtATime'
<1>1. PICK r : Becomes(b, r)
  BY StepBecomes
<1> QED  BY <1>1, OthersIdle DEF OneAtATime, At

\* TOTP codes.
LEMMA WatermarkStep ==
    ASSUME SecretsInvariant, NEW b \in Browsers, StepOf(b)
    PROVE  WatermarkHolds'
<1> DEFINE Row(t, s) == /\ totp[t].st \in {"none", "pending"} => accepted[<<t, s>>] = 0
                        /\ totp[t].st = "confirmed" =>
                              accepted[<<t, s>>] <= 1 /\ (accepted[<<t, s>>] > 0 => s <= totp[t].last)
<1> SUFFICES ASSUME ~ raced'
             PROVE  /\ \A t \in Authenticators, s \in Steps : Row(t, s)'
                    /\ \A o \in Browsers : requests'[o].pc = "mark" =>
                            LET code == requests'[o].arg
                            IN  totp'[code[1]].st = "confirmed"
                                /\ ~ (totp'[code[1]].last # Never /\ code[2] <= totp'[code[1]].last)
  BY DEF WatermarkHolds, At, replayed
<1>1. PICK r : Becomes(b, r)
  BY StepBecomes DEF SecretsInvariant
<1>2. /\ ~ raced /\ requests'[b] = r
      /\ \A o \in Browsers \ {b} : At(o, "idle") /\ requests'[o] = requests[o]
  BY <1>1, OthersIdle DEF SecretsInvariant
<1>3. \A o \in Browsers : requests'[o].pc = "mark" =>
          LET code == requests'[o].arg
          IN  totp'[code[1]].st = "confirmed" /\ ~ (totp'[code[1]].last # Never /\ code[2] <= totp'[code[1]].last)
  <2>1. \A o \in Browsers \ {b} : requests'[o].pc # "mark"
    BY <1>2 DEF At
  <2>2. r.pc = "mark" => /\ totp' = totp /\ totp[r.arg[1]].st = "confirmed"
                         /\ ~ (totp[r.arg[1]].last # Never /\ r.arg[2] <= totp[r.arg[1]].last)
    BY <1>1 DEF Becomes, replayed
  <2> QED  BY <1>2, <2>1, <2>2
<1>4. ASSUME NEW t \in Authenticators, NEW s \in Steps PROVE Row(t, s)'
  <2>1. /\ totp \in [Authenticators -> [st : {"none", "pending", "confirmed", "gone"}, last : Int]]
        /\ accepted \in [Secrets -> Nat] /\ Fits(requests[b])
    BY DEF SecretsInvariant, LoginTypeOK, StoresTyped, RequestsTyped
  <2>2. <<t, s>> \in Authenticators \X Steps /\ <<t, s>> \in Secrets /\ s \in Nat
    BY SecretsApart, LoginAssumption DEF Steps
  <2>3. PICK x : x = <<t, s>>
    OBVIOUS
  <2>4. accepted[x] \in Nat /\ totp[t].last \in Int
    BY <2>1, <2>2, <2>3
  <2>5. /\ totp[t].st \in {"none", "pending"} => accepted[x] = 0
        /\ totp[t].st = "confirmed" => accepted[x] <= 1 /\ (accepted[x] > 0 => s <= totp[t].last)
    BY <1>2, <2>3 DEF WatermarkHolds, SecretsInvariant
  <2> SUFFICES /\ totp'[t].st \in {"none", "pending"} => accepted'[x] = 0
               /\ totp'[t].st = "confirmed" => accepted'[x] <= 1 /\ (accepted'[x] > 0 => s <= totp'[t].last)
    BY <2>3
  <2>6. ~ update_totp_last_used_step(b) => accepted'[x] = accepted[x]
    BY <2>2, <2>3, AcceptsOne, SecretsApart DEF SecretsInvariant
  <2>7. CASE update_totp_last_used_step(b)
    <3> DEFINE code == requests[b].arg
    <3>1. code \in Authenticators \X Steps /\ requests[b].pc = "mark"
      BY <2>1, <2>7 DEF update_totp_last_used_step, At, Fits
    <3>2. code[1] \in Authenticators /\ code[2] \in Nat /\ code = <<code[1], code[2]>> /\ code \in Secrets
      BY <3>1, SecretsApart, LoginAssumption DEF Steps
    <3>3. totp[code[1]].st = "confirmed" /\ ~ (totp[code[1]].last # Never /\ code[2] <= totp[code[1]].last)
      BY <1>2, <3>1 DEF WatermarkHolds, SecretsInvariant, At, replayed
    <3>4. totp' = [totp EXCEPT ![code[1]].last = code[2]] /\ Accept(code)
      BY <2>7, <3>3 DEF update_totp_last_used_step
    <3>5. CASE t # code[1]
      <4>1. x # code
        BY <2>3, <3>2, <3>5
      <4>2. totp'[t] = totp[t] /\ accepted'[x] = accepted[x]
        BY <2>1, <2>2, <2>3, <3>2, <3>4, <3>5, <4>1 DEF Accept
      <4> QED  BY <2>5, <4>2
    <3>6. CASE t = code[1]
      <4>1. totp'[t].st = "confirmed" /\ totp'[t].last = code[2]
        BY <2>1, <3>2, <3>3, <3>4, <3>6
      <4>2. CASE s = code[2]
        <5>1. x = code
          BY <2>3, <3>2, <3>6, <4>2
        <5>2. accepted'[x] = accepted[x] + 1
          BY <2>1, <3>2, <3>4, <5>1 DEF Accept
        <5>3. accepted[x] = 0
          BY <2>2, <2>4, <2>5, <3>3, <3>6, <4>2 DEF Never
        <5> QED  BY <2>2, <4>1, <4>2, <5>2, <5>3
      <4>3. CASE s # code[2]
        <5>1. x # code
          BY <2>3, <3>2, <4>3
        <5>2. accepted'[x] = accepted[x]
          BY <2>1, <2>2, <2>3, <3>2, <3>4, <5>1 DEF Accept
        <5>3. accepted[x] > 0 => s <= code[2]
          BY <2>2, <2>4, <2>5, <3>2, <3>3, <3>6 DEF Never
        <5>4. accepted[x] <= 1
          BY <2>5, <3>3, <3>6
        <5> QED  BY <4>1, <5>2, <5>3, <5>4
      <4> QED  BY <4>2, <4>3
    <3> QED  BY <3>5, <3>6
  <2>8. ASSUME NEW a \in Authenticators,
               totp_setup(b, a) \/ totp_confirm(b, a) \/ totp_disable(b, a) \/ remove_user_totp(b, a)
        PROVE  \/ totp'[t] = totp[t] \/ totp'[t].st = "gone"
               \/ totp[t].st \in {"none", "pending"}
    <3>1. CASE totp_setup(b, a)
      BY <2>1, <3>1 DEF totp_setup, begin_totp_setup, Gone
    <3>2. CASE totp_confirm(b, a)
      BY <2>1, <3>2 DEF totp_confirm, finalize_totp_confirmation
    <3>3. CASE totp_disable(b, a) \/ remove_user_totp(b, a)
      BY <2>1, <3>3 DEF totp_disable, remove_user_totp, delete_user_totp, Gone
    <3> QED  BY <2>8, <3>1, <3>2, <3>3
  <2>9. CASE reset_user_mfa(b)
    <3>1. totp'[t] = totp[t] \/ totp'[t].st = "gone"
      BY <2>9 DEF reset_user_mfa, Gone
    <3> QED  BY <2>5, <2>6, <2>7, <3>1
  <2>10. CASE ~ update_totp_last_used_step(b) /\ ~ reset_user_mfa(b)
    <3>1. totp'[t] = totp[t] \/ totp'[t].st = "gone" \/ totp[t].st \in {"none", "pending"}
      BY <2>8, <2>10, Untouched DEF WritesTotp
    <3> QED  BY <2>4, <2>5, <2>6, <2>10, <3>1
  <2> QED  BY <2>7, <2>9, <2>10
<1> QED  BY <1>3, <1>4

\* The tick of the clock, and a step of nothing, disturb none of it.
LEMMA SecretsStill ==
    ASSUME SecretsInvariant, LoginTick \/ UNCHANGED loginVars
    PROVE  SecretsInvariant'
<1>1. UNCHANGED <<account, totp, passkeys, codes, resets, challenges, throttle, issued, requests, made, accepted, raced>>
      /\ (clock' = clock + 1 \/ clock' = clock)
  BY DEF LoginTick, loginVars, accountVars, storeVars
<1>2. StoresTyped' /\ KeysTyped'
  BY <1>1 DEF SecretsInvariant, LoginTypeOK, StoresTyped, KeysTyped
<1>3. RequestsTyped'
  BY <1>1 DEF SecretsInvariant, LoginTypeOK, RequestsTyped, Fits
<1>4. CodesAreUsedUp' /\ LinksAreUsedUp'
  BY <1>1 DEF SecretsInvariant, CodesAreUsedUp, LinksAreUsedUp
<1>5. OneAtATime' /\ WatermarkHolds'
  BY <1>1 DEF SecretsInvariant, OneAtATime, WatermarkHolds, At, replayed
<1> QED  BY <1>2, <1>3, <1>4, <1>5 DEF SecretsInvariant, LoginTypeOK

\* The secrets' invariant at the start.
LEMMA SecretsInit == LoginInit => SecretsInvariant
<1> SUFFICES ASSUME LoginInit PROVE SecretsInvariant
  OBVIOUS
<1>1. LoginTypeOK
  BY LoginTypesInit
<1>2. accepted = [s \in Secrets |-> 0] /\ requests = [b \in Browsers |-> NoRequest] /\ raced = FALSE
      /\ resets = [r \in ResetLinks |-> [st |-> "none", until |-> 0]]
  BY DEF LoginInit
<1>3. \A s \in Secrets : accepted[s] = 0
  BY <1>2
<1>4. CodesAreUsedUp /\ LinksAreUsedUp
  BY <1>2, <1>3, SecretsApart DEF CodesAreUsedUp, LinksAreUsedUp
<1>5. \A b \in Browsers : At(b, "idle")
  BY <1>2, NoRequestTyped DEF At
<1>6. \A t \in Authenticators, s \in Steps : accepted[<<t, s>>] = 0
  BY <1>3, SecretsApart
<1>7. OneAtATime /\ WatermarkHolds
  BY <1>5, <1>6 DEF OneAtATime, WatermarkHolds, At
<1> QED  BY <1>1, <1>4, <1>7 DEF SecretsInvariant

\* The secrets' invariant holds throughout, however many requests there are and
\* whichever of them fail.
THEOREM SecretsInvariantHolds == LoginSpec => []SecretsInvariant
<1>1. ASSUME SecretsInvariant, [LoginNext]_loginVars PROVE SecretsInvariant'
  <2>1. CASE \E b \in Browsers : StepOf(b)
    <3> PICK b \in Browsers : StepOf(b)
      BY <2>1
    <3>1. LoginTypeOK' /\ CodesAreUsedUp' /\ LinksAreUsedUp' /\ OneAtATime'
      BY <1>1, LoginTypesStep, CodesStep, LinksStep, OneAtATimeStep DEF SecretsInvariant
    <3>2. WatermarkHolds'
      BY <1>1, WatermarkStep
    <3> QED  BY <3>1, <3>2 DEF SecretsInvariant
  <2>2. CASE LoginTick \/ UNCHANGED loginVars
    BY <1>1, <2>2, SecretsStill
  <2> QED  BY <1>1, <2>1, <2>2, StepsOfRequests
<1> QED  BY <1>1, SecretsInit, PTL DEF LoginSpec

\* Recovery codes, reset links and TOTP codes are each good once (verify_login's
\* paths, password_reset_consume), two requests holding the same code or not; TOTP
\* codes while requests do not overlap.
THEOREM SecretsSpentOnce == LoginSpec => []SecretsAreSpentOnce
<1>1. SecretsInvariant => SecretsAreSpentOnce
  <2> SUFFICES ASSUME SecretsInvariant PROVE SecretsAreSpentOnce
    OBVIOUS
  <2>1. RecoveryCodeWorksOnce
    BY DEF SecretsInvariant, CodesAreUsedUp, RecoveryCodeWorksOnce
  <2>2. TotpCodeWorksOnce
    BY DEF SecretsInvariant, WatermarkHolds, TotpCodeWorksOnce
  <2> DEFINE live == {r \in ResetLinks : resets[r].st = "live"}
  <2>3. Cardinality(live) <= 1
    <3>1. CASE live = {}
      BY <3>1, FS_EmptySet
    <3>2. CASE live # {}
      <4>1. PICK r \in ResetLinks : r \in live
        BY <3>2
      <4>2. live = {r}
        BY <4>1 DEF SecretsInvariant, LinksAreUsedUp
      <4>3. Cardinality({r}) = 1
        BY FS_Singleton
      <4> HIDE DEF live
      <4> QED  BY <4>2, <4>3
    <3> QED  BY <3>1, <3>2
  <2>4. OneResetLinkAtMost
    BY <2>3 DEF SecretsInvariant, LinksAreUsedUp, OneResetLinkAtMost
  <2> QED  BY <2>1, <2>2, <2>4 DEF SecretsAreSpentOnce
<1> QED  BY <1>1, SecretsInvariantHolds, PTL

-----------------------------------------------------------------------------
(* The guard of the account. *)

Enrolled == has_totp \/ has_webauthn
\* A session or a login that rests on the password alone is of the present
\* version only with the present password.
Dated(s) == /\ s.version <= account.version
            /\ s.version = account.version => s.password = account.password
SessionsAreDated ==
    /\ \A s \in issued : s.factor = "none" => Dated(s)
    /\ \A b \in Browsers : At(b, "issue") /\ requests[b].factor = "none" => Dated(requests[b])
\* Until requests overlap the flag is right, or the request that will put it right
\* has yet to read the factors, or has read them as they are.
FlagFollows ==
    ~ raced => /\ \A b \in Browsers : At(b, "flag") => (requests[b].enrolled <=> Enrolled)
               /\ \/ account.enrolled <=> Enrolled
                  \/ \E b \in Browsers : At(b, "recompute") \/ At(b, "flag")
\* Every request that was let through and not yet counted has room in the limit.
Inflight(id) == {b \in Browsers : requests[b].pc \in Checked(id)}
LimitHolds ==
    \A id \in Identifiers :
        /\ throttle[id].until = Never => throttle[id].attempts < ThrottleAttempts
        /\ throttle[id].attempts + Cardinality(Inflight(id)) <= ThrottleAttempts - 1 + Cardinality(Browsers)
GuardInvariant == SecretsInvariant /\ SessionsAreDated /\ FlagFollows /\ LimitHolds

\* The account's password changes with its version.
LEMMA VersionStep ==
    ASSUME LoginTypeOK, NEW b \in Browsers, StepOf(b)
    PROVE  \/ account'.version = account.version /\ account'.password = account.password
           \/ account'.version = account.version + 1
<1>1. account \in [active : BOOLEAN, password : Guesses, version : Nat, enrolled : BOOLEAN]
  BY DEF LoginTypeOK, StoresTyped
<1>2. CASE set_user_mfa_enrolled(b) \/ reset_user_mfa(b) \/ SetPassword(b)
  BY <1>1, <1>2 DEF set_user_mfa_enrolled, reset_user_mfa, SetPassword
<1>3. CASE \E a \in BOOLEAN : set_active(b, a)
  BY <1>1, <1>3 DEF set_active
<1> QED  BY <1>2, <1>3, Untouched DEF WritesAccount

\* Sessions stay dated.
LEMMA DatedStep ==
    ASSUME LoginTypeOK, SessionsAreDated, NEW b \in Browsers, StepOf(b)
    PROVE  SessionsAreDated'
<1>1. account.version \in Nat /\ issued \subseteq [version : Nat, password : Guesses, factor : Factors]
      /\ requests \in [Browsers -> Requests]
  BY DEF LoginTypeOK, StoresTyped, RequestsTyped
<1>2. ASSUME NEW s, s.version \in Nat, Dated(s)
      PROVE  s.version <= account'.version /\ (s.version = account'.version => s.password = account'.password)
  BY <1>1, <1>2, VersionStep DEF Dated
<1>3. ASSUME NEW s \in issued', s.factor = "none"
      PROVE  s.version <= account'.version /\ (s.version = account'.version => s.password = account'.password)
  <2>1. CASE s \in issued
    BY <1>1, <1>2, <1>3, <2>1 DEF SessionsAreDated
  <2>2. CASE s \notin issued
    <3>1. issue_token(b)
      BY <1>3, <2>2, Untouched
    <3>2. s = [version |-> requests[b].version, password |-> requests[b].password, factor |-> requests[b].factor]
      BY <1>3, <2>2, <3>1 DEF issue_token, create_token
    <3>3. requests[b].version \in Nat /\ Dated(requests[b])
      BY <1>1, <1>3, <3>1, <3>2 DEF issue_token, SessionsAreDated, Requests
    <3> QED  BY <1>2, <3>2, <3>3 DEF Dated
  <2> QED  BY <2>1, <2>2
<1>4. ASSUME NEW o \in Browsers, requests'[o].pc = "issue", requests'[o].factor = "none"
      PROVE  /\ requests'[o].version <= account'.version
             /\ requests'[o].version = account'.version => requests'[o].password = account'.password
  <2>1. PICK r : Becomes(b, r)
    BY StepBecomes
  <2>2. CASE o = b
    <3>1. requests'[o] = r
      BY <1>1, <2>1, <2>2 DEF Becomes
    <3>2. account' = account /\ r.version = account.version /\ r.password = account.password
      BY <1>4, <2>1, <3>1 DEF Becomes
    <3> QED  BY <1>1, <3>1, <3>2
  <2>3. CASE o # b
    <3>1. requests'[o] = requests[o]
      BY <1>1, <2>1, <2>3 DEF Becomes
    <3>2. requests[o].version \in Nat /\ Dated(requests[o])
      BY <1>1, <1>4, <3>1 DEF SessionsAreDated, At, Requests
    <3> QED  BY <1>2, <3>1, <3>2
  <2> QED  BY <2>2, <2>3
<1> QED  BY <1>3, <1>4 DEF SessionsAreDated, Dated, At

\* What a step does to the factors and to the flag: it leaves a recompute to come, or
\* clears both, or writes what was read, or leaves them; or it failed.
LEMMA FactorsStep ==
    ASSUME LoginTypeOK, NEW b \in Browsers, StepOf(b)
    PROVE  \/ requests'[b].pc \in {"recompute", "flag"}
           \/ account'.enrolled = FALSE /\ ~ Enrolled'
           \/ requests[b].pc = "flag" /\ account'.enrolled = requests[b].enrolled /\ (Enrolled' <=> Enrolled)
           \/ raced' = TRUE
           \/ requests[b].pc \notin {"recompute", "flag"} /\ account'.enrolled = account.enrolled
              /\ (Enrolled' <=> Enrolled)
<1>1. /\ requests \in [Browsers -> Requests] /\ requests[b] \in Requests /\ Fits(requests[b])
      /\ account \in [active : BOOLEAN, password : Guesses, version : Nat, enrolled : BOOLEAN]
      /\ totp \in [Authenticators -> [st : {"none", "pending", "confirmed", "gone"}, last : Int]]
  BY DEF LoginTypeOK, StoresTyped, RequestsTyped
<1>2. UNCHANGED <<totp, passkeys>> => (Enrolled' <=> Enrolled)
  BY DEF Enrolled, has_totp, has_webauthn
<1>3. Arrives(b) => requests[b].pc \notin {"recompute", "flag"}
  BY DEF Arrives, At
<1>4. CASE recompute_user_mfa_enrolled(b)
  BY <1>1, <1>4 DEF recompute_user_mfa_enrolled, Requests
<1>5. CASE set_user_mfa_enrolled(b)
  BY <1>1, <1>2, <1>5 DEF set_user_mfa_enrolled, At
<1>6. CASE reset_user_mfa(b)
  <2>1. ~ Enrolled'
    BY <1>6 DEF reset_user_mfa, Gone, Enrolled, has_totp, has_webauthn
  <2> QED  BY <1>1, <1>6, <2>1 DEF reset_user_mfa
<1>7. CASE RequestFails(b)
  BY <1>7 DEF RequestFails
<1>8. CASE SetPassword(b)
  BY <1>1, <1>2, <1>8 DEF SetPassword, At
<1>9. ASSUME NEW a \in BOOLEAN, set_active(b, a)
      PROVE  requests[b].pc \notin {"recompute", "flag"} /\ account'.enrolled = account.enrolled
             /\ (Enrolled' <=> Enrolled)
  BY <1>1, <1>2, <1>3, <1>9 DEF set_active, Enrols
<1>10. CASE update_totp_last_used_step(b)
  <2>1. requests[b].pc = "mark" /\ account' = account /\ passkeys' = passkeys
    BY <1>10 DEF update_totp_last_used_step, At
  <2>2. \A t \in Authenticators : totp'[t].st = totp[t].st
    <3>1. UNCHANGED totp \/ totp' = [totp EXCEPT ![requests[b].arg[1]].last = requests[b].arg[2]]
      BY <1>10 DEF update_totp_last_used_step
    <3> QED  BY <1>1, <3>1
  <2> QED  BY <2>1, <2>2 DEF Enrolled, has_totp, has_webauthn
<1>11. Recompute(b) => requests'[b].pc = "recompute"
  BY <1>1, NoRequestTyped DEF Recompute, Requests
<1>12. ASSUME NEW t \in Authenticators,
              totp_setup(b, t) \/ totp_confirm(b, t) \/ totp_disable(b, t) \/ remove_user_totp(b, t)
       PROVE  \/ requests'[b].pc = "recompute"
              \/ requests[b].pc \notin {"recompute", "flag"} /\ account' = account /\ (Enrolled' <=> Enrolled)
  <2>1. CASE totp_setup(b, t)
    <3>1. Arrives(b) /\ UNCHANGED <<account, passkeys>> /\ totp[t].st = "none" /\ begin_totp_setup(t)
      BY <2>1 DEF totp_setup, Enrols
    <3>2. \A x \in Authenticators : totp'[x].st = "confirmed" <=> totp[x].st = "confirmed"
      <4> TAKE x \in Authenticators
      <4>1. totp'[x] = CASE x = t -> [st |-> "pending", last |-> Never]
                         [] totp[x].st = "pending" -> Gone
                         [] OTHER -> totp[x]
        BY <3>1 DEF begin_totp_setup
      <4> QED  BY <3>1, <4>1 DEF Gone
    <3> QED  BY <1>3, <3>1, <3>2 DEF Enrolled, has_totp, has_webauthn
  <2>2. CASE totp_confirm(b, t)
    BY <1>1, <2>2, NoRequestTyped DEF totp_confirm, Requests
  <2>3. CASE totp_disable(b, t) \/ remove_user_totp(b, t)
    BY <1>11, <2>3 DEF totp_disable, remove_user_totp
  <2> QED  BY <1>12, <2>1, <2>2, <2>3
<1>13. ASSUME NEW k \in Passkeys,
              webauthn_register_finish(b, k) \/ webauthn_remove(b, k) \/ remove_user_webauthn(b, k)
       PROVE  requests'[b].pc = "recompute"
  BY <1>11, <1>13 DEF webauthn_register_finish, webauthn_remove, remove_user_webauthn
<1>14. CASE ~ WritesAccount(b) /\ ~ WritesTotp(b) /\ ~ WritesPasskeys(b)
            /\ ~ recompute_user_mfa_enrolled(b) /\ ~ RequestFails(b)
  <2>1. UNCHANGED <<account, totp, passkeys>>
    BY <1>14, Untouched
  <2>2. requests[b].pc \notin {"recompute", "flag"}
    <3>1. \/ Arrives(b) \/ login_checked(b) \/ issue_token(b) \/ build_login_challenge(b)
          \/ verify_totp_path(b) \/ verify_recovery_path(b) \/ mark_recovery_code_used(b) \/ verify_webauthn_path(b)
          \/ FirstCodes(b)
      BY <1>14, ZenonT(60) DEF StepOf, WritesAccount, WritesTotp, WritesPasskeys, login, verify_login,
            recovery_regenerate, password_reset_request, password_reset_consume, change_own_password, Enrols
    <3> QED  BY <1>3, <3>1 DEF At, login_checked, issue_token, build_login_challenge, verify_totp_path,
            verify_recovery_path, mark_recovery_code_used, verify_webauthn_path, FirstCodes
  <2> QED  BY <1>2, <2>1, <2>2
<1> QED  BY <1>4, <1>5, <1>6, <1>7, <1>8, <1>9, <1>10, <1>12, <1>13, <1>14 DEF WritesAccount, WritesTotp, WritesPasskeys

\* The flag follows the factors.
LEMMA FlagStep ==
    ASSUME LoginTypeOK, OneAtATime, FlagFollows, NEW b \in Browsers, StepOf(b)
    PROVE  FlagFollows'
<1> SUFFICES ASSUME ~ raced'
             PROVE  /\ \A o \in Browsers : requests'[o].pc = "flag" => (requests'[o].enrolled <=> Enrolled')
                    /\ \/ account'.enrolled <=> Enrolled'
                       \/ \E o \in Browsers : requests'[o].pc \in {"recompute", "flag"}
  BY DEF FlagFollows, At
<1>1. PICK r : Becomes(b, r)
  BY StepBecomes
<1>2. /\ ~ raced /\ requests'[b] = r
      /\ \A o \in Browsers \ {b} : requests[o].pc = "idle" /\ requests'[o] = requests[o]
  BY <1>1, OthersIdle DEF At
<1>3. r.pc = "flag" => (r.enrolled <=> Enrolled')
  <2>1. r.pc = "flag" => UNCHANGED <<totp, passkeys>> /\ r.enrolled = Enrolled
    BY <1>1 DEF Becomes, Enrolled
  <2>2. UNCHANGED <<totp, passkeys>> => (Enrolled' <=> Enrolled)
    BY DEF Enrolled, has_totp, has_webauthn
  <2> HIDE DEF Enrolled
  <2> QED  BY <2>1, <2>2
<1>4. /\ requests[b].pc = "flag" => (requests[b].enrolled <=> Enrolled)
      /\ requests[b].pc \notin {"recompute", "flag"} => (account.enrolled <=> Enrolled)
  BY <1>2 DEF FlagFollows, At
<1>5. raced' # TRUE
  OBVIOUS
<1> HIDE DEF Enrolled
<1>6. (account'.enrolled <=> Enrolled') \/ requests'[b].pc \in {"recompute", "flag"}
  BY <1>4, <1>5, FactorsStep
<1> QED  BY <1>2, <1>3, <1>6

\* The limit holds.
LEMMA LimitStep ==
    ASSUME LoginTypeOK, LimitHolds, NEW b \in Browsers, StepOf(b)
    PROVE  LimitHolds'
<1> SUFFICES ASSUME NEW id \in Identifiers
             PROVE  /\ throttle'[id].until = Never => throttle'[id].attempts < ThrottleAttempts
                    /\ throttle'[id].attempts + Cardinality(Inflight(id)')
                          <= ThrottleAttempts - 1 + Cardinality(Browsers)
  BY DEF LimitHolds
<1>1. PICK r : Becomes(b, r)
  BY StepBecomes
<1>2. /\ requests \in [Browsers -> Requests] /\ requests' = [requests EXCEPT ![b] = r] /\ clock \in Nat
      /\ throttle[id] \in Entries /\ throttle'[id] \in Entries
  BY <1>1, ThrottleStep DEF Becomes, LoginTypeOK, RequestsTyped, ThrottleMoves
<1> DEFINE In == Inflight(id)
           Out == {o \in Browsers : requests'[o].pc \in Checked(id)}
<1>3. Inflight(id)' = Out
  BY DEF Inflight, Checked
<1>4. In \in SUBSET Browsers /\ Out \in SUBSET Browsers /\ IsFiniteSet(Browsers)
  BY LoginAssumption DEF Inflight
<1>5. IsFiniteSet(In) /\ IsFiniteSet(Out)
  BY <1>4, FS_Subset
<1>6. /\ Cardinality(In) \in Nat /\ Cardinality(Out) \in Nat /\ Cardinality(Browsers) \in Nat
      /\ Cardinality(In) <= Cardinality(Browsers) /\ Cardinality(Out) <= Cardinality(Browsers)
  BY <1>4, <1>5, FS_Subset, FS_CardinalityType
<1>7. Cardinality(Browsers) >= 1
  BY <1>4, <1>6, FS_EmptySet
<1>8. ThrottleAttempts \in Nat \ {0} /\ LockoutTime \in Nat \ {0}
  BY LoginAssumption
<1>9. /\ throttle[id].until = Never => throttle[id].attempts < ThrottleAttempts
      /\ throttle[id].attempts + Cardinality(In) <= ThrottleAttempts - 1 + Cardinality(Browsers)
  BY DEF LimitHolds
<1>10. /\ NoEntry.attempts = 0
       /\ cleaned[id] \in {throttle[id], NoEntry} /\ cleaned[id] \in Entries
  BY CleanedEntries DEF NoEntry
<1>11. check_attempt(id) => cleaned[id].until = Never /\ cleaned[id].attempts < ThrottleAttempts
  <2>1. check_attempt(id) => cleaned[id].until = Never
    BY CleanedEntries DEF check_attempt
  <2> QED  BY <1>8, <1>9, <1>10, <2>1
<1>12. b \in In \/ b \notin Out => Out \in SUBSET In
  BY <1>2 DEF Inflight
<1>13. b \in In \/ b \notin Out => Cardinality(Out) <= Cardinality(In)
  BY <1>5, <1>12, FS_Subset
<1> SUFFICES /\ throttle'[id].until = Never => throttle'[id].attempts < ThrottleAttempts
             /\ throttle'[id].attempts + Cardinality(Out) <= ThrottleAttempts - 1 + Cardinality(Browsers)
  BY <1>3
<1> DEFINE i == Cardinality(In)
           o == Cardinality(Out)
           n == Cardinality(Browsers)
<1>14. i \in Nat /\ o \in Nat /\ n \in Nat /\ o <= n /\ n >= 1
  BY <1>6, <1>7
<1>15. CASE b \notin In /\ b \in Out
  <2>1. r.pc \in Checked(id) /\ requests[b].pc \notin Checked(id)
    BY <1>2, <1>15 DEF Inflight
  <2>2. check_attempt(id) /\ throttle'[id] = cleaned[id]
    BY <1>1, <2>1 DEF Becomes
  <2> HIDE DEF i, o, n
  <2>3. throttle'[id].attempts \in Nat /\ throttle'[id].attempts < ThrottleAttempts
    BY <1>2, <1>11, <2>2 DEF Entries
  <2>4. throttle'[id].attempts + o <= ThrottleAttempts - 1 + n
    BY <1>8, <1>14, <2>3
  <2> QED  BY <2>3, <2>4 DEF o, n
<1>16. CASE b \in In \/ b \notin Out
  <2>1. o <= i /\ throttle[id].attempts + i <= ThrottleAttempts - 1 + n /\ throttle[id].attempts \in Nat
    BY <1>2, <1>9, <1>13, <1>16 DEF Entries
  <2>2. CASE throttle'[id] \in {throttle[id], NoEntry}
    <3> HIDE DEF i, o, n
    <3>1. throttle'[id].attempts + o <= ThrottleAttempts - 1 + n
      BY <1>8, <1>10, <1>14, <2>1, <2>2
    <3>2. throttle'[id].until = Never => throttle'[id].attempts < ThrottleAttempts
      BY <1>8, <1>9, <1>10, <2>2
    <3> QED  BY <3>1, <3>2 DEF o, n
  <2>3. CASE throttle'[id] = counted(throttle[id]) /\ requests[b].pc \in Checked(id) /\ requests'[b].pc = "idle"
    <3>1. b \in In /\ Out \in SUBSET (In \ {b})
      <4>1. "idle" \notin Checked(id)
        BY DEF Checked, Identifiers
      <4> QED  BY <1>2, <2>3, <4>1 DEF Inflight
    <3>2. o <= i - 1
      <4>1. IsFiniteSet(In \ {b}) /\ Cardinality(In \ {b}) = Cardinality(In) - 1
        BY <1>5, <3>1, FS_RemoveElement
      <4> QED  BY <1>6, <3>1, <4>1, FS_Subset
    <3> HIDE DEF i, o, n
    <3>3. /\ throttle'[id].attempts = throttle[id].attempts + 1
          /\ throttle'[id].until = (IF throttle[id].attempts + 1 >= ThrottleAttempts
                                    THEN clock + LockoutTime ELSE throttle[id].until)
      BY <1>2, <2>3, CountedEntry
    <3>4. throttle'[id].attempts + o <= ThrottleAttempts - 1 + n
      BY <1>8, <1>14, <2>1, <3>2, <3>3
    <3>5. throttle'[id].until = Never => throttle'[id].attempts < ThrottleAttempts
      BY <1>2, <1>8, <2>1, <3>3 DEF Never
    <3> QED  BY <3>4, <3>5 DEF o, n
  <2>4. CASE id = "reset" /\ check_attempt(id) /\ throttle'[id] = counted(cleaned[id])
    <3>1. Out = {}
      BY <2>4 DEF Checked
    <3>2. o = 0
      BY <3>1, FS_EmptySet
    <3> HIDE DEF i, o, n
    <3>3. /\ throttle'[id].attempts = cleaned[id].attempts + 1
          /\ throttle'[id].until = (IF cleaned[id].attempts + 1 >= ThrottleAttempts
                                    THEN clock + LockoutTime ELSE cleaned[id].until)
      BY <1>2, <1>10, <2>4, CountedEntry
    <3>4. cleaned[id].attempts \in Nat /\ cleaned[id].attempts < ThrottleAttempts
      BY <1>10, <1>11, <2>4 DEF Entries
    <3>5. throttle'[id].attempts + o <= ThrottleAttempts - 1 + n
      BY <1>8, <1>14, <3>2, <3>3, <3>4
    <3>6. throttle'[id].until = Never => throttle'[id].attempts < ThrottleAttempts
      BY <1>2, <1>8, <3>3, <3>4 DEF Never
    <3> QED  BY <3>5, <3>6 DEF o, n
  <2> QED  BY <2>2, <2>3, <2>4, ThrottleStep DEF ThrottleMoves, EntryMoves
<1> QED  BY <1>15, <1>16

\* The guard at the start.
LEMMA GuardInit == LoginInit => GuardInvariant
<1> SUFFICES ASSUME LoginInit PROVE GuardInvariant
  OBVIOUS
<1>1. SecretsInvariant
  BY SecretsInit
<1>2. requests = [b \in Browsers |-> NoRequest] /\ issued = {} /\ throttle = [i \in Identifiers |-> NoEntry] /\ passkeys = {}
  BY DEF LoginInit
<1>3. \A b \in Browsers : At(b, "idle")
  BY <1>2, NoRequestTyped DEF At
<1>4. SessionsAreDated
  BY <1>2, <1>3 DEF SessionsAreDated, At
<1>5. account.enrolled <=> Enrolled
  BY <1>2 DEF LoginInit, Enrolled, has_totp, has_webauthn
<1>6. FlagFollows
  BY <1>3, <1>5 DEF FlagFollows, At
<1>7. \A id \in Identifiers : Inflight(id) = {}
  BY <1>3 DEF Inflight, At, Checked, Identifiers
<1>8. LimitHolds
  <2>1. Cardinality({}) = 0 /\ Cardinality(Browsers) \in Nat /\ ThrottleAttempts \in Nat \ {0}
    BY LoginAssumption, FS_EmptySet, FS_CardinalityType
  <2> QED  BY <1>2, <1>7, <2>1 DEF LimitHolds, NoEntry
<1> QED  BY <1>1, <1>4, <1>6, <1>8 DEF GuardInvariant

\* The account keeps its guard (AccountIsGuarded): a password change ends the
\* sessions opened with the old one, the second factor is asked for while there is
\* one, and guesses are bounded by the limit and the requests already let through.
THEOREM AccountGuarded == LoginSpec => []AccountIsGuarded
<1>1. ASSUME GuardInvariant, SecretsInvariant', [LoginNext]_loginVars PROVE GuardInvariant'
  <2>1. CASE \E b \in Browsers : StepOf(b)
    <3> PICK b \in Browsers : StepOf(b)
      BY <2>1
    <3> QED  BY <1>1, DatedStep, FlagStep, LimitStep DEF GuardInvariant, SecretsInvariant
  <2>2. CASE LoginTick \/ UNCHANGED loginVars
    <3>1. UNCHANGED <<account, totp, passkeys, throttle, issued, requests, raced>>
      BY <2>2 DEF LoginTick, loginVars, accountVars, storeVars
    <3>2. SessionsAreDated'
      BY <1>1, <3>1 DEF GuardInvariant, SessionsAreDated, Dated, At
    <3>3. FlagFollows'
      BY <1>1, <3>1 DEF GuardInvariant, FlagFollows, Enrolled, has_totp, has_webauthn, At
    <3>4. LimitHolds'
      BY <1>1, <3>1 DEF GuardInvariant, LimitHolds, Inflight, Checked
    <3> QED  BY <1>1, <3>2, <3>3, <3>4 DEF GuardInvariant
  <2> QED  BY <1>1, <2>1, <2>2, StepsOfRequests
<1>2. GuardInvariant => AccountIsGuarded
  <2> SUFFICES ASSUME GuardInvariant PROVE AccountIsGuarded
    OBVIOUS
  <2>1. PasswordChangeEndsSessions
    BY DEF GuardInvariant, SessionsAreDated, Dated, PasswordChangeEndsSessions, usable
  <2>2. EnrolledMatchesFactors
    BY DEF GuardInvariant, FlagFollows, Enrolled, EnrolledMatchesFactors, At
  <2>3. GuessesAreThrottled
    <3> SUFFICES ASSUME NEW i \in Identifiers
                 PROVE  throttle[i].attempts <= ThrottleAttempts + Cardinality(Browsers) - 1
      BY DEF GuessesAreThrottled
    <3>1. throttle[i].attempts \in Nat /\ ThrottleAttempts \in Nat /\ IsFiniteSet(Browsers)
      BY LoginAssumption DEF GuardInvariant, SecretsInvariant, LoginTypeOK, RequestsTyped, Entries
    <3>2. Inflight(i) \in SUBSET Browsers
      BY DEF Inflight
    <3>3. Cardinality(Inflight(i)) \in Nat /\ Cardinality(Browsers) \in Nat
      BY <3>1, <3>2, FS_Subset, FS_CardinalityType
    <3>4. throttle[i].attempts + Cardinality(Inflight(i)) <= ThrottleAttempts - 1 + Cardinality(Browsers)
      BY DEF GuardInvariant, LimitHolds
    <3> DEFINE m == Cardinality(Inflight(i))
               n == Cardinality(Browsers)
    <3> HIDE DEF m, n
    <3>5. m \in Nat /\ n \in Nat /\ throttle[i].attempts + m <= ThrottleAttempts - 1 + n
      BY <3>3, <3>4 DEF m, n
    <3>6. throttle[i].attempts <= ThrottleAttempts + n - 1
      BY <3>1, <3>5
    <3> QED  BY <3>6 DEF n
  <2> QED  BY <2>1, <2>2, <2>3 DEF AccountIsGuarded
<1> QED  BY <1>1, <1>2, GuardInit, SecretsInvariantHolds, PTL DEF LoginSpec

=============================================================================
