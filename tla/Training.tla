------------------------------ MODULE Training ------------------------------
(***************************************************************************)
(* Training for one tool: its steps, what each learner has done of them,   *)
(* instructors, waivers, and who may use the tool (server/src/api/         *)
(* training.rs, api/waivers.rs and their queries in database.rs).          *)
(*                                                                         *)
(* A handler is one step: what it has read of a step is not changed by     *)
(* staff before it writes.  Prerequisites are stored and shown and gate    *)
(* nothing (can_start_training_step is always true), so they are left out. *)
(***************************************************************************)
EXTENDS Integers, FiniteSets

CONSTANTS
    Learners,
    StepIds,
    Terms,              \* values of expires_after_days, NoTerm among them
    MaxTrainingSteps,   \* bound: requests made
    MaxTrainingDay      \* bound: the clock

ASSUME TrainingAssumption == -1 \in Terms /\ Terms \subseteq Int

VARIABLES
    steps,        \* training_steps of the tool
    progress,     \* user_training_progress: one row for a learner and a step
    instructors,  \* training_instructors: <<user, step, until>>
    waivers,      \* training_waivers: <<user, until>>
    tool,         \* the tool's lockout and requires_training
    trained,      \* requests made
    today
trainingVars == <<steps, progress, instructors, waivers, tool, trained, today>>

NoTerm == -1        \* NULL: never expires
TrainingStaff == "staff"    \* a caller with training.certify who may also edit steps
Callers == Learners \cup {TrainingStaff}

TrainingInit ==
    /\ steps = {} /\ progress = {} /\ instructors = {} /\ waivers = {}
    /\ tool \in [locked : BOOLEAN, requires_training : BOOLEAN] /\ trained = 0 /\ today = 0

Request == trained < MaxTrainingSteps /\ trained' = trained + 1 /\ today' = today

get_training_step_by_id(s) == {x \in steps : x.id = s}
RowOf(u, s) == {p \in progress : p.who = u /\ p.step = s}
calculate_expiry_date(x) == IF x.term = NoTerm THEN NoTerm ELSE today + x.term
has_user_progress_for_step(s) == \E p \in progress : p.step = s
tool_has_training_steps == steps # {}

-----------------------------------------------------------------------------
(* Who may use the tool. *)

user_has_completed_all_training_steps(u) ==
    \A x \in steps : \E p \in RowOf(u, x.id) :
        p.status = "completed" /\ (p.until = NoTerm \/ p.until >= today)
user_has_active_waiver(u) == \E w \in waivers : w[1] = u /\ (w[2] = NoTerm \/ w[2] > today)
user_is_authorized_for_tool(u) ==
    /\ ~ tool.locked
    /\ \/ ~ tool_has_training_steps /\ ~ tool.requires_training
       \/ user_has_active_waiver(u)
       \/ tool_has_training_steps /\ user_has_completed_all_training_steps(u)

-----------------------------------------------------------------------------
(* Steps, which staff edit. *)

reject_self_attestable_assessment(self, assessed) == self /\ assessed
db_create_training_step(s, self, assessed, term) ==
    steps \cup {[id |-> s, self |-> self, assessed |-> assessed, term |-> term]}
create_training_step(s, self, assessed, term) ==
    /\ Request /\ get_training_step_by_id(s) = {}
    /\ ~ reject_self_attestable_assessment(self, assessed)
    /\ steps' = db_create_training_step(s, self, assessed, term)
    /\ UNCHANGED <<progress, instructors, waivers, tool>>

\* A field the payload leaves out keeps its value, and the check is of what will be stored.
Field == {{}, {TRUE}, {FALSE}}
Given(field, old) == IF field = {} THEN old ELSE TRUE \in field
PayloadOnly(x, self, assessed) == reject_self_attestable_assessment(Given(self, FALSE), Given(assessed, FALSE))
update_rejected(x, self, assessed) ==
    reject_self_attestable_assessment(Given(self, x.self), Given(assessed, x.assessed))
update_training_step(s, self, assessed, term) ==
    /\ Request
    /\ \E x \in get_training_step_by_id(s) :
          /\ ~ update_rejected(x, self, assessed)
          /\ steps' = (steps \ {x}) \cup {[x EXCEPT !.self = Given(self, @),
                         !.assessed = Given(assessed, @), !.term = term]}
    /\ UNCHANGED <<progress, instructors, waivers, tool>>

\* Rows of instructors go with the step.
db_delete_training_step(s) == {x \in steps : x.id # s}
delete_training_step(s) ==
    /\ Request /\ ~ has_user_progress_for_step(s) /\ get_training_step_by_id(s) # {}
    /\ steps' = db_delete_training_step(s)
    /\ instructors' = {i \in instructors : i[2] # s}
    /\ UNCHANGED <<progress, waivers, tool>>

-----------------------------------------------------------------------------
(* Progress. *)

\* Who recorded a completion, and whether the step asked for an assessment then.
Put(u, s, status, until, how, assessed) ==
    progress' = (progress \ RowOf(u, s)) \cup
        {[who |-> u, step |-> s, status |-> status, until |-> until, how |-> how, assessed |-> assessed]}

\* A row that is there keeps its expiry.
db_start_training_session(u, s) ==
    LET old == {p.until : p \in RowOf(u, s)}
    IN  Put(u, s, "in_progress", IF old = {} THEN NoTerm ELSE CHOOSE d \in old : TRUE, "none", FALSE)
start_training_session(caller, u, s) ==
    /\ Request /\ (caller = u \/ caller = TrainingStaff) /\ get_training_step_by_id(s) # {}
    /\ db_start_training_session(u, s)
    /\ UNCHANGED <<steps, instructors, waivers, tool>>

is_certified_instructor(u, s) == \E i \in instructors : i[1] = u /\ i[2] = s /\ (i[3] = NoTerm \/ i[3] > today)
Judges(caller, s) == caller = TrainingStaff \/ is_certified_instructor(caller, s)
is_self_attestation(caller, u, x) == x.self /\ caller = u
can_complete(caller, u, x) == Judges(caller, x.id) \/ is_self_attestation(caller, u, x)

\* db complete_training_session updates the row there is, and starts none.
complete_training_session(caller, u, s, passed) ==
    /\ Request /\ RowOf(u, s) # {}
    /\ \E x \in get_training_step_by_id(s) :
          /\ can_complete(caller, u, x)
          /\ is_self_attestation(caller, u, x) => passed
          /\ Put(u, s, IF passed THEN "completed" ELSE "failed",
                 IF passed THEN calculate_expiry_date(x) ELSE NoTerm,
                 IF Judges(caller, s) THEN "judged" ELSE "self", x.assessed)
    /\ UNCHANGED <<steps, instructors, waivers, tool>>

\* The status alone: the expiry stays what it was.
update_user_training_progress(p, x, status) == Put(p.who, p.step, status, p.until, "judged", x.assessed)
update_training_progress(caller, u, s, status) ==
    /\ Request /\ Judges(caller, s)
    /\ \E p \in RowOf(u, s), x \in get_training_step_by_id(s) :
          update_user_training_progress(p, x, status)
    /\ UNCHANGED <<steps, instructors, waivers, tool>>

db_certify_instructor(u, s, until) == instructors \cup {<<u, s, until>>}
certify_instructor(u, s, until) ==
    /\ Request /\ get_training_step_by_id(s) # {} /\ ~ \E i \in instructors : i[1] = u /\ i[2] = s
    /\ instructors' = db_certify_instructor(u, s, until)
    /\ UNCHANGED <<steps, progress, waivers, tool>>
db_revoke_instructor_certification(i) == instructors \ {i}
revoke_instructor_certification(i) ==
    /\ Request /\ i \in instructors /\ instructors' = db_revoke_instructor_certification(i)
    /\ UNCHANGED <<steps, progress, waivers, tool>>

upsert_waiver(u, until) == {w \in waivers : w[1] # u} \cup {<<u, until>>}
grant_waiver(u, until) ==
    /\ Request /\ waivers' = upsert_waiver(u, until)
    /\ UNCHANGED <<steps, progress, instructors, tool>>
revoke_waiver(w) ==
    /\ Request /\ w \in waivers /\ waivers' = waivers \ {w}
    /\ UNCHANGED <<steps, progress, instructors, tool>>

\* Lockouts are Power's; here they come and go.
ToolLocked ==
    /\ Request /\ tool' = [tool EXCEPT !.locked = ~ @]
    /\ UNCHANGED <<steps, progress, instructors, waivers>>
TrainingDayPasses ==
    /\ today < MaxTrainingDay /\ today' = today + 1
    /\ UNCHANGED <<steps, progress, instructors, waivers, tool, trained>>

TrainingNext ==
    \/ \E s \in StepIds, term \in Terms :
          \/ \E self, assessed \in BOOLEAN : create_training_step(s, self, assessed, term)
          \/ \E self, assessed \in Field : update_training_step(s, self, assessed, term)
    \/ \E s \in StepIds : delete_training_step(s)
    \/ \E c \in Callers, u \in Learners, s \in StepIds :
          \/ start_training_session(c, u, s)
          \/ \E passed \in BOOLEAN : complete_training_session(c, u, s, passed)
          \/ \E status \in {"in_progress", "completed", "failed"} : update_training_progress(c, u, s, status)
    \/ \E u \in Learners, s \in StepIds, d \in {NoTerm, today + 1} : certify_instructor(u, s, d)
    \/ \E i \in instructors : revoke_instructor_certification(i)
    \/ \E u \in Learners, d \in {NoTerm, today + 1} : grant_waiver(u, d)
    \/ \E w \in waivers : revoke_waiver(w)
    \/ ToolLocked \/ TrainingDayPasses

TrainingSpec == TrainingInit /\ [][TrainingNext]_trainingVars

-----------------------------------------------------------------------------
(* Nobody signs off a step of their own that asks for an assessment: such a *)
(* row is completed by staff or an instructor, however staff turn the two   *)
(* flags of the step in between.                                            *)
AssessmentIsJudged ==
    \A p \in progress : p.status = "completed" /\ p.assessed => p.how # "self"

(* Time only takes access away: a day that passes, nobody having done       *)
(* anything, lets nobody in who was out, and puts out whoever's only waiver *)
(* ends then or whose completion ended the day before.                      *)
TimeOnlyTakesAway ==
    [][today' > today =>
          \A u \in Learners :
             /\ user_is_authorized_for_tool(u)' => user_is_authorized_for_tool(u)
             /\ (/\ steps # {} /\ \A w \in waivers : w[1] = u => w[2] = today'
                 /\ \E x \in steps : \A p \in progress :
                       p.who = u /\ p.step = x.id => p.status # "completed" \/ p.until = today)
                => ~ user_is_authorized_for_tool(u)']_trainingVars

(* Access by training is earned and kept up: nobody judges their own        *)
(* assessment, and neither does the passing of time.                        *)
TrainingIsEarned == [][AssessmentIsJudged']_trainingVars /\ TimeOnlyTakesAway
=============================================================================
