-------------------------------- MODULE Cmi5 --------------------------------
(***************************************************************************)
(* Browser courses and the credit they give towards a training step        *)
(* (server/src/cmi5.rs, api/cmi5.rs and the cmi5 crate), composed with     *)
(* Training: a course that is passed completes the step its unit is bound  *)
(* to.                                                                     *)
(*                                                                         *)
(* A statement the content sends is checked against what is stored, stored,*)
(* credited and marked in separate database calls: the rest of a request   *)
(* is in sending, where other requests overtake it and where it may be     *)
(* lost.  Every launch is in Normal mode, as create_launch makes it.  A    *)
(* package is read and parsed in import_package; here it either is a good  *)
(* one or is refused.                                                      *)
(***************************************************************************)
EXTENDS Training, Sequences

CONSTANTS
    Units,          \* assignable units, each of a course of its own
    MoveOn,         \* what satisfies a unit: [Units -> verbs, or "NotApplicable"]
    Launches,       \* registrations
    StatementIds,   \* statement UUIDs the content makes up
    Says,           \* [StatementIds -> [verb, counts, score]]
    MasteryScore,
    FetchTtl, SessionTtl,
    MaxStatements   \* bound: statements stored

ASSUME CoursesAssumption ==
    /\ Says \in [StatementIds -> [verb : STRING, counts : BOOLEAN, score : Int]]
    /\ FetchTtl \in Nat /\ SessionTtl \in Nat

VARIABLES
    courses,    \* cmi5_courses: "none", "here" or "deleted", by unit
    dirs,       \* content directories on disk
    bound,      \* training_step_id of units: <<unit, step>>
    launches,   \* cmi5_registrations with their launch tokens
    log,        \* cmi5_statements of each registration, in order of arrival
    sending,    \* the rest of requests in progress
    credits,    \* how often a registration completed its step
    overlapped, \* whether two statements were ever in progress at once
    broken      \* whether a request or an import stopped half way
cmi5Vars == <<courses, dirs, bound, launches, log, sending, credits, overlapped, broken>>

CoursesInit ==
    /\ courses = [a \in Units |-> "none"] /\ dirs = {} /\ bound = {} /\ launches = {}
    /\ log = [g \in Launches |-> <<>>] /\ sending = {} /\ credits = [g \in Launches |-> 0]
    /\ overlapped = FALSE /\ broken = FALSE
Cmi5Init == TrainingInit /\ tool = [locked |-> FALSE, requires_training |-> TRUE] /\ CoursesInit

-----------------------------------------------------------------------------
(* Courses. *)

Rest(what, a) == [do |-> what, unit |-> a]

\* extract_all, all of it or up to an entry that is refused: what it wrote then stays on disk.
extract_all(a) ==
    /\ dirs' = dirs \cup {a}
    /\ \/ sending' = sending \cup {Rest("persist", a)} /\ broken' = broken
       \/ sending' = sending /\ broken' = TRUE
import_package(a) ==
    /\ courses[a] = "none" /\ a \notin dirs /\ extract_all(a)
    /\ UNCHANGED <<trainingVars, courses, bound, launches, log, credits, overlapped>>
\* The transaction with the tree of blocks and units; when it fails the files are removed.
import_package_persists(a) ==
    /\ Rest("persist", a) \in sending /\ sending' = sending \ {Rest("persist", a)}
    /\ \/ courses' = [courses EXCEPT ![a] = "here"] /\ dirs' = dirs
       \/ courses' = courses /\ dirs' = dirs \ {a}
    /\ UNCHANGED <<trainingVars, bound, launches, log, credits, overlapped, broken>>

delete_course(a) ==
    /\ courses[a] = "here" /\ courses' = [courses EXCEPT ![a] = "deleted"]
    /\ sending' = sending \cup {Rest("erase", a)}
    /\ UNCHANGED <<trainingVars, dirs, bound, launches, log, credits, overlapped, broken>>
delete_course_erases(a) ==
    /\ Rest("erase", a) \in sending /\ sending' = sending \ {Rest("erase", a)} /\ dirs' = dirs \ {a}
    /\ UNCHANGED <<trainingVars, courses, bound, launches, log, credits, overlapped, broken>>

\* An empty set unbinds.
assign_au_step(a, s) ==
    /\ courses[a] # "none"
    /\ s # {} => /\ \E x \in steps : x.id \in s /\ ~ x.assessed
                 /\ MoveOn[a] # "NotApplicable"
    /\ bound' = {b \in bound : b[1] # a} \cup {<<a, i>> : i \in s}
    /\ bound' # bound
    /\ UNCHANGED <<trainingVars, courses, dirs, launches, log, sending, credits, overlapped, broken>>

-----------------------------------------------------------------------------
(* Launches. *)

create_launch(g, a, u) ==
    /\ courses[a] = "here" /\ ~ \E l \in launches : l.id = g
    /\ launches' = launches \cup {[id |-> g, unit |-> a, who |-> u, fetch_until |-> today + FetchTtl,
                                   until |-> today + SessionTtl, sessions |-> 0, satisfied |-> FALSE]}
    /\ UNCHANGED <<trainingVars, courses, dirs, bound, log, sending, credits, overlapped, broken>>

\* One UPDATE whose filter holds for a link not yet consumed.  sessions counts the tokens handed out.
fetch_matches(l) == l.sessions = 0 /\ l.fetch_until > today
consume_fetch(l) ==
    /\ l \in launches /\ fetch_matches(l)
    /\ launches' = (launches \ {l}) \cup {[l EXCEPT !.sessions = @ + 1]}
    /\ UNCHANGED <<trainingVars, courses, dirs, bound, log, sending, credits, overlapped, broken>>
resolve_session(l) == l \in launches /\ l.sessions > 0 /\ l.until > today

-----------------------------------------------------------------------------
(* Statements. *)

AuVerbs == {"initialized", "completed", "passed", "failed", "terminated"}
is_au_verb(v) == v \in AuVerbs
\* The actor, registration and activity are the session's, or it is refused.
validate_cmi5_statement(i, mine) ==
    /\ mine /\ is_au_verb(Says[i].verb)
    /\ Says[i].verb = "passed" => Says[i].score >= MasteryScore

NewSession == [initialized |-> FALSE, terminated |-> FALSE, passed |-> FALSE, completed |-> FALSE, failed |-> FALSE]
is_moveon(i) == Says[i].counts
OutcomeOnly(m, i) == ~ m.terminated /\ is_au_verb(Says[i].verb)
\* apply refuses what may not come now.
apply_allowed(m, i) ==
    LET v == Says[i].verb
    IN  /\ ~ m.terminated /\ is_au_verb(v)
        /\ (v = "initialized") = ~ m.initialized
        /\ is_moveon(i) => /\ ~ (v = "passed" /\ m.failed)
                           /\ ~ (v = "failed" /\ m.passed)
apply(m, i) ==
    LET v == Says[i].verb
    IN  IF ~ apply_allowed(m, i) THEN m
        ELSE IF v \in {"initialized", "terminated"} THEN [m EXCEPT ![v] = TRUE]
        ELSE IF is_moveon(i) THEN [m EXCEPT ![v] = TRUE] ELSE m
\* The session replayed from its stored statements; what does not apply is passed over.
SessionState(stored) ==
    LET replay[n \in 0 .. Len(stored)] == IF n = 0 THEN NewSession ELSE apply(replay[n - 1], stored[n])
    IN  replay[Len(stored)]
evaluate_move_on(rule, m) ==
    CASE rule = "Passed" -> m.passed
      [] rule = "Completed" -> m.completed
      [] rule = "CompletedAndPassed" -> m.completed /\ m.passed
      [] rule = "CompletedOrPassed" -> m.completed \/ m.passed
      [] OTHER -> FALSE

Sent(what, l, i, m) == [do |-> what, launch |-> l.id, id |-> i, met |-> evaluate_move_on(MoveOn[l.unit], m)]
Statements == {p \in sending : p.do \in {"store", "grant", "mark"}}
Stored(i) == \E g \in Launches : \E n \in DOMAIN log[g] : log[g][n] = i
LaunchOf(p) == CHOOSE l \in launches : l.id = p.launch

\* A statement whose id is stored is answered as if it were new, and nothing is done.
record_statement(l, i, mine) ==
    /\ resolve_session(l) /\ validate_cmi5_statement(i, mine) /\ ~ Stored(i)
    /\ \A p \in Statements : p.id # i
    /\ apply_allowed(SessionState(log[l.id]), i)
    /\ sending' = sending \cup {Sent("store", l, i, apply(SessionState(log[l.id]), i))}
    /\ overlapped' = (overlapped \/ Statements # {})
    /\ UNCHANGED <<trainingVars, courses, dirs, bound, launches, log, credits, broken>>

grants(p) == p.met /\ (\E b \in bound : b[1] = LaunchOf(p).unit) /\ ~ LaunchOf(p).satisfied
record_statement_stores(p) ==
    /\ p \in sending /\ p.do = "store" /\ Len(log[p.launch]) < MaxStatements
    /\ log' = [log EXCEPT ![p.launch] = Append(@, p.id)]
    /\ sending' = (sending \ {p}) \cup (IF grants(p) THEN {[p EXCEPT !.do = "grant"]} ELSE {})
    /\ UNCHANGED <<trainingVars, courses, dirs, bound, launches, credits, overlapped, broken>>

\* The insert leaves the expiry out; only a row that was there before gets it.
record_step_completion(u, s) ==
    \E x \in get_training_step_by_id(s) :
        Put(u, s, "completed", IF RowOf(u, s) = {} THEN NoTerm ELSE calculate_expiry_date(x), "course", x.assessed)
grant_step(p) ==
    /\ p \in sending /\ p.do = "grant"
    /\ \E b \in bound : b[1] = LaunchOf(p).unit /\ record_step_completion(LaunchOf(p).who, b[2])
    /\ credits' = [credits EXCEPT ![p.launch] = @ + 1]
    /\ sending' = (sending \ {p}) \cup {[p EXCEPT !.do = "mark"]}
    /\ UNCHANGED <<steps, instructors, waivers, tool, trained, today, courses, dirs, bound, launches, log, overlapped, broken>>
record_statement_marks(p) ==
    /\ p \in sending /\ p.do = "mark" /\ sending' = sending \ {p}
    /\ launches' = {IF l.id = p.launch THEN [l EXCEPT !.satisfied = TRUE] ELSE l : l \in launches}
    /\ UNCHANGED <<trainingVars, courses, dirs, bound, log, credits, overlapped, broken>>

CourseRequestFails(p) ==
    /\ p \in sending /\ sending' = sending \ {p} /\ broken' = TRUE
    /\ UNCHANGED <<trainingVars, courses, dirs, bound, launches, log, credits, overlapped>>

\* What else happens to steps and progress meanwhile; instructors, waivers and lockouts touch neither.
\* A step that is deleted leaves its units unbound (ON DELETE SET NULL).
TrainingGoesOn ==
    /\ \/ \E s \in StepIds, term \in Terms, assessed \in BOOLEAN :
             create_training_step(s, FALSE, assessed, term) \/ update_training_step(s, {}, {assessed}, term)
       \/ \E s \in StepIds, u \in Learners : delete_training_step(s) \/ start_training_session(u, u, s)
       \/ \E u \in Learners, s \in StepIds : update_training_progress(TrainingStaff, u, s, "failed")
       \/ TrainingDayPasses
    /\ bound' = {b \in bound : \E x \in steps' : x.id = b[2]}
    /\ UNCHANGED <<courses, dirs, launches, log, sending, credits, overlapped, broken>>

Cmi5Next ==
    \/ \E a \in Units :
          \/ import_package(a) \/ import_package_persists(a) \/ delete_course(a) \/ delete_course_erases(a)
          \/ \E s \in {{}} \cup {{i} : i \in StepIds} : assign_au_step(a, s)
          \/ \E g \in Launches, u \in Learners : create_launch(g, a, u)
    \/ \E l \in launches : consume_fetch(l) \/ \E i \in StatementIds, mine \in BOOLEAN : record_statement(l, i, mine)
    \/ \E p \in sending :
          \/ record_statement_stores(p) \/ grant_step(p) \/ record_statement_marks(p) \/ CourseRequestFails(p)
    \/ TrainingGoesOn

Cmi5Spec == Cmi5Init /\ [][Cmi5Next]_<<trainingVars, cmi5Vars>>

-----------------------------------------------------------------------------
(* A course that can be launched has its content, at every point of an      *)
(* import or a deletion and wherever one stops half way.                    *)
CourseHasItsContent == \A a \in Units : courses[a] = "here" => a \in dirs

(* A launch link opens one session, however often it is followed.           *)
OneSessionPerLaunch == \A l \in launches : l.sessions <= 1

(* A statement of this kind that counts is stored. *)
Counted(g, v) == \E n \in DOMAIN log[g] : Says[log[g][n]].verb = v /\ Says[log[g][n]].counts

(* Credit follows the course's rules.  Of statements that did not overlap,   *)
(* a registration with credit has stored an initialized first, nothing       *)
(* after a terminated, a passed or a completed that counts for its rule, and *)
(* never both a pass and a failure that count.                               *)
CreditFollowsTheRules ==
    ~ overlapped => \A l \in launches : credits[l.id] > 0 =>
        /\ \A n \in DOMAIN log[l.id] :
              /\ (Says[log[l.id][n]].verb = "initialized") = (n = 1)
              /\ Says[log[l.id][n]].verb = "terminated" => n = Len(log[l.id])
        /\ ~ (Counted(l.id, "passed") /\ Counted(l.id, "failed"))
        /\ Counted(l.id, "passed") \/ Counted(l.id, "completed")
        /\ MoveOn[l.unit] \in {"Passed", "CompletedAndPassed"} => Counted(l.id, "passed")
        /\ MoveOn[l.unit] \in {"Completed", "CompletedAndPassed"} => Counted(l.id, "completed")

(* A registration gives credit once: an instructor who has failed the        *)
(* learner since is not overruled by a later statement of the same course.   *)
(* Overlapping statements and one that stopped before its mark may give it   *)
(* twice.                                                                    *)
CreditedOnce == ~ overlapped /\ ~ broken => \A g \in Launches : credits[g] <= 1

(* A course gives the credit that is due: from content that is there, in    *)
(* one session of a launch, by the course's rules, and once.                *)
CoursesGiveDueCredit == CourseHasItsContent /\ OneSessionPerLaunch /\ CreditFollowsTheRules /\ CreditedOnce

(* cmi5.rs:792-794: a grant "upserts the `user_training_progress` row to     *)
(* Completed with the step's expiry".  Whoever completes a step by a course  *)
(* must complete it again when its term is over.                             *)
CourseCreditExpires ==
    \A p \in progress, x \in steps :
        p.step = x.id /\ p.how = "course" /\ x.term # NoTerm => p.until # NoTerm
=============================================================================
