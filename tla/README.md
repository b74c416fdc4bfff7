# A TLA+ development for cooperative-systems-spaces

This directory models the server and the edge of the repository: who is using
which machine and when its relays may be closed, what a session costs, who may
enter, sign in and administer, and how the server stays in step with edges,
devices and outside services. TLC checks the models on small instances; TLAPS
proves the central results for every instance. `PROJECT.json` lists the
components, runs, mutants, source lines, findings, hazards and theorems.

## 1. Inventory

The **server** (`server/`, axum and Postgres) keeps the members, the tools, the
ledger and the policy. An **edge** (`edge/`) runs on site, keeps a copy of the
policy, answers card readers on a local MQTT broker and drives power modules.
**Modules** (`FIRMWARE.md`) switch relays. `css_lib` holds the wire types; the
CLI, kiosk, test tools and web frontends are clients.

| Component | State | Operations | Module |
|---|---|---|---|
| lease engine, `edge/src/modules.rs` | `Inner` behind one `RwLock`: wiring, readings, latches, leases, liveness, sessions, stops, stages, run-on | open/close session, reconcile, apply_state, observe, note_device_seen, note_relay_state, reset_latch, evaluate, renew, tick | `LeaseEngine` |
| session agreement, `edge/src/mqtt.rs`, `resources.rs`, `main.rs` | policy cache and stamp, a channel of 4 arrivals | handle_scan, remote_scan, handle_stop, apply_policy, reconcile | `SessionSync` |
| lease delivery, `edge/src/main.rs`, `mqtt.rs` | none | the watchdog loop, publish_tool_lease, handle_power | `LeaseDelivery` |
| tool activation and billing, `api/toolguard.rs`, `tool_billing.rs`, `session_sweep.rs` | `tools.status`, `tool_usage_sessions`, `membership_ledger` | activate, deactivate, report usage, boot_reset, settle, sweep | `ToolSession`, promise in `SessionLedger` |
| access decision, `api/tools.rs`, `api/resources.rs`, `edge/src/resources.rs` | tools, modules, rules, tiers, cards; the edge's policy | staff edits, authorize, build and apply the policy, decide | `Access` |
| doors, `doors.rs`, `schedules.rs`, `edge/src/doors.rs` | rules, schedules, snapshots, the strike | edits, compile, republish, check-in, decide, hold | `Doors` |
| policy broadcaster, `toolguard_broadcast.rs` | a pending batch with its due time | request, run | `Broadcast` |
| power lockout, `api/power.rs`, `edge/src/power.rs` | circuits, draws, locks, local trips | edits, report, trip, re-enable, snapshot | `Power` |
| bypass detection, `bypass.rs` | the audit log | three sweeps | `Bypass` |
| devices, `api/devices.rs`, `devices_transport.rs`, `mqtt.rs`, `edge/src/ws.rs`, `mqtt.rs` | invitations, devices, sockets, subscriptions | invite, register, connect, supervise, resubscribe | `Devices`, `Reports` |
| membership, `membership.rs`, `stripe.rs` | ledger, due dates, roles | checkout, webhook, cycle, staff credits | `Membership` |
| sign-in, `auth.rs`, `mfa.rs`, `throttle.rs` | password, versions, factors, challenges, links | login, verify, enrol, remove, change, reset | `Login` |
| addresses, roles, merges | `user_emails`; role tables and their cached graph; cards and rows of users | registration and links; edits and reload; merge | `Emails`, `Roles`, `Merging` |
| training and courses, `api/training.rs`, `cmi5.rs` | steps, progress, waivers; launches, statements | edits, sign-off, certify; import, launch, statement | `Training`, `Cmi5` |
| mailing list, `groupsio_sync.rs` | opt-outs; the group | events, reconcile, inbound webhook | `MailingList` |
| pages, `pages.rs` | checkout, store | refresh, publish | `Pages` |
| webhooks and shutdown, `webhooks.rs`, `shutdown.rs` | queue, jobs, deliveries | dispatch, retry, edit, drain | `Webhooks` |
| alerts, `alerts.rs` | audit rows, runs | raise, acknowledge, heartbeat | `Alerts` |
| settings and profiles, `config.rs`, `api/profiles.rs` | file, running copy, schema versions | boot, reload, publish, save | `Settings` |
| calendar, `calendar.rs`, `calendar/ics.rs` | cached bodies | fetch, parse, answer, publish to the kiosk | `Calendar` |
| places, `api/places.rs` | the tree of places | create, update, delete | `Places` |
| home links, `api/home_links.rs` | a table of links | create, update, delete, list | none: one row at a time |

What is hard here: the watchdog takes the engine's lock three times for one
decision; the edge decides first and tells the server later; the server's view
comes back late, by two routes; leases are lost by design; the server's handlers
interleave between database calls, and may fail or crash between them; copies of
the same rules are evaluated by different code on two machines; outside services
deliver twice, late or never; and a member, device or edge may simply never do
the next thing. Each such place is a `hazards` entry at its line.

What makes the components correct:

* *lease engine*: a stop is not undone by older news; a latched trip is neither
  renewed nor granted; run-on ends; a stage waits for the stages before it.
* *session agreement*: a tool is in use at the edge only after a yes that no stop
  followed; a session just opened is not retired by news from before it.
* *lease delivery*: no relay stays closed on a stale promise.
* *tool sessions*: a closed session is debited, once, within its hold; every
  hold and every tool is given back.
* *entry*: the reader, the check-in, the server and the edge agree; a copy never
  loses an edit to news stamped before it, and catches up.
* *people*: secrets are spent once; a password change ends sessions; nobody
  judges themselves; an administrator remains; a merge loses nothing.
* *office and outside*: each payment, event, alert and change takes effect once
  and in the end, across failures and restarts.
* *site*: trees stay trees; an overdrawn circuit is locked; what is lost comes
  back; the log tells the truth once.

## 2. Plan

Done: the engine and its compositions (`SessionSync`, `LeaseDelivery`), tool
sessions with their abstract ledger, one module for each component of the
inventory, and the proofs of section 6, which cover every safety property the runs
check but `AnswersAsAgreed`. Left: rooms in the session sweep, and usage reports of
two members on one tool.

## 3. Modules

**`LeaseEngine`** is `ModuleState`. Each variable is a field of `Inner`, with
`None` for an absent map entry; `pass` is where the watchdog task stands, and
`claimed` is history (the `as_of` of the sync behind each claim). Each method is
one action, because it is one critical section. `tick` is not: per tool it
takes the lock in `evaluate` (`Evaluate`), in the write half of `renew`
(`Renew`) and in its own body (`TickUnwired`, `TickAllow`, `TickDeny`), so other
methods run between. Device names, notes and reset labels are left out, as no
decision reads them. A `wiring` is `room` when it is a door with profile
`until_stopped`.

**`SessionSync`** extends the engine with the server's idea of each tool (one
bit), the POSTs, online scans, policy payloads with their two times (as-of and
stamp), the cache and the bounded channel. Constants switch what the network may
do. `granted`, `stopped`, `scanned` and `calm` are history; `calm` says that so far
every POST has reached the server in turn and before it read the tools for a poll,
no answer was lost and nothing was pushed.

**`LeaseDelivery`** extends the engine with messages on their way, each module's
own timer, relay reports and restarts. What a module does with a lease is
external, and taken from `FIRMWARE.md` and the edge's own handlers. `last_ok`
and `last_on` are history.

**`ToolSession`** is the server's path of a metered tool. Every process -- a
request, or the sweep -- is a record at a `pc`, and each step is one database
call with what the database guarantees of it: conditional updates, one open
session per tool, one ledger entry per session. `DatabaseFails` ends a step with
an error where the code can meet one, and follows what the caller does: a failed
settle is logged and passed over, others return. Times are ages in minutes that
stop at `OldAge`, past every comparison in the code. The instance bills prepaid,
a flat fee and one unit a minute.

**`SessionLedger`** is what `ToolSession` promises of a session row and its ledger
entry, with no processes: it is opened on a tool without an open session, debited
once within its hold, and closed after that. `ToolSession` instantiates it with
its rows and its ledger (`Ledger`), and `ImplementsLedger` says that requests,
sweep, failures and crashes together do nothing else. TLC checks it on the
instance of `tool_sessions`, and `SessionsKeepThePromise` proves it.

The other modules follow the same scheme. A handler whose statements others may
overtake is a record with a position, and one step per statement; one whose
statements are in a transaction, or that a comment at the head of the module says
runs alone, is one action. What leaves the server (pushes, mails, webhooks, calls to
Stripe, Groups.io, git) is a set of messages that may be lost, and repeated or
overtaken where the transport allows it.

* **`Access`** has the tables staff edit, the server's decision, the policy
  compiled for one edge and the edge's decision from the last policy it applied.
  A policy or doors snapshot is read in one step and stamped in a later one, as
  `compile_state_for` and `build_resource_policy` do (`doors.rs:123` and 148,
  `api/resources.rs:611` and 696), so an older reading may carry the newer stamp;
  `doorsAtStamp` is history.
  **`Doors`** has the same for one door, with schedules, the ticker and the strike.
  A schedule is in local time and `zone` says when and by how much the wall clock is
  set: `from_local_datetime` gives the instants that show a time, none where it is
  skipped and two where it is repeated, and `active_until` treats each as the code does.
  The ticker goes to the devices that have a door (`list_door_device_ids`).
* **`Broadcast`** is the coalescer and its task; **`Power`** the circuits and the two
  lockouts; **`Bypass`** the sweeps over the audit log; **`Devices`** registration and
  both transports; **`Reports`** who may report for whom; **`Places`** the tree.
* **`Membership`** goes statement by statement through webhooks, staff credits and
  the cycle; **`MailingList`** and **`Pages`** through events, reconciliations and
  refreshes. An address that moves is two calls to the group, each with its own
  outcome. A checkout remembers which branch was upstream's default when it was
  cloned (`origin_head`), as git does, and a reset finds its target by it.
* **`Login`**, **`Emails`**, **`Roles`**, **`Merging`** and **`Training`** are about accounts;
  **`Cmi5`** extends `Training`, as a course completes a step.
* **`Webhooks`** includes the shutdown tracker; **`Alerts`** the heartbeat;
  **`Settings`** the file, the running copy and the profile schema; **`Calendar`**
  reads feeds by what parsing decides: instants of wall clocks, series, overrides,
  the window.

The `MC*` modules hold instances. `MCPeople`, `MCOffice`, `MCEntry`, `MCOutside` and
`MCSite` each hold several components that share no state: a variable `part`,
chosen at the start, says which of them runs, so the states add up and do not
multiply. The `*_proofs` modules hold the proofs: `LeaseEngine_proofs`,
with the session agreement; `LeaseDelivery_proofs`, the engine with its modules;
`ToolSession_proofs`; `Login_proofs`; `People_proofs`, from `Emails` to `Cmi5`;
`Office_proofs`, with settings and membership; `Entry_proofs`, access and doors; and
`Site_proofs`, devices, places, circuits and the bypass log. A definition that nothing but `mutants` in `PROJECT.json` names, and that stands
before the one it replaces, is a deliberate fault: no specification uses it.

## 4. Runs

| Run | Instance | Shows |
|---|---|---|
| `engine` | one tool with both names, as tool, as room or not wired, clock 0..2, grace 2; and a fail-off plug behind a latching and a plain trip | `TypeOK`, `StopOutranksOlderSync`, `LatchedToolsAreOff`, with calls between any two locks of a pass |
| `sync` | calm network: a tool decided at the edge and one decided by the server, 3 member operations; faulty network: one online tool, POSTs late, lost and overtaken, answers lost, pushes, channel of 1 | `InUseOnlyAfterAYes`, `YoungSessionSurvives` |
| `delivery_stages` | extractor and machine in two stages; losses and restarts, reports handled as sent | `StageBehindEnergized` |
| `delivery_dead_man` | one fail-off plug with run-on; delays 1, clock 0..5, restarts | `NeverOnAStalePromise`, `RunOnNeverExtended` |
| `tool_sessions` | one tool, one member, two session rows, one handler and the sweep, one failure or crash, staff | the books (`SettledIsLedgered`, `ChargeWithinHold`, `DebitedOnce`), `EverythingIsGivenBack`, and the refinement `ImplementsLedger` |
| `people` | two browsers, five requests; two accounts, two addresses; two staff at two desks; three accounts that merge; one learner, one step, one course | `SecretsAreSpentOnce` and `AccountIsGuarded` (`Login`), `AddressesKeepTheirHolders` (`Emails`), `RolesStaySound`, `MergesKeepWhatCounts`, `TrainingIsEarned`, `CoursesGiveDueCredit` (`Cmi5`) |
| `office` | two webhooks and two events; two heartbeats; two controllers, window 2; drafts of the file, restarts; two calendars around a change of the clock | `DeliveriesAreKept` (`Webhooks`), `AlertsAreAccountedFor`, `ChangesGoOut` (`Broadcast`), `SettingsStaySound`, `AnswersAsAgreed` and `CalendarCatchesUp` |
| `entry` | one member with two cards at one door, windows that touch or end in a skipped or repeated hour, a wall clock set forward or back; one tool, one room, one edge and a plug; one lost message | `DoorsActAsWritten`, `DoorsEdgeCatchesUp`; `EdgeActsForTheServer`, `AccessCopiesConverge` |
| `outside` | one member and customer, one invoice, two days; one reader with two mailboxes; one repository with two branches, two changes upstream, two failures | `LedgerIsHonest`, `MembershipSettles`; `MailingListSettles`; `PublishedPagesCatchUp` |
| `site` | two circuits and two tools, one lost post; one module, debounce 1, clock 0..3, writes of the log that fail; two devices, one invitation, one outage; three places | `TreesStayTrees` (places), `PowerLocksAgree` (with the forest of circuits), `BypassLogIsTrue`, `DeviceRegistryHolds`, `DevicesReturn`, `ReportsAreHeard` |
| `edge_deaf` | `Devices` with one outage | an edge that has lost its broker once is deaf from then on |
| `cmi5_never_expires` | `Cmi5` with a step that must be repeated | the first credit a course gives never expires |

A property that states several facts of one promise is a conjunction of named
parts, each with its own comment beside it: `SecretsAreSpentOnce`, for instance, is
`RecoveryCodeWorksOnce`, `OneResetLinkAtMost` and `TotpCodeWorksOnce`. Its mutant
breaks one of the parts. Where a part is an invariant and another an action
property, the invariant is stated of the state each step leads to.

*Bounds.* The constants named `Max...`, `WireCap`, `SessionIds`, `Handlers` and
`LastHour` are bounds of the instances, not of the code. A clock of one grace with
a tick to spare lets a stop be made, remembered and forgotten; two session rows let
one be orphaned while the next is refused, settled and reopened; one failure is
enough to fall between any two calls, since each returns the process to a state it
could also start from. `delivery_stages` keeps the clock at one tick: what matters
is which of allow, report and denial came first, which the interleaving gives. In
the composed runs a bound counts requests, edits or losses, and is the smallest at
which each property's mutant is caught and every action fires, or one more. Two
browsers, desks, watchers or registrations are enough for one to overtake another
between two statements; three places or accounts are enough for a loop or a chain.
`ZonesM` sets the clock by two at its last tick, so an end can fall in the first minute
of a gap, in a later one, or be shown twice. `MaxAir` bounds what handlers and ticker
each have read and the pushes on their way, `MaxWire` what is under way of each kind, from
reading to arrival: with one of each a policy and a doors snapshot still overtake
each other between their readings and stamps. `DebounceSecs = 1` with a sweep clock to 3
leaves room for two stretches of power, one reported and one not yet. `PowerEnabled` is
`TRUE`: without it staff can only delete.
The runs with such bounds say `CHECK_DEADLOCK FALSE`, because the bound stops the
instance where the system would go on. `tool_sessions` checks deadlock.

*Environment assumed by the passing runs.* The calm network of `sync` assumes that
a POST reaches the server before it reads the tools for a later poll, that a poll
is answered within the grace, and that neither answers are lost nor pushes made:
set `PostsMayLag`, `PollBound` above `Grace`, `AnswersMayBeLost` or `PushesOn` and
TLC finds a tool in use that nobody was told yes for. `InUseOnlyAfterAYes` is
therefore conditional on `calm`; `YoungSessionSurvives` is not, and both networks are
checked for both. `delivery_stages` assumes `ReportDelay = 0`;
at 1 a report sent in the previous allow and handled in this one confirms a stage
that is off. `outside` has one renewal cycle and one reconciliation at a time.
Properties that hold only of requests that do not overlap say so in their
formula (`overlapped`, `editsOverlapped`, `disturbed`), as the code checks and writes
in separate statements there; the hazards say so at their lines. `Places` and `Power`
take staff requests one at a time.

*Fairness.* Weak fairness only, of tasks the programs run on a timer or in a loop:
the session sweep, the renewal cycle, the mailing list's consumer and its
reconciliation, the updater and the end of every git command (each has a deadline),
the doors' ticker, the publishing of a door's snapshot or of a policy once read, the
edge's polls and the handling of what it has received, the
three bypass sweeps, the devices' connection loops and keep-alives, the modules'
reports and pulses, the edge's calendar task and the age of a cached body. Nothing
else is assumed of requests: a handler may stop for ever after any of its calls. Losses
and outages are bounded in number, so what is promised is promised after the last.

## 5. Findings

Two runs find the code at odds with what it says:

* `edge_deaf`: `edge/src/mqtt.rs:124` subscribes once, and the client reconnects
  with a clean session; `FIRMWARE.md:1298` says what that makes of a client.
* `cmi5_never_expires`: `record_step_completion` inserts a first row without the
  dates it gives an updated one (`database.rs:2701`), against its own comment.

TLC also found these while the models were written. They have no run of their own,
since the property cannot hold of the code as it is and of its comment:

* a stop whose POST lags behind a poll is undone by its answer (`mqtt.rs:892`); two
  holds on one balance (`tool_billing.rs:381`); two overlapping renewal cycles charge
  the same dues (`membership.rs:434`). These are hazards with a note, which says what
  a checked property still covers.
* a debounced reading is taken for its opposite, which need not be the meaning it
  had (`modules.rs:536`, against 533-534); a latching trip that fires behind an
  unmet gate is not latched (`modules.rs:625`, against 659-660); a stage that a
  short second allow never reached counts as having been on and gets run-on
  (`modules.rs:861`, against 771-772), within the bound of `NeverOnAStalePromise`.

* an open-access hold whose end falls in a skipped hour lasts to the minute before
  that end, or is not made at all when that minute is skipped as well, against
  `schedules.rs:150-152` ("Prefer holding open a minute longer"); where the end is
  repeated, the door is not held after the first, and a hold made before the clock
  was set back runs on through times at which the schedule is shut. `HeldAsTheScheduleSays`
  states what does hold.
* a snapshot is stamped after it is read, so an older reading can be stamped later and
  replace newer doors at the edge until the next push or poll
  (`doors.rs:148`, `api/resources.rs:696`). `DoorsLoseOnlyConcurrentEdits` says which
  edits can be lost for that time.
* the deletion of a device's last door is pushed once (`api/doors.rs:543`): the ticker and
  `republish_all` visit only devices that have a door (`database.rs:5599-5609`). If it
  is lost or overtaken the edge goes on deciding by the door it had until its next
  poll, so `DoorsEdgeCatchesUp`, which is about pushes, is about doors that exist.
* a refresh of the pages looks up the branch in `origin/HEAD`, which a fetch does not
  move: with upstream's default branch renamed or deleted every later reset fails, and with
  another one made the default the old one is followed (`pages.rs:493`, 739-776), against
  `pages.rs:441-455`, which calls a repository "replaced wholesale" a non-event; and a
  clone that is killed may leave a directory that is taken for a checkout
  (`pages.rs:467`). `PublishedPagesCatchUp` is about the branch that was cloned, while
  upstream has it.
* a `null` parent is read as a field that is absent (`Option<Option<_>>` with
  `#[serde(default)]`), so a circuit or place that has a parent is never promoted to the
  top, against `api/power.rs:105` ("inner `None` = promote to a top-level trunk") and
  `api/places.rs:79`.

The models also allow these, the first with two members and a second handler. No
statement in the repository forbids them and no property excludes them: usage reported while a stop and a new scan fall between two reads
lands on the next member's session (`api/toolguard.rs:642`); a late stop settles the
session of an activation in progress (`api/toolguard.rs:509`), and the orphan sweep
one opened since it listed them (`tool_billing.rs:575`); a stop writes idle over
maintenance (`api/toolguard.rs:496`); a challenge begun with the old password
finishes after it was changed (`api/mfa.rs:570`); events still queued at shutdown
are dropped (`webhooks.rs:89`); an opt-in between the two reads of a reconciliation
is taken for a leaver (`groupsio_sync.rs:354`); a row about unauthorized power that was
decided on for one stretch and written after the next began counts for the next
(`bypass.rs:238`); after an outage of more payments than
the poll's limit the older ones are out of its reach (`stripe.rs:35`).

## 6. Proofs

Each theorem is of a specification, for every value of its constants that its
module's `ASSUME` allows: any number of tools, members, devices, requests at once,
losses and failures. There are 38 theorems in eight modules. Its argument is an inductive invariant (the property alone
is seldom one), one lemma for each action or kind of action, and a temporal step.
A hypothesis beyond the module's own is written in the theorem and discussed here.

**The edge** (`LeaseEngine_proofs`, `LeaseDelivery_proofs`)

* `EngineTyped`: `TypeOK` and `PassWellFormed`. `TypeOK` alone is not inductive:
  a pass between locks must name a tool and an instant, or `Renew` would write
  outside its maps.
* `StopsOutrankOlderSyncs`: `StopOutranksOlderSync` says what is in use *now*; a
  momentary session ends by the clock, so the invariant proved inductive
  (`StopInvariant`) says instead that a remembered stop leaves no local session
  at all, and no synced claim older than itself.
* `LatchedStaysOff`: under `StableTools` -- every snapshot wires every tool --
  `LatchedToolsAreOff`. The invariant adds that an Allow in the watchdog's
  hands is never for a latched tool; it holds because only `Renew` latches, and
  it latches the tool whose denial it holds. Without the hypothesis the result
  is false: a tool absent from the wiring for one evaluation is allowed.
* `RunOnEnds`, and `RunOnEndsAtTheModules` with modules, reports and restarts:
  `RunOnNeverExtended`, under `BindingsHaveOneTool`. A binding is a row of the
  server's table with one resource; were its id shown under two, the allow of one
  would put off the run-on of the other.
* `DeadMansSwitch`: `NeverOnAStalePromise` under `StableTools`, `ModulesStay` and
  `RunOnBounded`. The property is about closed relays; a relay closes by a lease
  that was offered by a pass that decided earlier. `DeadManInvariant` therefore
  dates all of them from the tool's last allow: relays, leases on their way,
  run-on, the entry `allowed_since`, and the verdict in a pass's hands.
  `ModulesStay` is needed because a plug carried to another tool finishes its lease
  for the first; `RunOnBounded` because the bound speaks of the longest run-on
  (a column of integers has one).
* `StagesFollow`: `StageBehindEnergized` under `FixedWiring` and `ReportDelay = 0`.
  `StageInvariant` says that a report is true of the tick it was sent in, that an
  offer is made once, and that offers of later stages wait for reports of this
  allow. With a delay the property fails, as section 4 says.
* `YoungSessionsSurvive`: `YoungSessionSurvives` of `SyncSpec`, whatever the network
  does. `YoungAreOpen` says more than that the tool is in use: the session is open
  exactly as the scan opened it, so that neither an older nor a newer claim about
  the tool can retire it within the grace.
* `InUseFollowsTheYes`: `InUseOnlyAfterAYes`, if `PollBound <= Grace`. The property is
  about the edge, and what the edge believes came from a channel, a payload, the
  server's tables and a POST before that. `CalmInvariant` says of each of them that
  what it claims is either right (the last yes is later than the last stop) or about
  to be undone: by a stop among the POSTs still to come, or, for a payload and an
  arrival, by a stop at the edge later than the payload's as-of time. The
  hypothesis is what keeps such a stop remembered until the payload is gone.

**Tool sessions** (`ToolSession_proofs`)

* `SettleInvariantHolds`: `SettleInvariant` is `TypeOK`, `Pending` (a process
  about to post or close names a row that exists and an amount within the
  ceiling; one about to close names a row already in the ledger) and `Books`
  (a closed row is in the ledger; a ledger entry is within its row's ceiling).
* `SessionTyped`, `ClosedSessionsAreDebited`, `HoldsCoverCharges` (under
  `ToolCap <= HoldCap`, which the code does not enforce: the hold uses the cap
  of the member's tier, the charge the tool's) and `NeverDebitedAgain` follow.
* `SessionsKeepThePromise`: `SessionSpec` implements `SessionLedger`, under the same
  hypothesis. Initial states map to initial states, and each step opens a row,
  posts a debit, closes a debited row or stutters. `PromiseInvariant` adds what
  only the mapping needs: a row never used is blank, and an amount about to be
  posted is at least the fee.

**Signing in** (`Login_proofs`)

* `SecretsSpentOnce`: `SecretsAreSpentOnce`, from `SecretsInvariant`: a code or link
  that was accepted is used up in the tables, one that a request holds between its
  read and its conditional update may have been used by another, and a TOTP
  code accepted is at or below the watermark while requests do not overlap.
* `AccountGuarded`: `AccountIsGuarded`, from `GuardInvariant`: sessions carry a version
  no newer than the account's, the second-factor flag follows the factors, and
  wrong guesses are counted or in the hands of one of finitely many requests.
  `SecretsAssumption` keeps the three kinds of secrets apart, as their tables do.

**People** (`People_proofs`)

* `AddressesHold`: `AddressesKeepTheirHolders`. `ReadersInvariant` is about the tables
  (an address is on one row, an account has one primary row, one administrator
  came by the setup address) whatever overlaps, and, while nothing has disturbed
  them, about links and the rest of requests: each mailed link and each mark
  about to be made is for the address it was mailed to.
* `TrainingEarned`: `TrainingIsEarned`. The invariant adds that no step is open to
  self-attestation and an assessment at once, since flags and rows are written at
  different times.
* `CoursesCredited`: `CoursesGiveDueCredit`. The rules are about statements stored,
  and the code decides by replaying them, so the invariant (`Tells`) relates the
  replay to the statements: what it says has happened is stored, in order. The
  replay is a recursive function; that one statement more is one more applied
  (`SessionGoesOn`) is an induction over the statements, from the least element of
  a set of naturals (`LeastElement`, by `WFMin`). The rest of the invariant follows
  a statement through its request: checked, stored, credited, marked.
* `RolesSound`: `RolesStaySound`. While edits do not overlap, what a desk holds between
  its read and its write is what the tables say (`Calm`); `FewerEdges` says that
  a graph with fewer edges has smaller closures, and `AdminRemains` that the check
  before an unassignment still stands when it is made.
* `MergesKept`: `MergesKeepWhatCounts`. `MergingInvariant` adds that an account that
  is there is its own heir and owns its rows and cards, and that a card has a
  time of its own, so that a code stands for one card at most.

**Entry** (`Entry_proofs`)

* `DoorsAsWritten`: `DoorsActAsWritten`. That the check-in and the reader agree is about
  two ways to expand the rules, through cards and through members; it needs that a
  member's cards are their own (`CardsAreTheirOwn`). How long a hold lasts is about
  `window_end`, a recursive function that goes from window to window, and about the
  conversion of its result. `WindowEndIsTheEnd` shows, by the least element of a set of
  naturals, that with finitely many windows it comes to rest, that where it rests no
  window is open, and that from now to there one always is. `InstantsOfATime`,
  `FirstInstant`, `ShownOnce` and `SkippedForward` say what a wall clock that is set once
  can show, and `ActiveUntilIsTheEnd` puts the two together: the instant returned is
  the end, or the last minute before a gap, and from now until it the wall clock is
  within the window or, set back, earlier than it is now.
* `EdgeStandsIn`: `EdgeActsForTheServer`, from the types of the tables and
  `WiringStands`: every binding is of a resource that exists, every rule of a tool that
  does with a source bound to it, through every deletion and unbinding. Of an edge
  whose lists are those of the tables the decision is compared case by case with the
  server's; the exceptions are in the property's formula.
* `OnlyConcurrentEditsLost`: `DoorsLoseOnlyConcurrentEdits`, the safety part of
  `AccessCopiesConverge`, for any number of payloads being read, stamped and on their
  way. Since stamps are taken after the reading, the order of stamps is not that of
  contents; what is inductive (`StampsOrderDoors`) is that no payload, in the making, on
  its way or applied, has doors newer than its stamp, and that of two stamps the later was
  taken when there were at least as many edits. A payload that is not stale was thus
  stamped after everything the edge holds was made, and what it lacks was edited between
  its own reading and stamp.

**Office and site** (`Office_proofs`, `Site_proofs`)

* `EveryDeliveryKept`: `DeliveriesAreKept`. An event is in the queue, in one job, or
  finished; a job goes through the webhooks it loaded in turn; delivery ids are
  not used again (`WebhooksInvariant`). `HookIds` is finite, as a table is.
* `EveryChangeGoesOut`: `ChangesGoOut`, from what the pending batch remembers and
  when its task wakes (`BroadcastInvariant`).
* `EveryAlertAccountedFor`: `AlertsAreAccountedFor`, from what each heartbeat under way
  has read and not yet written, and that acknowledgements and heartbeats are
  different events (`AckEvent # BeatEvent`: they are constants of the code).
* `SettingsSound`: `SettingsStaySound`. `SettingsInvariant` adds that the secret somebody
  was signed in with is in the file, and the running server's (`PromiseIsOnDisk`), that
  a schema was published before the first profile, and that what runs is whole.
  `SettingsAssumption` names the settings every configuration has.
* `PaymentsCount`: `PaymentPostedOnce`, and `LapseSeesEveryPayment` in every behaviour
  with `[]WithinReach`, for any number of cycles, webhooks and staff at once.
  `WithinReach` is what the code assumes in words ("a missed webhook is recent, so a
  small window suffices", `stripe.rs:33`): a payment a cycle owes and the ledger lacks
  is among the ten one poll lists. Without it a member whose older invoices were all
  missed can lapse. `FewAreWithinReach` says it holds while no customer has more
  invoices than that. `MembershipInvariant` follows each payment through the cycle that
  owes it: in the ledger, in a customer still to be polled, in the bills read, or
  being credited.
* `LedgerHonest`: `LedgerIsHonest` under the same, which adds that an administrator
  remains, for one cycle at a time. A demotion planned is of somebody beside whom
  there is another administrator (`RolePlanned`); webhooks promote only, so it is
  still so when it is written. Two cycles at once may each see the other's administrator
  (`membership.rs:434`, among the hazards), so the hypothesis is needed.
* `RegistryHolds`: `DeviceRegistryHolds`, from codes that are spent with the device
  they made, and sockets whose epochs are never used again.
* `PlacesStayATree`: `TreesStayTrees`, since a place goes under no place that has it
  among its ancestors, and whoever had neither before has the same ancestors after.
* `WalksUpEnd`: `CircuitsFormAForest`, the part of `PowerLocksAgree` the walks up the
  hierarchy rest on, from `WiringsAssumption` (what is there at the start is a forest)
  and the check of every re-parenting against the circuits above the new parent.
* `LogTellsChanges`: the safety part of `BypassLogIsTrue`. A sweep reads the latest row,
  goes on to others, and writes later; `LogInvariant` says that what it is about to
  write is still news (`RowsAreNews`), since each sweep has one row under way about one
  thing (`OneOfEach`), and that a stretch of power bears the instant it began,
  which is never after now (`PowerStampsPast`).

Proving changed the models where they were wrong: in `Login` a
secret that was removed could be enrolled again, though each setup generates a
new one, and the throttle's check cleaned the caller's entry only, not every stale
one; in `Doors` a card could be given to two members, which its table's
unique code forbids. Operators were restated to be reasoned about:
the ancestors of a place, the circuits above one and the roles a role inherits are the
least set closed under the step the code's loop takes (of circuits the code also
refuses an edit below a chain of more than 32, which only takes steps away), and the
latest row of the log is the one no other follows. Assumptions were added that name
what the code gives: markers such as `"no one"` are not accounts, tables are finite,
time limits are naturals, a card has one holder.

*Only model-checked.* Liveness (`EverythingIsGivenBack`, and the properties that end
in `Settles`, `CatchUp`, `CatchesUp`, `Converge`, `Return` or `Heard`, with the parts of
`PowerLocksAgree` and `BypassLogIsTrue` that say what comes about in the end): fairness
and `ENABLED` are outside the prover's reach. `AnswersAsAgreed` of the calendar compares
what parsing computes from the feeds of the instance with what was agreed; it is a
computation rather than an invariant, and its plans and limits are those of the
instance.

## 7. Not modelled

Card digests, sealing, signatures and TLS; message formats and wording; rounding to
cents, postpaid billing, free tiers and the two usage bases; rooms in the sweep;
listings, exports, statistics and the audit log where no decision reads it; parsing
of course packages; rendering of pages; mail beyond whether it was sent. The edge's
local web pages, TLS and counters, the command line, the kiosk and test tools and the
web frontends keep no state the rest relies on. Migrations and scripts are one-time
changes of data. Parts left out are listed, with reasons, under `components`.

`observe` and `reset_latch` are modelled although nothing in the repository
outside tests calls them yet: they are the engine's public interface for sensor
modules and operators.
