------------------------------ MODULE Calendar ------------------------------
(***************************************************************************)
(* The space's calendar: the feeds organisers keep elsewhere, what the     *)
(* server makes of them for a window of time, the cache between the two,   *)
(* and the list an edge publishes for the kiosk (server/src/calendar.rs,   *)
(* calendar/ics.rs, calendar/window.rs, api/calendar.rs,                   *)
(* edge/src/mqtt.rs, edge/src/calendar.rs).                                *)
(*                                                                         *)
(* Time is in hours, and so are wall clocks; the site's zone has one       *)
(* change of its clock.  A series is daily.  A list is the set of its      *)
(* entries.  The cache ages by a clock of its own, of minutes.             *)
(***************************************************************************)
EXTENDS Integers, FiniteSets, FiniteSetsExt

CONSTANTS
    Sources,            \* calendars, numbered as the configuration lists them
    CalendarOf,         \* [titles -> Sources]
    Plans,              \* what organisers may put in a calendar: [titles -> plans]
    Days,               \* the days a visitor may ask for
    Zones,              \* the site's zone: when its clock changes, and by how much
    DayLength, Lookahead,
    MaxEventsDisplay, MaxEventsInWindow, MaxOccurrences,
    CacheTime,          \* cache_duration_minutes
    PageReaders,        \* requests for the calendar page at once
    MaxBustle,          \* bound: changes organisers make, changes of what a
                        \* feed's URL answers, and requests for the page
    LastHour            \* bound: the clock

ASSUME CalendarAssumption ==
    /\ DayLength \in Nat \ {0} /\ CacheTime \in Nat \ {0} /\ Lookahead \in Nat /\ LastHour \in Nat
    /\ Sources \subseteq Nat /\ "edge" \notin PageReaders

VARIABLES
    zone,
    plans,      \* title -> the organisers' plan for it, if there is one
    reach,      \* source -> what its URL answers: the feed, a page, or nothing
    feeds,      \* CalendarService.cache: source -> the body held, and its age
    calls,      \* the requests being served
    screen,     \* the list the kiosk was sent last: what it was made from
    hour, bustle
calendarVars == <<zone, plans, reach, feeds, calls, screen, hour, bustle>>

Titles == DOMAIN CalendarOf
Askers == PageReaders \cup {"edge"}
NotAsking == [at |-> "rest"]
Bustle == bustle < MaxBustle /\ bustle' = bustle + 1

-----------------------------------------------------------------------------
(* What organisers plan, and the components their calendar exports for it.  *)

\* A plan: how its times are written, when it begins and how long it lasts, how
\* often it is repeated, and what has become of each occurrence.
Step(form) == IF form = "date" THEN 1 ELSE DayLength
WallOf(p, k) == p.at + k * Step(p.form)
Becomes(is, at) == [is |-> is, at |-> at]

\* A series with its excluded dates, and for each occurrence that was moved or
\* called off a component that names the one it replaces and repeats the rule.  An
\* event that is not repeated is changed itself.
Part(u, p, at, replaces, exdates, cancelled) ==
    [uid |-> u, form |-> p.form, at |-> at, long |-> p.long, rule |-> p.last,
     replaces |-> replaces, exdates |-> exdates, cancelled |-> cancelled]
Now(p, k) == IF p.fate[k].is = "moved" THEN p.fate[k].at ELSE WallOf(p, k)
Fated(p, fates) == {k \in 0..p.last : p.fate[k].is \in fates}
exported(u, p) ==
    IF p.last = 0 THEN {Part(u, p, Now(p, 0), {}, {}, p.fate[0].is = "called_off")}
    ELSE {Part(u, p, p.at, {}, {WallOf(p, k) : k \in Fated(p, {"skipped"})}, FALSE)}
         \cup {Part(u, p, Now(p, k), {WallOf(p, k)}, {}, p.fate[k].is = "called_off") :
               k \in Fated(p, {"moved", "called_off"})}

\* What a feed's URL answers with: the calendar, or some page that is none.
Body(s) ==
    [ical |-> reach[s] = "feed",
     plans |-> [u \in {t \in Titles : CalendarOf[t] = s} |-> IF reach[s] = "feed" THEN plans[u] ELSE {}]]
components(body) == UNION {UNION {exported(u, p) : p \in body.plans[u]} : u \in DOMAIN body.plans}

-----------------------------------------------------------------------------
(* ics.rs: wall clocks and instants. *)

Wall(tz, i) == IF tz = "site" /\ i >= zone.at THEN i + zone.by ELSE i
from_local(w, tz) == {i \in {w, w - zone.by} : Wall(tz, i) = w}

\* The earlier of two instants; from within a gap, the next wall clock there is.
to_utc(w, tz) ==
    LET found == {n \in 0..3 : from_local(w + n, tz) # {}}
    IN  IF found = {} THEN w ELSE Min(from_local(w + Min(found), tz))
local_midnight(date) == to_utc(date * DayLength, "site")

\* A date, a time in UTC, or a wall clock; one that names no zone is the site's.
anchor_of(form, at) == [date |-> form = "date", at |-> at, tz |-> IF form = "utc" THEN "utc" ELSE "site"]
start_utc(a) == IF a.date THEN local_midnight(a.at) ELSE to_utc(a.at, a.tz)
Instant(c, at) == start_utc(anchor_of(c.form, at))

-----------------------------------------------------------------------------
(* ics.rs: from components to the events of a window. *)

\* A stated end is exclusive; an event without one counts where it starts.
overlaps(start, end, w) ==
    /\ start < w.to
    /\ IF \E e \in end : e > start THEN \E e \in end : e > w.from ELSE start >= w.from

build(c, start, end) == [title |-> c.uid, start |-> start, end |-> end]

\* What is handed to rrule.  A component that replaces an occurrence is no series,
\* whatever rule it repeats.
is_series(c) == c.replaces = {} /\ c.rule > 0
recurrence_lines(c) == {c.at + k * Step(c.form) : k \in 0..c.rule} \ c.exdates
rrule_all(c, after, before) ==
    LET all == {i \in {Instant(c, at) : at \in recurrence_lines(c)} : after <= i /\ i <= before}
    IN  {i \in all : Cardinality({j \in all : j < i}) < MaxOccurrences}

\* A date without an end lasts its day.
end_of(c) ==
    IF c.long # {} THEN {Instant(c, c.at + n) : n \in c.long}
    ELSE IF c.form = "date" THEN {local_midnight(c.at + 1)} ELSE {}

\* The window reaches back by the event's length, for one that is under way.
push_event(c, overridden, w) ==
    LET start == Instant(c, c.at)
        duration == {e - start : e \in end_of(c)}
        Ends(i) == {i + d : d \in duration}
        starts == IF ~ is_series(c) THEN {start}
                  ELSE {i \in rrule_all(c, w.from - Max(duration \cup {0}), w.to) : <<c.uid, i>> \notin overridden}
    IN  {build(c, i, Ends(i)) : i \in {j \in starts : overlaps(j, Ends(j), w)}}

is_cancelled(c) == c.cancelled

\* The occurrences with a component of their own, a cancelled one included.
UidOverridden(parts) == UNION {{<<c.uid, Instant(c, c.at + n)>> : n \in 0 .. c.rule * DayLength} : c \in {x \in parts : \E y \in parts : y.uid = x.uid /\ y.replaces # {}}}
overridden_by(parts) == UNION {{<<c.uid, Instant(c, at)>> : at \in c.replaces} : c \in parts}
parse_feed(body, w) ==
    LET parts == components(body)
    IN  UNION {push_event(c, overridden_by(parts), w) : c \in {x \in parts : ~ is_cancelled(x)}}

-----------------------------------------------------------------------------
(* calendar.rs and api/calendar.rs: a request takes the sources in turn, and *)
(* may wait for each of them; requests overlap.                              *)

\* The first so many in order of start and title.
truncate(list, n) ==
    {e \in list : Cardinality({f \in list : f.start < e.start \/ (f.start = e.start /\ f.title < e.title)}) < n}

\* `used` are the bodies read so far, from which the answer is made.
Asking(w, limit) == [at |-> "source", todo |-> Sources, window |-> w, limit |-> limit, used |-> {}]
Ask(c, w, limit) ==
    /\ calls[c] = NotAsking
    /\ calls' = [calls EXCEPT ![c] = Asking(w, limit)]
    /\ UNCHANGED <<zone, plans, reach, screen, hour>>

NextHours == [from |-> hour, to |-> hour + Lookahead * DayLength]
get_events(c) == Ask(c, NextHours, MaxEventsDisplay)

\* window.rs: a first and a last day, either of which may be left out; a midnight
\* that does not exist is taken an hour later, as if in UTC.
start_of_day(day) ==
    LET found == from_local(day * DayLength, "site") IN IF found = {} THEN day * DayLength + 1 ELSE Min(found)
bounds(first, last) ==
    [from |-> IF first = {} THEN hour ELSE start_of_day(CHOOSE d \in first : TRUE),
     to |-> IF last = {} THEN NextHours.to ELSE start_of_day(CHOOSE d \in last : TRUE) + DayLength]

\* A visit to the calendar page; a refresh drops every body held first.
get_calendar_events(c, first, last) ==
    /\ Bustle
    /\ IF first = {} /\ last = {} THEN get_events(c)
       ELSE bounds(first, last).to > bounds(first, last).from /\ Ask(c, bounds(first, last), MaxEventsInWindow)
    /\ UNCHANGED feeds
refresh_calendar_events(c) ==
    /\ Bustle
    /\ get_events(c)
    /\ feeds' = [s \in Sources |-> {}]

\* events_between: one more source is read.
Reads(c, s, body) ==
    calls' = [calls EXCEPT ![c] =
        [at |-> "source", todo |-> @.todo \ {s}, window |-> @.window, limit |-> @.limit,
         used |-> @.used \cup {body}]]

NextSource(c, s) == calls[c].at = "source" /\ s \in calls[c].todo /\ \A t \in calls[c].todo : s <= t

\* feed_body: the body held.
feed_body(c, s) ==
    /\ NextSource(c, s)
    /\ \E f \in feeds[s] : Reads(c, s, f.body)
    /\ UNCHANGED <<zone, plans, reach, feeds, screen, hour, bustle>>
\* Otherwise it is fetched: the answer is on its way, or the source is passed over.
feed_body_fetches(c, s) ==
    /\ NextSource(c, s) /\ feeds[s] = {}
    /\ calls' = [calls EXCEPT ![c] =
         IF reach[s] = "nothing" THEN [@ EXCEPT !.todo = @ \ {s}]
         ELSE [at |-> "fetched", of |-> s, body |-> Body(s), todo |-> @.todo, window |-> @.window,
               limit |-> @.limit, used |-> @.used]]
    /\ UNCHANGED <<zone, plans, reach, feeds, screen, hour, bustle>>
\* The body that came is held as of now, over any that came meanwhile.
feed_body_inserts(c) ==
    /\ calls[c].at = "fetched"
    /\ feeds' = [feeds EXCEPT ![calls[c].of] = {[body |-> calls[c].body, age |-> 0]}]
    /\ Reads(c, calls[c].of, calls[c].body)
    /\ UNCHANGED <<zone, plans, reach, screen, hour, bustle>>

\* Every source was read or passed over; a body that is no calendar adds nothing.
Answered(c) == calls[c].at = "source" /\ calls[c].todo = {}
answer(c) ==
    truncate(UNION {parse_feed(b, calls[c].window) : b \in {x \in calls[c].used : x.ical}}, calls[c].limit)
Leaves(c) ==
    /\ Answered(c) /\ calls' = [calls EXCEPT ![c] = NotAsking]
    /\ UNCHANGED <<zone, plans, reach, feeds, hour, bustle>>

-----------------------------------------------------------------------------
(* The edge's calendar task and the kiosk. *)

\* An event without an end is taken to last an hour.
to_cal_event(e) ==
    [summary |-> e.title, start |-> e.start,
     is_ongoing |-> e.start <= hour /\ \E end \in (IF e.end = {} THEN {e.start + 1} ELSE e.end) : end > hour]
calendar_publisher_asks == get_events("edge") /\ UNCHANGED <<feeds, bustle>>
\* The kiosk is sent the answer, each event of it by to_cal_event.
calendar_publisher_task ==
    /\ Leaves("edge")
    /\ screen' = [used |-> calls["edge"].used, window |-> calls["edge"].window]
PageLeaves(c) == c # "edge" /\ Leaves(c) /\ UNCHANGED screen

-----------------------------------------------------------------------------
(* Organisers, their calendar service and time. *)

Plan(u, p) ==
    /\ Bustle /\ plans[u] # p /\ plans' = [plans EXCEPT ![u] = p]
    /\ UNCHANGED <<zone, reach, feeds, calls, screen, hour>>
UrlAnswers(s, with) ==
    /\ Bustle
    /\ reach[s] # with /\ reach' = [reach EXCEPT ![s] = with]
    /\ UNCHANGED <<zone, plans, feeds, calls, screen, hour>>
HourPasses ==
    /\ hour < LastHour /\ hour' = hour + 1
    /\ UNCHANGED <<zone, plans, reach, feeds, calls, screen, bustle>>
\* A body as old as the cache's time is never read again, and is dropped here.
HeldForGood(f) == FALSE
expires(f) == f.age + 1 >= CacheTime
BodiesAge ==
    /\ \E s \in Sources : feeds[s] # {}
    /\ feeds' = [s \in Sources |-> {[f EXCEPT !.age = Min({@ + 1, CacheTime})] : f \in {g \in feeds[s] : ~ expires(g)}}]
    /\ UNCHANGED <<zone, plans, reach, calls, screen, hour, bustle>>

CalendarInit ==
    /\ zone \in Zones
    /\ plans = [u \in Titles |-> {}] /\ reach = [s \in Sources |-> "feed"]
    /\ feeds = [s \in Sources |-> {}] /\ calls = [c \in Askers |-> NotAsking]
    /\ hour = 0 /\ bustle = 0
    /\ screen = [used |-> {}, window |-> NextHours]

ServesCalendar(c) ==
    \/ \E s \in Sources : feed_body(c, s) \/ feed_body_fetches(c, s)
    \/ feed_body_inserts(c)
CalendarEdge == calendar_publisher_asks \/ ServesCalendar("edge") \/ calendar_publisher_task

CalendarNext ==
    \/ CalendarEdge
    \/ \E c \in PageReaders : ServesCalendar(c) \/ PageLeaves(c) \/ refresh_calendar_events(c)
    \/ \E c \in PageReaders, first, last \in {{}} \cup {{d} : d \in Days} : get_calendar_events(c, first, last)
    \/ \E u \in Titles : \E p \in Plans[u] \cup {{}} : Plan(u, p)
    \/ \E s \in Sources, with \in {"feed", "page", "nothing"} : UrlAnswers(s, with)
    \/ HourPasses \/ BodiesAge

\* The edge's task is on a ticker, and minutes pass.  A visitor's request may
\* never be finished, and a feed may stay unreachable for good.
CalendarFairness == WF_calendarVars(CalendarEdge) /\ WF_calendarVars(BodiesAge)
CalendarSpec == CalendarInit /\ [][CalendarNext]_calendarVars /\ CalendarFairness

-----------------------------------------------------------------------------
(* Properties. *)

\* What organisers agreed on, with no regard to how a calendar says it.
FirstInstant(form, at) ==
    LET tz == IF form = "utc" THEN "utc" ELSE "site"
        w == IF form = "date" THEN at * DayLength ELSE at
    IN  Min({i \in {w - 1, w, w + 1, zone.at} : Wall(tz, i) >= w})
LastsUntil(p, at) ==
    {FirstInstant(p.form, at + n) : n \in IF p.long = {} /\ p.form = "date" THEN {1} ELSE p.long}
Meetings(u, p) ==
    UNION {CASE p.fate[k].is = "held" ->
                  {[title |-> u, start |-> FirstInstant(p.form, WallOf(p, k)),
                    end |-> {FirstInstant(p.form, WallOf(p, k)) + e - FirstInstant(p.form, p.at) : e \in LastsUntil(p, p.at)}]}
             [] p.fate[k].is = "moved" ->
                  {[title |-> u, start |-> FirstInstant(p.form, p.fate[k].at), end |-> LastsUntil(p, p.fate[k].at)]}
             [] OTHER -> {} : k \in 0..p.last}
During(e, w) == \E i \in w.from .. (w.to - 1) : e.start = i \/ (e.start < i /\ \E end \in e.end : i < end)
Agreed(body, w) ==
    {e \in UNION {UNION {Meetings(u, p) : p \in body.plans[u]} : u \in DOMAIN body.plans} : During(e, w)}

\* An answer lists what the organisers of each calendar that was read had agreed
\* on for the window, across the change of the clock: an occurrence that was moved
\* at its new time only, one that was called off or skipped not at all, and one
\* under way still, as going on (parse_feed, push_event, to_cal_event).
AnswersAsAgreed ==
    \A c \in Askers : Answered(c) =>
        /\ answer(c) = truncate(UNION {Agreed(b, calls[c].window) : b \in calls[c].used}, calls[c].limit)
        /\ \A e \in answer(c) : to_cal_event(e).is_ongoing <=>
              e.start = hour \/ (e.start < hour /\ \E end \in e.end : hour < end)

\* Once organisers rest, the kiosk comes to show a list made from the calendars as
\* they are, all that can be reached, for the hours ahead: no body is held for good,
\* the late answer to an old request is replaced in time, and a feed that fails or
\* answers with a page takes nothing from the others (feed_body, events_between).
KioskCatchesUp ==
    <>[](/\ screen.window = NextHours
         /\ {b \in screen.used : b.ical} = {Body(s) : s \in {t \in Sources : reach[t] = "feed"}})
=============================================================================
