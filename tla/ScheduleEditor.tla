--------------------------- MODULE ScheduleEditor ---------------------------
(***************************************************************************)
(* A schedule from the editor, or from the old program, to the store:      *)
(* how the editor opens and sends a draft (config/ScheduleDraft.js), what  *)
(* normalize_schedule lets through (kdeaichat/schedule_model.py), the      *)
(* preview and the save of a draft (schedule_store.py, schedule_text.py)   *)
(* and the migration of a v1 entry (schedule_migrate.py).                  *)
(*                                                                         *)
(* The store holds one schedule (MAX_SCHEDULES is 1); the old file holds   *)
(* at most one entry and is migrated by the first command that looks at    *)
(* the store.  Chat, message and name of a schedule are the one field      *)
(* "complete", needsReview is "review".                                    *)
(***************************************************************************)
EXTENDS ScheduleCalendar, SequencesExt

CONSTANTS RawRules,      \* the rules the editor may send, refused ones too
          RawDates,      \* the pairs of start and end date it may send
          OldEntries,    \* the entries of schedules.json
          Nows,          \* the instants at which commands run
          Previews,      \* how many next runs a preview shows
          MaxEdits,      \* bound: changes of drafts (filling in the texts apart), none after a migration
          MaxRules       \* MAX_RULES

VARIABLES draft,    \* the schedule in the editor
          store,    \* schedules.v2.json: [made, schedules]
          old,      \* schedules.json: at most one entry
          runState, \* schedule-runs/: at most one, [lastRun, count, finished, finishedAt, history]
          now,
          reply,    \* the last command's answer
          edits

vars == <<draft, store, old, runState, now, reply, edits>>

HourSteps == {1, 2, 3, 4, 6, 8, 12}
DefaultHours == 12
NoReply == [kind |-> "none"]
Refused == [kind |-> "refused"]

-----------------------------------------------------------------------------
(* config/ScheduleDraft.js *)

\* The rule a weekly rule starts as when no day is taken yet.
defaultRule == [kind |-> "weekly", days |-> 0..6, times |-> {9 * 60}, everyWeeks |-> 1]
newSchedule == [known |-> FALSE, enabled |-> TRUE, archived |-> FALSE, complete |-> FALSE, review |-> FALSE,
                rules |-> <<[defaultRule EXCEPT !.days = 1..5]>>, start |-> Unset, end |-> Unset, limit |-> Unset,
                catchUp |-> [enabled |-> FALSE, hours |-> DefaultHours], createdAt |-> Unset, editedAt |-> Unset]
\* A listed schedule as it is opened: one that needs review is switched on
\* and gets a rule, for the save that finishes it.
fromListItem(s) ==
    [s EXCEPT !.review = FALSE, !.enabled = @ \/ s.review,
              !.rules = IF s.review /\ @ = << >> THEN <<defaultRule>> ELSE @]
\* What a command gets.
forSave(d) == [d EXCEPT !.limit = IF @ > 0 THEN @ ELSE Unset]

-----------------------------------------------------------------------------
(* schedule_model.py *)

_int(v, lo, hi, default) == (v = Unset /\ default # Unset) \/ v \in lo..hi
Default(v, default) == IF v = Unset THEN default ELSE v

ValidRule(r) ==
    CASE r.kind = "once" -> TRUE
      [] r.kind = "daily" -> r.times # {} /\ _int(r.everyDays, 1, 365, 1)
      [] r.kind = "weekly" -> r.times # {} /\ r.days # {} /\ r.days \subseteq 0..6 /\ _int(r.everyWeeks, 1, 52, 1)
      [] r.kind = "monthly" -> /\ r.times # {}
                               /\ r.day = LastOfMonth \/ _int(r.day, 1, 31, Unset)
                               /\ _int(r.everyMonths, 1, 12, 1)
      [] r.kind = "hourly" -> /\ Default(r.everyHours, 1) \in HourSteps
                              /\ _int(r.from, 0, 23, 0) /\ _int(r.to, 0, 23, 23) /\ _int(r.minute, 0, 59, 0)
                              /\ Default(r.from, 0) <= Default(r.to, 23)
      [] r.kind = "minutes" -> _int(r.everyMinutes, 1, 59, Unset) /\ r.everyMinutes >= MinGap
      [] r.kind = "cron" -> Parses(r.expr)
normalize_rule(r) ==
    CASE r.kind \in {"once", "minutes", "cron"} -> r
      [] r.kind = "daily" -> [r EXCEPT !.everyDays = Default(@, 1)]
      [] r.kind = "weekly" -> [r EXCEPT !.everyWeeks = Default(@, 1)]
      [] r.kind = "monthly" -> [r EXCEPT !.everyMonths = Default(@, 1)]
      [] r.kind = "hourly" -> [r EXCEPT !.everyHours = Default(@, 1), !.from = Default(@, 0),
                                        !.to = Default(@, 23), !.minute = Default(@, 0)]

Valid(raw) ==
    /\ Len(raw.rules) <= MaxRules
    /\ \A i \in DOMAIN raw.rules : ValidRule(raw.rules[i])
    /\ raw.enabled /\ ~raw.archived => raw.rules # << >> /\ raw.complete
    /\ raw.start # Unset /\ raw.end # Unset => raw.start <= raw.end
    /\ raw.limit \in {Unset, 0} \/ _int(raw.limit, 1, 100000, Unset)
    /\ _int(raw.catchUp.hours, 1, 168, DefaultHours)
\* The clean copy, or None when the schedule is refused.
normalize_schedule(raw, at) ==
    IF ~Valid(raw) THEN None
    ELSE {[raw EXCEPT !.known = TRUE,
                      !.rules = [i \in DOMAIN raw.rules |-> normalize_rule(raw.rules[i])],
                      !.limit = IF @ = 0 THEN Unset ELSE @,
                      !.catchUp.hours = Default(@, DefaultHours),
                      !.createdAt = Default(@, at), !.editedAt = Default(@, at)]}

\* A mutant: every save counts as an edit.
timing_changed_Always(was, new) == TRUE
timing_changed(was, new) ==
    \A s \in was : \E key \in {"enabled", "archived", "rules", "start", "end", "catchUp", "limit"} :
        s[key] # new[key]

-----------------------------------------------------------------------------
(* schedule_migrate.py *)

Only(v) == <<[a |-> v, b |-> Unset, step |-> Unset]>>
All == Only(Star)
Every(n) == <<[a |-> Star, b |-> Unset, step |-> n]>>
Cron(minutes, hours, doms, months, dows) ==
    [minutes |-> minutes, hours |-> hours, doms |-> doms, months |-> months, dows |-> dows]
NoCron == Cron(<< >>, << >>, << >>, << >>, << >>)

\* schedDays, as the dialog wrote them into the cron.
DayParts(days) == LET ds == IF days = {} THEN {1} ELSE days
                  IN [i \in 1..Cardinality(ds) |->
                         Only(CHOOSE d \in ds : Cardinality({e \in ds : e < d}) = i - 1)[1]]
\* What the old dialog built.
build_cron_v1(v) ==
    LET n == IF v.every \in {Unset, 0} THEN 1 ELSE v.every
        hour == Only(TimeOf(v.start) \div 60)
        minute == Only(v.start % 60)
    IN CASE v.single \/ v.start = Unset -> NoCron
         [] OTHER ->
              CASE v.type = "minutes" -> Cron(Every(n), All, All, All, All)
                [] v.type = "hours" -> Cron(Only(0), Every(n), All, All, All)
                [] v.type \in {"days", "none"} -> Cron(minute, hour, IF n = 1 THEN All ELSE Every(n), All, All)
                [] v.type = "weeks" -> Cron(minute, hour, All, All, DayParts(v.days))
                [] v.type = "months" ->
                     Cron(minute, hour, Only(Default(v.dom, 1)), IF n = 1 THEN All ELSE Every(n), All)

\* A mutant: a step of an hour or more is one of half an hour.
_rule_from_fields_Half(v) ==
    IF v.type = "minutes"
    THEN <<[kind |-> "minutes", everyMinutes |-> Max({15, Min({v.every, 30})})], v.every < 15>>
    ELSE <<[kind |-> "daily", times |-> {TimeOf(v.start)}, everyDays |-> 1], TRUE>>
\* The rule the user picked, and whether its value had to be changed.
_rule_from_fields(v) ==
    LET n == IF v.every < 1 THEN 1 ELSE v.every
        at == {TimeOf(v.start)}
        minute == v.start % 60
    IN CASE v.type = "minutes" ->
              IF n >= 60
              THEN <<[kind |-> "hourly", everyHours |-> 1, minute |-> 0, from |-> Unset, to |-> Unset], FALSE>>
              ELSE <<[kind |-> "minutes", everyMinutes |-> Max({15, n})], n < 15>>
         [] v.type = "hours" ->
              IF n \in HourSteps
              THEN <<[kind |-> "hourly", everyHours |-> n, minute |-> minute, from |-> Unset, to |-> Unset], FALSE>>
              ELSE <<[kind |-> "cron", expr |-> Cron(Only(minute), Every(Min({n, 23})), All, All, All)], n > 23>>
         [] v.type = "weeks" ->
              LET days == v.days \cap 0..6
              IN <<[kind |-> "weekly", days |-> IF days = {} THEN {1} ELSE days, times |-> at,
                    everyWeeks |-> Min({n, 52})], n > 52>>
         [] v.type = "months" ->
              <<[kind |-> "monthly", day |-> Min({31, Max({1, v.dom})}), times |-> at,
                 everyMonths |-> Min({n, 12})], n > 12>>
         [] v.type \in {"days", "none"} ->
              <<[kind |-> "daily", times |-> at, everyDays |-> Min({n, 365})], n > 365>>

_rules(v) ==
    IF v.single
    THEN IF v.start = Unset THEN <<<< >>, TRUE>> ELSE <<<<[kind |-> "once", at |-> v.start]>>, FALSE>>
    ELSE IF v.cron # NoCron /\ v.cron # build_cron_v1(v)
    THEN IF Parses(v.cron) THEN <<<<[kind |-> "cron", expr |-> v.cron]>>, FALSE>> ELSE <<<< >>, TRUE>>
    ELSE IF v.start = Unset \/ (v.cron = NoCron /\ v.type = "none") THEN <<<< >>, TRUE>>
    ELSE LET picked == _rule_from_fields(v) IN <<<<picked[1]>>, picked[2]>>

\* One v1 entry as a v2 definition, switched off and marked for review when it is incomplete.
\* None: refused both times, and with it the whole migration.
migrate_schedule(v, at) ==
    LET rules == _rules(v)
        raw == [newSchedule EXCEPT !.enabled = v.enabled /\ ~v.archived /\ ~rules[2], !.archived = v.archived,
                    !.complete = v.complete, !.rules = rules[1], !.review = rules[2],
                    !.start = IF v.start = Unset \/ v.single THEN Unset ELSE DayOf(v.start),
                    !.limit = IF v.limit = 0 THEN Unset ELSE v.limit,
                    !.catchUp = [enabled |-> v.missed, hours |-> DefaultHours],
                    !.createdAt = Default(v.createdAt, at), !.editedAt = at]
        first == normalize_schedule(raw, at)
    IN IF first # None THEN first ELSE normalize_schedule([raw EXCEPT !.enabled = FALSE, !.review = TRUE], at)

\* Its run state: an entry for one time that has run is over.
migrate_run_state(v, at) ==
    LET finished == v.single /\ v.lastRun # Unset
    IN [lastRun |-> v.lastRun, count |-> Max({0, v.count}), finished |-> finished,
        finishedAt |-> IF finished THEN at ELSE Unset, history |-> v.history]

\* A mutant: the last hour of a range is forgotten.
_rule_hm_Short(r) ==
    CASE r.kind = "once" -> {TimeOf(r.at)}
      [] r.kind = "hourly" -> Times(Stepped(r.from, r.to - 1, r.everyHours), {r.minute})
      [] r.kind = "cron" -> LET p == parse(r.expr) IN Times(p.hours, p.minutes) \ {Max(Times(p.hours, p.minutes))}
      [] r.kind \in {"daily", "weekly", "monthly"} -> r.times \ {Min(r.times)}
      [] r.kind = "minutes" -> {}
\* The times of day a rule names.
_rule_hm(r) ==
    CASE r.kind = "once" -> {TimeOf(r.at)}
      [] r.kind = "hourly" -> Times(Stepped(r.from, r.to, r.everyHours), {r.minute})
      [] r.kind = "cron" -> LET p == parse(r.expr) IN Times(p.hours, p.minutes)
      [] r.kind \in {"daily", "weekly", "monthly"} -> r.times
      [] r.kind = "minutes" -> {}

\* What the editor should point out of a schedule; none of it stops a save.
\* Two o'clock is the code's own, whichever hour the clocks skip.
warnings(s, at) ==
    LET rules == {s.rules[i] : i \in DOMAIN s.rules} IN
    {w \in {"clock change", "short month", "restarts", "never"} :
        CASE w = "clock change" -> \E r \in rules : _rule_hm(r) \cap 120 .. 179 # {}
          [] w = "short month" -> \E r \in rules : r.kind = "monthly" /\ r.day # LastOfMonth /\ r.day >= 29
          [] w = "restarts" -> \E r \in rules : r.kind = "minutes" /\ 60 % r.everyMinutes # 0
          [] w = "never" -> rules # {} /\ next_occurrences(s, at, 1) = {}}

-----------------------------------------------------------------------------
(* schedule_store.py *)

\* schedules.json is too large, or no JSON: the command fails, now and later.
Unreadable == [unreadable |-> TRUE]

\* The store after load_store: made from the old file the first time.  No
\* value: the old entry cannot be migrated and the command fails.
LoadedStore ==
    IF store.made THEN {store}
    ELSE IF old = {} THEN {[made |-> TRUE, schedules |-> {}]}
    ELSE {[made |-> TRUE, schedules |-> {s}] : s \in UNION {migrate_schedule(v, now) : v \in old \ {Unreadable}}}

\* The run states a migration writes before the store: one that is there stays.
MigratedRuns ==
    IF store.made \/ runState # {} \/ LoadedStore = {} THEN runState ELSE {migrate_run_state(v, now) : v \in old}

Init ==
    /\ draft = newSchedule /\ reply = NoReply
    /\ store = [made |-> FALSE, schedules |-> {}]
    /\ old \in {{}, {Unreadable}} \cup {{v} : v \in OldEntries}
    /\ runState = {}
    /\ now = Min(Nows)
    /\ edits = IF old = {} THEN 0 ELSE MaxEdits

\* The user changes the draft.
Edit(new) ==
    /\ draft' = new /\ new # draft
    /\ reply' = NoReply
    /\ UNCHANGED <<store, old, runState, now>>
Change(new) == edits < MaxEdits /\ edits' = edits + 1 /\ Edit(new)
Edits ==
    \/ Edit([draft EXCEPT !.complete = TRUE]) /\ UNCHANGED edits
    \/ Change([draft EXCEPT !.complete = FALSE])
    \/ \E r \in RawRules : Change([draft EXCEPT !.rules = Append(@, r)])
    \/ \E r \in RawRules : \E i \in DOMAIN draft.rules : Change([draft EXCEPT !.rules[i] = r])
    \/ \E i \in DOMAIN draft.rules : Change([draft EXCEPT !.rules = RemoveAt(@, i)])
    \/ \E d \in RawDates : Change([draft EXCEPT !.start = d[1], !.end = d[2]])
    \/ \E b \in BOOLEAN : Change([draft EXCEPT !.enabled = b])
    \/ \E n \in {0, -5} : Change([draft EXCEPT !.limit = n])
    \/ \E h \in {0, 5} : Change([draft EXCEPT !.catchUp = [enabled |-> TRUE, hours |-> h]])

\* The editor is opened on the stored schedule, or on a new one.
schedules_list ==
    /\ IF LoadedStore = {}
       THEN reply' = Refused /\ UNCHANGED <<store, draft>>
       ELSE \E loaded \in LoadedStore :
                /\ store' = loaded
                /\ draft' \in (IF loaded.schedules = {} THEN {newSchedule} ELSE {fromListItem(s) : s \in loaded.schedules})
                /\ reply' = [kind |-> IF store.made THEN "listed" ELSE "migrated"]
    /\ runState' = MigratedRuns
    /\ UNCHANGED <<old, now, edits>>

\* The first command is killed before it has written the store.
migration_killed ==
    /\ ~store.made /\ runState = {} /\ old # {} /\ LoadedStore # {}
    /\ runState' = MigratedRuns /\ reply' = NoReply
    /\ UNCHANGED <<draft, store, old, now, edits>>

\* The draft as cmd_schedule_preview looks at it.
Previewed == normalize_schedule([forSave(draft) EXCEPT !.enabled = FALSE], now)
schedule_preview ==
    /\ IF Previewed = None THEN reply' = Refused
       ELSE \E s \in Previewed :
                reply' = [kind |-> "preview", next |-> next_occurrences(s, now, Previews), warned |-> warnings(s, now)]
    /\ UNCHANGED <<draft, store, old, runState, now, edits>>

\* The draft as cmd_schedule_save normalises it over the stored one.
Merged(was) ==
    LET base == IF was = None THEN [forSave(draft) EXCEPT !.createdAt = now, !.editedAt = now]
                ELSE CHOOSE d \in {[forSave(draft) EXCEPT !.createdAt = s.createdAt, !.editedAt = s.editedAt] : s \in was} : TRUE
    IN {IF timing_changed(was, s) THEN [s EXCEPT !.editedAt = now] ELSE s : s \in normalize_schedule(base, now)}
Problems(s, analyzed) ==
    /\ s.enabled /\ ~s.archived
    /\ \/ check_lines(schedule_lines(s), now, analyzed)
       \/ next_occurrences(s, now, 1) = {}

schedule_save(analyzed) ==
    /\ IF LoadedStore = {} THEN reply' = Refused /\ UNCHANGED <<store, draft>>
       ELSE \E loaded \in LoadedStore :
            LET was == IF draft.known THEN loaded.schedules ELSE None
                accepted == {s \in Merged(was) : ~Problems(s, analyzed)}
            IN IF accepted = {} \/ (was = None /\ loaded.schedules # {})
               THEN store' = loaded /\ reply' = Refused /\ UNCHANGED draft
               ELSE /\ store' = [loaded EXCEPT !.schedules = accepted]
                    /\ reply' = [kind |-> "saved"]
                    /\ draft' = newSchedule
    /\ runState' = MigratedRuns
    /\ UNCHANGED <<old, now, edits>>

schedule_delete ==
    /\ store.schedules # {}
    /\ store' = [store EXCEPT !.schedules = {}]
    /\ reply' = NoReply /\ runState' = {}
    /\ UNCHANGED <<draft, old, now, edits>>

Tick(t) ==
    /\ t \in Nows /\ t > now /\ now' = t
    /\ reply' = NoReply
    /\ UNCHANGED <<draft, store, old, runState, edits>>

Next ==
    \/ Edits
    \/ schedules_list
    \/ migration_killed
    \/ schedule_preview
    \/ \E analyzed \in BOOLEAN : schedule_save(analyzed)
    \/ schedule_delete
    \/ \E t \in Nows : Tick(t)

Spec == Init /\ [][Next]_vars

-----------------------------------------------------------------------------
\* An every-N guard, or a cron star with a step beside a weekday, is left to
\* the job: the timer file also wakes it at other times.
Exact(r) ==
    CASE r.kind = "daily" -> r.everyDays = 1
      [] r.kind = "weekly" -> r.everyWeeks = 1
      [] r.kind = "monthly" -> r.everyMonths = 1
      [] r.kind = "cron" -> LET p == parse(r.expr)
                            IN (p.domStar => p.doms = 1..31) /\ (p.dowStar => p.dows = 0..6)
      [] OTHER -> TRUE

\* LINES RIGHT: the timer file of a schedule that was saved or migrated wakes
\* the job at every instant its rules select, and a rule without a guard that
\* OnCalendar= cannot express wakes it at no other instant: times that do not
\* share a minute, weekdays around Sunday, the last day of a month and cron's
\* day OR weekday all survive the translation (schedule_calendar.rule_lines,
\* schedule_cron.on_calendar).
LinesRight ==
    reply.kind \in {"saved", "migrated"} =>
        \A s \in store.schedules : \A i \in DOMAIN s.rules :
            LET lines == rule_lines(s.rules[i])
                exact == Exact(s.rules[i])
            IN \A d \in Days :
                LET wanted == {m \in {Instant(d, t) : t \in rule_times(s.rules[i], d, anchor_date(s))} : exists_locally(m)}
                    woken == UNION {Elapses(l, d) : l \in lines}
                IN wanted \subseteq woken /\ (exact => woken = wanted)

\* All the instants of a schedule.
AllOccurrences(s) == UNION {day_occurrences(s, d) : d \in Days}

\* WALKS RIGHT: the walk of next_occurrences from today finds the first
\* instants after now, and the walk of latest_occurrence the last one up to
\* now, whichever rule, date or clock change they come from; the first is what
\* the editor shows and what a save refuses without, the second is what the
\* job decides about.
WalksRight ==
    reply.kind = "saved" =>
        \A s \in store.schedules :
            LET all == {m \in AllOccurrences(s) : DayOf(m) < DayOf(now) + Horizon}
                past == {m \in AllOccurrences(s) : m <= now /\ DayOf(m) > DayOf(now) - Horizon}
                shown == next_occurrences(s, now, Previews)
            IN /\ \A m \in shown : m \in all /\ m > now
               /\ \A m \in all : m > now =>
                      m \in shown \/ (Cardinality(shown) = Previews /\ \A x \in shown : x < m)
               /\ latest_occurrence(s, now) = (IF past = {} THEN None ELSE {Max(past)})

\* TIMES RIGHT: the timer, the editor and the job agree on the instants of a schedule.
TimesRight == LinesRight /\ WalksRight

\* AS PREVIEWED: a save right after a preview stores a schedule with the next
\* runs that were shown, also for an every-N rule of a schedule made weeks
\* ago (createdAt, the anchor, outlives the edits), unless the schedule was
\* deleted meanwhile.  Saving what was opened without a change moves nothing,
\* so no instant is skipped as older than the edit; only a schedule that needs
\* review is switched on by it, reviewed, and counts from now
\* (schedule_store.cmd_schedule_save, schedule_model.timing_changed,
\* ScheduleDraft.fromListItem).
AsPreviewed ==
    [][reply'.kind = "saved" /\ (draft.known => store.schedules # {}) =>
           \A s \in store'.schedules :
               /\ reply.kind = "preview" => next_occurrences(s, now, Previews) = reply.next
               /\ \A was \in store.schedules : draft = fromListItem(was) =>
                      IF was.review THEN s.enabled /\ ~s.review /\ s.editedAt = now ELSE s = was]_vars

\* A monthly rule finds no such day in a month it is due in.
MissesMonth(r, anchor) ==
    \E i \in DOMAIN MonthLengths :
        /\ (i - Date[anchor].index) % r.everyMonths = 0
        /\ \A d \in Days : Date[d].index = i => rule_times(r, d, anchor) = {}
\* An every-N-minutes rule does not run N minutes after one of its times.
Uneven(r) == LET ts == rule_times(r, 0, 0) IN \E t \in ts : (t + r.everyMinutes) % 1440 \notin ts

\* WARNED: what a preview says nothing about does not happen: no rule (an
\* every-N-minutes rule apart) is ever due between two and three o'clock, no
\* monthly rule misses a month, no every-N-minutes rule is uneven; and the
\* preview says that a schedule never runs just when no later instant of its
\* rules and dates is left (schedule_text.warnings and _rule_hm, against the
\* days that schedule_rules.rule_times selects).
Warned ==
    reply.kind = "preview" =>
        \A s \in Previewed :
            /\ "never" \in reply.warned <=>
                   s.rules # << >> /\ \A m \in AllOccurrences(s) : m <= now \/ DayOf(m) >= DayOf(now) + Horizon
            /\ \A i \in DOMAIN s.rules :
                   LET r == s.rules[i]
                       anchor == anchor_date(s)
                   IN /\ r.kind # "minutes" /\ (\E d \in Days : \E t \in rule_times(r, d, anchor) : t \in 120 .. 179)
                             => "clock change" \in reply.warned
                      /\ r.kind = "monthly" /\ MissesMonth(r, anchor) => "short month" \in reply.warned
                      /\ r.kind = "minutes" /\ Uneven(r) => "restarts" \in reply.warned

\* What the old daemon ran: the cron of the entry.
OldTimes(v, d) == LET p == parse(v.cron)
                  IN IF day_matches(p, d) THEN Times(p.hours, p.minutes) ELSE {}

\* KEEPS TIMES: an entry of the old program that is migrated and left switched
\* on runs at the times it ran at before, from its first day on: every entry
\* whose cron was edited by hand, and every one the dialog made that repeats
\* each minutes-step, day, week or month, or each hours-step from minute 0 on
\* (the others are changed on purpose: every N counts from the start, hours
\* keep their minute).
Comparable(v) ==
    /\ ~v.single /\ v.cron # NoCron
    /\ v.cron = build_cron_v1(v) =>
           \/ v.type = "minutes"
           \/ v.type = "hours" /\ v.start % 60 = 0
           \/ v.type \in {"days", "weeks", "months", "none"} /\ v.every < 2
KeepsTimes ==
    reply.kind = "migrated" =>
        \A v \in old : \A s \in store.schedules :
            s.enabled /\ Comparable(v) =>
                \A d \in Days : d >= (IF s.start = Unset THEN 0 ELSE s.start) =>
                    UNION {rule_times(s.rules[i], d, anchor_date(s)) : i \in DOMAIN s.rules} = OldTimes(v, d)
=============================================================================
