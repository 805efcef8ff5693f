-------------------------- MODULE ScheduleCalendar --------------------------
(***************************************************************************)
(* When a schedule fires: the timing rules on a calendar                   *)
(* (kdeaichat/schedule_rules.py), the OnCalendar= lines they compile to    *)
(* (schedule_calendar.py) and cron rules (schedule_cron.py).               *)
(*                                                                         *)
(* Days are numbered from the first day of the calendar, an instant is a   *)
(* number of minutes since its midnight, and a time is a minute of a day.  *)
(* A rule is a record with the fields of its kind.  A cron field is a      *)
(* sequence of parts [a, b, step]: a is Star or the first value, b the     *)
(* last value of a range, step what follows the slash.  A line of a timer  *)
(* file is the record of the values its fields let through.                *)
(***************************************************************************)
EXTENDS Integers, Sequences, FiniteSetsExt

CONSTANTS MonthLengths,    \* how long the months of the calendar are
          FirstMonth,      \* the month of its first day, 1..12
          FirstWeekday,    \* and its weekday, 0 is Sunday
          Gap,             \* the instants that a clock change skips
          Horizon,         \* HORIZON_DAYS and LOOKBACK_DAYS
          MinGap           \* MIN_GAP_MINUTES, MIN_EVERY_MINUTES

Unset == -1                \* None
Star == -2                 \* "*"
LastOfMonth == -3          \* "last"
None == {}                 \* no value: a set of at most one is returned

Starts[i \in 1..Len(MonthLengths) + 1] ==
    IF i = 1 THEN 0 ELSE Starts[i - 1] + MonthLengths[i - 1]
Days == 0..Starts[Len(MonthLengths) + 1] - 1
Date == [d \in Days |->
    LET i == Max({j \in DOMAIN MonthLengths : Starts[j] <= d})
    IN [index |-> i, month |-> ((FirstMonth + i - 2) % 12) + 1, day |-> d - Starts[i] + 1,
        last |-> MonthLengths[i], weekday |-> (FirstWeekday + d) % 7]]

Instant(d, t) == d * 1440 + t
DayOf(m) == m \div 1440
TimeOf(m) == m % 1440
exists_locally(m) == m \notin Gap
MonFirst(weekday) == (weekday + 6) % 7
Monday(d) == d - MonFirst(Date[d].weekday)
Stepped(from, to, step) == {v \in from..to : (v - from) % step = 0}
Times(hours, minutes) == {h * 60 + m : h \in hours, m \in minutes}

-----------------------------------------------------------------------------
(* schedule_cron.py *)

ValidPart(p, lo, hi) ==
    /\ p.step = Unset \/ p.step >= 1
    /\ p.a # Star => /\ p.a \in lo..hi
                     /\ p.b = Unset \/ (p.b \in lo..hi /\ p.a <= p.b)
PartValues(p, lo, hi) ==
    LET step == IF p.step = Unset THEN 1 ELSE p.step
        from == IF p.a = Star THEN lo ELSE p.a
        to == IF p.a = Star THEN hi ELSE IF p.b # Unset THEN p.b ELSE IF step > 1 THEN hi ELSE p.a
    IN Stepped(from, to, step)
parse_field(field, lo, hi) == UNION {PartValues(field[i], lo, hi) : i \in DOMAIN field}

ValidFields(e) ==
    \A f \in {<<e.minutes, 0, 59>>, <<e.hours, 0, 23>>, <<e.doms, 1, 31>>,
              <<e.months, 1, 12>>, <<e.dows, 0, 7>>} :
        \A i \in DOMAIN f[1] : ValidPart(f[1][i], f[2], f[3])
parse(e) == [minutes |-> parse_field(e.minutes, 0, 59), hours |-> parse_field(e.hours, 0, 23),
             doms |-> parse_field(e.doms, 1, 31), months |-> parse_field(e.months, 1, 12),
             dows |-> {v % 7 : v \in parse_field(e.dows, 0, 7)},
             domStar |-> e.doms[1].a = Star, dowStar |-> e.dows[1].a = Star]

TooOften(p) ==
    \/ \E a \in p.minutes, b \in p.minutes : a < b /\ b - a < MinGap
    \/ /\ \E h \in p.hours : (h + 1) % 24 \in p.hours
       /\ Min(p.minutes) + 60 - Max(p.minutes) < MinGap
Parses(e) == ValidFields(e) /\ ~TooOften(parse(e))

day_matches(p, d) ==
    /\ Date[d].month \in p.months
    /\ IF p.domStar \/ p.dowStar
       THEN Date[d].day \in p.doms /\ Date[d].weekday \in p.dows
       ELSE Date[d].day \in p.doms \/ Date[d].weekday \in p.dows

-----------------------------------------------------------------------------
(* schedule_calendar.py: a line lets through the values of its fields *)

AnyDay == [on |-> Unset, dows |-> 0..6, months |-> 1..12, doms |-> 1..31, last |-> FALSE,
           hours |-> 0..23, minutes |-> {0}]

\* A mutant: all the hours with all the minutes in one line.
ClockLines_OneLine(line, times) ==
    {[line EXCEPT !.hours = {t \div 60 : t \in times}, !.minutes = {t % 60 : t \in times}]}
\* One line for the times that share the minute: commas apply per field.
ClockLines(line, times) ==
    {[line EXCEPT !.hours = {t \div 60 : t \in {u \in times : u % 60 = m}}, !.minutes = {m}]
        : m \in {t % 60 : t \in times}}

\* Weekdays as ranges that do not wrap, in Monday-first order.
days_spec(days) ==
    LET at == {MonFirst(w) : w \in days}
    IN {r \in at \X at : r[1] <= r[2] /\ r[1]..r[2] \subseteq at /\ r[1] - 1 \notin at /\ r[2] + 1 \notin at}
InRanges(ranges) == {w \in 0..6 : \E r \in ranges : MonFirst(w) \in r[1]..r[2]}

on_calendar(p) ==
    LET base == [AnyDay EXCEPT !.months = p.months, !.hours = p.hours, !.minutes = p.minutes]
        onDoms == [base EXCEPT !.doms = p.doms]
        onDows == [base EXCEPT !.dows = p.dows]
    IN IF p.domStar /\ p.dowStar THEN {base}
       ELSE IF p.dowStar THEN {onDoms}
       ELSE IF p.domStar THEN {onDows}
       ELSE {onDoms, onDows}

rule_lines(r) ==
    CASE r.kind = "once" -> {[AnyDay EXCEPT !.on = DayOf(r.at), !.hours = {TimeOf(r.at) \div 60},
                                            !.minutes = {TimeOf(r.at) % 60}]}
      [] r.kind = "daily" -> ClockLines(AnyDay, r.times)
      [] r.kind = "weekly" -> ClockLines([AnyDay EXCEPT !.dows = InRanges(days_spec(r.days))], r.times)
      [] r.kind = "monthly" ->
            ClockLines(IF r.day = LastOfMonth THEN [AnyDay EXCEPT !.last = TRUE]
                                              ELSE [AnyDay EXCEPT !.doms = {r.day}], r.times)
      [] r.kind = "hourly" -> {[AnyDay EXCEPT !.hours = Stepped(r.from, r.to, r.everyHours),
                                              !.minutes = {r.minute}]}
      [] r.kind = "minutes" -> {[AnyDay EXCEPT !.minutes = Stepped(0, 59, r.everyMinutes)]}
      [] r.kind = "cron" -> on_calendar(parse(r.expr))
schedule_lines(s) == UNION {rule_lines(s.rules[i]) : i \in DOMAIN s.rules}

\* systemd: the instants of a day at which a line elapses.
Elapses(line, d) ==
    IF /\ line.on \in {Unset, d}
       /\ Date[d].weekday \in line.dows
       /\ Date[d].month \in line.months
       /\ Date[d].day \in line.doms
       /\ line.last => Date[d].day = Date[d].last
    THEN {m \in {Instant(d, t) : t \in Times(line.hours, line.minutes)} : exists_locally(m)}
    ELSE {}
\* systemd: nothing is left of the line (no such date, or it is over).
NeverElapses(line, now) ==
    \/ line.on # Unset /\ \A m \in Elapses(line, line.on) : m <= now
    \/ \A k \in line.months, d \in line.doms :
           d > (IF k = 2 THEN 29 ELSE IF k \in {4, 6, 9, 11} THEN 30 ELSE 31)

\* What systemd-analyze has against the lines (nothing when it cannot be run).
check_lines(lines, now, analyzed) == analyzed /\ \E l \in lines : NeverElapses(l, now)

-----------------------------------------------------------------------------
(* schedule_rules.py *)

rule_times(r, d, anchor) ==
    CASE r.kind = "once" -> IF DayOf(r.at) = d THEN {TimeOf(r.at)} ELSE {}
      [] r.kind = "daily" -> IF (d - anchor) % r.everyDays # 0 THEN {} ELSE r.times
      [] r.kind = "weekly" ->
            IF \/ Date[d].weekday \notin r.days
               \/ ((Monday(d) - Monday(anchor)) \div 7) % r.everyWeeks # 0
            THEN {} ELSE r.times
      [] r.kind = "monthly" ->
            IF \/ Date[d].day # (IF r.day = LastOfMonth THEN Date[d].last ELSE r.day)
               \/ (Date[d].index - Date[anchor].index) % r.everyMonths # 0
            THEN {} ELSE r.times
      [] r.kind = "hourly" -> Times(Stepped(r.from, r.to, r.everyHours), {r.minute})
      [] r.kind = "minutes" -> Times(0..23, Stepped(0, 59, r.everyMinutes))
      [] r.kind = "cron" -> LET p == parse(r.expr)
                            IN IF day_matches(p, d) THEN Times(p.hours, p.minutes) ELSE {}

anchor_date(s) == IF s.start # Unset THEN s.start ELSE DayOf(s.createdAt)

day_occurrences(s, d) ==
    IF (s.start # Unset /\ d < s.start) \/ (s.end # Unset /\ d > s.end) THEN {}
    ELSE {m \in {Instant(d, t) : t \in UNION {rule_times(s.rules[i], d, anchor_date(s)) : i \in DOMAIN s.rules}} :
              exists_locally(m)}

After(m, now) == m > now

\* The first count of the instants found, walking from the day of now.
Earliest(ms, count) == {m \in ms : Cardinality({x \in ms : x < m}) < count}
next_occurrences(s, now, count) ==
    LET today == DayOf(now)
        Found[i \in 0..Horizon] ==
            IF i = 0 THEN {}
            ELSE LET before == Found[i - 1]
                     d == today + i - 1
                 IN IF Cardinality(before) >= count \/ (s.end # Unset /\ d > s.end) \/ d \notin Days
                    THEN before
                    ELSE before \cup {m \in day_occurrences(s, d) : After(m, now)}
    IN Earliest(Found[Horizon], count)

\* The latest instant up to now, walking back; None when there is none.
latest_occurrence(s, now) ==
    LET Back[i \in 0..Horizon] ==
            LET d == DayOf(now) - i
                past == IF i = Horizon \/ d \notin Days THEN {}
                        ELSE {m \in day_occurrences(s, d) : m <= now}
            IN IF past # {} THEN {Max(past)}
               ELSE IF i = Horizon \/ d \notin Days THEN None
               ELSE Back[i + 1]
    IN Back[0]
=============================================================================
