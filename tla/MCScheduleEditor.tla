-------------------------- MODULE MCScheduleEditor --------------------------
(***************************************************************************)
(* February and March 2026: the first of February is a Sunday, and on the  *)
(* 29th of March the hour from two to three does not exist.                *)
(***************************************************************************)
EXTENDS ScheduleEditor

FebruaryMarch == <<28, 31>>
Skipped == {Instant(56, 120 + k) : k \in 0..59}
At(h, m) == h * 60 + m

Daily(times, n) == [kind |-> "daily", times |-> times, everyDays |-> n]
Weekly(days, times, n) == [kind |-> "weekly", days |-> days, times |-> times, everyWeeks |-> n]
Monthly(day, times, n) == [kind |-> "monthly", day |-> day, times |-> times, everyMonths |-> n]
Hourly(n, minute, from, to) == [kind |-> "hourly", everyHours |-> n, minute |-> minute, from |-> from, to |-> to]
Minutes(n) == [kind |-> "minutes", everyMinutes |-> n]
Once(m) == [kind |-> "once", at |-> m]
ByCron(e) == [kind |-> "cron", expr |-> e]
Between(a, b) == <<[a |-> a, b |-> b, step |-> Unset]>>

AnyRules ==
    {Once(Instant(40, At(8, 5))), Once(Instant(2, At(8, 5))),
     Daily({At(2, 15), At(9, 15)}, 13),
     Weekly({0, 1, 6}, {At(7, 0), At(19, 45)}, Unset), Weekly({2, 3, 4, 5, 0}, {At(6, 30)}, 2),
     Monthly(LastOfMonth, {At(23, 59)}, Unset), Monthly(31, {At(0, 0)}, 2),
     Hourly(Unset, Unset, Unset, Unset), Hourly(5, 0, 0, 23), Hourly(4, Unset, 7, Unset),
     Minutes(45), Minutes(10),
     ByCron(Cron(<<[a |-> 0, b |-> Unset, step |-> 20]>>, Between(22, 23), All, Every(2), <<[a |-> 5, b |-> 7, step |-> 2]>>)),
     ByCron(Cron(Only(0), Only(6), Every(10), All, Only(1))),
     ByCron(Cron(Only(0), Only(6), Only(30), Only(2), Only(1)))}

AnyDates == {<<Unset, 50>>, <<20, Unset>>, <<20, 30>>, <<30, 20>>}

Entry == [single |-> FALSE, start |-> Instant(3, At(9, 10)), cron |-> NoCron, type |-> "days", every |-> 1,
          days |-> {}, dom |-> 1, enabled |-> TRUE, archived |-> FALSE, complete |-> TRUE, limit |-> 0,
          missed |-> TRUE, createdAt |-> Unset, lastRun |-> Unset, count |-> 0, history |-> 0]
Built(v) == [v EXCEPT !.cron = build_cron_v1(v)]
OnTheHour == Instant(3, At(9, 0))
Entries ==
    {Built([Entry EXCEPT !.type = k, !.every = n, !.start = t]) :
        k \in {"minutes", "hours", "days", "weeks", "months"}, n \in {0, 1, 2, 5, 20, 60}, t \in {OnTheHour, Entry.start}}
    \cup {Built([Entry EXCEPT !.type = "weeks", !.days = {0, 3}]), Built([Entry EXCEPT !.type = "months", !.dom = 31]),
          [Entry EXCEPT !.cron = Cron(Only(0), Only(7), Only(10), All, Only(5))],
          [Entry EXCEPT !.cron = Cron(All, All, All, All, All)],
          [Entry EXCEPT !.single = TRUE], [Entry EXCEPT !.single = TRUE, !.start = Unset],
          [Entry EXCEPT !.start = Unset], [Entry EXCEPT !.type = "none"],
          [Built(Entry) EXCEPT !.complete = FALSE], [Built(Entry) EXCEPT !.archived = TRUE],
          [Built(Entry) EXCEPT !.limit = 3], [Built(Entry) EXCEPT !.limit = -5], [Built(Entry) EXCEPT !.createdAt = 0],
          [Built(Entry) EXCEPT !.limit = 3, !.lastRun = OnTheHour, !.count = 3, !.history = 3],
          [Built(Entry) EXCEPT !.limit = 3, !.lastRun = OnTheHour, !.count = 2, !.history = 1],
          [Entry EXCEPT !.single = TRUE, !.start = Instant(40, At(9, 0)), !.lastRun = OnTheHour, !.count = 1, !.history = 1]}

Moments == {Instant(4, At(8, 0)), Instant(38, At(12, 30))}
=============================================================================
