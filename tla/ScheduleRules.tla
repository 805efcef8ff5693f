---------------------------- MODULE ScheduleRules ----------------------------
(***************************************************************************)
(* What a schedule wake-up means: the pure part of the scheduler           *)
(* (kdeaichat/schedule_rules.py, and the run-state bookkeeping of          *)
(* schedule_runs.py and schedule_job.py).                                  *)
(*                                                                         *)
(* Time is a natural number.  The rules of a schedule are abstracted to    *)
(* the set of instants they select, and its OnCalendar= lines to a set of  *)
(* instants that includes them (every-N-days rules wake the job on every   *)
(* candidate day).  A definition is a record                               *)
(*                                                                         *)
(*   enabled   switched on and not archived                                *)
(*   rules     instants selected by the timing rules                       *)
(*   lines     instants at which the timer file elapses                    *)
(*   start     startDate (0: none)     end   endDate (Never: none)         *)
(*   limit     limitCount (0: none)    catchUp  window (0: off)            *)
(*   editedAt  the last timing edit                                        *)
(*                                                                         *)
(* and a run state is a record                                             *)
(*                                                                         *)
(*   last      lastScheduledFor (NoTime: null)     count  runCount         *)
(*   finished, finishedAt                          status lastStatus       *)
(*   history   the newest HistoryLimit entries [occ, status]               *)
(***************************************************************************)
EXTENDS Integers, Sequences, FiniteSets

CONSTANTS Grace,         \* ON_TIME_GRACE: lateness that still counts as on time
          HistoryLimit   \* history_limit of the store's settings

ASSUME RulesAssumption == Grace \in Nat /\ HistoryLimit \in Nat \ {0}

NoTime == -1             \* a null timestamp

Statuses == {"none", "running", "missed", "ok", "error", "skipped"}
Entry == [occ : Nat, status : Statuses]
RunState == [last : Nat \cup {NoTime}, count : Nat, finished : BOOLEAN,
             finishedAt : Nat \cup {NoTime}, status : Statuses, history : Seq(Entry)]
Timing == [enabled : BOOLEAN, rules : SUBSET Nat, lines : SUBSET Nat,
           start : Nat, end : Nat, limit : Nat, catchUp : Nat]
Definition == [enabled : BOOLEAN, rules : SUBSET Nat, lines : SUBSET Nat,
               start : Nat, end : Nat, limit : Nat, catchUp : Nat, editedAt : Nat]

EmptyState == [last |-> NoTime, count |-> 0, finished |-> FALSE,
               finishedAt |-> NoTime, status |-> "none", history |-> << >>]

-----------------------------------------------------------------------------
\* The instants of the rules inside the start and end dates.
Occurrences(d) == {o \in d.rules : d.start <= o /\ o <= d.end}

\* o is the latest instant at or before now; the decision is about that one
\* only, so missed instants collapse into it.
IsLatest(d, now, o) ==
    /\ o \in Occurrences(d) /\ o <= now
    /\ \A p \in Occurrences(d) : p <= now => p <= o

HasFuture(d, now) == \E o \in Occurrences(d) : o > now

LimitReached(d, rs) == d.limit > 0 /\ rs.count >= d.limit

\* Finished, unless the schedule was edited after it finished.
IsFinished(d, rs) ==
    rs.finished /\ (rs.finishedAt = NoTime \/ rs.finishedAt >= d.editedAt)

\* Past the end date a wake-up is only about an instant that is still on time.
AfterEnd(d, now, o) == now > d.end /\ now - o > Grace

\* The instant o is still to be handled by a wake-up at now: none of the
\* reasons to skip without a record applies.
Pending(d, rs, now, o) ==
    /\ d.enabled
    /\ ~IsFinished(d, rs)
    /\ ~LimitReached(d, rs)
    /\ now >= d.start
    /\ IsLatest(d, now, o)
    /\ ~AfterEnd(d, now, o)
    /\ o > rs.last
    /\ o > d.editedAt

OnTime(now, o) == now - o <= Grace
CatchUp(d, now, o) == d.catchUp > 0 /\ now - o <= d.catchUp

\* should_run: the action for a wake-up at now is "run" for o, "missed" for o,
\* or neither.
ShouldRun(d, rs, now, o) == Pending(d, rs, now, o) /\ (OnTime(now, o) \/ CatchUp(d, now, o))
Missed(d, rs, now, o) == Pending(d, rs, now, o) /\ ~OnTime(now, o) /\ ~CatchUp(d, now, o)

wants_timer(d, rs, now) == d.enabled /\ ~IsFinished(d, rs) /\ d.rules # {} /\ HasFuture(d, now)

-----------------------------------------------------------------------------
\* Mutant: one entry too many is kept.
Trim_OffByOne(h) == IF Len(h) <= HistoryLimit THEN h
                    ELSE SubSeq(h, Len(h) - HistoryLimit, Len(h))

\* save_run_state keeps only the newest entries.
Trim(h) == IF Len(h) <= HistoryLimit THEN h
           ELSE SubSeq(h, Len(h) - HistoryLimit + 1, Len(h))

\* Mutant: the occurrence is not recorded when its run starts.
apply_decision_NotRecorded(rs, o, status) ==
    [rs EXCEPT !.last = IF status = "running" THEN @ ELSE o, !.status = status,
               !.history = Trim(Append(@, [occ |-> o, status |-> status]))]

\* A run ("running") and a missed instant use up their occurrence at once.
apply_decision(rs, o, status) ==
    [rs EXCEPT !.last = o, !.status = status,
               !.history = Trim(Append(@, [occ |-> o, status |-> status]))]

\* The positions of entries for o that are still "running".
RunningAt(h, o) == {k \in DOMAIN h : h[k] = [occ |-> o, status |-> "running"]}

\* The newest running entry for o takes the outcome; without one (the state
\* was removed meanwhile) a new entry is added.
Outcome(h, o, status) ==
    IF RunningAt(h, o) = {} THEN Trim(Append(h, [occ |-> o, status |-> status]))
    ELSE [k \in DOMAIN h |-> IF k \in RunningAt(h, o) /\ \A j \in RunningAt(h, o) : j <= k
                             THEN [occ |-> o, status |-> status] ELSE h[k]]

\* Mutant: a failed run does not count.
finish_run_OnlyOk(rs, o, status) ==
    [rs EXCEPT !.status = status, !.history = Outcome(@, o, status),
               !.count = IF status = "ok" THEN @ + 1 ELSE @]

\* "ok" and "error" count as runs, "skipped" does not.
finish_run(rs, o, status) ==
    [rs EXCEPT !.status = status, !.history = Outcome(@, o, status),
               !.count = IF status = "skipped" THEN @ ELSE @ + 1]

\* _check_finished, with the definition and the time the job started from.
Finishes(d, rs, now) == ~rs.finished /\ (LimitReached(d, rs) \/ ~HasFuture(d, now))
check_finished(d, rs, now) ==
    IF Finishes(d, rs, now) THEN [rs EXCEPT !.finished = TRUE, !.finishedAt = now] ELSE rs
=============================================================================
