----------------------------- MODULE ScheduleJob -----------------------------
(***************************************************************************)
(* Scheduled prompts: the widget's helper commands, the background job and *)
(* the systemd timers between them.                                        *)
(*                                                                         *)
(*  - A helper command (schedule_store.py) holds the schedule-store lock   *)
(*    while it changes the definitions and makes the timer files match     *)
(*    them (schedule_units.sync_units); a delete removes the run state     *)
(*    only after the lock is released.                                     *)
(*  - A timer wakes a job (schedule_job.run_schedule).  It reads the       *)
(*    definition without any lock, decides and records under the run-state *)
(*    lock, runs the prompt without it, and records the outcome under it   *)
(*    again, judging the schedule by the definition it read at the start.  *)
(*                                                                         *)
(* Each step below is one critical section, one file replaced atomically   *)
(* or one systemctl call.  The store lock spans several steps and is a     *)
(* variable; a run-state lock spans one, so the step stands for it.        *)
(***************************************************************************)
EXTENDS ScheduleRules, TLC

CONSTANTS Ids,          \* schedule ids
          Cmds,         \* helper processes of the widget and its settings page
          Drafts,       \* timings the user may save
          None,         \* no definition, no file, no lock holder
          MaxTime,      \* bound of the clock
          MaxCommands,  \* bound of the helper commands
          JobCrashes,   \* bound of the jobs that die (logout, TimeoutStartSec, power cut)
          CmdCrashes,   \* bound of the helper commands that die
          Failures,     \* may a helper's systemctl fail?
          JobFailures,  \* bound of the job's systemctl calls that fail
          MaxFolds      \* bound of the clock going back (end of daylight saving)

ASSUME JobAssumption ==
    /\ MaxTime \in Nat /\ MaxCommands \in Nat
    /\ JobCrashes \in Nat /\ CmdCrashes \in Nat /\ MaxFolds \in Nat /\ JobFailures \in Nat
    /\ Failures \in BOOLEAN
    /\ Drafts \subseteq Timing
    /\ \A d \in Drafts : d.rules \subseteq d.lines /\ d.lines # None
    /\ None \notin Cmds /\ None \notin Definition /\ None \notin RunState

VARIABLES
    clock,     \* local wall-clock time
    store,     \* schedules.v2.json
    runFile,   \* schedule-runs/<id>.json
    unitFile,  \* kdeaichat-sched-<id>.timer: its OnCalendar instants
    armed,     \* the calendar of the active timer
    stamp,     \* the persistent time stamp: the timer's last trigger
    storeLock, \* holder of schedules.lock
    cmd,       \* the helper processes
    job,       \* the job of each schedule
    budget,    \* what is left of the bounds above
    sent,      \* history: occurrences whose prompt was started, per run state
    lost       \* history: those of them that crashed or were skipped

vars == <<clock, store, runFile, unitFile, armed, stamp, storeLock, cmd, job, budget, sent, lost>>

Kinds == {"save", "delete", "startup", "sync"}
CmdPc == {"idle", "lock", "snapshot", "units", "systemctl", "forget"}
JobPc == {"idle", "read", "decide", "prompt", "disable"}

IdleCmd == [pc |-> "idle", kind |-> "sync", now |-> 0, ids |-> {}, draft |-> None,
            desired |-> {}, written |-> {}]
IdleJob == [pc |-> "idle", now |-> 0, def |-> None, occ |-> NoTime]

DefinitionOf(d, t) == [enabled |-> d.enabled, rules |-> d.rules, lines |-> d.lines,
                       start |-> d.start, end |-> d.end, limit |-> d.limit,
                       catchUp |-> d.catchUp, editedAt |-> t]

Instants == UNION {d.lines : d \in Drafts}

Init ==
    /\ clock = 0
    /\ store = [i \in Ids |-> None]
    /\ runFile = [i \in Ids |-> None]
    /\ unitFile = [i \in Ids |-> None]
    /\ armed = [i \in Ids |-> None]
    /\ stamp = [i \in Ids |-> NoTime]
    /\ storeLock = None
    /\ cmd = [c \in Cmds |-> IdleCmd]
    /\ job = [i \in Ids |-> IdleJob]
    /\ budget = [commands |-> MaxCommands, job |-> JobCrashes, cmd |-> CmdCrashes, folds |-> MaxFolds,
                 disable |-> JobFailures]
    /\ sent = [i \in Ids |-> {}]
    /\ lost = [i \in Ids |-> {}]

\* load_run_state: a missing file is an empty state.
load_run_state(i) == IF runFile[i] = None THEN EmptyState ELSE runFile[i]

-----------------------------------------------------------------------------
(* The clock and systemd (external).                                       *)

Tick ==
    /\ clock < MaxTime
    /\ clock' = clock + 1
    /\ UNCHANGED <<store, runFile, unitFile, armed, stamp, storeLock, cmd, job, budget, sent, lost>>

\* Local time repeats an hour; timers are due again for its instants.
FallBack ==
    /\ budget.folds > 0 /\ clock > 0
    /\ clock' = clock - 1
    /\ budget' = [budget EXCEPT !.folds = @ - 1]
    /\ stamp' = [i \in Ids |-> IF stamp[i] < clock' THEN stamp[i] ELSE clock' - 1]
    /\ UNCHANGED <<store, runFile, unitFile, armed, storeLock, cmd, job, sent, lost>>

\* An instant of the active timer has passed since its last trigger.
Elapsed(i) == armed[i] # None /\ \E e \in armed[i] : stamp[i] < e /\ e <= clock

\* One activation, however many instants have passed; a running job of the
\* same instance is never started a second time.
Wake(i) ==
    /\ job[i].pc = "idle"
    /\ Elapsed(i)
    /\ stamp' = [stamp EXCEPT ![i] = clock]
    /\ job' = [job EXCEPT ![i] = [IdleJob EXCEPT !.pc = "read", !.now = clock]]
    /\ UNCHANGED <<clock, store, runFile, unitFile, armed, storeLock, cmd, budget, sent, lost>>

\* systemctl restart / enable --now: a timer without a stamp counts from now.
Started(i, on) == IF i \in on /\ stamp[i] = NoTime THEN clock ELSE stamp[i]

-----------------------------------------------------------------------------
(* The job: schedule_job.run_schedule.                                     *)

\* Mutant: the job of a deleted schedule leaves its timer alone.
JobRead_LeavesTimer(i) ==
    /\ job[i].pc = "read"
    /\ job' = [job EXCEPT ![i] = IF store[i] = None THEN IdleJob ELSE [@ EXCEPT !.def = store[i], !.pc = "decide"]]
    /\ UNCHANGED <<clock, store, runFile, unitFile, armed, stamp, storeLock, cmd, budget, sent, lost>>

\* read_store and find, without a lock.
JobRead(i) ==
    /\ job[i].pc = "read"
    /\ job' = [job EXCEPT ![i].def = store[i],
                          ![i].pc = IF store[i] = None THEN "disable" ELSE "decide"]
    /\ UNCHANGED <<clock, store, runFile, unitFile, armed, stamp, storeLock, cmd, budget, sent, lost>>

\* A due or caught-up occurrence is recorded as running before its prompt starts.
JobRun(i, o) ==
    /\ job[i].pc = "decide"
    /\ ShouldRun(job[i].def, load_run_state(i), job[i].now, o)
    /\ runFile' = [runFile EXCEPT ![i] = apply_decision(load_run_state(i), o, "running")]
    /\ job' = [job EXCEPT ![i].pc = "prompt", ![i].occ = o]
    /\ sent' = [sent EXCEPT ![i] = @ \cup {o}]
    /\ UNCHANGED <<clock, store, unitFile, armed, stamp, storeLock, cmd, budget, lost>>

\* Mutant: a missed instant is not recorded.
Skipped_Silent(i) == check_finished(job[i].def, load_run_state(i), job[i].now)

\* The run state after a wake-up that runs nothing: a missed instant is
\* recorded, and the schedule is finished if nothing can follow.
Skipped(i) ==
    LET rs == load_run_state(i)
        late == {o \in job[i].def.rules : Missed(job[i].def, rs, job[i].now, o)}
        seen == IF late = {} THEN rs ELSE apply_decision(rs, CHOOSE o \in late : TRUE, "missed")
    IN check_finished(job[i].def, seen, job[i].now)

JobSkip(i) ==
    /\ job[i].pc = "decide"
    /\ ~\E o \in job[i].def.rules : ShouldRun(job[i].def, load_run_state(i), job[i].now, o)
    /\ runFile' = [runFile EXCEPT ![i] = Skipped(i)]
    /\ job' = [job EXCEPT ![i] = IF load_run_state(i).finished = runFile'[i].finished
                                 THEN IdleJob ELSE [@ EXCEPT !.pc = "disable"]]
    /\ UNCHANGED <<clock, store, unitFile, armed, stamp, storeLock, cmd, budget, sent, lost>>

\* Mutant: the end of the run is taken as the time it finished.
JobFinish_EndTime(i, status) ==
    LET rs == finish_run(load_run_state(i), job[i].occ, status)
    IN /\ job[i].pc = "prompt"
       /\ runFile' = [runFile EXCEPT ![i] = check_finished(job[i].def, rs, clock)]
       /\ job' = [job EXCEPT ![i] = IF Finishes(job[i].def, rs, clock)
                                    THEN [@ EXCEPT !.pc = "disable"] ELSE IdleJob]
       /\ lost' = [lost EXCEPT ![i] = IF status = "skipped" THEN @ \cup {job[i].occ} ELSE @]
       /\ UNCHANGED <<clock, store, unitFile, armed, stamp, storeLock, cmd, budget, sent>>

\* The prompt has ended: the state is loaded again, the definition is the one
\* read at the start.
JobFinish(i, status) ==
    LET rs == finish_run(load_run_state(i), job[i].occ, status)
    IN /\ job[i].pc = "prompt"
       /\ runFile' = [runFile EXCEPT ![i] = check_finished(job[i].def, rs, job[i].now)]
       /\ job' = [job EXCEPT ![i] = IF Finishes(job[i].def, rs, job[i].now)
                                    THEN [@ EXCEPT !.pc = "disable"] ELSE IdleJob]
       /\ lost' = [lost EXCEPT ![i] = IF status = "skipped" THEN @ \cup {job[i].occ} ELSE @]
       /\ UNCHANGED <<clock, store, unitFile, armed, stamp, storeLock, cmd, budget, sent>>

\* disable_timer: systemctl disable --now; the timer file stays.  The exit
\* code is ignored: a call that fails leaves the timer armed.
JobDisable(i) ==
    /\ job[i].pc = "disable"
    /\ \/ /\ armed' = [armed EXCEPT ![i] = None]
          /\ UNCHANGED budget
       \/ /\ budget.disable > 0
          /\ budget' = [budget EXCEPT !.disable = @ - 1]
          /\ UNCHANGED armed
    /\ job' = [job EXCEPT ![i] = IdleJob]
    /\ UNCHANGED <<clock, store, runFile, unitFile, stamp, storeLock, cmd, sent, lost>>

JobCrash(i) ==
    /\ job[i].pc # "idle" /\ budget.job > 0
    /\ budget' = [budget EXCEPT !.job = @ - 1]
    /\ job' = [job EXCEPT ![i] = IdleJob]
    /\ lost' = [lost EXCEPT ![i] = IF job[i].pc = "prompt" THEN @ \cup {job[i].occ} ELSE @]
    /\ UNCHANGED <<clock, store, runFile, unitFile, armed, stamp, storeLock, cmd, sent>>

JobStep(i) ==
    \/ JobRead(i)
    \/ JobSkip(i)
    \/ \E o \in Instants : JobRun(i, o)
    \/ \E s \in {"ok", "error", "skipped"} : JobFinish(i, s)
    \/ JobDisable(i)

-----------------------------------------------------------------------------
(* The widget's helper commands: schedule_store.py and schedules.py.       *)

\* A command captures its time before it waits for the lock.
Begin(c, kind, ids, draft) ==
    /\ cmd[c].pc = "idle" /\ budget.commands > 0
    /\ budget' = [budget EXCEPT !.commands = @ - 1]
    /\ cmd' = [cmd EXCEPT ![c] = [IdleCmd EXCEPT !.pc = "lock", !.kind = kind, !.now = clock,
                                                 !.ids = ids, !.draft = draft]]
    /\ UNCHANGED <<clock, store, runFile, unitFile, armed, stamp, storeLock, job, sent, lost>>

BeginSave(c) == \E i \in Ids, d \in Drafts : Begin(c, "save", {i}, d)
BeginDelete(c) == \E ids \in SUBSET Ids \ {{}} : Begin(c, "delete", ids, None)
BeginSync(c) == \E kind \in {"startup", "sync"} : Begin(c, kind, {}, None)

Locks(c, kinds) == cmd[c].pc = "lock" /\ cmd[c].kind \in kinds /\ storeLock = None

\* A switched-on schedule must have a next occurrence.
Valid(d, now) == d.enabled => d.rules # {} /\ HasFuture(d, now)

\* timing_changed: editedAt moves only when a timing field does.
timing_changed(old, d) == old = None \/ DefinitionOf(d, old.editedAt) # old
Edited(old, d, now) == IF timing_changed(old, d) THEN now ELSE old.editedAt

CmdSave(c) ==
    LET d == cmd[c].draft IN
    /\ Locks(c, {"save"})
    /\ Valid(d, cmd[c].now)
    /\ store' = [i \in Ids |-> IF i \in cmd[c].ids
                               THEN DefinitionOf(d, Edited(store[i], d, cmd[c].now)) ELSE store[i]]
    /\ storeLock' = c
    /\ cmd' = [cmd EXCEPT ![c].pc = "snapshot"]
    /\ UNCHANGED <<clock, runFile, unitFile, armed, stamp, job, budget, sent, lost>>

CmdSaveRefused(c) ==
    /\ Locks(c, {"save"})
    /\ ~Valid(cmd[c].draft, cmd[c].now)
    /\ cmd' = [cmd EXCEPT ![c] = IdleCmd]
    /\ UNCHANGED <<clock, store, runFile, unitFile, armed, stamp, storeLock, job, budget, sent, lost>>

\* Only the schedules that existed are forgotten later.
CmdDelete(c) ==
    /\ Locks(c, {"delete"})
    /\ store' = [i \in Ids |-> IF i \in cmd[c].ids THEN None ELSE store[i]]
    /\ storeLock' = c
    /\ cmd' = [cmd EXCEPT ![c].pc = "snapshot", ![c].ids = {i \in @ : store[i] # None}]
    /\ UNCHANGED <<clock, runFile, unitFile, armed, stamp, job, budget, sent, lost>>

CmdSync(c) ==
    /\ Locks(c, {"startup", "sync"})
    /\ storeLock' = c
    /\ cmd' = [cmd EXCEPT ![c].pc = "snapshot"]
    /\ UNCHANGED <<clock, store, runFile, unitFile, armed, stamp, job, budget, sent, lost>>

\* Mutant: a finished schedule stays finished whatever its edits.
Snapshot_FinishedForGood(c) ==
    /\ cmd[c].pc = "snapshot"
    /\ cmd' = [cmd EXCEPT ![c].pc = "units",
                          ![c].desired = {i \in Ids : store[i] # None /\ ~load_run_state(i).finished
                                            /\ wants_timer(store[i], load_run_state(i), cmd[c].now)}]
    /\ UNCHANGED <<clock, store, runFile, unitFile, armed, stamp, storeLock, job, budget, sent, lost>>

\* _sync reads the run states, without their locks.
Snapshot(c) ==
    /\ cmd[c].pc = "snapshot"
    /\ cmd' = [cmd EXCEPT ![c].pc = "units",
                          ![c].desired = {i \in Ids : store[i] # None
                                            /\ wants_timer(store[i], load_run_state(i), cmd[c].now)}]
    /\ UNCHANGED <<clock, store, runFile, unitFile, armed, stamp, storeLock, job, budget, sent, lost>>

Failing(ids) == IF Failures THEN SUBSET ids ELSE {{}}

\* Mutant: an existing timer file is never rewritten.
Units_KeepsText(c) ==
    LET want == cmd[c].desired
        gone == {i \in Ids : unitFile[i] # None} \ want
    IN /\ cmd[c].pc = "units"
       /\ unitFile' = [i \in Ids |-> IF i \notin want THEN None
                                     ELSE IF unitFile[i] = None THEN store[i].lines ELSE unitFile[i]]
       /\ armed' = [i \in Ids |-> IF i \in gone THEN None ELSE armed[i]]
       /\ stamp' = [i \in Ids |-> IF i \in gone THEN NoTime ELSE stamp[i]]
       /\ cmd' = [cmd EXCEPT ![c].pc = "systemctl", ![c].written = {i \in want : unitFile[i] = None}]
       /\ UNCHANGED <<clock, store, runFile, storeLock, job, budget, sent, lost>>

\* sync_units, first half: files whose text changed are written; the others
\* that are not wanted are stopped (or not, when systemctl fails), their
\* stamps cleaned and their files removed.
Units(c) ==
    LET want == cmd[c].desired
        gone == {i \in Ids : unitFile[i] # None} \ want
    IN /\ cmd[c].pc = "units"
       /\ unitFile' = [i \in Ids |-> IF i \in want THEN store[i].lines ELSE None]
       /\ \E bad \in Failing(gone) :
             /\ armed' = [i \in Ids |-> IF i \in gone \ bad THEN None ELSE armed[i]]
             /\ stamp' = [i \in Ids |-> IF i \in gone \ bad THEN NoTime ELSE stamp[i]]
       /\ cmd' = [cmd EXCEPT ![c].pc = "systemctl",
                             ![c].written = {i \in want : unitFile[i] # store[i].lines}]
       /\ UNCHANGED <<clock, store, runFile, storeLock, job, budget, sent, lost>>

\* sync_units, second half: systemctl is called for the written timers only,
\* unless the command asks for all of them (ensure_enabled).  Then the store
\* lock is released.
Systemctl(c) ==
    LET written == cmd[c].written
        ensured == {i \in cmd[c].desired \ written : cmd[c].kind = "sync" /\ armed[i] = None}
    IN /\ cmd[c].pc = "systemctl"
       /\ \E bad \in Failing(written \cup ensured) :
             /\ armed' = [i \in Ids |-> IF i \in (written \cup ensured) \ bad THEN unitFile[i] ELSE armed[i]]
             /\ stamp' = [i \in Ids |-> Started(i, (written \cup ensured) \ bad)]
       /\ storeLock' = None
       /\ cmd' = [cmd EXCEPT ![c] = IF @.kind = "delete" THEN [@ EXCEPT !.pc = "forget"] ELSE IdleCmd]
       /\ UNCHANGED <<clock, store, runFile, unitFile, job, budget, sent, lost>>

\* remove_run_state, after the store lock is released.
Forget(c) ==
    /\ cmd[c].pc = "forget"
    /\ runFile' = [i \in Ids |-> IF i \in cmd[c].ids THEN None ELSE runFile[i]]
    /\ sent' = [i \in Ids |-> IF i \in cmd[c].ids THEN {} ELSE sent[i]]
    /\ lost' = [i \in Ids |-> IF i \in cmd[c].ids THEN {} ELSE lost[i]]
    /\ cmd' = [cmd EXCEPT ![c] = IdleCmd]
    /\ UNCHANGED <<clock, store, unitFile, armed, stamp, storeLock, job, budget>>

\* A killed helper drops its lock and leaves the files as they are.
CmdCrash(c) ==
    /\ cmd[c].pc # "idle" /\ budget.cmd > 0
    /\ budget' = [budget EXCEPT !.cmd = @ - 1]
    /\ storeLock' = IF storeLock = c THEN None ELSE storeLock
    /\ cmd' = [cmd EXCEPT ![c] = IdleCmd]
    /\ UNCHANGED <<clock, store, runFile, unitFile, armed, stamp, job, sent, lost>>

CmdStep(c) ==
    \/ CmdSave(c) \/ CmdSaveRefused(c) \/ CmdDelete(c) \/ CmdSync(c)
    \/ Snapshot(c) \/ Units(c) \/ Systemctl(c) \/ Forget(c)

CmdBegin(c) == BeginSave(c) \/ BeginDelete(c) \/ BeginSync(c)

Next ==
    \/ Tick
    \/ FallBack
    \/ \E i \in Ids : Wake(i) \/ JobStep(i) \/ JobCrash(i)
    \/ \E c \in Cmds : CmdBegin(c) \/ CmdStep(c) \/ CmdCrash(c)

Spec == Init /\ [][Next]_vars

\* Time passes, systemd starts a job whose timer has elapsed, and a started
\* process goes on: a job or helper that runs is scheduled by the kernel, and
\* the store lock goes round (each holder releases it).  Nothing makes the
\* user edit or a process die.
FairSpec ==
    /\ Spec
    /\ WF_vars(Tick)
    /\ \A i \in Ids : WF_vars(Wake(i)) /\ WF_vars(JobStep(i))
    /\ \A c \in Cmds : SF_vars(CmdStep(c))

-----------------------------------------------------------------------------
(* Properties.                                                             *)

CmdRec == [pc : CmdPc, kind : Kinds, now : Nat, ids : SUBSET Ids, draft : Drafts \cup {None},
           desired : SUBSET Ids, written : SUBSET Ids]
JobRec == [pc : JobPc, now : Nat, def : Definition \cup {None}, occ : Nat \cup {NoTime}]

\* The types of the variables; a job that decides or runs has a definition, a
\* running one an occurrence, and no history outgrows its limit.
TypeOK ==
    /\ clock \in Nat
    /\ store \in [Ids -> Definition \cup {None}]
    /\ runFile \in [Ids -> RunState \cup {None}]
    /\ unitFile \in [Ids -> {None} \cup SUBSET Nat]
    /\ armed \in [Ids -> {None} \cup SUBSET Nat]
    /\ stamp \in [Ids -> Int]
    /\ storeLock \in Cmds \cup {None}
    /\ cmd \in [Cmds -> CmdRec]
    /\ job \in [Ids -> JobRec]
    /\ budget \in [commands : Nat, job : Nat, cmd : Nat, folds : Nat, disable : Nat]
    /\ sent \in [Ids -> SUBSET Nat]
    /\ lost \in [Ids -> SUBSET Nat]
    /\ \A i \in Ids : job[i].pc \in {"decide", "prompt"} => job[i].def # None
    /\ \A i \in Ids : job[i].pc = "prompt" => job[i].occ # NoTime
    /\ \A i \in Ids : Len(load_run_state(i).history) <= HistoryLimit

\* The step in which job i starts the prompt of an occurrence.
Starts(i) == job[i].pc = "decide" /\ job'[i].pc = "prompt"

\* "never sent twice": while a schedule's run state exists, no occurrence's
\* prompt is started twice, whatever crashes, edits, second wake-ups or a
\* clock that repeats an hour do in between.
NeverSentTwice == [][\A i \in Ids : Starts(i) => job'[i].occ \notin sent[i]]_vars

\* "Stop after a number of runs": when a prompt starts, fewer runs than the
\* limit have ended or are under way (a run that was skipped or died does not
\* count).
RunsWithinLimit ==
    [][\A i \in Ids : Starts(i) /\ job[i].def.limit > 0
          => Cardinality(sent[i] \ lost[i]) < job[i].def.limit]_vars

\* A job that was woken before the last timing edit may end after it, but
\* never closes the edited schedule with the definition it still holds.
StaleJobNeverFinishes ==
    [][\A i \in Ids :
          /\ job[i].pc \in {"decide", "prompt"}
          /\ store[i] # None /\ job[i].now < store[i].editedAt
          /\ store'[i] = store[i] /\ ~IsFinished(store[i], load_run_state(i))
          => ~IsFinished(store[i], load_run_state(i)')]_vars

\* "makes the unit folder match the definitions": whenever no command is
\* changing them, every timer file is that of a switched-on schedule and has
\* its present rules, however many helpers save, delete and sync at once.
UnitFolderMatches ==
    storeLock = None =>
        \A i \in Ids : unitFile[i] # None => /\ store[i] # None /\ store[i].enabled
                                             /\ unitFile[i] = store[i].lines

\* "one timer per schedule that can still fire": whenever no command is
\* changing them, a schedule that can still fire has its timer file, also one
\* that had finished and was edited, or that a job closes meanwhile.  (Until the
\* clock goes back, which may give a schedule that has ended an hour more, or a
\* helper dies, and for one helper at a time: a delete forgets the run state when
\* another helper may have saved the schedule anew and seen it finished.)
FiringHasUnitFile ==
    storeLock = None /\ budget.folds = MaxFolds /\ budget.cmd = CmdCrashes =>
        \A i \in Ids : store[i] # None /\ wants_timer(store[i], load_run_state(i), clock) => unitFile[i] # None

\* A timer of a deleted schedule that is still active (systemctl failed or the
\* helper died) is stopped by the job it wakes, unless that job's own systemctl
\* fails as well: then by the next one it wakes.
StrayTimerStops ==
    \A i \in Ids : \A n \in 0..JobFailures :
        store[i] = None /\ Elapsed(i) /\ budget.disable = n
        ~> armed[i] = None \/ store[i] # None \/ budget.disable < n

\* An instant that passes while the timer of its schedule is waiting is run or
\* recorded as missed, unless the schedule is edited, switched off, deleted,
\* past its end or closed first.
DueIsHandled ==
    \A i \in Ids : \A o \in Instants :
        /\ store[i] # None /\ store[i].enabled
        /\ o \in Occurrences(store[i]) /\ o > store[i].editedAt
        /\ armed[i] = store[i].lines /\ stamp[i] < o /\ o <= clock
        ~>
        \/ load_run_state(i).last >= o
        \/ store[i] = None \/ load_run_state(i).finished
        \/ store[i] # None /\ (~store[i].enabled \/ store[i].editedAt >= o \/ clock > store[i].end)

\* "makes the systemd timers match the definitions" (schedules_startup): when
\* it ends, every schedule that can still fire has an active timer.
StartupArmsTimers ==
    [][\A c \in Cmds : cmd[c].pc = "systemctl" /\ cmd'[c].pc = "idle" /\ cmd[c].kind = "startup"
          => \A i \in cmd[c].desired :
                wants_timer(store[i], load_run_state(i), clock) => armed'[i] # None]_vars

\* "Remove the definitions, their run state and timers" (delete_schedules):
\* once deleted and with nothing going on, no run state is left.
DeletedLeavesNoRunState ==
    \A i \in Ids :
        (store[i] = None /\ job[i].pc = "idle" /\ \A c \in Cmds : cmd[c].pc = "idle") => runFile[i] = None
=============================================================================
