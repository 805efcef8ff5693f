-------------------------- MODULE ScheduleJobProofs --------------------------
(***************************************************************************)
(* What ScheduleJob guarantees for every set of schedules, helpers and     *)
(* drafts, and every bound: the types, that no occurrence is sent twice    *)
(* and no schedule runs more often than its limit, that a job never closes *)
(* a schedule edited since it was woken, and which timer files there are.  *)
(***************************************************************************)
EXTENDS ScheduleJob, FiniteSetTheorems, TLAPS

-----------------------------------------------------------------------------
(* Lemmas about the run-state bookkeeping.                                 *)

\* Trimming keeps a history a history, and within its limit.
LEMMA TrimType ==
    ASSUME NEW h \in Seq(Entry)
    PROVE  Trim(h) \in Seq(Entry) /\ Len(Trim(h)) <= HistoryLimit
BY RulesAssumption DEF Trim

\* Recording a decision about o yields a run state whose last occurrence is o.
LEMMA ApplyType ==
    ASSUME NEW rs \in RunState, NEW o \in Nat, NEW s \in Statuses
    PROVE  /\ apply_decision(rs, o, s) \in RunState
           /\ apply_decision(rs, o, s).last = o
           /\ apply_decision(rs, o, s).finished = rs.finished
           /\ apply_decision(rs, o, s).finishedAt = rs.finishedAt
           /\ Len(apply_decision(rs, o, s).history) <= HistoryLimit
<1> DEFINE h == Append(rs.history, [occ |-> o, status |-> s])
<1>1. h \in Seq(Entry)
  BY DEF RunState, Entry
<1>2. Trim(h) \in Seq(Entry) /\ Len(Trim(h)) <= HistoryLimit
  BY <1>1, TrimType
<1>3. apply_decision(rs, o, s) = [rs EXCEPT !.last = o, !.status = s, !.history = Trim(h)]
  BY DEF apply_decision, RunState
<1> HIDE DEF h
<1> QED
  BY <1>2, <1>3 DEF RunState

\* Recording an outcome keeps a history a history, and within its limit.
LEMMA OutcomeType ==
    ASSUME NEW h \in Seq(Entry), Len(h) <= HistoryLimit, NEW o \in Nat, NEW s \in Statuses
    PROVE  Outcome(h, o, s) \in Seq(Entry) /\ Len(Outcome(h, o, s)) <= HistoryLimit
<1> DEFINE e == [occ |-> o, status |-> s]
<1>0. e \in Entry
  BY DEF Entry
<1>1. CASE RunningAt(h, o) = {}
  <2>1. Append(h, e) \in Seq(Entry)
    BY <1>0
  <2>2. Outcome(h, o, s) = Trim(Append(h, e))
    BY <1>1 DEF Outcome
  <2> QED
    BY <2>1, <2>2, TrimType
<1>2. CASE RunningAt(h, o) # {}
  <2> DEFINE last(k) == k \in RunningAt(h, o) /\ \A j \in RunningAt(h, o) : j <= k
             g == [k \in 1 .. Len(h) |-> IF last(k) THEN e ELSE h[k]]
  <2>1. Outcome(h, o, s) = g
    BY <1>2 DEF Outcome
  <2>2. \A k \in 1 .. Len(h) : h[k] \in Entry
    OBVIOUS
  <2>3. \A k \in 1 .. Len(h) : (IF last(k) THEN e ELSE h[k]) \in Entry
    BY <1>0, <2>2
  <2>4. g \in [1 .. Len(h) -> Entry]
    BY <2>3
  <2>5. Len(h) \in Nat
    OBVIOUS
  <2> HIDE DEF g
  <2>6. g \in Seq(Entry) /\ Len(g) = Len(h)
    BY <2>4, <2>5
  <2> QED
    BY <2>1, <2>6
<1> QED
  BY <1>1, <1>2

\* The outcome of a run leaves the last occurrence and the finish alone.
LEMMA FinishRunType ==
    ASSUME NEW rs \in RunState, Len(rs.history) <= HistoryLimit, NEW o \in Nat, NEW s \in Statuses
    PROVE  /\ finish_run(rs, o, s) \in RunState
           /\ finish_run(rs, o, s).last = rs.last
           /\ finish_run(rs, o, s).finished = rs.finished
           /\ finish_run(rs, o, s).finishedAt = rs.finishedAt
           /\ Len(finish_run(rs, o, s).history) <= HistoryLimit
<1> DEFINE h == Outcome(rs.history, o, s)
           n == IF s = "skipped" THEN rs.count ELSE rs.count + 1
<1>1. h \in Seq(Entry) /\ Len(h) <= HistoryLimit
  BY OutcomeType DEF RunState
<1>2. n \in Nat
  BY DEF RunState
<1>3. finish_run(rs, o, s) = [rs EXCEPT !.status = s, !.history = h, !.count = n]
  BY DEF finish_run, RunState
<1> HIDE DEF h, n
<1> QED
  BY <1>1, <1>2, <1>3 DEF RunState

\* Closing a schedule changes nothing but the finish.
LEMMA CheckFinishedType ==
    ASSUME NEW rs \in RunState, NEW d \in Definition, NEW t \in Nat
    PROVE  /\ check_finished(d, rs, t) \in RunState
           /\ check_finished(d, rs, t).last = rs.last
           /\ check_finished(d, rs, t).history = rs.history
           /\ check_finished(d, rs, t) # rs => /\ ~rs.finished
                                              /\ check_finished(d, rs, t).finishedAt = t
<1>1. CASE Finishes(d, rs, t)
  <2>1. check_finished(d, rs, t) = [rs EXCEPT !.finished = TRUE, !.finishedAt = t]
    BY <1>1 DEF check_finished
  <2>2. ~rs.finished
    BY <1>1 DEF Finishes
  <2> QED
    BY <2>1, <2>2 DEF RunState
<1>2. CASE ~Finishes(d, rs, t)
  BY <1>2 DEF check_finished
<1> QED
  BY <1>1, <1>2

\* A missing file counts as the empty run state.
LEMMA EmptyStateType == EmptyState \in RunState /\ Len(EmptyState.history) <= HistoryLimit
<1>1. << >> \in Seq(Entry) /\ Len(<< >>) = 0
  OBVIOUS
<1> QED
  BY <1>1, RulesAssumption DEF EmptyState, RunState, Statuses, NoTime

-----------------------------------------------------------------------------
(* The step lemmas all start from the same facts about the run states.     *)

\* Under TypeOK the loaded run state has its type and a bounded history.
LEMMA LoadType ==
    ASSUME TypeOK, NEW i \in Ids
    PROVE  load_run_state(i) \in RunState /\ Len(load_run_state(i).history) <= HistoryLimit
BY EmptyStateType DEF TypeOK, load_run_state

\* A definition saved from a draft is a definition.
LEMMA DefinitionType ==
    ASSUME NEW d \in Drafts, NEW t \in Nat
    PROVE  DefinitionOf(d, t) \in Definition
<1>1. d \in Timing
  BY JobAssumption
<1> QED
  BY <1>1 DEF DefinitionOf, Definition, Timing

\* What a job may do to run state i: nothing disturbs its type, and its last
\* occurrence moves only when a run starts or an instant is missed.
LEMMA SkippedType ==
    ASSUME TypeOK, NEW i \in Ids, job[i].pc = "decide"
    PROVE  /\ Skipped(i) \in RunState
           /\ Len(Skipped(i).history) <= HistoryLimit
           /\ Skipped(i).last >= load_run_state(i).last
           /\ \/ Skipped(i).finished = load_run_state(i).finished
                 /\ Skipped(i).finishedAt = load_run_state(i).finishedAt
              \/ Skipped(i).finishedAt = job[i].now
<1> DEFINE rs == load_run_state(i)
           d == job[i].def
           late == {o \in d.rules : Missed(d, rs, job[i].now, o)}
           seen == IF late = {} THEN rs ELSE apply_decision(rs, CHOOSE o \in late : TRUE, "missed")
<1>1. d \in Definition /\ job[i].now \in Nat
  BY DEF TypeOK, JobRec
<1>2. rs \in RunState /\ Len(rs.history) <= HistoryLimit
  BY LoadType
<1>3. \A o \in late : o \in Nat /\ o > rs.last
  BY <1>1 DEF Missed, Pending, Definition
<1>4. /\ seen \in RunState /\ Len(seen.history) <= HistoryLimit
      /\ seen.last >= rs.last
      /\ seen.finished = rs.finished /\ seen.finishedAt = rs.finishedAt
  <2>1. CASE late = {}
    <3>1. rs.last \in Int
      BY <1>2 DEF RunState, NoTime
    <3> QED
      BY <1>2, <2>1, <3>1
  <2>2. CASE late # {}
    <3> DEFINE o == CHOOSE o \in late : TRUE
    <3>1. o \in late
      BY <2>2
    <3>2. o \in Nat /\ o > rs.last
      BY <1>3, <3>1
    <3>3. "missed" \in Statuses
      BY DEF Statuses
    <3>4. seen = apply_decision(rs, o, "missed")
      BY <2>2
    <3>5. rs.last \in Int
      BY <1>2 DEF RunState, NoTime
    <3> HIDE DEF o, rs, seen
    <3> QED
      BY <1>2, <3>2, <3>3, <3>4, <3>5, ApplyType
  <2> QED
    BY <2>1, <2>2
<1>5. Skipped(i) = check_finished(d, seen, job[i].now)
  BY DEF Skipped
<1> HIDE DEF seen, d, late, rs
<1>6. rs = load_run_state(i)
  BY DEF rs
<1> DEFINE end == check_finished(d, seen, job[i].now)
<1>7. /\ end \in RunState /\ end.last = seen.last /\ end.history = seen.history
      /\ end # seen => end.finishedAt = job[i].now
  BY <1>1, <1>4, CheckFinishedType
<1>8. Skipped(i) = end
  BY <1>5
<1> HIDE DEF end
<1>9. end.last >= rs.last
  BY <1>4, <1>7
<1>10. \/ end.finished = rs.finished /\ end.finishedAt = rs.finishedAt
       \/ end.finishedAt = job[i].now
  BY <1>4, <1>7
<1> QED
  BY <1>4, <1>6, <1>7, <1>8, <1>9, <1>10

\* The run state after a prompt has ended with status s.
LEMMA FinishType ==
    ASSUME TypeOK, NEW i \in Ids, job[i].pc = "prompt", NEW s \in {"ok", "error", "skipped"},
           NEW end, end = check_finished(job[i].def, finish_run(load_run_state(i), job[i].occ, s), job[i].now)
    PROVE  /\ end \in RunState
           /\ Len(end.history) <= HistoryLimit
           /\ end.last = load_run_state(i).last
           /\ \/ end.finished = load_run_state(i).finished
                 /\ end.finishedAt = load_run_state(i).finishedAt
              \/ end.finishedAt = job[i].now
<1> DEFINE rs == load_run_state(i)
           fr == finish_run(rs, job[i].occ, s)
<1>1. job[i].def \in Definition /\ job[i].now \in Nat /\ job[i].occ \in Nat
  BY DEF TypeOK, JobRec
<1>2. rs \in RunState /\ Len(rs.history) <= HistoryLimit
  BY LoadType
<1>3. s \in Statuses
  BY DEF Statuses
<1> HIDE DEF rs
<1>4. /\ fr \in RunState /\ fr.last = rs.last /\ Len(fr.history) <= HistoryLimit
      /\ fr.finished = rs.finished /\ fr.finishedAt = rs.finishedAt
  BY <1>1, <1>2, <1>3, FinishRunType
<1>5. end = check_finished(job[i].def, fr, job[i].now)
  BY DEF rs
<1>6. rs = load_run_state(i)
  BY DEF rs
<1> HIDE DEF fr
<1> QED
  BY <1>1, <1>4, <1>5, <1>6, CheckFinishedType

-----------------------------------------------------------------------------
(* Types.                                                                  *)

LEMMA InitTypeOK == Init => TypeOK
<1> SUFFICES ASSUME Init PROVE TypeOK
  OBVIOUS
<1>1. IdleCmd \in CmdRec
  BY DEF IdleCmd, CmdRec, CmdPc, Kinds
<1>2. IdleJob \in JobRec
  BY DEF IdleJob, JobRec, JobPc, NoTime
<1>3. \A i \in Ids : load_run_state(i) = EmptyState
  BY DEF Init, load_run_state
<1> QED
  BY <1>1, <1>2, <1>3, EmptyStateType, JobAssumption DEF Init, TypeOK, NoTime, IdleJob

\* A step that writes one run state well keeps the run-state part of TypeOK.
LEMMA RunFileType ==
    ASSUME TypeOK, NEW i \in Ids, NEW rs \in RunState, Len(rs.history) <= HistoryLimit,
           runFile' = [runFile EXCEPT ![i] = rs]
    PROVE  /\ runFile' \in [Ids -> RunState \cup {None}]
           /\ load_run_state(i)' = rs \/ load_run_state(i)' = EmptyState
           /\ \A j \in Ids \ {i} : load_run_state(j)' = load_run_state(j)
           /\ \A j \in Ids : Len(load_run_state(j)'.history) <= HistoryLimit
BY EmptyStateType DEF TypeOK, load_run_state

\* Steps that leave the run states alone leave what is loaded alone.
LEMMA SameRunFile ==
    ASSUME runFile' = runFile
    PROVE  \A i \in Ids : load_run_state(i)' = load_run_state(i)
BY DEF load_run_state

\* Every step of the clock, systemd and the job keeps the types.
LEMMA JobTypeOK ==
    ASSUME TypeOK, NEW i \in Ids, Wake(i) \/ JobStep(i) \/ JobCrash(i)
    PROVE  TypeOK'
<1> USE DEF TypeOK
<1>0. IdleJob \in JobRec /\ IdleJob.pc = "idle" /\ job[i] \in JobRec
  BY DEF IdleJob, JobRec, JobPc, NoTime
<1>1. CASE Wake(i)
  <2>1. [IdleJob EXCEPT !.pc = "read", !.now = clock] \in JobRec
    BY DEF IdleJob, JobRec, JobPc, NoTime
  <2>2. [IdleJob EXCEPT !.pc = "read", !.now = clock].pc = "read"
    BY DEF IdleJob
  <2> QED
    BY <1>1, <2>1, <2>2, SameRunFile DEF Wake
<1>2. CASE JobRead(i)
  <2>1. store[i] \in Definition \cup {None}
    OBVIOUS
  <2>2. job'[i] \in JobRec /\ job'[i].pc \in {"decide", "disable"}
        /\ (job'[i].pc = "decide" => job'[i].def # None)
    BY <1>2, <1>0, <2>1 DEF JobRead, JobRec, JobPc
  <2>3. \A j \in Ids \ {i} : job'[j] = job[j]
    BY <1>2 DEF JobRead
  <2>4. job' \in [Ids -> JobRec]
    BY <1>2, <2>2, <2>3 DEF JobRead
  <2> QED
    BY <1>2, <2>2, <2>3, <2>4, SameRunFile DEF JobRead
<1>3. ASSUME NEW o \in Instants, JobRun(i, o) PROVE TypeOK'
  <2>1. o \in Nat
    BY JobAssumption DEF Instants, Timing
  <2>2. "running" \in Statuses
    BY DEF Statuses
  <2> DEFINE rs == apply_decision(load_run_state(i), o, "running")
  <2>3. rs \in RunState /\ Len(rs.history) <= HistoryLimit
    BY <2>1, <2>2, LoadType, ApplyType
  <2>4. runFile' = [runFile EXCEPT ![i] = rs]
    BY <1>3 DEF JobRun
  <2> HIDE DEF rs
  <2>5. /\ runFile' \in [Ids -> RunState \cup {None}]
        /\ \A j \in Ids : Len(load_run_state(j)'.history) <= HistoryLimit
    BY <2>3, <2>4, RunFileType
  <2>6. job[i].def # None
    BY <1>3 DEF JobRun
  <2>7. /\ job'[i] \in JobRec /\ job'[i].def = job[i].def /\ job'[i].occ = o
        /\ job' \in [Ids -> JobRec] /\ \A j \in Ids \ {i} : job'[j] = job[j]
    BY <1>0, <1>3, <2>1 DEF JobRun, JobRec, JobPc
  <2>8. sent' \in [Ids -> SUBSET Nat]
    BY <1>3, <2>1 DEF JobRun
  <2> QED
    BY <1>3, <2>1, <2>5, <2>6, <2>7, <2>8 DEF JobRun, NoTime
<1>4. CASE JobSkip(i)
  <2>1. Skipped(i) \in RunState /\ Len(Skipped(i).history) <= HistoryLimit
    BY <1>4, SkippedType DEF JobSkip
  <2>2. runFile' = [runFile EXCEPT ![i] = Skipped(i)]
    BY <1>4 DEF JobSkip
  <2>3. /\ runFile' \in [Ids -> RunState \cup {None}]
        /\ \A j \in Ids : Len(load_run_state(j)'.history) <= HistoryLimit
    BY <2>1, <2>2, RunFileType
  <2>4. [job[i] EXCEPT !.pc = "disable"] \in JobRec
    BY <1>0 DEF JobRec, JobPc
  <2>5. [job[i] EXCEPT !.pc = "disable"].pc = "disable"
    BY <1>0 DEF JobRec
  <2>6. job'[i] \in {IdleJob, [job[i] EXCEPT !.pc = "disable"]} /\ \A j \in Ids \ {i} : job'[j] = job[j]
    BY <1>4 DEF JobSkip
  <2>7. job' \in [Ids -> JobRec]
    BY <1>0, <1>4, <2>4 DEF JobSkip
  <2> QED
    BY <1>0, <1>4, <2>3, <2>5, <2>6, <2>7 DEF JobSkip
<1>5. ASSUME NEW s \in {"ok", "error", "skipped"}, JobFinish(i, s) PROVE TypeOK'
  <2> DEFINE end == check_finished(job[i].def, finish_run(load_run_state(i), job[i].occ, s), job[i].now)
  <2>1. end \in RunState /\ Len(end.history) <= HistoryLimit
    BY <1>5, FinishType DEF JobFinish
  <2>2. runFile' = [runFile EXCEPT ![i] = end]
    BY <1>5 DEF JobFinish
  <2> HIDE DEF end
  <2>3. /\ runFile' \in [Ids -> RunState \cup {None}]
        /\ \A j \in Ids : Len(load_run_state(j)'.history) <= HistoryLimit
    BY <2>1, <2>2, RunFileType
  <2>4. [job[i] EXCEPT !.pc = "disable"] \in JobRec
    BY <1>0 DEF JobRec, JobPc
  <2>5. [job[i] EXCEPT !.pc = "disable"].pc = "disable"
    BY <1>0 DEF JobRec
  <2>6. job'[i] \in {IdleJob, [job[i] EXCEPT !.pc = "disable"]} /\ \A j \in Ids \ {i} : job'[j] = job[j]
    BY <1>5 DEF JobFinish
  <2>7. job' \in [Ids -> JobRec]
    BY <1>0, <1>5, <2>4 DEF JobFinish
  <2>8. job[i].occ \in Nat
    BY <1>5 DEF JobFinish, JobRec
  <2>9. lost' \in [Ids -> SUBSET Nat]
    BY <1>5, <2>8 DEF JobFinish
  <2> QED
    BY <1>0, <1>5, <2>3, <2>5, <2>6, <2>7, <2>9 DEF JobFinish
<1>6. CASE JobDisable(i)
  <2>1. budget' \in [commands : Nat, job : Nat, cmd : Nat, folds : Nat, disable : Nat]
    <3>1. CASE UNCHANGED budget
      BY <3>1
    <3>2. CASE budget.disable > 0 /\ budget' = [budget EXCEPT !.disable = budget.disable - 1]
      <4>1. budget.disable - 1 \in Nat
        BY <3>2
      <4> QED
        BY <3>2, <4>1
    <3> QED
      BY <1>6, <3>1, <3>2 DEF JobDisable
  <2>2. armed' \in [Ids -> {None} \cup SUBSET Nat] /\ job' = [job EXCEPT ![i] = IdleJob]
    BY <1>6 DEF JobDisable
  <2> QED
    BY <1>0, <1>6, <2>1, <2>2, SameRunFile DEF JobDisable
<1>7. CASE JobCrash(i)
  <2>1. lost' \in [Ids -> SUBSET Nat]
    <3>1. job[i].pc = "prompt" => job[i].occ \in Nat
      BY DEF JobRec
    <3> QED
      BY <1>7, <3>1 DEF JobCrash
  <2>2. budget' \in [commands : Nat, job : Nat, cmd : Nat, folds : Nat, disable : Nat]
    <3>1. budget.job - 1 \in Nat
      BY <1>7 DEF JobCrash
    <3>2. budget' = [budget EXCEPT !.job = budget.job - 1]
      BY <1>7 DEF JobCrash
    <3> QED
      BY <3>1, <3>2
  <2> QED
    BY <1>0, <1>7, <2>1, <2>2, SameRunFile DEF JobCrash
<1> QED
  BY <1>1, <1>2, <1>3, <1>4, <1>5, <1>6, <1>7 DEF JobStep

\* So do the steps of the clock.
LEMMA ClockTypeOK ==
    ASSUME TypeOK, Tick \/ FallBack
    PROVE  TypeOK'
<1>1. CASE Tick
  BY <1>1, SameRunFile DEF Tick, TypeOK
<1>2. CASE FallBack
  <2>1. clock' \in Nat
    BY <1>2 DEF FallBack, TypeOK
  <2>2. budget.folds - 1 \in Nat
    BY <1>2 DEF FallBack, TypeOK
  <2>3. budget' = [budget EXCEPT !.folds = budget.folds - 1]
    BY <1>2 DEF FallBack
  <2>4. budget' \in [commands : Nat, job : Nat, cmd : Nat, folds : Nat, disable : Nat]
    BY <2>2, <2>3 DEF TypeOK
  <2>5. stamp' \in [Ids -> Int]
    BY <1>2, <2>1 DEF FallBack, TypeOK
  <2> QED
    BY <1>2, <2>1, <2>4, <2>5, SameRunFile DEF FallBack, TypeOK
<1> QED
  BY <1>1, <1>2

\* Beginning a helper command keeps the types.
LEMMA BeginTypeOK ==
    ASSUME TypeOK, NEW c \in Cmds, NEW kind \in Kinds, NEW ids \in SUBSET Ids,
           NEW d \in Drafts \cup {None}, Begin(c, kind, ids, d)
    PROVE  TypeOK'
<1>1. [IdleCmd EXCEPT !.pc = "lock", !.kind = kind, !.now = clock, !.ids = ids, !.draft = d] \in CmdRec
  BY DEF IdleCmd, CmdRec, CmdPc, TypeOK
<1>2. cmd' \in [Cmds -> CmdRec]
  BY <1>1 DEF Begin, TypeOK
<1>3. budget.commands - 1 \in Nat /\ budget' = [budget EXCEPT !.commands = budget.commands - 1]
  BY DEF Begin, TypeOK
<1>4. budget' \in [commands : Nat, job : Nat, cmd : Nat, folds : Nat, disable : Nat]
  BY <1>3 DEF TypeOK
<1> QED
  BY <1>2, <1>4, SameRunFile DEF Begin, TypeOK

-----------------------------------------------------------------------------
(* The store lock.                                                         *)

Critical == {"snapshot", "units", "systemctl"}

\* A command in its critical section holds the lock, a save names a draft, and
\* the schedules a command found to want a timer stay defined and switched on
\* until it has written their files.
LockInv ==
    /\ \A c \in Cmds : cmd[c].pc \in Critical => storeLock = c
    /\ \A c \in Cmds : cmd[c].kind = "save" => cmd[c].draft \in Drafts
    /\ \A c \in Cmds : cmd[c].pc = "units" =>
          \A i \in cmd[c].desired : store[i] # None /\ store[i].enabled

\* The steps of a helper command keep the types.
LEMMA CmdTypeOK ==
    ASSUME TypeOK, LockInv, NEW c \in Cmds, CmdBegin(c) \/ CmdStep(c) \/ CmdCrash(c)
    PROVE  TypeOK'
<1>0. /\ IdleCmd \in CmdRec /\ cmd[c] \in CmdRec
      /\ \A p \in CmdPc : [cmd[c] EXCEPT !.pc = p] \in CmdRec
  <2>1. IdleCmd \in CmdRec
    BY DEF IdleCmd, CmdRec, CmdPc, Kinds
  <2>2. cmd[c] \in CmdRec
    BY DEF TypeOK
  <2>3. \A p \in CmdPc : [cmd[c] EXCEPT !.pc = p] \in CmdRec
    BY <2>2 DEF CmdRec
  <2> QED
    BY <2>1, <2>2, <2>3
<1>1. CASE CmdBegin(c)
  BY <1>1, BeginTypeOK DEF CmdBegin, BeginSave, BeginDelete, BeginSync, Kinds
<1>2. CASE CmdSave(c)
  <2>1. cmd[c].draft \in Drafts /\ cmd[c].now \in Nat
    BY <1>2 DEF TypeOK, CmdRec, LockInv, CmdSave, Locks
  <2>2. cmd' \in [Cmds -> CmdRec]
    BY <1>0, <1>2 DEF CmdSave, TypeOK, CmdPc
  <2>3. \A i \in Ids : Edited(store[i], cmd[c].draft, cmd[c].now) \in Nat
    BY <2>1 DEF Edited, timing_changed, TypeOK, Definition
  <2>4. store' \in [Ids -> Definition \cup {None}]
    BY <1>2, <2>1, <2>3, DefinitionType DEF CmdSave, TypeOK
  <2> QED
    BY <1>2, <2>2, <2>4, SameRunFile DEF CmdSave, TypeOK
<1>3. CASE CmdSaveRefused(c)
  BY <1>0, <1>3, SameRunFile DEF CmdSaveRefused, TypeOK
<1>4. CASE CmdDelete(c)
  <2>1. [cmd[c] EXCEPT !.pc = "snapshot", !.ids = {i \in cmd[c].ids : store[i] # None}] \in CmdRec
    BY <1>0 DEF CmdRec, CmdPc
  <2>2. cmd' \in [Cmds -> CmdRec]
    BY <1>4, <2>1 DEF CmdDelete, TypeOK
  <2> QED
    BY <1>4, <2>2, SameRunFile DEF CmdDelete, TypeOK
<1>5. CASE CmdSync(c)
  <2>1. cmd' \in [Cmds -> CmdRec]
    BY <1>0, <1>5 DEF CmdSync, TypeOK, CmdPc
  <2> QED
    BY <1>5, <2>1, SameRunFile DEF CmdSync, TypeOK
<1>6. CASE Snapshot(c)
  <2> DEFINE want == {i \in Ids : store[i] # None /\ wants_timer(store[i], load_run_state(i), cmd[c].now)}
  <2>1. [cmd[c] EXCEPT !.pc = "units", !.desired = want] \in CmdRec
    BY <1>0 DEF CmdRec, CmdPc
  <2>2. cmd' = [cmd EXCEPT ![c] = [cmd[c] EXCEPT !.pc = "units", !.desired = want]]
    BY <1>6 DEF Snapshot, TypeOK
  <2> HIDE DEF want
  <2>3. cmd' \in [Cmds -> CmdRec]
    BY <2>1, <2>2 DEF TypeOK
  <2> QED
    BY <1>6, <2>3, SameRunFile DEF Snapshot, TypeOK
<1>7. CASE Units(c)
  <2> DEFINE changed == {i \in cmd[c].desired : unitFile[i] # store[i].lines}
  <2>1. cmd[c].desired \subseteq Ids /\ \A i \in cmd[c].desired : store[i] \in Definition
    BY <1>0, <1>7 DEF CmdRec, LockInv, Units, TypeOK
  <2>2. [cmd[c] EXCEPT !.pc = "systemctl", !.written = changed] \in CmdRec
    BY <1>0, <2>1 DEF CmdRec, CmdPc
  <2>3. cmd' = [cmd EXCEPT ![c] = [cmd[c] EXCEPT !.pc = "systemctl", !.written = changed]]
    BY <1>7 DEF Units, TypeOK
  <2>4. cmd' \in [Cmds -> CmdRec]
    BY <2>2, <2>3 DEF TypeOK
  <2>5. unitFile' \in [Ids -> {None} \cup SUBSET Nat]
    BY <1>7, <2>1 DEF Units, TypeOK, Definition
  <2>6. armed' \in [Ids -> {None} \cup SUBSET Nat] /\ stamp' \in [Ids -> Int]
    BY <1>7 DEF Units, TypeOK, NoTime
  <2> QED
    BY <1>7, <2>4, <2>5, <2>6, SameRunFile DEF Units, TypeOK
<1>8. CASE Systemctl(c)
  <2>1. armed' \in [Ids -> {None} \cup SUBSET Nat] /\ stamp' \in [Ids -> Int]
    BY <1>8 DEF Systemctl, Started, TypeOK
  <2>2. cmd' \in [Cmds -> CmdRec]
    BY <1>0, <1>8 DEF Systemctl, TypeOK, CmdPc
  <2> QED
    BY <1>8, <2>1, <2>2, SameRunFile DEF Systemctl, TypeOK
<1>9. CASE Forget(c)
  <2>1. \A i \in Ids : load_run_state(i)' = load_run_state(i) \/ load_run_state(i)' = EmptyState
    BY <1>9 DEF Forget, load_run_state
  <2>2. \A i \in Ids : Len(load_run_state(i)'.history) <= HistoryLimit
    BY <2>1, EmptyStateType, LoadType
  <2>3. runFile' \in [Ids -> RunState \cup {None}]
    BY <1>9 DEF Forget, TypeOK
  <2>4. sent' \in [Ids -> SUBSET Nat] /\ lost' \in [Ids -> SUBSET Nat]
    BY <1>9 DEF Forget, TypeOK
  <2> QED
    BY <1>0, <1>9, <2>2, <2>3, <2>4 DEF Forget, TypeOK
<1>10. CASE CmdCrash(c)
  <2>1. budget.cmd - 1 \in Nat /\ budget' = [budget EXCEPT !.cmd = budget.cmd - 1]
    BY <1>10 DEF CmdCrash, TypeOK
  <2>2. budget' \in [commands : Nat, job : Nat, cmd : Nat, folds : Nat, disable : Nat]
    BY <2>1 DEF TypeOK
  <2>3. storeLock' \in Cmds \cup {None}
    BY <1>10 DEF CmdCrash, TypeOK
  <2> QED
    BY <1>0, <1>10, <2>2, <2>3, SameRunFile DEF CmdCrash, TypeOK
<1> QED
  BY <1>1, <1>2, <1>3, <1>4, <1>5, <1>6, <1>7, <1>8, <1>9, <1>10 DEF CmdStep

\* The types and the lock discipline together are inductive.
LockedOK == TypeOK /\ LockInv

LEMMA InitLockedOK == Init => LockedOK
BY InitTypeOK DEF Init, LockedOK, LockInv, IdleCmd, Critical

\* Other commands are outside their critical section while c is entering or
\* leaving its own.
LEMMA CmdLockInv ==
    ASSUME LockedOK, NEW c \in Cmds, CmdBegin(c) \/ CmdStep(c) \/ CmdCrash(c)
    PROVE  LockInv'
<1> USE DEF LockedOK, LockInv, Critical
<1>0. IdleCmd.pc = "idle" /\ IdleCmd.kind = "sync" /\ cmd \in [Cmds -> CmdRec] /\ cmd[c] \in CmdRec
  BY DEF IdleCmd, TypeOK
<1>1. CASE CmdBegin(c)
  <2>1. ASSUME NEW kind \in Kinds, NEW ids \in SUBSET Ids, NEW d \in Drafts \cup {None},
               Begin(c, kind, ids, d), kind = "save" => d \in Drafts
        PROVE  LockInv'
    <3>1. /\ cmd'[c].pc = "lock" /\ cmd'[c].kind = kind /\ cmd'[c].draft = d
          /\ \A e \in Cmds \ {c} : cmd'[e] = cmd[e]
          /\ store' = store /\ storeLock' = storeLock
      BY <1>0, <2>1 DEF Begin, IdleCmd
    <3> QED
      BY <2>1, <3>1
  <2> QED
    BY <1>1, <2>1 DEF CmdBegin, BeginSave, BeginDelete, BeginSync, Kinds
<1>2. CASE CmdSave(c) \/ CmdDelete(c) \/ CmdSync(c)
  <2>1. /\ cmd'[c].pc = "snapshot" /\ cmd'[c].kind = cmd[c].kind /\ cmd'[c].draft = cmd[c].draft
        /\ \A e \in Cmds \ {c} : cmd'[e] = cmd[e]
        /\ storeLock = None /\ storeLock' = c
    BY <1>0, <1>2 DEF CmdSave, CmdDelete, CmdSync, Locks, CmdRec
  <2>2. \A e \in Cmds : cmd[e].pc \notin Critical
    BY <2>1, JobAssumption
  <2> QED
    BY <2>1, <2>2
<1>3. CASE CmdSaveRefused(c) \/ Forget(c)
  <2>1. /\ cmd'[c] = IdleCmd /\ \A e \in Cmds \ {c} : cmd'[e] = cmd[e]
        /\ store' = store /\ storeLock' = storeLock
    BY <1>0, <1>3 DEF CmdSaveRefused, Forget
  <2> QED
    BY <1>0, <2>1
<1>4. CASE Snapshot(c)
  <2>1. /\ cmd'[c].pc = "units" /\ cmd'[c].kind = cmd[c].kind /\ cmd'[c].draft = cmd[c].draft
        /\ cmd'[c].desired = {i \in Ids : store[i] # None /\ wants_timer(store[i], load_run_state(i), cmd[c].now)}
        /\ \A e \in Cmds \ {c} : cmd'[e] = cmd[e]
        /\ store' = store /\ storeLock' = storeLock /\ cmd[c].pc = "snapshot"
    BY <1>0, <1>4 DEF Snapshot, CmdRec
  <2> QED
    BY <2>1 DEF wants_timer
<1>5. CASE Units(c)
  <2>1. /\ cmd'[c].pc = "systemctl" /\ cmd'[c].kind = cmd[c].kind /\ cmd'[c].draft = cmd[c].draft
        /\ \A e \in Cmds \ {c} : cmd'[e] = cmd[e]
        /\ store' = store /\ storeLock' = storeLock /\ cmd[c].pc = "units"
    BY <1>0, <1>5 DEF Units, CmdRec
  <2> QED
    BY <2>1
<1>6. CASE Systemctl(c)
  <2>1. /\ cmd'[c].pc \in {"idle", "forget"}
        /\ cmd'[c].kind = "save" => cmd'[c] = IdleCmd
        /\ \A e \in Cmds \ {c} : cmd'[e] = cmd[e]
        /\ store' = store /\ storeLock' = None /\ cmd[c].pc = "systemctl"
    <3>1. cmd'[c] \in {IdleCmd, [cmd[c] EXCEPT !.pc = "forget"]}
      BY <1>0, <1>6 DEF Systemctl
    <3>2. cmd[c].kind = "delete" \/ cmd'[c] = IdleCmd
      BY <1>0, <1>6 DEF Systemctl
    <3> QED
      BY <1>0, <1>6, <3>1, <3>2 DEF Systemctl, CmdRec
  <2>2. \A e \in Cmds \ {c} : cmd[e].pc \notin Critical
    BY <2>1
  <2> QED
    BY <1>0, <2>1, <2>2
<1>7. CASE CmdCrash(c)
  <2>1. /\ cmd'[c] = IdleCmd /\ \A e \in Cmds \ {c} : cmd'[e] = cmd[e]
        /\ store' = store /\ storeLock' = IF storeLock = c THEN None ELSE storeLock
    BY <1>0, <1>7 DEF CmdCrash
  <2> QED
    BY <1>0, <2>1
<1> QED
  BY <1>1, <1>2, <1>3, <1>4, <1>5, <1>6, <1>7 DEF CmdStep

\* The other steps touch neither the helpers, the lock nor the definitions.
LEMMA OthersLeaveCmd ==
    ASSUME NEW i \in Ids, Tick \/ FallBack \/ Wake(i) \/ JobStep(i) \/ JobCrash(i)
    PROVE  UNCHANGED <<cmd, storeLock, store, unitFile>>
BY DEF Tick, FallBack, Wake, JobStep, JobRead, JobRun, JobSkip, JobFinish, JobDisable, JobCrash

LEMMA NextLockedOK == LockedOK /\ [Next]_vars => LockedOK'
<1> SUFFICES ASSUME LockedOK, [Next]_vars PROVE LockedOK'
  OBVIOUS
<1>1. CASE Tick \/ FallBack
  <2>1. UNCHANGED <<cmd, storeLock, store>>
    BY <1>1 DEF Tick, FallBack
  <2> QED
    BY <1>1, <2>1, ClockTypeOK DEF LockedOK, LockInv
<1>2. ASSUME NEW i \in Ids, Wake(i) \/ JobStep(i) \/ JobCrash(i) PROVE LockedOK'
  BY <1>2, JobTypeOK, OthersLeaveCmd DEF LockedOK, LockInv
<1>3. ASSUME NEW c \in Cmds, CmdBegin(c) \/ CmdStep(c) \/ CmdCrash(c) PROVE LockedOK'
  BY <1>3, CmdTypeOK, CmdLockInv DEF LockedOK
<1>4. CASE UNCHANGED vars
  BY <1>4, SameRunFile DEF vars, LockedOK, LockInv, TypeOK
<1> QED
  BY <1>1, <1>2, <1>3, <1>4 DEF Next

\* Every reachable state is well typed, and the store lock does its work.
THEOREM SpecTypeOK == Spec => []TypeOK
<1>1. LockedOK => TypeOK
  BY DEF LockedOK
<1> QED
  BY InitLockedOK, NextLockedOK, <1>1, PTL DEF Spec

THEOREM SpecLockedOK == Spec => []LockedOK
BY InitLockedOK, NextLockedOK, PTL DEF Spec

-----------------------------------------------------------------------------
(* No occurrence is sent twice.                                            *)

\* The strengthening: whatever was sent is at or before lastScheduledFor of
\* the run state, which only should_run's "newer than last" lets pass.
SentHandled == \A i \in Ids : \A o \in sent[i] : o <= load_run_state(i).last

LEMMA InitSentHandled == Init => SentHandled
BY DEF Init, SentHandled

LEMMA JobSentHandled ==
    ASSUME TypeOK, SentHandled, NEW i \in Ids, JobStep(i)
    PROVE  SentHandled'
<1> USE DEF SentHandled
<1>0. /\ \A j \in Ids : load_run_state(j).last \in Int /\ sent[j] \subseteq Nat
      /\ runFile \in [Ids -> RunState \cup {None}] /\ sent \in [Ids -> SUBSET Nat]
  BY LoadType DEF TypeOK, RunState, NoTime
<1>1. CASE JobRead(i) \/ JobDisable(i)
  BY <1>1, SameRunFile DEF JobRead, JobDisable
<1>2. ASSUME NEW o \in Instants, JobRun(i, o) PROVE SentHandled'
  <2> DEFINE rs == apply_decision(load_run_state(i), o, "running")
  <2>1. o \in Nat /\ "running" \in Statuses
    BY JobAssumption DEF Instants, Timing, Statuses
  <2>2. rs.last = o
    BY <2>1, LoadType, ApplyType
  <2>3. runFile' = [runFile EXCEPT ![i] = rs]
    BY <1>2 DEF JobRun
  <2>4. rs \in RunState
    BY <2>1, LoadType, ApplyType
  <2> HIDE DEF rs
  <2>5. job[i].pc = "decide" /\ o > load_run_state(i).last
    BY <1>2 DEF JobRun, ShouldRun, Pending
  <2>6. load_run_state(i)' = rs
    BY <1>0, <2>3, <2>4, JobAssumption DEF load_run_state
  <2>7. \A p \in sent'[i] : p <= o
    BY <1>0, <1>2, <2>1, <2>5 DEF JobRun
  <2>8. \A j \in Ids \ {i} : sent'[j] = sent[j] /\ load_run_state(j)' = load_run_state(j)
    BY <1>0, <1>2, <2>3 DEF JobRun, load_run_state
  <2> QED
    BY <2>2, <2>6, <2>7, <2>8
<1>3. CASE JobSkip(i)
  <2>1. Skipped(i) \in RunState /\ Skipped(i).last >= load_run_state(i).last
    BY <1>3, SkippedType DEF JobSkip
  <2>2. runFile' = [runFile EXCEPT ![i] = Skipped(i)] /\ sent' = sent
    BY <1>3 DEF JobSkip
  <2>3. load_run_state(i)' = Skipped(i)
    BY <1>0, <2>1, <2>2, JobAssumption DEF load_run_state
  <2>4. \A j \in Ids \ {i} : load_run_state(j)' = load_run_state(j)
    BY <1>0, <2>2 DEF load_run_state
  <2>5. Skipped(i).last \in Int
    BY <2>1 DEF RunState, NoTime
  <2> QED
    BY <1>0, <2>1, <2>2, <2>3, <2>4, <2>5
<1>4. ASSUME NEW s \in {"ok", "error", "skipped"}, JobFinish(i, s) PROVE SentHandled'
  <2> DEFINE end == check_finished(job[i].def, finish_run(load_run_state(i), job[i].occ, s), job[i].now)
  <2>1. end \in RunState /\ end.last = load_run_state(i).last
    BY <1>4, FinishType DEF JobFinish
  <2>2. runFile' = [runFile EXCEPT ![i] = end] /\ sent' = sent
    BY <1>4 DEF JobFinish
  <2> HIDE DEF end
  <2>3. load_run_state(i)' = end
    BY <1>0, <2>1, <2>2, JobAssumption DEF load_run_state
  <2>4. \A j \in Ids \ {i} : load_run_state(j)' = load_run_state(j)
    BY <1>0, <2>2 DEF load_run_state
  <2> QED
    BY <1>0, <2>1, <2>2, <2>3, <2>4
<1> QED
  BY <1>1, <1>2, <1>3, <1>4 DEF JobStep

\* No other step makes sent grow or a run state older.
LEMMA NextSentHandled == LockedOK /\ SentHandled /\ [Next]_vars => SentHandled'
<1> SUFFICES ASSUME LockedOK, SentHandled, [Next]_vars PROVE SentHandled'
  OBVIOUS
<1>1. ASSUME UNCHANGED <<runFile, sent>> PROVE SentHandled'
  BY <1>1, SameRunFile DEF SentHandled
<1>2. CASE Tick \/ FallBack
  BY <1>1, <1>2 DEF Tick, FallBack
<1>3. ASSUME NEW i \in Ids, Wake(i) \/ JobStep(i) \/ JobCrash(i) PROVE SentHandled'
  BY <1>1, <1>3, JobSentHandled DEF LockedOK, Wake, JobCrash
<1>4. ASSUME NEW c \in Cmds, CmdBegin(c) \/ CmdStep(c) \/ CmdCrash(c) PROVE SentHandled'
  <2>1. CASE Forget(c)
    <3>1. \A i \in Ids : sent'[i] = {} \/ (sent'[i] = sent[i] /\ load_run_state(i)' = load_run_state(i))
      BY <2>1 DEF Forget, load_run_state
    <3> QED
      BY <3>1 DEF SentHandled
  <2>2. CASE ~Forget(c)
    BY <1>1, <1>4, <2>2 DEF CmdBegin, BeginSave, BeginDelete, BeginSync, Begin, CmdStep, CmdSave,
       CmdSaveRefused, CmdDelete, CmdSync, Snapshot, Units, Systemctl, CmdCrash
  <2> QED
    BY <2>1, <2>2
<1>5. CASE UNCHANGED vars
  BY <1>1, <1>5 DEF vars
<1> QED
  BY <1>2, <1>3, <1>4, <1>5 DEF Next

\* Only JobRun starts a prompt.
LEMMA StartRuns ==
    ASSUME TypeOK, [Next]_vars, NEW i \in Ids, Starts(i)
    PROVE  \E o \in Instants : JobRun(i, o)
<1>1. PICK j \in Ids : JobStep(j) \/ Wake(j) \/ JobCrash(j)
  BY DEF Starts, Next, vars, Tick, FallBack, CmdBegin, BeginSave, BeginDelete, BeginSync, Begin, CmdStep,
     CmdSave, CmdSaveRefused, CmdDelete, CmdSync, Snapshot, Units, Systemctl, Forget, CmdCrash
<1>2. job \in [Ids -> JobRec] /\ IdleJob.pc = "idle"
  BY DEF TypeOK, IdleJob
<1>3. j = i
  BY <1>1, <1>2 DEF Starts, JobStep, JobRead, JobRun, JobSkip, JobFinish, JobDisable, JobCrash, Wake
<1>4. [IdleJob EXCEPT !.pc = "read", !.now = clock].pc = "read"
  BY DEF IdleJob
<1>5. ~Wake(i) /\ ~JobCrash(i) /\ ~JobRead(i) /\ ~JobDisable(i)
  BY <1>2, <1>4 DEF Starts, Wake, JobCrash, JobRead, JobDisable
<1>6. ~JobSkip(i)
  BY <1>2 DEF Starts, JobSkip, JobRec
<1>7. \A s \in {"ok", "error", "skipped"} : ~JobFinish(i, s)
  BY DEF Starts, JobFinish
<1> QED
  BY <1>1, <1>3, <1>5, <1>6, <1>7 DEF JobStep

\* And it starts one newer than all that was sent.
LEMMA StartIsNew ==
    ASSUME LockedOK, SentHandled, [Next]_vars, NEW i \in Ids, Starts(i)
    PROVE  job'[i].occ \notin sent[i]
<1>1. PICK o \in Instants : JobRun(i, o)
  BY StartRuns DEF LockedOK
<1>2. job'[i].occ = o
  BY <1>1 DEF JobRun, JobRec, LockedOK, TypeOK
<1>3. o > load_run_state(i).last
  BY <1>1 DEF JobRun, ShouldRun, Pending
<1>4. o \in Nat /\ load_run_state(i).last \in Int /\ sent[i] \subseteq Nat
  <2>1. o \in Nat
    BY JobAssumption DEF Instants, Timing
  <2>2. load_run_state(i).last \in Int
    BY LoadType DEF LockedOK, RunState, NoTime
  <2>3. sent[i] \subseteq Nat
    BY DEF LockedOK, TypeOK
  <2> QED
    BY <2>1, <2>2, <2>3
<1> QED
  BY <1>2, <1>3, <1>4 DEF SentHandled

\* While a run state exists, no occurrence's prompt is started twice, for any
\* number of schedules, helpers, edits, crashes and clock changes.
THEOREM SpecNeverSentTwice == Spec => NeverSentTwice
<1>1. LockedOK /\ SentHandled /\ [Next]_vars
      => [\A i \in Ids : Starts(i) => job'[i].occ \notin sent[i]]_vars
  BY StartIsNew
<1> QED
  BY InitLockedOK, NextLockedOK, InitSentHandled, NextSentHandled, <1>1, PTL DEF Spec, NeverSentTwice

-----------------------------------------------------------------------------
(* A job never closes a schedule that was edited after the job was woken.  *)

\* The run state a step leaves: as it was as far as the finish goes, finished
\* at the time a job of the schedule was woken, or empty.
LEMMA FinishSource ==
    ASSUME LockedOK, [Next]_vars, NEW i \in Ids
    PROVE  \/ /\ load_run_state(i)'.finished = load_run_state(i).finished
              /\ load_run_state(i)'.finishedAt = load_run_state(i).finishedAt
           \/ job[i].pc \in {"decide", "prompt"} /\ load_run_state(i)'.finishedAt = job[i].now
           \/ load_run_state(i)' = EmptyState
<1> USE DEF LockedOK
<1>0. runFile \in [Ids -> RunState \cup {None}]
  BY DEF TypeOK
<1>1. CASE runFile' = runFile
  BY <1>1, SameRunFile
<1>2. ASSUME NEW j \in Ids, JobStep(j), j # i PROVE load_run_state(i)' = load_run_state(i)
  BY <1>0, <1>2 DEF JobStep, JobRead, JobRun, JobSkip, JobFinish, JobDisable, load_run_state
<1>3. ASSUME NEW o \in Instants, JobRun(i, o)
      PROVE  /\ load_run_state(i)'.finished = load_run_state(i).finished
             /\ load_run_state(i)'.finishedAt = load_run_state(i).finishedAt
  <2> DEFINE rs == apply_decision(load_run_state(i), o, "running")
  <2>1. o \in Nat
    BY JobAssumption DEF Instants, Timing
  <2>2. "running" \in Statuses
    BY DEF Statuses
  <2>3. /\ rs \in RunState /\ rs.finished = load_run_state(i).finished
        /\ rs.finishedAt = load_run_state(i).finishedAt
    BY <2>1, <2>2, LoadType, ApplyType
  <2>4. runFile' = [runFile EXCEPT ![i] = rs]
    BY <1>3 DEF JobRun
  <2> HIDE DEF rs
  <2>5. load_run_state(i)' = rs
    BY <1>0, <2>3, <2>4, JobAssumption DEF load_run_state
  <2> QED
    BY <2>3, <2>5
<1>4. ASSUME JobSkip(i) PROVE \/ /\ load_run_state(i)'.finished = load_run_state(i).finished
                                 /\ load_run_state(i)'.finishedAt = load_run_state(i).finishedAt
                              \/ job[i].pc = "decide" /\ load_run_state(i)'.finishedAt = job[i].now
  <2>1. job[i].pc = "decide" /\ runFile' = [runFile EXCEPT ![i] = Skipped(i)]
    BY <1>4 DEF JobSkip
  <2>2. /\ Skipped(i) \in RunState
        /\ \/ /\ Skipped(i).finished = load_run_state(i).finished
              /\ Skipped(i).finishedAt = load_run_state(i).finishedAt
           \/ Skipped(i).finishedAt = job[i].now
    BY <2>1, SkippedType
  <2>3. load_run_state(i)' = Skipped(i)
    BY <1>0, <2>1, <2>2, JobAssumption DEF load_run_state
  <2> QED
    BY <2>1, <2>2, <2>3
<1>5. ASSUME NEW s \in {"ok", "error", "skipped"}, JobFinish(i, s)
      PROVE  \/ /\ load_run_state(i)'.finished = load_run_state(i).finished
                /\ load_run_state(i)'.finishedAt = load_run_state(i).finishedAt
             \/ job[i].pc = "prompt" /\ load_run_state(i)'.finishedAt = job[i].now
  <2> DEFINE end == check_finished(job[i].def, finish_run(load_run_state(i), job[i].occ, s), job[i].now)
  <2>1. job[i].pc = "prompt" /\ runFile' = [runFile EXCEPT ![i] = end]
    BY <1>5 DEF JobFinish
  <2>2. /\ end \in RunState
        /\ \/ /\ end.finished = load_run_state(i).finished
              /\ end.finishedAt = load_run_state(i).finishedAt
           \/ end.finishedAt = job[i].now
    BY <2>1, FinishType
  <2> HIDE DEF end
  <2>3. load_run_state(i)' = end
    BY <1>0, <2>1, <2>2, JobAssumption DEF load_run_state
  <2> QED
    BY <2>1, <2>2, <2>3
<1>6. ASSUME NEW c \in Cmds, Forget(c)
      PROVE  load_run_state(i)' = load_run_state(i) \/ load_run_state(i)' = EmptyState
  BY <1>6 DEF Forget, load_run_state
<1>7. \/ runFile' = runFile
      \/ \E j \in Ids : JobStep(j)
      \/ \E c \in Cmds : Forget(c)
  BY DEF Next, vars, Tick, FallBack, Wake, JobCrash, CmdBegin, BeginSave, BeginDelete, BeginSync, Begin,
     CmdStep, CmdSave, CmdSaveRefused, CmdDelete, CmdSync, Snapshot, Units, Systemctl, CmdCrash
<1>8. ASSUME JobStep(i) PROVE \/ runFile' = runFile
                              \/ \E o \in Instants : JobRun(i, o)
                              \/ JobSkip(i)
                              \/ \E s \in {"ok", "error", "skipped"} : JobFinish(i, s)
  BY <1>8 DEF JobStep, JobRead, JobDisable
<1> QED
  BY <1>1, <1>2, <1>3, <1>4, <1>5, <1>6, <1>7, <1>8

\* A job woken before the last timing edit never closes the edited schedule.
THEOREM SpecStaleJobNeverFinishes == Spec => StaleJobNeverFinishes
<1> DEFINE A == \A i \in Ids :
          /\ job[i].pc \in {"decide", "prompt"}
          /\ store[i] # None /\ job[i].now < store[i].editedAt
          /\ store'[i] = store[i] /\ ~IsFinished(store[i], load_run_state(i))
          => ~IsFinished(store[i], load_run_state(i)')
<1>1. ASSUME LockedOK, [Next]_vars PROVE A
  <2> SUFFICES ASSUME NEW i \in Ids,
                      store[i] # None, job[i].now < store[i].editedAt,
                      ~IsFinished(store[i], load_run_state(i)),
                      IsFinished(store[i], load_run_state(i)')
               PROVE  FALSE
    OBVIOUS
  <2>1. job[i].now \in Nat /\ store[i].editedAt \in Nat
    BY <1>1 DEF LockedOK, TypeOK, JobRec, Definition
  <2>2. ~EmptyState.finished
    BY DEF EmptyState
  <2> QED
    BY <1>1, <2>1, <2>2, FinishSource DEF IsFinished, NoTime
<1>2. LockedOK /\ [Next]_vars => [A]_vars
  BY <1>1
<1> QED
  BY InitLockedOK, NextLockedOK, <1>2, PTL DEF Spec, StaleJobNeverFinishes

-----------------------------------------------------------------------------
(* The timer files are those of the present definitions.                   *)

FilesCurrent ==
    \A i \in Ids : unitFile[i] # None => /\ store[i] # None /\ store[i].enabled
                                         /\ unitFile[i] = store[i].lines

\* The strengthening: the files already match when the command that wrote them
\* still holds the lock, and no helper may die.
FilesInv ==
    /\ budget.cmd = 0
    /\ storeLock = None => FilesCurrent
    /\ \A c \in Cmds : storeLock = c /\ cmd[c].pc = "systemctl" => FilesCurrent

LEMMA NextFilesInv ==
    ASSUME LockedOK, FilesInv, [Next]_vars
    PROVE  FilesInv'
<1> USE DEF FilesInv
<1>0. /\ cmd \in [Cmds -> CmdRec] /\ IdleCmd.pc = "idle" /\ budget.cmd = 0
      /\ budget \in [commands : Nat, job : Nat, cmd : Nat, folds : Nat, disable : Nat]
  BY DEF LockedOK, TypeOK, IdleCmd
<1>1. budget'.cmd = budget.cmd
  <2>1. ASSUME NEW x, \/ budget' = budget
                      \/ budget' = [budget EXCEPT !.folds = x]
                      \/ budget' = [budget EXCEPT !.job = x]
                      \/ budget' = [budget EXCEPT !.disable = x]
                      \/ budget' = [budget EXCEPT !.commands = x]
        PROVE  budget'.cmd = budget.cmd
    BY <1>0, <2>1
  <2>2. CASE Tick \/ UNCHANGED vars
    BY <2>1, <2>2 DEF Tick, vars
  <2>3. CASE FallBack
    BY <2>1, <2>3 DEF FallBack
  <2>4. ASSUME NEW i \in Ids, Wake(i) \/ JobStep(i) \/ JobCrash(i) PROVE budget'.cmd = budget.cmd
    <3>1. CASE JobCrash(i)
      BY <2>1, <3>1 DEF JobCrash
    <3>2. CASE JobDisable(i)
      BY <2>1, <3>2 DEF JobDisable
    <3>3. CASE Wake(i) \/ (JobStep(i) /\ ~JobDisable(i))
      BY <2>1, <3>3 DEF Wake, JobStep, JobRead, JobRun, JobSkip, JobFinish
    <3> QED
      BY <2>4, <3>1, <3>2, <3>3
  <2>5. ASSUME NEW c \in Cmds, CmdBegin(c) \/ CmdStep(c) \/ CmdCrash(c) PROVE budget'.cmd = budget.cmd
    <3>1. CASE CmdBegin(c)
      BY <2>1, <3>1 DEF CmdBegin, BeginSave, BeginDelete, BeginSync, Begin
    <3>2. CASE CmdStep(c)
      BY <2>1, <3>2 DEF CmdStep, CmdSave, CmdSaveRefused, CmdDelete, CmdSync, Snapshot, Units, Systemctl, Forget
    <3>3. CASE CmdCrash(c)
      BY <1>0, <3>3 DEF CmdCrash
    <3> QED
      BY <2>5, <3>1, <3>2, <3>3
  <2> QED
    BY <2>2, <2>3, <2>4, <2>5 DEF Next
<1>2. ASSUME UNCHANGED <<store, unitFile>>,
             storeLock' = storeLock,
             \A c \in Cmds : cmd'[c].pc = "systemctl" => cmd[c].pc = "systemctl"
      PROVE  FilesInv'
  BY <1>1, <1>2 DEF FilesCurrent
<1>3. ASSUME NEW i \in Ids, Wake(i) \/ JobStep(i) \/ JobCrash(i) PROVE FilesInv'
  BY <1>2, <1>3, OthersLeaveCmd
<1>4. Tick \/ FallBack => FilesInv'
  BY <1>2 DEF Tick, FallBack
<1>5. ASSUME NEW c \in Cmds, CmdBegin(c) \/ CmdStep(c) \/ CmdCrash(c) PROVE FilesInv'
  <2>1. CASE CmdBegin(c)
    <3>1. /\ \E r : r.pc = "lock" /\ cmd' = [cmd EXCEPT ![c] = r]
          /\ UNCHANGED <<store, unitFile, storeLock>>
      <4>1. ASSUME NEW kind, NEW ids, NEW d, Begin(c, kind, ids, d)
            PROVE  /\ \E r : r.pc = "lock" /\ cmd' = [cmd EXCEPT ![c] = r]
                   /\ UNCHANGED <<store, unitFile, storeLock>>
        <5> DEFINE r == [IdleCmd EXCEPT !.pc = "lock", !.kind = kind, !.now = clock, !.ids = ids, !.draft = d]
        <5>1. r.pc = "lock" /\ cmd' = [cmd EXCEPT ![c] = r]
          BY <4>1 DEF Begin, IdleCmd
        <5> HIDE DEF r
        <5> QED
          BY <4>1, <5>1 DEF Begin
      <4> QED
        BY <2>1, <4>1 DEF CmdBegin, BeginSave, BeginDelete, BeginSync
    <3> QED
      BY <1>0, <1>2, <3>1
  <2>2. CASE CmdSave(c) \/ CmdDelete(c) \/ CmdSync(c)
    <3>1. /\ storeLock = None /\ storeLock' = c /\ cmd'[c].pc = "snapshot"
      BY <1>0, <2>2 DEF CmdSave, CmdDelete, CmdSync, Locks, CmdRec
    <3> QED
      BY <1>1, <3>1, JobAssumption
  <2>3. CASE CmdSaveRefused(c) \/ Forget(c)
    BY <1>0, <1>2, <2>3 DEF CmdSaveRefused, Forget
  <2>4. CASE Snapshot(c)
    <3>1. cmd'[c].pc = "units" /\ \A e \in Cmds \ {c} : cmd'[e] = cmd[e]
      BY <1>0, <2>4 DEF Snapshot, CmdRec
    <3> QED
      BY <1>2, <2>4, <3>1 DEF Snapshot
  <2>5. CASE Units(c)
    <3>1. \A i \in cmd[c].desired : store[i] # None /\ store[i].enabled
      BY <2>5 DEF Units, LockedOK, LockInv
    <3>2. FilesCurrent'
      BY <2>5, <3>1 DEF Units, FilesCurrent
    <3> QED
      BY <1>1, <3>2
  <2>6. CASE Systemctl(c)
    <3>1. storeLock = c
      BY <2>6 DEF Systemctl, LockedOK, LockInv, Critical
    <3>2. FilesCurrent
      BY <2>6, <3>1 DEF Systemctl
    <3>3. FilesCurrent'
      BY <2>6, <3>2 DEF Systemctl, FilesCurrent
    <3> QED
      BY <1>1, <3>3
  <2>7. CASE CmdCrash(c)
    BY <1>0, <2>7 DEF CmdCrash
  <2> QED
    BY <1>5, <2>1, <2>2, <2>3, <2>4, <2>5, <2>6, <2>7 DEF CmdStep
<1>6. CASE UNCHANGED vars
  BY <1>2, <1>6 DEF vars
<1> QED
  BY <1>3, <1>4, <1>5, <1>6 DEF Next

\* As long as no helper dies half-way, the unit folder matches the definitions
\* whenever no command is at work, for any number of helpers and schedules.
THEOREM SpecUnitFolderMatches ==
    ASSUME CmdCrashes = 0
    PROVE  Spec => []UnitFolderMatches
<1>1. Init => FilesInv
  BY DEF Init, FilesInv, FilesCurrent, IdleCmd
<1>2. LockedOK /\ FilesInv /\ [Next]_vars => FilesInv'
  BY NextFilesInv
<1>3. FilesInv => UnitFolderMatches
  BY DEF FilesInv, FilesCurrent, UnitFolderMatches
<1> QED
  BY InitLockedOK, NextLockedOK, <1>1, <1>2, <1>3, PTL DEF Spec

-----------------------------------------------------------------------------
(* No schedule runs more often than its limit.                             *)

UnderWay(i) == job[i].pc = "prompt" /\ job[i].occ \in sent[i] \ lost[i]

\* How many of S are not in L.
Net(S, L) == Cardinality(S \ L)

\* The strengthening: every prompt that was started, and did not die or was
\* skipped, is counted in the run state or still under way.
Counted ==
    \A i \in Ids :
        /\ IsFiniteSet(sent[i])
        /\ Net(sent[i], lost[i]) <= load_run_state(i).count + (IF UnderWay(i) THEN 1 ELSE 0)

\* One started or lost occurrence more, in numbers.
LEMMA OneMore ==
    ASSUME NEW S, NEW L, IsFiniteSet(S)
    PROVE  /\ Net(S, L) \in Nat
           /\ \A o : /\ IsFiniteSet(S \cup {o})
                     /\ Net(S \cup {o}, L) \in Nat /\ Net(S, L \cup {o}) \in Nat
                     /\ Net(S \cup {o}, L) <= Net(S, L) + (IF o \in L THEN 0 ELSE 1)
                     /\ Net(S, L \cup {o}) <= Net(S, L) - (IF o \in S \ L THEN 1 ELSE 0)
<1> DEFINE R == S \ L
<1>1. IsFiniteSet(R) /\ Cardinality(R) \in Nat
  BY FS_Subset, FS_CardinalityType
<1>2. ASSUME NEW o PROVE IsFiniteSet(S \cup {o})
  BY FS_AddElement
<1>3. ASSUME NEW o
      PROVE  Net(S \cup {o}, L) \in Nat /\ Net(S \cup {o}, L) <= Net(S, L) + (IF o \in L THEN 0 ELSE 1)
  <2>1. /\ Cardinality(R \cup {o}) = Cardinality(R) \/ Cardinality(R \cup {o}) = Cardinality(R) + 1
    <3> HIDE DEF R
    <3> QED
      BY <1>1, FS_AddElement
  <2>2. CASE o \in L
    <3>1. (S \cup {o}) \ L = R
      BY <2>2
    <3>2. Net(S \cup {o}, L) = Cardinality(R) /\ Net(S, L) = Cardinality(R)
      BY <3>1 DEF Net
    <3> HIDE DEF R
    <3> QED
      BY <1>1, <2>2, <3>2
  <2>3. CASE o \notin L
    <3>1. (S \cup {o}) \ L = R \cup {o}
      BY <2>3
    <3>2. Net(S \cup {o}, L) = Cardinality(R \cup {o}) /\ Net(S, L) = Cardinality(R)
      BY <3>1 DEF Net
    <3> HIDE DEF R
    <3> QED
      BY <1>1, <2>1, <2>3, <3>2
  <2> QED
    BY <2>2, <2>3
<1>4. ASSUME NEW o
      PROVE  Net(S, L \cup {o}) \in Nat /\ Net(S, L \cup {o}) <= Net(S, L) - (IF o \in S \ L THEN 1 ELSE 0)
  <2>1. S \ (L \cup {o}) = R \ {o}
    OBVIOUS
  <2>2. Net(S, L \cup {o}) = Cardinality(R \ {o}) /\ Net(S, L) = Cardinality(R)
    BY <2>1 DEF Net
  <2>3. o \in S \ L <=> o \in R
    OBVIOUS
  <2> HIDE DEF R
  <2>4. /\ IsFiniteSet(R \ {o})
        /\ Cardinality(R \ {o}) = IF o \in R THEN Cardinality(R) - 1 ELSE Cardinality(R)
    BY <1>1, FS_RemoveElement
  <2>5. Cardinality(R \ {o}) \in Nat
    BY <2>4, FS_CardinalityType
  <2> QED
    BY <1>1, <2>2, <2>3, <2>4, <2>5
<1>5. Net(S, L) \in Nat
  BY <1>1 DEF Net
<1> QED
  BY <1>2, <1>3, <1>4, <1>5

\* What the run-state operators do to the count.
LEMMA CountOf ==
    ASSUME NEW rs \in RunState
    PROVE  /\ \A o, s : apply_decision(rs, o, s).count = rs.count
           /\ \A d, t : check_finished(d, rs, t).count = rs.count
           /\ \A o, s : finish_run(rs, o, s).count = IF s = "skipped" THEN rs.count ELSE rs.count + 1
<1>1. DOMAIN rs = {"last", "count", "finished", "finishedAt", "status", "history"}
  BY DEF RunState
<1>2. \A o, s : apply_decision(rs, o, s).count = rs.count
  BY <1>1 DEF apply_decision
<1>3. \A d, t : check_finished(d, rs, t).count = rs.count
  BY <1>1 DEF check_finished
<1>4. \A o, s : finish_run(rs, o, s).count = IF s = "skipped" THEN rs.count ELSE rs.count + 1
  BY <1>1 DEF finish_run, RunState
<1> QED
  BY <1>2, <1>3, <1>4

\* A wake-up that runs nothing leaves the count.
LEMMA SkippedCount ==
    ASSUME TypeOK, NEW i \in Ids, job[i].pc = "decide"
    PROVE  Skipped(i).count = load_run_state(i).count
<1> DEFINE rs == load_run_state(i)
           late == {o \in job[i].def.rules : Missed(job[i].def, rs, job[i].now, o)}
           seen == IF late = {} THEN rs ELSE apply_decision(rs, CHOOSE o \in late : TRUE, "missed")
<1>1. rs \in RunState
  BY LoadType
<1>2. late # {} => (CHOOSE o \in late : TRUE) \in Nat
  <2>1. job[i].def \in Definition
    BY DEF TypeOK, JobRec
  <2>2. late \subseteq Nat
    BY <2>1 DEF Definition
  <2> QED
    BY <2>2
<1>3. seen \in RunState /\ seen.count = rs.count
  BY <1>1, <1>2, LoadType, ApplyType, CountOf DEF Statuses
<1>4. Skipped(i) = check_finished(job[i].def, seen, job[i].now)
  BY DEF Skipped
<1> HIDE DEF rs, seen, late
<1> QED
  BY <1>3, <1>4, CountOf DEF rs

\* A step that leaves what is counted, and no job's prompt under way that was not.
LEMMA SameCount ==
    ASSUME TypeOK, Counted, UNCHANGED <<runFile, sent, lost>>,
           \A i \in Ids : UnderWay(i)' <=> UnderWay(i)
    PROVE  Counted'
BY SameRunFile DEF Counted

LEMMA JobCounted ==
    ASSUME TypeOK, Counted, NEW i \in Ids, JobStep(i) \/ JobCrash(i)
    PROVE  Counted'
<1>0. /\ job \in [Ids -> JobRec] /\ runFile \in [Ids -> RunState \cup {None}]
      /\ sent \in [Ids -> SUBSET Nat] /\ lost \in [Ids -> SUBSET Nat]
      /\ IdleJob.pc = "idle"
      /\ \A j \in Ids : load_run_state(j) \in RunState /\ load_run_state(j).count \in Nat
  <2>1. \A j \in Ids : load_run_state(j) \in RunState
    BY LoadType
  <2> QED
    BY <2>1 DEF TypeOK, IdleJob, RunState
<1>1. \A j \in Ids \ {i} : job'[j] = job[j] /\ sent'[j] = sent[j] /\ lost'[j] = lost[j] /\ runFile'[j] = runFile[j]
  BY <1>0 DEF JobStep, JobRead, JobRun, JobSkip, JobFinish, JobDisable, JobCrash
<1>2. ASSUME IsFiniteSet(sent'[i]),
             Net(sent'[i], lost'[i]) <= load_run_state(i)'.count + (IF UnderWay(i)' THEN 1 ELSE 0)
      PROVE  Counted'
  <2>1. ASSUME NEW j \in Ids \ {i}
        PROVE  (UnderWay(j)' <=> UnderWay(j)) /\ load_run_state(j)' = load_run_state(j)
    BY <1>1, <2>1 DEF UnderWay, load_run_state
  <2> QED
    BY <1>1, <1>2, <2>1 DEF Counted
<1>3. /\ IsFiniteSet(sent[i]) /\ Net(sent[i], lost[i]) \in Nat
      /\ Net(sent[i], lost[i]) <= load_run_state(i).count + (IF UnderWay(i) THEN 1 ELSE 0)
      /\ \A o : /\ IsFiniteSet(sent[i] \cup {o})
                /\ Net(sent[i] \cup {o}, lost[i]) \in Nat /\ Net(sent[i], lost[i] \cup {o}) \in Nat
                /\ Net(sent[i] \cup {o}, lost[i]) <= Net(sent[i], lost[i]) + (IF o \in lost[i] THEN 0 ELSE 1)
                /\ Net(sent[i], lost[i] \cup {o}) <= Net(sent[i], lost[i]) - (IF o \in sent[i] \ lost[i] THEN 1 ELSE 0)
  <2>1. IsFiniteSet(sent[i]) /\ Net(sent[i], lost[i]) <= load_run_state(i).count + (IF UnderWay(i) THEN 1 ELSE 0)
    BY DEF Counted
  <2> QED
    BY <2>1, OneMore
<1>4. CASE JobRead(i) \/ JobDisable(i)
  <2>1. ~UnderWay(i) /\ ~UnderWay(i)'
    BY <1>0, <1>4 DEF JobRead, JobDisable, UnderWay, JobRec
  <2>2. \A j \in Ids : UnderWay(j)' <=> UnderWay(j)
    BY <1>1, <2>1 DEF UnderWay
  <2> QED
    BY <1>4, <2>2, SameCount DEF JobRead, JobDisable
<1>5. ASSUME NEW o \in Instants, JobRun(i, o) PROVE Counted'
  <2> DEFINE rs == apply_decision(load_run_state(i), o, "running")
  <2>1. o \in Nat /\ "running" \in Statuses
    BY JobAssumption DEF Instants, Timing, Statuses
  <2>2. rs \in RunState /\ rs.count = load_run_state(i).count
    BY <2>1, LoadType, ApplyType, CountOf
  <2>3. runFile' = [runFile EXCEPT ![i] = rs]
    BY <1>5 DEF JobRun
  <2> HIDE DEF rs
  <2>4. load_run_state(i)' = rs
    BY <1>0, <2>2, <2>3, JobAssumption DEF load_run_state
  <2>5. sent'[i] = sent[i] \cup {o} /\ lost'[i] = lost[i] /\ ~UnderWay(i)
    BY <1>0, <1>5 DEF JobRun, UnderWay
  <2>6. job'[i].pc = "prompt" /\ job'[i].occ = o
    BY <1>0, <1>5 DEF JobRun, JobRec
  <2>7. UnderWay(i)' <=> o \notin lost[i]
    BY <2>5, <2>6 DEF UnderWay
  <2>8. IsFiniteSet(sent'[i])
    BY <1>3, <2>5
  <2>9. /\ Net(sent'[i], lost'[i]) \in Nat
        /\ Net(sent'[i], lost'[i]) <= Net(sent[i], lost[i]) + (IF o \in lost[i] THEN 0 ELSE 1)
    BY <1>3, <2>5
  <2>10. Net(sent'[i], lost'[i]) <= load_run_state(i)'.count + (IF UnderWay(i)' THEN 1 ELSE 0)
    BY <1>0, <1>3, <2>2, <2>4, <2>5, <2>7, <2>9
  <2> QED
    BY <1>2, <2>8, <2>10
<1>6. CASE JobSkip(i)
  <2>1. Skipped(i) \in RunState /\ Skipped(i).count = load_run_state(i).count
    BY <1>6, SkippedType, SkippedCount DEF JobSkip
  <2>2. load_run_state(i)' = Skipped(i)
    BY <1>0, <1>6, <2>1, JobAssumption DEF load_run_state, JobSkip
  <2>3. ~UnderWay(i) /\ sent' = sent /\ lost' = lost
    BY <1>6 DEF UnderWay, JobSkip
  <2>4. Net(sent'[i], lost'[i]) <= load_run_state(i)'.count
    BY <1>0, <1>3, <2>1, <2>2, <2>3
  <2>5. load_run_state(i)'.count \in Nat
    BY <1>0, <2>1, <2>2
  <2> QED
    BY <1>2, <1>3, <2>3, <2>4, <2>5
<1>7. ASSUME NEW s \in {"ok", "error", "skipped"}, JobFinish(i, s) PROVE Counted'
  <2> DEFINE fr == finish_run(load_run_state(i), job[i].occ, s)
             end == check_finished(job[i].def, fr, job[i].now)
  <2>1. job[i].occ \in Nat /\ s \in Statuses /\ job[i].pc = "prompt"
    BY <1>7 DEF JobFinish, TypeOK, JobRec, Statuses
  <2>2. fr \in RunState /\ fr.count = IF s = "skipped" THEN load_run_state(i).count ELSE load_run_state(i).count + 1
    BY <1>0, <2>1, LoadType, FinishRunType, CountOf
  <2>3. end \in RunState /\ end.count = fr.count
    BY <2>1, <2>2, CountOf, FinishType
  <2>4. runFile' = [runFile EXCEPT ![i] = end] /\ sent' = sent
        /\ lost'[i] = IF s = "skipped" THEN lost[i] \cup {job[i].occ} ELSE lost[i]
    BY <1>0, <1>7 DEF JobFinish
  <2> HIDE DEF end, fr
  <2>5. load_run_state(i)' = end
    BY <1>0, <2>3, <2>4, JobAssumption DEF load_run_state
  <2>6. job'[i].pc # "prompt"
    BY <1>0, <1>7 DEF JobFinish, JobRec
  <2>7. ~UnderWay(i)' /\ (UnderWay(i) => job[i].occ \in sent[i] \ lost[i])
    BY <2>6 DEF UnderWay
  <2>8. Net(sent'[i], lost'[i]) <= end.count
    <3>1. CASE s = "skipped"
      <4>1. Net(sent'[i], lost'[i]) <= Net(sent[i], lost[i]) - (IF job[i].occ \in sent[i] \ lost[i] THEN 1 ELSE 0)
        BY <1>3, <2>4, <3>1
      <4>2. Net(sent'[i], lost'[i]) \in Nat
        BY <1>3, <2>4, <3>1
      <4> QED
        BY <1>0, <1>3, <2>2, <2>3, <2>7, <3>1, <4>1, <4>2
    <3>2. CASE s # "skipped"
      BY <1>0, <1>3, <2>2, <2>3, <2>4, <3>2
    <3> QED
      BY <3>1, <3>2
  <2>9. end.count \in Nat
    BY <1>0, <2>2, <2>3
  <2> QED
    BY <1>2, <1>3, <2>4, <2>5, <2>7, <2>8, <2>9
<1>8. CASE JobCrash(i)
  <2>1. /\ ~UnderWay(i)' /\ UNCHANGED <<runFile, sent>>
        /\ lost'[i] = IF job[i].pc = "prompt" THEN lost[i] \cup {job[i].occ} ELSE lost[i]
    BY <1>0, <1>8 DEF JobCrash, UnderWay
  <2>2. load_run_state(i)' = load_run_state(i)
    BY <2>1 DEF load_run_state
  <2>3. Net(sent'[i], lost'[i]) <= load_run_state(i).count
    <3>1. CASE job[i].pc = "prompt"
      <4>1. /\ Net(sent'[i], lost'[i]) <= Net(sent[i], lost[i]) - (IF job[i].occ \in sent[i] \ lost[i] THEN 1 ELSE 0)
            /\ Net(sent'[i], lost'[i]) \in Nat
        BY <1>3, <2>1, <3>1
      <4>2. UnderWay(i) <=> job[i].occ \in sent[i] \ lost[i]
        BY <3>1 DEF UnderWay
      <4> QED
        BY <1>0, <1>3, <4>1, <4>2
    <3>2. CASE job[i].pc # "prompt"
      BY <1>0, <1>3, <2>1, <3>2 DEF UnderWay
    <3> QED
      BY <3>1, <3>2
  <2> QED
    BY <1>0, <1>2, <1>3, <2>1, <2>2, <2>3
<1> QED
  BY <1>4, <1>5, <1>6, <1>7, <1>8 DEF JobStep

LEMMA NextCounted == LockedOK /\ Counted /\ [Next]_vars => Counted'
<1> SUFFICES ASSUME LockedOK, TypeOK, Counted, [Next]_vars PROVE Counted'
  BY DEF LockedOK
<1>1. ASSUME UNCHANGED <<runFile, sent, lost, job>> PROVE Counted'
  BY <1>1, SameCount DEF UnderWay
<1>2. CASE Tick \/ FallBack \/ UNCHANGED vars
  BY <1>1, <1>2 DEF Tick, FallBack, vars
<1>3. ASSUME NEW i \in Ids, Wake(i) PROVE Counted'
  <2>1. job \in [Ids -> JobRec] /\ IdleJob.pc = "idle" /\ [IdleJob EXCEPT !.pc = "read", !.now = clock].pc = "read"
    BY DEF TypeOK, IdleJob
  <2>2. \A j \in Ids : UnderWay(j)' <=> UnderWay(j)
    BY <1>3, <2>1 DEF Wake, UnderWay
  <2> QED
    BY <1>3, <2>2, SameCount DEF Wake
<1>4. ASSUME NEW i \in Ids, JobStep(i) \/ JobCrash(i) PROVE Counted'
  BY <1>4, JobCounted
<1>5. ASSUME NEW c \in Cmds, CmdBegin(c) \/ CmdStep(c) \/ CmdCrash(c) PROVE Counted'
  <2>1. CASE Forget(c)
    <3>1. ASSUME NEW i \in Ids, i \in cmd[c].ids
          PROVE  IsFiniteSet(sent'[i]) /\ Net(sent'[i], lost'[i]) = 0 /\ load_run_state(i)'.count = 0 /\ ~UnderWay(i)'
      <4>1. sent'[i] = {} /\ runFile'[i] = None
        BY <2>1, <3>1 DEF Forget
      <4>2. Net(sent'[i], lost'[i]) = 0
        <5>1. {} \ lost'[i] = {}
          OBVIOUS
        <5> QED
          BY <4>1, <5>1, FS_EmptySet DEF Net
      <4>3. load_run_state(i)'.count = 0
        BY <4>1 DEF load_run_state, EmptyState
      <4>4. ~UnderWay(i)'
        BY <4>1 DEF UnderWay
      <4> QED
        BY <4>1, <4>2, <4>3, <4>4, FS_EmptySet
    <3>2. ASSUME NEW i \in Ids, i \notin cmd[c].ids
          PROVE  sent'[i] = sent[i] /\ lost'[i] = lost[i] /\ load_run_state(i)' = load_run_state(i) /\ (UnderWay(i)' <=> UnderWay(i))
      BY <2>1, <3>2 DEF Forget, load_run_state, UnderWay
    <3> QED
      BY <3>1, <3>2 DEF Counted
  <2>2. CASE ~Forget(c)
    BY <1>1, <1>5, <2>2 DEF CmdBegin, BeginSave, BeginDelete, BeginSync, Begin, CmdStep, CmdSave,
       CmdSaveRefused, CmdDelete, CmdSync, Snapshot, Units, Systemctl, CmdCrash
  <2> QED
    BY <2>1, <2>2
<1> QED
  BY <1>2, <1>3, <1>4, <1>5 DEF Next

\* A prompt starts only while fewer runs than the limit are counted.
LEMMA StartIsAllowed ==
    ASSUME TypeOK, Counted, [Next]_vars, NEW i \in Ids, Starts(i), job[i].def.limit > 0
    PROVE  Cardinality(sent[i] \ lost[i]) < job[i].def.limit
<1>1. PICK o \in Instants : JobRun(i, o)
  BY StartRuns
<1>2. ~(load_run_state(i).count >= job[i].def.limit)
  BY <1>1 DEF JobRun, ShouldRun, Pending, LimitReached
<1>3. load_run_state(i).count \in Nat
  BY LoadType DEF RunState
<1>4. job[i].def.limit \in Nat
  <2>1. job[i].def \in Definition
    BY <1>1 DEF JobRun, TypeOK, JobRec
  <2> QED
    BY <2>1 DEF Definition
<1>5. Net(sent[i], lost[i]) <= load_run_state(i).count /\ Net(sent[i], lost[i]) \in Nat
  <2>1. ~UnderWay(i)
    BY <1>1 DEF JobRun, UnderWay
  <2>2. IsFiniteSet(sent[i]) /\ Net(sent[i], lost[i]) <= load_run_state(i).count + 0
    BY <2>1 DEF Counted
  <2> QED
    BY <1>3, <2>2, OneMore
<1> QED
  BY <1>2, <1>3, <1>4, <1>5 DEF Net

\* "Stop after a number of runs" is kept, however often jobs die, are skipped, or have their run state
\* removed while they run (schedule_rules.should_run and schedule_runs.finish_run).
THEOREM SpecRunsWithinLimit == Spec => RunsWithinLimit
<1>1. Init => Counted
  <2>1. ASSUME Init, NEW i \in Ids
        PROVE  IsFiniteSet(sent[i]) /\ Net(sent[i], lost[i]) = 0 /\ load_run_state(i).count = 0 /\ ~UnderWay(i)
    <3>1. sent[i] = {} /\ {} \ lost[i] = {}
      BY <2>1 DEF Init
    <3> QED
      BY <2>1, <3>1, FS_EmptySet DEF Init, Net, load_run_state, EmptyState, UnderWay
  <2> QED
    BY <2>1 DEF Counted
<1>2. LockedOK /\ Counted /\ [Next]_vars
      => [\A i \in Ids : Starts(i) /\ job[i].def.limit > 0
            => Cardinality(sent[i] \ lost[i]) < job[i].def.limit]_vars
  BY StartIsAllowed DEF LockedOK
<1> QED
  BY InitLockedOK, NextLockedOK, <1>1, NextCounted, <1>2, PTL DEF Spec, RunsWithinLimit

-----------------------------------------------------------------------------
(* A schedule that can still fire has its timer file.                      *)

Undisturbed == budget.folds = MaxFolds /\ budget.cmd = CmdCrashes
CanFire(i) == store[i] # None /\ wants_timer(store[i], load_run_state(i), clock)

\* The strengthening: while the helper works, those that can fire are among the ones it found and will write;
\* what it is about to forget is deleted.
FiringInv ==
    /\ \A c \in Cmds :
          /\ cmd[c].now <= clock
          /\ cmd[c].pc = "units" => \A i \in Ids : CanFire(i) => i \in cmd[c].desired
          /\ cmd[c].pc = "systemctl" => \A i \in Ids : CanFire(i) => unitFile[i] # None
          /\ cmd[c].pc = "forget" \/ (cmd[c].pc \in Critical /\ cmd[c].kind = "delete") =>
                \A i \in cmd[c].ids : store[i] = None
    /\ storeLock = None => \A i \in Ids : CanFire(i) => unitFile[i] # None
    /\ \A i \in Ids : store[i] # None => store[i].lines # None

FiringIfUndisturbed ==
    /\ budget.folds <= MaxFolds /\ budget.cmd <= CmdCrashes
    /\ Undisturbed => FiringInv

\* What the run-state operators do to a schedule that has finished.
LEMMA FinishOf ==
    ASSUME NEW rs \in RunState, rs.finished
    PROVE  /\ \A o, s : LET r == apply_decision(rs, o, s) IN r.finished /\ r.finishedAt = rs.finishedAt
           /\ \A o, s : LET r == finish_run(rs, o, s) IN r.finished /\ r.finishedAt = rs.finishedAt
           /\ \A d, t : check_finished(d, rs, t) = rs
BY DEF RunState, apply_decision, finish_run, check_finished, Finishes

\* A job never opens a schedule again.
LEMMA StaysFinished ==
    ASSUME TypeOK, NEW i \in Ids, JobStep(i) \/ JobCrash(i) \/ Wake(i), NEW j \in Ids, load_run_state(j).finished
    PROVE  load_run_state(j)'.finished /\ load_run_state(j)'.finishedAt = load_run_state(j).finishedAt
<1> DEFINE rs == load_run_state(i)
           Stays(r) == r.finished /\ r.finishedAt = rs.finishedAt
<1>1. rs \in RunState /\ runFile \in [Ids -> RunState \cup {None}]
  BY LoadType DEF TypeOK
<1>2. CASE UNCHANGED runFile
  BY <1>2, SameRunFile
<1>3. CASE j # i
  BY <1>1, <1>3 DEF JobStep, JobRead, JobRun, JobSkip, JobFinish, JobDisable, JobCrash, Wake, load_run_state
<1>4. CASE j = i
  <2>1. ASSUME NEW r \in RunState, runFile' = [runFile EXCEPT ![i] = r], Stays(r)
        PROVE  load_run_state(j)'.finished /\ load_run_state(j)'.finishedAt = load_run_state(j).finishedAt
    <3>1. load_run_state(i)' = r
      BY <1>1, <2>1, JobAssumption DEF load_run_state
    <3> QED
      BY <1>4, <2>1, <3>1
  <2>2. ASSUME NEW o \in Instants, JobRun(i, o)
        PROVE  \E r \in RunState : runFile' = [runFile EXCEPT ![i] = r] /\ Stays(r)
    <3> DEFINE r == apply_decision(rs, o, "running")
    <3>1. o \in Nat /\ "running" \in Statuses
      BY JobAssumption DEF Instants, Timing, Statuses
    <3>2. r \in RunState
      BY <3>1, LoadType, ApplyType
    <3>3. Stays(r)
      BY <1>1, <1>4, FinishOf
    <3>4. runFile' = [runFile EXCEPT ![i] = r]
      BY <2>2 DEF JobRun
    <3> HIDE DEF r, rs
    <3> QED
      BY <3>2, <3>3, <3>4
  <2>3. ASSUME JobSkip(i) PROVE \E r \in RunState : runFile' = [runFile EXCEPT ![i] = r] /\ Stays(r)
    <3>1. Skipped(i) \in RunState
      BY <2>3, SkippedType DEF JobSkip
    <3>2. Stays(Skipped(i))
      <4> DEFINE late == {o \in job[i].def.rules : Missed(job[i].def, rs, job[i].now, o)}
                 seen == IF late = {} THEN rs ELSE apply_decision(rs, CHOOSE o \in late : TRUE, "missed")
      <4>1. Stays(seen)
        BY <1>1, <1>4, FinishOf
      <4>2. seen.finished => check_finished(job[i].def, seen, job[i].now) = seen
        BY DEF check_finished, Finishes
      <4>3. Skipped(i) = check_finished(job[i].def, seen, job[i].now)
        BY DEF Skipped
      <4> HIDE DEF seen, rs
      <4> QED
        BY <4>1, <4>2, <4>3
    <3> QED
      BY <2>3, <3>1, <3>2 DEF JobSkip
  <2>4. ASSUME NEW s \in {"ok", "error", "skipped"}, JobFinish(i, s)
        PROVE  \E r \in RunState : runFile' = [runFile EXCEPT ![i] = r] /\ Stays(r)
    <3> DEFINE fr == finish_run(rs, job[i].occ, s)
               r == check_finished(job[i].def, fr, job[i].now)
    <3>1. r \in RunState
      BY <2>4, FinishType DEF JobFinish
    <3>2. Stays(fr)
      BY <1>1, <1>4, FinishOf
    <3>3. fr.finished => r = fr
      BY DEF check_finished, Finishes
    <3>4. runFile' = [runFile EXCEPT ![i] = r]
      BY <2>4 DEF JobFinish
    <3> HIDE DEF r, fr, rs
    <3> QED
      BY <3>1, <3>2, <3>3, <3>4
  <2>5. CASE JobRead(i) \/ JobDisable(i) \/ JobCrash(i) \/ Wake(i)
    BY <1>2, <2>5 DEF JobRead, JobDisable, JobCrash, Wake
  <2> HIDE DEF Stays
  <2> QED
    BY <2>1, <2>2, <2>3, <2>4, <2>5 DEF JobStep
<1> QED
  BY <1>3, <1>4

\* What could not fire, and is not saved or forgotten, cannot fire later.
LEMMA FiresNoMore ==
    ASSUME TypeOK, clock <= clock', clock' \in Nat, NEW i \in Ids, store'[i] = store[i],
           load_run_state(i).finished =>
               load_run_state(i)'.finished /\ load_run_state(i)'.finishedAt = load_run_state(i).finishedAt,
           CanFire(i)'
    PROVE  CanFire(i)
<1>1. store[i] # None /\ wants_timer(store[i], load_run_state(i)', clock')
  BY DEF CanFire
<1>2. store[i] \in Definition /\ clock \in Nat
  BY <1>1 DEF TypeOK
<1>3. ~IsFinished(store[i], load_run_state(i))
  BY <1>1 DEF wants_timer, IsFinished
<1>4. HasFuture(store[i], clock)
  <2>1. PICK o \in Occurrences(store[i]) : o > clock'
    BY <1>1 DEF wants_timer, HasFuture
  <2>2. o \in Nat
    BY <1>2 DEF Occurrences, Definition
  <2> QED
    BY <1>2, <2>1, <2>2 DEF HasFuture
<1> QED
  BY <1>1, <1>3, <1>4 DEF CanFire, wants_timer

\* A step that leaves the helpers, the definitions and the files: nothing can fire that could not.
LEMMA OthersFiring ==
    ASSUME TypeOK, FiringInv, clock <= clock', clock' \in Nat, UNCHANGED <<cmd, storeLock, store, unitFile>>,
           \A i \in Ids : load_run_state(i).finished =>
               load_run_state(i)'.finished /\ load_run_state(i)'.finishedAt = load_run_state(i).finishedAt
    PROVE  FiringInv'
<1>1. \A i \in Ids : CanFire(i)' => CanFire(i)
  BY FiresNoMore
<1>2. \A c \in Cmds : cmd[c].now \in Nat /\ clock \in Nat
  BY DEF TypeOK, CmdRec
<1> QED
  BY <1>1, <1>2 DEF FiringInv

\* The steps of the only helper.
LEMMA CmdFiring ==
    ASSUME LockedOK, FiringInv, NEW c \in Cmds, Cmds = {c}, CmdBegin(c) \/ CmdStep(c)
    PROVE  FiringInv'
<1>0. /\ cmd \in [Cmds -> CmdRec] /\ cmd[c] \in CmdRec /\ IdleCmd.pc = "idle" /\ IdleCmd.now = 0
      /\ clock \in Nat /\ clock' = clock
  <2>1. clock' = clock
    BY DEF CmdBegin, BeginSave, BeginDelete, BeginSync, Begin, CmdStep, CmdSave, CmdSaveRefused,
       CmdDelete, CmdSync, Snapshot, Units, Systemctl, Forget
  <2> QED
    BY <2>1 DEF LockedOK, TypeOK, IdleCmd
<1>1. cmd[c].now \in Nat /\ cmd[c].now <= clock
  BY <1>0 DEF FiringInv, CmdRec
<1>2. ASSUME cmd'[c].now <= clock,
             cmd'[c].pc = "units" => \A i \in Ids : CanFire(i)' => i \in cmd'[c].desired,
             cmd'[c].pc = "systemctl" => \A i \in Ids : CanFire(i)' => unitFile'[i] # None,
             cmd'[c].pc = "forget" \/ (cmd'[c].pc \in Critical /\ cmd'[c].kind = "delete") =>
                \A i \in cmd'[c].ids : store'[i] = None,
             storeLock' = None => \A i \in Ids : CanFire(i)' => unitFile'[i] # None
      PROVE  FiringInv'
  <2>1. ASSUME NEW i \in Ids, store'[i] # None PROVE store'[i].lines # None
    <3>1. CASE store' = store
      BY <2>1, <3>1 DEF FiringInv
    <3>2. CASE CmdSave(c)
      <4>1. cmd[c].draft \in Drafts
        BY <3>2 DEF CmdSave, Locks, LockedOK, LockInv
      <4>2. \A t : DefinitionOf(cmd[c].draft, t).lines # None
        BY <4>1, JobAssumption DEF DefinitionOf
      <4> QED
        BY <2>1, <3>2, <4>2 DEF CmdSave, FiringInv
    <3>3. CASE CmdDelete(c)
      BY <2>1, <3>3 DEF CmdDelete, FiringInv
    <3> QED
      BY <3>1, <3>2, <3>3 DEF CmdBegin, BeginSave, BeginDelete, BeginSync, Begin, CmdStep, CmdSaveRefused,
         CmdSync, Snapshot, Units, Systemctl, Forget
  <2> QED
    BY <1>0, <1>2, <2>1 DEF FiringInv
<1>3. ASSUME UNCHANGED <<store, runFile>> PROVE \A i \in Ids : CanFire(i)' <=> CanFire(i)
  BY <1>0, <1>3 DEF CanFire, load_run_state
<1>4. CASE CmdBegin(c)
  <2>1. ASSUME NEW kind, NEW ids, NEW d, Begin(c, kind, ids, d) PROVE FiringInv'
    <3> DEFINE r == [IdleCmd EXCEPT !.pc = "lock", !.kind = kind, !.now = clock, !.ids = ids, !.draft = d]
    <3>1. cmd' = [cmd EXCEPT ![c] = r] /\ r.pc = "lock" /\ r.now = clock
      BY <2>1 DEF Begin, IdleCmd
    <3> HIDE DEF r
    <3>2. cmd'[c].pc = "lock" /\ cmd'[c].now <= clock
      BY <1>0, <3>1
    <3>3. UNCHANGED <<store, runFile, unitFile, storeLock>>
      BY <2>1 DEF Begin
    <3> QED
      BY <1>2, <1>3, <3>2, <3>3 DEF FiringInv, Critical
  <2> QED
    BY <1>4, <2>1 DEF CmdBegin, BeginSave, BeginDelete, BeginSync
<1>5. CASE CmdSave(c) \/ CmdSync(c)
  <2>1. storeLock' = c /\ cmd'[c].pc = "snapshot" /\ cmd'[c].now = cmd[c].now /\ cmd'[c].kind = cmd[c].kind
    BY <1>0, <1>5 DEF CmdSave, CmdSync, CmdRec
  <2>2. cmd[c].kind # "delete" /\ c # None
    BY <1>5, JobAssumption DEF CmdSave, CmdSync, Locks
  <2> QED
    BY <1>1, <1>2, <2>1, <2>2
<1>6. CASE CmdDelete(c)
  <2>1. storeLock' = c /\ cmd'[c].pc = "snapshot" /\ cmd'[c].now = cmd[c].now /\ cmd'[c].ids \subseteq cmd[c].ids
    BY <1>0, <1>6 DEF CmdDelete, CmdRec
  <2>2. \A i \in cmd'[c].ids : store'[i] = None
    BY <1>0, <1>6, <2>1 DEF CmdDelete, CmdRec
  <2>3. c # None
    BY JobAssumption
  <2> QED
    BY <1>1, <1>2, <2>1, <2>2, <2>3
<1>7. CASE CmdSaveRefused(c)
  <2>1. cmd'[c] = IdleCmd /\ UNCHANGED <<store, runFile, unitFile, storeLock>>
    BY <1>0, <1>7 DEF CmdSaveRefused
  <2> QED
    BY <1>0, <1>2, <1>3, <2>1 DEF FiringInv, Critical
<1>8. CASE Snapshot(c)
  <2>1. /\ cmd'[c].pc = "units" /\ cmd'[c].now = cmd[c].now /\ cmd'[c].kind = cmd[c].kind /\ cmd'[c].ids = cmd[c].ids
        /\ cmd'[c].desired = {i \in Ids : store[i] # None /\ wants_timer(store[i], load_run_state(i), cmd[c].now)}
        /\ cmd[c].pc = "snapshot"
    BY <1>0, <1>8 DEF Snapshot, CmdRec
  <2>2. UNCHANGED <<store, runFile, unitFile, storeLock>>
    BY <1>8 DEF Snapshot
  <2>3. ASSUME NEW i \in Ids, CanFire(i) PROVE wants_timer(store[i], load_run_state(i), cmd[c].now)
    <3>1. PICK o \in Occurrences(store[i]) : o > clock
      BY <2>3 DEF CanFire, wants_timer, HasFuture
    <3>2. store[i] \in Definition
      BY <2>3 DEF CanFire, LockedOK, TypeOK
    <3>3. o \in Nat
      BY <3>2 DEF Occurrences, Definition
    <3>4. o > cmd[c].now
      BY <1>0, <1>1, <3>1, <3>3
    <3> QED
      BY <2>3, <3>4 DEF CanFire, wants_timer, HasFuture
  <2>4. \A i \in Ids : CanFire(i) => i \in cmd'[c].desired
    BY <2>1, <2>3 DEF CanFire
  <2> QED
    BY <1>1, <1>2, <1>3, <2>1, <2>2, <2>4 DEF FiringInv, Critical
<1>9. CASE Units(c)
  <2>1. /\ cmd'[c].pc = "systemctl" /\ cmd'[c].now = cmd[c].now /\ cmd'[c].kind = cmd[c].kind /\ cmd'[c].ids = cmd[c].ids
        /\ cmd[c].pc = "units"
    BY <1>0, <1>9 DEF Units, CmdRec
  <2>2. /\ UNCHANGED <<store, runFile, storeLock>>
        /\ unitFile' = [i \in Ids |-> IF i \in cmd[c].desired THEN store[i].lines ELSE None]
    BY <1>9 DEF Units
  <2>3. ASSUME NEW i \in Ids, CanFire(i) PROVE unitFile'[i] # None
    <3>1. store[i] \in Definition /\ i \in cmd[c].desired
      BY <2>1, <2>3 DEF CanFire, LockedOK, TypeOK, FiringInv
    <3> QED
      BY <2>2, <2>3, <3>1 DEF CanFire, FiringInv
  <2> QED
    BY <1>1, <1>2, <1>3, <2>1, <2>2, <2>3 DEF FiringInv, Critical
<1>10. CASE Systemctl(c)
  <2>1. UNCHANGED <<store, runFile, unitFile>> /\ cmd[c].pc = "systemctl"
    BY <1>10 DEF Systemctl
  <2>2. IF cmd[c].kind = "delete"
        THEN cmd'[c].pc = "forget" /\ cmd'[c].now = cmd[c].now /\ cmd'[c].ids = cmd[c].ids
        ELSE cmd'[c] = IdleCmd
    BY <1>0, <1>10 DEF Systemctl, CmdRec
  <2>3. CASE cmd[c].kind = "delete"
    BY <1>1, <1>2, <1>3, <2>1, <2>2, <2>3 DEF FiringInv, Critical
  <2>4. CASE cmd[c].kind # "delete"
    BY <1>0, <1>2, <1>3, <2>1, <2>2, <2>4 DEF FiringInv, Critical
  <2> QED
    BY <2>3, <2>4
<1>11. CASE Forget(c)
  <2>1. cmd'[c] = IdleCmd /\ UNCHANGED <<store, unitFile, storeLock>> /\ cmd[c].pc = "forget"
    BY <1>0, <1>11 DEF Forget
  <2>2. ASSUME NEW i \in Ids, CanFire(i)' PROVE CanFire(i)
    <3>1. i \notin cmd[c].ids
      BY <2>1, <2>2 DEF CanFire, FiringInv
    <3> QED
      BY <1>0, <1>11, <2>1, <2>2, <3>1 DEF Forget, CanFire, load_run_state
  <2> QED
    BY <1>0, <1>2, <2>1, <2>2 DEF FiringInv, Critical
<1> QED
  BY <1>4, <1>5, <1>6, <1>7, <1>8, <1>9, <1>10, <1>11 DEF CmdStep

LEMMA NextFiring ==
    ASSUME \A c, e \in Cmds : c = e, LockedOK, FiringIfUndisturbed, [Next]_vars
    PROVE  FiringIfUndisturbed'
<1> USE DEF FiringIfUndisturbed
<1>0. /\ budget \in [commands : Nat, job : Nat, cmd : Nat, folds : Nat, disable : Nat] /\ clock \in Nat
      /\ MaxFolds \in Nat /\ CmdCrashes \in Nat
  BY JobAssumption DEF LockedOK, TypeOK
<1>1. ASSUME budget'.folds = budget.folds, budget'.cmd = budget.cmd, FiringInv => FiringInv'
      PROVE  FiringIfUndisturbed'
  BY <1>1 DEF Undisturbed
<1>2. CASE Tick \/ UNCHANGED vars
  <2>1. /\ clock <= clock' /\ clock' \in Nat /\ UNCHANGED <<cmd, storeLock, store, unitFile, runFile, budget>>
    BY <1>0, <1>2 DEF Tick, vars
  <2>2. \A i \in Ids : load_run_state(i)' = load_run_state(i)
    BY <2>1 DEF load_run_state
  <2> QED
    BY <1>1, <2>1, <2>2, OthersFiring DEF LockedOK
<1>3. CASE FallBack
  <2>1. budget'.folds = budget.folds - 1 /\ budget'.cmd = budget.cmd
    BY <1>0, <1>3 DEF FallBack
  <2> QED
    BY <1>0, <2>1 DEF Undisturbed
<1>4. ASSUME NEW i \in Ids, Wake(i) \/ JobStep(i) \/ JobCrash(i) PROVE FiringIfUndisturbed'
  <2>1. clock' = clock /\ budget'.folds = budget.folds /\ budget'.cmd = budget.cmd
    BY <1>0, <1>4 DEF Wake, JobStep, JobRead, JobRun, JobSkip, JobFinish, JobDisable, JobCrash
  <2>2. \A j \in Ids : load_run_state(j).finished =>
            load_run_state(j)'.finished /\ load_run_state(j)'.finishedAt = load_run_state(j).finishedAt
    BY <1>4, StaysFinished DEF LockedOK
  <2> QED
    BY <1>0, <1>1, <1>4, <2>1, <2>2, OthersLeaveCmd, OthersFiring DEF LockedOK
<1>5. ASSUME NEW c \in Cmds, CmdBegin(c) \/ CmdStep(c) PROVE FiringIfUndisturbed'
  <2>1. Cmds = {c}
    OBVIOUS
  <2>2. budget'.folds = budget.folds /\ budget'.cmd = budget.cmd
    <3>1. ASSUME NEW x, budget' = budget \/ budget' = [budget EXCEPT !.commands = x]
          PROVE  budget'.folds = budget.folds /\ budget'.cmd = budget.cmd
      BY <1>0, <3>1
    <3>2. CASE CmdBegin(c)
      BY <3>1, <3>2 DEF CmdBegin, BeginSave, BeginDelete, BeginSync, Begin
    <3>3. CASE CmdStep(c)
      BY <3>1, <3>3 DEF CmdStep, CmdSave, CmdSaveRefused, CmdDelete, CmdSync, Snapshot, Units, Systemctl, Forget
    <3> QED
      BY <1>5, <3>2, <3>3
  <2> QED
    BY <1>1, <1>5, <2>1, <2>2, CmdFiring
<1>6. ASSUME NEW c \in Cmds, CmdCrash(c) PROVE FiringIfUndisturbed'
  <2>1. budget'.folds = budget.folds /\ budget'.cmd = budget.cmd - 1
    BY <1>0, <1>6 DEF CmdCrash
  <2> QED
    BY <1>0, <2>1 DEF Undisturbed
<1> QED
  BY <1>2, <1>3, <1>4, <1>5, <1>6 DEF Next

\* "One timer per schedule that can still fire", for one helper at a time: also for one that had finished and
\* was edited, was closed by a job meanwhile, or was deleted and saved anew (schedule_units.sync_units).
THEOREM SpecFiringHasUnitFile ==
    ASSUME \A c, e \in Cmds : c = e
    PROVE  Spec => []FiringHasUnitFile
<1>1. Init => FiringIfUndisturbed
  <2>1. Init => FiringInv
    BY DEF Init, FiringInv, CanFire, IdleCmd, Critical
  <2>2. Init => budget.folds <= MaxFolds /\ budget.cmd <= CmdCrashes
    BY JobAssumption DEF Init
  <2> QED
    BY <2>1, <2>2 DEF FiringIfUndisturbed
<1>2. LockedOK /\ FiringIfUndisturbed /\ [Next]_vars => FiringIfUndisturbed'
  BY NextFiring
<1>3. FiringIfUndisturbed => FiringHasUnitFile
  BY DEF FiringIfUndisturbed, Undisturbed, FiringInv, CanFire, FiringHasUnitFile
<1> QED
  BY InitLockedOK, NextLockedOK, <1>1, <1>2, <1>3, PTL DEF Spec
=============================================================================
