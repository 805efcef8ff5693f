------------------------------ MODULE SpeechNote ------------------------------
(***************************************************************************)
(* Dictation and reading aloud with Speech Note (kdeaichat/speechnote.py,  *)
(* speechnote_bus.py, voice/SpeechNoteDictation.qml, SpeechNoteSpeech.qml, *)
(* SpeechNoteWarm.qml).  Each command is a helper process that calls the   *)
(* service on the bus; the service has one current task, and other         *)
(* programs use it too.  A task is its number.                             *)
(***************************************************************************)
EXTENDS Integers, Sequences, FiniteSets, SequencesExt

CONSTANTS
    MaxListens, MaxReads,   \* dictations and readings
    Users,                  \* what the user starts, and stops, cancels or pauses: [listens, reads, clicks]
    MaxForeign,             \* tasks of other programs
    MaxFaults               \* failed calls, late monitors, killed helpers, ends of the service, limits of time

ASSUME SpeechNoteAssumption ==
    /\ {MaxListens, MaxReads, MaxForeign, MaxFaults} \subseteq Nat
    /\ Users \subseteq [listens : 0 .. MaxListens, reads : 0 .. MaxReads, clicks : Nat]

Listens == {<<"listen", n>> : n \in 1 .. MaxListens}
Reads == {<<"speak", n>> : n \in 1 .. MaxReads}
Starters == Listens \cup Reads

VARIABLES
    svc,        \* the service: [state, task, does, decoding, last, owner]
    starter,    \* commands that need the service: [pc, first, unset, proc, task, code]
    stopper,    \* speechnote_listen_stop: [pc, task, attached, got, text, code]
    keeper,     \* speechnote_keepalive: [pc, task, alive]
    orders,     \* cancels, stops, pauses and resumes on their way: [method, task]
    waiter,     \* for each reading, speechnote_wait_spoken: [pc, task, watching, heard, fails, reply]
    dictation,  \* SpeechNoteDictation: [phase, task, now, count, pending]
    speech,     \* SpeechNoteSpeech: [task, now, count]
    given,      \* the texts the widget got: [of, text], each with the task it is the text of
    sent,       \* the tasks whose text the service has sent while their stop waited for it
    budget      \* [listens, reads, clicks, foreign, faults]

speechVars == <<svc, starter, stopper, keeper, orders, waiter, dictation, speech, given, sent, budget>>
clientVars == <<keeper, orders, waiter, dictation, speech, given, sent>>

Pay(b) == budget[b] > 0 /\ budget' = [budget EXCEPT ![b] = @ - 1]
Fault == Pay("faults")
NoFaultYet == budget.faults = MaxFaults

-----------------------------------------------------------------------------
(* The service (external).                                                 *)

STATE_NOT_CONFIGURED == 1
STATE_IDLE == 3
Absent == 0                       \* None: the service is not on the bus

NoTask == -1
Doing(task) == svc.task = task /\ svc.does # "nothing"
Rests(s) == [s EXCEPT !.task = NoTask, !.does = "nothing"]

Exits(h) == [starter EXCEPT ![h].proc = IF starter[h].pc = "poll" THEN "gone" ELSE "none"]

\* A launched process takes the name, or finds it taken and exits; it loads its models and is ready.
Comes(h) ==
    /\ starter[h].proc = "up"
    /\ \/ /\ svc.state = Absent
          /\ \E s \in {STATE_NOT_CONFIGURED, 2} : svc' = [svc EXCEPT !.state = s]
          /\ starter' = [starter EXCEPT ![h].proc = "none"]
          /\ UNCHANGED budget
       \/ /\ svc.state # Absent /\ UNCHANGED <<svc, budget>>
          /\ starter' = Exits(h)
       \/ Fault /\ UNCHANGED svc /\ starter' = Exits(h)
    /\ UNCHANGED <<clientVars, stopper>>

Loads ==
    /\ svc.state \in {STATE_NOT_CONFIGURED, 2}
    /\ svc' = [svc EXCEPT !.state = STATE_IDLE]
    /\ UNCHANGED <<clientVars, starter, stopper, budget>>

Leaves ==
    /\ svc.state # Absent /\ Fault
    /\ svc' = [Rests(svc) EXCEPT !.state = Absent, !.decoding = {}]
    /\ UNCHANGED <<clientVars, starter, stopper>>

\* A new task, from anyone: refused while another is at work, or in its place.
NewTask(does, new) == [svc EXCEPT !.task = new, !.does = does, !.last = new]
Accepts == svc.state = STATE_IDLE

Foreign ==
    /\ Accepts /\ Pay("foreign")
    /\ \E does \in {"listening", "speaking"} : svc' = NewTask(does, svc.last + 1)
    /\ UNCHANGED <<clientVars, starter, stopper>>

\* Signals go to the monitors that are attached.
Told(signal) == IF stopper.attached THEN [stopper EXCEPT !.got = Append(@, signal)] ELSE stopper

\* The text of a task, some time after its listening has ended.
TextDecoded ==
    \E t \in svc.decoding :
        /\ svc' = [svc EXCEPT !.decoding = @ \ {t}]
        /\ stopper' = Told([member |-> "SttTextDecoded", task |-> t])
        /\ sent' = IF stopper.pc = "text" /\ stopper.task = t THEN sent \cup {t} ELSE sent
        /\ UNCHANGED <<starter, keeper, orders, waiter, dictation, speech, given, budget>>

ErrorOccured ==
    /\ svc.state # Absent /\ Fault
    /\ svc' = Rests(svc)
    /\ stopper' = Told([member |-> "ErrorOccured", task |-> NoTask])
    /\ UNCHANGED <<starter, clientVars>>

\* Somebody keeps the task alive, or is about to: ten seconds are not over.
Kept(t) ==
    \/ dictation.task = t
    \/ stopper.pc # "off" /\ stopper.task = t
    \/ \E h \in Starters : starter[h].pc = "reply" /\ starter[h].task = t
    \/ \E h \in Reads : waiter[h].pc # "off" /\ waiter[h].task = t

\* A task is over by itself: read to the end, or not kept alive; another program stops its own.
Over ==
    /\ svc.does # "nothing"
    /\ svc.does = "speaking" \/ ~Kept(svc.task)
    /\ \/ svc' = Rests(svc)
       \/ svc.does = "listening" /\ ~Kept(svc.task) /\ svc' = [Rests(svc) EXCEPT !.decoding = @ \cup {svc.task}]
    /\ UNCHANGED <<clientVars, starter, stopper, budget>>

\* A sentence is read: TtsPartialSpeechPlaying.
Sentence ==
    /\ svc.does = "speaking"
    /\ \E h \in Reads : waiter[h].watching /\ ~waiter[h].heard /\ waiter[h].task = svc.task
    /\ waiter' = [h \in Reads |-> IF waiter[h].watching /\ waiter[h].task = svc.task THEN [waiter[h] EXCEPT !.heard = TRUE] ELSE waiter[h]]
    /\ UNCHANGED <<svc, starter, stopper, keeper, orders, dictation, speech, given, sent, budget>>

-----------------------------------------------------------------------------
(* ensure_ready, and the call that needs the service.                      *)

Off == [pc |-> "off", first |-> TRUE, unset |-> FALSE, proc |-> "none", task |-> NoTask, code |-> ""]
Polls(h) == [Off EXCEPT !.pc = "poll"]

Answers(h, task, code) ==
    starter' = [starter EXCEPT ![h] = [Off EXCEPT !.pc = "reply", !.task = task, !.code = code,
                                                  !.proc = IF starter[h].proc = "up" THEN "up" ELSE "none"]]
Fails(h, code) == Answers(h, NoTask, code)

IsReady(state) == state >= STATE_IDLE

ensure_ready(h) ==
    LET S == starter[h] IN
    /\ S.pc = "poll"
    /\ \/ /\ IsReady(svc.state)
          /\ starter' = [starter EXCEPT ![h].pc = "call", ![h].first = TRUE, ![h].unset = FALSE]
          /\ UNCHANGED budget
       \/ /\ svc.state = Absent /\ S.first            \* install_kind and _launch
          /\ starter' = [starter EXCEPT ![h].first = FALSE, ![h].proc = "up"]
          /\ UNCHANGED budget
       \/ /\ svc.state = Absent /\ S.first            \* no such program, or it cannot be started
          /\ Fault /\ \E code \in {"not_installed", "service_failed_to_start"} : Fails(h, code)
       \/ /\ svc.state = Absent /\ S.proc = "gone" /\ Fails(h, "service_failed_to_start")
          /\ UNCHANGED budget
       \/ /\ ~IsReady(svc.state) /\ svc.state # Absent
          /\ S.first \/ S.unset # (svc.state = STATE_NOT_CONFIGURED)
          /\ starter' = [starter EXCEPT ![h].first = FALSE, ![h].unset = svc.state = STATE_NOT_CONFIGURED]
          /\ UNCHANGED budget
       \/ svc.state = STATE_NOT_CONFIGURED /\ S.unset /\ Fails(h, "not_configured") /\ UNCHANGED budget
       \/ /\ ~IsReady(svc.state) /\ ~S.first /\ Fault
          /\ Fails(h, IF svc.state = Absent THEN "service_failed_to_start" ELSE "timeout")
    /\ UNCHANGED <<svc, clientVars, stopper>>

refused(state) == CASE state = STATE_NOT_CONFIGURED -> "not_configured" [] state = 2 -> "busy" [] OTHER -> "bus_error"

\* SttStartListen and TtsPlaySpeech: a new task, a refusal, or an answer that does not come in time.
CallsService(h) ==
    LET new == svc.last + 1
        does == IF h \in Listens THEN "listening" ELSE "speaking"
    IN /\ starter[h].pc = "call"
       /\ \/ /\ Accepts /\ svc' = NewTask(does, new)
             /\ Answers(h, new, "")
             /\ UNCHANGED budget
          \/ /\ ~Accepts \/ svc.does # "nothing"
             /\ Fails(h, refused(svc.state)) /\ UNCHANGED <<svc, budget>>
          \/ /\ Fault /\ Fails(h, "bus_error")
             /\ svc' \in {svc} \cup (IF Accepts THEN {NewTask(does, new)} ELSE {})
       /\ UNCHANGED <<clientVars, stopper>>

StarterKilled(h) ==
    /\ starter[h].pc \in {"poll", "call"} /\ Fault
    /\ Fails(h, "bus_error")
    /\ UNCHANGED <<svc, clientVars, stopper>>

-----------------------------------------------------------------------------
(* The other commands.                                                     *)

NoStopper == [pc |-> "off", task |-> NoTask, attached |-> FALSE, got |-> <<>>, text |-> NoTask, code |-> ""]
StopEnds(code) == stopper' = [stopper EXCEPT !.pc = "reply", !.code = code, !.attached = FALSE, !.got = <<>>]

\* Mutant: the text is asked for as soon as the monitor's process runs.
Watches_AtOnce == TRUE

\* Monitor.ready: the monitor has seen the call of KeepAliveService go by.
Watches == stopper.attached

listen_stop ==
    /\ \/ /\ stopper.pc = "monitor" /\ ~stopper.attached       \* busctl monitor is attached
          /\ stopper' = [stopper EXCEPT !.attached = TRUE] /\ UNCHANGED budget
       \/ /\ stopper.pc = "monitor" /\ Watches                 \* and has seen KeepAliveService
          /\ IF svc.state = Absent THEN StopEnds("bus_error") ELSE stopper' = [stopper EXCEPT !.pc = "call", !.got = <<>>]
          /\ UNCHANGED budget
       \/ stopper.pc = "monitor" /\ Fault /\ StopEnds("bus_error")
    /\ UNCHANGED <<svc, starter, clientVars>>

SttStopListen ==
    /\ stopper.pc = "call"
    /\ IF Doing(stopper.task)
       THEN /\ svc' = [Rests(svc) EXCEPT !.decoding = @ \cup {stopper.task}]
            /\ stopper' = [stopper EXCEPT !.pc = "text"]
       ELSE UNCHANGED svc /\ StopEnds("bus_error")
    /\ UNCHANGED <<starter, clientVars, budget>>

IsText(signal) == signal.member = "SttTextDecoded" /\ signal.task = stopper.task

Reads_signal ==
    /\ stopper.pc = "text" /\ stopper.got # <<>>
    /\ LET signal == Head(stopper.got) IN
       IF IsText(signal) THEN stopper' = [stopper EXCEPT !.pc = "reply", !.text = signal.task, !.attached = FALSE, !.got = <<>>]
       ELSE IF signal.member = "ErrorOccured" THEN StopEnds("engine_error")
       ELSE stopper' = [stopper EXCEPT !.got = Tail(@)]
    /\ UNCHANGED <<svc, starter, clientVars, budget>>

\* Twenty seconds without the text: the engine takes that long, has died, or never gave it.
StopTimesOut ==
    /\ stopper.pc = "text" /\ stopper.got = <<>>
    /\ IF stopper.task \in svc.decoding THEN Fault ELSE UNCHANGED budget
    /\ StopEnds("timeout")
    /\ UNCHANGED <<svc, starter, clientVars>>

\* Cancel, TtsStopSpeech, TtsPauseSpeech and TtsResumeSpeech, in whatever order their helpers run.
OrderRuns ==
    \E o \in orders :
        /\ orders' = orders \ {o}
        /\ svc' = IF ~Doing(o.task) THEN svc
                  ELSE CASE o.method \in {"Cancel", "TtsStopSpeech"} -> Rests(svc)
                         [] o.method = "TtsPauseSpeech" -> [svc EXCEPT !.does = "paused"]
                         [] OTHER -> [svc EXCEPT !.does = "speaking"]
        /\ UNCHANGED <<starter, stopper, keeper, waiter, dictation, speech, given, sent, budget>>

\* KeepAliveTask, for the dictation: 0 when that task is not the current one; no answer without the service.
KeepAlive ==
    \/ /\ dictation.phase = "listening" /\ keeper.pc = "off"
       /\ keeper' = [pc |-> "reply", task |-> dictation.task,
                     alive |-> IF svc.state = Absent THEN "unknown" ELSE IF Doing(dictation.task) THEN "yes" ELSE "no"]
       /\ UNCHANGED <<svc, starter, stopper, orders, waiter, dictation, speech, given, sent, budget>>

-----------------------------------------------------------------------------
(* wait_spoken                                                             *)

NoWaiter == [pc |-> "off", task |-> NoTask, watching |-> FALSE, heard |-> FALSE, fails |-> 0, reply |-> ""]
Waits(task) == [NoWaiter EXCEPT !.pc = "open", !.task = task]
WaitEnds(h, reply) == waiter' = [waiter EXCEPT ![h] = [NoWaiter EXCEPT !.pc = "reply", !.task = waiter[h].task, !.reply = reply]]

GivesUpAfter == 3

_wait_spoken(h) ==
    LET w == waiter[h] IN
    /\ \/ /\ w.pc = "open" /\ \E watching \in {TRUE} \cup (IF svc.state = Absent THEN {FALSE} ELSE {}) :
                                  waiter' = [waiter EXCEPT ![h].pc = "look", ![h].watching = watching]
          /\ UNCHANGED budget
       \/ w.pc = "open" /\ Fault /\ waiter' = [waiter EXCEPT ![h].pc = "look"]
       \/ /\ w.pc = "look"
          /\ \/ svc.state = Absent /\ UNCHANGED budget
             \/ svc.state # Absent /\ Fault
          /\ IF w.fails + 1 >= GivesUpAfter THEN WaitEnds(h, "spoken") ELSE waiter' = [waiter EXCEPT ![h].fails = @ + 1]
       \/ /\ w.pc = "look" /\ svc.state # Absent /\ svc.task # w.task
          /\ WaitEnds(h, "spoken") /\ UNCHANGED budget
       \/ /\ w.pc = "look" /\ svc.task = w.task /\ w.fails # 0
          /\ waiter' = [waiter EXCEPT ![h].fails = 0] /\ UNCHANGED budget
       \/ w.pc = "look" /\ w.heard /\ WaitEnds(h, "sentence") /\ UNCHANGED budget
       \/ w.pc \in {"open", "look"} /\ Fault /\ \E reply \in {"timeout", "bus_error"} : WaitEnds(h, reply)
    /\ UNCHANGED <<svc, starter, stopper, keeper, orders, dictation, speech, given, sent>>

-----------------------------------------------------------------------------
(* SpeechNoteDictation                                                     *)

Order(method, task) == [method |-> method, task |-> task]

dictation_start ==
    /\ dictation.phase = "" /\ dictation.count < budget.listens
    /\ LET n == dictation.count + 1 IN
       /\ dictation' = [phase |-> "starting", task |-> NoTask, now |-> n, count |-> n, pending |-> FALSE]
       /\ starter' = [starter EXCEPT ![<<"listen", n>>] = Polls(<<"listen", n>>)]
    /\ UNCHANGED <<svc, stopper, keeper, orders, waiter, speech, given, sent, budget>>

dictation_fail == [dictation EXCEPT !.phase = "", !.task = NoTask, !.pending = FALSE]

StopListening(task) ==
    /\ stopper' = [NoStopper EXCEPT !.pc = "monitor", !.task = task]
    /\ dictation' = [dictation EXCEPT !.phase = "stopping", !.task = NoTask]

dictation_stop(cancel) ==
    /\ dictation.phase \in {"starting", "listening"} /\ Pay("clicks")
    /\ \/ /\ dictation.phase = "starting"
          /\ dictation' = IF cancel THEN [dictation EXCEPT !.phase = "", !.now = 0] ELSE [dictation EXCEPT !.pending = TRUE]
          /\ UNCHANGED <<stopper, orders>>
       \/ /\ dictation.phase = "listening" /\ cancel
          /\ orders' = orders \cup {Order("Cancel", dictation.task)}
          /\ dictation' = [dictation EXCEPT !.phase = "", !.task = NoTask]
          /\ UNCHANGED stopper
       \/ /\ dictation.phase = "listening" /\ ~cancel
          /\ StopListening(dictation.task) /\ UNCHANGED orders
    /\ UNCHANGED <<svc, starter, keeper, waiter, speech, given, sent>>

\* Mutant: the answer to a start that was cancelled is not looked at.
GivesBack_Nothing(task) == {}

\* Cancelled meanwhile: give the microphone back.
GivesBack(task) == {Order("Cancel", task)}

ListenStarted(h) ==
    LET S == starter[h]
        listening == [dictation EXCEPT !.phase = "listening", !.task = S.task]
    IN /\ h \in Listens /\ S.pc = "reply"
       /\ starter' = [starter EXCEPT ![h].pc = "done", ![h].code = ""]
       /\ \/ /\ h[2] # dictation.now
             /\ orders' = IF S.task # NoTask THEN orders \cup GivesBack(S.task) ELSE orders
             /\ UNCHANGED <<dictation, stopper>>
          \/ /\ h[2] = dictation.now /\ S.task = NoTask
             /\ dictation' = dictation_fail /\ UNCHANGED <<orders, stopper>>
          \/ /\ h[2] = dictation.now /\ S.task # NoTask /\ ~dictation.pending
             /\ dictation' = listening /\ UNCHANGED <<orders, stopper>>
          \/ /\ h[2] = dictation.now /\ S.task # NoTask /\ dictation.pending
             /\ dictation' = [listening EXCEPT !.phase = "stopping", !.task = NoTask]
             /\ stopper' = [NoStopper EXCEPT !.pc = "monitor", !.task = S.task]
             /\ UNCHANGED orders
       /\ UNCHANGED <<svc, keeper, waiter, speech, given, sent, budget>>

ListenStopped ==
    /\ stopper.pc = "reply" /\ stopper' = NoStopper
    /\ dictation' = IF stopper.code = "" THEN [dictation EXCEPT !.phase = ""] ELSE dictation_fail
    /\ given' = IF stopper.code = "" THEN given \cup {[of |-> stopper.task, text |-> stopper.text]} ELSE given
    /\ sent' = IF stopper.code = "" THEN sent \ {stopper.task} ELSE sent
    /\ UNCHANGED <<svc, starter, keeper, orders, waiter, speech, budget>>

\* The answer of a keepalive: only a task that is over ends the dictation.
KeptAlive ==
    /\ keeper.pc = "reply" /\ keeper' = [keeper EXCEPT !.pc = "off", !.task = NoTask, !.alive = "yes"]
    /\ dictation' = IF keeper.alive = "no" /\ dictation.phase = "listening" /\ dictation.task = keeper.task
                    THEN dictation_fail ELSE dictation
    /\ UNCHANGED <<svc, starter, stopper, orders, waiter, speech, given, sent, budget>>

-----------------------------------------------------------------------------
(* SpeechNoteSpeech                                                        *)

Hushed == IF speech.task # NoTask THEN orders \cup {Order("TtsStopSpeech", speech.task)} ELSE orders

speech_start ==
    /\ speech.count < budget.reads
    /\ LET n == speech.count + 1 IN
       /\ speech' = [task |-> NoTask, now |-> n, count |-> n]
       /\ starter' = [starter EXCEPT ![<<"speak", n>>] = Polls(<<"speak", n>>)]
    /\ orders' = Hushed
    /\ UNCHANGED <<svc, stopper, keeper, waiter, dictation, given, sent, budget>>

speech_stop ==
    /\ speech.now # 0 /\ Pay("clicks")
    /\ speech' = [speech EXCEPT !.task = NoTask, !.now = 0] /\ orders' = Hushed
    /\ UNCHANGED <<svc, starter, stopper, keeper, waiter, dictation, given, sent>>

speech_pause ==
    /\ speech.task # NoTask /\ Pay("clicks")
    /\ \E method \in {"TtsPauseSpeech", "TtsResumeSpeech"} : orders' = orders \cup {Order(method, speech.task)}
    /\ UNCHANGED <<svc, starter, stopper, keeper, waiter, dictation, speech, given, sent>>

SpeakStarted(h) ==
    LET S == starter[h] IN
    /\ h \in Reads /\ S.pc = "reply"
    /\ starter' = [starter EXCEPT ![h].pc = "done", ![h].code = ""]
    /\ \/ /\ h[2] # speech.now
          /\ orders' = IF S.task # NoTask THEN orders \cup {Order("TtsStopSpeech", S.task)} ELSE orders
          /\ UNCHANGED <<speech, waiter>>
       \/ /\ h[2] = speech.now /\ S.task = NoTask
          /\ speech' = [speech EXCEPT !.now = 0] /\ UNCHANGED <<orders, waiter>>
       \/ /\ h[2] = speech.now /\ S.task # NoTask
          /\ speech' = [speech EXCEPT !.task = S.task]
          /\ waiter' = [waiter EXCEPT ![h] = Waits(S.task)] /\ UNCHANGED orders
    /\ UNCHANGED <<svc, stopper, keeper, dictation, given, sent, budget>>

_waitSpoken(h) ==
    LET w == waiter[h] IN
    /\ w.pc = "reply"
    /\ waiter' = [waiter EXCEPT ![h] = IF h[2] = speech.now /\ w.reply = "sentence" THEN Waits(w.task) ELSE NoWaiter]
    /\ speech' = IF h[2] # speech.now \/ w.reply = "sentence" THEN speech ELSE [speech EXCEPT !.task = NoTask, !.now = 0]
    /\ UNCHANGED <<svc, starter, stopper, keeper, orders, dictation, given, sent, budget>>

-----------------------------------------------------------------------------
SpeechInit ==
    /\ \E state \in {Absent, STATE_IDLE} :
          svc = [state |-> state, task |-> NoTask, does |-> "nothing", decoding |-> {}, last |-> 0]
    /\ starter = [h \in Starters |-> Off]
    /\ stopper = NoStopper
    /\ keeper = [pc |-> "off", task |-> NoTask, alive |-> "yes"]
    /\ orders = {} /\ given = {} /\ sent = {}
    /\ waiter = [h \in Reads |-> NoWaiter]
    /\ dictation = [phase |-> "", task |-> NoTask, now |-> 0, count |-> 0, pending |-> FALSE]
    /\ speech = [task |-> NoTask, now |-> 0, count |-> 0]
    /\ \E user \in Users :
          budget = [listens |-> user.listens, reads |-> user.reads, clicks |-> user.clicks, foreign |-> MaxForeign, faults |-> MaxFaults]

Service == (\E h \in Starters : Comes(h)) \/ Loads \/ Leaves \/ Foreign \/ TextDecoded \/ ErrorOccured \/ Over \/ Sentence
Commands ==
    \/ \E h \in Starters : ensure_ready(h) \/ CallsService(h) \/ StarterKilled(h)
    \/ listen_stop \/ SttStopListen \/ Reads_signal \/ StopTimesOut \/ OrderRuns \/ KeepAlive
    \/ \E h \in Reads : _wait_spoken(h)
Widget ==
    \/ dictation_start \/ (\E cancel \in BOOLEAN : dictation_stop(cancel)) \/ ListenStopped \/ KeptAlive
    \/ speech_start \/ speech_stop \/ speech_pause
    \/ \E h \in Starters : ListenStarted(h) \/ SpeakStarted(h)
    \/ \E h \in Reads : _waitSpoken(h)

SpeechNext == Service \/ Commands \/ Widget

-----------------------------------------------------------------------------
Starting(kind) == \E h \in Starters : h[1] = kind /\ starter[h].pc \in {"poll", "call", "reply"}
OursTasks(kind) == {starter[h].task : h \in {g \in Starters : g[1] = kind}} \ {NoTask}

\* SpeechNoteDictation.start and stop, listen_stop, SpeechNoteSpeech.stop, _wait_spoken: while nothing fails,
\* the service neither listens nor reads for a widget that is done with it and has no command on its way,
\* whatever was cancelled, replaced or answered late.
GivenBack ==
    NoFaultYet =>
        /\ svc.does = "listening" /\ svc.task \in OursTasks("listen") =>
              dictation.phase # "" \/ orders # {} \/ stopper.pc # "off" \/ Starting("listen")
        /\ svc.does \in {"speaking", "paused"} /\ svc.task \in OursTasks("speak") =>
              speech.now # 0 \/ orders # {} \/ Starting("speak")

\* listen_stop and Monitor.ready (speechnote_bus.py:227-232): a text that the service sends for the task after
\* the stop reaches the widget; no stop ends without it.
TextIsHeard == NoFaultYet /\ stopper.pc = "reply" /\ stopper.task \in sent => stopper.code = ""

\* listen_stop (speechnote.py:172-173): the widget never takes the text of another dictation for its own, its
\* own of before or that of another program, even when one comes late.
OwnText == \A g \in given : g.text = g.of

\* The widget gets the text of its dictation, and that only.
TextTrue == TextIsHeard /\ OwnText
=============================================================================
