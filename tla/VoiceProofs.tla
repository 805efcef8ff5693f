----------------------------- MODULE VoiceProofs -----------------------------
(***************************************************************************)
(* Voice: a text reaches the dictation it is the text of, the microphone   *)
(* and the reader are given back, stt_stop strikes its recorder and no     *)
(* other process, and a text is read part by part, for any dictations,     *)
(* readings, process numbers, clicks, faults and tasks of other programs.  *)
(* The inductive invariant has a part for each engine; a step of one       *)
(* leaves the others alone.                                                *)
(***************************************************************************)
EXTENDS Voice, SequenceTheorems, FunctionTheorems, TLAPS

-----------------------------------------------------------------------------
(* The recorder.                                                           *)

DictatePc == {"off", "folder", "spawned", "waiting", "clear", "unlink", "ended", "transcribe", "done", "killed"}
Recordings == {"none", "short", "speech", "failed"}
Outcomes == {"none", "busy", "no_recorder", "cancelled", "record_failed", "nothing", "text", "engine_error"}
DictationRec == [pc : DictatePc, pid : Nat, folder : BOOLEAN, mark : BOOLEAN, wav : Recordings, out : Outcomes, alone : BOOLEAN]
StopRec == [pc : {"off", "look", "mark", "kill", "done"}, cancel : BOOLEAN, pid : Nat, of : Dictations \cup {None},
            out : {"none", "not recording", "error", "stopping"}]
StateRec == [pid : Nat, of : Dictations]

RecorderTyped ==
    /\ rec \in [Dictations -> DictationRec]
    /\ stop \in [Stops -> StopRec]
    /\ stateFile \in StateRec \cup {None}
    /\ proc \in [Pids -> {"free", "recording", "asked", "zombie", "other"}]
    /\ marked \subseteq Dictations /\ troubles \in Nat

\* Whose number is whose: each recorder has one of its own, and the state file and stt_stop the one of the dictation they name.
Numbers ==
    /\ \A r \in Dictations :
          /\ rec[r].pid # 0 => rec[r].pid \in Pids
          /\ rec[r].pc \in {"off", "folder"} => rec[r].pid = 0
          /\ rec[r].pc \in {"spawned", "waiting"} => rec[r].pid # 0 /\ proc[rec[r].pid] \in {"recording", "asked", "zombie"}
          /\ rec[r].pc \in {"clear", "unlink", "ended", "transcribe", "done"} /\ rec[r].pid # 0 => proc[rec[r].pid] \in {"free", "other"}
    /\ \A r, o \in Dictations : rec[r].pid # 0 /\ rec[r].pid = rec[o].pid => r = o
    /\ stateFile # None => /\ stateFile.pid = rec[stateFile.of].pid /\ stateFile.pid # 0
    /\ \A s \in Stops : stop[s].pc \in {"look", "mark", "kill"} =>
          /\ stop[s].of \in Dictations /\ stop[s].pid = rec[stop[s].of].pid /\ stop[s].pid # 0
          /\ stop[s].pc # "look" => proc[stop[s].pid] # "other"

\* A dictation that was cancelled while it was recorded has its mark, or is over without a text.
MarkedIsDropped ==
    /\ \A r \in Dictations : rec[r].pc # "done" => rec[r].out = "none"
    /\ \A r \in marked : \/ rec[r].mark /\ rec[r].pc \in {"spawned", "waiting", "clear", "unlink", "ended", "killed"}
                         \/ rec[r].pc = "done" /\ rec[r].out # "text"

\* While one that began alone is being recorded, none begins, and the state file is its own.
AloneRules ==
    \A r \in Dictations : rec[r].alone = TRUE =>
        /\ Beginning(r) \/ (rec[r].pc = "waiting" /\ proc[rec[r].pid] = "recording") =>
              \A o \in Dictations \ {r} : ~Beginning(o)
        /\ rec[r].pc = "waiting" /\ proc[rec[r].pid] = "recording" => stateFile # None /\ stateFile.of = r

\* Nor is any about to remove it.
NoneRemoves ==
    \A r, o \in Dictations :
        rec[r].alone = TRUE /\ rec[r].pc = "waiting" /\ proc[rec[r].pid] = "recording" => rec[o].pc # "unlink"

RecorderInv == RecorderTyped /\ Numbers /\ MarkedIsDropped /\ struck = {} /\ AloneRules /\ NoneRemoves

-----------------------------------------------------------------------------
(* Reading by a server.                                                    *)

Queues == Seq(Wavs)
OneOrNone == Wavs \cup {NoWav}
Talks == [reading : Nat, chunks : Nat, next : Nat, synthesizing : BOOLEAN, ready : Queues, playing : OneOrNone]

MakerPc == {"off", "asked", "made", "good", "bad", "done"}

Parts == Nat \X Nat

ReaderTyped ==
    /\ phase \in {"", "synthesizing", "playing", "paused"}
    /\ talk \in Talks
    /\ sound \in {"silent", "playing", "paused"}
    /\ maker \in [Wavs -> MakerPc]
    /\ told \in Seq(Parts)
    /\ readings \in [count : 0 .. MaxReadings, parts : Nat]
    /\ mishaps \in Nat

\* A reader t of the last text, of which k parts have been played or play: the parts follow each other,
\* the next one is ready or being made.
InOrder(t, k) ==
    /\ t.reading = readings.count /\ t.chunks = readings.parts /\ t.next <= t.chunks
    /\ t.playing \in {NoWav, <<t.reading, k>>}
    /\ t.ready \in {<<>>, << <<t.reading, k + 1>> >>}
    /\ t.next = k + Len(t.ready) + (IF t.synthesizing THEN 1 ELSE 0)

OneAhead(t) ==
    /\ t.playing = NoWav \/ t.synthesizing => t.ready = <<>>
    /\ t.synthesizing \/ t.ready # <<>> \/ t.next >= t.chunks

\* The parts of the reading c, in their order.
InTurn(s, c) == s = [i \in 1 .. Len(s) |-> <<c, i>>]

Resting(t) == t.playing = NoWav /\ t.ready = <<>> /\ ~t.synthesizing /\ t.reading \in {0, readings.count}

Course ==
    /\ IF talk.chunks = 0 THEN Resting(talk)
       ELSE readings.parts \in Lengths /\ readings.count # 0 /\ InOrder(talk, Len(told)) /\ OneAhead(talk) /\ ~AtTheEnd(talk)
    /\ phase = "" <=> talk.chunks = 0
    /\ sound # "silent" => talk.playing # NoWav
    /\ InTurn(told, readings.count)
    /\ finished => Len(told) = readings.parts

\* A helper makes the part the reader waits for and no other of the text; those that come later were never asked for.
Makers ==
    /\ \A v \in Wavs : v[1] > readings.count \/ (talk.chunks # 0 /\ v[1] = readings.count /\ v[2] > talk.next) => maker[v] = "off"
    /\ \A v \in Working : v[1] = talk.reading => talk.synthesizing /\ v[2] = talk.next
    /\ talk.synthesizing => <<talk.reading, talk.next>> \in Working
    /\ \A v \in Wavs : maker[v] = "bad" => v \notin files \/ v \in left

ReaderInv == ReaderTyped /\ Course /\ Makers /\ NothingLeft

-----------------------------------------------------------------------------
(* Speech Note.                                                            *)

Does == {"nothing", "listening", "speaking", "paused"}
Decodings == SUBSET Int
ServiceRec == [state : Int, task : Int, does : Does, decoding : Decodings, last : Nat]
Signal == [member : {"SttTextDecoded", "ErrorOccured"}, task : Int]
Signals == Seq(Signal)
StarterPc == {"off", "poll", "call", "reply", "done"}
Procs == {"none", "up", "gone"}
StartCodes == {"", "bus_error", "not_installed", "service_failed_to_start", "not_configured", "timeout", "busy"}
StarterRec == [pc : StarterPc, first : BOOLEAN, unset : BOOLEAN, proc : Procs, task : Int, code : StartCodes]
StopperPc == {"off", "monitor", "call", "text", "reply"}
StopCodes == {"", "bus_error", "engine_error", "timeout"}
StopperRec == [pc : StopperPc, task : Int, attached : BOOLEAN, got : Signals, text : Int, code : StopCodes]
KeeperRec == [pc : {"off", "reply"}, task : Int, alive : {"yes", "no", "unknown"}]
OrderRec == [method : {"Cancel", "TtsStopSpeech", "TtsPauseSpeech", "TtsResumeSpeech"}, task : Int]
WaiterPc == {"off", "open", "look", "reply"}
Replies == {"", "spoken", "sentence", "timeout", "bus_error"}
WaiterRec == [pc : WaiterPc, task : Int, watching : BOOLEAN, heard : BOOLEAN, fails : Nat, reply : Replies]
Phases == {"", "starting", "listening", "stopping"}
DictationState == [phase : Phases, task : Int, now : Nat, count : Nat, pending : BOOLEAN]
SpeechState == [task : Int, now : Nat, count : Nat]
Budgets == [listens : Nat, reads : Nat, clicks : Nat, foreign : Nat, faults : Nat]

Purse == budget \in Budgets /\ budget.listens <= MaxListens /\ budget.reads <= MaxReads /\ budget.faults <= MaxFaults

NoteTyped ==
    /\ svc \in ServiceRec /\ starter \in [Starters -> StarterRec] /\ stopper \in StopperRec /\ keeper \in KeeperRec
    /\ orders \in SUBSET OrderRec /\ waiter \in [Reads -> WaiterRec]
    /\ dictation \in DictationState /\ speech \in SpeechState
    /\ given \in SUBSET [of : Int, text : Int] /\ sent \in SUBSET Int
    /\ Purse

\* A stop that ends well has the text of its task.
StopTrue == (stopper.pc = "reply" /\ stopper.code = "" => stopper.text = stopper.task) /\ (stopper.pc # "reply" => stopper.code = "")

\* Tasks are numbered as they come, each for one command.
Tasks ==
    /\ svc.state = Absent => svc.does = "nothing"
    /\ svc.task <= svc.last
    /\ \A h \in Starters :
          /\ starter[h].task <= svc.last
          /\ starter[h].pc \in {"off", "poll", "call"} => starter[h].task = NoTask
          /\ \A g \in Starters : starter[h].task # NoTask /\ starter[g].task = starter[h].task => g = h
    /\ dictation.task <= svc.last
    /\ \A h \in Reads : waiter[h].task <= svc.last

\* Each widget's command goes with its phase.
Turns ==
    /\ \A h \in Listens :
          /\ h[2] > dictation.count => starter[h].pc = "off"
          /\ starter[h].pc \in {"poll", "call", "reply"} /\ h[2] = dictation.now => dictation.phase = "starting"
    /\ dictation.now <= dictation.count
    /\ dictation.phase # "listening" => dictation.task = NoTask
    /\ stopper.pc # "off" <=> dictation.phase = "stopping"
    /\ \A h \in Reads :
          /\ h[2] > speech.count => starter[h].pc = "off"
          /\ starter[h].pc \in {"poll", "call", "reply"} /\ h[2] = speech.now => speech.task = NoTask
          /\ starter[h].pc # "done" => waiter[h].pc = "off"
          /\ waiter[h].pc # "off" /\ h[2] = speech.now => waiter[h].task = speech.task
    /\ speech.now <= speech.count
    /\ speech.now = 0 => speech.task = NoTask

\* An answer that says a task is over came when it was, and a task does not begin again.
OverIsOver ==
    /\ keeper.task <= svc.last
    /\ keeper.pc = "reply" /\ keeper.alive = "no" => ~Doing(keeper.task)
    /\ \A h \in Reads : waiter[h].pc = "reply" /\ waiter[h].reply # "sentence" => ~Doing(waiter[h].task)

\* Whatever the service does for the widget, somebody will end.
ListenCared(h) ==
    \/ starter[h].pc = "reply" \/ dictation.task = starter[h].task
    \/ stopper.pc \in {"monitor", "call"} /\ stopper.task = starter[h].task
    \/ Order("Cancel", starter[h].task) \in orders

ReadCared(h) ==
    \/ starter[h].pc = "reply" \/ speech.task = starter[h].task
    \/ Order("TtsStopSpeech", starter[h].task) \in orders

Cared ==
    /\ \A h \in Listens : starter[h].task # NoTask /\ Doing(starter[h].task) => ListenCared(h)
    /\ \A h \in Reads : starter[h].task # NoTask /\ Doing(starter[h].task) => ReadCared(h)

\* A text that was sent for the stop waits in its monitor.
Heard ==
    /\ stopper.pc \in {"call", "text"} => stopper.attached
    /\ \A i \in 1 .. Len(stopper.got) : stopper.got[i].member = "SttTextDecoded"
    /\ stopper.pc = "text" /\ stopper.task \in sent => \E i \in 1 .. Len(stopper.got) : IsText(stopper.got[i])
    /\ \A t \in sent : stopper.task = t /\ stopper.pc \in {"text", "reply"}
    /\ stopper.pc = "reply" /\ stopper.task \in sent => stopper.code = ""

\* What holds until something fails.
WhileWell == Tasks /\ Turns /\ OverIsOver /\ Cared /\ Heard

NoteInv == NoteTyped /\ StopTrue /\ OwnText /\ (NoFaultYet => WhileWell)

IInv == RecorderInv /\ ReaderInv /\ NoteInv

-----------------------------------------------------------------------------
(* The recorder keeps its part: one lemma for each step.                   *)

\* A state file is none of those that are absent.
LEMMA StateIsSome == \A s \in StateRec : s # None
<1>. SUFFICES ASSUME NEW s \in StateRec, s = None PROVE FALSE  OBVIOUS
<1>1. "pid" \in DOMAIN s  BY DEF StateRec
<1>2. "pid" \notin DOMAIN None  BY DEF None
<1>. QED BY <1>1, <1>2

LEMMA StateMade == \A p \in Nat, r \in Dictations : [pid |-> p, of |-> r] \in StateRec
BY DEF StateRec

\* A dictation's record changed in one way or another is one.
LEMMA RecordChanged ==
    ASSUME NEW d \in DictationRec
    PROVE  /\ \A pc \in DictatePc, folder, mark \in BOOLEAN, wav \in Recordings, out \in Outcomes :
                  [d EXCEPT !.pc = pc, !.folder = folder, !.mark = mark, !.wav = wav, !.out = out] \in DictationRec
           /\ \A pc \in DictatePc, folder, alone \in BOOLEAN : [d EXCEPT !.pc = pc, !.folder = folder, !.alone = alone] \in DictationRec
           /\ \A pc \in DictatePc, pid \in Nat : [d EXCEPT !.pc = pc, !.pid = pid] \in DictationRec
           /\ \A alone \in BOOLEAN : [d EXCEPT !.alone = alone] \in DictationRec
           /\ \A pc \in DictatePc : [d EXCEPT !.pc = pc] \in DictationRec
           /\ \A mark \in BOOLEAN : [d EXCEPT !.mark = mark] \in DictationRec
           /\ \A wav \in Recordings : [d EXCEPT !.wav = wav] \in DictationRec
BY DEF DictationRec

\* Only the dictation r has another record, d.
Only(r, d) == /\ rec' \in [Dictations -> DictationRec] /\ rec'[r] = d
              /\ \A o \in Dictations \ {r} : rec'[o] = rec[o]

LEMMA Ended ==
    ASSUME RecorderTyped, NEW r \in Dictations, NEW out \in Outcomes, rec' = Ends(r, out)
    PROVE  Only(r, [rec[r] EXCEPT !.pc = "done", !.folder = FALSE, !.mark = FALSE, !.wav = "none", !.out = out])
<1>. DEFINE d == [rec[r] EXCEPT !.pc = "done", !.folder = FALSE, !.mark = FALSE, !.wav = "none", !.out = out]
<1>1. rec' = [rec EXCEPT ![r] = d]  BY DEF Ends, RecorderTyped, DictationRec
<1>2. d \in DictationRec  BY RecordChanged, "done" \in DictatePc, "none" \in Recordings DEF RecorderTyped, DictatePc, Recordings
<1>3. Only(r, d)
  <2>. HIDE DEF d
  <2>. QED BY <1>1, <1>2 DEF Only, RecorderTyped
<1>. QED BY <1>3 DEF d

\* A step that leaves the numbers alone and only begins dictations.
LEMMA SameNumbers ==
    ASSUME RecorderTyped, Numbers, UNCHANGED <<stop, stateFile, proc>>,
           \A o \in Dictations : rec'[o].pid = rec[o].pid /\ (rec'[o].pc = rec[o].pc \/ (rec[o].pc = "off" /\ rec'[o].pc = "folder"))
    PROVE  Numbers'
<1>1. \A r \in Dictations :
          /\ rec'[r].pid # 0 => rec'[r].pid \in Pids
          /\ rec'[r].pc \in {"off", "folder"} => rec'[r].pid = 0
          /\ rec'[r].pc \in {"spawned", "waiting"} => rec'[r].pid # 0 /\ proc'[rec'[r].pid] \in {"recording", "asked", "zombie"}
          /\ rec'[r].pc \in {"clear", "unlink", "ended", "transcribe", "done"} /\ rec'[r].pid # 0 => proc'[rec'[r].pid] \in {"free", "other"}
  BY DEF Numbers
<1>2. \A r, o \in Dictations : rec'[r].pid # 0 /\ rec'[r].pid = rec'[o].pid => r = o
  BY DEF Numbers
<1>3. stateFile' # None => stateFile'.pid = rec'[stateFile'.of].pid /\ stateFile'.pid # 0
  BY DEF Numbers, RecorderTyped, StateRec
<1>4. \A s \in Stops : stop'[s].pc \in {"look", "mark", "kill"} =>
          /\ stop'[s].of \in Dictations /\ stop'[s].pid = rec'[stop'[s].of].pid /\ stop'[s].pid # 0
          /\ stop'[s].pc # "look" => proc'[stop'[s].pid] # "other"
  BY DEF Numbers
<1>. QED BY <1>1, <1>2, <1>3, <1>4 DEF Numbers

\* A step in which one dictation goes on, with the number it has.
LEMMA Moved ==
    ASSUME RecorderInv, NEW r \in Dictations, NEW d, Only(r, d), d.pid = rec[r].pid, d.alone = rec[r].alone,
           UNCHANGED <<stop, stateFile, marked, struck>>, troubles' \in Nat,
           proc' \in [Pids -> {"free", "recording", "asked", "zombie", "other"}],
           \A q \in Pids \ {rec[r].pid} : proc'[q] = proc[q],
           d.pc \in {"off", "folder"} => rec[r].pid = 0,
           d.pc \in {"spawned", "waiting"} => rec[r].pid # 0 /\ proc'[rec[r].pid] \in {"recording", "asked", "zombie"},
           d.pc \in {"clear", "unlink", "ended", "transcribe", "done"} /\ rec[r].pid # 0 => proc'[rec[r].pid] \in {"free", "other"},
           rec[r].pid # 0 => proc'[rec[r].pid] # "other" \/ proc'[rec[r].pid] = proc[rec[r].pid],
           r \in marked => \/ d.mark /\ d.pc \in {"spawned", "waiting", "clear", "unlink", "ended", "killed"}
                           \/ d.pc = "done" /\ d.out # "text",
           d.pc # "done" => d.out = "none", d.pc \in {"folder", "spawned"} => Beginning(r),
           d.pc = "unlink" => rec[r].pc = "unlink" \/ (stateFile # None /\ stateFile.pid = rec[r].pid),
           d.pc = "waiting" /\ proc'[rec[r].pid] = "recording" => rec[r].pc = "waiting" /\ proc[rec[r].pid] = "recording"
    PROVE  RecorderInv'
<1>. USE DEF RecorderInv
<1>0. \A o \in Dictations : rec'[o].pid = rec[o].pid /\ rec'[o].alone = rec[o].alone /\ (Beginning(o)' => Beginning(o))
  BY DEF Only, Beginning
<1>1. RecorderTyped'  BY DEF RecorderTyped, Only
<1>2. ASSUME NEW o \in Dictations \ {r}, rec[o].pid # 0
      PROVE  proc'[rec[o].pid] = proc[rec[o].pid]
  BY <1>2 DEF Numbers
<1>3. Numbers'
  <2>1. ASSUME NEW o \in Dictations
        PROVE  /\ rec'[o].pid # 0 => rec'[o].pid \in Pids
               /\ rec'[o].pc \in {"off", "folder"} => rec'[o].pid = 0
               /\ rec'[o].pc \in {"spawned", "waiting"} => rec'[o].pid # 0 /\ proc'[rec'[o].pid] \in {"recording", "asked", "zombie"}
               /\ rec'[o].pc \in {"clear", "unlink", "ended", "transcribe", "done"} /\ rec'[o].pid # 0 => proc'[rec'[o].pid] \in {"free", "other"}
    <3>1. CASE o = r  BY <3>1 DEF Only, Numbers
    <3>2. CASE o # r
      <4>1. rec'[o] = rec[o]  BY <3>2 DEF Only
      <4>. QED BY <1>2, <3>2, <4>1 DEF Numbers
    <3>. QED BY <3>1, <3>2
  <2>2. \A x, o \in Dictations : rec'[x].pid # 0 /\ rec'[x].pid = rec'[o].pid => x = o
    BY <1>0 DEF Numbers
  <2>3. stateFile' # None => stateFile'.pid = rec'[stateFile'.of].pid /\ stateFile'.pid # 0
    BY <1>0 DEF Numbers, RecorderTyped, StateRec
  <2>4. ASSUME NEW s \in Stops, stop[s].pc \in {"look", "mark", "kill"}
        PROVE  /\ stop[s].of \in Dictations /\ stop[s].pid = rec'[stop[s].of].pid /\ stop[s].pid # 0
               /\ stop[s].pc # "look" => proc'[stop[s].pid] # "other"
    <3>1. /\ stop[s].of \in Dictations /\ stop[s].pid = rec[stop[s].of].pid /\ stop[s].pid # 0
          /\ stop[s].pc # "look" => proc[stop[s].pid] # "other"
      BY <2>4 DEF Numbers
    <3>2. CASE stop[s].of = r  BY <1>0, <3>1, <3>2
    <3>3. CASE stop[s].of # r  BY <1>0, <1>2, <3>1, <3>3
    <3>. QED BY <3>2, <3>3
  <2>. QED BY <2>1, <2>2, <2>3, <2>4 DEF Numbers
<1>4. MarkedIsDropped'  BY DEF MarkedIsDropped, Only, RecorderTyped
<1>6. ASSUME NEW o \in Dictations, rec'[o].pc = "waiting", proc'[rec'[o].pid] = "recording"
      PROVE  rec[o].pc = "waiting" /\ proc[rec[o].pid] = "recording"
  <2>1. CASE o = r  BY <1>6, <2>1 DEF Only
  <2>2. CASE o # r
    <3>1. rec'[o] = rec[o]  BY <2>2 DEF Only
    <3>. QED BY <1>2, <1>6, <2>2, <3>1 DEF Numbers
  <2>. QED BY <2>1, <2>2
<1>5. AloneRules'
  <2>1. ASSUME NEW o \in Dictations, rec'[o].alone = TRUE, Beginning(o)', NEW x \in Dictations \ {o} PROVE ~Beginning(x)'
    BY <1>0, <2>1 DEF AloneRules
  <2>2. ASSUME NEW o \in Dictations, rec'[o].alone = TRUE, rec'[o].pc = "waiting", proc'[rec'[o].pid] = "recording"
        PROVE  stateFile' # None /\ stateFile'.of = o /\ \A x \in Dictations \ {o} : ~Beginning(x)'
    BY <1>0, <1>6, <2>2 DEF AloneRules
  <2>. QED BY <2>1, <2>2 DEF AloneRules
<1>7. NoneRemoves'
  <2>1. ASSUME NEW o \in Dictations, rec'[o].alone = TRUE, rec'[o].pc = "waiting", proc'[rec'[o].pid] = "recording",
               NEW x \in Dictations, rec'[x].pc = "unlink"
        PROVE  FALSE
    <3>1. rec[o].alone = TRUE /\ rec[o].pc = "waiting" /\ proc[rec[o].pid] = "recording"
      BY <1>0, <1>6, <2>1
    <3>2. rec[x].pc # "unlink"  BY <3>1 DEF NoneRemoves
    <3>3. x = r /\ d.pc = "unlink"
      <4>1. CASE x = r  BY <2>1, <4>1 DEF Only
      <4>2. CASE x # r  BY <2>1, <3>2, <4>2 DEF Only
      <4>. QED BY <4>1, <4>2
    <3>4. stateFile # None /\ stateFile.pid = rec[r].pid  BY <3>2, <3>3
    <3>5. stateFile.of = o /\ stateFile.pid = rec[o].pid /\ rec[o].pid # 0
      BY <3>1, <3>4 DEF AloneRules, Numbers
    <3>6. o = r  BY <3>4, <3>5 DEF Numbers
    <3>. QED BY <2>1, <3>3, <3>6
  <2>. QED BY <2>1 DEF NoneRemoves
<1>. QED BY <1>1, <1>3, <1>4, <1>5, <1>7

LEMMA BeginKeeps == ASSUME RecorderInv, NEW r \in Dictations, Begin(r) PROVE RecorderInv'
<1>1. UNCHANGED <<stop, stateFile, proc, marked, struck, troubles>> /\ rec[r].pc = "off" /\ r \notin marked
  BY DEF Begin, RecorderInv, MarkedIsDropped
<1>2. CASE read_state # None
  <2>. DEFINE d == [rec[r] EXCEPT !.pc = "done", !.folder = FALSE, !.mark = FALSE, !.wav = "none", !.out = "busy"]
  <2>1. Only(r, d)  BY <1>2, Ended, "busy" \in Outcomes DEF Begin, RecorderInv, Outcomes
  <2>2. d.pc = "done" /\ d.pid = rec[r].pid /\ d.alone = rec[r].alone /\ rec[r] \in DictationRec
    BY DEF DictationRec, RecorderInv, RecorderTyped
  <2>. HIDE DEF d
  <2>3. troubles' \in Nat /\ proc' \in [Pids -> {"free", "recording", "asked", "zombie", "other"}] /\ rec[r].pid = 0
    BY <1>1 DEF RecorderInv, RecorderTyped, Numbers
  <2>. QED BY <1>1, <2>1, <2>2, <2>3, Moved
<1>3. CASE read_state = None
  <2>. DEFINE others == {o \in Dictations \ {r} : Beginning(o)}
              d == [rec[r] EXCEPT !.pc = "folder", !.folder = TRUE, !.alone = others = {}]
              new == [o \in Dictations |-> IF o = r THEN d ELSE IF o \in others THEN [rec[o] EXCEPT !.alone = FALSE] ELSE rec[o]]
  <2>1. rec' = new  BY <1>3 DEF Begin
  <2>2. d \in DictationRec /\ d.pc = "folder" /\ d.pid = rec[r].pid /\ d.mark = rec[r].mark /\ d.alone = (others = {})
        /\ d.out = rec[r].out
    <3>1. rec[r] \in DictationRec /\ (others = {}) \in BOOLEAN /\ "folder" \in DictatePc /\ TRUE \in BOOLEAN
      BY DEF RecorderInv, RecorderTyped, DictatePc
    <3>. HIDE DEF others
    <3>2. d \in DictationRec  BY <3>1, RecordChanged
    <3>. QED BY <3>1, <3>2 DEF DictationRec
  <2>3. ASSUME NEW o \in Dictations \ {r}
        PROVE  /\ new[o] \in DictationRec
               /\ new[o].pc = rec[o].pc /\ new[o].pid = rec[o].pid /\ new[o].mark = rec[o].mark /\ new[o].out = rec[o].out
               /\ new[o].alone = TRUE => rec[o].alone = TRUE /\ ~Beginning(o)
    <3>1. CASE o \in others
      <4>1. new[o] = [rec[o] EXCEPT !.alone = FALSE]  BY <3>1
      <4>2. rec[o] \in DictationRec /\ FALSE \in BOOLEAN  BY DEF RecorderInv, RecorderTyped
      <4>3. [rec[o] EXCEPT !.alone = FALSE] \in DictationRec  BY <4>2, RecordChanged
      <4>. QED BY <4>1, <4>2, <4>3 DEF DictationRec
    <3>2. CASE o \notin others
      <4>1. new[o] = rec[o] /\ ~Beginning(o)  BY <3>2
      <4>. QED BY <4>1 DEF RecorderInv, RecorderTyped
    <3>. QED BY <3>1, <3>2
  <2>4. new[r] = d  OBVIOUS
  <2>5. d.alone = TRUE => \A o \in Dictations \ {r} : ~Beginning(o)  BY <2>2
  <2>. HIDE DEF d, others
  <2>6. new \in [Dictations -> DictationRec]
    <3>1. ASSUME NEW o \in Dictations PROVE new[o] \in DictationRec  BY <2>2, <2>3, <2>4
    <3>. HIDE DEF new
    <3>2. DOMAIN new = Dictations /\ new = [o \in Dictations |-> new[o]]  BY DEF new
    <3>. QED BY <3>1, <3>2
  <2>. HIDE DEF new
  <2>7. RecorderTyped'  BY <1>1, <2>1, <2>6 DEF RecorderTyped, RecorderInv
  <2>8. Numbers'
    <3>1. \A o \in Dictations : rec'[o].pid = rec[o].pid /\ (rec'[o].pc = rec[o].pc \/ (rec[o].pc = "off" /\ rec'[o].pc = "folder"))
      BY <1>1, <2>1, <2>2, <2>3, <2>4
    <3>. QED BY <1>1, <3>1, SameNumbers DEF RecorderInv
  <2>9. MarkedIsDropped'
    <3>1. ASSUME NEW o \in Dictations, rec'[o].pc # "done" PROVE rec'[o].out = "none"
      BY <1>1, <2>1, <2>2, <2>3, <2>4, <3>1 DEF MarkedIsDropped, RecorderInv
    <3>2. ASSUME NEW o \in marked
          PROVE  \/ rec'[o].mark /\ rec'[o].pc \in {"spawned", "waiting", "clear", "unlink", "ended", "killed"}
                 \/ rec'[o].pc = "done" /\ rec'[o].out # "text"
      BY <1>1, <2>1, <2>3, <3>2 DEF MarkedIsDropped, RecorderTyped, RecorderInv
    <3>. QED BY <1>1, <3>1, <3>2 DEF MarkedIsDropped
  <2>10. ASSUME NEW o \in Dictations, rec[o].pc = "waiting", proc[rec[o].pid] = "recording" PROVE rec[o].alone # TRUE
    BY <1>3, <2>10 DEF AloneRules, Numbers, read_state, _alive, RecorderTyped, StateRec, RecorderInv
  <2>11. AloneRules'
    <3>1. ASSUME NEW o \in Dictations, rec'[o].alone = TRUE, Beginning(o)', NEW x \in Dictations \ {o} PROVE ~Beginning(x)'
      BY <2>1, <2>2, <2>3, <2>4, <2>5, <3>1 DEF Beginning
    <3>2. ASSUME NEW o \in Dictations, rec'[o].alone = TRUE, rec'[o].pc = "waiting", proc'[rec'[o].pid] = "recording" PROVE FALSE
      BY <1>1, <2>1, <2>2, <2>3, <2>4, <2>10, <3>2
    <3>. QED BY <3>1, <3>2 DEF AloneRules
  <2>12. NoneRemoves'
    <3>1. ASSUME NEW o \in Dictations, rec'[o].alone = TRUE, rec'[o].pc = "waiting", proc'[rec'[o].pid] = "recording" PROVE FALSE
      BY <1>1, <2>1, <2>2, <2>3, <2>4, <2>10, <3>1
    <3>. QED BY <3>1 DEF NoneRemoves
  <2>. QED BY <1>1, <2>7, <2>8, <2>9, <2>11, <2>12 DEF RecorderInv
<1>. QED BY <1>2, <1>3

LEMMA PopenKeeps == ASSUME RecorderInv, NEW r \in Dictations, Popen(r) PROVE RecorderInv'
<1>1. UNCHANGED <<stop, stateFile, marked, struck>> /\ rec[r].pc = "folder" /\ r \notin marked /\ rec[r].pid = 0 /\ rec[r] \in DictationRec
  BY DEF Popen, RecorderInv, MarkedIsDropped, Numbers, RecorderTyped
<1>2. CASE Trouble /\ rec' = Ends(r, "no_recorder") /\ UNCHANGED proc
  <2>. DEFINE d == [rec[r] EXCEPT !.pc = "done", !.folder = FALSE, !.mark = FALSE, !.wav = "none", !.out = "no_recorder"]
  <2>1. Only(r, d)  BY <1>2, Ended, "no_recorder" \in Outcomes DEF RecorderInv, Outcomes
  <2>2. d.pc = "done" /\ d.pid = rec[r].pid /\ d.alone = rec[r].alone
    BY <1>1 DEF DictationRec
  <2>3. troubles' \in Nat  BY <1>2 DEF Trouble, RecorderInv, RecorderTyped
  <2>4. proc' \in [Pids -> {"free", "recording", "asked", "zombie", "other"}]  BY <1>2 DEF RecorderInv, RecorderTyped
  <2>. HIDE DEF d
  <2>. QED BY <1>1, <1>2, <2>1, <2>2, <2>3, <2>4, Moved
<1>3. ASSUME NEW p \in Pids, proc[p] = "free", \A o \in Dictations : rec[o].pid < p,
             proc' = [proc EXCEPT ![p] = "recording"],
             rec' = [rec EXCEPT ![r].pc = "spawned", ![r].pid = p], UNCHANGED troubles
      PROVE  RecorderInv'
  <2>. DEFINE d == [rec[r] EXCEPT !.pc = "spawned", !.pid = p]
  <2>1. p \in Nat /\ p # 0
    <3>1. rec[r].pid < p /\ rec[r].pid \in Nat /\ p \in Nat  BY <1>1, <1>3, RecorderAssumption DEF DictationRec
    <3>. QED BY <3>1
  <2>2. d \in DictationRec /\ d.pc = "spawned" /\ d.pid = p /\ d.alone = rec[r].alone /\ d.out = "none"
    <3>1. d \in DictationRec  BY <1>1, <2>1, RecordChanged, "spawned" \in DictatePc DEF DictatePc
    <3>. QED BY <1>1, <3>1 DEF DictationRec, MarkedIsDropped, RecorderInv
  <2>3. rec' = [rec EXCEPT ![r] = d]  BY <1>1, <1>3 DEF RecorderInv, RecorderTyped, DictationRec
  <2>. HIDE DEF d
  <2>4. Only(r, d)  BY <2>2, <2>3 DEF Only, RecorderInv, RecorderTyped
  <2>5. \A o \in Dictations : rec[o].pid # p
    <3>1. ASSUME NEW o \in Dictations, rec[o].pid = p PROVE FALSE  BY <1>3, <2>1, <3>1
    <3>. QED BY <3>1
  <2>6. proc' \in [Pids -> {"free", "recording", "asked", "zombie", "other"}] /\ proc'[p] = "recording"
        /\ \A q \in Pids \ {p} : proc'[q] = proc[q]
    BY <1>3 DEF RecorderInv, RecorderTyped
  <2>7. RecorderTyped'  BY <1>1, <1>3, <2>4, <2>6 DEF RecorderTyped, RecorderInv, Only
  <2>8. Numbers'
    <3>1. ASSUME NEW o \in Dictations
          PROVE  /\ rec'[o].pid # 0 => rec'[o].pid \in Pids
                 /\ rec'[o].pc \in {"off", "folder"} => rec'[o].pid = 0
                 /\ rec'[o].pc \in {"spawned", "waiting"} => rec'[o].pid # 0 /\ proc'[rec'[o].pid] \in {"recording", "asked", "zombie"}
                 /\ rec'[o].pc \in {"clear", "unlink", "ended", "transcribe", "done"} /\ rec'[o].pid # 0 => proc'[rec'[o].pid] \in {"free", "other"}
      <4>1. CASE o = r  BY <2>1, <2>2, <2>4, <2>6, <4>1 DEF Only
      <4>2. CASE o # r
        <5>1. rec'[o] = rec[o] /\ rec[o].pid # p  BY <2>4, <2>5, <4>2 DEF Only
        <5>2. rec[o].pid # 0 => proc'[rec[o].pid] = proc[rec[o].pid]  BY <2>6, <5>1 DEF Numbers, RecorderInv
        <5>. QED BY <5>1, <5>2 DEF Numbers, RecorderInv
      <4>. QED BY <4>1, <4>2
    <3>2. \A x, o \in Dictations : rec'[x].pid # 0 /\ rec'[x].pid = rec'[o].pid => x = o
      BY <2>2, <2>4, <2>5 DEF Only, Numbers, RecorderInv
    <3>3. stateFile' # None => stateFile'.pid = rec'[stateFile'.of].pid /\ stateFile'.pid # 0
      BY <1>1, <2>4 DEF Only, Numbers, RecorderTyped, StateRec, RecorderInv
    <3>4. \A s \in Stops : stop'[s].pc \in {"look", "mark", "kill"} =>
          /\ stop'[s].of \in Dictations /\ stop'[s].pid = rec'[stop'[s].of].pid /\ stop'[s].pid # 0
          /\ stop'[s].pc # "look" => proc'[stop'[s].pid] # "other"
      BY <1>1, <2>4, <2>5, <2>6 DEF Only, Numbers, RecorderInv
    <3>. QED BY <3>1, <3>2, <3>3, <3>4 DEF Numbers
  <2>9. MarkedIsDropped'  BY <1>1, <2>2, <2>4 DEF MarkedIsDropped, Only, RecorderInv, RecorderTyped
  <2>11. ASSUME NEW o \in Dictations, rec'[o].alone = TRUE, rec'[o].pc = "waiting", proc'[rec'[o].pid] = "recording" PROVE FALSE
    <3>1. o # r /\ rec'[o] = rec[o] /\ proc[rec[o].pid] = "recording"
      BY <2>2, <2>4, <2>5, <2>6, <2>11 DEF Only, Numbers, RecorderInv
    <3>2. \A x \in Dictations \ {o} : ~Beginning(x)
      BY <2>11, <3>1 DEF AloneRules, RecorderInv
    <3>. QED BY <1>1, <3>1, <3>2 DEF Beginning
  <2>12. NoneRemoves'  BY <2>11 DEF NoneRemoves
  <2>10. AloneRules'
    <3>1. ASSUME NEW o \in Dictations, rec'[o].alone = TRUE, Beginning(o)', NEW x \in Dictations \ {o} PROVE ~Beginning(x)'
      BY <1>1, <2>2, <2>4, <3>1 DEF Beginning, Only, AloneRules, RecorderInv
    <3>. QED BY <2>11, <3>1 DEF AloneRules
  <2>. QED BY <1>1, <2>7, <2>8, <2>9, <2>10, <2>12 DEF RecorderInv
<1>. QED BY <1>2, <1>3 DEF Popen

LEMMA LimitKeeps == ASSUME RecorderInv, NEW r \in Dictations, Limit(r) PROVE RecorderInv'
<1>. DEFINE d == rec[r]
<1>1. Only(r, d) /\ UNCHANGED <<stop, stateFile, marked, struck>> /\ troubles' \in Nat
  BY DEF Only, Limit, RecorderInv, RecorderTyped
<1>2. rec[r].pid # 0 /\ rec[r].pid \in Pids /\ d.pc = "waiting"  BY DEF Limit, RecorderInv, Numbers
<1>3. /\ proc' \in [Pids -> {"free", "recording", "asked", "zombie", "other"}] /\ proc'[rec[r].pid] = "asked"
      /\ \A q \in Pids \ {rec[r].pid} : proc'[q] = proc[q]
  BY <1>2 DEF Limit, RecorderInv, RecorderTyped
<1>4. r \in marked => d.mark  BY <1>2 DEF RecorderInv, MarkedIsDropped
<1>5. d.pid = rec[r].pid /\ d.alone = rec[r].alone /\ d.out = "none"  BY <1>2 DEF RecorderInv, MarkedIsDropped
<1>. HIDE DEF d
<1>. QED BY <1>1, <1>2, <1>3, <1>4, <1>5, Moved

LEMMA RecorderEndsKeeps == ASSUME RecorderInv, NEW r \in Dictations, RecorderEnds(r) PROVE RecorderInv'
<1>1. PICK wav \in Recordings : rec' = [rec EXCEPT ![r].wav = wav]
  BY DEF RecorderEnds, Recordings
<1>. DEFINE d == [rec[r] EXCEPT !.wav = wav]
<1>2. rec[r] \in DictationRec /\ rec[r].pid # 0 /\ rec[r].pid \in Pids /\ rec[r].pc \in {"spawned", "waiting", "killed"}
  BY DEF RecorderEnds, RecorderInv, RecorderTyped, Numbers
<1>3. d \in DictationRec  BY <1>2, RecordChanged
<1>4. rec' = [rec EXCEPT ![r] = d]  BY <1>1, <1>2 DEF RecorderInv, RecorderTyped, DictationRec
<1>5. d.pc = rec[r].pc /\ d.pid = rec[r].pid /\ d.alone = rec[r].alone /\ d.mark = rec[r].mark /\ d.out = "none"
  BY <1>2 DEF DictationRec, RecorderInv, MarkedIsDropped
<1>. HIDE DEF d
<1>6. Only(r, d)  BY <1>3, <1>4 DEF Only, RecorderInv, RecorderTyped
<1>7. UNCHANGED <<stop, stateFile, marked, struck>> /\ troubles' \in Nat
  BY DEF RecorderEnds, Trouble, RecorderInv, RecorderTyped
<1>8. /\ proc' \in [Pids -> {"free", "recording", "asked", "zombie", "other"}]
      /\ proc'[rec[r].pid] = IF rec[r].pc = "killed" THEN "free" ELSE "zombie"
      /\ \A q \in Pids \ {rec[r].pid} : proc'[q] = proc[q]
  BY <1>2 DEF RecorderEnds, RecorderInv, RecorderTyped
<1>9. r \in marked => d.mark  BY <1>2, <1>5 DEF RecorderInv, MarkedIsDropped
<1>10. d.pc \in {"folder", "spawned"} => Beginning(r)  BY <1>5 DEF Beginning
<1>. QED BY <1>2, <1>5, <1>6, <1>7, <1>8, <1>9, <1>10, Moved

LEMMA WaitKeeps == ASSUME RecorderInv, NEW r \in Dictations, _wait(r) PROVE RecorderInv'
<1>. DEFINE d == [rec[r] EXCEPT !.pc = "clear"]
<1>1. rec[r] \in DictationRec /\ rec[r].pid # 0 /\ rec[r].pid \in Pids /\ rec[r].pc = "waiting"
  BY DEF _wait, RecorderInv, RecorderTyped, Numbers
<1>2. d \in DictationRec  BY <1>1, RecordChanged, "clear" \in DictatePc DEF DictatePc
<1>3. rec' = [rec EXCEPT ![r] = d]  BY <1>1 DEF _wait, RecorderInv, RecorderTyped, DictationRec
<1>4. d.pc = "clear" /\ d.pid = rec[r].pid /\ d.alone = rec[r].alone /\ d.mark = rec[r].mark /\ d.out = "none"
  BY <1>1 DEF DictationRec, RecorderInv, MarkedIsDropped
<1>. HIDE DEF d
<1>5. Only(r, d)  BY <1>2, <1>3 DEF Only, RecorderInv, RecorderTyped
<1>6. UNCHANGED <<stop, stateFile, marked, struck>> /\ troubles' \in Nat  BY DEF _wait, RecorderInv, RecorderTyped
<1>7. /\ proc' \in [Pids -> {"free", "recording", "asked", "zombie", "other"}] /\ proc'[rec[r].pid] = "free"
      /\ \A q \in Pids \ {rec[r].pid} : proc'[q] = proc[q]
  BY <1>1 DEF _wait, RecorderInv, RecorderTyped
<1>8. r \in marked => d.mark  BY <1>1, <1>4 DEF RecorderInv, MarkedIsDropped
<1>. QED BY <1>1, <1>4, <1>5, <1>6, <1>7, <1>8, Moved

\* The dictation is over, with an outcome; or its recording is transcribed.
LEMMA OverKeeps ==
    ASSUME RecorderInv, NEW r \in Dictations, NEW out \in Outcomes, rec' = Ends(r, out), rec[r].pc \in {"ended", "transcribe"},
           r \in marked => out # "text", UNCHANGED <<stop, stateFile, proc, marked, struck, troubles>>
    PROVE  RecorderInv'
<1>. DEFINE d == [rec[r] EXCEPT !.pc = "done", !.folder = FALSE, !.mark = FALSE, !.wav = "none", !.out = out]
<1>1. Only(r, d)  BY Ended DEF RecorderInv
<1>2. d.pc = "done" /\ d.out = out /\ d.pid = rec[r].pid /\ d.alone = rec[r].alone
  BY DEF DictationRec, RecorderInv, RecorderTyped
<1>. HIDE DEF d
<1>3. troubles' \in Nat /\ proc' \in [Pids -> {"free", "recording", "asked", "zombie", "other"}]
  BY DEF RecorderInv, RecorderTyped
<1>4. rec[r].pid # 0 => proc'[rec[r].pid] \in {"free", "other"}  BY DEF RecorderInv, Numbers
<1>. QED BY <1>1, <1>2, <1>3, <1>4, Moved

LEMMA LooksKeeps == ASSUME RecorderInv, NEW r \in Dictations, Looks(r) PROVE RecorderInv'
<1>1. UNCHANGED <<stop, stateFile, proc, marked, struck, troubles>> /\ rec[r].pc = "ended" /\ rec[r] \in DictationRec
  BY DEF Looks, RecorderInv, RecorderTyped
<1>2. \/ \E out \in Outcomes \ {"text"} : rec' = Ends(r, out)
      \/ ~rec[r].mark /\ rec' = [rec EXCEPT ![r].pc = "transcribe"]
  BY DEF Looks, Outcomes
<1>3. ASSUME NEW out \in Outcomes \ {"text"}, rec' = Ends(r, out) PROVE RecorderInv'
  BY <1>1, <1>3, OverKeeps
<1>4. CASE ~rec[r].mark /\ rec' = [rec EXCEPT ![r].pc = "transcribe"]
  <2>. DEFINE d == [rec[r] EXCEPT !.pc = "transcribe"]
  <2>1. d \in DictationRec  BY <1>1, RecordChanged, "transcribe" \in DictatePc DEF DictatePc
  <2>2. rec' = [rec EXCEPT ![r] = d]  BY <1>1, <1>4 DEF RecorderInv, RecorderTyped, DictationRec
  <2>3. d.pc = "transcribe" /\ d.pid = rec[r].pid /\ d.alone = rec[r].alone /\ d.out = "none"
    BY <1>1 DEF DictationRec, RecorderInv, MarkedIsDropped
  <2>. HIDE DEF d
  <2>4. Only(r, d)  BY <2>1, <2>2 DEF Only, RecorderInv, RecorderTyped
  <2>5. troubles' \in Nat /\ proc' \in [Pids -> {"free", "recording", "asked", "zombie", "other"}]
    BY <1>1 DEF RecorderInv, RecorderTyped
  <2>6. rec[r].pid # 0 => proc'[rec[r].pid] \in {"free", "other"}  BY <1>1 DEF RecorderInv, Numbers
  <2>7. r \notin marked  BY <1>1, <1>4 DEF RecorderInv, MarkedIsDropped
  <2>. QED BY <1>1, <2>3, <2>4, <2>5, <2>6, <2>7, Moved
<1>. QED BY <1>2, <1>3, <1>4

LEMMA TranscribeKeeps == ASSUME RecorderInv, NEW r \in Dictations, transcribe(r) PROVE RecorderInv'
<1>1. r \notin marked  BY DEF transcribe, RecorderInv, MarkedIsDropped
<1>2. PICK out \in Outcomes : rec' = Ends(r, out)  BY DEF transcribe, Outcomes
<1>. QED BY <1>1, <1>2, OverKeeps DEF transcribe

LEMMA DictateKilledKeeps == ASSUME RecorderInv, NEW r \in Dictations, DictateKilled(r) PROVE RecorderInv'
<1>. DEFINE d == [rec[r] EXCEPT !.pc = "killed"]
<1>1. rec[r] \in DictationRec /\ rec[r].pc \in {"folder", "spawned", "waiting", "clear", "unlink", "ended", "transcribe"}
      /\ (rec[r].pid # 0 => rec[r].pid \in Pids)
  BY DEF DictateKilled, RecorderInv, RecorderTyped, Numbers
<1>2. d \in DictationRec  BY <1>1, RecordChanged, "killed" \in DictatePc DEF DictatePc
<1>3. rec' = [rec EXCEPT ![r] = d]  BY <1>1 DEF DictateKilled, RecorderInv, RecorderTyped, DictationRec
<1>4. d.pc = "killed" /\ d.pid = rec[r].pid /\ d.alone = rec[r].alone /\ d.mark = rec[r].mark /\ d.out = "none"
  BY <1>1 DEF DictationRec, RecorderInv, MarkedIsDropped
<1>. HIDE DEF d
<1>5. Only(r, d)  BY <1>2, <1>3 DEF Only, RecorderInv, RecorderTyped
<1>6. UNCHANGED <<stop, stateFile, marked, struck>> /\ troubles' \in Nat
  BY DEF DictateKilled, Trouble, RecorderInv, RecorderTyped
<1>7. /\ proc' \in [Pids -> {"free", "recording", "asked", "zombie", "other"}]
      /\ rec[r].pid # 0 => proc'[rec[r].pid] = "free" \/ proc'[rec[r].pid] = proc[rec[r].pid]
      /\ \A q \in Pids \ {rec[r].pid} : proc'[q] = proc[q]
  BY <1>1 DEF DictateKilled, RecorderInv, RecorderTyped
<1>8. r \in marked => d.mark  BY <1>1, <1>4 DEF RecorderInv, MarkedIsDropped
<1>. QED BY <1>1, <1>4, <1>5, <1>6, <1>7, <1>8, Moved

LEMMA WriteStateKeeps == ASSUME RecorderInv, NEW r \in Dictations, _write_state(r) PROVE RecorderInv'
<1>. DEFINE free == \A o \in Dictations : rec[o].pc # "unlink"
            d == [rec[r] EXCEPT !.pc = "waiting", !.alone = rec[r].alone /\ free]
<1>1. /\ rec[r] \in DictationRec /\ rec[r].pc = "spawned" /\ rec[r].pid # 0 /\ rec[r].pid \in Nat
      /\ UNCHANGED <<stop, proc, marked, struck, troubles>>
  BY DEF _write_state, RecorderInv, RecorderTyped, DictationRec, Numbers
<1>2. d \in DictationRec
  <2>1. (rec[r].alone /\ free) \in BOOLEAN /\ "waiting" \in DictatePc  BY DEF DictatePc
  <2>. HIDE DEF free
  <2>. QED BY <1>1, <2>1 DEF DictationRec
<1>3. rec' = [rec EXCEPT ![r] = d]  BY <1>1 DEF _write_state, RecorderInv, RecorderTyped, DictationRec
<1>4. d.pc = "waiting" /\ d.pid = rec[r].pid /\ d.alone = (rec[r].alone /\ free) /\ d.mark = rec[r].mark /\ d.out = "none"
  <2>. HIDE DEF free
  <2>. QED BY <1>1 DEF DictationRec, RecorderInv, MarkedIsDropped
<1>13. d.alone = TRUE => rec[r].alone = TRUE /\ free
  <2>1. rec[r].alone \in BOOLEAN  BY <1>1 DEF DictationRec
  <2>. HIDE DEF free, d
  <2>. QED BY <1>4, <2>1
<1>. HIDE DEF d
<1>5. Only(r, d)  BY <1>2, <1>3 DEF Only, RecorderInv, RecorderTyped
<1>6. stateFile' = [pid |-> rec[r].pid, of |-> r] /\ stateFile' \in StateRec  BY <1>1, StateMade DEF _write_state
<1>7. \A o \in Dictations : /\ rec'[o].pid = rec[o].pid /\ (rec'[o].pc = rec[o].pc \/ o = r)
                            /\ rec'[o].alone = TRUE => rec[o].alone = TRUE
  BY <1>4, <1>5, <1>13 DEF Only
<1>8. RecorderTyped'  BY <1>1, <1>5, <1>6 DEF RecorderTyped, RecorderInv, Only
<1>9. Numbers'
  <2>1. ASSUME NEW o \in Dictations
        PROVE  /\ rec'[o].pid # 0 => rec'[o].pid \in Pids
               /\ rec'[o].pc \in {"off", "folder"} => rec'[o].pid = 0
               /\ rec'[o].pc \in {"spawned", "waiting"} => rec'[o].pid # 0 /\ proc'[rec'[o].pid] \in {"recording", "asked", "zombie"}
               /\ rec'[o].pc \in {"clear", "unlink", "ended", "transcribe", "done"} /\ rec'[o].pid # 0 => proc'[rec'[o].pid] \in {"free", "other"}
    <3>1. CASE o = r  BY <1>1, <1>4, <1>5, <3>1 DEF Only, Numbers, RecorderInv
    <3>2. CASE o # r
      <4>1. rec'[o] = rec[o]  BY <1>5, <3>2 DEF Only
      <4>. QED BY <1>1, <4>1 DEF Numbers, RecorderInv
    <3>. QED BY <3>1, <3>2
  <2>2. \A x, o \in Dictations : rec'[x].pid # 0 /\ rec'[x].pid = rec'[o].pid => x = o
    BY <1>7 DEF Numbers, RecorderInv
  <2>3. stateFile' # None => stateFile'.pid = rec'[stateFile'.of].pid /\ stateFile'.pid # 0
    BY <1>1, <1>6, <1>7
  <2>4. \A s \in Stops : stop'[s].pc \in {"look", "mark", "kill"} =>
          /\ stop'[s].of \in Dictations /\ stop'[s].pid = rec'[stop'[s].of].pid /\ stop'[s].pid # 0
          /\ stop'[s].pc # "look" => proc'[stop'[s].pid] # "other"
    BY <1>1, <1>7 DEF Numbers, RecorderInv
  <2>. QED BY <2>1, <2>2, <2>3, <2>4 DEF Numbers
<1>10. MarkedIsDropped'  BY <1>1, <1>4, <1>5 DEF MarkedIsDropped, Only, RecorderInv, RecorderTyped
<1>11. \A o \in Dictations : Beginning(o)' => Beginning(o) /\ o # r
  BY <1>4, <1>5, <1>7 DEF Beginning, Only
<1>12. AloneRules'
  <2>1. ASSUME NEW o \in Dictations, rec'[o].alone = TRUE, Beginning(o)', NEW x \in Dictations \ {o} PROVE ~Beginning(x)'
    BY <1>7, <1>11, <2>1 DEF AloneRules, RecorderInv
  <2>2. ASSUME NEW o \in Dictations, rec'[o].alone = TRUE, rec'[o].pc = "waiting", proc'[rec'[o].pid] = "recording"
        PROVE  stateFile' # None /\ stateFile'.of = o /\ \A x \in Dictations \ {o} : ~Beginning(x)'
    <3>1. Beginning(r)  BY <1>1 DEF Beginning
    <3>2. o = r  BY <1>1, <1>7, <2>2, <3>1 DEF AloneRules, RecorderInv
    <3>3. \A x \in Dictations \ {r} : ~Beginning(x)  BY <1>7, <2>2, <3>1, <3>2 DEF AloneRules, RecorderInv
    <3>4. stateFile' # None  BY <1>6, StateIsSome
    <3>. QED BY <1>6, <1>11, <3>2, <3>3, <3>4
  <2>. QED BY <2>1, <2>2 DEF AloneRules
<1>14. NoneRemoves'
  <2>1. ASSUME NEW o \in Dictations, rec'[o].alone = TRUE, rec'[o].pc = "waiting", proc'[rec'[o].pid] = "recording",
               NEW x \in Dictations
        PROVE  rec'[x].pc # "unlink"
    <3>1. Beginning(r)  BY <1>1 DEF Beginning
    <3>2. o = r  BY <1>1, <1>7, <2>1, <3>1 DEF AloneRules, RecorderInv
    <3>3. free  BY <1>5, <1>13, <2>1, <3>2 DEF Only
    <3>4. CASE x = r  BY <2>1, <3>2, <3>4
    <3>5. CASE x # r  BY <1>7, <3>3, <3>5
    <3>. QED BY <3>4, <3>5
  <2>. QED BY <2>1 DEF NoneRemoves
<1>. QED BY <1>1, <1>8, <1>9, <1>10, <1>12, <1>14 DEF RecorderInv

LEMMA ClearStateKeeps == ASSUME RecorderInv, NEW r \in Dictations, _clear_state(r) PROVE RecorderInv'
<1>1. /\ rec[r] \in DictationRec /\ rec[r].pc = "clear"
      /\ UNCHANGED <<stop, stateFile, proc, marked, struck, troubles>>
  BY DEF _clear_state, RecorderInv, RecorderTyped
<1>2. \/ rec' = [rec EXCEPT ![r].pc = "unlink"] /\ stateFile # None /\ stateFile.pid = rec[r].pid
      \/ rec' = [rec EXCEPT ![r].pc = "ended"]
  <2>1. CASE stateFile # None /\ Clears(stateFile, r)
    <3>1. rec' = [rec EXCEPT ![r].pc = "unlink"]  BY <2>1 DEF _clear_state
    <3>. QED BY <2>1, <3>1 DEF Clears
  <2>2. CASE ~(stateFile # None /\ Clears(stateFile, r))
    <3>1. rec' = [rec EXCEPT ![r].pc = "ended"]  BY <2>2 DEF _clear_state
    <3>. QED BY <3>1
  <2>. QED BY <2>1, <2>2
<1>3. troubles' \in Nat /\ proc' \in [Pids -> {"free", "recording", "asked", "zombie", "other"}]
  BY <1>1 DEF RecorderInv, RecorderTyped
<1>4. rec[r].pid # 0 => proc'[rec[r].pid] \in {"free", "other"}  BY <1>1 DEF RecorderInv, Numbers
<1>5. CASE rec' = [rec EXCEPT ![r].pc = "unlink"] /\ stateFile # None /\ stateFile.pid = rec[r].pid
  <2>. DEFINE d == [rec[r] EXCEPT !.pc = "unlink"]
  <2>1. d \in DictationRec  BY <1>1, RecordChanged, "unlink" \in DictatePc DEF DictatePc
  <2>2. rec' = [rec EXCEPT ![r] = d]  BY <1>1, <1>5 DEF RecorderInv, RecorderTyped, DictationRec
  <2>3. d.pc = "unlink" /\ d.pid = rec[r].pid /\ d.alone = rec[r].alone /\ d.mark = rec[r].mark /\ d.out = "none"
    BY <1>1 DEF DictationRec, RecorderInv, MarkedIsDropped
  <2>. HIDE DEF d
  <2>4. Only(r, d)  BY <2>1, <2>2 DEF Only, RecorderInv, RecorderTyped
  <2>5. r \in marked => d.mark  BY <1>1, <2>3 DEF RecorderInv, MarkedIsDropped
  <2>. QED BY <1>1, <1>3, <1>4, <1>5, <2>3, <2>4, <2>5, Moved
<1>6. CASE rec' = [rec EXCEPT ![r].pc = "ended"]
  <2>. DEFINE d == [rec[r] EXCEPT !.pc = "ended"]
  <2>1. d \in DictationRec  BY <1>1, RecordChanged, "ended" \in DictatePc DEF DictatePc
  <2>2. rec' = [rec EXCEPT ![r] = d]  BY <1>1, <1>6 DEF RecorderInv, RecorderTyped, DictationRec
  <2>3. d.pc = "ended" /\ d.pid = rec[r].pid /\ d.alone = rec[r].alone /\ d.mark = rec[r].mark /\ d.out = "none"
    BY <1>1 DEF DictationRec, RecorderInv, MarkedIsDropped
  <2>. HIDE DEF d
  <2>4. Only(r, d)  BY <2>1, <2>2 DEF Only, RecorderInv, RecorderTyped
  <2>5. r \in marked => d.mark  BY <1>1, <2>3 DEF RecorderInv, MarkedIsDropped
  <2>. QED BY <1>1, <1>3, <1>4, <2>3, <2>4, <2>5, Moved
<1>. QED BY <1>2, <1>5, <1>6

LEMMA UnlinkKeeps == ASSUME RecorderInv, NEW r \in Dictations, unlink(r) PROVE RecorderInv'
<1>. DEFINE d == [rec[r] EXCEPT !.pc = "ended"]
<1>1. /\ rec[r] \in DictationRec /\ rec[r].pc = "unlink"
      /\ UNCHANGED <<stop, proc, marked, struck, troubles>>
  BY DEF unlink, RecorderInv, RecorderTyped
<1>2. d \in DictationRec  BY <1>1, RecordChanged, "ended" \in DictatePc DEF DictatePc
<1>3. rec' = [rec EXCEPT ![r] = d]  BY <1>1 DEF unlink, RecorderInv, RecorderTyped, DictationRec
<1>4. d.pc = "ended" /\ d.pid = rec[r].pid /\ d.alone = rec[r].alone /\ d.mark = rec[r].mark /\ d.out = "none"
  BY <1>1 DEF DictationRec, RecorderInv, MarkedIsDropped
<1>. HIDE DEF d
<1>5. Only(r, d)  BY <1>2, <1>3 DEF Only, RecorderInv, RecorderTyped
<1>6. stateFile' = None  BY DEF unlink
<1>7. \A o \in Dictations : rec'[o].pid = rec[o].pid /\ rec'[o].alone = rec[o].alone /\ (rec'[o].pc = rec[o].pc \/ o = r)
  BY <1>4, <1>5 DEF Only
<1>8. RecorderTyped'  BY <1>1, <1>5, <1>6 DEF RecorderTyped, RecorderInv, Only
<1>9. Numbers'
  <2>1. ASSUME NEW o \in Dictations
        PROVE  /\ rec'[o].pid # 0 => rec'[o].pid \in Pids
               /\ rec'[o].pc \in {"off", "folder"} => rec'[o].pid = 0
               /\ rec'[o].pc \in {"spawned", "waiting"} => rec'[o].pid # 0 /\ proc'[rec'[o].pid] \in {"recording", "asked", "zombie"}
               /\ rec'[o].pc \in {"clear", "unlink", "ended", "transcribe", "done"} /\ rec'[o].pid # 0 => proc'[rec'[o].pid] \in {"free", "other"}
    <3>1. CASE o = r  BY <1>1, <1>4, <1>5, <3>1 DEF Only, Numbers, RecorderInv
    <3>2. CASE o # r
      <4>1. rec'[o] = rec[o]  BY <1>5, <3>2 DEF Only
      <4>. QED BY <1>1, <4>1 DEF Numbers, RecorderInv
    <3>. QED BY <3>1, <3>2
  <2>2. \A x, o \in Dictations : rec'[x].pid # 0 /\ rec'[x].pid = rec'[o].pid => x = o
    BY <1>7 DEF Numbers, RecorderInv
  <2>3. stateFile' # None => stateFile'.pid = rec'[stateFile'.of].pid /\ stateFile'.pid # 0
    BY <1>6, <1>7 DEF Numbers, RecorderInv, RecorderTyped, StateRec
  <2>4. \A s \in Stops : stop'[s].pc \in {"look", "mark", "kill"} =>
          /\ stop'[s].of \in Dictations /\ stop'[s].pid = rec'[stop'[s].of].pid /\ stop'[s].pid # 0
          /\ stop'[s].pc # "look" => proc'[stop'[s].pid] # "other"
    BY <1>1, <1>7 DEF Numbers, RecorderInv
  <2>. QED BY <2>1, <2>2, <2>3, <2>4 DEF Numbers
<1>10. MarkedIsDropped'  BY <1>1, <1>4, <1>5 DEF MarkedIsDropped, Only, RecorderInv, RecorderTyped
<1>11. \A o \in Dictations : Beginning(o)' => Beginning(o)
  BY <1>4, <1>5, <1>7 DEF Beginning, Only
<1>13. ASSUME NEW o \in Dictations, rec'[o].alone = TRUE, rec'[o].pc = "waiting", proc'[rec'[o].pid] = "recording" PROVE FALSE
  <2>1. rec[o].pc = "waiting" /\ proc[rec[o].pid] = "recording" /\ rec[o].alone = TRUE
    BY <1>1, <1>4, <1>5, <1>7, <1>13 DEF Only
  <2>. QED BY <1>1, <2>1 DEF NoneRemoves, RecorderInv
<1>14. NoneRemoves'  BY <1>13 DEF NoneRemoves
<1>12. AloneRules'
  <2>1. ASSUME NEW o \in Dictations, rec'[o].alone = TRUE, Beginning(o)', NEW x \in Dictations \ {o} PROVE ~Beginning(x)'
    BY <1>7, <1>11, <2>1 DEF AloneRules, RecorderInv
  <2>2. ASSUME NEW o \in Dictations, rec'[o].alone = TRUE, rec'[o].pc = "waiting", proc'[rec'[o].pid] = "recording" PROVE FALSE
    BY <1>13, <2>2
  <2>. QED BY <2>1, <2>2 DEF AloneRules
<1>. QED BY <1>1, <1>8, <1>9, <1>10, <1>12, <1>14 DEF RecorderInv

LEMMA NumberUsedAgainKeeps == ASSUME RecorderInv, NEW p \in Pids, NumberUsedAgain(p) PROVE RecorderInv'
<1>1. UNCHANGED <<rec, stop, stateFile, marked, struck>> /\ troubles' \in Nat
  BY DEF NumberUsedAgain, Trouble, RecorderInv, RecorderTyped
<1>2. /\ proc' \in [Pids -> {"free", "recording", "asked", "zombie", "other"}] /\ proc[p] = "free" /\ proc'[p] = "other"
      /\ \A q \in Pids \ {p} : proc'[q] = proc[q]
  BY DEF NumberUsedAgain, RecorderInv, RecorderTyped
<1>3. RecorderTyped'  BY <1>1, <1>2 DEF RecorderTyped, RecorderInv
<1>4. Numbers'
  <2>1. ASSUME NEW o \in Dictations
        PROVE  /\ rec'[o].pid # 0 => rec'[o].pid \in Pids
               /\ rec'[o].pc \in {"off", "folder"} => rec'[o].pid = 0
               /\ rec'[o].pc \in {"spawned", "waiting"} => rec'[o].pid # 0 /\ proc'[rec'[o].pid] \in {"recording", "asked", "zombie"}
               /\ rec'[o].pc \in {"clear", "unlink", "ended", "transcribe", "done"} /\ rec'[o].pid # 0 => proc'[rec'[o].pid] \in {"free", "other"}
    BY <1>1, <1>2 DEF Numbers, RecorderInv
  <2>2. \A s \in Stops : stop'[s].pc \in {"look", "mark", "kill"} =>
          /\ stop'[s].of \in Dictations /\ stop'[s].pid = rec'[stop'[s].of].pid /\ stop'[s].pid # 0
          /\ stop'[s].pc # "look" => proc'[stop'[s].pid] # "other"
    BY <1>1 DEF NumberUsedAgain, Numbers, RecorderInv
  <2>3. /\ \A x, o \in Dictations : rec'[x].pid # 0 /\ rec'[x].pid = rec'[o].pid => x = o
        /\ stateFile' # None => stateFile'.pid = rec'[stateFile'.of].pid /\ stateFile'.pid # 0
    BY <1>1 DEF Numbers, RecorderInv
  <2>. QED BY <2>1, <2>2, <2>3 DEF Numbers
<1>5. MarkedIsDropped' /\ struck' = {}  BY <1>1 DEF MarkedIsDropped, RecorderInv
<1>6. \A o \in Dictations : rec[o].pc = "waiting" /\ proc'[rec[o].pid] = "recording" => proc[rec[o].pid] = "recording"
  BY <1>2 DEF Numbers, RecorderInv
<1>7. AloneRules' /\ NoneRemoves'  BY <1>1, <1>6 DEF AloneRules, NoneRemoves, Beginning, RecorderInv
<1>. QED BY <1>3, <1>4, <1>5, <1>7 DEF RecorderInv

\* A step of stt_stop s that leaves the dictations alone.
LEMMA StopMoved ==
    ASSUME RecorderInv, NEW s \in Stops, NEW d \in StopRec, stop' = [stop EXCEPT ![s] = d],
           UNCHANGED <<rec, stateFile, proc, marked, struck, troubles>>,
           d.pc \in {"look", "mark", "kill"} =>
               /\ d.of \in Dictations /\ d.pid = rec[d.of].pid /\ d.pid # 0
               /\ d.pc # "look" => proc[d.pid] # "other"
    PROVE  RecorderInv'
<1>1. stop' \in [Stops -> StopRec] /\ stop'[s] = d /\ \A z \in Stops \ {s} : stop'[z] = stop[z]
  BY DEF RecorderInv, RecorderTyped
<1>2. RecorderTyped'  BY <1>1 DEF RecorderInv, RecorderTyped
<1>3. Numbers'
  <2>1. ASSUME NEW z \in Stops, stop'[z].pc \in {"look", "mark", "kill"}
        PROVE  /\ stop'[z].of \in Dictations /\ stop'[z].pid = rec[stop'[z].of].pid /\ stop'[z].pid # 0
               /\ stop'[z].pc # "look" => proc[stop'[z].pid] # "other"
    BY <1>1, <2>1 DEF Numbers, RecorderInv
  <2>2. /\ \A o \in Dictations :
              /\ rec'[o].pid # 0 => rec'[o].pid \in Pids
              /\ rec'[o].pc \in {"off", "folder"} => rec'[o].pid = 0
              /\ rec'[o].pc \in {"spawned", "waiting"} => rec'[o].pid # 0 /\ proc'[rec'[o].pid] \in {"recording", "asked", "zombie"}
              /\ rec'[o].pc \in {"clear", "unlink", "ended", "transcribe", "done"} /\ rec'[o].pid # 0 => proc'[rec'[o].pid] \in {"free", "other"}
        /\ \A x, o \in Dictations : rec'[x].pid # 0 /\ rec'[x].pid = rec'[o].pid => x = o
        /\ stateFile' # None => stateFile'.pid = rec'[stateFile'.of].pid /\ stateFile'.pid # 0
    BY DEF Numbers, RecorderInv
  <2>. QED BY <2>1, <2>2 DEF Numbers
<1>4. MarkedIsDropped' /\ struck' = {} /\ AloneRules' /\ NoneRemoves'
  BY DEF MarkedIsDropped, AloneRules, NoneRemoves, Beginning, RecorderInv
<1>. QED BY <1>2, <1>3, <1>4 DEF RecorderInv

\* What stt_stop is after a step.
LEMMA StopChanged ==
    ASSUME NEW z \in StopRec
    PROVE  /\ \A pc \in {"off", "look", "mark", "kill", "done"}, out \in {"none", "not recording", "error", "stopping"} :
                  [z EXCEPT !.pc = pc, !.out = out] \in StopRec
           /\ \A pc \in {"off", "look", "mark", "kill", "done"} : [z EXCEPT !.pc = pc] \in StopRec
BY DEF StopRec

LEMMA AskedIs ==
    ASSUME RecorderTyped, NEW s \in Stops, NEW out \in {"none", "not recording", "error", "stopping"}, stop' = Asked(s, out)
    PROVE  \E d \in StopRec : d.pc = "done" /\ stop' = [stop EXCEPT ![s] = d]
<1>. DEFINE d == [stop[s] EXCEPT !.pc = "done", !.out = out]
<1>1. stop[s] \in StopRec  BY DEF RecorderTyped
<1>2. d \in StopRec  BY <1>1, StopChanged
<1>3. stop' = [stop EXCEPT ![s] = d] /\ d.pc = "done"  BY <1>1 DEF Asked, RecorderTyped, StopRec
<1>. QED BY <1>2, <1>3

LEMMA StopReadsKeeps == ASSUME RecorderInv, NEW s \in Stops, NEW cancel \in BOOLEAN, StopReads(s, cancel) PROVE RecorderInv'
<1>1. UNCHANGED <<rec, stateFile, proc, marked, struck, troubles>>  BY DEF StopReads
<1>2. CASE read_state = None
  <2>1. stop' = Asked(s, "not recording")  BY <1>2 DEF StopReads
  <2>2. PICK d \in StopRec : d.pc = "done" /\ stop' = [stop EXCEPT ![s] = d]  BY <2>1, AskedIs DEF RecorderInv
  <2>. QED BY <1>1, <2>2, StopMoved
<1>3. CASE read_state # None
  <2>1. read_state = stateFile /\ stateFile # None /\ stateFile \in StateRec  BY <1>3 DEF read_state, RecorderInv, RecorderTyped
  <2>. DEFINE d == [pc |-> "look", cancel |-> cancel, pid |-> stateFile.pid, of |-> stateFile.of, out |-> "none"]
  <2>2. stop' = [stop EXCEPT ![s] = d]  BY <1>3, <2>1 DEF StopReads
  <2>3. d \in StopRec  BY <2>1 DEF StopRec, StateRec
  <2>4. d.pc = "look" /\ d.of \in Dictations /\ d.pid = rec[d.of].pid /\ d.pid # 0
    BY <2>1 DEF Numbers, RecorderInv, StateRec
  <2>. HIDE DEF d
  <2>. QED BY <1>1, <2>2, <2>3, <2>4, StopMoved
<1>. QED BY <1>2, <1>3

LEMMA StopLooksKeeps == ASSUME RecorderInv, NEW s \in Stops, StopLooks(s) PROVE RecorderInv'
<1>1. /\ UNCHANGED <<rec, stateFile, proc, marked, struck, troubles>> /\ stop[s] \in StopRec
      /\ stop[s].of \in Dictations /\ stop[s].pid = rec[stop[s].of].pid /\ stop[s].pid # 0
  BY DEF StopLooks, RecorderInv, RecorderTyped, Numbers
<1>2. CASE ~Ours(s)
  <2>1. stop' = Asked(s, "not recording")  BY <1>2 DEF StopLooks
  <2>2. PICK d \in StopRec : d.pc = "done" /\ stop' = [stop EXCEPT ![s] = d]  BY <2>1, AskedIs DEF RecorderInv
  <2>. QED BY <1>1, <2>2, StopMoved
<1>3. CASE Ours(s)
  <2>1. PICK pc \in {"mark", "kill"} : stop' = [stop EXCEPT ![s].pc = pc]  BY <1>3 DEF StopLooks
  <2>. DEFINE d == [stop[s] EXCEPT !.pc = pc]
  <2>2. d \in StopRec  BY <1>1, StopChanged
  <2>3. stop' = [stop EXCEPT ![s] = d] /\ d.pc = pc /\ d.of = stop[s].of /\ d.pid = stop[s].pid
    BY <1>1, <2>1 DEF RecorderInv, RecorderTyped, StopRec
  <2>4. proc[stop[s].pid] # "other"  BY <1>3 DEF Ours
  <2>. HIDE DEF d
  <2>. QED BY <1>1, <2>2, <2>3, <2>4, StopMoved
<1>. QED BY <1>2, <1>3

LEMMA StopMarksKeeps == ASSUME RecorderInv, NEW s \in Stops, StopMarks(s) PROVE RecorderInv'
<1>. DEFINE r == stop[s].of
<1>1. /\ UNCHANGED <<stateFile, proc, struck, troubles>> /\ stop[s] \in StopRec
      /\ r \in Dictations /\ stop[s].pid = rec[r].pid /\ stop[s].pid # 0 /\ proc[stop[s].pid] # "other"
  BY DEF StopMarks, RecorderInv, RecorderTyped, Numbers
<1>2. CASE ~rec[r].folder
  <2>1. stop' = Asked(s, "error") /\ UNCHANGED <<rec, marked>>  BY <1>2 DEF StopMarks
  <2>2. PICK d \in StopRec : d.pc = "done" /\ stop' = [stop EXCEPT ![s] = d]  BY <2>1, AskedIs DEF RecorderInv
  <2>. QED BY <1>1, <2>1, <2>2, StopMoved
<1>3. CASE rec[r].folder
  <2>. DEFINE d == [rec[r] EXCEPT !.mark = TRUE]
              c == [stop[s] EXCEPT !.pc = "kill"]
  <2>1. rec' = [rec EXCEPT ![r].mark = TRUE] /\ stop' = [stop EXCEPT ![s].pc = "kill"]
        /\ marked' = IF proc[rec[r].pid] \in {"recording", "asked"} THEN marked \cup {r} ELSE marked
    BY <1>3 DEF StopMarks
  <2>2. rec[r] \in DictationRec  BY <1>1 DEF RecorderInv, RecorderTyped
  <2>3. d \in DictationRec  BY <2>2, RecordChanged
  <2>4. d.pc = rec[r].pc /\ d.pid = rec[r].pid /\ d.alone = rec[r].alone /\ d.mark = TRUE /\ d.out = rec[r].out
    BY <2>2 DEF DictationRec
  <2>5. c \in StopRec /\ c.pc = "kill" /\ c.of = r /\ c.pid = stop[s].pid
    <3>1. c \in StopRec  BY <1>1, StopChanged
    <3>. QED BY <1>1, <3>1 DEF StopRec
  <2>6. rec' = [rec EXCEPT ![r] = d]  BY <1>1, <2>1, <2>2 DEF RecorderInv, RecorderTyped, DictationRec
  <2>7. stop' = [stop EXCEPT ![s] = c]  BY <1>1, <2>1 DEF RecorderInv, RecorderTyped, StopRec
  <2>. HIDE DEF c, d
  <2>8. Only(r, d)  BY <1>1, <2>3, <2>6 DEF Only, RecorderInv, RecorderTyped
  <2>9. stop' \in [Stops -> StopRec] /\ stop'[s] = c /\ \A z \in Stops \ {s} : stop'[z] = stop[z]
    BY <2>5, <2>7 DEF RecorderInv, RecorderTyped
  <2>. HIDE DEF r
  <2>10. \A o \in Dictations : /\ rec'[o].pid = rec[o].pid /\ rec'[o].pc = rec[o].pc /\ rec'[o].alone = rec[o].alone
                               /\ rec'[o].out = rec[o].out /\ (o # r => rec'[o].mark = rec[o].mark)
    BY <2>4, <2>8 DEF Only
  <2>11. RecorderTyped'  BY <1>1, <2>1, <2>8, <2>9 DEF RecorderTyped, RecorderInv, Only
  <2>12. Numbers'
    <3>1. \A o \in Dictations :
              /\ rec'[o].pid # 0 => rec'[o].pid \in Pids
              /\ rec'[o].pc \in {"off", "folder"} => rec'[o].pid = 0
              /\ rec'[o].pc \in {"spawned", "waiting"} => rec'[o].pid # 0 /\ proc'[rec'[o].pid] \in {"recording", "asked", "zombie"}
              /\ rec'[o].pc \in {"clear", "unlink", "ended", "transcribe", "done"} /\ rec'[o].pid # 0 => proc'[rec'[o].pid] \in {"free", "other"}
      BY <1>1, <2>10 DEF Numbers, RecorderInv
    <3>2. \A x, o \in Dictations : rec'[x].pid # 0 /\ rec'[x].pid = rec'[o].pid => x = o
      BY <2>10 DEF Numbers, RecorderInv
    <3>3. stateFile' # None => stateFile'.pid = rec'[stateFile'.of].pid /\ stateFile'.pid # 0
      BY <1>1, <2>10 DEF Numbers, RecorderInv, RecorderTyped, StateRec
    <3>4. ASSUME NEW z \in Stops, stop'[z].pc \in {"look", "mark", "kill"}
          PROVE  /\ stop'[z].of \in Dictations /\ stop'[z].pid = rec'[stop'[z].of].pid /\ stop'[z].pid # 0
                 /\ stop'[z].pc # "look" => proc'[stop'[z].pid] # "other"
      <4>1. CASE z = s  BY <1>1, <2>5, <2>9, <2>10, <4>1
      <4>2. CASE z # s
        <5>1. stop'[z] = stop[z]  BY <2>9, <4>2
        <5>. QED BY <1>1, <2>10, <3>4, <5>1 DEF Numbers, RecorderInv
      <4>. QED BY <4>1, <4>2
    <3>. QED BY <3>1, <3>2, <3>3, <3>4 DEF Numbers
  <2>13. MarkedIsDropped'
    <3>1. rec'[r].mark = TRUE  BY <2>4, <2>8 DEF Only
    <3>2. proc[rec[r].pid] \in {"recording", "asked"} => rec[r].pc \in {"spawned", "waiting", "killed"}
      <4>1. rec[r].pc \in DictatePc /\ rec[r].pid # 0  BY <1>1, <2>2 DEF DictationRec
      <4>. QED BY <1>1, <4>1 DEF Numbers, RecorderInv, DictatePc
    <3>. QED BY <2>1, <2>10, <3>1, <3>2 DEF MarkedIsDropped, RecorderInv, RecorderTyped
  <2>14. AloneRules'
    <3>1. \A o \in Dictations : Beginning(o)' <=> Beginning(o)  BY <2>10 DEF Beginning
    <3>. QED BY <1>1, <2>10, <3>1 DEF AloneRules, RecorderInv
  <2>15. NoneRemoves'  BY <1>1, <2>10 DEF NoneRemoves, RecorderInv
  <2>. QED BY <1>1, <2>11, <2>12, <2>13, <2>14, <2>15 DEF RecorderInv
<1>. QED BY <1>2, <1>3

LEMMA StopKillsKeeps == ASSUME RecorderInv, NEW s \in Stops, StopKills(s) PROVE RecorderInv'
<1>. DEFINE p == stop[s].pid
<1>1. /\ UNCHANGED <<rec, stateFile, marked, troubles>> /\ stop[s].pc = "kill"
      /\ stop[s].of \in Dictations /\ p = rec[stop[s].of].pid /\ p # 0 /\ proc[p] # "other" /\ p \in Pids
  BY DEF StopKills, RecorderInv, Numbers
<1>2. struck' = {}  BY <1>1 DEF StopKills, RecorderInv
<1>3. PICK d \in StopRec : d.pc = "done" /\ stop' = [stop EXCEPT ![s] = d]
  BY AskedIs DEF StopKills, RecorderInv
<1>4. stop' \in [Stops -> StopRec] /\ stop'[s] = d /\ \A z \in Stops \ {s} : stop'[z] = stop[z]
  BY <1>3 DEF RecorderInv, RecorderTyped
<1>5. /\ proc' \in [Pids -> {"free", "recording", "asked", "zombie", "other"}]
      /\ \A q \in Pids : proc'[q] = proc[q] \/ (proc[q] = "recording" /\ proc'[q] = "asked")
  BY <1>1 DEF StopKills, RecorderInv, RecorderTyped
<1>6. RecorderTyped'  BY <1>1, <1>4, <1>5 DEF RecorderTyped, RecorderInv
<1>7. Numbers'
  <2>1. ASSUME NEW o \in Dictations
        PROVE  /\ rec'[o].pid # 0 => rec'[o].pid \in Pids
               /\ rec'[o].pc \in {"off", "folder"} => rec'[o].pid = 0
               /\ rec'[o].pc \in {"spawned", "waiting"} => rec'[o].pid # 0 /\ proc'[rec'[o].pid] \in {"recording", "asked", "zombie"}
               /\ rec'[o].pc \in {"clear", "unlink", "ended", "transcribe", "done"} /\ rec'[o].pid # 0 => proc'[rec'[o].pid] \in {"free", "other"}
    BY <1>1, <1>5 DEF Numbers, RecorderInv
  <2>2. ASSUME NEW z \in Stops, stop'[z].pc \in {"look", "mark", "kill"}
        PROVE  /\ stop'[z].of \in Dictations /\ stop'[z].pid = rec[stop'[z].of].pid /\ stop'[z].pid # 0
               /\ stop'[z].pc # "look" => proc'[stop'[z].pid] # "other"
    <3>1. z # s /\ stop'[z] = stop[z]  BY <1>3, <1>4, <2>2
    <3>2. /\ stop[z].of \in Dictations /\ stop[z].pid = rec[stop[z].of].pid /\ stop[z].pid # 0
          /\ stop[z].pc # "look" => proc[stop[z].pid] # "other"
      BY <2>2, <3>1 DEF Numbers, RecorderInv
    <3>3. stop[z].pid \in Pids  BY <3>2 DEF Numbers, RecorderInv
    <3>. QED BY <1>5, <3>1, <3>2, <3>3
  <2>3. /\ \A x, o \in Dictations : rec'[x].pid # 0 /\ rec'[x].pid = rec'[o].pid => x = o
        /\ stateFile' # None => stateFile'.pid = rec'[stateFile'.of].pid /\ stateFile'.pid # 0
    BY <1>1 DEF Numbers, RecorderInv
  <2>. QED BY <1>1, <2>1, <2>2, <2>3 DEF Numbers
<1>8. \A o \in Dictations : rec[o].pc = "waiting" /\ proc'[rec[o].pid] = "recording" => proc[rec[o].pid] = "recording"
  BY <1>5 DEF Numbers, RecorderInv
<1>9. MarkedIsDropped' /\ AloneRules' /\ NoneRemoves'
  BY <1>1, <1>8 DEF MarkedIsDropped, AloneRules, NoneRemoves, Beginning, RecorderInv
<1>. QED BY <1>2, <1>6, <1>7, <1>9 DEF RecorderInv

LEMMA RecorderStarts == RecorderInit => RecorderInv
<1>. SUFFICES ASSUME RecorderInit PROVE RecorderInv  OBVIOUS
<1>1. Idle \in DictationRec /\ Idle.pc = "off" /\ Idle.pid = 0 /\ Idle.out = "none"
  BY DEF Idle, DictationRec, DictatePc, Recordings, Outcomes
<1>2. rec \in [Dictations -> DictationRec] /\ \A o \in Dictations : rec[o].pc = "off" /\ rec[o].pid = 0 /\ rec[o].out = "none"
  <2>. HIDE DEF Idle
  <2>. QED BY <1>1 DEF RecorderInit
<1>3. stop \in [Stops -> StopRec] /\ \A s \in Stops : stop[s].pc = "off"  BY DEF RecorderInit, StopRec
<1>4. RecorderTyped  BY <1>2, <1>3, RecorderAssumption DEF RecorderInit, RecorderTyped
<1>5. Numbers /\ MarkedIsDropped /\ struck = {} /\ AloneRules /\ NoneRemoves
  BY <1>2, <1>3 DEF RecorderInit, Numbers, MarkedIsDropped, AloneRules, NoneRemoves, Beginning
<1>. QED BY <1>4, <1>5 DEF RecorderInv

LEMMA RecorderStep == RecorderInv /\ [RecorderNext]_recorderVars => RecorderInv'
<1>. SUFFICES ASSUME RecorderInv, [RecorderNext]_recorderVars PROVE RecorderInv'  OBVIOUS
<1>1. ASSUME NEW r \in Dictations, DictateStep(r) PROVE RecorderInv'
  BY <1>1, BeginKeeps, PopenKeeps, WriteStateKeeps, LimitKeeps, RecorderEndsKeeps, WaitKeeps, ClearStateKeeps, UnlinkKeeps, LooksKeeps,
     TranscribeKeeps, DictateKilledKeeps DEF DictateStep
<1>2. ASSUME NEW s \in Stops, StopStep(s) PROVE RecorderInv'
  BY <1>2, StopReadsKeeps, StopLooksKeeps, StopMarksKeeps, StopKillsKeeps DEF StopStep
<1>3. ASSUME UNCHANGED recorderVars PROVE RecorderInv'
  BY <1>3 DEF recorderVars, RecorderInv, RecorderTyped, Numbers, MarkedIsDropped, AloneRules, NoneRemoves, Beginning
<1>. QED BY <1>1, <1>2, <1>3, NumberUsedAgainKeeps DEF RecorderNext

LEMMA RecorderInvObeys == RecorderInv => RecorderObeys
<1>. SUFFICES ASSUME RecorderInv PROVE RecorderObeys  OBVIOUS
<1>1. CancelDrops
  <2>1. ASSUME NEW r \in marked PROVE rec[r].out # "text" /\ rec[r].pc # "transcribe"
    <3>1. CASE rec[r].pc = "done"  BY <3>1 DEF RecorderInv, MarkedIsDropped
    <3>2. CASE rec[r].pc # "done"
      <4>1. r \in Dictations /\ rec[r].out = "none"  BY <3>2 DEF RecorderInv, MarkedIsDropped, RecorderTyped
      <4>2. rec[r].pc # "transcribe"  BY <3>2 DEF RecorderInv, MarkedIsDropped
      <4>. QED BY <4>1, <4>2
    <3>. QED BY <3>1, <3>2
  <2>. QED BY <2>1 DEF RecorderInv, CancelDrops
<1>2. CanBeStopped
  BY DEF RecorderInv, RecorderTyped, DictationRec, Numbers, AloneRules, CanBeStopped, read_state, _alive
<1>. QED BY <1>1, <1>2 DEF RecorderObeys

-----------------------------------------------------------------------------
(* The reader by a server keeps its part.                                  *)

LEMMA WavIs == \A w \in Wavs : /\ w[1] \in 1 .. MaxReadings /\ w[2] \in Nat \ {0} /\ w = <<w[1], w[2]>> /\ w # NoWav
BY FileSpeechAssumption DEF Wavs, NoWav

LEMMA WavOf == ASSUME NEW c \in 1 .. MaxReadings, NEW n \in Lengths, NEW k \in 1 .. n PROVE <<c, k>> \in Wavs
BY DEF Wavs

\* A sequence of one WAV, or of none.
LEMMA Single == ASSUME NEW w
                PROVE  /\ Append(<<>>, w) = <<w>> /\ Head(<<w>>) = w /\ Tail(<<w>>) = <<>> /\ Len(<<w>>) = 1 /\ <<w>> # <<>>
                       /\ Len(<<>>) = 0 /\ ToSet(<<w>>) = {w} /\ ToSet(<<>>) = {}
<1>1. ToSet(<<w>>) = {w}
  <2>1. DOMAIN <<w>> = {1} /\ <<w>>[1] = w  OBVIOUS
  <2>. QED BY <2>1 DEF ToSet
<1>2. ToSet(<<>>) = {}
  <2>1. DOMAIN <<>> = {}  OBVIOUS
  <2>. QED BY <2>1 DEF ToSet
<1>. QED BY <1>1, <1>2

LEMMA ReadySeq == ASSUME NEW w \in Wavs PROVE <<w>> \in Queues /\ <<>> \in Queues /\ w \in OneOrNone
BY DEF Queues, OneOrNone

\* The parts told are those of a text in its order, also with one more.
LEMMA ToldMore ==
    ASSUME NEW s \in Seq(Parts), NEW c \in Nat, InTurn(s, c), NEW u, u = Append(s, <<c, Len(s) + 1>>)
    PROVE  u \in Seq(Parts) /\ Len(u) = Len(s) + 1 /\ InTurn(u, c)
<1>1. Len(s) \in Nat  OBVIOUS
<1>2. u \in Seq(Parts) /\ Len(u) = Len(s) + 1  BY <1>1 DEF Parts
<1>3. ASSUME NEW i \in 1 .. Len(u) PROVE u[i] = <<c, i>>
  <2>1. CASE i = Len(s) + 1  BY <1>1, <2>1
  <2>2. CASE i # Len(s) + 1
    <3>1. i \in 1 .. Len(s)  BY <1>1, <1>2, <2>2
    <3>2. u[i] = s[i]  BY <1>1, <3>1
    <3>3. s[i] = <<c, i>>  BY <3>1 DEF InTurn
    <3>. QED BY <3>2, <3>3
  <2>. QED BY <2>1, <2>2
<1>4. DOMAIN u = 1 .. Len(u) /\ u = [i \in DOMAIN u |-> u[i]]  BY <1>2
<1>5. InTurn(u, c)  BY <1>3, <1>4 DEF InTurn
<1>. QED BY <1>2, <1>5

\* The state of a reader changed in one way or another is one.
LEMMA TalkChanged ==
    ASSUME NEW t \in Talks
    PROVE  /\ \A playing \in OneOrNone, ready \in Queues : [t EXCEPT !.playing = playing, !.ready = ready] \in Talks
           /\ \A playing \in OneOrNone : [t EXCEPT !.playing = playing] \in Talks
           /\ \A ready \in Queues : [t EXCEPT !.synthesizing = FALSE, !.ready = ready] \in Talks
           /\ \A next \in Nat : [t EXCEPT !.next = next, !.synthesizing = TRUE] \in Talks
           /\ \A chunks \in Nat : [t EXCEPT !.chunks = chunks] \in Talks
BY DEF Talks

LEMMA SilentIs == Silent \in Talks /\ Silent.chunks = 0 /\ Resting(Silent) /\ Held(Silent) = {}
<1>1. Silent \in Talks
  <2>1. <<>> \in Queues /\ NoWav \in OneOrNone  BY DEF Queues, OneOrNone
  <2>. QED BY <2>1 DEF Silent, Talks
<1>2. Silent.chunks = 0 /\ Resting(Silent)  BY DEF Silent, Resting
<1>3. Silent.ready = <<>> /\ Silent.playing = NoWav  BY DEF Silent
<1>4. ToSet(Silent.ready) = {}  BY <1>3, Single
<1>. QED BY <1>1, <1>2, <1>3, <1>4 DEF Held

\* The part that is ready plays, and the next is made, if there is one.
LEMMA PlaysNext ==
    ASSUME NEW t \in Talks, NEW k \in Nat, InOrder(t, k), ~t.synthesizing, t.ready = << <<t.reading, k + 1>> >>,
           <<t.reading, k + 1>> \in Wavs, NEW u, u = _playNext(t)
    PROVE  /\ u \in Talks /\ InOrder(u, k + 1) /\ OneAhead(u) /\ _synthesizeNext(u) = u
           /\ u.playing = <<t.reading, k + 1>> /\ u.ready = <<>> /\ u.reading = t.reading
           /\ \/ ~u.synthesizing /\ u.next = t.next
              \/ u.synthesizing /\ u.next = t.next + 1
<1>. DEFINE w == <<t.reading, k + 1>>
            v == [t EXCEPT !.playing = w, !.ready = <<>>]
<1>1. w # NoWav /\ Head(t.ready) = w /\ Tail(t.ready) = <<>> /\ t.ready # <<>> /\ Len(t.ready) = 1 /\ Len(<<>>) = 0
  BY WavIs, Single
<1>2. u = _synthesizeNext(v)  BY <1>1 DEF _playNext
<1>3. v \in Talks  BY TalkChanged, ReadySeq
<1>4. v.playing = w /\ v.ready = <<>> /\ v.reading = t.reading /\ v.next = t.next /\ v.chunks = t.chunks /\ v.synthesizing = t.synthesizing
      /\ v.next \in Nat /\ v.chunks \in Nat
  BY DEF Talks
<1>5. t.next = k + 1 /\ t.next <= t.chunks /\ t.reading = readings.count /\ t.chunks = readings.parts
  BY <1>1 DEF InOrder
<1>. HIDE DEF v
<1>6. CASE v.next >= v.chunks
  <2>1. u = v  BY <1>2, <1>6 DEF _synthesizeNext
  <2>2. /\ u.playing = w /\ u.ready = <<>> /\ u.reading = t.reading /\ u.next = k + 1 /\ u.chunks = t.chunks
        /\ u.synthesizing = FALSE
    BY <1>3, <1>4, <1>5, <2>1 DEF Talks
  <2>3. InOrder(u, k + 1)  BY <1>1, <1>5, <2>2 DEF InOrder
  <2>4. OneAhead(u)  BY <1>4, <1>6, <2>1, <2>2 DEF OneAhead
  <2>5. _synthesizeNext(u) = u  BY <1>6, <2>1 DEF _synthesizeNext
  <2>. QED BY <1>3, <1>4, <2>1, <2>2, <2>3, <2>4, <2>5
<1>7. CASE ~(v.next >= v.chunks)
  <2>1. u = [v EXCEPT !.next = @ + 1, !.synthesizing = TRUE]
    BY <1>1, <1>2, <1>4, <1>7 DEF _synthesizeNext, ahead
  <2>2. u \in Talks
    <3>1. v.next + 1 \in Nat  BY <1>4
    <3>. QED BY <1>3, <2>1, <3>1, TalkChanged
  <2>3. /\ u.next = t.next + 1 /\ u.synthesizing = TRUE /\ u.reading = t.reading /\ u.chunks = t.chunks
        /\ u.playing = w /\ u.ready = <<>>
    BY <1>3, <1>4, <2>1 DEF Talks
  <2>4. InOrder(u, k + 1) /\ OneAhead(u)
    <3>1. u.next <= u.chunks  BY <1>4, <1>5, <1>7, <2>3
    <3>2. InOrder(u, k + 1)  BY <1>1, <1>5, <2>3, <3>1 DEF InOrder
    <3>. QED BY <2>3, <3>2 DEF OneAhead
  <2>5. _synthesizeNext(u) = u  BY <2>3 DEF _synthesizeNext
  <2>. QED BY <2>2, <2>3, <2>4, <2>5
<1>. QED BY <1>6, <1>7

\* The WAVs whose helpers are at work.
AtWork(makers) == {v \in Wavs : makers[v] \notin {"off", "done"}}

\* Asking a helper makes it work, and no other.
LEMMA AskingIs ==
    ASSUME NEW t, NEW makers \in [Wavs -> MakerPc], NEW c \in Nat,
           t.reading = c,
           \A v \in Wavs : v[1] > c \/ (v[1] = c /\ v[2] > t.next) => makers[v] = "off",
           \A v \in AtWork(makers) : v[1] = c => t.synthesizing /\ v[2] = t.next,
           t.synthesizing => <<c, t.next>> \in Wavs /\ makers[<<c, t.next>>] # "done",
           NEW asking, asking = Asking(t, makers)
    PROVE  /\ asking \in [Wavs -> MakerPc] /\ AtWork(makers) \subseteq AtWork(asking)
           /\ \A v \in Wavs : v[1] > c \/ (v[1] = c /\ v[2] > t.next) => asking[v] = "off"
           /\ \A v \in AtWork(asking) : v[1] = c => t.synthesizing /\ v[2] = t.next
           /\ t.synthesizing => <<c, t.next>> \in AtWork(asking)
           /\ \A v \in Wavs : asking[v] = "bad" => makers[v] = "bad"
<1>. DEFINE w == <<c, t.next>>
<1>1. \A v \in Wavs : asking[v] = IF t.synthesizing /\ v = w /\ makers[v] = "off" THEN "asked" ELSE makers[v]
  BY DEF Asking
<1>2. asking \in [Wavs -> MakerPc]  BY DEF Asking, MakerPc
<1>3. \A v \in Wavs : v = <<v[1], v[2]>> /\ v[1] \in Nat /\ v[2] \in Nat  BY WavIs
<1>4. w[1] = c /\ w[2] = t.next  OBVIOUS
<1>5. ASSUME t.synthesizing PROVE t.next \in Nat  BY <1>3, <1>4, <1>5
<1>. HIDE DEF w
<1>6. AtWork(makers) \subseteq AtWork(asking)  BY <1>1 DEF AtWork
<1>7. ASSUME NEW v \in Wavs, v[1] > c \/ (v[1] = c /\ v[2] > t.next) PROVE asking[v] = "off"
  <2>1. v # w \/ ~t.synthesizing  BY <1>3, <1>4, <1>5, <1>7
  <2>. QED BY <1>1, <1>7, <2>1
<1>8. ASSUME NEW v \in AtWork(asking), v[1] = c PROVE t.synthesizing /\ v[2] = t.next
  <2>1. CASE v \in AtWork(makers)  BY <1>8, <2>1
  <2>2. CASE v \notin AtWork(makers)  BY <1>1, <1>4, <2>2 DEF AtWork
  <2>. QED BY <2>1, <2>2
<1>9. t.synthesizing => w \in AtWork(asking)
  <2>. SUFFICES ASSUME t.synthesizing PROVE w \in AtWork(asking)  OBVIOUS
  <2>1. w \in Wavs /\ makers[w] # "done"  BY DEF w
  <2>. QED BY <1>1, <2>1 DEF AtWork
<1>10. \A v \in Wavs : asking[v] = "bad" => makers[v] = "bad"  BY <1>1
<1>. QED BY <1>2, <1>6, <1>7, <1>8, <1>9, <1>10 DEF w

LEMMA GoesOnKeeps ==
    ASSUME ReaderInv, NEW t \in Talks, NEW makers \in [Wavs -> MakerPc], NEW gone, NEW k \in Nat,
           talk.chunks # 0, InOrder(t, k), OneAhead(t),
           \/ t.playing \notin {talk.playing, NoWav} /\ k = Len(told) + 1
           \/ t.playing \in {talk.playing, NoWav} /\ k = Len(told),
           \A v \in Wavs : v[1] > readings.count \/ (v[1] = readings.count /\ v[2] > t.next) => makers[v] = "off",
           \A v \in AtWork(makers) : v[1] = readings.count => t.synthesizing /\ v[2] = t.next,
           t.synthesizing => <<readings.count, t.next>> \in Wavs /\ makers[<<readings.count, t.next>>] # "done",
           \A v \in Wavs : makers[v] = "bad" => maker[v] = "bad",
           files \subseteq AtWork(makers) \cup Held(t) \cup gone \cup removals \cup left,
           GoesOn(t, makers, gone), UNCHANGED <<files, readings, left>>
    PROVE  ReaderInv'
<1>. DEFINE asking == Asking(t, makers)
<1>1. /\ readings.count \in Nat /\ readings.count # 0 /\ readings.parts \in Lengths /\ readings.parts \in Nat /\ readings.parts # 0
      /\ t.reading = readings.count /\ t.chunks = readings.parts /\ t.next \in Nat /\ t.next <= t.chunks
      /\ phase # "" /\ Len(told) \in Nat
  <2>1. readings \in [count : 0 .. MaxReadings, parts : Nat] /\ told \in Seq(Parts)  BY DEF ReaderInv, ReaderTyped
  <2>3. readings.count \in Nat  BY <2>1, FileSpeechAssumption
  <2>4. t.next \in Nat  BY DEF Talks
  <2>5. t.reading = readings.count /\ t.chunks = readings.parts /\ t.next <= t.chunks  BY DEF InOrder
  <2>2. readings.parts \in Lengths /\ readings.count # 0 /\ phase # ""  BY DEF ReaderInv, Course
  <2>6. readings.parts \in Nat /\ readings.parts # 0  BY <2>2, FileSpeechAssumption
  <2>7. Len(told) \in Nat  BY <2>1
  <2>. QED BY <2>2, <2>3, <2>4, <2>5, <2>6, <2>7
<1>0. asking = Asking(t, makers)  OBVIOUS
<1>. HIDE DEF asking
<1>2. /\ asking \in [Wavs -> MakerPc] /\ AtWork(makers) \subseteq AtWork(asking)
      /\ \A v \in Wavs : v[1] > readings.count \/ (v[1] = readings.count /\ v[2] > t.next) => asking[v] = "off"
      /\ \A v \in AtWork(asking) : v[1] = readings.count => t.synthesizing /\ v[2] = t.next
      /\ t.synthesizing => <<readings.count, t.next>> \in AtWork(asking)
      /\ \A v \in Wavs : asking[v] = "bad" => makers[v] = "bad"
  <2>. DEFINE c == readings.count
  <2>1. /\ c \in Nat /\ t.reading = c
        /\ \A v \in Wavs : v[1] > c \/ (v[1] = c /\ v[2] > t.next) => makers[v] = "off"
        /\ \A v \in AtWork(makers) : v[1] = c => t.synthesizing /\ v[2] = t.next
        /\ t.synthesizing => <<c, t.next>> \in Wavs /\ makers[<<c, t.next>>] # "done"
    BY <1>1
  <2>. HIDE DEF c
  <2>2. /\ asking \in [Wavs -> MakerPc] /\ AtWork(makers) \subseteq AtWork(asking)
        /\ \A v \in Wavs : v[1] > c \/ (v[1] = c /\ v[2] > t.next) => asking[v] = "off"
        /\ \A v \in AtWork(asking) : v[1] = c => t.synthesizing /\ v[2] = t.next
        /\ t.synthesizing => <<c, t.next>> \in AtWork(asking)
        /\ \A v \in Wavs : asking[v] = "bad" => makers[v] = "bad"
    BY <1>0, <2>1, AskingIs
  <2>. QED BY <2>2 DEF c
<1>3. \A v \in Wavs : maker[v] = "bad" => v \notin files \/ v \in left  BY DEF ReaderInv, Makers
<1>4. CASE asking # makers /\ Mishap /\ talk' = Silent /\ sound' = "silent" /\ phase' = "" /\ maker' = makers
           /\ removals' = removals \cup gone \cup Held(t) /\ UNCHANGED <<told, finished>>
  <2>1. ReaderTyped'
    <3>0. mishaps \in Nat /\ Mishap  BY <1>4 DEF ReaderInv, ReaderTyped
    <3>1. mishaps' \in Nat  BY ONLY <3>0 DEF Mishap
    <3>2. talk' \in Talks  BY <1>4, SilentIs
    <3>. QED BY <1>4, <3>1, <3>2 DEF ReaderInv, ReaderTyped
  <2>2. Course'  BY <1>4, SilentIs DEF ReaderInv, Course, Resting
  <2>3. Makers'
    <3>1. Silent.reading = 0 /\ Silent.synthesizing = FALSE  BY DEF Silent
    <3>2. \A v \in Wavs : v[1] # 0  BY WavIs
    <3>. QED BY <1>3, <1>4, <3>1, <3>2, SilentIs DEF Makers, Working
  <2>4. NothingLeft'
    <3>1. Working' = AtWork(makers)  BY <1>4 DEF Working, AtWork
    <3>. QED BY <1>4, <3>1 DEF NothingLeft
  <2>. QED BY <2>1, <2>2, <2>3, <2>4 DEF ReaderInv
<1>5. CASE /\ talk' = IF AtTheEnd(t) THEN [t EXCEPT !.chunks = 0] ELSE t
           /\ finished' = AtTheEnd(t)
           /\ maker' = asking
           /\ removals' = removals \cup gone
           /\ IF t.playing \notin {talk.playing, NoWav}
              THEN /\ told' = Append(told, t.playing) /\ sound' = "playing"
                   /\ phase' = IF phase = "synthesizing" THEN "playing" ELSE phase
              ELSE /\ UNCHANGED told
                   /\ sound' = IF t.playing = NoWav THEN "silent" ELSE sound
                   /\ phase' = IF AtTheEnd(t) THEN "" ELSE phase
           /\ UNCHANGED mishaps
  <2>1. /\ talk' \in Talks /\ talk'.reading = t.reading /\ talk'.next = t.next /\ talk'.synthesizing = t.synthesizing
        /\ talk'.ready = t.ready /\ talk'.playing = t.playing
        /\ talk'.chunks = IF AtTheEnd(t) THEN 0 ELSE t.chunks
    <3>1. [t EXCEPT !.chunks = 0] \in Talks  BY TalkChanged
    <3>. QED BY <1>5, <3>1 DEF Talks
  <2>2. told' \in Seq(Parts) /\ Len(told') = k /\ InTurn(told', readings.count)
    <3>1. told \in Seq(Parts) /\ InTurn(told, readings.count)  BY DEF ReaderInv, ReaderTyped, Course
    <3>2. CASE t.playing \notin {talk.playing, NoWav}
      <4>1. t.playing = <<readings.count, Len(told) + 1>>  BY <1>1, <3>2 DEF InOrder
      <4>2. told' = Append(told, <<readings.count, Len(told) + 1>>)  BY <1>5, <3>2, <4>1
      <4>. QED BY <1>1, <3>1, <3>2, <4>2, ToldMore
    <3>3. CASE t.playing \in {talk.playing, NoWav}  BY <1>5, <3>1, <3>3
    <3>. QED BY <3>2, <3>3
  <2>3. phase' \in {"", "synthesizing", "playing", "paused"} /\ sound' \in {"silent", "playing", "paused"}
        /\ (phase' = "" <=> AtTheEnd(t)) /\ (sound' # "silent" => t.playing # NoWav)
    <3>1. phase \in {"", "synthesizing", "playing", "paused"} /\ sound \in {"silent", "playing", "paused"}
      BY DEF ReaderInv, ReaderTyped
    <3>2. AtTheEnd(t) => t.playing = NoWav  BY DEF AtTheEnd
    <3>. QED BY <1>1, <1>5, <3>1, <3>2
  <2>4. ReaderTyped'  BY <1>2, <1>5, <2>1, <2>2, <2>3 DEF ReaderTyped, ReaderInv
  <2>5. Course'
    <3>1. CASE AtTheEnd(t)
      <4>1. t.playing = NoWav /\ t.ready = <<>> /\ ~t.synthesizing /\ t.next >= t.chunks  BY <3>1 DEF AtTheEnd
      <4>2. k = t.chunks
        <5>1. Len(t.ready) = 0  BY <4>1
        <5>2. t.next = k  BY <4>1, <5>1 DEF InOrder
        <5>3. t.next <= t.chunks /\ t.next >= t.chunks /\ t.next \in Nat /\ t.chunks \in Nat  BY <1>1, <4>1
        <5>. QED BY ONLY <5>2, <5>3
      <4>3. Resting(talk')  BY <1>1, <2>1, <4>1 DEF Resting
      <4>4. Resting(talk)'  BY <1>1, <2>1, <4>1 DEF Resting
      <4>. QED BY <1>1, <2>1, <2>2, <2>3, <3>1, <4>2, <4>4 DEF Course
    <3>2. CASE ~AtTheEnd(t)
      <4>1. talk' = t /\ finished' = FALSE  BY <1>5, <3>2
      <4>2. InOrder(talk, Len(told))'  BY <2>2, <4>1 DEF InOrder
      <4>3. OneAhead(talk)' /\ ~AtTheEnd(talk)'  BY <3>2, <4>1 DEF OneAhead, AtTheEnd
      <4>. QED BY <1>1, <2>1, <2>2, <2>3, <3>2, <4>1, <4>2, <4>3 DEF Course
    <3>. QED BY <3>1, <3>2
  <2>6. Makers'  BY <1>1, <1>2, <1>3, <1>5, <2>1 DEF Makers, Working, AtWork
  <2>7. NothingLeft'
    <3>1. Working' = AtWork(asking)  BY <1>5 DEF Working, AtWork
    <3>2. Held(talk)' = Held(t)  BY <2>1 DEF Held
    <3>. QED BY <1>2, <1>5, <3>1, <3>2 DEF NothingLeft
  <2>. QED BY <2>4, <2>5, <2>6, <2>7 DEF ReaderInv
<1>. QED BY <1>4, <1>5 DEF GoesOn, asking

\* The reader halts: what it holds is removed.
LEMMA HaltsKeeps ==
    ASSUME ReaderInv, NEW makers \in [Wavs -> MakerPc],
           \A v \in Wavs : maker[v] = "off" => makers[v] = "off",
           \A v \in Wavs : makers[v] = "bad" => maker[v] = "bad",
           files \subseteq AtWork(makers) \cup Held(talk) \cup removals \cup left,
           Halts(makers), UNCHANGED <<files, readings, left>>, mishaps' \in Nat
    PROVE  ReaderInv'
<1>1. talk' = Silent /\ sound' = "silent" /\ phase' = "" /\ maker' = makers /\ removals' = removals \cup Held(talk)
      /\ UNCHANGED <<told, finished>>
  BY DEF Halts
<1>2. ReaderTyped'  BY <1>1, SilentIs DEF ReaderInv, ReaderTyped
<1>3. Course'  BY <1>1, SilentIs DEF ReaderInv, Course, Resting
<1>4. Makers'
  <2>1. Silent.reading = 0 /\ Silent.synthesizing = FALSE  BY DEF Silent
  <2>2. \A v \in Wavs : v[1] # 0  BY WavIs
  <2>3. \A v \in Wavs : makers[v] = "bad" => v \notin files \/ v \in left  BY DEF ReaderInv, Makers
  <2>. QED BY <1>1, <2>1, <2>2, <2>3, SilentIs DEF ReaderInv, Makers, Working
<1>5. NothingLeft'
  <2>1. Working' = AtWork(makers)  BY <1>1 DEF Working, AtWork
  <2>. QED BY <1>1, <2>1 DEF NothingLeft
<1>. QED BY <1>2, <1>3, <1>4, <1>5 DEF ReaderInv

\* A step of a helper, or one the reader takes no notice of.
LEMMA HelperKeeps ==
    ASSUME ReaderInv, UNCHANGED <<phase, talk, sound, told, finished, readings>>, mishaps' \in Nat,
           maker' \in [Wavs -> MakerPc],
           \A v \in Wavs : maker[v] = "off" => maker'[v] = "off",
           Working' \subseteq Working,
           talk.synthesizing => <<talk.reading, talk.next>> \in Working',
           \A v \in Wavs : maker'[v] = "bad" => v \notin files' \/ v \in left',
           NothingLeft'
    PROVE  ReaderInv'
<1>1. ReaderTyped'  BY DEF ReaderInv, ReaderTyped
<1>2. Course'  BY DEF ReaderInv, Course, Resting, InOrder, OneAhead, AtTheEnd
<1>3. Makers'  BY DEF ReaderInv, Makers
<1>. QED BY <1>1, <1>2, <1>3 DEF ReaderInv

LEMMA NewWavKeeps == ASSUME ReaderInv, NEW w \in Wavs, _new_wav(w) PROVE ReaderInv'
<1>1. /\ UNCHANGED <<phase, talk, sound, told, finished, readings, removals, left, mishaps>>
      /\ maker[w] = "asked" /\ maker' = [maker EXCEPT ![w] = "made"] /\ files' = files \cup {w}
  BY DEF _new_wav, HelperStep
<1>2. mishaps' \in Nat /\ maker \in [Wavs -> MakerPc]  BY <1>1 DEF ReaderInv, ReaderTyped
<1>3. /\ maker' \in [Wavs -> MakerPc] /\ maker'[w] = "made" /\ \A v \in Wavs \ {w} : maker'[v] = maker[v]
  BY <1>1, <1>2 DEF MakerPc
<1>4. Working' = Working /\ w \in Working  BY <1>1, <1>3 DEF Working
<1>5. talk.synthesizing => <<talk.reading, talk.next>> \in Working'  BY <1>4 DEF ReaderInv, Makers
<1>6. \A v \in Wavs : maker'[v] = "bad" => v \notin files' \/ v \in left'  BY <1>1, <1>3 DEF ReaderInv, Makers
<1>7. NothingLeft'
  <2>1. Held(talk)' = Held(talk)  BY <1>1 DEF Held
  <2>. QED BY <1>1, <1>4, <2>1 DEF ReaderInv, NothingLeft
<1>. QED BY <1>1, <1>2, <1>3, <1>4, <1>5, <1>6, <1>7, HelperKeeps

LEMMA SynthesizeKeeps == ASSUME ReaderInv, NEW w \in Wavs, synthesize(w) PROVE ReaderInv'
<1>1. /\ UNCHANGED <<phase, talk, sound, told, finished, readings, removals>>
      /\ maker[w] = "made"
      /\ \/ maker' = [maker EXCEPT ![w] = "good"] /\ UNCHANGED <<files, left, mishaps>>
         \/ maker' = [maker EXCEPT ![w] = "bad"] /\ files' = files \ {w} /\ Mishap /\ UNCHANGED left
         \/ maker' = [maker EXCEPT ![w] = "bad"] /\ left' = left \cup {w} /\ Mishap /\ UNCHANGED files
  BY DEF synthesize, HelperStep
<1>2. mishaps \in Nat /\ maker \in [Wavs -> MakerPc]  BY DEF ReaderInv, ReaderTyped
<1>3. mishaps' \in Nat  BY <1>1, <1>2 DEF Mishap
<1>4. /\ maker' \in [Wavs -> MakerPc] /\ maker'[w] \in {"good", "bad"} /\ \A v \in Wavs \ {w} : maker'[v] = maker[v]
      /\ files' \subseteq files /\ left \subseteq left'
      /\ maker'[w] = "bad" => w \notin files' \/ w \in left'
  BY <1>1, <1>2 DEF MakerPc
<1>5. Working' = Working  BY <1>1, <1>4 DEF Working
<1>6. talk.synthesizing => <<talk.reading, talk.next>> \in Working'  BY <1>5 DEF ReaderInv, Makers
<1>7. \A v \in Wavs : maker'[v] = "bad" => v \notin files' \/ v \in left'  BY <1>4 DEF ReaderInv, Makers
<1>8. NothingLeft'
  <2>1. Held(talk)' = Held(talk)  BY <1>1 DEF Held
  <2>. QED BY <1>1, <1>4, <1>5, <2>1 DEF ReaderInv, NothingLeft
<1>. QED BY <1>1, <1>3, <1>4, <1>5, <1>6, <1>7, <1>8, HelperKeeps

LEMMA CleanupKeeps == ASSUME ReaderInv, NEW w \in Wavs, cleanup(w) PROVE ReaderInv'
<1>1. /\ UNCHANGED <<phase, talk, sound, told, finished, readings, maker>>
      /\ removals' = removals \ {w}
      /\ \/ files' = files \ {w} /\ UNCHANGED <<left, mishaps>>
         \/ left' = left \cup {w} /\ Mishap /\ UNCHANGED files
  BY DEF cleanup
<1>2. mishaps \in Nat /\ maker \in [Wavs -> MakerPc]  BY DEF ReaderInv, ReaderTyped
<1>3. mishaps' \in Nat  BY <1>1, <1>2 DEF Mishap
<1>4. Working' = Working  BY <1>1 DEF Working
<1>5. talk.synthesizing => <<talk.reading, talk.next>> \in Working'  BY <1>4 DEF ReaderInv, Makers
<1>6. \A v \in Wavs : maker'[v] = "bad" => v \notin files' \/ v \in left'  BY <1>1 DEF ReaderInv, Makers
<1>7. NothingLeft'
  <2>1. Held(talk)' = Held(talk)  BY <1>1 DEF Held
  <2>. QED BY <1>1, <1>4, <2>1 DEF ReaderInv, NothingLeft
<1>. QED BY <1>1, <1>2, <1>3, <1>4, <1>5, <1>6, <1>7, HelperKeeps

LEMMA UnloadKeeps == ASSUME ReaderInv, unload PROVE ReaderInv'
<1>1. /\ UNCHANGED <<phase, talk, sound, told, finished, readings, removals>>
      /\ phase = "" /\ Mishap /\ files' = files \cup Working /\ left' = left \cup Working
      /\ maker' = [w \in Wavs |-> IF w \in Working THEN "done" ELSE maker[w]]
  BY DEF unload
<1>2. mishaps \in Nat /\ maker \in [Wavs -> MakerPc]  BY DEF ReaderInv, ReaderTyped
<1>3. mishaps' \in Nat
  <2>1. Mishap /\ mishaps \in Nat  BY <1>1, <1>2
  <2>. QED BY ONLY <2>1 DEF Mishap
<1>4. \A w \in Wavs : maker'[w] = IF w \in Working THEN "done" ELSE maker[w]  BY <1>1
<1>5. maker' \in [Wavs -> MakerPc]  BY <1>1, <1>2 DEF MakerPc
<1>6. Working' = {}  BY <1>4 DEF Working
<1>7. ~talk.synthesizing  BY <1>1 DEF ReaderInv, Course, Resting
<1>8. \A v \in Wavs : maker'[v] # "bad"  BY <1>4 DEF Working
<1>9. \A v \in Wavs : maker[v] = "off" => maker'[v] = "off"  BY <1>4 DEF Working
<1>10. NothingLeft'
  <2>1. Held(talk)' = Held(talk)  BY <1>1 DEF Held
  <2>. QED BY <1>1, <1>6, <2>1 DEF ReaderInv, NothingLeft
<1>. QED BY <1>1, <1>3, <1>5, <1>6, <1>7, <1>8, <1>9, <1>10, HelperKeeps

LEMMA StaleKeeps ==
    ASSUME ReaderInv, NEW w \in Wavs, talk.reading # w[1], maker[w] \in {"good", "bad"}, Stale(w), UNCHANGED <<files, readings, left>>
    PROVE  ReaderInv'
<1>1. /\ UNCHANGED <<phase, talk, sound, told, finished, readings, mishaps, files, left>>
      /\ maker' = [maker EXCEPT ![w] = "done"]
      /\ removals' = IF maker[w] = "good" THEN removals \cup {w} ELSE removals
  BY DEF Stale
<1>2. mishaps' \in Nat /\ maker \in [Wavs -> MakerPc]  BY <1>1 DEF ReaderInv, ReaderTyped
<1>3. /\ maker' \in [Wavs -> MakerPc] /\ maker'[w] = "done" /\ \A v \in Wavs \ {w} : maker'[v] = maker[v]
  BY <1>1, <1>2 DEF MakerPc
<1>4. Working' = Working \ {w}  BY <1>3 DEF Working
<1>5. talk.synthesizing => <<talk.reading, talk.next>> \in Working'  BY <1>4 DEF ReaderInv, Makers
<1>6. \A v \in Wavs : maker'[v] = "bad" => v \notin files' \/ v \in left'  BY <1>1, <1>3 DEF ReaderInv, Makers
<1>7. NothingLeft'
  <2>1. Held(talk)' = Held(talk)  BY <1>1 DEF Held
  <2>2. maker[w] = "bad" => w \notin files \/ w \in left  BY DEF ReaderInv, Makers
  <2>. QED BY <1>1, <1>4, <2>1, <2>2 DEF ReaderInv, NothingLeft
<1>8. \A v \in Wavs : maker[v] = "off" => maker'[v] = "off"  BY <1>3
<1>. QED BY <1>1, <1>2, <1>3, <1>4, <1>5, <1>6, <1>7, <1>8, HelperKeeps

LEMMA StopKeeps == ASSUME ReaderInv, Stop \/ onFailed PROVE ReaderInv'
<1>1. Halts(maker) /\ UNCHANGED <<files, readings, left>> /\ (UNCHANGED mishaps \/ Mishap)
  BY DEF Stop, onFailed
<1>2. mishaps \in Nat /\ maker \in [Wavs -> MakerPc]  BY DEF ReaderInv, ReaderTyped
<1>3. mishaps' \in Nat
  <2>1. UNCHANGED mishaps \/ Mishap  BY <1>1
  <2>2. mishaps \in Nat  BY <1>2
  <2>. QED BY ONLY <2>1, <2>2 DEF Mishap
<1>4. files \subseteq AtWork(maker) \cup Held(talk) \cup removals \cup left
  BY DEF ReaderInv, NothingLeft, Working, AtWork
<1>. QED BY <1>1, <1>2, <1>3, <1>4, HaltsKeeps

LEMMA PauseKeeps == ASSUME ReaderInv, pause \/ resume PROVE ReaderInv'
<1>1. /\ UNCHANGED <<talk, maker, files, removals, told, finished, readings, left, mishaps>>
      /\ phase \in {"playing", "paused"} /\ phase' \in {"playing", "paused"}
      /\ \/ sound' = sound
         \/ sound' \in {"playing", "paused"} /\ talk.playing # NoWav
  BY DEF pause, resume
<1>2. ReaderTyped'  BY <1>1 DEF ReaderInv, ReaderTyped
<1>3. Course'  BY <1>1 DEF ReaderInv, Course, Resting, InOrder, OneAhead, AtTheEnd
<1>4. Makers'  BY <1>1 DEF ReaderInv, Makers, Working
<1>5. NothingLeft'  BY <1>1 DEF ReaderInv, NothingLeft, Working, Held
<1>. QED BY <1>2, <1>3, <1>4, <1>5 DEF ReaderInv

\* A reader that reads, and how far it has come.
LEMMA Reading ==
    ASSUME ReaderInv, talk.chunks # 0
    PROVE  /\ talk \in Talks /\ talk.reading = readings.count /\ talk.chunks = readings.parts /\ readings.parts \in Lengths
           /\ readings.count \in 1 .. MaxReadings /\ readings.parts \in Nat /\ Len(told) \in Nat
           /\ InOrder(talk, Len(told)) /\ OneAhead(talk) /\ ~AtTheEnd(talk)
           /\ talk.next <= talk.chunks /\ talk.next \in Nat
<1>1. talk \in Talks /\ readings \in [count : 0 .. MaxReadings, parts : Nat] /\ told \in Seq(Parts)
  BY DEF ReaderInv, ReaderTyped
<1>2. /\ readings.parts \in Lengths /\ readings.count # 0 /\ InOrder(talk, Len(told)) /\ OneAhead(talk) /\ ~AtTheEnd(talk)
  BY DEF ReaderInv, Course
<1>3. readings.count \in 0 .. MaxReadings /\ readings.parts \in Nat  BY <1>1
<1>4. readings.count \in 1 .. MaxReadings  BY <1>2, <1>3, FileSpeechAssumption
<1>5. talk.reading = readings.count /\ talk.chunks = readings.parts /\ talk.next <= talk.chunks  BY <1>2 DEF InOrder
<1>6. talk.next \in Nat  BY <1>1 DEF Talks
<1>7. Len(told) \in Nat  BY <1>1
<1>. QED BY <1>1, <1>2, <1>3, <1>4, <1>5, <1>6, <1>7

\* The part after the last that was told is ready: it exists.
LEMMA NextExists ==
    ASSUME ReaderInv, talk.chunks # 0, NEW k \in Nat, talk.next = k + 1
    PROVE  <<talk.reading, k + 1>> \in Wavs
<1>1. k + 1 \in 1 .. readings.parts  BY Reading
<1>. QED BY <1>1, Reading, WavOf

LEMMA OnEndedKeeps == ASSUME ReaderInv, onEnded PROVE ReaderInv'
<1>. DEFINE v == [talk EXCEPT !.playing = NoWav]
            t == _playNext(v)
            k == Len(told)
<1>1. sound = "playing" /\ GoesOn(t, maker, {talk.playing}) /\ UNCHANGED <<files, readings, left>>  BY DEF onEnded
<1>2. talk.playing # NoWav  BY <1>1 DEF ReaderInv, Course
<1>3. talk.chunks # 0  BY <1>2 DEF ReaderInv, Course, Resting
<1>4. NoWav \in OneOrNone  BY DEF OneOrNone
<1>5. v \in Talks  BY <1>3, <1>4, Reading, TalkChanged
<1>6. /\ v.playing = NoWav /\ v.reading = talk.reading /\ v.chunks = talk.chunks /\ v.next = talk.next
      /\ v.synthesizing = talk.synthesizing /\ v.ready = talk.ready
  BY <1>3, Reading DEF Talks
<1>. HIDE DEF v
<1>7. k \in Nat /\ InOrder(v, k)  BY <1>3, <1>6, Reading DEF InOrder
<1>. HIDE DEF k
<1>8. talk.playing = <<talk.reading, k>>  BY <1>2, <1>3, Reading DEF InOrder, k
<1>9. maker \in [Wavs -> MakerPc]  BY DEF ReaderInv, ReaderTyped
<1>10. /\ \A x \in Wavs : x[1] > readings.count \/ (x[1] = readings.count /\ x[2] > talk.next) => maker[x] = "off"
       /\ \A x \in AtWork(maker) : x[1] = readings.count => talk.synthesizing /\ x[2] = talk.next
       /\ talk.synthesizing => <<readings.count, talk.next>> \in Wavs /\ maker[<<readings.count, talk.next>>] # "done"
  <2>1. talk.reading = readings.count  BY <1>3, Reading
  <2>. QED BY <1>3, <2>1 DEF ReaderInv, Makers, Working, AtWork
<1>11. files \subseteq AtWork(maker) \cup ToSet(talk.ready) \cup {talk.playing} \cup removals \cup left
  BY DEF ReaderInv, NothingLeft, Working, AtWork, Held
<1>12. CASE talk.ready = <<>>
  <2>1. t = v  BY <1>6, <1>12 DEF _playNext
  <2>2. OneAhead(v)  BY <1>3, <1>6, <1>12, Reading DEF OneAhead
  <2>3. Held(v) = ToSet(talk.ready)  BY <1>6 DEF Held
  <2>4. GoesOn(v, maker, {talk.playing})  BY <1>1, <2>1
  <2>5. files \subseteq AtWork(maker) \cup Held(v) \cup {talk.playing} \cup removals \cup left  BY <1>11, <2>3
  <2>6. v.playing \in {talk.playing, NoWav} /\ k = Len(told)  BY <1>6 DEF k
  <2>. QED BY <1>1, <1>3, <1>5, <1>6, <1>7, <1>9, <1>10, <2>2, <2>4, <2>5, <2>6, GoesOnKeeps
<1>13. CASE talk.ready # <<>>
  <2>1. talk.ready = << <<talk.reading, k + 1>> >> /\ ~talk.synthesizing /\ talk.next = k + 1
    <3>1. talk.ready = << <<talk.reading, k + 1>> >>  BY <1>3, <1>13, Reading DEF InOrder, k
    <3>2. ~talk.synthesizing  BY <1>3, <1>13, Reading DEF OneAhead
    <3>3. Len(talk.ready) = 1  BY <3>1
    <3>4. talk.next = k + Len(talk.ready) + 0  BY <1>3, <3>2, Reading DEF InOrder, k
    <3>. QED BY <1>7, <3>1, <3>2, <3>3, <3>4
  <2>2. <<talk.reading, k + 1>> \in Wavs  BY <1>3, <1>7, <2>1, NextExists
  <2>3. /\ t \in Talks /\ InOrder(t, k + 1) /\ OneAhead(t)
        /\ t.playing = <<talk.reading, k + 1>> /\ t.ready = <<>> /\ t.reading = talk.reading
        /\ \/ ~t.synthesizing /\ t.next = talk.next
           \/ t.synthesizing /\ t.next = talk.next + 1
    <3>1. t = _playNext(v)  OBVIOUS
    <3>. HIDE DEF t
    <3>. QED BY <1>5, <1>6, <1>7, <2>1, <2>2, <3>1, PlaysNext
  <2>. HIDE DEF t
  <2>4. t.playing \notin {talk.playing, NoWav} /\ k + 1 = Len(told) + 1 /\ k + 1 \in Nat
    <3>1. t.playing # NoWav  BY <2>2, <2>3, WavIs
    <3>2. t.playing # talk.playing  BY <1>7, <1>8, <2>3
    <3>. QED BY <1>7, <3>1, <3>2 DEF k
  <2>5. talk.reading = readings.count /\ talk.next \in Nat /\ talk.chunks = readings.parts /\ readings.count \in 1 .. MaxReadings
        /\ readings.parts \in Lengths /\ readings.parts \in Nat
    BY <1>3, Reading
  <2>6. \A x \in Wavs : x[1] > readings.count \/ (x[1] = readings.count /\ x[2] > t.next) => maker[x] = "off"
    <3>1. \A x \in Wavs : x[2] \in Nat  BY WavIs
    <3>2. t.next \in Nat /\ t.next >= talk.next  BY <2>3, <2>5
    <3>. QED BY <1>10, <2>5, <3>1, <3>2
  <2>7. \A x \in AtWork(maker) : x[1] # readings.count  BY <1>10, <2>1
  <2>8. ASSUME t.synthesizing PROVE <<readings.count, t.next>> \in Wavs /\ maker[<<readings.count, t.next>>] # "done"
    <3>1. t.next = talk.next + 1  BY <2>3, <2>8
    <3>2. t.next <= t.chunks /\ t.chunks = readings.parts  BY <2>3 DEF InOrder
    <3>3. t.next \in 1 .. readings.parts  BY <2>5, <3>1, <3>2
    <3>4. <<readings.count, t.next>> \in Wavs  BY <2>5, <3>3, WavOf
    <3>. DEFINE w == <<readings.count, t.next>>
    <3>5. w[1] = readings.count /\ w[2] = t.next /\ w \in Wavs  BY <3>4
    <3>. HIDE DEF w
    <3>6. maker[w] = "off"  BY <1>10, <2>5, <3>1, <3>5
    <3>. QED BY <3>4, <3>6 DEF w
  <2>9. ToSet(talk.ready) = {t.playing} /\ ToSet(t.ready) = {}  BY <2>1, <2>3, Single
  <2>10. Held(t) = {t.playing}  BY <2>4, <2>9 DEF Held
  <2>11. files \subseteq AtWork(maker) \cup Held(t) \cup {talk.playing} \cup removals \cup left  BY <1>11, <2>9, <2>10
  <2>12. GoesOn(t, maker, {talk.playing})  BY <1>1 DEF t
  <2>. QED BY <1>1, <1>3, <1>9, <2>3, <2>4, <2>6, <2>7, <2>8, <2>11, <2>12, GoesOnKeeps
<1>. QED BY <1>12, <1>13

LEMMA StartKeeps == ASSUME ReaderInv, start PROVE ReaderInv'
<1>. DEFINE c == readings.count + 1
<1>1. PICK n \in Lengths :
        /\ c <= MaxReadings /\ readings' = [count |-> c, parts |-> n]
        /\ talk' = [Silent EXCEPT !.reading = c, !.chunks = n, !.next = 1, !.synthesizing = TRUE]
        /\ sound' = "silent" /\ phase' = "synthesizing"
        /\ maker' = Asking([Silent EXCEPT !.reading = c, !.chunks = n, !.next = 1, !.synthesizing = TRUE], maker)
        /\ removals' = removals \cup Held(talk)
        /\ told' = <<>> /\ finished' = FALSE
        /\ UNCHANGED <<files, left, mishaps>>
  BY DEF start
<1>2. readings \in [count : 0 .. MaxReadings, parts : Nat] /\ maker \in [Wavs -> MakerPc] /\ mishaps \in Nat
  BY DEF ReaderInv, ReaderTyped
<1>3. c \in 1 .. MaxReadings /\ c \in Nat /\ n \in Nat /\ n # 0 /\ readings.count < c
  BY <1>1, <1>2, FileSpeechAssumption
<1>. HIDE DEF c
<1>. DEFINE t == [Silent EXCEPT !.reading = c, !.chunks = n, !.next = 1, !.synthesizing = TRUE]
<1>4. <<>> \in Queues /\ NoWav \in OneOrNone /\ TRUE \in BOOLEAN /\ 1 \in Nat  BY DEF Queues, OneOrNone
<1>5. talk' = t  BY <1>1
<1>6. maker' = Asking(t, maker)  BY <1>1
<1>7. t \in Talks  BY <1>3, <1>4 DEF Silent, Talks
<1>8. t.reading = c /\ t.chunks = n /\ t.next = 1 /\ t.synthesizing = TRUE /\ t.ready = <<>> /\ t.playing = NoWav
  BY DEF Silent
<1>. HIDE DEF t
<1>10. \A v \in Wavs : v[1] > c \/ v[1] = c => maker[v] = "off"
  <2>1. ASSUME NEW v \in Wavs, v[1] > c \/ v[1] = c PROVE v[1] > readings.count
    <3>1. v[1] \in Int  BY WavIs
    <3>. QED BY <1>2, <1>3, <2>1, <3>1
  <2>. QED BY <2>1 DEF ReaderInv, Makers
<1>11. <<c, t.next>> \in Wavs /\ maker[<<c, t.next>>] = "off"
  <2>1. 1 \in 1 .. n  BY <1>3
  <2>2. <<c, 1>> \in Wavs  BY <1>3, <2>1, WavOf
  <2>. DEFINE w == <<c, 1>>
  <2>3. w[1] = c /\ w \in Wavs  BY <2>2
  <2>. HIDE DEF w
  <2>4. maker[w] = "off"  BY <1>10, <2>3
  <2>. QED BY <1>8, <2>2, <2>4 DEF w
<1>12. /\ maker' \in [Wavs -> MakerPc] /\ AtWork(maker) \subseteq AtWork(maker')
       /\ \A v \in Wavs : v[1] > c \/ (v[1] = c /\ v[2] > t.next) => maker'[v] = "off"
       /\ \A v \in AtWork(maker') : v[1] = c => t.synthesizing /\ v[2] = t.next
       /\ t.synthesizing => <<c, t.next>> \in AtWork(maker')
       /\ \A v \in Wavs : maker'[v] = "bad" => maker[v] = "bad"
  <2>1. \A v \in Wavs : v[1] > c \/ (v[1] = c /\ v[2] > t.next) => maker[v] = "off"  BY <1>10
  <2>2. \A v \in AtWork(maker) : v[1] = c => t.synthesizing /\ v[2] = t.next  BY <1>10 DEF AtWork
  <2>3. t.synthesizing => <<c, t.next>> \in Wavs /\ maker[<<c, t.next>>] # "done"  BY <1>11
  <2>. QED BY <1>2, <1>3, <1>6, <1>8, <2>1, <2>2, <2>3, AskingIs
<1>13. readings'.count = c /\ readings'.parts = n  BY <1>1
<1>14. ReaderTyped'
  <2>1. told' \in Seq(Parts)  BY <1>1
  <2>2. readings' \in [count : 0 .. MaxReadings, parts : Nat]  BY <1>1, <1>3
  <2>. QED BY <1>1, <1>2, <1>7, <1>5, <1>12, <2>1, <2>2 DEF ReaderTyped
<1>15. Course'
  <2>1. Len(told') = 0 /\ Len(<<>>) = 0  BY <1>1
  <2>2. InTurn(told, readings.count)'
    <3>1. told' = <<>> /\ 1 .. 0 = {}  BY <1>1
    <3>. QED BY <2>1, <3>1 DEF InTurn
  <2>3. InOrder(talk, Len(told))'
    <3>1. t.next = Len(told') + Len(t.ready) + 1 /\ t.next <= t.chunks  BY <1>3, <1>8, <2>1
    <3>. QED BY <1>8, <1>5, <1>13, <3>1 DEF InOrder
  <2>4. OneAhead(talk)' /\ ~AtTheEnd(talk)'  BY <1>8, <1>5 DEF OneAhead, AtTheEnd
  <2>. QED BY <1>1, <1>3, <1>8, <1>5, <1>13, <2>2, <2>3, <2>4 DEF Course
<1>16. Makers'
  <2>1. \A v \in Wavs : maker[v] = "bad" => v \notin files \/ v \in left  BY DEF ReaderInv, Makers
  <2>. QED BY <1>1, <1>8, <1>5, <1>12, <1>13, <2>1 DEF Makers, Working, AtWork
<1>17. NothingLeft'
  <2>1. Working \subseteq Working'  BY <1>12 DEF Working, AtWork
  <2>. QED BY <1>1, <2>1 DEF ReaderInv, NothingLeft
<1>. QED BY <1>14, <1>15, <1>16, <1>17 DEF ReaderInv

LEMMA ReplyKeeps == ASSUME ReaderInv, NEW w \in Wavs, Reply(w) PROVE ReaderInv'
<1>. DEFINE makers == [maker EXCEPT ![w] = "done"]
            came == [talk EXCEPT !.synthesizing = FALSE, !.ready = Append(@, w)]
            t == _synthesizeNext(IF talk.playing = NoWav THEN _playNext(came) ELSE came)
            k == Len(told)
<1>1. maker[w] \in {"good", "bad"} /\ UNCHANGED <<files, readings, left>>  BY DEF Reply
<1>2. maker \in [Wavs -> MakerPc] /\ mishaps \in Nat  BY DEF ReaderInv, ReaderTyped
<1>3. makers \in [Wavs -> MakerPc] /\ makers[w] = "done" /\ \A v \in Wavs \ {w} : makers[v] = maker[v]
  BY <1>2 DEF MakerPc
<1>4. maker' = [maker EXCEPT ![w] = "done"] => maker' = makers  OBVIOUS
<1>5. \/ talk.reading # w[1] /\ Stale(w)
      \/ talk.reading = w[1] /\ maker[w] = "bad" /\ Halts(makers) /\ UNCHANGED mishaps
      \/ talk.reading = w[1] /\ maker[w] = "good" /\ GoesOn(t, makers, {})
  BY <1>1 DEF Reply
<1>. HIDE DEF makers, t, k
<1>6. AtWork(makers) = AtWork(maker) \ {w}  BY <1>3 DEF AtWork
<1>7. /\ \A v \in Wavs : maker[v] = "off" => makers[v] = "off"
      /\ \A v \in Wavs : makers[v] = "bad" => maker[v] = "bad"
  BY <1>1, <1>3
<1>8. files \subseteq AtWork(maker) \cup Held(talk) \cup removals \cup left
  BY DEF ReaderInv, NothingLeft, Working, AtWork
<1>9. CASE talk.reading # w[1] /\ Stale(w)  BY <1>1, <1>9, StaleKeeps
<1>10. CASE maker[w] = "bad" /\ Halts(makers) /\ UNCHANGED mishaps
  <2>1. w \notin files \/ w \in left  BY <1>10 DEF ReaderInv, Makers
  <2>2. files \subseteq AtWork(makers) \cup Held(talk) \cup removals \cup left  BY <1>6, <1>8, <2>1
  <2>3. mishaps' \in Nat  BY <1>2, <1>10
  <2>. QED BY <1>1, <1>3, <1>7, <1>10, <2>2, <2>3, HaltsKeeps
<1>11. CASE talk.reading = w[1] /\ maker[w] = "good" /\ GoesOn(t, makers, {})
  <2>1. w \in Working  BY <1>11 DEF Working
  <2>2. talk.synthesizing /\ w[2] = talk.next  BY <1>11, <2>1 DEF ReaderInv, Makers
  <2>3. talk.chunks # 0  BY <2>2 DEF ReaderInv, Course, Resting
  <2>4. w = <<talk.reading, talk.next>>  BY <1>11, <2>2, WavIs
  <2>5. talk.ready = <<>>  BY <2>2, <2>3, Reading DEF OneAhead
  <2>6. k \in Nat /\ talk.next = k + 1
    <3>1. Len(talk.ready) = 0  BY <2>5
    <3>2. talk.next = k + Len(talk.ready) + 1  BY <2>2, <2>3, Reading DEF InOrder, k
    <3>3. k \in Nat  BY <2>3, Reading DEF k
    <3>. QED BY <3>1, <3>2, <3>3
  <2>7. Append(talk.ready, w) = <<w>>  BY <2>5, Single
  <2>8. came = [talk EXCEPT !.synthesizing = FALSE, !.ready = <<w>>]  BY <2>7
  <2>9. came \in Talks /\ came.synthesizing = FALSE /\ came.ready = <<w>> /\ came.reading = talk.reading /\ came.next = talk.next
        /\ came.chunks = talk.chunks /\ came.playing = talk.playing
    <3>1. came \in Talks  BY <2>3, <2>8, Reading, ReadySeq, TalkChanged
    <3>. QED BY <2>3, <2>8, <3>1, Reading DEF Talks
  <2>. HIDE DEF came
  <2>10. w = <<talk.reading, k + 1>> /\ Len(<<w>>) = 1  BY <2>4, <2>6
  <2>11. /\ talk.reading = readings.count /\ talk.chunks = readings.parts /\ talk.next <= talk.chunks /\ talk.playing \in {NoWav, <<talk.reading, k>>}
    BY <2>3, Reading DEF InOrder, k
  <2>12. InOrder(came, k)
    <3>1. came.next = k + Len(came.ready) + 0  BY <2>6, <2>9, <2>10
    <3>2. came.ready = << <<came.reading, k + 1>> >>  BY <2>9, <2>10
    <3>. QED BY <2>9, <2>11, <3>1, <3>2 DEF InOrder
  <2>13. \A v \in Wavs : v[1] > readings.count \/ (v[1] = readings.count /\ v[2] > talk.next) => maker[v] = "off"
    BY <2>3 DEF ReaderInv, Makers
  <2>14. \A v \in AtWork(maker) : v[1] = readings.count => v[2] = talk.next  BY <2>11 DEF ReaderInv, Makers, Working, AtWork
  <2>15. \A v \in AtWork(makers) : v[1] # readings.count
    <3>1. ASSUME NEW v \in AtWork(makers), v[1] = readings.count PROVE FALSE
      <4>1. v \in AtWork(maker) /\ v # w /\ v \in Wavs  BY <1>6, <3>1 DEF AtWork
      <4>2. v[2] = talk.next  BY <2>14, <3>1, <4>1
      <4>3. v = <<talk.reading, talk.next>>  BY <2>11, <3>1, <4>1, <4>2, WavIs
      <4>. QED BY <2>4, <4>1, <4>3
    <3>. QED BY <3>1
  <2>16. ToSet(<<w>>) = {w} /\ ToSet(<<>>) = {} /\ w # NoWav  BY Single, WavIs
  <2>17. Held(talk) = {talk.playing} \ {NoWav}  BY <2>5, <2>16 DEF Held
  <2>18. CASE talk.playing = NoWav
    <3>. DEFINE u == _playNext(came)
    <3>1. u = _playNext(came)  OBVIOUS
    <3>2. t = _synthesizeNext(u)  BY <2>18 DEF t
    <3>3. <<came.reading, k + 1>> \in Wavs /\ came.ready = << <<came.reading, k + 1>> >> /\ ~came.synthesizing
      BY <2>9, <2>10
    <3>. HIDE DEF u
    <3>4. /\ u \in Talks /\ InOrder(u, k + 1) /\ OneAhead(u) /\ _synthesizeNext(u) = u
          /\ u.playing = <<came.reading, k + 1>> /\ u.ready = <<>> /\ u.reading = came.reading
          /\ \/ ~u.synthesizing /\ u.next = came.next
             \/ u.synthesizing /\ u.next = came.next + 1
      BY <2>6, <2>9, <2>12, <3>1, <3>3, PlaysNext
    <3>5. t = u /\ t.playing = w  BY <2>9, <2>10, <3>2, <3>4
    <3>6. t.playing \notin {talk.playing, NoWav} /\ k + 1 = Len(told) + 1 /\ k + 1 \in Nat
      BY <2>6, <2>16, <2>18, <3>5 DEF k
    <3>7. \A v \in Wavs : v[1] > readings.count \/ (v[1] = readings.count /\ v[2] > t.next) => makers[v] = "off"
      <4>1. \A v \in Wavs : v[2] \in Nat  BY WavIs
      <4>2. t.next \in Nat /\ t.next >= talk.next  BY <2>6, <2>9, <3>4, <3>5
      <4>. QED BY <1>7, <2>6, <2>13, <4>1, <4>2
    <3>8. ASSUME t.synthesizing PROVE <<readings.count, t.next>> \in Wavs /\ makers[<<readings.count, t.next>>] # "done"
      <4>1. t.next = talk.next + 1 /\ t.next <= t.chunks /\ t.chunks = readings.parts  BY <2>9, <3>4, <3>5, <3>8 DEF InOrder
      <4>2. readings.parts \in Lengths /\ readings.parts \in Nat /\ readings.count \in 1 .. MaxReadings  BY <2>3, Reading
      <4>3. t.next \in 1 .. readings.parts  BY <2>6, <4>1, <4>2
      <4>. DEFINE x == <<readings.count, t.next>>
      <4>4. x \in Wavs  BY <4>2, <4>3, WavOf
      <4>5. x[1] = readings.count /\ x[2] = t.next  OBVIOUS
      <4>. HIDE DEF x
      <4>6. maker[x] = "off"  BY <2>6, <2>13, <4>1, <4>4, <4>5
      <4>7. makers[x] = "off"  BY <1>7, <4>4, <4>6
      <4>. QED BY <4>4, <4>7 DEF x
    <3>9. Held(t) = {w}  BY <2>16, <3>4, <3>5 DEF Held
    <3>10. files \subseteq AtWork(makers) \cup Held(t) \cup {} \cup removals \cup left
      BY <1>6, <1>8, <2>17, <2>18, <3>9
    <3>. QED BY <1>1, <1>3, <1>7, <1>11, <2>3, <2>15, <3>4, <3>5, <3>6, <3>7, <3>8, <3>10, GoesOnKeeps
  <2>19. CASE talk.playing # NoWav
    <3>1. Len(came.ready) >= ahead  BY <2>9, <2>10 DEF ahead
    <3>2. t = came  BY <2>19, <3>1 DEF t, _synthesizeNext
    <3>3. OneAhead(came)
      <4>1. came.ready # <<>>  BY <2>9, Single
      <4>. QED BY <2>9, <2>19, <4>1 DEF OneAhead
    <3>4. came.playing \in {talk.playing, NoWav} /\ k = Len(told)  BY <2>9 DEF k
    <3>5. \A v \in Wavs : v[1] > readings.count \/ (v[1] = readings.count /\ v[2] > came.next) => makers[v] = "off"
      BY <1>7, <2>9, <2>13
    <3>6. Held(came) = {w} \cup ({talk.playing} \ {NoWav})  BY <2>9, <2>16 DEF Held
    <3>7. files \subseteq AtWork(makers) \cup Held(came) \cup {} \cup removals \cup left
      BY <1>6, <1>8, <2>17, <3>6
    <3>8. GoesOn(came, makers, {})  BY <1>11, <3>2
    <3>. QED BY <1>1, <1>3, <1>7, <2>3, <2>6, <2>9, <2>12, <2>15, <3>3, <3>4, <3>5, <3>7, <3>8, GoesOnKeeps
  <2>. QED BY <2>18, <2>19
<1>. QED BY <1>5, <1>9, <1>10, <1>11

LEMMA ReaderStarts == FileSpeechInit => ReaderInv
<1>. SUFFICES ASSUME FileSpeechInit PROVE ReaderInv  OBVIOUS
<1>1. maker \in [Wavs -> MakerPc] /\ \A v \in Wavs : maker[v] = "off"  BY DEF FileSpeechInit, MakerPc
<1>2. told = <<>> /\ told \in Seq(Parts) /\ Len(told) = 0 /\ 1 .. 0 = {}
  <2>1. told = <<>>  BY DEF FileSpeechInit
  <2>. QED BY ONLY <2>1
<1>3. readings.count = 0 /\ readings.parts = 0 /\ readings \in [count : 0 .. MaxReadings, parts : Nat] /\ mishaps \in Nat
  <2>1. readings = [count |-> 0, parts |-> 0] /\ mishaps = MaxMishaps  BY DEF FileSpeechInit
  <2>2. MaxReadings \in Nat /\ MaxMishaps \in Nat  BY FileSpeechAssumption
  <2>. QED BY ONLY <2>1, <2>2
<1>4. ReaderTyped  BY <1>1, <1>2, <1>3, SilentIs DEF FileSpeechInit, ReaderTyped
<1>5. InTurn(told, readings.count)  BY <1>2 DEF InTurn
<1>6. Course  BY <1>5, SilentIs DEF FileSpeechInit, Course
<1>7. Makers
  <2>1. Silent.synthesizing = FALSE  BY DEF Silent
  <2>. QED BY <1>1, <2>1, SilentIs DEF FileSpeechInit, Makers, Working
<1>8. NothingLeft  BY DEF FileSpeechInit, NothingLeft
<1>. QED BY <1>4, <1>6, <1>7, <1>8 DEF ReaderInv

LEMMA ReaderStep == ReaderInv /\ [FileSpeechNext]_fileSpeechVars => ReaderInv'
<1>. SUFFICES ASSUME ReaderInv, [FileSpeechNext]_fileSpeechVars PROVE ReaderInv'  OBVIOUS
<1>1. ASSUME NEW w \in Wavs, Reply(w) \/ _new_wav(w) \/ synthesize(w) \/ cleanup(w) PROVE ReaderInv'
  BY <1>1, ReplyKeeps, NewWavKeeps, SynthesizeKeeps, CleanupKeeps
<1>2. ASSUME UNCHANGED fileSpeechVars PROVE ReaderInv'
  <2>1. UNCHANGED <<phase, talk, sound, maker, files, removals, told, finished, readings, left, mishaps>>
    BY <1>2 DEF fileSpeechVars
  <2>2. ReaderTyped'  BY <2>1 DEF ReaderInv, ReaderTyped
  <2>3. Course'  BY <2>1 DEF ReaderInv, Course, Resting, InOrder, OneAhead, AtTheEnd
  <2>4. Makers'  BY <2>1 DEF ReaderInv, Makers, Working
  <2>5. NothingLeft'  BY <2>1 DEF ReaderInv, NothingLeft, Working, Held
  <2>. QED BY <2>2, <2>3, <2>4, <2>5 DEF ReaderInv
<1>. QED BY <1>1, <1>2, StartKeeps, StopKeeps, PauseKeeps, OnEndedKeeps, UnloadKeeps DEF FileSpeechNext

LEMMA ReaderReads == ReaderInv => ReadAloud
<1>. SUFFICES ASSUME ReaderInv PROVE ReadAloud  OBVIOUS
<1>1. told = [i \in 1 .. Len(told) |-> <<readings.count, i>>]  BY DEF ReaderInv, Course, InTurn
<1>2. finished => Len(told) = readings.parts  BY DEF ReaderInv, Course
<1>3. ASSUME phase # "", talk.playing = NoWav PROVE talk.synthesizing /\ <<talk.reading, talk.next>> \in Working
  <2>1. talk.chunks # 0  BY <1>3 DEF ReaderInv, Course
  <2>2. talk.ready = <<>>  BY <1>3, <2>1, Reading DEF OneAhead
  <2>3. talk.synthesizing \/ talk.next >= talk.chunks  BY <2>1, <2>2, Reading DEF OneAhead
  <2>4. talk.synthesizing  BY <1>3, <2>1, <2>2, <2>3, Reading DEF AtTheEnd
  <2>. QED BY <2>4 DEF ReaderInv, Makers
<1>4. ReadThrough  BY <1>1, <1>2, <1>3 DEF ReadThrough
<1>. QED BY <1>4 DEF ReaderInv, ReadAloud

-----------------------------------------------------------------------------
(* Speech Note keeps its part.                                             *)

LEMMA StartersAre ==
    /\ \A h \in Listens : h \in Starters /\ h[1] = "listen" /\ h[2] \in Nat \ {0} /\ h = <<"listen", h[2]>>
    /\ \A h \in Reads : h \in Starters /\ h[1] = "speak" /\ h[2] \in Nat \ {0} /\ h = <<"speak", h[2]>>
    /\ \A h \in Starters : h \in Listens \/ h \in Reads
BY SpeechNoteAssumption DEF Listens, Reads, Starters

\* What is spent.
LEMMA Spent ==
    ASSUME NEW b \in {"listens", "reads", "clicks", "foreign", "faults"}, budget \in Budgets, Pay(b)
    PROVE  /\ budget' \in Budgets /\ budget'[b] = budget[b] - 1
           /\ \A c \in {"listens", "reads", "clicks", "foreign", "faults"} \ {b} : budget'[c] = budget[c]
BY DEF Pay, Budgets

\* A failure is one for good.
LEMMA FaultIsOne ==
    ASSUME NoteTyped, Fault
    PROVE  /\ ~NoFaultYet'
           /\ Purse'
<1>1. budget \in Budgets /\ budget.listens <= MaxListens /\ budget.reads <= MaxReads /\ budget.faults <= MaxFaults
  BY DEF NoteTyped, Purse
<1>2. budget' \in Budgets /\ budget'.faults = budget.faults - 1 /\ budget'.listens = budget.listens /\ budget'.reads = budget.reads
  BY <1>1, Spent DEF Fault
<1>3. MaxFaults \in Nat /\ budget.faults \in Nat  BY <1>1, SpeechNoteAssumption DEF Budgets
<1>. QED BY <1>1, <1>2, <1>3 DEF NoFaultYet, Purse

\* A click, or a task of another program, is none.
LEMMA PaidIsNoFault ==
    ASSUME NoteTyped, NEW b \in {"clicks", "foreign"}, Pay(b)
    PROVE  /\ NoFaultYet' => NoFaultYet
           /\ Purse'
<1>1. budget \in Budgets /\ budget.listens <= MaxListens /\ budget.reads <= MaxReads /\ budget.faults <= MaxFaults
  BY DEF NoteTyped, Purse
<1>2. budget' \in Budgets /\ budget'.faults = budget.faults /\ budget'.listens = budget.listens /\ budget'.reads = budget.reads
  BY <1>1, Spent
<1>3. NoFaultYet' => NoFaultYet  BY <1>2 DEF NoFaultYet
<1>. QED BY <1>1, <1>2, <1>3 DEF Purse

\* The budget of a step that costs nothing.
LEMMA NothingSpent ==
    ASSUME NoteTyped, UNCHANGED budget
    PROVE  /\ NoFaultYet' => NoFaultYet
           /\ Purse'
BY DEF NoteTyped, NoFaultYet, Purse

\* The records changed in one way or another are such records.
LEMMA ServiceChanged ==
    ASSUME NEW s \in ServiceRec
    PROVE  /\ \A state \in Int : [s EXCEPT !.state = state] \in ServiceRec
           /\ \A state \in Int, d \in Decodings : [s EXCEPT !.state = state, !.decoding = d] \in ServiceRec
           /\ \A does \in Does : [s EXCEPT !.does = does] \in ServiceRec
           /\ \A d \in Decodings : [s EXCEPT !.decoding = d] \in ServiceRec
           /\ \A task \in Int, does \in Does : [s EXCEPT !.task = task, !.does = does] \in ServiceRec
           /\ \A task \in Int, does \in Does, last \in Nat : [s EXCEPT !.task = task, !.does = does, !.last = last] \in ServiceRec
BY DEF ServiceRec

LEMMA StarterChanged ==
    ASSUME NEW s \in StarterRec
    PROVE  /\ \A pc \in StarterPc, first, unset \in BOOLEAN : [s EXCEPT !.pc = pc, !.first = first, !.unset = unset] \in StarterRec
           /\ \A first, unset \in BOOLEAN : [s EXCEPT !.first = first, !.unset = unset] \in StarterRec
           /\ \A first \in BOOLEAN, p \in Procs : [s EXCEPT !.first = first, !.proc = p] \in StarterRec
           /\ \A p \in Procs : [s EXCEPT !.proc = p] \in StarterRec
           /\ \A pc \in StarterPc, code \in StartCodes : [s EXCEPT !.pc = pc, !.code = code] \in StarterRec
           /\ \A pc \in StarterPc, task \in Int, code \in StartCodes, p \in Procs :
                  [s EXCEPT !.pc = pc, !.task = task, !.code = code, !.proc = p] \in StarterRec
           /\ \A pc \in StarterPc : [s EXCEPT !.pc = pc] \in StarterRec
BY DEF StarterRec

LEMMA StopperChanged ==
    ASSUME NEW s \in StopperRec
    PROVE  /\ \A pc \in StopperPc, code \in StopCodes, attached \in BOOLEAN, got \in Signals :
                  [s EXCEPT !.pc = pc, !.code = code, !.attached = attached, !.got = got] \in StopperRec
           /\ \A pc \in StopperPc, text \in Int, attached \in BOOLEAN, got \in Signals :
                  [s EXCEPT !.pc = pc, !.text = text, !.attached = attached, !.got = got] \in StopperRec
           /\ \A pc \in StopperPc, got \in Signals : [s EXCEPT !.pc = pc, !.got = got] \in StopperRec
           /\ \A pc \in StopperPc, task \in Int : [s EXCEPT !.pc = pc, !.task = task] \in StopperRec
           /\ \A pc \in StopperPc : [s EXCEPT !.pc = pc] \in StopperRec
           /\ \A got \in Signals : [s EXCEPT !.got = got] \in StopperRec
           /\ \A attached \in BOOLEAN : [s EXCEPT !.attached = attached] \in StopperRec
BY DEF StopperRec

LEMMA WaiterChanged ==
    ASSUME NEW w \in WaiterRec
    PROVE  /\ \A pc \in WaiterPc, watching \in BOOLEAN : [w EXCEPT !.pc = pc, !.watching = watching] \in WaiterRec
           /\ \A pc \in WaiterPc : [w EXCEPT !.pc = pc] \in WaiterRec
           /\ \A fails \in Nat : [w EXCEPT !.fails = fails] \in WaiterRec
           /\ \A heard \in BOOLEAN : [w EXCEPT !.heard = heard] \in WaiterRec
           /\ \A pc \in WaiterPc, task \in Int, reply \in Replies : [w EXCEPT !.pc = pc, !.task = task, !.reply = reply] \in WaiterRec
           /\ \A pc \in WaiterPc, task \in Int : [w EXCEPT !.pc = pc, !.task = task] \in WaiterRec
BY DEF WaiterRec

LEMMA DictationChanged ==
    ASSUME NEW d \in DictationState
    PROVE  /\ \A ph \in Phases, task \in Int, pending \in BOOLEAN :
                  [d EXCEPT !.phase = ph, !.task = task, !.pending = pending] \in DictationState
           /\ \A ph \in Phases, task \in Int : [d EXCEPT !.phase = ph, !.task = task] \in DictationState
           /\ \A ph \in Phases, now \in Nat : [d EXCEPT !.phase = ph, !.now = now] \in DictationState
           /\ \A ph \in Phases : [d EXCEPT !.phase = ph] \in DictationState
           /\ \A pending \in BOOLEAN : [d EXCEPT !.pending = pending] \in DictationState
BY DEF DictationState

LEMMA SpeechChanged ==
    ASSUME NEW s \in SpeechState
    PROVE  /\ \A task \in Int, now \in Nat : [s EXCEPT !.task = task, !.now = now] \in SpeechState
           /\ \A task \in Int : [s EXCEPT !.task = task] \in SpeechState
           /\ \A now \in Nat : [s EXCEPT !.now = now] \in SpeechState
BY DEF SpeechState

\* What is not on its way, or is by itself, does nothing anew.
NoneBegins == \A t \in Int : t <= svc.last /\ Doing(t)' => Doing(t)

\* Steps of the service, the starters and the stop, that leave the widget's side alone.
LEMMA ServiceSide ==
    ASSUME NoteTyped, NoteTyped', WhileWell, UNCHANGED <<keeper, orders, waiter, dictation, speech>>,
           svc.last <= svc'.last, svc'.task <= svc'.last, svc'.state = Absent => svc'.does = "nothing", NoneBegins,
           \A h \in Starters :
               /\ starter'[h].task \in {starter[h].task, NoTask}
               /\ \/ starter'[h].pc = starter[h].pc
                  \/ starter[h].pc \in {"poll", "call"} /\ starter'[h].pc \in {"poll", "call", "reply"},
           stopper'.pc = "off" <=> stopper.pc = "off", stopper'.task = stopper.task,
           stopper.pc \in {"monitor", "call"} => stopper'.pc \in {"monitor", "call"} \/ ~Doing(stopper.task)',
           Heard'
    PROVE  WhileWell'
<1>. USE DEF WhileWell
<1>1. /\ svc.last \in Nat /\ svc'.last \in Nat /\ dictation.task \in Int /\ keeper.task \in Int /\ stopper.task \in Int
      /\ \A h \in Starters : starter[h].task \in Int /\ starter'[h].task \in Int
      /\ \A h \in Reads : waiter[h].task \in Int
  BY DEF NoteTyped, ServiceRec, StarterRec, WaiterRec, DictationState, KeeperRec, StopperRec
<1>2. Tasks'  BY <1>1 DEF Tasks, NoTask
<1>3. Turns'  BY StartersAre DEF Turns
<1>4. OverIsOver'  BY <1>1 DEF OverIsOver, NoneBegins, Tasks
<1>5. ASSUME NEW h \in Listens, starter'[h].task # NoTask, Doing(starter[h].task)' PROVE ListenCared(h)'
  <2>1. h \in Starters /\ starter'[h].task = starter[h].task  BY <1>5, StartersAre
  <2>2. starter[h].task <= svc.last  BY <2>1 DEF Tasks
  <2>3. Doing(starter[h].task)  BY <1>1, <1>5, <2>1, <2>2 DEF NoneBegins, Doing
  <2>4. ListenCared(h)  BY <1>5, <2>1, <2>3 DEF Cared
  <2>5. Doing(starter[h].task)' <=> svc'.task = starter[h].task /\ svc'.does # "nothing"  BY <2>1 DEF Doing
  <2>6. Doing(stopper.task)' <=> svc'.task = stopper.task /\ svc'.does # "nothing"  BY DEF Doing
  <2>. QED BY <1>5, <2>1, <2>4, <2>5, <2>6 DEF ListenCared, Order
<1>6. ASSUME NEW h \in Reads, starter'[h].task # NoTask, Doing(starter[h].task)' PROVE ReadCared(h)'
  <2>1. h \in Starters /\ starter'[h].task = starter[h].task  BY <1>6, StartersAre
  <2>2. starter[h].task <= svc.last  BY <2>1 DEF Tasks
  <2>3. Doing(starter[h].task)  BY <1>1, <1>6, <2>1, <2>2 DEF NoneBegins, Doing
  <2>4. ReadCared(h)  BY <1>6, <2>1, <2>3 DEF Cared
  <2>. QED BY <2>1, <2>4 DEF ReadCared, Order
<1>7. Cared'  BY <1>5, <1>6 DEF Cared
<1>. QED BY <1>2, <1>3, <1>4, <1>7

\* Steps of wait_spoken and of what it hears.
LEMMA WaiterSide ==
    ASSUME NoteTyped, NoteTyped', WhileWell, UNCHANGED <<svc, starter, stopper, keeper, orders, dictation, speech, sent>>,
           \A h \in Reads : /\ waiter'[h].task = waiter[h].task /\ (waiter'[h].pc = "off" <=> waiter[h].pc = "off")
                            /\ waiter'[h].pc = "reply" /\ waiter'[h].reply # "sentence" =>
                                  \/ waiter[h].pc = "reply" /\ waiter'[h].reply = waiter[h].reply
                                  \/ ~Doing(waiter[h].task)
    PROVE  WhileWell'
<1>. USE DEF WhileWell
<1>1. Tasks'  BY DEF Tasks
<1>2. Turns'  BY DEF Turns
<1>3. OverIsOver'  BY DEF OverIsOver, Doing
<1>4. Cared' /\ Heard'  BY DEF Cared, ListenCared, ReadCared, Doing, Order, Heard, IsText
<1>. QED BY <1>1, <1>2, <1>3, <1>4

\* The step gives the widget no text, and ends no stop.
LEMMA GivesNothing == StopTrue /\ OwnText /\ UNCHANGED <<stopper, given>> => StopTrue' /\ OwnText'
BY DEF StopTrue, OwnText

\* And it leaves what the stop heard as it was.
LEMMA HeardAsBefore == Heard /\ UNCHANGED <<stopper, sent>> => Heard'
BY DEF Heard, IsText

\* Only the starter h has another record.
OnlyStarter(h) == starter' \in [Starters -> StarterRec] /\ \A g \in Starters \ {h} : starter'[g] = starter[g]

\* How the process of a starter ends.
LEMMA ExitsIs ==
    ASSUME NoteTyped, NEW h \in Starters, NEW p \in Procs, starter' = [starter EXCEPT ![h].proc = p]
    PROVE  OnlyStarter(h) /\ starter'[h].pc = starter[h].pc /\ starter'[h].task = starter[h].task
<1>. DEFINE d == [starter[h] EXCEPT !.proc = p]
<1>1. starter[h] \in StarterRec  BY DEF NoteTyped
<1>2. d \in StarterRec  BY <1>1, StarterChanged
<1>3. d.pc = starter[h].pc /\ d.task = starter[h].task  BY <1>1 DEF StarterRec
<1>4. starter' = [starter EXCEPT ![h] = d]  BY <1>1 DEF NoteTyped, StarterRec
<1>. HIDE DEF d
<1>. QED BY <1>2, <1>3, <1>4 DEF OnlyStarter, NoteTyped

LEMMA ComesKeeps == ASSUME NoteInv, NEW h \in Starters, Comes(h) PROVE NoteInv'
<1>. USE DEF NoteInv
<1>1. UNCHANGED <<keeper, orders, waiter, dictation, speech, given, sent, stopper>> /\ (UNCHANGED budget \/ Fault)
  BY DEF Comes, clientVars
<1>2. PICK p \in Procs : starter' = [starter EXCEPT ![h].proc = p]  BY DEF Comes, Exits, Procs
<1>3. OnlyStarter(h) /\ starter'[h].pc = starter[h].pc /\ starter'[h].task = starter[h].task  BY <1>2, ExitsIs
<1>4. svc' = svc \/ \E s \in {STATE_NOT_CONFIGURED, 2} : svc' = [svc EXCEPT !.state = s]
  BY DEF Comes
<1>9. svc' = svc \/ svc.state = Absent  BY DEF Comes
<1>5. /\ svc' \in ServiceRec /\ svc'.task = svc.task /\ svc'.does = svc.does /\ svc'.last = svc.last
      /\ svc'.state = Absent => svc.state = Absent
  <2>1. svc \in ServiceRec  BY DEF NoteTyped
  <2>. QED BY <1>4, <1>9, <2>1 DEF ServiceRec, STATE_NOT_CONFIGURED
<1>6. NoteTyped'
  <2>1. Purse'
    BY <1>1, FaultIsOne, NothingSpent
  <2>. QED BY <1>1, <1>3, <1>5, <2>1 DEF NoteTyped, OnlyStarter
<1>7. StopTrue' /\ OwnText'  BY <1>1, GivesNothing
<1>8. ASSUME NoFaultYet' PROVE WhileWell'
  <2>1. UNCHANGED budget  BY <1>1, <1>8, FaultIsOne
  <2>2. WhileWell  BY <1>8, <2>1 DEF NoFaultYet
  <2>3. NoneBegins  BY <1>5 DEF NoneBegins, Doing
  <2>4. \A g \in Starters : starter'[g].task = starter[g].task /\ starter'[g].pc = starter[g].pc  BY <1>3 DEF OnlyStarter
  <2>5. svc.last \in Nat /\ svc.task <= svc.last /\ (svc.state = Absent => svc.does = "nothing")
    BY <2>2 DEF WhileWell, Tasks, NoteTyped, ServiceRec
  <2>6. Heard'  BY <1>1, <2>2, HeardAsBefore DEF WhileWell
  <2>7. svc.last <= svc'.last /\ svc'.task <= svc'.last /\ (svc'.state = Absent => svc'.does = "nothing")  BY <1>5, <2>5
  <2>8. stopper.pc \in {"monitor", "call"} => stopper'.pc \in {"monitor", "call"}  BY <1>1
  <2>. QED BY <1>1, <1>6, <2>2, <2>3, <2>4, <2>6, <2>7, <2>8, ServiceSide
<1>. QED BY <1>6, <1>7, <1>8

\* A step of the service alone.
LEMMA ServiceMoves ==
    ASSUME NoteInv, UNCHANGED <<keeper, orders, waiter, dictation, speech, given, sent, stopper, starter>>,
           svc' \in ServiceRec, svc'.last >= svc.last, svc'.task <= svc'.last \/ svc'.task = svc.task,
           svc'.state = Absent => svc'.does = "nothing" \/ (svc.state = Absent /\ svc'.does = svc.does),
           NoneBegins, NoFaultYet' => NoFaultYet,
           Purse'
    PROVE  NoteInv'
<1>. USE DEF NoteInv
<1>1. NoteTyped'  BY DEF NoteTyped
<1>2. StopTrue' /\ OwnText'  BY GivesNothing
<1>3. ASSUME NoFaultYet' PROVE WhileWell'
  <2>1. WhileWell  BY <1>3
  <2>2. /\ svc.last \in Nat /\ svc'.last \in Nat /\ svc.task <= svc.last /\ (svc.state = Absent => svc.does = "nothing")
        /\ svc.task \in Int /\ svc'.task \in Int
    BY <2>1 DEF WhileWell, Tasks, NoteTyped, ServiceRec
  <2>3. Heard'  BY <2>1, HeardAsBefore DEF WhileWell
  <2>4. svc.last <= svc'.last /\ svc'.task <= svc'.last /\ (svc'.state = Absent => svc'.does = "nothing")  BY <2>2
  <2>. QED BY <1>1, <2>1, <2>3, <2>4, ServiceSide
<1>. QED BY <1>1, <1>2, <1>3

\* A step that fails something has to keep little.
LEMMA FaultKeeps == ASSUME NoteInv, NoteTyped', StopTrue', OwnText', Fault PROVE NoteInv'
BY FaultIsOne DEF NoteInv

LEMMA LoadsKeeps == ASSUME NoteInv, Loads PROVE NoteInv'
<1>1. /\ UNCHANGED <<keeper, orders, waiter, dictation, speech, given, sent, stopper, starter, budget>>
      /\ svc' = [svc EXCEPT !.state = 3] /\ svc \in ServiceRec
  BY DEF Loads, clientVars, STATE_IDLE, NoteInv, NoteTyped
<1>2. svc' \in ServiceRec  BY <1>1 DEF ServiceRec
<1>3. svc'.task = svc.task /\ svc'.does = svc.does /\ svc'.last = svc.last /\ svc'.state = 3 /\ svc.last \in Nat  BY <1>1, <1>2 DEF ServiceRec
<1>4. NoneBegins  BY <1>3 DEF NoneBegins, Doing
<1>. QED BY <1>1, <1>2, <1>3, <1>4, ServiceMoves, NothingSpent DEF Absent, NoteInv

LEMMA NewTaskIs ==
    ASSUME NoteTyped, NEW does \in Does, NEW new, new = svc.last + 1, svc' = NewTask(does, new)
    PROVE  /\ svc' \in ServiceRec /\ svc'.task = new /\ svc'.does = does /\ svc'.last = new /\ svc'.state = svc.state
           /\ svc'.decoding = svc.decoding /\ new \in Nat /\ svc.last \in Nat /\ svc.last < new
<1>1. svc \in ServiceRec /\ svc.last \in Nat /\ new \in Nat /\ svc.last < new  BY DEF NoteTyped, ServiceRec
<1>2. svc' = [svc EXCEPT !.task = new, !.does = does, !.last = new]  BY DEF NewTask
<1>3. svc' \in ServiceRec
  <2>1. \A task \in Int, last \in Nat : [svc EXCEPT !.task = task, !.does = does, !.last = last] \in ServiceRec
    BY <1>1, ServiceChanged
  <2>2. new \in Int /\ new \in Nat  BY <1>1
  <2>. QED BY ONLY <1>2, <2>1, <2>2
<1>. QED BY <1>1, <1>2, <1>3 DEF ServiceRec

LEMMA ForeignKeeps == ASSUME NoteInv, Foreign PROVE NoteInv'
<1>1. /\ UNCHANGED <<keeper, orders, waiter, dictation, speech, given, sent, stopper, starter>> /\ Pay("foreign") /\ svc.state = STATE_IDLE
  BY DEF Foreign, Accepts, clientVars
<1>2. PICK does \in Does : svc' = NewTask(does, svc.last + 1)  BY DEF Foreign, Does
<1>3. /\ svc' \in ServiceRec /\ svc'.task = svc'.last /\ svc'.state = svc.state
      /\ svc.last \in Nat /\ svc'.last \in Nat /\ svc.last < svc'.last
  BY <1>2, NewTaskIs DEF NoteInv
<1>4. NoneBegins  BY <1>3 DEF NoneBegins, Doing
<1>5. /\ NoFaultYet' => NoFaultYet
      /\ Purse'
  BY <1>1, PaidIsNoFault DEF NoteInv
<1>. QED BY <1>1, <1>3, <1>4, <1>5, ServiceMoves DEF STATE_IDLE, Absent

\* The service has nothing to do.
LEMMA RestsIs ==
    ASSUME NoteTyped, NEW s, s = Rests(svc)
    PROVE  s \in ServiceRec /\ s.task = NoTask /\ s.does = "nothing" /\ s.last = svc.last /\ s.state = svc.state /\ s.decoding = svc.decoding
           /\ svc.last \in Nat /\ NoTask <= svc.last
<1>1. svc \in ServiceRec /\ NoTask \in Int /\ "nothing" \in Does  BY DEF NoteTyped, NoTask, Does
<1>2. s \in ServiceRec  BY <1>1, ServiceChanged DEF Rests
<1>3. svc.last \in Nat  BY <1>1 DEF ServiceRec
<1>. QED BY <1>1, <1>2, <1>3 DEF Rests, ServiceRec, NoTask

LEMMA LeavesKeeps == ASSUME NoteInv, Leaves PROVE NoteInv'
<1>1. /\ UNCHANGED <<keeper, orders, waiter, dictation, speech, given, sent, stopper, starter>> /\ Fault
      /\ svc' = [Rests(svc) EXCEPT !.state = Absent, !.decoding = {}]
  BY DEF Leaves, clientVars
<1>2. Rests(svc) \in ServiceRec  BY RestsIs DEF NoteInv
<1>3. svc' \in ServiceRec
  <2>. DEFINE s == Rests(svc)
  <2>1. svc' = [s EXCEPT !.state = Absent, !.decoding = {}] /\ {} \in Decodings /\ Absent \in Int  BY <1>1 DEF Absent, Decodings
  <2>2. s \in ServiceRec  BY <1>2
  <2>. HIDE DEF s
  <2>. QED BY <2>1, <2>2, ServiceChanged
<1>4. NoteTyped'  BY <1>1, <1>3, FaultIsOne DEF NoteTyped, NoteInv
<1>. QED BY <1>1, <1>4, GivesNothing, FaultKeeps DEF NoteInv

LEMMA TaskOverKeeps == ASSUME NoteInv, Over PROVE NoteInv'
<1>1. UNCHANGED <<keeper, orders, waiter, dictation, speech, given, sent, stopper, starter, budget>>
  BY DEF Over, clientVars
<1>2. /\ svc' \in ServiceRec /\ svc'.task = NoTask /\ svc'.does = "nothing" /\ svc'.last = svc.last
      /\ svc.last \in Nat /\ NoTask <= svc.last
  <2>. DEFINE s == Rests(svc)
  <2>1. s \in ServiceRec /\ s.task = NoTask /\ s.does = "nothing" /\ s.last = svc.last /\ svc.last \in Nat /\ NoTask <= svc.last
    BY RestsIs DEF NoteInv
  <2>2. svc' = s \/ svc' = [s EXCEPT !.decoding = s.decoding \cup {svc.task}]  BY DEF Over
  <2>3. s.decoding \cup {svc.task} \in Decodings
    <3>1. svc.task \in Int  BY DEF NoteInv, NoteTyped, ServiceRec
    <3>2. s.decoding \in Decodings  BY <2>1 DEF ServiceRec
    <3>. QED BY <3>1, <3>2 DEF Decodings
  <2>. HIDE DEF s
  <2>4. svc' \in ServiceRec  BY <2>1, <2>2, <2>3, ServiceChanged
  <2>. QED BY <2>1, <2>2, <2>4 DEF ServiceRec
<1>3. NoneBegins  BY <1>2 DEF NoneBegins, Doing
<1>. QED BY <1>1, <1>2, <1>3, ServiceMoves, NothingSpent DEF NoteInv

\* What the monitor of the stop gets.
LEMMA ToldIs ==
    ASSUME NoteTyped, NEW signal \in Signal, stopper' = Told(signal)
    PROVE  /\ stopper' \in StopperRec /\ stopper'.pc = stopper.pc /\ stopper'.task = stopper.task /\ stopper'.text = stopper.text
           /\ stopper'.code = stopper.code /\ stopper'.attached = stopper.attached
           /\ stopper'.got = IF stopper.attached THEN Append(stopper.got, signal) ELSE stopper.got
<1>1. stopper \in StopperRec  BY DEF NoteTyped
<1>2. stopper.got \in Seq(Signal)  BY <1>1 DEF StopperRec, Signals
<1>3. Append(stopper.got, signal) \in Signals  BY <1>2 DEF Signals
<1>4. stopper' = stopper \/ stopper' = [stopper EXCEPT !.got = Append(stopper.got, signal)]  BY DEF Told
<1>5. stopper' \in StopperRec  BY <1>1, <1>3, <1>4, StopperChanged
<1>. QED BY <1>1, <1>5 DEF StopperRec, Told

LEMMA TextDecodedKeeps == ASSUME NoteInv, TextDecoded PROVE NoteInv'
<1>. USE DEF NoteInv
<1>1. PICK t \in svc.decoding :
        /\ svc' = [svc EXCEPT !.decoding = @ \ {t}]
        /\ stopper' = Told([member |-> "SttTextDecoded", task |-> t])
        /\ sent' = IF stopper.pc = "text" /\ stopper.task = t THEN sent \cup {t} ELSE sent
        /\ UNCHANGED <<starter, keeper, orders, waiter, dictation, speech, given, budget>>
  BY DEF TextDecoded
<1>. DEFINE signal == [member |-> "SttTextDecoded", task |-> t]
<1>2. svc \in ServiceRec /\ svc.decoding \in SUBSET Int /\ t \in Int  BY DEF NoteTyped, ServiceRec, Decodings
<1>3. signal \in Signal /\ signal.member = "SttTextDecoded" /\ signal.task = t  BY <1>2 DEF Signal
<1>. HIDE DEF signal
<1>4. /\ stopper' \in StopperRec /\ stopper'.pc = stopper.pc /\ stopper'.task = stopper.task /\ stopper'.text = stopper.text
      /\ stopper'.code = stopper.code /\ stopper'.attached = stopper.attached
      /\ stopper'.got = IF stopper.attached THEN Append(stopper.got, signal) ELSE stopper.got
  <2>1. stopper' = Told(signal)  BY <1>1 DEF signal
  <2>. QED BY <1>3, <2>1, ToldIs
<1>5. svc' \in ServiceRec /\ svc'.state = svc.state /\ svc'.task = svc.task /\ svc'.does = svc.does /\ svc'.last = svc.last
  <2>1. svc.decoding \ {t} \in Decodings  BY <1>2 DEF Decodings
  <2>2. svc' \in ServiceRec  BY <1>1, <1>2, <2>1, ServiceChanged
  <2>. QED BY <1>1, <1>2, <2>2 DEF ServiceRec
<1>6. NoteTyped'
  <2>1. sent' \in SUBSET Int  BY <1>1, <1>2 DEF NoteTyped
  <2>. QED BY <1>1, <1>4, <1>5, <2>1, NothingSpent DEF NoteTyped
<1>7. StopTrue' /\ OwnText'  BY <1>1, <1>4 DEF StopTrue, OwnText
<1>8. ASSUME NoFaultYet' PROVE WhileWell'
  <2>1. WhileWell  BY <1>1, <1>8 DEF NoFaultYet
  <2>2. stopper.got \in Seq(Signal)  BY DEF NoteTyped, StopperRec, Signals
  <2>3. Heard  BY <2>1 DEF WhileWell
  <2>4. Heard'
    <3>1. stopper.pc \in {"call", "text"} => stopper'.attached  BY <1>4, <2>3 DEF Heard
    <3>2. \A i \in 1 .. Len(stopper'.got) : stopper'.got[i].member = "SttTextDecoded"
      <4>1. CASE stopper.attached
        <5>1. stopper'.got = Append(stopper.got, signal)  BY <1>4, <4>1
        <5>2. \A i \in 1 .. Len(stopper.got) : stopper.got[i].member = "SttTextDecoded"  BY <2>3 DEF Heard
        <5>. QED BY <1>3, <2>2, <5>1, <5>2
      <4>2. CASE ~stopper.attached  BY <1>4, <2>3, <4>2 DEF Heard
      <4>. QED BY <4>1, <4>2
    <3>3. ASSUME stopper.pc = "text", stopper.task \in sent' 
          PROVE  \E i \in 1 .. Len(stopper'.got) : stopper'.got[i].member = "SttTextDecoded" /\ stopper'.got[i].task = stopper'.task
      <4>1. stopper'.got = Append(stopper.got, signal)  BY <1>4, <2>3, <3>3 DEF Heard
      <4>2. CASE stopper.task \in sent
        <5>1. PICK i \in 1 .. Len(stopper.got) : IsText(stopper.got[i])  BY <2>3, <3>3, <4>2 DEF Heard
        <5>2. i \in 1 .. Len(stopper'.got) /\ stopper'.got[i] = stopper.got[i]  BY <2>2, <4>1
        <5>. QED BY <1>4, <5>1, <5>2 DEF IsText
      <4>3. CASE stopper.task = t
        <5>1. Len(stopper'.got) \in 1 .. Len(stopper'.got) /\ stopper'.got[Len(stopper'.got)] = signal  BY <2>2, <4>1
        <5>. QED BY <1>3, <1>4, <4>3, <5>1 DEF IsText
      <4>. QED BY <1>1, <3>3, <4>2, <4>3
    <3>4. \A s \in sent' : stopper'.task = s /\ stopper'.pc \in {"text", "reply"}  BY <1>1, <1>4, <2>3 DEF Heard
    <3>5. stopper'.pc = "reply" /\ stopper'.task \in sent' => stopper'.code = ""  BY <1>1, <1>4, <2>3 DEF Heard
    <3>. QED BY <1>4, <3>1, <3>2, <3>3, <3>4, <3>5 DEF Heard, IsText
  <2>5. NoneBegins  BY <1>5 DEF NoneBegins, Doing
  <2>6. /\ svc.last \in Nat /\ svc'.task <= svc'.last /\ (svc'.state = Absent => svc'.does = "nothing")
    BY <1>2, <1>5, <2>1 DEF WhileWell, Tasks, ServiceRec
  <2>7. svc.last <= svc'.last  BY <1>5, <2>6
  <2>. QED BY <1>1, <1>4, <1>6, <2>1, <2>4, <2>5, <2>6, <2>7, ServiceSide
<1>. QED BY <1>6, <1>7, <1>8

LEMMA ErrorOccuredKeeps == ASSUME NoteInv, ErrorOccured PROVE NoteInv'
<1>. USE DEF NoteInv
<1>. DEFINE signal == [member |-> "ErrorOccured", task |-> NoTask]
<1>1. /\ UNCHANGED <<keeper, orders, waiter, dictation, speech, given, sent, starter>> /\ Fault
      /\ svc' = Rests(svc) /\ stopper' = Told(signal)
  BY DEF ErrorOccured, clientVars
<1>2. signal \in Signal  BY DEF Signal, NoTask
<1>. HIDE DEF signal
<1>3. /\ stopper' \in StopperRec /\ stopper'.pc = stopper.pc /\ stopper'.task = stopper.task /\ stopper'.text = stopper.text
      /\ stopper'.code = stopper.code
  BY <1>1, <1>2, ToldIs
<1>4. svc' \in ServiceRec  BY <1>1, RestsIs
<1>5. NoteTyped'  BY <1>1, <1>3, <1>4, FaultIsOne DEF NoteTyped
<1>6. StopTrue' /\ OwnText'  BY <1>1, <1>3 DEF StopTrue, OwnText
<1>. QED BY <1>1, <1>5, <1>6, FaultKeeps

LEMMA SentenceKeeps == ASSUME NoteInv, Sentence PROVE NoteInv'
<1>. USE DEF NoteInv
<1>. DEFINE w(h) == IF waiter[h].watching /\ waiter[h].task = svc.task THEN [waiter[h] EXCEPT !.heard = TRUE] ELSE waiter[h]
<1>1. /\ UNCHANGED <<svc, starter, stopper, keeper, orders, dictation, speech, given, sent, budget>>
      /\ waiter' = [h \in Reads |-> w(h)]
  BY DEF Sentence
<1>2. \A h \in Reads : /\ w(h) \in WaiterRec /\ w(h).task = waiter[h].task /\ w(h).pc = waiter[h].pc /\ w(h).reply = waiter[h].reply
  <2>1. SUFFICES ASSUME NEW h \in Reads
                 PROVE  /\ w(h) \in WaiterRec /\ w(h).task = waiter[h].task /\ w(h).pc = waiter[h].pc /\ w(h).reply = waiter[h].reply
    OBVIOUS
  <2>2. waiter[h] \in WaiterRec  BY DEF NoteTyped
  <2>3. w(h) \in WaiterRec  BY <2>2, WaiterChanged
  <2>. QED BY <2>2, <2>3 DEF WaiterRec
<1>. HIDE DEF w
<1>3. NoteTyped'  BY <1>1, <1>2, NothingSpent DEF NoteTyped
<1>4. NoFaultYet' => WhileWell'  BY <1>1, <1>2, <1>3, WaiterSide DEF NoFaultYet
<1>. QED BY <1>1, <1>3, <1>4, GivesNothing

\* A starter gets another record.
LEMMA StarterGets ==
    ASSUME NoteTyped, NEW h \in Starters, NEW d \in StarterRec, starter' = [starter EXCEPT ![h] = d]
    PROVE  OnlyStarter(h) /\ starter'[h] = d
BY DEF OnlyStarter, NoteTyped

\* The answer of a starter.
LEMMA AnswersIs ==
    ASSUME NoteTyped, NEW h \in Starters, NEW task \in Int, NEW code \in StartCodes, Answers(h, task, code)
    PROVE  OnlyStarter(h) /\ starter'[h].pc = "reply" /\ starter'[h].task = task
<1>. DEFINE p == IF starter[h].proc = "up" THEN "up" ELSE "none"
            d == [Off EXCEPT !.pc = "reply", !.task = task, !.code = code, !.proc = p]
<1>1. p \in Procs /\ "reply" \in StarterPc  BY DEF Procs, StarterPc
<1>. HIDE DEF p
<1>2. Off \in StarterRec
  <2>1. "off" \in StarterPc  BY DEF StarterPc
  <2>2. "none" \in Procs  BY DEF Procs
  <2>3. "" \in StartCodes  BY DEF StartCodes
  <2>4. NoTask \in Int  BY DEF NoTask
  <2>. QED BY <2>1, <2>2, <2>3, <2>4 DEF Off, StarterRec
<1>3. d \in StarterRec  BY <1>1, <1>2, StarterChanged
<1>4. d.pc = "reply" /\ d.task = task  BY DEF Off
<1>5. starter' = [starter EXCEPT ![h] = d]  BY DEF Answers, p
<1>. HIDE DEF d
<1>. QED BY <1>3, <1>4, <1>5, StarterGets

\* A step of a starter alone.
LEMMA StarterMoves ==
    ASSUME NoteInv, NEW h \in Starters, OnlyStarter(h), starter[h].pc \in {"poll", "call"}, starter'[h].pc \in {"poll", "call", "reply"},
           starter'[h].task \in {starter[h].task, NoTask}, UNCHANGED <<svc, clientVars, stopper>>, UNCHANGED budget \/ Fault
    PROVE  NoteInv'
<1>. USE DEF NoteInv
<1>1. NoteTyped'  BY FaultIsOne, NothingSpent DEF NoteTyped, OnlyStarter, clientVars
<1>2. StopTrue' /\ OwnText'  BY GivesNothing DEF clientVars
<1>3. ASSUME NoFaultYet' PROVE WhileWell'
  <2>1. UNCHANGED budget  BY <1>3, FaultIsOne
  <2>2. WhileWell  BY <1>3, <2>1 DEF NoFaultYet
  <2>3. Heard'  BY <2>2, HeardAsBefore DEF WhileWell, clientVars
  <2>4. NoneBegins  BY DEF NoneBegins, Doing
  <2>5. svc.last \in Nat /\ svc.task <= svc.last /\ (svc.state = Absent => svc.does = "nothing")
    BY <2>2 DEF WhileWell, Tasks, NoteTyped, ServiceRec
  <2>6. \A g \in Starters :
               /\ starter'[g].task \in {starter[g].task, NoTask}
               /\ \/ starter'[g].pc = starter[g].pc
                  \/ starter[g].pc \in {"poll", "call"} /\ starter'[g].pc \in {"poll", "call", "reply"}
    BY DEF OnlyStarter
  <2>7. svc.last <= svc'.last /\ svc'.task <= svc'.last /\ (svc'.state = Absent => svc'.does = "nothing")  BY <2>5
  <2>. QED BY <1>1, <2>2, <2>3, <2>4, <2>6, <2>7, ServiceSide DEF clientVars
<1>. QED BY <1>1, <1>2, <1>3

LEMMA FailsIs ==
    ASSUME NoteTyped, NEW h \in Starters, NEW code \in StartCodes, Fails(h, code)
    PROVE  OnlyStarter(h) /\ starter'[h].pc = "reply" /\ starter'[h].task = NoTask
BY AnswersIs DEF Fails, NoTask

\* What ensure_ready can come to.
LEMMA EnsureReadyIs ==
    ASSUME NoteTyped, NEW h \in Starters, ensure_ready(h)
    PROVE  OnlyStarter(h) /\ starter'[h].pc \in {"poll", "call", "reply"} /\ starter'[h].task \in {starter[h].task, NoTask}
<1>. DEFINE S == starter[h]
            unset == svc.state = STATE_NOT_CONFIGURED
            d1 == [S EXCEPT !.pc = "call", !.first = TRUE, !.unset = FALSE]
            d2 == [S EXCEPT !.first = FALSE, !.proc = "up"]
            d3 == [S EXCEPT !.first = FALSE, !.unset = unset]
            Stays(d) == starter' = [starter EXCEPT ![h] = d] /\ d \in StarterRec /\ d.pc \in {"poll", "call", "reply"} /\ d.task = S.task
<1>1. S \in StarterRec /\ S.pc = "poll"  BY DEF NoteTyped, ensure_ready
<1>2. unset \in BOOLEAN  OBVIOUS
<1>. HIDE DEF unset
<1>3. d1 \in StarterRec /\ d2 \in StarterRec /\ d3 \in StarterRec
  <2>1. "call" \in StarterPc /\ "up" \in Procs  BY DEF StarterPc, Procs
  <2>. QED BY <1>1, <1>2, <2>1, StarterChanged
<1>4. d1.pc = "call" /\ d2.pc = "poll" /\ d3.pc = "poll" /\ d1.task = S.task /\ d2.task = S.task /\ d3.task = S.task
  BY <1>1 DEF StarterRec
<1>5. \/ starter' = [starter EXCEPT ![h].pc = "call", ![h].first = TRUE, ![h].unset = FALSE]
      \/ starter' = [starter EXCEPT ![h].first = FALSE, ![h].proc = "up"]
      \/ starter' = [starter EXCEPT ![h].first = FALSE, ![h].unset = unset]
      \/ \E code \in StartCodes : Fails(h, code)
  BY DEF ensure_ready, unset, StartCodes
<1>6. CASE starter' = [starter EXCEPT ![h].pc = "call", ![h].first = TRUE, ![h].unset = FALSE]
  <2>1. starter' = [starter EXCEPT ![h] = d1]  BY <1>1, <1>6 DEF NoteTyped, StarterRec
  <2>. HIDE DEF d1
  <2>. QED BY <1>3, <1>4, <2>1, StarterGets
<1>7. CASE starter' = [starter EXCEPT ![h].first = FALSE, ![h].proc = "up"]
  <2>1. starter' = [starter EXCEPT ![h] = d2]  BY <1>1, <1>7 DEF NoteTyped, StarterRec
  <2>. HIDE DEF d2
  <2>. QED BY <1>3, <1>4, <2>1, StarterGets
<1>8. CASE starter' = [starter EXCEPT ![h].first = FALSE, ![h].unset = unset]
  <2>1. starter' = [starter EXCEPT ![h] = d3]  BY <1>1, <1>8 DEF NoteTyped, StarterRec
  <2>. HIDE DEF d3
  <2>. QED BY <1>3, <1>4, <2>1, StarterGets
<1>9. CASE \E code \in StartCodes : Fails(h, code)  BY <1>9, FailsIs
<1>. QED BY <1>5, <1>6, <1>7, <1>8, <1>9

LEMMA EnsureReadyKeeps == ASSUME NoteInv, NEW h \in Starters, ensure_ready(h) PROVE NoteInv'
<1>1. starter[h].pc = "poll" /\ UNCHANGED <<svc, clientVars, stopper>> /\ (UNCHANGED budget \/ Fault)  BY DEF ensure_ready
<1>2. OnlyStarter(h) /\ starter'[h].pc \in {"poll", "call", "reply"} /\ starter'[h].task \in {starter[h].task, NoTask}
  BY EnsureReadyIs DEF NoteInv
<1>. QED BY <1>1, <1>2, StarterMoves

LEMMA StarterKilledKeeps == ASSUME NoteInv, NEW h \in Starters, StarterKilled(h) PROVE NoteInv'
<1>1. starter[h].pc \in {"poll", "call"} /\ UNCHANGED <<svc, clientVars, stopper>> /\ Fault  BY DEF StarterKilled
<1>2. "bus_error" \in StartCodes /\ Fails(h, "bus_error")  BY DEF StarterKilled, StartCodes
<1>3. OnlyStarter(h) /\ starter'[h].pc = "reply" /\ starter'[h].task = NoTask  BY <1>2, FailsIs DEF NoteInv
<1>. QED BY <1>1, <1>3, StarterMoves

\* A new task is nobody's but the caller's.
LEMMA NewTaskKeeps ==
    ASSUME NoteInv, NEW h \in Starters, NEW does \in Does, svc.state = STATE_IDLE, svc' = NewTask(does, svc.last + 1),
           starter[h].pc = "call", OnlyStarter(h), starter'[h].pc = "reply", starter'[h].task = svc.last + 1,
           UNCHANGED <<clientVars, stopper, budget>>
    PROVE  NoteInv'
<1>. USE DEF NoteInv
<1>1. /\ svc' \in ServiceRec /\ svc'.task = svc'.last /\ svc'.state = svc.state /\ svc.last \in Nat /\ svc'.last \in Nat
      /\ svc.last < svc'.last /\ svc'.last = svc.last + 1
  BY NewTaskIs
<1>2. NoteTyped'  BY <1>1, NothingSpent DEF NoteTyped, OnlyStarter, clientVars
<1>3. StopTrue' /\ OwnText'  BY GivesNothing DEF clientVars
<1>4. ASSUME NoFaultYet' PROVE WhileWell'
  <2>. USE DEF clientVars
  <2>1. WhileWell  BY <1>4 DEF NoFaultYet
  <2>2. Tasks /\ Turns /\ OverIsOver /\ Cared /\ Heard  BY <2>1 DEF WhileWell
  <2>3. /\ dictation.task \in Int /\ keeper.task \in Int
        /\ \A g \in Starters : starter[g].task \in Int /\ starter'[g].task \in Int
        /\ \A g \in Reads : waiter[g].task \in Int
    BY <1>2 DEF NoteTyped, StarterRec, WaiterRec, DictationState, KeeperRec
  <2>4. \A t \in Int : t <= svc.last => ~Doing(t)'  BY <1>1 DEF Doing, ServiceRec
  <2>5. \A g \in Starters \ {h} : starter'[g] = starter[g]  BY DEF OnlyStarter
  <2>6. Tasks'
    <3>1. svc'.state # Absent /\ svc'.task <= svc'.last  BY <1>1 DEF STATE_IDLE, Absent
    <3>2. \A g \in Starters : starter[g].task <= svc.last  BY <2>2 DEF Tasks
    <3>3. ASSUME NEW g \in Starters
          PROVE  /\ starter'[g].task <= svc'.last
                 /\ starter'[g].pc \in {"off", "poll", "call"} => starter'[g].task = NoTask
      BY <1>1, <2>2, <2>3, <2>5, <3>2 DEF Tasks
    <3>4. ASSUME NEW g \in Starters, NEW f \in Starters, starter'[g].task # NoTask, starter'[f].task = starter'[g].task PROVE f = g
      BY <1>1, <2>2, <2>3, <2>5, <3>2, <3>4 DEF Tasks
    <3>5. dictation.task <= svc'.last /\ \A g \in Reads : waiter[g].task <= svc'.last  BY <1>1, <2>2, <2>3 DEF Tasks
    <3>. QED BY <3>1, <3>3, <3>4, <3>5 DEF Tasks
  <2>7. Turns'  BY <2>2, <2>5, StartersAre DEF Turns
  <2>8. OverIsOver'  BY <1>1, <2>2, <2>3, <2>4 DEF OverIsOver, Tasks
  <2>9. Cared'
    <3>1. ASSUME NEW g \in Starters \ {h} PROVE ~Doing(starter[g].task)'
      <4>1. starter'[g].task = starter[g].task /\ starter[g].task <= svc.last /\ starter[g].task \in Int  BY <2>2, <2>3, <2>5 DEF Tasks
      <4>. QED BY <2>4, <4>1 DEF Doing
    <3>2. \A g \in Starters : Doing(starter[g].task)' => starter'[g].pc = "reply"  BY <3>1
    <3>. QED BY <3>2, StartersAre DEF Cared, ListenCared, ReadCared, Doing
  <2>. QED BY <2>2, <2>6, <2>7, <2>8, <2>9, HeardAsBefore DEF WhileWell
<1>. QED BY <1>2, <1>3, <1>4

LEMMA CallsServiceKeeps == ASSUME NoteInv, NEW h \in Starters, CallsService(h) PROVE NoteInv'
<1>. USE DEF NoteInv
<1>. DEFINE new == svc.last + 1
            does == IF h \in Listens THEN "listening" ELSE "speaking"
<1>1. starter[h].pc = "call" /\ UNCHANGED <<clientVars, stopper>> /\ does \in Does  BY DEF CallsService, Does
<1>2. \/ svc.state = STATE_IDLE /\ svc' = NewTask(does, new) /\ Answers(h, new, "") /\ UNCHANGED budget
      \/ (\E code \in StartCodes : Fails(h, code)) /\ UNCHANGED <<svc, budget>>
      \/ Fault /\ Fails(h, "bus_error") /\ (svc' = svc \/ svc' = NewTask(does, new))
  BY DEF CallsService, Accepts, refused, StartCodes
<1>. HIDE DEF does
<1>3. CASE svc.state = STATE_IDLE /\ svc' = NewTask(does, new) /\ Answers(h, new, "") /\ UNCHANGED budget
  <2>1. new \in Int  BY DEF NoteTyped, ServiceRec
  <2>2. "" \in StartCodes  BY DEF StartCodes
  <2>3. OnlyStarter(h) /\ starter'[h].pc = "reply" /\ starter'[h].task = new  BY <1>3, <2>1, <2>2, AnswersIs
  <2>. QED BY <1>1, <1>3, <2>3, NewTaskKeeps
<1>4. CASE (\E code \in StartCodes : Fails(h, code)) /\ UNCHANGED <<svc, budget>>
  <2>1. OnlyStarter(h) /\ starter'[h].pc = "reply" /\ starter'[h].task = NoTask  BY <1>4, FailsIs
  <2>. QED BY <1>1, <1>4, <2>1, StarterMoves
<1>5. CASE Fault /\ Fails(h, "bus_error") /\ (svc' = svc \/ svc' = NewTask(does, new))
  <2>1. OnlyStarter(h)
    <3>1. "bus_error" \in StartCodes  BY DEF StartCodes
    <3>. QED BY <1>5, <3>1, FailsIs
  <2>2. svc' \in ServiceRec  BY <1>1, <1>5, NewTaskIs DEF NoteTyped
  <2>3. NoteTyped'  BY <1>1, <1>5, <2>1, <2>2, FaultIsOne DEF NoteTyped, OnlyStarter, clientVars
  <2>. QED BY <1>1, <1>5, <2>3, GivesNothing, FaultKeeps DEF clientVars
<1>. QED BY <1>2, <1>3, <1>4, <1>5

LEMMA NoPlace == \A i \in 1 .. 0 : FALSE
OBVIOUS

\* A stop that has heard nothing, or nothing that matters.
LEMMA HeardNothing ==
    ASSUME Heard, UNCHANGED sent, stopper.pc \in {"monitor", "call", "text"}, stopper.task \in sent => stopper'.code = "",
           stopper'.task = stopper.task, stopper'.got = <<>>,
           stopper'.pc = "reply" \/ (stopper.pc # "text" /\ stopper'.pc = "call" /\ stopper'.attached)
    PROVE  Heard'
<1>1. Len(stopper'.got) = 0
  <2>1. Len(<<>>) = 0  OBVIOUS
  <2>. QED BY <2>1
<1>2. \A i \in 1 .. Len(stopper'.got) : stopper'.got[i].member = "SttTextDecoded"  BY <1>1, NoPlace
<1>3. stopper'.pc # "text"  OBVIOUS
<1>4. \A t \in sent' : stopper'.task = t /\ stopper'.pc \in {"text", "reply"}  BY DEF Heard
<1>5. stopper'.pc = "reply" /\ stopper'.task \in sent' => stopper'.code = ""  OBVIOUS
<1>. QED BY <1>2, <1>3, <1>4, <1>5 DEF Heard

\* A step of the stop, that may end what the service does.
LEMMA StopMoves ==
    ASSUME NoteInv, UNCHANGED <<starter, clientVars>>, UNCHANGED budget \/ Fault, stopper' \in StopperRec, svc' \in ServiceRec,
           StopTrue', stopper.pc # "off", stopper'.pc # "off", stopper'.task = stopper.task,
           svc' = svc \/ (svc'.task = NoTask /\ svc'.does = "nothing" /\ svc'.last = svc.last),
           NoFaultYet' /\ UNCHANGED budget /\ WhileWell =>
               /\ Heard'
               /\ stopper.pc \in {"monitor", "call"} => stopper'.pc \in {"monitor", "call"} \/ ~Doing(stopper.task)'
    PROVE  NoteInv'
<1>. USE DEF NoteInv
<1>1. NoteTyped'  BY FaultIsOne, NothingSpent DEF NoteTyped, clientVars
<1>2. OwnText'  BY DEF OwnText, clientVars
<1>3. ASSUME NoFaultYet' PROVE WhileWell'
  <2>1. UNCHANGED budget  BY <1>3, FaultIsOne
  <2>2. WhileWell  BY <1>3, <2>1 DEF NoFaultYet
  <2>3. NoneBegins  BY DEF NoneBegins, Doing
  <2>4. svc.last \in Nat /\ svc.task <= svc.last /\ (svc.state = Absent => svc.does = "nothing") /\ NoTask <= svc.last
    BY <2>2 DEF WhileWell, Tasks, NoteTyped, ServiceRec, NoTask
  <2>5. svc.last <= svc'.last /\ svc'.task <= svc'.last /\ (svc'.state = Absent => svc'.does = "nothing")  BY <2>4
  <2>. QED BY <1>1, <1>3, <2>1, <2>2, <2>3, <2>5, ServiceSide DEF clientVars
<1>. QED BY <1>1, <1>2, <1>3

\* How a stop ends without a text.
LEMMA StopEndsIs ==
    ASSUME NoteTyped, NEW code \in StopCodes, StopEnds(code)
    PROVE  /\ stopper' \in StopperRec /\ stopper'.pc = "reply" /\ stopper'.task = stopper.task /\ stopper'.code = code
           /\ stopper'.got = <<>> /\ (code # "" => StopTrue')
<1>1. stopper \in StopperRec  BY DEF NoteTyped
<1>2. "reply" \in StopperPc /\ <<>> \in Signals  BY DEF StopperPc, Signals
<1>3. stopper' = [stopper EXCEPT !.pc = "reply", !.code = code, !.attached = FALSE, !.got = <<>>]  BY DEF StopEnds
<1>4. stopper' \in StopperRec  BY <1>1, <1>2, <1>3, StopperChanged
<1>5. stopper'.pc = "reply" /\ stopper'.task = stopper.task /\ stopper'.code = code /\ stopper'.got = <<>>
  BY <1>1, <1>3, <1>4 DEF StopperRec
<1>. QED BY <1>4, <1>5 DEF StopTrue

LEMMA ListenStopKeeps == ASSUME NoteInv, listen_stop PROVE NoteInv'
<1>. USE DEF NoteInv
<1>1. /\ stopper.pc = "monitor" /\ UNCHANGED <<starter, clientVars, svc>> /\ (UNCHANGED budget \/ Fault)
      /\ stopper \in StopperRec /\ svc \in ServiceRec /\ stopper.code = ""
  BY DEF listen_stop, NoteTyped, StopTrue
<1>2. \/ stopper' = [stopper EXCEPT !.attached = TRUE]
      \/ StopEnds("bus_error") /\ (Fault \/ svc.state = Absent)
      \/ stopper' = [stopper EXCEPT !.pc = "call", !.got = <<>>] /\ stopper.attached
  BY DEF listen_stop, Watches
<1>3. CASE stopper' = [stopper EXCEPT !.attached = TRUE]
  <2>1. stopper' \in StopperRec  BY <1>1, <1>3, StopperChanged
  <2>2. stopper'.pc = "monitor" /\ stopper'.task = stopper.task /\ stopper'.code = "" /\ stopper'.got = stopper.got
    BY <1>1, <1>3, <2>1 DEF StopperRec
  <2>3. WhileWell => Heard'  BY <1>1, <2>2 DEF WhileWell, Heard, clientVars
  <2>4. StopTrue'  BY <2>2 DEF StopTrue
  <2>. QED BY <1>1, <2>1, <2>2, <2>3, <2>4, StopMoves
<1>4. CASE StopEnds("bus_error") /\ (Fault \/ svc.state = Absent)
  <2>0. "bus_error" \in StopCodes  BY DEF StopCodes
  <2>1. stopper' \in StopperRec /\ stopper'.pc = "reply" /\ stopper'.task = stopper.task /\ stopper'.got = <<>> /\ StopTrue'
    BY <1>4, <2>0, StopEndsIs
  <2>2. ASSUME WhileWell PROVE Heard'
    <3>1. Heard  BY <2>2 DEF WhileWell
    <3>2. stopper.task \notin sent  BY <1>1, <3>1 DEF Heard
    <3>. QED BY <1>1, <2>1, <3>1, <3>2, HeardNothing DEF clientVars
  <2>3. NoFaultYet' /\ WhileWell => ~Doing(stopper.task)'  BY <1>1, <1>4, FaultIsOne DEF WhileWell, Tasks, Doing
  <2>. QED BY <1>1, <2>1, <2>2, <2>3, StopMoves
<1>5. CASE stopper' = [stopper EXCEPT !.pc = "call", !.got = <<>>] /\ stopper.attached
  <2>0. "call" \in StopperPc /\ <<>> \in Signals  BY DEF StopperPc, Signals
  <2>1. stopper' \in StopperRec  BY <1>1, <1>5, <2>0, StopperChanged
  <2>2. stopper'.pc = "call" /\ stopper'.task = stopper.task /\ stopper'.code = "" /\ stopper'.got = <<>> /\ stopper'.attached
    BY <1>1, <1>5, <2>1 DEF StopperRec
  <2>3. WhileWell => Heard'  BY <1>1, <2>2, HeardNothing DEF WhileWell, clientVars
  <2>4. StopTrue'  BY <2>2 DEF StopTrue
  <2>. QED BY <1>1, <2>1, <2>2, <2>3, <2>4, StopMoves
<1>. QED BY <1>2, <1>3, <1>4, <1>5

LEMMA SttStopListenKeeps == ASSUME NoteInv, SttStopListen PROVE NoteInv'
<1>. USE DEF NoteInv
<1>1. /\ stopper.pc = "call" /\ UNCHANGED <<starter, clientVars, budget>>
      /\ stopper \in StopperRec /\ svc \in ServiceRec /\ stopper.code = ""
  BY DEF SttStopListen, NoteTyped, StopTrue
<1>2. CASE Doing(stopper.task)
  <2>. DEFINE s == Rests(svc)
  <2>1. s \in ServiceRec /\ s.task = NoTask /\ s.does = "nothing" /\ s.last = svc.last  BY RestsIs
  <2>2. svc' = [s EXCEPT !.decoding = s.decoding \cup {stopper.task}]  BY <1>2 DEF SttStopListen
  <2>3. s.decoding \cup {stopper.task} \in Decodings  BY <1>1, <2>1 DEF ServiceRec, Decodings, StopperRec
  <2>. HIDE DEF s
  <2>4. svc' \in ServiceRec  BY <2>1, <2>2, <2>3, ServiceChanged
  <2>5. svc'.task = NoTask /\ svc'.does = "nothing" /\ svc'.last = svc.last  BY <2>1, <2>2, <2>4 DEF ServiceRec
  <2>6. "text" \in StopperPc /\ stopper' = [stopper EXCEPT !.pc = "text"]  BY <1>2 DEF SttStopListen, StopperPc
  <2>7. stopper' \in StopperRec  BY <1>1, <2>6, StopperChanged
  <2>8. stopper'.pc = "text" /\ stopper'.task = stopper.task /\ stopper'.code = "" /\ stopper'.got = stopper.got /\ stopper'.attached = stopper.attached
    BY <1>1, <2>6, <2>7 DEF StopperRec
  <2>9. WhileWell => Heard'  BY <1>1, <2>8 DEF WhileWell, Heard, clientVars
  <2>10. StopTrue' /\ ~Doing(stopper.task)'  BY <2>5, <2>8 DEF StopTrue, Doing
  <2>. QED BY <1>1, <2>4, <2>5, <2>7, <2>8, <2>9, <2>10, StopMoves
<1>3. CASE ~Doing(stopper.task)
  <2>0. "bus_error" \in StopCodes  BY DEF StopCodes
  <2>1. svc' = svc /\ StopEnds("bus_error")  BY <1>3 DEF SttStopListen
  <2>2. stopper' \in StopperRec /\ stopper'.pc = "reply" /\ stopper'.task = stopper.task /\ stopper'.got = <<>> /\ StopTrue'
    BY <2>0, <2>1, StopEndsIs
  <2>3. ASSUME WhileWell PROVE Heard'
    <3>1. Heard  BY <2>3 DEF WhileWell
    <3>2. stopper.task \notin sent  BY <1>1, <3>1 DEF Heard
    <3>. QED BY <1>1, <2>2, <3>1, <3>2, HeardNothing DEF clientVars
  <2>4. ~Doing(stopper.task)'  BY <1>3, <2>1, <2>2 DEF Doing
  <2>. QED BY <1>1, <2>1, <2>2, <2>3, <2>4, StopMoves
<1>. QED BY <1>2, <1>3

LEMMA ReadsSignalKeeps == ASSUME NoteInv, Reads_signal PROVE NoteInv'
<1>. USE DEF NoteInv
<1>. DEFINE signal == Head(stopper.got)
<1>1. /\ stopper.pc = "text" /\ UNCHANGED <<starter, clientVars, budget, svc>>
      /\ stopper \in StopperRec /\ svc \in ServiceRec /\ stopper.code = "" /\ stopper.got # <<>>
  BY DEF Reads_signal, NoteTyped, StopTrue
<1>2. stopper.got \in Seq(Signal) /\ signal \in Signal /\ signal = stopper.got[1] /\ Tail(stopper.got) \in Signals /\ 1 \in 1 .. Len(stopper.got)
  <2>1. stopper.got \in Seq(Signal)  BY <1>1 DEF StopperRec, Signals
  <2>2. signal \in Signal /\ Tail(stopper.got) \in Seq(Signal)  BY <1>1, <2>1, HeadTailProperties
  <2>3. Len(stopper.got) \in Nat /\ Len(stopper.got) # 0  BY <1>1, <2>1, EmptySeq
  <2>4. 1 \in 1 .. Len(stopper.got)  BY ONLY <2>3
  <2>5. signal = stopper.got[1]  BY <2>1, <2>3 DEF signal
  <2>. QED BY <2>1, <2>2, <2>4, <2>5 DEF Signals
<1>3. \/ IsText(signal) /\ stopper' = [stopper EXCEPT !.pc = "reply", !.text = signal.task, !.attached = FALSE, !.got = <<>>]
      \/ signal.member = "ErrorOccured" /\ StopEnds("engine_error")
      \/ ~IsText(signal) /\ stopper' = [stopper EXCEPT !.got = Tail(stopper.got)]
  BY DEF Reads_signal
<1>. HIDE DEF signal
<1>4. CASE IsText(signal) /\ stopper' = [stopper EXCEPT !.pc = "reply", !.text = signal.task, !.attached = FALSE, !.got = <<>>]
  <2>1. "reply" \in StopperPc /\ <<>> \in Signals /\ signal.task \in Int  BY <1>2 DEF StopperPc, Signals, Signal
  <2>2. stopper' \in StopperRec  BY <1>1, <1>4, <2>1, StopperChanged
  <2>3. stopper'.pc = "reply" /\ stopper'.task = stopper.task /\ stopper'.code = "" /\ stopper'.got = <<>> /\ stopper'.text = signal.task
    BY <1>1, <1>4, <2>2 DEF StopperRec
  <2>4. WhileWell => Heard'  BY <1>1, <2>3, HeardNothing DEF WhileWell, clientVars
  <2>5. StopTrue'  BY <1>4, <2>3 DEF StopTrue, IsText
  <2>. QED BY <1>1, <2>2, <2>3, <2>4, <2>5, StopMoves
<1>5. CASE signal.member = "ErrorOccured" /\ StopEnds("engine_error")
  <2>0. "engine_error" \in StopCodes  BY DEF StopCodes
  <2>1. stopper' \in StopperRec /\ stopper'.pc = "reply" /\ stopper'.task = stopper.task /\ stopper'.got = <<>> /\ StopTrue'
    BY <1>5, <2>0, StopEndsIs
  <2>2. ~WhileWell
    <3>1. SUFFICES ASSUME Heard PROVE FALSE  BY DEF WhileWell
    <3>2. stopper.got[1].member = "SttTextDecoded"  BY <1>2, <3>1 DEF Heard
    <3>. QED BY <1>2, <1>5, <3>2
  <2>. QED BY <1>1, <2>1, <2>2, StopMoves
<1>6. CASE ~IsText(signal) /\ stopper' = [stopper EXCEPT !.got = Tail(stopper.got)]
  <2>2. stopper' \in StopperRec  BY <1>1, <1>2, <1>6, StopperChanged
  <2>3. /\ stopper'.pc = "text" /\ stopper'.task = stopper.task /\ stopper'.code = "" /\ stopper'.attached = stopper.attached
        /\ stopper'.got = Tail(stopper.got)
    BY <1>1, <1>6, <2>2 DEF StopperRec
  <2>4. ASSUME WhileWell PROVE Heard'
    <3>1. Heard  BY <2>4 DEF WhileWell
    <3>. DEFINE q == stopper.got
    <3>0. /\ q \in Seq(Signal) /\ Len(q) \in Nat /\ Len(stopper'.got) = Len(q) - 1
          /\ \A i \in 1 .. Len(stopper'.got) : stopper'.got[i] = q[i + 1]
      <4>1. q \in Seq(Signal) /\ q # <<>>  BY <1>1, <1>2
      <4>2. Len(Tail(q)) = Len(q) - 1 /\ \A i \in 1 .. Len(Tail(q)) : Tail(q)[i] = q[i + 1]  BY <4>1, HeadTailProperties
      <4>3. Len(q) \in Nat  BY <4>1
      <4>. QED BY <2>3, <4>1, <4>2, <4>3
    <3>2. \A i \in 1 .. Len(stopper'.got) : i + 1 \in 1 .. Len(q) /\ stopper'.got[i] = q[i + 1]
      BY ONLY <3>0
    <3>3. \A i \in 1 .. Len(stopper'.got) : stopper'.got[i].member = "SttTextDecoded"  BY <3>1, <3>2 DEF Heard
    <3>4. ASSUME stopper.task \in sent PROVE \E i \in 1 .. Len(stopper'.got) : stopper'.got[i].member = "SttTextDecoded" /\ stopper'.got[i].task = stopper'.task
      <4>1. PICK i \in 1 .. Len(stopper.got) : IsText(stopper.got[i])  BY <1>1, <3>1, <3>4 DEF Heard
      <4>2. i # 1  BY <1>2, <1>6, <4>1
      <4>3. i - 1 \in 1 .. Len(stopper'.got) /\ stopper'.got[i - 1] = stopper.got[i]  BY <3>0, <4>2
      <4>. QED BY <2>3, <4>1, <4>3 DEF IsText
    <3>. QED BY <1>1, <2>3, <3>1, <3>3, <3>4 DEF Heard, IsText, clientVars
  <2>5. StopTrue'  BY <2>3 DEF StopTrue
  <2>. QED BY <1>1, <2>2, <2>3, <2>4, <2>5, StopMoves
<1>. QED BY <1>3, <1>4, <1>5, <1>6

LEMMA StopTimesOutKeeps == ASSUME NoteInv, StopTimesOut PROVE NoteInv'
<1>. USE DEF NoteInv
<1>1. /\ stopper.pc = "text" /\ UNCHANGED <<starter, clientVars, svc>> /\ (UNCHANGED budget \/ Fault)
      /\ svc \in ServiceRec /\ stopper.got = <<>> /\ StopEnds("timeout") /\ "timeout" \in StopCodes
  BY DEF StopTimesOut, NoteTyped, StopCodes
<1>2. stopper' \in StopperRec /\ stopper'.pc = "reply" /\ stopper'.task = stopper.task /\ stopper'.got = <<>> /\ StopTrue'
  BY <1>1, StopEndsIs
<1>3. ASSUME WhileWell PROVE Heard'
  <2>1. Heard  BY <1>3 DEF WhileWell
  <2>2. stopper.task \notin sent  BY <1>1, <2>1 DEF Heard
  <2>. QED BY <1>1, <1>2, <2>1, <2>2 DEF Heard, clientVars
<1>. QED BY <1>1, <1>2, <1>3, StopMoves

LEMMA OrderRunsKeeps == ASSUME NoteInv, OrderRuns PROVE NoteInv'
<1>. USE DEF NoteInv
<1>1. PICK o \in orders :
        /\ orders' = orders \ {o}
        /\ \/ svc' = svc /\ (~Doing(o.task) \/ o.method \notin {"Cancel", "TtsStopSpeech"})
           \/ svc' = Rests(svc)
           \/ \E does \in Does \ {"nothing"} :
                 Doing(o.task) /\ o.method \notin {"Cancel", "TtsStopSpeech"} /\ svc' = [svc EXCEPT !.does = does]
        /\ UNCHANGED <<starter, stopper, keeper, waiter, dictation, speech, given, sent, budget>>
  BY DEF OrderRuns, Does
<1>2. svc \in ServiceRec  BY DEF NoteTyped
<1>3. /\ svc' \in ServiceRec /\ svc'.last = svc.last /\ svc'.state = svc.state
      /\ \/ svc'.task = NoTask /\ svc'.does = "nothing"
         \/ /\ svc'.task = svc.task /\ (~Doing(o.task) \/ o.method \notin {"Cancel", "TtsStopSpeech"})
            /\ svc'.does = "nothing" <=> svc.does = "nothing"
  <2>1. CASE svc' = svc /\ (~Doing(o.task) \/ o.method \notin {"Cancel", "TtsStopSpeech"})  BY <1>2, <2>1
  <2>2. CASE svc' = Rests(svc)  BY <2>2, RestsIs
  <2>3. ASSUME NEW does \in Does \ {"nothing"}, Doing(o.task), o.method \notin {"Cancel", "TtsStopSpeech"}, svc' = [svc EXCEPT !.does = does]
        PROVE  svc' \in ServiceRec /\ svc'.last = svc.last /\ svc'.state = svc.state /\ svc'.task = svc.task /\ svc'.does # "nothing" /\ svc.does # "nothing"
    <3>1. svc' \in ServiceRec  BY <1>2, <2>3, ServiceChanged
    <3>. QED BY <1>2, <2>3, <3>1 DEF ServiceRec, Doing
  <2>. QED BY <1>1, <2>1, <2>2, <2>3
<1>4. NoteTyped'  BY <1>1, <1>3, NothingSpent DEF NoteTyped
<1>5. StopTrue' /\ OwnText'  BY <1>1, GivesNothing
<1>6. ASSUME NoFaultYet' PROVE WhileWell'
  <2>1. WhileWell  BY <1>1, <1>6 DEF NoFaultYet
  <2>2. Tasks /\ Turns /\ OverIsOver /\ Cared /\ Heard  BY <2>1 DEF WhileWell
  <2>3. NoTask <= svc.last  BY <1>2 DEF ServiceRec, NoTask
  <2>4. \A t \in Int : Doing(t)' => Doing(t) /\ (o.task = t => o.method \notin {"Cancel", "TtsStopSpeech"})
    BY <1>3 DEF Doing
  <2>5. /\ keeper.task \in Int /\ \A g \in Starters : starter[g].task \in Int
        /\ \A g \in Reads : waiter[g].task \in Int
    BY DEF NoteTyped, StarterRec, WaiterRec, KeeperRec
  <2>6. Tasks'  BY <1>1, <1>3, <2>2, <2>3 DEF Tasks
  <2>7. Turns'  BY <1>1, <2>2 DEF Turns
  <2>8. OverIsOver'  BY <1>1, <1>3, <2>2, <2>4, <2>5 DEF OverIsOver
  <2>9. ASSUME NEW h \in Listens, starter[h].task # NoTask, Doing(starter[h].task)' PROVE ListenCared(h)'
    <3>1. h \in Starters /\ starter[h].task \in Int  BY <2>5, StartersAre
    <3>2. Doing(starter[h].task)' <=> svc'.task = starter'[h].task /\ svc'.does # "nothing"  BY DEF Doing
    <3>3. Doing(starter[h].task) /\ (o.task = starter[h].task => o.method \notin {"Cancel", "TtsStopSpeech"})
      BY <1>1, <1>3, <2>9, <3>1, <3>2 DEF Doing
    <3>4. ListenCared(h)  BY <2>2, <2>9, <3>3 DEF Cared
    <3>5. Order("Cancel", starter[h].task) # o  BY <3>3 DEF Order
    <3>. QED BY <1>1, <3>4, <3>5 DEF ListenCared, Order
  <2>10. ASSUME NEW h \in Reads, starter[h].task # NoTask, Doing(starter[h].task)' PROVE ReadCared(h)'
    <3>1. h \in Starters /\ starter[h].task \in Int  BY <2>5, StartersAre
    <3>2. Doing(starter[h].task)' <=> svc'.task = starter'[h].task /\ svc'.does # "nothing"  BY DEF Doing
    <3>3. Doing(starter[h].task) /\ (o.task = starter[h].task => o.method \notin {"Cancel", "TtsStopSpeech"})
      BY <1>1, <1>3, <2>10, <3>1, <3>2 DEF Doing
    <3>4. ReadCared(h)  BY <2>2, <2>10, <3>3 DEF Cared
    <3>5. Order("TtsStopSpeech", starter[h].task) # o  BY <3>3 DEF Order
    <3>. QED BY <1>1, <3>4, <3>5 DEF ReadCared, Order
  <2>11. Cared'  BY <1>1, <2>9, <2>10 DEF Cared
  <2>. QED BY <1>1, <2>2, <2>6, <2>7, <2>8, <2>11, HeardAsBefore DEF WhileWell
<1>. QED BY <1>4, <1>5, <1>6

LEMMA KeepAliveKeeps == ASSUME NoteInv, KeepAlive PROVE NoteInv'
<1>. USE DEF NoteInv
<1>. DEFINE alive == IF svc.state = Absent THEN "unknown" ELSE IF Doing(dictation.task) THEN "yes" ELSE "no"
<1>1. /\ keeper' = [pc |-> "reply", task |-> dictation.task, alive |-> alive]
      /\ UNCHANGED <<svc, starter, stopper, orders, waiter, dictation, speech, given, sent, budget>>
  BY DEF KeepAlive
<1>2. alive \in {"yes", "no", "unknown"} /\ (alive = "no" => ~Doing(dictation.task))  OBVIOUS
<1>. HIDE DEF alive
<1>3. NoteTyped'
  <2>1. dictation.task \in Int  BY DEF NoteTyped, DictationState
  <2>2. keeper' \in KeeperRec  BY <1>1, <1>2, <2>1 DEF KeeperRec
  <2>. QED BY <1>1, <2>2, NothingSpent DEF NoteTyped
<1>4. ASSUME NoFaultYet' PROVE WhileWell'
  <2>1. Tasks /\ Turns /\ OverIsOver /\ Cared /\ Heard  BY <1>1, <1>4 DEF WhileWell, NoFaultYet
  <2>2. Tasks' /\ Turns'  BY <1>1, <2>1 DEF Tasks, Turns
  <2>3. OverIsOver'  BY <1>1, <1>2, <2>1 DEF OverIsOver, Tasks, Doing
  <2>4. Cared'  BY <1>1, <2>1 DEF Cared, ListenCared, ReadCared, Doing, Order
  <2>. QED BY <1>1, <2>1, <2>2, <2>3, <2>4, HeardAsBefore DEF WhileWell
<1>. QED BY <1>1, <1>3, <1>4, GivesNothing

\* Only the waiter h has another record.
OnlyWaiter(h) == waiter' \in [Reads -> WaiterRec] /\ \A g \in Reads \ {h} : waiter'[g] = waiter[g]

LEMMA WaiterGets ==
    ASSUME NoteTyped, NEW h \in Reads, NEW d \in WaiterRec, waiter' = [waiter EXCEPT ![h] = d]
    PROVE  OnlyWaiter(h) /\ waiter'[h] = d
BY DEF OnlyWaiter, NoteTyped

\* How a wait ends.
LEMMA WaitEndsIs ==
    ASSUME NoteTyped, NEW h \in Reads, NEW reply \in Replies, WaitEnds(h, reply)
    PROVE  /\ OnlyWaiter(h)
           /\ waiter'[h].pc = "reply" /\ waiter'[h].task = waiter[h].task /\ waiter'[h].reply = reply
<1>. DEFINE task == waiter[h].task
            d == [NoWaiter EXCEPT !.pc = "reply", !.task = task, !.reply = reply]
<1>1. task \in Int /\ "reply" \in WaiterPc  BY DEF NoteTyped, WaiterRec, WaiterPc
<1>2. NoWaiter \in WaiterRec
  <2>1. "off" \in WaiterPc  BY DEF WaiterPc
  <2>2. "" \in Replies  BY DEF Replies
  <2>3. NoTask \in Int  BY DEF NoTask
  <2>. QED BY <2>1, <2>2, <2>3 DEF NoWaiter, WaiterRec
<1>. HIDE DEF task
<1>3. d \in WaiterRec  BY <1>1, <1>2, WaiterChanged
<1>4. d.pc = "reply" /\ d.task = task /\ d.reply = reply  BY <1>1 DEF NoWaiter
<1>5. waiter' = [waiter EXCEPT ![h] = d]  BY DEF WaitEnds, task
<1>. HIDE DEF d
<1>. QED BY <1>3, <1>4, <1>5, WaiterGets DEF task

\* A waiter that goes on has its task and no answer.
LEMMA WaitGoesOn ==
    ASSUME NoteTyped, NEW h \in Reads, NEW d \in WaiterRec, waiter' = [waiter EXCEPT ![h] = d],
           d.pc \in {"open", "look"}, d.task = waiter[h].task
    PROVE  OnlyWaiter(h) /\ waiter'[h].task = waiter[h].task /\ waiter'[h].pc \in {"open", "look"}
BY WaiterGets

LEMMA WaitSpokenIs ==
    ASSUME NoteTyped, NEW h \in Reads, _wait_spoken(h)
    PROVE  /\ OnlyWaiter(h) /\ waiter'[h].task = waiter[h].task
           /\ \/ waiter'[h].pc \in {"open", "look"}
              \/ /\ waiter'[h].pc = "reply"
                 /\ waiter'[h].reply # "sentence" => svc.state = Absent \/ svc.task # waiter[h].task \/ Fault
<1>. DEFINE w == waiter[h]
<1>1. w \in WaiterRec /\ w.pc \in {"open", "look"} /\ w.fails \in Nat  BY DEF _wait_spoken, NoteTyped, WaiterRec
<1>2. \/ \E watching \in BOOLEAN : waiter' = [waiter EXCEPT ![h].pc = "look", ![h].watching = watching]
      \/ waiter' = [waiter EXCEPT ![h].pc = "look"]
      \/ \E fails \in Nat : waiter' = [waiter EXCEPT ![h].fails = fails]
      \/ \E reply \in Replies : WaitEnds(h, reply) /\ (reply # "sentence" => svc.state = Absent \/ svc.task # w.task \/ Fault)
  <2>1. w.fails + 1 \in Nat /\ 0 \in Nat  BY <1>1
  <2>2. waiter' = [waiter EXCEPT ![h].fails = @ + 1] => waiter' = [waiter EXCEPT ![h].fails = w.fails + 1]  BY DEF NoteTyped
  <2>3. {"spoken", "sentence", "timeout", "bus_error"} \subseteq Replies  BY DEF Replies
  <2>. QED BY <2>1, <2>2, <2>3 DEF _wait_spoken
<1>3. "look" \in WaiterPc  BY DEF WaiterPc
<1>4. ASSUME NEW watching \in BOOLEAN, waiter' = [waiter EXCEPT ![h].pc = "look", ![h].watching = watching]
      PROVE  OnlyWaiter(h) /\ waiter'[h].task = w.task /\ waiter'[h].pc \in {"open", "look"}
  <2>. DEFINE d == [w EXCEPT !.pc = "look", !.watching = watching]
  <2>1. d \in WaiterRec  BY <1>1, <1>3, WaiterChanged
  <2>2. d.pc = "look" /\ d.task = w.task  BY <1>1 DEF WaiterRec
  <2>3. waiter' = [waiter EXCEPT ![h] = d]  BY <1>1, <1>4 DEF NoteTyped, WaiterRec
  <2>. HIDE DEF d
  <2>. QED BY <2>1, <2>2, <2>3, WaitGoesOn
<1>5. ASSUME waiter' = [waiter EXCEPT ![h].pc = "look"]
      PROVE  OnlyWaiter(h) /\ waiter'[h].task = w.task /\ waiter'[h].pc \in {"open", "look"}
  <2>. DEFINE d == [w EXCEPT !.pc = "look"]
  <2>1. d \in WaiterRec  BY <1>1, <1>3, WaiterChanged
  <2>2. d.pc = "look" /\ d.task = w.task  BY <1>1 DEF WaiterRec
  <2>3. waiter' = [waiter EXCEPT ![h] = d]  BY <1>1, <1>5 DEF NoteTyped, WaiterRec
  <2>. HIDE DEF d
  <2>. QED BY <2>1, <2>2, <2>3, WaitGoesOn
<1>6. ASSUME NEW fails \in Nat, waiter' = [waiter EXCEPT ![h].fails = fails]
      PROVE  OnlyWaiter(h) /\ waiter'[h].task = w.task /\ waiter'[h].pc \in {"open", "look"}
  <2>. DEFINE d == [w EXCEPT !.fails = fails]
  <2>1. d \in WaiterRec  BY <1>1, WaiterChanged
  <2>2. d.pc = w.pc /\ d.task = w.task  BY <1>1 DEF WaiterRec
  <2>3. waiter' = [waiter EXCEPT ![h] = d]  BY <1>1, <1>6 DEF NoteTyped, WaiterRec
  <2>. HIDE DEF d
  <2>. QED BY <1>1, <2>1, <2>2, <2>3, WaitGoesOn
<1>7. ASSUME NEW reply \in Replies, WaitEnds(h, reply), reply # "sentence" => svc.state = Absent \/ svc.task # w.task \/ Fault
      PROVE  /\ OnlyWaiter(h) /\ waiter'[h].task = w.task /\ waiter'[h].pc = "reply"
             /\ waiter'[h].reply # "sentence" => svc.state = Absent \/ svc.task # w.task \/ Fault
  BY <1>7, WaitEndsIs
<1>. QED BY <1>2, <1>4, <1>5, <1>6, <1>7

LEMMA WaitSpokenKeeps == ASSUME NoteInv, NEW h \in Reads, _wait_spoken(h) PROVE NoteInv'
<1>. USE DEF NoteInv
<1>1. /\ UNCHANGED <<svc, starter, stopper, keeper, orders, dictation, speech, given, sent>> /\ (UNCHANGED budget \/ Fault)
      /\ waiter[h].pc \in {"open", "look"}
  BY DEF _wait_spoken
<1>2. /\ OnlyWaiter(h) /\ waiter'[h].task = waiter[h].task
      /\ \/ waiter'[h].pc \in {"open", "look"}
         \/ /\ waiter'[h].pc = "reply"
            /\ waiter'[h].reply # "sentence" => svc.state = Absent \/ svc.task # waiter[h].task \/ Fault
  BY WaitSpokenIs
<1>3. NoteTyped'  BY <1>1, <1>2, NothingSpent, FaultIsOne DEF NoteTyped, OnlyWaiter
<1>4. ASSUME NoFaultYet' PROVE WhileWell'
  <2>1. UNCHANGED budget /\ ~Fault  BY <1>1, <1>4, FaultIsOne
  <2>2. WhileWell  BY <1>4, <2>1 DEF NoFaultYet
  <2>3. svc.state = Absent \/ svc.task # waiter[h].task => ~Doing(waiter[h].task)  BY <2>2 DEF WhileWell, Tasks, Doing
  <2>4. \A g \in Reads : /\ waiter'[g].task = waiter[g].task /\ (waiter'[g].pc = "off" <=> waiter[g].pc = "off")
                         /\ waiter'[g].pc = "reply" /\ waiter'[g].reply # "sentence" =>
                               \/ waiter[g].pc = "reply" /\ waiter'[g].reply = waiter[g].reply
                               \/ ~Doing(waiter[g].task)
    BY <1>1, <1>2, <2>1, <2>3 DEF OnlyWaiter
  <2>. QED BY <1>1, <1>3, <2>2, <2>4, WaiterSide
<1>. QED BY <1>1, <1>3, <1>4, GivesNothing

LEMMA NoStopperIs ==
    NoStopper \in StopperRec /\ \A task \in Int : [NoStopper EXCEPT !.pc = "monitor", !.task = task] \in StopperRec
<1>1. "off" \in StopperPc /\ "monitor" \in StopperPc  BY DEF StopperPc
<1>2. "" \in StopCodes  BY DEF StopCodes
<1>3. <<>> \in Signals  BY DEF Signals
<1>4. NoTask \in Int  BY DEF NoTask
<1>5. NoStopper \in StopperRec  BY <1>1, <1>2, <1>3, <1>4 DEF NoStopper, StopperRec
<1>. QED BY <1>1, <1>5, StopperChanged

\* A stop that begins has heard nothing.
LEMMA StopBegins ==
    ASSUME NEW task \in Int, stopper' = [NoStopper EXCEPT !.pc = "monitor", !.task = task]
    PROVE  /\ stopper' \in StopperRec /\ stopper'.pc = "monitor" /\ stopper'.task = task /\ StopTrue'
           /\ sent' = {} => Heard'
<1>1. stopper' \in StopperRec  BY NoStopperIs
<1>2. stopper'.pc = "monitor" /\ stopper'.task = task /\ stopper'.code = "" /\ stopper'.got = <<>>  BY DEF NoStopper
<1>3. StopTrue'  BY <1>2 DEF StopTrue
<1>4. \A i \in 1 .. Len(stopper'.got) : FALSE
  <2>1. Len(<<>>) = 0  OBVIOUS
  <2>. QED BY <1>2, <2>1, NoPlace
<1>. QED BY <1>1, <1>2, <1>3, <1>4 DEF Heard

\* What the service has not sent, while no stop waits for its text.
LEMMA NoneSent == ASSUME Heard, stopper.pc \notin {"text", "reply"} PROVE sent = {}
BY DEF Heard

LEMMA PollsIs == ASSUME NEW h PROVE Polls(h) \in StarterRec /\ Polls(h).pc = "poll" /\ Polls(h).task = NoTask
<1>1. Off \in StarterRec /\ "poll" \in StarterPc
  <2>1. "off" \in StarterPc /\ "poll" \in StarterPc  BY DEF StarterPc
  <2>2. "none" \in Procs  BY DEF Procs
  <2>3. "" \in StartCodes  BY DEF StartCodes
  <2>4. NoTask \in Int  BY DEF NoTask
  <2>. QED BY <2>1, <2>2, <2>3, <2>4 DEF Off, StarterRec
<1>2. Polls(h) \in StarterRec  BY <1>1, StarterChanged DEF Polls
<1>. QED BY <1>2 DEF Polls, Off

LEMMA DictationStartKeeps == ASSUME NoteInv, dictation_start PROVE NoteInv'
<1>. USE DEF NoteInv
<1>. DEFINE n == dictation.count + 1
            h == <<"listen", n>>
<1>1. /\ dictation.phase = "" /\ dictation.count < budget.listens
      /\ dictation' = [phase |-> "starting", task |-> NoTask, now |-> n, count |-> n, pending |-> FALSE]
      /\ starter' = [starter EXCEPT ![h] = Polls(h)]
      /\ UNCHANGED <<svc, stopper, keeper, orders, waiter, speech, given, sent, budget>>
  BY DEF dictation_start
<1>2. /\ dictation.count \in Nat /\ dictation.now \in Nat /\ n \in Nat /\ n # 0 /\ n > dictation.count /\ n <= MaxListens
      /\ NoTask \in Int /\ dictation.task \in Int
  <2>1. dictation.count \in Nat /\ dictation.now \in Nat /\ dictation.task \in Int  BY DEF NoteTyped, DictationState
  <2>2. budget.listens \in Nat /\ budget.listens <= MaxListens  BY DEF NoteTyped, Purse, Budgets
  <2>3. NoTask \in Int  BY DEF NoTask
  <2>4. MaxListens \in Nat  BY SpeechNoteAssumption
  <2>5. dictation.count < budget.listens  BY <1>1
  <2>6. n \in Nat /\ n # 0 /\ n > dictation.count /\ n <= MaxListens  BY ONLY <2>1, <2>2, <2>4, <2>5
  <2>. QED BY <2>1, <2>3, <2>6
<1>3. h \in Listens /\ h \in Starters /\ h[2] = n  BY <1>2, SpeechNoteAssumption DEF Listens, Starters
<1>4. dictation' \in DictationState
  <2>1. "starting" \in Phases  BY DEF Phases
  <2>. HIDE DEF n
  <2>. QED BY <1>1, <1>2, <2>1 DEF DictationState
<1>5. OnlyStarter(h) /\ starter'[h].pc = "poll" /\ starter'[h].task = NoTask  BY <1>1, <1>3, PollsIs, StarterGets
<1>6. NoteTyped'  BY <1>1, <1>4, <1>5, NothingSpent DEF NoteTyped, OnlyStarter
<1>7. dictation'.phase = "starting" /\ dictation'.task = NoTask /\ dictation'.now = n /\ dictation'.count = n  BY <1>1
<1>. HIDE DEF h, n
<1>8. ASSUME NoFaultYet' PROVE WhileWell'
  <2>1. Tasks /\ Turns /\ OverIsOver /\ Cared /\ Heard  BY <1>1, <1>8 DEF WhileWell, NoFaultYet
  <2>2. starter[h].pc = "off" /\ starter[h].task = NoTask /\ dictation.task = NoTask /\ stopper.pc = "off"
    BY <1>1, <1>2, <1>3, <2>1 DEF Turns, Tasks
  <2>3. \A g \in Starters : starter'[g].task = starter[g].task /\ (g # h => starter'[g] = starter[g])
    BY <1>5, <2>2 DEF OnlyStarter
  <2>4. Tasks'  BY <1>1, <1>5, <1>7, <2>1, <2>2, <2>3 DEF Tasks
  <2>5. \A g \in Listens : /\ g[2] > n => starter'[g].pc = "off"
                           /\ starter'[g].pc \in {"poll", "call", "reply"} /\ g[2] = n => dictation'.phase = "starting"
    <3>1. \A g \in Listens : g[2] > n => g[2] > dictation.count /\ g # h /\ g \in Starters
      BY <1>2, <1>3, StartersAre
    <3>. QED BY <1>7, <2>1, <2>3, <3>1 DEF Turns
  <2>6. \A g \in Reads : g # h /\ g \in Starters  BY <1>3, StartersAre
  <2>7. Turns'
    <3>1. dictation'.now <= dictation'.count  BY <1>2, <1>7
    <3>. QED BY <1>1, <1>7, <2>1, <2>2, <2>3, <2>5, <2>6, <3>1 DEF Turns
  <2>8. OverIsOver'  BY <1>1, <2>1 DEF OverIsOver, Doing
  <2>9. \A g \in Listens : starter[g].task # NoTask => g \in Starters /\ g # h  BY <2>2, StartersAre
  <2>10. ASSUME NEW g \in Listens, starter'[g].task # NoTask, Doing(starter[g].task)' PROVE ListenCared(g)'
    <3>1. g \in Starters /\ g # h /\ starter'[g] = starter[g]  BY <1>5, <2>3, <2>10, StartersAre
    <3>2. ListenCared(g)  BY <1>1, <2>1, <2>10, <3>1 DEF Cared, Doing
    <3>3. UNCHANGED <<stopper, orders>>  BY <1>1
    <3>. QED BY <2>2, <2>10, <3>1, <3>2, <3>3 DEF ListenCared
  <2>11. ASSUME NEW g \in Reads, starter'[g].task # NoTask, Doing(starter[g].task)' PROVE ReadCared(g)'
    <3>1. g \in Starters /\ g # h /\ starter'[g] = starter[g]  BY <2>3, <2>6
    <3>2. ReadCared(g)  BY <1>1, <2>1, <2>11, <3>1 DEF Cared, Doing
    <3>3. UNCHANGED <<speech, orders>>  BY <1>1
    <3>. QED BY <3>1, <3>2, <3>3 DEF ReadCared
  <2>12. Cared'  BY <2>10, <2>11 DEF Cared
  <2>. QED BY <1>1, <2>1, <2>4, <2>7, <2>8, <2>12, HeardAsBefore DEF WhileWell
<1>. QED BY <1>1, <1>6, <1>8, GivesNothing

\* Steps of the dictation between two answers: the service and the starters have their records.
LEMMA DictationSide ==
    ASSUME Tasks, Turns, OverIsOver, Cared, UNCHANGED <<svc, starter, keeper, waiter, speech>>, dictation \in DictationState,
           dictation'.count = dictation.count, dictation'.task \in {dictation.task, NoTask}, NoTask <= svc.last,
           dictation'.now <= dictation'.count, dictation'.phase # "listening" => dictation'.task = NoTask,
           stopper'.pc # "off" <=> dictation'.phase = "stopping",
           \A h \in Listens : starter[h].pc \in {"poll", "call", "reply"} /\ h[2] = dictation'.now => dictation'.phase = "starting",
           orders \subseteq orders',
           stopper.pc \in {"monitor", "call"} => stopper'.pc = stopper.pc /\ stopper'.task = stopper.task,
           dictation'.task # dictation.task =>
               \/ ~Doing(dictation.task) \/ Order("Cancel", dictation.task) \in orders'
               \/ stopper'.pc = "monitor" /\ stopper'.task = dictation.task
    PROVE  Tasks' /\ Turns' /\ OverIsOver' /\ Cared'
<1>1. Tasks'  BY DEF Tasks
<1>2. Turns'  BY DEF Turns
<1>3. OverIsOver'  BY DEF OverIsOver, Doing
<1>4. ASSUME NEW h \in Listens, starter[h].task # NoTask, Doing(starter[h].task) PROVE ListenCared(h)'
  <2>1. ListenCared(h)  BY <1>4 DEF Cared
  <2>. QED BY <1>4, <2>1 DEF ListenCared, Order, Doing
<1>5. ASSUME NEW h \in Reads, starter[h].task # NoTask, Doing(starter[h].task) PROVE ReadCared(h)'
  <2>1. ReadCared(h)  BY <1>5 DEF Cared
  <2>. QED BY <1>5, <2>1 DEF ReadCared, Order
<1>6. Cared'  BY <1>4, <1>5 DEF Cared, Doing
<1>. QED BY <1>1, <1>2, <1>3, <1>6

LEMMA DictationStopKeeps == ASSUME NoteInv, NEW cancel \in BOOLEAN, dictation_stop(cancel) PROVE NoteInv'
<1>. USE DEF NoteInv
<1>1. /\ dictation.phase \in {"starting", "listening"} /\ Pay("clicks")
      /\ UNCHANGED <<svc, starter, keeper, waiter, speech, given, sent>>
      /\ dictation \in DictationState /\ dictation.task \in Int /\ dictation.count \in Nat /\ dictation.now \in Nat
      /\ NoTask \in Int /\ svc.last \in Nat /\ NoTask <= svc.last
  BY DEF dictation_stop, NoteTyped, DictationState, ServiceRec, NoTask
<1>2. \/ dictation.phase = "starting" /\ cancel /\ dictation' = [dictation EXCEPT !.phase = "", !.now = 0] /\ UNCHANGED <<stopper, orders>>
      \/ dictation.phase = "starting" /\ ~cancel /\ dictation' = [dictation EXCEPT !.pending = TRUE] /\ UNCHANGED <<stopper, orders>>
      \/ /\ dictation.phase = "listening" /\ orders' = orders \cup {Order("Cancel", dictation.task)}
         /\ dictation' = [dictation EXCEPT !.phase = "", !.task = NoTask] /\ UNCHANGED stopper
      \/ /\ dictation.phase = "listening" /\ StopListening(dictation.task) /\ UNCHANGED orders
  BY DEF dictation_stop
<1>3. NoFaultYet' => NoFaultYet  BY <1>1, PaidIsNoFault
<1>4. Purse'  BY <1>1, PaidIsNoFault
<1>5. \A h \in Listens : h[2] # 0  BY StartersAre
<1>6. CASE dictation.phase = "starting" /\ cancel /\ dictation' = [dictation EXCEPT !.phase = "", !.now = 0] /\ UNCHANGED <<stopper, orders>>
  <2>1. dictation' \in DictationState
    <3>1. "" \in Phases  BY DEF Phases
    <3>. QED BY <1>1, <1>6, <3>1, DictationChanged
  <2>2. dictation'.phase = "" /\ dictation'.now = 0 /\ dictation'.task = dictation.task /\ dictation'.count = dictation.count
    BY <1>1, <1>6, <2>1 DEF DictationState
  <2>3. NoteTyped'  BY <1>1, <1>4, <1>6, <2>1 DEF NoteTyped
  <2>4. ASSUME WhileWell PROVE WhileWell'
    <3>1. 0 <= dictation.count /\ dictation.task = NoTask /\ stopper.pc = "off"  BY <1>1, <1>6, <2>4 DEF WhileWell, Turns
    <3>. QED BY <1>1, <1>5, <1>6, <2>2, <2>4, <3>1, DictationSide, HeardAsBefore DEF WhileWell
  <2>. QED BY <1>1, <1>3, <1>6, <2>3, <2>4, GivesNothing
<1>7. CASE dictation.phase = "starting" /\ ~cancel /\ dictation' = [dictation EXCEPT !.pending = TRUE] /\ UNCHANGED <<stopper, orders>>
  <2>1. dictation' \in DictationState  BY <1>1, <1>7, DictationChanged
  <2>2. dictation'.phase = "starting" /\ dictation'.now = dictation.now /\ dictation'.task = dictation.task /\ dictation'.count = dictation.count
    BY <1>1, <1>7, <2>1 DEF DictationState
  <2>3. NoteTyped'  BY <1>1, <1>4, <1>7, <2>1 DEF NoteTyped
  <2>4. ASSUME WhileWell PROVE WhileWell'
    <3>1. dictation.now <= dictation.count /\ dictation.task = NoTask /\ stopper.pc = "off"  BY <1>1, <1>7, <2>4 DEF WhileWell, Turns
    <3>. QED BY <1>1, <1>5, <1>7, <2>2, <2>4, <3>1, DictationSide, HeardAsBefore DEF WhileWell
  <2>. QED BY <1>1, <1>3, <1>7, <2>3, <2>4, GivesNothing
<1>8. CASE /\ dictation.phase = "listening" /\ orders' = orders \cup {Order("Cancel", dictation.task)}
           /\ dictation' = [dictation EXCEPT !.phase = "", !.task = NoTask] /\ UNCHANGED stopper
  <2>1. dictation' \in DictationState
    <3>1. "" \in Phases  BY DEF Phases
    <3>. QED BY <1>1, <1>8, <3>1, DictationChanged
  <2>2. dictation'.phase = "" /\ dictation'.now = dictation.now /\ dictation'.task = NoTask /\ dictation'.count = dictation.count
    BY <1>1, <1>8, <2>1 DEF DictationState
  <2>3. NoteTyped'
    <3>1. orders' \in SUBSET OrderRec  BY <1>1, <1>8 DEF NoteTyped, OrderRec, Order
    <3>. QED BY <1>1, <1>4, <1>8, <2>1, <3>1 DEF NoteTyped
  <2>4. ASSUME WhileWell PROVE WhileWell'
    <3>1. dictation.now <= dictation.count /\ stopper.pc = "off"  BY <1>1, <1>8, <2>4 DEF WhileWell, Turns
    <3>2. \A h \in Listens : ~(starter[h].pc \in {"poll", "call", "reply"} /\ h[2] = dictation.now)  BY <1>8, <2>4 DEF WhileWell, Turns
    <3>. QED BY <1>1, <1>5, <1>8, <2>2, <2>4, <3>1, <3>2, DictationSide, HeardAsBefore DEF WhileWell
  <2>. QED BY <1>1, <1>3, <1>8, <2>3, <2>4, GivesNothing
<1>9. CASE dictation.phase = "listening" /\ StopListening(dictation.task) /\ UNCHANGED orders
  <2>1. dictation' \in DictationState
    <3>1. "stopping" \in Phases  BY DEF Phases
    <3>. QED BY <1>1, <1>9, <3>1, DictationChanged DEF StopListening
  <2>2. dictation'.phase = "stopping" /\ dictation'.now = dictation.now /\ dictation'.task = NoTask /\ dictation'.count = dictation.count
    BY <1>1, <1>9, <2>1 DEF DictationState, StopListening
  <2>3. /\ stopper' \in StopperRec /\ stopper'.pc = "monitor" /\ stopper'.task = dictation.task /\ StopTrue'
        /\ sent' = {} => Heard'
    BY <1>1, <1>9, StopBegins DEF StopListening
  <2>4. NoteTyped'  BY <1>1, <1>4, <1>9, <2>1, <2>3 DEF NoteTyped
  <2>5. ASSUME WhileWell PROVE WhileWell'
    <3>1. dictation.now <= dictation.count /\ stopper.pc = "off"  BY <1>1, <1>9, <2>5 DEF WhileWell, Turns
    <3>2. \A h \in Listens : ~(starter[h].pc \in {"poll", "call", "reply"} /\ h[2] = dictation.now)  BY <1>9, <2>5 DEF WhileWell, Turns
    <3>3. Heard'  BY <1>1, <2>3, <2>5, <3>1, NoneSent DEF WhileWell
    <3>. QED BY <1>1, <1>5, <1>9, <2>2, <2>3, <2>5, <3>1, <3>2, <3>3, DictationSide DEF WhileWell
  <2>6. OwnText'  BY <1>1 DEF OwnText
  <2>. QED BY <1>3, <2>3, <2>4, <2>5, <2>6
<1>. QED BY <1>2, <1>6, <1>7, <1>8, <1>9

LEMMA ListenStoppedKeeps == ASSUME NoteInv, ListenStopped PROVE NoteInv'
<1>. USE DEF NoteInv
<1>1. /\ stopper.pc = "reply" /\ stopper' = NoStopper
      /\ UNCHANGED <<svc, starter, keeper, orders, waiter, speech, budget>>
      /\ sent' = IF stopper.code = "" THEN sent \ {stopper.task} ELSE sent
      /\ dictation \in DictationState /\ stopper \in StopperRec
  BY DEF ListenStopped, NoteTyped
<1>2. /\ stopper.task \in Int /\ stopper.text \in Int /\ NoTask \in Int /\ svc.last \in Nat /\ NoTask <= svc.last
  BY DEF NoteTyped, ServiceRec, NoTask, StopperRec
<1>. DEFINE g == [of |-> stopper.task, text |-> stopper.text]
<1>3. given' = given \/ (stopper.code = "" /\ given' = given \cup {g})  BY DEF ListenStopped
<1>4. g \in [of : Int, text : Int] /\ g.of = stopper.task /\ g.text = stopper.text  BY <1>2
<1>. HIDE DEF g
<1>5. stopper' \in StopperRec /\ stopper'.pc = "off" /\ stopper'.code = "" /\ stopper'.got = <<>>  BY <1>1, NoStopperIs DEF NoStopper
<1>6. dictation' \in DictationState /\ (dictation' = [dictation EXCEPT !.phase = ""] \/ dictation' = dictation_fail)
  <2>1. "" \in Phases  BY DEF Phases
  <2>2. dictation' = [dictation EXCEPT !.phase = ""] \/ dictation' = dictation_fail  BY DEF ListenStopped
  <2>3. [dictation EXCEPT !.phase = ""] \in DictationState  BY <1>1, <2>1, DictationChanged
  <2>4. dictation_fail \in DictationState  BY <1>1, <1>2, <2>1, DictationChanged DEF dictation_fail
  <2>. QED BY <2>2, <2>3, <2>4
<1>7. dictation'.phase = "" /\ dictation'.now = dictation.now /\ dictation'.count = dictation.count /\ dictation'.task \in {dictation.task, NoTask}
  BY <1>1, <1>6 DEF DictationState, dictation_fail
<1>8. StopTrue' /\ OwnText'  BY <1>1, <1>5, <1>3, <1>4 DEF StopTrue, OwnText
<1>9. NoteTyped'
  <2>1. given' \in SUBSET [of : Int, text : Int]  BY <1>3, <1>4 DEF NoteTyped
  <2>2. sent' \in SUBSET Int  BY <1>1 DEF NoteTyped
  <2>. QED BY <1>1, <1>5, <1>6, <2>1, <2>2, NothingSpent DEF NoteTyped
<1>10. ASSUME NoFaultYet' PROVE WhileWell'
  <2>1. Tasks /\ Turns /\ OverIsOver /\ Cared /\ Heard  BY <1>1, <1>10 DEF WhileWell, NoFaultYet
  <2>2. sent' = {}  BY <1>1, <2>1 DEF Heard
  <2>3. Heard'
    <3>1. Len(<<>>) = 0  OBVIOUS
    <3>2. \A i \in 1 .. Len(stopper'.got) : FALSE  BY <1>5, <3>1, NoPlace
    <3>. QED BY <1>5, <2>2, <3>2 DEF Heard
  <2>4. dictation.phase = "stopping" /\ dictation.task = NoTask /\ dictation.now <= dictation.count  BY <1>1, <2>1 DEF Turns
  <2>5. \A h \in Listens : ~(starter[h].pc \in {"poll", "call", "reply"} /\ h[2] = dictation.now)  BY <2>1, <2>4 DEF Turns
  <2>. QED BY <1>2, <1>1, <1>5, <1>7, <2>1, <2>3, <2>4, <2>5, DictationSide DEF WhileWell
<1>. QED BY <1>8, <1>9, <1>10

LEMMA KeptAliveKeeps == ASSUME NoteInv, KeptAlive PROVE NoteInv'
<1>. USE DEF NoteInv
<1>1. /\ keeper.pc = "reply" /\ keeper' = [keeper EXCEPT !.pc = "off", !.task = NoTask, !.alive = "yes"]
      /\ UNCHANGED <<svc, starter, stopper, orders, waiter, speech, given, sent, budget>>
      /\ \/ keeper.alive = "no" /\ dictation.phase = "listening" /\ dictation.task = keeper.task /\ dictation' = dictation_fail
         \/ dictation' = dictation
      /\ dictation \in DictationState /\ keeper \in KeeperRec /\ NoTask \in Int /\ svc.last \in Nat /\ NoTask <= svc.last
  BY DEF KeptAlive, NoteTyped, ServiceRec, NoTask
<1>2. keeper' \in KeeperRec /\ keeper'.pc = "off" /\ keeper'.task = NoTask  BY <1>1 DEF KeeperRec
<1>3. dictation' \in DictationState
  <2>1. "" \in Phases  BY DEF Phases
  <2>. QED BY <1>1, <2>1, DictationChanged DEF dictation_fail
<1>4. NoteTyped'  BY <1>1, <1>2, <1>3, NothingSpent DEF NoteTyped
<1>5. ASSUME NoFaultYet' PROVE WhileWell'
  <2>1. Tasks /\ Turns /\ OverIsOver /\ Cared /\ Heard  BY <1>1, <1>5 DEF WhileWell, NoFaultYet
  <2>2. OverIsOver'  BY <1>1, <1>2, <2>1 DEF OverIsOver, Doing
  <2>3. CASE dictation' = dictation
    <3>1. Tasks' /\ Turns'  BY <1>1, <2>1, <2>3 DEF Tasks, Turns
    <3>2. Cared'  BY <1>1, <2>1, <2>3 DEF Cared, ListenCared, ReadCared, Order, Doing
    <3>. QED BY <1>1, <2>1, <2>2, <3>1, <3>2, HeardAsBefore DEF WhileWell
  <2>4. CASE keeper.alive = "no" /\ dictation.phase = "listening" /\ dictation.task = keeper.task /\ dictation' = dictation_fail
    <3>1. dictation'.phase = "" /\ dictation'.task = NoTask /\ dictation'.now = dictation.now /\ dictation'.count = dictation.count
      BY <1>1, <1>3, <2>4 DEF DictationState, dictation_fail
    <3>2. ~Doing(dictation.task)  BY <1>1, <2>1, <2>4 DEF OverIsOver
    <3>3. stopper.pc = "off"  BY <2>1, <2>4 DEF Turns
    <3>4. \A h \in Listens : ~(starter[h].pc \in {"poll", "call", "reply"} /\ h[2] = dictation.now)  BY <2>1, <2>4 DEF Turns
    <3>5. Tasks'  BY <1>1, <2>1, <3>1 DEF Tasks
    <3>6. Turns'  BY <1>1, <2>1, <3>1, <3>3, <3>4 DEF Turns
    <3>7. Cared'  BY <1>1, <2>1, <3>2, <3>3 DEF Cared, ListenCared, ReadCared, Order, Doing
    <3>. QED BY <1>1, <2>1, <2>2, <3>5, <3>6, <3>7, HeardAsBefore DEF WhileWell
  <2>. QED BY <1>1, <2>3, <2>4
<1>. QED BY <1>1, <1>4, <1>5, GivesNothing

\* A starter's answer is taken.
LEMMA AnswerTaken ==
    ASSUME NoteTyped, NEW h \in Starters, starter' = [starter EXCEPT ![h].pc = "done", ![h].code = ""]
    PROVE  OnlyStarter(h) /\ starter'[h].pc = "done" /\ starter'[h].task = starter[h].task
<1>. DEFINE d == [starter[h] EXCEPT !.pc = "done", !.code = ""]
<1>1. starter[h] \in StarterRec  BY DEF NoteTyped
<1>2. "done" \in StarterPc  BY DEF StarterPc
<1>3. "" \in StartCodes  BY DEF StartCodes
<1>4. d \in StarterRec  BY <1>1, <1>2, <1>3, StarterChanged
<1>5. d.pc = "done" /\ d.task = starter[h].task  BY <1>1 DEF StarterRec
<1>6. starter' = [starter EXCEPT ![h] = d]  BY <1>1 DEF NoteTyped, StarterRec
<1>. HIDE DEF d
<1>. QED BY <1>4, <1>5, <1>6, StarterGets

\* The answer to a start, taken for the dictation or given back.
LEMMA ListenAnswered ==
    ASSUME Tasks, Turns, OverIsOver, Cared, NEW h \in Listens, starter[h].pc = "reply", OnlyStarter(h),
           starter'[h].pc = "done", starter'[h].task = starter[h].task, UNCHANGED <<svc, keeper, waiter, speech>>,
           dictation'.count = dictation.count, dictation'.now = dictation.now, NoTask <= svc.last,
           dictation'.task \in {dictation.task, NoTask, starter[h].task},
           dictation'.phase # "listening" => dictation'.task = NoTask, stopper'.pc # "off" <=> dictation'.phase = "stopping",
           h[2] # dictation.now => dictation' = dictation, orders \subseteq orders',
           stopper.pc \in {"monitor", "call"} => stopper'.pc = stopper.pc /\ stopper'.task = stopper.task,
           \/ starter[h].task = NoTask \/ Order("Cancel", starter[h].task) \in orders' \/ dictation'.task = starter[h].task
           \/ stopper'.pc = "monitor" /\ stopper'.task = starter[h].task
    PROVE  Tasks' /\ Turns' /\ OverIsOver' /\ Cared'
<1>0. h \in Starters /\ \A g \in Starters : starter'[g].task = starter[g].task /\ (g # h => starter'[g] = starter[g])
  BY StartersAre DEF OnlyStarter
<1>1. Tasks'  BY <1>0 DEF Tasks
<1>2. Turns'
  <2>1. \A g \in Reads : g \in Starters /\ g # h  BY StartersAre
  <2>2. \A g \in Listens : g \in Starters /\ (g # h => g[2] # h[2])  BY StartersAre
  <2>3. ASSUME NEW g \in Listens
        PROVE  /\ g[2] > dictation'.count => starter'[g].pc = "off"
               /\ starter'[g].pc \in {"poll", "call", "reply"} /\ g[2] = dictation'.now => dictation'.phase = "starting"
    <3>1. CASE g = h  BY <3>1 DEF Turns
    <3>2. CASE g # h
      <4>1. starter'[g] = starter[g] /\ g[2] # h[2]  BY <1>0, <2>2, <3>2
      <4>. QED BY <4>1 DEF Turns
    <3>. QED BY <3>1, <3>2
  <2>4. \A g \in Reads : starter'[g] = starter[g]  BY <1>0, <2>1
  <2>. QED BY <2>3, <2>4 DEF Turns
<1>3. OverIsOver'  BY DEF OverIsOver, Doing
<1>4. ASSUME NEW g \in Listens, starter[g].task # NoTask, Doing(starter[g].task) PROVE ListenCared(g)'
  <2>1. g \in Starters /\ starter'[g].task = starter[g].task  BY <1>0, StartersAre
  <2>2. CASE g = h  BY <1>4, <2>1, <2>2 DEF ListenCared
  <2>3. CASE g # h
    <3>1. ListenCared(g) /\ starter'[g] = starter[g]  BY <1>0, <1>4, <2>1, <2>3 DEF Cared
    <3>2. h[2] = dictation.now => dictation.task = NoTask  BY DEF Turns
    <3>. QED BY <1>4, <3>1, <3>2 DEF ListenCared
  <2>. QED BY <2>2, <2>3
<1>5. ASSUME NEW g \in Reads, starter[g].task # NoTask, Doing(starter[g].task) PROVE ReadCared(g)'
  <2>1. g \in Starters /\ g # h  BY StartersAre
  <2>2. ReadCared(g) /\ starter'[g] = starter[g]  BY <1>0, <1>5, <2>1 DEF Cared
  <2>. QED BY <2>2 DEF ReadCared
<1>6. Cared'
  <2>1. \A g \in Listens : g \in Starters  BY StartersAre
  <2>2. \A g \in Reads : g \in Starters  BY StartersAre
  <2>. QED BY <1>0, <1>4, <1>5, <2>1, <2>2 DEF Cared, Doing
<1>. QED BY <1>1, <1>2, <1>3, <1>6

LEMMA ListenStartedKeeps == ASSUME NoteInv, NEW h \in Starters, ListenStarted(h) PROVE NoteInv'
<1>. USE DEF NoteInv
<1>. DEFINE task == starter[h].task
            listening == [dictation EXCEPT !.phase = "listening", !.task = task]
            stopping == [listening EXCEPT !.phase = "stopping", !.task = NoTask]
<1>1. /\ h \in Listens /\ starter[h].pc = "reply" /\ starter' = [starter EXCEPT ![h].pc = "done", ![h].code = ""]
      /\ UNCHANGED <<svc, keeper, waiter, speech, given, sent, budget>>
  BY DEF ListenStarted
<1>2. /\ dictation \in DictationState /\ stopper \in StopperRec /\ task \in Int /\ NoTask \in Int /\ svc.last \in Nat /\ NoTask <= svc.last
  BY DEF NoteTyped, ServiceRec, NoTask, StarterRec
<1>3. OnlyStarter(h) /\ starter'[h].pc = "done" /\ starter'[h].task = task  BY <1>1, AnswerTaken
<1>4. \/ /\ h[2] # dictation.now /\ UNCHANGED <<dictation, stopper>>
         /\ orders' = IF task # NoTask THEN orders \cup {Order("Cancel", task)} ELSE orders
      \/ h[2] = dictation.now /\ task = NoTask /\ dictation' = dictation_fail /\ UNCHANGED <<orders, stopper>>
      \/ h[2] = dictation.now /\ task # NoTask /\ dictation' = listening /\ UNCHANGED <<orders, stopper>>
      \/ /\ h[2] = dictation.now /\ task # NoTask /\ dictation' = stopping /\ UNCHANGED orders
         /\ stopper' = [NoStopper EXCEPT !.pc = "monitor", !.task = task]
  BY DEF ListenStarted, GivesBack
<1>5. /\ dictation_fail \in DictationState /\ dictation_fail.phase = "" /\ dictation_fail.task = NoTask
      /\ dictation_fail.now = dictation.now /\ dictation_fail.count = dictation.count
  <2>1. "" \in Phases  BY DEF Phases
  <2>2. dictation_fail \in DictationState  BY <1>2, <2>1, DictationChanged DEF dictation_fail
  <2>. QED BY <1>2, <2>2 DEF DictationState, dictation_fail
<1>6. /\ listening \in DictationState /\ listening.phase = "listening" /\ listening.task = task
      /\ listening.now = dictation.now /\ listening.count = dictation.count
  <2>1. "listening" \in Phases  BY DEF Phases
  <2>2. listening \in DictationState  BY <1>2, <2>1, DictationChanged
  <2>. QED BY <1>2, <2>2 DEF DictationState
<1>. HIDE DEF listening
<1>7. /\ stopping \in DictationState /\ stopping.phase = "stopping" /\ stopping.task = NoTask
      /\ stopping.now = dictation.now /\ stopping.count = dictation.count
  <2>1. "stopping" \in Phases  BY DEF Phases
  <2>2. stopping \in DictationState  BY <1>2, <1>6, <2>1, DictationChanged
  <2>. QED BY <1>6, <2>2 DEF DictationState
<1>. HIDE DEF stopping, task
<1>8. UNCHANGED stopper \/ stopper' = [NoStopper EXCEPT !.pc = "monitor", !.task = task]  BY <1>4
<1>9. NoteTyped'
  <2>1. Order("Cancel", task) \in OrderRec  BY <1>2 DEF Order, OrderRec
  <2>2. orders' \in SUBSET OrderRec  BY <1>4, <2>1 DEF NoteTyped
  <2>3. stopper' \in StopperRec  BY <1>2, <1>8, StopBegins
  <2>4. dictation' \in DictationState  BY <1>2, <1>4, <1>5, <1>6, <1>7
  <2>. QED BY <1>1, <1>3, <2>2, <2>3, <2>4, NothingSpent DEF NoteTyped, OnlyStarter
<1>10. StopTrue'  BY <1>2, <1>8, StopBegins DEF StopTrue
<1>11. OwnText'  BY <1>1 DEF OwnText
<1>12. ASSUME NoFaultYet' PROVE WhileWell'
  <2>1. Tasks /\ Turns /\ OverIsOver /\ Cared /\ Heard  BY <1>1, <1>12 DEF WhileWell, NoFaultYet
  <2>2. h[2] = dictation.now => dictation.phase = "starting" /\ stopper.pc = "off"  BY <1>1, <2>1 DEF Turns
  <2>3. Heard'  BY <1>1, <1>2, <1>4, <2>1, <2>2, NoneSent, StopBegins, HeardAsBefore
  <2>4. CASE /\ h[2] # dictation.now /\ UNCHANGED <<dictation, stopper>>
             /\ orders' = IF task # NoTask THEN orders \cup {Order("Cancel", task)} ELSE orders
    <3>1. (dictation.phase # "listening" => dictation.task = NoTask) /\ (stopper.pc # "off" <=> dictation.phase = "stopping")
      BY <2>1 DEF Turns
    <3>2. orders \subseteq orders' /\ (task = NoTask \/ Order("Cancel", task) \in orders')  BY <2>4
    <3>. QED BY <1>1, <1>2, <1>3, <2>1, <2>3, <2>4, <3>1, <3>2, ListenAnswered DEF WhileWell, task
  <2>5. CASE h[2] = dictation.now /\ task = NoTask /\ dictation' = dictation_fail /\ UNCHANGED <<orders, stopper>>
    BY <1>1, <1>2, <1>3, <1>5, <2>1, <2>2, <2>3, <2>5, ListenAnswered DEF WhileWell, task
  <2>6. CASE h[2] = dictation.now /\ task # NoTask /\ dictation' = listening /\ UNCHANGED <<orders, stopper>>
    BY <1>1, <1>2, <1>3, <1>6, <2>1, <2>2, <2>3, <2>6, ListenAnswered DEF WhileWell, task
  <2>7. CASE /\ h[2] = dictation.now /\ task # NoTask /\ dictation' = stopping /\ UNCHANGED orders
             /\ stopper' = [NoStopper EXCEPT !.pc = "monitor", !.task = task]
    <3>1. stopper'.pc = "monitor" /\ stopper'.task = task  BY <1>2, <2>7, StopBegins
    <3>. QED BY <1>1, <1>2, <1>3, <1>7, <2>1, <2>2, <2>3, <2>7, <3>1, ListenAnswered DEF WhileWell, task
  <2>. QED BY <1>4, <2>4, <2>5, <2>6, <2>7
<1>. QED BY <1>9, <1>10, <1>11, <1>12

LEMMA NoWaiterIs ==
    /\ NoWaiter \in WaiterRec /\ NoWaiter.pc = "off" /\ NoWaiter.task = NoTask /\ NoTask \in Int
    /\ \A task \in Int : Waits(task) \in WaiterRec /\ Waits(task).pc = "open" /\ Waits(task).task = task
<1>1. "off" \in WaiterPc /\ "open" \in WaiterPc  BY DEF WaiterPc
<1>2. "" \in Replies  BY DEF Replies
<1>3. NoTask \in Int  BY DEF NoTask
<1>4. NoWaiter \in WaiterRec  BY <1>1, <1>2, <1>3 DEF NoWaiter, WaiterRec
<1>5. \A task \in Int : Waits(task) \in WaiterRec  BY <1>1, <1>4, WaiterChanged DEF Waits
<1>. QED BY <1>3, <1>4, <1>5 DEF NoWaiter, Waits

\* Steps of the reading: whatever it leaves is told to stop, or over.
LEMMA SpeechSide ==
    ASSUME Tasks, Turns, OverIsOver, Cared, UNCHANGED <<svc, keeper, dictation, stopper>>,
           NEW h \in Reads, OnlyStarter(h), starter'[h].task = starter[h].task,
           starter'[h].pc = starter[h].pc \/ starter[h].task = NoTask \/ ReadCared(h)',
           \A g \in Reads : waiter'[g].task <= svc.last
                            /\ (waiter'[g].pc = "reply" /\ waiter'[g].reply # "sentence" => waiter'[g] = waiter[g]),
           starter'[h].pc \in {"off", "poll", "call"} => starter[h].task = NoTask,
           Turns', orders \subseteq orders',
           speech'.task # speech.task => \/ speech.task = NoTask \/ ~Doing(speech.task)
                                         \/ Order("TtsStopSpeech", speech.task) \in orders'
    PROVE  Tasks' /\ OverIsOver' /\ Cared'
<1>0. h \in Starters /\ \A g \in Starters : starter'[g].task = starter[g].task /\ (g # h => starter'[g] = starter[g])
  BY StartersAre DEF OnlyStarter
<1>1. Tasks'  BY <1>0 DEF Tasks
<1>2. OverIsOver'  BY DEF OverIsOver, Doing
<1>3. ASSUME NEW g \in Listens, starter[g].task # NoTask, Doing(starter[g].task) PROVE ListenCared(g)'
  <2>1. g \in Starters /\ g # h  BY StartersAre
  <2>2. ListenCared(g) /\ starter'[g] = starter[g]  BY <1>0, <1>3, <2>1 DEF Cared
  <2>. QED BY <2>2 DEF ListenCared
<1>4. ASSUME NEW g \in Reads, starter[g].task # NoTask, Doing(starter[g].task) PROVE ReadCared(g)'
  <2>1. g \in Starters /\ starter'[g].task = starter[g].task  BY <1>0, StartersAre
  <2>2. ReadCared(g)  BY <1>4 DEF Cared
  <2>3. CASE ReadCared(h)' /\ g = h  BY <2>3
  <2>4. CASE starter'[g].pc = starter[g].pc  BY <1>4, <2>1, <2>2, <2>4 DEF ReadCared
  <2>. QED BY <1>0, <1>4, <2>1, <2>3, <2>4
<1>5. Cared'
  <2>1. \A g \in Listens : g \in Starters  BY StartersAre
  <2>2. \A g \in Reads : g \in Starters  BY StartersAre
  <2>. QED BY <1>0, <1>3, <1>4, <2>1, <2>2 DEF Cared, Doing
<1>. QED BY <1>1, <1>2, <1>5

\* The order to stop what is read.
LEMMA HushedIs ==
    ASSUME NoteTyped, orders' = Hushed
    PROVE  /\ orders' \in SUBSET OrderRec /\ orders \subseteq orders'
           /\ speech.task = NoTask \/ Order("TtsStopSpeech", speech.task) \in orders'
<1>1. Order("TtsStopSpeech", speech.task) \in OrderRec  BY DEF NoteTyped, SpeechState, Order, OrderRec
<1>. QED BY <1>1 DEF Hushed, NoteTyped

LEMMA SpeechStartKeeps == ASSUME NoteInv, speech_start PROVE NoteInv'
<1>. USE DEF NoteInv
<1>. DEFINE n == speech.count + 1
            h == <<"speak", n>>
<1>1. /\ speech.count < budget.reads /\ speech' = [task |-> NoTask, now |-> n, count |-> n]
      /\ starter' = [starter EXCEPT ![h] = Polls(h)] /\ orders' = Hushed
      /\ UNCHANGED <<svc, stopper, keeper, waiter, dictation, given, sent, budget>>
  BY DEF speech_start
<1>2. /\ speech.count \in Nat /\ speech.now \in Nat /\ n \in Nat /\ n # 0 /\ n > speech.count /\ n <= MaxReads /\ NoTask \in Int
  <2>1. speech.count \in Nat /\ speech.now \in Nat  BY DEF NoteTyped, SpeechState
  <2>2. budget.reads \in Nat /\ budget.reads <= MaxReads  BY DEF NoteTyped, Purse, Budgets
  <2>3. NoTask \in Int  BY DEF NoTask
  <2>4. MaxReads \in Nat  BY SpeechNoteAssumption
  <2>5. speech.count < budget.reads  BY <1>1
  <2>6. n \in Nat /\ n # 0 /\ n > speech.count /\ n <= MaxReads  BY ONLY <2>1, <2>2, <2>4, <2>5
  <2>. QED BY <2>1, <2>3, <2>6
<1>3. h \in Reads /\ h \in Starters /\ h[2] = n  BY <1>2, SpeechNoteAssumption DEF Reads, Starters
<1>. HIDE DEF n
<1>4. speech' \in SpeechState /\ speech'.task = NoTask /\ speech'.now = n /\ speech'.count = n  BY <1>1, <1>2 DEF SpeechState
<1>5. OnlyStarter(h) /\ starter'[h].pc = "poll" /\ starter'[h].task = NoTask  BY <1>1, <1>3, PollsIs, StarterGets
<1>6. orders' \in SUBSET OrderRec /\ orders \subseteq orders' /\ (speech.task = NoTask \/ Order("TtsStopSpeech", speech.task) \in orders')
  BY <1>1, HushedIs
<1>7. NoteTyped'  BY <1>1, <1>4, <1>5, <1>6, NothingSpent DEF NoteTyped, OnlyStarter
<1>. HIDE DEF h
<1>8. ASSUME NoFaultYet' PROVE WhileWell'
  <2>1. Tasks /\ Turns /\ OverIsOver /\ Cared /\ Heard  BY <1>1, <1>8 DEF WhileWell, NoFaultYet
  <2>2. starter[h].pc = "off" /\ waiter[h].pc = "off"  BY <1>2, <1>3, <2>1 DEF Turns
  <2>3. starter[h].task = NoTask  BY <1>3, <2>1, <2>2 DEF Tasks
  <2>4. \A g \in Listens : g \in Starters /\ g # h  BY <1>3, StartersAre
  <2>5. Turns'
    <3>1. \A g \in Listens : starter'[g] = starter[g]  BY <1>5, <2>4 DEF OnlyStarter
    <3>2. ASSUME NEW g \in Reads
          PROVE  /\ g[2] > speech'.count => starter'[g].pc = "off"
                 /\ starter'[g].pc \in {"poll", "call", "reply"} /\ g[2] = speech'.now => speech'.task = NoTask
                 /\ starter'[g].pc # "done" => waiter'[g].pc = "off"
                 /\ waiter'[g].pc # "off" /\ g[2] = speech'.now => waiter'[g].task = speech'.task
      <4>1. CASE g = h  BY <1>1, <1>2, <1>3, <1>4, <2>2, <4>1
      <4>2. CASE g # h
        <5>1. g \in Starters /\ g[2] \in Nat /\ g[2] # n /\ starter'[g] = starter[g]
          <6>1. g = <<"speak", g[2]>> /\ g \in Starters /\ g[2] \in Nat  BY StartersAre
          <6>2. g[2] # n  BY <4>2, <6>1 DEF h
          <6>. QED BY <1>5, <4>2, <6>1, <6>2 DEF OnlyStarter
        <5>2. g[2] > n => g[2] > speech.count  BY <1>2, <5>1
        <5>. QED BY <1>1, <1>4, <2>1, <5>1, <5>2 DEF Turns
      <4>. QED BY <4>1, <4>2
    <3>3. speech'.now <= speech'.count /\ speech'.task = NoTask  BY <1>2, <1>4
    <3>. QED BY <1>1, <2>1, <3>1, <3>2, <3>3 DEF Turns
  <2>6. \A g \in Reads : waiter'[g].task <= svc.last /\ (waiter'[g].pc = "reply" /\ waiter'[g].reply # "sentence" => waiter'[g] = waiter[g])
    BY <1>1, <2>1 DEF Tasks
  <2>7. Tasks' /\ OverIsOver' /\ Cared'  BY <1>1, <1>3, <1>4, <1>5, <1>6, <2>1, <2>3, <2>5, <2>6, SpeechSide
  <2>. QED BY <1>1, <2>1, <2>5, <2>7, HeardAsBefore DEF WhileWell
<1>. QED BY <1>1, <1>7, <1>8, GivesNothing

\* Steps of the reading that leave the starters and the waiters.
LEMMA SpeechQuiet ==
    ASSUME Tasks, Turns, OverIsOver, Cared, Heard, UNCHANGED <<svc, starter, stopper, keeper, waiter, dictation, sent>>,
           orders \subseteq orders', speech'.count = speech.count, speech'.now \in {speech.now, 0}, 0 <= speech.count,
           \/ speech'.task = speech.task /\ speech'.now = speech.now
           \/ /\ speech'.now = 0 /\ speech'.task = NoTask
              /\ speech.task = NoTask \/ ~Doing(speech.task) \/ Order("TtsStopSpeech", speech.task) \in orders'
    PROVE  WhileWell'
<1>1. Tasks'  BY DEF Tasks
<1>2. Turns'
  <2>1. \A g \in Reads : g[2] # 0  BY StartersAre
  <2>. QED BY <2>1 DEF Turns
<1>3. OverIsOver'  BY DEF OverIsOver, Doing
<1>4. ASSUME NEW g \in Reads, starter[g].task # NoTask, Doing(starter[g].task) PROVE ReadCared(g)'
  <2>1. ReadCared(g)  BY <1>4 DEF Cared
  <2>. QED BY <1>4, <2>1 DEF ReadCared
<1>5. ASSUME NEW g \in Listens, starter[g].task # NoTask, Doing(starter[g].task) PROVE ListenCared(g)'
  <2>1. ListenCared(g)  BY <1>5 DEF Cared
  <2>. QED BY <2>1 DEF ListenCared
<1>6. Cared'  BY <1>4, <1>5 DEF Cared, Doing
<1>. QED BY <1>1, <1>2, <1>3, <1>6, HeardAsBefore DEF WhileWell

LEMMA SpeechStopKeeps == ASSUME NoteInv, speech_stop PROVE NoteInv'
<1>. USE DEF NoteInv
<1>1. /\ Pay("clicks") /\ speech' = [speech EXCEPT !.task = NoTask, !.now = 0] /\ orders' = Hushed
      /\ UNCHANGED <<svc, starter, stopper, keeper, waiter, dictation, given, sent>>
      /\ speech \in SpeechState /\ NoTask \in Int
  BY DEF speech_stop, NoteTyped, NoTask
<1>2. speech' \in SpeechState  BY <1>1, SpeechChanged
<1>3. speech'.task = NoTask /\ speech'.now = 0 /\ speech'.count = speech.count /\ 0 <= speech.count  BY <1>1, <1>2 DEF SpeechState
<1>4. orders' \in SUBSET OrderRec /\ orders \subseteq orders' /\ (speech.task = NoTask \/ Order("TtsStopSpeech", speech.task) \in orders')
  BY <1>1, HushedIs
<1>5. (NoFaultYet' => NoFaultYet) /\ Purse'  BY <1>1, PaidIsNoFault
<1>6. NoteTyped'  BY <1>1, <1>2, <1>4, <1>5 DEF NoteTyped
<1>7. NoFaultYet' => WhileWell'  BY <1>1, <1>3, <1>4, <1>5, SpeechQuiet DEF WhileWell
<1>. QED BY <1>1, <1>6, <1>7, GivesNothing

LEMMA SpeechPauseKeeps == ASSUME NoteInv, speech_pause PROVE NoteInv'
<1>. USE DEF NoteInv
<1>1. /\ Pay("clicks") /\ UNCHANGED <<svc, starter, stopper, keeper, waiter, dictation, speech, given, sent>>
      /\ speech \in SpeechState
  BY DEF speech_pause, NoteTyped
<1>2. PICK method \in {"TtsPauseSpeech", "TtsResumeSpeech"} : orders' = orders \cup {Order(method, speech.task)}  BY DEF speech_pause
<1>3. Order(method, speech.task) \in OrderRec /\ 0 <= speech.count  BY <1>1 DEF Order, OrderRec, SpeechState
<1>4. orders' \in SUBSET OrderRec /\ orders \subseteq orders'  BY <1>2, <1>3 DEF NoteTyped
<1>5. (NoFaultYet' => NoFaultYet) /\ Purse'  BY <1>1, PaidIsNoFault
<1>6. NoteTyped'  BY <1>1, <1>4, <1>5 DEF NoteTyped
<1>7. ASSUME NoFaultYet' PROVE WhileWell'
  <2>1. Tasks /\ Turns /\ OverIsOver /\ Cared /\ Heard  BY <1>5, <1>7 DEF WhileWell
  <2>2. UNCHANGED <<svc, starter, stopper, keeper, waiter, dictation, sent>>  BY <1>1
  <2>3. speech'.count = speech.count /\ speech'.now = speech.now /\ speech'.task = speech.task  BY <1>1
  <2>4. speech'.now \in {speech.now, 0} /\ orders \subseteq orders' /\ 0 <= speech.count  BY <1>3, <1>4, <2>3
  <2>. QED BY ONLY <2>1, <2>2, <2>3, <2>4, SpeechQuiet
<1>. QED BY <1>1, <1>6, <1>7, GivesNothing

LEMMA SpeakStartedKeeps == ASSUME NoteInv, NEW h \in Starters, SpeakStarted(h) PROVE NoteInv'
<1>. USE DEF NoteInv
<1>. DEFINE task == starter[h].task
<1>1. /\ h \in Reads /\ starter[h].pc = "reply" /\ starter' = [starter EXCEPT ![h].pc = "done", ![h].code = ""]
      /\ UNCHANGED <<svc, stopper, keeper, dictation, given, sent, budget>>
  BY DEF SpeakStarted
<1>2. /\ speech \in SpeechState /\ task \in Int /\ NoTask \in Int
  BY DEF NoteTyped, NoTask, StarterRec
<1>3. OnlyStarter(h) /\ starter'[h].pc = "done" /\ starter'[h].task = task  BY <1>1, AnswerTaken
<1>4. \/ /\ h[2] # speech.now /\ UNCHANGED <<speech, waiter>>
         /\ orders' = IF task # NoTask THEN orders \cup {Order("TtsStopSpeech", task)} ELSE orders
      \/ h[2] = speech.now /\ task = NoTask /\ speech' = [speech EXCEPT !.now = 0] /\ UNCHANGED <<orders, waiter>>
      \/ /\ h[2] = speech.now /\ task # NoTask /\ speech' = [speech EXCEPT !.task = task] /\ UNCHANGED orders
         /\ waiter' = [waiter EXCEPT ![h] = Waits(task)]
  BY DEF SpeakStarted
<1>. HIDE DEF task
<1>5. /\ speech' \in SpeechState /\ speech'.count = speech.count
      /\ \/ h[2] # speech.now /\ speech'.now = speech.now /\ speech'.task = speech.task
         \/ h[2] = speech.now /\ task = NoTask /\ speech'.now = 0 /\ speech'.task = speech.task
         \/ h[2] = speech.now /\ task # NoTask /\ speech'.now = speech.now /\ speech'.task = task
  <2>1. CASE h[2] # speech.now  BY <1>2, <1>4, <2>1
  <2>2. CASE h[2] = speech.now /\ task = NoTask
    <3>1. speech' = [speech EXCEPT !.now = 0]  BY <1>4, <2>2
    <3>. QED BY <1>2, <2>2, <3>1 DEF SpeechState
  <2>3. CASE h[2] = speech.now /\ task # NoTask
    <3>1. speech' = [speech EXCEPT !.task = task]  BY <1>4, <2>3
    <3>. QED BY <1>2, <2>3, <3>1 DEF SpeechState
  <2>. QED BY <2>1, <2>2, <2>3
<1>6. /\ OnlyWaiter(h)
      /\ \/ waiter'[h] = waiter[h]
         \/ h[2] = speech.now /\ task # NoTask /\ waiter'[h].pc = "open" /\ waiter'[h].task = task
  <2>1. CASE waiter' = waiter
    <3>1. waiter \in [Reads -> WaiterRec]  BY DEF NoteTyped
    <3>. QED BY <2>1, <3>1 DEF OnlyWaiter
  <2>2. CASE h[2] = speech.now /\ task # NoTask /\ waiter' = [waiter EXCEPT ![h] = Waits(task)]
    BY <1>1, <1>2, <2>2, NoWaiterIs, WaiterGets
  <2>. QED BY <1>4, <2>1, <2>2
<1>7. orders' \in SUBSET OrderRec /\ orders \subseteq orders' /\ (h[2] # speech.now /\ task # NoTask => Order("TtsStopSpeech", task) \in orders')
  <2>1. Order("TtsStopSpeech", task) \in OrderRec  BY <1>2 DEF Order, OrderRec
  <2>. QED BY <1>4, <2>1 DEF NoteTyped
<1>8. NoteTyped'  BY <1>1, <1>3, <1>5, <1>6, <1>7, NothingSpent DEF NoteTyped, OnlyStarter, OnlyWaiter
<1>9. ASSUME NoFaultYet' PROVE WhileWell'
  <2>1. Tasks /\ Turns /\ OverIsOver /\ Cared /\ Heard  BY <1>1, <1>9 DEF WhileWell, NoFaultYet
  <2>2. waiter[h].pc = "off" /\ (h[2] = speech.now => speech.task = NoTask) /\ h[2] \in Nat /\ h[2] # 0 /\ h[2] <= speech.count
    <3>1. waiter[h].pc = "off" /\ (h[2] = speech.now => speech.task = NoTask) /\ ~(h[2] > speech.count)  BY <1>1, <2>1 DEF Turns
    <3>2. h[2] \in Nat /\ h[2] # 0 /\ speech.count \in Nat  BY <1>1, <1>2, StartersAre DEF SpeechState
    <3>. QED BY <3>1, <3>2
  <2>3. \A g \in Listens : g \in Starters /\ g # h  BY <1>1, StartersAre
  <2>4. Turns'
    <3>1. \A g \in Listens : starter'[g] = starter[g]  BY <1>3, <2>3 DEF OnlyStarter
    <3>2. ASSUME NEW g \in Reads
          PROVE  /\ g[2] > speech'.count => starter'[g].pc = "off"
                 /\ starter'[g].pc \in {"poll", "call", "reply"} /\ g[2] = speech'.now => speech'.task = NoTask
                 /\ starter'[g].pc # "done" => waiter'[g].pc = "off"
                 /\ waiter'[g].pc # "off" /\ g[2] = speech'.now => waiter'[g].task = speech'.task
      <4>1. CASE g = h  
        <5>1. starter'[h].pc = "done" /\ ~(h[2] > speech.count)  BY <1>3, <2>1, <2>2, <1>1 DEF Turns
        <5>2. waiter'[h].pc # "off" => waiter'[h].task = task /\ h[2] = speech.now /\ task # NoTask  BY <1>6, <2>2
        <5>. QED BY <1>5, <4>1, <5>1, <5>2
      <4>2. CASE g # h
        <5>1. g \in Starters /\ g[2] # 0 /\ g[2] # h[2]  BY <1>1, <4>2, StartersAre
        <5>2. starter'[g] = starter[g] /\ waiter'[g] = waiter[g]  BY <1>3, <1>6, <4>2, <5>1 DEF OnlyStarter, OnlyWaiter
        <5>. QED BY <1>5, <2>1, <5>1, <5>2 DEF Turns
      <4>. QED BY <4>1, <4>2
    <3>3. speech'.now <= speech'.count /\ (speech'.now = 0 => speech'.task = NoTask)
      <4>1. 0 <= speech.count  BY <1>2 DEF SpeechState
      <4>. QED BY <1>5, <2>1, <2>2, <4>1 DEF Turns
    <3>. QED BY <1>1, <2>1, <3>1, <3>2, <3>3 DEF Turns
  <2>5. \A g \in Reads : waiter'[g].task <= svc.last /\ (waiter'[g].pc = "reply" /\ waiter'[g].reply # "sentence" => waiter'[g] = waiter[g])
    <3>1. task <= svc.last  BY <2>1 DEF Tasks, task
    <3>. QED BY <1>6, <2>1, <3>1 DEF Tasks, OnlyWaiter
  <2>6. task = NoTask \/ ReadCared(h)'  BY <1>3, <1>5, <1>7 DEF ReadCared
  <2>7. speech'.task # speech.task => speech.task = NoTask  BY <1>5, <2>2
  <2>8. starter'[h].pc = starter[h].pc \/ starter[h].task = NoTask \/ ReadCared(h)'  BY <2>6 DEF task
  <2>9. Tasks' /\ OverIsOver' /\ Cared'
    <3>1. starter'[h].task = starter[h].task /\ starter'[h].pc \notin {"off", "poll", "call"}  BY <1>3 DEF task
    <3>. QED BY <1>1, <1>3, <1>7, <2>1, <2>4, <2>5, <2>7, <2>8, <3>1, SpeechSide
  <2>. QED BY <1>1, <2>1, <2>4, <2>9, HeardAsBefore DEF WhileWell
<1>. QED BY <1>1, <1>8, <1>9, GivesNothing

LEMMA WaitAnsweredKeeps == ASSUME NoteInv, NEW h \in Reads, _waitSpoken(h) PROVE NoteInv'
<1>. USE DEF NoteInv
<1>. DEFINE w == waiter[h]
            d == IF h[2] = speech.now /\ w.reply = "sentence" THEN Waits(w.task) ELSE NoWaiter
<1>1. /\ w.pc = "reply" /\ waiter' = [waiter EXCEPT ![h] = d]
      /\ UNCHANGED <<svc, starter, stopper, keeper, orders, dictation, given, sent, budget>>
      /\ speech' = IF h[2] # speech.now \/ w.reply = "sentence" THEN speech ELSE [speech EXCEPT !.task = NoTask, !.now = 0]
  BY DEF _waitSpoken
<1>2. speech \in SpeechState /\ w \in WaiterRec /\ w.task \in Int /\ NoTask \in Int /\ speech.count \in Nat
  BY DEF NoteTyped, NoTask, WaiterRec, SpeechState
<1>3. /\ d \in WaiterRec /\ d.pc \in {"off", "open"} /\ d.task \in {w.task, NoTask}
      /\ d.pc # "off" => d.task = w.task
  BY <1>2, NoWaiterIs
<1>. HIDE DEF d
<1>4. OnlyWaiter(h) /\ waiter'[h] = d  BY <1>1, <1>3, WaiterGets
<1>5. /\ speech' \in SpeechState /\ speech'.count = speech.count
      /\ \/ speech'.now = speech.now /\ speech'.task = speech.task
         \/ h[2] = speech.now /\ w.reply # "sentence" /\ speech'.now = 0 /\ speech'.task = NoTask
  <2>1. CASE h[2] # speech.now \/ w.reply = "sentence"  BY <1>1, <1>2, <2>1
  <2>2. CASE h[2] = speech.now /\ w.reply # "sentence"
    <3>1. speech' = [speech EXCEPT !.task = NoTask, !.now = 0]  BY <1>1, <2>2
    <3>2. speech' \in SpeechState  BY <1>2, <3>1, SpeechChanged
    <3>. QED BY <1>2, <2>2, <3>1, <3>2 DEF SpeechState
  <2>. QED BY <2>1, <2>2
<1>6. NoteTyped'  BY <1>1, <1>4, <1>5, NothingSpent DEF NoteTyped, OnlyWaiter
<1>7. ASSUME NoFaultYet' PROVE WhileWell'
  <2>1. Tasks /\ Turns /\ OverIsOver /\ Cared /\ Heard  BY <1>1, <1>7 DEF WhileWell, NoFaultYet
  <2>2. h \in Starters /\ starter \in [Starters -> StarterRec]  BY StartersAre DEF NoteTyped
  <2>3. w.reply # "sentence" => ~Doing(w.task)  BY <1>1, <2>1 DEF OverIsOver
  <2>4. h[2] = speech.now => w.task = speech.task  BY <1>1, <2>1 DEF Turns
  <2>5. w.task <= svc.last /\ NoTask <= svc.last
    <3>1. svc.last \in Nat  BY DEF NoteTyped, ServiceRec
    <3>. QED BY <2>1, <3>1 DEF Tasks, NoTask
  <2>6. Turns'
    <3>1. ASSUME NEW g \in Reads
          PROVE  /\ g[2] > speech'.count => starter'[g].pc = "off"
                 /\ starter'[g].pc \in {"poll", "call", "reply"} /\ g[2] = speech'.now => speech'.task = NoTask
                 /\ starter'[g].pc # "done" => waiter'[g].pc = "off"
                 /\ waiter'[g].pc # "off" /\ g[2] = speech'.now => waiter'[g].task = speech'.task
      <4>0. g[2] # 0  BY StartersAre
      <4>1. CASE g = h  BY <1>1, <1>3, <1>4, <1>5, <2>1, <2>4, <4>0, <4>1 DEF Turns
      <4>2. CASE g # h
        <5>1. waiter'[g] = waiter[g] /\ starter'[g] = starter[g]  BY <1>1, <1>4, <4>2 DEF OnlyWaiter
        <5>. QED BY <1>5, <2>1, <4>0, <5>1 DEF Turns
      <4>. QED BY <4>1, <4>2
    <3>2. speech'.now <= speech'.count /\ (speech'.now = 0 => speech'.task = NoTask)  BY <1>2, <1>5, <2>1 DEF Turns
    <3>. QED BY <1>1, <2>1, <3>1, <3>2 DEF Turns
  <2>7. \A g \in Reads : waiter'[g].task <= svc.last /\ (waiter'[g].pc = "reply" /\ waiter'[g].reply # "sentence" => waiter'[g] = waiter[g])
    BY <1>3, <1>4, <2>1, <2>5 DEF Tasks, OnlyWaiter
  <2>8. speech'.task # speech.task => ~Doing(speech.task)  BY <1>5, <2>3, <2>4
  <2>9. OnlyStarter(h) /\ starter'[h] = starter[h]  BY <1>1, <2>2 DEF OnlyStarter
  <2>10. starter[h].pc \in {"off", "poll", "call"} => starter[h].task = NoTask  BY <2>1, <2>2 DEF Tasks
  <2>11. Tasks' /\ OverIsOver' /\ Cared'  BY <1>1, <2>1, <2>6, <2>7, <2>8, <2>9, <2>10, SpeechSide
  <2>. QED BY <1>1, <2>1, <2>6, <2>11, HeardAsBefore DEF WhileWell
<1>. QED BY <1>1, <1>6, <1>7, GivesNothing

LEMMA NoteStarts == SpeechInit => NoteInv
<1>. SUFFICES ASSUME SpeechInit PROVE NoteInv  OBVIOUS
<1>1. /\ \E state \in {Absent, STATE_IDLE} :
            svc = [state |-> state, task |-> NoTask, does |-> "nothing", decoding |-> {}, last |-> 0]
      /\ starter = [h \in Starters |-> Off] /\ stopper = NoStopper
      /\ keeper = [pc |-> "off", task |-> NoTask, alive |-> "yes"]
      /\ orders = {} /\ given = {} /\ sent = {} /\ waiter = [h \in Reads |-> NoWaiter]
      /\ dictation = [phase |-> "", task |-> NoTask, now |-> 0, count |-> 0, pending |-> FALSE]
      /\ speech = [task |-> NoTask, now |-> 0, count |-> 0]
  BY DEF SpeechInit
<1>2. PICK user \in Users :
        budget = [listens |-> user.listens, reads |-> user.reads, clicks |-> user.clicks, foreign |-> MaxForeign, faults |-> MaxFaults]
  BY DEF SpeechInit
<1>3. NoTask \in Int /\ NoTask <= 0 /\ Absent \in Int /\ STATE_IDLE \in Int  BY DEF NoTask, Absent, STATE_IDLE
<1>4. Off \in StarterRec /\ Off.pc = "off" /\ Off.task = NoTask
  <2>1. "off" \in StarterPc  BY DEF StarterPc
  <2>2. "none" \in Procs  BY DEF Procs
  <2>3. "" \in StartCodes  BY DEF StartCodes
  <2>. QED BY <1>3, <2>1, <2>2, <2>3 DEF Off, StarterRec
<1>5. svc \in ServiceRec /\ svc.task = NoTask /\ svc.does = "nothing" /\ svc.last = 0
  <2>1. "nothing" \in Does /\ {} \in Decodings  BY DEF Does, Decodings
  <2>2. PICK state \in Int : svc = [state |-> state, task |-> NoTask, does |-> "nothing", decoding |-> {}, last |-> 0]
    BY <1>1, <1>3
  <2>. QED BY <1>3, <2>1, <2>2 DEF ServiceRec
<1>6. keeper \in KeeperRec /\ keeper.pc = "off" /\ keeper.task = NoTask  BY <1>1, <1>3 DEF KeeperRec
<1>7. dictation \in DictationState /\ dictation.phase = "" /\ dictation.task = NoTask /\ dictation.now = 0 /\ dictation.count = 0
  <2>1. "" \in Phases  BY DEF Phases
  <2>. QED BY <1>1, <1>3, <2>1 DEF DictationState
<1>8. speech \in SpeechState /\ speech.task = NoTask /\ speech.now = 0 /\ speech.count = 0  BY <1>1, <1>3 DEF SpeechState
<1>9. Purse
  <2>1. user.listens \in 0 .. MaxListens /\ user.reads \in 0 .. MaxReads /\ user.clicks \in Nat  BY SpeechNoteAssumption
  <2>2. MaxForeign \in Nat /\ MaxFaults \in Nat /\ MaxListens \in Nat /\ MaxReads \in Nat  BY SpeechNoteAssumption
  <2>3. /\ user.listens \in Nat /\ user.listens <= MaxListens /\ user.reads \in Nat /\ user.reads <= MaxReads /\ user.clicks \in Nat
    BY <2>1, <2>2
  <2>. QED BY <1>2, <2>2, <2>3 DEF Purse, Budgets
<1>10. stopper \in StopperRec /\ stopper.pc = "off" /\ stopper.code = "" /\ stopper.got = <<>>  BY <1>1, NoStopperIs DEF NoStopper
<1>11. \A h \in Starters : starter[h].pc = "off" /\ starter[h].task = NoTask  BY <1>1, <1>4
<1>12. \A h \in Reads : waiter[h].pc = "off" /\ waiter[h].task = NoTask  BY <1>1, NoWaiterIs
<1>13. NoteTyped
  <2>1. starter \in [Starters -> StarterRec]  BY <1>1, <1>4
  <2>2. waiter \in [Reads -> WaiterRec]  BY <1>1, NoWaiterIs
  <2>3. orders \in SUBSET OrderRec /\ given \in SUBSET [of : Int, text : Int] /\ sent \in SUBSET Int  BY <1>1
  <2>. QED BY <1>5, <1>6, <1>7, <1>8, <1>9, <1>10, <2>1, <2>2, <2>3 DEF NoteTyped
<1>14. StopTrue /\ OwnText  BY <1>1, <1>10 DEF StopTrue, OwnText
<1>15. Tasks  BY <1>3, <1>5, <1>7, <1>11, <1>12 DEF Tasks
<1>16. Turns
  <2>1. \A h \in Listens : h \in Starters  BY StartersAre
  <2>2. \A h \in Reads : h \in Starters  BY StartersAre
  <2>3. dictation.now <= dictation.count /\ speech.now <= speech.count
    <3>1. dictation.now = 0 /\ dictation.count = 0 /\ speech.now = 0 /\ speech.count = 0  BY <1>7, <1>8
    <3>. QED BY ONLY <3>1
  <2>4. \A h \in Listens : starter[h].pc = "off"  BY <1>11, <2>1
  <2>5. \A h \in Reads : starter[h].pc = "off" /\ waiter[h].pc = "off"  BY <1>11, <1>12, <2>2
  <2>6. stopper.pc = "off" /\ dictation.phase = "" /\ dictation.task = NoTask /\ speech.task = NoTask  BY <1>7, <1>8, <1>10
  <2>. QED BY ONLY <2>3, <2>4, <2>5, <2>6 DEF Turns
<1>17. OverIsOver  BY <1>3, <1>5, <1>6, <1>12 DEF OverIsOver
<1>18. Cared  BY <1>5 DEF Cared, Doing
<1>19. Heard
  <2>1. Len(<<>>) = 0  OBVIOUS
  <2>2. \A i \in 1 .. Len(stopper.got) : FALSE  BY <1>10, <2>1, NoPlace
  <2>. QED BY <1>1, <1>10, <2>2 DEF Heard
<1>. QED BY <1>13, <1>14, <1>15, <1>16, <1>17, <1>18, <1>19 DEF NoteInv, WhileWell

LEMMA NoteStep == NoteInv /\ [SpeechNext]_speechVars => NoteInv'
<1>. SUFFICES ASSUME NoteInv, [SpeechNext]_speechVars PROVE NoteInv'  OBVIOUS
<1>1. CASE UNCHANGED speechVars
  <2>1. /\ UNCHANGED <<svc, starter, stopper, keeper, orders, waiter>>
        /\ UNCHANGED <<dictation, speech, given, sent, budget>>
    BY <1>1 DEF speechVars
  <2>2. NoteTyped'  BY <2>1 DEF NoteInv, NoteTyped, Purse
  <2>3. WhileWell => WhileWell'
    BY <2>1, HeardAsBefore DEF WhileWell, Tasks, Turns, OverIsOver, Cared, ListenCared, ReadCared, Doing, Order
  <2>. QED BY <2>1, <2>2, <2>3, GivesNothing DEF NoteInv, NoFaultYet
<1>2. CASE Service
  BY <1>2, ComesKeeps, LoadsKeeps, LeavesKeeps, ForeignKeeps, TextDecodedKeeps, ErrorOccuredKeeps, TaskOverKeeps, SentenceKeeps DEF Service
<1>3. CASE Commands
  BY <1>3, EnsureReadyKeeps, CallsServiceKeeps, StarterKilledKeeps, ListenStopKeeps, SttStopListenKeeps, ReadsSignalKeeps,
     StopTimesOutKeeps, OrderRunsKeeps, KeepAliveKeeps, WaitSpokenKeeps DEF Commands
<1>4. CASE Widget
  BY <1>4, DictationStartKeeps, DictationStopKeeps, ListenStoppedKeeps, KeptAliveKeeps, SpeechStartKeeps, SpeechStopKeeps,
     SpeechPauseKeeps, ListenStartedKeeps, SpeakStartedKeeps, WaitAnsweredKeeps DEF Widget
<1>. QED BY <1>1, <1>2, <1>3, <1>4 DEF SpeechNext

LEMMA NoteGivenBack == NoteInv => GivenBack
<1>. SUFFICES ASSUME NoteInv, NoFaultYet PROVE GivenBack  BY DEF GivenBack
<1>1. Turns /\ Cared  BY DEF NoteInv, WhileWell
<1>2. \A h \in Reads : h \in Starters /\ h[1] = "speak"  BY StartersAre
<1>3. \A h \in Listens : h \in Starters /\ h[1] = "listen"  BY StartersAre
<1>4. \A h \in Starters : h \in Listens \/ h \in Reads  BY StartersAre
<1>5. ASSUME svc.does = "listening", svc.task \in OursTasks("listen")
      PROVE  dictation.phase # "" \/ orders # {} \/ stopper.pc # "off" \/ Starting("listen")
  <2>1. PICK h \in Starters : h[1] = "listen" /\ starter[h].task = svc.task /\ svc.task # NoTask  BY <1>5 DEF OursTasks
  <2>2. h \in Listens  BY <1>2, <1>4, <2>1
  <2>3. ListenCared(h)  BY <1>1, <1>5, <2>1, <2>2 DEF Cared, Doing
  <2>4. dictation.task # NoTask => dictation.phase # ""  BY <1>1 DEF Turns
  <2>. QED BY <2>1, <2>3, <2>4 DEF ListenCared, Starting
<1>6. ASSUME svc.does \in {"speaking", "paused"}, svc.task \in OursTasks("speak")
      PROVE  speech.now # 0 \/ orders # {} \/ Starting("speak")
  <2>1. PICK h \in Starters : h[1] = "speak" /\ starter[h].task = svc.task /\ svc.task # NoTask  BY <1>6 DEF OursTasks
  <2>2. h \in Reads  BY <1>3, <1>4, <2>1
  <2>3. ReadCared(h)  BY <1>1, <1>6, <2>1, <2>2 DEF Cared, Doing
  <2>4. speech.task # NoTask => speech.now # 0  BY <1>1 DEF Turns
  <2>. QED BY <2>1, <2>3, <2>4 DEF ReadCared, Starting
<1>. QED BY <1>5, <1>6 DEF GivenBack

LEMMA NoteTextTrue == NoteInv => TextTrue
BY DEF NoteInv, WhileWell, Heard, TextTrue, TextIsHeard

-----------------------------------------------------------------------------
(* The invariant.                                                          *)

\* The engines of the settings do not change, and only the chosen one moves.
LEMMA InitInv == Init => IInv
BY RecorderStarts, ReaderStarts, NoteStarts DEF Init, IInv

LEMMA NextInv == IInv /\ [Next]_voiceVars => IInv'
<1>. SUFFICES ASSUME IInv, [Next]_voiceVars PROVE IInv'  OBVIOUS
<1>1. RecorderInv'
  <2>1. [RecorderNext]_recorderVars  BY DEF Next, ViaSpeechNote, ViaRecorder, ViaServer, voiceVars
  <2>. QED BY <2>1, RecorderStep DEF IInv
<1>2. ReaderInv'
  <2>1. [FileSpeechNext]_fileSpeechVars  BY DEF Next, ViaSpeechNote, ViaRecorder, ViaServer, voiceVars
  <2>. QED BY <2>1, ReaderStep DEF IInv
<1>3. NoteInv'
  <2>1. [SpeechNext]_speechVars  BY DEF Next, ViaSpeechNote, ViaRecorder, ViaServer, voiceVars
  <2>. QED BY <2>1, NoteStep DEF IInv
<1>. QED BY <1>1, <1>2, <1>3 DEF IInv

LEMMA Invariant == Spec => []IInv
BY InitInv, NextInv, PTL DEF Spec

-----------------------------------------------------------------------------
(* Theorems.                                                               *)

\* While nothing fails, Speech Note neither listens nor reads for a widget that is done with it and has no
\* command on its way, whatever was cancelled, replaced or answered late (SpeechNoteDictation.qml start and
\* stop, speechnote.py listen_stop, SpeechNoteSpeech.qml stop and _waitSpoken).
THEOREM SpecGivenBack == Spec => []GivenBack
<1>1. IInv => GivenBack  BY NoteGivenBack DEF IInv
<1>. QED BY <1>1, Invariant, PTL

\* The widget gets the text of its dictation and of no other, and while nothing fails none that the service
\* sent for it is missed (listen_stop in speechnote.py and Monitor.ready in speechnote_bus.py).
THEOREM SpecTextTrue == Spec => []TextTrue
<1>1. IInv => TextTrue  BY NoteTextTrue DEF IInv
<1>. QED BY <1>1, Invariant, PTL

\* stt_stop signals the recorder of the dictation it read of and never another process, a cancelled one
\* gives no text, and a recorder that began alone can be stopped (stt_record.py dictate and stop).
THEOREM SpecRecorderObeys == Spec => []RecorderObeys
<1>1. IInv => RecorderObeys  BY RecorderInvObeys DEF IInv
<1>. QED BY <1>1, Invariant, PTL

\* The parts of a text are read in their order, each once, and no WAV file stays that nothing will remove
\* (FileSpeech.qml and tts.py synthesize, cleanup and _new_wav).
THEOREM SpecReadAloud == Spec => []ReadAloud
<1>1. IInv => ReadAloud  BY ReaderReads DEF IInv
<1>. QED BY <1>1, Invariant, PTL
==============================================================================
