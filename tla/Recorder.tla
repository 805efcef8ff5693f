------------------------------- MODULE Recorder -------------------------------
(***************************************************************************)
(* Dictation with a speech server (kdeaichat/stt_record.py,                *)
(* stt_commands.py): stt_dictate starts a recorder, waits for its end and  *)
(* has the recording transcribed; stt_stop, another process, finds the     *)
(* recorder by a state file and asks it to end.                            *)
(***************************************************************************)
EXTENDS Integers, FiniteSets

CONSTANTS
    Dictations, Stops,   \* the commands stt_dictate and stt_stop that are run, model values
    Pids,                \* process numbers
    MaxTroubles          \* killed stt_dictate, recorders that fail or cannot start, a number used again

ASSUME RecorderAssumption ==
    /\ MaxTroubles \in Nat /\ Pids \subseteq Nat
    /\ Cardinality(Pids) >= Cardinality(Dictations)

VARIABLES
    rec,        \* for each stt_dictate: [pc, pid, folder, mark, wav, out, alone]
    stop,       \* for each stt_stop: [pc, cancel, pid, of, out]
    stateFile,  \* stt-dictation.json: the dictation that wrote it, or None
    proc,       \* for each process number: "free", "recording", "asked" to end, "zombie", "other"
    marked,     \* dictations marked as cancelled while their recorder was at work
    struck,     \* programs of others that got a SIGINT
    troubles

recorderVars == <<rec, stop, stateFile, proc, marked, struck, troubles>>

None == [none |-> TRUE]
Trouble == troubles > 0 /\ troubles' = troubles - 1

Idle == [pc |-> "off", pid |-> 0, folder |-> FALSE, mark |-> FALSE, wav |-> "none", out |-> "none", alone |-> TRUE]

_alive(pid) == proc[pid] # "free"

\* read_state: a dead process number is no recording.
read_state == IF stateFile # None /\ _alive(stateFile.pid) THEN stateFile ELSE None

Beginning(r) == rec[r].pc \in {"folder", "spawned"}

-----------------------------------------------------------------------------
(* stt_dictate                                                             *)

Ends(r, out) == [rec EXCEPT ![r].pc = "done", ![r].folder = FALSE, ![r].mark = FALSE, ![r].wav = "none", ![r].out = out]

Begin(r) ==
    LET others == {o \in Dictations \ {r} : Beginning(o)} IN
    /\ rec[r].pc = "off"
    /\ rec' = IF read_state # None
              THEN Ends(r, "busy")
              ELSE [o \in Dictations |-> IF o = r THEN [rec[r] EXCEPT !.pc = "folder", !.folder = TRUE, !.alone = others = {}]
                                         ELSE IF o \in others THEN [rec[o] EXCEPT !.alone = FALSE] ELSE rec[o]]
    /\ UNCHANGED <<stop, stateFile, proc, marked, struck, troubles>>

\* The recorder is started, with a new number, or there is none.
Popen(r) ==
    /\ rec[r].pc = "folder"
    /\ \/ \E p \in Pids :
            /\ proc[p] = "free" /\ \A o \in Dictations : rec[o].pid < p
            /\ proc' = [proc EXCEPT ![p] = "recording"]
            /\ rec' = [rec EXCEPT ![r].pc = "spawned", ![r].pid = p]
            /\ UNCHANGED troubles
       \/ Trouble /\ rec' = Ends(r, "no_recorder") /\ UNCHANGED proc
    /\ UNCHANGED <<stop, stateFile, marked, struck>>

\* Another one that is about to remove the state file will remove this one's.
_write_state(r) ==
    /\ rec[r].pc = "spawned"
    /\ stateFile' = [pid |-> rec[r].pid, of |-> r]
    /\ rec' = [rec EXCEPT ![r].pc = "waiting", ![r].alone = @ /\ \A o \in Dictations : rec[o].pc # "unlink"]
    /\ UNCHANGED <<stop, proc, marked, struck, troubles>>

\* Five minutes are over: SIGINT, as a stop would send it.
Limit(r) ==
    /\ rec[r].pc = "waiting" /\ proc[rec[r].pid] = "recording"
    /\ proc' = [proc EXCEPT ![rec[r].pid] = "asked"]
    /\ UNCHANGED <<rec, stop, stateFile, marked, struck, troubles>>

\* The recorder ends: asked to, with a file of some length, or by itself, with none.
RecorderEnds(r) ==
    LET p == rec[r].pid IN
    /\ p # 0 /\ rec[r].pc \in {"spawned", "waiting", "killed"}
    /\ \/ /\ proc[p] = "asked" /\ UNCHANGED troubles
          /\ \E wav \in {"short", "speech"} : rec' = [rec EXCEPT ![r].wav = wav]
       \/ /\ proc[p] = "recording" /\ Trouble
          /\ rec' = [rec EXCEPT ![r].wav = "failed"]
    /\ proc' = [proc EXCEPT ![p] = IF rec[r].pc = "killed" THEN "free" ELSE "zombie"]
    /\ UNCHANGED <<stop, stateFile, marked, struck>>

\* Mutant: whatever the state file says is over.
Clears_Any(state, r) == TRUE

Clears(state, r) == state.pid = rec[r].pid

\* The number of the recorder is free.
_wait(r) ==
    /\ rec[r].pc = "waiting" /\ proc[rec[r].pid] = "zombie"
    /\ proc' = [proc EXCEPT ![rec[r].pid] = "free"]
    /\ rec' = [rec EXCEPT ![r].pc = "clear"]
    /\ UNCHANGED <<stop, stateFile, marked, struck, troubles>>

\* The state file is read, and is to go if it is about this recorder.
_clear_state(r) ==
    /\ rec[r].pc = "clear"
    /\ rec' = [rec EXCEPT ![r].pc = IF stateFile # None /\ Clears(stateFile, r) THEN "unlink" ELSE "ended"]
    /\ UNCHANGED <<stop, stateFile, proc, marked, struck, troubles>>

\* What has its name by then goes, whosever it is.
unlink(r) ==
    /\ rec[r].pc = "unlink"
    /\ stateFile' = None
    /\ rec' = [rec EXCEPT ![r].pc = "ended"]
    /\ UNCHANGED <<stop, proc, marked, struck, troubles>>

\* What becomes of the recording: dropped, refused, too short for a text, or transcribed.
Looks(r) ==
    /\ rec[r].pc = "ended"
    /\ rec' = CASE rec[r].mark -> Ends(r, "cancelled")
                [] ~rec[r].mark /\ rec[r].wav = "failed" -> Ends(r, "record_failed")
                [] ~rec[r].mark /\ rec[r].wav = "short" -> Ends(r, "nothing")
                [] OTHER -> [rec EXCEPT ![r].pc = "transcribe"]
    /\ UNCHANGED <<stop, stateFile, proc, marked, struck, troubles>>

\* The server's text, or EngineError.
transcribe(r) ==
    /\ rec[r].pc = "transcribe"
    /\ \E out \in {"text", "engine_error"} : rec' = Ends(r, out)
    /\ UNCHANGED <<stop, stateFile, proc, marked, struck, troubles>>

\* stt_dictate is killed: its recorder goes on, and the folder stays.
DictateKilled(r) ==
    /\ rec[r].pc \in {"folder", "spawned", "waiting", "clear", "unlink", "ended", "transcribe"} /\ Trouble
    /\ rec' = [rec EXCEPT ![r].pc = "killed"]
    /\ proc' = IF rec[r].pid # 0 /\ proc[rec[r].pid] = "zombie" THEN [proc EXCEPT ![rec[r].pid] = "free"] ELSE proc
    /\ UNCHANGED <<stop, stateFile, marked, struck>>

\* Another program gets the number of a recorder that is gone.  Numbers do not come round in the moment
\* between a look at a process and the signal to it.
NumberUsedAgain(p) ==
    /\ proc[p] = "free" /\ \E r \in Dictations : rec[r].pid = p
    /\ \A s \in Stops : stop[s].pc \notin {"mark", "kill"}
    /\ Trouble
    /\ proc' = [proc EXCEPT ![p] = "other"]
    /\ UNCHANGED <<rec, stop, stateFile, marked, struck>>

-----------------------------------------------------------------------------
(* stt_stop                                                                *)

Asked(s, out) == [stop EXCEPT ![s].pc = "done", ![s].out = out]

StopReads(s, cancel) ==
    LET found == read_state IN
    /\ stop[s].pc = "off"
    /\ stop' = IF found = None THEN Asked(s, "not recording")
               ELSE [stop EXCEPT ![s] = [pc |-> "look", cancel |-> cancel, pid |-> found.pid, of |-> found.of, out |-> "none"]]
    /\ UNCHANGED <<rec, stateFile, proc, marked, struck, troubles>>

\* Is the name of the recording on the process's command line?  That of a process that has ended is empty.
Ours(s) == rec[stop[s].of].pid = stop[s].pid /\ proc[stop[s].pid] \in {"recording", "asked"}

StopLooks(s) ==
    /\ stop[s].pc = "look"
    /\ stop' = IF ~Ours(s) THEN Asked(s, "not recording")
               ELSE [stop EXCEPT ![s].pc = IF stop[s].cancel THEN "mark" ELSE "kill"]
    /\ UNCHANGED <<rec, stateFile, proc, marked, struck, troubles>>

\* The mark is a file in the folder; without the folder stt_stop ends with an error.
StopMarks(s) ==
    LET r == stop[s].of IN
    /\ stop[s].pc = "mark"
    /\ IF rec[r].folder
       THEN /\ stop' = [stop EXCEPT ![s].pc = "kill"]
            /\ rec' = [rec EXCEPT ![r].mark = TRUE]
            /\ marked' = IF proc[rec[r].pid] \in {"recording", "asked"} THEN marked \cup {r} ELSE marked
       ELSE stop' = Asked(s, "error") /\ UNCHANGED <<rec, marked>>
    /\ UNCHANGED <<stateFile, proc, struck, troubles>>

StopKills(s) ==
    LET p == stop[s].pid IN
    /\ stop[s].pc = "kill"
    /\ proc' = IF proc[p] = "recording" THEN [proc EXCEPT ![p] = "asked"] ELSE proc
    /\ struck' = IF proc[p] = "other" THEN struck \cup {p} ELSE struck
    /\ stop' = Asked(s, "stopping")
    /\ UNCHANGED <<rec, stateFile, marked, troubles>>

-----------------------------------------------------------------------------
RecorderInit ==
    /\ rec = [r \in Dictations |-> Idle]
    /\ stop = [s \in Stops |-> [pc |-> "off", cancel |-> FALSE, pid |-> 0, of |-> None, out |-> "none"]]
    /\ stateFile = None
    /\ proc = [p \in Pids |-> "free"]
    /\ marked = {} /\ struck = {} /\ troubles = MaxTroubles

DictateStep(r) ==
    Begin(r) \/ Popen(r) \/ _write_state(r) \/ Limit(r) \/ RecorderEnds(r) \/ _wait(r) \/ _clear_state(r) \/ unlink(r)
        \/ Looks(r) \/ transcribe(r) \/ DictateKilled(r)
StopStep(s) == (\E cancel \in BOOLEAN : StopReads(s, cancel)) \/ StopLooks(s) \/ StopMarks(s) \/ StopKills(s)

RecorderNext ==
    \/ \E r \in Dictations : DictateStep(r)
    \/ \E s \in Stops : StopStep(s)
    \/ \E p \in Pids : NumberUsedAgain(p)

-----------------------------------------------------------------------------
\* stop (stt_record.py:169-188): a dictation that was cancelled while it was recorded is never transcribed,
\* whoever ended the recorder, and no program of others is stopped, though process numbers come round.
CancelDrops ==
    /\ \A r \in marked : rec[r].out # "text" /\ rec[r].pc # "transcribe"
    /\ struck = {}

\* _clear_state and read_state (stt_record.py:59-83): the recorder of a dictation is found by stt_stop, though
\* another one ends or was killed before; unless two dictations begin at the same moment, or the one that ends
\* has just seen that the state file is its own when the other replaces it.
CanBeStopped ==
    \A r \in Dictations :
        rec[r].alone /\ rec[r].pc = "waiting" /\ proc[rec[r].pid] = "recording" => read_state # None /\ read_state.of = r

\* Stop and cancel do what they say.
RecorderObeys == CancelDrops /\ CanBeStopped
=============================================================================
