----------------------------- MODULE FileSpeech -----------------------------
(***************************************************************************)
(* Reading aloud with a speech server (voice/ReadAloud.qml, FileSpeech.qml,*)
(* WavPlayer.qml, kdeaichat/tts.py).  A helper makes a WAV of each part of *)
(* a text, one ahead of the one that plays; what has been played, or is no *)
(* longer wanted, another helper removes.  A WAV is <<reading, part>>.     *)
(***************************************************************************)
EXTENDS Integers, Sequences, SequencesExt

CONSTANTS
    MaxReadings,
    Lengths,            \* the numbers of parts a text may have
    MaxMishaps          \* killed helpers, errors of the server, the disk or the player, unloaded readers

ASSUME FileSpeechAssumption ==
    {MaxReadings, MaxMishaps} \subseteq Nat /\ Lengths \subseteq Nat \ {0} /\ Lengths # {}

VARIABLES
    phase,      \* ReadAloud's: "", "synthesizing", "playing" or "paused"
    talk,       \* FileSpeech: [reading, chunks, next, synthesizing, ready, playing]
    sound,      \* the player: "silent", "playing" or "paused"
    maker,      \* for each WAV, the helper that makes it: "off", "asked", "made", "good", "bad" or "done"
    files,      \* the WAVs in the folder
    removals,   \* the WAVs a helper was asked to remove
    told,       \* the parts of the reading that were played, in the order they were
    finished,   \* the reading came to its end
    readings,   \* the number of readings, and of the parts of the last
    left,       \* the WAVs a mishap has left
    mishaps

fileSpeechVars == <<phase, talk, sound, maker, files, removals, told, finished, readings, left, mishaps>>

Wavs == (1 .. MaxReadings) \X UNION {1 .. n : n \in Lengths}
NoWav == <<0, 0>>
ahead == 1
Mishap == mishaps > 0 /\ mishaps' = mishaps - 1
Silent == [reading |-> 0, chunks |-> 0, next |-> 0, synthesizing |-> FALSE, ready |-> <<>>, playing |-> NoWav]

-----------------------------------------------------------------------------
(* FileSpeech.qml                                                          *)

\* The WAVs stop() has removed.
Held(t) == ToSet(t.ready) \cup ({t.playing} \ {NoWav})

_synthesizeNext(t) ==
    IF t.synthesizing \/ t.next >= t.chunks \/ Len(t.ready) >= ahead
    THEN t ELSE [t EXCEPT !.next = @ + 1, !.synthesizing = TRUE]

_playNext(t) ==
    IF t.ready = <<>> THEN t
    ELSE _synthesizeNext([t EXCEPT !.playing = Head(t.ready), !.ready = Tail(t.ready)])

AtTheEnd(t) == t.playing = NoWav /\ t.ready = <<>> /\ t.next >= t.chunks /\ ~t.synthesizing

\* stop(), and the reader is done.
Halts(makers) ==
    /\ talk' = Silent /\ sound' = "silent" /\ phase' = ""
    /\ maker' = makers
    /\ removals' = removals \cup Held(talk)
    /\ UNCHANGED <<told, finished>>

\* A helper is asked for the part the state t is waiting for.
Asking(t, makers) ==
    [w \in Wavs |-> IF t.synthesizing /\ w = <<t.reading, t.next>> /\ makers[w] = "off" THEN "asked" ELSE makers[w]]

\* The reader goes on with t, where the WAVs in gone are not needed any more; or the payload of the
\* helper it asks cannot be written, which is told at once.
GoesOn(t, makers, gone) ==
    \/ /\ talk' = IF AtTheEnd(t) THEN [t EXCEPT !.chunks = 0] ELSE t
       /\ finished' = AtTheEnd(t)
       /\ maker' = Asking(t, makers)
       /\ removals' = removals \cup gone
       /\ IF t.playing \notin {talk.playing, NoWav}
          THEN /\ told' = Append(told, t.playing) /\ sound' = "playing"
               /\ phase' = IF phase = "synthesizing" THEN "playing" ELSE phase
          ELSE /\ UNCHANGED told
               /\ sound' = IF t.playing = NoWav THEN "silent" ELSE sound
               /\ phase' = IF AtTheEnd(t) THEN "" ELSE phase
       /\ UNCHANGED mishaps
    \/ /\ Asking(t, makers) # makers /\ Mishap
       /\ talk' = Silent /\ sound' = "silent" /\ phase' = ""
       /\ maker' = makers
       /\ removals' = removals \cup gone \cup Held(t)
       /\ UNCHANGED <<told, finished>>

\* ReadAloud.speak(): the text replaces the one that is read.
start ==
    \E n \in Lengths :
        LET reading == readings.count + 1
            t == [Silent EXCEPT !.reading = reading, !.chunks = n, !.next = 1, !.synthesizing = TRUE] IN
        /\ reading <= MaxReadings
        /\ readings' = [count |-> reading, parts |-> n]
        /\ talk' = t /\ sound' = "silent" /\ phase' = "synthesizing"
        /\ maker' = Asking(t, maker)
        /\ removals' = removals \cup Held(talk)
        /\ told' = <<>> /\ finished' = FALSE
        /\ UNCHANGED <<files, left, mishaps>>

Stop == phase # "" /\ Halts(maker) /\ UNCHANGED <<files, readings, left, mishaps>>

pause ==
    /\ phase = "playing" /\ phase' = "paused"
    /\ sound' = IF talk.playing # NoWav THEN "paused" ELSE sound
    /\ UNCHANGED <<talk, maker, files, removals, told, finished, readings, left, mishaps>>

resume ==
    /\ phase = "paused" /\ phase' = "playing"
    /\ sound' = IF talk.playing # NoWav THEN "playing" ELSE sound
    /\ UNCHANGED <<talk, maker, files, removals, told, finished, readings, left, mishaps>>

\* Mutant: the reply that comes too late is not looked at.
Stale_Ignored(w) ==
    /\ maker' = [maker EXCEPT ![w] = "done"]
    /\ UNCHANGED <<phase, talk, sound, told, finished, removals, mishaps>>

\* The reply to a reader that has been stopped, or started again, meanwhile: its WAV goes.
Stale(w) ==
    /\ removals' = IF maker[w] = "good" THEN removals \cup {w} ELSE removals
    /\ maker' = [maker EXCEPT ![w] = "done"]
    /\ UNCHANGED <<phase, talk, sound, told, finished, mishaps>>

Reply(w) ==
    LET makers == [maker EXCEPT ![w] = "done"]
        came == [talk EXCEPT !.synthesizing = FALSE, !.ready = Append(@, w)] IN
    /\ maker[w] \in {"good", "bad"}
    /\ CASE talk.reading # w[1] -> Stale(w)
         [] talk.reading = w[1] /\ maker[w] = "bad" -> Halts(makers) /\ UNCHANGED mishaps
         [] OTHER -> GoesOn(_synthesizeNext(IF talk.playing = NoWav THEN _playNext(came) ELSE came), makers, {})
    /\ UNCHANGED <<files, readings, left>>

onEnded ==
    /\ sound = "playing"
    /\ GoesOn(_playNext([talk EXCEPT !.playing = NoWav]), maker, {talk.playing})
    /\ UNCHANGED <<files, readings, left>>

onFailed == sound # "silent" /\ Mishap /\ Halts(maker) /\ UNCHANGED <<files, readings, left>>

\* A helper has neither written its reply nor can any more be heard.
Working == {w \in Wavs : maker[w] \notin {"off", "done"}}

\* Two minutes without a reading: the reader is unloaded, and who answers now is not heard.
unload ==
    /\ phase = "" /\ Working # {} /\ Mishap
    /\ files' = files \cup Working /\ left' = left \cup Working
    /\ maker' = [w \in Wavs |-> IF w \in Working THEN "done" ELSE maker[w]]
    /\ UNCHANGED <<phase, talk, sound, removals, told, finished, readings>>

-----------------------------------------------------------------------------
(* tts.py                                                                  *)

HelperStep(w, to) == maker' = [maker EXCEPT ![w] = to] /\ UNCHANGED <<phase, talk, sound, told, finished, readings>>

_new_wav(w) ==
    /\ maker[w] = "asked" /\ HelperStep(w, "made")
    /\ files' = files \cup {w}
    /\ UNCHANGED <<removals, left, mishaps>>

\* The server's sound is written; or it refuses, or sends something else, and the file is removed.
\* An error of the disk, or of a reply cut off, is not caught.
synthesize(w) ==
    /\ maker[w] = "made"
    /\ \/ HelperStep(w, "good") /\ UNCHANGED <<files, left, mishaps>>
       \/ HelperStep(w, "bad") /\ files' = files \ {w} /\ Mishap /\ UNCHANGED left
       \/ HelperStep(w, "bad") /\ left' = left \cup {w} /\ Mishap /\ UNCHANGED files
    /\ UNCHANGED removals

\* tts_cleanup with a path; or the helper does not come to it.
cleanup(w) ==
    /\ w \in removals /\ removals' = removals \ {w}
    /\ \/ files' = files \ {w} /\ UNCHANGED <<left, mishaps>>
       \/ left' = left \cup {w} /\ Mishap /\ UNCHANGED files
    /\ UNCHANGED <<phase, talk, sound, maker, told, finished, readings>>

-----------------------------------------------------------------------------
FileSpeechInit ==
    /\ phase = "" /\ talk = Silent /\ sound = "silent"
    /\ maker = [w \in Wavs |-> "off"]
    /\ files = {} /\ removals = {} /\ left = {}
    /\ told = <<>> /\ finished = FALSE
    /\ readings = [count |-> 0, parts |-> 0]
    /\ mishaps = MaxMishaps

FileSpeechNext ==
    \/ start \/ Stop \/ pause \/ resume \/ onEnded \/ onFailed \/ unload
    \/ \E w \in Wavs : Reply(w) \/ _new_wav(w) \/ synthesize(w) \/ cleanup(w)

-----------------------------------------------------------------------------
\* No WAV stays in the folder: it is being made, plays, is about to play or to be removed,
\* unless a helper was killed or failed, or the reader was unloaded, before it was.
NothingLeft == \A w \in files : w \in Working \cup Held(talk) \cup removals \cup left

\* A text is heard in its order, and to its end unless it is stopped or fails; while the reader says
\* that it reads, a part is playing or is being made.
ReadThrough ==
    /\ told = [i \in 1 .. Len(told) |-> <<readings.count, i>>]
    /\ finished => Len(told) = readings.parts
    /\ phase # "" => talk.playing # NoWav \/ (talk.synthesizing /\ <<talk.reading, talk.next>> \in Working)

\* A text is read as it is, and leaves nothing behind.
ReadAloud == NothingLeft /\ ReadThrough

=============================================================================
