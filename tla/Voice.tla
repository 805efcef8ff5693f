-------------------------------- MODULE Voice --------------------------------
(***************************************************************************)
(* Dictation and reading aloud by the engines of the settings              *)
(* (voice/SttBackend.qml, ReadAloud.qml): Speech Note's service for both,  *)
(* a recorder and a speech server, or a speech server that sends sound.    *)
(***************************************************************************)
EXTENDS SpeechNote, Recorder, FileSpeech

VARIABLE engine
voiceVars == <<engine, speechVars, recorderVars, fileSpeechVars>>

Init ==
    /\ engine \in {"speechnote", "remote", "server"}
    /\ SpeechInit /\ RecorderInit /\ FileSpeechInit
    /\ engine # "speechnote" => svc.state = Absent /\ budget.clicks = 0

\* start and stop go to the engine.
ViaSpeechNote == engine = "speechnote" /\ SpeechNext /\ UNCHANGED <<engine, recorderVars, fileSpeechVars>>
ViaRecorder == engine = "remote" /\ RecorderNext /\ UNCHANGED <<engine, speechVars, fileSpeechVars>>
ViaServer == engine = "server" /\ FileSpeechNext /\ UNCHANGED <<engine, speechVars, recorderVars>>

Next == ViaSpeechNote \/ ViaRecorder \/ ViaServer

Spec == Init /\ [][Next]_voiceVars
=============================================================================
