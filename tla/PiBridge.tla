-------------------------------- MODULE PiBridge --------------------------------
(***************************************************************************)
(* Pi mode: the bridge that keeps one `pi --mode rpc` process for a chat   *)
(* (kdeaichat/pi_bridge_server.py, started by pi_bridge.py) and the        *)
(* attempts that prompt it: the widget's (backends/PiBackend.js) and a     *)
(* scheduled job's (kdeaichat/schedule_pi.py).                             *)
(*                                                                         *)
(* Every request is a thread of the bridge; the threads, a reader for each *)
(* Pi, the janitor and the shutdown share `agents` and `subscribers` under *)
(* a lock.  An action is what one of them does between two points where    *)
(* another can run.  Chats share nothing but the lock: one chat is         *)
(* modelled.  Pi itself is external; what it says is abstracted to the     *)
(* events on which the bridge or an attempt branches.                      *)
(***************************************************************************)
EXTENDS Naturals, Sequences, FiniteSets

CONSTANTS
    Clients,  \* attempts, each one prompt
    Jobs,     \* those of scheduled jobs; the others are the widget's
    Pis,      \* Pi processes that may be started, a bound
    Keys,     \* (directory, provider, model, thinking, instructions, ephemeral)
    UsualKey, \* that of the settings as they are
    None,
    MaxTurns  \* bound of what is out of turn: Stop, SIGTERM, a dialog, a Pi that dies or is silent,
              \* other settings

ASSUME BridgeAssumption ==
    /\ Jobs \subseteq Clients /\ None \notin Clients \cup Pis \cup Keys
    /\ MaxTurns \in Nat /\ UsualKey \in Keys

VARIABLES
    server,      \* "down", "up", "ending": its agents cleared, the server not yet
    agent,       \* agents[chat]
    pi,          \* each Pi process and what the bridge keeps for it
    client,      \* each attempt and the bridge's threads that serve it
    doomed,      \* the Pi processes that the janitor or the shutdown is to stop
    turns        \* what is left of MaxTurns

vars == <<server, agent, pi, client, doomed, turns>>

Ends == {"settled", "refused"}
Lines == Ends \cup {"start", "ask"}
Answers == {"202", "409", "400"}

NoPi == [pc |-> "none", key |-> None, running |-> FALSE, quiet |-> FALSE, term |-> FALSE,
         prompts |-> 0, aborts |-> 0, answers |-> 0, working |-> FALSE, asking |-> FALSE,
         out |-> <<>>, line |-> None]

Gone == [NoPi EXCEPT !.pc = "gone"]

NewClient == [pc |-> "new", key |-> None, queue |-> <<>>, seen |-> None, got |-> FALSE,
              post |-> "none", mine |-> None, close |-> "none", target |-> None, abort |-> FALSE]

Init ==
    /\ server = "down" /\ agent = None /\ doomed = {}
    /\ pi = [a \in Pis |-> NoPi]
    /\ client = [c \in Clients |-> NewClient]
    /\ turns = MaxTurns

Up(a) == pi[a].pc = "up"
\* subscribers[chat]: the queues of the streams that are open.  (The bridge
\* notices a closed one at its next write, within 15 seconds, and nothing that
\* looks at them is in less of a hurry.)
subscribers == {c \in Clients : client[c].pc \notin {"new", "done"}}

Serving == server # "down"
OutOfTurn == turns > 0 /\ turns' = turns - 1

-----------------------------------------------------------------------------
(* An attempt opens its stream.                                            *)

\* The bridge is started unless one answers at the recorded port.
ensure_bridge == server # "ending" /\ server' = "up"

\* GET /chats/<id>/events: the queue is added and the agent looked up under the lock.
events(c) ==
    /\ client[c].pc = "new"
    /\ ensure_bridge
    /\ \E k \in Keys :
          /\ IF k = UsualKey THEN UNCHANGED turns ELSE OutOfTurn
          /\ client' = [client EXCEPT ![c].pc = "opening", ![c].key = k, ![c].seen = agent]
    /\ UNCHANGED <<agent, pi, doomed>>

\* bridge_connected tells whether that agent runs by now.  A job gives up if it
\* does; the widget prompts in any case.
Hello(c) ==
    LET running == client[c].seen # None /\ pi[client[c].seen].running IN
    /\ client[c].pc = "opening" /\ Serving
    /\ client' = [client EXCEPT ![c].seen = None,
                    ![c].pc = IF c \in Jobs /\ running THEN "done" ELSE "asking",
                    ![c].post = IF c \in Jobs /\ running THEN "none" ELSE "wait"]
    /\ UNCHANGED <<server, agent, pi, doomed, turns>>

-----------------------------------------------------------------------------
(* prompt(): the thread of POST /chats/<id>/prompt.                        *)

Replaceable(c) == agent # None /\ pi[agent].key # client[c].key /\ ~pi[agent].running

\* It waits at most five seconds for a run to settle, then takes out, under the
\* lock, an idle Pi with other settings.
PromptReplace(c) ==
    /\ client[c].post = "wait" /\ Serving
    /\ IF Replaceable(c)
       THEN /\ client' = [client EXCEPT ![c].post = "stop", ![c].mine = agent]
            /\ agent' = None
       ELSE client' = [client EXCEPT ![c].post = "start"] /\ UNCHANGED agent
    /\ UNCHANGED <<server, pi, doomed, turns>>

\* The chat's folder or its settings are refused, or Pi isn't installed.
PromptRefused(c) ==
    /\ \/ client[c].post = "wait"
       \/ client[c].post = "start" /\ (agent # None => ~Up(agent))
    /\ Serving /\ OutOfTurn
    /\ client' = [client EXCEPT ![c].post = "400"]
    /\ agent' = IF client[c].post = "start" THEN None ELSE agent
    /\ UNCHANGED <<server, pi, doomed>>

\* stop(quiet): SIGTERM, and SIGKILL after three seconds.
Signalled(a, quiet) ==
    IF pi[a].pc = "gone" THEN pi ELSE [pi EXCEPT ![a].quiet = quiet, ![a].term = Up(a)]

PromptStop(c) ==
    LET a == client[c].mine IN
    /\ client[c].post = "stop" /\ Serving
    /\ \/ ~pi[a].term /\ pi' = Signalled(a, TRUE) /\ UNCHANGED client
       \/ /\ ~Up(a)
          /\ client' = [client EXCEPT ![c].post = "start", ![c].mine = None]
          /\ UNCHANGED pi
    /\ UNCHANGED <<server, agent, doomed, turns>>

\* Mutant: a busy Pi is not refused.
Busy_Never(a) == FALSE

Busy(a) == a # None /\ pi[a].running

Marked(a) == [pi[a] EXCEPT !.running = TRUE]

\* Under the lock: an agent found dead is dropped, a busy one refused; a Pi is
\* started if there is none, and is busy from then on.
PromptStart(c) ==
    LET here == IF agent # None /\ Up(agent) THEN agent ELSE None IN
    /\ client[c].post = "start" /\ Serving
    /\ \/ /\ Busy(here)
          /\ client' = [client EXCEPT ![c].post = "409"]
          /\ UNCHANGED <<pi, agent>>
       \/ /\ ~Busy(here) /\ here # None
          /\ pi' = [pi EXCEPT ![here] = Marked(here)]
          /\ client' = [client EXCEPT ![c].post = "send", ![c].mine = here]
          /\ UNCHANGED agent
       \/ /\ here = None
          /\ \E a \in Pis :
                /\ pi[a].pc = "none"
                /\ pi' = [pi EXCEPT ![a] = [NoPi EXCEPT !.pc = "up", !.key = client[c].key, !.running = TRUE]]
                /\ agent' = a
                /\ client' = [client EXCEPT ![c].post = "send", ![c].mine = a]
    /\ UNCHANGED <<server, doomed, turns>>

Removed(a) == IF agent = a THEN None ELSE agent

\* The command is written to Pi, or Pi is found dead: not running, removed, reaped.
PromptSend(c) ==
    LET a == client[c].mine IN
    /\ client[c].post = "send" /\ Serving
    /\ IF Up(a)
       THEN /\ pi' = [pi EXCEPT ![a].prompts = @ + 1]
            /\ client' = [client EXCEPT ![c].post = "202", ![c].mine = None]
            /\ UNCHANGED agent
       ELSE /\ pi' = [Signalled(a, TRUE) EXCEPT ![a].running = FALSE]
            /\ agent' = Removed(a)
            /\ client' = [client EXCEPT ![c].post = "400", ![c].mine = None]
    /\ UNCHANGED <<server, doomed, turns>>

PromptThread(c) == PromptReplace(c) \/ PromptStop(c) \/ PromptStart(c) \/ PromptSend(c)

-----------------------------------------------------------------------------
(* The attempt reads its stream and the answer to its prompt.              *)

Reading == {"asking", "accepted"}

Done(c) == [client EXCEPT ![c].pc = "done", ![c].queue = <<>>, ![c].seen = None, ![c].got = FALSE]

\* A job reads on only when its prompt is answered.
Event(c) ==
    /\ client[c].pc \in Reading /\ client[c].queue # <<>>
    /\ c \in Jobs => client[c].pc = "accepted"
    /\ LET line == Head(client[c].queue) IN
       /\ client' = IF line \in Ends \cup {"exit"} THEN Done(c)
                    ELSE [client EXCEPT ![c].queue = Tail(@), ![c].got = TRUE]
       \* Nobody answers a job's dialogs: it declines them at once.
       /\ IF line = "ask" /\ c \in Jobs /\ agent # None /\ Up(agent)
          THEN pi' = [pi EXCEPT ![agent].answers = @ + 1]
          ELSE UNCHANGED pi
    /\ UNCHANGED <<server, agent, doomed, turns>>

Answered(c) ==
    /\ client[c].pc = "asking" /\ client[c].post \in Answers
    /\ client' = IF client[c].post = "202" THEN [client EXCEPT ![c].pc = "accepted"] ELSE Done(c)
    /\ UNCHANGED <<server, agent, pi, doomed, turns>>

\* The user answers a dialog that the widget shows (replyDialog).
replyDialog(c) ==
    /\ c \notin Jobs /\ client[c].pc \in Reading /\ client[c].got /\ Serving
    /\ agent # None /\ Up(agent) /\ pi[agent].asking /\ pi[agent].answers = 0
    /\ pi' = [pi EXCEPT ![agent].answers = 1]
    /\ UNCHANGED <<server, agent, client, doomed, turns>>

\* The user stops the reply: it ends at once, its POST .../abort is on its way.
Stop(c) ==
    /\ c \notin Jobs /\ client[c].pc \in Reading /\ OutOfTurn
    /\ client' = [Done(c) EXCEPT ![c].abort = TRUE]
    /\ UNCHANGED <<server, agent, pi, doomed>>

\* A job's time is over: its timer closes the stream and the run is aborted.
TimeOut(c) ==
    /\ c \in Jobs /\ client[c].pc = "accepted"
    /\ client' = [Done(c) EXCEPT ![c].abort = TRUE]
    /\ UNCHANGED <<server, agent, pi, doomed, turns>>

abort(c) ==
    /\ client[c].abort
    /\ client' = [client EXCEPT ![c].abort = FALSE]
    /\ IF Serving /\ agent # None /\ Up(agent)
       THEN pi' = [pi EXCEPT ![agent].aborts = @ + 1]
       ELSE UNCHANGED pi
    /\ UNCHANGED <<server, agent, doomed, turns>>

\* Mutant: the watchdog asks for the status even if Pi never started.
Stalled_AsksStatus(c) == ~(agent # None /\ Up(agent) /\ pi[agent].running)

Stalled(c) == client[c].got => ~(agent # None /\ Up(agent) /\ pi[agent].running)

\* The widget's watchdog: nothing came for a minute, and nothing ever did or the
\* bridge says that Pi does not run: the attempt fails and closes the chat's Pi.
onStall(c) ==
    /\ c \notin Jobs /\ client[c].pc = "accepted" /\ client[c].queue = <<>> /\ Serving
    /\ Stalled(c)
    /\ client' = [Done(c) EXCEPT ![c].close = "fetch"]
    /\ UNCHANGED <<server, agent, pi, doomed, turns>>

\* POST /chats/<id>/close, in three steps: the agent is looked up, what is in
\* agents by then is removed, the one looked up is stopped, and not quietly.
Close(c) ==
    /\ Serving
    /\ \/ /\ client[c].close = "fetch"
          /\ client' = [client EXCEPT ![c].close = IF agent = None THEN "none" ELSE "pop", ![c].target = agent]
          /\ UNCHANGED <<agent, pi>>
       \/ /\ client[c].close = "pop"
          /\ agent' = None
          /\ client' = [client EXCEPT ![c].close = "stop"]
          /\ UNCHANGED pi
       \/ /\ client[c].close = "stop"
          /\ pi' = Signalled(client[c].target, FALSE)
          /\ client' = [client EXCEPT ![c].close = "none", ![c].target = None]
          /\ UNCHANGED agent
    /\ UNCHANGED <<server, doomed, turns>>

-----------------------------------------------------------------------------
(* The reader of a Pi.                                                     *)

RunsAfter(line, running) == line = "start" \/ (running /\ line \notin Ends)

\* _handle_line sets the flag before it takes the lock to broadcast.
_handle_line(a) ==
    /\ Serving /\ pi[a].line = None /\ pi[a].out # <<>>
    /\ pi' = [pi EXCEPT ![a].line = Head(pi[a].out), ![a].out = Tail(@),
                        ![a].running = RunsAfter(Head(pi[a].out), @)]
    /\ UNCHANGED <<server, agent, client, doomed, turns>>

Delivered(line) ==
    [c \in Clients |-> IF c \in subscribers
                       THEN [client[c] EXCEPT !.queue = Append(@, line)] ELSE client[c]]

broadcast(a) ==
    /\ Serving /\ pi[a].line # None
    /\ client' = Delivered(pi[a].line)
    /\ pi' = [pi EXCEPT ![a].line = None]
    /\ UNCHANGED <<server, agent, doomed, turns>>

\* End of file: the agent is removed, then its exit is broadcast unless quiet.
ReaderEnds(a) ==
    /\ Serving /\ pi[a].pc = "dead" /\ pi[a].out = <<>> /\ pi[a].line = None
    /\ agent' = Removed(a)
    /\ pi' = [pi EXCEPT ![a].pc = "removed"]
    /\ UNCHANGED <<server, client, doomed, turns>>

Exit(a) ==
    /\ Serving /\ pi[a].pc = "removed"
    /\ client' = IF pi[a].quiet THEN client ELSE Delivered("exit")
    /\ pi' = [pi EXCEPT ![a] = Gone]
    /\ UNCHANGED <<server, agent, doomed, turns>>

Reader(a) == _handle_line(a) \/ broadcast(a) \/ ReaderEnds(a) \/ Exit(a)

-----------------------------------------------------------------------------
(* The janitor and the shutdown.                                           *)

\* Mutant: idle is having no subscriber.
Idle_Running(a) == a # None /\ subscribers = {}

Idle(a) == a # None /\ ~pi[a].running /\ subscribers = {}

janitor ==
    /\ server = "up" /\ Idle(agent)
    /\ doomed' = doomed \cup {agent}
    /\ agent' = None
    /\ UNCHANGED <<server, pi, client, turns>>

StopDoomed(a) ==
    /\ Serving /\ a \in doomed
    /\ pi' = Signalled(a, FALSE)
    /\ doomed' = doomed \ {a}
    /\ UNCHANGED <<server, agent, client, turns>>

\* shutdown(): from the janitor only if idle, and on SIGTERM in any case.
shutdown ==
    /\ server = "up"
    /\ \/ agent = None /\ subscribers = {} /\ doomed = {} /\ UNCHANGED turns
       \/ OutOfTurn
    /\ server' = "ending"
    /\ doomed' = doomed \cup ({agent} \ {None})
    /\ agent' = None
    /\ UNCHANGED <<pi, client>>

\* The process ends with its threads; the attempts it serves find their streams
\* closed, a Pi that is left finds its input closed, and nobody reads what it says.
BridgeEnds ==
    /\ server = "ending" /\ doomed = {}
    /\ server' = "down" /\ agent' = None
    /\ pi' = [a \in Pis |-> IF pi[a].pc = "none" THEN NoPi ELSE Gone]
    /\ client' = [c \in Clients |-> IF client[c].pc = "new" THEN NewClient ELSE [NewClient EXCEPT !.pc = "done"]]
    /\ UNCHANGED <<doomed, turns>>

-----------------------------------------------------------------------------
(* Pi.                                                                     *)

Say(a, line) == [pi EXCEPT ![a].out = Append(@, line)]

PiTakes(a) ==
    /\ Up(a) /\ pi[a].prompts > 0
    /\ \/ pi' = [Say(a, "start") EXCEPT ![a].prompts = @ - 1, ![a].working = TRUE] /\ UNCHANGED turns
       \/ pi' = [Say(a, "refused") EXCEPT ![a].prompts = @ - 1] /\ UNCHANGED turns
       \/ pi' = [pi EXCEPT ![a].prompts = @ - 1] /\ OutOfTurn
    /\ UNCHANGED <<server, agent, client, doomed>>

PiAsks(a) ==
    /\ Up(a) /\ pi[a].working /\ ~pi[a].asking /\ OutOfTurn
    /\ pi' = [Say(a, "ask") EXCEPT ![a].asking = TRUE]
    /\ UNCHANGED <<server, agent, client, doomed>>

PiAnswered(a) ==
    /\ Up(a) /\ pi[a].answers > 0
    /\ pi' = [pi EXCEPT ![a].answers = @ - 1, ![a].asking = FALSE]
    /\ UNCHANGED <<server, agent, client, doomed, turns>>

PiAborted(a) ==
    /\ Up(a) /\ pi[a].aborts > 0
    /\ pi' = IF pi[a].working
             THEN [Say(a, "settled") EXCEPT ![a].aborts = @ - 1, ![a].working = FALSE, ![a].asking = FALSE]
             ELSE [pi EXCEPT ![a].aborts = @ - 1]
    /\ UNCHANGED <<server, agent, client, doomed, turns>>

PiSettles(a) ==
    /\ Up(a) /\ pi[a].working /\ ~pi[a].asking
    /\ pi' = [Say(a, "settled") EXCEPT ![a].working = FALSE]
    /\ UNCHANGED <<server, agent, client, doomed, turns>>

PiDies(a) ==
    /\ Up(a)
    /\ (pi[a].term /\ UNCHANGED turns) \/ OutOfTurn
    /\ pi' = [pi EXCEPT ![a] = [@ EXCEPT !.pc = "dead", !.prompts = 0, !.aborts = 0, !.answers = 0,
                                         !.working = FALSE, !.asking = FALSE]]
    /\ UNCHANGED <<server, agent, client, doomed>>

PiStep(a) == PiTakes(a) \/ PiAnswered(a) \/ PiAborted(a) \/ PiSettles(a) \/ (pi[a].term /\ PiDies(a))

-----------------------------------------------------------------------------

ClientStep(c) == Hello(c) \/ Event(c) \/ Answered(c)

Next ==
    \/ \E c \in Clients : \/ events(c) \/ ClientStep(c) \/ PromptThread(c) \/ PromptRefused(c) \/ replyDialog(c)
                          \/ Stop(c) \/ TimeOut(c) \/ abort(c) \/ onStall(c) \/ Close(c)
    \/ \E a \in Pis : Reader(a) \/ StopDoomed(a) \/ PiStep(a) \/ PiAsks(a) \/ PiDies(a)
    \/ janitor \/ shutdown \/ BridgeEnds

Spec == Init /\ [][Next]_vars

\* Threads run, timers fire, and a Pi that has started on a prompt goes on.
FairSpec ==
    /\ Spec
    /\ \A c \in Clients : /\ WF_vars(ClientStep(c)) /\ WF_vars(PromptThread(c)) /\ WF_vars(abort(c))
                          /\ WF_vars(onStall(c)) /\ WF_vars(TimeOut(c)) /\ WF_vars(Close(c))
    /\ \A a \in Pis : WF_vars(Reader(a)) /\ WF_vars(StopDoomed(a)) /\ WF_vars(PiStep(a))
    /\ WF_vars(BridgeEnds)

-----------------------------------------------------------------------------
(* Properties.                                                             *)

Output == Seq(Lines)
Queue == Seq(Lines \cup {"exit"})

PiType == [pc : {"none", "up", "dead", "removed", "gone"}, key : Keys \cup {None},
           running : BOOLEAN, quiet : BOOLEAN, term : BOOLEAN,
           prompts : Nat, aborts : Nat, answers : Nat, working : BOOLEAN, asking : BOOLEAN,
           out : Output, line : Lines \cup {None}]

ClientType == [pc : {"new", "opening", "asking", "accepted", "done"}, key : Keys \cup {None},
               queue : Queue, seen : Pis \cup {None}, got : BOOLEAN,
               post : {"none", "wait", "stop", "start", "send"} \cup Answers, mine : Pis \cup {None},
               close : {"none", "fetch", "pop", "stop"}, target : Pis \cup {None}, abort : BOOLEAN]

\* The types of the variables; a thread that stops or prompts a Pi has one, and
\* agents holds none that has ended and whose reader is done.
TypeOK ==
    /\ server \in {"down", "up", "ending"}
    /\ agent \in Pis \cup {None} /\ doomed \subseteq Pis
    /\ agent # None => pi[agent].pc \in {"up", "dead"}
    /\ pi \in [Pis -> PiType] /\ client \in [Clients -> ClientType]
    /\ turns \in Nat
    /\ \A c \in Clients : client[c].post \in {"stop", "send"} <=> client[c].mine # None
    /\ \A c \in Clients : client[c].close \in {"pop", "stop"} <=> client[c].target # None

\* What is on its way for Pi a: a thread about to write a prompt, a prompt in its
\* input, its run, and an end that the reader has not handled.
Sending(a, c) == client[c].post = "send" /\ client[c].mine = a
EndAt(a, i) == i \in 1..Len(pi[a].out) /\ pi[a].out[i] \in Ends

\* "keeps the widget and the job from driving the same Pi session at once (HTTP
\* 409 while a run is going on)": a Pi never has two prompts on their way, from
\* the thread that decides to write one to the reader that handles its end, and
\* while it has one it counts as running.
OnePrompt ==
    \A a \in Pis : Up(a) =>
        /\ pi[a].running \/ (pi[a].prompts = 0 /\ ~pi[a].working)
        /\ pi[a].running \/ \A c \in Clients : ~Sending(a, c)
        /\ pi[a].running \/ \A i \in 1..Len(pi[a].out) : ~EndAt(a, i)
        /\ pi[a].prompts <= 1
        /\ pi[a].prompts = 1 => ~pi[a].working /\ (\A i \in 1..Len(pi[a].out) : ~EndAt(a, i))
        /\ pi[a].working => \A i \in 1..Len(pi[a].out) : ~EndAt(a, i)
        /\ \A c \in Clients : Sending(a, c) =>
              /\ pi[a].prompts = 0 /\ ~pi[a].working /\ \A i \in 1..Len(pi[a].out) : ~EndAt(a, i)
              /\ \A d \in Clients : Sending(a, d) => d = c
        /\ \A i, j \in 1..Len(pi[a].out) : EndAt(a, i) /\ EndAt(a, j) => i = j

\* The Pi that the janitor or a prompt with other settings is about to stop.
Retired(a) == (a \in doomed /\ server = "up") \/ \E c \in Clients : client[c].post = "stop" /\ client[c].mine = a

\* Idle Pi processes are stopped, and only idle ones: neither the janitor nor a
\* change of settings takes a Pi that has or gets a prompt.
OnlyIdleRetired ==
    \A a \in Pis : Retired(a) =>
        /\ agent # a
        /\ Up(a) => ~pi[a].running /\ pi[a].prompts = 0 /\ ~pi[a].working
        /\ \A c \in Clients : ~Sending(a, c)

\* "Watchdog: once the bridge has accepted the prompt ...": every attempt ends,
\* whatever Pi, the janitor and the other attempts do, unless Pi waits for the
\* user's answer to a dialog.
AttemptEnds ==
    <>[]((\A c \in Clients : client[c].pc \in {"new", "done"}) \/ \E a \in Pis : pi[a].asking)

Stopping(a) ==
    \/ pi[a].term \/ a \in doomed
    \/ \E c \in Clients : \/ client[c].post = "stop" /\ client[c].mine = a
                          \/ client[c].close \in {"pop", "stop"} /\ client[c].target = a

\* "Idle Pi processes exit after AGENT_IDLE seconds": only those in agents are
\* looked at, so every Pi that lives is there or about to be stopped.
NoOrphan == \A a \in Pis : Up(a) => agent = a \/ Stopping(a)
=============================================================================
