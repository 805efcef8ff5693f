---------------------------- MODULE ScheduledPrompt ----------------------------
(***************************************************************************)
(* One scheduled prompt after another in the same chat, run without the    *)
(* widget: schedule_exec.run_prompt, with the chat's mode, provider and    *)
(* model (schedule_context), the key from the wallet (schedule_wallet),    *)
(* the request to a provider (schedule_direct, http_safe) or to OpenCode   *)
(* (schedule_opencode), and the notification of a failure.                 *)
(*                                                                         *)
(* Around the job: the wallet may be locked at any time, servers start,    *)
(* stop and redirect, OpenCode forgets sessions and asks for permission,   *)
(* threads of the job watch for such requests, and the widget stores the   *)
(* session that a run has made.  How a reply gets into the chat is         *)
(* ScheduleDelivery, what the Pi bridge does is PiBridge.                  *)
(***************************************************************************)
EXTENDS FiniteSets, Integers, Sequences

CONSTANTS
    Sessions,  \* ids of the OpenCode sessions of the chat and of its runs
    Others,    \* those of other sessions, which the user drives
    Origins,   \* scheme, host and port of the servers a provider may redirect to
    Http,      \* those of them whose scheme is http
    Setups,    \* chats with their project and the settings of their widget
    None,
    MaxRuns, MaxFaults, MaxAsks, MaxHops   \* bounds

ASSUME PromptAssumption ==
    /\ Http \subseteq Origins
    /\ None \notin Sessions \cup Origins
    /\ Sessions \cap Others = {}
    /\ {MaxRuns, MaxFaults, MaxAsks, MaxHops} \subseteq Nat
    /\ None \notin Setups
    /\ \A s \in Setups : /\ {s.perChat, s.chatFirst, s.hasSession, s.piMessage} \subseteq BOOLEAN
                         /\ s.ownModel \in BOOLEAN \cup {None}

VARIABLES
    stage,     \* what run_prompt is doing
    setup,     \* the chat and the settings, until they have been read
    mode,      \* eff["mode"]
    outcome,   \* what the runner returns or raises, then the status of the run
    wallet, handle,  \* kwalletd's wallet, and the job's handle of it
    key,       \* "unread", or whether there is a key to send
    request,   \* the provider's request: where it is now, where it began, whether it carries the key
    server, temp,    \* the configured OpenCode server, and the one started for the run
    known,     \* the sessions OpenCode knows
    ask,       \* the sessions that wait for an answer to a permission request or a question
    stored, updates, \* openCodeSessionId of the chat, and the ones waiting in the inbox
    chatSession, session, attempt,  \* the id the run has read, the one it uses, and which try it is
    watcher,   \* the thread that listens for a session of the run
    heard,     \* requests on the way to a watcher: <<watcher, session>>
    hand,      \* watchers about to refuse a request
    refused, missed, created,       \* history of the run
    budget     \* what is left of the bounds

jobVars == <<stage, setup, mode, outcome>>
keyVars == <<handle, key>>
sessionVars == <<chatSession, session, attempt, created>>
watchVars == <<watcher, heard, hand, refused, missed>>
openCodeVars == <<server, temp, known, ask>>
chatVars == <<stored, updates>>
vars == <<jobVars, wallet, keyVars, request, openCodeVars, chatVars, sessionVars, watchVars, budget>>

Modes == {"provider", "opencode", "pi"}

-----------------------------------------------------------------------------
(* The chat's mode, provider and model: schedule_context.  "" is an empty  *)
(* field, None one that the chat does not have.                            *)

Text(v) == IF v = None THEN "" ELSE v
Or(a, b) == IF a # "" THEN a ELSE b

chat_mode(s) ==
    CASE s.source \in Modes -> s.source
      [] s.source \notin Modes /\ s.hasSession -> "opencode"
      [] s.source \notin Modes /\ ~s.hasSession /\ s.piMessage -> "pi"
      [] OTHER -> "provider"

_has_own(s) ==
    IF s.ownModel = None
    THEN \E v \in {s.chatProvider, s.chatModel, s.ocProvider, s.ocModel, s.piProvider, s.piModel} : Text(v) # ""
    ELSE s.ownModel

model_for(s, p) == IF p \in DOMAIN s.models THEN s.models[p] ELSE ""

\* Mutant: a Pi chat of an old version is not told from a new one.
LegacyPi_Never(s) == FALSE

LegacyPi(s) == s.piProvider = None /\ s.piModel = None /\ chat_mode(s) = "pi"

effective(s) ==
    LET useChat == s.perChat /\ _has_own(s)
        legacyPi == useChat /\ LegacyPi(s)
        projectModel == IF s.projectProvider = "" THEN "" ELSE s.projectModel
        mainDirect == Or(Or(s.projectProvider, s.mainProvider), "openai")
        field(m, c) == IF ~useChat THEN m ELSE IF s.chatFirst THEN Or(Text(c), m) ELSE Or(m, Text(c))
        provider == field(mainDirect, IF legacyPi THEN "" ELSE s.chatProvider)
        ownModel == IF useChat /\ ~legacyPi /\ Or(s.chatProvider, mainDirect) = provider THEN s.chatModel ELSE ""
        main == IF projectModel # "" /\ provider = s.projectProvider THEN projectModel ELSE model_for(s, provider)
    IN CASE chat_mode(s) = "provider" ->
              [mode |-> "provider", provider |-> provider, model |-> field(main, ownModel)]
         [] chat_mode(s) = "opencode" ->
              [mode |-> "opencode", provider |-> field(s.ocMain[1], s.ocProvider), model |-> field(s.ocMain[2], s.ocModel)]
         [] chat_mode(s) = "pi" ->
              [mode |-> "pi",
               provider |-> field(s.piMain[1], IF legacyPi THEN s.chatProvider ELSE s.piProvider),
               model |-> field(s.piMain[2], IF legacyPi THEN s.chatModel ELSE s.piModel)]

-----------------------------------------------------------------------------
Idle == [at |-> None, home |-> None, keyed |-> FALSE]
NoWatcher == [s \in Sessions |-> "off"]

Init ==
    /\ stage = "find_chat" /\ setup \in Setups /\ mode = None /\ outcome = None
    /\ wallet \in {"open", "locked"} /\ handle = FALSE /\ key = "unread" /\ request = Idle
    /\ server \in {"up", "down"} /\ temp = None
    /\ \E s \in Sessions :
         /\ stored = IF setup.hasSession THEN s ELSE None
         /\ known \in SUBSET (IF setup.hasSession THEN {s} ELSE {})
    /\ ask = {} /\ updates = <<>>
    /\ chatSession = None /\ session = None /\ attempt = 0 /\ created = 0
    /\ watcher = NoWatcher /\ heard = {} /\ hand = {} /\ refused = {} /\ missed = FALSE
    /\ budget = [runs |-> MaxRuns, faults |-> MaxFaults, asks |-> MaxAsks, hops |-> MaxHops]

Spend(kind) == budget[kind] > 0 /\ budget' = [budget EXCEPT ![kind] = @ - 1]
Goes(from, to) == stage = from /\ stage' = to /\ UNCHANGED <<setup, mode, outcome>>
Raises(from, what) == stage = from /\ stage' = "judge" /\ outcome' = what /\ UNCHANGED <<setup, mode>>

\* The chat or the widget is gone, or the chat file cannot be read.
find_chat ==
    /\ stage = "find_chat" /\ setup # None
    /\ \/ /\ outcome' \in {"skipped: chat not found", "skipped: widget not found", "error: unreadable"}
          /\ stage' = "over" /\ UNCHANGED <<mode, chatSession>>
       \/ /\ mode' = effective(setup).mode
          /\ stage' = CASE mode' = "provider" -> "_run_direct" [] mode' = "opencode" -> "health" [] OTHER -> "pi"
          /\ chatSession' = stored /\ UNCHANGED outcome
    /\ setup' = None
    /\ UNCHANGED <<wallet, keyVars, request, openCodeVars, chatVars, session, attempt, created, watchVars, budget>>

\* The next occurrence: a new job, which finds the chat as it is now.
NextRun ==
    /\ stage = "over" /\ outcome \notin {"skipped: chat not found", "skipped: widget not found", "error: unreadable"}
    /\ Spend("runs")
    /\ stage' = CASE mode = "provider" -> "_run_direct" [] mode = "opencode" -> "health" [] OTHER -> "pi"
    /\ outcome' = None /\ key' = "unread" /\ request' = Idle
    /\ chatSession' = stored /\ session' = None /\ attempt' = 0 /\ created' = 0
    /\ watcher' = NoWatcher /\ heard' = {} /\ hand' = {} /\ refused' = {} /\ missed' = (stored \in ask)
    /\ UNCHANGED <<setup, mode, wallet, handle, openCodeVars, chatVars>>

-----------------------------------------------------------------------------
(* A direct chat: _run_direct, schedule_wallet and schedule_direct.        *)

\* The provider is not set up, is one for images, has no valid URL, or no model is chosen.
_run_direct ==
    /\ Goes("_run_direct", "isOpen") \/ Raises("_run_direct", "error: provider")
    /\ UNCHANGED <<wallet, keyVars, request, openCodeVars, chatVars, sessionVars, watchVars, budget>>

\* A call that busctl could not make or kwalletd did not answer.
CallFails == Spend("faults")

isOpen ==
    /\ stage = "isOpen"
    /\ \/ wallet = "open" /\ Goes("isOpen", "open") /\ UNCHANGED <<key, budget>>
       \/ wallet = "locked" /\ Goes("isOpen", "keyless") /\ key' = "locked" /\ UNCHANGED budget
       \/ CallFails /\ Goes("isOpen", "keyless") /\ key' = "unavailable"
    /\ UNCHANGED <<wallet, handle, request, openCodeVars, chatVars, sessionVars, watchVars>>

\* The wallet may have been locked since isOpen; kwalletd then asks for its
\* password, and what comes back is a handle or none.
open ==
    /\ stage = "open"
    /\ \/ Goes("open", "read") /\ handle' = TRUE /\ wallet' = "open" /\ UNCHANGED <<key, budget>>
       \/ wallet = "locked" /\ Goes("open", "keyless") /\ key' = "locked" /\ UNCHANGED <<wallet, handle, budget>>
       \/ CallFails /\ Goes("open", "keyless") /\ key' = "unavailable" /\ UNCHANGED <<wallet, handle>>
    /\ UNCHANGED <<request, openCodeVars, chatVars, sessionVars, watchVars>>

\* hasEntry and readPassword.
read_key ==
    /\ stage = "read"
    /\ \/ key' \in {"key", "empty"} /\ Goes("read", "close") /\ UNCHANGED budget
       \/ CallFails /\ key' = "unavailable" /\ Goes("read", "close")
    /\ UNCHANGED <<wallet, handle, request, openCodeVars, chatVars, sessionVars, watchVars>>

\* close; an error of it is ignored, as the handle's owner is gone from the bus.
close ==
    /\ Goes("close", "keyless") /\ handle' = FALSE
    /\ UNCHANGED <<wallet, key, request, openCodeVars, chatVars, sessionVars, watchVars, budget>>

\* What a run without a key it needs ends with.
WithoutKey ==
    CASE key = "locked" -> "skipped: wallet locked"
      [] key = "unavailable" -> "skipped: wallet unavailable"
      [] OTHER -> "error: no key"

\* A provider of this computer may do without a key; an Anthropic request has
\* its key header even if there is none.
build_request ==
    /\ stage = "keyless"
    /\ \E allowEmptyKey, anthropic \in BOOLEAN, o \in Origins :
         IF key # "key" /\ ~allowEmptyKey
         THEN Raises("keyless", WithoutKey) /\ UNCHANGED request
         ELSE /\ Goes("keyless", "send")
              /\ request' = [at |-> o, home |-> o, keyed |-> key = "key" \/ anthropic]
    /\ UNCHANGED <<wallet, keyVars, openCodeVars, chatVars, sessionVars, watchVars, budget>>

\* Mutant: the key is kept on a redirect to the same scheme.
Origin_Scheme(a, b) == (a \in Http) = (b \in Http)

\* _origin: scheme, host and port.
SameOrigin(a, b) == a = b

redirect_request ==
    /\ stage = "send"
    /\ \E o \in Origins :
         IF request.keyed /\ ~SameOrigin(request.at, o) /\ request.at \notin Http /\ o \in Http
         THEN Raises("send", "error: refused a redirect") /\ UNCHANGED <<request, budget>>
         ELSE /\ Spend("hops") /\ Goes("send", "send")
              /\ request' = [request EXCEPT !.at = o, !.keyed = @ /\ SameOrigin(request.at, o)]
    /\ UNCHANGED <<wallet, keyVars, openCodeVars, chatVars, sessionVars, watchVars>>

\* split_think and parse_response: an error in the answer is one even beside
\* a text, and nothing is left of an answer that is all thinking.
parse_response(answer) ==
    IF answer.error THEN "error: provider" ELSE IF answer.text THEN "reply" ELSE "empty"

\* The answer, an HTTP error, a timeout, or something that is no JSON object.
send ==
    /\ \/ \E e, t \in BOOLEAN : Raises("send", parse_response([error |-> e, text |-> t]))
       \/ Raises("send", "error: request")
    /\ UNCHANGED <<wallet, keyVars, request, openCodeVars, chatVars, sessionVars, watchVars, budget>>

\* A Pi chat's run: schedule_pi, see PiBridge.
_run_pi ==
    /\ \E what \in {"reply", "empty", "error: Pi"} : Raises("pi", what)
    /\ UNCHANGED <<wallet, keyVars, request, openCodeVars, chatVars, sessionVars, watchVars, budget>>

-----------------------------------------------------------------------------
(* An OpenCode chat: schedule_opencode.run.                                *)

Serving == server = "up" \/ temp = "up"

\* What waits for an answer ends with the last server.
Waiting == IF server' = "up" \/ temp' = "up" THEN ask ELSE {}

\* The configured server answers, or one is started for the run: on this
\* computer only, and only if the program is there.
health ==
    /\ \/ server = "up" /\ Goes("health", "session") /\ UNCHANGED temp
       \/ server = "down" /\ Goes("health", "starting") /\ temp' = "starting"
       \/ server = "down" /\ Raises("health", "error: OpenCode") /\ UNCHANGED temp
    /\ UNCHANGED <<wallet, keyVars, request, server, known, ask, chatVars, sessionVars, watchVars, budget>>

\* It answers within 30 seconds, or is stopped again.
Started ==
    /\ \/ temp = "up" /\ Goes("starting", "session")
       \/ temp # "up" /\ stage = "starting" /\ stage' = "close_server" /\ outcome' = "error: didn't start"
          /\ UNCHANGED <<setup, mode>>
    /\ UNCHANGED <<wallet, keyVars, request, openCodeVars, chatVars, sessionVars, watchVars, budget>>

\* finally: stop.set(), then Server.close.
Ends(from, what) == stage = from /\ stage' = "close_server" /\ outcome' = what /\ UNCHANGED <<setup, mode>>

\* The chat's session, or a new one; its watcher starts.
Session ==
    /\ stage = "session"
    /\ \E s \in Sessions :
         \/ /\ IF attempt = 0 /\ chatSession # None
               THEN s = chatSession /\ UNCHANGED <<known, created>>
               ELSE /\ Serving /\ s \notin known \cup {stored, chatSession} \cup {updates[i] : i \in DOMAIN updates}
                    /\ watcher[s] = "off"
                    /\ known' = known \cup {s} /\ created' = created + 1
            /\ session' = s /\ watcher' = [watcher EXCEPT ![s] = "connecting"]
            /\ Goes("session", "listen") /\ UNCHANGED budget
         \/ /\ Spend("faults") \/ (~Serving /\ UNCHANGED budget)
            /\ attempt = 1 \/ chatSession = None
            /\ Ends("session", "error: OpenCode")
            /\ UNCHANGED <<known, session, created, watcher>>
    /\ UNCHANGED <<wallet, keyVars, request, server, temp, ask, chatVars, chatSession, attempt,
                   heard, hand, refused, missed>>

\* connected.wait(10), then the prompt goes out.
Post ==
    /\ Goes("listen", "sent")
    /\ UNCHANGED <<wallet, keyVars, request, openCodeVars, chatVars, sessionVars, watchVars, budget>>

Retries(code) == code = 404 /\ attempt = 0 /\ chatSession # None

\* An HTTP error: a session that is not known is made anew, once.
HTTPError ==
    /\ stage = "sent" /\ Serving
    /\ \E code \in {404, 500} :
         /\ IF code = 404 THEN session \notin known /\ UNCHANGED budget ELSE Spend("faults")
         /\ IF Retries(code)
            THEN Goes("sent", "session") /\ session' = None /\ attempt' = 1
            ELSE Ends("sent", "error: HTTP") /\ UNCHANGED <<session, attempt>>
    /\ UNCHANGED <<wallet, keyVars, request, openCodeVars, chatVars, chatSession, created, watchVars>>

\* The reply is complete: with a text, without one, or with an error.
Reply ==
    /\ Serving /\ session \in known \ ask
    /\ \E what \in {"reply", "empty", "error: OpenCode"} : Ends("sent", what)
    /\ UNCHANGED <<wallet, keyVars, request, openCodeVars, chatVars, sessionVars, watchVars, budget>>

\* The connection is lost.
Lost ==
    /\ Ends("sent", "error: OpenCode") /\ ~Serving
    /\ UNCHANGED <<wallet, keyVars, request, openCodeVars, chatVars, sessionVars, watchVars, budget>>

\* AGENT_TIMEOUT.
Timeout ==
    /\ Ends("sent", "error: timed out")
    /\ UNCHANGED <<wallet, keyVars, request, openCodeVars, chatVars, sessionVars, watchVars, budget>>

\* Server.close: SIGTERM to a server of the run that still runs.
Close ==
    /\ IF temp \in {"starting", "up"}
       THEN Goes("close_server", "wait") /\ temp' = "terminating"
       ELSE Goes("close_server", "judge") /\ UNCHANGED temp
    /\ UNCHANGED <<wallet, keyVars, request, server, known, ask, chatVars, sessionVars, watchVars, budget>>

Closed ==
    /\ Goes("wait", "judge")
    /\ temp' = None
    /\ UNCHANGED server /\ ask' = Waiting
    /\ UNCHANGED <<wallet, keyVars, request, known, chatVars, sessionVars, watchVars, budget>>

-----------------------------------------------------------------------------
(* The watchers: _watch and _answer.                                       *)

Stopped == stage \in {"close_server", "wait", "judge", "over"}

Connect(w) ==
    /\ watcher[w] = "connecting" /\ Serving /\ ~Stopped
    /\ watcher' = [watcher EXCEPT ![w] = "listening"]
    /\ UNCHANGED <<jobVars, wallet, keyVars, request, openCodeVars, chatVars, sessionVars, heard, hand, refused, missed, budget>>

\* The stream ends, is silent for a minute or breaks; the watcher connects
\* again, unless what it raises is no OSError: then the thread is gone.
Drop(w) ==
    /\ watcher[w] = "listening" /\ \A h \in hand : h[1] # w
    /\ ~Stopped /\ Spend("faults")
    /\ \E to \in {"connecting", "dead"} : watcher' = [watcher EXCEPT ![w] = to]
    /\ heard' = {h \in heard : h[1] # w}
    /\ missed' = (missed \/ <<session, session>> \in heard \ heard')
    /\ UNCHANGED <<jobVars, wallet, keyVars, request, openCodeVars, chatVars, sessionVars, hand, refused>>

\* Mutant: a request of any session is refused.
Own_Any(w, s) == TRUE

Own(w, s) == s = w

\* An event of the stream: what is not for the watcher's session is dropped.
Take(w, s) ==
    /\ <<w, s>> \in heard /\ \A h \in hand : h[1] # w
    /\ watcher[w] = "listening" /\ ~Stopped
    /\ heard' = heard \ {<<w, s>>}
    /\ hand' = IF Own(w, s) THEN hand \cup {<<w, s>>} ELSE hand
    /\ UNCHANGED <<jobVars, wallet, keyVars, request, openCodeVars, chatVars, sessionVars, watcher, refused, missed, budget>>

\* The refusal is posted, even if the run is ending; one that fails is not tried again.
Refuse(w, s) ==
    /\ <<w, s>> \in hand /\ hand' = hand \ {<<w, s>>}
    /\ \/ Serving /\ ask' = ask \ {s} /\ refused' = refused \cup ({s} \cap ask) /\ UNCHANGED <<missed, budget>>
       \/ /\ Spend("faults") \/ (~Serving /\ UNCHANGED budget)
          /\ missed' = (missed \/ s = session) /\ UNCHANGED <<ask, refused>>
    /\ UNCHANGED <<jobVars, wallet, keyVars, request, server, temp, known, chatVars, sessionVars, watcher, heard>>

-----------------------------------------------------------------------------
(* The result: the rest of run_prompt.                                     *)

KeepsSession == session # None /\ chatSession = None

\* An empty reply is an error; a reply is delivered, which may fail too; what
\* is no reply is notified as a failure.
judge ==
    /\ stage = "judge" /\ stage' = "over"
    /\ \/ outcome = "reply" /\ outcome' = "ok"
          /\ updates' = IF KeepsSession THEN Append(updates, session) ELSE updates
       \/ outcome = "reply" /\ outcome' = "error: couldn't be saved" /\ UNCHANGED updates
       \/ outcome = "empty" /\ outcome' = "error: the reply was empty" /\ UNCHANGED updates
       \/ outcome \notin {"reply", "empty"} /\ UNCHANGED <<outcome, updates>>
    /\ UNCHANGED <<setup, mode, wallet, keyVars, request, openCodeVars, stored, sessionVars, watchVars, budget>>

\* ScheduleInbox.merge of the first run that waits, and the widget's next save.
Merge ==
    /\ updates # <<>> /\ updates' = Tail(updates)
    /\ stored' = IF stored = None THEN Head(updates) ELSE stored
    /\ UNCHANGED <<jobVars, wallet, keyVars, request, openCodeVars, sessionVars, watchVars, budget>>

-----------------------------------------------------------------------------
(* Around the job.                                                         *)

EnvVars == <<jobVars, keyVars, request, chatVars, sessionVars>>

LockWallet ==
    /\ stage \in {"isOpen", "open", "read"} /\ wallet = "open" /\ ~handle /\ Spend("faults") /\ wallet' = "locked"
    /\ UNCHANGED <<EnvVars, openCodeVars, watchVars>>

ServerDown ==
    /\ mode = "opencode" /\ stage # "over" /\ server = "up" /\ Spend("faults") /\ server' = "down"
    /\ UNCHANGED temp /\ ask' = Waiting
    /\ UNCHANGED <<EnvVars, wallet, known, watchVars>>

\* The server of the run: it comes up, exits, or ends when it is told to.
TempUp ==
    /\ temp = "starting" /\ temp' = "up"
    /\ UNCHANGED <<EnvVars, wallet, server, known, ask, watchVars, budget>>

TempExits ==
    /\ \/ temp = "terminating" /\ UNCHANGED budget
       \/ temp \in {"starting", "up"} /\ Spend("faults")
    /\ temp' = None /\ UNCHANGED server /\ ask' = Waiting
    /\ UNCHANGED <<EnvVars, wallet, known, watchVars>>

\* The user deletes a session.
Forget(s) ==
    /\ mode = "opencode" /\ s \in known /\ Spend("faults")
    /\ known' = known \ {s} /\ ask' = ask \ {s}
    /\ UNCHANGED <<EnvVars, wallet, server, temp, watchVars>>

\* A session asks for permission: that of the prompt, or one of the user's own.
Ask(s) ==
    /\ stage = "sent" /\ Serving /\ s \notin ask /\ Spend("asks")
    /\ (s = session /\ s \in known) \/ s \in Others
    /\ ask' = ask \cup {s}
    /\ heard' = heard \cup {<<w, s>> : w \in {v \in Sessions : watcher[v] = "listening"}}
    /\ missed' = (missed \/ (s = session /\ watcher[session] # "listening"))
    /\ UNCHANGED <<EnvVars, wallet, server, temp, known, watcher, hand, refused>>

\* The user answers it, in the widget or elsewhere.
Answer(s) ==
    /\ s \in ask /\ ask' = ask \ {s}
    /\ UNCHANGED <<EnvVars, wallet, server, temp, known, watchVars, budget>>

-----------------------------------------------------------------------------
JobStep ==
    \/ find_chat \/ _run_direct \/ isOpen \/ open \/ read_key \/ close \/ build_request
    \/ redirect_request \/ send \/ _run_pi
    \/ health \/ Started \/ Session \/ Post \/ HTTPError \/ Reply \/ Lost \/ Timeout \/ Close \/ Closed
    \/ judge

WatchStep == \E w \in Sessions : Connect(w) \/ Drop(w) \/ \E s \in Sessions \cup Others : Take(w, s) \/ Refuse(w, s)

Around ==
    \/ NextRun \/ Merge \/ LockWallet \/ ServerDown \/ TempUp \/ TempExits
    \/ (\E s \in Sessions : Forget(s)) \/ (\E s \in Sessions \cup Others : Ask(s) \/ Answer(s))

Next == JobStep \/ WatchStep \/ Around

Spec == Init /\ [][Next]_vars

-----------------------------------------------------------------------------

\* The decision table at the head of chat/EffectiveConfig.js, by which the
\* widget answers: M is the main settings' or the project's value of the mode
\* of the chat, C the chat's own.
Decided(s, m, c) == IF s.perChat /\ _has_own(s) /\ Text(c) # "" /\ (s.chatFirst \/ m = "") THEN c ELSE m

Table(s) ==
    CASE chat_mode(s) = "opencode" -> <<Decided(s, s.ocMain[1], s.ocProvider), Decided(s, s.ocMain[2], s.ocModel)>>
      [] chat_mode(s) = "pi" ->
           \* before 1.4.0 a Pi chat kept its provider and model in the direct fields
           LET old == {s.piProvider, s.piModel} = {None} IN
           <<Decided(s, s.piMain[1], IF old THEN s.chatProvider ELSE s.piProvider),
             Decided(s, s.piMain[2], IF old THEN s.chatModel ELSE s.piModel)>>
      [] OTHER ->
           LET main == IF s.projectProvider # "" THEN s.projectProvider ELSE Or(s.mainProvider, "openai")
               provider == Decided(s, main, s.chatProvider)
               chosenFor == IF s.chatProvider = "" THEN main ELSE s.chatProvider
               theirs == IF s.projectProvider = provider /\ s.projectModel # "" THEN s.projectModel ELSE model_for(s, provider)
           IN <<provider, Decided(s, theirs, IF chosenFor = provider THEN s.chatModel ELSE "")>>

\* A scheduled run answers with the provider and the model that the widget
\* would use for the chat, whatever the chat, its project and the settings say.
SameAsWidget == setup # None => LET e == effective(setup) IN <<e.provider, e.model>> = Table(setup)

\* The wallet is not left open for a job that has got what it wanted, or has not.
HandleReturned == handle => stage \in {"read", "close"}

\* However often a provider redirects, the key is only sent to where it belongs.
KeyStaysHome == request.keyed => request.at = request.home

\* A provider's key is taken out of the wallet, and sent, as briefly as it can be.
KeyGuarded == HandleReturned /\ KeyStaysHome

\* A run refuses what its own sessions ask, never what another session asks
\* of a user who may well be there.
OwnAsksOnly == refused \subseteq {session, chatSession}

\* A prompt whose agent asked while the job listened is not left to wait: the
\* request is on its way, or it has been missed, or the refusal has failed.
AskedIsHeard == stage = "sent" /\ session \in ask => missed \/ <<session, session>> \in heard \cup hand

\* An agent's request is answered by the run whose agent it is, and by no other.
AgentsHeard == OwnAsksOnly /\ AskedIsHeard

\* Two runs of a chat that has no session yet answer in the same one. The code
\* does not: the second may start before the widget has stored the first's.
ChatKeepsSession == \A i, j \in DOMAIN updates : updates[i] = updates[j]

=============================================================================
