----------------------------- MODULE ChatRequests -----------------------------
(***************************************************************************)
(* Requests, replies and the queue of messages of a direct chat            *)
(* (chat/SendController.qml, DirectRequest.qml, DirectToolRounds.qml,      *)
(* ReplyEvents.qml, MessageEdits.qml, and what Sessions.qml and            *)
(* UndoNotice.qml do while a request runs).                                *)
(*                                                                         *)
(* A request first looks up the chat's variant, then streams; its model    *)
(* may ask the user a question and go on with the answer.  Answers of the  *)
(* network arrive between any two of the user's handlers, for a request    *)
(* that may have been given up since.  The handlers call each other, so    *)
(* each is an operator from the widget's state to its next one.            *)
(*                                                                         *)
(* A message is its id, its role and (for the properties) the chat it      *)
(* belongs to.  "card" is a reply that shows an image job and no text yet, *)
(* "asked" a question card that is open.                                   *)
(***************************************************************************)
EXTENDS Naturals, Sequences, FiniteSets, SequencesExt

CONSTANTS Chats,       \* chat ids, each given out once
          None,
          Budgets      \* what may happen in a run: records of the numbers of each of BudgetNames

\* The messages the user writes, the model's questions, failed requests, chats created and switched,
\* chats and messages deleted and chats cleared, Regenerate, Resend and Retry, messages opened for
\* editing, Undo, the provider broken or repaired, and the chat list rebuilt.
BudgetNames == {"messages", "asks", "fails", "moves", "deletes", "rewrites", "edits", "undos", "settings", "rebuilds"}

ASSUME RequestsAssumption ==
    /\ Budgets \subseteq [BudgetNames -> Nat]
    /\ None \notin Chats \cup Nat

VARIABLES
    w,       \* the widget root's properties, and the requests under way
    valid,   \* validateCurrentSendTarget finds nothing missing
    waiting, \* history: messages that the user queued and that must still be sent
    budget   \* what is left of the record of Budgets chosen

vars == <<w, valid, waiting, budget>>

Spend(what) == budget[what] > 0 /\ budget' = [budget EXCEPT ![what] = @ - 1]

Init ==
    /\ \E c \in Chats :
          w = [sessions   |-> [d \in Chats |-> IF d = c THEN <<>> ELSE None],
               open       |-> c,     \* currentSessionId
               used       |-> {c},   \* ids given out
               messages   |-> <<>>,  \* of the open chat
               loading    |-> FALSE,
               generation |-> 0,     \* requestGeneration
               active     |-> None,  \* activeRequestSessionId
               xhr        |-> None,  \* activeXhr: the generation of its request
               stream     |-> None,  \* the message at currentStreamIndex
               pending    |-> None,  \* the question the model waits on, and its request
               later      |-> FALSE, \* Qt.callLater(processNextQueuedMessage)
               undoable   |-> None,
               editing    |-> None,  \* editingMessageIndex, and the message picked
               lookups    |-> {},    \* variant lookups that have not answered
               net        |-> {},    \* requests on the network
               sent       |-> <<>>,  \* history: queued messages, as they were sent
               cut        |-> FALSE, \* history: a rebuild, or Undo of Regenerate, put other messages in
                                     \* the place of those a request or the queue is at
               returned   |-> {},    \* history: cards of questions that were over when Undo brought them back
               next       |-> 1]     \* the next message's id
    /\ valid = TRUE /\ waiting = {}
    /\ budget \in Budgets

-----------------------------------------------------------------------------
(* The messages of the open chat.                                          *)

Has(list, id) == \E k \in DOMAIN list : list[k].id = id
Queued(list) == {k \in DOMAIN list : list[k].role = "queued"}
WithRole(list, id, role) == [k \in DOMAIN list |-> IF list[k].id = id THEN [list[k] EXCEPT !.role = role] ELSE list[k]]

\* The streamed reply is found again by its id, if it is still there.
SetMessages(s, list) ==
    [s EXCEPT !.messages = list, !.stream = IF @ # None /\ Has(list, @) THEN @ ELSE None]

AddMessage(s, role, c) ==
    [s EXCEPT !.messages = Append(@, [id |-> s.next, role |-> role, chat |-> c]), !.next = @ + 1]

saveCurrentSessionState(s) ==
    IF s.sessions[s.open] = None THEN s ELSE [s EXCEPT !.sessions = [@ EXCEPT ![s.open] = s.messages]]

pushErrorMessage(s, c) == saveCurrentSessionState(AddMessage(s, "error", c))

Listed(s) == {c \in Chats : s.sessions[c] # None}

-----------------------------------------------------------------------------
(* The request protocol.                                                   *)

\* Mutants: no request is stale, or one of the same chat never is.
requestIsCurrent_Always(s, r) == TRUE
requestIsCurrent_AnyGeneration(s, r) == s.open = r.chat /\ s.active = r.chat

requestIsCurrent(s, r) == s.open = r.chat /\ s.active = r.chat /\ s.generation = r.generation

\* The reply keeps what has arrived; one without any text is dropped.
resetProviderStreamingState(s) ==
    LET cards == {k \in DOMAIN s.messages : s.messages[k].id = s.stream /\ s.messages[k].role = "card"} IN
    [s EXCEPT !.messages = IF cards = {} THEN @ ELSE RemoveAt(@, CHOOSE k \in cards : TRUE), !.stream = None]

resetStream(s) == [s EXCEPT !.stream = None]

AbortXhr(s) == [s EXCEPT !.net = {r \in @ : r.generation # s.xhr}, !.xhr = None]

\* Mutant: the dismissed card is not saved.
cancelPending_Unsaved(s) ==
    IF s.pending = None THEN s
    ELSE [s EXCEPT !.pending = None, !.messages = WithRole(@, s.pending.id, "answered")]

cancelPending(s) ==
    IF s.pending = None THEN s
    ELSE saveCurrentSessionState([s EXCEPT !.pending = None, !.messages = WithRole(@, s.pending.id, "answered")])

invalidateActiveRequest(s) ==
    [resetProviderStreamingState(AbortXhr([cancelPending(s) EXCEPT !.generation = @ + 1, !.active = None]))
        EXCEPT !.loading = FALSE]

\* A request still running would be aborted first (RunningCanBeStopped: there is none).
beginRequest(s) == [AbortXhr(s) EXCEPT !.generation = @ + 1, !.active = s.open]

\* A queued message becomes a sent one, after the last message that is not queued.
Dequeued(list, k) ==
    LET rest == RemoveAt(list, k)
        at == CHOOSE j \in 0..Len(rest) :
                 /\ j = 0 \/ rest[j].role # "queued"
                 /\ \A i \in (j + 1)..Len(rest) : rest[i].role = "queued"
    IN InsertAt(rest, at + 1, [list[k] EXCEPT !.role = "user"])

DequeuedState(s, k) ==
    IF s.messages[k].role # "queued" THEN s
    ELSE saveCurrentSessionState([s EXCEPT !.messages = Dequeued(@, k), !.sent = Append(@, s.messages[k])])

\* doDirectRequest: loading, and the chat's variant is looked up.
doDirectRequest(s) ==
    [s EXCEPT !.loading = TRUE, !.lookups = @ \cup {[chat |-> s.open, generation |-> s.generation]}]

sendMessageByIndex(s, k) ==
    IF k \notin DOMAIN s.messages THEN resetStream(s)
    ELSE IF ~valid THEN pushErrorMessage(resetStream(s), s.open)
    ELSE doDirectRequest(beginRequest(DequeuedState(resetStream(s), k)))

NextQueued(list) == CHOOSE k \in Queued(list) : \A j \in Queued(list) : k <= j

processNextQueuedMessage(s) ==
    IF s.loading \/ Queued(s.messages) = {} THEN s ELSE sendMessageByIndex(s, NextQueued(s.messages))

stopStreaming(s) == processNextQueuedMessage(saveCurrentSessionState(invalidateActiveRequest(s)))

-----------------------------------------------------------------------------
(* Answers of the network.                                                 *)

EnsureStreaming(s, r, role) ==
    IF s.stream # None THEN s ELSE [AddMessage(s, role, r.chat) EXCEPT !.stream = s.next]

\* applyBackendEvent of "done".
Done(s) ==
    processNextQueuedMessage(saveCurrentSessionState(
        [s EXCEPT !.stream = None, !.loading = FALSE, !.xhr = None, !.active = None, !.generation = @ + 1]))

Left(r) == [w EXCEPT !.net = @ \ {r}]

\* The variant is known, or cannot be: the request goes out if it still is the current one.
VariantResolved(r) ==
    /\ r \in w.lookups
    /\ LET s == [w EXCEPT !.lookups = @ \ {r}] IN
       w' = IF requestIsCurrent(s, r)
            THEN [s EXCEPT !.net = @ \cup {r}, !.xhr = r.generation, !.loading = TRUE] ELSE s
    /\ UNCHANGED <<valid, waiting, budget>>

\* A part of the reply: text, or the card of an image job.
Delta(r) ==
    /\ r \in w.net /\ requestIsCurrent(w, r) /\ w.stream = None
    /\ \E role \in {"reply", "card"} : w' = EnsureStreaming(w, r, role)
    /\ UNCHANGED <<valid, waiting, budget>>

\* A reply without any content becomes an error message.
Complete(r) ==
    /\ r \in w.net
    /\ LET s == Left(r) IN
       w' = IF ~requestIsCurrent(s, r) THEN s
            ELSE IF s.stream # None THEN Done([s EXCEPT !.messages = WithRole(@, s.stream, "reply")])
            ELSE Done(pushErrorMessage(s, r.chat))
    /\ UNCHANGED <<valid, waiting, budget>>

Fail(r) ==
    /\ r \in w.net /\ Spend("fails")
    /\ LET s == Left(r) IN
       w' = IF ~requestIsCurrent(s, r) THEN s
            ELSE Done(pushErrorMessage(resetProviderStreamingState(s), r.chat))
    /\ UNCHANGED <<valid, waiting>>

\* DirectToolRounds.run with ask_user: the reply so far is closed and its card opened.
Ask(r) ==
    /\ r \in w.net /\ Spend("asks")
    /\ LET s == Left(r)
           reply == EnsureStreaming(s, r, "reply")
           asked == AddMessage([reply EXCEPT !.messages = WithRole(@, reply.stream, "reply"), !.stream = None],
                               "asked", r.chat)
       IN w' = IF ~requestIsCurrent(s, r) THEN s
               ELSE saveCurrentSessionState([asked EXCEPT !.pending = [id |-> asked.next - 1, request |-> r]])
    /\ UNCHANGED <<valid, waiting>>

NetworkStep == \E r \in w.lookups \cup w.net : VariantResolved(r) \/ Delta(r) \/ Complete(r) \/ Fail(r) \/ Ask(r)

-----------------------------------------------------------------------------
(* The user.                                                               *)

\* Writing while the model asks ends the question; while a reply is written, it queues.
sendMessage ==
    /\ Spend("messages")
    /\ LET s == IF w.loading /\ w.pending # None THEN stopStreaming(w) ELSE w
           added == saveCurrentSessionState(AddMessage(s, IF s.loading THEN "queued" ELSE "user", s.open))
       IN /\ w' = IF s.loading THEN added ELSE sendMessageByIndex(added, Len(added.messages))
          /\ waiting' = (waiting \cup IF s.loading THEN {s.next} ELSE {}) \ {m.id : m \in ToSet(w'.sent)}
    /\ UNCHANGED valid

\* respondToQuestion: the next round of the request carries the answer, and nothing waits for that to
\* a card that is left over.
Dismiss(id) ==
    /\ w.pending # None => w.pending.id # id
    /\ \E m \in ToSet(w.messages) : m.id = id /\ m.role = "asked"
    /\ w' = saveCurrentSessionState([w EXCEPT !.messages = WithRole(@, id, "answered")])
    /\ UNCHANGED <<valid, waiting, budget>>

Answer ==
    /\ w.pending # None
    /\ LET p == w.pending
           s == saveCurrentSessionState([w EXCEPT !.pending = None, !.messages = WithRole(@, p.id, "answered")])
       IN w' = IF requestIsCurrent(s, p.request)
               THEN [s EXCEPT !.net = @ \cup {p.request}, !.xhr = p.request.generation, !.loading = TRUE] ELSE s
    /\ UNCHANGED <<valid, waiting, budget>>

Stop ==
    /\ w.loading
    /\ w' = stopStreaming(w)
    /\ UNCHANGED <<valid, waiting, budget>>

createSession(c) ==
    /\ c \in Chats \ w.used /\ Spend("moves")
    /\ LET s == IF w.loading THEN invalidateActiveRequest(w) ELSE w IN
       w' = [s EXCEPT !.sessions = [@ EXCEPT ![c] = <<>>], !.used = @ \cup {c}, !.open = c, !.messages = <<>>,
                      !.stream = None, !.editing = None]
    /\ UNCHANGED <<valid, waiting>>

SwitchTo(s, c) ==
    LET left == saveCurrentSessionState(invalidateActiveRequest(s)) IN
    [left EXCEPT !.open = c, !.messages = left.sessions[c], !.stream = None, !.editing = None, !.later = TRUE]

switchSession(c) ==
    /\ c \in Listed(w) \ {w.open} /\ Spend("moves")
    /\ w' = SwitchTo(w, c)
    /\ UNCHANGED <<valid, waiting>>

CalledLater ==
    /\ w.later
    /\ w' = processNextQueuedMessage([w EXCEPT !.later = FALSE])
    /\ UNCHANGED <<valid, waiting, budget>>

NextOpen(s, c) == Listed(s) \ {c}

deleteSession(c) ==
    /\ c \in Listed(w) /\ Cardinality(Listed(w)) > 1 /\ Spend("deletes")
    /\ LET s == IF c = w.open THEN invalidateActiveRequest(w) ELSE w
           gone == [s EXCEPT !.sessions = [@ EXCEPT ![c] = None],
                             !.undoable = [kind |-> "delete", chat |-> c, messages |-> s.sessions[c],
                                           wasOpen |-> c = w.open]]
       IN IF c # w.open THEN w' = gone
          ELSE \E d \in NextOpen(s, c) : w' = [gone EXCEPT !.open = d, !.messages = s.sessions[d]]
    /\ waiting' = {id \in waiting : ~Has(w.sessions[c], id)}
    /\ UNCHANGED valid

-----------------------------------------------------------------------------
(* Changing messages: MessageEdits and Undo.                               *)

\* Mutant: rewriting a chat drops the messages that wait.
queuedAfter_None(list, k) == <<>>

\* In their order: the i-th has i of them up to it.
queuedAfter(list, k) ==
    LET after == {j \in Queued(list) : j > k} IN
    [i \in 1..Cardinality(after) |-> list[CHOOSE j \in after : Cardinality({l \in after : l <= j}) = i]]

\* The chat goes on from message k: what follows is dropped, except the queue.
Rewound(list, k) == SubSeq(list, 1, k) \o queuedAfter(list, k)

\* Regenerate (on a reply) and Resend (on a message, with no reply running).
regenerateResponse(k) ==
    /\ k \in DOMAIN w.messages /\ w.messages[k].id # w.stream
    /\ \/ w.messages[k].role \in {"reply", "card"}
       \/ w.messages[k].role = "user" /\ ~w.loading
    /\ LET u == IF w.messages[k].role = "user" THEN k ELSE k - 1
           s == invalidateActiveRequest(w)
           rewound == Rewound(s.messages, u)
           kept == saveCurrentSessionState(SetMessages(
                      IF Len(rewound) = Len(s.messages) THEN s
                      ELSE [s EXCEPT !.undoable = [kind |-> "restore", chat |-> s.open, messages |-> s.messages]],
                      rewound))
       IN /\ u > 0 /\ w.messages[u].role \in {"user", "queued"}
          /\ w' = sendMessageByIndex(kept, u)
    /\ Spend("rewrites")
    /\ waiting' = waiting \ {m.id : m \in ToSet(w'.sent)}
    /\ UNCHANGED valid

retryFailedMessage(k) ==
    /\ k \in DOMAIN w.messages /\ w.messages[k].role = "error"
    /\ \E u \in 1..(k - 1) :
          /\ w.messages[u].role \in {"user", "queued"}
          /\ \A j \in (u + 1)..(k - 1) : w.messages[j].role \notin {"user", "queued"}
          /\ LET s == invalidateActiveRequest(w) IN
             w' = sendMessageByIndex(saveCurrentSessionState(SetMessages(s, Rewound(s.messages, u))), u)
    /\ Spend("rewrites")
    /\ waiting' = waiting \ {m.id : m \in ToSet(w'.sent)}
    /\ UNCHANGED valid

\* The user removes the messages of these ids; Undo is offered when none is left.
Removed(list, ids) ==
    /\ Spend("deletes")
    /\ w' = saveCurrentSessionState([SetMessages(w, list) EXCEPT
                !.editing = None,
                !.undoable = IF list # <<>> THEN @
                             ELSE [kind |-> "clear", chat |-> w.open, messages |-> w.messages]])
    /\ waiting' = waiting \ ids
    /\ UNCHANGED valid

deleteMessage(k) ==
    /\ k \in DOMAIN w.messages /\ w.messages[k].id # w.stream /\ w.messages[k].role # "asked"
    /\ Removed(RemoveAt(w.messages, k), {w.messages[k].id})

clearChat == w.messages # <<>> /\ Removed(<<>>, {m.id : m \in ToSet(w.messages)})

StartEdit(k) ==
    /\ k \in DOMAIN w.messages /\ w.messages[k].id # w.stream
    /\ w.messages[k].role \in {"user", "queued", "reply"} /\ Spend("edits")
    /\ w' = [w EXCEPT !.editing = [at |-> k, id |-> w.messages[k].id]]
    /\ UNCHANGED <<valid, waiting>>

CancelEdit ==
    /\ w.editing # None
    /\ w' = [w EXCEPT !.editing = None]
    /\ UNCHANGED <<valid, waiting, budget>>

\* The message at the index the edit began with; the handler fails when giving
\* up the request has made the list shorter than that.
saveEditedMessage ==
    /\ w.editing # None
    /\ LET k == w.editing.at
           s == invalidateActiveRequest(w)
           done == [s EXCEPT !.editing = None]
           role == s.messages[k].role
       IN w' = IF k \notin DOMAIN w.messages THEN w
               ELSE IF w.messages[k].role = "error" THEN [w EXCEPT !.editing = None]
               ELSE IF k \notin DOMAIN s.messages THEN s
               ELSE IF role = "queued" THEN saveCurrentSessionState(done)
               ELSE LET rewound == saveCurrentSessionState(SetMessages(done, Rewound(s.messages, k))) IN
                    IF role = "user" THEN sendMessageByIndex(rewound, k) ELSE rewound
    /\ UNCHANGED <<valid, waiting, budget>>

\* UndoNotice.undo; bringing the messages before a Regenerate back first stops the new reply.
undo ==
    /\ w.undoable # None /\ Spend("undos")
    /\ LET what == w.undoable
           s == [w EXCEPT !.undoable = None]
           back == [s EXCEPT !.sessions = [@ EXCEPT ![what.chat] = what.messages]]
       IN w' = IF what.kind = "delete"
               THEN IF what.wasOpen THEN SwitchTo(back, what.chat) ELSE back
               ELSE IF s.open # what.chat \/ (what.kind = "clear" /\ s.messages # <<>>) THEN s
               ELSE IF what.kind = "clear"
               THEN saveCurrentSessionState([SetMessages(s, what.messages) EXCEPT
                       !.returned = @ \cup {m.id : m \in {n \in ToSet(what.messages) :
                                               n.role = "asked" /\ (s.pending = None \/ s.pending.id # n.id)}}])
               ELSE saveCurrentSessionState([SetMessages(stopStreaming(s), what.messages) EXCEPT !.cut = TRUE])
    /\ UNCHANGED <<valid, waiting>>

\* The notice closes by itself.
dismiss ==
    /\ w.undoable # None
    /\ w' = [w EXCEPT !.undoable = None]
    /\ UNCHANGED <<valid, waiting, budget>>

\* The provider's settings: a key, URL or model goes missing or comes back.
ChangeSettings ==
    /\ Spend("settings")
    /\ valid' = ~valid
    /\ UNCHANGED <<w, waiting>>

\* HistoryRecovery.resolve: the chats of a rebuilt list (here a chat with no
\* messages) take the place of the ones in memory, which could not be saved.
loadSessions ==
    /\ Spend("rebuilds")
    /\ \E c \in Chats \ w.used :
          w' = [SetMessages(w, <<>>) EXCEPT !.sessions = [d \in Chats |-> IF d = c THEN <<>> ELSE None],
                                            !.used = @ \cup {c}, !.open = c, !.cut = TRUE]
    /\ waiting' = {}
    /\ UNCHANGED valid

ChatStep == \E c \in Chats : createSession(c) \/ switchSession(c) \/ deleteSession(c)
EditStep ==
    \/ \E k \in DOMAIN w.messages : regenerateResponse(k) \/ retryFailedMessage(k) \/ deleteMessage(k) \/ StartEdit(k)
    \/ clearChat \/ CancelEdit \/ saveEditedMessage

Next ==
    \/ NetworkStep \/ CalledLater
    \/ sendMessage \/ Answer \/ Stop \/ \E m \in ToSet(w.messages) : Dismiss(m.id)
    \/ ChatStep \/ EditStep
    \/ undo \/ dismiss \/ ChangeSettings \/ loadSessions

Spec == Init /\ [][Next]_vars

-----------------------------------------------------------------------------
(* Properties.                                                             *)

Roles == {"user", "queued", "reply", "card", "error", "asked", "answered"}
Message == [id : Nat, role : Roles, chat : Chats]
Request == [chat : Chats, generation : Nat]
Question == [id : Nat, request : Request]
Edit == [at : Nat, id : Nat]

MessageList == Seq(Message)
Undoable == [kind : {"delete"}, chat : Chats, messages : MessageList, wasOpen : BOOLEAN]
            \cup [kind : {"restore", "clear"}, chat : Chats, messages : MessageList]

\* null is no list and no object.
ASSUME NoneAssumption == None \notin MessageList \cup Question \cup Edit \cup Undoable

Widget == [sessions : [Chats -> MessageList \cup {None}], open : Chats, used : SUBSET Chats, messages : MessageList,
           loading : BOOLEAN, generation : Nat, active : Chats \cup {None}, xhr : Nat \cup {None},
           stream : Nat \cup {None}, pending : Question \cup {None}, later : BOOLEAN,
           undoable : Undoable \cup {None}, editing : Edit \cup {None}, lookups : SUBSET Request,
           net : SUBSET Request, sent : MessageList, cut : BOOLEAN, returned : SUBSET Nat, next : Nat]

\* Every chat's messages in memory, the open one's as they are shown.
Shown(c) == IF c = w.open THEN w.messages ELSE w.sessions[c]

\* The types of the variables; the open chat is in the list, and no chat's id is given out twice.
TypeOK ==
    /\ w \in Widget
    /\ w.open \in Listed(w) /\ Listed(w) \subseteq w.used
    /\ valid \in BOOLEAN /\ waiting \subseteq Nat /\ budget \in [BudgetNames -> Nat]

\* "A response must never be allowed to write into the newly selected session":
\* replies, errors and question cards are in the chat whose request they answer.
OwnChat == \A c \in Listed(w) : \A m \in ToSet(Shown(c)) \cup ToSet(w.sessions[c]) : m.chat = c

\* "Never two live requests": what runs on the network is one request, and it
\* is the one whose reply is shown and that Stop reaches (HistoryRecovery's rebuild breaks that).
RunningCanBeStopped ==
    w.cut \/ \A r \in w.net : requestIsCurrent(w, r) /\ w.xhr = r.generation /\ w.loading /\ Cardinality(w.net) = 1

\* A chat that says it is loading has something to wait for: a lookup, an
\* answer of the network or the user's answer, of the current request.
LoadingHasCause ==
    w.loading /\ ~w.cut =>
        \/ \E r \in w.lookups \cup w.net : requestIsCurrent(w, r)
        \/ w.pending # None /\ requestIsCurrent(w, w.pending.request)

\* A chat that waits for a reply is waiting for one, and Stop reaches it.
StopReaches == RunningCanBeStopped /\ LoadingHasCause

\* An open question card, in any chat, is the question that the model waits on (unless Undo brought
\* it back after the question was over).
AskedIsPending ==
    \A c \in Listed(w) : \A m \in ToSet(w.sessions[c]) :
        m.role = "asked" /\ m.id \notin w.returned => w.pending # None /\ w.pending.id = m.id

\* "your message waits and is sent after it": no message waits in the open chat
\* with no reply to wait for.
QueueDrained == ~w.loading /\ ~w.later => Queued(w.messages) = {}

\* "the queued message stays and goes after the new reply": a message that was
\* queued stays in the queue of its chat until it is sent or deleted (Undo of Regenerate breaks that).
QueuedStays ==
    w.cut \/ \A id \in waiting :
        \/ \E c \in Listed(w) : \E m \in ToSet(Shown(c)) : m.id = id /\ m.role = "queued"
        \/ \E m \in ToSet(w.sent) : m.id = id

\* Queued messages of a chat are sent once each, in the order they were written.
SentInOrder ==
    \A i, j \in DOMAIN w.sent : i < j /\ w.sent[i].chat = w.sent[j].chat => w.sent[i].id < w.sent[j].id

\* "Edit an older message of yours": the message under edit is the one that was picked.
EditsThePicked ==
    w.editing # None => /\ w.editing.at \in DOMAIN w.messages
                        /\ w.messages[w.editing.at].id = w.editing.id
=============================================================================
