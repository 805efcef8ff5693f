------------------------------- MODULE AskInbox -------------------------------
(***************************************************************************)
(* The ask inbox (kdeaichat/ask_inbox.py, selection.py, chat/AskInbox.qml):*)
(* KRunner, the Dolphin menu and scripts/kdeaichat-ask leave a request in  *)
(* a folder; helpers of the widgets claim the requests by renaming them,   *)
(* and each widget handles its own one after the other.  A request is its  *)
(* number, in the order of the file names.                                 *)
(***************************************************************************)
EXTENDS Integers, Sequences, FiniteSets, SequencesExt

CONSTANTS
    Widgets, Chats,
    Used,         \* the widgets at which the user is; the others only take requests
    Kinds,        \* what may be asked: [text, file, newChat, send], file "no", "good" or "refused"
    MaxRequests,
    MaxTicks,     \* ticks of the send timer, for 150
    Budgets       \* how often: faults (killed helpers, ends of plasmashell, requests left for a day), steps of the user

ASSUME AskAssumption ==
    /\ {MaxRequests, MaxTicks} \subseteq Nat
    /\ Budgets \subseteq [{"faults", "steps"} -> Nat]
    /\ Used \subseteq Widgets
    /\ Chats # {} /\ Chats \cap Nat = {}
    /\ Kinds \subseteq [text : BOOLEAN, file : {"no", "good", "refused"}, newChat : BOOLEAN, send : BOOLEAN]

Ids == 1 .. MaxRequests

VARIABLES
    kind,      \* for each request written, its kind
    file,      \* its file: "none", "waiting", "old"; claimed: "taking", "stale"; "gone"
    helper,    \* the helper of each widget, one at a time: the names still to claim, the one claimed, the items read
    wid,       \* the widgets
    applied,   \* for each request, the chat of each time it was put into a box
    sent,      \* the messages sent, in order
    stir,      \* the widgets whose watcher has a change of the folder to tell
    lost,      \* requests that a fault has lost
    left       \* what is left of the budget

vars == <<kind, file, helper, wid, stir, applied, sent, lost, left>>

Spend(b) == left[b] > 0 /\ left' = [left EXCEPT ![b] = @ - 1]

Waiting == {i \in Ids : file[i] \in {"waiting", "old"}}

\* A name comes or goes: every widget that knows the folder hears of it.
Changes == stir' = stir \cup {w \in Widgets : wid[w].watching}

-----------------------------------------------------------------------------
(* A writer: before its file has its name, complete, nobody sees it.       *)

Written == {i \in Ids : file[i] # "none"}

\* A request has text or files.
clean(k) == k.text \/ k.file # "no"

write_item ==
    \E k \in Kinds, i \in Ids :
        /\ Written = 1 .. i - 1
        /\ clean(k)
        /\ kind' = Append(kind, k)
        /\ file' = [file EXCEPT ![i] = "waiting"]
        /\ Changes
        /\ UNCHANGED <<helper, wid, applied, sent, lost, left>>

\* Nobody takes the request for a day.
Ages(i) ==
    /\ Spend("faults")
    /\ file[i] = "waiting" /\ file' = [file EXCEPT ![i] = "old"]
    /\ lost' = lost \cup {i}
    /\ UNCHANGED <<kind, helper, wid, stir, applied, sent>>

-----------------------------------------------------------------------------
(* take_all, in a helper of a widget.                                      *)

Off == [pc |-> "off", todo |-> {}, cur |-> 0, items |-> <<>>]

\* The names in the folder.
Lists(h) ==
    /\ helper[h].pc = "off" /\ wid[h].takes
    /\ wid' = [wid EXCEPT ![h].takes = FALSE]
    /\ helper' = [helper EXCEPT ![h] = [pc |-> "claim", todo |-> Waiting, cur |-> 0, items |-> <<>>]]
    /\ UNCHANGED <<kind, file, stir, applied, sent, lost, left>>

Claims(i) == i \in Waiting

\* The oldest name is next: the rename succeeds, or another taker was first.
Claim(h) ==
    \E i \in helper[h].todo :
        /\ helper[h].pc = "claim" /\ \A j \in helper[h].todo : i <= j
        /\ IF Claims(i)
           THEN /\ helper' = [helper EXCEPT ![h].todo = @ \ {i}, ![h].cur = i, ![h].pc = "read"]
                /\ file' = [file EXCEPT ![i] = IF @ = "old" THEN "stale" ELSE "taking"]
                /\ Changes
           ELSE /\ helper' = [helper EXCEPT ![h].todo = @ \ {i}]
                /\ UNCHANGED <<file, stir>>
        /\ UNCHANGED <<kind, wid, applied, sent, lost, left>>

\* The claimed file is read and removed; one of yesterday, or with nothing in it, gives no item.
Take(h) ==
    LET i == helper[h].cur IN
    /\ helper[h].pc = "read"
    /\ helper' = [helper EXCEPT ![h].pc = "claim", ![h].cur = 0,
                                 ![h].items = IF file[i] = "stale" THEN @ ELSE Append(@, i)]
    /\ file' = [file EXCEPT ![i] = "gone"]
    /\ Changes
    /\ UNCHANGED <<kind, wid, applied, sent, lost, left>>

HelperKilled(h) ==
    /\ helper[h].pc # "off" /\ Spend("faults")
    /\ lost' = lost \cup ToSet(helper[h].items) \cup ({helper[h].cur} \ {0})
    /\ helper' = [helper EXCEPT ![h] = Off]
    /\ wid' = [wid EXCEPT ![h].missed = Waiting]
    /\ UNCHANGED <<kind, file, stir, applied, sent>>

-----------------------------------------------------------------------------
(* The widget.  A box is the pieces typed or put into it.  start: a new    *)
(* widget takes what waits, and learns from the helper which folder it is. *)
(* missed: what waited when a helper of this widget was killed; no other    *)
(* helper is asked for because of that.                                     *)

NewWidget(chat, made) ==
    [watching |-> FALSE, takes |-> TRUE, queue |-> <<>>, busy |-> FALSE, target |-> chat,
     waited |-> 0, chat |-> chat, made |-> made, box |-> <<>>, loading |-> {}, ready |-> {}, failed |-> {}, missed |-> {}]

\* Helpers asked for before one of them starts find the same.
Asks(W) == [W EXCEPT !.takes = TRUE]

\* FolderListModel lists the folder again, whatever has changed in it: it is Ready once more, and asks for a helper
\* when a request waits.
Watch(w) ==
    /\ w \in stir /\ stir' = stir \ {w}
    /\ wid' = [wid EXCEPT ![w] = IF Waiting # {} THEN Asks(@) ELSE @]
    /\ UNCHANGED <<kind, file, helper, applied, sent, lost, left>>

\* Text alone, into an empty box, is sent by the timer.
SendsAtOnce(W, k) == k.send /\ k.text /\ k.file = "no" /\ W.box = <<>>

\* The files the helper lets through: readable, under home or a mounted drive, not hidden.
check_files(k) == k.file = "good"

apply(W, i) ==
    LET k == kind[i]
        V == [W EXCEPT !.chat = IF k.newChat THEN i ELSE @,
                       !.made = IF k.newChat THEN @ \cup {i} ELSE @,
                       !.loading = IF check_files(k) THEN @ \cup {i} ELSE @,
                       !.box = IF k.text THEN Append(@, i) ELSE @]
    IN IF SendsAtOnce(W, k) THEN [V EXCEPT !.busy = TRUE, !.target = V.chat, !.waited = 0] ELSE V

\* _next: the first request that waits is put into the box of the chat open by then; unless one waits for the send timer.
Onward(S) ==
    IF S.widget.busy \/ S.widget.queue = <<>> THEN S
    ELSE LET i == Head(S.widget.queue)
             W == apply([S.widget EXCEPT !.queue = Tail(@)], i)
         IN [widget |-> W, applied |-> [S.applied EXCEPT ![i] = Append(@, W.chat)]]

\* apply ends with _next, and so on through the queue.
Handled(W) ==
    LET after[n \in 0 .. Len(W.queue)] ==
            IF n = 0 THEN [widget |-> W, applied |-> applied] ELSE Onward(after[n - 1])
    IN after[Len(W.queue)]

Goes(w, W) ==
    \E S \in {Handled(W)} : wid' = [wid EXCEPT ![w] = S.widget] /\ applied' = S.applied

\* Mutant: the answer of a helper replaces what waits.
Queued_Anew(queue, items) == items

Queued(queue, items) == queue \o items

\* The answer of a helper: the widget knows the folder from then on, and lists it.
Printed(w) ==
    LET W == [wid[w] EXCEPT !.queue = Queued(@, helper[w].items), !.watching = TRUE]
    IN /\ helper[w].pc = "claim" /\ helper[w].todo = {}
       /\ helper' = [helper EXCEPT ![w] = Off]
       /\ Goes(w, W)
       /\ stir' = IF wid[w].watching THEN stir ELSE stir \cup {w}
       /\ UNCHANGED <<kind, file, sent, lost, left>>

Ready(W) == W.loading = {} /\ W.failed = {}

\* sendMessage: what is in the box and attached goes to the open chat.
Message(W, by) == [chat |-> W.chat, pieces |-> W.box, files |-> W.ready, by |-> by]
Emptied(W) == [W EXCEPT !.box = <<>>, !.ready = {}]

\* Mutant: the request is sent wherever the user is by then.
SameChat_Any(W) == TRUE

SameChat(W) == W.chat = W.target

\* Mutant: the timer waits for the attachments as long as it takes.
GivesUp_Never(ticks) == FALSE

GivesUp(ticks) == ticks > MaxTicks

sendTimer(w) ==
    LET W == [wid[w] EXCEPT !.waited = @ + 1]
        ends == [W EXCEPT !.busy = FALSE, !.waited = 0]
    IN /\ W.busy
       /\ \/ /\ ~SameChat(W) \/ GivesUp(W.waited)
             /\ Goes(w, ends) /\ UNCHANGED sent
          \/ /\ SameChat(W) /\ ~GivesUp(W.waited) /\ Ready(W)
             /\ sent' = IF W.box = <<>> /\ W.ready = {} THEN sent ELSE Append(sent, Message(W, "timer"))
             /\ Goes(w, Emptied(ends))
          \/ /\ SameChat(W) /\ ~GivesUp(W.waited) /\ ~Ready(W)
             /\ wid' = [wid EXCEPT ![w].waited = IF @ < MaxTicks THEN @ + 1 ELSE @]
             /\ UNCHANGED <<applied, sent>>
       /\ UNCHANGED <<kind, file, helper, stir, lost, left>>

\* The text of an attachment arrives, or it cannot be read.
Loaded(w, i) ==
    /\ i \in wid[w].loading
    /\ \/ wid' = [wid EXCEPT ![w].loading = @ \ {i}, ![w].ready = @ \cup {i}]
       \/ wid' = [wid EXCEPT ![w].loading = @ \ {i}, ![w].failed = @ \cup {i}]
    /\ UNCHANGED <<kind, file, helper, stir, applied, sent, lost, left>>

\* The user types, sends, opens another chat, or takes a failed attachment away.
UserStep(w) ==
    /\ Spend("steps")
    /\ \/ /\ wid' = [wid EXCEPT ![w].box = Append(@, 0)] /\ UNCHANGED sent
       \/ /\ Ready(wid[w]) /\ (wid[w].box # <<>> \/ wid[w].ready # {})
          /\ sent' = Append(sent, Message(wid[w], "user"))
          /\ wid' = [wid EXCEPT ![w] = Emptied(@)]
       \/ \E c \in Chats \cup wid[w].made : c # wid[w].chat /\ wid' = [wid EXCEPT ![w].chat = c] /\ UNCHANGED sent
       \/ wid[w].failed # {} /\ wid' = [wid EXCEPT ![w].failed = {}] /\ UNCHANGED sent
    /\ UNCHANGED <<kind, file, helper, stir, applied, lost>>

\* plasmashell ends and starts again: what the widgets and their helpers had is gone.
Restart ==
    /\ Spend("faults")
    /\ lost' = lost \cup (UNION {ToSet(wid[w].queue) \cup ToSet(wid[w].box) : w \in Widgets})
                   \cup (UNION {ToSet(helper[h].items) \cup {helper[h].cur} : h \in Widgets})
    /\ wid' = [w \in Widgets |-> NewWidget(wid[w].chat, wid[w].made)]
    /\ helper' = [w \in Widgets |-> Off]
    /\ stir' = {}
    /\ UNCHANGED <<kind, file, applied, sent>>

-----------------------------------------------------------------------------
Init ==
    /\ kind = <<>> /\ file = [i \in Ids |-> "none"]
    /\ helper = [w \in Widgets |-> Off]
    /\ wid = [w \in Widgets |-> NewWidget(CHOOSE c \in Chats : TRUE, {})]
    /\ applied = [i \in Ids |-> <<>>] /\ sent = <<>> /\ stir = {} /\ lost = {}
    /\ left \in Budgets

HelperStep(h) == Lists(h) \/ Claim(h) \/ Take(h) \/ Printed(h)
WidgetStep(w) == Watch(w) \/ sendTimer(w)

Next ==
    \/ write_item \/ (\E i \in Ids : Ages(i)) \/ Restart
    \/ \E h \in Widgets : HelperStep(h) \/ HelperKilled(h)
    \/ \E w \in Widgets : WidgetStep(w) \/ (\E i \in Ids : Loaded(w, i))
    \/ \E w \in Used : UserStep(w)

Spec == Init /\ [][Next]_vars

\* While something is left for a helper or a widget to do, one of them goes on: started helpers end, and events
\* and timers come.  (Each has only so much to do, so that it does not matter which.)
FairSpec == Spec /\ WF_vars(\E w \in Widgets : HelperStep(w) \/ WidgetStep(w))

-----------------------------------------------------------------------------
InQueue(i) == \E w \in Widgets : i \in ToSet(wid[w].queue)
InHelper(i) == \E h \in Widgets : helper[h].cur = i \/ i \in ToSet(helper[h].items)

\* take_all (ask_inbox.py:130-133): with several widgets, and a helper per event of each, a request is
\* put into one box once.
AppliedOnce == \A i \in Ids : Len(applied[i]) <= 1

\* take_all, take and _next (AskInbox.qml:47-72): a request that is no longer in the folder is with one
\* helper or in one queue, or it was put into a box; its text is then in a box or in a message, not in both.
NothingDropped ==
    \A i \in Ids \ lost :
        /\ file[i] \in {"taking", "stale", "gone"} => InHelper(i) \/ InQueue(i) \/ applied[i] # <<>>
        /\ applied[i] # <<>> /\ kind[i].text =>
              Cardinality({w \in Widgets : i \in ToSet(wid[w].box)})
                  + Cardinality({m \in 1 .. Len(sent) : i \in ToSet(sent[m].pieces)}) = 1

\* A request is put into one box, once, and nothing of it is lost on the way.
RequestKept == AppliedOnce /\ NothingDropped

\* The message begins with a request that asked to be sent, and was put into a box of the chat.
Begins(s, chat) ==
    LET i == s.pieces[1] IN
    /\ s.pieces # <<>> /\ i # 0
    /\ kind[i].send /\ kind[i].file = "no"
    /\ applied[i] # <<>> /\ applied[i][1] = chat

\* sendTimer (AskInbox.qml:120-142): what is sent without the user goes to the chat it was meant for, begins
\* with a request that asked to be sent, and never takes along what had been typed before it.  (Unless the user
\* has sent that request: nothing stops the timer then, and it sends what they began next in that chat, see
\* BegunUnsent.)
SentAsAsked ==
    \A m \in 1 .. Len(sent) : sent[m].by = "timer" /\ sent[m].pieces # <<>> =>
        \/ Begins(sent[m], sent[m].chat)
        \/ /\ sent[m].pieces[1] = 0
           /\ \E j \in 1 .. m - 1 : sent[j].by = "user" /\ Begins(sent[j], sent[m].chat)

\* What the user has begun is never sent without them.  The code breaks it: the user's own send leaves _busy and
\* the timer as they are (AskInbox.qml:120-142), which then sends what is being typed.
BegunUnsent ==
    \A m \in 1 .. Len(sent) : sent[m].by = "timer" /\ sent[m].pieces # <<>> => sent[m].pieces[1] # 0

\* A request nobody takes until something else is left: every widget had a helper killed while it waited, or had
\* its first one killed and has not learnt the folder (AskInbox.qml:50-59).
Unheard(i) ==
    \A w \in Widgets :
        /\ i \in Waiting /\ ~wid[w].takes /\ helper[w].pc = "off"
        /\ ~wid[w].watching \/ (w \notin stir /\ i \in wid[w].missed)

\* take, _next and sendTimer (AskInbox.qml:47-72, 120-142): every request that is left is put into a box in the
\* end, and no widget stays busy with one, though attachments never load and the user goes elsewhere.
RequestApplied ==
    <>[](/\ \A i \in Written : applied[i] # <<>> \/ i \in lost \/ Unheard(i)
         /\ \A w \in Widgets : ~wid[w].busy /\ wid[w].queue = <<>>)

=============================================================================
