------------------------------ MODULE ChatStore ------------------------------
(***************************************************************************)
(* The chats of one widget in memory (chat/Sessions.qml) and on disk       *)
(* (store/ChatStore.qml): a file per chat, index.ini and index.ini.bak.    *)
(*                                                                         *)
(* Every handler that changes the chats asks for a save, with a hint of    *)
(* the chats that changed or none.  A timer flushes: changed chat files,   *)
(* the index, its backup, then a helper process deletes the files of       *)
(* removed chats.  The widget runs one handler at a time, but other        *)
(* processes and a power cut come between two writes, so a flush takes     *)
(* several steps during which no handler runs.                             *)
(*                                                                         *)
(* A chat's content is the sequence of its messages; the list's order and  *)
(* the chats' settings are left out, so an index is a set of chats.        *)
(***************************************************************************)
EXTENDS Naturals, Sequences, FiniteSets, SequencesExt

CONSTANTS Chats,       \* chat ids, each given out once
          None,        \* no file, no chat
          Bad,         \* a file that cannot be read
          Partial,     \* a reply saved while it streams (streaming: true)
          Interrupted, \* such a reply after a restart (interrupted: true)
          Reply,       \* a finished reply
          Runs,        \* the messages of scheduled runs (ScheduleDelivery)
          Budgets      \* bounds, one record of numbers per scenario: of messages sent (sends),
                       \* crashes (kills), orderly ends (quits), Undo (undos), files damaged
                       \* (damage), index.ini lost (lost), chats created, deleted, switched and
                       \* set (edits), scheduled runs (runs) and jobs that die (deaths)

BudgetNames == {"sends", "kills", "quits", "undos", "damage", "lost", "edits", "runs", "deaths"}

Messages == Nat \cup Runs \cup {Partial, Interrupted, Reply}
Flushes == [stage : {"chats", "bak", "end"}, todo : SUBSET Chats, list : SUBSET Chats, removed : SUBSET Chats]

ASSUME StoreAssumption ==
    /\ Budgets \subseteq [BudgetNames -> Nat]
    /\ {None, Bad} \cap Chats = {}
    /\ Cardinality({None, Bad, Partial, Interrupted, Reply}) = 5
    /\ Runs \cap {None, Bad, Partial, Interrupted, Reply} = {}
    /\ Nat \cap (Runs \cup {Partial, Interrupted, Reply}) = {}
    /\ {None, Bad} \cap Seq(Messages) = {}
    /\ \A L \in SUBSET Chats : L \notin {None, Bad}
    /\ \A f \in Flushes \cup {[stage |-> "now"]} : f # None

VARIABLES
    up,           \* the widget: "off", "starting" (chats not loaded), "on"
    ready,        \* the folder is private (prepare has returned)
    sessions,     \* chat.sessions: the messages of each chat in the list
    open,         \* chat.currentSessionId
    loading,      \* a reply is streaming into the open chat
    pending,      \* _pending: "none", the "list" or the list with a "partial" reply
    held,         \* _savePending of Storage.qml: a save waits for the folder
    dirty, full,  \* the hints since the last flush: chats named, a save without a hint
    written,      \* _written: the content each chat file was last given
    writtenIndex, \* _writtenIndex, None when the list's settings have changed since
    blocked,      \* indexProblem: nothing is saved
    damaged,      \* damagedIds
    undoable,     \* the chat that Undo brings back, with its messages
    flushing,     \* the flush at work: its stage, the files left, the index, the removed chats
    file,         \* chat-<id>.ini
    index, bak,   \* index.ini and index.ini.bak
    deleting,     \* chat files that a helper process is about to delete
    used,         \* ids given out
    kept,         \* history: chats once in the index and its backup that the user has not deleted
                  \* (since index.ini was last lost)
    undone,       \* history: chats that Undo or a rebuilt list brought back, their file damaged
                  \* or about to be deleted
    budget        \* what is left of the record of Budgets chosen

memVars == <<up, ready, sessions, open, loading, pending, held, dirty, full, written, writtenIndex,
             blocked, damaged, undoable, flushing>>
saveVars == <<pending, held, dirty, full>>
diskVars == <<file, index, bak>>
storeVars == <<memVars, diskVars, deleting, used, kept, undone, budget>>

Listed == {c \in Chats : sessions[c] # None}
Idle == flushing = None
On == up = "on" /\ Idle

NoChats == [c \in Chats |-> None]

Init ==
    /\ up = "starting"
    /\ ready = FALSE /\ sessions = NoChats /\ open = None /\ loading = FALSE
    /\ pending = "none" /\ held = FALSE /\ dirty = {} /\ full = FALSE
    /\ written = NoChats /\ writtenIndex = None /\ blocked = FALSE /\ damaged = {}
    /\ undoable = None /\ flushing = None
    /\ file = NoChats /\ index = None /\ bak = None
    /\ deleting = {} /\ used = {} /\ kept = {} /\ undone = {}
    /\ budget \in Budgets

Spend(what) == budget[what] > 0 /\ budget' = [budget EXCEPT ![what] = @ - 1]

-----------------------------------------------------------------------------
(* Saving: Sessions.persistSessions, Storage.save and ChatStore.save.      *)

Hint(ids) == dirty' = dirty \cup ids /\ UNCHANGED full
NoHint == full' = TRUE /\ UNCHANGED dirty

\* A save before the folder is ready is remembered and made without a hint then.
Hold == held' = TRUE /\ UNCHANGED <<pending, dirty, full>>

persistSessions ==
    \/ blocked /\ UNCHANGED saveVars
    \/ ~blocked /\ ~ready /\ Hold
    \/ ~blocked /\ ready /\ pending' = "list" /\ NoHint /\ UNCHANGED held

persistHinted(ids) ==
    \/ blocked /\ UNCHANGED saveVars
    \/ ~blocked /\ ~ready /\ Hold
    \/ ~blocked /\ ready /\ pending' = "list" /\ Hint(ids) /\ UNCHANGED held

-----------------------------------------------------------------------------
(* The user's handlers.                                                    *)

edited == <<up, ready, written, blocked, damaged, flushing, diskVars, deleting>>

\* A message goes into the open chat and its reply starts.
Send ==
    /\ On /\ ~loading /\ Spend("sends")
    /\ sessions' = [sessions EXCEPT ![open] = Append(@, budget.sends)]
    /\ loading' = TRUE
    /\ persistHinted({open})
    /\ writtenIndex' = None
    /\ UNCHANGED <<edited, open, undoable, used, kept, undone>>

\* Mutant: the end of a reply is saved as if only metadata had changed.
ReplyDone_NoHint ==
    /\ On /\ loading
    /\ sessions' = [sessions EXCEPT ![open] = Append(@, Reply)]
    /\ loading' = FALSE
    /\ persistHinted({})
    /\ writtenIndex' = None
    /\ UNCHANGED <<edited, open, undoable, used, kept, undone, budget>>

ReplyDone ==
    /\ On /\ loading
    /\ sessions' = [sessions EXCEPT ![open] = Append(@, Reply)]
    /\ loading' = FALSE
    /\ persistHinted({open})
    /\ writtenIndex' = None
    /\ UNCHANGED <<edited, open, undoable, used, kept, undone, budget>>

\* PartialSave.save, every 20 s while a reply streams; chat.sessions stays as it is.
PartialSave ==
    /\ On /\ loading /\ ~blocked
    /\ \/ ~ready /\ Hold
       \/ ready /\ pending' = "partial" /\ Hint({open}) /\ UNCHANGED held
    /\ UNCHANGED <<edited, writtenIndex, sessions, open, loading, undoable, used, kept, undone, budget>>

\* The chats after invalidateActiveRequest and a save of the open chat: what has
\* arrived of a reply becomes the reply.
GivenUp == IF loading THEN {sessions, [sessions EXCEPT ![open] = Append(@, Reply)]} ELSE {sessions}

stopStreaming ==
    /\ On /\ loading
    /\ sessions' \in GivenUp
    /\ loading' = FALSE
    /\ persistHinted({open})
    /\ writtenIndex' = None
    /\ UNCHANGED <<edited, open, undoable, used, kept, undone, budget>>

\* A new chat, opened at once; the open one is not saved before, so that a
\* reply still streaming is dropped.
createSession ==
    /\ On /\ Spend("edits")
    /\ \E c \in Chats \ used :
          /\ sessions' = [sessions EXCEPT ![c] = <<>>]
          /\ open' = c
          /\ used' = used \cup {c}
    /\ loading' = FALSE
    /\ persistSessions
    /\ UNCHANGED <<edited, writtenIndex, undoable, kept, undone>>

switchSession(c) ==
    /\ On /\ c \in Listed \ {open} /\ Spend("edits")
    /\ sessions' \in GivenUp
    /\ open' = c
    /\ loading' = FALSE
    /\ persistSessions
    /\ UNCHANGED <<edited, writtenIndex, undoable, used, kept, undone>>

\* A chat's settings change (setSessionProperty, with an empty hint).
setSessionProperty ==
    /\ On /\ Spend("edits")
    /\ persistHinted({})
    /\ writtenIndex' = None
    /\ UNCHANGED <<edited, sessions, open, loading, undoable, used, kept, undone>>

\* The list changes in a way that is saved without a hint (archive, rename, override).
setSessionArchived ==
    /\ On /\ Spend("edits")
    /\ persistSessions
    /\ writtenIndex' = None
    /\ UNCHANGED <<edited, sessions, open, loading, undoable, used, kept, undone>>

\* Mutant: the deleted chat stays open.
NextOpen_Same(c) == {c}

\* The chat opened instead of a deleted one.
NextOpen(c) == Listed \ {c}

\* The last chat cannot be deleted; Undo is offered for a while.
deleteSession(c) ==
    /\ On /\ c \in Listed /\ Cardinality(Listed) > 1 /\ Spend("edits")
    /\ sessions' = [sessions EXCEPT ![c] = None]
    /\ undoable' = [chat |-> c, messages |-> sessions[c], wasOpen |-> c = open]
    /\ IF c = open THEN open' \in NextOpen(c) /\ loading' = FALSE
       ELSE UNCHANGED <<open, loading>>
    /\ persistSessions
    /\ kept' = kept \ {c}
    /\ UNCHANGED <<edited, writtenIndex, used, undone>>

\* UndoNotice.undo of a delete; a chat that was open is opened again.
undo ==
    /\ On /\ undoable # None /\ Spend("undos")
    /\ \E now \in IF undoable.wasOpen THEN GivenUp ELSE {sessions} :
          sessions' = [now EXCEPT ![undoable.chat] = undoable.messages]
    /\ IF undoable.wasOpen THEN open' = undoable.chat /\ loading' = FALSE
       ELSE UNCHANGED <<open, loading>>
    /\ undoable' = None
    /\ undone' = undone \cup ({undoable.chat} \cap (deleting \cup damaged))
    /\ persistSessions
    /\ UNCHANGED <<edited, writtenIndex, used, kept>>

dismiss ==
    /\ On /\ undoable # None
    /\ undoable' = None
    /\ UNCHANGED <<edited, writtenIndex, saveVars, sessions, open, loading, used, kept, undone, budget>>

UserStep ==
    \/ Send \/ PartialSave \/ stopStreaming \/ createSession \/ setSessionProperty \/ setSessionArchived
    \/ \E c \in Chats : switchSession(c) \/ deleteSession(c)
    \/ undo \/ dismiss

-----------------------------------------------------------------------------
(* ChatStore.flush.                                                        *)

\* What a chat's file is given by this flush.
Content(c) == IF pending = "partial" /\ c = open THEN Append(sessions[c], Partial) ELSE sessions[c]

\* Mutant: the file of a damaged chat is written like any other.
Skipped_Damaged(c) == ~full /\ c \notin dirty /\ written[c] # None

\* A damaged chat is never written; one on disk and not named by a hint is not compared.
Skipped(c) == c \in damaged \/ (~full /\ c \notin dirty /\ written[c] # None)

\* A chat without content of its own in _written (its file is damaged or missing) has Bad there.
Known(c) == IF c \notin Listed THEN None
            ELSE IF ~Skipped(c) THEN Content(c)
            ELSE IF written[c] = None THEN Bad ELSE written[c]

CanFlush == pending # "none" /\ ready /\ ~blocked

Flush ==
    /\ CanFlush
    /\ flushing' = [stage |-> "chats",
                    todo |-> {c \in Listed : ~Skipped(c) /\ written[c] # Content(c)},
                    list |-> Listed,
                    removed |-> {c \in Chats \ Listed : written[c] # None}]
    /\ written' = [c \in Chats |-> Known(c)]
    /\ pending' = "none" /\ dirty' = {} /\ full' = FALSE
    /\ UNCHANGED <<up, ready, held, writtenIndex, blocked, damaged>>

\* The save timer.
FlushTimer ==
    /\ On /\ Flush
    /\ UNCHANGED <<sessions, open, loading, undoable, diskVars, deleting, used, kept, undone, budget>>

flushed == <<up, ready, sessions, open, loading, saveVars, written, blocked, damaged, undoable, used, budget>>

FlushChat(c) ==
    /\ ~Idle /\ flushing.stage = "chats" /\ c \in flushing.todo
    /\ file' = [file EXCEPT ![c] = written[c]]
    /\ flushing' = [flushing EXCEPT !.todo = @ \ {c}]
    /\ UNCHANGED <<flushed, writtenIndex, index, bak, deleting, kept, undone>>

\* Mutant: the index does not wait for the chat files.
ChatsDone_Any == TRUE

ChatsDone == flushing.todo = {}

FlushIndex ==
    /\ ~Idle /\ flushing.stage = "chats" /\ ChatsDone
    /\ IF flushing.list = writtenIndex
       THEN UNCHANGED index /\ flushing' = [flushing EXCEPT !.stage = "end"]
       ELSE index' = flushing.list /\ flushing' = [flushing EXCEPT !.stage = "bak"]
    /\ UNCHANGED <<flushed, writtenIndex, file, bak, deleting, kept, undone>>

FlushBak ==
    /\ ~Idle /\ flushing.stage = "bak"
    /\ bak' = flushing.list
    /\ writtenIndex' = flushing.list
    /\ kept' = kept \cup flushing.list
    /\ flushing' = [flushing EXCEPT !.stage = "end"]
    /\ UNCHANGED <<flushed, file, index, deleting, undone>>

\* The helper is started for the removed chats and saved() is emitted.
FlushEnd ==
    /\ ~Idle /\ flushing.stage = "end"
    /\ deleting' = deleting \cup flushing.removed
    /\ flushing' = None
    /\ UNCHANGED <<flushed, writtenIndex, diskVars, kept, undone>>

FlushStep == FlushTimer \/ (\E c \in Chats : FlushChat(c)) \/ FlushIndex \/ FlushBak

\* cmd_delete_chat_files, in a process of its own.
DeleteFile(c) ==
    /\ c \in deleting
    /\ file' = [file EXCEPT ![c] = None]
    /\ deleting' = deleting \ {c}
    /\ UNCHANGED <<memVars, index, bak, used, kept, undone, budget>>

-----------------------------------------------------------------------------
(* Starting, loading and recovering.                                       *)

\* ReplyState.markInterrupted, for each message of a loaded chat.
Loaded(c) == IF file[c] \in {None, Bad} THEN <<>>
             ELSE [k \in DOMAIN file[c] |-> IF file[c][k] = Partial THEN Interrupted ELSE file[c][k]]

HasIndex == index # None \/ bak # None

\* The chats the index lists; a missing one counts as empty, a damaged one is
\* replaced by its backup, Bad when there is none.
ReadIndex == IF index = None THEN {}
             ELSE IF index # Bad THEN index
             ELSE IF bak \in {None, Bad} THEN Bad ELSE bak

Unreadable == HasIndex /\ ReadIndex = Bad

\* loadAll and parseSessions: `list` is shown, and a new chat if it is empty.
Show(list) ==
    \E c \in (IF list = {} THEN Chats \ used ELSE list) :
        /\ open' = c
        /\ sessions' = [d \in Chats |-> IF d \in list THEN Loaded(d) ELSE IF d = c THEN <<>> ELSE None]
        /\ used' = used \cup {c} \cup list
        /\ damaged' = {d \in list : file[d] = Bad}
        /\ written' = [d \in Chats |-> IF d \notin list \/ file[d] = Bad THEN None
                                       ELSE IF file[d] = None THEN Bad ELSE file[d]]

\* A save held back until now, or that of the chat just made, is made without a hint.
Released(new) == IF new \/ held
                 THEN held' = FALSE /\ pending' = "list" /\ NoHint
                 ELSE UNCHANGED saveVars

\* main.qml triggerInitialLoad.
Load ==
    /\ up = "starting" /\ Idle
    /\ up' = "on"
    /\ blocked' = Unreadable
    /\ Show(IF ~HasIndex \/ ReadIndex = Bad THEN {} ELSE ReadIndex)
    /\ writtenIndex' = IF index \in {None, Bad} THEN (IF HasIndex /\ index = None THEN {} ELSE None) ELSE index
    /\ LET new == ~HasIndex \/ ReadIndex = {} IN
       IF blocked' THEN UNCHANGED saveVars
       ELSE IF ready THEN Released(new)
       ELSE IF new THEN Hold ELSE UNCHANGED saveVars
    /\ UNCHANGED <<ready, loading, undoable, flushing, diskVars, deleting, kept, undone, budget>>

\* prepare_chat_dir has returned.
Prepared ==
    /\ up # "off" /\ ~ready /\ Idle
    /\ ready' = TRUE
    /\ IF up = "on" /\ ~blocked THEN Released(FALSE) ELSE UNCHANGED saveVars
    /\ UNCHANGED <<up, sessions, open, loading, written, writtenIndex, blocked, damaged, undoable, flushing,
                   diskVars, deleting, used, kept, undone, budget>>

\* "Rebuild the chat list from chat files": rebuildIndex, then loadSessions.
\* (While a reply streams: see ChatRequests.)
rebuildIndex ==
    /\ On /\ blocked /\ ready /\ ~loading
    /\ LET all == {c \in Chats : file[c] # None} IN
       /\ index' = all /\ bak' = all /\ writtenIndex' = all
       /\ Show(all)
       /\ blocked' = FALSE
       /\ undone' = undone \cup (all \cap deleting)
       /\ IF all = {} THEN pending' = "list" /\ NoHint /\ UNCHANGED held
          ELSE pending' = "none" /\ UNCHANGED <<held, dirty, full>>
    /\ UNCHANGED <<up, ready, loading, undoable, flushing, file, deleting, kept, budget>>

Start ==
    /\ up = "off"
    /\ up' = "starting"
    /\ UNCHANGED <<ready, sessions, open, loading, saveVars, written, writtenIndex, blocked, damaged, undoable,
                   flushing, diskVars, deleting, used, kept, undone, budget>>

\* The widget process is gone, and with it what it kept in memory.
Gone ==
    /\ up' = "off"
    /\ ready' = FALSE /\ sessions' = NoChats /\ open' = None /\ loading' = FALSE
    /\ pending' = "none" /\ held' = FALSE /\ dirty' = {} /\ full' = FALSE
    /\ written' = NoChats /\ writtenIndex' = None /\ blocked' = FALSE /\ damaged' = {}
    /\ undoable' = None /\ flushing' = None
    /\ UNCHANGED <<diskVars, used, kept, undone>>

\* The end of a session: Component.onDestruction flushes first.
Quit ==
    /\ up # "off" /\ Idle /\ ~CanFlush /\ Spend("quits")
    /\ Gone
    /\ UNCHANGED deleting

\* A crash or power cut may take the helper process along.
Kill ==
    /\ up # "off" /\ Spend("kills")
    /\ Gone
    /\ deleting' \in {deleting, {}}

\* Files are damaged while nothing runs.
DamageFile(c) ==
    /\ up = "off" /\ file[c] \notin {None, Bad} /\ Spend("damage")
    /\ file' = [file EXCEPT ![c] = Bad]
    /\ UNCHANGED <<memVars, index, bak, deleting, used, kept, undone>>

DamageIndex ==
    /\ up = "off" /\ Spend("damage")
    /\ \/ index # None /\ index' = Bad /\ UNCHANGED bak
       \/ bak # None /\ bak' = Bad /\ UNCHANGED index
    /\ UNCHANGED <<memVars, file, deleting, used, kept, undone>>

\* index.ini is removed or left empty; its chats are in the list no more.
LoseIndex ==
    /\ up = "off" /\ index # None /\ Spend("lost")
    /\ index' = None
    /\ kept' = {}
    /\ UNCHANGED <<memVars, file, bak, deleting, used, undone>>

StartStep == Load \/ Prepared \/ rebuildIndex \/ Start

Next ==
    \/ UserStep \/ ReplyDone
    \/ FlushStep \/ FlushEnd
    \/ StartStep
    \/ Quit \/ Kill
    \/ \E c \in Chats : DeleteFile(c) \/ DamageFile(c)
    \/ DamageIndex \/ LoseIndex

Spec == Init /\ [][Next]_storeVars

-----------------------------------------------------------------------------
(* Properties.                                                             *)

\* Once saved, a restart shows the list, and of the chats in C what the user
\* sees: their messages.  (A damaged chat is shown empty and not saved; while a reply
\* streams its partial text may be on disk.  A chat in `undone` may have no file:
\* see UndoneChatHasFile.)
RestartShows(C) ==
    On /\ ready /\ ~blocked /\ ~loading /\ pending = "none" /\ ~held =>
        /\ index # Bad => index = Listed
        /\ \A c \in C \ (damaged \cup undone) : Loaded(c) = sessions[c]

\* Once saved, a restart shows what the user sees.
RestartShowsTheSame == RestartShows(Listed)

\* A crash between the writes of a flush never leaves a chat in the index, or
\* in its backup, whose file is missing, except a chat in `undone`.
IndexedHasFile ==
    \A i \in {index, bak} : i \notin {None, Bad} => \A c \in i \ undone : file[c] # None

\* "such a file is never overwritten": a chat file that cannot be read stays
\* as it is until the user deletes its chat.
DamagedFileStays ==
    [][\A c \in Chats : file[c] = Bad /\ file'[c] # Bad => c \in deleting]_storeVars

\* Whatever is damaged, a chat that was saved is in the list again as soon as
\* the widget can save, except a chat in `undone`.
SavedChatsListed == up = "on" /\ ~blocked => kept \ undone \subseteq Listed

\* What is saved is found again: no chat drops out of the list, and none is listed
\* without its file.
ListIntact == SavedChatsListed /\ IndexedHasFile

\* "the index as last saved, used when index.ini is damaged" and "(or only its
\* backup is left)": with a readable backup and no readable index, the chats
\* of the backup are shown.
BackupStandsIn ==
    [][up = "starting" /\ up' = "on" /\ index \in {None, Bad} /\ bak \notin {None, Bad}
          => Listed' = bak]_storeVars

\* "Undoing a delete brings the chat back with its messages": once saved and
\* with no reply streaming, a chat in the list has its file.
UndoneChatHasFile ==
    On /\ ready /\ ~blocked /\ pending = "none" /\ ~held /\ deleting = {} =>
        \A c \in Listed \ damaged : file[c] # None

\* "so a crash or restart keeps what had arrived": while a reply streams, what
\* was saved of it stays on disk.
PartialReplyStays ==
    [][\A c \in Chats : /\ loading /\ loading' /\ open = c /\ open' = c
                        /\ file[c] \notin {None, Bad} /\ Contains(file[c], Partial)
                        => file'[c] = Bad \/ Contains(file'[c], Partial)]_storeVars
=============================================================================
