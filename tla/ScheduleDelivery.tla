--------------------------- MODULE ScheduleDelivery ---------------------------
(***************************************************************************)
(* A scheduled run reaches its chat while the widget may have that chat    *)
(* open (kdeaichat/schedule_chat.py and chat/ScheduleInbox.qml).           *)
(*                                                                         *)
(* The job appends the run to the chat file, under a lock that only jobs   *)
(* take, and leaves a copy in the inbox.  The widget watches the inbox,    *)
(* merges each run into the chats in memory, saves them, and has a helper  *)
(* remove the inbox file.  Widget and jobs share files and no lock: either *)
(* may overwrite what the other has just written.                          *)
(*                                                                         *)
(* The chats, their files and the widget's life are those of ChatStore. A  *)
(* run is one message, its prompt and reply being always written together. *)
(***************************************************************************)
EXTENDS ChatStore, Integers

VARIABLES
    job,       \* the job of each run: what it does, its chat, the messages it has read
    lock,      \* the run that holds inbox/.lock
    inbox,     \* inbox/run-*.ini, in the order of their names
    merged,    \* _merged: inbox files already handled
    toRemove,  \* _toRemove: to be removed after the next save
    removing,  \* files that a helper of this widget process is about to remove
    strays,    \* those that a helper of an earlier one still may
    discarded  \* history: runs handled as those of a chat that is gone

jobVars == <<job, lock>>
inboxVars == <<inbox, merged, toRemove, removing, strays, discarded>>
vars == <<storeVars, jobVars, inboxVars>>

DeliveryInit ==
    /\ Init
    /\ job = [r \in Runs |-> [pc |-> "new", chat |-> None, base |-> <<>>]]
    /\ lock = None /\ inbox = <<>>
    /\ merged = {} /\ toRemove = {} /\ removing = {} /\ strays = {} /\ discarded = {}

-----------------------------------------------------------------------------
(* The job: schedule_exec.run_prompt and schedule_chat.deliver.            *)

\* The chat is looked up when the run starts; its prompt then takes minutes.
find_chat(r) ==
    /\ job[r].pc = "new" /\ index \notin {None, Bad} /\ Spend("runs")
    /\ \E c \in index : job' = [job EXCEPT ![r].pc = "prompt", ![r].chat = c]
    /\ UNCHANGED <<memVars, diskVars, deleting, used, kept, undone, inboxVars, lock>>

\* The jobs of a chat folder write one after another.
folder_lock(r) == job[r].pc = "prompt" /\ lock = None

\* Under folder_lock the chat file is read again; one that cannot be read ends the run.
load_messages(r) ==
    /\ folder_lock(r)
    /\ \E here \in {file[job[r].chat]} :
        IF here = Bad
        THEN job' = [job EXCEPT ![r].pc = "failed"] /\ lock' = None
        ELSE job' = [job EXCEPT ![r].pc = "append", ![r].base = IF here = None THEN <<>> ELSE here] /\ lock' = r
    /\ UNCHANGED <<storeVars, inboxVars>>

Appended(r) == IF Contains(job[r].base, r) THEN job[r].base ELSE Append(job[r].base, r)

append(r) ==
    /\ job[r].pc = "append"
    /\ file' = [file EXCEPT ![job[r].chat] = Appended(r)]
    /\ job' = [job EXCEPT ![r].pc = "inbox"]
    /\ UNCHANGED <<memVars, index, bak, deleting, used, kept, undone, budget, inboxVars, lock>>

write_inbox(r) ==
    /\ job[r].pc = "inbox"
    /\ inbox' = Append(inbox, r)
    /\ lock' = None
    /\ job' = [job EXCEPT ![r].pc = "done"]
    /\ UNCHANGED <<storeVars, merged, toRemove, removing, strays, discarded>>

JobDies(r) ==
    /\ job[r].pc \in {"prompt", "append", "inbox"} /\ Spend("deaths")
    /\ job' = [job EXCEPT ![r].pc = "dead"]
    /\ lock' = IF lock = r THEN None ELSE lock
    /\ UNCHANGED <<memVars, diskVars, deleting, used, kept, undone, inboxVars>>

JobStep(r) == find_chat(r) \/ load_messages(r) \/ append(r) \/ write_inbox(r)

-----------------------------------------------------------------------------
(* The widget: ScheduleInbox.                                              *)

\* Those of the members of S that are in s, in their order.
Only(s, S) ==
    LET picked[i \in 0 .. Len(s)] ==
            IF i = 0 THEN <<>> ELSE IF s[i] \in S THEN Append(picked[i - 1], s[i]) ELSE picked[i - 1]
    IN picked[Len(s)]

Later(r) == job[r].chat = open /\ loading

Present(r) == Contains(sessions[job[r].chat], r)

\* The inbox files that scan looks at.
Unmerged == Only(inbox, Runs \ merged)

\* Mutant: a merge is not saved before the files are removed.
MustSave_Never(added) == FALSE

MustSave(added) == added # {}

\* Mutant: the save names the open chat only.
SaveMerged_OpenOnly == persistHinted({open})

SaveMerged == persistSessions

\* scan: every file that need not wait is handled; if a chat has changed, the
\* chats are saved and flushed at once, else the handled files are removed.
scan ==
    LET here == {r \in ToSet(Unmerged) : job[r].chat \in Listed}
        gone == ToSet(Unmerged) \ here
        now == {r \in here : ~Later(r)}
        added == {r \in now : ~Present(r)}
        adds(c) == Only(Unmerged, {r \in added : job[r].chat = c})
    IN /\ On /\ ready /\ gone \cup now # {}
       /\ merged' = merged \cup gone \cup now
       /\ discarded' = discarded \cup gone
       /\ sessions' = [c \in Chats |-> IF c \in Listed THEN sessions[c] \o adds(c) ELSE None]
       /\ IF MustSave(added)
          THEN /\ SaveMerged
               /\ flushing' = [stage |-> "now"]
               /\ writtenIndex' = None
               /\ toRemove' = toRemove \cup gone \cup now
               /\ UNCHANGED removing
          ELSE /\ removing' = removing \cup toRemove \cup gone \cup now
               /\ toRemove' = {}
               /\ UNCHANGED <<saveVars, flushing, writtenIndex>>
       /\ UNCHANGED <<up, ready, open, loading, written, blocked, damaged, undoable,
                      diskVars, deleting, used, kept, undone, budget, jobVars, inbox, strays>>

\* The flush that scan asks for, before any other handler runs.
FlushNow ==
    /\ ~Idle /\ flushing.stage = "now"
    /\ \/ Flush
       \/ ~CanFlush /\ flushing' = None
          /\ UNCHANGED <<up, ready, saveVars, written, writtenIndex, blocked, damaged>>
    /\ UNCHANGED <<sessions, open, loading, undoable, diskVars, deleting, used, kept, undone, budget, jobVars, inboxVars>>

\* Mutant: saved() is not heard.
Saved_Ignored == UNCHANGED <<removing, toRemove>>

\* saved(): _removeMerged.
Saved == removing' = removing \cup toRemove /\ toRemove' = {}

FlushEndSaved ==
    /\ FlushEnd /\ Saved
    /\ UNCHANGED <<jobVars, inbox, merged, strays, discarded>>

\* cmd_schedule_inbox_done, and its answer.
RemoveFile(r) ==
    /\ r \in removing
    /\ inbox' = Only(inbox, Runs \ {r})
    /\ removing' = removing \ {r}
    /\ merged' = merged \ {r}
    /\ UNCHANGED <<storeVars, jobVars, toRemove, strays, discarded>>

StrayRemoves(r) ==
    /\ r \in strays
    /\ inbox' = Only(inbox, Runs \ {r})
    /\ strays' = strays \ {r}
    /\ UNCHANGED <<storeVars, jobVars, merged, toRemove, removing, discarded>>

\* triggerInitialLoad sets _initialLoadDone before it loads the chats: if the
\* folder is ready and the watcher has listed the inbox by then, scan runs at
\* once, finds no chat and has every file removed.
LoadScanned ==
    /\ Load
    /\ \/ UNCHANGED inboxVars
       \/ /\ ready
          /\ merged' = merged \cup ToSet(inbox)
          /\ discarded' = discarded \cup ToSet(Unmerged)
          /\ removing' = removing \cup ToSet(Unmerged)
          /\ UNCHANGED <<inbox, toRemove, strays>>
    /\ UNCHANGED jobVars

\* A widget that ends forgets what it has merged; its helpers may go on.
Ends ==
    /\ Quit \/ Kill
    /\ merged' = {} /\ toRemove' = {} /\ removing' = {}
    /\ strays' \in {strays \cup removing, {}}
    /\ UNCHANGED <<jobVars, inbox, discarded>>

-----------------------------------------------------------------------------

\* The steps of ChatStore that leave the inbox alone.
StoreStep ==
    /\ UserStep \/ ReplyDone \/ FlushStep \/ Prepared \/ rebuildIndex \/ Start \/ \E c \in Chats : DeleteFile(c)
    /\ UNCHANGED <<jobVars, inboxVars>>

\* Nothing of the widget or of a job is at work on a file that is damaged or lost.
DamageStep ==
    /\ lock = None
    /\ (\E c \in Chats : DamageFile(c)) \/ DamageIndex \/ LoseIndex
    /\ UNCHANGED <<jobVars, inboxVars>>

DeliveryNext ==
    \/ StoreStep \/ DamageStep
    \/ LoadScanned \/ Ends
    \/ scan \/ FlushNow \/ FlushEndSaved
    \/ \E r \in Runs : JobStep(r) \/ JobDies(r) \/ RemoveFile(r) \/ StrayRemoves(r)

DeliverySpec == DeliveryInit /\ [][DeliveryNext]_vars

\* The widget's event loop goes on and the helpers that were started run.  The
\* watcher's event waits in the loop's queue while a flush works, and is served
\* after it: strong fairness.  A reply need not end: a question to the user
\* waits for them, and a request may have no time limit.
FairDelivery ==
    /\ DeliverySpec
    /\ WF_vars(LoadScanned) /\ WF_vars(Prepared /\ UNCHANGED <<jobVars, inboxVars>>)
    /\ WF_vars(FlushNow) /\ WF_vars(FlushEndSaved) /\ WF_vars(FlushStep /\ UNCHANGED <<jobVars, inboxVars>>)
    /\ SF_vars(scan)
    /\ \A r \in Runs : WF_vars(RemoveFile(r))

-----------------------------------------------------------------------------
(* Properties.                                                             *)

\* No run is at two places of the messages.
Once(messages) == \A i, j \in DOMAIN messages : messages[i] \in Runs /\ messages[i] = messages[j] => i = j

\* "merges the messages ... by run id (so twice is harmless)": however saves,
\* restarts and other runs cross, a run is never twice in a chat, in memory or
\* on disk.
RunOnce ==
    \A c \in Chats :
        /\ sessions[c] # None => Once(sessions[c])
        /\ file[c] \notin {None, Bad} => Once(file[c])

\* No other run has been for the chat of this one.
OnlyRun(r) == \A q \in Runs \ {r} : job[q].chat # job[r].chat

\* "saves, and only then removes the file": a delivered run that the widget has
\* not discarded is in the inbox or in its chat's file, also when the widget
\* dies at any point, unless that file was damaged.  (Of two runs for one chat the
\* later job may overwrite the earlier one's; a chat in `undone` may have no file.)
RunStays ==
    \A r \in Runs : job[r].pc = "done" /\ OnlyRun(r) /\ r \notin discarded
                       /\ index \notin {None, Bad} /\ job[r].chat \in index \ undone =>
        \/ Contains(inbox, r)
        \/ file[job[r].chat] = Bad
        \/ file[job[r].chat] # None /\ Contains(file[job[r].chat], r)

\* A delivered run is neither lost nor doubled.
RunKept == RunOnce /\ RunStays

\* No job has changed a chat file without the widget's knowing it.
NoJobAtWork == inbox = <<>> /\ lock = None /\ \A r \in Runs : job[r].pc # "dead"

\* The chat's file holds a run that was discarded, and memory does not: the run
\* was discarded while the chat was deleted, and Undo brought the chat back.
ShownAgain(c) == \E r \in discarded : Contains(Loaded(c), r) /\ ~Contains(sessions[c], r)

\* RestartShowsTheSame, with jobs at work: once each run was merged, and but for
\* runs that were discarded.
RestartShowsRuns == NoJobAtWork => RestartShows({c \in Listed : ~ShownAgain(c)})

\* No job is between reading a chat file and leaving its copy in the inbox.
NoJobWrites == lock = None

\* "If the widget wrote a stale copy of the chat over step 1, its own merge puts
\* the messages back; if step 1 overwrote a message the widget had just saved,
\* the merge rewrites the chat from memory": with nothing left to save or to
\* merge, memory and disk agree and hold every run.
MergedAgree ==
    On /\ ready /\ ~loading /\ pending = "none" /\ ~held /\ inbox = <<>> /\ NoJobWrites =>
        /\ \A c \in Listed : Loaded(c) = sessions[c]
        /\ \A r \in Runs : job[r].pc = "done" /\ job[r].chat \in Listed /\ r \notin discarded
                              => Contains(sessions[job[r].chat], r)

\* A delivered run is shown in its chat, or the chat is deleted, and its inbox
\* file is removed.
Arrived(r) ==
    /\ job[r].pc = "done"
    /\ ~Contains(inbox, r)
    /\ r \in discarded \/ sessions[job[r].chat] = None \/ Contains(sessions[job[r].chat], r)

\* A delivered run eventually arrives, unless its chat stays open with a reply
\* that never ends.  Other chats' runs do not wait for that reply.
RunArrives == \A r \in Runs : job[r].pc = "done" ~> Arrived(r) \/ []Later(r)

\* "If the widget wrote a stale copy of the chat over step 1, its own merge puts
\* the messages back": a delivered run whose chat still exists is in the inbox
\* or in the chat's file.
RunNeverLost ==
    \A r \in Runs : job[r].pc = "done" /\ index # None /\ job[r].chat \in index =>
        \/ Contains(inbox, r)
        \/ file[job[r].chat] # None /\ Contains(file[job[r].chat], r)

\* "Deleting a chat deletes its file": with nothing going on, a deleted chat
\* has no file.
DeletedChatHasNoFile ==
    On /\ ready /\ pending = "none" /\ ~held /\ deleting = {} /\ inbox = <<>>
       /\ (\A r \in Runs : job[r].pc \in {"new", "done"}) =>
        \A c \in used : sessions[c] = None => file[c] = None
=============================================================================
