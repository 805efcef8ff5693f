-------------------------------- MODULE Memory --------------------------------
(***************************************************************************)
(* Memories: helper processes that change memory.json under a lock         *)
(* (kdeaichat/memory.py, common.py), and the stores that run them          *)
(* (store/MemoryStore.qml), one command of a store at a time.  The widget  *)
(* watches the file (store/MemoryWatch.qml) for what the settings page or  *)
(* another widget has changed; and the memories of a deleted chat go, and  *)
(* come back when the chat does (chat/Memory.qml).                         *)
(***************************************************************************)
EXTENDS FiniteSets, Integers, Sequences

CONSTANTS
    Ids, Texts, Chats, All, None, Unreadable, MaxMemories,
    Stores,    \* MemoryStore objects: the widget's and the settings page's
    Widget,    \* the one that has chats and watches the file
    MaxCommands,  \* bounds: what users do,
    MaxFaults     \* kills, stamps that come twice, damages

VARIABLES
    file,      \* what is read of memory.json
    lock,      \* the store whose helper holds memory.json.lock
    helper,    \* the helper that each store runs, if any (_busy)
    queue,     \* _queue of each store
    list,      \* its list
    present,   \* the widget's chats
    removed,   \* _removed: memories of chats that are gone
    unseen,    \* the file's stamp differs from the one the watcher has seen
    settling,  \* its timer runs
    forgotten, \* history: memories that went with their chats, are kept for Undo and not back
    excused,   \* history: a command was killed or refused, or two changes had one stamp
    budget     \* what is left of the bounds

L == INSTANCE MemoryList WITH memories <- file

Items == [id : Ids \cup {None}, text : Texts, chat : Chats \cup {All}]

\* Texts and ids have a largest length (MAX_TEXT, _MEMORY_ID, _CHAT_ID).
ASSUME MemoryAssumption ==
    /\ Widget \in Stores /\ None \notin Stores
    /\ MaxMemories \in Nat /\ {MaxCommands, MaxFaults} \subseteq Nat
    /\ \A M \in SUBSET L!Memories : M # Unreadable
    /\ \A m \in L!Memories : m # None
    /\ IsFiniteSet(Items)

storeVars == <<queue, list>>
chatVars == <<present, removed>>
watchVars == <<unseen, settling>>
vars == <<file, lock, helper, storeVars, chatVars, watchVars, forgotten, excused, budget>>

Off == [pc |-> "off", cmd |-> None, read |-> {}, deleted |-> {}]

Init ==
    /\ file = {} /\ lock = None
    /\ helper = [s \in Stores |-> Off]
    /\ queue = [s \in Stores |-> <<>>] /\ list = [s \in Stores |-> {}]
    /\ present = Chats /\ removed = [c \in Chats |-> {}]
    /\ unseen = FALSE /\ settling = FALSE
    /\ forgotten = {} /\ excused = FALSE
    /\ budget = [commands |-> MaxCommands, faults |-> MaxFaults]

Spend(kind) == budget[kind] > 0 /\ budget' = [budget EXCEPT ![kind] = @ - 1]

List == [do |-> "list", items |-> {}, ids |-> {}, chats |-> {}, changed |-> None]
AddOf(items) == [List EXCEPT !.do = "add", !.items = items]
UpdateTo(m) == [List EXCEPT !.do = "update", !.changed = m]
DeleteOf(ids, chats) == [List EXCEPT !.do = "delete", !.ids = ids, !.chats = chats]

Queued(s, cmd) == queue' = [queue EXCEPT ![s] = Append(@, cmd)]

-----------------------------------------------------------------------------
(* An item asks for an id when a memory comes back.                        *)

\* Mutant: a memory is added though it is there.
Added_All(read, items) == {items}

\* What a batch adds: an item of each key that the list does not have.
Added(read, items) ==
    {new \in SUBSET items :
        /\ \A i, j \in new : L!SameKey(i, j) => i = j
        /\ \A i \in items : (\E m \in read : L!SameKey(i, m)) # (\E j \in new : L!SameKey(i, j))}

\* Their ids: the one asked for if it is free, else a new one.
Names(read, new) ==
    LET free == Ids \ {m.id : m \in read} IN
    {f \in [new -> free] :
        /\ \A i, j \in new : f[i] = f[j] => i = j
        /\ \A i \in new : i.id \in free => f[i] = i.id}

Named(new, f) == {[i EXCEPT !.id = f[i]] : i \in new}

-----------------------------------------------------------------------------
(* A helper: kde_ai_helper.py and the commands of kdeaichat/memory.py.     *)

At(s, pc) == helper[s].pc = pc
Goes(s, pc) == helper' = [helper EXCEPT ![s].pc = pc]
Knows(s, pc, read, deleted) ==
    helper' = [helper EXCEPT ![s] = [pc |-> pc, cmd |-> helper[s].cmd, read |-> read, deleted |-> deleted]]

\* _next: one command of a store at a time.
_next(s) ==
    /\ At(s, "off") /\ queue[s] # <<>>
    /\ helper' = [helper EXCEPT ![s] = [Off EXCEPT !.pc = "start", !.cmd = Head(queue[s])]]
    /\ queue' = [queue EXCEPT ![s] = Tail(@)]
    /\ UNCHANGED <<file, lock, list, chatVars, watchVars, forgotten, excused, budget>>

\* cmd_memory_list, without the lock.
cmd_memory_list(s) ==
    /\ At(s, "start") /\ helper[s].cmd.do = "list"
    /\ IF file = Unreadable THEN Goes(s, "failed")
       ELSE Knows(s, "print", file, {})
    /\ UNCHANGED <<file, lock, storeVars, chatVars, watchVars, forgotten, excused, budget>>

\* Mutant: no lock.
Free_Always == TRUE

Free == lock = None

_locked(s) ==
    /\ At(s, "start") /\ helper[s].cmd.do # "list" /\ Free
    /\ lock' = s /\ Goes(s, "load")
    /\ UNCHANGED <<file, storeVars, chatVars, watchVars, forgotten, excused, budget>>

\* load: a file that cannot be read is never overwritten.
load(s) ==
    /\ At(s, "load")
    /\ IF file = Unreadable THEN Goes(s, "failed") /\ lock' = None
       ELSE Knows(s, "save", file, {}) /\ UNCHANGED lock
    /\ UNCHANGED <<file, storeVars, chatVars, watchVars, forgotten, excused, budget>>

\* Its new stamp may be the one the watcher has seen, if the second of the
\* change and the size are the same.
Stamped ==
    \/ unseen' = TRUE /\ UNCHANGED <<excused, budget>>
    \/ unseen' = FALSE /\ Spend("faults") /\ excused' = TRUE

_save(s, to) ==
    /\ file' = to
    /\ forgotten' = {m \in forgotten : \A x \in to : ~L!SameKey(m, x)}
    /\ Stamped /\ UNCHANGED settling

Answers(s, read, deleted) ==
    /\ Knows(s, "print", read, deleted)
    /\ lock' = None /\ UNCHANGED <<storeVars, chatVars>>

Refuses(s) ==
    /\ Goes(s, "failed") /\ lock' = None /\ excused' = TRUE
    /\ UNCHANGED <<file, storeVars, chatVars, watchVars, forgotten, budget>>

\* cmd_memory_add: a batch is added as a whole, or not if there is no room.
cmd_memory_add(s) ==
    LET read == helper[s].read IN
    /\ At(s, "save") /\ helper[s].cmd.do = "add"
    /\ \E new \in Added(read, helper[s].cmd.items) :
         \/ new = {} /\ Answers(s, read, {}) /\ UNCHANGED <<file, watchVars, forgotten, excused, budget>>
         \/ /\ new # {} /\ Cardinality(read) + Cardinality(new) <= MaxMemories
            /\ \E f \in Names(read, new) :
                 _save(s, read \cup Named(new, f)) /\ Answers(s, read \cup Named(new, f), {})
         \/ new # {} /\ Cardinality(read) + Cardinality(new) > MaxMemories /\ Refuses(s)

\* cmd_memory_update: refused if the memory is gone or would become another's double.
cmd_memory_update(s) ==
    LET read == helper[s].read
        changed == helper[s].cmd.changed
        target == {m \in read : m.id = changed.id}
        double == \E m \in read \ target : L!SameKey(m, changed)
    IN /\ At(s, "save") /\ helper[s].cmd.do = "update"
       /\ IF target = {} \/ double THEN Refuses(s)
          ELSE \E m \in target : /\ _save(s, (read \ {m}) \cup {changed})
                                 /\ Answers(s, (read \ {m}) \cup {changed}, {})

\* doomed
Doomed(read, cmd) == {m \in read : m.id \in cmd.ids \/ m.chat \in cmd.chats}

cmd_memory_delete(s) ==
    LET read == helper[s].read
        doomed == Doomed(read, helper[s].cmd)
    IN /\ At(s, "save") /\ helper[s].cmd.do = "delete"
       /\ Answers(s, read \ doomed, doomed)
       /\ IF doomed = {} THEN UNCHANGED <<file, watchVars, forgotten, excused, budget>>
          ELSE /\ file' = read \ doomed
               /\ forgotten' = forgotten \cup {m \in doomed : m.chat \in helper[s].cmd.chats}
               /\ Stamped /\ UNCHANGED settling

\* A helper that is killed holds no lock any more.
Killed(s) ==
    /\ helper[s].pc \in {"start", "load", "save", "print"} /\ Spend("faults")
    /\ Goes(s, "failed") /\ lock' = IF lock = s THEN None ELSE lock
    /\ excused' = TRUE
    /\ UNCHANGED <<file, storeVars, chatVars, watchVars, forgotten>>

-----------------------------------------------------------------------------
(* The stores, the chats and the watcher.                                  *)

\* Mutant: a chat that is back before its memories have gone does not get them.
Back_IfListed(gone, now) == {}

\* _restoreReturned: what has been removed for chats that are there.
Back(gone, now) == UNION {gone[c] : c \in now}

Restore(gone, now) ==
    /\ removed' = [c \in Chats |-> IF c \in now THEN {} ELSE gone[c]]
    /\ IF Back(gone, now) = {} THEN UNCHANGED queue ELSE Queued(Widget, AddOf(Back(gone, now)))

\* The answer replaces the list; that to _forget is kept for Undo, in place of
\* what an earlier delete of the chat has left there.
Answered(s) ==
    LET h == helper[s]
        went == h.deleted # {} /\ h.cmd.chats # {}
        replaced == (UNION {removed[c] : c \in h.cmd.chats}) \ h.deleted
    IN /\ At(s, "print") /\ helper' = [helper EXCEPT ![s] = Off]
       /\ list' = [list EXCEPT ![s] = h.read]
       /\ IF went THEN /\ Restore([c \in Chats |-> IF c \in h.cmd.chats THEN h.deleted ELSE removed[c]], present)
                       /\ forgotten' = forgotten \ replaced
          ELSE UNCHANGED <<queue, removed, forgotten>>
       /\ UNCHANGED <<file, lock, present, watchVars, excused, budget>>

Failed(s) ==
    /\ At(s, "failed") /\ helper' = [helper EXCEPT ![s] = Off]
    /\ UNCHANGED <<file, lock, storeVars, chatVars, watchVars, forgotten, excused, budget>>

\* What a user does in the widget or the settings page.
UserAdds(s) ==
    /\ Spend("commands")
    /\ \E t \in Texts, c \in present \cup {All} :
         Queued(s, AddOf({[id |-> None, text |-> t, chat |-> c]}))
    /\ UNCHANGED <<file, lock, helper, list, chatVars, watchVars, forgotten, excused>>

UserChanges(s) ==
    /\ Spend("commands")
    /\ \E m \in list[s], t \in Texts, c \in present \cup {All} :
         Queued(s, UpdateTo([m EXCEPT !.text = t, !.chat = c]))
    /\ UNCHANGED <<file, lock, helper, list, chatVars, watchVars, forgotten, excused>>

UserRemoves(s) ==
    /\ Spend("commands")
    /\ \E m \in list[s] : Queued(s, DeleteOf({m.id}, {}))
    /\ UNCHANGED <<file, lock, helper, list, chatVars, watchVars, forgotten, excused>>

\* onSessionDeleted: _forget.
DeleteChat(c) ==
    /\ Spend("commands") /\ c \in present /\ present' = present \ {c}
    /\ Queued(Widget, DeleteOf({}, {c}))
    /\ UNCHANGED <<file, lock, helper, list, removed, watchVars, forgotten, excused>>

\* Undo: onSessionsChanged.
UndoDelete(c) ==
    /\ c \notin present /\ present' = present \cup {c}
    /\ Restore(removed, present')
    /\ UNCHANGED <<file, lock, helper, list, watchVars, forgotten, excused, budget>>

\* _check: the stamp is another one.
_check ==
    /\ unseen /\ unseen' = FALSE /\ settling' = TRUE
    /\ UNCHANGED <<file, lock, helper, storeVars, chatVars, forgotten, excused, budget>>

\* changed(): memories.load().
changed ==
    /\ settling /\ settling' = FALSE
    /\ Queued(Widget, List)
    /\ UNCHANGED <<file, lock, helper, list, chatVars, unseen, forgotten, excused, budget>>

\* The file is damaged, while no command is at it.
Damaged ==
    /\ lock = None /\ file # Unreadable /\ Spend("faults")
    /\ file' = Unreadable /\ unseen' = TRUE
    /\ UNCHANGED <<lock, helper, storeVars, chatVars, settling, forgotten, excused>>

-----------------------------------------------------------------------------
HelperStep(s) ==
    \/ _next(s) \/ cmd_memory_list(s) \/ _locked(s) \/ load(s)
    \/ cmd_memory_add(s) \/ cmd_memory_update(s) \/ cmd_memory_delete(s)
    \/ Answered(s) \/ Failed(s)

UserStep ==
    \/ \E s \in Stores : UserAdds(s) \/ UserChanges(s) \/ UserRemoves(s) \/ Killed(s)
    \/ \E c \in Chats : DeleteChat(c) \/ UndoDelete(c)

Next == (\E s \in Stores : HelperStep(s)) \/ UserStep \/ _check \/ changed \/ Damaged

Spec == Init /\ [][Next]_vars

-----------------------------------------------------------------------------
PcType == {"off", "start", "load", "save", "print", "failed"}
CmdType ==
    {c \in [do : {"list", "add", "update", "delete"}, items : SUBSET Items, ids : SUBSET Ids,
             chats : SUBSET Chats, changed : L!Memories \cup {None}] :
        c.do = "update" => c.changed # None}

HelperType == [pc : PcType, cmd : CmdType \cup {None}, read : SUBSET L!Memories, deleted : SUBSET L!Memories]

TypeOK ==
    /\ file \in {Unreadable} \cup SUBSET L!Memories
    /\ lock \in Stores \cup {None}
    /\ helper \in [Stores -> HelperType]
    /\ queue \in [Stores -> Seq(CmdType)]
    /\ list \in [Stores -> SUBSET L!Memories]
    /\ present \subseteq Chats /\ removed \in [Chats -> SUBSET L!Memories]
    /\ unseen \in BOOLEAN /\ settling \in BOOLEAN /\ excused \in BOOLEAN
    /\ forgotten \subseteq L!Memories

\* The file behaves as one list that every command changes in one step.
Implements == L!Spec

\* No memory is kept twice, whoever adds, changes and restores it.
FileKept == L!Kept

\* Nothing is under way between the widget and the file.
Quiet == At(Widget, "off") /\ queue[Widget] = <<>> /\ ~unseen /\ ~settling

\* When all is quiet the widget shows, and sends to models, what the file
\* holds, whoever has changed it, but for a command that has failed and a
\* change whose stamp was that of the change before.
ShownIsStored == Quiet /\ ~excused /\ file # Unreadable => list[Widget] = file

\* A chat that is back has its memories back, however quick Undo was and
\* whatever was deleted and undone in between.
BackWithChat == Quiet /\ ~excused /\ file # Unreadable => \A m \in forgotten : m.chat \notin present

\* What a user sees and what a chat has, once all is quiet.
Settled == ShownIsStored /\ BackWithChat

=============================================================================
