------------------------------ MODULE MemoryList ------------------------------
(***************************************************************************)
(* What memory.json promises to everyone who changes it: a list that each  *)
(* command changes in one step, in which no memory is kept twice, and that *)
(* nobody overwrites once it cannot be read (kdeaichat/memory.py).  How    *)
(* helper processes keep that promise is Memory.                           *)
(***************************************************************************)
EXTENDS FiniteSets, Integers

CONSTANTS
    Ids, Texts, Chats,  \* ids and texts of memories, chats they may belong to
    All,                \* the scope of a memory of every chat
    Unreadable,         \* what is read of a file that cannot be
    MaxMemories         \* MAX_MEMORIES

VARIABLE memories

Memories == [id : Ids, text : Texts, chat : Chats \cup {All}]

\* _key: what makes two memories the same.
SameKey(a, b) == a.text = b.text /\ a.chat = b.chat

\* No memory is there twice, by its id or by what it says.
Single(L) == \A a, b \in L : a.id = b.id \/ SameKey(a, b) => a = b

Init == memories = {}

\* Memories are added to those there are, as long as there is room.
Add ==
    /\ memories # Unreadable /\ memories' # Unreadable
    /\ memories \subseteq memories' /\ memories' \subseteq Memories
    /\ Single(memories') /\ Cardinality(memories') <= MaxMemories

\* One is changed.
Update ==
    /\ memories # Unreadable /\ memories' # Unreadable
    /\ \E m \in memories, changed \in Memories :
         /\ changed.id = m.id
         /\ \A x \in memories \ {m} : ~SameKey(x, changed)
         /\ memories' = (memories \ {m}) \cup {changed}

\* Some go, the others stay as they are.
Delete == memories # Unreadable /\ memories' # Unreadable /\ memories' \subseteq memories

\* A full disk, a restored backup: no command makes the file readable again.
Damage == memories' = Unreadable

Next == Add \/ Update \/ Delete \/ Damage

Spec == Init /\ [][Next]_memories

\* No memory is kept twice, though several widgets may write at once: adding
\* twice is harmless (the head of kdeaichat/memory.py).
Kept == memories # Unreadable => memories \in SUBSET Memories /\ Single(memories)

=============================================================================
