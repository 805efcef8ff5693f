----------------------------- MODULE MemoryProofs -----------------------------
(***************************************************************************)
(* Memory keeps its types, keeps no memory twice, implements MemoryList    *)
(* and gives a chat that comes back its memories, for any number of        *)
(* stores, memories, chats and faults.                                     *)
(***************************************************************************)
EXTENDS Memory, FiniteSetTheorems, TLAPS

\* What is under way: a helper that has a command knows it, one that is about
\* to save holds the lock and has read the file as it still is.
InHand(s) ==
    /\ helper[s].pc \in {"start", "load", "save"} => helper[s].cmd \in CmdType
    /\ helper[s].pc \in {"load", "save"} => lock = s
    /\ helper[s].pc = "save" => helper[s].read = file /\ file # Unreadable

\* The inductive invariant.
IInv == TypeOK /\ FileKept /\ \A s \in Stores : InHand(s)

-----------------------------------------------------------------------------
(* The commands and what they do to a list.                                *)

\* A command built from typed parts is one.
LEMMA CommandsTyped ==
    ASSUME NEW items \in SUBSET Items, NEW m \in L!Memories, m # None,
           NEW ids \in SUBSET Ids, NEW cs \in SUBSET Chats
    PROVE  /\ List \in CmdType /\ AddOf(items) \in CmdType
           /\ UpdateTo(m) \in CmdType /\ DeleteOf(ids, cs) \in CmdType
BY DEF List, AddOf, UpdateTo, DeleteOf, CmdType

\* Memories are items that ask for their own ids.
LEMMA MemoriesAreItems == L!Memories \subseteq Items
BY DEF L!Memories, Items

\* A batch with its ids: no two have one, and none is an id of the list.
LEMMA NamedKept ==
    ASSUME NEW read \in SUBSET L!Memories, L!Single(read),
           NEW items \in SUBSET Items, NEW new \in Added(read, items),
           NEW f \in Names(read, new)
    PROVE  /\ Named(new, f) \in SUBSET L!Memories
           /\ L!Single(read \cup Named(new, f))
<1>. /\ new \in SUBSET Items
     /\ \A i, j \in new : L!SameKey(i, j) => i = j
     /\ \A i \in new, m \in read : ~L!SameKey(i, m)
  BY DEF Added, L!SameKey
<1>. /\ \A i \in new : f[i] \in Ids /\ \A m \in read : m.id # f[i]
     /\ \A i, j \in new : f[i] = f[j] => i = j
  BY DEF Names
<1>1. \A i \in new : /\ [i EXCEPT !.id = f[i]] \in L!Memories
                     /\ [i EXCEPT !.id = f[i]].id = f[i]
                     /\ [i EXCEPT !.id = f[i]].text = i.text
                     /\ [i EXCEPT !.id = f[i]].chat = i.chat
  BY DEF Items, L!Memories
<1>2. Named(new, f) \in SUBSET L!Memories
  BY <1>1 DEF Named
<1>3. ASSUME NEW a \in read \cup Named(new, f), NEW b \in read \cup Named(new, f),
             a.id = b.id \/ L!SameKey(a, b)
      PROVE  a = b
  <2>1. CASE a \in read /\ b \in read
    BY <1>3, <2>1 DEF L!Single
  <2>2. CASE a \in read /\ b \in Named(new, f)
    <3>1. PICK j \in new : b = [j EXCEPT !.id = f[j]]
      BY <2>2 DEF Named
    <3>. QED BY <1>1, <1>3, <2>2, <3>1 DEF L!SameKey
  <2>3. CASE a \in Named(new, f) /\ b \in read
    <3>1. PICK i \in new : a = [i EXCEPT !.id = f[i]]
      BY <2>3 DEF Named
    <3>. QED BY <1>1, <1>3, <2>3, <3>1 DEF L!SameKey
  <2>4. CASE a \in Named(new, f) /\ b \in Named(new, f)
    <3>1. PICK i \in new : a = [i EXCEPT !.id = f[i]]
      BY <2>4 DEF Named
    <3>2. PICK j \in new : b = [j EXCEPT !.id = f[j]]
      BY <2>4 DEF Named
    <3>3. i = j
      BY <1>1, <1>3, <3>1, <3>2 DEF L!SameKey
    <3>. QED BY <3>1, <3>2, <3>3
  <2>. QED BY <2>1, <2>2, <2>3, <2>4
<1>. QED BY <1>2, <1>3 DEF L!Single

\* Both modules count in the same way.
LEMMA SameCardinality == \A S : L!Cardinality(S) = Cardinality(S)
BY DEF L!Cardinality, Cardinality, L!IsFiniteSet, IsFiniteSet

\* The list does not outgrow the room there is.
LEMMA NamedSize ==
    ASSUME NEW read \in SUBSET L!Memories, NEW items \in SUBSET Items,
           NEW new \in Added(read, items), NEW f \in Names(read, new),
           Cardinality(read) + Cardinality(new) <= MaxMemories
    PROVE  Cardinality(read \cup Named(new, f)) <= MaxMemories
<1>1. IsFiniteSet(read) /\ IsFiniteSet(new)
  <2>1. read \in SUBSET Items /\ new \in SUBSET Items
    BY MemoriesAreItems DEF Added
  <2>. QED BY <2>1, FS_Subset, MemoryAssumption
<1> DEFINE g == [i \in new |-> [i EXCEPT !.id = f[i]]]
<1>2. g \in Surjection(new, Named(new, f))
  BY DEF Surjection, Named
<1>3. IsFiniteSet(Named(new, f)) /\ Cardinality(Named(new, f)) <= Cardinality(new)
  <2> HIDE DEF g
  <2>. QED BY <1>1, <1>2, FS_Surjection
<1>4. Cardinality(read \cup Named(new, f))
        = Cardinality(read) + Cardinality(Named(new, f)) - Cardinality(read \cap Named(new, f))
  BY <1>1, <1>3, FS_Union
<1>5. /\ Cardinality(read) \in Nat /\ Cardinality(new) \in Nat
      /\ Cardinality(Named(new, f)) \in Nat /\ Cardinality(read \cap Named(new, f)) \in Nat
  <2>1. IsFiniteSet(read \cap Named(new, f))
    BY <1>1, FS_Subset
  <2>. QED BY <1>1, <1>3, <2>1, FS_CardinalityType
<1>. QED BY <1>3, <1>4, <1>5, MemoryAssumption

\* A change that makes no double.
LEMMA ChangedKept ==
    ASSUME NEW read \in SUBSET L!Memories, L!Single(read), NEW m \in read,
           NEW other \in L!Memories, other.id = m.id,
           \A x \in read \ {m} : ~L!SameKey(x, other)
    PROVE  /\ (read \ {m}) \cup {other} \in SUBSET L!Memories
           /\ L!Single((read \ {m}) \cup {other})
BY DEF L!Single, L!SameKey

\* What remains of a list of which no memory is there twice.
LEMMA LessKept ==
    ASSUME NEW read \in SUBSET L!Memories, L!Single(read), NEW less \in SUBSET read
    PROVE  less \in SUBSET L!Memories /\ L!Single(less)
BY DEF L!Single

\* A typed list can be read.
LEMMA Readable == \A M \in SUBSET L!Memories : M # Unreadable
BY MemoryAssumption

-----------------------------------------------------------------------------
(* The invariant.                                                          *)

LEMMA InitInv == Init => IInv
<1>. SUFFICES ASSUME Init PROVE IInv
  OBVIOUS
<1>1. TypeOK
  <2>1. Off \in HelperType
    BY DEF Off, HelperType, PcType
  <2>2. queue \in [Stores -> Seq(CmdType)]
    BY DEF Init
  <2>. QED BY <2>1, <2>2 DEF Init, TypeOK
<1>2. FileKept
  BY DEF Init, FileKept, L!Kept, L!Single
<1>3. \A s \in Stores : InHand(s)
  BY DEF Init, InHand, Off
<1>. QED BY <1>1, <1>2, <1>3 DEF IInv

\* A helper goes on, others stay as they are.
LEMMA GoesTyped ==
    ASSUME TypeOK, NEW s \in Stores, NEW pc \in PcType, Goes(s, pc)
    PROVE  /\ helper' \in [Stores -> HelperType]
           /\ \A t \in Stores : helper'[t] = IF t = s THEN [helper[s] EXCEPT !.pc = pc] ELSE helper[t]
           /\ helper'[s].pc = pc /\ helper'[s].cmd = helper[s].cmd /\ helper'[s].read = helper[s].read
BY DEF TypeOK, HelperType, Goes

LEMMA QueuedTyped ==
    ASSUME TypeOK, NEW s \in Stores, NEW cmd \in CmdType, Queued(s, cmd)
    PROVE  queue' \in [Stores -> Seq(CmdType)]
BY DEF TypeOK, Queued

\* What the steps that leave the file, the lock and the helpers alone keep.
LEMMA AtRest ==
    ASSUME IInv, UNCHANGED <<file, lock, helper>>
    PROVE  FileKept' /\ \A s \in Stores : InHand(s)'
BY DEF IInv, FileKept, L!Kept, InHand

\* What a helper that holds the lock and finishes keeps.
LEMMA HandedOver ==
    ASSUME IInv, NEW s \in Stores, lock = s, lock' = None,
           helper' \in [Stores -> HelperType],
           \A t \in Stores \ {s} : helper'[t] = helper[t],
           helper'[s].pc \notin {"start", "load", "save"}
    PROVE  \A t \in Stores : InHand(t)'
BY MemoryAssumption DEF IInv, InHand

\* A helper that has read the list, or has its answer.
LEMMA KnowsTyped ==
    ASSUME TypeOK, NEW s \in Stores, NEW pc \in PcType,
           NEW read \in SUBSET L!Memories, NEW deleted \in SUBSET L!Memories, Knows(s, pc, read, deleted)
    PROVE  /\ helper' \in [Stores -> HelperType]
           /\ \A t \in Stores \ {s} : helper'[t] = helper[t]
           /\ helper'[s].pc = pc /\ helper'[s].cmd = helper[s].cmd /\ helper'[s].read = read
BY DEF TypeOK, HelperType, Knows

\* The answer of a command.
LEMMA AnswersTyped ==
    ASSUME TypeOK, NEW s \in Stores, NEW read \in SUBSET L!Memories, NEW deleted \in SUBSET L!Memories,
           Answers(s, read, deleted)
    PROVE  /\ helper' \in [Stores -> HelperType]
           /\ \A t \in Stores \ {s} : helper'[t] = helper[t]
           /\ helper'[s].pc = "print" /\ lock' = None
           /\ UNCHANGED <<queue, list, present, removed>>
<1>1. "print" \in PcType
  BY DEF PcType
<1>. QED BY <1>1, KnowsTyped DEF Answers, storeVars, chatVars

\* The step of a helper that saves a typed list in which no memory is twice.
LEMMA SaveInv ==
    ASSUME IInv, NEW s \in Stores, helper[s].pc = "save",
           NEW to \in SUBSET L!Memories, L!Single(to), NEW deleted \in SUBSET L!Memories,
           file' = to, forgotten' \in SUBSET L!Memories, Stamped, UNCHANGED settling,
           Answers(s, to, deleted)
    PROVE  IInv'
<1>1. lock = s
  BY DEF IInv, InHand
<1>2. /\ helper' \in [Stores -> HelperType]
      /\ \A t \in Stores \ {s} : helper'[t] = helper[t]
      /\ helper'[s].pc = "print" /\ lock' = None
      /\ UNCHANGED <<queue, list, present, removed>>
  BY AnswersTyped DEF IInv
<1>3. TypeOK'
  BY <1>2 DEF IInv, TypeOK, Stamped, Spend
<1>4. FileKept'
  BY DEF FileKept, L!Kept, L!Single
<1>5. \A t \in Stores : InHand(t)'
  BY <1>1, <1>2, HandedOver
<1>. QED BY <1>3, <1>4, <1>5 DEF IInv

\* A command that fails holds no lock and changes nothing.
LEMMA FailsInv ==
    ASSUME IInv, NEW s \in Stores, Goes(s, "failed"), lock' = (IF lock = s THEN None ELSE lock),
           excused' \in BOOLEAN,
           UNCHANGED <<file, queue, list, present, removed, unseen, settling, forgotten>>
    PROVE  IInv'
<1>1. /\ helper' \in [Stores -> HelperType]
      /\ \A t \in Stores : helper'[t] = IF t = s THEN [helper[s] EXCEPT !.pc = "failed"] ELSE helper[t]
      /\ helper'[s].pc = "failed"
  BY GoesTyped DEF IInv, PcType
<1>2. TypeOK'
  BY <1>1 DEF IInv, TypeOK
<1>3. FileKept'
  BY DEF IInv, FileKept, L!Kept
<1>4. \A t \in Stores : InHand(t)'
  BY <1>1, MemoryAssumption DEF IInv, InHand
<1>. QED BY <1>2, <1>3, <1>4 DEF IInv

\* The list that a helper which is about to save has read.
LEMMA ReadKept ==
    ASSUME IInv, NEW s \in Stores, helper[s].pc = "save"
    PROVE  /\ helper[s].read = file /\ file \in SUBSET L!Memories /\ L!Single(file)
           /\ file # Unreadable /\ lock = s /\ helper[s].cmd \in CmdType
BY DEF IInv, InHand, TypeOK, FileKept, L!Kept

\* A batch leaves a list as MemoryList's Add does.
LEMMA AddStep ==
    ASSUME IInv, NEW s \in Stores, cmd_memory_add(s)
    PROVE  IInv' /\ (file' = file \/ L!Add)
<1> DEFINE read == helper[s].read
<1>1. /\ read = file /\ file \in SUBSET L!Memories /\ L!Single(file)
      /\ file # Unreadable /\ lock = s /\ helper[s].cmd.items \in SUBSET Items
      /\ helper[s].pc = "save"
  BY ReadKept DEF cmd_memory_add, At, CmdType
<1>2. PICK new \in Added(read, helper[s].cmd.items) :
         \/ new = {} /\ Answers(s, read, {}) /\ UNCHANGED <<file, watchVars, forgotten, excused, budget>>
         \/ /\ new # {} /\ Cardinality(read) + Cardinality(new) <= MaxMemories
            /\ \E f \in Names(read, new) :
                 _save(s, read \cup Named(new, f)) /\ Answers(s, read \cup Named(new, f), {})
         \/ new # {} /\ Cardinality(read) + Cardinality(new) > MaxMemories /\ Refuses(s)
  BY DEF cmd_memory_add
<1>3. CASE Answers(s, read, {}) /\ UNCHANGED <<file, watchVars, forgotten, excused, budget>>
  <2>1. /\ helper' \in [Stores -> HelperType]
        /\ \A t \in Stores \ {s} : helper'[t] = helper[t]
        /\ helper'[s].pc = "print" /\ lock' = None
        /\ UNCHANGED <<queue, list, present, removed>>
    BY <1>1, <1>3, AnswersTyped DEF IInv
  <2>2. TypeOK' /\ FileKept'
    BY <1>3, <2>1 DEF IInv, TypeOK, watchVars, FileKept, L!Kept
  <2>3. \A t \in Stores : InHand(t)'
    BY <1>1, <2>1, HandedOver
  <2>. QED BY <1>3, <2>2, <2>3 DEF IInv
<1>4. CASE /\ Cardinality(read) + Cardinality(new) <= MaxMemories
           /\ \E f \in Names(read, new) :
                _save(s, read \cup Named(new, f)) /\ Answers(s, read \cup Named(new, f), {})
  <2>1. PICK f \in Names(read, new) :
           _save(s, read \cup Named(new, f)) /\ Answers(s, read \cup Named(new, f), {})
    BY <1>4
  <2> DEFINE to == read \cup Named(new, f)
  <2>2. to \in SUBSET L!Memories /\ L!Single(to)
    BY <1>1, NamedKept
  <2>3. Cardinality(to) <= MaxMemories
    BY <1>1, <1>4, NamedSize
  <2>4. /\ file' = to /\ forgotten' \in SUBSET L!Memories /\ Stamped /\ UNCHANGED settling
    BY <2>1 DEF _save, IInv, TypeOK
  <2>5. Answers(s, to, {})
    BY <2>1
  <2>6. read \subseteq to
    OBVIOUS
  <2> HIDE DEF to
  <2>7. IInv'
    BY <1>1, <2>2, <2>4, <2>5, SaveInv
  <2>8. /\ file' \in SUBSET L!Memories /\ file' # Unreadable /\ file \subseteq file'
        /\ L!Single(file') /\ Cardinality(file') <= MaxMemories
    BY <1>1, <2>2, <2>3, <2>4, <2>6, Readable
  <2>9. L!Add
    BY <1>1, <2>8, SameCardinality DEF L!Add
  <2>. QED BY <2>7, <2>9
<1>5. CASE Refuses(s)
  <2>1. IInv'
    BY <1>1, <1>5, FailsInv DEF Refuses, storeVars, chatVars, watchVars
  <2>. QED BY <1>5, <2>1 DEF Refuses
<1>. QED BY <1>2, <1>3, <1>4, <1>5

\* A change leaves a list as MemoryList's Update does.
LEMMA UpdateStep ==
    ASSUME IInv, NEW s \in Stores, cmd_memory_update(s)
    PROVE  IInv' /\ (file' = file \/ L!Update)
<1> DEFINE read == helper[s].read
           changedTo == helper[s].cmd.changed
           target == {m \in read : m.id = changedTo.id}
           double == \E m \in read \ target : L!SameKey(m, changedTo)
<1>1. /\ read = file /\ file \in SUBSET L!Memories /\ L!Single(file)
      /\ file # Unreadable /\ lock = s /\ changedTo \in L!Memories
      /\ helper[s].pc = "save"
  BY ReadKept DEF cmd_memory_update, At, CmdType
<1>2. CASE target = {} \/ double
  <2>1. Refuses(s)
    BY <1>2 DEF cmd_memory_update
  <2>2. IInv'
    BY <1>1, <2>1, FailsInv DEF Refuses, storeVars, chatVars, watchVars
  <2>. QED BY <2>1, <2>2 DEF Refuses
<1>3. CASE ~(target = {} \/ double)
  <2>1. PICK m \in target : /\ _save(s, (read \ {m}) \cup {changedTo})
                            /\ Answers(s, (read \ {m}) \cup {changedTo}, {})
    BY <1>3 DEF cmd_memory_update
  <2>2. m \in read /\ changedTo.id = m.id
    OBVIOUS
  <2>3. \A x \in read \ {m} : ~L!SameKey(x, changedTo)
    <3>1. \A x \in target : x = m
      BY <1>1, <2>2 DEF L!Single
    <3>. QED BY <1>3, <3>1
  <2> DEFINE to == (read \ {m}) \cup {changedTo}
  <2>4. to \in SUBSET L!Memories /\ L!Single(to)
    BY <1>1, <2>2, <2>3, ChangedKept
  <2>5. file' = to /\ forgotten' \in SUBSET L!Memories /\ Stamped /\ UNCHANGED settling
    BY <2>1 DEF _save, IInv, TypeOK
  <2>6. Answers(s, to, {})
    BY <2>1
  <2>7. L!Update
    BY <1>1, <2>2, <2>3, <2>4, <2>5, Readable DEF L!Update
  <2> HIDE DEF to
  <2>8. IInv'
    BY <1>1, <2>4, <2>5, <2>6, SaveInv
  <2>. QED BY <2>7, <2>8
<1>. QED BY <1>2, <1>3

\* A removal leaves a list as MemoryList's Delete does.
LEMMA DeleteStep ==
    ASSUME IInv, NEW s \in Stores, cmd_memory_delete(s)
    PROVE  IInv' /\ (file' = file \/ L!Delete)
<1> DEFINE read == helper[s].read
           doomed == Doomed(read, helper[s].cmd)
           to == read \ doomed
<1>1. /\ read = file /\ file \in SUBSET L!Memories /\ L!Single(file)
      /\ file # Unreadable /\ lock = s /\ helper[s].pc = "save"
  BY ReadKept DEF cmd_memory_delete, At
<1>2. doomed \in SUBSET L!Memories /\ to \in SUBSET read
  BY <1>1 DEF Doomed
<1>3. to \in SUBSET L!Memories /\ L!Single(to)
  BY <1>1, <1>2, LessKept
<1>4. Answers(s, to, doomed)
  BY DEF cmd_memory_delete
<1>5. CASE doomed = {}
  <2>1. UNCHANGED <<file, watchVars, forgotten, excused, budget>>
    BY <1>5 DEF cmd_memory_delete
  <2>2. /\ helper' \in [Stores -> HelperType]
        /\ \A t \in Stores \ {s} : helper'[t] = helper[t]
        /\ helper'[s].pc = "print" /\ lock' = None
        /\ UNCHANGED <<queue, list, present, removed>>
    <3> HIDE DEF to, doomed
    <3>. QED BY <1>2, <1>3, <1>4, AnswersTyped DEF IInv
  <2>3. TypeOK' /\ FileKept'
    BY <2>1, <2>2 DEF IInv, TypeOK, watchVars, FileKept, L!Kept
  <2>4. \A t \in Stores : InHand(t)'
    BY <1>1, <2>2, HandedOver
  <2>. QED BY <2>1, <2>3, <2>4 DEF IInv
<1>6. CASE doomed # {}
  <2>1. /\ file' = to /\ Stamped /\ UNCHANGED settling
        /\ forgotten' = forgotten \cup {m \in doomed : m.chat \in helper[s].cmd.chats}
    BY <1>6 DEF cmd_memory_delete
  <2>2. forgotten' \in SUBSET L!Memories
    BY <1>2, <2>1 DEF IInv, TypeOK
  <2> HIDE DEF to, doomed
  <2>3. IInv'
    BY <1>1, <1>2, <1>3, <1>4, <2>1, <2>2, SaveInv
  <2>4. L!Delete
    BY <1>1, <1>2, <1>3, <2>1, Readable DEF L!Delete
  <2>. QED BY <2>3, <2>4
<1>. QED BY <1>5, <1>6

-----------------------------------------------------------------------------
(* Every step keeps the invariant, and the file changes as a list does.    *)

\* A step that leaves the file and the lock alone, with the helpers' pcs as
\* they may go without reading it.
LEMMA OtherInv ==
    ASSUME IInv, UNCHANGED <<file, lock>>, helper' \in [Stores -> HelperType],
           \A t \in Stores : \/ helper'[t] = helper[t]
                             \/ helper'[t].pc \in {"off", "print", "failed"}
                             \/ helper'[t].pc = "start" /\ helper'[t].cmd \in CmdType,
           queue' \in [Stores -> Seq(CmdType)], list' \in [Stores -> SUBSET L!Memories],
           present' \subseteq Chats, removed' \in [Chats -> SUBSET L!Memories],
           unseen' \in BOOLEAN, settling' \in BOOLEAN, excused' \in BOOLEAN,
           forgotten' \subseteq L!Memories
    PROVE  IInv'
<1>1. TypeOK'
  BY DEF IInv, TypeOK
<1>2. FileKept'
  BY DEF IInv, FileKept, L!Kept
<1>3. \A t \in Stores : InHand(t)'
  BY DEF IInv, InHand
<1>. QED BY <1>1, <1>2, <1>3 DEF IInv

\* What the widget has kept of removed memories comes back as a batch of items.
LEMMA RestoreTyped ==
    ASSUME IInv, NEW gone \in [Chats -> SUBSET L!Memories], NEW now \in SUBSET Chats, Restore(gone, now)
    PROVE  removed' \in [Chats -> SUBSET L!Memories] /\ queue' \in [Stores -> Seq(CmdType)]
<1>1. Back(gone, now) \in SUBSET Items
  BY MemoriesAreItems DEF Back
<1>2. AddOf(Back(gone, now)) \in CmdType
  BY <1>1 DEF AddOf, List, CmdType
<1>3. queue' \in [Stores -> Seq(CmdType)]
  BY <1>2, MemoryAssumption, QueuedTyped DEF Restore, IInv, TypeOK
<1>. QED BY <1>3 DEF Restore

LEMMA HelperSteps ==
    ASSUME IInv, NEW s \in Stores, HelperStep(s)
    PROVE  IInv' /\ (file' = file \/ L!Next)
<1>1. CASE _next(s)
  <2>1. Head(queue[s]) \in CmdType /\ Tail(queue[s]) \in Seq(CmdType)
    BY <1>1 DEF _next, IInv, TypeOK
  <2> DEFINE h == [Off EXCEPT !.pc = "start", !.cmd = Head(queue[s])]
  <2>2. h \in HelperType /\ h.pc = "start" /\ h.cmd = Head(queue[s])
    BY <2>1 DEF Off, HelperType, PcType
  <2>3. helper' = [helper EXCEPT ![s] = h] /\ queue' = [queue EXCEPT ![s] = Tail(queue[s])]
    BY <1>1 DEF _next, IInv, TypeOK
  <2> HIDE DEF h
  <2>4. IInv'
    <3>1. helper' \in [Stores -> HelperType] /\ queue' \in [Stores -> Seq(CmdType)]
      BY <2>1, <2>2, <2>3 DEF IInv, TypeOK
    <3>2. \A t \in Stores : helper'[t] = helper[t] \/ (helper'[t].pc = "start" /\ helper'[t].cmd \in CmdType)
      BY <2>1, <2>2, <2>3 DEF IInv, TypeOK
    <3>. QED BY <1>1, <3>1, <3>2, OtherInv DEF _next, IInv, TypeOK, chatVars, watchVars
  <2>. QED BY <1>1, <2>4 DEF _next
<1>2. CASE cmd_memory_list(s)
  <2>1. CASE file = Unreadable
    <3>1. Goes(s, "failed") /\ "failed" \in PcType
      BY <1>2, <2>1 DEF cmd_memory_list, PcType
    <3>2. /\ helper' \in [Stores -> HelperType]
          /\ \A t \in Stores : helper'[t] = helper[t] \/ helper'[t].pc = "failed"
      BY <3>1, GoesTyped DEF IInv
    <3>3. IInv'
      BY <1>2, <3>2, OtherInv DEF cmd_memory_list, IInv, TypeOK, storeVars, chatVars, watchVars
    <3>. QED BY <1>2, <3>3 DEF cmd_memory_list
  <2>2. CASE file # Unreadable
    <3>1. Knows(s, "print", file, {}) /\ "print" \in PcType /\ file \in SUBSET L!Memories
      BY <1>2, <2>2 DEF cmd_memory_list, PcType, IInv, TypeOK
    <3>2. /\ helper' \in [Stores -> HelperType]
          /\ \A t \in Stores : helper'[t] = helper[t] \/ helper'[t].pc = "print"
      BY <3>1, KnowsTyped DEF IInv
    <3>3. IInv'
      BY <1>2, <3>2, OtherInv DEF cmd_memory_list, IInv, TypeOK, storeVars, chatVars, watchVars
    <3>. QED BY <1>2, <3>3 DEF cmd_memory_list
  <2>. QED BY <2>1, <2>2
<1>3. CASE _locked(s)
  <2>1. Goes(s, "load") /\ "load" \in PcType /\ lock = None /\ lock' = s /\ helper[s].pc = "start"
    BY <1>3 DEF _locked, PcType, Free, At
  <2>2. /\ helper' \in [Stores -> HelperType]
        /\ \A t \in Stores : helper'[t] = IF t = s THEN [helper[s] EXCEPT !.pc = "load"] ELSE helper[t]
        /\ helper'[s].pc = "load" /\ helper'[s].cmd = helper[s].cmd
    BY <2>1, GoesTyped DEF IInv
  <2>3. TypeOK' /\ FileKept'
    BY <1>3, <2>1, <2>2 DEF _locked, IInv, TypeOK, FileKept, L!Kept, storeVars, chatVars, watchVars
  <2>4. \A t \in Stores : InHand(t)'
    BY <1>3, <2>1, <2>2, MemoryAssumption DEF _locked, IInv, InHand
  <2>. QED BY <1>3, <2>3, <2>4 DEF _locked, IInv
<1>4. CASE load(s)
  <2>1. lock = s /\ helper[s].cmd \in CmdType
    BY <1>4 DEF load, At, IInv, InHand
  <2>2. CASE file = Unreadable
    <3>1. IInv'
      BY <1>4, <2>1, <2>2, FailsInv DEF load, IInv, TypeOK, storeVars, chatVars, watchVars
    <3>. QED BY <1>4, <3>1 DEF load
  <2>3. CASE file # Unreadable
    <3>1. /\ Knows(s, "save", file, {}) /\ "save" \in PcType
          /\ file \in SUBSET L!Memories /\ UNCHANGED <<file, lock>>
      BY <1>4, <2>3 DEF load, PcType, IInv, TypeOK
    <3>2. /\ helper' \in [Stores -> HelperType]
          /\ \A t \in Stores \ {s} : helper'[t] = helper[t]
          /\ helper'[s].pc = "save" /\ helper'[s].cmd = helper[s].cmd /\ helper'[s].read = file
      BY <3>1, KnowsTyped DEF IInv
    <3>3. TypeOK' /\ FileKept'
      BY <1>4, <3>1, <3>2 DEF load, IInv, TypeOK, FileKept, L!Kept, storeVars, chatVars, watchVars
    <3>4. \A t \in Stores : InHand(t)'
      BY <2>1, <2>3, <3>1, <3>2 DEF IInv, InHand
    <3>. QED BY <3>1, <3>3, <3>4 DEF IInv
  <2>. QED BY <2>2, <2>3
<1>5. CASE cmd_memory_add(s)
  BY <1>5, AddStep DEF L!Next
<1>6. CASE cmd_memory_update(s)
  BY <1>6, UpdateStep DEF L!Next
<1>7. CASE cmd_memory_delete(s)
  BY <1>7, DeleteStep DEF L!Next
<1>8. CASE Answered(s)
  <2> DEFINE h == helper[s]
             gone == [c \in Chats |-> IF c \in h.cmd.chats THEN h.deleted ELSE removed[c]]
  <2>1. /\ helper' = [helper EXCEPT ![s] = Off] /\ list' = [list EXCEPT ![s] = h.read]
        /\ forgotten' \in SUBSET forgotten
        /\ UNCHANGED <<file, lock, present, watchVars, excused>>
    BY <1>8 DEF Answered
  <2>2. removed' \in [Chats -> SUBSET L!Memories] /\ queue' \in [Stores -> Seq(CmdType)]
    <3>1. CASE h.deleted # {} /\ h.cmd.chats # {}
      <4>1. Restore(gone, present)
        BY <1>8, <3>1 DEF Answered
      <4>2. gone \in [Chats -> SUBSET L!Memories]
        BY DEF IInv, TypeOK, HelperType
      <4> HIDE DEF gone
      <4>. QED BY <4>1, <4>2, RestoreTyped DEF IInv, TypeOK
    <3>2. CASE ~(h.deleted # {} /\ h.cmd.chats # {})
      <4>1. UNCHANGED <<queue, removed>>
        BY <1>8, <3>2 DEF Answered
      <4>. QED BY <4>1 DEF IInv, TypeOK
    <3>. QED BY <3>1, <3>2
  <2>3. Off \in HelperType /\ Off.pc = "off"
    BY DEF Off, HelperType, PcType
  <2>4. /\ helper' \in [Stores -> HelperType]
        /\ \A t \in Stores : helper'[t] = helper[t] \/ helper'[t].pc = "off"
    BY <2>1, <2>3 DEF IInv, TypeOK
  <2>5. list' \in [Stores -> SUBSET L!Memories]
    BY <2>1 DEF IInv, TypeOK, HelperType
  <2>6. IInv'
    BY <2>1, <2>2, <2>4, <2>5, OtherInv DEF IInv, TypeOK, watchVars
  <2>. QED BY <2>1, <2>6
<1>9. CASE Failed(s)
  <2>1. Off \in HelperType /\ Off.pc = "off"
    BY DEF Off, HelperType, PcType
  <2>2. /\ helper' \in [Stores -> HelperType]
        /\ \A t \in Stores : helper'[t] = helper[t] \/ helper'[t].pc = "off"
    BY <1>9, <2>1 DEF Failed, IInv, TypeOK
  <2>3. IInv'
    BY <1>9, <2>2, OtherInv DEF Failed, IInv, TypeOK, storeVars, chatVars, watchVars
  <2>. QED BY <1>9, <2>3 DEF Failed
<1>. QED BY <1>1, <1>2, <1>3, <1>4, <1>5, <1>6, <1>7, <1>8, <1>9 DEF HelperStep

LEMMA UserSteps ==
    ASSUME IInv, UserStep
    PROVE  IInv' /\ file' = file
<1>1. ASSUME NEW s \in Stores, UserAdds(s) PROVE IInv' /\ file' = file
  <2>1. PICK t \in Texts, c \in present \cup {All} :
           Queued(s, AddOf({[id |-> None, text |-> t, chat |-> c]}))
    BY <1>1 DEF UserAdds
  <2>2. {[id |-> None, text |-> t, chat |-> c]} \in SUBSET Items
    BY DEF Items, IInv, TypeOK
  <2>3. AddOf({[id |-> None, text |-> t, chat |-> c]}) \in CmdType
    BY <2>2 DEF AddOf, List, CmdType
  <2>4. queue' \in [Stores -> Seq(CmdType)]
    BY <2>1, <2>3, QueuedTyped DEF IInv
  <2>5. IInv'
    BY <1>1, <2>4, OtherInv DEF UserAdds, IInv, TypeOK, chatVars, watchVars
  <2>. QED BY <1>1, <2>5 DEF UserAdds
<1>2. ASSUME NEW s \in Stores, UserChanges(s) PROVE IInv' /\ file' = file
  <2>1. PICK m \in list[s], t \in Texts, c \in present \cup {All} :
           Queued(s, UpdateTo([m EXCEPT !.text = t, !.chat = c]))
    BY <1>2 DEF UserChanges
  <2>2. m \in L!Memories /\ c \in Chats \cup {All}
    BY DEF IInv, TypeOK
  <2>3. [m EXCEPT !.text = t, !.chat = c] \in L!Memories
    BY <2>2 DEF L!Memories
  <2>4. [m EXCEPT !.text = t, !.chat = c] # None
    BY <2>3, MemoryAssumption
  <2>5. UpdateTo([m EXCEPT !.text = t, !.chat = c]) \in CmdType
    BY <2>3, <2>4, CommandsTyped
  <2>6. queue' \in [Stores -> Seq(CmdType)]
    BY <2>1, <2>5, QueuedTyped DEF IInv
  <2>7. IInv'
    BY <1>2, <2>6, OtherInv DEF UserChanges, IInv, TypeOK, chatVars, watchVars
  <2>. QED BY <1>2, <2>7 DEF UserChanges
<1>3. ASSUME NEW s \in Stores, UserRemoves(s) PROVE IInv' /\ file' = file
  <2>1. PICK m \in list[s] : Queued(s, DeleteOf({m.id}, {}))
    BY <1>3 DEF UserRemoves
  <2>2. m.id \in Ids
    BY DEF IInv, TypeOK, L!Memories
  <2>3. DeleteOf({m.id}, {}) \in CmdType
    BY <2>2 DEF DeleteOf, List, CmdType
  <2>4. queue' \in [Stores -> Seq(CmdType)]
    BY <2>1, <2>3, QueuedTyped DEF IInv
  <2>5. IInv'
    BY <1>3, <2>4, OtherInv DEF UserRemoves, IInv, TypeOK, chatVars, watchVars
  <2>. QED BY <1>3, <2>5 DEF UserRemoves
<1>4. ASSUME NEW s \in Stores, Killed(s) PROVE IInv' /\ file' = file
  <2>1. IInv'
    BY <1>4, FailsInv DEF Killed, storeVars, chatVars, watchVars
  <2>. QED BY <1>4, <2>1 DEF Killed
<1>5. ASSUME NEW c \in Chats, DeleteChat(c) PROVE IInv' /\ file' = file
  <2>1. DeleteOf({}, {c}) \in CmdType
    BY DEF DeleteOf, List, CmdType
  <2>2. queue' \in [Stores -> Seq(CmdType)]
    BY <1>5, <2>1, QueuedTyped, MemoryAssumption DEF DeleteChat, IInv
  <2>3. IInv'
    BY <1>5, <2>2, OtherInv DEF DeleteChat, IInv, TypeOK, watchVars
  <2>. QED BY <1>5, <2>3 DEF DeleteChat
<1>6. ASSUME NEW c \in Chats, UndoDelete(c) PROVE IInv' /\ file' = file
  <2>1. present' \in SUBSET Chats /\ Restore(removed, present')
    BY <1>6 DEF UndoDelete, IInv, TypeOK
  <2>2. removed' \in [Chats -> SUBSET L!Memories] /\ queue' \in [Stores -> Seq(CmdType)]
    BY <2>1, RestoreTyped DEF IInv, TypeOK
  <2>3. IInv'
    BY <1>6, <2>1, <2>2, OtherInv DEF UndoDelete, IInv, TypeOK, watchVars
  <2>. QED BY <1>6, <2>3 DEF UndoDelete
<1>. QED BY <1>1, <1>2, <1>3, <1>4, <1>5, <1>6 DEF UserStep

LEMMA WatchSteps ==
    ASSUME IInv, _check \/ changed
    PROVE  IInv' /\ file' = file
<1>1. CASE _check
  <2>1. IInv'
    BY <1>1, OtherInv DEF _check, IInv, TypeOK, storeVars, chatVars
  <2>. QED BY <1>1, <2>1 DEF _check
<1>2. CASE changed
  <2>1. List \in CmdType
    BY DEF List, CmdType
  <2>2. queue' \in [Stores -> Seq(CmdType)]
    BY <1>2, <2>1, QueuedTyped, MemoryAssumption DEF changed, IInv, TypeOK
  <2>3. IInv'
    BY <1>2, <2>2, OtherInv DEF changed, IInv, TypeOK, chatVars
  <2>. QED BY <1>2, <2>3 DEF changed
<1>. QED BY <1>1, <1>2

LEMMA DamageStep ==
    ASSUME IInv, Damaged
    PROVE  IInv' /\ L!Damage
<1>1. TypeOK' /\ FileKept'
  BY DEF Damaged, IInv, TypeOK, storeVars, chatVars, FileKept, L!Kept
<1>2. \A s \in Stores : InHand(s)'
  BY MemoryAssumption DEF Damaged, IInv, InHand
<1>. QED BY <1>1, <1>2 DEF Damaged, IInv, L!Damage

\* The induction step, and the step of the list that each step is.
LEMMA NextInv == IInv /\ [Next]_vars => IInv' /\ [L!Next]_file
<1>. SUFFICES ASSUME IInv, [Next]_vars PROVE IInv' /\ [L!Next]_file
  OBVIOUS
<1>1. CASE \E s \in Stores : HelperStep(s)
  BY <1>1, HelperSteps
<1>2. CASE UserStep
  BY <1>2, UserSteps
<1>3. CASE _check \/ changed
  BY <1>3, WatchSteps
<1>4. CASE Damaged
  BY <1>4, DamageStep DEF L!Next
<1>5. CASE UNCHANGED vars
  <2>1. IInv'
    BY <1>5, OtherInv DEF vars, storeVars, chatVars, watchVars, IInv, TypeOK
  <2>. QED BY <1>5, <2>1 DEF vars
<1>. QED BY <1>1, <1>2, <1>3, <1>4, <1>5 DEF Next

\* Whatever users do, and whenever helpers are killed: what is stored, what
\* is shown and what is asked for are memories and commands (memory.py,
\* MemoryStore.qml).
THEOREM MemoryTyped == Spec => []TypeOK
<1>1. IInv => TypeOK
  BY DEF IInv
<1>. QED BY <1>1, InitInv, NextInv, PTL DEF Spec

\* No memory is kept twice, by its id or by what it says, however many
\* widgets and settings pages change the file at once: a helper saves only
\* what it has read under the lock (_locked, cmd_memory_add).
THEOREM NoneTwice == Spec => []FileKept
<1>1. IInv => FileKept
  BY DEF IInv
<1>. QED BY <1>1, InitInv, NextInv, PTL DEF Spec

\* The file behaves as one list that every command changes in one step, and
\* is never written again once it cannot be read.
THEOREM OneList == Spec => Implements
<1>1. Init => L!Init
  BY DEF Init, L!Init
<1>. QED BY <1>1, InitInv, NextInv, PTL DEF Spec, Implements, L!Spec

-----------------------------------------------------------------------------
(* What the widget shows, and what becomes of the memories of its chats.   *)

UnderWay == {"start", "load", "save"}

\* No command has failed, and the watcher sees what changes.
Well == ~excused /\ file # Unreadable

Restores(cmd, m) == cmd.do = "add" /\ m \in cmd.items

\* Where a forgotten memory is: kept for Undo, in the answer to _forget, or
\* on its way back.
Pending(m) ==
    \/ m.chat \notin present /\ m \in removed[m.chat]
    \/ At(Widget, "print") /\ m \in helper[Widget].deleted /\ m.chat \in helper[Widget].cmd.chats
    \/ helper[Widget].pc \in UnderWay /\ Restores(helper[Widget].cmd, m)
    \/ \E k \in DOMAIN queue[Widget] : Restores(queue[Widget][k], m)

Absent(m) == file # Unreadable => \A x \in file : ~L!SameKey(m, x)

Gone == \A m \in forgotten : m.chat \in Chats /\ (Well => Pending(m) /\ Absent(m))

\* The widget shows the file, or a list of it is still to come.
Shown ==
    Well => \/ unseen \/ settling \/ queue[Widget] # <<>> \/ helper[Widget].pc \in UnderWay
            \/ At(Widget, "print") /\ helper[Widget].read = file
            \/ At(Widget, "off") /\ list[Widget] = file

\* Only the widget takes memories away with their chats.
OnlyWidget ==
    \A s \in Stores \ {Widget} :
        /\ \A k \in DOMAIN queue[s] : queue[s][k].chats = {}
        /\ helper[s].pc \in UnderWay \cup {"print"} => helper[s].cmd.chats = {}

Excused == At(Widget, "failed") => ~Well

\* With IInv, inductive.
SInv == Gone /\ Shown /\ Excused

\* Once a command has failed or the file is damaged, so it stays.
LEMMA WellBefore == IInv /\ [Next]_vars => (Well' => Well)
<1>. SUFFICES ASSUME IInv, [Next]_vars, Well' PROVE Well
  OBVIOUS
<1>1. file # Unreadable
  BY NextInv DEF Well, L!Next, L!Add, L!Update, L!Delete, L!Damage
<1>2. excused => excused'
  <2>1. ASSUME NEW s \in Stores, HelperStep(s) PROVE excused => excused'
    <3>1. CASE cmd_memory_add(s)
      BY <3>1 DEF cmd_memory_add, _save, Stamped, Refuses
    <3>2. CASE cmd_memory_update(s)
      BY <3>2 DEF cmd_memory_update, _save, Stamped, Refuses
    <3>3. CASE cmd_memory_delete(s)
      BY <3>3 DEF cmd_memory_delete, Stamped
    <3>4. CASE _next(s) \/ cmd_memory_list(s) \/ _locked(s) \/ load(s) \/ Answered(s) \/ Failed(s)
      BY <3>4 DEF _next, cmd_memory_list, _locked, load, Answered, Failed
    <3>. QED BY <2>1, <3>1, <3>2, <3>3, <3>4 DEF HelperStep
  <2>2. UserStep => (excused => excused')
    BY DEF UserStep, UserAdds, UserChanges, UserRemoves, Killed, DeleteChat, UndoDelete
  <2>. QED BY <2>1, <2>2 DEF Next, _check, changed, Damaged, vars
<1>. QED BY <1>1, <1>2 DEF Well

\* A step that lets the widget's helper and list be, and takes from its queue nothing.
LEMMA Still ==
    ASSUME IInv, SInv, Well' => Well, UNCHANGED <<file, removed>>,
           forgotten' \subseteq forgotten, present' \subseteq present,
           helper'[Widget] = helper[Widget], list'[Widget] = list[Widget],
           queue'[Widget] = queue[Widget] \/ \E cmd \in CmdType : queue'[Widget] = Append(queue[Widget], cmd),
           unseen \/ settling => unseen' \/ settling' \/ queue'[Widget] # <<>>
    PROVE  SInv'
<1>1. queue[Widget] \in Seq(CmdType)
  BY MemoryAssumption DEF IInv, TypeOK
<1>2. /\ \A k \in DOMAIN queue[Widget] : k \in DOMAIN queue'[Widget] /\ queue'[Widget][k] = queue[Widget][k]
      /\ queue[Widget] # <<>> => queue'[Widget] # <<>>
  BY <1>1
<1>3. ASSUME NEW m \in forgotten', Well' PROVE Pending(m)' /\ Absent(m)'
  <2>1. Pending(m) /\ Absent(m)
    BY <1>3 DEF SInv, Gone
  <2>2. Pending(m)'
    BY <1>2, <2>1 DEF Pending, At
  <2>. QED BY <2>1, <2>2 DEF Absent
<1>4. Gone'
  BY <1>3 DEF SInv, Gone
<1>5. Shown' /\ Excused'
  BY <1>2 DEF SInv, Shown, Excused, At
<1>. QED BY <1>4, <1>5 DEF SInv

\* A step after which nothing is promised any more.
LEMMA Spoilt ==
    ASSUME \A m \in forgotten' : m.chat \in Chats, ~Well'
    PROVE  SInv'
BY DEF SInv, Gone, Shown, Excused

\* Where the chats of forgotten memories are known from.
LEMMA ForgottenChats == ASSUME SInv PROVE \A m \in forgotten : m.chat \in Chats
BY DEF SInv, Gone

\* Another store saves: the widget's watcher will see it.
LEMMA SavedElsewhere ==
    ASSUME IInv, SInv, Well' => Well, UNCHANGED <<queue, present, removed>>, Stamped,
           forgotten' \subseteq forgotten, \A m \in forgotten' : Absent(m)',
           helper'[Widget] = helper[Widget]
    PROVE  SInv'
<1>1. CASE excused'
  BY <1>1, Spoilt, ForgottenChats DEF Well
<1>2. CASE unseen'
  <2>1. ASSUME NEW m \in forgotten', Well' PROVE Pending(m)'
    <3>1. Pending(m)
      BY <2>1 DEF SInv, Gone
    <3>. QED BY <3>1 DEF Pending, At
  <2>2. Gone'
    BY <2>1 DEF SInv, Gone
  <2>3. Shown' /\ Excused'
    BY <1>2 DEF SInv, Shown, Excused, At
  <2>. QED BY <2>2, <2>3 DEF SInv
<1>. QED BY <1>1, <1>2 DEF Stamped

\* A memory that was to be added has its like in the list then.
LEMMA AddedKeys ==
    ASSUME NEW read, NEW items \in SUBSET Items, NEW new \in Added(read, items),
           NEW f \in Names(read, new), NEW i \in items
    PROVE  \E x \in read \cup Named(new, f) : L!SameKey(i, x)
<1>1. (\E m \in read : L!SameKey(i, m)) \/ (\E j \in new : L!SameKey(i, j))
  BY DEF Added
<1>2. CASE \E j \in new : L!SameKey(i, j)
  <2>1. PICK j \in new : L!SameKey(i, j)
    BY <1>2
  <2>2. [j EXCEPT !.id = f[j]].text = j.text /\ [j EXCEPT !.id = f[j]].chat = j.chat
    <3>1. j \in Items
      BY DEF Added
    <3>. QED BY <3>1 DEF Items
  <2>3. [j EXCEPT !.id = f[j]] \in Named(new, f)
    BY DEF Named
  <2>. QED BY <2>1, <2>2, <2>3 DEF L!SameKey
<1>. QED BY <1>1, <1>2

\* What _save leaves of the forgotten.
LEMMA SavedGone ==
    ASSUME NEW s, NEW to, _save(s, to)
    PROVE  forgotten' \subseteq forgotten /\ \A m \in forgotten' : Absent(m)'
BY DEF _save, Absent


-----------------------------------------------------------------------------
(* The steps of a helper of another store.                                 *)

LEMMA OtherHelper ==
    ASSUME IInv, SInv, OnlyWidget, Well' => Well, NEW s \in Stores \ {Widget}, HelperStep(s)
    PROVE  SInv'
<1>1. helper \in [Stores -> HelperType] /\ list \in [Stores -> SUBSET L!Memories] /\ Widget \in Stores
  BY MemoryAssumption DEF IInv, TypeOK
<1>2. queue \in [Stores -> Seq(CmdType)]
  BY DEF IInv, TypeOK
<1>3. CASE _next(s)
  <2>1. helper'[Widget] = helper[Widget] /\ queue'[Widget] = queue[Widget]
    BY <1>1, <1>2, <1>3 DEF _next
  <2>. QED BY <1>3, <2>1, Still DEF _next, chatVars, watchVars
<1>4. CASE cmd_memory_list(s) \/ _locked(s) \/ load(s)
  <2>1. helper'[Widget] = helper[Widget]
    BY <1>1, <1>4 DEF cmd_memory_list, _locked, load, Goes, Knows
  <2>2. UNCHANGED <<file, storeVars, chatVars, watchVars, forgotten>>
    BY <1>4 DEF cmd_memory_list, _locked, load
  <2>. QED BY <2>1, <2>2, Still DEF storeVars, chatVars, watchVars
<1>5. CASE cmd_memory_add(s)
  <2> DEFINE read == helper[s].read
  <2>1. PICK new \in Added(read, helper[s].cmd.items) :
           \/ new = {} /\ Answers(s, read, {}) /\ UNCHANGED <<file, watchVars, forgotten, excused, budget>>
           \/ /\ new # {} /\ Cardinality(read) + Cardinality(new) <= MaxMemories
              /\ \E f \in Names(read, new) :
                   _save(s, read \cup Named(new, f)) /\ Answers(s, read \cup Named(new, f), {})
           \/ new # {} /\ Cardinality(read) + Cardinality(new) > MaxMemories /\ Refuses(s)
    BY <1>5 DEF cmd_memory_add
  <2>2. CASE Answers(s, read, {}) /\ UNCHANGED <<file, watchVars, forgotten, excused, budget>>
    <3>1. helper'[Widget] = helper[Widget]
      BY <1>1, <2>2 DEF Answers, Knows
    <3>. QED BY <2>2, <3>1, Still DEF Answers, storeVars, chatVars, watchVars
  <2>3. CASE \E f \in Names(read, new) :
               _save(s, read \cup Named(new, f)) /\ Answers(s, read \cup Named(new, f), {})
    <3>1. PICK to : \E deleted : _save(s, to) /\ Answers(s, to, deleted)
      BY <2>3
    <3>. QED BY <1>1, <3>1, SavedGone, SavedElsewhere DEF Answers, Knows, _save, storeVars, chatVars
  <2>4. CASE Refuses(s)
    BY <2>4, Spoilt, ForgottenChats DEF Refuses, Well
  <2>. QED BY <2>1, <2>2, <2>3, <2>4
<1>6. CASE cmd_memory_update(s)
  <2>1. Refuses(s) \/ \E to, deleted : _save(s, to) /\ Answers(s, to, deleted)
    BY <1>6 DEF cmd_memory_update
  <2>2. CASE Refuses(s)
    BY <2>2, Spoilt, ForgottenChats DEF Refuses, Well
  <2>3. CASE \E to, deleted : _save(s, to) /\ Answers(s, to, deleted)
    BY <1>1, <2>3, SavedGone, SavedElsewhere DEF Answers, Knows, _save, storeVars, chatVars
  <2>. QED BY <2>1, <2>2, <2>3
<1>7. CASE cmd_memory_delete(s)
  <2> DEFINE read == helper[s].read
             doomed == Doomed(read, helper[s].cmd)
  <2>1. /\ read = file /\ file \in SUBSET L!Memories /\ file # Unreadable
        /\ helper[s].pc = "save"
    BY <1>7, ReadKept DEF cmd_memory_delete, At
  <2>2. helper[s].cmd.chats = {}
    BY <2>1 DEF OnlyWidget, UnderWay
  <2>3. Answers(s, read \ doomed, doomed)
    BY <1>7 DEF cmd_memory_delete
  <2>4. helper'[Widget] = helper[Widget] /\ UNCHANGED <<queue, list, present, removed>>
    BY <1>1, <2>3 DEF Answers, Knows, storeVars, chatVars
  <2>5. CASE doomed = {}
    <3>1. UNCHANGED <<file, unseen, settling, forgotten>>
      BY <1>7, <2>5 DEF cmd_memory_delete, watchVars
    <3>. QED BY <2>4, <3>1, Still
  <2>6. CASE doomed # {}
    <3>1. file' = read \ doomed /\ Stamped /\ forgotten' = forgotten
      BY <1>7, <2>2, <2>6 DEF cmd_memory_delete
    <3>2. ASSUME Well' PROVE \A m \in forgotten' : Absent(m)'
      <4>1. \A m \in forgotten : Absent(m)
        BY <3>2 DEF SInv, Gone
      <4>. QED BY <2>1, <3>1, <4>1 DEF Absent
    <3>3. CASE Well'
      BY <2>4, <3>1, <3>2, <3>3, SavedElsewhere
    <3>4. CASE ~Well'
      BY <3>1, <3>4, Spoilt, ForgottenChats
    <3>. QED BY <3>3, <3>4
  <2>. QED BY <2>5, <2>6
<1>8. CASE Answered(s)
  <2>1. helper[s].cmd.chats = {}
    BY <1>8 DEF Answered, At, OnlyWidget
  <2>2. UNCHANGED <<queue, removed, forgotten>>
    BY <1>8, <2>1 DEF Answered
  <2>3. helper'[Widget] = helper[Widget] /\ list'[Widget] = list[Widget]
    BY <1>1, <1>8 DEF Answered
  <2>. QED BY <1>8, <2>2, <2>3, Still DEF Answered, watchVars
<1>9. CASE Failed(s)
  <2>1. helper'[Widget] = helper[Widget]
    BY <1>1, <1>9 DEF Failed
  <2>. QED BY <1>9, <2>1, Still DEF Failed, storeVars, chatVars, watchVars
<1>. QED BY <1>3, <1>4, <1>5, <1>6, <1>7, <1>8, <1>9 DEF HelperStep

-----------------------------------------------------------------------------
(* The steps of the widget's helper.                                       *)

\* The helper goes on with its command, or answers with the file as it is.
LEMMA WidgetGoesOn ==
    ASSUME IInv, SInv, Well' => Well,
           UNCHANGED <<file, queue, present, removed, forgotten>>,
           helper[Widget].pc \in UnderWay, helper'[Widget].cmd = helper[Widget].cmd,
           \/ helper'[Widget].pc \in UnderWay
           \/ /\ helper'[Widget].pc = "print" /\ (file # Unreadable => helper'[Widget].read = file)
              /\ \A m \in forgotten : file # Unreadable /\ Absent(m) => ~Restores(helper[Widget].cmd, m)
    PROVE  SInv'
<1>1. ASSUME NEW m \in forgotten', Well' PROVE Pending(m)' /\ Absent(m)'
  <2>1. Pending(m) /\ Absent(m) /\ file # Unreadable
    BY <1>1 DEF SInv, Gone, Well
  <2>2. Pending(m)'
    BY <2>1 DEF Pending, At, UnderWay
  <2>. QED BY <2>1, <2>2 DEF Absent
<1>2. Gone'
  BY <1>1 DEF SInv, Gone
<1>3. Shown' /\ Excused'
  BY DEF Shown, Excused, At, UnderWay, Well
<1>. QED BY <1>2, <1>3 DEF SInv

\* The helper saves, and the watcher will see it.
LEMMA WidgetSaves ==
    ASSUME IInv, SInv, Well' => Well, Stamped,
           UNCHANGED <<queue, present, removed>>,
           helper[Widget].pc = "save", helper'[Widget].pc = "print",
           \A m \in forgotten' : m.chat \in Chats /\ Absent(m)',
           \A m \in forgotten' :
              \/ m \in forgotten /\ ~Restores(helper[Widget].cmd, m)
              \/ m \in helper'[Widget].deleted /\ m.chat \in helper'[Widget].cmd.chats
    PROVE  SInv'
<1>1. CASE ~Well'
  BY <1>1, Spoilt
<1>2. CASE Well'
  <2>1. ASSUME NEW m \in forgotten' PROVE Pending(m)'
    <3>1. CASE m \in forgotten /\ ~Restores(helper[Widget].cmd, m)
      <4>1. Pending(m)
        BY <1>2, <3>1 DEF SInv, Gone
      <4>. QED BY <3>1, <4>1 DEF Pending, At
    <3>2. CASE m \in helper'[Widget].deleted /\ m.chat \in helper'[Widget].cmd.chats
      BY <3>2 DEF Pending, At
    <3>. QED BY <3>1, <3>2
  <2>2. Gone'
    BY <2>1 DEF Gone
  <2>3. Shown' /\ Excused'
    BY <1>2 DEF Stamped, Shown, Excused, At, Well
  <2>. QED BY <2>2, <2>3 DEF SInv
<1>. QED BY <1>1, <1>2

LEMMA WidgetStarts ==
    ASSUME IInv, SInv, Well' => Well, _next(Widget)
    PROVE  SInv'
<1>1. /\ helper \in [Stores -> HelperType] /\ Widget \in Stores
      /\ queue[Widget] \in Seq(CmdType) /\ queue[Widget] # <<>> /\ helper[Widget].pc = "off"
      /\ DOMAIN queue = Stores
  BY MemoryAssumption DEF IInv, TypeOK, _next, At
<1>2. queue'[Widget] = Tail(queue[Widget])
  BY <1>1 DEF _next
<1>3. helper'[Widget].pc = "start" /\ helper'[Widget].cmd = Head(queue[Widget])
  BY <1>1 DEF _next, Off
<1>4. UNCHANGED <<file, present, removed, forgotten>>
  BY DEF _next, chatVars
<1>5. ASSUME NEW m \in forgotten', Well' PROVE Pending(m)' /\ Absent(m)'
  <2>1. Pending(m) /\ Absent(m)
    BY <1>4, <1>5 DEF SInv, Gone
  <2>2. CASE \E k \in DOMAIN queue[Widget] : Restores(queue[Widget][k], m)
    <3>1. PICK k \in DOMAIN queue[Widget] : Restores(queue[Widget][k], m)
      BY <2>2
    <3>2. CASE k = 1
      <4>1. Restores(helper'[Widget].cmd, m)
        BY <1>1, <1>3, <3>1, <3>2
      <4>. QED BY <1>3, <1>4, <2>1, <4>1 DEF Pending, At, UnderWay, Absent
    <3>3. CASE k # 1
      <4>1. k - 1 \in DOMAIN queue'[Widget] /\ queue'[Widget][k - 1] = queue[Widget][k]
        BY <1>1, <1>2, <3>1, <3>3
      <4>. QED BY <1>4, <2>1, <3>1, <4>1 DEF Pending, Absent
    <3>. QED BY <3>2, <3>3
  <2>3. CASE ~\E k \in DOMAIN queue[Widget] : Restores(queue[Widget][k], m)
    BY <1>1, <1>4, <2>1, <2>3 DEF Pending, At, UnderWay, Absent
  <2>. QED BY <2>2, <2>3
<1>6. Gone'
  BY <1>4, <1>5 DEF SInv, Gone
<1>7. Shown' /\ Excused'
  BY <1>3 DEF Shown, Excused, At, UnderWay
<1>. QED BY <1>6, <1>7 DEF SInv

LEMMA WidgetAdds ==
    ASSUME IInv, SInv, Well' => Well, cmd_memory_add(Widget)
    PROVE  SInv'
<1> DEFINE read == helper[Widget].read
           items == helper[Widget].cmd.items
<1>1. /\ helper \in [Stores -> HelperType] /\ Widget \in Stores /\ helper[Widget].pc = "save"
      /\ read = file /\ file \in SUBSET L!Memories /\ file # Unreadable /\ items \in SUBSET Items
  <2>1. Widget \in Stores /\ helper[Widget].pc = "save"
    BY MemoryAssumption DEF cmd_memory_add, At
  <2>. QED BY <2>1, ReadKept DEF IInv, TypeOK, CmdType
<1>2. PICK new \in Added(read, items) :
         \/ new = {} /\ Answers(Widget, read, {}) /\ UNCHANGED <<file, watchVars, forgotten, excused, budget>>
         \/ /\ new # {} /\ Cardinality(read) + Cardinality(new) <= MaxMemories
            /\ \E f \in Names(read, new) :
                 _save(Widget, read \cup Named(new, f)) /\ Answers(Widget, read \cup Named(new, f), {})
         \/ new # {} /\ Cardinality(read) + Cardinality(new) > MaxMemories /\ Refuses(Widget)
  BY DEF cmd_memory_add
<1>3. CASE new = {} /\ Answers(Widget, read, {}) /\ UNCHANGED <<file, watchVars, forgotten, excused, budget>>
  <2>1. /\ helper'[Widget].pc = "print" /\ helper'[Widget].read = file
        /\ helper'[Widget].cmd = helper[Widget].cmd
        /\ UNCHANGED <<queue, list, present, removed>>
    BY <1>1, <1>3 DEF Answers, Knows, storeVars, chatVars
  <2>2. \A i \in items : \E x \in file : L!SameKey(i, x)
    BY <1>1, <1>2, <1>3 DEF Added
  <2>3. ASSUME NEW m \in forgotten, Absent(m) PROVE ~Restores(helper[Widget].cmd, m)
    BY <1>1, <2>2, <2>3 DEF Absent, Restores
  <2>. QED BY <1>1, <1>3, <2>1, <2>3, WidgetGoesOn DEF UnderWay
<1>4. ASSUME NEW f \in Names(read, new),
             _save(Widget, read \cup Named(new, f)), Answers(Widget, read \cup Named(new, f), {})
      PROVE  SInv'
  <2> DEFINE to == read \cup Named(new, f)
  <2>1. helper'[Widget].pc = "print" /\ UNCHANGED <<queue, list, present, removed>>
    BY <1>1, <1>4 DEF Answers, Knows, storeVars, chatVars
  <2>2. /\ file' = to /\ Stamped /\ forgotten' \subseteq forgotten
        /\ \A m \in forgotten' : \A x \in to : ~L!SameKey(m, x)
    BY <1>4 DEF _save
  <2>3. \A i \in items : \E x \in to : L!SameKey(i, x)
    BY <1>1, AddedKeys
  <2>4. \A m \in forgotten' : ~Restores(helper[Widget].cmd, m)
    BY <2>2, <2>3 DEF Restores
  <2>5. \A m \in forgotten' : m \in forgotten /\ m.chat \in Chats /\ Absent(m)'
    BY <2>2, ForgottenChats DEF Absent
  <2> HIDE DEF to
  <2>. QED BY <1>1, <2>1, <2>2, <2>4, <2>5, WidgetSaves
<1>5. CASE Refuses(Widget)
  BY <1>5, Spoilt, ForgottenChats DEF Refuses, Well
<1>. QED BY <1>2, <1>3, <1>4, <1>5

LEMMA WidgetUpdates ==
    ASSUME IInv, SInv, Well' => Well, cmd_memory_update(Widget)
    PROVE  SInv'
<1>1. /\ helper \in [Stores -> HelperType] /\ Widget \in Stores
      /\ helper[Widget].pc = "save" /\ helper[Widget].cmd.do = "update"
  BY MemoryAssumption DEF cmd_memory_update, At, IInv, TypeOK
<1>2. Refuses(Widget) \/ \E to, deleted : _save(Widget, to) /\ Answers(Widget, to, deleted)
  BY DEF cmd_memory_update
<1>3. CASE Refuses(Widget)
  BY <1>3, Spoilt, ForgottenChats DEF Refuses, Well
<1>4. ASSUME NEW to, NEW deleted, _save(Widget, to), Answers(Widget, to, deleted)
      PROVE  SInv'
  <2>1. helper'[Widget].pc = "print" /\ UNCHANGED <<queue, list, present, removed>>
    BY <1>1, <1>4 DEF Answers, Knows, storeVars, chatVars
  <2>2. Stamped /\ \A m \in forgotten' : m \in forgotten /\ m.chat \in Chats /\ Absent(m)'
    BY <1>4, SavedGone, ForgottenChats DEF _save
  <2>3. \A m \in forgotten' : ~Restores(helper[Widget].cmd, m)
    BY <1>1 DEF Restores
  <2>. QED BY <1>1, <2>1, <2>2, <2>3, WidgetSaves
<1>. QED BY <1>2, <1>3, <1>4

LEMMA WidgetDeletes ==
    ASSUME IInv, SInv, Well' => Well, cmd_memory_delete(Widget)
    PROVE  SInv'
<1> DEFINE read == helper[Widget].read
           cmd == helper[Widget].cmd
           doomed == Doomed(read, cmd)
<1>1. /\ helper \in [Stores -> HelperType] /\ Widget \in Stores
      /\ helper[Widget].pc = "save" /\ cmd.do = "delete" /\ cmd.chats \in SUBSET Chats
      /\ read = file /\ L!Single(file) /\ file # Unreadable /\ file \in SUBSET L!Memories
  <2>1. Widget \in Stores /\ helper[Widget].pc = "save" /\ cmd.do = "delete"
    BY MemoryAssumption DEF cmd_memory_delete, At
  <2>. QED BY <2>1, ReadKept DEF IInv, TypeOK, CmdType
<1>2. Answers(Widget, read \ doomed, doomed)
  BY DEF cmd_memory_delete
<1>3. /\ helper'[Widget].pc = "print" /\ helper'[Widget].cmd = cmd
      /\ helper'[Widget].read = file \ doomed /\ helper'[Widget].deleted = doomed
      /\ UNCHANGED <<queue, list, present, removed>>
  BY <1>1, <1>2 DEF Answers, Knows, storeVars, chatVars
<1>4. \A m \in forgotten : ~Restores(cmd, m)
  BY <1>1 DEF Restores
<1>5. CASE doomed = {}
  <2>1. UNCHANGED <<file, forgotten>>
    BY <1>5 DEF cmd_memory_delete
  <2>. QED BY <1>1, <1>3, <1>4, <1>5, <2>1, WidgetGoesOn DEF UnderWay
<1>6. CASE doomed # {}
  <2>1. /\ file' = file \ doomed /\ Stamped
        /\ forgotten' = forgotten \cup {m \in doomed : m.chat \in cmd.chats}
    BY <1>1, <1>6 DEF cmd_memory_delete
  <2>2. doomed \subseteq file
    BY <1>1 DEF Doomed
  <2> HIDE DEF doomed
  <2>3. ASSUME NEW m \in doomed PROVE Absent(m)'
    BY <1>1, <2>1, <2>2 DEF Absent, L!Single, L!SameKey
  <2>4. CASE Well'
    <3>1. \A m \in forgotten : m.chat \in Chats /\ Absent(m)
      BY <2>4 DEF SInv, Gone
    <3>2. \A m \in forgotten' : m.chat \in Chats /\ Absent(m)'
      BY <1>1, <2>1, <2>3, <3>1 DEF Absent
    <3>3. \A m \in forgotten' : \/ m \in forgotten /\ ~Restores(cmd, m)
                                \/ m \in helper'[Widget].deleted /\ m.chat \in helper'[Widget].cmd.chats
      BY <1>3, <1>4, <2>1
    <3>. QED BY <1>1, <1>3, <2>1, <3>2, <3>3, WidgetSaves
  <2>5. CASE ~Well'
    BY <1>1, <2>1, <2>5, Spoilt, ForgottenChats
  <2>. QED BY <2>4, <2>5
<1>. QED BY <1>5, <1>6

\* What has come back is on its way, what has not is kept.
LEMMA RestoredPending ==
    ASSUME IInv, NEW gone, NEW now \in SUBSET Chats, Restore(gone, now)
    PROVE  /\ \A k \in DOMAIN queue[Widget] : k \in DOMAIN queue'[Widget] /\ queue'[Widget][k] = queue[Widget][k]
           /\ queue[Widget] # <<>> => queue'[Widget] # <<>>
           /\ \A c \in now : \A m \in gone[c] : \E k \in DOMAIN queue'[Widget] : Restores(queue'[Widget][k], m)
           /\ \A c \in Chats \ now : removed'[c] = gone[c]
<1>1. queue[Widget] \in Seq(CmdType) /\ DOMAIN queue = Stores /\ Widget \in Stores
  BY MemoryAssumption DEF IInv, TypeOK
<1>2. \A c \in Chats \ now : removed'[c] = gone[c]
  BY DEF Restore
<1>3. CASE Back(gone, now) = {}
  <2>1. queue' = queue
    BY <1>3 DEF Restore
  <2>2. \A c \in now : gone[c] = {}
    BY <1>3 DEF Back
  <2>. QED BY <1>2, <2>1, <2>2
<1>4. CASE Back(gone, now) # {}
  <2> DEFINE cmd == AddOf(Back(gone, now))
  <2>1. queue'[Widget] = Append(queue[Widget], cmd)
    BY <1>1, <1>4 DEF Restore, Queued
  <2>2. \A c \in now : \A m \in gone[c] : Restores(cmd, m)
    BY DEF Restores, AddOf, List, Back
  <2> HIDE DEF cmd
  <2>3. LET k == Len(queue[Widget]) + 1 IN k \in DOMAIN queue'[Widget] /\ queue'[Widget][k] = cmd
    BY <1>1, <2>1
  <2>4. /\ \A k \in DOMAIN queue[Widget] : k \in DOMAIN queue'[Widget] /\ queue'[Widget][k] = queue[Widget][k]
        /\ queue'[Widget] # <<>>
    BY <1>1, <2>1
  <2>. QED BY <1>2, <2>2, <2>3, <2>4
<1>. QED BY <1>3, <1>4

LEMMA WidgetAnswered ==
    ASSUME IInv, SInv, Well' => Well, Answered(Widget)
    PROVE  SInv'
<1> DEFINE h == helper[Widget]
           went == h.deleted # {} /\ h.cmd.chats # {}
           gone == [c \in Chats |-> IF c \in h.cmd.chats THEN h.deleted ELSE removed[c]]
           replaced == (UNION {removed[c] : c \in h.cmd.chats}) \ h.deleted
<1>1. /\ DOMAIN helper = Stores /\ DOMAIN list = Stores /\ Widget \in Stores /\ present \in SUBSET Chats
  BY MemoryAssumption DEF IInv, TypeOK
<1>2. /\ h.pc = "print" /\ helper'[Widget].pc = "off" /\ list'[Widget] = h.read
      /\ UNCHANGED <<file, present, unseen, settling>>
  BY <1>1 DEF Answered, At, Off, watchVars
<1>3. CASE went
  <2>1. Restore(gone, present) /\ forgotten' = forgotten \ replaced
    BY <1>3 DEF Answered
  <2>2. gone = [c \in Chats |-> IF c \in h.cmd.chats THEN h.deleted ELSE removed[c]]
    OBVIOUS
  <2> HIDE DEF gone
  <2>3. /\ \A k \in DOMAIN queue[Widget] : k \in DOMAIN queue'[Widget] /\ queue'[Widget][k] = queue[Widget][k]
        /\ queue[Widget] # <<>> => queue'[Widget] # <<>>
        /\ \A c \in present : \A m \in gone[c] : \E k \in DOMAIN queue'[Widget] : Restores(queue'[Widget][k], m)
        /\ \A c \in Chats \ present : removed'[c] = gone[c]
    BY <1>1, <2>1, RestoredPending
  <2>4. ASSUME NEW m \in forgotten', Well' PROVE Pending(m)' /\ Absent(m)'
    <3>1. m \in forgotten /\ m \notin replaced /\ m.chat \in Chats /\ Pending(m) /\ Absent(m)
      BY <2>1, <2>4 DEF SInv, Gone
    <3>2. \/ m \in gone[m.chat]
          \/ \E k \in DOMAIN queue[Widget] : Restores(queue[Widget][k], m)
      <4>1. CASE m \in h.deleted /\ m.chat \in h.cmd.chats
        BY <2>2, <3>1, <4>1
      <4>2. CASE m.chat \notin present /\ m \in removed[m.chat]
        <5>1. CASE m.chat \in h.cmd.chats
          BY <2>2, <3>1, <4>2, <5>1
        <5>2. CASE m.chat \notin h.cmd.chats
          BY <2>2, <3>1, <4>2, <5>2
        <5>. QED BY <5>1, <5>2
      <4>3. CASE h.pc \in UnderWay
        BY <1>2, <4>3 DEF UnderWay
      <4>. QED BY <3>1, <4>1, <4>2, <4>3 DEF Pending, At
    <3>3. CASE m.chat \in present
      BY <1>2, <2>3, <3>1, <3>2, <3>3 DEF Pending, Absent
    <3>4. CASE m.chat \notin present
      BY <1>2, <2>3, <3>1, <3>2, <3>4 DEF Pending, Absent
    <3>. QED BY <3>3, <3>4
  <2>5. Gone'
    <3>1. forgotten' \subseteq forgotten
      BY <2>1
    <3>. QED BY <2>4, <3>1, ForgottenChats DEF Gone
  <2>6. Shown' /\ Excused'
    BY <1>2, <2>3 DEF SInv, Shown, Excused, At, UnderWay
  <2>. QED BY <2>5, <2>6 DEF SInv
<1>4. CASE ~went
  <2>1. UNCHANGED <<queue, removed, forgotten>>
    BY <1>4 DEF Answered
  <2>2. ASSUME NEW m \in forgotten', Well' PROVE Pending(m)' /\ Absent(m)'
    <3>1. Pending(m) /\ Absent(m)
      BY <2>1, <2>2 DEF SInv, Gone
    <3>2. ~(m \in h.deleted /\ m.chat \in h.cmd.chats) /\ h.pc \notin UnderWay
      BY <1>2, <1>4 DEF UnderWay
    <3>. QED BY <1>2, <2>1, <3>1, <3>2 DEF Pending, Absent, At
  <2>3. Gone'
    BY <2>1, <2>2 DEF SInv, Gone
  <2>4. Shown' /\ Excused'
    BY <1>2, <2>1 DEF SInv, Shown, Excused, At, UnderWay
  <2>. QED BY <2>3, <2>4 DEF SInv
<1>. QED BY <1>3, <1>4

LEMMA WidgetHelper ==
    ASSUME IInv, SInv, Well' => Well, HelperStep(Widget)
    PROVE  SInv'
<1>1. helper \in [Stores -> HelperType] /\ Widget \in Stores
  BY MemoryAssumption DEF IInv, TypeOK
<1>2. CASE cmd_memory_list(Widget)
  <2>1. /\ helper[Widget].pc = "start" /\ helper[Widget].cmd.do = "list"
        /\ UNCHANGED <<file, queue, present, removed, forgotten, excused>>
    BY <1>2 DEF cmd_memory_list, At, storeVars, chatVars
  <2>2. CASE file = Unreadable
    BY <2>1, <2>2, Spoilt, ForgottenChats DEF Well
  <2>3. CASE file # Unreadable
    <3>1. /\ helper'[Widget].pc = "print" /\ helper'[Widget].read = file
          /\ helper'[Widget].cmd = helper[Widget].cmd
      BY <1>1, <1>2, <2>3 DEF cmd_memory_list, Knows
    <3>2. \A m \in forgotten : ~Restores(helper[Widget].cmd, m)
      BY <2>1 DEF Restores
    <3>. QED BY <2>1, <3>1, <3>2, WidgetGoesOn DEF UnderWay
  <2>. QED BY <2>2, <2>3
<1>3. CASE _locked(Widget)
  <2>1. /\ helper[Widget].pc = "start" /\ helper'[Widget].pc = "load"
        /\ helper'[Widget].cmd = helper[Widget].cmd
    BY <1>1, <1>3 DEF _locked, At, Goes, HelperType
  <2>. QED BY <1>3, <2>1, WidgetGoesOn DEF _locked, UnderWay, storeVars, chatVars
<1>4. CASE load(Widget)
  <2>1. CASE file = Unreadable
    BY <1>4, <2>1, Spoilt, ForgottenChats DEF load, Well
  <2>2. CASE file # Unreadable
    <3>1. /\ helper[Widget].pc = "load" /\ helper'[Widget].pc = "save"
          /\ helper'[Widget].cmd = helper[Widget].cmd
      BY <1>1, <1>4, <2>2 DEF load, At, Knows
    <3>. QED BY <1>4, <3>1, WidgetGoesOn DEF load, UnderWay, storeVars, chatVars
  <2>. QED BY <2>1, <2>2
<1>5. CASE Failed(Widget)
  <2>1. ~Well /\ UNCHANGED forgotten
    BY <1>5 DEF Failed, SInv, Excused
  <2>. QED BY <2>1, Spoilt, ForgottenChats
<1>. QED BY <1>2, <1>3, <1>4, <1>5, WidgetStarts, WidgetAdds, WidgetUpdates, WidgetDeletes, WidgetAnswered
         DEF HelperStep

-----------------------------------------------------------------------------
(* The steps of users and of the watcher.                                  *)

\* Memories come back on their way, or wait for their chat.
LEMMA ChatReturns ==
    ASSUME IInv, SInv, Well' => Well, NEW c \in Chats, UndoDelete(c)
    PROVE  SInv'
<1>1. present' \in SUBSET Chats /\ present' = present \cup {c}
  BY DEF UndoDelete, IInv, TypeOK
<1>2. Restore(removed, present') /\ UNCHANGED <<file, helper, list, unseen, settling, forgotten, excused>>
  BY DEF UndoDelete, watchVars
<1>3. /\ \A k \in DOMAIN queue[Widget] : k \in DOMAIN queue'[Widget] /\ queue'[Widget][k] = queue[Widget][k]
      /\ queue[Widget] # <<>> => queue'[Widget] # <<>>
      /\ \A d \in present' : \A m \in removed[d] : \E k \in DOMAIN queue'[Widget] : Restores(queue'[Widget][k], m)
      /\ \A d \in Chats \ present' : removed'[d] = removed[d]
  BY <1>1, <1>2, RestoredPending
<1>4. ASSUME NEW m \in forgotten', Well' PROVE Pending(m)' /\ Absent(m)'
  <2>1. m.chat \in Chats /\ Pending(m) /\ Absent(m)
    BY <1>2, <1>4 DEF SInv, Gone
  <2>2. CASE m \in removed[m.chat] /\ m.chat \in present'
    BY <1>2, <1>3, <2>1, <2>2 DEF Pending, Absent
  <2>3. CASE m \in removed[m.chat] /\ m.chat \notin present'
    BY <1>2, <1>3, <2>1, <2>3 DEF Pending, Absent
  <2>4. CASE m \notin removed[m.chat]
    BY <1>2, <1>3, <2>1, <2>4 DEF Pending, Absent, At
  <2>. QED BY <2>2, <2>3, <2>4
<1>5. Gone'
  BY <1>2, <1>4 DEF SInv, Gone
<1>6. Shown' /\ Excused'
  BY <1>2, <1>3 DEF SInv, Shown, Excused, At, Well
<1>. QED BY <1>5, <1>6 DEF SInv

\* A command that waits for its turn.
LEMMA Waits ==
    ASSUME IInv, NEW s \in Stores, NEW cmd \in CmdType, Queued(s, cmd)
    PROVE  queue'[Widget] = queue[Widget] \/ \E x \in CmdType : queue'[Widget] = Append(queue[Widget], x)
<1>1. queue \in [Stores -> Seq(CmdType)] /\ Widget \in Stores
  BY MemoryAssumption DEF IInv, TypeOK
<1>. QED BY <1>1 DEF Queued

LEMMA UserShown ==
    ASSUME IInv, SInv, Well' => Well, UserStep
    PROVE  SInv'
<1>1. ASSUME NEW s \in Stores, UserAdds(s) \/ UserChanges(s) \/ UserRemoves(s) PROVE SInv'
  <2>1. PICK cmd \in CmdType : Queued(s, cmd)
    <3>1. CASE UserAdds(s)
      <4>1. PICK t \in Texts, c \in present \cup {All} :
               Queued(s, AddOf({[id |-> None, text |-> t, chat |-> c]}))
        BY <3>1 DEF UserAdds
      <4>2. {[id |-> None, text |-> t, chat |-> c]} \in SUBSET Items
        BY DEF Items, IInv, TypeOK
      <4>3. AddOf({[id |-> None, text |-> t, chat |-> c]}) \in CmdType
        BY <4>2 DEF AddOf, List, CmdType
      <4>. QED BY <4>1, <4>3
    <3>2. CASE UserChanges(s)
      <4>1. PICK m \in list[s], t \in Texts, c \in present \cup {All} :
               Queued(s, UpdateTo([m EXCEPT !.text = t, !.chat = c]))
        BY <3>2 DEF UserChanges
      <4>2. m \in L!Memories /\ c \in Chats \cup {All}
        BY DEF IInv, TypeOK
      <4>3. [m EXCEPT !.text = t, !.chat = c] \in L!Memories
        BY <4>2 DEF L!Memories
      <4>4. [m EXCEPT !.text = t, !.chat = c] # None
        BY <4>3, MemoryAssumption
      <4>5. UpdateTo([m EXCEPT !.text = t, !.chat = c]) \in CmdType
        BY <4>3, <4>4, CommandsTyped
      <4>. QED BY <4>1, <4>5
    <3>3. CASE UserRemoves(s)
      <4>1. PICK m \in list[s] : Queued(s, DeleteOf({m.id}, {}))
        BY <3>3 DEF UserRemoves
      <4>2. m.id \in Ids
        BY DEF IInv, TypeOK, L!Memories
      <4>3. DeleteOf({m.id}, {}) \in CmdType
        BY <4>2 DEF DeleteOf, List, CmdType
      <4>. QED BY <4>1, <4>3
    <3>. QED BY <1>1, <3>1, <3>2, <3>3
  <2>2. UNCHANGED <<file, helper, list, present, removed, unseen, settling, forgotten>>
    BY <1>1 DEF UserAdds, UserChanges, UserRemoves, chatVars, watchVars
  <2>3. queue'[Widget] = queue[Widget] \/ \E x \in CmdType : queue'[Widget] = Append(queue[Widget], x)
    BY <2>1, Waits
  <2>. QED BY <2>2, <2>3, Still
<1>2. ASSUME NEW s \in Stores, Killed(s) PROVE SInv'
  BY <1>2, Spoilt, ForgottenChats DEF Killed, Well
<1>3. ASSUME NEW c \in Chats, DeleteChat(c) PROVE SInv'
  <2>1. DeleteOf({}, {c}) \in CmdType
    BY DEF DeleteOf, List, CmdType
  <2>2. Queued(Widget, DeleteOf({}, {c})) /\ present' \subseteq present
    BY <1>3 DEF DeleteChat
  <2>. QED BY <1>3, <2>1, <2>2, Waits, Still, MemoryAssumption DEF DeleteChat, watchVars
<1>. QED BY <1>1, <1>2, <1>3, ChatReturns DEF UserStep

\* Other stores forget no chat.
LEMMA OnlyWidgetKept == IInv /\ OnlyWidget /\ [Next]_vars => OnlyWidget'
<1>. SUFFICES ASSUME IInv, OnlyWidget, [Next]_vars, NEW t \in Stores \ {Widget}
              PROVE  /\ \A k \in DOMAIN queue'[t] : queue'[t][k].chats = {}
                     /\ helper'[t].pc \in UnderWay \cup {"print"} => helper'[t].cmd.chats = {}
  BY DEF OnlyWidget
<1>1. /\ helper \in [Stores -> HelperType] /\ queue \in [Stores -> Seq(CmdType)]
      /\ Widget \in Stores /\ queue[t] \in Seq(CmdType)
  BY MemoryAssumption DEF IInv, TypeOK
<1>2. /\ \A k \in DOMAIN queue[t] : queue[t][k].chats = {}
      /\ helper[t].pc \in UnderWay \cup {"print"} => helper[t].cmd.chats = {}
  BY DEF OnlyWidget
<1>3. ASSUME NEW s \in Stores, HelperStep(s)
      PROVE  /\ \A k \in DOMAIN queue'[t] : queue'[t][k].chats = {}
             /\ helper'[t].pc \in UnderWay \cup {"print"} => helper'[t].cmd.chats = {}
  <2>1. CASE _next(s)
    <3>1. CASE s = t
      <4>1. queue[t] # <<>> /\ queue'[t] = Tail(queue[t]) /\ helper'[t].cmd = Head(queue[t])
        BY <1>1, <2>1, <3>1 DEF _next, Off
      <4>2. Head(queue[t]).chats = {} /\ \A k \in DOMAIN Tail(queue[t]) : Tail(queue[t])[k].chats = {}
        BY <1>1, <1>2, <4>1
      <4>. QED BY <4>1, <4>2
    <3>2. CASE s # t
      <4>1. queue'[t] = queue[t] /\ helper'[t] = helper[t]
        BY <1>1, <2>1, <3>2 DEF _next
      <4>. QED BY <1>2, <4>1
    <3>. QED BY <3>1, <3>2
  <2>2. CASE Answered(s)
    <3>1. queue'[t] = queue[t]
      BY <1>1, <2>2 DEF Answered, Restore, Queued
    <3>2. helper'[t] = helper[t] \/ helper'[t].pc = "off"
      BY <1>1, <2>2 DEF Answered, Off
    <3>. QED BY <1>2, <3>1, <3>2 DEF UnderWay
  <2>3. CASE Failed(s)
    <3>1. queue' = queue
      BY <2>3 DEF Failed, storeVars
    <3>2. helper'[t] = helper[t] \/ helper'[t].pc = "off"
      BY <1>1, <2>3 DEF Failed, Off
    <3>. QED BY <1>2, <3>1, <3>2 DEF UnderWay
  <2>4. CASE \/ cmd_memory_list(s) \/ _locked(s) \/ load(s)
             \/ cmd_memory_add(s) \/ cmd_memory_update(s) \/ cmd_memory_delete(s)
    <3>1. queue' = queue
      BY <2>4 DEF cmd_memory_list, _locked, load, cmd_memory_add, cmd_memory_update, cmd_memory_delete,
                  Answers, Refuses, storeVars
    <3>2. /\ helper[s].pc \in UnderWay
          /\ (\E pc : Goes(s, pc)) \/ (\E pc, read, deleted : Knows(s, pc, read, deleted))
      BY <2>4 DEF cmd_memory_list, _locked, load, cmd_memory_add, cmd_memory_update, cmd_memory_delete,
                  Answers, Refuses, At, UnderWay
    <3>3. helper'[t] = helper[t] \/ (t = s /\ helper'[t].cmd = helper[t].cmd)
      BY <1>1, <3>2 DEF Goes, Knows, HelperType
    <3>. QED BY <1>2, <3>1, <3>2, <3>3
  <2>. QED BY <1>3, <2>1, <2>2, <2>3, <2>4 DEF HelperStep
<1>4. ASSUME NEW s \in Stores, UserAdds(s) \/ UserChanges(s) \/ UserRemoves(s)
      PROVE  \A k \in DOMAIN queue'[t] : queue'[t][k].chats = {}
  <2>1. PICK cmd : Queued(s, cmd) /\ cmd.chats = {}
    <3>1. \A x : AddOf(x).chats = {} /\ UpdateTo(x).chats = {} /\ DeleteOf(x, {}).chats = {}
      BY DEF AddOf, UpdateTo, DeleteOf, List
    <3>2. \/ \E x : Queued(s, AddOf(x))
          \/ \E x : Queued(s, UpdateTo(x))
          \/ \E x : Queued(s, DeleteOf(x, {}))
      BY <1>4 DEF UserAdds, UserChanges, UserRemoves
    <3>. QED BY <3>1, <3>2
  <2>2. queue'[t] = queue[t] \/ queue'[t] = Append(queue[t], cmd)
    BY <1>1, <2>1 DEF Queued
  <2>3. CASE queue'[t] = Append(queue[t], cmd)
    <3>1. ASSUME NEW k \in DOMAIN queue'[t]
          PROVE  queue'[t][k] = cmd \/ (k \in DOMAIN queue[t] /\ queue'[t][k] = queue[t][k])
      BY <1>1, <2>3, <3>1
    <3>. QED BY <1>2, <2>1, <3>1
  <2>. QED BY <1>2, <2>2, <2>3
<1>5. ASSUME NEW s \in Stores, Killed(s)
      PROVE  queue' = queue /\ (helper'[t] = helper[t] \/ helper'[t].pc = "failed")
  BY <1>1, <1>5 DEF Killed, storeVars, Goes, HelperType
<1>6. ASSUME \/ \E c \in Chats : DeleteChat(c) \/ UndoDelete(c)
             \/ _check \/ changed \/ Damaged \/ UNCHANGED vars
      PROVE  queue'[t] = queue[t] /\ helper' = helper
  BY <1>1, <1>6 DEF DeleteChat, UndoDelete, Restore, Queued, _check, changed, Damaged, vars, storeVars
<1>7. ASSUME NEW s \in Stores, UserAdds(s) \/ UserChanges(s) \/ UserRemoves(s)
      PROVE  helper' = helper
  BY <1>7 DEF UserAdds, UserChanges, UserRemoves
<1>. QED BY <1>2, <1>3, <1>4, <1>5, <1>6, <1>7 DEF Next, UserStep, UnderWay

LEMMA SettledInit == Init => OnlyWidget /\ SInv
<1>. SUFFICES ASSUME Init PROVE OnlyWidget /\ SInv
  OBVIOUS
<1>1. \A s \in Stores : helper[s].pc = "off" /\ queue[s] = <<>>
  BY DEF Init, Off
<1>2. OnlyWidget
  BY <1>1 DEF OnlyWidget, UnderWay
<1>3. Gone /\ Shown /\ Excused
  BY <1>1, MemoryAssumption DEF Init, Gone, Shown, Excused, At
<1>. QED BY <1>2, <1>3 DEF SInv

LEMMA SettledNext == IInv /\ OnlyWidget /\ SInv /\ [Next]_vars => SInv'
<1>. SUFFICES ASSUME IInv, OnlyWidget, SInv, [Next]_vars PROVE SInv'
  OBVIOUS
<1>1. Well' => Well
  BY WellBefore
<1>2. CASE \E s \in Stores : HelperStep(s)
  BY <1>1, <1>2, OtherHelper, WidgetHelper
<1>3. CASE UserStep
  BY <1>1, <1>3, UserShown
<1>4. CASE _check
  BY <1>1, <1>4, Still DEF _check, storeVars, chatVars
<1>5. CASE changed
  <2>1. List \in CmdType /\ Queued(Widget, List) /\ Widget \in Stores
    BY <1>5, MemoryAssumption DEF changed, List, CmdType
  <2>2. queue'[Widget] # <<>>
    BY <2>1 DEF Queued, IInv, TypeOK
  <2>. QED BY <1>1, <1>5, <2>1, <2>2, Waits, Still DEF changed, chatVars
<1>6. CASE Damaged
  BY <1>6, Spoilt, ForgottenChats DEF Damaged, Well
<1>7. CASE UNCHANGED vars
  BY <1>1, <1>7, Still DEF vars, storeVars, chatVars, watchVars
<1>. QED BY <1>2, <1>3, <1>4, <1>5, <1>6, <1>7 DEF Next

\* Once nothing is under way, the widget shows what the file holds, and a chat
\* that came back has its memories, whoever changed what in between and however
\* quick Undo was: what is forgotten is kept for Undo, or on its way back
\* (MemoryStore.qml, MemoryWatch.qml, _forget and _restoreReturned of Memory.qml).
THEOREM SpecSettled == Spec => []Settled
<1>1. IInv /\ SInv => Settled
  <2>. SUFFICES ASSUME SInv PROVE Settled
    OBVIOUS
  <2>1. ShownIsStored
    BY DEF SInv, Shown, Well, ShownIsStored, Quiet, At, UnderWay
  <2>2. BackWithChat
    <3>. SUFFICES ASSUME Quiet, Well, NEW m \in forgotten PROVE m.chat \notin present
      BY DEF BackWithChat, Well
    <3>1. Pending(m)
      BY DEF SInv, Gone
    <3>. QED BY <3>1 DEF Pending, Quiet, At, UnderWay
  <2>. QED BY <2>1, <2>2 DEF Settled
<1>. QED BY <1>1, InitInv, NextInv, SettledInit, OnlyWidgetKept, SettledNext, PTL DEF Spec

=============================================================================
