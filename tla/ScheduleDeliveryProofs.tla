----------------------- MODULE ScheduleDeliveryProofs -----------------------
(***************************************************************************)
(* What a widget has saved is found again, and a chat file that cannot be  *)
(* read is left as it is, while crashes, restarts, damaged files, deletes  *)
(* with their helper and Undo, and scheduled jobs come between any two     *)
(* steps: for any chats, runs and budgets.  From there on: what a restart  *)
(* shows, what becomes of a run, and when memory and disk agree.           *)
(***************************************************************************)
EXTENDS ScheduleDelivery, FiniteSetTheorems, SequenceTheorems, WellFoundedInduction, TLAPS

Lists == SUBSET Chats
Contents == Seq(Messages)
Undoables == [chat : Chats, messages : Contents, wasOpen : BOOLEAN]
Stages == {"new", "prompt", "append", "inbox", "done", "failed", "dead"}
Jobs == [pc : Stages, chat : Chats \cup {None}, base : Contents]
Budget == [BudgetNames -> Nat]
Now == [stage |-> "now"]

Chatting == [Chats -> Contents \cup {None}]
Files == [Chats -> Contents \cup {None, Bad}]
SavesTyped == pending \in {"none", "list", "partial"} /\ held \in BOOLEAN /\ dirty \in Lists /\ full \in BOOLEAN

\* What the variables are.
StoreTyped ==
    /\ up \in {"off", "starting", "on"} /\ ready \in BOOLEAN /\ loading \in BOOLEAN /\ blocked \in BOOLEAN
    /\ sessions \in Chatting /\ open \in Chats \cup {None}
    /\ SavesTyped
    /\ written \in Files /\ writtenIndex \in Lists \cup {None}
    /\ damaged \in Lists /\ undoable \in Undoables \cup {None} /\ flushing \in Flushes \cup {None, Now}
    /\ file \in Files /\ index \in Lists \cup {None, Bad} /\ bak \in Lists \cup {None, Bad}
    /\ deleting \in Lists /\ used \in Lists /\ kept \in Lists /\ undone \in Lists
    /\ budget \in Budget

TypeOK == StoreTyped /\ job \in [Runs -> Jobs] /\ lock \in Runs \cup {None} /\ inbox \in Seq(Runs)

\* The chats of the index and of its backup, as far as these can be read.
Indexed == {c \in Chats : \E i \in {index, bak} \ {None, Bad} : c \in i}

\* A flush is at work on the files, and has these still to write.
Writing == flushing \in Flushes
Waits == IF Writing THEN flushing.todo ELSE {}

Noted == {c \in Chats : written[c] # None}
Undo == IF undoable = None THEN {} ELSE {undoable.chat}

\* What is about to lose its file is in no list, and what is in one has a file; but for what was brought back.
Doomed ==
    /\ deleting \cap (kept \cup Indexed \cup Noted \cup Listed) \subseteq undone
    /\ \A c \in (kept \cup Indexed \cup (Noted \ Waits) \cup (damaged \cap Listed)) \ undone : file[c] # None

\* An id not yet given out is nowhere.
Fresh ==
    /\ deleting \cup kept \cup Indexed \cup Noted \cup Listed \cup damaged \cup Undo \subseteq used
    /\ \A c \in Chats : file[c] # None => c \in used

\* What is kept is in every list from which a start may read, or on the screen.
KeptStays ==
    /\ index = None => kept = {}
    /\ index # None => \A i \in {index, bak} \ {None, Bad} : kept \ undone \subseteq i
    /\ SavedChatsListed

\* A widget that does not run has no chats; one that does has its open chat in the list.
Running ==
    /\ up # "on" => Listed = {} /\ Noted = {} /\ damaged = {} /\ undoable = None /\ flushing = None
    /\ up = "on" => open \in Listed

\* The widget knows which of its chats' files cannot be read.
BadIsDamaged == up = "on" => \A c \in Listed \cup Undo : file[c] = Bad => c \in damaged

\* What is to be deleted after a flush is in neither list by then.
Flushed ==
    /\ writtenIndex # None /\ (Writing => flushing.stage = "end") => Noted \subseteq writtenIndex
    /\ Writing =>
          /\ ~blocked /\ flushing.list = Listed /\ Noted = Listed
          /\ flushing.todo \subseteq Listed \ damaged /\ \A c \in flushing.todo : written[c] \notin {None, Bad}
          /\ flushing.removed \subseteq used \ Listed
          /\ flushing.stage = "chats" /\ flushing.list = writtenIndex => flushing.removed = {}
          /\ flushing.stage # "chats" => flushing.todo = {}
          /\ flushing.stage = "bak" => index = Listed
          /\ flushing.stage = "end" =>
                writtenIndex = Listed /\ (flushing.removed = {} \/ (index = Listed /\ bak = Listed))

\* A job writes back what it has read while it holds the lock.
Locked ==
    \A r \in Runs :
        /\ job[r].pc \in {"append", "inbox"} => lock = r
        /\ job[r].pc = "append" => file[job[r].chat] # Bad
        /\ job[r].pc # "new" => job[r].chat \in used

StoreInv == Doomed /\ Fresh /\ KeptStays /\ Running /\ BadIsDamaged /\ Flushed
IInv == TypeOK /\ StoreInv /\ Locked

-----------------------------------------------------------------------------
(* Only: a recursive function on 0 .. n is what it says, by the least      *)
(* number for which it is not.                                             *)

\* A set of numbers has a least one.
LEMMA Least ==
    ASSUME NEW T, T \subseteq Nat, T # {}
    PROVE  \E x \in T : \A y \in T : x <= y
<1> DEFINE R == OpToRel(<, Nat)
<1>1. IsWellFoundedOn(R, Nat)
  BY NatLessThanWellFounded
<1>2. \A x, y \in Nat : y < x => <<y, x>> \in R
  BY DEF OpToRel
<1> HIDE DEF R
<1>3. PICK x \in T : \A y \in T : ~ (<<y, x>> \in R)
  BY <1>1, WFMin
<1>4. \A y \in T : ~ (y < x)
  BY <1>2, <1>3
<1>5. \A a, b \in Nat : ~ (a < b) => b <= a
  OBVIOUS
<1> QED
  BY <1>3, <1>4, <1>5

\* One more member of s is looked at.
Step(s, S, picked, i) == IF s[i] \in S THEN Append(picked, s[i]) ELSE picked

\* g has picked the members of S among the first i of s, for each i.
Picks(s, S, n, g) == \A i \in 0 .. n : g[i] = IF i = 0 THEN <<>> ELSE Step(s, S, g[i - 1], i)

\* There is such a function.
LEMMA PickedExists ==
    ASSUME NEW s, NEW S, NEW n \in Nat
    PROVE  \E g \in [0 .. n -> Seq(S)] : Picks(s, S, n, g)
<1> DEFINE Upto(m, g) == Picks(s, S, m, g)
           Missing == {m \in Nat : ~ \E g \in [0 .. m -> Seq(S)] : Upto(m, g)}
<1>1. SUFFICES ASSUME Missing # {} PROVE FALSE
  OBVIOUS
<1>2. PICK m \in Missing : \A k \in Missing : m <= k
  BY <1>1, Least
<1>3. m # 0
  <2>1. Upto(0, [i \in 0 .. 0 |-> <<>>])
    BY DEF Picks
  <2>2. [i \in 0 .. 0 |-> <<>>] \in [0 .. 0 -> Seq(S)]
    OBVIOUS
  <2> QED
    BY <2>1, <2>2
<1>4. m \in Nat /\ m - 1 \in Nat /\ m - 1 \notin Missing
  <2>1. m \in Nat
    OBVIOUS
  <2>2. m - 1 \in Nat /\ ~ (m <= m - 1)
    BY <1>3, <2>1
  <2> HIDE DEF Missing
  <2> QED
    BY <1>2, <2>1, <2>2
<1>5. PICK g \in [0 .. (m - 1) -> Seq(S)] : Upto(m - 1, g)
  BY <1>4
<1> DEFINE last == Step(s, S, g[m - 1], m)
           h == [i \in 0 .. m |-> IF i = m THEN last ELSE g[i]]
<1>6. last \in Seq(S)
  BY <1>4, AppendProperties DEF Step
<1>7. h \in [0 .. m -> Seq(S)]
  BY <1>4, <1>6
<1>8. Upto(m, h)
  <2> SUFFICES ASSUME NEW i \in 0 .. m PROVE h[i] = IF i = 0 THEN <<>> ELSE Step(s, S, h[i - 1], i)
    BY DEF Picks
  <2>1. CASE i = m
    <3>1. h[i] = last /\ h[i - 1] = g[m - 1]
      BY <1>3, <1>4, <2>1
    <3> QED
      BY <1>3, <2>1, <3>1
  <2>2. CASE i # m
    <3>1. i \in 0 .. (m - 1) /\ h[i] = g[i] /\ (i # 0 => h[i - 1] = g[i - 1])
      BY <1>4, <2>2
    <3> QED
      BY <1>5, <3>1 DEF Picks
  <2> QED
    BY <2>1, <2>2
<1> QED
  BY <1>2, <1>4, <1>7, <1>8

\* What is left of a sequence is a sequence of members of S.
LEMMA OnlyTyped ==
    ASSUME NEW A, NEW s \in Seq(A), NEW S
    PROVE  Only(s, S) \in Seq(S)
<1> DEFINE n == Len(s)
           Is(f) == f = [i \in 0 .. n |-> IF i = 0 THEN <<>> ELSE Step(s, S, f[i - 1], i)]
           f == CHOOSE f : Is(f)
<1>1. n \in Nat
  OBVIOUS
<1>2. Only(s, S) = f[n]
  BY DEF Only, Step
<1>3. \E g : Is(g)
  <2> HIDE DEF n
  <2>1. PICK g \in [0 .. n -> Seq(S)] : Picks(s, S, n, g)
    BY <1>1, PickedExists
  <2>2. g = [i \in 0 .. n |-> g[i]]
    OBVIOUS
  <2> QED
    BY <2>1, <2>2 DEF Picks
<1>4. Is(f)
  BY <1>3
<1> HIDE DEF f, n
<1> DEFINE Other == {i \in 0 .. n : f[i] \notin Seq(S)}
<1>5. SUFFICES ASSUME Other # {} PROVE FALSE
  BY <1>1, <1>2
<1>6. PICK i \in Other : \A k \in Other : i <= k
  <2>1. Other \subseteq Nat
    BY <1>1
  <2> HIDE DEF Other
  <2> QED
    BY <1>5, <2>1, Least
<1>7. i \in 0 .. n /\ f[i] \notin Seq(S)
  BY <1>6
<1>8. f[i] = IF i = 0 THEN <<>> ELSE Step(s, S, f[i - 1], i)
  BY <1>4, <1>7
<1>9. i # 0 => f[i - 1] \in Seq(S)
  <2> SUFFICES ASSUME i # 0 PROVE i - 1 \notin Other
    BY <1>1, <1>7
  <2>1. ~ (i <= i - 1)
    BY <1>1, <1>7
  <2> HIDE DEF Other
  <2> QED
    BY <1>6, <2>1
<1>10. \A q \in Seq(S) : Step(s, S, q, i) \in Seq(S)
  BY AppendProperties DEF Step
<1>11. <<>> \in Seq(S)
  BY EmptySeq
<1> QED
  BY <1>7, <1>8, <1>9, <1>10, <1>11

-----------------------------------------------------------------------------
(* Constants, and what saves and sends make of the chats.                  *)

LEMMA OneMoreAtMost ==
    ASSUME NEW S, IsFiniteSet(S), NEW n \in Nat, Cardinality(S) <= n, NEW x, NEW T, T = S \cup {x}
    PROVE  IsFiniteSet(T) /\ Cardinality(T) <= n + 1
<1>1. Cardinality(S) \in Nat
  BY FS_CardinalityType
<1>2. IsFiniteSet(S \cup {x}) /\ Cardinality(S \cup {x}) \in {Cardinality(S), Cardinality(S) + 1}
  BY FS_AddElement
<1> QED
  BY <1>1, <1>2

LEMMA FourAtMost == ASSUME NEW a, NEW b, NEW c, NEW d PROVE Cardinality({a, b, c, d}) <= 4
<1>1. IsFiniteSet({a}) /\ Cardinality({a}) <= 1
  <2>1. Cardinality({a}) = 1 /\ IsFiniteSet({a})
    BY FS_Singleton
  <2> QED
    BY <2>1
<1>2. IsFiniteSet({a, b}) /\ Cardinality({a, b}) <= 1 + 1
  <2>1. {a, b} = {a} \cup {b}
    OBVIOUS
  <2> QED
    BY <1>1, <2>1, OneMoreAtMost
<1>3. IsFiniteSet({a, b, c}) /\ Cardinality({a, b, c}) <= 1 + 1 + 1
  <2>1. {a, b, c} = {a, b} \cup {c}
    OBVIOUS
  <2> QED
    BY <1>2, <2>1, OneMoreAtMost
<1>4. Cardinality({a, b, c, d}) <= 1 + 1 + 1 + 1
  <2>1. {a, b, c, d} = {a, b, c} \cup {d}
    OBVIOUS
  <2> QED
    BY <1>3, <2>1, OneMoreAtMost
<1> QED
  BY <1>4

\* None and Bad are told apart, from each other and from every content, list and flush.
LEMMA Distinct ==
    /\ None # Bad /\ None \notin Chats /\ None \notin Runs
    /\ None \notin Contents /\ Bad \notin Contents
    /\ \A L \in Lists : L # None /\ L # Bad
    /\ \A f \in Flushes : f # None
    /\ Now # None
<1>1. None # Bad
  <2>1. Cardinality({None, Bad, Partial, Interrupted, Reply}) = 5
    BY StoreAssumption
  <2>2. None = Bad => {None, Bad, Partial, Interrupted, Reply} = {None, Partial, Interrupted, Reply}
    OBVIOUS
  <2>3. Cardinality({None, Partial, Interrupted, Reply}) <= 4
    BY FourAtMost
  <2>4. None = Bad => Cardinality({None, Partial, Interrupted, Reply}) = 5
    BY <2>1, <2>2
  <2> QED
    BY <2>3, <2>4
<1>2. None \notin Chats /\ None \notin Runs
  BY StoreAssumption
<1>3. None \notin Contents /\ Bad \notin Contents
  BY StoreAssumption DEF Contents
<1>4. \A L \in Lists : L # None /\ L # Bad
  BY StoreAssumption DEF Lists
<1>5. (\A f \in Flushes : f # None) /\ Now # None
  BY StoreAssumption DEF Now
<1> QED
  BY <1>1, <1>2, <1>3, <1>4, <1>5

\* Runs, replies and the numbers of what is sent are messages.
LEMMA AreMessages == Runs \cup Nat \cup {Partial, Interrupted, Reply} \subseteq Messages
BY DEF Messages

LEMMA AppendTyped == ASSUME NEW s \in Contents, NEW m \in Messages PROVE Append(s, m) \in Contents
BY AppendProperties DEF Contents

\* The chats that are in a list of chats.
ListedIn(s) == {c \in Chats : s[c] # None}

LEMMA ListedIsIn == Listed = ListedIn(sessions)
BY DEF Listed, ListedIn

\* A chat that is written to stays in the list, and so do the others.
LEMMA ChatWritten ==
    ASSUME NEW s \in Chatting, NEW c \in ListedIn(s), NEW t \in Contents
    PROVE  [s EXCEPT ![c] = t] \in Chatting /\ ListedIn([s EXCEPT ![c] = t]) = ListedIn(s)
BY Distinct DEF Chatting, ListedIn

LEMMA MessageAdded ==
    ASSUME NEW s \in Chatting, NEW c \in ListedIn(s), NEW m \in Messages
    PROVE  LET t == [s EXCEPT ![c] = Append(@, m)] IN t \in Chatting /\ ListedIn(t) = ListedIn(s)
<1>1. s[c] \in Contents /\ c \in Chats
  BY DEF Chatting, ListedIn
<1>2. Append(s[c], m) \in Contents
  BY <1>1, AppendTyped
<1> QED
  BY <1>2, ChatWritten

LEMMA GivenUpTyped ==
    ASSUME sessions \in Chatting, open \in Listed, NEW s \in GivenUp
    PROVE  s \in Chatting /\ ListedIn(s) = Listed
<1>1. s = sessions \/ s = [sessions EXCEPT ![open] = Append(@, Reply)]
  BY DEF GivenUp
<1>2. open \in ListedIn(sessions) /\ Reply \in Messages
  BY AreMessages, ListedIsIn
<1>3. LET t == [sessions EXCEPT ![open] = Append(@, Reply)] IN t \in Chatting /\ ListedIn(t) = ListedIn(sessions)
  BY <1>2, MessageAdded
<1> QED
  BY <1>1, <1>3, ListedIsIn

LEMMA SpendTyped == ASSUME budget \in Budget, NEW what \in BudgetNames, Spend(what) PROVE budget' \in Budget
<1>1. budget[what] \in Int /\ budget[what] > 0
  BY DEF Budget, Spend
<1>2. budget[what] - 1 \in Nat
  BY <1>1
<1>3. ASSUME NEW n \in Nat PROVE [budget EXCEPT ![what] = n] \in Budget
  BY DEF Budget
<1> DEFINE n == budget[what] - 1
<1>4. budget' = [budget EXCEPT ![what] = n]
  BY DEF Spend
<1> HIDE DEF n
<1> QED
  BY <1>2, <1>3, <1>4 DEF n

LEMMA SaveTyped ==
    ASSUME SavesTyped, NEW ids \in Lists, persistSessions \/ persistHinted(ids)
    PROVE  SavesTyped'
BY DEF SavesTyped, persistSessions, persistHinted, Hold, Hint, NoHint, saveVars, Lists

-----------------------------------------------------------------------------
(* Types.                                                                  *)

\* A handler that is over with a save keeps what it leaves alone.
Saves == \E ids \in Lists : persistSessions \/ persistHinted(ids)

LEMMA UserSaves == ASSUME StoreTyped, Running, UserStep \/ ReplyDone PROVE SavesTyped'
<1>1. open \in Listed \/ up # "on"
  BY DEF Running
<1>2. up = "on" => {open} \in Lists /\ {} \in Lists
  BY <1>1 DEF Lists, Listed
<1>3. up = "on"
  BY DEF UserStep, ReplyDone, Send, PartialSave, stopStreaming, createSession, setSessionProperty, setSessionArchived,
     switchSession, deleteSession, undo, dismiss, On
<1>4. Saves \/ UNCHANGED saveVars \/ PartialSave
  BY <1>2, <1>3 DEF UserStep, ReplyDone, Send, stopStreaming, createSession, setSessionProperty, setSessionArchived,
     switchSession, deleteSession, undo, dismiss, Saves
<1>5. CASE Saves
  BY <1>5, SaveTyped DEF Saves, StoreTyped
<1>6. CASE UNCHANGED saveVars
  BY <1>6 DEF saveVars, SavesTyped, StoreTyped
<1>7. CASE PartialSave
  BY <1>2, <1>3, <1>7 DEF PartialSave, Hold, Hint, SavesTyped, StoreTyped, Lists
<1> QED
  BY <1>4, <1>5, <1>6, <1>7

\* The messages of the chats, and those of the one that Undo would bring back.
LEMMA UserContents ==
    ASSUME StoreTyped, Running, UserStep \/ ReplyDone
    PROVE  sessions' \in Chatting /\ undoable' \in Undoables \cup {None}
<1>1. up = "on"
  BY DEF UserStep, ReplyDone, Send, PartialSave, stopStreaming, createSession, setSessionProperty, setSessionArchived,
     switchSession, deleteSession, undo, dismiss, On
<1>2. open \in ListedIn(sessions) /\ open \in Listed
  BY <1>1, ListedIsIn DEF Running
<1>3. sessions \in Chatting /\ budget \in Budget
  BY DEF StoreTyped
<1>4. \A s \in GivenUp : s \in Chatting
  BY <1>2, <1>3, GivenUpTyped
<1>5. CASE Send \/ ReplyDone
  <2>1. budget.sends \in Messages /\ Reply \in Messages
    BY <1>3, AreMessages DEF Budget, BudgetNames
  <2>2. \A m \in Messages : [sessions EXCEPT ![open] = Append(@, m)] \in Chatting
    BY <1>2, <1>3, MessageAdded
  <2> QED
    BY <1>5, <2>1, <2>2 DEF Send, ReplyDone, StoreTyped
<1>6. CASE PartialSave \/ setSessionProperty \/ setSessionArchived \/ dismiss
  BY <1>6 DEF PartialSave, setSessionProperty, setSessionArchived, dismiss, StoreTyped
<1>7. CASE stopStreaming \/ \E c \in Chats : switchSession(c)
  BY <1>4, <1>7 DEF stopStreaming, switchSession, StoreTyped
<1>8. CASE createSession
  <2>1. <<>> \in Contents
    BY EmptySeq DEF Contents
  <2> QED
    BY <1>8, <2>1 DEF createSession, StoreTyped, Chatting
<1>9. ASSUME NEW c \in Chats, deleteSession(c) PROVE sessions' \in Chatting /\ undoable' \in Undoables \cup {None}
  <2>1. sessions[c] \in Contents
    BY <1>3, <1>9 DEF deleteSession, Listed, Chatting
  <2>2. sessions' \in Chatting
    BY <1>3, <1>9 DEF deleteSession, Chatting
  <2>3. (c = open) \in BOOLEAN
    OBVIOUS
  <2> DEFINE b == c = open
  <2>4. b \in BOOLEAN /\ undoable' = [chat |-> c, messages |-> sessions[c], wasOpen |-> b]
    BY <1>9 DEF deleteSession
  <2> HIDE DEF b
  <2>5. undoable' \in Undoables
    BY <2>1, <2>4 DEF Undoables
  <2> QED
    BY <2>2, <2>5
<1>10. CASE undo
  <2>1. undoable \in Undoables
    BY <1>10 DEF undo, StoreTyped
  <2>2. undoable.chat \in Chats /\ undoable.messages \in Contents
    BY <2>1 DEF Undoables
  <2>3. PICK now \in Chatting : sessions' = [now EXCEPT ![undoable.chat] = undoable.messages]
    BY <1>3, <1>4, <1>10 DEF undo
  <2>4. sessions' \in Chatting
    BY <2>2, <2>3 DEF Chatting
  <2> QED
    BY <1>10, <2>4 DEF undo
<1> QED
  BY <1>5, <1>6, <1>7, <1>8, <1>9, <1>10 DEF UserStep

LEMMA UserTyped == ASSUME StoreTyped, Running, UserStep \/ ReplyDone PROVE StoreTyped'
<1>1. SavesTyped' /\ sessions' \in Chatting /\ undoable' \in Undoables \cup {None}
  BY UserSaves, UserContents
<1>2. up = "on" /\ open \in Listed
  BY DEF UserStep, ReplyDone, Send, PartialSave, stopStreaming, createSession, setSessionProperty, setSessionArchived,
     switchSession, deleteSession, undo, dismiss, On, Running
<1>3. loading' \in BOOLEAN /\ writtenIndex' \in Lists \cup {None}
  BY DEF UserStep, ReplyDone, Send, PartialSave, stopStreaming, createSession, setSessionProperty, setSessionArchived,
     switchSession, deleteSession, undo, dismiss, StoreTyped, edited
<1>4. open' \in Chats \cup {None}
  <2>1. undoable # None => undoable.chat \in Chats
    BY DEF StoreTyped, Undoables
  <2> QED
    BY <2>1 DEF UserStep, ReplyDone, Send, PartialSave, stopStreaming, createSession, setSessionProperty,
       setSessionArchived, switchSession, deleteSession, undo, dismiss, StoreTyped, Listed, NextOpen
<1>5. used' \in Lists /\ kept' \in Lists
  BY DEF UserStep, ReplyDone, Send, PartialSave, stopStreaming, createSession, setSessionProperty, setSessionArchived,
     switchSession, deleteSession, undo, dismiss, StoreTyped, Lists
<1>6. undone' \in Lists
  BY DEF UserStep, ReplyDone, Send, PartialSave, stopStreaming, createSession, setSessionProperty, setSessionArchived,
     switchSession, deleteSession, undo, dismiss, StoreTyped, Lists
<1>7. budget' \in Budget
  <2>1. \A what \in BudgetNames : Spend(what) => budget' \in Budget
    BY SpendTyped DEF StoreTyped
  <2>2. {"sends", "edits", "undos"} \subseteq BudgetNames
    BY DEF BudgetNames
  <2> QED
    BY <2>1, <2>2 DEF UserStep, ReplyDone, Send, PartialSave, stopStreaming, createSession, setSessionProperty,
       setSessionArchived, switchSession, deleteSession, undo, dismiss, StoreTyped
<1>8. UNCHANGED <<up, ready, written, blocked, damaged, flushing, file, index, bak, deleting>>
  BY DEF UserStep, ReplyDone, Send, PartialSave, stopStreaming, createSession, setSessionProperty, setSessionArchived,
     switchSession, deleteSession, undo, dismiss, edited, diskVars
<1> QED
  BY <1>1, <1>3, <1>4, <1>5, <1>6, <1>7, <1>8 DEF StoreTyped

\* What a flush gives a file is a chat's content.
LEMMA KnownTyped ==
    ASSUME StoreTyped, NEW c \in Chats
    PROVE  Known(c) \in Contents \cup {None, Bad} /\ (c \in Listed => Known(c) # None /\ Content(c) \in Contents)
<1>1. CASE c \in Listed
  <2>1. sessions[c] \in Contents
    BY <1>1 DEF StoreTyped, Chatting, Listed
  <2>2. Content(c) \in Contents
    BY <2>1, AppendTyped, AreMessages DEF Content
  <2>3. written[c] \in Contents \cup {None, Bad}
    BY DEF StoreTyped, Files
  <2> QED
    BY <1>1, <2>2, <2>3, Distinct DEF Known
<1> QED
  BY <1>1 DEF Known

LEMMA FlushTyped ==
    ASSUME StoreTyped, Flush
    PROVE  SavesTyped' /\ written' \in Files /\ flushing' \in Flushes
<1>1. SavesTyped'
  BY DEF Flush, StoreTyped, SavesTyped, Lists
<1>2. written' \in Files
  <2>1. \A c \in Chats : Known(c) \in Contents \cup {None, Bad}
    BY KnownTyped
  <2> QED
    BY <2>1 DEF Flush, Files
<1>3. flushing' \in Flushes
  BY DEF Flush, Flushes, Listed
<1> QED
  BY <1>1, <1>2, <1>3

\* A flush at work is a record; each step leaves it one.
LEMMA FlushStepTyped ==
    ASSUME StoreTyped, (\E c \in Chats : FlushChat(c)) \/ FlushIndex \/ FlushBak \/ FlushEnd
    PROVE  StoreTyped' /\ flushing \in Flushes
<1>1. flushing \in Flushes
  <2>1. flushing # None /\ flushing.stage \in {"chats", "bak", "end"}
    BY DEF FlushChat, FlushIndex, FlushBak, FlushEnd, Idle
  <2>2. Now.stage = "now"
    BY DEF Now
  <2> QED
    BY <2>1, <2>2 DEF StoreTyped
<1>2. flushing.todo \in Lists /\ flushing.list \in Lists /\ flushing.removed \in Lists
  BY <1>1 DEF Flushes, Lists
<1>3. flushing' \in Flushes \cup {None, Now}
  BY <1>1 DEF FlushChat, FlushIndex, FlushBak, FlushEnd, Flushes
<1>4. file' \in Files
  BY DEF FlushChat, FlushIndex, FlushBak, FlushEnd, diskVars, StoreTyped, Files
<1>5. index' \in Lists \cup {None, Bad} /\ bak' \in Lists \cup {None, Bad} /\ writtenIndex' \in Lists \cup {None}
  BY <1>2 DEF FlushChat, FlushIndex, FlushBak, FlushEnd, diskVars, StoreTyped
<1>6. deleting' \in Lists /\ kept' \in Lists
  BY <1>2 DEF FlushChat, FlushIndex, FlushBak, FlushEnd, diskVars, StoreTyped, Lists
<1>7. UNCHANGED <<flushed, undone>>
  BY DEF FlushChat, FlushIndex, FlushBak, FlushEnd
<1> QED
  BY <1>1, <1>3, <1>4, <1>5, <1>6, <1>7 DEF flushed, saveVars, StoreTyped, SavesTyped

\* What is shown at a start was in the files.
LEMMA LoadedTyped == ASSUME StoreTyped, NEW c \in Chats PROVE Loaded(c) \in Contents
<1>1. CASE file[c] \in {None, Bad}
  BY <1>1, EmptySeq DEF Loaded, Contents
<1>2. CASE file[c] \notin {None, Bad}
  <2>1. file[c] \in Seq(Messages)
    BY <1>2 DEF StoreTyped, Files, Contents
  <2> DEFINE s == file[c]
  <2>2. DOMAIN s = 1 .. Len(s) /\ Len(s) \in Nat /\ \A k \in 1 .. Len(s) : s[k] \in Messages
    BY <2>1
  <2>3. \A k \in 1 .. Len(s) : (IF s[k] = Partial THEN Interrupted ELSE s[k]) \in Messages
    BY <2>2, AreMessages
  <2>4. Loaded(c) = [k \in 1 .. Len(s) |-> IF s[k] = Partial THEN Interrupted ELSE s[k]]
    BY <1>2, <2>2 DEF Loaded
  <2> HIDE DEF s
  <2> QED
    BY <2>2, <2>3, <2>4, IsASeq DEF Contents
<1> QED
  BY <1>1, <1>2

LEMMA ShowTyped ==
    ASSUME StoreTyped, NEW list \in Lists, Show(list)
    PROVE  sessions' \in Chatting /\ open' \in Chats /\ used' \in Lists /\ damaged' \in Lists /\ written' \in Files
<1>1. PICK c \in (IF list = {} THEN Chats \ used ELSE list) :
        /\ open' = c
        /\ sessions' = [d \in Chats |-> IF d \in list THEN Loaded(d) ELSE IF d = c THEN <<>> ELSE None]
        /\ used' = used \cup {c} \cup list
        /\ damaged' = {d \in list : file[d] = Bad}
        /\ written' = [d \in Chats |-> IF d \notin list \/ file[d] = Bad THEN None
                                       ELSE IF file[d] = None THEN Bad ELSE file[d]]
  BY DEF Show
<1>2. c \in Chats /\ list \subseteq Chats
  BY DEF Lists
<1>3. <<>> \in Contents /\ \A d \in Chats : Loaded(d) \in Contents
  BY LoadedTyped, EmptySeq DEF Contents
<1>4. sessions' \in Chatting
  BY <1>1, <1>3 DEF Chatting
<1>5. written' \in Files
  BY <1>1 DEF Files, StoreTyped
<1>6. used' \in Lists /\ damaged' \in Lists
  BY <1>1, <1>2 DEF Lists, StoreTyped
<1> QED
  BY <1>1, <1>2, <1>4, <1>5, <1>6

\* The chats whose list a start reads.
LEMMA ReadTyped ==
    ASSUME StoreTyped
    PROVE  (IF ~HasIndex \/ ReadIndex = Bad THEN {} ELSE ReadIndex) \in Lists
<1>1. {} \in Lists
  BY DEF Lists
<1> QED
  BY <1>1, Distinct DEF StoreTyped, ReadIndex

LEMMA StartTyped == ASSUME StoreTyped, Load \/ Prepared \/ rebuildIndex \/ Start PROVE StoreTyped'
<1>1. SavesTyped'
  BY DEF Load, Prepared, rebuildIndex, Start, Released, Hold, NoHint, saveVars, StoreTyped, SavesTyped
<1>2. CASE Load
  <2>1. sessions' \in Chatting /\ open' \in Chats /\ used' \in Lists /\ damaged' \in Lists /\ written' \in Files
    BY <1>2, ShowTyped, ReadTyped DEF Load
  <2>2. blocked' \in BOOLEAN /\ up' = "on"
    BY <1>2 DEF Load, Unreadable
  <2>3. writtenIndex' \in Lists \cup {None}
    BY <1>2 DEF Load, StoreTyped, Lists
  <2>4. UNCHANGED <<ready, loading, undoable, flushing, diskVars, deleting, kept, undone, budget>>
    BY <1>2 DEF Load
  <2> QED
    BY <1>1, <2>1, <2>2, <2>3, <2>4 DEF StoreTyped, diskVars
<1>3. CASE rebuildIndex
  <2> DEFINE all == {c \in Chats : file[c] # None}
  <2>1. all \in Lists
    BY DEF Lists
  <2>2. /\ Show(all) /\ index' = all /\ bak' = all /\ writtenIndex' = all /\ blocked' = FALSE
        /\ undone' = undone \cup (all \cap deleting)
        /\ UNCHANGED <<up, ready, loading, undoable, flushing, file, deleting, kept, budget>>
    BY <1>3 DEF rebuildIndex
  <2> HIDE DEF all
  <2>3. sessions' \in Chatting /\ open' \in Chats /\ used' \in Lists /\ damaged' \in Lists /\ written' \in Files
    BY <2>1, <2>2, ShowTyped
  <2>4. undone' \in Lists
    BY <2>1, <2>2 DEF StoreTyped, Lists
  <2> QED
    BY <1>1, <2>1, <2>2, <2>3, <2>4 DEF StoreTyped
<1>4. CASE Prepared
  <2>1. /\ ready' = TRUE
        /\ UNCHANGED <<up, sessions, open, loading, written, writtenIndex, blocked, damaged, undoable, flushing,
                       diskVars, deleting, used, kept, undone, budget>>
    BY <1>4 DEF Prepared
  <2> QED
    BY <1>1, <2>1 DEF StoreTyped, diskVars
<1>5. CASE Start
  BY <1>1, <1>5 DEF Start, StoreTyped, diskVars
<1> QED
  BY <1>2, <1>3, <1>4, <1>5

LEMMA EndTyped == ASSUME StoreTyped, Quit \/ Kill PROVE StoreTyped'
<1>1. Gone
  BY DEF Quit, Kill
<1>2. NoChats \in Chatting /\ NoChats \in Files /\ {} \in Lists
  BY DEF NoChats, Chatting, Files, Lists
<1>3. budget' \in Budget
  <2>1. \A what \in BudgetNames : Spend(what) => budget' \in Budget
    BY SpendTyped DEF StoreTyped
  <2>2. {"quits", "kills"} \subseteq BudgetNames
    BY DEF BudgetNames
  <2> QED
    BY <2>1, <2>2 DEF Quit, Kill
<1>4. deleting' \in Lists
  BY <1>2 DEF Quit, Kill, StoreTyped
<1> QED
  BY <1>1, <1>2, <1>3, <1>4 DEF Gone, StoreTyped, SavesTyped, diskVars

LEMMA DiskTyped ==
    ASSUME StoreTyped, (\E c \in Chats : DeleteFile(c) \/ DamageFile(c)) \/ DamageIndex \/ LoseIndex
    PROVE  StoreTyped'
<1>1. budget' \in Budget
  <2>1. \A what \in BudgetNames : Spend(what) => budget' \in Budget
    BY SpendTyped DEF StoreTyped
  <2>2. {"damage", "lost"} \subseteq BudgetNames
    BY DEF BudgetNames
  <2> QED
    BY <2>1, <2>2 DEF DeleteFile, DamageFile, DamageIndex, LoseIndex, StoreTyped
<1>2. file' \in Files
  BY DEF DeleteFile, DamageFile, DamageIndex, LoseIndex, StoreTyped, Files
<1>3. index' \in Lists \cup {None, Bad} /\ bak' \in Lists \cup {None, Bad}
  BY DEF DeleteFile, DamageFile, DamageIndex, LoseIndex, StoreTyped
<1>4. deleting' \in Lists /\ kept' \in Lists
  BY DEF DeleteFile, DamageFile, DamageIndex, LoseIndex, StoreTyped, Lists
<1>5. UNCHANGED <<memVars, used, undone>>
  BY DEF DeleteFile, DamageFile, DamageIndex, LoseIndex
<1> QED
  BY <1>1, <1>2, <1>3, <1>4, <1>5 DEF memVars, StoreTyped, SavesTyped

\* The runs that scan finds, and what it adds to a chat, are runs.
LEMMA UnmergedTyped == ASSUME inbox \in Seq(Runs) PROVE Unmerged \in Seq(Runs)
<1>1. Unmerged \in Seq(Runs \ merged)
  BY OnlyTyped DEF Unmerged
<1> QED
  BY <1>1, SeqMonotonic

LEMMA AddsTyped ==
    ASSUME inbox \in Seq(Runs), NEW S, S \subseteq ToSet(Unmerged)
    PROVE  Only(Unmerged, S) \in Contents
<1>1. Unmerged \in Seq(Runs)
  BY UnmergedTyped
<1>2. ToSet(Unmerged) \subseteq Runs
  BY <1>1 DEF ToSet
<1>3. Only(Unmerged, S) \in Seq(S)
  BY <1>1, OnlyTyped
<1> QED
  BY <1>2, <1>3, AreMessages, SeqMonotonic DEF Contents

\* scan adds runs to chats of the list, and its save is over.
LEMMA ScanChats ==
    ASSUME TypeOK, scan
    PROVE  sessions' \in Chatting /\ Listed' = Listed
<1> DEFINE here == {r \in ToSet(Unmerged) : job[r].chat \in Listed}
           added == {r \in {r \in here : ~Later(r)} : ~Present(r)}
           adds(c) == Only(Unmerged, {r \in added : job[r].chat = c})
<1>1. sessions' = [c \in Chats |-> IF c \in Listed THEN sessions[c] \o adds(c) ELSE None]
  BY DEF scan
<1>2. \A c \in Chats : adds(c) \in Contents
  BY AddsTyped DEF TypeOK
<1> HIDE DEF adds
<1>3. \A c \in Listed : sessions[c] \o adds(c) \in Contents
  <2> SUFFICES ASSUME NEW c \in Listed PROVE sessions[c] \o adds(c) \in Contents
    OBVIOUS
  <2>1. sessions[c] \in Contents /\ adds(c) \in Contents
    BY <1>2 DEF TypeOK, StoreTyped, Chatting, Listed
  <2> QED
    BY <2>1, ConcatProperties DEF Contents
<1>4. sessions' \in Chatting
  BY <1>1, <1>3 DEF Chatting
<1>5. Listed' = {c \in Chats : sessions'[c] # None}
  BY DEF Listed
<1>6. \A c \in Chats : sessions'[c] # None <=> c \in Listed
  BY <1>1, <1>3, Distinct
<1> QED
  BY <1>4, <1>5, <1>6 DEF Listed

LEMMA ScanTyped == ASSUME TypeOK, scan PROVE TypeOK'
<1>1. sessions' \in Chatting
  BY ScanChats
<1>2. SavesTyped'
  <2>1. UNCHANGED saveVars \/ persistSessions
    BY DEF scan, SaveMerged
  <2>2. {} \in Lists
    BY DEF Lists
  <2>3. SavesTyped
    BY DEF TypeOK, StoreTyped
  <2>4. CASE persistSessions
    BY <2>2, <2>3, <2>4, SaveTyped
  <2>5. CASE UNCHANGED saveVars
    BY <2>3, <2>5 DEF saveVars, SavesTyped
  <2> QED
    BY <2>1, <2>4, <2>5
<1>3. flushing' \in {flushing, Now} /\ writtenIndex' \in {writtenIndex, None}
  BY DEF scan, Now
<1>4. UNCHANGED <<up, ready, open, loading, written, blocked, damaged, undoable, diskVars, deleting, used, kept, undone,
                  budget, jobVars, inbox>>
  BY DEF scan
<1> QED
  BY <1>1, <1>2, <1>3, <1>4 DEF TypeOK, StoreTyped, diskVars, jobVars

LEMMA JobTyped == ASSUME TypeOK, Locked, NEW r \in Runs, JobStep(r) \/ JobDies(r) PROVE TypeOK'
<1>1. budget' \in Budget
  <2>1. \A what \in BudgetNames : Spend(what) => budget' \in Budget
    BY SpendTyped DEF TypeOK, StoreTyped
  <2>2. {"runs", "deaths"} \subseteq BudgetNames
    BY DEF BudgetNames
  <2> QED
    BY <2>1, <2>2 DEF JobStep, JobDies, find_chat, load_messages, append, write_inbox, storeVars, TypeOK, StoreTyped
<1>2. job[r] \in Jobs /\ job[r].base \in Contents
  BY DEF TypeOK, Jobs
<1>3. file' \in Files /\ inbox' \in Seq(Runs)
  <2>1. CASE append(r)
    <3>1. Appended(r) \in Contents
      BY <1>2, AppendTyped, AreMessages DEF Appended
    <3> QED
      BY <2>1, <3>1 DEF append, inboxVars, TypeOK, StoreTyped, Files
  <2>2. CASE write_inbox(r)
    BY <2>2, AppendProperties DEF write_inbox, storeVars, diskVars, TypeOK, StoreTyped
  <2>3. CASE find_chat(r) \/ load_messages(r) \/ JobDies(r)
    BY <2>3 DEF find_chat, load_messages, JobDies, storeVars, diskVars, inboxVars, TypeOK, StoreTyped
  <2> QED
    BY <2>1, <2>2, <2>3 DEF JobStep
<1>4. lock' \in Runs \cup {None}
  BY DEF JobStep, JobDies, find_chat, load_messages, append, write_inbox, TypeOK
<1>5. job' \in [Runs -> Jobs]
  <2>1. \A p \in Stages : [job EXCEPT ![r].pc = p] \in [Runs -> Jobs]
    BY <1>2 DEF TypeOK, Jobs, Stages
  <2>2. \A p \in Stages, c \in Chats : [job EXCEPT ![r].pc = p, ![r].chat = c] \in [Runs -> Jobs]
    BY <1>2 DEF TypeOK, Jobs, Stages
  <2>3. \A p \in Stages, b \in Contents : [job EXCEPT ![r].pc = p, ![r].base = b] \in [Runs -> Jobs]
    BY <1>2 DEF TypeOK, Jobs, Stages
  <2>4. {"prompt", "append", "inbox", "done", "failed", "dead"} \subseteq Stages
    BY DEF Stages
  <2>5. CASE find_chat(r)
    <3>1. index \in Lists
      BY <2>5 DEF find_chat, TypeOK, StoreTyped
    <3>2. PICK c \in Chats : job' = [job EXCEPT ![r].pc = "prompt", ![r].chat = c]
      BY <2>5, <3>1 DEF find_chat, Lists
    <3> QED
      BY <2>2, <2>4, <3>2
  <2>6. CASE load_messages(r)
    <3>1. job[r].chat \in Chats => file[job[r].chat] \in Contents \cup {None, Bad}
      BY DEF TypeOK, StoreTyped, Files
    <3>2. <<>> \in Contents
      BY EmptySeq DEF Contents
    <3> DEFINE here == file[job[r].chat]
               base == IF here = None THEN <<>> ELSE here
    <3>3. \/ job' = [job EXCEPT ![r].pc = "failed"]
          \/ here # Bad /\ job' = [job EXCEPT ![r].pc = "append", ![r].base = base]
      BY <2>6 DEF load_messages
    <3>4. here # Bad /\ job[r].chat \in Chats => base \in Contents
      BY <3>1, <3>2
    <3>5. job[r].chat \in Chats
      BY <2>6 DEF load_messages, folder_lock, Locked, TypeOK, StoreTyped, Lists
    <3> HIDE DEF here, base
    <3> QED
      <4>1. CASE job' = [job EXCEPT ![r].pc = "failed"]
        BY <2>1, <2>4, <4>1
      <4>2. CASE here # Bad /\ job' = [job EXCEPT ![r].pc = "append", ![r].base = base]
        <5>1. base \in Contents /\ "append" \in Stages
          BY <2>4, <3>4, <3>5, <4>2
        <5> QED
          BY <2>3, <4>2, <5>1
      <4> QED
        BY <3>3, <4>1, <4>2
  <2>7. CASE append(r) \/ write_inbox(r) \/ JobDies(r)
    BY <2>1, <2>4, <2>7 DEF append, write_inbox, JobDies
  <2> QED
    BY <2>5, <2>6, <2>7 DEF JobStep
<1>6. UNCHANGED <<memVars, index, bak, deleting, used, kept, undone>>
  BY DEF JobStep, JobDies, find_chat, load_messages, append, write_inbox, storeVars, diskVars
<1> QED
  BY <1>1, <1>3, <1>4, <1>5, <1>6 DEF TypeOK, StoreTyped, memVars, SavesTyped

-----------------------------------------------------------------------------
(* The chats, their files and the lists.                                   *)

\* A step after which the same chats are in the list, in the same files, and no flush goes on.
Same ==
    /\ Listed' = Listed
    /\ UNCHANGED <<up, written, blocked, damaged, file, index, bak, deleting, used, kept, undone>>
    /\ undoable' \in {undoable, None} /\ (open' = open \/ open' \in Listed)
    /\ \/ UNCHANGED <<flushing, writtenIndex>>
       \/ up = "on" /\ ~Writing /\ ~Writing' /\ writtenIndex' \in {writtenIndex, None}

LEMMA SameKeeps == ASSUME StoreInv, Same PROVE StoreInv'
<1>1. Waits' = Waits /\ Noted' = Noted /\ Indexed' = Indexed /\ Undo' \subseteq Undo /\ Writing' = Writing
  BY DEF Same, Waits, Writing, Noted, Indexed, Undo
<1>2. Doomed' /\ Fresh' /\ KeptStays'
  BY <1>1 DEF StoreInv, Same, Doomed, Fresh, KeptStays, SavedChatsListed
<1>3. Running' /\ BadIsDamaged'
  BY <1>1 DEF StoreInv, Same, Running, BadIsDamaged
<1>4. Flushed'
  <2>1. CASE UNCHANGED <<flushing, writtenIndex>>
    BY <1>1, <2>1 DEF StoreInv, Same, Flushed
  <2>2. CASE up = "on" /\ ~Writing /\ ~Writing' /\ writtenIndex' \in {writtenIndex, None}
    BY <1>1, <2>2 DEF StoreInv, Flushed
  <2> QED
    BY <2>1, <2>2 DEF Same
<1> QED
  BY <1>2, <1>3, <1>4 DEF StoreInv

\* An idle widget has no flush at work.
LEMMA IdleRests == ASSUME Idle PROVE ~Writing /\ Waits = {}
BY Distinct DEF Idle, Writing, Waits

LEMMA UserSame ==
    ASSUME StoreTyped, StoreInv,
           \/ Send \/ ReplyDone \/ PartialSave \/ stopStreaming \/ setSessionProperty \/ setSessionArchived \/ dismiss
           \/ \E c \in Chats : switchSession(c)
    PROVE  Same
<1>1. On
  BY DEF Send, ReplyDone, PartialSave, stopStreaming, setSessionProperty, setSessionArchived, dismiss, switchSession
<1>2. open \in Listed /\ open \in ListedIn(sessions) /\ sessions \in Chatting
  BY <1>1, ListedIsIn DEF On, StoreInv, Running, StoreTyped
<1>3. ListedIn(sessions') = Listed
  <2>1. budget.sends \in Messages /\ Reply \in Messages
    BY AreMessages DEF StoreTyped, Budget, BudgetNames
  <2>2. \A m \in Messages : ListedIn([sessions EXCEPT ![open] = Append(@, m)]) = Listed
    BY <1>2, MessageAdded, ListedIsIn
  <2>3. \A s \in GivenUp : ListedIn(s) = Listed
    BY <1>2, GivenUpTyped
  <2> QED
    BY <2>1, <2>2, <2>3, ListedIsIn DEF Send, ReplyDone, PartialSave, stopStreaming, setSessionProperty,
       setSessionArchived, dismiss, switchSession
<1>4. Listed' = Listed
  BY <1>3 DEF ListedIn, Listed
<1>5. UNCHANGED <<up, written, blocked, damaged, file, index, bak, deleting, used, kept, undone, flushing>>
  BY DEF Send, ReplyDone, PartialSave, stopStreaming, setSessionProperty, setSessionArchived, dismiss, switchSession,
     edited, diskVars
<1>6. undoable' \in {undoable, None} /\ (open' = open \/ open' \in Listed) /\ writtenIndex' \in {writtenIndex, None}
  BY DEF Send, ReplyDone, PartialSave, stopStreaming, setSessionProperty, setSessionArchived, dismiss, switchSession
<1>7. up = "on" /\ ~Writing /\ ~Writing'
  BY <1>1, <1>5, IdleRests DEF On, Writing
<1> QED
  BY <1>4, <1>5, <1>6, <1>7 DEF Same

LEMMA ScanSame == ASSUME TypeOK, StoreInv, scan PROVE Same
<1>1. Listed' = Listed
  BY ScanChats
<1>2. On /\ flushing' \in {flushing, Now} /\ writtenIndex' \in {writtenIndex, None}
  BY DEF scan, Now
<1>3. ~Writing /\ ~Writing'
  <2>1. Now \notin Flushes
    BY DEF Now, Flushes
  <2> QED
    BY <1>2, <2>1, IdleRests DEF On, Writing
<1>4. UNCHANGED <<up, open, written, blocked, damaged, undoable, file, index, bak, deleting, used, kept, undone>>
  BY DEF scan, diskVars
<1> QED
  BY <1>1, <1>2, <1>3, <1>4 DEF Same, On

\* The folder is found to be private; a flush has nothing to save; a file of the inbox is removed.
LEMMA RestSame ==
    ASSUME TypeOK, StoreInv,
           \/ Prepared
           \/ FlushNow /\ ~Flush
           \/ (\E r \in Runs : RemoveFile(r) \/ StrayRemoves(r))
           \/ UNCHANGED vars
    PROVE  Same
<1>1. CASE Prepared
  BY <1>1 DEF Prepared, diskVars, Same, Listed
<1>2. CASE FlushNow /\ ~Flush
  <2>1. flushing # None /\ flushing.stage = "now" /\ flushing' = None
    BY <1>2 DEF FlushNow, Idle
  <2>2. ~Writing /\ ~Writing'
    BY <2>1, Distinct DEF Writing, Flushes
  <2>3. up = "on"
    BY <2>1 DEF StoreInv, Running
  <2> QED
    BY <1>2, <2>2, <2>3 DEF FlushNow, Same, Listed, diskVars
<1>3. CASE (\E r \in Runs : RemoveFile(r) \/ StrayRemoves(r)) \/ UNCHANGED vars
  BY <1>3 DEF RemoveFile, StrayRemoves, vars, storeVars, memVars, diskVars, Same, Listed
<1> QED
  BY <1>1, <1>2, <1>3

\* A new chat has an id that is nowhere yet.
LEMMA CreateKeeps == ASSUME StoreTyped, StoreInv, createSession PROVE StoreInv'
<1>1. PICK c \in Chats \ used :
        sessions' = [sessions EXCEPT ![c] = <<>>] /\ open' = c /\ used' = used \cup {c}
  BY DEF createSession
<1>2. /\ UNCHANGED <<up, written, blocked, damaged, flushing, file, index, bak, deleting, writtenIndex, undoable,
                     kept, undone>>
      /\ On
  BY DEF createSession, edited, diskVars
<1>3. Listed' = Listed \cup {c}
  <2>1. <<>> # None
    BY Distinct, EmptySeq DEF Contents
  <2> QED
    BY <1>1, <2>1 DEF StoreTyped, Chatting, Listed
<1>4. ~Writing /\ ~Writing' /\ Waits = {} /\ Waits' = {} /\ Noted' = Noted /\ Indexed' = Indexed /\ Undo' = Undo
  BY <1>2, IdleRests DEF On, Idle, Writing, Waits, Noted, Indexed, Undo
<1>5. Doomed'
  BY <1>1, <1>2, <1>3, <1>4 DEF StoreInv, Doomed, Fresh
<1>6. Fresh'
  BY <1>1, <1>2, <1>3, <1>4 DEF StoreInv, Fresh
<1>7. KeptStays' /\ Running'
  BY <1>1, <1>2, <1>3 DEF StoreInv, KeptStays, SavedChatsListed, Running, On
<1>8. BadIsDamaged'
  <2>1. file[c] # Bad
    BY <1>1, Distinct DEF StoreInv, Fresh
  <2> QED
    BY <1>2, <1>3, <1>4, <2>1 DEF StoreInv, BadIsDamaged
<1>9. Flushed'
  BY <1>2, <1>4 DEF StoreInv, Flushed
<1> QED
  BY <1>5, <1>6, <1>7, <1>8, <1>9 DEF StoreInv

LEMMA DeleteKeeps == ASSUME StoreTyped, StoreInv, NEW c \in Chats, deleteSession(c) PROVE StoreInv'
<1>1. /\ On /\ c \in Listed /\ sessions' = [sessions EXCEPT ![c] = None] /\ kept' = kept \ {c}
      /\ undoable' = [chat |-> c, messages |-> sessions[c], wasOpen |-> c = open]
      /\ IF c = open THEN open' \in Listed \ {c} ELSE open' = open
      /\ UNCHANGED <<up, written, blocked, damaged, flushing, file, index, bak, deleting, writtenIndex, used, undone>>
  BY DEF deleteSession, edited, diskVars, NextOpen
<1>2. Listed' = Listed \ {c}
  BY <1>1 DEF StoreTyped, Chatting, Listed
<1>3. ~Writing /\ ~Writing' /\ Waits = {} /\ Waits' = {} /\ Noted' = Noted /\ Indexed' = Indexed /\ Undo' \subseteq {c}
  BY <1>1, IdleRests DEF On, Idle, Writing, Waits, Noted, Indexed, Undo
<1>4. Doomed' /\ Fresh'
  BY <1>1, <1>2, <1>3 DEF StoreInv, Doomed, Fresh
<1>5. KeptStays' /\ Running'
  BY <1>1, <1>2 DEF StoreInv, KeptStays, SavedChatsListed, Running, On
<1>6. BadIsDamaged'
  BY <1>1, <1>2, <1>3 DEF StoreInv, BadIsDamaged
<1>7. Flushed'
  BY <1>1, <1>3 DEF StoreInv, Flushed
<1> QED
  BY <1>4, <1>5, <1>6, <1>7 DEF StoreInv

\* Who is brought back while its file is about to go, or damaged, is remembered.
LEMMA UndoKeeps == ASSUME StoreTyped, StoreInv, undo PROVE StoreInv'
<1> DEFINE c == undoable.chat
<1>1. undoable \in Undoables
  BY DEF undo, StoreTyped
<1>2. c \in Chats /\ undoable.messages \in Contents /\ c \in Undo
  BY <1>1 DEF Undoables, Undo, undo
<1>3. open \in Listed /\ On
  BY DEF undo, On, StoreInv, Running
<1>4. PICK now \in Chatting : ListedIn(now) = Listed /\ sessions' = [now EXCEPT ![c] = undoable.messages]
  <2>1. \A s \in GivenUp : s \in Chatting /\ ListedIn(s) = Listed
    BY <1>3, GivenUpTyped DEF StoreTyped
  <2>2. sessions \in Chatting /\ ListedIn(sessions) = Listed
    BY ListedIsIn DEF StoreTyped
  <2> QED
    BY <2>1, <2>2 DEF undo
<1>5. /\ undone' = undone \cup ({c} \cap (deleting \cup damaged)) /\ undoable' = None
      /\ open' \in {open, c}
      /\ UNCHANGED <<up, written, blocked, damaged, flushing, file, index, bak, deleting, writtenIndex, used, kept>>
  BY DEF undo, edited, diskVars
<1> HIDE DEF c
<1>6. Listed' = Listed \cup {c}
  <2>1. \A d \in Chats : sessions'[d] # None <=> now[d] # None \/ d = c
    BY <1>2, <1>4, Distinct DEF Chatting
  <2> QED
    BY <1>2, <1>4, <2>1 DEF Listed, ListedIn
<1>7. ~Writing /\ ~Writing' /\ Waits = {} /\ Waits' = {} /\ Noted' = Noted /\ Indexed' = Indexed /\ Undo' = {}
  BY <1>3, <1>5, IdleRests DEF On, Idle, Writing, Waits, Noted, Indexed, Undo
<1>8. Doomed'
  BY <1>5, <1>6, <1>7 DEF StoreInv, Doomed
<1>9. Fresh'
  BY <1>2, <1>5, <1>6, <1>7 DEF StoreInv, Fresh
<1>10. KeptStays' /\ Running'
  BY <1>3, <1>5, <1>6 DEF StoreInv, KeptStays, SavedChatsListed, Running, On
<1>11. BadIsDamaged'
  BY <1>2, <1>5, <1>6, <1>7 DEF StoreInv, BadIsDamaged
<1>12. Flushed'
  BY <1>5, <1>7 DEF StoreInv, Flushed
<1> QED
  BY <1>8, <1>9, <1>10, <1>11, <1>12 DEF StoreInv

\* A flush begins: what it takes for saved is.
LEMMA FlushKeeps ==
    ASSUME StoreTyped, StoreInv, Flush, ~Writing, up = "on",
           UNCHANGED <<sessions, open, loading, undoable, diskVars, deleting, used, kept, undone, budget>>
    PROVE  StoreInv'
<1>1. /\ flushing' = [stage |-> "chats", todo |-> {c \in Listed : ~Skipped(c) /\ written[c] # Content(c)},
                      list |-> Listed, removed |-> {c \in Chats \ Listed : written[c] # None}]
      /\ written' = [c \in Chats |-> Known(c)]
      /\ ~blocked
      /\ UNCHANGED <<up, open, writtenIndex, blocked, damaged, undoable, file, index, bak, deleting, used, kept,
                     undone>>
  BY DEF Flush, CanFlush, diskVars
<1>2. Listed' = Listed /\ Listed \subseteq Chats
  BY DEF Listed
<1>3. Writing' /\ Waits = {} /\ Waits' = {c \in Listed : ~Skipped(c) /\ written[c] # Content(c)}
  <2>1. flushing' \in Flushes
    BY FlushTyped
  <2> QED
    BY <1>1, <2>1 DEF Writing, Waits
<1>4. Noted' = Listed
  <2>1. \A c \in Chats : written'[c] = Known(c)
    BY <1>1
  <2>2. Noted' = {c \in Chats : Known(c) # None}
    BY <2>1 DEF Noted
  <2>3. \A c \in Chats : c \notin Listed => Known(c) = None
    BY DEF Known
  <2> QED
    BY <1>2, <2>2, <2>3, KnownTyped
<1>5. Indexed' = Indexed /\ Undo' = Undo
  BY <1>1 DEF Indexed, Undo
<1>6. \A c \in Listed \ Waits' : c \in damaged \/ c \in Noted
  <2> SUFFICES ASSUME NEW c \in Listed, c \notin Waits', c \notin damaged PROVE written[c] # None
    BY <1>2 DEF Noted
  <2>1. CASE Skipped(c)
    BY <2>1 DEF Skipped
  <2>2. CASE written[c] = Content(c)
    BY <1>2, <2>2, KnownTyped, Distinct
  <2> QED
    BY <1>3, <2>1, <2>2
<1>7. Doomed'
  BY <1>1, <1>2, <1>3, <1>4, <1>5, <1>6 DEF StoreInv, Doomed
<1>8. Fresh'
  BY <1>1, <1>2, <1>4, <1>5 DEF StoreInv, Fresh
<1>9. KeptStays' /\ Running' /\ BadIsDamaged'
  BY <1>1, <1>2, <1>5 DEF StoreInv, KeptStays, SavedChatsListed, Running, BadIsDamaged
<1>10. Flushed'
  <2>1. flushing'.todo \subseteq Listed \ damaged
    BY <1>1 DEF Skipped
  <2>2. \A c \in flushing'.todo : written'[c] \notin {None, Bad}
    <3> SUFFICES ASSUME NEW c \in flushing'.todo PROVE written'[c] \notin {None, Bad}
      OBVIOUS
    <3>1. c \in Listed /\ ~Skipped(c) /\ c \in Chats
      BY <1>1, <1>2
    <3>2. written'[c] = Content(c)
      BY <1>1, <3>1 DEF Known
    <3> QED
      BY <3>1, <3>2, KnownTyped, Distinct
  <2>3. flushing'.removed = Noted \ Listed /\ flushing'.removed \subseteq used \ Listed
    BY <1>1 DEF StoreInv, Fresh, Noted
  <2>4. flushing'.stage = "chats" /\ flushing'.list = Listed /\ ~blocked'
    BY <1>1
  <2>5. Listed = writtenIndex => Noted \ Listed = {}
    <3>1. writtenIndex # None => Noted \subseteq writtenIndex
      BY DEF StoreInv, Flushed
    <3>2. Listed # None
      BY <1>2, Distinct DEF Lists
    <3> QED
      BY <3>1, <3>2
  <2>6. ~(Writing' => flushing'.stage = "end")
    BY <1>3, <2>4
  <2>7. flushing'.list = writtenIndex' => flushing'.removed = {}
    BY <1>1, <2>3, <2>4, <2>5
  <2>8. flushing'.stage \notin {"bak", "end"} /\ ~(flushing'.stage # "chats")
    BY <2>4
  <2> QED
    BY <1>1, <1>2, <1>3, <1>4, <2>1, <2>2, <2>3, <2>4, <2>6, <2>7, <2>8 DEF Flushed
<1> QED
  BY <1>7, <1>8, <1>9, <1>10 DEF StoreInv

\* The steps of a flush: its files, then the index, its backup, and what is deleted.
LEMMA FlushChatKeeps == ASSUME StoreTyped, StoreInv, NEW c \in Chats, FlushChat(c) PROVE StoreInv'
<1>1. /\ flushing \in Flushes /\ c \in flushing.todo /\ flushing.stage = "chats"
      /\ file' = [file EXCEPT ![c] = written[c]] /\ flushing' = [flushing EXCEPT !.todo = @ \ {c}]
      /\ UNCHANGED <<up, open, sessions, written, writtenIndex, blocked, damaged, undoable, index, bak, deleting, used,
                     kept, undone>>
  BY FlushStepTyped DEF FlushChat, flushed
<1>2. /\ flushing' \in Flushes /\ flushing'.todo = flushing.todo \ {c}
      /\ flushing'.stage = flushing.stage /\ flushing'.list = flushing.list /\ flushing'.removed = flushing.removed
  BY <1>1 DEF Flushes
<1>3. Listed' = Listed /\ Noted' = Noted /\ Indexed' = Indexed /\ Undo' = Undo
  BY <1>1 DEF Listed, Noted, Indexed, Undo
<1>4. Writing /\ Writing' /\ Waits' = Waits \ {c}
  BY <1>1, <1>2 DEF Writing, Waits
<1>5. file'[c] = written[c] /\ (\A d \in Chats \ {c} : file'[d] = file[d])
  BY <1>1 DEF StoreTyped, Files
<1>6. written[c] \notin {None, Bad} /\ c \in Listed /\ c \notin damaged
  BY <1>1, <1>4 DEF StoreInv, Flushed
<1>7. Doomed'
  BY <1>1, <1>3, <1>4, <1>5, <1>6 DEF StoreInv, Doomed
<1>8. Fresh'
  BY <1>1, <1>3, <1>5, <1>6 DEF StoreInv, Fresh
<1>9. KeptStays'
  BY <1>1, <1>3 DEF StoreInv, KeptStays, SavedChatsListed
<1>10. Running'
  <2>1. up = "on"
    BY <1>1, Distinct DEF StoreInv, Running
  <2> QED
    BY <1>1, <1>3, <2>1 DEF StoreInv, Running
<1>11. BadIsDamaged'
  BY <1>1, <1>3, <1>5, <1>6 DEF StoreInv, BadIsDamaged, Listed, Undo, StoreTyped, Undoables
<1>12. Flushed'
  BY <1>1, <1>2, <1>3, <1>4 DEF StoreInv, Flushed
<1> QED
  BY <1>7, <1>8, <1>9, <1>10, <1>11, <1>12 DEF StoreInv

LEMMA FlushIndexKeeps == ASSUME StoreTyped, StoreInv, FlushIndex PROVE StoreInv'
<1>1. /\ flushing \in Flushes /\ flushing.todo = {} /\ flushing.stage = "chats"
      /\ IF flushing.list = writtenIndex
         THEN index' = index /\ flushing' = [flushing EXCEPT !.stage = "end"]
         ELSE index' = flushing.list /\ flushing' = [flushing EXCEPT !.stage = "bak"]
      /\ UNCHANGED <<up, open, sessions, written, writtenIndex, blocked, damaged, undoable, file, bak, deleting, used,
                     kept, undone>>
  BY FlushStepTyped DEF FlushIndex, ChatsDone, flushed
<1>2. /\ flushing' \in Flushes /\ flushing'.todo = {} /\ flushing'.list = flushing.list
      /\ flushing'.removed = flushing.removed
      /\ flushing'.stage = IF flushing.list = writtenIndex THEN "end" ELSE "bak"
  BY <1>1 DEF Flushes
<1>3. Listed' = Listed /\ Noted' = Noted /\ Undo' = Undo /\ Listed \in Lists
  BY <1>1 DEF Listed, Noted, Undo, Lists
<1>4. Writing /\ Writing' /\ Waits = {} /\ Waits' = {}
  BY <1>1, <1>2 DEF Writing, Waits
<1>5. /\ ~blocked /\ flushing.list = Listed /\ Noted = Listed /\ flushing.removed \subseteq used \ Listed
      /\ flushing.list = writtenIndex => flushing.removed = {}
  BY <1>1, <1>4 DEF StoreInv, Flushed
<1>6. up = "on" /\ kept \ undone \subseteq Listed
  <2>1. up = "on"
    BY <1>1, Distinct DEF StoreInv, Running
  <2> QED
    BY <1>5, <2>1 DEF StoreInv, KeptStays, SavedChatsListed
<1>7. index' \in {index, Listed} /\ Indexed' \subseteq Indexed \cup Listed
  BY <1>1, <1>5 DEF Indexed
<1>8. Doomed' /\ Fresh'
  BY <1>1, <1>3, <1>4, <1>5, <1>7 DEF StoreInv, Doomed, Fresh
<1>9. KeptStays'
  <2>1. Listed # None
    BY <1>3, Distinct
  <2>2. CASE index' = index
    BY <1>1, <1>3, <2>2 DEF StoreInv, KeptStays, SavedChatsListed
  <2>3. CASE index' = Listed
    <3>1. index' # None /\ SavedChatsListed'
      BY <1>1, <1>3, <2>1, <2>3 DEF StoreInv, KeptStays, SavedChatsListed
    <3>2. \A i \in {index', bak'} \ {None, Bad} : kept \ undone \subseteq i
      BY <1>1, <1>6, <2>3 DEF StoreInv, KeptStays
    <3> QED
      BY <1>1, <3>1, <3>2 DEF KeptStays
  <2> QED
    BY <1>7, <2>2, <2>3
<1>10. Running' /\ BadIsDamaged'
  BY <1>1, <1>3, <1>6 DEF StoreInv, Running, BadIsDamaged
<1>11. Flushed'
  BY <1>1, <1>2, <1>3, <1>4, <1>5 DEF Flushed
<1> QED
  BY <1>8, <1>9, <1>10, <1>11 DEF StoreInv

LEMMA FlushBakKeeps == ASSUME StoreTyped, StoreInv, FlushBak PROVE StoreInv'
<1>1. /\ flushing \in Flushes /\ flushing.stage = "bak"
      /\ bak' = flushing.list /\ writtenIndex' = flushing.list /\ kept' = kept \cup flushing.list
      /\ flushing' = [flushing EXCEPT !.stage = "end"]
      /\ UNCHANGED <<up, open, sessions, written, blocked, damaged, undoable, file, index, deleting, used, undone>>
  BY FlushStepTyped DEF FlushBak, flushed
<1>2. /\ flushing' \in Flushes /\ flushing'.todo = flushing.todo /\ flushing'.list = flushing.list
      /\ flushing'.removed = flushing.removed /\ flushing'.stage = "end"
  BY <1>1 DEF Flushes
<1>3. Listed' = Listed /\ Noted' = Noted /\ Undo' = Undo /\ Listed \in Lists
  BY <1>1 DEF Listed, Noted, Undo, Lists
<1>4. /\ Writing /\ ~blocked /\ flushing.list = Listed /\ Noted = Listed /\ index = Listed
      /\ flushing.removed \subseteq used \ Listed /\ flushing.todo = {}
  BY <1>1 DEF StoreInv, Flushed, Writing
<1>5. Writing' /\ Waits = {} /\ Waits' = {}
  BY <1>1, <1>2, <1>4 DEF Writing, Waits
<1>6. up = "on" /\ kept \ undone \subseteq Listed
  <2>1. up = "on"
    BY <1>1, Distinct DEF StoreInv, Running
  <2> QED
    BY <1>4, <2>1 DEF StoreInv, KeptStays, SavedChatsListed
<1>7. Indexed' \subseteq Indexed \cup Listed
  BY <1>1, <1>4 DEF Indexed
<1>8. Doomed' /\ Fresh'
  BY <1>1, <1>3, <1>4, <1>5, <1>7 DEF StoreInv, Doomed, Fresh
<1>9. KeptStays'
  <2>1. Listed # None
    BY <1>3, Distinct
  <2> QED
    BY <1>1, <1>3, <1>4, <1>6, <2>1 DEF KeptStays, SavedChatsListed
<1>10. Running' /\ BadIsDamaged'
  BY <1>1, <1>3, <1>6 DEF StoreInv, Running, BadIsDamaged
<1>11. Flushed'
  BY <1>1, <1>2, <1>3, <1>4, <1>5 DEF Flushed
<1> QED
  BY <1>8, <1>9, <1>10, <1>11 DEF StoreInv

\* By the time the helper is told what to delete, no list has it.
LEMMA FlushEndKeeps == ASSUME StoreTyped, StoreInv, FlushEnd PROVE StoreInv'
<1>1. /\ flushing \in Flushes /\ flushing.stage = "end" /\ flushing' = None
      /\ deleting' = deleting \cup flushing.removed
      /\ UNCHANGED <<up, open, sessions, written, writtenIndex, blocked, damaged, undoable, file, index, bak, used,
                     kept, undone>>
  BY FlushStepTyped DEF FlushEnd, flushed, diskVars
<1>2. Listed' = Listed /\ Noted' = Noted /\ Indexed' = Indexed /\ Undo' = Undo
  BY <1>1 DEF Listed, Noted, Indexed, Undo
<1>3. /\ Writing /\ ~blocked /\ Noted = Listed /\ flushing.todo = {} /\ writtenIndex = Listed
      /\ flushing.removed \subseteq used \ Listed
      /\ flushing.removed = {} \/ (index = Listed /\ bak = Listed)
  BY <1>1 DEF StoreInv, Flushed, Writing
<1>4. ~Writing' /\ Waits = {} /\ Waits' = {}
  BY <1>1, <1>3, Distinct DEF Writing, Waits
<1>5. up = "on" /\ kept \ undone \subseteq Listed
  <2>1. up = "on"
    BY <1>1, Distinct DEF StoreInv, Running
  <2> QED
    BY <1>3, <2>1 DEF StoreInv, KeptStays, SavedChatsListed
<1>6. flushing.removed \cap (kept \cup Indexed \cup Noted \cup Listed) \subseteq undone
  <2>1. index = Listed /\ bak = Listed => Indexed \subseteq Listed
    BY DEF Indexed
  <2> QED
    BY <1>3, <1>5, <2>1
<1>7. Doomed' /\ Fresh'
  BY <1>1, <1>2, <1>3, <1>4, <1>6 DEF StoreInv, Doomed, Fresh
<1>8. KeptStays' /\ Running' /\ BadIsDamaged'
  BY <1>1, <1>2, <1>5 DEF StoreInv, KeptStays, SavedChatsListed, Running, BadIsDamaged
<1>9. Flushed'
  BY <1>1, <1>2, <1>3, <1>4 DEF Flushed
<1> QED
  BY <1>7, <1>8, <1>9 DEF StoreInv

\* The helper takes what is in no list.
LEMMA DeleteFileKeeps == ASSUME StoreTyped, StoreInv, NEW c \in Chats, DeleteFile(c) PROVE StoreInv'
<1>1. /\ c \in deleting /\ file' = [file EXCEPT ![c] = None] /\ deleting' = deleting \ {c}
      /\ UNCHANGED <<up, open, sessions, written, writtenIndex, blocked, damaged, undoable, flushing, index, bak, used,
                     kept, undone>>
  BY DEF DeleteFile, memVars
<1>2. Listed' = Listed /\ Noted' = Noted /\ Indexed' = Indexed /\ Undo' = Undo /\ Waits' = Waits /\ Writing' = Writing
  BY <1>1 DEF Listed, Noted, Indexed, Undo, Waits, Writing
<1>3. file'[c] = None /\ (\A d \in Chats \ {c} : file'[d] = file[d])
  BY <1>1 DEF StoreTyped, Files
<1>4. Doomed' /\ Fresh'
  BY <1>1, <1>2, <1>3 DEF StoreInv, Doomed, Fresh
<1>5. KeptStays' /\ Running'
  BY <1>1, <1>2 DEF StoreInv, KeptStays, SavedChatsListed, Running
<1>6. BadIsDamaged'
  BY <1>1, <1>2, <1>3, Distinct DEF StoreInv, BadIsDamaged, Listed, Undo, StoreTyped, Undoables
<1>7. Flushed'
  BY <1>1, <1>2 DEF StoreInv, Flushed
<1> QED
  BY <1>4, <1>5, <1>6, <1>7 DEF StoreInv

\* What is shown: the chats of a list, or a new one.
LEMMA Shown ==
    ASSUME StoreTyped, StoreInv, NEW list \in Lists, Show(list),
           \A c \in list : c \in Indexed \/ file[c] # None
    PROVE  /\ \E c \in Chats : /\ Listed' = list \cup {c} /\ open' = c /\ used' = used \cup list \cup {c}
                               /\ c \in list \/ (c \notin used /\ file[c] = None)
           /\ list \subseteq used /\ damaged' = {c \in list : file[c] = Bad}
           /\ Noted' = list \ damaged'
<1>1. PICK c \in (IF list = {} THEN Chats \ used ELSE list) :
        /\ open' = c
        /\ sessions' = [d \in Chats |-> IF d \in list THEN Loaded(d) ELSE IF d = c THEN <<>> ELSE None]
        /\ used' = used \cup {c} \cup list
        /\ damaged' = {d \in list : file[d] = Bad}
        /\ written' = [d \in Chats |-> IF d \notin list \/ file[d] = Bad THEN None
                                       ELSE IF file[d] = None THEN Bad ELSE file[d]]
  BY DEF Show
<1>2. c \in Chats /\ list \subseteq Chats /\ list \subseteq used
  BY <1>1 DEF Lists, StoreInv, Fresh
<1>3. \A d \in Chats : sessions'[d] # None <=> d \in list \cup {c}
  <2>1. <<>> # None
    BY EmptySeq, Distinct DEF Contents
  <2> QED
    BY <1>1, <2>1, LoadedTyped, Distinct
<1>4. Listed' = list \cup {c}
  <2>1. Listed' = {d \in Chats : sessions'[d] # None}
    BY DEF Listed
  <2> QED
    BY <1>2, <1>3, <2>1
<1>5. Noted' = list \ damaged'
  <2>1. Noted' = {d \in Chats : written'[d] # None}
    BY DEF Noted
  <2>2. \A d \in Chats : written'[d] # None <=> d \in list /\ file[d] # Bad
    BY <1>1, Distinct
  <2> QED
    BY <1>1, <1>2, <2>1, <2>2
<1>6. c \in list \/ (c \notin used /\ file[c] = None)
  BY <1>1, <1>2 DEF StoreInv, Fresh
<1> QED
  BY <1>1, <1>2, <1>4, <1>5, <1>6

\* A start reads the index, or its backup: what is kept is in both.
LEMMA LoadKeeps == ASSUME StoreTyped, StoreInv, Load PROVE StoreInv'
<1> DEFINE list == IF ~HasIndex \/ ReadIndex = Bad THEN {} ELSE ReadIndex
<1>1. /\ up = "starting" /\ up' = "on" /\ blocked' = Unreadable /\ Show(list)
      /\ writtenIndex' = IF index \in {None, Bad} THEN (IF HasIndex /\ index = None THEN {} ELSE None) ELSE index
      /\ UNCHANGED <<undoable, flushing, file, index, bak, deleting, kept, undone>>
  BY DEF Load, diskVars
<1>2. list \in Lists /\ list \subseteq Indexed
  BY ReadTyped DEF ReadIndex, Indexed, Lists
<1>3. ~blocked' => kept \ undone \subseteq list
  <2>1. CASE index = None
    BY <2>1 DEF StoreInv, KeptStays
  <2>2. CASE index # None
    <3>1. ~blocked' => ReadIndex \in {index, bak} \ {None, Bad} /\ list = ReadIndex
      BY <1>1, <2>2, Distinct DEF Unreadable, HasIndex, ReadIndex
    <3> QED
      BY <2>2, <3>1 DEF StoreInv, KeptStays
  <2> QED
    BY <2>1, <2>2
<1>4. writtenIndex' # None => list \subseteq writtenIndex'
  BY <1>1 DEF ReadIndex, HasIndex
<1> HIDE DEF list
<1>5. PICK c \in Chats :
        /\ Listed' = list \cup {c} /\ open' = c /\ used' = used \cup list \cup {c}
        /\ c \in list \/ (c \notin used /\ file[c] = None)
        /\ list \subseteq used /\ damaged' = {d \in list : file[d] = Bad}
        /\ Noted' = list \ damaged'
  BY <1>1, <1>2, Shown
<1>6. up # "on" /\ undoable = None /\ flushing = None /\ Undo' = {} /\ Indexed' = Indexed
  BY <1>1 DEF StoreInv, Running, Undo, Indexed
<1>7. ~Writing' /\ Waits' = {}
  BY <1>1, <1>6, Distinct DEF Writing, Waits
<1>8. Doomed'
  BY <1>1, <1>2, <1>5, <1>6, <1>7, Distinct DEF StoreInv, Doomed, Fresh
<1>9. Fresh'
  BY <1>1, <1>2, <1>5, <1>6 DEF StoreInv, Fresh
<1>10. KeptStays'
  BY <1>1, <1>3, <1>5 DEF StoreInv, KeptStays, SavedChatsListed
<1>11. Running' /\ BadIsDamaged'
  BY <1>1, <1>5, <1>6, Distinct DEF Running, BadIsDamaged
<1>12. Flushed'
  BY <1>4, <1>5, <1>7 DEF Flushed
<1> QED
  BY <1>8, <1>9, <1>10, <1>11, <1>12 DEF StoreInv

\* A rebuilt list has every chat with a file.
LEMMA RebuildKeeps == ASSUME StoreTyped, StoreInv, rebuildIndex PROVE StoreInv'
<1> DEFINE all == {c \in Chats : file[c] # None}
<1>1. /\ On /\ Show(all) /\ index' = all /\ bak' = all /\ writtenIndex' = all /\ blocked' = FALSE
      /\ undone' = undone \cup (all \cap deleting)
      /\ UNCHANGED <<up, undoable, flushing, file, deleting, kept>>
  BY DEF rebuildIndex
<1>2. all \in Lists /\ \A c \in all : file[c] # None
  BY DEF Lists
<1>3. kept \ undone \subseteq all
  BY DEF StoreInv, Doomed, StoreTyped, Lists
<1>4. \A c \in Chats : file[c] = Bad => c \in all
  BY Distinct
<1> HIDE DEF all
<1>5. PICK c \in Chats :
        /\ Listed' = all \cup {c} /\ open' = c /\ used' = used \cup all \cup {c}
        /\ c \in all \/ (c \notin used /\ file[c] = None)
        /\ all \subseteq used /\ damaged' = {d \in all : file[d] = Bad}
        /\ Noted' = all \ damaged'
  BY <1>1, <1>2, Shown
<1>6. ~Writing /\ ~Writing' /\ Waits' = {} /\ Undo' = Undo /\ Indexed' = all
  <2>1. ~Writing /\ ~Writing'
    BY <1>1, IdleRests DEF On, Writing
  <2>2. Indexed' = all
    BY <1>1, <1>2, Distinct DEF Indexed, Lists
  <2> QED
    BY <1>1, <2>1, <2>2 DEF Waits, Undo
<1>7. Doomed'
  BY <1>1, <1>2, <1>3, <1>5, <1>6 DEF StoreInv, Doomed, Fresh
<1>8. Fresh'
  BY <1>1, <1>2, <1>5, <1>6 DEF StoreInv, Fresh
<1>9. KeptStays'
  BY <1>1, <1>2, <1>3, <1>5, Distinct DEF KeptStays, SavedChatsListed
<1>10. Running' /\ BadIsDamaged'
  <2>1. Undo \subseteq Chats
    BY DEF Undo, StoreTyped, Undoables
  <2> QED
    BY <1>1, <1>4, <1>5, <1>6, <2>1, Distinct DEF On, Running, BadIsDamaged
<1>11. Flushed'
  BY <1>1, <1>5, <1>6 DEF Flushed
<1> QED
  BY <1>7, <1>8, <1>9, <1>10, <1>11 DEF StoreInv

\* A widget that is gone, or that starts, has no chats.
LEMMA EndKeeps == ASSUME StoreTyped, StoreInv, Quit \/ Kill PROVE StoreInv'
<1>1. /\ up' = "off" /\ sessions' = NoChats /\ written' = NoChats /\ writtenIndex' = None /\ damaged' = {}
      /\ undoable' = None /\ flushing' = None /\ open' = None
      /\ UNCHANGED <<file, index, bak, used, kept, undone>> /\ deleting' \subseteq deleting
  BY DEF Quit, Kill, Gone, diskVars
<1>2. Listed' = {} /\ Noted' = {} /\ Undo' = {} /\ Indexed' = Indexed
  BY <1>1 DEF Listed, Noted, NoChats, Undo, Indexed
<1>3. ~Writing' /\ Waits' = {}
  BY <1>1, Distinct DEF Writing, Waits
<1>4. Doomed' /\ Fresh'
  BY <1>1, <1>2, <1>3 DEF StoreInv, Doomed, Fresh
<1>5. KeptStays' /\ Running' /\ BadIsDamaged' /\ Flushed'
  BY <1>1, <1>2, <1>3 DEF StoreInv, KeptStays, SavedChatsListed, Running, BadIsDamaged, Flushed
<1> QED
  BY <1>4, <1>5 DEF StoreInv

LEMMA StartKeeps == ASSUME StoreTyped, StoreInv, Start PROVE StoreInv'
<1>1. /\ up # "on" /\ up' # "on"
      /\ UNCHANGED <<sessions, open, written, writtenIndex, blocked, damaged, undoable, flushing, file, index, bak,
                     deleting, used, kept, undone>>
  BY DEF Start, diskVars
<1>2. /\ Listed' = Listed /\ Noted' = Noted /\ Undo' = Undo /\ Indexed' = Indexed /\ Writing' = Writing
      /\ Waits' = Waits
  BY <1>1 DEF Listed, Noted, Undo, Indexed, Writing, Waits
<1>3. Doomed' /\ Fresh' /\ Flushed'
  BY <1>1, <1>2 DEF StoreInv, Doomed, Fresh, Flushed
<1>4. KeptStays' /\ Running' /\ BadIsDamaged'
  BY <1>1, <1>2 DEF StoreInv, KeptStays, SavedChatsListed, Running, BadIsDamaged
<1> QED
  BY <1>3, <1>4 DEF StoreInv

\* While nothing runs a file may be damaged, and index.ini damaged or lost.
LEMMA DamageKeeps ==
    ASSUME StoreTyped, StoreInv, (\E c \in Chats : DamageFile(c)) \/ DamageIndex \/ LoseIndex
    PROVE  StoreInv'
<1>1. /\ up = "off" /\ up' = "off"
      /\ UNCHANGED <<sessions, open, written, writtenIndex, blocked, damaged, undoable, flushing, deleting, used,
                     undone>>
  BY DEF DamageFile, DamageIndex, LoseIndex, memVars
<1>2. /\ Listed' = Listed /\ Noted' = Noted /\ Undo' = Undo /\ Writing' = Writing /\ Waits' = Waits
  BY <1>1 DEF Listed, Noted, Undo, Writing, Waits
<1>3. /\ \A c \in Chats : file[c] # None <=> file'[c] # None
      /\ kept' \in {kept, {}} /\ Indexed' \subseteq Indexed
  <2>1. ASSUME NEW c \in Chats, DamageFile(c)
        PROVE  (\A d \in Chats : file[d] # None <=> file'[d] # None) /\ UNCHANGED <<kept, index, bak>>
    BY <2>1, Distinct DEF DamageFile, StoreTyped, Files
  <2>2. CASE DamageIndex \/ LoseIndex
    BY <2>2 DEF DamageIndex, LoseIndex, Indexed
  <2> QED
    BY <2>1, <2>2 DEF Indexed
<1>4. Doomed' /\ Fresh'
  <2>1. kept \in Lists /\ Indexed \subseteq Chats /\ Noted \subseteq Chats /\ Listed \subseteq Chats
    BY DEF StoreTyped, Indexed, Noted, Listed
  <2>2. Doomed'
    BY <1>1, <1>2, <1>3, <2>1 DEF Lists, StoreInv, Doomed
  <2>3. Fresh'
    BY <1>1, <1>2, <1>3 DEF StoreInv, Fresh
  <2> QED
    BY <2>2, <2>3
<1>5. Flushed'
  <2>1. ~Writing
    BY <1>1, Distinct DEF StoreInv, Running, Writing
  <2> QED
    BY <1>1, <1>2, <2>1 DEF StoreInv, Flushed
<1>6. KeptStays'
  <2>1. SavedChatsListed'
    BY <1>1 DEF SavedChatsListed
  <2>2. /\ index' = None => kept' = {}
        /\ index' # None => \A i \in {index', bak'} \ {None, Bad} : kept' \ undone \subseteq i
    BY Distinct DEF StoreInv, KeptStays, DamageFile, DamageIndex, LoseIndex
  <2> QED
    BY <1>1, <2>1, <2>2 DEF KeptStays
<1>7. Running' /\ BadIsDamaged'
  BY <1>1, <1>2 DEF StoreInv, Running, BadIsDamaged
<1> QED
  BY <1>4, <1>6, <1>7, <1>5 DEF StoreInv

-----------------------------------------------------------------------------
(* Every step.                                                             *)

\* A job writes to a chat's file what it has read from it, with its run.
LEMMA JobKeeps == ASSUME IInv, NEW r \in Runs, JobStep(r) \/ JobDies(r) PROVE StoreInv'
<1>1. UNCHANGED <<memVars, index, bak, deleting, used, kept, undone>>
  BY DEF JobStep, JobDies, find_chat, load_messages, append, write_inbox, storeVars, diskVars
<1>2. /\ \A c \in Chats : file[c] # None => file'[c] # None
      /\ \A c \in Chats : file'[c] = file[c] \/ (file'[c] \in Contents /\ c \in used)
  <2>1. CASE append(r)
    <3>1. job[r] \in Jobs /\ job[r].base \in Contents /\ job[r].chat \in used
      BY <2>1 DEF append, IInv, Locked, TypeOK, Jobs
    <3>2. Appended(r) \in Contents
      BY <3>1, AppendTyped, AreMessages DEF Appended
    <3>3. file' = [file EXCEPT ![job[r].chat] = Appended(r)]
      BY <2>1 DEF append
    <3> QED
      BY <3>1, <3>2, <3>3, Distinct DEF IInv, TypeOK, StoreTyped, Files
  <2>2. CASE ~append(r)
    <3>1. file' = file
      BY <2>2 DEF JobStep, JobDies, find_chat, load_messages, write_inbox, storeVars, diskVars
    <3> QED
      BY <3>1, Distinct
  <2> QED
    BY <2>1, <2>2
<1>3. /\ Listed' = Listed /\ Noted' = Noted /\ Undo' = Undo /\ Indexed' = Indexed /\ Writing' = Writing
      /\ Waits' = Waits
  BY <1>1 DEF memVars, Listed, Noted, Undo, Indexed, Writing, Waits
<1>4. Doomed' /\ Fresh'
  <2>1. kept \in Lists /\ Indexed \subseteq Chats /\ Noted \subseteq Chats /\ Listed \subseteq Chats
    BY DEF IInv, TypeOK, StoreTyped, Indexed, Noted, Listed
  <2>2. Doomed'
    BY <1>1, <1>2, <1>3, <2>1 DEF memVars, Lists, IInv, StoreInv, Doomed
  <2>3. Fresh'
    BY <1>1, <1>2, <1>3, Distinct DEF memVars, IInv, StoreInv, Fresh
  <2> QED
    BY <2>2, <2>3
<1>5. KeptStays' /\ Running' /\ Flushed'
  BY <1>1, <1>3 DEF memVars, IInv, StoreInv, KeptStays, SavedChatsListed, Running, Flushed
<1>6. BadIsDamaged'
  <2>1. \A c \in Chats : file'[c] = Bad => file[c] = Bad
    BY <1>2, Distinct
  <2>2. Listed \subseteq Chats /\ Undo \subseteq Chats
    BY DEF Listed, Undo, IInv, TypeOK, StoreTyped, Undoables
  <2> QED
    BY <1>1, <1>3, <2>1, <2>2 DEF memVars, IInv, StoreInv, BadIsDamaged
<1> QED
  BY <1>4, <1>5, <1>6 DEF StoreInv

LEMMA UserKeeps == ASSUME StoreTyped, StoreInv, UserStep \/ ReplyDone PROVE StoreInv'
<1>1. CASE createSession
  BY <1>1, CreateKeeps
<1>2. CASE \E c \in Chats : deleteSession(c)
  BY <1>2, DeleteKeeps
<1>3. CASE undo
  BY <1>3, UndoKeeps
<1>4. CASE \/ Send \/ ReplyDone \/ PartialSave \/ stopStreaming \/ setSessionProperty \/ setSessionArchived \/ dismiss
           \/ \E c \in Chats : switchSession(c)
  BY <1>4, UserSame, SameKeeps
<1> QED
  BY <1>1, <1>2, <1>3, <1>4 DEF UserStep

\* Where a save takes the chats from memory, no flush is under way.
LEMMA FlushBegins ==
    ASSUME TypeOK, StoreInv, FlushTimer \/ (FlushNow /\ Flush)
    PROVE  StoreTyped' /\ StoreInv'
<1>1. Flush /\ UNCHANGED <<sessions, open, loading, undoable, diskVars, deleting, used, kept, undone, budget>>
  BY DEF FlushTimer, FlushNow
<1>2. ~Writing
  <2>1. CASE FlushTimer
    BY <2>1, IdleRests DEF FlushTimer, On
  <2>2. CASE FlushNow
    BY <2>2 DEF FlushNow, Writing, Flushes
  <2> QED
    BY <2>1, <2>2
<1>3. up = "on"
  BY DEF FlushTimer, FlushNow, On, Idle, StoreInv, Running
<1>4. StoreTyped'
  <2>1. SavesTyped' /\ written' \in Files /\ flushing' \in Flushes
    BY <1>1, FlushTyped DEF TypeOK
  <2>2. UNCHANGED <<up, ready, writtenIndex, blocked, damaged>>
    BY <1>1 DEF Flush
  <2> QED
    BY <1>1, <2>1, <2>2 DEF TypeOK, StoreTyped, diskVars
<1> QED
  BY <1>1, <1>2, <1>3, <1>4, FlushKeeps DEF TypeOK

\* A step of the widget or of a helper, or index.ini damaged or lost.
StoreMoves ==
    \/ UserStep \/ ReplyDone \/ FlushTimer \/ (\E c \in Chats : FlushChat(c)) \/ FlushIndex \/ FlushBak \/ FlushEnd
    \/ Load \/ Prepared \/ rebuildIndex \/ Start \/ Quit \/ Kill
    \/ (\E c \in Chats : DeleteFile(c)) \/ DamageIndex \/ LoseIndex

LEMMA StoreMoved == ASSUME TypeOK, StoreInv, StoreMoves PROVE StoreTyped' /\ StoreInv'
<1>1. StoreTyped /\ Running
  BY DEF TypeOK, StoreInv
<1>2. CASE UserStep \/ ReplyDone
  BY <1>1, <1>2, UserTyped, UserKeeps
<1>3. CASE FlushTimer
  BY <1>3, FlushBegins
<1>4. CASE (\E c \in Chats : FlushChat(c)) \/ FlushIndex \/ FlushBak \/ FlushEnd
  BY <1>1, <1>4, FlushStepTyped, FlushChatKeeps, FlushIndexKeeps, FlushBakKeeps, FlushEndKeeps
<1>5. CASE Load \/ Prepared \/ rebuildIndex \/ Start
  BY <1>1, <1>5, StartTyped, LoadKeeps, RestSame, SameKeeps, RebuildKeeps, StartKeeps
<1>6. CASE Quit \/ Kill
  BY <1>1, <1>6, EndTyped, EndKeeps
<1>7. CASE (\E c \in Chats : DeleteFile(c)) \/ DamageIndex \/ LoseIndex
  BY <1>1, <1>7, DiskTyped, DeleteFileKeeps, DamageKeeps
<1> QED
  BY <1>2, <1>3, <1>4, <1>5, <1>6, <1>7 DEF StoreMoves

\* What the jobs hold stays true while the store moves on and no file is damaged.
LEMMA LockedStays ==
    ASSUME IInv, UNCHANGED jobVars, used \subseteq used',
           lock = None \/ \A c \in Chats : file'[c] = Bad => file[c] = Bad
    PROVE  Locked'
<1> SUFFICES ASSUME NEW r \in Runs
             PROVE  /\ job[r].pc \in {"append", "inbox"} => lock = r
                    /\ job[r].pc = "append" => file'[job[r].chat] # Bad
                    /\ job[r].pc # "new" => job[r].chat \in used'
  BY DEF Locked, jobVars
<1>1. Locked
  BY DEF IInv
<1>2. job[r].pc = "append" => lock # None /\ job[r].chat \in Chats
  BY <1>1, Distinct DEF Locked, IInv, TypeOK, StoreTyped, Lists
<1> QED
  BY <1>1, <1>2 DEF Locked

\* Nothing but damage makes a file one that cannot be read.
LEMMA BadIsOld == ASSUME TypeOK, StoreInv, StoreMoves, NEW c \in Chats, file'[c] = Bad PROVE file[c] = Bad
<1>1. file' = file \/ \E d \in Chats : FlushChat(d) \/ DeleteFile(d)
  BY DEF StoreMoves, UserStep, ReplyDone, Send, PartialSave, stopStreaming, createSession, setSessionProperty,
     setSessionArchived, switchSession, deleteSession, undo, dismiss, edited, FlushTimer, FlushIndex, FlushBak,
     FlushEnd, Load, Prepared, rebuildIndex, Start, Quit, Kill, Gone, DamageIndex, LoseIndex, diskVars
<1>2. ASSUME NEW d \in Chats, FlushChat(d) PROVE file[c] = Bad
  <2>1. Writing /\ d \in flushing.todo /\ file' = [file EXCEPT ![d] = written[d]]
    BY <1>2, FlushStepTyped DEF FlushChat, Writing, TypeOK
  <2>2. written[d] # Bad
    BY <2>1 DEF StoreInv, Flushed
  <2> QED
    BY <2>1, <2>2 DEF TypeOK, StoreTyped, Files
<1>3. ASSUME NEW d \in Chats, DeleteFile(d) PROVE file[c] = Bad
  BY <1>3, Distinct DEF DeleteFile, TypeOK, StoreTyped, Files
<1> QED
  BY <1>1, <1>2, <1>3

LEMMA UsedGrows == ASSUME StoreMoves PROVE used \subseteq used'
BY DEF StoreMoves, UserStep, ReplyDone, Send, PartialSave, stopStreaming, createSession, setSessionProperty,
   setSessionArchived, switchSession, deleteSession, undo, dismiss, FlushTimer, FlushChat, FlushIndex, FlushBak,
   FlushEnd, flushed, Load, Show, Prepared, rebuildIndex, Start, Quit, Kill, Gone, DeleteFile, DamageFile, DamageIndex,
   LoseIndex

LEMMA MovesLocked == ASSUME IInv, StoreMoves, UNCHANGED jobVars PROVE Locked'
BY BadIsOld, UsedGrows, LockedStays DEF IInv

LEMMA JobLocked == ASSUME IInv, NEW r \in Runs, JobStep(r) \/ JobDies(r) PROVE Locked'
<1> SUFFICES ASSUME NEW q \in Runs
             PROVE  /\ job'[q].pc \in {"append", "inbox"} => lock' = q
                    /\ job'[q].pc = "append" => file'[job'[q].chat] # Bad
                    /\ job'[q].pc # "new" => job'[q].chat \in used'
  BY DEF Locked
<1>1. Locked /\ used' = used /\ job \in [Runs -> Jobs]
  BY DEF IInv, TypeOK, JobStep, JobDies, find_chat, load_messages, append, write_inbox, storeVars
<1>2. CASE q # r
  <2>1. job'[q] = job[q]
    BY <1>1, <1>2 DEF JobStep, JobDies, find_chat, load_messages, append, write_inbox
  <2>2. job[q].pc \in {"append", "inbox"} => lock' = q
    <3>1. job[q].pc \in {"append", "inbox"} => lock = q /\ lock # None
      BY <1>1, Distinct DEF Locked
    <3>2. lock = q => job[r].pc \notin {"append", "inbox"}
      BY <1>1, <1>2 DEF Locked
    <3> QED
      BY <1>2, <3>1, <3>2 DEF JobStep, JobDies, find_chat, load_messages, folder_lock, append, write_inbox
  <2>3. job[q].pc = "append" => file' = file
    <3>1. job[q].pc = "append" => job[r].pc # "append"
      BY <1>1, <1>2 DEF Locked
    <3> QED
      BY <3>1 DEF JobStep, JobDies, find_chat, load_messages, append, write_inbox, storeVars, diskVars
  <2> QED
    BY <1>1, <2>1, <2>2, <2>3 DEF Locked
<1>3. CASE q = r
  <2>1. CASE find_chat(r)
    <3>1. PICK c \in index : job' = [job EXCEPT ![r].pc = "prompt", ![r].chat = c]
      BY <2>1 DEF find_chat
    <3>2. index \in Lists /\ index \notin {None, Bad}
      BY <2>1 DEF find_chat, IInv, TypeOK, StoreTyped
    <3>3. c \in used
      BY <3>2 DEF Indexed, Lists, IInv, StoreInv, Fresh
    <3>4. job'[q].pc = "prompt" /\ job'[q].chat = c
      BY <1>1, <1>3, <3>1 DEF Jobs
    <3> QED
      BY <1>1, <3>3, <3>4
  <2>2. CASE load_messages(r)
    <3>1. job'[q].chat = job[q].chat /\ job'[q].pc \in {"failed", "append"} /\ file' = file
      BY <1>1, <1>3, <2>2 DEF load_messages, Jobs, storeVars, diskVars
    <3>2. job'[q].pc = "append" => lock' = r /\ file[job[q].chat] # Bad
      BY <1>1, <1>3, <2>2 DEF load_messages, Jobs
    <3>3. job[q].pc # "new"
      BY <1>3, <2>2 DEF load_messages, folder_lock
    <3> QED
      BY <1>1, <1>3, <3>1, <3>2, <3>3 DEF Locked
  <2>3. CASE append(r)
    <3>1. job'[q].chat = job[q].chat /\ job'[q].pc = "inbox" /\ lock' = lock
      BY <1>1, <1>3, <2>3 DEF append, Jobs
    <3>2. job[q].pc = "append"
      BY <1>3, <2>3 DEF append
    <3> QED
      BY <1>1, <3>1, <3>2 DEF Locked
  <2>4. CASE write_inbox(r) \/ JobDies(r)
    <3>1. job'[q].chat = job[q].chat /\ job'[q].pc \in {"done", "dead"} /\ job[q].pc # "new"
      BY <1>1, <1>3, <2>4 DEF write_inbox, JobDies, Jobs
    <3> QED
      BY <1>1, <3>1 DEF Locked
  <2> QED
    BY <2>1, <2>2, <2>3, <2>4 DEF JobStep
<1> QED
  BY <1>2, <1>3

LEMMA InitInv == ASSUME DeliveryInit PROVE IInv
<1>1. NoChats \in Chatting /\ NoChats \in Files /\ {} \in Lists /\ Listed = {} /\ Noted = {}
  BY DEF DeliveryInit, Init, NoChats, Chatting, Files, Lists, Listed, Noted
<1>2. StoreTyped
  <2>1. budget \in Budget
    BY StoreAssumption DEF DeliveryInit, Init, Budget
  <2> QED
    BY <1>1, <2>1 DEF DeliveryInit, Init, StoreTyped, SavesTyped
<1>3. TypeOK
  <2>1. <<>> \in Contents /\ <<>> \in Seq(Runs)
    BY EmptySeq DEF Contents
  <2>2. [pc |-> "new", chat |-> None, base |-> <<>>] \in Jobs
    BY <2>1 DEF Jobs, Stages
  <2> QED
    BY <1>2, <2>1, <2>2 DEF DeliveryInit, TypeOK
<1>4. ~Writing /\ Waits = {} /\ Indexed = {} /\ Undo = {}
  BY Distinct DEF DeliveryInit, Init, Writing, Waits, Indexed, Undo
<1>5. StoreInv
  <2>1. \A c \in Chats : file[c] = None
    BY DEF DeliveryInit, Init, NoChats
  <2>2. up = "starting" /\ damaged = {} /\ undoable = None /\ flushing = None /\ deleting = {} /\ kept = {} /\ used = {}
        /\ index = None
    BY DEF DeliveryInit, Init
  <2> QED
    BY <1>1, <1>4, <2>1, <2>2 DEF StoreInv, Doomed, Fresh, KeptStays, SavedChatsListed, Running, BadIsDamaged, Flushed
<1>6. Locked
  BY DEF DeliveryInit, Locked
<1> QED
  BY <1>3, <1>5, <1>6 DEF IInv

\* Which steps there are.
LEMMA Steps ==
    ASSUME [DeliveryNext]_vars
    PROVE  \/ StoreMoves /\ UNCHANGED <<jobVars, inbox>>
           \/ (\E c \in Chats : DamageFile(c)) /\ lock = None /\ UNCHANGED <<jobVars, inbox>>
           \/ scan \/ FlushNow
           \/ \E r \in Runs : JobStep(r) \/ JobDies(r)
           \/ (\E r \in Runs : RemoveFile(r) \/ StrayRemoves(r)) \/ UNCHANGED vars
<1>1. CASE StoreStep
  BY <1>1 DEF StoreStep, FlushStep, StoreMoves, inboxVars
<1>2. CASE DamageStep
  BY <1>2 DEF DamageStep, StoreMoves, inboxVars
<1>3. CASE LoadScanned \/ Ends \/ FlushEndSaved
  BY <1>3 DEF LoadScanned, Ends, FlushEndSaved, StoreMoves, inboxVars
<1> QED
  BY <1>1, <1>2, <1>3 DEF DeliveryNext

LEMMA NextInv == ASSUME IInv, [DeliveryNext]_vars PROVE IInv'
<1>1. TypeOK /\ StoreInv /\ Locked /\ StoreTyped
  BY DEF IInv, TypeOK
<1>2. CASE StoreMoves /\ UNCHANGED <<jobVars, inbox>>
  <2>1. StoreTyped' /\ StoreInv' /\ Locked'
    BY <1>1, <1>2, StoreMoved, MovesLocked
  <2> QED
    BY <1>1, <1>2, <2>1 DEF IInv, TypeOK, jobVars
<1>3. CASE (\E c \in Chats : DamageFile(c)) /\ lock = None /\ UNCHANGED <<jobVars, inbox>>
  <2>1. StoreTyped' /\ StoreInv'
    BY <1>1, <1>3, DiskTyped, DamageKeeps
  <2>2. used' = used
    BY <1>3 DEF DamageFile
  <2>3. Locked'
    BY <1>3, <2>2, LockedStays
  <2> QED
    BY <1>1, <1>3, <2>1, <2>3 DEF IInv, TypeOK, jobVars
<1>4. CASE scan
  <2>1. TypeOK' /\ StoreInv'
    BY <1>1, <1>4, ScanTyped, ScanSame, SameKeeps
  <2>2. UNCHANGED <<jobVars, used, file>>
    BY <1>4 DEF scan, diskVars
  <2> QED
    BY <2>1, <2>2, LockedStays DEF IInv
<1>5. CASE FlushNow
  <2>1. StoreInv'
    BY <1>1, <1>5, FlushBegins, RestSame, SameKeeps
  <2>2. UNCHANGED <<jobVars, used, file, inbox>>
    BY <1>5 DEF FlushNow, diskVars, inboxVars
  <2>3. StoreTyped'
    <3>1. CASE Flush
      BY <1>1, <1>5, <3>1, FlushBegins
    <3>2. CASE ~Flush
      BY <1>1, <1>5, <3>2 DEF FlushNow, StoreTyped, SavesTyped, saveVars, diskVars
    <3> QED
      BY <3>1, <3>2
  <2>4. Locked'
    BY <2>2, LockedStays
  <2> QED
    BY <1>1, <2>1, <2>2, <2>3, <2>4 DEF IInv, TypeOK, jobVars
<1>6. CASE \E r \in Runs : JobStep(r) \/ JobDies(r)
  BY <1>1, <1>6, JobTyped, JobKeeps, JobLocked DEF IInv
<1>7. CASE (\E r \in Runs : RemoveFile(r) \/ StrayRemoves(r)) \/ UNCHANGED vars
  <2>1. UNCHANGED <<storeVars, jobVars>>
    BY <1>7 DEF RemoveFile, StrayRemoves, vars
  <2>2. inbox' \in Seq(Runs)
    <3>1. \A r \in Runs : Only(inbox, Runs \ {r}) \in Seq(Runs)
      <4> SUFFICES ASSUME NEW r \in Runs PROVE Only(inbox, Runs \ {r}) \in Seq(Runs)
        OBVIOUS
      <4>1. Only(inbox, Runs \ {r}) \in Seq(Runs \ {r})
        BY <1>1, OnlyTyped DEF TypeOK
      <4> QED
        BY <4>1, SeqMonotonic
    <3> QED
      BY <1>1, <1>7, <3>1 DEF RemoveFile, StrayRemoves, vars, inboxVars, TypeOK
  <2>3. StoreTyped'
    BY <1>1, <2>1 DEF storeVars, memVars, diskVars, StoreTyped, SavesTyped
  <2>4. StoreInv'
    BY <1>1, <1>7, RestSame, SameKeeps
  <2>5. Locked'
    BY <2>1, LockedStays DEF storeVars, diskVars
  <2> QED
    BY <1>1, <2>1, <2>2, <2>3, <2>4, <2>5 DEF IInv, TypeOK, jobVars
<1> QED
  BY <1>2, <1>3, <1>4, <1>5, <1>6, <1>7, Steps

-----------------------------------------------------------------------------
(* What is true of every run.                                              *)

THEOREM SpecInv == DeliverySpec => []IInv
BY InitInv, NextInv, PTL DEF DeliverySpec

\* The state of the store, of the jobs and of the inbox has the form the code gives it: contents are
\* sequences of messages, a flush at work is one of chats, index, backup or end.
THEOREM DeliveryTyped == DeliverySpec => []TypeOK
<1>1. IInv => TypeOK
  BY DEF IInv
<1> QED
  BY <1>1, SpecInv, PTL

\* What is saved is found again: however a flush, its helper, an Undo, a crash, damaged files and jobs cross, no chat
\* that was saved drops out of the list, and none is in the index or its backup without its file.
THEOREM SpecListIntact == DeliverySpec => []ListIntact
<1>1. ASSUME IInv PROVE ListIntact
  <2>1. SavedChatsListed
    BY <1>1 DEF IInv, StoreInv, KeptStays
  <2>2. IndexedHasFile
    <3> SUFFICES ASSUME NEW i \in {index, bak}, i \notin {None, Bad}, NEW c \in i \ undone PROVE file[c] # None
      BY DEF IndexedHasFile
    <3>1. i \in Lists
      BY <1>1 DEF IInv, TypeOK, StoreTyped
    <3>2. c \in Indexed
      BY <3>1 DEF Indexed, Lists
    <3> QED
      BY <1>1, <3>2 DEF IInv, StoreInv, Doomed
  <2> QED
    BY <2>1, <2>2 DEF ListIntact
<1> QED
  BY <1>1, SpecInv, PTL

\* A chat file that cannot be read stays as it is, whatever a flush, a rebuilt list, an Undo or a job does, until its
\* chat's files are to be deleted.
THEOREM SpecDamagedFileStays == DeliverySpec => DamagedFileStays
<1> DEFINE Stays == \A c \in Chats : file[c] = Bad /\ file'[c] # Bad => c \in deleting
<1>1. ASSUME IInv, [DeliveryNext]_vars PROVE Stays
  <2> SUFFICES ASSUME NEW c \in Chats, file[c] = Bad, file'[c] # Bad PROVE c \in deleting
    OBVIOUS
  <2>1. TypeOK /\ StoreInv /\ Locked
    BY <1>1 DEF IInv
  <2>2. file' # file
    OBVIOUS
  <2>3. \/ \E d \in Chats : FlushChat(d) \/ DeleteFile(d) \/ DamageFile(d)
        \/ \E r \in Runs : append(r)
    <3>1. StoreMoves => \E d \in Chats : FlushChat(d) \/ DeleteFile(d)
      BY <2>2 DEF StoreMoves, UserStep, ReplyDone, Send, PartialSave, stopStreaming, createSession, setSessionProperty,
         setSessionArchived, switchSession, deleteSession, undo, dismiss, edited, FlushTimer, FlushIndex, FlushBak,
         FlushEnd, Load, Prepared, rebuildIndex, Start, Quit, Kill, Gone, DamageIndex, LoseIndex, diskVars
    <3>2. ~scan /\ ~FlushNow /\ ~UNCHANGED vars
      BY <2>2 DEF scan, FlushNow, vars, storeVars, diskVars
    <3>3. \A r \in Runs : ~RemoveFile(r) /\ ~StrayRemoves(r) /\ (JobStep(r) \/ JobDies(r) => append(r))
      BY <2>2 DEF RemoveFile, StrayRemoves, JobStep, JobDies, find_chat, load_messages, write_inbox, storeVars, diskVars
    <3> QED
      BY <1>1, <3>1, <3>2, <3>3, Steps
  <2>4. ASSUME NEW d \in Chats, FlushChat(d) PROVE FALSE
    <3>1. Writing /\ d \in flushing.todo /\ file' = [file EXCEPT ![d] = written[d]]
      BY <2>1, <2>4, FlushStepTyped DEF FlushChat, Writing, TypeOK
    <3>2. c = d /\ c \in Listed \ damaged /\ up = "on"
      BY <2>1, <3>1, Distinct DEF StoreInv, Flushed, Running, Writing, TypeOK, StoreTyped, Files
    <3> QED
      BY <2>1, <3>2 DEF StoreInv, BadIsDamaged
  <2>5. ASSUME NEW d \in Chats, DeleteFile(d) PROVE c \in deleting
    BY <2>1, <2>5 DEF DeleteFile, TypeOK, StoreTyped, Files
  <2>6. ASSUME NEW d \in Chats, DamageFile(d) PROVE FALSE
    BY <2>1, <2>6 DEF DamageFile, TypeOK, StoreTyped, Files
  <2>7. ASSUME NEW r \in Runs, append(r) PROVE FALSE
    BY <2>1, <2>7 DEF append, Locked, TypeOK, StoreTyped, Files
  <2> QED
    BY <2>3, <2>4, <2>5, <2>6, <2>7
<1>2. IInv /\ [DeliveryNext]_vars => [Stays]_storeVars
  BY <1>1
<1> QED
  BY <1>2, SpecInv, PTL DEF DeliverySpec, DamagedFileStays

-----------------------------------------------------------------------------
(***************************************************************************)
(* What was saved is what a restart shows, though the widget and the jobs  *)
(* of scheduled runs write the same chat files without a common lock; and  *)
(* a run that was delivered is neither lost nor doubled: for any chats,    *)
(* runs and budgets.                                                       *)
(***************************************************************************)


\* What the widget has of a chat: its messages in the list, or those Undo would bring back.
Mem(c) == IF sessions[c] # None THEN sessions[c] ELSE IF c \in Undo THEN undoable.messages ELSE None
Seen == Listed \cup Undo

Holds(f, m) == f \notin {None, Bad} /\ \E i \in DOMAIN f : f[i] = m

\* What a start would show of a file with this content.
LoadedOf(f) == IF f \in {None, Bad} THEN <<>> ELSE [k \in DOMAIN f |-> IF f[k] = Partial THEN Interrupted ELSE f[k]]

Begun == {r \in Runs : job[r].pc \in {"inbox", "done", "dead"}}
Done == {r \in Runs : job[r].pc = "done"}

\* A run is nowhere before its job has written it.
RunsKnown ==
    /\ \A r \in Runs \ Begun :
          /\ \A c \in Chats : ~Holds(Mem(c), r) /\ ~Holds(written[c], r) /\ ~Holds(file[c], r)
          /\ \A q \in Runs : ~Holds(job[q].base, r)
    /\ \A r \in Runs : job[r].pc = "new" => job[r].chat = None

\* The partial reply is in files alone.
Whole == \A c \in Chats : ~Holds(Mem(c), Partial)

\* No run that was written from memory is gone from it.
Grows == \A c \in Seen : \A r \in Runs : Holds(written[c], r) => Holds(Mem(c), r)

\* What has been merged or discarded was in the inbox, and is removed once.
InboxRight ==
    /\ ToSet(inbox) \cup merged \cup strays \cup discarded \subseteq Done
    /\ toRemove \cup removing \subseteq merged
    /\ toRemove \cap removing = {}

UndoGone == Listed \cap Undo = {}

\* With an index that cannot be read, the chats shown have no files.
BlockedBare ==
    up = "on" /\ blocked =>
        /\ index = Bad /\ pending = "none" /\ Noted = {}
        /\ \A c \in Seen : file[c] = None /\ \A r \in Runs : job[r].chat # c

SavesRight == (pending = "partial" => loading) /\ (pending # "none" => ready /\ up = "on")

\* The chat's file is what the widget wrote last, or as good as that.
Agrees(c) == Loaded(c) = LoadedOf(written[c])

\* The next flush writes the chat: a merged run is not in its file.
Rewrites(c) == pending # "none" /\ full /\ \E r \in Runs : Holds(Mem(c), r) /\ ~Holds(written[c], r)

\* A run that a job put into the chat's file has yet to reach the widget, or was discarded.
Differs(r, c) ==
    /\ job[r].chat = c /\ Holds(file[c], r) /\ ~Holds(Mem(c), r)
    /\ \/ job[r].pc \in {"inbox", "dead"}
       \/ r \in ToSet(inbox) \ (merged \cup strays)
       \/ r \in discarded

Explained(c) == Agrees(c) \/ c \in Waits \/ Rewrites(c) \/ \E r \in Runs : Differs(r, c)
FilesExplained == up = "on" => \A c \in (Seen \cap Noted) \ (damaged \cup undone) : Explained(c)

\* What the user sees of a chat is what was written, or a save of it is on its way.
Clean(c) == written[c] # None /\ sessions[c] = LoadedOf(written[c])
Marked(c) == held \/ (pending # "none" /\ (full \/ c \in dirty)) \/ (loading /\ c = open)
ChatsSaved == up = "on" /\ ~blocked => \A c \in Listed \ damaged : Clean(c) \/ Marked(c)

IndexSaved ==
    up = "on" /\ ~blocked =>
        /\ index # Bad => index = Listed \/ pending # "none" \/ held \/ (Writing /\ flushing.stage = "chats")
        /\ writtenIndex # None /\ ~(Writing /\ flushing.stage = "bak") => writtenIndex = {} \/ index = writtenIndex

RInv ==
    /\ RunsKnown /\ Whole /\ Grows /\ InboxRight /\ UndoGone /\ BlockedBare /\ SavesRight
    /\ FilesExplained /\ ChatsSaved /\ IndexSaved

-----------------------------------------------------------------------------
(* Contents.                                                               *)

LEMMA MessagesDiffer ==
    /\ Partial # Interrupted /\ Partial # Reply
    /\ Runs \cap {None, Bad, Partial, Interrupted, Reply} = {}
    /\ Nat \cap (Runs \cup {Partial, Interrupted, Reply}) = {}
<1>1. Cardinality({None, Bad, Partial, Interrupted, Reply}) = 5
  BY StoreAssumption
<1>2. Partial # Interrupted
  <2>1. Partial = Interrupted => {None, Bad, Partial, Interrupted, Reply} = {None, Bad, Partial, Reply}
    OBVIOUS
  <2>2. Cardinality({None, Bad, Partial, Reply}) <= 4
    BY FourAtMost
  <2>3. Partial = Interrupted => Cardinality({None, Bad, Partial, Reply}) = 5
    BY <1>1, <2>1
  <2> QED
    BY <2>2, <2>3
<1>3. Partial # Reply
  <2>1. Partial = Reply => {None, Bad, Partial, Interrupted, Reply} = {None, Bad, Partial, Interrupted}
    OBVIOUS
  <2>2. Cardinality({None, Bad, Partial, Interrupted}) <= 4
    BY FourAtMost
  <2>3. Partial = Reply => Cardinality({None, Bad, Partial, Interrupted}) = 5
    BY <1>1, <2>1
  <2> QED
    BY <2>2, <2>3
<1>4. /\ Runs \cap {None, Bad, Partial, Interrupted, Reply} = {}
      /\ Nat \cap (Runs \cup {Partial, Interrupted, Reply}) = {}
  BY StoreAssumption
<1> QED
  BY <1>2, <1>3, <1>4

LEMMA NothingHeld == \A m : ~Holds(<<>>, m) /\ ~Holds(None, m) /\ ~Holds(Bad, m)
BY DEF Holds

LEMMA HoldsAppended ==
    ASSUME NEW f \in Contents, NEW x \in Messages, NEW m
    PROVE  Holds(Append(f, x), m) <=> Holds(f, m) \/ m = x
<1>1. f \notin {None, Bad} /\ Append(f, x) \notin {None, Bad}
  BY Distinct, AppendTyped
<1>2. /\ DOMAIN f = 1 .. Len(f) /\ DOMAIN Append(f, x) = 1 .. (Len(f) + 1) /\ Len(f) \in Nat
      /\ \A i \in 1 .. Len(f) : Append(f, x)[i] = f[i]
      /\ Append(f, x)[Len(f) + 1] = x
  BY DEF Contents
<1> QED
  BY <1>1, <1>2 DEF Holds

LEMMA HoldsJoined ==
    ASSUME NEW f \in Contents, NEW g \in Contents, NEW m
    PROVE  Holds(f \o g, m) <=> Holds(f, m) \/ Holds(g, m)
<1>0. f \o g \in Contents
  BY DEF Contents
<1>1. f \notin {None, Bad} /\ g \notin {None, Bad} /\ f \o g \notin {None, Bad}
  BY <1>0, Distinct
<1>2. /\ Len(f) \in Nat /\ Len(g) \in Nat /\ Len(f \o g) = Len(f) + Len(g)
      /\ DOMAIN f = 1 .. Len(f) /\ DOMAIN g = 1 .. Len(g) /\ DOMAIN (f \o g) = 1 .. (Len(f) + Len(g))
      /\ \A i \in 1 .. (Len(f) + Len(g)) : (f \o g)[i] = IF i <= Len(f) THEN f[i] ELSE g[i - Len(f)]
  BY DEF Contents
<1>3. ASSUME Holds(f \o g, m) PROVE Holds(f, m) \/ Holds(g, m)
  <2>1. PICK i \in 1 .. (Len(f) + Len(g)) : (f \o g)[i] = m
    BY <1>2, <1>3 DEF Holds
  <2>2. CASE i <= Len(f)
    BY <1>1, <1>2, <2>1, <2>2 DEF Holds
  <2>3. CASE ~(i <= Len(f))
    <3>1. i - Len(f) \in 1 .. Len(g) /\ g[i - Len(f)] = m
      BY <1>2, <2>1, <2>3
    <3> QED
      BY <1>1, <1>2, <3>1 DEF Holds
  <2> QED
    BY <2>2, <2>3
<1>4. ASSUME Holds(f, m) PROVE Holds(f \o g, m)
  <2>1. PICK i \in 1 .. Len(f) : f[i] = m
    BY <1>2, <1>4 DEF Holds
  <2>2. i \in 1 .. (Len(f) + Len(g)) /\ (f \o g)[i] = m
    BY <1>2, <2>1
  <2> QED
    BY <1>1, <1>2, <2>2 DEF Holds
<1>5. ASSUME Holds(g, m) PROVE Holds(f \o g, m)
  <2>1. PICK i \in 1 .. Len(g) : g[i] = m
    BY <1>2, <1>5 DEF Holds
  <2>2. i + Len(f) \in 1 .. (Len(f) + Len(g)) /\ ~(i + Len(f) <= Len(f)) /\ (i + Len(f)) - Len(f) = i
    BY <1>2, <2>1
  <2>3. (f \o g)[i + Len(f)] = m
    BY <1>2, <2>1, <2>2
  <2> QED
    BY <1>1, <1>2, <2>2, <2>3 DEF Holds
<1> QED
  BY <1>3, <1>4, <1>5

\* Loading changes a partial reply, and nothing else.
LEMMA LoadedHolds ==
    ASSUME NEW f \in Contents \cup {None, Bad}
    PROVE  /\ LoadedOf(f) \in Contents
           /\ \A r \in Runs : Holds(LoadedOf(f), r) <=> Holds(f, r)
           /\ ~Holds(LoadedOf(f), Partial)
           /\ f \in Contents /\ ~Holds(f, Partial) => LoadedOf(f) = f
<1>1. CASE f \in {None, Bad}
  <2>1. LoadedOf(f) = <<>> /\ f \notin Contents
    BY <1>1, Distinct DEF LoadedOf
  <2>2. <<>> \in Contents
    BY EmptySeq DEF Contents
  <2> QED
    BY <1>1, <2>1, <2>2, NothingHeld
<1>2. CASE f \in Contents
  <2> DEFINE g == [k \in DOMAIN f |-> IF f[k] = Partial THEN Interrupted ELSE f[k]]
  <2>1. f \notin {None, Bad} /\ LoadedOf(f) = g
    BY <1>2, Distinct DEF LoadedOf
  <2>2. f \in Seq(Messages) /\ Len(f) \in Nat /\ DOMAIN f = 1 .. Len(f) /\ f \in [1 .. Len(f) -> Messages]
    BY <1>2 DEF Contents
  <2>3. g \in Contents
    <3>1. g \in [1 .. Len(f) -> Messages]
      BY <2>2, AreMessages
    <3> HIDE DEF g
    <3> QED
      BY <2>2, <3>1 DEF Contents
  <2>4. g \notin {None, Bad}
    BY <2>3, Distinct
  <2>5. \A r \in Runs : Holds(g, r) <=> Holds(f, r)
    BY <2>1, <2>4, MessagesDiffer DEF Holds
  <2>6. ~Holds(g, Partial)
    BY MessagesDiffer DEF Holds
  <2>7. ~Holds(f, Partial) => g = f
    BY <2>1, <2>2 DEF Holds
  <2> QED
    BY <2>1, <2>3, <2>5, <2>6, <2>7
<1> QED
  BY <1>1, <1>2

LEMMA LoadedIs == \A c \in Chats : Loaded(c) = LoadedOf(file[c])
BY DEF Loaded, LoadedOf

\* Each run once: also with one more message, unless it is a run that is there.
LEMMA OnceAppended ==
    ASSUME NEW f \in Contents, NEW x \in Messages, Once(f), x \notin Runs \/ ~Holds(f, x)
    PROVE  Once(Append(f, x))
<1>1. /\ DOMAIN f = 1 .. Len(f) /\ DOMAIN Append(f, x) = 1 .. (Len(f) + 1) /\ Len(f) \in Nat
      /\ \A i \in 1 .. Len(f) : Append(f, x)[i] = f[i]
      /\ Append(f, x)[Len(f) + 1] = x
      /\ f \notin {None, Bad}
  BY Distinct DEF Contents
<1> SUFFICES ASSUME NEW i \in 1 .. (Len(f) + 1), NEW j \in 1 .. (Len(f) + 1), Append(f, x)[i] \in Runs,
                    Append(f, x)[i] = Append(f, x)[j]
             PROVE  i = j
  BY <1>1 DEF Once
<1>2. x \in Runs => \A k \in 1 .. Len(f) : f[k] # x
  BY <1>1 DEF Holds
<1>3. CASE i \in 1 .. Len(f) /\ j \in 1 .. Len(f)
  BY <1>1, <1>3 DEF Once
<1>4. CASE i = Len(f) + 1 \/ j = Len(f) + 1
  BY <1>1, <1>2, <1>4
<1> QED
  BY <1>1, <1>3, <1>4

\* And joined with messages none of whose runs is there.
LEMMA OnceJoined ==
    ASSUME NEW f \in Contents, NEW g \in Contents, Once(f), Once(g), \A r \in Runs : ~(Holds(f, r) /\ Holds(g, r))
    PROVE  Once(f \o g)
<1>1. /\ Len(f) \in Nat /\ Len(g) \in Nat /\ f \notin {None, Bad} /\ g \notin {None, Bad}
      /\ DOMAIN f = 1 .. Len(f) /\ DOMAIN g = 1 .. Len(g) /\ DOMAIN (f \o g) = 1 .. (Len(f) + Len(g))
      /\ \A i \in 1 .. (Len(f) + Len(g)) : (f \o g)[i] = IF i <= Len(f) THEN f[i] ELSE g[i - Len(f)]
  BY Distinct DEF Contents
<1> SUFFICES ASSUME NEW i \in 1 .. (Len(f) + Len(g)), NEW j \in 1 .. (Len(f) + Len(g)), (f \o g)[i] \in Runs,
                    (f \o g)[i] = (f \o g)[j]
             PROVE  i = j
  BY <1>1 DEF Once
<1>2. \A k \in 1 .. Len(f), l \in 1 .. Len(g) : f[k] \in Runs => f[k] # g[l]
  BY <1>1 DEF Holds
<1>3. CASE i <= Len(f) /\ j <= Len(f)
  <2>1. i \in 1 .. Len(f) /\ j \in 1 .. Len(f) /\ f[i] \in Runs /\ f[i] = f[j]
    BY <1>1, <1>3
  <2> QED
    BY <1>1, <2>1 DEF Once
<1>4. CASE ~(i <= Len(f)) /\ ~(j <= Len(f))
  <2> DEFINE k == i - Len(f)
             l == j - Len(f)
  <2>1. k \in 1 .. Len(g) /\ l \in 1 .. Len(g) /\ g[k] \in Runs /\ g[k] = g[l] /\ i = k + Len(f) /\ j = l + Len(f)
    BY <1>1, <1>4
  <2> HIDE DEF k, l
  <2>2. k = l
    BY <1>1, <2>1 DEF Once
  <2> QED
    BY <2>1, <2>2
<1>5. CASE i <= Len(f) /\ ~(j <= Len(f))
  <2>1. i \in 1 .. Len(f) /\ j - Len(f) \in 1 .. Len(g) /\ f[i] \in Runs /\ f[i] = g[j - Len(f)]
    BY <1>1, <1>5
  <2> QED
    BY <1>2, <2>1
<1>6. CASE ~(i <= Len(f)) /\ j <= Len(f)
  <2>1. j \in 1 .. Len(f) /\ i - Len(f) \in 1 .. Len(g) /\ f[j] \in Runs /\ f[j] = g[i - Len(f)]
    BY <1>1, <1>6
  <2> QED
    BY <1>2, <2>1
<1> QED
  BY <1>3, <1>4, <1>5, <1>6

LEMMA OnceEmpty == Once(<<>>)
BY DEF Once

\* And when it is loaded.
LEMMA OnceLoaded == ASSUME NEW f, f \in {None, Bad} \/ Once(f) PROVE Once(LoadedOf(f))
<1>1. CASE f \in {None, Bad}
  BY <1>1, OnceEmpty DEF LoadedOf
<1>2. CASE f \notin {None, Bad}
  <2>1. Interrupted \notin Runs
    BY StoreAssumption
  <2> QED
    BY <1>2, <2>1 DEF LoadedOf, Once
<1> QED
  BY <1>1, <1>2

-----------------------------------------------------------------------------
(* Only, again: its members.                                               *)

InSeq(s, x) == \E i \in 1 .. Len(s) : s[i] = x

LEMMA InToSet == ASSUME NEW A, NEW s \in Seq(A), NEW x PROVE x \in ToSet(s) <=> InSeq(s, x)
BY DEF ToSet, InSeq

LEMMA InAppended ==
    ASSUME NEW A, NEW s \in Seq(A), NEW x \in A, NEW y
    PROVE  InSeq(Append(s, x), y) <=> InSeq(s, y) \/ y = x
<1>1. /\ Len(s) \in Nat /\ Len(Append(s, x)) = Len(s) + 1 /\ Append(s, x)[Len(s) + 1] = x
      /\ \A i \in 1 .. Len(s) : Append(s, x)[i] = s[i]
  OBVIOUS
<1> QED
  BY <1>1 DEF InSeq

\* Of a sequence, Only keeps the members that are in S.
LEMMA OnlyMembers ==
    ASSUME NEW A, NEW s \in Seq(A), NEW S, NEW x
    PROVE  InSeq(Only(s, S), x) <=> InSeq(s, x) /\ x \in S
<1> DEFINE n == Len(s)
           Is(f) == f = [i \in 0 .. n |-> IF i = 0 THEN <<>> ELSE Step(s, S, f[i - 1], i)]
           f == CHOOSE f : Is(f)
           Right(i) == /\ f[i] \in Seq(S)
                       /\ InSeq(f[i], x) <=> x \in S /\ \E k \in 1 .. i : s[k] = x
<1>1. n \in Nat
  OBVIOUS
<1>2. Only(s, S) = f[n]
  BY DEF Only, Step
<1>3. \E g : Is(g)
  <2> HIDE DEF n
  <2>1. PICK g \in [0 .. n -> Seq(S)] : Picks(s, S, n, g)
    BY <1>1, PickedExists
  <2>2. g = [i \in 0 .. n |-> g[i]]
    OBVIOUS
  <2> QED
    BY <2>1, <2>2 DEF Picks
<1>4. Is(f)
  BY <1>3
<1> HIDE DEF f, n
<1> DEFINE Other == {i \in 0 .. n : ~Right(i)}
<1>5. SUFFICES ASSUME Other # {} PROVE FALSE
  <2>1. Other = {} => Right(n)
    BY <1>1
  <2> HIDE DEF Other
  <2>2. Right(n)
    BY <1>5, <2>1
  <2> QED
    BY <1>2, <2>2 DEF InSeq, n
<1>6. PICK i \in Other : \A k \in Other : i <= k
  <2>1. Other \subseteq Nat
    BY <1>1
  <2> HIDE DEF Other
  <2> QED
    BY <1>5, <2>1, Least
<1>7. i \in 0 .. n /\ ~Right(i)
  BY <1>6
<1>8. f[i] = IF i = 0 THEN <<>> ELSE Step(s, S, f[i - 1], i)
  BY <1>4, <1>7
<1>9. i = 0 => Right(i)
  BY <1>8, EmptySeq DEF InSeq
<1>10. i # 0 => Right(i - 1)
  <2> SUFFICES ASSUME i # 0 PROVE i - 1 \notin Other
    BY <1>1, <1>7
  <2>1. ~ (i <= i - 1)
    BY <1>1, <1>7
  <2> HIDE DEF Other
  <2> QED
    BY <1>6, <2>1
<1>11. ASSUME i # 0 PROVE Right(i)
  <2> DEFINE p == f[i - 1]
  <2>1. p \in Seq(S) /\ (InSeq(p, x) <=> x \in S /\ \E k \in 1 .. (i - 1) : s[k] = x)
    BY <1>10, <1>11
  <2>2. (\E k \in 1 .. i : s[k] = x) <=> (\E k \in 1 .. (i - 1) : s[k] = x) \/ s[i] = x
    BY <1>1, <1>7, <1>11
  <2>3. CASE s[i] \in S
    <3>1. f[i] = Append(p, s[i])
      BY <1>8, <1>11, <2>3 DEF Step
    <3> HIDE DEF p
    <3>2. f[i] \in Seq(S) /\ (InSeq(f[i], x) <=> InSeq(p, x) \/ x = s[i])
      BY <2>1, <2>3, <3>1, InAppended, AppendProperties
    <3> QED
      BY <2>1, <2>2, <2>3, <3>2
  <2>4. CASE s[i] \notin S
    <3>1. f[i] = p
      BY <1>8, <1>11, <2>4 DEF Step
    <3> HIDE DEF p
    <3> QED
      BY <2>1, <2>2, <2>4, <3>1
  <2> QED
    BY <2>3, <2>4
<1> QED
  BY <1>7, <1>9, <1>11

\* Of a sequence that has no run twice, Only makes another.
LEMMA OnlyOnce ==
    ASSUME NEW s \in Seq(Runs), NEW S, Once(s)
    PROVE  Once(Only(s, S))
<1> DEFINE n == Len(s)
           Is(f) == f = [i \in 0 .. n |-> IF i = 0 THEN <<>> ELSE Step(s, S, f[i - 1], i)]
           f == CHOOSE f : Is(f)
           Right(i) == /\ f[i] \in Seq(S) /\ Once(f[i])
                       /\ \A l \in DOMAIN f[i] : \E k \in 1 .. i : s[k] = f[i][l]
<1>1. n \in Nat /\ DOMAIN s = 1 .. n
  OBVIOUS
<1>2. Only(s, S) = f[n]
  BY DEF Only, Step
<1>3. \E g : Is(g)
  <2> HIDE DEF n
  <2>1. PICK g \in [0 .. n -> Seq(S)] : Picks(s, S, n, g)
    BY <1>1, PickedExists
  <2>2. g = [i \in 0 .. n |-> g[i]]
    OBVIOUS
  <2> QED
    BY <2>1, <2>2 DEF Picks
<1>4. Is(f)
  BY <1>3
<1> HIDE DEF f, n
<1> DEFINE Other == {i \in 0 .. n : ~Right(i)}
<1>5. SUFFICES ASSUME Other # {} PROVE FALSE
  <2>1. Other = {} => Right(n)
    BY <1>1
  <2> HIDE DEF Other
  <2>2. Right(n)
    BY <1>5, <2>1
  <2> QED
    BY <1>2, <2>2
<1>6. PICK i \in Other : \A k \in Other : i <= k
  <2>1. Other \subseteq Nat
    BY <1>1
  <2> HIDE DEF Other
  <2> QED
    BY <1>5, <2>1, Least
<1>7. i \in 0 .. n /\ ~Right(i)
  BY <1>6
<1>8. f[i] = IF i = 0 THEN <<>> ELSE Step(s, S, f[i - 1], i)
  BY <1>4, <1>7
<1>9. i = 0 => Right(i)
  BY <1>8, EmptySeq, OnceEmpty
<1>10. i # 0 => Right(i - 1)
  <2> SUFFICES ASSUME i # 0 PROVE i - 1 \notin Other
    BY <1>1, <1>7
  <2>1. ~ (i <= i - 1)
    BY <1>1, <1>7
  <2> HIDE DEF Other
  <2> QED
    BY <1>6, <2>1
<1>11. ASSUME i # 0 PROVE Right(i)
  <2> DEFINE p == f[i - 1]
  <2>1. p \in Seq(S) /\ Once(p) /\ \A l \in DOMAIN p : \E k \in 1 .. (i - 1) : s[k] = p[l]
    BY <1>10, <1>11
  <2>2. i \in 1 .. n /\ 1 .. (i - 1) \subseteq 1 .. i
    BY <1>1, <1>7, <1>11
  <2>3. CASE s[i] \in S
    <3>1. f[i] = Append(p, s[i])
      BY <1>8, <1>11, <2>3 DEF Step
    <3> HIDE DEF p
    <3>2. /\ DOMAIN p = 1 .. Len(p) /\ DOMAIN f[i] = 1 .. (Len(p) + 1) /\ Len(p) \in Nat /\ f[i] \in Seq(S)
          /\ \A l \in 1 .. Len(p) : f[i][l] = p[l]
          /\ f[i][Len(p) + 1] = s[i]
      BY <2>1, <2>3, <3>1, AppendProperties
    <3>3. \A l \in DOMAIN p : p[l] # s[i]
      <4> SUFFICES ASSUME NEW l \in DOMAIN p, p[l] = s[i] PROVE FALSE
        OBVIOUS
      <4>1. PICK k \in 1 .. (i - 1) : s[k] = s[i]
        BY <2>1
      <4>2. k \in 1 .. n /\ k # i /\ s[i] \in Runs
        BY <1>1, <1>7, <2>2 DEF n
      <4> QED
        BY <1>1, <2>2, <4>1, <4>2 DEF Once
    <3>4. Once(f[i])
      <4> SUFFICES ASSUME NEW a \in 1 .. (Len(p) + 1), NEW b \in 1 .. (Len(p) + 1), f[i][a] \in Runs, f[i][a] = f[i][b]
                   PROVE  a = b
        BY <3>2 DEF Once
      <4>1. CASE a \in 1 .. Len(p) /\ b \in 1 .. Len(p)
        BY <2>1, <3>2, <4>1 DEF Once
      <4>2. CASE a = Len(p) + 1 \/ b = Len(p) + 1
        BY <3>2, <3>3, <4>2
      <4> QED
        BY <3>2, <4>1, <4>2
    <3>5. ASSUME NEW l \in DOMAIN f[i] PROVE \E k \in 1 .. i : s[k] = f[i][l]
      <4>1. CASE l \in 1 .. Len(p)
        BY <2>1, <2>2, <3>2, <4>1
      <4>2. CASE l = Len(p) + 1
        <5>1. i \in 1 .. i
          BY <1>1, <2>2
        <5> QED
          BY <3>2, <4>2, <5>1
      <4> QED
        BY <3>2, <4>1, <4>2
    <3> QED
      BY <3>2, <3>4, <3>5
  <2>4. CASE s[i] \notin S
    <3>1. f[i] = p
      BY <1>8, <1>11, <2>4 DEF Step
    <3> HIDE DEF p
    <3> QED
      BY <2>1, <2>2, <3>1
  <2> QED
    BY <2>3, <2>4
<1> QED
  BY <1>7, <1>9, <1>11

LEMMA OnlySet ==
    ASSUME NEW A, NEW s \in Seq(A), NEW S
    PROVE  ToSet(Only(s, S)) = ToSet(s) \cap S
<1>1. Only(s, S) \in Seq(S)
  BY OnlyTyped
<1>2. \A x : x \in ToSet(Only(s, S)) <=> InSeq(Only(s, S), x)
  BY <1>1, InToSet
<1>3. \A x : x \in ToSet(s) <=> InSeq(s, x)
  BY InToSet
<1> QED
  BY <1>2, <1>3, OnlyMembers

LEMMA EmptyToSet == ASSUME NEW A, NEW s \in Seq(A), ToSet(s) = {} PROVE s = <<>>
<1>1. \A i \in 1 .. Len(s) : s[i] \in ToSet(s)
  BY DEF ToSet
<1>2. Len(s) \in Nat /\ (Len(s) # 0 => 1 \in 1 .. Len(s))
  OBVIOUS
<1>3. Len(s) = 0
  BY <1>1, <1>2
<1> QED
  BY <1>3, EmptySeq

LEMMA NothingJoined == ASSUME NEW A, NEW s \in Seq(A) PROVE s \o <<>> = s
OBVIOUS

LEMMA ToSetAppended == ASSUME NEW A, NEW s \in Seq(A), NEW x \in A PROVE ToSet(Append(s, x)) = ToSet(s) \cup {x}
<1>1. Append(s, x) \in Seq(A)
  BY AppendProperties
<1>2. \A y : y \in ToSet(Append(s, x)) <=> InSeq(Append(s, x), y)
  BY <1>1, InToSet
<1>3. \A y : y \in ToSet(s) <=> InSeq(s, y)
  BY InToSet
<1> QED
  BY <1>2, <1>3, InAppended

-----------------------------------------------------------------------------
(* What the user does to the chats, and the end of a reply.                *)

LEMMA MemTyped ==
    ASSUME StoreTyped
    PROVE  /\ \A c \in Chats : Mem(c) \in Contents \cup {None} /\ (c \in Seen <=> Mem(c) # None)
           /\ Seen \subseteq Chats /\ Undo \subseteq Chats
<1>1. undoable # None => undoable.chat \in Chats /\ undoable.messages \in Contents
  BY DEF StoreTyped, Undoables
<1>2. Undo \subseteq Chats /\ (undoable = None => Undo = {})
  BY <1>1 DEF Undo
<1>3. Seen \subseteq Chats
  BY <1>2 DEF Seen, Listed
<1> SUFFICES ASSUME NEW c \in Chats PROVE Mem(c) \in Contents \cup {None} /\ (c \in Seen <=> Mem(c) # None)
  BY <1>2, <1>3
<1>4. sessions[c] \in Contents \cup {None}
  BY DEF StoreTyped, Chatting
<1>5. c \in Listed <=> sessions[c] # None
  BY DEF Listed
<1> QED
  BY <1>1, <1>2, <1>4, <1>5, Distinct DEF Mem, Seen

SavesKept ==
    /\ (pending # "none" => pending' # "none") /\ (full => full') /\ dirty \subseteq dirty' /\ (held => held')
    /\ (blocked \/ pending' = pending \/ ready) /\ (blocked => pending' = pending)

\* A chat keeps its runs and gets no partial reply; or its id is new.
ChatKept(c) ==
    \/ /\ c \in Seen /\ \A m \in Runs \cup {Partial} : Holds(Mem(c)', m) <=> Holds(Mem(c), m)
       /\ Once(Mem(c)) => Once(Mem(c)')
    \/ c \notin used /\ Mem(c)' = <<>>

\* A chat that has changed is to be saved.
ChangeMarked(c) == blocked \/ Marked(c)' \/ (c \in Listed /\ sessions'[c] = sessions[c] /\ (Marked(c) => Marked(c)'))

\* What all of these steps have in common.
Edited ==
    /\ On
    /\ UNCHANGED <<up, ready, written, blocked, damaged, flushing, file, index, bak, deleting, jobVars, inboxVars>>
    /\ undone \subseteq undone' /\ writtenIndex' \in {writtenIndex, None}
    /\ SavesKept
    /\ UndoGone'
    /\ \A c \in Seen' : c \in Chats /\ ChatKept(c)
    /\ Listed' = Listed \/ blocked \/ pending' # "none" \/ held'
    /\ pending' = "partial" => loading'
    /\ \A c \in Listed' : ChangeMarked(c)

LEMMA EditedKeeps == ASSUME IInv, RInv, IInv', Edited PROVE RInv'
<1>1. /\ StoreTyped /\ StoreTyped' /\ Fresh /\ Locked /\ On
      /\ UNCHANGED <<up, ready, written, blocked, damaged, flushing, file, index, bak, deleting, jobVars, inboxVars>>
      /\ undone \subseteq undone' /\ writtenIndex' \in {writtenIndex, None}
      /\ SavesKept /\ UndoGone' /\ \A c \in Seen' : c \in Chats /\ ChatKept(c)
  BY DEF IInv, TypeOK, StoreInv, Edited
<1>2. \A c \in Chats : c \notin used => written[c] = None /\ file[c] = None /\ \A r \in Runs : job[r].chat # c
  <2> SUFFICES ASSUME NEW c \in Chats, c \notin used
               PROVE  written[c] = None /\ file[c] = None /\ \A r \in Runs : job[r].chat # c
    OBVIOUS
  <2>1. written[c] = None /\ file[c] = None
    BY <1>1 DEF Fresh, Noted
  <2>2. \A r \in Runs : job[r].chat # c
    BY <1>1, Distinct DEF Locked, RInv, RunsKnown
  <2> QED
    BY <2>1, <2>2
<1>3. \A c \in Chats : c \notin Seen' => Mem(c)' = None
  <2>1. \A c \in Chats : Mem(c)' \in Contents \cup {None} /\ (c \in Seen' <=> Mem(c)' # None)
    <3>1. StoreTyped' => (\A c \in Chats : Mem(c) \in Contents \cup {None} /\ (c \in Seen <=> Mem(c) # None))'
      BY MemTyped, PTL
    <3> QED
      BY <1>1, <3>1
  <2> QED
    BY <2>1
<1>4. \A c \in Chats : \A m \in Runs \cup {Partial} : Holds(Mem(c)', m) => Holds(Mem(c), m)
  BY <1>1, <1>3, NothingHeld DEF ChatKept
<1>5. RunsKnown'
  <2>1. job' = job /\ Begun' = Begun
    BY <1>1 DEF jobVars, Begun
  <2>2. RunsKnown
    BY DEF RInv
  <2>3. \A r \in Runs \ Begun : \A c \in Chats : ~Holds(Mem(c)', r) /\ ~Holds(written'[c], r) /\ ~Holds(file'[c], r)
    BY <1>1, <1>4, <2>2 DEF RunsKnown
  <2>4. (\A r \in Runs \ Begun : \A q \in Runs : ~Holds(job'[q].base, r)) /\ \A r \in Runs : job'[r].pc = "new" => job'[r].chat = None
    BY <2>1, <2>2 DEF RunsKnown
  <2> QED
    BY <2>1, <2>3, <2>4 DEF RunsKnown
<1>6. Whole'
  BY <1>4 DEF RInv, Whole
<1>7. Grows'
  <2> SUFFICES ASSUME NEW c \in Seen', NEW r \in Runs, Holds(written'[c], r) PROVE Holds(Mem(c)', r)
    BY DEF Grows
  <2>1. written'[c] = written[c] /\ c \in Chats /\ ChatKept(c)
    BY <1>1
  <2>2. c \in used
    BY <1>2, <2>1, NothingHeld
  <2>3. c \in Seen /\ (Holds(Mem(c)', r) <=> Holds(Mem(c), r))
    BY <2>1, <2>2 DEF ChatKept
  <2> QED
    BY <2>1, <2>3 DEF RInv, Grows
<1>8. InboxRight'
  BY <1>1 DEF RInv, InboxRight, inboxVars, jobVars, Done
<1>9. BlockedBare'
  <2> SUFFICES ASSUME blocked PROVE BlockedBare'
    BY <1>1 DEF BlockedBare
  <2>1. /\ index = Bad /\ pending = "none" /\ Noted = {}
        /\ \A c \in Seen : file[c] = None /\ \A r \in Runs : job[r].chat # c
    BY <1>1 DEF RInv, BlockedBare, On
  <2>2. index' = Bad /\ pending' = "none" /\ Noted' = {}
    BY <1>1, <2>1 DEF SavesKept, Noted
  <2>3. job' = job /\ file' = file
    BY <1>1 DEF jobVars
  <2>4. \A c \in Seen' : file'[c] = None /\ \A r \in Runs : job'[r].chat # c
    BY <1>1, <1>2, <2>1, <2>3 DEF ChatKept
  <2> QED
    BY <2>2, <2>4 DEF BlockedBare
<1>10. SavesRight'
  <2>1. pending # "none" => ready
    BY DEF RInv, SavesRight
  <2>2. blocked => pending' = pending
    BY <1>1 DEF SavesKept
  <2>3. pending' # "none" => ready'
    BY <1>1, <2>1, <2>2 DEF SavesKept
  <2> QED
    BY <1>1, <2>3 DEF SavesRight, Edited, On
<1>11. FilesExplained'
  <2> SUFFICES ASSUME NEW c \in (Seen' \cap Noted') \ (damaged' \cup undone') PROVE Explained(c)'
    BY DEF FilesExplained
  <2>1. c \in Chats /\ written[c] # None /\ ChatKept(c) /\ c \notin damaged \cup undone
    BY <1>1 DEF Noted
  <2>2. c \in Seen /\ \A m \in Runs : Holds(Mem(c)', m) <=> Holds(Mem(c), m)
    BY <1>2, <2>1 DEF ChatKept
  <2>3. Explained(c)
    BY <1>1, <2>1, <2>2 DEF RInv, FilesExplained, On, Noted
  <2>4. Agrees(c) => Agrees(c)'
    BY <1>1 DEF Agrees, Loaded
  <2>5. c \in Waits => c \in Waits'
    BY <1>1 DEF Waits, Writing
  <2>6. Rewrites(c) => Rewrites(c)'
    <3>1. pending # "none" /\ full => pending' # "none" /\ full'
      BY <1>1 DEF SavesKept
    <3> QED
      BY <1>1, <2>2, <3>1 DEF Rewrites
  <2>7. \A r \in Runs : Differs(r, c) => Differs(r, c)'
    BY <1>1, <2>2 DEF Differs, jobVars, inboxVars
  <2> QED
    BY <2>3, <2>4, <2>5, <2>6, <2>7 DEF Explained
<1>12. ChatsSaved'
  <2> SUFFICES ASSUME ~blocked, NEW c \in Listed', c \notin damaged PROVE Clean(c)' \/ Marked(c)'
    BY <1>1 DEF ChatsSaved
  <2>1. Marked(c)' \/ (c \in Listed /\ sessions'[c] = sessions[c] /\ (Marked(c) => Marked(c)'))
    BY DEF Edited, ChangeMarked
  <2>2. c \in Listed => Clean(c) \/ Marked(c)
    BY <1>1 DEF RInv, ChatsSaved, On
  <2>3. Clean(c) /\ sessions'[c] = sessions[c] => Clean(c)'
    BY <1>1 DEF Clean
  <2> QED
    BY <2>1, <2>2, <2>3
<1>13. IndexSaved'
  <2> SUFFICES ASSUME ~blocked PROVE IndexSaved'
    BY <1>1 DEF IndexSaved
  <2>1. /\ index # Bad => index = Listed \/ pending # "none" \/ held \/ (Writing /\ flushing.stage = "chats")
        /\ writtenIndex # None /\ ~(Writing /\ flushing.stage = "bak") => writtenIndex = {} \/ index = writtenIndex
    BY <1>1 DEF RInv, IndexSaved, On
  <2>2. ~Writing /\ ~Writing'
    <3>1. Idle /\ flushing' = flushing
      BY <1>1 DEF On
    <3>2. ~Writing
      BY <3>1, IdleRests
    <3> QED
      BY <3>1, <3>2 DEF Writing
  <2>3. index' # Bad => index' = Listed' \/ pending' # "none" \/ held'
    BY <1>1, <2>1, <2>2 DEF Edited, SavesKept
  <2>4. writtenIndex' # None => writtenIndex' = {} \/ index' = writtenIndex'
    BY <1>1, <2>1, <2>2
  <2> QED
    BY <2>3, <2>4 DEF IndexSaved
<1> QED
  BY <1>1, <1>5, <1>6, <1>7, <1>8, <1>9, <1>10, <1>11, <1>12, <1>13 DEF RInv

\* A save, asked for without a hint or with one.
LEMMA Asked ==
    ASSUME SavesTyped, SavesRight, blocked => pending = "none", NEW ids,
           persistSessions \/ persistHinted(ids)
    PROVE  /\ SavesKept /\ pending' # "partial"
           /\ blocked \/ held' \/ (pending' = "list" /\ (full' \/ ids \subseteq dirty'))
           /\ persistSessions => blocked \/ held' \/ (pending' = "list" /\ full')
<1>1. CASE persistSessions
  BY <1>1 DEF persistSessions, Hold, NoHint, saveVars, SavesKept, SavesRight, SavesTyped
<1>2. CASE persistHinted(ids)
  <2>1. \/ blocked /\ UNCHANGED saveVars
        \/ ~blocked /\ ~ready /\ held' = TRUE /\ UNCHANGED <<pending, dirty, full>>
        \/ ~blocked /\ ready /\ pending' = "list" /\ dirty' = dirty \cup ids /\ UNCHANGED <<full, held>>
    BY <1>2 DEF persistHinted, Hold, Hint
  <2>2. SavesKept /\ pending' # "partial" /\ (blocked \/ held' \/ (pending' = "list" /\ ids \subseteq dirty'))
    BY <2>1 DEF saveVars, SavesKept, SavesRight, SavesTyped
  <2>3. persistSessions => blocked \/ held' \/ (pending' = "list" /\ full')
    BY DEF persistSessions, Hold, NoHint
  <2> QED
    BY <2>2, <2>3
<1> QED
  BY <1>1, <1>2

LEMMA AllMarked ==
    ASSUME blocked \/ held' \/ (pending' = "list" /\ full'), NEW c
    PROVE  ChangeMarked(c)
BY DEF ChangeMarked, Marked

LEMMA OpenMarked ==
    ASSUME SavesKept, blocked \/ held' \/ (pending' = "list" /\ (full' \/ {open} \subseteq dirty')),
           NEW c, c \in Listed, c # open => sessions'[c] = sessions[c]
    PROVE  ChangeMarked(c)
<1>1. CASE c = open
  BY <1>1 DEF ChangeMarked, Marked
<1>2. CASE c # open
  BY <1>2 DEF ChangeMarked, Marked, SavesKept
<1> QED
  BY <1>1, <1>2

\* The open chat gets a message, or nothing; Undo may no longer be offered.
LEMMA ChatsGrown ==
    ASSUME StoreTyped, UndoGone, open \in Listed, NEW m \in Nat \cup {Reply},
           sessions' \in {sessions, [sessions EXCEPT ![open] = Append(@, m)]},
           undoable' = undoable \/ (undoable' = None /\ sessions' = sessions)
    PROVE  /\ Listed' = Listed /\ UndoGone' /\ \A c \in Seen' : c \in Chats /\ ChatKept(c)
           /\ \A c \in Listed : c # open => sessions'[c] = sessions[c]
<1>1. open \in Chats /\ open \in ListedIn(sessions) /\ sessions \in Chatting /\ sessions[open] \in Contents
  BY ListedIsIn DEF StoreTyped, Chatting, Listed
<1>2. m \in Messages /\ \A x \in Runs \cup {Partial} : m # x
  BY AreMessages, MessagesDiffer
<1>3. Listed' = Listed
  <2>1. CASE sessions' = sessions
    BY <2>1 DEF Listed
  <2>2. CASE sessions' = [sessions EXCEPT ![open] = Append(@, m)]
    <3>1. ListedIn(sessions') = ListedIn(sessions)
      BY <1>1, <1>2, <2>2, MessageAdded
    <3> QED
      BY <3>1, ListedIsIn DEF Listed, ListedIn
  <2> QED
    BY <2>1, <2>2
<1>4. Undo' \subseteq Undo
  BY DEF Undo
<1>5. UndoGone'
  BY <1>3, <1>4 DEF UndoGone
<1>6. \A c \in Listed : c # open => sessions'[c] = sessions[c]
  BY <1>1 DEF Listed, Chatting
<1>7. ASSUME NEW c \in Seen' PROVE c \in Chats /\ ChatKept(c)
  <2>1. c \in Seen /\ c \in Chats
    BY <1>3, <1>4, <1>7, MemTyped DEF Seen
  <2>2. CASE c \in Listed
    <3>1. sessions[c] # None /\ sessions'[c] # None
      BY <1>3, <2>2 DEF Listed
    <3>2. Mem(c) = sessions[c] /\ Mem(c)' = sessions'[c]
      BY <3>1 DEF Mem
    <3>3. sessions'[c] = sessions[c] \/ (c = open /\ sessions'[c] = Append(sessions[c], m))
      BY <1>1, <2>2 DEF Listed, Chatting
    <3>4. c = open => \A x \in Runs \cup {Partial} : Holds(Append(sessions[c], m), x) <=> Holds(sessions[c], x)
      BY <1>1, <1>2, HoldsAppended
    <3>5. c = open /\ Once(sessions[c]) => Once(Append(sessions[c], m))
      BY <1>1, <1>2, OnceAppended
    <3> QED
      BY <2>1, <3>2, <3>3, <3>4, <3>5 DEF ChatKept
  <2>3. CASE c \notin Listed
    <3>1. c \in Undo' /\ c \in Undo /\ undoable' = undoable
      BY <1>3, <1>4, <1>7, <2>3, Distinct DEF Seen, Undo
    <3>2. sessions[c] = None /\ sessions'[c] = None
      BY <1>3, <2>1, <2>3 DEF Listed
    <3>3. Mem(c) = undoable.messages /\ Mem(c)' = undoable.messages
      BY <3>1, <3>2 DEF Mem
    <3> QED
      BY <2>1, <3>3 DEF ChatKept
  <2> QED
    BY <2>1, <2>2, <2>3
<1> QED
  BY <1>3, <1>5, <1>6, <1>7

LEMMA MessageEdits ==
    ASSUME IInv, RInv,
           \/ Send \/ ReplyDone \/ PartialSave \/ stopStreaming \/ setSessionProperty \/ setSessionArchived \/ dismiss
           \/ \E c \in Chats : switchSession(c),
           UNCHANGED <<jobVars, inboxVars>>
    PROVE  Edited
<1>1. StoreTyped /\ SavesTyped /\ SavesRight /\ UndoGone /\ On
  BY DEF IInv, TypeOK, StoreTyped, RInv, Send, ReplyDone, PartialSave, stopStreaming, setSessionProperty, setSessionArchived,
     dismiss, switchSession
<1>2. open \in Listed /\ (blocked => pending = "none") /\ (pending # "none" => ready)
  BY <1>1 DEF IInv, StoreInv, Running, RInv, BlockedBare, SavesRight, On
<1>3. /\ UNCHANGED <<up, ready, written, blocked, damaged, flushing, file, index, bak, deleting, jobVars, inboxVars>>
      /\ undone \subseteq undone' /\ writtenIndex' \in {writtenIndex, None}
  BY DEF Send, ReplyDone, PartialSave, stopStreaming, setSessionProperty, setSessionArchived,
     dismiss, switchSession, edited, diskVars
<1>4. \E m \in Nat \cup {Reply} :
         sessions' \in {sessions, [sessions EXCEPT ![open] = Append(@, m)]}
         /\ (undoable' = undoable \/ (undoable' = None /\ sessions' = sessions))
  <2>1. CASE Send
    <3>1. budget.sends \in Nat
      BY <1>1 DEF StoreTyped, Budget, BudgetNames
    <3> QED
      BY <2>1, <3>1 DEF Send
  <2>2. CASE ReplyDone
    BY <2>2 DEF ReplyDone
  <2>3. CASE stopStreaming
    BY <2>3 DEF stopStreaming, GivenUp
  <2>4. CASE \E c \in Chats : switchSession(c)
    BY <2>4 DEF switchSession, GivenUp
  <2>5. CASE PartialSave \/ setSessionProperty \/ setSessionArchived \/ dismiss
    BY <2>5 DEF PartialSave, setSessionProperty, setSessionArchived, dismiss
  <2> QED
    BY <2>1, <2>2, <2>3, <2>4, <2>5
<1>5. /\ Listed' = Listed /\ UndoGone' /\ \A c \in Seen' : c \in Chats /\ ChatKept(c)
      /\ \A c \in Listed : c # open => sessions'[c] = sessions[c]
  BY <1>1, <1>2, <1>4, ChatsGrown
<1>6. SavesKept /\ (pending' = "partial" => loading') /\ \A c \in Listed : ChangeMarked(c)
  <2>1. CASE Send \/ ReplyDone \/ stopStreaming
    <3>1. persistHinted({open})
      BY <2>1 DEF Send, ReplyDone, stopStreaming
    <3> QED
      BY <1>1, <1>2, <1>5, <3>1, Asked, OpenMarked
  <2>2. CASE setSessionArchived \/ \E c \in Chats : switchSession(c)
    <3>1. persistSessions
      BY <2>2 DEF setSessionArchived, switchSession
    <3> QED
      BY <1>1, <1>2, <3>1, Asked, AllMarked
  <2>3. CASE setSessionProperty
    <3>1. persistHinted({}) /\ UNCHANGED <<sessions, open, loading>>
      BY <2>3 DEF setSessionProperty
    <3>2. SavesKept /\ pending' # "partial"
      BY <1>1, <1>2, <3>1, Asked
    <3> QED
      BY <3>1, <3>2 DEF ChangeMarked, Marked, SavesKept
  <2>4. CASE PartialSave
    <3>1. loading' /\ UNCHANGED <<sessions, open, loading>>
      BY <2>4 DEF PartialSave
    <3>2. SavesKept
      BY <1>1, <1>2, <2>4 DEF PartialSave, Hold, Hint, SavesKept, SavesTyped
    <3> QED
      BY <3>1, <3>2 DEF ChangeMarked, Marked, SavesKept
  <2>5. CASE dismiss
    <3>1. UNCHANGED <<saveVars, sessions, open, loading>>
      BY <2>5 DEF dismiss
    <3>2. SavesKept
      BY <3>1 DEF saveVars, SavesKept
    <3> QED
      BY <1>1, <3>1, <3>2 DEF ChangeMarked, Marked, SavesRight, saveVars
  <2> QED
    BY <2>1, <2>2, <2>3, <2>4, <2>5
<1> QED
  BY <1>1, <1>3, <1>5, <1>6 DEF Edited

LEMMA CreateEdits == ASSUME IInv, RInv, createSession, UNCHANGED <<jobVars, inboxVars>> PROVE Edited
<1>1. /\ StoreTyped /\ SavesTyped /\ SavesRight /\ UndoGone /\ On /\ persistSessions /\ undoable' = undoable
      /\ \E c \in Chats \ used : sessions' = [sessions EXCEPT ![c] = <<>>] /\ used' = used \cup {c}
      /\ UNCHANGED <<up, ready, written, writtenIndex, blocked, damaged, flushing, file, index, bak, deleting, undone>>
  BY DEF IInv, TypeOK, StoreTyped, RInv, createSession, edited, diskVars
<1>2. blocked => pending = "none"
  BY <1>1 DEF RInv, BlockedBare, On
<1>3. SavesKept /\ pending' # "partial" /\ (blocked \/ held' \/ (pending' = "list" /\ full'))
  BY <1>1, <1>2, Asked
<1>4. PICK n \in Chats \ used : sessions' = [sessions EXCEPT ![n] = <<>>]
  BY <1>1
<1>5. <<>> # None /\ <<>> \in Contents
  BY EmptySeq, Distinct DEF Contents
<1>6. Undo' = Undo /\ Undo \subseteq used /\ Listed \subseteq used
  BY <1>1 DEF Undo, IInv, StoreInv, Fresh
<1>7. Listed' = Listed \cup {n}
  BY <1>1, <1>4, <1>5 DEF Listed, StoreTyped, Chatting
<1>8. UndoGone'
  BY <1>1, <1>4, <1>6, <1>7 DEF UndoGone
<1>9. ASSUME NEW c \in Seen' PROVE c \in Chats /\ ChatKept(c)
  <2>1. c \in Seen \cup {n} /\ c \in Chats
    BY <1>1, <1>4, <1>6, <1>7, <1>9, MemTyped DEF Seen
  <2>2. CASE c = n
    <3>1. sessions'[c] = <<>>
      BY <1>1, <1>4, <2>2 DEF StoreTyped, Chatting
    <3>2. Mem(c)' = <<>>
      BY <1>5, <3>1 DEF Mem
    <3> QED
      BY <1>4, <2>1, <2>2, <3>2 DEF ChatKept
  <2>3. CASE c # n
    <3>1. sessions'[c] = sessions[c]
      BY <1>1, <1>4, <2>1, <2>3 DEF StoreTyped, Chatting
    <3>2. Mem(c)' = Mem(c)
      BY <1>1, <1>6, <3>1 DEF Mem
    <3> QED
      BY <2>1, <2>3, <3>2 DEF ChatKept
  <2> QED
    BY <2>2, <2>3
<1>10. \A c \in Listed' : ChangeMarked(c)
  BY <1>3, AllMarked
<1> QED
  BY <1>1, <1>3, <1>8, <1>9, <1>10 DEF Edited

LEMMA DeleteEdits ==
    ASSUME IInv, RInv, NEW d \in Chats, deleteSession(d), UNCHANGED <<jobVars, inboxVars>>
    PROVE  Edited
<1>1. /\ StoreTyped /\ SavesTyped /\ SavesRight /\ UndoGone /\ On /\ persistSessions
      /\ d \in Listed /\ sessions' = [sessions EXCEPT ![d] = None]
      /\ undoable' = [chat |-> d, messages |-> sessions[d], wasOpen |-> d = open]
      /\ UNCHANGED <<up, ready, written, writtenIndex, blocked, damaged, flushing, file, index, bak, deleting, undone>>
  BY DEF IInv, TypeOK, StoreTyped, RInv, deleteSession, edited, diskVars
<1>2. blocked => pending = "none"
  BY <1>1 DEF RInv, BlockedBare, On
<1>3. SavesKept /\ pending' # "partial" /\ (blocked \/ held' \/ (pending' = "list" /\ full'))
  BY <1>1, <1>2, Asked
<1>4. undoable'.messages = sessions[d] /\ Undo' \subseteq {d}
  BY <1>1 DEF Undo
<1>5. Listed' = Listed \ {d}
  BY <1>1 DEF Listed, StoreTyped, Chatting
<1>6. UndoGone'
  BY <1>4, <1>5 DEF UndoGone
<1>7. ASSUME NEW c \in Seen' PROVE c \in Chats /\ ChatKept(c)
  <2>1. c \in Listed /\ c \in Chats /\ c \in Seen
    BY <1>1, <1>4, <1>5, <1>7 DEF Seen, Listed
  <2>2. sessions[c] # None /\ Mem(c) = sessions[c]
    BY <2>1 DEF Listed, Mem
  <2>3. CASE c = d
    <3>1. sessions'[c] = None /\ c \notin Listed'
      BY <1>1, <1>5, <2>1, <2>3 DEF StoreTyped, Chatting
    <3>2. Mem(c)' = sessions[c]
      BY <1>4, <1>7, <2>3, <3>1 DEF Mem, Seen
    <3> QED
      BY <2>1, <2>2, <3>2 DEF ChatKept
  <2>4. CASE c # d
    <3>1. sessions'[c] = sessions[c]
      BY <1>1, <2>1, <2>4 DEF StoreTyped, Chatting
    <3>2. Mem(c)' = sessions[c]
      BY <2>2, <3>1 DEF Mem
    <3> QED
      BY <2>1, <2>2, <3>2 DEF ChatKept
  <2> QED
    BY <2>3, <2>4
<1>8. \A c \in Listed' : ChangeMarked(c)
  BY <1>3, AllMarked
<1> QED
  BY <1>1, <1>3, <1>6, <1>7, <1>8 DEF Edited

LEMMA UndoEdits == ASSUME IInv, RInv, undo, UNCHANGED <<jobVars, inboxVars>> PROVE Edited
<1> DEFINE d == undoable.chat
<1>1. /\ StoreTyped /\ SavesTyped /\ SavesRight /\ UndoGone /\ On /\ persistSessions /\ open \in Listed
      /\ undoable # None /\ undoable' = None /\ undone \subseteq undone'
      /\ UNCHANGED <<up, ready, written, writtenIndex, blocked, damaged, flushing, file, index, bak, deleting>>
  BY DEF IInv, TypeOK, StoreTyped, StoreInv, Running, RInv, undo, On, edited, diskVars
<1>2. blocked => pending = "none"
  BY <1>1 DEF RInv, BlockedBare, On
<1>3. SavesKept /\ pending' # "partial" /\ (blocked \/ held' \/ (pending' = "list" /\ full'))
  BY <1>1, <1>2, Asked
<1>4. d \in Chats /\ undoable.messages \in Contents /\ Undo = {d} /\ Undo' = {} /\ d \notin Listed
  BY <1>1 DEF StoreTyped, Undoables, Undo, UndoGone
<1>5. PICK now \in GivenUp : sessions' = [now EXCEPT ![d] = undoable.messages]
  BY DEF undo, GivenUp
<1>6. now \in Chatting /\ ListedIn(now) = Listed
  BY <1>1, <1>5, GivenUpTyped DEF StoreTyped
<1>7. \A c \in Chats : sessions'[c] = IF c = d THEN undoable.messages ELSE now[c]
  BY <1>4, <1>5, <1>6 DEF Chatting
<1>8. Listed' = Listed \cup {d}
  BY <1>4, <1>6, <1>7, Distinct DEF Listed, ListedIn
<1>9. UndoGone'
  BY <1>4 DEF UndoGone
<1>10. ASSUME NEW c \in Seen' PROVE c \in Chats /\ ChatKept(c)
  <2>1. c \in Listed \cup {d} /\ c \in Chats /\ c \in Seen
    BY <1>4, <1>8, <1>10 DEF Seen, Listed
  <2>2. CASE c = d
    <3>1. sessions[c] = None /\ Mem(c) = undoable.messages
      BY <1>4, <2>1, <2>2 DEF Listed, Mem
    <3>2. Mem(c)' = undoable.messages
      BY <1>4, <1>7, <2>2, Distinct DEF Mem
    <3> QED
      BY <2>1, <3>1, <3>2 DEF ChatKept
  <2>3. CASE c # d
    <3>1. c \in Listed /\ sessions[c] # None /\ Mem(c) = sessions[c] /\ sessions[c] \in Contents
      BY <1>1, <2>1, <2>3 DEF Listed, Mem, StoreTyped, Chatting
    <3>2. now[c] # None /\ sessions'[c] = now[c]
      BY <1>6, <1>7, <2>1, <2>3, <3>1 DEF ListedIn
    <3>3. Mem(c)' = now[c]
      BY <3>2 DEF Mem
    <3>4. now[c] = sessions[c] \/ now[c] = Append(sessions[c], Reply)
      BY <1>1, <1>5, <2>1 DEF GivenUp, StoreTyped, Chatting
    <3>5. Reply \in Messages /\ \A x \in Runs \cup {Partial} : x # Reply
      BY AreMessages, MessagesDiffer
    <3>6. \A x \in Runs \cup {Partial} : Holds(now[c], x) <=> Holds(sessions[c], x)
      <4>1. \A x : Holds(Append(sessions[c], Reply), x) <=> Holds(sessions[c], x) \/ x = Reply
        BY <3>1, <3>5, HoldsAppended
      <4> QED
        BY <3>4, <3>5, <4>1
    <3>7. Once(sessions[c]) => Once(now[c])
      BY <3>1, <3>4, <3>5, OnceAppended
    <3> QED
      BY <2>1, <3>1, <3>3, <3>6, <3>7 DEF ChatKept
  <2> QED
    BY <2>2, <2>3
<1>11. \A c \in Listed' : ChangeMarked(c)
  BY <1>3, AllMarked
<1> QED
  BY <1>1, <1>3, <1>9, <1>10, <1>11 DEF Edited

\* Every step of the user, and the end of a reply.
LEMMA UserKeepsR ==
    ASSUME IInv, RInv, IInv', UserStep \/ ReplyDone, UNCHANGED <<jobVars, inboxVars>>
    PROVE  RInv'
<1>1. Edited
  BY MessageEdits, CreateEdits, DeleteEdits, UndoEdits DEF UserStep
<1> QED
  BY <1>1, EditedKeeps

-----------------------------------------------------------------------------
(* A flush.                                                                *)

LEMMA ContentHolds ==
    ASSUME StoreTyped, NEW c \in Listed
    PROVE  /\ c \in Chats /\ Mem(c) = sessions[c] /\ sessions[c] \in Contents
           /\ Content(c) \in Contents
           /\ \A r \in Runs : Holds(Content(c), r) <=> Holds(Mem(c), r)
<1>1. c \in Chats /\ sessions[c] # None /\ sessions[c] \in Contents
  BY DEF Listed, StoreTyped, Chatting
<1>2. Mem(c) = sessions[c]
  BY <1>1 DEF Mem
<1>3. Content(c) = sessions[c] \/ Content(c) = Append(sessions[c], Partial)
  BY DEF Content
<1>4. Partial \in Messages /\ \A r \in Runs : r # Partial
  BY AreMessages, MessagesDiffer
<1>5. Append(sessions[c], Partial) \in Contents /\ \A x : Holds(Append(sessions[c], Partial), x) <=> Holds(sessions[c], x) \/ x = Partial
  BY <1>1, <1>4, AppendTyped, HoldsAppended
<1> QED
  BY <1>1, <1>2, <1>3, <1>4, <1>5

\* What the flush gives a file of a chat holds what memory holds, or what it was given before.
LEMMA KnownHolds ==
    ASSUME StoreTyped, Grows, NEW c \in Chats, NEW r \in Runs, Holds(Known(c), r)
    PROVE  Holds(Mem(c), r)
<1>1. c \in Listed
  BY NothingHeld DEF Known
<1>2. CASE ~Skipped(c)
  BY <1>1, <1>2, ContentHolds DEF Known
<1>3. CASE Skipped(c)
  <2>1. Known(c) = written[c]
    BY <1>1, <1>3, NothingHeld DEF Known
  <2> QED
    BY <1>1, <2>1 DEF Grows, Seen
<1> QED
  BY <1>2, <1>3

LEMMA MemUnchanged ==
    ASSUME UNCHANGED <<sessions, undoable>>
    PROVE  Seen' = Seen /\ Listed' = Listed /\ Undo' = Undo /\ \A c : Mem(c)' = Mem(c)
BY DEF Seen, Listed, Undo, Mem

LEMMA FlushKeepsR ==
    ASSUME IInv, RInv, FlushTimer \/ (FlushNow /\ Flush), UNCHANGED <<jobVars, inboxVars>>
    PROVE  RInv'
<1>1. /\ flushing' = [stage |-> "chats", todo |-> {c \in Listed : ~Skipped(c) /\ written[c] # Content(c)},
                      list |-> Listed, removed |-> {c \in Chats \ Listed : written[c] # None}]
      /\ written' = [c \in Chats |-> Known(c)]
      /\ pending # "none" /\ ready /\ ~blocked /\ pending' = "none" /\ dirty' = {} /\ full' = FALSE
      /\ UNCHANGED <<up, ready, held, writtenIndex, blocked, damaged, sessions, open, loading, undoable, file, index, bak,
                     deleting, used, kept, undone>>
      /\ UNCHANGED <<jobVars, inboxVars>>
  BY DEF FlushTimer, FlushNow, Flush, CanFlush, diskVars
<1>2. StoreTyped /\ StoreInv /\ Grows /\ Whole
  BY DEF IInv, TypeOK, RInv
<1>3. /\ ~Writing /\ Waits = {}
  <2>1. CASE FlushTimer
    BY <2>1, IdleRests DEF FlushTimer, On
  <2>2. CASE FlushNow
    BY <2>2 DEF FlushNow, Writing, Flushes, Waits
  <2> QED
    BY <2>1, <2>2
<1>4. Writing' /\ Waits' = {c \in Listed : ~Skipped(c) /\ written[c] # Content(c)} /\ flushing'.stage = "chats"
  <2>1. flushing' \in Flushes
    BY <1>2, FlushTyped DEF FlushTimer, FlushNow, StoreTyped
  <2> QED
    BY <1>1, <2>1 DEF Writing, Waits
<1>5. Seen' = Seen /\ Listed' = Listed /\ Undo' = Undo /\ \A c : Mem(c)' = Mem(c)
  BY <1>1, MemUnchanged
<1>6. \A c \in Chats : written'[c] = Known(c)
  BY <1>1
<1>7. \A c \in Chats : \A r \in Runs : Holds(written'[c], r) => Holds(Mem(c)', r)
  BY <1>2, <1>5, <1>6, KnownHolds
<1>8. RunsKnown'
  <2>1. Begun' = Begun /\ job' = job /\ file' = file
    BY <1>1 DEF Begun, jobVars
  <2>2. \A r \in Runs \ Begun : \A c \in Chats : ~Holds(Mem(c)', r) /\ ~Holds(written'[c], r) /\ ~Holds(file'[c], r)
    BY <1>5, <1>7, <2>1 DEF RInv, RunsKnown
  <2> QED
    BY <2>1, <2>2 DEF RInv, RunsKnown
<1>9. Whole' /\ UndoGone'
  BY <1>5 DEF RInv, Whole, UndoGone
<1>10. Grows'
  BY <1>2, <1>5, <1>7, MemTyped DEF Grows
<1>11. InboxRight' /\ BlockedBare' /\ SavesRight'
  BY <1>1 DEF RInv, InboxRight, BlockedBare, SavesRight, inboxVars, jobVars, Done
<1>12. FilesExplained'
  <2> SUFFICES ASSUME up = "on", NEW c \in (Seen \cap Noted') \ (damaged \cup undone) PROVE Explained(c)'
    BY <1>1, <1>5 DEF FilesExplained
  <2>1. c \in Chats /\ Known(c) # None
    BY <1>6 DEF Noted
  <2>2. c \in Listed /\ c \notin damaged
    BY <2>1 DEF Known
  <2>3. \A r \in Runs : Differs(r, c) => Differs(r, c)'
    BY <1>1, <1>5 DEF Differs, inboxVars, jobVars
  <2>4. CASE written'[c] = written[c]
    <3>1. Noted \cap {c} = {c}
      BY <1>6, <2>1, <2>4 DEF Noted
    <3>2. Explained(c)
      BY <3>1 DEF RInv, FilesExplained
    <3>3. Agrees(c) => Agrees(c)'
      BY <1>1, <2>4 DEF Agrees, Loaded
    <3>4. ASSUME Rewrites(c) PROVE FALSE
      <4>1. full /\ \E r \in Runs : Holds(Mem(c), r) /\ ~Holds(written[c], r)
        BY <3>4 DEF Rewrites
      <4>2. ~Skipped(c)
        BY <2>2, <4>1 DEF Skipped
      <4>3. written[c] = Content(c)
        BY <1>6, <2>1, <2>2, <2>4, <4>2 DEF Known
      <4> QED
        BY <1>2, <2>2, <4>1, <4>3, ContentHolds
    <3> QED
      BY <1>3, <2>3, <3>2, <3>3, <3>4 DEF Explained
  <2>5. CASE written'[c] # written[c]
    <3>1. ~Skipped(c)
      BY <1>6, <2>1, <2>2, <2>5 DEF Known, Skipped
    <3>2. written'[c] = Content(c)
      BY <1>6, <2>1, <2>2, <3>1 DEF Known
    <3> QED
      BY <1>4, <2>2, <2>5, <3>1, <3>2 DEF Explained
  <2> QED
    BY <2>4, <2>5
<1>13. ChatsSaved'
  <2> SUFFICES ASSUME up = "on", NEW c \in Listed, c \notin damaged PROVE Clean(c)' \/ Marked(c)'
    BY <1>1, <1>5 DEF ChatsSaved
  <2>1. c \in Chats /\ sessions[c] \in Contents /\ Mem(c) = sessions[c] /\ Content(c) \in Contents
    BY <1>2, ContentHolds
  <2>2. CASE Skipped(c)
    <3>1. ~full /\ c \notin dirty /\ written[c] # None
      BY <2>2 DEF Skipped
    <3>2. written'[c] = written[c]
      BY <1>6, <2>1, <2>2, <3>1 DEF Known
    <3>3. Clean(c) \/ Marked(c)
      BY <1>1 DEF RInv, ChatsSaved
    <3>4. Clean(c) => Clean(c)'
      BY <1>1, <3>2 DEF Clean
    <3>5. Marked(c) => Marked(c)'
      BY <1>1, <3>1 DEF Marked
    <3> QED
      BY <3>3, <3>4, <3>5
  <2>3. CASE ~Skipped(c)
    <3>1. written'[c] = Content(c)
      BY <1>6, <2>1, <2>3 DEF Known
    <3>2. CASE pending = "partial" /\ c = open
      BY <1>1, <3>2 DEF RInv, SavesRight, Marked
    <3>3. CASE ~(pending = "partial" /\ c = open)
      <4>1. written'[c] = sessions[c]
        BY <3>1, <3>3 DEF Content
      <4>2. ~Holds(sessions[c], Partial)
        BY <1>2, <2>1 DEF Whole
      <4>3. LoadedOf(sessions[c]) = sessions[c] /\ sessions[c] # None
        BY <2>1, <4>2, LoadedHolds, Distinct
      <4> QED
        BY <1>1, <4>1, <4>3 DEF Clean
    <3> QED
      BY <3>2, <3>3
  <2> QED
    BY <2>2, <2>3
<1>14. IndexSaved'
  <2> SUFFICES ASSUME up = "on" PROVE IndexSaved'
    BY <1>1 DEF IndexSaved
  <2>1. writtenIndex # None => writtenIndex = {} \/ index = writtenIndex
    BY <1>1, <1>3 DEF RInv, IndexSaved
  <2> QED
    BY <1>1, <1>4, <2>1 DEF IndexSaved
<1> QED
  BY <1>8, <1>9, <1>10, <1>11, <1>12, <1>13, <1>14 DEF RInv

\* What files and helpers do leaves the chats in memory, and what is to be saved of them, as they are.
LEMMA MemoryStays ==
    ASSUME RInv,
           UNCHANGED <<up, ready, sessions, open, loading, saveVars, written, blocked, damaged, undoable, undone, jobVars>>,
           \A c \in Chats : file'[c] \in {file[c], written[c], None}
    PROVE  /\ Seen' = Seen /\ Listed' = Listed /\ Noted' = Noted /\ \A c : Mem(c)' = Mem(c)
           /\ RunsKnown' /\ Whole' /\ Grows' /\ UndoGone' /\ SavesRight' /\ ChatsSaved'
<1>1. Seen' = Seen /\ Listed' = Listed /\ Undo' = Undo /\ (\A c : Mem(c)' = Mem(c)) /\ Noted' = Noted
  BY MemUnchanged DEF Noted
<1>2. RunsKnown'
  <2>1. Begun' = Begun /\ job' = job
    BY DEF Begun, jobVars
  <2>2. \A r \in Runs \ Begun : \A c \in Chats : ~Holds(Mem(c)', r) /\ ~Holds(written'[c], r) /\ ~Holds(file'[c], r)
    BY <1>1, NothingHeld DEF RInv, RunsKnown
  <2> QED
    BY <2>1, <2>2 DEF RInv, RunsKnown
<1>3. Whole' /\ Grows' /\ UndoGone'
  BY <1>1 DEF RInv, Whole, Grows, UndoGone
<1>4. SavesRight'
  BY DEF RInv, SavesRight, saveVars
<1>5. ChatsSaved'
  BY <1>1 DEF RInv, ChatsSaved, Clean, Marked, saveVars
<1> QED
  BY <1>1, <1>2, <1>3, <1>4, <1>5

LEMMA FlushChatKeepsR ==
    ASSUME IInv, RInv, NEW c \in Chats, FlushChat(c), UNCHANGED <<jobVars, inboxVars>>
    PROVE  RInv'
<1>1. /\ flushing \in Flushes /\ c \in flushing.todo /\ flushing.stage = "chats"
      /\ file' = [file EXCEPT ![c] = written[c]] /\ flushing' = [flushing EXCEPT !.todo = @ \ {c}]
      /\ UNCHANGED <<up, ready, sessions, open, loading, saveVars, written, writtenIndex, blocked, damaged, undoable, index,
                     bak, deleting, used, kept, undone, jobVars, inboxVars>>
  BY FlushStepTyped DEF FlushChat, flushed, IInv, TypeOK
<1>2. flushing' \in Flushes /\ flushing'.todo = flushing.todo \ {c} /\ flushing'.stage = "chats"
  BY <1>1 DEF Flushes
<1>3. Writing /\ Writing' /\ Waits' = Waits \ {c}
  BY <1>1, <1>2 DEF Writing, Waits
<1>4. file'[c] = written[c] /\ \A d \in Chats \ {c} : file'[d] = file[d]
  BY <1>1 DEF IInv, TypeOK, StoreTyped, Files
<1>5. /\ Seen' = Seen /\ Listed' = Listed /\ Noted' = Noted /\ \A d : Mem(d)' = Mem(d)
      /\ RunsKnown' /\ Whole' /\ Grows' /\ UndoGone' /\ SavesRight' /\ ChatsSaved'
  BY <1>1, <1>4, MemoryStays
<1>6. ~blocked
  BY <1>3 DEF IInv, StoreInv, Flushed
<1>7. InboxRight' /\ BlockedBare'
  BY <1>1, <1>6 DEF RInv, InboxRight, BlockedBare, inboxVars, jobVars, Done
<1>8. FilesExplained'
  <2> SUFFICES ASSUME up = "on", NEW d \in (Seen \cap Noted) \ (damaged \cup undone) PROVE Explained(d)'
    BY <1>1, <1>5 DEF FilesExplained
  <2>1. CASE d = c
    BY <1>1, <1>4, <2>1, LoadedIs DEF Explained, Agrees, Loaded, LoadedOf
  <2>2. CASE d # c
    <3>1. d \in Chats /\ file'[d] = file[d]
      BY <1>4, <2>2 DEF Noted
    <3>2. Agrees(d) => Agrees(d)'
      BY <1>1, <3>1 DEF Agrees, Loaded
    <3>3. (Rewrites(d) => Rewrites(d)') /\ \A r \in Runs : Differs(r, d) => Differs(r, d)'
      BY <1>1, <1>5, <3>1 DEF Rewrites, Differs, saveVars, inboxVars, jobVars
    <3> QED
      BY <1>3, <2>2, <3>2, <3>3 DEF Explained, RInv, FilesExplained
  <2> QED
    BY <2>1, <2>2
<1>9. IndexSaved'
  BY <1>1, <1>2, <1>3, <1>5 DEF RInv, IndexSaved
<1> QED
  BY <1>5, <1>7, <1>8, <1>9 DEF RInv

\* As long as the files of chats stay, so does what is said of them.
LEMMA FilesStay ==
    ASSUME RInv,
           UNCHANGED <<up, ready, sessions, open, loading, saveVars, written, blocked, damaged, undoable, undone, jobVars, file>>,
           ToSet(inbox) \ (merged \cup strays) \subseteq (ToSet(inbox) \ (merged \cup strays))',
           discarded \subseteq discarded', Waits \subseteq Waits'
    PROVE  FilesExplained'
<1>1. Seen' = Seen /\ Noted' = Noted /\ \A c : Mem(c)' = Mem(c)
  BY MemUnchanged DEF Noted
<1> SUFFICES ASSUME up = "on", NEW c \in (Seen \cap Noted) \ (damaged \cup undone) PROVE Explained(c)'
  BY <1>1 DEF FilesExplained
<1>2. (Agrees(c) => Agrees(c)') /\ (Rewrites(c) => Rewrites(c)')
  BY <1>1 DEF Agrees, Loaded, Rewrites, saveVars
<1>3. \A r \in Runs : Differs(r, c) => Differs(r, c)'
  BY <1>1 DEF Differs, jobVars
<1>4. Explained(c)
  BY DEF RInv, FilesExplained
<1> QED
  BY <1>2, <1>3, <1>4 DEF Explained

LEMMA FlushIndexKeepsR == ASSUME IInv, RInv, FlushIndex, UNCHANGED <<jobVars, inboxVars>> PROVE RInv'
<1>1. /\ flushing \in Flushes /\ flushing.todo = {} /\ flushing.stage = "chats"
      /\ IF flushing.list = writtenIndex
         THEN index' = index /\ flushing' = [flushing EXCEPT !.stage = "end"]
         ELSE index' = flushing.list /\ flushing' = [flushing EXCEPT !.stage = "bak"]
      /\ UNCHANGED <<up, ready, sessions, open, loading, saveVars, written, writtenIndex, blocked, damaged, undoable, file,
                     bak, deleting, used, kept, undone, jobVars, inboxVars>>
  BY FlushStepTyped DEF FlushIndex, ChatsDone, flushed, IInv, TypeOK
<1>2. /\ flushing' \in Flushes /\ flushing'.stage = IF flushing.list = writtenIndex THEN "end" ELSE "bak"
  BY <1>1 DEF Flushes
<1>3. Writing /\ Writing' /\ Waits = {}
  BY <1>1, <1>2 DEF Writing, Waits
<1>4. ~blocked /\ flushing.list = Listed /\ (up = "on" => Listed # {}) /\ Listed \in Lists
  BY <1>3 DEF IInv, StoreInv, Flushed, Running, Listed, Lists
<1>5. /\ Seen' = Seen /\ Listed' = Listed /\ RunsKnown' /\ Whole' /\ Grows' /\ UndoGone' /\ SavesRight' /\ ChatsSaved'
  BY <1>1, MemoryStays
<1>6. InboxRight' /\ BlockedBare'
  BY <1>1, <1>4 DEF RInv, InboxRight, BlockedBare, inboxVars, jobVars, Done
<1>7. FilesExplained'
  <2>1. ToSet(inbox) \ (merged \cup strays) \subseteq (ToSet(inbox) \ (merged \cup strays))' /\ discarded \subseteq discarded'
    BY <1>1 DEF inboxVars
  <2> QED
    BY <1>1, <1>3, <2>1, FilesStay
<1>8. IndexSaved'
  <2> SUFFICES ASSUME up = "on" PROVE IndexSaved'
    BY <1>1 DEF IndexSaved
  <2>1. CASE flushing.list = writtenIndex
    <3>1. writtenIndex # None
      BY <1>4, <2>1, Distinct
    <3>2. index = Listed /\ index' = Listed /\ writtenIndex = Listed
      BY <1>1, <1>4, <2>1, <3>1 DEF RInv, IndexSaved
    <3> QED
      BY <1>1, <1>5, <3>2 DEF IndexSaved
  <2>2. CASE flushing.list # writtenIndex
    BY <1>1, <1>2, <1>3, <1>4, <1>5, <2>2 DEF IndexSaved
  <2> QED
    BY <2>1, <2>2
<1> QED
  BY <1>5, <1>6, <1>7, <1>8 DEF RInv

LEMMA FlushBakKeepsR == ASSUME IInv, RInv, FlushBak, UNCHANGED <<jobVars, inboxVars>> PROVE RInv'
<1>1. /\ flushing \in Flushes /\ flushing.stage = "bak" /\ writtenIndex' = flushing.list
      /\ flushing' = [flushing EXCEPT !.stage = "end"]
      /\ UNCHANGED <<up, ready, sessions, open, loading, saveVars, written, blocked, damaged, undoable, file, index,
                     deleting, used, undone, jobVars, inboxVars>>
  BY FlushStepTyped DEF FlushBak, flushed, IInv, TypeOK
<1>2. flushing' \in Flushes /\ flushing'.stage = "end"
  BY <1>1 DEF Flushes
<1>3. Writing /\ Writing' /\ Waits = {} /\ index = Listed /\ flushing.list = Listed /\ ~blocked
  BY <1>1, <1>2 DEF Writing, Waits, IInv, StoreInv, Flushed
<1>4. /\ Seen' = Seen /\ Listed' = Listed /\ RunsKnown' /\ Whole' /\ Grows' /\ UndoGone' /\ SavesRight' /\ ChatsSaved'
  BY <1>1, MemoryStays
<1>5. InboxRight' /\ BlockedBare'
  BY <1>1, <1>3 DEF RInv, InboxRight, BlockedBare, inboxVars, jobVars, Done
<1>6. FilesExplained'
  <2>1. ToSet(inbox) \ (merged \cup strays) \subseteq (ToSet(inbox) \ (merged \cup strays))' /\ discarded \subseteq discarded'
    BY <1>1 DEF inboxVars
  <2> QED
    BY <1>1, <1>3, <2>1, FilesStay
<1>7. IndexSaved'
  BY <1>1, <1>3, <1>4 DEF IndexSaved
<1> QED
  BY <1>4, <1>5, <1>6, <1>7 DEF RInv

LEMMA FlushEndKeepsR == ASSUME IInv, RInv, FlushEndSaved PROVE RInv'
<1>1. /\ flushing \in Flushes /\ flushing.stage = "end" /\ flushing' = None
      /\ removing' = removing \cup toRemove /\ toRemove' = {}
      /\ UNCHANGED <<up, ready, sessions, open, loading, saveVars, written, writtenIndex, blocked, damaged, undoable, file,
                     index, bak, used, undone, jobVars, inbox, merged, strays, discarded>>
  BY FlushStepTyped DEF FlushEndSaved, FlushEnd, Saved, flushed, diskVars, IInv, TypeOK
<1>2. Writing /\ ~Writing' /\ Waits = {}
  BY <1>1, Distinct DEF Writing, Waits, IInv, StoreInv, Flushed
<1>3. /\ Seen' = Seen /\ Listed' = Listed /\ RunsKnown' /\ Whole' /\ Grows' /\ UndoGone' /\ SavesRight' /\ ChatsSaved'
  BY <1>1, MemoryStays
<1>4. InboxRight' /\ BlockedBare'
  <2>1. BlockedBare'
    BY <1>1, <1>2 DEF BlockedBare, IInv, StoreInv, Flushed
  <2>2. InboxRight'
    BY <1>1 DEF RInv, InboxRight, jobVars, Done
  <2> QED
    BY <2>1, <2>2
<1>5. FilesExplained'
  BY <1>1, <1>2, FilesStay
<1>6. IndexSaved'
  BY <1>1, <1>2, <1>3 DEF RInv, IndexSaved, saveVars
<1> QED
  BY <1>3, <1>4, <1>5, <1>6 DEF RInv

\* A helper deletes the file of a chat: of one that is not in the list, or was brought back.
LEMMA DeleteFileKeepsR ==
    ASSUME IInv, RInv, NEW c \in Chats, DeleteFile(c), UNCHANGED <<jobVars, inboxVars>>
    PROVE  RInv'
<1>1. /\ c \in deleting /\ file' = [file EXCEPT ![c] = None]
      /\ UNCHANGED <<up, ready, sessions, open, loading, saveVars, written, writtenIndex, blocked, damaged, undoable,
                     flushing, index, bak, used, kept, undone, jobVars, inboxVars>>
  BY DEF DeleteFile, memVars, saveVars
<1>2. file'[c] = None /\ \A d \in Chats \ {c} : file'[d] = file[d]
  BY <1>1 DEF IInv, TypeOK, StoreTyped, Files
<1>3. /\ Seen' = Seen /\ Listed' = Listed /\ Noted' = Noted /\ \A d : Mem(d)' = Mem(d)
      /\ RunsKnown' /\ Whole' /\ Grows' /\ UndoGone' /\ SavesRight' /\ ChatsSaved'
  BY <1>1, <1>2, MemoryStays
<1>4. InboxRight'
  BY <1>1 DEF RInv, InboxRight, inboxVars, jobVars, Done
<1>5. BlockedBare'
  <2>1. Seen \subseteq Chats
    BY MemTyped DEF IInv, TypeOK
  <2> QED
    BY <1>1, <1>2, <1>3, <2>1 DEF RInv, BlockedBare, jobVars, saveVars
<1>6. FilesExplained'
  <2> SUFFICES ASSUME up = "on", NEW d \in (Seen \cap Noted) \ (damaged \cup undone) PROVE Explained(d)'
    BY <1>1, <1>3 DEF FilesExplained
  <2>1. d # c
    BY <1>1 DEF IInv, StoreInv, Doomed
  <2>2. d \in Chats /\ file'[d] = file[d]
    BY <1>2, <2>1 DEF Noted
  <2>3. (Agrees(d) => Agrees(d)') /\ (d \in Waits => d \in Waits') /\ (Rewrites(d) => Rewrites(d)')
    BY <1>1, <1>3, <2>2 DEF Agrees, Loaded, Waits, Writing, Rewrites, saveVars
  <2>4. \A r \in Runs : Differs(r, d) => Differs(r, d)'
    BY <1>1, <1>3, <2>2 DEF Differs, inboxVars, jobVars
  <2>5. Explained(d)
    BY DEF RInv, FilesExplained
  <2> QED
    BY <2>3, <2>4, <2>5 DEF Explained
<1>7. IndexSaved'
  BY <1>1, <1>3 DEF RInv, IndexSaved, Writing, saveVars
<1> QED
  BY <1>3, <1>4, <1>5, <1>6, <1>7 DEF RInv

\* The flush that scan asks for finds nothing it may write; helpers remove inbox files.
LEMMA InboxStays ==
    ASSUME IInv, RInv,
           \/ FlushNow /\ ~Flush
           \/ \E r \in Runs : RemoveFile(r) \/ StrayRemoves(r)
           \/ UNCHANGED vars
    PROVE  RInv'
<1>1. UNCHANGED <<up, ready, sessions, open, loading, saveVars, written, writtenIndex, blocked, damaged, undoable,
                  file, index, undone, jobVars>>
  BY DEF FlushNow, RemoveFile, StrayRemoves, vars, storeVars, memVars, diskVars, saveVars
<1>2. /\ Seen' = Seen /\ Listed' = Listed /\ Noted' = Noted /\ RunsKnown' /\ Whole' /\ Grows' /\ UndoGone' /\ SavesRight'
      /\ ChatsSaved'
  BY <1>1, MemoryStays
<1>3. BlockedBare'
  BY <1>1, <1>2 DEF RInv, BlockedBare, saveVars, jobVars
<1>4. Waits' = Waits /\ (flushing' = flushing \/ (~Writing /\ ~Writing'))
  <2>1. CASE FlushNow /\ ~Flush
    <3>1. flushing.stage = "now" /\ flushing' = None
      BY <2>1 DEF FlushNow
    <3>2. ~Writing /\ ~Writing'
      BY <3>1, Distinct DEF Writing, Flushes
    <3> QED
      BY <3>2 DEF Waits
  <2>2. CASE ~(FlushNow /\ ~Flush)
    BY <2>2 DEF RemoveFile, StrayRemoves, vars, storeVars, memVars, Waits, Writing
  <2> QED
    BY <2>1, <2>2
<1>5. IndexSaved'
  <2>1. IndexSaved
    BY DEF RInv
  <2>2. CASE flushing' = flushing
    BY <1>1, <1>2, <2>1, <2>2 DEF IndexSaved, Writing, saveVars
  <2>3. CASE ~Writing /\ ~Writing'
    BY <1>1, <1>2, <2>1, <2>3 DEF IndexSaved, saveVars
  <2> QED
    BY <1>4, <2>2, <2>3
<1>6. /\ InboxRight'
      /\ discarded' = discarded /\ ToSet(inbox) \ (merged \cup strays) \subseteq (ToSet(inbox) \ (merged \cup strays))'
  <2>1. Done' = Done
    BY <1>1 DEF Done, jobVars
  <2>2. CASE ~\E r \in Runs : RemoveFile(r) \/ StrayRemoves(r)
    <3>1. UNCHANGED inboxVars
      BY <2>2 DEF FlushNow, vars
    <3> QED
      BY <2>1, <3>1 DEF RInv, InboxRight, inboxVars
  <2>3. ASSUME NEW r \in Runs, RemoveFile(r) \/ StrayRemoves(r)
                 PROVE  /\ InboxRight'
                        /\ discarded' = discarded
                        /\ ToSet(inbox) \ (merged \cup strays) \subseteq (ToSet(inbox) \ (merged \cup strays))'
    <3>1. inbox \in Seq(Runs) /\ inbox' = Only(inbox, Runs \ {r})
      BY <2>3 DEF IInv, TypeOK, RemoveFile, StrayRemoves
    <3>2. ToSet(inbox') = ToSet(inbox) \cap (Runs \ {r}) /\ ToSet(inbox) \subseteq Runs
      <4>1. ToSet(inbox') = ToSet(inbox) \cap (Runs \ {r})
        BY <3>1, OnlySet
      <4>2. ToSet(inbox) \subseteq Runs
        BY <3>1 DEF ToSet
      <4> QED
        BY <4>1, <4>2
    <3>3. CASE RemoveFile(r)
      <4>1. r \in removing /\ removing' = removing \ {r} /\ merged' = merged \ {r} /\ UNCHANGED <<toRemove, strays, discarded>>
        BY <3>3 DEF RemoveFile
      <4> QED
        BY <2>1, <3>2, <4>1 DEF RInv, InboxRight
    <3>4. CASE StrayRemoves(r)
      <4>1. r \in strays /\ strays' = strays \ {r} /\ UNCHANGED <<merged, toRemove, removing, discarded>>
        BY <3>4 DEF StrayRemoves
      <4> QED
        BY <2>1, <3>2, <4>1 DEF RInv, InboxRight
    <3> QED
      BY <2>3, <3>3, <3>4
  <2> QED
    BY <2>2, <2>3
<1>7. FilesExplained'
  BY <1>1, <1>4, <1>6, FilesStay
<1> QED
  BY <1>2, <1>3, <1>5, <1>6, <1>7 DEF RInv

-----------------------------------------------------------------------------
(* Starts, ends and what is damaged while nothing runs.                    *)

\* A widget that does not run has nothing in memory: only the files and the jobs matter.
LEMMA OffKeeps ==
    ASSUME IInv, RInv, IInv', up' # "on", pending' = "none",
           UNCHANGED <<jobVars, inbox, discarded>>,
           \A c \in Chats : file'[c] \in {file[c], None, Bad},
           merged' \subseteq merged, strays' \subseteq strays \cup removing,
           (merged' = merged /\ toRemove' = toRemove /\ removing' = removing) \/ (toRemove' = {} /\ removing' = {})
    PROVE  RInv'
<1>1. Listed' = {} /\ Noted' = {} /\ undoable' = None
  BY DEF IInv, StoreInv, Running
<1>2. Undo' = {} /\ Seen' = {}
  BY <1>1 DEF Undo, Seen
<1>3. \A c \in Chats : Mem(c)' = None /\ written'[c] = None
  <2>1. \A c \in Chats : sessions'[c] = None /\ written'[c] = None
    BY <1>1 DEF Listed, Noted
  <2> QED
    BY <1>2, <2>1 DEF Mem
<1>4. RunsKnown'
  <2>1. Begun' = Begun /\ job' = job
    BY DEF Begun, jobVars
  <2>2. \A r \in Runs \ Begun : \A c \in Chats : ~Holds(Mem(c)', r) /\ ~Holds(written'[c], r) /\ ~Holds(file'[c], r)
    BY <1>3, NothingHeld DEF RInv, RunsKnown
  <2> QED
    BY <2>1, <2>2 DEF RInv, RunsKnown
<1>5. Whole' /\ Grows' /\ UndoGone'
  BY <1>1, <1>2, <1>3, NothingHeld DEF Whole, Grows, UndoGone
<1>6. InboxRight'
  BY DEF RInv, InboxRight, jobVars, Done
<1>7. BlockedBare' /\ SavesRight' /\ FilesExplained' /\ ChatsSaved' /\ IndexSaved'
  BY DEF BlockedBare, SavesRight, FilesExplained, ChatsSaved, IndexSaved
<1> QED
  BY <1>4, <1>5, <1>6, <1>7 DEF RInv

LEMMA OffSteps ==
    ASSUME IInv, RInv, IInv',
           \/ Start /\ UNCHANGED <<jobVars, inboxVars>>
           \/ DamageStep
           \/ Ends
           \/ Prepared /\ up = "starting" /\ UNCHANGED <<jobVars, inboxVars>>
    PROVE  RInv'
<1>1. up # "on" => pending = "none"
  BY DEF RInv, SavesRight
<1>2. CASE Start /\ UNCHANGED <<jobVars, inboxVars>>
  <2>1. up' # "on" /\ pending' = "none" /\ file' = file
    BY <1>1, <1>2 DEF Start, saveVars, diskVars
  <2> QED
    BY <1>2, <2>1, OffKeeps DEF inboxVars
<1>3. CASE DamageStep
  <2>1. up = "off" /\ UNCHANGED <<memVars, jobVars, inboxVars>>
    BY <1>3 DEF DamageStep, DamageFile, DamageIndex, LoseIndex
  <2>2. up' # "on" /\ pending' = "none"
    BY <1>1, <2>1 DEF memVars
  <2>3. \A c \in Chats : file'[c] \in {file[c], None, Bad}
    BY <1>3 DEF DamageStep, DamageFile, DamageIndex, LoseIndex, IInv, TypeOK, StoreTyped, Files
  <2> QED
    BY <2>1, <2>2, <2>3, OffKeeps DEF inboxVars
<1>4. CASE Ends
  <2>1. /\ up' = "off" /\ pending' = "none" /\ file' = file /\ UNCHANGED <<jobVars, inbox, discarded>>
        /\ merged' = {} /\ toRemove' = {} /\ removing' = {} /\ strays' \subseteq strays \cup removing
    BY <1>4 DEF Ends, Quit, Kill, Gone, diskVars
  <2> QED
    BY <2>1, OffKeeps
<1>5. CASE Prepared /\ up = "starting" /\ UNCHANGED <<jobVars, inboxVars>>
  <2>1. up' # "on" /\ pending' = "none" /\ file' = file
    BY <1>1, <1>5 DEF Prepared, saveVars, diskVars
  <2> QED
    BY <1>5, <2>1, OffKeeps DEF inboxVars
<1> QED
  BY <1>2, <1>3, <1>4, <1>5

\* An id that was never given out has nothing on disk and no job.
LEMMA NewIsBare ==
    ASSUME IInv, RInv, NEW c \in Chats, c \notin used
    PROVE  written[c] = None /\ file[c] = None /\ \A r \in Runs : job[r].chat # c
<1>1. written[c] = None /\ file[c] = None
  BY DEF IInv, StoreInv, Fresh, Noted
<1>2. \A r \in Runs : job[r].chat # c
  BY Distinct DEF IInv, Locked, RInv, RunsKnown
<1> QED
  BY <1>1, <1>2

LEMMA PreparedKeepsR == ASSUME IInv, RInv, Prepared, up = "on", UNCHANGED <<jobVars, inboxVars>> PROVE RInv'
<1>1. /\ Idle /\ ready' = TRUE
      /\ \/ ~blocked /\ held /\ held' = FALSE /\ pending' = "list" /\ full' = TRUE /\ dirty' = dirty
         \/ (blocked \/ ~held) /\ UNCHANGED saveVars
      /\ UNCHANGED <<up, sessions, open, loading, written, writtenIndex, blocked, damaged, undoable, flushing,
                     file, index, bak, undone, jobVars, inboxVars>>
  BY DEF Prepared, Released, NoHint, saveVars, diskVars
<1>2. Seen' = Seen /\ Listed' = Listed /\ Undo' = Undo /\ (\A c : Mem(c)' = Mem(c)) /\ Noted' = Noted
  BY <1>1, MemUnchanged DEF Noted
<1>3. RunsKnown' /\ Whole' /\ Grows' /\ UndoGone'
  BY <1>1, <1>2 DEF RInv, RunsKnown, Whole, Grows, UndoGone, jobVars, Begun
<1>4. InboxRight'
  BY <1>1 DEF RInv, InboxRight, inboxVars, jobVars, Done
<1>5. BlockedBare' /\ SavesRight'
  BY <1>1, <1>2 DEF RInv, BlockedBare, SavesRight, jobVars, saveVars
<1>6. FilesExplained'
  <2> SUFFICES ASSUME NEW c \in (Seen \cap Noted) \ (damaged \cup undone) PROVE Explained(c)'
    BY <1>1, <1>2 DEF FilesExplained
  <2>1. (Agrees(c) => Agrees(c)') /\ (c \in Waits => c \in Waits') /\ (Rewrites(c) => Rewrites(c)')
    BY <1>1, <1>2 DEF Agrees, Loaded, Waits, Writing, Rewrites, saveVars
  <2>2. \A r \in Runs : Differs(r, c) => Differs(r, c)'
    BY <1>1, <1>2 DEF Differs, inboxVars, jobVars
  <2> QED
    BY <2>1, <2>2 DEF RInv, FilesExplained, Explained
<1>7. ChatsSaved'
  BY <1>1, <1>2 DEF RInv, ChatsSaved, Clean, Marked, saveVars
<1>8. IndexSaved'
  BY <1>1, <1>2 DEF RInv, IndexSaved, Writing, saveVars
<1> QED
  BY <1>3, <1>4, <1>5, <1>6, <1>7, <1>8 DEF RInv

\* What a start or a rebuilt list shows is what the files hold.
LEMMA ShownIs ==
    ASSUME StoreTyped, NEW list \in Lists, Show(list)
    PROVE  \E c \in Chats :
              /\ IF list = {} THEN c \notin used ELSE c \in list
              /\ Listed' = list \cup {c}
              /\ \A d \in list : /\ sessions'[d] = LoadedOf(file[d]) /\ sessions'[d] # None
                                 /\ \A r \in Runs : Holds(written'[d], r) <=> Holds(file[d], r)
                                 /\ d \notin damaged' => written'[d] # None /\ LoadedOf(written'[d]) = LoadedOf(file[d])
              /\ \A d \in Chats \ list : written'[d] = None /\ sessions'[d] = IF d = c THEN <<>> ELSE None
              /\ damaged' = {d \in list : file[d] = Bad}
<1>1. PICK c \in (IF list = {} THEN Chats \ used ELSE list) :
        /\ sessions' = [d \in Chats |-> IF d \in list THEN Loaded(d) ELSE IF d = c THEN <<>> ELSE None]
        /\ damaged' = {d \in list : file[d] = Bad}
        /\ written' = [d \in Chats |-> IF d \notin list \/ file[d] = Bad THEN None
                                       ELSE IF file[d] = None THEN Bad ELSE file[d]]
  BY DEF Show
<1>2. c \in Chats /\ list \subseteq Chats /\ <<>> # None /\ None # Bad
  BY Distinct, EmptySeq DEF Lists, Contents
<1>3. \A d \in Chats : Loaded(d) = LoadedOf(file[d]) /\ Loaded(d) # None
  BY LoadedIs, LoadedTyped, Distinct
<1>4. \A d \in list : sessions'[d] = LoadedOf(file[d]) /\ sessions'[d] # None
  BY <1>1, <1>2, <1>3
<1>5. \A d \in Chats \ list : written'[d] = None /\ sessions'[d] = IF d = c THEN <<>> ELSE None
  BY <1>1
<1>6. Listed' = list \cup {c}
  BY <1>1, <1>2, <1>3 DEF Listed
<1>7. ASSUME NEW d \in list
      PROVE  /\ \A r \in Runs : Holds(written'[d], r) <=> Holds(file[d], r)
             /\ d \notin damaged' => written'[d] # None /\ LoadedOf(written'[d]) = LoadedOf(file[d])
  <2>1. written'[d] = IF file[d] = Bad THEN None ELSE IF file[d] = None THEN Bad ELSE file[d]
    BY <1>1, <1>2
  <2>2. d \in damaged' <=> file[d] = Bad
    BY <1>1
  <2>3. LoadedOf(Bad) = <<>> /\ LoadedOf(None) = <<>>
    BY DEF LoadedOf
  <2> QED
    BY <1>2, <2>1, <2>2, <2>3, NothingHeld
<1> QED
  BY <1>1, <1>2, <1>4, <1>5, <1>6, <1>7

\* A list that is shown anew: what is in memory is what the files hold.
LEMMA ShownKeepsR ==
    ASSUME IInv, RInv, NEW list \in Lists, Show(list), UNCHANGED <<file, job, undoable>>, Undo \cap list = {}
    PROVE  /\ RunsKnown' /\ Whole' /\ Grows' /\ UndoGone' /\ FilesExplained'
           /\ \A d \in Listed' \ damaged' : d \in list => Clean(d)'
           /\ \E c \in Chats : Listed' = list \cup {c} /\ IF list = {} THEN c \notin used ELSE c \in list
           /\ Noted' \subseteq list
<1>1. StoreTyped
  BY DEF IInv, TypeOK
<1>2. PICK c \in Chats :
        /\ IF list = {} THEN c \notin used ELSE c \in list
        /\ Listed' = list \cup {c}
        /\ \A d \in list : /\ sessions'[d] = LoadedOf(file[d]) /\ sessions'[d] # None
                           /\ \A r \in Runs : Holds(written'[d], r) <=> Holds(file[d], r)
                           /\ d \notin damaged' => written'[d] # None /\ LoadedOf(written'[d]) = LoadedOf(file[d])
        /\ \A d \in Chats \ list : written'[d] = None /\ sessions'[d] = IF d = c THEN <<>> ELSE None
        /\ damaged' = {d \in list : file[d] = Bad}
  BY <1>1, ShownIs
<1>3. Undo' = Undo /\ Undo \subseteq Chats /\ Undo \cap Listed' = {}
  BY <1>1, <1>2, MemTyped DEF Undo, IInv, StoreInv, Fresh
<1>4. list \subseteq Chats /\ None # Bad /\ <<>> # None
  BY Distinct, EmptySeq DEF Lists, Contents
<1>5. \A d \in list : Mem(d)' = LoadedOf(file[d])
  <2> SUFFICES ASSUME NEW d \in list PROVE Mem(d)' = LoadedOf(file[d])
    OBVIOUS
  <2>1. sessions'[d] = LoadedOf(file[d]) /\ sessions'[d] # None
    BY <1>2
  <2> QED
    BY <2>1 DEF Mem
<1>6. \A d \in Chats \ list : Mem(d)' \in {<<>>, None} \/ Mem(d)' = Mem(d)
  <2> SUFFICES ASSUME NEW d \in Chats \ list PROVE Mem(d)' \in {<<>>, None} \/ Mem(d)' = Mem(d)
    OBVIOUS
  <2>1. CASE d = c
    <3>1. sessions'[d] = <<>>
      BY <1>2, <2>1
    <3> QED
      BY <1>4, <3>1 DEF Mem
  <2>2. CASE d # c
    <3>1. sessions'[d] = None
      BY <1>2, <2>2
    <3>2. d \in Undo => d \notin Listed
      BY DEF RInv, UndoGone
    <3>3. d \in Undo => sessions[d] = None
      BY <3>2 DEF Listed
    <3> QED
      BY <1>3, <3>1, <3>3 DEF Mem
  <2> QED
    BY <2>1, <2>2
<1>7. \A d \in Chats : file[d] \in Contents \cup {None, Bad}
  BY <1>1 DEF StoreTyped, Files
<1>8. \A d \in list : /\ \A r \in Runs : Holds(Mem(d)', r) <=> Holds(file[d], r)
                      /\ ~Holds(Mem(d)', Partial)
  BY <1>4, <1>5, <1>7, LoadedHolds
<1>9. \A d \in Chats \ list : \A m \in Runs \cup {Partial} : Holds(Mem(d)', m) => Holds(Mem(d), m)
  BY <1>6, NothingHeld
<1>10. \A d \in Chats : \A r \in Runs : Holds(written'[d], r) => d \in list /\ Holds(file[d], r)
  BY <1>2, NothingHeld
<1>11. RunsKnown'
  <2>1. Begun' = Begun /\ job' = job /\ file' = file
    BY DEF Begun
  <2>2. ASSUME NEW r \in Runs \ Begun, NEW d \in Chats
        PROVE  ~Holds(Mem(d)', r) /\ ~Holds(written'[d], r) /\ ~Holds(file'[d], r)
    <3>1. ~Holds(Mem(d), r) /\ ~Holds(file[d], r)
      BY DEF RInv, RunsKnown
    <3> QED
      BY <1>8, <1>9, <1>10, <2>1, <3>1
  <2> QED
    BY <2>1, <2>2 DEF RInv, RunsKnown
<1>12. Whole'
  BY <1>8, <1>9 DEF RInv, Whole
<1>13. Grows'
  <2>1. Seen' \subseteq Chats
    BY <1>2, <1>3, <1>4 DEF Seen
  <2> QED
    BY <1>8, <1>10, <2>1 DEF Grows
<1>14. UndoGone'
  BY <1>3 DEF UndoGone
<1>15. FilesExplained'
  <2> SUFFICES ASSUME NEW d \in (Seen' \cap Noted') \ (damaged' \cup undone') PROVE Agrees(d)'
    BY DEF FilesExplained, Explained
  <2>1. d \in Chats /\ d \in list
    BY <1>2 DEF Noted
  <2>2. LoadedOf(written'[d]) = LoadedOf(file[d])
    BY <1>2, <2>1
  <2>3. Loaded(d)' = LoadedOf(file'[d])
    BY DEF Loaded, LoadedOf
  <2> QED
    BY <2>2, <2>3 DEF Agrees
<1>16. \A d \in Listed' \ damaged' : d \in list => Clean(d)'
  BY <1>2 DEF Clean
<1>17. Noted' \subseteq list
  BY <1>2 DEF Noted
<1> QED
  BY <1>2, <1>11, <1>12, <1>13, <1>14, <1>15, <1>16, <1>17

LEMMA LoadKeepsR == ASSUME IInv, RInv, LoadScanned PROVE RInv'
<1> DEFINE list == IF ~HasIndex \/ ReadIndex = Bad THEN {} ELSE ReadIndex
           new == ~HasIndex \/ ReadIndex = {}
<1>1. /\ up = "starting" /\ up' = "on" /\ ready' = ready /\ blocked' = Unreadable /\ Show(list)
      /\ writtenIndex' = IF index \in {None, Bad} THEN (IF HasIndex /\ index = None THEN {} ELSE None) ELSE index
      /\ UNCHANGED <<undoable, flushing, file, index, bak, job>>
  BY DEF LoadScanned, Load, diskVars, jobVars
<1>2. StoreTyped /\ list \in Lists /\ pending = "none" /\ undoable = None
  BY <1>1, ReadTyped DEF IInv, TypeOK, RInv, SavesRight, StoreInv, Running
<1>3. \/ blocked' /\ UNCHANGED saveVars
      \/ ~blocked' /\ (new \/ held) /\ pending' = "list" /\ full' = TRUE /\ ready
      \/ ~blocked' /\ new /\ ~ready /\ held' = TRUE /\ UNCHANGED pending
      \/ ~blocked' /\ ~new /\ UNCHANGED saveVars
  <2>1. IF blocked' THEN UNCHANGED saveVars
        ELSE IF ready THEN Released(new)
        ELSE IF new THEN Hold ELSE UNCHANGED saveVars
    BY DEF LoadScanned, Load
  <2> HIDE DEF new
  <2> QED
    BY <2>1 DEF Released, NoHint, Hold
<1>4. /\ blocked' => index = Bad /\ list = {}
      /\ ~blocked' /\ list = {} => new
      /\ ~blocked' /\ index = None => new
      /\ ~blocked' /\ index \notin {None, Bad} => list = index
  BY <1>1, <1>2, Distinct DEF Unreadable, HasIndex, ReadIndex, StoreTyped
<1>5. index \in Lists \cup {None, Bad}
  BY <1>2 DEF StoreTyped
<1> HIDE DEF list, new
<1>6. Undo = {} /\ Undo' = {}
  BY <1>1, <1>2 DEF Undo
<1>7. /\ RunsKnown' /\ Whole' /\ Grows' /\ UndoGone' /\ FilesExplained'
      /\ \A d \in Listed' \ damaged' : d \in list => Clean(d)'
      /\ \E c \in Chats : Listed' = list \cup {c} /\ IF list = {} THEN c \notin used ELSE c \in list
      /\ Noted' \subseteq list
  BY <1>1, <1>2, <1>6, ShownKeepsR
<1>8. PICK c \in Chats : Listed' = list \cup {c} /\ IF list = {} THEN c \notin used ELSE c \in list
  BY <1>7
<1>9. InboxRight'
  <2>1. Done' = Done
    BY <1>1 DEF Done
  <2>2. inbox \in Seq(Runs)
    BY DEF IInv, TypeOK
  <2>3. ToSet(Unmerged) = ToSet(inbox) \cap (Runs \ merged)
    BY <2>2, OnlySet DEF Unmerged
  <2>4. CASE UNCHANGED inboxVars
    BY <2>1, <2>4 DEF RInv, InboxRight, inboxVars
  <2>5. CASE /\ merged' = merged \cup ToSet(inbox)
             /\ discarded' = discarded \cup ToSet(Unmerged)
             /\ removing' = removing \cup ToSet(Unmerged)
             /\ UNCHANGED <<inbox, toRemove, strays>>
    BY <2>1, <2>3, <2>5 DEF RInv, InboxRight
  <2> QED
    BY <2>4, <2>5 DEF LoadScanned
<1>10. BlockedBare'
  <2> SUFFICES ASSUME blocked' PROVE BlockedBare'
    BY DEF BlockedBare
  <2>1. index' = Bad /\ pending' = "none" /\ Noted' = {} /\ Seen' = {c} /\ c \notin used
    BY <1>1, <1>2, <1>3, <1>4, <1>6, <1>7, <1>8 DEF Seen, saveVars
  <2>2. file'[c] = None /\ \A r \in Runs : job'[r].chat # c
    BY <1>1, <2>1, NewIsBare
  <2> QED
    BY <2>1, <2>2 DEF BlockedBare
<1>11. SavesRight'
  BY <1>1, <1>2, <1>3 DEF SavesRight, saveVars
<1>12. ChatsSaved'
  <2> SUFFICES ASSUME ~blocked', NEW d \in Listed', d \notin damaged' PROVE Clean(d)' \/ Marked(d)'
    BY DEF ChatsSaved
  <2>1. CASE d \in list
    BY <1>7, <2>1
  <2>2. CASE d \notin list
    <3>1. new
      BY <1>4, <1>8, <2>2
    <3> QED
      BY <1>3, <3>1 DEF Marked
  <2> QED
    BY <2>1, <2>2
<1>13. IndexSaved'
  <2> SUFFICES ASSUME ~blocked' PROVE IndexSaved'
    BY DEF IndexSaved
  <2>1. index' # Bad => index' = Listed' \/ pending' # "none" \/ held'
    <3>1. CASE new
      BY <1>3, <3>1
    <3>2. CASE ~new
      BY <1>1, <1>4, <1>8, <3>2
    <3> QED
      BY <3>1, <3>2
  <2>2. writtenIndex' # None => writtenIndex' = {} \/ index' = writtenIndex'
    BY <1>1
  <2> QED
    BY <2>1, <2>2 DEF IndexSaved
<1> QED
  BY <1>7, <1>9, <1>10, <1>11, <1>12, <1>13 DEF RInv

LEMMA RebuildKeepsR == ASSUME IInv, RInv, rebuildIndex, UNCHANGED <<jobVars, inboxVars>> PROVE RInv'
<1> DEFINE all == {c \in Chats : file[c] # None}
<1>1. /\ On /\ blocked /\ ready /\ Show(all) /\ index' = all /\ writtenIndex' = all /\ blocked' = FALSE
      /\ \/ all = {} /\ pending' = "list" /\ full' = TRUE
         \/ all # {} /\ pending' = "none"
      /\ UNCHANGED <<up, ready, undoable, flushing, file, job>>
  BY DEF rebuildIndex, NoHint, jobVars
<1>2. StoreTyped /\ all \in Lists
  BY DEF IInv, TypeOK, Lists
<1>3. Undo \cap all = {}
  BY <1>1 DEF RInv, BlockedBare, On, Seen
<1> HIDE DEF all
<1>4. /\ RunsKnown' /\ Whole' /\ Grows' /\ UndoGone' /\ FilesExplained'
      /\ \A d \in Listed' \ damaged' : d \in all => Clean(d)'
      /\ \E c \in Chats : Listed' = all \cup {c} /\ IF all = {} THEN c \notin used ELSE c \in all
  BY <1>1, <1>2, <1>3, ShownKeepsR
<1>5. PICK c \in Chats : Listed' = all \cup {c} /\ IF all = {} THEN c \notin used ELSE c \in all
  BY <1>4
<1>6. InboxRight'
  BY <1>1 DEF RInv, InboxRight, inboxVars, Done
<1>7. BlockedBare' /\ SavesRight'
  BY <1>1 DEF BlockedBare, SavesRight, On
<1>8. ChatsSaved'
  <2> SUFFICES ASSUME NEW d \in Listed', d \notin damaged' PROVE Clean(d)' \/ Marked(d)'
    BY DEF ChatsSaved
  <2>1. CASE d \in all
    BY <1>4, <2>1
  <2>2. CASE d \notin all
    BY <1>1, <1>5, <2>2 DEF Marked
  <2> QED
    BY <2>1, <2>2
<1>9. IndexSaved'
  BY <1>1, <1>5 DEF IndexSaved
<1> QED
  BY <1>4, <1>6, <1>7, <1>8, <1>9 DEF RInv

-----------------------------------------------------------------------------
(* The inbox is scanned.                                                   *)

LEMMA ContainsHolds == ASSUME NEW f \in Contents, NEW m PROVE Contains(f, m) <=> Holds(f, m)
<1>1. f \notin {None, Bad} /\ DOMAIN f = 1 .. Len(f)
  BY Distinct DEF Contents
<1> QED
  BY <1>1 DEF Contains, Holds

LEMMA ToSetHolds == ASSUME NEW f \in Contents, NEW m PROVE Holds(f, m) <=> m \in ToSet(f)
<1>1. f \notin {None, Bad} /\ DOMAIN f = 1 .. Len(f) /\ f \in Seq(Messages)
  BY Distinct DEF Contents
<1>2. m \in ToSet(f) <=> InSeq(f, m)
  BY <1>1, InToSet
<1> QED
  BY <1>1, <1>2 DEF InSeq, Holds

\* The sets of runs that scan works with, as in its definition.
Fresher == ToSet(inbox) \ merged
Here == {r \in Fresher : job[r].chat \in Listed}
Lost == Fresher \ Here
Handled == {r \in Here : ~Later(r)}
Added == {r \in Handled : ~Present(r)}

LEMMA ScanIs ==
    ASSUME IInv, scan
    PROVE  /\ On /\ ready
           /\ merged' = merged \cup Lost \cup Handled /\ discarded' = discarded \cup Lost
           /\ \A c \in Listed : \E g \in Contents :
                 /\ sessions'[c] = sessions[c] \o g
                 /\ \A m : Holds(g, m) <=> m \in Added /\ job[m].chat = c
                 /\ Once(inbox) => Once(g)
           /\ \/ /\ Added # {} /\ persistSessions /\ flushing' = Now /\ writtenIndex' = None
                 /\ toRemove' = toRemove \cup Lost \cup Handled /\ removing' = removing
              \/ /\ Added = {} /\ UNCHANGED <<saveVars, flushing, writtenIndex>>
                 /\ removing' = removing \cup toRemove \cup Lost \cup Handled /\ toRemove' = {}
           /\ UNCHANGED <<up, ready, open, loading, written, blocked, damaged, undoable, file, index, bak, deleting, used,
                          kept, undone, job, lock, inbox, strays>>
<1>1. inbox \in Seq(Runs) /\ StoreTyped
  BY DEF IInv, TypeOK
<1>2. ToSet(Unmerged) = Fresher
  <2>1. ToSet(inbox) \subseteq Runs
    BY <1>1 DEF ToSet
  <2>2. ToSet(Unmerged) = ToSet(inbox) \cap (Runs \ merged)
    BY <1>1, OnlySet DEF Unmerged
  <2> QED
    BY <2>1, <2>2 DEF Fresher
<1>3. /\ sessions' = [c \in Chats |-> IF c \in Listed
                                      THEN sessions[c] \o Only(Unmerged, {r \in Added : job[r].chat = c}) ELSE None]
      /\ merged' = merged \cup Lost \cup Handled /\ discarded' = discarded \cup Lost
  BY <1>2 DEF scan, Here, Lost, Handled, Added
<1>4. \/ /\ Added # {} /\ persistSessions /\ flushing' = Now /\ writtenIndex' = None
         /\ toRemove' = toRemove \cup Lost \cup Handled /\ removing' = removing
      \/ /\ Added = {} /\ UNCHANGED <<saveVars, flushing, writtenIndex>>
         /\ removing' = removing \cup toRemove \cup Lost \cup Handled /\ toRemove' = {}
  BY <1>2 DEF scan, Here, Lost, Handled, Added, MustSave, SaveMerged, Now
<1>5. ASSUME NEW c \in Listed
      PROVE  \E g \in Contents : /\ sessions'[c] = sessions[c] \o g
                                 /\ \A m : Holds(g, m) <=> m \in Added /\ job[m].chat = c
                                 /\ Once(inbox) => Once(g)
  <2> DEFINE S == {r \in Added : job[r].chat = c}
             g == Only(Unmerged, S)
  <2>1. S \subseteq ToSet(Unmerged)
    BY <1>2 DEF Added, Handled, Here
  <2>2. g \in Contents
    BY <1>1, <2>1, AddsTyped
  <2>3. ToSet(g) = S
    <3>1. Unmerged \in Seq(Runs)
      BY <1>1, UnmergedTyped
    <3>2. ToSet(g) = ToSet(Unmerged) \cap S
      BY <3>1, OnlySet
    <3> QED
      BY <2>1, <3>2
  <2>4. sessions'[c] = sessions[c] \o g
    BY <1>3 DEF Listed
  <2>5. \A m : m \in S <=> m \in Added /\ job[m].chat = c
    OBVIOUS
  <2> HIDE DEF S
  <2>7. Once(inbox) => Once(g)
    <3>1. Once(inbox) => Once(Unmerged)
      BY <1>1, OnlyOnce DEF Unmerged
    <3> QED
      BY <1>1, <3>1, UnmergedTyped, OnlyOnce
  <2> HIDE DEF g
  <2>6. \A m : Holds(g, m) <=> m \in S
    BY <2>2, <2>3, ToSetHolds
  <2> QED
    BY <2>2, <2>4, <2>5, <2>6, <2>7
<1>6. /\ On /\ ready
      /\ UNCHANGED <<up, ready, open, loading, written, blocked, damaged, undoable, file, index, bak, deleting, used,
                     kept, undone, job, lock, inbox, strays>>
  BY DEF scan, diskVars, jobVars
<1> QED
  BY <1>3, <1>4, <1>5, <1>6

\* Memory gains the runs that were added, and nothing else.
LEMMA ScanMem ==
    ASSUME IInv, scan
    PROVE  /\ Listed' = Listed /\ Undo' = Undo /\ Seen' = Seen
           /\ \A c \in Chats : \A m : Holds(Mem(c)', m) <=> Holds(Mem(c), m) \/ (c \in Listed /\ m \in Added /\ job[m].chat = c)
           /\ Added = {} => \A c \in Listed : sessions'[c] = sessions[c]
<1>1. Listed' = Listed
  BY ScanChats DEF IInv
<1>2. undoable' = undoable /\ Undo' = Undo /\ Seen' = Seen
  BY <1>1, ScanIs DEF Undo, Seen
<1>3. ASSUME NEW c \in Listed, NEW g \in Contents, sessions'[c] = sessions[c] \o g,
             \A m : Holds(g, m) <=> m \in Added /\ job[m].chat = c
      PROVE  /\ \A m : Holds(Mem(c)', m) <=> Holds(Mem(c), m) \/ (m \in Added /\ job[m].chat = c)
             /\ Added = {} => sessions'[c] = sessions[c]
  <2>1. sessions[c] \in Contents /\ sessions[c] # None /\ sessions'[c] # None
    BY <1>1 DEF Listed, IInv, TypeOK, StoreTyped, Chatting
  <2>2. Mem(c) = sessions[c] /\ Mem(c)' = sessions'[c]
    BY <2>1 DEF Mem
  <2>3. \A m : Holds(sessions[c] \o g, m) <=> Holds(sessions[c], m) \/ Holds(g, m)
    BY <2>1, HoldsJoined
  <2>4. ASSUME Added = {} PROVE sessions'[c] = sessions[c]
    <3>1. \A m : ~Holds(g, m)
      BY <1>3, <2>4
    <3>2. ToSet(g) = {}
      BY <3>1, ToSetHolds
    <3>3. g = <<>>
      BY <3>2, EmptyToSet DEF Contents
    <3>4. sessions[c] \in Seq(Messages)
      BY <2>1 DEF Contents
    <3> QED
      BY <1>3, <3>3, <3>4
  <2> QED
    BY <1>3, <2>2, <2>3, <2>4
<1>4. ASSUME NEW c \in Chats, c \notin Listed PROVE Mem(c)' = Mem(c)
  <2>1. sessions[c] = None /\ sessions'[c] = None
    <3>1. c \notin Listed'
      BY <1>1, <1>4
    <3> QED
      BY <1>4, <3>1 DEF Listed
  <2> QED
    BY <1>2, <2>1 DEF Mem
<1>5. \A c \in Listed : /\ \A m : Holds(Mem(c)', m) <=> Holds(Mem(c), m) \/ (m \in Added /\ job[m].chat = c)
                        /\ Added = {} => sessions'[c] = sessions[c]
  BY <1>3, ScanIs
<1> QED
  BY <1>1, <1>2, <1>4, <1>5

LEMMA ScanKeepsR == ASSUME IInv, RInv, scan PROVE RInv'
<1>1. /\ On /\ ready
      /\ merged' = merged \cup Lost \cup Handled /\ discarded' = discarded \cup Lost
      /\ \/ /\ Added # {} /\ persistSessions /\ flushing' = Now /\ writtenIndex' = None
            /\ toRemove' = toRemove \cup Lost \cup Handled /\ removing' = removing
         \/ /\ Added = {} /\ UNCHANGED <<saveVars, flushing, writtenIndex>>
            /\ removing' = removing \cup toRemove \cup Lost \cup Handled /\ toRemove' = {}
      /\ UNCHANGED <<up, ready, open, loading, written, blocked, damaged, undoable, file, index, bak, deleting, used,
                     kept, undone, job, lock, inbox, strays>>
  BY ScanIs
<1>2. /\ Listed' = Listed /\ Undo' = Undo /\ Seen' = Seen
      /\ \A c \in Chats : \A m : Holds(Mem(c)', m) <=> Holds(Mem(c), m) \/ (c \in Listed /\ m \in Added /\ job[m].chat = c)
      /\ Added = {} => \A c \in Listed : sessions'[c] = sessions[c]
  BY ScanMem
<1>3. Lost \cup Handled \subseteq ToSet(inbox) \ merged /\ Added \subseteq Handled /\ ToSet(inbox) \subseteq Runs
  <2>1. ToSet(inbox) \subseteq Runs
    BY DEF IInv, TypeOK, ToSet
  <2> QED
    BY <2>1 DEF Lost, Handled, Here, Fresher, Added
<1>4. \/ blocked /\ UNCHANGED saveVars
      \/ ~blocked /\ pending' = "list" /\ full' = TRUE /\ UNCHANGED <<held, dirty>>
      \/ Added = {} /\ UNCHANGED saveVars
  BY <1>1 DEF persistSessions, NoHint
<1>5. Added \subseteq Begun /\ Done' = Done /\ Begun' = Begun
  BY <1>1, <1>3 DEF RInv, InboxRight, Done, Begun
<1>6. RunsKnown'
  <2>1. ASSUME NEW r \in Runs \ Begun, NEW c \in Chats
        PROVE  ~Holds(Mem(c)', r) /\ ~Holds(written'[c], r) /\ ~Holds(file'[c], r)
    BY <1>1, <1>2, <1>5 DEF RInv, RunsKnown
  <2> QED
    BY <1>1, <1>5, <2>1 DEF RInv, RunsKnown
<1>7. Whole'
  <2>1. Partial \notin Added
    BY <1>3, MessagesDiffer
  <2> QED
    BY <1>2, <2>1 DEF RInv, Whole
<1>8. Seen \subseteq Chats
  BY MemTyped DEF IInv, TypeOK
<1>9. Grows' /\ UndoGone'
  BY <1>1, <1>2, <1>8 DEF RInv, Grows, UndoGone
<1>10. InboxRight'
  <2>1. InboxRight
    BY DEF RInv
  <2>2. ToSet(inbox') \cup merged' \cup strays' \cup discarded' \subseteq Done'
    BY <1>1, <1>3, <1>5, <2>1 DEF InboxRight
  <2>3. toRemove' \cup removing' \subseteq merged' /\ toRemove' \cap removing' = {}
    BY <1>1, <1>3, <2>1 DEF InboxRight
  <2> QED
    BY <2>2, <2>3 DEF InboxRight
<1>11. BlockedBare' /\ SavesRight'
  BY <1>1, <1>2, <1>4 DEF RInv, BlockedBare, SavesRight, saveVars, Noted, On
<1>12. FilesExplained'
  <2> SUFFICES ASSUME NEW c \in (Seen \cap Noted) \ (damaged \cup undone) PROVE Explained(c)'
    BY <1>1, <1>2 DEF FilesExplained, Noted
  <2>1. c \in Chats /\ ~blocked /\ Explained(c)
    BY <1>1, <1>8 DEF RInv, FilesExplained, BlockedBare, On
  <2>2. (Agrees(c) => Agrees(c)') /\ c \notin Waits
    BY <1>1, IdleRests DEF Agrees, Loaded, On
  <2>3. Added # {} => pending' = "list" /\ full'
    BY <1>4, <2>1
  <2>4. Rewrites(c) => Rewrites(c)'
    <3>1. pending # "none" /\ full => pending' # "none" /\ full'
      BY <1>4 DEF saveVars
    <3> QED
      BY <1>1, <1>2, <2>1, <3>1 DEF Rewrites
  <2>5. ASSUME NEW r \in Runs, Differs(r, c) PROVE Rewrites(c)' \/ Differs(r, c)'
    <3>1. CASE Holds(Mem(c)', r)
      <4>1. r \in Added
        BY <1>2, <2>1, <2>5, <3>1 DEF Differs
      <4>2. ~Holds(written'[c], r)
        BY <1>1, <2>5 DEF RInv, Grows, Differs
      <4> QED
        BY <2>3, <3>1, <4>1, <4>2 DEF Rewrites
    <3>2. CASE ~Holds(Mem(c)', r)
      <4>1. r \in ToSet(inbox) \ (merged \cup strays) => r \in ToSet(inbox') \ (merged' \cup strays') \/ r \in discarded'
        <5> SUFFICES ASSUME r \in ToSet(inbox), r \notin merged, r \notin Lost, r \in Handled PROVE FALSE
          BY <1>1
        <5>1. c \in Listed /\ job[r].chat = c
          BY <2>5 DEF Differs, Handled, Here
        <5>2. r \notin Added
          BY <1>2, <2>1, <3>2, <5>1
        <5>3. Contains(sessions[c], r)
          BY <5>1, <5>2 DEF Added, Present
        <5>4. sessions[c] \in Contents /\ Mem(c) = sessions[c]
          BY <5>1, ContentHolds DEF IInv, TypeOK
        <5> QED
          BY <2>5, <5>3, <5>4, ContainsHolds DEF Differs
      <4> QED
        BY <1>1, <2>5, <3>2, <4>1 DEF Differs
    <3> QED
      BY <3>1, <3>2
  <2> QED
    BY <2>1, <2>2, <2>4, <2>5 DEF Explained
<1>13. ChatsSaved'
  <2> SUFFICES ASSUME ~blocked, NEW c \in Listed, c \notin damaged PROVE Clean(c)' \/ Marked(c)'
    BY <1>1, <1>2 DEF ChatsSaved
  <2>1. CASE Added # {}
    BY <1>4, <2>1 DEF Marked
  <2>2. CASE Added = {} /\ UNCHANGED saveVars
    <3>1. Clean(c) \/ Marked(c)
      BY <1>1 DEF RInv, ChatsSaved, On
    <3>2. Clean(c) => Clean(c)'
      BY <1>1, <1>2, <2>2 DEF Clean
    <3>3. Marked(c) => Marked(c)'
      BY <1>1, <2>2 DEF Marked, saveVars
    <3> QED
      BY <3>1, <3>2, <3>3
  <2> QED
    BY <1>1, <2>1, <2>2
<1>14. IndexSaved'
  <2> SUFFICES ASSUME ~blocked PROVE IndexSaved'
    BY <1>1 DEF IndexSaved
  <2>1. ~Writing /\ ~Writing'
    <3>1. Now \notin Flushes
      BY DEF Now, Flushes
    <3>2. ~Writing
      BY <1>1, IdleRests DEF On
    <3> QED
      BY <1>1, <3>1, <3>2 DEF Writing
  <2>2. index # Bad => index = Listed \/ pending # "none" \/ held
    BY <1>1, <2>1 DEF RInv, IndexSaved, On
  <2>3. writtenIndex # None => writtenIndex = {} \/ index = writtenIndex
    BY <1>1, <2>1 DEF RInv, IndexSaved, On
  <2>4. (pending # "none" => pending' # "none") /\ (held => held')
    BY <1>4 DEF saveVars
  <2>5. index' # Bad => index' = Listed' \/ pending' # "none" \/ held'
    BY <1>1, <1>2, <2>2, <2>4
  <2>6. writtenIndex' # None => writtenIndex' = {} \/ index' = writtenIndex'
    BY <1>1, <2>3
  <2> QED
    BY <2>5, <2>6 DEF IndexSaved
<1> QED
  BY <1>6, <1>7, <1>9, <1>10, <1>11, <1>12, <1>13, <1>14 DEF RInv

-----------------------------------------------------------------------------
(* The jobs.                                                               *)

\* What a job does leaves the widget's memory as it is.
JobSteps(r) == JobStep(r) \/ JobDies(r)

LEMMA JobMem ==
    ASSUME NEW r \in Runs, JobSteps(r)
    PROVE  /\ UNCHANGED <<up, ready, sessions, open, loading, saveVars, written, writtenIndex, blocked, damaged, undoable,
                          flushing, index, bak, deleting, used, kept, undone, merged, toRemove, removing, strays,
                          discarded>>
           /\ Seen' = Seen /\ Listed' = Listed /\ Undo' = Undo /\ Noted' = Noted /\ \A c : Mem(c)' = Mem(c)
           /\ Waits' = Waits /\ Writing' = Writing
<1>1. UNCHANGED <<up, ready, sessions, open, loading, saveVars, written, writtenIndex, blocked, damaged, undoable,
                  flushing, index, bak, deleting, used, kept, undone, merged, toRemove, removing, strays, discarded>>
  BY DEF JobSteps, JobStep, JobDies, find_chat, load_messages, append, write_inbox, storeVars, memVars, diskVars,
     saveVars, inboxVars
<1> QED
  BY <1>1, MemUnchanged DEF Noted, Waits, Writing

\* What is said of memory alone, or of memory and the index, stays true.
LEMMA JobRest ==
    ASSUME RInv, NEW r \in Runs, JobSteps(r)
    PROVE  Whole' /\ Grows' /\ UndoGone' /\ SavesRight' /\ ChatsSaved' /\ IndexSaved'
<1>1. /\ UNCHANGED <<up, ready, sessions, open, loading, saveVars, written, writtenIndex, blocked, damaged, undoable,
                     flushing, index>>
      /\ Seen' = Seen /\ Listed' = Listed /\ Undo' = Undo /\ \A c : Mem(c)' = Mem(c)
      /\ Writing' = Writing
  BY JobMem
<1>2. Whole' /\ Grows' /\ UndoGone' /\ SavesRight'
  BY <1>1 DEF RInv, Whole, Grows, UndoGone, SavesRight, saveVars
<1>3. ChatsSaved' /\ IndexSaved'
  BY <1>1 DEF RInv, ChatsSaved, Clean, Marked, IndexSaved, saveVars
<1> QED
  BY <1>2, <1>3

\* Which fields of which jobs change.
LEMMA JobFields ==
    ASSUME TypeOK, NEW r \in Runs, JobSteps(r)
    PROVE  /\ \A q \in Runs \ {r} : job'[q] = job[q]
           /\ \/ /\ job[r].pc = "new" /\ job'[r].pc = "prompt" /\ index \in Lists /\ job'[r].chat \in index
                 /\ job'[r].base = job[r].base /\ UNCHANGED <<file, inbox>>
              \/ /\ job[r].pc = "prompt" /\ job'[r].pc \in {"failed", "append"} /\ job'[r].chat = job[r].chat
                 /\ job'[r].base = job[r].base \/ job'[r].base = <<>> \/ job'[r].base = file[job[r].chat]
                 /\ UNCHANGED <<file, inbox>>
              \/ /\ job[r].pc = "append" /\ job'[r].pc = "inbox" /\ job'[r].chat = job[r].chat
                 /\ job'[r].base = job[r].base /\ file' = [file EXCEPT ![job[r].chat] = Appended(r)]
                 /\ inbox' = inbox
              \/ /\ job[r].pc = "inbox" /\ job'[r].pc = "done" /\ job'[r].chat = job[r].chat
                 /\ job'[r].base = job[r].base /\ inbox' = Append(inbox, r) /\ file' = file
              \/ /\ job[r].pc \in {"prompt", "append", "inbox"} /\ job'[r].pc = "dead" /\ job'[r].chat = job[r].chat
                 /\ job'[r].base = job[r].base /\ UNCHANGED <<file, inbox>>
<1>1. job \in [Runs -> Jobs] /\ job[r] \in Jobs
  BY DEF TypeOK
<1>2. CASE find_chat(r)
  <2>1. index \in Lists /\ job[r].pc = "new" /\ UNCHANGED <<file, inbox>>
    BY <1>2 DEF find_chat, TypeOK, StoreTyped, diskVars, inboxVars
  <2>2. PICK c \in index : job' = [job EXCEPT ![r].pc = "prompt", ![r].chat = c]
    BY <1>2 DEF find_chat
  <2>3. job'[r].pc = "prompt" /\ job'[r].chat = c /\ job'[r].base = job[r].base
    BY <1>1, <2>2 DEF Jobs
  <2>4. \A q \in Runs \ {r} : job'[q] = job[q]
    BY <1>1, <2>2
  <2> QED
    BY <2>1, <2>2, <2>3, <2>4
<1>3. CASE load_messages(r)
  <2> DEFINE here == file[job[r].chat]
             base == IF here = None THEN <<>> ELSE here
  <2>1. /\ job[r].pc = "prompt" /\ UNCHANGED <<file, inbox>>
        /\ \/ job' = [job EXCEPT ![r].pc = "failed"]
           \/ job' = [job EXCEPT ![r].pc = "append", ![r].base = base]
    BY <1>3 DEF load_messages, folder_lock, storeVars, diskVars, inboxVars
  <2>2. base = <<>> \/ base = file[job[r].chat]
    OBVIOUS
  <2> HIDE DEF base
  <2>3. \A q \in Runs \ {r} : job'[q] = job[q]
    BY <1>1, <2>1
  <2>4. job'[r].chat = job[r].chat /\ job'[r].pc \in {"failed", "append"} /\ job'[r].base \in {job[r].base, base}
    BY <1>1, <2>1 DEF Jobs
  <2> QED
    BY <2>1, <2>2, <2>3, <2>4
<1>4. CASE append(r)
  <2>1. /\ job[r].pc = "append" /\ job' = [job EXCEPT ![r].pc = "inbox"] /\ inbox' = inbox
        /\ file' = [file EXCEPT ![job[r].chat] = Appended(r)]
    BY <1>4 DEF append, inboxVars
  <2> QED
    BY <1>1, <2>1 DEF Jobs
<1>5. CASE write_inbox(r)
  <2>1. job[r].pc = "inbox" /\ job' = [job EXCEPT ![r].pc = "done"] /\ inbox' = Append(inbox, r) /\ file' = file
    BY <1>5 DEF write_inbox, storeVars, diskVars
  <2> QED
    BY <1>1, <2>1 DEF Jobs
<1>6. CASE JobDies(r)
  <2>1. /\ job[r].pc \in {"prompt", "append", "inbox"} /\ job' = [job EXCEPT ![r].pc = "dead"] /\ UNCHANGED <<file, inbox>>
    BY <1>6 DEF JobDies, diskVars, inboxVars
  <2> QED
    BY <1>1, <2>1 DEF Jobs
<1> QED
  BY <1>2, <1>3, <1>4, <1>5, <1>6 DEF JobSteps, JobStep

\* The chat of a run at work is one that was given out; the messages a job has read are messages.
LEMMA JobChat ==
    ASSUME IInv, NEW r \in Runs
    PROVE  job[r].base \in Contents /\ (job[r].pc # "new" => job[r].chat \in Chats)
BY DEF IInv, TypeOK, StoreTyped, Lists, Jobs, Locked

LEMMA AppendedHolds ==
    ASSUME IInv, NEW r \in Runs
    PROVE  Holds(Appended(r), r) /\ \A q \in Runs \ {r} : Holds(Appended(r), q) => Holds(job[r].base, q)
<1>1. job[r].base \in Contents /\ r \in Messages
  BY JobChat, AreMessages
<1>2. CASE Contains(job[r].base, r)
  BY <1>1, <1>2, ContainsHolds DEF Appended
<1>3. CASE ~Contains(job[r].base, r)
  <2>1. Appended(r) = Append(job[r].base, r)
    BY <1>3 DEF Appended
  <2>2. \A m : Holds(Append(job[r].base, r), m) <=> Holds(job[r].base, m) \/ m = r
    BY <1>1, HoldsAppended
  <2> QED
    BY <2>1, <2>2
<1> QED
  BY <1>2, <1>3

LEMMA JobKnown == ASSUME IInv, RInv, NEW r \in Runs, JobSteps(r) PROVE RunsKnown'
<1>1. TypeOK /\ RunsKnown
  BY DEF IInv, RInv
<1>2. (\A c : Mem(c)' = Mem(c)) /\ written' = written
  BY JobMem
<1>3. Begun \subseteq Begun'
  BY <1>1, JobFields DEF Begun
<1>4. ASSUME NEW q \in Runs \ Begun', NEW p \in Runs PROVE ~Holds(job'[p].base, q)
  <2>1. \A c \in Chats : ~Holds(file[c], q)
    BY <1>1, <1>3 DEF RunsKnown
  <2>2. ~Holds(job[p].base, q)
    BY <1>1, <1>3 DEF RunsKnown
  <2>3. CASE p = r
    <3>1. \/ job'[r].base = job[r].base \/ job'[r].base = <<>>
          \/ job[r].pc = "prompt" /\ job'[r].base = file[job[r].chat]
      BY <1>1, JobFields
    <3>2. job[r].pc = "prompt" => job[r].chat \in Chats
      BY JobChat
    <3> QED
      BY <2>1, <2>2, <2>3, <3>1, <3>2, NothingHeld
  <2>4. CASE p # r
    BY <1>1, <2>2, <2>4, JobFields
  <2> QED
    BY <2>3, <2>4
<1>5. ASSUME NEW q \in Runs \ Begun', NEW c \in Chats PROVE ~Holds(file'[c], q)
  <2>1. ~Holds(file[c], q) /\ ~Holds(job[r].base, q)
    BY <1>1, <1>3 DEF RunsKnown
  <2>2. CASE job'[r].pc = "inbox" /\ file' = [file EXCEPT ![job[r].chat] = Appended(r)]
    <3>1. q # r
      BY <2>2 DEF Begun
    <3>2. ~Holds(Appended(r), q)
      BY <2>1, <3>1, AppendedHolds
    <3>3. file'[c] \in {file[c], Appended(r)}
      BY <1>1, <2>2 DEF TypeOK, StoreTyped, Files
    <3> QED
      BY <2>1, <3>2, <3>3
  <2>3. CASE file' = file
    BY <2>1, <2>3
  <2> QED
    BY <1>1, <2>2, <2>3, JobFields
<1>6. ASSUME NEW q \in Runs, job'[q].pc = "new" PROVE job'[q].chat = None
  <2>1. q # r /\ job'[q] = job[q]
    BY <1>1, <1>6, JobFields
  <2> QED
    BY <1>1, <1>6, <2>1 DEF RunsKnown
<1>7. \A q \in Runs \ Begun', c \in Chats : ~Holds(Mem(c)', q) /\ ~Holds(written'[c], q)
  BY <1>1, <1>2, <1>3 DEF RunsKnown
<1> QED
  BY <1>4, <1>5, <1>6, <1>7 DEF RunsKnown

\* The inbox gains the run whose job leaves it there, and this alone.
LEMMA JobInbox ==
    ASSUME IInv, RInv, NEW r \in Runs, JobSteps(r)
    PROVE  /\ InboxRight'
           /\ ToSet(inbox) \subseteq ToSet(inbox')
           /\ job[r].pc = "inbox" => job'[r].pc = "dead" \/ (job'[r].pc = "done" /\ r \in ToSet(inbox') \ (merged \cup strays))
<1>1. TypeOK /\ InboxRight /\ inbox \in Seq(Runs)
  BY DEF IInv, TypeOK, RInv
<1>2. UNCHANGED <<merged, toRemove, removing, strays, discarded>>
  BY JobMem
<1>3. Done \subseteq Done'
  BY <1>1, JobFields DEF Done
<1>4. \/ inbox' = inbox /\ (job[r].pc = "inbox" => job'[r].pc = "dead")
      \/ job[r].pc = "inbox" /\ job'[r].pc = "done" /\ inbox' = Append(inbox, r)
  BY <1>1, JobFields
<1>5. CASE inbox' = inbox /\ (job[r].pc = "inbox" => job'[r].pc = "dead")
  BY <1>1, <1>2, <1>3, <1>5 DEF InboxRight
<1>6. CASE job[r].pc = "inbox" /\ job'[r].pc = "done" /\ inbox' = Append(inbox, r)
  <2>1. ToSet(inbox') = ToSet(inbox) \cup {r}
    BY <1>1, <1>6, ToSetAppended
  <2>2. r \in Done' /\ r \notin Done
    BY <1>6 DEF Done
  <2> QED
    BY <1>1, <1>2, <1>3, <1>6, <2>1, <2>2 DEF InboxRight
<1> QED
  BY <1>4, <1>5, <1>6

LEMMA JobKeepsR == ASSUME IInv, RInv, NEW r \in Runs, JobSteps(r) PROVE RInv'
<1>1. TypeOK
  BY DEF IInv
<1>2. /\ UNCHANGED <<up, ready, sessions, open, loading, saveVars, written, blocked, damaged, undoable,
                     flushing, index, undone, merged, strays, discarded>>
      /\ Seen' = Seen /\ Noted' = Noted /\ (\A c : Mem(c)' = Mem(c)) /\ Waits' = Waits
  BY JobMem
<1>3. Whole' /\ Grows' /\ UndoGone' /\ SavesRight' /\ ChatsSaved' /\ IndexSaved' /\ RunsKnown' /\ InboxRight'
  BY JobRest, JobKnown, JobInbox
<1>4. Seen \subseteq Chats /\ file \in Files
  BY <1>1, MemTyped DEF TypeOK, StoreTyped
<1>5. \A c \in Chats : c # job[r].chat => file'[c] = file[c]
  BY <1>1, <1>4, JobFields DEF Files
<1>6. BlockedBare'
  <2> SUFFICES ASSUME up = "on", blocked PROVE BlockedBare'
    BY <1>2 DEF BlockedBare
  <2>1. /\ index = Bad /\ pending = "none" /\ Noted = {}
        /\ \A c \in Seen : file[c] = None /\ \A q \in Runs : job[q].chat # c
    BY DEF RInv, BlockedBare
  <2>2. \A q \in Runs : job'[q].chat = job[q].chat
    <3>1. index \notin Lists
      BY <2>1, Distinct
    <3> QED
      BY <1>1, <3>1, JobFields
  <2> QED
    BY <1>2, <1>4, <1>5, <2>1, <2>2 DEF BlockedBare, saveVars
<1>7. FilesExplained'
  <2> SUFFICES ASSUME up = "on", NEW c \in (Seen \cap Noted) \ (damaged \cup undone) PROVE Explained(c)'
    BY <1>2 DEF FilesExplained
  <2>1. c \in Chats /\ Explained(c)
    BY <1>4 DEF RInv, FilesExplained
  <2>2. CASE file'[c] = file[c]
    <3>1. (Agrees(c) => Agrees(c)') /\ (c \in Waits => c \in Waits') /\ (Rewrites(c) => Rewrites(c)')
      BY <1>2, <2>2 DEF Agrees, Loaded, Rewrites, saveVars
    <3>2. ASSUME NEW q \in Runs, Differs(q, c) PROVE Differs(q, c)'
      <4>1. job'[q].chat = c
        <5>1. job[q].chat = c /\ c # None
          BY <2>1, <3>2, Distinct DEF Differs
        <5>2. job[q].pc # "new"
          BY <5>1 DEF RInv, RunsKnown
        <5> QED
          BY <1>1, <5>1, <5>2, JobFields
      <4>2. \/ job'[q].pc \in {"inbox", "dead"}
            \/ q \in ToSet(inbox') \ (merged' \cup strays')
            \/ q \in discarded'
        <5>1. q \in ToSet(inbox) \ (merged \cup strays) => q \in ToSet(inbox') \ (merged' \cup strays')
          BY <1>2, JobInbox
        <5>2. job[q].pc = "dead" => job'[q].pc = "dead"
          BY <1>1, JobFields
        <5>3. job[q].pc = "inbox" => job'[q].pc \in {"inbox", "dead"} \/ q \in ToSet(inbox') \ (merged' \cup strays')
          BY <1>1, <1>2, JobFields, JobInbox
        <5> QED
          BY <1>2, <3>2, <5>1, <5>2, <5>3 DEF Differs
      <4> QED
        BY <1>2, <2>2, <3>2, <4>1, <4>2 DEF Differs
    <3> QED
      BY <2>1, <3>1, <3>2 DEF Explained
  <2>3. CASE file'[c] # file[c]
    <3>1. c = job[r].chat
      BY <1>5, <2>1, <2>3
    <3>2. job[r].pc = "append" /\ job'[r].pc = "inbox" /\ job'[r].chat = job[r].chat /\ file'[c] = Appended(r)
      BY <1>1, <1>4, <2>1, <2>3, <3>1, JobFields DEF Files
    <3>3. r \notin Begun
      BY <3>2 DEF Begun
    <3>4. ~Holds(Mem(c), r)
      BY <2>1, <3>3 DEF RInv, RunsKnown
    <3>5. Differs(r, c)'
      BY <1>2, <3>1, <3>2, <3>4, AppendedHolds DEF Differs
    <3> QED
      BY <3>5 DEF Explained
  <2> QED
    BY <2>2, <2>3
<1> QED
  BY <1>3, <1>6, <1>7 DEF RInv

-----------------------------------------------------------------------------
(* Every step, and what follows.                                           *)

LEMMA InitR == ASSUME DeliveryInit PROVE RInv
<1>1. IInv /\ up = "starting" /\ pending = "none"
  BY InitInv DEF DeliveryInit, Init
<1>2. Listed = {} /\ Undo = {} /\ Seen = {}
  BY <1>1 DEF IInv, StoreInv, Running, Undo, Seen
<1>3. \A c \in Chats : Mem(c) = None /\ written[c] = None /\ file[c] = None
  <2>1. \A c \in Chats : sessions[c] = None /\ written[c] = None /\ file[c] = None
    BY DEF DeliveryInit, Init, NoChats
  <2> QED
    BY <1>2, <2>1 DEF Mem
<1>4. \A r \in Runs : job[r].pc = "new" /\ job[r].chat = None /\ job[r].base = <<>>
  BY DEF DeliveryInit
<1>5. RunsKnown
  BY <1>3, <1>4, NothingHeld DEF RunsKnown
<1>6. Whole /\ Grows /\ UndoGone
  BY <1>2, <1>3, NothingHeld DEF Whole, Grows, UndoGone
<1>7. InboxRight
  BY DEF DeliveryInit, InboxRight, ToSet
<1>8. BlockedBare /\ SavesRight /\ FilesExplained /\ ChatsSaved /\ IndexSaved
  BY <1>1 DEF BlockedBare, SavesRight, FilesExplained, ChatsSaved, IndexSaved
<1> QED
  BY <1>5, <1>6, <1>7, <1>8 DEF RInv

LEMMA NextR == ASSUME IInv, RInv, [DeliveryNext]_vars PROVE IInv' /\ RInv'
<1>1. IInv'
  BY NextInv
<1> SUFFICES RInv'
  BY <1>1
<1>2. CASE StoreStep
  <2>1. UNCHANGED <<jobVars, inboxVars>>
    BY <1>2 DEF StoreStep
  <2>2. CASE UserStep \/ ReplyDone
    BY <1>1, <2>1, <2>2, UserKeepsR
  <2>3. CASE FlushStep
    <3>1. CASE FlushTimer
      BY <2>1, <3>1, FlushKeepsR
    <3>2. ASSUME NEW c \in Chats, FlushChat(c) PROVE RInv'
      BY <2>1, <3>2, FlushChatKeepsR
    <3>3. CASE FlushIndex
      BY <2>1, <3>3, FlushIndexKeepsR
    <3>4. CASE FlushBak
      BY <2>1, <3>4, FlushBakKeepsR
    <3> QED
      BY <2>3, <3>1, <3>2, <3>3, <3>4 DEF FlushStep
  <2>4. CASE Prepared
    <3>1. up \in {"starting", "on"}
      BY <2>4 DEF Prepared, IInv, TypeOK, StoreTyped
    <3> QED
      BY <1>1, <2>1, <2>4, <3>1, OffSteps, PreparedKeepsR
  <2>5. CASE rebuildIndex \/ Start \/ \E c \in Chats : DeleteFile(c)
    BY <1>1, <2>1, <2>5, RebuildKeepsR, OffSteps, DeleteFileKeepsR
  <2> QED
    BY <1>2, <2>2, <2>3, <2>4, <2>5 DEF StoreStep
<1>3. CASE DamageStep \/ Ends
  BY <1>1, <1>3, OffSteps
<1>4. CASE LoadScanned \/ scan \/ FlushEndSaved
  <2>1. LoadScanned => RInv'
    BY LoadKeepsR
  <2>2. scan => RInv'
    BY ScanKeepsR
  <2>3. FlushEndSaved => RInv'
    BY FlushEndKeepsR
  <2> QED
    BY <1>4, <2>1, <2>2, <2>3
<1>5. CASE FlushNow
  <2>1. UNCHANGED <<jobVars, inboxVars>>
    BY <1>5 DEF FlushNow
  <2>2. CASE Flush
    BY <1>5, <2>1, <2>2, FlushKeepsR
  <2>3. CASE ~Flush
    BY <1>5, <2>3, InboxStays
  <2> QED
    BY <2>2, <2>3
<1>6. ASSUME NEW r \in Runs, JobSteps(r) PROVE RInv'
  BY <1>6, JobKeepsR
<1>7. CASE \E r \in Runs : RemoveFile(r) \/ StrayRemoves(r)
  BY <1>7, InboxStays
<1>8. CASE UNCHANGED vars
  BY <1>8, InboxStays
<1>9. DeliveryNext \/ UNCHANGED vars
  OBVIOUS
<1> QED
  BY <1>1, <1>2, <1>3, <1>4, <1>5, <1>6, <1>7, <1>8, <1>9 DEF DeliveryNext, JobSteps

LEMMA Shows == ASSUME IInv, RInv PROVE RestartShowsRuns
<1> SUFFICES ASSUME NoJobAtWork, On, ready, ~blocked, ~loading, pending = "none", ~held
             PROVE  /\ index # Bad => index = Listed
                    /\ \A c \in {c \in Listed : ~ShownAgain(c)} \ (damaged \cup undone) : Loaded(c) = sessions[c]
  BY DEF RestartShowsRuns, RestartShows
<1>1. up = "on" /\ ~Writing /\ Waits = {} /\ StoreTyped /\ Locked
  BY IdleRests DEF On, IInv, TypeOK
<1>2. index # Bad => index = Listed
  BY <1>1 DEF RInv, IndexSaved
<1>3. ASSUME NEW c \in Listed, ~ShownAgain(c), c \notin damaged, c \notin undone PROVE Loaded(c) = sessions[c]
  <2>1. c \in Chats /\ Mem(c) = sessions[c] /\ sessions[c] \in Contents
    BY <1>1, ContentHolds
  <2>2. written[c] # None /\ sessions[c] = LoadedOf(written[c])
    BY <1>1, <1>3 DEF RInv, ChatsSaved, Clean, Marked
  <2>3. Explained(c) /\ ~Rewrites(c)
    BY <1>1, <1>3, <2>1, <2>2 DEF RInv, FilesExplained, Seen, Noted, Rewrites
  <2>4. ASSUME NEW r \in Runs, Differs(r, c) PROVE FALSE
    <3>1. Holds(file[c], r) /\ ~Holds(Mem(c), r)
      BY <2>4 DEF Differs
    <3>2. job[r].pc \notin {"inbox", "dead"}
      BY <1>1, Distinct DEF NoJobAtWork, Locked
    <3>3. ToSet(inbox) = {}
      BY DEF NoJobAtWork, ToSet
    <3>4. r \in discarded
      BY <2>4, <3>2, <3>3 DEF Differs
    <3>5. file[c] \in Contents \cup {None, Bad}
      BY <1>1, <2>1 DEF StoreTyped, Files
    <3>6. Loaded(c) \in Contents /\ Holds(Loaded(c), r)
      BY <2>1, <3>1, <3>5, LoadedHolds, LoadedIs
    <3> QED
      BY <1>3, <2>1, <3>1, <3>4, <3>6, ContainsHolds DEF ShownAgain
  <2> QED
    BY <1>1, <2>2, <2>3, <2>4 DEF Explained, Agrees
<1> QED
  BY <1>2, <1>3

\* Once saved, with the runs merged, a restart shows what the user sees: the index lists the chats of the list, and
\* each chat's file holds its messages, but for a chat whose file was damaged, or that Undo brought back while its file
\* was to be deleted or held a run that was discarded.
THEOREM SpecRestartShowsRuns == DeliverySpec => []RestartShowsRuns
<1>1. DeliverySpec => [](IInv /\ RInv)
  <2>1. DeliveryInit => IInv /\ RInv
    BY InitInv, InitR
  <2>2. IInv /\ RInv /\ [DeliveryNext]_vars => (IInv /\ RInv)'
    BY NextR
  <2> QED
    BY <2>1, <2>2, PTL DEF DeliverySpec
<1>2. IInv /\ RInv => RestartShowsRuns
  BY Shows
<1> QED
  BY <1>1, <1>2, PTL
-----------------------------------------------------------------------------
(* A delivered run is kept.                                                *)

\* A run whose job alone writes the file of its chat, and has written it.
Delivered(r, c) == job[r].pc \in {"inbox", "done"} /\ job[r].chat = c /\ c \notin undone /\ OnlyRun(r)

\* The inbox no longer keeps the run, or a helper may remove it at any time.
Settled(r) == job[r].pc = "done" /\ r \notin discarded /\ (r \in ToSet(inbox) => r \in removing \cup strays)

\* The widget has the chat, and may write its file.
Writable(c) == up = "on" /\ c \in Seen \ damaged

\* What is in memory was written, or is about to be.
MergeWritten(r, c) == Writable(c) /\ Holds(Mem(c), r) => written[c] = None \/ Holds(written[c], r) \/ flushing = Now

\* What was written is in the file, but for what the flush has yet to write.
WrittenStays(r, c) == Holds(written[c], r) => Holds(file[c], r) \/ c \in Waits

\* A run that the inbox does not keep is in the chat, in memory and on disk.
SettledHeld(r, c) ==
    Settled(r) => /\ file[c] \in {None, Bad} \/ Holds(file[c], r)
                  /\ Writable(c) => Holds(Mem(c), r)

\* A chat that the widget has not written has no file, or the job's, or its file is to be deleted.
UnwrittenBare(r, c) ==
    c \in Seen \ damaged /\ written[c] = None =>
        file[c] = None \/ Holds(file[c], r) \/ (c \in Undo /\ (c \in deleting \/ (Writing /\ c \in flushing.removed)))

RunHeld(r, c) == MergeWritten(r, c) /\ WrittenStays(r, c) /\ SettledHeld(r, c) /\ UnwrittenBare(r, c)
RunsHeld == \A r \in Runs : \A c \in Chats : Delivered(r, c) => RunHeld(r, c)

\* A damaged file stays while its chat is in the list.
DamagedBad == \A c \in (damaged \cap Listed) \ undone : file[c] = Bad

\* What is to be removed after the flush is in memory, and the flush is at work.
RemovedLater ==
    /\ toRemove \subseteq discarded \/ flushing # None
    /\ \A r \in toRemove \ discarded : \A c \in Chats : job[r].chat = c => c \in Listed /\ Holds(Mem(c), r)

\* The flush that scan asks for writes every chat.
FlushesAll == flushing = Now => pending # "none" /\ full /\ ready /\ ~blocked

KInv == RunsHeld /\ DamagedBad /\ RemovedLater /\ FlushesAll

Removed == IF Writing THEN flushing.removed ELSE {}

\* Chats, files and jobs stay, and so does what a flush has still to do.
LEMMA NothingChanges ==
    ASSUME KInv, UNCHANGED <<up, sessions, undoable, written, damaged, undone, file, deleting, job>>,
           Waits' = Waits, Removed \subseteq Removed', flushing = Now => flushing' = Now,
           \A r \in Runs : Settled(r)' => Settled(r),
           RemovedLater', FlushesAll'
    PROVE  KInv'
<1>1. Seen' = Seen /\ Listed' = Listed /\ Undo' = Undo /\ \A c : Mem(c)' = Mem(c)
  BY MemUnchanged
<1>2. \A c : Writable(c)' <=> Writable(c)
  BY <1>1 DEF Writable
<1>3. ASSUME NEW r \in Runs, NEW c \in Chats, Delivered(r, c)' PROVE RunHeld(r, c)'
  <2>1. Delivered(r, c)
    BY <1>3 DEF Delivered, OnlyRun
  <2>2. RunHeld(r, c)
    BY <2>1 DEF KInv, RunsHeld
  <2>3. MergeWritten(r, c)'
    BY <1>1, <1>2, <2>2 DEF RunHeld, MergeWritten
  <2>4. WrittenStays(r, c)'
    BY <2>2 DEF RunHeld, WrittenStays
  <2>5. SettledHeld(r, c)'
    BY <1>1, <1>2, <2>2 DEF RunHeld, SettledHeld
  <2>6. UnwrittenBare(r, c)'
    <3>1. Writing /\ c \in flushing.removed => Writing' /\ c \in flushing'.removed
      BY DEF Removed
    <3> QED
      BY <1>1, <2>2, <3>1 DEF RunHeld, UnwrittenBare
  <2> QED
    BY <2>3, <2>4, <2>5, <2>6 DEF RunHeld
<1>4. DamagedBad'
  BY <1>1 DEF KInv, DamagedBad
<1> QED
  BY <1>3, <1>4 DEF KInv, RunsHeld

\* While nothing runs in it, the widget has merged nothing that is yet to be saved.
LEMMA IdleRemoves == ASSUME KInv, Idle PROVE toRemove \subseteq discarded
BY DEF KInv, RemovedLater, Idle

LEMMA SameInbox ==
    ASSUME UNCHANGED <<job, inboxVars>>
    PROVE  \A r \in Runs : Settled(r)' => Settled(r)
BY DEF Settled, inboxVars

\* The steps of a flush on the index, what has been prepared, and the removal of inbox files.
LEMMA QuietKeepsK ==
    ASSUME IInv, RInv, KInv,
           \/ (FlushIndex \/ FlushBak \/ (Prepared /\ up = "on")) /\ UNCHANGED <<jobVars, inboxVars>>
           \/ \E r \in Runs : RemoveFile(r) \/ StrayRemoves(r)
           \/ UNCHANGED vars
    PROVE  KInv'
<1>1. UNCHANGED <<up, sessions, undoable, written, damaged, undone, file, deleting, job, discarded>>
  <2>1. CASE (FlushIndex \/ FlushBak) /\ UNCHANGED <<jobVars, inboxVars>>
    BY <2>1 DEF FlushIndex, FlushBak, flushed, jobVars, inboxVars
  <2>2. CASE Prepared /\ UNCHANGED <<jobVars, inboxVars>>
    BY <2>2 DEF Prepared, diskVars, jobVars, inboxVars
  <2>3. CASE \E r \in Runs : RemoveFile(r) \/ StrayRemoves(r)
    BY <2>3 DEF RemoveFile, StrayRemoves, storeVars, memVars, diskVars, jobVars
  <2>4. CASE UNCHANGED vars
    BY <2>4 DEF vars, storeVars, memVars, diskVars, jobVars, inboxVars
  <2> QED
    BY <2>1, <2>2, <2>3, <2>4
<1>2. Seen' = Seen /\ Listed' = Listed /\ Undo' = Undo /\ \A c : Mem(c)' = Mem(c)
  BY <1>1, MemUnchanged
<1>3. CASE (FlushIndex \/ FlushBak) /\ UNCHANGED <<jobVars, inboxVars>>
  <2>1. flushing \in Flushes /\ flushing.todo = {} /\ \E s \in {"bak", "end"} : flushing' = [flushing EXCEPT !.stage = s]
    <3>1. flushing \in Flushes
      BY <1>3, FlushStepTyped DEF IInv, TypeOK, FlushIndex, FlushBak
    <3>2. flushing.stage # "chats" => flushing.todo = {}
      BY <3>1 DEF IInv, StoreInv, Flushed, Writing
    <3> QED
      BY <1>3, <3>1, <3>2 DEF FlushIndex, FlushBak, ChatsDone
  <2>2. flushing' \in Flushes /\ flushing'.todo = flushing.todo /\ flushing'.removed = flushing.removed
    BY <2>1 DEF Flushes
  <2>3. Waits' = Waits /\ Removed \subseteq Removed' /\ flushing # Now /\ flushing' # Now /\ flushing' # None
    BY <2>1, <2>2, Distinct DEF Waits, Removed, Writing, Now, Flushes
  <2>4. RemovedLater' /\ FlushesAll'
    BY <1>1, <1>2, <1>3, <2>3 DEF KInv, RemovedLater, FlushesAll, inboxVars
  <2> QED
    BY <1>1, <1>3, <2>3, <2>4, NothingChanges, SameInbox
<1>4. CASE (Prepared /\ up = "on") /\ UNCHANGED <<jobVars, inboxVars>>
  <2>1. flushing' = flushing /\ flushing = None
    BY <1>4 DEF Prepared, Idle
  <2>2. Waits' = Waits /\ Removed \subseteq Removed'
    BY <2>1 DEF Waits, Removed, Writing
  <2>3. RemovedLater' /\ FlushesAll'
    BY <1>1, <1>2, <1>4, <2>1, Distinct DEF KInv, RemovedLater, FlushesAll, inboxVars
  <2> QED
    BY <1>1, <1>4, <2>1, <2>2, <2>3, NothingChanges, SameInbox
<1>5. CASE \E r \in Runs : RemoveFile(r) \/ StrayRemoves(r)
  <2>1. UNCHANGED <<flushing, pending, full, ready, blocked, toRemove>>
    BY <1>5 DEF RemoveFile, StrayRemoves, storeVars, memVars
  <2>2. Waits' = Waits /\ Removed \subseteq Removed'
    BY <2>1 DEF Waits, Removed, Writing
  <2>3. RemovedLater' /\ FlushesAll'
    BY <1>1, <1>2, <2>1 DEF KInv, RemovedLater, FlushesAll
  <2>4. ASSUME NEW q \in Runs, RemoveFile(q) \/ StrayRemoves(q), NEW r \in Runs, Settled(r)' PROVE Settled(r)
    <3>1. inbox \in Seq(Runs) /\ inbox' = Only(inbox, Runs \ {q})
      BY <2>4 DEF IInv, TypeOK, RemoveFile, StrayRemoves
    <3>2. ToSet(inbox') = ToSet(inbox) \cap (Runs \ {q})
      BY <3>1, OnlySet
    <3>3. removing' \cup strays' \subseteq removing \cup strays /\ q \in removing \cup strays
      BY <2>4 DEF RemoveFile, StrayRemoves
    <3> QED
      BY <1>1, <2>4, <3>2, <3>3 DEF Settled
  <2> QED
    BY <1>1, <1>5, <2>1, <2>2, <2>3, <2>4, NothingChanges
<1>6. CASE UNCHANGED vars
  <2>1. UNCHANGED <<flushing, pending, full, ready, blocked, toRemove>> /\ UNCHANGED inboxVars
    BY <1>6 DEF vars, storeVars, memVars, inboxVars
  <2>2. Waits' = Waits /\ Removed \subseteq Removed'
    BY <2>1 DEF Waits, Removed, Writing
  <2>3. RemovedLater' /\ FlushesAll'
    BY <1>1, <1>2, <2>1 DEF KInv, RemovedLater, FlushesAll
  <2> QED
    BY <1>1, <2>1, <2>2, <2>3, NothingChanges, SameInbox
<1> QED
  BY <1>3, <1>4, <1>5, <1>6

\* Of the chats that were there once, only Undo brings one back.
LEMMA Returns ==
    ASSUME IInv, RInv, UserStep \/ ReplyDone, Edited, NEW c \in Listed' \ Listed, c \in used
    PROVE  undo /\ c = undoable.chat
<1>1. c \in Seen' /\ c \in Chats /\ c \notin Undo' /\ ChatKept(c)
  BY DEF Edited, Seen, UndoGone, Listed
<1>2. undoable # None /\ c = undoable.chat
  BY <1>1 DEF ChatKept, Seen, Undo
<1>3. undoable' # undoable
  BY <1>1, <1>2 DEF Undo
<1>4. ASSUME NEW d \in Chats, deleteSession(d) PROVE FALSE
  <2>1. sessions \in [Chats -> Contents \cup {None}] /\ sessions' = [sessions EXCEPT ![d] = None]
    BY <1>4 DEF deleteSession, IInv, TypeOK, StoreTyped, Chatting
  <2> QED
    BY <2>1 DEF Listed
<1>5. ~dismiss
  BY DEF dismiss, Listed
<1>6. undo \/ (\E d \in Chats : deleteSession(d)) \/ dismiss
  BY <1>3 DEF UserStep, ReplyDone, Send, PartialSave, stopStreaming, createSession, setSessionProperty,
     setSessionArchived, switchSession
<1> QED
  BY <1>2, <1>4, <1>5, <1>6

\* A chat comes into the list with a new id, or by Undo: then it is in `undone` if its file is damaged or to be deleted.
LEMMA UserBrings ==
    ASSUME IInv, RInv, UserStep \/ ReplyDone, Edited, NEW c \in Listed' \ Listed
    PROVE  c \notin used \/ c \in undone' \/ c \notin deleting \cup damaged
BY Returns DEF undo

LEMMA UserKeepsK ==
    ASSUME IInv, RInv, KInv, UserStep \/ ReplyDone, UNCHANGED <<jobVars, inboxVars>>
    PROVE  KInv'
<1>1. Edited
  BY MessageEdits, CreateEdits, DeleteEdits, UndoEdits DEF UserStep
<1>2. /\ Idle /\ up = "on" /\ ~Writing /\ Waits = {} /\ flushing = None
      /\ UNCHANGED <<up, written, damaged, flushing, file, deleting, job, inbox, removing, strays, toRemove, discarded>>
      /\ undone \subseteq undone'
      /\ \A c \in Seen' : c \in Chats /\ ChatKept(c)
  BY <1>1, IdleRests DEF Edited, On, Idle, jobVars, inboxVars
<1>3. Waits' = Waits
  BY <1>2 DEF Waits, Writing
<1>4. \A c \in Listed' \ Listed : c \notin used \/ c \in undone' \/ c \notin deleting \cup damaged
  BY <1>1, UserBrings
<1>5. ASSUME NEW r \in Runs, NEW c \in Chats, Delivered(r, c)' PROVE RunHeld(r, c)'
  <2>1. Delivered(r, c) /\ c \notin undone'
    BY <1>2, <1>5 DEF Delivered, OnlyRun
  <2>2. RunHeld(r, c)
    BY <1>2, <2>1 DEF KInv, RunsHeld
  <2>3. c \in used
    BY <2>1 DEF IInv, Locked, Delivered
  <2>4. c \in Seen' => c \in Seen /\ (Holds(Mem(c)', r) <=> Holds(Mem(c), r))
    BY <1>2, <2>3 DEF ChatKept
  <2>5. Writable(c)' => Writable(c) /\ (Holds(Mem(c)', r) <=> Holds(Mem(c), r))
    BY <1>2, <2>4 DEF Writable
  <2>6. MergeWritten(r, c)'
    BY <1>2, <2>2, <2>5 DEF RunHeld, MergeWritten
  <2>7. WrittenStays(r, c)'
    BY <1>2, <1>3, <2>2 DEF RunHeld, WrittenStays
  <2>8. SettledHeld(r, c)'
    <3>1. Settled(r)' => Settled(r)
      BY <1>2 DEF Settled
    <3> QED
      BY <1>2, <2>2, <2>5, <3>1 DEF RunHeld, SettledHeld
  <2>9. UnwrittenBare(r, c)'
    <3> SUFFICES ASSUME c \in Seen' \ damaged, written[c] = None
                 PROVE  file[c] = None \/ Holds(file[c], r) \/ (c \in Undo' /\ c \in deleting)
      BY <1>2 DEF UnwrittenBare
    <3>1. file[c] = None \/ Holds(file[c], r) \/ (c \in Undo /\ c \in deleting)
      BY <1>2, <2>2, <2>4 DEF RunHeld, UnwrittenBare
    <3>2. ASSUME c \in Undo, c \in deleting PROVE c \in Undo'
      <4>1. c \notin Listed
        BY <3>2 DEF RInv, UndoGone
      <4>2. c \notin Listed'
        BY <1>4, <2>1, <2>3, <3>2, <4>1
      <4> QED
        BY <4>2 DEF Seen
    <3> QED
      BY <3>1, <3>2
  <2> QED
    BY <2>2, <2>6, <2>7, <2>8, <2>9 DEF RunHeld
<1>6. DamagedBad'
  <2> SUFFICES ASSUME NEW c \in (damaged \cap Listed') \ undone' PROVE file[c] = Bad
    BY <1>2 DEF DamagedBad
  <2>1. c \in used
    BY DEF IInv, StoreInv, Fresh
  <2>2. c \in Listed /\ c \notin undone
    BY <1>2, <1>4, <2>1
  <2> QED
    BY <2>2 DEF KInv, DamagedBad
<1>7. RemovedLater' /\ FlushesAll'
  <2>1. toRemove \subseteq discarded
    BY <1>2, IdleRemoves
  <2>2. flushing' # Now
    BY <1>2, Distinct
  <2> QED
    BY <1>2, <2>1, <2>2 DEF RemovedLater, FlushesAll
<1> QED
  BY <1>5, <1>6, <1>7 DEF KInv, RunsHeld

-----------------------------------------------------------------------------
(* A flush, and the deletes after it.                                      *)

LEMMA NowIsNoWrite == Now \notin Flushes
BY DEF Now, Flushes

LEMMA FlushKeepsK ==
    ASSUME IInv, RInv, KInv, FlushTimer \/ (FlushNow /\ Flush), UNCHANGED <<jobVars, inboxVars>>
    PROVE  KInv'
<1>1. /\ flushing' = [stage |-> "chats", todo |-> {c \in Listed : ~Skipped(c) /\ written[c] # Content(c)},
                      list |-> Listed, removed |-> {c \in Chats \ Listed : written[c] # None}]
      /\ written' = [c \in Chats |-> Known(c)]
      /\ UNCHANGED <<up, damaged, sessions, undoable, file, deleting, undone, job, inboxVars>>
  BY DEF FlushTimer, FlushNow, Flush, diskVars, jobVars
<1>2. StoreTyped
  BY DEF IInv, TypeOK
<1>3. ~Writing /\ Waits = {} /\ (flushing = Now => full)
  <2>1. CASE FlushTimer
    BY <2>1, IdleRests DEF FlushTimer, On, KInv, FlushesAll
  <2>2. CASE FlushNow
    BY <2>2 DEF FlushNow, Writing, Flushes, Waits, KInv, FlushesAll
  <2> QED
    BY <2>1, <2>2
<1>4. /\ Writing' /\ flushing' # None /\ flushing' # Now
      /\ Waits' = {c \in Listed : ~Skipped(c) /\ written[c] # Content(c)}
      /\ flushing'.removed = {c \in Chats \ Listed : written[c] # None}
  <2>1. flushing' \in Flushes
    BY <1>2, FlushTyped DEF FlushTimer, FlushNow, StoreTyped
  <2> QED
    BY <1>1, <2>1, Distinct, NowIsNoWrite DEF Writing, Waits
<1>5. Seen' = Seen /\ Listed' = Listed /\ Undo' = Undo /\ \A c : Mem(c)' = Mem(c)
  BY <1>1, MemUnchanged
<1>6. \A c \in Chats : written'[c] = Known(c)
  BY <1>1
<1>7. ASSUME NEW r \in Runs, NEW c \in Chats, Delivered(r, c)' PROVE RunHeld(r, c)'
  <2>1. Delivered(r, c)
    BY <1>1, <1>7 DEF Delivered, OnlyRun
  <2>2. RunHeld(r, c)
    BY <2>1 DEF KInv, RunsHeld
  <2>3. Writable(c)' <=> Writable(c)
    BY <1>1, <1>5 DEF Writable
  <2>4. MergeWritten(r, c)'
    <3> SUFFICES ASSUME Writable(c), Holds(Mem(c), r) PROVE Known(c) = None \/ Holds(Known(c), r)
      BY <1>5, <1>6, <2>3 DEF MergeWritten
    <3>1. CASE c \notin Listed
      BY <3>1 DEF Known
    <3>2. CASE c \in Listed /\ ~Skipped(c)
      BY <1>2, <3>2, ContentHolds DEF Known
    <3>3. CASE c \in Listed /\ Skipped(c)
      <4>1. ~full /\ written[c] # None
        BY <3>3 DEF Skipped, Writable
      <4> QED
        BY <1>3, <2>2, <3>3, <4>1 DEF Known, RunHeld, MergeWritten
    <3> QED
      BY <3>1, <3>2, <3>3
  <2>5. WrittenStays(r, c)'
    <3> SUFFICES ASSUME Holds(Known(c), r) PROVE Holds(file[c], r) \/ c \in Waits'
      BY <1>1, <1>6 DEF WrittenStays
    <3>1. c \in Listed
      BY NothingHeld DEF Known
    <3>2. CASE Known(c) = written[c]
      BY <1>3, <2>2, <3>2 DEF RunHeld, WrittenStays
    <3>3. CASE Known(c) # written[c]
      <4>1. ~Skipped(c)
        BY <3>1, <3>3, NothingHeld DEF Known
      <4> QED
        BY <1>4, <3>1, <3>3, <4>1 DEF Known
    <3> QED
      BY <3>2, <3>3
  <2>6. SettledHeld(r, c)'
    <3>1. Settled(r)' => Settled(r)
      BY <1>1, SameInbox
    <3> QED
      BY <1>1, <1>5, <2>2, <2>3, <3>1 DEF RunHeld, SettledHeld
  <2>7. UnwrittenBare(r, c)'
    <3> SUFFICES ASSUME c \in Seen \ damaged, Known(c) = None
                 PROVE  file[c] = None \/ Holds(file[c], r) \/ (c \in Undo /\ (c \in deleting \/ c \in flushing'.removed))
      BY <1>1, <1>4, <1>5, <1>6 DEF UnwrittenBare
    <3>1. c \notin Listed
      <4>1. c \in Listed => Content(c) # None
        BY <1>2, ContentHolds, Distinct
      <4> QED
        BY <4>1, Distinct DEF Known
    <3>2. c \in Undo
      BY <3>1 DEF Seen
    <3> QED
      BY <1>3, <1>4, <2>2, <3>1, <3>2 DEF RunHeld, UnwrittenBare
  <2> QED
    BY <2>4, <2>5, <2>6, <2>7 DEF RunHeld
<1>8. DamagedBad' /\ RemovedLater' /\ FlushesAll'
  BY <1>1, <1>4, <1>5 DEF KInv, DamagedBad, RemovedLater, FlushesAll, inboxVars
<1> QED
  BY <1>7, <1>8 DEF KInv, RunsHeld

LEMMA FlushChatKeepsK ==
    ASSUME IInv, RInv, KInv, NEW d \in Chats, FlushChat(d), UNCHANGED <<jobVars, inboxVars>>
    PROVE  KInv'
<1>1. /\ flushing \in Flushes /\ d \in flushing.todo
      /\ file' = [file EXCEPT ![d] = written[d]] /\ flushing' = [flushing EXCEPT !.todo = @ \ {d}]
      /\ UNCHANGED <<up, sessions, written, damaged, undoable, deleting, undone, job, inboxVars>>
  BY FlushStepTyped DEF FlushChat, flushed, jobVars, IInv, TypeOK
<1>2. flushing' \in Flushes /\ flushing'.todo = flushing.todo \ {d} /\ flushing'.removed = flushing.removed
  BY <1>1 DEF Flushes
<1>3. /\ Writing /\ Writing' /\ Waits' = Waits \ {d}
      /\ flushing # Now /\ flushing' # Now /\ flushing # None /\ flushing' # None
  BY <1>1, <1>2, Distinct, NowIsNoWrite DEF Writing, Waits
<1>4. file'[d] = written[d] /\ \A c \in Chats \ {d} : file'[c] = file[c]
  BY <1>1 DEF IInv, TypeOK, StoreTyped, Files
<1>5. Seen' = Seen /\ Listed' = Listed /\ Undo' = Undo /\ \A c : Mem(c)' = Mem(c)
  BY <1>1, MemUnchanged
<1>6. Writable(d) /\ d \notin damaged /\ written[d] # None
  BY <1>1, <1>3 DEF IInv, StoreInv, Flushed, Running, Writable, Seen
<1>7. ASSUME NEW r \in Runs, NEW c \in Chats, Delivered(r, c)' PROVE RunHeld(r, c)'
  <2>1. Delivered(r, c)
    BY <1>1, <1>7 DEF Delivered, OnlyRun
  <2>2. RunHeld(r, c)
    BY <2>1 DEF KInv, RunsHeld
  <2>3. (Writable(c)' <=> Writable(c)) /\ (Settled(r)' => Settled(r))
    BY <1>1, <1>5, SameInbox DEF Writable
  <2>4. MergeWritten(r, c)'
    BY <1>1, <1>3, <1>5, <2>2, <2>3 DEF RunHeld, MergeWritten
  <2>5. WrittenStays(r, c)'
    BY <1>1, <1>3, <1>4, <2>2 DEF RunHeld, WrittenStays
  <2>6. SettledHeld(r, c)'
    <3>1. SettledHeld(r, c)
      BY <2>2 DEF RunHeld
    <3>2. CASE c = d
      <4>1. Settled(r) => Holds(written[d], r)
        BY <1>3, <1>6, <2>2, <3>1, <3>2 DEF RunHeld, SettledHeld, MergeWritten
      <4> QED
        BY <1>4, <1>5, <2>3, <3>1, <3>2, <4>1 DEF SettledHeld
    <3>3. CASE c # d
      BY <1>4, <1>5, <2>3, <3>1, <3>3 DEF SettledHeld
    <3> QED
      BY <3>2, <3>3
  <2>7. UnwrittenBare(r, c)'
    BY <1>1, <1>2, <1>3, <1>4, <1>5, <1>6, <2>2 DEF RunHeld, UnwrittenBare
  <2> QED
    BY <2>4, <2>5, <2>6, <2>7 DEF RunHeld
<1>8. DamagedBad'
  BY <1>1, <1>4, <1>5, <1>6 DEF KInv, DamagedBad, Listed
<1>9. RemovedLater' /\ FlushesAll'
  BY <1>1, <1>3, <1>5 DEF KInv, RemovedLater, FlushesAll, inboxVars
<1> QED
  BY <1>7, <1>8, <1>9 DEF KInv, RunsHeld

\* What was merged before the flush is in the files by its end, and may be removed from the inbox.
LEMMA FlushEndKeepsK == ASSUME IInv, RInv, KInv, FlushEndSaved PROVE KInv'
<1>1. /\ flushing \in Flushes /\ flushing.stage = "end" /\ flushing' = None
      /\ deleting' = deleting \cup flushing.removed
      /\ removing' = removing \cup toRemove /\ toRemove' = {}
      /\ UNCHANGED <<up, sessions, written, damaged, undoable, file, undone, job, inbox, strays, discarded>>
  BY FlushStepTyped DEF FlushEndSaved, FlushEnd, Saved, flushed, diskVars, jobVars, IInv, TypeOK
<1>2. Writing /\ ~Writing' /\ Waits = {} /\ Waits' = {} /\ Noted = Listed /\ flushing # Now /\ flushing' # Now /\ up = "on"
  BY <1>1, Distinct, NowIsNoWrite DEF Writing, Waits, IInv, StoreInv, Flushed, Running
<1>3. Seen' = Seen /\ Listed' = Listed /\ Undo' = Undo /\ \A c : Mem(c)' = Mem(c)
  BY <1>1, MemUnchanged
<1>4. ASSUME NEW r \in Runs, NEW c \in Chats, Delivered(r, c)' PROVE RunHeld(r, c)'
  <2>1. Delivered(r, c)
    BY <1>1, <1>4 DEF Delivered, OnlyRun
  <2>2. RunHeld(r, c)
    BY <2>1 DEF KInv, RunsHeld
  <2>3. Writable(c)' <=> Writable(c)
    BY <1>1, <1>3 DEF Writable
  <2>4. MergeWritten(r, c)'
    BY <1>1, <1>2, <1>3, <2>2, <2>3 DEF RunHeld, MergeWritten
  <2>5. WrittenStays(r, c)'
    BY <1>1, <1>2, <2>2 DEF RunHeld, WrittenStays
  <2>6. SettledHeld(r, c)'
    <3>1. CASE Settled(r)
      BY <1>1, <1>3, <2>2, <2>3, <3>1 DEF RunHeld, SettledHeld
    <3>2. ASSUME Settled(r)', ~Settled(r)
          PROVE  (file[c] \in {None, Bad} \/ Holds(file[c], r)) /\ Holds(Mem(c), r)
      <4>1. r \in toRemove \ discarded
        BY <1>1, <3>2 DEF Settled
      <4>2. c \in Listed /\ Holds(Mem(c), r)
        BY <2>1, <4>1 DEF KInv, RemovedLater, Delivered
      <4>3. CASE c \in damaged
        BY <2>1, <4>2, <4>3 DEF KInv, DamagedBad, Delivered
      <4>4. CASE c \notin damaged
        <5>1. Writable(c) /\ written[c] # None
          BY <1>2, <4>2, <4>4 DEF Writable, Seen, Noted
        <5>2. Holds(written[c], r)
          BY <1>2, <2>2, <4>2, <5>1 DEF RunHeld, MergeWritten
        <5> QED
          BY <1>2, <2>2, <4>2, <5>2 DEF RunHeld, WrittenStays
      <4> QED
        BY <4>2, <4>3, <4>4
    <3> QED
      BY <1>1, <1>3, <3>1, <3>2 DEF SettledHeld
  <2>7. UnwrittenBare(r, c)'
    BY <1>1, <1>3, <2>2 DEF RunHeld, UnwrittenBare
  <2> QED
    BY <2>4, <2>5, <2>6, <2>7 DEF RunHeld
<1>5. DamagedBad' /\ RemovedLater' /\ FlushesAll'
  BY <1>1, <1>2, <1>3 DEF KInv, DamagedBad, RemovedLater, FlushesAll
<1> QED
  BY <1>4, <1>5 DEF KInv, RunsHeld

LEMMA DeleteFileKeepsK ==
    ASSUME IInv, RInv, KInv, NEW d \in Chats, DeleteFile(d), UNCHANGED <<jobVars, inboxVars>>
    PROVE  KInv'
<1>1. /\ d \in deleting /\ file' = [file EXCEPT ![d] = None] /\ deleting' = deleting \ {d}
      /\ UNCHANGED <<up, ready, sessions, pending, full, written, blocked, damaged, undoable, flushing, undone, job, inboxVars>>
  BY DEF DeleteFile, memVars, jobVars
<1>2. file'[d] = None /\ \A c \in Chats \ {d} : file'[c] = file[c]
  BY <1>1 DEF IInv, TypeOK, StoreTyped, Files
<1>3. Seen' = Seen /\ Listed' = Listed /\ Undo' = Undo /\ \A c : Mem(c)' = Mem(c)
  BY <1>1, MemUnchanged
<1>4. Waits' = Waits /\ Writing' = Writing
  BY <1>1 DEF Waits, Writing
<1>5. d \in undone \/ d \notin Noted \cup Listed
  BY <1>1 DEF IInv, StoreInv, Doomed
<1>6. ASSUME NEW r \in Runs, NEW c \in Chats, Delivered(r, c)' PROVE RunHeld(r, c)'
  <2>1. Delivered(r, c) /\ c \notin undone
    BY <1>1, <1>6 DEF Delivered, OnlyRun
  <2>2. RunHeld(r, c)
    BY <2>1 DEF KInv, RunsHeld
  <2>3. (Writable(c)' <=> Writable(c)) /\ (Settled(r)' => Settled(r))
    BY <1>1, <1>3, SameInbox DEF Writable
  <2>4. MergeWritten(r, c)'
    BY <1>1, <1>3, <2>2, <2>3 DEF RunHeld, MergeWritten
  <2>5. WrittenStays(r, c)'
    <3>1. c = d => ~Holds(written[c], r)
      BY <1>5, <2>1, NothingHeld DEF Noted
    <3> QED
      BY <1>1, <1>2, <1>4, <2>2, <3>1 DEF RunHeld, WrittenStays
  <2>6. SettledHeld(r, c)'
    BY <1>2, <1>3, <2>2, <2>3 DEF RunHeld, SettledHeld
  <2>7. UnwrittenBare(r, c)'
    BY <1>1, <1>2, <1>3, <1>4, <2>2 DEF RunHeld, UnwrittenBare
  <2> QED
    BY <2>4, <2>5, <2>6, <2>7 DEF RunHeld
<1>7. DamagedBad'
  BY <1>1, <1>2, <1>3, <1>5 DEF KInv, DamagedBad, Listed
<1>8. RemovedLater' /\ FlushesAll'
  BY <1>1, <1>3 DEF KInv, RemovedLater, FlushesAll, inboxVars
<1> QED
  BY <1>6, <1>7, <1>8 DEF KInv, RunsHeld

\* The flush that scan asks for is never refused.
LEMMA FlushNowFlushes == ASSUME IInv, KInv, FlushNow PROVE Flush
<1>1. flushing = Now
  BY DEF FlushNow, Idle, IInv, TypeOK, StoreTyped, Flushes
<1>2. CanFlush
  BY <1>1 DEF KInv, FlushesAll, CanFlush
<1> QED
  BY <1>2 DEF FlushNow

-----------------------------------------------------------------------------
(* Starts and ends.                                                        *)

\* While no widget runs, the files and the inbox hold what was delivered.
LEMMA OffKeepsK ==
    ASSUME KInv, IInv', up' # "on", UNCHANGED <<job, inbox, discarded, undone>>,
           \A c \in Chats : file'[c] \in {file[c], Bad},
           removing' \cup strays' \subseteq removing \cup strays, toRemove' \subseteq discarded
    PROVE  KInv'
<1>1. Listed' = {} /\ Noted' = {} /\ damaged' = {} /\ undoable' = None /\ flushing' = None
  BY DEF IInv, StoreInv, Running
<1>2. Seen' = {} /\ flushing' # Now
  BY <1>1, Distinct DEF Undo, Seen
<1>3. ASSUME NEW r \in Runs, NEW c \in Chats, Delivered(r, c)' PROVE RunHeld(r, c)'
  <2>1. Delivered(r, c)
    BY <1>3 DEF Delivered, OnlyRun
  <2>2. RunHeld(r, c)
    BY <2>1 DEF KInv, RunsHeld
  <2>3. ~Writable(c)'
    BY <1>2 DEF Writable
  <2>4. MergeWritten(r, c)' /\ UnwrittenBare(r, c)'
    BY <1>2, <2>3 DEF MergeWritten, UnwrittenBare
  <2>5. WrittenStays(r, c)'
    BY <1>1, NothingHeld DEF WrittenStays, Noted
  <2>6. SettledHeld(r, c)'
    <3>1. Settled(r)' => Settled(r)
      BY DEF Settled
    <3> QED
      BY <2>2, <2>3, <3>1 DEF RunHeld, SettledHeld
  <2> QED
    BY <2>4, <2>5, <2>6 DEF RunHeld
<1>4. DamagedBad' /\ RemovedLater' /\ FlushesAll'
  BY <1>1, <1>2 DEF DamagedBad, RemovedLater, FlushesAll
<1> QED
  BY <1>3, <1>4 DEF KInv, RunsHeld

LEMMA OffStepsK ==
    ASSUME IInv, RInv, KInv, IInv',
           \/ Start /\ UNCHANGED <<jobVars, inboxVars>>
           \/ DamageStep
           \/ Ends
           \/ Prepared /\ up = "starting" /\ UNCHANGED <<jobVars, inboxVars>>
    PROVE  KInv'
<1>1. up # "on" => toRemove \subseteq discarded
  BY IdleRemoves DEF IInv, StoreInv, Running, Idle
<1>2. CASE Start /\ UNCHANGED <<jobVars, inboxVars>>
  <2>1. up # "on" /\ up' # "on" /\ UNCHANGED <<file, undone>>
    BY <1>2 DEF Start, diskVars
  <2> QED
    BY <1>1, <1>2, <2>1, OffKeepsK DEF inboxVars, jobVars
<1>3. CASE DamageStep
  <2>1. up = "off" /\ UNCHANGED <<memVars, undone, jobVars, inboxVars>>
    BY <1>3 DEF DamageStep, DamageFile, DamageIndex, LoseIndex
  <2>2. \A c \in Chats : file'[c] \in {file[c], Bad}
    BY <1>3 DEF DamageStep, DamageFile, DamageIndex, LoseIndex, IInv, TypeOK, StoreTyped, Files
  <2> QED
    BY <1>1, <2>1, <2>2, OffKeepsK DEF memVars, inboxVars, jobVars
<1>4. CASE Ends
  <2>1. /\ up' = "off" /\ UNCHANGED <<file, undone, jobVars, inbox, discarded>>
        /\ toRemove' = {} /\ removing' = {} /\ strays' \subseteq strays \cup removing
    BY <1>4 DEF Ends, Quit, Kill, Gone, diskVars
  <2> QED
    BY <2>1, OffKeepsK DEF jobVars
<1>5. CASE Prepared /\ up = "starting" /\ UNCHANGED <<jobVars, inboxVars>>
  <2>1. up' # "on" /\ up # "on" /\ UNCHANGED <<file, undone>>
    BY <1>5 DEF Prepared, diskVars
  <2> QED
    BY <1>1, <1>5, <2>1, OffKeepsK DEF inboxVars, jobVars
<1> QED
  BY <1>2, <1>3, <1>4, <1>5

\* What a start or a rebuilt list shows of a chat is what its file holds.
LEMMA ShownKeepsK ==
    ASSUME IInv, RInv, KInv, NEW list \in Lists, Show(list), UNCHANGED <<file, job, undoable>>, undone \subseteq undone',
           \A c \in list \ undone' : file[c] # None,
           \A r \in Runs : job[r].chat \notin Undo,
           \A r \in Runs : Settled(r)' => Settled(r),
           flushing' = None, toRemove' \subseteq discarded'
    PROVE  KInv'
<1>1. StoreTyped
  BY DEF IInv, TypeOK
<1>2. PICK n \in Chats :
        /\ IF list = {} THEN n \notin used ELSE n \in list
        /\ Listed' = list \cup {n}
        /\ \A d \in list : /\ sessions'[d] = LoadedOf(file[d]) /\ sessions'[d] # None
                           /\ \A r \in Runs : Holds(written'[d], r) <=> Holds(file[d], r)
                           /\ d \notin damaged' => written'[d] # None /\ LoadedOf(written'[d]) = LoadedOf(file[d])
        /\ \A d \in Chats \ list : written'[d] = None /\ sessions'[d] = IF d = n THEN <<>> ELSE None
        /\ damaged' = {d \in list : file[d] = Bad}
  BY <1>1, ShownIs
<1>3. Undo' = Undo
  BY DEF Undo
<1>4. flushing' # Now
  BY Distinct
<1>5. ASSUME NEW r \in Runs, NEW c \in Chats, Delivered(r, c)' PROVE RunHeld(r, c)'
  <2>1. Delivered(r, c) /\ c \notin undone'
    BY <1>5 DEF Delivered, OnlyRun
  <2>2. RunHeld(r, c)
    BY <2>1 DEF KInv, RunsHeld
  <2>3. c \in used /\ c \notin Undo
    BY <2>1 DEF IInv, Locked, Delivered
  <2>4. c \in Seen' => c \in list
    BY <1>2, <1>3, <2>3 DEF Seen
  <2>5. c \in list => Mem(c)' = LoadedOf(file[c])
    <3>1. c \in list => sessions'[c] = LoadedOf(file[c]) /\ sessions'[c] # None
      BY <1>2
    <3> QED
      BY <3>1 DEF Mem
  <2>6. c \in list => (Holds(Mem(c)', r) <=> Holds(file[c], r))
    <3>1. file[c] \in Contents \cup {None, Bad}
      BY <1>1 DEF StoreTyped, Files
    <3> QED
      BY <2>5, <3>1, LoadedHolds
  <2>7. MergeWritten(r, c)'
    BY <1>2, <2>4, <2>6 DEF MergeWritten, Writable
  <2>8. WrittenStays(r, c)'
    <3>1. Holds(written'[c], r) => Holds(file[c], r)
      BY <1>2, NothingHeld
    <3> QED
      BY <3>1 DEF WrittenStays
  <2>9. SettledHeld(r, c)'
    <3>1. Settled(r)' => file[c] \in {None, Bad} \/ Holds(file[c], r)
      BY <2>2 DEF RunHeld, SettledHeld
    <3>2. Writable(c)' => c \in list /\ file[c] \notin {None, Bad}
      BY <1>2, <2>1, <2>4 DEF Writable
    <3> QED
      BY <2>6, <3>1, <3>2 DEF SettledHeld
  <2>10. UnwrittenBare(r, c)'
    BY <1>2, <2>4 DEF UnwrittenBare
  <2> QED
    BY <2>7, <2>8, <2>9, <2>10 DEF RunHeld
<1>6. DamagedBad' /\ RemovedLater' /\ FlushesAll'
  BY <1>2, <1>4 DEF DamagedBad, RemovedLater, FlushesAll
<1> QED
  BY <1>5, <1>6 DEF KInv, RunsHeld

LEMMA LoadKeepsK == ASSUME IInv, RInv, KInv, LoadScanned PROVE KInv'
<1> DEFINE list == IF ~HasIndex \/ ReadIndex = Bad THEN {} ELSE ReadIndex
<1>1. /\ up = "starting" /\ Idle /\ flushing' = None /\ Show(list)
      /\ UNCHANGED <<undoable, undone, file, job>>
  BY DEF LoadScanned, Load, Idle, diskVars, jobVars
<1>2. StoreTyped /\ list \in Lists /\ Undo = {}
  BY <1>1, ReadTyped DEF IInv, TypeOK, StoreInv, Running, Undo
<1>3. list \subseteq Indexed
  BY <1>2, Distinct DEF ReadIndex, HasIndex, Indexed, StoreTyped, Lists
<1> HIDE DEF list
<1>4. \A c \in list \ undone : file[c] # None
  BY <1>3 DEF IInv, StoreInv, Doomed
<1>5. toRemove' \subseteq discarded' /\ \A r \in Runs : Settled(r)' => Settled(r)
  <2>1. toRemove \subseteq discarded
    BY <1>1, IdleRemoves
  <2>2. CASE UNCHANGED inboxVars
    BY <1>1, <2>1, <2>2, SameInbox DEF inboxVars
  <2>3. CASE /\ discarded' = discarded \cup ToSet(Unmerged)
             /\ removing' = removing \cup ToSet(Unmerged)
             /\ UNCHANGED <<inbox, toRemove, strays>>
    BY <1>1, <2>1, <2>3 DEF Settled
  <2> QED
    BY <2>2, <2>3 DEF LoadScanned
<1> QED
  BY <1>1, <1>2, <1>4, <1>5, ShownKeepsK

LEMMA RebuildKeepsK == ASSUME IInv, RInv, KInv, rebuildIndex, UNCHANGED <<jobVars, inboxVars>> PROVE KInv'
<1> DEFINE all == {c \in Chats : file[c] # None}
<1>1. /\ On /\ blocked /\ Show(all) /\ undone \subseteq undone' /\ UNCHANGED <<undoable, flushing, file, job, inboxVars>>
  BY DEF rebuildIndex, jobVars
<1>2. all \in Lists /\ \A c \in all : file[c] # None
  BY DEF Lists
<1>3. \A r \in Runs : job[r].chat \notin Undo
  BY <1>1 DEF RInv, BlockedBare, On, Seen
<1> HIDE DEF all
<1>4. flushing' = None /\ toRemove' \subseteq discarded'
  BY <1>1, IdleRemoves DEF On, Idle, inboxVars
<1>5. \A r \in Runs : Settled(r)' => Settled(r)
  BY <1>1, SameInbox
<1> QED
  BY <1>1, <1>2, <1>3, <1>4, <1>5, ShownKeepsK

-----------------------------------------------------------------------------
(* The inbox is scanned, and the jobs.                                     *)

\* A run that is handled is in its chat in memory then.
LEMMA HandledHeld ==
    ASSUME IInv, NEW r \in Handled
    PROVE  /\ r \in Runs /\ job[r].chat \in Listed
           /\ r \notin Added => Holds(Mem(job[r].chat), r)
<1>1. r \in Runs /\ job[r].chat \in Listed
  BY DEF Handled, Here, Fresher, IInv, TypeOK, ToSet
<1>2. ASSUME r \notin Added PROVE Holds(Mem(job[r].chat), r)
  <2> DEFINE c == job[r].chat
  <2>1. Contains(sessions[c], r)
    BY <1>2 DEF Added, Present
  <2> HIDE DEF c
  <2>2. sessions[c] \in Contents /\ Mem(c) = sessions[c]
    BY <1>1, ContentHolds DEF c, IInv, TypeOK
  <2>3. Holds(Mem(c), r)
    BY <2>1, <2>2, ContainsHolds
  <2> QED
    BY <2>3 DEF c
<1> QED
  BY <1>1, <1>2

LEMMA ScanKeepsK == ASSUME IInv, RInv, KInv, scan PROVE KInv'
<1>1. /\ On /\ ready
      /\ discarded' = discarded \cup Lost
      /\ \/ /\ Added # {} /\ persistSessions /\ flushing' = Now
            /\ toRemove' = toRemove \cup Lost \cup Handled /\ removing' = removing
         \/ /\ Added = {} /\ flushing' = flushing
            /\ removing' = removing \cup toRemove \cup Lost \cup Handled /\ toRemove' = {}
      /\ UNCHANGED <<up, ready, written, blocked, damaged, undoable, file, deleting, undone, job, inbox, strays>>
  BY ScanIs
<1>2. /\ Listed' = Listed /\ Undo' = Undo /\ Seen' = Seen
      /\ \A c \in Chats : \A m : Holds(Mem(c)', m) <=> Holds(Mem(c), m) \/ (c \in Listed /\ m \in Added /\ job[m].chat = c)
  BY ScanMem
<1>3. up = "on" /\ flushing = None /\ ~Writing /\ Waits = {} /\ toRemove \subseteq discarded /\ flushing # Now
  BY <1>1, IdleRests, IdleRemoves, Distinct DEF On, Idle
<1>4. ~Writing' /\ Waits' = {}
  BY <1>1, <1>3, NowIsNoWrite DEF Writing, Waits
<1>5. ASSUME NEW r \in Runs, NEW c \in Chats, Delivered(r, c)' PROVE RunHeld(r, c)'
  <2>1. Delivered(r, c)
    BY <1>1, <1>5 DEF Delivered, OnlyRun
  <2>2. RunHeld(r, c)
    BY <2>1 DEF KInv, RunsHeld
  <2>3. (Writable(c)' <=> Writable(c)) /\ (Holds(Mem(c), r) => Holds(Mem(c)', r))
    BY <1>1, <1>2 DEF Writable
  <2>4. MergeWritten(r, c)'
    <3>1. CASE Added # {}
      BY <1>1, <3>1 DEF MergeWritten
    <3>2. CASE Added = {}
      BY <1>1, <1>2, <2>2, <2>3, <3>2 DEF RunHeld, MergeWritten
    <3> QED
      BY <3>1, <3>2
  <2>5. WrittenStays(r, c)'
    BY <1>1, <1>3, <1>4, <2>2 DEF RunHeld, WrittenStays
  <2>6. SettledHeld(r, c)'
    <3>1. CASE Settled(r)
      BY <1>1, <2>2, <2>3, <3>1 DEF RunHeld, SettledHeld
    <3>2. ASSUME Settled(r)', ~Settled(r)
          PROVE  (file[c] \in {None, Bad} \/ Holds(file[c], r)) /\ Holds(Mem(c), r)
      <4>1. r \in Handled /\ Added = {}
        BY <1>1, <1>3, <3>2 DEF Settled
      <4>2. c \in Listed /\ Holds(Mem(c), r)
        BY <2>1, <4>1, HandledHeld DEF Delivered
      <4>3. CASE c \in damaged
        BY <2>1, <4>2, <4>3 DEF KInv, DamagedBad, Delivered
      <4>4. CASE c \notin damaged
        <5>1. Writable(c) /\ c \in Seen /\ c \notin Undo
          BY <1>3, <4>2, <4>4 DEF Writable, Seen, RInv, UndoGone
        <5>2. written[c] = None \/ Holds(written[c], r)
          BY <1>3, <2>2, <4>2, <5>1 DEF RunHeld, MergeWritten
        <5>3. CASE written[c] = None
          BY <2>2, <4>2, <4>4, <5>1, <5>3 DEF RunHeld, UnwrittenBare
        <5>4. CASE Holds(written[c], r)
          BY <1>3, <2>2, <4>2, <5>4 DEF RunHeld, WrittenStays
        <5> QED
          BY <5>2, <5>3, <5>4
      <4> QED
        BY <4>2, <4>3, <4>4
    <3> QED
      BY <1>1, <2>3, <3>1, <3>2 DEF SettledHeld
  <2>7. UnwrittenBare(r, c)'
    BY <1>1, <1>2, <1>3, <1>4, <2>2 DEF RunHeld, UnwrittenBare
  <2> QED
    BY <2>4, <2>5, <2>6, <2>7 DEF RunHeld
<1>6. DamagedBad'
  BY <1>1, <1>2 DEF KInv, DamagedBad
<1>7. RemovedLater'
  <2>1. toRemove' \subseteq discarded' \/ flushing' # None
    BY <1>1, Distinct
  <2>2. ASSUME NEW r \in toRemove' \ discarded', NEW c \in Chats, job[r].chat = c PROVE c \in Listed /\ Holds(Mem(c)', r)
    <3>1. r \in Handled
      BY <1>1, <1>3, <2>2
    <3>2. c \in Listed /\ (r \notin Added => Holds(Mem(c), r))
      BY <2>2, <3>1, HandledHeld
    <3> QED
      BY <1>2, <2>2, <3>2
  <2> QED
    BY <1>1, <1>2, <2>1, <2>2 DEF RemovedLater
<1>8. FlushesAll'
  <2> SUFFICES ASSUME flushing' = Now PROVE pending' # "none" /\ full' /\ ready /\ ~blocked
    BY <1>1 DEF FlushesAll
  <2>1. Added # {} /\ persistSessions
    BY <1>1, <1>3
  <2>2. PICK r : r \in Added
    BY <2>1
  <2>3. r \in Runs /\ job[r].chat \in Seen
    BY <2>2, HandledHeld DEF Added, Seen
  <2>4. ~blocked
    BY <1>3, <2>3 DEF RInv, BlockedBare
  <2> QED
    BY <1>1, <2>1, <2>4 DEF persistSessions, NoHint
<1> QED
  BY <1>5, <1>6, <1>7, <1>8 DEF KInv, RunsHeld

LEMMA JobKeepsK == ASSUME IInv, RInv, KInv, NEW q \in Runs, JobSteps(q) PROVE KInv'
<1>1. TypeOK /\ InboxRight /\ RunsKnown
  BY DEF IInv, RInv
<1>2. /\ UNCHANGED <<up, ready, sessions, saveVars, written, blocked, damaged, undoable, flushing, deleting, undone,
                     toRemove, removing, strays, discarded>>
      /\ Seen' = Seen /\ Listed' = Listed /\ Undo' = Undo /\ (\A c : Mem(c)' = Mem(c))
      /\ Waits' = Waits /\ Writing' = Writing
  BY JobMem
<1>3. \A r \in Runs \ {q} : job'[r] = job[r]
  BY <1>1, JobFields
<1>4. job[q].pc # "new" => job'[q].chat = job[q].chat
  BY <1>1, JobFields
<1>5. file \in Files /\ \A c \in Chats : c # job[q].chat => file'[c] = file[c]
  BY <1>1, JobFields DEF Files, TypeOK, StoreTyped
<1>6. ToSet(inbox) \subseteq ToSet(inbox')
  BY JobInbox
<1>7. ASSUME NEW r \in Runs, NEW c \in Chats, Delivered(r, c)' PROVE RunHeld(r, c)'
  <2>1. CASE r = q /\ job[q].pc = "append"
    <3>1. job[q].chat = c /\ file'[c] = Appended(q) /\ job'[q].pc = "inbox"
      BY <1>1, <1>5, <1>7, <2>1, JobFields DEF Delivered, Files
    <3>2. ~Holds(Mem(c), q) /\ ~Holds(written[c], q)
      BY <1>1, <2>1 DEF RunsKnown, Begun
    <3>3. MergeWritten(r, c)' /\ WrittenStays(r, c)'
      BY <1>2, <2>1, <3>2 DEF MergeWritten, WrittenStays
    <3>4. SettledHeld(r, c)'
      BY <2>1, <3>1 DEF SettledHeld, Settled
    <3>5. UnwrittenBare(r, c)'
      BY <2>1, <3>1, AppendedHolds DEF UnwrittenBare
    <3> QED
      BY <3>3, <3>4, <3>5 DEF RunHeld
  <2>2. CASE ~(r = q /\ job[q].pc = "append")
    <3>1. Delivered(r, c) /\ file'[c] = file[c] /\ (Settled(r)' => Settled(r))
      <4>1. CASE r = q
        <5>1. job[q].pc = "inbox" /\ job'[q].pc = "done" /\ file' = file
          BY <1>1, <1>7, <2>2, <4>1, JobFields DEF Delivered
        <5>2. Delivered(r, c)
          BY <1>2, <1>3, <1>4, <1>7, <4>1, <5>1 DEF Delivered, OnlyRun
        <5>3. r \in ToSet(inbox') \ (merged \cup strays)
          BY <4>1, <5>1, JobInbox
        <5>4. ~Settled(r)'
          BY <1>1, <1>2, <5>3 DEF Settled, InboxRight
        <5> QED
          BY <5>1, <5>2, <5>4
      <4>2. CASE r # q
        <5>1. job'[r] = job[r]
          BY <1>3, <4>2
        <5>2. job[q].chat # c
          <6>1. job'[q].chat # c
            BY <1>7, <4>2 DEF Delivered, OnlyRun
          <6>2. job[q].pc = "new" => job[q].chat = None
            BY <1>1 DEF RunsKnown
          <6> QED
            BY <1>4, <6>1, <6>2, Distinct
        <5>3. Delivered(r, c)
          BY <1>2, <1>3, <1>7, <5>1, <5>2 DEF Delivered, OnlyRun
        <5>4. Settled(r)' => Settled(r)
          BY <1>2, <1>6, <5>1 DEF Settled
        <5> QED
          BY <1>5, <5>2, <5>3, <5>4
      <4> QED
        BY <4>1, <4>2
    <3>2. RunHeld(r, c)
      BY <3>1 DEF KInv, RunsHeld
    <3>3. Writable(c)' <=> Writable(c)
      BY <1>2 DEF Writable
    <3>4. MergeWritten(r, c)'
      BY <1>2, <3>2, <3>3 DEF RunHeld, MergeWritten
    <3>5. WrittenStays(r, c)'
      BY <1>2, <3>1, <3>2 DEF RunHeld, WrittenStays
    <3>6. SettledHeld(r, c)'
      BY <1>2, <3>1, <3>2, <3>3 DEF RunHeld, SettledHeld
    <3>7. UnwrittenBare(r, c)'
      BY <1>2, <3>1, <3>2 DEF RunHeld, UnwrittenBare
    <3> QED
      BY <3>4, <3>5, <3>6, <3>7 DEF RunHeld
  <2> QED
    BY <2>1, <2>2
<1>8. DamagedBad'
  <2> SUFFICES ASSUME NEW c \in (damaged \cap Listed) \ undone PROVE file'[c] = Bad
    BY <1>2 DEF DamagedBad
  <2>1. file[c] = Bad /\ c \in Chats
    BY DEF KInv, DamagedBad, Listed
  <2>2. file' = file \/ job[q].pc = "append"
    BY <1>1, JobFields
  <2>3. job[q].pc = "append" => c # job[q].chat
    BY <2>1 DEF IInv, Locked
  <2> QED
    BY <1>5, <2>1, <2>2, <2>3
<1>9. RemovedLater'
  <2>1. toRemove \subseteq discarded \/ flushing # None
    BY DEF KInv, RemovedLater
  <2>2. ASSUME NEW r \in toRemove \ discarded, NEW c \in Chats, job'[r].chat = c PROVE c \in Listed /\ Holds(Mem(c), r)
    <3>1. r \in Runs /\ job[r].pc = "done"
      BY <1>1 DEF InboxRight, Done
    <3>2. r # q
      BY <1>1, <3>1, JobFields
    <3>3. job'[r] = job[r]
      BY <1>3, <3>1, <3>2
    <3> QED
      BY <2>2, <3>3 DEF KInv, RemovedLater
  <2> QED
    BY <1>2, <2>1, <2>2 DEF RemovedLater
<1>10. FlushesAll'
  BY <1>2 DEF KInv, FlushesAll, saveVars
<1> QED
  BY <1>7, <1>8, <1>9, <1>10 DEF KInv, RunsHeld

LEMMA InitK == ASSUME DeliveryInit PROVE KInv
<1>1. \A r \in Runs, c \in Chats : ~Delivered(r, c)
  BY DEF DeliveryInit, Delivered
<1>2. damaged = {} /\ toRemove = {} /\ flushing = None
  BY DEF DeliveryInit, Init
<1>3. flushing # Now
  BY <1>2, Distinct
<1> QED
  BY <1>1, <1>2, <1>3 DEF KInv, RunsHeld, DamagedBad, RemovedLater, FlushesAll

LEMMA NextK == ASSUME IInv, RInv, KInv, [DeliveryNext]_vars PROVE KInv'
<1>1. IInv'
  BY NextInv
<1>2. CASE StoreStep
  <2>1. UNCHANGED <<jobVars, inboxVars>>
    BY <1>2 DEF StoreStep
  <2>2. CASE UserStep \/ ReplyDone
    BY <2>1, <2>2, UserKeepsK
  <2>3. CASE FlushStep
    <3>1. CASE FlushTimer
      BY <2>1, <3>1, FlushKeepsK
    <3>2. ASSUME NEW c \in Chats, FlushChat(c) PROVE KInv'
      BY <2>1, <3>2, FlushChatKeepsK
    <3>3. CASE FlushIndex \/ FlushBak
      BY <2>1, <3>3, QuietKeepsK
    <3> QED
      BY <2>3, <3>1, <3>2, <3>3 DEF FlushStep
  <2>4. CASE Prepared
    <3>1. up \in {"starting", "on"}
      BY <2>4 DEF Prepared, IInv, TypeOK, StoreTyped
    <3> QED
      BY <1>1, <2>1, <2>4, <3>1, OffStepsK, QuietKeepsK
  <2>5. CASE rebuildIndex
    BY <2>1, <2>5, RebuildKeepsK
  <2>6. CASE Start
    BY <1>1, <2>1, <2>6, OffStepsK
  <2>7. CASE \E c \in Chats : DeleteFile(c)
    BY <2>1, <2>7, DeleteFileKeepsK
  <2> QED
    BY <1>2, <2>2, <2>3, <2>4, <2>5, <2>6, <2>7 DEF StoreStep
<1>3. CASE DamageStep \/ Ends
  BY <1>1, <1>3, OffStepsK
<1>4. CASE LoadScanned \/ scan \/ FlushEndSaved
  <2>1. LoadScanned => KInv'
    BY LoadKeepsK
  <2>2. scan => KInv'
    BY ScanKeepsK
  <2>3. FlushEndSaved => KInv'
    BY FlushEndKeepsK
  <2> QED
    BY <1>4, <2>1, <2>2, <2>3
<1>5. CASE FlushNow
  <2>1. UNCHANGED <<jobVars, inboxVars>> /\ Flush
    BY <1>5, FlushNowFlushes DEF FlushNow
  <2> QED
    BY <1>5, <2>1, FlushKeepsK
<1>6. ASSUME NEW r \in Runs, JobSteps(r) PROVE KInv'
  BY <1>6, JobKeepsK
<1>7. CASE \E r \in Runs : RemoveFile(r) \/ StrayRemoves(r)
  BY <1>7, QuietKeepsK
<1>8. CASE UNCHANGED vars
  BY <1>8, QuietKeepsK
<1>9. DeliveryNext \/ UNCHANGED vars
  OBVIOUS
<1> QED
  BY <1>2, <1>3, <1>4, <1>5, <1>6, <1>7, <1>8, <1>9 DEF DeliveryNext, JobSteps

LEMMA Stays == ASSUME IInv, KInv PROVE RunStays
<1> SUFFICES ASSUME NEW r \in Runs, job[r].pc = "done", OnlyRun(r), r \notin discarded, index \notin {None, Bad},
                    job[r].chat \in index \ undone, ~Contains(inbox, r), file[job[r].chat] # Bad
             PROVE  file[job[r].chat] # None /\ Contains(file[job[r].chat], r)
  BY DEF RunStays
<1> DEFINE c == job[r].chat
<1>1. index \in Lists /\ inbox \in Seq(Runs) /\ file \in Files
  BY DEF IInv, TypeOK, StoreTyped
<1>2. c \in Chats /\ Delivered(r, c)
  BY <1>1 DEF Lists, Delivered
<1>3. c \in Indexed \ undone
  BY <1>2 DEF Indexed
<1> HIDE DEF c
<1>4. r \notin ToSet(inbox)
  BY <1>1, InToSet DEF Contains, InSeq
<1>5. Settled(r)
  BY <1>4 DEF Settled
<1>6. file[c] # None
  BY <1>3 DEF IInv, StoreInv, Doomed
<1>7. Holds(file[c], r)
  BY <1>2, <1>5, <1>6 DEF KInv, RunsHeld, RunHeld, SettledHeld, c
<1>8. file[c] \in Contents
  BY <1>1, <1>2, <1>7 DEF Files, Holds
<1> QED
  BY <1>6, <1>7, <1>8, ContainsHolds DEF c

-----------------------------------------------------------------------------
(* A run is in a chat once.                                                *)

OnceIn(f) == f \in {None, Bad} \/ Once(f)

\* No run is twice in a chat, wherever its messages are, or in the inbox.
OnceInv ==
    /\ \A c \in Chats : OnceIn(Mem(c)) /\ OnceIn(written[c]) /\ OnceIn(file[c])
    /\ \A r \in Runs : Once(job[r].base)
    /\ Once(inbox)

LEMMA OnceOfContents == ASSUME NEW f \in Contents, OnceIn(f) PROVE Once(f)
BY Distinct DEF OnceIn

\* What leaves the chats in memory alone.
LEMMA MemoryKeepsOnce ==
    ASSUME OnceInv, UNCHANGED <<sessions, undoable, written, job>>,
           \A c \in Chats : file'[c] \in {file[c], written[c], None, Bad}, Once(inbox')
    PROVE  OnceInv'
<1>1. \A c : Mem(c)' = Mem(c)
  BY MemUnchanged
<1>2. \A c \in Chats : OnceIn(file'[c])
  BY DEF OnceInv, OnceIn
<1> QED
  BY <1>1, <1>2 DEF OnceInv

LEMMA QuietKeepsOnce ==
    ASSUME IInv, OnceInv,
           \/ (FlushIndex \/ FlushBak \/ Prepared \/ Start) /\ UNCHANGED <<jobVars, inboxVars>>
           \/ (\E c \in Chats : FlushChat(c) \/ DeleteFile(c)) /\ UNCHANGED <<jobVars, inboxVars>>
           \/ DamageStep \/ FlushEndSaved
           \/ \E r \in Runs : RemoveFile(r) \/ StrayRemoves(r)
           \/ UNCHANGED vars
    PROVE  OnceInv'
<1>1. file \in Files /\ inbox \in Seq(Runs) /\ Once(inbox)
  BY DEF IInv, TypeOK, StoreTyped, OnceInv
<1>2. CASE (FlushIndex \/ FlushBak \/ Prepared \/ Start) /\ UNCHANGED <<jobVars, inboxVars>>
  <2>1. UNCHANGED <<sessions, undoable, written, job, file, inbox>>
    BY <1>2 DEF FlushIndex, FlushBak, Prepared, Start, flushed, diskVars, jobVars, inboxVars
  <2> QED
    BY <1>1, <2>1, MemoryKeepsOnce
<1>3. ASSUME NEW c \in Chats, FlushChat(c) \/ DeleteFile(c), UNCHANGED <<jobVars, inboxVars>> PROVE OnceInv'
  <2>1. /\ UNCHANGED <<sessions, undoable, written, job, inbox>>
        /\ file' = [file EXCEPT ![c] = written[c]] \/ file' = [file EXCEPT ![c] = None]
    BY <1>3 DEF FlushChat, DeleteFile, memVars, flushed, jobVars, inboxVars
  <2>2. \A d \in Chats : file'[d] \in {file[d], written[d], None, Bad}
    BY <1>1, <2>1 DEF Files
  <2> QED
    BY <1>1, <2>1, <2>2, MemoryKeepsOnce
<1>4. CASE DamageStep
  <2>1. UNCHANGED <<sessions, undoable, written, job, inbox>>
    BY <1>4 DEF DamageStep, DamageFile, DamageIndex, LoseIndex, memVars, jobVars, inboxVars
  <2>2. \A d \in Chats : file'[d] \in {file[d], written[d], None, Bad}
    BY <1>1, <1>4 DEF DamageStep, DamageFile, DamageIndex, LoseIndex, Files
  <2> QED
    BY <1>1, <2>1, <2>2, MemoryKeepsOnce
<1>5. CASE FlushEndSaved
  <2>1. UNCHANGED <<sessions, undoable, written, job, file, inbox>>
    BY <1>5 DEF FlushEndSaved, FlushEnd, flushed, diskVars, jobVars
  <2> QED
    BY <1>1, <2>1, MemoryKeepsOnce
<1>6. ASSUME NEW r \in Runs, RemoveFile(r) \/ StrayRemoves(r) PROVE OnceInv'
  <2>1. UNCHANGED <<sessions, undoable, written, job, file>> /\ inbox' = Only(inbox, Runs \ {r})
    BY <1>6 DEF RemoveFile, StrayRemoves, storeVars, memVars, diskVars, jobVars
  <2>2. Once(inbox')
    BY <1>1, <2>1, OnlyOnce
  <2> QED
    BY <2>1, <2>2, MemoryKeepsOnce
<1>7. CASE UNCHANGED vars
  <2>1. UNCHANGED <<sessions, undoable, written, job, file, inbox>>
    BY <1>7 DEF vars, storeVars, memVars, diskVars, jobVars, inboxVars
  <2> QED
    BY <1>1, <2>1, MemoryKeepsOnce
<1> QED
  BY <1>2, <1>3, <1>4, <1>5, <1>6, <1>7

LEMMA EndsKeepsOnce == ASSUME OnceInv, Ends PROVE OnceInv'
<1>1. sessions' = NoChats /\ written' = NoChats /\ undoable' = None /\ UNCHANGED <<file, job, inbox>>
  BY DEF Ends, Quit, Kill, Gone, diskVars, jobVars
<1>2. Undo' = {} /\ \A c \in Chats : sessions'[c] = None /\ written'[c] = None
  BY <1>1 DEF Undo, NoChats
<1>3. \A c \in Chats : Mem(c)' = None
  BY <1>2 DEF Mem
<1> QED
  BY <1>1, <1>2, <1>3 DEF OnceInv, OnceIn

LEMMA UserKeepsOnce ==
    ASSUME IInv, RInv, OnceInv, IInv', UserStep \/ ReplyDone, UNCHANGED <<jobVars, inboxVars>>
    PROVE  OnceInv'
<1>1. Edited
  BY MessageEdits, CreateEdits, DeleteEdits, UndoEdits DEF UserStep
<1>2. UNCHANGED <<written, file, job, inbox>> /\ \A c \in Seen' : c \in Chats /\ ChatKept(c)
  BY <1>1 DEF Edited, jobVars, inboxVars
<1>3. StoreTyped /\ StoreTyped'
  BY DEF IInv, TypeOK
<1>4. \A c \in Chats : c \notin Seen' => Mem(c)' = None
  <2>1. StoreTyped' => (\A c \in Chats : Mem(c) \in Contents \cup {None} /\ (c \in Seen <=> Mem(c) # None))'
    BY MemTyped, PTL
  <2> QED
    BY <1>3, <2>1
<1>5. ASSUME NEW c \in Chats PROVE OnceIn(Mem(c)')
  <2>1. CASE c \notin Seen'
    BY <1>4, <2>1 DEF OnceIn
  <2>2. CASE c \in Seen' /\ Mem(c)' = <<>>
    BY <2>2, OnceEmpty DEF OnceIn
  <2>3. CASE c \in Seen' /\ c \in Seen /\ (Once(Mem(c)) => Once(Mem(c)'))
    <3>1. Mem(c) \in Contents
      BY <1>3, <2>3, MemTyped
    <3>2. Once(Mem(c))
      BY <3>1, OnceOfContents DEF OnceInv
    <3> QED
      BY <2>3, <3>2 DEF OnceIn
  <2> QED
    BY <1>2, <2>1, <2>2, <2>3 DEF ChatKept
<1> QED
  BY <1>2, <1>5 DEF OnceInv

LEMMA FlushKeepsOnce ==
    ASSUME IInv, OnceInv, FlushTimer \/ (FlushNow /\ Flush), UNCHANGED <<jobVars, inboxVars>>
    PROVE  OnceInv'
<1>1. written' = [c \in Chats |-> Known(c)] /\ UNCHANGED <<sessions, undoable, file, job, inbox>>
  BY DEF FlushTimer, FlushNow, Flush, diskVars, jobVars, inboxVars
<1>2. \A c : Mem(c)' = Mem(c)
  BY <1>1, MemUnchanged
<1>3. ASSUME NEW c \in Listed PROVE Once(Content(c))
  <2>1. c \in Chats /\ Mem(c) = sessions[c] /\ sessions[c] \in Contents
    BY ContentHolds DEF IInv, TypeOK
  <2>2. Once(sessions[c])
    BY <2>1, OnceOfContents DEF OnceInv
  <2>3. Partial \in Messages /\ Partial \notin Runs
    BY AreMessages, MessagesDiffer
  <2>4. Once(Append(sessions[c], Partial))
    BY <2>1, <2>2, <2>3, OnceAppended
  <2> QED
    BY <2>2, <2>4 DEF Content
<1>4. \A c \in Chats : OnceIn(Known(c))
  BY <1>3 DEF Known, OnceIn, OnceInv
<1> QED
  BY <1>1, <1>2, <1>4 DEF OnceInv

LEMMA ShownKeepsOnce ==
    ASSUME IInv, RInv, OnceInv, NEW list \in Lists, Show(list), UNCHANGED <<undoable, file, job, inbox>>
    PROVE  OnceInv'
<1>1. PICK n \in Chats :
        /\ \A d \in list : sessions'[d] = LoadedOf(file[d]) /\ sessions'[d] # None
        /\ \A d \in Chats \ list : sessions'[d] = IF d = n THEN <<>> ELSE None
  BY ShownIs DEF IInv, TypeOK
<1>2. ASSUME NEW d \in Chats PROVE OnceIn(Mem(d)')
  <2>1. CASE d \in list
    <3>1. Mem(d)' = LoadedOf(file[d])
      <4>1. sessions'[d] = LoadedOf(file[d]) /\ sessions'[d] # None
        BY <1>1, <2>1
      <4> QED
        BY <4>1 DEF Mem
    <3>2. file[d] \in {None, Bad} \/ Once(file[d])
      BY DEF OnceInv, OnceIn
    <3> QED
      BY <3>1, <3>2, OnceLoaded DEF OnceIn
  <2>2. CASE d \notin list
    <3>1. sessions'[d] \in {<<>>, None}
      BY <1>1, <2>2
    <3>2. CASE sessions'[d] # None
      BY <3>1, <3>2, OnceEmpty DEF Mem, OnceIn
    <3>3. CASE sessions'[d] = None /\ d \in Undo
      <4>1. sessions[d] = None
        BY <3>3 DEF RInv, UndoGone, Listed
      <4>2. Mem(d)' = Mem(d)
        BY <3>3, <4>1 DEF Mem, Undo
      <4> QED
        BY <4>2 DEF OnceInv
    <3>4. CASE sessions'[d] = None /\ d \notin Undo
      BY <3>4 DEF Mem, Undo, OnceIn
    <3> QED
      BY <3>2, <3>3, <3>4
  <2> QED
    BY <2>1, <2>2
<1>3. \A d \in Chats : OnceIn(written'[d])
  <2>1. \A d \in Chats : written'[d] \in {None, Bad, file[d]}
    BY DEF Show
  <2> QED
    BY <2>1 DEF OnceInv, OnceIn
<1> QED
  BY <1>2, <1>3 DEF OnceInv

LEMMA StartKeepsOnce ==
    ASSUME IInv, RInv, OnceInv, LoadScanned \/ (rebuildIndex /\ UNCHANGED <<jobVars, inboxVars>>)
    PROVE  OnceInv'
<1>1. CASE LoadScanned
  <2> DEFINE list == IF ~HasIndex \/ ReadIndex = Bad THEN {} ELSE ReadIndex
  <2>1. Show(list) /\ UNCHANGED <<undoable, file, job, inbox>>
    BY <1>1 DEF LoadScanned, Load, diskVars, jobVars, inboxVars
  <2>2. list \in Lists
    BY <1>1, ReadTyped DEF IInv, TypeOK
  <2> HIDE DEF list
  <2> QED
    BY <2>1, <2>2, ShownKeepsOnce
<1>2. CASE rebuildIndex /\ UNCHANGED <<jobVars, inboxVars>>
  <2> DEFINE all == {c \in Chats : file[c] # None}
  <2>1. Show(all) /\ UNCHANGED <<undoable, file, job, inbox>> /\ all \in Lists
    BY <1>2 DEF rebuildIndex, jobVars, inboxVars, Lists
  <2> HIDE DEF all
  <2> QED
    BY <2>1, ShownKeepsOnce
<1> QED
  BY <1>1, <1>2

\* scan adds a run to a chat that does not have it.
LEMMA ScanKeepsOnce == ASSUME IInv, OnceInv, scan PROVE OnceInv'
<1>1. UNCHANGED <<written, undoable, file, job, inbox>>
  BY ScanIs
<1>2. Listed' = Listed
  BY ScanMem
<1>3. ASSUME NEW c \in Listed PROVE OnceIn(Mem(c)')
  <2>1. PICK g \in Contents : /\ sessions'[c] = sessions[c] \o g
                              /\ \A m : Holds(g, m) <=> m \in Added /\ job[m].chat = c
                              /\ Once(inbox) => Once(g)
    BY ScanIs
  <2>2. c \in Chats /\ Mem(c) = sessions[c] /\ sessions[c] \in Contents
    BY ContentHolds DEF IInv, TypeOK
  <2>3. Once(sessions[c]) /\ Once(g)
    BY <2>1, <2>2, OnceOfContents DEF OnceInv
  <2>4. ASSUME NEW r \in Runs, Holds(sessions[c], r), Holds(g, r) PROVE FALSE
    <3>1. r \in Added /\ job[r].chat = c
      BY <2>1, <2>4
    <3>2. ~Contains(sessions[c], r)
      BY <3>1 DEF Added, Present
    <3> QED
      BY <2>2, <2>4, <3>2, ContainsHolds
  <2>5. Once(sessions'[c])
    BY <2>1, <2>2, <2>3, <2>4, OnceJoined
  <2>6. Mem(c)' = sessions'[c]
    BY <1>2 DEF Mem, Listed
  <2> QED
    BY <2>5, <2>6 DEF OnceIn
<1>4. ASSUME NEW c \in Chats, c \notin Listed PROVE OnceIn(Mem(c)')
  <2>1. sessions[c] = None /\ sessions'[c] = None
    <3>1. c \notin Listed'
      BY <1>2, <1>4
    <3> QED
      BY <1>4, <3>1 DEF Listed
  <2>2. Mem(c)' = Mem(c)
    BY <1>1, <2>1 DEF Mem, Undo
  <2> QED
    BY <2>2 DEF OnceInv
<1> QED
  BY <1>1, <1>3, <1>4 DEF OnceInv

LEMMA JobKeepsOnce == ASSUME IInv, RInv, OnceInv, IInv', NEW q \in Runs, JobSteps(q) PROVE OnceInv'
<1>1. TypeOK /\ file \in Files
  BY DEF IInv, TypeOK, StoreTyped
<1>2. (\A c : Mem(c)' = Mem(c)) /\ written' = written
  BY JobMem
<1>3. job[q].base \in Contents /\ Once(job[q].base) /\ q \in Messages
  BY JobChat, AreMessages DEF OnceInv
<1>4. Once(Appended(q))
  <2>1. ~Contains(job[q].base, q) => Once(Append(job[q].base, q))
    BY <1>3, ContainsHolds, OnceAppended
  <2> QED
    BY <1>3, <2>1 DEF Appended
<1>5. \A c \in Chats : OnceIn(file'[c])
  <2>1. file' = file \/ file' = [file EXCEPT ![job[q].chat] = Appended(q)]
    BY <1>1, JobFields
  <2>2. \A c \in Chats : file'[c] \in {file[c], Appended(q)}
    BY <1>1, <2>1 DEF Files
  <2> QED
    BY <1>4, <2>2 DEF OnceInv, OnceIn
<1>6. ASSUME NEW r \in Runs PROVE Once(job'[r].base)
  <2>1. CASE r # q
    BY <1>1, <2>1, JobFields DEF OnceInv
  <2>2. CASE r = q
    <3>1. \/ job'[q].base = job[q].base \/ job'[q].base = <<>>
          \/ job[q].pc = "prompt" /\ job'[q].base = file[job[q].chat]
      BY <1>1, JobFields
    <3>2. CASE job[q].pc = "prompt" /\ job'[q].base = file[job[q].chat]
      <4>1. job[q].chat \in Chats
        BY <3>2, JobChat
      <4>2. job'[q].base \in Contents
        BY DEF IInv, TypeOK, Jobs
      <4> QED
        BY <2>2, <3>2, <4>1, <4>2, OnceOfContents DEF OnceInv
    <3> QED
      BY <1>3, <2>2, <3>1, <3>2, OnceEmpty
  <2> QED
    BY <2>1, <2>2
<1>7. Once(inbox')
  <2>1. Once(inbox) /\ inbox \in Seq(Runs) /\ inbox \in Contents
    <3>1. inbox \in Seq(Messages)
      BY AreMessages DEF IInv, TypeOK
    <3> QED
      BY <3>1 DEF IInv, TypeOK, OnceInv, Contents
  <2>2. inbox' = inbox \/ (job[q].pc = "inbox" /\ inbox' = Append(inbox, q))
    BY <1>1, JobFields
  <2>3. job[q].pc = "inbox" => ~Holds(inbox, q)
    BY <2>1, ToSetHolds DEF RInv, InboxRight, Done
  <2> QED
    BY <1>3, <2>1, <2>2, <2>3, OnceAppended
<1> QED
  BY <1>2, <1>5, <1>6, <1>7 DEF OnceInv

LEMMA InitOnce == ASSUME DeliveryInit PROVE OnceInv
<1>1. Undo = {} /\ \A c \in Chats : sessions[c] = None /\ written[c] = None /\ file[c] = None
  BY DEF DeliveryInit, Init, NoChats, Undo
<1>2. \A c \in Chats : Mem(c) = None
  BY <1>1 DEF Mem
<1>3. inbox = <<>> /\ \A r \in Runs : job[r].base = <<>>
  BY DEF DeliveryInit
<1> QED
  BY <1>1, <1>2, <1>3, OnceEmpty DEF OnceInv, OnceIn

LEMMA NextOnce == ASSUME IInv, RInv, KInv, OnceInv, [DeliveryNext]_vars PROVE OnceInv'
<1>1. IInv'
  BY NextInv
<1>2. CASE StoreStep
  <2>1. UNCHANGED <<jobVars, inboxVars>>
    BY <1>2 DEF StoreStep
  <2>2. CASE UserStep \/ ReplyDone
    BY <1>1, <2>1, <2>2, UserKeepsOnce
  <2>3. CASE FlushStep
    BY <2>1, <2>3, FlushKeepsOnce, QuietKeepsOnce DEF FlushStep
  <2>4. CASE rebuildIndex
    BY <2>1, <2>4, StartKeepsOnce
  <2>5. CASE Prepared \/ Start \/ \E c \in Chats : DeleteFile(c)
    BY <2>1, <2>5, QuietKeepsOnce
  <2> QED
    BY <1>2, <2>2, <2>3, <2>4, <2>5 DEF StoreStep
<1>3. CASE DamageStep \/ FlushEndSaved \/ (\E r \in Runs : RemoveFile(r) \/ StrayRemoves(r)) \/ UNCHANGED vars
  BY <1>3, QuietKeepsOnce
<1>4. CASE LoadScanned \/ scan \/ Ends
  <2>1. LoadScanned => OnceInv'
    BY StartKeepsOnce
  <2>2. scan => OnceInv'
    BY ScanKeepsOnce
  <2>3. Ends => OnceInv'
    BY EndsKeepsOnce
  <2> QED
    BY <1>4, <2>1, <2>2, <2>3
<1>5. CASE FlushNow
  <2>1. UNCHANGED <<jobVars, inboxVars>> /\ Flush
    BY <1>5, FlushNowFlushes DEF FlushNow
  <2> QED
    BY <1>5, <2>1, FlushKeepsOnce
<1>6. ASSUME NEW r \in Runs, JobSteps(r) PROVE OnceInv'
  BY <1>1, <1>6, JobKeepsOnce
<1>7. DeliveryNext \/ UNCHANGED vars
  OBVIOUS
<1> QED
  BY <1>2, <1>3, <1>4, <1>5, <1>6, <1>7 DEF DeliveryNext, JobSteps

LEMMA Onces == ASSUME IInv, OnceInv PROVE RunOnce
<1> SUFFICES ASSUME NEW c \in Chats
             PROVE  (sessions[c] # None => Once(sessions[c])) /\ (file[c] \notin {None, Bad} => Once(file[c]))
  BY DEF RunOnce
<1>1. file[c] \notin {None, Bad} => Once(file[c])
  BY DEF OnceInv, OnceIn
<1>2. ASSUME sessions[c] # None PROVE Once(sessions[c])
  <2>1. sessions[c] \in Contents /\ Mem(c) = sessions[c]
    BY <1>2 DEF IInv, TypeOK, StoreTyped, Chatting, Mem
  <2> QED
    BY <2>1, OnceOfContents DEF OnceInv
<1> QED
  BY <1>1, <1>2

\* A run is never twice in a chat, in memory or on disk; and one that was delivered is in the inbox or in the file of
\* its chat, whenever the widget dies, if it is the only run for the chat, was not discarded with it, and its file was
\* not damaged.
THEOREM SpecRunKept == DeliverySpec => []RunKept
<1>1. DeliveryInit => IInv /\ RInv /\ KInv /\ OnceInv
  BY InitInv, InitR, InitK, InitOnce
<1>2. IInv /\ RInv /\ KInv /\ OnceInv /\ [DeliveryNext]_vars => (IInv /\ RInv /\ KInv /\ OnceInv)'
  BY NextR, NextK, NextOnce
<1>3. IInv /\ KInv /\ OnceInv => RunKept
  BY Stays, Onces DEF RunKept
<1> QED
  BY <1>1, <1>2, <1>3, PTL DEF DeliverySpec

-----------------------------------------------------------------------------
(* Nobody dies: a widget that stays up has every run.                      *)

\* The widget stays up, no job dies, and Undo is not used.
Undisturbed == \A b \in Budgets : b.kills = 0 /\ b.quits = 0 /\ b.undos = 0 /\ b.deaths = 0

Spared == budget.kills = 0 /\ budget.quits = 0 /\ budget.undos = 0 /\ budget.deaths = 0

\* Before the widget has first loaded, there is nothing to load.
Begins == index = None /\ bak = None /\ inbox = <<>> /\ (\A r \in Runs : job[r].pc = "new") /\ \A c \in Chats : file[c] = None

\* A run that is done is in its chat, or the widget has yet to look at its inbox file.
Reached(r) ==
    job[r].pc = "done" /\ r \notin discarded /\ job[r].chat \in Listed =>
        Holds(Mem(job[r].chat), r) \/ r \in ToSet(inbox) \ merged

\* No chat of a run that was discarded comes back.
GoneForGood == \A r \in discarded : job[r].chat \notin Listed

Calm ==
    /\ Spared
    /\ up = "on" \/ (up = "starting" /\ Begins)
    /\ damaged = {} /\ undone = {} /\ ~blocked
    /\ strays = {} /\ \A r \in Runs : job[r].pc # "dead"
    /\ GoneForGood
    /\ \A r \in Runs : Reached(r)

\* What cannot happen then.
LEMMA Barred ==
    ASSUME Calm
    PROVE  /\ ~Quit /\ ~Kill /\ ~undo /\ ~Start /\ ~rebuildIndex /\ ~DamageIndex /\ ~LoseIndex
           /\ \A c \in Chats : ~DamageFile(c)
           /\ \A r \in Runs : ~JobDies(r) /\ ~StrayRemoves(r)
BY DEF Calm, Spared, Spend, Quit, Kill, undo, Start, rebuildIndex, DamageIndex, LoseIndex, DamageFile, JobDies, StrayRemoves

LEMMA SpentSpares ==
    ASSUME budget \in Budget, Spared, budget' = budget \/ \E what \in BudgetNames : Spend(what)
    PROVE  Spared'
<1>1. CASE budget' = budget
  BY <1>1 DEF Spared
<1>2. ASSUME NEW what \in BudgetNames, Spend(what) PROVE Spared'
  BY <1>2 DEF Spend, Spared, Budget, BudgetNames
<1> QED
  BY <1>1, <1>2

\* The bounds that are spent.
LEMMA Spends ==
    ASSUME IInv, [DeliveryNext]_vars
    PROVE  budget' = budget \/ \E what \in BudgetNames : Spend(what)
<1>1. CASE StoreStep
  <2>1. CASE UserStep \/ ReplyDone
    BY <2>1 DEF UserStep, ReplyDone, Send, PartialSave, stopStreaming, createSession, switchSession, setSessionProperty,
       setSessionArchived, deleteSession, undo, dismiss, BudgetNames
  <2>2. CASE FlushStep
    BY <2>2 DEF FlushStep, FlushTimer, FlushChat, FlushIndex, FlushBak, flushed
  <2>3. CASE Prepared \/ rebuildIndex \/ Start \/ \E c \in Chats : DeleteFile(c)
    BY <2>3 DEF Prepared, rebuildIndex, Start, DeleteFile
  <2> QED
    BY <1>1, <2>1, <2>2, <2>3 DEF StoreStep
<1>2. CASE DamageStep
  BY <1>2 DEF DamageStep, DamageFile, DamageIndex, LoseIndex, BudgetNames
<1>3. CASE LoadScanned \/ Ends
  BY <1>3 DEF LoadScanned, Ends, Load, Quit, Kill, BudgetNames
<1>4. CASE scan \/ FlushNow \/ FlushEndSaved
  BY <1>4 DEF scan, FlushNow, FlushEndSaved, FlushEnd, flushed
<1>5. CASE \E r \in Runs : JobStep(r) \/ JobDies(r) \/ RemoveFile(r) \/ StrayRemoves(r)
  BY <1>5 DEF JobStep, find_chat, load_messages, append, write_inbox, JobDies, RemoveFile, StrayRemoves, storeVars, BudgetNames
<1>6. CASE UNCHANGED vars
  BY <1>6 DEF vars, storeVars
<1> QED
  BY <1>1, <1>2, <1>3, <1>4, <1>5, <1>6 DEF DeliveryNext

\* The steps of a flush and of helpers leave the chats and the runs on their way alone.
LEMMA NothingMoves ==
    ASSUME Calm, Spared',
           UNCHANGED <<up, sessions, undoable, job, inbox, merged, discarded, damaged, undone, blocked, strays>>,
           up = "starting" => index' = index /\ bak' = bak /\ \A c \in Chats : file'[c] = None
    PROVE  Calm'
<1>1. Listed' = Listed /\ \A c : Mem(c)' = Mem(c)
  BY MemUnchanged
<1>2. GoneForGood'
  BY <1>1 DEF Calm, GoneForGood
<1>3. \A r \in Runs : Reached(r)'
  BY <1>1 DEF Calm, Reached
<1>4. up' = "on" \/ (up' = "starting" /\ Begins')
  BY DEF Calm, Begins
<1> QED
  BY <1>2, <1>3, <1>4 DEF Calm

LEMMA QuietStaysCalm ==
    ASSUME IInv, Calm, Spared',
           \/ (FlushStep \/ Prepared \/ \E c \in Chats : DeleteFile(c)) /\ UNCHANGED <<jobVars, inboxVars>>
           \/ FlushNow \/ FlushEndSaved \/ UNCHANGED vars
    PROVE  Calm'
<1>1. UNCHANGED <<up, sessions, undoable, job, inbox, merged, discarded, damaged, undone, blocked, strays>>
  <2>1. CASE FlushStep /\ UNCHANGED <<jobVars, inboxVars>>
    BY <2>1 DEF FlushStep, FlushTimer, Flush, FlushChat, FlushIndex, FlushBak, flushed, jobVars, inboxVars
  <2>2. CASE (Prepared \/ \E c \in Chats : DeleteFile(c)) /\ UNCHANGED <<jobVars, inboxVars>>
    BY <2>2 DEF Prepared, DeleteFile, memVars, jobVars, inboxVars
  <2>3. CASE FlushNow \/ FlushEndSaved
    BY <2>3 DEF FlushNow, Flush, FlushEndSaved, FlushEnd, flushed, jobVars, inboxVars
  <2>4. CASE UNCHANGED vars
    BY <2>4 DEF vars, storeVars, memVars, jobVars, inboxVars
  <2> QED
    BY <2>1, <2>2, <2>3, <2>4
<1>2. ASSUME up = "starting" PROVE index' = index /\ bak' = bak /\ \A c \in Chats : file'[c] = None
  <2>1. Idle /\ file \in Files /\ \A c \in Chats : file[c] = None
    BY <1>2 DEF IInv, TypeOK, StoreTyped, StoreInv, Running, Idle, Calm, Begins
  <2>2. CASE FlushStep \/ FlushNow \/ FlushEndSaved
    BY <1>2, <2>1, <2>2 DEF FlushStep, FlushTimer, FlushChat, FlushIndex, FlushBak, FlushNow, FlushEndSaved, FlushEnd, On
  <2>3. CASE Prepared \/ UNCHANGED vars
    BY <2>1, <2>3 DEF Prepared, vars, storeVars, diskVars
  <2>4. CASE \E c \in Chats : DeleteFile(c)
    BY <2>1, <2>4 DEF DeleteFile, Files
  <2> QED
    BY <2>2, <2>3, <2>4
<1> QED
  BY <1>1, <1>2, NothingMoves

LEMMA UserStaysCalm ==
    ASSUME IInv, RInv, Calm, Spared', UserStep \/ ReplyDone, UNCHANGED <<jobVars, inboxVars>>
    PROVE  Calm'
<1>1. Edited
  BY MessageEdits, CreateEdits, DeleteEdits, UndoEdits DEF UserStep
<1>2. /\ up = "on" /\ UNCHANGED <<up, blocked, damaged, job, inbox, merged, discarded, strays>>
      /\ \A c \in Seen' : c \in Chats /\ ChatKept(c)
  BY <1>1 DEF Edited, On, jobVars, inboxVars
<1>3. undone' = undone
  BY Barred DEF UserStep, ReplyDone, Send, PartialSave, stopStreaming, createSession, setSessionProperty,
     setSessionArchived, switchSession, deleteSession, dismiss
<1>4. ASSUME NEW r \in Runs, job[r].pc = "done", job[r].chat \in Listed'
      PROVE  job[r].chat \in Listed /\ \A m \in Runs : Holds(Mem(job[r].chat), m) => Holds(Mem(job[r].chat)', m)
  <2> DEFINE c == job[r].chat
  <2>1. c \in used /\ c \in Seen'
    BY <1>4 DEF IInv, Locked, Seen
  <2> HIDE DEF c
  <2>2. c \in Listed
    BY <1>1, <1>4, <2>1, Returns, Barred DEF c
  <2>3. \A m \in Runs : Holds(Mem(c), m) => Holds(Mem(c)', m)
    <3>1. ChatKept(c)
      BY <1>2, <2>1
    <3> QED
      BY <2>1, <3>1 DEF ChatKept
  <2> QED
    BY <2>2, <2>3 DEF c
<1>5. \A r \in Runs : Reached(r)'
  BY <1>2, <1>4 DEF Calm, Reached
<1>6. GoneForGood'
  <2>1. discarded \subseteq Done
    BY DEF RInv, InboxRight
  <2> QED
    BY <1>2, <1>4, <2>1 DEF Calm, GoneForGood, Done
<1> QED
  BY <1>2, <1>3, <1>5, <1>6 DEF Calm

LEMMA RemoveStaysCalm ==
    ASSUME IInv, RInv, Calm, Spared', NEW q \in Runs, RemoveFile(q)
    PROVE  Calm'
<1>1. /\ UNCHANGED <<up, sessions, undoable, job, discarded, damaged, undone, blocked, strays>>
      /\ inbox' = Only(inbox, Runs \ {q}) /\ merged' = merged \ {q} /\ q \in merged
  BY DEF RemoveFile, storeVars, memVars, jobVars, RInv, InboxRight
<1>2. ToSet(inbox') = ToSet(inbox) \ {q}
  <2>1. inbox \in Seq(Runs) /\ ToSet(inbox) \subseteq Runs
    BY DEF IInv, TypeOK, ToSet
  <2>2. ToSet(Only(inbox, Runs \ {q})) = ToSet(inbox) \cap (Runs \ {q})
    BY <2>1, OnlySet
  <2> QED
    BY <1>1, <2>1, <2>2
<1>3. up = "on"
  <2>1. q \in Done
    BY <1>1 DEF RInv, InboxRight
  <2> QED
    BY <2>1 DEF Calm, Begins, Done
<1>4. Listed' = Listed /\ \A c : Mem(c)' = Mem(c)
  BY <1>1, MemUnchanged
<1>5. GoneForGood'
  BY <1>1, <1>4 DEF Calm, GoneForGood
<1>6. ASSUME NEW r \in Runs PROVE Reached(r)'
  <2>1. Reached(r)
    BY DEF Calm
  <2> QED
    BY <1>1, <1>2, <1>4, <2>1 DEF Reached
<1> QED
  BY <1>1, <1>3, <1>5, <1>6 DEF Calm

LEMMA LoadStaysCalm ==
    ASSUME IInv, RInv, RInv', Calm, Spared', LoadScanned
    PROVE  Calm'
<1>1. up' = "on" /\ Begins /\ UNCHANGED <<job, undone, strays>>
  BY DEF LoadScanned, Load, Calm, jobVars, inboxVars
<1>2. ~HasIndex
  BY <1>1 DEF Begins, HasIndex
<1>3. ~blocked' /\ Show({})
  BY <1>2 DEF LoadScanned, Load, Unreadable
<1>4. damaged' = {}
  BY <1>3 DEF Show
<1>5. discarded' = {} /\ \A r \in Runs : job'[r].pc = "new"
  BY <1>1 DEF RInv, InboxRight, Done, Begins
<1> QED
  BY <1>1, <1>3, <1>4, <1>5 DEF Calm, GoneForGood, Reached

LEMMA ScanStaysCalm ==
    ASSUME IInv, RInv, Calm, Spared', scan
    PROVE  Calm'
<1>1. /\ up = "on" /\ merged' = merged \cup Lost \cup Handled /\ discarded' = discarded \cup Lost
      /\ UNCHANGED <<up, blocked, damaged, undone, job, inbox, strays>>
  BY ScanIs DEF On
<1>2. /\ Listed' = Listed
      /\ \A c \in Chats : \A m : Holds(Mem(c)', m) <=> Holds(Mem(c), m) \/ (c \in Listed /\ m \in Added /\ job[m].chat = c)
  BY ScanMem
<1>3. GoneForGood'
  BY <1>1, <1>2 DEF Calm, GoneForGood, Lost, Here
<1>4. ASSUME NEW r \in Runs PROVE Reached(r)'
  <2> SUFFICES ASSUME job[r].pc = "done", r \notin discarded', job[r].chat \in Listed, r \notin ToSet(inbox) \ merged'
               PROVE  Holds(Mem(job[r].chat)', r)
    BY <1>1, <1>2 DEF Reached
  <2>1. job[r].chat \in Chats
    BY DEF Listed
  <2>2. Reached(r)
    BY DEF Calm
  <2>3. CASE r \in Handled
    <3>0. PICK c \in Chats : job[r].chat = c /\ job'[r].chat = c
      BY <1>1, <2>1
    <3>1. c \in Listed /\ (Holds(Mem(c), r) \/ r \in Added) /\ job[r].chat = c
      BY <2>3, <3>0, HandledHeld
    <3>2. Holds(Mem(c)', r)
      BY <1>2, <3>1
    <3> QED
      BY <3>0, <3>2
  <2>4. CASE r \notin Handled
    <3>1. r \notin Fresher
      BY <1>1, <2>4 DEF Fresher
    <3> QED
      BY <1>1, <1>2, <2>1, <2>2, <3>1 DEF Reached, Fresher
  <2> QED
    BY <2>3, <2>4
<1> QED
  BY <1>1, <1>3, <1>4 DEF Calm

LEMMA JobStaysCalm ==
    ASSUME IInv, RInv, Calm, Spared', NEW q \in Runs, JobStep(q)
    PROVE  Calm'
<1>1. /\ UNCHANGED <<up, blocked, damaged, undone, merged, discarded, strays, index, bak>>
      /\ Listed' = Listed /\ \A c : Mem(c)' = Mem(c)
  BY JobMem DEF JobSteps
<1>2. /\ \A r \in Runs \ {q} : job'[r] = job[r]
      /\ \/ job'[q].pc \notin {"done", "dead"} /\ inbox' = inbox
         \/ job'[q].pc = "done" /\ inbox' = Append(inbox, q) /\ job[q].pc = "inbox"
  <2>1. JobSteps(q) /\ TypeOK /\ job \in [Runs -> Jobs]
    BY DEF JobSteps, IInv, TypeOK
  <2>2. job'[q].pc # "dead"
    <3>1. CASE find_chat(q)
      BY <2>1, <3>1 DEF find_chat, Jobs
    <3>2. CASE load_messages(q)
      BY <2>1, <3>2 DEF load_messages, Jobs
    <3>3. CASE append(q) \/ write_inbox(q)
      BY <2>1, <3>3 DEF append, write_inbox, Jobs
    <3> QED
      BY <3>1, <3>2, <3>3 DEF JobStep
  <2> QED
    BY <2>1, <2>2, JobFields
<1>3. up = "on"
  BY DEF JobStep, find_chat, load_messages, append, write_inbox, Calm, Begins, folder_lock
<1>4. q \notin merged \cup discarded /\ ToSet(inbox) \subseteq ToSet(inbox')
  <2>1. q \notin Done
    BY DEF Done, JobStep, find_chat, load_messages, append, write_inbox, folder_lock
  <2>2. ToSet(Append(inbox, q)) = ToSet(inbox) \cup {q}
    BY ToSetAppended DEF IInv, TypeOK
  <2>3. merged \cup discarded \subseteq Done
    BY DEF RInv, InboxRight
  <2> QED
    BY <1>2, <2>1, <2>2, <2>3
<1>5. GoneForGood'
  <2>1. discarded \subseteq Runs
    BY DEF RInv, InboxRight, Done
  <2> QED
    BY <1>1, <1>2, <1>4, <2>1 DEF Calm, GoneForGood
<1>6. ASSUME NEW r \in Runs PROVE Reached(r)'
  <2>1. CASE r = q
    <3>1. inbox' = Append(inbox, q) => q \in ToSet(inbox')
      BY ToSetAppended DEF IInv, TypeOK
    <3> QED
      BY <1>1, <1>2, <1>4, <2>1, <3>1 DEF Reached
  <2>2. CASE r # q
    <3>1. Reached(r)
      BY DEF Calm
    <3> QED
      BY <1>1, <1>2, <1>4, <2>2, <3>1 DEF Reached
  <2> QED
    BY <2>1, <2>2
<1> QED
  BY <1>1, <1>2, <1>3, <1>5, <1>6 DEF Calm

LEMMA InitCalm == ASSUME Undisturbed, DeliveryInit PROVE Calm
BY DEF Undisturbed, DeliveryInit, Init, NoChats, Calm, Spared, Begins, GoneForGood, Reached

LEMMA NextCalm == ASSUME IInv, RInv, Calm, [DeliveryNext]_vars PROVE Calm'
<1>1. IInv' /\ RInv'
  BY NextR
<1>2. Spared'
  BY Spends, SpentSpares DEF Calm, IInv, TypeOK, StoreTyped
<1>3. CASE StoreStep
  BY <1>2, <1>3, Barred, UserStaysCalm, QuietStaysCalm DEF StoreStep
<1>4. CASE DamageStep \/ Ends
  BY <1>4, Barred DEF DamageStep, Ends
<1>5. CASE LoadScanned \/ scan
  BY <1>1, <1>2, <1>5, LoadStaysCalm, ScanStaysCalm
<1>6. CASE FlushNow \/ FlushEndSaved \/ UNCHANGED vars
  BY <1>2, <1>6, QuietStaysCalm
<1>7. ASSUME NEW r \in Runs, JobStep(r) \/ JobDies(r) \/ RemoveFile(r) \/ StrayRemoves(r) PROVE Calm'
  BY <1>2, <1>7, Barred, JobStaysCalm, RemoveStaysCalm
<1> QED
  BY <1>3, <1>4, <1>5, <1>6, <1>7 DEF DeliveryNext

LEMMA Agree == ASSUME IInv, RInv, Calm PROVE MergedAgree
<1> SUFFICES ASSUME On, ready, ~loading, pending = "none", ~held, inbox = <<>>, NoJobWrites
             PROVE  /\ \A c \in Listed : Loaded(c) = sessions[c]
                    /\ \A r \in Runs : job[r].pc = "done" /\ job[r].chat \in Listed /\ r \notin discarded
                                          => Contains(sessions[job[r].chat], r)
  BY DEF MergedAgree
<1>1. up = "on" /\ ~Writing /\ Waits = {} /\ StoreTyped /\ Locked /\ ToSet(inbox) = {}
  BY IdleRests DEF On, IInv, TypeOK, ToSet
<1>2. ~blocked /\ damaged = {} /\ undone = {}
  BY DEF Calm
<1>3. ASSUME NEW c \in Listed PROVE Loaded(c) = sessions[c]
  <2>1. c \in Chats /\ Mem(c) = sessions[c] /\ sessions[c] \in Contents
    BY <1>1, ContentHolds
  <2>2. written[c] # None /\ sessions[c] = LoadedOf(written[c])
    BY <1>1, <1>2 DEF RInv, ChatsSaved, Clean, Marked
  <2>3. Explained(c) /\ ~Rewrites(c)
    BY <1>1, <1>2, <2>1, <2>2 DEF RInv, FilesExplained, Seen, Noted, Rewrites
  <2>4. ASSUME NEW r \in Runs, Differs(r, c) PROVE FALSE
    <3>1. job[r].pc \notin {"inbox", "dead"}
      BY <1>1, Distinct DEF NoJobWrites, Locked, Calm
    <3> QED
      BY <1>1, <2>4, <3>1 DEF Differs, Calm, GoneForGood
  <2> QED
    BY <1>1, <2>1, <2>2, <2>3, <2>4, LoadedIs DEF Explained, Agrees
<1>4. ASSUME NEW r \in Runs, job[r].pc = "done", job[r].chat \in Listed, r \notin discarded
      PROVE  Contains(sessions[job[r].chat], r)
  <2> DEFINE c == job[r].chat
  <2>1. Holds(Mem(c), r)
    BY <1>1, <1>4 DEF Calm, Reached
  <2>2. c \in Listed
    BY <1>4
  <2> HIDE DEF c
  <2>3. Mem(c) = sessions[c] /\ sessions[c] \in Contents
    BY <1>1, <2>2, ContentHolds
  <2>4. Contains(sessions[c], r)
    BY <2>1, <2>3, ContainsHolds
  <2> QED
    BY <2>4 DEF c
<1> QED
  BY <1>3, <1>4

\* While the widget stays up, no job dies and Undo is not used: with nothing left to save or to merge, memory and disk
\* agree, whichever of the widget and the jobs wrote a chat last, and every run is in its chat.
THEOREM SpecMergedAgree == Undisturbed /\ DeliverySpec => []MergedAgree
<1>1. Undisturbed /\ DeliveryInit => IInv /\ RInv /\ Calm
  BY InitInv, InitR, InitCalm
<1>2. IInv /\ RInv /\ Calm /\ [DeliveryNext]_vars => (IInv /\ RInv /\ Calm)'
  BY NextR, NextCalm
<1>3. IInv /\ RInv /\ Calm => MergedAgree
  BY Agree
<1> QED
  BY <1>1, <1>2, <1>3, PTL DEF DeliverySpec

=============================================================================
