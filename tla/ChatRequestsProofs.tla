-------------------------- MODULE ChatRequestsProofs --------------------------
(***************************************************************************)
(* ChatRequests: replies stay in their chat, Stop reaches what runs, cards *)
(* are questions that wait, and queued messages stay, for any chats, any   *)
(* number of messages and requests, and any budgets.                       *)
(***************************************************************************)
EXTENDS ChatRequests, SequenceTheorems, FiniteSetTheorems, FunctionTheorems, TLAPS

-----------------------------------------------------------------------------
(* The inductive invariant.                                                *)

Prompts == {"user", "queued"}

\* A message that may stand in the list of chat c: written for that chat, with an id given out, a prompt
\* exactly if its id is in P, and an open card only as the question that the model waits on in the open chat.
Good(s, P, c) ==
    {m \in Message :
        /\ m.chat = c /\ m.id < s.next /\ (m.role \in Prompts <=> m.id \in P)
        /\ m.role = "asked" /\ m.id \notin s.returned => s.pending # None /\ s.pending.id = m.id /\ c = s.open}

\* What Undo holds: with an open card only if it came back before, or if the chat was cleared.
Held(s, P, u) ==
    {m \in Message :
        /\ m.chat = u.chat /\ m.id < s.next /\ (m.role \in Prompts <=> m.id \in P)
        /\ m.role = "asked" /\ m.id \notin s.returned => u.kind = "clear"}

\* The chats of a widget: P are the ids of the user's own messages, which no reply and no card ever has.
Sound(s, P) ==
    /\ s \in Widget
    /\ \A i \in P : i \in Nat /\ i < s.next
    /\ s.sessions[s.open] # None
    /\ \A c \in Chats : s.sessions[c] # None => c \in s.used /\ s.sessions[c] \in Seq(Good(s, P, c))
    /\ s.messages \in Seq(Good(s, P, s.open))
    /\ s.undoable # None => /\ s.undoable.chat \in s.used
                            /\ s.undoable.messages \in Seq(Held(s, P, s.undoable))
                            /\ s.undoable.kind = "delete" => s.sessions[s.undoable.chat] = None
    /\ s.stream # None => s.stream < s.next /\ s.stream \notin P
    /\ s.pending # None => s.pending.id < s.next /\ s.pending.id \notin P

\* What runs on the network is one request, which Stop reaches; it is not there while the model waits for
\* an answer, and neither is while the current request's variant is looked up.  A reply is only written
\* by a widget that is loading, for a chat whose id was given out.
OneRequest(s) ==
    /\ s.stream # None => s.loading
    /\ s.active # None => s.active \in s.used
    /\ \A r \in s.lookups \cup s.net : r.generation <= s.generation
    /\ \A r \in s.net : s.xhr = r.generation /\ s.loading /\ s.net = {r}
    /\ s.pending # None => s.loading /\ s.net = {} /\ s.pending.request.generation <= s.generation
    /\ \A r \in s.lookups : requestIsCurrent(s, r) => s.net = {} /\ s.pending = None

\* It is the current one, and a widget that is loading has one, unless the chats were replaced meanwhile.
Live(s) ==
    ~s.cut => /\ \A r \in s.net : requestIsCurrent(s, r)
              /\ s.pending # None => requestIsCurrent(s, s.pending.request)
              /\ s.loading => s.net # {} \/ s.pending # None \/ \E r \in s.lookups : requestIsCurrent(s, r)

Running(s) == OneRequest(s) /\ Live(s)

\* The messages that wait in a list, those sent, and all that wait or were sent; those that wait in the
\* open chat are saved.
QueuedIds(list) == {list[k].id : k \in Queued(list)}
SentIds(s) == {s.sent[k].id : k \in DOMAIN s.sent}
Waits(s, id) ==
    \/ id \in QueuedIds(s.messages) \cup SentIds(s)
    \/ \E c \in Chats \ {s.open} : s.sessions[c] # None /\ id \in QueuedIds(s.sessions[c])
Backed(s) == QueuedIds(s.messages) \subseteq QueuedIds(s.sessions[s.open])

IInv ==
    /\ \E P \in SUBSET Nat : Sound(w, P)
    /\ Running(w) /\ Backed(w)
    /\ w.cut \/ \A id \in waiting : Waits(w, id)
    /\ valid \in BOOLEAN /\ waiting \subseteq Nat /\ budget \in [BudgetNames -> Nat]

-----------------------------------------------------------------------------
(* Lists of messages.                                                      *)

\* In a finite set of numbers, every rank from one to its size is taken once.
LEMMA Ranked ==
    ASSUME NEW n \in Nat, NEW S \in SUBSET (1 .. n)
    PROVE  /\ IsFiniteSet(S) /\ Cardinality(S) \in Nat
           /\ \A i \in 1 .. Cardinality(S) : \E j \in S : Cardinality({l \in S : l <= j}) = i
           /\ \A j \in S : Cardinality({l \in S : l <= j}) \in 1 .. Cardinality(S)
           /\ \A j, k \in S : Cardinality({l \in S : l <= j}) = Cardinality({l \in S : l <= k}) => j = k
<1>. DEFINE Upto(j) == {l \in S : l <= j}
            rank == [j \in S |-> Cardinality(Upto(j))]
<1>1. IsFiniteSet(1 .. n)
  BY FS_Interval
<1>2. IsFiniteSet(S) /\ Cardinality(S) \in Nat
  BY <1>1, FS_Subset, FS_CardinalityType
<1>3. ASSUME NEW j \in S PROVE IsFiniteSet(Upto(j)) /\ Cardinality(Upto(j)) \in 1 .. Cardinality(S)
  <2>1. IsFiniteSet(Upto(j)) /\ Cardinality(Upto(j)) <= Cardinality(S)
    BY <1>2, FS_Subset
  <2>2. Cardinality(Upto(j)) \in Nat /\ j \in Upto(j)
    BY <2>1, FS_CardinalityType
  <2>3. Cardinality(Upto(j)) # 0
    BY <2>1, <2>2, FS_EmptySet
  <2>. QED BY <1>2, <2>1, <2>2, <2>3
<1>4. ASSUME NEW j \in S, NEW k \in S, j < k PROVE Cardinality(Upto(j)) # Cardinality(Upto(k))
  <2>0. \A l \in S : l \in Nat
    OBVIOUS
  <2>a. j \in Nat /\ k \in Nat /\ \A l \in S : l <= j => l <= k
    BY <1>4, <2>0
  <2>b. k <= k /\ ~(k <= j)
    BY <1>4, <2>a
  <2>1. Upto(j) \subseteq Upto(k) /\ k \in Upto(k) /\ k \notin Upto(j)
    BY <2>a, <2>b, Zenon
  <2>2. Upto(k) # Upto(j) /\ Upto(j) \in SUBSET Upto(k)
    BY <2>1
  <2>. QED BY <1>3, <2>2, FS_Subset
<1>5. \A j, k \in S : Cardinality(Upto(j)) = Cardinality(Upto(k)) => j = k
  <2>1. \A j, k \in S : j < k \/ k < j \/ j = k
    OBVIOUS
  <2>. QED BY <1>4, <2>1
<1>6. rank \in Injection(S, 1 .. Cardinality(S))
  BY <1>3, <1>5 DEF Injection, IsInjective
<1>7. IsFiniteSet(1 .. Cardinality(S)) /\ Cardinality(1 .. Cardinality(S)) = Cardinality(S)
  BY <1>2, FS_Interval
<1>8. rank \in Surjection(S, 1 .. Cardinality(S))
  BY <1>6, <1>7, FS_Injection
<1>9. \A i \in 1 .. Cardinality(S) : \E j \in S : Cardinality(Upto(j)) = i
  BY <1>8 DEF Surjection
<1>. QED BY <1>2, <1>3, <1>5, <1>9

\* A set of positions in a list has a first one and a last one.
LEMMA FirstAndLast ==
    ASSUME NEW n \in Nat, NEW S \in SUBSET (1 .. n), S # {}
    PROVE  /\ \E j \in S : \A l \in S : l <= j
           /\ \E j \in S : \A l \in S : j <= l
<1>. DEFINE Upto(j) == {l \in S : l <= j}
<1>1. IsFiniteSet(S) /\ Cardinality(S) \in 1 .. Cardinality(S)
  BY Ranked, FS_EmptySet
<1>2. \A i \in 1 .. Cardinality(S) : \E j \in S : Cardinality(Upto(j)) = i
  BY Ranked
<1>3. PICK j \in S : Cardinality(Upto(j)) = Cardinality(S)
  BY <1>1, <1>2
<1>4. Upto(j) = S
  BY <1>1, <1>3, FS_Subset
<1>5. PICK k \in S : Cardinality(Upto(k)) = 1
  BY <1>1, <1>2
<1>6. PICK x : Upto(k) = {x}
  BY <1>1, <1>5, FS_Subset, FS_Singleton
<1>7. ASSUME NEW l \in S PROVE k <= l
  <2>. \A m \in S : m \in Nat
    OBVIOUS
  <2>1. k \in Upto(k) /\ (~(k <= l) => l \in Upto(k))
    OBVIOUS
  <2>. QED BY <1>6, <2>1
<1>. QED BY <1>4, <1>7

\* A message taken out of a list: the others stay, in their order.
LEMMA RemovedAt ==
    ASSUME NEW G, NEW list \in Seq(G), NEW k \in DOMAIN list
    PROVE  /\ RemoveAt(list, k) \in Seq(G)
           /\ Len(RemoveAt(list, k)) = Len(list) - 1
           /\ \A i \in 1 .. Len(list) - 1 : RemoveAt(list, k)[i] = IF i < k THEN list[i] ELSE list[i + 1]
           /\ \A j \in DOMAIN list \ {k} : \E i \in DOMAIN RemoveAt(list, k) : RemoveAt(list, k)[i] = list[j]
<1>. DEFINE rest == RemoveAt(list, k)
            head == SubSeq(list, 1, k - 1)
            tail == SubSeq(list, k + 1, Len(list))
<1>1. /\ rest \in Seq(G) /\ Len(rest) = Len(list) - 1
      /\ \A i \in 1 .. Len(list) - 1 : rest[i] = IF i < k THEN list[i] ELSE list[i + 1]
  <2>1. head \in Seq(G) /\ Len(head) = k - 1 /\ \A i \in 1 .. k - 1 : head[i] = list[i]
    OBVIOUS
  <2>2. tail \in Seq(G) /\ Len(tail) = Len(list) - k /\ \A i \in 1 .. Len(list) - k : tail[i] = list[k + i]
    OBVIOUS
  <2>3. rest = head \o tail /\ Len(list) \in Nat /\ k \in 1 .. Len(list)
    BY DEF RemoveAt
  <2>. HIDE DEF head, tail, rest
  <2>4. /\ rest \in Seq(G) /\ Len(rest) = Len(head) + Len(tail)
        /\ \A i \in 1 .. Len(head) + Len(tail) : rest[i] = IF i <= Len(head) THEN head[i] ELSE tail[i - Len(head)]
    BY <2>1, <2>2, <2>3, ConcatProperties
  <2>5. ASSUME NEW i \in 1 .. Len(list) - 1, i >= k PROVE rest[i] = list[i + 1]
    <3>1. i - (k - 1) \in 1 .. Len(list) - k /\ k + (i - (k - 1)) = i + 1
      BY <2>3, <2>5
    <3>2. Len(head) = k - 1 /\ i \in 1 .. Len(head) + Len(tail) /\ ~(i <= Len(head))
      BY <2>1, <2>2, <2>3, <2>5
    <3>3. rest[i] = tail[i - (k - 1)]
      BY <2>4, <3>2
    <3>. QED BY <2>2, <3>1, <3>3
  <2>6. ASSUME NEW i \in 1 .. Len(list) - 1, i < k PROVE rest[i] = list[i]
    <3>1. i \in 1 .. Len(head) + Len(tail) /\ i <= Len(head) /\ i \in 1 .. k - 1
      BY <2>1, <2>2, <2>3, <2>6
    <3>. QED BY <2>1, <2>4, <3>1
  <2>7. Len(rest) = Len(list) - 1 /\ \A i \in 1 .. Len(list) - 1 : i < k \/ i >= k
    BY <2>1, <2>2, <2>3, <2>4
  <2>. QED BY <2>4, <2>5, <2>6, <2>7
<1>2. ASSUME NEW j \in DOMAIN list \ {k} PROVE \E i \in DOMAIN rest : rest[i] = list[j]
  <2>1. CASE j < k
    BY <1>1, <2>1
  <2>2. CASE j > k
    <3>1. j - 1 \in 1 .. Len(list) - 1 /\ ~(j - 1 < k) /\ (j - 1) + 1 = j
      BY <2>2
    <3>2. rest[j - 1] = list[j]
      BY <1>1, <3>1
    <3>. QED BY <1>1, <3>1, <3>2
  <2>. QED BY <2>1, <2>2
<1>. QED BY <1>1, <1>2

\* A message put into a list.
LEMMA InsertedAt ==
    ASSUME NEW G, NEW list \in Seq(G), NEW at \in 1 .. Len(list) + 1, NEW m \in G
    PROVE  /\ InsertAt(list, at, m) \in Seq(G)
           /\ \A j \in DOMAIN list : \E i \in DOMAIN InsertAt(list, at, m) : InsertAt(list, at, m)[i] = list[j]
<1>. DEFINE more == InsertAt(list, at, m)
            head == SubSeq(list, 1, at - 1)
            tail == SubSeq(list, at, Len(list))
            front == head \o <<m>>
<1>1. /\ more \in Seq(G) /\ Len(more) = Len(list) + 1
      /\ \A i \in 1 .. at - 1 : more[i] = list[i]
      /\ \A i \in at + 1 .. Len(list) + 1 : more[i] = list[i - 1]
  <2>1. head \in Seq(G) /\ Len(head) = at - 1 /\ \A i \in 1 .. at - 1 : head[i] = list[i]
    OBVIOUS
  <2>2. tail \in Seq(G) /\ Len(tail) = Len(list) + 1 - at /\ \A i \in 1 .. Len(list) + 1 - at : tail[i] = list[at + i - 1]
    OBVIOUS
  <2>3. more = front \o tail /\ Len(list) \in Nat
    BY DEF InsertAt
  <2>. HIDE DEF head, tail
  <2>4. front \in Seq(G) /\ Len(front) = at /\ \A i \in 1 .. at - 1 : front[i] = list[i]
    BY <2>1
  <2>. HIDE DEF front, more
  <2>5. /\ more \in Seq(G) /\ Len(more) = Len(front) + Len(tail)
        /\ \A i \in 1 .. Len(front) + Len(tail) : more[i] = IF i <= Len(front) THEN front[i] ELSE tail[i - Len(front)]
    BY <2>2, <2>3, <2>4, ConcatProperties
  <2>6. ASSUME NEW i \in at + 1 .. Len(list) + 1 PROVE more[i] = list[i - 1]
    <3>1. i - at \in 1 .. Len(list) + 1 - at /\ at + (i - at) - 1 = i - 1
      BY <2>3
    <3>2. more[i] = tail[i - at]
      BY <2>2, <2>3, <2>4, <2>5
    <3>. QED BY <2>2, <3>1, <3>2
  <2>. QED BY <2>2, <2>3, <2>4, <2>5, <2>6
<1>2. ASSUME NEW j \in DOMAIN list PROVE \E i \in DOMAIN more : more[i] = list[j]
  <2>1. CASE j < at
    <3>1. j \in 1 .. at - 1 /\ j \in DOMAIN more
      BY <1>1, <2>1
    <3>. QED BY <1>1, <3>1
  <2>2. CASE j >= at
    <3>1. j + 1 \in at + 1 .. Len(list) + 1 /\ j + 1 \in DOMAIN more /\ (j + 1) - 1 = j
      BY <1>1, <2>2
    <3>. QED BY <1>1, <3>1
  <2>. QED BY <2>1, <2>2
<1>. QED BY <1>1, <1>2

\* A list whose messages of one id get a role.
LEMMA WithRoleTyped ==
    ASSUME NEW G, NEW H, NEW list \in Seq(G), NEW id, NEW role,
           \A m \in G : IF m.id = id THEN [m EXCEPT !.role = role] \in H ELSE m \in H
    PROVE  WithRole(list, id, role) \in Seq(H)
<1>1. \A k \in 1 .. Len(list) : list[k] \in G
  OBVIOUS
<1>2. \A k \in 1 .. Len(list) : (IF list[k].id = id THEN [list[k] EXCEPT !.role = role] ELSE list[k]) \in H
  BY <1>1
<1>3. WithRole(list, id, role) = [k \in 1 .. Len(list) |-> IF list[k].id = id THEN [list[k] EXCEPT !.role = role] ELSE list[k]]
  BY DEF WithRole
<1>. QED BY <1>2, <1>3

\* A message that waits is still in the list when others get a role.
LEMMA WithRoleQueue ==
    ASSUME NEW list \in Seq(Message), NEW id, NEW role,
           \A k \in DOMAIN list : list[k].id = id => list[k].role # "queued"
    PROVE  QueuedIds(list) \subseteq QueuedIds(WithRole(list, id, role))
<1>1. ASSUME NEW k \in Queued(list)
      PROVE  k \in Queued(WithRole(list, id, role)) /\ WithRole(list, id, role)[k] = list[k]
  BY DEF Queued, WithRole
<1>. QED BY <1>1 DEF QueuedIds

\* A message that is not queued taken out leaves the queue.
LEMMA RemoveAtQueue ==
    ASSUME NEW G, NEW list \in Seq(G), NEW k \in DOMAIN list
    PROVE  /\ \A i \in DOMAIN RemoveAt(list, k) : \E j \in DOMAIN list : RemoveAt(list, k)[i] = list[j]
           /\ QueuedIds(list) \subseteq QueuedIds(RemoveAt(list, k)) \cup {list[k].id}
           /\ list[k].role # "queued" => QueuedIds(list) \subseteq QueuedIds(RemoveAt(list, k))
<1>. DEFINE rest == RemoveAt(list, k)
<1>1. /\ rest \in Seq(G) /\ Len(rest) = Len(list) - 1
      /\ \A i \in 1 .. Len(list) - 1 : rest[i] = IF i < k THEN list[i] ELSE list[i + 1]
  BY RemovedAt
<1>2. ASSUME NEW j \in Queued(list), j # k PROVE \E i \in Queued(rest) : rest[i].id = list[j].id
  <2>1. PICK i \in DOMAIN rest : rest[i] = list[j]
    BY <1>2, RemovedAt DEF Queued
  <2>. QED BY <1>2, <2>1 DEF Queued
<1>3. ASSUME NEW i \in DOMAIN rest PROVE \E j \in DOMAIN list : rest[i] = list[j]
  BY <1>1
<1>. HIDE DEF rest
<1>4. \A id \in QueuedIds(list) : id \in QueuedIds(rest) \/ (list[k].role = "queued" /\ id = list[k].id)
  BY <1>2 DEF QueuedIds, Queued
<1>. QED BY <1>3, <1>4 DEF rest

\* A queued message that is sent stands behind the last one that is not queued.
LEMMA DequeuedTyped ==
    ASSUME NEW G, NEW list \in Seq(G), NEW k \in DOMAIN list, [list[k] EXCEPT !.role = "user"] \in G
    PROVE  /\ Dequeued(list, k) \in Seq(G)
           /\ QueuedIds(list) \subseteq QueuedIds(Dequeued(list, k)) \cup {list[k].id}
<1>. DEFINE rest == RemoveAt(list, k)
            Others == {j \in 1 .. Len(rest) : rest[j].role # "queued"}
            Behind(j) == /\ j = 0 \/ rest[j].role # "queued"
                         /\ \A i \in (j + 1) .. Len(rest) : rest[i].role = "queued"
            at == CHOOSE j \in 0 .. Len(rest) : Behind(j)
            sent == [list[k] EXCEPT !.role = "user"]
            pos == at + 1
            more == InsertAt(rest, pos, sent)
<1>1. rest \in Seq(G) /\ Len(rest) \in Nat /\ DOMAIN rest = 1 .. Len(rest)
  BY RemovedAt, LenProperties
<1>. HIDE DEF rest
<1>2. \E j \in 0 .. Len(rest) : Behind(j)
  <2>1. CASE Others = {}
    <3>1. \A i \in 1 .. Len(rest) : rest[i].role = "queued"
      BY <2>1
    <3>2. Behind(0) /\ 0 \in 0 .. Len(rest)
      BY <1>1, <3>1
    <3>. QED BY <3>2
  <2>2. CASE Others # {}
    <3>0. Others \in SUBSET (1 .. Len(rest))
      OBVIOUS
    <3>1. PICK j \in Others : \A l \in Others : l <= j
      <4>. HIDE DEF Others
      <4>. QED BY <1>1, <2>2, <3>0, FirstAndLast
    <3>2. Behind(j)
      BY <1>1, <3>1
    <3>. QED BY <1>1, <3>1, <3>2
  <2>. QED BY <2>1, <2>2
<1>3. at \in 0 .. Len(rest)
  BY <1>2
<1>. HIDE DEF at
<1>4. /\ more \in Seq(G)
      /\ \A j \in DOMAIN rest : \E i \in DOMAIN more : more[i] = rest[j]
  <2>1. pos \in 1 .. Len(rest) + 1
    BY <1>1, <1>3
  <2>2. sent \in G
    OBVIOUS
  <2>3. rest \in Seq(G)
    BY <1>1
  <2>. HIDE DEF sent, pos
  <2>. QED BY <2>1, <2>2, <2>3, InsertedAt
<1>. HIDE DEF more
<1>5. QueuedIds(rest) \subseteq QueuedIds(more)
  BY <1>4 DEF QueuedIds, Queued
<1>6. QueuedIds(list) \subseteq QueuedIds(rest) \cup {list[k].id}
  BY RemoveAtQueue DEF rest
<1>7. Dequeued(list, k) = more
  BY DEF Dequeued, more, at, rest
<1>. QED BY <1>4, <1>5, <1>6, <1>7

\* A chat that goes on from a message keeps its queue.
LEMMA RewoundTyped ==
    ASSUME NEW G, NEW list \in Seq(G), NEW k \in 0 .. Len(list)
    PROVE  /\ Rewound(list, k) \in Seq(G)
           /\ QueuedIds(list) \subseteq QueuedIds(Rewound(list, k))
<1>. DEFINE after == {j \in Queued(list) : j > k}
            Upto(j) == {l \in after : l <= j}
            nth(i) == CHOOSE j \in after : Cardinality(Upto(j)) = i
            queue == queuedAfter(list, k)
            head == SubSeq(list, 1, k)
<1>1. /\ Cardinality(after) \in Nat
      /\ \A i \in 1 .. Cardinality(after) : \E j \in after : Cardinality(Upto(j)) = i
      /\ \A j \in after : Cardinality(Upto(j)) \in 1 .. Cardinality(after)
      /\ \A i, j \in after : Cardinality(Upto(i)) = Cardinality(Upto(j)) => i = j
  <2>1. after \in SUBSET (1 .. Len(list)) /\ Len(list) \in Nat
    BY DEF Queued
  <2>. HIDE DEF after
  <2>. QED BY <2>1, Ranked
<1>2. \A i \in 1 .. Cardinality(after) : nth(i) \in after /\ Cardinality(Upto(nth(i))) = i
  BY <1>1
<1>3. queue = [i \in 1 .. Cardinality(after) |-> list[nth(i)]]
  BY DEF queuedAfter
<1>4. \A j \in after : list[j] \in G /\ list[j].role = "queued"
  BY DEF Queued
<1>. HIDE DEF after, nth, queue
<1>5. queue \in Seq(G) /\ Len(queue) = Cardinality(after)
  <2>. DEFINE n == Cardinality(after)
  <2>1. n \in Nat /\ \A i \in 1 .. n : list[nth(i)] \in G
    BY <1>1, <1>2, <1>4
  <2>2. queue = [i \in 1 .. n |-> list[nth(i)]]
    BY <1>3
  <2>. HIDE DEF n
  <2>3. queue \in [1 .. n -> G]
    BY <2>1, <2>2
  <2>4. queue \in Seq(G) /\ Len(queue) = n
    BY <2>1, <2>3
  <2>. QED BY <2>4 DEF n
<1>6. head \in Seq(G) /\ Len(head) = k /\ \A i \in 1 .. k : head[i] = list[i]
  OBVIOUS
<1>. HIDE DEF head
<1>. DEFINE all == head \o queue
<1>7. /\ all \in Seq(G) /\ Len(all) = k + Len(queue)
      /\ \A i \in 1 .. k : all[i] = list[i]
      /\ \A i \in 1 .. Len(queue) : all[k + i] = queue[i]
  BY <1>5, <1>6
<1>8. Rewound(list, k) = all
  BY DEF Rewound, head, queue
<1>. HIDE DEF all
<1>9. ASSUME NEW j \in Queued(list) PROVE \E i \in Queued(all) : all[i].id = list[j].id
  <2>1. CASE j <= k
    <3>1. j \in 1 .. k /\ j \in DOMAIN all /\ list[j].role = "queued"
      BY <1>7, <1>5, <2>1 DEF Queued
    <3>. QED BY <1>7, <3>1 DEF Queued
  <2>2. CASE j > k
    <3>1. j \in after
      BY <2>2 DEF after
    <3>. DEFINE i == Cardinality(Upto(j))
    <3>2. i \in 1 .. Cardinality(after) /\ nth(i) = j
      BY <1>1, <1>2, <3>1
    <3>. HIDE DEF i
    <3>3. i \in 1 .. Len(queue) /\ queue[i] = list[j]
      BY <1>3, <1>5, <3>2
    <3>4. k + i \in DOMAIN all /\ all[k + i] = list[j]
      BY <1>5, <1>7, <3>3
    <3>. QED BY <3>4 DEF Queued
  <2>3. j \in Nat
    BY DEF Queued
  <2>. QED BY <2>1, <2>2, <2>3
<1>. QED BY <1>7, <1>8, <1>9 DEF QueuedIds

-----------------------------------------------------------------------------
(* The helpers of the handlers: what each leaves alone, and what it keeps. *)

\* The other chats and what Undo holds are as they were, no id is taken back.
SameBook(s, t) ==
    t.open = s.open /\ t.used = s.used /\ t.undoable = s.undoable /\ t.returned = s.returned /\ t.cut = s.cut

SameChats(s, t) ==
    /\ SameBook(s, t)
    /\ s.next <= t.next
    /\ \A c \in Chats \ {s.open} : t.sessions[c] = s.sessions[c]

SameRequests(s, t) ==
    /\ t.loading = s.loading /\ t.generation = s.generation /\ t.active = s.active /\ t.xhr = s.xhr
    /\ t.pending = s.pending /\ t.lookups = s.lookups /\ t.net = s.net /\ t.stream \in {s.stream, None}

\* A message that waits still does or was sent.
KeepsQueue(s, t) ==
    /\ QueuedIds(s.messages) \subseteq QueuedIds(t.messages) \cup SentIds(t)
    /\ SentIds(s) \subseteq SentIds(t)
    /\ Backed(s) => Backed(t)

Edited(s, t, P) == Sound(t, P) /\ SameChats(s, t) /\ SameRequests(s, t) /\ KeepsQueue(s, t)

\* A state ready for the next request, and one in which it may have begun.
Ready(s) == OneRequest(s) /\ ~s.loading /\ s.net = {} /\ s.pending = None
Rested(s, t, P) == Sound(t, P) /\ SameChats(s, t) /\ KeepsQueue(s, t) /\ Ready(t)
Onward(s, t, P) == Sound(t, P) /\ SameChats(s, t) /\ KeepsQueue(s, t) /\ Running(t)

\* null is no value of another type.
LEMMA NoneApart ==
    /\ None \notin Chats /\ None \notin Nat /\ None \notin MessageList
    /\ None \notin Question /\ None \notin Edit /\ None \notin Undoable
BY RequestsAssumption, NoneAssumption

\* What may stand in a chat, and what Undo holds, may still when no more is asked of it.
LEMMA SoundEdit ==
    ASSUME NEW P, NEW s, Sound(s, P), NEW Q, NEW t \in Widget, SameChats(s, t),
           \A i \in Q : i \in Nat /\ i < t.next,
           \A i \in Nat : i < s.next => (i \in P <=> i \in Q),
           t.sessions[t.open] \in Seq(Good(t, Q, t.open)), t.sessions[t.open] # None,
           t.messages \in Seq(Good(t, Q, t.open)),
           t.stream # None => t.stream < t.next /\ t.stream \notin Q,
           t.pending # None => t.pending.id < t.next /\ t.pending.id \notin Q
    PROVE  Sound(t, Q)
<1>1. s.next \in Nat /\ t.next \in Nat /\ s.next <= t.next
  BY DEF Sound, SameChats, Widget
<1>2. \A c \in Chats \ {s.open} : Good(s, P, c) \subseteq Good(t, Q, c)
  BY <1>1 DEF Good, SameChats, SameBook, Message
<1>3. \A u : Held(s, P, u) \subseteq Held(t, Q, u)
  BY <1>1 DEF Held, SameChats, SameBook, Message
<1>4. ASSUME NEW c \in Chats, t.sessions[c] # None
      PROVE  c \in t.used /\ t.sessions[c] \in Seq(Good(t, Q, c))
  <2>1. CASE c = s.open
    BY <2>1 DEF Sound, SameChats, SameBook
  <2>2. CASE c # s.open
    <3>1. t.sessions[c] = s.sessions[c] /\ s.sessions[c] # None
      BY <1>4, <2>2 DEF SameChats
    <3>2. c \in t.used /\ s.sessions[c] \in Seq(Good(s, P, c))
      BY <3>1 DEF Sound, SameChats, SameBook
    <3>. QED BY <1>2, <2>2, <3>1, <3>2, SeqMonotonic
  <2>. QED BY <2>1, <2>2
<1>5. ASSUME t.undoable # None
      PROVE  /\ t.undoable.chat \in t.used
             /\ t.undoable.messages \in Seq(Held(t, Q, t.undoable))
             /\ t.undoable.kind = "delete" => t.sessions[t.undoable.chat] = None
  <2>. DEFINE u == s.undoable
  <2>1. /\ t.undoable = u /\ u.chat \in t.used /\ u.messages \in Seq(Held(s, P, u))
        /\ u.kind = "delete" => s.sessions[u.chat] = None
    BY <1>5 DEF Sound, SameChats, SameBook
  <2>2. u.chat \in Chats
    BY <2>1 DEF Sound, SameChats, SameBook, Widget
  <2>3. u.kind = "delete" => t.sessions[u.chat] = None
    BY <2>1, <2>2 DEF Sound, SameChats, SameBook
  <2>4. u.messages \in Seq(Held(t, Q, u))
    BY <1>3, <2>1, SeqMonotonic
  <2>. QED BY <2>1, <2>3, <2>4
<1>. QED BY <1>4, <1>5 DEF Sound

\* What two steps leave alone and keep, both together do.
LEMMA KeptTwice ==
    ASSUME NEW s \in Widget, NEW t \in Widget, NEW u \in Widget, SameChats(s, t), SameChats(t, u),
           KeepsQueue(s, t), KeepsQueue(t, u)
    PROVE  SameChats(s, u) /\ KeepsQueue(s, u)
<1>1. s.next \in Nat /\ t.next \in Nat /\ u.next \in Nat
  BY DEF Widget
<1>2. SameChats(s, u)
  BY <1>1 DEF SameChats, SameBook
<1>3. KeepsQueue(s, u)
  BY DEF KeepsQueue
<1>. QED BY <1>2, <1>3

\* Two edits are one.
LEMMA EditedTwice ==
    ASSUME NEW P, NEW Q, NEW s, NEW t, NEW u, Sound(s, P), Edited(s, t, Q), Edited(t, u, Q)
    PROVE  Edited(s, u, Q)
<1>1. s \in Widget /\ t \in Widget /\ u \in Widget
  BY DEF Edited, Sound
<1>2. SameChats(s, u) /\ KeepsQueue(s, u)
  BY <1>1, KeptTwice DEF Edited
<1>3. SameRequests(s, u)
  BY DEF Edited, SameRequests
<1>. QED BY <1>2, <1>3 DEF Edited

\* The open chat gets other messages, and loses none that waits.
LEMMA MessagesEdited ==
    ASSUME NEW P, NEW s, Sound(s, P), NEW t \in Widget, SameBook(s, t), SameRequests(s, t),
           t.messages \in Seq(Good(s, P, s.open)), t.sessions = s.sessions, t.next = s.next
    PROVE  /\ Sound(t, P) /\ SameChats(s, t)
           /\ t.sent = s.sent /\ QueuedIds(s.messages) = QueuedIds(t.messages) => KeepsQueue(s, t)
<1>1. SameChats(s, t) /\ s.next \in Nat /\ s.open \in Chats
  BY DEF Sound, Widget, SameChats
<1>2. Good(t, P, t.open) = Good(s, P, s.open)
  BY DEF Good, SameBook, SameRequests
<1>3. t.sessions[t.open] \in Seq(Good(t, P, t.open)) /\ t.sessions[t.open] # None
  BY <1>1, <1>2 DEF Sound, SameBook
<1>4. /\ t.stream # None => t.stream < t.next /\ t.stream \notin P
      /\ \A i \in P : i \in Nat /\ i < t.next
      /\ t.pending # None => t.pending.id < t.next /\ t.pending.id \notin P
  BY DEF Sound, SameRequests
<1>5. Sound(t, P)
  BY <1>1, <1>2, <1>3, <1>4, SoundEdit
<1>6. t.sent = s.sent /\ QueuedIds(s.messages) = QueuedIds(t.messages) => KeepsQueue(s, t)
  BY DEF KeepsQueue, Backed, SentIds, SameBook
<1>. QED BY <1>1, <1>5, <1>6

\* Saving the open chat's messages.
LEMMA Saved ==
    ASSUME NEW P, NEW s, Sound(s, P)
    PROVE  LET t == saveCurrentSessionState(s) IN
           /\ Sound(t, P) /\ SameChats(s, t) /\ SameRequests(s, t) /\ KeepsQueue(s, t)
           /\ t.messages = s.messages /\ t.sent = s.sent /\ t.stream = s.stream /\ Backed(t)
<1>. DEFINE t == saveCurrentSessionState(s)
<1>1. s \in Widget /\ s.messages \in MessageList /\ s.open \in Chats /\ s.sessions \in [Chats -> MessageList \cup {None}]
  BY DEF Sound, Widget
<1>2. t = [s EXCEPT !.sessions = [s.sessions EXCEPT ![s.open] = s.messages]]
  BY <1>1 DEF Sound, saveCurrentSessionState
<1>3. [s.sessions EXCEPT ![s.open] = s.messages] \in [Chats -> MessageList \cup {None}]
  BY <1>1
<1>4. t \in Widget
  BY <1>1, <1>2, <1>3 DEF Widget
<1>5. /\ t.messages = s.messages /\ t.sent = s.sent /\ t.next = s.next /\ t.stream = s.stream
      /\ t.open = s.open /\ t.used = s.used /\ t.undoable = s.undoable /\ t.returned = s.returned /\ t.cut = s.cut
      /\ t.pending = s.pending /\ t.sessions = [s.sessions EXCEPT ![s.open] = s.messages]
  BY <1>1, <1>2 DEF Widget
<1>6. SameRequests(s, t)
  BY <1>1, <1>2 DEF Widget, SameRequests
<1>. HIDE DEF t
<1>7. t.sessions[t.open] = s.messages /\ \A c \in Chats \ {s.open} : t.sessions[c] = s.sessions[c]
  BY <1>1, <1>5
<1>8. SameChats(s, t) /\ s.next \in Nat
  BY <1>1, <1>5, <1>7 DEF Widget, SameChats, SameBook
<1>9. Good(t, P, t.open) = Good(s, P, s.open)
  BY <1>5 DEF Good
<1>10. Sound(t, P)
  <2>1. t.sessions[t.open] \in Seq(Good(t, P, t.open)) /\ t.messages \in Seq(Good(t, P, t.open))
    BY <1>5, <1>7, <1>9 DEF Sound
  <2>2. t.sessions[t.open] # None
    BY <1>1, <1>7, NoneApart
  <2>3. t.stream # None => t.stream < t.next /\ t.stream \notin P
    BY <1>5 DEF Sound
  <2>4. \A i \in P : i \in Nat /\ i < t.next
    BY <1>5 DEF Sound
  <2>5. t.pending # None => t.pending.id < t.next /\ t.pending.id \notin P
    BY <1>5 DEF Sound
  <2>. QED BY <1>4, <1>5, <1>8, <2>1, <2>2, <2>3, <2>4, <2>5, SoundEdit
<1>11. KeepsQueue(s, t) /\ Backed(t)
  BY <1>5, <1>7 DEF KeepsQueue, Backed, SentIds
<1>. QED BY <1>5, <1>6, <1>8, <1>10, <1>11 DEF t

\* Only what a request is at changes.
LEMMA RequestEdited ==
    ASSUME NEW P, NEW s, Sound(s, P), NEW t \in Widget,
           t.messages = s.messages, t.sessions = s.sessions, t.sent = s.sent, t.next = s.next,
           t.open = s.open, t.used = s.used, t.undoable = s.undoable, t.returned = s.returned, t.cut = s.cut,
           t.pending = s.pending, t.stream \in {s.stream, None}
    PROVE  Sound(t, P) /\ SameChats(s, t) /\ KeepsQueue(s, t)
<1>1. s.next \in Nat /\ s.open \in Chats
  BY DEF Sound, Widget
<1>2. SameChats(s, t) /\ KeepsQueue(s, t)
  BY <1>1 DEF SameChats, SameBook, KeepsQueue, Backed, SentIds
<1>3. \A c : Good(t, P, c) = Good(s, P, c)
  BY DEF Good
<1>4. t.sessions[t.open] \in Seq(Good(t, P, t.open)) /\ t.sessions[t.open] # None /\ t.messages \in Seq(Good(t, P, t.open))
  BY <1>1, <1>3 DEF Sound
<1>5. /\ \A i \in P : i \in Nat /\ i < t.next
      /\ t.stream # None => t.stream < t.next /\ t.stream \notin P
      /\ t.pending # None => t.pending.id < t.next /\ t.pending.id \notin P
  BY DEF Sound
<1>6. Sound(t, P)
  BY <1>2, <1>4, <1>5, SoundEdit
<1>. QED BY <1>2, <1>6

\* A message is written at the end of the open chat, by the user or (as the reply that is streamed, or
\* not) by the widget.
LEMMA Added ==
    ASSUME NEW P, NEW s, Sound(s, P), NEW role \in Roles \ {"asked"},
           NEW t \in Widget, SameBook(s, t), t.pending = s.pending, t.sent = s.sent, t.sessions = s.sessions,
           t.messages = Append(s.messages, [id |-> s.next, role |-> role, chat |-> s.open]), t.next = s.next + 1,
           t.stream \in {s.stream, s.next}, role \in Prompts => t.stream = s.stream
    PROVE  /\ Sound(t, IF role \in Prompts THEN P \cup {s.next} ELSE P) /\ SameChats(s, t)
           /\ QueuedIds(s.messages) \subseteq QueuedIds(t.messages)
           /\ role = "queued" => s.next \in QueuedIds(t.messages)
           /\ role # "queued" => KeepsQueue(s, t)
<1>. DEFINE m == [id |-> s.next, role |-> role, chat |-> s.open]
            Q == IF role \in Prompts THEN P \cup {s.next} ELSE P
<1>1. /\ s.next \in Nat /\ s.open \in Chats /\ s.messages \in Seq(Good(s, P, s.open))
      /\ \A i \in P : i \in Nat /\ i < s.next
  BY DEF Sound, Widget
<1>2. m \in Message /\ m.id = s.next /\ m.role = role /\ m.chat = s.open
  BY <1>1 DEF Message
<1>3. t.messages = Append(s.messages, m)
  OBVIOUS
<1>4. /\ \A i \in Q : i \in Nat /\ i < t.next
      /\ \A i \in Nat : i < s.next => (i \in P <=> i \in Q)
      /\ s.next \in Q <=> role \in Prompts
  BY <1>1
<1>. HIDE DEF m, Q
<1>5. SameChats(s, t) /\ t.open = s.open
  BY <1>1 DEF SameChats, SameBook
<1>6. m \in Good(t, Q, t.open)
  BY <1>1, <1>2, <1>4, <1>5 DEF Good
<1>7. Good(s, P, s.open) \subseteq Good(t, Q, t.open)
  BY <1>1, <1>4 DEF Good, Message, SameBook
<1>8. s.messages \in Seq(Good(t, Q, t.open))
  BY <1>1, <1>7, SeqMonotonic
<1>9. t.messages \in Seq(Good(t, Q, t.open))
  BY <1>3, <1>6, <1>8
<1>10. t.sessions[t.open] \in Seq(Good(t, Q, t.open)) /\ t.sessions[t.open] # None
  <2>1. s.sessions[s.open] \in Seq(Good(s, P, s.open)) /\ s.sessions[s.open] # None
    BY <1>1 DEF Sound
  <2>2. s.sessions[s.open] \in Seq(Good(t, Q, t.open))
    BY <1>7, <2>1, SeqMonotonic
  <2>. QED BY <1>5, <2>1, <2>2
<1>11. t.stream # None => t.stream < t.next /\ t.stream \notin Q
  <2>1. s.stream # None => s.stream \in Nat /\ s.stream < s.next /\ s.stream \notin P
    BY DEF Sound, Widget
  <2>. QED BY <1>1, <1>4, <2>1
<1>12. t.pending # None => t.pending.id < t.next /\ t.pending.id \notin Q
  <2>1. s.pending # None => s.pending.id \in Nat /\ s.pending.id < s.next /\ s.pending.id \notin P
    BY DEF Sound, Widget, Question
  <2>. QED BY <1>1, <1>4, <2>1
<1>13. Sound(t, Q)
  BY <1>4, <1>5, <1>9, <1>10, <1>11, <1>12, SoundEdit
<1>14. DOMAIN s.messages = 1 .. Len(s.messages) /\ Len(s.messages) \in Nat
  BY <1>8, LenProperties
<1>15. /\ \A k \in DOMAIN s.messages : t.messages[k] = s.messages[k]
       /\ DOMAIN t.messages = DOMAIN s.messages \cup {Len(s.messages) + 1}
       /\ t.messages[Len(s.messages) + 1] = m
  BY <1>3, <1>8, <1>14
<1>16. Queued(s.messages) \subseteq Queued(t.messages)
  BY <1>15 DEF Queued
<1>17. QueuedIds(s.messages) \subseteq QueuedIds(t.messages)
  BY <1>15, <1>16 DEF QueuedIds, Queued
<1>18. role = "queued" => s.next \in QueuedIds(t.messages)
  BY <1>2, <1>15 DEF QueuedIds, Queued
<1>19. role # "queued" => QueuedIds(t.messages) = QueuedIds(s.messages)
  <2>1. role # "queued" => Queued(t.messages) = Queued(s.messages)
    BY <1>2, <1>14, <1>15 DEF Queued
  <2>. QED BY <1>15, <2>1 DEF QueuedIds, Queued
<1>20. role # "queued" => KeepsQueue(s, t)
  BY <1>19 DEF KeepsQueue, Backed, SentIds, SameBook
<1>. QED BY <1>5, <1>13, <1>17, <1>18, <1>20 DEF Q

\* A message that is not the user's gets a role that is not.
LEMMA RoleGiven ==
    ASSUME NEW P, NEW s, Sound(s, P), NEW id, id \notin P, NEW role \in Roles \ (Prompts \cup {"asked"})
    PROVE  /\ WithRole(s.messages, id, role) \in Seq(Good(s, P, s.open))
           /\ QueuedIds(WithRole(s.messages, id, role)) = QueuedIds(s.messages)
<1>. DEFINE list == WithRole(s.messages, id, role)
            G == Good(s, P, s.open)
<1>1. s.messages \in Seq(G)
  BY DEF Sound
<1>2. \A m \in G : IF m.id = id THEN [m EXCEPT !.role = role] \in G ELSE m \in G
  BY DEF Good, Message, Prompts
<1>3. list \in Seq(G)
  <2>. HIDE DEF G, list
  <2>. QED BY <1>1, <1>2, WithRoleTyped DEF list
<1>4. QueuedIds(list) = QueuedIds(s.messages)
  <2>1. \A k \in DOMAIN s.messages : s.messages[k].id = id => s.messages[k].role # "queued"
    BY <1>1 DEF Good, Prompts
  <2>2. \A k \in DOMAIN s.messages : k \in Queued(s.messages) => list[k] = s.messages[k]
    BY <2>1 DEF WithRole, Queued
  <2>3. DOMAIN list = DOMAIN s.messages
    BY DEF WithRole
  <2>4. \A k \in DOMAIN s.messages : s.messages[k].id = id => list[k].role # "queued"
    BY <1>1 DEF WithRole, Good, Message, Prompts
  <2>5. \A k \in DOMAIN s.messages : s.messages[k].id # id => list[k] = s.messages[k]
    BY DEF WithRole
  <2>. HIDE DEF list
  <2>6. Queued(list) = Queued(s.messages)
    BY <2>1, <2>2, <2>3, <2>4, <2>5 DEF Queued
  <2>. QED BY <2>2, <2>6 DEF QueuedIds, Queued
<1>. QED BY <1>3, <1>4

\* The open chat's messages are replaced, or there is no reply in them any more.
LEMMA SetKept ==
    ASSUME NEW P, NEW s, Sound(s, P), NEW list \in Seq(Good(s, P, s.open))
    PROVE  LET t == SetMessages(s, list) IN
           /\ Sound(t, P) /\ SameChats(s, t) /\ SameRequests(s, t)
           /\ t.messages = list /\ t.sent = s.sent /\ t.sessions = s.sessions /\ t.editing = s.editing
           /\ QueuedIds(s.messages) = QueuedIds(list) => KeepsQueue(s, t)
<1>. DEFINE t == SetMessages(s, list)
<1>1. s \in Widget /\ list \in MessageList
  BY SeqMonotonic DEF Sound, Good, MessageList
<1>2. PICK stream \in {s.stream, None} : t = [s EXCEPT !.messages = list, !.stream = stream]
  BY DEF SetMessages
<1>3. t \in Widget
  BY <1>1, <1>2 DEF Widget
<1>4. /\ t.messages = list /\ t.sent = s.sent /\ t.sessions = s.sessions /\ t.next = s.next /\ t.editing = s.editing
      /\ SameBook(s, t) /\ SameRequests(s, t)
  BY <1>1, <1>2 DEF Widget, SameBook, SameRequests
<1>. HIDE DEF t
<1>. QED BY <1>3, <1>4, MessagesEdited DEF t

\* The open chat's messages are replaced by ones that keep the queue, and saved.
LEMMA Replaced ==
    ASSUME NEW P, NEW s, Sound(s, P), NEW list \in Seq(Good(s, P, s.open)),
           QueuedIds(s.messages) \subseteq QueuedIds(list)
    PROVE  LET t == saveCurrentSessionState(SetMessages(s, list)) IN
           /\ Sound(t, P) /\ SameChats(s, t) /\ SameRequests(s, t) /\ KeepsQueue(s, t)
           /\ t.messages = list
<1>. DEFINE u == SetMessages(s, list)
            t == saveCurrentSessionState(u)
<1>1. /\ Sound(u, P) /\ SameChats(s, u) /\ SameRequests(s, u)
      /\ u.messages = list /\ u.sent = s.sent /\ u.sessions = s.sessions
  BY SetKept
<1>. HIDE DEF u
<1>2. /\ Sound(t, P) /\ SameChats(u, t) /\ SameRequests(u, t) /\ KeepsQueue(u, t)
      /\ t.messages = u.messages /\ t.sent = u.sent /\ Backed(t)
  BY <1>1, Saved
<1>. HIDE DEF t
<1>3. s.next \in Nat /\ u.next \in Nat /\ t.next \in Nat
  BY <1>1, <1>2 DEF Sound, Widget
<1>4. SameChats(s, t) /\ SameRequests(s, t)
  BY <1>1, <1>2, <1>3 DEF SameChats, SameBook, SameRequests
<1>5. KeepsQueue(s, t)
  BY <1>1, <1>2 DEF KeepsQueue, SentIds
<1>. QED BY <1>1, <1>2, <1>4, <1>5 DEF t, u

\* An error is written into the open chat and saved.
LEMMA ErrorPushed ==
    ASSUME NEW P, NEW s, Sound(s, P)
    PROVE  Edited(s, pushErrorMessage(s, s.open), P)
<1>. DEFINE u == AddMessage(s, "error", s.open)
            m == [id |-> s.next, role |-> "error", chat |-> s.open]
<1>1. s \in Widget /\ s.messages \in Seq(Good(s, P, s.open)) /\ s.next \in Nat /\ s.open \in Chats
  BY DEF Sound, Widget
<1>2. m \in Message /\ Append(s.messages, m) \in MessageList
  <2>1. Good(s, P, s.open) \subseteq Message /\ m \in Message
    BY <1>1 DEF Good, Message, Roles
  <2>2. s.messages \in Seq(Message)
    BY <1>1, <2>1, SeqMonotonic
  <2>. QED BY <2>1, <2>2 DEF MessageList
<1>3. u = [s EXCEPT !.messages = Append(s.messages, m), !.next = s.next + 1]
  BY DEF AddMessage
<1>. HIDE DEF m, u
<1>4. u \in Widget
  <2>1. PICK list \in MessageList : list = Append(s.messages, m)
    BY <1>2
  <2>2. PICK next \in Nat : next = s.next + 1
    BY <1>1
  <2>3. u = [s EXCEPT !.messages = list, !.next = next]
    BY <1>3, <2>1, <2>2
  <2>. QED BY <1>1, <2>3 DEF Widget
<1>5. /\ SameBook(s, u) /\ SameRequests(s, u) /\ u.sent = s.sent /\ u.sessions = s.sessions
      /\ u.messages = Append(s.messages, m) /\ u.next = s.next + 1 /\ u.stream = s.stream
  BY <1>1, <1>3 DEF Widget, SameBook, SameRequests
<1>6. "error" \in Roles \ {"asked"} /\ "error" \notin Prompts
  BY DEF Roles, Prompts
<1>7. Sound(u, P) /\ SameChats(s, u) /\ KeepsQueue(s, u)
  BY <1>4, <1>5, <1>6, Added DEF m, SameRequests
<1>8. pushErrorMessage(s, s.open) = saveCurrentSessionState(u)
  BY DEF pushErrorMessage, u
<1>9. Edited(s, u, P) /\ Edited(u, saveCurrentSessionState(u), P)
  BY <1>5, <1>7, Saved DEF Edited
<1>. QED BY <1>8, <1>9, EditedTwice

\* The reply that has no text yet is dropped.
LEMMA ResetKept ==
    ASSUME NEW P, NEW s, Sound(s, P)
    PROVE  LET t == resetProviderStreamingState(s) IN
           /\ Edited(s, t, P) /\ t.stream = None
           /\ Len(t.messages) >= Len(s.messages) - 1
           /\ s.stream = None => t.messages = s.messages
<1>. DEFINE t == resetProviderStreamingState(s)
            cards == {k \in DOMAIN s.messages : s.messages[k].id = s.stream /\ s.messages[k].role = "card"}
            G == Good(s, P, s.open)
            list == IF cards = {} THEN s.messages ELSE RemoveAt(s.messages, CHOOSE k \in cards : TRUE)
<1>1. s \in Widget /\ s.messages \in Seq(G) /\ Len(s.messages) \in Nat
  BY DEF Sound
<1>2. /\ list \in Seq(G) /\ Len(list) >= Len(s.messages) - 1
      /\ QueuedIds(list) = QueuedIds(s.messages)
  <2>1. CASE cards = {}
    BY <1>1, <2>1
  <2>2. CASE cards # {}
    <3>1. PICK k \in DOMAIN s.messages : s.messages[k].role = "card" /\ list = RemoveAt(s.messages, k)
      BY <2>2
    <3>. HIDE DEF list, G, cards
    <3>2. list \in Seq(G) /\ Len(list) = Len(s.messages) - 1
      BY <1>1, <3>1, RemovedAt
    <3>3. /\ \A i \in DOMAIN list : \E j \in DOMAIN s.messages : list[i] = s.messages[j]
          /\ QueuedIds(s.messages) \subseteq QueuedIds(list)
      BY <1>1, <3>1, RemoveAtQueue
    <3>4. QueuedIds(list) \subseteq QueuedIds(s.messages)
      BY <3>3 DEF QueuedIds, Queued
    <3>. QED BY <1>1, <3>2, <3>3, <3>4
  <2>. QED BY <2>1, <2>2
<1>3. s.stream = None => list = s.messages
  <2>1. \A k \in DOMAIN s.messages : s.messages[k].id \in Nat
    BY <1>1 DEF Good, Message
  <2>2. s.stream = None => cards = {}
    BY <2>1, NoneApart
  <2>. QED BY <2>2
<1>4. t = [s EXCEPT !.messages = list, !.stream = None]
  BY DEF resetProviderStreamingState
<1>5. list \in MessageList
  BY <1>2, SeqMonotonic DEF Good, MessageList
<1>. HIDE DEF list, t
<1>6. t \in Widget
  BY <1>1, <1>4, <1>5 DEF Widget
<1>7. /\ t.messages = list /\ t.sent = s.sent /\ t.sessions = s.sessions /\ t.next = s.next /\ t.stream = None
      /\ SameBook(s, t) /\ SameRequests(s, t)
  BY <1>1, <1>4 DEF Widget, SameBook, SameRequests
<1>8. Sound(t, P) /\ SameChats(s, t) /\ KeepsQueue(s, t)
  BY <1>2, <1>6, <1>7, MessagesEdited
<1>. QED BY <1>2, <1>3, <1>7, <1>8 DEF Edited, t

\* The question is over: its card is closed and saved.
LEMMA QuestionOver ==
    ASSUME NEW P, NEW s, Sound(s, P), s.pending # None
    PROVE  LET t == saveCurrentSessionState([s EXCEPT !.pending = None,
                                                     !.messages = WithRole(s.messages, s.pending.id, "answered")]) IN
           /\ Sound(t, P) /\ SameChats(s, t) /\ KeepsQueue(s, t) /\ Backed(t)
           /\ t.pending = None /\ Len(t.messages) = Len(s.messages)
           /\ t.loading = s.loading /\ t.generation = s.generation /\ t.active = s.active /\ t.xhr = s.xhr
           /\ t.lookups = s.lookups /\ t.net = s.net /\ t.stream = s.stream
<1>. DEFINE list == WithRole(s.messages, s.pending.id, "answered")
            u == [s EXCEPT !.pending = None, !.messages = list]
            t == saveCurrentSessionState(u)
            p == s.pending
<1>1. /\ s \in Widget /\ s.open \in Chats /\ s.sessions \in [Chats -> MessageList \cup {None}]
      /\ s.sessions[s.open] # None /\ s.messages \in Seq(Good(s, P, s.open))
      /\ p.id \in Nat /\ p.id \notin P
  BY DEF Sound, Widget, Question
<1>2. "answered" \in Roles \ (Prompts \cup {"asked"})
  BY DEF Roles, Prompts
<1>3. list \in Seq(Good(s, P, s.open)) /\ QueuedIds(list) = QueuedIds(s.messages)
  BY <1>1, <1>2, RoleGiven
<1>4. Len(list) = Len(s.messages)
  BY <1>1 DEF WithRole
<1>5. \A k \in DOMAIN list : list[k].role = "asked" => list[k].id # p.id
  BY <1>1 DEF WithRole, Good, Message
<1>. HIDE DEF list
<1>6. list \in MessageList
  BY <1>3, SeqMonotonic DEF Good, MessageList
<1>7. u.sessions = s.sessions /\ u.open = s.open /\ u.messages = list
  BY <1>1 DEF Widget
<1>8. t = [s EXCEPT !.pending = None, !.messages = list, !.sessions = [s.sessions EXCEPT ![s.open] = list]]
  BY <1>1, <1>7 DEF saveCurrentSessionState, Widget
<1>9. [s.sessions EXCEPT ![s.open] = list] \in [Chats -> MessageList \cup {None}]
  BY <1>1, <1>6
<1>. HIDE DEF t
<1>10. t \in Widget
  BY <1>1, <1>6, <1>8, <1>9 DEF Widget
<1>11. /\ t.messages = list /\ t.sent = s.sent /\ t.next = s.next /\ t.stream = s.stream
       /\ t.open = s.open /\ t.used = s.used /\ t.undoable = s.undoable /\ t.returned = s.returned /\ t.cut = s.cut
       /\ t.pending = None /\ t.sessions = [s.sessions EXCEPT ![s.open] = list]
       /\ t.loading = s.loading /\ t.generation = s.generation /\ t.active = s.active /\ t.xhr = s.xhr
       /\ t.lookups = s.lookups /\ t.net = s.net
  BY <1>1, <1>8 DEF Widget
<1>12. t.sessions[t.open] = list /\ \A c \in Chats \ {s.open} : t.sessions[c] = s.sessions[c]
  BY <1>1, <1>11
<1>13. SameChats(s, t)
  BY <1>1, <1>11, <1>12 DEF Widget, SameChats, SameBook
<1>14. list \in Seq(Good(t, P, t.open))
  <2>1. \A k \in 1 .. Len(list) : list[k] \in Good(s, P, s.open)
    BY <1>3
  <2>2. \A k \in 1 .. Len(list) : list[k] \in Good(t, P, t.open)
    BY <1>3, <1>5, <1>11, <2>1 DEF Good
  <2>. QED BY <1>3, <2>2
<1>15. Sound(t, P)
  <2>1. t.sessions[t.open] # None
    BY <1>6, <1>12, NoneApart
  <2>2. t.stream # None => t.stream < t.next /\ t.stream \notin P
    BY <1>11 DEF Sound
  <2>3. \A i \in P : i \in Nat /\ i < t.next
    BY <1>11 DEF Sound
  <2>. QED BY <1>10, <1>11, <1>12, <1>13, <1>14, <2>1, <2>2, <2>3, SoundEdit
<1>16. KeepsQueue(s, t) /\ Backed(t)
  BY <1>3, <1>11, <1>12 DEF KeepsQueue, Backed, SentIds
<1>. QED BY <1>4, <1>11, <1>13, <1>15, <1>16 DEF t, list

\* Giving up a request leaves none.
LEMMA Invalidated ==
    ASSUME NEW P, NEW s, Sound(s, P), OneRequest(s)
    PROVE  LET t == invalidateActiveRequest(s) IN
           /\ Rested(s, t, P)
           /\ Len(t.messages) >= Len(s.messages) - 1
           /\ s.stream = None => Len(t.messages) = Len(s.messages)
<1>. DEFINE a == cancelPending(s)
            b == AbortXhr([a EXCEPT !.generation = @ + 1, !.active = None])
            c == resetProviderStreamingState(b)
            t == [c EXCEPT !.loading = FALSE]
<1>1. /\ Sound(a, P) /\ SameChats(s, a) /\ KeepsQueue(s, a)
      /\ a.pending = None /\ Len(a.messages) = Len(s.messages)
      /\ a.loading = s.loading /\ a.generation = s.generation /\ a.active = s.active /\ a.xhr = s.xhr
      /\ a.lookups = s.lookups /\ a.net = s.net /\ a.stream = s.stream
  <2>1. CASE s.pending = None
    <3>1. a = s /\ s.next \in Nat
      BY <2>1 DEF cancelPending, Sound, Widget
    <3>2. SameChats(s, s) /\ KeepsQueue(s, s)
      BY <3>1 DEF SameChats, SameBook, KeepsQueue
    <3>. QED BY <2>1, <3>1, <3>2
  <2>2. CASE s.pending # None
    BY <2>2, QuestionOver DEF cancelPending
  <2>. QED BY <2>1, <2>2
<1>. HIDE DEF a
<1>2. a \in Widget /\ a.generation \in Nat /\ a.open \in Chats
  BY <1>1 DEF Sound, Widget
<1>3. a.net \subseteq {r \in Request : r.generation = a.xhr} /\ \A r \in a.lookups : r.generation <= a.generation
  BY <1>1, <1>2 DEF OneRequest, Widget
<1>4. b = [a EXCEPT !.generation = a.generation + 1, !.active = None, !.net = {}, !.xhr = None]
  <2>1. PICK g \in Nat : g = a.generation + 1
    BY <1>2
  <2>2. b = [a EXCEPT !.generation = g, !.active = None, !.net = {r \in a.net : r.generation # a.xhr}, !.xhr = None]
    BY <1>2, <2>1 DEF AbortXhr, Widget
  <2>3. {r \in a.net : r.generation # a.xhr} = {}
    BY <1>3
  <2>. QED BY <2>1, <2>2, <2>3
<1>. HIDE DEF b
<1>5. PICK g \in Nat : g = a.generation + 1
  BY <1>2
<1>6. b = [a EXCEPT !.generation = g, !.active = None, !.net = {}, !.xhr = None]
  BY <1>4, <1>5
<1>7. b \in Widget
  BY <1>2, <1>6 DEF Widget
<1>8. /\ b.messages = a.messages /\ b.sessions = a.sessions /\ b.sent = a.sent /\ b.next = a.next
      /\ b.open = a.open /\ b.used = a.used /\ b.undoable = a.undoable /\ b.returned = a.returned /\ b.cut = a.cut
      /\ b.pending = a.pending /\ b.stream = a.stream
      /\ b.generation = g /\ b.active = None /\ b.net = {} /\ b.xhr = None /\ b.lookups = a.lookups
  BY <1>2, <1>6 DEF Widget
<1>9. Sound(b, P) /\ SameChats(a, b) /\ KeepsQueue(a, b)
  BY <1>1, <1>7, <1>8, RequestEdited
<1>10. /\ Edited(b, c, P) /\ c.stream = None
       /\ Len(c.messages) >= Len(b.messages) - 1
       /\ b.stream = None => c.messages = b.messages
  BY <1>9, ResetKept
<1>. HIDE DEF c
<1>11. c \in Widget
  BY <1>10 DEF Edited, Sound
<1>12. t \in Widget
  BY <1>11 DEF Widget
<1>13. /\ t.messages = c.messages /\ t.sessions = c.sessions /\ t.sent = c.sent /\ t.next = c.next
       /\ t.open = c.open /\ t.used = c.used /\ t.undoable = c.undoable /\ t.returned = c.returned /\ t.cut = c.cut
       /\ t.pending = c.pending /\ t.stream = c.stream /\ t.loading = FALSE
       /\ t.generation = c.generation /\ t.active = c.active /\ t.net = c.net /\ t.xhr = c.xhr /\ t.lookups = c.lookups
  BY <1>11 DEF Widget
<1>. HIDE DEF t
<1>14. Sound(t, P) /\ SameChats(c, t) /\ KeepsQueue(c, t)
  <2>1. Sound(c, P)
    BY <1>10 DEF Edited
  <2>. QED BY <1>12, <1>13, <2>1, RequestEdited
<1>15. SameChats(s, t) /\ KeepsQueue(s, t)
  <2>1. s \in Widget
    BY DEF Sound
  <2>2. SameChats(s, b) /\ KeepsQueue(s, b)
    BY <1>1, <1>2, <1>7, <1>9, <2>1, KeptTwice
  <2>3. SameChats(s, c) /\ KeepsQueue(s, c)
    BY <1>7, <1>10, <1>11, <2>1, <2>2, KeptTwice DEF Edited
  <2>. QED BY <1>11, <1>12, <1>14, <2>1, <2>3, KeptTwice
<1>16. Ready(t)
  <2>1. /\ t.generation = g /\ t.active = None /\ t.net = {} /\ t.lookups = a.lookups /\ t.pending = None
        /\ t.stream = None /\ t.loading = FALSE
    BY <1>1, <1>8, <1>10, <1>13 DEF Edited, SameRequests
  <2>2. \A r \in a.lookups : r.generation \in Nat
    BY <1>2 DEF Widget, Request
  <2>. QED BY <1>2, <1>3, <1>5, <2>1, <2>2 DEF Ready, OneRequest
<1>17. invalidateActiveRequest(s) = t
  BY DEF invalidateActiveRequest, t, c, b, a
<1>. QED BY <1>1, <1>8, <1>10, <1>13, <1>14, <1>15, <1>16, <1>17 DEF Rested

\* A queued message that is sent leaves the queue.
LEMMA DequeuedKept ==
    ASSUME NEW P, NEW s, Sound(s, P), NEW k \in DOMAIN s.messages
    PROVE  Edited(s, DequeuedState(s, k), P)
<1>1. /\ s \in Widget /\ s.messages \in Seq(Good(s, P, s.open)) /\ s.messages[k] \in Good(s, P, s.open)
      /\ s.next \in Nat
  BY DEF Sound, Widget
<1>2. CASE s.messages[k].role # "queued"
  <2>1. SameChats(s, s) /\ SameRequests(s, s) /\ KeepsQueue(s, s)
    BY <1>1 DEF SameChats, SameBook, SameRequests, KeepsQueue
  <2>. QED BY <1>2, <2>1 DEF Edited, DequeuedState
<1>3. CASE s.messages[k].role = "queued"
  <2>. DEFINE list == Dequeued(s.messages, k)
              sent == Append(s.sent, s.messages[k])
              u == [s EXCEPT !.messages = list, !.sent = sent]
  <2>1. [s.messages[k] EXCEPT !.role = "user"] \in Good(s, P, s.open)
    BY <1>1, <1>3 DEF Good, Message, Roles, Prompts
  <2>2. /\ list \in Seq(Good(s, P, s.open))
        /\ QueuedIds(s.messages) \subseteq QueuedIds(list) \cup {s.messages[k].id}
    BY <1>1, <2>1, DequeuedTyped
  <2>3. list \in MessageList
    BY <2>2, SeqMonotonic DEF Good, MessageList
  <2>4. s.messages[k] \in Message /\ s.sent \in Seq(Message)
    BY <1>1 DEF Good, Widget, MessageList
  <2>5. /\ sent \in MessageList
        /\ \A i \in DOMAIN s.sent : i \in DOMAIN sent /\ sent[i] = s.sent[i]
        /\ Len(s.sent) + 1 \in DOMAIN sent /\ sent[Len(s.sent) + 1] = s.messages[k]
    BY <2>4 DEF MessageList
  <2>6. u = [s EXCEPT !.messages = list, !.sent = sent]
    OBVIOUS
  <2>. HIDE DEF list, sent, u
  <2>7. u \in Widget
    BY <1>1, <2>3, <2>5, <2>6 DEF Widget
  <2>8. /\ u.messages = list /\ u.sent = sent /\ u.sessions = s.sessions /\ u.next = s.next
        /\ SameBook(s, u) /\ SameRequests(s, u)
    BY <1>1, <2>6 DEF Widget, SameBook, SameRequests
  <2>9. Sound(u, P) /\ SameChats(s, u)
    BY <2>2, <2>7, <2>8, MessagesEdited
  <2>. DEFINE t == saveCurrentSessionState(u)
  <2>10. /\ Sound(t, P) /\ SameChats(u, t) /\ SameRequests(u, t)
         /\ t.messages = u.messages /\ t.sent = u.sent /\ Backed(t)
    BY <2>9, Saved
  <2>. HIDE DEF t
  <2>11. SameChats(s, t) /\ SameRequests(s, t)
    <3>1. u.next \in Nat /\ t.next \in Nat
      BY <2>9, <2>10 DEF Sound, Widget
    <3>. QED BY <1>1, <2>8, <2>9, <2>10, <3>1 DEF SameChats, SameBook, SameRequests
  <2>12. SentIds(s) \subseteq SentIds(t) /\ s.messages[k].id \in SentIds(t)
    BY <2>5, <2>8, <2>10 DEF SentIds
  <2>13. KeepsQueue(s, t)
    BY <2>2, <2>8, <2>10, <2>12 DEF KeepsQueue
  <2>14. DequeuedState(s, k) = t
    BY <1>3 DEF DequeuedState, t, u, list, sent
  <2>. QED BY <2>10, <2>11, <2>13, <2>14 DEF Edited
<1>. QED BY <1>2, <1>3

\* Doing nothing changes nothing.
LEMMA SameItself ==
    ASSUME NEW P, NEW s, Sound(s, P)
    PROVE  SameChats(s, s) /\ SameRequests(s, s) /\ KeepsQueue(s, s) /\ s \in Widget
BY DEF Sound, Widget, SameChats, SameBook, SameRequests, KeepsQueue

\* What was edited in a state ready for a request leaves it ready.
LEMMA ReadyStays ==
    ASSUME NEW P, NEW s, Ready(s), NEW t, Edited(s, t, P)
    PROVE  Ready(t) /\ Onward(s, t, P)
<1>1. /\ t.loading = s.loading /\ t.generation = s.generation /\ t.pending = s.pending /\ t.net = s.net
      /\ t.lookups = s.lookups /\ t.stream \in {s.stream, None} /\ t.active = s.active /\ t.used = s.used
  BY DEF Edited, SameRequests, SameChats, SameBook
<1>2. Ready(t)
  BY <1>1 DEF Ready, OneRequest
<1>3. Running(t)
  BY <1>2 DEF Ready, Running, Live
<1>. QED BY <1>2, <1>3 DEF Edited, Onward

\* A message is sent: a request begins, or the settings are not complete.
LEMMA SentOn ==
    ASSUME NEW P, NEW s, Sound(s, P), Ready(s), NEW k
    PROVE  Onward(s, sendMessageByIndex(s, k), P)
<1>. DEFINE t == resetStream(s)
<1>1. s \in Widget /\ t = [s EXCEPT !.stream = None]
  BY DEF Sound, resetStream
<1>2. t \in Widget
  BY <1>1 DEF Widget
<1>3. /\ t.messages = s.messages /\ t.sessions = s.sessions /\ t.sent = s.sent /\ t.next = s.next /\ t.stream = None
      /\ t.open = s.open /\ t.used = s.used /\ t.undoable = s.undoable /\ t.returned = s.returned /\ t.cut = s.cut
      /\ t.pending = s.pending /\ SameRequests(s, t)
  BY <1>1 DEF Widget, SameRequests
<1>. HIDE DEF t
<1>4. Edited(s, t, P)
  BY <1>2, <1>3, RequestEdited DEF Edited
<1>5. Ready(t) /\ Sound(t, P)
  BY <1>4, ReadyStays DEF Edited
<1>6. CASE k \notin DOMAIN s.messages
  BY <1>4, <1>6, ReadyStays DEF sendMessageByIndex, t
<1>7. CASE k \in DOMAIN s.messages /\ ~valid
  <2>1. sendMessageByIndex(s, k) = pushErrorMessage(t, t.open)
    BY <1>3, <1>7 DEF sendMessageByIndex, t
  <2>2. Edited(t, pushErrorMessage(t, t.open), P)
    BY <1>5, ErrorPushed
  <2>3. Edited(s, pushErrorMessage(t, t.open), P)
    BY <1>4, <2>2, EditedTwice
  <2>. QED BY <2>1, <2>3, ReadyStays
<1>8. CASE k \in DOMAIN s.messages /\ valid
  <2>. DEFINE u == DequeuedState(t, k)
              v == doDirectRequest(beginRequest(u))
  <2>1. Edited(t, u, P)
    BY <1>3, <1>5, <1>8, DequeuedKept
  <2>2. Edited(s, u, P) /\ Ready(u)
    BY <1>4, <1>5, <2>1, EditedTwice, ReadyStays
  <2>. HIDE DEF u
  <2>3. u \in Widget /\ u.generation \in Nat /\ u.open \in Chats
    BY <2>2 DEF Edited, Sound, Widget
  <2>4. PICK g \in Nat : g = u.generation + 1
    BY <2>3
  <2>5. [chat |-> u.open, generation |-> g] \in Request
    BY <2>3 DEF Request
  <2>6. PICK r \in Request : r.chat = u.open /\ r.generation = g /\ r = [chat |-> u.open, generation |-> g]
    BY <2>5
  <2>7. v = [u EXCEPT !.net = {}, !.xhr = None, !.generation = g, !.active = u.open, !.loading = TRUE,
                      !.lookups = u.lookups \cup {r}]
    <3>. DEFINE x == AbortXhr(u)
                y == beginRequest(u)
    <3>1. {q \in u.net : q.generation # u.xhr} = {}
      BY <2>2 DEF Ready
    <3>2. x = [u EXCEPT !.net = {}, !.xhr = None] /\ x.generation = u.generation
      BY <2>3, <3>1 DEF AbortXhr, Widget
    <3>3. y = [x EXCEPT !.generation = g, !.active = u.open]
      BY <2>3, <2>4, <3>2 DEF beginRequest
    <3>. HIDE DEF x, y
    <3>4. y = [u EXCEPT !.net = {}, !.xhr = None, !.generation = g, !.active = u.open]
      BY <2>3, <3>2, <3>3 DEF Widget
    <3>5. y.open = u.open /\ y.generation = g /\ y.lookups = u.lookups
      BY <2>3, <3>4 DEF Widget
    <3>6. v = [y EXCEPT !.loading = TRUE, !.lookups = u.lookups \cup {r}]
      BY <2>6, <3>5 DEF doDirectRequest, y
    <3>. HIDE DEF v
    <3>. QED BY <2>3, <3>4, <3>6 DEF Widget
  <2>. HIDE DEF v
  <2>8. v \in Widget
    <3>1. PICK lookups \in SUBSET Request : lookups = u.lookups \cup {r}
      BY <2>3 DEF Widget
    <3>2. v = [u EXCEPT !.net = {}, !.xhr = None, !.generation = g, !.active = u.open, !.loading = TRUE,
                        !.lookups = lookups]
      BY <2>7, <3>1
    <3>. QED BY <2>3, <3>2 DEF Widget
  <2>9. /\ v.messages = u.messages /\ v.sessions = u.sessions /\ v.sent = u.sent /\ v.next = u.next
        /\ v.open = u.open /\ v.used = u.used /\ v.undoable = u.undoable /\ v.returned = u.returned /\ v.cut = u.cut
        /\ v.pending = u.pending /\ v.stream = u.stream /\ v.loading = TRUE /\ v.generation = g
        /\ v.active = u.open /\ v.net = {} /\ v.lookups = u.lookups \cup {r}
    BY <2>3, <2>7 DEF Widget
  <2>10. Sound(v, P) /\ SameChats(u, v) /\ KeepsQueue(u, v)
    BY <2>2, <2>8, <2>9, RequestEdited DEF Edited
  <2>11. SameChats(s, v) /\ KeepsQueue(s, v)
    BY <1>1, <2>2, <2>3, <2>8, <2>10, KeptTwice DEF Edited
  <2>12. requestIsCurrent(v, r)
    BY <2>6, <2>9 DEF requestIsCurrent
  <2>13. Running(v)
    <3>1. \A q \in u.lookups : q.generation \in Nat /\ q.generation <= u.generation
      BY <2>2, <2>3 DEF Ready, OneRequest, Widget, Request
    <3>2. \A q \in v.lookups : q.generation <= v.generation
      BY <2>3, <2>4, <2>6, <2>9, <3>1
    <3>3. v.active \in v.used
      BY <2>2, <2>3, <2>9 DEF Edited, Sound
    <3>. QED BY <2>2, <2>9, <2>12, <3>2, <3>3 DEF Ready, Running, OneRequest, Live
  <2>14. sendMessageByIndex(s, k) = v
    BY <1>8 DEF sendMessageByIndex, t, u, v
  <2>. QED BY <2>10, <2>11, <2>13, <2>14 DEF Onward
<1>. QED BY <1>6, <1>7, <1>8

\* The next message that waits is sent, if none is under way.
LEMMA Processed ==
    ASSUME NEW P, NEW s, Sound(s, P), Running(s)
    PROVE  Onward(s, processNextQueuedMessage(s), P)
<1>1. CASE s.loading \/ Queued(s.messages) = {}
  BY <1>1, SameItself DEF processNextQueuedMessage, Onward
<1>2. CASE ~(s.loading \/ Queued(s.messages) = {})
  <2>1. Ready(s)
    BY <1>2 DEF Running, OneRequest, Ready
  <2>. QED BY <1>2, <2>1, SentOn DEF processNextQueuedMessage
<1>. QED BY <1>1, <1>2

\* A request is over, its outcome is saved, and the next message that waits is sent.
LEMMA SavedAndProcessed ==
    ASSUME NEW P, NEW s, Sound(s, P), Ready(s)
    PROVE  LET t == processNextQueuedMessage(saveCurrentSessionState(s)) IN Onward(s, t, P) /\ Backed(t)
<1>. DEFINE u == saveCurrentSessionState(s)
            t == processNextQueuedMessage(u)
<1>1. Edited(s, u, P) /\ Backed(u)
  BY Saved DEF Edited
<1>2. Sound(u, P) /\ Running(u) /\ SameChats(s, u) /\ KeepsQueue(s, u)
  BY <1>1, ReadyStays DEF Onward
<1>. HIDE DEF u
<1>3. Onward(u, t, P)
  BY <1>2, Processed
<1>. HIDE DEF t
<1>4. s \in Widget /\ u \in Widget /\ t \in Widget
  BY <1>2, <1>3 DEF Sound, Onward
<1>5. SameChats(s, t) /\ KeepsQueue(s, t)
  BY <1>2, <1>3, <1>4, KeptTwice DEF Onward
<1>6. Backed(t)
  BY <1>1, <1>3 DEF Onward, KeepsQueue
<1>. QED BY <1>3, <1>5, <1>6 DEF Onward, t, u

\* Stop gives up what runs, and what waits goes on.
LEMMA Stopped ==
    ASSUME NEW P, NEW s, Sound(s, P), OneRequest(s)
    PROVE  Onward(s, stopStreaming(s), P) /\ Backed(stopStreaming(s))
<1>. DEFINE u == invalidateActiveRequest(s)
            t == processNextQueuedMessage(saveCurrentSessionState(u))
<1>1. Rested(s, u, P)
  BY Invalidated
<1>. HIDE DEF u
<1>2. Onward(u, t, P) /\ Backed(t)
  BY <1>1, SavedAndProcessed DEF Rested
<1>3. stopStreaming(s) = t
  BY DEF stopStreaming, u
<1>. HIDE DEF t
<1>4. s \in Widget /\ u \in Widget /\ t \in Widget
  BY <1>1, <1>2 DEF Sound, Onward, Rested
<1>5. SameChats(s, t) /\ KeepsQueue(s, t)
  BY <1>1, <1>2, <1>4, KeptTwice DEF Onward, Rested
<1>. QED BY <1>2, <1>3, <1>5 DEF Onward

\* The end of a request keeps the types.
LEMMA EndedTyped ==
    ASSUME NEW s \in Widget, NEW g \in Nat
    PROVE  [s EXCEPT !.stream = None, !.loading = FALSE, !.xhr = None, !.active = None, !.generation = g] \in Widget
BY DEF Widget

\* The answer of the only request ends it.
LEMMA DoneKept ==
    ASSUME NEW P, NEW s, Sound(s, P), s.net = {}, s.pending = None,
           \A r \in s.lookups : r.generation <= s.generation
    PROVE  Onward(s, Done(s), P) /\ Backed(Done(s))
<1>1. s \in Widget /\ s.generation \in Nat
  BY DEF Sound, Widget
<1>2. PICK g \in Nat : g = s.generation + 1
  BY <1>1
<1>3. PICK u : u = [s EXCEPT !.stream = None, !.loading = FALSE, !.xhr = None, !.active = None, !.generation = g]
  OBVIOUS
<1>4. u \in Widget
  BY <1>1, <1>3, EndedTyped
<1>5. /\ u.messages = s.messages /\ u.sessions = s.sessions /\ u.sent = s.sent /\ u.next = s.next
      /\ u.open = s.open /\ u.used = s.used /\ u.undoable = s.undoable /\ u.returned = s.returned /\ u.cut = s.cut
      /\ u.pending = s.pending /\ u.stream = None /\ u.loading = FALSE /\ u.generation = g
      /\ u.active = None /\ u.net = s.net /\ u.lookups = s.lookups
  BY <1>1, <1>3 DEF Widget
<1>6. Sound(u, P) /\ SameChats(s, u) /\ KeepsQueue(s, u)
  BY <1>4, <1>5, RequestEdited
<1>7. Ready(u)
  <2>1. \A r \in s.lookups : r.generation \in Nat
    BY <1>1 DEF Widget, Request
  <2>. QED BY <1>1, <1>2, <1>5, <2>1 DEF Ready, OneRequest
<1>. DEFINE t == processNextQueuedMessage(saveCurrentSessionState(u))
<1>8. Onward(u, t, P) /\ Backed(t)
  BY <1>6, <1>7, SavedAndProcessed
<1>9. Done(s) = t
  BY <1>2, <1>3 DEF Done
<1>. HIDE DEF t
<1>10. SameChats(s, t) /\ KeepsQueue(s, t)
  <2>1. t \in Widget
    BY <1>8 DEF Onward, Sound
  <2>. QED BY <1>1, <1>4, <1>6, <1>8, <2>1, KeptTwice DEF Onward
<1>. QED BY <1>8, <1>9, <1>10 DEF Onward

-----------------------------------------------------------------------------
(* Every step keeps the invariant.                                         *)

\* A message that waits still does after what keeps the queue.
LEMMA StillWaits ==
    ASSUME NEW s, NEW t, SameChats(s, t), KeepsQueue(s, t), NEW id, Waits(s, id)
    PROVE  Waits(t, id)
<1>1. CASE id \in QueuedIds(s.messages) \cup SentIds(s)
  BY <1>1 DEF KeepsQueue, Waits
<1>2. CASE \E c \in Chats \ {s.open} : s.sessions[c] # None /\ id \in QueuedIds(s.sessions[c])
  BY <1>2 DEF SameChats, SameBook, Waits
<1>. QED BY <1>1, <1>2 DEF Waits

\* A step that leaves the other chats alone and keeps the queue.
LEMMA OnwardStep ==
    ASSUME IInv, NEW P, Onward(w, w', P), waiting' \subseteq waiting,
           valid' \in BOOLEAN, budget' \in [BudgetNames -> Nat]
    PROVE  IInv'
<1>1. Sound(w', P) /\ P \in SUBSET Nat
  BY DEF Onward, Sound
<1>2. Running(w') /\ Backed(w')
  BY DEF IInv, Onward, KeepsQueue
<1>3. w'.cut \/ \A id \in waiting' : Waits(w', id)
  <2>1. w'.cut = w.cut
    BY DEF Onward, SameChats, SameBook
  <2>2. ASSUME NEW id \in waiting, Waits(w, id) PROVE Waits(w', id)
    BY <2>2, StillWaits DEF Onward
  <2>. QED BY <2>1, <2>2 DEF IInv
<1>4. waiting' \subseteq Nat
  BY DEF IInv
<1>. QED BY <1>1, <1>2, <1>3, <1>4 DEF IInv

\* What was spent stays a number.
LEMMA Spent ==
    ASSUME IInv, NEW what \in BudgetNames, Spend(what)
    PROVE  budget' \in [BudgetNames -> Nat]
<1>1. budget[what] \in Nat /\ budget[what] > 0 /\ budget[what] - 1 \in Nat
  BY DEF IInv, Spend
<1>. QED BY <1>1 DEF IInv, Spend

\* At most one request is current.
LEMMA OneCurrent ==
    ASSUME NEW s, NEW q \in Request, NEW r \in Request, requestIsCurrent(s, q), requestIsCurrent(s, r)
    PROVE  q = r
<1>1. q.chat = r.chat /\ q.generation = r.generation
  BY DEF requestIsCurrent
<1>. QED BY <1>1 DEF Request

\* The variant of a request is known: it goes out only as the current one, and then alone.
LEMMA LookupStep ==
    ASSUME IInv, NEW r, VariantResolved(r)
    PROVE  IInv'
<1>. DEFINE s == [w EXCEPT !.lookups = w.lookups \ {r}]
<1>1. PICK P : Sound(w, P)
  BY DEF IInv
<1>2. w \in Widget /\ r \in w.lookups /\ r \in Request /\ w.lookups \subseteq Request
  BY <1>1 DEF Sound, Widget, VariantResolved
<1>3. s \in Widget
  <2>1. PICK l \in SUBSET Request : l = w.lookups \ {r}
    BY <1>2
  <2>. QED BY <1>2, <2>1 DEF Widget
<1>4. /\ s.messages = w.messages /\ s.sessions = w.sessions /\ s.sent = w.sent /\ s.next = w.next
      /\ s.open = w.open /\ s.used = w.used /\ s.undoable = w.undoable /\ s.returned = w.returned /\ s.cut = w.cut
      /\ s.pending = w.pending /\ s.stream = w.stream /\ s.loading = w.loading /\ s.generation = w.generation
      /\ s.active = w.active /\ s.net = w.net /\ s.xhr = w.xhr /\ s.lookups = w.lookups \ {r}
  BY <1>2 DEF Widget
<1>5. OneRequest(w) /\ Live(w)
  BY DEF IInv, Running
<1>6. valid' = valid /\ waiting' = waiting /\ budget' = budget
  BY DEF VariantResolved
<1>7. w' = IF requestIsCurrent(s, r) THEN [s EXCEPT !.net = s.net \cup {r}, !.xhr = r.generation, !.loading = TRUE] ELSE s
  BY DEF VariantResolved
<1>. HIDE DEF s
<1>8. ASSUME Sound(w', P), SameChats(w, w'), KeepsQueue(w, w'), OneRequest(w'), Live(w') PROVE IInv'
  <2>1. Onward(w, w', P)
    BY <1>8 DEF Onward, Running
  <2>. QED BY <1>6, <2>1, OnwardStep DEF IInv
<1>9. CASE ~requestIsCurrent(s, r)
  <2>1. w' = s
    BY <1>7, <1>9
  <2>2. Sound(w', P) /\ SameChats(w, w') /\ KeepsQueue(w, w')
    BY <1>1, <1>3, <1>4, <2>1, RequestEdited
  <2>3. OneRequest(w')
    BY <1>4, <1>5, <2>1 DEF OneRequest, requestIsCurrent
  <2>4. Live(w')
    BY <1>4, <1>5, <1>9, <2>1 DEF Live, requestIsCurrent
  <2>. QED BY <1>8, <2>2, <2>3, <2>4
<1>10. CASE requestIsCurrent(s, r)
  <2>1. w.net = {} /\ w.pending = None /\ r.generation <= w.generation
    BY <1>2, <1>4, <1>5, <1>10 DEF OneRequest, requestIsCurrent
  <2>2. w' = [s EXCEPT !.net = {r}, !.xhr = r.generation, !.loading = TRUE]
    BY <1>4, <1>7, <1>10, <2>1
  <2>3. PICK net \in SUBSET Request, g \in Nat : net = {r} /\ g = r.generation
    BY <1>2 DEF Request
  <2>4. w' = [s EXCEPT !.net = net, !.xhr = g, !.loading = TRUE]
    BY <2>2, <2>3
  <2>5. w' \in Widget
    BY <1>3, <2>4 DEF Widget
  <2>6. /\ w'.messages = w.messages /\ w'.sessions = w.sessions /\ w'.sent = w.sent /\ w'.next = w.next
        /\ w'.open = w.open /\ w'.used = w.used /\ w'.undoable = w.undoable /\ w'.returned = w.returned
        /\ w'.cut = w.cut /\ w'.pending = w.pending /\ w'.stream = w.stream /\ w'.loading = TRUE
        /\ w'.generation = w.generation /\ w'.active = w.active /\ w'.net = {r} /\ w'.xhr = r.generation
        /\ w'.lookups = w.lookups \ {r}
    BY <1>3, <1>4, <2>2 DEF Widget
  <2>7. Sound(w', P) /\ SameChats(w, w') /\ KeepsQueue(w, w')
    BY <1>1, <2>5, <2>6, RequestEdited
  <2>8. requestIsCurrent(w', r)
    BY <1>4, <1>10, <2>6 DEF requestIsCurrent
  <2>9. \A q \in w'.lookups : ~requestIsCurrent(w', q)
    <3>1. ASSUME NEW q \in Request, requestIsCurrent(w', q) PROVE q = r
      BY <1>2, <2>8, <3>1, OneCurrent
    <3>. QED BY <1>2, <2>6, <3>1
  <2>10. OneRequest(w')
    BY <1>5, <2>1, <2>6, <2>9 DEF OneRequest
  <2>11. Live(w')
    BY <2>1, <2>6, <2>8 DEF Live
  <2>. QED BY <1>8, <2>7, <2>10, <2>11
<1>. QED BY <1>9, <1>10

\* An answer that comes for a request: it is the only one, and has left.
LEMMA LeftAlone ==
    ASSUME IInv, NEW P, Sound(w, P), NEW r \in w.net
    PROVE  /\ Left(r) \in Widget /\ Sound(Left(r), P) /\ SameChats(w, Left(r)) /\ KeepsQueue(w, Left(r))
           /\ Left(r).net = {} /\ Left(r).pending = None /\ w.pending = None /\ w.loading
           /\ \A q \in Left(r).lookups : q.generation <= Left(r).generation
           /\ Left(r).open = w.open /\ Left(r).stream = w.stream /\ Left(r).next = w.next
           /\ Left(r).messages = w.messages /\ Left(r).sessions = w.sessions
           /\ requestIsCurrent(Left(r), r) = requestIsCurrent(w, r)
           /\ r \in Request /\ r.generation <= w.generation
           /\ requestIsCurrent(w, r) => r.chat = w.open
           /\ ~requestIsCurrent(w, r) => Onward(w, Left(r), P)
<1>1. w \in Widget /\ w.net \subseteq Request /\ OneRequest(w) /\ Live(w)
  BY DEF Sound, Widget, IInv, Running
<1>2. w.net = {r} /\ w.pending = None /\ w.loading /\ r.generation <= w.generation
  BY <1>1 DEF OneRequest
<1>3. PICK s : s = [w EXCEPT !.net = {}]
  OBVIOUS
<1>4. Left(r) = s
  BY <1>1, <1>2, <1>3 DEF Left, Widget
<1>5. s \in Widget
  BY <1>1, <1>3 DEF Widget
<1>6. /\ s.messages = w.messages /\ s.sessions = w.sessions /\ s.sent = w.sent /\ s.next = w.next
      /\ s.open = w.open /\ s.used = w.used /\ s.undoable = w.undoable /\ s.returned = w.returned /\ s.cut = w.cut
      /\ s.pending = w.pending /\ s.stream = w.stream /\ s.loading = w.loading /\ s.generation = w.generation
      /\ s.active = w.active /\ s.net = {} /\ s.lookups = w.lookups
  BY <1>1, <1>3 DEF Widget
<1>7. Sound(s, P) /\ SameChats(w, s) /\ KeepsQueue(w, s)
  BY <1>5, <1>6, RequestEdited
<1>8. \A q : requestIsCurrent(s, q) = requestIsCurrent(w, q)
  BY <1>6 DEF requestIsCurrent
<1>9. OneRequest(s)
  BY <1>1, <1>2, <1>6, <1>8 DEF OneRequest
<1>10. ~requestIsCurrent(w, r) => Live(s)
  BY <1>1, <1>6 DEF Live
<1>11. ~requestIsCurrent(w, r) => Onward(w, s, P)
  BY <1>7, <1>9, <1>10 DEF Onward, Running
<1>12. requestIsCurrent(w, r) => r.chat = w.open
  BY DEF requestIsCurrent
<1>13. \A q \in s.lookups : q.generation <= s.generation
  BY <1>9 DEF OneRequest
<1>. QED BY <1>1, <1>2, <1>4, <1>5, <1>6, <1>7, <1>8, <1>11, <1>12, <1>13

\* Writing a reply keeps the types.
LEMMA AddedTyped ==
    ASSUME NEW s \in Widget, NEW list \in MessageList, NEW next \in Nat, NEW stream \in Nat
    PROVE  [s EXCEPT !.messages = list, !.next = next, !.stream = stream] \in Widget
BY DEF Widget

\* A reply is written.
LEMMA Streamed ==
    ASSUME NEW P, NEW s, Sound(s, P), NEW role \in {"reply", "card"}, NEW r, r.chat = s.open
    PROVE  LET t == EnsureStreaming(s, r, role) IN
           /\ Sound(t, P) /\ SameChats(s, t) /\ KeepsQueue(s, t) /\ t.stream # None
           /\ t.pending = s.pending /\ t.loading = s.loading /\ t.generation = s.generation
           /\ t.active = s.active /\ t.net = s.net /\ t.xhr = s.xhr /\ t.lookups = s.lookups
<1>. DEFINE t == EnsureStreaming(s, r, role)
<1>1. CASE s.stream # None
  BY <1>1, SameItself DEF EnsureStreaming
<1>2. CASE s.stream = None
  <2>1. /\ s \in Widget /\ s.next \in Nat /\ s.open \in Chats /\ s.messages \in Seq(Good(s, P, s.open))
    BY DEF Sound, Widget
  <2>2. role \in Roles \ {"asked"} /\ role \notin Prompts /\ role # "queued"
    BY DEF Roles, Prompts
  <2>. DEFINE m == [id |-> s.next, role |-> role, chat |-> s.open]
              list == Append(s.messages, m)
              u == AddMessage(s, role, r.chat)
  <2>3. list \in MessageList
    <3>1. Good(s, P, s.open) \subseteq Message /\ m \in Message
      BY <2>1, <2>2 DEF Good, Message
    <3>2. s.messages \in Seq(Message)
      BY <2>1, <3>1, SeqMonotonic
    <3>. QED BY <3>1, <3>2 DEF MessageList
  <2>. HIDE DEF m, list
  <2>4. PICK next \in Nat : next = s.next + 1
    BY <2>1
  <2>5. PICK stream \in Nat : stream = s.next
    BY <2>1
  <2>6. t = [s EXCEPT !.messages = list, !.next = next, !.stream = stream]
    <3>1. u = [s EXCEPT !.messages = list, !.next = next]
      BY <2>4 DEF AddMessage, list, m
    <3>2. t = [u EXCEPT !.stream = stream]
      BY <1>2, <2>5 DEF EnsureStreaming
    <3>. HIDE DEF u, t
    <3>. QED BY <2>1, <3>1, <3>2 DEF Widget
  <2>. HIDE DEF t
  <2>7. t \in Widget
    BY <2>1, <2>3, <2>6, AddedTyped
  <2>8. /\ t.messages = list /\ t.sessions = s.sessions /\ t.sent = s.sent /\ t.next = s.next + 1
        /\ t.stream = s.next /\ SameBook(s, t)
        /\ t.pending = s.pending /\ t.loading = s.loading /\ t.generation = s.generation
        /\ t.active = s.active /\ t.net = s.net /\ t.xhr = s.xhr /\ t.lookups = s.lookups
    BY <2>1, <2>4, <2>5, <2>6 DEF Widget, SameBook
  <2>9. Sound(t, P) /\ SameChats(s, t) /\ KeepsQueue(s, t)
    BY <2>2, <2>7, <2>8, Added DEF list, m
  <2>. QED BY <2>1, <2>8, <2>9, NoneApart DEF t
<1>. QED BY <1>1, <1>2

\* A part of a reply.
LEMMA DeltaStep ==
    ASSUME IInv, NEW r, Delta(r)
    PROVE  IInv'
<1>1. PICK P : Sound(w, P)
  BY DEF IInv
<1>2. /\ r \in w.net /\ requestIsCurrent(w, r) /\ r.chat = w.open
      /\ valid' = valid /\ waiting' = waiting /\ budget' = budget
  BY <1>1 DEF Delta, requestIsCurrent, Sound, Widget
<1>3. PICK role \in {"reply", "card"} : w' = EnsureStreaming(w, r, role)
  BY DEF Delta
<1>4. /\ Sound(w', P) /\ SameChats(w, w') /\ KeepsQueue(w, w') /\ w'.stream # None
      /\ w'.pending = w.pending /\ w'.loading = w.loading /\ w'.generation = w.generation
      /\ w'.active = w.active /\ w'.net = w.net /\ w'.xhr = w.xhr /\ w'.lookups = w.lookups
  BY <1>1, <1>2, <1>3, Streamed
<1>5. w'.open = w.open /\ w'.cut = w.cut /\ w'.used = w.used
  BY <1>4 DEF SameChats, SameBook
<1>6. \A q : requestIsCurrent(w', q) = requestIsCurrent(w, q)
  BY <1>4, <1>5 DEF requestIsCurrent
<1>7. Running(w')
  BY <1>2, <1>4, <1>5, <1>6 DEF IInv, Running, OneRequest, Live
<1>8. Onward(w, w', P)
  BY <1>4, <1>7 DEF Onward
<1>. QED BY <1>2, <1>8, OnwardStep DEF IInv

\* Two moves on.
LEMMA OnwardTwice ==
    ASSUME NEW P, NEW s \in Widget, NEW t \in Widget, SameChats(s, t), KeepsQueue(s, t), NEW u, Onward(t, u, P)
    PROVE  Onward(s, u, P)
<1>1. u \in Widget
  BY DEF Onward, Sound
<1>. QED BY <1>1, KeptTwice DEF Onward

\* The end of a request whose outcome is written into its chat.
LEMMA EndedStep ==
    ASSUME IInv, NEW P, Sound(w, P), NEW r \in w.net, NEW x, Edited(Left(r), x, P), w' = Done(x),
           waiting' = waiting, valid' = valid, budget' \in [BudgetNames -> Nat]
    PROVE  IInv'
<1>. DEFINE s == Left(r)
<1>1. /\ s \in Widget /\ SameChats(w, s) /\ KeepsQueue(w, s)
      /\ s.net = {} /\ s.pending = None /\ \A q \in s.lookups : q.generation <= s.generation
  BY LeftAlone
<1>. HIDE DEF s
<1>2. Edited(s, x, P)
  BY DEF s
<1>3. Sound(x, P) /\ x.net = {} /\ x.pending = None /\ \A q \in x.lookups : q.generation <= x.generation
  BY <1>1, <1>2 DEF Edited, SameRequests
<1>4. Onward(x, Done(x), P)
  BY <1>3, DoneKept
<1>5. w \in Widget /\ x \in Widget /\ Onward(s, Done(x), P)
  BY <1>1, <1>2, <1>4, OnwardTwice DEF Edited, Sound
<1>6. Onward(w, w', P)
  BY <1>1, <1>5, OnwardTwice
<1>. QED BY <1>6, OnwardStep DEF IInv

\* A reply is complete.
LEMMA CompleteStep ==
    ASSUME IInv, NEW r, Complete(r)
    PROVE  IInv'
<1>1. PICK P : Sound(w, P)
  BY DEF IInv
<1>. DEFINE s == Left(r)
<1>2. /\ r \in w.net /\ valid' = valid /\ waiting' = waiting /\ budget' = budget
      /\ w' = IF ~requestIsCurrent(s, r) THEN s
              ELSE IF s.stream # None THEN Done([s EXCEPT !.messages = WithRole(s.messages, s.stream, "reply")])
              ELSE Done(pushErrorMessage(s, r.chat))
  BY DEF Complete
<1>3. /\ s \in Widget /\ Sound(s, P) /\ s.open = w.open
      /\ requestIsCurrent(s, r) => r.chat = s.open
      /\ ~requestIsCurrent(s, r) => Onward(w, s, P)
  BY <1>1, <1>2, LeftAlone
<1>. HIDE DEF s
<1>4. valid' \in BOOLEAN /\ budget' \in [BudgetNames -> Nat]
  BY <1>2 DEF IInv
<1>5. CASE ~requestIsCurrent(s, r)
  BY <1>2, <1>3, <1>4, <1>5, OnwardStep
<1>6. CASE requestIsCurrent(s, r) /\ s.stream # None
  <2>. DEFINE list == WithRole(s.messages, s.stream, "reply")
              x == [s EXCEPT !.messages = list]
  <2>1. "reply" \in Roles \ (Prompts \cup {"asked"}) /\ s.stream \notin P
    BY <1>3, <1>6 DEF Roles, Prompts, Sound
  <2>2. list \in Seq(Good(s, P, s.open)) /\ QueuedIds(list) = QueuedIds(s.messages)
    BY <1>3, <2>1, RoleGiven
  <2>3. list \in MessageList
    BY <2>2, SeqMonotonic DEF Good, MessageList
  <2>. HIDE DEF list
  <2>4. x \in Widget
    BY <1>3, <2>3 DEF Widget
  <2>5. /\ x.messages = list /\ x.sessions = s.sessions /\ x.sent = s.sent /\ x.next = s.next
        /\ SameBook(s, x) /\ SameRequests(s, x)
    BY <1>3 DEF Widget, SameBook, SameRequests
  <2>6. w' = Done(x)
    BY <1>2, <1>6 DEF list
  <2>. HIDE DEF x
  <2>7. Edited(s, x, P)
    BY <1>3, <2>2, <2>4, <2>5, MessagesEdited DEF Edited
  <2>. QED BY <1>1, <1>2, <1>4, <2>6, <2>7, EndedStep DEF s
<1>7. CASE requestIsCurrent(s, r) /\ s.stream = None
  <2>. DEFINE x == pushErrorMessage(s, s.open)
  <2>1. w' = Done(x)
    BY <1>2, <1>3, <1>7
  <2>2. Edited(s, x, P)
    BY <1>3, ErrorPushed
  <2>. HIDE DEF x
  <2>. QED BY <1>1, <1>2, <1>4, <2>1, <2>2, EndedStep DEF s
<1>. QED BY <1>5, <1>6, <1>7

\* A request fails.
LEMMA FailStep ==
    ASSUME IInv, NEW r, Fail(r)
    PROVE  IInv'
<1>1. PICK P : Sound(w, P)
  BY DEF IInv
<1>. DEFINE s == Left(r)
            u == resetProviderStreamingState(s)
            x == pushErrorMessage(u, u.open)
<1>2. /\ r \in w.net /\ valid' = valid /\ waiting' = waiting
      /\ w' = IF ~requestIsCurrent(s, r) THEN s ELSE Done(pushErrorMessage(u, r.chat))
  BY DEF Fail
<1>3. /\ s \in Widget /\ Sound(s, P)
      /\ requestIsCurrent(s, r) => r.chat = s.open
      /\ ~requestIsCurrent(s, r) => Onward(w, s, P)
  BY <1>1, <1>2, LeftAlone
<1>4. valid' \in BOOLEAN /\ budget' \in [BudgetNames -> Nat]
  BY <1>2, Spent DEF IInv, Fail, BudgetNames
<1>. HIDE DEF s
<1>5. CASE ~requestIsCurrent(s, r)
  BY <1>2, <1>3, <1>4, <1>5, OnwardStep
<1>6. CASE requestIsCurrent(s, r)
  <2>1. Edited(s, u, P) /\ Sound(u, P) /\ u.open = s.open
    BY <1>3, ResetKept DEF Edited, SameChats, SameBook
  <2>2. w' = Done(x)
    BY <1>2, <1>3, <1>6, <2>1
  <2>. HIDE DEF u
  <2>3. Edited(s, x, P)
    BY <1>3, <2>1, ErrorPushed, EditedTwice
  <2>. HIDE DEF x
  <2>. QED BY <1>1, <1>2, <1>4, <2>2, <2>3, EndedStep DEF s
<1>. QED BY <1>5, <1>6

\* Opening a card keeps the types.
LEMMA CardTyped ==
    ASSUME NEW s \in Widget, NEW list \in MessageList, NEW next \in Nat, NEW p \in Question,
           NEW sessions \in [Chats -> MessageList \cup {None}]
    PROVE  [s EXCEPT !.messages = list, !.next = next, !.pending = p, !.sessions = sessions] \in Widget
BY DEF Widget

\* The model asks: the reply so far is closed, and the question's card opened.
LEMMA CardOpened ==
    ASSUME NEW P, NEW s, Sound(s, P), s.pending = None, NEW r \in Request
    PROVE  LET a == AddMessage(s, "asked", s.open)
               t == saveCurrentSessionState([a EXCEPT !.pending = [id |-> a.next - 1, request |-> r]]) IN
           /\ Sound(t, P) /\ SameChats(s, t) /\ KeepsQueue(s, t)
           /\ t.pending # None /\ t.pending.request = r /\ t.loading = s.loading /\ t.generation = s.generation
           /\ t.active = s.active /\ t.net = s.net /\ t.lookups = s.lookups /\ t.stream = s.stream
<1>. DEFINE m == [id |-> s.next, role |-> "asked", chat |-> s.open]
            p == [id |-> s.next, request |-> r]
            list == Append(s.messages, m)
            a == AddMessage(s, "asked", s.open)
            b == [a EXCEPT !.pending = [id |-> a.next - 1, request |-> r]]
            t == saveCurrentSessionState(b)
<1>1. /\ s \in Widget /\ s.next \in Nat /\ s.open \in Chats /\ s.messages \in Seq(Good(s, P, s.open))
      /\ s.sessions \in [Chats -> MessageList \cup {None}] /\ s.sessions[s.open] # None
      /\ \A i \in P : i \in Nat /\ i < s.next
  BY DEF Sound, Widget
<1>2. /\ p \in Question /\ p.id = s.next /\ p.request = r /\ m \in Message /\ m.role = "asked"
      /\ m.id = s.next /\ m.chat = s.open
  BY <1>1 DEF Question, Message, Roles
<1>3. a = [s EXCEPT !.messages = list, !.next = s.next + 1]
  BY DEF AddMessage
<1>. HIDE DEF m, a
<1>4. list \in MessageList
  <2>1. Good(s, P, s.open) \subseteq Message
    BY DEF Good
  <2>2. s.messages \in Seq(Message)
    BY <1>1, <2>1, SeqMonotonic
  <2>. QED BY <1>2, <2>2 DEF MessageList
<1>5. /\ DOMAIN s.messages = 1 .. Len(s.messages) /\ Len(s.messages) \in Nat /\ Len(list) = Len(s.messages) + 1
      /\ DOMAIN list = 1 .. Len(list)
      /\ \A k \in DOMAIN s.messages : list[k] = s.messages[k]
      /\ list[Len(s.messages) + 1] = m
  BY <1>1
<1>. HIDE DEF list
<1>6. PICK next \in Nat : next = s.next + 1 /\ next - 1 = s.next
  BY <1>1
<1>7. a = [s EXCEPT !.messages = list, !.next = next]
  BY <1>3, <1>6
<1>8. a.next - 1 = s.next
  BY <1>1, <1>6, <1>7 DEF Widget
<1>9. b = [s EXCEPT !.messages = list, !.next = next, !.pending = p]
  <2>1. b = [a EXCEPT !.pending = p]
    BY <1>8
  <2>. HIDE DEF b, p
  <2>. QED BY <1>1, <1>7, <2>1 DEF Widget
<1>. HIDE DEF b, p
<1>10. b.sessions = s.sessions /\ b.open = s.open /\ b.messages = list
  BY <1>1, <1>9 DEF Widget
<1>11. PICK sessions \in [Chats -> MessageList \cup {None}] : sessions = [s.sessions EXCEPT ![s.open] = list]
  BY <1>1, <1>4
<1>12. t = [s EXCEPT !.messages = list, !.next = next, !.pending = p, !.sessions = sessions]
  <2>1. t = [b EXCEPT !.sessions = sessions]
    BY <1>1, <1>10, <1>11 DEF saveCurrentSessionState
  <2>. HIDE DEF t
  <2>. QED BY <1>1, <1>9, <2>1 DEF Widget
<1>. HIDE DEF t
<1>13. t \in Widget
  BY <1>1, <1>2, <1>4, <1>12, CardTyped
<1>14. /\ t.messages = list /\ t.sent = s.sent /\ t.next = next /\ t.stream = s.stream
       /\ t.open = s.open /\ t.used = s.used /\ t.undoable = s.undoable /\ t.returned = s.returned /\ t.cut = s.cut
       /\ t.pending = p /\ t.sessions = sessions /\ t.loading = s.loading /\ t.generation = s.generation
       /\ t.active = s.active /\ t.net = s.net /\ t.lookups = s.lookups
  BY <1>1, <1>12 DEF Widget
<1>15. t.sessions[t.open] = list /\ \A c \in Chats \ {s.open} : t.sessions[c] = s.sessions[c]
  BY <1>1, <1>11, <1>14
<1>16. SameChats(s, t)
  BY <1>1, <1>6, <1>14, <1>15 DEF SameChats, SameBook
<1>17. list \in Seq(Good(t, P, t.open))
  <2>1. p # None
    BY <1>2, NoneApart
  <2>2. m \in Good(t, P, t.open)
    BY <1>1, <1>2, <1>6, <1>14, <2>1 DEF Good, Prompts
  <2>3. Good(s, P, s.open) \subseteq Good(t, P, t.open)
    BY <1>1, <1>6, <1>14 DEF Good, Message
  <2>4. \A k \in 1 .. Len(list) : list[k] \in Good(t, P, t.open)
    BY <1>1, <1>5, <2>2, <2>3
  <2>. QED BY <1>4, <1>5, <2>4 DEF MessageList
<1>18. Sound(t, P)
  <2>1. t.sessions[t.open] # None
    BY <1>4, <1>15, NoneApart
  <2>2. t.stream # None => t.stream < t.next /\ t.stream \notin P
    <3>1. s.stream # None => s.stream \in Nat /\ s.stream < s.next /\ s.stream \notin P
      BY DEF Sound, Widget
    <3>. QED BY <1>1, <1>6, <1>14, <3>1
  <2>3. \A i \in P : i \in Nat /\ i < t.next
    BY <1>1, <1>6, <1>14
  <2>4. t.pending # None => t.pending.id < t.next /\ t.pending.id \notin P
    BY <1>1, <1>2, <1>6, <1>14
  <2>. QED BY <1>13, <1>14, <1>15, <1>16, <1>17, <2>1, <2>2, <2>3, <2>4, SoundEdit
<1>19. QueuedIds(list) = QueuedIds(s.messages)
  <2>1. Queued(list) = Queued(s.messages)
    BY <1>2, <1>5 DEF Queued
  <2>. QED BY <1>5, <2>1 DEF QueuedIds, Queued
<1>20. KeepsQueue(s, t)
  BY <1>14, <1>15, <1>19 DEF KeepsQueue, Backed, SentIds
<1>21. t.pending # None /\ t.pending.request = r
  BY <1>2, <1>14, NoneApart
<1>. QED BY <1>14, <1>16, <1>18, <1>20, <1>21 DEF t, b, a

\* The model asks.
LEMMA AskStep ==
    ASSUME IInv, NEW r, Ask(r)
    PROVE  IInv'
<1>1. PICK P : Sound(w, P)
  BY DEF IInv
<1>. DEFINE s == Left(r)
            reply == EnsureStreaming(s, r, "reply")
            list == WithRole(reply.messages, reply.stream, "reply")
            closed == [reply EXCEPT !.messages = list, !.stream = None]
            asked == AddMessage(closed, "asked", closed.open)
            t == saveCurrentSessionState([asked EXCEPT !.pending = [id |-> asked.next - 1, request |-> r]])
<1>2. /\ r \in w.net /\ valid' = valid /\ waiting' = waiting
      /\ w' = IF ~requestIsCurrent(s, r) THEN s
              ELSE saveCurrentSessionState([AddMessage(closed, "asked", r.chat) EXCEPT
                      !.pending = [id |-> AddMessage(closed, "asked", r.chat).next - 1, request |-> r]])
  BY DEF Ask
<1>3. /\ s \in Widget /\ Sound(s, P) /\ SameChats(w, s) /\ KeepsQueue(w, s)
      /\ s.net = {} /\ s.pending = None /\ w.loading /\ w.pending = None
      /\ requestIsCurrent(s, r) = requestIsCurrent(w, r) /\ s.lookups = w.lookups /\ s.generation = w.generation
      /\ s.active = w.active /\ s.loading = w.loading /\ s.open = w.open
      /\ r \in Request /\ r.generation <= w.generation
      /\ requestIsCurrent(s, r) => r.chat = s.open
      /\ ~requestIsCurrent(s, r) => Onward(w, s, P)
  <2>1. w \in Widget
    BY <1>1 DEF Sound
  <2>2. s.lookups = w.lookups /\ s.generation = w.generation /\ s.active = w.active /\ s.loading = w.loading
    BY <2>1 DEF Left, Widget
  <2>. QED BY <1>1, <1>2, <2>2, LeftAlone
<1>4. valid' \in BOOLEAN /\ budget' \in [BudgetNames -> Nat]
  BY <1>2, Spent DEF IInv, Ask, BudgetNames
<1>. HIDE DEF s
<1>5. CASE ~requestIsCurrent(s, r)
  BY <1>2, <1>3, <1>4, <1>5, OnwardStep
<1>6. CASE requestIsCurrent(s, r)
  <2>0. r.chat = s.open /\ Sound(s, P) /\ "reply" \in {"reply", "card"}
    BY <1>3, <1>6
  <2>a. /\ Sound(reply, P) /\ SameChats(s, reply) /\ KeepsQueue(s, reply) /\ reply.stream # None
        /\ reply.pending = s.pending /\ reply.loading = s.loading /\ reply.generation = s.generation
        /\ reply.active = s.active /\ reply.net = s.net /\ reply.lookups = s.lookups
    BY <2>0, Streamed
  <2>1. /\ Sound(reply, P) /\ SameChats(s, reply) /\ KeepsQueue(s, reply) /\ reply.stream # None
        /\ reply.pending = None /\ reply.loading = w.loading /\ reply.generation = w.generation
        /\ reply.active = w.active /\ reply.net = {} /\ reply.lookups = w.lookups
    BY <1>3, <2>a
  <2>. HIDE DEF reply
  <2>2. "reply" \in Roles \ (Prompts \cup {"asked"}) /\ reply.stream \notin P
    BY <2>1 DEF Roles, Prompts, Sound
  <2>3. list \in Seq(Good(reply, P, reply.open)) /\ QueuedIds(list) = QueuedIds(reply.messages)
    BY <2>1, <2>2, RoleGiven
  <2>. HIDE DEF list
  <2>4. list \in MessageList /\ reply \in Widget
    BY <2>1, <2>3, SeqMonotonic DEF Good, MessageList, Sound
  <2>5. closed \in Widget
    BY <2>4 DEF Widget
  <2>6. /\ closed.messages = list /\ closed.sessions = reply.sessions /\ closed.sent = reply.sent
        /\ closed.next = reply.next /\ closed.stream = None /\ SameBook(reply, closed) /\ SameRequests(reply, closed)
    BY <2>4 DEF Widget, SameBook, SameRequests
  <2>. HIDE DEF closed
  <2>7. Sound(closed, P) /\ SameChats(reply, closed) /\ KeepsQueue(reply, closed)
    BY <2>1, <2>3, <2>5, <2>6, MessagesEdited
  <2>8. closed.pending = None /\ closed.open = r.chat
    BY <1>3, <1>6, <2>1, <2>6 DEF SameRequests, SameChats, SameBook
  <2>9. /\ Sound(t, P) /\ SameChats(closed, t) /\ KeepsQueue(closed, t)
        /\ t.pending # None /\ t.pending.request = r /\ t.loading = closed.loading
        /\ t.generation = closed.generation /\ t.active = closed.active /\ t.net = closed.net
        /\ t.lookups = closed.lookups /\ t.stream = closed.stream
    BY <1>3, <2>7, <2>8, CardOpened
  <2>10. w' = t
    BY <1>2, <1>6, <2>8
  <2>. HIDE DEF t
  <2>11. SameChats(w, t) /\ KeepsQueue(w, t)
    <3>1. w \in Widget /\ t \in Widget
      BY <1>1, <2>9 DEF Sound
    <3>2. SameChats(w, reply) /\ KeepsQueue(w, reply)
      BY <1>3, <2>1, <2>4, <3>1, KeptTwice
    <3>3. SameChats(w, closed) /\ KeepsQueue(w, closed)
      BY <2>4, <2>5, <2>7, <3>1, <3>2, KeptTwice
    <3>. QED BY <2>5, <2>9, <3>1, <3>3, KeptTwice
  <2>12. /\ t.open = w.open /\ t.cut = w.cut /\ t.used = w.used /\ t.loading /\ t.generation = w.generation
         /\ t.active = w.active /\ t.net = {} /\ t.lookups = w.lookups /\ t.stream = None
    BY <1>3, <2>1, <2>6, <2>9, <2>11 DEF SameRequests, SameChats, SameBook
  <2>13. \A q : requestIsCurrent(t, q) = requestIsCurrent(w, q)
    BY <2>12 DEF requestIsCurrent
  <2>14. /\ \A q \in w.lookups : q.generation <= w.generation /\ ~requestIsCurrent(w, q)
         /\ w.active # None => w.active \in w.used
    BY <1>2 DEF IInv, Running, OneRequest
  <2>15. OneRequest(t)
    BY <1>3, <2>9, <2>12, <2>13, <2>14 DEF OneRequest
  <2>16. Live(t)
    BY <1>3, <1>6, <2>9, <2>12, <2>13 DEF Live
  <2>17. Onward(w, w', P)
    BY <2>9, <2>10, <2>11, <2>15, <2>16 DEF Onward, Running
  <2>. QED BY <1>2, <1>4, <2>17, OnwardStep
<1>. QED BY <1>5, <1>6

\* The user's message is written and saved.
LEMMA UserAdded ==
    ASSUME NEW P, NEW s, Sound(s, P), NEW role \in Prompts
    PROVE  LET t == saveCurrentSessionState(AddMessage(s, role, s.open)) IN
           /\ Sound(t, P \cup {s.next}) /\ SameChats(s, t) /\ SameRequests(s, t) /\ KeepsQueue(s, t) /\ Backed(t)
           /\ role = "queued" => s.next \in QueuedIds(t.messages)
<1>. DEFINE m == [id |-> s.next, role |-> role, chat |-> s.open]
            list == Append(s.messages, m)
            u == AddMessage(s, role, s.open)
            t == saveCurrentSessionState(u)
            Q == P \cup {s.next}
<1>1. s \in Widget /\ s.messages \in Seq(Good(s, P, s.open)) /\ s.next \in Nat /\ s.open \in Chats
  BY DEF Sound, Widget
<1>2. role \in Roles \ {"asked"}
  BY DEF Roles, Prompts
<1>3. list \in MessageList
  <2>1. Good(s, P, s.open) \subseteq Message /\ m \in Message
    BY <1>1, <1>2 DEF Good, Message
  <2>2. s.messages \in Seq(Message)
    BY <1>1, <2>1, SeqMonotonic
  <2>. QED BY <2>1, <2>2 DEF MessageList
<1>4. u = [s EXCEPT !.messages = list, !.next = s.next + 1]
  BY DEF AddMessage
<1>. HIDE DEF m, list, u
<1>5. u \in Widget
  <2>1. PICK next \in Nat : next = s.next + 1
    BY <1>1
  <2>2. u = [s EXCEPT !.messages = list, !.next = next]
    BY <1>4, <2>1
  <2>. QED BY <1>1, <1>3, <2>2 DEF Widget
<1>6. /\ SameBook(s, u) /\ SameRequests(s, u) /\ u.sent = s.sent /\ u.sessions = s.sessions
      /\ u.messages = list /\ u.next = s.next + 1 /\ u.stream = s.stream /\ u.pending = s.pending
  BY <1>1, <1>4 DEF Widget, SameBook, SameRequests
<1>7. /\ Sound(u, IF role \in Prompts THEN P \cup {s.next} ELSE P) /\ SameChats(s, u)
      /\ QueuedIds(s.messages) \subseteq QueuedIds(u.messages)
      /\ role = "queued" => s.next \in QueuedIds(u.messages)
  BY <1>2, <1>5, <1>6, Added DEF list, m
<1>8. Sound(u, Q)
  BY <1>7
<1>9. /\ Sound(t, Q) /\ SameChats(u, t) /\ SameRequests(u, t)
      /\ t.messages = u.messages /\ t.sent = u.sent /\ Backed(t)
  BY <1>8, Saved
<1>. HIDE DEF t, Q
<1>10. SameChats(s, t) /\ SameRequests(s, t)
  <2>1. u.next \in Nat /\ t.next \in Nat
    BY <1>8, <1>9 DEF Sound, Widget
  <2>. QED BY <1>1, <1>6, <1>7, <1>9, <2>1 DEF SameChats, SameBook, SameRequests
<1>11. KeepsQueue(s, t)
  BY <1>6, <1>7, <1>9 DEF KeepsQueue, SentIds
<1>. QED BY <1>7, <1>9, <1>10, <1>11 DEF t, u, Q

\* The user sends a message, or queues it.
LEMMA SendStep ==
    ASSUME IInv, sendMessage
    PROVE  IInv'
<1>1. PICK P : Sound(w, P)
  BY DEF IInv
<1>. DEFINE s == IF w.loading /\ w.pending # None THEN stopStreaming(w) ELSE w
            role == IF s.loading THEN "queued" ELSE "user"
            added == saveCurrentSessionState(AddMessage(s, role, s.open))
            Q == P \cup {s.next}
<1>2. /\ w' = IF s.loading THEN added ELSE sendMessageByIndex(added, Len(added.messages))
      /\ waiting' = (waiting \cup IF s.loading THEN {s.next} ELSE {}) \ {m.id : m \in ToSet(w'.sent)}
      /\ valid' = valid
  BY DEF sendMessage
<1>3. valid' \in BOOLEAN /\ budget' \in [BudgetNames -> Nat]
  BY <1>2, Spent DEF IInv, sendMessage, BudgetNames
<1>4. Onward(w, s, P)
  <2>1. Running(w)
    BY DEF IInv
  <2>2. Onward(w, w, P)
    BY <1>1, <2>1, SameItself DEF Onward
  <2>. QED BY <1>1, <2>1, <2>2, Stopped DEF Running
<1>. HIDE DEF s
<1>5. Sound(s, P) /\ Running(s) /\ s.next \in Nat /\ s \in Widget /\ w \in Widget
  BY <1>1, <1>4 DEF Onward, Sound, Widget
<1>6. /\ Sound(added, Q) /\ SameChats(s, added) /\ SameRequests(s, added) /\ KeepsQueue(s, added) /\ Backed(added)
      /\ s.loading => s.next \in QueuedIds(added.messages)
  BY <1>5, UserAdded DEF Prompts
<1>. HIDE DEF added, Q
<1>7. Onward(s, w', Q) /\ (s.loading => s.next \in QueuedIds(w'.messages))
  <2>1. CASE s.loading
    <3>1. \A q : requestIsCurrent(added, q) = requestIsCurrent(s, q)
      BY <1>6 DEF requestIsCurrent, SameRequests, SameChats, SameBook
    <3>2. Running(added)
      BY <1>5, <1>6, <3>1 DEF Running, OneRequest, Live, SameRequests, SameChats, SameBook
    <3>. QED BY <1>2, <1>6, <2>1, <3>2 DEF Onward
  <2>2. CASE ~s.loading
    <3>1. Ready(s)
      BY <1>5, <2>2 DEF Running, OneRequest, Ready
    <3>2. Ready(added)
      BY <1>6, <3>1, ReadyStays DEF Edited
    <3>3. Onward(added, w', Q)
      BY <1>2, <1>6, <2>2, <3>2, SentOn
    <3>4. added \in Widget
      BY <1>6 DEF Sound
    <3>. QED BY <1>5, <1>6, <2>2, <3>3, <3>4, OnwardTwice
  <2>. QED BY <2>1, <2>2
<1>8. Onward(w, w', Q)
  BY <1>4, <1>5, <1>7, OnwardTwice DEF Onward
<1>9. Sound(w', Q) /\ Q \in SUBSET Nat /\ Running(w')
  BY <1>8 DEF Onward, Sound
<1>10. Backed(w')
  BY <1>8 DEF IInv, Onward, KeepsQueue
<1>11. w'.cut \/ \A id \in waiting' : Waits(w', id)
  <2>1. w'.cut = w.cut
    BY <1>8 DEF Onward, SameChats, SameBook
  <2>2. ASSUME NEW id \in waiting, Waits(w, id) PROVE Waits(w', id)
    BY <1>8, <2>2, StillWaits DEF Onward
  <2>3. s.loading => Waits(w', s.next)
    BY <1>7 DEF Waits
  <2>. QED BY <1>2, <2>1, <2>2, <2>3 DEF IInv
<1>12. waiting' \subseteq Nat
  BY <1>2, <1>5 DEF IInv
<1>. QED BY <1>3, <1>9, <1>10, <1>11, <1>12 DEF IInv

\* The user answers the model's question.
LEMMA AnswerStep ==
    ASSUME IInv, Answer
    PROVE  IInv'
<1>1. PICK P : Sound(w, P)
  BY DEF IInv
<1>. DEFINE p == w.pending
            r == p.request
            s == saveCurrentSessionState([w EXCEPT !.pending = None, !.messages = WithRole(w.messages, p.id, "answered")])
<1>2. /\ p # None /\ valid' = valid /\ waiting' = waiting /\ budget' = budget
      /\ w' = IF requestIsCurrent(s, r)
              THEN [s EXCEPT !.net = s.net \cup {r}, !.xhr = r.generation, !.loading = TRUE] ELSE s
  BY DEF Answer
<1>3. w \in Widget /\ OneRequest(w) /\ Live(w) /\ r \in Request /\ r.generation \in Nat
  BY <1>1, <1>2 DEF Sound, Widget, IInv, Running, Question, Request
<1>4. w.loading /\ w.net = {} /\ r.generation <= w.generation
  BY <1>2, <1>3 DEF OneRequest
<1>5. /\ \A q \in w.lookups : q.generation <= w.generation /\ ~requestIsCurrent(w, q)
      /\ w.active # None => w.active \in w.used
  BY <1>2, <1>3 DEF OneRequest
<1>6. /\ Sound(s, P) /\ SameChats(w, s) /\ KeepsQueue(w, s)
      /\ s.pending = None
      /\ s.loading = w.loading /\ s.generation = w.generation /\ s.active = w.active
      /\ s.lookups = w.lookups /\ s.net = w.net /\ s.stream = w.stream
  BY <1>1, <1>2, QuestionOver
<1>7. s.open = w.open /\ s.cut = w.cut /\ s.used = w.used /\ s \in Widget
  BY <1>6 DEF SameChats, SameBook, Sound
<1>. HIDE DEF s
<1>8. \A q : requestIsCurrent(s, q) = requestIsCurrent(w, q)
  BY <1>6, <1>7 DEF requestIsCurrent
<1>9. CASE ~requestIsCurrent(s, r)
  <2>1. OneRequest(s) /\ Live(s)
    BY <1>2, <1>3, <1>4, <1>5, <1>6, <1>7, <1>8, <1>9 DEF OneRequest, Live
  <2>2. Onward(w, w', P)
    BY <1>2, <1>6, <1>9, <2>1 DEF Onward, Running
  <2>. QED BY <1>2, <2>2, OnwardStep DEF IInv
<1>10. CASE requestIsCurrent(s, r)
  <2>1. PICK net \in SUBSET Request, g \in Nat : net = {r} /\ g = r.generation
    BY <1>3
  <2>2. w' = [s EXCEPT !.net = net, !.xhr = g, !.loading = TRUE]
    BY <1>2, <1>4, <1>6, <1>10, <2>1
  <2>3. w' \in Widget
    BY <1>7, <2>2 DEF Widget
  <2>4. /\ w'.messages = s.messages /\ w'.sessions = s.sessions /\ w'.sent = s.sent /\ w'.next = s.next
        /\ w'.open = s.open /\ w'.used = s.used /\ w'.undoable = s.undoable /\ w'.returned = s.returned
        /\ w'.cut = s.cut /\ w'.pending = s.pending /\ w'.stream = s.stream /\ w'.loading = TRUE
        /\ w'.generation = s.generation /\ w'.active = s.active /\ w'.net = {r} /\ w'.xhr = r.generation
        /\ w'.lookups = s.lookups
    BY <1>7, <2>1, <2>2 DEF Widget
  <2>5. Sound(w', P) /\ SameChats(s, w') /\ KeepsQueue(s, w')
    BY <1>6, <2>3, <2>4, RequestEdited
  <2>6. \A q : requestIsCurrent(w', q) = requestIsCurrent(s, q)
    BY <2>4 DEF requestIsCurrent
  <2>7. OneRequest(w')
    BY <1>4, <1>5, <1>6, <1>7, <1>8, <2>4, <2>6 DEF OneRequest
  <2>8. Live(w')
    BY <1>6, <1>10, <2>4, <2>6 DEF Live
  <2>9. Onward(s, w', P)
    BY <2>5, <2>7, <2>8 DEF Onward, Running
  <2>10. Onward(w, w', P)
    BY <1>3, <1>6, <1>7, <2>9, OnwardTwice
  <2>. QED BY <1>2, <2>10, OnwardStep DEF IInv
<1>. QED BY <1>9, <1>10

\* What was edited while a request runs leaves it running.
LEMMA EditedStep ==
    ASSUME IInv, NEW P, Edited(w, w', P), waiting' \subseteq waiting,
           valid' \in BOOLEAN, budget' \in [BudgetNames -> Nat]
    PROVE  IInv'
<1>1. \A q : requestIsCurrent(w', q) = requestIsCurrent(w, q)
  BY DEF Edited, SameRequests, SameChats, SameBook, requestIsCurrent
<1>2. Running(w')
  BY <1>1 DEF IInv, Running, OneRequest, Live, Edited, SameRequests, SameChats, SameBook
<1>3. Onward(w, w', P)
  BY <1>2 DEF Onward, Edited
<1>. QED BY <1>3, OnwardStep

\* The user closes a card that was left over.
LEMMA DismissStep ==
    ASSUME IInv, NEW id, Dismiss(id)
    PROVE  IInv'
<1>1. PICK P : Sound(w, P)
  BY DEF IInv
<1>. DEFINE list == WithRole(w.messages, id, "answered")
            u == [w EXCEPT !.messages = list]
<1>2. /\ w' = saveCurrentSessionState(u) /\ valid' = valid /\ waiting' = waiting /\ budget' = budget
      /\ \E m \in ToSet(w.messages) : m.id = id /\ m.role = "asked"
  BY DEF Dismiss
<1>3. w \in Widget /\ w.messages \in Seq(Good(w, P, w.open))
  BY <1>1 DEF Sound
<1>4. id \notin P
  BY <1>2, <1>3 DEF ToSet, Good, Prompts
<1>5. "answered" \in Roles \ (Prompts \cup {"asked"})
  BY DEF Roles, Prompts
<1>6. list \in Seq(Good(w, P, w.open)) /\ QueuedIds(list) = QueuedIds(w.messages)
  BY <1>1, <1>4, <1>5, RoleGiven
<1>7. list \in MessageList
  BY <1>6, SeqMonotonic DEF Good, MessageList
<1>. HIDE DEF list
<1>8. u \in Widget
  BY <1>3, <1>7 DEF Widget
<1>9. /\ u.messages = list /\ u.sessions = w.sessions /\ u.sent = w.sent /\ u.next = w.next
      /\ SameBook(w, u) /\ SameRequests(w, u)
  BY <1>3 DEF Widget, SameBook, SameRequests
<1>. HIDE DEF u
<1>10. Edited(w, u, P)
  BY <1>1, <1>6, <1>8, <1>9, MessagesEdited DEF Edited
<1>11. Edited(w, w', P)
  <2>1. Edited(u, w', P)
    BY <1>2, <1>10, Saved DEF Edited
  <2>. QED BY <1>1, <1>10, <2>1, EditedTwice
<1>. QED BY <1>2, <1>11, EditedStep DEF IInv

\* The user stops the reply.
LEMMA StopStep ==
    ASSUME IInv, Stop
    PROVE  IInv'
<1>1. PICK P : Sound(w, P)
  BY DEF IInv
<1>2. w' = stopStreaming(w) /\ valid' = valid /\ waiting' = waiting /\ budget' = budget
  BY DEF Stop
<1>3. Onward(w, w', P)
  BY <1>1, <1>2, Stopped DEF IInv, Running
<1>. QED BY <1>2, <1>3, OnwardStep DEF IInv

\* The queue of a chat just opened goes on.
LEMMA LaterStep ==
    ASSUME IInv, CalledLater
    PROVE  IInv'
<1>1. PICK P : Sound(w, P)
  BY DEF IInv
<1>. DEFINE s == [w EXCEPT !.later = FALSE]
<1>2. w' = processNextQueuedMessage(s) /\ valid' = valid /\ waiting' = waiting /\ budget' = budget
  BY DEF CalledLater
<1>3. w \in Widget
  BY <1>1 DEF Sound
<1>4. s \in Widget
  BY <1>3 DEF Widget
<1>5. /\ s.messages = w.messages /\ s.sessions = w.sessions /\ s.sent = w.sent /\ s.next = w.next
      /\ SameBook(w, s) /\ SameRequests(w, s)
  BY <1>3 DEF Widget, SameBook, SameRequests
<1>. HIDE DEF s
<1>6. Sound(s, P) /\ SameChats(w, s) /\ KeepsQueue(w, s)
  BY <1>1, <1>4, <1>5, RequestEdited DEF SameBook, SameRequests
<1>7. \A q : requestIsCurrent(s, q) = requestIsCurrent(w, q)
  BY <1>5 DEF SameRequests, SameBook, requestIsCurrent
<1>8. Running(s)
  BY <1>5, <1>7 DEF IInv, Running, OneRequest, Live, SameRequests, SameBook
<1>9. Onward(s, w', P)
  BY <1>2, <1>6, <1>8, Processed
<1>10. Onward(w, w', P)
  BY <1>3, <1>4, <1>6, <1>9, OnwardTwice
<1>. QED BY <1>2, <1>10, OnwardStep DEF IInv

\* A message that waits still does, unless the model has lost sight of it.
Carries(s, t) ==
    /\ s.cut => t.cut
    /\ t.cut \/ \A id : Waits(s, id) => Waits(t, id)

\* What two moves carry, both together carry.
LEMMA CarriesTwice ==
    ASSUME NEW s, NEW t, NEW u, Carries(s, t), Carries(t, u)
    PROVE  Carries(s, u)
BY DEF Carries

\* What leaves the other chats alone and keeps the queue carries all that waits.
LEMMA KeepsCarries ==
    ASSUME NEW s, NEW t, SameChats(s, t), KeepsQueue(s, t)
    PROVE  Carries(s, t)
BY StillWaits DEF Carries, SameChats, SameBook

\* A step to a state that is sound, for which some of what waited may have been deleted.
LEMMA LastStep ==
    ASSUME IInv, NEW P, Sound(w', P), Running(w'), Backed(w'), waiting' \subseteq waiting,
           w.cut => w'.cut, \A id \in waiting' : w'.cut \/ (Waits(w, id) => Waits(w', id)),
           valid' \in BOOLEAN, budget' \in [BudgetNames -> Nat]
    PROVE  IInv'
<1>1. P \in SUBSET Nat
  BY DEF Sound
<1>2. w'.cut \/ \A id \in waiting' : Waits(w', id)
  BY DEF IInv
<1>3. waiting' \subseteq Nat
  BY DEF IInv
<1>. QED BY <1>1, <1>2, <1>3 DEF IInv

\* What may stand in a chat still may, when cards of questions came back or the question belongs elsewhere.
LEMMA GoodStays ==
    ASSUME NEW P, NEW s, NEW t, t.next = s.next, s.returned \subseteq t.returned, NEW c,
           s.pending = None \/ c # s.open \/ (t.pending = s.pending /\ t.open = s.open)
    PROVE  Good(s, P, c) \subseteq Good(t, P, c)
BY DEF Good

\* What Undo holds it still may, when cards of questions came back.
LEMMA HeldStays ==
    ASSUME NEW P, NEW s, NEW t, t.next = s.next, s.returned \subseteq t.returned, NEW u
    PROVE  Held(s, P, u) \subseteq Held(t, P, u)
BY DEF Held

\* What stands in a chat may be held by Undo: no question is asked in it, or it was cleared.
LEMMA GoodHeld ==
    ASSUME NEW P, NEW s, NEW u, s.pending = None \/ u.chat # s.open \/ u.kind = "clear"
    PROVE  Good(s, P, u.chat) \subseteq Held(s, P, u)
BY DEF Good, Held

\* What Undo holds of a chat deleted or rewound may stand in it again.
LEMMA HeldGood ==
    ASSUME NEW P, NEW s, NEW u, u.kind # "clear"
    PROVE  Held(s, P, u) \subseteq Good(s, P, u.chat)
BY DEF Good, Held

\* A state ready for a request has none that is current.
LEMMA ReadyRuns ==
    ASSUME NEW s, Ready(s)
    PROVE  Running(s) /\ s.stream = None
BY DEF Ready, Running, OneRequest, Live

\* Undo is offered for something else, or no longer.
LEMMA UndoChanged ==
    ASSUME NEW P, NEW s, Sound(s, P), NEW t \in Widget, t.messages = s.messages, t.sessions = s.sessions,
           t.sent = s.sent, t.next = s.next, t.open = s.open, t.used = s.used, t.returned = s.returned,
           t.cut = s.cut, SameRequests(s, t),
           t.undoable # None => /\ t.undoable.chat \in t.used /\ t.undoable.kind # "delete"
                                /\ t.undoable.messages \in Seq(Held(s, P, t.undoable))
    PROVE  /\ Sound(t, P) /\ Carries(s, t)
           /\ Running(s) => Running(t)
           /\ Ready(s) => Ready(t)
           /\ Backed(s) => Backed(t)
<1>1. \A c : Good(t, P, c) = Good(s, P, c)
  BY DEF Good, SameRequests
<1>2. \A u : Held(t, P, u) = Held(s, P, u)
  BY DEF Held
<1>3. s.open \in Chats
  BY DEF Sound, Widget
<1>4. Sound(t, P)
  <2>1. \A c \in Chats : t.sessions[c] # None => c \in t.used /\ t.sessions[c] \in Seq(Good(t, P, c))
    BY <1>1 DEF Sound
  <2>2. t.messages \in Seq(Good(t, P, t.open)) /\ t.sessions[t.open] # None
    BY <1>1 DEF Sound
  <2>3. t.undoable # None => /\ t.undoable.chat \in t.used /\ t.undoable.kind # "delete"
                             /\ t.undoable.messages \in Seq(Held(t, P, t.undoable))
    BY <1>2
  <2>4. /\ t.stream # None => t.stream < t.next /\ t.stream \notin P
        /\ t.pending # None => t.pending.id < t.next /\ t.pending.id \notin P
        /\ \A i \in P : i \in Nat /\ i < t.next
    BY DEF Sound, SameRequests
  <2>. QED BY <2>1, <2>2, <2>3, <2>4 DEF Sound
<1>5. \A q : requestIsCurrent(t, q) = requestIsCurrent(s, q)
  BY DEF SameRequests, requestIsCurrent
<1>6. OneRequest(s) => OneRequest(t)
  BY <1>5 DEF OneRequest, SameRequests
<1>7. Running(s) => Running(t)
  BY <1>5, <1>6 DEF Running, Live, SameRequests
<1>8. Ready(s) => Ready(t)
  BY <1>6 DEF Ready, SameRequests
<1>9. (Backed(s) => Backed(t)) /\ Carries(s, t)
  BY DEF Backed, Carries, Waits, SentIds
<1>. QED BY <1>4, <1>7, <1>8, <1>9

\* Another chat is opened, a new one perhaps: the one before is in the list with all that waits in it.
LEMMA Opened ==
    ASSUME NEW P, NEW s, Sound(s, P), Ready(s), Backed(s), NEW t \in Widget, t.open # s.open,
           NEW list \in Seq(Good(s, P, t.open)), t.messages = list, t.sessions[t.open] = list, t.open \in t.used,
           \A d \in Chats \ {t.open} : t.sessions[d] = s.sessions[d],
           s.sessions[t.open] \in {list, None}, s.sessions[t.open] = None => t.open \notin s.used,
           s.used \subseteq t.used, t.next = s.next, t.undoable = s.undoable, t.cut = s.cut,
           t.returned = s.returned, t.sent = s.sent, t.lookups = s.lookups, t.net = s.net, t.pending = s.pending,
           t.loading = s.loading, t.generation = s.generation, t.active = s.active, t.stream = None,
           t.open \notin s.used => t.open # s.active
    PROVE  Sound(t, P) /\ Ready(t) /\ Backed(t) /\ Carries(s, t)
<1>. DEFINE c == t.open
<1>1. /\ s \in Widget /\ c \in Chats /\ s.open \in Chats /\ s.pending = None /\ s.net = {} /\ ~s.loading
      /\ s.sessions[s.open] # None /\ list # None
  <2>1. list \in MessageList
    BY SeqMonotonic DEF Good, MessageList
  <2>. QED BY <2>1, NoneApart DEF Sound, Widget, Ready
<1>2. \A d : Good(s, P, d) \subseteq Good(t, P, d)
  BY <1>1, GoodStays
<1>3. list \in Seq(Good(t, P, c))
  BY <1>2, SeqMonotonic
<1>4. ASSUME NEW d \in Chats, t.sessions[d] # None
      PROVE  d \in t.used /\ t.sessions[d] \in Seq(Good(t, P, d))
  <2>1. CASE d = c
    BY <1>3, <2>1
  <2>2. CASE d # c
    <3>1. d \in s.used /\ s.sessions[d] \in Seq(Good(s, P, d)) /\ t.sessions[d] = s.sessions[d]
      BY <1>4, <2>2 DEF Sound
    <3>. QED BY <1>2, <3>1, SeqMonotonic
  <2>. QED BY <2>1, <2>2
<1>5. ASSUME t.undoable # None
      PROVE  /\ t.undoable.chat \in t.used /\ t.undoable.messages \in Seq(Held(t, P, t.undoable))
             /\ t.undoable.kind = "delete" => t.sessions[t.undoable.chat] = None
  <2>. DEFINE u == s.undoable
  <2>1. /\ u.chat \in s.used /\ u.messages \in Seq(Held(s, P, u))
        /\ u.kind = "delete" => s.sessions[u.chat] = None
        /\ u.chat \in Chats
    BY <1>1, <1>5 DEF Sound, Widget
  <2>2. Held(s, P, u) \subseteq Held(t, P, u)
    BY HeldStays
  <2>3. u.messages \in Seq(Held(t, P, u))
    BY <2>1, <2>2, SeqMonotonic
  <2>4. u.kind = "delete" => u.chat # c
    BY <2>1
  <2>. QED BY <2>1, <2>3, <2>4
<1>6. Sound(t, P)
  <2>1. /\ \A i \in P : i \in Nat /\ i < t.next
        /\ t.pending = None
    BY <1>1 DEF Sound
  <2>. QED BY <1>1, <1>3, <1>4, <1>5, <2>1 DEF Sound
<1>7. Ready(t)
  BY <1>1 DEF Ready, OneRequest
<1>8. Backed(t)
  BY DEF Backed
<1>9. ASSUME NEW id, Waits(s, id) PROVE Waits(t, id)
  <2>1. CASE id \in SentIds(s)
    BY <2>1 DEF Waits, SentIds
  <2>2. CASE id \in QueuedIds(s.messages)
    <3>1. id \in QueuedIds(s.sessions[s.open]) /\ t.sessions[s.open] = s.sessions[s.open]
      BY <1>1, <2>2 DEF Backed
    <3>. QED BY <1>1, <3>1 DEF Waits
  <2>3. CASE \E d \in Chats \ {s.open} : s.sessions[d] # None /\ id \in QueuedIds(s.sessions[d])
    <3>1. PICK d \in Chats \ {s.open} : s.sessions[d] # None /\ id \in QueuedIds(s.sessions[d])
      BY <2>3
    <3>2. CASE d = c
      BY <3>1, <3>2 DEF Waits
    <3>3. CASE d # c
      BY <3>1, <3>3 DEF Waits
    <3>. QED BY <3>2, <3>3
  <2>. QED BY <1>9, <2>1, <2>2, <2>3 DEF Waits
<1>10. Carries(s, t)
  BY <1>9 DEF Carries
<1>. QED BY <1>6, <1>7, <1>8, <1>10

\* Giving up what runs and saving, before another chat is opened.
LEMMA GivenUp ==
    ASSUME NEW P, NEW s, Sound(s, P), OneRequest(s)
    PROVE  LET t == saveCurrentSessionState(invalidateActiveRequest(s)) IN Rested(s, t, P) /\ Backed(t)
<1>. DEFINE u == invalidateActiveRequest(s)
            t == saveCurrentSessionState(u)
<1>1. Rested(s, u, P)
  BY Invalidated
<1>. HIDE DEF u
<1>2. Edited(u, t, P) /\ Backed(t)
  BY <1>1, Saved DEF Edited, Rested
<1>3. Ready(t)
  BY <1>1, <1>2, ReadyStays DEF Rested
<1>. HIDE DEF t
<1>4. s \in Widget /\ u \in Widget /\ t \in Widget
  BY <1>1, <1>2 DEF Sound, Rested, Edited
<1>5. SameChats(s, t) /\ KeepsQueue(s, t)
  BY <1>1, <1>2, <1>4, KeptTwice DEF Edited, Rested
<1>. QED BY <1>2, <1>3, <1>5 DEF Edited, Rested, t, u

\* Opening a chat keeps the types.
LEMMA OpenTyped ==
    ASSUME NEW s \in Widget, NEW c \in Chats, NEW list \in MessageList, NEW used \in SUBSET Chats,
           NEW sessions \in [Chats -> MessageList \cup {None}], NEW later \in BOOLEAN
    PROVE  [s EXCEPT !.sessions = sessions, !.used = used, !.open = c, !.messages = list, !.stream = None,
                     !.editing = None, !.later = later] \in Widget
BY DEF Widget

\* Switching gives up what runs, saves, and opens the other chat.
LEMMA SwitchKept ==
    ASSUME NEW P, NEW s, Sound(s, P), OneRequest(s), NEW c \in Chats, c # s.open, s.sessions[c] # None
    PROVE  LET t == SwitchTo(s, c) IN Sound(t, P) /\ Ready(t) /\ Backed(t) /\ Carries(s, t)
<1>. DEFINE u == saveCurrentSessionState(invalidateActiveRequest(s))
            t == [u EXCEPT !.open = c, !.messages = u.sessions[c], !.stream = None, !.editing = None, !.later = TRUE]
<1>1. Rested(s, u, P) /\ Backed(u)
  BY GivenUp
<1>2. SwitchTo(s, c) = t
  BY DEF SwitchTo
<1>. HIDE DEF u
<1>3. /\ Sound(u, P) /\ Ready(u) /\ u \in Widget /\ u.open = s.open /\ u.sessions[c] = s.sessions[c]
      /\ Carries(s, u)
  BY <1>1, KeepsCarries DEF Rested, Sound, SameChats, SameBook
<1>4. c \in u.used /\ u.sessions[c] \in Seq(Good(u, P, c))
  BY <1>3 DEF Sound
<1>5. PICK list \in Seq(Good(u, P, c)) : list = u.sessions[c]
  BY <1>4
<1>6. list \in MessageList /\ TRUE \in BOOLEAN
  BY SeqMonotonic DEF Good, MessageList
<1>7. t = [u EXCEPT !.sessions = u.sessions, !.used = u.used, !.open = c, !.messages = list, !.stream = None,
                    !.editing = None, !.later = TRUE]
  BY <1>3, <1>5 DEF Widget
<1>. HIDE DEF t
<1>8. t \in Widget
  <2>1. u.sessions \in [Chats -> MessageList \cup {None}] /\ u.used \in SUBSET Chats
    BY <1>3 DEF Widget
  <2>. QED BY <1>3, <1>6, <1>7, <2>1, OpenTyped
<1>9. /\ t.open = c /\ t.messages = list /\ t.sessions = u.sessions /\ t.used = u.used /\ t.next = u.next
      /\ t.undoable = u.undoable /\ t.cut = u.cut /\ t.returned = u.returned /\ t.sent = u.sent
      /\ t.lookups = u.lookups /\ t.net = u.net /\ t.pending = u.pending /\ t.loading = u.loading
      /\ t.generation = u.generation /\ t.active = u.active /\ t.stream = None
  BY <1>3, <1>7 DEF Widget
<1>10. Sound(t, P) /\ Ready(t) /\ Backed(t) /\ Carries(u, t)
  BY <1>1, <1>3, <1>4, <1>5, <1>8, <1>9, Opened
<1>. QED BY <1>2, <1>3, <1>10, CarriesTwice

\* One chat's messages are put in the list.
LEMMA PutIn ==
    ASSUME NEW T, NEW f \in [Chats -> T], NEW c \in Chats, NEW v \in T
    PROVE  LET g == [f EXCEPT ![c] = v] IN
           g \in [Chats -> T] /\ g[c] = v /\ \A d \in Chats \ {c} : g[d] = f[d]
OBVIOUS

\* A new chat is opened; what waits in the one before is in the list.
LEMMA CreateStep ==
    ASSUME IInv, NEW c \in Chats, createSession(c)
    PROVE  IInv'
<1>1. PICK P : Sound(w, P)
  BY DEF IInv
<1>. DEFINE s == IF w.loading THEN invalidateActiveRequest(w) ELSE w
<1>2. /\ c \notin w.used /\ valid' = valid /\ waiting' = waiting
      /\ w' = [s EXCEPT !.sessions = [s.sessions EXCEPT ![c] = <<>>], !.used = s.used \cup {c}, !.open = c,
                        !.messages = <<>>, !.stream = None, !.editing = None]
  BY DEF createSession
<1>3. valid' \in BOOLEAN /\ budget' \in [BudgetNames -> Nat]
  BY <1>2, Spent DEF IInv, createSession, BudgetNames
<1>4. Rested(w, s, P)
  <2>1. CASE w.loading
    BY <1>1, <2>1, Invalidated DEF IInv, Running
  <2>2. CASE ~w.loading
    BY <1>1, <2>2, SameItself DEF IInv, Running, OneRequest, Ready, Rested
  <2>. QED BY <2>1, <2>2
<1>. HIDE DEF s
<1>5. Sound(s, P) /\ Ready(s) /\ s \in Widget /\ s.used = w.used /\ s.cut = w.cut /\ Carries(w, s)
  BY <1>4, KeepsCarries DEF Rested, Sound, SameChats, SameBook
<1>6. Backed(s)
  BY <1>4 DEF IInv, Rested, KeepsQueue
<1>7. /\ s.open \in s.used /\ s.sessions[c] = None /\ s.sessions \in [Chats -> MessageList \cup {None}]
      /\ s.used \in SUBSET Chats /\ s.later \in BOOLEAN
  BY <1>2, <1>5 DEF Sound, Widget
<1>8. <<>> \in MessageList /\ <<>> \in Seq(Good(s, P, c))
  BY DEF MessageList
<1>9. PICK list \in Seq(Good(s, P, c)) : list = <<>>
  BY <1>8
<1>10. PICK sessions \in [Chats -> MessageList \cup {None}] :
          /\ sessions = [s.sessions EXCEPT ![c] = list]
          /\ sessions[c] = list /\ \A d \in Chats \ {c} : sessions[d] = s.sessions[d]
  <2>. DEFINE T == MessageList \cup {None}
              sessions == [s.sessions EXCEPT ![c] = list]
  <2>1. list \in T /\ s.sessions \in [Chats -> T]
    BY <1>7, <1>8, <1>9
  <2>. HIDE DEF T
  <2>2. sessions \in [Chats -> T] /\ sessions[c] = list /\ \A d \in Chats \ {c} : sessions[d] = s.sessions[d]
    BY <2>1, PutIn
  <2>. QED BY <2>2, Zenon DEF T
<1>11. PICK used \in SUBSET Chats : used = s.used \cup {c}
  BY <1>7
<1>12. [s.sessions EXCEPT ![c] = <<>>] = sessions
  BY <1>7, <1>9, <1>10
<1>13. w' = [s EXCEPT !.sessions = sessions, !.used = used, !.open = c, !.messages = list, !.stream = None,
                      !.editing = None, !.later = s.later]
  BY <1>2, <1>5, <1>9, <1>11, <1>12 DEF Widget
<1>14. w' \in Widget
  BY <1>5, <1>7, <1>8, <1>9, <1>13, OpenTyped
<1>15. /\ w'.open = c /\ w'.messages = list /\ w'.sessions = sessions /\ w'.used = used /\ w'.next = s.next
       /\ w'.undoable = s.undoable /\ w'.cut = s.cut /\ w'.returned = s.returned /\ w'.sent = s.sent
       /\ w'.lookups = s.lookups /\ w'.net = s.net /\ w'.pending = s.pending /\ w'.loading = s.loading
       /\ w'.generation = s.generation /\ w'.active = s.active /\ w'.stream = None
  BY <1>5, <1>13 DEF Widget
<1>16. c # s.open /\ c # s.active
  BY <1>2, <1>5, <1>7, NoneApart DEF Ready, OneRequest
<1>17. Sound(w', P) /\ Ready(w') /\ Backed(w') /\ Carries(s, w')
  <2>1. /\ w'.open # s.open /\ list \in Seq(Good(s, P, w'.open)) /\ w'.sessions[w'.open] = list /\ w'.open \in w'.used
        /\ \A d \in Chats \ {w'.open} : w'.sessions[d] = s.sessions[d]
        /\ s.sessions[w'.open] = None /\ w'.open \notin s.used /\ s.used \subseteq w'.used /\ w'.open # s.active
    BY <1>2, <1>5, <1>7, <1>10, <1>11, <1>15, <1>16
  <2>. QED BY <1>5, <1>6, <1>14, <1>15, <2>1, Opened
<1>18. Carries(w, w')
  BY <1>5, <1>17, CarriesTwice
<1>. QED BY <1>2, <1>3, <1>17, <1>18, ReadyRuns, LastStep DEF Carries

\* Another chat is opened.
LEMMA SwitchStep ==
    ASSUME IInv, NEW c \in Chats, switchSession(c)
    PROVE  IInv'
<1>1. PICK P : Sound(w, P)
  BY DEF IInv
<1>2. c # w.open /\ w.sessions[c] # None /\ w' = SwitchTo(w, c) /\ valid' = valid /\ waiting' = waiting
  BY DEF switchSession, Listed
<1>3. valid' \in BOOLEAN /\ budget' \in [BudgetNames -> Nat]
  BY <1>2, Spent DEF IInv, switchSession, BudgetNames
<1>4. Sound(w', P) /\ Ready(w') /\ Backed(w') /\ Carries(w, w')
  BY <1>1, <1>2, SwitchKept DEF IInv, Running
<1>. QED BY <1>2, <1>3, <1>4, ReadyRuns, LastStep DEF Carries

\* Deleting a chat keeps the types.
LEMMA DeletedTyped ==
    ASSUME NEW s \in Widget, NEW c \in Chats, NEW list \in MessageList, NEW u \in Undoable,
           NEW sessions \in [Chats -> MessageList \cup {None}]
    PROVE  [s EXCEPT !.sessions = sessions, !.undoable = u, !.open = c, !.messages = list] \in Widget
BY DEF Widget

\* A chat that is not open is deleted, and Undo holds it.
LEMMA Deleted ==
    ASSUME NEW P, NEW s, Sound(s, P), Backed(s), NEW c \in Chats, c # s.open, NEW list \in Seq(Good(s, P, c)),
           s.sessions[c] = list, c \in s.used,
           NEW t \in Widget, t.messages = s.messages, t.sent = s.sent, t.next = s.next, t.open = s.open,
           t.used = s.used, t.returned = s.returned, t.cut = s.cut, t.lookups = s.lookups, t.net = s.net,
           t.xhr = s.xhr, t.pending = s.pending, t.loading = s.loading, t.generation = s.generation,
           t.active = s.active, t.stream = s.stream,
           t.sessions[c] = None, \A d \in Chats \ {c} : t.sessions[d] = s.sessions[d],
           t.undoable.kind = "delete", t.undoable.chat = c, t.undoable.messages = list
    PROVE  /\ Sound(t, P) /\ Backed(t)
           /\ Running(s) => Running(t)
           /\ \A id : Waits(s, id) /\ ~Has(list, id) => Waits(t, id)
<1>1. s.open \in Chats /\ t.sessions[t.open] = s.sessions[s.open]
  BY DEF Sound, Widget
<1>2. \A d : Good(t, P, d) = Good(s, P, d)
  BY DEF Good
<1>3. list \in Seq(Held(t, P, t.undoable))
  <2>1. Good(t, P, t.undoable.chat) \subseteq Held(t, P, t.undoable)
    BY GoodHeld
  <2>2. list \in Seq(Good(t, P, t.undoable.chat))
    BY <1>2
  <2>. QED BY <2>1, <2>2, SeqMonotonic
<1>4. \A d \in Chats : t.sessions[d] # None => d \in t.used /\ t.sessions[d] \in Seq(Good(t, P, d))
  BY <1>2 DEF Sound
<1>5. Sound(t, P)
  <2>1. /\ \A i \in P : i \in Nat /\ i < t.next
        /\ t.sessions[t.open] # None /\ t.messages \in Seq(Good(t, P, t.open))
        /\ t.stream # None => t.stream < t.next /\ t.stream \notin P
        /\ t.pending # None => t.pending.id < t.next /\ t.pending.id \notin P
    BY <1>1, <1>2 DEF Sound
  <2>. QED BY <1>3, <1>4, <2>1 DEF Sound
<1>6. Backed(t)
  BY <1>1 DEF Backed
<1>7. \A q : requestIsCurrent(t, q) = requestIsCurrent(s, q)
  BY DEF requestIsCurrent
<1>8. Running(s) => Running(t)
  BY <1>7 DEF Running, OneRequest, Live
<1>9. ASSUME NEW id, Waits(s, id), ~Has(list, id) PROVE Waits(t, id)
  <2>1. CASE id \in QueuedIds(s.messages) \cup SentIds(s)
    BY <2>1 DEF Waits, SentIds
  <2>2. CASE \E d \in Chats \ {s.open} : s.sessions[d] # None /\ id \in QueuedIds(s.sessions[d])
    <3>1. PICK d \in Chats \ {s.open} : s.sessions[d] # None /\ id \in QueuedIds(s.sessions[d])
      BY <2>2
    <3>2. d # c
      BY <1>9, <3>1 DEF QueuedIds, Queued, Has
    <3>. QED BY <3>1, <3>2 DEF Waits
  <2>. QED BY <1>9, <2>1, <2>2 DEF Waits
<1>. QED BY <1>5, <1>6, <1>8, <1>9

\* A chat is deleted with what waits in it; if it was open, another one is.
LEMMA DeleteStep ==
    ASSUME IInv, NEW c \in Chats, deleteSession(c)
    PROVE  IInv'
<1>1. PICK P : Sound(w, P)
  BY DEF IInv
<1>. DEFINE s == IF c = w.open THEN invalidateActiveRequest(w) ELSE w
            u == [kind |-> "delete", chat |-> c, messages |-> s.sessions[c], wasOpen |-> c = w.open]
            gone == [s EXCEPT !.sessions = [s.sessions EXCEPT ![c] = None], !.undoable = u]
<1>2. /\ w.sessions[c] # None /\ valid' = valid /\ waiting' = {id \in waiting : ~Has(w.sessions[c], id)}
      /\ IF c # w.open THEN w' = gone
         ELSE \E d \in NextOpen(s, c) : w' = [gone EXCEPT !.open = d, !.messages = s.sessions[d]]
  BY DEF deleteSession, Listed
<1>3. valid' \in BOOLEAN /\ budget' \in [BudgetNames -> Nat]
  BY <1>2, Spent DEF IInv, deleteSession, BudgetNames
<1>4. w \in Widget /\ Running(w) /\ Backed(w) /\ OneRequest(w)
  BY <1>1 DEF Sound, IInv, Running
<1>5. Sound(s, P) /\ Running(s) /\ Backed(s) /\ SameChats(w, s) /\ KeepsQueue(w, s)
  <2>1. CASE c = w.open
    <3>1. Rested(w, s, P)
      BY <1>1, <1>4, <2>1, Invalidated
    <3>. QED BY <1>4, <3>1, ReadyRuns DEF Rested, KeepsQueue
  <2>2. CASE c # w.open
    BY <1>1, <1>4, <2>2, SameItself
  <2>. QED BY <2>1, <2>2
<1>6. c = w.open => Ready(s)
  BY <1>1, <1>4, Invalidated DEF Rested
<1>. HIDE DEF s
<1>7. /\ s \in Widget /\ s.open = w.open /\ s.cut = w.cut /\ s.sessions \in [Chats -> MessageList \cup {None}]
      /\ s.sessions[c] # None
      /\ \A d \in Chats \ {w.open} : s.sessions[d] = w.sessions[d]
  BY <1>2, <1>5 DEF Sound, Widget, SameChats, SameBook
<1>8. c \in s.used /\ s.sessions[c] \in Seq(Good(s, P, c)) /\ s.sessions[c] \in MessageList
  BY <1>5, <1>7 DEF Sound
<1>9. PICK list \in Seq(Good(s, P, c)) : list = s.sessions[c] /\ list \in MessageList
  BY <1>8
<1>10. /\ u \in Undoable /\ u.kind = "delete" /\ u.chat = c /\ u.messages = list
  BY <1>9 DEF Undoable
<1>11. PICK sessions \in [Chats -> MessageList \cup {None}] :
         /\ sessions = [s.sessions EXCEPT ![c] = None]
         /\ sessions[c] = None /\ \A d \in Chats \ {c} : sessions[d] = s.sessions[d]
  <2>. DEFINE T == MessageList \cup {None}
              sessions == [s.sessions EXCEPT ![c] = None]
  <2>1. None \in T /\ s.sessions \in [Chats -> T]
    BY <1>7
  <2>. HIDE DEF T
  <2>2. sessions \in [Chats -> T] /\ sessions[c] = None /\ \A d \in Chats \ {c} : sessions[d] = s.sessions[d]
    BY <2>1, PutIn
  <2>. QED BY <2>2, Zenon DEF T
<1>. HIDE DEF u
<1>12. gone = [s EXCEPT !.sessions = sessions, !.undoable = u]
  BY <1>11
<1>. HIDE DEF gone
<1>13. CASE c # w.open
  <2>1. w' = [s EXCEPT !.sessions = sessions, !.undoable = u, !.open = s.open, !.messages = s.messages]
    BY <1>2, <1>7, <1>12, <1>13 DEF Widget
  <2>2. w' \in Widget
    BY <1>7, <1>10, <2>1, DeletedTyped DEF Widget
  <2>3. /\ w'.messages = s.messages /\ w'.sent = s.sent /\ w'.next = s.next /\ w'.open = s.open
        /\ w'.used = s.used /\ w'.returned = s.returned /\ w'.cut = s.cut /\ w'.lookups = s.lookups
        /\ w'.net = s.net /\ w'.xhr = s.xhr /\ w'.pending = s.pending /\ w'.loading = s.loading
        /\ w'.generation = s.generation /\ w'.active = s.active /\ w'.stream = s.stream
        /\ w'.sessions = sessions /\ w'.undoable = u
    BY <1>7, <2>1 DEF Widget
  <2>4. /\ w'.sessions[c] = None /\ \A d \in Chats \ {c} : w'.sessions[d] = s.sessions[d]
        /\ w'.undoable.kind = "delete" /\ w'.undoable.chat = c /\ w'.undoable.messages = list
    BY <1>10, <1>11, <2>3
  <2>5. /\ Sound(w', P) /\ Backed(w') /\ Running(w')
        /\ \A id : Waits(s, id) /\ ~Has(list, id) => Waits(w', id)
    BY <1>5, <1>7, <1>8, <1>9, <1>13, <2>2, <2>3, <2>4, Deleted
  <2>6. list = w.sessions[c] /\ s = w
    BY <1>7, <1>9, <1>13 DEF s
  <2>. QED BY <1>2, <1>3, <2>3, <2>5, <2>6, LastStep
<1>14. CASE c = w.open
  <2>1. PICK d \in NextOpen(s, c) : w' = [gone EXCEPT !.open = d, !.messages = s.sessions[d]]
    BY <1>2, <1>14
  <2>2. d \in Chats /\ d # c /\ s.sessions[d] # None /\ d \in s.used /\ s.sessions[d] \in Seq(Good(s, P, d))
    BY <1>5, <2>1 DEF NextOpen, Listed, Sound
  <2>3. PICK next \in Seq(Good(s, P, d)) : next = s.sessions[d]
    BY <2>2
  <2>4. next \in MessageList
    BY <1>7, <2>2, <2>3
  <2>. DEFINE t == [s EXCEPT !.open = d, !.messages = next]
  <2>5. t \in Widget
    BY <1>7, <2>2, <2>4 DEF Widget
  <2>6. /\ t.open = d /\ t.messages = next /\ t.sessions = s.sessions /\ t.used = s.used /\ t.next = s.next
        /\ t.undoable = s.undoable /\ t.cut = s.cut /\ t.returned = s.returned /\ t.sent = s.sent
        /\ t.lookups = s.lookups /\ t.net = s.net /\ t.pending = s.pending /\ t.loading = s.loading
        /\ t.generation = s.generation /\ t.active = s.active /\ t.stream = s.stream /\ t.xhr = s.xhr
    BY <1>7 DEF Widget
  <2>7. Ready(s) /\ s.stream = None
    BY <1>6, <1>14, ReadyRuns
  <2>8. w' = [t EXCEPT !.sessions = sessions, !.undoable = u, !.open = t.open, !.messages = t.messages]
    BY <1>7, <1>12, <2>1, <2>3 DEF Widget
  <2>. HIDE DEF t
  <2>9. Sound(t, P) /\ Ready(t) /\ Backed(t) /\ Carries(s, t)
    BY <1>5, <1>7, <1>14, <2>2, <2>3, <2>5, <2>6, <2>7, Opened
  <2>10. w' \in Widget
    <3>1. t.open \in Chats /\ t.messages \in MessageList
      BY <2>5 DEF Widget
    <3>. QED BY <1>10, <2>5, <2>8, <3>1, DeletedTyped
  <2>11. /\ w'.messages = t.messages /\ w'.sent = t.sent /\ w'.next = t.next /\ w'.open = t.open
         /\ w'.used = t.used /\ w'.returned = t.returned /\ w'.cut = t.cut /\ w'.lookups = t.lookups
         /\ w'.net = t.net /\ w'.xhr = t.xhr /\ w'.pending = t.pending /\ w'.loading = t.loading
         /\ w'.generation = t.generation /\ w'.active = t.active /\ w'.stream = t.stream
         /\ w'.sessions = sessions /\ w'.undoable = u
    BY <2>5, <2>8 DEF Widget
  <2>12. /\ w'.sessions[c] = None /\ \A e \in Chats \ {c} : w'.sessions[e] = t.sessions[e]
         /\ w'.undoable.kind = "delete" /\ w'.undoable.chat = c /\ w'.undoable.messages = list
    BY <1>10, <1>11, <2>6, <2>11
  <2>13. \A e : Good(t, P, e) = Good(s, P, e)
    BY <2>6, <2>7 DEF Good, Ready
  <2>14. list \in Seq(Good(t, P, c)) /\ t.sessions[c] = list /\ c \in t.used /\ c # t.open
    BY <1>8, <1>9, <2>2, <2>6, <2>13
  <2>15. Sound(w', P) /\ Backed(w') /\ Running(w')
    BY <2>9, <2>10, <2>11, <2>12, <2>14, ReadyRuns, Deleted
  <2>16. ASSUME NEW id \in waiting, ~Has(w.sessions[c], id), Waits(w, id) PROVE Waits(w', id)
    <3>1. id \notin QueuedIds(w.messages)
      <4>1. id \notin QueuedIds(w.sessions[c])
        BY <2>16 DEF QueuedIds, Queued, Has
      <4>. QED BY <1>4, <1>14, <4>1 DEF Backed
    <3>2. CASE id \in SentIds(w)
      <4>1. id \in SentIds(s)
        BY <1>5, <3>2 DEF KeepsQueue
      <4>. QED BY <2>6, <2>11, <4>1 DEF Waits, SentIds
    <3>3. CASE \E e \in Chats \ {w.open} : w.sessions[e] # None /\ id \in QueuedIds(w.sessions[e])
      <4>1. PICK e \in Chats \ {c} : s.sessions[e] # None /\ id \in QueuedIds(s.sessions[e])
        BY <1>7, <1>14, <3>3
      <4>2. CASE e = d
        BY <2>3, <2>6, <2>11, <4>1, <4>2 DEF Waits
      <4>3. CASE e # d
        BY <2>6, <2>11, <2>12, <4>1, <4>3 DEF Waits
      <4>. QED BY <4>2, <4>3
    <3>. QED BY <2>16, <3>1, <3>2, <3>3 DEF Waits
  <2>17. w'.cut = w.cut
    BY <1>7, <2>6, <2>11
  <2>. QED BY <1>2, <1>3, <2>15, <2>16, <2>17, LastStep
<1>. QED BY <1>13, <1>14

\* The notice closes.
LEMMA DismissUndoStep ==
    ASSUME IInv, dismiss
    PROVE  IInv'
<1>1. PICK P : Sound(w, P)
  BY DEF IInv
<1>2. /\ w' = [w EXCEPT !.undoable = None] /\ valid' = valid /\ waiting' = waiting /\ budget' = budget
      /\ w \in Widget
  BY <1>1 DEF dismiss, Sound
<1>3. w' \in Widget
  BY <1>2 DEF Widget
<1>4. /\ w'.messages = w.messages /\ w'.sessions = w.sessions /\ w'.sent = w.sent /\ w'.next = w.next
      /\ w'.open = w.open /\ w'.used = w.used /\ w'.returned = w.returned /\ w'.cut = w.cut
      /\ SameRequests(w, w') /\ w'.undoable = None
  BY <1>2 DEF Widget, SameRequests
<1>5. Sound(w', P) /\ Running(w') /\ Backed(w') /\ Carries(w, w')
  BY <1>1, <1>3, <1>4, UndoChanged DEF IInv
<1>. QED BY <1>2, <1>5, LastStep DEF Carries, IInv

\* Putting a chat back keeps the types.
LEMMA PutBackTyped ==
    ASSUME NEW s \in Widget, NEW sessions \in [Chats -> MessageList \cup {None}]
    PROVE  [s EXCEPT !.undoable = None, !.sessions = sessions] \in Widget
BY DEF Widget

\* A deleted chat is put back in the list.
LEMMA PutBack ==
    ASSUME NEW P, NEW s, Sound(s, P), s.undoable # None, s.undoable.kind = "delete"
    PROVE  LET u == s.undoable
               t == [s EXCEPT !.undoable = None, !.sessions = [s.sessions EXCEPT ![u.chat] = u.messages]] IN
           /\ Sound(t, P) /\ Carries(s, t)
           /\ Running(s) => Running(t)
           /\ Backed(s) => Backed(t)
           /\ u.chat \in Chats /\ u.chat # t.open /\ t.sessions[u.chat] # None
<1>. DEFINE u == s.undoable
            c == u.chat
            t == [s EXCEPT !.undoable = None, !.sessions = [s.sessions EXCEPT ![c] = u.messages]]
            T == MessageList \cup {None}
<1>1. /\ s \in Widget /\ u \in Undoable /\ c \in Chats /\ c \in s.used /\ u.messages \in Seq(Held(s, P, u))
      /\ s.sessions[c] = None /\ s.open \in Chats /\ s.sessions[s.open] # None /\ u.messages \in MessageList
      /\ s.sessions \in [Chats -> T]
  BY DEF Sound, Widget, Undoable
<1>2. u.messages \in Seq(Good(s, P, c))
  <2>1. Held(s, P, u) \subseteq Good(s, P, c)
    BY HeldGood
  <2>. QED BY <1>1, <2>1, SeqMonotonic
<1>3. PICK list \in Seq(Good(s, P, c)) : list = u.messages /\ list # None /\ list \in MessageList
  BY <1>1, <1>2, NoneApart
<1>. HIDE DEF u
<1>4. PICK sessions \in [Chats -> T] :
         /\ sessions = [s.sessions EXCEPT ![c] = u.messages]
         /\ sessions[c] = list /\ \A d \in Chats \ {c} : sessions[d] = s.sessions[d]
  <2>. DEFINE g == [s.sessions EXCEPT ![c] = list]
  <2>1. list \in T
    BY <1>3
  <2>. HIDE DEF T
  <2>2. g \in [Chats -> T] /\ g[c] = list /\ \A d \in Chats \ {c} : g[d] = s.sessions[d]
    BY <1>1, <2>1, PutIn
  <2>. QED BY <1>3, <2>2, Zenon
<1>5. t = [s EXCEPT !.undoable = None, !.sessions = sessions]
  BY <1>4
<1>. HIDE DEF t
<1>6. t \in Widget
  BY <1>1, <1>5, PutBackTyped
<1>7. /\ t.messages = s.messages /\ t.sent = s.sent /\ t.next = s.next /\ t.open = s.open
      /\ t.used = s.used /\ t.returned = s.returned /\ t.cut = s.cut /\ t.lookups = s.lookups
      /\ t.net = s.net /\ t.xhr = s.xhr /\ t.pending = s.pending /\ t.loading = s.loading
      /\ t.generation = s.generation /\ t.active = s.active /\ t.stream = s.stream
      /\ t.sessions = sessions /\ t.undoable = None
  BY <1>1, <1>5 DEF Widget
<1>8. c # s.open
  BY <1>1
<1>9. \A d : Good(t, P, d) = Good(s, P, d)
  BY <1>7 DEF Good
<1>10. ASSUME NEW d \in Chats, t.sessions[d] # None
       PROVE  d \in t.used /\ t.sessions[d] \in Seq(Good(t, P, d))
  <2>1. CASE d = c
    BY <1>1, <1>3, <1>4, <1>7, <1>9, <2>1
  <2>2. CASE d # c
    BY <1>4, <1>7, <1>9, <1>10, <2>2 DEF Sound
  <2>. QED BY <2>1, <2>2
<1>11. Sound(t, P)
  <2>1. /\ \A i \in P : i \in Nat /\ i < t.next
        /\ t.messages \in Seq(Good(t, P, t.open))
        /\ t.stream # None => t.stream < t.next /\ t.stream \notin P
        /\ t.pending # None => t.pending.id < t.next /\ t.pending.id \notin P
    BY <1>7, <1>9 DEF Sound
  <2>2. t.sessions[t.open] # None
    BY <1>1, <1>4, <1>7, <1>8
  <2>. QED BY <1>6, <1>7, <1>10, <2>1, <2>2 DEF Sound
<1>12. \A q : requestIsCurrent(t, q) = requestIsCurrent(s, q)
  BY <1>7 DEF requestIsCurrent
<1>13. Running(s) => Running(t)
  BY <1>7, <1>12 DEF Running, OneRequest, Live
<1>14. Backed(s) => Backed(t)
  BY <1>1, <1>4, <1>7, <1>8 DEF Backed
<1>15. Carries(s, t)
  <2>1. ASSUME NEW id, Waits(s, id) PROVE Waits(t, id)
    <3>1. CASE id \in QueuedIds(s.messages) \cup SentIds(s)
      BY <1>7, <3>1 DEF Waits, SentIds
    <3>2. CASE \E d \in Chats \ {s.open} : s.sessions[d] # None /\ id \in QueuedIds(s.sessions[d])
      <4>1. PICK d \in Chats \ {s.open} : s.sessions[d] # None /\ id \in QueuedIds(s.sessions[d])
        BY <3>2
      <4>2. d # c
        BY <1>1, <4>1
      <4>. QED BY <1>4, <1>7, <4>1, <4>2 DEF Waits
    <3>. QED BY <2>1, <3>1, <3>2 DEF Waits
  <2>. QED BY <1>7, <2>1 DEF Carries
<1>16. t.sessions[c] # None /\ c # t.open
  BY <1>3, <1>4, <1>7, <1>8
<1>. QED BY <1>1, <1>11, <1>13, <1>14, <1>15, <1>16 DEF t, u

\* Bringing messages back keeps the types.
LEMMA ClearedTyped ==
    ASSUME NEW s \in Widget, NEW list \in MessageList, NEW stream \in {s.stream, None}, NEW returned \in SUBSET Nat,
           NEW sessions \in [Chats -> MessageList \cup {None}]
    PROVE  [s EXCEPT !.messages = list, !.stream = stream, !.returned = returned, !.sessions = sessions] \in Widget
BY DEF Widget

\* The messages of a chat that was cleared come back; a card whose question is over came back with them.
LEMMA ClearedBack ==
    ASSUME NEW P, NEW s, Sound(s, P), Running(s), s.messages = <<>>, NEW u \in Undoable, u.chat = s.open,
           u.messages \in Seq(Held(s, P, u))
    PROVE  LET over == {m.id : m \in {n \in ToSet(u.messages) :
                                        n.role = "asked" /\ (s.pending = None \/ s.pending.id # n.id)}}
               t == saveCurrentSessionState([SetMessages(s, u.messages) EXCEPT !.returned = s.returned \cup over]) IN
           Sound(t, P) /\ Running(t) /\ Backed(t) /\ Carries(s, t)
<1>. DEFINE over == {m.id : m \in {n \in ToSet(u.messages) :
                                     n.role = "asked" /\ (s.pending = None \/ s.pending.id # n.id)}}
            x == SetMessages(s, u.messages)
            y == [x EXCEPT !.returned = s.returned \cup over]
            t == saveCurrentSessionState(y)
            T == MessageList \cup {None}
<1>1. /\ s \in Widget /\ s.sessions \in [Chats -> T] /\ s.open \in Chats /\ s.sessions[s.open] # None
      /\ s.returned \in SUBSET Nat
  BY DEF Sound, Widget
<1>2. PICK list \in Seq(Held(s, P, u)) : list = u.messages
  OBVIOUS
<1>3. /\ list \in MessageList /\ list # None
      /\ \A k \in 1 .. Len(list) : list[k] \in Held(s, P, u)
      /\ Len(list) \in Nat
  <2>1. Held(s, P, u) \subseteq Message
    BY DEF Held
  <2>2. list \in MessageList
    BY <2>1, SeqMonotonic DEF MessageList
  <2>. QED BY <2>2, NoneApart
<1>4. \A m \in ToSet(list) : m \in Held(s, P, u)
  BY <1>3 DEF ToSet
<1>5. over \in SUBSET Nat
  BY <1>2, <1>4 DEF Held, Message
<1>6. \A k \in 1 .. Len(list) : list[k].role = "asked" /\ (s.pending = None \/ s.pending.id # list[k].id) => list[k].id \in over
  BY <1>2, <1>3 DEF ToSet
<1>. HIDE DEF over
<1>7. PICK returned \in SUBSET Nat : returned = s.returned \cup over
  BY <1>1, <1>5
<1>8. PICK stream \in {s.stream, None} : x = [s EXCEPT !.messages = list, !.stream = stream]
  BY <1>2 DEF SetMessages
<1>. HIDE DEF x
<1>9. y = [s EXCEPT !.messages = list, !.stream = stream, !.returned = returned]
  <2>1. y = [x EXCEPT !.returned = returned]
    BY <1>7
  <2>. HIDE DEF y
  <2>. QED BY <1>1, <1>8, <2>1 DEF Widget
<1>. HIDE DEF y
<1>10. y.sessions = s.sessions /\ y.open = s.open /\ y.messages = list
  BY <1>1, <1>9 DEF Widget
<1>11. PICK sessions \in [Chats -> T] :
          /\ sessions = [s.sessions EXCEPT ![s.open] = list]
          /\ sessions[s.open] = list /\ \A d \in Chats \ {s.open} : sessions[d] = s.sessions[d]
  <2>. DEFINE g == [s.sessions EXCEPT ![s.open] = list]
  <2>1. list \in T
    BY <1>3
  <2>. HIDE DEF T
  <2>2. g \in [Chats -> T] /\ g[s.open] = list /\ \A d \in Chats \ {s.open} : g[d] = s.sessions[d]
    BY <1>1, <2>1, PutIn
  <2>. QED BY <2>2, Zenon
<1>12. t = [s EXCEPT !.messages = list, !.stream = stream, !.returned = returned, !.sessions = sessions]
  <2>1. t = [y EXCEPT !.sessions = sessions]
    BY <1>1, <1>10, <1>11 DEF saveCurrentSessionState
  <2>. HIDE DEF t
  <2>. QED BY <1>1, <1>9, <2>1 DEF Widget
<1>. HIDE DEF t
<1>13. t \in Widget
  BY <1>1, <1>3, <1>12, ClearedTyped
<1>14. /\ t.messages = list /\ t.sent = s.sent /\ t.next = s.next /\ t.open = s.open
       /\ t.used = s.used /\ t.returned = returned /\ t.cut = s.cut /\ t.lookups = s.lookups
       /\ t.net = s.net /\ t.xhr = s.xhr /\ t.pending = s.pending /\ t.loading = s.loading
       /\ t.generation = s.generation /\ t.active = s.active /\ t.stream = stream
       /\ t.sessions = sessions /\ t.undoable = s.undoable
  BY <1>1, <1>12 DEF Widget
<1>15. s.returned \subseteq t.returned
  BY <1>7, <1>14
<1>16. list \in Seq(Good(t, P, t.open))
  <2>1. ASSUME NEW k \in 1 .. Len(list) PROVE list[k] \in Good(t, P, t.open)
    <3>1. /\ list[k] \in Message /\ list[k].chat = t.open /\ list[k].id < t.next
          /\ list[k].role \in Prompts <=> list[k].id \in P
      BY <1>3, <1>14 DEF Held
    <3>2. list[k].role = "asked" /\ list[k].id \notin t.returned => t.pending # None /\ t.pending.id = list[k].id
      BY <1>6, <1>7, <1>14
    <3>. QED BY <3>1, <3>2 DEF Good
  <2>2. list \in Seq(Message)
    BY <1>3 DEF MessageList
  <2>. HIDE DEF Good
  <2>. QED BY <1>3, <2>1, <2>2
<1>17. \A c : Good(s, P, c) \subseteq Good(t, P, c)
  BY <1>14, <1>15, GoodStays
<1>18. ASSUME NEW d \in Chats, t.sessions[d] # None
       PROVE  d \in t.used /\ t.sessions[d] \in Seq(Good(t, P, d))
  <2>1. CASE d = s.open
    BY <1>1, <1>11, <1>14, <1>16, <2>1 DEF Sound
  <2>2. CASE d # s.open
    <3>1. t.sessions[d] = s.sessions[d] /\ d \in s.used /\ s.sessions[d] \in Seq(Good(s, P, d))
      BY <1>11, <1>14, <1>18, <2>2 DEF Sound
    <3>. QED BY <1>14, <1>17, <3>1, SeqMonotonic
  <2>. QED BY <2>1, <2>2
<1>19. t.undoable # None => /\ t.undoable.chat \in t.used
                            /\ t.undoable.messages \in Seq(Held(t, P, t.undoable))
                            /\ t.undoable.kind = "delete" => t.sessions[t.undoable.chat] = None
  <2>. SUFFICES ASSUME t.undoable # None
                PROVE  /\ t.undoable.chat \in t.used
                       /\ t.undoable.messages \in Seq(Held(t, P, t.undoable))
                       /\ t.undoable.kind = "delete" => t.sessions[t.undoable.chat] = None
    OBVIOUS
  <2>. DEFINE v == s.undoable
  <2>1. /\ t.undoable = v /\ v.chat \in s.used /\ v.messages \in Seq(Held(s, P, v)) /\ v.chat \in Chats
        /\ v.kind = "delete" => s.sessions[v.chat] = None
    BY <1>1, <1>14 DEF Sound, Widget
  <2>2. Held(s, P, v) \subseteq Held(t, P, v)
    BY <1>14, <1>15, HeldStays
  <2>3. v.messages \in Seq(Held(t, P, v))
    BY <2>1, <2>2, SeqMonotonic
  <2>. QED BY <1>1, <1>11, <1>14, <2>1, <2>3
<1>20. Sound(t, P)
  <2>1. /\ \A i \in P : i \in Nat /\ i < t.next
        /\ t.stream # None => t.stream < t.next /\ t.stream \notin P
        /\ t.pending # None => t.pending.id < t.next /\ t.pending.id \notin P
    BY <1>14 DEF Sound
  <2>2. t.sessions[t.open] # None
    BY <1>3, <1>11, <1>14
  <2>. QED BY <1>13, <1>14, <1>16, <1>18, <1>19, <2>1, <2>2 DEF Sound
<1>21. \A q : requestIsCurrent(t, q) = requestIsCurrent(s, q)
  BY <1>14 DEF requestIsCurrent
<1>22. Running(t)
  BY <1>14, <1>21 DEF Running, OneRequest, Live
<1>23. Backed(t)
  BY <1>11, <1>14 DEF Backed
<1>24. Carries(s, t)
  <2>1. QueuedIds(s.messages) = {}
    BY DEF QueuedIds, Queued
  <2>2. \A id : Waits(s, id) => Waits(t, id)
    BY <1>11, <1>14, <2>1 DEF Waits, SentIds
  <2>. QED BY <1>14, <2>2 DEF Carries
<1>. QED BY <1>20, <1>22, <1>23, <1>24 DEF t, y, x, over

\* The messages before Regenerate come back: the queue and what runs are no longer followed.
LEMMA RestoredBack ==
    ASSUME NEW P, NEW s, Sound(s, P), Running(s), NEW u \in Undoable, u.chat = s.open, u.kind # "clear",
           u.messages \in Seq(Held(s, P, u))
    PROVE  LET t == saveCurrentSessionState([SetMessages(stopStreaming(s), u.messages) EXCEPT !.cut = TRUE]) IN
           Sound(t, P) /\ Running(t) /\ Backed(t) /\ t.cut
<1>. DEFINE x == stopStreaming(s)
            y == SetMessages(x, u.messages)
            z == [y EXCEPT !.cut = TRUE]
            t == saveCurrentSessionState(z)
<1>1. Onward(s, x, P)
  BY Stopped DEF Running
<1>. HIDE DEF x
<1>2. Sound(x, P) /\ Running(x) /\ x.open = s.open /\ x.returned = s.returned /\ s.next <= x.next
      /\ s.next \in Nat /\ x.next \in Nat
  BY <1>1 DEF Onward, SameChats, SameBook, Sound, Widget
<1>3. u.messages \in Seq(Good(x, P, x.open))
  <2>1. Held(s, P, u) \subseteq Good(x, P, x.open)
    BY <1>2 DEF Held, Good, Message
  <2>. QED BY <2>1, SeqMonotonic
<1>4. PICK list \in Seq(Good(x, P, x.open)) : list = u.messages
  BY <1>3
<1>5. /\ Sound(y, P) /\ SameChats(x, y) /\ SameRequests(x, y)
  BY <1>2, <1>4, SetKept
<1>. HIDE DEF y
<1>6. y \in Widget
  BY <1>5 DEF Sound
<1>7. z \in Widget
  BY <1>6 DEF Widget
<1>8. /\ z.messages = y.messages /\ z.sent = y.sent /\ z.next = y.next /\ z.open = y.open
      /\ z.used = y.used /\ z.returned = y.returned /\ z.cut /\ z.sessions = y.sessions /\ z.undoable = y.undoable
      /\ SameRequests(y, z)
  BY <1>6 DEF Widget, SameRequests
<1>. HIDE DEF z
<1>9. Sound(z, P)
  <2>1. (\A c : Good(z, P, c) = Good(y, P, c)) /\ \A v : Held(z, P, v) = Held(y, P, v)
    BY <1>8 DEF Good, Held, SameRequests
  <2>2. /\ \A i \in P : i \in Nat /\ i < z.next
        /\ z.sessions[z.open] # None /\ z.messages \in Seq(Good(z, P, z.open))
        /\ \A c \in Chats : z.sessions[c] # None => c \in z.used /\ z.sessions[c] \in Seq(Good(z, P, c))
    BY <1>5, <1>8, <2>1 DEF Sound
  <2>3. /\ z.stream # None => z.stream < z.next /\ z.stream \notin P
        /\ z.pending # None => z.pending.id < z.next /\ z.pending.id \notin P
    BY <1>5, <1>8 DEF Sound, SameRequests
  <2>4. z.undoable # None => /\ z.undoable.chat \in z.used
                             /\ z.undoable.messages \in Seq(Held(z, P, z.undoable))
                             /\ z.undoable.kind = "delete" => z.sessions[z.undoable.chat] = None
    BY <1>5, <1>8, <2>1 DEF Sound
  <2>. QED BY <1>7, <2>2, <2>3, <2>4 DEF Sound
<1>10. /\ Sound(t, P) /\ SameChats(z, t) /\ SameRequests(z, t) /\ Backed(t)
  BY <1>9, Saved
<1>. HIDE DEF t
<1>11. t.cut /\ t.open = x.open /\ t.used = x.used
  BY <1>5, <1>8, <1>10 DEF SameChats, SameBook
<1>12. /\ t.loading = x.loading /\ t.generation = x.generation /\ t.active = x.active /\ t.xhr = x.xhr
       /\ t.pending = x.pending /\ t.lookups = x.lookups /\ t.net = x.net /\ t.stream \in {x.stream, None}
  BY <1>5, <1>8, <1>10 DEF SameRequests
<1>13. \A q : requestIsCurrent(t, q) = requestIsCurrent(x, q)
  BY <1>11, <1>12 DEF requestIsCurrent
<1>14. OneRequest(t)
  BY <1>2, <1>11, <1>12, <1>13 DEF Running, OneRequest
<1>15. Running(t)
  BY <1>11, <1>14 DEF Running, Live
<1>. QED BY <1>10, <1>11, <1>15 DEF t, z, y, x

\* Undo of each kind, and of a chat that is not the open one any more.
LEMMA UndoStep ==
    ASSUME IInv, undo
    PROVE  IInv'
<1>1. PICK P : Sound(w, P)
  BY DEF IInv
<1>. DEFINE what == w.undoable
            s == [w EXCEPT !.undoable = None]
            back == [s EXCEPT !.sessions = [s.sessions EXCEPT ![what.chat] = what.messages]]
            over == {m.id : m \in {n \in ToSet(what.messages) :
                                     n.role = "asked" /\ (s.pending = None \/ s.pending.id # n.id)}}
            x == SetMessages(s, what.messages)
            cleared == saveCurrentSessionState([x EXCEPT !.returned = x.returned \cup over])
            restored == saveCurrentSessionState([SetMessages(stopStreaming(s), what.messages) EXCEPT !.cut = TRUE])
<1>2. /\ what # None /\ valid' = valid /\ waiting' = waiting
      /\ w' = IF what.kind = "delete" THEN IF what.wasOpen THEN SwitchTo(back, what.chat) ELSE back
              ELSE IF s.open # what.chat \/ (what.kind = "clear" /\ s.messages # <<>>) THEN s
              ELSE IF what.kind = "clear" THEN cleared ELSE restored
  BY DEF undo
<1>3. valid' \in BOOLEAN /\ budget' \in [BudgetNames -> Nat]
  BY <1>2, Spent DEF IInv, undo, BudgetNames
<1>4. /\ w \in Widget /\ what \in Undoable /\ what.messages \in Seq(Held(w, P, what)) /\ Running(w) /\ Backed(w)
  BY <1>1, <1>2 DEF Sound, Widget, IInv
<1>. HIDE DEF what
<1>5. s \in Widget
  BY <1>4 DEF Widget
<1>6. /\ s.messages = w.messages /\ s.sessions = w.sessions /\ s.sent = w.sent /\ s.next = w.next
      /\ s.open = w.open /\ s.used = w.used /\ s.returned = w.returned /\ s.cut = w.cut
      /\ SameRequests(w, s) /\ s.undoable = None
  BY <1>4 DEF Widget, SameRequests
<1>7. x.returned = s.returned
  BY <1>5 DEF SetMessages, Widget
<1>8. back = [w EXCEPT !.undoable = None, !.sessions = [w.sessions EXCEPT ![what.chat] = what.messages]]
  BY <1>4, <1>6 DEF Widget
<1>. HIDE DEF s, back
<1>9. Sound(s, P) /\ Running(s) /\ Backed(s) /\ Carries(w, s)
  BY <1>1, <1>4, <1>5, <1>6, UndoChanged
<1>10. what.messages \in Seq(Held(s, P, what))
  <2>1. Held(s, P, what) = Held(w, P, what)
    BY <1>6 DEF Held
  <2>. QED BY <1>4, <2>1
<1>11. Sound(w', P) /\ Running(w') /\ Backed(w') /\ Carries(w, w')
  <2>1. CASE what.kind = "delete"
    <3>1. /\ Sound(back, P) /\ Running(back) /\ Backed(back) /\ Carries(w, back)
          /\ what.chat \in Chats /\ what.chat # back.open /\ back.sessions[what.chat] # None
      BY <1>1, <1>2, <1>4, <1>8, <2>1, PutBack DEF what
    <3>2. CASE what.wasOpen
      <4>1. w' = SwitchTo(back, what.chat)
        BY <1>2, <2>1, <3>2
      <4>2. Sound(w', P) /\ Ready(w') /\ Backed(w') /\ Carries(back, w')
        BY <3>1, <4>1, SwitchKept DEF Running
      <4>. QED BY <3>1, <4>2, ReadyRuns, CarriesTwice
    <3>3. CASE ~what.wasOpen
      BY <1>2, <2>1, <3>1, <3>3
    <3>. QED BY <3>2, <3>3
  <2>2. CASE what.kind # "delete" /\ (s.open # what.chat \/ (what.kind = "clear" /\ s.messages # <<>>))
    BY <1>2, <1>9, <2>2
  <2>3. CASE what.kind = "clear" /\ s.open = what.chat /\ s.messages = <<>>
    <3>1. w' = cleared
      BY <1>2, <2>3
    <3>2. cleared = saveCurrentSessionState([x EXCEPT !.returned = s.returned \cup over])
      BY <1>7
    <3>3. Sound(cleared, P) /\ Running(cleared) /\ Backed(cleared) /\ Carries(s, cleared)
      BY <1>4, <1>9, <1>10, <2>3, <3>2, ClearedBack
    <3>. HIDE DEF cleared
    <3>. QED BY <1>9, <3>1, <3>3, CarriesTwice
  <2>4. CASE what.kind \notin {"delete", "clear"} /\ s.open = what.chat
    <3>1. w' = restored
      BY <1>2, <2>4
    <3>2. Sound(restored, P) /\ Running(restored) /\ Backed(restored) /\ restored.cut
      BY <1>4, <1>9, <1>10, <2>4, RestoredBack
    <3>. HIDE DEF restored
    <3>. QED BY <3>1, <3>2 DEF Carries
  <2>. QED BY <2>1, <2>2, <2>3, <2>4
<1>. QED BY <1>2, <1>3, <1>11, LastStep DEF Carries

\* Replacing the chats keeps the types.
LEMMA RebuiltTyped ==
    ASSUME NEW s \in Widget, NEW list \in MessageList, NEW c \in Chats, NEW used \in SUBSET Chats,
           NEW sessions \in [Chats -> MessageList \cup {None}]
    PROVE  [s EXCEPT !.messages = list, !.stream = None, !.sessions = sessions, !.used = used, !.open = c,
                     !.cut = TRUE] \in Widget
BY DEF Widget

\* The chats of a rebuilt list: a request of the ones before runs on, and none is current.
LEMMA LoadStep ==
    ASSUME IInv, loadSessions
    PROVE  IInv'
<1>1. PICK P : Sound(w, P)
  BY DEF IInv
<1>2. PICK c \in Chats \ w.used :
         w' = [SetMessages(w, <<>>) EXCEPT !.sessions = [d \in Chats |-> IF d = c THEN <<>> ELSE None],
                                           !.used = @ \cup {c}, !.open = c, !.cut = TRUE]
  BY DEF loadSessions
<1>3. valid' \in BOOLEAN /\ budget' \in [BudgetNames -> Nat] /\ waiting' = {}
  BY Spent DEF IInv, loadSessions, BudgetNames
<1>4. w \in Widget /\ w.used \in SUBSET Chats /\ w.stream \in Nat \cup {None} /\ OneRequest(w)
  BY <1>1 DEF Sound, Widget, IInv, Running
<1>5. <<>> \in MessageList
  BY DEF MessageList
<1>6. SetMessages(w, <<>>) = [w EXCEPT !.messages = <<>>, !.stream = None]
  BY DEF SetMessages, Has
<1>7. PICK list \in MessageList : list = <<>> /\ \A G : list \in Seq(G)
  <2>1. ASSUME NEW G PROVE <<>> \in Seq(G)
    OBVIOUS
  <2>. QED BY <1>5, <2>1
<1>8. PICK used \in SUBSET Chats : used = w.used \cup {c}
  BY <1>4
<1>9. PICK sessions \in [Chats -> MessageList \cup {None}] :
        sessions = [d \in Chats |-> IF d = c THEN <<>> ELSE None]
  BY <1>5
<1>10. \A d \in Chats : sessions[d] = IF d = c THEN list ELSE None
  BY <1>7, <1>9
<1>11. w' = [w EXCEPT !.messages = list, !.stream = None, !.sessions = sessions, !.used = used, !.open = c, !.cut = TRUE]
  <2>. DEFINE x == [w EXCEPT !.messages = <<>>, !.stream = None]
  <2>1. x.used = w.used
    BY <1>4 DEF Widget
  <2>2. w' = [x EXCEPT !.sessions = sessions, !.used = x.used \cup {c}, !.open = c, !.cut = TRUE]
    BY <1>2, <1>6, <1>9
  <2>3. w' = [x EXCEPT !.sessions = sessions, !.used = used, !.open = c, !.cut = TRUE]
    BY <1>8, <2>1, <2>2
  <2>. QED BY <1>4, <1>7, <2>3 DEF Widget
<1>12. w' \in Widget
  BY <1>4, <1>11, RebuiltTyped
<1>13. /\ w'.messages = list /\ w'.sessions = sessions /\ w'.used = used /\ w'.open = c /\ w'.cut
       /\ w'.stream = None /\ w'.loading = w.loading /\ w'.generation = w.generation /\ w'.active = w.active
       /\ w'.xhr = w.xhr /\ w'.pending = w.pending /\ w'.lookups = w.lookups /\ w'.net = w.net
       /\ w'.next = w.next /\ w'.undoable = w.undoable /\ w'.returned = w.returned
  BY <1>4, <1>11 DEF Widget
<1>14. list # None
  BY NoneApart
<1>15. w'.undoable # None => /\ w'.undoable.chat \in w'.used
                             /\ w'.undoable.messages \in Seq(Held(w', P, w'.undoable))
                             /\ w'.undoable.kind = "delete" => w'.sessions[w'.undoable.chat] = None
  <2>. SUFFICES ASSUME w.undoable # None
                PROVE  /\ w.undoable.chat \in used
                       /\ w.undoable.messages \in Seq(Held(w', P, w.undoable))
                       /\ w.undoable.kind = "delete" => sessions[w.undoable.chat] = None
    BY <1>13
  <2>1. w.undoable.chat \in w.used /\ w.undoable.messages \in Seq(Held(w, P, w.undoable))
    BY <1>1 DEF Sound
  <2>2. Held(w, P, w.undoable) = Held(w', P, w.undoable)
    BY <1>13 DEF Held
  <2>. QED BY <1>4, <1>8, <1>10, <2>1, <2>2
<1>16. Sound(w', P)
  <2>1. \A d \in Chats : w'.sessions[d] # None => d \in w'.used /\ w'.sessions[d] \in Seq(Good(w', P, d))
    BY <1>7, <1>8, <1>10, <1>13
  <2>2. w'.sessions[w'.open] # None /\ w'.messages \in Seq(Good(w', P, w'.open))
    BY <1>7, <1>10, <1>13, <1>14
  <2>3. /\ \A i \in P : i \in Nat /\ i < w'.next
        /\ w'.pending # None => w'.pending.id < w'.next /\ w'.pending.id \notin P
    BY <1>1, <1>13 DEF Sound
  <2>. QED BY <1>12, <1>13, <1>15, <2>1, <2>2, <2>3 DEF Sound
<1>17. \A q : ~requestIsCurrent(w', q)
  BY <1>2, <1>4, <1>13, NoneApart DEF requestIsCurrent, OneRequest
<1>18. OneRequest(w')
  BY <1>4, <1>8, <1>13, <1>17 DEF OneRequest
<1>19. Running(w') /\ Backed(w')
  BY <1>10, <1>13, <1>18 DEF Running, Live, Backed
<1>. QED BY <1>3, <1>13, <1>16, <1>19, LastStep

\* Beginning and cancelling an edit changes no message.
LEMMA EditStepKept ==
    ASSUME IInv, (\E k \in DOMAIN w.messages : StartEdit(k)) \/ CancelEdit
    PROVE  IInv'
<1>1. PICK P : Sound(w, P)
  BY DEF IInv
<1>2. w \in Widget /\ \A k \in DOMAIN w.messages : k \in Nat /\ w.messages[k].id \in Nat
  <2>1. w \in Widget /\ w.messages \in Seq(Message)
    BY <1>1 DEF Sound, Widget, MessageList
  <2>2. \A k \in DOMAIN w.messages : k \in Nat /\ w.messages[k] \in Message
    BY <2>1
  <2>. QED BY <2>1, <2>2 DEF Message
<1>3. PICK e \in Edit \cup {None} : w' = [w EXCEPT !.editing = e]
  <2>1. CASE CancelEdit
    BY <2>1 DEF CancelEdit
  <2>2. ASSUME NEW k \in DOMAIN w.messages, StartEdit(k) PROVE \E e \in Edit : w' = [w EXCEPT !.editing = e]
    BY <1>2, <2>2 DEF StartEdit, Edit
  <2>. QED BY <2>1, <2>2
<1>4. valid' = valid /\ waiting' = waiting /\ budget' \in [BudgetNames -> Nat]
  BY Spent DEF StartEdit, CancelEdit, IInv, BudgetNames
<1>5. w' \in Widget
  BY <1>2, <1>3 DEF Widget
<1>6. /\ w'.messages = w.messages /\ w'.sessions = w.sessions /\ w'.sent = w.sent /\ w'.next = w.next
      /\ SameBook(w, w') /\ SameRequests(w, w')
  BY <1>2, <1>3 DEF Widget, SameBook, SameRequests
<1>7. Edited(w, w', P)
  BY <1>1, <1>5, <1>6, RequestEdited DEF Edited, SameBook, SameRequests
<1>. QED BY <1>4, <1>7, EditedStep DEF IInv

\* The provider's settings are no part of the chats.
LEMMA SettingsStep ==
    ASSUME IInv, ChangeSettings
    PROVE  IInv'
<1>1. w' = w /\ waiting' = waiting /\ valid' \in BOOLEAN /\ budget' \in [BudgetNames -> Nat]
  BY Spent DEF ChangeSettings, IInv, BudgetNames
<1>. QED BY <1>1 DEF IInv

\* The user removes messages that may have waited.
LEMMA RemovedStep ==
    ASSUME IInv, NEW P, Sound(w, P), NEW list \in Seq(Good(w, P, w.open)), NEW ids, Removed(list, ids),
           QueuedIds(w.messages) \subseteq QueuedIds(list) \cup ids
    PROVE  IInv'
<1>. DEFINE s == SetMessages(w, list)
            u == IF list # <<>> THEN s.undoable ELSE [kind |-> "clear", chat |-> w.open, messages |-> w.messages]
            t == [s EXCEPT !.editing = None, !.undoable = u]
<1>1. /\ valid' = valid /\ waiting' = waiting \ ids /\ w' = saveCurrentSessionState(t)
  BY DEF Removed
<1>2. valid' \in BOOLEAN /\ budget' \in [BudgetNames -> Nat]
  BY <1>1, Spent DEF IInv, Removed, BudgetNames
<1>3. /\ Sound(s, P) /\ SameChats(w, s) /\ SameRequests(w, s)
      /\ s.messages = list /\ s.sent = w.sent /\ s.sessions = w.sessions
  BY SetKept
<1>4. s \in Widget /\ s.undoable = w.undoable /\ s.cut = w.cut /\ s.open = w.open /\ s.used = w.used
  BY <1>3 DEF Sound, SameChats, SameBook
<1>. HIDE DEF s
<1>5. /\ w.messages \in Seq(Good(w, P, w.open)) /\ w.open \in Chats /\ w.messages \in MessageList
      /\ w.open \in w.used
  BY DEF Sound, Widget
<1>6. u \in Undoable \cup {None}
  BY <1>3, <1>5 DEF Sound, Widget, Undoable
<1>7. list = <<>> => u.kind = "clear" /\ u.chat = w.open /\ u.messages = w.messages
  OBVIOUS
<1>8. list # <<>> => u = s.undoable
  OBVIOUS
<1>. HIDE DEF u
<1>9. t \in Widget
  BY <1>4, <1>6 DEF Widget
<1>10. /\ t.messages = s.messages /\ t.sessions = s.sessions /\ t.sent = s.sent /\ t.next = s.next
       /\ t.open = s.open /\ t.used = s.used /\ t.returned = s.returned /\ t.cut = s.cut
       /\ SameRequests(s, t) /\ t.undoable = u
  BY <1>4 DEF Widget, SameRequests
<1>. HIDE DEF t
<1>11. Sound(t, P)
  <2>1. CASE list # <<>>
    <3>1. SameBook(s, t)
      BY <1>8, <1>10, <2>1 DEF SameBook
    <3>. QED BY <1>3, <1>9, <1>10, <3>1, RequestEdited DEF SameBook, SameRequests
  <2>2. CASE list = <<>>
    <3>1. w.messages \in Seq(Held(s, P, u))
      <4>1. Good(w, P, w.open) \subseteq Held(s, P, u)
        <5>1. w.next <= s.next /\ w.next \in Nat /\ s.next \in Nat /\ w.returned = s.returned
          BY <1>3, <1>4 DEF SameChats, SameBook, Sound, Widget
        <5>. QED BY <1>7, <2>2, <5>1 DEF Good, Held, Message
      <4>. QED BY <1>5, <4>1, SeqMonotonic
    <3>2. u.chat \in s.used /\ u.kind # "delete" /\ u.messages \in Seq(Held(s, P, u))
      BY <1>4, <1>5, <1>7, <2>2, <3>1
    <3>. QED BY <1>3, <1>9, <1>10, <3>2, UndoChanged
  <2>. QED BY <2>1, <2>2
<1>12. /\ Sound(w', P) /\ SameChats(t, w') /\ SameRequests(t, w') /\ Backed(w')
       /\ w'.messages = t.messages /\ w'.sent = t.sent
  BY <1>1, <1>11, Saved
<1>13. w'.open = w.open /\ w'.cut = w.cut /\ w'.used = w.used
  BY <1>4, <1>10, <1>12 DEF SameChats, SameBook
<1>14. /\ w'.loading = w.loading /\ w'.generation = w.generation /\ w'.active = w.active /\ w'.xhr = w.xhr
       /\ w'.pending = w.pending /\ w'.lookups = w.lookups /\ w'.net = w.net /\ w'.stream \in {w.stream, None}
  BY <1>3, <1>10, <1>12 DEF SameRequests
<1>15. \A q : requestIsCurrent(w', q) = requestIsCurrent(w, q)
  BY <1>13, <1>14 DEF requestIsCurrent
<1>16. Running(w')
  BY <1>13, <1>14, <1>15 DEF IInv, Running, OneRequest, Live
<1>17. ASSUME NEW id \in waiting \ ids, Waits(w, id) PROVE Waits(w', id)
  <2>1. \A d \in Chats \ {w.open} : w'.sessions[d] = w.sessions[d]
    BY <1>3, <1>4, <1>10, <1>12 DEF SameChats
  <2>2. w'.messages = list /\ SentIds(w') = SentIds(w)
    BY <1>3, <1>10, <1>12 DEF SentIds
  <2>. QED BY <1>13, <1>17, <2>1, <2>2 DEF Waits
<1>. QED BY <1>1, <1>2, <1>12, <1>13, <1>16, <1>17, LastStep

\* A message is deleted.
LEMMA DeleteMessageStep ==
    ASSUME IInv, NEW k \in DOMAIN w.messages, deleteMessage(k)
    PROVE  IInv'
<1>1. PICK P : Sound(w, P)
  BY DEF IInv
<1>. DEFINE G == Good(w, P, w.open)
            list == RemoveAt(w.messages, k)
<1>2. w.messages \in Seq(G)
  BY <1>1 DEF Sound
<1>. HIDE DEF G
<1>3. list \in Seq(G) /\ QueuedIds(w.messages) \subseteq QueuedIds(list) \cup {w.messages[k].id}
  BY <1>2, RemovedAt, RemoveAtQueue
<1>4. Removed(list, {w.messages[k].id})
  BY DEF deleteMessage
<1>. HIDE DEF list
<1>. QED BY <1>1, <1>3, <1>4, RemovedStep DEF G

\* The open chat is cleared.
LEMMA ClearStep ==
    ASSUME IInv, clearChat
    PROVE  IInv'
<1>1. PICK P : Sound(w, P)
  BY DEF IInv
<1>. DEFINE ids == {m.id : m \in ToSet(w.messages)}
<1>2. Removed(<<>>, ids)
  BY DEF clearChat
<1>3. QueuedIds(w.messages) \subseteq ids
  BY DEF QueuedIds, Queued, ToSet
<1>. HIDE DEF ids
<1>4. <<>> \in Seq(Good(w, P, w.open))
  OBVIOUS
<1>. QED BY <1>1, <1>2, <1>3, <1>4, RemovedStep

\* The chat goes on from message k of a state ready for a request, and the message is sent.
LEMMA GoneOn ==
    ASSUME NEW P, NEW s, Sound(s, P), Ready(s), NEW list \in Seq(Good(s, P, s.open)),
           QueuedIds(s.messages) \subseteq QueuedIds(list), NEW k
    PROVE  LET t == sendMessageByIndex(saveCurrentSessionState(SetMessages(s, list)), k) IN Onward(s, t, P)
<1>. DEFINE u == saveCurrentSessionState(SetMessages(s, list))
            t == sendMessageByIndex(u, k)
<1>1. Edited(s, u, P)
  BY Replaced DEF Edited
<1>. HIDE DEF u
<1>2. Ready(u) /\ Sound(u, P)
  BY <1>1, ReadyStays DEF Edited
<1>3. Onward(u, t, P)
  BY <1>2, SentOn
<1>. HIDE DEF t
<1>4. s \in Widget /\ u \in Widget
  BY <1>2 DEF Sound
<1>5. Onward(s, t, P)
  BY <1>1, <1>3, <1>4, OnwardTwice DEF Edited
<1>. QED BY <1>5 DEF t, u

\* Where the message before a reply stands when the request was given up.
LEMMA StillThere ==
    ASSUME NEW P, NEW s, Sound(s, P), Running(s), NEW k \in DOMAIN s.messages, NEW u \in Nat,
           u < k \/ (u = k /\ ~s.loading)
    PROVE  u \in 0 .. Len(invalidateActiveRequest(s).messages)
<1>. DEFINE t == invalidateActiveRequest(s)
<1>1. OneRequest(s) /\ (~s.loading => s.stream = None)
  BY DEF Running, OneRequest
<1>2. /\ Sound(t, P) /\ Len(t.messages) >= Len(s.messages) - 1
      /\ s.stream = None => Len(t.messages) = Len(s.messages)
  BY <1>1, Invalidated DEF Rested
<1>. HIDE DEF t
<1>3. s.messages \in Seq(Message) /\ t.messages \in Seq(Message)
  BY <1>2 DEF Sound, Widget, MessageList
<1>4. Len(s.messages) \in Nat /\ Len(t.messages) \in Nat /\ k \in 1 .. Len(s.messages)
  BY <1>3
<1>. QED BY <1>1, <1>2, <1>4 DEF t

\* The chat goes on from the message before a reply; Undo holds what was dropped.
LEMMA RegenerateStep ==
    ASSUME IInv, NEW k \in DOMAIN w.messages, regenerateResponse(k)
    PROVE  IInv'
<1>1. PICK P : Sound(w, P)
  BY DEF IInv
<1>. DEFINE u == IF w.messages[k].role = "user" THEN k ELSE k - 1
            s == invalidateActiveRequest(w)
            rewound == Rewound(s.messages, u)
            x == IF Len(rewound) = Len(s.messages) THEN s
                 ELSE [s EXCEPT !.undoable = [kind |-> "restore", chat |-> s.open, messages |-> s.messages]]
            kept == saveCurrentSessionState(SetMessages(x, rewound))
<1>2. /\ w.messages[k].role \in {"reply", "card"} \/ (w.messages[k].role = "user" /\ ~w.loading)
      /\ u > 0 /\ w' = sendMessageByIndex(kept, u) /\ valid' = valid /\ waiting' \subseteq waiting
  BY DEF regenerateResponse
<1>3. valid' \in BOOLEAN /\ budget' \in [BudgetNames -> Nat]
  BY <1>2, Spent DEF IInv, regenerateResponse, BudgetNames
<1>4. w \in Widget /\ Running(w) /\ OneRequest(w) /\ Backed(w)
  BY <1>1 DEF Sound, IInv, Running
<1>5. Rested(w, s, P)
  BY <1>1, <1>4, Invalidated
<1>6. u \in 0 .. Len(s.messages)
  <2>1. k \in Nat
    BY <1>4 DEF Widget, MessageList
  <2>2. u \in Nat /\ (u < k \/ (u = k /\ ~w.loading))
    BY <1>2, <2>1
  <2>. HIDE DEF u, s
  <2>3. u \in 0 .. Len(invalidateActiveRequest(w).messages)
    BY <1>1, <1>4, <2>2, StillThere
  <2>. QED BY <2>3 DEF s
<1>. HIDE DEF u, s
<1>7. /\ Sound(s, P) /\ Ready(s) /\ s \in Widget /\ s.open \in Chats /\ s.messages \in Seq(Good(s, P, s.open))
      /\ s.messages \in MessageList /\ s.open \in s.used /\ s.pending = None
  BY <1>5 DEF Rested, Sound, Widget, Ready
<1>8. PICK list \in Seq(Good(s, P, s.open)) : list = rewound /\ QueuedIds(s.messages) \subseteq QueuedIds(list)
  <2>. DEFINE G == Good(s, P, s.open)
  <2>1. s.messages \in Seq(G)
    BY <1>7
  <2>. HIDE DEF G
  <2>2. rewound \in Seq(G) /\ QueuedIds(s.messages) \subseteq QueuedIds(rewound)
    BY <1>6, <2>1, RewoundTyped
  <2>. QED BY <2>2, Zenon DEF G
<1>. HIDE DEF rewound
<1>9. /\ Sound(x, P) /\ Ready(x) /\ Carries(s, x) /\ x.open = s.open /\ x.messages = s.messages
      /\ Backed(s) => Backed(x)
      /\ Good(x, P, x.open) = Good(s, P, s.open)
  <2>1. CASE Len(rewound) = Len(s.messages)
    BY <1>7, <2>1 DEF Carries
  <2>2. CASE Len(rewound) # Len(s.messages)
    <3>. DEFINE v == [kind |-> "restore", chat |-> s.open, messages |-> s.messages]
    <3>1. v \in Undoable /\ v.kind = "restore" /\ v.chat = s.open /\ v.messages = s.messages
      BY <1>7 DEF Undoable
    <3>2. x = [s EXCEPT !.undoable = v]
      BY <2>2
    <3>. HIDE DEF v, x
    <3>3. x \in Widget
      BY <1>7, <3>1, <3>2 DEF Widget
    <3>4. /\ x.messages = s.messages /\ x.sessions = s.sessions /\ x.sent = s.sent /\ x.next = s.next
          /\ x.open = s.open /\ x.used = s.used /\ x.returned = s.returned /\ x.cut = s.cut
          /\ SameRequests(s, x) /\ x.undoable = v
      BY <1>7, <3>2 DEF Widget, SameRequests
    <3>5. v.messages \in Seq(Held(s, P, v))
      <4>1. Good(s, P, v.chat) \subseteq Held(s, P, v)
        BY <1>7, GoodHeld
      <4>. QED BY <1>7, <3>1, <4>1, SeqMonotonic
    <3>6. Good(x, P, x.open) = Good(s, P, s.open)
      BY <3>4 DEF Good, SameRequests
    <3>. QED BY <1>7, <3>1, <3>3, <3>4, <3>5, <3>6, UndoChanged
  <2>. QED BY <2>1, <2>2
<1>. HIDE DEF x
<1>10. Onward(x, w', P)
  <2>1. w' = sendMessageByIndex(saveCurrentSessionState(SetMessages(x, list)), u)
    BY <1>2, <1>8
  <2>2. list \in Seq(Good(x, P, x.open)) /\ QueuedIds(x.messages) \subseteq QueuedIds(list)
    BY <1>8, <1>9
  <2>. QED BY <1>9, <2>1, <2>2, GoneOn
<1>11. Carries(w, s) /\ Backed(s)
  BY <1>4, <1>5, KeepsCarries DEF Rested, KeepsQueue
<1>12. Carries(x, w') /\ Backed(w') /\ Sound(w', P) /\ Running(w')
  BY <1>9, <1>10, <1>11, KeepsCarries DEF Onward, KeepsQueue
<1>13. Carries(w, w')
  BY <1>9, <1>11, <1>12, CarriesTwice
<1>. QED BY <1>2, <1>3, <1>12, <1>13, LastStep DEF Carries

\* The chat goes on from the message before an error.
LEMMA RetryStep ==
    ASSUME IInv, NEW k \in DOMAIN w.messages, retryFailedMessage(k)
    PROVE  IInv'
<1>1. PICK P : Sound(w, P)
  BY DEF IInv
<1>. DEFINE s == invalidateActiveRequest(w)
<1>2. PICK u \in 1 .. (k - 1) :
        w' = sendMessageByIndex(saveCurrentSessionState(SetMessages(s, Rewound(s.messages, u))), u)
  BY DEF retryFailedMessage
<1>3. valid' \in BOOLEAN /\ budget' \in [BudgetNames -> Nat] /\ waiting' \subseteq waiting
  BY Spent DEF IInv, retryFailedMessage, BudgetNames
<1>4. w \in Widget /\ Running(w) /\ OneRequest(w) /\ k \in Nat
  BY <1>1 DEF Sound, IInv, Running, Widget, MessageList
<1>5. Rested(w, s, P)
  BY <1>1, <1>4, Invalidated
<1>6. u \in 0 .. Len(s.messages)
  <2>1. u \in Nat /\ u < k
    BY <1>4
  <2>. QED BY <1>1, <1>4, <2>1, StillThere
<1>. HIDE DEF s
<1>7. Sound(s, P) /\ Ready(s) /\ s \in Widget
  BY <1>5 DEF Rested, Sound
<1>8. PICK list \in Seq(Good(s, P, s.open)) :
        list = Rewound(s.messages, u) /\ QueuedIds(s.messages) \subseteq QueuedIds(list)
  <2>. DEFINE G == Good(s, P, s.open)
  <2>1. s.messages \in Seq(G)
    BY <1>7 DEF Sound
  <2>. HIDE DEF G
  <2>2. Rewound(s.messages, u) \in Seq(G) /\ QueuedIds(s.messages) \subseteq QueuedIds(Rewound(s.messages, u))
    BY <1>6, <2>1, RewoundTyped
  <2>. QED BY <2>2, Zenon DEF G
<1>9. Onward(s, w', P)
  BY <1>2, <1>7, <1>8, GoneOn
<1>10. Onward(w, w', P)
  BY <1>4, <1>5, <1>7, <1>9, OnwardTwice DEF Rested
<1>. QED BY <1>3, <1>10, OnwardStep

\* The message that was edited is sent again; the handler may fail when the list has become shorter.
LEMMA SaveEditedStep ==
    ASSUME IInv, saveEditedMessage
    PROVE  IInv'
<1>1. PICK P : Sound(w, P)
  BY DEF IInv
<1>. DEFINE k == w.editing.at
            s == invalidateActiveRequest(w)
            done == [s EXCEPT !.editing = None]
            rewound == saveCurrentSessionState(SetMessages(done, Rewound(s.messages, k)))
<1>2. /\ valid' = valid /\ waiting' = waiting /\ budget' = budget
      /\ w' = IF k \notin DOMAIN w.messages THEN w
              ELSE IF w.messages[k].role = "error" THEN [w EXCEPT !.editing = None]
              ELSE IF k \notin DOMAIN s.messages THEN s
              ELSE IF s.messages[k].role = "queued" THEN saveCurrentSessionState(done)
              ELSE IF s.messages[k].role = "user" THEN sendMessageByIndex(rewound, k) ELSE rewound
  BY DEF saveEditedMessage
<1>3. w \in Widget /\ Running(w) /\ OneRequest(w)
  BY <1>1 DEF Sound, IInv, Running
<1>4. Rested(w, s, P)
  BY <1>1, <1>3, Invalidated
<1>. HIDE DEF s, k
<1>5. Sound(s, P) /\ Ready(s) /\ s \in Widget /\ s.messages \in Seq(Good(s, P, s.open))
  BY <1>4 DEF Rested, Sound
<1>6. done \in Widget
  BY <1>5 DEF Widget
<1>7. /\ done.messages = s.messages /\ done.sessions = s.sessions /\ done.sent = s.sent /\ done.next = s.next
      /\ SameBook(s, done) /\ SameRequests(s, done)
  BY <1>5 DEF Widget, SameBook, SameRequests
<1>. HIDE DEF done
<1>8. Edited(s, done, P) /\ Ready(done)
  <2>1. Edited(s, done, P)
    BY <1>5, <1>6, <1>7, RequestEdited DEF Edited, SameBook, SameRequests
  <2>. QED BY <1>5, <2>1, ReadyStays
<1>9. Good(done, P, done.open) = Good(s, P, s.open)
  BY <1>7 DEF Good, SameBook, SameRequests
<1>10. ASSUME Onward(s, w', P) PROVE IInv'
  <2>1. Onward(w, w', P)
    BY <1>3, <1>4, <1>5, <1>10, OnwardTwice DEF Rested
  <2>. QED BY <1>2, <2>1, OnwardStep DEF IInv
<1>11. CASE k \notin DOMAIN w.messages
  <2>1. Edited(w, w', P)
    BY <1>1, <1>2, <1>11, SameItself DEF Edited
  <2>. QED BY <1>2, <2>1, EditedStep DEF IInv
<1>12. CASE k \in DOMAIN w.messages /\ w.messages[k].role = "error"
  <2>1. w' = [w EXCEPT !.editing = None]
    BY <1>2, <1>12
  <2>2. w' \in Widget
    BY <1>3, <2>1 DEF Widget
  <2>3. /\ w'.messages = w.messages /\ w'.sessions = w.sessions /\ w'.sent = w.sent /\ w'.next = w.next
        /\ SameBook(w, w') /\ SameRequests(w, w')
    BY <1>3, <2>1 DEF Widget, SameBook, SameRequests
  <2>4. Edited(w, w', P)
    BY <1>1, <2>2, <2>3, RequestEdited DEF Edited, SameBook, SameRequests
  <2>. QED BY <1>2, <2>4, EditedStep DEF IInv
<1>13. CASE /\ k \in DOMAIN w.messages /\ w.messages[k].role # "error"
            /\ k \notin DOMAIN s.messages
  <2>1. w' = s
    BY <1>2, <1>13
  <2>2. Edited(s, s, P)
    BY <1>5, SameItself DEF Edited
  <2>3. Onward(s, s, P)
    BY <1>5, <2>2, ReadyStays
  <2>. QED BY <1>10, <2>1, <2>3
<1>14. CASE /\ k \in DOMAIN w.messages /\ w.messages[k].role # "error"
            /\ k \in DOMAIN s.messages /\ s.messages[k].role = "queued"
  <2>. DEFINE t == saveCurrentSessionState(done)
  <2>1. Edited(done, t, P)
    BY <1>8, Saved DEF Edited
  <2>2. w' = t
    BY <1>2, <1>14
  <2>. HIDE DEF t
  <2>3. Edited(s, t, P)
    BY <1>5, <1>8, <2>1, EditedTwice
  <2>4. Onward(s, t, P)
    BY <1>5, <2>3, ReadyStays
  <2>. QED BY <1>10, <2>2, <2>4
<1>15. CASE /\ k \in DOMAIN w.messages /\ w.messages[k].role # "error"
            /\ k \in DOMAIN s.messages /\ s.messages[k].role # "queued"
  <2>1. PICK list \in Seq(Good(s, P, s.open)) :
          list = Rewound(s.messages, k) /\ QueuedIds(s.messages) \subseteq QueuedIds(list)
    <3>. DEFINE G == Good(s, P, s.open)
    <3>1. s.messages \in Seq(G)
      BY <1>5
    <3>. HIDE DEF G
    <3>2. k \in 0 .. Len(s.messages)
      BY <1>15, <3>1
    <3>3. Rewound(s.messages, k) \in Seq(G) /\ QueuedIds(s.messages) \subseteq QueuedIds(Rewound(s.messages, k))
      BY <3>1, <3>2, RewoundTyped
    <3>. QED BY <3>3, Zenon DEF G
  <2>2. /\ list \in Seq(Good(done, P, done.open)) /\ QueuedIds(done.messages) \subseteq QueuedIds(list)
        /\ Sound(done, P)
    BY <1>7, <1>8, <1>9, <2>1 DEF Edited
  <2>3. CASE s.messages[k].role = "user"
    <3>1. w' = sendMessageByIndex(saveCurrentSessionState(SetMessages(done, list)), k)
      BY <1>2, <1>15, <2>1, <2>3
    <3>2. Onward(done, w', P)
      BY <1>8, <2>2, <3>1, GoneOn
    <3>3. Onward(s, w', P)
      BY <1>5, <1>6, <1>8, <3>2, OnwardTwice DEF Edited
    <3>. QED BY <1>10, <3>3
  <2>4. CASE s.messages[k].role # "user"
    <3>1. w' = saveCurrentSessionState(SetMessages(done, list))
      BY <1>2, <1>15, <2>1, <2>4
    <3>2. Edited(done, w', P)
      BY <2>2, <3>1, Replaced DEF Edited
    <3>3. Edited(s, w', P)
      BY <1>5, <1>8, <3>2, EditedTwice
    <3>4. Onward(s, w', P)
      BY <1>5, <3>3, ReadyStays
    <3>. QED BY <1>10, <3>4
  <2>. QED BY <2>3, <2>4
<1>. QED BY <1>11, <1>12, <1>13, <1>14, <1>15

-----------------------------------------------------------------------------
(* The theorems.                                                           *)

\* One empty chat, and nothing under way.
LEMMA InitInv ==
    ASSUME Init
    PROVE  IInv
<1>1. PICK c \in Chats :
        w = [sessions |-> [d \in Chats |-> IF d = c THEN <<>> ELSE None], open |-> c, used |-> {c},
             messages |-> <<>>, loading |-> FALSE, generation |-> 0, active |-> None, xhr |-> None,
             stream |-> None, pending |-> None, later |-> FALSE, undoable |-> None, editing |-> None,
             lookups |-> {}, net |-> {}, sent |-> <<>>, cut |-> FALSE, returned |-> {}, next |-> 1]
  BY DEF Init
<1>2. valid = TRUE /\ waiting = {} /\ budget \in [BudgetNames -> Nat]
  BY RequestsAssumption DEF Init
<1>3. <<>> \in MessageList /\ \A G : <<>> \in Seq(G)
  <2>1. ASSUME NEW G PROVE <<>> \in Seq(G)
    OBVIOUS
  <2>. QED BY <2>1 DEF MessageList
<1>4. PICK list \in MessageList : list = <<>> /\ \A G : list \in Seq(G)
  BY <1>3
<1>5. PICK sessions \in [Chats -> MessageList \cup {None}] : sessions = [d \in Chats |-> IF d = c THEN list ELSE None]
  OBVIOUS
<1>6. w = [sessions |-> sessions, open |-> c, used |-> {c},
           messages |-> list, loading |-> FALSE, generation |-> 0, active |-> None, xhr |-> None,
           stream |-> None, pending |-> None, later |-> FALSE, undoable |-> None, editing |-> None,
           lookups |-> {}, net |-> {}, sent |-> list, cut |-> FALSE, returned |-> {}, next |-> 1]
  BY <1>1, <1>4, <1>5
<1>7. w \in Widget
  BY <1>6 DEF Widget
<1>8. sessions[c] = list /\ list # None /\ \A d \in Chats : sessions[d] # None => d = c
  BY <1>5, NoneApart
<1>9. Sound(w, {})
  BY <1>4, <1>6, <1>7, <1>8 DEF Sound
<1>10. Running(w)
  BY <1>6 DEF Running, OneRequest, Live
<1>11. Backed(w)
  BY <1>6, <1>8 DEF Backed
<1>. QED BY <1>2, <1>9, <1>10, <1>11 DEF IInv

\* Every handler and every answer keeps the invariant.
LEMMA NextInv ==
    ASSUME IInv, [Next]_vars
    PROVE  IInv'
<1>1. CASE UNCHANGED vars
  BY <1>1 DEF vars, IInv
<1>2. ASSUME NEW r, VariantResolved(r) \/ Delta(r) \/ Complete(r) \/ Fail(r) \/ Ask(r) PROVE IInv'
  BY <1>2, LookupStep, DeltaStep, CompleteStep, FailStep, AskStep
<1>3. ASSUME NEW c \in Chats, createSession(c) \/ switchSession(c) \/ deleteSession(c) PROVE IInv'
  BY <1>3, CreateStep, SwitchStep, DeleteStep
<1>4. ASSUME NEW k \in DOMAIN w.messages, regenerateResponse(k) \/ retryFailedMessage(k) \/ deleteMessage(k)
      PROVE  IInv'
  BY <1>4, RegenerateStep, RetryStep, DeleteMessageStep
<1>5. CASE (\E k \in DOMAIN w.messages : StartEdit(k)) \/ CancelEdit
  BY <1>5, EditStepKept
<1>6. CASE clearChat \/ saveEditedMessage
  BY <1>6, ClearStep, SaveEditedStep
<1>7. CASE sendMessage \/ Answer \/ Stop \/ CalledLater
  BY <1>7, SendStep, AnswerStep, StopStep, LaterStep
<1>8. CASE \E m \in ToSet(w.messages) : Dismiss(m.id)
  BY <1>8, DismissStep
<1>9. CASE undo \/ dismiss \/ ChangeSettings \/ loadSessions
  BY <1>9, UndoStep, DismissUndoStep, SettingsStep, LoadStep
<1>10. CASE NetworkStep
  BY <1>2, <1>10 DEF NetworkStep
<1>11. CASE ChatStep
  BY <1>3, <1>11 DEF ChatStep
<1>12. CASE EditStep
  BY <1>4, <1>5, <1>6, <1>12 DEF EditStep
<1>. QED BY <1>1, <1>7, <1>8, <1>9, <1>10, <1>11, <1>12 DEF Next

\* The inductive invariant holds in every reachable state.
THEOREM Invariant == Spec => []IInv
<1>1. Init => IInv
  BY InitInv
<1>2. IInv /\ [Next]_vars => IInv'
  BY NextInv
<1>. QED BY <1>1, <1>2, PTL DEF Spec

\* Every variable stays in its type; the open chat is in the list, and no chat's id is given out twice.
THEOREM RequestsTyped == Spec => []TypeOK
<1>1. IInv => TypeOK
  BY DEF IInv, Sound, TypeOK, Listed, Widget
<1>. QED BY <1>1, Invariant, PTL

\* A reply, an error or a card never gets into another chat than that of the request it answers.
THEOREM SpecOwnChat == Spec => []OwnChat
<1>1. IInv => OwnChat
  <2>. SUFFICES ASSUME IInv, NEW c \in Chats, w.sessions[c] # None, NEW m \in ToSet(Shown(c)) \cup ToSet(w.sessions[c])
                PROVE  m.chat = c
    BY DEF OwnChat, Listed
  <2>1. PICK P : Sound(w, P)
    BY DEF IInv
  <2>. DEFINE G == Good(w, P, c)
  <2>2. w.sessions[c] \in Seq(G) /\ (c = w.open => w.messages \in Seq(G))
    BY <2>1 DEF Sound
  <2>3. \A l \in Seq(G) : ToSet(l) \subseteq G
    BY DEF ToSet
  <2>4. Shown(c) \in Seq(G)
    BY <2>2 DEF Shown
  <2>. HIDE DEF G
  <2>5. m \in G
    BY <2>2, <2>3, <2>4
  <2>. QED BY <2>5 DEF G, Good
<1>. QED BY <1>1, Invariant, PTL

\* What runs on the network is one request, the one whose reply is shown and that Stop reaches, and a
\* chat that says it is loading waits for something that will still come.
THEOREM SpecStopReaches == Spec => []StopReaches
<1>1. IInv => StopReaches
  <2>. SUFFICES ASSUME IInv PROVE RunningCanBeStopped /\ LoadingHasCause
    BY DEF StopReaches
  <2>1. OneRequest(w) /\ Live(w)
    BY DEF IInv, Running
  <2>2. ASSUME ~w.cut, NEW r \in w.net
        PROVE  requestIsCurrent(w, r) /\ w.xhr = r.generation /\ w.loading /\ Cardinality(w.net) = 1
    <3>1. requestIsCurrent(w, r) /\ w.xhr = r.generation /\ w.loading /\ w.net = {r}
      BY <2>1, <2>2 DEF OneRequest, Live
    <3>2. Cardinality({r}) = 1
      BY FS_Singleton
    <3>. QED BY <3>1, <3>2
  <2>3. LoadingHasCause
    BY <2>1 DEF Live, LoadingHasCause
  <2>. QED BY <2>2, <2>3 DEF RunningCanBeStopped
<1>. QED BY <1>1, Invariant, PTL

\* An open question card, in any chat, is the question that the model waits on.
THEOREM SpecAskedIsPending == Spec => []AskedIsPending
<1>1. IInv => AskedIsPending
  <2>. SUFFICES ASSUME IInv, NEW c \in Chats, w.sessions[c] # None, NEW m \in ToSet(w.sessions[c]),
                       m.role = "asked", m.id \notin w.returned
                PROVE  w.pending # None /\ w.pending.id = m.id
    BY DEF AskedIsPending, Listed
  <2>1. PICK P : Sound(w, P)
    BY DEF IInv
  <2>. DEFINE G == Good(w, P, c)
  <2>2. w.sessions[c] \in Seq(G)
    BY <2>1 DEF Sound
  <2>3. \A l \in Seq(G) : ToSet(l) \subseteq G
    BY DEF ToSet
  <2>. HIDE DEF G
  <2>4. m \in G
    BY <2>2, <2>3
  <2>. QED BY <2>4 DEF G, Good
<1>. QED BY <1>1, Invariant, PTL

\* A message that was queued stays in the queue of its chat until it is sent or deleted.
THEOREM SpecQueuedStays == Spec => []QueuedStays
<1>1. IInv => QueuedStays
  <2>. SUFFICES ASSUME IInv, ~w.cut, NEW id \in waiting
                PROVE  \/ \E c \in Listed(w) : \E m \in ToSet(Shown(c)) : m.id = id /\ m.role = "queued"
                       \/ \E m \in ToSet(w.sent) : m.id = id
    BY DEF QueuedStays
  <2>1. Waits(w, id) /\ w.open \in Chats /\ w.sessions[w.open] # None
    BY DEF IInv, Sound, Widget
  <2>2. \A list : id \in QueuedIds(list) => \E m \in ToSet(list) : m.id = id /\ m.role = "queued"
    BY DEF QueuedIds, Queued, ToSet
  <2>3. CASE id \in QueuedIds(w.messages)
    BY <2>1, <2>2, <2>3 DEF Listed, Shown
  <2>4. CASE id \in SentIds(w)
    BY <2>4 DEF SentIds, ToSet
  <2>5. CASE \E c \in Chats \ {w.open} : w.sessions[c] # None /\ id \in QueuedIds(w.sessions[c])
    BY <2>2, <2>5 DEF Listed, Shown
  <2>. QED BY <2>1, <2>3, <2>4, <2>5 DEF Waits
<1>. QED BY <1>1, Invariant, PTL
===============================================================================
