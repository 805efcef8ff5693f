---------------------------- MODULE AskInboxProofs ----------------------------
(***************************************************************************)
(* A request that another program leaves is put into one box, once, and    *)
(* nothing of it is lost on the way but by a fault; what is sent without    *)
(* the user is what was asked to be sent, where it was meant for: for any  *)
(* number of widgets, chats and requests.                                  *)
(***************************************************************************)
EXTENDS AskInbox, FiniteSetTheorems, SequenceTheorems, WellFoundedInduction, TLAPS

Pieces == Ids \cup {0}
Places == Chats \cup Ids
Boxes == [watching : BOOLEAN, takes : BOOLEAN, queue : Seq(Ids), busy : BOOLEAN, target : Places,
          waited : Nat, chat : Places, made : SUBSET Ids, box : Seq(Pieces), loading : SUBSET Ids, ready : SUBSET Ids,
          failed : SUBSET Ids, missed : SUBSET Ids]
Helpers == [pc : {"off", "claim", "read"}, todo : SUBSET Ids, cur : Pieces, items : Seq(Ids)]
Posts == [chat : Places, pieces : Seq(Pieces), files : SUBSET Ids, by : {"timer", "user"}]
Stages == {"none", "waiting", "old", "taking", "stale", "gone"}
Applieds == [Ids -> Seq(Places)]

\* Those that the watchers' events have to do with.
StirOK == stir \subseteq Widgets

\* What the other variables are.
TypeOK ==
    /\ kind \in Seq(Kinds) /\ file \in [Ids -> Stages]
    /\ helper \in [Widgets -> Helpers] /\ wid \in [Widgets -> Boxes]
    /\ applied \in Applieds /\ sent \in Seq(Posts) /\ lost \subseteq Pieces
    /\ left \in [{"faults", "steps"} -> Nat]

\* The requests written have the first numbers; what is left for a day is lost.
Numbered ==
    /\ Written = DOMAIN kind
    /\ \A i \in Ids : file[i] \in {"old", "stale"} => i \in lost

\* The invariant is of widgets wi, chats ap of each request, helpers he and messages se, so that it can be said of the
\* moments between two requests that one handler puts into a box.

\* One helper has what was claimed and not read.
Claimed(he) ==
    \A h \in Widgets :
        /\ he[h].pc = "off" => he[h].items = <<>>
        /\ he[h].pc # "read" => he[h].cur = 0
        /\ he[h].pc = "read" => he[h].cur \in Ids /\ file[he[h].cur] \in {"taking", "stale"}
        /\ \A g \in Widgets \ {h} : he[g].cur = he[h].cur => he[h].cur = 0

\* The requests a widget has or will be told of.
Due(wi, he, w) == ToSet(wi[w].queue) \cup ToSet(he[w].items)

\* Each of these waits in one place, once, and is in no box.
Queueing(wi, ap, he) ==
    \A w \in Widgets :
        /\ IsInjective(wi[w].queue) /\ IsInjective(he[w].items)
        /\ ToSet(wi[w].queue) \cap ToSet(he[w].items) = {}
        /\ \A v \in Widgets \ {w} : Due(wi, he, v) \cap Due(wi, he, w) = {}
        /\ \A i \in Due(wi, he, w) : file[i] = "gone" /\ ap[i] = <<>>

\* A request is put into one box, and its text is in one box or in one message.
Placed(wi, ap, se) ==
    /\ \A i \in Ids : Len(ap[i]) <= 1 /\ (ap[i] # <<>> => file[i] = "gone")
    /\ \A w \in Widgets : \A i \in ToSet(wi[w].box) \ {0} :
          ap[i] # <<>> /\ \A v \in Widgets \ {w} : i \notin ToSet(wi[v].box)
    /\ \A m \in DOMAIN se : \A i \in ToSet(se[m].pieces) \ {0} :
          /\ ap[i] # <<>>
          /\ \A w \in Widgets : i \notin ToSet(wi[w].box)
          /\ \A n \in DOMAIN se \ {m} : i \notin ToSet(se[n].pieces)

Boxed(wi, se, i) == (\E w \in Widgets : i \in ToSet(wi[w].box)) \/ \E m \in DOMAIN se : i \in ToSet(se[m].pieces)

\* What no fault has taken is somewhere.
Somewhere(wi, ap, he, se) ==
    \A i \in Ids \ lost :
        /\ file[i] = "taking" => \E h \in Widgets : he[h].cur = i
        /\ file[i] = "gone" => ap[i] # <<>> \/ \E w \in Widgets : i \in Due(wi, he, w)
        /\ ap[i] # <<>> /\ kind[i].text => Boxed(wi, se, i)

Asked(i) == kind[i].send /\ kind[i].file = "no"
MeantFor(ap, i, chat) == i \in Ids /\ Asked(i) /\ ap[i] # <<>> /\ ap[i][1] = chat

\* The user has sent the request themself, as one of the messages up to n.
UserSent(se, n, i) == \E j \in 1 .. n : se[j].by = "user" /\ se[j].pieces # <<>> /\ se[j].pieces[1] = i

\* The timer runs for a request that begins what is in the box; unless the user has sent it.
Sending(wi, ap, se) ==
    \A w \in Widgets : wi[w].busy =>
        \E i \in Ids :
            /\ MeantFor(ap, i, wi[w].target)
            /\ \/ wi[w].box # <<>> /\ wi[w].box[1] = i
               \/ UserSent(se, Len(se), i) /\ (wi[w].box # <<>> => wi[w].box[1] = 0)

\* SentAsAsked, of ap and se.
AsAsked(ap, se) ==
    \A m \in DOMAIN se : se[m].by = "timer" /\ se[m].pieces # <<>> =>
        \E i \in Ids :
            /\ MeantFor(ap, i, se[m].chat)
            /\ \/ se[m].pieces[1] = i
               \/ se[m].pieces[1] = 0 /\ UserSent(se, m - 1, i)

Kept(wi, ap, he, se) ==
    Claimed(he) /\ Queueing(wi, ap, he) /\ Placed(wi, ap, se) /\ Somewhere(wi, ap, he, se) /\ Sending(wi, ap, se) /\ AsAsked(ap, se)

IInv == TypeOK /\ Numbered /\ Kept(wid, applied, helper, sent)

-----------------------------------------------------------------------------
(* Sequences.                                                              *)

LEMMA EmptyToSet == ToSet(<<>>) = {} /\ IsInjective(<<>>)
BY DEF ToSet, IsInjective

LEMMA ToSetAppended ==
    ASSUME NEW A, NEW s \in Seq(A), NEW x \in A
    PROVE  /\ ToSet(Append(s, x)) = ToSet(s) \cup {x}
           /\ IsInjective(s) /\ x \notin ToSet(s) => IsInjective(Append(s, x))
           /\ Append(s, x) # <<>> /\ Append(s, x)[1] = IF s = <<>> THEN x ELSE s[1]
<1>1. /\ Append(s, x) \in Seq(A) /\ Len(Append(s, x)) = Len(s) + 1 /\ Append(s, x)[Len(s) + 1] = x
      /\ \A i \in 1 .. Len(s) : Append(s, x)[i] = s[i]
  BY AppendProperties
<1>2. DOMAIN s = 1 .. Len(s) /\ Len(s) \in Nat /\ DOMAIN Append(s, x) = 1 .. Len(s) + 1
  BY <1>1
<1>3. ToSet(Append(s, x)) = ToSet(s) \cup {x}
  BY <1>1, <1>2 DEF ToSet
<1>4. ASSUME IsInjective(s), x \notin ToSet(s) PROVE IsInjective(Append(s, x))
  BY <1>1, <1>2, <1>4 DEF IsInjective, ToSet
<1>5. Append(s, x) # <<>> /\ Append(s, x)[1] = IF s = <<>> THEN x ELSE s[1]
  <2>1. CASE s = <<>>
    <3>1. Len(s) = 0
      BY <2>1
    <3> QED
      BY <1>1, <1>2, <2>1, <3>1, EmptySeq
  <2>2. CASE s # <<>>
    <3>1. Len(s) >= 1
      BY <1>2, <2>2, EmptySeq
    <3> QED
      BY <1>1, <1>2, <2>2, <3>1, EmptySeq
  <2> QED
    BY <2>1, <2>2
<1> QED
  BY <1>3, <1>4, <1>5

LEMMA ToSetJoined ==
    ASSUME NEW A, NEW s \in Seq(A), NEW t \in Seq(A)
    PROVE  /\ s \o t \in Seq(A) /\ ToSet(s \o t) = ToSet(s) \cup ToSet(t)
           /\ IsInjective(s) /\ IsInjective(t) /\ ToSet(s) \cap ToSet(t) = {} => IsInjective(s \o t)
<1>1. /\ s \o t \in Seq(A) /\ Len(s \o t) = Len(s) + Len(t)
      /\ \A i \in 1 .. Len(s) + Len(t) : (s \o t)[i] = IF i <= Len(s) THEN s[i] ELSE t[i - Len(s)]
  BY ConcatProperties
<1>2. DOMAIN s = 1 .. Len(s) /\ Len(s) \in Nat /\ DOMAIN t = 1 .. Len(t) /\ Len(t) \in Nat
      /\ DOMAIN (s \o t) = 1 .. Len(s) + Len(t)
  BY <1>1
<1> DEFINE u == s \o t
<1>3. ToSet(u) = ToSet(s) \cup ToSet(t)
  <2>1. ToSet(u) \subseteq ToSet(s) \cup ToSet(t)
    BY <1>1, <1>2 DEF ToSet
  <2>2. ToSet(s) \subseteq ToSet(u)
    BY <1>1, <1>2 DEF ToSet
  <2>3. ASSUME NEW k \in 1 .. Len(t) PROVE t[k] \in ToSet(u)
    <3>1. k + Len(s) \in 1 .. Len(s) + Len(t) /\ u[k + Len(s)] = t[k]
      BY <1>1, <1>2
    <3> QED
      BY <1>2, <3>1 DEF ToSet
  <2> QED
    BY <1>2, <2>1, <2>2, <2>3 DEF ToSet
<1>4. ASSUME IsInjective(s), IsInjective(t), ToSet(s) \cap ToSet(t) = {} PROVE IsInjective(u)
  <2> SUFFICES ASSUME NEW a \in 1 .. Len(s) + Len(t), NEW b \in 1 .. Len(s) + Len(t), u[a] = u[b], a < b PROVE FALSE
    BY <1>2 DEF IsInjective
  <2>1. CASE b <= Len(s)
    BY <1>1, <1>2, <1>4, <2>1 DEF IsInjective
  <2>2. CASE a > Len(s)
    <3>1. a - Len(s) \in 1 .. Len(t) /\ b - Len(s) \in 1 .. Len(t) /\ u[a] = t[a - Len(s)] /\ u[b] = t[b - Len(s)]
      BY <1>1, <1>2, <2>2
    <3>2. a - Len(s) = b - Len(s)
      BY <1>2, <1>4, <3>1 DEF IsInjective
    <3> QED
      BY <1>2, <3>2
  <2>3. CASE a <= Len(s) /\ b > Len(s)
    <3>1. a \in 1 .. Len(s) /\ b - Len(s) \in 1 .. Len(t) /\ u[a] = s[a] /\ u[b] = t[b - Len(s)]
      BY <1>1, <1>2, <2>3
    <3>2. s[a] \in ToSet(s) /\ t[b - Len(s)] \in ToSet(t)
      BY <1>2, <3>1 DEF ToSet
    <3> QED
      BY <1>4, <3>1, <3>2
  <2> QED
    BY <1>2, <2>1, <2>2, <2>3
<1> QED
  BY <1>1, <1>3, <1>4

LEMMA ToSetHead ==
    ASSUME NEW A, NEW s \in Seq(A), s # <<>>
    PROVE  /\ Head(s) \in A /\ Tail(s) \in Seq(A) /\ Head(s) = s[1]
           /\ ToSet(s) = {Head(s)} \cup ToSet(Tail(s))
           /\ IsInjective(s) => IsInjective(Tail(s)) /\ Head(s) \notin ToSet(Tail(s))
<1>1. /\ Head(s) \in A /\ Tail(s) \in Seq(A) /\ Head(s) = s[1] /\ Len(s) \in Nat /\ Len(s) >= 1
      /\ Len(Tail(s)) = Len(s) - 1 /\ \A i \in 1 .. Len(s) - 1 : Tail(s)[i] = s[i + 1]
  BY HeadTailProperties, EmptySeq
<1>2. DOMAIN s = 1 .. Len(s) /\ DOMAIN Tail(s) = 1 .. Len(s) - 1
  BY <1>1
<1>3. ToSet(s) = {Head(s)} \cup ToSet(Tail(s))
  <2>1. ASSUME NEW i \in 1 .. Len(s) PROVE s[i] \in {Head(s)} \cup ToSet(Tail(s))
    <3>1. CASE i = 1
      BY <1>1, <3>1
    <3>2. CASE i # 1
      <4>1. i - 1 \in 1 .. Len(s) - 1 /\ Tail(s)[i - 1] = s[i]
        BY <1>1, <3>2
      <4> QED
        BY <1>2, <4>1 DEF ToSet
    <3> QED
      BY <3>1, <3>2
  <2>2. ASSUME NEW i \in 1 .. Len(s) - 1 PROVE Tail(s)[i] \in ToSet(s)
    BY <1>1, <1>2 DEF ToSet
  <2>3. s[1] \in ToSet(s)
    BY <1>1, <1>2 DEF ToSet
  <2>4. ToSet(s) \subseteq {Head(s)} \cup ToSet(Tail(s))
    BY <1>2, <2>1 DEF ToSet
  <2>5. ToSet(Tail(s)) \subseteq ToSet(s)
    BY <1>2, <2>2 DEF ToSet
  <2> QED
    BY <1>1, <2>3, <2>4, <2>5
<1>4. ASSUME IsInjective(s) PROVE IsInjective(Tail(s)) /\ Head(s) \notin ToSet(Tail(s))
  <2>1. ASSUME NEW a \in 1 .. Len(s) - 1, NEW b \in 1 .. Len(s) - 1, Tail(s)[a] = Tail(s)[b] PROVE a = b
    <3>1. a + 1 \in 1 .. Len(s) /\ b + 1 \in 1 .. Len(s) /\ s[a + 1] = s[b + 1]
      BY <1>1, <2>1
    <3>2. a + 1 = b + 1
      BY <1>2, <1>4, <3>1 DEF IsInjective
    <3> QED
      BY <3>2
  <2>2. ASSUME NEW a \in 1 .. Len(s) - 1, Tail(s)[a] = s[1] PROVE FALSE
    <3>1. a + 1 \in 1 .. Len(s) /\ 1 \in 1 .. Len(s) /\ s[a + 1] = s[1]
      BY <1>1, <2>2
    <3>2. a + 1 = 1
      BY <1>2, <1>4, <3>1 DEF IsInjective
    <3> QED
      BY <3>2
  <2> QED
    BY <1>1, <1>2, <2>1, <2>2 DEF IsInjective, ToSet
<1> QED
  BY <1>1, <1>3, <1>4

-----------------------------------------------------------------------------
(* Handled: what each step of a row keeps, the whole row keeps, by the     *)
(* least number for which it would not.                                    *)

\* A set of numbers has a least one.
LEMMA Least ==
    ASSUME NEW T, T \subseteq Nat, T # {}
    PROVE  \E x \in T : \A y \in T : x <= y
<1> DEFINE R == OpToRel(<, Nat)
<1>1. IsWellFoundedOn(R, Nat)
  BY NatLessThanWellFounded
<1>2. \A x, y \in Nat : y < x => <<y, x>> \in R
  BY DEF OpToRel
<1> HIDE DEF R
<1>3. PICK x \in T : \A y \in T : ~ (<<y, x>> \in R)
  BY <1>1, WFMin
<1>4. \A a, b \in Nat : ~ (a < b) => b <= a
  OBVIOUS
<1> QED
  BY <1>2, <1>3, <1>4

\* g holds what is reached from S after each number of steps up to n.
Reaches(S, n, g) == \A k \in 0 .. n : g[k] = IF k = 0 THEN S ELSE Onward(g[k - 1])

LEMMA ReachesExists ==
    ASSUME NEW T, NEW S \in T, \A R \in T : Onward(R) \in T, NEW n \in Nat
    PROVE  \E g \in [0 .. n -> T] : Reaches(S, n, g)
<1> DEFINE Upto(m, g) == Reaches(S, m, g)
           Missing == {m \in Nat : ~ \E g \in [0 .. m -> T] : Upto(m, g)}
<1>1. SUFFICES ASSUME Missing # {} PROVE FALSE
  OBVIOUS
<1>2. PICK m \in Missing : \A k \in Missing : m <= k
  BY <1>1, Least
<1>3. m # 0
  <2>1. Upto(0, [k \in 0 .. 0 |-> S])
    BY DEF Reaches
  <2> QED
    BY <2>1
<1>4. m \in Nat /\ m - 1 \in Nat /\ m - 1 \notin Missing
  <2>1. m \in Nat
    OBVIOUS
  <2>2. m - 1 \in Nat /\ ~ (m <= m - 1)
    BY <1>3, <2>1
  <2> HIDE DEF Missing
  <2> QED
    BY <1>2, <2>1, <2>2
<1>5. PICK g \in [0 .. (m - 1) -> T] : Upto(m - 1, g)
  BY <1>4
<1> DEFINE h == [k \in 0 .. m |-> IF k = m THEN Onward(g[m - 1]) ELSE g[k]]
<1>6. h \in [0 .. m -> T]
  BY <1>4
<1>7. Upto(m, h)
  <2> SUFFICES ASSUME NEW k \in 0 .. m PROVE h[k] = IF k = 0 THEN S ELSE Onward(h[k - 1])
    BY DEF Reaches
  <2>1. CASE k = m
    <3>1. h[k] = Onward(g[m - 1]) /\ h[k - 1] = g[m - 1]
      BY <1>3, <1>4, <2>1
    <3> QED
      BY <1>3, <2>1, <3>1
  <2>2. CASE k # m
    <3>1. k \in 0 .. (m - 1) /\ h[k] = g[k] /\ (k # 0 => h[k - 1] = g[k - 1])
      BY <1>4, <2>2
    <3> QED
      BY <1>5, <3>1 DEF Reaches
  <2> QED
    BY <2>1, <2>2
<1> QED
  BY <1>2, <1>4, <1>6, <1>7

LEMMA HandledIn ==
    ASSUME NEW W, Len(W.queue) \in Nat, NEW T, [widget |-> W, applied |-> applied] \in T, \A S \in T : Onward(S) \in T
    PROVE  Handled(W) \in T
<1> DEFINE n == Len(W.queue)
           S0 == [widget |-> W, applied |-> applied]
           Is(f) == f = [k \in 0 .. n |-> IF k = 0 THEN S0 ELSE Onward(f[k - 1])]
           f == CHOOSE f : Is(f)
<1>1. Handled(W) = f[n]
  BY DEF Handled
<1> HIDE DEF n, S0
<1>2. n \in Nat /\ S0 \in T
  BY DEF n, S0
<1>3. \E g : Is(g)
  <2>1. PICK g \in [0 .. n -> T] : Reaches(S0, n, g)
    BY <1>2, ReachesExists
  <2>2. g = [k \in 0 .. n |-> g[k]]
    OBVIOUS
  <2> QED
    BY <2>1, <2>2 DEF Reaches
<1>4. Is(f)
  BY <1>3
<1> HIDE DEF f
<1> DEFINE Other == {k \in 0 .. n : f[k] \notin T}
<1>5. SUFFICES ASSUME Other # {} PROVE FALSE
  BY <1>1, <1>2
<1>6. PICK k \in Other : \A m \in Other : k <= m
  <2>1. Other \subseteq Nat
    BY <1>2
  <2> HIDE DEF Other
  <2> QED
    BY <1>5, <2>1, Least
<1>7. k \in 0 .. n /\ f[k] \notin T
  BY <1>6
<1>8. f[k] = IF k = 0 THEN S0 ELSE Onward(f[k - 1])
  BY <1>4, <1>7
<1>9. k # 0 => f[k - 1] \in T
  <2> SUFFICES ASSUME k # 0 PROVE k - 1 \notin Other
    BY <1>2, <1>7
  <2>1. ~ (k <= k - 1)
    BY <1>2, <1>7
  <2> HIDE DEF Other
  <2> QED
    BY <1>6, <2>1
<1> QED
  BY <1>2, <1>7, <1>8, <1>9

-----------------------------------------------------------------------------
(* One request more is put into the box.                                   *)

LEMMA KindIs == ASSUME NEW k \in Kinds PROVE k \in [text : BOOLEAN, file : {"no", "good", "refused"}, newChat : BOOLEAN, send : BOOLEAN]
BY AskAssumption

LEMMA ApplyIs ==
    ASSUME NEW W \in Boxes, NEW i \in Ids, kind[i] \in Kinds
    PROVE  /\ apply(W, i) \in Boxes
           /\ apply(W, i).queue = W.queue
           /\ apply(W, i).box = IF kind[i].text THEN Append(W.box, i) ELSE W.box
           /\ IF SendsAtOnce(W, kind[i]) THEN apply(W, i).busy /\ apply(W, i).target = apply(W, i).chat
              ELSE apply(W, i).busy = W.busy /\ apply(W, i).target = W.target
<1> DEFINE k == kind[i]
           V == [W EXCEPT !.chat = IF k.newChat THEN i ELSE @,
                          !.made = IF k.newChat THEN @ \cup {i} ELSE @,
                          !.loading = IF check_files(k) THEN @ \cup {i} ELSE @,
                          !.box = IF k.text THEN Append(@, i) ELSE @]
           U == [V EXCEPT !.busy = TRUE, !.target = V.chat, !.waited = 0]
<1>1. apply(W, i) = IF SendsAtOnce(W, k) THEN U ELSE V
  BY DEF apply
<1>2. Append(W.box, i) \in Seq(Pieces)
  BY AppendProperties DEF Boxes, Pieces
<1>3. V \in Boxes /\ V.queue = W.queue /\ V.busy = W.busy /\ V.target = W.target /\ V.chat \in Places
      /\ V.box = IF k.text THEN Append(W.box, i) ELSE W.box
  BY <1>2 DEF Boxes, Places
<1> HIDE DEF V
<1>4. U \in Boxes /\ U.queue = V.queue /\ U.busy /\ U.target = V.chat /\ U.chat = V.chat /\ U.box = V.box
  BY <1>3 DEF Boxes
<1> HIDE DEF U
<1> QED
  BY <1>1, <1>3, <1>4

LEMMA OnwardKeeps ==
    ASSUME kind \in Seq(Kinds), file \in [Ids -> Stages], Numbered,
           NEW wi \in [Widgets -> Boxes], NEW ap \in Applieds, NEW he \in [Widgets -> Helpers], NEW se \in Seq(Posts),
           Kept(wi, ap, he, se),
           NEW w \in Widgets, ~wi[w].busy, wi[w].queue # <<>>,
           NEW i, i = Head(wi[w].queue),
           NEW W, W = apply([wi[w] EXCEPT !.queue = Tail(@)], i)
    PROVE  /\ W \in Boxes /\ [ap EXCEPT ![i] = Append(@, W.chat)] \in Applieds
           /\ Kept([wi EXCEPT ![w] = W], [ap EXCEPT ![i] = Append(@, W.chat)], he, se)
<1> DEFINE V == [wi[w] EXCEPT !.queue = Tail(@)]
           nw == [wi EXCEPT ![w] = W]
           na == [ap EXCEPT ![i] = Append(@, W.chat)]
<1>1. /\ wi[w] \in Boxes /\ wi[w].queue \in Seq(Ids) /\ wi[w].box \in Seq(Pieces)
      /\ i \in Ids /\ Tail(wi[w].queue) \in Seq(Ids) /\ ToSet(wi[w].queue) = {i} \cup ToSet(Tail(wi[w].queue))
      /\ IsInjective(wi[w].queue) => IsInjective(Tail(wi[w].queue)) /\ i \notin ToSet(Tail(wi[w].queue))
  <2>1. wi[w] \in Boxes /\ wi[w].queue \in Seq(Ids) /\ wi[w].box \in Seq(Pieces)
    BY DEF Boxes
  <2> QED
    BY <2>1, ToSetHead
<1>2. i \in Due(wi, he, w) /\ file[i] = "gone" /\ ap[i] = <<>>
  BY <1>1 DEF Due, Kept, Queueing
<1>3. kind[i] \in Kinds
  <2>1. i \in DOMAIN kind
    BY <1>1, <1>2 DEF Numbered, Written
  <2> QED
    BY <2>1
<1>4. V \in Boxes /\ V.queue = Tail(wi[w].queue) /\ V.box = wi[w].box /\ V.busy = wi[w].busy /\ V.target = wi[w].target
  BY <1>1 DEF Boxes
<1> HIDE DEF V
<1>5. /\ W \in Boxes /\ W.queue = V.queue /\ W.box = IF kind[i].text THEN Append(V.box, i) ELSE V.box
      /\ IF SendsAtOnce(V, kind[i]) THEN W.busy /\ W.target = W.chat ELSE W.busy = V.busy /\ W.target = V.target
  <2>1. W = apply(V, i)
    BY DEF V
  <2> QED
    BY <1>1, <1>3, <1>4, <2>1, ApplyIs
<1>6. /\ nw \in [Widgets -> Boxes] /\ nw[w] = W /\ \A v \in Widgets \ {w} : nw[v] = wi[v]
  BY <1>5
<1>7. /\ na \in Applieds /\ Len(na[i]) = 1 /\ na[i] # <<>> /\ na[i][1] = W.chat
      /\ \A j \in Ids \ {i} : na[j] = ap[j]
  <2>1. W.chat \in Places
    BY <1>5 DEF Boxes
  <2>2. Append(<<>>, W.chat) \in Seq(Places) /\ Len(Append(<<>>, W.chat)) = 1 /\ Append(<<>>, W.chat)[1] = W.chat
    BY <2>1
  <2>3. DOMAIN ap = Ids /\ \A j \in Ids : ap[j] \in Seq(Places)
    BY DEF Applieds
  <2>4. na = [j \in Ids |-> IF j = i THEN Append(<<>>, W.chat) ELSE ap[j]]
    BY <1>1, <1>2, <2>3
  <2> HIDE DEF na
  <2>5. na \in Applieds
    BY <2>2, <2>3, <2>4 DEF Applieds
  <2>6. na[i] = Append(<<>>, W.chat) /\ \A j \in Ids \ {i} : na[j] = ap[j]
    BY <1>1, <2>4
  <2>7. Append(<<>>, W.chat) # <<>>
    BY <2>2
  <2> QED
    BY <2>2, <2>5, <2>6, <2>7
<1> HIDE DEF nw, na
<1>8. ToSet(W.queue) = ToSet(wi[w].queue) \ {i} /\ IsInjective(W.queue)
  BY <1>1, <1>4, <1>5 DEF Kept, Queueing
<1>9. ToSet(W.box) = ToSet(wi[w].box) \cup (IF kind[i].text THEN {i} ELSE {})
  <2>1. i \in Pieces
    BY <1>1 DEF Pieces
  <2>2. ToSet(Append(wi[w].box, i)) = ToSet(wi[w].box) \cup {i}
    BY <1>1, <2>1, ToSetAppended
  <2> QED
    BY <1>4, <1>5, <2>2
<1>10. \A j \in Ids : \A c : MeantFor(ap, j, c) => MeantFor(na, j, c)
  BY <1>2, <1>7 DEF MeantFor
<1>11. Claimed(he)
  BY DEF Kept
<1>12. Queueing(nw, na, he)
  <2>1. \A v \in Widgets : Due(nw, he, v) = IF v = w THEN Due(wi, he, w) \ {i} ELSE Due(wi, he, v)
    BY <1>1, <1>6, <1>8 DEF Kept, Queueing, Due
  <2>2. \A v \in Widgets : \A j \in Due(nw, he, v) : j # i /\ j \in Due(wi, he, v)
    BY <1>2, <2>1 DEF Kept, Queueing
  <2>3. \A v \in Widgets : Due(wi, he, v) \subseteq Ids
    BY DEF Due, ToSet, Boxes, Helpers
  <2>4. \A v \in Widgets : \A j \in Due(nw, he, v) : file[j] = "gone" /\ na[j] = <<>>
    BY <1>7, <2>2, <2>3 DEF Kept, Queueing
  <2>5. \A v \in Widgets : IsInjective(nw[v].queue) /\ ToSet(nw[v].queue) \subseteq ToSet(wi[v].queue)
    BY <1>6, <1>8 DEF Kept, Queueing
  <2>6. \A v \in Widgets : IsInjective(he[v].items) /\ ToSet(nw[v].queue) \cap ToSet(he[v].items) = {}
    BY <2>5 DEF Kept, Queueing
  <2>7. \A v \in Widgets : \A u \in Widgets \ {v} : Due(nw, he, u) \cap Due(nw, he, v) = {}
    BY <2>2 DEF Kept, Queueing
  <2> QED
    BY <2>4, <2>5, <2>6, <2>7 DEF Queueing
<1>13. Placed(nw, na, se)
  <2>1. ASSUME NEW j \in Ids PROVE Len(na[j]) <= 1 /\ (na[j] # <<>> => file[j] = "gone")
    <3>1. CASE j = i
      <4>1. Len(na[i]) <= 1
        BY <1>7
      <4>2. file[i] = "gone"
        BY <1>2
      <4> QED
        BY <3>1, <4>1, <4>2
    <3>2. CASE j # i
      BY <1>7, <3>2 DEF Kept, Placed
    <3> QED
      BY <3>1, <3>2
  <2>2. \A v \in Widgets : \A j \in ToSet(wi[v].box) \ {0} : j # i /\ j \in Ids /\ na[j] # <<>>
    <3>1. \A v \in Widgets : ToSet(wi[v].box) \subseteq Pieces
      BY DEF ToSet, Boxes
    <3>2. \A v \in Widgets : \A j \in ToSet(wi[v].box) \ {0} : ap[j] # <<>> /\ j \in Ids
      BY <3>1 DEF Kept, Placed, Pieces
    <3>3. \A v \in Widgets : \A j \in ToSet(wi[v].box) \ {0} : j # i
      BY <1>2, <3>2
    <3> QED
      BY <1>7, <3>2, <3>3
  <2>3. \A v \in Widgets : ToSet(nw[v].box) \subseteq ToSet(wi[v].box) \cup (IF v = w THEN {i} ELSE {})
    BY <1>6, <1>9
  <2>4. i # 0
    BY <1>1 DEF Ids
  <2>5. ASSUME NEW v \in Widgets, NEW j \in ToSet(nw[v].box) \ {0}
        PROVE  na[j] # <<>> /\ \A u \in Widgets \ {v} : j \notin ToSet(nw[u].box)
    <3>1. CASE j = i
      <4>1. v = w /\ \A u \in Widgets \ {w} : ToSet(nw[u].box) \subseteq ToSet(wi[u].box)
        BY <2>2, <2>3, <2>4, <3>1
      <4> QED
        BY <1>7, <2>2, <2>4, <3>1, <4>1
    <3>2. CASE j # i
      <4>1. j \in ToSet(wi[v].box) \ {0} /\ \A u \in Widgets : j \in ToSet(nw[u].box) => j \in ToSet(wi[u].box)
        BY <2>3, <3>2
      <4>2. \A u \in Widgets \ {v} : j \notin ToSet(wi[u].box)
        BY <4>1 DEF Kept, Placed
      <4> QED
        BY <2>2, <4>1, <4>2
    <3> QED
      BY <3>1, <3>2
  <2>6. \A m \in DOMAIN se : \A j \in ToSet(se[m].pieces) \ {0} : j # i /\ j \in Ids /\ na[j] # <<>>
    <3>1. \A m \in DOMAIN se : ToSet(se[m].pieces) \subseteq Pieces
      <4>1. \A m \in DOMAIN se : se[m] \in Posts
        OBVIOUS
      <4> QED
        BY <4>1 DEF ToSet, Posts
    <3> QED
      BY <1>2, <1>7, <3>1 DEF Kept, Placed, Pieces
  <2>7. \A m \in DOMAIN se : \A j \in ToSet(se[m].pieces) \ {0} :
           /\ na[j] # <<>> /\ \A v \in Widgets : j \notin ToSet(nw[v].box)
           /\ \A n \in DOMAIN se \ {m} : j \notin ToSet(se[n].pieces)
    BY <2>3, <2>6 DEF Kept, Placed
  <2> QED
    BY <2>1, <2>5, <2>7 DEF Placed
<1>14. Somewhere(nw, na, he, se)
  <2>1. \A j \in Ids : ap[j] # <<>> => na[j] # <<>>
    BY <1>2, <1>7
  <2>2. \A j \in Ids \ {i} : \A v \in Widgets : j \in Due(wi, he, v) => j \in Due(nw, he, v)
    BY <1>6, <1>8 DEF Due
  <2>3. \A j : Boxed(wi, se, j) => Boxed(nw, se, j)
    BY <1>6, <1>9 DEF Boxed
  <2>4. kind[i].text => Boxed(nw, se, i)
    BY <1>6, <1>9 DEF Boxed
  <2> SUFFICES ASSUME NEW j \in Ids \ lost
               PROVE  /\ file[j] = "taking" => \E h \in Widgets : he[h].cur = j
                      /\ file[j] = "gone" => na[j] # <<>> \/ \E v \in Widgets : j \in Due(nw, he, v)
                      /\ na[j] # <<>> /\ kind[j].text => Boxed(nw, se, j)
    BY DEF Somewhere
  <2>5. CASE j = i
    BY <1>2, <1>7, <2>4, <2>5
  <2>6. CASE j # i
    BY <1>7, <2>1, <2>2, <2>3, <2>6 DEF Kept, Somewhere
  <2> QED
    BY <2>5, <2>6
<1>15. Sending(nw, na, se)
  <2> SUFFICES ASSUME NEW v \in Widgets, nw[v].busy
               PROVE  \E j \in Ids : /\ MeantFor(na, j, nw[v].target)
                                     /\ \/ nw[v].box # <<>> /\ nw[v].box[1] = j
                                        \/ UserSent(se, Len(se), j) /\ (nw[v].box # <<>> => nw[v].box[1] = 0)
    BY DEF Sending
  <2>1. CASE v # w
    BY <1>6, <1>10, <2>1 DEF Kept, Sending
  <2>2. CASE v = w
    <3>1. SendsAtOnce(V, kind[i]) /\ W.target = W.chat
      BY <1>4, <1>5, <1>6, <2>2
    <3>2. MeantFor(na, i, W.target)
      BY <1>1, <1>7, <3>1 DEF MeantFor, Asked, SendsAtOnce
    <3>3. W.box = Append(<<>>, i)
      BY <1>4, <1>5, <3>1 DEF SendsAtOnce
    <3>4. W.box # <<>> /\ W.box[1] = i
      <4>1. <<>> \in Seq(Pieces) /\ i \in Pieces
        BY <1>1 DEF Pieces
      <4>2. Append(<<>>, i) # <<>> /\ Append(<<>>, i)[1] = i
        BY <4>1, ToSetAppended
      <4> QED
        BY <3>3, <4>2
    <3> QED
      BY <1>1, <1>6, <2>2, <3>2, <3>4
  <2> QED
    BY <2>1, <2>2
<1>16. AsAsked(na, se)
  BY <1>10 DEF Kept, AsAsked
<1> QED
  BY <1>5, <1>7, <1>11, <1>12, <1>13, <1>14, <1>15, <1>16 DEF Kept, nw, na

-----------------------------------------------------------------------------
(* The rest of the queue, and what else a step may leave as it is.         *)

\* What the handler puts into boxes keeps what is kept before it.
LEMMA GoesKeeps ==
    ASSUME kind \in Seq(Kinds), file \in [Ids -> Stages], Numbered,
           wid \in [Widgets -> Boxes], applied \in Applieds,
           NEW he \in [Widgets -> Helpers], NEW se \in Seq(Posts),
           NEW w \in Widgets, NEW W \in Boxes,
           Kept([wid EXCEPT ![w] = W], applied, he, se),
           Goes(w, W)
    PROVE  wid' \in [Widgets -> Boxes] /\ applied' \in Applieds /\ Kept(wid', applied', he, se)
<1> DEFINE P(S) == Kept([wid EXCEPT ![w] = S.widget], S.applied, he, se)
           T == {S \in [widget : Boxes, applied : Applieds] : P(S)}
<1>1. [widget |-> W, applied |-> applied] \in T
  OBVIOUS
<1>2. ASSUME NEW S \in T PROVE Onward(S) \in T
  <2>1. CASE S.widget.busy \/ S.widget.queue = <<>>
    BY <2>1 DEF Onward
  <2>2. CASE ~ (S.widget.busy \/ S.widget.queue = <<>>)
    <3> DEFINE wi == [wid EXCEPT ![w] = S.widget]
               i == Head(S.widget.queue)
               X == apply([S.widget EXCEPT !.queue = Tail(@)], i)
               na == [S.applied EXCEPT ![i] = Append(@, X.chat)]
    <3>1. wi \in [Widgets -> Boxes] /\ wi[w] = S.widget /\ S.applied \in Applieds
      OBVIOUS
    <3>2. Kept(wi, S.applied, he, se)
      OBVIOUS
    <3>3. i = Head(wi[w].queue) /\ X = apply([wi[w] EXCEPT !.queue = Tail(@)], i)
      BY <3>1
    <3>4. Onward(S) = [widget |-> X, applied |-> na]
      BY <2>2 DEF Onward
    <3>5. [wi EXCEPT ![w] = X] = [wid EXCEPT ![w] = X]
      OBVIOUS
    <3> HIDE DEF wi, i, X
    <3>6. X \in Boxes /\ na \in Applieds /\ Kept([wi EXCEPT ![w] = X], na, he, se)
      BY <2>2, <3>1, <3>2, <3>3, OnwardKeeps
    <3>7. Kept([wid EXCEPT ![w] = X], na, he, se)
      BY <3>5, <3>6
    <3> HIDE DEF na
    <3> DEFINE R == [widget |-> X, applied |-> na]
    <3>8. R.widget = X /\ R.applied = na /\ R \in [widget : Boxes, applied : Applieds]
      BY <3>6
    <3>9. Onward(S) = R
      BY <3>4
    <3> HIDE DEF R
    <3>10. P(R)
      BY <3>7, <3>8
    <3> QED
      BY <3>8, <3>9, <3>10
  <2> QED
    BY <2>1, <2>2
<1>3. Len(W.queue) \in Nat
  BY DEF Boxes
<1> HIDE DEF T
<1>4. Handled(W) \in T
  BY <1>1, <1>2, <1>3, HandledIn
<1>5. wid' = [wid EXCEPT ![w] = Handled(W).widget] /\ applied' = Handled(W).applied
  BY DEF Goes
<1> QED
  BY <1>4, <1>5 DEF T

\* What is not of queues, boxes and the timer, may change.
LEMMA SameWidgets ==
    ASSUME NEW wi, NEW vi, NEW ap, NEW he, NEW se, Kept(wi, ap, he, se),
           \A w \in Widgets : /\ vi[w].queue = wi[w].queue /\ vi[w].box = wi[w].box
                              /\ vi[w].target = wi[w].target /\ (vi[w].busy => wi[w].busy)
    PROVE  Kept(vi, ap, he, se)
<1>1. Claimed(he) /\ AsAsked(ap, se)
  BY DEF Kept
<1>2. Queueing(vi, ap, he)
  <2>1. \A w \in Widgets : Due(vi, he, w) = Due(wi, he, w)
    BY DEF Due
  <2> QED
    BY <2>1 DEF Kept, Queueing
<1>3. Placed(vi, ap, se)
  BY DEF Kept, Placed
<1>4. Somewhere(vi, ap, he, se)
  <2>1. \A w \in Widgets : Due(vi, he, w) = Due(wi, he, w)
    BY DEF Due
  <2>2. \A i : Boxed(vi, se, i) = Boxed(wi, se, i)
    BY DEF Boxed
  <2> QED
    BY <2>1, <2>2 DEF Kept, Somewhere
<1>5. Sending(vi, ap, se)
  BY DEF Kept, Sending
<1> QED
  BY <1>1, <1>2, <1>3, <1>4, <1>5 DEF Kept

\* Only what is gone from the folder matters to queues, boxes and messages.
LEMMA GoneStays ==
    ASSUME TypeOK', \A j \in Ids : file[j] = "gone" => file'[j] = "gone" /\ kind'[j] = kind[j],
           Queueing(wid', applied', helper'), Placed(wid', applied', sent'),
           Sending(wid', applied', sent'), AsAsked(applied', sent')
    PROVE  /\ Queueing(wid, applied, helper)' /\ Placed(wid, applied, sent)'
           /\ Sending(wid, applied, sent)' /\ AsAsked(applied, sent)'
<1>1. \A w \in Widgets : Due(wid', helper', w) \subseteq Ids
  BY DEF TypeOK, Due, ToSet, Boxes, Helpers
<1>2. Queueing(wid, applied, helper)'
  BY <1>1 DEF Queueing, Due
<1>3. Placed(wid, applied, sent)'
  BY DEF Placed
<1>4. \A i, c : MeantFor(applied', i, c) => (i \in Ids /\ kind'[i].send /\ kind'[i].file = "no" /\ applied'[i] # <<>> /\ applied'[i][1] = c)
  BY DEF MeantFor, Asked, Placed
<1>5. Sending(wid, applied, sent)'
  BY <1>4 DEF Sending, MeantFor, Asked, UserSent
<1>6. AsAsked(applied, sent)'
  BY <1>4 DEF AsAsked, MeantFor, Asked, UserSent
<1> QED
  BY <1>2, <1>3, <1>5, <1>6

\* Requests that are written, get old or are lost leave what is kept.
LEMMA FilesMove ==
    ASSUME TypeOK', Kept(wid', applied', helper', sent'), lost \subseteq lost',
           \A j \in Ids : file[j] \in {"taking", "stale", "gone"} => file'[j] = file[j] /\ kind'[j] = kind[j],
           \A j \in Ids : file'[j] \in {"taking", "gone"} => file'[j] = file[j]
    PROVE  Kept(wid, applied, helper, sent)'
<1>1. Claimed(helper')
  BY DEF Kept
<1>2. Claimed(helper)'
  BY <1>1 DEF Claimed
<1>3. /\ Queueing(wid, applied, helper)' /\ Placed(wid, applied, sent)'
      /\ Sending(wid, applied, sent)' /\ AsAsked(applied, sent)'
  BY GoneStays DEF Kept
<1>4. Placed(wid', applied', sent') /\ Somewhere(wid', applied', helper', sent')
  BY DEF Kept
<1>5. Somewhere(wid, applied, helper, sent)'
  <2> SUFFICES ASSUME NEW j \in Ids, j \notin lost'
               PROVE  /\ file'[j] = "taking" => \E h \in Widgets : helper'[h].cur = j
                      /\ file'[j] = "gone" => applied'[j] # <<>> \/ \E w \in Widgets : j \in Due(wid', helper', w)
                      /\ applied'[j] # <<>> /\ kind'[j].text => Boxed(wid', sent', j)
    BY DEF Somewhere, Due, Boxed
  <2>1. applied'[j] # <<>> => file[j] = "gone"
    BY <1>4 DEF Placed
  <2> QED
    BY <1>4, <2>1 DEF Somewhere
<1> QED
  BY <1>2, <1>3, <1>5 DEF Kept

\* A message is made of what is in a box.
LEMMA SendKeeps ==
    ASSUME NEW wi \in [Widgets -> Boxes], NEW ap, NEW he, NEW se \in Seq(Posts), Kept(wi, ap, he, se),
           NEW w \in Widgets, NEW W, NEW s \in Posts,
           W.queue = wi[w].queue, W.box = <<>>, W.target = wi[w].target, s.pieces = wi[w].box,
           W.busy => wi[w].busy /\ s.by = "user",
           s.by = "timer" => wi[w].busy /\ s.chat = wi[w].target
    PROVE  Kept([wi EXCEPT ![w] = W], ap, he, Append(se, s))
<1> DEFINE nw == [wi EXCEPT ![w] = W]
           ns == Append(se, s)
<1>1. nw[w] = W /\ \A v \in Widgets \ {w} : nw[v] = wi[v]
  OBVIOUS
<1>2. /\ Len(se) \in Nat /\ DOMAIN se = 1 .. Len(se) /\ DOMAIN ns = 1 .. Len(se) + 1 /\ Len(ns) = Len(se) + 1
      /\ ns[Len(se) + 1] = s /\ \A m \in 1 .. Len(se) : ns[m] = se[m]
  BY AppendProperties
<1> HIDE DEF nw, ns
<1>3. Claimed(he)
  BY DEF Kept
<1>4. \A v \in Widgets : nw[v].queue = wi[v].queue /\ Due(nw, he, v) = Due(wi, he, v)
  BY <1>1 DEF Due
<1>5. Queueing(nw, ap, he)
  BY <1>4 DEF Kept, Queueing
<1>6. \A v \in Widgets : ToSet(nw[v].box) = IF v = w THEN {} ELSE ToSet(wi[v].box)
  BY <1>1, EmptyToSet
<1>7. Placed(nw, ap, ns)
  <2>1. \A i \in Ids : Len(ap[i]) <= 1 /\ (ap[i] # <<>> => file[i] = "gone")
    BY DEF Kept, Placed
  <2>2. \A v \in Widgets : \A i \in ToSet(nw[v].box) \ {0} :
           ap[i] # <<>> /\ \A u \in Widgets \ {v} : i \notin ToSet(nw[u].box)
    BY <1>6 DEF Kept, Placed
  <2>3. ASSUME NEW m \in 1 .. Len(se), NEW i \in ToSet(se[m].pieces) \ {0}
        PROVE  /\ ap[i] # <<>> /\ \A v \in Widgets : i \notin ToSet(nw[v].box)
               /\ i \notin ToSet(s.pieces) /\ \A n \in 1 .. Len(se) \ {m} : i \notin ToSet(se[n].pieces)
    BY <1>2, <1>6 DEF Kept, Placed
  <2>4. ASSUME NEW i \in ToSet(s.pieces) \ {0}
        PROVE  /\ ap[i] # <<>> /\ \A v \in Widgets : i \notin ToSet(nw[v].box)
               /\ \A n \in 1 .. Len(se) : i \notin ToSet(se[n].pieces)
    BY <1>2, <1>6 DEF Kept, Placed
  <2>5. ASSUME NEW m \in 1 .. Len(se) + 1, NEW i \in ToSet(ns[m].pieces) \ {0}
        PROVE  /\ ap[i] # <<>> /\ \A v \in Widgets : i \notin ToSet(nw[v].box)
               /\ \A n \in (1 .. Len(se) + 1) \ {m} : i \notin ToSet(ns[n].pieces)
    <3>1. CASE m = Len(se) + 1
      BY <1>2, <2>4, <3>1
    <3>2. CASE m # Len(se) + 1
      <4>1. m \in 1 .. Len(se) /\ ns[m] = se[m]
        BY <1>2, <3>2
      <4>2. /\ ap[i] # <<>> /\ \A v \in Widgets : i \notin ToSet(nw[v].box)
            /\ i \notin ToSet(s.pieces) /\ \A n \in 1 .. Len(se) \ {m} : i \notin ToSet(se[n].pieces)
        BY <2>3, <4>1
      <4>3. \A n \in (1 .. Len(se) + 1) \ {m} : ns[n] = s \/ (n \in 1 .. Len(se) \ {m} /\ ns[n] = se[n])
        BY <1>2
      <4> QED
        BY <4>2, <4>3
    <3> QED
      BY <3>1, <3>2
  <2> QED
    BY <1>2, <2>1, <2>2, <2>5 DEF Placed
<1>8. Somewhere(nw, ap, he, ns)
  <2>1. ASSUME NEW i, Boxed(wi, se, i) PROVE Boxed(nw, ns, i)
    <3>1. CASE \E m \in DOMAIN se : i \in ToSet(se[m].pieces)
      <4>1. PICK m \in 1 .. Len(se) : i \in ToSet(se[m].pieces)
        BY <1>2, <3>1
      <4>2. m \in DOMAIN ns /\ ns[m] = se[m]
        BY <1>2
      <4> QED
        BY <4>1, <4>2 DEF Boxed
    <3>2. CASE i \in ToSet(wi[w].box)
      <4>1. Len(se) + 1 \in DOMAIN ns /\ ns[Len(se) + 1] = s
        BY <1>2
      <4> QED
        BY <3>2, <4>1 DEF Boxed
    <3>3. CASE \E v \in Widgets \ {w} : i \in ToSet(wi[v].box)
      BY <1>1, <3>3 DEF Boxed
    <3> QED
      BY <2>1, <3>1, <3>2, <3>3 DEF Boxed
  <2> QED
    BY <1>4, <2>1 DEF Kept, Somewhere
<1>9. \A i : UserSent(se, Len(se), i) => UserSent(ns, Len(ns), i)
  BY <1>2 DEF UserSent
<1>10. Sending(nw, ap, ns)
  <2> SUFFICES ASSUME NEW v \in Widgets, nw[v].busy
               PROVE  \E i \in Ids : /\ MeantFor(ap, i, nw[v].target)
                                     /\ \/ nw[v].box # <<>> /\ nw[v].box[1] = i
                                        \/ UserSent(ns, Len(ns), i) /\ (nw[v].box # <<>> => nw[v].box[1] = 0)
    BY DEF Sending
  <2>1. CASE v # w
    BY <1>1, <1>9, <2>1 DEF Kept, Sending
  <2>2. CASE v = w
    <3>1. W.busy /\ wi[w].busy /\ s.by = "user" /\ nw[v] = W
      BY <1>1, <2>2
    <3>2. PICK i \in Ids : /\ MeantFor(ap, i, wi[w].target)
                           /\ \/ wi[w].box # <<>> /\ wi[w].box[1] = i
                              \/ UserSent(se, Len(se), i)
      BY <3>1 DEF Kept, Sending
    <3>3. UserSent(ns, Len(ns), i)
      <4>1. CASE wi[w].box # <<>> /\ wi[w].box[1] = i
        <5>1. Len(ns) \in 1 .. Len(ns) /\ ns[Len(ns)] = s
          BY <1>2
        <5> QED
          BY <3>1, <4>1, <5>1 DEF UserSent
      <4>2. CASE UserSent(se, Len(se), i)
        BY <1>9, <4>2
      <4> QED
        BY <3>2, <4>1, <4>2
    <3> QED
      BY <3>1, <3>2, <3>3
  <2> QED
    BY <2>1, <2>2
<1>11. AsAsked(ap, ns)
  <2> SUFFICES ASSUME NEW m \in 1 .. Len(se) + 1, ns[m].by = "timer", ns[m].pieces # <<>>
               PROVE  \E i \in Ids : /\ MeantFor(ap, i, ns[m].chat)
                                     /\ \/ ns[m].pieces[1] = i
                                        \/ ns[m].pieces[1] = 0 /\ UserSent(ns, m - 1, i)
    BY <1>2 DEF AsAsked
  <2>1. CASE m = Len(se) + 1
    <3>1. ns[m] = s /\ wi[w].busy /\ s.chat = wi[w].target /\ wi[w].box # <<>>
      BY <1>2, <2>1
    <3>2. PICK i \in Ids : /\ MeantFor(ap, i, wi[w].target)
                           /\ \/ wi[w].box[1] = i
                              \/ UserSent(se, Len(se), i) /\ wi[w].box[1] = 0
      BY <3>1 DEF Kept, Sending
    <3>3. m - 1 = Len(se) /\ (UserSent(se, Len(se), i) => UserSent(ns, m - 1, i))
      BY <1>2, <2>1 DEF UserSent
    <3> QED
      BY <3>1, <3>2, <3>3
  <2>2. CASE m # Len(se) + 1
    <3>1. m \in 1 .. Len(se) /\ ns[m] = se[m]
      BY <1>2, <2>2
    <3>2. PICK i \in Ids : /\ MeantFor(ap, i, se[m].chat)
                           /\ \/ se[m].pieces[1] = i
                              \/ se[m].pieces[1] = 0 /\ UserSent(se, m - 1, i)
      BY <1>2, <3>1 DEF Kept, AsAsked
    <3>3. UserSent(se, m - 1, i) => UserSent(ns, m - 1, i)
      <4>1. \A j \in 1 .. m - 1 : j \in 1 .. Len(se) /\ ns[j] = se[j]
        BY <1>2, <3>1
      <4> QED
        BY <4>1 DEF UserSent
    <3> QED
      BY <3>1, <3>2, <3>3
  <2> QED
    BY <2>1, <2>2
<1> QED
  BY <1>3, <1>5, <1>7, <1>8, <1>10, <1>11 DEF Kept, nw, ns

-----------------------------------------------------------------------------
(* Steps of writers, of the watcher, and of attachments.                   *)

LEMMA SameEnd == ASSUME NEW a \in Nat, NEW b \in Nat, 1 .. a = 1 .. b PROVE a = b
<1>1. a < b => b \in 1 .. b /\ b \notin 1 .. a
  OBVIOUS
<1>2. b < a => a \in 1 .. a /\ a \notin 1 .. b
  OBVIOUS
<1> QED
  BY <1>1, <1>2

\* Steps that leave queues, boxes, the timer and what helpers have taken.
LEMMA Mild ==
    ASSUME IInv, UNCHANGED <<applied, sent>>,
           \A w \in Widgets : /\ wid'[w].queue = wid[w].queue /\ wid'[w].box = wid[w].box
                              /\ wid'[w].target = wid[w].target /\ (wid'[w].busy => wid[w].busy),
           \A h \in Widgets : /\ helper'[h].cur = helper[h].cur /\ helper'[h].items = helper[h].items
                              /\ (helper'[h].pc = "read" <=> helper[h].pc = "read")
                              /\ (helper'[h].pc = "off" => helper[h].pc = "off")
    PROVE  Kept(wid', applied', helper', sent')
<1>1. Kept(wid, applied, helper, sent)
  BY DEF IInv
<1>2. \A w \in Widgets : Due(wid, helper', w) = Due(wid, helper, w)
  BY DEF Due
<1>3. Claimed(helper')
  BY <1>1 DEF Kept, Claimed
<1>4. Queueing(wid, applied, helper')
  BY <1>1, <1>2 DEF Kept, Queueing
<1>5. Somewhere(wid, applied, helper', sent)
  BY <1>1, <1>2 DEF Kept, Somewhere
<1>6. Kept(wid, applied, helper', sent)
  BY <1>1, <1>3, <1>4, <1>5 DEF Kept
<1>7. Kept(wid', applied, helper', sent)
  BY <1>6, SameWidgets
<1> QED
  BY <1>7

LEMMA WriteKeeps == ASSUME IInv, write_item PROVE IInv'
<1>1. PICK k \in Kinds, i \in Ids :
          /\ Written = 1 .. i - 1 /\ kind' = Append(kind, k) /\ file' = [file EXCEPT ![i] = "waiting"]
          /\ UNCHANGED <<helper, wid, applied, sent, lost, left>>
  BY DEF write_item
<1>2. TypeOK /\ kind \in Seq(Kinds) /\ file \in [Ids -> Stages] /\ Written = DOMAIN kind /\ Kept(wid, applied, helper, sent)
  BY DEF IInv, TypeOK, Numbered
<1>3. /\ kind' \in Seq(Kinds) /\ Len(kind') = Len(kind) + 1 /\ Len(kind) \in Nat
      /\ DOMAIN kind = 1 .. Len(kind) /\ DOMAIN kind' = 1 .. Len(kind) + 1
      /\ \A j \in 1 .. Len(kind) : kind'[j] = kind[j]
  BY <1>1, <1>2, AppendProperties
<1>4. i \in Nat /\ i = Len(kind) + 1
  <2>1. i \in Nat /\ i - 1 \in Nat
    BY AskAssumption DEF Ids
  <2>2. i - 1 = Len(kind)
    BY <1>1, <1>2, <1>3, <2>1, SameEnd
  <2> QED
    BY <1>3, <2>1, <2>2
<1>5. file' \in [Ids -> Stages] /\ file'[i] = "waiting" /\ file[i] = "none" /\ \A j \in Ids \ {i} : file'[j] = file[j]
  <2>1. i \notin Written
    BY <1>1, <1>4
  <2> QED
    BY <1>1, <1>2, <2>1 DEF Written, Stages
<1>6. TypeOK'
  BY <1>1, <1>2, <1>3, <1>5 DEF TypeOK
<1>7. Numbered'
  <2>1. Written' = Written \cup {i}
    BY <1>5 DEF Written
  <2>2. Written \cup {i} = DOMAIN kind'
    BY <1>2, <1>3, <1>4
  <2>3. \A j \in Ids : file'[j] \in {"old", "stale"} => j \in lost'
    BY <1>1, <1>5 DEF IInv, Numbered
  <2> QED
    BY <2>1, <2>2, <2>3 DEF Numbered
<1>8. \A j \in Ids : file[j] \in {"taking", "stale", "gone"} => file'[j] = file[j] /\ kind'[j] = kind[j]
  <2>1. \A j \in Ids : file[j] \in {"taking", "stale", "gone"} => j \in Written
    BY DEF Written
  <2> QED
    BY <1>2, <1>3, <1>5, <2>1
<1>9. Kept(wid', applied', helper', sent')
  BY <1>1, <1>2
<1>10. Kept(wid, applied, helper, sent)'
  BY <1>1, <1>5, <1>6, <1>8, <1>9, FilesMove
<1> QED
  BY <1>6, <1>7, <1>10 DEF IInv

LEMMA AgesKeeps == ASSUME IInv, NEW i \in Ids, Ages(i) PROVE IInv'
<1>1. /\ file[i] = "waiting" /\ file' = [file EXCEPT ![i] = "old"] /\ lost' = lost \cup {i}
      /\ UNCHANGED <<kind, helper, wid, applied, sent>>
      /\ left["faults"] > 0 /\ left' = [left EXCEPT !["faults"] = @ - 1]
  BY DEF Ages, Spend
<1>2. TypeOK /\ file \in [Ids -> Stages] /\ Kept(wid, applied, helper, sent)
  BY DEF IInv, TypeOK
<1>3. file' \in [Ids -> Stages] /\ file'[i] = "old" /\ \A j \in Ids \ {i} : file'[j] = file[j]
  BY <1>1, <1>2 DEF Stages
<1>4. TypeOK'
  <2>1. left' \in [{"faults", "steps"} -> Nat]
    BY <1>1, <1>2 DEF TypeOK
  <2>2. lost' \subseteq Pieces
    BY <1>1, <1>2 DEF TypeOK, Pieces
  <2> QED
    BY <1>1, <1>2, <1>3, <2>1, <2>2 DEF TypeOK
<1>5. Numbered'
  BY <1>1, <1>3 DEF IInv, Numbered, Written
<1>6. Kept(wid', applied', helper', sent')
  BY <1>1, <1>2
<1>7. Kept(wid, applied, helper, sent)'
  BY <1>1, <1>3, <1>4, <1>6, FilesMove
<1> QED
  BY <1>4, <1>5, <1>7 DEF IInv

\* Mild steps that leave the folder as it is.
LEMMA MildKeeps ==
    ASSUME IInv, UNCHANGED <<kind, file, applied, sent>>,
           wid' \in [Widgets -> Boxes], helper' \in [Widgets -> Helpers], lost \subseteq lost', lost' \subseteq Pieces,
           left' \in [{"faults", "steps"} -> Nat],
           \A w \in Widgets : /\ wid'[w].queue = wid[w].queue /\ wid'[w].box = wid[w].box
                              /\ wid'[w].target = wid[w].target /\ (wid'[w].busy => wid[w].busy),
           \A h \in Widgets : /\ helper'[h].cur = helper[h].cur /\ helper'[h].items = helper[h].items
                              /\ (helper'[h].pc = "read" <=> helper[h].pc = "read")
                              /\ (helper'[h].pc = "off" => helper[h].pc = "off")
    PROVE  IInv'
<1>1. TypeOK'
  BY DEF IInv, TypeOK
<1>2. Numbered'
  BY DEF IInv, Numbered, Written
<1>3. Kept(wid', applied', helper', sent')
  BY Mild
<1>4. Kept(wid, applied, helper, sent)'
  BY <1>1, <1>3, FilesMove
<1> QED
  BY <1>1, <1>2, <1>4 DEF IInv

\* One widget's record becomes W.
LEMMA OneWidget ==
    ASSUME IInv, NEW w \in Widgets, NEW W \in Boxes, wid' = [wid EXCEPT ![w] = W], UNCHANGED <<kind, file, helper, applied, sent>>,
           W.queue = wid[w].queue, W.box = wid[w].box, W.target = wid[w].target, W.busy => wid[w].busy,
           lost \subseteq lost', lost' \subseteq Pieces, left' \in [{"faults", "steps"} -> Nat]
    PROVE  IInv'
<1>1. wid \in [Widgets -> Boxes] /\ helper \in [Widgets -> Helpers]
  BY DEF IInv, TypeOK
<1>2. wid' \in [Widgets -> Boxes] /\ wid'[w] = W /\ \A v \in Widgets \ {w} : wid'[v] = wid[v]
  BY <1>1
<1>3. \A v \in Widgets : /\ wid'[v].queue = wid[v].queue /\ wid'[v].box = wid[v].box
                         /\ wid'[v].target = wid[v].target /\ (wid'[v].busy => wid[v].busy)
  BY <1>2
<1> QED
  BY <1>1, <1>2, <1>3, MildKeeps

LEMMA WatchKeeps == ASSUME IInv, NEW w \in Widgets, Watch(w) PROVE IInv'
<1> DEFINE W == IF Waiting # {} THEN Asks(wid[w]) ELSE wid[w]
<1>1. /\ wid' = [wid EXCEPT ![w] = W]
      /\ UNCHANGED <<kind, file, helper, applied, sent, lost, left>>
  BY DEF Watch
<1>2. TypeOK /\ wid \in [Widgets -> Boxes] /\ wid[w] \in Boxes
  BY DEF IInv, TypeOK
<1>3. W \in Boxes /\ W.queue = wid[w].queue /\ W.box = wid[w].box /\ W.target = wid[w].target /\ W.busy = wid[w].busy
  BY <1>2 DEF Asks, Boxes
<1> HIDE DEF W
<1>4. lost \subseteq lost' /\ lost' \subseteq Pieces
  BY <1>1, <1>2 DEF TypeOK
<1>5. left' \in [{"faults", "steps"} -> Nat]
  BY <1>1, <1>2 DEF TypeOK
<1> QED
  BY <1>1, <1>3, <1>4, <1>5, OneWidget

LEMMA LoadedKeeps == ASSUME IInv, NEW w \in Widgets, NEW i \in Ids, Loaded(w, i) PROVE IInv'
<1>1. TypeOK /\ wid \in [Widgets -> Boxes] /\ wid[w] \in Boxes /\ lost \subseteq Pieces /\ left \in [{"faults", "steps"} -> Nat]
  BY DEF IInv, TypeOK
<1>2. PICK W \in {[wid[w] EXCEPT !.loading = @ \ {i}, !.ready = @ \cup {i}],
                  [wid[w] EXCEPT !.loading = @ \ {i}, !.failed = @ \cup {i}]} : wid' = [wid EXCEPT ![w] = W]
  BY <1>1 DEF Loaded
<1>3. W \in Boxes /\ W.queue = wid[w].queue /\ W.box = wid[w].box /\ W.target = wid[w].target /\ W.busy = wid[w].busy
  <2>1. CASE W = [wid[w] EXCEPT !.loading = @ \ {i}, !.ready = @ \cup {i}]
    BY <1>1, <2>1 DEF Boxes
  <2>2. CASE W = [wid[w] EXCEPT !.loading = @ \ {i}, !.failed = @ \cup {i}]
    BY <1>1, <2>2 DEF Boxes
  <2> QED
    BY <1>2, <2>1, <2>2
<1>4. UNCHANGED <<kind, file, helper, applied, sent, lost, left>>
  BY DEF Loaded
<1> QED
  BY <1>1, <1>2, <1>3, <1>4, OneWidget

-----------------------------------------------------------------------------
(* Steps of a helper.                                                      *)

LEMMA ListsKeeps == ASSUME IInv, NEW h \in Widgets, Lists(h) PROVE IInv'
<1> DEFINE H == [pc |-> "claim", todo |-> Waiting, cur |-> 0, items |-> <<>>]
           W == [wid[h] EXCEPT !.takes = FALSE]
<1>1. /\ helper[h].pc = "off" /\ wid' = [wid EXCEPT ![h] = W] /\ helper' = [helper EXCEPT ![h] = H]
      /\ UNCHANGED <<kind, file, applied, sent, lost, left>>
  BY DEF Lists
<1>2. /\ wid \in [Widgets -> Boxes] /\ wid[h] \in Boxes /\ helper \in [Widgets -> Helpers]
      /\ lost \subseteq Pieces /\ left \in [{"faults", "steps"} -> Nat]
  BY DEF IInv, TypeOK
<1>3. helper[h].items = <<>> /\ helper[h].cur = 0
  BY <1>1 DEF IInv, Kept, Claimed
<1>4. H \in Helpers /\ H.pc = "claim" /\ H.cur = 0 /\ H.items = <<>>
  BY DEF Helpers, Pieces, Waiting
<1>5. W \in Boxes /\ W.queue = wid[h].queue /\ W.box = wid[h].box /\ W.target = wid[h].target /\ W.busy = wid[h].busy
  BY <1>2 DEF Boxes
<1> HIDE DEF H, W
<1>6. /\ helper' \in [Widgets -> Helpers]
      /\ \A g \in Widgets : /\ helper'[g].cur = helper[g].cur /\ helper'[g].items = helper[g].items
                            /\ (helper'[g].pc = "read" <=> helper[g].pc = "read")
                            /\ (helper'[g].pc = "off" => helper[g].pc = "off")
  BY <1>1, <1>2, <1>3, <1>4
<1>7. /\ wid' \in [Widgets -> Boxes]
      /\ \A v \in Widgets : /\ wid'[v].queue = wid[v].queue /\ wid'[v].box = wid[v].box
                            /\ wid'[v].target = wid[v].target /\ (wid'[v].busy => wid[v].busy)
  BY <1>1, <1>2, <1>5
<1> QED
  BY <1>1, <1>2, <1>6, <1>7, MildKeeps

LEMMA ClaimKeeps == ASSUME IInv, NEW h \in Widgets, Claim(h) PROVE IInv'
<1>1. PICK i \in helper[h].todo :
          /\ helper[h].pc = "claim"
          /\ \/ /\ Claims(i)
                /\ helper' = [helper EXCEPT ![h].todo = @ \ {i}, ![h].cur = i, ![h].pc = "read"]
                /\ file' = [file EXCEPT ![i] = IF @ = "old" THEN "stale" ELSE "taking"]
             \/ helper' = [helper EXCEPT ![h].todo = @ \ {i}] /\ UNCHANGED file
          /\ UNCHANGED <<kind, wid, applied, sent, lost, left>>
  BY DEF Claim
<1>2. /\ TypeOK /\ Kept(wid, applied, helper, sent)
      /\ wid \in [Widgets -> Boxes] /\ helper \in [Widgets -> Helpers] /\ helper[h] \in Helpers /\ file \in [Ids -> Stages]
      /\ lost \subseteq Pieces /\ left \in [{"faults", "steps"} -> Nat]
  BY DEF IInv, TypeOK
<1>3. CASE helper' = [helper EXCEPT ![h].todo = @ \ {i}] /\ UNCHANGED file
  <2> DEFINE H == [helper[h] EXCEPT !.todo = @ \ {i}]
  <2>1. H \in Helpers /\ H.pc = helper[h].pc /\ H.cur = helper[h].cur /\ H.items = helper[h].items
    BY <1>2 DEF Helpers
  <2>2. helper' = [helper EXCEPT ![h] = H]
    BY <1>3
  <2> HIDE DEF H
  <2>3. /\ helper' \in [Widgets -> Helpers]
        /\ \A g \in Widgets : /\ helper'[g].cur = helper[g].cur /\ helper'[g].items = helper[g].items
                              /\ (helper'[g].pc = "read" <=> helper[g].pc = "read")
                              /\ (helper'[g].pc = "off" => helper[g].pc = "off")
    BY <1>2, <2>1, <2>2
  <2> QED
    BY <1>1, <1>2, <1>3, <2>3, MildKeeps
<1>4. CASE /\ Claims(i)
           /\ helper' = [helper EXCEPT ![h].todo = @ \ {i}, ![h].cur = i, ![h].pc = "read"]
           /\ file' = [file EXCEPT ![i] = IF @ = "old" THEN "stale" ELSE "taking"]
  <2> DEFINE H == [helper[h] EXCEPT !.todo = @ \ {i}, !.cur = i, !.pc = "read"]
  <2>1. i \in Ids /\ i # 0 /\ file[i] \in {"waiting", "old"}
    BY <1>4 DEF Claims, Waiting, Ids
  <2>2. H \in Helpers /\ H.pc = "read" /\ H.cur = i /\ H.items = helper[h].items
    BY <1>2, <2>1 DEF Helpers, Pieces
  <2>3. helper' = [helper EXCEPT ![h] = H]
    BY <1>4
  <2> HIDE DEF H
  <2>4. helper' \in [Widgets -> Helpers] /\ helper'[h] = H /\ \A g \in Widgets \ {h} : helper'[g] = helper[g]
    BY <1>2, <2>2, <2>3
  <2>5. /\ file' \in [Ids -> Stages] /\ file'[i] = (IF file[i] = "old" THEN "stale" ELSE "taking")
        /\ \A j \in Ids \ {i} : file'[j] = file[j]
    BY <1>2, <1>4, <2>1 DEF Stages
  <2>6. TypeOK'
    BY <1>1, <1>2, <2>4, <2>5 DEF TypeOK
  <2>7. Numbered'
    <3>1. Written' = Written
      BY <2>1, <2>5 DEF Written
    <3>2. \A j \in Ids : file'[j] \in {"old", "stale"} => file[j] \in {"old", "stale"}
      BY <2>1, <2>5
    <3> QED
      BY <1>1, <3>1, <3>2 DEF IInv, Numbered
  <2>8. helper[h].cur = 0 /\ \A g \in Widgets : helper[g].cur # i
    BY <1>1, <1>2, <2>1 DEF Kept, Claimed
  <2>9. Claimed(helper)'
    <3> SUFFICES ASSUME NEW g \in Widgets
                 PROVE  /\ helper'[g].pc = "off" => helper'[g].items = <<>>
                        /\ helper'[g].pc # "read" => helper'[g].cur = 0
                        /\ helper'[g].pc = "read" => helper'[g].cur \in Ids /\ file'[helper'[g].cur] \in {"taking", "stale"}
                        /\ \A f \in Widgets \ {g} : helper'[f].cur = helper'[g].cur => helper'[g].cur = 0
      BY DEF Claimed
    <3>1. CASE g = h
      <4>1. \A f \in Widgets \ {g} : helper'[f].cur # i
        BY <2>4, <2>8, <3>1
      <4> QED
        BY <2>1, <2>2, <2>4, <2>5, <3>1, <4>1
    <3>2. CASE g # h
      <4>1. helper'[g] = helper[g] /\ helper[g].cur # i /\ helper'[h].cur = i
        BY <2>2, <2>4, <2>8, <3>2
      <4> QED
        BY <1>2, <2>4, <2>5, <4>1 DEF Kept, Claimed
    <3> QED
      BY <3>1, <3>2
  <2>10. \A w \in Widgets : helper'[w].items = helper[w].items /\ Due(wid', helper', w) = Due(wid, helper, w)
    BY <1>1, <2>2, <2>4 DEF Due
  <2>11. Queueing(wid', applied', helper')
    BY <1>1, <1>2, <2>10 DEF Kept, Queueing
  <2>12. Placed(wid', applied', sent') /\ Sending(wid', applied', sent') /\ AsAsked(applied', sent')
    BY <1>1, <1>2 DEF Kept
  <2>13. /\ Queueing(wid, applied, helper)' /\ Placed(wid, applied, sent)'
         /\ Sending(wid, applied, sent)' /\ AsAsked(applied, sent)'
    BY <1>1, <2>1, <2>5, <2>6, <2>11, <2>12, GoneStays
  <2>14. Somewhere(wid, applied, helper, sent)'
    <3> SUFFICES ASSUME NEW j \in Ids, j \notin lost
                 PROVE  /\ file'[j] = "taking" => \E g \in Widgets : helper'[g].cur = j
                        /\ file'[j] = "gone" => applied'[j] # <<>> \/ \E w \in Widgets : j \in Due(wid', helper', w)
                        /\ applied'[j] # <<>> /\ kind'[j].text => Boxed(wid', sent', j)
      BY <1>1 DEF Somewhere, Due, Boxed
    <3>1. applied'[j] # <<>> /\ kind'[j].text => Boxed(wid', sent', j)
      BY <1>1, <1>2 DEF Kept, Somewhere
    <3>2. file'[j] = "gone" => applied'[j] # <<>> \/ \E w \in Widgets : j \in Due(wid', helper', w)
      BY <1>1, <1>2, <2>5, <2>10 DEF Kept, Somewhere
    <3>3. file'[j] = "taking" => \E g \in Widgets : helper'[g].cur = j
      <4>1. CASE j = i
        BY <2>2, <2>4, <4>1
      <4>2. CASE j # i
        <5> SUFFICES ASSUME file[j] = "taking" PROVE \E g \in Widgets : helper'[g].cur = j
          BY <2>5, <4>2
        <5>1. PICK g \in Widgets : helper[g].cur = j
          BY <1>2 DEF Kept, Somewhere
        <5>2. g # h
          BY <2>1, <2>8, <5>1 DEF Ids
        <5> QED
          BY <2>4, <5>1, <5>2
      <4> QED
        BY <4>1, <4>2
    <3> QED
      BY <3>1, <3>2, <3>3
  <2> QED
    BY <2>6, <2>7, <2>9, <2>13, <2>14 DEF IInv, Kept
<1> QED
  BY <1>1, <1>3, <1>4

LEMMA TakeKeeps == ASSUME IInv, NEW h \in Widgets, Take(h) PROVE IInv'
<1> DEFINE i == helper[h].cur
           H == [helper[h] EXCEPT !.pc = "claim", !.cur = 0, !.items = IF file[i] = "stale" THEN @ ELSE Append(@, i)]
<1>1. /\ helper[h].pc = "read" /\ helper' = [helper EXCEPT ![h] = H] /\ file' = [file EXCEPT ![i] = "gone"]
      /\ UNCHANGED <<kind, wid, applied, sent, lost, left>>
  BY DEF Take
<1>2. /\ TypeOK /\ Numbered /\ Kept(wid, applied, helper, sent)
      /\ wid \in [Widgets -> Boxes] /\ helper \in [Widgets -> Helpers] /\ helper[h] \in Helpers /\ file \in [Ids -> Stages]
  BY DEF IInv, TypeOK
<1>3. i \in Ids /\ i # 0 /\ file[i] \in {"taking", "stale"}
  BY <1>1, <1>2 DEF Kept, Claimed, Ids
<1>4. helper[h].items \in Seq(Ids) /\ Append(helper[h].items, i) \in Seq(Ids)
      /\ ToSet(Append(helper[h].items, i)) = ToSet(helper[h].items) \cup {i}
      /\ (IsInjective(helper[h].items) /\ i \notin ToSet(helper[h].items) => IsInjective(Append(helper[h].items, i)))
  <2>1. helper[h].items \in Seq(Ids)
    BY <1>2 DEF Helpers
  <2> QED
    BY <1>3, <2>1, ToSetAppended, AppendProperties
<1>5. /\ H \in Helpers /\ H.pc = "claim" /\ H.cur = 0
      /\ H.items = IF file[i] = "stale" THEN helper[h].items ELSE Append(helper[h].items, i)
  BY <1>2, <1>4 DEF Helpers, Pieces
<1> HIDE DEF H
<1>6. helper' \in [Widgets -> Helpers] /\ helper'[h] = H /\ \A g \in Widgets \ {h} : helper'[g] = helper[g]
  BY <1>1, <1>2, <1>5
<1>7. file' \in [Ids -> Stages] /\ file'[i] = "gone" /\ \A j \in Ids \ {i} : file'[j] = file[j]
  BY <1>1, <1>2, <1>3 DEF Stages
<1>8. TypeOK'
  BY <1>1, <1>2, <1>6, <1>7 DEF TypeOK
<1>9. Numbered'
  <2>1. Written' = Written
    BY <1>3, <1>7 DEF Written
  <2> QED
    BY <1>1, <1>2, <1>7, <2>1 DEF Numbered
<1>10. (\A w \in Widgets : i \notin Due(wid, helper, w)) /\ applied[i] = <<>>
  BY <1>2, <1>3 DEF Kept, Queueing, Placed
<1>11. \A w \in Widgets : Due(wid', helper', w) = Due(wid, helper, w) \cup (IF w = h /\ file[i] # "stale" THEN {i} ELSE {})
  BY <1>1, <1>4, <1>5, <1>6 DEF Due
<1>12. Claimed(helper)'
  <2> SUFFICES ASSUME NEW g \in Widgets
               PROVE  /\ helper'[g].pc = "off" => helper'[g].items = <<>>
                      /\ helper'[g].pc # "read" => helper'[g].cur = 0
                      /\ helper'[g].pc = "read" => helper'[g].cur \in Ids /\ file'[helper'[g].cur] \in {"taking", "stale"}
                      /\ \A f \in Widgets \ {g} : helper'[f].cur = helper'[g].cur => helper'[g].cur = 0
    BY DEF Claimed
  <2>1. CASE g = h
    BY <1>5, <1>6, <2>1
  <2>2. CASE g # h
    <3>1. helper'[g] = helper[g] /\ helper[g].cur # i
      BY <1>2, <1>3, <1>6, <2>2 DEF Kept, Claimed
    <3>2. \A f \in Widgets \ {g} : helper'[f].cur = 0 \/ helper'[f].cur = helper[f].cur
      BY <1>5, <1>6
    <3> QED
      BY <1>2, <1>7, <3>1, <3>2 DEF Kept, Claimed
  <2> QED
    BY <2>1, <2>2
<1>13. \A w \in Widgets : Due(wid, helper, w) \subseteq Ids
  BY <1>2 DEF Due, ToSet, Boxes, Helpers
<1>14. Queueing(wid, applied, helper)'
  <2> SUFFICES ASSUME NEW w \in Widgets
               PROVE  /\ IsInjective(wid'[w].queue) /\ IsInjective(helper'[w].items)
                      /\ ToSet(wid'[w].queue) \cap ToSet(helper'[w].items) = {}
                      /\ \A v \in Widgets \ {w} : Due(wid', helper', v) \cap Due(wid', helper', w) = {}
                      /\ \A j \in Due(wid', helper', w) : file'[j] = "gone" /\ applied'[j] = <<>>
    BY DEF Queueing, Due
  <2>1. IsInjective(wid'[w].queue)
    BY <1>1, <1>2 DEF Kept, Queueing
  <2>2. IsInjective(helper'[w].items) /\ ToSet(wid'[w].queue) \cap ToSet(helper'[w].items) = {}
    <3>1. IsInjective(helper[w].items) /\ ToSet(wid[w].queue) \cap ToSet(helper[w].items) = {}
          /\ i \notin ToSet(wid[w].queue) /\ i \notin ToSet(helper[w].items)
      BY <1>2, <1>10 DEF Kept, Queueing, Due
    <3>2. wid' = wid
      BY <1>1
    <3>3. CASE w # h
      BY <1>6, <3>1, <3>2, <3>3
    <3>4. CASE w = h
      BY <1>4, <1>5, <1>6, <3>1, <3>2, <3>4
    <3> QED
      BY <3>3, <3>4
  <2>3. \A v \in Widgets \ {w} : Due(wid', helper', v) \cap Due(wid', helper', w) = {}
    <3>1. \A v \in Widgets \ {w} : Due(wid, helper, v) \cap Due(wid, helper, w) = {}
      BY <1>2 DEF Kept, Queueing
    <3> QED
      BY <1>10, <1>11, <3>1
  <2>4. ASSUME NEW j \in Due(wid', helper', w) PROVE file'[j] = "gone" /\ applied'[j] = <<>>
    <3>1. j = i \/ j \in Due(wid, helper, w)
      BY <1>11, <2>4
    <3>2. CASE j = i
      BY <1>1, <1>7, <1>10, <3>2
    <3>3. CASE j \in Due(wid, helper, w) /\ j # i
      <4>1. file[j] = "gone" /\ applied[j] = <<>> /\ j \in Ids
        BY <1>2, <1>13, <3>3 DEF Kept, Queueing
      <4> QED
        BY <1>1, <1>7, <3>3, <4>1
    <3> QED
      BY <3>1, <3>2, <3>3
  <2> QED
    BY <2>1, <2>2, <2>3, <2>4
<1>15. Placed(wid, applied, sent)'
  <2>1. \A j \in Ids : file[j] = "gone" => file'[j] = "gone"
    BY <1>3, <1>7
  <2> QED
    BY <1>1, <1>2, <2>1 DEF Kept, Placed
<1>16. Sending(wid, applied, sent)' /\ AsAsked(applied, sent)'
  BY <1>1, <1>2 DEF Kept, Sending, AsAsked, MeantFor, Asked, UserSent
<1>17. Somewhere(wid, applied, helper, sent)'
  <2> SUFFICES ASSUME NEW j \in Ids, j \notin lost
               PROVE  /\ file'[j] = "taking" => \E g \in Widgets : helper'[g].cur = j
                      /\ file'[j] = "gone" => applied'[j] # <<>> \/ \E w \in Widgets : j \in Due(wid', helper', w)
                      /\ applied'[j] # <<>> /\ kind'[j].text => Boxed(wid', sent', j)
    BY <1>1 DEF Somewhere, Due, Boxed
  <2>1. applied'[j] # <<>> /\ kind'[j].text => Boxed(wid', sent', j)
    BY <1>1, <1>2 DEF Kept, Somewhere
  <2>2. CASE j = i
    <3>1. file[i] = "taking"
      BY <1>2, <1>3, <2>2 DEF Numbered
    <3> QED
      BY <1>7, <1>11, <2>1, <2>2, <3>1
  <2>3. CASE j # i
    <3>1. file'[j] = file[j]
      BY <1>7, <2>3
    <3>2. file[j] = "gone" => applied'[j] # <<>> \/ \E w \in Widgets : j \in Due(wid', helper', w)
      BY <1>1, <1>2, <1>11 DEF Kept, Somewhere
    <3>3. file[j] = "taking" => \E g \in Widgets : helper'[g].cur = j
      <4> SUFFICES ASSUME file[j] = "taking" PROVE \E g \in Widgets : helper'[g].cur = j
        OBVIOUS
      <4>1. PICK g \in Widgets : helper[g].cur = j
        BY <1>2 DEF Kept, Somewhere
      <4> QED
        BY <1>6, <2>3, <4>1
    <3> QED
      BY <2>1, <3>1, <3>2, <3>3
  <2> QED
    BY <2>2, <2>3
<1> QED
  BY <1>8, <1>9, <1>12, <1>14, <1>15, <1>16, <1>17 DEF IInv, Kept

LEMMA OffIs == Off \in Helpers /\ Off.pc = "off" /\ Off.cur = 0 /\ Off.items = <<>>
BY DEF Off, Helpers, Pieces

LEMMA KilledKeeps == ASSUME IInv, NEW h \in Widgets, HelperKilled(h) PROVE IInv'
<1> DEFINE W == [wid[h] EXCEPT !.missed = Waiting]
           Had == ToSet(helper[h].items) \cup ({helper[h].cur} \ {0})
<1>1. /\ helper' = [helper EXCEPT ![h] = Off] /\ wid' = [wid EXCEPT ![h] = W] /\ lost' = lost \cup Had
      /\ UNCHANGED <<kind, file, applied, sent>>
      /\ left["faults"] > 0 /\ left' = [left EXCEPT !["faults"] = @ - 1]
  BY DEF HelperKilled, Spend
<1>2. /\ TypeOK /\ Kept(wid, applied, helper, sent)
      /\ wid \in [Widgets -> Boxes] /\ wid[h] \in Boxes /\ helper \in [Widgets -> Helpers] /\ helper[h] \in Helpers
  BY DEF IInv, TypeOK
<1>3. W \in Boxes /\ W.queue = wid[h].queue /\ W.box = wid[h].box /\ W.target = wid[h].target /\ W.busy = wid[h].busy
  <2>1. Waiting \subseteq Ids
    BY DEF Waiting
  <2> QED
    BY <1>2, <2>1 DEF Boxes
<1>4. Had \subseteq Pieces
  BY <1>2 DEF Helpers, Pieces, ToSet
<1> HIDE DEF W
<1>5. helper' \in [Widgets -> Helpers] /\ helper'[h] = Off /\ \A g \in Widgets \ {h} : helper'[g] = helper[g]
  BY <1>1, <1>2, OffIs
<1>6. wid' \in [Widgets -> Boxes] /\ wid'[h] = W /\ \A g \in Widgets \ {h} : wid'[g] = wid[g]
  BY <1>1, <1>2, <1>3
<1>7. \A w \in Widgets : /\ wid'[w].queue = wid[w].queue /\ wid'[w].box = wid[w].box
                         /\ wid'[w].target = wid[w].target /\ (wid'[w].busy => wid[w].busy)
  BY <1>3, <1>6
<1>8. TypeOK'
  <2>1. left' \in [{"faults", "steps"} -> Nat]
    BY <1>1, <1>2 DEF TypeOK
  <2>2. lost' \subseteq Pieces
    BY <1>1, <1>2, <1>4 DEF TypeOK
  <2> QED
    BY <1>1, <1>2, <1>5, <1>6, <2>1, <2>2 DEF TypeOK
<1>9. Numbered'
  BY <1>1 DEF IInv, Numbered, Written
<1>10. Kept(wid', applied, helper, sent)
  BY <1>2, <1>7, SameWidgets
<1>11. \A w \in Widgets : Due(wid', helper', w) \subseteq Due(wid', helper, w)
                          /\ \A j \in Due(wid', helper, w) : j \in Due(wid', helper', w) \/ j \in Had
  <2>1. ToSet(helper'[h].items) = {}
    BY <1>5, OffIs, EmptyToSet
  <2> QED
    BY <1>5, <2>1 DEF Due
<1>12. Claimed(helper)'
  <2> SUFFICES ASSUME NEW g \in Widgets
               PROVE  /\ helper'[g].pc = "off" => helper'[g].items = <<>>
                      /\ helper'[g].pc # "read" => helper'[g].cur = 0
                      /\ helper'[g].pc = "read" => helper'[g].cur \in Ids /\ file'[helper'[g].cur] \in {"taking", "stale"}
                      /\ \A f \in Widgets \ {g} : helper'[f].cur = helper'[g].cur => helper'[g].cur = 0
    BY DEF Claimed
  <2>1. CASE g = h
    BY <1>5, <2>1, OffIs
  <2>2. CASE g # h
    <3>1. \A f \in Widgets \ {g} : helper'[f].cur = 0 \/ helper'[f].cur = helper[f].cur
      BY <1>5, OffIs
    <3> QED
      BY <1>1, <1>2, <1>5, <2>2, <3>1 DEF Kept, Claimed
  <2> QED
    BY <2>1, <2>2
<1>13. Queueing(wid', applied', helper')
  <2>1. \A w \in Widgets : /\ IsInjective(wid'[w].queue) /\ IsInjective(helper'[w].items)
                           /\ ToSet(wid'[w].queue) \cap ToSet(helper'[w].items) = {}
    BY <1>5, <1>10, OffIs, EmptyToSet DEF Kept, Queueing
  <2>2. \A w \in Widgets : /\ \A v \in Widgets \ {w} : Due(wid', helper', v) \cap Due(wid', helper', w) = {}
                           /\ \A j \in Due(wid', helper', w) : file[j] = "gone" /\ applied'[j] = <<>>
    BY <1>1, <1>10, <1>11 DEF Kept, Queueing
  <2> QED
    BY <2>1, <2>2 DEF Queueing
<1>14. /\ Queueing(wid, applied, helper)' /\ Placed(wid, applied, sent)'
       /\ Sending(wid, applied, sent)' /\ AsAsked(applied, sent)'
  <2>1. Placed(wid', applied', sent') /\ Sending(wid', applied', sent') /\ AsAsked(applied', sent')
    BY <1>1, <1>10 DEF Kept
  <2> QED
    BY <1>1, <1>8, <1>13, <2>1, GoneStays
<1>15. Somewhere(wid, applied, helper, sent)'
  <2> SUFFICES ASSUME NEW j \in Ids, j \notin lost, j \notin Had
               PROVE  /\ file[j] = "taking" => \E g \in Widgets : helper'[g].cur = j
                      /\ file[j] = "gone" => applied[j] # <<>> \/ \E w \in Widgets : j \in Due(wid', helper', w)
                      /\ applied[j] # <<>> /\ kind[j].text => Boxed(wid', sent, j)
    BY <1>1 DEF Somewhere, Due, Boxed
  <2>1. applied[j] # <<>> /\ kind[j].text => Boxed(wid', sent, j)
    BY <1>10 DEF Kept, Somewhere
  <2>2. file[j] = "gone" => applied[j] # <<>> \/ \E w \in Widgets : j \in Due(wid', helper', w)
    BY <1>10, <1>11 DEF Kept, Somewhere
  <2>3. ASSUME file[j] = "taking" PROVE \E g \in Widgets : helper'[g].cur = j
    <3>1. PICK g \in Widgets : helper[g].cur = j
      BY <1>2, <2>3 DEF Kept, Somewhere
    <3>2. g # h
      BY <3>1 DEF Ids
    <3> QED
      BY <1>5, <3>1, <3>2
  <2> QED
    BY <2>1, <2>2, <2>3
<1> QED
  BY <1>8, <1>9, <1>12, <1>14, <1>15 DEF IInv, Kept

-----------------------------------------------------------------------------
(* The widget: the answer of a helper, and the send timer.                 *)

\* After a handler that went through the queue.
LEMMA GoesEnd ==
    ASSUME IInv, UNCHANGED <<kind, file, lost, left>>,
           helper' \in [Widgets -> Helpers], sent' \in Seq(Posts),
           NEW w \in Widgets, NEW W \in Boxes, Kept([wid EXCEPT ![w] = W], applied, helper', sent'), Goes(w, W)
    PROVE  IInv'
<1>1. TypeOK /\ kind \in Seq(Kinds) /\ file \in [Ids -> Stages] /\ Numbered /\ wid \in [Widgets -> Boxes] /\ applied \in Applieds
  BY DEF IInv, TypeOK
<1>2. wid' \in [Widgets -> Boxes] /\ applied' \in Applieds /\ Kept(wid', applied', helper', sent')
  BY <1>1, GoesKeeps
<1>3. TypeOK'
  BY <1>1, <1>2 DEF TypeOK
<1>4. Numbered'
  BY <1>1 DEF Numbered, Written
<1>5. Kept(wid, applied, helper, sent)'
  BY <1>2, <1>3, FilesMove
<1> QED
  BY <1>3, <1>4, <1>5 DEF IInv

LEMMA PrintedKeeps == ASSUME IInv, NEW w \in Widgets, Printed(w) PROVE IInv'
<1> DEFINE W == [wid[w] EXCEPT !.queue = Queued(@, helper[w].items), !.watching = TRUE]
           nw == [wid EXCEPT ![w] = W]
<1>1. /\ helper[w].pc = "claim" /\ helper' = [helper EXCEPT ![w] = Off] /\ Goes(w, W)
      /\ UNCHANGED <<kind, file, sent, lost, left>>
  BY DEF Printed
<1>2. /\ TypeOK /\ Kept(wid, applied, helper, sent) /\ sent \in Seq(Posts)
      /\ wid \in [Widgets -> Boxes] /\ wid[w] \in Boxes /\ helper \in [Widgets -> Helpers] /\ helper[w] \in Helpers
  BY DEF IInv, TypeOK
<1>3. /\ wid[w].queue \in Seq(Ids) /\ helper[w].items \in Seq(Ids)
      /\ IsInjective(wid[w].queue) /\ IsInjective(helper[w].items) /\ ToSet(wid[w].queue) \cap ToSet(helper[w].items) = {}
  BY <1>2 DEF Boxes, Helpers, Kept, Queueing
<1> DEFINE q == wid[w].queue \o helper[w].items
<1>4. q \in Seq(Ids) /\ IsInjective(q) /\ ToSet(q) = Due(wid, helper, w)
  BY <1>3, ToSetJoined DEF Due
<1>5. W \in Boxes /\ W.queue = q /\ W.box = wid[w].box /\ W.target = wid[w].target /\ W.busy = wid[w].busy
  BY <1>2, <1>4 DEF Boxes, Queued
<1> HIDE DEF W, q
<1>6. nw \in [Widgets -> Boxes] /\ nw[w] = W /\ \A v \in Widgets \ {w} : nw[v] = wid[v]
  BY <1>2, <1>5
<1> HIDE DEF nw
<1>7. helper' \in [Widgets -> Helpers] /\ helper'[w] = Off /\ \A v \in Widgets \ {w} : helper'[v] = helper[v]
  BY <1>1, <1>2, OffIs
<1>8. \A v \in Widgets : Due(nw, helper', v) = Due(wid, helper, v)
  BY <1>4, <1>5, <1>6, <1>7, OffIs, EmptyToSet DEF Due
<1>9. Claimed(helper')
  <2> SUFFICES ASSUME NEW g \in Widgets
               PROVE  /\ helper'[g].pc = "off" => helper'[g].items = <<>>
                      /\ helper'[g].pc # "read" => helper'[g].cur = 0
                      /\ helper'[g].pc = "read" => helper'[g].cur \in Ids /\ file[helper'[g].cur] \in {"taking", "stale"}
                      /\ \A f \in Widgets \ {g} : helper'[f].cur = helper'[g].cur => helper'[g].cur = 0
    BY DEF Claimed
  <2>1. CASE g = w
    BY <1>7, <2>1, OffIs
  <2>2. CASE g # w
    <3>1. \A f \in Widgets \ {g} : helper'[f].cur = 0 \/ helper'[f].cur = helper[f].cur
      BY <1>7, OffIs
    <3> QED
      BY <1>2, <1>7, <2>2, <3>1 DEF Kept, Claimed
  <2> QED
    BY <2>1, <2>2
<1>10. Queueing(nw, applied, helper')
  <2>1. \A v \in Widgets : /\ IsInjective(nw[v].queue) /\ IsInjective(helper'[v].items)
                           /\ ToSet(nw[v].queue) \cap ToSet(helper'[v].items) = {}
    BY <1>2, <1>4, <1>5, <1>6, <1>7, OffIs, EmptyToSet DEF Kept, Queueing
  <2>2. \A v \in Widgets : /\ \A u \in Widgets \ {v} : Due(nw, helper', u) \cap Due(nw, helper', v) = {}
                           /\ \A j \in Due(nw, helper', v) : file[j] = "gone" /\ applied[j] = <<>>
    BY <1>2, <1>8 DEF Kept, Queueing
  <2> QED
    BY <2>1, <2>2 DEF Queueing
<1>11. \A v \in Widgets : nw[v].box = wid[v].box /\ nw[v].target = wid[v].target /\ nw[v].busy = wid[v].busy
  BY <1>5, <1>6
<1>12. Placed(nw, applied, sent) /\ Sending(nw, applied, sent) /\ AsAsked(applied, sent)
  BY <1>2, <1>11 DEF Kept, Placed, Sending
<1>13. Somewhere(nw, applied, helper', sent)
  <2> SUFFICES ASSUME NEW j \in Ids \ lost
               PROVE  /\ file[j] = "taking" => \E g \in Widgets : helper'[g].cur = j
                      /\ file[j] = "gone" => applied[j] # <<>> \/ \E v \in Widgets : j \in Due(nw, helper', v)
                      /\ applied[j] # <<>> /\ kind[j].text => Boxed(nw, sent, j)
    BY DEF Somewhere
  <2>1. applied[j] # <<>> /\ kind[j].text => Boxed(nw, sent, j)
    BY <1>2, <1>11 DEF Kept, Somewhere, Boxed
  <2>2. file[j] = "gone" => applied[j] # <<>> \/ \E v \in Widgets : j \in Due(nw, helper', v)
    BY <1>2, <1>8 DEF Kept, Somewhere
  <2>3. ASSUME file[j] = "taking" PROVE \E g \in Widgets : helper'[g].cur = j
    <3>1. PICK g \in Widgets : helper[g].cur = j
      BY <1>2, <2>3 DEF Kept, Somewhere
    <3>2. helper[w].cur = 0 /\ j # 0
      BY <1>1, <1>2 DEF Kept, Claimed, Ids
    <3> QED
      BY <1>7, <3>1, <3>2
  <2> QED
    BY <2>1, <2>2, <2>3
<1>14. Kept(nw, applied, helper', sent')
  BY <1>1, <1>9, <1>10, <1>12, <1>13 DEF Kept
<1> QED
  BY <1>1, <1>2, <1>5, <1>7, <1>14, GoesEnd DEF nw

LEMMA TimerKeeps == ASSUME IInv, NEW w \in Widgets, sendTimer(w) PROVE IInv'
<1> DEFINE W == [wid[w] EXCEPT !.waited = @ + 1]
           ends == [W EXCEPT !.busy = FALSE, !.waited = 0]
           s == Message(W, "timer")
<1>1. /\ UNCHANGED <<kind, file, helper, lost, left>> /\ W.busy
      /\ \/ Goes(w, ends) /\ UNCHANGED sent
         \/ /\ SameChat(W) /\ sent' = (IF W.box = <<>> /\ W.ready = {} THEN sent ELSE Append(sent, s))
            /\ Goes(w, Emptied(ends))
         \/ wid' = [wid EXCEPT ![w].waited = IF @ < MaxTicks THEN @ + 1 ELSE @] /\ UNCHANGED <<applied, sent>>
  BY DEF sendTimer
<1>2. /\ TypeOK /\ Kept(wid, applied, helper, sent) /\ sent \in Seq(Posts)
      /\ wid \in [Widgets -> Boxes] /\ wid[w] \in Boxes /\ helper \in [Widgets -> Helpers]
      /\ lost \subseteq Pieces /\ left \in [{"faults", "steps"} -> Nat]
  BY DEF IInv, TypeOK
<1>3. /\ W \in Boxes /\ W.queue = wid[w].queue /\ W.box = wid[w].box /\ W.target = wid[w].target /\ W.busy = wid[w].busy
      /\ W.chat = wid[w].chat /\ W.ready = wid[w].ready
  <2>1. wid[w].waited \in Nat
    BY <1>2 DEF Boxes
  <2> DEFINE n == wid[w].waited + 1
  <2>2. n \in Nat /\ W = [wid[w] EXCEPT !.waited = n]
    BY <2>1
  <2> HIDE DEF n, W
  <2> QED
    BY <1>2, <2>2 DEF Boxes
<1>4. CASE wid' = [wid EXCEPT ![w].waited = IF @ < MaxTicks THEN @ + 1 ELSE @] /\ UNCHANGED <<applied, sent>>
  <2> DEFINE V == [wid[w] EXCEPT !.waited = IF @ < MaxTicks THEN @ + 1 ELSE @]
  <2>1. V \in Boxes /\ V.queue = wid[w].queue /\ V.box = wid[w].box /\ V.target = wid[w].target /\ V.busy = wid[w].busy
    <3>1. wid[w].waited \in Nat
      BY <1>2 DEF Boxes
    <3>2. PICK n \in Nat : n = IF wid[w].waited < MaxTicks THEN wid[w].waited + 1 ELSE wid[w].waited
      BY <3>1
    <3>3. V = [wid[w] EXCEPT !.waited = n]
      BY <3>2
    <3> HIDE DEF V
    <3> QED
      BY <1>2, <3>3 DEF Boxes
  <2>2. wid' = [wid EXCEPT ![w] = V]
    BY <1>4
  <2> HIDE DEF V
  <2> QED
    BY <1>1, <1>2, <1>4, <2>1, <2>2, OneWidget
<1> HIDE DEF W
<1>5. ends \in Boxes /\ ends.queue = W.queue /\ ends.box = W.box /\ ends.target = W.target /\ ~ends.busy
  BY <1>3 DEF Boxes
<1>6. CASE Goes(w, ends) /\ UNCHANGED sent
  <2> DEFINE nw == [wid EXCEPT ![w] = ends]
  <2> HIDE DEF ends
  <2>1. nw[w] = ends /\ \A v \in Widgets \ {w} : nw[v] = wid[v]
    BY <1>2
  <2> HIDE DEF nw
  <2>2. Kept(nw, applied, helper, sent)
    <3>1. \A v \in Widgets : /\ nw[v].queue = wid[v].queue /\ nw[v].box = wid[v].box
                             /\ nw[v].target = wid[v].target /\ (nw[v].busy => wid[v].busy)
      BY <1>3, <1>5, <2>1
    <3> QED
      BY <1>2, <3>1, SameWidgets
  <2>3. Kept(nw, applied, helper', sent')
    BY <1>1, <1>6, <2>2
  <2> QED
    BY <1>1, <1>2, <1>5, <1>6, <2>3, GoesEnd DEF nw
<1>7. CASE /\ SameChat(W) /\ sent' = (IF W.box = <<>> /\ W.ready = {} THEN sent ELSE Append(sent, s))
           /\ Goes(w, Emptied(ends))
  <2> HIDE DEF ends
  <2> DEFINE E == Emptied(ends)
             nw == [wid EXCEPT ![w] = E]
  <2>1. E \in Boxes /\ E.queue = W.queue /\ E.box = <<>> /\ E.target = W.target /\ ~E.busy
    <3>1. <<>> \in Seq(Pieces) /\ {} \in SUBSET Ids
      OBVIOUS
    <3>2. E = [ends EXCEPT !.box = <<>>, !.ready = {}]
      BY DEF Emptied
    <3> HIDE DEF E
    <3> QED
      BY <1>5, <3>1, <3>2 DEF Boxes
  <2>2. s \in Posts /\ s.pieces = wid[w].box /\ s.by = "timer" /\ s.chat = wid[w].target
    BY <1>2, <1>3, <1>7 DEF Message, Posts, SameChat, Boxes
  <2> HIDE DEF E, s
  <2>3. CASE W.box = <<>> /\ W.ready = {}
    <3>1. nw[w] = E /\ \A v \in Widgets \ {w} : nw[v] = wid[v]
      BY <1>2
    <3> HIDE DEF nw
    <3>2. Kept(nw, applied, helper, sent)
      <4>1. \A v \in Widgets : /\ nw[v].queue = wid[v].queue /\ nw[v].box = wid[v].box
                               /\ nw[v].target = wid[v].target /\ (nw[v].busy => wid[v].busy)
        BY <1>3, <2>1, <2>3, <3>1
      <4> QED
        BY <1>2, <4>1, SameWidgets
    <3>3. Kept(nw, applied, helper', sent')
      BY <1>1, <1>7, <2>3, <3>2
    <3> QED
      BY <1>1, <1>2, <1>7, <2>1, <2>3, <3>3, GoesEnd DEF nw, E
  <2>4. CASE ~ (W.box = <<>> /\ W.ready = {})
    <3>1. sent' = Append(sent, s) /\ sent' \in Seq(Posts)
      BY <1>2, <1>7, <2>2, <2>4, AppendProperties
    <3>2. Kept(nw, applied, helper, Append(sent, s))
      BY <1>1, <1>2, <1>3, <2>1, <2>2, SendKeeps
    <3> HIDE DEF nw
    <3>3. Kept(nw, applied, helper', sent')
      BY <1>1, <3>1, <3>2
    <3> QED
      BY <1>1, <1>2, <1>7, <2>1, <3>1, <3>3, GoesEnd DEF nw, E
  <2> QED
    BY <2>3, <2>4
<1> QED
  BY <1>1, <1>4, <1>6, <1>7

-----------------------------------------------------------------------------
(* The user, and the end of plasmashell.                                   *)

LEMMA SendsKeeps ==
    ASSUME IInv, NEW w \in Widgets, UNCHANGED <<kind, file, helper, applied, lost>>, left' \in [{"faults", "steps"} -> Nat],
           sent' = Append(sent, Message(wid[w], "user")), wid' = [wid EXCEPT ![w] = Emptied(@)]
    PROVE  IInv'
<1> DEFINE s == Message(wid[w], "user")
           E == Emptied(wid[w])
<1>1. /\ TypeOK /\ Kept(wid, applied, helper, sent) /\ sent \in Seq(Posts)
      /\ wid \in [Widgets -> Boxes] /\ wid[w] \in Boxes
  BY DEF IInv, TypeOK
<1>2. E \in Boxes /\ E.queue = wid[w].queue /\ E.box = <<>> /\ E.target = wid[w].target /\ E.busy = wid[w].busy
  <2>1. <<>> \in Seq(Pieces) /\ {} \in SUBSET Ids
    OBVIOUS
  <2>2. E = [wid[w] EXCEPT !.box = <<>>, !.ready = {}]
    BY DEF Emptied
  <2> HIDE DEF E
  <2> QED
    BY <1>1, <2>1, <2>2 DEF Boxes
<1>3. s \in Posts /\ s.pieces = wid[w].box /\ s.by = "user"
  BY <1>1 DEF Message, Posts, Boxes
<1> HIDE DEF s, E
<1>4. sent' = Append(sent, s) /\ sent' \in Seq(Posts)
  BY <1>1, <1>3, AppendProperties DEF s
<1>5. wid' = [wid EXCEPT ![w] = E] /\ wid' \in [Widgets -> Boxes]
  BY <1>1, <1>2 DEF E
<1>6. Kept([wid EXCEPT ![w] = E], applied, helper, Append(sent, s))
  BY <1>1, <1>2, <1>3, SendKeeps
<1>7. Kept(wid', applied', helper', sent')
  BY <1>4, <1>5, <1>6
<1>8. TypeOK'
  BY <1>1, <1>4, <1>5 DEF TypeOK
<1>9. Numbered'
  BY DEF IInv, Numbered, Written
<1>10. Kept(wid, applied, helper, sent)'
  BY <1>7, <1>8, FilesMove
<1> QED
  BY <1>8, <1>9, <1>10 DEF IInv

LEMMA TypesKeeps ==
    ASSUME IInv, NEW w \in Widgets, UNCHANGED <<kind, file, helper, applied, sent, lost>>, left' \in [{"faults", "steps"} -> Nat],
           wid' = [wid EXCEPT ![w].box = Append(@, 0)]
    PROVE  IInv'
<1> DEFINE W == [wid[w] EXCEPT !.box = Append(@, 0)]
<1>1. /\ TypeOK /\ Kept(wid, applied, helper, sent)
      /\ wid \in [Widgets -> Boxes] /\ wid[w] \in Boxes /\ wid[w].box \in Seq(Pieces)
  BY DEF IInv, TypeOK, Boxes
<1>2. /\ Append(wid[w].box, 0) \in Seq(Pieces) /\ ToSet(Append(wid[w].box, 0)) = ToSet(wid[w].box) \cup {0}
      /\ Append(wid[w].box, 0) # <<>> /\ Append(wid[w].box, 0)[1] = IF wid[w].box = <<>> THEN 0 ELSE wid[w].box[1]
  <2>1. 0 \in Pieces
    BY DEF Pieces
  <2> QED
    BY <1>1, <2>1, ToSetAppended, AppendProperties
<1>3. /\ W \in Boxes /\ W.queue = wid[w].queue /\ W.box = Append(wid[w].box, 0)
      /\ W.target = wid[w].target /\ W.busy = wid[w].busy
  BY <1>1, <1>2 DEF Boxes
<1>4. wid' = [wid EXCEPT ![w] = W]
  OBVIOUS
<1> HIDE DEF W
<1>5. wid' \in [Widgets -> Boxes] /\ wid'[w] = W /\ \A v \in Widgets \ {w} : wid'[v] = wid[v]
  BY <1>1, <1>3, <1>4
<1>6. \A v \in Widgets : /\ wid'[v].queue = wid[v].queue /\ wid'[v].target = wid[v].target /\ wid'[v].busy = wid[v].busy
                         /\ ToSet(wid'[v].box) \ {0} = ToSet(wid[v].box) \ {0}
  BY <1>2, <1>3, <1>5
<1>7. Queueing(wid', applied, helper)
  BY <1>1, <1>6 DEF Kept, Queueing, Due
<1>8. Placed(wid', applied, sent)
  <2>1. \A v \in Widgets : \A i : i # 0 => (i \in ToSet(wid'[v].box) <=> i \in ToSet(wid[v].box))
    BY <1>6
  <2> HIDE DEF Kept
  <2>2. Placed(wid, applied, sent)
    BY <1>1 DEF Kept
  <2> QED
    BY <2>1, <2>2 DEF Placed
<1>9. Somewhere(wid', applied, helper, sent)
  <2>1. \A v \in Widgets : Due(wid', helper, v) = Due(wid, helper, v)
    BY <1>6 DEF Due
  <2>2. \A i \in Ids : Boxed(wid, sent, i) => Boxed(wid', sent, i)
    BY <1>6 DEF Boxed, Ids
  <2> QED
    BY <1>1, <2>1, <2>2 DEF Kept, Somewhere
<1>10. Sending(wid', applied, sent)
  <2> SUFFICES ASSUME NEW v \in Widgets, wid'[v].busy
               PROVE  \E i \in Ids : /\ MeantFor(applied, i, wid'[v].target)
                                     /\ \/ wid'[v].box # <<>> /\ wid'[v].box[1] = i
                                        \/ UserSent(sent, Len(sent), i) /\ (wid'[v].box # <<>> => wid'[v].box[1] = 0)
    BY DEF Sending
  <2>1. PICK i \in Ids : /\ MeantFor(applied, i, wid[v].target)
                         /\ \/ wid[v].box # <<>> /\ wid[v].box[1] = i
                            \/ UserSent(sent, Len(sent), i) /\ (wid[v].box # <<>> => wid[v].box[1] = 0)
    BY <1>1, <1>6 DEF Kept, Sending
  <2>2. CASE v = w
    BY <1>2, <1>3, <1>5, <1>6, <2>1, <2>2
  <2>3. CASE v # w
    BY <1>5, <2>1, <2>3
  <2> QED
    BY <2>2, <2>3
<1>11. Kept(wid', applied', helper', sent')
  BY <1>1, <1>7, <1>8, <1>9, <1>10 DEF Kept
<1>12. TypeOK'
  BY <1>1, <1>5 DEF TypeOK
<1>13. Numbered'
  BY DEF IInv, Numbered, Written
<1>14. Kept(wid, applied, helper, sent)'
  BY <1>11, <1>12, FilesMove
<1> QED
  BY <1>12, <1>13, <1>14 DEF IInv

LEMMA UserKeeps == ASSUME IInv, NEW w \in Widgets, UserStep(w) PROVE IInv'
<1>1. /\ TypeOK /\ wid \in [Widgets -> Boxes] /\ wid[w] \in Boxes /\ lost \subseteq Pieces
      /\ left \in [{"faults", "steps"} -> Nat]
  BY DEF IInv, TypeOK
<1>2. UNCHANGED <<kind, file, helper, applied, lost>> /\ left["steps"] > 0 /\ left' = [left EXCEPT !["steps"] = @ - 1]
  BY DEF UserStep, Spend
<1>3. left' \in [{"faults", "steps"} -> Nat]
  BY <1>1, <1>2
<1>4. CASE wid' = [wid EXCEPT ![w].box = Append(@, 0)] /\ UNCHANGED sent
  BY <1>2, <1>3, <1>4, TypesKeeps
<1>5. CASE sent' = Append(sent, Message(wid[w], "user")) /\ wid' = [wid EXCEPT ![w] = Emptied(@)]
  BY <1>2, <1>3, <1>5, SendsKeeps
<1>6. CASE (\E c \in Chats \cup wid[w].made : wid' = [wid EXCEPT ![w].chat = c]) /\ UNCHANGED sent
  <2>1. PICK c \in Chats \cup wid[w].made : wid' = [wid EXCEPT ![w].chat = c]
    BY <1>6
  <2> DEFINE W == [wid[w] EXCEPT !.chat = c]
  <2>2. c \in Places
    BY <1>1 DEF Boxes, Places
  <2>3. W \in Boxes /\ W.queue = wid[w].queue /\ W.box = wid[w].box /\ W.target = wid[w].target /\ W.busy = wid[w].busy
    BY <1>1, <2>2 DEF Boxes
  <2>4. wid' = [wid EXCEPT ![w] = W]
    BY <2>1
  <2> HIDE DEF W
  <2> QED
    BY <1>1, <1>2, <1>3, <1>6, <2>3, <2>4, OneWidget
<1>7. CASE wid' = [wid EXCEPT ![w].failed = {}] /\ UNCHANGED sent
  <2> DEFINE W == [wid[w] EXCEPT !.failed = {}]
  <2>1. W \in Boxes /\ W.queue = wid[w].queue /\ W.box = wid[w].box /\ W.target = wid[w].target /\ W.busy = wid[w].busy
    BY <1>1 DEF Boxes
  <2>2. wid' = [wid EXCEPT ![w] = W]
    BY <1>7
  <2> HIDE DEF W
  <2> QED
    BY <1>1, <1>2, <1>3, <1>7, <2>1, <2>2, OneWidget
<1> QED
  BY <1>4, <1>5, <1>6, <1>7 DEF UserStep

LEMMA NewIs ==
    ASSUME NEW c \in Places, NEW M \in SUBSET Ids
    PROVE  NewWidget(c, M) \in Boxes /\ NewWidget(c, M).queue = <<>> /\ NewWidget(c, M).box = <<>> /\ ~NewWidget(c, M).busy
<1>1. <<>> \in Seq(Ids) /\ <<>> \in Seq(Pieces)
  OBVIOUS
<1> QED
  BY <1>1 DEF NewWidget, Boxes

\* With nothing in queues, boxes and helpers, only messages are left.
LEMMA Bare ==
    ASSUME NEW wi, NEW ap, NEW he, NEW se, Placed(wid, ap, se), AsAsked(ap, se),
           \A w \in Widgets : wi[w].queue = <<>> /\ wi[w].box = <<>> /\ ~wi[w].busy,
           \A h \in Widgets : he[h].pc = "off" /\ he[h].cur = 0 /\ he[h].items = <<>>
    PROVE  Claimed(he) /\ Queueing(wi, ap, he) /\ Placed(wi, ap, se) /\ Sending(wi, ap, se) /\ AsAsked(ap, se)
<1>1. Claimed(he)
  BY DEF Claimed
<1>2. \A w \in Widgets : Due(wi, he, w) = {}
  BY EmptyToSet DEF Due
<1>3. Queueing(wi, ap, he)
  BY <1>2, EmptyToSet DEF Queueing
<1>4. Placed(wi, ap, se)
  BY EmptyToSet DEF Placed
<1> QED
  BY <1>1, <1>3, <1>4 DEF Sending

LEMMA RestartKeeps == ASSUME IInv, Restart PROVE IInv'
<1> DEFINE Queues == UNION {ToSet(wid[w].queue) \cup ToSet(wid[w].box) : w \in Widgets}
           Helped == UNION {ToSet(helper[h].items) \cup {helper[h].cur} : h \in Widgets}
<1>1. /\ lost' = lost \cup Queues \cup Helped
      /\ wid' = [w \in Widgets |-> NewWidget(wid[w].chat, wid[w].made)] /\ helper' = [w \in Widgets |-> Off]
      /\ UNCHANGED <<kind, file, applied, sent>>
      /\ left["faults"] > 0 /\ left' = [left EXCEPT !["faults"] = @ - 1]
  <2>1. Spend("faults") => left["faults"] > 0 /\ left' = [left EXCEPT !["faults"] = @ - 1]
    BY DEF Spend
  <2> QED
    BY <2>1 DEF Restart
<1>2. TypeOK /\ Kept(wid, applied, helper, sent) /\ wid \in [Widgets -> Boxes] /\ helper \in [Widgets -> Helpers]
  BY DEF IInv, TypeOK
<1>3. \A w \in Widgets : /\ ToSet(wid[w].queue) \subseteq Ids /\ ToSet(wid[w].box) \subseteq Pieces
                         /\ ToSet(helper[w].items) \subseteq Ids /\ helper[w].cur \in Pieces
                         /\ wid[w].chat \in Places /\ wid[w].made \in SUBSET Ids
  BY <1>2 DEF Boxes, Helpers, ToSet
<1>4. Queues \cup Helped \subseteq Pieces
  BY <1>3 DEF Pieces
<1>5. \A w \in Widgets : /\ ToSet(wid[w].queue) \subseteq lost' /\ ToSet(wid[w].box) \subseteq lost'
                         /\ ToSet(helper[w].items) \subseteq lost' /\ helper[w].cur \in lost'
  BY <1>1
<1>6. lost \subseteq lost' /\ lost' \subseteq Pieces
  BY <1>1, <1>2, <1>4 DEF TypeOK
<1> HIDE DEF Queues, Helped
<1>7. /\ wid' \in [Widgets -> Boxes]
      /\ \A w \in Widgets : wid'[w].queue = <<>> /\ wid'[w].box = <<>> /\ ~wid'[w].busy
  BY <1>1, <1>3, NewIs
<1>8. /\ helper' \in [Widgets -> Helpers]
      /\ \A h \in Widgets : helper'[h].pc = "off" /\ helper'[h].cur = 0 /\ helper'[h].items = <<>>
  BY <1>1, OffIs
<1>9. TypeOK'
  <2>1. left' \in [{"faults", "steps"} -> Nat]
    BY <1>1, <1>2 DEF TypeOK
  <2> QED
    BY <1>1, <1>2, <1>6, <1>7, <1>8, <2>1 DEF TypeOK
<1>10. Numbered'
  BY <1>1, <1>6 DEF IInv, Numbered, Written
<1>11. Placed(wid, applied', sent') /\ AsAsked(applied', sent')
  BY <1>1, <1>2 DEF Kept
<1>12. /\ Claimed(helper') /\ Queueing(wid', applied', helper') /\ Placed(wid', applied', sent')
       /\ Sending(wid', applied', sent') /\ AsAsked(applied', sent')
  BY <1>7, <1>8, <1>11, Bare
<1>13. Claimed(helper)'
  BY <1>8 DEF Claimed
<1>14. /\ Queueing(wid, applied, helper)' /\ Placed(wid, applied, sent)'
       /\ Sending(wid, applied, sent)' /\ AsAsked(applied, sent)'
  BY <1>1, <1>9, <1>12, GoneStays
<1>15. Somewhere(wid, applied, helper, sent)'
  <2> SUFFICES ASSUME NEW j \in Ids, j \notin lost'
               PROVE  /\ file[j] # "taking" /\ (file[j] = "gone" => applied[j] # <<>>)
                      /\ applied[j] # <<>> /\ kind[j].text => Boxed(wid', sent, j)
    BY <1>1 DEF Somewhere, Due, Boxed
  <2>1. j \notin lost /\ \A w \in Widgets : j \notin Due(wid, helper, w) /\ helper[w].cur # j /\ j \notin ToSet(wid[w].box)
    BY <1>5, <1>6 DEF Due
  <2>2. /\ file[j] = "taking" => \E h \in Widgets : helper[h].cur = j
        /\ file[j] = "gone" => applied[j] # <<>> \/ \E w \in Widgets : j \in Due(wid, helper, w)
        /\ applied[j] # <<>> /\ kind[j].text => Boxed(wid, sent, j)
    BY <1>2, <2>1 DEF Kept, Somewhere
  <2> QED
    BY <2>1, <2>2 DEF Boxed
<1> QED
  BY <1>9, <1>10, <1>13, <1>14, <1>15 DEF IInv, Kept

-----------------------------------------------------------------------------
LEMMA InitKept == ASSUME Init PROVE IInv
<1> DEFINE c == CHOOSE c \in Chats : TRUE
<1>1. /\ kind = <<>> /\ file = [i \in Ids |-> "none"] /\ helper = [w \in Widgets |-> Off]
      /\ wid = [w \in Widgets |-> NewWidget(c, {})] /\ applied = [i \in Ids |-> <<>>] /\ sent = <<>> /\ lost = {}
      /\ left \in Budgets
  BY DEF Init
<1>2. c \in Places
  BY AskAssumption DEF Places
<1> HIDE DEF c
<1>3. left \in [{"faults", "steps"} -> Nat]
  BY <1>1, AskAssumption
<1>4. wid \in [Widgets -> Boxes] /\ \A w \in Widgets : wid[w].queue = <<>> /\ wid[w].box = <<>> /\ ~wid[w].busy
  BY <1>1, <1>2, NewIs
<1>5. /\ helper \in [Widgets -> Helpers]
      /\ \A h \in Widgets : helper[h].pc = "off" /\ helper[h].cur = 0 /\ helper[h].items = <<>>
  BY <1>1, OffIs
<1>6. kind \in Seq(Kinds) /\ sent \in Seq(Posts) /\ DOMAIN kind = {} /\ DOMAIN sent = {} /\ Len(sent) = 0
  BY <1>1
<1>7. applied \in Applieds /\ \A i \in Ids : applied[i] = <<>> /\ Len(applied[i]) <= 1
  <2>1. <<>> \in Seq(Places) /\ Len(<<>>) = 0
    OBVIOUS
  <2> QED
    BY <1>1, <2>1 DEF Applieds
<1>8. file \in [Ids -> Stages] /\ \A i \in Ids : file[i] = "none"
  BY <1>1 DEF Stages
<1>9. TypeOK
  BY <1>1, <1>3, <1>4, <1>5, <1>6, <1>7, <1>8 DEF TypeOK
<1>10. Numbered
  BY <1>6, <1>8 DEF Numbered, Written
<1>11. Placed(wid, applied, sent)
  BY <1>4, <1>6, <1>7, EmptyToSet DEF Placed
<1>12. AsAsked(applied, sent)
  BY <1>6 DEF AsAsked
<1>13. Claimed(helper) /\ Queueing(wid, applied, helper) /\ Sending(wid, applied, sent)
  BY <1>4, <1>5, <1>11, <1>12, Bare
<1>14. Somewhere(wid, applied, helper, sent)
  BY <1>7, <1>8 DEF Somewhere
<1> QED
  BY <1>9, <1>10, <1>11, <1>12, <1>13, <1>14 DEF IInv, Kept

LEMMA NextKept == ASSUME IInv, [Next]_vars PROVE IInv'
<1>1. CASE write_item
  BY <1>1, WriteKeeps
<1>2. CASE \E i \in Ids : Ages(i)
  BY <1>2, AgesKeeps
<1>3. CASE Restart
  BY <1>3, RestartKeeps
<1>4. CASE \E h \in Widgets : HelperStep(h) \/ HelperKilled(h)
  BY <1>4, ListsKeeps, ClaimKeeps, TakeKeeps, PrintedKeeps, KilledKeeps DEF HelperStep
<1>5. CASE \E w \in Widgets : WidgetStep(w) \/ (\E i \in Ids : Loaded(w, i))
  BY <1>5, WatchKeeps, TimerKeeps, LoadedKeeps DEF WidgetStep
<1>6. CASE \E w \in Used : UserStep(w)
  BY <1>6, UserKeeps, AskAssumption
<1>7. CASE UNCHANGED vars
  <2>1. TypeOK'
    BY <1>7 DEF IInv, TypeOK, vars
  <2>2. Numbered'
    BY <1>7 DEF IInv, Numbered, Written, vars
  <2>3. Kept(wid', applied', helper', sent')
    BY <1>7 DEF IInv, vars
  <2>4. UNCHANGED <<kind, file, lost>>
    BY <1>7 DEF vars
  <2> QED
    BY <2>1, <2>2, <2>3, <2>4, FilesMove DEF IInv
<1> QED
  BY <1>1, <1>2, <1>3, <1>4, <1>5, <1>6, <1>7 DEF Next

\* A watcher is a widget's.
LEMMA NextStir == ASSUME StirOK, [Next]_vars PROVE StirOK'
<1> USE DEF StirOK
<1>1. CASE write_item \/ Restart \/ UNCHANGED vars \/ \E i \in Ids : Ages(i)
  BY <1>1 DEF write_item, Changes, Restart, Ages, vars
<1>2. ASSUME NEW h \in Widgets, HelperStep(h) \/ HelperKilled(h) PROVE StirOK'
  BY <1>2 DEF HelperStep, Lists, Claim, Take, Changes, Printed, HelperKilled
<1>3. ASSUME NEW w \in Widgets, WidgetStep(w) \/ \E i \in Ids : Loaded(w, i) PROVE StirOK'
  BY <1>3 DEF WidgetStep, Watch, sendTimer, Loaded
<1>4. ASSUME NEW w \in Used, UserStep(w) PROVE StirOK'
  BY <1>4 DEF UserStep
<1> QED
  BY <1>1, <1>2, <1>3, <1>4 DEF Next

\* A set none of whose members differ has one at most.
LEMMA OneAtMost ==
    ASSUME NEW S, NEW x, x \in S, \A y \in S : y = x
    PROVE  Cardinality(S) = 1
<1>1. S = {x}
  OBVIOUS
<1> QED
  BY <1>1, FS_Singleton

LEMMA KeptIs == ASSUME IInv PROVE RequestKept
<1>1. TypeOK /\ Numbered /\ Placed(wid, applied, sent) /\ Somewhere(wid, applied, helper, sent)
  BY DEF IInv, Kept
<1>2. AppliedOnce
  BY <1>1 DEF AppliedOnce, Placed
<1>3. NothingDropped
  <2> SUFFICES ASSUME NEW i \in Ids \ lost
               PROVE  /\ file[i] \in {"taking", "stale", "gone"} => InHelper(i) \/ InQueue(i) \/ applied[i] # <<>>
                      /\ applied[i] # <<>> /\ kind[i].text =>
                            Cardinality({w \in Widgets : i \in ToSet(wid[w].box)})
                                + Cardinality({m \in 1 .. Len(sent) : i \in ToSet(sent[m].pieces)}) = 1
    BY DEF NothingDropped
  <2>1. file[i] # "stale"
    BY <1>1 DEF Numbered
  <2>2. file[i] \in {"taking", "gone"} => InHelper(i) \/ InQueue(i) \/ applied[i] # <<>>
    BY <1>1 DEF Somewhere, Due, InHelper, InQueue
  <2> DEFINE A == {w \in Widgets : i \in ToSet(wid[w].box)}
             B == {m \in 1 .. Len(sent) : i \in ToSet(sent[m].pieces)}
  <2>3. ASSUME applied[i] # <<>>, kind[i].text PROVE Cardinality(A) + Cardinality(B) = 1
    <3>1. i # 0 /\ DOMAIN sent = 1 .. Len(sent)
      BY <1>1 DEF Ids, TypeOK
    <3>2. A # {} \/ B # {}
      BY <1>1, <2>3, <3>1 DEF Somewhere, Boxed
    <3>3. ASSUME NEW w \in A PROVE B = {} /\ \A v \in A : v = w
      BY <1>1, <3>1, <3>3 DEF Placed
    <3>4. ASSUME NEW m \in B PROVE A = {} /\ \A n \in B : n = m
      BY <1>1, <3>1, <3>4 DEF Placed
    <3>5. Cardinality({}) = 0
      BY FS_EmptySet
    <3> HIDE DEF A, B
    <3>6. CASE A # {}
      <4>1. PICK w : w \in A
        BY <3>6
      <4>2. B = {} /\ Cardinality(A) = 1
        BY <3>3, <4>1, OneAtMost
      <4> QED
        BY <3>5, <4>2
    <3>7. CASE B # {}
      <4>1. PICK m : m \in B
        BY <3>7
      <4>2. A = {} /\ Cardinality(B) = 1
        BY <3>4, <4>1, OneAtMost
      <4> QED
        BY <3>5, <4>2
    <3> QED
      BY <3>2, <3>6, <3>7
  <2> QED
    BY <2>1, <2>2, <2>3
<1> QED
  BY <1>2, <1>3 DEF RequestKept

LEMMA SentIs == ASSUME IInv PROVE SentAsAsked
<1>1. TypeOK /\ AsAsked(applied, sent) /\ DOMAIN sent = 1 .. Len(sent)
  BY DEF IInv, Kept, TypeOK
<1> SUFFICES ASSUME NEW m \in 1 .. Len(sent), sent[m].by = "timer", sent[m].pieces # <<>>
             PROVE  \/ Begins(sent[m], sent[m].chat)
                    \/ /\ sent[m].pieces[1] = 0
                       /\ \E j \in 1 .. m - 1 : sent[j].by = "user" /\ Begins(sent[j], sent[m].chat)
  BY DEF SentAsAsked
<1>2. PICK i \in Ids : /\ MeantFor(applied, i, sent[m].chat)
                       /\ \/ sent[m].pieces[1] = i
                          \/ sent[m].pieces[1] = 0 /\ UserSent(sent, m - 1, i)
  BY <1>1 DEF AsAsked
<1>3. \A s : s.pieces # <<>> /\ s.pieces[1] = i => Begins(s, sent[m].chat)
  BY <1>2 DEF Begins, MeantFor, Asked, Ids
<1> QED
  BY <1>2, <1>3 DEF UserSent

\* The types of the inbox's variables.
THEOREM AsksTyped == Spec => [](TypeOK /\ StirOK)
<1>1. Init => IInv /\ StirOK
  BY InitKept DEF Init, StirOK
<1>2. IInv /\ StirOK /\ [Next]_vars => (IInv /\ StirOK)'
  BY NextKept, NextStir
<1>3. IInv => TypeOK
  BY DEF IInv
<1> QED
  BY <1>1, <1>2, <1>3, PTL DEF Spec

\* A request is put into one box, once, and nothing of it is lost but by a fault, though several widgets' helpers
\* claim from one folder.
THEOREM SpecRequestKept == Spec => []RequestKept
<1>1. Init => IInv
  BY InitKept
<1>2. IInv /\ [Next]_vars => IInv'
  BY NextKept
<1>3. IInv => RequestKept
  BY KeptIs
<1> QED
  BY <1>1, <1>2, <1>3, PTL DEF Spec

\* What the timer sends begins with a request that asked to be sent, in the chat it was meant for, or follows one that
\* the user sent themself.
THEOREM SpecSentAsAsked == Spec => []SentAsAsked
<1>1. Init => IInv
  BY InitKept
<1>2. IInv /\ [Next]_vars => IInv'
  BY NextKept
<1>3. IInv => SentAsAsked
  BY SentIs
<1> QED
  BY <1>1, <1>2, <1>3, PTL DEF Spec

=============================================================================
