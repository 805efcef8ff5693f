---------------------------- MODULE RunnerService ----------------------------
(***************************************************************************)
(* The KRunner runner (kdeaichat/krunner.py and minidbus.py's Connection): *)
(* a service the bus starts when somebody calls its name, which answers    *)
(* until a minute has passed without a call, and leaves each question in   *)
(* the ask inbox.  The bus and the callers are external.                   *)
(***************************************************************************)
EXTENDS DBusWire, FiniteSets, FiniteSetsExt

CONSTANTS
    Requests,     \* what a caller sends besides a match: [path, interface, member, sig, body, flags]
    Queries,      \* what is typed into KRunner
    PrefixWords,     \* what the settings may have as the runner's prefix
    MaxCalls,     \* calls of all callers
    MaxMessage,   \* cells of the longest message the loop reads
    Chunks,       \* cells a first recv may return of what has arrived
    MaxKills      \* kills of the service, or of its request to the bus

ASSUME ServiceAssumption == MaxCalls \in Nat /\ MaxMessage \in Nat /\ MaxKills \in Nat /\ Chunks \subseteq Nat

VARIABLES
    prefix,      \* of desktop-integration.json: what read_prefix returns
    calls,       \* what the callers have sent, in order: their serials are the indices
    answers,     \* for each call, what its caller got
    queued,      \* the bus: calls that wait until the service has its name
    wire,        \* the bus: messages to the service that it has not read to their end
    upto,  \* the service: the cells of them it has received
    owner,       \* the bus: whether the service has its name
    pc,          \* the service: "off", "hello" and "naming" in call(), "loop", "handle", "answer"
    pending,     \* the service: Connection.pending
    cur,         \* the service: the call it handles
    done,        \* the service: what its Run came to, "ok", "no" or "failed"
    fresh,       \* the service: whether its last read returned a call
    inbox,       \* the ask inbox: [text, newChat, of]
    kills        \* kills left

serviceVars == <<prefix, calls, answers, queued, wire, upto, owner, pc, pending, cur, done, fresh, inbox, kills>>

NO_REPLY_EXPECTED == 1
Caller == <<9>>
RunnerPath == <<2>>
INTERFACE_krunner1 == <<3>>
INTERFACE_Peer == <<4>>
INTERFACE_Introspectable == <<5>>
Member == [Ping |-> <<2>>, Introspect |-> <<3>>, Match |-> <<4>>, Actions |-> <<5>>, Run |-> <<6>>, Teardown |-> <<7>>]
Ask == <<20>>
NewChat == <<21>>
Space == 1
Upper == 10

-----------------------------------------------------------------------------
(* What the runner makes of a query.                                       *)

Lower(text) == [i \in 1 .. Len(text) |-> IF text[i] > Upper THEN text[i] - Upper ELSE text[i]]

Strip(text) ==
    LET solid == {i \in 1 .. Len(text) : text[i] # Space} IN
    IF solid = {} THEN <<>> ELSE SubSeq(text, Min(solid), Max(solid))

question_of(query, word) ==
    LET text == Strip(query)
        head == Append(word, Space)
    IN IF Lower(SubSeq(text, 1, Min({Len(head), Len(text)}))) # Lower(head) THEN <<>>
       ELSE Strip(SubSeq(text, Len(head) + 1, Len(text)))

\* One match: its id, the shown text, the icon, the category, the relevance and the subtext.
match(query, word) ==
    LET question == question_of(query, word) IN
    IF question = <<>> THEN <<>>
    ELSE << <<Ask \o question, question, <<>>, 100, 1, << << <<2>>, [sig |-> <<"s">>, value |-> <<>>] >> >> >> >>

Matches == <<"a", "(", "s", "s", "s", "i", "d", "a", "{", "s", "v", "}", ")">>

MatchOf(query) == [path |-> RunnerPath, interface |-> INTERFACE_krunner1, member |-> Member.Match,
                   sig |-> <<"s">>, body |-> <<query>>, flags |-> 0]
RunOf(id, action) == [path |-> RunnerPath, interface |-> INTERFACE_krunner1, member |-> Member.Run,
                      sig |-> <<"s", "s">>, body |-> <<id, action>>, flags |-> 0]

-----------------------------------------------------------------------------
(* The bus.                                                                *)

Calls == 1 .. Len(calls)
Expects(c) == calls[c].flags # NO_REPLY_EXPECTED

AsMessage(c, r) == [type |-> METHOD_CALL, flags |-> r.flags, serial |-> c, sig |-> r.sig, body |-> r.body,
                    fields |-> (PATH :> r.path) @@ (INTERFACE :> r.interface) @@ (MEMBER :> r.member) @@ (SENDER :> Caller)]

FromBus(serial, sig, body) == [type |-> METHOD_RETURN, flags |-> 0, serial |-> 0, sig |-> sig, body |-> body,
                               fields |-> REPLY_SERIAL :> serial]
Greeting == FromBus(1, <<"s">>, << <<8>> >>)
Naming == FromBus(2, <<"u">>, <<1>>)
NameAcquired == [type |-> SIGNAL, flags |-> 0, serial |-> 0, sig |-> <<"s">>, body |-> << <<2>> >>,
                 fields |-> (PATH :> <<6>>) @@ (INTERFACE :> <<6>>) @@ (MEMBER :> <<6>>)]

Answer(c, type, sig, body) ==
    [type |-> type, flags |-> NO_REPLY_EXPECTED, serial |-> 0, sig |-> sig, body |-> body,
     fields |-> (REPLY_SERIAL :> c) @@ (SENDER :> Caller)]
Returned(c, sig, body) == Answer(c, METHOD_RETURN, sig, body)
Refused(c) == Answer(c, ERROR, <<"s">>, << <<2>> >>)

Unanswered == {c \in Calls : Expects(c) /\ answers[c] = <<>>}
BusError == [by |-> "bus", type |-> ERROR, body |-> <<>>]

\* The service's connection is closed: the bus answers for it.
Ends ==
    /\ pc' = "off" /\ owner' = FALSE
    /\ queued' = <<>> /\ wire' = <<>> /\ upto' = 0 /\ pending' = <<>> /\ cur' = NoMessage
    /\ answers' = [c \in Calls |-> IF c \in Unanswered THEN <<BusError>> ELSE answers[c]]

\* A call goes to the service, waits for it, starts it, or cannot reach it.
Send(r, activatable) ==
    LET c == Len(calls) + 1 IN
    /\ c <= MaxCalls
    /\ calls' = Append(calls, r)
    /\ answers' = Append(answers, IF owner \/ pc # "off" \/ activatable \/ r.flags = NO_REPLY_EXPECTED THEN <<>> ELSE <<BusError>>)
    /\ wire' = IF owner THEN Append(wire, AsMessage(c, r)) ELSE wire
    /\ queued' = IF ~owner /\ (pc # "off" \/ activatable) THEN Append(queued, c) ELSE queued
    /\ pc' = IF pc = "off" /\ activatable THEN "hello" ELSE pc
    /\ UNCHANGED <<prefix, upto, owner, pending, cur, done, fresh, inbox, kills>>

\* The match ids KRunner has got.
Ids == {answers[c][1].body[1][1][1] : c \in {c \in Calls : calls[c].member = Member.Match /\ answers[c] # <<>>
                                                           /\ answers[c][1].type = METHOD_RETURN /\ answers[c][1].body[1] # <<>>}}

Call(activatable) ==
    \/ \E query \in Queries : Send(MatchOf(query), activatable)
    \/ \E id \in Ids, action \in {<<>>, NewChat} : Send(RunOf(id, action), activatable)
    \/ \E r \in Requests : Send(r, activatable)

\* The bus answers Hello.
BusGreets ==
    /\ pc = "hello" /\ wire = <<>>
    /\ wire' = <<Greeting>>
    /\ UNCHANGED <<prefix, upto, calls, answers, queued, owner, pc, pending, cur, done, fresh, inbox, kills>>

\* The bus gives the service its name and what has waited for it, the reply before or after that.
BusNames ==
    /\ pc = "naming" /\ ~owner
    /\ LET waiting == [i \in 1 .. Len(queued) |-> AsMessage(queued[i], calls[queued[i]])] IN
       wire' \in {<<Naming, NameAcquired>> \o waiting, Append(<<NameAcquired>> \o waiting, Naming)}
    /\ owner' = TRUE /\ queued' = <<>>
    /\ UNCHANGED <<prefix, upto, calls, answers, pc, pending, cur, done, fresh, inbox, kills>>

-----------------------------------------------------------------------------
(* The connection.                                                         *)

Questions == {question_of(query, word) : query \in Queries, word \in PrefixWords} \ {<<>>}

ToService ==
    {AsMessage(c, r) : c \in 1 .. MaxCalls, r \in Requests \cup {MatchOf(query) : query \in Queries}
                                              \cup {RunOf(Ask \o q, action) : q \in Questions, action \in {<<>>, NewChat}}}
        \cup {Greeting, Naming, NameAcquired}
ToCallers ==
    {Returned(c, <<>>, <<>>) : c \in 1 .. MaxCalls} \cup {Refused(c) : c \in 1 .. MaxCalls}
        \cup {Returned(c, Matches, <<match(query, word)>>) : c \in 1 .. MaxCalls, word \in PrefixWords,
                 query \in Queries \cup {r.body[1] : r \in {r \in Requests : r.body # <<>>}}}

\* What each message is on the socket, and what is read from that.
Encoded == [m \in ToService \cup ToCallers |-> encode(m)]
Decoded == [m \in ToService \cup ToCallers |-> decode[Encoded[m]]]

\* The cells that _read_wire takes for the next message, and the message.
Next_total == Total(Encoded[Head(wire)])
Whole == wire # <<>> /\ upto >= 16 /\ upto >= Next_total
Message == IF Next_total = Len(Encoded[Head(wire)]) THEN Decoded[Head(wire)] ELSE NoMessage
Cut == wire' = Tail(wire) /\ upto' = Max({0, upto - Next_total})

\* _fill: recv returns some of what has arrived.
Arrived == FoldLeft(LAMBDA n, m : n + Len(Encoded[m]), 0, wire)
_fill ==
    /\ pc \in {"hello", "naming", "loop"} /\ wire # <<>> /\ upto < Arrived /\ ~Whole
    /\ upto' \in {Arrived} \cup {k \in Chunks : upto = 0 /\ k < Arrived}
    /\ UNCHANGED <<prefix, calls, answers, queued, wire, owner, pc, pending, cur, done, fresh, inbox, kills>>

\* Mutant: what comes before the reply is not the caller's business.
Kept_None(m) == pending

Kept(m) == Append(pending, m)

\* call(): Hello, then RequestName; what comes before the reply is kept for read().
call ==
    /\ pc \in {"hello", "naming"} /\ Whole
    /\ \E m \in {Message}, serial \in {IF pc = "hello" THEN 1 ELSE 2} :
          \/ /\ m = NoMessage
             /\ Ends /\ UNCHANGED <<calls, fresh>>
          \/ /\ m # NoMessage
             /\ Cut
             /\ IF REPLY_SERIAL \in DOMAIN m.fields /\ m.fields[REPLY_SERIAL] = serial
                THEN /\ pc' = IF pc = "hello" THEN "naming" ELSE "loop"
                     /\ fresh' = TRUE
                     /\ UNCHANGED pending
                ELSE pending' = Kept(m) /\ UNCHANGED <<pc, fresh>>
             /\ UNCHANGED <<calls, answers, queued, owner, cur>>
    /\ UNCHANGED <<prefix, done, inbox, kills>>

\* The loop has read m.
Takes(m) ==
    IF m.type = METHOD_CALL
    THEN pc' = "handle" /\ cur' = m /\ fresh' = TRUE
    ELSE fresh' = FALSE /\ UNCHANGED <<pc, cur>>

\* read: first what call() kept, then the socket; what is malformed is skipped.
read ==
    /\ pc = "loop"
    /\ \/ pending # <<>> /\ Takes(Head(pending)) /\ pending' = Tail(pending) /\ UNCHANGED <<wire, upto>>
       \/ pending = <<>> /\ Whole /\ Next_total <= MaxMessage /\ (\E m \in {Message} : Takes(m)) /\ Cut /\ UNCHANGED pending
    /\ UNCHANGED <<prefix, calls, answers, queued, owner, done, inbox, kills>>

\* Nothing has come for a second.
ReadsNothing ==
    /\ pc = "loop" /\ pending = <<>> /\ wire = <<>>
    /\ fresh' = FALSE
    /\ UNCHANGED <<prefix, calls, answers, queued, wire, upto, owner, pc, pending, cur, done, inbox, kills>>

\* A message too large to skip, or no call for a minute: the service closes its connection.
Stops ==
    /\ pc = "loop"
    /\ \/ ~fresh
       \/ pending = <<>> /\ wire # <<>> /\ upto >= 16 /\ Next_total > MaxMessage
    /\ Ends
    /\ UNCHANGED <<prefix, calls, done, fresh, inbox, kills>>

\* The service is killed, or the bus does not answer it within ten seconds.
Killed ==
    /\ pc # "off" /\ kills > 0
    /\ kills' = kills - 1
    /\ Ends
    /\ UNCHANGED <<prefix, calls, done, fresh, inbox>>

-----------------------------------------------------------------------------
(* _handle.                                                                *)

Is(interface, member) == cur.fields[INTERFACE] = interface /\ cur.fields[MEMBER] = member
IsOurs(member) == cur.fields[PATH] = RunnerPath /\ Is(INTERFACE_krunner1, member)

\* reply and reply_error: nothing to a caller that expects nothing.
Reply(m) ==
    /\ answers' = IF cur.flags = NO_REPLY_EXPECTED THEN answers
                  ELSE LET got == Decoded[m] IN
                       [answers EXCEPT ![got.fields[REPLY_SERIAL]] = Append(@, [by |-> "service", type |-> got.type, body |-> got.body])]
    /\ pc' = "loop" /\ cur' = NoMessage
    /\ UNCHANGED <<prefix, calls, queued, wire, upto, owner, pending, done, fresh, inbox, kills>>

Runs == IsOurs(Member.Run) /\ Len(cur.body) >= 2
MatchesQuery == IsOurs(Member.Match) /\ cur.body # <<>>
Plain == Is(INTERFACE_Peer, Member.Ping) \/ Is(INTERFACE_Introspectable, Member.Introspect)
         \/ IsOurs(Member.Actions) \/ IsOurs(Member.Teardown)

Answers ==
    /\ pc = "handle"
    /\ \/ Plain /\ Reply(Returned(cur.serial, <<>>, <<>>))
       \/ MatchesQuery /\ Reply(Returned(cur.serial, Matches, <<match(cur.body[1], prefix)>>))
       \/ ~Plain /\ ~MatchesQuery /\ ~Runs /\ Reply(Refused(cur.serial))

\* Mutant: an id that is not of a match is taken for a question.
IsMatch_Any(id) == TRUE

IsMatch(id) == id # <<>> /\ id[1] = Ask[1]

\* run: the question goes into the inbox, unless it is none or cannot be written.
run ==
    /\ pc = "handle" /\ Runs
    /\ pc' = "answer"
    /\ LET id == cur.body[1]
           text == Strip(Tail(id))
       IN \/ ~IsMatch(id) /\ done' = "no" /\ UNCHANGED inbox
          \/ IsMatch(id) /\ done' = "failed" /\ UNCHANGED inbox
          \/ /\ IsMatch(id) /\ text # <<>>
             /\ done' = "ok"
             /\ inbox' = Append(inbox, [text |-> text, newChat |-> cur.body[2] = NewChat, of |-> cur.serial])
    /\ UNCHANGED <<prefix, calls, answers, queued, wire, upto, owner, pending, cur, fresh, kills>>

Failed(result) == result # "ok"

AnswersRun ==
    /\ pc = "answer"
    /\ \/ Failed(done) /\ Reply(Refused(cur.serial))
       \/ ~Failed(done) /\ Reply(Returned(cur.serial, <<>>, <<>>))

-----------------------------------------------------------------------------
ServiceInit ==
    /\ prefix \in PrefixWords
    /\ calls = <<>> /\ answers = <<>> /\ queued = <<>> /\ wire = <<>> /\ upto = 0
    /\ owner = FALSE
    /\ pc = "off" /\ pending = <<>> /\ cur = NoMessage /\ done = "ok" /\ fresh = TRUE
    /\ inbox = <<>> /\ kills = MaxKills

ServiceStep == _fill \/ call \/ read \/ ReadsNothing \/ Stops \/ Killed \/ Answers \/ run \/ AnswersRun

BusStep == BusGreets \/ BusNames

-----------------------------------------------------------------------------
\* A call the service can read: its body has no type that minidbus.py lacks.
Readable(c) == \A i \in 1 .. Len(calls[c].sig) : calls[c].sig[i] # "h"

\* serve (krunner.py:125), call (minidbus.py:336): a service that has read all there is has answered every
\* call, those too that came while it asked for its name, were split by the socket or followed a bad one.
NoneSwallowed ==
    pc = "loop" /\ pending = <<>> /\ wire = <<>> =>
        \A c \in Calls : Expects(c) /\ Readable(c) => answers[c] # <<>>

\* _handle (krunner.py:99-122): a caller gets one answer, from the service or from the bus, and an answer
\* to Run says whether its one request is in the inbox; only a killed service leaves one it did not report.
AnsweredTruly ==
    \A c \in Calls :
        LET left == Cardinality({i \in 1 .. Len(inbox) : inbox[i].of = c}) IN
        /\ Len(answers[c]) <= (IF Expects(c) THEN 1 ELSE 0)
        /\ left <= 1
        /\ answers[c] # <<>> /\ calls[c].member = Member.Run =>
              (answers[c][1].by = "service" => (answers[c][1].type = METHOD_RETURN <=> left = 1))
        /\ left = 1 /\ Expects(c) /\ answers[c] # <<>> /\ answers[c][1].by = "bus" => kills < MaxKills

\* What a caller of the runner can rely on.
CallersServed == NoneSwallowed /\ AnsweredTruly

\* match and run (krunner.py:69-96): what is left for the widget is what somebody typed after the prefix,
\* with no blanks around it, whatever the messages in between looked like.
QuestionAsTyped ==
    \A i \in 1 .. Len(inbox) :
        \E c \in Calls, word \in PrefixWords, before, between, after \in {<<>>, <<Space>>} :
            /\ calls[c].member = Member.Match
            /\ Lower(calls[c].body[1]) = Lower(before \o word \o <<Space>> \o between \o inbox[i].text \o after)
            /\ inbox[i].text[1] # Space

=============================================================================
