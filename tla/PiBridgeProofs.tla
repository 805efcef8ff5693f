---------------------------- MODULE PiBridgeProofs ----------------------------
(***************************************************************************)
(* PiBridge never has two prompts on their way to one Pi, and retires only *)
(* idle ones, for any attempts, Pi processes, settings and turns.          *)
(***************************************************************************)
EXTENDS PiBridge, SequenceTheorems, TLAPS

\* No end of a run that Pi has told waits for the reader; nor a beginning.
NoEnd(a) == \A i \in 1 .. Len(pi[a].out) : pi[a].out[i] \notin Ends
Silent(a) == NoEnd(a) /\ \A i \in 1 .. Len(pi[a].out) : pi[a].out[i] # "start"

\* What a thread, Pi's input, its run and its output have of prompts.
UnderWay(a) ==
    /\ ~pi[a].running => /\ pi[a].prompts = 0 /\ ~pi[a].working /\ Silent(a)
                         /\ \A c \in Clients : ~Sending(a, c)
    /\ pi[a].prompts <= 1
    /\ pi[a].prompts = 1 => ~pi[a].working /\ NoEnd(a)
    /\ pi[a].working => NoEnd(a)
    /\ \A c \in Clients : Sending(a, c) =>
          /\ pi[a].prompts = 0 /\ ~pi[a].working /\ Silent(a)
          /\ \A d \in Clients : Sending(a, d) => d = c
    /\ \A i, j \in 1 .. Len(pi[a].out) :
          i < j /\ pi[a].out[i] \in Ends => pi[a].out[j] \notin Ends \cup {"start"}

Alive(a) == pi[a].pc \in {"up", "dead"}

\* Nobody has a Pi process that was never started.
Unborn(a) == pi[a].pc = "none" => agent # a /\ a \notin doomed /\ \A c \in Clients : client[c].mine # a

\* An attempt with its threads: they have a Pi while they stop or prompt one, the one for the prompt
\* begins with the answer to the stream, the watchdog's ends the attempt.
Attempt == {r \in ClientType :
    /\ r.post \in {"stop", "send"} <=> r.mine # None
    /\ r.close \in {"pop", "stop"} <=> r.target # None
    /\ r.pc \in {"new", "opening"} => r.post = "none"
    /\ r.pc # "done" => r.close = "none"}

\* The inductive invariant.
IInv ==
    /\ server \in {"down", "up", "ending"} /\ turns \in Nat
    /\ agent \in Pis \cup {None} /\ doomed \subseteq Pis
    /\ agent # None => Alive(agent)
    /\ pi \in [Pis -> PiType]
    /\ client \in [Clients -> Attempt]
    /\ \A a \in Pis : (Alive(a) => UnderWay(a)) /\ Unborn(a)
    /\ OnlyIdleRetired
    /\ server = "down" => doomed = {}

-----------------------------------------------------------------------------
(* Lemmas.                                                                 *)

\* Lines are appended to what is read, and taken from it.
LEMMA LinesTyped ==
    /\ <<>> \in Queue /\ <<>> \in Output
    /\ \A q \in Queue, l \in Lines \cup {"exit"} : Append(q, l) \in Queue
    /\ \A q \in Queue : q # <<>> => Head(q) \in Lines \cup {"exit"} /\ Tail(q) \in Queue
    /\ \A o \in Output, l \in Lines : Append(o, l) \in Output
    /\ \A o \in Output : o # <<>> => Head(o) \in Lines /\ Tail(o) \in Output
BY DEF Queue, Output

\* A step that starts no Pi process, prompts none and takes none for idle: what it does to agents and
\* to those that are to be stopped,
AgentCalm ==
    /\ (server \in {"down", "up", "ending"} /\ turns \in Nat)'
    /\ (agent \in Pis \cup {None} /\ doomed \subseteq Pis)'
    /\ agent' \in {agent, None} /\ (agent # None => Alive(agent))'
    /\ doomed' \subseteq doomed \cup {agent}
    /\ server' = "up" => doomed' \subseteq doomed /\ (server = "up" \/ doomed = {})
    /\ server' = "down" => doomed' = {}

\* to the attempts, and to a Pi process.
Lasting(r, was) ==
    /\ r.mine \in {was.mine, None}
    /\ r.post \in {"stop", "send"} => r.post = was.post /\ r.mine = was.mine

Fading(p, was) ==
    /\ p.pc = "none" => was.pc = "none"
    /\ p.pc = "up" => was.pc = "up"
    /\ p.pc \in {"up", "dead"} => /\ was.pc \in {"up", "dead"} /\ p.running = was.running /\ p.out = was.out
                                  /\ p.prompts \in {was.prompts, 0} /\ p.working \in {was.working, FALSE}

ClientCalm == client' \in [Clients -> Attempt] /\ \A c \in Clients : Lasting(client'[c], client[c])
PiCalm == pi' \in [Pis -> PiType] /\ \A a \in Pis : Fading(pi'[a], pi[a])

LEMMA CalmKeeps ==
    ASSUME IInv, AgentCalm, ClientCalm, PiCalm
    PROVE  IInv'
<1>. USE BridgeAssumption DEF BridgeAssumption
<1>1. /\ agent \in Pis \cup {None} /\ doomed \subseteq Pis /\ (agent # None => Alive(agent))
      /\ pi \in [Pis -> PiType] /\ client \in [Clients -> Attempt]
      /\ \A a \in Pis : (Alive(a) => UnderWay(a)) /\ Unborn(a)
      /\ OnlyIdleRetired /\ (server = "down" => doomed = {})
  BY DEF IInv
<1>2. \A a \in Pis, c \in Clients : Sending(a, c)' => Sending(a, c)
  BY DEF ClientCalm, Lasting, Sending
<1>3. ASSUME NEW a \in Pis, Alive(a)' PROVE UnderWay(a)'
  <2>1. /\ Alive(a) /\ UnderWay(a) /\ pi'[a].running = pi[a].running /\ pi'[a].out = pi[a].out
        /\ pi'[a].prompts \in {pi[a].prompts, 0} /\ pi'[a].working \in {pi[a].working, FALSE}
    BY <1>1, <1>3 DEF PiCalm, Fading, Alive
  <2>2. (NoEnd(a)' <=> NoEnd(a)) /\ (Silent(a)' <=> Silent(a))
    BY <2>1 DEF NoEnd, Silent
  <2>3. /\ pi'[a].prompts <= 1 /\ (pi'[a].prompts = 1 => pi[a].prompts = 1)
        /\ (pi[a].prompts = 0 => pi'[a].prompts = 0) /\ (pi'[a].working => pi[a].working)
    <3>1. pi[a].prompts \in Nat /\ pi[a].working \in BOOLEAN /\ pi[a].prompts <= 1
      BY <1>1, <2>1 DEF PiType, UnderWay
    <3>2. /\ pi'[a].prompts <= 1 /\ (pi'[a].prompts = 1 => pi[a].prompts = 1)
          /\ (pi[a].prompts = 0 => pi'[a].prompts = 0)
      BY <2>1, <3>1
    <3>3. pi'[a].working => pi[a].working
      BY <2>1, <3>1
    <3>. QED BY <3>2, <3>3
  <2>4. \A i, j \in 1 .. Len(pi'[a].out) :
          i < j /\ pi'[a].out[i] \in Ends => pi'[a].out[j] \notin Ends \cup {"start"}
    BY <2>1 DEF UnderWay
  <2>. QED BY <1>2, <2>1, <2>2, <2>3, <2>4 DEF UnderWay
<1>4. ASSUME NEW a \in Pis, pi'[a].pc = "none" PROVE agent' # a /\ a \notin doomed' /\ \A c \in Clients : client'[c].mine # a
  <2>1. Unborn(a) /\ pi[a].pc = "none" /\ a # None /\ agent # a
    BY <1>1, <1>4 DEF PiCalm, Fading, Unborn
  <2>2. a \notin doomed' /\ agent' # a
    BY <2>1 DEF AgentCalm, Unborn
  <2>3. ASSUME NEW c \in Clients PROVE client'[c].mine # a
    BY <2>1, <2>3 DEF ClientCalm, Lasting, Unborn
  <2>. QED BY <2>2, <2>3
<1>5. OnlyIdleRetired'
  <2>1. \A a \in Pis : Retired(a)' => Retired(a)
    BY <1>1 DEF AgentCalm, ClientCalm, Lasting, Retired
  <2>2. ASSUME NEW a \in Pis, Retired(a)'
        PROVE  /\ agent' # a
               /\ Up(a)' => ~pi'[a].running /\ pi'[a].prompts = 0 /\ ~pi'[a].working
               /\ \A c \in Clients : ~Sending(a, c)'
    BY <1>1, <1>2, <2>1, <2>2 DEF OnlyIdleRetired, AgentCalm, PiCalm, Fading, Alive, Up
  <2>. QED BY <2>2 DEF OnlyIdleRetired
<1>. QED BY <1>3, <1>4, <1>5 DEF IInv, AgentCalm, ClientCalm, PiCalm, Unborn

\* A step of one attempt, and one of a Pi process, is calm if that of its record is.
LEMMA OneCalm ==
    ASSUME client \in [Clients -> Attempt], pi \in [Pis -> PiType]
    PROVE  /\ UNCHANGED client => ClientCalm
           /\ UNCHANGED pi => PiCalm
           /\ \A c \in Clients, r \in Attempt :
                client' = [client EXCEPT ![c] = r] /\ Lasting(r, client[c]) => ClientCalm
           /\ \A a \in Pis, p \in PiType :
                pi' = [pi EXCEPT ![a] = p] /\ Fading(p, pi[a]) => PiCalm
<1>1. /\ \A r : Lasting(r, r)
      /\ \A p \in PiType : Fading(p, p)
  BY DEF Lasting, Fading, PiType
<1>2. UNCHANGED client => ClientCalm
  BY <1>1 DEF ClientCalm
<1>3. UNCHANGED pi => PiCalm
  BY <1>1 DEF PiCalm
<1>4. \A c \in Clients, r \in Attempt :
        client' = [client EXCEPT ![c] = r] /\ Lasting(r, client[c]) => ClientCalm
  BY <1>1 DEF ClientCalm
<1>5. \A a \in Pis, p \in PiType : pi' = [pi EXCEPT ![a] = p] /\ Fading(p, pi[a]) => PiCalm
  BY <1>1 DEF PiCalm
<1>. QED BY <1>2, <1>3, <1>4, <1>5

\* An attempt that is over keeps its threads.
LEMMA DoneCalm ==
    ASSUME client \in [Clients -> Attempt], NEW c \in Clients
    PROVE  /\ client' = Done(c) => ClientCalm
           /\ client' = [Done(c) EXCEPT ![c].abort = TRUE] => ClientCalm
           /\ client' = [Done(c) EXCEPT ![c].close = "fetch"] /\ client[c].close = "none" => ClientCalm
<1>. DEFINE r == [client[c] EXCEPT !.pc = "done", !.queue = <<>>, !.seen = None, !.got = FALSE]
<1>1. Done(c) = [client EXCEPT ![c] = r]
  BY DEF Done, Attempt, ClientType
<1>2. r \in ClientType /\ r.pc = "done"
  BY LinesTyped DEF Attempt, ClientType
<1>3. r.post = client[c].post /\ r.mine = client[c].mine /\ r.close = client[c].close /\ r.target = client[c].target
  BY DEF Attempt, ClientType
<1>4. r \in Attempt /\ Lasting(r, client[c])
  BY <1>2, <1>3 DEF Attempt, Lasting
<1>5. [r EXCEPT !.abort = TRUE] \in Attempt /\ Lasting([r EXCEPT !.abort = TRUE], client[c])
  BY <1>4 DEF Attempt, ClientType, Lasting
<1>6. client[c].close = "none" =>
        [r EXCEPT !.close = "fetch"] \in Attempt /\ Lasting([r EXCEPT !.close = "fetch"], client[c])
  BY <1>2, <1>3, <1>4 DEF Attempt, ClientType, Lasting
<1>. HIDE DEF r
<1>7. /\ [Done(c) EXCEPT ![c].abort = TRUE] = [client EXCEPT ![c] = [r EXCEPT !.abort = TRUE]]
      /\ [Done(c) EXCEPT ![c].close = "fetch"] = [client EXCEPT ![c] = [r EXCEPT !.close = "fetch"]]
  BY <1>1, <1>4
<1>. QED BY <1>1, <1>4, <1>5, <1>6, <1>7 DEF ClientCalm, Lasting

\* A line reaches the queues of the attempts that read.
LEMMA DeliveredCalm ==
    ASSUME client \in [Clients -> Attempt], NEW line \in Lines \cup {"exit"}, client' = Delivered(line)
    PROVE  ClientCalm
<1>1. ASSUME NEW r \in Attempt
      PROVE  [r EXCEPT !.queue = Append(@, line)] \in Attempt /\ Lasting([r EXCEPT !.queue = Append(@, line)], r)
  <2>1. r.queue \in Queue
    BY DEF Attempt, ClientType
  <2>2. PICK q \in Queue : q = Append(r.queue, line)
    BY <2>1, LinesTyped
  <2>3. [r EXCEPT !.queue = q] \in Attempt /\ Lasting([r EXCEPT !.queue = q], r)
    BY DEF Attempt, ClientType, Lasting
  <2>. QED BY <2>2, <2>3
<1>2. \A r \in Attempt : Lasting(r, r)
  BY DEF Lasting
<1>. QED BY <1>1, <1>2 DEF Delivered, ClientCalm

\* stop() changes nothing of what is under way,
LEMMA SignalledCalm ==
    ASSUME pi \in [Pis -> PiType], NEW a \in Pis, NEW quiet \in BOOLEAN
    PROVE  /\ pi' = Signalled(a, quiet) => PiCalm
           /\ Signalled(a, quiet) \in [Pis -> PiType]
           /\ \A b \in Pis : b # a => Signalled(a, quiet)[b] = pi[b]
           /\ Signalled(a, quiet)[a].pc = pi[a].pc
<1>1. ASSUME NEW t \in BOOLEAN
      PROVE  /\ [pi EXCEPT ![a].quiet = quiet, ![a].term = t] = [pi EXCEPT ![a] = [pi[a] EXCEPT !.quiet = quiet, !.term = t]]
             /\ [pi[a] EXCEPT !.quiet = quiet, !.term = t] \in PiType
             /\ Fading([pi[a] EXCEPT !.quiet = quiet, !.term = t], pi[a])
             /\ [pi[a] EXCEPT !.quiet = quiet, !.term = t].pc = pi[a].pc
  BY DEF PiType, Fading
<1>2. Up(a) \in BOOLEAN /\ \A p \in PiType : Fading(p, p)
  BY DEF Up, Fading, PiType
<1>3. pi[a].pc # "gone" => Signalled(a, quiet) = [pi EXCEPT ![a] = [pi[a] EXCEPT !.quiet = quiet, !.term = Up(a)]]
  BY <1>1, <1>2 DEF Signalled
<1>4. pi[a].pc = "gone" => Signalled(a, quiet) = pi
  BY DEF Signalled
<1>. QED BY <1>1, <1>2, <1>3, <1>4 DEF PiCalm

\* nor do an answer or an abort on their way to it.
LEMMA CommandCalm ==
    ASSUME pi \in [Pis -> PiType], NEW a \in Pis
    PROVE  /\ \A n \in Nat : pi' \in {[pi EXCEPT ![a].answers = n], [pi EXCEPT ![a].aborts = n],
                                [pi EXCEPT ![a].answers = n, ![a].asking = FALSE]} => PiCalm
           /\ {pi[a].answers + 1, pi[a].aborts + 1} \subseteq Nat
           /\ pi[a].answers > 0 => pi[a].answers - 1 \in Nat
<1>1. ASSUME NEW n \in Nat, NEW r \in {[pi[a] EXCEPT !.answers = n], [pi[a] EXCEPT !.aborts = n],
                        [pi[a] EXCEPT !.answers = n, !.asking = FALSE]}, pi' = [pi EXCEPT ![a] = r]
      PROVE  PiCalm
  <2>1. r \in PiType /\ Fading(r, pi[a]) /\ \A p \in PiType : Fading(p, p)
    BY DEF PiType, Fading
  <2>. QED BY <1>1, <2>1 DEF PiCalm
<1>2. ASSUME NEW n \in Nat
      PROVE  /\ [pi EXCEPT ![a].answers = n] = [pi EXCEPT ![a] = [pi[a] EXCEPT !.answers = n]]
             /\ [pi EXCEPT ![a].aborts = n] = [pi EXCEPT ![a] = [pi[a] EXCEPT !.aborts = n]]
             /\ [pi EXCEPT ![a].answers = n, ![a].asking = FALSE]
                    = [pi EXCEPT ![a] = [pi[a] EXCEPT !.answers = n, !.asking = FALSE]]
  BY DEF PiType
<1>3. pi[a].answers \in Nat /\ pi[a].aborts \in Nat
  BY DEF PiType
<1>4. {pi[a].answers + 1, pi[a].aborts + 1} \subseteq Nat /\ (pi[a].answers > 0 => pi[a].answers - 1 \in Nat)
  BY <1>3
<1>. QED BY <1>1, <1>2, <1>4

\* What the threads of an attempt change of it.
LEMMA AttemptEdited ==
    ASSUME NEW x \in Attempt, NEW q \in Queue, NEW k \in Keys, NEW a \in Pis \cup {None}
    PROVE  /\ x.pc = "new" => [x EXCEPT !.pc = "opening", !.key = k, !.seen = a] \in {r \in Attempt : Lasting(r, x)}
           /\ [x EXCEPT !.queue = q, !.got = TRUE] \in {r \in Attempt : Lasting(r, x)}
           /\ [x EXCEPT !.abort = FALSE] \in {r \in Attempt : Lasting(r, x)}
           /\ x.post = "stop" => [x EXCEPT !.post = "start", !.mine = None] \in {r \in Attempt : Lasting(r, x)}
           /\ x.close = "fetch" =>
                [x EXCEPT !.close = IF a = None THEN "none" ELSE "pop", !.target = a] \in {r \in Attempt : Lasting(r, x)}
           /\ x.close = "pop" => [x EXCEPT !.close = "stop"] \in {r \in Attempt : Lasting(r, x)}
           /\ x.close = "stop" => [x EXCEPT !.close = "none", !.target = None] \in {r \in Attempt : Lasting(r, x)}
<1>. USE BridgeAssumption DEF BridgeAssumption, Attempt, ClientType, Lasting
<1>1. x.pc = "new" => [x EXCEPT !.pc = "opening", !.key = k, !.seen = a] \in {r \in Attempt : Lasting(r, x)}
  OBVIOUS
<1>2. [x EXCEPT !.queue = q, !.got = TRUE] \in {r \in Attempt : Lasting(r, x)}
  OBVIOUS
<1>3. [x EXCEPT !.abort = FALSE] \in {r \in Attempt : Lasting(r, x)}
  OBVIOUS
<1>4. x.post = "stop" => [x EXCEPT !.post = "start", !.mine = None] \in {r \in Attempt : Lasting(r, x)}
  OBVIOUS
<1>5. x.close = "fetch" =>
        [x EXCEPT !.close = IF a = None THEN "none" ELSE "pop", !.target = a] \in {r \in Attempt : Lasting(r, x)}
  <2>1. ASSUME x.close = "fetch", NEW l \in {"none", "pop"}, l = "none" <=> a = None
        PROVE  [x EXCEPT !.close = l, !.target = a] \in {r \in Attempt : Lasting(r, x)}
    BY <2>1
  <2>. QED BY <2>1
<1>6. x.close = "pop" => [x EXCEPT !.close = "stop"] \in {r \in Attempt : Lasting(r, x)}
  OBVIOUS
<1>7. x.close = "stop" => [x EXCEPT !.close = "none", !.target = None] \in {r \in Attempt : Lasting(r, x)}
  OBVIOUS
<1>. QED BY <1>1, <1>2, <1>3, <1>4, <1>5, <1>6, <1>7

\* What is appended to the output of Pi comes last, and what is taken from it was first.
LEMMA OutputEdited ==
    ASSUME NEW o \in Output
    PROVE  /\ \A l \in Lines : /\ Len(Append(o, l)) = Len(o) + 1
                               /\ Append(o, l)[Len(o) + 1] = l
                               /\ \A i \in 1 .. Len(o) : Append(o, l)[i] = o[i]
           /\ o # <<>> => /\ Len(Tail(o)) = Len(o) - 1 /\ Len(o) \in Nat \ {0} /\ Head(o) = o[1]
                          /\ \A i \in 1 .. Len(Tail(o)) : Tail(o)[i] = o[i + 1]
           /\ Len(o) \in Nat /\ \A i \in 1 .. Len(o) : o[i] \in Lines
BY DEF Output

\* A step of one Pi process keeps the invariant if it keeps what is under way there, and it is not one
\* that is retired.
LEMMA PiKeeps ==
    ASSUME IInv, UNCHANGED <<server, agent, client, doomed>>, turns' \in Nat,
           NEW a \in Pis, NEW p \in PiType, pi' = [pi EXCEPT ![a] = p], p.pc = pi[a].pc,
           Alive(a) => UnderWay(a)',
           Retired(a) /\ Up(a) => ~p.running /\ p.prompts = 0 /\ ~p.working
    PROVE  IInv'
<1>. USE BridgeAssumption DEF BridgeAssumption
<1>1. pi \in [Pis -> PiType]
  BY DEF IInv
<1>2. pi' \in [Pis -> PiType] /\ \A b \in Pis : pi'[b].pc = pi[b].pc /\ (b # a => pi'[b] = pi[b]) /\ pi'[a] = p
  BY <1>1
<1>3. \A b \in Pis : (Alive(b) => UnderWay(b))'
  BY <1>2 DEF IInv, Alive, UnderWay, NoEnd, Silent, Sending
<1>4. \A b \in Pis : Unborn(b)'
  BY <1>2 DEF IInv, Unborn
<1>5. OnlyIdleRetired'
  BY <1>2 DEF IInv, OnlyIdleRetired, Retired, Up, Sending
<1>6. (agent # None => Alive(agent))'
  BY <1>2 DEF IInv, Alive
<1>. QED BY <1>2, <1>3, <1>4, <1>5, <1>6 DEF IInv

LEMMA HandleLineKeeps ==
    ASSUME IInv, NEW a \in Pis, _handle_line(a)
    PROVE  IInv'
<1>1. pi[a] \in PiType /\ pi[a].out \in Output /\ pi[a].out # <<>>
  BY DEF IInv, PiType, _handle_line
<1>2. PICK o \in Output, l \in Lines : o = Tail(pi[a].out) /\ l = Head(pi[a].out)
  BY <1>1, LinesTyped
<1>3. PICK r \in BOOLEAN : r = RunsAfter(l, pi[a].running)
  BY <1>1 DEF RunsAfter, PiType
<1>. DEFINE p == [pi[a] EXCEPT !.line = l, !.out = o, !.running = r]
<1>4. pi' = [pi EXCEPT ![a] = p]
  BY <1>2, <1>3 DEF _handle_line, IInv, PiType
<1>5. p \in PiType
  BY <1>1, <1>2, <1>3 DEF PiType
<1>6. /\ p.pc = pi[a].pc /\ p.running = r /\ p.out = o /\ p.prompts = pi[a].prompts /\ p.working = pi[a].working
  BY <1>1 DEF PiType
<1>. HIDE DEF p
<1>7. pi'[a] = p /\ UNCHANGED client
  BY <1>4 DEF IInv, _handle_line
<1>8. Len(o) \in Nat /\ Len(pi[a].out) = Len(o) + 1 /\ l = pi[a].out[1] /\ \A i \in 1 .. Len(o) : o[i] = pi[a].out[i + 1]
  BY <1>1, <1>2, OutputEdited
<1>12. /\ \A i \in 1 .. Len(o) : i + 1 \in 1 .. Len(pi[a].out) /\ o[i] = pi[a].out[i + 1]
       /\ \A i, j \in 1 .. Len(o) : i < j => i + 1 < j + 1
  BY <1>8
<1>9. ASSUME UnderWay(a) PROVE UnderWay(a)'
  <2>1. NoEnd(a) => NoEnd(a)'
    BY <1>6, <1>7, <1>8 DEF NoEnd
  <2>2. Silent(a) => Silent(a)'
    BY <1>6, <1>7, <1>12, <2>1 DEF Silent
  <2>3. l \in Ends => Silent(a)'
    <3>1. ASSUME l \in Ends, NEW i \in 1 .. Len(o) PROVE o[i] \notin Ends \cup {"start"}
      <4>1. 1 \in 1 .. Len(pi[a].out) /\ 1 < i + 1
        BY <1>8
      <4>. QED BY <1>8, <1>9, <1>12, <3>1, <4>1 DEF UnderWay
    <3>. QED BY <1>6, <1>7, <3>1 DEF Silent, NoEnd
  <2>4. \A c \in Clients : Sending(a, c)' <=> Sending(a, c)
    BY <1>7 DEF Sending
  <2>5. ~r => pi[a].prompts = 0 /\ ~pi[a].working /\ Silent(a)' /\ \A c \in Clients : ~Sending(a, c)
    <3>1. CASE pi[a].running
      <4>1. ~r => l \in Ends
        BY <1>3, <3>1 DEF RunsAfter
      <4>2. l \in Ends => ~NoEnd(a)
        BY <1>8 DEF NoEnd
      <4>3. l \in Ends => pi[a].prompts = 0 /\ ~pi[a].working /\ \A c \in Clients : ~Sending(a, c)
        BY <4>2, <1>1, <1>9 DEF UnderWay, Silent, PiType
      <4>. QED BY <4>1, <4>3, <2>3
    <3>2. CASE ~pi[a].running
      BY <3>2, <1>9, <2>2 DEF UnderWay
    <3>. QED BY <3>1, <3>2
  <2>6. \A i, j \in 1 .. Len(o) : i < j /\ o[i] \in Ends => o[j] \notin Ends \cup {"start"}
    BY <1>12, <1>9 DEF UnderWay
  <2>7. /\ pi[a].prompts <= 1
        /\ pi[a].prompts = 1 => ~pi[a].working /\ NoEnd(a)'
        /\ pi[a].working => NoEnd(a)'
    BY <1>9, <2>1 DEF UnderWay
  <2>8. \A c \in Clients : Sending(a, c) =>
          /\ pi[a].prompts = 0 /\ ~pi[a].working /\ Silent(a)'
          /\ \A d \in Clients : Sending(a, d) => d = c
    BY <1>9, <2>2 DEF UnderWay
  <2>. QED BY <1>6, <1>7, <2>4, <2>5, <2>6, <2>7, <2>8 DEF UnderWay
<1>10. Retired(a) /\ Up(a) => ~p.running /\ p.prompts = 0 /\ ~p.working
  <2>1. ASSUME Retired(a), Up(a) PROVE ~p.running /\ p.prompts = 0 /\ ~p.working
    <3>1. ~pi[a].running /\ pi[a].prompts = 0 /\ ~pi[a].working /\ Silent(a)
      BY <2>1 DEF IInv, OnlyIdleRetired, UnderWay, Alive, Up
    <3>2. l # "start"
      BY <3>1, <1>8 DEF Silent
    <3>. QED BY <3>1, <3>2, <1>3, <1>6 DEF RunsAfter
  <2>. QED BY <2>1
<1>11. Alive(a) => UnderWay(a)'
  BY <1>9 DEF IInv
<1>. QED BY <1>4, <1>5, <1>6, <1>10, <1>11, PiKeeps DEF _handle_line, IInv

\* While Pi has a prompt or a run, none is about to be written, and it has not told an end.
LEMMA BusyAlone ==
    ASSUME IInv, NEW a \in Pis, Up(a), pi[a].prompts > 0 \/ pi[a].working
    PROVE  /\ pi[a].running /\ NoEnd(a) /\ pi[a].prompts \in {0, 1} /\ (pi[a].working => pi[a].prompts = 0)
           /\ \A c \in Clients : ~Sending(a, c)
           /\ ~Retired(a)
           /\ pi[a] \in PiType /\ pi[a].out \in Output
<1>1. UnderWay(a) /\ pi[a] \in PiType /\ pi[a].prompts \in Nat /\ pi[a].out \in Output
  BY DEF IInv, PiType, Alive, Up
<1>2. pi[a].running
  BY <1>1 DEF UnderWay
<1>3. pi[a].prompts \in {0, 1}
  BY <1>1 DEF UnderWay
<1>4. NoEnd(a) /\ (pi[a].working => pi[a].prompts = 0) /\ \A c \in Clients : ~Sending(a, c)
  BY <1>1, <1>3 DEF UnderWay
<1>5. ~Retired(a)
  BY <1>2 DEF IInv, OnlyIdleRetired
<1>. QED BY <1>1, <1>2, <1>3, <1>4, <1>5

\* What it then says of its run keeps the invariant.
LEMMA SaysKeeps ==
    ASSUME IInv, NEW a \in Pis, Up(a), pi[a].prompts > 0 \/ pi[a].working,
           UNCHANGED <<server, agent, client, doomed>>, turns' \in Nat,
           NEW l \in Lines, NEW p \in PiType, pi' = [pi EXCEPT ![a] = p],
           p.pc = pi[a].pc, p.running = pi[a].running, p.out = Append(pi[a].out, l), p.prompts = 0,
           p.working => l \notin Ends
    PROVE  IInv'
<1>1. /\ pi[a].running /\ NoEnd(a) /\ \A c \in Clients : ~Sending(a, c)
      /\ ~Retired(a) /\ pi[a].out \in Output /\ pi'[a] = p
  BY BusyAlone DEF IInv
<1>. DEFINE o == pi[a].out
<1>2. /\ Len(o) \in Nat /\ Len(p.out) = Len(o) + 1 /\ p.out[Len(o) + 1] = l
      /\ \A i \in 1 .. Len(o) : p.out[i] = o[i] /\ o[i] \notin Ends
  BY <1>1, OutputEdited DEF NoEnd
<1>. HIDE DEF o
<1>3. \A i \in 1 .. Len(p.out) : i = Len(o) + 1 \/ (i \in 1 .. Len(o) /\ i < Len(o) + 1)
  BY <1>2
<1>4. p.working => NoEnd(a)'
  BY <1>1, <1>2, <1>3 DEF NoEnd
<1>5. \A i, j \in 1 .. Len(p.out) : i < j /\ p.out[i] \in Ends => p.out[j] \notin Ends \cup {"start"}
  <2>1. \A i, j \in 1 .. Len(p.out) : i < j => i # Len(o) + 1
    BY <1>2
  <2>. QED BY <1>2, <1>3, <2>1
<1>6. \A c \in Clients : ~Sending(a, c)'
  BY <1>1 DEF Sending
<1>7. UnderWay(a)'
  <2>1. pi'[a].running /\ pi'[a].prompts = 0 /\ (pi'[a].working => NoEnd(a)')
    BY <1>1, <1>4
  <2>2. \A i, j \in 1 .. Len(pi'[a].out) :
          i < j /\ pi'[a].out[i] \in Ends => pi'[a].out[j] \notin Ends \cup {"start"}
    BY <1>1, <1>5
  <2>. QED BY <1>6, <2>1, <2>2 DEF UnderWay
<1>. QED BY <1>1, <1>7, PiKeeps

LEMMA PiTakesKeeps ==
    ASSUME IInv, NEW a \in Pis, PiTakes(a)
    PROVE  IInv'
<1>1. /\ pi \in [Pis -> PiType] /\ Up(a) /\ pi[a].prompts > 0 /\ UNCHANGED <<server, agent, client, doomed>> /\ turns' \in Nat
  BY DEF IInv, PiTakes, OutOfTurn
<1>2. /\ pi[a].running /\ NoEnd(a) /\ pi[a].prompts = 1 /\ ~pi[a].working
      /\ \A c \in Clients : ~Sending(a, c)
      /\ ~Retired(a) /\ pi[a] \in PiType /\ pi[a].out \in Output
  BY <1>1, BusyAlone DEF PiType
<1>3. PICK n \in Nat : n = pi[a].prompts - 1 /\ n = 0
  BY <1>2
<1>4. ASSUME NEW l \in {"start", "refused"}, NEW w \in BOOLEAN, w => l = "start",
             pi' = [pi EXCEPT ![a].out = Append(@, l), ![a].prompts = n, ![a].working = w]
      PROVE  IInv'
  <2>1. PICK o \in Output : o = Append(pi[a].out, l)
    BY <1>2, LinesTyped DEF Lines, Ends
  <2>. DEFINE p == [pi[a] EXCEPT !.out = o, !.prompts = n, !.working = w]
  <2>2. pi' = [pi EXCEPT ![a] = p]
    BY <1>1, <1>4, <2>1 DEF PiType
  <2>3. p \in PiType
    BY <1>2 DEF PiType
  <2>4. p.pc = pi[a].pc /\ p.running = pi[a].running /\ p.out = o /\ p.prompts = n /\ p.working = w
    BY <1>2 DEF PiType
  <2>. HIDE DEF p
  <2>5. w => l \notin Ends
    BY <1>4 DEF Ends
  <2>6. l \in Lines
    BY DEF Lines, Ends
  <2>. QED BY <1>1, <1>3, <2>1, <2>2, <2>3, <2>4, <2>5, <2>6, SaysKeeps
<1>5. ASSUME pi' = [pi EXCEPT ![a].prompts = n] PROVE IInv'
  <2>. DEFINE p == [pi[a] EXCEPT !.prompts = n]
  <2>1. pi' = [pi EXCEPT ![a] = p] /\ pi'[a] = p
    BY <1>1, <1>5
  <2>2. p \in PiType
    BY <1>2 DEF PiType
  <2>3. p.pc = pi[a].pc /\ p.running = pi[a].running /\ p.out = pi[a].out /\ p.prompts = 0 /\ p.working = pi[a].working
    BY <1>2, <1>3 DEF PiType
  <2>. HIDE DEF p
  <2>4. UnderWay(a)
    BY <1>1 DEF IInv, Alive, Up
  <2>5. UnderWay(a)'
    <3>1. /\ pi'[a].running /\ pi'[a].prompts = 0 /\ NoEnd(a)' /\ pi'[a].out = pi[a].out
          /\ \A c \in Clients : ~Sending(a, c)'
      BY <1>1, <1>2, <2>1, <2>3 DEF NoEnd, Sending
    <3>2. \A i, j \in 1 .. Len(pi'[a].out) :
            i < j /\ pi'[a].out[i] \in Ends => pi'[a].out[j] \notin Ends \cup {"start"}
      BY <2>4, <3>1 DEF UnderWay
    <3>. QED BY <3>1, <3>2 DEF UnderWay
  <2>. QED BY <1>1, <1>2, <2>1, <2>2, <2>3, <2>5, PiKeeps
<1>6. \/ pi' = [pi EXCEPT ![a].out = Append(@, "start"), ![a].prompts = n, ![a].working = TRUE]
      \/ pi' = [pi EXCEPT ![a].out = Append(@, "refused"), ![a].prompts = n, ![a].working = FALSE]
      \/ pi' = [pi EXCEPT ![a].prompts = n]
  <2>1. \/ pi' = [Say(a, "start") EXCEPT ![a].prompts = @ - 1, ![a].working = TRUE]
        \/ pi' = [Say(a, "refused") EXCEPT ![a].prompts = @ - 1]
        \/ pi' = [pi EXCEPT ![a].prompts = @ - 1]
    BY DEF PiTakes
  <2>2. [Say(a, "start") EXCEPT ![a].prompts = @ - 1, ![a].working = TRUE]
            = [pi EXCEPT ![a].out = Append(@, "start"), ![a].prompts = n, ![a].working = TRUE]
    BY <1>1, <1>3 DEF Say, PiType
  <2>3. [Say(a, "refused") EXCEPT ![a].prompts = @ - 1]
            = [pi EXCEPT ![a].out = Append(@, "refused"), ![a].prompts = n, ![a].working = FALSE]
    BY <1>1, <1>2, <1>3 DEF Say, PiType
  <2>. QED BY <1>1, <1>3, <2>1, <2>2, <2>3
<1>. QED BY <1>4, <1>5, <1>6

LEMMA PiRunKeeps ==
    ASSUME IInv, NEW a \in Pis, PiAborted(a) \/ PiSettles(a) \/ PiAsks(a)
    PROVE  IInv'
<1>. /\ pi \in [Pis -> PiType] /\ Up(a) /\ UNCHANGED <<server, agent, client, doomed>> /\ turns' \in Nat
     /\ pi[a] \in PiType /\ pi[a].out \in Output /\ pi[a].aborts \in Nat
  BY DEF IInv, PiType, PiAborted, PiSettles, PiAsks, OutOfTurn
<1>1. ASSUME pi[a].working, NEW l \in Lines, NEW n \in Nat, NEW w \in BOOLEAN, NEW k \in BOOLEAN, w => l \notin Ends,
             pi' = [pi EXCEPT ![a].out = Append(@, l), ![a].aborts = n, ![a].working = w, ![a].asking = k]
      PROVE  IInv'
  <2>1. PICK o \in Output : o = Append(pi[a].out, l)
    BY LinesTyped
  <2>. DEFINE p == [pi[a] EXCEPT !.out = o, !.aborts = n, !.working = w, !.asking = k]
  <2>2. pi' = [pi EXCEPT ![a] = p]
    BY <1>1, <2>1 DEF PiType
  <2>3. p \in PiType
    BY DEF PiType
  <2>4. p.pc = pi[a].pc /\ p.running = pi[a].running /\ p.out = o /\ p.prompts = pi[a].prompts /\ p.working = w
    BY DEF PiType
  <2>. HIDE DEF p
  <2>5. pi[a].prompts = 0
    BY <1>1, BusyAlone
  <2>. QED BY <1>1, <2>1, <2>2, <2>3, <2>4, <2>5, SaysKeeps
<1>2. {"settled", "ask"} \subseteq Lines /\ "ask" \notin Ends
  BY DEF Lines, Ends
<1>3. CASE PiSettles(a)
  <2>1. pi[a].working /\ ~pi[a].asking /\ pi' = [Say(a, "settled") EXCEPT ![a].working = FALSE]
    BY <1>3 DEF PiSettles
  <2>2. PICK n \in Nat : n = pi[a].aborts
    OBVIOUS
  <2>3. pi' = [pi EXCEPT ![a].out = Append(@, "settled"), ![a].aborts = n, ![a].working = FALSE, ![a].asking = FALSE]
    BY <2>1, <2>2 DEF Say, PiType
  <2>4. pi[a].working
    BY <2>1
  <2>. QED BY <1>1, <1>2, <2>3, <2>4
<1>4. CASE PiAsks(a)
  <2>1. pi[a].working /\ pi' = [Say(a, "ask") EXCEPT ![a].asking = TRUE]
    BY <1>4 DEF PiAsks
  <2>2. [Say(a, "ask") EXCEPT ![a].asking = TRUE]
          = [pi EXCEPT ![a].out = Append(@, "ask"), ![a].aborts = pi[a].aborts, ![a].working = TRUE,
                       ![a].asking = TRUE]
    BY <2>1 DEF Say, PiType
  <2>. QED BY <1>1, <1>2, <2>1, <2>2
<1>5. CASE PiAborted(a)
  <2>1. PICK n \in Nat : n = pi[a].aborts - 1
    BY <1>5 DEF PiAborted
  <2>2. CASE pi[a].working
    <3>1. pi' = [Say(a, "settled") EXCEPT ![a].aborts = n, ![a].working = FALSE, ![a].asking = FALSE]
      BY <1>5, <2>1, <2>2 DEF PiAborted, Say, PiType
    <3>2. [Say(a, "settled") EXCEPT ![a].aborts = n, ![a].working = FALSE, ![a].asking = FALSE]
            = [pi EXCEPT ![a].out = Append(@, "settled"), ![a].aborts = n, ![a].working = FALSE, ![a].asking = FALSE]
      BY DEF Say, PiType
    <3>. QED BY <1>1, <1>2, <2>2, <3>1, <3>2
  <2>3. CASE ~pi[a].working
    <3>1. pi' = [pi EXCEPT ![a].aborts = n]
      BY <1>5, <2>1, <2>3 DEF PiAborted
    <3>2. PiCalm
      BY <2>1, <3>1, CommandCalm
    <3>3. ClientCalm
      BY OneCalm DEF IInv
    <3>4. \A b \in Pis : pi'[b].pc = pi[b].pc
      BY <3>1 DEF PiType
    <3>5. AgentCalm
      BY <3>4 DEF AgentCalm, IInv, Alive
    <3>. QED BY <3>2, <3>3, <3>5, CalmKeeps
  <2>. QED BY <2>2, <2>3
<1>. QED BY <1>3, <1>4, <1>5

LEMMA PromptReplaceKeeps ==
    ASSUME IInv, NEW c \in Clients, PromptReplace(c)
    PROVE  IInv'
<1>. USE BridgeAssumption DEF BridgeAssumption
<1>. /\ client \in [Clients -> Attempt] /\ pi \in [Pis -> PiType] /\ agent \in Pis \cup {None}
     /\ UNCHANGED <<server, pi, doomed, turns>> /\ client[c] \in Attempt /\ client[c].post = "wait"
  BY DEF IInv, PromptReplace
<1>1. CASE ~Replaceable(c)
  <2>1. client' = [client EXCEPT ![c] = [client[c] EXCEPT !.post = "start"]] /\ UNCHANGED agent
    BY <1>1 DEF PromptReplace
  <2>2. [client[c] EXCEPT !.post = "start"] \in Attempt
    BY DEF Attempt, ClientType
  <2>3. Lasting([client[c] EXCEPT !.post = "start"], client[c])
    BY DEF Attempt, ClientType, Lasting
  <2>4. ClientCalm /\ PiCalm
    BY <2>1, <2>2, <2>3, OneCalm
  <2>5. AgentCalm
    BY <2>1 DEF AgentCalm, IInv, Alive
  <2>. QED BY <2>4, <2>5, CalmKeeps
<1>2. CASE Replaceable(c)
  <2>. DEFINE r == [client[c] EXCEPT !.post = "stop", !.mine = agent]
  <2>1. agent \in Pis /\ ~pi[agent].running /\ agent' = None
    BY <1>2 DEF Replaceable, PromptReplace
  <2>2. client' = [client EXCEPT ![c] = r]
    BY <1>2 DEF PromptReplace, Attempt, ClientType
  <2>3. r \in Attempt /\ r.post = "stop" /\ r.mine = agent
    BY <2>1 DEF Attempt, ClientType
  <2>. HIDE DEF r
  <2>4. client' \in [Clients -> Attempt] /\ \A d \in Clients : client'[d] = IF d = c THEN r ELSE client[d]
    BY <2>2, <2>3
  <2>5. \A a \in Pis, d \in Clients : Sending(a, d)' <=> Sending(a, d)
    BY <2>3, <2>4 DEF Sending
  <2>6. \A a \in Pis : (Alive(a) => UnderWay(a))'
    BY <2>5 DEF IInv, Alive, UnderWay, NoEnd, Silent
  <2>7. \A a \in Pis : Unborn(a)'
    BY <2>1, <2>3, <2>4 DEF IInv, Unborn
  <2>8. \A a \in Pis : Retired(a)' => Retired(a) \/ a = agent
    BY <2>3, <2>4 DEF Retired
  <2>9. UnderWay(agent)
    BY <2>1 DEF IInv
  <2>10. OnlyIdleRetired'
    BY <2>1, <2>5, <2>8, <2>9 DEF IInv, OnlyIdleRetired, UnderWay, Up
  <2>. QED BY <2>1, <2>4, <2>6, <2>7, <2>10 DEF IInv
<1>. QED BY <1>1, <1>2

LEMMA JanitorKeeps ==
    ASSUME IInv, janitor
    PROVE  IInv'
<1>. USE BridgeAssumption DEF BridgeAssumption
<1>1. /\ agent \in Pis /\ ~pi[agent].running /\ agent' = None /\ doomed' = doomed \cup {agent}
      /\ server = "up" /\ UNCHANGED <<server, pi, client, turns>>
  BY DEF janitor, Idle, IInv
<1>2. \A a \in Pis, d \in Clients : Sending(a, d)' <=> Sending(a, d)
  BY <1>1 DEF Sending
<1>3. \A a \in Pis : (Alive(a) => UnderWay(a))'
  BY <1>1, <1>2 DEF IInv, Alive, UnderWay, NoEnd, Silent
<1>4. \A a \in Pis : Unborn(a)'
  BY <1>1 DEF IInv, Unborn
<1>5. \A a \in Pis : Retired(a)' => Retired(a) \/ a = agent
  BY <1>1 DEF Retired
<1>6. UnderWay(agent)
  BY <1>1 DEF IInv
<1>7. OnlyIdleRetired'
  BY <1>1, <1>2, <1>5, <1>6 DEF IInv, OnlyIdleRetired, UnderWay, Up
<1>. QED BY <1>1, <1>3, <1>4, <1>7 DEF IInv

\* The thread of a prompt changes its own record.
LEMMA PromptEdited ==
    ASSUME NEW x \in Attempt
    PROVE  /\ x.post = "start" => [x EXCEPT !.post = "409"] \in {r \in Attempt : Lasting(r, x)}
           /\ x.post = "start" => \A a \in Pis : [x EXCEPT !.post = "send", !.mine = a] \in
                                                 {r \in Attempt : r.post = "send" /\ r.mine = a}
           /\ x.post = "send" => \A l \in {"202", "400"} : [x EXCEPT !.post = l, !.mine = None] \in
                                                 {r \in Attempt : Lasting(r, x) /\ r.mine = None}
<1>. USE BridgeAssumption DEF BridgeAssumption, Attempt, ClientType, Lasting, Answers
<1>1. x.post = "start" => [x EXCEPT !.post = "409"] \in {r \in Attempt : Lasting(r, x)}
  OBVIOUS
<1>2. ASSUME NEW a \in Pis
      PROVE  x.post = "start" => [x EXCEPT !.post = "send", !.mine = a] \in {r \in Attempt : r.post = "send" /\ r.mine = a}
  OBVIOUS
<1>3. ASSUME NEW l \in {"202", "400"}
      PROVE  x.post = "send" => [x EXCEPT !.post = l, !.mine = None] \in {r \in Attempt : Lasting(r, x) /\ r.mine = None}
  OBVIOUS
<1>. QED BY <1>1, <1>2, <1>3

LEMMA PromptStartKeeps ==
    ASSUME IInv, NEW c \in Clients, PromptStart(c)
    PROVE  IInv'
<1>. USE BridgeAssumption DEF BridgeAssumption
<1>. DEFINE here == IF agent # None /\ Up(agent) THEN agent ELSE None
<1>0. /\ client \in [Clients -> Attempt] /\ pi \in [Pis -> PiType] /\ agent \in Pis \cup {None}
      /\ UNCHANGED <<server, doomed, turns>> /\ client[c].post = "start" /\ client[c] \in Attempt
      /\ client[c].key \in Keys \cup {None}
  BY DEF IInv, PromptStart, Attempt, ClientType
<1>. USE <1>0
<1>1. ASSUME client' = [client EXCEPT ![c].post = "409"], UNCHANGED <<pi, agent>> PROVE IInv'
  <2>1. [client[c] EXCEPT !.post = "409"] \in Attempt /\ Lasting([client[c] EXCEPT !.post = "409"], client[c])
    BY PromptEdited
  <2>2. ClientCalm /\ PiCalm
    BY <1>1, <2>1, OneCalm
  <2>3. AgentCalm
    BY <1>1 DEF AgentCalm, IInv, Alive
  <2>. QED BY <2>2, <2>3, CalmKeeps
<1>2. ASSUME NEW a \in Pis, agent' = a, NEW p \in PiType, p.pc = "up", p.running, p.prompts = 0, ~p.working,
             \A i \in 1 .. Len(p.out) : p.out[i] \notin Ends \cup {"start"},
             \A d \in Clients : ~Sending(a, d),
             ~Retired(a),
             pi' = [pi EXCEPT ![a] = p],
             client' = [client EXCEPT ![c].post = "send", ![c].mine = a]
      PROVE  IInv'
  <2>1. client' = [client EXCEPT ![c] = [client[c] EXCEPT !.post = "send", !.mine = a]]
    BY <1>2 DEF Attempt, ClientType
  <2>2. PICK r \in Attempt : client' = [client EXCEPT ![c] = r] /\ r.post = "send" /\ r.mine = a
    <3>1. [client[c] EXCEPT !.post = "send", !.mine = a] \in {r \in Attempt : r.post = "send" /\ r.mine = a}
      BY PromptEdited
    <3>. QED BY <2>1, <3>1
  <2>3. client' \in [Clients -> Attempt] /\ \A d \in Clients : client'[d] = IF d = c THEN r ELSE client[d]
    BY <2>2
  <2>4. pi' \in [Pis -> PiType] /\ \A b \in Pis : pi'[b] = IF b = a THEN p ELSE pi[b]
    BY <1>2
  <2>5. \A b \in Pis, d \in Clients : Sending(b, d)' <=> (Sending(b, d) \/ (b = a /\ d = c))
    BY <1>2, <2>2, <2>3 DEF Sending
  <2>6. UnderWay(a)'
    <3>1. NoEnd(a)' /\ Silent(a)'
      BY <1>2, <2>4 DEF NoEnd, Silent
    <3>2. \A d \in Clients : Sending(a, d)' <=> d = c
      BY <1>2, <2>5
    <3>. QED BY <1>2, <2>4, <3>1, <3>2 DEF UnderWay, NoEnd
  <2>7. \A b \in Pis : (Alive(b) => UnderWay(b))'
    <3>1. ASSUME NEW b \in Pis, b # a PROVE (Alive(b) => UnderWay(b))'
      BY <2>4, <2>5, <3>1 DEF IInv, Alive, UnderWay, NoEnd, Silent
    <3>. QED BY <2>6, <3>1
  <2>8. \A b \in Pis : Unborn(b)'
    BY <1>2, <2>2, <2>3, <2>4 DEF IInv, Unborn
  <2>9. \A b \in Pis : Retired(b)' => Retired(b) /\ b # a
    BY <1>2, <2>2, <2>3 DEF Retired
  <2>10. OnlyIdleRetired'
    BY <1>2, <2>4, <2>5, <2>9 DEF IInv, OnlyIdleRetired, Up
  <2>11. Alive(a)'
    BY <1>2, <2>4 DEF Alive
  <2>. QED BY <1>2, <2>3, <2>4, <2>7, <2>8, <2>10, <2>11 DEF IInv
<1>3. ASSUME ~Busy(here), here # None, pi' = [pi EXCEPT ![here] = Marked(here)], UNCHANGED agent,
             client' = [client EXCEPT ![c].post = "send", ![c].mine = here]
      PROVE  IInv'
  <2>1. here \in Pis /\ agent = here /\ pi[here].pc = "up" /\ ~pi[here].running
    BY <1>3 DEF Busy, Up
  <2>2. UnderWay(here)
    BY <2>1 DEF IInv, Alive
  <2>3. /\ pi[here].prompts = 0 /\ ~pi[here].working /\ \A d \in Clients : ~Sending(here, d)
        /\ \A i \in 1 .. Len(pi[here].out) : pi[here].out[i] \notin Ends \cup {"start"}
    BY <2>1, <2>2 DEF UnderWay, Silent, NoEnd
  <2>4. ~Retired(here)
    BY <2>1 DEF IInv, OnlyIdleRetired
  <2>5. /\ Marked(here) \in PiType /\ Marked(here).pc = "up" /\ Marked(here).running
        /\ Marked(here).prompts = 0 /\ ~Marked(here).working /\ Marked(here).out = pi[here].out
    BY <2>1, <2>3 DEF Marked, PiType
  <2>. QED BY <1>2, <1>3, <2>1, <2>3, <2>4, <2>5
<1>4. ASSUME NEW a \in Pis, pi[a].pc = "none", agent' = a,
             pi' = [pi EXCEPT ![a] = [NoPi EXCEPT !.pc = "up", !.key = client[c].key, !.running = TRUE]],
             client' = [client EXCEPT ![c].post = "send", ![c].mine = a]
      PROVE  IInv'
  <2>. DEFINE p == [NoPi EXCEPT !.pc = "up", !.key = client[c].key, !.running = TRUE]
  <2>1. p \in PiType /\ p.pc = "up" /\ p.running /\ p.prompts = 0 /\ ~p.working /\ p.out = <<>>
    BY LinesTyped DEF NoPi, PiType
  <2>2. \A i \in 1 .. Len(p.out) : p.out[i] \notin Ends \cup {"start"}
    BY <2>1
  <2>3. (\A d \in Clients : ~Sending(a, d)) /\ ~Retired(a)
    BY <1>4 DEF IInv, Unborn, Sending, Retired
  <2>4. pi' = [pi EXCEPT ![a] = p]
    BY <1>4
  <2>. HIDE DEF p
  <2>. QED BY <1>2, <1>4, <2>1, <2>2, <2>3, <2>4
<1>. QED BY <1>1, <1>3, <1>4 DEF PromptStart

LEMMA PromptSendKeeps ==
    ASSUME IInv, NEW c \in Clients, PromptSend(c)
    PROVE  IInv'
<1>. USE BridgeAssumption DEF BridgeAssumption
<1>0. /\ client \in [Clients -> Attempt] /\ pi \in [Pis -> PiType] /\ agent \in Pis \cup {None}
      /\ UNCHANGED <<server, doomed, turns>> /\ client[c].post = "send" /\ client[c] \in Attempt
  BY DEF IInv, PromptSend
<1>1. PICK a \in Pis : a = client[c].mine /\ Sending(a, c) /\ pi[a] \in PiType
  BY <1>0 DEF Attempt, ClientType, Sending
<1>2. ~Retired(a)
  BY <1>1 DEF IInv, OnlyIdleRetired
<1>3. ASSUME NEW r \in Attempt, client' = [client EXCEPT ![c] = r], Lasting(r, client[c]), r.mine = None,
             NEW p \in PiType, \A b \in Pis : pi'[b] = IF b = a THEN p ELSE pi[b], pi' \in [Pis -> PiType],
             p.pc = pi[a].pc, p.out = pi[a].out, p.working = pi[a].working,
             p.pc = "up" => p.running = pi[a].running /\ p.prompts = 1,
             p.pc # "up" => p.prompts = pi[a].prompts,
             agent' \in {agent, None}
      PROVE  IInv'
  <2>1. client' \in [Clients -> Attempt] /\ \A d \in Clients : client'[d] = IF d = c THEN r ELSE client[d]
    BY <1>0, <1>3
  <2>2. pi' \in [Pis -> PiType] /\ \A b \in Pis : pi'[b] = IF b = a THEN p ELSE pi[b]
    BY <1>0, <1>1, <1>3
  <2>3. \A b \in Pis, d \in Clients : Sending(b, d)' <=> (Sending(b, d) /\ d # c)
    BY <1>0, <1>1, <1>3, <2>1 DEF Sending
  <2>4. ASSUME Alive(a)' PROVE UnderWay(a)'
    <3>1. UnderWay(a)
      BY <1>1, <1>3, <2>2, <2>4 DEF IInv, Alive
    <3>2. pi[a].prompts = 0 /\ ~pi[a].working /\ Silent(a) /\ pi[a].running /\ \A d \in Clients : Sending(a, d) => d = c
      BY <1>1, <3>1 DEF UnderWay
    <3>3. \A d \in Clients : ~Sending(a, d)'
      BY <1>1, <2>3, <3>2
    <3>4. Silent(a)' /\ NoEnd(a)' /\ pi'[a].out = pi[a].out
      BY <1>1, <1>3, <2>2, <3>2 DEF Silent, NoEnd
    <3>5. ~pi'[a].working /\ pi'[a].prompts \in {0, 1} /\ (~pi'[a].running => pi'[a].prompts = 0)
      BY <1>1, <1>3, <2>2, <3>2
    <3>6. \A i, j \in 1 .. Len(pi'[a].out) :
            i < j /\ pi'[a].out[i] \in Ends => pi'[a].out[j] \notin Ends \cup {"start"}
      BY <3>1, <3>4 DEF UnderWay
    <3>. QED BY <3>3, <3>4, <3>5, <3>6 DEF UnderWay
  <2>5. \A b \in Pis : (Alive(b) => UnderWay(b))'
    <3>1. ASSUME NEW b \in Pis, b # a, Alive(b)' PROVE UnderWay(b)'
      <4>1. UnderWay(b) /\ pi'[b] = pi[b]
        BY <2>2, <3>1 DEF IInv, Alive
      <4>2. \A d \in Clients : Sending(b, d)' <=> Sending(b, d)
        BY <2>3, <3>1, <1>1 DEF Sending
      <4>. QED BY <4>1, <4>2 DEF UnderWay, NoEnd, Silent
    <3>. QED BY <2>4, <3>1
  <2>6. \A b \in Pis : Unborn(b)'
    BY <1>1, <1>3, <1>0, <2>1, <2>2 DEF IInv, Unborn
  <2>7. \A b \in Pis : Retired(b)' => Retired(b) /\ b # a
    BY <1>0, <1>2, <1>3, <2>1 DEF Retired, Lasting
  <2>8. OnlyIdleRetired'
    BY <1>0, <1>3, <2>2, <2>3, <2>7 DEF IInv, OnlyIdleRetired, Up
  <2>9. (agent # None => Alive(agent))'
    BY <1>0, <1>3, <2>2 DEF IInv, Alive
  <2>. QED BY <1>0, <1>3, <2>1, <2>2, <2>5, <2>6, <2>8, <2>9 DEF IInv
<1>4. CASE Up(a)
  <2>1. pi' = [pi EXCEPT ![a].prompts = @ + 1] /\ UNCHANGED agent
        /\ client' = [client EXCEPT ![c].post = "202", ![c].mine = None]
    BY <1>1, <1>4 DEF PromptSend
  <2>2. pi[a].prompts = 0
    BY <1>1, <1>4 DEF IInv, UnderWay, Alive, Up
  <2>3. PICK n \in Nat : n = pi[a].prompts + 1 /\ n = 1
    BY <2>2
  <2>. DEFINE p == [pi[a] EXCEPT !.prompts = n]
  <2>4. pi' = [pi EXCEPT ![a] = p]
    BY <1>1, <2>1, <2>3
  <2>8. p \in PiType
    BY <1>1, <2>3 DEF PiType
  <2>9. pi' \in [Pis -> PiType] /\ \A b \in Pis : pi'[b] = IF b = a THEN p ELSE pi[b]
    BY <1>0, <2>4, <2>8
  <2>5. p.pc = pi[a].pc /\ p.out = pi[a].out /\ p.working = pi[a].working
        /\ p.running = pi[a].running /\ p.prompts = 1
    BY <1>1, <2>3 DEF PiType
  <2>6. PICK r \in Attempt : client' = [client EXCEPT ![c] = r] /\ Lasting(r, client[c]) /\ r.mine = None
    <3>1. client' = [client EXCEPT ![c] = [client[c] EXCEPT !.post = "202", !.mine = None]]
      BY <1>0, <2>1 DEF Attempt, ClientType
    <3>2. [client[c] EXCEPT !.post = "202", !.mine = None] \in {r \in Attempt : Lasting(r, client[c]) /\ r.mine = None}
      BY <1>0, PromptEdited
    <3>. QED BY <3>1, <3>2
  <2>7. p.pc = "up"
    BY <1>4, <2>5 DEF Up
  <2>. HIDE DEF p
  <2>. QED BY <1>3, <2>1, <2>5, <2>6, <2>7, <2>8, <2>9
<1>5. CASE ~Up(a)
  <2>1. pi' = [Signalled(a, TRUE) EXCEPT ![a].running = FALSE] /\ agent' = Removed(a)
        /\ client' = [client EXCEPT ![c].post = "400", ![c].mine = None]
    BY <1>1, <1>5 DEF PromptSend
  <2>. DEFINE p == [Signalled(a, TRUE)[a] EXCEPT !.running = FALSE]
  <2>2. /\ Signalled(a, TRUE) \in [Pis -> PiType] /\ \A b \in Pis : b # a => Signalled(a, TRUE)[b] = pi[b]
    BY <1>0, <1>1, SignalledCalm
  <2>3. p \in PiType
    <3>1. PICK x \in PiType : x = Signalled(a, TRUE)[a]
      BY <2>2
    <3>2. [x EXCEPT !.running = FALSE] \in PiType
      BY DEF PiType
    <3>. QED BY <3>1, <3>2
  <2>4. pi' \in [Pis -> PiType] /\ \A b \in Pis : pi'[b] = IF b = a THEN p ELSE pi[b]
    BY <1>1, <2>1, <2>2, <2>3
  <2>5. p.pc = pi[a].pc /\ p.out = pi[a].out /\ p.working = pi[a].working /\ p.prompts = pi[a].prompts
    BY <1>0, <1>1 DEF Signalled, PiType
  <2>6. PICK r \in Attempt : client' = [client EXCEPT ![c] = r] /\ Lasting(r, client[c]) /\ r.mine = None
    <3>1. client' = [client EXCEPT ![c] = [client[c] EXCEPT !.post = "400", !.mine = None]]
      BY <1>0, <2>1 DEF Attempt, ClientType
    <3>2. [client[c] EXCEPT !.post = "400", !.mine = None] \in {r \in Attempt : Lasting(r, client[c]) /\ r.mine = None}
      BY <1>0, PromptEdited
    <3>. QED BY <3>1, <3>2
  <2>7. p.pc # "up" /\ agent' \in {agent, None}
    BY <1>5, <2>1, <2>5 DEF Up, Removed
  <2>. HIDE DEF p
  <2>. QED BY <1>3, <2>4, <2>5, <2>3, <2>6, <2>7
<1>. QED BY <1>4, <1>5

LEMMA NextInv ==
    ASSUME IInv, Next
    PROVE  IInv'
<1>. USE BridgeAssumption DEF BridgeAssumption
<1>. client \in [Clients -> Attempt] /\ pi \in [Pis -> PiType] /\ agent \in Pis \cup {None} /\ doomed \subseteq Pis
  BY DEF IInv
<1>. PICK any \in Keys : TRUE
  OBVIOUS
<1>1. ASSUME NEW c \in Clients, events(c) PROVE IInv'
  <2>1. PICK k \in Keys : client' = [client EXCEPT ![c].pc = "opening", ![c].key = k, ![c].seen = agent]
    BY <1>1 DEF events
  <2>2. client' = [client EXCEPT ![c] = [client[c] EXCEPT !.pc = "opening", !.key = k, !.seen = agent]]
    BY <2>1 DEF Attempt, ClientType
  <2>3. ClientCalm
    BY <1>1, <2>2, LinesTyped, AttemptEdited, OneCalm DEF events
  <2>4. PiCalm
    BY <1>1, OneCalm DEF events
  <2>5. AgentCalm
    BY <1>1 DEF events, ensure_bridge, OutOfTurn, AgentCalm, IInv, Alive
  <2>. QED BY <2>3, <2>4, <2>5, CalmKeeps
<1>2. ASSUME NEW c \in Clients, Hello(c) PROVE IInv'
  <2>1. ClientCalm
    BY <1>2 DEF Hello, ClientCalm, Lasting, Attempt, ClientType
  <2>2. PiCalm
    BY <1>2, OneCalm DEF Hello
  <2>3. AgentCalm
    BY <1>2 DEF Hello, AgentCalm, IInv, Alive
  <2>. QED BY <2>1, <2>2, <2>3, CalmKeeps
<1>3. ASSUME NEW c \in Clients, Event(c) PROVE IInv'
  <2>1. client[c].queue \in Queue /\ client[c].queue # <<>>
    BY <1>3 DEF Event, Attempt, ClientType
  <2>2. client' = Done(c) \/ client' = [client EXCEPT ![c].queue = Tail(@), ![c].got = TRUE]
    BY <1>3 DEF Event
  <2>3. ASSUME client' = [client EXCEPT ![c].queue = Tail(@), ![c].got = TRUE] PROVE ClientCalm
    <3>1. PICK q \in Queue : q = Tail(client[c].queue)
      BY <2>1, LinesTyped
    <3>2. client' = [client EXCEPT ![c] = [client[c] EXCEPT !.queue = q, !.got = TRUE]]
      BY <2>3, <3>1 DEF Attempt, ClientType
    <3>. QED BY <3>2, AttemptEdited, OneCalm
  <2>4. ClientCalm
    BY <2>2, <2>3, DoneCalm
  <2>5. PiCalm
    BY <1>3, CommandCalm, OneCalm DEF Event
  <2>8. UNCHANGED pi \/ \E b \in Pis : pi' = [pi EXCEPT ![b].answers = @ + 1]
    BY <1>3 DEF Event
  <2>6. \A a \in Pis : pi'[a].pc = pi[a].pc
    BY <2>8 DEF PiType
  <2>7. AgentCalm
    BY <1>3, <2>6 DEF Event, AgentCalm, IInv, Alive
  <2>. QED BY <2>4, <2>5, <2>7, CalmKeeps
<1>4. ASSUME NEW c \in Clients, Answered(c) PROVE IInv'
  <2>. DEFINE r == [client[c] EXCEPT !.pc = "accepted"]
  <2>1. client' = Done(c) \/ client' = [client EXCEPT ![c] = r]
    BY <1>4 DEF Answered
  <2>2. r \in Attempt /\ Lasting(r, client[c])
    BY <1>4 DEF Answered, Attempt, ClientType, Lasting
  <2>3. ClientCalm
    BY <2>1, <2>2, DoneCalm, OneCalm
  <2>4. PiCalm
    BY <1>4, OneCalm DEF Answered
  <2>5. AgentCalm
    BY <1>4 DEF Answered, AgentCalm, IInv, Alive
  <2>. QED BY <2>3, <2>4, <2>5, CalmKeeps
<1>6. ASSUME NEW c \in Clients, PromptStop(c) PROVE IInv'
  <2>1. client[c].mine \in Pis /\ client[c].post = "stop"
    BY <1>6 DEF PromptStop, Attempt, ClientType
  <2>2. UNCHANGED client \/ client' = [client EXCEPT ![c] = [client[c] EXCEPT !.post = "start", !.mine = None]]
    BY <1>6 DEF PromptStop, Attempt, ClientType
  <2>3. ClientCalm
    BY <2>1, <2>2, LinesTyped, AttemptEdited, OneCalm
  <2>4. UNCHANGED pi \/ pi' = Signalled(client[c].mine, TRUE)
    BY <1>6 DEF PromptStop
  <2>5. PiCalm
    BY <2>1, <2>4, SignalledCalm, OneCalm
  <2>6. \A a \in Pis : pi'[a].pc = pi[a].pc
    <3>1. /\ \A b \in Pis : b # client[c].mine => Signalled(client[c].mine, TRUE)[b] = pi[b]
          /\ Signalled(client[c].mine, TRUE)[client[c].mine].pc = pi[client[c].mine].pc
      BY <2>1, SignalledCalm
    <3>. QED BY <2>4, <3>1
  <2>7. AgentCalm
    BY <1>6, <2>6 DEF PromptStop, AgentCalm, IInv, Alive
  <2>. QED BY <2>3, <2>5, <2>7, CalmKeeps
<1>9. ASSUME NEW c \in Clients, PromptRefused(c) PROVE IInv'
  <2>1. ClientCalm
    BY <1>9 DEF PromptRefused, ClientCalm, Lasting, Attempt, ClientType, Answers
  <2>2. PiCalm
    BY <1>9, OneCalm DEF PromptRefused
  <2>3. AgentCalm
    BY <1>9 DEF PromptRefused, OutOfTurn, AgentCalm, IInv, Alive
  <2>. QED BY <2>1, <2>2, <2>3, CalmKeeps
<1>10. ASSUME NEW c \in Clients, replyDialog(c) PROVE IInv'
  <2>1. agent \in Pis /\ pi' = [pi EXCEPT ![agent].answers = 1] /\ UNCHANGED client
    BY <1>10 DEF replyDialog
  <2>2. ClientCalm /\ PiCalm /\ \A a \in Pis : pi'[a].pc = pi[a].pc
    <3>1. 1 \in Nat
      OBVIOUS
    <3>2. ClientCalm
      BY <2>1, OneCalm
    <3>3. PiCalm
      BY <2>1, <3>1, CommandCalm
    <3>4. \A a \in Pis : pi'[a].pc = pi[a].pc
      BY <2>1 DEF PiType
    <3>. QED BY <3>2, <3>3, <3>4
  <2>3. AgentCalm
    BY <1>10, <2>2 DEF replyDialog, AgentCalm, IInv, Alive
  <2>. QED BY <2>2, <2>3, CalmKeeps
<1>11. ASSUME NEW c \in Clients, Stop(c) PROVE IInv'
  <2>1. ClientCalm
    BY <1>11, DoneCalm DEF Stop
  <2>2. PiCalm
    BY <1>11, OneCalm DEF Stop
  <2>3. AgentCalm
    BY <1>11 DEF Stop, OutOfTurn, AgentCalm, IInv, Alive
  <2>. QED BY <2>1, <2>2, <2>3, CalmKeeps
<1>12. ASSUME NEW c \in Clients, TimeOut(c) PROVE IInv'
  <2>1. ClientCalm
    BY <1>12, DoneCalm DEF TimeOut
  <2>2. PiCalm
    BY <1>12, OneCalm DEF TimeOut
  <2>3. AgentCalm
    BY <1>12 DEF TimeOut, AgentCalm, IInv, Alive
  <2>. QED BY <2>1, <2>2, <2>3, CalmKeeps
<1>13. ASSUME NEW c \in Clients, abort(c) PROVE IInv'
  <2>1. client' = [client EXCEPT ![c] = [client[c] EXCEPT !.abort = FALSE]]
    BY <1>13 DEF abort
  <2>3. ClientCalm
    BY <2>1, LinesTyped, AttemptEdited, OneCalm
  <2>4. UNCHANGED pi \/ \E b \in Pis : pi' = [pi EXCEPT ![b].aborts = @ + 1]
    BY <1>13 DEF abort
  <2>5. PiCalm
    BY <2>4, CommandCalm, OneCalm
  <2>6. \A a \in Pis : pi'[a].pc = pi[a].pc
    BY <2>4 DEF PiType
  <2>7. AgentCalm
    BY <1>13, <2>6 DEF abort, AgentCalm, IInv, Alive
  <2>. QED BY <2>3, <2>5, <2>7, CalmKeeps
<1>14. ASSUME NEW c \in Clients, onStall(c) PROVE IInv'
  <2>1. client[c].close = "none" /\ client' = [Done(c) EXCEPT ![c].close = "fetch"]
    BY <1>14 DEF onStall, Attempt
  <2>2. ClientCalm
    BY <2>1, DoneCalm
  <2>3. PiCalm
    BY <1>14, OneCalm DEF onStall
  <2>4. AgentCalm
    BY <1>14 DEF onStall, AgentCalm, IInv, Alive
  <2>. QED BY <2>2, <2>3, <2>4, CalmKeeps
<1>15. ASSUME NEW c \in Clients, Close(c) PROVE IInv'
  <2>1. CASE client[c].close = "fetch"
    <3>1. client' = [client EXCEPT ![c] = [client[c] EXCEPT !.close = IF agent = None THEN "none" ELSE "pop",
                                                            !.target = agent]]
      BY <1>15, <2>1 DEF Close, Attempt, ClientType
    <3>2. ClientCalm
      BY <2>1, <3>1, LinesTyped, AttemptEdited, OneCalm
    <3>3. PiCalm /\ UNCHANGED <<server, agent, pi, doomed, turns>>
      BY <1>15, <2>1, OneCalm DEF Close
    <3>4. AgentCalm
      BY <3>3 DEF AgentCalm, IInv, Alive
    <3>. QED BY <3>2, <3>3, <3>4, CalmKeeps
  <2>2. CASE client[c].close = "pop"
    <3>1. client' = [client EXCEPT ![c] = [client[c] EXCEPT !.close = "stop"]]
      BY <1>15, <2>2 DEF Close
    <3>2. ClientCalm
      BY <2>2, <3>1, LinesTyped, AttemptEdited, OneCalm
    <3>3. PiCalm /\ agent' = None /\ UNCHANGED <<server, pi, doomed, turns>>
      BY <1>15, <2>2, OneCalm DEF Close
    <3>4. AgentCalm
      BY <3>3 DEF AgentCalm, IInv, Alive
    <3>. QED BY <3>2, <3>3, <3>4, CalmKeeps
  <2>3. CASE client[c].close = "stop"
    <3>1. client' = [client EXCEPT ![c] = [client[c] EXCEPT !.close = "none", !.target = None]]
      BY <1>15, <2>3 DEF Close, Attempt, ClientType
    <3>2. ClientCalm
      BY <2>3, <3>1, LinesTyped, AttemptEdited, OneCalm
    <3>3. client[c].target \in Pis
      BY <2>3 DEF Attempt, ClientType
    <3>4. pi' = Signalled(client[c].target, FALSE) /\ UNCHANGED <<server, agent, doomed, turns>>
      BY <1>15, <2>3 DEF Close
    <3>5. PiCalm
      BY <3>3, <3>4, SignalledCalm
    <3>6. \A a \in Pis : pi'[a].pc = pi[a].pc
      BY <3>3, <3>4, SignalledCalm
    <3>7. AgentCalm
      BY <3>4, <3>6 DEF AgentCalm, IInv, Alive
    <3>. QED BY <3>2, <3>5, <3>7, CalmKeeps
  <2>. QED BY <1>15, <2>1, <2>2, <2>3 DEF Close
<1>17. ASSUME NEW a \in Pis, broadcast(a) PROVE IInv'
  <2>1. pi[a].line \in Lines
    BY <1>17 DEF broadcast, PiType
  <2>2. ClientCalm
    BY <1>17, <2>1, DeliveredCalm DEF broadcast
  <2>. DEFINE p == [pi[a] EXCEPT !.line = None]
  <2>3. pi' = [pi EXCEPT ![a] = p]
    BY <1>17 DEF broadcast
  <2>4. p \in PiType /\ Fading(p, pi[a]) /\ p.pc = pi[a].pc
    BY DEF PiType, Fading
  <2>5. PiCalm /\ \A b \in Pis : pi'[b].pc = pi[b].pc
    BY <2>3, <2>4, OneCalm
  <2>6. AgentCalm
    BY <1>17, <2>5 DEF broadcast, AgentCalm, IInv, Alive
  <2>. QED BY <2>2, <2>5, <2>6, CalmKeeps
<1>18. ASSUME NEW a \in Pis, ReaderEnds(a) PROVE IInv'
  <2>1. ClientCalm
    BY <1>18, OneCalm DEF ReaderEnds
  <2>. DEFINE p == [pi[a] EXCEPT !.pc = "removed"]
  <2>2. pi' = [pi EXCEPT ![a] = p]
    BY <1>18 DEF ReaderEnds
  <2>3. p \in PiType /\ p.pc = "removed"
    BY DEF PiType
  <2>6. Fading(p, pi[a])
    BY <2>3 DEF Fading
  <2>4. PiCalm
    BY <2>2, <2>3, <2>6, OneCalm
  <2>5. AgentCalm
    BY <1>18 DEF ReaderEnds, Removed, AgentCalm, IInv, Alive, PiType
  <2>. QED BY <2>1, <2>4, <2>5, CalmKeeps
<1>19. ASSUME NEW a \in Pis, Exit(a) PROVE IInv'
  <2>1. ClientCalm
    BY <1>19, DeliveredCalm, OneCalm DEF Exit
  <2>2. Gone \in PiType /\ Fading(Gone, pi[a])
    BY LinesTyped DEF Gone, NoPi, PiType, Fading
  <2>3. PiCalm
    BY <1>19, <2>2, OneCalm DEF Exit
  <2>4. AgentCalm
    BY <1>19 DEF Exit, AgentCalm, IInv, Alive
  <2>. QED BY <2>1, <2>3, <2>4, CalmKeeps
<1>20. ASSUME NEW a \in Pis, StopDoomed(a) PROVE IInv'
  <2>1. ClientCalm
    BY <1>20, OneCalm DEF StopDoomed
  <2>2. PiCalm /\ \A b \in Pis : pi'[b].pc = pi[b].pc
    BY <1>20, SignalledCalm DEF StopDoomed
  <2>3. AgentCalm
    BY <1>20, <2>2 DEF StopDoomed, AgentCalm, IInv, Alive, Serving
  <2>. QED BY <2>1, <2>2, <2>3, CalmKeeps
<1>22. ASSUME NEW a \in Pis, PiAnswered(a) PROVE IInv'
  <2>1. ClientCalm
    BY <1>22, OneCalm DEF PiAnswered
  <2>2. PiCalm
    BY <1>22, CommandCalm DEF PiAnswered
  <2>3. \A b \in Pis : pi'[b].pc = pi[b].pc
    BY <1>22 DEF PiAnswered, PiType
  <2>4. AgentCalm
    BY <1>22, <2>3 DEF PiAnswered, AgentCalm, IInv, Alive
  <2>. QED BY <2>1, <2>2, <2>4, CalmKeeps
<1>25. ASSUME NEW a \in Pis, PiDies(a) PROVE IInv'
  <2>1. ClientCalm
    BY <1>25, OneCalm DEF PiDies
  <2>. DEFINE p == [pi[a] EXCEPT !.pc = "dead", !.prompts = 0, !.aborts = 0, !.answers = 0,
                                 !.working = FALSE, !.asking = FALSE]
  <2>2. pi' = [pi EXCEPT ![a] = p]
    BY <1>25 DEF PiDies
  <2>3. p \in PiType /\ Fading(p, pi[a])
    BY <1>25 DEF PiDies, Up, PiType, Fading
  <2>4. PiCalm
    BY <2>2, <2>3, OneCalm
  <2>5. AgentCalm
    BY <1>25 DEF PiDies, OutOfTurn, AgentCalm, IInv, Alive, PiType
  <2>. QED BY <2>1, <2>4, <2>5, CalmKeeps
<1>28. CASE shutdown
  <2>1. ClientCalm /\ PiCalm
    BY <1>28, OneCalm DEF shutdown
  <2>2. AgentCalm
    BY <1>28 DEF shutdown, OutOfTurn, AgentCalm, IInv, Alive
  <2>. QED BY <2>1, <2>2, CalmKeeps
<1>29. CASE BridgeEnds
  <2>1. NewClient \in Attempt /\ [NewClient EXCEPT !.pc = "done"] \in Attempt
    BY LinesTyped DEF NewClient, Attempt, ClientType, Answers
  <2>2. \A c \in Clients : Lasting(NewClient, client[c]) /\ Lasting([NewClient EXCEPT !.pc = "done"], client[c])
    BY DEF NewClient, Lasting
  <2>3. ClientCalm
    BY <1>29, <2>1, <2>2 DEF BridgeEnds, ClientCalm
  <2>4. NoPi \in PiType /\ Gone \in PiType
    BY LinesTyped DEF NoPi, Gone, PiType
  <2>5. \A a \in Pis : (pi[a].pc = "none" => Fading(NoPi, pi[a])) /\ Fading(Gone, pi[a])
    BY DEF NoPi, Gone, Fading
  <2>6. PiCalm
    BY <1>29, <2>4, <2>5 DEF BridgeEnds, PiCalm
  <2>7. AgentCalm
    BY <1>29 DEF BridgeEnds, AgentCalm, IInv
  <2>. QED BY <2>3, <2>6, <2>7, CalmKeeps
<1>30. ASSUME NEW c \in Clients, PromptReplace(c) \/ PromptStart(c) \/ PromptSend(c) PROVE IInv'
  BY <1>30, PromptReplaceKeeps, PromptStartKeeps, PromptSendKeeps
<1>31. ASSUME NEW a \in Pis, _handle_line(a) \/ PiTakes(a) \/ PiAborted(a) \/ PiSettles(a) \/ PiAsks(a) PROVE IInv'
  BY <1>31, HandleLineKeeps, PiTakesKeeps, PiRunKeeps
<1>32. CASE janitor
  BY <1>32, JanitorKeeps
<1>. QED
  BY <1>1, <1>2, <1>3, <1>4, <1>6, <1>9, <1>10, <1>11, <1>12, <1>13, <1>14, <1>15, <1>17, <1>18, <1>19, <1>20, <1>22,
     <1>25, <1>28, <1>29, <1>30, <1>31, <1>32
  DEF Next, ClientStep, PromptThread, Reader, PiStep

LEMMA InitInv ==
    ASSUME Init
    PROVE  IInv
<1>. USE BridgeAssumption DEF BridgeAssumption
<1>1. NoPi \in PiType /\ NewClient \in Attempt
  BY LinesTyped DEF NoPi, PiType, NewClient, Attempt, ClientType, Answers
<1>2. \A a \in Pis : ~Alive(a) /\ Unborn(a) /\ ~Retired(a)
  BY DEF Init, NoPi, NewClient, Alive, Unborn, Retired
<1>. QED BY <1>1, <1>2 DEF Init, IInv, OnlyIdleRetired

LEMMA Invariant == Spec => []IInv
<1>1. Init => IInv
  BY InitInv
<1>2. IInv /\ [Next]_vars => IInv'
  <2>1. ASSUME IInv, UNCHANGED vars PROVE IInv'
    BY <2>1 DEF vars, IInv, Alive, UnderWay, Silent, NoEnd, Unborn, OnlyIdleRetired, Retired, Sending, Up
  <2>. QED BY <2>1, NextInv
<1>. QED BY <1>1, <1>2, PTL DEF Spec

-----------------------------------------------------------------------------
(* Theorems.                                                               *)

\* The variables keep their types; a thread that stops or prompts a Pi has one, and agents holds a Pi
\* that was started and whose reader has not removed it.
THEOREM BridgeTyped == Spec => []TypeOK
<1>1. IInv => TypeOK
  BY DEF IInv, TypeOK, Alive, Attempt
<1>. QED BY <1>1, Invariant, PTL

\* A Pi never has two prompts on their way, however the threads of the attempts, the readers, the
\* janitor, the shutdown and Pi take turns (prompt() and _handle_line() in pi_bridge_server.py).
THEOREM SpecOnePrompt == Spec => []OnePrompt
<1>1. ASSUME IInv PROVE OnePrompt
  <2>1. ASSUME NEW a \in Pis, Up(a) PROVE UnderWay(a) /\ pi[a] \in PiType
    BY <1>1, <2>1 DEF IInv, Alive, Up
  <2>2. ASSUME NEW a \in Pis, Up(a)
        PROVE  \A i, j \in 1 .. Len(pi[a].out) : EndAt(a, i) /\ EndAt(a, j) => i = j
    <3>1. \A i, j \in 1 .. Len(pi[a].out) : i < j \/ j < i \/ i = j
      OBVIOUS
    <3>. QED BY <2>1, <2>2, <3>1 DEF UnderWay, EndAt
  <2>. QED BY <2>1, <2>2 DEF OnePrompt, UnderWay, Silent, NoEnd, EndAt
<1>. QED BY <1>1, Invariant, PTL

\* Neither the janitor nor a prompt with other settings takes a Pi that has or gets a prompt
\* (the loop over agents in janitor() and the replacement in prompt()).
THEOREM SpecOnlyIdleRetired == Spec => []OnlyIdleRetired
<1>1. IInv => OnlyIdleRetired
  BY DEF IInv
<1>. QED BY <1>1, Invariant, PTL
===============================================================================
