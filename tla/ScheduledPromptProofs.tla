----------------------- MODULE ScheduledPromptProofs ------------------------
(***************************************************************************)
(* A prompt that runs without the widget goes to the provider and model    *)
(* the widget would use, sends its key only where it belongs, and refuses  *)
(* what its own agent asks, for any chats, sessions, origins and faults.   *)
(***************************************************************************)
EXTENDS ScheduledPrompt, SequenceTheorems, TLAPS

Stages == {"find_chat", "_run_direct", "isOpen", "open", "read", "close", "keyless", "send", "pi", "health",
           "starting", "session", "listen", "sent", "close_server", "wait", "judge", "over"}
Requests == [at : Origins \cup {None}, home : Origins \cup {None}, keyed : BOOLEAN]
Purses == [runs : Nat, faults : Nat, asks : Nat, hops : Nat]
Watchers == [Sessions -> {"off", "connecting", "listening", "dead"}]
OneOrNone == Sessions \cup {None}
Anyone == Sessions \cup Others

\* What the variables are.
TypeOK ==
    /\ stage \in Stages
    /\ setup \in Setups \cup {None} /\ mode \in Modes \cup {None}
    /\ wallet \in {"open", "locked"} /\ handle \in BOOLEAN
    /\ key \in {"unread", "locked", "unavailable", "key", "empty"}
    /\ request \in Requests
    /\ server \in {"up", "down"} /\ temp \in {"starting", "up", "terminating", None}
    /\ known \in SUBSET Sessions /\ ask \in SUBSET Anyone
    /\ stored \in OneOrNone /\ updates \in Seq(Sessions)
    /\ chatSession \in OneOrNone /\ session \in OneOrNone /\ attempt \in {0, 1} /\ created \in Nat
    /\ watcher \in Watchers
    /\ heard \in SUBSET (Sessions \X Anyone) /\ hand \in SUBSET (Sessions \X Anyone)
    /\ refused \in SUBSET Anyone /\ missed \in BOOLEAN
    /\ budget \in Purses

\* Where the job is with its session.
Trying ==
    /\ stage = "find_chat" => /\ watcher = NoWatcher /\ hand = {} /\ heard = {} /\ refused = {} /\ ask = {}
    /\ stage \in {"find_chat", "health", "starting", "session"} => session = None
    /\ stage \in {"find_chat", "health", "starting"} => attempt = 0
    /\ stage \in {"listen", "sent"} =>
          session \in Sessions /\ (attempt = 0 /\ chatSession # None => session = chatSession)

\* Whoever watches, is about to refuse or has refused does it for a session of the run.
Ours ==
    /\ \A w \in Sessions : watcher[w] # "off" => w \in {session, chatSession}
    /\ \A h \in hand : h[1] = h[2] /\ watcher[h[1]] # "off"
    /\ \A s \in refused : s \in Sessions /\ s \in {session, chatSession}

\* Only a known session waits for an answer, and that of the run only if it is heard or missed.
Asking ==
    /\ ask \cap Sessions \subseteq known
    /\ stage \in {"health", "starting", "session"} /\ attempt = 0 /\ chatSession \in Sessions \cap ask => missed
    /\ stage \in {"listen", "sent"} /\ session \in ask => missed \/ <<session, session>> \in heard \cup hand

IInv == TypeOK /\ KeyGuarded /\ Trying /\ Ours /\ Asking

-----------------------------------------------------------------------------
(* The widget's table.                                                     *)

\* The mode of a chat is one of the three.
LEMMA ModeOf == ASSUME NEW s \in Setups PROVE chat_mode(s) \in Modes
BY PromptAssumption DEF chat_mode, Modes

\* An empty field, or one that is not there, gives way.
LEMMA FieldIsDecided ==
    ASSUME NEW s \in Setups, NEW m, NEW c, NEW useChat, useChat = (s.perChat /\ _has_own(s))
    PROVE  (IF ~useChat THEN m ELSE IF s.chatFirst THEN Or(Text(c), m) ELSE Or(m, Text(c))) = Decided(s, m, c)
<1>1. s.perChat \in BOOLEAN /\ s.chatFirst \in BOOLEAN
  BY PromptAssumption
<1>2. _has_own(s) \in BOOLEAN
  BY PromptAssumption DEF _has_own
<1>3. CASE Text(c) = ""
  BY <1>1, <1>2, <1>3 DEF Or, Decided
<1>4. CASE Text(c) # ""
  <2>1. Text(c) = c
    BY <1>4 DEF Text
  <2> QED
    BY <1>1, <1>2, <1>4, <2>1 DEF Or, Decided
<1> QED
  BY <1>3, <1>4

\* A job decides as the widget does, in each of the three modes.
LEMMA EffectiveIsTable ==
    ASSUME NEW s \in Setups
    PROVE  LET e == effective(s) IN <<e.provider, e.model>> = Table(s)
<1> DEFINE useChat == s.perChat /\ _has_own(s)
           legacyPi == useChat /\ LegacyPi(s)
           field(m, c) == IF ~useChat THEN m ELSE IF s.chatFirst THEN Or(Text(c), m) ELSE Or(m, Text(c))
<1>1. \A m, c : field(m, c) = Decided(s, m, c)
  BY FieldIsDecided
<1>2. ~useChat => \A m, c, d : Decided(s, m, c) = Decided(s, m, d)
  BY DEF Decided
<1>3. CASE chat_mode(s) = "opencode"
  <2>1. /\ effective(s).provider = field(s.ocMain[1], s.ocProvider)
        /\ effective(s).model = field(s.ocMain[2], s.ocModel)
    BY <1>3 DEF effective
  <2> QED
    BY <1>1, <1>3, <2>1 DEF Table
<1>4. CASE chat_mode(s) = "pi"
  <2>1. /\ effective(s).provider = field(s.piMain[1], IF legacyPi THEN s.chatProvider ELSE s.piProvider)
        /\ effective(s).model = field(s.piMain[2], IF legacyPi THEN s.chatModel ELSE s.piModel)
    BY <1>4 DEF effective
  <2> DEFINE old == {s.piProvider, s.piModel} = {None}
  <2>2. useChat => (legacyPi <=> old)
    BY <1>4 DEF LegacyPi
  <2>3. Table(s) = <<Decided(s, s.piMain[1], IF old THEN s.chatProvider ELSE s.piProvider),
                     Decided(s, s.piMain[2], IF old THEN s.chatModel ELSE s.piModel)>>
    BY <1>4 DEF Table
  <2> HIDE DEF useChat, legacyPi, field, old
  <2> QED
    BY <1>1, <1>2, <2>1, <2>2, <2>3
<1>5. CASE chat_mode(s) = "provider"
  <2> DEFINE projectModel == IF s.projectProvider = "" THEN "" ELSE s.projectModel
             mainDirect == Or(Or(s.projectProvider, s.mainProvider), "openai")
             provider == field(mainDirect, s.chatProvider)
             ownModel == IF useChat /\ Or(s.chatProvider, mainDirect) = provider THEN s.chatModel ELSE ""
             main == IF projectModel # "" /\ provider = s.projectProvider THEN projectModel ELSE model_for(s, provider)
             theirs == IF s.projectProvider = provider /\ s.projectModel # "" THEN s.projectModel ELSE model_for(s, provider)
             chosenFor == IF s.chatProvider = "" THEN mainDirect ELSE s.chatProvider
  <2>1. ~legacyPi
    BY <1>5 DEF LegacyPi
  <2>2. /\ effective(s).provider = provider
        /\ effective(s).model = field(main, ownModel)
    BY <1>5, <2>1 DEF effective
  <2>3. mainDirect = IF s.projectProvider # "" THEN s.projectProvider ELSE Or(s.mainProvider, "openai")
    BY DEF Or
  <2>4. mainDirect # ""
    BY DEF Or
  <2>5. Table(s) = <<provider, Decided(s, theirs, IF chosenFor = provider THEN s.chatModel ELSE "")>>
    <3> DEFINE M == IF s.projectProvider # "" THEN s.projectProvider ELSE Or(s.mainProvider, "openai")
               P == Decided(s, M, s.chatProvider)
               T == IF s.projectProvider = P /\ s.projectModel # "" THEN s.projectModel ELSE model_for(s, P)
               C == IF s.chatProvider = "" THEN M ELSE s.chatProvider
    <3>1. Table(s) = <<P, Decided(s, T, IF C = P THEN s.chatModel ELSE "")>>
      BY <1>5 DEF Table
    <3>2. M = mainDirect
      BY <2>3
    <3> HIDE DEF M, mainDirect, field
    <3>3. P = provider
      BY <1>1, <3>2
    <3>4. C = chosenFor
      BY <3>2
    <3> HIDE DEF P, C, provider, chosenFor
    <3>5. T = theirs
      BY <3>3
    <3> QED
      BY <3>1, <3>3, <3>4, <3>5
  <2>6. provider # ""
    <3> HIDE DEF field, mainDirect
    <3>1. provider = Decided(s, mainDirect, s.chatProvider)
      BY <1>1
    <3> QED
      BY <2>4, <3>1 DEF Decided, Text
  <2>7. main = theirs
    BY <2>6
  <2>8. useChat => ownModel = IF chosenFor = provider THEN s.chatModel ELSE ""
    BY DEF Or
  <2> HIDE DEF useChat, field, provider, main, theirs, ownModel, chosenFor
  <2> QED
    BY <1>1, <1>2, <2>2, <2>5, <2>7, <2>8
<1> HIDE DEF useChat
<1> QED
  BY <1>3, <1>4, <1>5, ModeOf DEF Modes

-----------------------------------------------------------------------------
(* Types.                                                                  *)

\* What is spent is still a purse.
LEMMA SpendTyped ==
    ASSUME budget \in Purses, NEW kind \in {"runs", "faults", "asks", "hops"}, Spend(kind)
    PROVE  budget' \in Purses
<1>1. budget[kind] \in Int /\ budget[kind] > 0
  BY DEF Purses, Spend
<1>2. budget[kind] - 1 \in Nat
  BY <1>1
<1>3. ASSUME NEW n \in Nat PROVE [budget EXCEPT ![kind] = n] \in Purses
  BY DEF Purses
<1> DEFINE n == budget[kind] - 1
<1>4. budget' = [budget EXCEPT ![kind] = n]
  BY DEF Spend
<1> HIDE DEF n
<1> QED
  BY <1>2, <1>3, <1>4 DEF n

LEMMA NextTyped == ASSUME TypeOK, Next PROVE TypeOK'
<1>0. \A kind \in {"runs", "faults", "asks", "hops"} : Spend(kind) => budget' \in Purses
  BY SpendTyped DEF TypeOK
<1>1. CASE _run_direct \/ send \/ _run_pi \/ Started \/ Post \/ Reply \/ Lost \/ Timeout
  <2>1. stage' \in Stages
    BY <1>1 DEF _run_direct, send, _run_pi, Started, Post, Reply, Lost, Timeout, TypeOK, Goes, Raises, Ends, Stages,
       keyVars, openCodeVars, chatVars, sessionVars, watchVars
  <2>2. UNCHANGED <<setup, mode, wallet, handle, key, request, server, temp, known, ask, stored, updates, chatSession,
                    session, attempt, created, watcher, heard, hand, refused, missed, budget>>
    BY <1>1 DEF _run_direct, send, _run_pi, Started, Post, Reply, Lost, Timeout, Goes, Raises, Ends, keyVars,
       openCodeVars, chatVars, sessionVars, watchVars
  <2> QED
    BY <2>1, <2>2 DEF TypeOK
<1>2. CASE isOpen \/ open \/ read_key \/ close \/ LockWallet
  <2>1. stage' \in Stages
    BY <1>2 DEF isOpen, open, read_key, close, LockWallet, TypeOK, Goes, CallFails, Stages, jobVars, keyVars,
       openCodeVars, chatVars, sessionVars, watchVars, EnvVars
  <2>2. wallet' \in {"open", "locked"}
    BY <1>2 DEF isOpen, open, read_key, close, LockWallet, TypeOK, Goes, CallFails, jobVars, keyVars, openCodeVars,
       chatVars, sessionVars, watchVars, EnvVars
  <2>3. handle' \in BOOLEAN
    BY <1>2 DEF isOpen, open, read_key, close, LockWallet, TypeOK, Goes, CallFails, jobVars, keyVars, openCodeVars,
       chatVars, sessionVars, watchVars, EnvVars
  <2>4. key' \in {"unread", "locked", "unavailable", "key", "empty"}
    BY <1>2 DEF isOpen, open, read_key, close, LockWallet, TypeOK, Goes, CallFails, jobVars, keyVars, openCodeVars,
       chatVars, sessionVars, watchVars, EnvVars
  <2>5. budget' \in Purses
    BY <1>0, <1>2 DEF isOpen, open, read_key, close, LockWallet, TypeOK, Goes, CallFails, jobVars, keyVars,
       openCodeVars, chatVars, sessionVars, watchVars, EnvVars
  <2>6. UNCHANGED <<setup, mode, request, server, temp, known, ask, stored, updates, chatSession, session, attempt,
                    created, watcher, heard, hand, refused, missed>>
    BY <1>2 DEF isOpen, open, read_key, close, LockWallet, Goes, CallFails, jobVars, keyVars, openCodeVars, chatVars,
       sessionVars, watchVars, EnvVars
  <2> QED
    BY <2>1, <2>2, <2>3, <2>4, <2>5, <2>6 DEF TypeOK
<1>3. CASE build_request \/ redirect_request
  <2>1. stage' \in Stages
    BY <1>3 DEF build_request, redirect_request, TypeOK, Goes, Raises, Stages, keyVars, openCodeVars, chatVars,
       sessionVars, watchVars
  <2>2. request' \in Requests
    <3>1. ASSUME NEW o \in Origins, NEW k \in BOOLEAN PROVE [at |-> o, home |-> o, keyed |-> k] \in Requests
      BY DEF Requests
    <3>2. CASE build_request
      <4>1. request' = request \/ \E o \in Origins, b \in BOOLEAN : request' = [at |-> o, home |-> o, keyed |-> key = "key" \/ b]
        BY <3>2 DEF build_request
      <4> QED
        BY <3>1, <4>1 DEF TypeOK
    <3>3. CASE redirect_request
      <4>1. PICK o \in Origins : request' = request \/ request' = [request EXCEPT !.at = o, !.keyed = @ /\ SameOrigin(request.at, o)]
        BY <3>3 DEF redirect_request
      <4>2. request.keyed \in BOOLEAN /\ SameOrigin(request.at, o) \in BOOLEAN
        BY DEF TypeOK, Requests, SameOrigin
      <4>3. \A k \in BOOLEAN : [request EXCEPT !.at = o, !.keyed = k] \in Requests
        BY DEF TypeOK, Requests
      <4> DEFINE k == request.keyed /\ SameOrigin(request.at, o)
      <4>4. k \in BOOLEAN
        BY <4>2
      <4>5. request' = request \/ request' = [request EXCEPT !.at = o, !.keyed = k]
        BY <4>1
      <4> HIDE DEF k
      <4> QED
        BY <4>3, <4>4, <4>5 DEF TypeOK
    <3> QED
      BY <1>3, <3>2, <3>3
  <2>3. budget' \in Purses
    BY <1>0, <1>3 DEF build_request, redirect_request, TypeOK, Goes, Raises, keyVars, openCodeVars, chatVars,
       sessionVars, watchVars
  <2>4. UNCHANGED <<setup, mode, wallet, handle, key, server, temp, known, ask, stored, updates, chatSession, session,
                    attempt, created, watcher, heard, hand, refused, missed>>
    BY <1>3 DEF build_request, redirect_request, Goes, Raises, keyVars, openCodeVars, chatVars, sessionVars, watchVars
  <2> QED
    BY <2>1, <2>2, <2>3, <2>4 DEF TypeOK
<1>4. CASE health \/ Close \/ Closed \/ ServerDown \/ TempUp \/ TempExits
  <2>1. stage' \in Stages
    BY <1>4 DEF health, Close, Closed, ServerDown, TempUp, TempExits, TypeOK, Goes, Raises, Waiting, Stages, jobVars,
       keyVars, chatVars, sessionVars, watchVars, EnvVars
  <2>2. server' \in {"up", "down"}
    BY <1>4 DEF health, Close, Closed, ServerDown, TempUp, TempExits, TypeOK, Goes, Raises, Waiting, jobVars, keyVars,
       chatVars, sessionVars, watchVars, EnvVars
  <2>3. temp' \in {"starting", "up", "terminating", None}
    BY <1>4 DEF health, Close, Closed, ServerDown, TempUp, TempExits, TypeOK, Goes, Raises, Waiting, jobVars, keyVars,
       chatVars, sessionVars, watchVars, EnvVars
  <2>4. ask' \in SUBSET Anyone
    BY <1>4 DEF health, Close, Closed, ServerDown, TempUp, TempExits, TypeOK, Goes, Raises, Waiting, Anyone, jobVars,
       keyVars, chatVars, sessionVars, watchVars, EnvVars
  <2>5. budget' \in Purses
    BY <1>0, <1>4 DEF health, Close, Closed, ServerDown, TempUp, TempExits, TypeOK, Goes, Raises, Waiting, jobVars,
       keyVars, chatVars, sessionVars, watchVars, EnvVars
  <2>6. UNCHANGED <<setup, mode, wallet, handle, key, request, known, stored, updates, chatSession, session, attempt,
                    created, watcher, heard, hand, refused, missed>>
    BY <1>4 DEF health, Close, Closed, ServerDown, TempUp, TempExits, Goes, Raises, Waiting, jobVars, keyVars,
       chatVars, sessionVars, watchVars, EnvVars
  <2> QED
    BY <2>1, <2>2, <2>3, <2>4, <2>5, <2>6 DEF TypeOK
<1>5. CASE find_chat
  <2>1. stage' \in Stages
    BY <1>5 DEF find_chat, TypeOK, Stages, keyVars, openCodeVars, chatVars, watchVars
  <2>2. setup' \in Setups \cup {None}
    BY <1>5 DEF find_chat, TypeOK, keyVars, openCodeVars, chatVars, watchVars
  <2>3. mode' \in Modes \cup {None}
    <3>1. setup # None => setup \in Setups
      BY DEF TypeOK
    <3>2. setup # None => effective(setup).mode \in Modes
      BY <3>1, ModeOf DEF effective, Modes
    <3>3. mode' = mode \/ (setup # None /\ mode' = effective(setup).mode)
      BY <1>5 DEF find_chat
    <3> QED
      BY <3>2, <3>3 DEF TypeOK
  <2>4. chatSession' \in OneOrNone
    BY <1>5 DEF find_chat, TypeOK, OneOrNone, keyVars, openCodeVars, chatVars, watchVars
  <2>5. UNCHANGED <<wallet, handle, key, request, server, temp, known, ask, stored, updates, session, attempt,
                    created, watcher, heard, hand, refused, missed, budget>>
    BY <1>5 DEF find_chat, keyVars, openCodeVars, chatVars, watchVars
  <2> QED
    BY <2>1, <2>2, <2>3, <2>4, <2>5 DEF TypeOK
<1>6. CASE NextRun
  <2>1. stage' \in Stages
    BY <1>6 DEF NextRun, TypeOK, Stages, openCodeVars, chatVars
  <2>2. key' \in {"unread", "locked", "unavailable", "key", "empty"}
    BY <1>6 DEF NextRun, TypeOK, openCodeVars, chatVars
  <2>3. request' \in Requests
    BY <1>6 DEF NextRun, TypeOK, Requests, Idle, openCodeVars, chatVars
  <2>4. chatSession' \in OneOrNone
    BY <1>6 DEF NextRun, TypeOK, OneOrNone, openCodeVars, chatVars
  <2>5. session' \in OneOrNone
    BY <1>6 DEF NextRun, TypeOK, OneOrNone, openCodeVars, chatVars
  <2>6. attempt' \in {0, 1}
    BY <1>6 DEF NextRun, TypeOK, openCodeVars, chatVars
  <2>7. created' \in Nat
    BY <1>6 DEF NextRun, TypeOK, openCodeVars, chatVars
  <2>8. watcher' \in Watchers
    BY <1>6 DEF NextRun, TypeOK, Watchers, NoWatcher, openCodeVars, chatVars
  <2>9. heard' \in SUBSET (Sessions \X Anyone)
    BY <1>6 DEF NextRun, TypeOK, openCodeVars, chatVars
  <2>10. hand' \in SUBSET (Sessions \X Anyone)
    BY <1>6 DEF NextRun, TypeOK, openCodeVars, chatVars
  <2>11. refused' \in SUBSET Anyone
    BY <1>6 DEF NextRun, TypeOK, openCodeVars, chatVars
  <2>12. missed' \in BOOLEAN
    <3>1. missed' = (stored \in ask)
      BY <1>6 DEF NextRun
    <3> QED
      BY <3>1
  <2>13. budget' \in Purses
    BY <1>0, <1>6 DEF NextRun, TypeOK, openCodeVars, chatVars
  <2>14. UNCHANGED <<setup, mode, wallet, handle, server, temp, known, ask, stored, updates>>
    BY <1>6 DEF NextRun, openCodeVars, chatVars
  <2> QED
    BY <2>1, <2>2, <2>3, <2>4, <2>5, <2>6, <2>7, <2>8, <2>9, <2>10, <2>11, <2>12, <2>13, <2>14 DEF TypeOK
<1>7. CASE Session
  <2>1. stage' \in Stages
    BY <1>7 DEF Session, TypeOK, Goes, Ends, Stages, keyVars, chatVars
  <2>2. known' \in SUBSET Sessions
    BY <1>7 DEF Session, TypeOK, Goes, Ends, keyVars, chatVars
  <2>3. created' \in Nat
    <3>1. created' = created \/ created' = created + 1
      BY <1>7 DEF Session
    <3> QED
      BY <3>1 DEF TypeOK
  <2>4. session' \in OneOrNone
    BY <1>7 DEF Session, TypeOK, Goes, Ends, OneOrNone, keyVars, chatVars
  <2>5. watcher' \in Watchers
    BY <1>7 DEF Session, TypeOK, Goes, Ends, Watchers, NoWatcher, keyVars, chatVars
  <2>6. budget' \in Purses
    BY <1>0, <1>7 DEF Session, TypeOK, Goes, Ends, keyVars, chatVars
  <2>7. UNCHANGED <<setup, mode, wallet, handle, key, request, server, temp, ask, stored, updates, chatSession,
                    attempt, heard, hand, refused, missed>>
    BY <1>7 DEF Session, Goes, Ends, keyVars, chatVars
  <2> QED
    BY <2>1, <2>2, <2>3, <2>4, <2>5, <2>6, <2>7 DEF TypeOK
<1>8. CASE HTTPError
  <2>1. stage' \in Stages
    BY <1>8 DEF HTTPError, TypeOK, Goes, Ends, Stages, keyVars, openCodeVars, chatVars, watchVars
  <2>2. session' \in OneOrNone
    <3>1. session' = session \/ session' = None
      BY <1>8 DEF HTTPError
    <3> QED
      BY <3>1 DEF TypeOK, OneOrNone
  <2>3. attempt' \in {0, 1}
    BY <1>8 DEF HTTPError, TypeOK, Goes, Ends, keyVars, openCodeVars, chatVars, watchVars
  <2>4. budget' \in Purses
    BY <1>0, <1>8 DEF HTTPError, TypeOK, Goes, Ends, keyVars, openCodeVars, chatVars, watchVars
  <2>5. UNCHANGED <<setup, mode, wallet, handle, key, request, server, temp, known, ask, stored, updates, chatSession,
                    created, watcher, heard, hand, refused, missed>>
    BY <1>8 DEF HTTPError, Goes, Ends, keyVars, openCodeVars, chatVars, watchVars
  <2> QED
    BY <2>1, <2>2, <2>3, <2>4, <2>5 DEF TypeOK
<1>9. CASE judge \/ Merge
  <2>1. stage' \in Stages
    BY <1>9 DEF judge, Merge, TypeOK, Stages, jobVars, keyVars, openCodeVars, sessionVars, watchVars
  <2>2. updates' \in Seq(Sessions)
    <3>1. updates \in Seq(Sessions) /\ session \in Sessions \cup {None}
      BY DEF TypeOK, OneOrNone
    <3>2. CASE judge
      <4>1. updates' = updates \/ (session # None /\ updates' = Append(updates, session))
        BY <3>2 DEF judge, KeepsSession
      <4> QED
        BY <3>1, <4>1
    <3>3. CASE Merge
      BY <3>1, <3>3, HeadTailProperties DEF Merge
    <3> QED
      BY <1>9, <3>2, <3>3
  <2>3. stored' \in OneOrNone
    <3>1. updates # <<>> => Head(updates) \in Sessions
      BY HeadTailProperties DEF TypeOK
    <3>2. stored' = stored \/ (updates # <<>> /\ stored' = Head(updates))
      BY <1>9 DEF judge, Merge, chatVars
    <3> QED
      BY <3>1, <3>2 DEF TypeOK, OneOrNone
  <2>4. UNCHANGED <<setup, mode, wallet, handle, key, request, server, temp, known, ask, chatSession, session,
                    attempt, created, watcher, heard, hand, refused, missed, budget>>
    BY <1>9 DEF judge, Merge, jobVars, keyVars, openCodeVars, sessionVars, watchVars
  <2> QED
    BY <2>1, <2>2, <2>3, <2>4 DEF TypeOK
<1>10. ASSUME NEW w \in Sessions, NEW s \in Anyone, Connect(w) \/ Drop(w) \/ Take(w, s) \/ Refuse(w, s) PROVE TypeOK'
  <2>1. ask' \in SUBSET Anyone
    BY <1>10 DEF Connect, Drop, Take, Refuse, TypeOK, Anyone, jobVars, keyVars, openCodeVars, chatVars, sessionVars
  <2>2. watcher' \in Watchers
    BY <1>10 DEF Connect, Drop, Take, Refuse, TypeOK, Watchers, NoWatcher, jobVars, keyVars, openCodeVars, chatVars,
       sessionVars
  <2>3. heard' \in SUBSET (Sessions \X Anyone)
    BY <1>10 DEF Connect, Drop, Take, Refuse, TypeOK, jobVars, keyVars, openCodeVars, chatVars, sessionVars
  <2>4. hand' \in SUBSET (Sessions \X Anyone)
    BY <1>10 DEF Connect, Drop, Take, Refuse, TypeOK, jobVars, keyVars, openCodeVars, chatVars, sessionVars
  <2>5. refused' \in SUBSET Anyone
    BY <1>10 DEF Connect, Drop, Take, Refuse, TypeOK, jobVars, keyVars, openCodeVars, chatVars, sessionVars
  <2>6. missed' \in BOOLEAN
    BY <1>10 DEF Connect, Drop, Take, Refuse, TypeOK, jobVars, keyVars, openCodeVars, chatVars, sessionVars
  <2>7. budget' \in Purses
    BY <1>0, <1>10 DEF Connect, Drop, Take, Refuse, TypeOK, jobVars, keyVars, openCodeVars, chatVars, sessionVars
  <2>8. UNCHANGED <<stage, setup, mode, wallet, handle, key, request, server, temp, known, stored, updates,
                    chatSession, session, attempt, created>>
    BY <1>10 DEF Connect, Drop, Take, Refuse, jobVars, keyVars, openCodeVars, chatVars, sessionVars
  <2> QED
    BY <2>1, <2>2, <2>3, <2>4, <2>5, <2>6, <2>7, <2>8 DEF TypeOK
<1>11. ASSUME NEW s \in Anyone, (s \in Sessions /\ Forget(s)) \/ Ask(s) \/ Answer(s) PROVE TypeOK'
  <2>1. known' \in SUBSET Sessions
    BY <1>11 DEF Forget, Ask, Answer, TypeOK, jobVars, keyVars, chatVars, sessionVars, watchVars, EnvVars
  <2>2. ask' \in SUBSET Anyone
    BY <1>11 DEF Forget, Ask, Answer, TypeOK, Anyone, jobVars, keyVars, chatVars, sessionVars, watchVars, EnvVars
  <2>3. heard' \in SUBSET (Sessions \X Anyone)
    BY <1>11 DEF Forget, Ask, Answer, TypeOK, jobVars, keyVars, chatVars, sessionVars, watchVars, EnvVars
  <2>4. missed' \in BOOLEAN
    BY <1>11 DEF Forget, Ask, Answer, TypeOK, jobVars, keyVars, chatVars, sessionVars, watchVars, EnvVars
  <2>5. budget' \in Purses
    BY <1>0, <1>11 DEF Forget, Ask, Answer, TypeOK, jobVars, keyVars, chatVars, sessionVars, watchVars, EnvVars
  <2>6. UNCHANGED <<stage, setup, mode, wallet, handle, key, request, server, temp, stored, updates, chatSession,
                    session, attempt, created, watcher, hand, refused>>
    BY <1>11 DEF Forget, Ask, Answer, jobVars, keyVars, chatVars, sessionVars, watchVars, EnvVars
  <2> QED
    BY <2>1, <2>2, <2>3, <2>4, <2>5, <2>6 DEF TypeOK
<1> QED
  BY <1>1, <1>2, <1>3, <1>4, <1>5, <1>6, <1>7, <1>8, <1>9, <1>10, <1>11 DEF Next, JobStep, WatchStep, Around, Anyone

-----------------------------------------------------------------------------
(* The key and the wallet.                                                 *)

LEMMA NextGuarded == ASSUME TypeOK, KeyGuarded, Next PROVE KeyGuarded'
<1> USE DEF KeyGuarded, HandleReturned, KeyStaysHome
<1>1. CASE isOpen \/ open \/ read_key \/ close \/ LockWallet
  <2>1. HandleReturned'
    BY <1>1 DEF isOpen, open, read_key, close, LockWallet, Goes, CallFails, EnvVars, jobVars, keyVars
  <2>2. UNCHANGED request
    BY <1>1 DEF isOpen, open, read_key, close, LockWallet, EnvVars
  <2> QED
    BY <2>1, <2>2
<1>2. CASE build_request \/ redirect_request \/ NextRun
  <2>1. KeyStaysHome'
    <3>1. CASE build_request
      <4>1. request' = request \/ \E o \in Origins, b \in BOOLEAN : request' = [at |-> o, home |-> o, keyed |-> key = "key" \/ b]
        BY <3>1 DEF build_request
      <4> QED
        BY <4>1
    <3>2. CASE redirect_request
      <4>1. PICK o \in Origins : request' = request \/ request' = [request EXCEPT !.at = o, !.keyed = @ /\ SameOrigin(request.at, o)]
        BY <3>2 DEF redirect_request
      <4>2. DOMAIN request = {"at", "home", "keyed"}
        BY DEF TypeOK, Requests
      <4>3. CASE request' = [request EXCEPT !.at = o, !.keyed = @ /\ SameOrigin(request.at, o)]
        <5>1. request'.at = o /\ request'.home = request.home /\ request'.keyed = (request.keyed /\ request.at = o)
          BY <4>2, <4>3 DEF SameOrigin
        <5> QED
          BY <5>1
      <4> QED
        BY <4>1, <4>3
    <3>3. CASE NextRun
      BY <3>3 DEF NextRun, Idle
    <3> QED
      BY <1>2, <3>1, <3>2, <3>3
  <2>2. UNCHANGED handle /\ stage \notin {"read", "close"}
    BY <1>2 DEF build_request, redirect_request, NextRun, keyVars, Goes, Raises
  <2> QED
    BY <2>1, <2>2
<1>3. CASE find_chat \/ _run_direct \/ send \/ _run_pi \/ health \/ Started \/ Session \/ Post
  <2>1. UNCHANGED <<handle, request>> /\ stage \notin {"read", "close"}
    BY <1>3 DEF find_chat, _run_direct, send, _run_pi, health, Started, Session, Post, keyVars, Goes, Raises, Ends
  <2> QED
    BY <2>1
<1>4. CASE HTTPError \/ Reply \/ Lost \/ Timeout \/ Close \/ Closed \/ judge
  <2>1. UNCHANGED <<handle, request>> /\ stage \notin {"read", "close"}
    BY <1>4 DEF HTTPError, Reply, Lost, Timeout, Close, Closed, judge, keyVars, Goes, Ends
  <2> QED
    BY <2>1
<1>5. CASE WatchStep \/ Merge \/ ServerDown \/ TempUp \/ TempExits
           \/ (\E s \in Sessions : Forget(s)) \/ (\E s \in Anyone : Ask(s) \/ Answer(s))
  <2>1. UNCHANGED <<handle, request, stage>>
    BY <1>5 DEF WatchStep, Connect, Drop, Take, Refuse, Merge, ServerDown, TempUp, TempExits, Forget, Ask, Answer,
       EnvVars, jobVars, keyVars
  <2> QED
    BY <2>1
<1> QED
  BY <1>1, <1>2, <1>3, <1>4, <1>5 DEF Next, JobStep, Around, Anyone

-----------------------------------------------------------------------------
(* The session's requests.                                                 *)

Trails == {"find_chat", "health", "starting", "session", "listen", "sent"}

\* A step that leaves the run's sessions and its watchers, goes on in the run or ends it, and lets nobody new wait.
Onward ==
    /\ UNCHANGED <<sessionVars, watchVars>>
    /\ ask' \subseteq ask /\ ask' \cap Sessions \subseteq known'
    /\ \/ stage' = stage
       \/ stage' \notin Trails
       \/ <<stage, stage'>> \in {<<"health", "session">>, <<"health", "starting">>, <<"starting", "session">>, <<"listen", "sent">>}

LEMMA Carries ==
    ASSUME TypeOK, Trying, Ours, Asking, Onward
    PROVE  Trying' /\ Ours' /\ Asking'
<1>1. Ours'
  BY DEF Onward, Ours, sessionVars, watchVars
<1>2. Trying'
  BY DEF Onward, Trying, Trails, sessionVars, watchVars
<1>3. Asking'
  BY DEF Onward, Asking, Trying, Trails, sessionVars, watchVars
<1> QED
  BY <1>1, <1>2, <1>3

LEMMA JobOnward ==
    ASSUME TypeOK, Asking,
           \/ _run_direct \/ isOpen \/ open \/ read_key \/ close \/ build_request \/ redirect_request \/ send \/ _run_pi
           \/ health \/ Started \/ Post \/ Reply \/ Lost \/ Timeout \/ Close \/ Closed \/ judge
    PROVE  Onward
<1>1. UNCHANGED <<sessionVars, watchVars, known>> /\ ask' \subseteq ask
  <2>1. CASE _run_direct \/ isOpen \/ open \/ read_key \/ close \/ build_request \/ redirect_request \/ send \/ _run_pi
    BY <2>1 DEF _run_direct, isOpen, open, read_key, close, build_request, redirect_request, send, _run_pi, openCodeVars
  <2>2. CASE health \/ Started \/ Post \/ Reply \/ Lost \/ Timeout \/ Close \/ Closed \/ judge
    BY <2>2 DEF health, Started, Post, Reply, Lost, Timeout, Close, Closed, judge, openCodeVars, Waiting
  <2> QED
    BY <2>1, <2>2
<1>2. \/ stage' \notin Trails
      \/ <<stage, stage'>> \in {<<"health", "session">>, <<"health", "starting">>, <<"starting", "session">>, <<"listen", "sent">>}
  <2>1. CASE _run_direct \/ isOpen \/ open \/ read_key \/ close \/ build_request \/ redirect_request \/ send \/ _run_pi
    BY <2>1 DEF _run_direct, isOpen, open, read_key, close, build_request, redirect_request, send, _run_pi, Goes, Raises, Trails
  <2>2. CASE health \/ Started \/ Post \/ Reply \/ Lost \/ Timeout \/ Close \/ Closed \/ judge
    BY <2>2 DEF health, Started, Post, Reply, Lost, Timeout, Close, Closed, judge, Goes, Raises, Ends, Trails
  <2> QED
    BY <2>1, <2>2
<1> QED
  BY <1>1, <1>2 DEF Onward, Asking

LEMMA AroundOnward ==
    ASSUME TypeOK, Asking,
           \/ Merge \/ LockWallet \/ ServerDown \/ TempUp \/ TempExits \/ (\E s \in Sessions : Forget(s))
           \/ (\E s \in Anyone : Answer(s)) \/ UNCHANGED vars
    PROVE  Onward
<1>1. UNCHANGED <<stage, sessionVars, watchVars>>
  BY DEF Merge, LockWallet, ServerDown, TempUp, TempExits, Forget, Answer, EnvVars, jobVars, vars
<1>2. ask' \subseteq ask /\ ask' \cap Sessions \subseteq known'
  BY DEF Merge, LockWallet, ServerDown, TempUp, TempExits, Forget, Answer, Waiting, Asking, openCodeVars, vars
<1> QED
  BY <1>1, <1>2 DEF Onward

\* The chat is found: nobody has asked anything yet.
LEMMA FoundKeeps == ASSUME TypeOK, Trying, Ours, Asking, find_chat PROVE Trying' /\ Ours' /\ Asking'
<1>1. /\ stage' \in {"over", "_run_direct", "health", "pi"} /\ stage = "find_chat"
      /\ UNCHANGED <<session, attempt, created, watchVars, known, ask>>
  BY DEF find_chat, openCodeVars
<1>2. session = None /\ attempt = 0 /\ watcher = NoWatcher /\ hand = {} /\ refused = {} /\ ask = {}
  BY <1>1 DEF Trying
<1>3. Trying'
  BY <1>1, <1>2 DEF Trying
<1>4. Ours'
  BY <1>1, <1>2 DEF Ours, NoWatcher, watchVars
<1>5. Asking'
  BY <1>1, <1>2 DEF Asking
<1> QED
  BY <1>3, <1>4, <1>5

\* The next run begins anew; what its session had asked before is missed.
LEMMA NextRunKeeps == ASSUME TypeOK, Asking, NextRun PROVE Trying' /\ Ours' /\ Asking'
<1>1. /\ stage' \in {"_run_direct", "health", "pi"} /\ UNCHANGED <<known, ask>>
      /\ chatSession' = stored /\ session' = None /\ attempt' = 0
      /\ watcher' = NoWatcher /\ hand' = {} /\ refused' = {} /\ missed' = (stored \in ask)
  BY DEF NextRun, openCodeVars
<1>2. Trying'
  BY <1>1 DEF Trying
<1>3. Ours'
  BY <1>1 DEF Ours, NoWatcher
<1>4. Asking'
  BY <1>1 DEF Asking
<1> QED
  BY <1>2, <1>3, <1>4

\* A session is taken up, or made: then nobody waits in it.
LEMMA SessionKeeps == ASSUME TypeOK, Trying, Ours, Asking, Session PROVE Trying' /\ Ours' /\ Asking'
<1>1. CASE stage' = "close_server"
  <2>1. Onward
    BY <1>1 DEF Session, Onward, Trails, Goes, Ends, sessionVars, watchVars, Asking
  <2> QED
    BY <2>1, Carries
<1>2. CASE stage' # "close_server"
  <2>1. PICK s \in Sessions :
          /\ IF attempt = 0 /\ chatSession # None
             THEN s = chatSession /\ UNCHANGED <<known, created>>
             ELSE s \notin known /\ known' = known \cup {s}
          /\ session' = s /\ watcher' = [watcher EXCEPT ![s] = "connecting"]
          /\ stage = "session" /\ stage' = "listen"
    BY <1>2 DEF Session, Goes, Ends
  <2>2. UNCHANGED <<ask, chatSession, attempt, heard, hand, refused, missed>>
    BY DEF Session
  <2>3. session = None /\ watcher \in Watchers /\ None \notin Sessions
    BY <2>1, PromptAssumption DEF Trying, TypeOK
  <2>4. Trying'
    BY <2>1, <2>2 DEF Trying
  <2>5. Ours'
    <3>1. \A w \in Sessions : watcher'[w] # "off" => w \in {session', chatSession'}
      BY <2>1, <2>2, <2>3 DEF Ours, Watchers
    <3>2. \A h \in hand' : h[1] = h[2] /\ watcher'[h[1]] # "off"
      <4>1. \A h \in hand : h[1] \in Sessions
        BY DEF TypeOK
      <4> QED
        BY <2>1, <2>2, <2>3, <4>1 DEF Ours, Watchers
    <3>3. \A x \in refused' : x \in Sessions /\ x \in {session', chatSession'}
      BY <2>1, <2>2, <2>3 DEF Ours
    <3> QED
      BY <3>1, <3>2, <3>3 DEF Ours
  <2>6. Asking'
    <3>1. ask' \cap Sessions \subseteq known'
      BY <2>1, <2>2 DEF Asking
    <3>2. session' \in ask => missed
      BY <2>1, <2>2 DEF Asking
    <3> QED
      BY <2>1, <2>2, <3>1, <3>2 DEF Asking
  <2> QED
    BY <2>4, <2>5, <2>6
<1> QED
  BY <1>1, <1>2

\* A session that is not known is given up, once: it was the chat's.
LEMMA HTTPErrorKeeps == ASSUME TypeOK, Trying, Ours, Asking, HTTPError PROVE Trying' /\ Ours' /\ Asking'
<1>1. UNCHANGED <<known, ask, chatSession, watchVars>> /\ stage = "sent"
  BY DEF HTTPError, openCodeVars
<1>2. CASE stage' = "close_server"
  <2>1. Onward
    BY <1>1, <1>2 DEF HTTPError, Onward, Trails, Goes, Ends, sessionVars, Asking
  <2> QED
    BY <2>1, Carries
<1>3. CASE stage' # "close_server"
  <2>1. stage' = "session" /\ session' = None /\ attempt' = 1 /\ attempt = 0 /\ chatSession # None
    BY <1>3 DEF HTTPError, Goes, Ends, Retries
  <2>2. session = chatSession
    BY <1>1, <2>1 DEF Trying
  <2>3. Trying'
    BY <2>1 DEF Trying
  <2>4. Ours'
    BY <1>1, <2>1, <2>2 DEF Ours, watchVars
  <2>5. Asking'
    BY <1>1, <2>1 DEF Asking
  <2> QED
    BY <2>3, <2>4, <2>5
<1> QED
  BY <1>2, <1>3

\* The watchers connect, hear, and refuse what their own session asks.
LEMMA WatchKeeps ==
    ASSUME TypeOK, Trying, Ours, Asking,
           NEW w \in Sessions, NEW s \in Anyone, Connect(w) \/ Drop(w) \/ Take(w, s) \/ Refuse(w, s)
    PROVE  Trying' /\ Ours' /\ Asking'
<1>1. UNCHANGED <<stage, sessionVars, known>> /\ ask' \subseteq ask
  BY DEF Connect, Drop, Take, Refuse, openCodeVars, jobVars
<1>2. watcher \in Watchers /\ hand \subseteq Sessions \X Anyone /\ missed \in BOOLEAN
  BY DEF TypeOK
<1>3. Trying'
  <2>1. stage # "find_chat"
    BY DEF Connect, Drop, Take, Refuse, Trying, NoWatcher
  <2> QED
    BY <1>1, <2>1 DEF Trying, sessionVars
<1>4. Ours'
  <2>1. \A v \in Sessions : watcher'[v] # "off" => watcher[v] # "off"
    BY <1>2 DEF Connect, Drop, Take, Refuse, Watchers
  <2>2. \A h \in hand' : h[1] = h[2] /\ watcher'[h[1]] # "off"
    <3>1. CASE Connect(w)
      BY <1>2, <3>1 DEF Connect, Ours, Watchers
    <3>2. CASE Drop(w)
      BY <1>2, <3>2 DEF Drop, Ours, Watchers
    <3>3. CASE Take(w, s)
      BY <1>2, <3>3 DEF Take, Own, Ours, Watchers
    <3>4. CASE Refuse(w, s)
      BY <1>2, <3>4 DEF Refuse, Ours, Watchers
    <3> QED
      BY <3>1, <3>2, <3>3, <3>4
  <2>3. \A x \in refused' : x \in Sessions /\ x \in {session, chatSession}
    <3>1. CASE Refuse(w, s)
      <4>1. s = w /\ watcher[w] # "off"
        BY <3>1 DEF Refuse, Ours
      <4>2. refused' \subseteq refused \cup {s}
        BY <3>1 DEF Refuse
      <4> QED
        BY <4>1, <4>2 DEF Ours
    <3>2. CASE UNCHANGED refused
      BY <3>2 DEF Ours
    <3> QED
      BY <3>1, <3>2 DEF Connect, Drop, Take
  <2> QED
    BY <1>1, <2>1, <2>2, <2>3 DEF Ours, sessionVars
<1>5. Asking'
  <2>1. missed => missed'
    BY DEF Connect, Drop, Take, Refuse
  <2>2. session \in ask' /\ <<session, session>> \in heard \cup hand => missed' \/ <<session, session>> \in heard' \cup hand'
    <3>1. CASE Connect(w)
      BY <3>1 DEF Connect
    <3>2. CASE Drop(w)
      BY <3>2 DEF Drop
    <3>3. CASE Take(w, s)
      BY <3>3 DEF Take, Own
    <3>4. CASE Refuse(w, s)
      BY <3>4 DEF Refuse
    <3> QED
      BY <3>1, <3>2, <3>3, <3>4
  <2> QED
    BY <1>1, <2>1, <2>2 DEF Asking, sessionVars
<1> QED
  BY <1>3, <1>4, <1>5

\* Somebody asks: who listens hears it.
LEMMA AskKeeps ==
    ASSUME TypeOK, Trying, Ours, Asking, NEW s \in Anyone, Ask(s)
    PROVE  Trying' /\ Ours' /\ Asking'
<1>1. UNCHANGED <<stage, sessionVars, known, watcher, hand, refused>> /\ stage = "sent" /\ ask' = ask \cup {s}
  BY DEF Ask, EnvVars, jobVars
<1>2. session \in Sessions
  BY <1>1 DEF Trying
<1>3. Trying'
  BY <1>1 DEF Trying, sessionVars
<1>4. Ours'
  BY <1>1 DEF Ours, sessionVars
<1>5. Asking'
  <2>1. ask' \cap Sessions \subseteq known'
    BY <1>1, PromptAssumption DEF Ask, Asking
  <2>2. (missed => missed') /\ heard \subseteq heard'
    BY DEF Ask
  <2>3. s = session => missed' \/ <<session, session>> \in heard'
    BY <1>2 DEF Ask
  <2> QED
    BY <1>1, <2>1, <2>2, <2>3 DEF Asking, sessionVars
<1> QED
  BY <1>3, <1>4, <1>5

-----------------------------------------------------------------------------
(* Theorems.                                                               *)

LEMMA InitInv == Init => IInv
<1> SUFFICES ASSUME Init PROVE IInv
  OBVIOUS
<1>1. TypeOK
  <2>1. NoWatcher \in Watchers /\ Idle \in Requests /\ <<>> \in Seq(Sessions)
    BY DEF NoWatcher, Watchers, Idle, Requests
  <2>2. budget \in Purses
    BY PromptAssumption DEF Init, Purses
  <2>3. stage \in Stages
    BY DEF Init, Stages
  <2>4. stored \in OneOrNone /\ known \in SUBSET Sessions
    BY DEF Init, OneOrNone
  <2> QED
    BY <2>1, <2>2, <2>3, <2>4 DEF Init, TypeOK, OneOrNone
<1>2. KeyGuarded
  BY DEF Init, KeyGuarded, HandleReturned, KeyStaysHome, Idle
<1>3. Trying /\ Ours
  BY DEF Init, Trying, Ours, NoWatcher
<1>4. Asking
  BY DEF Init, Asking
<1> QED
  BY <1>1, <1>2, <1>3, <1>4 DEF IInv

LEMMA NextInv == IInv /\ [Next]_vars => IInv'
<1> SUFFICES ASSUME TypeOK, KeyGuarded, Trying, Ours, Asking, [Next]_vars PROVE IInv'
  BY DEF IInv
<1>1. CASE UNCHANGED vars
  <2>1. TypeOK' /\ KeyGuarded'
    BY <1>1 DEF vars, jobVars, keyVars, openCodeVars, chatVars, sessionVars, watchVars, TypeOK, KeyGuarded,
       HandleReturned, KeyStaysHome
  <2>2. Onward
    BY <1>1, AroundOnward
  <2> QED
    BY <2>1, <2>2, Carries DEF IInv
<1>2. CASE Next
  <2>1. TypeOK' /\ KeyGuarded'
    BY <1>2, NextTyped, NextGuarded
  <2>2. Trying' /\ Ours' /\ Asking'
    <3>1. CASE JobStep
      BY <3>1, JobOnward, Carries, FoundKeeps, SessionKeeps, HTTPErrorKeeps DEF JobStep
    <3>2. CASE WatchStep
      BY <3>2, WatchKeeps DEF WatchStep, Anyone
    <3>3. CASE Around
      BY <3>3, AroundOnward, Carries, NextRunKeeps, AskKeeps DEF Around, Anyone
    <3> QED
      BY <1>2, <3>1, <3>2, <3>3 DEF Next
  <2> QED
    BY <2>1, <2>2 DEF IInv
<1> QED
  BY <1>1, <1>2

LEMMA Invariant == Spec => []IInv
BY InitInv, NextInv, PTL DEF Spec

\* Every variable of a run keeps its type (schedule_exec.run_prompt and what it calls).
THEOREM PromptTyped == Spec => []TypeOK
<1>1. IInv => TypeOK  BY DEF IInv
<1> QED  BY <1>1, Invariant, PTL

\* A job decides on the provider and model that the widget would use, for any chat, project and settings
\* (schedule_context.effective and chat/EffectiveConfig.js).
THEOREM SpecSameAsWidget == Spec => []SameAsWidget
<1>1. TypeOK => SameAsWidget
  BY EffectiveIsTable DEF TypeOK, SameAsWidget
<1> QED  BY <1>1, PromptTyped, PTL

\* The wallet is closed again and the key sent only where it belongs, however often a provider redirects
\* (schedule_wallet.read_key, http_safe.redirect_request).
THEOREM SpecKeyGuarded == Spec => []KeyGuarded
<1>1. IInv => KeyGuarded  BY DEF IInv
<1> QED  BY <1>1, Invariant, PTL

\* What the run's agent asks is refused, on its way or missed; what others ask is left to them
\* (schedule_opencode._watch and _answer).
THEOREM SpecAgentsHeard == Spec => []AgentsHeard
<1>1. IInv => AgentsHeard
  BY DEF IInv, Ours, Asking, AgentsHeard, OwnAsksOnly, AskedIsHeard
<1> QED  BY <1>1, Invariant, PTL

=============================================================================
