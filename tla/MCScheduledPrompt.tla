---------------------------- MODULE MCScheduledPrompt ----------------------------
\* ScheduledPrompt with three OpenCode sessions and every chat of small fields.
EXTENDS ScheduledPrompt

Old == [source |-> "", hasSession |-> FALSE, piMessage |-> FALSE, ownModel |-> None,
        chatProvider |-> "", chatModel |-> "", ocProvider |-> "", ocModel |-> "", piProvider |-> None, piModel |-> None,
        projectProvider |-> "", projectModel |-> "", mainProvider |-> "", ocMain |-> <<"", "">>, piMain |-> <<"", "">>,
        models |-> [p1 |-> "m1"], perChat |-> TRUE, chatFirst |-> TRUE]

\* The settings of the widget and the flag of the chat.
Switched(s) ==
    {[s EXCEPT !.perChat = p, !.chatFirst = f, !.ownModel = o] : p \in BOOLEAN, f \in BOOLEAN, o \in {TRUE, FALSE, None}}

Direct ==
    UNION {Switched([Old EXCEPT !.source = x, !.chatProvider = c, !.chatModel = m, !.projectProvider = q[1],
                                !.projectModel = q[2], !.mainProvider = p]) :
             x \in {"", "provider"}, c \in {"", "p1", "p2"}, m \in {"", "m3"}, p \in {"", "p1"},
             q \in {<<"", "">>, <<"p2", "">>, <<"p2", "m2">>}}

OpenCode ==
    UNION {Switched([Old EXCEPT !.source = x[1], !.hasSession = x[2], !.ocProvider = c, !.ocModel = m, !.ocMain = q,
                                !.chatProvider = d]) :
             x \in {<<"", TRUE>>, <<"opencode", TRUE>>, <<"opencode", FALSE>>}, c \in {"", "p1"}, m \in {"", "m3"},
             q \in {<<"", "">>, <<"p2", "m2">>}, d \in {"", "p2"}}

Pi ==
    UNION {Switched([Old EXCEPT !.source = x[1], !.piMessage = x[2], !.piProvider = c, !.piModel = m, !.piMain = q,
                                !.chatProvider = d, !.chatModel = e]) :
             x \in {<<"", TRUE>>, <<"pi", FALSE>>}, c \in {None, "", "p1"}, m \in {None, "", "m3"},
             q \in {<<"", "">>, <<"p2", "m2">>}, d \in {"", "p2"}, e \in {"", "m2"}}

AnyChat == Direct \cup OpenCode \cup Pi
==============================================================================
