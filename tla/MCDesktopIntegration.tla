------------------------ MODULE MCDesktopIntegration ------------------------
\* DesktopIntegration with a KRunner that types "a q" in two ways, and other callers.
EXTENDS DesktopIntegration

a == 2
q == 3
OnePrefix == {<<a>>}
Typed == {<<a + Upper, Space, Space, q>>, <<a, q>>}
Of(member, sig, body, noReply) ==
    [path |-> RunnerPath, interface |-> INTERFACE_krunner1, member |-> member, sig |-> sig, body |-> body, flags |-> noReply]
Others == {Of(Member.Match, <<"h">>, <<>>, 0), Of(Member.Teardown, <<>>, <<>>, NO_REPLY_EXPECTED),
           Of(Member.Run, <<"s", "s">>, << <<q, q>>, <<>> >>, 0), Of(Member.Match, <<"s">>, << [i \in 1 .. 60 |-> q] >>, 0)}
TwoChoices == {[krunner |-> TRUE, dolphin |-> FALSE, selection |-> TRUE, prefix |-> <<a>>],
               [krunner |-> FALSE, dolphin |-> TRUE, selection |-> FALSE, prefix |-> <<a>>]}
=============================================================================
