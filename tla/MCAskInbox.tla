----------------------------- MODULE MCAskInbox -----------------------------
\* AskInbox with what KRunner, the Dolphin menu, the shortcut and the command ask, and one chat besides the new ones.
EXTENDS AskInbox
CONSTANTS c1, w1, w2
Ask(text, f, newChat, send) == [text |-> text, file |-> f, newChat |-> newChat, send |-> send]
AnyKinds == {Ask(TRUE, "no", TRUE, TRUE), Ask(FALSE, "good", FALSE, FALSE), Ask(TRUE, "refused", FALSE, TRUE)}
SomeTroubles == {[faults |-> 1, steps |-> 1], [faults |-> 0, steps |-> 2]}
=============================================================================
