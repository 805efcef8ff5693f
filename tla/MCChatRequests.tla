---------------------------- MODULE MCChatRequests ----------------------------
\* ChatRequests with three chats, and one of four mixtures of what may happen: a queue beside the
\* model's questions and errors in two chats, rewrites, edits and settings in one chat, and three
\* chats that are created, switched, deleted, brought back and reloaded, and a question in a chat that
\* is cleared and brought back.
EXTENDS ChatRequests, TLC
CONSTANTS c1, c2, c3
ThreeChats == {c1, c2, c3}
Nothing == [b \in BudgetNames |-> 0]
Mixtures ==
    {[Nothing EXCEPT !.messages = 3, !.asks = 1, !.fails = 1, !.moves = 2],
     [Nothing EXCEPT !.messages = 2, !.asks = 1, !.fails = 1, !.rewrites = 1, !.edits = 1, !.settings = 1],
     [Nothing EXCEPT !.messages = 2, !.moves = 1, !.deletes = 1, !.rewrites = 1, !.undos = 1, !.rebuilds = 1],
     [Nothing EXCEPT !.messages = 2, !.asks = 1, !.deletes = 1, !.undos = 1]}
Alike == Permutations(ThreeChats)
=============================================================================
