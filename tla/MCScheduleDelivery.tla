-------------------------- MODULE MCScheduleDelivery --------------------------
\* ScheduleDelivery with two or three chats and one or two scheduled runs.
EXTENDS ScheduleDelivery
CONSTANTS c1, c2, c3, r1, r2
TwoChats == {c1, c2}
ThreeChats == {c1, c2, c3}
AnyChat == Permutations(ThreeChats)
OneRun == {r1}
TwoRuns == {r1, r2}

Nothing == [b \in BudgetNames |-> 0]
Sending == [Nothing EXCEPT !.sends = 1]
\* Crashes, damage and Undo while no run is delivered.
Damaging == [Sending EXCEPT !.kills = 1, !.quits = 1, !.undos = 1, !.damage = 2, !.lost = 1, !.edits = 3]
\* A run is delivered while widget and job end and start again.
Delivering == [Sending EXCEPT !.kills = 1, !.quits = 1, !.edits = 1, !.runs = 1, !.deaths = 1]
\* A run is delivered to a chat that is deleted and brought back.
Returning == [Sending EXCEPT !.kills = 1, !.quits = 1, !.undos = 1, !.edits = 2, !.runs = 1, !.deaths = 1]
Mishaps == {Damaging, Delivering, Returning}
\* Two runs are delivered to a widget that stays up.
Calm == {[Sending EXCEPT !.edits = 1, !.runs = 2]}
=============================================================================
