---------------------------- MODULE MCScheduleJob ----------------------------
(* Instances of ScheduleJob for TLC.                                       *)
EXTENDS ScheduleJob, TLC

CONSTANTS c1, c2
TwoCmds == {c1, c2}
Alike == Permutations(TwoCmds)

Repeating == {1, 2, 3, 9}
Plain == [enabled |-> TRUE, rules |-> Repeating, lines |-> Repeating,
          start |-> 0, end |-> 9, limit |-> 0, catchUp |-> 0]

Limit1 == [Plain EXCEPT !.limit = 1]
Off == [Plain EXCEPT !.enabled = FALSE]
\* The first instant only: the timer also wakes the job on the second.
Guarded == [Plain EXCEPT !.rules = {1}, !.lines = {1, 2}, !.catchUp = 1, !.end = 1]
CatchingUp == [Plain EXCEPT !.catchUp = 2]

OnceDrafts == {[CatchingUp EXCEPT !.limit = 1], Guarded}
LiveDrafts == {Limit1, CatchingUp, Off}
=============================================================================
