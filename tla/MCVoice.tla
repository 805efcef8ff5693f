------------------------------- MODULE MCVoice -------------------------------
\* Voice with three users of Speech Note, and one of a recorder.
EXTENDS Voice, TLC
CONSTANTS d1, d2, s1
User(listens, reads, clicks) == [listens |-> listens, reads |-> reads, clicks |-> clicks]
ThreeUsers == {User(2, 0, 2), User(1, 1, 1), User(0, 2, 1), User(0, 0, 0)}
Alike == Permutations({d1, d2})
=============================================================================
