SPECIFICATION FairSpec
CHECK_DEADLOCK FALSE
CONSTANTS
    w1 = w1
    j1 = j1
    p1 = p1
    p2 = p2
    k1 = k1
    k2 = k2
    Clients <- WidgetAndJob
    Jobs <- OneJob
    Pis <- TwoPis
    Keys <- TwoKeys
    UsualKey <- k1
    None = None
    MaxTurns = 1
INVARIANTS
    OnePrompt
    OnlyIdleRetired
PROPERTIES
    AttemptEnds
