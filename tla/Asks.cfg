SPECIFICATION FairSpec
CHECK_DEADLOCK FALSE
CONSTANTS
    c1 = c1
    w1 = w1
    w2 = w2
    Widgets = {w1, w2}
    Used = {w1}
    Chats = {c1}
    Kinds <- AnyKinds
    MaxRequests = 2
    MaxTicks = 1
    Budgets <- SomeTroubles
INVARIANTS
    RequestKept
    SentAsAsked
PROPERTIES
    RequestApplied
