SPECIFICATION Spec
CHECK_DEADLOCK FALSE
SYMMETRY Alike
CONSTANTS
    c1 = c1
    c2 = c2
    c3 = c3
    Chats <- ThreeChats
    None = None
    Budgets <- Mixtures
INVARIANTS
    StopReaches
    AskedIsPending
    OwnChat
    QueuedStays
