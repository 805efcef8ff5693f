SPECIFICATION DeliverySpec
CHECK_DEADLOCK FALSE
CONSTANTS
    c1 = c1
    c2 = c2
    c3 = c3
    r1 = r1
    r2 = r2
    Chats <- ThreeChats
    Runs <- OneRun
    None = None
    Bad = Bad
    Partial = Partial
    Interrupted = Interrupted
    Reply = Reply
    Budgets <- Mishaps
SYMMETRY AnyChat
INVARIANTS
    RestartShowsRuns
    ListIntact
    RunKept
PROPERTIES
    DamagedFileStays
