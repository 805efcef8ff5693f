SPECIFICATION FairDelivery
CHECK_DEADLOCK FALSE
CONSTANTS
    c1 = c1
    c2 = c2
    c3 = c3
    r1 = r1
    r2 = r2
    Chats <- TwoChats
    Runs <- TwoRuns
    None = None
    Bad = Bad
    Partial = Partial
    Interrupted = Interrupted
    Reply = Reply
    Budgets <- Calm
INVARIANTS
    MergedAgree
PROPERTIES
    RunArrives
