SPECIFICATION FairSpec
CONSTANTS
    c1 = c1
    c2 = c2
    Grace = 0
    HistoryLimit = 2
    Ids = {s1}
    Cmds = {c1}
    Drafts <- LiveDrafts
    None = None
    MaxTime = 4
    MaxCommands = 2
    JobCrashes = 0
    CmdCrashes = 1
    Failures = TRUE
    JobFailures = 1
    MaxFolds = 0
INVARIANT FiringHasUnitFile
PROPERTY StrayTimerStops
PROPERTY DueIsHandled
CHECK_DEADLOCK FALSE
