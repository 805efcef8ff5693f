SPECIFICATION Spec
CONSTANTS
    Grace = 0
    HistoryLimit = 1
    Ids = {s1}
    c1 = c1
    c2 = c2
    Cmds <- TwoCmds
    Drafts <- OnceDrafts
    None = None
    MaxTime = 2
    MaxCommands = 3
    JobCrashes = 1
    CmdCrashes = 0
    Failures = TRUE
    JobFailures = 1
    MaxFolds = 1
SYMMETRY Alike
INVARIANT UnitFolderMatches
PROPERTY NeverSentTwice
PROPERTY RunsWithinLimit
PROPERTY StaleJobNeverFinishes
CHECK_DEADLOCK FALSE
