SPECIFICATION Spec
CHECK_DEADLOCK FALSE
CONSTANTS
    Requests <- Others
    Queries <- Typed
    PrefixWords <- OnePrefix
    MaxCalls = 2
    MaxMessage = 160
    Chunks = {7, 100}
    MaxKills = 1
    Switches <- TwoChoices
    None = None
    MaxSyncs = 2
    MaxOthers = 1
    MaxFaults = 1
INVARIANTS
    CallersServed
    QuestionAsTyped
    FilesAgree
