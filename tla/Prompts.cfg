SPECIFICATION Spec
CHECK_DEADLOCK FALSE
CONSTANTS
    Sessions = {s1, s2, s3}
    Others = {u}
    Origins = {o1, o2, h1, h2}
    Http = {h1, h2}
    Setups <- AnyChat
    None = None
    MaxRuns = 1
    MaxFaults = 2
    MaxAsks = 2
    MaxHops = 2
INVARIANTS
    SameAsWidget
    KeyGuarded
    AgentsHeard
