SPECIFICATION Spec
CHECK_DEADLOCK FALSE
SYMMETRY Alike
CONSTANTS
    d1 = d1
    d2 = d2
    s1 = s1
    MaxListens = 2
    MaxReads = 2
    Users <- ThreeUsers
    MaxForeign = 1
    MaxFaults = 1
    Dictations = {d1, d2}
    Stops = {s1}
    Pids = {1, 2}
    MaxTroubles = 2
    MaxReadings = 2
    Lengths = {1, 3}
    MaxMishaps = 2
INVARIANTS
    GivenBack
    TextTrue
    RecorderObeys
    ReadAloud
