SPECIFICATION Spec
CHECK_DEADLOCK FALSE
SYMMETRY Alike
CONSTANTS
    w = w
    p = p
    a = a
    b = b
    m1 = m1
    m2 = m2
    m3 = m3
    Ids = {m1, m2, m3}
    Texts = {a, b}
    Chats = {c1}
    All = All
    None = None
    Unreadable = Unreadable
    MaxMemories = 2
    Stores <- Two
    Widget = w
    MaxCommands = 3
    MaxFaults = 1
INVARIANTS
    FileKept
    Settled
PROPERTIES
    Implements
