SPECIFICATION Spec
CONSTANTS
    s1 = s1
    s2 = s2
    Series = {s1}
    None = None
    Week = 2
    Ahead = 1
    Ends = {1}
    LastDay = 3
    MaxOpen = 2
    MaxOthers = 1
INVARIANTS
    OnePerDate
    MadeOnce
    NoDateSkipped
    GoesOn
CHECK_DEADLOCK FALSE
