SPECIFICATION Spec
CONSTANTS
    f1 = f1
    f2 = f2
    f3 = f3
    g1 = g1
    g2 = g2
    Files = {f1, f2, f3}
    Folders = {g1, g2}
    None = None
    Limit = 1
    Retention = 1
    LastDay = 1
    MaxOpen = 2
    MaxDeaths = 1
INVARIANTS
    TypeOK
    QuotaOvershoot
CHECK_DEADLOCK FALSE
PROPERTIES
    TrashIsEmptied
