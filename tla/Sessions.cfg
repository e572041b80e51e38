SPECIFICATION Spec
CONSTANTS
    k1 = k1
    k2 = k2
    r1 = r1
    d1 = d1
    d2 = d2
    None = None
    Tokens = {k1, k2}
    Resets = {r1}
    Devices = {d1, d2}
    Idle = 1
    Absolute = 2
    AccessLife = 2
    LastTick = 3
    MaxOpen = 2
INVARIANTS
    IInv
    AcceptedIsYoung
    AcceptedIsRecent
    ResetOnce

    
CHECK_DEADLOCK FALSE
SYMMETRY Symmetry
