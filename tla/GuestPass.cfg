SPECIFICATION Spec
CONSTANTS
    gil = gil
    emp = emp
    sam = sam
    e1 = e1
    p1 = p1
    p2 = p2
    p3 = p3
    d1 = d1
    d2 = d2
    None = None
    Guests = {gil}
    Employees = {}
    Staff = {}
    Emails = {e1}
    Passes = {p1}
    Desks = {d1, d2}
    PassLimit = 1
    ResendLimit = 2
    Hour = 1
    Span = 2
    MultiSpan = 1
    LastTick = 3
    MaxScans = 3
    MaxOpen = 2
INVARIANTS
    IInv
    SingleUse
    UsesAreLogged
    ResendIsLimited
PROPERTIES
    OverStaysOver
    OverduePassesEnd
CHECK_DEADLOCK FALSE
