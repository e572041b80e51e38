SPECIFICATION Spec
CONSTANTS
    c1 = c1
    c2 = c2
    c3 = c3
    Columns = {c1, c2, c3}
    Tasks = {1, 2}
    None = None
    Limits = {0, 1}
    MaxOrder = 3
SYMMETRY Symmetry
INVARIANTS
    TypeOK
    WipHolds
    ColumnsInOrder
PROPERTIES
    MoveNumbersBoth
    LiveTasksSurvive
