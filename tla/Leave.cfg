SPECIFICATION Spec
CONSTANTS
    ann = ann
    bob = bob
    cid = cid
    l1 = l1
    l2 = l2
    None = None
    Users = {ann, bob, cid}
    Authors = {ann}
    Leaves = {l1, l2}
    LastDay = 2
    Forms <- MCForms
    Totals = {1, 2}
    MaxOpen = 2
INVARIANTS
    IInv
    DaysArePaid
PROPERTIES
    ApprovedAsAgreed
    ImplementsLedger
SYMMETRY Symmetry
