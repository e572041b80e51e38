SPECIFICATION Spec
CONSTANTS
    acme = acme
    full = full
    ann = ann
    bob = bob
    None = None
    Root = Root
    Emails = {ann, bob}
    Companies = {acme, full}
    Invites = {1, 2}
    MaxOpen = 2
    OfferedRoles = {"employee", "staff"}
    MaxEmployees <- MCMax
INVARIANTS
    IInv
    Overshoot
PROPERTIES
    NoLateJoin
    NoPoaching
    ImplementsRoster
SYMMETRY Symmetry
