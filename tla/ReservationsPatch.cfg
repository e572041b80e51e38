SPECIFICATION Spec
CONSTANTS
    room = room
    pod = pod
    ann = ann
    boss = boss
    Resources = {room}
    Users = {ann, boss}
    Admins = {boss}
    Ids = {1, 2}
    Workers = {w1, w2}
    Horizon = 2
    Advance = 3
    OverrideLead = 0
    MinCancel = 1
    NoShowAfter = 0
    MaxActive = 2
    PatchStatuses = {"confirmed", "cancelled", "completed", "no_show"}
    Kind <- MCKind
    Tier <- MCTier
    MayBook <- MCMayBook
    OpenSlots <- MCSlots
    FitSlots <- MCSlots
    Series <- MCSeries
    BlockSlots <- MCBlocks
INVARIANTS
    NoDoubleBooking
