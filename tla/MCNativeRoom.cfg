SPECIFICATION Spec
CONSTANTS
    Leaves = {l1, l2}
    Requests = {r1}
    AcceptMax = 2
    Retention = 1
    PruneInterval = 1
    CoalesceTtl = 1
    CoalesceMax = 1
    MaxDelay = 1
    MaxEpochs = 3
    MaxMessages = 1
    MaxClock = 2
SYMMETRY Symmetry
INVARIANTS
    TypeOK
    IndexFollowsLane
    CachedTicketIsRecent
    AckedMessageIsServed
