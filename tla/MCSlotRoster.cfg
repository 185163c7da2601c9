CONSTANTS
    Leaves = {a, b, c}
    Admins = {a}
    NMax = 2
    Limit = 2
    MaxVersion = 4
SPECIFICATION Spec
SYMMETRY Plain
INVARIANTS
    OneOccupantPerSlot
    RevokedLeaseIsPast
    MembersHaveLeases
    CapacityMeansSlot
    RevokedHaveLeases
PROPERTIES
    FinalizedStay
CHECK_DEADLOCK FALSE
