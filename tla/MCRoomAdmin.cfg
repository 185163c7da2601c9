SPECIFICATION Spec
CONSTANTS
    Keys = {k1, k2, k3}
    Admins = {a1, a2}
    Proofs = {p1, p2}
    MaxGeneration = 2
    MaxEpochs = 3
SYMMETRY Symmetry
INVARIANTS
    ProofSpentOnce
    GenerationNamesOneKey
    AdminNeverLost
    NamedGenerationsGrow
PROPERTIES
    RotationDemandKept
