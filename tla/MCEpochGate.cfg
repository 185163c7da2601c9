SPECIFICATION Spec
CONSTANTS
    Devices = {d1, d2}
    Roots = {r0, r1}
    Root0 = r0
    Ecs = {0, 1, 2, 3}
    Links = {0, 1, 2}
    Versions = {0, 1, 2, 3}
    AnchorMax = 2
    FirstDevice = 1
    DeviceMax = 2
    MinDeltaGroup = 1
    MinDeltaDevice = 2
    SlotWidth = 2
SYMMETRY Symmetry
INVARIANTS
    EcOrder
    PcsSpacing
    NoDeviceStuck
CHECK_DEADLOCK FALSE
