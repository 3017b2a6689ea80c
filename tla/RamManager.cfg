SPECIFICATION Spec
CONSTANTS
    Space = 20
    Base = 2
    LowEnd = 6
    CarveOut = 2
    Sizes = {3, 7}
    Places = {1, 3, 4, 8}
    Lengths = {1, 2}
    RegionMax = 2
    DynamicHoles = 2
    Vendors = {"Samsung", "MediaTek", "Qualcomm"}
    Faults = {"memory", "call"}
CHECK_DEADLOCK FALSE
INVARIANTS
    GivenIsNew
    GivenIsUsable
    NoRamLost
