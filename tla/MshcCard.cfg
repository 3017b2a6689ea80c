\* A card that does UHS, one addressed by byte and an eMMC, swapped at will.
SPECIFICATION FairSpec
CONSTANTS
    u = u
    s = s
    e = e
    NoCard = NoCard
    Cards = {u, s, e}
    HighCap = {u, e}
    Uhs = {u}
    Emmc = {e}
    BlockSize = 2
    NumBlocks = 3
    MaxPass = 2
    MaxLen = 3
    MaxCalls = 2
    MaxSwaps = 1
    MaxFaults = 1
CHECK_DEADLOCK FALSE
INVARIANTS
    SuccessIsReal
    QuietAfterReturn
    MediaIdNamesOneCard
    NeverShort
PROPERTY
    CallsReturn
