\* Readers that fall behind, partial keys, and notification functions that call back.
CONSTANTS
    MaxCount = 3
    Keys = {"up", "partial"}
    Shifts = {0}
    Fns = {"f", "g"}
    ToggleStates = {{"exposed"}}
    CallbackMay = {"read", "reset", "register", "unregister"}
    MaxStrokes = 3
    MaxHandles = 2
    MaxResets = 1
SPECIFICATION FairSpec
INVARIANTS
    NotifiedAll
    LinkIsLive
PROPERTIES
    ReadersFifo
    EventuallyNotified
