\* Three buttons, polls at short and long distances.
CONSTANTS
    ReleaseTime = 1
    RepeatTime = 2
    LongTime = 3
    Deltas = {0, 2}
SPECIFICATION Spec
INVARIANTS
    OneStrokePerPress
PROPERTIES
    EveryPressReported
    ComboIsHeld
    RepeatSpacing
