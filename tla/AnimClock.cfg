SPECIFICATION FairSpec
CONSTANTS
    MaxAnims = 3
    MaxDuration = 2
VIEW View
INVARIANTS
    ClockSafety
    EveryLiveSlotStepped
PROPERTIES
    ImplementsAnimations
    EveryAnimationEnds
CHECK_DEADLOCK FALSE
