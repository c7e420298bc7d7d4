SPECIFICATION WindowFairSpec
CONSTANTS
    Frames = {f1, f2}
    NoFrame = NoFrame
    MaxAnims = 3
INVARIANTS
    WindowSafety
PROPERTIES
    CoversEnd
CHECK_DEADLOCK FALSE
