SPECIFICATION FairSpec
VIEW View
CONSTANTS
    Win = {a, b}
    Floaters = {b}
    MaxDesks = 2
    Scrollers = {2}
    NoWin = NoWin
    MaxFrames = 1
    Letters = {"p", "k"}
    Shortcuts = {"k"}
    MaxFilter = 2
    HasName <- HasText
    a = a
    b = b
    MaxItems = 4
    f = f
    Frames <- OneFrame
    DeskOf <- FirstDesk
    Parts = {"overview", "switcher", "capture"}
INVARIANTS
    SwitcherSound
    OverviewSound
    ImagesAreSound
PROPERTY
    LeavingEnds
CHECK_DEADLOCK FALSE
