SPECIFICATION Spec
VIEW View
CONSTANTS
    Windows = {a, b}
    Boards = {1, 2}
    NoCon = NoCon
    NoBody = NoBody
    Root = Root
    Ewmh = Ewmh
    Pointer = Pointer
    Sticky = {a}
    MaxClient = 3
    MaxCommands = 1
    Monitors = {A, B}
    RootOutput = R
    DeskWindows = {v}
    MaxNamed = 2
    MaxSpaces = 3
    Scratch = Scratch
    Off = Off
    All = All
    Assignments <- FirstMonitor
    BindingNames <- BoundNames
    MaxQueries = 2
    Layouts <- ThreeScreens
    Parts = {"windows", "outputs", "geometry"}
INVARIANTS
    WindowsInStep
    OutputsAreServed
    PublishedAgrees
    GoingOnReachesAll
PROPERTY
    EntersAreTheUsers
CHECK_DEADLOCK FALSE
