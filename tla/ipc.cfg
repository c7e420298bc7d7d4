SPECIFICATION FairSpec
CONSTANTS
    c1 = c1
    c2 = c2
    Clients = {c1, c2}
    None = None
    Asks <- AsksOfClients
    Events = {"workspace"}
    Room = 3
    MaxAsks = 3
    MaxVersion = 1
    Outputs = {o1, o2}
    Commands = {"s1", "s2", "w1"}
    NoCommand = NoCommand
    Unknown = Unknown
    Configs <- BarConfigs
    MaxChanges = 2
    MaxInput = 1
    TrayClients = {a, b}
    Screens = {s1, s2}
    NoScreen = NoScreen
    MaxTray = 3
    MaxLines = 2
    WhichParts = {"server", "bar", "tray", "input"}
INVARIANTS
    RepliesSound
    BarInStep
    TrayInStep
    LinesAreWhole
PROPERTIES
    ImplementsStream
    EveryBufferDrains
CHECK_DEADLOCK FALSE
