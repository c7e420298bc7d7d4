SPECIFICATION BoundedSpec
CONSTANTS
    s1 = s1
    s2 = s2
    Strips = {s1, s2}
    WorkspaceStrips = {s1}
    NoStrip = NoStrip
    MaxAnims = 2
    View = 4
    DefaultWidth = 2
    Presets <- Halves
    MaxColumns <- Twos
    MaxWidth = 4
VIEW ScrollView
INVARIANTS
    OneScroll
    StripsInRange
CHECK_DEADLOCK FALSE
