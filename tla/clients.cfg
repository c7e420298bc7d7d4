SPECIFICATION Spec
VIEW View
CONSTANTS
    Windows = {w}
    Texts = {1}
    Unset = Unset
    Rules <- CommandRules
    MaxSets = 4
    MaxReloads = 1
    IconLists <- ThreeIcons
    PrefSize = 2
    Ids = {i1, i2}
    Apps = {w1, w2}
    IdOf <- OneAppEach
    Spaces = {"1", "2"}
    Start = 2
    Grace = 1
    MaxTime = 2
    Root = Root
    Containers = {a, b, c}
    Nobody = Nobody
    MaxFiles = 2
    MaxTokens = 16
    Slots = {1, 2}
    Criteria <- TwoSlots
    Clients = {v1, v2}
    Classes = {"a", "b"}
    MarkNames = {"m"}
    None = None
    MaxQueue = 2
    MaxSeconds = 2
    k1 = k1
    k2 = k2
    NoCode = NoCode
    ModKey = ModKey
    KeyCodes = {k1, k2}
    Groups = {1, 2}
    KeyMaps = {1, 2}
    SymOf <- TwoKeys
    FallsBack <- NotOnKeypad
    Files <- TwoFiles
    MaxKeyEvents = 2
    Parts = {"props", "icon", "startup", "layout", "restore", "bindings"}
INVARIANTS
    PropertiesFollow
    IconAsSaid
    StartupSound
    
    FirstWindowWins
    KeysDoAsBound
CHECK_DEADLOCK FALSE
