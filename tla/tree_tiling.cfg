SPECIFICATION TilingSpec
CONSTANTS
  Root = root
  I3Output = i3
  Scratch = scratch
  None = none
  o1 = o1
  o2 = o2
  w1 = w1
  w2 = w2
  w3 = w3
  Outputs <- OneOutput
  Workspaces = {w1}
  WsNum <- Number1
  Pool = {c1, c2, c3, c4}
  UrgencyTimer = FALSE
  DefaultLayout = "default"
  Criteria = {}
  LayoutArgs = {"tabbed"}
  ClientHints = {}
  MaxLeaves = 2
VIEW View
INVARIANT TreeSound
INVARIANT FocusHeadsLeadToFocused
PROPERTY CommandsKeepWindows
