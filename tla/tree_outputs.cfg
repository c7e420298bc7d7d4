SPECIFICATION OutputsSpec
CONSTANTS
  Root = root
  I3Output = i3
  Scratch = scratch
  None = none
  o1 = o1
  o2 = o2
  w1 = w1
  w2 = w2
  w3 = w3
  Outputs <- TwoOutputs
  Workspaces = {w1, w2, w3}
  WsNum <- Number3
  Pool = {c1, c2, c3, c4}
  UrgencyTimer = FALSE
  DefaultLayout = "default"
  Criteria = {"windows"}
  LayoutArgs = {"splitv", "tabbed"}
  ClientHints = {}
  MaxLeaves = 2
VIEW View
PROPERTY ShownWorkspaces
PROPERTY FocusStaysShown
PROPERTY MoveKeepsWorkspaces
