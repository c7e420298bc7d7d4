SPECIFICATION DragSpec
CONSTANTS
  Root = root
  I3Output = i3
  Scratch = scratch
  None = none
  o1 = o1
  o2 = o2
  w1 = w1
  w2 = w2
  w3 = w3
  Outputs <- TwoOutputs
  Workspaces = {w1, w2}
  WsNum <- Number2
  Pool = {c1, c2, c3, c4, c5}
  UrgencyTimer = FALSE
  DefaultLayout = "default"
  Criteria = {}
  LayoutArgs = {"tabbed"}
  ClientHints = {"dialog"}
  MaxLeaves = 2
VIEW DragView
PROPERTY DragsEndAsMeant
