SPECIFICATION HintsSpec
CONSTANTS
  Root = root
  I3Output = i3
  Scratch = scratch
  None = none
  o1 = o1
  o2 = o2
  w1 = w1
  w2 = w2
  w3 = w3
  Outputs <- TwoOutputs
  Workspaces = {w1, w2, w3}
  WsNum <- Number3
  Pool = {c1, c2, c3, c4, c5, c6}
  UrgencyTimer = TRUE
  DefaultLayout = "tabbed"
  Criteria = {}
  LayoutArgs = {"splitv", "tabbed"}
  ClientHints = {"dialog", "urgent", "shy"}
  MaxLeaves = 3
VIEW HintsView
INVARIANT FloatingSound
PROPERTY FullscreenSound
PROPERTY WorkspaceUrgency
INVARIANT TimerKeepsHint
