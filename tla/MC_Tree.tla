------------------------------ MODULE MC_Tree ------------------------------
(***************************************************************************)
(* Instances of Tree for TLC: two workspaces on one output, or three on two *)
(* outputs.  Containers are interchangeable, so states are compared by the  *)
(* shape of the tree and not by the names of its containers.               *)
(***************************************************************************)
EXTENDS Mouse

CONSTANTS o1, o2, w1, w2, w3
VARIABLE part   \* which of the steps below: each behaviour takes one kind

OneOutput == <<o1>>
TwoOutputs == <<o1, o2>>
Number1 == w1 :> 1
Number2 == w1 :> 1 @@ w2 :> 2
Number3 == Number2 @@ w3 :> 3

RECURSIVE Shape(_)
\* everything a container holds, its children by their shape and its focus
\* stack by the positions of the children
Shape(c) ==
  LET x == t.con[c]
      below == Below(t, c)
  IN <<IF c \in Pool THEN None ELSE c, x.type, x.layout, x.lastSplit, x.wsLayout, x.window, x.fullscreen,
       x.urgent, x.timer, x.floating, x.scratchpad, c = t.focused,
       c = drag.con, c = drag.target,
       [i \in DOMAIN x.nodes |-> Shape(x.nodes[i])],
       [i \in DOMAIN x.floats |-> Shape(x.floats[i])],
       [i \in DOMAIN x.focus |-> IndexOf(below, x.focus[i])],
       \A i \in DOMAIN below : Parent(t, below[i]) = c>>

TreeShape == <<Shape(Root), Cardinality(FreeCons(t)), t.fault, TypeOf(t, t.focused)>>
DragShape == [drag EXCEPT !.con = None, !.target = None]
HintsView == <<part, TreeShape>>
\* previous matters where the steps go back to it
View == <<part, TreeShape, IF part = "back" THEN t.previous ELSE None>>
\* the steps around drags do not go back to the previous workspace
DragView == <<part, TreeShape, DragShape, Alive(t, drag.con)>>

\* The parts of Next that are exercised together.
TilingNext ==
  \/ WindowSteps \/ CmdOpen \/ KillSteps \/ SplitSteps \/ LayoutSteps
  \/ MoveSteps \/ FocusSteps \/ SiblingSteps
\* a bound: no workspace layout is "stacked"
NoStackedWorkspace == t'.con[w1].wsLayout # "stacked"
\* Each part takes steps of its own besides the ones they share.
WorkspacesNext ==
  \/ WindowSteps \/ (\E w \in Workspaces : CmdWorkspace(w)) \/ MoveToWorkspaceSteps
  \/ OutputSteps \/ SiblingSteps
  \/ part = "back" /\ (CmdBackAndForth \/ MoveToMarkSteps)
  \/ /\ part = "outputs"
     /\ \/ MoveSteps \/ CmdFocusParent \/ CmdFocusChild \/ \E c \in Windows : CmdFocus(c)
        \/ \E c \in Targets, dir \in {"left", "right"} : CmdFocusDirection(c, dir)
  \/ ~Running /\ UNCHANGED t   \* an assertion has failed: the program is over

\* Windows float or go to the scratchpad, cover their workspace or all of them,
\* or become urgent.  Most commands run on focused; a mark may be on a split.
\* Going back to the previous workspace, which is going to it by its name, is left
\* to WorkspacesNext here and below.
Hints == CASE part = "floating" -> {"dialog"} [] part = "urgency" -> {"urgent", "shy"} [] OTHER -> {}
Splits == {c \in Pool : TypeOf(t, c) = "con" /\ ~IsLeaf(t, c)}
Modes == CASE part = "floating" -> {"output"} [] part = "fullscreen" -> {"output", "global"} [] OTHER -> {}
HintsNext ==
  \/ \E hints \in SUBSET Hints : Manage(hints)
  \/ \E c \in Windows : WindowGone(c)
  \/ \E w \in IF part = "floating" THEN {w1, w3} ELSE {w1, w2} :
       CmdWorkspace(w) \/ CmdMoveToWorkspace(t.focused, w)
  \/ \E dir \in {"left", "right"} : CmdMoveDirection(t.focused, dir)
  \/ part = "urgency" /\ (UrgencySteps \/ \E c \in Windows : CmdFocus(c))
  \/ part # "urgency" /\ (CmdFloating(t.focused) \/ \E c \in Windows : CmdSwap(t.focused, c))
  \/ /\ part = "floating"
     /\ \/ \E c \in {t.focused} \cup Splits : CmdMoveScratchpad(c)
        \/ \E c \in Windows \cup {None} : CmdScratchpadShow(c)
  \/ \E c \in IF part = "fullscreen" THEN Windows ELSE {t.focused}, mode \in Modes : CmdFullscreen(c, mode)
  \/ part # "floating" /\ CmdFocusParent
\* The bounds of the parts: nothing is on the second output, and two windows
\* where one is fullscreen; two containers are left over; two windows or empty
\* containers, one of them with a timer. And a behaviour ends where a window is
\* urgent that a container on the way up says nothing of.
HintsBound ==
  CASE part = "floating" -> /\ Below(t', w2) = <<>>
                            /\ (\E c \in Pool : t'.con[c].fullscreen # "none") => Cardinality(Leaves') <= 2
    [] part = "fullscreen" -> Cardinality(FreeCons(t')) >= 2
    [] part = "urgency" -> /\ Cardinality(FreeCons(t')) >= 2 /\ Cardinality(Leaves') <= 2
                           /\ Cardinality({c \in Id : t'.con[c].timer}) <= 1
HintsStep ==
  \/ Unannounced(t) = {} /\ HintsNext /\ HintsBound
  \/ Unannounced(t) # {} /\ UNCHANGED t

\* What else happens while the user drags, or before it.  A bound: only windows
\* directly on the workspace w1 are put into tabs.
AroundDrags ==
  /\ \/ drag.kind # "reverts" /\ \E hints \in SUBSET (ClientHints \cap {"dialog"}) : Manage(hints)
     \/ \E w \in Workspaces : CmdWorkspace(w)
     \/ \E c \in Targets : CmdFullscreen(c, "output")
     \/ \E c \in Windows \cap Targets : Parent(t, c) = w1 /\ CmdLayout(c, "tabbed")
  /\ drag' = Kept(t')
\* the swap modifier is held only where it is looked at
SwapsCenter == drag'.swap => drag'.how = "center"
\* Nothing looks at where the pointer was before, so that one motion is enough as
\* long as its target is there.
MouseNext ==
  /\ Clicks \/ (drag.target = None /\ Motions) \/ DragEnds \/ AroundDrags
  /\ SwapsCenter

PartInit(p) == part = p /\ Init /\ MouseInit
Others == UNCHANGED <<drag, part>>
TilingSpec == PartInit("tiling") /\ [][TilingNext /\ NoStackedWorkspace /\ Others]_<<t, drag, part>>
OutputsSpec ==
  /\ PartInit("outputs") \/ PartInit("back")
  /\ [][WorkspacesNext /\ Others]_<<t, drag, part>>
HintsSpec ==
  /\ PartInit("floating") \/ PartInit("fullscreen") \/ PartInit("urgency")
  /\ [][HintsStep /\ Others]_<<t, drag, part>>

DragNext ==
  \/ /\ part = "mouse" /\ MouseNext
     /\ part' = IF drag # NoDrag /\ drag' = NoDrag THEN "dropped" ELSE part
  \/ part = "dropped" /\ UNCHANGED <<t, drag, part>>
DragSpec == PartInit("mouse") /\ [][DragNext]_<<t, drag, part>>
=============================================================================
