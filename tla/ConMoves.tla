------------------------------ MODULE ConMoves ------------------------------
(***************************************************************************)
(* Moving containers through the tree: layouts and splits (con.c, tree.c),  *)
(* moves between workspaces and containers (con.c), moves in a direction    *)
(* (move.c), floating windows (floating.c), the scratchpad (scratchpad.c)   *)
(* and swapping (con.c).                                                   *)
(***************************************************************************)
EXTENDS ConOps

(***************************************************************************)
(* Flattening and layouts.                                                 *)
(***************************************************************************)
SplitLayouts == {"splith", "splitv"}

\* tree_flatten's test: a windowless container with a single child, both split
\* in different directions, the child in the direction of the parent
Redundant(t, c) ==
  /\ TypeOf(t, c) = "con" /\ ~t.con[c].window
  /\ NumChildren(t, c) = 1
  /\ LET child == t.con[c].nodes[1]
     IN /\ IsSplit(t, c) /\ IsSplit(t, child)
        /\ {t.con[c].layout, t.con[child].layout} \subseteq SplitLayouts
        /\ Orientation(t, c) # Orientation(t, child)
        /\ Orientation(t, child) = Orientation(t, Parent(t, c))

\* the grandchildren take the place of c in its parent
Lifted(t, c, grandchildren) ==
  LET p == Parent(t, c)
  IN FoldLeft(LAMBDA u, x : [Detach(u, x) EXCEPT !.con[x].parent = p,
                                                 !.con[p].nodes = InsertBefore(@, c, x),
                                                 !.con[p].focus = Append(@, x)],
              t, grandchildren)

\* and the first of them in focus takes c's place at the head of the focus stack
Precede(t, c, first) ==
  IF first # None /\ Head(t.con[Parent(t, c)].focus) = c THEN ToHead(t, first) ELSE t

LiftGrandchildren(t, c) ==
  LET child == t.con[t.con[c].nodes[1]]
  IN Close(Precede(Lifted(t, c, child.nodes), c, FirstOf(child.focus)), c, FALSE, TRUE)

RECURSIVE Flatten(_, _)
\* tree_flatten
Flatten(t, c) ==
  IF Redundant(t, c) THEN LiftGrandchildren(t, c)
  ELSE FoldLeft(LAMBDA u, x : Flatten(u, x), t, Below(t, c))

\* the layout "default" stands for the last split layout
Definite(layout, lastSplit) ==
  IF layout # "default" THEN layout
  ELSE IF lastSplit = "default" THEN "splith" ELSE lastSplit

RememberSplit(t, c) ==
  IF t.con[c].layout \in SplitLayouts
  THEN [t EXCEPT !.con[c].lastSplit = t.con[c].layout] ELSE t

\* con_set_layout on a workspace: its own layout while it is empty, else that
\* of a new container around its tiling children
SetWsLayout(t, w, layout) ==
  LET new == Fresh(t)
      t1 == [Wrap(t, w, new, layout) EXCEPT !.con[new].lastSplit = t.con[w].lastSplit]
  IN IF NumChildren(t, w) = 0
     THEN [t EXCEPT !.con[w].layout = Definite(layout, t.con[w].lastSplit),
                    !.con[w].wsLayout =
                      IF layout \in {"stacked", "tabbed", "scrolling"} THEN layout ELSE "default"]
     ELSE Flatten(Attach(t1, new, w, None, FALSE), Root)

WithLayout(t, c, layout) ==
  [t EXCEPT !.con[c].layout = Definite(layout, t.con[c].lastSplit)]

\* con_set_layout on a split container p; a split container that is the only
\* child of another one with an only child is replaced by it
SetSplitLayout(t, p, layout) ==
  LET q == Parent(t, p)
      child == t.con[p].nodes[1]
      lifted == [Attach(Detach(t, child), child, q, None, TRUE)
                   EXCEPT !.con[q].lastSplit = t.con[p].lastSplit]
  IN IF TypeOf(t, q) # "workspace" /\ NumChildren(t, p) = 1 /\ NumChildren(t, q) = 1
     THEN WithLayout(Close(lifted, p, FALSE, TRUE), q, layout)
     ELSE WithLayout(t, p, layout)

SetLayoutOf(t, target, layout) ==
  IF TypeOf(t, target) = "workspace" THEN SetWsLayout(t, target, layout)
  ELSE SetSplitLayout(t, target, layout)

LayoutParent(t, c) == IF TypeOf(t, c) = "workspace" THEN c ELSE Parent(t, c)
SetLayout(t, c, layout) ==
  SetLayoutOf(RememberSplit(t, LayoutParent(t, c)), LayoutParent(t, c), layout)

\* what follows the layout now in con_toggle_layout, modes split, default and all
LayoutAfter(now, last, mode) ==
  CASE mode = "split" -> IF now \notin SplitLayouts THEN Definite("default", last)
                         ELSE IF now = "splith" THEN "splitv" ELSE "splith"
    [] mode # "split" /\ now = "stacked" -> "tabbed"
    [] mode # "split" /\ now = "tabbed" -> IF mode = "all" THEN "splith" ELSE last
    [] mode = "all" /\ now = "splith" -> "splitv"
    [] mode # "split" /\ now \in {"scrolling", "default"} -> "unchanged"
    [] OTHER -> "stacked"

\* con_toggle_layout
ToggleLayout(t, c, mode) ==
  LET p == t.con[LayoutParent(t, c)]
      layout == LayoutAfter(p.layout, p.lastSplit, mode)
  IN IF layout = "unchanged" THEN t ELSE SetLayout(t, c, layout)

SplitLayoutOf(o) == IF o = "horiz" THEN "splith" ELSE "splitv"

\* Mistake: the new container takes c's place in nodes_head only.
SplitConNodes(t, c, o) ==
  LET p == Parent(t, c)
      new == Fresh(t)
  IN Attach([NewCon(t, new, "con", p, SplitLayoutOf(o)) EXCEPT !.con[p].nodes = Replace(@, c, new)],
            c, new, None, FALSE)

\* tree_split below the workspace level
SplitCon(t, c, o) ==
  LET p == Parent(t, c)
      new == Fresh(t)
      t1 == [NewCon(t, new, "con", p, SplitLayoutOf(o))
               EXCEPT !.con[p].nodes = Replace(@, c, new),
                      !.con[p].focus = Replace(@, c, new)]
  IN IF NumChildren(t, p) = 1 /\ t.con[p].layout \in SplitLayouts
     THEN [t EXCEPT !.con[p].layout = SplitLayoutOf(o)]
     ELSE Attach(t1, c, new, None, FALSE)

\* tree_split
Split(t, c, o) ==
  CASE IsFloating(t, c) -> t
    [] TypeOf(t, c) = "workspace" /\ NumChildren(t, c) < 2 ->
         [t EXCEPT !.con[c].layout = SplitLayoutOf(o),
                   !.con[c].wsLayout = IF IsLeaf(t, c) THEN "default" ELSE @]
    [] TypeOf(t, c) = "workspace" /\ NumChildren(t, c) >= 2 ->
         LET new == Fresh(t) IN SplitCon(Encapsulate(t, c, new), new, o)
    [] OTHER -> SplitCon(t, c, o)

(***************************************************************************)
(* Moving to another container or workspace.                               *)
(***************************************************************************)
FullscreenWithin(t, c) ==
  \/ t.con[c].fullscreen # "none"
  \/ GetFullscreen(t, c, "global") # None
  \/ GetFullscreen(t, c, "output") # None

\* where con focus goes within the workspace it leaves, None if focus stays
FocusLeftBehind(t, c, targetWs, ignoreFocus) ==
  LET w == GetWorkspace(t, c)
      next == DescendFocused(t, w)
  IN IF ignoreFocus \/ w # GetWorkspace(t, t.focused) \/ targetWs = w THEN None
     ELSE IF next = c \/ HasAncestor(t, next, c) THEN NextFocused(t, c) ELSE next

\* the container that c is attached to, next to target
AttachPoint(t, c, target) ==
  LET up == IF TypeOf(t, target) = "workspace" THEN target ELSE Parent(t, target)
      out == IF TypeOf(t, up) = "floating_con" THEN Parent(t, up) ELSE up
  IN IF TypeOf(t, c) = "floating_con" THEN GetWorkspace(t, out) ELSE out

FocusBack(t, old, oldWs, sameWs) ==
  IF sameWs THEN Activate(t, old)
  ELSE IF GetWorkspace(t, t.focused) # oldWs THEN Focus(t, DescendFocused(t, oldWs))
  ELSE t

\* step 6 of _con_move_to_con: the moved container is focused within its new
\* workspace, and focus returns to where it was
FocusMoved(t, c, targetWs, currentWs) ==
  LET oldWs == FirstOf(t.con[GetOutput(t, targetWs)].focus)
  IN FocusBack(Activate(t, DescendFocused(t, c)), t.focused, oldWs,
               oldWs = currentWs /\ TypeOf(t, t.focused) # "workspace")
FocusMovedIf(t, c, targetWs, currentWs, wanted) ==
  IF wanted THEN FocusMoved(t, c, targetWs, currentWs) ELSE t

ActivateBelow(t, next) == IF next = None THEN t ELSE Activate(t, DescendFocused(t, next))

\* step 9: the urgency hint goes along
CarryUrgency(t, c, sourceWs, urgent) ==
  IF urgent THEN SetUrgency(UpdateUrgentFlag(t, sourceWs), c, TRUE) ELSE t

\* Mistake: the focus follows the container to the other workspace.
MoveConFollowing(t, c, target, behindFocused, ignoreFocus) ==
  OnRemoveChild(ActivateBelow(Attach(Detach(t, c), c, AttachPoint(t, c, target),
                                     IF behindFocused THEN None ELSE target, ~behindFocused), c),
                Parent(t, c))

\* _con_move_to_con for a container that is not a workspace
MoveCon(t, c, target, behindFocused, ignoreFocus) ==
  LET targetWs == GetWorkspace(t, target)
      currentWs == GetWorkspace(t, t.focused)
      orig == IF /\ TypeOf(t, target) # "workspace"
                 /\ TypeOf(t, Parent(t, target)) = "floating_con"
              THEN Parent(t, target) ELSE target
      covering == GetFullscreen(t, targetWs, "output")
      uncover == covering # None /\ FullscreenWithin(t, c)
      refocus == ~ignoreFocus /\ ~IsInternal(targetWs) /\ (covering = None \/ uncover)
      moved == Attach(Detach(IF uncover THEN DisableFullscreen(t, covering) ELSE t, c), c,
                      AttachPoint(t, c, target), IF behindFocused THEN None ELSE orig, ~behindFocused)
  IN OnRemoveChild(
       CarryUrgency(
         ActivateBelow(ShowIf(FocusMovedIf(moved, c, targetWs, currentWs, refocus), currentWs, ~ignoreFocus),
                       FocusLeftBehind(t, c, targetWs, ignoreFocus)),
         c, GetWorkspace(t, c), t.con[c].urgent),
       Parent(t, c))

\* _con_move_to_con: the floating containers of a workspace move one by one,
\* then its tiling containers inside one new container
MoveToCon(t, con, target, behindFocused, ignoreFocus) ==
  LET targetWs == GetWorkspace(t, target)
      c == IF IsFloating(t, con) THEN Parent(t, con) ELSE con
      whole == TypeOf(t, c) = "workspace"
      Part(u, x) ==
        LET floats == whole /\ x # c
            rest == whole /\ x = c
            new == Fresh(u)
        IN CASE floats /\ ~PermitsFocusing(u, targetWs) -> Failed(u)
             [] rest /\ ~Alive(u, c) -> [u EXCEPT !.fault = "freed"]
             [] rest /\ Alive(u, c) /\ IsLeaf(u, c) -> u
             [] OTHER -> MoveCon(IF rest THEN Encapsulate(u, c, new) ELSE u, IF rest THEN new ELSE x,
                                 IF floats THEN DescendFocused(u, targetWs) ELSE target,
                                 floats \/ behindFocused, ~floats /\ ignoreFocus)
  IN IfPermitted(t, targetWs, ~ignoreFocus, FoldLeft(Part, t, Append(t.con[c].floats, c)))

\* con_move_to_workspace
MoveToWorkspace(t, c, w, ignoreFocus) ==
  IF w = GetWorkspace(t, c) THEN t
  ELSE MoveToCon(t, c, DescendFocused(t, w), TRUE, ignoreFocus)

(***************************************************************************)
(* Moving in a direction.                                                  *)
(***************************************************************************)
Side(dir) == IF dir \in {"up", "left"} THEN "before" ELSE "after"
OrientationOf(dir) == IF dir \in {"left", "right"} THEN "horiz" ELSE "vert"
Neighbour(s, c, dir) == IF Side(dir) = "before" THEN PrevIn(s, c) ELSE NextIn(s, c)

\* the nearest container that is a or an ancestor of a, and b or an ancestor of b
CommonAncestor(t, a, b) ==
  FirstThat(<<a>> \o Ancestors(t, a), LAMBDA x : x = b \/ HasAncestor(t, b, x))
ChildContaining(t, a, c) == FirstThat(<<c>> \o Ancestors(t, c), LAMBDA x : Parent(t, x) = a)
IsFocusedDescendant(t, c, a) ==
  LET path == <<c>> \o Ancestors(t, c)
  IN \A i \in 1..IndexOf(path, a) - 1 : Head(t.con[Parent(t, path[i])].focus) = path[i]

\* the container that c goes to p in: a new one around c if p is a workspace
\* with a layout of its own
HolderOn(t, p, c) ==
  IF TypeOf(t, p) = "workspace" /\ t.con[p].wsLayout # "default" THEN Fresh(t) ELSE c
Held(t, p, c) ==
  LET new == HolderOn(t, p, c)
  IN IF new = c THEN t ELSE Detach(Attach(AttachTo(t, p, new), c, new, None, FALSE), new)

\* insert_con_into keeps the focus order of what the move brings together: theirs
\* takes the place of mine when the focused path of mine moves over
HandOver(order, mine, theirs) ==
  LET place == PrevIn(order, mine)
      rest == Remove(order, theirs)
  IN IF place = None THEN <<theirs>> \o rest ELSE InsertAfter(rest, place, theirs)

Insert(s, target, c, side) ==
  IF side = "before" THEN InsertBefore(s, target, c) ELSE InsertAfter(s, target, c)

\* c linked into the list of target's parent, and into its focus stack next to
\* target or, below the common ancestor lca, at the head or the tail
LinkBeside(t, c, target, side, lca, before) ==
  LET p == Parent(t, target)
  IN [t EXCEPT !.con[c].parent = p,
               !.con[p].nodes = Insert(@, target, c, side),
               !.con[p].focus = IF p = lca THEN Insert(@, target, c, IF before THEN "before" ELSE "after")
                                ELSE IF before THEN <<c>> \o @ ELSE Append(@, c)]

\* insert_con_into
InsertConInto(t, con, target, side) ==
  LET p == Parent(t, target)
      lca == CommonAncestor(t, con, p)
      mine == ChildContaining(t, lca, con)
      theirs == ChildContaining(t, lca, target)
      moves == IsFocusedDescendant(t, con, mine)
      order == t.con[lca].focus
      before == IF mine = theirs THEN moves ELSE IndexOf(order, mine) < IndexOf(order, theirs)
      reordered == IF moves /\ before THEN [t EXCEPT !.con[lca].focus = HandOver(@, mine, theirs)] ELSE t
  IN IF lca = con THEN t
     ELSE OnRemoveChild(LinkBeside(Held(Detach(reordered, con), p, con), HolderOn(t, p, con),
                                target, side, lca, before), Parent(t, con))

\* attach_to_workspace
AttachToWorkspace(t, c, w, dir) ==
  LET t1 == [Detach(t, c) EXCEPT
               !.con[c].parent = w,
               !.con[w].nodes = IF dir \in {"right", "down"} THEN <<c>> \o @ ELSE Append(@, c),
               !.con[w].focus = Append(@, c)]
  IN OnRemoveChild(t1, Parent(t, c))

\* get_output_next for outputs that stand side by side
NextOutput(out, dir) ==
  IF dir \notin {"left", "right"} \/ ~Contains(Outputs, out) THEN None
  ELSE Neighbour(Outputs, out, dir)
VisibleOn(t, out) == FirstThat(t.con[out].nodes, LAMBDA x : IsVisible(t, x))

\* the focus goes along with c from the workspace from to w
CarryFocus(t, c, w, from, wanted) ==
  IF wanted THEN Focus(Show([Focus(t, c) EXCEPT !.focused = from], w), c) ELSE t

\* move_to_output_directed
MoveToOutputDirected(t, c, dir) ==
  LET out == NextOutput(GetOutput(t, c), dir)
      w == VisibleOn(t, out)
  IN IF out = None \/ w = None THEN t
     ELSE Flatten(CarryFocus(AttachToWorkspace(t, c, w, dir), c, w, GetWorkspace(t, c), t.focused = c), Root)

SwapIn(s, a, b) ==
  FoldLeft(LAMBDA r, x : Append(r, IF x = a THEN b ELSE IF x = b THEN a ELSE x), <<>>, s)

\* The ancestor of c that tree_move moves c in or out to: of the direction's
\* orientation, and not the parent when c is the last one there.
LevelFor(t, c, dir) ==
  LET p == Parent(t, c)
      same == ParentWithOrientation(t, c, OrientationOf(dir))
  IN IF same = p /\ TypeOf(t, p) # "workspace" /\ Neighbour(t.con[p].nodes, c, dir) = None
     THEN ParentWithOrientation(t, p, OrientationOf(dir)) ELSE same

\* tree_move once the level is known: c trades places with a window next to
\* it, goes into a neighbour's branch, beside the branch above it, or over the
\* edge to the next output
MoveOn(t, c, dir, level) ==
  LET p == Parent(t, c)
      above == ChildContaining(t, level, c)
      next == Neighbour(t.con[level].nodes, above, dir)
      into == next # None /\ ~IsLeaf(t, next)
      target == IF into THEN DescendDirection(t, next, dir) ELSE above
      across == Orientation(t, Parent(t, target)) # OrientationOf(dir)
      side == IF ~into THEN Side(dir)
              ELSE IF across \/ Side(dir) = "before" THEN "after" ELSE "before"
      done ==
        CASE level = p /\ next # None /\ ~into -> [t EXCEPT !.con[p].nodes = SwapIn(@, c, next)]
          [] /\ next = None
             /\ \/ level = p
                \/ /\ NumChildren(t, p) = 1
                   /\ TypeOf(t, Parent(t, p)) = "workspace" /\ t.con[p].layout # "default"
             -> MoveToOutputDirected(t, c, dir)
          [] OTHER -> Flatten(InsertConInto(t, c, target, side), Root)
  IN IfPermitted(t, level, level # p, done)

\* tree_move, for a container that is not itself floating
TreeMove(t, c, dir) ==
  LET w == GetWorkspace(t, c)
      level == LevelFor(t, c, dir)
  IN CASE TypeOf(t, c) = "workspace" \/ t.con[c].fullscreen = "global" -> t
       [] /\ TypeOf(t, c) # "workspace"
          /\ \/ t.con[c].fullscreen = "output"
             \/ t.con[c].fullscreen = "none" /\ Parent(t, c) = w /\ NumChildren(t, w) = 1
          -> MoveToOutputDirected(t, c, dir)
       [] level = None /\ InsideFloating(t, c) # None -> Flatten(AttachToWorkspace(t, c, w, dir), Root)
       [] OTHER -> MoveOn(IF level = None THEN ForceOrientation(t, w, OrientationOf(dir)) ELSE t,
                          c, dir, IF level = None THEN w ELSE level)

(***************************************************************************)
(* Floating windows and the scratchpad.                                    *)
(***************************************************************************)
\* where the new floating container goes in the focus stack of its workspace,
\* next to the child of the workspace that held c
FloatingFocus(t, c, w, new) ==
  LET top == ChildContaining(t, w, c)
      order == t.con[w].focus
      first == IsFocusedDescendant(t, c, top) \* focus_before_parent: below top only
      place == IF first THEN PrevIn(order, top) ELSE NextIn(order, top)
      rest == Detach(t, c).con[w].focus
  IN IF t.focused = c
     THEN <<new>> \o rest
     ELSE IF first THEN (IF place = None THEN <<new>> \o rest ELSE InsertAfter(rest, place, new))
     ELSE IF place = None THEN Append(rest, new) ELSE InsertBefore(rest, place, new)

\* the parent that has lost its last child is closed before new holds c
CloseEmptied(t, p, c) ==
  IF TypeOf(t, p) \in {"con", "floating_con"} /\ IsLeaf(t, p)
  THEN Close([t EXCEPT !.con[c].parent = None], p, FALSE, FALSE) ELSE t

\* floating_enable
FloatingEnable(t, c) ==
  LET w == GetWorkspace(t, c)
      new == Fresh(t)
      linked == [NewCon(Detach(t, c), new, "floating_con", w, "splith")
                   EXCEPT !.con[w].floats = <<new>> \o @,
                          !.con[w].focus = FloatingFocus(t, c, w, new)]
  IN IF IsFloating(t, c) \/ TypeOf(t, c) = "workspace" THEN t
     ELSE ActivateIf([CloseEmptied(linked, Parent(t, c), c)
                        EXCEPT !.con[new].nodes = <<c>>, !.con[new].focus = <<c>>,
                               !.con[c].parent = new, !.con[c].floating = TRUE],
                     c, t.focused = c)

\* floating_disable
FloatingDisable(t, c) ==
  LET w == GetWorkspace(t, c)
      tiling == DescendTilingFocused(t, w)
      detached == [Detach(t, c) EXCEPT !.con[c].parent = None]
  IN IF ~IsFloating(t, c) \/ IsInternal(w) THEN t
     ELSE [IF tiling = w THEN Attach(Close(detached, Parent(t, c), FALSE, TRUE), c, w, None, FALSE)
           ELSE InsertConInto(t, c, tiling, "after")
             EXCEPT !.con[c].floating = FALSE]

ToggleFloating(t, c) == IF IsFloating(t, c) THEN FloatingDisable(t, c) ELSE FloatingEnable(t, c)

Floated(t, c) == IF InsideFloating(t, c) = None THEN FloatingEnable(t, c) ELSE t

\* con_move_to_workspace for a container that is not a workspace
MoveConToWorkspace(t, con, w) ==
  LET c == IF IsFloating(t, con) THEN Parent(t, con) ELSE con
  IN IF w = GetWorkspace(t, c) THEN t
     ELSE IfPermitted(t, w, TRUE, MoveCon(t, c, DescendFocused(t, w), TRUE, FALSE))

\* the floating container around c goes to the scratchpad
Hide(t, c) ==
  LET f == InsideFloating(t, c)
  IN [MoveConToWorkspace(t, f, Scratch) EXCEPT !.con[f].scratchpad = TRUE]

\* scratchpad_move for a container that is not a workspace
ScratchpadMoveCon(t, con) ==
  IF GetWorkspace(t, con) = Scratch THEN t ELSE Hide(Floated(DisableFullscreen(t, con), con), con)

RECURSIVE ScratchpadMoveFrom(_, _, _)
\* c, and for a workspace w the children that follow c in the focus stack, which
\* every move may reorder
ScratchpadMoveFrom(t, w, c) ==
  IF c = None THEN t
  ELSE ScratchpadMoveFrom(ScratchpadMoveCon(t, c), w, IF c = w THEN None ELSE NextIn(t.con[w].focus, c))

\* scratchpad_move
ScratchpadMove(t, con) ==
  ScratchpadMoveFrom(t, con, IF TypeOf(t, con) = "workspace" THEN FirstOf(t.con[con].focus) ELSE con)

\* Mistake: the floating container itself gets the focus.
BringBackOuter(t, f, c, active, show) == Activate(ShowIf(MoveConToWorkspace(t, f, active), active, show), f)

\* the end of scratchpad_show: the floating container f goes to the workspace
\* active and what is focused in c gets the focus
BringBack(t, f, c, active, show) ==
  ActivateBelow(ShowIf(MoveConToWorkspace(t, f, active), active, show), c)

\* con_toggle_fullscreen, which finds it enabled
LeaveFullscreen(t) ==
  IF FocusedFullscreen(t) = None THEN t ELSE DisableFullscreen(t, FocusedFullscreen(t))

OnScratchpad(t, f) == f # None /\ t.con[f].scratchpad

\* scratchpad_show, in which nothing is fullscreen any more unless the focused
\* scratchpad window is to be hidden: for the window con its criteria matched
\* or None, and one of the scratchpad windows shown elsewhere or None
ScratchpadShowIn(t, con, elsewhere, own) ==
  LET active == GetWorkspace(t, t.focused)
      f == InsideFloating(t, con)
      current == GetWorkspace(t, con)
      hide == IF own THEN t.focused
              ELSE IF OnScratchpad(t, f) /\ current # Scratch /\ current = active THEN con ELSE None
      here == FirstThat(t.con[active].floats,
                        LAMBDA x : t.con[x].scratchpad /\ x # InsideFloating(t, t.focused))
      bring == IF con # None THEN f
               ELSE IF elsewhere # None THEN InsideFloating(t, elsewhere)
               ELSE FirstOf(t.con[Scratch].floats)
  IN CASE con # None /\ ~t.con[Parent(t, con)].scratchpad -> t
       [] hide # None -> ScratchpadMoveCon(t, hide)
       [] con = None /\ ~own /\ here # None -> Activate(t, DescendTilingFocused(t, here))
       [] hide = None /\ (con = None => here = None) /\ bring # None ->
            BringBack(t, bring, IF elsewhere # None THEN elsewhere ELSE bring, active,
                      elsewhere = None /\ current # active)
       [] OTHER -> t

\* scratchpad_show; when several scratchpad windows are on other workspaces,
\* the first in the order of all_cons is taken, here any
ScratchpadShow(t, con, elsewhere) ==
  LET own == con = None /\ OnScratchpad(t, InsideFloating(t, t.focused))
  IN ScratchpadShowIn(IF own THEN t ELSE LeaveFullscreen(t), con, elsewhere, own)

\* the containers of scratchpad windows shown on another workspace than focused's
ScratchpadElsewhere(t) ==
  {c \in Pool : LET f == InsideFloating(t, c)
                IN /\ Alive(t, c) /\ f # None /\ t.con[f].scratchpad
                   /\ GetWorkspace(t, f) \notin {Scratch, GetWorkspace(t, t.focused)}}

\* con_move_to_target, for a container that has been given a mark
MoveToTarget(t, c, target) ==
  LET w == GetWorkspace(t, target)
      loose == IsFloating(t, target) \/ (TypeOf(t, target) = "workspace" /\ IsLeaf(t, target))
      goal == IF loose THEN DescendFocused(t, w)
              ELSE IF IsSplit(t, target) THEN Head(t.con[target].focus) ELSE target
  IN CASE w = Scratch -> ScratchpadMove(t, c)
       [] w # Scratch /\ loose /\ w = GetWorkspace(t, c) -> t
       [] w # Scratch /\ ~loose /\ (c = goal \/ HasAncestor(t, goal, c)) -> t
       [] OTHER -> MoveToCon(t, c, goal, loose, FALSE)

(***************************************************************************)
(* Swapping and moving focus.                                              *)
(***************************************************************************)
SetFullscreen(t, c, mode) ==
  IF mode = "none" THEN DisableFullscreen(t, c) ELSE EnableFullscreen(t, c, mode)

KeepUrgency(t, c) == SetUrgency(t, c, t.con[c].urgent)
FocusIf(t, c) == IF c # None THEN Focus(t, c) ELSE t

\* con_swap
Swap(t, a, b) ==
  LET w == GetWorkspace(t, a)
      Holds(c) == t.focused = c \/ HasAncestor(t, t.focused, c)
      restore == IF w = GetWorkspace(t, b) /\ w = GetWorkspace(t, t.focused) THEN t.focused
                 ELSE IF Holds(a) THEN b ELSE IF Holds(b) THEN a ELSE None
      Trade(u, x) == [u EXCEPT !.con[x].nodes = SwapIn(@, a, b), !.con[x].focus = SwapIn(@, a, b)]
      traded == FoldSet(LAMBDA x, u : Trade(u, x), t, {Parent(t, a), Parent(t, b)})
      swapped == [traded EXCEPT !.con[a].parent = Parent(t, b), !.con[b].parent = Parent(t, a),
                                !.con[a].floating = IsFloating(t, b), !.con[b].floating = IsFloating(t, a)]
  IN IF \/ TypeOf(t, a) # "con" \/ TypeOf(t, b) # "con"
        \/ a = b \/ HasAncestor(t, a, b) \/ HasAncestor(t, b, a)
     THEN t
     ELSE SetFullscreen(
            SetFullscreen(KeepUrgency(KeepUrgency(FocusIf(swapped, restore), a), b), b, t.con[a].fullscreen),
            a, t.con[b].fullscreen)

\* level_up, behind the check of cmd_focus_level
LevelUp(t) ==
  LET p == Parent(t, t.focused)
      up == IF TypeOf(t, p) = "floating_con" THEN Parent(t, p) ELSE p
  IN IfPermitted(t, p, TRUE, IF TypeOf(t, t.focused) = "workspace" THEN t ELSE Activate(t, up))

\* level_down
LevelDown(t) ==
  LET next == FirstOf(t.con[t.focused].focus)
      inner == IF next # None /\ TypeOf(t, next) = "floating_con" THEN FirstOf(t.con[next].focus) ELSE next
  IN IF inner = None THEN t ELSE Activate(t, inner)

\* tree_open_con without a container, for a new container with or without a window
OpenCon(t, new, window) ==
  LET p == Parent(t, t.focused)
      up == IF TypeOf(t, t.focused) = "workspace" THEN t.focused ELSE p
      tiling == DescendTilingFocused(t, Parent(t, p))
      at == IF TypeOf(t, up) # "floating_con" THEN up
            ELSE IF TypeOf(t, tiling) = "workspace" THEN tiling ELSE Parent(t, tiling)
  IN [Attach([NewCon(t, new, "con", at, "splith") EXCEPT !.con[new].window = window],
             new, at, None, FALSE) EXCEPT !.con[new].layout = "splith"]

\* below a fullscreen container a new window is second in the focus stack
NotFirst(t, c) ==
  LET first == Head(t.con[Parent(t, c)].focus)
  IN IF first = c THEN t
     ELSE [t EXCEPT !.con[Parent(t, c)].focus = InsertAfter(Remove(@, c), first, c)]

FloatDialog(t, c, hints) == IF "dialog" \in hints THEN FloatingEnable(t, c) ELSE t

\* the rest of manage_window, once the window is in the container c
Settle(t, c, hints) ==
  LET w == GetWorkspace(t, c)
      covered == CoveringWs(t, w) # None
      \* the workspace of c stays the same, and so does whether it is visible
      focuses == ~covered /\ IsVisible(t, w) /\ "shy" \notin hints
  IN SetUrgency(ActivateIf(FloatDialog(IF covered THEN NotFirst(t, c) ELSE t, c, hints), c, focuses),
                c, "urgent" \in hints)

\* manage_window for a window that is not swallowed or assigned: it takes over
\* an empty focused container or opens one, is focused unless a fullscreen
\* container covers it or the client declines (hint "shy"), floats if it is a
\* dialog, and may be urgent from the start
ManageWindow(t, new, hints) ==
  IF TypeOf(t, t.focused) = "con" /\ AcceptsWindow(t, t.focused)
  THEN Settle([t EXCEPT !.con[t.focused].window = TRUE], t.focused, hints)
  ELSE Settle(OpenCon(t, new, TRUE), new, hints)

\* get_tree_next, with focus_wrapping "yes": the container or workspace that
\* the directional focus goes to, or None, or "assert" where it fails
RECURSIVE TreeNext(_, _, _, _)
TreeNext(t, c, dir, wrap) ==
  LET p == Parent(t, c)
      fs == t.con[c].fullscreen
      ring == t.con[p].floats
      along == NumChildren(t, p) > 1 /\ Orientation(t, p) = OrientationOf(dir)
      next == Neighbour(t.con[p].nodes, c, dir)
      around == IF Side(dir) = "before" THEN Last(t.con[p].nodes) ELSE Head(t.con[p].nodes)
      out == NextOutput(GetOutput(t, c), dir)
      global == GetFullscreen(t, GetWorkspace(t, c), "global") # None
  IN CASE TypeOf(t, c) = "workspace" \/ fs = "output" ->
            IF global \/ out = None \/ VisibleOn(t, out) = None THEN wrap ELSE VisibleOn(t, out)
       [] fs = "global" -> wrap
       [] TypeOf(t, c) = "floating_con" ->
            IF OrientationOf(dir) # "horiz" THEN None
            ELSE IF Neighbour(ring, c, dir) # None THEN Neighbour(ring, c, dir)
            ELSE IF Side(dir) = "before" THEN Last(ring) ELSE Head(ring)
       [] along /\ (next # None \/ wrap = None) /\ Unanswered(t) -> "assert"
       [] along /\ next # None /\ PermitsFocusing(t, next) -> next
       [] along /\ wrap = None /\ PermitsFocusing(t, around) -> TreeNext(t, p, dir, around)
       [] OTHER -> TreeNext(t, p, dir, wrap)

\* floating containers are raised in their order when focus passes them
Rotate(s, e) ==
  LET i == IndexOf(s, e) IN SubSeq(s, i + 1, Len(s)) \o SubSeq(s, 1, i)
RotateFloats(t, w, f) ==
  IF TypeOf(t, f) = "floating_con" THEN [t EXCEPT !.con[w].floats = Rotate(@, f)] ELSE t

FocusOn(t, next, goal) == Activate(t, IF goal = None THEN DescendFocused(t, next) ELSE goal)

\* tree_next, to the container or workspace next
FocusNext(t, next) ==
  LET w == GetWorkspace(t, next)
      descend == DescendFocused(t, w)
      tiling == DescendTilingFocused(t, w)
      goal == IF next # w THEN None
              ELSE IF t.con[descend].fullscreen = "none" /\ tiling # w THEN tiling ELSE descend
  IN FocusOn(Show(RotateFloats(t, w, next), w), next, goal)

FocusFound(t, next) ==
  CASE next = None -> t
    [] next = "assert" -> Failed(t)
    [] OTHER -> FocusNext(t, next)
FocusDirection(t, c, dir) == FocusFound(t, TreeNext(t, c, dir, None))
=============================================================================
