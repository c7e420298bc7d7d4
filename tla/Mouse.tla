-------------------------------- MODULE Mouse --------------------------------
(***************************************************************************)
(* Clicks and drags (click.c, drag.c, tiling_drag.c, floating.c): while the *)
(* user drags a window, drag_pointer runs an event loop of its own, so that *)
(* windows open and close and commands run between the press and the drop.  *)
(* What the drop needs is kept from the press or from the last motion.      *)
(***************************************************************************)
EXTENDS Tree

VARIABLE drag   \* the modal loop that runs, and the locals of its caller

(***************************************************************************)
(* drag_pointer's caller: the container con, whether it had the focus and   *)
(* was fullscreen at the press, the swap modifier, and, from the callback,   *)
(* where it goes.  A floating container comes from the output home.          *)
(***************************************************************************)
NoDrag == [kind |-> "none", con |-> None, focused |-> FALSE, full |-> FALSE, swap |-> FALSE,
           target |-> None, dir |-> "left", how |-> "center", home |-> None]
Dragging(kind, c) == [NoDrag EXCEPT !.kind = kind, !.con = c]

\* con_is_hidden
Hidden(u, c) ==
  \E x \in {c} \cup ToSet(InnerAncestors(u, c)) :
    /\ u.con[Parent(u, x)].layout \in {"stacked", "tabbed"}
    /\ FirstOf(u.con[Parent(u, x)].focus) # x

\* is_tiling_drop_target
IsDropTarget(u, c) ==
  LET w == GetWorkspace(u, c)
  IN /\ u.con[c].window /\ ~IsFloating(u, c) /\ ~Hidden(u, c)
     /\ ~IsInternal(w) /\ IsVisible(u, w)
     /\ CoveringWs(u, w) \in {None, c}
DropTargets(u) == {c \in Pool : TypeOf(u, c) = "con" /\ IsDropTarget(u, c)}

\* has_drop_targets: a visible empty workspace is one, too
HasDropTargets(u) ==
  Cardinality(DropTargets(u))
    + Cardinality({out \in RealOutputs : VisibleOn(u, out) # None /\ NumChildren(u, VisibleOn(u, out)) = 0}) > 1

(***************************************************************************)
(* Presses, as route_click sorts them.                                     *)
(***************************************************************************)
TilingDrag(u, c, swap) ==
  IF HasDropTargets(u)
  THEN [Dragging("tiling", c) EXCEPT !.focused = (c = u.focused), !.swap = swap,
                                     !.full = (u.con[c].fullscreen # "none")]
  ELSE NoDrag

OnScreen(u, w) == ~IsInternal(w) /\ IsVisible(u, w) /\ CoveringWs(u, w) = None
InTabs(u, c) == u.con[Parent(u, c)].layout \in {"stacked", "tabbed"}
\* the decoration of a window, or of any container in a tabbed or stacked one
HasTitle(u, c) ==
  /\ TypeOf(u, c) = "con" /\ OnScreen(u, GetWorkspace(u, c))
  /\ IF InTabs(u, c) THEN TypeOf(u, Parent(u, c)) # "workspace" => ~Hidden(u, Parent(u, c))
     ELSE u.con[c].window /\ ~Hidden(u, c)

\* step 1 of route_click: the wheel over a tab shows the next or the previous
\* of the one shown, if there is one.  The previous one of a floating window
\* is looked up through links that only tiled ones have.
Scrolled(u, p, dir) ==
  LET current == Head(u.con[p].focus)
      next == Neighbour(u.con[p].nodes, current, dir)
      shown == IF next # None /\ PermitsFocusing(u, next) THEN next ELSE current
  IN IF TypeOf(u, current) = "floating_con" /\ Side(dir) = "before" THEN [u EXCEPT !.fault = "unlinked"]
     ELSE Activate(u, DescendFocused(u, shown))
TitleScroll(c, dir) ==
  /\ Running /\ drag.kind = "none" /\ HasTitle(t, c) /\ InTabs(t, c)
  /\ t' = Scrolled(Show(t, GetWorkspace(t, c)), Parent(t, c), dir)
  /\ UNCHANGED drag

\* step 2: with floating_modifier, anywhere in a tiled window or on a tab;
\* nothing is focused
ModifierPress(c, swap) ==
  /\ Running /\ drag.kind = "none"
  /\ InsideFloating(t, c) = None
  /\ (TypeOf(t, c) = "con" /\ IsDropTarget(t, c)) \/ HasTitle(t, c)
  /\ drag' = TilingDrag(t, c, swap) /\ drag' # NoDrag
  /\ UNCHANGED t

\* step 3 of route_click: a tab that is not the focused one, or is clicked
\* again, gives the focus to what is inside it
ClickFocus(u, c, onTab) ==
  LET w == GetWorkspace(u, c)
      inside == u.focused = c \/ ~HasAncestor(u, u.focused, c)
  IN Activate(ShowIf(u, w, w # GetWorkspace(u, u.focused)),
              IF onTab /\ inside THEN DescendFocused([u EXCEPT !.focused = None], c) ELSE c)

\* steps 5, 7 and 8: floating_drag_window, with floating_modifier in a window or on
\* a decoration, and tiling_drag on one; the drag starts after the focus has moved
Press(c, onTab, swap) ==
  LET floating == InsideFloating(t, c)
  IN /\ Running /\ drag.kind = "none"
     /\ TypeOf(t, c) = "con"
     /\ IF floating = None THEN onTab = InTabs(t, c) /\ HasTitle(t, c)
        ELSE /\ ~swap
             /\ IF onTab THEN HasTitle(t, c) /\ InTabs(t, c)
                ELSE t.con[c].window /\ ~Hidden(t, c) /\ OnScreen(t, GetWorkspace(t, c))
     /\ t' = ClickFocus(t, c, onTab)
     /\ drag' = IF floating = None THEN TilingDrag(t', c, swap)
                ELSE [Dragging("floating", floating) EXCEPT !.home = GetOutput(t, c)]

\* a click beside all windows shows the workspace the output shows
RootClick(out) ==
  LET w == Head(t.con[out].focus)
  IN /\ Running /\ drag.kind = "none" /\ OnScreen(t, w)
     /\ w # GetWorkspace(t, t.focused) /\ t' = Show(t, w)
     /\ UNCHANGED drag

(***************************************************************************)
(* Motion.                                                                 *)
(***************************************************************************)
Opposite(dir) == CASE dir = "left" -> "right" [] dir = "right" -> "left" [] dir = "up" -> "down" [] OTHER -> "up"

\* con_on_side_of_parent
OnSide(u, c, dir) ==
  LET p == Parent(u, c)
  IN \/ Orientation(u, p) # OrientationOf(dir)
     \/ u.con[p].layout \in {"stacked", "tabbed"}
     \/ DescendDirection(u, p, Opposite(dir)) = c

RECURSIVE Outermost(_, _, _)
Outermost(u, c, dir) ==
  LET p == Parent(u, c)
  IN IF TypeOf(u, p) # "workspace" /\ OnSide(u, p, dir) THEN Outermost(u, p, dir) ELSE c

\* find_drop_target: a window, or what is focused on the output elsewhere
FoundTargets(u) == DropTargets(u) \cup {DescendTilingFocused(u, out) : out \in RealOutputs}

\* drag_callback of tiling_drag.c, which is only called while con exists
TilingMotion(x, dir, how) ==
  /\ Running /\ drag.kind = "tiling" /\ Alive(t, drag.con)
  /\ how = "center" => dir = "left"
  /\ TypeOf(t, x) = "workspace" => how = "center"
  /\ how = "parent" => OnSide(t, x, dir)
  /\ drag' = [drag EXCEPT !.target = IF how = "parent" THEN Outermost(t, x, dir) ELSE x,
                          !.dir = dir, !.how = how]
  /\ UNCHANGED t

\* floating_maybe_reassign_ws, once con is on the output out
Follow(u, w, needs, follows) == IF follows THEN Activate(Show(u, w), needs) ELSE u
Reassign(u, c, out) ==
  LET w == Head(u.con[out].focus)
      needs == DescendFocused(u, c)
      follows == u.focused = needs \/ HasAncestor(u, needs, u.focused)
  IN IF IsInternal(GetWorkspace(u, c)) \/ GetOutput(u, c) = out THEN u
     ELSE Follow(MoveToWorkspace(u, c, w, FALSE), w, needs, follows)

\* drag_window_callback, which is only called while con exists; at the end of
\* floating_drag_window, floating_reposition to the rectangle at the press
Reposition(out) ==
  /\ Running /\ Alive(t, drag.con)
  /\ drag.kind = "floating" \/ (drag.kind = "reverts" /\ out = drag.home)
  /\ t' = Reassign(t, drag.con, out)
  /\ drag' = IF drag.kind = "reverts" THEN NoDrag ELSE drag

(***************************************************************************)
(* The end of a drag.                                                      *)
(***************************************************************************)
Swappable(u, a, b) ==
  /\ TypeOf(u, a) = "con" /\ TypeOf(u, b) = "con"
  /\ a # b /\ ~HasAncestor(u, a, b) /\ ~HasAncestor(u, b, a)

\* con_swap gives up, and with it the rest of tiling_drag
Refused(u, d) == d.how = "center" /\ d.swap /\ ~Swappable(u, d.con, d.target)

\* next to the target, in a split of the direction's orientation
DropSibling(u, c, x, dir) ==
  LET p == Parent(u, x)
      o == OrientationOf(dir)
      split == IF Orientation(u, p) = o THEN u
               ELSE IF Parent(u, c) = p /\ NumChildren(u, p) = 2
               THEN [u EXCEPT !.con[p].layout = SplitLayoutOf(o)]
               ELSE Split(u, x, o)
  IN InsertConInto(split, c, x, Side(dir))

\* out of the target's parent; tree_move may change the focus
KeepFocus(u, old) == IF u.focused # old /\ Alive(u, old) THEN Activate(u, old) ELSE u
MoveKeepingFocus(u, c, dir) == KeepFocus(TreeMove(u, c, dir), u.focused)
DropParent(u, c, x, dir) ==
  LET siblings == u.con[Parent(u, x)].nodes
      edge == IF u.con[Parent(u, x)].layout \notin {"stacked", "tabbed"} THEN x
              ELSE IF Side(dir) = "before" THEN Head(siblings) ELSE Last(siblings)
  IN MoveKeepingFocus(IF c = edge THEN u ELSE InsertConInto(u, c, edge, Side(dir)), c, dir)

\* Mistake: what had the focus before the press is not asked for.
RestoreAlways(u, d) ==
  LET c == d.con
  IN IF CoveringWs(u, GetWorkspace(u, c)) # None THEN u ELSE Focus(Show(u, GetWorkspace(u, c)), c)

\* the last part of tiling_drag: fullscreen and focus as they were at the press
CoverIf(u, c, covers) == IF covers THEN EnableFullscreen(u, c, "output") ELSE u
FocusOnIf(u, c, focuses) == IF focuses THEN Focus(Show(u, GetWorkspace(u, c)), c) ELSE u
Restore(u, d) ==
  LET c == d.con
      fs == CoveringWs(u, GetWorkspace(u, c))
      uncovers == fs # None /\ d.focused /\ d.full
      full == d.full /\ (fs = None \/ d.focused)
      focuses == IF fs # None THEN d.focused /\ d.full
                 ELSE d.focused \/ (d.full /\ GetWorkspace(u, u.focused) = GetWorkspace(u, c))
  IN CASE ~d.focused /\ ~d.full -> u
       [] (d.focused \/ d.full) /\ fs = c -> [u EXCEPT !.fault = "assert"]
       [] OTHER -> FocusOnIf(CoverIf(IF uncovers THEN DisableFullscreen(u, fs) ELSE u, c, full), c, focuses)

\* the container where it was dropped
Dropped(u, d) ==
  CASE d.how = "center" /\ d.swap -> Swap(u, d.con, d.target)
    [] d.how = "center" /\ ~d.swap -> MoveToTarget(u, d.con, d.target)
    [] d.how = "sibling" -> DropSibling(u, d.con, d.target, d.dir)
    [] OTHER -> DropParent(u, d.con, d.target, d.dir)

\* tiling_drag after drag_pointer, whatever ended the loop but a key
Drop(u, d) ==
  LET bare == DisableFullscreen(u, d.con)
  IN CASE d.target = None \/ ~Alive(u, d.target) \/ (d.target = d.con /\ d.how # "parent") -> u
       [] ~Alive(u, d.con) -> [u EXCEPT !.fault = "dragged"]
       [] OTHER -> IF Refused(u, d) THEN bare ELSE Restore(Dropped(bare, d), d)

\* A container that was freed is not one any more (con_exists).
Kept(u) == [drag EXCEPT !.con = IF Alive(u, @) THEN @ ELSE None,
                        !.target = IF Alive(u, @) THEN @ ELSE None]

\* UnmapNotify of a window on the focused workspace: DRAG_ABORT
Aborts(c) == GetWorkspace(t, c) = GetWorkspace(t, t.focused)
\* the server has it unmapped, so that its end is a DestroyNotify alone
Unmapped(u, c) == Hidden(u, c) \/ ~IsVisible(u, GetWorkspace(u, c)) \/ CoveringWs(u, GetWorkspace(u, c)) \notin {None, c}
Looping == drag.kind \in {"tiling", "floating"}

\* A ButtonRelease, for the window None, or the end of a window, which is closed
\* before the loop ends, if it ends it; then the caller goes on.
Without(u, c) == IF c = None THEN u ELSE Close(u, c, FALSE, FALSE)
DropIf(u, d, drops) == IF drops THEN Drop(u, d) ELSE u
DrainEvent(c, ends) ==
  /\ Running /\ (Looping => Room(3))
  /\ c = None => ends
  /\ ends => Looping /\ (c # None => Aborts(c))
  /\ c # None /\ ~ends => (Looping /\ Aborts(c) => Unmapped(t, c))
  /\ t' = DropIf(Without(t, c), drag, ends /\ drag.kind = "tiling")
  /\ drag' = IF ends THEN NoDrag ELSE Kept(t')

\* A key ends the loop; its binding runs before the loop returns.
KeyPress ==
  /\ Running /\ Looping
  /\ drag' = [drag EXCEPT !.kind = IF @ = "tiling" THEN "none" ELSE "reverts"]
  /\ UNCHANGED t

\* the container has been closed in the meantime
RevertNothing ==
  /\ Running /\ drag.kind = "reverts" /\ drag.con = None
  /\ drag' = NoDrag /\ UNCHANGED t

MouseInit == drag = NoDrag

\* the events of the pointer and the keyboard, and of windows that go away
Motions ==
  /\ drag.kind = "tiling"
  /\ \E x \in FoundTargets(t), dir \in Dirs, how \in {"center", "sibling", "parent"} : TilingMotion(x, dir, how)
Clicks ==
  \/ \E c \in Pool, swap \in BOOLEAN : ModifierPress(c, swap)
  \/ \E c \in Pool, onTab \in BOOLEAN, swap \in BOOLEAN : Press(c, onTab, swap)
  \/ \E c \in Pool, dir \in {"left", "right"} : TitleScroll(c, dir)
  \/ \E out \in RealOutputs : RootClick(out)
DragEnds ==
  \/ \E c \in Windows \cup {None}, ends \in BOOLEAN : DrainEvent(c, ends)
  \/ \E out \in RealOutputs : Reposition(out)
  \/ KeyPress \/ RevertNothing

(***************************************************************************)
(* Properties.                                                             *)
(***************************************************************************)
FocusAsMeant ==
  LET w == GetWorkspace(t', drag.con)
  IN IF drag.focused /\ CoveringWs(t', w) \in {None, drag.con}
     THEN t'.focused = drag.con
     ELSE (~drag.full /\ ~drag.swap /\ t.con[t.focused].window) => t'.focused # drag.con \/ t.focused = drag.con
\* the step that ends a drag, unless it closes a window or is undefined
Ends(kind) == drag.kind = kind /\ drag' = NoDrag /\ Windows' = Windows /\ t'.fault = "none"
CanRevert ==
  /\ Ends("reverts") /\ Alive(t, drag.con)
  /\ ~IsInternal(GetWorkspace(t, drag.con)) /\ CoveringWs(t, Head(t.con[drag.home].focus)) = None
\* A drag ends as it was meant, whatever ran in between: a tiled window that is
\* dropped has the focus if it had it when the drag began and nothing covers it,
\* and takes it from no other window unless it swaps with it (tiling_drag); a
\* floating one whose drag is reverted is back on its output, unless something
\* fullscreen covers that (floating_reposition).  The tree is sound after either, but for two cases:
\* tiling_drag does not ask whether its container is still there as it asks for
\* the target (tiling_drag.c:438-451), and a swap takes the mode of a fullscreen
\* target along, which an assertion rules out (tiling_drag.c:515).
DragsEndAsMeant ==
  [][/\ (Ends("tiling") /\ t' # t /\ ~Refused(t, drag)) => FocusAsMeant
     /\ CanRevert => GetOutput(t', drag.con) = drag.home
     /\ (drag # NoDrag /\ drag' = NoDrag) =>
          CASE t'.fault = "dragged" -> ~Alive(t', drag.con) /\ Alive(t', drag.target)
            [] t'.fault = "assert" -> drag.swap /\ t.con[drag.target].fullscreen # "none"
            [] OTHER -> NoFault' /\ TreeWellFormed']_<<t, drag>>
=============================================================================
