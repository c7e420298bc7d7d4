------------------------------- MODULE ConOps -------------------------------
(***************************************************************************)
(* The operations of tree.c and workspace.c that call each other: closing a *)
(* container, the callback its parent gets, and switching workspaces.  The  *)
(* workspace transition and the overview snapshot that workspace_show also  *)
(* starts change nothing in the tree.                                       *)
(***************************************************************************)
EXTENDS ConTree

CONSTANTS UrgencyTimer,    \* workspace_urgency_timer is greater than zero
          DefaultLayout    \* config.default_layout, the workspace_layout

RECURSIVE Close(_, _, _, _)
RECURSIVE CloseAll(_, _, _)

\* Mistake: a container with a single child left is closed as redundant.
OnRemoveChildEager(t, p) ==
  IF ~Alive(t, p) THEN [t EXCEPT !.fault = "freed"]
  ELSE IF TypeOf(t, p) = "con" /\ NumChildren(t, p) <= 1 THEN Close(t, p, FALSE, FALSE) ELSE t

\* a split container without children, or an empty workspace that is hidden
Deserted(t, p) ==
  IF TypeOf(t, p) = "workspace" THEN t.con[p].focus = <<>> /\ ~IsVisible(t, p) ELSE IsLeaf(t, p)
CloseDeserted(t, p) == IF Deserted(t, p) THEN Close(t, p, FALSE, FALSE) ELSE t
RecheckUrgency(t, p) ==
  UpdateParentsUrgency([t EXCEPT !.con[p].urgent = HasUrgentChild(t, p)], p)

\* con_on_remove_child
OnRemoveChild(t, p) ==
  CASE ~Alive(t, p) -> [t EXCEPT !.fault = "freed"]
    [] TypeOf(t, p) \in {"root", "output"} -> t
    [] OTHER -> CloseDeserted(IF TypeOf(t, p) = "workspace" THEN t ELSE RecheckUrgency(t, p), p)

\* the children of a container are closed in order, each without its parent
CloseAll(t, cs, kill) ==
  FoldLeft(LAMBDA u, c : Close(u, c, kill, TRUE), t, cs)

\* what con_next_focused gives if c has the focus
NextIfFocused(t, c) == IF c = t.focused THEN NextFocused(t, c) ELSE None
ActivateNext(t, next) == ActivateIf(t, next, next # None)
TellParent(t, p, dontKillParent) == IF dontKillParent THEN t ELSE OnRemoveChild(t, p)

\* out of the tree, its timer stopped, and freed
Unlink(t, c) ==
  ConFree(IF t.con[c].timer THEN UpdateUrgentFlag(Detach(t, c), GetWorkspace(t, c))
                            ELSE Detach(t, c), c)

\* The last part of tree_close_internal, after the children.  With kill the
\* client is only asked to close its window: the container stays, and so do all
\* containers above it.
CloseSelf(t, c, kill, dontKillParent) ==
  IF ~IsLeaf(t, c) \/ (t.con[c].window /\ kill) THEN t
  ELSE TellParent(ActivateNext(Unlink(t, c), NextIfFocused(t, c)), Parent(t, c), dontKillParent)

\* tree_close_internal
Close(t, c, kill, dontKillParent) ==
  CloseSelf(CloseAll(IF t.con[c].urgent THEN ResetUrgency(t, c) ELSE t, t.con[c].nodes, kill),
            c, kill, dontKillParent)

\* con_close
ConClose(t, c, kill) ==
  IF TypeOf(t, c) = "workspace"
  THEN FoldLeft(LAMBDA u, x : IF Alive(u, x) THEN Close(u, x, kill, FALSE)
                              ELSE [u EXCEPT !.fault = "freed"], t, t.con[c].focus)
  ELSE Close(t, c, kill, FALSE)

\* workspace_show starts the timer for a hint that focusing would reset at once
Defer(t, w, next, deferred) ==
  IF deferred THEN [t EXCEPT !.con[next].urgent = TRUE, !.con[next].timer = TRUE, !.con[w].urgent = TRUE]
  ELSE t
\* the focus part of workspace_show
ShowFocus(t, w, next) ==
  LET deferred == t.con[next].urgent /\ UrgencyTimer
  IN Defer(Focus(IF deferred THEN [t EXCEPT !.con[next].urgent = FALSE] ELSE t, next), w, next, deferred)

Siblings(t, w) == t.con[Parent(t, w)].nodes
\* w is the visible workspace of its output
Visible(t, w) ==
  [FoldLeft(LAMBDA u, x : [u EXCEPT !.con[x].fullscreen = "none"], t, Siblings(t, w))
     EXCEPT !.con[w].fullscreen = "output"]
LastShown(t, w) ==
  LET shown == SelectSeq(Siblings(t, w), LAMBDA x : t.con[x].fullscreen = "output")
  IN IF shown = <<>> THEN None ELSE Last(shown)
Remember(t, w) == IF w # None /\ ~IsInternal(w) THEN [t EXCEPT !.previous = w] ELSE t

\* Mistake: the focus stays where it was.
ShowUnfocused(t, w) == IF IsInternal(w) THEN t ELSE Visible(t, w)

\* Mistake: the workspace shown before is not closed when it is empty.
ShowLeavingEmpty(t, w) ==
  IF IsInternal(w) \/ w = GetWorkspace(t, t.focused) THEN t
  ELSE ShowFocus(Visible(t, w), w, DescendFocused(t, w))

\* the workspace that was shown before is closed if it is empty
CloseLeft(t, old) ==
  IF old # None /\ Below(t, old) = <<>> /\ ~IsVisible(t, old) THEN Close(t, old, FALSE, FALSE) ELSE t

\* workspace_show
Show(t, w) ==
  LET current == GetWorkspace(t, t.focused)
  IN CASE ~Alive(t, w) -> [t EXCEPT !.fault = "freed"]
       [] IsInternal(w) -> t
       [] w = current -> Visible(t, w)
       [] OTHER ->
            [CloseLeft(ShowFocus(Remember(Visible(t, w), current), w, DescendFocused(t, w)), LastShown(t, w))
               EXCEPT !.con[w].fullscreen = "output"]
ShowIf(t, w, wanted) == IF wanted THEN Show(t, w) ELSE t

UncoverFor(t, c, fs) ==
  IF fs # None /\ fs # c /\ ~HasAncestor(t, c, fs) THEN DisableFullscreen(t, fs) ELSE t
\* from the workspace of the container from to c on the workspace w
SwitchTo(t, c, w, from) ==
  IF w = GetWorkspace(t, from) THEN t ELSE Activate(Show(Activate(t, from), w), c)
\* con_activate_unblock
ActivateUnblock(t, c) ==
  LET w == GetWorkspace(t, c)
  IN SwitchTo(Activate(UncoverFor(t, c, CoveringWs(t, w)), c), c, w, t.focused)

\* Mistake: what covers the workspace already is left fullscreen.
EnableFullscreenToo(t, c, mode) ==
  IF TypeOf(t, c) = "workspace" \/ t.con[c].fullscreen = mode THEN t
  ELSE [Activate(t, c) EXCEPT !.con[c].fullscreen = mode]

\* con_enable_fullscreen
EnableFullscreen(t, c, mode) ==
  LET w == GetWorkspace(t, c)
      elsewhere == GetWorkspace(t, t.focused) # w
      uncovered == IF CoveringWs(t, w) = None THEN t ELSE DisableFullscreen(t, CoveringWs(t, w))
  IN IF TypeOf(t, c) = "workspace" \/ t.con[c].fullscreen = mode THEN t
     ELSE [ActivateIf(Activate(ShowIf(uncovered, w, mode = "global" /\ elsewhere), c),
                      t.focused, mode # "global" /\ elsewhere)
             EXCEPT !.con[c].fullscreen = mode]

ToggleFullscreen(t, c, mode) ==
  IF t.con[c].fullscreen = "none" THEN EnableFullscreen(t, c, mode) ELSE DisableFullscreen(t, c)

\* The timer that workspace_show started (workspace_defer_update_urgent_hint_cb).
UrgencyTimeout(t, c) ==
  LET t1 == [t EXCEPT !.con[c].timer = FALSE]
  IN IF t.con[c].urgent THEN ResetUrgency(t1, c) ELSE t1

(***************************************************************************)
(* Workspaces.                                                             *)
(***************************************************************************)
\* a workspace that does not exist yet, on the output out; it is vertical or
\* horizontal by configuration, horizontal here
NewWorkspace(t, w, out, mode) ==
  LET t1 == NewCon(t, w, "workspace", out, "splith")
      t2 == [t1 EXCEPT !.con[w].wsLayout = DefaultLayout, !.con[w].fullscreen = mode]
  IN Attach(t2, w, out, None, FALSE)

\* workspace_get
GetOrCreate(t, w) ==
  IF Alive(t, w) THEN t ELSE NewWorkspace(t, w, GetOutput(t, t.focused), "none")

\* get_focus_order and set_focus_order around moving all tiling children of w
\* into the container new
MoveChildren(t, w, new) ==
  LET order == t.con[w].focus
      t1 == FoldLeft(LAMBDA u, c : Attach(Detach(u, c), c, new, None, TRUE), t, t.con[w].nodes)
  IN [t1 EXCEPT !.con[new].focus = SelectSeq(order, LAMBDA c : Contains(t.con[w].nodes, c))]

\* the first part of workspace_encapsulate, ws_force_orientation and
\* con_set_layout: a new container around the tiling children of w
Wrap(t, w, new, layout) == MoveChildren(NewCon(t, new, "con", w, layout), w, new)

\* workspace_encapsulate; the result is in the container new
Encapsulate(t, w, new) == Attach(Wrap(t, w, new, t.con[w].layout), new, w, None, TRUE)

\* ws_force_orientation
ForceOrientation(t, w, o) ==
  LET new == Fresh(t)
      t1 == Wrap(t, w, new, t.con[w].layout)
      t2 == [t1 EXCEPT !.con[w].layout = IF o = "horiz" THEN "splith" ELSE "splitv"]
  IN Attach(t2, new, w, None, FALSE)

\* create_workspace_on_output, with the first unused name
CreateOnOutput(t, out) ==
  LET unused == CHOOSE w \in Workspaces :
                  /\ ~Alive(t, w) /\ WsNum[w] # -1
                  /\ \A v \in Workspaces : ~Alive(t, v) /\ WsNum[v] # -1 => WsNum[w] <= WsNum[v]
  IN NewWorkspace(t, unused, out, "output")

\* the workspace that the output showed is closed if it is empty
CloseReplaced(t, out, before) ==
  IF before # None /\ Contains(t.con[out].nodes, before) THEN OnRemoveChild(t, before) ELSE t

\* workspace_move_to_output
MoveWsToOutput(t, w, out) ==
  LET from == Parent(t, w)
      visible == IsVisible(t, w)
      taken == Detach(IF NumChildren(t, from) = 1 THEN CreateOnOutput(t, from) ELSE t, w)
  IN IF from = out THEN t
     ELSE CloseReplaced(ShowIf(Attach(ShowIf(taken, FirstOf(taken.con[from].focus), visible), w, out, None, FALSE),
                               w, visible),
                        out, FirstOf(t.con[out].focus))
=============================================================================
