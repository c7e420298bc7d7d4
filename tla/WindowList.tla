----------------------------- MODULE WindowList -----------------------------
(* What the overview and the window switcher see of the container tree of    *)
(* one output: its workspaces in the order of their content container, the   *)
(* columns or tiles and the floating containers of each, who is marked       *)
(* fullscreen (shown), and the two levels of focus order.  The tree is one   *)
(* record, and an operation of the code is a function of records, so that a  *)
(* handler that calls several of them is their composition.                  *)
EXTENDS Naturals, Sequences, FiniteSets, SequencesExt

CONSTANTS
  Win,        \* the windows that may open
  MaxDesks,   \* how many workspaces there may be
  Scrollers   \* the workspaces with the scrolling layout

Desks == 1 .. MaxDesks

ASSUME WindowListAssumption ==
  /\ MaxDesks \in Nat \ {0}
  /\ Scrollers \subseteq Desks

VARIABLE tree

Drop1(q, x) == SelectSeq(q, LAMBDA y : y # x)
Ahead(q, x) == <<x>> \o Drop1(q, x)
Whose(t, s) == ToSet(t.tiles[s]) \cup UNION {ToSet(f) : f \in ToSet(t.floats[s])}
Opened(t) == UNION {Whose(t, s) : s \in ToSet(t.desks)}
HomeOf(t, w) == CHOOSE s \in ToSet(t.desks) : w \in Whose(t, s)
Here(t) == IF t.focused \in Win THEN HomeOf(t, t.focused) ELSE t.focused
Alive(t, s) == s \in ToSet(t.desks)

(* con_get_fullscreen_con() on the content container: the first workspace    *)
(* that carries CF_OUTPUT.                                                   *)
ShownOf(t) == LET m == SelectSeq(t.desks, LAMBDA s : s \in t.marked)
              IN IF m = <<>> THEN 0 ELSE m[1]

(* The floating container of a window, and the windows that stand together   *)
(* with one in the focus order: those of its floating container, or itself.  *)
PodOf(t, s, w) == LET pods == SelectSeq(t.floats[s], LAMBDA f : w \in ToSet(f))
                  IN IF pods = <<>> THEN <<>> ELSE pods[1]
Block(t, s, w) == IF PodOf(t, s, w) = <<>> THEN <<w>>
                  ELSE SelectSeq(t.foc[s], LAMBDA v : v \in ToSet(PodOf(t, s, w)))

(* con_focus(): the container becomes the head of its parents' focus orders. *)
FocusOn(t, c) ==
  IF c \in Win
  THEN LET s == HomeOf(t, c)
           block == Block(t, s, c)
       IN [t EXCEPT !.focused = c, !.order = Ahead(@, s),
             !.foc[s] = Ahead(block, c) \o SelectSeq(@, LAMBDA v : v \notin ToSet(block))]
  ELSE [t EXCEPT !.focused = c, !.order = Ahead(@, c)]

(* con_activate(): floating_raise_con(), too.                                *)
Activate(t, c) ==
  LET u == FocusOn(t, c)
      s == HomeOf(t, c)
      pod == PodOf(t, s, c)
  IN IF c \notin Win \/ pod = <<>> THEN u
     ELSE [u EXCEPT !.floats[s] = Append(Drop1(@, pod), pod)]

(* con_descend_focused() of a workspace.                                     *)
Descend(t, s) == IF t.foc[s] = <<>> THEN s ELSE t.foc[s][1]

Forget(t, s) == [t EXCEPT !.desks = Drop1(@, s), !.order = Drop1(@, s),
                          !.marked = @ \ {s}]

(* tree_close_internal() of a workspace: the focus leaves it first.          *)
CloseDesk(t, s) ==
  LET u == Forget(t, s)
  IN IF t.focused = s /\ u.order # <<>> THEN Activate(u, Descend(u, u.order[1])) ELSE u

(* con_on_remove_child() of a workspace: closed when it is empty and hidden. *)
Tidy(t, s) == IF Whose(t, s) = {} /\ ShownOf(t) # s THEN CloseDesk(t, s) ELSE t

(* workspace_show().                                                         *)
ShowDesk(t, s) ==
  LET olds == SelectSeq(t.desks, LAMBDA x : x \in t.marked)
      now  == [t EXCEPT !.marked = {s}]
      seen == FocusOn(now, Descend(now, s))
  IN IF Here(t) = s THEN now
     ELSE IF olds = <<>> THEN seen ELSE Tidy(seen, Last(olds))

(* A workspace that is created: first free number, at the place its number   *)
(* gives it, as _con_attach() does.                                          *)
NewDesk(t) == CHOOSE s \in Desks : ~Alive(t, s) /\ \A r \in Desks : ~Alive(t, r) => s <= r
AddDesk(t, s, mark) ==
  [t EXCEPT !.desks = SelectSeq(@, LAMBDA r : r < s) \o <<s>> \o SelectSeq(@, LAMBDA r : r > s),
            !.order = Append(@, s),
            !.marked = IF mark THEN @ \cup {s} ELSE @]

(* con_detach(): a floating container that loses its last window is closed.  *)
Detach(t, w) ==
  LET s == HomeOf(t, w)
      left(f) == Drop1(f, w)
  IN [t EXCEPT !.tiles[s] = Drop1(@, w), !.foc[s] = Drop1(@, w),
               !.floats[s] = SelectSeq([i \in 1 .. Len(@) |-> left(@[i])], LAMBDA f : f # <<>>)]

After(q, x, y) == LET i == IF x \in ToSet(q) THEN CHOOSE k \in 1 .. Len(q) : q[k] = x ELSE Len(q)
                  IN SubSeq(q, 1, i) \o <<y>> \o SubSeq(q, i + 1, Len(q))
Before(q, x, y) == LET i == CHOOSE k \in 1 .. Len(q) : q[k] = x
                   IN SubSeq(q, 1, i - 1) \o <<y>> \o SubSeq(q, i, Len(q))

(* con_attach() of a tiled window: behind the tile that has the focus.       *)
AttachTile(t, w, s) ==
  LET tiled == SelectSeq(t.foc[s], LAMBDA v : v \in ToSet(t.tiles[s]))
  IN [t EXCEPT !.tiles[s] = IF tiled = <<>> THEN Append(@, w) ELSE After(@, tiled[1], w),
               !.foc[s] = Append(@, w)]

(* con_move_to_workspace() with ignore_focus: a floating window takes its    *)
(* floating container along, and nothing is focused.                         *)
MoveTo(t, w, s) ==
  LET from == HomeOf(t, w)
      pod  == PodOf(t, from, w)
      u    == IF w \in t.flag
              THEN [t EXCEPT !.floats[from] = Drop1(@, pod), !.floats[s] = Append(@, pod),
                             !.foc[from] = SelectSeq(@, LAMBDA v : v \notin ToSet(pod)),
                             !.foc[s] = @ \o Block(t, from, w)]
              ELSE AttachTile(Detach(t, w), w, s)
  IN IF from = s THEN t ELSE Tidy(u, from)

------------------------------------------------------------------------------

(* The steps of everybody else: clients, commands of other programs.         *)

(* manage_window(): the window has the focus if its workspace is visible.    *)
OpenWindow(w, floating) ==
  /\ w \notin Opened(tree)
  /\ LET s == Here(tree)
         u == IF floating
              THEN [tree EXCEPT !.floats[s] = Append(@, <<w>>), !.foc[s] = Append(@, w),
                                !.flag = @ \cup {w}]
              ELSE AttachTile([tree EXCEPT !.flag = @ \ {w}], w, s)
     IN tree' = IF ShownOf(tree) = s THEN Activate(u, w) ELSE u

(* con_next_focused(): for a window with the floating flag that of the       *)
(* floating container, for another first one of the same container.          *)
NextFocused(t, w) ==
  LET s == HomeOf(t, w)
      block == Block(t, s, w)
      others == SelectSeq(t.foc[s], LAMBDA v : v \notin ToSet(block))
      next == (IF w \in t.flag THEN <<>> ELSE Drop1(block, w)) \o others
  IN IF next = <<>> THEN s ELSE next[1]

(* tree_close_internal() of a window.                                        *)
CloseIn(t, w) ==
  LET u == [Detach(t, w) EXCEPT !.flag = @ \ {w}]
  IN Tidy(IF t.focused = w THEN Activate(u, NextFocused(t, w)) ELSE u, HomeOf(t, w))

CloseWindow(w) ==
  /\ w \in Opened(tree)
  /\ tree' = CloseIn(tree, w)

(* "[con_id=w] focus", con_activate_unblock(): on another workspace the focus *)
(* goes there and back before that is shown.                                 *)
FocusWindow(w) ==
  /\ w \in Opened(tree)
  /\ LET s == HomeOf(tree, w)
         u == Activate(tree, w)
     IN tree' = IF s = Here(tree) THEN u
                ELSE Activate(ShowDesk(Activate(u, tree.focused), s), w)

(* "workspace s".                                                             *)
GoDesk(s) == tree' = ShowDesk(IF Alive(tree, s) THEN tree ELSE AddDesk(tree, s, FALSE), s)

WindowListInit ==
  tree = [desks |-> <<1>>, marked |-> {1}, order |-> <<1>>, focused |-> 1,
          tiles |-> [s \in Desks |-> <<>>], floats |-> [s \in Desks |-> <<>>],
          foc |-> [s \in Desks |-> <<>>], flag |-> {}]

(* Bound: a floating window that a drop has put among the tiles keeps its    *)
(* flag, and i3 takes its parent, by now the workspace, for its floating     *)
(* container wherever it looks for that.  What comes of it is left out: in   *)
(* that state the behaviours end.                                            *)
FlagsFit == \A w \in tree.flag : w \notin ToSet(tree.tiles[HomeOf(tree, w)])

------------------------------------------------------------------------------

(* Every open window is in one place of one workspace and once in that       *)
(* workspace's focus order: a drop of the overview, which detaches, inserts  *)
(* and reorders by hand (overview.c:1671-1706), neither loses nor doubles    *)
(* one.                                                                      *)
WindowsHaveOnePlace ==
  \A s \in ToSet(tree.desks) :
    LET all == tree.tiles[s] \o FlattenSeq(tree.floats[s])
    IN /\ ~\E i, j \in 1 .. Len(all) : i # j /\ all[i] = all[j]
       /\ Len(tree.foc[s]) = Len(all) /\ ToSet(tree.foc[s]) = ToSet(all)
       /\ \A r \in ToSet(tree.desks) \ {s} : Whose(tree, s) \cap Whose(tree, r) = {}
=============================================================================
