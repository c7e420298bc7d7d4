------------------------------ MODULE Overview ------------------------------
(* The overview (src/overview.c): a thumbnail for each workspace and one for *)
(* a new one, on an overlay that grabs the keyboard or, when another client  *)
(* has it, takes the input focus.  Windows are dragged between thumbnails.   *)
(* An overlay that leaves stays active until its animation has ended.        *)
EXTENDS WindowList

CONSTANTS NoWin,        \* no window is dragged
          MaxFrames,    \* how many ticks an animation takes at most
          Letters,      \* what is typed into the filter,
          Shortcuts,    \* ... the ones that select while it is empty (hjkl, 1-9, space),
          MaxFilter,    \* ... and how many of them it holds
          HasName(_, _) \* a window (its title, class or instance) or workspace has this text

ASSUME OverviewAssumption ==
  NoWin \notin Win /\ MaxFrames \in Nat \ {0} /\ MaxFilter \in Nat \ {0} /\ Shortcuts \subseteq Letters

VARIABLES
  ov,        \* overview_state
  keyboard,  \* who has grabbed it: "free", "overview", "switcher", "other"
  input      \* the input focus: "overlay" or "window"

Closed == [active |-> FALSE, exiting |-> FALSE, frames |-> 0, timer |-> FALSE,
           thumbs |-> <<>>, selected |-> 0, drag |-> "no", dragged |-> NoWin,
           filter |-> <<>>, grabbed |-> FALSE, stolen |-> FALSE]

(* ---- helpers on overview_state ----                                       *)

DragReset(o) == [o EXCEPT !.drag = "no", !.dragged = NoWin]
(* Mistake: an animation of no duration starts no timer.                     *)
Animate_OnlyLong(o) ==
  \E f \in 0 .. MaxFrames : ov' = [o EXCEPT !.frames = f, !.timer = @ \/ f > 0]
Animate(o) == \E f \in 0 .. MaxFrames : ov' = [o EXCEPT !.frames = f, !.timer = TRUE]
Leave(o) == [DragReset(o) EXCEPT !.exiting = TRUE, !.filter = <<>>]

Collect(t) == [i \in 1 .. Len(t.desks) |-> [desk |-> t.desks[i], slot |-> FALSE]]
                \o <<[desk |-> 0, slot |-> TRUE]>>

(* overview_rebuild(): the last thumbnail of that workspace is selected; no  *)
(* workspace at all (0, NULL in the code) selects the thumbnail of a new one.*)
Rebuild(o, t, keep) ==
  LET c    == Collect(t)
      at   == {i \in 1 .. Len(c) : c[i].desk = keep}
      orig == {i \in 1 .. Len(c) : c[i].desk = ShownOf(t)}
      last(S) == CHOOSE i \in S : \A j \in S : j <= i
  IN [o EXCEPT !.thumbs = c,
               !.selected = IF at # {} THEN last(at) ELSE IF orig # {} THEN last(orig) ELSE 1]

(* Mistake: an overview that leaves no longer forgets workspaces.            *)
Clear_Staying(o, t) == [o EXCEPT !.thumbs =
  [i \in 1 .. Len(@) |-> IF o.exiting \/ Alive(t, @[i].desk) \/ @[i].slot
                         THEN @[i] ELSE [@[i] EXCEPT !.desk = 0]]]

(* con_free() of a workspace: overview_forget_workspace().                   *)
Clear(o, t) == [o EXCEPT !.thumbs =
                 [i \in 1 .. Len(@) |-> IF Alive(t, @[i].desk) \/ @[i].slot
                                        THEN @[i] ELSE [@[i] EXCEPT !.desk = 0]]]

(* overview_target_workspace(): the tree afterwards, and the workspace.  One *)
(* for the slot is created as the fullscreen one of its output               *)
(* (create_workspace_on_output()).                                           *)
Target(t, th) ==
  IF ~th.slot \/ Desks \subseteq ToSet(t.desks)
  THEN <<t, IF Alive(t, th.desk) THEN th.desk ELSE 0>>
  ELSE <<AddDesk(t, NewDesk(t), TRUE), NewDesk(t)>>

(* Bound: no more than MaxDesks workspaces are created.                       *)
Room(t, th) == th.slot => Cardinality(ToSet(t.desks)) < MaxDesks

Select(o, i) == IF i \in 1 .. Len(o.thumbs) THEN [o EXCEPT !.selected = i] ELSE o
StepTo(o, dir) == LET n == Len(o.thumbs) IN Select(o, ((o.selected - 1 + dir + n) % n) + 1)

(* thumb_matches(): by the name of the workspace or of one of its windows.   *)
Matches(o, t, i) ==
  LET s == o.thumbs[i].desk
  IN \/ o.filter = <<>>
     \/ /\ ~o.thumbs[i].slot /\ Alive(t, s)
        /\ HasName(s, o.filter) \/ \E w \in Whose(t, s) : HasName(w, o.filter)

(* overview_step_match(): round, until one matches.                          *)
StepMatch(o, t, dir) ==
  LET n == Len(o.thumbs)
      at(k) == ((o.selected - 1 + k * dir + k * n) % n) + 1
      hits == {k \in 1 .. n : Matches(o, t, at(k))}
  IN IF hits = {} THEN o ELSE Select(o, at(CHOOSE k \in hits : \A j \in hits : k <= j))

Refilter(o, t) ==
  LET hits == {i \in 1 .. Len(o.thumbs) : Matches(o, t, i)}
  IN IF o.filter = <<>> \/ Matches(o, t, o.selected) \/ hits = {} THEN o
     ELSE Select(o, CHOOSE i \in hits : \A j \in hits : i <= j)

(* overview_go_to(): a workspace that has gone just ends the overview.       *)
GoTo(o, t, s, w) ==
  /\ tree' = IF s = 0 THEN t
             ELSE LET u == ShowDesk(t, s) IN IF w \in Opened(u) THEN FocusOn(u, w) ELSE u
  /\ LET at == {i \in 1 .. Len(o.thumbs) : o.thumbs[i].desk = s}
         seen == IF s = 0 \/ at = {} THEN o
                 ELSE [o EXCEPT !.selected = CHOOSE i \in at : \A j \in at : j <= i]
     IN Animate(Leave(Clear(seen, tree')))

(* overview_select().                                                        *)
OpenSelected(o) ==
  LET th == o.thumbs[o.selected]
      g  == Target(tree, th)
      p  == IF th.slot THEN Rebuild(o, g[1], g[2]) ELSE o
  IN Room(tree, th) /\ GoTo(p, g[1], g[2], NoWin)

(* Where a dragged window will land (drop_slot_at()): the index of a column  *)
(* and the one the slot is drawn before, or a leaf and a side of it.         *)
NoSlot == [how |-> "whole", mate |-> NoWin, after |-> TRUE, index |-> 0]
SlotsAt(t, s) ==
  IF s \in Scrollers
  THEN {[how |-> "column", mate |-> IF i < Len(t.tiles[s]) THEN t.tiles[s][i + 1] ELSE NoWin,
         after |-> i >= Len(t.tiles[s]), index |-> i] : i \in 0 .. Len(t.tiles[s])}
  ELSE {NoSlot} \cup {[how |-> "leaf", mate |-> m, after |-> a, index |-> 0] :
                        m \in Whose(t, s), a \in BOOLEAN}

(* con_detach(), con_attach() and the index of overview_drop() in a strip.   *)
IntoStrip(t, w, s, slot) ==
  LET u == IF w \in ToSet(t.tiles[s]) THEN t
           ELSE LET d == Detach(t, w) IN [d EXCEPT !.tiles[s] = Append(@, w), !.foc[s] = Append(@, w)]
      q == Drop1(u.tiles[s], w)
      i == IF slot.index < Len(q) THEN slot.index ELSE Len(q)
  IN [u EXCEPT !.tiles[s] = SubSeq(q, 1, i) \o <<w>> \o SubSeq(q, i + 1, Len(q))]

Beside(q, m, w, after) == IF after THEN After(q, m, w) ELSE Before(q, m, w)

(* insert_con_into(): next to a tile, or into the floating container of the  *)
(* window under the pointer.  In the focus order it comes before what it is  *)
(* put next to if it was before, and takes that along if it was the focused  *)
(* one of its container.                                                     *)
NextTo(t, w, s, slot) ==
  LET m == slot.mate
      u == Detach(t, w)
      same == m \in ToSet(PodOf(t, s, w))
      mine == IF same THEN <<w>> ELSE Block(t, s, w)
      its  == IF same THEN <<m>> ELSE Block(t, s, m)
      order == t.foc[s]
      first == \E i, j \in DOMAIN order : i < j /\ order[i] = w /\ order[j] = m
      block == IF first THEN <<w>> \o its ELSE its \o <<w>>
      at == IF first /\ mine[1] = w THEN w ELSE its[1]
      v == [u EXCEPT !.foc[s] = FlattenSeq([i \in DOMAIN order |->
              CASE order[i] = at -> block
                [] order[i] \in ToSet(block) \ {at} -> <<>>
                [] OTHER -> <<order[i]>>])]
  IN IF m \in ToSet(u.tiles[s])
     THEN [v EXCEPT !.tiles[s] = Beside(@, m, w, slot.after)]
     ELSE [v EXCEPT !.floats[s] = [i \in 1 .. Len(@) |->
             IF m \in ToSet(@[i]) THEN Beside(@[i], m, w, slot.after) ELSE @[i]]]

Land(t, w, s, slot) ==
  IF s \in Scrollers THEN IntoStrip(t, w, s, slot)
  ELSE IF slot.how = "leaf" /\ slot.mate # w THEN NextTo(t, w, s, slot) ELSE t

(* overview_drop(): the window moves, then lands in the slot of the moment.  *)
(* The slot is looked for after the move; on the thumbnail of a new          *)
(* workspace there is none (a strip then only takes the window in).          *)
Dropped(t, w, th, slot) ==
  LET g == Target(t, th)
      m == MoveTo(g[1], w, g[2])
  IN IF th.slot
     THEN IF g[2] \in Scrollers /\ w \notin ToSet(m.tiles[g[2]])
          THEN IntoStrip(m, w, g[2], [NoSlot EXCEPT !.index = Len(m.tiles[g[2]])]) ELSE m
     ELSE Land(m, w, g[2], slot)

Drop(i) ==
  IF i = 0 \/ ov.dragged \notin Opened(tree) THEN ov' = DragReset(ov) /\ tree' = tree
  ELSE LET w  == ov.dragged
           th == ov.thumbs[i]
           g  == Target(tree, th)
           at == ov.thumbs[ov.selected].desk
       IN IF ~th.slot /\ g[2] = 0 THEN ov' = DragReset(ov) /\ tree' = tree
          ELSE /\ Room(tree, th)
               /\ \E slot \in IF th.slot THEN {NoSlot} ELSE SlotsAt(MoveTo(g[1], w, g[2]), g[2]) :
                    tree' = Dropped(tree, w, th, slot)
               /\ ov' = Rebuild(DragReset(ov), tree', IF Alive(tree', at) THEN at ELSE g[2])

------------------------------------------------------------------------------

(* The keyboard and the input focus are the X server's.  A client's second   *)
(* grab replaces its first, and its ungrab lets go of whichever it holds.    *)
Release(k) == IF k = "other" THEN k ELSE "free"

\* What the steps of an open overview leave alone
OverviewOnly == UNCHANGED <<keyboard, input>>

(* overview_enter(); overview_show_overlay() grabs the keyboard or else      *)
(* takes the focus.  (One whose overlay cannot be created undoes all of it.)  *)
Enter ==
  \/ /\ ov.active /\ ov.exiting
     /\ Animate([ov EXCEPT !.exiting = FALSE])
     /\ OverviewOnly
  \/ /\ ~ov.active
     /\ LET o == [Rebuild(Closed, tree, Here(tree)) EXCEPT !.active = TRUE,
                    !.grabbed = (keyboard # "other"), !.stolen = (keyboard = "other")]
        IN Animate(o)
     /\ keyboard' = IF keyboard = "other" THEN keyboard ELSE "overview"
     /\ input' = IF keyboard = "other" THEN "overlay" ELSE input

(* overview_exit().                                                          *)
Exit == ov.active /\ ~ov.exiting /\ Animate(Leave(ov)) /\ OverviewOnly

Toggle == (Exit \/ Enter) /\ UNCHANGED tree

(* "overview next", "prev": wherever the focus is.                           *)
Navigate(dir) ==
  /\ ov.active /\ ~ov.exiting
  /\ ov' = StepTo(ov, dir)
  /\ OverviewOnly /\ UNCHANGED tree

OverviewSelect == ov.active /\ ~ov.exiting /\ OpenSelected(ov) /\ OverviewOnly

(* overview_tick(); overview_destroy() when it has left.                     *)
Destroy ==
  /\ keyboard' = IF ov.grabbed THEN Release(keyboard) ELSE keyboard
  /\ input' = IF ov.stolen THEN "window" ELSE input
  /\ ov' = Closed

Tick ==
  /\ ov.timer /\ ov.active
  /\ IF ov.frames <= 1 /\ ov.exiting THEN Destroy
     ELSE ov' = [ov EXCEPT !.frames = IF @ = 0 THEN 0 ELSE @ - 1] /\ OverviewOnly
  /\ UNCHANGED tree

(* The keys, which come when the overlay has the grab or the focus.          *)
Keys == ov.active /\ ~ov.exiting
        /\ (keyboard = "overview" \/ (keyboard = "free" /\ input = "overlay"))

(* Letters that select while the filter is empty do as the other keys.       *)
Filtering == ov.filter # <<>>
KeyEscape ==
  /\ IF Filtering THEN ov' = [ov EXCEPT !.filter = <<>>] ELSE Animate(Leave(ov))
  /\ UNCHANGED tree
KeyBackSpace ==
  /\ ov' = IF Filtering THEN Refilter([ov EXCEPT !.filter = Front(@)], tree) ELSE ov
  /\ UNCHANGED tree
KeyType(c) ==
  /\ Filtering \/ c \notin Shortcuts
  /\ ov' = IF Len(ov.filter) < MaxFilter THEN Refilter([ov EXCEPT !.filter = Append(@, c)], tree) ELSE ov
  /\ UNCHANGED tree
KeyArrow(dir) ==
  /\ ov' = IF Filtering THEN StepMatch(ov, tree, dir) ELSE StepTo(ov, dir)
  /\ UNCHANGED tree
KeyHomeEnd(i) == ov' = Select(ov, i) /\ UNCHANGED tree
KeyReturn == OpenSelected(ov)
KeyDigit(i) == ~Filtering /\ i <= 9 /\ OpenSelected([ov EXCEPT !.selected = i])

OverviewKey ==
  /\ Keys /\ OverviewOnly
  /\ \/ KeyEscape \/ KeyBackSpace \/ KeyReturn
     \/ \E dir \in {-1, 1} : KeyArrow(dir)
     \/ \E i \in {1, Len(ov.thumbs)} : KeyHomeEnd(i)
     \/ \E c \in Letters : KeyType(c)
     \/ \E i \in 1 .. Len(ov.thumbs) : KeyDigit(i)

(* The pointer: the wheel and the third button, and the first one, which     *)
(* takes hold of a window or of nothing.                                     *)
Wheel(dir) == ov' = StepTo(ov, dir) /\ UNCHANGED tree
CancelButton == Animate(Leave(ov)) /\ UNCHANGED tree

Press(i, w) ==
  /\ IF w = NoWin THEN ov' = DragReset(ov)
     ELSE /\ ~ov.thumbs[i].slot /\ Alive(tree, ov.thumbs[i].desk)
          /\ w \in Whose(tree, ov.thumbs[i].desk)
          /\ ov' = [ov EXCEPT !.drag = "pending", !.dragged = w]
  /\ UNCHANGED tree

Motion ==
  /\ ov.drag = "pending"
  /\ ov' = IF ov.dragged \in Opened(tree) THEN [ov EXCEPT !.drag = "yes"] ELSE DragReset(ov)
  /\ UNCHANGED tree

ButtonRelease(i) ==
  CASE ov.drag = "yes" -> Drop(i)
    [] ov.drag = "pending" ->
         IF ov.dragged \in Opened(tree)
         THEN GoTo(DragReset(ov), tree, HomeOf(tree, ov.dragged), ov.dragged)
         ELSE ov' = DragReset(ov) /\ UNCHANGED tree
    [] OTHER -> IF i = 0 THEN Animate(Leave(ov)) /\ UNCHANGED tree
                ELSE OpenSelected([ov EXCEPT !.selected = i])

OverviewPointer ==
  /\ ov.active /\ ~ov.exiting /\ OverviewOnly
  /\ \/ CancelButton \/ \E dir \in {-1, 1} : Wheel(dir)
     \/ \E i \in 1 .. Len(ov.thumbs) : \E w \in Win \cup {NoWin} : Press(i, w)
     \/ Motion
     \/ \E i \in 0 .. Len(ov.thumbs) : ButtonRelease(i)

OverviewInit == ov = Closed /\ keyboard = "free" /\ input = "window"

OverviewCommand ==
  Toggle \/ OverviewSelect \/ \E dir \in {-1, 1} : Navigate(dir)

------------------------------------------------------------------------------

(* No thumbnail points to a workspace that has been freed, whoever closed it *)
(* and in the middle of whatever gesture (overview.c:475, con.c:81).         *)
ThumbnailsLive ==
  \A i \in 1 .. Len(ov.thumbs) : ov.thumbs[i].desk # 0 => Alive(tree, ov.thumbs[i].desk)

(* An overview that is leaving is gone some time, or has been called back:   *)
(* the timer that closes it runs until then (overview.c:1422).               *)
LeavingEnds == ov.exiting ~> ~ov.exiting

(* In the middle of whatever gesture a window opens, closes or moves, it     *)
(* stays in one place of the tree, and the overview points to nothing freed. *)
OverviewSound == WindowsHaveOnePlace /\ ThumbnailsLive
=============================================================================
