------------------------------ MODULE ConTree ------------------------------
(***************************************************************************)
(* The container tree of i3-aiwr as a value, and the queries and elementary *)
(* updates of con.c on it.  Every operator takes a tree and returns a tree, *)
(* a container or a truth value, so that an operation of the source that    *)
(* calls others is the composition of their operators.                      *)
(*                                                                         *)
(* A tree is a record                                                      *)
(*   con      what each container holds: its type, its parent, the three    *)
(*            lists nodes_head, floating_head and focus_head, its layouts,   *)
(*            and whether it has a window, is fullscreen, urgent, floating  *)
(*   focused  the global pointer focused                                    *)
(*   previous the workspace named by previous_workspace_name                *)
(*   fault    what went wrong in the operation, if anything: "freed" once   *)
(*            it has used a container after con_free, "corrupt" once it has *)
(*            inserted next to a container of another list, "assert" once   *)
(*            an assertion has failed or a loop does not end, "dragged" once *)
(*            a drop has used the container it drags after con_free,        *)
(*            "unlinked" once it has read the links among tiling siblings   *)
(*            of a container that is not linked there                       *)
(* An output and its content container are one container here, and dock     *)
(* areas, sticky groups, rectangles and percentages are left out.           *)
(***************************************************************************)
EXTENDS Integers, Sequences, FiniteSets, SequencesExt

CONSTANTS Root,          \* croot
          Outputs,       \* the sequence of real outputs, from left to right
          I3Output,      \* the pseudo-output __i3
          Scratch,       \* the workspace __i3_scratch
          Workspaces,    \* the names a workspace can have
          WsNum,         \* the number each name starts with, -1 without one
          Pool,          \* the containers malloc can return
          None           \* the null pointer

Id == {Root, I3Output, Scratch} \cup ToSet(Outputs) \cup Workspaces \cup Pool

Layouts == {"default", "splith", "splitv", "stacked", "tabbed", "scrolling"}
Types == {"free", "root", "output", "workspace", "con", "floating_con"}

FreeCon == [type |-> "free", parent |-> None, nodes |-> <<>>, floats |-> <<>>,
            focus |-> <<>>, layout |-> "default", lastSplit |-> "default",
            wsLayout |-> "default", window |-> FALSE, fullscreen |-> "none",
            urgent |-> FALSE, timer |-> FALSE, floating |-> FALSE,
            scratchpad |-> FALSE]

(***************************************************************************)
(* Reading the tree.                                                       *)
(***************************************************************************)
Parent(t, c) == t.con[c].parent
TypeOf(t, c) == t.con[c].type
Alive(t, c) == c # None /\ TypeOf(t, c) # "free"
IsLeaf(t, c) == t.con[c].nodes = <<>>
NumChildren(t, c) == Len(t.con[c].nodes)
HasParent(t, c) == Parent(t, c) # None

RECURSIVE Ancestors(_, _)
\* the chain of parents of c, the nearest first
Ancestors(t, c) ==
  LET p == IF c = None THEN None ELSE Parent(t, c)
  IN IF p = None THEN <<>> ELSE <<p>> \o Ancestors(t, p)

FirstOf(s) == IF s = <<>> THEN None ELSE Head(s)
FirstThat(s, P(_)) == FirstOf(SelectSeq(s, P))
IndexOf(s, e) == IF Contains(s, e) THEN CHOOSE i \in DOMAIN s : s[i] = e ELSE 0

\* TAILQ_NEXT and TAILQ_PREV
NextIn(s, e) == LET i == IndexOf(s, e) IN IF i = 0 \/ i = Len(s) THEN None ELSE s[i + 1]
PrevIn(s, e) == LET i == IndexOf(s, e) IN IF i <= 1 THEN None ELSE s[i - 1]

\* TAILQ_INSERT_AFTER, TAILQ_INSERT_BEFORE, TAILQ_REPLACE
InsertAfter(s, at, e) == InsertAt(s, IndexOf(s, at) + 1, e)
InsertBefore(s, at, e) == InsertAt(s, IndexOf(s, at), e)
Replace(s, old, new) == [s EXCEPT ![IndexOf(s, old)] = new]

RECURSIVE NearestOfType(_, _, _)
\* c or the nearest of its ancestors that is of the type
NearestOfType(t, c, type) ==
  IF c = None \/ TypeOf(t, c) = type THEN c ELSE NearestOfType(t, Parent(t, c), type)
GetWorkspace(t, c) == NearestOfType(t, c, "workspace")
GetOutput(t, c) == NearestOfType(t, c, "output")
RECURSIVE HasAncestor(_, _, _)
HasAncestor(t, c, a) ==
  LET p == IF c = None THEN None ELSE Parent(t, c)
  IN p # None /\ (p = a \/ HasAncestor(t, p, a))
IsInternal(w) == w = Scratch
IsFloating(t, c) == t.con[c].floating

RECURSIVE InsideFloating(_, _)
InsideFloating(t, c) ==
  IF c = None THEN None
  ELSE IF TypeOf(t, c) = "floating_con" THEN c
  ELSE IF IsFloating(t, c) THEN Parent(t, c)
  ELSE IF TypeOf(t, c) \in {"workspace", "output"} THEN None
  ELSE InsideFloating(t, Parent(t, c))

IsSplit(t, c) == ~IsLeaf(t, c) /\ t.con[c].layout # "scrolling" /\ TypeOf(t, c) # "output"

AcceptsWindow(t, c) ==
  TypeOf(t, c) # "workspace" /\ ~IsSplit(t, c) /\ ~t.con[c].window

Orientation(t, c) == IF t.con[c].layout \in {"splitv", "stacked"} THEN "vert" ELSE "horiz"

\* The nearest ancestor of the wanted orientation below the output; the search
\* stops at a floating container, which is not a candidate.
ParentWithOrientation(t, c, o) ==
  LET up == Ancestors(t, c)
      stop == SelectInSeq(up, LAMBDA x : TypeOf(t, x) \in {"floating_con", "output"})
      below == SubSeq(up, 1, stop - 1)
  IN FirstThat(below, LAMBDA x : Orientation(t, x) = o)

RECURSIVE DescendFocused(_, _)
DescendFocused(t, c) ==
  IF c = t.focused \/ t.con[c].focus = <<>> THEN c
  ELSE DescendFocused(t, Head(t.con[c].focus))

FirstTiling(t, c) ==
  FirstThat(t.con[c].focus, LAMBDA x : TypeOf(t, x) # "floating_con")

RECURSIVE DescendTilingFocused(_, _)
DescendTilingFocused(t, c) ==
  IF c = t.focused \/ FirstTiling(t, c) = None THEN c
  ELSE DescendTilingFocused(t, FirstTiling(t, c))

RECURSIVE DescendDirection(_, _, _)
DescendDirection(t, c, dir) ==
  LET ns == t.con[c].nodes
      along == IF dir \in {"left", "right"} THEN "horiz" ELSE "vert"
      most == IF Orientation(t, c) # along THEN FirstTiling(t, c)
              ELSE IF dir \in {"right", "down"} THEN FirstOf(ns)
              ELSE IF ns = <<>> THEN None ELSE Last(ns)
  IN IF most = None THEN c ELSE DescendDirection(t, most, dir)

RECURSIVE DescendExcluding(_, _, _)
\* down the focus stack from n, stopping above the container c
DescendExcluding(t, n, c) ==
  IF t.con[n].focus = <<>> \/ Head(t.con[n].focus) = c THEN n
  ELSE DescendExcluding(t, Head(t.con[n].focus), c)

NextFocused(t, con) ==
  LET c == IF IsFloating(t, con) THEN Parent(t, con) ELSE con
      stack == t.con[Parent(t, c)].focus
      start == IF Head(stack) # c THEN Head(stack)
               ELSE IF NextIn(stack, c) # None THEN NextIn(stack, c) ELSE Parent(t, c)
      next == DescendExcluding(t, start, c)
  IN IF TypeOf(t, c) = "floating_con" /\ next # Parent(t, c)
     THEN DescendFocused(t, next) ELSE next

(***************************************************************************)
(* Fullscreen.                                                             *)
(***************************************************************************)
Below(t, c) == t.con[c].nodes \o t.con[c].floats

RECURSIVE FullscreenIn(_, _, _)
\* breadth first: the queue of the containers that are still to be looked at
FullscreenIn(t, queue, mode) ==
  IF queue = <<>> THEN None
  ELSE IF t.con[Head(queue)].fullscreen = mode THEN Head(queue)
  ELSE FullscreenIn(t, Tail(queue) \o Below(t, Head(queue)), mode)

\* con_get_fullscreen_con, which needs no search where nothing has the mode
GetFullscreen(t, c, mode) ==
  IF \A x \in Id : t.con[x].fullscreen # mode THEN None ELSE FullscreenIn(t, Below(t, c), mode)

CoveringWs(t, w) ==
  LET global == GetFullscreen(t, Root, "global")
  IN IF w = None THEN None
     ELSE IF global # None THEN global ELSE GetFullscreen(t, w, "output")

IsVisible(t, w) == GetFullscreen(t, GetOutput(t, w), "output") = w

\* the nearest of focused and its ancestors that is fullscreen
FocusedFullscreen(t) ==
  FirstThat(<<t.focused>> \o Ancestors(t, t.focused), LAMBDA x : t.con[x].fullscreen # "none")

\* con_fullscreen_permits_focusing asserts that there is one: there is none while
\* focused is on a hidden workspace
Unanswered(t) == FocusedFullscreen(t) = None
PermitsFocusing(t, c) ==
  LET fs == FocusedFullscreen(t)
  IN /\ fs # None
     /\ \/ TypeOf(t, fs) = "workspace"
        \/ c = fs
        \/ t.con[fs].fullscreen = "output" /\ GetWorkspace(t, c) # GetWorkspace(t, fs)
        \/ HasAncestor(t, c, fs)

Failed(t) == [t EXCEPT !.fault = "assert"]
\* done, unless focusing c is asked for and not permitted
IfPermitted(t, c, asked, done) ==
  IF asked /\ Unanswered(t) THEN Failed(t) ELSE IF asked /\ ~PermitsFocusing(t, c) THEN t ELSE done

DisableFullscreen(t, c) ==
  IF TypeOf(t, c) = "workspace" THEN t ELSE [t EXCEPT !.con[c].fullscreen = "none"]

(***************************************************************************)
(* Urgency.                                                                *)
(***************************************************************************)
RECURSIVE HasUrgentChild(_, _)
HasUrgentChild(t, c) ==
  IF IsLeaf(t, c) THEN t.con[c].urgent
  ELSE \E i \in DOMAIN t.con[c].nodes : HasUrgentChild(t, t.con[c].nodes[i])

RECURSIVE UrgencyBelow(_, _)
\* get_urgency_flag: some container below c is flagged urgent
UrgencyBelow(t, c) ==
  \E x \in ToSet(Below(t, c)) : t.con[x].urgent \/ UrgencyBelow(t, x)

RECURSIVE InnerAncestors(_, _)
\* the ancestors of c below its workspace
InnerAncestors(t, c) ==
  LET p == Parent(t, c)
  IN IF p = None \/ TypeOf(t, p) = "workspace" THEN <<>> ELSE <<p>> \o InnerAncestors(t, p)

UpdateParentsUrgency(t, c) ==
  FoldLeft(LAMBDA u, x : [u EXCEPT !.con[x].urgent = t.con[c].urgent \/ (@ /\ HasUrgentChild(t, x))],
           t, IF TypeOf(t, c) = "workspace" THEN <<>> ELSE InnerAncestors(t, c))

UpdateUrgentFlag(t, w) ==
  IF ~Alive(t, w) THEN [t EXCEPT !.fault = "freed"]
  ELSE [t EXCEPT !.con[w].urgent = UrgencyBelow(t, w)]

UpdateWsUrgency(t, w) == IF w = None THEN t ELSE UpdateUrgentFlag(t, w)

\* while the timer of workspace_show runs the hint stays as it is
SetHint(t, c, urgent) ==
  IF t.con[c].timer THEN t ELSE [t EXCEPT !.con[c].urgent = urgent]

\* Mistake: the hint changes although the timer of workspace_show is running.
SetUrgencyAtOnce(t, c, urgent) ==
  IF urgent /\ t.focused = c THEN t
  ELSE UpdateWsUrgency(UpdateParentsUrgency([t EXCEPT !.con[c].urgent = urgent], c), GetWorkspace(t, c))

\* Mistake: the workspace does not learn of the change.
SetUrgencyInside(t, c, urgent) ==
  IF urgent /\ t.focused = c THEN t ELSE UpdateParentsUrgency(SetHint(t, c, urgent), c)

\* con_set_urgency
SetUrgency(t, c, urgent) ==
  IF urgent /\ t.focused = c THEN t
  ELSE UpdateWsUrgency(UpdateParentsUrgency(SetHint(t, c, urgent), c), GetWorkspace(t, c))

\* con_set_urgency(con, false) wherever focusing, closing or the timer resets a
\* hint; the two updates that follow it there repeat its own
ResetUrgency(t, c) ==
  UpdateUrgentFlag(UpdateParentsUrgency(SetHint(t, c, FALSE), c), GetWorkspace(t, c))

(***************************************************************************)
(* Attaching, detaching, focusing.                                         *)
(***************************************************************************)
Fresh(t) == CHOOSE c \in Pool : TypeOf(t, c) = "free"
FreeCons(t) == {c \in Pool : TypeOf(t, c) = "free"}

\* con_new_skeleton, for a container that is not attached yet
NewCon(t, c, type, parent, layout) ==
  [t EXCEPT !.con[c] = [FreeCon EXCEPT !.type = type, !.parent = parent, !.layout = layout]]

ConFree(t, c) == [t EXCEPT !.con[c] = FreeCon]

\* A workspace goes before the first one with no number or a greater one.
InsertByNumber(s, w) ==
  LET after == SelectInSeq(s, LAMBDA x : WsNum[x] = -1 \/ WsNum[w] < WsNum[x])
  IN IF WsNum[w] = -1 \/ after = 0 THEN Append(s, w) ELSE InsertAt(s, after, w)

RECURSIVE Attach(_, _, _, _, _)
\* workspace_attach_to: the container that a window attached to w goes to
AttachTo(t, w, new) ==
  Attach(NewCon(t, new, "con", w, t.con[w].wsLayout), new, w, None, FALSE)

\* _con_attach
Attach(t, c, parent, previous, ignoreFocus) ==
  LET t1 == [t EXCEPT !.con[c].parent = parent]
      current == IF ignoreFocus THEN previous ELSE FirstTiling(t, parent)
      Focusable(u, p) == [u EXCEPT !.con[p].focus = Append(@, c)]
  IN CASE TypeOf(t, c) = "workspace" ->
            Focusable([t1 EXCEPT !.con[parent].nodes = InsertByNumber(@, c)], parent)
       [] TypeOf(t, c) = "floating_con" ->
            Focusable([t1 EXCEPT !.con[parent].floats = Append(@, c)], parent)
       [] OTHER ->
            IF /\ t.con[c].window
               /\ TypeOf(t, parent) = "workspace"
               /\ t.con[parent].wsLayout # "default"
            THEN LET new == Fresh(t1)
                     t2 == AttachTo(t1, parent, new)
                 IN Focusable([t2 EXCEPT !.con[new].nodes = Append(@, c),
                                         !.con[c].parent = new], new)
            ELSE IF current # None /\ ~Contains(t.con[parent].nodes, current)
            THEN [t1 EXCEPT !.fault = "corrupt"]
            ELSE Focusable([t1 EXCEPT !.con[parent].nodes =
                              IF current = None THEN Append(@, c)
                              ELSE InsertAfter(@, current, c)], parent)

\* con_detach; the parent pointer is left as it is
Detach(t, c) ==
  LET p == Parent(t, c)
  IN [t EXCEPT !.con[p].focus = Remove(@, c),
               !.con[p].nodes = Remove(@, c),
               !.con[p].floats = Remove(@, c)]

ToHead(t, c) == [t EXCEPT !.con[Parent(t, c)].focus = <<c>> \o Remove(@, c)]

ResetIfUrgent(t, c) == IF t.con[c].urgent /\ IsLeaf(t, c) THEN ResetUrgency(t, c) ELSE t

\* Mistake: only the focus stack of the parent is updated.
FocusInParent(t, c) == [ToHead(t, c) EXCEPT !.focused = c]

RECURSIVE Focus(_, _)
FocusAbove(t, p) == IF HasParent(t, p) THEN Focus(t, p) ELSE t

\* con_focus: to the head of every focus stack up to the output's, then the
\* urgency hint of a leaf is reset
Focus(t, c) ==
  IF ~Alive(t, c) THEN [t EXCEPT !.fault = "freed"]
  ELSE ResetIfUrgent([FocusAbove(ToHead(t, c), Parent(t, c)) EXCEPT !.focused = c], c)

FloatingRaise(t, f) ==
  [t EXCEPT !.con[Parent(t, f)].floats = Append(Remove(@, f), f)]

\* the end of con_activate; after a fault nothing is meant any more
Raise(t, c) ==
  LET f == InsideFloating(t, c)
  IN IF t.fault = "freed" \/ f = None THEN t ELSE FloatingRaise(t, f)

\* con_activate
Activate(t, c) == Raise(Focus(t, c), c)
ActivateIf(t, c, wanted) == IF wanted THEN Activate(t, c) ELSE t
=============================================================================
