------------------------------ MODULE Scrolling ------------------------------
(***************************************************************************)
(* The scrolling layout (src/src/scrolling.c): strips of columns, each with *)
(* a width of its own, seen through a view that an animation of Animations  *)
(* moves over the strip.                                                    *)
(*                                                                          *)
(* An action is a whole command or callback, the tree_render() in it        *)
(* included.  Lengths are integers; columns have even widths, so that the   *)
(* halves the code computes are integers too.  All strips are on visible    *)
(* workspaces: a render reaches each of them.                               *)
(***************************************************************************)
EXTENDS Animations, Integers, SequencesExt

CONSTANTS
    Strips,             \* containers that may have the scrolling layout
    WorkspaceStrips,    \* those of them that are workspaces
    NoStrip,            \* scroll_anim.con == NULL
    View,               \* the width of every strip's rect
    DefaultWidth,       \* scrolling_config.default_width
    Presets,            \* width_presets
    MaxColumns,         \* bound on the columns of each strip
    MaxWidth            \* the widest column: 400 % of the view, or a bound below

ASSUME ScrollingAssumption ==
    /\ MaxAnims \in Nat
    /\ WorkspaceStrips \subseteq Strips /\ NoStrip \notin Strips
    /\ MaxColumns \in [Strips -> Nat \ {0}]
    /\ MaxWidth \in Nat \ {0, 1} /\ {View, DefaultWidth} \subseteq 1..MaxWidth
    /\ Presets \in Seq(1..MaxWidth) \ {<<>>}

VARIABLES
    strip,              \* of each strip: its columns, view offset and focus
    scroll,             \* scroll_anim
    config,             \* scrolling_config: duration_ms = 0, center_focus
    fault               \* scroll_step wrote to a container that was freed

scrollVars == <<strip, scroll, config, fault>>

NoScroll == [con |-> NoStrip, from |-> 0, to |-> 0, anim |-> 0]
NewColumn == [width |-> DefaultWidth, prev |-> 0]
\* cut: another strip's scroll replaced this one's, and nothing was rendered since
NoColumns == [exists |-> FALSE, scrolls |-> FALSE, columns |-> <<>>, focus |-> 0,
              offset |-> 0, cut |-> FALSE]

Configs == [instant : BOOLEAN, center : BOOLEAN]

ScrollTypeOK ==
    /\ strip \in [Strips -> [exists : BOOLEAN, scrolls : BOOLEAN,
                             columns : Seq([width : 1..MaxWidth, prev : 0..MaxWidth]),
                             focus : Nat, offset : Int, cut : BOOLEAN]]
    /\ scroll \in [con : Strips \cup {NoStrip}, from : Int, to : Int, anim : 0..MaxAnims]
    /\ config \in Configs
    /\ fault \in BOOLEAN

ScrollInit ==
    /\ Init
    /\ strip = [s \in Strips |-> NoColumns]
    /\ scroll = NoScroll
    /\ config \in Configs
    /\ fault = FALSE

\* after a fault the program is not followed any further
Exists(s) == ~fault /\ strip[s].exists
Scrolls(s) == Exists(s) /\ strip[s].scrolls
NumColumns(s) == Len(strip[s].columns)

(***************************************************************************)
(* Extents and offsets.                                                    *)
(***************************************************************************)
\* column_extent: where a column starts; the total is where one more would.
Start(columns, i) ==
    LET upto[n \in 0..Len(columns)] == IF n = 0 THEN 0 ELSE upto[n - 1] + columns[n].width
    IN  upto[i - 1]
Total(columns) == Start(columns, Len(columns) + 1)

\* clamp_offset: a strip narrower than the view is centred.
Clamp(columns, offset) ==
    LET last == Total(columns) - View
    IN  IF last < 0 THEN -((-last) \div 2)
        ELSE IF offset < 0 THEN 0 ELSE IF offset > last THEN last ELSE offset

\* scrolling_reveal: the least change that brings the column into view.
RevealOffset(u, i) ==
    LET x == Start(u.columns, i)
        w == u.columns[i].width
    IN  IF config.center THEN x + w \div 2 - View \div 2
        ELSE IF x < u.offset THEN x
        ELSE IF x + w > u.offset + View THEN x + w - View
        ELSE u.offset

\* scrolling_prepare for every strip, within tree_render.
Render(u, moving) ==
    [s \in Strips |->
        [u[s] EXCEPT !.offset = IF u[s].scrolls /\ moving # s THEN Clamp(u[s].columns, @) ELSE @,
                     !.cut = @ /\ moving = s]]

(***************************************************************************)
(* The one scroll animation.                                               *)
(***************************************************************************)
\* What is left of a handler after the strips are u: sc is the scroll, and the
\* handler may end with a render.
Leave(u, sc, render) ==
    /\ scroll' = sc
    /\ strip' = IF render THEN Render(u, sc.con) ELSE u
    /\ UNCHANGED <<config, fault>>

\* Mutation of ScrollTo: the scroll that is replaced is not cancelled.
ScrollTo_KeepsOld(u, s, target, render) ==
    IF target = u[s].offset
    THEN Leave(u, scroll, render) /\ UNCHANGED <<state, doneCalls>>
    ELSE \E id \in NextIds :
           /\ Calls({id}, {})
           /\ Leave(u, [con |-> s, from |-> u[s].offset, to |-> target, anim |-> id], render)

\* The strip whose scroll a scroll of s replaces stays where it is, until a render.
CutShort(u, s) == IF scroll.con \in {s, NoStrip} THEN u ELSE [u EXCEPT ![scroll.con].cut = TRUE]

\* scroll_to_offset: a new scroll replaces the one that is running, unless the
\* view is where it should go already.
ScrollTo(u, s, target, render) ==
    \/ /\ target = u[s].offset
       /\ Leave(u, scroll, render)
       /\ UNCHANGED <<state, doneCalls>>
    \/ /\ target # u[s].offset /\ config.instant
       /\ Calls({}, {scroll.anim})
       /\ Leave([CutShort(u, s) EXCEPT ![s].offset = target], NoScroll, render)
    \/ /\ target # u[s].offset /\ ~config.instant
       /\ \E id \in NextIds :
            /\ Calls({id}, {scroll.anim})
            /\ Leave(CutShort(u, s), [con |-> s, from |-> u[s].offset, to |-> target, anim |-> id], render)

Reveal(u, s, i, render) == ScrollTo(u, s, Clamp(u[s].columns, RevealOffset(u[s], i)), render)

\* scroll_step, called by the clock at some point between the two offsets.
ScrollStep ==
    /\ scroll.anim # 0 /\ state[scroll.anim] = "running" /\ ~fault
    /\ \E offset \in (scroll.from..scroll.to) \cup (scroll.to..scroll.from) :
         strip' = Render([strip EXCEPT ![scroll.con].offset = offset], scroll.con)
    /\ fault' = ~strip[scroll.con].exists
    /\ UNCHANGED <<scroll, config, state, doneCalls>>

\* Mutation of ScrollDone: it renders before it clears scroll_anim.
ScrollDone_RendersFirst ==
    /\ scroll.anim # 0 /\ End(scroll.anim) /\ ~fault
    /\ strip' = Render([strip EXCEPT ![scroll.con].offset = scroll.to], scroll.con)
    /\ scroll' = NoScroll
    /\ fault' = ~strip[scroll.con].exists
    /\ UNCHANGED config

\* scroll_done, after the last step.
ScrollDone ==
    /\ scroll.anim # 0 /\ End(scroll.anim) /\ ~fault
    /\ strip' = Render([strip EXCEPT ![scroll.con].offset = scroll.to], NoStrip)
    /\ scroll' = NoScroll
    /\ fault' = ~strip[scroll.con].exists
    /\ UNCHANGED config

(***************************************************************************)
(* Strips come and go.                                                     *)
(***************************************************************************)
\* In a split the widths of the columns make up the view.
Shares(n) == {c \in [1..n -> [width : {w \in 1..View : w % 2 = 0}, prev : {0}]] : Total(c) = View}

\* workspace_layout scrolling gives the first window a strip of its own;
\* con_set_layout makes one of the children of a workspace, or of none.
NewStrip(s) ==
    /\ ~fault /\ ~strip[s].exists
    /\ \E c \in {<<>>, <<NewColumn>>} \cup UNION {Shares(n) : n \in 1..MaxColumns[s]} :
         /\ c = <<>> => s \in WorkspaceStrips
         /\ \E i \in IF c = <<>> THEN {0} ELSE DOMAIN c :
              LET new == [NoColumns EXCEPT !.exists = TRUE, !.scrolls = TRUE, !.columns = c, !.focus = i]
              IN  Leave([strip EXCEPT ![s] = new], scroll, TRUE)
    /\ UNCHANGED <<state, doneCalls>>

\* scrolling_toggle_layout: the strip becomes a split.  A running scroll is not
\* stopped.
ToggleLayout(s) ==
    /\ Scrolls(s)
    /\ \E c \in IF NumColumns(s) = 0 THEN {<<>>} ELSE Shares(NumColumns(s)) :
         Leave([strip EXCEPT ![s].scrolls = FALSE, ![s].offset = 0, ![s].columns = c], scroll, TRUE)
    /\ UNCHANGED <<state, doneCalls>>

\* con_set_layout gives the split its scrolling layout back.
SetLayoutScrolling(s) ==
    /\ Exists(s) /\ ~strip[s].scrolls
    /\ Leave([strip EXCEPT ![s].scrolls = TRUE], scroll, TRUE)
    /\ UNCHANGED <<state, doneCalls>>

\* con_free of a hidden, empty workspace
FreeWorkspace(s) ==
    /\ s \in WorkspaceStrips /\ Exists(s) /\ NumColumns(s) = 0
    /\ LET mine == scroll.con = s
       IN  /\ Calls({}, IF mine THEN {scroll.anim} ELSE {})
           /\ Leave([strip EXCEPT ![s] = NoColumns], IF mine THEN NoScroll ELSE scroll, TRUE)

\* The configuration is reloaded; nothing is rendered.
Reload ==
    /\ ~fault
    /\ config' \in Configs
    /\ UNCHANGED <<strip, scroll, fault, state, doneCalls>>

(***************************************************************************)
(* Columns.                                                                *)
(***************************************************************************)
\* manage_window attaches, renders and focuses the new column.
OpenColumn(s) ==
    /\ Scrolls(s) /\ NumColumns(s) < MaxColumns[s]
    /\ LET i == strip[s].focus + 1
           u == [strip EXCEPT ![s].columns = InsertAt(@, i, NewColumn), ![s].focus = i]
       IN  Reveal(Render(u, scroll.con), s, i, TRUE)

\* tree_close_internal renders without the column, frees it, focuses another
\* one if the column had the focus, and closes a split that is empty now.
CloseColumn(s, i) ==
    /\ Scrolls(s) /\ i \in 1..NumColumns(s)
    /\ LET left == RemoveAt(strip[s].columns, i)
           Without(j) == Render([strip EXCEPT ![s].columns = left, ![s].focus = j], scroll.con)
           kept == IF strip[s].focus > i THEN strip[s].focus - 1 ELSE strip[s].focus
       IN  \/ /\ left = <<>>
              /\ Leave(IF s \in WorkspaceStrips THEN Without(0)
                       ELSE [Without(0) EXCEPT ![s] = NoColumns], scroll, TRUE)
              /\ UNCHANGED <<state, doneCalls>>
           \/ /\ strip[s].focus = i
              /\ \E j \in DOMAIN left : Reveal(Without(j), s, j, TRUE)
           \/ /\ strip[s].focus # i
              /\ Leave(Without(kept), scroll, TRUE)
              /\ UNCHANGED <<state, doneCalls>>

\* con_focus of a column, or of something in it
FocusColumn(s, i) ==
    /\ Scrolls(s) /\ i \in 1..NumColumns(s)
    /\ Reveal([strip EXCEPT ![s].focus = i], s, i, TRUE)

\* scrolling_scroll_by: cmd_scrolling leaves the rendering to it.
ScrollBy(s, dir) ==
    /\ Scrolls(s)
    /\ ScrollTo(strip, s, Clamp(strip[s].columns, strip[s].offset + dir * DefaultWidth), FALSE)

(***************************************************************************)
(* Widths: set, rendered and the column brought into view again.           *)
(***************************************************************************)
Widen(s, i, column, render) ==
    Reveal(Render([strip EXCEPT ![s].columns[i] = column], scroll.con), s, i, render)

ToggleMaximize(s) ==
    /\ Scrolls(s) /\ NumColumns(s) > 0
    /\ LET i == strip[s].focus
           column == strip[s].columns[i]
           back == IF column.prev \in 1..(View - 1) THEN column.prev ELSE DefaultWidth
       IN  Widen(s, i, IF column.width >= View THEN [width |-> back, prev |-> 0]
                       ELSE [width |-> View, prev |-> column.width], FALSE)

\* The preset after a width; a width between two presets counts as the one
\* that the step starts from.
NextPreset(width, backwards) ==
    LET n == Len(Presets)
        at == {i \in 1..n : Presets[i] >= width}
        first == CHOOSE i \in at : \A k \in at : i <= k
        from == IF at = {} THEN n
                ELSE IF Presets[first] = width \/ backwards THEN first ELSE first - 1
        to == from + (IF backwards THEN -1 ELSE 1)
    IN  Presets[IF to < 1 THEN n ELSE IF to > n THEN 1 ELSE to]

CycleWidth(s, backwards) ==
    /\ Scrolls(s) /\ NumColumns(s) > 0
    /\ LET i == strip[s].focus
           width == NextPreset(strip[s].columns[i].width, backwards)
       IN  Widen(s, i, [width |-> width, prev |-> 0], FALSE)

\* Widths stay between 5 % (here 2) and 400 % of the view.
Within(width) == IF width < 2 THEN 2 ELSE IF width > MaxWidth THEN MaxWidth ELSE width

\* scrolling_resize_column
ResizeColumn(s, i, delta) ==
    /\ Scrolls(s) /\ i \in 1..NumColumns(s)
    /\ LET column == strip[s].columns[i]
       IN  Widen(s, i, [column EXCEPT !.width = Within(@ + delta)], TRUE)

\* scrolling_resize_column_px: the view stays while the pointer drags.
ResizeColumnPx(s, i, delta) ==
    /\ Scrolls(s) /\ i \in 1..NumColumns(s)
    /\ Leave([strip EXCEPT ![s].columns[i].width = Within(@ + delta)], scroll, TRUE)
    /\ UNCHANGED <<state, doneCalls>>

StripSteps(s) ==
    \/ NewStrip(s) \/ FreeWorkspace(s)
    \/ ToggleLayout(s) \/ SetLayoutScrolling(s)
    \/ OpenColumn(s) \/ ToggleMaximize(s)
    \/ \E dir \in {-1, 1} : ScrollBy(s, dir)
    \/ \E backwards \in BOOLEAN : CycleWidth(s, backwards)

ColumnSteps(s, i) ==
    \/ CloseColumn(s, i) \/ FocusColumn(s, i)
    \/ \E delta \in {-2, 2} : ResizeColumn(s, i, delta) \/ ResizeColumnPx(s, i, delta)

ScrollNext ==
    \/ ScrollStep \/ ScrollDone \/ Reload
    \/ \E s \in Strips : StripSteps(s)
    \/ \E s \in Strips : \E i \in 1..NumColumns(s) : ColumnSteps(s, i)

ScrollSpec == ScrollInit /\ [][ScrollNext]_<<state, doneCalls, scrollVars>>

(***************************************************************************)
(* Properties.                                                             *)
(***************************************************************************)
\* "One scroll at a time": the running animation is the one of scroll_anim, and
\* a new scroll or the end of the strip leaves no other behind.
OneScroll ==
    /\ \A id \in Ids : state[id] = "running" <=> id = scroll.anim
    /\ scroll.anim = 0 <=> scroll.con = NoStrip

\* With no scroll running, the view shows no empty space at the end of a strip that
\* is wider than it ("with no way to scroll back", scrolling.c:225): whoever changed
\* the strip has rendered and clamped it.  A strip whose scroll was cut short by one
\* without duration of another strip waits for the next render.
RestInRange ==
    scroll.con = NoStrip =>
        \A s \in Strips : Scrolls(s) /\ ~strip[s].cut =>
            strip[s].offset = Clamp(strip[s].columns, strip[s].offset)

\* scroll_anim.con is a container as long as a scroll runs.
ScrollsLiveStrip == scroll.con # NoStrip => strip[scroll.con].exists

\* Strips keep their shape and, at rest, show a view within their columns
\* (scrolling_reveal, scrolling_scroll_by, scrolling_forget).
StripsInRange == ScrollTypeOK /\ RestInRange
=============================================================================
