------------------------------ MODULE Desktops ------------------------------
(***************************************************************************)
(* The workspaces as EWMH desktops: the outputs with their workspaces, the    *)
(* focus among them, and what i3 writes about them on the root window and the   *)
(* windows (ewmh.c).  i3 writes a property only at the call sites of ewmh_update_ *)
(* functions, and compares with what it wrote before.                             *)
(***************************************************************************)
EXTENDS Integers, Sequences, SequencesExt, FiniteSets, FiniteSetsExt, Functions

CONSTANTS Monitors,     \* the RandR monitors that may be connected
          RootOutput,   \* root_output: the output that covers the root window
          DeskWindows,
          MaxNamed,     \* bound: users name the workspaces 1 .. MaxNamed
          MaxSpaces,    \* bound: commands do not add to so many workspaces
          Scratch,      \* __i3_scratch
          Off,          \* no workspace
          All           \* NET_WM_DESKTOP_ALL

Outputs == Monitors \cup {RootOutput}
Named == 1 .. MaxNamed
\* i3 adds at most one for each output, each with the first free number
Spaces == 1 .. MaxSpaces + Cardinality(Monitors) + 3

\* outs: the list of outputs; act, primary, disable: their flags; cons: the CT_OUTPUT
\* containers below croot; ws and foc: workspaces and focus order of each; ofoc: focus
\* order of the outputs; fs: workspaces with fullscreen_mode CF_OUTPUT; all: all_cons;
\* f: workspace of the focused container; win: the windows; pub: what was written.
Blank == [outs |-> <<RootOutput>>, act |-> {}, primary |-> {}, disable |-> {}, cons |-> <<>>,
          ws |-> [o \in Outputs |-> <<>>], foc |-> [o \in Outputs |-> <<>>], ofoc |-> <<>>,
          fs |-> {}, all |-> <<>>, f |-> Off,
          win |-> [w \in DeskWindows |-> [ws |-> Off, floating |-> FALSE, sticky |-> FALSE]],
          pub |-> [names |-> <<>>, current |-> Off, viewport |-> <<>>,
                   of |-> [w \in DeskWindows |-> Off]]]

Without(q, e) == SelectSeq(q, LAMBDA g : g # e)
Foremost(q, e) == <<e>> \o Without(q, e)

\* FOREACH_NONINTERNAL
Desks(d) == FoldLeft(LAMBDA q, o : q \o d.ws[o], <<>>, d.cons)
Exists(d, w) == \E i \in DOMAIN d.cons : Contains(d.ws[d.cons[i]], w)
OutOf(d, w) == CHOOSE o \in ToSet(d.cons) : Contains(d.ws[o], w)
Empty(d, w) == \A v \in DeskWindows : d.win[v].ws # w

\* ewmh_get_workspace_index; the indices count from 0
Index(d, w) == LET q == Desks(d) IN CHOOSE i \in 0 .. Len(q) - 1 : q[i + 1] = w
\* ewmh_get_workspace_by_index
ByIndex(d, i) == LET q == Desks(d) IN IF i < Len(q) THEN q[i + 1] ELSE Off

\* ewmh_update_current_desktop: an index that cannot be determined leaves the old one
UpdateCurrent(d) == [d EXCEPT !.pub.current = IF Exists(d, d.f) THEN Index(d, d.f) ELSE @]

\* ewmh_update_wm_desktop_recursively for one window
DesktopOf(d, v) ==
    IF d.win[v].ws = Scratch \/ (d.win[v].sticky /\ d.win[v].floating) THEN All ELSE Index(d, d.win[v].ws)
InTree(d, v) == d.win[v].ws = Scratch \/ Exists(d, d.win[v].ws)
\* ewmh_update_wm_desktop
UpdateWmDesktop(d) == [d EXCEPT !.pub.of = [v \in DeskWindows |-> IF InTree(d, v) THEN DesktopOf(d, v) ELSE @[v]]]

\* ewmh_update_number_of_desktops, ewmh_update_desktop_names
UpdateNames(d) == [d EXCEPT !.pub.names = Desks(d)]
\* ewmh_update_desktop_viewport
Viewport(d) == FoldLeft(LAMBDA q, o : q \o [i \in DOMAIN d.ws[o] |-> o], <<>>, d.cons)
UpdateViewport(d) == [d EXCEPT !.pub.viewport = Viewport(d)]
\* ewmh_update_desktop_properties
\* mutant: without the windows
UpdateDesktops_NotWindows(d) == UpdateNames(UpdateCurrent(UpdateViewport(d)))
UpdateDesktops(d) == UpdateWmDesktop(UpdateNames(UpdateCurrent(UpdateViewport(d))))

----------------------------------------------------------------------------
(* con.c, workspace.c *)

\* con_attach for a workspace: in the order of the numbers, at the end of the focus order
After(q, w) == SelectSeq(q, LAMBDA v : v <= w)
Attach(d, w, o) ==
    [d EXCEPT !.ws[o] = After(@, w) \o <<w>> \o SelectSeq(@, LAMBDA v : v > w), !.foc[o] = Append(@, w)]
\* con_detach
Detach(d, w) ==
    [d EXCEPT !.ws = [o \in Outputs |-> Without(@[o], w)], !.foc = [o \in Outputs |-> Without(@[o], w)]]
\* con_focus of a workspace or a container on it
Focus(d, w) ==
    LET o == OutOf(d, w) IN [d EXCEPT !.f = w, !.foc[o] = Foremost(@, w), !.ofoc = Foremost(@, o)]

\* con_get_fullscreen_con(output, CF_OUTPUT), workspace_is_visible
Shown(d, o) == LET s == SelectSeq(d.ws[o], LAMBDA w : w \in d.fs) IN IF s = <<>> THEN Off ELSE Head(s)
IsVisible(d, w) == Shown(d, OutOf(d, w)) = w

\* tree_close_internal of a workspace, which is neither focused nor holds windows
Close(d, w) ==
    UpdateDesktops([Detach(d, w) EXCEPT !.fs = @ \ {w}, !.all = Without(@, w)])
\* con_on_remove_child of a workspace
\* mutant: the visible workspace is closed, too
OnRemoveChild_Visible(d, w) == IF w \in Spaces /\ Exists(d, w) /\ Empty(d, w) THEN Close(d, w) ELSE d
OnRemoveChild(d, w) ==
    IF w \in Spaces /\ Empty(d, w) /\ Exists(d, w) /\ ~IsVisible(d, w) THEN Close(d, w) ELSE d

\* con_move_to_workspace as far as the workspaces are concerned: without ignore_focus
\* the workspace comes second in the focus order of its output, the output second after
\* that of the focused workspace
Behind(q, e) == IF Head(q) = e THEN q ELSE <<Head(q), e>> \o Without(Tail(q), e)
Touch(d, w) == LET o == OutOf(d, w) IN [d EXCEPT !.foc[o] = Behind(@, w), !.ofoc = Behind(@, o)]
MoveToWorkspace(d, v, w, ignoreFocus) ==
    IF d.win[v].ws = w THEN d
    ELSE LET moved == [d EXCEPT !.win[v].ws = w]
             focused == IF ignoreFocus \/ w = Scratch THEN moved ELSE Touch(moved, w)
         IN UpdateWmDesktop(OnRemoveChild(focused, d.win[v].ws))

\* output_push_sticky_windows
PushSticky(d) ==
    FoldLeft(LAMBDA e, o :
                 FoldSet(LAMBDA v, g : MoveToWorkspace(g, v, Shown(g, o), TRUE), e,
                         {v \in DeskWindows : /\ d.win[v].floating /\ d.win[v].sticky
                                          /\ Contains(d.ws[o], d.win[v].ws) /\ Shown(d, o) # Off}),
             d, d.ofoc)

\* workspace_show; "old" is the workspace of the same output that had CF_OUTPUT last
Old(d, o) == LET s == SelectSeq(d.ws[o], LAMBDA v : v \in d.fs) IN IF s = <<>> THEN Off ELSE Last(s)
CloseOld(d, w) ==
    IF w # Off /\ Empty(d, w) /\ ~IsVisible(d, w) THEN Close(d, w) ELSE d
WorkspaceShow(d, w) ==
    LET o == OutOf(d, w)
        only == [d EXCEPT !.fs = (@ \ ToSet(d.ws[o])) \cup {w}]
    IN IF w = d.f THEN only
       ELSE PushSticky(UpdateCurrent(CloseOld(Focus(only, w), Old(d, o))))
=============================================================================
