------------------------------ MODULE Outputs ------------------------------
(***************************************************************************)
(* The outputs (randr.c): every active output has a container with at least   *)
(* one workspace; an output that disappears hands its workspaces to the first   *)
(* output; workspaces are assigned to outputs (workspace.c), and clients and      *)
(* commands move among them (handlers.c, commands.c).                             *)
(***************************************************************************)
EXTENDS Desktops

CONSTANTS Assignments,  \* ws_assignments: a sequence of <<workspace, output>>
          BindingNames, \* binding_workspace_names: a sequence of workspaces
          MaxQueries    \* bounds the changes of the monitors

VARIABLES d,            \* the record Blank of Desktops, as it has become
          randr,        \* how the outputs are known, and the queries so far
          lagging       \* windows whose floating mode changed since their property was written

outputsVars == <<d, randr, lagging>>

----------------------------------------------------------------------------
(* workspace.c *)

\* get_assigned_output: the first assignment to an active output
AssignedOutput(e, w) ==
    LET s == SelectSeq(Assignments, LAMBDA a : a[1] = w /\ a[2] \in e.act)
    IN IF s = <<>> THEN Off ELSE s[1][2]
\* output_triggers_assignment
Triggered(e, o) == SelectSeq(Assignments, LAMBDA a : AssignedOutput(e, a[1]) = o)

\* workspace_get
New(e, w, o) == [Attach(e, w, o) EXCEPT !.all = Append(@, w)]
WorkspaceGet(e, w) ==
    IF Exists(e, w) THEN e
    ELSE LET a == AssignedOutput(e, w)
         IN UpdateDesktops(New(e, w, IF a # Off THEN a ELSE Head(e.ofoc)))

\* create_workspace_on_output: its name, and the workspace with fullscreen_mode set
FreeName(e, o) ==
    LET ok(w) == ~Contains(e.all, w) /\ AssignedOutput(e, w) \in {Off, o}
        s == SelectSeq(BindingNames, ok)
    IN IF s # <<>> THEN Head(s) ELSE Min({c \in Spaces : ok(c)})
CreateOn(e, o) == LET w == FreeName(e, o) IN [New(e, w, o) EXCEPT !.fs = @ \cup {w}]

\* workspace_move_to_output
Replacement(e, o) ==
    LET s == SelectSeq(Triggered(e, o), LAMBDA a : ~Contains(e.all, a[1]))
    IN IF s # <<>> THEN WorkspaceGet(e, s[1][1]) ELSE CreateOn(e, o)
ShowHead(e, o) == WorkspaceShow(e, Head(e.foc[o]))
ShowIf(e, w, wanted) == IF wanted THEN WorkspaceShow(e, w) ELSE e
CloseReplaced(e, o, previous) ==
    IF previous # Off /\ Contains(e.ws[o], previous) THEN OnRemoveChild(e, previous) ELSE e
WorkspaceMoveToOutput(e, w, o) ==
    LET from == OutOf(e, w)
        visible == IsVisible(e, w)
        previous == IF e.foc[o] = <<>> THEN Off ELSE Head(e.foc[o])
        replaced == IF Len(e.ws[from]) = 1 THEN Replacement(e, from) ELSE e
        detached == Detach(replaced, w)
        left == IF visible THEN ShowHead(detached, from) ELSE detached
    IN IF from = o THEN e
       ELSE CloseReplaced(UpdateDesktops(ShowIf(Attach(left, w, o), w, visible)), o, previous)

----------------------------------------------------------------------------
(* randr.c *)

\* get_first_output: the primary one if it is active
FirstOutput(e) ==
    LET active == SelectSeq(e.outs, LAMBDA o : o \in e.act)
        primary == SelectSeq(active, LAMBDA o : o \in e.primary)
    IN Head(primary \o active)

\* randr_query_outputs_15: the server names the monitors m that are connected, where
\* they are (at) and which one is primary.  The list only grows.
Query15(e, m, p) ==
    LET known(q, o) == IF Contains(q, o) THEN q ELSE IF o \in p THEN <<o>> \o q ELSE Append(q, o)
    IN [e EXCEPT !.outs = FoldLeft(known, @, SetToSeq(m)), !.act = @ \cup m,
                 !.disable = ((@ \cup Monitors) \ m) \cap ToSet(e.outs), !.primary = (@ \ m) \cup p]
\* randr_query_outputs_14, handle_output: every output of the server is named, those
\* without a CRTC too
Query14(e, m, p) ==
    LET known(q, o) == IF Contains(q, o) THEN q ELSE IF o \in p THEN <<o>> \o q ELSE Append(q, o)
    IN [e EXCEPT !.outs = FoldLeft(known, @, SetToSeq(Monitors)), !.act = @ \cup m,
                 !.disable = (@ \cup (e.act \cap Monitors)) \ m, !.primary = p]

\* the output for the root window is there when no other is
RootFallback(e) ==
    IF (e.act \ e.disable) \ {RootOutput} # {}
    THEN [e EXCEPT !.disable = IF RootOutput \in e.act THEN @ \cup {RootOutput} ELSE @]
    ELSE [e EXCEPT !.act = @ \cup {RootOutput}]
\* of the outputs at one position all but the first are disabled
Clones(e, at) ==
    LET on == SelectSeq(e.outs, LAMBDA o : o \in e.act \ e.disable /\ o # RootOutput)
    IN [e EXCEPT !.disable = @ \cup {on[j] : j \in {k \in DOMAIN on : \E i \in 1 .. k - 1 : at[on[i]] = at[on[k]]}}]

\* output_init_con for every active output without a container
InitCons(e) ==
    LET new == SelectSeq(e.outs, LAMBDA o : o \in e.act /\ ~Contains(e.cons, o))
    IN [e EXCEPT !.cons = @ \o new, !.ofoc = @ \o new]

\* move_content: the workspaces of con o go to the first output, empty ones are closed
Rehome(e, w, first) ==
    IF w # e.f /\ Empty(e, w) THEN Close(e, w) ELSE Attach(Detach(e, w), w, first)
\* focus comes back to where it was; then the container goes
MoveContent(e, o) ==
    LET moved == FoldLeft(LAMBDA g, w : Rehome(g, w, FirstOutput(e)), e, e.ws[o])
        back == IF e.f = Off THEN moved ELSE WorkspaceShow(Focus(moved, e.f), e.f)
    IN [back EXCEPT !.cons = Without(@, o), !.ofoc = Without(@, o)]

\* randr_disable_output
DisableOutput(e, o) ==
    LET off == [e EXCEPT !.act = @ \ {o}, !.disable = @ \ {o}]
    IN IF Contains(e.cons, o) THEN MoveContent(off, o) ELSE off

\* init_ws_for_output: the workspaces assigned to it come, or one is made
ShowSome(e, o, triggered) ==
    LET made == IF e.ws[o] # <<>> THEN e
                ELSE IF triggered = <<>> THEN CreateOn(e, o) ELSE WorkspaceGet(e, triggered[1][1])
        first == IF e.ws[o] = <<>> /\ triggered # <<>> THEN triggered[1][1] ELSE Head(made.ws[o])
    IN IF Shown(e, o) # Off THEN e ELSE WorkspaceShow(made, first)
InitWs(e, o) ==
    LET here == SelectSeq(e.all, LAMBDA w : AssignedOutput(e, w) = o)
        came == FoldLeft(LAMBDA g, w : WorkspaceMoveToOutput(g, w, o), e, here)
    IN ShowIf(ShowSome([came EXCEPT !.f = Off], o, Triggered(e, o)), e.f, e.f # Off)

\* the primary output is focused
FocusPrimary(e) ==
    FoldLeft(ShowHead, e, SelectSeq(e.outs, LAMBDA o : o \in e.primary /\ Contains(e.cons, o)))

\* randr_query_outputs from the point where the outputs are known: outputs that are gone
\* are disabled, those without a workspace get one
DisableGone(e) == FoldLeft(DisableOutput, e, SelectSeq(e.outs, LAMBDA o : o \in e.disable))
FillOutputs(e) == FoldLeft(LAMBDA g, o : IF o \in g.act /\ g.ws[o] = <<>> THEN InitWs(g, o) ELSE g, e, e.outs)
\* (The loop before them, over containers without an active output, finds none: only a
\* layout that a restart restores has such containers, and d begins without one.)
QueryOutputs(e, at) ==
    UpdateDesktops(FocusPrimary(FillOutputs(DisableGone(InitCons(Clones(RootFallback(e), at))))))

----------------------------------------------------------------------------
(* What happens: monitors change, commands and clients move things *)

\* What the server may report: monitors, clones among them, the primary one
Reports == {r \in [m : SUBSET Monitors, clones : SUBSET Monitors, p : SUBSET Monitors] :
                r.clones \subseteq r.m /\ r.p \subseteq r.m /\ Cardinality(r.p) <= 1 /\ Cardinality(r.clones) # 1}
Position(r) == [o \in Monitors |-> IF o \in r.clones THEN 0 ELSE o]
Queried(e, r, v15) ==
    QueryOutputs(IF v15 THEN Query15(e, r.m, r.p) ELSE Query14(e, r.m, r.p), Position(r))

\* xinerama_init, fake_outputs_init: the screens are there for good, one after the other
AddScreen(e, o) ==
    InitWs([e EXCEPT !.outs = Append(@, o), !.act = @ \cup {o}, !.cons = Append(@, o), !.ofoc = Append(@, o)], o)
Screens(m) == FoldLeft(AddScreen, [Blank EXCEPT !.outs = <<>>], IF m = {} THEN <<RootOutput>> ELSE SetToSeq(m))

OutputsInit ==
    /\ \/ \E r \in Reports, v15 \in BOOLEAN :
              d = Queried(Blank, r, v15) /\ randr = [kind |-> IF v15 THEN "1.5" ELSE "1.4", n |-> 1]
       \/ \E m \in SUBSET Monitors : d = UpdateDesktops(Screens(m)) /\ randr = [kind |-> "static", n |-> 1]
    /\ lagging = {}

Settles(e) == d' = e /\ lagging' = {} /\ UNCHANGED randr
\* a handler after which the windows' properties are not written again
Lags(e, v) == d' = e /\ lagging' = lagging \cup {v} /\ UNCHANGED randr
Keeps(e) == d' = e /\ UNCHANGED <<lagging, randr>>

\* handle_screen_change
HandleScreenChange ==
    /\ randr.n < MaxQueries /\ randr.kind # "static"
    /\ \E r \in Reports : d' = Queried(d, r, randr.kind = "1.5")
    /\ randr' = [randr EXCEPT !.n = @ + 1] /\ lagging' = {}

Room == Len(d.all) < MaxSpaces
\* cmd_workspace_name
CmdWorkspace(w) == (Room \/ Exists(d, w)) /\ LET e == WorkspaceShow(WorkspaceGet(d, w), w) IN IF Exists(d, w) THEN Keeps(e) ELSE Settles(e)
\* cmd_move_con_to_workspace_name
CmdMoveTo(v, w) == d.win[v].ws \in Spaces \ {w} /\ (Room \/ Exists(d, w)) /\ Settles(MoveToWorkspace(WorkspaceGet(d, w), v, w, FALSE))
\* cmd_move_workspace_to_output for the focused workspace
CmdMoveWorkspace(o) ==
    Room /\ Contains(d.cons, o) /\ ~Contains(d.ws[o], d.f) /\ Settles(WorkspaceMoveToOutput(d, d.f, o))
\* cmd_rename_workspace: numbered anew it is attached again
Renumber(e, w, n) ==
    LET new(x) == IF x = w THEN n ELSE x
        each(q) == [i \in DOMAIN q |-> new(q[i])]
    IN [e EXCEPT !.ws = [o \in Outputs |-> each(@[o])], !.foc = [o \in Outputs |-> each(@[o])],
                 !.fs = {new(x) : x \in @}, !.all = each(@), !.f = new(@),
                 !.win = [v \in DeskWindows |-> [@[v] EXCEPT !.ws = new(@)]]]
Reattached(e, n) == Attach(Detach(e, n), n, OutOf(e, n))
Reshow(e, w) == IF Exists(e, w) THEN Focus(WorkspaceShow(e, w), w) ELSE e
CmdRename(w, n) ==
    /\ Room /\ Exists(d, w) /\ ~Exists(d, n)
    /\ LET e == Reattached(Renumber(d, w, n), n)
           a == AssignedOutput(e, n)
           g == IF a # Off THEN WorkspaceMoveToOutput(e, n, a) ELSE e
       IN Settles(UpdateDesktops(Reshow(g, IF d.f = w THEN n ELSE d.f)))
\* cmd_sticky, and the same of a client by _NET_WM_STATE
SetSticky(v, on) ==
    d.win[v].ws # Off /\ d.win[v].sticky # on /\ Settles(UpdateWmDesktop(PushSticky([d EXCEPT !.win[v].sticky = on])))
\* floating_enable, floating_disable: nothing is written
ToggleFloating(v) == d.win[v].ws \in Spaces /\ Lags([d EXCEPT !.win[v].floating = ~@], v)
\* scratchpad_move; scratchpad_show of a window on the scratchpad
ScratchpadMove(v) ==
    d.win[v].ws \in Spaces /\ Settles(MoveToWorkspace([d EXCEPT !.win[v].floating = TRUE], v, Scratch, FALSE))
ScratchpadShow(v) ==
    d.win[v].ws = Scratch /\ Settles(UpdateWmDesktop([d EXCEPT !.win[v].ws = d.f]))

\* manage_window: a window that asks for a desktop gets it, the others come to the focused one
MapWindow(v, i) ==
    /\ d.win[v].ws = Off
    /\ LET w == ByIndex(d, i)
       IN Settles(PushSticky(UpdateWmDesktop([d EXCEPT !.win[v].ws = IF w = Off THEN d.f ELSE w])))
\* tree_close_internal of a window's container
CloseWindow(v) ==
    /\ d.win[v].ws # Off
    /\ LET e == OnRemoveChild([d EXCEPT !.win[v] = Blank.win[v], !.pub.of[v] = Off], d.win[v].ws)
       IN Keeps(e)
\* handle_client_message: _NET_CURRENT_DESKTOP, _NET_WM_DESKTOP
ClientCurrentDesktop(i) == LET w == ByIndex(d, i) IN w # Off /\ Keeps(WorkspaceShow(d, w))
ClientWmDesktop(v, i) ==
    /\ d.win[v].ws # Off
    /\ \/ i # All /\ ByIndex(d, i) # Off /\ Settles(UpdateWmDesktop(MoveToWorkspace(d, v, ByIndex(d, i), FALSE)))
       \/ i = All /\ ~d.win[v].floating
          /\ Settles(UpdateWmDesktop(PushSticky([d EXCEPT !.win[v].floating = TRUE, !.win[v].sticky = TRUE])))

OutputsNext ==
    \/ HandleScreenChange
    \/ \E w \in Named : CmdWorkspace(w)
    \/ \E w \in Spaces, n \in Named : CmdRename(w, n)
    \/ \E o \in Outputs : CmdMoveWorkspace(o)
    \/ \E v \in DeskWindows :
          \/ \E w \in Named : CmdMoveTo(v, w)
          \/ \E i \in 0 .. MaxNamed : MapWindow(v, i)
          \/ \E i \in (0 .. MaxNamed - 1) \cup {All} : ClientWmDesktop(v, i)
          \/ \E on \in BOOLEAN : SetSticky(v, on)
          \/ ToggleFloating(v) \/ ScratchpadMove(v) \/ ScratchpadShow(v) \/ CloseWindow(v)
    \/ \E i \in 0 .. MaxNamed - 1 : ClientCurrentDesktop(i)

OutputsSpec == OutputsInit /\ [][OutputsNext]_outputsVars

----------------------------------------------------------------------------
\* Whatever is plugged, assigned, renamed or moved, each active output has its container
\* with at least one visible workspace, no workspace is lost or there twice, and the focus is on one that is seen (randr.c:993-1051, workspace.c:1082, 1115-1141).
OutputsAreServed ==
    /\ ToSet(d.cons) = d.act /\ Len(d.cons) = Cardinality(d.act) /\ d.act # {}
    /\ \A o \in ToSet(d.cons) : Shown(d, o) # Off /\ ToSet(d.ws[o]) = ToSet(d.foc[o])
    /\ ToSet(Desks(d)) = ToSet(d.all) /\ IsInjective(Desks(d))
    /\ \A v \in DeskWindows : d.win[v].ws \in Spaces => Exists(d, d.win[v].ws)
    /\ IsVisible(d, d.f)

\* What the root window and the windows say is how the tree is, after every handler: the
\* update functions are called wherever indices shift (ewmh.c:103, 188).  Toggling the
\* floating mode is the exception: the window's desktop follows with the next update.
PublishedAgrees ==
    /\ d.pub.names = Desks(d) /\ d.pub.viewport = Viewport(d)
    /\ d.pub.current = Index(d, d.f)
    /\ \A v \in DeskWindows \ lagging : d.win[v].ws # Off => d.pub.of[v] = DesktopOf(d, v)
=============================================================================
