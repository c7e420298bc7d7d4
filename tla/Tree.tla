-------------------------------- MODULE Tree --------------------------------
(***************************************************************************)
(* The container tree under the commands of commands.c and the windows that *)
(* clients open and close: one action per command, whatever its target.  i3 *)
(* runs one handler at a time, so an action is a whole command.             *)
(***************************************************************************)
EXTENDS ConMoves

CONSTANTS Criteria,     \* what criteria may name: "windows", and by "marks"
          LayoutArgs,   \* the layouts the layout command is given
          ClientHints,  \* what new windows may ask for: "dialog", "shy", "urgent"
          MaxLeaves     \* bound on the windows and empty containers

VARIABLE t

Dirs == {"left", "right", "up", "down"}
RealOutputs == ToSet(Outputs)

(***************************************************************************)
(* Reachable containers and the targets of commands.                       *)
(***************************************************************************)
Live == {c \in Id : TypeOf(t, c) # "free"}
Windows == {c \in Pool : t.con[c].window}
Leaves == {c \in Pool : TypeOf(t, c) = "con" /\ IsLeaf(t, c)}
\* what a mark can be put on
Markable == {c \in Live : TypeOf(t, c) \in {"con", "workspace"} /\ c # Scratch}
\* a command runs on focused, or on a container its criteria match
Targets == {t.focused} \cup (IF "windows" \in Criteria THEN Windows ELSE {})
                       \cup (IF "marks" \in Criteria THEN Markable ELSE {})
\* after a fault the program is not followed any further
Running == t.fault = "none"
Room(n) == Cardinality(FreeCons(t)) >= n

DisableGlobalFullscreen(u) ==
  LET fs == GetFullscreen(u, Root, "global") IN IF fs = None THEN u ELSE DisableFullscreen(u, fs)

(***************************************************************************)
(* Clients.                                                                *)
(***************************************************************************)
\* manage_window
Manage(hints) ==
  /\ Running /\ Room(IF "dialog" \in hints THEN 3 ELSE 2) /\ Cardinality(Leaves) < MaxLeaves
  /\ t' = ManageWindow(t, Fresh(t), hints)

\* handle_unmap_notify_event, handle_destroy_notify_event
WindowGone(c) == Running /\ t' = Close(t, c, FALSE, FALSE)

\* handle_urgency_hint through handle_hints
UrgencyHint(c, urgent) == Running /\ t' = SetUrgency(t, c, urgent)

TimerFires(c) == Running /\ t.con[c].timer /\ t' = UrgencyTimeout(t, c)

(***************************************************************************)
(* Commands.                                                               *)
(***************************************************************************)
CmdOpen == /\ Running /\ Room(1) /\ Cardinality(Leaves) < MaxLeaves
           /\ LET new == Fresh(t) IN t' = Activate(OpenCon(t, new, FALSE), new)

CmdKill(c) == Running /\ t' = ConClose(t, c, TRUE)

GoTo(u, w) == Show(GetOrCreate(u, w), w)

CmdWorkspace(w) ==
  LET u == DisableGlobalFullscreen(t)
  IN Running /\ t' = IF GetWorkspace(u, u.focused) = w THEN u ELSE GoTo(u, w)

CmdBackAndForth ==
  LET u == DisableGlobalFullscreen(t)
  IN Running /\ t' = IF t.previous = None THEN u ELSE GoTo(u, t.previous)

\* nothing is moved from an empty workspace
CmdMoveToWorkspace(c, w) ==
  /\ Running /\ Room(2)
  /\ ~(TypeOf(t, c) = "workspace" /\ Below(t, c) = <<>>)
  /\ t' = MoveToWorkspace(GetOrCreate(t, w), c, w, FALSE)

CmdMoveToMark(c, target) ==
  /\ Running /\ Room(2)
  /\ t' = MoveToTarget(t, c, target)

CmdMoveWsToOutput(w, out) ==
  /\ Running
  /\ \E v \in Workspaces : ~Alive(t, v)
  /\ t' = MoveWsToOutput(t, w, out)

CmdMoveToOutput(c, out) ==
  /\ Running /\ Room(2) /\ ~IsInternal(GetWorkspace(t, c))
  /\ t' = MoveToWorkspace(t, c, VisibleOn(t, out), FALSE)

CmdFocusOutput(out) == Running /\ t' = Show(t, VisibleOn(t, out))

CmdSplit(c, o) == Running /\ Room(2) /\ t' = Split(t, c, o)
CmdLayout(c, layout) == Running /\ Room(1) /\ t' = SetLayout(t, c, layout)
CmdLayoutToggle(c, mode) == Running /\ Room(1) /\ t' = ToggleLayout(t, c, mode)
CmdFullscreen(c, mode) == Running /\ t' = ToggleFullscreen(t, c, mode)
CmdFloating(c) == Running /\ Room(1) /\ t' = ToggleFloating(t, c)

CmdMoveDirection(c, dir) ==
  Running /\ Room(2) /\ ~IsFloating(t, c) /\ t' = TreeMove(t, c, dir)

CmdMoveScratchpad(c) ==
  /\ Running /\ Room(NumChildren(t, c) + 1)
  /\ t' = ScratchpadMove(t, c)

\* with criteria that match the window c, or without; focus [criteria] does the
\* same for a window on the scratchpad
CmdScratchpadShow(c) ==
  /\ Running
  /\ \E x \in IF c # None \/ ScratchpadElsewhere(t) = {} THEN {None} ELSE ScratchpadElsewhere(t) :
       t' = ScratchpadShow(t, c, x)

CmdSwap(a, b) == Running /\ t' = Swap(t, a, b)

CmdFocus(c) == Running /\ GetWorkspace(t, c) # Scratch /\ t' = ActivateUnblock(t, c)

CmdFocusDirection(c, dir) ==
  Running /\ GetWorkspace(t, c) # Scratch /\ t' = FocusDirection(t, c, dir)

CmdFocusSibling(c, dir) ==
  LET next == Neighbour(t.con[Parent(t, c)].nodes, c, dir)
      focused == IF TypeOf(t, next) = "workspace" THEN Focus(Show(t, next), next) ELSE Activate(t, next)
  IN /\ Running /\ GetWorkspace(t, c) # Scratch
     /\ next # None /\ t' = IfPermitted(t, next, TRUE, focused)

CmdFocusParent == Running /\ t' = LevelUp(t)
CmdFocusChild == Running /\ t' = LevelDown(t)

\* focus tiling|floating
CmdFocusMode(floating) ==
  LET c == FirstThat(t.con[GetWorkspace(t, t.focused)].focus,
                     LAMBDA x : floating = (TypeOf(t, x) = "floating_con"))
  IN Running /\ c # None /\ t' = ActivateUnblock(t, DescendFocused(t, c))

(***************************************************************************)
(* The specification.                                                      *)
(***************************************************************************)
\* Start: one visible workspace on every output, the focus on the first.
First(i) == CHOOSE w \in Workspaces : WsNum[w] = i
OutputOf(w) == Outputs[WsNum[w]]
Initial ==
  [con |-> [c \in Id |->
     CASE c = Root -> [FreeCon EXCEPT !.type = "root", !.nodes = <<I3Output>> \o Outputs,
                                      !.focus = Outputs \o <<I3Output>>, !.layout = "splith"]
       [] c = I3Output -> [FreeCon EXCEPT !.type = "output", !.parent = Root, !.layout = "splith",
                                          !.nodes = <<Scratch>>, !.focus = <<Scratch>>]
       [] c = Scratch -> [FreeCon EXCEPT !.type = "workspace", !.parent = I3Output,
                                         !.layout = "splith", !.fullscreen = "output"]
       [] c \in RealOutputs ->
            LET w == First(IndexOf(Outputs, c))
            IN [FreeCon EXCEPT !.type = "output", !.parent = Root, !.layout = "splith",
                               !.nodes = <<w>>, !.focus = <<w>>]
       [] c \in Workspaces /\ WsNum[c] \in DOMAIN Outputs ->
            [FreeCon EXCEPT !.type = "workspace", !.parent = OutputOf(c), !.layout = "splith",
                            !.wsLayout = DefaultLayout, !.fullscreen = "output"]
       [] OTHER -> FreeCon],
   focused |-> First(1), previous |-> None, fault |-> "none"]

Init == t = Initial

WindowSteps ==
  \/ \E hints \in SUBSET ClientHints : Manage(hints)
  \/ \E c \in Windows : WindowGone(c)
UrgencySteps ==
  (\E c \in Live : TimerFires(c)) \/ \E c \in Windows, urgent \in BOOLEAN : UrgencyHint(c, urgent)
WorkspaceSteps == CmdBackAndForth \/ \E w \in Workspaces : CmdWorkspace(w)
MoveToWorkspaceSteps == \E c \in Targets, w \in Workspaces : CmdMoveToWorkspace(c, w)
MoveToMarkSteps == \E c \in Targets, target \in Markable : CmdMoveToMark(c, target)
OutputSteps ==
  \E out \in RealOutputs :
    \/ CmdFocusOutput(out)
    \/ \E c \in Targets : \/ CmdMoveToOutput(c, out)
                         \/ /\ ~IsInternal(GetWorkspace(t, c))
                            /\ CmdMoveWsToOutput(GetWorkspace(t, c), out)
KillSteps == \E c \in Targets : CmdKill(c)
SplitSteps == \E c \in Targets, o \in {"horiz", "vert"} : CmdSplit(c, o)
LayoutSteps ==
  \E c \in Targets : \/ \E layout \in LayoutArgs : CmdLayout(c, layout)
                    \/ \E mode \in {"split", "default", "all"} : CmdLayoutToggle(c, mode)
FullscreenSteps == \E c \in Targets, mode \in {"output", "global"} : CmdFullscreen(c, mode)
FloatingSteps == \E c \in Targets : CmdFloating(c)
MoveSteps == \E c \in Targets, dir \in Dirs : CmdMoveDirection(c, dir)
ScratchpadSteps ==
  \/ \E c \in Targets : CmdMoveScratchpad(c)
  \/ \E c \in Windows \cup {None} : CmdScratchpadShow(c)
SwapSteps == \E a \in Targets, b \in Windows : CmdSwap(a, b)
FocusSteps ==
  \/ CmdFocusParent \/ CmdFocusChild
  \/ \E floating \in BOOLEAN : CmdFocusMode(floating)
  \/ \E c \in Windows : CmdFocus(c)
  \/ \E c \in Targets, dir \in Dirs : CmdFocusDirection(c, dir)
SiblingSteps == \E c \in Targets, dir \in {"left", "right"} : CmdFocusSibling(c, dir)

Next ==
  \/ WindowSteps \/ CmdOpen \/ UrgencySteps \/ WorkspaceSteps \/ MoveToWorkspaceSteps
  \/ MoveToMarkSteps \/ OutputSteps \/ KillSteps \/ SplitSteps \/ LayoutSteps \/ FullscreenSteps
  \/ FloatingSteps \/ MoveSteps \/ ScratchpadSteps \/ SwapSteps \/ FocusSteps \/ SiblingSteps

Spec == Init /\ [][Next]_t

(***************************************************************************)
(* Properties.                                                             *)
(***************************************************************************)
ConType == [type : Types, parent : Id \cup {None}, nodes : Seq(Id), floats : Seq(Id),
            focus : Seq(Id), layout : Layouts, lastSplit : {"default"} \cup SplitLayouts,
            wsLayout : Layouts, window : BOOLEAN, fullscreen : {"none", "output", "global"},
            urgent : BOOLEAN, timer : BOOLEAN, floating : BOOLEAN, scratchpad : BOOLEAN]

\* Every tree the commands reach is a well-formed value: con_new and the
\* assignments of the handlers keep each field of a Con in its type.
TypeOK ==
  /\ t.con \in [Id -> ConType]
  /\ t.focused \in Id /\ t.previous \in Workspaces \cup {None}
  /\ t.fault \in {"none", "freed", "corrupt", "assert"}

\* No command uses a container after con_free, links a container into the list
\* of another one, fails an assertion or loops: the order in which
\* tree_close_internal, workspace_show and on_remove_child run is safe.
NoFault == t.fault = "none"

IsPermutation(s, r) == ToSet(s) = ToSet(r) /\ Len(s) = Len(r)

\* The lists and the parent pointers describe one tree: every container but the
\* root is in the list of its parent that its type calls for, once, the focus
\* stack holds exactly the children, and nothing is left over outside the tree.
TreeWellFormed ==
  \A c \in Live :
    /\ IsInjective(Below(t, c)) /\ IsPermutation(t.con[c].focus, Below(t, c))
    /\ \A x \in ToSet(Below(t, c)) :
         /\ Alive(t, x) /\ Parent(t, x) = c
         /\ Contains(t.con[c].floats, x) <=> TypeOf(t, x) = "floating_con"
    /\ c # Root => Contains(Below(t, Parent(t, c)), c) /\ HasAncestor(t, c, Root)

\* the parts of the screen whose focus the user sees: an output, as long as its
\* focus stack starts with the workspace it shows, and Root for focused itself
FocusShown(u) ==
  {out \in RealOutputs : IsVisible(u, Head(u.con[out].focus))}
  \cup {Root : x \in {w \in {GetWorkspace(u, u.focused)} : w # Scratch /\ IsVisible(u, w)}}

\* No command takes the focus to a workspace that is not shown, whatever its
\* criteria match and wherever it moves containers, except `focus next|prev
\* sibling` for a window of a hidden workspace: cmd_focus_sibling focuses the
\* sibling with con_activate, without workspace_show (commands.c:1382).
FocusStaysShown ==
  [][\/ FocusShown(t) \subseteq FocusShown(t')
     \/ \E c \in Windows, dir \in {"left", "right"} :
          ~IsVisible(t, GetWorkspace(t, c)) /\ CmdFocusSibling(c, dir)]_t

\* focused is a window, a split container or a workspace and never the
\* container around a floating window (tree.c:417).
FocusSkipsFloatingCon == TypeOf(t, t.focused) \in {"con", "workspace"}

\* con_focus moves a container to the head of the focus stacks all the way up,
\* so following the heads from the root leads to focused: what a workspace
\* shows first when the user comes back to it is what had the focus.
FocusHeadsLeadToFocused ==
  LET up == <<t.focused>> \o Ancestors(t, t.focused)
  IN \A i \in 1 .. Len(up) - 1 : Head(t.con[up[i + 1]].focus) = up[i]

\* workspace_show leaves exactly one visible workspace on each output.
OneVisibleWorkspace ==
  \A out \in RealOutputs :
    Cardinality({w \in ToSet(t.con[out].nodes) : t.con[w].fullscreen = "output"}) = 1

\* the workspaces that nothing is on and nobody sees
HiddenEmpty(u) ==
  {w \in Workspaces : TypeOf(u, w) = "workspace" /\ Below(u, w) = <<>> /\ ~IsVisible(u, w)}

\* A floating container holds exactly one child, and that child is the one
\* flagged as floating.
FloatingHoldsOne ==
  \A c \in Live :
    /\ TypeOf(t, c) = "floating_con" => NumChildren(t, c) = 1
    /\ IsFloating(t, c) => TypeOf(t, Parent(t, c)) = "floating_con"

\* the containers that cover w, and the workspaces that more than one covers
Covers(u, w) ==
  {c \in Pool : /\ TypeOf(u, c) \in {"con", "floating_con"} /\ GetWorkspace(u, c) = w
                /\ u.con[c].fullscreen # "none"}
Doubled(u) == {w \in Workspaces \cup {Scratch} : Cardinality(Covers(u, w)) > 1}

\* urgent windows that a container on the way up to the workspace says nothing of
Unannounced(u) ==
  {c \in Pool : /\ u.con[c].window /\ u.con[c].urgent
                /\ \E x \in ToSet(Ancestors(u, c)) :
                     TypeOf(u, x) \in {"con", "floating_con", "workspace"} /\ ~u.con[x].urgent}

\* The layout "default" is only a request: con_set_layout replaces it by the
\* last split layout, since con_orientation has no answer for it.
LayoutsAreDefinite == \A c \in Live : t.con[c].layout # "default"

\* While workspace_show's timer runs, the hint it preserves stays set, whatever
\* the client or the focus does: con_set_urgency discards the change.
TimerKeepsHint == \A c \in Windows : t.con[c].timer => t.con[c].urgent

\* The tree is sound after every command: no container is used after it was
\* freed, the lists, parents and focus stacks describe one tree, and layouts are
\* ones that con_orientation knows (con_new, con_free, con_attach, con_detach,
\* con_fix_percent's callers and con_set_layout).
TreeSound == TypeOK /\ NoFault /\ TreeWellFormed /\ LayoutsAreDefinite

\* With floating windows, scratchpad, fullscreen and swaps the tree stays sound,
\* every floating_con holds its one window, and the focus is never on the
\* floating_con itself (floating_enable, floating_disable, tree_close_internal).
FloatingSound == NoFault /\ TreeWellFormed /\ FloatingHoldsOne /\ FocusSkipsFloatingCon

\* c, or what holds it, is moved in a direction, maybe over an edge of its output
MovesInDirection(c) ==
  \E x \in Pool, dir \in Dirs :
    TypeOf(t, x) = "con" /\ (x = c \/ HasAncestor(t, c, x)) /\ CmdMoveDirection(x, dir)
CrossesEdge(c) == GetOutput(t', c) # GetOutput(t, c) /\ MovesInDirection(c)
\* con_enable_fullscreen finds a global fullscreen container, wherever it is, and
\* does not look at the workspace of c any more (con.c:1284)
FindsGlobal(c) == t.con[c].fullscreen = "none" /\ GetFullscreen(t, Root, "global") # None

\* Whatever covers a workspace is alone to cover it: con_enable_fullscreen,
\* attaching, swaps and moves take the mode from one container before another
\* gets it or comes along with it. Two steps do not: a move over the edge of an
\* output attaches what covers without looking (move.c:179), and
\* con_enable_fullscreen looks at one container only, the global one wherever it
\* is (con.c:1284). Where two cover a workspace, what they become later is open.
FullscreenSound ==
  [][\A w \in Doubled(t') \ {Scratch} :
       Doubled(t) # {} \/ \E c \in Covers(t', w) : FindsGlobal(c) \/ CrossesEdge(c)]_t

\* An urgent window is announced by its workspace, and by every container up to
\* it, as long as it is urgent: con_update_parents_urgency and
\* workspace_update_urgent_flag run on hints, and wherever the window goes. Two
\* moves put it below another container without them: a move in a direction
\* (move.c:179, 395), and one of its whole workspace, whose windows go into a new
\* container that is not urgent (con.c:1366, workspace.c:1044). What is moved while
\* a container on the way up says nothing remains unannounced.
WorkspaceUrgency ==
  [][\A c \in Unannounced(t') \ Unannounced(t) :
       \/ MovesInDirection(c)
       \/ TypeOf(t, t.focused) = "workspace" /\ \E w \in Workspaces : CmdMoveToWorkspace(t.focused, w)]_t

\* Each output shows one workspace, nothing is used after it was freed on the
\* way, and a step closes every workspace that it empties or hides empty
\* (workspace_show, tree_close_internal, con_move_to_workspace). Only while the
\* focus is where the user does not see it, workspace_show returns early without
\* closing what it hides, and the assertion con.c:2359 fails for what asks
\* con_fullscreen_permits_focusing.
ShownWorkspaces ==
  /\ []OneVisibleWorkspace
  /\ [][\/ NoFault' /\ HiddenEmpty(t') \subseteq HiddenEmpty(t)
        \/ Root \notin FocusShown(t) /\ t'.fault \in {"none", "assert"}]_t

UserStays ==
  /\ GetWorkspace(t', t'.focused) = GetWorkspace(t, t.focused)
  /\ \A out \in RealOutputs :
       VisibleOn(t', out) \in {VisibleOn(t, out), GetWorkspace(t, t.focused)}
\* Moving a container to a workspace leaves the user where he is: no output
\* switches workspaces, unless to that of focused if it was hidden, and focused
\* stays on its own (step 7 of _con_move_to_con).
MoveKeepsWorkspaces ==
  [][UserStays \/ ~\E c \in Targets, w \in Workspaces : CmdMoveToWorkspace(c, w)]_t

\* Only a client's exit removes a window: no sequence of commands loses one.
CommandsKeepWindows ==
  [][Windows \subseteq {c \in Pool : t'.con[c].window} \/ \E c \in Windows : WindowGone(c)]_t
=============================================================================
