-------------------------------- MODULE I3bar --------------------------------
(***************************************************************************)
(* i3bar against i3: the requests and events of its IPC connection (a stream  *)
(* in each direction, which IpcServer keeps in order), the windows of the      *)
(* bars with the X events that tell whether they are seen, hiding and showing  *)
(* them by modifier, urgency and mode, and the two child processes.           *)
(*                                                                         *)
(* The workspaces of i3 are a version; the bar has the version it parsed last *)
(* and the outputs that it had windows for then.                            *)
(***************************************************************************)
EXTENDS Integers, Sequences, FiniteSets, SequencesExt, BarChild

CONSTANTS Outputs,     \* outputs an X server may have
          Commands,    \* status commands, and workspace commands
          Unknown,     \* no workspaces are known
          Configs,     \* the bar configurations that i3 may be reloaded with
          MaxChanges,  \* bounds the changes in i3
          MaxInput     \* bounds what the user, the children and other windows do

\* What X tells of: the modifier, or the visibility of a window, by its output or of none
ModifierEvents == {"pressed", "released"}

\* Outputs, the events of the modifier and no output at all are told apart.
ASSUME BarAssumption ==
    /\ IsFiniteSet(Outputs)
    /\ Outputs \cap ModifierEvents = {} /\ Unknown \notin Outputs \cup ModifierEvents
    /\ Unknown \notin Configs

VARIABLES i3,       \* what i3 tells of: outputs, workspaces, urgency, mode, configuration
          toI3,     \* requests on their way
          toBar,    \* replies and events on their way
          bar,      \* i3bar's state, with the outputs it knows, those that have a window, ...
          x,        \* X's view: which bars are covered, the modifier, events on their way
          changes,  \* counts the changes in i3
          inputs    \* counts the steps of the environment

barVars == <<i3, toI3, toBar, bar, x, changes, inputs>>

----------------------------------------------------------------------------
(* The bar's state b = bar, with the X events xs and the requests out that its *)
(* steps append                                                             *)

ProvidesWorkspaces(config) == config.buttons /\ config.wsCommand = NoCommand

Send(b, request) == [b EXCEPT !.out = Append(@, request)]

StopChildren(b) == [b EXCEPT !.status = StopChild(@), !.wsChild = StopChild(@)]
ContChildren(b) == [b EXCEPT !.status = ContChild(@), !.wsChild = ContChild(@)]

\* Mapping a bar whose visibility is watched brings a VisibilityNotify.
MapAll(b, S) ==
    [b EXCEPT !.mapped = @ \cup S, !.xs = @ \o SetToSeq((S \cap b.watched) \ b.mapped)]
UnmapAll(b, S) == [b EXCEPT !.mapped = @ \ S]

\* hide_bars
HideBars(b) ==
    IF b.config.display = "dock" \/ (b.config.shown /\ b.config.display = "hide") THEN b
    ELSE StopChildren(UnmapAll(b, b.known))

\* unhide_bars
UnhideBars(b) ==
    IF b.config.display # "hide" THEN b ELSE MapAll(ContChildren(b), b.win)

\* New bars are mapped and watched in dock mode only.
CreateWindows(b, new) ==
    IF b.config.display = "dock"
    THEN [b EXCEPT !.win = @ \cup new, !.mapped = @ \cup new, !.watched = @ \cup new, !.visible = @ \cup new,
                   !.xs = @ \o SetToSeq(new)]
    ELSE [b EXCEPT !.win = @ \cup new, !.mapped = @ \ new, !.watched = @ \ new]

\* Existing bars keep their event mask; they are mapped as the mode asks.
RedrawWindows(b, old) ==
    IF b.config.display = "dock" THEN MapAll(ContChildren(UnmapAll(b, old)), old)
    ELSE StopChildren(UnmapAll(b, old))

\* reconfig_windows; register_xkb_keyevents depends on the new mode.
ReconfigWindows(b, redraw) ==
    LET old == b.known \cap b.win
        redrawn == IF redraw /\ old # {} THEN [RedrawWindows(b, old) EXCEPT !.keys = b.config.display = "hide"] ELSE b
    IN CreateWindows(redrawn, b.known \ b.win)

\* draw_bars: an urgent workspace or the indicator of a mode shows hidden bars.
DrawBars(b, urgent) ==
    LET complete == IF b.known \subseteq b.win THEN b ELSE ReconfigWindows(b, FALSE)
        unhide == \/ urgent
                  \/ b.known # {} /\ (b.wsUrgent \/ b.modeName)
    IN IF b.modPressed \/ b.config.shown \/ unhide THEN UnhideBars(complete)
       ELSE IF b.config.display = "hide" THEN HideBars(complete)
       ELSE complete

FreeWorkspaces(b) == [b EXCEPT !.ws = Unknown, !.wsUrgent = FALSE]

\* parse_workspaces_json: workspaces on outputs that the bar does not know are
\* dropped, and their urgency with them.
ParseWorkspaces(b, version, urgent) ==
    [b EXCEPT !.ws = [at |-> version, outs |-> b.known], !.wsUrgent = urgent /\ b.known # {}]

\* free_outputs destroys all windows: the events still to come are of none.
FreeOutputs(b) ==
    [FreeWorkspaces(b) EXCEPT !.known = {}, !.win = {}, !.mapped = {}, !.watched = {}, !.visible = {},
                              !.xs = [i \in DOMAIN @ |-> IF @[i] \in ModifierEvents THEN @[i] ELSE Unknown]]

\* parse_outputs_json: the outputs that i3 has, without windows
ParseOutputs(b, outputs) == [b EXCEPT !.known = outputs]

\* parse_config_json
ParseConfig(b, m) == [b EXCEPT !.config = m.config]

\* repeat_last_ws_json
RepeatLastWsJson(b) ==
    IF b.wsLast = Unknown THEN b ELSE ParseWorkspaces(b, b.wsLast, FALSE)

----------------------------------------------------------------------------
(* Replies and events, given the bar and the message *)

GotWorkspaceReply(b, m) == DrawBars(ParseWorkspaces(b, m.ws, m.urgent), FALSE)

\* mutant: the workspaces are not asked for again after the outputs changed
GotOutputReply_NoWorkspaces(b, m) ==
    LET parsed == ParseOutputs(FreeOutputs(b), m.outputs)
    IN DrawBars(ReconfigWindows(parsed, FALSE), FALSE)
\* got_output_reply
GotOutputReply(b, m) ==
    LET parsed == ParseOutputs(FreeOutputs(b), m.outputs)
        windows == ReconfigWindows(parsed, FALSE)
        asked == IF ProvidesWorkspaces(b.config) THEN Send(windows, [kind |-> "workspaces"])
                 ELSE IF b.config.wsCommand # NoCommand THEN RepeatLastWsJson(windows)
                 ELSE windows
    IN DrawBars(asked, FALSE)

SubscribeEvents(b) ==
    Send(b, [kind |-> "subscribe",
             events |-> {"output", "mode", "barconfig_update"} \cup
                        IF ProvidesWorkspaces(b.config) THEN {"workspace"} ELSE {}])

\* got_bar_config: the outputs are asked for first, the subscription follows.
GotBarConfig(b, m) ==
    LET outputs == ParseConfig(Send(b, [kind |-> "outputs"]), m)
        subscribed == SubscribeEvents(outputs)
        asked == IF ProvidesWorkspaces(m.config) THEN Send(subscribed, [kind |-> "workspaces"])
                 ELSE subscribed
    IN [asked EXCEPT !.status = StartChild(@, m.config.command),
                     !.wsChild = StartWsChild(@, m.config.wsCommand),
                     !.keys = m.config.display = "hide"]

\* got_workspace_event: the event says that something changed, no more.
GotWorkspaceEvent(b, m) == Send(b, [kind |-> "workspaces"])
GotOutputEvent(b, m) == Send(b, [kind |-> "outputs"])

\* got_mode_event: only a named mode activates the indicator.
GotModeEvent(b, m) == DrawBars([b EXCEPT !.modeName = m.mode, !.activated = m.mode], FALSE)

\* Restarting the commands
RestartStatus(b, old) ==
    IF IsAlive(b.status) /\ old.command = b.config.command THEN b
    ELSE [b EXCEPT !.hung = @ \/ Hangs(b.status), !.status = StartChild(KillAndWait(@), b.config.command)]
RestartWsChild(b, old) ==
    IF IsAlive(b.wsChild) /\ old.wsCommand = b.config.wsCommand THEN b
    ELSE [FreeWorkspaces(b) EXCEPT !.hung = @ \/ Hangs(b.wsChild),
                                   !.wsChild = StartWsChild(KillAndWait(@), b.config.wsCommand)]

\* got_bar_config_update
GotBarConfigUpdate(b, m) ==
    LET asked == ParseConfig(Send(b, [kind |-> "outputs"]), m)
        windows == IF b.config.display # m.config.display THEN ReconfigWindows(asked, TRUE) ELSE asked
    IN DrawBars(RestartWsChild(RestartStatus(windows, b.config), b.config), FALSE)

Got(b, m) ==
    CASE m.kind = "bar_config" -> GotBarConfig(b, m)
      [] m.kind = "outputs" -> GotOutputReply(b, m)
      [] m.kind = "workspaces" -> GotWorkspaceReply(b, m)
      [] m.kind = "workspace" -> GotWorkspaceEvent(b, m)
      [] m.kind = "output" -> GotOutputEvent(b, m)
      [] m.kind = "mode" -> GotModeEvent(b, m)
      [] m.kind = "barconfig_update" -> GotBarConfigUpdate(b, m)
      [] OTHER -> b

----------------------------------------------------------------------------
(* Steps of the bar: its requests and the X events of its windows go out *)

Becomes(b) ==
    /\ bar' = [b EXCEPT !.out = <<>>, !.xs = <<>>]
    /\ toI3' = toI3 \o b.out

\* x.queue grows by the events of b; those of a freed window name no window.
Now == [bar EXCEPT !.xs = x.queue]
Acts(b) == \E new \in {b} : Becomes(new) /\ x' = [x EXCEPT !.queue = new.xs]

\* The events of a window that was destroyed are here when that is confirmed, and
\* xcb_prep_cb handles them before the loop calls anything else.
LoopPrepared == Unknown \notin Range(x.queue)

\* got_data
GotData ==
    /\ toBar # <<>> /\ LoopPrepared
    /\ toBar' = Tail(toBar)
    /\ Acts(Got(Now, Head(toBar)))
    /\ UNCHANGED <<i3, changes, inputs>>

Configured == bar.config # Unknown

\* handle_visibility_notify: the server sends the state of the moment of the
\* event; of several for a window the last one is the present one.
HandleVisibilityNotify(b, o) ==
    LET seen == IF o = Unknown THEN b ELSE [b EXCEPT !.visible = IF o \in x.covered THEN @ \ {o} ELSE @ \cup {o}]
    IN IF seen.known \cap seen.visible # {} THEN ContChildren(seen) ELSE StopChildren(seen)

\* xcb_prep_cb, a state event of the keyboard; i3bar gets it only while it asked
\* for it.
HandleModifier(b, pressed) ==
    IF ~b.keys \/ b.modPressed = pressed THEN b
    ELSE LET told == [b EXCEPT !.modPressed = pressed]
         IN IF pressed THEN UnhideBars([told EXCEPT !.activated = FALSE])
            ELSE IF ~b.activated THEN HideBars(told)
            ELSE told

\* xcb_prep_cb: the events come in their order.
HandleXEvent ==
    /\ x.queue # <<>>
    /\ LET event == Head(x.queue)
           later == [bar EXCEPT !.xs = Tail(x.queue)]
       IN Acts(IF event \in ModifierEvents THEN HandleModifier(later, event = "pressed") ELSE HandleVisibilityNotify(later, event))
    /\ UNCHANGED <<i3, toBar, changes, inputs>>

\* The modifier is pressed or released.
ModifierChanges ==
    /\ Configured /\ inputs < MaxInput /\ inputs' = inputs + 1
    /\ x' = [x EXCEPT !.modifier = ~@, !.queue = Append(@, IF x.modifier THEN "released" ELSE "pressed")]
    /\ UNCHANGED <<i3, toI3, toBar, bar, changes>>

\* Another window covers a bar or uncovers it.
CoverChanges(o) ==
    /\ Configured /\ inputs < MaxInput /\ inputs' = inputs + 1
    /\ x' = [x EXCEPT !.covered = IF o \in @ THEN @ \ {o} ELSE @ \cup {o},
                      !.queue = IF o \in bar.mapped \cap bar.watched THEN Append(@, o) ELSE @]
    /\ UNCHANGED <<i3, toI3, toBar, bar, changes>>

\* stdin_io_first_line_cb, for JSON and for plain text
StatusFirstLine(json) ==
    /\ LoopPrepared /\ IsAlive(bar.status) /\ ~bar.status.exited /\ ~bar.status.asleep /\ bar.status.header = "none"
    /\ LET b == [Now EXCEPT !.status = ParseHeader(@, json)]
       IN Acts(IF ~json THEN b
               ELSE DrawBars(IF bar.config.display # "dock" THEN StopChildren(b) ELSE b, FALSE))
    /\ UNCHANGED <<i3, toBar, changes, inputs>>

\* stdin_io_cb: an urgent block shows the bars.
StatusLine(urgent) ==
    /\ LoopPrepared /\ IsAlive(bar.status) /\ ~bar.status.exited /\ ~bar.status.asleep /\ bar.status.header # "none"
    /\ inputs < MaxInput /\ inputs' = inputs + 1
    /\ Acts(DrawBars(Now, urgent /\ bar.status.header = "json"))
    /\ UNCHANGED <<i3, toBar, changes>>

\* ws_stdin_io_cb
WsLine ==
    /\ LoopPrepared /\ IsAlive(bar.wsChild) /\ ~bar.wsChild.exited /\ ~bar.wsChild.asleep
    /\ inputs < MaxInput /\ inputs' = inputs + 1
    /\ Acts(DrawBars(ParseWorkspaces([Now EXCEPT !.wsLast = -1], -1, FALSE), FALSE))
    /\ UNCHANGED <<i3, toBar, changes>>

\* A child exits by itself, and i3bar hears of it later (child_sig_cb).
ChildExits(which) ==
    /\ IsAlive(bar[which]) /\ ~bar[which].exited /\ ~bar[which].asleep
    /\ inputs < MaxInput /\ inputs' = inputs + 1
    /\ bar' = [bar EXCEPT ![which].exited = TRUE]
    /\ UNCHANGED <<i3, toI3, toBar, x, changes>>
ChildSig(which) ==
    /\ LoopPrepared /\ bar[which].exited
    /\ LET b == [Now EXCEPT ![which] = Cleanup(@)]
       IN Acts(DrawBars(IF which = "wsChild" THEN FreeWorkspaces(b) ELSE b, FALSE))
    /\ UNCHANGED <<i3, toBar, changes, inputs>>

\* handle_button on a workspace button: the command names a workspace of the
\* version that is shown.
HandleButton(o) ==
    /\ o \in bar.mapped /\ bar.ws # Unknown /\ o \in bar.ws.outs
    /\ inputs < MaxInput /\ inputs' = inputs + 1
    /\ Acts(Send(Now, [kind |-> "command"]))
    /\ UNCHANGED <<i3, toBar, changes>>

\* send_block_clicked: a status command that reads no clicks any more is killed.
SendBlockClicked(o) ==
    /\ o \in bar.mapped /\ IsAlive(bar.status) /\ bar.status.header = "json"
    /\ bar.status.exited
    /\ LET b == [Now EXCEPT !.hung = @ \/ Hangs(bar.status), !.status = KillAndWait(@)]
       IN Acts(DrawBars(b, FALSE))
    /\ UNCHANGED <<i3, toBar, changes, inputs>>

----------------------------------------------------------------------------
(* i3, as its IPC server shows it *)

Tell(event, m) == toBar' = IF event \in i3.events THEN Append(toBar, m) ELSE toBar

\* Each handler of i3 answers one request; a command may switch workspaces.
Answer(request) ==
    CASE request.kind = "bar_config" -> [kind |-> "bar_config", config |-> i3.config]
      [] request.kind = "outputs" -> [kind |-> "outputs", outputs |-> i3.outputs]
      [] request.kind = "workspaces" -> [kind |-> "workspaces", ws |-> i3.ws, urgent |-> i3.urgent]
      [] OTHER -> [kind |-> "success"]
I3Answers ==
    /\ toI3 # <<>>
    /\ toI3' = Tail(toI3)
    /\ LET request == Head(toI3)
           switched == request.kind = "command" /\ "workspace" \in i3.events
       IN /\ toBar' = toBar \o (IF switched THEN <<[kind |-> "workspace"]>> ELSE <<>>) \o <<Answer(request)>>
          /\ i3' = CASE request.kind = "subscribe" -> [i3 EXCEPT !.events = request.events]
                     [] request.kind = "command" -> [i3 EXCEPT !.ws = @ + 1]
                     [] OTHER -> i3
    /\ UNCHANGED <<bar, x, changes, inputs>>

Changes == changes < MaxChanges /\ changes' = changes + 1 /\ UNCHANGED <<toI3, bar, x, inputs>>

I3Workspaces(urgent) ==
    /\ Changes
    /\ i3' = [i3 EXCEPT !.ws = @ + 1, !.urgent = urgent]
    /\ Tell("workspace", [kind |-> "workspace"])
\* the workspaces move with the outputs
I3Outputs(o) ==
    /\ Changes
    /\ i3.outputs # {o}
    /\ i3' = [i3 EXCEPT !.outputs = IF o \in @ THEN @ \ {o} ELSE @ \cup {o}, !.ws = @ + 1]
    /\ toBar' = toBar \o (IF "workspace" \in i3.events THEN <<[kind |-> "workspace"]>> ELSE <<>>)
                      \o (IF "output" \in i3.events THEN <<[kind |-> "output"]>> ELSE <<>>)
I3Mode ==
    /\ Changes
    /\ i3' = [i3 EXCEPT !.mode = ~@]
    /\ Tell("mode", [kind |-> "mode", mode |-> ~i3.mode])
I3Config(config) ==
    /\ Changes
    /\ config # i3.config
    /\ i3' = [i3 EXCEPT !.config = config]
    /\ Tell("barconfig_update", [kind |-> "barconfig_update", config |-> config])

----------------------------------------------------------------------------
BarInit ==
    /\ \E config \in Configs :
          i3 = [outputs |-> Outputs, ws |-> 0, urgent |-> FALSE, mode |-> FALSE, config |-> config, events |-> {}]
    /\ toI3 = <<[kind |-> "bar_config"]>>
    /\ toBar = <<>>
    /\ bar = [config |-> Unknown, known |-> {}, win |-> {}, mapped |-> {}, watched |-> {}, visible |-> {}, ws |-> Unknown, wsUrgent |-> FALSE,
              wsLast |-> Unknown, modeName |-> FALSE, activated |-> FALSE, modPressed |-> FALSE, keys |-> FALSE,
              status |-> NoChild, wsChild |-> NoChild, hung |-> FALSE, out |-> <<>>, xs |-> <<>>]
    /\ x = [covered |-> {}, modifier |-> FALSE, queue |-> <<>>]
    /\ changes = 0 /\ inputs = 0

ProtocolStep == GotData \/ I3Answers
BarStep ==
    \/ HandleXEvent
    \/ \E json \in BOOLEAN : StatusFirstLine(json)
    \/ \E which \in {"status", "wsChild"} : ChildSig(which)
    \/ \E o \in Outputs : SendBlockClicked(o)
Environment ==
    \/ ModifierChanges \/ WsLine
    \/ \E o \in Outputs : CoverChanges(o) \/ HandleButton(o)
    \/ \E urgent \in BOOLEAN : StatusLine(urgent)
    \/ \E which \in {"status", "wsChild"} : ChildExits(which)
I3Step ==
    \/ \E urgent \in BOOLEAN : I3Workspaces(urgent)
    \/ \E o \in Outputs : I3Outputs(o)
    \/ I3Mode
    \/ \E config \in Configs : I3Config(config)

BarNext == ProtocolStep \/ BarStep \/ Environment \/ I3Step
BarSpec == BarInit /\ [][BarNext]_barVars

----------------------------------------------------------------------------
(* Properties *)

Quiet == toI3 = <<>> /\ toBar = <<>>

\* A flag says whether a child was stopped, and it sleeps exactly then, so that
\* killing a child never waits for a process that cannot run.
BarTypeOK ==
    /\ bar.out = <<>> /\ bar.xs = <<>>
    /\ bar.mapped \subseteq bar.win /\ bar.win \subseteq bar.known
    /\ ~bar.hung
    /\ \A which \in {"status", "wsChild"} :
          bar[which].pid /\ ~bar[which].exited => (bar[which].asleep <=> bar[which].stopped)

\* Once all messages have been handled, the buttons show i3's workspaces of the
\* outputs that the bar knows (got_workspace_event, got_output_reply).
WorkspacesAreShown ==
    Quiet /\ Configured /\ ProvidesWorkspaces(bar.config) /\ "workspace" \in i3.events =>
        bar.ws = [at |-> i3.ws, outs |-> bar.known]

\* Once everything was handled, the status command runs while a bar can be seen.
InSight == ~(bar.mapped \subseteq x.covered)
StatusRunsInSight ==
    Quiet /\ x.queue = <<>> /\ InSight /\ bar.config.display = "dock" => ~bar.status.asleep

\* The bars are in step with i3 and with what can be seen of them, and no child
\* that was stopped is waited for (got_workspace_event, handle_visibility_notify,
\* kill_child_at_exit).
BarInStep == BarTypeOK /\ WorkspacesAreShown /\ StatusRunsInSight
=============================================================================
