# A TLA+ model of i3-aiwr

i3-aiwr is a fork of the i3 tiling window manager. It adds animations, a
scrolling layout, workspace transitions, an overview and a window switcher.
This directory holds TLA+ modules for the parts of it that decide what the user
sees and what the program's data structures mean. TLC checks them on small
instances. TLAPS proves the central properties of the animation clock and its
clients, of the IPC server and of what i3 keeps of its clients and keys, for
every number of animations, windows, strips, requests and keys.

Paths below are relative to the repository (`con.c` is `src/src/con.c` in the
mapping of `PROJECT.json`, `i3bar/src/xcb.c` is `src/i3bar/src/xcb.c`).

## The system and its parts

The program is one process with one libev loop. A handler (an X event, an IPC
message, a key binding, a timer) runs to its end before the next one starts.
So there are no data races in the core. What makes the code hard is this:

- **Long call chains over one mutable tree.** A command calls `con_focus`,
  `workspace_show`, `tree_close_internal`, `con_detach`, and these call each
  other. A container may be freed, or its parent replaced, in a callee while a
  caller still holds it.
- **Re-entrancy.** The animation clock calls its clients back in the middle of
  a walk over its own array, and they call the clock. `drag_pointer` runs the
  event loop inside a handler.
- **Cached summaries.** Visibility of workspaces, urgency of parents, focus
  stacks, the EWMH properties and the records of clients repeat what other state
  says, and each path must keep them in step.
- **Asynchronous partners.** The X server, IPC clients, i3bar and its children
  act between two handlers, and what i3 is told is older than what is.
- **Time.** Animations, the urgency timer, the startup timeout and the IPC kill
  timer fire between other handlers.
- **Ids that come back.** X hands out ids of destroyed windows again.

| Component | State | Operations | Interacts with | Correct if | Status |
|---|---|---|---|---|---|
| Animation clock (`aiwr_anim.c`) | slot array, next id, timer, render flag | start, cancel, finish, tick | calls step, done and `tree_render` of its clients, which call back | done at most once and never after cancel; the timer runs while there are slots; every animation ends | modelled |
| Container tree (`con.c`, `tree.c`) | `Con` records; `focused` | attach, detach, focus, close, split, flatten, move, swap, layout, fullscreen | everything | no use of freed containers; the lists make one tree; focus heads lead to `focused` | partly |
| Workspaces (`workspace.c`) | the workspaces of an output and which one is visible; previous workspace; urgency timer | show, get, back_and_forth, rename, attach, move to output | tree, outputs | one visible workspace per output; hidden empty ones are closed | partly |
| Move in a direction (`move.c`) | the tree | `tree_move` | tree, outputs, floating | the tree stays a tree | modelled |
| Floating windows (`floating.c`) | floating containers | enable, disable, toggle, drag | tree, fullscreen | each holds exactly one window | partly |
| Scratchpad (`scratchpad.c`) | the workspace `__i3_scratch`, flags | move, show | floating, workspaces, fullscreen | hidden windows are not fullscreen; focus goes to the window | partly |
| Managing windows (`manage.c`) | pending X replies, the tree | manage, remanage, unmanage | X, tree, assignments | a window that goes meanwhile leaves nothing behind | partly |
| Commands (`commands.c`) | criteria, reply, `needs_tree_render` | one function per command | everything | per command | partly |
| Event handlers (`handlers.c`) | ignored sequence numbers, focus | one per X event | tree, manage | i3's own events are not taken for the client's | partly |
| Outputs (`randr.c`, `output.c`, ...) | outputs and their modes | query, init, disable, order | workspaces, tree | no workspace is lost with its output | partly |
| Scrolling layout (`scrolling.c`) | offset and column widths of each strip, one scroll | scroll, reveal, resize, maximize, cycle, toggle | clock, render, con_focus | one scroll; no empty space at rest | modelled |
| Window animations (`window_animation.c`) | seen frames, items, ghosts | on_map, on_close, forget, step, done | clock, x.c, transitions | each animation has its owner; windows are whole at rest | modelled |
| Workspace transition (`workspace_transition.c`) | layers, overlay window | begin, abort, done | clock, workspace_show, randr | the overlay is taken down | modelled |
| Overview, switcher (`overview.c`, `switcher.c`) | thumbnails, selection, drag, grabs | toggle, keys, pointer, drop, commit | windows and workspaces that go away meanwhile | nothing stale is selected; the keyboard is let go of | partly |
| Snapshots (`aiwr_capture.c`) | layers of window images | take, copy, free | transitions, overview, switcher | each pixmap has one owner | partly |
| IPC server (`ipc.c`) | clients, write queues, kill timers | accept, receive, event, shutdown, restart | commands, every event source | messages whole and in order; a slow client is dropped once | partly |
| Bindings and modes (`bindings.c`, `handlers.c`) | modes, grabs, release marks | translate, grab, run, reload | commands, config, keymap | the grabs are those of the mode; a key runs what is bound | partly |
| Mouse (`click.c`, `drag.c`, `tiling_drag.c`) | nested loop | drag, drop, revert | tree | what is dragged ends where the drop says | partly |
| Startup notification (`startup.c`) | sequences, launcher contexts | start, complete, timeout | manage | a context is released once, when nothing refers to it | modelled |
| Layout restoring (`load_layout.c`, `restore_layout.c`) | parser state, placeholders | parse, fail, swallow | tree, manage | a failed parse leaves no half-made container; the first window stays | partly |
| Criteria, assignments, properties (`window.c`, `assignments.c`) | what i3 knows of a window, rules that ran | property handlers, run rules | commands, X | the record is what the client set; no rule runs twice | partly |
| Rendering and X state (`x.c`) | what X was told last | push changes | tree, server | X agrees with the tree | partly |
| i3bar | outputs, workspaces, children, tray | IPC events and replies, stop, continue, dock | IPC, X | shows what is; the status command runs in sight | partly |
| Logging, parsers, process start and signals, libi3, small programs | – | – | – | – | not modelled |

`PROJECT.json` says for each component what is left out, lists its files, and
names the hazards of this code at the lines where they bite, each with the
properties that cover it.

## The modules

```
Animations ---- what the clock promises (abstract)
   ^ implemented by AnimClock        ^ extended by Scrolling, WorkspaceTransition <- WindowAnimations
ConTree <- ConOps <- ConMoves <- Tree <- Mouse            the container tree        MC_Tree
IpcStream <- implemented by IpcServer;  BarChild <- I3bar, BarTray, BarInput         MC_Ipc
XServer <- XWindows;  Desktops <- Outputs;  OutputGeometry                           MC_X
WindowProps, WindowIcon, Startup, LoadLayout, Restore, Bindings                      MC_Clients
WindowList <- Overview <- Switcher;  Capture                                         MC_Overview
```

A module with proofs is named after the one it is about (`AnimClock_proofs`), or
after one of those which share it: `Clients_proofs` is about `Restore`, `WindowProps`,
`WindowIcon`, `LoadLayout`, `Startup` and `Bindings`, `Bar_proofs` about `I3bar`,
`BarTray` and `BarInput`, `Switcher_proofs` also about `Capture`, and `Scrolling_proofs` also about
`OutputGeometry`. `FoldLemmas` holds what several of them need of folds and numbers.
The `MC_` modules compose
components: `MC_Tree`, `MC_Ipc`, `MC_X`, `MC_Clients` and `MC_Overview` have a
variable `part`, and each behaviour is about one part, the others keep their
initial state; a run names the parts it takes. The parts share no variables, except that those
of `MC_Tree` are different steps over the same tree; where components do
interact (overview and switcher, windows and the server, outputs and
workspaces, mouse and tree) they are one part.

### The animation clock: `AnimClock`, `Animations`

`AnimClock` follows `anim_tick` at the grain at which other code can run. `pc`
names the place: `loop` (between events), `visit` (about to look at slot `i`),
`step` and `done` (inside a callback of a slot) and `render` (inside the
`tree_render` at the end of a tick). At `step`, `done` and `render` the client
may call `aiwr_anim_start` (`Start`), `_cancel` (`Cancel`), `_finish`
(`Finish`) and `_request_render`. `Compaction` is `anim_compact` as a relation:
the new array is the subsequence of live slots. `dangling` records that
`srealloc` may have moved the array away from under the pointer `s` of the walk;
after that, the write `s->active = false` is lost, and if the freed memory still
says that the slot is active (`ActiveReads`: either), done is called astray
(`StepReturnsAstray`). That happens in this program: `scroll_step` (`scrolling.c:298`) renders
through `tree_render`, and `x_push_node` calls `window_animation_on_map` (`x.c:1254`), which starts an
animation. What the freed memory holds of the callback and its data is taken to
be what was there. Time is how much of each
animation is left, which `Elapse` decreases.

`Animations` is what owners rely on: every animation is new, running, done or
cancelled, `Begin`, `End` and `Drop` move one of them, and done is counted.
`ImplementsAnimations` maps the array to it. `Calls` and `NextIds` say the same
for a handler that cancels some animations and starts others at once; the
client modules are built on them. In `Animations` nothing is called astray: what a client
does when its done callback is called a second time through the freed array is not
modelled, only how often that can be (`DoneAtMostOnce`).

### Its clients: `Scrolling`, `WorkspaceTransition`, `WindowAnimations`

`Scrolling` has strips with their columns (width, remembered width), focus and
`offset`, and `scroll_anim`. An action is a whole command or callback with its
`tree_render`. `Render` is `scrolling_prepare` over all strips: it clamps every
offset but that of the strip whose scroll runs. `ScrollTo` is
`scroll_to_offset`, `Reveal` is `scrolling_reveal`. `cut` marks a strip whose
scroll was cut short by an instant scroll of another one; only its next render
clamps it.

`WorkspaceTransition` has the overlay window (none, kept off the screen, or
shown), the layers and the animation of a transition. `WindowAnimations`
composes it with the frames of windows, `wa.seen`, `wa.items`, the data pointer
of each opening and the ghosts of closings. A frame is an X id, so a new window
may reuse it as soon as the old one is destroyed; `KillFrame` is `_x_con_kill`
with `window_animation_on_close` and `window_animation_forget` in their order.

### The container tree: `ConTree`, `ConOps`, `ConMoves`, `Tree`, `Mouse`

A tree is one record `t`: `con` (what every container holds), `focused`,
`previous` and `fault`. Operators take a tree and return one, in the order of
the calls in the source, so that an operation which calls five others is their
composition. `ConTree` has the queries and the elementary updates of `con.c`,
`ConOps` focus, fullscreen, closing and workspaces, `ConMoves` layouts, moves,
floating, scratchpad and swap, `Tree` one action per command or event and the
properties. Commands act on `focused`, or on the containers that a criterion
may match. `Mouse` adds what the nested loop of `drag_pointer` keeps: how the
drag began, the container, the target of the last motion and the place to
revert to, while the other actions go on. The rest of `route_click` is in it: the wheel
over tabs, clicks on the root, and tabs that are dragged with the modifier.

`fault` stays `none` unless an operator reads or links a freed container
(`freed`), inserts next to a container of another list (`corrupt`), fails an
assertion or does not end (`assert`), or reads links among tiling siblings that the
container does not have (`unlinked`). `dragged` is a drop of a freed container, or onto one. After a fault nothing is followed any
further. `Pool` is the memory of `con_new`: a freed container can be handed out
again, as malloc does.

### IPC: `IpcServer`, `IpcStream`, and i3bar

`IpcServer` has for each client its socket in both directions, the buffer of
bytes not written, the write callback, the kill timer, its subscriptions, and
an i3 whose state is a version number that commands raise. Bytes are units:
a message is a head and a body, and `Room` units fit into a socket. `Restart`
carries the client that asked over to the next i3, with its socket and without
its buffer. `IpcStream` says what a client of any server of this protocol sees:
a stream of messages for it, cut at most once, at its end; the server implements
it (`ImplementsStream`).

`I3bar` is the bar between i3's events and its own requests: replies describe
the state when i3 read the request, and come in one stream with the events.
`BarChild` is the life of the status and the workspace command with the signals
that stop and continue them, `BarTray` docking, hiding and dying tray clients
with the screens they are on, `BarInput` lines that come in pieces and, with
short reads, are joined again.

### X: `XServer`, `XWindows`, and outputs: `Desktops`, `Outputs`, `OutputGeometry`

`XServer` is the server as far as the program can tell: windows and frames with
their parents, maps and masks, the input focus, and the events that each
request causes, with its sequence number. `XWindows` is i3 between the requests it
sends in `x_push_changes`, `manage_window`, `handle_unmap_notify_event` and the
focus handlers, and clients that map, unmap and destroy windows at any time. An entry
of `ignore_events` has its type of response and whether it is older than five seconds; that
time passes only where it can be told, while an EnterNotify waits (`SecondsPass`).

`Desktops` has the workspaces by output, with the visible one, numbers, names
and assignments; `Outputs` the monitors that RandR reports, `randr_query_outputs`
with its passes in their order, and the EWMH properties as they were last
published (`pub`). `OutputGeometry` are the searches for the next output in a
direction over rectangles.

### Clients and keys: `WindowProps`, `WindowIcon`, `Startup`, `LoadLayout`, `Restore`, `Bindings`

`WindowProps` has a property's value at the server, the notices that are under
way, and what i3 knows; the rules that ran are remembered by window, as
`ran_assignments` does. `WindowIcon` chooses among icons of any sizes.
`Startup` has the sequences, contexts with their reference counts and timeouts.
`LoadLayout` are the events of the JSON parser over the tree it builds, with the static
variables that one file leaves to the next, files that are cut and files that are
refused half way, whose incomplete containers are freed (`fate` says what became of them).
`Restore` are slots with criteria, their placeholder windows and the windows that
take their place. `Bindings` are the bindings of the current mode with their
keycodes, the grabs at the server, the keymap and the group of the server and those
i3 knows, whatever way a changed keymap is announced, and key events under way, some of
which an overlay takes.

### Overview, switcher, images: `WindowList`, `Overview`, `Switcher`, `Capture`

`WindowList` is the tree as these two see it: workspaces with tiling or scrolling
columns and floating windows. `Overview` has the thumbnails, the selection, the
drag, and who holds the keyboard. `Switcher` is composed with it, since each
takes the keyboard from the other. `Capture` follows every pixmap from the
request that names it to the one that frees it, through the overview's opening, drawing,
going to another workspace (`OverviewGoes`) and closing; `watching` says that it is open.

## What is checked

| Run | Instance | Distinct states | Shows |
|---|---|---|---|
| `anim_clock` | 3 animations of 1 or 2 time units; step and done callbacks start, cancel and finish | 178,110 | types, done at most once but for calls astray, of which there are not more than the animation's own steps have started animations; timer iff slots; every slot that stays alive is stepped in each tick; refinement of `Animations`; every animation ends |
| `scrolling` | a workspace strip and a split strip of up to 2 columns, view of 4 units, widths 2 and 4, strips up to a view and a half, 2 animations | 121,776 | one scroll; at rest no strip shows empty space beyond its end, unless its scroll was cut short |
| `scrolling_freed` | the same | violation | finding 1 |
| `windows` | 2 frame ids, 3 animations | 91,906 | owners and animations agree, the overlay and the ghosts are taken down, windows are whole at rest, only first maps animate |
| `tree_tiling` | 1 workspace, 4 containers, 2 leaves | 66,817 | no fault, well-formed tree, definite layouts, focus heads lead to `focused`, no command loses a window |
| `tree_outputs` | 3 workspaces on 2 outputs, 4 containers, 2 windows, criteria on windows; two parts: focus commands and moves over edges, or marks and going back | 21,306 | one visible workspace per output, hidden empty workspaces are closed, no command but sibling focus takes the focus out of sight, moving leaves the user where he is |
| `tree_floating` | 3 workspaces on 2 outputs, 6 containers, 3 leaves, `workspace_layout tabbed`; three parts: dialogs, floating windows and the scratchpad; fullscreen in both modes; urgent and focus-declining clients with the urgency timer | 42,094 | floating containers hold one window; a workspace is covered once but after two steps that do not look; an urgent window is announced all the way up but after two kinds of moves; the hint stays while the timer runs |
| `mouse` | 2 workspaces on 2 outputs, 5 containers, 2 windows, one drag | 88,607 | a drag ends with the focus as the drop says, a reverted one where it began, and with a whole tree but for two faults of the drop |
| `ipc` | server: 2 clients, 3 requests, sockets of 3 units, one change, under fairness; i3bar: 2 outputs, 2 turns; 2 tray clients on 2 screens; 2 lines | 310,027 | replies in order and messages whole, `IpcStream`, every buffer drains or its client is dropped; the bar shows i3's workspaces; the tray's record is the server's; only whole lines are kept |
| `screen` | 2 windows, 3 client steps, 1 command; 2 monitors, up to 3 workspaces and 1 window, 2 queries; 3 screens on a grid | 274,907 | windows that are gone are closed and the input focus is i3's; only the user's EnterNotify moves the focus, unless i3 reads it five seconds late; outputs are served; EWMH agrees; going on in a direction visits all |
| `clients` | 1 window with 4 changes; 3 icons of 16 sizes; 2 launches; 3 containers, 2 files of 16 pieces together; 2 slots, 2 windows; 2 keys, 2 keymaps, 2 groups, 2 files, 2 events under way | 1,095,373 | records follow clients, the icon is the one documented, contexts are counted, layouts are whole whatever was cut or refused before, the first window keeps its slot, keys run what is bound |
| `overview` | 2 windows, one of them floating, 2 workspaces, 1 animation frame, filters of up to 2 of 2 letters, one of which is a shortcut; 4 items of the switcher; 1 frame; under fairness of the overview's timer | 143,780 | thumbnails live, no window is lost or doubled, the keyboard is let go of, the switcher does not stay open without its modifier, each pixmap has one owner, an overview that leaves is gone some time |

Deadlock is checked in the tree and mouse runs (there is always a window to open
or close; a behaviour of `mouse` stands still after its drop, one of `tree_floating` once a
window is urgent and a container around it does not say so, and one of `tree_outputs` after a failed assertion). It is off in the
others, which stop when their bounded animations, requests, changes or tokens
are used up and everything has come to rest.

**Why these bounds.** The tree operations look at a container, its parent, its
grandparent and its siblings. Four containers allow two windows under two
nested splits, and six allow a floating window next to a split of two, which is
where flattening, redundant splits, closing of parents and the scratchpad's
cases differ. Three workspaces on two outputs are the fewest for a visible
workspace elsewhere and a hidden one to come back to. In `mouse` a window is
dragged over one other and the two outputs; the workspaces of both outputs are
visible, there is one target per drag (nothing reads an earlier one), the swap
modifier is held only over centres, and a behaviour ends with its first drop, because
what follows is what the tree runs explore. While a fullscreen window covers a workspace
only the press with the modifier on it is taken, without the drag of a floating one
(step 8 of `route_click`); dragging a border changes percentages and is left out. Only windows
that stand on the first workspace itself are put into tabs there, which gives both kinds of title
bars. In `tree_tiling` no workspace layout is "stacked" (`NoStackedWorkspace`): it is treated as
"tabbed" but for its orientation, which the containers with that layout have. While a window is dragged others open (tiling ones, or dialogs in a floating drag that has not been
aborted), close, the dragged one and its target among them, the user switches workspaces, and windows become fullscreen or
tabbed; no command makes the dragged window float or moves it elsewhere, and the memory of a
container that a drag remembers is not used for another one until the drag is over (`Kept`).

The parts of `tree_floating` (`HintsBound`): with floating windows nothing is on the second output, there
are two windows where one of them is fullscreen, and the workspaces are the first and the third, both of the
first output; with fullscreen windows in both modes there are the first and the second workspace, one on each output,
up to three windows, and no scratchpad; with urgency there are two windows or
empty containers, two containers more for splits, and one timer at a time, and the focus moves
by `focus` and `focus parent`. In all three the moves in a direction are to the left and to the right. A behaviour
ends once a window is urgent and a container around it does not say so: what is moved then may stay
unannounced, of which `WorkspaceUrgency` says nothing.
The part `outputs` of `tree_outputs` has the focus commands and moves in all
directions, the part `back` marks and going back to the previous workspace (which is
going to it by its name); the other runs leave that out, and with it `previous` from their view.

Three animations are the fewest for one that is being walked, one that its
callback cancels and one that is created during the walk; two time units
separate a step from the last step. A scroll and its replacement need two.
Two columns of half the view or all of it make strips shorter than, equal to
and longer than the view; that both have all of it is left out (`Narrow`), since one of
half of it with one of all of it is longer than the view already. Two frames and three animations let a frame be reused
while a ghost and a transition run.

Room for three units is a head, a body and half of the next message, so that
writes are short at each place. There are two requests, in any order and of any kind, and three (`MaxAsks`) where the first client subscribes to the tree and runs a
command with two of them (`ThreeWithCommand`), so that an event overtakes a reply. Two changes (`MaxChanges`) let one event overtake
a request and another its reply; if the user or a child of i3bar does something, there is one (`TwoTurns`). One window with four changes
(`MaxSets`) lets a property be set, deleted, set again and the window be unmapped
and mapped between notice and handler. Three containers are a parent, a complete and an
incomplete child for a layout that fails in its middle; 16 pieces, of both files together, are
enough for that, for a second key "marks" in a container or its child, and for a file after a bad one. The memory of
a container that a refused file has freed is not used for another one (`Unused`). Two keys that the second
keymap exchanges, with release bindings and a mode, tell a stale grab
from a right one. In the overview's behaviours nothing is dragged while a
filter is typed: a drop reads no filter, and the arrows reach the selection that a filter leaves, too.
A floating window
that the overview drops among tiles keeps its floating flag, and i3 then takes the
workspace for its floating container (`con_move_to_workspace`, `con_next_focused`,
`con_inside_floating`); a behaviour ends there (`FlagsFit`). One frame is
enough for images since no list compares two; the proof is for any number.

**Views.** Tree states are compared by shape (`TreeShape`): containers of
`Pool` are interchangeable, and everything the operators read is in the shape; `previous` is
read only in the part `back`.
In `anim_clock` the walk's variables count while there is a tick, since the next one sets them anew, and of
the calls astray only how many more there may be (`Room`).
`ScrollView` leaves out how past animations ended, and the remembered
width of a maximized column, since with these widths it is the one that the column
gets back without it. In `screen`, once the last bounded change of the monitors is over, the lists
that only such a change reads (`outs`, `primary`, `disable`, the kind of query) are left out (`Desk`).
In `overview` the switcher's behaviours enter, leave and animate the overview and read neither
its thumbnails nor its selection, and how far the animation of an overview is that stays is not read by
anything; while it leaves, which is what `LeavingEnds` is about, nothing of the animation is left out (`Overlay`).
In `clients` the ways to announce a keymap count as two, as the property has them, of the bindings of the last press
those upon release do (`KeysRead`), and after a race for a slot, of which no property speaks, the restored layout does not (`Slotted`).

**Fairness.** `AnimClock!FairSpec` assumes weak fairness of `Tick` (libev runs
an expired timer, callbacks and `tree_render` return) and of `Elapse` (the
monotonic clock advances). `WindowFairSpec` assumes weak fairness of the done
callbacks of transitions, openings and ghosts, which is what `anim_clock`
shows as `EveryAnimationEnds`. `MC_Ipc!FairSpec` assumes that libev serves every
descriptor that is ready and every timer (`Accept`, `ReceiveMessage`,
`ReceiveEof`, `Writeable`, `Timeout`, `StartAgain`), and that a client writes the
payload of a request that it began (`ReceivePayload`; `ipc_recv_message` spins until
it does). Nobody has to read: a client that never does is dropped by the timer.
`MC_Overview!FairSpec` assumes weak fairness of the overview's timer. The other
runs check safety only and assume nothing.

## What is proved

The theorems hold for every value of the constants that the named assumptions
admit. Each invariant below was checked by TLC on an instance before it was
proved.

**`AnimClock_proofs`**, for all `MaxAnims` and `MaxDuration` and whatever step and
done callbacks start, cancel and finish: `ClockSafety`, `EveryLiveSlotStepped`,
`NoDoneAfterCancel`, and that each step of the clock is a step of `Animations` or
a stutter. The only assumptions are that the two bounds are natural numbers. `IInv` is

- `TypeOK`;
- `ArrayInv`: ids in the array are distinct and were handed out, and a live
  slot's animation is neither done nor cancelled. Done at most once would not be
  inductive without it: a slot that is live although its done has run could call
  it again;
- `WalkInv`: within a tick the snapshot lies in the array, and the slots up to
  it are those that were alive when the tick began;
- `TimerInv`: slots imply the timer, and between events the timer implies slots.

`EveryLiveSlotStepped` needs `DueInv` on top: what was alive when the tick began
and has not had its step lies at or after the index of the walk, or is over. Calls astray are
bounded by `StrayInv`: a running step under which the array has moved has started an animation that no call
of done has been counted for, so the count of calls stays below that of starts; the count of
starts is the cardinality of a set that grows by one (`FS_AddElement`).
`CompactionFacts` says what compaction keeps and `RetireFacts` what cancel and
finish do inside and outside of a tick.

**`WindowAnimations_proofs`**, for all numbers of frames and animations, from the
assumptions that `MaxAnims` is a natural number and `NoFrame` no frame:
`WindowSafety` and each of its parts. They are inductive together with `DataInv`
(an animation that has not begun has no data, nor has a ghost or a transition;
without it an `OpenStep` of an ended opening could not be excluded) and with
`pushed => seen`. `StopOK` is shared by the three ways a transition stops.

**`Scrolling_proofs`**, for all strips, columns and animations: `OneScroll`
(each handler leaves the scroll alone, replaces it or ends it, whatever it does to
the strips) and `StripsInRange`. The latter is assumed to start from widths and
presets within `1 .. MaxWidth` and `MaxWidth >= 2`, which is what the
configuration clamps to (`config_directives.c:1252`). Its invariant says `InRange`
of every strip except the one that scrolls and those whose scroll was cut short;
`RestInRange` alone is false without `cut`. That sums of widths are integers is
shown by a least counterexample, because induction theorems cannot be
instantiated. And `GoingOnReachesAll` of `OutputGeometry`, for any number of outputs in a row
and any layout of rectangles (`GeometryAssumption`): the search is a fold that finds
the nearest output beyond the present one (`IsBest`), and what has been visited lies
from the first one up to the present one, around the end of the row if need be (`GeometryInv`).

**`Switcher_proofs`**: `SwitcherSound`, of the switcher composed with the overview.
The invariant adds what each of the two knows of the grab (`HoldersKnow`) and that
an open selection has its modifier held, a release under way or one that was
missed (`HeldOrMissed`). And `ImagesAreSound` of `Capture`, for any frames on the two
workspaces: each list has good layers, at most one per frame, and the server's pixmaps
are what the five lists hold together (`CaptureInv`). What
a fold over a list can have made of it is a set that every step of the fold stays in
(`Holdings`), so that no induction over lists is needed.

**`IpcServer_proofs`**: that the server implements `IpcStream`, and `RepliesSound`, for
any clients and sizes of sockets. The invariant is a conjunction over clients (`Side`):
what is in the socket and the buffer alternates between heads and bodies, is in order of
time up to i3's present, and the tick flags of the connection say what the stream
holds. For a client that a restart carried over whole messages and the single
first tick do not hold (finding list below), so these are stated of connections
that were never carried. That each request has one reply of its kind, in order, is
`RepliesInv`: an increasing function from the replies in the stream to the requests, onto all
of them (`Answered`) but for one whose payload is awaited (`Due`); of a connection that has ended it is onto
the first of them (`Ended`).

**`Clients_proofs`**: `FirstWindowWins` of `Restore`, with the strengthening that
each window that was not raced is at home in the place it was put; and
`PropertiesFollow` of `WindowProps`. For the latter `ClientInv` says that what the
record lacks is told by a notice under way, and that a notice of a deletion which
is out of date is followed by one that says so; `RuleInv` that a rule which is not
noted has not run. `RecordsFollow` is false without the exception for properties
of a window that was read again while such a notice was under way (`Late`).
`StartupSound` of `Startup`: counting is not inductive by itself; `OneEach` (a
context has one sequence and one timer at most) makes it so.
`LayoutsAreWhole` of `LoadLayout`, from the assumption that the root is not one of
the containers that are made (`LayoutAssumption`): the parser keeps its
place in flags, so `Flagged` says how the flags follow from the depth of the
reading, `Alternates` that maps and arrays take turns on the way down, and `Around` that
the incomplete containers are a chain from the root to the node at hand (a sequence of them, whose
set is `Incomplete`). That a file is
whole at its end is the case of depth 0. What a cut file leaves, what a refused one frees and which marks wait
for either is part of the invariant (`Between`), so that the theorem holds for whatever files came before.
`IconAsSaid` of `WindowIcon`, for any number of icons in any order; it speaks of square ones,
since of others the comment does not say which is the larger.
`KeysDoAsBound` of `Bindings`, for all keymaps, groups, files and modes. `GroupReported` says that
the last report of the group under way is the server's, unless there is nothing to
report or i3 was never told of one (the group is not asked for at the start);
`KeymapReported` that a new keymap is queued behind every `MapNotify`, which translates the
keys by the old one; `GrabsFollow` and `MarksFollow` that the grabs and the release marks are those
of the current mode.

**`Bar_proofs`**: `TrayInStep`, from `TrayAssumption` (a client is in an output
or in none, and there are finitely many clients). The property speaks of the moments in which
X has nothing more to tell, so the invariant has to speak of all others: `Followed`
says that a living client is listed where it is, and mapped as it is unless the
last event that still comes of it corrects the list; that a dead one
is listed only as long as the event of its end comes; and that at most one request
to be docked waits. The clients that are kicked out are told of in an order
that X chooses, and the proof holds for each.
`LinesAreWhole` of `BarInput`, for lines and pieces
without bound: what is read of a line and what waits in the pipe make up one
`Stream`, whose last piece is of the line that the running child writes.
`BarInStep` of `I3bar`, from `BarAssumption` (finitely many outputs, whose names are no
events of the modifier), for any outputs, configurations and numbers of changes. It too
speaks of the moments at which nothing is under way, and `BarInv` of the others. For the workspaces: either
the buttons are i3's, or a request or message under way will bring them (`Fresh`), a reply with old ones is
always followed by such a message (`Renewed`), and whoever subscribes to their events has asked for them
behind that (`Subscribed`), which is why it is safe that `got_bar_config` asks for the
outputs before it subscribes. In dock mode (`Watched`), once the outputs are known: each mapped
bar is watched, its visibility is known truly or an event of it comes, and the status command is stopped
only if no bar is taken for visible or an event will tell. Windows of a
bar that was hidden are not watched; that a docked bar has none of them is due to `got_output_reply`,
which makes all windows anew after each reload.
A child that was stopped can be continued, so that killing it does not hang (`ChildOK`). TLC
checked `BarInv` before (1.4 million states).

**`FoldLemmas`**: the libraries' theorems about folds and numbers take operators, which the
provers cannot instantiate. Here the same is said of functions and sets: what a fold has
made of each beginning of a sequence is a function (`FoldExists`), and a set of naturals has a
least element.

**Only model-checked:**

- All liveness (`EveryAnimationEnds`, `CoversEnd`, `EveryBufferDrains`,
  `LeavingEnds`): it needs fairness and `ENABLED`, which the prover does not handle.
- Everything about the tree, outputs in the tree, and the mouse: closing recurses
  upwards, flattening and descending downwards, and the operators are recursive,
  which the provers cannot use.
- Desktops and outputs: which workspaces an output has and which are published are
  selections from sequences (`SelectSeq`), of which the provers know nothing, and whose facts
  are inductions.
- X windows and the overview's thumbnails. Nothing in these modules is
  recursive; they are in the plan.

## Findings

With a run: `con.c:101`. `con_free` calls `scrolling_forget` for workspaces only,
but `con_set_layout` makes split containers scroll. When the last column of one
closes during its scroll, `scroll_step` (`scrolling.c:297`) writes to freed
memory (`scrolling_freed`).

The following were met while modelling and have no run. The models do what the
code does; where that would break a property, the property names the exception,
or a bound keeps the case out, as said here.

Clock, scrolling, windows:

- `aiwr_anim.c:86`, `:155`: `anim_tick` holds a pointer into the slot array
  across the step callback, and starting an animation there may move the array
  (the comment at `:70` has only the index in mind). `scroll_step` does that through
  `tree_render` (`scrolling.c:298`, `x.c:1254`). Then `s->active = false` is lost, done is called from the freed
  memory, and called again from the slot in the next tick; or done is called although
  the owner has cancelled (the comment at `:84`). Steps start animations in the run and in the theorems, and
  the properties say how often done goes astray: not more often than the animation's own steps have started
  others (`DoneAtMostOnce`), and after a cancellation only within such a step (`CancelledHearNothing`).
- `commands.c:1014`: the scrolling commands suppress the render at their end;
  with a scroll duration of 0 the new offset is not shown.
- `scrolling.c:310`, `:350`: `scrolling_reveal` and `scroll_to_offset` compare with
  the offset of the moment, so a column that is in view during a scroll is not
  kept in view (README.md:232 and scrolling.h:36 say the focused column is). A
  scroll of one strip that replaces another strip's leaves that one half way, and out
  of range until its next render if the new one is instant (`cut`).
- `scrolling_toggle_layout` does not give the widths back after a round trip
  through a split, and turns only the outer one of two nested strips.
- `x.c:1233`: `window_animation_on_map` is called where the rectangle changes,
  and not where the window is mapped. `window_animation.c:185`: the ghost would be
  freed twice if `aiwr_anim_start` returned 0 after calling done; today it cannot.

Tree, workspaces, mouse:

- `con.c:1348`: moving the last floating window of a hidden workspace reads the
  workspace after it was freed; no run has criteria and floating windows together.
  `commands.c:1382`: sibling focus on a window of a
  hidden workspace focuses it without showing the workspace (`FocusStaysShown` names it). Then the
  assertion `con.c:2359` fails in what asks `con_fullscreen_permits_focusing`, although the comment before it says it
  cannot: a workspace that is hidden has `CF_NONE`. And `workspace_show` for that workspace returns early.
- `con.c:1284`: `con_enable_fullscreen` disables one conflicting fullscreen
  container, the global one if there is one, on whatever workspace, and else the workspace's; `move.c:179`: a fullscreen container that
  moves over the edge of its output disables nothing there. So two containers can cover one
  workspace; `FullscreenSound` names both steps. "A scratchpad window should never be in fullscreen mode"
  (`scratchpad.c:40`) is not so: the call after it is for the container that was named, so one inside a
  floating split or around it keeps its mode, and on a workspace `move scratchpad` names the floating container; swaps and
  `[criteria] fullscreen` give a hidden window the mode. The property leaves the scratchpad out.
  `[criteria] fullscreen toggle global` on a scratchpad window also takes the focus to where it is not
  shown; `tree_outputs` has no scratchpad windows. `con.c:2046`: the
  condition ends in `|| L_SCROLLING`, which is always true.
- `floating.c:320`: `floating_enable` closes the emptied parent before the window
  is inside its floating container, so the focus chosen by the close may be a
  floating container without a child. `floating.c:433`: on a workspace without
  tiling windows the window ends last in the focus stack.
- `con.c:1501`: a move hands on the urgency of the moved container only and
  recomputes the flag of the workspace it left, not of the split containers;
  `tree.c:275` likewise for closing. With the timer and switches a container can be
  urgent without an urgent window, so `WorkspaceUrgency` says one direction of what docs/ipc says (`:240`, `:447`):
  an urgent window is announced by all that is around it. Two kinds of moves break that too, and the
  property names them: a move in a direction (`move.c:179`, `:395`), to another output or into a neighbouring
  split, and one of a whole workspace (`con.c:1366`). The old workspace stays urgent then. A behaviour ends there.
- `con.c:1542`: `con_move_to_target` takes the first container of the target's
  focus stack, possibly a floating one. `scratchpad.c:42`: fullscreen is disabled
  for the container itself and not for one around it. `con.c:2753`:
  `con_merge_into` moves the first mark only.
- `tiling_drag.c:438`: the drop checks `DRAG_REVERT` and the target, not `DRAG_ABORT`
  (include/drag.h:35) and not that the dragged container is still there, although the loop of a drag may close it, as
  `drag.c:138` says where it asks that for floating ones: a freed container is dropped. A swap onto a
  fullscreen window reaches `assert(false)` (`:515`). `DragsEndAsMeant` names both and demands a whole tree
  otherwise. A refused swap leaves fullscreen disabled.
  `resize_graphical_handler` uses its containers after its loop without asking whether they live.

X, outputs, desktops:

- `handlers.c:1107`, `x.c:1531`: `_NET_ACTIVE_WINDOW` does not follow a client that
  takes the focus itself (ewmh.c:205). `x.c:1116`: `ignore_unmap` is counted for an
  unmap that the server may not report. `manage.c:551`-`561`: a window destroyed, or
  a property changed, while its event mask is off is not noticed (`deaf`).
  `handlers.c:753`: the container may be another after `remanage_window`.
  A client that takes the focus while i3 gives it elsewhere wins, so `FocusAgrees` speaks
  of the states in which none is racing.
- `randr.c:884`: an output may get a second workspace that is shown in a second
  content container; after unplugging a hidden empty workspace may stay.
  `randr.c:766`: the size of a removed CRTC is read as 0. `handlers.c:887`: a
  request for all desktops is ignored for a window that floats already, and toggling
  floating of a sticky one does not update `_NET_WM_DESKTOP` (`lagging`). `handlers.c:57`: an EnterNotify
  that i3 reads more than five seconds after the request that caused it moves the focus (`TooLate`).

IPC and i3bar:

- A SUBSCRIBE payload that fails in its middle has subscribed to what came before;
  `tick` is compared without case in one place and with in the other. `ipc_recv_message`
  spins on a header without payload (docs/ipc:1101) and loses the bytes of a header that is
  cut. A client that a restart carries over loses its buffer, so a message may end
  half written (`ipc.c:199`, docs/ipc:109), and it is sent a second first tick.
- `i3bar/src/child.c:465`: `has_urgent` is not reset, so after one urgent block calm
  lines unhide a hidden bar too (userguide:1661). A reload
  that removes `workspace_command` leaves the bar unsubscribed, and the last line of an old
  command is shown again. Changes between the reply to GET_OUTPUTS and SUBSCRIBE are
  missed. A header split between two reads is taken for flat text; flat text shows
  partial lines; `adjust_statusline_length` and the width in `xcb.c:2193` go below zero.

Clients, keys:

- `manage.c:380`: a window can take a placeholder that is being killed (`raced`).
  `assignments.c:72`: windows are compared by address. `con.c:2751`: restoring marks
  walks a list that it changes. `load_layout.c:746`: a layout that is refused half way
  keeps its complete containers (commands.c:792 says so), those attached to the freed incomplete ones with a
  dangling parent, and also the marks that wait for
  the freed ones (`:331`), which the next layout gives out. One that is cut is
  accepted (`yajl_parse` at `:643`, without the result of `yajl_complete_parse`) and leaves incomplete containers.
  `LayoutsAreWhole` says of either what it leaves, and of the next file that it is whole. `load_layout.c:294`: each key "marks" forgets the marks that wait.
  Since `ipc.c:423` writes the marks of every container before its nodes, a split container loses its marks in an in-place
  restart and with `append_layout`, which the comment at `load_layout.c:34` wants to avoid; the property excepts these (`fate.lost`).
  `restore_layout.c:292`: a placeholder closed by `kill` stays listed.
- `con.c:1492`, `startup.c:277`: the startup cursor outlives a sequence whose window
  came another way (userguide:2308).
- A deletion that is handled after the window was read again clears what the
  window has (leader, transient, urgency).
- `handlers.c:1437`: the failure of `load_keymap` is not looked at; the model leaves it out.
  `handlers.c:1451` grabs before it loads the new keymap, `:260` after it; a release binding
  runs without its press if the modifiers match at the release.

Overview, switcher, images:

- `overview.c:1681`: the drop index is one off (comment at `:76`); `:1703`: a drop
  onto a floating window; `:1626`: the output of a thumbnail may be gone. A
  floating window dropped on a strip leaves its floating container. The overview can
  open over the switcher's grab.
- `switcher.c:233`, `:277`: raw pointers to containers; floating windows are listed
  twice; the order differs from README.md:330; a modifier released between query and grab
  leaves the switcher open (`missed`).
- `overview.c:665`: the cairo context is destroyed twice; images of frames that are
  closed stay until the next opening.

Hazards that no property covers and that are not in `PROJECT.json`:
`scrolling.c:350`, `commands.c:1014`, `log.c:282` (the shared ring is read while it is
written), `con.c:2755`, `con.c:1348`, `con.c:2046`, `scratchpad.c:42`.

## Abstractions and what is left out

- An output and its content container are one container in the tree. Dock areas,
  rectangles, percentages, marks as names, title formats, borders and gaps are left
  out. Criteria are the set of containers they may match. Outputs of the tree are a fixed
  row; outputs that come and go are in `Outputs`, over workspaces without splits. The loop of
  `randr_query_outputs` over output containers without an active output (`randr.c:1006`) has nothing to do there: such
  containers come only from a layout that a restart restores, and `Outputs` starts without one.
- Column widths are even integers in the run, so halves are exact. Springs in the
  curve do not overshoot. Widths end at `MaxWidth`. A strip inside another strip is
  not modelled.
- Failures of X requests other than naming a pixmap, drawing, opacity values and
  frame rates are left out. X ids of live windows are not reused in `XWindows`, and
  there is no override_redirect, dock or fullscreen window there.
- IPC payloads are the state they tell. The reply to a command is sent when the command is
  over. A tray client asks once until it is kicked; the status command's signals are
  followed in dock mode.
- Mouse buttons, whole-window grabs, CapsLock (each key is bound and grabbed with it, too) and
  the check for duplicate bindings are left out of `Bindings`.
- Not modelled at all: logging, the parsers (their token machines keep no state between
  commands), process start and signals, libi3, the small programs.

## Plan

Left to do:

1. Invariants of the modules without recursion that no theorem states yet, each with its
   inductive invariant: `OverviewSound` and `WindowsInStep`; `OutputsAreServed`
   with `PublishedAgrees`, once the selections are folds with the test inside, as in `OutputGeometry`.
2. The layer between `WindowAnimations` and `AnimClock`; the action property
   `EntersAreTheUsers` of `XWindows`.
3. The shared log and its reader; resizing with the mouse.
