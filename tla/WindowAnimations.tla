-------------------------- MODULE WindowAnimations --------------------------
(***************************************************************************)
(* The opening and closing of windows (src/src/window_animation.c).  An     *)
(* opening shrinks and fades the frame of the window; a closing shows a     *)
(* ghost, a copy of the frame, after the frame is destroyed.  Neither       *)
(* starts during a workspace transition, which this module composes with.   *)
(*                                                                          *)
(* Frames are ids of X windows, and X hands an id out again after its       *)
(* window was destroyed.                                                    *)
(***************************************************************************)
EXTENDS WorkspaceTransition

CONSTANTS Frames, NoFrame

ASSUME WindowAssumption == MaxAnims \in Nat /\ NoFrame \notin Frames

VARIABLES
    frame,              \* of each id: the frame window, and what it looks like
    seen,               \* wa.seen
    items,              \* wa.items
    data,               \* of each animation: the data pointer, for openings
    ghosts              \* the animations whose data is a ghost that exists

windowVars == <<frame, seen, items, data, ghosts>>
allVars == <<state, doneCalls, switchVars, windowVars>>

Item == [frame : Frames, anim : Ids]
Window(old) == [exists |-> old, mapped |-> old, shrunk |-> FALSE, faded |-> FALSE,
                pushed |-> old, reopened |-> FALSE]
NoWindow == Window(FALSE)

\* shrunk: not at the geometry of its container; faded: _NET_WM_WINDOW_OPACITY
\* is set; pushed and reopened (history): it has had a geometry; it was opened
\* after that
WindowTypeOK ==
    /\ SwitchTypeOK
    /\ frame \in [Frames -> [exists : BOOLEAN, mapped : BOOLEAN, shrunk : BOOLEAN,
                             faded : BOOLEAN, pushed : BOOLEAN, reopened : BOOLEAN]]
    /\ seen \subseteq Frames
    /\ items \subseteq Item
    /\ data \in [Ids -> Frames \cup {NoFrame}]
    /\ ghosts \subseteq Ids

\* window_animation_seed_existing: the frames that a restart finds are seen.
WindowInit ==
    /\ Init /\ SwitchInit
    /\ \E old \in SUBSET Frames :
         /\ frame = [f \in Frames |-> Window(f \in old)]
         /\ seen = old
    /\ items = {}
    /\ data = [id \in Ids |-> NoFrame]
    /\ ghosts = {}

Exists(f) == frame[f].exists
ItemsOf(f) == {item \in items : item.frame = f}
\* window_animation and its conditions may be off: the configuration, the quiet
\* time after the start, empty rectangles
MayAnimate == ~overview /\ ~switch.active

-----------------------------------------------------------------------------
\* x_con_init
CreateFrame(f) ==
    /\ ~Exists(f)
    /\ frame' = [frame EXCEPT ![f] = [NoWindow EXCEPT !.exists = TRUE]]
    /\ UNCHANGED <<state, doneCalls, switchVars, seen, items, data, ghosts>>

\* x_push_node maps and unmaps frames.
MapFrame(f, mapped) ==
    /\ Exists(f) /\ frame[f].mapped # mapped
    /\ frame' = [frame EXCEPT ![f].mapped = mapped]
    /\ UNCHANGED <<state, doneCalls, switchVars, seen, items, data, ghosts>>

\* x_push_node gives a frame the geometry of its container and calls
\* window_animation_on_map, which sees each frame once.
PushRect(f) ==
    /\ Exists(f)
    /\ seen' = seen \cup {f}
    /\ \/ /\ frame' = [frame EXCEPT ![f].shrunk = FALSE, ![f].pushed = TRUE]
          /\ UNCHANGED <<state, doneCalls, items, data>>
       \/ /\ f \notin seen /\ MayAnimate /\ ItemsOf(f) = {}
          /\ \E id \in NextIds :
               /\ Calls({id}, {})
               /\ items' = items \cup {[frame |-> f, anim |-> id]}
               /\ data' = [data EXCEPT ![id] = f]
          /\ frame' = [frame EXCEPT ![f].shrunk = TRUE, ![f].pushed = TRUE,
                                     ![f].reopened = frame[f].pushed]
    /\ UNCHANGED <<switchVars, ghosts>>

\* wa_step
OpenStep(id) ==
    /\ state[id] = "running" /\ data[id] # NoFrame
    /\ frame' = IF Exists(data[id])
                THEN [frame EXCEPT ![data[id]].shrunk = TRUE, ![data[id]].faded = TRUE]
                ELSE frame
    /\ UNCHANGED <<state, doneCalls, switchVars, seen, items, data, ghosts>>

\* wa_finished
OpenDone(id) ==
    /\ End(id) /\ data[id] # NoFrame
    /\ frame' = IF Exists(data[id])
                THEN [frame EXCEPT ![data[id]].shrunk = FALSE, ![data[id]].faded = FALSE]
                ELSE frame
    /\ items' = items \ ItemsOf(data[id])
    /\ UNCHANGED <<switchVars, seen, data, ghosts>>

\* Mutations of KillFrame: the opening runs on; the frame stays among the seen.
KillFrame_NoCancel(f) ==
    /\ Exists(f)
    /\ UNCHANGED <<state, doneCalls, ghosts, switchVars, data>>
    /\ seen' = seen \ {f}
    /\ items' = items \ ItemsOf(f)
    /\ frame' = [frame EXCEPT ![f] = NoWindow]

\* _x_con_kill: window_animation_on_close, which may leave a ghost, and
\* window_animation_forget, before the frame is destroyed.
KillFrame(f) ==
    /\ Exists(f)
    /\ LET cancelled == {item.anim : item \in ItemsOf(f)}
       IN  \/ Calls({}, cancelled) /\ UNCHANGED ghosts
           \/ /\ frame[f].mapped /\ MayAnimate
              /\ \E id \in NextIds : Calls({id}, cancelled) /\ ghosts' = ghosts \cup {id}
    /\ seen' = seen \ {f}
    /\ items' = items \ ItemsOf(f)
    /\ frame' = [frame EXCEPT ![f] = NoWindow]
    /\ UNCHANGED <<switchVars, data>>

\* Mutation of GhostDone: wa_ghost_done has lost its ghost.
GhostDone_Leaks(id) ==
    /\ id \in ghosts
    /\ End(id)
    /\ UNCHANGED <<switchVars, frame, seen, items, data, ghosts>>

\* wa_ghost_done
GhostDone(id) ==
    /\ id \in ghosts
    /\ End(id)
    /\ ghosts' = ghosts \ {id}
    /\ UNCHANGED <<switchVars, frame, seen, items, data>>

WindowStep(f) == CreateFrame(f) \/ PushRect(f) \/ KillFrame(f) \/ \E mapped \in BOOLEAN : MapFrame(f, mapped)
ClockCalls(id) == OpenStep(id) \/ OpenDone(id) \/ GhostDone(id)

WindowNext ==
    \/ \E f \in Frames : WindowStep(f)
    \/ \E id \in Ids : ClockCalls(id)
    \/ SwitchNext /\ UNCHANGED windowVars

WindowSpec == WindowInit /\ [][WindowNext]_allVars

\* The clock ends every animation (AnimClock: EveryAnimationEnds).
WindowFairSpec ==
    /\ WindowSpec
    /\ WF_allVars(SwitchDone /\ UNCHANGED windowVars)
    /\ \A id \in Ids : WF_allVars(OpenDone(id) \/ GhostDone(id))

-----------------------------------------------------------------------------
Running(id) == state[id] = "running"

\* Every running animation has one owner, which can cancel it or is released by
\* its done callback, and no owner keeps the id of one that is over: the items,
\* the data the callbacks got, the ghosts and the transition agree with the
\* clock through kills, reused frame ids, aborts and replaced transitions.
AnimationsHaveOwners ==
    /\ \A id \in Ids : Running(id) <=>
         id \in ghosts \/ (\E item \in items : item.anim = id) \/ (switch.active /\ switch.anim = id)
    /\ \A item \in items :
         /\ data[item.anim] = item.frame /\ Exists(item.frame)
         /\ \A other \in ItemsOf(item.frame) : other = item
         /\ item.anim \notin ghosts \cup StoppedAnims
    /\ ghosts \cap StoppedAnims = {}

\* A window that no opening works on has its own geometry and no opacity set:
\* whatever ended the opening has put both back.
RestingFramesWhole ==
    \A f \in Frames : Exists(f) /\ ItemsOf(f) = {} => ~frame[f].shrunk /\ ~frame[f].faded

\* "Only the first map of each frame is an open: a workspace switch remaps
\* windows and must not animate" (window_animation.h).
OpensFirstOnly == \A f \in Frames : ~frame[f].reopened

\* A frame that is gone is not remembered as seen, so that the next window with
\* its id is opened like any other.
SeenFramesExist == \A f \in seen : Exists(f)

\* A ghost and the overlay of a transition lie above all windows; each is taken
\* down some day.
GhostsEnd == \A id \in Ids : id \in ghosts ~> id \notin ghosts
OverlayEnds == switch.active ~> ~switch.active

\* Frames, ghosts, items and the transition agree with the animations of the clock,
\* and no window is left shrunk or opened twice, in whatever order windows open,
\* close, are unmapped and reuse ids while workspaces are switched.
WindowSafety ==
    /\ WindowTypeOK /\ OverlayHasAnimation /\ AnimationsHaveOwners
    /\ RestingFramesWhole /\ SeenFramesExist /\ OpensFirstOnly

\* Each ghost and each overlay is taken down some day, by its done callback or a stop.
CoversEnd == GhostsEnd /\ OverlayEnds
=============================================================================
