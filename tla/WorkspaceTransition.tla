------------------------- MODULE WorkspaceTransition -------------------------
(***************************************************************************)
(* The workspace transition (src/src/workspace_transition.c): while         *)
(* workspace_show switches, an overlay window above everything shows the    *)
(* captured layers of the two workspaces, moved by an animation of          *)
(* Animations.  The overlay is kept between transitions, off the screen.    *)
(***************************************************************************)
EXTENDS Animations

VARIABLES
    switch,             \* workspace_transition_state
    overview            \* overview_is_active()

switchVars == <<switch, overview>>

SwitchTypeOK ==
    /\ switch \in [active : BOOLEAN, anim : 0..MaxAnims, layers : BOOLEAN,
                   overlay : {"none", "parked", "shown"}]
    /\ overview \in BOOLEAN

SwitchInit ==
    /\ switch = [active |-> FALSE, anim |-> 0, layers |-> FALSE, overlay |-> "none"]
    /\ overview = FALSE

\* wt_stop and wt_done: the overlay goes off the screen, the layers are freed.
Stopped(s) ==
    IF s.active THEN [active |-> FALSE, anim |-> 0, layers |-> FALSE, overlay |-> "parked"] ELSE s

\* The animation that wt_stop cancels.
StoppedAnims == IF switch.active THEN {switch.anim} ELSE {}

\* workspace_transition_begin.  It stops the transition that is running, and
\* starts none if the workspaces are on two outputs, if the overlay cannot be
\* made or if neither workspace can be drawn; by then the overlay may exist.
SwitchBegin ==
    /\ ~overview
    /\ \/ /\ Calls({}, StoppedAnims)
          /\ switch' \in {Stopped(switch), [Stopped(switch) EXCEPT !.overlay = "none"],
                          [Stopped(switch) EXCEPT !.overlay = "parked"]}
       \/ \E id \in NextIds :
            /\ Calls({id}, StoppedAnims)
            /\ switch' = [active |-> TRUE, anim |-> id, layers |-> TRUE, overlay |-> "shown"]
    /\ UNCHANGED overview

\* wt_done
SwitchDone ==
    /\ switch.active
    /\ End(switch.anim)
    /\ switch' = Stopped(switch)
    /\ UNCHANGED overview

\* workspace_transition_abort, when the outputs are queried again
SwitchAbort ==
    /\ Calls({}, StoppedAnims)
    /\ switch' = [Stopped(switch) EXCEPT !.overlay = "none"]
    /\ UNCHANGED overview

\* The overview opens and closes (overview.c is not modelled).
OverviewToggles ==
    /\ overview' = ~overview
    /\ UNCHANGED <<state, doneCalls, switch>>

SwitchNext == SwitchBegin \/ SwitchDone \/ SwitchAbort \/ OverviewToggles

\* The overlay covers the screen, and the layers are held, exactly as long as
\* the animation runs that takes them down again: a second switch, an abort and
\* the end of the animation each release them once.
OverlayHasAnimation ==
    /\ switch.active <=> switch.overlay = "shown"
    /\ switch.active <=> switch.layers
    /\ switch.active <=> switch.anim # 0 /\ state[switch.anim] = "running"
=============================================================================
