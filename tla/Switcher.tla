------------------------------ MODULE Switcher ------------------------------
(* The window switcher (src/switcher.c) beside the overview: a list of the   *)
(* windows that opens with a modifier held and commits when it is released.  *)
(* Opening asks the X server twice, for the modifiers held and then for the  *)
(* keyboard: the user and the other clients act in between, i3 does not.     *)
EXTENDS Overview

CONSTANT MaxItems   \* switcher max_items

ASSUME SwitcherAssumption == MaxItems \in Nat \ {0}

VARIABLES
  sw,       \* the switcher's state
  held,     \* the user holds the modifier
  release,  \* a KeyRelease of it is in i3's queue
  missed    \* the modifier was released between the two requests

switcherVars == <<sw, held, release, missed>>
switcherAll == <<tree, ov, keyboard, input, sw, held, release, missed>>

Shut == [state |-> "closed", items |-> <<>>, selected |-> 0, hold |-> FALSE, grabbed |-> FALSE]
Ready == sw.state # "opening"

(* sw_collect(): the windows of each workspace in the order of focus, and    *)
(* those of its floating containers once more, until there are enough.       *)
ItemsOf(t, s) ==
  t.foc[s] \o FlattenSeq([i \in DOMAIN t.floats[s] |-> Block(t, s, t.floats[s][i][1])])
Items(t) == LET all == FlattenSeq([i \in 1 .. Len(t.order) |-> ItemsOf(t, t.order[i])])
            IN IF Len(all) <= MaxItems THEN all ELSE SubSeq(all, 1, MaxItems)

Turn(i, dir, n) == ((i - 1 + dir + n) % n) + 1

(* switcher_open() of an open switcher.                                      *)
SwitcherStep(dir) ==
  /\ ~ov.active /\ sw.state = "open"
  /\ sw' = [sw EXCEPT !.selected = Turn(@, dir, Len(sw.items))]
  /\ UNCHANGED <<tree, ov, keyboard, input, held, release, missed>>

(* switcher_open(): the list, then the modifiers (sw_current_mods()) ...     *)
SwitcherAsk(dir) ==
  /\ ~ov.active /\ sw.state = "closed"
  /\ Len(Items(tree)) >= 2
  /\ LET items == Items(tree) IN
     sw' = [Shut EXCEPT !.state = "opening", !.items = items, !.hold = held,
                        !.selected = IF dir = 1 THEN 2 ELSE Len(items)]
  /\ missed' = FALSE
  /\ UNCHANGED <<tree, ov, keyboard, input, held, release>>

(* ... and then the keyboard.                                                *)
SwitcherGrab ==
  /\ sw.state = "opening"
  /\ sw' = [sw EXCEPT !.state = "open", !.grabbed = (keyboard # "other")]
  /\ keyboard' = IF keyboard = "other" THEN keyboard ELSE "switcher"
  /\ UNCHANGED <<tree, ov, input, held, release, missed>>

(* Mistake: only a switcher that waits for a modifier lets go.               *)
Teardown_Held ==
  /\ sw' = Shut
  /\ keyboard' = IF sw.grabbed /\ sw.hold THEN Release(keyboard) ELSE keyboard

(* sw_teardown().                                                            *)
Teardown ==
  /\ sw' = Shut
  /\ keyboard' = IF sw.grabbed THEN Release(keyboard) ELSE keyboard

(* sw_commit(): what was chosen is shown and focused if it is still there.   *)
Commit ==
  /\ Teardown
  /\ LET w == sw.items[sw.selected]
     IN tree' = IF w \in Opened(tree) THEN Activate(ShowDesk(tree, HomeOf(tree, w)), w) ELSE tree

(* switcher_handle_event() sees every event before the overview does.        *)
SwitcherKey ==
  /\ sw.state = "open" /\ keyboard \in {"switcher", "overview"}
  /\ \/ Teardown /\ tree' = tree
     \/ Commit
     \/ /\ \E dir \in {-1, 1} : sw' = [sw EXCEPT !.selected = Turn(@, dir, Len(sw.items))]
        /\ UNCHANGED <<tree, keyboard>>
  /\ ov' = Clear(ov, tree')
  /\ UNCHANGED <<input, held, release, missed>>

SwitcherKeyRelease ==
  /\ Ready /\ release /\ release' = FALSE
  /\ IF sw.state = "open" /\ sw.hold /\ ~held THEN Commit ELSE UNCHANGED <<sw, tree, keyboard>>
  /\ ov' = Clear(ov, tree')
  /\ UNCHANGED <<input, held, missed>>

(* switcher_abort(), when the outputs are queried again.                     *)
SwitcherAbort ==
  /\ Ready /\ sw.state = "open"
  /\ Teardown
  /\ UNCHANGED <<tree, ov, input, held, release, missed>>

(* The user and the other clients of the X server.                           *)
PressModifier ==
  /\ ~held /\ held' = TRUE
  /\ UNCHANGED <<tree, ov, keyboard, input, sw, release, missed>>
ReleaseModifier ==
  /\ held /\ held' = FALSE
  /\ release' = (release \/ keyboard \in {"switcher", "overview"})
  /\ missed' = (missed \/ sw.state = "opening")
  /\ UNCHANGED <<tree, ov, keyboard, input, sw>>
OtherGrabs == keyboard = "free" /\ keyboard' = "other" /\ UNCHANGED <<tree, ov, input, switcherVars>>
OtherUngrabs == keyboard = "other" /\ keyboard' = "free" /\ UNCHANGED <<tree, ov, input, switcherVars>>

SwitcherInit == sw = Shut /\ held = FALSE /\ release = FALSE /\ missed = FALSE

SwitcherSteps ==
  \/ FlagsFit /\ (SwitcherKey \/ SwitcherKeyRelease)
  \/ \E dir \in {-1, 1} : SwitcherStep(dir) \/ SwitcherAsk(dir)
  \/ SwitcherGrab \/ SwitcherAbort
  \/ PressModifier \/ ReleaseModifier \/ OtherGrabs \/ OtherUngrabs

OverviewSteps ==
  /\ Ready /\ FlagsFit /\ UNCHANGED switcherVars
  /\ \/ OverviewCommand
     \/ Tick
     \/ sw.state # "open" /\ OverviewKey
     \/ OverviewPointer

(* floaters: the windows whose hints or rules let them float.                *)
TreeSteps(floaters) ==
  /\ Ready /\ FlagsFit
  /\ \/ \E w \in Win : OpenWindow(w, w \in floaters) \/ CloseWindow(w) \/ FocusWindow(w)
     \/ \E s \in Desks : GoDesk(s)
  /\ ov' = Clear(ov, tree')
  /\ UNCHANGED <<keyboard, input, switcherVars>>

------------------------------------------------------------------------------

(* With neither the overview nor the switcher open, i3 holds neither the     *)
(* keyboard nor the input focus, in whatever order the two were opened and   *)
(* closed (overview.c:1817, switcher.c:297).                                 *)
NothingLeftHeld ==
  ~ov.active /\ sw.state = "closed" => keyboard \in {"free", "other"} /\ input = "window"

(* "Hold the modifier ... release to commit" (README.md:330): a switcher     *)
(* that was opened with a modifier held is not left open without it, unless  *)
(* it was released between the two requests of switcher_open() or another    *)
(* has the keyboard (the overview, which opens over the switcher, may).      *)
ReleaseCommits ==
  sw.state = "open" /\ keyboard = "switcher" /\ sw.hold /\ ~release => held \/ missed

(* The two overlays and other clients take the keyboard from each other, and *)
(* neither is left holding it, nor the switcher open without its modifier.   *)
SwitcherSound == NothingLeftHeld /\ ReleaseCommits
=============================================================================
