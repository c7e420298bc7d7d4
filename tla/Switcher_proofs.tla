---------------------------- MODULE Switcher_proofs ----------------------------
(***************************************************************************)
(* Who has the keyboard and the input focus, with the overview and the      *)
(* switcher both in use, for any windows and workspaces.  What the steps do *)
(* to the tree does not matter here: the theorem holds with floating        *)
(* windows and with every step of the overview.  And the images both of     *)
(* them draw: who owns which pixmap, for any frames.                        *)
(***************************************************************************)
EXTENDS Switcher, Capture, FoldLemmas, SequenceTheorems, TLAPS

CONSTANT Floaters

SwitcherNext == SwitcherSteps \/ OverviewSteps \/ TreeSteps(Floaters)
SwitcherSpec == WindowListInit /\ OverviewInit /\ SwitcherInit /\ [][SwitcherNext]_switcherAll

-----------------------------------------------------------------------------
(* The overview's state, of which three fields matter *)

Fields == {"active", "exiting", "frames", "timer", "thumbs", "selected", "drag", "dragged",
           "filter", "grabbed", "stolen"}
IsOverview(o) == DOMAIN o = Fields /\ o = [x \in Fields |-> o[x]]
SameHold(o, p) == /\ IsOverview(p)
                  /\ p.active = o.active /\ p.grabbed = o.grabbed /\ p.stolen = o.stolen

LEMMA ClosedIsOverview == IsOverview(Closed) /\ ~Closed.active /\ ~Closed.grabbed /\ ~Closed.stolen
  BY DEF IsOverview, Closed, Fields

LEMMA HelpersHold ==
    ASSUME NEW o, IsOverview(o), NEW t, NEW x, NEW y
    PROVE  /\ SameHold(o, DragReset(o)) /\ SameHold(o, Leave(o)) /\ SameHold(o, Clear(o, t))
           /\ SameHold(o, Rebuild(o, t, x)) /\ SameHold(o, Select(o, x)) /\ SameHold(o, StepTo(o, x))
           /\ SameHold(o, StepMatch(o, t, x)) /\ SameHold(o, Refilter(o, t))
           /\ SameHold(o, [o EXCEPT !.selected = x]) /\ SameHold(o, [o EXCEPT !.filter = x])
           /\ SameHold(o, [o EXCEPT !.exiting = x]) /\ SameHold(o, [o EXCEPT !.drag = x, !.dragged = y])
           /\ SameHold(o, [o EXCEPT !.frames = x, !.timer = y])
<1>1. SameHold(o, DragReset(o)) /\ SameHold(o, Leave(o)) /\ SameHold(o, Clear(o, t))
  BY DEF SameHold, IsOverview, Fields, DragReset, Leave, Clear
<1>2. SameHold(o, o)
  BY DEF SameHold
<1>3. \A z : SameHold(o, [o EXCEPT !.selected = z])
  BY DEF SameHold, IsOverview, Fields
<1>4. \A z : SameHold(o, Select(o, z))
  BY <1>2, <1>3 DEF Select
<1>5. SameHold(o, StepTo(o, x)) /\ SameHold(o, StepMatch(o, t, x)) /\ SameHold(o, Refilter(o, t))
  BY <1>2, <1>4, Zenon DEF StepTo, StepMatch, Refilter
<1>6. SameHold(o, Rebuild(o, t, x))
  <2>1. \A c, z : SameHold(o, [o EXCEPT !.thumbs = c, !.selected = z])
    BY DEF SameHold, IsOverview, Fields
  <2>2. QED
    BY <2>1, Zenon DEF Rebuild
<1>7. /\ SameHold(o, [o EXCEPT !.filter = x]) /\ SameHold(o, [o EXCEPT !.exiting = x])
      /\ SameHold(o, [o EXCEPT !.drag = x, !.dragged = y])
      /\ SameHold(o, [o EXCEPT !.frames = x, !.timer = y])
  BY DEF SameHold, IsOverview, Fields
<1>8. QED
  BY <1>1, <1>3, <1>4, <1>5, <1>6, <1>7

-----------------------------------------------------------------------------
(* The invariant *)

IsSwitcher(s) ==
    /\ DOMAIN s = DOMAIN Shut /\ s = [x \in DOMAIN Shut |-> s[x]]
    /\ s.state \in {"closed", "opening", "open"}

\* Who has the keyboard or the input focus is open and knows that it has.
HoldersKnow ==
    /\ keyboard \in {"free", "overview", "switcher", "other"} /\ input \in {"window", "overlay"}
    /\ keyboard = "overview" => ov.active /\ ov.grabbed
    /\ keyboard = "switcher" => sw.state = "open" /\ sw.grabbed
    /\ input = "overlay" => ov.active /\ ov.stolen

\* While the switcher asks the server, the user holds the modifier or has been missed.
HeldOrMissed == sw.state = "opening" /\ sw.hold => held \/ missed

SwitcherInv ==
    /\ IsOverview(ov) /\ IsSwitcher(sw)
    /\ HoldersKnow /\ HeldOrMissed /\ ReleaseCommits

LEMMA SwitcherInitOK == ASSUME OverviewInit, SwitcherInit PROVE SwitcherInv
  BY ClosedIsOverview DEF OverviewInit, SwitcherInit, SwitcherInv, IsSwitcher, Shut, HoldersKnow,
                          HeldOrMissed, ReleaseCommits

-----------------------------------------------------------------------------
(* The overview *)

\* What most steps do: the overview keeps what it holds, and the server too.
Keeps == SameHold(ov, ov') /\ UNCHANGED <<keyboard, input>>

LEMMA KeepsOK == ASSUME SwitcherInv, Keeps, UNCHANGED switcherVars PROVE SwitcherInv'
  BY DEF SwitcherInv, Keeps, SameHold, HoldersKnow, HeldOrMissed, ReleaseCommits, switcherVars

LEMMA SameHoldSteps ==
    ASSUME NEW o, NEW p, NEW q, SameHold(o, p), SameHold(p, q)
    PROVE  SameHold(o, q)
  BY DEF SameHold

LEMMA AnimateHolds == ASSUME NEW o, IsOverview(o), Animate(o) PROVE SameHold(o, ov')
<1>1. PICK f \in 0 .. MaxFrames : ov' = [o EXCEPT !.frames = f, !.timer = TRUE]
  BY DEF Animate
<1>2. QED
  BY <1>1, HelpersHold

LEMMA LeaveHolds == ASSUME NEW o, IsOverview(o), Animate(Leave(o)) PROVE SameHold(o, ov')
<1>1. SameHold(o, Leave(o)) /\ IsOverview(Leave(o))
  BY HelpersHold DEF SameHold
<1>2. QED
  BY <1>1, AnimateHolds, SameHoldSteps

LEMMA GoToHolds == ASSUME NEW o, IsOverview(o), NEW t, NEW s, NEW w, GoTo(o, t, s, w) PROVE SameHold(o, ov')
<1>1. PICK seen : SameHold(o, seen) /\ Animate(Leave(Clear(seen, tree')))
  <2>1. SameHold(o, o) /\ \A i : SameHold(o, [o EXCEPT !.selected = i])
    BY HelpersHold DEF SameHold
  <2>2. QED
    BY <2>1, Zenon DEF GoTo
<1>2. SameHold(o, Clear(seen, tree')) /\ IsOverview(Clear(seen, tree'))
  <2>1. IsOverview(seen)
    BY <1>1 DEF SameHold
  <2>2. SameHold(seen, Clear(seen, tree'))
    BY <2>1, HelpersHold
  <2>3. QED
    BY <1>1, <2>2, SameHoldSteps DEF SameHold
<1>3. QED
  BY <1>1, <1>2, LeaveHolds, SameHoldSteps

LEMMA OpenSelectedHolds == ASSUME NEW o, IsOverview(o), OpenSelected(o) PROVE SameHold(o, ov')
<1>1. PICK p, t, s : SameHold(o, p) /\ GoTo(p, t, s, NoWin)
  <2>1. SameHold(o, o)
    BY DEF SameHold
  <2>2. \A t, s : SameHold(o, Rebuild(o, t, s))
    BY HelpersHold
  <2>3. QED
    BY <2>1, <2>2, Zenon DEF OpenSelected
<1>2. QED
  BY <1>1, GoToHolds, SameHoldSteps DEF SameHold

LEMMA DropHolds == ASSUME IsOverview(ov), NEW i, Drop(i) PROVE SameHold(ov, ov')
<1>1. SameHold(ov, DragReset(ov)) /\ IsOverview(DragReset(ov))
  BY HelpersHold DEF SameHold
<1>2. \A t, s : SameHold(ov, Rebuild(DragReset(ov), t, s))
  BY <1>1, HelpersHold, SameHoldSteps
<1>3. QED
  BY <1>1, <1>2, Zenon DEF Drop

LEMMA EnterOK == ASSUME SwitcherInv, Enter, UNCHANGED switcherVars PROVE SwitcherInv'
<1>1. CASE /\ ov.active /\ ov.exiting
           /\ Animate([ov EXCEPT !.exiting = FALSE])
           /\ OverviewOnly
  <2>1. SameHold(ov, [ov EXCEPT !.exiting = FALSE]) /\ IsOverview([ov EXCEPT !.exiting = FALSE])
    BY HelpersHold DEF SwitcherInv, SameHold
  <2>2. SameHold(ov, ov')
    BY <1>1, <2>1, AnimateHolds, SameHoldSteps
  <2>3. QED
    BY <1>1, <2>2, KeepsOK DEF Keeps, OverviewOnly
<1>2. CASE ~ov.active
  <2>1. PICK here : Animate([Rebuild(Closed, tree, here) EXCEPT !.active = TRUE,
                     !.grabbed = (keyboard # "other"), !.stolen = (keyboard = "other")])
    BY <1>2 DEF Enter
  <2>2. /\ keyboard' = IF keyboard = "other" THEN keyboard ELSE "overview"
        /\ input' = IF keyboard = "other" THEN "overlay" ELSE input
    BY <1>2 DEF Enter
  <2> DEFINE r == Rebuild(Closed, tree, here)
             o == [r EXCEPT !.active = TRUE, !.grabbed = (keyboard # "other"),
                            !.stolen = (keyboard = "other")]
  <2>3. IsOverview(r)
    BY ClosedIsOverview, HelpersHold DEF SameHold
  <2> HIDE DEF r
  <2>4. /\ IsOverview(o) /\ o.active = TRUE
        /\ o.grabbed = (keyboard # "other") /\ o.stolen = (keyboard = "other")
    BY <2>3 DEF IsOverview, Fields
  <2>5. Animate(o)
    BY <2>1 DEF r
  <2> HIDE DEF o
  <2>6. SameHold(o, ov')
    BY <2>4, <2>5, AnimateHolds
  <2>7. IsOverview(ov') /\ ov'.active = TRUE
        /\ ov'.grabbed = (keyboard # "other") /\ ov'.stolen = (keyboard = "other")
    BY <2>4, <2>6 DEF SameHold
  <2>8. CASE keyboard = "other"
    <3>1. keyboard' = "other" /\ input' = "overlay" /\ ov'.active /\ ov'.stolen
      BY <2>2, <2>7, <2>8
    <3>2. QED
      BY <3>1, <2>7 DEF SwitcherInv, HoldersKnow, HeldOrMissed, ReleaseCommits, switcherVars
  <2>9. CASE keyboard # "other"
    <3>1. keyboard' = "overview" /\ input' = input /\ ov'.active /\ ov'.grabbed
      BY <2>2, <2>7, <2>9
    <3>2. input # "overlay"
      BY <1>2 DEF SwitcherInv, HoldersKnow
    <3>3. QED
      BY <3>1, <3>2, <2>7 DEF SwitcherInv, HoldersKnow, HeldOrMissed, ReleaseCommits, switcherVars
  <2>10. QED
    BY <2>8, <2>9
<1>3. QED
  BY <1>1, <1>2 DEF Enter

LEMMA DestroyOK == ASSUME SwitcherInv, Destroy, UNCHANGED switcherVars PROVE SwitcherInv'
  BY ClosedIsOverview DEF SwitcherInv, Destroy, Release, HoldersKnow, HeldOrMissed, ReleaseCommits,
                          switcherVars

LEMMA TickOK == ASSUME SwitcherInv, Tick, UNCHANGED switcherVars PROVE SwitcherInv'
<1>1. CASE Destroy
  BY <1>1, DestroyOK
<1>2. CASE ov' = [ov EXCEPT !.frames = IF @ = 0 THEN 0 ELSE @ - 1] /\ OverviewOnly
  <2>1. SameHold(ov, ov')
    BY <1>2 DEF SwitcherInv, SameHold, IsOverview, Fields
  <2>2. QED
    BY <1>2, <2>1, KeepsOK DEF Keeps, OverviewOnly
<1>3. QED
  BY <1>1, <1>2, Zenon DEF Tick

LEMMA CommandOK == ASSUME SwitcherInv, OverviewCommand, UNCHANGED switcherVars PROVE SwitcherInv'
<1>1. IsOverview(ov)
  BY DEF SwitcherInv
<1>2. CASE Exit
  BY <1>1, <1>2, LeaveHolds, KeepsOK DEF Exit, Keeps, OverviewOnly
<1>3. CASE Enter
  BY <1>3, EnterOK
<1>4. CASE OverviewSelect
  BY <1>1, <1>4, OpenSelectedHolds, KeepsOK DEF OverviewSelect, Keeps, OverviewOnly
<1>5. ASSUME NEW dir, Navigate(dir) PROVE SwitcherInv'
  <2>1. SameHold(ov, StepTo(ov, dir))
    BY <1>1, HelpersHold
  <2>2. QED
    BY <1>5, <2>1, KeepsOK DEF Navigate, Keeps, OverviewOnly
<1>6. QED
  BY <1>2, <1>3, <1>4, <1>5 DEF OverviewCommand, Toggle

LEMMA KeyOK == ASSUME SwitcherInv, OverviewKey, UNCHANGED switcherVars PROVE SwitcherInv'
<1>1. IsOverview(ov)
  BY DEF SwitcherInv
<1>2. SameHold(ov, ov') => SwitcherInv'
  BY KeepsOK DEF OverviewKey, OverviewOnly, Keeps
<1>3. ASSUME KeyEscape PROVE SameHold(ov, ov')
  <2>1. SameHold(ov, [ov EXCEPT !.filter = <<>>])
    BY <1>1, HelpersHold
  <2>2. QED
    BY <1>1, <1>3, <2>1, LeaveHolds DEF KeyEscape
<1>a. SameHold(ov, ov)
  BY <1>1 DEF SameHold
<1>b. ASSUME NEW q PROVE SameHold(ov, Refilter([ov EXCEPT !.filter = q], tree))
  <2>1. SameHold(ov, [ov EXCEPT !.filter = q]) /\ IsOverview([ov EXCEPT !.filter = q])
    BY <1>1, HelpersHold, Zenon DEF SameHold
  <2>2. SameHold([ov EXCEPT !.filter = q], Refilter([ov EXCEPT !.filter = q], tree))
    BY <2>1, HelpersHold
  <2>3. QED
    BY <2>1, <2>2, SameHoldSteps
<1>4. ASSUME KeyBackSpace PROVE SameHold(ov, ov')
  BY <1>a, <1>b, <1>4, Zenon DEF KeyBackSpace
<1>5. ASSUME KeyReturn PROVE SameHold(ov, ov')
  BY <1>1, <1>5, OpenSelectedHolds DEF KeyReturn
<1>6. ASSUME NEW dir, KeyArrow(dir) PROVE SameHold(ov, ov')
  <2>1. SameHold(ov, StepMatch(ov, tree, dir)) /\ SameHold(ov, StepTo(ov, dir))
    BY <1>1, HelpersHold
  <2>2. QED
    BY <1>6, <2>1, Zenon DEF KeyArrow
<1>7. ASSUME NEW c, KeyType(c) PROVE SameHold(ov, ov')
  BY <1>a, <1>b, <1>7, Zenon DEF KeyType
<1>c. ASSUME NEW i, KeyHomeEnd(i) PROVE SameHold(ov, ov')
  BY <1>1, <1>c, HelpersHold DEF KeyHomeEnd
<1>8. ASSUME NEW i, KeyDigit(i) PROVE SameHold(ov, ov')
  <2>1. SameHold(ov, [ov EXCEPT !.selected = i]) /\ IsOverview([ov EXCEPT !.selected = i])
    BY <1>1, HelpersHold, Zenon DEF SameHold
  <2>2. OpenSelected([ov EXCEPT !.selected = i])
    BY <1>8 DEF KeyDigit
  <2>3. QED
    BY <2>1, <2>2, OpenSelectedHolds, SameHoldSteps
<1>9. QED
  BY <1>2, <1>3, <1>4, <1>5, <1>6, <1>7, <1>c, <1>8, Zenon DEF OverviewKey

LEMMA PointerOK == ASSUME SwitcherInv, OverviewPointer, UNCHANGED switcherVars PROVE SwitcherInv'
<1>1. IsOverview(ov)
  BY DEF SwitcherInv
<1>2. SameHold(ov, ov') => SwitcherInv'
  BY KeepsOK DEF OverviewPointer, OverviewOnly, Keeps
<1>3. SameHold(ov, DragReset(ov)) /\ IsOverview(DragReset(ov))
  BY <1>1, HelpersHold DEF SameHold
<1>4. ASSUME NEW i, NEW w, Press(i, w) PROVE SameHold(ov, ov')
  <2>1. SameHold(ov, [ov EXCEPT !.drag = "pending", !.dragged = w])
    BY <1>1, HelpersHold
  <2>2. QED
    BY <1>3, <1>4, <2>1, Zenon DEF Press
<1>5. ASSUME Motion PROVE SameHold(ov, ov')
  <2>1. SameHold(ov, [ov EXCEPT !.drag = "yes"])
    BY <1>1 DEF SameHold, IsOverview, Fields
  <2>2. QED
    BY <1>3, <1>5, <2>1, Zenon DEF Motion
<1>6. ASSUME NEW i, ButtonRelease(i) PROVE SameHold(ov, ov')
  <2>1. CASE ov.drag = "yes"
    BY <1>1, <1>6, <2>1, DropHolds DEF ButtonRelease
  <2>2. CASE ov.drag = "pending" /\ ov.dragged \in Opened(tree)
    <3>1. GoTo(DragReset(ov), tree, HomeOf(tree, ov.dragged), ov.dragged)
      BY <1>6, <2>2 DEF ButtonRelease
    <3>2. QED
      BY <1>3, <3>1, GoToHolds, SameHoldSteps
  <2>3. CASE ov.drag = "pending" /\ ov.dragged \notin Opened(tree)
    BY <1>3, <1>6, <2>3 DEF ButtonRelease
  <2>4. CASE ov.drag \notin {"yes", "pending"}
    <3>1. Animate(Leave(ov)) \/ OpenSelected([ov EXCEPT !.selected = i])
      BY <1>6, <2>4 DEF ButtonRelease
    <3>2. SameHold(ov, [ov EXCEPT !.selected = i]) /\ IsOverview([ov EXCEPT !.selected = i])
      BY <1>1, HelpersHold, Zenon DEF SameHold
    <3>3. QED
      BY <1>1, <3>1, <3>2, LeaveHolds, OpenSelectedHolds, SameHoldSteps
  <2>5. QED
    BY <2>1, <2>2, <2>3, <2>4
<1>7. ASSUME NEW dir, Wheel(dir) PROVE SameHold(ov, ov')
  BY <1>1, <1>7, HelpersHold DEF Wheel
<1>8. ASSUME CancelButton PROVE SameHold(ov, ov')
  BY <1>1, <1>8, LeaveHolds DEF CancelButton
<1>9. QED
  BY <1>2, <1>4, <1>5, <1>6, <1>7, <1>8 DEF OverviewPointer

-----------------------------------------------------------------------------
(* The switcher *)

LEMMA SwitcherFields ==
    ASSUME NEW s, IsSwitcher(s), NEW x, NEW y
    PROVE  /\ IsSwitcher([s EXCEPT !.selected = x])
           /\ [s EXCEPT !.selected = x].state = s.state
           /\ [s EXCEPT !.selected = x].hold = s.hold
           /\ [s EXCEPT !.selected = x].grabbed = s.grabbed
           /\ IsSwitcher([s EXCEPT !.state = "open", !.grabbed = y])
           /\ [s EXCEPT !.state = "open", !.grabbed = y].state = "open"
           /\ [s EXCEPT !.state = "open", !.grabbed = y].hold = s.hold
           /\ [s EXCEPT !.state = "open", !.grabbed = y].grabbed = y
  BY DEF IsSwitcher, Shut

LEMMA ShutIsSwitcher == IsSwitcher(Shut) /\ Shut.state = "closed"
  BY DEF IsSwitcher, Shut

LEMMA TurnOK ==
    ASSUME SwitcherInv, NEW x, sw' = [sw EXCEPT !.selected = x], SameHold(ov, ov'),
           UNCHANGED <<keyboard, input, held, release, missed>>
    PROVE  SwitcherInv'
<1>1. IsSwitcher(sw') /\ sw'.state = sw.state /\ sw'.hold = sw.hold /\ sw'.grabbed = sw.grabbed
  BY SwitcherFields DEF SwitcherInv
<1>2. QED
  BY <1>1 DEF SwitcherInv, SameHold, HoldersKnow, HeldOrMissed, ReleaseCommits

LEMMA TeardownOK ==
    ASSUME SwitcherInv, Teardown, SameHold(ov, ov'),
           UNCHANGED <<input, held, missed>>
    PROVE  SwitcherInv'
<1>1. IsSwitcher(sw') /\ sw'.state = "closed"
  BY ShutIsSwitcher DEF Teardown
<1>2. keyboard' \in {keyboard, "free"} /\ keyboard' # "switcher"
  <2>1. CASE sw.grabbed
    BY <2>1 DEF Teardown, Release, SwitcherInv, HoldersKnow
  <2>2. CASE ~sw.grabbed
    BY <2>2 DEF Teardown, SwitcherInv, HoldersKnow
  <2>3. QED
    BY <2>1, <2>2
<1>3. QED
  BY <1>1, <1>2 DEF SwitcherInv, SameHold, HoldersKnow, HeldOrMissed, ReleaseCommits

LEMMA SwitcherStepsOK == ASSUME SwitcherInv, SwitcherSteps PROVE SwitcherInv'
<1>1. \A t : SameHold(ov, Clear(ov, t))
  BY HelpersHold DEF SwitcherInv
<1>2. SameHold(ov, ov)
  BY DEF SwitcherInv, SameHold
<1>3. ASSUME NEW dir, SwitcherStep(dir) PROVE SwitcherInv'
  BY <1>2, <1>3, TurnOK DEF SwitcherStep
<1>4. ASSUME NEW dir, SwitcherAsk(dir) PROVE SwitcherInv'
  <2>1. PICK items, n : sw' = [Shut EXCEPT !.state = "opening", !.items = items, !.hold = held,
                                           !.selected = n]
    BY <1>4, Zenon DEF SwitcherAsk
  <2>2. IsSwitcher(sw') /\ sw'.state = "opening" /\ sw'.hold = held
    BY <2>1 DEF IsSwitcher, Shut
  <2>3. QED
    BY <1>4, <2>2 DEF SwitcherAsk, SwitcherInv, HoldersKnow, HeldOrMissed, ReleaseCommits
<1>5. CASE SwitcherGrab
  <2>1. /\ IsSwitcher(sw') /\ sw'.state = "open" /\ sw'.hold = sw.hold
        /\ sw'.grabbed = (keyboard # "other")
    BY <1>5, SwitcherFields, ZenonT(60) DEF SwitcherGrab, SwitcherInv
  <2>2. sw.hold => held \/ missed
    BY <1>5 DEF SwitcherGrab, SwitcherInv, HeldOrMissed
  <2>3. CASE keyboard = "other"
    BY <1>5, <2>1, <2>3 DEF SwitcherGrab, SwitcherInv, HoldersKnow, HeldOrMissed, ReleaseCommits
  <2>4. CASE keyboard # "other"
    BY <1>5, <2>1, <2>2, <2>4 DEF SwitcherGrab, SwitcherInv, HoldersKnow, HeldOrMissed, ReleaseCommits
  <2>5. QED
    BY <2>3, <2>4
<1>6. CASE SwitcherKey
  <2>1. SameHold(ov, ov')
    BY <1>1, <1>6 DEF SwitcherKey
  <2>2. CASE Teardown
    BY <1>6, <2>1, <2>2, TeardownOK DEF SwitcherKey
  <2>3. CASE /\ \E dir \in {-1, 1} : sw' = [sw EXCEPT !.selected = Turn(@, dir, Len(sw.items))]
             /\ UNCHANGED keyboard
    BY <1>6, <2>1, <2>3, TurnOK DEF SwitcherKey
  <2>4. QED
    BY <1>6, <2>2, <2>3 DEF SwitcherKey, Commit
<1>7. CASE SwitcherKeyRelease
  <2>1. SameHold(ov, ov')
    BY <1>1, <1>7 DEF SwitcherKeyRelease
  <2>2. CASE Teardown
    BY <1>7, <2>1, <2>2, TeardownOK DEF SwitcherKeyRelease
  <2>3. CASE ~(sw.state = "open" /\ sw.hold /\ ~held) /\ UNCHANGED <<sw, keyboard>>
    BY <1>7, <2>1, <2>3 DEF SwitcherKeyRelease, SwitcherInv, SameHold, HoldersKnow, HeldOrMissed,
                            ReleaseCommits
  <2>4. QED
    BY <1>7, <2>2, <2>3 DEF SwitcherKeyRelease, Commit
<1>8. CASE SwitcherAbort
  BY <1>2, <1>8, TeardownOK DEF SwitcherAbort
<1>9. CASE PressModifier
  BY <1>9 DEF PressModifier, SwitcherInv, HoldersKnow, HeldOrMissed, ReleaseCommits
<1>10. CASE ReleaseModifier
  <2>1. sw.state = "opening" => missed'
    BY <1>10, Zenon DEF ReleaseModifier
  <2>2. keyboard = "switcher" => release'
    BY <1>10 DEF ReleaseModifier
  <2>3. QED
    BY <1>10, <2>1, <2>2 DEF ReleaseModifier, SwitcherInv, HoldersKnow, HeldOrMissed, ReleaseCommits
<1>11. CASE OtherGrabs \/ OtherUngrabs
  BY <1>11 DEF OtherGrabs, OtherUngrabs, switcherVars, SwitcherInv, HoldersKnow, HeldOrMissed,
               ReleaseCommits
<1>12. QED
  BY <1>3, <1>4, <1>5, <1>6, <1>7, <1>8, <1>9, <1>10, <1>11 DEF SwitcherSteps

-----------------------------------------------------------------------------

LEMMA SwitcherInvNext == SwitcherInv /\ [SwitcherNext]_switcherAll => SwitcherInv'
<1> SUFFICES ASSUME SwitcherInv, [SwitcherNext]_switcherAll PROVE SwitcherInv'
  OBVIOUS
<1>1. SameHold(ov, ov)
  BY DEF SwitcherInv, SameHold
<1>2. CASE OverviewSteps
  BY <1>2, CommandOK, TickOK, KeyOK, PointerOK DEF OverviewSteps
<1>3. CASE TreeSteps(Floaters)
  <2>1. SameHold(ov, Clear(ov, tree'))
    BY HelpersHold DEF SwitcherInv
  <2>2. QED
    BY <1>3, <2>1, KeepsOK DEF TreeSteps, Keeps
<1>4. CASE UNCHANGED switcherAll
  BY <1>1, <1>4, KeepsOK DEF switcherAll, switcherVars, Keeps
<1>5. QED
  BY <1>2, <1>3, <1>4, SwitcherStepsOK DEF SwitcherNext

(* What overview_destroy() (overview.c:1818) and sw_teardown()               *)
(* (switcher.c:296) undo: for any windows, workspaces and clients that grab  *)
(* the keyboard, neither overlay leaves the keyboard or the input focus      *)
(* taken behind it, and no switcher stays open without its modifier.         *)
THEOREM OverlaysLetGo == SwitcherSpec => []SwitcherSound
<1>1. WindowListInit /\ OverviewInit /\ SwitcherInit => SwitcherInv
  BY SwitcherInitOK
<1>2. SwitcherInv /\ [SwitcherNext]_switcherAll => SwitcherInv'
  BY SwitcherInvNext
<1>3. SwitcherInv => SwitcherSound
  BY DEF SwitcherInv, HoldersKnow, SwitcherSound, NothingLeftHeld
<1>4. QED
  BY <1>1, <1>2, <1>3, PTL DEF SwitcherSpec

-----------------------------------------------------------------------------
(* The images of windows: folds over the frames and over a list of layers,    *)
(* step by step                                                              *)

LEMMA CostIs == \A l : Cost(l) \in {0, 1}
  BY DEF Cost

\* Held()
LEMMA HeldFold ==
    ASSUME NEW A, NEW D, 0 \in A, NEW q \in Seq(D), \A a \in A, e \in D : a + Cost(e) \in A
    PROVE  \E it \in [0 .. Len(q) -> A] :
              /\ it[0] = 0 /\ Held(q) = it[Len(q)]
              /\ \A k \in 1 .. Len(q) : it[k] = it[k - 1] + Cost(q[k])
<1> DEFINE n == Len(q)
           F == [p \in A \X D |-> p[1] + Cost(p[2])]
           Is(iter) == iter = [s \in SUBSET (1 .. n) |->
                                 IF s = {} THEN 0 ELSE iter[s \ {Max(s)}] + Cost(q[Max(s)])]
<1>1. n \in Nat /\ DOMAIN q = 1 .. n /\ F \in [A \X D -> A]
  OBVIOUS
<1>2. PICK g \in [SUBSET (1 .. Len(q)) -> A] : Folds(g, F, 0, q, Len(q))
  <2> HIDE DEF n, F
  <2>1. QED
    BY <1>1, FoldExists
<1>3. ASSUME NEW s \in SUBSET (1 .. n), s # {}
      PROVE  g[s] = g[s \ {Max(s)}] + Cost(q[Max(s)])
  <2>1. Max(s) \in 1 .. n /\ s \ {Max(s)} \in SUBSET (1 .. n)
    BY <1>1, <1>3, MaxOfSet
  <2>2. g[s \ {Max(s)}] \in A /\ q[Max(s)] \in D
    BY <1>1, <1>2, <2>1
  <2>3. g[s] = F[g[s \ {Max(s)}], q[Max(s)]]
    <3> HIDE DEF F
    <3>1. QED
      BY <1>2, <1>3, Zenon DEF Folds
  <2>4. QED
    BY <2>2, <2>3
<1>4. Is(g)
  <2> HIDE DEF F
  <2>1. g[{}] = 0 /\ {} \in SUBSET (1 .. n) /\ g = [s \in SUBSET (1 .. n) |-> g[s]]
    BY <1>2 DEF Folds
  <2>2. QED
    BY <1>3, <2>1, Zenon
<1> DEFINE h == CHOOSE iter : Is(iter)
<1>5. Is(h)
  <2> HIDE DEF Is
  <2>1. QED
    BY <1>4
<1>6. Held(q) = h[1 .. n]
  BY <1>1 DEF Held, FoldLeft, MapThenFoldSet
<1> HIDE DEF h, F
<1>7. h[1 .. 0] = 0
  <2>1. 1 .. 0 = {} /\ {} \in SUBSET (1 .. n)
    OBVIOUS
  <2>2. QED
    BY <1>5, <2>1
<1>8. ASSUME NEW k \in 1 .. n PROVE h[1 .. k] = h[1 .. k - 1] + Cost(q[k])
  <2>1. 1 .. k # {} /\ Max(1 .. k) = k /\ (1 .. k) \ {k} = 1 .. k - 1 /\ 1 .. k \in SUBSET (1 .. n)
    BY MaxOfInterval, <1>1
  <2>2. QED
    BY <1>5, <2>1
<1>9. \A k \in 0 .. n : h[1 .. k] \in A
  <2> DEFINE S == {k \in 0 .. n : h[1 .. k] \in A}
  <2>1. 0 \in S
    BY <1>1, <1>7
  <2>2. ASSUME NEW k \in 1 .. n, k - 1 \in S PROVE k \in S
    BY <1>1, <1>8, <2>2
  <2> HIDE DEF S
  <2>3. \A k \in 0 .. n : k \in S
    BY <1>1, <2>1, <2>2, UpTo
  <2>4. QED
    BY <2>3 DEF S
<1>10. QED
  <2> DEFINE it == [k \in 0 .. n |-> h[1 .. k]]
  <2>1. it \in [0 .. n -> A] /\ it[0] = 0 /\ it[n] = h[1 .. n]
    BY <1>1, <1>7, <1>9
  <2>2. \A k \in 1 .. n : it[k - 1] = h[1 .. k - 1] /\ it[k] = h[1 .. k]
    BY <1>1
  <2> HIDE DEF it
  <2>3. \A k \in 1 .. n : it[k] = it[k - 1] + Cost(q[k])
    BY <1>8, <2>2
  <2>4. QED
    BY <1>6, <2>1, <2>3

LEMMA HeldIs ==
    ASSUME NEW D, NEW q \in Seq(D)
    PROVE  \E it \in [0 .. Len(q) -> Int] :
              /\ it[0] = 0 /\ Held(q) = it[Len(q)]
              /\ \A k \in 1 .. Len(q) : it[k] = it[k - 1] + Cost(q[k])
<1> DEFINE A == Int
<1>1. 0 \in A /\ \A a \in A, e \in D : a + Cost(e) \in A
  BY CostIs
<1> HIDE DEF A
<1>2. \E it \in [0 .. Len(q) -> A] :
         /\ it[0] = 0 /\ Held(q) = it[Len(q)]
         /\ \A k \in 1 .. Len(q) : it[k] = it[k - 1] + Cost(q[k])
  BY <1>1, HeldFold
<1>3. QED
  BY <1>2 DEF A

\* CollectMapped(), StoreStale(), Copies(), NameTree()
LEMMA CollectFold ==
    ASSUME NEW A, NEW D, NEW base \in A, Frames \in Seq(D), \A a \in A, e \in D : CollectOne(a, e) \in A
    PROVE  \E it \in [0 .. Len(Frames) -> A] :
              /\ it[0] = base /\ CollectMapped(base) = it[Len(Frames)]
              /\ \A k \in 1 .. Len(Frames) : it[k] = CollectOne(it[k - 1], Frames[k])
<1> DEFINE n == Len(Frames)
           F == [p \in A \X D |-> CollectOne(p[1], p[2])]
           Is(iter) == iter = [s \in SUBSET (1 .. n) |->
                                 IF s = {} THEN base ELSE CollectOne(iter[s \ {Max(s)}], Frames[Max(s)])]
<1>1. n \in Nat /\ DOMAIN Frames = 1 .. n /\ F \in [A \X D -> A]
  OBVIOUS
<1>2. PICK g \in [SUBSET (1 .. Len(Frames)) -> A] : Folds(g, F, base, Frames, Len(Frames))
  <2> HIDE DEF n, F
  <2>1. QED
    BY <1>1, FoldExists
<1>3. ASSUME NEW s \in SUBSET (1 .. n), s # {}
      PROVE  g[s] = CollectOne(g[s \ {Max(s)}], Frames[Max(s)])
  <2>1. Max(s) \in 1 .. n /\ s \ {Max(s)} \in SUBSET (1 .. n)
    BY <1>1, <1>3, MaxOfSet
  <2>2. g[s \ {Max(s)}] \in A /\ Frames[Max(s)] \in D
    BY <1>1, <1>2, <2>1
  <2>3. g[s] = F[g[s \ {Max(s)}], Frames[Max(s)]]
    <3> HIDE DEF F
    <3>1. QED
      BY <1>2, <1>3, Zenon DEF Folds
  <2>4. QED
    BY <2>2, <2>3
<1>4. Is(g)
  <2> HIDE DEF F
  <2>1. g[{}] = base /\ {} \in SUBSET (1 .. n) /\ g = [s \in SUBSET (1 .. n) |-> g[s]]
    BY <1>2 DEF Folds
  <2>2. QED
    BY <1>3, <2>1, Zenon
<1> DEFINE h == CHOOSE iter : Is(iter)
<1>5. Is(h)
  <2> HIDE DEF Is
  <2>1. QED
    BY <1>4
<1>6. CollectMapped(base) = h[1 .. n]
  BY <1>1 DEF CollectMapped, FoldLeft, MapThenFoldSet
<1> HIDE DEF h, F
<1>7. h[1 .. 0] = base
  <2>1. 1 .. 0 = {} /\ {} \in SUBSET (1 .. n)
    OBVIOUS
  <2>2. QED
    BY <1>5, <2>1
<1>8. ASSUME NEW k \in 1 .. n PROVE h[1 .. k] = CollectOne(h[1 .. k - 1], Frames[k])
  <2>1. 1 .. k # {} /\ Max(1 .. k) = k /\ (1 .. k) \ {k} = 1 .. k - 1 /\ 1 .. k \in SUBSET (1 .. n)
    BY MaxOfInterval, <1>1
  <2>2. QED
    BY <1>5, <2>1
<1>9. \A k \in 0 .. n : h[1 .. k] \in A
  <2> DEFINE S == {k \in 0 .. n : h[1 .. k] \in A}
  <2>1. 0 \in S
    BY <1>1, <1>7
  <2>2. ASSUME NEW k \in 1 .. n, k - 1 \in S PROVE k \in S
    BY <1>1, <1>8, <2>2
  <2> HIDE DEF S
  <2>3. \A k \in 0 .. n : k \in S
    BY <1>1, <2>1, <2>2, UpTo
  <2>4. QED
    BY <2>3 DEF S
<1>10. QED
  <2> DEFINE it == [k \in 0 .. n |-> h[1 .. k]]
  <2>1. it \in [0 .. n -> A] /\ it[0] = base /\ it[n] = h[1 .. n]
    BY <1>1, <1>7, <1>9
  <2>2. \A k \in 1 .. n : it[k - 1] = h[1 .. k - 1] /\ it[k] = h[1 .. k]
    BY <1>1
  <2> HIDE DEF it
  <2>3. \A k \in 1 .. n : it[k] = CollectOne(it[k - 1], Frames[k])
    BY <1>8, <2>2
  <2>4. QED
    BY <1>6, <2>1, <2>3

LEMMA StoreFold ==
    ASSUME NEW A, NEW D, NEW base \in A, Frames \in Seq(D), \A a \in A, e \in D : StoreOne(a, e) \in A
    PROVE  \E it \in [0 .. Len(Frames) -> A] :
              /\ it[0] = base /\ StoreStale(base) = it[Len(Frames)]
              /\ \A k \in 1 .. Len(Frames) : it[k] = StoreOne(it[k - 1], Frames[k])
<1> DEFINE n == Len(Frames)
           F == [p \in A \X D |-> StoreOne(p[1], p[2])]
           Is(iter) == iter = [s \in SUBSET (1 .. n) |->
                                 IF s = {} THEN base ELSE StoreOne(iter[s \ {Max(s)}], Frames[Max(s)])]
<1>1. n \in Nat /\ DOMAIN Frames = 1 .. n /\ F \in [A \X D -> A]
  OBVIOUS
<1>2. PICK g \in [SUBSET (1 .. Len(Frames)) -> A] : Folds(g, F, base, Frames, Len(Frames))
  <2> HIDE DEF n, F
  <2>1. QED
    BY <1>1, FoldExists
<1>3. ASSUME NEW s \in SUBSET (1 .. n), s # {}
      PROVE  g[s] = StoreOne(g[s \ {Max(s)}], Frames[Max(s)])
  <2>1. Max(s) \in 1 .. n /\ s \ {Max(s)} \in SUBSET (1 .. n)
    BY <1>1, <1>3, MaxOfSet
  <2>2. g[s \ {Max(s)}] \in A /\ Frames[Max(s)] \in D
    BY <1>1, <1>2, <2>1
  <2>3. g[s] = F[g[s \ {Max(s)}], Frames[Max(s)]]
    <3> HIDE DEF F
    <3>1. QED
      BY <1>2, <1>3, Zenon DEF Folds
  <2>4. QED
    BY <2>2, <2>3
<1>4. Is(g)
  <2> HIDE DEF F
  <2>1. g[{}] = base /\ {} \in SUBSET (1 .. n) /\ g = [s \in SUBSET (1 .. n) |-> g[s]]
    BY <1>2 DEF Folds
  <2>2. QED
    BY <1>3, <2>1, Zenon
<1> DEFINE h == CHOOSE iter : Is(iter)
<1>5. Is(h)
  <2> HIDE DEF Is
  <2>1. QED
    BY <1>4
<1>6. StoreStale(base) = h[1 .. n]
  BY <1>1 DEF StoreStale, FoldLeft, MapThenFoldSet
<1> HIDE DEF h, F
<1>7. h[1 .. 0] = base
  <2>1. 1 .. 0 = {} /\ {} \in SUBSET (1 .. n)
    OBVIOUS
  <2>2. QED
    BY <1>5, <2>1
<1>8. ASSUME NEW k \in 1 .. n PROVE h[1 .. k] = StoreOne(h[1 .. k - 1], Frames[k])
  <2>1. 1 .. k # {} /\ Max(1 .. k) = k /\ (1 .. k) \ {k} = 1 .. k - 1 /\ 1 .. k \in SUBSET (1 .. n)
    BY MaxOfInterval, <1>1
  <2>2. QED
    BY <1>5, <2>1
<1>9. \A k \in 0 .. n : h[1 .. k] \in A
  <2> DEFINE S == {k \in 0 .. n : h[1 .. k] \in A}
  <2>1. 0 \in S
    BY <1>1, <1>7
  <2>2. ASSUME NEW k \in 1 .. n, k - 1 \in S PROVE k \in S
    BY <1>1, <1>8, <2>2
  <2> HIDE DEF S
  <2>3. \A k \in 0 .. n : k \in S
    BY <1>1, <2>1, <2>2, UpTo
  <2>4. QED
    BY <2>3 DEF S
<1>10. QED
  <2> DEFINE it == [k \in 0 .. n |-> h[1 .. k]]
  <2>1. it \in [0 .. n -> A] /\ it[0] = base /\ it[n] = h[1 .. n]
    BY <1>1, <1>7, <1>9
  <2>2. \A k \in 1 .. n : it[k - 1] = h[1 .. k - 1] /\ it[k] = h[1 .. k]
    BY <1>1
  <2> HIDE DEF it
  <2>3. \A k \in 1 .. n : it[k] = StoreOne(it[k - 1], Frames[k])
    BY <1>8, <2>2
  <2>4. QED
    BY <1>6, <2>1, <2>3

LEMMA CopyFold ==
    ASSUME NEW stale, NEW d, NEW A, NEW D, NEW base \in A, Frames \in Seq(D), \A a \in A, e \in D : CopyOne(stale, d, a, e) \in A
    PROVE  \E it \in [0 .. Len(Frames) -> A] :
              /\ it[0] = base /\ Copies(stale, base, d) = it[Len(Frames)]
              /\ \A k \in 1 .. Len(Frames) : it[k] = CopyOne(stale, d, it[k - 1], Frames[k])
<1> DEFINE n == Len(Frames)
           F == [p \in A \X D |-> CopyOne(stale, d, p[1], p[2])]
           Is(iter) == iter = [s \in SUBSET (1 .. n) |->
                                 IF s = {} THEN base ELSE CopyOne(stale, d, iter[s \ {Max(s)}], Frames[Max(s)])]
<1>1. n \in Nat /\ DOMAIN Frames = 1 .. n /\ F \in [A \X D -> A]
  OBVIOUS
<1>2. PICK g \in [SUBSET (1 .. Len(Frames)) -> A] : Folds(g, F, base, Frames, Len(Frames))
  <2> HIDE DEF n, F
  <2>1. QED
    BY <1>1, FoldExists
<1>3. ASSUME NEW s \in SUBSET (1 .. n), s # {}
      PROVE  g[s] = CopyOne(stale, d, g[s \ {Max(s)}], Frames[Max(s)])
  <2>1. Max(s) \in 1 .. n /\ s \ {Max(s)} \in SUBSET (1 .. n)
    BY <1>1, <1>3, MaxOfSet
  <2>2. g[s \ {Max(s)}] \in A /\ Frames[Max(s)] \in D
    BY <1>1, <1>2, <2>1
  <2>3. g[s] = F[g[s \ {Max(s)}], Frames[Max(s)]]
    <3> HIDE DEF F
    <3>1. QED
      BY <1>2, <1>3, Zenon DEF Folds
  <2>4. QED
    BY <2>2, <2>3
<1>4. Is(g)
  <2> HIDE DEF F
  <2>1. g[{}] = base /\ {} \in SUBSET (1 .. n) /\ g = [s \in SUBSET (1 .. n) |-> g[s]]
    BY <1>2 DEF Folds
  <2>2. QED
    BY <1>3, <2>1, Zenon
<1> DEFINE h == CHOOSE iter : Is(iter)
<1>5. Is(h)
  <2> HIDE DEF Is
  <2>1. QED
    BY <1>4
<1>6. Copies(stale, base, d) = h[1 .. n]
  BY <1>1 DEF Copies, FoldLeft, MapThenFoldSet
<1> HIDE DEF h, F
<1>7. h[1 .. 0] = base
  <2>1. 1 .. 0 = {} /\ {} \in SUBSET (1 .. n)
    OBVIOUS
  <2>2. QED
    BY <1>5, <2>1
<1>8. ASSUME NEW k \in 1 .. n PROVE h[1 .. k] = CopyOne(stale, d, h[1 .. k - 1], Frames[k])
  <2>1. 1 .. k # {} /\ Max(1 .. k) = k /\ (1 .. k) \ {k} = 1 .. k - 1 /\ 1 .. k \in SUBSET (1 .. n)
    BY MaxOfInterval, <1>1
  <2>2. QED
    BY <1>5, <2>1
<1>9. \A k \in 0 .. n : h[1 .. k] \in A
  <2> DEFINE S == {k \in 0 .. n : h[1 .. k] \in A}
  <2>1. 0 \in S
    BY <1>1, <1>7
  <2>2. ASSUME NEW k \in 1 .. n, k - 1 \in S PROVE k \in S
    BY <1>1, <1>8, <2>2
  <2> HIDE DEF S
  <2>3. \A k \in 0 .. n : k \in S
    BY <1>1, <2>1, <2>2, UpTo
  <2>4. QED
    BY <2>3 DEF S
<1>10. QED
  <2> DEFINE it == [k \in 0 .. n |-> h[1 .. k]]
  <2>1. it \in [0 .. n -> A] /\ it[0] = base /\ it[n] = h[1 .. n]
    BY <1>1, <1>7, <1>9
  <2>2. \A k \in 1 .. n : it[k - 1] = h[1 .. k - 1] /\ it[k] = h[1 .. k]
    BY <1>1
  <2> HIDE DEF it
  <2>3. \A k \in 1 .. n : it[k] = CopyOne(stale, d, it[k - 1], Frames[k])
    BY <1>8, <2>2
  <2>4. QED
    BY <1>6, <2>1, <2>3

LEMMA NameFold ==
    ASSUME NEW d, NEW force, NEW A, NEW D, NEW base \in A, Frames \in Seq(D), \A a \in A, e \in D : NameLive(d, force, a, e) \in A
    PROVE  \E it \in [0 .. Len(Frames) -> A] :
              /\ it[0] = base /\ NameTree(base, d, force) = it[Len(Frames)]
              /\ \A k \in 1 .. Len(Frames) : it[k] = NameLive(d, force, it[k - 1], Frames[k])
<1> DEFINE n == Len(Frames)
           F == [p \in A \X D |-> NameLive(d, force, p[1], p[2])]
           Is(iter) == iter = [s \in SUBSET (1 .. n) |->
                                 IF s = {} THEN base ELSE NameLive(d, force, iter[s \ {Max(s)}], Frames[Max(s)])]
<1>1. n \in Nat /\ DOMAIN Frames = 1 .. n /\ F \in [A \X D -> A]
  OBVIOUS
<1>2. PICK g \in [SUBSET (1 .. Len(Frames)) -> A] : Folds(g, F, base, Frames, Len(Frames))
  <2> HIDE DEF n, F
  <2>1. QED
    BY <1>1, FoldExists
<1>3. ASSUME NEW s \in SUBSET (1 .. n), s # {}
      PROVE  g[s] = NameLive(d, force, g[s \ {Max(s)}], Frames[Max(s)])
  <2>1. Max(s) \in 1 .. n /\ s \ {Max(s)} \in SUBSET (1 .. n)
    BY <1>1, <1>3, MaxOfSet
  <2>2. g[s \ {Max(s)}] \in A /\ Frames[Max(s)] \in D
    BY <1>1, <1>2, <2>1
  <2>3. g[s] = F[g[s \ {Max(s)}], Frames[Max(s)]]
    <3> HIDE DEF F
    <3>1. QED
      BY <1>2, <1>3, Zenon DEF Folds
  <2>4. QED
    BY <2>2, <2>3
<1>4. Is(g)
  <2> HIDE DEF F
  <2>1. g[{}] = base /\ {} \in SUBSET (1 .. n) /\ g = [s \in SUBSET (1 .. n) |-> g[s]]
    BY <1>2 DEF Folds
  <2>2. QED
    BY <1>3, <2>1, Zenon
<1> DEFINE h == CHOOSE iter : Is(iter)
<1>5. Is(h)
  <2> HIDE DEF Is
  <2>1. QED
    BY <1>4
<1>6. NameTree(base, d, force) = h[1 .. n]
  BY <1>1 DEF NameTree, FoldLeft, MapThenFoldSet
<1> HIDE DEF h, F
<1>7. h[1 .. 0] = base
  <2>1. 1 .. 0 = {} /\ {} \in SUBSET (1 .. n)
    OBVIOUS
  <2>2. QED
    BY <1>5, <2>1
<1>8. ASSUME NEW k \in 1 .. n PROVE h[1 .. k] = NameLive(d, force, h[1 .. k - 1], Frames[k])
  <2>1. 1 .. k # {} /\ Max(1 .. k) = k /\ (1 .. k) \ {k} = 1 .. k - 1 /\ 1 .. k \in SUBSET (1 .. n)
    BY MaxOfInterval, <1>1
  <2>2. QED
    BY <1>5, <2>1
<1>9. \A k \in 0 .. n : h[1 .. k] \in A
  <2> DEFINE S == {k \in 0 .. n : h[1 .. k] \in A}
  <2>1. 0 \in S
    BY <1>1, <1>7
  <2>2. ASSUME NEW k \in 1 .. n, k - 1 \in S PROVE k \in S
    BY <1>1, <1>8, <2>2
  <2> HIDE DEF S
  <2>3. \A k \in 0 .. n : k \in S
    BY <1>1, <2>1, <2>2, UpTo
  <2>4. QED
    BY <2>3 DEF S
<1>10. QED
  <2> DEFINE it == [k \in 0 .. n |-> h[1 .. k]]
  <2>1. it \in [0 .. n -> A] /\ it[0] = base /\ it[n] = h[1 .. n]
    BY <1>1, <1>7, <1>9
  <2>2. \A k \in 1 .. n : it[k - 1] = h[1 .. k - 1] /\ it[k] = h[1 .. k]
    BY <1>1
  <2> HIDE DEF it
  <2>3. \A k \in 1 .. n : it[k] = NameLive(d, force, it[k - 1], Frames[k])
    BY <1>8, <2>2
  <2>4. QED
    BY <1>6, <2>1, <2>3

\* Without()
StaysIn(gone, A, D) == \A a \in A, e \in D : WithoutOne(gone, a, e) \in A
RunOf(it, gone, m, A, q) ==
    /\ it \in [0 .. Len(q) -> A]
    /\ it[0] = Holding(<<>>, m) /\ Without(Holding(q, m), gone) = it[Len(q)]
    /\ \A k \in 1 .. Len(q) : it[k] = WithoutOne(gone, it[k - 1], q[k])

LEMMA WithoutFold ==
    ASSUME NEW gone, NEW m, NEW A, NEW D, Holding(<<>>, m) \in A, NEW q \in Seq(D), StaysIn(gone, A, D)
    PROVE  \E it : RunOf(it, gone, m, A, q)
<1>0. \A a \in A, e \in D : WithoutOne(gone, a, e) \in A
  BY DEF StaysIn
<1> DEFINE n == Len(q)
           F == [p \in A \X D |-> WithoutOne(gone, p[1], p[2])]
           Is(iter) == iter = [s \in SUBSET (1 .. n) |->
                                 IF s = {} THEN Holding(<<>>, m) ELSE WithoutOne(gone, iter[s \ {Max(s)}], q[Max(s)])]
<1>1. n \in Nat /\ DOMAIN q = 1 .. n /\ F \in [A \X D -> A]
  BY <1>0
<1>11. n \in Nat
  OBVIOUS
<1>2. PICK g \in [SUBSET (1 .. Len(q)) -> A] : Folds(g, F, Holding(<<>>, m), q, Len(q))
  <2> HIDE DEF n, F
  <2>1. QED
    BY <1>1, FoldExists
<1>3. ASSUME NEW s \in SUBSET (1 .. n), s # {}
      PROVE  g[s] = WithoutOne(gone, g[s \ {Max(s)}], q[Max(s)])
  <2>1. Max(s) \in 1 .. n /\ s \ {Max(s)} \in SUBSET (1 .. n)
    BY <1>1, <1>3, MaxOfSet
  <2>2. g[s \ {Max(s)}] \in A /\ q[Max(s)] \in D
    BY <1>1, <1>2, <2>1
  <2>3. g[s] = F[g[s \ {Max(s)}], q[Max(s)]]
    <3> HIDE DEF F
    <3>1. QED
      BY <1>2, <1>3, Zenon DEF Folds
  <2>4. QED
    BY <2>2, <2>3
<1>4. Is(g)
  <2> HIDE DEF F
  <2>1. g[{}] = Holding(<<>>, m) /\ {} \in SUBSET (1 .. n) /\ g = [s \in SUBSET (1 .. n) |-> g[s]]
    BY <1>2 DEF Folds
  <2>2. QED
    BY <1>3, <2>1, Zenon
<1> DEFINE h == CHOOSE iter : Is(iter)
<1>5. Is(h)
  <2> HIDE DEF Is
  <2>1. QED
    BY <1>4
<1>6. Without(Holding(q, m), gone) = h[1 .. n]
  BY <1>1 DEF Without, Holding, FoldLeft, MapThenFoldSet
<1> HIDE DEF h, F
<1>7. h[1 .. 0] = Holding(<<>>, m)
  <2>1. 1 .. 0 = {} /\ {} \in SUBSET (1 .. n)
    OBVIOUS
  <2>2. QED
    BY <1>5, <2>1
<1>8. ASSUME NEW k \in 1 .. n PROVE h[1 .. k] = WithoutOne(gone, h[1 .. k - 1], q[k])
  <2>1. 1 .. k # {} /\ Max(1 .. k) = k /\ (1 .. k) \ {k} = 1 .. k - 1 /\ 1 .. k \in SUBSET (1 .. n)
    BY MaxOfInterval, <1>11
  <2>2. QED
    BY <1>5, <2>1
<1>9. \A k \in 0 .. n : h[1 .. k] \in A
  <2> DEFINE S == {k \in 0 .. n : h[1 .. k] \in A}
  <2>1. 0 \in S
    BY <1>1, <1>7
  <2>2. ASSUME NEW k \in 1 .. n, k - 1 \in S PROVE k \in S
    <3>1. h[1 .. k] = WithoutOne(gone, h[1 .. k - 1], q[k]) /\ h[1 .. k - 1] \in A /\ q[k] \in D
      BY <1>1, <1>8, <2>2
    <3>2. QED
      BY <1>0, <3>1
  <2> HIDE DEF S
  <2>3. \A k \in 0 .. n : k \in S
    BY <1>1, <2>1, <2>2, UpTo
  <2>4. QED
    BY <2>3 DEF S
<1>10. QED
  <2> DEFINE it == [k \in 0 .. n |-> h[1 .. k]]
  <2>1. it \in [0 .. n -> A] /\ it[0] = Holding(<<>>, m) /\ it[n] = h[1 .. n]
    BY <1>1, <1>7, <1>9
  <2>2. \A k \in 1 .. n : it[k - 1] = h[1 .. k - 1] /\ it[k] = h[1 .. k]
    BY <1>1
  <2> HIDE DEF it
  <2>3. \A k \in 1 .. n : it[k] = WithoutOne(gone, it[k - 1], q[k])
    BY <1>8, <2>2
  <2>4. QED
    BY <1>6, <2>1, <2>3 DEF RunOf

-----------------------------------------------------------------------------
(* Lists of layers and what they hold *)

GoodLayers ==
    {l \in [frame : ToSet(Frames), pix : {"named", "error", "copy", "none"}, size : {"large", "small"},
            checked : BOOLEAN, drawn : BOOLEAN, failed : BOOLEAN] :
       /\ l.pix = "error" => l.checked
       /\ Drawable(l) => l.pix \in {"named", "copy"}}
Once(q) == \A i, j \in 1 .. Len(q) : q[i].frame = q[j].frame => i = j
Lists == {q \in Seq(GoodLayers) : Once(q)}

\* A list that was begun with and the pixmaps, c of them not in this list
Holdings(c) == {h \in [q : Lists, n : Int] : h.n = c + Held(h.q)}

\* The sums of lists that differ in one place, or in none
LEMMA HeldDiffers ==
    ASSUME NEW D, NEW q \in Seq(D), NEW r \in Seq(D), Len(r) = Len(q), NEW i \in 1 .. Len(q),
           \A k \in 1 .. Len(q) : k # i => Cost(r[k]) = Cost(q[k])
    PROVE  Held(r) = Held(q) - Cost(q[i]) + Cost(r[i])
<1> DEFINE n == Len(q)
<1>1. PICK s \in [0 .. n -> Int] :
          s[0] = 0 /\ Held(q) = s[n] /\ \A k \in 1 .. n : s[k] = s[k - 1] + Cost(q[k])
  BY HeldIs
<1>2. PICK t \in [0 .. n -> Int] :
          t[0] = 0 /\ Held(r) = t[n] /\ \A k \in 1 .. n : t[k] = t[k - 1] + Cost(r[k])
  <2>1. \E t \in [0 .. Len(r) -> Int] :
          t[0] = 0 /\ Held(r) = t[Len(r)] /\ \A k \in 1 .. Len(r) : t[k] = t[k - 1] + Cost(r[k])
    BY HeldIs
  <2>2. QED
    BY <2>1
<1>3. n \in Nat
  OBVIOUS
<1>4. Cost(q[i]) \in Int /\ Cost(r[i]) \in Int
  BY CostIs
<1> DEFINE S == {k \in 0 .. n : t[k] = IF k < i THEN s[k] ELSE s[k] - Cost(q[i]) + Cost(r[i])}
<1>5. 0 \in S
  BY <1>1, <1>2, <1>3
<1>6. ASSUME NEW k \in 1 .. n, k - 1 \in S PROVE k \in S
  <2>1. Cost(q[k]) \in Int /\ Cost(r[k]) \in Int /\ s[k - 1] \in Int /\ k - 1 \in 0 .. n
    BY <1>1, <1>3, CostIs
  <2>2. t[k] = t[k - 1] + Cost(r[k]) /\ s[k] = s[k - 1] + Cost(q[k])
    BY <1>1, <1>2
  <2>3. CASE k < i
    BY <1>6, <2>1, <2>2, <2>3
  <2>4. CASE k = i
    BY <1>4, <1>6, <2>1, <2>2, <2>4
  <2>5. CASE k > i
    BY <1>4, <1>6, <2>1, <2>2, <2>5
  <2>6. QED
    BY <1>3, <2>3, <2>4, <2>5
<1> HIDE DEF S
<1>7. \A k \in 0 .. n : k \in S
  BY <1>3, <1>5, <1>6, UpTo
<1>8. n \in S
  BY <1>3, <1>7
<1>9. QED
  BY <1>1, <1>2, <1>3, <1>8 DEF S

LEMMA HeldSame ==
    ASSUME NEW D, NEW q \in Seq(D), NEW r \in Seq(D), Len(r) = Len(q),
           \A k \in 1 .. Len(q) : Cost(r[k]) = Cost(q[k])
    PROVE  Held(r) = Held(q)
<1>1. PICK s \in [0 .. Len(q) -> Int] : s[0] = 0 /\ Held(q) = s[Len(q)]
  BY HeldIs
<1>2. PICK t \in [0 .. Len(r) -> Int] : t[0] = 0 /\ Held(r) = t[Len(r)]
  BY HeldIs
<1>3. CASE Len(q) = 0
  BY <1>1, <1>2, <1>3
<1>4. CASE Len(q) # 0
  <2>1. 1 \in 1 .. Len(q) /\ Cost(q[1]) \in Int /\ Held(q) \in Int /\ Cost(r[1]) = Cost(q[1])
    BY <1>1, <1>4, CostIs
  <2>2. Held(r) = Held(q) - Cost(q[1]) + Cost(r[1])
    BY <2>1, HeldDiffers
  <2>3. QED
    BY <2>1, <2>2
<1>5. QED
  BY <1>3, <1>4

LEMMA HeldAppend ==
    ASSUME NEW D, NEW q \in Seq(D), NEW l \in D
    PROVE  Held(q) \in Int /\ Held(Append(q, l)) = Held(q) + Cost(l)
<1> DEFINE r == Append(q, l)
           n == Len(q)
<1>1. n \in Nat /\ r \in Seq(D) /\ Len(r) = n + 1 /\ r[n + 1] = l /\ \A k \in 1 .. n : r[k] = q[k]
  OBVIOUS
<1>2. PICK s \in [0 .. n -> Int] :
          s[0] = 0 /\ Held(q) = s[n] /\ \A k \in 1 .. n : s[k] = s[k - 1] + Cost(q[k])
  BY HeldIs
<1> HIDE DEF r
<1>3. PICK t \in [0 .. n + 1 -> Int] :
          t[0] = 0 /\ Held(r) = t[n + 1] /\ \A k \in 1 .. n + 1 : t[k] = t[k - 1] + Cost(r[k])
  <2>1. \E t \in [0 .. Len(r) -> Int] :
          t[0] = 0 /\ Held(r) = t[Len(r)] /\ \A k \in 1 .. Len(r) : t[k] = t[k - 1] + Cost(r[k])
    BY <1>1, HeldIs
  <2>2. QED
    BY <1>1, <2>1
<1> DEFINE S == {k \in 0 .. n : t[k] = s[k]}
<1>4. 0 \in S
  BY <1>1, <1>2, <1>3
<1>5. ASSUME NEW k \in 1 .. n, k - 1 \in S PROVE k \in S
  <2>1. k \in 1 .. n + 1 /\ k \in 0 .. n
    BY <1>1
  <2>2. t[k] = t[k - 1] + Cost(r[k]) /\ s[k] = s[k - 1] + Cost(q[k]) /\ r[k] = q[k]
    BY <1>1, <1>2, <1>3, <2>1
  <2>3. QED
    BY <1>5, <2>1, <2>2
<1> HIDE DEF S
<1>6. \A k \in 0 .. n : k \in S
  BY <1>1, <1>4, <1>5, UpTo
<1>7. t[n] = s[n]
  <2>1. n \in S
    BY <1>1, <1>6
  <2>2. QED
    BY <2>1 DEF S
<1>8. t[n + 1] = t[n] + Cost(r[n + 1])
  BY <1>1, <1>3
<1>9. QED
  BY <1>1, <1>2, <1>3, <1>7, <1>8 DEF r

LEMMA HeldNone == Held(<<>>) = 0 /\ <<>> \in Lists
<1>1. <<>> \in Seq(GoodLayers) /\ Len(<<>>) = 0
  OBVIOUS
<1>2. PICK s \in [0 .. Len(<<>>) -> Int] : s[0] = 0 /\ Held(<<>>) = s[Len(<<>>)]
  BY <1>1, HeldIs
<1>3. QED
  BY <1>1, <1>2 DEF Lists, Once

LEMMA HeldInt == ASSUME NEW q \in Lists PROVE Held(q) \in Int
<1>1. PICK s \in [0 .. Len(q) -> Int] : Held(q) = s[Len(q)]
  BY HeldIs DEF Lists
<1>2. Len(q) \in 0 .. Len(q)
  BY DEF Lists
<1>3. QED
  BY <1>1, <1>2

-----------------------------------------------------------------------------
(* The steps of the folds keep the number of pixmaps that are not in the list. *)

LEMMA ListFacts ==
    ASSUME NEW q \in Lists
    PROVE  /\ q \in Seq(GoodLayers) /\ Len(q) \in Nat /\ DOMAIN q = 1 .. Len(q)
           /\ \A i \in 1 .. Len(q) : q[i] \in GoodLayers
           /\ \A i, j \in 1 .. Len(q) : q[i].frame = q[j].frame => i = j
  BY DEF Lists, Once

LEMMA HoldingIs ==
    ASSUME NEW c \in Int, NEW q \in Lists, NEW n \in Int, n = c + Held(q)
    PROVE  Holding(q, n) \in Holdings(c) /\ Holding(q, n).q = q /\ Holding(q, n).n = n
  BY DEF Holding, Holdings

LEMMA LayerIsGood ==
    ASSUME NEW f \in ToSet(Frames)
    PROVE  Layer(f) \in GoodLayers /\ Layer(f).frame = f
<1>1. PICK b \in {"large", "small"} : b = Size(f)
  BY DEF Size
<1>2. Layer(f) = [frame |-> f, pix |-> IF composite THEN "named" ELSE "error", size |-> b,
                  checked |-> TRUE, drawn |-> FALSE, failed |-> FALSE]
  BY <1>1 DEF Layer
<1>3. QED
  BY <1>2 DEF GoodLayers, Drawable

\* A layer is appended for a frame that has none
LEMMA Appended ==
    ASSUME NEW c \in Int, NEW h \in Holdings(c), NEW l \in GoodLayers, Finds(h.q, l.frame) = {}
    PROVE  Holding(Append(h.q, l), h.n + Cost(l)) \in Holdings(c)
<1>1. h.q \in Lists /\ h.n \in Int /\ h.n = c + Held(h.q)
  BY DEF Holdings
<1>2. PICK q : q = h.q
  OBVIOUS
<1>3. q \in Lists
  BY <1>1, <1>2
<1>4. Append(q, l) \in Seq(GoodLayers) /\ Len(Append(q, l)) = Len(q) + 1
      /\ Append(q, l)[Len(q) + 1] = l /\ \A k \in 1 .. Len(q) : Append(q, l)[k] = q[k]
  BY <1>3, ListFacts
<1>5. Once(Append(q, l))
  <2>1. \A k \in 1 .. Len(q) : q[k].frame # l.frame
    BY <1>2 DEF Finds
  <2>2. QED
    BY <1>3, <1>4, <2>1, ListFacts DEF Once
<1>6. Append(q, l) \in Lists
  BY <1>4, <1>5 DEF Lists
<1>7. Held(Append(q, l)) = Held(q) + Cost(l) /\ Held(q) \in Int
  BY <1>3, HeldAppend, ListFacts
<1>8. Cost(l) \in Int
  BY CostIs
<1>9. h.n + Cost(l) \in Int /\ h.n + Cost(l) = c + Held(Append(q, l))
  BY <1>1, <1>2, <1>7, <1>8
<1>10. QED
  BY <1>2, <1>6, <1>9, HoldingIs

LEMMA NamedKeeps ==
    ASSUME NEW c \in Int, NEW h \in Holdings(c), NEW f \in ToSet(Frames), Finds(h.q, f) = {}
    PROVE  Named(h, f) \in Holdings(c)
  BY LayerIsGood, Appended DEF Named

LEMMA ReplacedKeeps ==
    ASSUME NEW c \in Int, NEW h \in Holdings(c), NEW f \in ToSet(Frames), Finds(h.q, f) # {}
    PROVE  Replaced(h, f) \in Holdings(c)
<1>1. h.q \in Lists /\ h.n \in Int /\ h.n = c + Held(h.q)
  BY DEF Holdings
<1>2. PICK q : q = h.q
  OBVIOUS
<1>3. PICK i : i = CHOOSE k \in Finds(q, f) : TRUE
  OBVIOUS
<1>4. i \in 1 .. Len(q) /\ q[i].frame = f
  BY <1>2, <1>3 DEF Finds
<1>5. PICK l : l = Layer(f)
  OBVIOUS
<1>6. l \in GoodLayers /\ l.frame = f
  BY <1>5, LayerIsGood
<1>7. PICK r : r = [q EXCEPT ![i] = l]
  OBVIOUS
<1>8. q \in Lists
  BY <1>1, <1>2
<1>9. /\ r \in Seq(GoodLayers) /\ Len(r) = Len(q) /\ r[i] = l
      /\ \A k \in 1 .. Len(q) : k # i => r[k] = q[k]
  BY <1>4, <1>6, <1>7, <1>8, ListFacts
<1>10. Once(r)
  BY <1>4, <1>6, <1>8, <1>9, ListFacts DEF Once
<1>11. r \in Lists
  BY <1>9, <1>10 DEF Lists
<1>12. Held(r) = Held(q) - Cost(q[i]) + Cost(l)
  <2>1. q \in Seq(GoodLayers)
    BY <1>8, ListFacts
  <2>2. Held(r) = Held(q) - Cost(q[i]) + Cost(r[i])
    BY <1>4, <1>9, <2>1, HeldDiffers
  <2>3. QED
    BY <1>9, <2>2
<1>13. Held(q) \in Int /\ Cost(q[i]) \in Int /\ Cost(l) \in Int
  BY <1>8, HeldInt, CostIs
<1>14. PICK m : m = h.n - Cost(q[i]) + Cost(l)
  OBVIOUS
<1>15. m \in Int /\ m = c + Held(r)
  BY <1>1, <1>2, <1>12, <1>13, <1>14
<1>16. Replaced(h, f) = Holding(r, m)
  BY <1>2, <1>3, <1>5, <1>7, <1>14 DEF Replaced
<1>17. QED
  BY <1>11, <1>15, <1>16, HoldingIs

LEMMA CollectKeeps ==
    ASSUME NEW c \in Int, NEW h \in Holdings(c)
    PROVE  CollectMapped(h) \in Holdings(c)
<1>1. ASSUME NEW g \in Holdings(c), NEW f \in ToSet(Frames) PROVE CollectOne(g, f) \in Holdings(c)
  BY NamedKeeps DEF CollectOne
<1>2. Frames \in Seq(ToSet(Frames)) /\ Len(Frames) \in 0 .. Len(Frames)
  BY CaptureAssumption
<1>3. \E it \in [0 .. Len(Frames) -> Holdings(c)] : CollectMapped(h) = it[Len(Frames)]
  <2> DEFINE A == Holdings(c)
  <2>1. h \in A /\ \A g \in A, f \in ToSet(Frames) : CollectOne(g, f) \in A
    BY <1>1
  <2> HIDE DEF A
  <2>2. \E it \in [0 .. Len(Frames) -> A] : CollectMapped(h) = it[Len(Frames)]
    BY <1>2, <2>1, CollectFold
  <2>3. QED
    BY <2>2 DEF A
<1>4. QED
  BY <1>2, <1>3

LEMMA StoreKeeps ==
    ASSUME NEW c \in Int, NEW h \in Holdings(c)
    PROVE  StoreStale(h) \in Holdings(c)
<1>1. ASSUME NEW g \in Holdings(c), NEW f \in ToSet(Frames) PROVE StoreOne(g, f) \in Holdings(c)
  BY NamedKeeps, ReplacedKeeps, Zenon DEF StoreOne
<1>2. Frames \in Seq(ToSet(Frames)) /\ Len(Frames) \in 0 .. Len(Frames)
  BY CaptureAssumption
<1>3. \E it \in [0 .. Len(Frames) -> Holdings(c)] : StoreStale(h) = it[Len(Frames)]
  <2> DEFINE A == Holdings(c)
  <2>1. h \in A /\ \A g \in A, f \in ToSet(Frames) : StoreOne(g, f) \in A
    BY <1>1
  <2> HIDE DEF A
  <2>2. \E it \in [0 .. Len(Frames) -> A] : StoreStale(h) = it[Len(Frames)]
    BY <1>2, <2>1, StoreFold
  <2>3. QED
    BY <2>2 DEF A
<1>4. QED
  BY <1>2, <1>3

LEMMA NameKeeps ==
    ASSUME NEW c \in Int, NEW h \in Holdings(c), NEW d, NEW force
    PROVE  NameTree(h, d, force) \in Holdings(c)
<1>1. ASSUME NEW g \in Holdings(c), NEW f \in ToSet(Frames) PROVE NameLive(d, force, g, f) \in Holdings(c)
  <2>1. CASE ~Mapped(f, d)
    BY <2>1, Zenon DEF NameLive
  <2>2. CASE Mapped(f, d) /\ Finds(g.q, f) = {}
    BY <2>2, NamedKeeps, Zenon DEF NameLive
  <2>3. CASE Mapped(f, d) /\ Finds(g.q, f) # {}
    <3>1. Replaced(g, f) \in Holdings(c)
      BY <2>3, ReplacedKeeps
    <3>2. NameLive(d, force, g, f) \in {Replaced(g, f), g}
      BY <2>3 DEF NameLive
    <3>3. QED
      BY <3>1, <3>2
  <2>4. QED
    BY <2>1, <2>2, <2>3
<1>2. Frames \in Seq(ToSet(Frames)) /\ Len(Frames) \in 0 .. Len(Frames)
  BY CaptureAssumption
<1>3. QED
  BY <1>1, <1>2, NameFold

LEMMA CopiesKeep ==
    ASSUME NEW c \in Int, NEW h \in Holdings(c), NEW stale, NEW d
    PROVE  Copies(stale, h, d) \in Holdings(c)
<1>1. ASSUME NEW g \in Holdings(c), NEW f \in ToSet(Frames) PROVE CopyOne(stale, d, g, f) \in Holdings(c)
  <2>1. PICK copy : copy = [Layer(f) EXCEPT !.pix = "copy", !.checked = FALSE]
    OBVIOUS
  <2>2. PICK b \in {"large", "small"} : b = Size(f)
    BY DEF Size
  <2>3. copy = [frame |-> f, pix |-> "copy", size |-> b, checked |-> FALSE, drawn |-> FALSE, failed |-> FALSE]
    BY <2>1, <2>2 DEF Layer
  <2>4. copy \in GoodLayers /\ copy.frame = f /\ Cost(copy) = 1
    BY <2>3 DEF GoodLayers, Drawable, Cost
  <2>5. CopyOne(stale, d, g, f) = g
        \/ (Finds(g.q, f) = {} /\ CopyOne(stale, d, g, f) = Holding(Append(g.q, copy), g.n + 1))
    BY <2>1, Zenon DEF CopyOne
  <2>6. QED
    BY <2>4, <2>5, Appended
<1>2. Frames \in Seq(ToSet(Frames)) /\ Len(Frames) \in 0 .. Len(Frames)
  BY CaptureAssumption
<1>3. QED
  BY <1>1, <1>2, CopyFold

\* Layers that are looked at or lose their surface
LEMMA LooksKeep ==
    ASSUME NEW q \in Lists, NEW r, DOMAIN r = 1 .. Len(q), r = [i \in 1 .. Len(q) |-> r[i]],
           \A i \in 1 .. Len(q) : r[i] \in {q[i], Ready1(q[i]), [q[i] EXCEPT !.drawn = FALSE]}
    PROVE  r \in Lists /\ Held(r) = Held(q)
<1>1. ASSUME NEW l \in GoodLayers, NEW m \in {l, Ready1(l), [l EXCEPT !.drawn = FALSE]}
      PROVE  m \in GoodLayers /\ m.frame = l.frame /\ Cost(m) = Cost(l)
  <2>1. l.checked \in BOOLEAN /\ l.drawn \in BOOLEAN /\ l.failed \in BOOLEAN
    BY DEF GoodLayers
  <2>2. PICK ck \in BOOLEAN, dr \in BOOLEAN, fa \in BOOLEAN : ck = l.checked /\ dr = l.drawn /\ fa = l.failed
    BY <2>1
  <2> PICK fr, px, si : fr = l.frame /\ px = l.pix /\ si = l.size
    OBVIOUS
  <2>3. si \in {"large", "small"} /\ l = [frame |-> fr, pix |-> px, size |-> si, checked |-> ck, drawn |-> dr, failed |-> fa]
        /\ fr \in ToSet(Frames) /\ px \in {"named", "error", "copy", "none"}
        /\ (px = "error" => ck) /\ (dr /\ ~fa => px \in {"named", "copy"})
    BY <2>2 DEF GoodLayers, Drawable
  <2> DEFINE R == [frame |-> fr, pix |-> px, size |-> si, checked |-> ck, drawn |-> dr, failed |-> fa]
  <2> HIDE DEF R
  <2>8. l = R
    BY <2>3 DEF R
  <2>4. CASE m = l
    BY <2>4
  <2>5. CASE m = [l EXCEPT !.drawn = FALSE]
    <3>1. m = [frame |-> fr, pix |-> px, size |-> si, checked |-> ck, drawn |-> FALSE, failed |-> fa]
      <4>1. m = [R EXCEPT !.drawn = FALSE]
        BY <2>5, <2>8
      <4>2. QED
        BY <4>1 DEF R
    <3>2. QED
      BY <2>2, <2>3, <3>1 DEF GoodLayers, Drawable, Cost
  <2>6. CASE m = Ready1(l) /\ m # l
    <3>1. CASE ck /\ px = "error"
      <4>1. m = [l EXCEPT !.checked = FALSE, !.failed = TRUE, !.pix = "none"]
        BY <2>2, <2>6, <3>1 DEF Ready1
      <4>2. m = [frame |-> fr, pix |-> "none", size |-> si, checked |-> FALSE, drawn |-> dr, failed |-> TRUE]
        <5>1. m = [R EXCEPT !.checked = FALSE, !.failed = TRUE, !.pix = "none"]
          BY <4>1, <2>8
        <5>2. QED
          BY <5>1 DEF R
      <4>3. QED
        BY <2>2, <2>3, <3>1, <4>2 DEF GoodLayers, Drawable, Cost
    <3>2. CASE ~(ck /\ px = "error")
      <4>1. m = [l EXCEPT !.checked = FALSE, !.drawn = TRUE] /\ px # "none"
        BY <2>2, <2>6, <3>2 DEF Ready1
      <4>2. m = [frame |-> fr, pix |-> px, size |-> si, checked |-> FALSE, drawn |-> TRUE, failed |-> fa]
        <5>1. m = [R EXCEPT !.checked = FALSE, !.drawn = TRUE]
          BY <4>1, <2>8
        <5>2. QED
          BY <5>1 DEF R
      <4>3. px \in {"named", "copy"}
        BY <2>2, <2>3, <3>2, <4>1 DEF GoodLayers
      <4>4. QED
        BY <2>3, <4>2, <4>3 DEF GoodLayers, Drawable, Cost
    <3>3. QED
      BY <3>1, <3>2
  <2>7. QED
    BY <2>4, <2>5, <2>6
<1>2. ASSUME NEW i \in 1 .. Len(q)
      PROVE  r[i] \in GoodLayers /\ r[i].frame = q[i].frame /\ Cost(r[i]) = Cost(q[i])
  <2>1. PICK l, m : l = q[i] /\ m = r[i]
    OBVIOUS
  <2>2. l \in GoodLayers /\ m \in {l, Ready1(l), [l EXCEPT !.drawn = FALSE]}
    BY <2>1, ListFacts
  <2>3. m \in GoodLayers /\ m.frame = l.frame /\ Cost(m) = Cost(l)
    BY <1>1, <2>2
  <2>4. QED
    BY <2>1, <2>3
<1>3. r \in Seq(GoodLayers) /\ Len(r) = Len(q)
  <2>1. Len(q) \in Nat
    BY ListFacts
  <2>2. r \in [1 .. Len(q) -> GoodLayers]
    BY <1>2
  <2>3. QED
    BY <2>1, <2>2
<1>4. r \in Lists
  BY <1>2, <1>3, ListFacts DEF Lists, Once
<1>5. QED
  BY <1>2, <1>3, <1>4, HeldSame, ListFacts

LEMMA WithoutKeeps ==
    ASSUME NEW c \in Int, NEW h \in Holdings(c), NEW gone
    PROVE  Without(h, gone) \in Holdings(c)
<1> DEFINE A == [q : Seq(GoodLayers), n : Int]
<1>1. h.q \in Lists /\ h.n \in Int /\ h.n = c + Held(h.q)
  BY DEF Holdings
<1>2. PICK p : p = h.q
  OBVIOUS
<1>3. p \in Lists /\ p \in Seq(GoodLayers) /\ Len(p) \in Nat /\ <<>> \in Seq(GoodLayers) /\ Len(<<>>) = 0
  BY <1>1, <1>2, ListFacts
<1>4. ASSUME NEW q \in Seq(GoodLayers), NEW m \in Int
      PROVE  Holding(q, m) \in A /\ Holding(q, m).q = q /\ Holding(q, m).n = m
  BY DEF Holding
<1>5. \A g \in A : g.q \in Seq(GoodLayers) /\ g.n \in Int
  OBVIOUS
<1> HIDE DEF A
<1>6. ASSUME NEW g \in A, NEW l \in GoodLayers PROVE WithoutOne(gone, g, l) \in A
  <2>1. Append(g.q, l) \in Seq(GoodLayers) /\ g.n - Cost(l) \in Int
    BY <1>5, CostIs
  <2>2. QED
    BY <1>4, <1>5, <2>1 DEF WithoutOne
<1>7. PICK it \in [0 .. Len(p) -> A] :
          /\ it[0] = Holding(<<>>, h.n) /\ Without(h, gone) = it[Len(p)]
          /\ \A k \in 1 .. Len(p) : it[k] = WithoutOne(gone, it[k - 1], p[k])
  <2>1. Holding(<<>>, h.n) \in A
    BY <1>1, <1>3, <1>4
  <2>2. h = Holding(p, h.n)
    BY <1>2 DEF Holdings, Holding
  <2>3. StaysIn(gone, A, GoodLayers)
    BY <1>6 DEF StaysIn
  <2>4. PICK it : RunOf(it, gone, h.n, A, p)
    BY <1>3, <2>1, <2>3, WithoutFold
  <2>5. QED
    BY <2>2, <2>4 DEF RunOf
<1>8. PICK sum \in [0 .. Len(p) -> Int] :
          sum[0] = 0 /\ Held(p) = sum[Len(p)] /\ \A k \in 1 .. Len(p) : sum[k] = sum[k - 1] + Cost(p[k])
  BY <1>3, HeldIs
<1> DEFINE Kept(k) == /\ it[k].n = h.n - sum[k] + Held(it[k].q) /\ Once(it[k].q)
                      /\ \A i \in 1 .. Len(it[k].q) : \E j \in 1 .. k : it[k].q[i].frame = p[j].frame
           S == {k \in 0 .. Len(p) : Kept(k)}
<1>9. 0 \in S
  <2>1. it[0].q = <<>> /\ it[0].n = h.n /\ Held(<<>>) = 0
    BY <1>7, HeldNone DEF Holding
  <2>2. QED
    BY <1>1, <1>3, <1>8, <2>1 DEF Once
<1>10. ASSUME NEW k \in 1 .. Len(p), k - 1 \in S PROVE k \in S
  <2>1. PICK q : q = it[k - 1].q
    OBVIOUS
  <2>2. PICK m : m = it[k - 1].n
    OBVIOUS
  <2>3. PICK l : l = p[k]
    OBVIOUS
  <2>4. k - 1 \in 0 .. Len(p) /\ k \in 0 .. Len(p) /\ l \in GoodLayers /\ q \in Seq(GoodLayers) /\ m \in Int
    <3>1. k - 1 \in 0 .. Len(p) /\ k \in 0 .. Len(p) /\ l \in GoodLayers
      BY <1>3, <2>3
    <3>2. it[k - 1] \in A
      BY <1>7, <3>1
    <3>3. q \in Seq(GoodLayers) /\ m \in Int
      BY <1>5, <2>1, <2>2, <3>2
    <3>4. QED
      BY <3>1, <3>3
  <2>5. /\ m = h.n - sum[k - 1] + Held(q) /\ Once(q)
        /\ \A i \in 1 .. Len(q) : \E j \in 1 .. k - 1 : q[i].frame = p[j].frame
    BY <1>10, <2>1, <2>2
  <2>6. it[k] = WithoutOne(gone, it[k - 1], l) /\ sum[k] = sum[k - 1] + Cost(l) /\ sum[k - 1] \in Int /\ Cost(l) \in Int
    <3>1. it[k] = WithoutOne(gone, it[k - 1], l)
      BY <1>7, <2>3
    <3>2. sum[k] = sum[k - 1] + Cost(l) /\ sum[k - 1] \in Int
      BY <1>8, <2>3, <2>4
    <3>3. Cost(l) \in Int
      BY CostIs
    <3>4. QED
      BY <3>1, <3>2, <3>3
  <2>7. Held(q) \in Int /\ Held(Append(q, l)) = Held(q) + Cost(l)
    BY <2>4, HeldAppend
  <2> HIDE DEF S, Kept
  <2>8. CASE l.frame \in gone
    <3>1. it[k].q = q /\ it[k].n = m - Cost(l)
      <4>1. it[k] = Holding(q, m - Cost(l))
        BY <2>1, <2>2, <2>6, <2>8 DEF WithoutOne
      <4>2. m - Cost(l) \in Int
        BY <2>4, <2>6
      <4>3. QED
        BY <1>4, <2>4, <4>1, <4>2
    <3>2. ASSUME NEW i \in 1 .. Len(q) PROVE \E j \in 1 .. k : q[i].frame = p[j].frame
      <4>1. PICK j \in 1 .. k - 1 : q[i].frame = p[j].frame
        BY <2>5
      <4>2. j \in 1 .. k
        BY <4>1, <1>3
      <4>3. QED
        BY <4>1, <4>2
    <3>3. it[k].n = h.n - sum[k] + Held(it[k].q)
      <4>1. PICK x, y, z, w : x = sum[k - 1] /\ y = Cost(l) /\ z = Held(q) /\ w = sum[k]
        OBVIOUS
      <4>2. h.n \in Int /\ x \in Int /\ y \in Int /\ z \in Int /\ w = x + y /\ m = h.n - x + z
        BY <1>1, <2>5, <2>6, <2>7, <4>1
      <4>3. m - y = h.n - w + z
        BY <4>2
      <4>4. QED
        BY <3>1, <4>1, <4>3
    <3>4. Kept(k)
      BY <2>5, <3>1, <3>2, <3>3 DEF Kept
    <3>5. QED
      BY <2>4, <3>4 DEF S
  <2>9. CASE l.frame \notin gone
    <3>1. PICK r : r = Append(q, l)
      OBVIOUS
    <3>2. r \in Seq(GoodLayers) /\ Len(r) = Len(q) + 1 /\ r[Len(q) + 1] = l /\ Len(q) \in Nat
          /\ \A i \in 1 .. Len(q) : r[i] = q[i]
      BY <2>4, <3>1
    <3>3. it[k].q = r /\ it[k].n = m
      <4>1. it[k] = Holding(r, m)
        BY <2>1, <2>2, <2>6, <2>9, <3>1 DEF WithoutOne
      <4>2. QED
        BY <1>4, <2>4, <3>2, <4>1
    <3>4. ASSUME NEW i \in 1 .. Len(r) PROVE \E j \in 1 .. k : r[i].frame = p[j].frame
      <4>1. CASE i \in 1 .. Len(q)
        <5>1. PICK j \in 1 .. k - 1 : q[i].frame = p[j].frame
          BY <2>5, <4>1
        <5>2. j \in 1 .. k /\ r[i] = q[i]
          BY <3>2, <4>1
        <5>3. QED
          BY <5>1, <5>2
      <4>2. CASE i = Len(q) + 1
        BY <2>3, <3>2, <4>2
      <4>3. QED
        BY <3>2, <4>1, <4>2
    <3>5. \A i \in 1 .. Len(q) : q[i].frame # l.frame
      <4>1. \A j \in 1 .. k - 1 : p[j].frame # p[k].frame
        <5>1. \A i, j \in 1 .. Len(p) : p[i].frame = p[j].frame => i = j
          BY <1>3, ListFacts
        <5>2. \A j \in 1 .. k - 1 : j \in 1 .. Len(p) /\ j # k
          BY <1>3
        <5>3. QED
          BY <5>1, <5>2
      <4>2. QED
        BY <2>3, <2>5, <4>1
    <3>6. Once(r)
      <4>1. \A i, j \in 1 .. Len(q) : q[i].frame = q[j].frame => i = j
        BY <2>5 DEF Once
      <4>2. \A i \in 1 .. Len(q) + 1 : i \in 1 .. Len(q) \/ i = Len(q) + 1
        BY <3>2
      <4>3. QED
        BY <3>2, <3>5, <4>1, <4>2 DEF Once
    <3>7. it[k].n = h.n - sum[k] + Held(it[k].q)
      <4>1. PICK x, y, z, w : x = sum[k - 1] /\ y = Cost(l) /\ z = Held(q) /\ w = sum[k]
        OBVIOUS
      <4>2. h.n \in Int /\ x \in Int /\ y \in Int /\ z \in Int /\ w = x + y /\ m = h.n - x + z
        BY <1>1, <2>5, <2>6, <2>7, <4>1
      <4>3. m = h.n - w + (z + y)
        BY <4>2
      <4>4. Held(r) = z + y
        BY <2>7, <3>1, <4>1
      <4>5. QED
        BY <3>3, <4>1, <4>3, <4>4
    <3>8. Kept(k)
      BY <3>3, <3>4, <3>6, <3>7 DEF Kept
    <3>9. QED
      BY <2>4, <3>8 DEF S
  <2>10. QED
    BY <2>8, <2>9
<1> HIDE DEF S
<1>11. \A k \in 0 .. Len(p) : k \in S
  BY <1>3, <1>9, <1>10, UpTo
<1>12. Kept(Len(p))
  <2>1. Len(p) \in S
    BY <1>3, <1>11
  <2>2. QED
    BY <2>1 DEF S
<1>13. PICK w : w = Without(h, gone)
  OBVIOUS
<1>14. w = it[Len(p)] /\ w \in A /\ w.q \in Seq(GoodLayers) /\ w.n \in Int
  BY <1>3, <1>5, <1>7, <1>13
<1>15. w.q \in Lists
  BY <1>12, <1>14 DEF Lists
<1>16. Held(w.q) \in Int /\ Held(p) \in Int
  BY <1>3, <1>15, HeldInt
<1>17. w.n = c + Held(w.q)
  BY <1>1, <1>2, <1>8, <1>12, <1>14, <1>16
<1>18. w \in [q : Lists, n : Int]
  BY <1>14, <1>15 DEF A
<1>19. QED
  BY <1>13, <1>17, <1>18 DEF Holdings

-----------------------------------------------------------------------------
(* The actions *)

CaptureInv == layers \in [Keepers -> Lists] /\ pixmaps \in Int /\ PixmapsAreOwned

\* Pixmaps that are not in the list of who
Rest(who) == pixmaps - Held(layers[who])

LEMMA InvFacts ==
    ASSUME CaptureInv, NEW who \in Keepers
    PROVE  /\ layers[who] \in Lists /\ Held(layers[who]) \in Int /\ Rest(who) \in Int
           /\ Holding(layers[who], pixmaps) \in Holdings(Rest(who))
<1>1. layers[who] \in Lists /\ pixmaps \in Int
  BY DEF CaptureInv
<1>2. Held(layers[who]) \in Int
  BY <1>1, HeldInt
<1>3. Rest(who) \in Int /\ pixmaps = Rest(who) + Held(layers[who])
  BY <1>1, <1>2 DEF Rest
<1>4. QED
  BY <1>1, <1>2, <1>3, HoldingIs

\* The number of pixmaps changes with one list.
LEMMA OneChanges ==
    ASSUME CaptureInv, NEW who \in Keepers, NEW q \in Lists, layers' = [layers EXCEPT ![who] = q],
           pixmaps' \in Int, pixmaps' = Rest(who) + Held(q)
    PROVE  CaptureInv'
<1>1. layers \in [Keepers -> Lists] /\ PixmapsAreOwned /\ pixmaps \in Int
  BY DEF CaptureInv
<1>2. layers' \in [Keepers -> Lists] /\ layers'[who] = q /\ \A k \in Keepers : k # who => layers'[k] = layers[k]
  BY <1>1
<1>3. \A k \in Keepers : Held(layers[k]) \in Int
  BY InvFacts
<1>4. Held(q) \in Int
  BY HeldInt
<1>5. PixmapsAreOwned'
  BY <1>1, <1>2, <1>3, <1>4 DEF PixmapsAreOwned, Rest, Keepers
<1>6. QED
  BY <1>2, <1>5 DEF CaptureInv

LEMMA KeptOne ==
    ASSUME CaptureInv, NEW who \in Keepers, NEW h \in Holdings(Rest(who)), Keep(h, who)
    PROVE  CaptureInv'
<1>1. h.q \in Lists /\ h.n \in Int /\ h.n = Rest(who) + Held(h.q)
  BY DEF Holdings
<1>2. QED
  BY <1>1, OneChanges DEF Keep

\* The five lists
LEMMA Five == Keepers = {"stale", "old", "new", "switcher", "live"}
  BY DEF Keepers

-----------------------------------------------------------------------------
(* The lists that are begun, freed and looked at *)

LEMMA BegunIs ==
    ASSUME NEW n \in Int
    PROVE  Holding(<<>>, n) \in Holdings(n)
<1>1. n = n + Held(<<>>)
  BY HeldNone
<1>2. QED
  BY <1>1, HeldNone, HoldingIs

LEMMA SurfacesKeep ==
    ASSUME NEW q \in Lists
    PROVE  EnsureSurfaces(q) \in Lists /\ Held(EnsureSurfaces(q)) = Held(q)
<1>1. PICK r : r = EnsureSurfaces(q)
  OBVIOUS
<1>2. r = [i \in 1 .. Len(q) |-> Ready1(q[i])]
  BY <1>1 DEF EnsureSurfaces
<1>3. DOMAIN r = 1 .. Len(q) /\ r = [i \in 1 .. Len(q) |-> r[i]] /\ \A i \in 1 .. Len(q) : r[i] = Ready1(q[i])
  BY <1>2
<1>4. QED
  BY <1>1, <1>3, LooksKeep

LEMMA AskedKeeps ==
    ASSUME NEW q \in Lists, NEW d
    PROVE  Asked(q, d) \in Lists /\ Held(Asked(q, d)) = Held(q)
<1>1. PICK r : r = Asked(q, d)
  OBVIOUS
<1>2. r = [i \in 1 .. Len(q) |->
             IF Mapped(q[i].frame, d) /\ q[i].size = Size(q[i].frame) THEN Ready1(q[i]) ELSE q[i]]
  BY <1>1 DEF Asked
<1>3. DOMAIN r = 1 .. Len(q) /\ r = [i \in 1 .. Len(q) |-> r[i]]
      /\ \A i \in 1 .. Len(q) : r[i] \in {q[i], Ready1(q[i])}
  BY <1>2
<1>4. QED
  BY <1>1, <1>3, LooksKeep

-----------------------------------------------------------------------------
(* One lemma for each action *)

LEMMA InitHolds == CaptureInit => CaptureInv
<1> SUFFICES ASSUME CaptureInit PROVE CaptureInv
  OBVIOUS
<1>1. layers = [k \in Keepers |-> <<>>] /\ pixmaps = 0
  BY DEF CaptureInit
<1>2. layers \in [Keepers -> Lists] /\ pixmaps \in Int
  BY <1>1, HeldNone
<1>3. \A k \in Keepers : Held(layers[k]) = 0
  BY <1>1, HeldNone
<1>4. PixmapsAreOwned
  BY <1>1, <1>3 DEF PixmapsAreOwned, Keepers
<1>5. QED
  BY <1>2, <1>4 DEF CaptureInv

LEMMA NothingHappens ==
    ASSUME CaptureInv, UNCHANGED <<layers, pixmaps>>
    PROVE  CaptureInv'
  BY DEF CaptureInv, PixmapsAreOwned

LEMMA ClosesKeeps ==
    ASSUME CaptureInv, SwitcherCloses
    PROVE  CaptureInv'
<1>1. Freed(layers["switcher"], pixmaps) = Rest("switcher") /\ Rest("switcher") \in Int
  BY InvFacts, Five DEF Freed, Rest
<1>2. Holding(<<>>, Rest("switcher")) \in Holdings(Rest("switcher"))
  BY <1>1, BegunIs
<1>3. Keep(Holding(<<>>, Rest("switcher")), "switcher")
  BY <1>1 DEF SwitcherCloses
<1>4. QED
  BY <1>2, <1>3, KeptOne, Five

LEMMA EntersKeeps ==
    ASSUME CaptureInv, OverviewEnters
    PROVE  CaptureInv'
<1>1. Live \in Holdings(Rest("live")) /\ Rest("live") \in Int
  BY InvFacts, Five DEF Live
<1>2. PICK w : w = Without(Live, ToSet(Frames) \ frames)
  OBVIOUS
<1>3. w \in Holdings(Rest("live"))
  BY <1>1, <1>2, WithoutKeeps
<1>4. NameTree(w, desk, TRUE) \in Holdings(Rest("live"))
  BY <1>1, <1>3, NameKeeps
<1>5. Keep(NameTree(w, desk, TRUE), "live")
  BY <1>2 DEF OverviewEnters
<1>6. QED
  BY <1>4, <1>5, KeptOne, Five

LEMMA RendersKeeps ==
    ASSUME CaptureInv, OverviewRenders
    PROVE  CaptureInv'
<1>1. Live \in Holdings(Rest("live")) /\ Rest("live") \in Int
  BY InvFacts, Five DEF Live
<1>2. PICK h : h = NameTree(Live, desk, FALSE)
  OBVIOUS
<1>3. h \in Holdings(Rest("live"))
  BY <1>1, <1>2, NameKeeps
<1>4. h.q \in Lists /\ h.n \in Int /\ h.n = Rest("live") + Held(h.q)
  BY <1>3 DEF Holdings
<1>5. PICK r : r = [i \in 1 .. Len(h.q) |-> IF h.q[i].frame \in frames THEN Ready1(h.q[i]) ELSE h.q[i]]
  OBVIOUS
<1>6. Keep(Holding(r, h.n), "live")
  BY <1>2, <1>5 DEF OverviewRenders
<1>7. DOMAIN r = 1 .. Len(h.q) /\ r = [i \in 1 .. Len(h.q) |-> r[i]]
      /\ \A i \in 1 .. Len(h.q) : r[i] \in {h.q[i], Ready1(h.q[i])}
  BY <1>5
<1>8. r \in Lists /\ Held(r) = Held(h.q)
  BY <1>4, <1>7, LooksKeep
<1>9. Holding(r, h.n) \in Holdings(Rest("live"))
  BY <1>1, <1>4, <1>8, HoldingIs
<1>10. QED
  BY <1>6, <1>9, KeptOne, Five

LEMMA GoesKeeps ==
    ASSUME CaptureInv, NEW d, OverviewGoes(d)
    PROVE  CaptureInv'
<1>1. Live \in Holdings(Rest("live")) /\ Rest("live") \in Int
  BY InvFacts, Five DEF Live
<1>2. PICK left : left = IF d = desk THEN Live ELSE NameTree(Live, desk, TRUE)
  OBVIOUS
<1>3. left \in Holdings(Rest("live"))
  BY <1>1, <1>2, NameKeeps
<1>4. NameTree(left, d, TRUE) \in Holdings(Rest("live"))
  BY <1>1, <1>3, NameKeeps
<1>5. Keep(NameTree(left, d, TRUE), "live")
  BY <1>2 DEF OverviewGoes
<1>6. QED
  BY <1>4, <1>5, KeptOne, Five

LEMMA OverviewClosesKeeps ==
    ASSUME CaptureInv, OverviewCloses
    PROVE  CaptureInv'
<1>1. PICK q : q = layers["live"]
  OBVIOUS
<1>2. q \in Lists /\ layers \in [Keepers -> Lists] /\ pixmaps = Rest("live") + Held(q) /\ pixmaps \in Int
  <2>1. q \in Lists /\ Held(q) \in Int
    BY <1>1, InvFacts, Five
  <2>2. QED
    BY <1>1, <2>1 DEF CaptureInv, Rest
<1>3. PICK r : r = [i \in 1 .. Len(q) |-> [q[i] EXCEPT !.drawn = FALSE]]
  OBVIOUS
<1>4. layers' = [layers EXCEPT !["live"] = r] /\ pixmaps' = pixmaps
  BY <1>1, <1>2, <1>3, Five DEF OverviewCloses
<1>5. DOMAIN r = 1 .. Len(q) /\ r = [i \in 1 .. Len(q) |-> r[i]]
      /\ \A i \in 1 .. Len(q) : r[i] = [q[i] EXCEPT !.drawn = FALSE]
  BY <1>3
<1>6. r \in Lists /\ Held(r) = Held(q)
  BY <1>2, <1>5, LooksKeep
<1>7. QED
  BY <1>2, <1>4, <1>6, OneChanges, Five

LEMMA KillKeeps ==
    ASSUME CaptureInv, NEW f, KillFrame(f)
    PROVE  CaptureInv'
<1>1. Holding(layers["stale"], pixmaps) \in Holdings(Rest("stale")) /\ Rest("stale") \in Int
  BY InvFacts, Five
<1>2. Without(Holding(layers["stale"], pixmaps), {f}) \in Holdings(Rest("stale"))
  BY <1>1, WithoutKeeps
<1>3. QED
  BY <1>2, KeptOne, Five DEF KillFrame

\* What each list holds, as numbers
LEMMA Parts ==
    ASSUME CaptureInv
    PROVE  /\ \A k \in Keepers : layers[k] \in Lists /\ Held(layers[k]) \in Int
           /\ pixmaps \in Int
           /\ pixmaps = Held(layers["stale"]) + Held(layers["old"]) + Held(layers["new"])
                          + Held(layers["switcher"]) + Held(layers["live"])
  BY InvFacts DEF CaptureInv, PixmapsAreOwned

LEMMA PartsSuffice ==
    ASSUME layers' \in [Keepers -> Lists], pixmaps' \in Int,
           pixmaps' = Held(layers'["stale"]) + Held(layers'["old"]) + Held(layers'["new"])
                        + Held(layers'["switcher"]) + Held(layers'["live"])
    PROVE  CaptureInv'
  BY DEF CaptureInv, PixmapsAreOwned

LEMMA EndsKeeps ==
    ASSUME CaptureInv, TransitionEnds
    PROVE  CaptureInv'
<1>1. layers \in [Keepers -> Lists] /\ <<>> \in Lists /\ Held(<<>>) = 0
  BY HeldNone DEF CaptureInv
<1>2. layers' = [layers EXCEPT !["old"] = <<>>, !["new"] = <<>>]
      /\ pixmaps' = pixmaps - Held(layers["old"]) - Held(layers["new"])
  BY DEF TransitionEnds, Freed
<1>3. layers' \in [Keepers -> Lists] /\ layers'["old"] = <<>> /\ layers'["new"] = <<>>
      /\ layers'["stale"] = layers["stale"] /\ layers'["switcher"] = layers["switcher"]
      /\ layers'["live"] = layers["live"]
  BY <1>1, <1>2, Five
<1>4. pixmaps \in Int /\ \A k \in Keepers : Held(layers[k]) \in Int
  BY Parts
<1>5. pixmaps' = Held(layers["stale"]) + 0 + 0 + Held(layers["switcher"]) + Held(layers["live"]) /\ pixmaps' \in Int
  BY <1>2, <1>4, Parts, Five
<1>6. QED
  BY <1>1, <1>3, <1>5, PartsSuffice

LEMMA OpensKeeps ==
    ASSUME CaptureInv, SwitcherOpens
    PROVE  CaptureInv'
<1>1. PICK here : here = CollectMapped(Holding(<<>>, pixmaps))
  OBVIOUS
<1>2. PICK all : all = Copies(layers["stale"], here, 3 - desk)
  OBVIOUS
<1>3. pixmaps \in Int /\ layers \in [Keepers -> Lists] /\ layers["stale"] \in Lists
  BY Parts, Five DEF CaptureInv
<1>4. here \in Holdings(pixmaps)
  BY <1>1, <1>3, BegunIs, CollectKeeps
<1>5. all \in Holdings(pixmaps)
  BY <1>2, <1>3, <1>4, CopiesKeep
<1>6. all.q \in Lists /\ all.n \in Int /\ all.n = pixmaps + Held(all.q)
  BY <1>5 DEF Holdings
<1>7. PICK s : s = EnsureSurfaces(all.q)
  OBVIOUS
<1>8. PICK a : a = Asked(layers["stale"], 3 - desk)
  OBVIOUS
<1>9. s \in Lists /\ Held(s) = Held(all.q) /\ a \in Lists /\ Held(a) = Held(layers["stale"])
  BY <1>3, <1>6, <1>7, <1>8, SurfacesKeep, AskedKeeps
<1>10. layers' = [layers EXCEPT !["switcher"] = s, !["stale"] = a] /\ pixmaps' = all.n
       /\ layers["switcher"] = <<>>
  BY <1>1, <1>2, <1>3, <1>7, <1>8, Five DEF SwitcherOpens
<1>11. layers' \in [Keepers -> Lists] /\ layers'["switcher"] = s /\ layers'["stale"] = a
       /\ layers'["old"] = layers["old"] /\ layers'["new"] = layers["new"]
       /\ layers'["live"] = layers["live"]
  BY <1>3, <1>9, <1>10, Five
<1>12. Held(layers["switcher"]) = 0 /\ Held(s) \in Int /\ pixmaps' = pixmaps + Held(s)
  BY <1>6, <1>9, <1>10, HeldNone, HeldInt
<1>13. QED
  BY <1>9, <1>11, <1>12, Parts, PartsSuffice, Five

LEMMA SwitchKeeps ==
    ASSUME CaptureInv, NEW transition \in BOOLEAN, SwitchDesk(transition)
    PROVE  CaptureInv'
<1>1. Live \in Holdings(Rest("live")) /\ Rest("live") \in Int
  BY InvFacts, Five DEF Live
<1>2. PICK live : live = NameTree(Live, desk, TRUE)
  OBVIOUS
<1>3. live \in Holdings(Rest("live"))
  BY <1>1, <1>2, NameKeeps
<1>4. CASE ~transition
  <2>1. Keep(live, "live")
    BY <1>2, <1>4 DEF SwitchDesk, Live
  <2>2. QED
    BY <1>3, <2>1, KeptOne, Five
<1>5. CASE transition
  <2> PICK c1, c2, c3, c4, c5 : c1 = Held(layers["stale"]) /\ c2 = Held(layers["old"]) /\ c3 = Held(layers["new"])
                                /\ c4 = Held(layers["switcher"]) /\ c5 = Held(layers["live"])
    OBVIOUS
  <2>1. c1 \in Int /\ c2 \in Int /\ c3 \in Int /\ c4 \in Int /\ c5 \in Int /\ pixmaps = c1 + c2 + c3 + c4 + c5
        /\ pixmaps \in Int /\ layers \in [Keepers -> Lists] /\ layers["stale"] \in Lists
    BY Parts, Five DEF CaptureInv
  <2> PICK l5 : l5 = Held(live.q)
    OBVIOUS
  <2>2. live.q \in Lists /\ live.n \in Int /\ l5 \in Int /\ live.n = c1 + c2 + c3 + c4 + l5
    <3>1. live.q \in Lists /\ live.n \in Int /\ live.n = Rest("live") + Held(live.q)
      BY <1>3 DEF Holdings
    <3>2. Rest("live") = c1 + c2 + c3 + c4
      BY <2>1 DEF Rest
    <3>3. l5 \in Int
      BY <3>1, HeldInt
    <3>4. QED
      BY <2>1, <3>1, <3>2, <3>3
  <2>3. PICK free : free = Freed(layers["new"], Freed(layers["old"], live.n))
    OBVIOUS
  <2>4. free \in Int /\ free = c1 + c4 + l5
    BY <2>1, <2>2, <2>3 DEF Freed
  <2>5. PICK old : old = CollectMapped(Holding(<<>>, free))
    OBVIOUS
  <2>6. old \in Holdings(free)
    BY <2>4, <2>5, BegunIs, CollectKeeps
  <2> PICK o : o = Held(old.q)
    OBVIOUS
  <2>7. old.q \in Lists /\ old.n \in Int /\ o \in Int /\ old.n = c1 + c4 + l5 + o
    <3>1. old.q \in Lists /\ old.n \in Int /\ old.n = free + Held(old.q)
      BY <2>6 DEF Holdings
    <3>2. QED
      BY <2>1, <2>2, <2>4, <3>1, HeldInt
  <2>8. PICK st : st = StoreStale(Holding(layers["stale"], old.n))
    OBVIOUS
  <2> DEFINE c == c4 + l5 + o
  <2>9. c \in Int /\ old.n = c + Held(layers["stale"])
    BY <2>1, <2>2, <2>7
  <2> HIDE DEF c
  <2>10. Holding(layers["stale"], old.n) \in Holdings(c)
    BY <2>1, <2>7, <2>9, HoldingIs
  <2>11. st \in Holdings(c)
    BY <2>8, <2>9, <2>10, StoreKeeps
  <2> PICK s : s = Held(st.q)
    OBVIOUS
  <2>12. st.q \in Lists /\ st.n \in Int /\ s \in Int /\ st.n = c4 + l5 + o + s
    <3>1. st.q \in Lists /\ st.n \in Int /\ st.n = c + Held(st.q)
      BY <2>11 DEF Holdings
    <3>2. QED
      BY <3>1, HeldInt DEF c
  <2>13. PICK new : new = Copies(st.q, Holding(<<>>, st.n), 3 - desk)
    OBVIOUS
  <2>14. new \in Holdings(st.n)
    BY <2>12, <2>13, BegunIs, CopiesKeep
  <2> PICK w : w = Held(new.q)
    OBVIOUS
  <2>15. new.q \in Lists /\ new.n \in Int /\ w \in Int /\ new.n = c4 + l5 + o + s + w
    <3>1. new.q \in Lists /\ new.n \in Int /\ new.n = st.n + Held(new.q)
      BY <2>14 DEF Holdings
    <3>2. QED
      BY <2>12, <3>1, HeldInt
  <2>16. PICK eo : eo = EnsureSurfaces(old.q)
    OBVIOUS
  <2>17. PICK en : en = EnsureSurfaces(new.q)
    OBVIOUS
  <2>18. PICK a : a = Asked(st.q, 3 - desk)
    OBVIOUS
  <2>19. eo \in Lists /\ Held(eo) = o /\ en \in Lists /\ Held(en) = w /\ a \in Lists /\ Held(a) = s
         /\ <<>> \in Lists /\ Held(<<>>) = 0
    BY <2>7, <2>12, <2>15, <2>16, <2>17, <2>18, SurfacesKeep, AskedKeeps, HeldNone
  <2>20. \/ layers' = [layers EXCEPT !["live"] = live.q, !["stale"] = a, !["old"] = eo, !["new"] = en]
            /\ pixmaps' = new.n
         \/ layers' = [layers EXCEPT !["live"] = live.q, !["stale"] = a, !["old"] = <<>>, !["new"] = <<>>]
            /\ pixmaps' = Freed(en, Freed(eo, new.n))
    <3> DEFINE any == \E l \in ToSet(eo) \cup ToSet(en) : Drawable(l)
    <3>1. layers' = [layers EXCEPT !["live"] = live.q, !["stale"] = a,
                       !["old"] = IF any THEN eo ELSE <<>>, !["new"] = IF any THEN en ELSE <<>>]
          /\ pixmaps' = IF any THEN new.n ELSE Freed(en, Freed(eo, new.n))
      BY <1>2, <1>5, <2>3, <2>5, <2>8, <2>13, <2>16, <2>17, <2>18 DEF SwitchDesk, Live
    <3> HIDE DEF any
    <3>2. QED
      BY <3>1
  <2>21. CASE layers' = [layers EXCEPT !["live"] = live.q, !["stale"] = a, !["old"] = eo, !["new"] = en]
              /\ pixmaps' = new.n
    <3>1. layers' \in [Keepers -> Lists] /\ layers'["live"] = live.q /\ layers'["stale"] = a
          /\ layers'["old"] = eo /\ layers'["new"] = en /\ layers'["switcher"] = layers["switcher"]
      BY <2>1, <2>2, <2>19, <2>21, Five
    <3>2. pixmaps' \in Int /\ pixmaps' = s + o + w + c4 + l5
      BY <2>1, <2>2, <2>7, <2>12, <2>15, <2>21
    <3>3. QED
      BY <2>19, <3>1, <3>2, PartsSuffice
  <2>22. CASE layers' = [layers EXCEPT !["live"] = live.q, !["stale"] = a, !["old"] = <<>>, !["new"] = <<>>]
              /\ pixmaps' = Freed(en, Freed(eo, new.n))
    <3>1. layers' \in [Keepers -> Lists] /\ layers'["live"] = live.q /\ layers'["stale"] = a
          /\ layers'["old"] = <<>> /\ layers'["new"] = <<>> /\ layers'["switcher"] = layers["switcher"]
      BY <2>1, <2>2, <2>19, <2>22, Five
    <3>2. pixmaps' = new.n - o - w
      BY <2>19, <2>22 DEF Freed
    <3>3. pixmaps' \in Int /\ pixmaps' = s + 0 + 0 + c4 + l5
      BY <2>1, <2>2, <2>7, <2>12, <2>15, <3>2
    <3>4. QED
      BY <2>19, <3>1, <3>3, PartsSuffice
  <2>23. QED
    BY <2>20, <2>21, <2>22
<1>6. QED
  BY <1>4, <1>5

-----------------------------------------------------------------------------
(* The images are sound in every reachable state *)

LEMMA InvIsSound == CaptureInv => ImagesAreSound
<1> SUFFICES ASSUME CaptureInv PROVE ImagesAreSound
  OBVIOUS
<1>1. ASSUME NEW k \in Keepers, NEW i \in 1 .. Len(layers[k])
      PROVE  /\ Drawable(layers[k][i]) => Cost(layers[k][i]) = 1
             /\ \A j \in 1 .. Len(layers[k]) : layers[k][i].frame = layers[k][j].frame => i = j
  <2>1. PICK q : q = layers[k]
    OBVIOUS
  <2>2. q \in Lists
    BY <2>1, InvFacts
  <2>3. q[i] \in GoodLayers /\ \A j \in 1 .. Len(q) : q[i].frame = q[j].frame => i = j
    BY <1>1, <2>1, <2>2, ListFacts
  <2>4. Drawable(q[i]) => Cost(q[i]) = 1
    BY <2>3 DEF GoodLayers, Cost
  <2>5. QED
    BY <2>1, <2>3, <2>4
<1>2. LayersAreSound
  BY <1>1 DEF LayersAreSound
<1>3. QED
  BY <1>2 DEF ImagesAreSound, CaptureInv

\* The images of windows (aiwr_capture.c, overview.c:326): whatever is captured,
\* cached, copied, looked at, freed or cut short, every pixmap is in exactly one
\* layer of one list, each list has one layer for a frame, and only a layer that
\* has a pixmap is drawn.
THEOREM ImagesAlwaysSound == CaptureSpec => []ImagesAreSound
<1>1. CaptureInit => CaptureInv
  BY InitHolds
<1>2. CaptureInv /\ [CaptureNext]_captureVars => CaptureInv'
  <2> SUFFICES ASSUME CaptureInv, [CaptureNext]_captureVars PROVE CaptureInv'
    OBVIOUS
  <2>1. ASSUME NEW transition \in BOOLEAN, SwitchDesk(transition) PROVE CaptureInv'
    BY <2>1, SwitchKeeps
  <2>2. CASE TransitionEnds
    BY <2>2, EndsKeeps
  <2>3. CASE SwitcherOpens
    BY <2>3, OpensKeeps
  <2>4. CASE SwitcherCloses
    BY <2>4, ClosesKeeps
  <2>5. CASE OverviewEnters
    BY <2>5, EntersKeeps
  <2>6. CASE OverviewRenders
    BY <2>6, RendersKeeps
  <2>7. CASE OverviewCloses
    BY <2>7, OverviewClosesKeeps
  <2>8. ASSUME NEW d \in 1 .. 2, OverviewGoes(d) PROVE CaptureInv'
    BY <2>8, GoesKeeps
  <2>9. ASSUME NEW f \in frames, KillFrame(f) PROVE CaptureInv'
    BY <2>9, KillKeeps
  <2>10. ASSUME NEW f \in frames, Resize(f) PROVE CaptureInv'
    BY <2>10, NothingHappens DEF Resize
  <2>11. CASE CompositorChanges
    BY <2>11, NothingHappens DEF CompositorChanges
  <2>12. CASE UNCHANGED captureVars
    BY <2>12, NothingHappens DEF captureVars
  <2>13. QED
    BY <2>1, <2>2, <2>3, <2>4, <2>5, <2>6, <2>7, <2>8, <2>9, <2>10, <2>11, <2>12 DEF CaptureNext
<1>3. CaptureInv => ImagesAreSound
  BY InvIsSound
<1>4. QED
  BY <1>1, <1>2, <1>3, PTL DEF CaptureSpec
=============================================================================
