------------------------------ MODULE MC_Overview ------------------------------
(***************************************************************************)
(* Instances of the overview, the window switcher and the images both draw,  *)
(* for TLC.  Each behaviour is about one.                                    *)
(***************************************************************************)
EXTENDS Switcher, Capture

CONSTANTS Parts, Floaters, f, a, b
VARIABLE part

(* One frame of a window, on the first workspace. *)
OneFrame == <<f>>
FirstDesk == <<1>>

(* Window a has the texts "p" and "pk" in its names, b "p", workspace 1 "k". *)
Texts(x) == CASE x = a -> {<<"p">>, <<"k">>, <<"p", "k">>}
              [] x = b -> {<<"p">>}
              [] x = 1 -> {<<"k">>}
              [] OTHER -> {}
HasText(x, q) == q \in Texts(x)

vars == <<switcherAll, captureVars, part>>
Init == /\ part \in Parts
        /\ WindowListInit /\ OverviewInit /\ SwitcherInit /\ CaptureInit

(* Bound: nothing is dragged while a filter is typed; a drag and a drop read *)
(* no filter, and the selection that a filter leaves the arrows reach, too.  *)
OverviewPart ==
  /\ OverviewSteps \/ TreeSteps(Floaters) \/ OtherGrabs \/ OtherUngrabs
  /\ ov'.filter # <<>> => ov'.drag = "no"
SwitcherPart ==
  \/ SwitcherSteps \/ TreeSteps(Floaters)
  \/ Ready /\ UNCHANGED switcherVars /\ (Toggle \/ Tick)
Next ==
  /\ UNCHANGED part
  /\ \/ part = "overview" /\ OverviewPart /\ UNCHANGED captureVars
     \/ part = "switcher" /\ SwitcherPart /\ UNCHANGED captureVars
     \/ part = "capture" /\ CaptureNext /\ UNCHANGED switcherAll
Spec == Init /\ [][Next]_vars

(* States are compared by what is read of them later.  How far the animation *)
(* of an overview is that stays is not: leaving starts another.  Of the      *)
(* overview the switcher's behaviours read whether it is there and leaves;   *)
(* its thumbnails are drawn, and asked again when it is entered.  That the   *)
(* modifier was missed is read of a switcher that was opened with it held.   *)
(* While the overview leaves, which LeavingEnds is about, nothing of its     *)
(* timer is left out.                                                        *)
Overlay == [ov EXCEPT !.frames = IF ov.exiting THEN @ ELSE 0]
View ==
  IF part = "switcher"
  THEN <<tree, [Overlay EXCEPT !.thumbs = <<>>, !.selected = 0], keyboard, input,
         sw, held, release, missed /\ sw.hold>>
  ELSE <<[switcherAll EXCEPT ![2] = Overlay], captureVars, part>>

(* libev's timer of the overview goes off as long as it runs *)
FairSpec == Spec /\ WF_vars(Ready /\ FlagsFit /\ Tick /\ UNCHANGED <<switcherVars, captureVars, part>>)
=============================================================================
