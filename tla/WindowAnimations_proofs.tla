----------------------- MODULE WindowAnimations_proofs -----------------------
(***************************************************************************)
(* The ownership of animations by windows and by the workspace transition, *)
(* for any number of frames and animations.  The properties are inductive  *)
(* together with what they leave unsaid: an animation that has not begun   *)
(* has no data, the data of an opening outlives only its own item, and a   *)
(* frame that has had a geometry is among the seen.                        *)
(***************************************************************************)
EXTENDS WindowAnimations, TLAPS

ClockOK == state \in [Ids -> States]

SwitchType == [active : BOOLEAN, anim : 0..MaxAnims, layers : BOOLEAN,
               overlay : {"none", "parked", "shown"}]

\* A value of switch with no transition
Idle(s) == s \in SwitchType /\ ~s.active /\ s.anim = 0 /\ ~s.layers /\ s.overlay # "shown"

DataInv ==
    /\ ~switch.active => Idle(switch)
    /\ \A id \in Ids : data[id] # NoFrame => state[id] # "new"
    /\ \A id \in ghosts \cup StoppedAnims : data[id] = NoFrame

FrameInv ==
    /\ \A f \in Frames : frame[f].pushed => f \in seen
    /\ RestingFramesWhole /\ OpensFirstOnly /\ SeenFramesExist

WInv == ClockOK /\ WindowTypeOK /\ OverlayHasAnimation /\ AnimationsHaveOwners /\ DataInv /\ FrameInv

-----------------------------------------------------------------------------
\* What a handler's calls leave running.
LEMMA CallsFacts ==
    ASSUME ClockOK, NEW begun, NEW dropped, Calls(begun, dropped)
    PROVE  /\ ClockOK'
           /\ \A id \in Ids :
                /\ Running(id)' <=> id \in begun \/ (Running(id) /\ id \notin dropped)
                /\ state'[id] = "new" => state[id] = "new"
                /\ id \in begun => ~Running(id) /\ state'[id] # "new"
  BY DEF Calls, ClockOK, Running, States

\* aiwr_anim_start hands out an id nobody has.
LEMMA NextIdsFacts ==
    ASSUME NEW id \in NextIds
    PROVE  id \in Ids /\ state[id] = "new"
  BY DEF NextIds

\* A done callback runs when its animation is over.
LEMMA EndFacts ==
    ASSUME ClockOK, NEW id \in Ids, End(id)
    PROVE  /\ ClockOK' /\ Running(id)
           /\ \A k \in Ids : /\ Running(k)' <=> Running(k) /\ k # id
                             /\ state'[k] = "new" => state[k] = "new"
  BY DEF End, ClockOK, Running, States

\* The clock's own variables unchanged, nothing about it changes.
LEMMA IdleFacts ==
    ASSUME ClockOK, UNCHANGED state
    PROVE  ClockOK' /\ \A id \in Ids : Running(id)' <=> Running(id)
  BY DEF ClockOK, Running

LEMMA WindowInitOK ==
    ASSUME WindowInit
    PROVE  WInv
<1> USE WindowAssumption
<1>1. ClockOK
  BY DEF WindowInit, Init, ClockOK, States
<1>2. PICK old \in SUBSET Frames : frame = [f \in Frames |-> Window(f \in old)] /\ seen = old
  BY DEF WindowInit
<1>a. WindowTypeOK
  <2>s. switch \in SwitchType
    BY DEF WindowInit, SwitchInit, SwitchType
  <2>o. overview \in BOOLEAN
    BY DEF WindowInit, SwitchInit
  <2>1. SwitchTypeOK
    BY <2>s, <2>o DEF SwitchTypeOK, SwitchType
  <2>2. frame \in [Frames -> [exists : BOOLEAN, mapped : BOOLEAN, shrunk : BOOLEAN,
                             faded : BOOLEAN, pushed : BOOLEAN, reopened : BOOLEAN]]
    BY <1>2 DEF Window
  <2>3. QED
    BY <1>2, <2>1, <2>2 DEF WindowInit, WindowTypeOK
<1>3. OverlayHasAnimation /\ AnimationsHaveOwners
  BY DEF WindowInit, Init, SwitchInit, OverlayHasAnimation, AnimationsHaveOwners, Running,
         StoppedAnims
<1>4. DataInv
  <2>1. Idle(switch)
    BY DEF WindowInit, SwitchInit, Idle, SwitchType
  <2>2. QED
    BY <2>1 DEF WindowInit, DataInv, StoppedAnims, Idle
<1>5. FrameInv
  BY <1>2 DEF FrameInv, RestingFramesWhole, OpensFirstOnly, SeenFramesExist, Exists, Window
<1>6. QED
  BY <1>1, <1>a, <1>3, <1>4, <1>5 DEF WInv

-----------------------------------------------------------------------------
(* The workspace transition: windows keep what they have. *)

\* A transition stops: its animation, if any, is cancelled or has ended, and the
\* others run on.
LEMMA IdleOverlay ==
    ASSUME NEW s, Idle(s), NEW o \in {"none", "parked"}
    PROVE  Idle([s EXCEPT !.overlay = o])
  BY DEF Idle, SwitchType

LEMMA StoppedFacts ==
    ASSUME WInv
    PROVE  /\ Idle(Stopped(switch))
           /\ \A o \in {"none", "parked"} : Idle([Stopped(switch) EXCEPT !.overlay = o])
<1>0. SUFFICES Idle(Stopped(switch))
  BY IdleOverlay
<1>1. CASE switch.active
  <2>1. Stopped(switch) = [active |-> FALSE, anim |-> 0, layers |-> FALSE, overlay |-> "parked"]
    BY <1>1 DEF Stopped
  <2>2. QED
    BY <2>1, WindowAssumption DEF Idle, SwitchType
<1>2. CASE ~switch.active
  BY <1>2 DEF Stopped, WInv, DataInv
<1>3. QED
  BY <1>1, <1>2

LEMMA StopOK ==
    ASSUME WInv, ClockOK', UNCHANGED windowVars, overview' \in BOOLEAN, Idle(switch)',
           \A id \in Ids : Running(id)' <=> Running(id) /\ id \notin StoppedAnims,
           \A id \in Ids : state'[id] = "new" => state[id] = "new"
    PROVE  WInv'
<1> USE DEF WInv, windowVars
<1>1. /\ switch'.active = FALSE /\ switch'.anim = 0 /\ switch'.layers = FALSE
      /\ switch'.overlay # "shown" /\ StoppedAnims' = {}
  BY DEF Idle, StoppedAnims
<1>2. WindowTypeOK'
  <2>2. SwitchTypeOK'
    BY DEF SwitchTypeOK, Idle, SwitchType
  <2>3. QED
    BY <2>2 DEF WindowTypeOK
<1>3. OverlayHasAnimation'
  BY <1>1 DEF OverlayHasAnimation
<1>4. AnimationsHaveOwners'
  <2>1. ASSUME NEW id \in Ids
        PROVE  Running(id)' <=> id \in ghosts \/ \E item \in items : item.anim = id
    <3>1. /\ \A item \in items : item.anim \notin StoppedAnims
          /\ ghosts \cap StoppedAnims = {}
          /\ switch.active /\ switch.anim = id <=> id \in StoppedAnims
      BY DEF AnimationsHaveOwners, StoppedAnims
    <3>2. QED
      BY <3>1 DEF AnimationsHaveOwners
  <2>2. \A item \in items : item.anim \notin ghosts
    BY DEF AnimationsHaveOwners
  <2>3. QED
    BY <1>1, <2>1, <2>2 DEF AnimationsHaveOwners, Exists, ItemsOf
<1>5. DataInv'
  <2>1. \A id \in Ids : data[id] # NoFrame => state'[id] # "new"
    BY DEF DataInv
  <2>2. QED
    BY <1>1, <2>1 DEF DataInv
<1>6. FrameInv'
  BY DEF FrameInv, RestingFramesWhole, OpensFirstOnly, SeenFramesExist, Exists, ItemsOf
<1>7. QED
  BY <1>2, <1>3, <1>4, <1>5, <1>6

\* workspace_transition_begin, with and without a new transition
LEMMA SwitchBeginOK ==
    ASSUME WInv, SwitchBegin, UNCHANGED windowVars
    PROVE  WInv'
<1>1. ClockOK
  BY DEF WInv
<1>2. overview' \in BOOLEAN
  BY DEF SwitchBegin, WInv, WindowTypeOK, SwitchTypeOK
<1>3. CASE /\ Calls({}, StoppedAnims)
           /\ switch' \in {Stopped(switch), [Stopped(switch) EXCEPT !.overlay = "none"],
                          [Stopped(switch) EXCEPT !.overlay = "parked"]}
  <2>1. Idle(switch)'
    BY <1>3, StoppedFacts
  <2>2. QED
    BY <1>1, <1>2, <1>3, <2>1, CallsFacts, StopOK
<1>4. CASE \E id \in NextIds :
             /\ Calls({id}, StoppedAnims)
             /\ switch' = [active |-> TRUE, anim |-> id, layers |-> TRUE, overlay |-> "shown"]
  <2>1. PICK new \in NextIds :
          /\ Calls({new}, StoppedAnims)
          /\ switch' = [active |-> TRUE, anim |-> new, layers |-> TRUE, overlay |-> "shown"]
    BY <1>4
  <2>2. new \in Ids /\ state[new] = "new" /\ new # 0
    BY NextIdsFacts, WindowAssumption DEF Ids
  <2>3. /\ ClockOK'
        /\ \A id \in Ids : /\ Running(id)' <=> id = new \/ (Running(id) /\ id \notin StoppedAnims)
                           /\ state'[id] = "new" => state[id] = "new"
        /\ ~Running(new) /\ state'[new] # "new"
    BY <1>1, <2>1, <2>2, CallsFacts
  <2>4. StoppedAnims' = {new} /\ switch'.active /\ switch'.anim = new
    BY <2>1 DEF StoppedAnims
  <2>5. new \notin ghosts /\ (\A item \in items : item.anim # new) /\ data[new] = NoFrame
    BY <2>2, <2>3 DEF WInv, AnimationsHaveOwners, DataInv
  <2>6. WindowTypeOK'
    <3>1. SwitchTypeOK'
      BY <1>2, <2>1, <2>2, WindowAssumption DEF SwitchTypeOK, Ids
    <3>2. QED
      BY <3>1 DEF WInv, WindowTypeOK, windowVars
  <2>7. OverlayHasAnimation'
    BY <2>1, <2>2, <2>3 DEF OverlayHasAnimation, Running
  <2>8. AnimationsHaveOwners'
    <3>1. ASSUME NEW id \in Ids
          PROVE  Running(id)' <=> id \in ghosts \/ (\E item \in items : item.anim = id) \/ id = new
      <4>1. /\ \A item \in items : item.anim \notin StoppedAnims
            /\ ghosts \cap StoppedAnims = {}
            /\ switch.active /\ switch.anim = id <=> id \in StoppedAnims
        BY DEF WInv, AnimationsHaveOwners, StoppedAnims
      <4>2. QED
        BY <2>3, <4>1 DEF WInv, AnimationsHaveOwners
    <3>2. QED
      BY <2>4, <2>5, <3>1 DEF WInv, AnimationsHaveOwners, Exists, ItemsOf, windowVars
  <2>9. DataInv'
    BY <2>3, <2>4, <2>5 DEF WInv, DataInv, windowVars
  <2>10. FrameInv'
    BY DEF WInv, FrameInv, RestingFramesWhole, OpensFirstOnly, SeenFramesExist, Exists, ItemsOf,
           windowVars
  <2>11. QED
    BY <2>3, <2>6, <2>7, <2>8, <2>9, <2>10 DEF WInv
<1>5. QED
  BY <1>3, <1>4 DEF SwitchBegin

LEMMA SwitchNextOK ==
    ASSUME WInv, SwitchNext, UNCHANGED windowVars
    PROVE  WInv'
<1>1. ClockOK /\ overview \in BOOLEAN
  BY DEF WInv, WindowTypeOK, SwitchTypeOK
<1>2. CASE SwitchBegin
  BY <1>2, SwitchBeginOK
<1>3. CASE SwitchDone
  <2>1. switch.anim \in Ids /\ StoppedAnims = {switch.anim} /\ End(switch.anim)
    BY <1>3, WindowAssumption
    DEF SwitchDone, StoppedAnims, WInv, OverlayHasAnimation, WindowTypeOK, SwitchTypeOK, Ids
  <2>2. Idle(switch)' /\ overview' \in BOOLEAN
    BY <1>1, <1>3, StoppedFacts DEF SwitchDone
  <2>3. QED
    BY <1>1, <2>1, <2>2, EndFacts, StopOK
<1>4. CASE SwitchAbort
  <2>1. Idle(switch)' /\ overview' \in BOOLEAN
    BY <1>1, <1>4, StoppedFacts DEF SwitchAbort
  <2>2. QED
    BY <1>1, <1>4, <2>1, CallsFacts, StopOK DEF SwitchAbort
<1>5. CASE OverviewToggles
  <2>1. UNCHANGED <<state, switch>> /\ overview' \in BOOLEAN
    BY <1>1, <1>5 DEF OverviewToggles
  <2>2. QED
    BY <2>1 DEF WInv, ClockOK, WindowTypeOK, SwitchTypeOK, OverlayHasAnimation, AnimationsHaveOwners,
                Running, StoppedAnims, DataInv, Idle, FrameInv, RestingFramesWhole, OpensFirstOnly,
                SeenFramesExist, Exists, ItemsOf, windowVars
<1>6. QED
  BY <1>2, <1>3, <1>4, <1>5 DEF SwitchNext

-----------------------------------------------------------------------------
(* Frames: the transition keeps what it has, and the clock runs on where no *)
(* opening is cancelled.                                                    *)

FrameType == [exists : BOOLEAN, mapped : BOOLEAN, shrunk : BOOLEAN,
              faded : BOOLEAN, pushed : BOOLEAN, reopened : BOOLEAN]

\* Only frames change, and none that exists goes.
LEMMA FrameOnlyOK ==
    ASSUME WInv, UNCHANGED <<state, switchVars, items, data, ghosts>>,
           frame' \in [Frames -> FrameType], \A f \in Frames : Exists(f) => Exists(f)', FrameInv',
           seen' \subseteq Frames
    PROVE  WInv'
<1> USE DEF switchVars
<1>1. ClockOK' /\ OverlayHasAnimation'
  BY DEF WInv, ClockOK, OverlayHasAnimation
<1>2. WindowTypeOK'
  BY DEF WInv, WindowTypeOK, SwitchTypeOK, FrameType
<1>3. AnimationsHaveOwners'
  <2>1. \A item \in items : item.frame \in Frames
    BY DEF WInv, WindowTypeOK, Item
  <2>2. QED
    BY <2>1 DEF WInv, AnimationsHaveOwners, Running, ItemsOf, StoppedAnims
<1>4. DataInv'
  BY DEF WInv, DataInv, StoppedAnims, Idle
<1>5. QED
  BY <1>1, <1>2, <1>3, <1>4 DEF WInv

LEMMA CreateFrameOK ==
    ASSUME WInv, NEW f \in Frames, CreateFrame(f)
    PROVE  WInv'
<1>1. frame \in [Frames -> FrameType] /\ seen \subseteq Frames
  BY DEF WInv, WindowTypeOK, FrameType
<1>2. frame' \in [Frames -> FrameType]
  BY <1>1 DEF CreateFrame, NoWindow, Window, FrameType
<1>3. FrameInv'
  BY <1>1 DEF CreateFrame, NoWindow, Window, WInv, FrameInv, RestingFramesWhole, OpensFirstOnly,
              SeenFramesExist, Exists, ItemsOf
<1>4. \A g \in Frames : Exists(g) => Exists(g)'
  BY <1>1 DEF CreateFrame, NoWindow, Window, Exists
<1>5. QED
  BY <1>1, <1>2, <1>3, <1>4, FrameOnlyOK DEF CreateFrame

LEMMA MapFrameOK ==
    ASSUME WInv, NEW f \in Frames, NEW mapped \in BOOLEAN, MapFrame(f, mapped)
    PROVE  WInv'
<1>1. frame \in [Frames -> FrameType] /\ seen \subseteq Frames
  BY DEF WInv, WindowTypeOK, FrameType
<1>2. frame' \in [Frames -> FrameType]
  BY <1>1 DEF MapFrame, FrameType
<1>3. FrameInv'
  BY <1>1 DEF MapFrame, WInv, FrameInv, RestingFramesWhole, OpensFirstOnly,
              SeenFramesExist, Exists, ItemsOf, FrameType
<1>4. \A g \in Frames : Exists(g) => Exists(g)'
  BY <1>1 DEF MapFrame, Exists, FrameType
<1>5. QED
  BY <1>1, <1>2, <1>3, <1>4, FrameOnlyOK DEF MapFrame

\* wa_step: the opening that steps has its item, so that the frame is not at rest.
LEMMA OpenStepOK ==
    ASSUME WInv, NEW id \in Ids, OpenStep(id)
    PROVE  WInv'
<1>1. frame \in [Frames -> FrameType] /\ seen \subseteq Frames /\ data[id] \in Frames
  BY DEF WInv, WindowTypeOK, FrameType, OpenStep
<1>2. frame' \in [Frames -> FrameType]
  BY <1>1 DEF OpenStep, FrameType
<1>3. ItemsOf(data[id]) # {}
  BY <1>1 DEF OpenStep, WInv, AnimationsHaveOwners, DataInv, StoppedAnims, ItemsOf, Running
<1>4. \A g \in Frames : Exists(g) <=> Exists(g)'
  BY <1>1 DEF OpenStep, Exists, FrameType
<1>5. FrameInv'
  <2>1. \A g \in Frames : /\ frame'[g].pushed = frame[g].pushed
                          /\ frame'[g].reopened = frame[g].reopened
                          /\ g # data[id] => frame'[g] = frame[g]
    BY <1>1 DEF OpenStep, FrameType
  <2>2. RestingFramesWhole'
    BY <1>3, <1>4, <2>1, ZenonT(60) DEF OpenStep, WInv, FrameInv, RestingFramesWhole, ItemsOf
  <2>3. QED
    BY <1>1, <1>4, <2>1, <2>2 DEF OpenStep, WInv, FrameInv, OpensFirstOnly, SeenFramesExist
<1>6. QED
  BY <1>1, <1>2, <1>4, <1>5, FrameOnlyOK DEF OpenStep

\* The transition and the overlay, when an action neither touches them nor
\* stops their animation.
LEMMA SwitchKept ==
    ASSUME WInv, UNCHANGED switchVars, \A id \in StoppedAnims : Running(id) => Running(id)'
    PROVE  SwitchTypeOK' /\ OverlayHasAnimation' /\ StoppedAnims' = StoppedAnims
<1>1. switch.active => switch.anim \in Ids /\ Running(switch.anim)
  BY WindowAssumption DEF WInv, OverlayHasAnimation, WindowTypeOK, SwitchTypeOK, Ids, Running
<1>2. SwitchTypeOK'
  BY DEF WInv, WindowTypeOK, SwitchTypeOK, switchVars
<1>3. StoppedAnims' = StoppedAnims
  BY DEF switchVars, StoppedAnims
<1>4. switch.active => state'[switch.anim] = "running"
  <2>1. SUFFICES ASSUME switch.active PROVE state'[switch.anim] = "running"
    OBVIOUS
  <2>2. switch.anim \in StoppedAnims
    BY <2>1 DEF StoppedAnims
  <2>3. Running(switch.anim)
    BY <1>1, <2>1
  <2>4. QED
    BY <2>2, <2>3 DEF Running
<1>5. OverlayHasAnimation'
  <2>1. ~switch.active => switch.anim = 0
    BY DEF WInv, DataInv, Idle
  <2>2. QED
    BY <1>4, <2>1 DEF WInv, OverlayHasAnimation, switchVars
<1>6. QED
  BY <1>2, <1>3, <1>5

\* A frame gets its geometry, and with it, the first time, perhaps its opening.
LEMMA PushRectOK ==
    ASSUME WInv, NEW f \in Frames, PushRect(f)
    PROVE  WInv'
<1>1. frame \in [Frames -> FrameType] /\ seen \subseteq Frames /\ ClockOK
  BY DEF WInv, WindowTypeOK, FrameType
<1>2. CASE /\ frame' = [frame EXCEPT ![f].shrunk = FALSE, ![f].pushed = TRUE]
           /\ UNCHANGED <<state, doneCalls, items, data>>
  <2>1. frame' \in [Frames -> FrameType] /\ seen' \subseteq Frames
    <3>1. frame' \in [Frames -> FrameType]
      BY <1>1, <1>2 DEF FrameType
    <3>2. QED
      BY <1>1, <3>1 DEF PushRect
  <2>2. \A g \in Frames : Exists(g) <=> Exists(g)'
    BY <1>1, <1>2 DEF FrameType, Exists
  <2>3. FrameInv'
    BY <1>1, <1>2, <2>2 DEF PushRect, WInv, FrameInv, RestingFramesWhole, OpensFirstOnly,
                          SeenFramesExist, ItemsOf, FrameType
  <2>4. QED
    BY <1>2, <2>1, <2>2, <2>3, FrameOnlyOK DEF PushRect
<1>3. CASE /\ f \notin seen /\ MayAnimate /\ ItemsOf(f) = {}
           /\ \E id \in NextIds :
                /\ Calls({id}, {})
                /\ items' = items \cup {[frame |-> f, anim |-> id]}
                /\ data' = [data EXCEPT ![id] = f]
           /\ frame' = [frame EXCEPT ![f].shrunk = TRUE, ![f].pushed = TRUE,
                                     ![f].reopened = frame[f].pushed]
  <2>1. PICK new \in NextIds :
          /\ Calls({new}, {})
          /\ items' = items \cup {[frame |-> f, anim |-> new]}
          /\ data' = [data EXCEPT ![new] = f]
    BY <1>3
  <2>2. new \in Ids /\ state[new] = "new" /\ f # NoFrame
    BY NextIdsFacts, WindowAssumption
  <2>3. /\ ClockOK'
        /\ \A id \in Ids : /\ Running(id)' <=> id = new \/ Running(id)
                           /\ state'[id] = "new" => state[id] = "new"
        /\ ~Running(new) /\ state'[new] # "new"
    BY <1>1, <2>1, <2>2, CallsFacts
  <2>4. new \notin ghosts \cup StoppedAnims /\ \A item \in items : item.anim # new
    BY <2>2, <2>3, WindowAssumption
    DEF WInv, AnimationsHaveOwners, StoppedAnims
  <2>5. SwitchTypeOK' /\ OverlayHasAnimation' /\ StoppedAnims' = StoppedAnims
    <3>1. StoppedAnims \subseteq Ids
      BY WindowAssumption
      DEF WInv, OverlayHasAnimation, WindowTypeOK, SwitchTypeOK, Ids, StoppedAnims
    <3>2. QED
      BY <2>3, <3>1, SwitchKept DEF PushRect
  <2>6. frame' \in [Frames -> FrameType] /\ \A g \in Frames : Exists(g) <=> Exists(g)'
    BY <1>1, <1>3, ZenonT(60) DEF FrameType, Exists
  <2>7. WindowTypeOK'
    BY <2>1, <2>2, <2>5, <2>6 DEF PushRect, WInv, WindowTypeOK, FrameType, Item
  <2>8. AnimationsHaveOwners'
    <3>1. data \in [Ids -> Frames \cup {NoFrame}] /\ items \subseteq Item
      BY DEF WInv, WindowTypeOK
    <3>2. \A item \in items : item.frame # f /\ item.frame \in Frames /\ item.anim \in Ids
      BY <1>3, <3>1 DEF ItemsOf, Item
    <3>3. \A item \in items' : item \in items \/ item = [frame |-> f, anim |-> new]
      BY <2>1
    <3>4. ASSUME NEW id \in Ids
          PROVE  Running(id)' <=> id \in ghosts \/ (\E item \in items' : item.anim = id)
                                 \/ (switch.active /\ switch.anim = id)
      <4>0. [frame |-> f, anim |-> new] \in items' /\ [frame |-> f, anim |-> new].anim = new
        BY <2>1
      <4>1. (\E item \in items' : item.anim = id) <=> id = new \/ \E item \in items : item.anim = id
        BY <2>1, <4>0
      <4>2. QED
        BY <2>3, <4>1 DEF WInv, AnimationsHaveOwners
    <3>5. ASSUME NEW item \in items'
          PROVE  /\ data'[item.anim] = item.frame /\ Exists(item.frame)'
                 /\ \A other \in ItemsOf(item.frame)' : other = item
                 /\ item.anim \notin ghosts \cup StoppedAnims
      <4>1. CASE item \in items
        BY <2>1, <2>4, <2>6, <3>1, <3>2, <3>3, <4>1 DEF WInv, AnimationsHaveOwners, ItemsOf
      <4>2. CASE item = [frame |-> f, anim |-> new]
        <5>1. data'[item.anim] = item.frame /\ Exists(item.frame)'
          BY <2>1, <2>2, <2>6, <3>1, <4>2 DEF PushRect
        <5>2. \A other \in ItemsOf(item.frame)' : other = item
          BY <3>2, <3>3, <4>2 DEF ItemsOf
        <5>3. QED
          BY <2>4, <4>2, <5>1, <5>2
      <4>3. QED
        BY <3>3, <4>1, <4>2
    <3>6. QED
      BY <2>5, <3>4, <3>5 DEF PushRect, switchVars, AnimationsHaveOwners, WInv
  <2>9. DataInv'
    <3>1. data \in [Ids -> Frames \cup {NoFrame}] /\ ghosts \subseteq Ids
      BY DEF WInv, WindowTypeOK
    <3>2. \A id \in Ids : data'[id] # NoFrame => state'[id] # "new"
      BY <2>1, <2>2, <2>3, <3>1 DEF WInv, DataInv
    <3>3. \A id \in ghosts \cup StoppedAnims : data'[id] = NoFrame
      BY <2>1, <2>4, <3>1 DEF WInv, DataInv
    <3>4. Idle(switch)' <=> Idle(switch)
      BY DEF PushRect, switchVars, Idle
    <3>5. QED
      BY <2>5, <3>2, <3>3, <3>4 DEF PushRect, switchVars, DataInv, WInv
  <2>10. FrameInv'
    <3>1. \A g \in Frames \ {f} : frame'[g] = frame[g] /\ ItemsOf(g)' = ItemsOf(g)
      BY <1>1, <1>3, <2>1 DEF ItemsOf
    <3>2. [frame |-> f, anim |-> new] \in ItemsOf(f)'
      BY <2>1 DEF ItemsOf
    <3>3. ~frame'[f].reopened
      BY <1>1, <1>3 DEF FrameType, WInv, FrameInv
    <3>4. RestingFramesWhole' /\ OpensFirstOnly'
      BY <2>6, <3>1, <3>2, <3>3 DEF WInv, FrameInv, RestingFramesWhole, OpensFirstOnly
    <3>5. SeenFramesExist' /\ \A g \in Frames : frame'[g].pushed => g \in seen'
      BY <1>1, <2>6, <3>1 DEF PushRect, WInv, FrameInv, SeenFramesExist
    <3>6. QED
      BY <3>4, <3>5 DEF FrameInv
  <2>11. QED
    BY <2>3, <2>5, <2>7, <2>8, <2>9, <2>10 DEF WInv
<1>4. QED
  BY <1>2, <1>3 DEF PushRect

\* An opening ends: its item is the only one of its frame.
LEMMA OpenDoneOK ==
    ASSUME WInv, NEW id \in Ids, OpenDone(id)
    PROVE  WInv'
<1> DEFINE f == data[id]
<1>1. frame \in [Frames -> FrameType] /\ seen \subseteq Frames /\ ClockOK /\ f \in Frames
  BY DEF WInv, WindowTypeOK, FrameType, OpenDone
<1>2. /\ ClockOK' /\ Running(id)
      /\ \A k \in Ids : /\ Running(k)' <=> Running(k) /\ k # id
                        /\ state'[k] = "new" => state[k] = "new"
  BY <1>1, EndFacts DEF OpenDone
<1>3. id \notin ghosts \cup StoppedAnims
  BY <1>1, WindowAssumption DEF OpenDone, WInv, DataInv
<1>4. \A item \in items : item.anim = id <=> item.frame = f
  <2>1. PICK mine \in items : mine.anim = id
    BY <1>2, <1>3 DEF WInv, AnimationsHaveOwners, StoppedAnims
  <2>2. mine.frame = f
    BY <2>1 DEF WInv, AnimationsHaveOwners
  <2>3. ASSUME NEW item \in items, item.frame = f
        PROVE  item = mine
    BY <2>2, <2>3 DEF WInv, AnimationsHaveOwners, ItemsOf
  <2>4. ASSUME NEW item \in items, item.anim = id
        PROVE  item.frame = f
    BY <2>4 DEF WInv, AnimationsHaveOwners
  <2>5. QED
    BY <2>1, <2>3, <2>4
<1>5. items' = {item \in items : item.frame # f}
  BY DEF OpenDone, ItemsOf
<1>6. SwitchTypeOK' /\ OverlayHasAnimation' /\ StoppedAnims' = StoppedAnims
  <2>1. StoppedAnims \subseteq Ids
    BY WindowAssumption
    DEF WInv, OverlayHasAnimation, WindowTypeOK, SwitchTypeOK, Ids, StoppedAnims
  <2>2. QED
    BY <1>2, <1>3, <2>1, SwitchKept DEF OpenDone
<1>7. /\ frame' \in [Frames -> FrameType]
      /\ \A g \in Frames : /\ Exists(g) <=> Exists(g)'
                           /\ frame'[g].pushed = frame[g].pushed
                           /\ frame'[g].reopened = frame[g].reopened
                           /\ g # f => frame'[g] = frame[g]
      /\ Exists(f) => ~frame'[f].shrunk /\ ~frame'[f].faded
  BY <1>1 DEF OpenDone, Exists, FrameType
<1>8. WindowTypeOK'
  BY <1>5, <1>6, <1>7 DEF OpenDone, WInv, WindowTypeOK, FrameType
<1>9. AnimationsHaveOwners'
  <2>1. ASSUME NEW k \in Ids
        PROVE  Running(k)' <=> k \in ghosts \/ (\E item \in items' : item.anim = k)
                              \/ (switch.active /\ switch.anim = k)
    <3>1. (\E item \in items' : item.anim = k) <=> k # id /\ \E item \in items : item.anim = k
      BY <1>4, <1>5
    <3>2. switch.active /\ switch.anim = k => k # id
      BY <1>3 DEF StoppedAnims
    <3>3. QED
      BY <1>2, <1>3, <3>1, <3>2 DEF WInv, AnimationsHaveOwners
  <2>2. \A item \in items' : item \in items /\ item.frame \in Frames
    BY <1>5 DEF WInv, WindowTypeOK, Item
  <2>3. \A item \in items' :
          /\ data[item.anim] = item.frame /\ Exists(item.frame)'
          /\ \A other \in ItemsOf(item.frame)' : other = item
          /\ item.anim \notin ghosts \cup StoppedAnims
    BY <1>5, <1>7, <2>2 DEF WInv, AnimationsHaveOwners, ItemsOf
  <2>4. QED
    BY <1>6, <2>1, <2>3 DEF OpenDone, switchVars, AnimationsHaveOwners, WInv
<1>10. DataInv'
  BY <1>2, <1>6 DEF OpenDone, switchVars, WInv, DataInv, Idle
<1>11. FrameInv'
  <2>1. \A g \in Frames \ {f} : ItemsOf(g)' = ItemsOf(g)
    BY <1>5 DEF ItemsOf
  <2>2. RestingFramesWhole'
    BY <1>7, <2>1 DEF WInv, FrameInv, RestingFramesWhole
  <2>3. QED
    BY <1>1, <1>7, <2>2 DEF OpenDone, WInv, FrameInv, OpensFirstOnly, SeenFramesExist
<1>12. QED
  BY <1>2, <1>6, <1>8, <1>9, <1>10, <1>11 DEF WInv

\* A ghost ends.
LEMMA GhostDoneOK ==
    ASSUME WInv, NEW id \in Ids, GhostDone(id)
    PROVE  WInv'
<1>1. ClockOK
  BY DEF WInv
<1>2. /\ ClockOK' /\ Running(id)
      /\ \A k \in Ids : /\ Running(k)' <=> Running(k) /\ k # id
                        /\ state'[k] = "new" => state[k] = "new"
  BY <1>1, EndFacts DEF GhostDone
<1>3. id \notin StoppedAnims /\ \A item \in items : item.anim # id
  BY DEF GhostDone, WInv, AnimationsHaveOwners
<1>4. SwitchTypeOK' /\ OverlayHasAnimation' /\ StoppedAnims' = StoppedAnims
  <2>1. StoppedAnims \subseteq Ids
    BY WindowAssumption
    DEF WInv, OverlayHasAnimation, WindowTypeOK, SwitchTypeOK, Ids, StoppedAnims
  <2>2. QED
    BY <1>2, <1>3, <2>1, SwitchKept DEF GhostDone
<1>5. WindowTypeOK'
  BY <1>4 DEF GhostDone, WInv, WindowTypeOK
<1>6. AnimationsHaveOwners'
  <2>1. ASSUME NEW k \in Ids
        PROVE  Running(k)' <=> k \in ghosts \ {id} \/ (\E item \in items : item.anim = k)
                              \/ (switch.active /\ switch.anim = k)
    <3>1. switch.active /\ switch.anim = k => k # id
      BY <1>3 DEF StoppedAnims
    <3>2. QED
      BY <1>2, <1>3, <3>1 DEF WInv, AnimationsHaveOwners
  <2>2. QED
    BY <1>4, <2>1 DEF GhostDone, switchVars, AnimationsHaveOwners, WInv, ItemsOf, Exists
<1>7. DataInv'
  BY <1>2, <1>4 DEF GhostDone, switchVars, WInv, DataInv, Idle
<1>8. FrameInv'
  BY DEF GhostDone, WInv, FrameInv, RestingFramesWhole, OpensFirstOnly, SeenFramesExist, Exists, ItemsOf
<1>9. QED
  BY <1>2, <1>4, <1>5, <1>6, <1>7, <1>8 DEF WInv

\* A frame goes, with its opening; a ghost may stay behind.
LEMMA KillFrameOK ==
    ASSUME WInv, NEW f \in Frames, KillFrame(f)
    PROVE  WInv'
<1> DEFINE cancelled == {item.anim : item \in ItemsOf(f)}
<1>1. frame \in [Frames -> FrameType] /\ seen \subseteq Frames /\ ClockOK
  BY DEF WInv, WindowTypeOK, FrameType
<1>2. PICK begun \in SUBSET Ids :
        /\ Calls(begun, cancelled) /\ ghosts' = ghosts \cup begun
        /\ \A id \in begun : state[id] = "new"
  <2> HIDE DEF cancelled
  <2>1. CASE Calls({}, cancelled) /\ UNCHANGED ghosts
    <3>1. {} \in SUBSET Ids /\ ghosts' = ghosts \cup {}
      BY <2>1
    <3>2. QED
      BY <2>1, <3>1
  <2>2. CASE \E new \in NextIds : Calls({new}, cancelled) /\ ghosts' = ghosts \cup {new}
    <3>1. PICK new \in NextIds : Calls({new}, cancelled) /\ ghosts' = ghosts \cup {new}
      BY <2>2
    <3>2. {new} \in SUBSET Ids /\ \A id \in {new} : state[id] = "new"
      BY NextIdsFacts
    <3>3. QED
      BY <3>1, <3>2
  <2>3. \/ Calls({}, cancelled) /\ UNCHANGED ghosts
        \/ \E new \in NextIds : Calls({new}, cancelled) /\ ghosts' = ghosts \cup {new}
    BY DEF KillFrame, cancelled
  <2>4. QED
    BY <2>1, <2>2, <2>3
<1> HIDE DEF cancelled
<1>3. /\ ClockOK'
      /\ \A id \in Ids : /\ Running(id)' <=> id \in begun \/ (Running(id) /\ id \notin cancelled)
                         /\ state'[id] = "new" => state[id] = "new"
                         /\ id \in begun => ~Running(id) /\ state'[id] # "new"
  BY <1>1, <1>2, CallsFacts
<1>4. \A item \in items : item.anim \in cancelled <=> item.frame = f
  <2>1. ASSUME NEW item \in items, item.anim \in cancelled
        PROVE  item.frame = f
    <3>1. PICK mine \in items : mine.frame = f /\ mine.anim = item.anim
      BY <2>1 DEF cancelled, ItemsOf
    <3>2. data[mine.anim] = mine.frame /\ data[item.anim] = item.frame
      BY DEF WInv, AnimationsHaveOwners
    <3>3. QED
      BY <3>1, <3>2
  <2>2. QED
    BY <2>1 DEF cancelled, ItemsOf
<1>5. \A id \in cancelled : id \notin ghosts \cup StoppedAnims /\ \E item \in items : item.anim = id
  BY DEF cancelled, ItemsOf, WInv, AnimationsHaveOwners
<1>6. \A id \in begun : /\ id \notin ghosts \cup StoppedAnims /\ data[id] = NoFrame
                       /\ \A item \in items : item.anim # id
  <2>1. SUFFICES ASSUME NEW id \in begun
                 PROVE  /\ id \notin ghosts \cup StoppedAnims /\ data[id] = NoFrame
                        /\ \A item \in items : item.anim # id
    OBVIOUS
  <2>2. ~Running(id) /\ data[id] = NoFrame
    BY <1>2, <1>3 DEF WInv, DataInv
  <2>3. QED
    BY <2>2 DEF WInv, AnimationsHaveOwners, StoppedAnims
<1>7. items' = {item \in items : item.frame # f}
  BY DEF KillFrame, ItemsOf
<1>8. SwitchTypeOK' /\ OverlayHasAnimation' /\ StoppedAnims' = StoppedAnims
  <2>1. StoppedAnims \subseteq Ids
    BY WindowAssumption
    DEF WInv, OverlayHasAnimation, WindowTypeOK, SwitchTypeOK, Ids, StoppedAnims
  <2>2. QED
    BY <1>3, <1>5, <2>1, SwitchKept DEF KillFrame
<1>9. /\ frame' \in [Frames -> FrameType]
      /\ \A g \in Frames \ {f} : frame'[g] = frame[g]
      /\ ~Exists(f)' /\ ~frame'[f].pushed /\ ~frame'[f].reopened
  BY <1>1 DEF KillFrame, NoWindow, Window, Exists, FrameType
<1>10. WindowTypeOK'
  BY <1>1, <1>2, <1>7, <1>8, <1>9 DEF KillFrame, WInv, WindowTypeOK, FrameType
<1>11. AnimationsHaveOwners'
  <2>1. ASSUME NEW id \in Ids
        PROVE  Running(id)' <=> id \in ghosts' \/ (\E item \in items' : item.anim = id)
                               \/ (switch.active /\ switch.anim = id)
    <3>1. (\E item \in items' : item.anim = id) <=>
            id \notin cancelled /\ \E item \in items : item.anim = id
      BY <1>4, <1>7
    <3>2. switch.active /\ switch.anim = id => id \notin cancelled
      BY <1>5 DEF StoppedAnims
    <3>3. QED
      BY <1>2, <1>3, <1>5, <3>1, <3>2 DEF WInv, AnimationsHaveOwners
  <2>2. \A item \in items' : item \in items /\ item.frame \in Frames \ {f}
    BY <1>7 DEF WInv, WindowTypeOK, Item
  <2>3. \A item \in items' :
          /\ data[item.anim] = item.frame /\ Exists(item.frame)'
          /\ \A other \in ItemsOf(item.frame)' : other = item
          /\ item.anim \notin ghosts' \cup StoppedAnims
    BY <1>2, <1>6, <1>7, <1>9, <2>2 DEF WInv, AnimationsHaveOwners, ItemsOf, Exists
  <2>4. ghosts' \cap StoppedAnims = {}
    BY <1>2, <1>6 DEF WInv, AnimationsHaveOwners
  <2>5. QED
    BY <1>8, <2>1, <2>3, <2>4 DEF KillFrame, switchVars, AnimationsHaveOwners
<1>12. DataInv'
  BY <1>2, <1>3, <1>6, <1>8 DEF KillFrame, switchVars, WInv, DataInv, Idle
<1>13. FrameInv'
  <2>1. \A g \in Frames \ {f} : ItemsOf(g)' = ItemsOf(g)
    BY <1>7 DEF ItemsOf
  <2>2. RestingFramesWhole'
    BY <1>9, <2>1 DEF WInv, FrameInv, RestingFramesWhole, Exists
  <2>3. SeenFramesExist' /\ \A g \in Frames : frame'[g].pushed => g \in seen'
    BY <1>1, <1>9 DEF KillFrame, WInv, FrameInv, SeenFramesExist, Exists
  <2>4. OpensFirstOnly'
    BY <1>9 DEF WInv, FrameInv, OpensFirstOnly
  <2>5. QED
    BY <2>2, <2>3, <2>4 DEF FrameInv
<1>14. QED
  BY <1>3, <1>8, <1>10, <1>11, <1>12, <1>13 DEF WInv

-----------------------------------------------------------------------------
\* No step breaks the invariant.
LEMMA WindowStepOK ==
    ASSUME WInv, [WindowNext]_allVars
    PROVE  WInv'
<1>1. CASE \E f \in Frames : WindowStep(f)
  BY <1>1, CreateFrameOK, PushRectOK, KillFrameOK, MapFrameOK DEF WindowStep
<1>2. CASE \E id \in Ids : ClockCalls(id)
  BY <1>2, OpenStepOK, OpenDoneOK, GhostDoneOK DEF ClockCalls
<1>3. CASE SwitchNext /\ UNCHANGED windowVars
  BY <1>3, SwitchNextOK
<1>4. CASE UNCHANGED allVars
  BY <1>4 DEF allVars, windowVars, switchVars, WInv, ClockOK, WindowTypeOK, SwitchTypeOK,
              OverlayHasAnimation, AnimationsHaveOwners, Running, StoppedAnims, DataInv, Idle,
              FrameInv, RestingFramesWhole, OpensFirstOnly, SeenFramesExist, Exists, ItemsOf
<1>5. QED
  BY <1>1, <1>2, <1>3, <1>4 DEF WindowNext

\* The invariant holds of every behaviour: the base of the theorems below.
THEOREM WindowInvariant == WindowSpec => []WInv
<1>1. WindowInit => WInv
  BY WindowInitOK
<1>2. WInv /\ [WindowNext]_allVars => WInv'
  BY WindowStepOK
<1>3. QED
  BY <1>1, <1>2, PTL DEF WindowSpec

\* The overlay of a workspace transition is on the screen, and its layers are
\* held, exactly as long as the animation runs that takes them down, for any
\* interleaving of switches, aborts and windows (wt_stop, wt_done).
THEOREM WindowOverlay == WindowSpec => []OverlayHasAnimation
<1>1. WInv => OverlayHasAnimation
  BY DEF WInv
<1>2. QED
  BY <1>1, WindowInvariant, PTL

\* Every running animation has one owner and every owner a running animation:
\* no opening outlives its frame or touches the next frame with its id, and no
\* ghost, item or transition waits for a callback that never comes.
THEOREM WindowOwners == WindowSpec => []AnimationsHaveOwners
<1>1. WInv => AnimationsHaveOwners
  BY DEF WInv
<1>2. QED
  BY <1>1, WindowInvariant, PTL

\* No window is left shrunk or faded when its opening is over, however it ended.
THEOREM WindowRest == WindowSpec => []RestingFramesWhole
<1>1. WInv => RestingFramesWhole
  BY DEF WInv, FrameInv
<1>2. QED
  BY <1>1, WindowInvariant, PTL

\* Frames are seen only while they exist, and opened once (wa_mark_seen,
\* window_animation_forget).
THEOREM WindowSeen == WindowSpec => [](SeenFramesExist /\ OpensFirstOnly)
<1>1. WInv => SeenFramesExist /\ OpensFirstOnly
  BY DEF WInv, FrameInv
<1>2. QED
  BY <1>1, WindowInvariant, PTL

\* The safety of window animations and transitions for any number of frames and
\* animations.
THEOREM WindowSafe == WindowSpec => []WindowSafety
<1>1. WInv => WindowSafety
  BY DEF WInv, FrameInv, WindowSafety
<1>2. QED
  BY <1>1, WindowInvariant, PTL
=============================================================================
