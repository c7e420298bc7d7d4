-------------------------------- MODULE MC_X --------------------------------
(***************************************************************************)
(* Instances for TLC of what i3 shows through X: windows and their frames at   *)
(* the server, monitors with the workspaces they show and what is published of   *)
(* them (one workspace assigned and one named by a binding), and the geometry of   *)
(* outputs, screens on a small grid.  Each behaviour is about one of the three.      *)
(***************************************************************************)
EXTENDS XWindows, Outputs, OutputGeometry

CONSTANT Parts
VARIABLE part

FirstMonitor == <<<<2, CHOOSE o \in Monitors : TRUE>>>>
BoundNames == <<2>>

Rect(left, top, w, h) == [x |-> left, y |-> top, w |-> w, h |-> h]
Grid == {Rect(i, j, w, h) : i \in 0 .. 2, j \in 0 .. 1, w \in 1 .. 2, h \in 1 .. 2}
Tall == {r \in Grid : r.w + r.h < 4}
ThreeScreens == {<<p, q, r>> : p \in Tall, q \in Tall, r \in {s \in Tall : s.w = 1}}

vars == <<xVars, outputsVars, geometryVars, part>>
\* a part that is not looked at has one initial state
Still == screens = <<Rect(0, 0, 1, 1)>> /\ current = 1 /\ direction = "left" /\ visited = {1}
Plain == d = UpdateDesktops(Screens({})) /\ randr = [kind |-> "static", n |-> MaxQueries] /\ lagging = {}
Init ==
    /\ part \in Parts /\ XInit
    /\ \/ part = "windows" /\ Plain /\ Still
       \/ part = "outputs" /\ Still /\ OutputsInit
       \/ part = "geometry" /\ Plain /\ GeometryInit
Next ==
    /\ UNCHANGED part
    /\ \/ part = "windows" /\ XNext /\ UNCHANGED <<outputsVars, geometryVars>>
       \/ part = "outputs" /\ OutputsNext /\ UNCHANGED <<xVars, geometryVars>>
       \/ part = "geometry" /\ GeometryNext /\ UNCHANGED <<xVars, outputsVars>>
Spec == Init /\ [][Next]_vars

(* Once the monitors do not change any more, how they were last reported is *)
(* not read again.                                                          *)
Desk ==
  IF randr.n < MaxQueries THEN <<d, lagging, randr>>
  ELSE <<[d EXCEPT !.outs = <<>>, !.primary = {}, !.disable = {}], lagging, MaxQueries>>
View == <<part, xVars, Desk, geometryVars>>
=============================================================================
