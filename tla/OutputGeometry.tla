--------------------------- MODULE OutputGeometry ---------------------------
(***************************************************************************)
(* Where the outputs are (randr.c:222-337): the next one in a direction, which *)
(* "focus output right" and "move workspace to output right" follow around the *)
(* screens.                                                                    *)
(***************************************************************************)
EXTENDS Integers, Sequences, SequencesExt, FiniteSets

CONSTANT Layouts        \* sequences of rectangles: the outputs in the order of the list

\* Each has at least one output.
ASSUME GeometryAssumption ==
    \A s \in Layouts : s # <<>> /\ s \in Seq([x : Int, y : Int, w : Nat, h : Nat])

VARIABLES screens,              \* the active outputs
          current, direction,   \* the output that is focused, the direction that is taken
          visited               \* where the focus has been

geometryVars == <<screens, current, direction, visited>>

Directions == {"left", "right", "up", "down"}
Opposite == [left |-> "right", right |-> "left", up |-> "down", down |-> "up"]

\* A rectangle along the direction, and across it
Along(q, r) == IF q \in {"left", "right"} THEN r.x ELSE r.y
Across(q, r) == IF q \in {"left", "right"} THEN r.y .. r.y + r.h - 1 ELSE r.x .. r.x + r.w - 1
Further(q, r, s) == IF q \in {"right", "down"} THEN Along(q, r) > Along(q, s) ELSE Along(q, r) < Along(q, s)

Overlap(q, r, s) == Across(q, r) \cap Across(q, s) # {}

\* get_output_next: of the outputs that lie further and overlap across, the closest or
\* the farthest one, the first of them in the list; 0 when there is none
\* mutant: outputs that do not overlap are candidates as well
Candidate_All(q, c, i) == Further(q, screens[i], screens[c])
Candidate(q, c, i) == Further(q, screens[i], screens[c]) /\ Overlap(q, screens[i], screens[c])
Better(q, far, i, b) == IF far THEN Further(q, screens[i], screens[b]) ELSE Further(q, screens[b], screens[i])
Best(q, c, far, b, i) == IF Candidate(q, c, i) /\ (b = 0 \/ Better(q, far, i, b)) THEN i ELSE b
NextOutput(q, c, far) ==
    FoldLeft(LAMBDA b, i : Best(q, c, far, b, i), 0, [i \in DOMAIN screens |-> i])
\* get_output_next_wrap
NextWrap(q, c) ==
    IF NextOutput(q, c, FALSE) # 0 THEN NextOutput(q, c, FALSE)
    ELSE IF NextOutput(Opposite[q], c, TRUE) # 0 THEN NextOutput(Opposite[q], c, TRUE) ELSE c

GeometryInit ==
    /\ screens \in Layouts /\ current \in 1 .. Len(screens) /\ direction \in Directions
    /\ visited = {current}
\* focus output, move workspace to output: get_output_from_string
GoOn ==
    /\ current' = NextWrap(direction, current) /\ visited' = visited \cup {current'}
    /\ UNCHANGED <<screens, direction>>
GeometryNext == GoOn
GeometrySpec == GeometryInit /\ [][GeometryNext]_geometryVars

\* Screens in a row or a column are all reached by going on in one direction, and the next
\* one shares a border's range with the one before, however the list orders them: wrapping
\* around (randr.c:222) neither skips an output nor leaves the row.
Row ==
    \A i, j \in DOMAIN screens :
        i # j => /\ Along(direction, screens[i]) # Along(direction, screens[j])
                 /\ Overlap(direction, screens[i], screens[j])
GoingOnReachesAll ==
    LET next == NextWrap(direction, current)
    IN /\ next # current => Overlap(direction, screens[current], screens[next])
       /\ Row /\ next \in visited => visited = DOMAIN screens
=============================================================================
