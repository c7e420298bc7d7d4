---------------------------- MODULE Scrolling_proofs ----------------------------
(***************************************************************************)
(* Scrolling, for any number of strips, columns and animations.  One scroll *)
(* at a time: every handler leaves the scroll alone, replaces it through    *)
(* scroll_to_offset, or ends it; none of this depends on the strips.  Then  *)
(* the views stay within their strips, which a handler leaves rendered.     *)
(* And the screens the views are on: the outputs of a row, one by one.      *)
(***************************************************************************)
EXTENDS Scrolling, OutputGeometry, FoldLemmas, SequenceTheorems

ScrollInv ==
    /\ state \in [Ids -> States]
    /\ scroll.con \in Strips \cup {NoStrip}
    /\ scroll.anim \in Ids \cup {0}
    /\ OneScroll

-----------------------------------------------------------------------------
LEMMA ScrollInitOK ==
    ASSUME ScrollInit
    PROVE  ScrollInv
  BY ScrollingAssumption DEF Init, ScrollInit, ScrollInv, NoScroll, OneScroll, States, Ids

\* Handlers that neither start nor cancel anything
LEMMA SameScroll ==
    ASSUME ScrollInv, UNCHANGED <<state, scroll>>
    PROVE  ScrollInv'
  BY DEF ScrollInv, OneScroll

\* The scroll ends, by its done callback, an instant scroll or scrolling_forget.
LEMMA NoScrollLeft ==
    ASSUME ScrollInv, state' \in [Ids -> States], scroll' = NoScroll,
           \A id \in Ids : state'[id] = "running" <=> state[id] = "running" /\ id # scroll.anim
    PROVE  ScrollInv'
  BY ScrollingAssumption DEF ScrollInv, OneScroll, NoScroll, Ids

\* What a handler's calls to the clock leave running
LEMMA CallsFacts ==
    ASSUME state \in [Ids -> States], NEW begun, NEW dropped, Calls(begun, dropped)
    PROVE  /\ state' \in [Ids -> States]
           /\ \A id \in Ids : state'[id] = "running" <=>
                id \in begun \/ (state[id] = "running" /\ id \notin dropped)
  BY DEF Calls, States

\* scroll_to_offset cancels the scroll that it replaces.
LEMMA ScrollToOK ==
    ASSUME ScrollInv, NEW u, NEW s \in Strips, NEW target, NEW render, ScrollTo(u, s, target, render)
    PROVE  ScrollInv'
<1>1. CASE UNCHANGED <<state, scroll>>
  BY <1>1, SameScroll
<1>2. CASE Calls({}, {scroll.anim}) /\ scroll' = NoScroll
  <2>1. state \in [Ids -> States]
    BY DEF ScrollInv
  <2>2. QED
    BY <1>2, <2>1, CallsFacts, NoScrollLeft
<1>3. CASE \E id \in NextIds :
             /\ Calls({id}, {scroll.anim})
             /\ scroll' = [con |-> s, from |-> u[s].offset, to |-> target, anim |-> id]
  <2>1. PICK new \in NextIds :
          /\ Calls({new}, {scroll.anim})
          /\ scroll' = [con |-> s, from |-> u[s].offset, to |-> target, anim |-> new]
    BY <1>3
  <2>2. new \in Ids /\ new # 0 /\ scroll'.con = s /\ scroll'.anim = new /\ s # NoStrip
    BY <2>1, ScrollingAssumption DEF NextIds, Ids
  <2>3. /\ state' \in [Ids -> States]
        /\ \A id \in Ids : state'[id] = "running" <=>
             id \in {new} \/ (state[id] = "running" /\ id \notin {scroll.anim})
    BY <2>1, CallsFacts DEF ScrollInv
  <2>4. \A id \in Ids : state[id] = "running" => id = scroll.anim
    BY DEF ScrollInv, OneScroll
  <2>5. QED
    BY <2>2, <2>3, <2>4 DEF ScrollInv, OneScroll
<1>4. QED
  BY <1>1, <1>2, <1>3 DEF ScrollTo, Leave

LEMMA RevealOK ==
    ASSUME ScrollInv, NEW u, NEW s \in Strips, NEW i, NEW render, Reveal(u, s, i, render)
    PROVE  ScrollInv'
  BY ScrollToOK DEF Reveal

-----------------------------------------------------------------------------
\* The actions that leave the clock to others.
LEMMA StillOK ==
    ASSUME ScrollInv, NEW s \in Strips,
           \/ NewStrip(s) \/ ToggleLayout(s) \/ SetLayoutScrolling(s)
           \/ \E i \in 1..NumColumns(s), delta \in {-2, 2} : ResizeColumnPx(s, i, delta)
    PROVE  ScrollInv'
<1>1. UNCHANGED <<state, scroll>>
  BY DEF NewStrip, ToggleLayout, SetLayoutScrolling, ResizeColumnPx, Leave
<1>2. QED
  BY <1>1, SameScroll

\* scrolling_forget: only the scroll of the workspace that is freed.
LEMMA FreeWorkspaceOK ==
    ASSUME ScrollInv, NEW s \in Strips, FreeWorkspace(s)
    PROVE  ScrollInv'
<1>1. state \in [Ids -> States]
  BY DEF ScrollInv
<1>2. CASE scroll.con = s
  <2>1. Calls({}, {scroll.anim}) /\ scroll' = NoScroll
    BY <1>2 DEF FreeWorkspace, Leave
  <2>2. QED
    BY <1>1, <2>1, CallsFacts, NoScrollLeft
<1>3. CASE scroll.con # s
  <2>1. Calls({}, {}) /\ scroll' = scroll
    BY <1>3 DEF FreeWorkspace, Leave
  <2>2. state' \in [Ids -> States] /\ \A id \in Ids : state'[id] = "running" <=> state[id] = "running"
    BY <1>1, <2>1, CallsFacts
  <2>3. QED
    BY <2>1, <2>2 DEF ScrollInv, OneScroll
<1>4. QED
  BY <1>2, <1>3

\* tree_close_internal leaves the scroll alone unless it focuses another column.
LEMMA CloseColumnOK ==
    ASSUME ScrollInv, NEW s \in Strips, NEW i, CloseColumn(s, i)
    PROVE  ScrollInv'
<1>1. \/ UNCHANGED <<state, scroll>>
      \/ \E u, j : Reveal(u, s, j, TRUE)
  BY DEF CloseColumn, Leave
<1>2. QED
  BY <1>1, SameScroll, RevealOK

LEMMA StripStepsOK ==
    ASSUME ScrollInv, NEW s \in Strips, StripSteps(s)
    PROVE  ScrollInv'
<1>1. CASE NewStrip(s) \/ ToggleLayout(s) \/ SetLayoutScrolling(s)
  BY <1>1, StillOK
<1>2. CASE FreeWorkspace(s)
  BY <1>2, FreeWorkspaceOK
<1>3. CASE OpenColumn(s)
  BY <1>3, RevealOK DEF OpenColumn
<1>4. CASE ToggleMaximize(s)
  BY <1>4, RevealOK DEF ToggleMaximize, Widen
<1>5. CASE \E dir \in {-1, 1} : ScrollBy(s, dir)
  BY <1>5, ScrollToOK DEF ScrollBy
<1>6. CASE \E backwards \in BOOLEAN : CycleWidth(s, backwards)
  <2>1. \E u, i : Reveal(u, s, i, FALSE)
    BY <1>6 DEF CycleWidth, Widen
  <2>2. QED
    BY <2>1, RevealOK
<1>7. QED
  BY <1>1, <1>2, <1>3, <1>4, <1>5, <1>6 DEF StripSteps

LEMMA ColumnStepsOK ==
    ASSUME ScrollInv, NEW s \in Strips, NEW i \in 1..NumColumns(s), ColumnSteps(s, i)
    PROVE  ScrollInv'
<1>1. CASE CloseColumn(s, i)
  BY <1>1, CloseColumnOK
<1>2. CASE FocusColumn(s, i)
  BY <1>2, RevealOK DEF FocusColumn
<1>3. CASE \E delta \in {-2, 2} : ResizeColumn(s, i, delta)
  BY <1>3, RevealOK DEF ResizeColumn, Widen
<1>4. CASE \E delta \in {-2, 2} : ResizeColumnPx(s, i, delta)
  BY <1>4, StillOK
<1>5. QED
  BY <1>1, <1>2, <1>3, <1>4 DEF ColumnSteps

LEMMA ScrollDoneOK ==
    ASSUME ScrollInv, ScrollDone
    PROVE  ScrollInv'
<1>1. scroll.anim \in Ids /\ End(scroll.anim) /\ scroll' = NoScroll
  BY DEF ScrollInv, ScrollDone
<1>2. /\ state' \in [Ids -> States]
      /\ \A id \in Ids : state'[id] = "running" <=> state[id] = "running" /\ id # scroll.anim
  BY <1>1 DEF End, ScrollInv, States
<1>3. QED
  BY <1>1, <1>2, NoScrollLeft

-----------------------------------------------------------------------------
LEMMA ScrollInvAlways == ScrollSpec => []ScrollInv
<1>1. ScrollInit => ScrollInv
  BY ScrollInitOK
<1>2. ASSUME ScrollInv, [ScrollNext]_<<state, doneCalls, scrollVars>>
      PROVE  ScrollInv'
  <2>1. CASE UNCHANGED <<state, doneCalls, scrollVars>>
    BY <1>2, <2>1, SameScroll DEF scrollVars
  <2>2. CASE ScrollStep \/ Reload
    BY <1>2, <2>2, SameScroll DEF ScrollStep, Reload
  <2>3. CASE ScrollDone
    BY <1>2, <2>3, ScrollDoneOK
  <2>4. CASE \E s \in Strips : StripSteps(s)
    BY <1>2, <2>4, StripStepsOK
  <2>5. CASE \E s \in Strips : \E i \in 1..NumColumns(s) : ColumnSteps(s, i)
    BY <1>2, <2>5, ColumnStepsOK
  <2>6. QED
    BY <1>2, <2>1, <2>2, <2>3, <2>4, <2>5 DEF ScrollNext
<1>3. QED
  BY <1>1, <1>2, PTL DEF ScrollSpec

\* One scroll at a time: however commands, windows and the clock interleave, the
\* only running animation is the one that scroll_anim names (scroll_to_offset,
\* scroll_done, scrolling_forget).
THEOREM ScrollOneScroll == ScrollSpec => []OneScroll
<1>1. ScrollInv => OneScroll
  BY DEF ScrollInv
<1>2. QED
  BY <1>1, ScrollInvAlways, PTL
-----------------------------------------------------------------------------
(* Where columns start: the sum of widths is a number, by least counterexample. *)

Columns == [width : 1..MaxWidth, prev : 0..MaxWidth]

LEMMA WidthInt ==
    ASSUME NEW c \in Seq(Columns), NEW i \in 1..Len(c)
    PROVE  c[i] \in Columns /\ c[i].width \in Int
<1>1. c[i] \in Columns
  OBVIOUS
<1>2. QED
  BY <1>1, ScrollingAssumption DEF Columns

\* f adds up the first m widths of c.
Adds(f, c, m) == f = [n \in 0..m |-> IF n = 0 THEN 0 ELSE f[n - 1] + c[n].width]

LEMMA SumExists ==
    ASSUME NEW c \in Seq(Columns), NEW m \in Nat, m <= Len(c)
    PROVE  \E f \in [0..m -> Int] : Adds(f, c, m)
<1> DEFINE Wrong == {k \in 0..Len(c) : ~\E f \in [0..k -> Int] : Adds(f, c, k)}
<1>1. SUFFICES ASSUME Wrong # {} PROVE FALSE
  OBVIOUS
<1>2. PICK k \in Wrong : \A j \in Wrong : k <= j
  <2>1. Wrong \in SUBSET Nat
    OBVIOUS
  <2>2. QED
    BY <1>1, <2>1, LeastExists, Zenon
<1>3. k # 0
  <2>1. [n \in 0..0 |-> 0] \in [0..0 -> Int] /\ Adds([n \in 0..0 |-> 0], c, 0)
    BY DEF Adds
  <2>2. QED
    BY <2>1
<1>4. k - 1 \in 0..Len(c) /\ k - 1 \notin Wrong /\ k \in 1..Len(c)
  <2>1. k \in 0..Len(c) /\ Len(c) \in Nat
    BY <1>2
  <2>2. k - 1 \in 0..Len(c) /\ k \in 1..Len(c) /\ ~(k <= k - 1)
    BY <1>3, <2>1
  <2>3. QED
    BY <1>2, <2>2, Zenon
<1>5. PICK f \in [0..(k - 1) -> Int] : Adds(f, c, k - 1)
  BY <1>4
<1> DEFINE g == [n \in 0..k |-> IF n = k THEN f[k - 1] + c[k].width ELSE f[n]]
<1>6. c[k].width \in Int
  BY <1>4, WidthInt
<1>7. g \in [0..k -> Int]
  BY <1>4, <1>6
<1>8. ASSUME NEW n \in 0..k PROVE g[n] = IF n = 0 THEN 0 ELSE g[n - 1] + c[n].width
  <2>1. CASE n = k
    BY <1>4, <2>1
  <2>2. CASE n # k
    <3>1. n \in 0..(k - 1) /\ n # k /\ n - 1 # k
      BY <1>4, <2>2
    <3>2. f[n] = IF n = 0 THEN 0 ELSE f[n - 1] + c[n].width
      BY <1>5, <3>1 DEF Adds
    <3>3. QED
      BY <1>4, <3>1, <3>2
  <2>3. QED
    BY <2>1, <2>2
<1>9. Adds(g, c, k)
  BY <1>8 DEF Adds
<1>10. QED
  BY <1>2, <1>7, <1>9

LEMMA SumIsInt ==
    ASSUME NEW c \in Seq(Columns), NEW f, Adds(f, c, Len(c)), NEW m \in 0..Len(c)
    PROVE  f[m] \in Int
<1> DEFINE Wrong == {k \in 0..Len(c) : f[k] \notin Int}
<1>1. SUFFICES ASSUME Wrong # {} PROVE FALSE
  OBVIOUS
<1>2. PICK k \in Wrong : \A j \in Wrong : k <= j
  <2>1. Wrong \in SUBSET Nat
    OBVIOUS
  <2>2. QED
    BY <1>1, <2>1, LeastExists, Zenon
<1>3. f[k] = IF k = 0 THEN 0 ELSE f[k - 1] + c[k].width
  BY <1>2 DEF Adds
<1>4. k # 0
  BY <1>2, <1>3
<1>5. k - 1 \in 0..Len(c) /\ k - 1 \notin Wrong /\ k \in 1..Len(c)
  BY <1>2, <1>4
<1>6. f[k - 1] \in Int /\ c[k].width \in Int
  <2>1. f[k - 1] \in Int
    BY <1>5
  <2>2. c[k].width \in Int
    BY <1>5, WidthInt
  <2>3. QED
    BY <2>1, <2>2
<1>7. QED
  BY <1>2, <1>3, <1>4, <1>6

LEMMA StartInt ==
    ASSUME NEW c \in Seq(Columns), NEW i \in 1..(Len(c) + 1)
    PROVE  Start(c, i) \in Int
<1> DEFINE f == CHOOSE g : Adds(g, c, Len(c))
<1>1. Start(c, i) = f[i - 1]
  BY DEF Start, Adds
<1>2. Adds(f, c, Len(c))
  BY SumExists
<1>3. QED
  BY <1>1, <1>2, SumIsInt

LEMMA ClampInt ==
    ASSUME NEW c \in Seq(Columns), NEW x \in Int
    PROVE  Clamp(c, x) \in Int /\ Clamp(c, Clamp(c, x)) = Clamp(c, x)
<1>1. Total(c) \in Int
  BY StartInt DEF Total
<1>2. QED
  BY <1>1, ScrollingAssumption DEF Clamp

-----------------------------------------------------------------------------
(* Strips are within their range, except the one that scrolls and one whose  *)
(* scroll was cut short.                                                     *)

Strip == [exists : BOOLEAN, scrolls : BOOLEAN, columns : Seq(Columns),
          focus : Nat, offset : Int, cut : BOOLEAN]
StripOK(r) ==
    /\ r \in Strip
    /\ r.focus <= Len(r.columns)
    /\ r.columns # <<>> => r.focus # 0
StripsOK(u) ==
    /\ u = [s \in Strips |-> u[s]]
    /\ \A s \in Strips : StripOK(u[s])

Resting(r) == r.scrolls /\ ~r.cut => r.offset = Clamp(r.columns, r.offset)
InRange(u, con) == \A s \in Strips : s # con => Resting(u[s])

StripsInv ==
    /\ StripsOK(strip) /\ InRange(strip, scroll.con)
    /\ scroll \in [con : Strips \cup {NoStrip}, from : Int, to : Int, anim : 0..MaxAnims]
    /\ scroll.anim = 0 => scroll.con = NoStrip
    /\ config \in Configs /\ fault \in BOOLEAN

\* scrolling_prepare of one strip
LEMMA PrepareOK ==
    ASSUME NEW r, StripOK(r), NEW still \in BOOLEAN, NEW here \in BOOLEAN
    PROVE  LET p == [r EXCEPT !.offset = IF r.scrolls /\ still THEN Clamp(r.columns, @) ELSE @,
                              !.cut = @ /\ here]
           IN  StripOK(p) /\ (still => Resting(p))
<1> DEFINE offset == IF r.scrolls /\ still THEN Clamp(r.columns, r.offset) ELSE r.offset
           p == [r EXCEPT !.offset = offset, !.cut = @ /\ here]
<1>1. /\ r \in Strip /\ r.columns \in Seq(Columns) /\ r.offset \in Int
  BY DEF StripOK, Strip
<1>2. offset \in Int /\ (r.scrolls /\ still => offset = Clamp(r.columns, offset))
  BY <1>1, ClampInt
<1> HIDE DEF offset
<1>3. ASSUME NEW q \in Strip, NEW o \in Int
      PROVE  LET v == [q EXCEPT !.offset = o, !.cut = @ /\ here]
             IN  /\ v \in Strip /\ v.focus = q.focus /\ v.columns = q.columns
                 /\ v.scrolls = q.scrolls /\ v.offset = o
  BY DEF Strip
<1>4. /\ p \in Strip /\ p.focus = r.focus /\ p.columns = r.columns
      /\ p.scrolls = r.scrolls /\ p.offset = offset
  BY <1>1, <1>2, <1>3
<1>5. StripOK(p)
  BY <1>4 DEF StripOK
<1>6. still => Resting(p)
  BY <1>2, <1>4 DEF Resting
<1>7. QED
  BY <1>5, <1>6 DEF offset

LEMMA RenderOK ==
    ASSUME NEW u, StripsOK(u), NEW moving
    PROVE  StripsOK(Render(u, moving)) /\ InRange(Render(u, moving), moving)
<1> DEFINE v == Render(u, moving)
<1>1. v = [s \in Strips |-> v[s]]
  BY DEF Render
<1>2. ASSUME NEW s \in Strips PROVE StripOK(v[s]) /\ (s # moving => Resting(v[s]))
  <2>1. StripOK(u[s]) /\ (moving # s) \in BOOLEAN /\ (moving = s) \in BOOLEAN
    BY DEF StripsOK
  <2>2. v[s] = [u[s] EXCEPT !.offset = IF u[s].scrolls /\ moving # s THEN Clamp(u[s].columns, @) ELSE @,
                            !.cut = @ /\ moving = s]
    BY DEF Render
  <2>3. QED
    BY <2>1, <2>2, PrepareOK, ZenonT(60)
<1>3. QED
  BY <1>1, <1>2 DEF StripsOK, InRange

Moves == [con : Strips \cup {NoStrip}, from : Int, to : Int, anim : 0..MaxAnims]
MoveOK(sc) == sc \in Moves /\ (sc.anim = 0 => sc.con = NoStrip)

LEMMA NoScrollOK == MoveOK(NoScroll) /\ NoScroll.con = NoStrip
  BY ScrollingAssumption DEF MoveOK, Moves, NoScroll

\* The end of a handler that renders, or that left every strip in range
LEMMA LeaveOK ==
    ASSUME NEW u, StripsOK(u), NEW sc, MoveOK(sc), NEW render \in BOOLEAN,
           render \/ InRange(u, sc.con),
           config \in Configs, fault \in BOOLEAN, Leave(u, sc, render)
    PROVE  StripsInv'
<1>1. scroll' = sc /\ config' = config /\ fault' = fault
  BY DEF Leave
<1>2. StripsOK(strip') /\ InRange(strip', sc.con)
  <2>1. CASE render
    BY <2>1, RenderOK DEF Leave
  <2>2. CASE ~render
    BY <2>2 DEF Leave
  <2>3. QED
    BY <2>1, <2>2
<1>3. StripsOK(strip)' /\ InRange(strip, scroll.con)'
  BY <1>1, <1>2 DEF StripsOK, InRange
<1>4. QED
  BY <1>1, <1>3 DEF StripsInv, MoveOK, Moves

\* One strip is replaced.
LEMMA StripsDomain ==
    ASSUME NEW u, StripsOK(u)
    PROVE  DOMAIN u = Strips
<1>1. u = [t \in Strips |-> u[t]]
  BY DEF StripsOK
<1>2. QED
  BY <1>1, Zenon

LEMMA ReplaceOK ==
    ASSUME NEW u, StripsOK(u), NEW s \in Strips, NEW r, StripOK(r)
    PROVE  StripsOK([u EXCEPT ![s] = r])
<1> DEFINE v == [u EXCEPT ![s] = r]
<1>1. v = [t \in Strips |-> v[t]] /\ v[s] = r /\ \A t \in Strips \ {s} : v[t] = u[t]
  BY StripsDomain
<1> HIDE DEF v
<1>2. StripsOK(v)
  BY <1>1 DEF StripsOK
<1>3. QED
  BY <1>2 DEF v

LEMMA CutShortOK ==
    ASSUME NEW u, StripsOK(u), NEW s \in Strips, InRange(u, scroll.con), scroll.con \in Strips \cup {NoStrip}
    PROVE  /\ StripsOK(CutShort(u, s)) /\ InRange(CutShort(u, s), s)
           /\ CutShort(u, s)[s] = u[s]
<1>1. CASE scroll.con \in {s, NoStrip}
  BY <1>1, ScrollingAssumption DEF CutShort, InRange
<1>2. CASE scroll.con \notin {s, NoStrip}
  <2> DEFINE c == scroll.con
             r == [u[c] EXCEPT !.cut = TRUE]
  <2>1. c \in Strips /\ c # s /\ u[c] \in Strip /\ StripOK(u[c])
    BY <1>2 DEF StripsOK, StripOK
  <2>2. ASSUME NEW q \in Strip
        PROVE  LET v == [q EXCEPT !.cut = TRUE]
               IN  v \in Strip /\ v.focus = q.focus /\ v.columns = q.columns /\ v.cut
    BY DEF Strip
  <2>3. r \in Strip /\ r.focus = u[c].focus /\ r.columns = u[c].columns /\ r.cut
    BY <2>1, <2>2
  <2>4. StripOK(r) /\ Resting(r)
    BY <2>1, <2>3 DEF StripOK, Resting
  <2>5. CutShort(u, s) = [u EXCEPT ![c] = r]
    BY <1>2 DEF CutShort
  <2> HIDE DEF c, r
  <2>6. /\ StripsOK(CutShort(u, s)) /\ CutShort(u, s)[c] = r
        /\ \A t \in Strips \ {c} : CutShort(u, s)[t] = u[t]
    <3>1. StripsOK([u EXCEPT ![c] = r])
      BY <2>1, <2>4, ReplaceOK
    <3>2. DOMAIN u = Strips
      BY StripsDomain
    <3>3. QED
      BY <2>1, <2>5, <3>1, <3>2
  <2>7. \A t \in Strips \ {c} : Resting(u[t])
    BY DEF InRange, c
  <2>8. QED
    BY <2>1, <2>4, <2>6, <2>7 DEF InRange
<1>3. QED
  BY <1>1, <1>2

\* A new offset of one strip
LEMMA MovedOK ==
    ASSUME NEW r, StripOK(r), NEW x \in Int
    PROVE  LET v == [r EXCEPT !.offset = x]
           IN  StripOK(v) /\ (x = Clamp(r.columns, x) => Resting(v))
<1>1. ASSUME NEW q \in Strip
      PROVE  LET v == [q EXCEPT !.offset = x]
             IN  v \in Strip /\ v.focus = q.focus /\ v.columns = q.columns /\ v.offset = x
  BY DEF Strip
<1>2. r \in Strip
  BY DEF StripOK
<1>3. QED
  BY <1>1, <1>2 DEF StripOK, Resting

\* scroll_to_offset, with the strips and the scroll as they are when it is called
LEMMA ScrollToInRange ==
    ASSUME StripsInv, NEW u, StripsOK(u), InRange(u, scroll.con), NEW s \in Strips,
           NEW target \in Int, target = Clamp(u[s].columns, target),
           NEW render \in BOOLEAN, ScrollTo(u, s, target, render)
    PROVE  StripsInv'
<1>1. /\ MoveOK(scroll) /\ scroll.con \in Strips \cup {NoStrip}
      /\ config \in Configs /\ fault \in BOOLEAN
  BY DEF StripsInv, MoveOK, Moves
<1>2. StripOK(u[s]) /\ u[s].offset \in Int
  BY DEF StripsOK, StripOK, Strip
<1>3. /\ StripsOK(CutShort(u, s)) /\ InRange(CutShort(u, s), s)
      /\ CutShort(u, s)[s] = u[s]
  BY <1>1, CutShortOK
<1>4. CASE Leave(u, scroll, render)
  BY <1>1, <1>4, LeaveOK
<1>5. CASE Leave([CutShort(u, s) EXCEPT ![s].offset = target], NoScroll, render)
  <2> DEFINE v == [CutShort(u, s) EXCEPT ![s].offset = target]
             r == [u[s] EXCEPT !.offset = target]
  <2>1. StripOK(r) /\ Resting(r)
    BY <1>2, MovedOK
  <2>2. v = [CutShort(u, s) EXCEPT ![s] = r]
    BY <1>3
  <2> HIDE DEF v, r
  <2>3. StripsOK(v) /\ v[s] = r /\ \A t \in Strips \ {s} : v[t] = CutShort(u, s)[t]
    BY <1>3, <2>1, <2>2, ReplaceOK, StripsDomain
  <2>4. InRange(v, NoScroll.con)
    BY <1>3, <2>1, <2>3 DEF InRange
  <2>5. Leave(v, NoScroll, render)
    BY <1>5 DEF v
  <2>6. QED
    BY <1>1, <2>3, <2>4, <2>5, NoScrollOK, LeaveOK
<1>6. CASE \E id \in NextIds :
             Leave(CutShort(u, s), [con |-> s, from |-> u[s].offset, to |-> target, anim |-> id], render)
  <2>1. PICK id \in NextIds :
          Leave(CutShort(u, s), [con |-> s, from |-> u[s].offset, to |-> target, anim |-> id], render)
    BY <1>6
  <2> DEFINE sc == [con |-> s, from |-> u[s].offset, to |-> target, anim |-> id]
  <2>2. MoveOK(sc) /\ sc.con = s
    BY <1>2, ScrollingAssumption DEF MoveOK, Moves, NextIds, Ids
  <2> HIDE DEF sc
  <2>3. Leave(CutShort(u, s), sc, render)
    BY <2>1 DEF sc
  <2>4. QED
    BY <1>1, <1>3, <2>2, <2>3, LeaveOK
<1>7. QED
  BY <1>4, <1>5, <1>6 DEF ScrollTo

\* scrolling_reveal of a column that the strip has
LEMMA RevealInRange ==
    ASSUME StripsInv, NEW u, StripsOK(u), InRange(u, scroll.con), NEW s \in Strips,
           NEW i \in 1..Len(u[s].columns), NEW render \in BOOLEAN, Reveal(u, s, i, render)
    PROVE  StripsInv'
<1> DEFINE c == u[s].columns
           x == RevealOffset(u[s], i)
<1>1. c \in Seq(Columns) /\ u[s].offset \in Int
  BY DEF StripsOK, StripOK, Strip
<1>2. Start(c, i) \in Int /\ c[i].width \in Int
  BY <1>1, StartInt, WidthInt
<1>3. x \in Int
  <2>1. View \in Int
    BY ScrollingAssumption
  <2>2. QED
    BY <1>1, <1>2, <2>1, SMTT(40) DEF RevealOffset
<1> HIDE DEF x
<1>4. Clamp(c, x) \in Int /\ Clamp(c, Clamp(c, x)) = Clamp(c, x)
  BY <1>1, <1>3, ClampInt
<1>5. ScrollTo(u, s, Clamp(c, x), render)
  BY DEF Reveal, x
<1>6. QED
  BY <1>4, <1>5, ScrollToInRange

-----------------------------------------------------------------------------
(* Commands on a strip *)

LEMMA InvFacts ==
    ASSUME StripsInv
    PROVE  /\ StripsOK(strip) /\ InRange(strip, scroll.con) /\ MoveOK(scroll)
           /\ config \in Configs /\ fault \in BOOLEAN
           /\ \A s \in Strips : StripOK(strip[s]) /\ strip[s] \in Strip
  BY DEF StripsInv, MoveOK, Moves, StripsOK, StripOK

\* Another strip in the place of the one that a command works on, rendered at once
LEMMA RenderedOK ==
    ASSUME StripsInv, NEW s \in Strips, NEW r, StripOK(r), NEW sc, MoveOK(sc),
           Leave([strip EXCEPT ![s] = r], sc, TRUE)
    PROVE  StripsInv'
<1>1. StripsOK([strip EXCEPT ![s] = r])
  BY InvFacts, ReplaceOK
<1>2. QED
  BY <1>1, InvFacts, LeaveOK

\* ... or rendered before its column i is brought into view
LEMMA RevealedOK ==
    ASSUME StripsInv, NEW s \in Strips, NEW r, StripOK(r), NEW i \in 1..Len(r.columns),
           NEW render \in BOOLEAN, Reveal(Render([strip EXCEPT ![s] = r], scroll.con), s, i, render)
    PROVE  StripsInv'
<1> DEFINE v == [strip EXCEPT ![s] = r]
<1>1. StripsOK(v)
  BY InvFacts, ReplaceOK
<1>2. DOMAIN strip = Strips
  BY InvFacts, StripsDomain
<1>3. v[s] = r
  BY <1>2
<1> HIDE DEF v
<1>4. StripsOK(Render(v, scroll.con)) /\ InRange(Render(v, scroll.con), scroll.con)
  BY <1>1, RenderOK
<1>5. Render(v, scroll.con)[s].columns = r.columns
  <2>1. r \in Strip
    BY DEF StripOK
  <2>2. ASSUME NEW q \in Strip, NEW o, NEW b
        PROVE  [q EXCEPT !.offset = o, !.cut = b].columns = q.columns
    BY DEF Strip
  <2>3. \E o, b : Render(v, scroll.con)[s] = [v[s] EXCEPT !.offset = o, !.cut = b]
    BY DEF Render
  <2>4. QED
    BY <1>3, <2>1, <2>2, <2>3
<1>6. Reveal(Render(v, scroll.con), s, i, render)
  BY DEF v
<1>7. QED
  BY <1>4, <1>5, <1>6, RevealInRange

\* New columns and another focus, with the offset where it is
LEMMA ColumnsOK ==
    ASSUME NEW r, StripOK(r), NEW c \in Seq(Columns), NEW j \in Nat,
           j <= Len(c), c # <<>> => j # 0
    PROVE  StripOK([r EXCEPT !.columns = c, !.focus = j])
<1>1. ASSUME NEW q \in Strip
      PROVE  LET v == [q EXCEPT !.columns = c, !.focus = j]
             IN  v \in Strip /\ v.columns = c /\ v.focus = j
  BY DEF Strip
<1>2. r \in Strip
  BY DEF StripOK
<1>3. QED
  BY <1>1, <1>2 DEF StripOK

LEMMA ColumnOK ==
    ASSUME NEW r, StripOK(r), NEW i \in 1..Len(r.columns), NEW k \in Columns
    PROVE  /\ StripOK([r EXCEPT !.columns[i] = k])
           /\ Len([r EXCEPT !.columns[i] = k].columns) = Len(r.columns)
<1>1. r \in Strip /\ r.columns \in Seq(Columns)
  BY DEF StripOK, Strip
<1> DEFINE c == [r.columns EXCEPT ![i] = k]
<1>2. c \in Seq(Columns) /\ Len(c) = Len(r.columns)
  BY <1>1
<1> HIDE DEF c
<1>3. ASSUME NEW q \in Strip
      PROVE  LET v == [q EXCEPT !.columns = c]
             IN  v \in Strip /\ v.columns = c /\ v.focus = q.focus
  BY <1>2 DEF Strip
<1>4. [r EXCEPT !.columns[i] = k] = [r EXCEPT !.columns = c]
  BY DEF c
<1>5. c # <<>> => r.columns # <<>>
  BY <1>1, <1>2
<1>6. QED
  BY <1>1, <1>2, <1>3, <1>4, <1>5 DEF StripOK

LEMMA WidenOK ==
    ASSUME StripsInv, NEW s \in Strips, NEW i \in 1..NumColumns(s), NEW k \in Columns,
           NEW render \in BOOLEAN, Widen(s, i, k, render)
    PROVE  StripsInv'
<1> DEFINE r == [strip[s] EXCEPT !.columns[i] = k]
<1>1. StripOK(r) /\ i \in 1..Len(r.columns)
  BY InvFacts, ColumnOK DEF NumColumns
<1>2. [strip EXCEPT ![s].columns[i] = k] = [strip EXCEPT ![s] = r]
  OBVIOUS
<1> HIDE DEF r
<1>3. Reveal(Render([strip EXCEPT ![s] = r], scroll.con), s, i, render)
  BY <1>2 DEF Widen
<1>4. QED
  BY <1>1, <1>3, RevealedOK

-----------------------------------------------------------------------------
\* A column as wide as a command made it
LEMMA ResizedOK ==
    ASSUME NEW k \in Columns, NEW delta \in Int
    PROVE  [k EXCEPT !.width = Within(@ + delta)] \in Columns
<1>1. k.width + delta \in Int
  BY DEF Columns
<1>2. Within(k.width + delta) \in 1..MaxWidth
  BY <1>1, ScrollingAssumption DEF Within
<1>3. QED
  BY <1>2 DEF Columns

\* scrolling_cycle_width chooses one of the presets.
LEMMA NextPresetOK ==
    ASSUME NEW width \in 1..MaxWidth, NEW backwards \in BOOLEAN
    PROVE  NextPreset(width, backwards) \in 1..MaxWidth
<1> DEFINE n == Len(Presets)
           at == {i \in 1..n : Presets[i] >= width}
           first == CHOOSE i \in at : \A k \in at : i <= k
           from == IF at = {} THEN n
                   ELSE IF Presets[first] = width \/ backwards THEN first ELSE first - 1
           to == from + (IF backwards THEN -1 ELSE 1)
           index == IF to < 1 THEN n ELSE IF to > n THEN 1 ELSE to
<1>1. n \in Nat /\ n # 0 /\ Presets \in Seq(1..MaxWidth)
  BY ScrollingAssumption
<1>2. at # {} => first \in 1..n
  <2>1. at \in SUBSET Nat
    BY <1>1
  <2> HIDE DEF at
  <2>2. at # {} => \E i \in at : \A k \in at : i <= k
    BY <2>1, LeastExists, Zenon
  <2>3. at # {} => first \in at
    BY <2>2, Zenon
  <2>4. QED
    BY <2>3 DEF at
<1> HIDE DEF at, first
<1>3. from \in 0..n
  BY <1>1, <1>2
<1> HIDE DEF from
<1>4. index \in 1..n
  BY <1>1, <1>3
<1> HIDE DEF index
<1>5. Presets[index] \in 1..MaxWidth
  <2>1. ASSUME NEW S, NEW p \in Seq(S), NEW m \in 1..Len(p) PROVE p[m] \in S
    OBVIOUS
  <2>2. QED
    BY <1>1, <1>4, <2>1, Zenon
<1>6. QED
  BY <1>5 DEF index, from, first, at, NextPreset

LEMMA ToggleMaximizeInRange ==
    ASSUME StripsInv, NEW s \in Strips, ToggleMaximize(s)
    PROVE  StripsInv'
<1> DEFINE i == strip[s].focus
           k == strip[s].columns[i]
           back == IF k.prev \in 1..(View - 1) THEN k.prev ELSE DefaultWidth
           column == IF k.width >= View THEN [width |-> back, prev |-> 0]
                     ELSE [width |-> View, prev |-> k.width]
<1>1. i \in 1..NumColumns(s) /\ strip[s].columns \in Seq(Columns)
  BY InvFacts DEF ToggleMaximize, NumColumns, StripOK, Strip
<1>2. k \in Columns
  BY <1>1, WidthInt DEF NumColumns
<1>3. column \in Columns
  BY <1>2, ScrollingAssumption DEF Columns
<1>4. Widen(s, i, column, FALSE)
  BY DEF ToggleMaximize
<1> HIDE DEF column, i
<1>5. QED
  BY <1>1, <1>3, <1>4, WidenOK

LEMMA CycleWidthInRange ==
    ASSUME StripsInv, NEW s \in Strips, NEW backwards \in BOOLEAN, CycleWidth(s, backwards)
    PROVE  StripsInv'
<1> DEFINE i == strip[s].focus
           width == NextPreset(strip[s].columns[i].width, backwards)
<1>1. i \in 1..NumColumns(s) /\ strip[s].columns \in Seq(Columns)
  BY InvFacts DEF CycleWidth, NumColumns, StripOK, Strip
<1>2. strip[s].columns[i].width \in 1..MaxWidth
  <2>1. strip[s].columns[i] \in Columns
    BY <1>1, WidthInt DEF NumColumns
  <2>2. QED
    BY <2>1 DEF Columns
<1>3. width \in 1..MaxWidth
  BY <1>2, NextPresetOK
<1>4. Widen(s, i, [width |-> width, prev |-> 0], FALSE)
  BY DEF CycleWidth
<1> HIDE DEF i, width
<1>5. [width |-> width, prev |-> 0] \in Columns
  BY <1>3, ScrollingAssumption DEF Columns
<1>6. QED
  BY <1>1, <1>4, <1>5, WidenOK

LEMMA ResizeColumnInRange ==
    ASSUME StripsInv, NEW s \in Strips, NEW i \in 1..NumColumns(s), NEW delta \in {-2, 2},
           ResizeColumn(s, i, delta)
    PROVE  StripsInv'
<1> DEFINE k == [strip[s].columns[i] EXCEPT !.width = Within(@ + delta)]
<1>1. strip[s].columns[i] \in Columns
  <2>1. strip[s].columns \in Seq(Columns)
    BY InvFacts DEF StripOK, Strip
  <2>2. QED
    BY <2>1, WidthInt DEF NumColumns
<1>2. k \in Columns
  <2>1. \A q \in Columns : [q EXCEPT !.width = Within(@ + delta)] \in Columns
    BY ResizedOK
  <2>2. QED
    BY <1>1, <2>1, Zenon
<1>3. Widen(s, i, k, TRUE)
  BY DEF ResizeColumn
<1> HIDE DEF k
<1>4. QED
  BY <1>2, <1>3, WidenOK

LEMMA ResizeColumnPxInRange ==
    ASSUME StripsInv, NEW s \in Strips, NEW i \in 1..NumColumns(s), NEW delta \in {-2, 2},
           ResizeColumnPx(s, i, delta)
    PROVE  StripsInv'
<1> DEFINE k == [strip[s].columns[i] EXCEPT !.width = Within(@ + delta)]
           r == [strip[s] EXCEPT !.columns[i] = k]
<1>1. strip[s].columns[i] \in Columns
  <2>1. strip[s].columns \in Seq(Columns)
    BY InvFacts DEF StripOK, Strip
  <2>2. QED
    BY <2>1, WidthInt DEF NumColumns
<1>2. k \in Columns
  <2>1. \A q \in Columns : [q EXCEPT !.width = Within(@ + delta)] \in Columns
    BY ResizedOK
  <2>2. QED
    BY <1>1, <2>1, Zenon
<1> HIDE DEF k
<1>3. StripOK(r)
  BY <1>2, InvFacts, ColumnOK DEF NumColumns
<1>4. [strip EXCEPT ![s].columns[i].width = Within(@ + delta)] = [strip EXCEPT ![s] = r]
  BY DEF k
<1> HIDE DEF r
<1>5. Leave([strip EXCEPT ![s] = r], scroll, TRUE)
  BY <1>4 DEF ResizeColumnPx
<1>6. QED
  BY <1>3, <1>5, InvFacts, RenderedOK

-----------------------------------------------------------------------------
(* Strips and columns come and go *)

LEMMA NoColumnsOK == StripOK(NoColumns) /\ Resting(NoColumns)
<1>1. <<>> \in Seq(Columns) /\ Len(<<>>) = 0
  OBVIOUS
<1>2. QED
  BY <1>1 DEF NoColumns, StripOK, Resting, Strip

LEMMA JoinOK ==
    ASSUME NEW c \in Seq(Columns), NEW d \in Seq(Columns)
    PROVE  c \o d \in Seq(Columns) /\ Len(c \o d) = Len(c) + Len(d)
  OBVIOUS

\* The columns of a split
LEMMA SharesOK ==
    ASSUME NEW n \in Nat, NEW c \in Shares(n)
    PROVE  c \in Seq(Columns) /\ Len(c) = n
<1>1. \A w \in [width : {w \in 1..View : w % 2 = 0}, prev : {0}] : w \in Columns
  BY ScrollingAssumption DEF Columns
<1>2. c \in [1..n -> Columns]
  BY <1>1 DEF Shares
<1>3. QED
  BY <1>2

LEMMA NewColumnOK == NewColumn \in Columns
  BY ScrollingAssumption DEF NewColumn, Columns

LEMMA NewStripInRange ==
    ASSUME StripsInv, NEW s \in Strips, NewStrip(s)
    PROVE  StripsInv'
<1>1. PICK c \in {<<>>, <<NewColumn>>} \cup UNION {Shares(n) : n \in 1..MaxColumns[s]} :
        \E i \in IF c = <<>> THEN {0} ELSE DOMAIN c :
          Leave([strip EXCEPT ![s] = [NoColumns EXCEPT !.exists = TRUE, !.scrolls = TRUE,
                                                       !.columns = c, !.focus = i]], scroll, TRUE)
  BY DEF NewStrip
<1>2. PICK i \in IF c = <<>> THEN {0} ELSE DOMAIN c :
        Leave([strip EXCEPT ![s] = [NoColumns EXCEPT !.exists = TRUE, !.scrolls = TRUE,
                                                     !.columns = c, !.focus = i]], scroll, TRUE)
  BY <1>1
<1>3. c \in Seq(Columns)
  <2>1. CASE c = <<>>
    BY <2>1
  <2>2. CASE c = <<NewColumn>>
    BY <2>2, NewColumnOK
  <2>3. CASE \E n \in 1..MaxColumns[s] : c \in Shares(n)
    <3>1. PICK n \in 1..MaxColumns[s] : c \in Shares(n)
      BY <2>3
    <3>2. n \in Nat
      BY <3>1
    <3>3. QED
      BY <3>1, <3>2, SharesOK
  <2>4. QED
    BY <1>1, <2>1, <2>2, <2>3
<1>4. i \in Nat /\ i <= Len(c) /\ (c # <<>> => i # 0)
  BY <1>2, <1>3
<1> DEFINE r == [NoColumns EXCEPT !.exists = TRUE, !.scrolls = TRUE, !.columns = c, !.focus = i]
<1>5. StripOK(r)
  <2> DEFINE q == [NoColumns EXCEPT !.exists = TRUE, !.scrolls = TRUE]
  <2>1. StripOK(q)
    <3>1. ASSUME NEW p \in Strip
          PROVE  LET v == [p EXCEPT !.exists = TRUE, !.scrolls = TRUE]
                 IN  v \in Strip /\ v.columns = p.columns /\ v.focus = p.focus
      BY DEF Strip
    <3>2. QED
      BY <3>1, NoColumnsOK DEF StripOK
  <2>2. r = [q EXCEPT !.columns = c, !.focus = i]
    OBVIOUS
  <2> HIDE DEF q
  <2>3. QED
    BY <1>3, <1>4, <2>1, <2>2, ColumnsOK
<1>6. Leave([strip EXCEPT ![s] = r], scroll, TRUE)
  BY <1>2
<1> HIDE DEF r
<1>7. QED
  BY <1>5, <1>6, InvFacts, RenderedOK

\* The columns of a strip are those that it had, or as many equal shares of the view.
LEMMA ToggleLayoutInRange ==
    ASSUME StripsInv, NEW s \in Strips, ToggleLayout(s)
    PROVE  StripsInv'
<1>1. PICK c \in IF NumColumns(s) = 0 THEN {<<>>} ELSE Shares(NumColumns(s)) :
        Leave([strip EXCEPT ![s].scrolls = FALSE, ![s].offset = 0, ![s].columns = c], scroll, TRUE)
  BY DEF ToggleLayout
<1>2. StripOK(strip[s]) /\ strip[s] \in Strip /\ strip[s].columns \in Seq(Columns)
  BY InvFacts DEF Strip
<1>3. c \in Seq(Columns) /\ Len(c) = Len(strip[s].columns)
  BY <1>1, <1>2, SharesOK DEF NumColumns
<1> DEFINE r == [strip[s] EXCEPT !.scrolls = FALSE, !.offset = 0, !.columns = c]
<1>4. StripOK(r)
  <2>1. ASSUME NEW q \in Strip
        PROVE  LET v == [q EXCEPT !.scrolls = FALSE, !.offset = 0, !.columns = c]
               IN  v \in Strip /\ v.columns = c /\ v.focus = q.focus
    <3> DEFINE o == [q EXCEPT !.scrolls = FALSE]
               p == [q EXCEPT !.scrolls = FALSE, !.offset = 0]
    <3>0. o \in Strip /\ o.focus = q.focus /\ p = [o EXCEPT !.offset = 0]
      BY DEF Strip
    <3> HIDE DEF o
    <3>1. p \in Strip /\ p.focus = q.focus
      <4>1. [o EXCEPT !.offset = 0] \in Strip /\ [o EXCEPT !.offset = 0].focus = o.focus
        BY <3>0 DEF Strip
      <4>2. QED
        BY <3>0, <4>1
    <3>2. [q EXCEPT !.scrolls = FALSE, !.offset = 0, !.columns = c] = [p EXCEPT !.columns = c]
      OBVIOUS
    <3> HIDE DEF p
    <3>3. [p EXCEPT !.columns = c] \in Strip /\ [p EXCEPT !.columns = c].columns = c
          /\ [p EXCEPT !.columns = c].focus = p.focus
      BY <1>3, <3>1 DEF Strip
    <3>4. QED
      BY <3>1, <3>2, <3>3
  <2>2. r \in Strip /\ r.columns = c /\ r.focus = strip[s].focus
    BY <1>2, <2>1
  <2>3. c # <<>> => strip[s].columns # <<>>
    BY <1>2, <1>3
  <2>4. QED
    BY <1>2, <1>3, <2>2, <2>3 DEF StripOK
<1>5. [strip EXCEPT ![s].scrolls = FALSE, ![s].offset = 0, ![s].columns = c] = [strip EXCEPT ![s] = r]
  BY InvFacts, StripsDomain
<1> HIDE DEF r
<1>6. Leave([strip EXCEPT ![s] = r], scroll, TRUE)
  BY <1>1, <1>5
<1>7. QED
  BY <1>4, <1>6, InvFacts, RenderedOK

LEMMA SetLayoutScrollingInRange ==
    ASSUME StripsInv, NEW s \in Strips, SetLayoutScrolling(s)
    PROVE  StripsInv'
<1> DEFINE r == [strip[s] EXCEPT !.scrolls = TRUE]
<1>1. StripOK(strip[s]) /\ strip[s] \in Strip
  BY InvFacts
<1>2. ASSUME NEW q \in Strip
      PROVE  LET v == [q EXCEPT !.scrolls = TRUE]
             IN  v \in Strip /\ v.columns = q.columns /\ v.focus = q.focus
  BY DEF Strip
<1>3. StripOK(r)
  BY <1>1, <1>2 DEF StripOK
<1>4. Leave([strip EXCEPT ![s] = r], scroll, TRUE)
  BY DEF SetLayoutScrolling
<1> HIDE DEF r
<1>5. QED
  BY <1>3, <1>4, InvFacts, RenderedOK

\* scrolling_forget
LEMMA FreeWorkspaceInRange ==
    ASSUME StripsInv, NEW s \in Strips, FreeWorkspace(s)
    PROVE  StripsInv'
<1> DEFINE sc == IF scroll.con = s THEN NoScroll ELSE scroll
<1>1. Leave([strip EXCEPT ![s] = NoColumns], sc, TRUE)
  BY DEF FreeWorkspace
<1>2. MoveOK(sc)
  BY InvFacts, NoScrollOK
<1> HIDE DEF sc
<1>3. QED
  BY <1>1, <1>2, NoColumnsOK, RenderedOK

LEMMA OpenColumnInRange ==
    ASSUME StripsInv, NEW s \in Strips, OpenColumn(s)
    PROVE  StripsInv'
<1> DEFINE i == strip[s].focus + 1
           c == InsertAt(strip[s].columns, i, NewColumn)
           r == [strip[s] EXCEPT !.columns = c, !.focus = i]
<1>1. StripOK(strip[s]) /\ strip[s].columns \in Seq(Columns) /\ strip[s].focus \in Nat
  BY InvFacts DEF Strip
<1>2. i \in 1..(Len(strip[s].columns) + 1)
  BY <1>1 DEF StripOK
<1>3. c \in Seq(Columns) /\ Len(c) = Len(strip[s].columns) + 1
  <2>1. ASSUME NEW p \in Seq(Columns), NEW m \in 1..(Len(p) + 1), NEW k \in Columns
        PROVE  /\ SubSeq(p, 1, m - 1) \in Seq(Columns) /\ SubSeq(p, m, Len(p)) \in Seq(Columns)
               /\ Len(SubSeq(p, 1, m - 1)) = m - 1 /\ Len(SubSeq(p, m, Len(p))) = Len(p) - m + 1
    OBVIOUS
  <2>2. ASSUME NEW p \in Seq(Columns), NEW m \in 1..(Len(p) + 1), NEW k \in Columns
        PROVE  InsertAt(p, m, k) \in Seq(Columns) /\ Len(InsertAt(p, m, k)) = Len(p) + 1
    <3> DEFINE a == SubSeq(p, 1, m - 1)
               b == SubSeq(p, m, Len(p))
    <3>1. a \in Seq(Columns) /\ b \in Seq(Columns) /\ Len(a) = m - 1 /\ Len(b) = Len(p) - m + 1
      BY <2>1
    <3>2. InsertAt(p, m, k) = (a \o <<k>>) \o b
      BY DEF InsertAt
    <3> HIDE DEF a, b
    <3>3. a \o <<k>> \in Seq(Columns) /\ Len(a \o <<k>>) = m
      BY <3>1
    <3> DEFINE d == a \o <<k>>
    <3>4. d \in Seq(Columns) /\ Len(d) = m /\ InsertAt(p, m, k) = d \o b
      BY <3>2, <3>3
    <3> HIDE DEF d
    <3>5. d \o b \in Seq(Columns) /\ Len(d \o b) = Len(d) + Len(b)
      BY <3>1, <3>4, JoinOK
    <3>6. QED
      BY <3>1, <3>4, <3>5
  <2>3. QED
    BY <1>1, <1>2, <2>2, NewColumnOK
<1> HIDE DEF c
<1>4. StripOK(r) /\ r.columns = c
  <2>1. c # <<>> => i # 0
    BY <1>2
  <2>2. i \in Nat /\ i <= Len(c)
    BY <1>1, <1>2, <1>3
  <2>3. strip[s] \in Strip
    BY InvFacts
  <2>4. ASSUME NEW q \in Strip
        PROVE  [q EXCEPT !.columns = c, !.focus = i].columns = c
    BY DEF Strip
  <2>5. QED
    BY <1>1, <1>3, <2>1, <2>2, <2>3, <2>4, ColumnsOK
<1>5. [strip EXCEPT ![s].columns = InsertAt(@, i, NewColumn), ![s].focus = i] = [strip EXCEPT ![s] = r]
  BY InvFacts, StripsDomain DEF c
<1>6. i \in 1..Len(c)
  BY <1>2, <1>3
<1> HIDE DEF r
<1>7. Reveal(Render([strip EXCEPT ![s] = r], scroll.con), s, i, TRUE)
  BY <1>5 DEF OpenColumn
<1> HIDE DEF i
<1>8. QED
  BY <1>4, <1>6, <1>7, RevealedOK

LEMMA RemoveOK ==
    ASSUME NEW c \in Seq(Columns), NEW i \in 1..Len(c)
    PROVE  RemoveAt(c, i) \in Seq(Columns) /\ Len(RemoveAt(c, i)) = Len(c) - 1
<1> DEFINE a == SubSeq(c, 1, i - 1)
           b == SubSeq(c, i + 1, Len(c))
<1>1. a \in Seq(Columns) /\ b \in Seq(Columns) /\ Len(a) = i - 1 /\ Len(b) = Len(c) - i
  OBVIOUS
<1>2. RemoveAt(c, i) = a \o b
  BY DEF RemoveAt
<1> HIDE DEF a, b
<1>3. QED
  BY <1>1, <1>2, JoinOK

\* The strips without one column, and with the focus on what is column j then
LEMMA WithoutOK ==
    ASSUME StripsInv, NEW s \in Strips, NEW i \in 1..NumColumns(s), NEW j \in Nat,
           j <= NumColumns(s) - 1, NumColumns(s) > 1 => j # 0
    PROVE  LET r == [strip[s] EXCEPT !.columns = RemoveAt(strip[s].columns, i), !.focus = j]
           IN  /\ StripOK(r) /\ Len(r.columns) = NumColumns(s) - 1
               /\ [strip EXCEPT ![s].columns = RemoveAt(strip[s].columns, i), ![s].focus = j] =
                    [strip EXCEPT ![s] = r]
<1> DEFINE c == RemoveAt(strip[s].columns, i)
           r == [strip[s] EXCEPT !.columns = c, !.focus = j]
<1>1. StripOK(strip[s]) /\ strip[s] \in Strip /\ strip[s].columns \in Seq(Columns)
  BY InvFacts DEF Strip
<1>2. c \in Seq(Columns) /\ Len(c) = NumColumns(s) - 1 /\ Len(c) \in Nat
  BY <1>1, RemoveOK, SMTT(40) DEF NumColumns
<1>3. [strip EXCEPT ![s].columns = c, ![s].focus = j] = [strip EXCEPT ![s] = r]
  BY InvFacts, StripsDomain
<1> HIDE DEF c
<1>4. c # <<>> => Len(c) # 0
  BY <1>2
<1>5. StripOK(r)
  <2>1. j <= Len(c)
    BY <1>2
  <2>2. c # <<>> => j # 0
    <3>1. NumColumns(s) \in Nat
      BY <1>1 DEF NumColumns
    <3>2. QED
      BY <1>2, <1>4, <3>1
  <2>3. QED
    BY <1>1, <1>2, <2>1, <2>2, ColumnsOK
<1>6. r.columns = c
  <2>1. ASSUME NEW q \in Strip
        PROVE  [q EXCEPT !.columns = c, !.focus = j].columns = c
    BY DEF Strip
  <2>2. QED
    BY <1>1, <2>1
<1>7. QED
  BY <1>2, <1>3, <1>5, <1>6 DEF c

LEMMA CloseColumnInRange ==
    ASSUME StripsInv, NEW s \in Strips, NEW i \in 1..NumColumns(s), CloseColumn(s, i)
    PROVE  StripsInv'
<1> DEFINE left == RemoveAt(strip[s].columns, i)
           R(j) == [strip[s] EXCEPT !.columns = left, !.focus = j]
           Without(j) == Render([strip EXCEPT ![s].columns = left, ![s].focus = j], scroll.con)
           kept == IF strip[s].focus > i THEN strip[s].focus - 1 ELSE strip[s].focus
<1>1. /\ StripOK(strip[s]) /\ strip[s].columns \in Seq(Columns) /\ strip[s].focus \in Nat
      /\ NumColumns(s) \in Nat /\ NumColumns(s) # 0 /\ strip[s].focus \in 1..NumColumns(s)
  BY InvFacts DEF Strip, StripOK, NumColumns
<1>2. left \in Seq(Columns) /\ Len(left) = NumColumns(s) - 1
  BY <1>1, RemoveOK DEF NumColumns
<1>3. ASSUME NEW j \in Nat, j <= Len(left), left # <<>> => j # 0
      PROVE  /\ StripOK(R(j)) /\ Len(R(j).columns) = Len(left)
             /\ Without(j) = Render([strip EXCEPT ![s] = R(j)], scroll.con)
  <2>1. NumColumns(s) > 1 => j # 0
    BY <1>1, <1>2, <1>3
  <2>2. j <= NumColumns(s) - 1
    BY <1>2, <1>3
  <2>3. QED
    BY <1>2, <2>1, <2>2, WithoutOK
<1>4. CASE /\ left = <<>>
           /\ Leave(IF s \in WorkspaceStrips THEN Without(0)
                    ELSE [Without(0) EXCEPT ![s] = NoColumns], scroll, TRUE)
  <2>1. StripOK(R(0)) /\ Without(0) = Render([strip EXCEPT ![s] = R(0)], scroll.con)
    <3>1. 0 <= Len(left) /\ left = <<>>
      BY <1>4, <1>2
    <3> HIDE DEF left, R, Without
    <3>2. QED
      BY <1>3, <3>1
  <2>2. StripsOK(Without(0))
    <3>1. StripsOK([strip EXCEPT ![s] = R(0)])
      BY <2>1, InvFacts, ReplaceOK
    <3>2. QED
      BY <2>1, <3>1, RenderOK
  <2> DEFINE u == IF s \in WorkspaceStrips THEN Without(0) ELSE [Without(0) EXCEPT ![s] = NoColumns]
  <2> HIDE DEF Without
  <2>3. StripsOK(u)
    <3>1. StripsOK([Without(0) EXCEPT ![s] = NoColumns])
      BY <2>2, NoColumnsOK, ReplaceOK
    <3>2. QED
      BY <2>2, <3>1
  <2>4. Leave(u, scroll, TRUE)
    BY <1>4
  <2> HIDE DEF u
  <2>5. QED
    BY <2>3, <2>4, InvFacts, LeaveOK
<1>5. CASE strip[s].focus = i /\ \E j \in DOMAIN left : Reveal(Without(j), s, j, TRUE)
  <2>1. PICK j \in DOMAIN left : Reveal(Without(j), s, j, TRUE)
    BY <1>5
  <2>2. j \in Nat /\ j # 0 /\ j \in 1..Len(left) /\ j <= Len(left)
    BY <1>2, <2>1
  <2>3. /\ StripOK(R(j)) /\ Len(R(j).columns) = Len(left)
        /\ Without(j) = Render([strip EXCEPT ![s] = R(j)], scroll.con)
    BY <1>3, <2>2
  <2>4. Reveal(Render([strip EXCEPT ![s] = R(j)], scroll.con), s, j, TRUE)
    BY <2>1, <2>3
  <2> HIDE DEF R, left, Without
  <2>5. QED
    BY <2>2, <2>3, <2>4, RevealedOK
<1>6. CASE left # <<>> /\ strip[s].focus # i /\ Leave(Without(kept), scroll, TRUE)
  <2>1. kept \in Nat /\ kept # 0 /\ kept <= Len(left)
    BY <1>1, <1>2, <1>6
  <2> HIDE DEF kept
  <2>2. StripOK(R(kept)) /\ Without(kept) = Render([strip EXCEPT ![s] = R(kept)], scroll.con)
    BY <1>3, <2>1
  <2>3. StripsOK(Without(kept))
    <3>1. StripsOK([strip EXCEPT ![s] = R(kept)])
      BY <2>2, InvFacts, ReplaceOK
    <3>2. QED
      BY <2>2, <3>1, RenderOK
  <2>4. QED
    BY <1>6, <2>3, InvFacts, LeaveOK
<1>7. left = <<>> => strip[s].focus = i
  <2>1. left = <<>> => NumColumns(s) = 1
    BY <1>1, <1>2
  <2>2. QED
    BY <1>1, <2>1
<1>8. QED
  BY <1>4, <1>5, <1>6, <1>7 DEF CloseColumn

LEMMA FocusColumnInRange ==
    ASSUME StripsInv, NEW s \in Strips, NEW i \in 1..NumColumns(s), FocusColumn(s, i)
    PROVE  StripsInv'
<1> DEFINE r == [strip[s] EXCEPT !.focus = i]
           u == [strip EXCEPT ![s] = r]
<1>1. StripOK(strip[s]) /\ strip[s] \in Strip /\ strip[s].columns \in Seq(Columns)
  BY InvFacts DEF Strip
<1>2. ASSUME NEW q \in Strip
      PROVE  LET v == [q EXCEPT !.focus = i]
             IN  /\ v.columns = q.columns /\ v.focus = i /\ v.scrolls = q.scrolls
                 /\ v.cut = q.cut /\ v.offset = q.offset /\ (i \in Nat => v \in Strip)
  BY DEF Strip
<1>3. i \in Nat /\ i # 0 /\ i <= Len(strip[s].columns)
  BY <1>1 DEF NumColumns
<1>4. /\ r \in Strip /\ r.columns = strip[s].columns /\ r.focus = i /\ r.scrolls = strip[s].scrolls
      /\ r.cut = strip[s].cut /\ r.offset = strip[s].offset
  BY <1>1, <1>2, <1>3
<1> HIDE DEF r
<1>5. StripOK(r)
  BY <1>3, <1>4 DEF StripOK
<1>6. Resting(strip[s]) => Resting(r)
  BY <1>4 DEF Resting
<1>7. u[s] = r /\ \A t \in Strips \ {s} : u[t] = strip[t]
  BY InvFacts, StripsDomain
<1>8. StripsOK(u)
  BY <1>5, InvFacts, ReplaceOK
<1>9. Reveal(u, s, i, TRUE)
  BY DEF FocusColumn, r
<1> HIDE DEF u
<1>10. InRange(u, scroll.con)
  BY <1>6, <1>7, InvFacts DEF InRange
<1>11. i \in 1..Len(u[s].columns)
  BY <1>4, <1>7 DEF NumColumns
<1>12. QED
  BY <1>8, <1>9, <1>10, <1>11, RevealInRange

LEMMA ScrollByInRange ==
    ASSUME StripsInv, NEW s \in Strips, NEW dir \in {-1, 1}, ScrollBy(s, dir)
    PROVE  StripsInv'
<1> DEFINE x == Clamp(strip[s].columns, strip[s].offset + dir * DefaultWidth)
<1>1. strip[s].columns \in Seq(Columns) /\ strip[s].offset \in Int
  BY InvFacts DEF Strip
<1>2. strip[s].offset + dir * DefaultWidth \in Int
  <2>1. dir * DefaultWidth \in Int
    BY ScrollingAssumption
  <2>2. QED
    BY <1>1, <2>1
<1>3. x \in Int /\ x = Clamp(strip[s].columns, x)
  BY <1>1, <1>2, ClampInt
<1>4. ScrollTo(strip, s, x, FALSE)
  BY DEF ScrollBy
<1> HIDE DEF x
<1>5. QED
  BY <1>3, <1>4, InvFacts, ScrollToInRange

-----------------------------------------------------------------------------
(* The callbacks of the scroll, and the theorem *)

\* A strip moved by a callback, which renders the others and, at the end, this one
LEMMA CallbackOK ==
    ASSUME StripsInv, NEW s \in Strips, NEW x \in Int, NEW moving,
           strip' = Render([strip EXCEPT ![s].offset = x], moving)
    PROVE  StripsOK(strip') /\ InRange(strip', moving)
<1> DEFINE r == [strip[s] EXCEPT !.offset = x]
<1>1. StripOK(r)
  BY InvFacts, MovedOK
<1> HIDE DEF r
<1>2. StripsOK([strip EXCEPT ![s] = r])
  BY <1>1, InvFacts, ReplaceOK
<1>3. strip' = Render([strip EXCEPT ![s] = r], moving)
  BY DEF r
<1>4. QED
  BY <1>2, <1>3, RenderOK

\* The scroll names one of the strips as long as its animation runs.
LEMMA ScrollsOneStrip ==
    ASSUME ScrollInv, scroll.anim # 0
    PROVE  scroll.con \in Strips
  BY DEF ScrollInv, OneScroll

LEMMA ScrollStepInRange ==
    ASSUME StripsInv, ScrollInv, ScrollStep
    PROVE  StripsInv'
<1>1. scroll.con \in Strips /\ scroll.from \in Int /\ scroll.to \in Int
  <2>1. scroll.con \in Strips
    BY ScrollsOneStrip DEF ScrollStep
  <2>2. QED
    BY <2>1 DEF StripsInv
<1>2. PICK x \in (scroll.from..scroll.to) \cup (scroll.to..scroll.from) :
        strip' = Render([strip EXCEPT ![scroll.con].offset = x], scroll.con)
  BY DEF ScrollStep
<1>3. x \in Int
  BY <1>1, <1>2
<1>4. StripsOK(strip') /\ InRange(strip', scroll.con)
  BY <1>1, <1>2, <1>3, CallbackOK
<1>5. StripsOK(strip)' /\ InRange(strip, scroll.con)' /\ scroll' = scroll /\ config' = config
  BY <1>4 DEF StripsOK, InRange, ScrollStep
<1>6. fault' \in BOOLEAN
  BY DEF ScrollStep
<1>7. QED
  BY <1>5, <1>6 DEF StripsInv

LEMMA ScrollDoneInRange ==
    ASSUME StripsInv, ScrollInv, ScrollDone
    PROVE  StripsInv'
<1>1. scroll.con \in Strips /\ scroll.to \in Int
  <2>1. scroll.con \in Strips
    BY ScrollsOneStrip DEF ScrollDone
  <2>2. QED
    BY <2>1 DEF StripsInv
<1>2. strip' = Render([strip EXCEPT ![scroll.con].offset = scroll.to], NoStrip)
  BY DEF ScrollDone
<1>3. StripsOK(strip') /\ InRange(strip', NoStrip)
  BY <1>1, <1>2, CallbackOK
<1>4. scroll' = NoScroll /\ config' = config /\ fault' \in BOOLEAN
  BY DEF ScrollDone
<1>5. StripsOK(strip)' /\ InRange(strip, scroll.con)'
  BY <1>3, <1>4, NoScrollOK DEF StripsOK, InRange
<1>6. QED
  BY <1>4, <1>5, NoScrollOK DEF StripsInv, MoveOK, Moves

LEMMA StripStepsInRange ==
    ASSUME StripsInv, NEW s \in Strips, StripSteps(s)
    PROVE  StripsInv'
<1>1. CASE \E dir \in {-1, 1} : ScrollBy(s, dir)
  BY <1>1, ScrollByInRange
<1>2. CASE \E backwards \in BOOLEAN : CycleWidth(s, backwards)
  BY <1>2, CycleWidthInRange
<1>3. QED
  BY <1>1, <1>2, NewStripInRange, FreeWorkspaceInRange, ToggleLayoutInRange,
     SetLayoutScrollingInRange, OpenColumnInRange, ToggleMaximizeInRange DEF StripSteps

LEMMA ColumnStepsInRange ==
    ASSUME StripsInv, NEW s \in Strips, NEW i \in 1..NumColumns(s), ColumnSteps(s, i)
    PROVE  StripsInv'
<1>1. CASE \E delta \in {-2, 2} : ResizeColumn(s, i, delta) \/ ResizeColumnPx(s, i, delta)
  BY <1>1, ResizeColumnInRange, ResizeColumnPxInRange
<1>2. QED
  BY <1>1, CloseColumnInRange, FocusColumnInRange DEF ColumnSteps

LEMMA StripsInitOK ==
    ASSUME ScrollInit
    PROVE  StripsInv
<1>1. strip = [s \in Strips |-> NoColumns]
  BY DEF ScrollInit
<1>2. StripsOK(strip) /\ InRange(strip, scroll.con)
  BY <1>1, NoColumnsOK DEF StripsOK, InRange
<1>3. scroll = NoScroll /\ config \in Configs /\ fault \in BOOLEAN
  BY DEF ScrollInit
<1>4. QED
  BY <1>2, <1>3, NoScrollOK DEF StripsInv, MoveOK, Moves

LEMMA RestingInRange ==
    ASSUME StripsInv
    PROVE  StripsInRange
<1>1. ScrollTypeOK
  <2>1. strip \in [Strips -> Strip]
    <3>1. strip = [s \in Strips |-> strip[s]] /\ \A s \in Strips : strip[s] \in Strip
      BY InvFacts DEF StripsOK
    <3>2. QED
      BY <3>1
  <2>2. QED
    BY <2>1 DEF StripsInv, ScrollTypeOK, Strip, Columns
<1>2. RestInRange
  <2>1. SUFFICES ASSUME scroll.con = NoStrip, NEW s \in Strips, Scrolls(s), ~strip[s].cut
                 PROVE  strip[s].offset = Clamp(strip[s].columns, strip[s].offset)
    BY DEF RestInRange
  <2>2. s # scroll.con
    BY <2>1, ScrollingAssumption
  <2>3. QED
    BY <2>1, <2>2, InvFacts DEF InRange, Resting, Scrolls
<1>3. QED
  BY <1>1, <1>2 DEF StripsInRange

\* Views stay within their strips: whatever commands, windows, reloads and the clock
\* do, every strip but the one that scrolls and one whose scroll was cut short shows
\* a part of its columns (scrolling_prepare, scrolling_reveal, scroll_to_offset).
THEOREM StripsStayInRange == ScrollSpec => []StripsInRange
<1>1. ScrollInit => StripsInv
  BY StripsInitOK
<1>2. ASSUME StripsInv, ScrollInv, [ScrollNext]_<<state, doneCalls, scrollVars>>
      PROVE  StripsInv'
  <2>1. CASE UNCHANGED <<state, doneCalls, scrollVars>>
    BY <1>2, <2>1 DEF scrollVars, StripsInv, StripsOK, InRange
  <2>2. CASE Reload
    <3>1. UNCHANGED <<strip, scroll, fault>> /\ config' \in Configs
      BY <2>2 DEF Reload
    <3>2. QED
      BY <1>2, <3>1 DEF StripsInv, StripsOK, InRange
  <2>3. CASE ScrollStep
    BY <1>2, <2>3, ScrollStepInRange
  <2>4. CASE ScrollDone
    BY <1>2, <2>4, ScrollDoneInRange
  <2>5. CASE \E s \in Strips : StripSteps(s)
    BY <1>2, <2>5, StripStepsInRange
  <2>6. CASE \E s \in Strips : \E i \in 1..NumColumns(s) : ColumnSteps(s, i)
    BY <1>2, <2>6, ColumnStepsInRange
  <2>7. QED
    BY <1>2, <2>1, <2>2, <2>3, <2>4, <2>5, <2>6 DEF ScrollNext
<1>3. StripsInv => StripsInRange
  BY RestingInRange
<1>4. QED
  BY <1>1, <1>2, <1>3, ScrollInvAlways, PTL DEF ScrollSpec

-----------------------------------------------------------------------------
(* The outputs: the fold of get_output_next(), output by output *)

Rects == [x : Int, y : Int, w : Nat, h : Nat]
Slots == 1 .. Len(screens)

LEMMA NextFold ==
    ASSUME screens \in Seq(Rects), NEW q, NEW c, NEW far
    PROVE  \E it \in [0 .. Len(screens) -> 0 .. Len(screens)] :
              /\ it[0] = 0 /\ NextOutput(q, c, far) = it[Len(screens)]
              /\ \A k \in 1 .. Len(screens) : it[k] = Best(q, c, far, it[k - 1], k)
<1> DEFINE n == Len(screens)
           A == 0 .. n
           D == 1 .. n
           l == [i \in DOMAIN screens |-> i]
           F == [p \in A \X D |-> Best(q, c, far, p[1], p[2])]
           Is(iter) == iter = [s \in SUBSET (1 .. n) |->
                                 IF s = {} THEN 0 ELSE Best(q, c, far, iter[s \ {Max(s)}], l[Max(s)])]
<1>1. n \in Nat /\ DOMAIN screens = 1 .. n
  OBVIOUS
<1>2. ASSUME NEW a \in A, NEW e \in D PROVE Best(q, c, far, a, e) \in A
  BY <1>1 DEF Best
<1>3. F \in [A \X D -> A]
  BY <1>2
<1>4. l \in Seq(D) /\ Len(l) = n /\ 0 \in A /\ \A k \in 1 .. n : l[k] = k
  <2>1. l \in [1 .. n -> D]
    BY <1>1
  <2>2. QED
    BY <1>1, <2>1
<1>5. PICK g \in [SUBSET (1 .. n) -> A] : Folds(g, F, 0, l, n)
  <2> HIDE DEF n, F, l, A, D
  <2>1. PICK g \in [SUBSET (1 .. Len(l)) -> A] : Folds(g, F, 0, l, Len(l))
    BY <1>3, <1>4, FoldExists
  <2>2. QED
    BY <1>4, <2>1
<1> HIDE DEF l
<1>6. ASSUME NEW s \in SUBSET (1 .. n), s # {}
      PROVE  g[s] = Best(q, c, far, g[s \ {Max(s)}], l[Max(s)])
  <2>1. Max(s) \in 1 .. n /\ s \ {Max(s)} \in SUBSET (1 .. n)
    BY <1>1, <1>6, MaxOfSet
  <2>2. g[s \ {Max(s)}] \in A /\ l[Max(s)] \in D
    BY <1>4, <1>5, <2>1
  <2>3. g[s] = F[g[s \ {Max(s)}], l[Max(s)]]
    <3> HIDE DEF F
    <3>1. QED
      BY <1>5, <1>6, Zenon DEF Folds
  <2>4. QED
    BY <2>2, <2>3
<1>7. Is(g)
  <2> HIDE DEF F
  <2>1. g[{}] = 0 /\ {} \in SUBSET (1 .. n) /\ g = [s \in SUBSET (1 .. n) |-> g[s]]
    BY <1>5 DEF Folds
  <2>2. QED
    BY <1>6, <2>1, Zenon
<1> DEFINE h == CHOOSE iter : Is(iter)
<1>8. Is(h)
  <2> HIDE DEF Is
  <2>1. QED
    BY <1>7
<1>9. NextOutput(q, c, far) = h[1 .. n]
  <2>1. NextOutput(q, c, far) = FoldLeft(LAMBDA b, i : Best(q, c, far, b, i), 0, l)
    BY DEF NextOutput, l
  <2>2. DOMAIN l = 1 .. n
    BY <1>1, <1>4
  <2>3. FoldLeft(LAMBDA b, i : Best(q, c, far, b, i), 0, l) = h[1 .. n]
    BY <2>2 DEF FoldLeft, MapThenFoldSet
  <2>4. QED
    BY <2>1, <2>3
<1> HIDE DEF h, F
<1>10. h[1 .. 0] = 0
  <2>1. 1 .. 0 = {} /\ {} \in SUBSET (1 .. n)
    OBVIOUS
  <2>2. QED
    BY <1>8, <2>1
<1>11. ASSUME NEW k \in 1 .. n PROVE h[1 .. k] = Best(q, c, far, h[1 .. k - 1], k)
  <2>1. 1 .. k # {} /\ Max(1 .. k) = k /\ (1 .. k) \ {k} = 1 .. k - 1 /\ 1 .. k \in SUBSET (1 .. n)
    BY MaxOfInterval, <1>1
  <2>2. l[k] = k
    BY <1>4
  <2>3. h[1 .. k] = Best(q, c, far, h[(1 .. k) \ {Max(1 .. k)}], l[Max(1 .. k)])
    BY <1>8, <2>1
  <2>4. QED
    BY <2>1, <2>2, <2>3
<1>12. \A k \in 0 .. n : h[1 .. k] \in A
  <2> DEFINE S == {k \in 0 .. n : h[1 .. k] \in A}
  <2>1. 0 \in S
    BY <1>1, <1>10
  <2>2. ASSUME NEW k \in 1 .. n, k - 1 \in S PROVE k \in S
    BY <1>1, <1>2, <1>11, <2>2
  <2> HIDE DEF S
  <2>3. \A k \in 0 .. n : k \in S
    BY <1>1, <2>1, <2>2, UpTo
  <2>4. QED
    BY <2>3 DEF S
<1>13. QED
  <2> DEFINE it == [k \in 0 .. n |-> h[1 .. k]]
  <2>1. it \in [0 .. n -> A] /\ it[0] = 0 /\ it[n] = h[1 .. n]
    BY <1>1, <1>10, <1>12
  <2>2. \A k \in 1 .. n : it[k - 1] = h[1 .. k - 1] /\ it[k] = h[1 .. k]
    BY <1>1
  <2> HIDE DEF it
  <2>3. \A k \in 1 .. n : it[k] = Best(q, c, far, it[k - 1], k)
    BY <1>11, <2>2
  <2>4. QED
    BY <1>9, <2>1, <2>3

\* How far an output is, in the direction q
Pos(q, i) == IF q \in {"right", "down"} THEN Along(q, screens[i]) ELSE -Along(q, screens[i])

LEMMA PosIs ==
    ASSUME screens \in Seq(Rects), NEW q \in Directions
    PROVE  /\ \A i \in Slots : Pos(q, i) \in Int /\ screens[i] \in Rects
           /\ \A i, j \in Slots : Further(q, screens[i], screens[j]) <=> Pos(q, i) > Pos(q, j)
           /\ \A i, j \in Slots : Further(Opposite[q], screens[i], screens[j]) <=> Pos(q, i) < Pos(q, j)
           /\ \A i, j \in Slots : Overlap(Opposite[q], screens[i], screens[j]) = Overlap(q, screens[i], screens[j])
           /\ \A i, j \in Slots : Overlap(q, screens[i], screens[j]) = Overlap(q, screens[j], screens[i])
           /\ \A i, j \in Slots : Along(q, screens[i]) = Along(q, screens[j]) <=> Pos(q, i) = Pos(q, j)
           /\ Opposite[q] \in Directions
<1>1. ASSUME NEW i \in Slots PROVE Along(q, screens[i]) \in Int /\ Pos(q, i) \in Int /\ screens[i] \in Rects
  <2>1. PICK r : r = screens[i]
    OBVIOUS
  <2>2. r \in Rects
    BY <2>1 DEF Slots
  <2>3. r.x \in Int /\ r.y \in Int
    BY <2>2 DEF Rects
  <2>4. Along(q, r) \in Int
    BY <2>3 DEF Along
  <2>5. QED
    BY <2>1, <2>2, <2>4 DEF Pos
<1>2. \A r, s : Overlap(q, r, s) = Overlap(q, s, r)
  BY DEF Overlap
<1>3. Opposite[q] \in Directions /\ (Opposite[q] \in {"left", "right"} <=> q \in {"left", "right"})
      /\ (Opposite[q] \in {"right", "down"} <=> q \notin {"right", "down"})
  BY DEF Opposite, Directions
<1>4. \A r : Along(Opposite[q], r) = Along(q, r) /\ Across(Opposite[q], r) = Across(q, r)
  BY <1>3 DEF Along, Across
<1>5. ASSUME NEW i \in Slots, NEW j \in Slots
      PROVE  /\ Further(q, screens[i], screens[j]) <=> Pos(q, i) > Pos(q, j)
             /\ Further(Opposite[q], screens[i], screens[j]) <=> Pos(q, i) < Pos(q, j)
             /\ Along(q, screens[i]) = Along(q, screens[j]) <=> Pos(q, i) = Pos(q, j)
  <2>1. PICK a, b : a = Along(q, screens[i]) /\ b = Along(q, screens[j])
    OBVIOUS
  <2>2. a \in Int /\ b \in Int
    BY <1>1, <2>1
  <2>3. CASE q \in {"right", "down"}
    BY <1>3, <1>4, <2>1, <2>2, <2>3 DEF Further, Pos
  <2>4. CASE q \notin {"right", "down"}
    BY <1>3, <1>4, <2>1, <2>2, <2>4 DEF Further, Pos
  <2>5. QED
    BY <2>3, <2>4
<1>6. \A r, s : Overlap(Opposite[q], r, s) = Overlap(q, r, s)
  BY <1>4 DEF Overlap
<1>7. QED
  BY <1>1, <1>2, <1>3, <1>5, <1>6

\* The best of the first k outputs
IsBest(q, c, far, b, k) ==
    /\ b = 0 => \A i \in 1 .. k : ~Candidate(q, c, i)
    /\ b # 0 => /\ b \in Slots /\ Candidate(q, c, b)
                /\ \A i \in 1 .. k : Candidate(q, c, i) => ~Better(q, far, i, b)

LEMMA BestStep ==
    ASSUME screens \in Seq(Rects), NEW q \in Directions, NEW c \in Slots, NEW far \in BOOLEAN,
           NEW k \in Slots, NEW b \in 0 .. Len(screens), IsBest(q, c, far, b, k - 1)
    PROVE  IsBest(q, c, far, Best(q, c, far, b, k), k)
<1>1. Len(screens) \in Nat /\ \A i \in 1 .. k : i \in 1 .. k - 1 \/ i = k
  BY DEF Slots
<1>2. \A i, j \in Slots : Better(q, far, i, j) <=> IF far THEN Pos(q, i) > Pos(q, j) ELSE Pos(q, j) > Pos(q, i)
  BY PosIs DEF Better
<1>3. \A i \in 1 .. k : i \in Slots
  BY <1>1 DEF Slots
<1>4. CASE ~Candidate(q, c, k)
  <2>1. Best(q, c, far, b, k) = b
    BY <1>4 DEF Best
  <2>2. QED
    BY <1>1, <1>4, <2>1 DEF IsBest
<1>5. CASE Candidate(q, c, k) /\ b = 0
  <2>1. Best(q, c, far, b, k) = k /\ k # 0
    BY <1>5 DEF Best, Slots
  <2>2. ~Better(q, far, k, k)
    BY <1>2, PosIs
  <2>3. \A i \in 1 .. k : Candidate(q, c, i) => i = k
    BY <1>1, <1>5 DEF IsBest
  <2>4. QED
    BY <1>5, <2>1, <2>2, <2>3 DEF IsBest
<1>6. CASE Candidate(q, c, k) /\ b # 0 /\ ~Better(q, far, k, b)
  <2>1. Best(q, c, far, b, k) = b
    BY <1>6 DEF Best
  <2>2. QED
    BY <1>1, <1>6, <2>1 DEF IsBest
<1>7. CASE Candidate(q, c, k) /\ b # 0 /\ Better(q, far, k, b)
  <2>1. Best(q, c, far, b, k) = k /\ k # 0 /\ b \in Slots
    BY <1>7 DEF Best, Slots, IsBest
  <2>2. ASSUME NEW i \in 1 .. k, Candidate(q, c, i) PROVE ~Better(q, far, i, k)
    <3>1. i \in Slots /\ Pos(q, i) \in Int /\ Pos(q, k) \in Int /\ Pos(q, b) \in Int
      BY <1>3, <2>1, PosIs
    <3>2. CASE i = k
      BY <1>2, <3>1, <3>2
    <3>3. CASE i # k
      <4>1. ~Better(q, far, i, b)
        BY <1>1, <1>7, <2>2, <3>3 DEF IsBest
      <4>2. QED
        BY <1>2, <1>7, <2>1, <3>1, <4>1
    <3>4. QED
      BY <3>2, <3>3
  <2>3. QED
    BY <1>7, <2>1, <2>2 DEF IsBest
<1>8. QED
  BY <1>4, <1>5, <1>6, <1>7

\* get_output_next() returns the best candidate, or none when there is none.
LEMMA NextIsBest ==
    ASSUME screens \in Seq(Rects), NEW q \in Directions, NEW c \in Slots, NEW far \in BOOLEAN
    PROVE  IsBest(q, c, far, NextOutput(q, c, far), Len(screens))
<1> DEFINE n == Len(screens)
<1>1. n \in Nat
  OBVIOUS
<1>2. PICK it \in [0 .. n -> 0 .. n] :
          /\ it[0] = 0 /\ NextOutput(q, c, far) = it[n]
          /\ \A k \in 1 .. n : it[k] = Best(q, c, far, it[k - 1], k)
  BY NextFold
<1> DEFINE S == {k \in 0 .. n : IsBest(q, c, far, it[k], k)}
<1>3. 0 \in S
  BY <1>1, <1>2 DEF IsBest
<1>4. ASSUME NEW k \in 1 .. n, k - 1 \in S PROVE k \in S
  <2>1. it[k - 1] \in 0 .. n /\ k \in Slots /\ IsBest(q, c, far, it[k - 1], k - 1)
    BY <1>2, <1>4 DEF Slots
  <2>2. IsBest(q, c, far, Best(q, c, far, it[k - 1], k), k)
    BY <2>1, BestStep
  <2>3. QED
    BY <1>2, <2>2
<1> HIDE DEF S
<1>5. \A k \in 0 .. n : k \in S
  BY <1>1, <1>3, <1>4, UpTo
<1>6. n \in S
  BY <1>1, <1>5
<1>7. QED
  BY <1>2, <1>6 DEF S

-----------------------------------------------------------------------------
(* Going on along a row of outputs *)

LEMMA NextShares ==
    ASSUME screens \in Seq(Rects), NEW q \in Directions, NEW c \in Slots
    PROVE  /\ NextWrap(q, c) \in Slots
           /\ NextWrap(q, c) # c => Overlap(q, screens[c], screens[NextWrap(q, c)])
<1>1. PICK b, f : b = NextOutput(q, c, FALSE) /\ f = NextOutput(Opposite[q], c, TRUE)
  OBVIOUS
<1>2. IsBest(q, c, FALSE, b, Len(screens)) /\ IsBest(Opposite[q], c, TRUE, f, Len(screens))
  BY <1>1, NextIsBest, PosIs
<1>3. NextWrap(q, c) = IF b # 0 THEN b ELSE IF f # 0 THEN f ELSE c
  BY <1>1 DEF NextWrap
<1>4. CASE b # 0
  <2>1. b \in Slots /\ Overlap(q, screens[b], screens[c])
    BY <1>2, <1>4 DEF IsBest, Candidate
  <2>2. QED
    BY <1>3, <1>4, <2>1, PosIs
<1>5. CASE b = 0 /\ f # 0
  <2>1. f \in Slots /\ Overlap(Opposite[q], screens[f], screens[c])
    BY <1>2, <1>5 DEF IsBest, Candidate
  <2>2. QED
    BY <1>3, <1>5, <2>1, PosIs
<1>6. CASE b = 0 /\ f = 0
  BY <1>3, <1>6
<1>7. QED
  BY <1>4, <1>5, <1>6

P(i) == Pos(direction, i)

\* In a row the next output is the one that follows, or after the last the first.
LEMMA NextInRow ==
    ASSUME screens \in Seq(Rects), direction \in Directions, NEW c \in Slots, Row
    PROVE  LET e == NextWrap(direction, c)
           IN /\ e \in Slots
              /\ \/ P(e) > P(c) /\ \A i \in Slots : P(i) <= P(c) \/ P(i) >= P(e)
                 \/ \A i \in Slots : P(e) <= P(i) /\ P(i) <= P(c)
<1>1. PICK q : q = direction
  OBVIOUS
<1>2. q \in Directions /\ Opposite[q] \in Directions /\ \A i \in Slots : P(i) \in Int /\ P(i) = Pos(q, i)
  BY <1>1, PosIs DEF P
<1>3. PICK b, f : b = NextOutput(q, c, FALSE) /\ f = NextOutput(Opposite[q], c, TRUE)
  OBVIOUS
<1>4. IsBest(q, c, FALSE, b, Len(screens)) /\ IsBest(Opposite[q], c, TRUE, f, Len(screens))
  BY <1>2, <1>3, NextIsBest
<1>5. PICK e : e = NextWrap(direction, c)
  OBVIOUS
<1>6. e = IF b # 0 THEN b ELSE IF f # 0 THEN f ELSE c
  BY <1>1, <1>3, <1>5 DEF NextWrap
<1>7. \A i \in Slots : (i # c => Overlap(q, screens[i], screens[c])) /\ (P(i) = P(c) => i = c)
  <2>1. DOMAIN screens = Slots
    BY DEF Slots
  <2>2. ASSUME NEW i \in Slots, i # c
        PROVE  Along(q, screens[i]) # Along(q, screens[c]) /\ Overlap(q, screens[i], screens[c])
    BY <1>1, <2>1, <2>2 DEF Row
  <2>3. QED
    BY <1>2, <2>2, PosIs
<1>8. \A i \in Slots : Candidate(q, c, i) <=> P(i) > P(c)
  BY <1>2, <1>7, PosIs DEF Candidate
<1>9. \A i \in Slots : Candidate(Opposite[q], c, i) <=> P(i) < P(c)
  BY <1>2, <1>7, PosIs DEF Candidate
<1>10. \A i, j \in Slots : (Better(q, FALSE, i, j) <=> P(j) > P(i)) /\ (Better(Opposite[q], TRUE, i, j) <=> P(i) < P(j))
  BY <1>2, PosIs DEF Better
<1>11. e \in Slots
  BY <1>5, <1>1, <1>2, NextShares
<1>12. CASE b # 0
  <2>1. b \in Slots /\ P(b) > P(c) /\ \A i \in Slots : P(i) > P(c) => ~(P(b) > P(i))
    BY <1>4, <1>8, <1>10, <1>12 DEF IsBest, Slots
  <2>2. \A i \in Slots : P(i) <= P(c) \/ P(i) >= P(b)
    BY <1>2, <2>1
  <2>3. QED
    BY <1>5, <1>6, <1>11, <1>12, <2>1, <2>2
<1>13. CASE b = 0
  <2>1. \A i \in Slots : P(i) <= P(c)
    BY <1>2, <1>4, <1>8, <1>13 DEF IsBest, Slots
  <2>2. CASE f # 0
    <3>1. f \in Slots /\ P(f) < P(c) /\ \A i \in Slots : P(i) < P(c) => ~(P(i) < P(f))
      BY <1>4, <1>9, <1>10, <2>2 DEF IsBest, Slots
    <3>2. \A i \in Slots : P(f) <= P(i)
      BY <1>2, <3>1
    <3>3. QED
      BY <1>5, <1>6, <1>11, <1>13, <2>1, <2>2, <3>2
  <2>3. CASE f = 0
    <3>1. \A i \in Slots : ~(P(i) < P(c))
      BY <1>4, <1>9, <2>3 DEF IsBest, Slots
    <3>2. \A i \in Slots : P(c) <= P(i)
      BY <1>2, <3>1
    <3>3. QED
      BY <1>5, <1>6, <1>11, <1>13, <2>1, <2>3, <3>2
  <2>4. QED
    BY <2>2, <2>3
<1>14. QED
  BY <1>12, <1>13

\* What has been visited: all that lie from some output on, up to the present one, around
\* the end of the row if need be
Up(s) == P(s) <= P(current) /\ visited = {i \in Slots : P(s) <= P(i) /\ P(i) <= P(current)}
Around(s) == P(current) < P(s) /\ visited = {i \in Slots : P(i) <= P(current) \/ P(s) <= P(i)}

GeometryInv ==
    /\ screens \in Seq(Rects) /\ direction \in Directions /\ current \in Slots /\ visited \subseteq Slots
    /\ Row => visited = Slots \/ \E s \in Slots : Up(s) \/ Around(s)

LEMMA InRow ==
    ASSUME screens \in Seq(Rects), direction \in Directions, Row
    PROVE  \A i, j \in Slots : P(i) \in Int /\ (P(i) = P(j) => i = j)
<1>1. DOMAIN screens = Slots
  BY DEF Slots
<1>2. QED
  BY <1>1, PosIs DEF Row, P

LEMMA GeometryBegins == GeometryInit => GeometryInv
<1> SUFFICES ASSUME GeometryInit PROVE GeometryInv
  OBVIOUS
<1>1. screens \in Seq(Rects) /\ direction \in Directions /\ current \in Slots /\ visited = {current}
  BY GeometryAssumption DEF GeometryInit, Rects, Slots
<1>2. ASSUME Row PROVE Up(current)
  BY <1>1, <1>2, InRow DEF Up
<1>3. QED
  BY <1>1, <1>2 DEF GeometryInv

LEMMA RowEnds ==
    ASSUME GeometryInv, Row, NextWrap(direction, current) \in visited
    PROVE  visited = Slots
<1>1. PICK e : e = NextWrap(direction, current)
  OBVIOUS
<1>2. /\ screens \in Seq(Rects) /\ direction \in Directions /\ current \in Slots
      /\ visited = Slots \/ \E s \in Slots : Up(s) \/ Around(s)
  BY DEF GeometryInv
<1>3. \A i \in Slots : P(i) \in Int
  BY <1>2, InRow
<1>4. e \in Slots /\ (\/ P(e) > P(current) /\ \A i \in Slots : P(i) <= P(current) \/ P(i) >= P(e)
                      \/ \A i \in Slots : P(e) <= P(i) /\ P(i) <= P(current))
  BY <1>1, <1>2, NextInRow
<1>5. ASSUME NEW s \in Slots, Up(s) PROVE visited = Slots
  <2>1. P(s) <= P(e) /\ P(e) <= P(current)
    BY <1>1, <1>5 DEF Up
  <2>2. \A i \in Slots : P(e) <= P(i) /\ P(i) <= P(current)
    BY <1>2, <1>3, <1>4, <2>1
  <2>3. \A i \in Slots : P(s) <= P(i) /\ P(i) <= P(current)
    BY <1>3, <1>4, <2>1, <2>2
  <2>4. QED
    BY <1>5, <2>3 DEF Up
<1>6. ASSUME NEW s \in Slots, Around(s) PROVE visited = Slots
  <2>1. P(current) < P(s) /\ (P(e) <= P(current) \/ P(s) <= P(e))
    BY <1>1, <1>6 DEF Around
  <2>2. P(e) > P(current) /\ \A i \in Slots : P(i) <= P(current) \/ P(i) >= P(e)
    BY <1>2, <1>3, <1>4, <2>1
  <2>3. \A i \in Slots : P(i) <= P(current) \/ P(s) <= P(i)
    BY <1>2, <1>3, <1>4, <2>1, <2>2
  <2>4. QED
    BY <1>6, <2>3 DEF Around
<1>7. QED
  BY <1>2, <1>5, <1>6

LEMMA GoOnKeeps ==
    ASSUME GeometryInv, GoOn
    PROVE  GeometryInv'
<1>1. PICK e : e = NextWrap(direction, current)
  OBVIOUS
<1>2. PICK c : c = current
  OBVIOUS
<1>3. screens \in Seq(Rects) /\ direction \in Directions /\ c \in Slots /\ visited \subseteq Slots /\ e \in Slots
  BY <1>1, <1>2, NextShares DEF GeometryInv
<1>4. screens' = screens /\ direction' = direction /\ current' = e /\ visited' = visited \cup {e}
  BY <1>1 DEF GoOn
<1>5. Slots' = Slots /\ Row' = Row /\ \A i : P(i)' = P(i)
  BY <1>4 DEF Slots, Row, P, Pos
<1>6. ASSUME Row
      PROVE  \/ visited' = Slots
             \/ \E s \in Slots : P(s) <= P(e) /\ visited' = {i \in Slots : P(s) <= P(i) /\ P(i) <= P(e)}
             \/ \E s \in Slots : P(e) < P(s) /\ visited' = {i \in Slots : P(i) <= P(e) \/ P(s) <= P(i)}
  <2>1. \A i, j \in Slots : P(i) \in Int /\ (P(i) = P(j) => i = j)
    BY <1>3, <1>6, InRow
  <2>2. \/ P(e) > P(c) /\ \A i \in Slots : P(i) <= P(c) \/ P(i) >= P(e)
        \/ \A i \in Slots : P(e) <= P(i) /\ P(i) <= P(c)
    BY <1>1, <1>2, <1>3, <1>6, NextInRow
  <2>3. ASSUME P(e) > P(c), \A i \in Slots : P(i) <= P(c) \/ P(i) >= P(e)
        PROVE  \A i \in Slots : P(i) <= P(e) <=> P(i) <= P(c) \/ i = e
    BY <1>3, <2>1, <2>3
  <2>4. CASE visited = Slots
    BY <1>3, <1>4, <2>4
  <2>5. ASSUME NEW s \in Slots, Up(s)
        PROVE  \/ visited' = Slots
               \/ P(s) <= P(e) /\ visited' = {i \in Slots : P(s) <= P(i) /\ P(i) <= P(e)}
               \/ P(e) < P(s) /\ visited' = {i \in Slots : P(i) <= P(e) \/ P(s) <= P(i)}
    <3>1. P(s) <= P(c) /\ \A i \in Slots : i \in visited <=> (P(s) <= P(i) /\ P(i) <= P(c))
      BY <1>2, <2>5 DEF Up
    <3>2. visited' \subseteq Slots /\ \A i \in Slots : i \in visited' <=> (P(s) <= P(i) /\ P(i) <= P(c)) \/ i = e
      BY <1>3, <1>4, <3>1
    <3>3. CASE P(e) > P(c) /\ \A i \in Slots : P(i) <= P(c) \/ P(i) >= P(e)
      <4>1. P(s) <= P(e)
        BY <1>3, <2>1, <3>1, <3>3
      <4>2. \A i \in Slots : i \in visited' <=> (P(s) <= P(i) /\ P(i) <= P(e))
        BY <2>3, <3>2, <3>3, <4>1
      <4>3. QED
        BY <3>2, <4>1, <4>2
    <3>4. CASE \A i \in Slots : P(e) <= P(i) /\ P(i) <= P(c)
      <4>1. CASE P(e) = P(s)
        <5>1. \A i \in Slots : i \in visited'
          BY <3>2, <3>4, <4>1
        <5>2. QED
          BY <3>2, <5>1
      <4>2. CASE P(e) # P(s)
        <5>1. P(e) < P(s)
          BY <1>3, <2>1, <3>4, <4>2
        <5>2. \A i \in Slots : i = e <=> P(i) <= P(e)
          BY <1>3, <2>1, <3>4
        <5>3. \A i \in Slots : i \in visited' <=> (P(i) <= P(e) \/ P(s) <= P(i))
          BY <3>2, <3>4, <5>2
        <5>4. QED
          BY <3>2, <5>1, <5>3
      <4>3. QED
        BY <4>1, <4>2
    <3>5. QED
      BY <2>2, <3>3, <3>4
  <2>6. ASSUME NEW s \in Slots, Around(s)
        PROVE  \/ visited' = Slots
               \/ P(e) < P(s) /\ visited' = {i \in Slots : P(i) <= P(e) \/ P(s) <= P(i)}
    <3>1. P(c) < P(s) /\ \A i \in Slots : i \in visited <=> (P(i) <= P(c) \/ P(s) <= P(i))
      BY <1>2, <2>6 DEF Around
    <3>2. visited' \subseteq Slots /\ \A i \in Slots : i \in visited' <=> (P(i) <= P(c) \/ P(s) <= P(i)) \/ i = e
      BY <1>3, <1>4, <3>1
    <3>3. P(e) > P(c) /\ \A i \in Slots : P(i) <= P(c) \/ P(i) >= P(e)
      BY <1>3, <2>1, <2>2, <3>1
    <3>4. CASE P(e) < P(s)
      <4>1. \A i \in Slots : i \in visited' <=> (P(i) <= P(e) \/ P(s) <= P(i))
        BY <2>3, <3>2, <3>3
      <4>2. QED
        BY <3>2, <3>4, <4>1
    <3>5. CASE ~(P(e) < P(s))
      <4>1. \A i \in Slots : P(i) <= P(c) \/ P(s) <= P(i)
        BY <1>3, <2>1, <3>3, <3>5
      <4>2. QED
        BY <3>2, <4>1
    <3>6. QED
      BY <3>4, <3>5
  <2>7. visited = Slots \/ \E s \in Slots : Up(s) \/ Around(s)
    BY <1>6 DEF GeometryInv
  <2>8. QED
    BY <2>4, <2>5, <2>6, <2>7
<1>7. Row' => visited' = Slots' \/ \E s \in Slots' : Up(s)' \/ Around(s)'
  <2>1. SUFFICES ASSUME Row PROVE visited' = Slots \/ \E s \in Slots : Up(s)' \/ Around(s)'
    BY <1>5
  <2>2. P(current)' = P(e)
    BY <1>4 DEF P, Pos
  <2>3. ASSUME NEW s \in Slots
        PROVE  /\ Up(s)' <=> P(s) <= P(e) /\ visited' = {i \in Slots : P(s) <= P(i) /\ P(i) <= P(e)}
               /\ Around(s)' <=> P(e) < P(s) /\ visited' = {i \in Slots : P(i) <= P(e) \/ P(s) <= P(i)}
    BY <1>5, <2>2 DEF Up, Around
  <2>4. QED
    BY <1>6, <2>1, <2>3
<1>8. QED
  BY <1>3, <1>4, <1>5, <1>7 DEF GeometryInv

\* Following the outputs in one direction (randr.c:222): the next output shares a
\* range with the one before, and in a row no output is skipped, whatever the order
\* of the list and wherever the outputs are.
THEOREM RowsAreWalked == GeometrySpec => []GoingOnReachesAll
<1>1. GeometryInit => GeometryInv
  BY GeometryBegins
<1>2. GeometryInv /\ [GeometryNext]_geometryVars => GeometryInv'
  <2> SUFFICES ASSUME GeometryInv, [GeometryNext]_geometryVars PROVE GeometryInv'
    OBVIOUS
  <2>1. CASE GoOn
    BY <2>1, GoOnKeeps
  <2>2. CASE UNCHANGED geometryVars
    BY <2>2 DEF geometryVars, GeometryInv, Up, Around, P, Pos, Row, Slots
  <2>3. QED
    BY <2>1, <2>2 DEF GeometryNext
<1>3. GeometryInv => GoingOnReachesAll
  <2> SUFFICES ASSUME GeometryInv PROVE GoingOnReachesAll
    OBVIOUS
  <2>1. screens \in Seq(Rects) /\ direction \in Directions /\ current \in Slots /\ DOMAIN screens = Slots
    BY DEF GeometryInv, Slots
  <2>2. QED
    BY <2>1, NextShares, RowEnds DEF GoingOnReachesAll
<1>4. QED
  BY <1>1, <1>2, <1>3, PTL DEF GeometrySpec
=============================================================================
