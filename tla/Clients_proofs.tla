---------------------------- MODULE Clients_proofs ----------------------------
(***************************************************************************)
(* Proofs about what i3 keeps of its clients: the windows that fill the     *)
(* slots of a restored layout (Restore), the records of their properties    *)
(* (WindowProps) and icons (WindowIcon), the layouts that are read           *)
(* (LoadLayout), the sequences of startup notification (Startup) and the     *)
(* keys that are grabbed for them (Bindings), for any number of slots,       *)
(* criteria, windows, files, events, applications, workspaces and keys.      *)
(***************************************************************************)
EXTENDS Restore, WindowProps, WindowIcon, LoadLayout, Startup, Bindings, FoldLemmas, FiniteSetTheorems, SequenceTheorems, NaturalsInduction

-----------------------------------------------------------------------------
(* Numbers and sequences                                                    *)

LEMMA Shorter ==
    ASSUME NEW S, NEW s \in Seq(S), NEW i \in 1 .. Len(s)
    PROVE  RemoveAt(s, i) \in Seq(S)
<1>1. /\ SubSeq(s, 1, i - 1) \in Seq(S)
      /\ SubSeq(s, i + 1, Len(s)) \in Seq(S)
  OBVIOUS
<1>2. QED
  BY <1>1 DEF RemoveAt

-----------------------------------------------------------------------------
(* Restored layouts                                                         *)

RestoreSpec == RestoreInit /\ [][RestoreNext]_restoreVars

\* The criteria that may be left in a place: a slot has the one for its placeholder's id.
Criterion(p) == IF p \in Slots THEN {[id |-> p]} \cup {[class |-> c] : c \in Classes} ELSE {}
IsCon(c, p) ==
    /\ c = [open |-> c.open, window |-> c.window, swallows |-> c.swallows, marks |-> c.marks]
    /\ c.swallows \in Seq(Criterion(p))
Filling(c, i, matches) == [open |-> c.open, window |-> i, swallows |-> matches, marks |-> c.marks]

RestoreTypes ==
    /\ cons = [p \in Places |-> cons[p]] /\ \A p \in Places : IsCon(cons[p], p)
    /\ states \subseteq Slots /\ alive \subseteq Places /\ raced \in BOOLEAN

\* A placeholder is in its own slot.
AtHome == \A s \in Slots : cons[s].window \in Slots => cons[s].window = s

RestoreInv == RestoreTypes /\ (~raced => AtHome) /\ FirstWindowWins

LEMMA NoConOK == ASSUME NEW p \in Places PROVE IsCon(NoCon, p)
  BY DEF NoCon, IsCon

LEMMA RestoreInitOK == ASSUME RestoreInit PROVE RestoreInv
<1>1. RestoreTypes
  BY NoConOK DEF RestoreInit, RestoreTypes
<1>2. \A s \in Slots : cons[s].window = None
  BY DEF RestoreInit, Places, NoCon
<1>3. QED
  BY <1>1, <1>2, RestoreAssumption DEF RestoreInv, AtHome, FirstWindowWins

LEMMA AppendLayoutOK == ASSUME RestoreInv, AppendLayout PROVE RestoreInv'
<1> DEFINE all(p) == <<[id |-> p]>> \o [n \in DOMAIN Criteria[p] |-> [class |-> Criteria[p][n]]]
<1>1. ASSUME NEW s \in Slots PROVE IsCon(Con(None, all(s)), s)
  <2>1. /\ <<[id |-> s]>> \in Seq(Criterion(s))
        /\ [n \in DOMAIN Criteria[s] |-> [class |-> Criteria[s][n]]] \in Seq(Criterion(s))
    <3>1. Criteria[s] \in Seq(Classes)
      BY RestoreAssumption
    <3>2. QED
      BY <3>1 DEF Criterion
  <2>2. all(s) \in Seq(Criterion(s))
    BY <2>1
  <2> HIDE DEF all
  <2>3. QED
    BY <2>2 DEF Con, IsCon
<1>2. /\ cons' = [p \in Places |-> IF p \in Slots THEN Con(None, all(p)) ELSE cons[p]]
      /\ alive' = alive \cup Slots /\ states' = states \cup Slots /\ raced' = raced
  BY DEF AppendLayout
<1> HIDE DEF all
<1>3. \A s \in Slots : cons'[s].window = None
  BY <1>2 DEF Con, Places
<1>4. RestoreTypes'
  BY <1>1, <1>2 DEF RestoreInv, RestoreTypes, Places
<1>5. QED
  BY <1>3, <1>4, RestoreAssumption DEF RestoreInv, AtHome, FirstWindowWins

\* What con_for_window and match_matches_window find.
LEMMA Takes ==
    ASSUME RestoreInv, NEW i, NEW is, Takers(i, is) # {}
    PROVE  LET s == ConForWindow(i, is)
               m == MatchOf(i, is, s)
           IN /\ s \in Slots /\ s \in Takers(i, is) /\ m \in 1 .. Len(cons[s].swallows)
              /\ cons[s].swallows # <<>>
              /\ RemoveAt(cons[s].swallows, m) \in Seq(Criterion(s))
<1> DEFINE s == ConForWindow(i, is)
           m == MatchOf(i, is, s)
           I == {n \in 1 .. Len(cons[s].swallows) : Meets(cons[s].swallows[n], i, is)}
<1>1. s \in Takers(i, is) /\ s \in Slots
  <2>1. Takers(i, is) \in SUBSET Nat
    BY RestoreAssumption DEF Takers
  <2>2. QED
    BY <2>1, MinOfSet, Zenon DEF ConForWindow, Takers
<1>2. cons[s].swallows \in Seq(Criterion(s))
  BY <1>1 DEF RestoreInv, RestoreTypes, Places, IsCon
<1>3. I # {} /\ I \in SUBSET Nat /\ cons[s].swallows # <<>>
  BY <1>1, <1>2 DEF Takers
<1>4. m = Min(I)
  BY <1>3 DEF MatchOf, SelectInSeq
<1>5. m \in 1 .. Len(cons[s].swallows)
  BY <1>3, <1>4, MinOfSet
<1>6. QED
  BY <1>1, <1>2, <1>3, <1>5, Shorter

\* A placeholder's window is taken by its own slot only.
LEMMA PlaceholderTaken ==
    ASSUME RestoreInv, NEW i \in Slots, NEW s \in Takers(i, IsOf(i))
    PROVE  s = i
<1>1. IsOf(i) = None
  BY RestoreAssumption DEF IsOf
<1>2. s \in Slots /\ cons[s].swallows \in Seq(Criterion(s))
  BY DEF Takers, RestoreInv, RestoreTypes, Places, IsCon
<1>3. PICK n \in DOMAIN cons[s].swallows : Meets(cons[s].swallows[n], i, None)
  BY <1>1 DEF Takers
<1>4. cons[s].swallows[n] \in Criterion(s)
  BY <1>2, <1>3
<1>5. CASE cons[s].swallows[n] = [id |-> s]
  BY <1>3, <1>5 DEF Meets
<1>6. ASSUME NEW c \in Classes, cons[s].swallows[n] = [class |-> c] PROVE FALSE
  BY <1>3, <1>6, RestoreAssumption DEF Meets
<1>7. QED
  BY <1>2, <1>4, <1>5, <1>6 DEF Criterion

LEMMA KillFacts ==
    ASSUME NEW i, KillPlaceholder(i)
    PROVE  /\ states' \subseteq states /\ alive' \subseteq alive
           /\ i \in states => states' = states \ {i} /\ alive' = alive \ {i}
  BY DEF KillPlaceholder, IsPlaceholder

\* A window comes into slot s, and the others stay as they are.
LEMMA Filled ==
    ASSUME RestoreInv, NEW i \in Places, NEW s \in Slots, NEW new, IsCon(new, s), new.window = i,
           KillPlaceholder(cons[s].window),
           raced' \in BOOLEAN, raced => raced',
           \/ cons' = [cons EXCEPT ![s] = new]
           \/ \E lost \in Places \ {s} :
                cons' = [cons EXCEPT ![lost] = NoCon, ![s] = new],
           ~raced' => /\ i \in Slots => i = s
                      /\ i \in Clients => cons[s].window \in states /\ new.swallows = <<>>
    PROVE  RestoreInv'
<1>1. /\ states' \subseteq states /\ alive' \subseteq alive
      /\ cons[s].window \in states => states' = states \ {cons[s].window} /\ alive' = alive \ {cons[s].window}
  BY KillFacts
<1>2. s \in Places /\ IsCon(cons[s], s)
  BY DEF RestoreInv, RestoreTypes, Places
<1>4. /\ cons' = [p \in Places |-> cons'[p]] /\ cons'[s] = new
      /\ \A p \in Places : p # s => cons'[p] \in {cons[p], NoCon}
  BY <1>2 DEF RestoreInv, RestoreTypes
<1>5. RestoreTypes'
  <2>1. ASSUME NEW p \in Places PROVE IsCon(cons'[p], p)
    <3>1. IsCon(NoCon, p) /\ IsCon(cons[p], p)
      BY NoConOK DEF RestoreInv, RestoreTypes
    <3>2. QED
      BY <1>4, <3>1
  <2>2. QED
    BY <1>1, <1>4, <2>1 DEF RestoreInv, RestoreTypes
<1>6. ASSUME ~raced' PROVE AtHome'
  <2>1. AtHome /\ (i \in Slots => i = s)
    BY <1>6 DEF RestoreInv
  <2>2. ASSUME NEW r \in Slots, cons'[r].window \in Slots PROVE cons'[r].window = r
    <3>1. CASE r = s
      BY <1>4, <2>1, <2>2, <3>1
    <3>2. CASE r # s
      <4>1. NoCon.window = None /\ r \in Places
        BY DEF NoCon, Places
      <4>2. QED
        BY <1>4, <2>1, <2>2, <3>2, <4>1, RestoreAssumption DEF AtHome
    <3>3. QED
      BY <3>1, <3>2
  <2>3. QED
    BY <2>2 DEF AtHome
<1>7. ASSUME ~raced', NEW r \in Slots, cons'[r].window \in Clients
      PROVE  cons'[r].swallows = <<>> /\ r \notin alive' \cup states'
  <2>1. CASE r = s
    <3>1. i \in Clients /\ cons[s].window \in states /\ new.swallows = <<>>
      BY <1>4, <1>7, <2>1
    <3>2. cons[s].window = s
      BY <1>7, <3>1 DEF RestoreInv, RestoreTypes, AtHome
    <3>3. QED
      BY <1>1, <1>4, <2>1, <3>1, <3>2
  <2>2. CASE r # s
    <3>1. cons'[r] = cons[r]
      BY <1>4, <1>7, <2>2, RestoreAssumption DEF NoCon, Places
    <3>2. QED
      BY <1>1, <1>7, <3>1 DEF RestoreInv, FirstWindowWins
  <2>3. QED
    BY <2>1, <2>2
<1>8. QED
  BY <1>5, <1>6, <1>7 DEF RestoreInv, FirstWindowWins

LEMMA ManageWindowOK ==
    ASSUME RestoreInv, NEW i \in Places, i \in alive, ~Managed(i), ManageWindow(i)
    PROVE  RestoreInv'
<1>1. CASE Takers(i, IsOf(i)) = {}
  <2>1. /\ cons' = [cons EXCEPT ![i] = Con(i, <<>>)] /\ raced' = (raced \/ i \in Slots)
        /\ alive' = alive /\ states' = states
    BY <1>1 DEF ManageWindow
  <2>2. IsCon(Con(i, <<>>), i)
    BY DEF Con, IsCon
  <2>3. RestoreTypes'
    BY <2>1, <2>2 DEF RestoreInv, RestoreTypes
  <2>4. ASSUME ~raced' PROVE ~raced /\ \A s \in Slots : cons'[s] = cons[s]
    BY <2>1, <2>4 DEF RestoreInv, RestoreTypes, Places
  <2>5. QED
    BY <2>1, <2>3, <2>4 DEF RestoreInv, AtHome, FirstWindowWins
<1>2. CASE Takers(i, IsOf(i)) # {}
  <2> DEFINE s == ConForWindow(i, IsOf(i))
             m == MatchOf(i, IsOf(i), s)
             con == cons[s]
             rest == RemoveAt(con.swallows, m)
             matches == IF con.window = None THEN rest ELSE Rest(con.window, rest)
  <2>1. /\ s \in Slots /\ s \in Takers(i, IsOf(i)) /\ con.swallows # <<>> /\ rest \in Seq(Criterion(s))
    BY <1>2, Takes
  <2>2. IsCon(con, s) /\ s \in Places
    BY <2>1 DEF RestoreInv, RestoreTypes, Places
  <2>3. /\ KillPlaceholder(con.window)
        /\ cons' = [cons EXCEPT ![s].window = i, ![s].swallows = matches]
        /\ raced' = (raced \/ (i \in Clients /\ ~IsPlaceholder(con.window)))
    BY <1>2 DEF ManageWindow
  <2>4. matches \in Seq(Criterion(s)) /\ (con.window \in states => matches = <<>>)
    BY <2>1, RestoreAssumption DEF Rest, IsPlaceholder, RestoreInv, RestoreTypes
  <2> HIDE DEF s, m, rest, matches
  <2>5. cons' = [cons EXCEPT ![s] = Filling(con, i, matches)]
    <3>1. [[con EXCEPT !.window = i] EXCEPT !.swallows = matches] = Filling(con, i, matches)
      <4>1. [con EXCEPT !.window = i] = Filling(con, i, con.swallows)
        BY <2>2 DEF IsCon, Filling
      <4>2. [Filling(con, i, con.swallows) EXCEPT !.swallows = matches] = Filling(con, i, matches)
        BY DEF Filling
      <4>3. QED
        BY <4>1, <4>2
    <3>2. QED
      BY <2>2, <2>3, <3>1 DEF RestoreInv, RestoreTypes
  <2>6. i \in Slots => i = s
    BY <2>1, PlaceholderTaken
  <2>7. ~raced' => (i \in Clients => con.window \in states /\ matches = <<>>)
    BY <2>3, <2>4 DEF IsPlaceholder
  <2>8. raced' \in BOOLEAN /\ (raced => raced')
    BY <2>2, <2>3 DEF IsCon, RestoreInv, RestoreTypes
  <2> DEFINE new == Filling(con, i, matches)
  <2>9. IsCon(new, s) /\ new.window = i /\ new.swallows = matches
    BY <2>4 DEF IsCon, Filling
  <2>10. ~raced' => /\ i \in Slots => i = s
                    /\ i \in Clients => cons[s].window \in states /\ new.swallows = <<>>
    BY <2>6, <2>7, <2>9
  <2> HIDE DEF new
  <2>11. cons' = [cons EXCEPT ![s] = new]
    BY <2>5 DEF new
  <2>12. QED
    BY <2>1, <2>3, <2>8, <2>9, <2>10, <2>11, Filled
<1>3. QED
  BY <1>1, <1>2

LEMMA MapRequestOK == ASSUME RestoreInv, MapRequest PROVE RestoreInv'
<1> DEFINE i == Head(queue)[2]
<1>1. CASE i \in alive /\ ~Managed(i)
  <2>1. i \in Places /\ ManageWindow(i)
    BY <1>1 DEF MapRequest, RestoreInv, RestoreTypes
  <2>2. QED
    BY <1>1, <2>1, ManageWindowOK
<1>2. CASE ~(i \in alive /\ ~Managed(i))
  <2>1. UNCHANGED <<cons, alive, states, raced>>
    BY <1>2 DEF MapRequest
  <2>2. QED
    BY <2>1 DEF RestoreInv, RestoreTypes, AtHome, FirstWindowWins
<1>3. QED
  BY <1>1, <1>2

\* A container that closes, and nothing else.
LEMMA Closes ==
    ASSUME RestoreInv, NEW p \in Places, cons' = [cons EXCEPT ![p] = NoCon],
           UNCHANGED <<alive, states>>, raced' \in BOOLEAN, raced => raced'
    PROVE  RestoreInv'
<1>1. IsCon(NoCon, p) /\ NoCon.window = None
  BY NoConOK DEF NoCon
<1>2. RestoreTypes'
  BY <1>1 DEF RestoreInv, RestoreTypes
<1>3. \A s \in Slots : cons'[s].window # None => cons'[s] = cons[s]
  BY <1>1 DEF RestoreInv, RestoreTypes, Places
<1>4. QED
  BY <1>2, <1>3, RestoreAssumption DEF RestoreInv, AtHome, FirstWindowWins

LEMMA PlaceOfOK == ASSUME NEW i, Managed(i) PROVE PlaceOf(i) \in Places /\ cons[PlaceOf(i)].window = i
  BY DEF Managed, PlaceOf

LEMMA WindowGoneOK == ASSUME RestoreInv, WindowGone PROVE RestoreInv'
<1> DEFINE i == Head(queue)[2]
<1>1. /\ cons' = IF Managed(i) THEN [cons EXCEPT ![PlaceOf(i)] = NoCon] ELSE cons
      /\ UNCHANGED <<alive, states, raced>>
  BY DEF WindowGone
<1> HIDE DEF i
<1>2. CASE Managed(i)
  BY <1>1, <1>2, PlaceOfOK, Closes DEF RestoreInv, RestoreTypes
<1>3. CASE ~Managed(i)
  BY <1>1, <1>3 DEF RestoreInv, RestoreTypes, AtHome, FirstWindowWins
<1>4. QED
  BY <1>2, <1>3

LEMMA RemanageWindowOK == ASSUME RestoreInv, NEW w \in Clients, RemanageWindow(w) PROVE RestoreInv'
<1> DEFINE s == ConForWindow(w, class[w])
           lost == PlaceOf(w)
           rest == Rest(cons[s].window, cons[s].swallows)
           new == [Con(w, rest) EXCEPT !.marks = MergedMarks(cons[lost], cons[s])]
<1>1. CASE Managed(w) /\ ~swallowed[w] /\ Takers(w, class[w]) # {} /\ MayTakeOver(s, w)
  <2>1. MergeInto(w, s)
    BY <1>1 DEF RemanageWindow
  <2>2. lost \in Places /\ cons[lost].window = w /\ s \in Slots /\ s \in Places /\ IsCon(cons[s], s)
    BY <1>1, Takes, PlaceOfOK DEF RestoreInv, RestoreTypes, Places
  <2>3. lost # s
    BY <1>1, <2>2 DEF MayTakeOver
  <2>4. /\ KillPlaceholder(cons[s].window) /\ cons' = [cons EXCEPT ![lost] = NoCon, ![s] = new]
        /\ raced' = (raced \/ ~IsPlaceholder(cons[s].window))
    BY <2>1 DEF MergeInto
  <2> HIDE DEF s, lost
  <2>5. rest \in Seq(Criterion(s)) /\ (cons[s].window \in states => rest = <<>>)
    <3>1. cons[s].swallows \in Seq(Criterion(s))
      BY <2>2 DEF IsCon
    <3>2. QED
      BY <3>1 DEF Rest, IsPlaceholder
  <2> HIDE DEF rest
  <2>6. IsCon(new, s) /\ new.window = w /\ new.swallows = rest
    <3>1. ASSUME NEW open, NEW ms, NEW left
          PROVE  LET c == [[open |-> open, window |-> w, swallows |-> rest, marks |-> ms] EXCEPT !.marks = left]
                 IN  c = [open |-> open, window |-> w, swallows |-> rest, marks |-> left]
      OBVIOUS
    <3>2. new = [open |-> TRUE, window |-> w, swallows |-> rest, marks |-> MergedMarks(cons[lost], cons[s])]
      BY <3>1, Zenon DEF Con
    <3>3. QED
      BY <2>5, <3>2, Zenon DEF IsCon
  <2> HIDE DEF new
  <2>7. w \in Places /\ w \notin Slots /\ lost \in Places \ {s} /\ raced' \in BOOLEAN /\ (raced => raced')
    BY <2>2, <2>3, <2>4, RestoreAssumption DEF Places, RestoreInv, RestoreTypes
  <2>8. ~raced' => /\ w \in Slots => w = s
                   /\ w \in Clients => cons[s].window \in states /\ new.swallows = <<>>
    BY <2>4, <2>5, <2>6, <2>7 DEF IsPlaceholder
  <2>9. QED
    BY <2>2, <2>4, <2>6, <2>7, <2>8, Filled
<1>2. CASE ~(Managed(w) /\ ~swallowed[w] /\ Takers(w, class[w]) # {} /\ MayTakeOver(s, w))
  <2>1. UNCHANGED <<cons, alive, states, raced>>
    BY <1>2 DEF RemanageWindow
  <2>2. QED
    BY <2>1 DEF RestoreInv, RestoreTypes, AtHome, FirstWindowWins
<1>3. QED
  BY <1>1, <1>2

LEMMA MarkConOK == ASSUME RestoreInv, NEW p \in Places, NEW m \in MarkNames, MarkCon(p, m) PROVE RestoreInv'
<1> DEFINE left(q) == IF q = p THEN Append(cons[q].marks, m) ELSE Remove(cons[q].marks, m)
<1>1. /\ cons' = [q \in Places |-> [cons[q] EXCEPT !.marks = left(q)]]
      /\ UNCHANGED <<alive, states, raced>>
  BY DEF MarkCon
<1>2. ASSUME NEW q \in Places
      PROVE  /\ IsCon(cons'[q], q) /\ cons'[q].window = cons[q].window /\ cons'[q].swallows = cons[q].swallows
  <2>1. IsCon(cons[q], q)
    BY DEF RestoreInv, RestoreTypes
  <2> HIDE DEF left
  <2>2. QED
    BY <1>1, <2>1 DEF IsCon
<1>3. RestoreTypes'
  BY <1>1, <1>2 DEF RestoreInv, RestoreTypes
<1>4. QED
  BY <1>1, <1>2, <1>3 DEF RestoreInv, AtHome, FirstWindowWins, Places

LEMMA RestoreStepOK == ASSUME RestoreInv, [RestoreNext]_restoreVars PROVE RestoreInv'
<1>1. CASE AppendLayout
  BY <1>1, AppendLayoutOK
<1>2. CASE MapRequest
  BY <1>2, MapRequestOK
<1>3. CASE WindowGone
  BY <1>3, WindowGoneOK
<1>4. CASE KillClient
  BY <1>4 DEF KillClient, RestoreInv, RestoreTypes, AtHome, FirstWindowWins
<1>5. CASE Reconnect
  BY <1>5 DEF Reconnect, RestoreInv, RestoreTypes, AtHome, FirstWindowWins
<1>6. CASE NextSecond
  BY <1>6 DEF NextSecond, RestoreInv, RestoreTypes, AtHome, FirstWindowWins
<1>7. ASSUME NEW s \in Slots, KillEmpty(s) PROVE RestoreInv'
  BY <1>7, Closes DEF KillEmpty, Places
<1>8. ASSUME NEW p \in Places, NEW m \in MarkNames, MarkCon(p, m) PROVE RestoreInv'
  BY <1>8, MarkConOK
<1>9. ASSUME NEW w \in Clients, RemanageWindow(w) PROVE RestoreInv'
  BY <1>9, RemanageWindowOK
<1>10. ASSUME NEW w \in Clients, NEW c \in Classes \cup {None}, Map(w, c) PROVE RestoreInv'
  BY <1>10, RestoreAssumption DEF Map, RestoreInv, RestoreTypes, AtHome, FirstWindowWins, Places
<1>11. ASSUME NEW w \in Clients, Withdraw(w) \/ \E c \in Classes : SetClass(w, c) PROVE RestoreInv'
  BY <1>11 DEF Withdraw, SetClass, RestoreInv, RestoreTypes, AtHome, FirstWindowWins
<1>12. CASE UNCHANGED restoreVars
  BY <1>12 DEF restoreVars, RestoreInv, RestoreTypes, AtHome, FirstWindowWins
<1>13. QED
  BY <1>1, <1>2, <1>3, <1>4, <1>5, <1>6, <1>7, <1>8, <1>9, <1>10, <1>11, <1>12 DEF RestoreNext

\* "Remove all match criteria, the first swallowed window wins." (manage.c:28): a window
\* that took the place of a managed placeholder keeps it, and the placeholder is gone,
\* whatever windows are mapped, withdrawn and change their class, and although the
\* placeholders' connection may be killed.
THEOREM FirstSwallowedWins == RestoreSpec => []FirstWindowWins
<1>1. RestoreInit => RestoreInv
  BY RestoreInitOK
<1>2. RestoreInv /\ [RestoreNext]_restoreVars => RestoreInv'
  BY RestoreStepOK
<1>3. RestoreInv => FirstWindowWins
  BY DEF RestoreInv
<1>4. QED
  BY <1>1, <1>2, <1>3, PTL DEF RestoreSpec

-----------------------------------------------------------------------------
(* What i3 knows of a window                                                *)

PropsSpec == PropsInit /\ [][PropsNext]_propsVars

Fields == {"name", "utf8", "class", "role", "machine", "type", "leader", "transient", "refuses",
           "urgent", "border", "min", "max", "floating", "mark"}
IsRecord(r) == r = [f \in Fields |-> r[f]]

\* The record has the property p of value v as window.c leaves it.
Settled(r, p, v) ==
    IF v # Unset THEN Agrees(r, p, v) /\ (p = "name" => r.utf8)
    ELSE (p \in Cleared => r[p] = Unset) /\ (p = "hints" => ~r.urgent)

\* The fields that an update sets, and those by which a property is settled
Sets(p) == CASE p = "name" -> {"name", "utf8"} [] p = "legacy" -> {"name"}
             [] p = "hints" -> {"refuses", "urgent"} [] p = "motif" -> {"border"}
             [] p = "normal" -> {"min", "max"} [] OTHER -> {p}
Reads(p) == IF p \in {"name", "legacy"} THEN {"name", "utf8"} ELSE Sets(p)

LEMMA FreshOK == IsRecord(Fresh)
  BY DEF IsRecord, Fields, Fresh

LEMMA UpdateSettles ==
    ASSUME NEW r, IsRecord(r), NEW p \in Props, NEW v
    PROVE  /\ IsRecord(Update(p, r, v)) /\ Settled(Update(p, r, v), p, v)
           /\ \A f \in Fields \ Sets(p) : Update(p, r, v)[f] = r[f]
<1> USE DEF IsRecord, Fields, Settled, Agrees, Sets, Cleared, Update
<1>1. CASE p = "name"
  BY <1>1 DEF UpdateName
<1>2. CASE p = "legacy"
  BY <1>2 DEF UpdateNameLegacy
<1>3. CASE p = "class"
  BY <1>3 DEF UpdateClass
<1>4. CASE p = "role"
  BY <1>4 DEF UpdateRole
<1>5. CASE p = "machine"
  BY <1>5 DEF UpdateMachine
<1>6. CASE p = "type"
  BY <1>6 DEF UpdateType
<1>7. CASE p = "leader"
  BY <1>7 DEF UpdateLeader
<1>8. CASE p = "transient"
  BY <1>8 DEF UpdateTransientFor
<1>9. CASE p = "hints"
  BY <1>9 DEF UpdateHints
<1>10. CASE p = "motif"
  BY <1>10 DEF UpdateMotif
<1>11. CASE p = "normal"
  BY <1>11 DEF UpdateNormalHints
<1>12. QED
  BY <1>1, <1>2, <1>3, <1>4, <1>5, <1>6, <1>7, <1>8, <1>9, <1>10, <1>11 DEF Props, Kept

\* Only the two titles share a field, and the legacy one gives way.
LEMMA UpdateKeeps ==
    ASSUME NEW r, IsRecord(r), NEW p \in Props, NEW v, NEW q \in Props, NEW u, q # p, Settled(r, q, u)
    PROVE  Settled(Update(p, r, v), q, u)
<1>1. CASE p = "name"
  BY <1>1 DEF IsRecord, Fields, Settled, Agrees, Cleared, Update, UpdateName, Props, Kept
<1>2. CASE p = "legacy"
  BY <1>2 DEF IsRecord, Fields, Settled, Agrees, Cleared, Update, UpdateNameLegacy, Props, Kept
<1>3. CASE p \notin {"name", "legacy"}
  <2>1. \A f \in Fields \ Sets(p) : Update(p, r, v)[f] = r[f]
    BY UpdateSettles
  <2>2. Reads(q) \subseteq Fields \ Sets(p)
    BY <1>3 DEF Reads, Sets, Fields, Props, Kept, Cleared
  <2>3. \A f \in Reads(q) : Update(p, r, v)[f] = r[f]
    BY <2>1, <2>2
  <2>4. QED
    BY <2>3 DEF Reads, Sets, Settled, Agrees, Cleared, Props, Kept
<1>4. QED
  BY <1>1, <1>2, <1>3

\* The properties that a record has as they are at the server
Has(r, w, S) == IsRecord(r) /\ \A p \in S : Settled(r, p, x[w][p])

LEMMA ReadsNext ==
    ASSUME NEW r, NEW w, NEW S, Has(r, w, S), S \subseteq Props, NEW p, p \in Props,
           NEW next, next = Update(p, r, x[w][p]), NEW T, T = S \cup {p}
    PROVE  Has(next, w, T) /\ T \subseteq Props
<1>1. ASSUME NEW q \in T PROVE Settled(next, q, x[w][q])
  <2>1. CASE q = p
    BY <2>1, UpdateSettles DEF Has
  <2>2. CASE q # p
    BY <1>1, <2>2, UpdateKeeps DEF Has
  <2>3. QED
    BY <2>1, <2>2
<1>2. QED
  BY <1>1, UpdateSettles DEF Has

LEMMA ReadsAll == ASSUME NEW w PROVE Has(ReadAll(w), w, Props)
<1> DEFINE s0 == {}
           r0 == Fresh
           r1 == UpdateClass(r0, x[w].class)
           s1 == s0 \cup {"class"}
           r2 == UpdateNameLegacy(r1, x[w].legacy)
           s2 == s1 \cup {"legacy"}
           r3 == UpdateName(r2, x[w].name)
           s3 == s2 \cup {"name"}
           r4 == UpdateLeader(r3, x[w].leader)
           s4 == s3 \cup {"leader"}
           r5 == UpdateTransientFor(r4, x[w].transient)
           s5 == s4 \cup {"transient"}
           r6 == UpdateRole(r5, x[w].role)
           s6 == s5 \cup {"role"}
           r7 == UpdateHints(r6, x[w].hints)
           s7 == s6 \cup {"hints"}
           r8 == UpdateMotif(r7, x[w].motif)
           s8 == s7 \cup {"motif"}
           r9 == UpdateNormalHints(r8, x[w].normal)
           s9 == s8 \cup {"normal"}
           r10 == UpdateMachine(r9, x[w].machine)
           s10 == s9 \cup {"machine"}
           r11 == UpdateType(r10, x[w].type)
           s11 == s10 \cup {"type"}
<1>1. Has(r0, w, s0) /\ s0 \subseteq Props
  BY FreshOK DEF Has
<1>2. ReadAll(w) = r11 /\ s11 = Props
  BY DEF ReadAll, Props, Kept, Cleared
<1>3. r1 = Update("class", r0, x[w]["class"]) /\ s1 = s0 \cup {"class"} /\ "class" \in Props
  BY DEF Update, Props, Kept, Cleared
<1>4. r2 = Update("legacy", r1, x[w]["legacy"]) /\ s2 = s1 \cup {"legacy"} /\ "legacy" \in Props
  BY DEF Update, Props, Kept, Cleared
<1>5. r3 = Update("name", r2, x[w]["name"]) /\ s3 = s2 \cup {"name"} /\ "name" \in Props
  BY DEF Update, Props, Kept, Cleared
<1>6. r4 = Update("leader", r3, x[w]["leader"]) /\ s4 = s3 \cup {"leader"} /\ "leader" \in Props
  BY DEF Update, Props, Kept, Cleared
<1>7. r5 = Update("transient", r4, x[w]["transient"]) /\ s5 = s4 \cup {"transient"} /\ "transient" \in Props
  BY DEF Update, Props, Kept, Cleared
<1>8. r6 = Update("role", r5, x[w]["role"]) /\ s6 = s5 \cup {"role"} /\ "role" \in Props
  BY DEF Update, Props, Kept, Cleared
<1>9. r7 = Update("hints", r6, x[w]["hints"]) /\ s7 = s6 \cup {"hints"} /\ "hints" \in Props
  BY DEF Update, Props, Kept, Cleared
<1>10. r8 = Update("motif", r7, x[w]["motif"]) /\ s8 = s7 \cup {"motif"} /\ "motif" \in Props
  BY DEF Update, Props, Kept, Cleared
<1>11. r9 = Update("normal", r8, x[w]["normal"]) /\ s9 = s8 \cup {"normal"} /\ "normal" \in Props
  BY DEF Update, Props, Kept, Cleared
<1>12. r10 = Update("machine", r9, x[w]["machine"]) /\ s10 = s9 \cup {"machine"} /\ "machine" \in Props
  BY DEF Update, Props, Kept, Cleared
<1>13. r11 = Update("type", r10, x[w]["type"]) /\ s11 = s10 \cup {"type"} /\ "type" \in Props
  BY DEF Update, Props, Kept, Cleared
<1> HIDE DEF r0, r1, r2, r3, r4, r5, r6, r7, r8, r9, r10, r11, s0, s1, s2, s3, s4, s5, s6, s7, s8, s9, s10, s11
<1>14. Has(r1, w, s1) /\ s1 \subseteq Props
  BY <1>1, <1>3, ReadsNext
<1>15. Has(r2, w, s2) /\ s2 \subseteq Props
  BY <1>14, <1>4, ReadsNext
<1>16. Has(r3, w, s3) /\ s3 \subseteq Props
  BY <1>15, <1>5, ReadsNext
<1>17. Has(r4, w, s4) /\ s4 \subseteq Props
  BY <1>16, <1>6, ReadsNext
<1>18. Has(r5, w, s5) /\ s5 \subseteq Props
  BY <1>17, <1>7, ReadsNext
<1>19. Has(r6, w, s6) /\ s6 \subseteq Props
  BY <1>18, <1>8, ReadsNext
<1>20. Has(r7, w, s7) /\ s7 \subseteq Props
  BY <1>19, <1>9, ReadsNext
<1>21. Has(r8, w, s8) /\ s8 \subseteq Props
  BY <1>20, <1>10, ReadsNext
<1>22. Has(r9, w, s9) /\ s9 \subseteq Props
  BY <1>21, <1>11, ReadsNext
<1>23. Has(r10, w, s10) /\ s10 \subseteq Props
  BY <1>22, <1>12, ReadsNext
<1>24. Has(r11, w, s11) /\ s11 \subseteq Props
  BY <1>23, <1>13, ReadsNext
<1>25. QED
  BY <1>2, <1>24

Notices == (Windows \X {"map", "unmap"}) \cup (Windows \X Props \X BOOLEAN)
Phases == {"unmanaged", "read", "deaf", "managed"}
Calls == [w : Windows, at : Nat \ {0}, generation : Nat]

ClientTypes ==
    /\ x = [w \in Windows |-> x[w]] /\ \A w \in Windows : x[w] = [p \in Props |-> x[w][p]]
    /\ rec = [w \in Windows |-> rec[w]] /\ \A w \in Windows : IsRecord(rec[w])
    /\ phase \in [Windows -> Phases]
    /\ notices \in Seq(Notices)
RuleTypes ==
    /\ stack \in Seq(Calls) /\ generation \in Nat
    /\ DOMAIN ran = Windows /\ ran = [w \in DOMAIN ran |-> ran[w]]
    /\ times \in [Windows -> [DOMAIN Rules -> {0, 1}]]

About(w, p) == {<<w, p, TRUE>>, <<w, p, FALSE>>}
Holds(q, A) == \E n \in 1 .. Len(q) : q[n] \in A
Pending(q, w, p) == Holds(q, About(w, p))
\* After each a in q there is a b.
Followed(q, a, b) == \A n \in 1 .. Len(q) : q[n] = a => \E k \in n + 1 .. Len(q) : q[k] = b
\* After the notice that a property is deleted comes the one that it is set.
Corrected(q, w, p) == Followed(q, <<w, p, TRUE>>, <<w, p, FALSE>>)

\* What a late notice says of a property that is there, another one corrects.
LateOnes ==
    \A w \in Windows, p \in Props : <<w, p>> \notin missed /\ x[w][p] # Unset => Corrected(notices, w, p)
\* What a record does not have, a notice tells.
Told ==
    \A w \in Windows, p \in Props :
        phase[w] # "unmanaged" /\ <<w, p>> \notin missed =>
            Settled(rec[w], p, x[w][p]) \/ Pending(notices, w, p)
\* A rule that has not been noted has not run.
RunsCounted ==
    \A w \in Windows : \A i \in DOMAIN Rules : times[w][i] = 1 => i \in ran[w]

ClientInv == ClientTypes /\ LateOnes /\ Told
RuleInv == RuleTypes /\ RunsCounted
PropsInv == ClientInv /\ RuleInv

-----------------------------------------------------------------------------
(* Rules                                                                    *)

LEMMA Ends ==
    ASSUME NEW S, NEW s \in Seq(S), s # <<>>
    PROVE  Last(s) \in S /\ Len(s) \in 1 .. Len(s) /\ Front(s) \in Seq(S)
  BY DEF Last, Front

LEMMA Exchanged ==
    ASSUME NEW S, NEW s \in Seq(S), NEW n \in 1 .. Len(s), NEW e \in S
    PROVE  [s EXCEPT ![n] = e] \in Seq(S)
  OBVIOUS

LEMMA LeftOne ==
    ASSUME NEW f \in Calls, Left(f) # {}
    PROVE  LET i == CHOOSE j \in Left(f) : \A k \in Left(f) : j <= k
           IN  i \in Left(f) /\ i \in DOMAIN Rules
<1>1. f.at \in Nat \ {0}
  BY DEF Calls
<1>2. Left(f) \in SUBSET Nat /\ Left(f) \subseteq DOMAIN Rules
  BY <1>1, RulesAssumption DEF Left
<1>3. PICK n \in Left(f) : \A k \in Left(f) : n <= k
  BY <1>2, LeastExists, Zenon
<1>4. QED
  BY <1>2, <1>3, Zenon

LEMMA RunRuleOK == ASSUME RuleInv, RunRule PROVE RuleInv'
<1> DEFINE f == Last(stack)
           w == f.w
           i == CHOOSE j \in Left(f) : \A k \in Left(f) : j <= k
           on == [stack EXCEPT ![Len(stack)].at = i + 1]
<1>1. f \in Calls /\ Left(f) # {} /\ stack \in Seq(Calls) /\ Len(stack) \in 1 .. Len(stack)
  BY Ends DEF RunRule, RuleInv, RuleTypes
<1>2. i \in Left(f) /\ i \in DOMAIN Rules
  BY <1>1, LeftOne
<1>3. w \in Windows
  BY <1>1 DEF Calls
<1>4. \/ /\ Note(w, i) /\ times' = [times EXCEPT ![w][i] = @ + 1]
         /\ stack' \in {on, Append(on, Call(w))} /\ generation' = generation
      \/ /\ generation' = generation + 1 /\ stack' = on
         /\ ran' = [v \in Windows |-> {}] /\ times' = [v \in Windows |-> [j \in DOMAIN Rules |-> 0]]
  <2>1. Rules[i].command \in Commands
    BY <1>2, RulesAssumption
  <2>2. QED
    BY <2>1 DEF RunRule, Commands
<1> HIDE DEF i
<1>5. i \in Nat \ {0} /\ i \notin ran[w]
  BY <1>2, RulesAssumption DEF Left
<1>6. on \in Seq(Calls)
  <2>1. ASSUME NEW g \in Calls, NEW n \in Nat \ {0} PROVE [g EXCEPT !.at = n] \in Calls
    BY DEF Calls
  <2>2. i + 1 \in Nat \ {0} /\ stack[Len(stack)] \in Calls
    BY <1>1, <1>5
  <2>3. on = [stack EXCEPT ![Len(stack)] = [stack[Len(stack)] EXCEPT !.at = i + 1]]
    BY <1>1
  <2>4. QED
    BY <1>1, <2>1, <2>2, <2>3, Exchanged
<1> HIDE DEF f, w, on
<1>7. stack' \in Seq(Calls) /\ generation' \in Nat
  <2>1. Call(w) \in Calls /\ generation \in Nat
    BY <1>3 DEF Call, Calls, RuleInv, RuleTypes
  <2>2. Append(on, Call(w)) \in Seq(Calls)
    BY <1>6, <2>1
  <2>3. QED
    BY <1>4, <1>6, <2>1, <2>2
<1>8. CASE Note(w, i) /\ times' = [times EXCEPT ![w][i] = @ + 1]
  <2>1. times[w][i] = 0
    BY <1>2, <1>3, <1>5 DEF RuleInv, RuleTypes, RunsCounted
  <2>2. times[w][i] + 1 = 1
    BY <2>1
  <2>3. times' = [times EXCEPT ![w] = [times[w] EXCEPT ![i] = 1]]
    BY <1>8, <2>2, Zenon
  <2>4. ran' = [ran EXCEPT ![w] = ran[w] \cup {i}]
    BY <1>8 DEF Note
  <2>5. ASSUME NEW c \in [DOMAIN Rules -> {0, 1}] PROVE [c EXCEPT ![i] = 1] \in [DOMAIN Rules -> {0, 1}]
    OBVIOUS
  <2>6. ASSUME NEW v \in Windows
        PROVE  /\ times'[v] \in [DOMAIN Rules -> {0, 1}]
               /\ \A j \in DOMAIN Rules : times'[v][j] = 1 => j \in ran'[v]
    BY <1>2, <1>3, <2>3, <2>4 DEF RuleInv, RuleTypes, RunsCounted
  <2>7. QED
    BY <1>7, <2>3, <2>4, <2>6 DEF RuleInv, RuleTypes, RunsCounted
<1>9. CASE ran' = [v \in Windows |-> {}] /\ times' = [v \in Windows |-> [j \in DOMAIN Rules |-> 0]]
  BY <1>7, <1>9 DEF RuleInv, RuleTypes, RunsCounted
<1>10. QED
  BY <1>4, <1>8, <1>9

LEMMA RuleStepOK == ASSUME RuleInv, ClientTypes, [PropsNext]_propsVars PROVE RuleInv'
<1>1. CASE RunRule
  BY <1>1, RunRuleOK
<1>2. ASSUME stack' \in Seq(Calls), UNCHANGED <<generation, ran, times>> PROVE RuleInv'
  BY <1>2 DEF RuleInv, RuleTypes, RunsCounted
<1>3. ASSUME NEW w \in Windows PROVE <<Call(w)>> \in Seq(Calls)
  BY DEF Call, Calls, RuleInv, RuleTypes
<1>4. CASE Return
  BY <1>2, <1>4, Ends DEF Return, RuleInv, RuleTypes
<1>5. CASE PropertyNotify
  <2>1. UNCHANGED <<generation, ran, times>> /\ stack' \in {<<Call(Handled[1])>>, <<>>}
    BY <1>5 DEF PropertyNotify, Take
  <2>2. Handled \in Notices
    BY <1>5 DEF PropertyNotify, Take, Ready, Handled, ClientTypes
  <2>3. Handled[1] \in Windows
    BY <2>2 DEF Notices
  <2>4. <<>> \in Seq(Calls)
    OBVIOUS
  <2>5. stack' \in Seq(Calls)
    BY <1>3, <2>1, <2>3, <2>4, Zenon
  <2>6. QED
    BY <1>2, <2>1, <2>5, Zenon
<1>6. ASSUME NEW w \in Windows, ManageRun(w) PROVE RuleInv'
  BY <1>2, <1>3, <1>6 DEF ManageRun
<1>7. ASSUME NEW w \in Windows, Unmanage(w) PROVE RuleInv'
  <2>1. /\ stack' = stack /\ generation' = generation
        /\ ran' = [ran EXCEPT ![w] = {}] /\ times' = [times EXCEPT ![w] = [i \in DOMAIN Rules |-> 0]]
    BY <1>7 DEF Unmanage
  <2>2. times' \in [Windows -> [DOMAIN Rules -> {0, 1}]]
    <3>1. [i \in DOMAIN Rules |-> 0] \in [DOMAIN Rules -> {0, 1}]
      OBVIOUS
    <3>2. QED
      BY <2>1, <3>1 DEF RuleInv, RuleTypes
  <2>3. DOMAIN ran' = Windows /\ ran' = [v \in DOMAIN ran' |-> ran'[v]]
    BY <2>1 DEF RuleInv, RuleTypes
  <2>4. ASSUME NEW v \in Windows, NEW i \in DOMAIN Rules, times'[v][i] = 1 PROVE i \in ran'[v]
    <3>1. v # w
      BY <2>1, <2>4 DEF RuleInv, RuleTypes
    <3>2. QED
      BY <2>1, <2>4, <3>1 DEF RuleInv, RuleTypes, RunsCounted
  <2>5. QED
    BY <2>1, <2>2, <2>3, <2>4 DEF RuleInv, RuleTypes, RunsCounted
<1>8. CASE UNCHANGED <<generation, ran, times, stack>>
  BY <1>8 DEF RuleInv, RuleTypes, RunsCounted
<1>9. QED
  BY <1>1, <1>4, <1>5, <1>6, <1>7, <1>8
     DEF PropsNext, propsVars, PropertyIgnored, ClientSets, ClientMaps, ManageRead, ManageReparent

-----------------------------------------------------------------------------
(* Notices                                                                  *)

LEMMA Pairs == \A w, p, d, v, k : <<v, k>> # <<w, p, d>>
<1>1. ASSUME NEW w, NEW p, NEW d, NEW v, NEW k, <<v, k>> = <<w, p, d>> PROVE FALSE
  <2>1. Len(<<v, k>>) = 2 /\ Len(<<w, p, d>>) = 3
    OBVIOUS
  <2>2. QED
    BY <1>1, <2>1
<1>2. QED
  BY <1>1, Zenon

LEMMA AboutOf == \A w, p, e : e \in About(w, p) => e[1] = w /\ e[2] = p
<1>1. ASSUME NEW w, NEW p, NEW d PROVE <<w, p, d>>[1] = w /\ <<w, p, d>>[2] = p
  OBVIOUS
<1>2. ASSUME NEW w, NEW p, NEW e, e \in About(w, p) PROVE e[1] = w /\ e[2] = p
  <2>1. e = <<w, p, TRUE>> \/ e = <<w, p, FALSE>>
    BY <1>2, Zenon DEF About
  <2>2. /\ <<w, p, TRUE>>[1] = w /\ <<w, p, TRUE>>[2] = p
        /\ <<w, p, FALSE>>[1] = w /\ <<w, p, FALSE>>[2] = p
    BY <1>1, Zenon
  <2>3. QED
    BY <2>1, <2>2, Zenon
<1>3. QED
  BY <1>2, Zenon

LEMMA TailOf ==
    ASSUME NEW S, NEW q \in Seq(S), q # <<>>, NEW a, NEW b, NEW A
    PROVE  /\ Tail(q) \in Seq(S) /\ Head(q) \in S
           /\ Followed(q, a, b) => Followed(Tail(q), a, b)
           /\ Holds(q, A) => Head(q) \in A \/ Holds(Tail(q), A)
           /\ Followed(q, a, b) /\ Head(q) = a /\ b \in A => Holds(Tail(q), A)
<1> DEFINE t == Tail(q)
<1>1. /\ t \in Seq(S) /\ Head(q) \in S /\ Head(q) = q[1] /\ Len(q) \in Nat /\ Len(t) = Len(q) - 1
      /\ \A n \in 1 .. Len(t) : t[n] = q[n + 1]
  OBVIOUS
<1> HIDE DEF t
<1>2. ASSUME Followed(q, a, b), NEW n \in 1 .. Len(t), t[n] = a PROVE \E k \in n + 1 .. Len(t) : t[k] = b
  <2>1. n + 1 \in 1 .. Len(q)
    BY <1>1
  <2>2. q[n + 1] = a
    BY <1>1, <1>2
  <2>3. PICK k \in n + 1 + 1 .. Len(q) : q[k] = b
    BY <1>2, <2>1, <2>2 DEF Followed
  <2>4. k - 1 \in n + 1 .. Len(t) /\ k - 1 \in 1 .. Len(t) /\ (k - 1) + 1 = k
    BY <1>1, <2>3
  <2>5. t[k - 1] = b
    BY <1>1, <2>3, <2>4
  <2>6. QED
    BY <2>4, <2>5
<1>3. ASSUME NEW n \in 1 .. Len(q), q[n] \in A, Head(q) \notin A PROVE Holds(t, A)
  <2>1. n - 1 \in 1 .. Len(t) /\ (n - 1) + 1 = n
    BY <1>1, <1>3
  <2>2. t[n - 1] = q[n]
    BY <1>1, <2>1
  <2>3. QED
    BY <1>3, <2>1, <2>2 DEF Holds
<1>4. ASSUME Followed(q, a, b), Head(q) = a, b \in A PROVE Holds(t, A)
  <2>1. 1 \in 1 .. Len(q) /\ q[1] = a
    BY <1>1, <1>4
  <2>2. PICK k \in 2 .. Len(q) : q[k] = b
    BY <1>4, <2>1 DEF Followed
  <2>3. k - 1 \in 1 .. Len(t) /\ (k - 1) + 1 = k
    BY <1>1, <2>2
  <2>4. t[k - 1] = b
    BY <1>1, <2>2, <2>3
  <2>5. QED
    BY <1>4, <2>3, <2>4 DEF Holds
<1>5. QED
  BY <1>1, <1>2, <1>3, <1>4 DEF t, Followed, Holds

LEMMA AppendTo ==
    ASSUME NEW S, NEW q \in Seq(S), NEW e \in S, NEW a, NEW b, NEW A, a # b
    PROVE  /\ Append(q, e) \in Seq(S)
           /\ Holds(q, A) \/ e \in A => Holds(Append(q, e), A)
           /\ Followed(q, a, b) /\ e # a => Followed(Append(q, e), a, b)
           /\ e = b => Followed(Append(q, e), a, b)
<1> DEFINE t == Append(q, e)
<1>1. /\ t \in Seq(S) /\ Len(q) \in Nat /\ Len(t) = Len(q) + 1 /\ t[Len(q) + 1] = e
      /\ \A n \in 1 .. Len(q) : t[n] = q[n]
  OBVIOUS
<1> HIDE DEF t
<1>2. Holds(q, A) \/ e \in A => Holds(t, A)
  BY <1>1 DEF Holds
<1>3. ASSUME Followed(q, a, b), e # a, NEW n \in 1 .. Len(t), t[n] = a PROVE \E k \in n + 1 .. Len(t) : t[k] = b
  <2>1. n \in 1 .. Len(q) /\ q[n] = a
    BY <1>1, <1>3
  <2>2. PICK k \in n + 1 .. Len(q) : q[k] = b
    BY <1>3, <2>1 DEF Followed
  <2>3. k \in n + 1 .. Len(t) /\ t[k] = q[k]
    BY <1>1, <2>1, <2>2
  <2>4. QED
    BY <2>2, <2>3
<1>4. ASSUME e = b, NEW n \in 1 .. Len(t), t[n] = a PROVE \E k \in n + 1 .. Len(t) : t[k] = b
  <2>1. n # Len(q) + 1
    BY <1>1, <1>4
  <2>2. Len(q) + 1 \in n + 1 .. Len(t)
    BY <1>1, <1>4, <2>1
  <2>3. QED
    BY <1>1, <1>4, <2>2
<1>5. QED
  BY <1>1, <1>2, <1>3, <1>4 DEF t, Followed

LEMMA TailOK ==
    ASSUME NEW q \in Seq(Notices), q # <<>>, NEW w, NEW p
    PROVE  /\ Tail(q) \in Seq(Notices) /\ Head(q) \in Notices
           /\ Corrected(q, w, p) => Corrected(Tail(q), w, p)
           /\ Pending(q, w, p) => Head(q) \in About(w, p) \/ Pending(Tail(q), w, p)
           /\ Corrected(q, w, p) /\ Head(q) = <<w, p, TRUE>> => Pending(Tail(q), w, p)
<1>1. <<w, p, FALSE>> \in About(w, p)
  BY DEF About
<1>2. QED
  BY <1>1, TailOf, Zenon DEF Corrected, Pending

LEMMA AppendOK ==
    ASSUME NEW q \in Seq(Notices), NEW e \in Notices, NEW w, NEW p
    PROVE  /\ Append(q, e) \in Seq(Notices)
           /\ Pending(q, w, p) \/ e \in About(w, p) => Pending(Append(q, e), w, p)
           /\ Corrected(q, w, p) /\ e # <<w, p, TRUE>> => Corrected(Append(q, e), w, p)
           /\ e = <<w, p, FALSE>> => Corrected(Append(q, e), w, p)
<1>1. <<w, p, TRUE>> # <<w, p, FALSE>>
  OBVIOUS
<1>2. QED
  BY <1>1, AppendTo, Zenon DEF Corrected, Pending

-----------------------------------------------------------------------------
(* Clients, and what i3 is told                                             *)

LEMMA HeadKinds ==
    ASSUME ClientTypes, notices # <<>>
    PROVE  /\ \A w, k : Head(notices) = <<w, k>> => \A v, p : Head(notices) \notin About(v, p)
           /\ Len(Handled) = 3 => Handled \in Windows \X Props \X BOOLEAN
<1>1. Head(notices) \in Notices
  BY TailOK DEF ClientTypes
<1>2. Len(Handled) = 3 => Handled \in Windows \X Props \X BOOLEAN
  BY <1>1 DEF Handled, Notices
<1>3. QED
  BY <1>2, Pairs, Zenon DEF About

\* A notice is taken, and for the windows and properties that it is not about the record
\* has no less.
LEMMA Taken ==
    ASSUME ClientInv, notices # <<>>, notices' = Tail(notices), UNCHANGED x, ClientTypes',
           \A w \in Windows, p \in Props :
               /\ <<w, p>> \notin missed' /\ x[w][p] # Unset => <<w, p>> \notin missed \/ Corrected(notices', w, p)
               /\ phase'[w] # "unmanaged" /\ <<w, p>> \notin missed' =>
                     \/ Settled(rec'[w], p, x[w][p])
                     \/ /\ phase[w] # "unmanaged" /\ <<w, p>> \notin missed /\ Head(notices) \notin About(w, p)
                        /\ Settled(rec[w], p, x[w][p]) => Settled(rec'[w], p, x[w][p])
    PROVE  ClientInv'
<1>1. ASSUME NEW w \in Windows, NEW p \in Props, <<w, p>> \notin missed', x'[w][p] # Unset
      PROVE  Corrected(notices', w, p)
  BY <1>1, TailOK DEF ClientInv, ClientTypes, LateOnes
<1>2. ASSUME NEW w \in Windows, NEW p \in Props, phase'[w] # "unmanaged", <<w, p>> \notin missed'
      PROVE  Settled(rec'[w], p, x'[w][p]) \/ Pending(notices', w, p)
  <2>1. Pending(notices, w, p) => Head(notices) \in About(w, p) \/ Pending(notices', w, p)
    BY TailOK DEF ClientInv, ClientTypes
  <2>2. QED
    BY <1>2, <2>1 DEF ClientInv, Told
<1>3. QED
  BY <1>1, <1>2 DEF ClientInv, LateOnes, Told

LEMMA ClientSetsOK ==
    ASSUME ClientInv, NEW w \in Windows, NEW p \in Props, NEW v \in Values(p) \cup {Unset}, ClientSets(w, p, v)
    PROVE  ClientInv'
<1> DEFINE e == <<w, p, v = Unset>>
<1>1. e \in Notices /\ e \in About(w, p) /\ (v # Unset => e = <<w, p, FALSE>>)
  BY DEF Notices, About
<1>2. /\ x' = [x EXCEPT ![w][p] = v] /\ UNCHANGED <<rec, phase>>
      /\ notices' = IF Listens(w) THEN Append(notices, e) ELSE notices
      /\ missed' = IF phase[w] = "deaf" \/ (phase[w] = "unmanaged" /\ Late(notices, w, p))
                   THEN missed \cup {<<w, p>>} ELSE missed
  BY DEF ClientSets
<1> HIDE DEF e
<1>3. ClientTypes'
  <2>1. notices' \in Seq(Notices)
    BY <1>1, <1>2, AppendOK DEF ClientInv, ClientTypes
  <2>2. x' = [u \in Windows |-> x'[u]] /\ \A u \in Windows : x'[u] = [q \in Props |-> x'[u][q]]
    BY <1>2 DEF ClientInv, ClientTypes
  <2>3. QED
    BY <1>2, <2>1, <2>2 DEF ClientInv, ClientTypes
<1>4. \A u \in Windows, q \in Props : <<u, q>> # <<w, p>> =>
         x'[u][q] = x[u][q] /\ e \notin About(u, q)
  BY <1>2 DEF e, About, ClientInv, ClientTypes
<1>5. ASSUME NEW u \in Windows, NEW q \in Props, <<u, q>> \notin missed', x'[u][q] # Unset
      PROVE  Corrected(notices', u, q)
  <2>1. CASE <<u, q>> = <<w, p>>
    <3>1. x'[u][q] = v
      BY <1>2, <2>1 DEF ClientInv, ClientTypes
    <3>2. CASE Listens(w)
      BY <1>1, <1>2, <1>5, <2>1, <3>1, <3>2, AppendOK DEF ClientInv, ClientTypes
    <3>3. CASE ~Listens(w)
      <4>1. phase[w] = "unmanaged" /\ ~Late(notices, w, p) /\ notices' = notices
        BY <1>2, <1>5, <2>1, <3>3 DEF Listens, ClientInv, ClientTypes, Phases
      <4>2. \A n \in 1 .. Len(notices) : notices[n] # <<w, p, TRUE>>
        <5>1. DOMAIN notices = 1 .. Len(notices)
          BY DEF ClientInv, ClientTypes
        <5>2. QED
          BY <4>1, <5>1 DEF Late, ToSet
      <4>3. QED
        BY <2>1, <4>1, <4>2 DEF Corrected, Followed
    <3>4. QED
      BY <3>2, <3>3
  <2>2. CASE <<u, q>> # <<w, p>>
    <3>1. Corrected(notices, u, q)
      BY <1>2, <1>4, <1>5, <2>2 DEF ClientInv, LateOnes
    <3>2. e # <<u, q, TRUE>>
      BY <1>4, <2>2 DEF About
    <3>3. QED
      BY <1>1, <1>2, <3>1, <3>2, AppendOK DEF ClientInv, ClientTypes
  <2>3. QED
    BY <2>1, <2>2
<1>6. ASSUME NEW u \in Windows, NEW q \in Props, phase'[u] # "unmanaged", <<u, q>> \notin missed'
      PROVE  Settled(rec'[u], q, x'[u][q]) \/ Pending(notices', u, q)
  <2>1. CASE <<u, q>> = <<w, p>>
    <3>1. Listens(w)
      BY <1>2, <1>6, <2>1 DEF Listens, ClientInv, ClientTypes, Phases
    <3>2. QED
      BY <1>1, <1>2, <2>1, <3>1, AppendOK DEF ClientInv, ClientTypes
  <2>2. CASE <<u, q>> # <<w, p>>
    <3>1. Settled(rec[u], q, x[u][q]) \/ Pending(notices, u, q)
      BY <1>2, <1>6, <2>2 DEF ClientInv, Told
    <3>2. Pending(notices, u, q) => Pending(notices', u, q)
      BY <1>1, <1>2, AppendOK DEF ClientInv, ClientTypes
    <3>3. QED
      BY <1>2, <1>4, <2>2, <3>1, <3>2
  <2>3. QED
    BY <2>1, <2>2
<1>7. QED
  BY <1>3, <1>5, <1>6 DEF ClientInv, LateOnes, Told

LEMMA ClientMapsOK == ASSUME ClientInv, NEW w \in Windows, ClientMaps(w) PROVE ClientInv'
<1> DEFINE e == <<w, IF w \in mapped THEN "unmap" ELSE "map">>
<1>1. notices' = Append(notices, e) /\ UNCHANGED <<x, rec, phase, missed>> /\ e \in Notices
  BY DEF ClientMaps, Notices
<1>2. \A v, p : e # <<v, p, TRUE>>
  BY Pairs, Zenon
<1> HIDE DEF e
<1>3. /\ notices' \in Seq(Notices)
      /\ \A v, p : /\ Pending(notices, v, p) => Pending(notices', v, p)
                   /\ Corrected(notices, v, p) => Corrected(notices', v, p)
  BY <1>1, <1>2, AppendOK DEF ClientInv, ClientTypes
<1>4. QED
  BY <1>1, <1>3 DEF ClientInv, ClientTypes, LateOnes, Told

LEMMA ManageReadOK == ASSUME ClientInv, NEW w \in Windows, ManageRead(w) PROVE ClientInv'
<1>1. /\ notices # <<>> /\ Head(notices) = <<w, "map">> /\ phase[w] = "unmanaged"
      /\ notices' = Tail(notices) /\ UNCHANGED <<x, missed>>
      /\ phase' = [phase EXCEPT ![w] = "read"] /\ rec' = [rec EXCEPT ![w] = ReadAll(w)]
  BY DEF ManageRead, Ready
<1>2. Has(ReadAll(w), w, Props)
  BY ReadsAll
<1>3. ClientTypes'
  BY <1>1, <1>2, TailOK DEF Has, ClientInv, ClientTypes, Phases
<1>4. \A v, p : Head(notices) \notin About(v, p)
  BY <1>1, HeadKinds DEF ClientInv
<1>5. rec'[w] = ReadAll(w) /\ \A v \in Windows : v # w => rec'[v] = rec[v] /\ phase'[v] = phase[v]
  BY <1>1 DEF ClientInv, ClientTypes
<1>6. ASSUME NEW v \in Windows, NEW p \in Props, phase'[v] # "unmanaged", <<v, p>> \notin missed
      PROVE  \/ Settled(rec'[v], p, x[v][p])
             \/ phase[v] # "unmanaged" /\ (Settled(rec[v], p, x[v][p]) => Settled(rec'[v], p, x[v][p]))
  BY <1>2, <1>5, <1>6 DEF Has
<1>7. QED
  BY <1>1, <1>3, <1>4, <1>6, Taken

LEMMA TakeOK == ASSUME ClientInv, Take PROVE ClientInv'
<1> DEFINE w == Handled[1]
           p == Handled[2]
           d == Handled[3]
<1>1. /\ notices # <<>> /\ Len(Handled) = 3 /\ phase[w] = "managed"
      /\ notices' = Tail(notices) /\ UNCHANGED <<x, missed, phase>>
      /\ rec' = [rec EXCEPT ![w] = Update(p, rec[w], Reply)]
  BY DEF Take, Ready, Known
<1>2. w \in Windows /\ p \in Props /\ d \in BOOLEAN /\ Handled = <<w, p, d>>
  BY <1>1, HeadKinds DEF ClientInv
<1>3. Reply = IF d /\ p # "normal" THEN Unset ELSE x[w][p]
  BY DEF Reply, Now
<1>4. Head(notices) = Handled
  BY DEF Handled
<1> HIDE DEF w, p, d
<1>5. ClientTypes'
  <2>1. IsRecord(Update(p, rec[w], Reply))
    BY <1>2, UpdateSettles DEF ClientInv, ClientTypes
  <2>2. QED
    BY <1>1, <1>2, <2>1, TailOK DEF ClientInv, ClientTypes
<1>6. rec'[w] = Update(p, rec[w], Reply) /\ \A v \in Windows : v # w => rec'[v] = rec[v]
  BY <1>1, <1>2 DEF ClientInv, ClientTypes
<1>7. ASSUME NEW v \in Windows, NEW q \in Props, phase[v] # "unmanaged", <<v, q>> \notin missed
      PROVE  Settled(rec'[v], q, x[v][q]) \/ Pending(notices', v, q)
  <2>1. CASE <<v, q>> = <<w, p>>
    <3>1. CASE d /\ x[w][p] # Unset
      <4>1. Corrected(notices, w, p)
        BY <1>2, <1>7, <2>1, <3>1 DEF ClientInv, LateOnes
      <4>2. Head(notices) = <<w, p, TRUE>>
        BY <1>2, <1>4, <3>1
      <4>3. Pending(notices', w, p)
        BY <1>1, <4>1, <4>2, TailOK DEF ClientInv, ClientTypes
      <4>4. QED
        BY <2>1, <4>3
    <3>2. CASE ~(d /\ x[w][p] # Unset)
      <4>1. Reply = x[w][p]
        BY <1>2, <1>3, <3>2
      <4>2. QED
        BY <1>2, <1>6, <2>1, <4>1, UpdateSettles DEF ClientInv, ClientTypes
    <3>3. QED
      BY <3>1, <3>2
  <2>2. CASE <<v, q>> # <<w, p>>
    <3>1. Settled(rec[v], q, x[v][q]) \/ Pending(notices, v, q)
      BY <1>7 DEF ClientInv, Told
    <3>2. Settled(rec[v], q, x[v][q]) => Settled(rec'[v], q, x[v][q])
      BY <1>2, <1>6, <2>2, UpdateKeeps DEF ClientInv, ClientTypes
    <3>3. Pending(notices, v, q) => Pending(notices', v, q)
      <4>1. Head(notices) \notin About(v, q)
        BY <1>4, <2>2, AboutOf DEF w, p
      <4>2. QED
        BY <1>1, <4>1, TailOK DEF ClientInv, ClientTypes
    <3>4. QED
      BY <3>1, <3>2, <3>3
  <2>3. QED
    BY <2>1, <2>2
<1>8. \A v \in Windows, q \in Props : Corrected(notices, v, q) => Corrected(notices', v, q)
  BY <1>1, TailOK DEF ClientInv, ClientTypes
<1>9. QED
  BY <1>1, <1>5, <1>7, <1>8 DEF ClientInv, LateOnes, Told

LEMMA PropertyIgnoredOK == ASSUME ClientInv, PropertyIgnored PROVE ClientInv'
<1>1. /\ notices # <<>> /\ Len(Handled) = 3 /\ phase[Handled[1]] # "managed"
      /\ notices' = Tail(notices) /\ UNCHANGED <<x, rec, phase, missed>>
  BY DEF PropertyIgnored, Ready, Known
<1>2. Handled \in Windows \X Props \X BOOLEAN
  BY <1>1, HeadKinds DEF ClientInv
<1>3. phase[Handled[1]] = "unmanaged"
  BY <1>1, <1>2 DEF PropertyIgnored, Ready, Managing, ClientInv, ClientTypes, Phases
<1>4. ASSUME NEW w \in Windows, NEW p \in Props, phase[w] # "unmanaged" PROVE Head(notices) \notin About(w, p)
  BY <1>3, <1>4, AboutOf DEF Handled
<1>5. ClientTypes'
  BY <1>1, TailOK DEF ClientInv, ClientTypes
<1>6. QED
  BY <1>1, <1>4, <1>5, Taken

LEMMA UnmanageOK == ASSUME ClientInv, NEW w \in Windows, Unmanage(w) PROVE ClientInv'
<1>1. /\ notices # <<>> /\ Head(notices) = <<w, "unmap">> /\ notices' = Tail(notices) /\ x' = x
      /\ phase' = [phase EXCEPT ![w] = "unmanaged"] /\ rec' = [rec EXCEPT ![w] = Fresh]
      /\ missed' = {e \in missed : e[1] # w \/ Late(notices', w, e[2])}
  BY DEF Unmanage, Ready
<1>2. ClientTypes'
  BY <1>1, FreshOK, TailOK DEF ClientInv, ClientTypes, Phases
<1>3. \A v, p : Head(notices) \notin About(v, p)
  BY <1>1, HeadKinds DEF ClientInv
<1>4. phase'[w] = "unmanaged" /\ \A v \in Windows : v # w => rec'[v] = rec[v] /\ phase'[v] = phase[v]
  BY <1>1 DEF ClientInv, ClientTypes
<1>5. ASSUME NEW v \in Windows, NEW p \in Props, <<v, p>> \notin missed'
      PROVE  <<v, p>> \notin missed \/ (v = w /\ Corrected(notices', v, p))
  <2>1. CASE <<v, p>> \in missed
    <3>1. v = w /\ ~Late(notices', w, p)
      BY <1>1, <1>5, <2>1
    <3>2. DOMAIN notices' = 1 .. Len(notices')
      BY <1>2 DEF ClientTypes
    <3>3. QED
      BY <3>1, <3>2 DEF Late, ToSet, Corrected, Followed
  <2>2. QED
    BY <2>1
<1>6. ASSUME NEW v \in Windows, NEW p \in Props, phase'[v] # "unmanaged", <<v, p>> \notin missed'
      PROVE  /\ phase[v] # "unmanaged" /\ <<v, p>> \notin missed /\ Head(notices) \notin About(v, p)
             /\ rec'[v] = rec[v]
  BY <1>3, <1>4, <1>5, <1>6
<1>7. QED
  BY <1>1, <1>2, <1>5, <1>6, Taken

LEMMA RunRuleKeeps == ASSUME ClientInv, RuleInv, RunRule PROVE ClientInv'
<1> DEFINE w == Last(stack).w
<1>1. \/ rec' = rec \/ rec' = [rec EXCEPT ![w].floating = TRUE] \/ rec' = [rec EXCEPT ![w].mark = TRUE]
  <2> DEFINE i == CHOOSE j \in Left(Last(stack)) : \A k \in Left(Last(stack)) : j <= k
  <2>1. Last(stack) \in Calls /\ Left(Last(stack)) # {}
    BY Ends DEF RunRule, RuleInv, RuleTypes
  <2>2. Rules[i].command \in Commands
    BY <2>1, LeftOne, RulesAssumption
  <2>3. QED
    BY <2>2 DEF RunRule, Commands
<1>2. UNCHANGED <<x, notices, phase, missed>>
  BY DEF RunRule
<1> HIDE DEF w
<1>3. ASSUME NEW f \in {"floating", "mark"}, rec' = [rec EXCEPT ![w][f] = TRUE], NEW v \in Windows
      PROVE  IsRecord(rec'[v]) /\ \A p \in Props : Settled(rec[v], p, x[v][p]) => Settled(rec'[v], p, x[v][p])
  <2>1. IsRecord(rec[v])
    BY DEF ClientInv, ClientTypes
  <2>2. rec'[v] = rec[v] \/ rec'[v] = [rec[v] EXCEPT ![f] = TRUE]
    BY <1>3 DEF ClientInv, ClientTypes
  <2>3. IsRecord(rec'[v]) /\ \A g \in Fields \ {"floating", "mark"} : rec'[v][g] = rec[v][g]
    BY <1>3, <2>1, <2>2 DEF IsRecord, Fields
  <2>4. QED
    BY <2>3 DEF Settled, Agrees, Fields, Props, Kept, Cleared
<1>4. \A v \in Windows : /\ IsRecord(rec'[v])
                        /\ \A p \in Props : Settled(rec[v], p, x[v][p]) => Settled(rec'[v], p, x[v][p])
  BY <1>1, <1>3 DEF ClientInv, ClientTypes
<1>5. rec' = [v \in Windows |-> rec'[v]]
  BY <1>1 DEF ClientInv, ClientTypes
<1>6. QED
  BY <1>2, <1>4, <1>5 DEF ClientInv, ClientTypes, LateOnes, Told

LEMMA ClientStepOK == ASSUME ClientInv, RuleInv, [PropsNext]_propsVars PROVE ClientInv'
<1>1. ASSUME NEW w \in Windows, NEW p \in Props, NEW v \in Values(p) \cup {Unset}, ClientSets(w, p, v)
      PROVE  ClientInv'
  BY <1>1, ClientSetsOK
<1>2. ASSUME NEW w \in Windows, ClientMaps(w) PROVE ClientInv'
  BY <1>2, ClientMapsOK
<1>3. ASSUME NEW w \in Windows, ManageRead(w) PROVE ClientInv'
  BY <1>3, ManageReadOK
<1>4. ASSUME NEW w \in Windows, NEW to \in Phases \ {"unmanaged"}, phase[w] # "unmanaged",
             phase' = [phase EXCEPT ![w] = to], UNCHANGED <<x, notices, rec, missed>>
      PROVE  ClientInv'
  <2>1. phase' \in [Windows -> Phases] /\ \A v \in Windows : phase'[v] # "unmanaged" => phase[v] # "unmanaged"
    BY <1>4 DEF ClientInv, ClientTypes
  <2>2. QED
    BY <1>4, <2>1 DEF ClientInv, ClientTypes, LateOnes, Told
<1>5. ASSUME NEW w \in Windows, ManageReparent(w) \/ ManageRun(w) PROVE ClientInv'
  BY <1>4, <1>5 DEF ManageReparent, ManageRun, Phases
<1>6. ASSUME NEW w \in Windows, Unmanage(w) PROVE ClientInv'
  BY <1>6, UnmanageOK
<1>7. CASE PropertyNotify
  BY <1>7, TakeOK DEF PropertyNotify
<1>8. CASE PropertyIgnored
  BY <1>8, PropertyIgnoredOK
<1>9. CASE RunRule
  BY <1>9, RunRuleKeeps
<1>10. CASE UNCHANGED <<x, notices, rec, missed, phase>>
  BY <1>10 DEF ClientInv, ClientTypes, LateOnes, Told
<1>11. CASE Return \/ UNCHANGED propsVars
  BY <1>10, <1>11 DEF Return, propsVars
<1>12. QED
  BY <1>1, <1>2, <1>3, <1>5, <1>6, <1>7, <1>8, <1>9, <1>11 DEF PropsNext

LEMMA PropsInitOK == ASSUME PropsInit PROVE PropsInv
<1>1. ClientInv
  BY FreshOK DEF PropsInit, ClientInv, ClientTypes, Phases, LateOnes, Told
<1>2. RuleInv
  BY DEF PropsInit, RuleInv, RuleTypes, RunsCounted
<1>3. QED
  BY <1>1, <1>2 DEF PropsInv

\* What i3 knows of a window follows the requests of its client (handlers.c:1364,
\* manage.c:138-145), although each property is read later than the event was sent, and
\* no rule runs for a window twice (assignments.c:45): for any number of windows, events
\* and rules.
THEOREM RecordsFollowClients == PropsSpec => []PropertiesFollow
<1>1. PropsInit => PropsInv
  BY PropsInitOK
<1>2. PropsInv /\ [PropsNext]_propsVars => PropsInv'
  BY ClientStepOK, RuleStepOK DEF PropsInv, ClientInv
<1>3. PropsInv => PropertiesFollow
  <2>1. ASSUME PropsInv, Idle, notices = <<>>, NEW w \in Windows, NEW p \in Props,
               phase[w] = "managed", <<w, p>> \notin missed
        PROVE  Settled(rec[w], p, x[w][p])
    <3>1. ~Pending(notices, w, p)
      BY <2>1 DEF Pending, Holds
    <3>2. QED
      BY <2>1, <3>1 DEF PropsInv, ClientInv, Told
  <2>2. PropsInv => RecordsFollow
    BY <2>1 DEF RecordsFollow, Settled
  <2>3. PropsInv => RulesRunOnce
    BY DEF PropsInv, RuleInv, RuleTypes, RulesRunOnce
  <2>4. QED
    BY <2>2, <2>3 DEF PropertiesFollow
<1>4. QED
  BY <1>1, <1>2, <1>3, PTL DEF PropsSpec

-----------------------------------------------------------------------------
(* Layouts that are read                                                    *)

LayoutSpec == LayoutInit /\ [][LayoutNext]_layoutVars

\* yajl's pieces: the maps and arrays that are open, and whether a map waits for a value
Pieces == [kind : {"map", "array"}, value : BOOLEAN]
IsRead(j) ==
    /\ j = [on |-> j.on, workspaces |-> j.workspaces, open |-> j.open, n |-> j.n, files |-> j.files, bad |-> j.bad]
    /\ j.bad \in BOOLEAN
IsJson(j) == IsRead(j) /\ j.open \in Seq(Pieces)

\* Of what is open, maps and arrays alternate, except that the map of a rectangle
\* stands within the container's map.
Alternates(open, rect) ==
    \A i \in 1 .. Len(open) : open[i].kind = IF i % 2 = 1 \/ (rect /\ i = Len(open) /\ ~open[i].value)
                                             THEN "map" ELSE "array"
\* The flags tell how deep the parser is.  The map of the node at hand is at the depth own;
\* a flag is set while its key waits there for a value, and within that value: an array,
\* for swallows the criteria in it, for a rectangle a map.
Waits(open, ks) == open[Len(open)].value /\ key \in ks
Flagged(open) ==
    LET n == Len(open)
        own == 2 * incomplete - 1
    IN \/ /\ flags = {}
          /\ n = own + 1 \/ (n = own /\ (open[n].value => key \in {"nodes", "floating_nodes", "class", "name"}))
       \/ /\ flags = {"swallows"} /\ incomplete > 0
          /\ \/ n = own /\ Waits(open, flags)
             \/ n = own + 1
             \/ n = own + 2 /\ (open[n].value => key = "class")
       \/ /\ flags \in {{"marks"}, {"focus"}} /\ incomplete > 0
          /\ (n = own /\ Waits(open, flags)) \/ n = own + 1
       \/ /\ flags \in {{k} : k \in RectFlags} /\ incomplete > 0
          /\ \/ n = own /\ Waits(open, flags)
             \/ n = own + 1 /\ ~open[n].value
Rect == flags \cap RectFlags # {}

\* The incomplete containers, from the outermost to the node at hand
Strays == fate.left \cup fate.freed
Around(s) ==
    /\ \A i, j \in 1 .. incomplete : s[i] = s[j] => i = j
    /\ \A i \in 1 .. incomplete : parent[s[i]] = IF i = 1 THEN Root ELSE s[i - 1]
    /\ node = IF incomplete = 0 THEN Root ELSE s[incomplete]
    /\ Live = attached \cup fate.left \cup {s[i] : i \in 1 .. incomplete}
    /\ (attached \cup Strays) \cap {s[i] : i \in 1 .. incomplete} = {}
    /\ marks \subseteq Strays \cup {s[i] : i \in 1 .. incomplete}
\* What was attached in this file hangs below Root or a container of this file.
Hung == \A c \in attached \ fate.before : parent[c] \in (Live \ (fate.left \cup fate.before)) \cup {Root}
Fates == [before : SUBSET Containers, left : SUBSET Containers, freed : SUBSET Containers, lost : SUBSET Containers]
\* Types; and every mark that was written is at its container, waits for it, or was forgotten.
LayoutTypes ==
    /\ incomplete \in Nat
    /\ parent \in [Containers -> Containers \cup {Root, Nobody}]
    /\ attached \subseteq Containers
    /\ fate \in Fates /\ fate.before \subseteq attached /\ attached \cap Strays = {}
    /\ marks \subseteq Containers
    /\ marked \cup marks \subseteq wrote /\ wrote \subseteq marked \cup marks \cup fate.lost
Reading ==
    /\ ~json.on => json.open = <<>>
    /\ LayoutTypes /\ Hung
    /\ Alternates(json.open, Rect) /\ Flagged(json.open)
    /\ \E s \in [1 .. incomplete -> Containers] : Around(s)
\* Between two files
Between == json.open = <<>> /\ Live = attached \cup fate.left /\ marks \subseteq Strays
LayoutInv ==
    /\ IsJson(json) /\ LayoutTypes
    /\ json.on \/ ~json.bad => Reading
    /\ ~json.on => Between

LEMMA ReadIsWhole ==
    ASSUME LayoutInv
    PROVE  LayoutsAreWhole
<1> SUFFICES ASSUME ~json.on PROVE NothingIncomplete /\ MarksArrive /\ (json.bad \/ ReadToTheEnd)
  BY DEF LayoutsAreWhole
<1>1. LayoutTypes /\ Between
  BY DEF LayoutInv
<1>2. NothingIncomplete
  BY <1>1 DEF NothingIncomplete, Between, LayoutTypes, Strays
<1>3. MarksArrive
  BY <1>1 DEF MarksArrive, Between, LayoutTypes, Strays
<1>4. ASSUME ~json.bad PROVE ReadToTheEnd
  <2>1. Reading /\ json.open = <<>> /\ Len(json.open) = 0 /\ incomplete \in Nat
    BY <1>1, <1>4 DEF LayoutInv, LayoutTypes, Between
  <2>2. incomplete = 0 /\ flags = {}
    BY <2>1 DEF Reading, Flagged
  <2>3. node = Root
    BY <2>1, <2>2 DEF Reading, Around
  <2>4. Hung /\ Live = attached \cup fate.left /\ fate.before \subseteq attached
    BY <1>1, <2>1 DEF Reading, Between, LayoutTypes
  <2>5. \A c \in attached \ fate.before : parent[c] \in (attached \ fate.before) \cup {Root}
    BY <2>4 DEF Hung
  <2>6. QED
    BY <2>2, <2>3, <2>5 DEF ReadToTheEnd
<1>5. QED
  BY <1>2, <1>3, <1>4

LEMMA Pushed ==
    ASSUME NEW open \in Seq(Pieces), NEW e \in Pieces, NEW q, q = Append(open, e)
    PROVE  /\ q \in Seq(Pieces) /\ Len(q) = Len(open) + 1 /\ q[Len(q)] = e
           /\ \A i \in 1 .. Len(open) : q[i] = open[i]
  OBVIOUS

LEMMA ValueSet ==
    ASSUME NEW open \in Seq(Pieces), open # <<>>, NEW v \in BOOLEAN,
           NEW q, q = [open EXCEPT ![Len(open)].value = v]
    PROVE  /\ q \in Seq(Pieces) /\ Len(q) = Len(open)
           /\ \A i \in 1 .. Len(open) : q[i].kind = open[i].kind
           /\ \A i \in 1 .. Len(open) - 1 : q[i] = open[i]
           /\ q[Len(q)].value = v
<1>1. Len(open) \in 1 .. Len(open) /\ open[Len(open)] \in Pieces
  OBVIOUS
<1>2. [open[Len(open)] EXCEPT !.value = v] \in Pieces
  BY <1>1 DEF Pieces
<1>3. q = [open EXCEPT ![Len(open)] = [open[Len(open)] EXCEPT !.value = v]]
  OBVIOUS
<1>4. [open[Len(open)] EXCEPT !.value = v].kind = open[Len(open)].kind /\ [open[Len(open)] EXCEPT !.value = v].value = v
  BY <1>1 DEF Pieces
<1>5. QED
  BY <1>1, <1>2, <1>3, <1>4

\* The map at hand waits for a value.
Wait(open) == [open EXCEPT ![Len(open)].value = TRUE]
LEMMA Waited ==
    ASSUME NEW open \in Seq(Pieces), open # <<>>,
           NEW q, q = Wait(open)
    PROVE  /\ q \in Seq(Pieces) /\ Len(q) = Len(open)
           /\ \A i \in 1 .. Len(open) : q[i].kind = open[i].kind
           /\ \A i \in 1 .. Len(open) - 1 : q[i] = open[i]
           /\ q[Len(q)].value
<1> DEFINE e == [open[Len(open)] EXCEPT !.value = TRUE]
<1>1. Len(open) \in 1 .. Len(open) /\ open[Len(open)] \in Pieces
  OBVIOUS
<1>2. e \in Pieces
  BY <1>1 DEF Pieces
<1>3. q = [open EXCEPT ![Len(open)] = e]
  BY DEF Wait
<1>4. e.kind = open[Len(open)].kind
  BY <1>1 DEF Pieces
<1>5. e.value
  BY <1>1 DEF Pieces
<1> HIDE DEF e
<1>6. /\ q \in Seq(Pieces) /\ Len(q) = Len(open)
      /\ \A i \in 1 .. Len(open) : q[i].kind = open[i].kind
      /\ \A i \in 1 .. Len(open) - 1 : q[i] = open[i]
  BY <1>1, <1>2, <1>3, <1>4
<1>7. q[Len(q)] = e
  BY <1>1, <1>2, <1>3
<1>8. QED
  BY <1>5, <1>6, <1>7

LEMMA Answered ==
    ASSUME NEW open \in Seq(Pieces), NEW q, q = Done(open)
    PROVE  /\ q \in Seq(Pieces) /\ Len(q) = Len(open)
           /\ \A i \in 1 .. Len(open) : q[i].kind = open[i].kind
           /\ \A i \in 1 .. Len(open) - 1 : q[i] = open[i]
           /\ Len(q) > 0 /\ q[Len(q)].kind = "map" => ~q[Len(q)].value
<1>1. CASE open # <<>> /\ Last(open).kind = "map"
  <2>1. q = [open EXCEPT ![Len(open)].value = FALSE]
    BY <1>1 DEF Done
  <2>2. /\ q \in Seq(Pieces) /\ Len(q) = Len(open)
        /\ \A i \in 1 .. Len(open) : q[i].kind = open[i].kind
        /\ \A i \in 1 .. Len(open) - 1 : q[i] = open[i]
        /\ ~q[Len(q)].value
    <3> DEFINE v == FALSE
    <3>1. v \in BOOLEAN /\ q = [open EXCEPT ![Len(open)].value = v]
      BY <2>1
    <3>2. ~v
      OBVIOUS
    <3> HIDE DEF v
    <3>3. /\ q \in Seq(Pieces) /\ Len(q) = Len(open)
          /\ \A i \in 1 .. Len(open) : q[i].kind = open[i].kind
          /\ \A i \in 1 .. Len(open) - 1 : q[i] = open[i]
          /\ q[Len(q)].value = v
      BY <1>1, <3>1, ValueSet
    <3>4. QED
      BY <3>1, <3>2, <3>3
  <2>3. QED
    BY <2>2
<1>2. CASE ~(open # <<>> /\ Last(open).kind = "map")
  <2>1. q = open
    BY <1>2 DEF Done
  <2>2. QED
    BY <1>2, <2>1 DEF Last
<1>3. QED
  BY <1>1, <1>2

LEMMA Popped ==
    ASSUME NEW open \in Seq(Pieces), open # <<>>, NEW q, q = Done(Front(open))
    PROVE  /\ q \in Seq(Pieces) /\ Len(q) = Len(open) - 1
           /\ \A i \in 1 .. Len(open) - 1 : q[i].kind = open[i].kind
           /\ \A i \in 1 .. Len(open) - 2 : q[i] = open[i]
           /\ Len(q) > 0 /\ q[Len(q)].kind = "map" => ~q[Len(q)].value
<1> DEFINE f == Front(open)
<1>1. /\ f \in Seq(Pieces) /\ Len(f) = Len(open) - 1
      /\ \A i \in 1 .. Len(open) - 1 : f[i] = open[i]
  <2>1. f = SubSeq(open, 1, Len(open) - 1)
    BY DEF Front
  <2>2. Len(open) \in Nat \ {0} /\ \A i \in 1 .. Len(open) : open[i] \in Pieces
    OBVIOUS
  <2> DEFINE m == Len(open) - 1
  <2>3. m \in Nat /\ \A i \in 1 .. m : open[i] \in Pieces
    BY <2>2
  <2> HIDE DEF m
  <2>4. /\ SubSeq(open, 1, m) \in Seq(Pieces) /\ Len(SubSeq(open, 1, m)) = IF 1 <= m THEN m - 1 + 1 ELSE 0
        /\ \A i \in 1 .. m - 1 + 1 : SubSeq(open, 1, m)[i] = open[1 + i - 1]
    BY <2>3, SubSeqProperties
  <2>5. /\ SubSeq(open, 1, m) \in Seq(Pieces) /\ Len(SubSeq(open, 1, m)) = m
        /\ \A i \in 1 .. m : SubSeq(open, 1, m)[i] = open[i]
    BY <2>3, <2>4
  <2>6. f = SubSeq(open, 1, m) /\ m = Len(open) - 1
    BY <2>1 DEF m
  <2>7. QED
    BY <2>5, <2>6
<1> HIDE DEF f
<1>2. /\ q \in Seq(Pieces) /\ Len(q) = Len(f)
      /\ \A i \in 1 .. Len(f) : q[i].kind = f[i].kind
      /\ \A i \in 1 .. Len(f) - 1 : q[i] = f[i]
      /\ Len(q) > 0 /\ q[Len(q)].kind = "map" => ~q[Len(q)].value
  <2>1. q = Done(f)
    BY DEF f
  <2>2. QED
    BY <1>1, <2>1, Answered
<1>3. QED
  BY <1>1, <1>2

\* A callback of the parser changes what is open and counts the piece.
LEMMA PieceRead ==
    ASSUME IsJson(json), NEW q \in Seq(Pieces), Piece(q)
    PROVE  /\ IsJson(json') /\ json'.open = q
           /\ json'.on = json.on /\ json'.bad = json.bad
<1>1. json' = [json EXCEPT !.open = q, !.n = @ + 1]
  BY DEF Piece
<1>2. QED
  BY <1>1 DEF IsJson, IsRead

Forgets == marks' = {} /\ fate' = [fate EXCEPT !.lost = @ \cup marks]
SameContainers ==
    /\ UNCHANGED <<node, incomplete, parent, attached, marked, wrote>>
    /\ UNCHANGED <<marks, fate>> \/ Forgets

\* Marks that are forgotten are the only ones that do not arrive.
LEMMA Forgotten ==
    ASSUME LayoutTypes, Forgets
    PROVE  /\ fate' \in Fates /\ fate'.lost = fate.lost \cup marks
           /\ fate'.before = fate.before /\ fate'.left = fate.left /\ fate'.freed = fate.freed
<1>1. fate \in Fates /\ marks \subseteq Containers
  BY DEF LayoutTypes
<1>2. QED
  BY <1>1 DEF Forgets, Fates

LEMMA ContainersStay ==
    ASSUME Reading, SameContainers
    PROVE  LayoutTypes' /\ Hung' /\ \E s \in [1 .. incomplete' -> Containers] : Around(s)'
<1>1. Live' = Live
  BY DEF SameContainers, Live
<1>2. PICK s \in [1 .. incomplete -> Containers] : Around(s)
  BY DEF Reading
<1>3. LayoutTypes /\ Hung
  BY DEF Reading
<1>4. fate'.before = fate.before /\ fate'.left = fate.left /\ fate'.freed = fate.freed
  BY <1>3, Forgotten DEF SameContainers
<1>5. Strays' = Strays /\ marks' \subseteq marks
  BY <1>4 DEF Strays, SameContainers, Forgets
<1>6. Around(s)'
  BY <1>1, <1>2, <1>4, <1>5 DEF Around, SameContainers
<1>7. Hung'
  BY <1>1, <1>3, <1>4 DEF Hung, SameContainers
<1>8. fate' \in Fates /\ wrote \subseteq marked \cup marks' \cup fate'.lost
  BY <1>3, Forgotten DEF SameContainers, LayoutTypes, Forgets
<1>9. LayoutTypes'
  BY <1>3, <1>4, <1>5, <1>8 DEF LayoutTypes, SameContainers
<1>10. QED
  BY <1>2, <1>6, <1>7, <1>9 DEF SameContainers

\* Where a map waits for a key, and where it waits for a value
LEMMA WhoAsks ==
    ASSUME IsJson(json), Reading, Inside("map")
    PROVE  LET n == Len(json.open)
               own == 2 * incomplete - 1
               v == json.open[n].value
           IN  /\ incomplete > 0 /\ n > 0 /\ Last(json.open) = json.open[n]
               /\ \/ flags = {} /\ n = own /\ (v => key \in {"nodes", "floating_nodes", "class", "name"})
                  \/ flags = {"swallows"} /\ n = own /\ v /\ key = "swallows"
                  \/ flags = {"swallows"} /\ n = own + 2 /\ (v => key = "class")
                  \/ flags \in {{"marks"}, {"focus"}} /\ n = own /\ v /\ key \in flags
                  \/ flags \in {{k} : k \in RectFlags} /\ n = own /\ v /\ key \in flags
                  \/ flags \in {{k} : k \in RectFlags} /\ n = own + 1 /\ ~v
<1> DEFINE n == Len(json.open)
           own == 2 * incomplete - 1
<1>1. incomplete \in Nat /\ n \in Nat /\ n # 0 /\ json.open \in Seq(Pieces)
  BY DEF IsJson, Inside, Reading, LayoutTypes
<1>2. Last(json.open) = json.open[n] /\ json.open[n].kind = "map"
  BY DEF Inside, Last
<1>3. json.open[n].kind = IF n % 2 = 1 \/ (Rect /\ n = Len(json.open) /\ ~json.open[n].value) THEN "map" ELSE "array"
  <2>1. n \in 1 .. Len(json.open)
    BY <1>1
  <2>2. QED
    BY <2>1, Zenon DEF Reading, Alternates
<1>4. n % 2 = 1 \/ (Rect /\ ~json.open[n].value)
  <2> DEFINE c == n % 2 = 1 \/ (Rect /\ n = Len(json.open) /\ ~json.open[n].value)
  <2>1. json.open[n].kind = IF c THEN "map" ELSE "array"
    BY <1>3, Zenon
  <2>2. c => n % 2 = 1 \/ (Rect /\ ~json.open[n].value)
    BY Zenon
  <2> HIDE DEF c
  <2>3. c
    BY <1>2, <2>1
  <2>4. QED
    BY <2>2, <2>3, Zenon
<1>5. n # own + 1 \/ (Rect /\ ~json.open[n].value)
  <2>1. ASSUME n % 2 = 1, n = own + 1 PROVE FALSE
    <3> HIDE DEF n
    <3>1. n = 2 * incomplete
      BY <1>1, <2>1
    <3>2. QED
      BY <1>1, <2>1, <3>1
  <2>2. QED
    BY <1>4, <2>1
<1>6. Flagged(json.open)
  BY DEF Reading
<1>7. ~Rect \/ flags \in {{k} : k \in RectFlags}
  BY <1>6 DEF Flagged, Rect, RectFlags
<1>8. flags \in {{k} : k \in RectFlags} => Rect
  BY DEF Rect
<1> HIDE DEF n, own
<1>9. \/ flags = {} /\ n = own /\ (json.open[n].value => key \in {"nodes", "floating_nodes", "class", "name"})
      \/ flags = {"swallows"} /\ n = own /\ json.open[n].value /\ key = "swallows"
      \/ flags = {"swallows"} /\ n = own + 2 /\ (json.open[n].value => key = "class")
      \/ flags \in {{"marks"}, {"focus"}} /\ n = own /\ json.open[n].value /\ key \in flags
      \/ flags \in {{k} : k \in RectFlags} /\ n = own /\ json.open[n].value /\ key \in flags
      \/ flags \in {{k} : k \in RectFlags} /\ n = own + 1 /\ ~json.open[n].value
  <2>1. CASE flags = {}
    BY <1>5, <1>6, <1>8, <2>1 DEF Flagged, Rect, n, own
  <2>2. CASE flags = {"swallows"}
    <3>1. ~Rect
      BY <2>2 DEF Rect, RectFlags
    <3>2. QED
      BY <1>5, <1>6, <2>2, <3>1 DEF Flagged, Waits, RectFlags, n, own
  <2>3. CASE flags \in {{"marks"}, {"focus"}}
    <3>1. ~Rect
      BY <2>3 DEF Rect, RectFlags
    <3>2. QED
      BY <1>5, <1>6, <2>3, <3>1 DEF Flagged, Waits, RectFlags, n, own
  <2>4. CASE flags \in {{k} : k \in RectFlags}
    BY <1>5, <1>6, <2>4 DEF Flagged, Waits, RectFlags, n, own
  <2>5. QED
    BY <1>6, <2>1, <2>2, <2>3, <2>4 DEF Flagged
<1>10. incomplete > 0
  <2>1. flags # {} => incomplete > 0
    BY <1>6 DEF Flagged
  <2>2. CASE flags = {}
    <3>1. n = own
      BY <1>9, <2>2
    <3>2. QED
      BY <1>1, <3>1 DEF n, own
  <2>3. QED
    BY <2>1, <2>2
<1>11. QED
  BY <1>1, <1>2, <1>9, <1>10 DEF n, own

LEMMA WhoIsInArray ==
    ASSUME IsJson(json), Reading, Inside("array")
    PROVE  /\ incomplete > 0 /\ Len(json.open) = 2 * incomplete /\ ~Rect
           /\ flags \in {{}, {"swallows"}, {"marks"}, {"focus"}}
<1> DEFINE n == Len(json.open)
           own == 2 * incomplete - 1
<1>1. incomplete \in Nat /\ n \in Nat /\ n # 0 /\ json.open \in Seq(Pieces)
  BY DEF IsJson, Inside, Reading, LayoutTypes
<1>2. Last(json.open) = json.open[n] /\ json.open[n].kind = "array"
  BY DEF Inside, Last
<1>3. ~(n % 2 = 1) /\ ~(Rect /\ ~json.open[n].value)
  <2> DEFINE c == n % 2 = 1 \/ (Rect /\ n = Len(json.open) /\ ~json.open[n].value)
  <2>1. json.open[n].kind = IF c THEN "map" ELSE "array"
    <3>1. n \in 1 .. Len(json.open)
      BY <1>1
    <3>2. QED
      BY <3>1, Zenon DEF Reading, Alternates
  <2>2. n % 2 = 1 \/ (Rect /\ ~json.open[n].value) => c
    OBVIOUS
  <2> HIDE DEF c
  <2>3. ~c
    BY <1>2, <2>1
  <2>4. QED
    BY <2>2, <2>3, Zenon
<1> HIDE DEF n
<1>4. n # own /\ n # own + 2
  BY <1>1, <1>3
<1>5. Flagged(json.open) /\ n = Len(json.open)
  BY DEF Reading, n
<1>6. n = own + 1 /\ flags \in {{}, {"swallows"}, {"marks"}, {"focus"}}
  BY <1>3, <1>4, <1>5 DEF Flagged, Rect
<1>7. ~Rect
  BY <1>6 DEF Rect, RectFlags
<1>8. QED
  BY <1>1, <1>5, <1>6, <1>7

LEMMA KeyRead ==
    ASSUME IsJson(json), Reading, NEW k \in Keys, Key(k)
    PROVE  IsJson(json') /\ json'.bad = json.bad /\ Reading'
<1> DEFINE o == json.open
           n == Len(o)
           own == 2 * incomplete - 1
           q == [o EXCEPT ![n].value = TRUE]
<1>1. Inside("map") /\ Last(o).value = FALSE /\ Piece(q)
  BY DEF Key, Asks
<1>2. o \in Seq(Pieces) /\ o # <<>>
  BY <1>1 DEF IsJson, Inside
<1>3. /\ q \in Seq(Pieces) /\ Len(q) = n
      /\ \A i \in 1 .. n : q[i].kind = o[i].kind
      /\ \A i \in 1 .. n - 1 : q[i] = o[i]
      /\ q[n].value
  <2>1. q = Wait(o)
    BY DEF Wait
  <2> HIDE DEF q, o
  <2>2. QED
    BY <1>2, <2>1, Waited
<1> HIDE DEF q
<1>4. /\ IsJson(json') /\ json'.open = q
      /\ json'.on = json.on /\ json'.bad = json.bad
  BY <1>1, <1>3, PieceRead
<1>5. /\ incomplete > 0 /\ n > 0
      /\ \/ flags = {} /\ n = own
         \/ flags = {"swallows"} /\ n = own + 2
         \/ flags \in {{r} : r \in RectFlags}
  <2>1. ~o[n].value /\ Last(o) = o[n]
    BY <1>1, <1>2 DEF Last
  <2>2. QED
    BY <1>1, <2>1, WhoAsks
<1>6. \/ flags = {} /\ n = own /\ k # "class"
      \/ flags = {"swallows"} /\ n = own + 2 /\ k = "class"
  <2>1. IF "swallows" \in flags THEN k = "class" ELSE flags \cap RectFlags = {} /\ k # "class"
    BY DEF Key
  <2>2. ASSUME NEW r \in RectFlags, flags = {r} PROVE FALSE
    BY <2>1, <2>2 DEF RectFlags
  <2>3. QED
    BY <1>5, <2>1, <2>2
<1>7. /\ key' = k
      /\ flags' = IF k \in {"swallows", "marks", "focus"} \cup RectFlags THEN flags \cup {k} ELSE flags
      /\ SameContainers
  BY DEF Key, SameContainers, Forgets
<1>8. LayoutTypes' /\ Hung' /\ \E s \in [1 .. incomplete' -> Containers] : Around(s)'
  BY <1>7, ContainersStay
<1>9. Flagged(json.open)'
  <2>1. incomplete' = incomplete /\ incomplete > 0
    BY <1>5, <1>7 DEF SameContainers
  <2>2. CASE flags = {} /\ n = own /\ k \in {"swallows", "marks", "focus"} \cup RectFlags
    <3>1. flags' = {k}
      BY <1>7, <2>2
    <3>2. json'.open[n].value /\ Len(json'.open) = n /\ key' \in flags'
      BY <1>3, <1>4, <1>7, <3>1
    <3>3. Waits(json.open, flags)'
      BY <3>2 DEF Waits
    <3>4. flags' = {"swallows"} \/ flags' \in {{"marks"}, {"focus"}} \/ flags' \in {{r} : r \in RectFlags}
      BY <2>2, <3>1
    <3>5. QED
      BY <2>1, <2>2, <3>2, <3>3, <3>4 DEF Flagged
  <2>3. CASE flags = {} /\ n = own /\ k \notin {"swallows", "marks", "focus"} \cup RectFlags /\ k # "class"
    <3>1. flags' = {} /\ key' \in {"nodes", "floating_nodes", "class", "name"}
      BY <1>7, <2>3 DEF Keys, Arrays, RectFlags
    <3>2. QED
      BY <1>3, <1>4, <2>1, <2>3, <3>1 DEF Flagged
  <2>4. CASE flags = {"swallows"} /\ n = own + 2 /\ k = "class"
    <3>1. flags' = {"swallows"} /\ key' = "class"
      BY <1>7, <2>4 DEF RectFlags
    <3>2. QED
      BY <1>3, <1>4, <2>1, <2>4, <3>1 DEF Flagged
  <2>5. QED
    BY <1>6, <2>2, <2>3, <2>4
<1>10. Alternates(json.open, Rect)'
  <2>1. ~Rect
    BY <1>6 DEF Rect, RectFlags
  <2>2. ASSUME NEW i \in 1 .. n PROVE q[i].kind = IF i % 2 = 1 THEN "map" ELSE "array"
    BY <1>3, <2>1, <2>2 DEF Reading, Alternates
  <2>3. QED
    BY <1>3, <1>4, <2>2 DEF Alternates
<1>11. QED
  BY <1>1, <1>4, <1>8, <1>9, <1>10 DEF Reading, Inside

\* A map or an array that begins
Opened(kind) == [kind |-> kind, value |-> FALSE]

LEMMA Deeper ==
    ASSUME NEW open \in Seq(Pieces), Alternates(open, Rect),
           NEW kind \in {"map", "array"}, NEW q, q = Append(open, Opened(kind)),
           open # <<>> => ~Rect \/ open[Len(open)].value,
           kind = IF (Len(open) + 1) % 2 = 1 \/ Rect THEN "map" ELSE "array"
    PROVE  /\ q \in Seq(Pieces) /\ Len(q) = Len(open) + 1 /\ ~q[Len(q)].value
           /\ q[Len(q)].kind = kind
           /\ Alternates(q, Rect)
<1> DEFINE e == Opened(kind)
<1>1. e \in Pieces /\ e.kind = kind
  BY DEF Pieces, Opened
<1>2. ~e.value
  BY DEF Opened
<1>3. q = Append(open, e)
  OBVIOUS
<1> HIDE DEF e
<1>4. /\ q \in Seq(Pieces) /\ Len(q) = Len(open) + 1 /\ q[Len(q)] = e
      /\ \A i \in 1 .. Len(open) : q[i] = open[i]
  BY <1>1, <1>3, Pushed
<1>5. ASSUME NEW i \in 1 .. Len(open) PROVE q[i].kind = IF i % 2 = 1 THEN "map" ELSE "array"
  <2>1. i = Len(open) /\ Rect => open[i].value
    OBVIOUS
  <2>2. open[i].kind = IF i % 2 = 1 THEN "map" ELSE "array"
    BY <2>1 DEF Alternates
  <2>3. QED
    BY <1>4, <2>2
<1>6. ASSUME NEW i \in 1 .. Len(q)
      PROVE  q[i].kind = IF i % 2 = 1 \/ (Rect /\ i = Len(q) /\ ~q[i].value) THEN "map" ELSE "array"
  <2>1. CASE i # Len(q)
    BY <1>4, <1>5, <2>1
  <2>2. CASE i = Len(q)
    <3>1. ~q[i].value /\ q[i].kind = kind
      BY <1>1, <1>2, <1>4, <2>2
    <3>2. QED
      BY <1>4, <2>2, <3>1
  <2>3. QED
    BY <2>1, <2>2
<1>7. Alternates(q, Rect)
  BY <1>6 DEF Alternates
<1>8. QED
  BY <1>1, <1>2, <1>4, <1>7

\* What is left when the innermost is closed, and when a value is read
LEMMA Shallower ==
    ASSUME NEW open \in Seq(Pieces), Alternates(open, Rect),
           NEW q \in Seq(Pieces), Len(q) <= Len(open),
           \A i \in 1 .. Len(q) : q[i].kind = open[i].kind,
           Len(q) = Len(open) /\ q # <<>> => ~Rect \/ open[Len(open)].value
    PROVE  \A i \in 1 .. Len(q) : q[i].kind = IF i % 2 = 1 THEN "map" ELSE "array"
<1>1. ASSUME NEW i \in 1 .. Len(q) PROVE q[i].kind = IF i % 2 = 1 THEN "map" ELSE "array"
  <2>1. i \in 1 .. Len(open) /\ (i = Len(open) /\ Rect => open[i].value)
    OBVIOUS
  <2>2. open[i].kind = IF i % 2 = 1 THEN "map" ELSE "array"
    BY <2>1 DEF Alternates
  <2>3. QED
    BY <2>2
<1>2. QED
  BY <1>1

\* Where a map may start: a container, a criterion, a rectangle
LEMMA MapStarts ==
    ASSUME IsJson(json), Reading, StartMap
    PROVE  LET n == Len(json.open)
               own == 2 * incomplete - 1
           IN  /\ \/ flags = {} /\ n = own + 1
                  \/ flags = {"swallows"} /\ n = own + 1 /\ incomplete > 0
                  \/ flags \in {{k} : k \in RectFlags} /\ n = own /\ incomplete > 0
               /\ json.open # <<>> => ~Rect \/ json.open[n].value
<1> DEFINE n == Len(json.open)
           own == 2 * incomplete - 1
<1>1. /\ json.on
      /\ json.open = <<>> \/ (Inside("array") /\ flags \cap {"marks", "focus"} = {}) \/ (Asks(TRUE) /\ key \in RectFlags)
  BY DEF StartMap
<1>2. incomplete \in Nat /\ n \in Nat
  BY DEF IsJson, Reading, LayoutTypes
<1>3. CASE json.open = <<>>
  <2>1. n = 0
    BY <1>3
  <2>2. flags = {} /\ n = own + 1
    BY <1>2, <2>1 DEF Reading, Flagged
  <2>3. QED
    BY <1>3, <2>2
<1>4. CASE Inside("array") /\ flags \cap {"marks", "focus"} = {}
  <2>1. /\ incomplete > 0 /\ n = 2 * incomplete /\ ~Rect
        /\ flags \in {{}, {"swallows"}, {"marks"}, {"focus"}}
    BY <1>4, WhoIsInArray
  <2>2. flags = {} \/ flags = {"swallows"}
    BY <1>4, <2>1
  <2>3. QED
    BY <1>2, <2>1, <2>2
<1>5. CASE Asks(TRUE) /\ key \in RectFlags
  <2>1. Inside("map") /\ Last(json.open).value
    BY <1>5 DEF Asks
  <2>2. key \notin {"nodes", "floating_nodes", "class", "name", "swallows", "marks", "focus"}
    BY <1>5 DEF RectFlags
  <2>3. flags \in {{"marks"}, {"focus"}} => key \notin flags
    BY <2>2
  <2>4. /\ flags \in {{k} : k \in RectFlags} /\ n = own /\ json.open[n].value
        /\ incomplete > 0
    BY <2>1, <2>2, <2>3, WhoAsks
  <2>5. QED
    BY <2>4
<1>6. QED
  BY <1>1, <1>3, <1>4, <1>5

LEMMA NewContainer ==
    ASSUME Unused # {}
    PROVE  NewCon \in Containers /\ NewCon \notin Live \cup fate.freed
  BY DEF NewCon, Unused

\* The new container goes within the node at hand.
LEMMA Within ==
    ASSUME Reading, Unused # {}, node' = NewCon, incomplete' = incomplete + 1,
           parent' = [parent EXCEPT ![NewCon] = node],
           UNCHANGED <<marks, attached, marked, wrote, fate>>
    PROVE  LayoutTypes' /\ Hung' /\ \E s \in [1 .. incomplete' -> Containers] : Around(s)'
<1>1. PICK c \in Containers : c = NewCon /\ c \notin Live \cup fate.freed
  BY NewContainer
<1>2. PICK s \in [1 .. incomplete -> Containers] : Around(s)
  BY DEF Reading
<1>3. LayoutTypes /\ Hung
  BY DEF Reading
<1>4. incomplete \in Nat
  BY <1>3 DEF LayoutTypes
<1>5. \A i \in 1 .. incomplete : s[i] \in Live
  BY <1>2 DEF Around
<1>6. node \in Live \cup {Root} /\ node # Nobody
  BY <1>2, <1>4, <1>5, LayoutAssumption DEF Around, Live
<1>7. parent' = [parent EXCEPT ![c] = node] /\ node' = c /\ Strays' = Strays
  BY <1>1 DEF Strays
<1>8. Live' = Live \cup {c}
  BY <1>1, <1>3, <1>6, <1>7 DEF Live, LayoutTypes
<1>9. PICK t \in [1 .. incomplete' -> Containers] :
             t = [i \in 1 .. incomplete + 1 |-> IF i = incomplete + 1 THEN c ELSE s[i]]
  <2> DEFINE u == [i \in 1 .. incomplete + 1 |-> IF i = incomplete + 1 THEN c ELSE s[i]]
  <2>1. u \in [1 .. incomplete' -> Containers]
    BY <1>4
  <2>2. QED
    BY <2>1
<1>10. t[incomplete'] = c /\ \A i \in 1 .. incomplete : t[i] = s[i]
  BY <1>4, <1>9
<1>11. {t[i] : i \in 1 .. incomplete'} = {s[i] : i \in 1 .. incomplete} \cup {c}
  BY <1>4, <1>10
<1>12. ASSUME NEW i \in 1 .. incomplete', NEW j \in 1 .. incomplete', t[i] = t[j] PROVE i = j
  <2>1. \A k \in 1 .. incomplete : t[k] # c
    BY <1>1, <1>5, <1>10
  <2>2. QED
    BY <1>2, <1>4, <1>10, <1>12, <2>1 DEF Around
<1>13. ASSUME NEW i \in 1 .. incomplete' PROVE parent'[t[i]] = IF i = 1 THEN Root ELSE t[i - 1]
  <2>1. CASE i = incomplete + 1
    <3>1. parent'[c] = node
      BY <1>1, <1>3, <1>7 DEF LayoutTypes
    <3>2. QED
      BY <1>2, <1>4, <1>10, <2>1, <3>1 DEF Around
  <2>2. CASE i \in 1 .. incomplete
    <3>1. parent'[s[i]] = parent[s[i]]
      BY <1>1, <1>3, <1>5, <1>7, <2>2 DEF LayoutTypes, Live
    <3>2. QED
      BY <1>2, <1>4, <1>10, <2>2, <3>1 DEF Around
  <2>3. QED
    BY <1>4, <2>1, <2>2
<1>14. /\ (attached \cup Strays) \cap {t[i] : i \in 1 .. incomplete'} = {}
       /\ c \notin attached \cup Strays
  <2> DEFINE A == {s[i] : i \in 1 .. incomplete}
             T == {t[i] : i \in 1 .. incomplete'}
  <2>1. T = A \cup {c} /\ (attached \cup Strays) \cap A = {} /\ Live = attached \cup fate.left \cup A
    BY <1>2, <1>11 DEF Around
  <2> HIDE DEF A, T
  <2>2. c \notin attached \cup Strays
    BY <1>1, <2>1 DEF Strays
  <2>3. (attached \cup Strays) \cap T = {}
    BY <2>1, <2>2
  <2>4. QED
    BY <2>2, <2>3 DEF T
<1>15. Around(t)'
  <2>1. Live' = attached' \cup fate'.left \cup {t[i] : i \in 1 .. incomplete'}
    BY <1>2, <1>8, <1>11 DEF Around
  <2>2. node' = IF incomplete' = 0 THEN Root ELSE t[incomplete']
    BY <1>4, <1>7, <1>10
  <2>3. marks' \subseteq Strays \cup {t[i] : i \in 1 .. incomplete'}
    BY <1>2, <1>11 DEF Around
  <2>4. QED
    BY <1>7, <1>12, <1>13, <1>14, <2>1, <2>2, <2>3 DEF Around
<1>16. LayoutTypes'
  <2>1. incomplete' \in Nat
    BY <1>4
  <2>2. parent' \in [Containers -> Containers \cup {Root, Nobody}]
    BY <1>1, <1>3, <1>6, <1>7 DEF LayoutTypes, Live
  <2>3. QED
    BY <1>3, <1>7, <2>1, <2>2 DEF LayoutTypes
<1>17. Hung'
  <2>1. \A d \in attached : parent'[d] = parent[d]
    BY <1>1, <1>3, <1>7, <1>14 DEF LayoutTypes
  <2>2. QED
    BY <1>3, <1>8, <2>1 DEF Hung
<1>18. QED
  BY <1>9, <1>15, <1>16, <1>17

LEMMA MapStart ==
    ASSUME IsJson(json), Reading, StartMap
    PROVE  IsJson(json') /\ json'.bad = json.bad /\ Reading'
<1> DEFINE o == json.open
           n == Len(o)
           own == 2 * incomplete - 1
           q == Append(o, [kind |-> "map", value |-> FALSE])
<1>1. /\ \/ flags = {} /\ n = own + 1
         \/ flags = {"swallows"} /\ n = own + 1 /\ incomplete > 0
         \/ flags \in {{k} : k \in RectFlags} /\ n = own /\ incomplete > 0
      /\ o # <<>> => ~Rect \/ o[n].value
  BY MapStarts
<1>2. Piece(q) /\ UNCHANGED <<key, flags, marks, attached, marked, wrote, fate>>
  BY DEF StartMap
<1>3. o \in Seq(Pieces) /\ Alternates(o, Rect) /\ Rect \in BOOLEAN /\ incomplete \in Nat /\ n \in Nat
  BY DEF IsJson, Reading, Rect, LayoutTypes
<1>4. Rect' = Rect
  BY <1>2 DEF Rect
<1>5. (n + 1) % 2 = 1 \/ Rect
  <2>1. CASE n = own + 1
    BY <1>3, <2>1
  <2>2. CASE flags \in {{k} : k \in RectFlags}
    BY <2>2 DEF Rect
  <2>3. QED
    BY <1>1, <2>1, <2>2
<1>6. /\ q \in Seq(Pieces) /\ Len(q) = n + 1 /\ ~q[Len(q)].value
      /\ Alternates(q, Rect)
  <2> DEFINE kind == "map"
  <2>1. /\ kind \in {"map", "array"} /\ q = Append(o, Opened(kind))
        /\ kind = IF (Len(o) + 1) % 2 = 1 \/ Rect THEN "map" ELSE "array"
    BY <1>5 DEF Opened
  <2> HIDE DEF q, o, kind
  <2>2. QED
    BY <1>1, <1>3, <2>1, Deeper
<1>7. IsJson(json') /\ json'.open = q /\ json'.on = json.on /\ json'.bad = json.bad
  BY <1>2, <1>6, PieceRead
<1>8. json.on
  BY DEF StartMap
<1> HIDE DEF q
<1>9. Alternates(json.open, Rect)'
  BY <1>4, <1>6, <1>7
<1>10. CASE flags = {} /\ n = own + 1
  <2>1. /\ Unused # {} /\ node' = NewCon /\ incomplete' = incomplete + 1
        /\ parent' = [parent EXCEPT ![NewCon] = node]
    BY <1>10 DEF StartMap
  <2>2. LayoutTypes' /\ Hung' /\ \E s \in [1 .. incomplete' -> Containers] : Around(s)'
    BY <1>2, <2>1, Within
  <2>3. flags' = {} /\ Len(q) = 2 * incomplete' - 1
    BY <1>2, <1>3, <1>6, <1>10, <2>1
  <2>4. Flagged(json.open)'
    BY <1>6, <1>7, <2>3 DEF Flagged
  <2>5. QED
    BY <1>7, <1>8, <1>9, <2>2, <2>4 DEF Reading
<1>11. CASE flags # {}
  <2>1. SameContainers
    <3>1. flags \cap ({"swallows"} \cup RectFlags) # {}
      BY <1>1, <1>11
    <3>2. QED
      BY <1>2, <3>1 DEF StartMap, SameContainers
  <2>2. LayoutTypes' /\ Hung' /\ \E s \in [1 .. incomplete' -> Containers] : Around(s)'
    BY <2>1, ContainersStay
  <2>3. flags' = flags /\ incomplete' = incomplete /\ incomplete > 0
    BY <1>1, <1>2, <1>11, <2>1 DEF SameContainers
  <2>4. CASE flags = {"swallows"} /\ n = own + 1
    <3>1. Len(q) = own + 2
      BY <1>3, <1>6, <2>4
    <3>2. QED
      BY <1>6, <1>7, <2>2, <1>8, <1>9, <2>3, <2>4, <3>1 DEF Flagged, Reading
  <2>5. CASE flags \in {{k} : k \in RectFlags} /\ n = own
    <3>1. Len(q) = own + 1
      BY <1>3, <1>6, <2>5
    <3>2. Flagged(json.open)'
      BY <1>6, <1>7, <2>3, <2>5, <3>1 DEF Flagged
    <3>3. QED
      BY <1>7, <1>8, <1>9, <2>2, <3>2 DEF Reading
  <2>6. QED
    BY <1>1, <1>11, <2>4, <2>5
<1>12. QED
  BY <1>1, <1>10, <1>11

\* A mark is noted for the node at hand.
LEMMA Noted ==
    ASSUME Reading, incomplete > 0, UNCHANGED <<node, incomplete, parent, attached, marked, fate>>,
           \/ marks' = marks /\ wrote' = wrote
           \/ marks' = marks \cup {node} /\ wrote' = wrote \cup {node}
    PROVE  LayoutTypes' /\ Hung' /\ \E s \in [1 .. incomplete' -> Containers] : Around(s)'
<1>1. PICK s \in [1 .. incomplete -> Containers] : Around(s)
  BY DEF Reading
<1>2. Live' = Live /\ Strays' = Strays
  BY DEF Live, Strays
<1>3. node \in {s[i] : i \in 1 .. incomplete} /\ node \in Containers
  BY <1>1 DEF Reading, LayoutTypes, Around
<1>4. marks' \subseteq Strays \cup {s[i] : i \in 1 .. incomplete}
  BY <1>1, <1>3 DEF Around
<1>5. Around(s)'
  BY <1>1, <1>2, <1>4 DEF Around
<1>6. marked' \cup marks' \subseteq wrote' /\ wrote' \subseteq marked' \cup marks' \cup fate'.lost
  BY DEF Reading, LayoutTypes
<1>7. LayoutTypes'
  BY <1>2, <1>3, <1>6 DEF Reading, LayoutTypes
<1>8. Hung'
  BY <1>2 DEF Reading, Hung
<1>9. QED
  BY <1>1, <1>5, <1>7, <1>8

LEMMA StringRead ==
    ASSUME IsJson(json), Reading, String
    PROVE  IsJson(json') /\ json'.bad = json.bad /\ Reading'
<1> DEFINE o == json.open
           n == Len(o)
           own == 2 * incomplete - 1
           q == Done(o)
<1>1. Piece(q) /\ UNCHANGED <<key, flags, node, incomplete, parent, attached, marked, fate>>
  BY DEF String
<1>2. o \in Seq(Pieces)
  BY DEF IsJson
<1>3. /\ incomplete > 0 /\ n > 0 /\ ~Rect
      /\ \/ flags \in {{"marks"}, {"focus"}} /\ n = own + 1
         \/ flags = {} /\ n = own /\ Last(o).kind = "map"
         \/ flags = {"swallows"} /\ n = own + 2 /\ Last(o).kind = "map"
  <2>1. CASE Inside("array") /\ flags \cap {"marks", "focus"} # {}
    BY <2>1, WhoIsInArray DEF Reading, LayoutTypes
  <2>2. CASE Asks(TRUE) /\ key \in {"class", "name"}
    <3>1. Inside("map") /\ Last(o).value /\ Last(o).kind = "map"
      BY <2>2 DEF Asks, Inside
    <3>2. flags \in {{"marks"}, {"focus"}} \cup {{k} : k \in RectFlags} => key \notin flags
      BY <2>2 DEF RectFlags
    <3>3. flags \in {{}, {"swallows"}} => ~Rect
      BY DEF Rect, RectFlags
    <3>4. QED
      BY <2>2, <3>1, <3>2, <3>3, WhoAsks
  <2>3. QED
    BY <2>1, <2>2 DEF String
<1>4. /\ q \in Seq(Pieces) /\ Len(q) = n
      /\ \A i \in 1 .. n : q[i].kind = o[i].kind
      /\ q[n].kind = "map" => ~q[n].value
  BY <1>2, <1>3, Answered
<1> HIDE DEF q
<1>5. IsJson(json') /\ json'.open = q /\ json'.on = json.on /\ json'.bad = json.bad
  BY <1>1, <1>4, PieceRead
<1>6. json.on
  BY DEF String, Asks, Inside
<1>7. Alternates(json.open, Rect)'
  <2>1. Alternates(o, Rect)
    BY DEF Reading
  <2>2. \A i \in 1 .. Len(q) : q[i].kind = IF i % 2 = 1 THEN "map" ELSE "array"
    BY <1>2, <1>3, <1>4, <2>1, Shallower
  <2>3. ~Rect'
    BY <1>1, <1>3 DEF Rect
  <2>4. QED
    BY <1>5, <2>2, <2>3 DEF Alternates
<1>8. Flagged(json.open)'
  <2>1. flags' = flags /\ incomplete' = incomplete /\ json'.open = q /\ Len(q) = n
    BY <1>1, <1>4, <1>5
  <2>2. CASE flags \in {{"marks"}, {"focus"}} /\ n = own + 1
    BY <1>3, <2>1, <2>2 DEF Flagged
  <2>3. CASE Last(o).kind = "map" /\ flags \in {{}, {"swallows"}}
    <3>1. ~q[n].value
      BY <1>3, <1>4, <2>3 DEF Last
    <3>2. QED
      BY <1>3, <2>1, <2>3, <3>1 DEF Flagged
  <2>4. QED
    BY <1>3, <2>2, <2>3
<1>9. LayoutTypes' /\ Hung' /\ \E s \in [1 .. incomplete' -> Containers] : Around(s)'
  <2>1. \/ marks' = marks /\ wrote' = wrote
        \/ marks' = marks \cup {node} /\ wrote' = wrote \cup {node}
    BY DEF String
  <2>2. QED
    BY <1>1, <1>3, <2>1, Noted
<1>10. QED
  BY <1>5, <1>6, <1>7, <1>8, <1>9 DEF Reading

LEMMA ArrayStart ==
    ASSUME IsJson(json), Reading, StartArray
    PROVE  IsJson(json') /\ json'.bad = json.bad /\ Reading'
<1> DEFINE o == json.open
           n == Len(o)
           own == 2 * incomplete - 1
           q == Append(o, [kind |-> "array", value |-> FALSE])
<1>1. Piece(q) /\ UNCHANGED <<key, flags>> /\ SameContainers
  BY DEF StartArray, SameContainers
<1>2. o \in Seq(Pieces) /\ incomplete \in Nat /\ Alternates(o, Rect)
  BY DEF IsJson, Reading, LayoutTypes
<1>3. /\ incomplete > 0 /\ n = own /\ ~Rect
      /\ flags \in {{}, {"swallows"}, {"marks"}, {"focus"}}
  <2>1. Inside("map") /\ Last(o).value /\ key \in Arrays
    BY DEF StartArray, Asks
  <2>2. key \notin RectFlags \cup {"class"}
    BY <2>1 DEF Arrays, RectFlags
  <2>3. flags \in {{}, {"swallows"}, {"marks"}, {"focus"}} => ~Rect
    BY DEF Rect, RectFlags
  <2>4. QED
    BY <2>1, <2>2, <2>3, WhoAsks
<1>4. /\ q \in Seq(Pieces) /\ Len(q) = n + 1
      /\ Alternates(q, Rect)
  <2> DEFINE kind == "array"
  <2>1. /\ kind \in {"map", "array"} /\ q = Append(o, Opened(kind))
        /\ kind = IF (Len(o) + 1) % 2 = 1 \/ Rect THEN "map" ELSE "array"
    BY <1>2, <1>3 DEF Opened
  <2> HIDE DEF q, o, kind
  <2>2. QED
    BY <1>2, <1>3, <2>1, Deeper
<1> HIDE DEF q
<1>5. IsJson(json') /\ json'.open = q /\ json'.on = json.on /\ json'.bad = json.bad
  BY <1>1, <1>4, PieceRead
<1>6. json.on
  BY DEF StartArray, Asks, Inside
<1>7. Alternates(json.open, Rect)'
  <2>1. Rect' = Rect
    BY <1>1 DEF Rect
  <2>2. QED
    BY <1>4, <1>5, <2>1
<1>8. Flagged(json.open)'
  <2>1. flags' = flags /\ incomplete' = incomplete /\ json'.open = q /\ Len(q) = own + 1
    BY <1>1, <1>3, <1>4, <1>5 DEF SameContainers
  <2>2. QED
    BY <1>3, <2>1 DEF Flagged
<1>9. LayoutTypes' /\ Hung' /\ \E s \in [1 .. incomplete' -> Containers] : Around(s)'
  BY <1>1, ContainersStay
<1>10. QED
  BY <1>5, <1>6, <1>7, <1>8, <1>9 DEF Reading

LEMMA ArrayEnd ==
    ASSUME IsJson(json), Reading, EndArray
    PROVE  IsJson(json') /\ json'.bad = json.bad /\ Reading'
<1> DEFINE o == json.open
           n == Len(o)
           own == 2 * incomplete - 1
           q == Done(Front(o))
<1>1. /\ Piece(q) /\ flags' = flags \ {"swallows", "marks", "focus"} /\ SameContainers
      /\ Inside("array")
  BY DEF EndArray, SameContainers
<1>2. o \in Seq(Pieces) /\ o # <<>> /\ incomplete \in Nat /\ Alternates(o, Rect) /\ json.on
  BY <1>1 DEF IsJson, Reading, LayoutTypes, Inside
<1>3. /\ incomplete > 0 /\ n = own + 1 /\ ~Rect
      /\ flags \in {{}, {"swallows"}, {"marks"}, {"focus"}}
  BY <1>1, <1>2, WhoIsInArray
<1>4. /\ q \in Seq(Pieces) /\ Len(q) = own
      /\ \A i \in 1 .. own : q[i].kind = o[i].kind
      /\ q[own].kind = "map" => ~q[own].value
  <2>1. q = Done(Front(o))
    OBVIOUS
  <2> HIDE DEF q, o
  <2>2. /\ q \in Seq(Pieces) /\ Len(q) = n - 1
        /\ \A i \in 1 .. n - 1 : q[i].kind = o[i].kind
        /\ Len(q) > 0 /\ q[Len(q)].kind = "map" => ~q[Len(q)].value
    BY <1>2, <2>1, Popped
  <2>3. n - 1 = own /\ own > 0
    BY <1>2, <1>3
  <2> HIDE DEF n, own
  <2>4. QED
    BY <2>2, <2>3
<1> HIDE DEF q
<1>5. IsJson(json') /\ json'.open = q /\ json'.on = json.on /\ json'.bad = json.bad
  BY <1>1, <1>4, PieceRead
<1>6. \A i \in 1 .. Len(q) : q[i].kind = IF i % 2 = 1 THEN "map" ELSE "array"
  <2>1. Len(q) < Len(o)
    BY <1>2, <1>3, <1>4
  <2>2. \A i \in 1 .. Len(q) : q[i].kind = o[i].kind
    BY <1>4
  <2> HIDE DEF o, n, own
  <2>3. QED
    BY <1>2, <1>4, <2>1, <2>2, Shallower
<1>7. flags' = {}
  BY <1>1, <1>3
<1>8. Alternates(json.open, Rect)'
  <2>1. ~Rect'
    BY <1>7 DEF Rect
  <2>2. QED
    BY <1>5, <1>6, <2>1 DEF Alternates
<1>9. Flagged(json.open)'
  <2>1. ~q[own].value
    BY <1>2, <1>3, <1>4, <1>6
  <2>2. incomplete' = incomplete
    BY <1>1 DEF SameContainers
  <2>3. QED
    BY <1>4, <1>5, <1>7, <2>1, <2>2 DEF Flagged
<1>10. LayoutTypes' /\ Hung' /\ \E s \in [1 .. incomplete' -> Containers] : Around(s)'
  BY <1>1, ContainersStay
<1>11. QED
  BY <1>2, <1>5, <1>8, <1>9, <1>10 DEF Reading

\* The node at hand is attached, and its parent is at hand again.
LEMMA Attached ==
    ASSUME Reading, incomplete > 0, node' = parent[node], incomplete' = incomplete - 1,
           attached' = attached \cup {node}, marked' = marked \cup marks, marks' = {},
           UNCHANGED <<parent, wrote, fate>>
    PROVE  LayoutTypes' /\ Hung' /\ \E s \in [1 .. incomplete' -> Containers] : Around(s)'
<1>1. PICK s \in [1 .. incomplete -> Containers] : Around(s)
  BY DEF Reading
<1>2. LayoutTypes /\ Hung /\ incomplete \in Nat
  BY DEF Reading, LayoutTypes
<1>3. Live' = Live /\ Strays' = Strays /\ node = s[incomplete] /\ node \in Containers
  BY <1>1, <1>2 DEF Live, Strays, Around
<1>4. PICK t \in [1 .. incomplete' -> Containers] : t = [i \in 1 .. incomplete - 1 |-> s[i]]
  <2> DEFINE u == [i \in 1 .. incomplete - 1 |-> s[i]]
  <2>1. u \in [1 .. incomplete' -> Containers]
    BY <1>2
  <2>2. QED
    BY <2>1
<1>5. \A i \in 1 .. incomplete' : t[i] = s[i] /\ i \in 1 .. incomplete /\ i # incomplete
  BY <1>2, <1>4
<1>6. {s[i] : i \in 1 .. incomplete} = {t[i] : i \in 1 .. incomplete'} \cup {node}
  BY <1>2, <1>3, <1>5
<1>7. node \notin {t[i] : i \in 1 .. incomplete'}
  BY <1>1, <1>2, <1>3, <1>5 DEF Around
<1> DEFINE A == {s[i] : i \in 1 .. incomplete}
           T == {t[i] : i \in 1 .. incomplete'}
<1>8. /\ A = T \cup {node} /\ node \notin T
      /\ Live = attached \cup fate.left \cup A /\ (attached \cup Strays) \cap A = {}
  BY <1>1, <1>6, <1>7 DEF Around
<1>9. Around(t)'
  <2>1. /\ \A i, j \in 1 .. incomplete' : t[i] = t[j] => i = j
        /\ \A i \in 1 .. incomplete' : parent'[t[i]] = IF i = 1 THEN Root ELSE t[i - 1]
    <3>1. \A i \in 1 .. incomplete' : i = 1 \/ i - 1 \in 1 .. incomplete'
      BY <1>2
    <3>2. \A i, j \in 1 .. incomplete' : t[i] = t[j] => i = j
      BY <1>1, <1>5 DEF Around
    <3>3. \A i \in 1 .. incomplete' : parent[t[i]] = IF i = 1 THEN Root ELSE t[i - 1]
      BY <1>1, <1>5, <3>1 DEF Around
    <3>4. QED
      BY <3>2, <3>3
  <2>2. node' = IF incomplete' = 0 THEN Root ELSE t[incomplete']
    BY <1>1, <1>2, <1>3, <1>5 DEF Around
  <2> HIDE DEF A, T
  <2>3. Live' = attached' \cup fate'.left \cup T /\ (attached' \cup Strays') \cap T = {} /\ marks' \subseteq T
    BY <1>3, <1>8
  <2>4. QED
    BY <2>1, <2>2, <2>3 DEF Around, T
<1>10. node \in A /\ parent[node] \in A \cup {Root}
  <2>1. incomplete \in 1 .. incomplete /\ (incomplete = 1 \/ incomplete - 1 \in 1 .. incomplete)
    BY <1>2
  <2>2. QED
    BY <1>1, <1>3, <2>1 DEF Around
<1> HIDE DEF A, T
<1>11. LayoutTypes'
  <2>1. attached' \cap Strays' = {}
    BY <1>2, <1>3, <1>8, <1>10 DEF LayoutTypes
  <2>2. QED
    BY <1>2, <1>3, <2>1 DEF LayoutTypes
<1>12. Hung'
  <2>1. A \cap fate.before = {} /\ A \cap fate.left = {} /\ A \subseteq Live
    BY <1>2, <1>8 DEF LayoutTypes, Strays
  <2>2. QED
    BY <1>2, <1>3, <1>10, <2>1 DEF Hung
<1>13. QED
  BY <1>4, <1>9, <1>11, <1>12

LEMMA MapEnd ==
    ASSUME IsJson(json), Reading, EndMap
    PROVE  IsJson(json') /\ json'.bad = json.bad /\ Reading'
<1> DEFINE o == json.open
           n == Len(o)
           own == 2 * incomplete - 1
           q == Done(Front(o))
<1>1. /\ Piece(q) /\ flags' = flags \ RectFlags /\ UNCHANGED <<parent, wrote, fate>>
      /\ Inside("map") /\ Last(o).value = FALSE
  BY DEF EndMap, Asks
<1>2. o \in Seq(Pieces) /\ o # <<>> /\ incomplete \in Nat /\ n \in Nat \ {0} /\ Alternates(o, Rect) /\ json.on
  BY <1>1 DEF IsJson, Reading, LayoutTypes, Inside
<1>3. /\ incomplete > 0
      /\ \/ flags = {} /\ n = own
         \/ flags = {"swallows"} /\ n = own + 2
         \/ flags \in {{k} : k \in RectFlags} /\ n = own + 1
  <2>1. ~o[n].value /\ Last(o) = o[n]
    BY <1>1, <1>2 DEF Last
  <2>2. QED
    BY <1>1, <2>1, WhoAsks
<1>4. /\ q \in Seq(Pieces) /\ Len(q) = n - 1
      /\ \A i \in 1 .. n - 1 : q[i].kind = o[i].kind
      /\ Len(q) > 0 /\ q[Len(q)].kind = "map" => ~q[Len(q)].value
  <2>1. q = Done(Front(o))
    OBVIOUS
  <2> HIDE DEF q, o
  <2>2. QED
    BY <1>2, <2>1, Popped
<1> HIDE DEF q
<1>5. IsJson(json') /\ json'.open = q /\ json'.on = json.on /\ json'.bad = json.bad
  BY <1>1, <1>4, PieceRead
<1>6. \A i \in 1 .. Len(q) : q[i].kind = IF i % 2 = 1 THEN "map" ELSE "array"
  <2>1. Len(q) < Len(o)
    BY <1>2, <1>4
  <2>2. \A i \in 1 .. Len(q) : q[i].kind = o[i].kind
    BY <1>4
  <2> HIDE DEF o, n, own
  <2>3. QED
    BY <1>2, <1>4, <2>1, <2>2, Shallower
<1>7. Alternates(json.open, Rect)'
  <2>1. ~Rect'
    BY <1>1 DEF Rect
  <2>2. QED
    BY <1>5, <1>6, <2>1 DEF Alternates
<1>8. CASE flags = {} /\ n = own
  <2>1. /\ marked' = marked \cup marks /\ marks' = {}
        /\ attached' = attached \cup {node}
        /\ node' = parent[node] /\ incomplete' = incomplete - 1
    BY <1>8 DEF EndMap
  <2>2. LayoutTypes' /\ Hung' /\ \E s \in [1 .. incomplete' -> Containers] : Around(s)'
    BY <1>1, <1>3, <2>1, Attached
  <2>3. flags' = {} /\ Len(q) = 2 * incomplete' - 1 + 1
    BY <1>1, <1>2, <1>4, <1>8, <2>1
  <2>4. Flagged(json.open)'
    BY <1>5, <2>3 DEF Flagged
  <2>5. QED
    BY <1>2, <1>5, <1>7, <2>2, <2>4 DEF Reading
<1>9. CASE flags # {}
  <2>1. SameContainers
    <3>1. flags \cap (RectFlags \cup {"swallows"}) # {}
      BY <1>3, <1>9
    <3>2. QED
      BY <1>1, <3>1 DEF EndMap, SameContainers
  <2>2. LayoutTypes' /\ Hung' /\ \E s \in [1 .. incomplete' -> Containers] : Around(s)'
    BY <2>1, ContainersStay
  <2>3. incomplete' = incomplete
    BY <2>1 DEF SameContainers
  <2>4. CASE flags = {"swallows"} /\ n = own + 2
    <3>1. flags' = {"swallows"} /\ Len(q) = own + 1
      BY <1>1, <1>2, <1>4, <2>4 DEF RectFlags
    <3>2. Flagged(json.open)'
      BY <1>3, <1>5, <2>3, <3>1 DEF Flagged
    <3>3. QED
      BY <1>2, <1>5, <1>7, <2>2, <3>2 DEF Reading
  <2>5. CASE flags \in {{k} : k \in RectFlags} /\ n = own + 1
    <3>1. flags' = {} /\ Len(q) = own
      BY <1>1, <1>2, <1>4, <2>5
    <3>2. ~q[own].value
      BY <1>2, <1>3, <1>4, <1>6, <3>1
    <3>3. Flagged(json.open)'
      BY <1>5, <2>3, <3>1, <3>2 DEF Flagged
    <3>4. QED
      BY <1>2, <1>5, <1>7, <2>2, <3>3 DEF Reading
  <2>6. QED
    BY <1>3, <1>9, <2>4, <2>5
<1>10. QED
  BY <1>3, <1>8, <1>9

\* There is nobody around the node at hand when nothing is incomplete.
LEMMA NobodyAround == \E s : s \in [1 .. 0 -> Containers]
<1>1. [i \in 1 .. 0 |-> CHOOSE c \in Containers : TRUE] \in [1 .. 0 -> Containers]
  OBVIOUS
<1>2. QED
  BY <1>1

LEMMA LayoutBegins ==
    ASSUME IsJson(json), LayoutTypes, Between, Begin
    PROVE  IsJson(json') /\ Reading' /\ json'.on
<1>1. PICK ws \in BOOLEAN :
             json' = [json EXCEPT !.on = TRUE, !.files = @ + 1, !.workspaces = ws, !.bad = FALSE]
  BY Zenon DEF Begin
<1>2. IsJson(json') /\ json'.on /\ json'.open = json.open
  BY <1>1 DEF IsJson, IsRead
<1>3. PICK forgets \in BOOLEAN :
        /\ marks' = IF forgets THEN {} ELSE marks
        /\ fate' = [fate EXCEPT !.before = attached, !.lost = IF forgets THEN @ \cup marks ELSE @]
  BY Zenon DEF Begin
<1>4. /\ fate' \in Fates /\ fate'.before = attached /\ fate'.left = fate.left /\ fate'.freed = fate.freed
      /\ wrote \subseteq marked \cup marks' \cup fate'.lost
  <2>1. fate \in Fates /\ attached \subseteq Containers /\ marks \subseteq Containers
    BY DEF LayoutTypes
  <2>2. QED
    BY <1>3, <2>1 DEF Fates, LayoutTypes
<1>5. /\ UNCHANGED <<parent, attached, marked, wrote>>
      /\ node' = Root /\ incomplete' = 0 /\ flags' = {}
  BY DEF Begin
<1>6. Live' = Live /\ Strays' = Strays
  BY <1>4, <1>5 DEF Live, Strays
<1>7. LayoutTypes'
  BY <1>3, <1>4, <1>5, <1>6 DEF LayoutTypes
<1>8. Hung'
  BY <1>4, <1>5 DEF Hung
<1>9. (\E s \in [1 .. incomplete -> Containers] : Around(s))'
  <2>1. Live' = attached' \cup fate'.left /\ marks' \subseteq Strays'
    BY <1>3, <1>4, <1>5, <1>6 DEF Between
  <2>2. PICK s \in [1 .. incomplete' -> Containers] : TRUE
    BY <1>5, NobodyAround
  <2>3. Around(s)'
    BY <1>5, <2>1 DEF Around
  <2>4. QED
    BY <2>2, <2>3
<1>10. Flagged(json.open)' /\ Alternates(json.open, Rect)'
  <2>1. json.open = <<>> /\ Len(json.open) = 0
    BY DEF Between
  <2>2. QED
    BY <1>2, <1>5, <2>1 DEF Flagged, Alternates
<1>11. QED
  BY <1>2, <1>7, <1>8, <1>9, <1>10 DEF Reading

\* The loop from the node at hand outwards meets just the containers that are incomplete.
LEMMA LoopMeetsAll ==
    ASSUME NEW s \in [1 .. incomplete -> Containers], Around(s), incomplete \in Nat
    PROVE  Incomplete = {s[i] : i \in 1 .. incomplete}
<1> DEFINE N == 1 .. incomplete
           Loop(f) == f = [n \in N |-> IF n = 1 THEN node ELSE parent[f[n - 1]]]
           out == [n \in N |-> s[incomplete + 1 - n]]
           around[n \in N] == IF n = 1 THEN node ELSE parent[around[n - 1]]
<1>1. ASSUME NEW n \in N PROVE out[n] = IF n = 1 THEN node ELSE parent[out[n - 1]]
  <2>1. CASE n = 1
    BY <2>1 DEF Around
  <2>2. CASE n # 1
    <3>1. n - 1 \in N /\ incomplete + 1 - (n - 1) \in 1 .. incomplete /\ incomplete + 1 - (n - 1) # 1
      BY <2>2
    <3>2. out[n - 1] = s[incomplete + 1 - (n - 1)]
      BY <3>1
    <3>3. parent[s[incomplete + 1 - (n - 1)]] = s[incomplete + 1 - (n - 1) - 1]
      BY <3>1 DEF Around
    <3>4. incomplete + 1 - (n - 1) - 1 = incomplete + 1 - n
      OBVIOUS
    <3>5. QED
      BY <2>2, <3>2, <3>3, <3>4
  <2>3. QED
    BY <2>1, <2>2
<1>2. Loop(out)
  BY <1>1, Zenon
<1>3. around = CHOOSE f : Loop(f)
  OBVIOUS
<1> HIDE DEF out, around
<1>4. Loop(around)
  BY <1>2, <1>3, Zenon
<1> DEFINE Same == {0} \cup {n \in N : around[n] = out[n]}
<1>5. \A n \in 0 .. incomplete : n \in Same
  <2>1. 0 \in Same
    OBVIOUS
  <2>2. ASSUME NEW n \in 1 .. incomplete, n - 1 \in Same PROVE n \in Same
    <3>1. around[n] = IF n = 1 THEN node ELSE parent[around[n - 1]]
      BY <1>4
    <3>2. n # 1 => n - 1 \in N /\ around[n - 1] = out[n - 1]
      BY <2>2
    <3>3. around[n] = out[n]
      BY <1>1, <3>1, <3>2
    <3>4. QED
      BY <3>3
  <2> HIDE DEF Same
  <2>3. QED
    BY <2>1, <2>2, UpTo
<1>6. \A n \in N : around[n] = s[incomplete + 1 - n]
  <2>1. ASSUME NEW n \in N PROVE around[n] = out[n]
    <3>1. n \in 0 .. incomplete /\ n # 0
      OBVIOUS
    <3>2. n \in Same
      BY <1>5, <3>1
    <3>3. QED
      BY <3>1, <3>2
  <2>2. \A n \in N : out[n] = s[incomplete + 1 - n]
    BY DEF out
  <2>3. QED
    BY <2>1, <2>2
<1>7. Incomplete = {around[n] : n \in N}
  BY DEF Incomplete, around
<1> HIDE DEF Same
<1>8. ASSUME NEW c PROVE c \in {around[n] : n \in N} <=> c \in {s[i] : i \in 1 .. incomplete}
  <2>1. ASSUME NEW n \in N, c = around[n] PROVE c \in {s[i] : i \in 1 .. incomplete}
    BY <1>6, <2>1
  <2>2. ASSUME NEW i \in 1 .. incomplete, c = s[i] PROVE c \in {around[n] : n \in N}
    <3>1. incomplete + 1 - i \in N /\ incomplete + 1 - (incomplete + 1 - i) = i
      OBVIOUS
    <3>2. around[incomplete + 1 - i] = s[i]
      BY <1>6, <3>1
    <3>3. QED
      BY <2>2, <3>1, <3>2
  <2>3. QED
    BY <2>1, <2>2
<1>9. QED
  BY <1>7, <1>8

LEMMA LayoutEnds ==
    ASSUME IsJson(json), Reading, End
    PROVE  LayoutInv'
<1> DEFINE b == json.open # <<>>
<1>1. json' = [json EXCEPT !.on = FALSE, !.open = <<>>, !.bad = b] /\ b \in BOOLEAN
  BY DEF End
<1> HIDE DEF b
<1>2. json'.on = FALSE /\ json'.open = <<>> /\ json'.bad = b /\ IsJson(json')
  <2>1. IsRead(json)
    BY DEF IsJson
  <2>2. json'.bad = b /\ json'.on = FALSE /\ json'.open = <<>> /\ IsRead(json')
    BY <1>1, <2>1 DEF IsRead
  <2>3. <<>> \in Seq(Pieces)
    OBVIOUS
  <2>4. QED
    BY <2>2, <2>3 DEF IsJson
<1>3. LayoutTypes /\ Hung /\ incomplete \in Nat
  BY DEF Reading, LayoutTypes
<1>4. PICK s \in [1 .. incomplete -> Containers] : Around(s)
  BY DEF Reading
<1> DEFINE A == {s[i] : i \in 1 .. incomplete}
<1>5. Incomplete = A /\ A \subseteq Containers
  BY <1>3, <1>4, LoopMeetsAll
<1>6. /\ Live = attached \cup fate.left \cup A /\ (attached \cup Strays) \cap A = {}
      /\ marks \subseteq Strays \cup A
  BY <1>4 DEF Around
<1> HIDE DEF A
<1>7. /\ fate' \in Fates /\ fate'.left = fate.left \cup A /\ fate'.freed = fate.freed
      /\ fate'.before = fate.before /\ fate'.lost = fate.lost
  <2>1. fate' = [fate EXCEPT !.left = @ \cup A]
    BY <1>5 DEF End
  <2>2. fate \in Fates
    BY <1>3 DEF LayoutTypes
  <2>3. QED
    BY <1>5, <2>1, <2>2 DEF Fates
<1>8. UNCHANGED <<key, flags, node, incomplete, marks, parent, attached, marked, wrote>>
  BY DEF End
<1>9. Live' = Live /\ Strays' = Strays \cup A
  BY <1>7, <1>8 DEF Live, Strays
<1>10. LayoutTypes'
  BY <1>3, <1>6, <1>7, <1>8, <1>9 DEF LayoutTypes
<1>11. Between'
  BY <1>2, <1>6, <1>7, <1>8, <1>9 DEF Between
<1>12. ASSUME ~b PROVE Reading'
  <2>1. json.open = <<>> /\ Len(json.open) = 0
    BY <1>12 DEF b
  <2>2. incomplete = 0 /\ flags = {}
    BY <1>3, <2>1 DEF Reading, Flagged
  <2>3. A = {} /\ node = Root
    BY <1>4, <2>2 DEF A, Around
  <2>4. Hung'
    BY <1>3, <1>7, <1>8, <1>9, <2>3 DEF Hung
  <2>5. (\E t \in [1 .. incomplete -> Containers] : Around(t))'
    <3>1. PICK t \in [1 .. incomplete' -> Containers] : TRUE
      BY <1>8, <2>2, NobodyAround
    <3>2. Around(t)'
      BY <1>8, <1>11, <2>2, <2>3 DEF Around, Between
    <3>3. QED
      BY <3>1, <3>2
  <2>6. Alternates(json.open, Rect)'
    BY <1>2 DEF Alternates
  <2>7. Flagged(json.open)'
    BY <1>2, <1>8, <2>2 DEF Flagged
  <2>8. QED
    BY <1>2, <1>10, <2>4, <2>5, <2>6, <2>7 DEF Reading
<1>13. QED
  BY <1>2, <1>10, <1>11, <1>12 DEF LayoutInv

\* What is incomplete goes, and nothing else.
LEMMA LayoutGivesUp ==
    ASSUME IsJson(json), Reading, GiveUp
    PROVE  LayoutInv'
<1>1. json' = [json EXCEPT !.on = FALSE, !.open = <<>>, !.bad = TRUE]
  BY DEF GiveUp
<1>2. json'.on = FALSE /\ json'.open = <<>> /\ json'.bad = TRUE /\ IsJson(json')
  <2>1. <<>> \in Seq(Pieces)
    OBVIOUS
  <2>2. QED
    BY <1>1, <2>1 DEF IsJson, IsRead
<1>3. LayoutTypes
  BY DEF Reading
<1>4. PICK s \in [1 .. incomplete -> Containers] : Around(s)
  BY DEF Reading
<1> DEFINE A == {s[i] : i \in 1 .. incomplete}
<1>5. Incomplete = A /\ A \subseteq Containers
  BY <1>3, <1>4, LoopMeetsAll DEF LayoutTypes
<1>6. /\ Live = attached \cup fate.left \cup A /\ (attached \cup Strays) \cap A = {}
      /\ marks \subseteq Strays \cup A
  BY <1>4 DEF Around
<1> HIDE DEF A
<1>7. /\ fate' \in Fates /\ fate'.left = fate.left /\ fate'.freed = fate.freed \cup A
      /\ fate'.before = fate.before /\ fate'.lost = fate.lost
  <2>1. fate' = [fate EXCEPT !.freed = @ \cup A]
    BY <1>5 DEF GiveUp
  <2>2. fate \in Fates
    BY <1>3 DEF LayoutTypes
  <2>3. QED
    BY <1>5, <2>1, <2>2 DEF Fates
<1>8. /\ UNCHANGED <<marks, attached, marked, wrote>> /\ incomplete' = 0
      /\ parent' = [c \in Containers |-> IF c \in A THEN Nobody ELSE parent[c]]
  BY <1>5 DEF GiveUp
<1>9. Live' = Live \ A /\ Strays' = Strays \cup A
  BY <1>7, <1>8 DEF Live, Strays
<1>10. LayoutTypes'
  <2>1. parent' \in [Containers -> Containers \cup {Root, Nobody}]
    BY <1>3, <1>8 DEF LayoutTypes
  <2>2. QED
    BY <1>3, <1>6, <1>7, <1>8, <1>9, <2>1 DEF LayoutTypes
<1>11. Between'
  <2>1. Live \ A = attached \cup fate.left
    BY <1>6 DEF Strays
  <2>2. QED
    BY <1>2, <1>6, <1>7, <1>8, <1>9, <2>1 DEF Between
<1>12. QED
  BY <1>2, <1>10, <1>11 DEF LayoutInv

LEMMA LayoutStep ==
    ASSUME LayoutInv, [LayoutNext]_layoutVars
    PROVE  LayoutInv'
<1>1. IsJson(json) /\ LayoutTypes /\ (json.on \/ ~json.bad => Reading) /\ (~json.on => Between)
  BY DEF LayoutInv
<1>2. ASSUME IsJson(json'), Reading', json'.on PROVE LayoutInv'
  BY <1>2 DEF LayoutInv, Reading
<1>3. json.on => Reading
  BY <1>1
<1>4. CASE UNCHANGED layoutVars
  <2>1. UNCHANGED <<json, flags, key>> /\ SameContainers /\ fate' = fate /\ marks' = marks
    BY <1>4 DEF layoutVars, SameContainers
  <2>2. Live' = Live /\ Strays' = Strays
    BY <2>1 DEF SameContainers, Live, Strays
  <2>3. LayoutTypes' /\ (Between => Between')
    BY <1>1, <2>1, <2>2 DEF SameContainers, LayoutTypes, Between
  <2>4. Reading => Reading'
    <3> SUFFICES ASSUME Reading PROVE Reading'
      OBVIOUS
    <3>1. LayoutTypes' /\ Hung' /\ \E s \in [1 .. incomplete' -> Containers] : Around(s)'
      BY <2>1, ContainersStay
    <3>2. Alternates(json.open, Rect)' /\ Flagged(json.open)'
      BY <2>1 DEF Reading, Alternates, Flagged, Waits, Rect, SameContainers
    <3>3. QED
      BY <2>1, <3>1, <3>2 DEF Reading
  <2>5. QED
    BY <1>1, <2>1, <2>3, <2>4 DEF LayoutInv
<1>5. CASE Begin
  <2>1. Between
    BY <1>1, <1>5 DEF Begin
  <2>2. QED
    BY <1>1, <1>2, <1>5, <2>1, LayoutBegins
<1>6. CASE End
  <2>1. Reading
    BY <1>3, <1>6 DEF End
  <2>2. QED
    BY <1>1, <1>6, <2>1, LayoutEnds
<1>7. CASE GiveUp
  <2>1. Reading
    BY <1>3, <1>7 DEF GiveUp, Asks, Inside
  <2>2. QED
    BY <1>1, <1>7, <2>1, LayoutGivesUp
<1>8. CASE StartMap \/ EndMap \/ String \/ StartArray \/ EndArray \/ \E k \in Keys : Key(k)
  <2>1. json.on /\ \E q : Piece(q)
    BY <1>8 DEF StartMap, EndMap, String, StartArray, EndArray, Key, Asks, Inside
  <2>2. Reading
    BY <1>3, <2>1
  <2>3. IsJson(json') /\ Reading'
    <3>1. ASSUME NEW k \in Keys, Key(k) PROVE IsJson(json') /\ Reading'
      BY <1>1, <2>2, <3>1, KeyRead
    <3>2. QED
      BY <1>1, <1>8, <2>2, <3>1, MapStart, MapEnd, StringRead, ArrayStart, ArrayEnd
  <2>4. json'.on
    <3>1. ASSUME NEW q, Piece(q) PROVE json'.on
      <4>1. json' = [json EXCEPT !.open = q, !.n = @ + 1]
        BY <3>1 DEF Piece
      <4>2. QED
        BY <1>1, <2>1, <4>1 DEF IsJson, IsRead
    <3>2. QED
      BY <2>1, <3>1
  <2>5. QED
    BY <1>2, <2>3, <2>4
<1>9. QED
  BY <1>4, <1>5, <1>6, <1>7, <1>8 DEF LayoutNext

LEMMA LayoutStarts == LayoutInit => LayoutInv
<1> SUFFICES ASSUME LayoutInit PROVE LayoutInv
  OBVIOUS
<1>1. json = [on |-> FALSE, workspaces |-> FALSE, open |-> <<>>, n |-> 0, files |-> 0, bad |-> FALSE]
  BY DEF LayoutInit
<1>2. IsJson(json) /\ json.open = <<>> /\ Len(json.open) = 0 /\ ~json.on
  BY <1>1 DEF IsJson, IsRead
<1>3. Live = {} /\ fate.left = {} /\ marks = {} /\ attached = {}
  BY DEF LayoutInit, Live
<1>4. LayoutTypes /\ Hung
  BY <1>3 DEF LayoutInit, LayoutTypes, Hung, Fates, Strays
<1>5. Between
  BY <1>2, <1>3 DEF Between
<1>6. \E s \in [1 .. incomplete -> Containers] : Around(s)
  <2>1. incomplete = 0 /\ node = Root
    BY DEF LayoutInit
  <2>2. PICK s \in [1 .. incomplete -> Containers] : TRUE
    BY <2>1, NobodyAround
  <2>3. Around(s)
    BY <1>3, <2>1 DEF Around, Strays
  <2>4. QED
    BY <2>3
<1>7. Alternates(json.open, Rect) /\ Flagged(json.open)
  BY <1>2 DEF Alternates, Flagged, LayoutInit
<1>8. QED
  BY <1>2, <1>4, <1>5, <1>6, <1>7 DEF LayoutInv, Reading

\* tree_append_json: a layout that was read to its end has left nothing behind, neither an
\* incomplete container nor a flag, and all its containers are attached within it, whatever
\* was rejected or cut before; a rejected one takes just its incomplete containers with it
\* (load_layout.c:746-754); and marks go to the containers they are written in, or are
\* forgotten by the next key "marks".
THEOREM LayoutsWhole == LayoutSpec => []LayoutsAreWhole
<1>1. LayoutInv /\ [LayoutNext]_layoutVars => LayoutInv'
  BY LayoutStep
<1>2. QED
  BY <1>1, LayoutStarts, ReadIsWhole, PTL DEF LayoutSpec

-----------------------------------------------------------------------------
(* Startup notification.  The counts of ContextsAreCounted are no use in an *)
(* induction: that an application has at most one sequence and one timeout  *)
(* is what makes "one less" the count after either of them has gone.        *)


Timed(i) == {t \in timers : t.id = i}
StartupSequences == [id : Ids, ws : Spaces, deleteAt : Nat]

StartupTypes ==
    /\ now \in Nat
    /\ seqs \subseteq StartupSequences
    /\ timers \subseteq [id : Ids, at : Nat]
    /\ focus \in Spaces
    /\ home \in [Ids -> Spaces \cup {Gone, "moved"}]
    /\ ref \in [Ids -> Int]

\* At most one of each, and none of an application that was not started
OneEach ==
    /\ \A s, r \in seqs : s.id = r.id => s = r
    /\ \A t, u \in timers : t.id = u.id => t = u
    /\ \A i \in Ids : home[i] = Gone => Named(i) = {} /\ Timed(i) = {}

Counted(i) == (IF Named(i) = {} THEN 0 ELSE 1) + (IF Timed(i) = {} THEN 0 ELSE 1)

StartupInv ==
    /\ StartupTypes /\ OneEach /\ OpensAtHome
    /\ faults = {} /\ \A i \in Ids : ref[i] = Counted(i)

-----------------------------------------------------------------------------
LEMMA StartupInitOK == ASSUME StartupInit PROVE StartupInv
  BY DEF StartupInit, StartupInv, StartupTypes, OneEach, OpensAtHome, Counted, Named, Timed, Gone

LEMMA StartApplicationOK ==
    ASSUME StartupInv, NEW i \in Ids, StartApplication(i)
    PROVE  StartupInv'
<1> DEFINE s == [id |-> i, ws |-> focus, deleteAt |-> 0]
           t == [id |-> i, at |-> now + Start]
<1>1. /\ seqs' = seqs \cup {s} /\ timers' = timers \cup {t} /\ ref' = [ref EXCEPT ![i] = 2]
      /\ home' = [home EXCEPT ![i] = focus] /\ UNCHANGED <<now, focus, faults>>
      /\ home[i] = Gone
  BY DEF StartApplication, Refs
<1>2. s \in StartupSequences /\ t \in [id : Ids, at : Nat] /\ s.id = i /\ t.id = i /\ s.ws = focus
  BY StartupAssumption DEF StartupInv, StartupTypes, StartupSequences
<1>3. Named(i) = {} /\ Timed(i) = {} /\ focus \in Spaces /\ focus # Gone
  BY <1>1, StartupAssumption DEF StartupInv, OneEach, StartupTypes, Gone
<1> HIDE DEF s, t
<1>4. StartupTypes'
  BY <1>1, <1>2 DEF StartupInv, StartupTypes
<1>5. OneEach'
  BY <1>1, <1>2, <1>3 DEF StartupInv, StartupTypes, OneEach, Named, Timed
<1>6. OpensAtHome'
  BY <1>1, <1>2, <1>3 DEF StartupInv, StartupTypes, OpensAtHome, Named, StartupSequences
<1>7. ASSUME NEW j \in Ids PROVE ref'[j] = Counted(j)'
  <2>1. CASE j = i
    BY <2>1, <1>1, <1>2 DEF StartupInv, StartupTypes, Counted, Named, Timed
  <2>2. CASE j # i
    <3>1. Named(j)' = Named(j) /\ Timed(j)' = Timed(j)
      BY <2>2, <1>1, <1>2 DEF Named, Timed
    <3>2. QED
      BY <2>2, <3>1, <1>1 DEF StartupInv, StartupTypes, Counted
  <2>3. QED
    BY <2>1, <2>2
<1>8. QED
  BY <1>1, <1>4, <1>5, <1>6, <1>7 DEF StartupInv

\* A timeout releases the context that it holds: nobody has freed it.
LEMMA StartupTimeoutOK ==
    ASSUME StartupInv, NEW t \in timers, StartupTimeout(t)
    PROVE  StartupInv'
<1>1. t.id \in Ids /\ t \in Timed(t.id)
  BY DEF StartupInv, StartupTypes, Timed
<1>2. ref[t.id] = (IF Named(t.id) = {} THEN 0 ELSE 1) + 1
  BY <1>1 DEF StartupInv, Counted
<1>3. faults' = {} /\ ref' = [ref EXCEPT ![t.id] = @ - 1] /\ timers' = timers \ {t}
      /\ UNCHANGED <<now, seqs, focus, home>>
  BY <1>2 DEF StartupTimeout, StartupInv, StartupTypes
<1>4. StartupTypes' /\ OpensAtHome'
  BY <1>1, <1>3 DEF StartupInv, StartupTypes, OpensAtHome
<1>5. OneEach'
  BY <1>3 DEF StartupInv, OneEach, Named, Timed
<1>6. Timed(t.id)' = {} /\ \A j \in Ids : j # t.id => Timed(j)' = Timed(j)
  BY <1>3 DEF StartupInv, OneEach, Timed
<1>7. \A j \in Ids : Named(j)' = Named(j)
  BY <1>3 DEF Named
<1>8. ASSUME NEW j \in Ids PROVE ref'[j] = Counted(j)'
  BY <1>1, <1>2, <1>3, <1>6, <1>7 DEF StartupInv, StartupTypes, Counted
<1>9. QED
  BY <1>3, <1>4, <1>5, <1>8 DEF StartupInv

\* startup_sequence_delete of sequences that are there
LEMMA DeletedAreLet ==
    ASSUME StartupInv, NEW D \in SUBSET seqs, seqs' = seqs \ D, ref' = Without(ref, D), timers' = timers
    PROVE  /\ ref' \in [Ids -> Int]
           /\ \A j \in Ids : ref'[j] = Counted(j)'
<1>1. ref' = [j \in Ids |-> IF \E s \in D : s.id = j THEN ref[j] - 1 ELSE ref[j]]
  BY DEF Without
<1>2. ASSUME NEW j \in Ids PROVE ref'[j] = Counted(j)'
  <2>1. Timed(j)' = Timed(j)
    BY DEF Timed
  <2>2. CASE \E s \in D : s.id = j
    <3>1. Named(j) # {} /\ Named(j)' = {}
      BY <2>2 DEF StartupInv, OneEach, Named
    <3>2. QED
      BY <1>1, <2>1, <2>2, <3>1 DEF StartupInv, StartupTypes, Counted
  <2>3. CASE ~\E s \in D : s.id = j
    <3>1. Named(j)' = Named(j)
      BY <2>3 DEF Named
    <3>2. QED
      BY <1>1, <2>1, <2>3, <3>1 DEF StartupInv, StartupTypes, Counted
  <2>4. QED
    BY <2>2, <2>3
<1>3. QED
  BY <1>1, <1>2 DEF StartupInv, StartupTypes

\* The sequences with other times and names, and the same applications
LEMMA RewrittenSeqs ==
    ASSUME StartupInv, NEW f, f \in [seqs -> StartupSequences],
           \A s \in seqs : f[s].id = s.id,
           seqs' = {f[s] : s \in seqs}, UNCHANGED <<ref, timers>>
    PROVE  /\ \A s, r \in seqs' : s.id = r.id => s = r
           /\ \A j \in Ids : (Named(j)' = {} <=> Named(j) = {}) /\ ref'[j] = Counted(j)'
<1>1. \A s, r \in seqs' : s.id = r.id => s = r
  BY DEF StartupInv, OneEach
<1>2. \A j \in Ids : Named(j)' = {} <=> Named(j) = {}
  BY DEF Named
<1>3. \A j \in Ids : Timed(j)' = Timed(j)
  BY DEF Timed
<1>4. QED
  BY <1>1, <1>2, <1>3 DEF StartupInv, Counted

LEMMA MonitorEventOK == ASSUME StartupInv, MonitorEvent PROVE StartupInv'
<1> DEFINE i == Head(messages)
           f == [s \in seqs |-> IF s.id = i THEN [s EXCEPT !.deleteAt = now + Grace] ELSE s]
           S == {f[s] : s \in seqs}
<1>1. UNCHANGED <<now, timers, focus, home, faults>>
  BY DEF MonitorEvent
<1>2. CASE Named(i) = {}
  <2>1. UNCHANGED <<seqs, ref>>
    BY <1>2 DEF MonitorEvent
  <2>2. QED
    BY <1>1, <2>1 DEF StartupInv, StartupTypes, OneEach, OpensAtHome, Counted, Named, Timed
<1>3. CASE Named(i) # {}
  <2>1. seqs' = S \ Pruned(S) /\ ref' = Without(ref, Pruned(S))
    BY <1>3 DEF MonitorEvent
  <2>2. ASSUME NEW s \in seqs
        PROVE  f[s] \in StartupSequences /\ f[s].id = s.id /\ f[s].ws = s.ws
    BY StartupAssumption DEF StartupInv, StartupTypes, StartupSequences
  <2> HIDE DEF f
  <2>3. /\ S \subseteq StartupSequences
        /\ \A s, r \in S : s.id = r.id => s = r
        /\ \A s \in S : s.ws = home[s.id]
        /\ \A j \in Ids : Named(j) = {} <=> {s \in S : s.id = j} = {}
    BY <2>2 DEF StartupInv, OneEach, OpensAtHome, Named
  <2> HIDE DEF S
  <2>4. Pruned(S) \subseteq S
    BY DEF Pruned
  <2>5. ASSUME NEW j \in Ids PROVE ref'[j] = Counted(j)'
    <3>1. ref'[j] = IF \E s \in Pruned(S) : s.id = j THEN ref[j] - 1 ELSE ref[j]
      BY <2>1 DEF Without
    <3>2. Timed(j)' = Timed(j)
      BY <1>1 DEF Timed
    <3>3. Named(j)' = {} <=> Named(j) = {} \/ \E s \in Pruned(S) : s.id = j
      BY <2>1, <2>3, <2>4 DEF Named
    <3>4. (\E s \in Pruned(S) : s.id = j) => Named(j) # {}
      BY <2>3, <2>4
    <3>5. QED
      BY <3>1, <3>2, <3>3, <3>4 DEF StartupInv, StartupTypes, Counted
  <2>6. ref' \in [Ids -> Int]
    BY <2>1 DEF Without, StartupInv, StartupTypes
  <2>7. StartupTypes' /\ OpensAtHome'
    BY <1>1, <2>1, <2>3, <2>6 DEF StartupInv, StartupTypes, OpensAtHome
  <2>8. \A j \in Ids : Named(j) = {} => Named(j)' = {}
    BY <2>1, <2>3 DEF Named
  <2>9. OneEach'
    BY <1>1, <2>1, <2>3, <2>8 DEF StartupInv, OneEach, Timed
  <2>10. QED
    BY <1>1, <2>5, <2>7, <2>9 DEF StartupInv
<1>4. QED
  BY <1>2, <1>3

\* A sequence whose time is over, or whose window moved, is deleted.
LEMMA DeleteOK ==
    ASSUME StartupInv, NEW w \in Apps, Delete(SequenceGet(w)), UNCHANGED <<now, timers, focus, faults>>,
           \/ home' = home
           \/ SequenceGet(w) # {} /\ home' = [home EXCEPT ![IdOf[w]] = "moved"]
    PROVE  StartupInv'
<1>1. SequenceGet(w) \in SUBSET seqs /\ IdOf[w] \in Ids /\ SequenceGet(w) = Named(IdOf[w])
  BY StartupAssumption DEF SequenceGet, Named
<1>2. seqs' = seqs \ SequenceGet(w) /\ ref' = Without(ref, SequenceGet(w)) /\ timers' = timers
  BY DEF Delete
<1>3. ref' \in [Ids -> Int] /\ \A j \in Ids : ref'[j] = Counted(j)'
  BY <1>1, <1>2, DeletedAreLet
<1>4. StartupTypes'
  BY <1>1, <1>2, <1>3 DEF StartupInv, StartupTypes
<1>5. OneEach'
  BY <1>1, <1>2 DEF StartupInv, StartupTypes, OneEach, Named, Timed, Gone
<1>6. ASSUME NEW s \in seqs' PROVE s.ws = home'[s.id]
  <2>1. s \in seqs /\ s.id # IdOf[w] /\ s.id \in Ids
    BY <1>1, <1>2 DEF StartupInv, StartupTypes, StartupSequences, Named
  <2>2. home'[s.id] = home[s.id]
    BY <2>1 DEF StartupInv, StartupTypes
  <2>3. QED
    BY <2>1, <2>2 DEF StartupInv, OpensAtHome
<1>7. QED
  BY <1>3, <1>4, <1>5, <1>6 DEF StartupInv, OpensAtHome

LEMMA OpenWindowOK == ASSUME StartupInv, NEW w \in Apps, OpenWindow(w) PROVE StartupInv'
<1>1. UNCHANGED <<now, timers, focus, home, faults>>
  BY DEF OpenWindow
<1>2. CASE Delete(SequenceGet(w))
  BY <1>1, <1>2, DeleteOK
<1>3. CASE UNCHANGED <<seqs, ref>>
  BY <1>1, <1>3 DEF StartupInv, StartupTypes, OneEach, OpensAtHome, Counted, Named, Timed
<1>4. QED
  BY <1>2, <1>3 DEF OpenWindow

LEMMA MoveWindowOK == ASSUME StartupInv, NEW w \in Apps, NEW s \in Spaces, MoveWindow(w, s) PROVE StartupInv'
<1>1. Delete(SequenceGet(w)) /\ UNCHANGED <<now, timers, focus, faults>>
  BY DEF MoveWindow
<1>2. home' = [home EXCEPT ![IdOf[w]] = IF SequenceGet(w) # {} THEN "moved" ELSE @]
  BY DEF MoveWindow
<1>3. SequenceGet(w) = {} => home' = home
  BY <1>2, StartupAssumption DEF StartupInv, StartupTypes
<1>4. QED
  BY <1>1, <1>2, <1>3, DeleteOK

\* A sequence and the home of its application get the same new name.
LEMMA RenameWorkspaceOK ==
    ASSUME StartupInv, NEW a \in Spaces, NEW b \in Spaces, RenameWorkspace(a, b)
    PROVE  StartupInv'
<1> DEFINE f == [s \in seqs |-> [s EXCEPT !.ws = NewName(@, a, b)]]
<1>1. /\ seqs' = {f[s] : s \in seqs} /\ focus' = NewName(focus, a, b)
      /\ home' = [i \in Ids |-> NewName(home[i], a, b)] /\ UNCHANGED <<now, ref, timers, faults>>
  BY DEF RenameWorkspace
<1>2. ASSUME NEW s \in seqs
      PROVE  f[s] \in StartupSequences /\ f[s].id = s.id /\ f[s].ws = NewName(s.ws, a, b)
  BY DEF StartupInv, StartupTypes, StartupSequences, NewName
<1>3. f \in [seqs -> StartupSequences]
  BY <1>2
<1> HIDE DEF f
<1>4. /\ \A s, r \in seqs' : s.id = r.id => s = r
      /\ \A j \in Ids : (Named(j)' = {} <=> Named(j) = {}) /\ ref'[j] = Counted(j)'
  BY <1>1, <1>2, <1>3, RewrittenSeqs
<1>5. StartupTypes'
  BY <1>1, <1>2 DEF StartupInv, StartupTypes, NewName
<1>6. \A i \in Ids : home'[i] = Gone <=> home[i] = Gone
  BY <1>1, StartupAssumption DEF StartupInv, StartupTypes, NewName, Gone
<1>7. OneEach'
  BY <1>1, <1>4, <1>6 DEF StartupInv, OneEach, Timed
<1>8. OpensAtHome'
  BY <1>1, <1>2 DEF StartupInv, StartupTypes, OpensAtHome, StartupSequences
<1>9. QED
  BY <1>1, <1>4, <1>5, <1>7, <1>8 DEF StartupInv

\* The steps that leave the sequences, the timeouts and the counts alone
LEMMA OthersOK ==
    ASSUME StartupInv, UNCHANGED <<seqs, ref, timers, home, faults>>, now' \in Nat, focus' \in Spaces
    PROVE  StartupInv'
  BY DEF StartupInv, StartupTypes, OneEach, OpensAtHome, Counted, Named, Timed

LEMMA StartupStepOK == ASSUME StartupInv, [StartupNext]_startupVars PROVE StartupInv'
<1>1. now \in Nat /\ focus \in Spaces
  BY DEF StartupInv, StartupTypes
<1>2. CASE Tick
  BY <1>1, <1>2, OthersOK DEF Tick
<1>3. CASE MonitorEvent
  BY <1>3, MonitorEventOK
<1>4. CASE \E t \in timers : StartupTimeout(t)
  BY <1>4, StartupTimeoutOK
<1>5. CASE \E i \in Ids : StartApplication(i) \/ Completes(i)
  BY <1>1, <1>5, StartApplicationOK, OthersOK DEF Completes
<1>6. CASE \E w \in Apps : OpenWindow(w) \/ \E s \in Spaces : MoveWindow(w, s)
  BY <1>6, OpenWindowOK, MoveWindowOK
<1>7. CASE \E s \in Spaces : FocusWorkspace(s) \/ \E r \in Spaces : RenameWorkspace(s, r)
  BY <1>1, <1>7, RenameWorkspaceOK, OthersOK DEF FocusWorkspace
<1>8. CASE UNCHANGED startupVars
  BY <1>1, <1>8, OthersOK DEF startupVars
<1>9. QED
  BY <1>2, <1>3, <1>4, <1>5, <1>6, <1>7, <1>8 DEF StartupNext

\* A set of at most one element has as many as the counts say.
LEMMA CountIsCardinality ==
    ASSUME StartupInv, NEW i \in Ids
    PROVE  Counted(i) = Cardinality(Named(i)) + Cardinality(Timed(i))
<1>1. ASSUME NEW S, \A u, v \in S : u = v
      PROVE  Cardinality(S) = IF S = {} THEN 0 ELSE 1
  <2>1. S = {} \/ \E u \in S : S = {u}
    BY <1>1
  <2>2. QED
    BY <2>1, FS_EmptySet, FS_Singleton
<1>2. \A u, v \in Named(i) : u = v
  BY DEF StartupInv, OneEach, Named
<1>3. \A u, v \in Timed(i) : u = v
  BY DEF StartupInv, OneEach, Timed
<1>4. /\ Cardinality(Named(i)) = IF Named(i) = {} THEN 0 ELSE 1
      /\ Cardinality(Timed(i)) = IF Timed(i) = {} THEN 0 ELSE 1
  BY <1>1, <1>2, <1>3
<1>5. QED
  BY <1>4 DEF Counted

\* However timeouts, completions, expired sequences and moved windows follow each
\* other, a launcher context is unreferenced once for the sequence and once for the
\* timeout, never after it was freed, and a sequence that lives names the workspace
\* its application was started on (startup.c:34, 98, 164, 277).
THEOREM StartupIsSound == StartupSpec => []StartupSound
<1>1. StartupInit => StartupInv
  BY StartupInitOK
<1>2. StartupInv /\ [StartupNext]_startupVars => StartupInv'
  BY StartupStepOK
<1>3. StartupInv => StartupSound
  BY CountIsCardinality DEF StartupInv, StartupSound, ContextsAreCounted, Timed
<1>4. QED
  BY <1>1, <1>2, <1>3, PTL DEF StartupSpec

-----------------------------------------------------------------------------
(* Icons: FoldLeft(Keep, ...)                                               *)

Sizes == [w : Nat \ {0}, h : Nat \ {0}]
KeptSizes == [w : Nat, h : Nat]
KeepFunction == [p \in KeptSizes \X Sizes |-> Keep(p[1], p[2])]

LEMMA KeepTypes == ASSUME NEW a \in KeptSizes, NEW i \in Sizes PROVE Keep(a, i) \in KeptSizes
<1>1. i \in KeptSizes
  BY DEF KeptSizes, Sizes
<1>2. QED
  BY <1>1 DEF Keep, Prefer

LEMMA IconsFold ==
    ASSUME NEW base \in KeptSizes, NEW q \in Seq(Sizes)
    PROVE  \E iter :
              /\ FoldLeft(Keep, base, q) = iter[1 .. Len(q)]
              /\ iter[1 .. 0] = base
              /\ \A k \in 1 .. Len(q) : iter[1 .. k] = Keep(iter[1 .. k - 1], q[k])
<1> DEFINE n == Len(q)
           Is(iter) == iter = [s \in SUBSET (1 .. n) |->
                                 IF s = {} THEN base ELSE Keep(iter[s \ {Max(s)}], q[Max(s)])]
<1>1. n \in Nat /\ DOMAIN q = 1 .. n
  OBVIOUS
<1>2. KeepFunction \in [KeptSizes \X Sizes -> KeptSizes]
  BY KeepTypes DEF KeepFunction
<1>3. PICK g \in [SUBSET (1 .. Len(q)) -> KeptSizes] : Folds(g, KeepFunction, base, q, Len(q))
  <2> HIDE DEF n
  <2>1. QED
    BY <1>1, <1>2, FoldExists
<1>4. ASSUME NEW s \in SUBSET (1 .. n), s # {}
      PROVE  g[s] = Keep(g[s \ {Max(s)}], q[Max(s)])
  <2>1. g[s] = KeepFunction[g[s \ {Max(s)}], q[Max(s)]]
    BY <1>3, <1>4, Zenon DEF Folds
  <2>2. Max(s) \in 1 .. n
    BY <1>1, <1>4, MaxOfSet
  <2>3. s \ {Max(s)} \in SUBSET (1 .. n)
    OBVIOUS
  <2>4. g[s \ {Max(s)}] \in KeptSizes /\ q[Max(s)] \in Sizes
    BY <1>1, <1>3, <2>2, <2>3
  <2>5. QED
    BY <2>1, <2>4 DEF KeepFunction
<1>5. Is(g)
  BY <1>3, <1>4 DEF Folds
<1> DEFINE h == CHOOSE iter : Is(iter)
<1>6. Is(h)
  <2> HIDE DEF Is
  <2>1. QED
    BY <1>5
<1>7. FoldLeft(Keep, base, q) = h[1 .. n]
  BY <1>1 DEF FoldLeft, MapThenFoldSet
<1>8. h[1 .. 0] = base
  <2>1. 1 .. 0 = {} /\ {} \in SUBSET (1 .. n)
    OBVIOUS
  <2>2. QED
    BY <1>6, <2>1
<1>9. ASSUME NEW k \in 1 .. n PROVE h[1 .. k] = Keep(h[1 .. k - 1], q[k])
  <2>1. 1 .. k # {} /\ Max(1 .. k) = k /\ (1 .. k) \ {k} = 1 .. k - 1 /\ 1 .. k \in SUBSET (1 .. n)
    BY MaxOfInterval, <1>1
  <2>2. QED
    BY <1>6, <2>1
<1>10. QED
  <2> HIDE DEF h
  <2>1. QED
    BY <1>7, <1>8, <1>9

\* The icon that was kept is the one the comment asks for, of the first k.
Best(kept, s, k) ==
    /\ \E i \in 1 .. k : kept = s[i]
    /\ \A i \in 1 .. k :
         /\ LargeEnough(s[i]) => LargeEnough(kept) /\ kept.w <= s[i].w
         /\ ~LargeEnough(kept) => s[i].w <= kept.w

LEMMA KeepsBest ==
    ASSUME NEW s \in Seq(Sizes), \A i \in 1 .. Len(s) : s[i].w = s[i].h,
           NEW k \in 1 .. Len(s), NEW kept,
           IF k = 1 THEN kept = NoIcon ELSE Best(kept, s, k - 1)
    PROVE  Best(Keep(kept, s[k]), s, k)
<1>1. Len(s) \in Nat /\ PrefSize \in Nat \ {0}
  BY IconAssumption
<1>2. ASSUME NEW i \in 1 .. Len(s)
      PROVE  /\ s[i] \in Sizes /\ s[i].w \in Nat \ {0} /\ s[i].h = s[i].w
             /\ LargeEnough(s[i]) <=> s[i].w >= PrefSize
             /\ s[i] # NoIcon
  <2>1. s[i] \in Sizes
    OBVIOUS
  <2>2. s[i].w \in Nat \ {0} /\ s[i].h = s[i].w
    BY <2>1 DEF Sizes
  <2>3. QED
    BY <2>1, <2>2, <1>1 DEF LargeEnough, NoIcon
<1>3. CASE k = 1
  <2>1. Keep(kept, s[k]) = s[k]
    BY <1>1, <1>3 DEF Keep, Prefer, Exact, NoIcon
  <2>2. QED
    BY <1>2, <1>3, <2>1 DEF Best
<1>4. CASE k # 1
  <2>1. PICK j \in 1 .. k - 1 : kept = s[j]
    BY <1>4 DEF Best
  <2>2. j \in 1 .. Len(s)
    BY <1>1
  <2>3. \A i \in 1 .. k - 1 : i \in 1 .. Len(s) /\ (LargeEnough(s[i]) => LargeEnough(kept) /\ kept.w <= s[i].w)
                              /\ (~LargeEnough(kept) => s[i].w <= kept.w)
    BY <1>1, <1>4 DEF Best
  <2>4. /\ Smaller(s[k], kept) <=> s[k].w < kept.w
        /\ Smaller(kept, s[k]) <=> kept.w < s[k].w
        /\ Exact(kept) <=> kept.w = PrefSize
        /\ kept # NoIcon
    BY <1>2, <2>1, <2>2 DEF Smaller, Exact
  <2>5. Keep(kept, s[k]) = IF \/ LargeEnough(s[k]) /\ (s[k].w < kept.w \/ ~LargeEnough(kept))
                              \/ ~LargeEnough(s[k]) /\ ~LargeEnough(kept) /\ kept.w < s[k].w
                           THEN s[k] ELSE kept
    BY <1>1, <1>2, <2>1, <2>2, <2>4 DEF Keep, Prefer
  <2>6. ASSUME NEW i \in 1 .. k, i # k PROVE i \in 1 .. k - 1
    BY <2>6
  <2>7. CASE \/ LargeEnough(s[k]) /\ (s[k].w < kept.w \/ ~LargeEnough(kept))
             \/ ~LargeEnough(s[k]) /\ ~LargeEnough(kept) /\ kept.w < s[k].w
    <3>1. Keep(kept, s[k]) = s[k] /\ k \in 1 .. k
      BY <2>5, <2>7
    <3>2. ASSUME NEW i \in 1 .. k
          PROVE  /\ LargeEnough(s[i]) => LargeEnough(s[k]) /\ s[k].w <= s[i].w
                 /\ ~LargeEnough(s[k]) => s[i].w <= s[k].w
      <4>1. CASE i = k
        BY <4>1, <1>2
      <4>2. CASE i # k
        BY <4>2, <1>1, <1>2, <2>1, <2>2, <2>3, <2>6, <2>7
      <4>3. QED
        BY <4>1, <4>2
    <3>3. QED
      BY <3>1, <3>2 DEF Best
  <2>8. CASE ~(\/ LargeEnough(s[k]) /\ (s[k].w < kept.w \/ ~LargeEnough(kept))
               \/ ~LargeEnough(s[k]) /\ ~LargeEnough(kept) /\ kept.w < s[k].w)
    <3>1. Keep(kept, s[k]) = kept /\ j \in 1 .. k
      BY <2>5, <2>8
    <3>2. ASSUME NEW i \in 1 .. k
          PROVE  /\ LargeEnough(s[i]) => LargeEnough(kept) /\ kept.w <= s[i].w
                 /\ ~LargeEnough(kept) => s[i].w <= kept.w
      <4>1. CASE i = k
        BY <4>1, <1>2, <2>1, <2>2, <2>8
      <4>2. CASE i # k
        BY <4>2, <2>3, <2>6
      <4>3. QED
        BY <4>1, <4>2
    <3>3. QED
      BY <3>1, <3>2, <2>1 DEF Best
  <2>9. QED
    BY <2>7, <2>8
<1>5. QED
  BY <1>3, <1>4

LEMMA UpdateIconBest ==
    ASSUME NEW s \in Seq(Sizes), s # <<>>, \A i \in 1 .. Len(s) : s[i].w = s[i].h
    PROVE  Best(UpdateIcon(s), s, Len(s))
<1>1. NoIcon \in KeptSizes /\ Len(s) \in Nat \ {0}
  BY DEF NoIcon, KeptSizes
<1>2. PICK iter : /\ FoldLeft(Keep, NoIcon, s) = iter[1 .. Len(s)]
                  /\ iter[1 .. 0] = NoIcon
                  /\ \A k \in 1 .. Len(s) : iter[1 .. k] = Keep(iter[1 .. k - 1], s[k])
  BY <1>1, IconsFold
<1> DEFINE Good == {k \in 0 .. Len(s) : IF k = 0 THEN iter[1 .. k] = NoIcon ELSE Best(iter[1 .. k], s, k)}
<1>3. 0 \in Good
  BY <1>1, <1>2
<1>4. ASSUME NEW k \in 1 .. Len(s), k - 1 \in Good PROVE k \in Good
  <2>1. IF k = 1 THEN iter[1 .. k - 1] = NoIcon ELSE Best(iter[1 .. k - 1], s, k - 1)
    BY <1>4
  <2>2. Best(Keep(iter[1 .. k - 1], s[k]), s, k)
    BY <2>1, KeepsBest
  <2>3. Best(iter[1 .. k], s, k)
    BY <1>2, <2>2
  <2>4. QED
    BY <1>1, <2>3
<1>5. Len(s) \in Good
  <2> HIDE DEF Good
  <2>1. \A k \in 0 .. Len(s) : k \in Good
    BY <1>1, <1>3, <1>4, UpTo
  <2>2. QED
    BY <1>1, <2>1
<1>6. QED
  BY <1>1, <1>2, <1>5 DEF UpdateIcon

\* Of square icons, the one that is drawn is the one the comment in
\* window_update_icon() promises, in whatever order a client offers them.
THEOREM IconIsChosen == IconSpec => []IconAsSaid
<1> DEFINE Inv == icons \in IconLists
<1>1. Inv => IconAsSaid
  <2> SUFFICES ASSUME icons \in IconLists, icons # <<>>, \A i \in ToSet(icons) : i.w = i.h
               PROVE  LET chosen == UpdateIcon(icons)
                          large == {i \in ToSet(icons) : LargeEnough(i)}
                      IN /\ chosen \in ToSet(icons)
                         /\ IF large # {} THEN chosen \in large /\ \A i \in large : chosen.w <= i.w
                            ELSE \A i \in ToSet(icons) : i.w <= chosen.w
    BY DEF IconAsSaid
  <2>1. icons \in Seq(Sizes)
    BY IconAssumption DEF Sizes
  <2>2. ToSet(icons) = {icons[i] : i \in 1 .. Len(icons)}
    BY <2>1 DEF ToSet
  <2>3. PICK chosen : chosen = UpdateIcon(icons)
    OBVIOUS
  <2>4. Best(chosen, icons, Len(icons))
    <3>1. \A i \in 1 .. Len(icons) : icons[i].w = icons[i].h
      BY <2>2
    <3>2. QED
      BY <2>1, <2>3, <3>1, UpdateIconBest
  <2>5. chosen \in ToSet(icons)
    BY <2>2, <2>4 DEF Best
  <2>6. \A i \in ToSet(icons) : /\ LargeEnough(i) => LargeEnough(chosen) /\ chosen.w <= i.w
                                /\ ~LargeEnough(chosen) => i.w <= chosen.w
    BY <2>2, <2>4 DEF Best
  <2>7. QED
    BY <2>3, <2>5, <2>6
<1>2. IconInit => Inv
  BY DEF IconInit
<1>3. Inv /\ [IconNext]_iconVars => Inv'
  BY DEF IconNext, iconVars
<1>4. QED
  BY <1>1, <1>2, <1>3, PTL DEF IconSpec

-----------------------------------------------------------------------------
(* Key bindings.  What i3 has (keymap, group, translated and grabbed keys) and *)
(* what the server has agree but for the events that are in between, so the    *)
(* invariant speaks of the events in the queue and of their order.             *)

(* Key bindings: the first of a set of them                                *)

\* What the loop of get_binding() stops at
LEMMA LeastIsFirst ==
    ASSUME NEW S \in SUBSET (Nat \ {0})
    PROVE  /\ Least(S) = 0 <=> S = {}
           /\ S # {} => Least(S) \in S /\ \A y \in S : Least(S) <= y
<1>1. ASSUME S # {} PROVE Min(S) \in S /\ \A y \in S : Min(S) <= y
  BY <1>1, LeastExists DEF Min
<1>2. QED
  BY <1>1 DEF Least

-----------------------------------------------------------------------------
(* Sorting: the place of a binding is the number of those before it *)

Ordered(s) == \A i, j \in DOMAIN s : i < j => Mask(s[i]) >= Mask(s[j])

LEMMA MaskIsNat ==
    ASSUME NEW b, b.group \in 0 .. 4
    PROVE  Mask(b) \in Nat
  BY DEF Mask, GroupMask

\* reorder_bindings_of_mode() keeps the bindings and orders them by their masks.
LEMMA Reordered ==
    ASSUME NEW s, Len(s) \in Nat, DOMAIN s = 1 .. Len(s), \A i \in DOMAIN s : s[i].group \in 0 .. 4
    PROVE  LET r == ReorderBindings(s)
           IN /\ DOMAIN r = DOMAIN s /\ Ordered(r)
              /\ \A p \in DOMAIN r : \E i \in DOMAIN s : r[p] = s[i]
<1> DEFINE D == DOMAIN s
           before(i) == {j \in D : Precedes(s, j, i)}
           placeOf == [i \in D |-> Place(s, i)]
<1>1. \A i \in D : Mask(s[i]) \in Nat
  BY MaskIsNat
<1>2. IsFiniteSet(D) /\ Cardinality(D) = Len(s)
  BY FS_Interval
<1>3. ASSUME NEW i \in D, NEW j \in D, Precedes(s, i, j)
      PROVE  Place(s, i) < Place(s, j)
  <2>1. before(i) \subseteq before(j) /\ i \in before(j) /\ i \notin before(i)
    BY <1>1, <1>3 DEF Precedes
  <2>2. IsFiniteSet(before(j)) /\ before(i) # before(j)
    BY <1>2, <2>1, FS_Subset
  <2>3. /\ IsFiniteSet(before(i)) /\ Cardinality(before(i)) <= Cardinality(before(j))
        /\ Cardinality(before(i)) # Cardinality(before(j))
    BY <2>1, <2>2, FS_Subset
  <2>4. Cardinality(before(i)) \in Nat /\ Cardinality(before(j)) \in Nat
    BY <2>2, <2>3, FS_CardinalityType
  <2>5. QED
    BY <2>3, <2>4 DEF Place
<1>4. \A i, j \in D : i = j \/ Precedes(s, i, j) \/ Precedes(s, j, i)
  BY <1>1 DEF Precedes
<1>5. ASSUME NEW i \in D PROVE Place(s, i) \in D
  <2>1. before(i) \subseteq D \ {i} /\ D \ {i} \subseteq D
    BY <1>1 DEF Precedes
  <2>2. IsFiniteSet(D \ {i}) /\ Cardinality(D \ {i}) = Len(s) - 1
    BY <1>2, FS_RemoveElement
  <2>3. IsFiniteSet(before(i)) /\ Cardinality(before(i)) <= Len(s) - 1
    BY <2>1, <2>2, FS_Subset
  <2>4. Cardinality(before(i)) \in Nat
    BY <2>3, FS_CardinalityType
  <2>5. QED
    BY <2>3, <2>4 DEF Place
<1>6. ASSUME NEW i \in D, NEW j \in D, Place(s, i) = Place(s, j) PROVE i = j
  <2>1. Place(s, i) \in Int
    BY <1>5
  <2>2. QED
    BY <1>3, <1>4, <1>6, <2>1
<1>7. ASSUME NEW p \in D PROVE \E i \in D : Place(s, i) = p
  <2>1. placeOf \in Injection(D, D)
    BY <1>5, <1>6 DEF Injection, IsInjective
  <2>2. placeOf \in Surjection(D, D)
    BY <1>2, <2>1, FS_Injection
  <2>3. QED
    BY <2>2 DEF Surjection
<1> HIDE DEF D
<1> DEFINE r == ReorderBindings(s)
           at(p) == CHOOSE i \in D : Place(s, i) = p
<1>8. \A p \in D : at(p) \in D /\ Place(s, at(p)) = p
  BY <1>7
<1>9. DOMAIN r = D /\ \A p \in D : r[p] = s[at(p)]
  BY DEF ReorderBindings, D
<1>10. ASSUME NEW p \in D, NEW q \in D, p < q PROVE Mask(r[p]) >= Mask(r[q])
  <2> DEFINE i == at(p)
             j == at(q)
  <2>1. i \in D /\ j \in D /\ Place(s, i) = p /\ Place(s, j) = q
    BY <1>8
  <2>2. p \in Int /\ q \in Int
    BY DEF D
  <2> HIDE DEF i, j
  <2>3. Precedes(s, i, j)
    BY <1>3, <1>4, <1>10, <2>1, <2>2
  <2>4. Mask(s[i]) >= Mask(s[j])
    BY <1>1, <2>1, <2>3 DEF Precedes
  <2>5. QED
    BY <1>9, <2>4 DEF i, j
<1>11. QED
  BY <1>8, <1>9, <1>10 DEF Ordered, D

-----------------------------------------------------------------------------
(* The invariant *)

Queued ==
    [type : {"press", "release"}, key : KeyCodes \cup {ModKey}, mods : SUBSET {"shift", "num"}, group : Groups \cup {1}]
      \cup [type : {"state"}, group : Groups \cup {1}]
      \cup [type : {"new_keyboard", "same_keycodes", "mapping"}] \cup [type : {"map"}, seen : BOOLEAN]

BindingsTypes ==
    /\ modes \in {ModesOf(f) : f \in Files} /\ mode \in DOMAIN modes
    /\ events \in Seq(Queued)
    /\ server \in [keymap : KeyMaps, group : Groups \cup {1}, how : HowAnnounced, told : BOOLEAN]
    /\ typing \in [down : SUBSET KeyCodes, mods : SUBSET {"shift", "num"}, active : KeyCodes \cup {ModKey}]
    /\ announced \in BOOLEAN

Is(i, type) == events[i].type = type
NoneOf(type) == \A i \in DOMAIN events : ~Is(i, type)
Later(i, type) == \E j \in DOMAIN events : j > i /\ Is(j, type)

\* The last report of the group that is queued is the server's; there is one unless i3
\* has the server's group, or has not been told of any.
GroupReported ==
    /\ NoneOf("state") => group = IF server.told THEN server.group ELSE 1
    /\ ~server.told => NoneOf("state")
    /\ \A i \in DOMAIN events : Is(i, "state") /\ ~Later(i, "state") => events[i].group = server.group

\* A new keymap is queued after every MapNotify, which translates the keys by the old one,
\* unless i3 has translated them by the server's.
KeymapReported ==
    server.how = "new_keyboard" =>
      /\ NoneOf("new_keyboard") => keymap = server.keymap /\ codes = TranslateKeysyms(keymap, modes[mode])
      /\ \A i \in DOMAIN events : Is(i, "map") => Later(i, "new_keyboard")

GrabsFollow == grabs = GrabsFor(modes[mode], codes, group)
MarksFollow == \A j \in Nat : <<mode, j>> \in ignoreMods => j \in lastPress

KeysInv == BindingsTypes /\ GroupReported /\ KeymapReported /\ GrabsFollow /\ MarksFollow

\* The modes of every configuration file are sorted, and "default" is one of them.
LEMMA ModesAreSorted ==
    ASSUME NEW f \in Files
    PROVE  /\ DOMAIN ModesOf(f) = DOMAIN f /\ "default" \in DOMAIN f
           /\ DOMAIN f \cap {"nop", "reload"} = {}
           /\ \A m \in DOMAIN f :
                LET s == ModesOf(f)[m]
                IN /\ Ordered(s) /\ DOMAIN s \in SUBSET (Nat \ {0})
                   /\ \A i \in DOMAIN s : s[i].group \in 0 .. 4
<1>1. DOMAIN ModesOf(f) = DOMAIN f /\ \A m \in DOMAIN f : ModesOf(f)[m] = ReorderBindings(f[m])
  BY DEF ModesOf
<1>2. ASSUME NEW m \in DOMAIN f
      PROVE  LET s == ModesOf(f)[m]
             IN /\ Ordered(s) /\ DOMAIN s \in SUBSET (Nat \ {0})
                /\ \A i \in DOMAIN s : s[i].group \in 0 .. 4
  <2>1. Len(f[m]) \in Nat /\ DOMAIN f[m] = 1 .. Len(f[m]) /\ \A i \in DOMAIN f[m] : f[m][i].group \in 0 .. 4
    BY BindingsAssumption
  <2>2. LET r == ReorderBindings(f[m])
        IN /\ DOMAIN r = DOMAIN f[m] /\ Ordered(r)
           /\ \A p \in DOMAIN r : \E i \in DOMAIN f[m] : r[p] = f[m][i]
    BY <2>1, Reordered
  <2>3. QED
    BY <1>1, <2>1, <2>2
<1>3. QED
  BY <1>1, <1>2, BindingsAssumption

LEMMA BindingsInitOK == ASSUME BindingsInit PROVE KeysInv
<1>1. PICK f \in Files, m \in KeyMaps, g \in Groups :
        /\ modes = ModesOf(f) /\ mode = "default" /\ ignoreMods = {} /\ lastPress = {}
        /\ codes = TranslateKeysyms(m, ModesOf(f)["default"])
        /\ keymap = m /\ group = 1
        /\ server = [keymap |-> m, group |-> g, how |-> "new_keyboard", told |-> FALSE]
        /\ grabs = GrabsFor(ModesOf(f)["default"], TranslateKeysyms(m, ModesOf(f)["default"]), 1)
        /\ typing = [down |-> {}, mods |-> {}, active |-> ModKey]
        /\ events = <<>> /\ announced = FALSE
  BY Zenon DEF BindingsInit
<1>2. modes \in {ModesOf(h) : h \in Files} /\ mode \in DOMAIN modes
  BY <1>1, ModesAreSorted
<1>3. /\ events \in Seq(Queued) /\ DOMAIN events = {} /\ announced \in BOOLEAN
      /\ server \in [keymap : KeyMaps, group : Groups \cup {1}, how : HowAnnounced, told : BOOLEAN]
      /\ ~server.told /\ server.keymap = m
      /\ typing \in [down : SUBSET KeyCodes, mods : SUBSET {"shift", "num"}, active : KeyCodes \cup {ModKey}]
  <2>1. events \in Seq(Queued) /\ DOMAIN events = {}
    <3>1. events = <<>>
      BY <1>1
    <3>2. <<>> \in Seq(Queued) /\ DOMAIN << >> = {}
      OBVIOUS
    <3>3. QED
      BY <3>1, <3>2
  <2>2. announced \in BOOLEAN
    BY <1>1
  <2>3. /\ server \in [keymap : KeyMaps, group : Groups \cup {1}, how : HowAnnounced, told : BOOLEAN]
        /\ ~server.told /\ server.keymap = m
    BY <1>1 DEF HowAnnounced
  <2>4. QED
    BY <1>1, <2>1, <2>2, <2>3
<1>4. BindingsTypes
  BY <1>2, <1>3 DEF BindingsTypes
<1>5. codes = TranslateKeysyms(keymap, modes[mode]) /\ GrabsFollow
  BY <1>1 DEF GrabsFollow
<1>6. \A type : NoneOf(type)
  BY <1>3 DEF NoneOf
<1>7. GroupReported
  <2>1. group = IF server.told THEN server.group ELSE 1
    BY <1>1, <1>3
  <2>2. QED
    BY <1>3, <1>6, <2>1 DEF GroupReported
<1>8. KeymapReported
  BY <1>1, <1>3, <1>5 DEF KeymapReported
<1>9. QED
  BY <1>1, <1>4, <1>5, <1>7, <1>8 DEF KeysInv, MarksFollow

\* What is left of the queue when its first event has been taken
LEMMA FirstTaken ==
    ASSUME events \in Seq(Queued), events # <<>>, events' = Tail(events)
    PROVE  /\ events' \in Seq(Queued)
           /\ DOMAIN events' = 1 .. Len(events) - 1 /\ DOMAIN events = 1 .. Len(events) /\ Len(events) \in Nat
           /\ 1 \in DOMAIN events /\ Head(events) = events[1] /\ Head(events) \in Queued
           /\ \A i \in DOMAIN events' : i \in Nat /\ i >= 1 /\ i + 1 \in DOMAIN events /\ events'[i] = events[i + 1]
           /\ \A j \in DOMAIN events : j \in Int /\ (j > 1 => j - 1 \in DOMAIN events' /\ events'[j - 1] = events[j])
  OBVIOUS

\* and when one has come
LEMMA Come ==
    ASSUME events \in Seq(Queued), NEW e \in Queued, events' = Append(events, e)
    PROVE  /\ events' \in Seq(Queued)
           /\ DOMAIN events' = 1 .. Len(events) + 1 /\ DOMAIN events = 1 .. Len(events) /\ Len(events) \in Nat
           /\ \E n \in DOMAIN events' :
                /\ events'[n] = e
                /\ \A i \in DOMAIN events : i \in DOMAIN events' /\ n > i /\ events'[i] = events[i]
                /\ \A i \in DOMAIN events' : i = n \/ i \in DOMAIN events
<1>1. LET n == Len(events) + 1
      IN /\ n \in DOMAIN events' /\ events'[n] = e
         /\ \A i \in DOMAIN events : i \in DOMAIN events' /\ n > i /\ events'[i] = events[i]
         /\ \A i \in DOMAIN events' : i = n \/ i \in DOMAIN events
  OBVIOUS
<1>2. QED
  BY <1>1

\* An event of another type has been taken: none of this type has.
LEMMA TakenOther ==
    ASSUME events \in Seq(Queued), events # <<>>, events' = Tail(events), NEW type, Head(events).type # type
    PROVE  /\ NoneOf(type)' <=> NoneOf(type)
           /\ \A i \in DOMAIN events' : Later(i, type)' <=> Later(i + 1, type)
<1>1. NoneOf(type)' <=> NoneOf(type)
  <2>1. ASSUME NEW i \in DOMAIN events, Is(i, type) PROVE i - 1 \in DOMAIN events' /\ events'[i - 1] = events[i]
    BY <2>1, FirstTaken DEF Is
  <2>2. QED
    BY <2>1, FirstTaken DEF NoneOf, Is
<1>2. ASSUME NEW i \in DOMAIN events' PROVE Later(i, type)' <=> Later(i + 1, type)
  <2>1. ASSUME NEW j \in DOMAIN events, j > i + 1 PROVE j - 1 \in DOMAIN events' /\ j - 1 > i /\ events'[j - 1] = events[j]
    BY <2>1, FirstTaken
  <2>2. QED
    BY <2>1, FirstTaken DEF Later, Is
<1>3. QED
  BY <1>1, <1>2

\* Events of the user's keys and the announcement of a keymap by a MapNotify
LEMMA ComeOther ==
    ASSUME events \in Seq(Queued), NEW e \in Queued, events' = Append(events, e), NEW type, e.type # type
    PROVE  /\ NoneOf(type)' <=> NoneOf(type)
           /\ \A i \in DOMAIN events : Later(i, type)' <=> Later(i, type)
<1>1. NoneOf(type)' <=> NoneOf(type)
  BY Come DEF NoneOf, Is
<1>2. QED
  BY <1>1, Come DEF Later, Is

-----------------------------------------------------------------------------
(* The handlers *)

\* Whatever a key event does to the mode, what was reported stays reported.
LEMMA KeyTaken ==
    ASSUME KeysInv, events # <<>>, events' = Tail(events), Head(events).type \in {"press", "release"},
           UNCHANGED <<keymap, group, server>>,
           UNCHANGED <<codes, modes, mode>> \/ codes' = TranslateKeysyms(keymap, modes'[mode'])
    PROVE  GroupReported' /\ KeymapReported'
<1>1. events \in Seq(Queued)
  BY DEF KeysInv, BindingsTypes
<1>2. \A type \in {"state", "map", "new_keyboard"} :
         /\ NoneOf(type)' <=> NoneOf(type)
         /\ \A i \in DOMAIN events' : Later(i, type)' <=> Later(i + 1, type)
  BY <1>1, TakenOther
<1>3. \A i \in DOMAIN events' : i + 1 \in DOMAIN events /\ events'[i] = events[i + 1]
  BY <1>1, FirstTaken
<1>4. GroupReported'
  BY <1>2, <1>3 DEF KeysInv, GroupReported, Is
<1>5. KeymapReported'
  BY <1>2, <1>3 DEF KeysInv, KeymapReported, Is
<1>6. QED
  BY <1>4, <1>5

\* A binding runs: nothing, another mode, or another file.
LEMMA RunBindingOK ==
    ASSUME KeysInv, NEW b, NEW ms, RunBinding(b, ms), UNCHANGED <<keymap, group>>
    PROVE  /\ modes' \in {ModesOf(f) : f \in Files} /\ mode' \in DOMAIN modes'
           /\ announced' \in BOOLEAN
           /\ GrabsFollow'
           /\ \/ UNCHANGED <<codes, modes, mode>> /\ ignoreMods' = ms /\ b.command \notin {"reload"} \cup DOMAIN modes
              \/ /\ codes' = TranslateKeysyms(keymap, modes'[mode']) /\ lastPress' = {}
                 /\ \A j : <<mode', j>> \notin ignoreMods'
<1>1. /\ modes \in {ModesOf(f) : f \in Files} /\ mode \in DOMAIN modes /\ announced \in BOOLEAN
      /\ grabs = GrabsFor(modes[mode], codes, group)
  BY DEF KeysInv, BindingsTypes, GrabsFollow
<1>2. DOMAIN modes \cap {"nop", "reload"} = {}
  BY <1>1, ModesAreSorted
<1>3. CASE b.command = "nop"
  BY <1>1, <1>2, <1>3 DEF RunBinding, GrabsFollow
<1>4. CASE b.command = "reload"
  <2>1. PICK f \in Files : SwitchTo(ModesOf(f), "default") /\ ignoreMods' = {}
    BY <1>4 DEF RunBinding, Reload
  <2>2. modes' \in {ModesOf(g) : g \in Files} /\ "default" \in DOMAIN modes'
    BY <2>1, ModesAreSorted DEF SwitchTo
  <2>3. QED
    BY <2>1, <2>2 DEF SwitchTo, GrabsFollow
<1>5. CASE b.command \notin {"nop", "reload"}
  <2>1. SwitchMode(b.command, ms)
    BY <1>5 DEF RunBinding
  <2>2. CASE b.command \in DOMAIN modes
    <3>1. SwitchTo(modes, b.command) /\ ignoreMods' = {c \in ms : c[1] # b.command}
      BY <2>1, <2>2 DEF SwitchMode
    <3>2. \A j : <<b.command, j>> \notin ignoreMods'
      BY <3>1
    <3>3. QED
      BY <1>1, <2>2, <3>1, <3>2 DEF SwitchTo, GrabsFollow
  <2>3. CASE b.command \notin DOMAIN modes
    BY <1>1, <1>5, <2>1, <2>3 DEF SwitchMode, GrabsFollow
  <2>4. QED
    BY <2>2, <2>3
<1>6. QED
  BY <1>3, <1>4, <1>5

\* A press marks no binding but those it matches, and it is what the last press matched.
LEMMA HandleKeyPressOK == ASSUME KeysInv, HandleKeyPress PROVE KeysInv'
<1> DEFINE e == Head(events)
           i == GetBinding(e)
           ms == IF e.type = "press" THEN {c \in ignoreMods : c[1] # mode} \cup {<<mode, j>> : j \in NewMarks(e)}
                 ELSE ignoreMods
           hits == IF e.type = "press" THEN Hits(e) ELSE lastPress
           stays == i = 0 \/ modes[mode][i].command \notin {"reload"} \cup DOMAIN modes
<1>1. /\ events # <<>> /\ e.type \in {"press", "release"} /\ events' = Tail(events)
      /\ IF i = 0 THEN ignoreMods' = ms /\ UNCHANGED <<modes, mode, codes, grabs, announced>>
         ELSE RunBinding(modes[mode][i], ms)
      /\ stays => lastPress' = hits
      /\ UNCHANGED <<keymap, group, server, typing>>
  BY DEF HandleKeyPress
<1>2. NewMarks(e) \subseteq Hits(e)
  BY DEF NewMarks
<1>3. \A j \in Nat : <<mode, j>> \in ms => j \in hits
  <2>1. CASE e.type = "press"
    BY <1>2, <2>1
  <2>2. CASE e.type # "press"
    BY <2>2 DEF KeysInv, MarksFollow
  <2>3. QED
    BY <2>1, <2>2
<1> HIDE DEF ms, hits, i, e
<1>4. /\ modes' \in {ModesOf(f) : f \in Files} /\ mode' \in DOMAIN modes' /\ announced' \in BOOLEAN
      /\ GrabsFollow'
      /\ \/ UNCHANGED <<codes, modes, mode>> /\ ignoreMods' = ms /\ stays
         \/ /\ codes' = TranslateKeysyms(keymap, modes'[mode']) /\ lastPress' = {}
            /\ \A j : <<mode', j>> \notin ignoreMods'
  <2>1. CASE i = 0
    BY <1>1, <2>1 DEF KeysInv, BindingsTypes, GrabsFollow
  <2>2. CASE i # 0
    <3>1. RunBinding(modes[mode][i], ms)
      BY <1>1, <2>2
    <3>2. QED
      BY <1>1, <3>1, RunBindingOK
  <2>3. QED
    BY <2>1, <2>2
<1>5. MarksFollow'
  BY <1>1, <1>3, <1>4 DEF MarksFollow
<1>6. events' \in Seq(Queued)
  BY <1>1, FirstTaken DEF KeysInv, BindingsTypes
<1>7. BindingsTypes'
  BY <1>1, <1>4, <1>6 DEF KeysInv, BindingsTypes
<1>8. GroupReported' /\ KeymapReported'
  <2>1. Head(events).type \in {"press", "release"}
    BY <1>1 DEF e
  <2>2. QED
    BY <1>1, <1>4, <2>1, KeyTaken
<1>9. QED
  BY <1>4, <1>5, <1>7, <1>8 DEF KeysInv

\* The new keymap is the server's of the moment: later announcements find it loaded.
LEMMA HandleNewKeyboardOK == ASSUME KeysInv, HandleNewKeyboard PROVE KeysInv'
<1>1. /\ events # <<>> /\ events' = Tail(events) /\ Head(events).type \in {"new_keyboard", "same_keycodes"}
      /\ keymap' = IF Head(events).type = "new_keyboard" THEN server.keymap ELSE keymap
      /\ codes' = TranslateKeysyms(keymap', modes[mode])
      /\ grabs' = GrabsFor(modes[mode], TranslateKeysyms(keymap', modes[mode]), group)
      /\ announced' = FALSE
      /\ UNCHANGED <<modes, mode, ignoreMods, group, lastPress, server, typing>>
  BY DEF HandleNewKeyboard, Regrab
<1>2. events \in Seq(Queued)
  BY DEF KeysInv, BindingsTypes
<1>3. /\ events' \in Seq(Queued)
      /\ DOMAIN events' = 1 .. Len(events) - 1 /\ DOMAIN events = 1 .. Len(events) /\ Len(events) \in Nat
      /\ \A i \in DOMAIN events' : i + 1 \in DOMAIN events /\ events'[i] = events[i + 1]
  BY <1>1, <1>2, FirstTaken
<1>4. BindingsTypes' /\ GrabsFollow' /\ MarksFollow'
  BY <1>1, <1>3 DEF KeysInv, BindingsTypes, GrabsFollow, MarksFollow
<1>5. GroupReported'
  <2>1. /\ NoneOf("state")' <=> NoneOf("state")
        /\ \A i \in DOMAIN events' : Later(i, "state")' <=> Later(i + 1, "state")
    BY <1>1, <1>2, TakenOther
  <2>2. QED
    BY <1>1, <1>3, <2>1 DEF KeysInv, GroupReported, Is
<1>6. KeymapReported'
  <2>1. ASSUME NEW i \in DOMAIN events', Later(i + 1, "new_keyboard")
        PROVE  Later(i, "new_keyboard")'
    <3>1. PICK j \in DOMAIN events : j > i + 1 /\ Is(j, "new_keyboard")
      BY <2>1 DEF Later
    <3>2. i >= 1 /\ i \in Nat /\ j \in Int
      BY <1>1, <1>2, FirstTaken
    <3>3. j > 1 /\ j - 1 > i
      BY <3>1, <3>2
    <3>4. j - 1 \in DOMAIN events' /\ events'[j - 1] = events[j]
      BY <1>1, <1>2, <3>3, FirstTaken
    <3>5. QED
      BY <3>1, <3>3, <3>4 DEF Later, Is
  <2>2. CASE Head(events).type = "new_keyboard"
    BY <1>1, <1>3, <2>1, <2>2 DEF KeysInv, KeymapReported, Is
  <2>3. CASE Head(events).type = "same_keycodes"
    <3>1. NoneOf("new_keyboard")' <=> NoneOf("new_keyboard")
      BY <1>1, <1>2, <2>3, TakenOther
    <3>2. QED
      BY <1>1, <1>3, <2>1, <2>3, <3>1 DEF KeysInv, KeymapReported, Is
  <2>4. QED
    BY <1>1, <2>2, <2>3
<1>7. QED
  BY <1>4, <1>5, <1>6 DEF KeysInv

\* A MapNotify translates the keys by the keymap before it, which a later "new_keyboard"
\* makes good unless nothing but the MapNotify announced the keymap.
LEMMA HandleMapNotifyOK == ASSUME KeysInv, HandleMapNotify PROVE KeysInv'
<1>1. /\ events # <<>> /\ events' = Tail(events) /\ Head(events).type = "map"
      /\ \/ UNCHANGED <<keymap, codes, grabs, announced>>
         \/ /\ keymap' = server.keymap /\ announced' = FALSE
            /\ codes' = TranslateKeysyms(keymap, modes[mode])
            /\ grabs' = GrabsFor(modes[mode], TranslateKeysyms(keymap, modes[mode]), group)
      /\ UNCHANGED <<modes, mode, ignoreMods, group, lastPress, server, typing>>
  BY DEF HandleMapNotify, Regrab
<1>2. events \in Seq(Queued)
  BY DEF KeysInv, BindingsTypes
<1>3. /\ events' \in Seq(Queued) /\ 1 \in DOMAIN events /\ Is(1, "map")
      /\ \A i \in DOMAIN events' : i + 1 \in DOMAIN events /\ events'[i] = events[i + 1]
  BY <1>1, <1>2, FirstTaken DEF Is
<1>4. BindingsTypes' /\ GrabsFollow' /\ MarksFollow'
  BY <1>1, <1>3 DEF KeysInv, BindingsTypes, GrabsFollow, MarksFollow
<1>5. /\ NoneOf("state")' <=> NoneOf("state")
      /\ \A i \in DOMAIN events' : Later(i, "state")' <=> Later(i + 1, "state")
      /\ NoneOf("new_keyboard")' <=> NoneOf("new_keyboard")
      /\ \A i \in DOMAIN events' : Later(i, "new_keyboard")' <=> Later(i + 1, "new_keyboard")
  BY <1>1, <1>2, TakenOther
<1>6. GroupReported'
  BY <1>1, <1>3, <1>5 DEF KeysInv, GroupReported, Is
<1>7. KeymapReported'
  <2>1. server.how = "new_keyboard" => ~NoneOf("new_keyboard")
    BY <1>3 DEF KeysInv, KeymapReported, Later, NoneOf
  <2>2. QED
    BY <1>1, <1>3, <1>5, <2>1 DEF KeysInv, KeymapReported, Is
<1>8. QED
  BY <1>4, <1>6, <1>7 DEF KeysInv

\* A core MappingNotify translates the keys again, by the same keymap.
LEMMA HandleMappingNotifyOK == ASSUME KeysInv, HandleMappingNotify PROVE KeysInv'
<1>1. /\ events # <<>> /\ events' = Tail(events) /\ Head(events).type = "mapping"
      /\ announced' = FALSE
      /\ codes' = TranslateKeysyms(keymap, modes[mode])
      /\ grabs' = GrabsFor(modes[mode], TranslateKeysyms(keymap, modes[mode]), group)
      /\ UNCHANGED <<modes, mode, ignoreMods, keymap, group, lastPress, server, typing>>
  BY DEF HandleMappingNotify, Regrab
<1>2. events \in Seq(Queued)
  BY DEF KeysInv, BindingsTypes
<1>3. /\ events' \in Seq(Queued)
      /\ \A i \in DOMAIN events' : i + 1 \in DOMAIN events /\ events'[i] = events[i + 1]
  BY <1>1, <1>2, FirstTaken
<1>4. BindingsTypes' /\ GrabsFollow' /\ MarksFollow'
  BY <1>1, <1>3 DEF KeysInv, BindingsTypes, GrabsFollow, MarksFollow
<1>5. /\ NoneOf("state")' <=> NoneOf("state")
      /\ \A i \in DOMAIN events' : Later(i, "state")' <=> Later(i + 1, "state")
      /\ NoneOf("new_keyboard")' <=> NoneOf("new_keyboard")
      /\ \A i \in DOMAIN events' : Later(i, "new_keyboard")' <=> Later(i + 1, "new_keyboard")
  BY <1>1, <1>2, TakenOther
<1>6. GroupReported' /\ KeymapReported'
  BY <1>1, <1>3, <1>5 DEF KeysInv, GroupReported, KeymapReported, Is
<1>7. QED
  BY <1>4, <1>6 DEF KeysInv

LEMMA OverlayTakesKeyOK == ASSUME KeysInv, OverlayTakesKey PROVE KeysInv'
<1>1. /\ events # <<>> /\ events' = Tail(events) /\ Head(events).type \in {"press", "release"}
      /\ UNCHANGED <<bindVars, server, grabs, typing, announced>>
  BY DEF OverlayTakesKey
<1>2. events \in Seq(Queued)
  BY DEF KeysInv, BindingsTypes
<1>3. events' \in Seq(Queued)
  BY <1>1, <1>2, FirstTaken
<1>4. BindingsTypes' /\ GrabsFollow' /\ MarksFollow'
  BY <1>1, <1>3 DEF KeysInv, BindingsTypes, GrabsFollow, MarksFollow, bindVars
<1>5. GroupReported' /\ KeymapReported'
  BY <1>1, KeyTaken DEF bindVars
<1>6. QED
  BY <1>4, <1>5 DEF KeysInv

LEMMA HandleStateNotifyOK == ASSUME KeysInv, HandleStateNotify PROVE KeysInv'
<1>1. /\ events # <<>> /\ events' = Tail(events) /\ Head(events).type = "state"
      /\ group' = Head(events).group
      /\ IF group' = group THEN UNCHANGED <<grabs, announced>>
         ELSE grabs' = GrabsFor(modes[mode], codes, group') /\ announced' = FALSE
      /\ UNCHANGED <<modes, mode, ignoreMods, codes, keymap, lastPress, server, typing>>
  BY DEF HandleStateNotify
<1>2. events \in Seq(Queued)
  BY DEF KeysInv, BindingsTypes
<1>3. /\ events' \in Seq(Queued) /\ 1 \in DOMAIN events /\ Is(1, "state") /\ events[1].group = group'
      /\ DOMAIN events' = 1 .. Len(events) - 1 /\ DOMAIN events = 1 .. Len(events) /\ Len(events) \in Nat
      /\ \A i \in DOMAIN events' : i + 1 \in DOMAIN events /\ events'[i] = events[i + 1]
  BY <1>1, <1>2, FirstTaken DEF Is
<1>4. BindingsTypes' /\ GrabsFollow' /\ MarksFollow'
  BY <1>1, <1>3 DEF KeysInv, BindingsTypes, GrabsFollow, MarksFollow
<1>5. /\ NoneOf("new_keyboard")' <=> NoneOf("new_keyboard")
      /\ \A i \in DOMAIN events' : Later(i, "new_keyboard")' <=> Later(i + 1, "new_keyboard")
  BY <1>1, <1>2, TakenOther
<1>6. GroupReported'
  <2>1. ASSUME NEW i \in DOMAIN events', Later(i + 1, "state")
        PROVE  Later(i, "state")'
    <3>1. PICK j \in DOMAIN events : j > i + 1 /\ Is(j, "state")
      BY <2>1 DEF Later
    <3>2. j - 1 \in DOMAIN events' /\ j - 1 > i /\ events'[j - 1] = events[j]
      BY <1>1, <1>2, <3>1, FirstTaken
    <3>3. QED
      BY <3>1, <3>2 DEF Later, Is
  <2>2. NoneOf("state")' => ~Later(1, "state")
    <3>1. ASSUME NEW j \in DOMAIN events, j > 1, Is(j, "state") PROVE ~NoneOf("state")'
      <4>1. j - 1 \in DOMAIN events' /\ events'[j - 1] = events[j]
        BY <1>3, <3>1
      <4>2. QED
        BY <3>1, <4>1 DEF NoneOf, Is
    <3>2. QED
      BY <3>1 DEF Later
  <2>3. server.told /\ server' = server /\ server.told \in BOOLEAN
    BY <1>1, <1>3 DEF KeysInv, BindingsTypes, GroupReported, NoneOf
  <2>4. \A i \in DOMAIN events' : Is(i, "state")' /\ ~Later(i, "state")' => events'[i].group = server.group
    BY <1>3, <2>1 DEF KeysInv, GroupReported, Is
  <2>5. NoneOf("state")' => group' = server.group
    BY <1>3, <2>2 DEF KeysInv, GroupReported
  <2>6. QED
    BY <2>3, <2>4, <2>5 DEF GroupReported
<1>7. KeymapReported'
  BY <1>1, <1>3, <1>5 DEF KeysInv, KeymapReported, Is
<1>8. QED
  BY <1>4, <1>6, <1>7 DEF KeysInv

-----------------------------------------------------------------------------
(* The server and the user *)

LEMMA KeyEventOK ==
    ASSUME KeysInv, UNCHANGED <<bindVars, server, grabs, announced>>,
           NEW e \in Queued, e.type \in {"press", "release"}, events' \in {events, Append(events, e)},
           typing' \in [down : SUBSET KeyCodes, mods : SUBSET {"shift", "num"}, active : KeyCodes \cup {ModKey}]
    PROVE  KeysInv'
<1>1. events \in Seq(Queued)
  BY DEF KeysInv, BindingsTypes
<1>2. BindingsTypes' /\ GrabsFollow' /\ MarksFollow'
  <2>1. events' \in Seq(Queued)
    BY <1>1, Come
  <2>2. QED
    BY <2>1 DEF KeysInv, BindingsTypes, GrabsFollow, MarksFollow, bindVars
<1>3. CASE events' = events
  BY <1>2, <1>3 DEF KeysInv, GroupReported, KeymapReported, bindVars, NoneOf, Later, Is
<1>4. CASE events' = Append(events, e)
  <2>1. \A type \in {"state", "map", "new_keyboard"} :
           /\ NoneOf(type)' <=> NoneOf(type)
           /\ \A i \in DOMAIN events : Later(i, type)' <=> Later(i, type)
    BY <1>1, <1>4, ComeOther
  <2>2. \A i \in DOMAIN events' :
           Is(i, "state")' \/ Is(i, "map")' => i \in DOMAIN events /\ events'[i] = events[i]
    BY <1>1, <1>4, Come DEF Is
  <2>3. GroupReported'
    BY <2>1, <2>2 DEF KeysInv, GroupReported, bindVars, Is
  <2>4. KeymapReported'
    BY <2>1, <2>2 DEF KeysInv, KeymapReported, bindVars, Is
  <2>5. QED
    BY <1>2, <2>3, <2>4 DEF KeysInv
<1>5. QED
  BY <1>3, <1>4

LEMMA UserOK ==
    ASSUME KeysInv, \E k \in KeyCodes : StrikeKey(k) \/ LiftKey(k)
    PROVE  KeysInv'
<1>1. /\ typing \in [down : SUBSET KeyCodes, mods : SUBSET {"shift", "num"}, active : KeyCodes \cup {ModKey}]
      /\ server.group \in Groups \cup {1}
  BY DEF KeysInv, BindingsTypes
<1>2. ASSUME NEW t \in {"press", "release"}, NEW k \in KeyCodes \cup {ModKey}
      PROVE  KeyEvent(t, k) \in Queued /\ KeyEvent(t, k).type \in {"press", "release"}
  BY <1>1 DEF KeyEvent, Queued
<1>3. ASSUME NEW k \in KeyCodes, StrikeKey(k) PROVE KeysInv'
  <2>1. UNCHANGED <<bindVars, server, grabs, announced>> /\ events' \in {events, Append(events, KeyEvent("press", k))}
    BY <1>3 DEF StrikeKey, Notify
  <2>2. PICK a \in {k, typing.active} : typing' = [typing EXCEPT !.down = @ \cup {k}, !.active = a]
    BY <1>3 DEF StrikeKey
  <2>3. typing' \in [down : SUBSET KeyCodes, mods : SUBSET {"shift", "num"}, active : KeyCodes \cup {ModKey}]
    <3>1. a \in KeyCodes \cup {ModKey} /\ typing.down \cup {k} \in SUBSET KeyCodes
      BY <1>1
    <3>2. typing' = [down |-> typing.down \cup {k}, mods |-> typing.mods, active |-> a]
      BY <1>1, <2>2
    <3>3. QED
      BY <1>1, <3>1, <3>2
  <2>4. QED
    BY <1>2, <2>1, <2>3, KeyEventOK
<1>4. ASSUME NEW k \in KeyCodes, LiftKey(k) PROVE KeysInv'
  <2>1. UNCHANGED <<bindVars, server, grabs, announced>> /\ events' \in {events, Append(events, KeyEvent("release", k))}
    BY <1>4 DEF LiftKey, Notify
  <2>2. \E a \in {ModKey, typing.active} : typing' = [typing EXCEPT !.down = @ \ {k}, !.active = a]
    BY <1>4 DEF LiftKey
  <2>3. typing' \in [down : SUBSET KeyCodes, mods : SUBSET {"shift", "num"}, active : KeyCodes \cup {ModKey}]
    BY <1>1, <2>2
  <2>4. QED
    BY <1>2, <2>1, <2>3, KeyEventOK
<1>5. QED
  BY <1>3, <1>4

\* What the server reports of its state is the last such report in the queue.
LEMMA StateReported ==
    ASSUME KeysInv, NEW g \in Groups \cup {1}, events' = Append(events, [type |-> "state", group |-> g]),
           UNCHANGED <<bindVars, grabs, announced>>,
           server' = [server EXCEPT !.group = g, !.told = TRUE], typing' = typing
    PROVE  KeysInv'
<1> DEFINE e == [type |-> "state", group |-> g]
<1>1. server' = [server EXCEPT !.group = g, !.told = TRUE] /\ events' = Append(events, e)
      /\ UNCHANGED <<bindVars, grabs, typing, announced>>
  OBVIOUS
<1>2. events \in Seq(Queued) /\ e \in Queued
  BY DEF KeysInv, BindingsTypes, Queued
<1>3. events' \in Seq(Queued)
  BY <1>1, <1>2, Come
<1>4. PICK n \in DOMAIN events' :
        /\ events'[n] = e
        /\ \A i \in DOMAIN events : i \in DOMAIN events' /\ n > i /\ events'[i] = events[i]
        /\ \A i \in DOMAIN events' : i = n \/ i \in DOMAIN events
  BY <1>1, <1>2, Come
<1>5. BindingsTypes' /\ GrabsFollow' /\ MarksFollow'
  BY <1>1, <1>3 DEF KeysInv, BindingsTypes, GrabsFollow, MarksFollow, bindVars
<1>6. GroupReported'
  <2>1. server'.group = g /\ server'.told
    BY <1>1 DEF KeysInv, BindingsTypes
  <2>2. Is(n, "state")' /\ \A i \in DOMAIN events : Later(i, "state")'
    BY <1>4 DEF Is, Later
  <2>3. QED
    BY <1>4, <2>1, <2>2 DEF GroupReported, NoneOf
<1>7. KeymapReported'
  <2>1. /\ NoneOf("new_keyboard")' <=> NoneOf("new_keyboard")
        /\ \A i \in DOMAIN events : Later(i, "new_keyboard")' <=> Later(i, "new_keyboard")
    BY <1>1, <1>2, ComeOther
  <2>2. server'.how = server.how /\ server'.keymap = server.keymap
    BY <1>1 DEF KeysInv, BindingsTypes
  <2>3. \A i \in DOMAIN events' : Is(i, "map")' => i \in DOMAIN events /\ Is(i, "map")
    BY <1>4 DEF Is
  <2>4. UNCHANGED <<keymap, codes, modes, mode>>
    BY <1>1 DEF bindVars
  <2>5. QED
    BY <2>1, <2>2, <2>3, <2>4 DEF KeysInv, KeymapReported
<1>8. QED
  BY <1>5, <1>6, <1>7 DEF KeysInv

\* The server's change and its announcement are one step.
LEMMA ChangeGroupOK == ASSUME KeysInv, NEW g \in Groups, ChangeGroup(g) PROVE KeysInv'
  BY StateReported DEF ChangeGroup, Notify

\* A modifier: the event of its key, if i3 gets it, and then the first report of the state.
LEMMA ChangeModifierOK == ASSUME KeysInv, \E m \in {"shift", "num"} : ChangeModifier(m) PROVE KeysInv'
<1>1. PICK m \in {"shift", "num"} : ChangeModifier(m)
  OBVIOUS
<1> DEFINE k == KeyEvent(IF m \in typing.mods THEN "release" ELSE "press", ModKey)
           keys == IF typing.active = ModKey THEN <<>> ELSE <<k>>
           report == [type |-> "state", group |-> server.group]
<1>2. /\ server' = [server EXCEPT !.told = TRUE] /\ events' = events \o keys \o StateReport
      /\ UNCHANGED <<bindVars, grabs, announced>>
      /\ \E d \in SUBSET {"shift", "num"} : typing' = [typing EXCEPT !.mods = d]
  <2>1. typing.mods \subseteq {"shift", "num"}
    BY DEF KeysInv, BindingsTypes
  <2>2. \E d \in SUBSET {"shift", "num"} : typing' = [typing EXCEPT !.mods = d]
    BY <1>1, <2>1 DEF ChangeModifier
  <2>3. QED
    BY <1>1, <2>2 DEF ChangeModifier
<1>3. /\ events \in Seq(Queued) /\ server.told \in BOOLEAN /\ server.group \in Groups \cup {1}
      /\ server \in [keymap : KeyMaps, group : Groups \cup {1}, how : HowAnnounced, told : BOOLEAN]
      /\ typing \in [down : SUBSET KeyCodes, mods : SUBSET {"shift", "num"}, active : KeyCodes \cup {ModKey}]
  BY DEF KeysInv, BindingsTypes
<1>4. typing' \in [down : SUBSET KeyCodes, mods : SUBSET {"shift", "num"}, active : KeyCodes \cup {ModKey}]
  BY <1>2, <1>3
<1>5. k \in Queued /\ k.type \in {"press", "release"} /\ report \in Queued /\ report.type = "state"
      /\ report.group = server.group
  BY <1>3 DEF KeyEvent, Queued
<1> HIDE DEF k, report
<1>6. CASE server.told
  <2>1. server' = server
    <3>1. server = [keymap |-> server.keymap, group |-> server.group, how |-> server.how, told |-> server.told]
      BY <1>3
    <3>2. server.told = TRUE
      BY <1>3, <1>6
    <3>3. QED
      BY <1>2, <1>3, <3>1, <3>2
  <2>2. events' \in {events, Append(events, k)}
    BY <1>2, <1>3, <1>5, <1>6 DEF StateReport
  <2>3. QED
    BY <1>2, <1>4, <1>5, <2>1, <2>2, KeyEventOK
<1>7. CASE ~server.told
  <2>1. StateReport = <<report>> /\ keys \in {<<>>, <<k>>}
    BY <1>7 DEF StateReport, report
  <2> HIDE DEF keys
  <2> DEFINE n == Len(events) + Len(keys) + 1
  <2>3. /\ events' \in Seq(Queued) /\ DOMAIN events' = 1 .. n /\ DOMAIN events = 1 .. Len(events) /\ Len(events) \in Nat
        /\ events'[n] = report /\ n \in Nat /\ n >= 1
        /\ \A i \in DOMAIN events : i \in DOMAIN events' /\ events'[i] = events[i]
        /\ \A i \in DOMAIN events' : i = n \/ i \in DOMAIN events \/ events'[i] = k
    <3>1. CASE keys = <<>>
      <4>1. events' = Append(events, report) /\ n = Len(events) + 1
        BY <1>2, <1>3, <2>1, <3>1
      <4>2. QED
        BY <1>3, <1>5, <4>1
    <3>2. CASE keys = <<k>>
      <4>1. events' = Append(Append(events, k), report) /\ n = Len(events) + 2
        BY <1>2, <1>3, <1>5, <2>1, <3>2
      <4>2. QED
        BY <1>3, <1>5, <4>1
    <3>3. QED
      BY <2>1, <3>1, <3>2
  <2>4. n \in Nat /\ n \in DOMAIN events' /\ \A i \in DOMAIN events' : i \in Nat /\ (i = n \/ i < n)
    BY <2>3
  <2> HIDE DEF n
  <2>5. /\ server'.told = TRUE /\ server'.group = server.group
        /\ server'.how = server.how /\ server'.keymap = server.keymap
        /\ server' \in [keymap : KeyMaps, group : Groups \cup {1}, how : HowAnnounced, told : BOOLEAN]
    BY <1>2, <1>3
  <2>6. BindingsTypes' /\ GrabsFollow' /\ MarksFollow'
    BY <1>2, <1>4, <2>3, <2>5 DEF KeysInv, BindingsTypes, GrabsFollow, MarksFollow, bindVars
  <2>7. GroupReported'
    <3> DEFINE later(i) == \E j \in DOMAIN events' : j > i /\ events'[j].type = "state"
    <3>1. ASSUME NEW i \in DOMAIN events' PROVE i = n \/ later(i)
      BY <1>5, <2>3, <2>4
    <3>2. QED
      BY <1>5, <2>3, <2>4, <2>5, <3>1 DEF GroupReported, NoneOf, Is, Later
  <2>8. KeymapReported'
    <3>1. \A i \in DOMAIN events' : Is(i, "map")' \/ Is(i, "new_keyboard")' => i \in DOMAIN events /\ events'[i] = events[i]
      BY <1>5, <2>3 DEF Is
    <3>2. NoneOf("new_keyboard")' => NoneOf("new_keyboard")
      BY <2>3 DEF NoneOf, Is
    <3>3. \A i \in DOMAIN events : Later(i, "new_keyboard") => Later(i, "new_keyboard")'
      BY <2>3 DEF Later, Is
    <3>4. UNCHANGED <<keymap, codes, modes, mode>>
      BY <1>2 DEF bindVars
    <3>5. QED
      BY <2>5, <3>1, <3>2, <3>3, <3>4 DEF KeysInv, KeymapReported, Is
  <2>9. QED
    BY <2>6, <2>7, <2>8 DEF KeysInv
<1>8. QED
  BY <1>3, <1>6, <1>7

LEMMA ChangeKeymapOK ==
    ASSUME KeysInv, NEW m \in KeyMaps, NEW how \in HowAnnounced, ChangeKeymap(m, how)
    PROVE  KeysInv'
<1> DEFINE e == IF how = "map" THEN [type |-> how, seen |-> announced] ELSE [type |-> how]
<1>1. /\ server' = [server EXCEPT !.keymap = m, !.how = how] /\ events' = Append(events, e)
      /\ announced' \in BOOLEAN /\ UNCHANGED <<bindVars, grabs, typing>>
  BY DEF ChangeKeymap, Notify, KeysInv, BindingsTypes
<1>2. events \in Seq(Queued) /\ e \in Queued /\ e.type = how /\ how # "state"
  BY DEF KeysInv, BindingsTypes, Queued, HowAnnounced
<1> HIDE DEF e
<1>3. events' \in Seq(Queued)
  BY <1>1, <1>2, Come
<1>4. PICK n \in DOMAIN events' :
        /\ events'[n] = e
        /\ \A i \in DOMAIN events : i \in DOMAIN events' /\ n > i /\ events'[i] = events[i]
        /\ \A i \in DOMAIN events' : i = n \/ i \in DOMAIN events
  BY <1>1, <1>2, Come
<1>5. BindingsTypes' /\ GrabsFollow' /\ MarksFollow'
  BY <1>1, <1>3 DEF KeysInv, BindingsTypes, GrabsFollow, MarksFollow, bindVars
<1>6. server'.how = how /\ server'.group = server.group /\ server'.told = server.told
  BY <1>1 DEF KeysInv, BindingsTypes
<1>7. GroupReported'
  <2>1. /\ NoneOf("state")' <=> NoneOf("state")
        /\ \A i \in DOMAIN events : Later(i, "state")' <=> Later(i, "state")
    BY <1>1, <1>2, ComeOther
  <2>2. ~Is(n, "state")'
    BY <1>2, <1>4 DEF Is
  <2>3. QED
    BY <1>1, <1>4, <1>6, <2>1, <2>2 DEF KeysInv, GroupReported, bindVars, Is
<1>8. KeymapReported'
  <2>1. CASE how # "new_keyboard"
    BY <1>6, <2>1 DEF KeymapReported
  <2>2. CASE how = "new_keyboard"
    <3>1. Is(n, "new_keyboard")' /\ \A i \in DOMAIN events : Later(i, "new_keyboard")'
      BY <1>2, <1>4, <2>2 DEF Is, Later
    <3>2. QED
      BY <1>4, <3>1 DEF KeymapReported, NoneOf, Is
  <2>3. QED
    BY <2>1, <2>2
<1>9. QED
  BY <1>5, <1>7, <1>8 DEF KeysInv

LEMMA BindingsStepOK == ASSUME KeysInv, [BindingsNext]_bindingsVars PROVE KeysInv'
<1>1. CASE \/ HandleKeyPress \/ OverlayTakesKey
           \/ HandleNewKeyboard \/ HandleMapNotify \/ HandleMappingNotify \/ HandleStateNotify
  BY <1>1, HandleKeyPressOK, OverlayTakesKeyOK, HandleNewKeyboardOK, HandleMapNotifyOK, HandleMappingNotifyOK, HandleStateNotifyOK
<1>2. CASE (\E k \in KeyCodes : StrikeKey(k) \/ LiftKey(k)) \/ \E m \in {"shift", "num"} : ChangeModifier(m)
  BY <1>2, UserOK, ChangeModifierOK
<1>3. CASE \E g \in Groups : ChangeGroup(g)
  BY <1>3, ChangeGroupOK
<1>4. CASE \E m \in KeyMaps, how \in HowAnnounced : ChangeKeymap(m, how)
  BY <1>4, ChangeKeymapOK
<1>5. CASE UNCHANGED bindingsVars
  BY <1>5 DEF KeysInv, BindingsTypes, GroupReported, KeymapReported, GrabsFollow, MarksFollow,
              bindingsVars, bindVars, keyVars, NoneOf, Later, Is
<1>6. QED
  BY <1>1, <1>2, <1>3, <1>4, <1>5 DEF BindingsNext

-----------------------------------------------------------------------------
(* The properties *)

LEMMA InvKeysAreGrabbed == ASSUME KeysInv PROVE KeysAreGrabbed
<1> SUFFICES ASSUME events = <<>>, server.how = "new_keyboard"
             PROVE  grabs = GrabsFor(modes[mode], TranslateKeysyms(server.keymap, modes[mode]),
                                     IF server.told THEN server.group ELSE 1)
  BY DEF KeysAreGrabbed
<1>1. \A type : NoneOf(type)
  BY DEF NoneOf
<1>2. group = (IF server.told THEN server.group ELSE 1) /\ codes = TranslateKeysyms(server.keymap, modes[mode])
  BY <1>1, Zenon DEF KeysInv, GroupReported, KeymapReported
<1>3. QED
  BY <1>2 DEF KeysInv, GrabsFollow

\* The bindings of the current mode
LEMMA CurrentMode ==
    ASSUME KeysInv
    PROVE  /\ Ordered(modes[mode]) /\ DOMAIN modes[mode] \in SUBSET (Nat \ {0})
           /\ \A i \in DOMAIN modes[mode] : modes[mode][i].group \in 0 .. 4
<1>1. PICK f \in Files : modes = ModesOf(f) /\ mode \in DOMAIN ModesOf(f)
  BY DEF KeysInv, BindingsTypes
<1>2. QED
  BY <1>1, ModesAreSorted

LEMMA InvReleaseFollowsPress == ASSUME KeysInv PROVE ReleaseFollowsPress
<1> DEFINE e == Head(events)
           i == ReleaseBinding(e)
           other == {j \in Marked : InGroup(modes[mode][j], e.group) /\ \E c \in codes[j] : c[1] = e.key}
<1> SUFFICES ASSUME e.type = "release", i # 0, ~ModsMatch(i, e)
             PROVE  i \in lastPress
  BY DEF ReleaseFollowsPress, GetBinding
<1>1. (Hits(e) \cap UponRelease) \cup other \in SUBSET (Nat \ {0})
  BY CurrentMode DEF Hits, UponRelease, Marked
<1>2. i \in (Hits(e) \cap UponRelease) \cup other
  BY <1>1, LeastIsFirst DEF ReleaseBinding
<1>3. i \notin Hits(e)
  BY DEF Hits
<1>4. i \in Nat /\ <<mode, i>> \in ignoreMods
  BY <1>1, <1>2, <1>3 DEF Marked
<1>5. QED
  BY <1>4 DEF KeysInv, MarksFollow

\* The first binding that a press matches has the greatest mask of those it matches.
LEMMA InvRunsMostSpecific == ASSUME KeysInv PROVE RunsMostSpecific
<1> DEFINE e == Head(events)
           s == modes[mode]
           i == PressBinding(e)
           all == Hits(e) \ UponRelease
<1> SUFFICES ASSUME e.type = "press", i # 0, NEW j \in all
             PROVE  /\ s[j].group # 0 => s[i].group # 0
                    /\ s[j].group = s[i].group /\ "num" \in s[j].mods => "num" \in s[i].mods
  BY DEF RunsMostSpecific, GetBinding
<1>1. all \subseteq DOMAIN s /\ DOMAIN s \in SUBSET (Nat \ {0})
  BY CurrentMode DEF Hits
<1>2. i \in all /\ i <= j
  BY <1>1, LeastIsFirst DEF PressBinding
<1>3. s[i].group \in 0 .. 4 /\ s[j].group \in 0 .. 4
  BY <1>1, <1>2, CurrentMode
<1> HIDE DEF i, s
<1>4. Mask(s[i]) >= Mask(s[j])
  <2>1. CASE i = j
    BY <1>3, <2>1, MaskIsNat
  <2>2. CASE i < j
    BY <1>1, <1>2, <2>2, CurrentMode DEF Ordered, s
  <2>3. QED
    BY <1>1, <1>2, <2>1, <2>2
<1>5. \A g \in 1 .. 4 : GroupMask[g] \in Nat /\ GroupMask[g] > 17
  BY DEF GroupMask
<1>6. QED
  BY <1>3, <1>4, <1>5 DEF Mask

\* For any keys, keymaps, configuration files and number of events that wait: once i3
\* has handled what the server reported it has grabbed the keys of the current mode
\* (switch_mode(), grab_all_keys(), handle_event()); a release that comes with other
\* modifiers runs a binding only if the last press in this mode matched it; and of the
\* bindings a press matches the most specific one runs (get_binding()).
THEOREM KeysDo == BindingsSpec => []KeysDoAsBound
<1>1. BindingsInit => KeysInv
  BY BindingsInitOK
<1>2. KeysInv /\ [BindingsNext]_bindingsVars => KeysInv'
  BY BindingsStepOK
<1>3. KeysInv => KeysDoAsBound
  BY InvKeysAreGrabbed, InvReleaseFollowsPress, InvRunsMostSpecific DEF KeysDoAsBound
<1>4. QED
  BY <1>1, <1>2, <1>3, PTL DEF BindingsSpec
=============================================================================
