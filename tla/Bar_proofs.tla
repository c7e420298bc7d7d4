------------------------------- MODULE Bar_proofs -------------------------------
(***************************************************************************)
(* The tray of i3bar (BarTray), for any clients, outputs and events, what   *)
(* it reads of its commands (BarInput), for any lines and restarts, and the *)
(* bars against i3, X and the two commands (I3bar), for any outputs,        *)
(* configurations and changes.                                              *)
(*                                                                          *)
(* The list of the tray is behind the windows while events are in the queue *)
(* of X, so TrayInStep, which says something when the queue is empty, is no *)
(* induction hypothesis.  TrayInv tells at every moment how far behind the  *)
(* list may be: a living client is listed where it is, because i3bar itself *)
(* moves it; whether it is mapped is as listed unless the last event that   *)
(* still comes of it says otherwise; and a dead one is listed only as long  *)
(* as the event of its end comes.                                           *)
(*                                                                          *)
(* LinesAreWhole needs to know that what is pending and what is in the pipe *)
(* go together (Stream), and that a read keeps them so piece by piece.      *)
(*                                                                          *)
(* BarInStep says something of the workspaces and of what is seen only when *)
(* no message and no event is under way.  BarInv says at every moment what  *)
(* is on its way instead.  The buttons are i3's workspaces, or something is *)
(* asked for or told that will have them asked for again, or that has them; *)
(* old workspaces in the stream are always followed by such a message       *)
(* (Renewed, Fresh), and the subscription to their events by the question   *)
(* for them (Subscribed).  In dock mode, unless the outputs are asked for   *)
(* again, what the bar holds for the visibility of a window is true or an   *)
(* event of it comes, and a status command is stopped only while no window  *)
(* is held for visible or an event comes (Watched).                         *)
(***************************************************************************)
EXTENDS BarTray, BarInput, I3bar, FoldLemmas, SequenceTheorems, FiniteSetTheorems

-----------------------------------------------------------------------------
(* The types, and the invariant *)

Icon == [win : TrayClients, mapped : BOOLEAN]
Notice == [kind : {"dock", "map", "unmap", "property", "destroy"}, win : TrayClients]
Xwindow == [parent : Screens \cup {NoScreen}, mapped : BOOLEAN, wants : BOOLEAN,
            watched : BOOLEAN, alive : BOOLEAN]
TrayTypes ==
    /\ trayclients \in [Screens -> Seq(Icon)]
    /\ outputForTray \in Screens \cup {NoScreen}
    /\ win \in [TrayClients -> Xwindow]
    /\ trayEvents \in Seq(Notice)

\* A window is listed once.
OnePlace ==
    \A s, t \in Screens : \A i \in 1 .. Len(trayclients[s]), j \in 1 .. Len(trayclients[t]) :
        trayclients[s][i].win = trayclients[t][j].win => s = t /\ i = j

\* What the events q tell of the window c, and the last of them
Says(mapped) == IF mapped THEN "map" ELSE "unmap"
Tells(e, c) == e.win = c /\ e.kind \in {"map", "unmap"}
Silent(q, c) == \A n \in 1 .. Len(q) : ~Tells(q[n], c)
LastTells(q, c, kind) ==
    \A n \in 1 .. Len(q) :
        Tells(q[n], c) /\ (\A k \in n + 1 .. Len(q) : ~Tells(q[k], c)) => q[n].kind = kind
Has(q, e) == \E n \in 1 .. Len(q) : q[n] = e
Once(q, e) == \A n, k \in 1 .. Len(q) : q[n] = e /\ q[k] = e => n = k

Lists(s, c) == \E i \in 1 .. Len(trayclients[s]) : trayclients[s][i].win = c
ListsAs(s, c, kind) ==
    \A i \in 1 .. Len(trayclients[s]) : trayclients[s][i].win = c => Says(trayclients[s][i].mapped) = kind

\* A living client is listed where it is; what the list says of it is corrected by the
\* events that come, if it is wrong.  Of a dead one an event comes.
Followed(c) ==
    /\ win[c].alive =>
        /\ \A s \in Screens : Lists(s, c) <=> win[c].parent = s
        /\ win[c].parent # NoScreen => win[c].watched
        /\ LastTells(trayEvents, c, Says(win[c].mapped))
        /\ ~win[c].watched => Silent(trayEvents, c)
        /\ Silent(trayEvents, c) => \A s \in Screens : ListsAs(s, c, Says(win[c].mapped))
        /\ ~Has(trayEvents, Event("destroy", c))
        /\ Has(trayEvents, Event("dock", c)) => win[c].parent = NoScreen
    /\ ~win[c].alive =>
        /\ win[c].parent = NoScreen /\ ~win[c].mapped
        /\ Has(trayEvents, Event("destroy", c)) \/ \A s \in Screens : ~Lists(s, c)
    /\ Once(trayEvents, Event("dock", c))
TrayInv == TrayTypes /\ OnePlace /\ \A c \in TrayClients : Followed(c)

\* What comes for c is the same in p as in q.
SameFor(q, p, c) ==
    /\ Silent(p, c) <=> Silent(q, c)
    /\ \A kind : LastTells(q, c, kind) => LastTells(p, c, kind)
    /\ \A kind : Has(p, Event(kind, c)) <=> Has(q, Event(kind, c))
    /\ Once(q, Event("dock", c)) => Once(p, Event("dock", c))

\* What an event is about
LEMMA EventOf == \A kind, c : Event(kind, c).win = c /\ Event(kind, c).kind = kind
  BY DEF Event

\* An event is one of its kind and window.
LEMMA NoticeOf == ASSUME NEW e \in Notice PROVE e = Event(e.kind, e.win) /\ e.win \in TrayClients
  BY DEF Notice, Event

\* Events that follow those that wait are kept in order.
LEMMA Joined ==
    ASSUME NEW q \in Seq(Notice), NEW r \in Seq(Notice), NEW p, p = q \o r
    PROVE  /\ p \in Seq(Notice) /\ Len(p) = Len(q) + Len(r)
           /\ \A n \in 1 .. Len(q) : p[n] = q[n]
           /\ \A n \in 1 .. Len(r) : p[n + Len(q)] = r[n]
           /\ \A n \in 1 .. Len(p) : n \in 1 .. Len(q) \/ (n - Len(q) \in 1 .. Len(r) /\ p[n] = r[n - Len(q)])
  OBVIOUS

\* No event tells of c if none of those that wait and none of the new ones does.
LEMMA JoinedSilent ==
    ASSUME NEW q \in Seq(Notice), NEW r \in Seq(Notice), NEW p, p = q \o r, NEW c
    PROVE  Silent(p, c) <=> Silent(q, c) /\ Silent(r, c)
<1>1. /\ Len(p) \in Nat /\ Len(q) \in Nat /\ Len(r) \in Nat
      /\ p \in Seq(Notice) /\ Len(p) = Len(q) + Len(r)
      /\ \A n \in 1 .. Len(q) : p[n] = q[n]
      /\ \A n \in 1 .. Len(r) : p[n + Len(q)] = r[n]
      /\ \A n \in 1 .. Len(p) : n \in 1 .. Len(q) \/ (n - Len(q) \in 1 .. Len(r) /\ p[n] = r[n - Len(q)])
  BY Joined
<1>2. ASSUME Silent(p, c) PROVE Silent(q, c)
  BY <1>1, <1>2 DEF Silent
<1>3. ASSUME Silent(p, c) PROVE Silent(r, c)
  <2>1. \A n \in 1 .. Len(r) : n + Len(q) \in 1 .. Len(p)
    BY <1>1
  <2>2. QED
    BY <1>1, <1>3, <2>1 DEF Silent
<1>4. ASSUME Silent(q, c), Silent(r, c) PROVE Silent(p, c)
  BY <1>1, <1>4 DEF Silent
<1>5. QED
  BY <1>2, <1>3, <1>4

\* The last event that tells of c is a new one, or one that waited if no new one tells of it.
LEMMA JoinedTells ==
    ASSUME NEW q \in Seq(Notice), NEW r \in Seq(Notice), NEW p, p = q \o r, NEW c, NEW kind,
           LastTells(r, c, kind), Silent(r, c) => LastTells(q, c, kind)
    PROVE  LastTells(p, c, kind)
<1>1. /\ Len(p) \in Nat /\ Len(q) \in Nat /\ Len(r) \in Nat
      /\ p \in Seq(Notice) /\ Len(p) = Len(q) + Len(r)
      /\ \A n \in 1 .. Len(q) : p[n] = q[n]
      /\ \A n \in 1 .. Len(r) : p[n + Len(q)] = r[n]
      /\ \A n \in 1 .. Len(p) : n \in 1 .. Len(q) \/ (n - Len(q) \in 1 .. Len(r) /\ p[n] = r[n - Len(q)])
  BY Joined
<1> SUFFICES ASSUME NEW n \in 1 .. Len(p), Tells(p[n], c), \A k \in n + 1 .. Len(p) : ~Tells(p[k], c)
             PROVE  p[n].kind = kind
  BY DEF LastTells
<1>2. CASE n \in 1 .. Len(q)
  <2>1. \A k \in n + 1 .. Len(q) : ~Tells(q[k], c)
    BY <1>1, <1>2
  <2>2. Silent(r, c)
    <3>1. \A k \in 1 .. Len(r) : k + Len(q) \in n + 1 .. Len(p)
      BY <1>1, <1>2
    <3>2. QED
      BY <1>1, <3>1 DEF Silent
  <2>3. QED
    BY <1>1, <1>2, <2>1, <2>2 DEF LastTells
<1>3. CASE n - Len(q) \in 1 .. Len(r) /\ p[n] = r[n - Len(q)]
  <2>1. ASSUME NEW k \in (n - Len(q)) + 1 .. Len(r) PROVE ~Tells(r[k], c)
    <3>1. k + Len(q) \in n + 1 .. Len(p) /\ k \in 1 .. Len(r)
      BY <1>1, <1>3
    <3>2. QED
      BY <1>1, <3>1
  <2>2. QED
    BY <1>1, <1>3, <2>1 DEF LastTells
<1>4. QED
  BY <1>1, <1>2, <1>3

\* An event that comes is one that waited or a new one.
LEMMA JoinedHas ==
    ASSUME NEW q \in Seq(Notice), NEW r \in Seq(Notice), NEW p, p = q \o r, NEW e
    PROVE  /\ Has(p, e) <=> Has(q, e) \/ Has(r, e)
           /\ Once(q, e) /\ ~Has(r, e) => Once(p, e)
<1>1. /\ Len(p) \in Nat /\ Len(q) \in Nat /\ Len(r) \in Nat
      /\ p \in Seq(Notice) /\ Len(p) = Len(q) + Len(r)
      /\ \A n \in 1 .. Len(q) : p[n] = q[n]
      /\ \A n \in 1 .. Len(r) : p[n + Len(q)] = r[n]
      /\ \A n \in 1 .. Len(p) : n \in 1 .. Len(q) \/ (n - Len(q) \in 1 .. Len(r) /\ p[n] = r[n - Len(q)])
  BY Joined
<1>2. \A n \in 1 .. Len(r) : n + Len(q) \in 1 .. Len(p)
  BY <1>1
<1>3. \A n \in 1 .. Len(q) : n \in 1 .. Len(p)
  BY <1>1
<1>4. Has(p, e) <=> Has(q, e) \/ Has(r, e)
  <2>1. ASSUME Has(q, e) PROVE Has(p, e)
    BY <1>1, <1>3, <2>1 DEF Has
  <2>2. ASSUME Has(r, e) PROVE Has(p, e)
    <3>1. PICK n \in 1 .. Len(r) : r[n] = e
      BY <2>2 DEF Has
    <3>2. p[n + Len(q)] = e /\ n + Len(q) \in 1 .. Len(p)
      BY <1>1, <1>2, <3>1
    <3>3. QED
      BY <3>2 DEF Has
  <2>3. ASSUME Has(p, e) PROVE Has(q, e) \/ Has(r, e)
    BY <1>1, <2>3 DEF Has
  <2>4. QED
    BY <2>1, <2>2, <2>3
<1>5. ASSUME Once(q, e), ~Has(r, e) PROVE Once(p, e)
  BY <1>1, <1>5 DEF Once, Has
<1>6. QED
  BY <1>4, <1>5

\* New events of other windows change nothing for c.
LEMMA OthersJoin ==
    ASSUME NEW q \in Seq(Notice), NEW r \in Seq(Notice), NEW p, p = q \o r, NEW c,
           \A n \in 1 .. Len(r) : r[n].win # c
    PROVE  SameFor(q, p, c)
<1>1. Silent(r, c) /\ \A kind : LastTells(r, c, kind)
  BY DEF Silent, LastTells, Tells
<1>2. \A kind : ~Has(r, Event(kind, c))
  BY EventOf DEF Has
<1>3. Silent(p, c) <=> Silent(q, c)
  BY <1>1, JoinedSilent
<1>4. ASSUME NEW kind, LastTells(q, c, kind) PROVE LastTells(p, c, kind)
  BY <1>1, <1>4, JoinedTells
<1>5. ASSUME NEW kind
      PROVE  /\ Has(p, Event(kind, c)) <=> Has(q, Event(kind, c))
             /\ Once(q, Event(kind, c)) => Once(p, Event(kind, c))
  <2> DEFINE e == Event(kind, c)
  <2>1. ~Has(r, e)
    BY <1>2
  <2> HIDE DEF e
  <2>2. (Has(p, e) <=> Has(q, e)) /\ (Once(q, e) => Once(p, e))
    BY <2>1, JoinedHas
  <2>3. QED
    BY <2>2 DEF e
<1>6. QED
  BY <1>3, <1>4, <1>5, Zenon DEF SameFor

\* What is left when the first event is taken
LEMMA TailOf ==
    ASSUME NEW q \in Seq(Notice), q # <<>>, NEW p, p = Tail(q)
    PROVE  /\ p \in Seq(Notice) /\ Len(p) = Len(q) - 1 /\ Len(q) \in Nat \ {0}
           /\ \A n \in 1 .. Len(p) : p[n] = q[n + 1] /\ n + 1 \in 1 .. Len(q)
           /\ Head(q) = q[1] /\ q[1] \in Notice
           /\ \A n \in 1 .. Len(q) : n = 1 \/ (n - 1 \in 1 .. Len(p) /\ p[n - 1] = q[n])
  OBVIOUS

\* What is known of c when the first event is taken
LEMMA Taken ==
    ASSUME NEW q \in Seq(Notice), q # <<>>, NEW p, p = Tail(q), NEW c
    PROVE  /\ \A kind : LastTells(q, c, kind) => LastTells(p, c, kind)
           /\ Silent(p, c) /\ ~Tells(Head(q), c) => Silent(q, c)
           /\ \A kind : Silent(p, c) /\ Tells(Head(q), c) /\ LastTells(q, c, kind) => Head(q).kind = kind
           /\ Silent(q, c) => Silent(p, c)
           /\ \A e : Has(p, e) => Has(q, e)
           /\ \A e : Has(q, e) /\ Head(q) # e => Has(p, e)
           /\ \A e : Once(q, e) => Once(p, e)
           /\ \A e : Once(q, e) /\ Head(q) = e => ~Has(p, e)
<1>1. /\ p \in Seq(Notice) /\ Len(p) = Len(q) - 1 /\ Len(q) \in Nat \ {0}
      /\ \A n \in 1 .. Len(p) : p[n] = q[n + 1] /\ n + 1 \in 1 .. Len(q)
      /\ Head(q) = q[1] /\ q[1] \in Notice
      /\ \A n \in 1 .. Len(q) : n = 1 \/ (n - 1 \in 1 .. Len(p) /\ p[n - 1] = q[n])
  BY TailOf
<1>2. ASSUME NEW kind, LastTells(q, c, kind) PROVE LastTells(p, c, kind)
  <2> SUFFICES ASSUME NEW n \in 1 .. Len(p), Tells(p[n], c), \A k \in n + 1 .. Len(p) : ~Tells(p[k], c)
               PROVE  p[n].kind = kind
    BY DEF LastTells
  <2>1. ASSUME NEW k \in (n + 1) + 1 .. Len(q) PROVE ~Tells(q[k], c)
    <3>1. k - 1 \in n + 1 .. Len(p) /\ k \in 1 .. Len(q) /\ k # 1
      BY <1>1
    <3>2. QED
      BY <1>1, <3>1
  <2>2. QED
    BY <1>1, <1>2, <2>1 DEF LastTells
<1>3. ASSUME Silent(p, c), ~Tells(Head(q), c) PROVE Silent(q, c)
  BY <1>1, <1>3 DEF Silent
<1>4. ASSUME NEW kind, Silent(p, c), Tells(Head(q), c), LastTells(q, c, kind) PROVE Head(q).kind = kind
  <2>1. ASSUME NEW k \in 1 + 1 .. Len(q) PROVE ~Tells(q[k], c)
    <3>1. k \in 1 .. Len(q) /\ k # 1
      BY <1>1
    <3>2. QED
      BY <1>1, <1>4, <3>1 DEF Silent
  <2>2. 1 \in 1 .. Len(q) /\ Head(q) = q[1]
    BY <1>1
  <2>3. QED
    BY <1>4, <2>1, <2>2 DEF LastTells
<1>5. ASSUME Silent(q, c) PROVE Silent(p, c)
  BY <1>1, <1>5 DEF Silent
<1>6. ASSUME NEW e, Has(p, e) PROVE Has(q, e)
  BY <1>1, <1>6 DEF Has
<1>7. ASSUME NEW e, Has(q, e), Head(q) # e PROVE Has(p, e)
  BY <1>1, <1>7 DEF Has
<1>8. ASSUME NEW e, Once(q, e) PROVE Once(p, e)
  BY <1>1, <1>8 DEF Once
<1>9. ASSUME NEW e, Once(q, e), Head(q) = e PROVE ~Has(p, e)
  BY <1>1, <1>9 DEF Once, Has
<1>10. QED
  BY <1>2, <1>3, <1>4, <1>5, <1>6, <1>7, <1>8, <1>9, Zenon

\* When an event of another window is taken, nothing changes for c.
LEMMA OthersTaken ==
    ASSUME NEW q \in Seq(Notice), q # <<>>, NEW p, p = Tail(q), NEW c, Head(q).win # c
    PROVE  SameFor(q, p, c)
<1>1. ~Tells(Head(q), c) /\ \A kind : Head(q) # Event(kind, c)
  BY EventOf DEF Tells
<1>2. QED
  BY <1>1, Taken, Zenon DEF SameFor

\* Nothing changes for c in two steps that change nothing for it.
LEMMA SameForTrans ==
    ASSUME NEW q, NEW p, NEW r, NEW c, SameFor(q, p, c), SameFor(p, r, c)
    PROVE  SameFor(q, r, c)
  BY Zenon DEF SameFor

\* Where c is listed has not changed.
SameLists(c) ==
    \A s \in Screens :
        /\ \A i \in 1 .. Len(trayclients[s]) : trayclients[s][i].win = c =>
               \E j \in 1 .. Len(trayclients'[s]) : trayclients'[s][j] = trayclients[s][i]
        /\ \A i \in 1 .. Len(trayclients'[s]) : trayclients'[s][i].win = c =>
               \E j \in 1 .. Len(trayclients[s]) : trayclients[s][j] = trayclients'[s][i]

\* If the entries of c stay, c is listed where and as it was.
LEMMA SameListsAs ==
    ASSUME NEW c, SameLists(c)
    PROVE  \A s \in Screens : (Lists(s, c)' <=> Lists(s, c))
                             /\ (\A kind : ListsAs(s, c, kind) => ListsAs(s, c, kind)')
<1> SUFFICES ASSUME NEW s \in Screens
             PROVE  (Lists(s, c)' <=> Lists(s, c))
                    /\ (\A kind : ListsAs(s, c, kind) => ListsAs(s, c, kind)')
  OBVIOUS
<1>1. Lists(s, c)' <=> Lists(s, c)
  BY DEF SameLists, Lists
<1>2. ASSUME NEW kind, ListsAs(s, c, kind) PROVE ListsAs(s, c, kind)'
  BY <1>2 DEF SameLists, ListsAs
<1>3. QED
  BY <1>1, <1>2

\* Nothing happens to c.
LEMMA Untouched ==
    ASSUME NEW c, Followed(c), win'[c] = win[c], SameLists(c),
           SameFor(trayEvents, trayEvents', c)
    PROVE  Followed(c)'
<1>1. \A s \in Screens : (Lists(s, c)' <=> Lists(s, c))
                          /\ (\A kind : ListsAs(s, c, kind) => ListsAs(s, c, kind)')
  BY SameListsAs
<1>2. CASE win[c].alive
  <2>0. PICK says : says = Says(win[c].mapped)
    OBVIOUS
  <2>1. says = Says(win[c].mapped) /\ Says(win[c].mapped)' = says
    BY <2>0 DEF Says
  <2>2. /\ LastTells(trayEvents, c, says)
        /\ Silent(trayEvents, c) => \A s \in Screens : ListsAs(s, c, says)
    BY <1>2, <2>1 DEF Followed
  <2>3. /\ LastTells(trayEvents', c, says)
        /\ Silent(trayEvents', c) <=> Silent(trayEvents, c)
    BY <2>2, Zenon DEF SameFor
  <2>4. Silent(trayEvents', c) => \A s \in Screens : ListsAs(s, c, says)'
    BY <1>1, <2>2, <2>3
  <2>5. \A kind : Has(trayEvents', Event(kind, c)) <=> Has(trayEvents, Event(kind, c))
    BY Zenon DEF SameFor
  <2>6. Once(trayEvents', Event("dock", c))
    BY Zenon DEF SameFor, Followed
  <2>7. LastTells(trayEvents, c, Says(win[c].mapped))'
    BY <2>1, <2>3
  <2>8. Silent(trayEvents, c)' => \A s \in Screens : ListsAs(s, c, Says(win[c].mapped))'
    BY <2>1, <2>4
  <2>9. \A s \in Screens : Lists(s, c)' <=> win'[c].parent = s
    BY <1>1, <1>2 DEF Followed
  <2>10. /\ win'[c].alive
         /\ win'[c].parent # NoScreen => win'[c].watched
         /\ ~win'[c].watched => Silent(trayEvents', c)
    BY <1>2, <2>3 DEF Followed
  <2>11. /\ ~Has(trayEvents', Event("destroy", c))
         /\ Has(trayEvents', Event("dock", c)) => win'[c].parent = NoScreen
    BY <1>2, <2>5 DEF Followed
  <2>12. QED
    BY <2>6, <2>7, <2>8, <2>9, <2>10, <2>11 DEF Followed
<1>3. CASE ~win[c].alive
  BY <1>1, <1>3, Zenon DEF Followed, SameFor
<1>4. QED
  BY <1>2, <1>3

\* The tray as it was lists c where it was.
LEMMA ListsUnchanged == ASSUME NEW c, UNCHANGED trayclients PROVE SameLists(c)
  BY DEF SameLists

\* A single event, as a sequence
LEMMA OneEvent ==
    ASSUME NEW e \in Notice, NEW r, r = <<e>>
    PROVE  r \in Seq(Notice) /\ Len(r) = 1 /\ r[1] = e /\ \A n \in 1 .. Len(r) : n = 1
  OBVIOUS

\* One event, or none, comes for a window that is watched or is not.
LEMMA ToldOf ==
    ASSUME NEW w, NEW kind, NEW c, Event(kind, c) \in Notice, NEW r, r = Told(w, kind, c)
    PROVE  /\ r \in Seq(Notice)
           /\ \A n \in 1 .. Len(r) : r[n].win = c /\ r[n] = Event(kind, c)
           /\ w[c].watched => Len(r) = 1 /\ r[1] = Event(kind, c)
           /\ ~w[c].watched => Len(r) = 0
<1>1. Event(kind, c) \in Notice /\ Event(kind, c).win = c
  BY EventOf
<1>2. CASE w[c].watched
  <2>1. r = <<Event(kind, c)>>
    BY <1>2 DEF Told
  <2>2. QED
    BY <1>1, <1>2, <2>1, OneEvent
<1>3. CASE ~w[c].watched
  <2>1. r = <<>>
    BY <1>3 DEF Told
  <2>2. QED
    BY <1>3, <2>1
<1>4. QED
  BY <1>2, <1>3

\* trayclient_and_output_from_window finds the one place.
LEMMA EntryOf ==
    ASSUME TrayTypes, OnePlace, NEW s \in Screens, NEW i \in 1 .. Len(trayclients[s])
    PROVE  Entry(s, trayclients[s][i].win) = i
<1> DEFINE c == trayclients[s][i].win
           I == {j \in 1 .. Len(trayclients[s]) : trayclients[s][j].win = c}
<1>1. I = {i}
  BY DEF OnePlace
<1>2. Min(I) = i
  <2>1. i \in Nat
    OBVIOUS
  <2>2. Min({i}) = i
    BY <2>1 DEF Min
  <2>3. QED
    BY <1>1, <2>2
<1>3. Entry(s, c) = IF I # {} THEN Min(I) ELSE 0
  BY DEF Entry, SelectInSeq
<1>4. QED
  BY <1>1, <1>2, <1>3

\* No entry is found for a client that a bar does not list.
LEMMA EntryNone ==
    ASSUME NEW s \in Screens, NEW c, ~Lists(s, c)
    PROVE  Entry(s, c) = 0
<1> DEFINE I == {j \in 1 .. Len(trayclients[s]) : trayclients[s][j].win = c}
<1>1. I = {}
  BY DEF Lists
<1>2. Entry(s, c) = IF I # {} THEN Min(I) ELSE 0
  BY DEF Entry, SelectInSeq
<1>3. QED
  BY <1>1, <1>2

\* The bar that lists a client is the one found for it.
LEMMA OutputFound ==
    ASSUME TrayTypes, OnePlace, NEW s \in Screens, NEW i \in 1 .. Len(trayclients[s])
    PROVE  OutputOf(trayclients[s][i].win) = s
<1> DEFINE c == trayclients[s][i].win
<1>1. Entry(s, c) # 0
  BY EntryOf
<1>2. ASSUME NEW t \in Screens, Entry(t, c) # 0 PROVE t = s
  <2>1. Lists(t, c)
    BY <1>2, EntryNone
  <2>2. QED
    BY <2>1 DEF Lists, OnePlace
<1> HIDE DEF c
<1>3. OutputOf(c) = s
  BY <1>1, <1>2 DEF OutputOf
<1>4. QED
  BY <1>3 DEF c

\* No bar is found for a client that none lists.
LEMMA OutputNone ==
    ASSUME NEW c, \A s \in Screens : ~Lists(s, c)
    PROVE  OutputOf(c) = NoScreen
  BY EntryNone DEF OutputOf

\* An event of c is handled, and others follow.
LEMMA FollowSame ==
    ASSUME TrayTypes, NEW kind, NEW c, NextEvent(kind, c), NEW more \in Seq(Notice), Follow(more),
           \A n \in 1 .. Len(more) : more[n].win = c
    PROVE  /\ trayEvents' \in Seq(Notice)
           /\ \A b : b # c => SameFor(trayEvents, trayEvents', b)
<1> DEFINE q == trayEvents
<1>1. PICK p : p = Tail(q)
  OBVIOUS
<1>2. q \in Seq(Notice) /\ q # <<>> /\ Head(q).win = c
  BY EventOf DEF TrayTypes, NextEvent
<1>3. p \in Seq(Notice) /\ trayEvents' = p \o more
  BY <1>1, <1>2, TailOf DEF Follow
<1>4. ASSUME NEW b, b # c PROVE SameFor(q, trayEvents', b)
  <2>1. SameFor(q, p, b)
    BY <1>1, <1>2, <1>4, OthersTaken
  <2>2. SameFor(p, trayEvents', b)
    BY <1>3, <1>4, OthersJoin
  <2>3. QED
    BY <2>1, <2>2, SameForTrans
<1>5. trayEvents' \in Seq(Notice)
  BY <1>3
<1>6. QED
  BY <1>4, <1>5

\* What is left for c when its event is handled
LEMMA FollowMine ==
    ASSUME TrayTypes, NEW kind, NEW c, NextEvent(kind, c), NEW more \in Seq(Notice), Follow(more)
    PROVE  /\ \A k : LastTells(trayEvents, c, k) /\ LastTells(more, c, k) => LastTells(trayEvents', c, k)
           /\ \A k : LastTells(more, c, k) /\ ~Silent(more, c) => LastTells(trayEvents', c, k)
           /\ Silent(trayEvents', c) => Silent(more, c)
           /\ Silent(trayEvents, c) /\ Silent(more, c) => Silent(trayEvents', c)
           /\ Silent(trayEvents', c) /\ kind \notin {"map", "unmap"} => Silent(trayEvents, c)
           /\ Silent(trayEvents', c) /\ kind \in {"map", "unmap"} =>
                  \A k : LastTells(trayEvents, c, k) => k = kind
           /\ \A e : Has(trayEvents', e) => Has(trayEvents, e) \/ Has(more, e)
           /\ \A e : e # Event(kind, c) /\ Has(trayEvents, e) => Has(trayEvents', e)
           /\ \A e : Once(trayEvents, e) /\ ~Has(more, e) => Once(trayEvents', e)
           /\ Once(trayEvents, Event(kind, c)) /\ ~Has(more, Event(kind, c)) => ~Has(trayEvents', Event(kind, c))
<1> DEFINE q == trayEvents
<1>1. PICK p : p = Tail(q)
  OBVIOUS
<1>2. q \in Seq(Notice) /\ q # <<>> /\ Head(q) = Event(kind, c) /\ Head(q).win = c /\ Head(q).kind = kind
  BY EventOf DEF TrayTypes, NextEvent
<1>3. p \in Seq(Notice)
  BY <1>1, <1>2, TailOf
<1>4. PICK r : r = trayEvents'
  OBVIOUS
<1>5. r = p \o more
  BY <1>1, <1>4 DEF Follow
<1>6. Tells(Head(q), c) <=> kind \in {"map", "unmap"}
  BY <1>2 DEF Tells
<1>7. /\ \A k : LastTells(q, c, k) => LastTells(p, c, k)
      /\ Silent(p, c) /\ ~Tells(Head(q), c) => Silent(q, c)
      /\ \A k : Silent(p, c) /\ Tells(Head(q), c) /\ LastTells(q, c, k) => Head(q).kind = k
      /\ Silent(q, c) => Silent(p, c)
      /\ \A e : Has(p, e) => Has(q, e)
      /\ \A e : Has(q, e) /\ Head(q) # e => Has(p, e)
      /\ \A e : Once(q, e) => Once(p, e)
      /\ \A e : Once(q, e) /\ Head(q) = e => ~Has(p, e)
  BY <1>1, <1>2, Taken
<1>8. Silent(r, c) <=> Silent(p, c) /\ Silent(more, c)
  BY <1>3, <1>5, JoinedSilent
<1>9. \A k : LastTells(more, c, k) /\ (Silent(more, c) => LastTells(p, c, k)) => LastTells(r, c, k)
  BY <1>3, <1>5, JoinedTells
<1>10. \A e : (Has(r, e) <=> Has(p, e) \/ Has(more, e)) /\ (Once(p, e) /\ ~Has(more, e) => Once(r, e))
  BY <1>3, <1>5, JoinedHas
<1> HIDE DEF q
<1>11. /\ \A k : LastTells(q, c, k) /\ LastTells(more, c, k) => LastTells(r, c, k)
       /\ \A k : LastTells(more, c, k) /\ ~Silent(more, c) => LastTells(r, c, k)
       /\ Silent(r, c) => Silent(more, c)
       /\ Silent(q, c) /\ Silent(more, c) => Silent(r, c)
       /\ Silent(r, c) /\ kind \notin {"map", "unmap"} => Silent(q, c)
  BY <1>6, <1>7, <1>8, <1>9, Zenon
<1>12. Silent(r, c) /\ kind \in {"map", "unmap"} => \A k : LastTells(q, c, k) => k = kind
  BY <1>2, <1>6, <1>7, <1>8, Zenon
<1>13. /\ \A e : Has(r, e) => Has(q, e) \/ Has(more, e)
       /\ \A e : e # Event(kind, c) /\ Has(q, e) => Has(r, e)
       /\ \A e : Once(q, e) /\ ~Has(more, e) => Once(r, e)
       /\ Once(q, Event(kind, c)) /\ ~Has(more, Event(kind, c)) => ~Has(r, Event(kind, c))
  BY <1>2, <1>7, <1>10, Zenon
<1>14. QED
  BY <1>4, <1>11, <1>12, <1>13 DEF q

\* No event tells anything.
LEMMA Nothing ==
    /\ <<>> \in Seq(Notice)
    /\ \A c : Silent(<<>>, c) /\ (\A n \in 1 .. Len(<<>>) : <<>>[n].win = c)
    /\ \A c, kind : LastTells(<<>>, c, kind)
    /\ \A e : ~Has(<<>>, e)
  BY DEF Silent, LastTells, Has

\* An icon is noted as mapped or not.
Noting(s, i, m) == [trayclients EXCEPT ![s][i].mapped = m]
LEMMA IconNoted ==
    ASSUME TrayTypes, NEW s \in Screens, NEW i \in 1 .. Len(trayclients[s]), NEW m \in BOOLEAN,
           trayclients' = Noting(s, i, m)
    PROVE  /\ trayclients' \in [Screens -> Seq(Icon)]
           /\ \A t \in Screens \ {s} : trayclients'[t] = trayclients[t]
           /\ Len(trayclients'[s]) = Len(trayclients[s])
           /\ \A j \in 1 .. Len(trayclients[s]) : j # i => trayclients'[s][j] = trayclients[s][j]
           /\ \A j \in 1 .. Len(trayclients[s]) : trayclients'[s][j].win = trayclients[s][j].win
           /\ Says(trayclients'[s][i].mapped) = Says(m)
<1> DEFINE e == [trayclients[s][i] EXCEPT !.mapped = m]
           L == [trayclients[s] EXCEPT ![i] = e]
<1>1. trayclients[s] \in Seq(Icon) /\ trayclients[s][i] \in Icon
  BY DEF TrayTypes
<1>2. e \in Icon /\ e.win = trayclients[s][i].win /\ e.mapped = m
  BY <1>1 DEF Icon
<1>3. trayclients' = [trayclients EXCEPT ![s] = L]
  BY DEF Noting
<1> HIDE DEF e
<1>4. /\ L \in Seq(Icon) /\ Len(L) = Len(trayclients[s]) /\ L[i] = e
      /\ \A j \in 1 .. Len(trayclients[s]) : j # i => L[j] = trayclients[s][j]
  BY <1>1, <1>2
<1> HIDE DEF L
<1>5. /\ trayclients' \in [Screens -> Seq(Icon)] /\ trayclients'[s] = L
      /\ \A t \in Screens \ {s} : trayclients'[t] = trayclients[t]
  BY <1>3, <1>4 DEF TrayTypes
<1>6. Says(L[i].mapped) = Says(m)
  BY <1>2, <1>4
<1>7. \A j \in 1 .. Len(trayclients[s]) : L[j].win = trayclients[s][j].win
  BY <1>2, <1>4
<1>8. QED
  BY <1>4, <1>5, <1>6, <1>7

\* If the bars list the same windows at the same places, each stays listed once.
LEMMA OnePlaceKept ==
    ASSUME OnePlace,
           \A s \in Screens : Len(trayclients'[s]) = Len(trayclients[s]),
           \A s \in Screens : \A j \in 1 .. Len(trayclients[s]) :
               trayclients'[s][j].win = trayclients[s][j].win
    PROVE  OnePlace'
  BY DEF OnePlace

\* handle_map_notify, handle_unmap_notify
LEMMA MappingHeard ==
    ASSUME TrayInv, NEW c \in TrayClients, NEW m \in BOOLEAN, NextEvent(Says(m), c), Follow(<<>>),
           SetMapped(c, m), UNCHANGED <<outputForTray, win>>
    PROVE  TrayInv'
<1>1. TrayTypes /\ OnePlace /\ \A b \in TrayClients : Followed(b)
  BY DEF TrayInv
<1>2. PICK kind : kind = Says(m) /\ kind \in {"map", "unmap"}
  BY DEF Says
<1>3. NextEvent(kind, c)
  BY <1>2
<1>4. PICK more : more = <<>>
  OBVIOUS
<1>5. /\ more \in Seq(Notice) /\ Silent(more, c) /\ (\A n \in 1 .. Len(more) : more[n].win = c)
      /\ \A k : LastTells(more, c, k)
      /\ \A e : ~Has(more, e)
      /\ Follow(more)
  BY <1>4, Nothing
<1>6. trayEvents' \in Seq(Notice) /\ \A b : b # c => SameFor(trayEvents, trayEvents', b)
  BY <1>1, <1>3, <1>5, FollowSame
<1>7. /\ \A k : LastTells(trayEvents, c, k) => LastTells(trayEvents', c, k)
      /\ Silent(trayEvents, c) => Silent(trayEvents', c)
      /\ Silent(trayEvents', c) => \A k : LastTells(trayEvents, c, k) => k = kind
      /\ \A e : Has(trayEvents', e) => Has(trayEvents, e)
      /\ \A e : e # Event(kind, c) /\ Has(trayEvents, e) => Has(trayEvents', e)
      /\ \A e : Once(trayEvents, e) => Once(trayEvents', e)
  <2>1. kind \in {"map", "unmap"}
    BY <1>2
  <2>2. QED
    BY <1>1, <1>3, <1>5, <2>1, FollowMine
<1>8. ASSUME trayclients' \in [Screens -> Seq(Icon)], OnePlace',
             \A b \in TrayClients : b # c => SameLists(b),
             \A t \in Screens : Lists(t, c)' <=> Lists(t, c),
             \A t \in Screens : ListsAs(t, c, kind)'
      PROVE  TrayInv'
  <2>1. TrayTypes'
    BY <1>1, <1>6, <1>8 DEF TrayTypes
  <2>2. ASSUME NEW b \in TrayClients, b # c PROVE Followed(b)'
    BY <1>1, <1>6, <1>8, <2>2, Untouched
  <2>3. Followed(c)'
    <3>1. CASE win[c].alive
      <4>1. PICK says : says = Says(win[c].mapped)
        OBVIOUS
      <4>2. Says(win[c].mapped)' = says
        BY <4>1 DEF Says
      <4>3. LastTells(trayEvents, c, says) /\ (Silent(trayEvents', c) => says = kind)
        BY <1>1, <1>7, <3>1, <4>1 DEF Followed
      <4>4. Silent(trayEvents, c)' => \A s \in Screens : ListsAs(s, c, Says(win[c].mapped))'
        BY <1>8, <4>2, <4>3
      <4>5. LastTells(trayEvents, c, Says(win[c].mapped))'
        BY <1>7, <4>2, <4>3
      <4>6. \A s \in Screens : Lists(s, c)' <=> win'[c].parent = s
        BY <1>1, <1>8, <3>1 DEF Followed
      <4>7. /\ ~Has(trayEvents', Event("destroy", c))
            /\ Has(trayEvents', Event("dock", c)) => win'[c].parent = NoScreen
            /\ Once(trayEvents', Event("dock", c))
            /\ ~win'[c].watched => Silent(trayEvents', c)
            /\ win'[c].parent # NoScreen => win'[c].watched
        BY <1>1, <1>7, <3>1 DEF Followed
      <4>8. QED
        BY <3>1, <4>4, <4>5, <4>6, <4>7 DEF Followed
    <3>2. CASE ~win[c].alive
      <4>1. /\ win'[c].parent = NoScreen /\ ~win'[c].mapped /\ ~win'[c].alive
            /\ Once(trayEvents', Event("dock", c))
        BY <1>1, <1>7, <3>2 DEF Followed
      <4>2. Event("destroy", c) # Event(kind, c)
        BY <1>2, EventOf
      <4>3. Has(trayEvents', Event("destroy", c)) \/ \A s \in Screens : ~Lists(s, c)'
        BY <1>1, <1>7, <1>8, <3>2, <4>2 DEF Followed
      <4>4. QED
        BY <4>1, <4>3 DEF Followed
    <3>3. QED
      BY <3>1, <3>2
  <2>4. QED
    BY <1>8, <2>1, <2>2, <2>3 DEF TrayInv
<1>9. CASE \A s \in Screens : ~Lists(s, c)
  <2>1. trayclients' = trayclients
    BY <1>9, OutputNone DEF SetMapped
  <2>2. QED
    BY <1>1, <1>8, <1>9, <2>1 DEF TrayTypes, OnePlace, SameLists, Lists, ListsAs
<1>10. CASE \E s \in Screens : Lists(s, c)
  <2>1. PICK s \in Screens : \E i \in 1 .. Len(trayclients[s]) : trayclients[s][i].win = c
    BY <1>10 DEF Lists
  <2>2. PICK i \in 1 .. Len(trayclients[s]) : trayclients[s][i].win = c
    BY <2>1
  <2>3. OutputOf(c) = s /\ Entry(s, c) = i
    BY <1>1, <2>2, EntryOf, OutputFound
  <2>4. trayclients' = Noting(s, i, m)
    BY <2>3, TrayAssumption DEF SetMapped, Noting
  <2>5. /\ trayclients' \in [Screens -> Seq(Icon)]
        /\ \A t \in Screens \ {s} : trayclients'[t] = trayclients[t]
        /\ Len(trayclients'[s]) = Len(trayclients[s])
        /\ \A j \in 1 .. Len(trayclients[s]) : j # i => trayclients'[s][j] = trayclients[s][j]
        /\ \A j \in 1 .. Len(trayclients[s]) : trayclients'[s][j].win = trayclients[s][j].win
        /\ Says(trayclients'[s][i].mapped) = kind
    <3>1. /\ trayclients' \in [Screens -> Seq(Icon)]
          /\ \A t \in Screens \ {s} : trayclients'[t] = trayclients[t]
          /\ Len(trayclients'[s]) = Len(trayclients[s])
          /\ \A j \in 1 .. Len(trayclients[s]) : j # i => trayclients'[s][j] = trayclients[s][j]
          /\ \A j \in 1 .. Len(trayclients[s]) : trayclients'[s][j].win = trayclients[s][j].win
          /\ Says(trayclients'[s][i].mapped) = Says(m)
      BY <1>1, <2>4, IconNoted
    <3>2. QED
      BY <1>2, <3>1
  <2>6. OnePlace'
    BY <1>1, <2>5, OnePlaceKept
  <2>7. ASSUME NEW b \in TrayClients, b # c PROVE SameLists(b)
    BY <2>2, <2>5, <2>7 DEF SameLists
  <2>8. \A t \in Screens : Lists(t, c)' <=> Lists(t, c)
    BY <2>5 DEF Lists
  <2>9. \A t \in Screens : ListsAs(t, c, kind)'
    <3> SUFFICES ASSUME NEW t \in Screens, NEW j \in 1 .. Len(trayclients'[t]), trayclients'[t][j].win = c
                 PROVE  Says(trayclients'[t][j].mapped) = kind
      BY DEF ListsAs
    <3>1. t # s => trayclients'[t] = trayclients[t]
      BY <2>5
    <3>2. trayclients[t][j].win = c /\ j \in 1 .. Len(trayclients[t])
      BY <2>5, <3>1
    <3>3. t = s /\ j = i
      BY <1>1, <2>2, <3>2 DEF OnePlace
    <3>4. QED
      BY <2>5, <3>3
  <2>10. QED
    BY <1>8, <2>5, <2>6, <2>7, <2>8, <2>9
<1>11. QED
  BY <1>9, <1>10

\* A sequence of events of one kind, of one window
LEMMA OneKind ==
    ASSUME NEW r \in Seq(Notice), NEW c, NEW kind, \A n \in 1 .. Len(r) : r[n] = Event(kind, c)
    PROVE  /\ LastTells(r, c, kind)
           /\ kind \notin {"map", "unmap"} => Silent(r, c) /\ \A k : LastTells(r, c, k)
           /\ kind \in {"map", "unmap"} /\ Len(r) = 1 => ~Silent(r, c)
           /\ \A k : k # kind => ~Has(r, Event(k, c))
           /\ \A n \in 1 .. Len(r) : r[n].win = c
<1>1. \A n \in 1 .. Len(r) : r[n].win = c /\ r[n].kind = kind
  BY EventOf
<1>2. LastTells(r, c, kind)
  BY <1>1 DEF LastTells
<1>3. kind \notin {"map", "unmap"} => Silent(r, c) /\ \A k : LastTells(r, c, k)
  BY <1>1 DEF Silent, LastTells, Tells
<1>4. kind \in {"map", "unmap"} /\ Len(r) = 1 => ~Silent(r, c)
  BY <1>1 DEF Silent, Tells
<1>5. ASSUME NEW k, k # kind PROVE ~Has(r, Event(k, c))
  BY <1>1, <1>5, EventOf DEF Has
<1>6. QED
  BY <1>1, <1>2, <1>3, <1>4, <1>5

\* X tells of an unmapped window that is watched, if it was mapped.
LEMMA UnmapTold ==
    ASSUME NEW w, NEW c \in TrayClients, NEW r, r = UnmapEvents(w, c)
    PROVE  /\ r \in Seq(Notice) /\ \A n \in 1 .. Len(r) : r[n] = Event("unmap", c) /\ r[n].win = c
           /\ LastTells(r, c, "unmap")
           /\ w[c].alive /\ w[c].mapped /\ w[c].watched => ~Silent(r, c)
           /\ ~(w[c].alive /\ w[c].mapped /\ w[c].watched) => r = <<>>
           /\ \A k : k # "unmap" => ~Has(r, Event(k, c))
<1>1. CASE w[c].alive /\ w[c].mapped
  <2>0. PICK kind \in {"dock", "map", "unmap", "property", "destroy"} : kind = "unmap" /\ Event(kind, c) \in Notice
    BY DEF Event, Notice
  <2>1. r = Told(w, kind, c)
    BY <1>1, <2>0 DEF UnmapEvents
  <2>2. /\ r \in Seq(Notice)
        /\ \A n \in 1 .. Len(r) : r[n].win = c /\ r[n] = Event("unmap", c)
        /\ w[c].watched => Len(r) = 1
        /\ ~w[c].watched => Len(r) = 0
    <3>1. /\ r \in Seq(Notice)
          /\ \A n \in 1 .. Len(r) : r[n].win = c /\ r[n] = Event(kind, c)
          /\ w[c].watched => Len(r) = 1 /\ r[1] = Event(kind, c)
          /\ ~w[c].watched => Len(r) = 0
      BY <2>0, <2>1, ToldOf
    <3>2. QED
      BY <2>0, <3>1
  <2>3. /\ LastTells(r, c, "unmap")
        /\ Len(r) = 1 => ~Silent(r, c)
        /\ \A k : k # "unmap" => ~Has(r, Event(k, c))
    BY <2>2, OneKind
  <2>4. ~w[c].watched => r = <<>>
    BY <2>2
  <2>5. QED
    BY <1>1, <2>2, <2>3, <2>4
<1>2. CASE ~(w[c].alive /\ w[c].mapped)
  <2>1. r = <<>>
    BY <1>2 DEF UnmapEvents
  <2>2. /\ r \in Seq(Notice) /\ LastTells(r, c, "unmap")
        /\ \A k : ~Has(r, Event(k, c))
        /\ \A n \in 1 .. Len(r) : r[n] = Event("unmap", c) /\ r[n].win = c
    BY <2>1, Nothing
  <2>3. QED
    BY <1>2, <2>1, <2>2
<1>3. QED
  BY <1>1, <1>2

\* X tells of a mapped window that is watched, if it was not mapped.
LEMMA MapTold ==
    ASSUME NEW w, NEW c \in TrayClients, NEW r, r = MapEvents(w, c)
    PROVE  /\ r \in Seq(Notice) /\ \A n \in 1 .. Len(r) : r[n] = Event("map", c) /\ r[n].win = c
           /\ LastTells(r, c, "map")
           /\ w[c].alive /\ ~w[c].mapped /\ w[c].watched => ~Silent(r, c)
           /\ ~(w[c].alive /\ ~w[c].mapped /\ w[c].watched) => r = <<>>
           /\ \A k : k # "map" => ~Has(r, Event(k, c))
<1>1. CASE w[c].alive /\ ~w[c].mapped
  <2>0. PICK kind \in {"dock", "map", "unmap", "property", "destroy"} : kind = "map" /\ Event(kind, c) \in Notice
    BY DEF Event, Notice
  <2>1. r = Told(w, kind, c)
    BY <1>1, <2>0 DEF MapEvents
  <2>2. /\ r \in Seq(Notice)
        /\ \A n \in 1 .. Len(r) : r[n].win = c /\ r[n] = Event("map", c)
        /\ w[c].watched => Len(r) = 1
        /\ ~w[c].watched => Len(r) = 0
    <3>1. /\ r \in Seq(Notice)
          /\ \A n \in 1 .. Len(r) : r[n].win = c /\ r[n] = Event(kind, c)
          /\ w[c].watched => Len(r) = 1 /\ r[1] = Event(kind, c)
          /\ ~w[c].watched => Len(r) = 0
      BY <2>0, <2>1, ToldOf
    <3>2. QED
      BY <2>0, <3>1
  <2>3. /\ LastTells(r, c, "map")
        /\ Len(r) = 1 => ~Silent(r, c)
        /\ \A k : k # "map" => ~Has(r, Event(k, c))
    BY <2>2, OneKind
  <2>4. ~w[c].watched => r = <<>>
    BY <2>2
  <2>5. QED
    BY <1>1, <2>2, <2>3, <2>4
<1>2. CASE ~(w[c].alive /\ ~w[c].mapped)
  <2>1. r = <<>>
    BY <1>2 DEF MapEvents
  <2>2. /\ r \in Seq(Notice) /\ LastTells(r, c, "map")
        /\ \A k : ~Has(r, Event(k, c))
        /\ \A n \in 1 .. Len(r) : r[n] = Event("map", c) /\ r[n].win = c
    BY <2>1, Nothing
  <2>3. QED
    BY <1>2, <2>1, <2>2
<1>3. QED
  BY <1>1, <1>2

\* A living client stays where it is; if its mapping changes, an event of it is the last one,
\* or it is in no bar.
LEMMA StillFollowed ==
    ASSUME NEW c, Followed(c), win[c].alive, UNCHANGED trayclients,
           win'[c].alive, win'[c].parent = win[c].parent,
           win[c].watched => win'[c].watched,
           LastTells(trayEvents', c, Says(win'[c].mapped)),
           Silent(trayEvents', c) =>
               Silent(trayEvents, c) /\ (Says(win'[c].mapped) = Says(win[c].mapped) \/ win[c].parent = NoScreen),
           ~win'[c].watched /\ Silent(trayEvents, c) => Silent(trayEvents', c),
           Has(trayEvents', Event("destroy", c)) => Has(trayEvents, Event("destroy", c)),
           Has(trayEvents', Event("dock", c)) => Has(trayEvents, Event("dock", c)) \/ win[c].parent = NoScreen,
           Once(trayEvents', Event("dock", c))
    PROVE  Followed(c)'
<1>1. ASSUME NEW s \in Screens
      PROVE  (Lists(s, c)' <=> Lists(s, c)) /\ (\A kind : ListsAs(s, c, kind) => ListsAs(s, c, kind)')
  BY DEF Lists, ListsAs
<1>2. PICK says : says = Says(win[c].mapped)
  OBVIOUS
<1>3. PICK after : after = Says(win'[c].mapped)
  OBVIOUS
<1>4. Silent(trayEvents', c) => (after = says \/ win[c].parent = NoScreen) /\ \A s \in Screens : ListsAs(s, c, says)
  BY <1>2, <1>3 DEF Followed
<1>5. ASSUME NEW s \in Screens, win[c].parent = NoScreen PROVE ListsAs(s, c, after)
  <2>1. ~Lists(s, c)
    BY <1>5, TrayAssumption DEF Followed
  <2>2. QED
    BY <2>1 DEF Lists, ListsAs
<1>6. Silent(trayEvents', c) => \A s \in Screens : ListsAs(s, c, after)'
  BY <1>1, <1>4, <1>5
<1>7. Silent(trayEvents, c)' => \A s \in Screens : ListsAs(s, c, Says(win[c].mapped))'
  BY <1>3, <1>6
<1>8. \A s \in Screens : Lists(s, c)' <=> win'[c].parent = s
  BY <1>1 DEF Followed
<1>9. /\ win'[c].parent # NoScreen => win'[c].watched
      /\ ~win'[c].watched => Silent(trayEvents', c)
      /\ ~Has(trayEvents', Event("destroy", c))
      /\ Has(trayEvents', Event("dock", c)) => win'[c].parent = NoScreen
  BY DEF Followed
<1>10. QED
  BY <1>7, <1>8, <1>9 DEF Followed

\* A dead client is dead; what was on its way comes.
LEMMA StillDead ==
    ASSUME NEW c, Followed(c), ~win[c].alive, UNCHANGED trayclients,
           ~win'[c].alive, win'[c].parent = NoScreen, ~win'[c].mapped,
           Has(trayEvents, Event("destroy", c)) => Has(trayEvents', Event("destroy", c)),
           Once(trayEvents', Event("dock", c))
    PROVE  Followed(c)'
<1>1. ASSUME NEW s \in Screens PROVE Lists(s, c)' <=> Lists(s, c)
  BY DEF Lists
<1>2. Has(trayEvents', Event("destroy", c)) \/ \A s \in Screens : ~Lists(s, c)'
  BY <1>1 DEF Followed
<1>3. QED
  BY <1>2 DEF Followed

\* A step that is about one client, and leaves the lists alone
LEMMA OneFollowed ==
    ASSUME TrayInv, NEW c \in TrayClients, UNCHANGED <<trayclients, outputForTray>>,
           win' \in [TrayClients -> Xwindow], \A b \in TrayClients : b # c => win'[b] = win[b],
           trayEvents' \in Seq(Notice), \A b : b # c => SameFor(trayEvents, trayEvents', b),
           Followed(c)'
    PROVE  TrayInv'
<1>1. TrayTypes' /\ OnePlace'
  BY DEF TrayInv, TrayTypes, OnePlace
<1>2. ASSUME NEW b \in TrayClients, b # c PROVE Followed(b)'
  BY <1>2, ListsUnchanged, Untouched DEF TrayInv
<1>3. QED
  BY <1>1, <1>2 DEF TrayInv

\* X maps and unmaps windows
LEMMA UnmappedOf ==
    ASSUME TrayTypes, NEW c \in TrayClients, win' = Unmapped(win, c)
    PROVE  /\ win' \in [TrayClients -> Xwindow] /\ \A b \in TrayClients : b # c => win'[b] = win[b]
           /\ win'[c].parent = win[c].parent
           /\ win'[c].alive <=> win[c].alive
           /\ win'[c].watched <=> win[c].watched
           /\ ~win'[c].mapped
<1> DEFINE e == [win[c] EXCEPT !.mapped = FALSE]
<1>1. win[c] \in Xwindow
  BY DEF TrayTypes
<1>2. /\ e \in Xwindow /\ e.parent = win[c].parent /\ ~e.mapped
      /\ e.alive <=> win[c].alive
      /\ e.watched <=> win[c].watched
  BY <1>1 DEF Xwindow
<1>3. win' = [win EXCEPT ![c] = e]
  BY DEF Unmapped
<1> HIDE DEF e
<1>4. win' \in [TrayClients -> Xwindow] /\ win'[c] = e /\ \A b \in TrayClients : b # c => win'[b] = win[b]
  BY <1>2, <1>3 DEF TrayTypes
<1>5. QED
  BY <1>2, <1>4

\* What mapping a living window changes
LEMMA MappedOf ==
    ASSUME TrayTypes, NEW c \in TrayClients, win[c].alive, win' = Mapped(win, c)
    PROVE  /\ win' \in [TrayClients -> Xwindow] /\ \A b \in TrayClients : b # c => win'[b] = win[b]
           /\ win'[c].parent = win[c].parent
           /\ win'[c].alive
           /\ win'[c].watched <=> win[c].watched
           /\ win'[c].mapped
<1> DEFINE e == [win[c] EXCEPT !.mapped = win[c].alive]
<1>1. win[c] \in Xwindow
  BY DEF TrayTypes
<1>2. /\ e \in Xwindow /\ e.parent = win[c].parent /\ e.mapped
      /\ e.alive <=> win[c].alive
      /\ e.watched <=> win[c].watched
  BY <1>1 DEF Xwindow
<1>3. win' = [win EXCEPT ![c] = e]
  BY DEF Mapped
<1> HIDE DEF e
<1>4. win' \in [TrayClients -> Xwindow] /\ win'[c] = e /\ \A b \in TrayClients : b # c => win'[b] = win[b]
  BY <1>2, <1>3 DEF TrayTypes
<1>5. QED
  BY <1>2, <1>4

\* An icon that has a place is of a window that is in a bar.
LEMMA InABar ==
    ASSUME NEW c, Followed(c), win[c].alive, OutputOf(c) # NoScreen
    PROVE  win[c].parent # NoScreen /\ win[c].watched
<1>1. PICK s \in Screens : Lists(s, c)
  BY OutputNone
<1>2. QED
  BY <1>1, TrayAssumption DEF Followed

\* handle_property_notify
LEMMA PropertyHeard ==
    ASSUME TrayInv, NEW c \in TrayClients, HandlePropertyNotify(c)
    PROVE  TrayInv'
<1>1. TrayTypes /\ OnePlace /\ \A b \in TrayClients : Followed(b)
  BY DEF TrayInv
<1>2. PICK kind : kind = "property"
  OBVIOUS
<1>3. NextEvent(kind, c) /\ UNCHANGED <<trayclients, outputForTray>>
  BY <1>2 DEF HandlePropertyNotify
<1>4. PICK says : says = Says(win[c].mapped)
  OBVIOUS
<1>5. PICK after : after = Says(win'[c].mapped)
  OBVIOUS
\* It is mapped or unmapped, and more tells of it.
<1>6. ASSUME NEW more \in Seq(Notice), Follow(more), \A n \in 1 .. Len(more) : more[n].win = c,
             ~Has(more, Event("destroy", c)), ~Has(more, Event("dock", c)),
             win' \in [TrayClients -> Xwindow], \A b \in TrayClients : b # c => win'[b] = win[b],
             win'[c].parent = win[c].parent, win'[c].alive, win[c].alive,
             win'[c].watched <=> win[c].watched,
             LastTells(more, c, after),
             after = says \/ ~Silent(more, c),
             win[c].watched \/ Silent(more, c)
      PROVE  TrayInv'
  <2>1. trayEvents' \in Seq(Notice) /\ \A b : b # c => SameFor(trayEvents, trayEvents', b)
    BY <1>1, <1>3, <1>6, FollowSame
  <2>2. /\ \A k : LastTells(trayEvents, c, k) /\ LastTells(more, c, k) => LastTells(trayEvents', c, k)
        /\ \A k : LastTells(more, c, k) /\ ~Silent(more, c) => LastTells(trayEvents', c, k)
        /\ Silent(trayEvents', c) => Silent(more, c)
        /\ Silent(trayEvents, c) /\ Silent(more, c) => Silent(trayEvents', c)
        /\ Silent(trayEvents', c) /\ kind \notin {"map", "unmap"} => Silent(trayEvents, c)
        /\ \A e : Has(trayEvents', e) => Has(trayEvents, e) \/ Has(more, e)
        /\ \A e : Once(trayEvents, e) /\ ~Has(more, e) => Once(trayEvents', e)
    BY <1>1, <1>3, <1>6, FollowMine
  <2>3. LastTells(trayEvents, c, says) /\ Followed(c)
    BY <1>1, <1>4, <1>6 DEF Followed
  <2>4. LastTells(trayEvents', c, Says(win'[c].mapped))
    BY <1>5, <1>6, <2>2, <2>3
  <2>5. Silent(trayEvents', c) => Silent(trayEvents, c) /\ Says(win'[c].mapped) = Says(win[c].mapped)
    BY <1>2, <1>4, <1>5, <1>6, <2>2
  <2>6. ~win'[c].watched /\ Silent(trayEvents, c) => Silent(trayEvents', c)
    BY <1>6, <2>2
  <2>7. /\ Has(trayEvents', Event("destroy", c)) => Has(trayEvents, Event("destroy", c))
        /\ Has(trayEvents', Event("dock", c)) => Has(trayEvents, Event("dock", c))
        /\ Once(trayEvents', Event("dock", c))
    BY <1>6, <2>2, <2>3 DEF Followed
  <2>8. Followed(c)'
    BY <1>3, <1>6, <2>3, <2>4, <2>5, <2>6, <2>7, StillFollowed
  <2>9. QED
    BY <1>3, <1>6, <2>1, <2>8, OneFollowed
<1>7. CASE win[c].alive /\ OutputOf(c) # NoScreen /\ win' = Unmapped(win, c) /\ Follow(UnmapEvents(win, c))
  <2>1. PICK more : more = UnmapEvents(win, c)
    OBVIOUS
  <2>2. /\ more \in Seq(Notice) /\ \A n \in 1 .. Len(more) : more[n] = Event("unmap", c) /\ more[n].win = c
        /\ LastTells(more, c, "unmap")
        /\ win[c].alive /\ win[c].mapped /\ win[c].watched => ~Silent(more, c)
        /\ \A k : k # "unmap" => ~Has(more, Event(k, c))
    BY <2>1, UnmapTold
  <2>3. /\ win' \in [TrayClients -> Xwindow] /\ \A b \in TrayClients : b # c => win'[b] = win[b]
        /\ win'[c].parent = win[c].parent
        /\ win'[c].alive <=> win[c].alive
        /\ win'[c].watched <=> win[c].watched
        /\ ~win'[c].mapped
    BY <1>1, <1>7, UnmappedOf
  <2>4. win[c].watched
    BY <1>1, <1>7, InABar
  <2>5. after = "unmap" /\ (after = says \/ ~Silent(more, c))
    BY <1>4, <1>5, <1>7, <2>2, <2>3, <2>4 DEF Says
  <2>6. ~Has(more, Event("destroy", c)) /\ ~Has(more, Event("dock", c)) /\ Follow(more) /\ LastTells(more, c, after)
    BY <1>7, <2>1, <2>2, <2>5
  <2>7. QED
    BY <1>6, <1>7, <2>2, <2>3, <2>4, <2>5, <2>6
<1>8. CASE win[c].alive /\ OutputOf(c) # NoScreen /\ win' = Mapped(win, c) /\ Follow(MapEvents(win, c))
  <2>1. PICK more : more = MapEvents(win, c)
    OBVIOUS
  <2>2. /\ more \in Seq(Notice) /\ \A n \in 1 .. Len(more) : more[n] = Event("map", c) /\ more[n].win = c
        /\ LastTells(more, c, "map")
        /\ win[c].alive /\ ~win[c].mapped /\ win[c].watched => ~Silent(more, c)
        /\ \A k : k # "map" => ~Has(more, Event(k, c))
    BY <2>1, MapTold
  <2>3. /\ win' \in [TrayClients -> Xwindow] /\ \A b \in TrayClients : b # c => win'[b] = win[b]
        /\ win'[c].parent = win[c].parent
        /\ win'[c].alive
        /\ win'[c].watched <=> win[c].watched
        /\ win'[c].mapped
    BY <1>1, <1>8, MappedOf
  <2>4. win[c].watched
    BY <1>1, <1>8, InABar
  <2>5. after = "map" /\ (after = says \/ ~Silent(more, c))
    BY <1>4, <1>5, <1>8, <2>2, <2>3, <2>4 DEF Says
  <2>6. ~Has(more, Event("destroy", c)) /\ ~Has(more, Event("dock", c)) /\ Follow(more) /\ LastTells(more, c, after)
    BY <1>8, <2>1, <2>2, <2>5
  <2>7. QED
    BY <1>6, <1>8, <2>2, <2>3, <2>4, <2>5, <2>6
<1>9. CASE win' = win /\ Follow(<<>>)
  <2>1. PICK more : more = <<>>
    OBVIOUS
  <2>2. /\ more \in Seq(Notice) /\ Silent(more, c) /\ (\A n \in 1 .. Len(more) : more[n].win = c)
        /\ \A k : LastTells(more, c, k)
        /\ \A e : ~Has(more, e)
        /\ Follow(more)
    BY <1>9, <2>1, Nothing
  <2>3. win' \in [TrayClients -> Xwindow]
    BY <1>1, <1>9 DEF TrayTypes
  <2>4. CASE win[c].alive
    <3>1. after = says
      BY <1>4, <1>5, <1>9 DEF Says
    <3>2. QED
      BY <1>6, <1>9, <2>2, <2>3, <2>4, <3>1
  <2>5. CASE ~win[c].alive
    <3>1. trayEvents' \in Seq(Notice) /\ \A b : b # c => SameFor(trayEvents, trayEvents', b)
      BY <1>1, <1>3, <2>2, FollowSame
    <3>2. /\ \A e : e # Event(kind, c) /\ Has(trayEvents, e) => Has(trayEvents', e)
          /\ \A e : Once(trayEvents, e) /\ ~Has(more, e) => Once(trayEvents', e)
      BY <1>1, <1>3, <2>2, FollowMine
    <3>3. Event("destroy", c) # Event(kind, c)
      BY <1>2, EventOf
    <3>4. Has(trayEvents, Event("destroy", c)) => Has(trayEvents', Event("destroy", c))
      BY <3>2, <3>3
    <3>5. Once(trayEvents', Event("dock", c))
      BY <1>1, <2>2, <3>2 DEF Followed
    <3>6. ~win'[c].alive /\ win'[c].parent = NoScreen /\ ~win'[c].mapped /\ Followed(c)
      BY <1>1, <1>9, <2>5 DEF Followed
    <3>7. Followed(c)'
      BY <1>3, <2>5, <3>4, <3>5, <3>6, StillDead
    <3>8. QED
      BY <1>3, <1>9, <2>3, <3>1, <3>7, OneFollowed
  <2>6. QED
    BY <2>4, <2>5
<1>10. \/ win[c].alive /\ OutputOf(c) # NoScreen /\ win' = Unmapped(win, c) /\ Follow(UnmapEvents(win, c))
       \/ win[c].alive /\ OutputOf(c) # NoScreen /\ win' = Mapped(win, c) /\ Follow(MapEvents(win, c))
       \/ win' = win /\ Follow(<<>>)
  BY Zenon DEF HandlePropertyNotify, Alive
<1>11. QED
  BY <1>7, <1>8, <1>9, <1>10

\* Events of c come.
LEMMA Come ==
    ASSUME TrayTypes, NEW c, NEW more \in Seq(Notice), trayEvents' = trayEvents \o more,
           \A n \in 1 .. Len(more) : more[n].win = c
    PROVE  /\ trayEvents' \in Seq(Notice)
           /\ \A b : b # c => SameFor(trayEvents, trayEvents', b)
           /\ \A k : LastTells(trayEvents, c, k) /\ LastTells(more, c, k) => LastTells(trayEvents', c, k)
           /\ \A k : LastTells(more, c, k) /\ ~Silent(more, c) => LastTells(trayEvents', c, k)
           /\ Silent(trayEvents', c) <=> Silent(trayEvents, c) /\ Silent(more, c)
           /\ \A e : Has(trayEvents', e) <=> Has(trayEvents, e) \/ Has(more, e)
           /\ \A e : Once(trayEvents, e) /\ ~Has(more, e) => Once(trayEvents', e)
<1>1. PICK q \in Seq(Notice) : q = trayEvents
  BY DEF TrayTypes
<1>2. PICK p : p = trayEvents'
  OBVIOUS
<1>3. p = q \o more
  BY <1>1, <1>2
<1>4. p \in Seq(Notice)
  BY <1>3
<1>5. ASSUME NEW b, b # c PROVE SameFor(q, p, b)
  BY <1>3, <1>5, OthersJoin
<1>6. \A k : LastTells(more, c, k) /\ (Silent(more, c) => LastTells(q, c, k)) => LastTells(p, c, k)
  BY <1>3, JoinedTells
<1>7. Silent(p, c) <=> Silent(q, c) /\ Silent(more, c)
  BY <1>3, JoinedSilent
<1>8. \A e : (Has(p, e) <=> Has(q, e) \/ Has(more, e)) /\ (Once(q, e) /\ ~Has(more, e) => Once(p, e))
  BY <1>3, JoinedHas
<1>9. QED
  BY <1>1, <1>2, <1>4, <1>5, <1>6, <1>7, <1>8

\* A request to dock, of which there is none
LEMMA Asked ==
    ASSUME NEW q \in Seq(Notice), NEW e, NEW p, p = q \o <<e>>, e \notin Range(q)
    PROVE  Once(p, e)
<1>1. \A n \in 1 .. Len(q) : q[n] # e
  BY DEF Range
<1>2. Len(q) \in Nat /\ Len(p) = Len(q) + 1 /\ \A n \in 1 .. Len(q) : p[n] = q[n]
  OBVIOUS
<1>3. ASSUME NEW n \in 1 .. Len(p), p[n] = e PROVE n = Len(q) + 1
  <2>1. n \notin 1 .. Len(q)
    BY <1>1, <1>2, <1>3
  <2>2. QED
    BY <1>2, <2>1
<1>4. QED
  BY <1>3 DEF Once

\* read_tray_manager: a living client that has no place asks to be docked.
LEMMA ManagerRead ==
    ASSUME TrayInv, NEW c \in TrayClients, ReadManager(c)
    PROVE  TrayInv'
<1>1. TrayTypes /\ OnePlace /\ \A b \in TrayClients : Followed(b)
  BY DEF TrayInv
<1>2. UNCHANGED <<trayclients, outputForTray, win>> /\ win' \in [TrayClients -> Xwindow]
  BY <1>1 DEF ReadManager, TrayTypes
<1>3. CASE UNCHANGED trayEvents
  <2>1. \A b \in TrayClients : Followed(b)'
    BY <1>1, <1>2, <1>3 DEF Followed, Lists, ListsAs
  <2>2. TrayTypes' /\ OnePlace'
    BY <1>1, <1>2, <1>3 DEF TrayTypes, OnePlace
  <2>3. QED
    BY <2>1, <2>2 DEF TrayInv
<1>4. CASE /\ trayEvents' = Append(trayEvents, Event("dock", c))
           /\ Alive(c) /\ win[c].parent = NoScreen /\ Event("dock", c) \notin Range(trayEvents)
  <2>1. PICK kind : kind = "dock"
    OBVIOUS
  <2>2. PICK e \in Notice : e = Event(kind, c)
    BY <2>1 DEF Event, Notice
  <2>3. PICK more : more = <<e>>
    OBVIOUS
  <2>4. more \in Seq(Notice) /\ Len(more) = 1 /\ more[1] = e /\ \A n \in 1 .. Len(more) : n = 1
    BY <2>3, OneEvent
  <2>5. \A n \in 1 .. Len(more) : more[n] = Event(kind, c)
    BY <2>2, <2>4
  <2>6. /\ kind \notin {"map", "unmap"} => Silent(more, c) /\ \A k : LastTells(more, c, k)
        /\ \A k : k # kind => ~Has(more, Event(k, c))
        /\ \A n \in 1 .. Len(more) : more[n].win = c
    BY <2>4, <2>5, OneKind
  <2>7. trayEvents' = trayEvents \o more
    BY <1>1, <1>4, <2>1, <2>2, <2>3 DEF TrayTypes
  <2>8. /\ trayEvents' \in Seq(Notice)
        /\ \A b : b # c => SameFor(trayEvents, trayEvents', b)
        /\ \A k : LastTells(trayEvents, c, k) /\ LastTells(more, c, k) => LastTells(trayEvents', c, k)
        /\ Silent(trayEvents', c) <=> Silent(trayEvents, c) /\ Silent(more, c)
        /\ \A entry : Has(trayEvents', entry) <=> Has(trayEvents, entry) \/ Has(more, entry)
    BY <1>1, <2>4, <2>6, <2>7, Come
  <2>9. Once(trayEvents', Event("dock", c))
    <3>1. e \notin Range(trayEvents)
      BY <1>4, <2>1, <2>2
    <3>2. PICK p : p = trayEvents'
      OBVIOUS
    <3>3. PICK q \in Seq(Notice) : q = trayEvents
      BY <1>1 DEF TrayTypes
    <3>4. p = q \o <<e>> /\ e \notin Range(q)
      BY <2>3, <2>7, <3>1, <3>2, <3>3
    <3>5. Once(p, e)
      BY <3>4, Asked
    <3>6. QED
      BY <2>1, <2>2, <3>2, <3>5
  <2>10. PICK says : says = Says(win[c].mapped)
    OBVIOUS
  <2>11. says = Says(win'[c].mapped)
    BY <1>2, <2>10
  <2>12. LastTells(trayEvents', c, Says(win'[c].mapped))
    BY <1>1, <1>4, <2>1, <2>6, <2>8, <2>10, <2>11 DEF Followed, Alive
  <2>13. /\ Silent(trayEvents', c) <=> Silent(trayEvents, c)
         /\ Has(trayEvents', Event("destroy", c)) => Has(trayEvents, Event("destroy", c))
    BY <2>1, <2>6, <2>8
  <2>14. Followed(c)'
    BY <1>1, <1>2, <1>4, <2>9, <2>10, <2>11, <2>12, <2>13, StillFollowed DEF Alive
  <2>15. QED
    BY <1>2, <2>8, <2>14, OneFollowed
<1>5. QED
  BY <1>3, <1>4 DEF ReadManager

\* A client that changes its information stays where it is.
LEMMA WantsOf ==
    ASSUME TrayTypes, NEW c \in TrayClients, win' = [win EXCEPT ![c].wants = ~@]
    PROVE  /\ win' \in [TrayClients -> Xwindow] /\ \A b \in TrayClients : b # c => win'[b] = win[b]
           /\ win'[c].parent = win[c].parent
           /\ win'[c].alive <=> win[c].alive
           /\ win'[c].watched <=> win[c].watched
           /\ Says(win'[c].mapped) = Says(win[c].mapped)
<1> DEFINE e == [win[c] EXCEPT !.wants = ~@]
<1>1. win[c] \in Xwindow
  BY DEF TrayTypes
<1>2. /\ e \in Xwindow /\ e.parent = win[c].parent
      /\ e.alive <=> win[c].alive
      /\ e.watched <=> win[c].watched
      /\ Says(e.mapped) = Says(win[c].mapped)
  BY <1>1 DEF Xwindow
<1>3. win' = [win EXCEPT ![c] = e]
  OBVIOUS
<1> HIDE DEF e
<1>4. win' \in [TrayClients -> Xwindow] /\ win'[c] = e /\ \A b \in TrayClients : b # c => win'[b] = win[b]
  BY <1>2, <1>3 DEF TrayTypes
<1>5. QED
  BY <1>2, <1>4

\* A client changes its information: it stays where it is, and as it is.
LEMMA InfoChanged ==
    ASSUME TrayInv, NEW c \in TrayClients, ChangeInfo(c)
    PROVE  TrayInv'
<1>1. TrayTypes /\ OnePlace /\ \A b \in TrayClients : Followed(b)
  BY DEF TrayInv
<1>2. UNCHANGED <<trayclients, outputForTray>> /\ win[c].alive /\ win' = [win EXCEPT ![c].wants = ~@]
  BY DEF ChangeInfo, Act, Alive
<1>3. /\ win' \in [TrayClients -> Xwindow] /\ \A b \in TrayClients : b # c => win'[b] = win[b]
      /\ win'[c].parent = win[c].parent
      /\ win'[c].alive <=> win[c].alive
      /\ win'[c].watched <=> win[c].watched
      /\ Says(win'[c].mapped) = Says(win[c].mapped)
  BY <1>1, <1>2, WantsOf
<1>4. PICK kind : kind = "property" /\ Event(kind, c) \in Notice
  BY DEF Event, Notice
<1>5. PICK more : more = Told(win, kind, c)
  OBVIOUS
<1>6. /\ more \in Seq(Notice)
      /\ \A n \in 1 .. Len(more) : more[n].win = c /\ more[n] = Event(kind, c)
  BY <1>4, <1>5, ToldOf
<1>7. /\ kind \notin {"map", "unmap"} => Silent(more, c) /\ \A k : LastTells(more, c, k)
      /\ \A k : k # kind => ~Has(more, Event(k, c))
  BY <1>6, OneKind
<1>8. trayEvents' = trayEvents \o more
  BY <1>4, <1>5 DEF ChangeInfo
<1>9. /\ trayEvents' \in Seq(Notice)
      /\ \A b : b # c => SameFor(trayEvents, trayEvents', b)
      /\ \A k : LastTells(trayEvents, c, k) /\ LastTells(more, c, k) => LastTells(trayEvents', c, k)
      /\ Silent(trayEvents', c) <=> Silent(trayEvents, c) /\ Silent(more, c)
      /\ \A e : Has(trayEvents', e) <=> Has(trayEvents, e) \/ Has(more, e)
      /\ \A e : Once(trayEvents, e) /\ ~Has(more, e) => Once(trayEvents', e)
  BY <1>1, <1>6, <1>8, Come
<1>10. PICK says : says = Says(win[c].mapped)
  OBVIOUS
<1>11. says = Says(win'[c].mapped)
  BY <1>3, <1>10
<1>12. LastTells(trayEvents', c, Says(win'[c].mapped))
  BY <1>1, <1>2, <1>4, <1>7, <1>9, <1>10, <1>11 DEF Followed
<1>13. /\ Silent(trayEvents', c) <=> Silent(trayEvents, c)
       /\ Has(trayEvents', Event("destroy", c)) => Has(trayEvents, Event("destroy", c))
       /\ Has(trayEvents', Event("dock", c)) => Has(trayEvents, Event("dock", c))
       /\ Once(trayEvents', Event("dock", c))
  BY <1>1, <1>4, <1>7, <1>9 DEF Followed
<1>14. Followed(c)'
  BY <1>1, <1>2, <1>3, <1>12, <1>13, StillFollowed
<1>15. QED
  BY <1>2, <1>3, <1>9, <1>14, OneFollowed

\* A client unmaps its window: i3bar hears of it, if the window is in a bar.
LEMMA Hidden ==
    ASSUME TrayInv, NEW c \in TrayClients, Hide(c)
    PROVE  TrayInv'
<1>1. TrayTypes /\ OnePlace /\ \A b \in TrayClients : Followed(b)
  BY DEF TrayInv
<1>2. UNCHANGED <<trayclients, outputForTray>> /\ win[c].alive /\ win[c].mapped /\ win' = Unmapped(win, c)
  BY DEF Hide, Act, Alive
<1>3. /\ win' \in [TrayClients -> Xwindow] /\ \A b \in TrayClients : b # c => win'[b] = win[b]
      /\ win'[c].parent = win[c].parent
      /\ win'[c].alive <=> win[c].alive
      /\ win'[c].watched <=> win[c].watched
      /\ ~win'[c].mapped
  BY <1>1, <1>2, UnmappedOf
<1>4. PICK more : more = UnmapEvents(win, c)
  OBVIOUS
<1>5. /\ more \in Seq(Notice) /\ \A n \in 1 .. Len(more) : more[n] = Event("unmap", c) /\ more[n].win = c
      /\ LastTells(more, c, "unmap")
      /\ win[c].alive /\ win[c].mapped /\ win[c].watched => ~Silent(more, c)
      /\ ~(win[c].alive /\ win[c].mapped /\ win[c].watched) => more = <<>>
      /\ \A k : k # "unmap" => ~Has(more, Event(k, c))
  BY <1>4, UnmapTold
<1>6. trayEvents' = trayEvents \o more
  BY <1>4 DEF Hide
<1>7. /\ trayEvents' \in Seq(Notice)
      /\ \A b : b # c => SameFor(trayEvents, trayEvents', b)
      /\ \A k : LastTells(more, c, k) /\ ~Silent(more, c) => LastTells(trayEvents', c, k)
      /\ Silent(trayEvents', c) <=> Silent(trayEvents, c) /\ Silent(more, c)
      /\ \A e : Has(trayEvents', e) <=> Has(trayEvents, e) \/ Has(more, e)
      /\ \A e : Once(trayEvents, e) /\ ~Has(more, e) => Once(trayEvents', e)
  BY <1>1, <1>5, <1>6, Come
<1>8. PICK after : after = Says(win'[c].mapped) /\ after = "unmap"
  BY <1>3 DEF Says
<1>9. /\ ~win[c].watched => Silent(more, c) /\ Silent(trayEvents', c)
      /\ Silent(trayEvents', c) => Silent(trayEvents, c) /\ win[c].parent = NoScreen
  BY <1>1, <1>2, <1>5, <1>7, Nothing DEF Followed
<1>10. LastTells(trayEvents', c, after)
  <2>1. CASE win[c].watched
    BY <1>2, <1>5, <1>7, <1>8, <2>1
  <2>2. CASE ~win[c].watched
    BY <1>9, <2>2 DEF Silent, LastTells
  <2>3. QED
    BY <2>1, <2>2
<1>11. /\ Has(trayEvents', Event("destroy", c)) => Has(trayEvents, Event("destroy", c))
       /\ Has(trayEvents', Event("dock", c)) => Has(trayEvents, Event("dock", c))
       /\ Once(trayEvents', Event("dock", c))
  BY <1>1, <1>5, <1>7 DEF Followed
<1>12. LastTells(trayEvents', c, Says(win'[c].mapped))
  BY <1>8, <1>10
<1>13. Followed(c)'
  BY <1>1, <1>2, <1>3, <1>9, <1>11, <1>12, StillFollowed
<1>14. QED
  BY <1>2, <1>3, <1>7, <1>13, OneFollowed

\* What the end of a client changes
LEMMA DiedOf ==
    ASSUME TrayTypes, NEW c \in TrayClients,
           win' = [win EXCEPT ![c].alive = FALSE, ![c].mapped = FALSE, ![c].parent = NoScreen]
    PROVE  /\ win' \in [TrayClients -> Xwindow] /\ \A b \in TrayClients : b # c => win'[b] = win[b]
           /\ win'[c].parent = NoScreen /\ ~win'[c].alive /\ ~win'[c].mapped
<1> DEFINE e == [win[c] EXCEPT !.alive = FALSE, !.mapped = FALSE, !.parent = NoScreen]
<1>1. win[c] \in Xwindow
  BY DEF TrayTypes
<1>2. e \in Xwindow /\ e.parent = NoScreen /\ ~e.alive /\ ~e.mapped
  BY <1>1 DEF Xwindow
<1>3. win' = [win EXCEPT ![c] = e]
  BY DEF TrayTypes
<1> HIDE DEF e
<1>4. win' \in [TrayClients -> Xwindow] /\ win'[c] = e /\ \A b \in TrayClients : b # c => win'[b] = win[b]
  BY <1>2, <1>3 DEF TrayTypes
<1>5. QED
  BY <1>2, <1>4

\* A client dies: i3bar hears of it, if it watched the window.
LEMMA Died ==
    ASSUME TrayInv, NEW c \in TrayClients, Die(c)
    PROVE  TrayInv'
<1>1. TrayTypes /\ OnePlace /\ \A b \in TrayClients : Followed(b)
  BY DEF TrayInv
<1>2. /\ UNCHANGED <<trayclients, outputForTray>> /\ win[c].alive
      /\ win' = [win EXCEPT ![c].alive = FALSE, ![c].mapped = FALSE, ![c].parent = NoScreen]
  BY DEF Die, Act, Alive
<1>3. /\ win' \in [TrayClients -> Xwindow] /\ \A b \in TrayClients : b # c => win'[b] = win[b]
      /\ win'[c].parent = NoScreen /\ ~win'[c].alive /\ ~win'[c].mapped
  BY <1>1, <1>2, DiedOf
<1>4. PICK first : first = UnmapEvents(win, c)
  OBVIOUS
<1>5. PICK kind : kind = "destroy" /\ Event(kind, c) \in Notice
  BY DEF Event, Notice
<1>6. PICK last : last = Told(win, kind, c)
  OBVIOUS
<1>7. /\ first \in Seq(Notice) /\ \A n \in 1 .. Len(first) : first[n].win = c
      /\ ~Has(first, Event("dock", c))
  BY <1>4, UnmapTold
<1>8. /\ last \in Seq(Notice)
      /\ \A n \in 1 .. Len(last) : last[n].win = c /\ last[n] = Event(kind, c)
      /\ win[c].watched => Len(last) = 1 /\ last[1] = Event(kind, c)
  BY <1>5, <1>6, ToldOf
<1>9. ~Has(last, Event("dock", c))
  BY <1>5, <1>8, OneKind
<1>10. PICK more : more = first \o last
  OBVIOUS
<1>11. more \in Seq(Notice) /\ \A n \in 1 .. Len(more) : more[n].win = c
  BY <1>7, <1>8, <1>10
<1>12. \A e : Has(more, e) <=> Has(first, e) \/ Has(last, e)
  BY <1>7, <1>8, <1>10, JoinedHas
<1>13. trayEvents' = trayEvents \o more
  <2>1. trayEvents' = (trayEvents \o first) \o last
    BY <1>4, <1>5, <1>6 DEF Die
  <2>2. trayEvents \in Seq(Notice) /\ first \in Seq(Notice) /\ last \in Seq(Notice)
    BY <1>1, <1>7, <1>8 DEF TrayTypes
  <2>3. (trayEvents \o first) \o last = trayEvents \o (first \o last)
    BY <2>2
  <2>4. QED
    BY <1>10, <2>1, <2>3
<1>14. /\ trayEvents' \in Seq(Notice)
       /\ \A b : b # c => SameFor(trayEvents, trayEvents', b)
       /\ \A e : Has(trayEvents', e) <=> Has(trayEvents, e) \/ Has(more, e)
       /\ \A e : Once(trayEvents, e) /\ ~Has(more, e) => Once(trayEvents', e)
  BY <1>1, <1>11, <1>13, Come
<1>15. Once(trayEvents', Event("dock", c))
  BY <1>1, <1>7, <1>9, <1>12, <1>14 DEF Followed
<1>16. Has(trayEvents', Event("destroy", c)) \/ \A s \in Screens : ~Lists(s, c)'
  <2>1. CASE win[c].watched
    <3>1. Has(last, Event(kind, c))
      <4>1. 1 \in 1 .. Len(last) /\ last[1] = Event(kind, c)
        BY <1>8, <2>1
      <4>2. QED
        BY <4>1 DEF Has
    <3>2. QED
      BY <1>5, <1>12, <1>14, <3>1
  <2>2. CASE ~win[c].watched
    BY <1>1, <1>2, <2>2, TrayAssumption DEF Followed, Lists
  <2>3. QED
    BY <2>1, <2>2
<1>17. Followed(c)'
  BY <1>3, <1>15, <1>16 DEF Followed
<1>18. QED
  BY <1>2, <1>3, <1>14, <1>17, OneFollowed

\* The list without an entry keeps the others, in their order.
LEMMA Removed ==
    ASSUME NEW q \in Seq(Icon), NEW i \in 1 .. Len(q), NEW p, p = RemoveAt(q, i)
    PROVE  /\ p \in Seq(Icon) /\ Len(p) = Len(q) - 1
           /\ \A j \in 1 .. Len(p) : p[j] = IF j < i THEN q[j] ELSE q[j + 1]
<1>1. PICK a, b : a = SubSeq(q, 1, i - 1) /\ b = SubSeq(q, i + 1, Len(q))
  OBVIOUS
<1>2. a \in Seq(Icon) /\ Len(a) = i - 1 /\ \A j \in 1 .. Len(a) : a[j] = q[j]
  BY <1>1
<1>3. b \in Seq(Icon) /\ Len(b) = Len(q) - i /\ \A j \in 1 .. Len(b) : b[j] = q[j + i]
  BY <1>1
<1>4. p = a \o b
  BY <1>1 DEF RemoveAt
<1>5. p \in Seq(Icon) /\ Len(p) = Len(q) - 1
  BY <1>2, <1>3, <1>4
<1>6. ASSUME NEW j \in 1 .. Len(p) PROVE p[j] = IF j < i THEN q[j] ELSE q[j + 1]
  <2>1. CASE j < i
    BY <1>2, <1>3, <1>4, <1>5, <2>1
  <2>2. CASE j >= i
    <3>1. p[j] = b[j - Len(a)] /\ j - Len(a) \in 1 .. Len(b)
      BY <1>2, <1>3, <1>4, <1>5, <2>2
    <3>2. b[j - Len(a)] = q[(j - Len(a)) + i] /\ (j - Len(a)) + i = j + 1
      BY <1>2, <1>3, <3>1
    <3>3. QED
      BY <2>2, <3>1, <3>2
  <2>3. QED
    BY <2>1, <2>2
<1>7. QED
  BY <1>5, <1>6

\* handle_destroy_notify
LEMMA DestroyHeard ==
    ASSUME TrayInv, NEW c \in TrayClients, HandleDestroyNotify(c)
    PROVE  TrayInv'
<1>1. TrayTypes /\ OnePlace /\ \A b \in TrayClients : Followed(b)
  BY DEF TrayInv
<1>2. PICK kind : kind = "destroy"
  OBVIOUS
<1>3. NextEvent(kind, c) /\ UNCHANGED <<outputForTray, win>> /\ Follow(<<>>)
  BY <1>2 DEF HandleDestroyNotify
<1>4. PICK more : more = <<>>
  OBVIOUS
<1>5. /\ more \in Seq(Notice) /\ (\A n \in 1 .. Len(more) : more[n].win = c)
      /\ \A e : ~Has(more, e)
      /\ Follow(more)
  BY <1>3, <1>4, Nothing
<1>6. trayEvents' \in Seq(Notice) /\ \A b : b # c => SameFor(trayEvents, trayEvents', b)
  BY <1>1, <1>3, <1>5, FollowSame
<1>7. \A e : Once(trayEvents, e) /\ ~Has(more, e) => Once(trayEvents', e)
  BY <1>1, <1>3, <1>5, FollowMine
<1>8. ~win[c].alive /\ win[c].parent = NoScreen /\ ~win[c].mapped
  <2>1. Has(trayEvents, Event(kind, c))
    <3>1. trayEvents \in Seq(Notice) /\ trayEvents # <<>> /\ Head(trayEvents) = Event(kind, c)
      BY <1>1, <1>3 DEF TrayTypes, NextEvent
    <3>2. 1 \in 1 .. Len(trayEvents) /\ trayEvents[1] = Event(kind, c)
      BY <3>1
    <3>3. QED
      BY <3>2 DEF Has
  <2>2. QED
    BY <1>1, <1>2, <2>1 DEF Followed
<1>9. Once(trayEvents', Event("dock", c))
  BY <1>1, <1>5, <1>7 DEF Followed
<1>10. ASSUME trayclients' \in [Screens -> Seq(Icon)], OnePlace',
              \A b \in TrayClients : b # c => SameLists(b),
              \A t \in Screens : ~Lists(t, c)'
       PROVE  TrayInv'
  <2>1. TrayTypes'
    BY <1>1, <1>3, <1>6, <1>10 DEF TrayTypes
  <2>2. ASSUME NEW b \in TrayClients, b # c PROVE Followed(b)'
    BY <1>1, <1>3, <1>6, <1>10, <2>2, Untouched
  <2>3. Followed(c)'
    BY <1>3, <1>8, <1>9, <1>10 DEF Followed
  <2>4. QED
    BY <1>10, <2>1, <2>2, <2>3 DEF TrayInv
<1>11. CASE \A s \in Screens : ~Lists(s, c)
  <2>1. trayclients' = trayclients
    BY <1>11, OutputNone DEF HandleDestroyNotify
  <2>2. QED
    BY <1>1, <1>10, <1>11, <2>1 DEF TrayTypes, OnePlace, SameLists, Lists
<1>12. CASE \E s \in Screens : Lists(s, c)
  <2>1. PICK s \in Screens : \E i \in 1 .. Len(trayclients[s]) : trayclients[s][i].win = c
    BY <1>12 DEF Lists
  <2>2. PICK i \in 1 .. Len(trayclients[s]) : trayclients[s][i].win = c
    BY <2>1
  <2>3. OutputOf(c) = s /\ Entry(s, c) = i
    BY <1>1, <2>2, EntryOf, OutputFound
  <2>4. PICK q \in Seq(Icon) : q = trayclients[s]
    BY <1>1 DEF TrayTypes
  <2>5. PICK p : p = RemoveAt(q, i)
    OBVIOUS
  <2>6. trayclients' = [trayclients EXCEPT ![s] = p]
    BY <2>3, <2>4, <2>5, TrayAssumption DEF HandleDestroyNotify
  <2>7. /\ p \in Seq(Icon) /\ Len(p) = Len(q) - 1
        /\ \A j \in 1 .. Len(p) : p[j] = IF j < i THEN q[j] ELSE q[j + 1]
    <3>1. i \in 1 .. Len(q)
      BY <2>4
    <3>2. QED
      BY <2>5, <3>1, Removed
  <2>8. /\ trayclients' \in [Screens -> Seq(Icon)] /\ trayclients'[s] = p
        /\ \A t \in Screens : t # s => trayclients'[t] = trayclients[t]
    BY <1>1, <2>6, <2>7 DEF TrayTypes
  <2>9. i \in 1 .. Len(q) /\ Len(q) \in Nat /\ q[i].win = c
    BY <2>2, <2>4
  \* Every place after the step comes from one before it.
  <2>10. ASSUME NEW j \in 1 .. Len(p)
         PROVE  \E k \in 1 .. Len(q) : k # i /\ k = (IF j < i THEN j ELSE j + 1) /\ p[j] = q[k]
    BY <2>7, <2>9
  <2>11. OnePlace'
    <3> SUFFICES ASSUME NEW t \in Screens, NEW u \in Screens,
                        NEW j \in 1 .. Len(trayclients'[t]), NEW k \in 1 .. Len(trayclients'[u]),
                        trayclients'[t][j].win = trayclients'[u][k].win
                 PROVE  t = u /\ j = k
      BY DEF OnePlace
    <3>1. CASE t = s /\ u = s
      <4>1. PICK j0 \in 1 .. Len(q) : j0 = (IF j < i THEN j ELSE j + 1) /\ p[j] = q[j0]
        BY <2>8, <2>10, <3>1
      <4>2. PICK k0 \in 1 .. Len(q) : k0 = (IF k < i THEN k ELSE k + 1) /\ p[k] = q[k0]
        BY <2>8, <2>10, <3>1
      <4>3. q[j0].win = q[k0].win
        BY <2>8, <3>1, <4>1, <4>2
      <4>4. j0 = k0
        BY <1>1, <2>4, <4>3 DEF OnePlace
      <4>5. QED
        BY <2>7, <2>8, <2>9, <3>1, <4>1, <4>2, <4>4
    <3>2. CASE t = s /\ u # s
      <4>1. PICK j0 \in 1 .. Len(q) : p[j] = q[j0]
        BY <2>8, <2>10, <3>2
      <4>2. QED
        BY <1>1, <2>4, <2>8, <3>2, <4>1 DEF OnePlace
    <3>3. CASE t # s /\ u = s
      <4>1. PICK k0 \in 1 .. Len(q) : p[k] = q[k0]
        BY <2>8, <2>10, <3>3
      <4>2. trayclients'[t] = trayclients[t] /\ trayclients'[u] = p
        BY <2>8, <3>3
      <4>3. trayclients[t][j].win = trayclients[s][k0].win /\ j \in 1 .. Len(trayclients[t])
        BY <2>4, <4>1, <4>2
      <4>4. QED
        BY <1>1, <2>4, <3>3, <4>3 DEF OnePlace
    <3>4. CASE t # s /\ u # s
      <4>1. trayclients'[t] = trayclients[t] /\ trayclients'[u] = trayclients[u]
        BY <2>8, <3>4
      <4>2. QED
        BY <1>1, <4>1 DEF OnePlace
    <3>5. QED
      BY <3>1, <3>2, <3>3, <3>4
  <2>12. ASSUME NEW b \in TrayClients, b # c PROVE SameLists(b)
    <3>1. ASSUME NEW k \in 1 .. Len(q), q[k].win = b PROVE \E j \in 1 .. Len(p) : p[j] = q[k]
      <4>1. k # i
        BY <2>9, <2>12, <3>1
      <4>2. CASE k < i
        BY <2>7, <2>9, <4>2
      <4>3. CASE k > i
        <5>1. k - 1 \in 1 .. Len(p) /\ ~(k - 1 < i) /\ (k - 1) + 1 = k
          BY <2>7, <2>9, <4>3
        <5>2. p[k - 1] = q[(k - 1) + 1]
          BY <2>7, <5>1
        <5>3. QED
          BY <5>1, <5>2
      <4>4. QED
        BY <2>9, <4>1, <4>2, <4>3
    <3>2. ASSUME NEW j \in 1 .. Len(p) PROVE \E k \in 1 .. Len(q) : q[k] = p[j]
      BY <2>10
    <3>3. ASSUME NEW u \in Screens
          PROVE  /\ \A k \in 1 .. Len(trayclients[u]) : trayclients[u][k].win = b =>
                        \E j \in 1 .. Len(trayclients'[u]) : trayclients'[u][j] = trayclients[u][k]
                 /\ \A k \in 1 .. Len(trayclients'[u]) : trayclients'[u][k].win = b =>
                        \E j \in 1 .. Len(trayclients[u]) : trayclients[u][j] = trayclients'[u][k]
      <4>1. CASE u = s
        BY <2>4, <2>8, <3>1, <3>2, <4>1
      <4>2. CASE u # s
        BY <2>8, <4>2
      <4>3. QED
        BY <4>1, <4>2
    <3>4. QED
      BY <3>3 DEF SameLists
  <2>13. ASSUME NEW t \in Screens, Lists(t, c)' PROVE FALSE
    <3>1. PICK j \in 1 .. Len(trayclients'[t]) : trayclients'[t][j].win = c
      BY <2>13 DEF Lists
    <3>2. CASE t = s
      <4>1. PICK k \in 1 .. Len(q) : k # i /\ p[j] = q[k]
        BY <2>8, <2>10, <3>1, <3>2
      <4>2. QED
        BY <1>1, <2>4, <2>8, <2>9, <3>1, <3>2, <4>1 DEF OnePlace
    <3>3. CASE t # s
      BY <1>1, <2>2, <2>8, <3>1, <3>3 DEF OnePlace
    <3>4. QED
      BY <3>2, <3>3
  <2>14. QED
    BY <1>10, <2>8, <2>11, <2>12, <2>13
<1>13. QED
  BY <1>11, <1>12

\* i3bar watches a client that asks to be docked, which may change its information.
Watching(c, wants) == [win EXCEPT ![c].watched = Alive(c), ![c].wants = (@ # wants)]
LEMMA WatchedOf ==
    ASSUME TrayTypes, NEW c \in TrayClients, NEW wants \in BOOLEAN, NEW w, w = Watching(c, wants)
    PROVE  /\ w \in [TrayClients -> Xwindow] /\ \A b \in TrayClients : b # c => w[b] = win[b]
           /\ w[c].parent = win[c].parent
           /\ w[c].alive <=> win[c].alive
           /\ w[c].watched <=> win[c].alive
           /\ w[c].mapped <=> win[c].mapped
<1> DEFINE e == [win[c] EXCEPT !.watched = win[c].alive, !.wants = (@ # wants)]
<1>1. win[c] \in Xwindow
  BY DEF TrayTypes
<1>2. /\ e \in Xwindow /\ e.parent = win[c].parent
      /\ e.alive <=> win[c].alive
      /\ e.watched <=> win[c].alive
      /\ e.mapped <=> win[c].mapped
  BY <1>1 DEF Xwindow
<1>3. w = [win EXCEPT ![c] = e]
  BY DEF Watching, TrayTypes, Alive
<1> HIDE DEF e
<1>4. w \in [TrayClients -> Xwindow] /\ w[c] = e /\ \A b \in TrayClients : b # c => w[b] = win[b]
  BY <1>2, <1>3 DEF TrayTypes
<1>5. QED
  BY <1>2, <1>4

\* A client is put into the window of a bar.
Placing(w, c, s, m) == [w EXCEPT ![c].parent = s, ![c].mapped = m]
LEMMA PlacedOf ==
    ASSUME NEW w \in [TrayClients -> Xwindow], NEW c \in TrayClients, NEW s \in Screens, NEW m \in BOOLEAN,
           NEW v, v = Placing(w, c, s, m)
    PROVE  /\ v \in [TrayClients -> Xwindow] /\ \A b \in TrayClients : b # c => v[b] = w[b]
           /\ v[c].parent = s
           /\ v[c].alive <=> w[c].alive
           /\ v[c].watched <=> w[c].watched
           /\ v[c].mapped <=> m
<1> DEFINE e == [w[c] EXCEPT !.parent = s, !.mapped = m]
<1>1. w[c] \in Xwindow
  OBVIOUS
<1>2. /\ e \in Xwindow /\ e.parent = s
      /\ e.alive <=> w[c].alive
      /\ e.watched <=> w[c].watched
      /\ e.mapped <=> m
  BY <1>1 DEF Xwindow
<1>3. v = [w EXCEPT ![c] = e]
  BY DEF Placing
<1> HIDE DEF e
<1>4. v \in [TrayClients -> Xwindow] /\ v[c] = e /\ \A b \in TrayClients : b # c => v[b] = w[b]
  BY <1>2, <1>3
<1>5. QED
  BY <1>2, <1>4

\* The list gets an entry for c, which was in none.
LEMMA Listed ==
    ASSUME TrayTypes, OnePlace, NEW c \in TrayClients, NEW s \in Screens, \A t \in Screens : ~Lists(t, c),
           trayclients' = [trayclients EXCEPT ![s] = Append(@, [win |-> c, mapped |-> FALSE])]
    PROVE  /\ trayclients' \in [Screens -> Seq(Icon)] /\ OnePlace'
           /\ \A b \in TrayClients : b # c => SameLists(b)
           /\ \A t \in Screens : Lists(t, c)' <=> t = s
           /\ \A t \in Screens : ListsAs(t, c, "unmap")'
<1>1. PICK e \in Icon : e = [win |-> c, mapped |-> FALSE]
  BY DEF Icon
<1>2. e.win = c /\ Says(e.mapped) = "unmap"
  BY <1>1 DEF Says
<1>3. PICK q \in Seq(Icon) : q = trayclients[s]
  BY DEF TrayTypes
<1>4. PICK p : p = Append(q, e)
  OBVIOUS
<1>5. /\ p \in Seq(Icon) /\ Len(p) = Len(q) + 1 /\ Len(q) \in Nat /\ p[Len(p)] = e
      /\ \A n \in 1 .. Len(q) : p[n] = q[n]
  BY <1>4
<1>6. /\ trayclients' \in [Screens -> Seq(Icon)] /\ trayclients'[s] = p
      /\ \A t \in Screens : t # s => trayclients'[t] = trayclients[t]
  BY <1>1, <1>3, <1>4, <1>5 DEF TrayTypes
<1>7. /\ \A n \in 1 .. Len(q) : q[n].win # c
      /\ \A t \in Screens : \A n \in 1 .. Len(trayclients[t]) : trayclients[t][n].win # c
  BY <1>3 DEF Lists
<1>8. \A n \in 1 .. Len(p) : (n \in 1 .. Len(q) /\ p[n] = q[n] /\ p[n].win # c) \/ (n = Len(p) /\ p[n] = e)
  BY <1>5, <1>7
<1>9. OnePlace'
  <2> SUFFICES ASSUME NEW t \in Screens, NEW u \in Screens,
                      NEW j \in 1 .. Len(trayclients'[t]), NEW k \in 1 .. Len(trayclients'[u]),
                      trayclients'[t][j].win = trayclients'[u][k].win
               PROVE  t = u /\ j = k
    BY DEF OnePlace
  <2>1. CASE t = s /\ u = s
    <3>1. p[j].win = p[k].win /\ j \in 1 .. Len(p) /\ k \in 1 .. Len(p)
      BY <1>6, <2>1
    <3>2. CASE j \in 1 .. Len(q) /\ k \in 1 .. Len(q)
      BY <1>3, <1>5, <2>1, <3>1, <3>2 DEF OnePlace
    <3>3. CASE ~(j \in 1 .. Len(q) /\ k \in 1 .. Len(q))
      BY <1>2, <1>8, <2>1, <3>1, <3>3
    <3>4. QED
      BY <3>2, <3>3
  <2>2. CASE t = s /\ u # s
    <3>1. p[j].win = trayclients[u][k].win /\ j \in 1 .. Len(p) /\ k \in 1 .. Len(trayclients[u])
      BY <1>6, <2>2
    <3>2. j \in 1 .. Len(q) /\ p[j] = q[j]
      BY <1>2, <1>7, <1>8, <3>1
    <3>3. QED
      BY <1>3, <2>2, <3>1, <3>2 DEF OnePlace
  <2>3. CASE t # s /\ u = s
    <3>1. p[k].win = trayclients[t][j].win /\ k \in 1 .. Len(p) /\ j \in 1 .. Len(trayclients[t])
      BY <1>6, <2>3
    <3>2. k \in 1 .. Len(q) /\ p[k] = q[k]
      BY <1>2, <1>7, <1>8, <3>1
    <3>3. QED
      BY <1>3, <2>3, <3>1, <3>2 DEF OnePlace
  <2>4. CASE t # s /\ u # s
    <3>1. trayclients'[t] = trayclients[t] /\ trayclients'[u] = trayclients[u]
      BY <1>6, <2>4
    <3>2. /\ j \in 1 .. Len(trayclients[t]) /\ k \in 1 .. Len(trayclients[u])
          /\ trayclients[t][j].win = trayclients[u][k].win
      BY <3>1
    <3>3. QED
      BY <3>2 DEF OnePlace
  <2>5. QED
    BY <2>1, <2>2, <2>3, <2>4
<1>10. ASSUME NEW b \in TrayClients, b # c PROVE SameLists(b)
  <2>1. \A n \in 1 .. Len(q) : n \in 1 .. Len(p) /\ p[n] = q[n]
    BY <1>5
  <2>2. \A n \in 1 .. Len(p) : p[n].win = b => n \in 1 .. Len(q) /\ p[n] = q[n]
    BY <1>2, <1>8, <1>10
  <2>3. QED
    BY <1>3, <1>6, <2>1, <2>2 DEF SameLists
<1>11. Len(p) \in 1 .. Len(p) /\ p[Len(p)].win = c
  BY <1>2, <1>5
<1>12. ASSUME NEW t \in Screens PROVE (Lists(t, c)' <=> t = s) /\ ListsAs(t, c, "unmap")'
  <2>1. CASE t = s
    <3>1. Lists(t, c)'
      BY <1>6, <1>11, <2>1 DEF Lists
    <3>2. ListsAs(t, c, "unmap")'
      BY <1>2, <1>6, <1>8, <2>1 DEF ListsAs
    <3>3. QED
      BY <2>1, <3>1, <3>2
  <2>2. CASE t # s
    BY <1>6, <1>7, <2>2 DEF Lists, ListsAs
  <2>3. QED
    BY <2>1, <2>2
<1>13. QED
  BY <1>6, <1>9, <1>10, <1>12

\* handle_client_message
LEMMA RequestHeard ==
    ASSUME TrayInv, NEW c \in TrayClients, NEW wants \in BOOLEAN, HandleClientMessage(c, wants)
    PROVE  TrayInv'
<1>1. TrayTypes /\ OnePlace /\ \A b \in TrayClients : Followed(b)
  BY DEF TrayInv
<1>2. PICK kind : kind = "dock"
  OBVIOUS
<1>3. NextEvent(kind, c) /\ UNCHANGED outputForTray
  BY <1>2 DEF HandleClientMessage
<1>4. PICK w : w = Watching(c, wants)
  OBVIOUS
<1>5. /\ w \in [TrayClients -> Xwindow] /\ \A b \in TrayClients : b # c => w[b] = win[b]
      /\ w[c].parent = win[c].parent
      /\ w[c].alive <=> win[c].alive
      /\ w[c].watched <=> win[c].alive
      /\ w[c].mapped <=> win[c].mapped
  BY <1>1, <1>4, WatchedOf
<1>6. PICK told : told = IF wants THEN <<Event("property", c)>> ELSE <<>>
  OBVIOUS
<1>7. /\ told \in Seq(Notice) /\ Silent(told, c) /\ (\A k : LastTells(told, c, k))
      /\ \A n \in 1 .. Len(told) : told[n].win = c
      /\ \A k : k # "property" => ~Has(told, Event(k, c))
  <2>1. CASE wants
    <3>1. PICK property : property = "property"
      OBVIOUS
    <3>2. PICK e \in Notice : e = Event(property, c)
      BY <3>1 DEF Event, Notice
    <3>3. told = <<e>>
      BY <1>6, <2>1, <3>1, <3>2
    <3>4. told \in Seq(Notice) /\ \A n \in 1 .. Len(told) : told[n] = Event(property, c)
      BY <3>2, <3>3, OneEvent
    <3>5. /\ property \notin {"map", "unmap"} => Silent(told, c) /\ \A k : LastTells(told, c, k)
          /\ \A k : k # property => ~Has(told, Event(k, c))
          /\ \A n \in 1 .. Len(told) : told[n].win = c
      BY <3>4, OneKind
    <3>6. QED
      BY <3>1, <3>4, <3>5
  <2>2. CASE ~wants
    BY <1>6, <2>2, Nothing
  <2>3. QED
    BY <2>1, <2>2
\* What is left of the events
<1>8. ASSUME NEW more \in Seq(Notice), Follow(more), \A n \in 1 .. Len(more) : more[n].win = c,
             ~Has(more, Event("dock", c)), ~Has(more, Event("destroy", c))
      PROVE  /\ trayEvents' \in Seq(Notice) /\ \A b : b # c => SameFor(trayEvents, trayEvents', b)
             /\ \A k : LastTells(trayEvents, c, k) /\ LastTells(more, c, k) => LastTells(trayEvents', c, k)
             /\ \A k : LastTells(more, c, k) /\ ~Silent(more, c) => LastTells(trayEvents', c, k)
             /\ Silent(trayEvents', c) => Silent(more, c) /\ Silent(trayEvents, c)
             /\ Silent(trayEvents, c) /\ Silent(more, c) => Silent(trayEvents', c)
             /\ Has(trayEvents', Event("destroy", c)) <=> Has(trayEvents, Event("destroy", c))
             /\ ~Has(trayEvents', Event("dock", c))
             /\ Once(trayEvents', Event("dock", c))
  <2>1. trayEvents' \in Seq(Notice) /\ \A b : b # c => SameFor(trayEvents, trayEvents', b)
    BY <1>1, <1>3, <1>8, FollowSame
  <2>2. /\ \A k : LastTells(trayEvents, c, k) /\ LastTells(more, c, k) => LastTells(trayEvents', c, k)
        /\ \A k : LastTells(more, c, k) /\ ~Silent(more, c) => LastTells(trayEvents', c, k)
        /\ Silent(trayEvents', c) => Silent(more, c)
        /\ Silent(trayEvents, c) /\ Silent(more, c) => Silent(trayEvents', c)
        /\ Silent(trayEvents', c) /\ kind \notin {"map", "unmap"} => Silent(trayEvents, c)
        /\ \A e : Has(trayEvents', e) => Has(trayEvents, e) \/ Has(more, e)
        /\ \A e : e # Event(kind, c) /\ Has(trayEvents, e) => Has(trayEvents', e)
        /\ \A e : Once(trayEvents, e) /\ ~Has(more, e) => Once(trayEvents', e)
        /\ Once(trayEvents, Event(kind, c)) /\ ~Has(more, Event(kind, c)) => ~Has(trayEvents', Event(kind, c))
    BY <1>1, <1>3, <1>8, FollowMine
  <2>3. Event("destroy", c) # Event(kind, c)
    BY <1>2, EventOf
  <2>4. Once(trayEvents, Event("dock", c))
    BY <1>1 DEF Followed
  <2>5. Silent(trayEvents', c) => Silent(trayEvents, c)
    BY <1>2, <2>2
  <2>6. ~Has(trayEvents', Event("dock", c)) /\ Once(trayEvents', Event("dock", c))
    BY <1>2, <1>8, <2>2, <2>4
  <2>7. Has(trayEvents', Event("destroy", c)) <=> Has(trayEvents, Event("destroy", c))
    BY <1>8, <2>2, <2>3
  <2>8. QED
    BY <2>1, <2>2, <2>5, <2>6, <2>7
<1>9. CASE (~win[c].alive \/ outputForTray = NoScreen) /\ win' = w /\ Follow(told) /\ UNCHANGED trayclients
  <2>1. ~Has(told, Event("dock", c)) /\ ~Has(told, Event("destroy", c))
    BY <1>7
  <2>2. /\ trayEvents' \in Seq(Notice) /\ \A b : b # c => SameFor(trayEvents, trayEvents', b)
        /\ \A k : LastTells(trayEvents, c, k) /\ LastTells(told, c, k) => LastTells(trayEvents', c, k)
        /\ Silent(trayEvents', c) => Silent(told, c) /\ Silent(trayEvents, c)
        /\ Silent(trayEvents, c) /\ Silent(told, c) => Silent(trayEvents', c)
        /\ Has(trayEvents', Event("destroy", c)) <=> Has(trayEvents, Event("destroy", c))
        /\ ~Has(trayEvents', Event("dock", c))
        /\ Once(trayEvents', Event("dock", c))
    BY <1>7, <1>8, <1>9, <2>1
  <2>3. Followed(c)'
    <3>1. CASE win[c].alive
      <4>1. PICK says : says = Says(win[c].mapped)
        OBVIOUS
      <4>2. says = Says(win'[c].mapped)
        BY <1>5, <1>9, <4>1 DEF Says
      <4>3. LastTells(trayEvents', c, Says(win'[c].mapped))
        BY <1>1, <1>7, <2>2, <3>1, <4>1, <4>2 DEF Followed
      <4>4. /\ win'[c].alive /\ win'[c].parent = win[c].parent /\ win'[c].watched
            /\ UNCHANGED trayclients /\ Followed(c)
        BY <1>1, <1>5, <1>9, <3>1
      <4>5. Says(win'[c].mapped) = Says(win[c].mapped)
        BY <4>1, <4>2
      <4>6. QED
        BY <2>2, <3>1, <4>3, <4>4, <4>5, StillFollowed
    <3>2. CASE ~win[c].alive
      <4>1. /\ ~win'[c].alive /\ win'[c].parent = NoScreen /\ ~win'[c].mapped
            /\ UNCHANGED trayclients /\ Followed(c)
        BY <1>1, <1>5, <1>9, <3>2 DEF Followed
      <4>2. QED
        BY <2>2, <3>2, <4>1, StillDead
    <3>3. QED
      BY <3>1, <3>2
  <2>4. QED
    BY <1>3, <1>5, <1>9, <2>2, <2>3, OneFollowed
\* The window is put into a bar.
<1>10. PICK m \in BOOLEAN : m <=> win[c].mapped \/ win[c].wants
  <2>1. CASE win[c].mapped \/ win[c].wants
    BY <2>1
  <2>2. CASE ~(win[c].mapped \/ win[c].wants)
    BY <2>2
  <2>3. QED
    BY <2>1, <2>2
<1>11. PICK first : first = UnmapEvents(w, c)
  OBVIOUS
<1>12. PICK last : last = IF m THEN Told(w, "map", c) ELSE <<>>
  OBVIOUS
<1>13. CASE /\ win[c].alive /\ outputForTray # NoScreen
            /\ win' = Placing(w, c, outputForTray, m)
            /\ trayclients' = [trayclients EXCEPT ![outputForTray] = Append(@, [win |-> c, mapped |-> FALSE])]
            /\ Follow(told \o first \o last)
  <2>1. PICK s \in Screens : s = outputForTray
    BY <1>1, <1>13 DEF TrayTypes
  <2>2. /\ win' \in [TrayClients -> Xwindow] /\ \A b \in TrayClients : b # c => win'[b] = win[b]
        /\ win'[c].parent = s /\ win'[c].alive /\ win'[c].watched
        /\ win'[c].mapped <=> m
    <3>1. PICK v : v = win'
      OBVIOUS
    <3>2. /\ v \in [TrayClients -> Xwindow] /\ \A b \in TrayClients : b # c => v[b] = w[b]
          /\ v[c].parent = s
          /\ v[c].alive <=> w[c].alive
          /\ v[c].watched <=> w[c].watched
          /\ v[c].mapped <=> m
      BY <1>5, <1>13, <2>1, <3>1, PlacedOf
    <3>3. QED
      BY <1>5, <1>13, <3>1, <3>2
  <2>3. Has(trayEvents, Event(kind, c))
    <3>1. trayEvents \in Seq(Notice) /\ trayEvents # <<>> /\ Head(trayEvents) = Event(kind, c)
      BY <1>1, <1>3 DEF TrayTypes, NextEvent
    <3>2. 1 \in 1 .. Len(trayEvents) /\ trayEvents[1] = Event(kind, c)
      BY <3>1
    <3>3. QED
      BY <3>2 DEF Has
  <2>4. \A t \in Screens : ~Lists(t, c)
    BY <1>1, <1>2, <1>13, <2>3, TrayAssumption DEF Followed
  <2>5. /\ trayclients' \in [Screens -> Seq(Icon)] /\ OnePlace'
        /\ \A b \in TrayClients : b # c => SameLists(b)
        /\ \A t \in Screens : Lists(t, c)' <=> t = s
        /\ \A t \in Screens : ListsAs(t, c, "unmap")'
    BY <1>1, <1>13, <2>1, <2>4, Listed
  <2>6. /\ first \in Seq(Notice) /\ \A n \in 1 .. Len(first) : first[n].win = c
        /\ ~win[c].mapped => first = <<>>
        /\ ~Has(first, Event("destroy", c)) /\ ~Has(first, Event("dock", c))
    <3>1. /\ first \in Seq(Notice) /\ \A n \in 1 .. Len(first) : first[n] = Event("unmap", c) /\ first[n].win = c
          /\ ~(w[c].alive /\ w[c].mapped /\ w[c].watched) => first = <<>>
          /\ \A k : k # "unmap" => ~Has(first, Event(k, c))
      BY <1>11, UnmapTold
    <3>2. QED
      BY <1>5, <3>1
  <2>7. /\ last \in Seq(Notice) /\ \A n \in 1 .. Len(last) : last[n].win = c
        /\ m => LastTells(last, c, "map") /\ ~Silent(last, c)
        /\ ~m => last = <<>>
        /\ ~Has(last, Event("destroy", c)) /\ ~Has(last, Event("dock", c))
    <3>1. CASE m
      <4>1. PICK map : map = "map" /\ Event(map, c) \in Notice
        BY DEF Event, Notice
      <4>2. last = Told(w, map, c)
        BY <1>12, <3>1, <4>1
      <4>3. /\ last \in Seq(Notice)
            /\ \A n \in 1 .. Len(last) : last[n].win = c /\ last[n] = Event(map, c)
            /\ w[c].watched => Len(last) = 1
        BY <4>1, <4>2, ToldOf
      <4>4. /\ LastTells(last, c, map)
            /\ map \in {"map", "unmap"} /\ Len(last) = 1 => ~Silent(last, c)
            /\ \A k : k # map => ~Has(last, Event(k, c))
        BY <4>3, OneKind
      <4>5. QED
        BY <1>5, <1>13, <3>1, <4>1, <4>3, <4>4
    <3>2. CASE ~m
      BY <1>12, <3>2, Nothing
    <3>3. QED
      BY <3>1, <3>2
  <2>8. PICK left : left = told \o first
    OBVIOUS
  <2>9. PICK more : more = left \o last
    OBVIOUS
  <2>10. left \in Seq(Notice) /\ \A n \in 1 .. Len(left) : left[n].win = c
    BY <1>7, <2>6, <2>8
  <2>11. more \in Seq(Notice) /\ \A n \in 1 .. Len(more) : more[n].win = c
    BY <2>7, <2>9, <2>10
  <2>12. ~Has(more, Event("destroy", c)) /\ ~Has(more, Event("dock", c))
    <3>1. ASSUME NEW e, ~Has(told, e), ~Has(first, e), ~Has(last, e) PROVE ~Has(more, e)
      <4>1. ~Has(left, e)
        BY <1>7, <2>6, <2>8, <3>1, JoinedHas
      <4>2. QED
        BY <2>7, <2>9, <2>10, <3>1, <4>1, JoinedHas
    <3>2. ~Has(told, Event("destroy", c)) /\ ~Has(told, Event("dock", c))
      BY <1>7
    <3>3. QED
      BY <2>6, <2>7, <3>1, <3>2
  <2>13. Follow(more)
    BY <1>13, <2>8, <2>9
  <2>14. m => LastTells(more, c, "map") /\ ~Silent(more, c)
    BY <2>7, <2>9, <2>10, JoinedTells, JoinedSilent
  <2>15. ~m => more = told
    BY <1>7, <1>10, <2>6, <2>7, <2>8, <2>9
  <2>16. /\ trayEvents' \in Seq(Notice) /\ \A b : b # c => SameFor(trayEvents, trayEvents', b)
         /\ \A k : LastTells(trayEvents, c, k) /\ LastTells(more, c, k) => LastTells(trayEvents', c, k)
         /\ \A k : LastTells(more, c, k) /\ ~Silent(more, c) => LastTells(trayEvents', c, k)
         /\ Silent(trayEvents', c) => Silent(more, c) /\ Silent(trayEvents, c)
         /\ Has(trayEvents', Event("destroy", c)) <=> Has(trayEvents, Event("destroy", c))
         /\ ~Has(trayEvents', Event("dock", c))
         /\ Once(trayEvents', Event("dock", c))
    BY <1>8, <2>11, <2>12, <2>13
  <2>17. PICK after : after = Says(win'[c].mapped)
    OBVIOUS
  <2>18. (m => after = "map") /\ (~m => after = "unmap")
    BY <2>2, <2>17 DEF Says
  <2>19. ~m => Says(win[c].mapped) = "unmap"
    BY <1>10 DEF Says
  <2>20. LastTells(trayEvents', c, after)
    <3>1. CASE m
      BY <2>14, <2>16, <2>18, <3>1
    <3>2. CASE ~m
      <4>1. LastTells(trayEvents, c, "unmap")
        BY <1>1, <1>13, <2>19, <3>2 DEF Followed
      <4>2. QED
        BY <1>7, <2>15, <2>16, <2>18, <3>2, <4>1
    <3>3. QED
      BY <3>1, <3>2
  <2>21. Silent(trayEvents', c) => \A t \in Screens : ListsAs(t, c, after)'
    BY <2>5, <2>14, <2>16, <2>18
  <2>22. Silent(trayEvents, c)' => \A t \in Screens : ListsAs(t, c, Says(win[c].mapped))'
    BY <2>17, <2>21
  <2>23. LastTells(trayEvents, c, Says(win[c].mapped))'
    BY <2>17, <2>20
  <2>24. \A t \in Screens : Lists(t, c)' <=> win'[c].parent = t
    BY <2>2, <2>5
  <2>25. ~Has(trayEvents', Event("destroy", c))
    BY <1>1, <1>13, <2>16 DEF Followed
  <2>26. Followed(c)'
    BY <2>2, <2>16, <2>22, <2>23, <2>24, <2>25 DEF Followed
  <2>27. TrayTypes'
    BY <1>1, <1>3, <2>2, <2>5, <2>16 DEF TrayTypes
  <2>28. ASSUME NEW b \in TrayClients, b # c PROVE Followed(b)'
    BY <1>1, <2>2, <2>5, <2>16, <2>28, Untouched
  <2>29. QED
    BY <2>5, <2>26, <2>27, <2>28 DEF TrayInv
<1>14. QED
  <2>1. CASE ~win[c].alive \/ outputForTray = NoScreen
    BY <1>4, <1>6, <1>9, <2>1 DEF HandleClientMessage, Alive, Watching
  <2>2. CASE win[c].alive /\ outputForTray # NoScreen
    <3>1. m = (win[c].mapped \/ win[c].wants)
      BY <1>10
    <3>2. win' = Placing(w, c, outputForTray, m)
      BY <1>4, <2>2, <3>1 DEF HandleClientMessage, Alive, Watching, Placing
    <3>3. trayclients' = [trayclients EXCEPT ![outputForTray] = Append(@, [win |-> c, mapped |-> FALSE])]
      BY <2>2 DEF HandleClientMessage, Alive
    <3>4. Follow(told \o first \o last)
      <4>1. trayEvents' = Tail(trayEvents) \o (told \o UnmapEvents(w, c) \o
                             IF win[c].mapped \/ win[c].wants THEN Told(w, "map", c) ELSE <<>>)
        <5>1. /\ Watching(c, wants) = [win EXCEPT ![c].watched = Alive(c), ![c].wants = (@ # wants)]
              /\ ~(~Alive(c) \/ outputForTray = NoScreen)
          BY <2>2 DEF Watching, Alive
        <5>2. Follow((IF wants THEN <<Event("property", c)>> ELSE <<>>) \o UnmapEvents(Watching(c, wants), c)
                     \o IF win[c].mapped \/ win[c].wants THEN Told(Watching(c, wants), "map", c) ELSE <<>>)
          BY <5>1, Zenon DEF HandleClientMessage
        <5>3. QED
          BY <1>4, <1>6, <5>2, Zenon DEF Follow
      <4>2. last = IF win[c].mapped \/ win[c].wants THEN Told(w, "map", c) ELSE <<>>
        BY <1>10, <1>12
      <4>3. QED
        BY <1>11, <4>1, <4>2 DEF Follow
    <3>5. QED
      BY <1>13, <2>2, <3>2, <3>3, <3>4
  <2>3. QED
    BY <2>1, <2>2

\* The clients that are kicked out are those that a bar lists.
LEMMA KickedAre ==
    ASSUME TrayTypes, NEW c
    PROVE  c \in UNION {Docked(s) : s \in Screens} <=> \E s \in Screens : Lists(s, c)
<1>1. ASSUME NEW s \in Screens PROVE c \in Docked(s) <=> Lists(s, c)
  BY DEF TrayTypes, Docked, Lists
<1>2. QED
  BY <1>1

\* What X tells of the windows that are kicked out
LEMMA KickTold ==
    ASSUME NEW kicked \in SUBSET TrayClients, NEW told \in KickEvents(kicked)
    PROVE  /\ told \in Seq(Notice)
           /\ \A n \in 1 .. Len(told) : \E b \in kicked : told[n] = Event("unmap", b) /\ UnmapEvents(win, b) # <<>>
           /\ \A b \in kicked : UnmapEvents(win, b) # <<>> => Has(told, Event("unmap", b))
<1> DEFINE K == {k \in kicked : UnmapEvents(win, k) # <<>>}
           T == {Event("unmap", b) : b \in K}
           f == [b \in K |-> Event("unmap", b)]
<1>1. told \in Surjection(1 .. Cardinality(T), T)
  BY DEF KickEvents
<1>2. IsFiniteSet(K)
  <2>1. K \in SUBSET TrayClients
    OBVIOUS
  <2>2. QED
    BY <2>1, TrayAssumption, FS_Subset
<1>3. f \in Surjection(K, T)
  BY DEF Surjection
<1>4. IsFiniteSet(T)
  <2> HIDE DEF f, K, T
  <2>1. QED
    BY <1>2, <1>3, FS_Surjection
<1>5. Cardinality(T) \in Nat
  <2> HIDE DEF T
  <2>1. QED
    BY <1>4, FS_CardinalityType
<1>6. \A entry \in T : entry \in Notice /\ \E b \in kicked : entry = Event("unmap", b) /\ UnmapEvents(win, b) # <<>>
  BY DEF Event, Notice
<1>7. PICK m \in Nat : m = Cardinality(T)
  BY <1>5
<1>8. /\ told \in [1 .. m -> T]
      /\ \A entry \in T : \E n \in 1 .. m : told[n] = entry
  <2> HIDE DEF T
  <2>1. QED
    BY <1>1, <1>7 DEF Surjection
<1>9. \A b \in kicked : UnmapEvents(win, b) # <<>> => Event("unmap", b) \in T
  OBVIOUS
<1> HIDE DEF T
<1>10. told \in Seq(Notice) /\ Len(told) = m
  <2>1. told \in [1 .. m -> Notice]
    BY <1>6, <1>8
  <2>2. QED
    BY <2>1, SeqDef
<1>11. \A n \in 1 .. Len(told) : told[n] \in T
  BY <1>8, <1>10
<1>12. \A entry \in T : Has(told, entry)
  BY <1>8, <1>10 DEF Has
<1>13. QED
  BY <1>6, <1>9, <1>10, <1>11, <1>12

\* What kicking clients out changes: they are back at the root, unmapped.
LEMMA KickedOf ==
    ASSUME TrayTypes, NEW kicked \in SUBSET TrayClients, win' = KickTrayClients(win, kicked)
    PROVE  /\ win' \in [TrayClients -> Xwindow]
           /\ \A c \in TrayClients \ kicked : win'[c] = win[c]
           /\ \A c \in kicked : /\ win'[c].parent = NoScreen /\ ~win'[c].mapped
                                /\ win'[c].alive <=> win[c].alive
                                /\ win'[c].watched <=> win[c].watched
<1> DEFINE e(c) == [win[c] EXCEPT !.mapped = FALSE, !.parent = NoScreen]
<1>1. ASSUME NEW c \in TrayClients
      PROVE  /\ e(c) \in Xwindow /\ win[c] \in Xwindow
             /\ e(c).parent = NoScreen /\ ~e(c).mapped
             /\ e(c).alive <=> win[c].alive
             /\ e(c).watched <=> win[c].watched
  <2>1. win[c] \in Xwindow
    BY DEF TrayTypes
  <2>2. QED
    BY <2>1 DEF Xwindow
<1>2. win' = [c \in TrayClients |-> IF c \in kicked THEN e(c) ELSE win[c]]
  BY DEF KickTrayClients
<1> HIDE DEF e
<1>3. ASSUME NEW c \in kicked PROVE win'[c] = e(c)
  BY <1>2
<1>4. \A c \in TrayClients \ kicked : win'[c] = win[c]
  BY <1>2
<1>5. win' \in [TrayClients -> Xwindow]
  BY <1>1, <1>2
<1>6. ASSUME NEW c \in kicked
      PROVE  /\ win'[c].parent = NoScreen /\ ~win'[c].mapped
             /\ win'[c].alive <=> win[c].alive
             /\ win'[c].watched <=> win[c].watched
  BY <1>1, <1>3
<1>7. QED
  BY <1>4, <1>5, <1>6

\* got_output_reply: every window is kicked out, and every list is empty.
LEMMA OutputsChanged ==
    ASSUME TrayInv, NEW screens \in SUBSET Screens, OutputsChange(screens)
    PROVE  TrayInv'
<1>1. TrayTypes /\ OnePlace /\ \A b \in TrayClients : Followed(b)
  BY DEF TrayInv
<1>2. PICK kicked : kicked = UNION {Docked(s) : s \in Screens}
  OBVIOUS
<1>3. \A c : c \in kicked <=> \E s \in Screens : Lists(s, c)
  BY <1>1, <1>2, KickedAre
<1>4. kicked \in SUBSET TrayClients
  <2> SUFFICES ASSUME NEW c \in kicked PROVE c \in TrayClients
    OBVIOUS
  <2>1. PICK s \in Screens : \E i \in 1 .. Len(trayclients[s]) : trayclients[s][i].win = c
    BY <1>3 DEF Lists
  <2>2. trayclients[s] \in Seq(Icon)
    BY <1>1 DEF TrayTypes
  <2>3. \A i \in 1 .. Len(trayclients[s]) : trayclients[s][i] \in Icon
    BY <2>2
  <2>4. QED
    BY <2>1, <2>3 DEF Icon
<1>5. /\ win' = KickTrayClients(win, kicked)
      /\ trayclients' = [s \in Screens |-> <<>>]
      /\ outputForTray' = GetTrayOutput(screens)
  BY <1>2 DEF OutputsChange, DestroyWindows
<1>6. PICK told \in KickEvents(kicked) : trayEvents' = trayEvents \o told
  BY <1>2 DEF OutputsChange, DestroyWindows
<1>7. /\ told \in Seq(Notice)
      /\ \A n \in 1 .. Len(told) : \E b \in kicked : told[n] = Event("unmap", b) /\ UnmapEvents(win, b) # <<>>
      /\ \A b \in kicked : UnmapEvents(win, b) # <<>> => Has(told, Event("unmap", b))
  BY <1>4, KickTold
<1>8. /\ win' \in [TrayClients -> Xwindow]
      /\ \A c \in TrayClients \ kicked : win'[c] = win[c]
      /\ \A c \in kicked : /\ win'[c].parent = NoScreen /\ ~win'[c].mapped
                           /\ win'[c].alive <=> win[c].alive
                           /\ win'[c].watched <=> win[c].watched
  BY <1>1, <1>4, <1>5, KickedOf
<1>9. outputForTray' \in Screens \cup {NoScreen}
  BY <1>5 DEF GetTrayOutput
<1>10. /\ trayclients' \in [Screens -> Seq(Icon)]
       /\ \A s \in Screens : trayclients'[s] = <<>>
  BY <1>5
<1>11. trayEvents' \in Seq(Notice)
  <2>1. PICK q \in Seq(Notice) : q = trayEvents
    BY <1>1 DEF TrayTypes
  <2>2. QED
    BY <1>6, <1>7, <2>1
<1>12. TrayTypes' /\ OnePlace'
  BY <1>8, <1>9, <1>10, <1>11 DEF TrayTypes, OnePlace
<1>13. ASSUME NEW c \in TrayClients PROVE Followed(c)'
  <2>1. \A s \in Screens : ~Lists(s, c)' /\ \A kind : ListsAs(s, c, kind)'
    BY <1>10 DEF Lists, ListsAs
  <2>2. PICK q \in Seq(Notice) : q = trayEvents
    BY <1>1 DEF TrayTypes
  <2>3. PICK p : p = trayEvents'
    OBVIOUS
  <2>4. p = q \o told
    BY <1>6, <2>2, <2>3
  <2>5. \A n \in 1 .. Len(told) : told[n].kind = "unmap"
    BY <1>7, EventOf
  <2>6. ~Has(told, Event("destroy", c)) /\ ~Has(told, Event("dock", c)) /\ LastTells(told, c, "unmap")
    BY <2>5, EventOf DEF Has, LastTells
  <2>7. /\ Has(p, Event("destroy", c)) <=> Has(q, Event("destroy", c))
        /\ Once(q, Event("dock", c)) => Once(p, Event("dock", c))
    <3>1. ASSUME NEW e, ~Has(told, e) PROVE (Has(p, e) <=> Has(q, e)) /\ (Once(q, e) => Once(p, e))
      BY <1>7, <2>4, <3>1, JoinedHas
    <3>2. QED
      BY <2>6, <3>1
  <2>8. /\ Once(trayEvents', Event("dock", c))
        /\ Has(trayEvents', Event("destroy", c)) <=> Has(trayEvents, Event("destroy", c))
    BY <1>1, <2>2, <2>3, <2>7 DEF Followed
  <2>9. CASE c \in kicked
    <3>1. /\ win'[c].parent = NoScreen /\ ~win'[c].mapped
          /\ win'[c].alive <=> win[c].alive
          /\ win'[c].watched <=> win[c].watched
      BY <1>8, <2>9
    <3>2. CASE win[c].alive
      <4>1. win[c].watched
        BY <1>1, <1>3, <2>9, <3>2, TrayAssumption DEF Followed
      <4>2. PICK says : says = Says(win[c].mapped)
        OBVIOUS
      <4>3. LastTells(p, c, "unmap")
        <5>1. CASE win[c].mapped
          <6>1. PICK first : first = UnmapEvents(win, c)
            OBVIOUS
          <6>2. ~Silent(first, c)
            BY <3>2, <4>1, <5>1, <6>1, UnmapTold
          <6>3. Has(told, Event("unmap", c))
            BY <1>7, <2>9, <6>1, <6>2, Nothing
          <6>4. ~Silent(told, c)
            BY <6>3, EventOf DEF Has, Silent, Tells
          <6>5. QED
            BY <1>7, <2>4, <2>6, <6>4, JoinedTells
        <5>2. CASE ~win[c].mapped
          <6>1. says = "unmap"
            BY <4>2, <5>2 DEF Says
          <6>2. LastTells(q, c, "unmap")
            BY <1>1, <2>2, <3>2, <4>2, <6>1 DEF Followed
          <6>3. QED
            BY <1>7, <2>4, <2>6, <6>2, JoinedTells
        <5>3. QED
          BY <5>1, <5>2
      <4>4. PICK after : after = Says(win'[c].mapped) /\ after = "unmap"
        BY <3>1 DEF Says
      <4>5. LastTells(trayEvents, c, Says(win[c].mapped))'
        BY <2>3, <4>3, <4>4
      <4>6. \A s \in Screens : ListsAs(s, c, Says(win[c].mapped))'
        BY <2>1, <4>4
      <4>7. \A s \in Screens : Lists(s, c)' <=> win'[c].parent = s
        BY <2>1, <3>1, TrayAssumption
      <4>8. /\ win'[c].alive /\ win'[c].watched /\ win'[c].parent = NoScreen
            /\ ~Has(trayEvents', Event("destroy", c))
        BY <1>1, <2>8, <3>1, <3>2, <4>1 DEF Followed
      <4>9. QED
        BY <2>8, <4>5, <4>6, <4>7, <4>8 DEF Followed
    <3>3. CASE ~win[c].alive
      BY <2>1, <2>8, <3>1, <3>3 DEF Followed
    <3>4. QED
      BY <3>2, <3>3
  <2>10. CASE c \notin kicked
    <3>1. win'[c] = win[c] /\ \A s \in Screens : ~Lists(s, c)
      BY <1>3, <1>8, <2>10
    <3>2. \A n \in 1 .. Len(told) : told[n].win # c
      BY <1>7, <2>10, EventOf
    <3>3. SameFor(trayEvents, trayEvents', c)
      BY <1>7, <2>2, <2>3, <2>4, <3>2, OthersJoin
    <3>4. SameLists(c)
      BY <2>1, <3>1 DEF SameLists, Lists
    <3>5. QED
      BY <1>1, <3>1, <3>3, <3>4, Untouched
  <2>11. QED
    BY <2>9, <2>10
<1>14. QED
  BY <1>12, <1>13 DEF TrayInv

\* There is no tray and no event at first.
LEMMA TrayStarts == TrayInit => TrayInv
<1> SUFFICES ASSUME TrayInit PROVE TrayInv
  OBVIOUS
<1>1. trayEvents = <<>> /\ \A s \in Screens : trayclients[s] = <<>>
  BY DEF TrayInit
<1>2. TrayTypes /\ OnePlace
  <2>1. win \in [TrayClients -> Xwindow]
    BY DEF TrayInit, Xwindow
  <2>2. outputForTray \in Screens \cup {NoScreen}
    BY DEF TrayInit, GetTrayOutput
  <2>3. trayclients \in [Screens -> Seq(Icon)] /\ trayEvents \in Seq(Notice)
    BY DEF TrayInit
  <2>4. QED
    BY <1>1, <2>1, <2>2, <2>3 DEF TrayTypes, OnePlace
<1>3. ASSUME NEW c \in TrayClients PROVE Followed(c)
  <2>1. win[c].alive /\ win[c].parent = NoScreen
    BY DEF TrayInit
  <2>2. \A s \in Screens : ~Lists(s, c) /\ \A kind : ListsAs(s, c, kind)
    BY <1>1 DEF Lists, ListsAs
  <2>3. /\ Silent(trayEvents, c) /\ \A kind : LastTells(trayEvents, c, kind)
        /\ \A e : ~Has(trayEvents, e)
    BY <1>1, Nothing
  <2>4. Once(trayEvents, Event("dock", c))
    BY <2>3 DEF Once, Has
  <2>5. QED
    BY <2>1, <2>2, <2>3, <2>4, TrayAssumption DEF Followed
<1>4. QED
  BY <1>2, <1>3 DEF TrayInv

\* Every step of X, of the clients and of i3bar keeps the invariant.
LEMMA TrayKept == TrayInv /\ [TrayNext]_trayVars => TrayInv'
<1> SUFFICES ASSUME TrayInv, [TrayNext]_trayVars PROVE TrayInv'
  OBVIOUS
<1>1. ASSUME NEW c \in TrayClients, NEW changesInfo \in BOOLEAN, HandleClientMessage(c, changesInfo) PROVE TrayInv'
  BY <1>1, RequestHeard
<1>2. ASSUME NEW c \in TrayClients, HandleDestroyNotify(c) PROVE TrayInv'
  BY <1>2, DestroyHeard
<1>3. ASSUME NEW c \in TrayClients, HandleMapNotify(c) PROVE TrayInv'
  <2>1. /\ NextEvent(Says(TRUE), c) /\ Follow(<<>>) /\ SetMapped(c, TRUE)
        /\ UNCHANGED <<outputForTray, win>>
    BY <1>3 DEF HandleMapNotify, Says
  <2>2. QED
    BY <2>1, MappingHeard
<1>4. ASSUME NEW c \in TrayClients, HandleUnmapNotify(c) PROVE TrayInv'
  <2>1. /\ NextEvent(Says(FALSE), c) /\ Follow(<<>>) /\ SetMapped(c, FALSE)
        /\ UNCHANGED <<outputForTray, win>>
    BY <1>4 DEF HandleUnmapNotify, Says
  <2>2. QED
    BY <2>1, MappingHeard
<1>5. ASSUME NEW c \in TrayClients, HandlePropertyNotify(c) PROVE TrayInv'
  BY <1>5, PropertyHeard
<1>6. ASSUME NEW c \in TrayClients, ReadManager(c) PROVE TrayInv'
  BY <1>6, ManagerRead
<1>7. ASSUME NEW c \in TrayClients, ChangeInfo(c) PROVE TrayInv'
  BY <1>7, InfoChanged
<1>8. ASSUME NEW c \in TrayClients, Hide(c) PROVE TrayInv'
  BY <1>8, Hidden
<1>9. ASSUME NEW c \in TrayClients, Die(c) PROVE TrayInv'
  BY <1>9, Died
<1>10. ASSUME NEW screens \in SUBSET Screens, OutputsChange(screens) PROVE TrayInv'
  BY <1>10, OutputsChanged
<1>11. CASE UNCHANGED trayVars
  BY <1>11 DEF trayVars, TrayInv, TrayTypes, OnePlace, Followed, Lists, ListsAs
<1>12. QED
  BY <1>1, <1>2, <1>3, <1>4, <1>5, <1>6, <1>7, <1>8, <1>9, <1>10, <1>11, Zenon DEF TrayNext

\* When no event comes any more, nothing is left to be corrected.
LEMMA TrayFollows == TrayInv => TrayInStep
<1> SUFFICES ASSUME TrayInv, trayEvents = <<>>, NEW s \in Screens
             PROVE  /\ IsInjective([i \in DOMAIN trayclients[s] |-> trayclients[s][i].win])
                    /\ Docked(s) = {c \in TrayClients : win[c].parent = s}
                    /\ \A i \in DOMAIN trayclients[s] :
                           trayclients[s][i].mapped = win[trayclients[s][i].win].mapped
  BY DEF TrayInStep
<1>1. TrayTypes /\ OnePlace /\ \A b \in TrayClients : Followed(b)
  BY DEF TrayInv
<1>2. trayclients[s] \in Seq(Icon) /\ DOMAIN trayclients[s] = 1 .. Len(trayclients[s])
  BY <1>1 DEF TrayTypes
<1>3. IsInjective([i \in DOMAIN trayclients[s] |-> trayclients[s][i].win])
  BY <1>1, <1>2 DEF IsInjective, OnePlace
<1>4. ASSUME NEW c \in TrayClients PROVE Lists(s, c) <=> win[c].parent = s
  <2>1. ~Has(trayEvents, Event("destroy", c))
    BY Nothing
  <2>2. QED
    BY <1>1, <2>1, TrayAssumption DEF Followed
<1>5. \A i \in 1 .. Len(trayclients[s]) : trayclients[s][i].win \in TrayClients /\ trayclients[s][i].mapped \in BOOLEAN
  <2>1. \A i \in 1 .. Len(trayclients[s]) : trayclients[s][i] \in Icon
    BY <1>2
  <2>2. QED
    BY <2>1 DEF Icon
<1>6. Docked(s) = {c \in TrayClients : win[c].parent = s}
  BY <1>2, <1>4, <1>5 DEF Docked, Lists
<1>7. ASSUME NEW i \in 1 .. Len(trayclients[s])
      PROVE  trayclients[s][i].mapped = win[trayclients[s][i].win].mapped
  <2>1. PICK c \in TrayClients : c = trayclients[s][i].win
    BY <1>5
  <2>2. win[c].parent = s
    BY <1>4, <2>1 DEF Lists
  <2>3. Silent(trayEvents, c)
    BY Nothing
  <2>4. ListsAs(s, c, Says(win[c].mapped))
    BY <1>1, <2>2, <2>3, TrayAssumption DEF Followed
  <2>5. Says(trayclients[s][i].mapped) = Says(win[c].mapped)
    BY <2>1, <2>4 DEF ListsAs
  <2>6. win[c].mapped \in BOOLEAN /\ trayclients[s][i].mapped \in BOOLEAN
    BY <1>1, <1>5 DEF TrayTypes, Xwindow
  <2>7. trayclients[s][i].mapped = win[c].mapped
    BY <2>5, <2>6 DEF Says
  <2>8. QED
    BY <2>1, <2>7
<1>8. QED
  BY <1>2, <1>3, <1>6, <1>7

\* Once the events are handled, the tray lists the living clients that are in a bar, as they
\* are (handle_client_message, handle_destroy_notify, handle_map_notify, handle_unmap_notify,
\* handle_property_notify, kick_tray_clients).
THEOREM TrayFollowsWindows == TraySpec => []TrayInStep
<1>1. TrayInit => TrayInv
  BY TrayStarts
<1>2. TrayInv /\ [TrayNext]_trayVars => TrayInv'
  BY TrayKept
<1>3. TrayInv => TrayInStep
  BY TrayFollows
<1>4. QED
  BY <1>1, <1>2, <1>3, PTL DEF TraySpec
-----------------------------------------------------------------------------
(* What the commands of the bar write (BarInput), for any lines and restarts. *)

Piece == [child : Nat, line : Nat, last : BOOLEAN, urgent : BOOLEAN]
Texts == Seq(Piece)
InputTypes ==
    /\ pipe \in [Which -> Texts] /\ run \in [Which -> Nat]
    /\ line \in [Which -> [n : Nat, open : BOOLEAN]]
    /\ urgentLine \in BOOLEAN /\ hasUrgent \in BOOLEAN /\ parsed \in BOOLEAN
    /\ statusBuffer \in Texts /\ statuslineHead \in Texts
    /\ pendingLine \in Texts /\ wsLastJson \in Texts

SameLine(p, p2) == p.line = p2.line /\ p.child = p2.child
\* Pieces of one line whose end has not been read
OneLine(t) == \A i \in 1 .. Len(t) : ~t[i].last /\ SameLine(t[i], t[1])
Continues(t, p) == t # <<>> => SameLine(p, t[1])
\* A line goes on until its end.
Chain(q) == \A i \in 2 .. Len(q) : ~q[i - 1].last => SameLine(q[i], q[i - 1])

\* The child that runs wrote the last piece, of t or of q: its line is the one
\* it writes, if it is not at an end.
Ends(t, q, child, l) ==
    /\ q # <<>> =>
         /\ q[Len(q)].child = child /\ (l.open <=> ~q[Len(q)].last)
         /\ l.open => q[Len(q)].line = l.n
    /\ q = <<>> => (l.open <=> t # <<>>)
    /\ q = <<>> /\ t # <<>> => t[1].child = child /\ t[1].line = l.n

\* t has been read of a line, q is in the pipe.
Stream(t, q, child, l) ==
    OneLine(t) /\ Chain(q) /\ (q # <<>> => Continues(t, q[1])) /\ Ends(t, q, child, l)

Collected(t) == IF Open(t) THEN t ELSE <<>>
InputInv ==
    /\ InputTypes /\ LinesAreWhole
    /\ Stream(Collected(statusBuffer), pipe["status"], run["status"], line["status"])
    /\ Stream(pendingLine, pipe["workspaces"], run["workspaces"], line["workspaces"])

LEMMA InputInitOK == ASSUME InputInit PROVE InputInv
<1>1. <<>> \in Texts /\ Collected(<<>>) = <<>> /\ <<>> = [i \in 1 .. 0 |-> 0] /\ Len(<<>>) = 0
  BY DEF Texts, Collected, Open
<1>2. InputTypes
  BY <1>1 DEF InputInit, InputTypes
<1>3. ASSUME NEW l, l = [n |-> 1, open |-> FALSE] PROVE Stream(<<>>, <<>>, 1, l)
  BY <1>1, <1>3 DEF Stream, OneLine, Chain, Ends
<1>4. QED
  BY <1>1, <1>2, <1>3 DEF InputInit, InputInv, LinesAreWhole, Which

\* After k of the pieces q, t is what has been read of a line, and shown is a whole one.
Read(t, shown, q, k) ==
    /\ t \in Texts /\ shown \in Texts
    /\ OneLine(t) /\ (shown # <<>> => Whole(shown))
    /\ k < Len(q) => Continues(t, q[k + 1])
    /\ k > 0 => (t = <<>> <=> q[k].last) /\ (t # <<>> => SameLine(t[1], q[k]))

LEMMA OnePieceRead ==
    ASSUME NEW q \in Texts, Chain(q), NEW k \in 1 .. Len(q),
           NEW t, NEW shown, Read(t, shown, q, k - 1)
    PROVE  IF q[k].last THEN Read(<<>>, Append(t, q[k]), q, k) ELSE Read(Append(t, q[k]), shown, q, k)
<1> DEFINE text == Append(t, q[k])
<1>1. q[k] \in Piece /\ t \in Texts /\ Len(t) \in Nat /\ k \in Nat \ {0} /\ Len(q) \in Nat
  BY DEF Read, Texts
<1>2. /\ text \in Texts /\ Len(text) = Len(t) + 1 /\ text # <<>>
      /\ text[Len(t) + 1] = q[k] /\ \A i \in 1 .. Len(t) : text[i] = t[i]
  BY <1>1 DEF Texts
<1>3. Continues(t, q[k])
  BY <1>1 DEF Read
<1>4. \A i \in 1 .. Len(t) : ~text[i].last /\ SameLine(text[i], q[k])
  <2> SUFFICES ASSUME NEW i \in 1 .. Len(t) PROVE ~t[i].last /\ SameLine(t[i], q[k])
    BY <1>2
  <2>1. ~t[i].last /\ SameLine(t[i], t[1]) /\ t # <<>>
    BY <1>1 DEF Read, OneLine
  <2>2. QED
    BY <2>1, <1>3 DEF Continues, SameLine
<1>5. SameLine(text[1], q[k])
  <2>1. CASE Len(t) = 0
    BY <2>1, <1>2 DEF SameLine
  <2>2. CASE Len(t) # 0
    BY <2>2, <1>1, <1>4
  <2>3. QED
    BY <2>1, <2>2
<1>6. CASE q[k].last
  <2>1. Last(text) = q[k]
    BY <1>1, <1>2 DEF Last
  <2>2. Whole(text)
    BY <1>1, <1>2, <1>4, <1>6, <2>1 DEF Whole, SameLine
  <2>3. <<>> \in Texts /\ OneLine(<<>>)
    BY DEF OneLine, Texts
  <2>4. QED
    BY <1>1, <1>2, <1>6, <2>2, <2>3 DEF Read, Continues
<1>7. CASE ~q[k].last
  <2>1. OneLine(text)
    <3> SUFFICES ASSUME NEW i \in 1 .. Len(text) PROVE ~text[i].last /\ SameLine(text[i], q[k])
      BY <1>5 DEF OneLine, SameLine
    <3>1. CASE i \in 1 .. Len(t)
      BY <3>1, <1>4
    <3>2. CASE i = Len(t) + 1
      BY <3>2, <1>2, <1>7 DEF SameLine
    <3>3. QED
      BY <3>1, <3>2, <1>1, <1>2
  <2>2. k < Len(q) => Continues(text, q[k + 1])
    <3> SUFFICES ASSUME k < Len(q) PROVE SameLine(q[k + 1], text[1])
      BY DEF Continues
    <3>1. k + 1 \in 2 .. Len(q) /\ (k + 1) - 1 = k
      BY <1>1
    <3>2. SameLine(q[k + 1], q[k])
      BY <3>1, <1>7 DEF Chain
    <3>3. QED
      BY <3>2, <1>5 DEF SameLine
  <2>3. QED
    BY <1>1, <1>2, <1>5, <1>7, <2>1, <2>2 DEF Read
<1>8. QED
  BY <1>6, <1>7

\* A read takes all that is in the pipe.
LEMMA AllReadOK ==
    ASSUME NEW q \in Texts, NEW t, NEW shown, NEW t0, NEW child, NEW l,
           q # <<>>, Read(t, shown, q, Len(q)), Stream(t0, q, child, l)
    PROVE  Stream(t, <<>>, child, l)
<1>1. Len(q) \in Nat \ {0} /\ Len(<<>>) = 0
  BY DEF Texts
<1>2. OneLine(t) /\ (t = <<>> <=> q[Len(q)].last) /\ (t # <<>> => SameLine(t[1], q[Len(q)]))
  BY <1>1 DEF Read
<1>3. Ends(t, <<>>, child, l)
  BY <1>2 DEF Stream, Ends, SameLine
<1>4. Chain(<<>>)
  BY <1>1 DEF Chain
<1>5. QED
  BY <1>2, <1>3, <1>4 DEF Stream

LEMMA NothingRead ==
    ASSUME NEW q \in Texts, NEW t \in Texts, NEW shown \in Texts, NEW child, NEW l,
           q # <<>>, Stream(t, q, child, l), shown # <<>> => Whole(shown)
    PROVE  Read(t, shown, q, 0)
<1>1. 0 < Len(q) /\ 0 + 1 = 1
  BY DEF Texts
<1>2. QED
  BY <1>1 DEF Read, Stream

-----------------------------------------------------------------------------
(* The workspace command: FoldLeft(SplitPiece, ...) *)

Splits == [pending : Texts, json : Texts]
SplitFunction == [pair \in Splits \X Piece |-> SplitPiece(pair[1], pair[2])]

LEMMA SplitTypes ==
    ASSUME NEW a \in Splits, NEW p \in Piece PROVE SplitPiece(a, p) \in Splits
<1>1. Append(a.pending, p) \in Texts /\ <<>> \in Texts
  BY DEF Splits, Texts
<1>2. QED
  BY <1>1 DEF SplitPiece, Splits

LEMMA SplitsFold ==
    ASSUME NEW base \in Splits, NEW q \in Texts
    PROVE  \E iter :
              /\ FoldLeft(SplitPiece, base, q) = iter[1 .. Len(q)]
              /\ iter[1 .. 0] = base
              /\ \A k \in 1 .. Len(q) : iter[1 .. k] = SplitPiece(iter[1 .. k - 1], q[k])
<1> DEFINE n == Len(q)
           Is(iter) == iter = [s \in SUBSET (1 .. n) |->
                                 IF s = {} THEN base ELSE SplitPiece(iter[s \ {Max(s)}], q[Max(s)])]
<1>1. n \in Nat /\ DOMAIN q = 1 .. n /\ q \in Seq(Piece)
  BY DEF Texts
<1>2. SplitFunction \in [Splits \X Piece -> Splits]
  BY SplitTypes DEF SplitFunction
<1>3. PICK g \in [SUBSET (1 .. Len(q)) -> Splits] : Folds(g, SplitFunction, base, q, Len(q))
  <2> HIDE DEF n
  <2>1. QED
    BY <1>1, <1>2, FoldExists
<1>4. ASSUME NEW s \in SUBSET (1 .. n), s # {}
      PROVE  g[s] = SplitPiece(g[s \ {Max(s)}], q[Max(s)])
  <2>1. g[s] = SplitFunction[g[s \ {Max(s)}], q[Max(s)]]
    BY <1>3, <1>4, Zenon DEF Folds
  <2>2. Max(s) \in 1 .. n
    BY <1>1, <1>4, MaxOfSet
  <2>3. s \ {Max(s)} \in SUBSET (1 .. n)
    OBVIOUS
  <2>4. g[s \ {Max(s)}] \in Splits /\ q[Max(s)] \in Piece
    BY <1>1, <1>3, <2>2, <2>3
  <2>5. QED
    BY <2>1, <2>4 DEF SplitFunction
<1>5. Is(g)
  BY <1>3, <1>4 DEF Folds
<1> DEFINE h == CHOOSE iter : Is(iter)
<1>6. Is(h)
  <2> HIDE DEF Is
  <2>1. QED
    BY <1>5
<1>7. FoldLeft(SplitPiece, base, q) = h[1 .. n]
  BY <1>1 DEF FoldLeft, MapThenFoldSet
<1>8. h[1 .. 0] = base
  <2>1. 1 .. 0 = {} /\ {} \in SUBSET (1 .. n)
    OBVIOUS
  <2>2. QED
    BY <1>6, <2>1
<1>9. ASSUME NEW k \in 1 .. n PROVE h[1 .. k] = SplitPiece(h[1 .. k - 1], q[k])
  <2>1. 1 .. k # {} /\ Max(1 .. k) = k /\ (1 .. k) \ {k} = 1 .. k - 1 /\ 1 .. k \in SUBSET (1 .. n)
    BY MaxOfInterval, <1>1
  <2>2. QED
    BY <1>6, <2>1
<1>10. QED
  <2> HIDE DEF h
  <2>1. QED
    BY <1>7, <1>8, <1>9

\* What is read of the workspace command
LEMMA SplitsRead ==
    ASSUME NEW base \in Splits, NEW q \in Texts, q # <<>>, NEW child, NEW l,
           Stream(base.pending, q, child, l), base.json # <<>> => Whole(base.json)
    PROVE  LET a == FoldLeft(SplitPiece, base, q)
           IN /\ a.pending \in Texts /\ a.json \in Texts
              /\ Stream(a.pending, <<>>, child, l) /\ (a.json # <<>> => Whole(a.json))
<1>1. PICK iter : /\ FoldLeft(SplitPiece, base, q) = iter[1 .. Len(q)]
                  /\ iter[1 .. 0] = base
                  /\ \A k \in 1 .. Len(q) : iter[1 .. k] = SplitPiece(iter[1 .. k - 1], q[k])
  BY SplitsFold
<1> DEFINE Good == {k \in 0 .. Len(q) :
                      iter[1 .. k] \in Splits /\ Read(iter[1 .. k].pending, iter[1 .. k].json, q, k)}
<1>2. Len(q) \in Nat /\ base.pending \in Texts /\ base.json \in Texts
  BY DEF Texts, Splits
<1>3. 0 \in Good
  <2>1. Read(base.pending, base.json, q, 0)
    BY <1>2, NothingRead
  <2>2. QED
    BY <1>1, <1>2, <2>1
<1>4. ASSUME NEW k \in 1 .. Len(q), k - 1 \in Good PROVE k \in Good
  <2> DEFINE a == iter[1 .. k - 1]
  <2>1. a \in Splits /\ Read(a.pending, a.json, q, k - 1) /\ iter[1 .. k] = SplitPiece(a, q[k])
    BY <1>1, <1>4
  <2>2. q[k] \in Piece /\ Chain(q)
    BY DEF Texts, Stream
  <2> HIDE DEF a
  <2>3. SplitPiece(a, q[k]) \in Splits
    BY <2>1, <2>2, SplitTypes
  <2>4. IF q[k].last THEN Read(<<>>, Append(a.pending, q[k]), q, k)
        ELSE Read(Append(a.pending, q[k]), a.json, q, k)
    BY <2>1, <2>2, OnePieceRead
  <2>5. Read(SplitPiece(a, q[k]).pending, SplitPiece(a, q[k]).json, q, k)
    BY <2>1, <2>4 DEF SplitPiece, Splits
  <2>6. QED
    BY <2>1, <2>3, <2>5, <1>2
<1>5. Len(q) \in Good
  <2> HIDE DEF Good
  <2>1. \A k \in 0 .. Len(q) : k \in Good
    BY <1>2, <1>3, <1>4, UpTo
  <2>2. QED
    BY <1>2, <2>1
<1> DEFINE a == FoldLeft(SplitPiece, base, q)
<1>6. a \in Splits /\ Read(a.pending, a.json, q, Len(q))
  BY <1>1, <1>5
<1> HIDE DEF a
<1>7. Stream(a.pending, <<>>, child, l)
  BY <1>6, AllReadOK
<1>8. QED
  BY <1>6, <1>7 DEF Read, a

-----------------------------------------------------------------------------
(* The status command: FoldLeft(ParsePiece, ...) *)

Parses == [buffer : Texts, open : BOOLEAN, shown : Texts, urgent : BOOLEAN, drawn : BOOLEAN]
ParseFunction == [pair \in Parses \X Piece |-> ParsePiece(pair[1], pair[2])]
Begun(a) == IF a.open THEN a.buffer ELSE <<>>

LEMMA ParseRecord ==
    ASSUME NEW t \in Texts, NEW open \in BOOLEAN, NEW shown \in Texts, NEW urgent \in BOOLEAN, NEW drawn \in BOOLEAN,
           NEW r, r = [buffer |-> t, open |-> open, shown |-> shown, urgent |-> urgent, drawn |-> drawn]
    PROVE  r \in Parses /\ r.buffer = t /\ r.open = open /\ r.shown = shown
  BY DEF Parses

LEMMA ParseFields ==
    ASSUME NEW a \in Parses, NEW p \in Piece
    PROVE  /\ ParsePiece(a, p) \in Parses
           /\ ParsePiece(a, p).buffer = Append(Begun(a), p)
           /\ ParsePiece(a, p).open <=> ~p.last
           /\ ParsePiece(a, p).shown = IF p.last THEN Append(Begun(a), p) ELSE a.shown
<1>1. PICK text : text = Append(Begun(a), p)
  OBVIOUS
<1>2. text \in Texts /\ a.shown \in Texts
  BY <1>1 DEF Begun, Parses, Texts
<1>3. PICK open \in BOOLEAN : open = ~p.last
  OBVIOUS
<1>4. PICK shown \in Texts : shown = IF p.last THEN text ELSE a.shown
  BY <1>2
<1>5. PICK urgent \in BOOLEAN : urgent = (a.urgent \/ p.urgent)
  OBVIOUS
<1>6. PICK drawn \in BOOLEAN : drawn = (a.drawn \/ p.last)
  OBVIOUS
<1>7. ParsePiece(a, p) = [buffer |-> text, open |-> open, shown |-> shown, urgent |-> urgent, drawn |-> drawn]
  BY <1>1, <1>3, <1>4, <1>5, <1>6, Zenon DEF ParsePiece, Begun
<1>8. PICK r : r = [buffer |-> text, open |-> open, shown |-> shown, urgent |-> urgent, drawn |-> drawn]
  OBVIOUS
<1>9. r \in Parses /\ r.buffer = text /\ r.open = open /\ r.shown = shown
  BY <1>2, <1>8, ParseRecord
<1>10. ParsePiece(a, p) = r
  BY <1>7, <1>8, Zenon
<1>11. QED
  BY <1>1, <1>3, <1>4, <1>9, <1>10, Zenon

LEMMA ParseTypes ==
    ASSUME NEW a \in Parses, NEW p \in Piece PROVE ParsePiece(a, p) \in Parses
  BY ParseFields

LEMMA ParsesFold ==
    ASSUME NEW base \in Parses, NEW q \in Texts
    PROVE  \E iter :
              /\ FoldLeft(ParsePiece, base, q) = iter[1 .. Len(q)]
              /\ iter[1 .. 0] = base
              /\ \A k \in 1 .. Len(q) : iter[1 .. k] = ParsePiece(iter[1 .. k - 1], q[k])
<1> DEFINE n == Len(q)
           Is(iter) == iter = [s \in SUBSET (1 .. n) |->
                                 IF s = {} THEN base ELSE ParsePiece(iter[s \ {Max(s)}], q[Max(s)])]
<1>1. n \in Nat /\ DOMAIN q = 1 .. n /\ q \in Seq(Piece)
  BY DEF Texts
<1>2. ParseFunction \in [Parses \X Piece -> Parses]
  BY ParseTypes DEF ParseFunction
<1>3. PICK g \in [SUBSET (1 .. Len(q)) -> Parses] : Folds(g, ParseFunction, base, q, Len(q))
  <2> HIDE DEF n
  <2>1. QED
    BY <1>1, <1>2, FoldExists
<1>4. ASSUME NEW s \in SUBSET (1 .. n), s # {}
      PROVE  g[s] = ParsePiece(g[s \ {Max(s)}], q[Max(s)])
  <2>1. g[s] = ParseFunction[g[s \ {Max(s)}], q[Max(s)]]
    BY <1>3, <1>4, Zenon DEF Folds
  <2>2. Max(s) \in 1 .. n
    BY <1>1, <1>4, MaxOfSet
  <2>3. s \ {Max(s)} \in SUBSET (1 .. n)
    OBVIOUS
  <2>4. g[s \ {Max(s)}] \in Parses /\ q[Max(s)] \in Piece
    BY <1>1, <1>3, <2>2, <2>3
  <2>5. QED
    BY <2>1, <2>4 DEF ParseFunction
<1>5. Is(g)
  BY <1>3, <1>4 DEF Folds
<1> DEFINE h == CHOOSE iter : Is(iter)
<1>6. Is(h)
  <2> HIDE DEF Is
  <2>1. QED
    BY <1>5
<1>7. FoldLeft(ParsePiece, base, q) = h[1 .. n]
  BY <1>1 DEF FoldLeft, MapThenFoldSet
<1>8. h[1 .. 0] = base
  <2>1. 1 .. 0 = {} /\ {} \in SUBSET (1 .. n)
    OBVIOUS
  <2>2. QED
    BY <1>6, <2>1
<1>9. ASSUME NEW k \in 1 .. n PROVE h[1 .. k] = ParsePiece(h[1 .. k - 1], q[k])
  <2>1. 1 .. k # {} /\ Max(1 .. k) = k /\ (1 .. k) \ {k} = 1 .. k - 1 /\ 1 .. k \in SUBSET (1 .. n)
    BY MaxOfInterval, <1>1
  <2>2. QED
    BY <1>6, <2>1
<1>10. QED
  <2> HIDE DEF h
  <2>1. QED
    BY <1>7, <1>8, <1>9

\* What is read of the status command
LEMMA ParsesRead ==
    ASSUME NEW base \in Parses, NEW q \in Texts, q # <<>>, NEW child, NEW l,
           Stream(Begun(base), q, child, l), Collected(base.buffer) = Begun(base),
           base.shown # <<>> => Whole(base.shown)
    PROVE  LET a == FoldLeft(ParsePiece, base, q)
           IN /\ a \in Parses /\ Stream(Collected(a.buffer), <<>>, child, l)
              /\ (a.shown # <<>> => Whole(a.shown))
<1>1. PICK iter : /\ FoldLeft(ParsePiece, base, q) = iter[1 .. Len(q)]
                  /\ iter[1 .. 0] = base
                  /\ \A k \in 1 .. Len(q) : iter[1 .. k] = ParsePiece(iter[1 .. k - 1], q[k])
  BY ParsesFold
<1> DEFINE Holds(b, k) == b \in Parses /\ Collected(b.buffer) = Begun(b) /\ Read(Begun(b), b.shown, q, k)
           Good == {k \in 0 .. Len(q) : Holds(iter[1 .. k], k)}
<1>2. Len(q) \in Nat /\ Begun(base) \in Texts /\ base.shown \in Texts
  BY DEF Texts, Parses, Begun
<1>3. 0 \in Good
  <2>1. Read(Begun(base), base.shown, q, 0)
    BY <1>2, NothingRead
  <2>2. QED
    BY <1>1, <1>2, <2>1
<1>4. ASSUME NEW k \in 1 .. Len(q), k - 1 \in Good PROVE k \in Good
  <2>1. PICK b : b = iter[1 .. k - 1]
    OBVIOUS
  <2>2. Holds(b, k - 1) /\ iter[1 .. k] = ParsePiece(b, q[k])
    BY <1>1, <1>4, <2>1
  <2>3. q[k] \in Piece /\ Chain(q)
    BY DEF Texts, Stream
  <2>4. PICK c : c = ParsePiece(b, q[k])
    OBVIOUS
  <2>5. /\ c \in Parses /\ c.buffer = Append(Begun(b), q[k]) /\ (c.open <=> ~q[k].last)
        /\ c.shown = IF q[k].last THEN Append(Begun(b), q[k]) ELSE b.shown
    BY <2>2, <2>3, <2>4, ParseFields
  <2>6. IF q[k].last THEN Read(<<>>, Append(Begun(b), q[k]), q, k)
        ELSE Read(Append(Begun(b), q[k]), b.shown, q, k)
    BY <2>2, <2>3, OnePieceRead
  <2>7. Begun(c) = IF q[k].last THEN <<>> ELSE c.buffer
    BY <2>5 DEF Begun
  <2>8. Read(Begun(c), c.shown, q, k)
    BY <2>5, <2>6, <2>7
  <2>9. Collected(c.buffer) = Begun(c)
    <3>1. Begun(b) \in Seq(Piece)
      BY <2>2 DEF Read, Texts
    <3>2. Last(c.buffer) = q[k] /\ c.buffer # <<>>
      BY <2>3, <2>5, <3>1 DEF Last
    <3>3. QED
      BY <2>7, <3>2 DEF Collected, Open
  <2>10. Holds(c, k)
    BY <2>5, <2>8, <2>9
  <2> HIDE DEF Holds
  <2>11. QED
    BY <2>2, <2>4, <2>10, <1>2
<1>5. Len(q) \in Good
  <2> HIDE DEF Good
  <2>1. \A k \in 0 .. Len(q) : k \in Good
    BY <1>2, <1>3, <1>4, UpTo
  <2>2. QED
    BY <1>2, <2>1
<1>6. PICK a : a = FoldLeft(ParsePiece, base, q)
  OBVIOUS
<1>7. Holds(a, Len(q))
  BY <1>1, <1>5, <1>6
<1>8. Stream(Begun(a), <<>>, child, l)
  BY <1>7, AllReadOK
<1>9. QED
  BY <1>6, <1>7, <1>8 DEF Read

-----------------------------------------------------------------------------
(* The steps *)

LEMMA ReadStatusOK == ASSUME InputInv, ReadStatus PROVE InputInv'
<1> DEFINE base == [buffer |-> statusBuffer, open |-> Open(statusBuffer), shown |-> statuslineHead,
                    urgent |-> hasUrgent, drawn |-> FALSE]
<1>1. PICK b : b = base
  OBVIOUS
<1>2. /\ pipe["status"] \in Texts /\ pipe["status"] # <<>>
      /\ statusBuffer \in Texts /\ statuslineHead \in Texts /\ hasUrgent \in BOOLEAN
      /\ Stream(Collected(statusBuffer), pipe["status"], run["status"], line["status"])
      /\ statuslineHead # <<>> => Whole(statuslineHead)
  BY DEF InputInv, InputTypes, ReadStatus, Which, LinesAreWhole
<1>3. b \in Parses /\ b.buffer = statusBuffer /\ b.open = Open(statusBuffer) /\ b.shown = statuslineHead
  <2>1. PICK open \in BOOLEAN : open = Open(statusBuffer)
    BY DEF Open
  <2>2. PICK drawn \in BOOLEAN : drawn = FALSE
    OBVIOUS
  <2>3. b = [buffer |-> statusBuffer, open |-> open, shown |-> statuslineHead, urgent |-> hasUrgent, drawn |-> drawn]
    BY <1>1, <2>1, <2>2
  <2>4. b \in Parses /\ b.buffer = statusBuffer /\ b.open = open /\ b.shown = statuslineHead
    BY <1>2, <2>3, ParseRecord
  <2>5. QED
    BY <2>1, <2>4
<1>4. Begun(b) = Collected(statusBuffer)
  BY <1>3 DEF Begun, Collected
<1>5. PICK a : a = FoldLeft(ParsePiece, b, pipe["status"])
  OBVIOUS
<1>6. a \in Parses /\ Stream(Collected(a.buffer), <<>>, run["status"], line["status"]) /\ (a.shown # <<>> => Whole(a.shown))
  BY <1>2, <1>3, <1>4, <1>5, ParsesRead
<1>7. /\ statusBuffer' = a.buffer /\ statuslineHead' = a.shown /\ hasUrgent' = a.urgent /\ parsed' = a.drawn
      /\ pipe' = [pipe EXCEPT !["status"] = <<>>]
      /\ UNCHANGED <<run, line, urgentLine, pendingLine, wsLastJson>>
  BY <1>1, <1>5, Zenon DEF ReadStatus, GetBuffer, Emptied
<1>8. a.buffer \in Texts /\ a.shown \in Texts /\ a.urgent \in BOOLEAN /\ a.drawn \in BOOLEAN
  BY <1>6, Zenon DEF Parses
<1>9. pipe' \in [Which -> Texts] /\ pipe'["status"] = <<>> /\ pipe'["workspaces"] = pipe["workspaces"]
  BY <1>7 DEF InputInv, InputTypes, Which, Texts
<1>10. InputTypes'
  BY <1>7, <1>8, <1>9, Zenon DEF InputInv, InputTypes
<1>11. LinesAreWhole'
  BY <1>6, <1>7 DEF InputInv, LinesAreWhole
<1>12. Stream(Collected(statusBuffer)', pipe'["status"], run'["status"], line'["status"])
  BY <1>6, <1>7, <1>9 DEF Collected
<1>13. QED
  BY <1>7, <1>9, <1>10, <1>11, <1>12 DEF InputInv

LEMMA ReadWorkspacesOK == ASSUME InputInv, ReadWorkspaces PROVE InputInv'
<1>1. PICK b : b = [pending |-> pendingLine, json |-> wsLastJson]
  OBVIOUS
<1>2. /\ pipe["workspaces"] \in Texts /\ pipe["workspaces"] # <<>>
      /\ pendingLine \in Texts /\ wsLastJson \in Texts
      /\ Stream(pendingLine, pipe["workspaces"], run["workspaces"], line["workspaces"])
      /\ wsLastJson # <<>> => Whole(wsLastJson)
  BY DEF InputInv, InputTypes, ReadWorkspaces, Which, LinesAreWhole
<1>3. b \in Splits /\ b.pending = pendingLine /\ b.json = wsLastJson
  BY <1>1, <1>2 DEF Splits
<1>4. PICK a : a = FoldLeft(SplitPiece, b, pipe["workspaces"])
  OBVIOUS
<1>5. /\ a.pending \in Texts /\ a.json \in Texts
      /\ Stream(a.pending, <<>>, run["workspaces"], line["workspaces"]) /\ (a.json # <<>> => Whole(a.json))
  BY <1>2, <1>3, <1>4, SplitsRead
<1>6. /\ pendingLine' = a.pending /\ wsLastJson' = a.json
      /\ pipe' = [pipe EXCEPT !["workspaces"] = <<>>]
      /\ UNCHANGED <<run, line, urgentLine, statusBuffer, statuslineHead, hasUrgent, parsed>>
  BY <1>1, <1>4, Zenon DEF ReadWorkspaces, GetBuffer, Emptied
<1>7. pipe' \in [Which -> Texts] /\ pipe'["workspaces"] = <<>> /\ pipe'["status"] = pipe["status"]
  BY <1>6 DEF InputInv, InputTypes, Which, Texts
<1>8. InputTypes'
  BY <1>5, <1>6, <1>7, Zenon DEF InputInv, InputTypes
<1>9. LinesAreWhole'
  BY <1>5, <1>6 DEF InputInv, LinesAreWhole
<1>10. QED
  BY <1>5, <1>6, <1>7, <1>8, <1>9 DEF InputInv, Collected

LEMMA NothingStarted == ASSUME NEW child, NEW l, l = [n |-> 1, open |-> FALSE] PROVE Stream(<<>>, <<>>, child, l)
<1>1. <<>> = [i \in 1 .. 0 |-> 0] /\ Len(<<>>) = 0
  OBVIOUS
<1>2. QED
  BY <1>1 DEF Stream, OneLine, Chain, Ends

LEMMA RestartOK == ASSUME InputInv, NEW which \in Which, RestartCommand(which) PROVE InputInv'
<1>1. /\ pipe' = [pipe EXCEPT ![which] = <<>>] /\ run' = [run EXCEPT ![which] = run[which] + 1]
      /\ line' = [line EXCEPT ![which] = [n |-> 1, open |-> FALSE]]
      /\ UNCHANGED <<statuslineHead, hasUrgent, parsed, wsLastJson>>
  BY DEF RestartCommand, Emptied
<1>2. /\ urgentLine' = IF which = "status" THEN FALSE ELSE urgentLine
      /\ statusBuffer' = IF which = "status" THEN <<>> ELSE statusBuffer
      /\ pendingLine' = IF which = "workspaces" THEN <<>> ELSE pendingLine
  BY DEF RestartCommand
<1>3. /\ pipe \in [Which -> Texts] /\ run \in [Which -> Nat] /\ line \in [Which -> [n : Nat, open : BOOLEAN]]
      /\ <<>> \in Texts /\ [n |-> 1, open |-> FALSE] \in [n : Nat, open : BOOLEAN]
  BY DEF InputInv, InputTypes, Texts
<1>4. InputTypes'
  <2>1. pipe' \in [Which -> Texts] /\ run' \in [Which -> Nat] /\ line' \in [Which -> [n : Nat, open : BOOLEAN]]
    BY <1>1, <1>3
  <2>2. urgentLine' \in BOOLEAN /\ statusBuffer' \in Texts /\ pendingLine' \in Texts
    BY <1>2, <1>3 DEF InputInv, InputTypes
  <2>3. QED
    BY <1>1, <2>1, <2>2, Zenon DEF InputInv, InputTypes
<1>5. LinesAreWhole'
  BY <1>1 DEF InputInv, LinesAreWhole
<1>6. pipe'[which] = <<>> /\ line'[which] = [n |-> 1, open |-> FALSE]
  BY <1>1, <1>3
<1>7. CASE which = "status"
  <2>1. Collected(statusBuffer)' = <<>> /\ pendingLine' = pendingLine
    BY <1>2, <1>7 DEF Collected, Open
  <2>2. Stream(Collected(statusBuffer)', pipe'["status"], run'["status"], line'["status"])
    BY <2>1, <1>6, <1>7, NothingStarted
  <2>3. /\ pipe'["workspaces"] = pipe["workspaces"] /\ run'["workspaces"] = run["workspaces"]
        /\ line'["workspaces"] = line["workspaces"]
    BY <1>1, <1>3, <1>7
  <2>4. QED
    BY <1>4, <1>5, <2>1, <2>2, <2>3 DEF InputInv
<1>8. CASE which = "workspaces"
  <2>1. pendingLine' = <<>> /\ statusBuffer' = statusBuffer
    BY <1>2, <1>8
  <2>2. Stream(pendingLine', pipe'["workspaces"], run'["workspaces"], line'["workspaces"])
    BY <2>1, <1>6, <1>8, NothingStarted
  <2>3. pipe'["status"] = pipe["status"] /\ run'["status"] = run["status"] /\ line'["status"] = line["status"]
    BY <1>1, <1>3, <1>8
  <2>4. QED
    BY <1>4, <1>5, <2>1, <2>2, <2>3 DEF InputInv, Collected
<1>9. QED
  BY <1>7, <1>8 DEF Which

\* A child goes on with its line, or begins the next one.
LEMMA Written ==
    ASSUME NEW t \in Texts, NEW q \in Texts, NEW child \in Nat, NEW l \in [n : Nat, open : BOOLEAN],
           NEW p \in Piece, NEW m, Stream(t, q, child, l),
           p.child = child, p.line = l.n, m.open <=> ~p.last, ~p.last => m.n = l.n
    PROVE  Stream(t, Append(q, p), child, m)
<1> DEFINE r == Append(q, p)
<1>1. Len(q) \in Nat /\ Len(t) \in Nat /\ r \in Texts /\ Len(r) = Len(q) + 1 /\ r[Len(q) + 1] = p /\ r # <<>>
      /\ \A i \in 1 .. Len(q) : r[i] = q[i]
  <2>1. q \in Seq(Piece) /\ t \in Seq(Piece)
    BY DEF Texts
  <2>2. r \in Seq(Piece) /\ Len(q) \in Nat /\ Len(t) \in Nat
    BY <2>1
  <2>3. Len(r) = Len(q) + 1 /\ r[Len(q) + 1] = p /\ r # <<>>
    BY <2>1
  <2>4. \A i \in 1 .. Len(q) : r[i] = q[i]
    BY <2>1
  <2>5. QED
    BY <2>2, <2>3, <2>4 DEF Texts
<1>2. Ends(t, r, child, m)
  BY <1>1 DEF Ends
<1>3. Chain(r)
  <2> SUFFICES ASSUME NEW i \in 2 .. Len(r), ~r[i - 1].last PROVE SameLine(r[i], r[i - 1])
    BY DEF Chain
  <2>1. CASE i \in 2 .. Len(q)
    <3>1. r[i] = q[i] /\ r[i - 1] = q[i - 1]
      BY <1>1, <2>1
    <3>2. QED
      BY <2>1, <3>1 DEF Stream, Chain
  <2>2. CASE i = Len(q) + 1
    <3>1. r[i] = p /\ r[i - 1] = q[Len(q)] /\ q # <<>>
      BY <1>1, <2>2
    <3>2. l.open /\ q[Len(q)].child = child /\ q[Len(q)].line = l.n
      BY <3>1 DEF Stream, Ends
    <3>3. QED
      BY <3>1, <3>2 DEF SameLine
  <2>3. QED
    BY <1>1, <2>1, <2>2
<1>4. Continues(t, r[1])
  <2>1. CASE q = <<>>
    BY <1>1, <2>1 DEF Stream, Ends, Continues, SameLine
  <2>2. CASE q # <<>>
    <3>1. r[1] = q[1]
      BY <1>1, <2>2
    <3>2. QED
      BY <2>2, <3>1 DEF Stream
  <2>3. QED
    BY <2>1, <2>2
<1>5. QED
  BY <1>2, <1>3, <1>4 DEF Stream

LEMMA WriteOK ==
    ASSUME InputInv, NEW which \in Which, NEW last \in BOOLEAN, NEW urgent \in BOOLEAN, WritePiece(which, last, urgent)
    PROVE  InputInv'
<1>1. PICK isUrgent \in BOOLEAN : isUrgent = IF line[which].open /\ which = "status" THEN urgentLine ELSE urgent
  BY DEF InputInv, InputTypes
<1>2. PICK p : p = [child |-> run[which], line |-> line[which].n, last |-> last, urgent |-> isUrgent]
  OBVIOUS
<1>3. PICK m : m = IF last THEN [n |-> line[which].n + 1, open |-> FALSE] ELSE [line[which] EXCEPT !.open = TRUE]
  OBVIOUS
<1>4. /\ pipe' = [pipe EXCEPT ![which] = Append(pipe[which], p)]
      /\ urgentLine' = IF which = "status" THEN isUrgent ELSE urgentLine
      /\ line' = [line EXCEPT ![which] = m]
      /\ UNCHANGED <<run, statusBuffer, statuslineHead, hasUrgent, parsed, pendingLine, wsLastJson>>
  BY <1>1, <1>2, <1>3, Zenon DEF WritePiece
<1>5. /\ pipe \in [Which -> Texts] /\ run \in [Which -> Nat] /\ line \in [Which -> [n : Nat, open : BOOLEAN]]
      /\ run[which] \in Nat /\ line[which] \in [n : Nat, open : BOOLEAN] /\ pipe[which] \in Texts
      /\ statusBuffer \in Texts /\ pendingLine \in Texts /\ <<>> \in Texts
  BY DEF InputInv, InputTypes, Texts
<1>6. p \in Piece /\ p.child = run[which] /\ p.line = line[which].n /\ (p.last <=> last)
  BY <1>1, <1>2, <1>5 DEF Piece
<1>7. m \in [n : Nat, open : BOOLEAN] /\ (m.open <=> ~p.last) /\ (~p.last => m.n = line[which].n)
  <2>1. CASE last
    <3>1. m = [n |-> line[which].n + 1, open |-> FALSE]
      BY <1>3, <2>1
    <3>2. QED
      BY <1>5, <1>6, <2>1, <3>1
  <2>2. CASE ~last
    <3>1. m = [line[which] EXCEPT !.open = TRUE]
      BY <1>3, <2>2
    <3>2. m.open /\ m.n = line[which].n /\ m \in [n : Nat, open : BOOLEAN]
      BY <1>5, <3>1
    <3>3. QED
      BY <1>6, <2>2, <3>2
  <2>3. QED
    BY <2>1, <2>2
<1>8. ASSUME NEW t \in Texts, Stream(t, pipe[which], run[which], line[which])
      PROVE  Stream(t, pipe'[which], run'[which], line'[which])
  <2>1. Stream(t, Append(pipe[which], p), run[which], m)
    BY <1>5, <1>6, <1>7, <1>8, Written
  <2>2. QED
    BY <1>4, <1>5, <2>1
<1>9. InputTypes'
  <2>1. Append(pipe[which], p) \in Texts
    BY <1>5, <1>6 DEF Texts
  <2>2. pipe' \in [Which -> Texts] /\ line' \in [Which -> [n : Nat, open : BOOLEAN]]
    BY <1>4, <1>5, <1>7, <2>1
  <2>3. urgentLine' \in BOOLEAN
    BY <1>1, <1>4 DEF InputInv, InputTypes
  <2>4. QED
    BY <1>4, <2>2, <2>3, Zenon DEF InputInv, InputTypes
<1>10. LinesAreWhole'
  BY <1>4 DEF InputInv, LinesAreWhole
<1>11. ASSUME NEW other \in Which, other # which
       PROVE  pipe'[other] = pipe[other] /\ line'[other] = line[other] /\ run'[other] = run[other]
  BY <1>4, <1>5, <1>11
<1>12. Collected(statusBuffer) \in Texts /\ Collected(statusBuffer)' = Collected(statusBuffer)
  BY <1>4, <1>5 DEF Collected
<1>13. Stream(Collected(statusBuffer)', pipe'["status"], run'["status"], line'["status"])
  <2>1. CASE which = "status"
    BY <2>1, <1>8, <1>12 DEF InputInv
  <2>2. CASE which # "status"
    BY <2>2, <1>11, <1>12 DEF InputInv, Which
  <2>3. QED
    BY <2>1, <2>2
<1>14. Stream(pendingLine', pipe'["workspaces"], run'["workspaces"], line'["workspaces"])
  <2>1. CASE which = "workspaces"
    BY <2>1, <1>4, <1>5, <1>8 DEF InputInv
  <2>2. CASE which # "workspaces"
    BY <2>2, <1>4, <1>11 DEF InputInv, Which
  <2>3. QED
    BY <2>1, <2>2
<1>15. QED
  BY <1>9, <1>10, <1>13, <1>14 DEF InputInv

LEMMA InputInvAlways == InputSpec => []InputInv
<1>1. ASSUME InputInv, [InputNext]_inputVars PROVE InputInv'
  <2>1. CASE UNCHANGED inputVars
    BY <1>1, <2>1 DEF inputVars, InputInv, InputTypes, LinesAreWhole, Collected
  <2>2. CASE ReadStatus
    BY <1>1, <2>2, ReadStatusOK
  <2>3. CASE ReadWorkspaces
    BY <1>1, <2>3, ReadWorkspacesOK
  <2>4. CASE \E which \in Which : RestartCommand(which)
    BY <1>1, <2>4, RestartOK
  <2>5. CASE \E which \in Which : \E last, urgent \in BOOLEAN : WritePiece(which, last, urgent)
    BY <1>1, <2>5, WriteOK
  <2>6. QED
    BY <1>1, <2>1, <2>2, <2>3, <2>4, <2>5 DEF InputNext
<1>2. QED
  BY <1>1, InputInitOK, PTL DEF InputSpec

\* Whatever the pieces in which the lines of the commands arrive, and whenever the
\* commands are killed and started again, the blocks and the workspaces that are shown
\* are those of one whole line (ws_stdin_io_cb, stdin_end_array).
THEOREM WholeLinesShown == InputSpec => []LinesAreWhole
<1>1. InputInv => LinesAreWhole
  BY DEF InputInv
<1>2. QED
  BY <1>1, InputInvAlways, PTL

-----------------------------------------------------------------------------
(* i3bar against i3: the children *)

ChildFields == {"pid", "signals", "stopped", "header", "command", "exited", "asleep"}
\* A child that is not there is blank; one that was stopped sleeps, unless it has exited.
ChildOK(c) ==
    /\ DOMAIN c = ChildFields
    /\ ~c.pid => c = NoChild
    /\ c.stopped => c.signals
    /\ c.exited => ~c.asleep
    /\ c.pid /\ ~c.exited => (c.asleep <=> c.stopped)

\* No child at all is sound.
LEMMA NoChildOK == ChildOK(NoChild) /\ ~NoChild.pid /\ ~NoChild.stopped /\ ~NoChild.signals /\ ~NoChild.asleep /\ ~NoChild.exited
  BY DEF ChildOK, NoChild, ChildFields

\* A child stays sound, and stays, when it is stopped (stop_children).
LEMMA StopOK1 ==
    ASSUME NEW c, ChildOK(c)
    PROVE  ChildOK(StopChild(c)) /\ (StopChild(c).pid <=> c.pid)
<1>1. CASE c.signals /\ ~c.stopped
  <2>1. c.pid
    BY <1>1, NoChildOK, Zenon DEF ChildOK
  <2>2. StopChild(c) = [c EXCEPT !.stopped = TRUE, !.asleep = ~c.exited]
    BY <1>1 DEF StopChild
  <2>3. PICK d : d = [c EXCEPT !.stopped = TRUE, !.asleep = ~c.exited]
    OBVIOUS
  <2>4. /\ DOMAIN d = ChildFields /\ d.stopped /\ (d.asleep <=> ~c.exited)
        /\ d.pid = c.pid /\ d.signals = c.signals /\ d.exited = c.exited
    BY <2>3 DEF ChildOK, ChildFields
  <2>5. QED
    BY <1>1, <2>1, <2>2, <2>3, <2>4 DEF ChildOK
<1>2. QED
  BY <1>1 DEF StopChild

\* A child that is continued is not stopped, and to kill it never hangs (cont_child, kill_and_wait).
LEMMA ContOK1 ==
    ASSUME NEW c, ChildOK(c)
    PROVE  /\ ChildOK(ContChild(c)) /\ (ContChild(c).pid <=> c.pid) /\ ~ContChild(c).stopped
           /\ ~Hangs(c)
<1>1. c.stopped => c.pid /\ c.signals
  BY NoChildOK, Zenon DEF ChildOK
<1>2. CASE c.stopped
  <2>1. ContChild(c) = [c EXCEPT !.stopped = FALSE, !.asleep = FALSE]
    BY <1>1, <1>2 DEF ContChild, IsAlive
  <2>2. PICK d : d = [c EXCEPT !.stopped = FALSE, !.asleep = FALSE]
    OBVIOUS
  <2>3. /\ DOMAIN d = ChildFields /\ ~d.stopped /\ ~d.asleep
        /\ d.pid = c.pid /\ d.signals = c.signals /\ d.exited = c.exited
    BY <2>2 DEF ChildOK, ChildFields
  <2>4. QED
    BY <1>1, <1>2, <2>1, <2>2, <2>3 DEF ChildOK, Hangs, IsAlive
<1>3. CASE ~c.stopped
  BY <1>3 DEF ContChild, ChildOK, Hangs, IsAlive
<1>4. QED
  BY <1>2, <1>3

\* Nothing is left of a child that was killed.
LEMMA KillOK1 ==
    ASSUME NEW c, ChildOK(c)
    PROVE  KillAndWait(c) = NoChild
  BY Zenon DEF ChildOK, KillAndWait, Cleanup, IsAlive

\* A child that is started is sound and runs.
LEMMA StartOK1 ==
    ASSUME NEW command
    PROVE  /\ ChildOK(StartChild(NoChild, command)) /\ ChildOK(StartWsChild(NoChild, command))
           /\ StartWsChild(NoChild, command).pid => command # NoCommand
           /\ ~StartChild(NoChild, command).stopped
<1>1. PICK f : f = Forked(NoChild, command)
  OBVIOUS
<1>2. /\ DOMAIN f = ChildFields /\ f.pid /\ ~f.signals /\ ~f.stopped /\ ~f.exited /\ ~f.asleep
  BY <1>1 DEF Forked, NoChild, ChildFields
<1>3. PICK g : g = [f EXCEPT !.signals = TRUE]
  OBVIOUS
<1>4. /\ DOMAIN g = ChildFields /\ g.pid /\ g.signals /\ ~g.stopped /\ ~g.exited /\ ~g.asleep
  BY <1>2, <1>3 DEF ChildFields
<1>5. ChildOK(f) /\ ChildOK(g)
  BY <1>2, <1>4 DEF ChildOK
<1>6. QED
  BY <1>1, <1>2, <1>3, <1>5, NoChildOK DEF StartChild, StartWsChild

\* The sequence of a finite set has all of its elements.
LEMMA SetListed ==
    ASSUME NEW S, IsFiniteSet(S)
    PROVE  /\ SetToSeq(S) \in Seq(S)
           /\ \A e \in S : \E i \in DOMAIN SetToSeq(S) : SetToSeq(S)[i] = e
<1> DEFINE n == Cardinality(S)
<1>1. n \in Nat /\ Bijection(1 .. n, S) # {}
  BY FS_CardinalityType DEF ExistsBijection
<1>2. \E f \in [1 .. n -> S] : IsInjective(f)
  BY <1>1 DEF Bijection, Injection
<1>3. PICK q : q = SetToSeq(S)
  OBVIOUS
<1>4. q \in [1 .. n -> S] /\ IsInjective(q)
  BY <1>2, <1>3 DEF SetToSeq
<1>5. q \in Injection(1 .. n, S)
  BY <1>4 DEF Injection
<1>6. IsFiniteSet(1 .. n) /\ Cardinality(1 .. n) = n
  BY <1>1, FS_Interval
<1>7. q \in Surjection(1 .. n, S)
  BY <1>5, <1>6, FS_Injection
<1>8. QED
  BY <1>1, <1>3, <1>4, <1>7 DEF Surjection

XEvents == Outputs \cup ModifierEvents \cup {Unknown}
BarFields == {"config", "known", "win", "mapped", "watched", "visible", "ws", "wsUrgent", "wsLast", "modeName",
              "activated", "modPressed", "keys", "status", "wsChild", "hung", "out", "xs"}
BarOK(b) ==
    /\ DOMAIN b = BarFields
    /\ b.known \subseteq Outputs /\ b.win \subseteq b.known /\ b.mapped \subseteq b.win
    /\ b.config \in Configs \cup {Unknown} /\ ~b.hung
    /\ ChildOK(b.status) /\ ChildOK(b.wsChild)
    /\ b.xs \in Seq(XEvents)

\* A workspace command runs only if one is configured.
Commanded(b) == b.wsChild.pid => b.config.wsCommand # NoCommand

\* Every output that is known has a window.
Complete(b) == b.win = b.known

\* What shows and hides the bars changes neither what they know nor what they ask for.
Same(b, c) ==
    /\ c.config = b.config /\ c.known = b.known /\ c.win = b.win /\ c.ws = b.ws
    /\ c.out = b.out
    /\ c.wsChild.pid <=> b.wsChild.pid
    /\ c.status.pid <=> b.status.pid

\* Stopping and continuing the children leaves the rest of the bar.
LEMMA StopChildrenOK ==
    ASSUME NEW b, BarOK(b)
    PROVE  BarOK(StopChildren(b)) /\ Same(b, StopChildren(b))
<1>1. PICK c : c = [b EXCEPT !.status = StopChild(@), !.wsChild = StopChild(@)]
  OBVIOUS
<1>2. /\ DOMAIN c = BarFields /\ c.status = StopChild(b.status) /\ c.wsChild = StopChild(b.wsChild)
      /\ c.config = b.config /\ c.known = b.known /\ c.win = b.win /\ c.mapped = b.mapped
      /\ c.ws = b.ws /\ c.out = b.out /\ c.hung = b.hung /\ c.xs = b.xs
  BY <1>1 DEF BarOK, BarFields
<1>3. /\ ChildOK(c.status) /\ (c.status.pid <=> b.status.pid)
      /\ ChildOK(c.wsChild) /\ (c.wsChild.pid <=> b.wsChild.pid)
  BY <1>2, StopOK1 DEF BarOK
<1>4. BarOK(c) /\ Same(b, c)
  BY <1>2, <1>3 DEF BarOK, Same
<1>5. QED
  BY <1>1, <1>4 DEF StopChildren

LEMMA ContChildrenOK ==
    ASSUME NEW b, BarOK(b)
    PROVE  BarOK(ContChildren(b)) /\ Same(b, ContChildren(b))
<1>1. PICK c : c = [b EXCEPT !.status = ContChild(@), !.wsChild = ContChild(@)]
  OBVIOUS
<1>2. /\ DOMAIN c = BarFields /\ c.status = ContChild(b.status) /\ c.wsChild = ContChild(b.wsChild)
      /\ c.config = b.config /\ c.known = b.known /\ c.win = b.win /\ c.mapped = b.mapped
      /\ c.ws = b.ws /\ c.out = b.out /\ c.hung = b.hung /\ c.xs = b.xs
  BY <1>1 DEF BarOK, BarFields
<1>3. /\ ChildOK(c.status) /\ (c.status.pid <=> b.status.pid)
      /\ ChildOK(c.wsChild) /\ (c.wsChild.pid <=> b.wsChild.pid)
  BY <1>2, ContOK1 DEF BarOK
<1>4. BarOK(c) /\ Same(b, c)
  BY <1>2, <1>3 DEF BarOK, Same
<1>5. QED
  BY <1>1, <1>4 DEF ContChildren

\* So do mapping and unmapping windows.
LEMMA MapAllOK ==
    ASSUME NEW b, BarOK(b), NEW S \in SUBSET b.win
    PROVE  BarOK(MapAll(b, S)) /\ Same(b, MapAll(b, S))
<1>1. PICK told : told = SetToSeq((S \cap b.watched) \ b.mapped)
  OBVIOUS
<1>2. IsFiniteSet((S \cap b.watched) \ b.mapped) /\ (S \cap b.watched) \ b.mapped \subseteq Outputs
  BY BarAssumption, FS_Subset DEF BarOK
<1>3. told \in Seq(XEvents)
  <2>1. told \in Seq((S \cap b.watched) \ b.mapped)
    BY <1>1, <1>2, SetListed
  <2>2. (S \cap b.watched) \ b.mapped \subseteq XEvents
    BY <1>2 DEF XEvents
  <2>3. QED
    BY <2>1, <2>2
<1>4. PICK c : c = [b EXCEPT !.mapped = @ \cup S, !.xs = @ \o told]
  OBVIOUS
<1>5. /\ DOMAIN c = BarFields /\ c.status = b.status /\ c.wsChild = b.wsChild
      /\ c.config = b.config /\ c.known = b.known /\ c.win = b.win /\ c.mapped = b.mapped \cup S
      /\ c.ws = b.ws /\ c.out = b.out /\ c.hung = b.hung /\ c.xs = b.xs \o told
  BY <1>4 DEF BarOK, BarFields
<1>6. c.xs \in Seq(XEvents)
  BY <1>3, <1>5 DEF BarOK
<1>7. BarOK(c) /\ Same(b, c)
  BY <1>5, <1>6 DEF BarOK, Same
<1>8. QED
  BY <1>1, <1>4, <1>7 DEF MapAll

LEMMA UnmapAllOK ==
    ASSUME NEW b, BarOK(b), NEW S
    PROVE  BarOK(UnmapAll(b, S)) /\ Same(b, UnmapAll(b, S))
<1>1. PICK c : c = [b EXCEPT !.mapped = @ \ S]
  OBVIOUS
<1>2. /\ DOMAIN c = BarFields /\ c.status = b.status /\ c.wsChild = b.wsChild
      /\ c.config = b.config /\ c.known = b.known /\ c.win = b.win /\ c.mapped = b.mapped \ S
      /\ c.ws = b.ws /\ c.out = b.out /\ c.hung = b.hung /\ c.xs = b.xs
  BY <1>1 DEF BarOK, BarFields
<1>3. BarOK(c) /\ Same(b, c)
  BY <1>2 DEF BarOK, Same
<1>4. QED
  BY <1>1, <1>3 DEF UnmapAll

LEMMA SameFollows ==
    ASSUME NEW b, NEW c, NEW d, Same(b, c), Same(c, d)
    PROVE  Same(b, d)
  BY DEF Same

\* hide_bars and unhide_bars do nothing to a docked bar.
LEMMA HideBarsOK ==
    ASSUME NEW b, BarOK(b)
    PROVE  /\ BarOK(HideBars(b)) /\ Same(b, HideBars(b))
           /\ b.config.display = "dock" => HideBars(b) = b
<1>1. BarOK(UnmapAll(b, b.known)) /\ Same(b, UnmapAll(b, b.known))
  BY UnmapAllOK
<1>2. BarOK(StopChildren(UnmapAll(b, b.known))) /\ Same(b, StopChildren(UnmapAll(b, b.known)))
  BY <1>1, StopChildrenOK, SameFollows
<1>3. Same(b, b)
  BY DEF Same
<1>4. QED
  BY <1>2, <1>3 DEF HideBars

LEMMA UnhideBarsOK ==
    ASSUME NEW b, BarOK(b)
    PROVE  /\ BarOK(UnhideBars(b)) /\ Same(b, UnhideBars(b))
           /\ b.config.display = "dock" => UnhideBars(b) = b
<1>1. BarOK(ContChildren(b)) /\ Same(b, ContChildren(b))
  BY ContChildrenOK
<1>2. b.win \in SUBSET ContChildren(b).win
  BY <1>1 DEF Same
<1>3. BarOK(MapAll(ContChildren(b), b.win)) /\ Same(b, MapAll(ContChildren(b), b.win))
  BY <1>1, <1>2, MapAllOK, SameFollows
<1>4. Same(b, b)
  BY DEF Same
<1>5. QED
  BY <1>3, <1>4 DEF UnhideBars

\* draw_bars keeps the bar sound, and a docked one as it is.
LEMMA DrawBarsOK ==
    ASSUME NEW b, BarOK(b), Complete(b), NEW urgent
    PROVE  /\ BarOK(DrawBars(b, urgent)) /\ Same(b, DrawBars(b, urgent))
           /\ b.config.display = "dock" => DrawBars(b, urgent) = b
<1>1. b.known \subseteq b.win
  BY DEF Complete
<1>2. Same(b, b)
  BY DEF Same
<1>3. DrawBars(b, urgent) \in {b, UnhideBars(b), HideBars(b)}
  BY <1>1, Zenon DEF DrawBars
<1>4. QED
  BY <1>2, <1>3, HideBarsOK, UnhideBarsOK

\* Of the windows and the status command nothing has changed either.
SameSight(b, c) ==
    c.mapped = b.mapped /\ c.watched = b.watched /\ c.visible = b.visible /\ c.xs = b.xs /\ c.status = b.status

LEMMA SameSightOnce == ASSUME NEW b PROVE Same(b, b) /\ SameSight(b, b)
  BY DEF Same, SameSight

\* New windows: in dock mode each is mapped and watched, and an event of it comes.
LEMMA CreateWindowsOK ==
    ASSUME NEW b, BarOK(b), NEW S \in SUBSET b.known
    PROVE  LET c == CreateWindows(b, S)
           IN /\ BarOK(c) /\ c.win = b.win \cup S
              /\ c.config = b.config /\ c.known = b.known /\ c.ws = b.ws /\ c.out = b.out /\ c.wsLast = b.wsLast
              /\ c.status = b.status /\ c.wsChild = b.wsChild
              /\ b.config.display = "dock" =>
                   /\ c.mapped = b.mapped \cup S /\ c.watched = b.watched \cup S
                   /\ \A o \in S : \E i \in DOMAIN c.xs : c.xs[i] = o
<1>1. PICK told : told = SetToSeq(S)
  OBVIOUS
<1>2. IsFiniteSet(S) /\ S \subseteq Outputs
  BY BarAssumption, FS_Subset DEF BarOK
<1>3. told \in Seq(S) /\ \A o \in S : \E i \in DOMAIN told : told[i] = o
  BY <1>1, <1>2, SetListed
<1>4. told \in Seq(XEvents)
  <2>1. S \subseteq XEvents
    BY <1>2 DEF XEvents
  <2>2. QED
    BY <1>3, <2>1
<1>5. PICK c : c = CreateWindows(b, S)
  OBVIOUS
<1>6. CASE b.config.display = "dock"
  <2>1. c = [b EXCEPT !.win = @ \cup S, !.mapped = @ \cup S, !.watched = @ \cup S, !.visible = @ \cup S, !.xs = @ \o told]
    BY <1>1, <1>5, <1>6 DEF CreateWindows
  <2>2. /\ DOMAIN c = BarFields /\ c.status = b.status /\ c.wsChild = b.wsChild /\ c.wsLast = b.wsLast
        /\ c.config = b.config /\ c.known = b.known /\ c.win = b.win \cup S /\ c.mapped = b.mapped \cup S
        /\ c.watched = b.watched \cup S
        /\ c.ws = b.ws /\ c.out = b.out /\ c.hung = b.hung /\ c.xs = b.xs \o told
    BY <2>1 DEF BarOK, BarFields
  <2>3. c.xs \in Seq(XEvents)
    BY <1>4, <2>2 DEF BarOK
  <2>4. ASSUME NEW o \in S PROVE \E i \in DOMAIN c.xs : c.xs[i] = o
    <3>1. PICK i \in DOMAIN told : told[i] = o
      BY <1>3
    <3>2. b.xs \in Seq(XEvents)
      BY DEF BarOK
    <3>3. Len(b.xs) + i \in DOMAIN c.xs /\ c.xs[Len(b.xs) + i] = o
      BY <1>4, <2>2, <3>1, <3>2
    <3>4. QED
      BY <3>3
  <2>5. BarOK(c)
    BY <2>2, <2>3 DEF BarOK
  <2>6. QED
    BY <1>5, <2>2, <2>4, <2>5
<1>7. CASE b.config.display # "dock"
  <2>1. c = [b EXCEPT !.win = @ \cup S, !.mapped = @ \ S, !.watched = @ \ S]
    BY <1>5, <1>7 DEF CreateWindows
  <2>2. /\ DOMAIN c = BarFields /\ c.status = b.status /\ c.wsChild = b.wsChild /\ c.wsLast = b.wsLast
        /\ c.config = b.config /\ c.known = b.known /\ c.win = b.win \cup S /\ c.mapped = b.mapped \ S
        /\ c.ws = b.ws /\ c.out = b.out /\ c.hung = b.hung /\ c.xs = b.xs
    BY <2>1 DEF BarOK, BarFields
  <2>3. BarOK(c)
    BY <2>2 DEF BarOK
  <2>4. QED
    BY <1>5, <1>7, <2>2, <2>3
<1>8. QED
  BY <1>6, <1>7

\* Old windows that are drawn again
LEMMA RedrawWindowsOK ==
    ASSUME NEW b, BarOK(b), NEW S \in SUBSET b.win
    PROVE  BarOK(RedrawWindows(b, S)) /\ Same(b, RedrawWindows(b, S))
<1>1. BarOK(UnmapAll(b, S)) /\ Same(b, UnmapAll(b, S))
  BY UnmapAllOK
<1>2. BarOK(StopChildren(UnmapAll(b, S))) /\ Same(b, StopChildren(UnmapAll(b, S)))
  BY <1>1, StopChildrenOK, SameFollows
<1>3. BarOK(ContChildren(UnmapAll(b, S))) /\ Same(b, ContChildren(UnmapAll(b, S)))
  BY <1>1, ContChildrenOK, SameFollows
<1>4. S \in SUBSET ContChildren(UnmapAll(b, S)).win
  BY <1>3 DEF Same
<1>5. BarOK(MapAll(ContChildren(UnmapAll(b, S)), S)) /\ Same(b, MapAll(ContChildren(UnmapAll(b, S)), S))
  BY <1>3, <1>4, MapAllOK, SameFollows
<1>6. QED
  BY <1>2, <1>5 DEF RedrawWindows

\* got_bar_config_update() in another mode
LEMMA ReconfigWindowsOK ==
    ASSUME NEW b, BarOK(b), Complete(b)
    PROVE  BarOK(ReconfigWindows(b, TRUE)) /\ Same(b, ReconfigWindows(b, TRUE))
<1>1. b.known \cap b.win = b.win /\ b.known \ b.win = {}
  BY DEF Complete
<1>2. BarOK(RedrawWindows(b, b.win)) /\ Same(b, RedrawWindows(b, b.win))
  BY RedrawWindowsOK
<1>3. PICK r : r = RedrawWindows(b, b.win)
  OBVIOUS
<1>4. PICK k : k = [r EXCEPT !.keys = b.config.display = "hide"]
  OBVIOUS
<1>5. /\ DOMAIN k = BarFields /\ k.status = r.status /\ k.wsChild = r.wsChild
      /\ k.config = r.config /\ k.known = r.known /\ k.win = r.win /\ k.mapped = r.mapped
      /\ k.ws = r.ws /\ k.out = r.out /\ k.hung = r.hung /\ k.xs = r.xs
  BY <1>2, <1>3, <1>4 DEF BarOK, BarFields
<1>6. BarOK(k) /\ Same(b, k)
  BY <1>2, <1>3, <1>5 DEF BarOK, Same
<1>7. PICK d : d = IF b.win # {} THEN k ELSE b
  OBVIOUS
<1>8. BarOK(d) /\ Same(b, d)
  BY <1>6, <1>7, SameSightOnce
<1>9. ReconfigWindows(b, TRUE) = CreateWindows(d, {})
  BY <1>1, <1>3, <1>4, <1>7 DEF ReconfigWindows
<1>10. LET c == CreateWindows(d, {})
       IN BarOK(c) /\ c.win = d.win \cup {} /\ c.config = d.config /\ c.known = d.known /\ c.ws = d.ws
            /\ c.out = d.out /\ c.status = d.status /\ c.wsChild = d.wsChild
  BY <1>8, CreateWindowsOK
<1>11. QED
  BY <1>8, <1>9, <1>10 DEF Same

\* Workspaces that are parsed are those of the outputs the bar knows.
LEMMA ParseWorkspacesOK ==
    ASSUME NEW b, BarOK(b), NEW version, NEW urgent
    PROVE  LET c == ParseWorkspaces(b, version, urgent)
           IN /\ BarOK(c) /\ c.config = b.config /\ c.known = b.known /\ c.win = b.win /\ c.out = b.out
              /\ c.wsChild = b.wsChild /\ c.wsLast = b.wsLast /\ SameSight(b, c)
              /\ c.ws = [at |-> version, outs |-> b.known]
<1>1. PICK c : c = ParseWorkspaces(b, version, urgent)
  OBVIOUS
<1>2. /\ DOMAIN c = BarFields /\ c.status = b.status /\ c.wsChild = b.wsChild /\ c.wsLast = b.wsLast
      /\ c.config = b.config /\ c.known = b.known /\ c.win = b.win /\ c.mapped = b.mapped
      /\ c.watched = b.watched /\ c.visible = b.visible
      /\ c.out = b.out /\ c.hung = b.hung /\ c.xs = b.xs /\ c.ws = [at |-> version, outs |-> b.known]
  BY <1>1 DEF ParseWorkspaces, BarOK, BarFields
<1>3. BarOK(c)
  BY <1>2 DEF BarOK
<1>4. QED
  BY <1>1, <1>2, <1>3 DEF SameSight

\* Workspaces that are freed, and a request that is sent, change nothing that is seen.
LEMMA FreeWorkspacesOK ==
    ASSUME NEW b, BarOK(b)
    PROVE  LET c == FreeWorkspaces(b)
           IN /\ BarOK(c) /\ c.config = b.config /\ c.known = b.known /\ c.win = b.win /\ c.out = b.out
              /\ c.wsChild = b.wsChild /\ c.wsLast = b.wsLast /\ SameSight(b, c)
<1>1. PICK c : c = FreeWorkspaces(b)
  OBVIOUS
<1>2. /\ DOMAIN c = BarFields /\ c.status = b.status /\ c.wsChild = b.wsChild /\ c.wsLast = b.wsLast
      /\ c.config = b.config /\ c.known = b.known /\ c.win = b.win /\ c.mapped = b.mapped
      /\ c.watched = b.watched /\ c.visible = b.visible
      /\ c.out = b.out /\ c.hung = b.hung /\ c.xs = b.xs
  BY <1>1 DEF FreeWorkspaces, BarOK, BarFields
<1>3. BarOK(c)
  BY <1>2 DEF BarOK
<1>4. QED
  BY <1>1, <1>2, <1>3 DEF SameSight

LEMMA SendOK ==
    ASSUME NEW b, BarOK(b), NEW request
    PROVE  LET c == Send(b, request)
           IN /\ BarOK(c) /\ c.config = b.config /\ c.known = b.known /\ c.win = b.win
              /\ c.out = Append(b.out, request) /\ c.ws = b.ws
              /\ c.wsChild = b.wsChild /\ c.wsLast = b.wsLast /\ SameSight(b, c)
<1>1. PICK c : c = Send(b, request)
  OBVIOUS
<1>2. /\ DOMAIN c = BarFields /\ c.status = b.status /\ c.wsChild = b.wsChild /\ c.wsLast = b.wsLast
      /\ c.config = b.config /\ c.known = b.known /\ c.win = b.win /\ c.mapped = b.mapped
      /\ c.watched = b.watched /\ c.visible = b.visible /\ c.ws = b.ws
      /\ c.out = Append(b.out, request) /\ c.hung = b.hung /\ c.xs = b.xs
  BY <1>1 DEF Send, BarOK, BarFields
<1>3. BarOK(c)
  BY <1>2 DEF BarOK
<1>4. QED
  BY <1>1, <1>2, <1>3 DEF SameSight

\* In dock mode a bar that draws is the bar that it was.
LEMMA DrawnOK ==
    ASSUME NEW b, BarOK(b), Complete(b), NEW urgent
    PROVE  LET c == DrawBars(b, urgent)
           IN /\ BarOK(c) /\ Complete(c) /\ Same(b, c)
              /\ b.config.display = "dock" => SameSight(b, c)
<1>1. Complete(DrawBars(b, urgent))
  BY DrawBarsOK DEF Complete, Same
<1>2. QED
  BY <1>1, DrawBarsOK, SameSightOnce

\* got_workspace_reply: the buttons are of the version that was replied.
LEMMA WorkspaceReplyOK ==
    ASSUME NEW b, BarOK(b), Complete(b), NEW version, NEW urgent, NEW drawn
    PROVE  LET c == DrawBars(ParseWorkspaces(b, version, urgent), drawn)
           IN /\ BarOK(c) /\ Complete(c)
              /\ c.config = b.config /\ c.known = b.known /\ c.out = b.out
              /\ c.ws = [at |-> version, outs |-> b.known] /\ (c.wsChild.pid <=> b.wsChild.pid)
              /\ b.config.display = "dock" => SameSight(b, c)
<1>1. PICK p : p = ParseWorkspaces(b, version, urgent)
  OBVIOUS
<1>2. /\ BarOK(p) /\ p.config = b.config /\ p.known = b.known /\ p.win = b.win /\ p.out = b.out
      /\ p.wsChild = b.wsChild /\ SameSight(b, p) /\ p.ws = [at |-> version, outs |-> b.known]
  BY <1>1, ParseWorkspacesOK
<1>3. Complete(p)
  BY <1>2 DEF Complete
<1>4. PICK c : c = DrawBars(p, drawn)
  OBVIOUS
<1>5. BarOK(c) /\ Complete(c) /\ Same(p, c) /\ (p.config.display = "dock" => SameSight(p, c))
  BY <1>2, <1>3, <1>4, DrawnOK
<1>6. QED
  BY <1>1, <1>2, <1>4, <1>5 DEF Same, SameSight

\* free_outputs and parse_outputs_json: the outputs are those that were replied, without windows.
LEMMA FreeOutputsOK ==
    ASSUME NEW b, BarOK(b), NEW outputs \in SUBSET Outputs
    PROVE  LET c == ParseOutputs(FreeOutputs(b), outputs)
           IN /\ BarOK(c) /\ c.config = b.config /\ c.known = outputs /\ c.win = {} /\ c.mapped = {} /\ c.watched = {}
              /\ c.out = b.out /\ c.wsChild = b.wsChild /\ c.status = b.status
<1>1. PICK f : f = FreeWorkspaces(b)
  OBVIOUS
<1>2. /\ BarOK(f) /\ f.config = b.config /\ f.out = b.out /\ f.wsChild = b.wsChild /\ f.status = b.status
  BY <1>1, FreeWorkspacesOK DEF SameSight
<1>3. PICK xs : xs = [i \in DOMAIN f.xs |-> IF f.xs[i] \in ModifierEvents THEN f.xs[i] ELSE Unknown]
  OBVIOUS
<1>4. xs \in Seq(XEvents)
  <2>1. f.xs \in Seq(XEvents)
    BY <1>2 DEF BarOK
  <2>2. DOMAIN f.xs = 1 .. Len(f.xs) /\ Len(f.xs) \in Nat
    BY <2>1
  <2>3. \A i \in 1 .. Len(f.xs) : xs[i] \in XEvents
    BY <1>3, <2>2 DEF XEvents
  <2>4. xs \in [1 .. Len(f.xs) -> XEvents]
    BY <1>3, <2>2, <2>3
  <2>5. QED
    BY <2>2, <2>4
<1>5. PICK c : c = ParseOutputs(FreeOutputs(b), outputs)
  OBVIOUS
<1>6. c = [[f EXCEPT !.known = {}, !.win = {}, !.mapped = {}, !.watched = {}, !.visible = {}, !.xs = xs]
              EXCEPT !.known = outputs]
  BY <1>1, <1>3, <1>5 DEF ParseOutputs, FreeOutputs
<1>7. /\ DOMAIN c = BarFields /\ c.status = f.status /\ c.wsChild = f.wsChild
      /\ c.config = f.config /\ c.known = outputs /\ c.win = {} /\ c.mapped = {} /\ c.watched = {}
      /\ c.out = f.out /\ c.hung = f.hung /\ c.xs = xs
  BY <1>2, <1>6 DEF BarOK, BarFields
<1>8. BarOK(c)
  BY <1>2, <1>4, <1>7 DEF BarOK
<1>9. QED
  BY <1>2, <1>5, <1>7, <1>8

\* In dock mode: q are the events that come.  The bars that are mapped are watched, what is
\* known of one is true or is told, and a stopped status command is told or is not seen.
Notified(q) == \E i \in DOMAIN q : q[i] \notin ModifierEvents
Watched(b, q, covered) ==
    /\ b.mapped \subseteq b.watched
    /\ \A o \in b.mapped : (\E i \in DOMAIN q : q[i] = o) \/ (o \in b.visible <=> o \notin covered)
    /\ b.status.stopped => Notified(q) \/ b.known \cap b.visible = {}

\* What is watched of a bar stays so while nothing that is seen of it changes.
LEMMA WatchedStays ==
    ASSUME NEW b, NEW c, NEW q, NEW covered, Watched(b, q, covered), SameSight(b, c), c.known = b.known
    PROVE  Watched(c, q, covered)
  BY DEF Watched, SameSight

\* got_output_reply: all windows are new, so that events of all of them come; the workspaces are asked for again.
LEMMA OutputReplyOK ==
    ASSUME NEW b, BarOK(b), Complete(b), NEW m, m.outputs \subseteq Outputs
    PROVE  LET c == GotOutputReply(b, m)
           IN /\ BarOK(c) /\ Complete(c) /\ c.config = b.config /\ (c.wsChild.pid <=> b.wsChild.pid)
              /\ c.out = IF ProvidesWorkspaces(b.config) THEN Append(b.out, [kind |-> "workspaces"]) ELSE b.out
              /\ b.config.display = "dock" => \A covered : Watched(c, c.xs, covered)
<1>1. PICK p : p = ParseOutputs(FreeOutputs(b), m.outputs)
  OBVIOUS
<1>2. /\ BarOK(p) /\ p.config = b.config /\ p.known = m.outputs /\ p.win = {} /\ p.mapped = {} /\ p.watched = {}
      /\ p.out = b.out /\ p.wsChild = b.wsChild /\ p.status = b.status
  BY <1>1, FreeOutputsOK
<1>3. PICK w : w = CreateWindows(p, p.known)
  OBVIOUS
<1>4. ReconfigWindows(p, FALSE) = w
  <2>1. p.known \ p.win = p.known
    BY <1>2
  <2>2. QED
    BY <1>3, <2>1 DEF ReconfigWindows
<1>5. /\ BarOK(w) /\ w.win = p.win \cup p.known
      /\ w.config = p.config /\ w.known = p.known /\ w.ws = p.ws /\ w.out = p.out
      /\ w.status = p.status /\ w.wsChild = p.wsChild
      /\ p.config.display = "dock" =>
           /\ w.mapped = p.mapped \cup p.known /\ w.watched = p.watched \cup p.known
           /\ \A o \in p.known : \E i \in DOMAIN w.xs : w.xs[i] = o
  <2>1. p.known \in SUBSET p.known
    OBVIOUS
  <2>2. LET c == CreateWindows(p, p.known)
        IN /\ BarOK(c) /\ c.win = p.win \cup p.known
           /\ c.config = p.config /\ c.known = p.known /\ c.ws = p.ws /\ c.out = p.out /\ c.wsLast = p.wsLast
           /\ c.status = p.status /\ c.wsChild = p.wsChild
           /\ p.config.display = "dock" =>
                /\ c.mapped = p.mapped \cup p.known /\ c.watched = p.watched \cup p.known
                /\ \A o \in p.known : \E i \in DOMAIN c.xs : c.xs[i] = o
    BY <1>2, <2>1, CreateWindowsOK, Zenon
  <2>3. QED
    BY <1>3, <2>2
<1>6. Complete(w)
  BY <1>2, <1>5 DEF Complete
<1>7. ASSUME b.config.display = "dock", NEW covered PROVE Watched(w, w.xs, covered)
  <2>1. w.mapped = w.watched /\ w.mapped = w.known /\ \A o \in w.known : \E i \in DOMAIN w.xs : w.xs[i] = o
    BY <1>2, <1>5, <1>7
  <2>2. CASE w.known = {}
    BY <2>1, <2>2 DEF Watched
  <2>3. CASE w.known # {}
    <3>1. PICK o \in w.known : TRUE
      BY <2>3
    <3>2. o \notin ModifierEvents
      BY <1>5, <3>1, BarAssumption DEF BarOK
    <3>3. Notified(w.xs)
      BY <2>1, <3>1, <3>2 DEF Notified
    <3>4. QED
      BY <2>1, <3>3 DEF Watched
  <2>4. QED
    BY <2>2, <2>3
<1>8. PICK a : a = IF ProvidesWorkspaces(b.config) THEN Send(w, [kind |-> "workspaces"])
                   ELSE IF b.config.wsCommand # NoCommand THEN RepeatLastWsJson(w) ELSE w
  OBVIOUS
<1>9. /\ BarOK(a) /\ a.config = w.config /\ a.known = w.known /\ a.win = w.win /\ SameSight(w, a)
      /\ a.wsChild = w.wsChild
      /\ a.out = IF ProvidesWorkspaces(b.config) THEN Append(w.out, [kind |-> "workspaces"]) ELSE w.out
  <2>1. CASE ProvidesWorkspaces(b.config)
    BY <1>5, <1>8, <2>1, SendOK
  <2>2. CASE ~ProvidesWorkspaces(b.config) /\ a = w
    BY <1>5, <2>2, SameSightOnce
  <2>3. CASE ~ProvidesWorkspaces(b.config) /\ a # w
    <3>1. a = ParseWorkspaces(w, w.wsLast, FALSE)
      BY <1>8, <2>3 DEF RepeatLastWsJson
    <3>2. LET c == ParseWorkspaces(w, w.wsLast, FALSE)
          IN /\ BarOK(c) /\ c.config = w.config /\ c.known = w.known /\ c.win = w.win /\ c.out = w.out
             /\ c.wsChild = w.wsChild /\ c.wsLast = w.wsLast /\ SameSight(w, c)
             /\ c.ws = [at |-> w.wsLast, outs |-> w.known]
      <4>1. BarOK(w)
        BY <1>5
      <4>2. QED
        BY <4>1, ParseWorkspacesOK, Zenon
    <3>3. QED
      BY <2>3, <3>1, <3>2
  <2>4. QED
    BY <2>1, <2>2, <2>3
<1>10. Complete(a)
  BY <1>6, <1>9 DEF Complete
<1>11. PICK c : c = DrawBars(a, FALSE)
  OBVIOUS
<1>12. BarOK(c) /\ Complete(c) /\ Same(a, c) /\ (a.config.display = "dock" => SameSight(a, c))
  BY <1>9, <1>10, <1>11, DrawnOK
<1>13. c = GotOutputReply(b, m)
  BY <1>1, <1>4, <1>8, <1>11 DEF GotOutputReply
<1>14. ASSUME b.config.display = "dock", NEW covered PROVE Watched(c, c.xs, covered)
  <2>1. SameSight(a, c) /\ c.known = a.known
    BY <1>2, <1>5, <1>9, <1>12, <1>14 DEF Same
  <2>2. SameSight(w, c) /\ c.known = w.known
    BY <1>9, <2>1 DEF SameSight
  <2>3. Watched(w, w.xs, covered)
    BY <1>7, <1>14
  <2>4. Watched(c, w.xs, covered)
    BY <2>2, <2>3, WatchedStays
  <2>5. QED
    BY <2>2, <2>4 DEF SameSight
<1>15. QED
  BY <1>2, <1>5, <1>9, <1>12, <1>13, <1>14 DEF Same

\* A new configuration alone
LEMMA ParseConfigOK ==
    ASSUME NEW b, BarOK(b), NEW m, m.config \in Configs
    PROVE  LET c == ParseConfig(b, m)
           IN /\ BarOK(c) /\ c.config = m.config /\ c.known = b.known /\ c.win = b.win /\ c.out = b.out /\ c.ws = b.ws
              /\ c.wsChild = b.wsChild /\ SameSight(b, c)
<1>1. PICK c : c = ParseConfig(b, m)
  OBVIOUS
<1>2. /\ DOMAIN c = BarFields /\ c.status = b.status /\ c.wsChild = b.wsChild
      /\ c.config = m.config /\ c.known = b.known /\ c.win = b.win /\ c.mapped = b.mapped
      /\ c.watched = b.watched /\ c.visible = b.visible /\ c.ws = b.ws
      /\ c.out = b.out /\ c.hung = b.hung /\ c.xs = b.xs
  BY <1>1 DEF ParseConfig, BarOK, BarFields
<1>3. BarOK(c)
  BY <1>2 DEF BarOK
<1>4. QED
  BY <1>1, <1>2, <1>3 DEF SameSight

\* The first configuration, for a bar that has no children yet
EventSets == SUBSET {"output", "mode", "barconfig_update", "workspace"}
FirstAsks(config, events) ==
    LET asks == Append(<<[kind |-> "outputs"]>>, [kind |-> "subscribe", events |-> events])
    IN IF ProvidesWorkspaces(config) THEN Append(asks, [kind |-> "workspaces"]) ELSE asks

\* got_bar_config: the children are started, and the first requests go out.
LEMMA BarConfigOK ==
    ASSUME NEW b, BarOK(b), Complete(b), b.out = <<>>, NEW m, m.config \in Configs,
           ~b.status.pid, ~b.wsChild.pid
    PROVE  LET c == GotBarConfig(b, m)
           IN /\ BarOK(c) /\ Complete(c) /\ Commanded(c) /\ c.config = m.config
              /\ \E events \in EventSets :
                   /\ c.out = FirstAsks(m.config, events)
                   /\ "workspace" \in events => ProvidesWorkspaces(m.config)
<1>1. PICK s : s = Send(b, [kind |-> "outputs"])
  OBVIOUS
<1>2. /\ BarOK(s) /\ s.config = b.config /\ s.known = b.known /\ s.win = b.win /\ s.out = <<[kind |-> "outputs"]>>
      /\ s.wsChild = b.wsChild /\ s.status = b.status
  BY <1>1, SendOK DEF SameSight
<1>3. PICK p : p = ParseConfig(s, m)
  OBVIOUS
<1>4. /\ BarOK(p) /\ p.config = m.config /\ p.known = s.known /\ p.win = s.win /\ p.out = s.out
      /\ p.wsChild = s.wsChild /\ p.status = s.status
  BY <1>2, <1>3, ParseConfigOK DEF SameSight
<1>5. PICK events : events = {"output", "mode", "barconfig_update"} \cup
                              IF ProvidesWorkspaces(m.config) THEN {"workspace"} ELSE {}
  OBVIOUS
<1>6. events \in EventSets /\ ("workspace" \in events => ProvidesWorkspaces(m.config))
  BY <1>5 DEF EventSets
<1>7. PICK u : u = SubscribeEvents(p)
  OBVIOUS
<1>8. u = Send(p, [kind |-> "subscribe", events |-> events])
  BY <1>4, <1>5, <1>7 DEF SubscribeEvents
<1>9. /\ BarOK(u) /\ u.config = p.config /\ u.known = p.known /\ u.win = p.win
      /\ u.out = Append(p.out, [kind |-> "subscribe", events |-> events])
      /\ u.wsChild = p.wsChild /\ u.status = p.status
  BY <1>4, <1>8, SendOK DEF SameSight
<1>10. PICK a : a = IF ProvidesWorkspaces(m.config) THEN Send(u, [kind |-> "workspaces"]) ELSE u
  OBVIOUS
<1>11. /\ BarOK(a) /\ a.config = u.config /\ a.known = u.known /\ a.win = u.win
       /\ a.out = IF ProvidesWorkspaces(m.config) THEN Append(u.out, [kind |-> "workspaces"]) ELSE u.out
       /\ a.wsChild = u.wsChild /\ a.status = u.status
  <2>1. CASE ProvidesWorkspaces(m.config)
    BY <1>9, <1>10, <2>1, SendOK DEF SameSight
  <2>2. CASE ~ProvidesWorkspaces(m.config)
    BY <1>9, <1>10, <2>2
  <2>3. QED
    BY <2>1, <2>2
<1>12. PICK c : c = GotBarConfig(b, m)
  OBVIOUS
<1>13. c = [a EXCEPT !.status = StartChild(@, m.config.command), !.wsChild = StartWsChild(@, m.config.wsCommand),
                     !.keys = m.config.display = "hide"]
  BY <1>1, <1>3, <1>7, <1>10, <1>12 DEF GotBarConfig
<1>14. /\ DOMAIN c = BarFields /\ c.config = a.config /\ c.known = a.known /\ c.win = a.win /\ c.mapped = a.mapped
       /\ c.out = a.out /\ c.hung = a.hung /\ c.xs = a.xs
       /\ c.status = StartChild(a.status, m.config.command) /\ c.wsChild = StartWsChild(a.wsChild, m.config.wsCommand)
  BY <1>11, <1>13 DEF BarOK, BarFields
<1>15. a.status = NoChild /\ a.wsChild = NoChild
  <2>1. a.status = b.status /\ a.wsChild = b.wsChild
    BY <1>2, <1>4, <1>9, <1>11
  <2>2. QED
    BY <2>1, Zenon DEF BarOK, ChildOK
<1>16. /\ ChildOK(c.status) /\ ChildOK(c.wsChild)
       /\ c.wsChild.pid => m.config.wsCommand # NoCommand
  BY <1>14, <1>15, StartOK1
<1>17. BarOK(c)
  BY <1>11, <1>14, <1>16 DEF BarOK
<1>18. Complete(c) /\ Commanded(c)
  BY <1>2, <1>4, <1>9, <1>11, <1>14, <1>16 DEF Complete, Commanded
<1>19. c.out = FirstAsks(m.config, events)
  <2>1. u.out = Append(<<[kind |-> "outputs"]>>, [kind |-> "subscribe", events |-> events])
    BY <1>2, <1>4, <1>9
  <2>2. QED
    BY <1>11, <1>14, <2>1, Zenon DEF FirstAsks
<1>20. QED
  BY <1>4, <1>6, <1>9, <1>11, <1>12, <1>14, <1>17, <1>18, <1>19

\* A command that changed, or that is gone, is killed and started again; the workspace command only as configured.
LEMMA RestartStatusOK ==
    ASSUME NEW b, BarOK(b), NEW old
    PROVE  LET c == RestartStatus(b, old)
           IN /\ BarOK(c) /\ c.config = b.config /\ c.known = b.known /\ c.win = b.win /\ c.out = b.out
              /\ c.wsChild = b.wsChild
<1>1. CASE IsAlive(b.status) /\ old.command = b.config.command
  BY <1>1 DEF RestartStatus
<1>2. CASE ~(IsAlive(b.status) /\ old.command = b.config.command)
  <2>1. PICK c : c = RestartStatus(b, old)
    OBVIOUS
  <2>2. c = [b EXCEPT !.hung = @ \/ Hangs(b.status), !.status = StartChild(KillAndWait(@), b.config.command)]
    BY <1>2, <2>1, Zenon DEF RestartStatus
  <2>3. /\ DOMAIN c = BarFields /\ c.config = b.config /\ c.known = b.known /\ c.win = b.win /\ c.mapped = b.mapped
        /\ c.out = b.out /\ (c.hung <=> b.hung \/ Hangs(b.status)) /\ c.xs = b.xs
        /\ c.status = StartChild(KillAndWait(b.status), b.config.command) /\ c.wsChild = b.wsChild
    BY <2>2 DEF BarOK, BarFields
  <2>4. ~Hangs(b.status) /\ KillAndWait(b.status) = NoChild
    BY ContOK1, KillOK1 DEF BarOK
  <2>5. ChildOK(c.status)
    BY <2>3, <2>4, StartOK1
  <2>6. BarOK(c)
    BY <2>3, <2>4, <2>5 DEF BarOK
  <2>7. QED
    BY <2>1, <2>3, <2>6
<1>3. QED
  BY <1>1, <1>2

LEMMA RestartWsChildOK ==
    ASSUME NEW b, BarOK(b), NEW old, b.wsChild.pid => old.wsCommand # NoCommand
    PROVE  LET c == RestartWsChild(b, old)
           IN /\ BarOK(c) /\ Commanded(c)
              /\ c.config = b.config /\ c.known = b.known /\ c.win = b.win /\ c.out = b.out
<1>1. CASE IsAlive(b.wsChild) /\ old.wsCommand = b.config.wsCommand
  BY <1>1 DEF RestartWsChild, Commanded
<1>2. CASE ~(IsAlive(b.wsChild) /\ old.wsCommand = b.config.wsCommand)
  <2>1. PICK f : f = FreeWorkspaces(b)
    OBVIOUS
  <2>2. /\ BarOK(f) /\ f.config = b.config /\ f.known = b.known /\ f.win = b.win /\ f.out = b.out
        /\ f.wsChild = b.wsChild
    BY <2>1, FreeWorkspacesOK
  <2>3. PICK c : c = RestartWsChild(b, old)
    OBVIOUS
  <2>4. c = [f EXCEPT !.hung = @ \/ Hangs(b.wsChild), !.wsChild = StartWsChild(KillAndWait(@), b.config.wsCommand)]
    BY <1>2, <2>1, <2>3, Zenon DEF RestartWsChild
  <2>5. /\ DOMAIN c = BarFields /\ c.config = f.config /\ c.known = f.known /\ c.win = f.win /\ c.mapped = f.mapped
        /\ c.out = f.out /\ (c.hung <=> f.hung \/ Hangs(b.wsChild)) /\ c.xs = f.xs
        /\ c.wsChild = StartWsChild(KillAndWait(f.wsChild), b.config.wsCommand) /\ c.status = f.status
    BY <2>2, <2>4 DEF BarOK, BarFields
  <2>6. ~Hangs(b.wsChild) /\ KillAndWait(f.wsChild) = NoChild
    BY <2>2, ContOK1, KillOK1 DEF BarOK
  <2>7. ChildOK(c.wsChild) /\ (c.wsChild.pid => b.config.wsCommand # NoCommand)
    BY <2>5, <2>6, StartOK1
  <2>8. BarOK(c) /\ Commanded(c)
    BY <2>2, <2>5, <2>6, <2>7 DEF BarOK, Commanded
  <2>9. QED
    BY <2>2, <2>3, <2>5, <2>8
<1>3. QED
  BY <1>1, <1>2

\* got_bar_config_update: whatever changed, the outputs are asked for again.
LEMMA BarConfigUpdateOK ==
    ASSUME NEW b, BarOK(b), Complete(b), Commanded(b), NEW m, m.config \in Configs
    PROVE  LET c == GotBarConfigUpdate(b, m)
           IN /\ BarOK(c) /\ Complete(c) /\ Commanded(c)
              /\ c.config = m.config /\ c.out = Append(b.out, [kind |-> "outputs"])
<1>1. PICK s : s = Send(b, [kind |-> "outputs"])
  OBVIOUS
<1>2. /\ BarOK(s) /\ s.known = b.known /\ s.win = b.win /\ s.out = Append(b.out, [kind |-> "outputs"])
      /\ s.wsChild = b.wsChild
  BY <1>1, SendOK DEF SameSight
<1>3. PICK p : p = ParseConfig(s, m)
  OBVIOUS
<1>4. /\ BarOK(p) /\ p.config = m.config /\ p.known = s.known /\ p.win = s.win /\ p.out = s.out
      /\ p.wsChild = s.wsChild
  BY <1>2, <1>3, ParseConfigOK DEF SameSight
<1>5. Complete(p)
  BY <1>2, <1>4 DEF Complete
<1>6. PICK w : w = IF b.config.display # m.config.display THEN ReconfigWindows(p, TRUE) ELSE p
  OBVIOUS
<1>7. BarOK(w) /\ Same(p, w)
  BY <1>4, <1>5, <1>6, ReconfigWindowsOK, SameSightOnce
<1>8. PICK r : r = RestartStatus(w, b.config)
  OBVIOUS
<1>9. /\ BarOK(r) /\ r.config = w.config /\ r.known = w.known /\ r.win = w.win /\ r.out = w.out
      /\ r.wsChild = w.wsChild
  BY <1>7, <1>8, RestartStatusOK
<1>10. r.wsChild.pid => b.config.wsCommand # NoCommand
  BY <1>2, <1>4, <1>7, <1>9 DEF Same, Commanded
<1>11. PICK d : d = RestartWsChild(r, b.config)
  OBVIOUS
<1>12. /\ BarOK(d) /\ Commanded(d)
       /\ d.config = r.config /\ d.known = r.known /\ d.win = r.win /\ d.out = r.out
  BY <1>9, <1>10, <1>11, RestartWsChildOK
<1>13. Complete(d)
  BY <1>5, <1>7, <1>9, <1>12 DEF Complete, Same
<1>14. PICK c : c = DrawBars(d, FALSE)
  OBVIOUS
<1>15. BarOK(c) /\ Complete(c) /\ Same(d, c)
  BY <1>12, <1>13, <1>14, DrawnOK
<1>16. c = GotBarConfigUpdate(b, m)
  BY <1>1, <1>3, <1>6, <1>8, <1>11, <1>14 DEF GotBarConfigUpdate
<1>17. QED
  BY <1>2, <1>4, <1>7, <1>9, <1>12, <1>15, <1>16 DEF Same, Commanded

\* got_mode_event changes nothing that is seen of a docked bar.
LEMMA ModeEventOK ==
    ASSUME NEW b, BarOK(b), Complete(b), NEW m
    PROVE  LET c == GotModeEvent(b, m)
           IN /\ BarOK(c) /\ Complete(c) /\ Same(b, c)
              /\ b.config.display = "dock" => SameSight(b, c)
<1>1. PICK p : p = [b EXCEPT !.modeName = m.mode, !.activated = m.mode]
  OBVIOUS
<1>2. /\ DOMAIN p = BarFields /\ p.status = b.status /\ p.wsChild = b.wsChild
      /\ p.config = b.config /\ p.known = b.known /\ p.win = b.win /\ p.mapped = b.mapped
      /\ p.watched = b.watched /\ p.visible = b.visible /\ p.ws = b.ws
      /\ p.out = b.out /\ p.hung = b.hung /\ p.xs = b.xs
  BY <1>1 DEF BarOK, BarFields
<1>3. BarOK(p) /\ Complete(p) /\ Same(b, p) /\ SameSight(b, p)
  BY <1>2 DEF BarOK, Complete, Same, SameSight
<1>4. PICK c : c = DrawBars(p, FALSE)
  OBVIOUS
<1>5. BarOK(c) /\ Complete(c) /\ Same(p, c) /\ (p.config.display = "dock" => SameSight(p, c))
  BY <1>3, <1>4, DrawnOK
<1>6. c = GotModeEvent(b, m)
  BY <1>1, <1>4, Zenon DEF GotModeEvent
<1>7. Same(b, c)
  BY <1>3, <1>5, SameFollows
<1>8. ASSUME b.config.display = "dock" PROVE SameSight(b, c)
  <2>1. SameSight(p, c)
    BY <1>2, <1>5, <1>8
  <2>2. QED
    BY <1>3, <2>1 DEF SameSight
<1>9. QED
  BY <1>5, <1>6, <1>7, <1>8

-----------------------------------------------------------------------------
(* X events *)

\* The events of the modifier say nothing of the windows.
LEMMA ModifierTellsNothing ==
    ASSUME NEW b, BarOK(b), NEW q \in Seq(XEvents), q # <<>>, Head(q) \in ModifierEvents,
           NEW covered, Watched(b, q, covered)
    PROVE  Watched(b, Tail(q), covered)
<1>1. \A i \in DOMAIN q : i # 1 => i - 1 \in DOMAIN Tail(q) /\ Tail(q)[i - 1] = q[i]
  OBVIOUS
<1>2. q[1] = Head(q) /\ \A o \in b.mapped : o \notin ModifierEvents
  BY BarAssumption DEF BarOK
<1>3. ASSUME NEW o \in b.mapped, NEW i \in DOMAIN q, q[i] = o PROVE \E j \in DOMAIN Tail(q) : Tail(q)[j] = o
  BY <1>1, <1>2, <1>3
<1>4. Notified(q) => Notified(Tail(q))
  BY <1>1, <1>2 DEF Notified
<1>5. QED
  BY <1>3, <1>4 DEF Watched

\* Neither does the modifier.
LEMMA HandleModifierOK ==
    ASSUME NEW b, BarOK(b), Complete(b), NEW pressed
    PROVE  LET c == HandleModifier(b, pressed)
           IN /\ BarOK(c) /\ Complete(c) /\ Same(b, c)
              /\ b.config.display = "dock" => SameSight(b, c)
<1>1. PICK t : t = [b EXCEPT !.modPressed = pressed]
  OBVIOUS
<1>2. PICK a : a = [t EXCEPT !.activated = FALSE]
  OBVIOUS
<1>3. /\ DOMAIN t = BarFields /\ t.status = b.status /\ t.wsChild = b.wsChild
      /\ t.config = b.config /\ t.known = b.known /\ t.win = b.win /\ t.mapped = b.mapped
      /\ t.watched = b.watched /\ t.visible = b.visible /\ t.ws = b.ws
      /\ t.out = b.out /\ t.hung = b.hung /\ t.xs = b.xs
  BY <1>1 DEF BarOK, BarFields
<1>4. /\ DOMAIN a = BarFields /\ a.status = b.status /\ a.wsChild = b.wsChild
      /\ a.config = b.config /\ a.known = b.known /\ a.win = b.win /\ a.mapped = b.mapped
      /\ a.watched = b.watched /\ a.visible = b.visible /\ a.ws = b.ws
      /\ a.out = b.out /\ a.hung = b.hung /\ a.xs = b.xs
  BY <1>2, <1>3 DEF BarFields
<1>5. BarOK(t) /\ Complete(t) /\ Same(b, t) /\ SameSight(b, t)
  BY <1>3 DEF BarOK, Complete, Same, SameSight
<1>6. BarOK(a) /\ Complete(a) /\ Same(b, a) /\ SameSight(b, a)
  BY <1>4 DEF BarOK, Complete, Same, SameSight
<1>7. PICK c : c = HandleModifier(b, pressed)
  OBVIOUS
<1>8. c = b \/ c = UnhideBars(a) \/ c = HideBars(t) \/ c = t
  BY <1>1, <1>2, <1>7, Zenon DEF HandleModifier
<1>9. CASE c = b
  BY <1>7, <1>9, SameSightOnce
<1>10. CASE c = UnhideBars(a)
  <2>1. BarOK(c) /\ Same(a, c) /\ (a.config.display = "dock" => c = a)
    BY <1>6, <1>10, UnhideBarsOK
  <2>2. QED
    BY <1>6, <1>7, <2>1 DEF Same, Complete
<1>11. CASE c = HideBars(t)
  <2>1. BarOK(c) /\ Same(t, c) /\ (t.config.display = "dock" => c = t)
    BY <1>5, <1>11, HideBarsOK
  <2>2. QED
    BY <1>5, <1>7, <2>1 DEF Same, Complete
<1>12. CASE c = t
  BY <1>5, <1>7, <1>12
<1>13. QED
  BY <1>8, <1>9, <1>10, <1>11, <1>12

\* handle_visibility_notify: what is known of the window is true then, and the children run if any window is seen.
LEMMA VisibilityNotifyOK ==
    ASSUME NEW b, BarOK(b), Complete(b), NEW o
    PROVE  LET c == HandleVisibilityNotify(b, o)
           IN /\ BarOK(c) /\ Complete(c) /\ Same(b, c) /\ c.xs = b.xs
              /\ \A q \in Seq(XEvents) : q # <<>> /\ o = Head(q) /\ Watched(b, q, x.covered)
                                           => Watched(c, Tail(q), x.covered)
<1>1. PICK s : s = IF o = Unknown THEN b ELSE [b EXCEPT !.visible = IF o \in x.covered THEN @ \ {o} ELSE @ \cup {o}]
  OBVIOUS
<1>2. /\ DOMAIN s = BarFields /\ s.status = b.status /\ s.wsChild = b.wsChild
      /\ s.config = b.config /\ s.known = b.known /\ s.win = b.win /\ s.mapped = b.mapped
      /\ s.watched = b.watched /\ s.ws = b.ws
      /\ s.out = b.out /\ s.hung = b.hung /\ s.xs = b.xs
  BY <1>1 DEF BarOK, BarFields
<1>3. /\ o # Unknown => (o \in s.visible <=> o \notin x.covered)
      /\ \A p : p # o => (p \in s.visible <=> p \in b.visible)
      /\ o = Unknown => s = b
  BY <1>1 DEF BarOK, BarFields
<1>4. BarOK(s) /\ Complete(s) /\ Same(b, s)
  BY <1>2 DEF BarOK, Complete, Same
<1>5. PICK c : c = HandleVisibilityNotify(b, o)
  OBVIOUS
<1>6. c = IF s.known \cap s.visible # {} THEN ContChildren(s) ELSE StopChildren(s)
  BY <1>1, <1>5 DEF HandleVisibilityNotify
<1>7. BarOK(c) /\ Same(s, c)
  BY <1>4, <1>6, StopChildrenOK, ContChildrenOK
<1>8. /\ c.mapped = s.mapped /\ c.watched = s.watched /\ c.visible = s.visible /\ c.xs = s.xs
      /\ c.status = IF s.known \cap s.visible # {} THEN ContChild(s.status) ELSE StopChild(s.status)
  BY <1>4, <1>6 DEF StopChildren, ContChildren, BarOK, BarFields
<1>9. c.status.stopped => c.known \cap c.visible = {}
  BY <1>4, <1>7, <1>8, ContOK1 DEF BarOK, Same
<1>10. ASSUME NEW q \in Seq(XEvents), q # <<>>, o = Head(q), Watched(b, q, x.covered)
       PROVE  Watched(c, Tail(q), x.covered)
  <2>1. \A i \in DOMAIN q : i # 1 => i - 1 \in DOMAIN Tail(q) /\ Tail(q)[i - 1] = q[i]
    BY <1>10
  <2>2. q[1] = o
    BY <1>10
  <2>3. ASSUME NEW p \in c.mapped
        PROVE  (\E i \in DOMAIN Tail(q) : Tail(q)[i] = p) \/ (p \in c.visible <=> p \notin x.covered)
    <3>1. p # Unknown /\ p \in b.mapped
      BY <1>2, <1>8, <2>3, BarAssumption DEF BarOK
    <3>2. (\E i \in DOMAIN q : q[i] = p) \/ (p \in b.visible <=> p \notin x.covered)
      BY <1>10, <3>1 DEF Watched
    <3>3. CASE p = o
      BY <1>3, <1>8, <3>1, <3>3
    <3>4. CASE p # o
      BY <1>3, <1>8, <2>1, <2>2, <3>2, <3>4
    <3>5. QED
      BY <3>3, <3>4
  <2>4. c.mapped \subseteq c.watched
    BY <1>2, <1>8, <1>10 DEF Watched
  <2>5. QED
    BY <1>9, <2>3, <2>4 DEF Watched
<1>11. Complete(c) /\ Same(b, c) /\ c.xs = b.xs
  BY <1>2, <1>4, <1>7, <1>8 DEF Complete, Same
<1>12. QED
  BY <1>5, <1>7, <1>10, <1>11

-----------------------------------------------------------------------------
(* The children *)

\* Another state of the status command, and of the workspace command
LEMMA StatusBecomes ==
    ASSUME NEW b, BarOK(b), Complete(b), NEW d, ChildOK(d), d.stopped => b.status.stopped
    PROVE  LET c == [b EXCEPT !.status = d]
           IN /\ BarOK(c) /\ Complete(c)
              /\ c.config = b.config /\ c.known = b.known /\ c.win = b.win /\ c.out = b.out /\ c.ws = b.ws
              /\ c.wsChild = b.wsChild /\ c.status = d /\ c.xs = b.xs /\ c.mapped = b.mapped
              /\ \A q, covered : Watched(b, q, covered) => Watched(c, q, covered)
<1>1. PICK c : c = [b EXCEPT !.status = d]
  OBVIOUS
<1>2. /\ DOMAIN c = BarFields /\ c.status = d /\ c.wsChild = b.wsChild
      /\ c.config = b.config /\ c.known = b.known /\ c.win = b.win /\ c.mapped = b.mapped
      /\ c.watched = b.watched /\ c.visible = b.visible /\ c.ws = b.ws
      /\ c.out = b.out /\ c.hung = b.hung /\ c.xs = b.xs
  BY <1>1 DEF BarOK, BarFields
<1>3. BarOK(c) /\ Complete(c)
  BY <1>2 DEF BarOK, Complete
<1>4. ASSUME NEW q, NEW covered, Watched(b, q, covered) PROVE Watched(c, q, covered)
  BY <1>2, <1>4 DEF Watched
<1>5. QED
  BY <1>1, <1>2, <1>3, <1>4

LEMMA WsChildBecomes ==
    ASSUME NEW b, BarOK(b), Complete(b), NEW d, ChildOK(d)
    PROVE  LET c == [b EXCEPT !.wsChild = d]
           IN /\ BarOK(c) /\ Complete(c) /\ SameSight(b, c)
              /\ c.config = b.config /\ c.known = b.known /\ c.win = b.win /\ c.out = b.out /\ c.ws = b.ws
              /\ c.wsChild = d /\ c.status = b.status
<1>1. PICK c : c = [b EXCEPT !.wsChild = d]
  OBVIOUS
<1>2. /\ DOMAIN c = BarFields /\ c.wsChild = d /\ c.status = b.status
      /\ c.config = b.config /\ c.known = b.known /\ c.win = b.win /\ c.mapped = b.mapped
      /\ c.watched = b.watched /\ c.visible = b.visible /\ c.ws = b.ws
      /\ c.out = b.out /\ c.hung = b.hung /\ c.xs = b.xs
  BY <1>1 DEF BarOK, BarFields
<1>3. BarOK(c) /\ Complete(c) /\ SameSight(b, c)
  BY <1>2 DEF BarOK, Complete, SameSight
<1>4. QED
  BY <1>1, <1>2, <1>3

\* The header of the status protocol, and the end of a process that is not asleep
LEMMA HeaderOK ==
    ASSUME NEW c, ChildOK(c), c.pid, NEW json
    PROVE  LET d == ParseHeader(c, json)
           IN ChildOK(d) /\ (d.pid <=> c.pid) /\ (d.stopped <=> c.stopped)
<1>1. PICK h : h = IF json THEN "json" ELSE "flat"
  OBVIOUS
<1>2. PICK d : d = [c EXCEPT !.signals = TRUE, !.header = h]
  OBVIOUS
<1>3. /\ DOMAIN d = ChildFields /\ d.signals /\ d.pid = c.pid /\ d.stopped = c.stopped
      /\ d.exited = c.exited /\ d.asleep = c.asleep
  BY <1>2 DEF ChildOK, ChildFields
<1>4. ChildOK(d)
  BY <1>3 DEF ChildOK
<1>5. d = ParseHeader(c, json)
  BY <1>1, <1>2 DEF ParseHeader
<1>6. QED
  BY <1>3, <1>4, <1>5

LEMMA ExitOK ==
    ASSUME NEW c, ChildOK(c), c.pid, ~c.asleep
    PROVE  LET d == [c EXCEPT !.exited = TRUE]
           IN ChildOK(d) /\ (d.pid <=> c.pid) /\ (d.stopped <=> c.stopped)
<1>1. PICK d : d = [c EXCEPT !.exited = TRUE]
  OBVIOUS
<1>2. /\ DOMAIN d = ChildFields /\ d.signals = c.signals /\ d.pid = c.pid /\ d.stopped = c.stopped
      /\ d.exited /\ d.asleep = c.asleep
  BY <1>1 DEF ChildOK, ChildFields
<1>3. ChildOK(d)
  BY <1>2 DEF ChildOK
<1>4. QED
  BY <1>1, <1>2, <1>3

\* send_block_clicked kills a command that reads no clicks.
LEMMA BlockClickedOK ==
    ASSUME NEW b, BarOK(b), Complete(b)
    PROVE  LET c == [b EXCEPT !.hung = @ \/ Hangs(b.status), !.status = KillAndWait(@)]
           IN /\ BarOK(c) /\ Complete(c)
              /\ c.config = b.config /\ c.known = b.known /\ c.win = b.win /\ c.out = b.out /\ c.ws = b.ws
              /\ c.wsChild = b.wsChild /\ c.xs = b.xs
              /\ \A q, covered : Watched(b, q, covered) => Watched(c, q, covered)
<1>1. PICK c : c = [b EXCEPT !.hung = @ \/ Hangs(b.status), !.status = KillAndWait(@)]
  OBVIOUS
<1>2. /\ DOMAIN c = BarFields /\ c.wsChild = b.wsChild /\ c.status = KillAndWait(b.status)
      /\ c.config = b.config /\ c.known = b.known /\ c.win = b.win /\ c.mapped = b.mapped
      /\ c.watched = b.watched /\ c.visible = b.visible /\ c.ws = b.ws
      /\ c.out = b.out /\ (c.hung <=> b.hung \/ Hangs(b.status)) /\ c.xs = b.xs
  BY <1>1 DEF BarOK, BarFields
<1>3. ~Hangs(b.status) /\ KillAndWait(b.status) = NoChild
  BY ContOK1, KillOK1 DEF BarOK
<1>4. BarOK(c) /\ Complete(c)
  BY <1>2, <1>3, NoChildOK DEF BarOK, Complete
<1>5. ASSUME NEW q, NEW covered, Watched(b, q, covered) PROVE Watched(c, q, covered)
  BY <1>2, <1>3, <1>5, NoChildOK DEF Watched
<1>6. QED
  BY <1>1, <1>2, <1>4, <1>5

-----------------------------------------------------------------------------
(* Streams *)

Requests ==
    [kind : {"bar_config", "outputs", "workspaces", "command"}] \cup [kind : {"subscribe"}, events : EventSets]
Messages ==
    [kind : {"bar_config", "barconfig_update"}, config : Configs]
      \cup [kind : {"outputs"}, outputs : SUBSET Outputs]
      \cup [kind : {"workspaces"}, ws : Nat, urgent : BOOLEAN]
      \cup [kind : {"workspace", "output", "success"}]
      \cup [kind : {"mode"}, mode : BOOLEAN]

Carries(q, kinds) == \E i \in DOMAIN q : q[i].kind \in kinds

\* What two streams have together, and one without its first message
LEMMA CarriesAppended ==
    ASSUME NEW S, NEW p \in Seq(S), NEW q \in Seq(S), NEW kinds
    PROVE  Carries(p \o q, kinds) <=> Carries(p, kinds) \/ Carries(q, kinds)
<1>1. \A i \in DOMAIN p : i \in DOMAIN (p \o q) /\ (p \o q)[i] = p[i]
  OBVIOUS
<1>2. \A i \in DOMAIN q : Len(p) + i \in DOMAIN (p \o q) /\ (p \o q)[Len(p) + i] = q[i]
  OBVIOUS
<1>3. \A i \in DOMAIN (p \o q) : i \in DOMAIN p \/ (i - Len(p) \in DOMAIN q /\ (p \o q)[i] = q[i - Len(p)])
  OBVIOUS
<1>4. QED
  BY <1>1, <1>2, <1>3 DEF Carries

LEMMA CarriesFirst ==
    ASSUME NEW S, NEW q \in Seq(S), q # <<>>, NEW kinds
    PROVE  Carries(q, kinds) <=> Head(q).kind \in kinds \/ Carries(Tail(q), kinds)
<1>1. \A i \in DOMAIN q : i = 1 \/ (i - 1 \in DOMAIN Tail(q) /\ Tail(q)[i - 1] = q[i])
  OBVIOUS
<1>2. \A i \in DOMAIN Tail(q) : i + 1 \in DOMAIN q /\ q[i + 1] = Tail(q)[i]
  OBVIOUS
<1>3. q[1] = Head(q) /\ 1 \in DOMAIN q
  OBVIOUS
<1>4. QED
  BY <1>1, <1>2, <1>3 DEF Carries

\* An empty stream, and one with one message
LEMMA CarriesNothing == ASSUME NEW kinds PROVE ~Carries(<<>>, kinds)
  BY DEF Carries

LEMMA CarriesOnce ==
    ASSUME NEW m, NEW kinds
    PROVE  Carries(<<m>>, kinds) <=> m.kind \in kinds
<1>1. DOMAIN <<m>> = {1} /\ <<m>>[1] = m
  OBVIOUS
<1>2. QED
  BY <1>1 DEF Carries

\* What tells of the workspaces of version at, now or after it has been asked for
Asks(r) == Carries(r, {"outputs", "workspaces"})
Refreshes(m, at) ==
    \/ m.kind \in {"outputs", "output", "barconfig_update", "workspace"}
    \/ m.kind = "workspaces" /\ m.ws = at
After(q, n, at) == \E j \in DOMAIN q : j > n /\ Refreshes(q[j], at)
Stale(m, at) == m.kind = "workspaces" /\ m.ws # at

\* r are the requests and q the messages under way.  Old workspaces are followed by
\* new ones, and those that are shown are new ones or will be.
Renewed(r, q, at) == \A i \in DOMAIN q : Stale(q[i], at) => Asks(r) \/ After(q, i, at)
Fresh(b, r, q, at) ==
    ProvidesWorkspaces(b.config) => Asks(r) \/ After(q, 0, at) \/ b.ws = [at |-> at, outs |-> b.known]

\* With a message that tells of the present workspaces at the end, old ones are all followed by it.
LEMMA RefresherAppended ==
    ASSUME NEW S, NEW p \in Seq(S), NEW q \in Seq(S), NEW at, NEW r,
           \A i \in DOMAIN q : ~Stale(q[i], at), After(q, 0, at)
    PROVE  Renewed(r, p \o q, at) /\ After(p \o q, 0, at)
<1>1. PICK j \in DOMAIN q : Refreshes(q[j], at)
  BY DEF After
<1>2. /\ Len(p) + j \in DOMAIN (p \o q) /\ (p \o q)[Len(p) + j] = q[j]
      /\ Len(p) + j > 0 /\ \A i \in DOMAIN p : Len(p) + j > i
  BY <1>1
<1>3. \A i \in DOMAIN p : After(p \o q, i, at)
  BY <1>1, <1>2 DEF After
<1>4. After(p \o q, 0, at)
  BY <1>1, <1>2 DEF After
<1>5. \A i \in DOMAIN (p \o q) : i \in DOMAIN p \/ (i - Len(p) \in DOMAIN q /\ (p \o q)[i] = q[i - Len(p)])
  OBVIOUS
<1>6. QED
  BY <1>3, <1>4, <1>5 DEF Renewed

\* Messages that are not old workspaces leave what was to come.
LEMMA OthersAppended ==
    ASSUME NEW S, NEW p \in Seq(S), NEW q \in Seq(S), NEW at, NEW r, NEW more,
           \A i \in DOMAIN q : ~Stale(q[i], at), Asks(r) => Asks(more)
    PROVE  /\ Renewed(r, p, at) => Renewed(more, p \o q, at)
           /\ \A i \in Nat : After(p, i, at) => After(p \o q, i, at)
<1>1. \A i \in DOMAIN p : i \in DOMAIN (p \o q) /\ (p \o q)[i] = p[i]
  OBVIOUS
<1>2. \A i \in DOMAIN (p \o q) : i \in DOMAIN p \/ (i - Len(p) \in DOMAIN q /\ (p \o q)[i] = q[i - Len(p)])
  OBVIOUS
<1>3. \A i \in Nat : After(p, i, at) => After(p \o q, i, at)
  BY <1>1 DEF After
<1>4. DOMAIN p \subseteq Nat
  OBVIOUS
<1>5. QED
  BY <1>1, <1>2, <1>3, <1>4 DEF Renewed

\* When the first message is taken: unless it tells of the workspaces itself, what was to come is still to come.
LEMMA RenewedFirst ==
    ASSUME NEW S, NEW q \in Seq(S), q # <<>>, NEW at, NEW r
    PROVE  /\ Renewed(r, q, at) => Renewed(r, Tail(q), at)
           /\ After(q, 0, at) => Refreshes(Head(q), at) \/ After(Tail(q), 0, at)
           /\ Renewed(r, q, at) /\ Stale(Head(q), at) => Asks(r) \/ After(Tail(q), 0, at)
<1>1. \A i \in DOMAIN q : i = 1 \/ (i - 1 \in DOMAIN Tail(q) /\ Tail(q)[i - 1] = q[i])
  OBVIOUS
<1>2. \A i \in DOMAIN Tail(q) : i \in Nat /\ i + 1 \in DOMAIN q /\ q[i + 1] = Tail(q)[i]
  OBVIOUS
<1>3. q[1] = Head(q) /\ 1 \in DOMAIN q /\ DOMAIN q \subseteq Nat
  OBVIOUS
<1>4. ASSUME NEW i \in Nat, After(q, i + 1, at) PROVE After(Tail(q), i, at)
  <2>1. PICK j \in DOMAIN q : j > i + 1 /\ Refreshes(q[j], at)
    BY <1>4 DEF After
  <2>2. j - 1 \in DOMAIN Tail(q) /\ Tail(q)[j - 1] = q[j] /\ j - 1 > i
    BY <1>1, <1>3, <2>1
  <2>3. QED
    BY <2>1, <2>2 DEF After
<1>5. Renewed(r, q, at) => Renewed(r, Tail(q), at)
  BY <1>2, <1>4 DEF Renewed
<1>6. After(q, 0, at) => Refreshes(Head(q), at) \/ After(Tail(q), 0, at)
  <2>1. SUFFICES ASSUME NEW j \in DOMAIN q, Refreshes(q[j], at), ~Refreshes(Head(q), at) PROVE After(Tail(q), 0, at)
    BY DEF After
  <2>2. j - 1 \in DOMAIN Tail(q) /\ Tail(q)[j - 1] = q[j] /\ j - 1 > 0
    BY <1>1, <1>2, <1>3, <2>1
  <2>3. QED
    BY <2>1, <2>2 DEF After
<1>7. Renewed(r, q, at) /\ Stale(Head(q), at) => Asks(r) \/ After(Tail(q), 0, at)
  <2>1. After(q, 1, at) => After(Tail(q), 0, at)
    BY <1>4
  <2>2. QED
    BY <1>3, <2>1 DEF Renewed
<1>8. QED
  BY <1>5, <1>6, <1>7

\* Who subscribes to the events of workspaces asks for them afterwards.
Subscribed(r) ==
    \A i \in DOMAIN r : r[i].kind = "subscribe" /\ "workspace" \in r[i].events =>
        \E j \in DOMAIN r : j > i /\ r[j].kind = "workspaces"

\* Requests that are sent after others, and the first request taken
LEMMA SubscribedAppended ==
    ASSUME NEW S, NEW p \in Seq(S), NEW q \in Seq(S), Subscribed(p), Subscribed(q)
    PROVE  Subscribed(p \o q)
<1>1. \A i \in DOMAIN p : i \in DOMAIN (p \o q) /\ (p \o q)[i] = p[i]
  OBVIOUS
<1>2. \A i \in DOMAIN q : Len(p) + i \in DOMAIN (p \o q) /\ (p \o q)[Len(p) + i] = q[i]
  OBVIOUS
<1>3. \A i \in DOMAIN (p \o q) : i \in DOMAIN p \/ (i - Len(p) \in DOMAIN q /\ (p \o q)[i] = q[i - Len(p)])
  OBVIOUS
<1>4. DOMAIN q \subseteq Int /\ DOMAIN p \subseteq Int /\ DOMAIN (p \o q) \subseteq Int /\ Len(p) \in Int
  OBVIOUS
<1>5. ASSUME NEW i \in DOMAIN (p \o q), (p \o q)[i].kind = "subscribe", "workspace" \in (p \o q)[i].events
      PROVE  \E j \in DOMAIN (p \o q) : j > i /\ (p \o q)[j].kind = "workspaces"
  <2>1. CASE i \in DOMAIN p
    BY <1>1, <1>5, <2>1 DEF Subscribed
  <2>2. CASE i - Len(p) \in DOMAIN q /\ (p \o q)[i] = q[i - Len(p)]
    <3>1. PICK j \in DOMAIN q : j > i - Len(p) /\ q[j].kind = "workspaces"
      BY <1>5, <2>2 DEF Subscribed
    <3>2. Len(p) + j > i
      BY <1>4, <3>1
    <3>3. QED
      BY <1>2, <3>1, <3>2
  <2>3. QED
    BY <1>3, <2>1, <2>2
<1>6. QED
  BY <1>5 DEF Subscribed

LEMMA SubscribedFirst ==
    ASSUME NEW S, NEW q \in Seq(S), q # <<>>, Subscribed(q)
    PROVE  /\ Subscribed(Tail(q))
           /\ Head(q).kind = "subscribe" /\ "workspace" \in Head(q).events => Asks(Tail(q))
<1>1. \A i \in DOMAIN q : i = 1 \/ (i - 1 \in DOMAIN Tail(q) /\ Tail(q)[i - 1] = q[i])
  OBVIOUS
<1>2. \A i \in DOMAIN Tail(q) : i \in Nat /\ i + 1 \in DOMAIN q /\ q[i + 1] = Tail(q)[i]
  OBVIOUS
<1>3. q[1] = Head(q) /\ 1 \in DOMAIN q /\ DOMAIN q \subseteq Nat
  OBVIOUS
<1>4. ASSUME NEW i \in DOMAIN Tail(q), Tail(q)[i].kind = "subscribe", "workspace" \in Tail(q)[i].events
      PROVE  \E j \in DOMAIN Tail(q) : j > i /\ Tail(q)[j].kind = "workspaces"
  <2>1. PICK j \in DOMAIN q : j > i + 1 /\ q[j].kind = "workspaces"
    BY <1>2, <1>4 DEF Subscribed
  <2>2. j - 1 \in DOMAIN Tail(q) /\ Tail(q)[j - 1] = q[j] /\ j - 1 > i
    BY <1>1, <1>2, <1>3, <2>1
  <2>3. QED
    BY <2>1, <2>2
<1>5. ASSUME Head(q).kind = "subscribe", "workspace" \in Head(q).events PROVE Asks(Tail(q))
  <2>1. PICK j \in DOMAIN q : j > 1 /\ q[j].kind = "workspaces"
    BY <1>3, <1>5 DEF Subscribed
  <2>2. j - 1 \in DOMAIN Tail(q) /\ Tail(q)[j - 1] = q[j]
    BY <1>1, <2>1
  <2>3. QED
    BY <2>1, <2>2 DEF Asks, Carries
<1>6. QED
  BY <1>4, <1>5 DEF Subscribed

\* The first requests ask for the outputs, subscribe, and ask for the workspaces last.
LEMMA FirstAsksOK ==
    ASSUME NEW config, NEW events \in EventSets, "workspace" \in events => ProvidesWorkspaces(config)
    PROVE  LET r == FirstAsks(config, events)
           IN /\ r \in Seq(Requests) /\ Subscribed(r) /\ ~Carries(r, {"bar_config"})
              /\ Carries(r, {"outputs"}) /\ Asks(r)
<1>1. PICK o, s, w : /\ o = [kind |-> "outputs"] /\ s = [kind |-> "subscribe", events |-> events]
                     /\ w = [kind |-> "workspaces"]
  OBVIOUS
<1>2. o \in Requests /\ s \in Requests /\ w \in Requests
  BY <1>1 DEF Requests
<1>3. o.kind = "outputs" /\ s.kind = "subscribe" /\ s.events = events /\ w.kind = "workspaces"
  BY <1>1
<1>4. PICK r : r = FirstAsks(config, events)
  OBVIOUS
<1>5. r = IF ProvidesWorkspaces(config) THEN Append(Append(<<o>>, s), w) ELSE Append(<<o>>, s)
  BY <1>1, <1>4 DEF FirstAsks
<1>6. r \in Seq(Requests)
  BY <1>2, <1>5
<1>7. /\ DOMAIN r = IF ProvidesWorkspaces(config) THEN 1 .. 3 ELSE 1 .. 2
      /\ r[1] = o /\ r[2] = s /\ (ProvidesWorkspaces(config) => r[3] = w)
  BY <1>2, <1>5
<1>8. Subscribed(r)
  BY <1>3, <1>7 DEF Subscribed
<1>9. ~Carries(r, {"bar_config"}) /\ Carries(r, {"outputs"}) /\ Asks(r)
  BY <1>3, <1>7 DEF Carries, Asks
<1>10. QED
  BY <1>4, <1>6, <1>8, <1>9

-----------------------------------------------------------------------------
(* The invariant *)

Settled(r, q) == ~Carries(r, {"outputs"}) /\ ~Carries(q, {"outputs", "output", "barconfig_update"})
BarBegun(b) ==
    IF b.config = Unknown
    THEN /\ i3.events = {} /\ b.known = {} /\ ~b.status.pid /\ ~b.wsChild.pid /\ x.queue = <<>>
         /\ \/ toI3 = <<[kind |-> "bar_config"]>> /\ toBar = <<>>
            \/ toI3 = <<>> /\ \E m : toBar = <<m>> /\ m.kind = "bar_config"
    ELSE ~Carries(toI3, {"bar_config"}) /\ ~Carries(toBar, {"bar_config"})
Refreshed(b) ==
    "workspace" \in i3.events => Renewed(toI3, toBar, i3.ws) /\ Fresh(b, toI3, toBar, i3.ws)
Seen(b) ==
    b.config # Unknown /\ b.config.display = "dock" /\ Settled(toI3, toBar) => Watched(b, x.queue, x.covered)

Streams ==
    /\ DOMAIN x = {"covered", "modifier", "queue"} /\ x.queue \in Seq(XEvents)
    /\ DOMAIN i3 = {"outputs", "ws", "urgent", "mode", "config", "events"}
    /\ i3.ws \in Nat /\ i3.config \in Configs /\ i3.outputs \subseteq Outputs
    /\ i3.urgent \in BOOLEAN /\ i3.mode \in BOOLEAN
    /\ toI3 \in Seq(Requests) /\ toBar \in Seq(Messages) /\ Subscribed(toI3)
Sound(b) == BarOK(b) /\ Complete(b) /\ Commanded(b) /\ b.out = <<>> /\ b.xs = <<>>
BarInv == Streams /\ Sound(bar) /\ BarBegun(bar) /\ Refreshed(bar) /\ Seen(bar)

\* The invariant holds when i3bar starts.
LEMMA BarStarts == ASSUME BarInit PROVE BarInv
<1>1. PICK b : b = bar
  OBVIOUS
<1>2. /\ DOMAIN b = BarFields /\ b.config = Unknown /\ b.known = {} /\ b.win = {} /\ b.mapped = {}
      /\ b.status = NoChild /\ b.wsChild = NoChild /\ ~b.hung /\ b.out = <<>> /\ b.xs = <<>>
  BY <1>1 DEF BarInit, BarFields
<1>3. Sound(b)
  BY <1>2, NoChildOK DEF Sound, BarOK, Complete, Commanded
<1>4. PICK config \in Configs :
          i3 = [outputs |-> Outputs, ws |-> 0, urgent |-> FALSE, mode |-> FALSE, config |-> config, events |-> {}]
  BY DEF BarInit
<1>5. /\ DOMAIN i3 = {"outputs", "ws", "urgent", "mode", "config", "events"}
      /\ i3.ws \in Nat /\ i3.config \in Configs /\ i3.outputs \subseteq Outputs
      /\ i3.urgent \in BOOLEAN /\ i3.mode \in BOOLEAN /\ i3.events = {}
  BY <1>4
<1>6. DOMAIN x = {"covered", "modifier", "queue"} /\ x.queue = <<>>
  BY DEF BarInit
<1>7. PICK r : r = [kind |-> "bar_config"]
  OBVIOUS
<1>8. r \in Requests /\ r.kind = "bar_config"
  BY <1>7 DEF Requests
<1>9. toI3 = <<r>> /\ toBar = <<>> /\ DOMAIN <<r>> = {1} /\ <<r>>[1] = r
  BY <1>7 DEF BarInit
<1>10. Subscribed(toI3)
  BY <1>8, <1>9 DEF Subscribed
<1>11. Streams
  BY <1>5, <1>6, <1>8, <1>9, <1>10 DEF Streams
<1>12. BarBegun(b) /\ Refreshed(b) /\ Seen(b)
  BY <1>2, <1>5, <1>6, <1>7, <1>9, NoChildOK DEF BarBegun, Refreshed, Seen
<1>13. QED
  BY <1>1, <1>3, <1>11, <1>12 DEF BarInv

-----------------------------------------------------------------------------
(* What the bar does *)

\* The bar with the events of X before it is as sound as without.
LEMMA NowOK ==
    ASSUME BarInv
    PROVE  /\ BarOK(Now) /\ Complete(Now) /\ Commanded(Now) /\ Same(bar, Now) /\ Now.out = <<>> /\ Now.xs = x.queue
           /\ Now.mapped = bar.mapped /\ Now.watched = bar.watched /\ Now.visible = bar.visible
           /\ Now.status = bar.status /\ Now.wsChild = bar.wsChild
           /\ \A q, covered : Watched(bar, q, covered) => Watched(Now, q, covered)
<1>1. PICK b, q : b = bar /\ q = x.queue
  OBVIOUS
<1>2. Sound(b) /\ q \in Seq(XEvents)
  BY <1>1 DEF BarInv, Streams
<1>3. PICK c : c = [b EXCEPT !.xs = q]
  OBVIOUS
<1>4. /\ DOMAIN c = BarFields /\ c.status = b.status /\ c.wsChild = b.wsChild
      /\ c.config = b.config /\ c.known = b.known /\ c.win = b.win /\ c.mapped = b.mapped
      /\ c.watched = b.watched /\ c.visible = b.visible /\ c.ws = b.ws
      /\ c.out = b.out /\ c.hung = b.hung /\ c.xs = q
  BY <1>2, <1>3 DEF Sound, BarOK, BarFields
<1>5. BarOK(c) /\ Complete(c) /\ Commanded(c) /\ Same(b, c) /\ c.out = <<>>
  BY <1>2, <1>4 DEF Sound, BarOK, Complete, Commanded, Same
<1>6. \A p, covered : Watched(b, p, covered) => Watched(c, p, covered)
  BY <1>4 DEF Watched
<1>7. c = Now
  BY <1>1, <1>3 DEF Now
<1>8. QED
  BY <1>1, <1>4, <1>5, <1>6, <1>7

\* What is left of the bar b when its requests and X events have gone out
LEMMA ActsOK ==
    ASSUME BarInv, NEW b, BarOK(b), Complete(b), Commanded(b), Acts(b)
    PROVE  /\ Sound(bar') /\ toI3' = toI3 \o b.out
           /\ bar'.config = b.config /\ bar'.known = b.known /\ bar'.ws = b.ws
           /\ bar'.status = b.status /\ bar'.wsChild = b.wsChild
           /\ DOMAIN x' = {"covered", "modifier", "queue"} /\ x'.queue = b.xs /\ x'.covered = x.covered
           /\ \A q, covered : Watched(b, q, covered) => Watched(bar', q, covered)
<1>1. bar' = [b EXCEPT !.out = <<>>, !.xs = <<>>] /\ toI3' = toI3 \o b.out /\ x' = [x EXCEPT !.queue = b.xs]
  BY DEF Acts, Becomes
<1>2. PICK c : c = bar'
  OBVIOUS
<1>3. /\ DOMAIN c = BarFields /\ c.status = b.status /\ c.wsChild = b.wsChild
      /\ c.config = b.config /\ c.known = b.known /\ c.win = b.win /\ c.mapped = b.mapped
      /\ c.watched = b.watched /\ c.visible = b.visible /\ c.ws = b.ws
      /\ c.out = <<>> /\ c.hung = b.hung /\ c.xs = <<>>
  BY <1>1, <1>2 DEF BarOK, BarFields
<1>4. Sound(c)
  BY <1>3 DEF Sound, BarOK, Complete, Commanded
<1>5. \A q, covered : Watched(b, q, covered) => Watched(c, q, covered)
  BY <1>3 DEF Watched
<1>6. DOMAIN x' = {"covered", "modifier", "queue"} /\ x'.queue = b.xs /\ x'.covered = x.covered
  BY <1>1 DEF BarInv, Streams
<1>7. QED
  BY <1>1, <1>2, <1>3, <1>4, <1>5, <1>6

\* A step of the bar that is not about a message: it asks for nothing, or runs a command.
LEMMA OwnStepOK ==
    ASSUME BarInv, bar.config # Unknown, NEW b, BarOK(b), Complete(b), Commanded(b), Acts(b),
           b.config = bar.config, b.known = bar.known, UNCHANGED <<i3, toBar>>,
           b.out = <<>> \/ b.out = <<[kind |-> "command"]>>,
           ProvidesWorkspaces(bar.config) => b.ws = bar.ws,
           bar.config.display = "dock" /\ Watched(bar, x.queue, x.covered) => Watched(b, b.xs, x.covered)
    PROVE  BarInv'
<1>1. /\ Sound(bar') /\ toI3' = toI3 \o b.out
      /\ bar'.config = b.config /\ bar'.known = b.known /\ bar'.ws = b.ws
      /\ DOMAIN x' = {"covered", "modifier", "queue"} /\ x'.queue = b.xs /\ x'.covered = x.covered
      /\ \A q, covered : Watched(b, q, covered) => Watched(bar', q, covered)
  BY ActsOK
<1>2. /\ toI3 \in Seq(Requests) /\ toBar \in Seq(Messages) /\ Subscribed(toI3)
      /\ i3' = i3 /\ toBar' = toBar
  BY DEF BarInv, Streams
<1>3. PICK r : r = [kind |-> "command"]
  OBVIOUS
<1>4. r \in Requests /\ r.kind = "command" /\ (b.out = <<>> \/ b.out = <<r>>) /\ b.out \in Seq(Requests)
  <2>1. r \in Requests /\ r.kind = "command"
    BY <1>3 DEF Requests
  <2>2. b.out = <<>> \/ b.out = <<r>>
    BY <1>3
  <2>3. <<r>> \in Seq(Requests) /\ <<>> \in Seq(Requests)
    BY <2>1
  <2>4. QED
    BY <2>1, <2>2, <2>3
<1>5. ASSUME NEW kinds, "command" \notin kinds PROVE Carries(toI3', kinds) <=> Carries(toI3, kinds)
  <2>1. ~Carries(b.out, kinds)
    BY <1>4, <1>5, CarriesNothing, CarriesOnce, Zenon
  <2>2. Carries(toI3 \o b.out, kinds) <=> Carries(toI3, kinds) \/ Carries(b.out, kinds)
    BY <1>2, <1>4, CarriesAppended
  <2>3. QED
    BY <1>1, <2>1, <2>2
<1>6. Subscribed(b.out)
  <2>1. DOMAIN <<r>> = {1} /\ <<r>>[1] = r /\ DOMAIN <<>> = {}
    OBVIOUS
  <2>2. QED
    BY <1>4, <2>1 DEF Subscribed
<1>7. Subscribed(toI3') /\ toI3' \in Seq(Requests)
  BY <1>1, <1>2, <1>4, <1>6, SubscribedAppended
<1>8. x'.queue \in Seq(XEvents)
  BY <1>1 DEF BarOK
<1>9. Streams'
  BY <1>1, <1>2, <1>7, <1>8 DEF Streams, BarInv
<1>10. BarBegun(bar)'
  <2>1. bar'.config # Unknown /\ ~Carries(toI3, {"bar_config"}) /\ ~Carries(toBar, {"bar_config"})
    BY <1>1 DEF BarInv, BarBegun
  <2>2. ~Carries(toI3', {"bar_config"})
    BY <1>5, <2>1
  <2>3. QED
    BY <1>2, <2>1, <2>2 DEF BarBegun
<1>11. Asks(toI3') <=> Asks(toI3)
  BY <1>5 DEF Asks
<1>12. Refreshed(bar)'
  <2>1. Renewed(toI3, toBar, i3.ws) => Renewed(toI3', toBar', i3'.ws)
    BY <1>2, <1>11 DEF Renewed
  <2>2. Fresh(bar, toI3, toBar, i3.ws) => Fresh(bar', toI3', toBar', i3'.ws)
    BY <1>1, <1>2, <1>11 DEF Fresh
  <2>3. QED
    BY <1>2, <2>1, <2>2 DEF Refreshed, BarInv
<1>13. Seen(bar)'
  <2>1. Settled(toI3', toBar') => Settled(toI3, toBar)
    BY <1>2, <1>5 DEF Settled
  <2>2. QED
    BY <1>1, <2>1 DEF Seen, BarInv
<1>14. QED
  BY <1>1, <1>9, <1>10, <1>12, <1>13 DEF BarInv

\* A bar without a configuration has no children, no windows and no events.
LEMMA AliveIsBegun ==
    ASSUME BarInv, bar.config = Unknown
    PROVE  ~bar.status.pid /\ ~bar.wsChild.pid /\ x.queue = <<>> /\ bar.mapped = {}
  BY DEF BarInv, BarBegun, Sound, BarOK, Complete

\* An event of X is handled (xcb_prep_cb).
LEMMA HandleXEventOK == ASSUME BarInv, HandleXEvent PROVE BarInv'
<1>1. x.queue # <<>> /\ UNCHANGED <<i3, toBar>>
  BY DEF HandleXEvent
<1>2. bar.config # Unknown
  BY <1>1, AliveIsBegun
<1>3. PICK event, later : event = Head(x.queue) /\ later = [bar EXCEPT !.xs = Tail(x.queue)]
  OBVIOUS
<1>4. x.queue \in Seq(XEvents) /\ Tail(x.queue) \in Seq(XEvents)
  BY <1>1 DEF BarInv, Streams
<1>5. /\ BarOK(later) /\ Complete(later) /\ Commanded(later) /\ Same(bar, later) /\ later.out = <<>>
      /\ later.xs = Tail(x.queue)
      /\ \A q, covered : Watched(bar, q, covered) => Watched(later, q, covered)
  <2>1. PICK b, q : b = bar /\ q = Tail(x.queue)
    OBVIOUS
  <2>2. Sound(b) /\ q \in Seq(XEvents)
    BY <1>4, <2>1 DEF BarInv
  <2>3. PICK c : c = [b EXCEPT !.xs = q]
    OBVIOUS
  <2>4. /\ DOMAIN c = BarFields /\ c.status = b.status /\ c.wsChild = b.wsChild
        /\ c.config = b.config /\ c.known = b.known /\ c.win = b.win /\ c.mapped = b.mapped
        /\ c.watched = b.watched /\ c.visible = b.visible /\ c.ws = b.ws
        /\ c.out = b.out /\ c.hung = b.hung /\ c.xs = q
    BY <2>2, <2>3 DEF Sound, BarOK, BarFields
  <2>5. BarOK(c) /\ Complete(c) /\ Commanded(c) /\ Same(b, c) /\ c.out = <<>>
    BY <2>2, <2>4 DEF Sound, BarOK, Complete, Commanded, Same
  <2>6. \A p, covered : Watched(b, p, covered) => Watched(c, p, covered)
    BY <2>4 DEF Watched
  <2>7. QED
    BY <1>3, <2>1, <2>3, <2>4, <2>5, <2>6
<1>6. PICK b : b = IF event \in ModifierEvents THEN HandleModifier(later, event = "pressed")
                   ELSE HandleVisibilityNotify(later, event)
  OBVIOUS
<1>7. Acts(b)
  BY <1>3, <1>6 DEF HandleXEvent
<1>8. /\ BarOK(b) /\ Complete(b) /\ Same(later, b)
      /\ later.config.display = "dock" /\ Watched(later, x.queue, x.covered) => Watched(b, b.xs, x.covered)
  <2>1. CASE event \in ModifierEvents
    <3>1. PICK pressed : pressed = (event = "pressed")
      OBVIOUS
    <3>2. /\ BarOK(b) /\ Complete(b) /\ Same(later, b)
          /\ later.config.display = "dock" => SameSight(later, b)
      BY <1>5, <1>6, <2>1, <3>1, HandleModifierOK
    <3>3. ASSUME later.config.display = "dock", Watched(later, x.queue, x.covered) PROVE Watched(b, b.xs, x.covered)
      <4>1. Watched(later, Tail(x.queue), x.covered)
        BY <1>1, <1>3, <1>4, <1>5, <2>1, <3>3, ModifierTellsNothing
      <4>2. SameSight(later, b) /\ b.known = later.known
        BY <3>2, <3>3 DEF Same
      <4>3. QED
        BY <1>5, <4>1, <4>2, WatchedStays DEF SameSight
    <3>4. QED
      BY <3>2, <3>3
  <2>2. CASE event \notin ModifierEvents
    <3>1. b = HandleVisibilityNotify(later, event)
      BY <1>6, <2>2
    <3>2. /\ BarOK(b) /\ Complete(b) /\ Same(later, b) /\ b.xs = later.xs
          /\ \A q \in Seq(XEvents) : q # <<>> /\ event = Head(q) /\ Watched(later, q, x.covered)
                                       => Watched(b, Tail(q), x.covered)
      <4>1. LET c == HandleVisibilityNotify(later, event)
            IN /\ BarOK(c) /\ Complete(c) /\ Same(later, c) /\ c.xs = later.xs
               /\ \A q \in Seq(XEvents) : q # <<>> /\ event = Head(q) /\ Watched(later, q, x.covered)
                                            => Watched(c, Tail(q), x.covered)
        BY <1>5, VisibilityNotifyOK, Zenon
      <4>2. QED
        BY <3>1, <4>1, Zenon
    <3>3. x.queue # <<>> /\ event = Head(x.queue) /\ b.xs = Tail(x.queue)
      BY <1>1, <1>3, <1>5, <3>2
    <3>4. QED
      BY <1>4, <3>2, <3>3
  <2>3. QED
    BY <2>1, <2>2
<1>9. Commanded(b) /\ b.config = bar.config /\ b.known = bar.known /\ b.ws = bar.ws /\ b.out = <<>>
  BY <1>5, <1>8 DEF Commanded, Same
<1>10. bar.config.display = "dock" /\ Watched(bar, x.queue, x.covered) => Watched(b, b.xs, x.covered)
  BY <1>5, <1>8 DEF Same
<1>11. QED
  BY <1>1, <1>2, <1>7, <1>8, <1>9, <1>10, OwnStepOK

\* The same for a step that ends with draw_bars
LEMMA OwnDrawOK ==
    ASSUME BarInv, bar.config # Unknown, NEW b, BarOK(b), Complete(b), Commanded(b), NEW urgent,
           Acts(DrawBars(b, urgent)),
           b.config = bar.config, b.known = bar.known, UNCHANGED <<i3, toBar>>, b.out = <<>>,
           ProvidesWorkspaces(bar.config) => b.ws = bar.ws,
           bar.config.display = "dock" /\ Watched(bar, x.queue, x.covered) => Watched(b, b.xs, x.covered)
    PROVE  BarInv'
<1>1. PICK c : c = DrawBars(b, urgent)
  OBVIOUS
<1>2. /\ BarOK(c) /\ Complete(c) /\ Same(b, c)
      /\ b.config.display = "dock" => SameSight(b, c)
  <2>1. LET d == DrawBars(b, urgent)
        IN /\ BarOK(d) /\ Complete(d) /\ Same(b, d)
           /\ b.config.display = "dock" => SameSight(b, d)
    BY DrawnOK, Zenon
  <2>2. QED
    BY <1>1, <2>1, Zenon
<1>3. Commanded(c) /\ c.config = bar.config /\ c.known = bar.known /\ c.ws = b.ws /\ c.out = <<>>
  BY <1>2 DEF Same, Commanded
<1>4. ASSUME bar.config.display = "dock", Watched(bar, x.queue, x.covered) PROVE Watched(c, c.xs, x.covered)
  <2>1. SameSight(b, c) /\ c.known = b.known /\ Watched(b, b.xs, x.covered)
    BY <1>2, <1>4 DEF Same
  <2>2. Watched(c, b.xs, x.covered)
    BY <2>1, WatchedStays
  <2>3. QED
    BY <2>1, <2>2 DEF SameSight
<1>5. Acts(c)
  BY <1>1
<1>6. QED
  BY <1>2, <1>3, <1>4, <1>5, OwnStepOK

\* A bar with a child has been configured.
LEMMA ChildIsConfigured ==
    ASSUME BarInv
    PROVE  /\ ChildOK(bar.status) /\ ChildOK(bar.wsChild)
           /\ bar.status.pid \/ bar.wsChild.pid \/ bar.status.exited \/ bar.wsChild.exited \/ bar.mapped # {}
                => bar.config # Unknown
           /\ bar.wsChild.pid => ~ProvidesWorkspaces(bar.config)
           /\ bar.status.exited => bar.status.pid
           /\ bar.wsChild.exited => bar.wsChild.pid
<1>1. ChildOK(bar.status) /\ ChildOK(bar.wsChild)
  BY DEF BarInv, Sound, BarOK
<1>2. bar.status.exited => bar.status.pid
  BY <1>1, NoChildOK, Zenon DEF ChildOK
<1>3. bar.wsChild.exited => bar.wsChild.pid
  BY <1>1, NoChildOK, Zenon DEF ChildOK
<1>4. bar.wsChild.pid => ~ProvidesWorkspaces(bar.config)
  BY DEF BarInv, Sound, Commanded, ProvidesWorkspaces
<1>5. QED
  BY <1>1, <1>2, <1>3, <1>4, AliveIsBegun

\* The first line of the status command, and the others
LEMMA StatusFirstLineOK == ASSUME BarInv, NEW json, StatusFirstLine(json) PROVE BarInv'
<1>1. bar.config # Unknown /\ ChildOK(bar.status) /\ bar.status.pid
  BY ChildIsConfigured DEF StatusFirstLine, IsAlive
<1>2. PICK d : d = ParseHeader(bar.status, json)
  OBVIOUS
<1>3. ChildOK(d) /\ (d.stopped <=> bar.status.stopped)
  <2>1. LET e == ParseHeader(bar.status, json)
        IN ChildOK(e) /\ (e.pid <=> bar.status.pid) /\ (e.stopped <=> bar.status.stopped)
    BY <1>1, HeaderOK, Zenon
  <2>2. QED
    BY <1>2, <2>1
<1>4. PICK n : n = Now
  OBVIOUS
<1>5. /\ BarOK(n) /\ Complete(n) /\ Commanded(n) /\ Same(bar, n) /\ n.out = <<>> /\ n.xs = x.queue
      /\ n.status = bar.status /\ n.wsChild = bar.wsChild
      /\ \A q, covered : Watched(bar, q, covered) => Watched(n, q, covered)
  BY <1>4, NowOK, Zenon
<1>6. PICK b : b = [n EXCEPT !.status = d]
  OBVIOUS
<1>7. /\ BarOK(b) /\ Complete(b)
      /\ b.config = n.config /\ b.known = n.known /\ b.win = n.win /\ b.out = n.out /\ b.ws = n.ws
      /\ b.wsChild = n.wsChild /\ b.xs = n.xs
      /\ \A q, covered : Watched(n, q, covered) => Watched(b, q, covered)
  <2>1. d.stopped => n.status.stopped
    BY <1>3, <1>5
  <2>2. LET c == [n EXCEPT !.status = d]
        IN /\ BarOK(c) /\ Complete(c)
           /\ c.config = n.config /\ c.known = n.known /\ c.win = n.win /\ c.out = n.out /\ c.ws = n.ws
           /\ c.wsChild = n.wsChild /\ c.status = d /\ c.xs = n.xs /\ c.mapped = n.mapped
           /\ \A q, covered : Watched(n, q, covered) => Watched(c, q, covered)
    BY <1>3, <1>5, <2>1, StatusBecomes, Zenon
  <2>3. QED
    BY <1>6, <2>2, Zenon
<1>8. b = [Now EXCEPT !.status = ParseHeader(@, json)]
  BY <1>2, <1>4, <1>5, <1>6
<1>9. PICK s : s = IF bar.config.display # "dock" THEN StopChildren(b) ELSE b
  OBVIOUS
<1>10. /\ UNCHANGED <<i3, toBar>>
       /\ Acts(IF ~json THEN b ELSE DrawBars(s, FALSE))
  BY <1>8, <1>9 DEF StatusFirstLine
<1>11. /\ Commanded(b) /\ b.config = bar.config /\ b.known = bar.known /\ b.ws = bar.ws /\ b.out = <<>>
  BY <1>5, <1>7 DEF Same, Commanded
<1>12. bar.config.display = "dock" /\ Watched(bar, x.queue, x.covered) => Watched(b, b.xs, x.covered)
  BY <1>5, <1>7
<1>13. CASE ~json
  BY <1>1, <1>7, <1>10, <1>11, <1>12, <1>13, OwnStepOK
<1>14. CASE json
  <2>1. BarOK(s) /\ Same(b, s)
    BY <1>7, <1>9, StopChildrenOK, SameSightOnce
  <2>2. /\ Complete(s) /\ Commanded(s) /\ s.config = bar.config /\ s.known = bar.known /\ s.ws = bar.ws /\ s.out = <<>>
    BY <1>7, <1>11, <2>1 DEF Same, Complete, Commanded
  <2>3. bar.config.display = "dock" /\ Watched(bar, x.queue, x.covered) => Watched(s, s.xs, x.covered)
    BY <1>9, <1>12
  <2>4. Acts(DrawBars(s, FALSE))
    BY <1>10, <1>14
  <2>5. QED
    BY <1>1, <1>10, <2>1, <2>2, <2>3, <2>4, OwnDrawOK
<1>15. QED
  BY <1>13, <1>14

LEMMA StatusLineOK == ASSUME BarInv, NEW urgent, StatusLine(urgent) PROVE BarInv'
<1>1. bar.config # Unknown
  BY ChildIsConfigured DEF StatusLine, IsAlive
<1>2. PICK n, u : n = Now /\ u = (urgent /\ bar.status.header = "json")
  OBVIOUS
<1>3. /\ BarOK(n) /\ Complete(n) /\ Commanded(n) /\ Same(bar, n) /\ n.out = <<>> /\ n.xs = x.queue
      /\ \A q, covered : Watched(bar, q, covered) => Watched(n, q, covered)
  BY <1>2, NowOK, Zenon
<1>4. UNCHANGED <<i3, toBar>> /\ Acts(DrawBars(n, u))
  BY <1>2 DEF StatusLine
<1>5. n.config = bar.config /\ n.known = bar.known /\ n.ws = bar.ws
  BY <1>3 DEF Same
<1>6. QED
  BY <1>1, <1>3, <1>4, <1>5, OwnDrawOK

\* A line of the workspace command: i3 does not provide the workspaces then.
LEMMA WsLineOK == ASSUME BarInv, WsLine PROVE BarInv'
<1>1. bar.config # Unknown /\ ~ProvidesWorkspaces(bar.config)
  BY ChildIsConfigured DEF WsLine, IsAlive
<1>2. PICK n : n = Now
  OBVIOUS
<1>3. /\ BarOK(n) /\ Complete(n) /\ Commanded(n) /\ Same(bar, n) /\ n.out = <<>> /\ n.xs = x.queue
      /\ \A q, covered : Watched(bar, q, covered) => Watched(n, q, covered)
  BY <1>2, NowOK, Zenon
<1>4. PICK l : l = [n EXCEPT !.wsLast = -1]
  OBVIOUS
<1>5. /\ DOMAIN l = BarFields /\ l.status = n.status /\ l.wsChild = n.wsChild
      /\ l.config = n.config /\ l.known = n.known /\ l.win = n.win /\ l.mapped = n.mapped
      /\ l.watched = n.watched /\ l.visible = n.visible /\ l.ws = n.ws
      /\ l.out = n.out /\ l.hung = n.hung /\ l.xs = n.xs
  BY <1>3, <1>4 DEF BarOK, BarFields
<1>6. BarOK(l) /\ SameSight(n, l)
  BY <1>3, <1>5 DEF BarOK, SameSight
<1>7. PICK b : b = ParseWorkspaces(l, -1, FALSE)
  OBVIOUS
<1>8. /\ BarOK(b) /\ b.config = l.config /\ b.known = l.known /\ b.win = l.win /\ b.out = l.out
      /\ b.wsChild = l.wsChild /\ SameSight(l, b)
  <2>1. LET c == ParseWorkspaces(l, -1, FALSE)
        IN /\ BarOK(c) /\ c.config = l.config /\ c.known = l.known /\ c.win = l.win /\ c.out = l.out
           /\ c.wsChild = l.wsChild /\ c.wsLast = l.wsLast /\ SameSight(l, c)
           /\ c.ws = [at |-> -1, outs |-> l.known]
    BY <1>6, ParseWorkspacesOK, Zenon
  <2>2. QED
    BY <1>7, <2>1, Zenon
<1>9. /\ Complete(b) /\ Commanded(b) /\ b.config = bar.config /\ b.known = bar.known /\ b.out = <<>>
      /\ SameSight(n, b) /\ b.known = n.known
  BY <1>3, <1>5, <1>6, <1>8 DEF Same, SameSight, Complete, Commanded
<1>10. ASSUME Watched(bar, x.queue, x.covered) PROVE Watched(b, b.xs, x.covered)
  <2>1. Watched(n, x.queue, x.covered)
    BY <1>3, <1>10
  <2>2. Watched(b, x.queue, x.covered)
    BY <1>9, <2>1, WatchedStays
  <2>3. QED
    BY <1>3, <1>9, <2>2 DEF SameSight
<1>11. UNCHANGED <<i3, toBar>> /\ Acts(DrawBars(b, FALSE))
  BY <1>2, <1>4, <1>7 DEF WsLine
<1>12. QED
  BY <1>1, <1>8, <1>9, <1>10, <1>11, OwnDrawOK

\* A child has exited (child_sig_cb).
LEMMA ChildSigOK == ASSUME BarInv, NEW which \in {"status", "wsChild"}, ChildSig(which) PROVE BarInv'
<1>1. PICK n : n = Now
  OBVIOUS
<1>2. /\ BarOK(n) /\ Complete(n) /\ Commanded(n) /\ Same(bar, n) /\ n.out = <<>> /\ n.xs = x.queue
      /\ \A q, covered : Watched(bar, q, covered) => Watched(n, q, covered)
  BY <1>1, NowOK, Zenon
<1>3. n.config = bar.config /\ n.known = bar.known /\ n.ws = bar.ws /\ (n.wsChild.pid <=> bar.wsChild.pid)
  BY <1>2 DEF Same
<1>4. UNCHANGED <<i3, toBar>>
  BY DEF ChildSig
<1>5. CASE which = "status"
  <2>1. bar.config # Unknown
    BY <1>5, ChildIsConfigured DEF ChildSig
  <2>2. PICK b : b = [n EXCEPT !.status = NoChild]
    OBVIOUS
  <2>3. /\ BarOK(b) /\ Complete(b)
        /\ b.config = n.config /\ b.known = n.known /\ b.out = n.out /\ b.ws = n.ws
        /\ b.wsChild = n.wsChild /\ b.xs = n.xs
        /\ \A q, covered : Watched(n, q, covered) => Watched(b, q, covered)
    <3>1. LET c == [n EXCEPT !.status = NoChild]
          IN /\ BarOK(c) /\ Complete(c)
             /\ c.config = n.config /\ c.known = n.known /\ c.win = n.win /\ c.out = n.out /\ c.ws = n.ws
             /\ c.wsChild = n.wsChild /\ c.status = NoChild /\ c.xs = n.xs /\ c.mapped = n.mapped
             /\ \A q, covered : Watched(n, q, covered) => Watched(c, q, covered)
      BY <1>2, NoChildOK, StatusBecomes, Zenon
    <3>2. QED
      BY <2>2, <3>1, Zenon
  <2>4. Acts(DrawBars(b, FALSE))
    BY <1>1, <1>5, <2>2 DEF ChildSig, Cleanup
  <2>5. Commanded(b)
    BY <1>2, <2>3 DEF Commanded
  <2>6. QED
    BY <1>2, <1>3, <1>4, <2>1, <2>3, <2>4, <2>5, OwnDrawOK
<1>6. CASE which = "wsChild"
  <2>1. bar.config # Unknown /\ ~ProvidesWorkspaces(bar.config)
    BY <1>6, ChildIsConfigured DEF ChildSig
  <2>2. PICK l : l = [n EXCEPT !.wsChild = NoChild]
    OBVIOUS
  <2>3. /\ BarOK(l) /\ Complete(l) /\ SameSight(n, l) /\ l.win = n.win
        /\ l.config = n.config /\ l.known = n.known /\ l.out = n.out /\ l.wsChild = NoChild
    <3>1. LET c == [n EXCEPT !.wsChild = NoChild]
          IN /\ BarOK(c) /\ Complete(c) /\ SameSight(n, c)
             /\ c.config = n.config /\ c.known = n.known /\ c.win = n.win /\ c.out = n.out /\ c.ws = n.ws
             /\ c.wsChild = NoChild /\ c.status = n.status
      BY <1>2, NoChildOK, WsChildBecomes, Zenon
    <3>2. QED
      BY <2>2, <3>1, Zenon
  <2>4. PICK b : b = FreeWorkspaces(l)
    OBVIOUS
  <2>5. /\ BarOK(b) /\ b.config = l.config /\ b.known = l.known /\ b.win = l.win /\ b.out = l.out
        /\ b.wsChild = l.wsChild /\ SameSight(l, b)
    <3>1. LET c == FreeWorkspaces(l)
          IN /\ BarOK(c) /\ c.config = l.config /\ c.known = l.known /\ c.win = l.win /\ c.out = l.out
             /\ c.wsChild = l.wsChild /\ c.wsLast = l.wsLast /\ SameSight(l, c)
      BY <2>3, FreeWorkspacesOK, Zenon
    <3>2. QED
      BY <2>4, <3>1, Zenon
  <2>6. Acts(DrawBars(b, FALSE))
    BY <1>1, <1>6, <2>2, <2>4 DEF ChildSig, Cleanup
  <2>7. Complete(b) /\ Commanded(b) /\ SameSight(n, b)
    BY <2>3, <2>5, NoChildOK DEF Complete, Commanded, SameSight
  <2>8. ASSUME Watched(bar, x.queue, x.covered) PROVE Watched(b, b.xs, x.covered)
    <3>1. Watched(n, x.queue, x.covered)
      BY <1>2, <2>8
    <3>2. Watched(b, x.queue, x.covered)
      BY <2>3, <2>5, <2>7, <3>1, WatchedStays
    <3>3. QED
      BY <1>2, <2>7, <3>2 DEF SameSight
  <2>9. QED
    BY <1>2, <1>3, <1>4, <2>1, <2>3, <2>5, <2>6, <2>7, <2>8, OwnDrawOK
<1>7. QED
  BY <1>5, <1>6

\* A click on a workspace, and one on a block of the status line
LEMMA HandleButtonOK == ASSUME BarInv, NEW o, HandleButton(o) PROVE BarInv'
<1>1. bar.config # Unknown
  BY ChildIsConfigured DEF HandleButton
<1>2. PICK n, r : n = Now /\ r = [kind |-> "command"]
  OBVIOUS
<1>3. /\ BarOK(n) /\ Complete(n) /\ Commanded(n) /\ Same(bar, n) /\ n.out = <<>> /\ n.xs = x.queue
      /\ \A q, covered : Watched(bar, q, covered) => Watched(n, q, covered)
  BY <1>2, NowOK, Zenon
<1>4. PICK b : b = Send(n, r)
  OBVIOUS
<1>5. /\ BarOK(b) /\ b.config = n.config /\ b.known = n.known /\ b.win = n.win
      /\ b.out = Append(n.out, r) /\ b.ws = n.ws
      /\ b.wsChild = n.wsChild /\ SameSight(n, b)
  <2>1. LET c == Send(n, r)
        IN /\ BarOK(c) /\ c.config = n.config /\ c.known = n.known /\ c.win = n.win
           /\ c.out = Append(n.out, r) /\ c.ws = n.ws
           /\ c.wsChild = n.wsChild /\ c.wsLast = n.wsLast /\ SameSight(n, c)
    BY <1>3, SendOK, Zenon
  <2>2. QED
    BY <1>4, <2>1, Zenon
<1>6. /\ Complete(b) /\ Commanded(b) /\ b.config = bar.config /\ b.known = bar.known /\ b.ws = bar.ws
      /\ b.out = <<[kind |-> "command"]>>
  <2>1. Append(<<>>, r) = <<r>>
    OBVIOUS
  <2>2. QED
    BY <1>2, <1>3, <1>5, <2>1 DEF Complete, Commanded, Same
<1>7. ASSUME Watched(bar, x.queue, x.covered) PROVE Watched(b, b.xs, x.covered)
  <2>1. Watched(n, x.queue, x.covered)
    BY <1>3, <1>7
  <2>2. Watched(b, x.queue, x.covered)
    BY <1>5, <2>1, WatchedStays
  <2>3. QED
    BY <1>3, <1>5, <2>2 DEF SameSight
<1>8. UNCHANGED <<i3, toBar>> /\ Acts(b)
  BY <1>2, <1>4 DEF HandleButton
<1>9. QED
  BY <1>1, <1>5, <1>6, <1>7, <1>8, OwnStepOK

LEMMA SendBlockClickedOK == ASSUME BarInv, NEW o, SendBlockClicked(o) PROVE BarInv'
<1>1. bar.config # Unknown
  BY ChildIsConfigured DEF SendBlockClicked
<1>2. PICK n : n = Now
  OBVIOUS
<1>3. /\ BarOK(n) /\ Complete(n) /\ Commanded(n) /\ Same(bar, n) /\ n.out = <<>> /\ n.xs = x.queue
      /\ n.status = bar.status
      /\ \A q, covered : Watched(bar, q, covered) => Watched(n, q, covered)
  BY <1>2, NowOK, Zenon
<1>4. PICK b : b = [n EXCEPT !.hung = @ \/ Hangs(n.status), !.status = KillAndWait(@)]
  OBVIOUS
<1>5. /\ BarOK(b) /\ Complete(b)
      /\ b.config = n.config /\ b.known = n.known /\ b.win = n.win /\ b.out = n.out /\ b.ws = n.ws
      /\ b.wsChild = n.wsChild /\ b.xs = n.xs
      /\ \A q, covered : Watched(n, q, covered) => Watched(b, q, covered)
  <2>1. LET c == [n EXCEPT !.hung = @ \/ Hangs(n.status), !.status = KillAndWait(@)]
        IN /\ BarOK(c) /\ Complete(c)
           /\ c.config = n.config /\ c.known = n.known /\ c.win = n.win /\ c.out = n.out /\ c.ws = n.ws
           /\ c.wsChild = n.wsChild /\ c.xs = n.xs
           /\ \A q, covered : Watched(n, q, covered) => Watched(c, q, covered)
    BY <1>3, BlockClickedOK, Zenon
  <2>2. QED
    BY <1>4, <2>1, Zenon
<1>6. UNCHANGED <<i3, toBar>> /\ Acts(DrawBars(b, FALSE))
  BY <1>2, <1>3, <1>4 DEF SendBlockClicked
<1>7. Commanded(b) /\ b.config = bar.config /\ b.known = bar.known /\ b.ws = bar.ws /\ b.out = <<>>
  BY <1>3, <1>5 DEF Same, Commanded
<1>8. QED
  BY <1>1, <1>3, <1>5, <1>6, <1>7, OwnDrawOK

-----------------------------------------------------------------------------
(* What the user, the children and other windows do *)

\* A step that changes what can be seen, but no message and no request
LEMMA SightOK ==
    ASSUME BarInv, UNCHANGED <<i3, toI3, toBar>>, bar.config # Unknown, Sound(bar'),
           bar'.config = bar.config, bar'.known = bar.known, bar'.ws = bar.ws,
           DOMAIN x' = {"covered", "modifier", "queue"}, x'.queue \in Seq(XEvents),
           bar.config.display = "dock" /\ Watched(bar, x.queue, x.covered) => Watched(bar', x'.queue, x'.covered)
    PROVE  BarInv'
<1>1. i3' = i3 /\ toI3' = toI3 /\ toBar' = toBar
  OBVIOUS
<1>2. Streams'
  BY <1>1 DEF BarInv, Streams
<1>3. BarBegun(bar)'
  BY <1>1 DEF BarInv, BarBegun
<1>4. Refreshed(bar)'
  BY <1>1 DEF BarInv, Refreshed, Fresh
<1>5. Seen(bar)'
  BY <1>1 DEF BarInv, Seen
<1>6. QED
  BY <1>2, <1>3, <1>4, <1>5 DEF BarInv

\* Events that are still to come leave what is known as it is.
LEMMA WatchedAppended ==
    ASSUME NEW b, NEW S, NEW q \in Seq(S), NEW e \in S, NEW covered, Watched(b, q, covered)
    PROVE  Watched(b, Append(q, e), covered)
<1>1. \A i \in DOMAIN q : i \in DOMAIN Append(q, e) /\ Append(q, e)[i] = q[i]
  OBVIOUS
<1>2. QED
  BY <1>1 DEF Watched, Notified

\* The modifier is pressed or released.
LEMMA ModifierChangesOK == ASSUME BarInv, ModifierChanges PROVE BarInv'
<1>1. PICK e : e = IF x.modifier THEN "released" ELSE "pressed"
  OBVIOUS
<1>2. x' = [x EXCEPT !.modifier = ~@, !.queue = Append(@, e)] /\ UNCHANGED <<i3, toI3, toBar, bar>>
  BY <1>1 DEF ModifierChanges
<1>3. /\ DOMAIN x = {"covered", "modifier", "queue"} /\ x.queue \in Seq(XEvents) /\ e \in XEvents
  BY <1>1 DEF BarInv, Streams, XEvents, ModifierEvents
<1>4. DOMAIN x' = {"covered", "modifier", "queue"} /\ x'.queue = Append(x.queue, e) /\ x'.covered = x.covered
  BY <1>2, <1>3
<1>5. x'.queue \in Seq(XEvents)
  BY <1>3, <1>4
<1>6. Watched(bar, x.queue, x.covered) => Watched(bar', x'.queue, x'.covered)
  BY <1>2, <1>3, <1>4, WatchedAppended
<1>7. Sound(bar') /\ bar' = bar /\ bar.config # Unknown
  BY <1>2 DEF BarInv, ModifierChanges, Configured
<1>8. QED
  BY <1>2, <1>4, <1>5, <1>6, <1>7, SightOK

\* A window covers a bar or uncovers it, which X tells if the bar is watched.
LEMMA CoverChangesOK == ASSUME BarInv, NEW o \in Outputs, CoverChanges(o) PROVE BarInv'
<1>1. PICK covered : covered = IF o \in x.covered THEN x.covered \ {o} ELSE x.covered \cup {o}
  OBVIOUS
<1>2. PICK q : q = IF o \in bar.mapped \cap bar.watched THEN Append(x.queue, o) ELSE x.queue
  OBVIOUS
<1>3. x' = [x EXCEPT !.covered = covered, !.queue = q] /\ UNCHANGED <<i3, toI3, toBar, bar>>
  BY <1>1, <1>2 DEF CoverChanges
<1>4. DOMAIN x = {"covered", "modifier", "queue"} /\ x.queue \in Seq(XEvents) /\ o \in XEvents
  BY DEF BarInv, Streams, XEvents
<1>5. DOMAIN x' = {"covered", "modifier", "queue"} /\ x'.queue = q /\ x'.covered = covered
  BY <1>3, <1>4
<1>6. q \in Seq(XEvents)
  BY <1>2, <1>4
<1>7. ASSUME Watched(bar, x.queue, x.covered) PROVE Watched(bar, q, covered)
  <2>1. Watched(bar, q, x.covered)
    BY <1>2, <1>4, <1>7, WatchedAppended
  <2>2. \A p : p # o => (p \in covered <=> p \in x.covered)
    BY <1>1
  <2>3. o \in bar.mapped => \E i \in DOMAIN q : q[i] = o
    <3>1. ASSUME o \in bar.mapped PROVE q = Append(x.queue, o)
      BY <1>2, <1>7, <3>1 DEF Watched
    <3>2. Len(x.queue) + 1 \in DOMAIN Append(x.queue, o) /\ Append(x.queue, o)[Len(x.queue) + 1] = o
      BY <1>4
    <3>3. QED
      BY <3>1, <3>2
  <2>4. QED
    BY <2>1, <2>2, <2>3 DEF Watched
<1>8. Sound(bar') /\ bar' = bar /\ bar.config # Unknown
  BY <1>3 DEF BarInv, CoverChanges, Configured
<1>9. QED
  BY <1>3, <1>5, <1>6, <1>7, <1>8, SightOK

\* A child exits; i3bar hears of it later.
LEMMA ChildExitsOK == ASSUME BarInv, NEW which \in {"status", "wsChild"}, ChildExits(which) PROVE BarInv'
<1>1. bar.config # Unknown /\ ChildOK(bar.status) /\ ChildOK(bar.wsChild)
  BY ChildIsConfigured DEF ChildExits, IsAlive
<1>2. UNCHANGED <<i3, toI3, toBar, x>>
  BY DEF ChildExits
<1>3. DOMAIN x' = {"covered", "modifier", "queue"} /\ x'.queue \in Seq(XEvents)
  BY <1>2 DEF BarInv, Streams
<1>4. PICK b : b = bar
  OBVIOUS
<1>5. BarOK(b) /\ Complete(b) /\ Commanded(b) /\ b.out = <<>> /\ b.xs = <<>>
  BY <1>4 DEF BarInv, Sound
<1>6. CASE which = "status"
  <2>1. PICK d : d = [b.status EXCEPT !.exited = TRUE]
    OBVIOUS
  <2>2. ChildOK(d) /\ (d.stopped <=> b.status.stopped)
    <3>1. b.status.pid /\ ~b.status.asleep
      BY <1>4, <1>6 DEF ChildExits, IsAlive
    <3>2. LET e == [b.status EXCEPT !.exited = TRUE]
          IN ChildOK(e) /\ (e.pid <=> b.status.pid) /\ (e.stopped <=> b.status.stopped)
      BY <1>1, <1>4, <3>1, ExitOK, Zenon
    <3>3. QED
      BY <2>1, <3>2
  <2>3. PICK c : c = [b EXCEPT !.status = d]
    OBVIOUS
  <2>4. /\ BarOK(c) /\ Complete(c)
        /\ c.config = b.config /\ c.known = b.known /\ c.out = b.out /\ c.ws = b.ws
        /\ c.wsChild = b.wsChild /\ c.xs = b.xs
        /\ \A q, covered : Watched(b, q, covered) => Watched(c, q, covered)
    <3>1. LET e == [b EXCEPT !.status = d]
          IN /\ BarOK(e) /\ Complete(e)
             /\ e.config = b.config /\ e.known = b.known /\ e.win = b.win /\ e.out = b.out /\ e.ws = b.ws
             /\ e.wsChild = b.wsChild /\ e.status = d /\ e.xs = b.xs /\ e.mapped = b.mapped
             /\ \A q, covered : Watched(b, q, covered) => Watched(e, q, covered)
      BY <1>5, <2>2, StatusBecomes, Zenon
    <3>2. QED
      BY <2>3, <3>1, Zenon
  <2>5. bar' = c
    BY <1>4, <1>6, <2>1, <2>3 DEF ChildExits
  <2>6. Sound(c)
    BY <1>5, <2>4 DEF Sound, Commanded
  <2>7. QED
    BY <1>1, <1>2, <1>3, <1>4, <2>4, <2>5, <2>6, SightOK
<1>7. CASE which = "wsChild"
  <2>1. PICK d : d = [b.wsChild EXCEPT !.exited = TRUE]
    OBVIOUS
  <2>2. ChildOK(d) /\ (d.pid <=> b.wsChild.pid)
    <3>1. b.wsChild.pid /\ ~b.wsChild.asleep
      BY <1>4, <1>7 DEF ChildExits, IsAlive
    <3>2. LET e == [b.wsChild EXCEPT !.exited = TRUE]
          IN ChildOK(e) /\ (e.pid <=> b.wsChild.pid) /\ (e.stopped <=> b.wsChild.stopped)
      BY <1>1, <1>4, <3>1, ExitOK, Zenon
    <3>3. QED
      BY <2>1, <3>2
  <2>3. PICK c : c = [b EXCEPT !.wsChild = d]
    OBVIOUS
  <2>4. /\ BarOK(c) /\ Complete(c) /\ SameSight(b, c)
        /\ c.config = b.config /\ c.known = b.known /\ c.out = b.out /\ c.ws = b.ws
        /\ c.wsChild = d
    <3>1. LET e == [b EXCEPT !.wsChild = d]
          IN /\ BarOK(e) /\ Complete(e) /\ SameSight(b, e)
             /\ e.config = b.config /\ e.known = b.known /\ e.win = b.win /\ e.out = b.out /\ e.ws = b.ws
             /\ e.wsChild = d /\ e.status = b.status
      BY <1>5, <2>2, WsChildBecomes, Zenon
    <3>2. QED
      BY <2>3, <3>1, Zenon
  <2>5. bar' = c
    BY <1>4, <1>7, <2>1, <2>3 DEF ChildExits
  <2>6. Sound(c)
    BY <1>5, <2>2, <2>4 DEF Sound, Commanded, SameSight
  <2>7. Watched(b, x.queue, x.covered) => Watched(c, x.queue, x.covered)
    BY <2>4, WatchedStays
  <2>8. QED
    BY <1>1, <1>2, <1>3, <1>4, <2>4, <2>5, <2>6, <2>7, SightOK
<1>8. QED
  BY <1>6, <1>7

-----------------------------------------------------------------------------
(* Messages *)

\* A message has been handled by a configured bar.
LEMMA GotOK ==
    ASSUME BarInv, bar.config # Unknown, toBar # <<>>,
           NEW c, BarOK(c), Complete(c), Commanded(c), Acts(c), c.config # Unknown,
           toBar' = Tail(toBar), i3' = i3,
           c.out = <<>> \/ (\E r \in Requests : c.out = <<r>> /\ r.kind \in {"outputs", "workspaces"}),
           c.out = <<>> /\ Renewed(toI3, toBar, i3.ws) /\ Fresh(bar, toI3, toBar, i3.ws)
               => Fresh(c, toI3, Tail(toBar), i3.ws),
           c.config.display = "dock" /\ Settled(toI3 \o c.out, Tail(toBar)) => Watched(c, c.xs, x.covered)
    PROVE  BarInv'
<1>1. /\ Sound(bar') /\ toI3' = toI3 \o c.out
      /\ bar'.config = c.config /\ bar'.known = c.known /\ bar'.ws = c.ws
      /\ DOMAIN x' = {"covered", "modifier", "queue"} /\ x'.queue = c.xs /\ x'.covered = x.covered
      /\ \A q, covered : Watched(c, q, covered) => Watched(bar', q, covered)
  BY ActsOK
<1>2. /\ toI3 \in Seq(Requests) /\ toBar \in Seq(Messages) /\ Subscribed(toI3)
      /\ Tail(toBar) \in Seq(Messages)
  BY DEF BarInv, Streams
<1>3. c.out \in Seq(Requests) /\ Subscribed(c.out) /\ ~Carries(c.out, {"bar_config"}) /\ (c.out # <<>> => Asks(c.out))
  <2>1. CASE c.out = <<>>
    BY <2>1 DEF Subscribed, Carries
  <2>2. ASSUME NEW r \in Requests, c.out = <<r>>, r.kind \in {"outputs", "workspaces"}
        PROVE  c.out \in Seq(Requests) /\ Subscribed(c.out) /\ ~Carries(c.out, {"bar_config"}) /\ Asks(c.out)
    <3>1. DOMAIN <<r>> = {1} /\ <<r>>[1] = r /\ <<r>> \in Seq(Requests)
      BY <2>2
    <3>2. QED
      BY <2>2, <3>1 DEF Subscribed, Carries, Asks
  <2>3. QED
    BY <2>1, <2>2
<1>4. \A kinds : Carries(toI3', kinds) <=> Carries(toI3, kinds) \/ Carries(c.out, kinds)
  BY <1>1, <1>2, <1>3, CarriesAppended
<1>5. toI3' \in Seq(Requests) /\ Subscribed(toI3')
  BY <1>1, <1>2, <1>3, SubscribedAppended
<1>6. x'.queue \in Seq(XEvents)
  BY <1>1 DEF BarOK
<1>7. Streams'
  BY <1>1, <1>2, <1>5, <1>6 DEF BarInv, Streams
<1>8. BarBegun(bar)'
  <2>1. ~Carries(toI3, {"bar_config"}) /\ ~Carries(toBar, {"bar_config"})
    BY DEF BarInv, BarBegun
  <2>2. ~Carries(Tail(toBar), {"bar_config"})
    BY <1>2, <2>1, CarriesFirst
  <2>3. QED
    BY <1>1, <1>3, <1>4, <2>1, <2>2 DEF BarBegun
<1>9. Refreshed(bar)'
  <2>1. SUFFICES ASSUME "workspace" \in i3.events
                 PROVE  Renewed(toI3', toBar', i3.ws) /\ Fresh(bar', toI3', toBar', i3.ws)
    BY DEF Refreshed
  <2>2. Renewed(toI3, toBar, i3.ws) /\ Fresh(bar, toI3, toBar, i3.ws)
    BY <2>1 DEF BarInv, Refreshed
  <2>3. Renewed(toI3, Tail(toBar), i3.ws)
    BY <1>2, <2>2, RenewedFirst
  <2>4. Asks(toI3') <=> Asks(toI3) \/ Asks(c.out)
    BY <1>4 DEF Asks
  <2>5. Renewed(toI3', toBar', i3.ws)
    BY <2>3, <2>4 DEF Renewed
  <2>6. CASE c.out = <<>>
    <3>1. Fresh(c, toI3, Tail(toBar), i3.ws)
      BY <2>2, <2>6
    <3>2. Fresh(bar', toI3', toBar', i3.ws)
      BY <1>1, <2>4, <3>1 DEF Fresh
    <3>3. QED
      BY <2>5, <3>2
  <2>7. CASE c.out # <<>>
    BY <1>3, <2>4, <2>5, <2>7 DEF Fresh
  <2>8. QED
    BY <2>6, <2>7
<1>10. Seen(bar)'
  BY <1>1 DEF Seen
<1>11. QED
  BY <1>1, <1>7, <1>8, <1>9, <1>10 DEF BarInv

\* The first message of a bar without a configuration brings it.
LEMMA FirstConfigOK == ASSUME BarInv, bar.config = Unknown, GotData PROVE BarInv'
<1>1. PICK m : m = Head(toBar)
  OBVIOUS
<1>2. /\ toBar # <<>> /\ toBar \in Seq(Messages) /\ m \in Messages /\ m.kind = "bar_config"
      /\ toI3 = <<>> /\ i3.events = {} /\ Tail(toBar) = <<>> /\ ~bar.status.pid /\ ~bar.wsChild.pid
  <2>1. toBar # <<>> /\ toBar \in Seq(Messages)
    BY DEF BarInv, Streams, GotData
  <2>2. /\ toI3 = <<>> /\ i3.events = {} /\ ~bar.status.pid /\ ~bar.wsChild.pid
        /\ \E n : toBar = <<n>> /\ n.kind = "bar_config"
    BY <2>1 DEF BarInv, BarBegun
  <2>3. PICK n : toBar = <<n>> /\ n.kind = "bar_config"
    BY <2>2
  <2>4. Head(<<n>>) = n /\ Tail(<<n>>) = <<>>
    OBVIOUS
  <2>5. QED
    BY <1>1, <2>1, <2>2, <2>3, <2>4
<1>3. m.config \in Configs
  BY <1>2 DEF Messages
<1>4. PICK n : n = Now
  OBVIOUS
<1>5. /\ BarOK(n) /\ Complete(n) /\ n.out = <<>> /\ ~n.status.pid /\ ~n.wsChild.pid
  <2>1. BarOK(n) /\ Complete(n) /\ n.out = <<>> /\ n.status = bar.status /\ n.wsChild = bar.wsChild
    BY <1>4, NowOK, Zenon
  <2>2. QED
    BY <1>2, <2>1
<1>6. PICK c : c = GotBarConfig(n, m)
  OBVIOUS
<1>7. /\ BarOK(c) /\ Complete(c) /\ Commanded(c) /\ c.config = m.config
      /\ \E events \in EventSets :
           /\ c.out = FirstAsks(m.config, events)
           /\ "workspace" \in events => ProvidesWorkspaces(m.config)
  <2>1. LET d == GotBarConfig(n, m)
        IN /\ BarOK(d) /\ Complete(d) /\ Commanded(d) /\ d.config = m.config
           /\ \E events \in EventSets :
                /\ d.out = FirstAsks(m.config, events)
                /\ "workspace" \in events => ProvidesWorkspaces(m.config)
    BY <1>3, <1>5, BarConfigOK, Zenon
  <2>2. QED
    BY <1>6, <2>1, Zenon
<1>8. PICK events \in EventSets : c.out = FirstAsks(m.config, events) /\ ("workspace" \in events => ProvidesWorkspaces(m.config))
  BY <1>7
<1>9. /\ c.out \in Seq(Requests) /\ Subscribed(c.out) /\ ~Carries(c.out, {"bar_config"})
      /\ Carries(c.out, {"outputs"})
  <2>1. LET r == FirstAsks(m.config, events)
        IN /\ r \in Seq(Requests) /\ Subscribed(r) /\ ~Carries(r, {"bar_config"})
           /\ Carries(r, {"outputs"}) /\ Asks(r)
    BY <1>8, FirstAsksOK, Zenon
  <2>2. QED
    BY <1>8, <2>1, Zenon
<1>10. Acts(c) /\ toBar' = <<>> /\ i3' = i3
  <2>1. Got(n, m) = c
    BY <1>2, <1>6 DEF Got
  <2>2. QED
    BY <1>1, <1>2, <1>4, <2>1 DEF GotData
<1>11. /\ Sound(bar') /\ toI3' = toI3 \o c.out
       /\ bar'.config = c.config
       /\ DOMAIN x' = {"covered", "modifier", "queue"} /\ x'.queue = c.xs
  BY <1>7, <1>10, ActsOK
<1>12. toI3' = c.out
  BY <1>2, <1>9, <1>11
<1>13. x'.queue \in Seq(XEvents)
  BY <1>7, <1>11 DEF BarOK
<1>14. Streams'
  BY <1>9, <1>10, <1>11, <1>12, <1>13 DEF BarInv, Streams
<1>15. BarBegun(bar)'
  BY <1>3, <1>7, <1>9, <1>10, <1>11, <1>12, CarriesNothing, BarAssumption DEF BarBegun
<1>16. Refreshed(bar)'
  BY <1>2, <1>10 DEF Refreshed
<1>17. Seen(bar)'
  BY <1>9, <1>12 DEF Seen, Settled
<1>18. QED
  BY <1>11, <1>14, <1>15, <1>16, <1>17 DEF BarInv

\* A message that tells nothing of the outputs leaves what is watched.
LEMMA SettledFirst ==
    ASSUME NEW r, NEW q \in Seq(Messages), q # <<>>, Settled(r, Tail(q)),
           Head(q).kind \notin {"outputs", "output", "barconfig_update"}
    PROVE  Settled(r, q)
  BY CarriesFirst DEF Settled

\* One more request
LEMMA OneMore ==
    ASSUME NEW b, b.out = <<>>, NEW r \in Requests, NEW out, out = Append(b.out, r)
    PROVE  out = <<r>>
<1>1. Append(<<>>, r) = <<r>>
  OBVIOUS
<1>2. QED
  BY <1>1

\* Asking for the outputs ends what was settled.
LEMMA OutputsUnsettle ==
    ASSUME NEW p \in Seq(Requests), NEW r \in Requests, r.kind = "outputs", NEW q
    PROVE  ~Settled(p \o <<r>>, q)
<1>1. <<r>> \in Seq(Requests)
  OBVIOUS
<1>2. QED
  BY <1>1, CarriesAppended, CarriesOnce DEF Settled

\* Any message is handled.
LEMMA GotDataOK == ASSUME BarInv, GotData PROVE BarInv'
<1>1. SUFFICES ASSUME bar.config # Unknown PROVE BarInv'
  BY FirstConfigOK
<1>2. PICK m : m = Head(toBar)
  OBVIOUS
<1>3. /\ toBar # <<>> /\ toBar \in Seq(Messages) /\ m \in Messages /\ m.kind # "bar_config"
      /\ toI3 \in Seq(Requests) /\ toBar' = Tail(toBar) /\ i3' = i3
  <2>1. toBar # <<>> /\ toBar \in Seq(Messages) /\ toI3 \in Seq(Requests)
    BY DEF BarInv, Streams, GotData
  <2>2. m \in Messages
    BY <1>2, <2>1
  <2>3. ~Carries(toBar, {"bar_config"})
    BY <1>1 DEF BarInv, BarBegun
  <2>4. m.kind # "bar_config"
    BY <1>2, <2>1, <2>3, CarriesFirst
  <2>5. QED
    BY <2>1, <2>2, <2>4 DEF GotData
<1>4. PICK n : n = Now
  OBVIOUS
<1>5. /\ BarOK(n) /\ Complete(n) /\ Commanded(n) /\ Same(bar, n) /\ n.out = <<>> /\ n.xs = x.queue
      /\ \A q, covered : Watched(bar, q, covered) => Watched(n, q, covered)
  BY <1>4, NowOK, Zenon
<1>6. n.config = bar.config /\ n.known = bar.known /\ n.ws = bar.ws
  BY <1>5 DEF Same
<1>7. PICK c : c = Got(n, m)
  OBVIOUS
<1>8. Acts(c)
  BY <1>2, <1>4, <1>7 DEF GotData
<1>9. ASSUME BarOK(c), Complete(c), Commanded(c), c.config # Unknown, NEW r \in Requests, c.out = <<r>>,
             r.kind = "outputs"
      PROVE  BarInv'
  <2>1. <<r>> # <<>> /\ c.out # <<>>
    BY <1>9
  <2>2. ~Settled(toI3 \o c.out, Tail(toBar))
    BY <1>3, <1>9, OutputsUnsettle
  <2>3. \E s \in Requests : c.out = <<s>> /\ s.kind \in {"outputs", "workspaces"}
    BY <1>9
  <2>4. QED
    BY <1>1, <1>3, <1>8, <1>9, <2>1, <2>2, <2>3, GotOK
\* A bar that is in sight as before
<1>10. ASSUME SameSight(n, c), c.known = n.known, c.config = n.config, c.config.display = "dock", NEW r,
              Carries(toI3, {"outputs"}) => Carries(r, {"outputs"}),
              Settled(r, Tail(toBar)), m.kind \notin {"outputs", "output", "barconfig_update"}
       PROVE  Watched(c, c.xs, x.covered)
  <2>1. Settled(r, toBar)
    BY <1>2, <1>3, <1>10, SettledFirst
  <2>2. Settled(toI3, toBar)
    BY <1>10, <2>1 DEF Settled
  <2>3. Watched(bar, x.queue, x.covered)
    BY <1>1, <1>6, <1>10, <2>2 DEF BarInv, Seen
  <2>4. Watched(n, x.queue, x.covered)
    BY <1>5, <2>3
  <2>5. Watched(c, x.queue, x.covered)
    BY <1>10, <2>4, WatchedStays
  <2>6. QED
    BY <1>5, <1>10, <2>5 DEF SameSight
<1>11. CASE m.kind = "outputs"
  <2>1. m.outputs \subseteq Outputs
    BY <1>3, <1>11 DEF Messages
  <2>2. c = GotOutputReply(n, m)
    BY <1>7, <1>11 DEF Got
  <2>3. /\ BarOK(c) /\ Complete(c) /\ c.config = n.config /\ (c.wsChild.pid <=> n.wsChild.pid)
        /\ c.out = IF ProvidesWorkspaces(n.config) THEN Append(n.out, [kind |-> "workspaces"]) ELSE n.out
        /\ n.config.display = "dock" => \A covered : Watched(c, c.xs, covered)
    <3>1. LET d == GotOutputReply(n, m)
          IN /\ BarOK(d) /\ Complete(d) /\ d.config = n.config /\ (d.wsChild.pid <=> n.wsChild.pid)
             /\ d.out = IF ProvidesWorkspaces(n.config) THEN Append(n.out, [kind |-> "workspaces"]) ELSE n.out
             /\ n.config.display = "dock" => \A covered : Watched(d, d.xs, covered)
      BY <1>5, <2>1, OutputReplyOK, Zenon
    <3>2. QED
      BY <2>2, <3>1, Zenon
  <2>4. Commanded(c)
    BY <1>5, <2>3 DEF Commanded
  <2>5. PICK r : r = [kind |-> "workspaces"]
    OBVIOUS
  <2>6. r \in Requests /\ r.kind = "workspaces"
    BY <2>5 DEF Requests
  <2>7. (c.out = <<>> /\ ~ProvidesWorkspaces(c.config)) \/ c.out = <<r>>
    BY <1>5, <2>3, <2>5, <2>6, OneMore
  <2>8. c.out = <<>> => Fresh(c, toI3, Tail(toBar), i3.ws)
    BY <2>7 DEF Fresh
  <2>9. QED
    BY <1>1, <1>3, <1>6, <1>8, <2>3, <2>4, <2>6, <2>7, <2>8, GotOK
<1>12. CASE m.kind = "workspaces"
  <2>1. c = DrawBars(ParseWorkspaces(n, m.ws, m.urgent), FALSE)
    BY <1>7, <1>12 DEF Got, GotWorkspaceReply
  <2>2. /\ BarOK(c) /\ Complete(c)
        /\ c.config = n.config /\ c.known = n.known /\ c.out = n.out
        /\ c.ws = [at |-> m.ws, outs |-> n.known] /\ (c.wsChild.pid <=> n.wsChild.pid)
        /\ n.config.display = "dock" => SameSight(n, c)
    <3>1. LET d == DrawBars(ParseWorkspaces(n, m.ws, m.urgent), FALSE)
          IN /\ BarOK(d) /\ Complete(d)
             /\ d.config = n.config /\ d.known = n.known /\ d.out = n.out
             /\ d.ws = [at |-> m.ws, outs |-> n.known] /\ (d.wsChild.pid <=> n.wsChild.pid)
             /\ n.config.display = "dock" => SameSight(n, d)
      BY <1>5, WorkspaceReplyOK, Zenon
    <3>2. QED
      BY <2>1, <3>1, Zenon
  <2>3. Commanded(c) /\ c.out = <<>>
    BY <1>5, <2>2 DEF Commanded
  <2>4. ASSUME Renewed(toI3, toBar, i3.ws) PROVE Fresh(c, toI3, Tail(toBar), i3.ws)
    <3>1. CASE m.ws = i3.ws
      BY <2>2, <3>1 DEF Fresh
    <3>2. CASE m.ws # i3.ws
      <4>1. Stale(Head(toBar), i3.ws)
        BY <1>2, <1>12, <3>2 DEF Stale
      <4>2. Asks(toI3) \/ After(Tail(toBar), 0, i3.ws)
        BY <1>3, <2>4, <4>1, RenewedFirst
      <4>3. QED
        BY <4>2 DEF Fresh
    <3>3. QED
      BY <3>1, <3>2
  <2>5. toI3 \o c.out = toI3
    BY <1>3, <2>3
  <2>6. c.config.display = "dock" /\ Settled(toI3 \o c.out, Tail(toBar)) => Watched(c, c.xs, x.covered)
    BY <1>10, <1>12, <2>2, <2>5
  <2>7. QED
    BY <1>1, <1>3, <1>6, <1>8, <2>2, <2>3, <2>4, <2>6, GotOK
<1>13. CASE m.kind = "workspace"
  <2>1. PICK r : r = [kind |-> "workspaces"]
    OBVIOUS
  <2>2. r \in Requests /\ r.kind = "workspaces"
    BY <2>1 DEF Requests
  <2>3. c = Send(n, r)
    BY <1>7, <1>13, <2>1 DEF Got, GotWorkspaceEvent
  <2>4. /\ BarOK(c) /\ c.config = n.config /\ c.known = n.known /\ c.win = n.win
        /\ c.out = Append(n.out, r) /\ c.wsChild = n.wsChild /\ SameSight(n, c)
    <3>1. LET d == Send(n, r)
          IN /\ BarOK(d) /\ d.config = n.config /\ d.known = n.known /\ d.win = n.win
             /\ d.out = Append(n.out, r) /\ d.ws = n.ws
             /\ d.wsChild = n.wsChild /\ d.wsLast = n.wsLast /\ SameSight(n, d)
      BY <1>5, SendOK, Zenon
    <3>2. QED
      BY <2>3, <3>1, Zenon
  <2>5. Complete(c) /\ Commanded(c) /\ c.out = <<r>>
    BY <1>5, <2>2, <2>4, OneMore DEF Complete, Commanded
  <2>6. Carries(toI3 \o c.out, {"outputs"}) <=> Carries(toI3, {"outputs"})
    <3>1. <<r>> \in Seq(Requests)
      BY <2>2
    <3>2. ~Carries(<<r>>, {"outputs"})
      BY <2>2, CarriesOnce
    <3>3. QED
      BY <1>3, <2>5, <3>1, <3>2, CarriesAppended
  <2>7. c.config.display = "dock" /\ Settled(toI3 \o c.out, Tail(toBar)) => Watched(c, c.xs, x.covered)
    BY <1>10, <1>13, <2>4, <2>6
  <2>8. QED
    <3>1. <<r>> # <<>> /\ c.out # <<>>
      BY <2>5
    <3>2. \E s \in Requests : c.out = <<s>> /\ s.kind \in {"outputs", "workspaces"}
      BY <2>2, <2>5
    <3>3. c.config # Unknown
      BY <1>1, <1>6, <2>4
    <3>4. QED
      BY <1>1, <1>3, <1>8, <2>4, <2>5, <2>7, <3>1, <3>2, <3>3, GotOK
<1>14. CASE m.kind = "output"
  <2>1. PICK r : r = [kind |-> "outputs"]
    OBVIOUS
  <2>2. r \in Requests /\ r.kind = "outputs"
    BY <2>1 DEF Requests
  <2>3. c = Send(n, r)
    BY <1>7, <1>14, <2>1 DEF Got, GotOutputEvent
  <2>4. /\ BarOK(c) /\ c.config = n.config /\ c.known = n.known /\ c.win = n.win
        /\ c.out = Append(n.out, r) /\ c.wsChild = n.wsChild
    <3>1. LET d == Send(n, r)
          IN /\ BarOK(d) /\ d.config = n.config /\ d.known = n.known /\ d.win = n.win
             /\ d.out = Append(n.out, r) /\ d.ws = n.ws
             /\ d.wsChild = n.wsChild /\ d.wsLast = n.wsLast /\ SameSight(n, d)
      BY <1>5, SendOK, Zenon
    <3>2. QED
      BY <2>3, <3>1, Zenon
  <2>5. Complete(c) /\ Commanded(c) /\ c.out = <<r>>
    BY <1>5, <2>2, <2>4, OneMore DEF Complete, Commanded
  <2>6. QED
    BY <1>1, <1>6, <1>9, <2>2, <2>4, <2>5
<1>15. CASE m.kind = "barconfig_update"
  <2>1. m.config \in Configs
    BY <1>3, <1>15 DEF Messages
  <2>2. PICK r : r = [kind |-> "outputs"]
    OBVIOUS
  <2>3. r \in Requests /\ r.kind = "outputs"
    BY <2>2 DEF Requests
  <2>4. c = GotBarConfigUpdate(n, m)
    BY <1>7, <1>15 DEF Got
  <2>5. /\ BarOK(c) /\ Complete(c) /\ Commanded(c)
        /\ c.config = m.config /\ c.out = Append(n.out, r)
    <3>1. LET d == GotBarConfigUpdate(n, m)
          IN /\ BarOK(d) /\ Complete(d) /\ Commanded(d)
             /\ d.config = m.config /\ d.out = Append(n.out, [kind |-> "outputs"])
      BY <1>5, <2>1, BarConfigUpdateOK, Zenon
    <3>2. QED
      BY <2>2, <2>4, <3>1, Zenon
  <2>6. c.out = <<r>>
    BY <1>5, <2>3, <2>5, OneMore
  <2>7. c.config # Unknown
    BY <2>1, <2>5, BarAssumption
  <2>8. QED
    BY <1>9, <2>3, <2>5, <2>6, <2>7
<1>16. CASE m.kind \in {"mode", "success"}
  <2>1. /\ BarOK(c) /\ Complete(c) /\ Same(n, c)
        /\ n.config.display = "dock" => SameSight(n, c)
    <3>1. CASE m.kind = "mode"
      <4>1. c = GotModeEvent(n, m)
        BY <1>7, <3>1 DEF Got
      <4>2. LET d == GotModeEvent(n, m)
            IN /\ BarOK(d) /\ Complete(d) /\ Same(n, d)
               /\ n.config.display = "dock" => SameSight(n, d)
        BY <1>5, ModeEventOK, Zenon
      <4>3. QED
        BY <4>1, <4>2, Zenon
    <3>2. CASE m.kind = "success"
      <4>1. c = n
        BY <1>7, <3>2 DEF Got
      <4>2. QED
        BY <1>5, <4>1, SameSightOnce
    <3>3. QED
      BY <1>16, <3>1, <3>2
  <2>2. /\ Commanded(c) /\ c.out = <<>> /\ c.config = bar.config /\ c.known = bar.known /\ c.ws = bar.ws
    BY <1>5, <1>6, <2>1 DEF Commanded, Same
  <2>3. ASSUME Fresh(bar, toI3, toBar, i3.ws) PROVE Fresh(c, toI3, Tail(toBar), i3.ws)
    <3>1. ~Refreshes(Head(toBar), i3.ws)
      BY <1>2, <1>16 DEF Refreshes
    <3>2. After(toBar, 0, i3.ws) => After(Tail(toBar), 0, i3.ws)
      BY <1>3, <3>1, RenewedFirst
    <3>3. QED
      BY <2>2, <2>3, <3>2 DEF Fresh
  <2>4. toI3 \o c.out = toI3
    BY <1>3, <2>2
  <2>5. c.config.display = "dock" /\ Settled(toI3 \o c.out, Tail(toBar)) => Watched(c, c.xs, x.covered)
    BY <1>6, <1>10, <1>16, <2>1, <2>2, <2>4
  <2>6. QED
    BY <1>1, <1>3, <1>8, <2>1, <2>2, <2>3, <2>5, GotOK
<1>17. m.kind \in {"outputs", "workspaces", "workspace", "output", "barconfig_update", "mode", "success"}
  BY <1>3 DEF Messages
<1>18. QED
  BY <1>11, <1>12, <1>13, <1>14, <1>15, <1>16, <1>17

-----------------------------------------------------------------------------
(* What i3 does *)

I3Fields == {"outputs", "ws", "urgent", "mode", "config", "events"}

\* A bar without a configuration hears nothing of what changes in i3.
LEMMA UntoldOK ==
    ASSUME BarInv, bar.config = Unknown, UNCHANGED <<toI3, toBar, bar, x>>, i3'.events = i3.events,
           DOMAIN i3' = I3Fields, i3'.ws \in Nat, i3'.config \in Configs, i3'.outputs \subseteq Outputs,
           i3'.urgent \in BOOLEAN, i3'.mode \in BOOLEAN
    PROVE  BarInv'
<1>1. toI3' = toI3 /\ toBar' = toBar /\ bar' = bar /\ x' = x
  OBVIOUS
<1>2. Streams'
  BY <1>1 DEF BarInv, Streams, I3Fields
<1>3. BarBegun(bar)' /\ Seen(bar)'
  BY <1>1 DEF BarInv, BarBegun, Seen
<1>4. i3.events = {}
  BY DEF BarInv, BarBegun
<1>5. Refreshed(bar)'
  BY <1>4 DEF Refreshed
<1>6. QED
  BY <1>1, <1>2, <1>3, <1>5 DEF BarInv

\* i3 tells a configured bar of q and may have taken a request.
LEMMA ToldOK ==
    ASSUME BarInv, bar.config # Unknown, UNCHANGED <<bar, x>>,
           DOMAIN i3' = I3Fields, i3'.ws \in Nat, i3'.config \in Configs, i3'.outputs \subseteq Outputs,
           i3'.urgent \in BOOLEAN, i3'.mode \in BOOLEAN,
           toI3' \in Seq(Requests), Subscribed(toI3'), ~Carries(toI3', {"bar_config"}),
           NEW q \in Seq(Messages), toBar' = toBar \o q, ~Carries(q, {"bar_config"}),
           \A i \in DOMAIN q : ~Stale(q[i], i3'.ws),
           "workspace" \in i3'.events =>
               \/ After(q, 0, i3'.ws)
               \/ Asks(toI3')
               \/ "workspace" \in i3.events /\ i3'.ws = i3.ws /\ (Asks(toI3) => Asks(toI3')),
           Settled(toI3', toBar') => Settled(toI3, toBar)
    PROVE  BarInv'
<1>1. bar' = bar /\ x' = x /\ toBar \in Seq(Messages)
  BY DEF BarInv, Streams
<1>2. toBar' \in Seq(Messages)
  BY <1>1
<1>3. Streams'
  BY <1>1, <1>2 DEF BarInv, Streams, I3Fields
<1>4. BarBegun(bar)'
  <2>1. ~Carries(toBar, {"bar_config"})
    BY DEF BarInv, BarBegun
  <2>2. ~Carries(toBar', {"bar_config"})
    BY <1>1, <2>1, CarriesAppended
  <2>3. QED
    BY <1>1, <2>2 DEF BarBegun
<1>5. Refreshed(bar)'
  <2>1. SUFFICES ASSUME "workspace" \in i3'.events
                 PROVE  Renewed(toI3', toBar', i3'.ws) /\ Fresh(bar, toI3', toBar', i3'.ws)
    BY <1>1 DEF Refreshed
  <2>2. CASE After(q, 0, i3'.ws)
    <3>1. Renewed(toI3', toBar', i3'.ws) /\ After(toBar', 0, i3'.ws)
      BY <1>1, <2>2, RefresherAppended
    <3>2. QED
      BY <3>1 DEF Fresh
  <2>3. CASE Asks(toI3')
    BY <2>3 DEF Renewed, Fresh
  <2>4. CASE "workspace" \in i3.events /\ i3'.ws = i3.ws /\ (Asks(toI3) => Asks(toI3'))
    <3>1. Renewed(toI3, toBar, i3.ws) /\ Fresh(bar, toI3, toBar, i3.ws)
      BY <2>4 DEF BarInv, Refreshed
    <3>2. /\ Renewed(toI3, toBar, i3.ws) => Renewed(toI3', toBar', i3.ws)
          /\ \A i \in Nat : After(toBar, i, i3.ws) => After(toBar', i, i3.ws)
      <4>1. PICK at : at = i3.ws
        OBVIOUS
      <4>2. \A i \in DOMAIN q : ~Stale(q[i], at)
        BY <2>4, <4>1
      <4>3. /\ Renewed(toI3, toBar, at) => Renewed(toI3', toBar \o q, at)
            /\ \A i \in Nat : After(toBar, i, at) => After(toBar \o q, i, at)
        BY <1>1, <2>4, <4>2, OthersAppended
      <4>4. QED
        BY <4>1, <4>3
    <3>3. After(toBar, 0, i3.ws) => After(toBar', 0, i3.ws)
      BY <3>2
    <3>4. QED
      BY <2>4, <3>1, <3>2, <3>3 DEF Fresh
  <2>5. QED
    BY <2>1, <2>2, <2>3, <2>4
<1>6. Seen(bar)'
  BY <1>1 DEF BarInv, Seen
<1>7. QED
  BY <1>1, <1>3, <1>4, <1>5, <1>6 DEF BarInv

\* What is told more does not settle anything.
LEMMA UnsettledStays ==
    ASSUME NEW r, NEW p \in Seq(Messages), NEW q \in Seq(Messages), Settled(r, p \o q)
    PROVE  Settled(r, p)
  BY CarriesAppended DEF Settled

\* One message, and none
LEMMA OneMessage ==
    ASSUME NEW m \in Messages, NEW at
    PROVE  /\ <<m>> \in Seq(Messages) /\ \A kinds : Carries(<<m>>, kinds) <=> m.kind \in kinds
           /\ (\A i \in DOMAIN <<m>> : ~Stale(<<m>>[i], at)) <=> ~Stale(m, at)
           /\ After(<<m>>, 0, at) <=> Refreshes(m, at)
<1>1. DOMAIN <<m>> = {1} /\ <<m>>[1] = m /\ 1 > 0
  OBVIOUS
<1>2. QED
  BY <1>1 DEF Carries, After
LEMMA NoMessage ==
    ASSUME NEW at
    PROVE  /\ <<>> \in Seq(Messages) /\ \A kinds : ~Carries(<<>>, kinds)
           /\ \A i \in DOMAIN <<>> : ~Stale(<<>>[i], at)
           /\ ~After(<<>>, 0, at)
  BY DEF Carries, After
LEMMA TwoMessages ==
    ASSUME NEW m \in Messages, NEW n \in Messages, NEW at, NEW q, q = Append(<<m>>, n)
    PROVE  /\ q \in Seq(Messages) /\ \A kinds : Carries(q, kinds) <=> m.kind \in kinds \/ n.kind \in kinds
           /\ (\A i \in DOMAIN q : ~Stale(q[i], at)) <=> ~Stale(m, at) /\ ~Stale(n, at)
           /\ After(q, 0, at) <=> Refreshes(m, at) \/ Refreshes(n, at)
<1>1. DOMAIN q = {1, 2} /\ q[1] = m /\ q[2] = n /\ 1 > 0 /\ 2 > 0
  OBVIOUS
<1>2. QED
  BY <1>1 DEF Carries, After

\* i3 changes, and q, of its events, goes out.
LEMMA ChangesOK ==
    ASSUME BarInv, UNCHANGED <<toI3, bar, x>>,
           NEW q \in Seq(Messages), toBar' = toBar \o q, ~Carries(q, {"bar_config"}),
           i3.events = {} => q = <<>>,
           \A i \in DOMAIN q : ~Stale(q[i], i3'.ws),
           i3'.events = i3.events,
           "workspace" \in i3.events => After(q, 0, i3'.ws) \/ i3'.ws = i3.ws,
           DOMAIN i3' = I3Fields, i3'.ws \in Nat, i3'.config \in Configs, i3'.outputs \subseteq Outputs,
           i3'.urgent \in BOOLEAN, i3'.mode \in BOOLEAN
    PROVE  BarInv'
<1>1. toI3' = toI3 /\ bar' = bar /\ x' = x /\ toI3 \in Seq(Requests) /\ toBar \in Seq(Messages) /\ Subscribed(toI3)
  BY DEF BarInv, Streams
<1>2. CASE bar.config = Unknown
  <2>1. i3.events = {}
    BY <1>2 DEF BarInv, BarBegun
  <2>2. toBar' = toBar
    BY <1>1, <2>1
  <2>3. QED
    BY <1>1, <1>2, <2>2, UntoldOK
<1>3. CASE bar.config # Unknown
  <2>1. ~Carries(toI3, {"bar_config"})
    BY <1>3 DEF BarInv, BarBegun
  <2>2. Settled(toI3', toBar') => Settled(toI3, toBar)
    BY <1>1, UnsettledStays
  <2>3. toI3' \in Seq(Requests) /\ Subscribed(toI3') /\ ~Carries(toI3', {"bar_config"})
    BY <1>1, <2>1
  <2>4. "workspace" \in i3'.events =>
           \/ After(q, 0, i3'.ws)
           \/ Asks(toI3')
           \/ "workspace" \in i3.events /\ i3'.ws = i3.ws /\ (Asks(toI3) => Asks(toI3'))
    BY <1>1
  <2>5. QED
    BY <1>1, <1>3, <2>2, <2>3, <2>4, ToldOK
<1>4. QED
  BY <1>2, <1>3

\* The types of i3
LEMMA I3IsWhole ==
    ASSUME BarInv
    PROVE  /\ DOMAIN i3 = I3Fields /\ i3.ws \in Nat /\ i3.config \in Configs /\ i3.outputs \subseteq Outputs
           /\ i3.urgent \in BOOLEAN /\ i3.mode \in BOOLEAN
           /\ toBar \in Seq(Messages) /\ toI3 \in Seq(Requests)
  BY DEF BarInv, Streams, I3Fields

\* The changes in i3, each with its events
LEMMA I3WorkspacesOK == ASSUME BarInv, NEW urgent \in BOOLEAN, I3Workspaces(urgent) PROVE BarInv'
<1>1. PICK m : m = [kind |-> "workspace"]
  OBVIOUS
<1>2. m \in Messages /\ m.kind = "workspace"
  BY <1>1 DEF Messages
<1>3. PICK q : q = IF "workspace" \in i3.events THEN <<m>> ELSE <<>>
  OBVIOUS
<1>4. /\ i3' = [i3 EXCEPT !.ws = @ + 1, !.urgent = urgent] /\ UNCHANGED <<toI3, bar, x>>
      /\ toBar' = IF "workspace" \in i3.events THEN Append(toBar, m) ELSE toBar
  BY <1>1 DEF I3Workspaces, Changes, Tell
<1>5. toBar' = toBar \o q
  <2>1. Append(toBar, m) = toBar \o <<m>> /\ toBar \o <<>> = toBar
    BY <1>2, I3IsWhole
  <2>2. QED
    BY <1>3, <1>4, <2>1
<1>6. /\ DOMAIN i3' = I3Fields /\ i3'.ws = i3.ws + 1 /\ i3'.config = i3.config /\ i3'.outputs = i3.outputs
      /\ i3'.urgent = urgent /\ i3'.mode = i3.mode /\ i3'.events = i3.events
  BY <1>4, I3IsWhole DEF I3Fields
<1>7. ~Stale(m, i3'.ws) /\ Refreshes(m, i3'.ws)
  BY <1>2 DEF Stale, Refreshes
<1>8. /\ q \in Seq(Messages) /\ ~Carries(q, {"bar_config"}) /\ \A i \in DOMAIN q : ~Stale(q[i], i3'.ws)
      /\ "workspace" \in i3.events => After(q, 0, i3'.ws)
      /\ i3.events = {} => q = <<>>
  <2>1. CASE "workspace" \in i3.events
    BY <1>2, <1>3, <1>7, <2>1, OneMessage
  <2>2. CASE "workspace" \notin i3.events
    BY <1>3, <2>2, NoMessage
  <2>3. QED
    BY <2>1, <2>2
<1>9. i3'.ws \in Nat /\ i3'.config \in Configs /\ i3'.outputs \subseteq Outputs /\ i3'.urgent \in BOOLEAN /\ i3'.mode \in BOOLEAN
  BY <1>6, I3IsWhole
<1>10. QED
  BY <1>4, <1>5, <1>6, <1>8, <1>9, ChangesOK

LEMMA I3OutputsOK == ASSUME BarInv, NEW o \in Outputs, I3Outputs(o) PROVE BarInv'
<1>1. PICK m, n : m = [kind |-> "workspace"] /\ n = [kind |-> "output"]
  OBVIOUS
<1>2. m \in Messages /\ m.kind = "workspace" /\ n \in Messages /\ n.kind = "output"
  BY <1>1 DEF Messages
<1>3. PICK p, r : p = (IF "workspace" \in i3.events THEN <<m>> ELSE <<>>) /\ r = (IF "output" \in i3.events THEN <<n>> ELSE <<>>)
  OBVIOUS
<1>4. PICK q, outputs : q = p \o r /\ outputs = IF o \in i3.outputs THEN i3.outputs \ {o} ELSE i3.outputs \cup {o}
  OBVIOUS
<1>5. /\ i3' = [i3 EXCEPT !.outputs = outputs, !.ws = @ + 1] /\ UNCHANGED <<toI3, bar, x>>
      /\ toBar' = toBar \o p \o r
  BY <1>1, <1>3, <1>4 DEF I3Outputs, Changes
<1>6. p \in Seq(Messages) /\ r \in Seq(Messages) /\ q \in Seq(Messages)
  BY <1>2, <1>3, <1>4
<1>7. toBar' = toBar \o q
  BY <1>4, <1>5, <1>6, I3IsWhole
<1>8. /\ DOMAIN i3' = I3Fields /\ i3'.ws = i3.ws + 1 /\ i3'.config = i3.config /\ i3'.outputs = outputs
      /\ i3'.urgent = i3.urgent /\ i3'.mode = i3.mode /\ i3'.events = i3.events
  BY <1>5, I3IsWhole DEF I3Fields
<1>9. i3'.ws \in Nat /\ i3'.config \in Configs /\ i3'.outputs \subseteq Outputs /\ i3'.urgent \in BOOLEAN /\ i3'.mode \in BOOLEAN
  BY <1>4, <1>8, I3IsWhole
<1>10. ~Stale(m, i3'.ws) /\ Refreshes(m, i3'.ws) /\ ~Stale(n, i3'.ws)
  BY <1>2 DEF Stale, Refreshes
<1>11. /\ ~Carries(q, {"bar_config"}) /\ \A i \in DOMAIN q : ~Stale(q[i], i3'.ws)
       /\ "workspace" \in i3.events => After(q, 0, i3'.ws)
       /\ i3.events = {} => q = <<>>
  <2>1. <<m>> \o <<n>> = Append(<<m>>, n) /\ <<m>> \o <<>> = <<m>> /\ <<>> \o <<n>> = <<n>> /\ <<>> \o <<>> = <<>>
    <3>1. <<m>> \in Seq(Messages) /\ <<n>> \in Seq(Messages) /\ <<>> \in Seq(Messages)
      BY <1>2
    <3>2. <<m>> \o <<>> = <<m>> /\ <<>> \o <<n>> = <<n>> /\ <<>> \o <<>> = <<>>
      BY <3>1
    <3>3. <<m>> \o <<n>> = Append(<<m>>, n)
      BY <3>1
    <3>4. QED
      BY <3>2, <3>3
  <2>2. CASE "workspace" \in i3.events /\ "output" \in i3.events
    <3>1. q = Append(<<m>>, n)
      BY <1>3, <1>4, <2>1, <2>2
    <3>2. QED
      BY <1>2, <1>10, <2>2, <3>1, TwoMessages
  <2>3. CASE "workspace" \in i3.events /\ "output" \notin i3.events
    <3>1. q = <<m>>
      BY <1>3, <1>4, <2>1, <2>3
    <3>2. QED
      BY <1>2, <1>10, <2>3, <3>1, OneMessage
  <2>4. CASE "workspace" \notin i3.events /\ "output" \in i3.events
    <3>1. q = <<n>>
      BY <1>3, <1>4, <2>1, <2>4
    <3>2. QED
      BY <1>2, <1>10, <2>4, <3>1, OneMessage
  <2>5. CASE "workspace" \notin i3.events /\ "output" \notin i3.events
    <3>1. q = <<>>
      BY <1>3, <1>4, <2>1, <2>5
    <3>2. QED
      BY <2>5, <3>1, NoMessage
  <2>6. QED
    BY <2>2, <2>3, <2>4, <2>5
<1>12. QED
  BY <1>5, <1>6, <1>7, <1>8, <1>9, <1>11, ChangesOK

LEMMA I3ModeOK == ASSUME BarInv, I3Mode PROVE BarInv'
<1>1. PICK m : m = [kind |-> "mode", mode |-> ~i3.mode]
  OBVIOUS
<1>2. m \in Messages /\ m.kind = "mode"
  BY <1>1 DEF Messages
<1>3. PICK q : q = IF "mode" \in i3.events THEN <<m>> ELSE <<>>
  OBVIOUS
<1>4. /\ i3' = [i3 EXCEPT !.mode = ~@] /\ UNCHANGED <<toI3, bar, x>>
      /\ toBar' = IF "mode" \in i3.events THEN Append(toBar, m) ELSE toBar
  BY <1>1 DEF I3Mode, Changes, Tell
<1>5. toBar' = toBar \o q
  <2>1. Append(toBar, m) = toBar \o <<m>> /\ toBar \o <<>> = toBar
    BY <1>2, I3IsWhole
  <2>2. QED
    BY <1>3, <1>4, <2>1
<1>6. /\ DOMAIN i3' = I3Fields /\ i3'.ws = i3.ws /\ i3'.config = i3.config /\ i3'.outputs = i3.outputs
      /\ i3'.urgent = i3.urgent /\ i3'.mode \in BOOLEAN /\ i3'.events = i3.events
  BY <1>4, I3IsWhole DEF I3Fields
<1>7. ~Stale(m, i3'.ws)
  BY <1>2 DEF Stale
<1>8. /\ q \in Seq(Messages) /\ ~Carries(q, {"bar_config"}) /\ \A i \in DOMAIN q : ~Stale(q[i], i3'.ws)
      /\ i3.events = {} => q = <<>>
  <2>1. CASE "mode" \in i3.events
    BY <1>2, <1>3, <1>7, <2>1, OneMessage
  <2>2. CASE "mode" \notin i3.events
    BY <1>3, <2>2, NoMessage
  <2>3. QED
    BY <2>1, <2>2
<1>9. i3'.ws \in Nat /\ i3'.config \in Configs /\ i3'.outputs \subseteq Outputs /\ i3'.urgent \in BOOLEAN
  BY <1>6, I3IsWhole
<1>10. QED
  BY <1>4, <1>5, <1>6, <1>8, <1>9, ChangesOK

LEMMA I3ConfigOK == ASSUME BarInv, NEW config \in Configs, I3Config(config) PROVE BarInv'
<1>1. PICK m : m = [kind |-> "barconfig_update", config |-> config]
  OBVIOUS
<1>2. m \in Messages /\ m.kind = "barconfig_update"
  BY <1>1 DEF Messages
<1>3. PICK q : q = IF "barconfig_update" \in i3.events THEN <<m>> ELSE <<>>
  OBVIOUS
<1>4. /\ i3' = [i3 EXCEPT !.config = config] /\ UNCHANGED <<toI3, bar, x>>
      /\ toBar' = IF "barconfig_update" \in i3.events THEN Append(toBar, m) ELSE toBar
  BY <1>1 DEF I3Config, Changes, Tell
<1>5. toBar' = toBar \o q
  <2>1. Append(toBar, m) = toBar \o <<m>> /\ toBar \o <<>> = toBar
    BY <1>2, I3IsWhole
  <2>2. QED
    BY <1>3, <1>4, <2>1
<1>6. /\ DOMAIN i3' = I3Fields /\ i3'.ws = i3.ws /\ i3'.config = config /\ i3'.outputs = i3.outputs
      /\ i3'.urgent = i3.urgent /\ i3'.mode = i3.mode /\ i3'.events = i3.events
  BY <1>4, I3IsWhole DEF I3Fields
<1>7. ~Stale(m, i3'.ws)
  BY <1>2 DEF Stale
<1>8. /\ q \in Seq(Messages) /\ ~Carries(q, {"bar_config"}) /\ \A i \in DOMAIN q : ~Stale(q[i], i3'.ws)
      /\ i3.events = {} => q = <<>>
  <2>1. CASE "barconfig_update" \in i3.events
    BY <1>2, <1>3, <1>7, <2>1, OneMessage
  <2>2. CASE "barconfig_update" \notin i3.events
    BY <1>3, <2>2, NoMessage
  <2>3. QED
    BY <2>1, <2>2
<1>9. i3'.ws \in Nat /\ i3'.config \in Configs /\ i3'.outputs \subseteq Outputs /\ i3'.urgent \in BOOLEAN /\ i3'.mode \in BOOLEAN
  BY <1>6, I3IsWhole
<1>10. QED
  BY <1>4, <1>5, <1>6, <1>8, <1>9, ChangesOK

\* The configuration of the bar is answered.
LEMMA ConfigAnswered == ASSUME BarInv, bar.config = Unknown, I3Answers PROVE BarInv'
<1>1. PICK request : request = Head(toI3)
  OBVIOUS
<1>2. /\ request.kind = "bar_config" /\ toBar = <<>> /\ Tail(toI3) = <<>> /\ i3.events = {}
  <2>1. toI3 # <<>> /\ i3.events = {} /\ toI3 = <<[kind |-> "bar_config"]>> /\ toBar = <<>>
    BY DEF I3Answers, BarInv, BarBegun
  <2>2. PICK r : r = [kind |-> "bar_config"]
    OBVIOUS
  <2>3. r.kind = "bar_config" /\ Head(<<r>>) = r /\ Tail(<<r>>) = <<>>
    BY <2>2
  <2>4. QED
    BY <1>1, <2>1, <2>2, <2>3
<1>3. PICK m : m = [kind |-> "bar_config", config |-> i3.config]
  OBVIOUS
<1>4. m \in Messages /\ m.kind = "bar_config"
  BY <1>3, I3IsWhole DEF Messages
<1>5. Answer(request) = m
  BY <1>2, <1>3 DEF Answer
<1>6. i3' = i3 /\ toI3' = <<>> /\ UNCHANGED <<bar, x>> /\ toBar' = toBar \o <<>> \o <<m>>
  BY <1>1, <1>2, <1>5 DEF I3Answers
<1>7. toBar' = <<m>>
  <2>1. <<>> \o <<>> = <<>>
    OBVIOUS
  <2>2. <<>> \o <<m>> = <<m>>
    BY <1>4
  <2>3. QED
    BY <1>2, <1>6, <2>1, <2>2
<1>8. bar' = bar /\ x' = x
  BY <1>6
<1>9. Subscribed(<<>>) /\ <<m>> \in Seq(Messages)
  BY <1>4 DEF Subscribed
<1>10. Streams'
  BY <1>6, <1>7, <1>8, <1>9 DEF BarInv, Streams
<1>11. BarBegun(bar)' /\ Refreshed(bar)' /\ Seen(bar)'
  BY <1>2, <1>4, <1>6, <1>7, <1>8 DEF BarInv, BarBegun, Refreshed, Seen
<1>12. QED
  BY <1>8, <1>10, <1>11 DEF BarInv

\* i3 answers any request.
LEMMA I3AnswersOK == ASSUME BarInv, I3Answers PROVE BarInv'
<1>1. SUFFICES ASSUME bar.config # Unknown PROVE BarInv'
  BY ConfigAnswered
<1>2. PICK request : request = Head(toI3)
  OBVIOUS
<1>3. /\ toI3 # <<>> /\ toI3 \in Seq(Requests) /\ toI3' = Tail(toI3) /\ Tail(toI3) \in Seq(Requests)
      /\ Subscribed(toI3) /\ ~Carries(toI3, {"bar_config"}) /\ UNCHANGED <<bar, x>>
  BY <1>1 DEF I3Answers, BarInv, Streams, BarBegun
<1>4. /\ request \in Requests /\ request.kind # "bar_config" /\ ~Carries(toI3', {"bar_config"})
      /\ \A kinds : Carries(toI3, kinds) <=> request.kind \in kinds \/ Carries(toI3', kinds)
  <2>1. \A kinds : Carries(toI3, kinds) <=> request.kind \in kinds \/ Carries(toI3', kinds)
    BY <1>2, <1>3, CarriesFirst
  <2>2. request \in Requests
    BY <1>2, <1>3
  <2>3. QED
    BY <1>3, <2>1, <2>2
<1>5. /\ Subscribed(toI3')
      /\ request.kind = "subscribe" /\ "workspace" \in request.events => Asks(toI3')
  BY <1>2, <1>3, SubscribedFirst
<1>6. /\ DOMAIN i3 = I3Fields /\ i3.ws \in Nat /\ i3.config \in Configs /\ i3.outputs \subseteq Outputs
      /\ i3.urgent \in BOOLEAN /\ i3.mode \in BOOLEAN /\ toBar \in Seq(Messages)
  BY I3IsWhole
<1>7. PICK switched : switched = IF request.kind = "command" /\ "workspace" \in i3.events THEN <<[kind |-> "workspace"]>> ELSE <<>>
  OBVIOUS
<1>8. toBar' = toBar \o switched \o <<Answer(request)>>
  BY <1>2, <1>7 DEF I3Answers
<1>9. i3' = CASE request.kind = "subscribe" -> [i3 EXCEPT !.events = request.events]
               [] request.kind = "command" -> [i3 EXCEPT !.ws = @ + 1]
               [] OTHER -> i3
  BY <1>2 DEF I3Answers
\* Only what asked for the outputs is answered by them, so nothing is settled by an answer.
<1>10. ASSUME NEW m \in Messages, Answer(request) = m, request.kind = "outputs" => m.kind = "outputs",
              toBar' = toBar \o <<m>> \/ (\E n \in Messages : toBar' = toBar \o Append(<<n>>, m)),
              Settled(toI3', toBar')
       PROVE  Settled(toI3, toBar)
  <2>1. PICK q \in Seq(Messages) : toBar' = toBar \o q /\ (m.kind = "outputs" => Carries(q, {"outputs", "output", "barconfig_update"}))
    <3>1. CASE toBar' = toBar \o <<m>>
      <4>1. <<m>> \in Seq(Messages)
        BY <1>10
      <4>2. QED
        BY <3>1, <4>1, CarriesOnce
    <3>2. ASSUME NEW n \in Messages, toBar' = toBar \o Append(<<n>>, m)
          PROVE  \E q \in Seq(Messages) : toBar' = toBar \o q /\ (m.kind = "outputs" => Carries(q, {"outputs", "output", "barconfig_update"}))
      <4>1. PICK q : q = Append(<<n>>, m)
        OBVIOUS
      <4>2. q \in Seq(Messages) /\ \A kinds : Carries(q, kinds) <=> n.kind \in kinds \/ m.kind \in kinds
        BY <1>10, <4>1, TwoMessages
      <4>3. QED
        BY <3>2, <4>1, <4>2
    <3>3. QED
      BY <1>10, <3>1, <3>2
  <2>2. Settled(toI3', toBar) /\ ~Carries(q, {"outputs", "output", "barconfig_update"})
    BY <1>6, <1>10, <2>1, CarriesAppended DEF Settled
  <2>3. request.kind # "outputs"
    BY <1>10, <2>1, <2>2
  <2>4. QED
    BY <1>4, <2>2, <2>3 DEF Settled
<1>11. CASE request.kind \in {"outputs", "workspaces"}
  <2>1. PICK m : m = Answer(request)
    OBVIOUS
  <2>2. /\ m \in Messages /\ m.kind = request.kind /\ Refreshes(m, i3.ws) /\ ~Stale(m, i3.ws)
    <3>1. CASE request.kind = "outputs"
      <4>1. m = [kind |-> "outputs", outputs |-> i3.outputs]
        BY <2>1, <3>1 DEF Answer
      <4>2. m \in Messages
        BY <1>6, <4>1 DEF Messages
      <4>3. QED
        BY <3>1, <4>1, <4>2 DEF Refreshes, Stale
    <3>2. CASE request.kind = "workspaces"
      <4>1. m = [kind |-> "workspaces", ws |-> i3.ws, urgent |-> i3.urgent]
        BY <2>1, <3>2 DEF Answer
      <4>2. m \in Messages
        BY <1>6, <4>1 DEF Messages
      <4>3. m.kind = "workspaces" /\ m.ws = i3.ws
        BY <4>1
      <4>4. QED
        BY <3>2, <4>2, <4>3 DEF Refreshes, Stale
    <3>3. QED
      BY <1>11, <3>1, <3>2
  <2>3. i3' = i3 /\ switched = <<>>
    BY <1>7, <1>9, <1>11
  <2>4. toBar' = toBar \o <<m>>
    BY <1>6, <1>8, <2>1, <2>3
  <2>5. /\ <<m>> \in Seq(Messages) /\ ~Carries(<<m>>, {"bar_config"}) /\ \A i \in DOMAIN <<m>> : ~Stale(<<m>>[i], i3.ws)
        /\ After(<<m>>, 0, i3.ws)
    BY <1>4, <2>2, OneMessage
  <2>6. Settled(toI3', toBar') => Settled(toI3, toBar)
    BY <1>10, <2>1, <2>2, <2>4
  <2>7. QED
    BY <1>1, <1>3, <1>4, <1>5, <1>6, <2>3, <2>4, <2>5, <2>6, ToldOK
<1>12. CASE request.kind = "subscribe"
  <2>1. PICK m : m = [kind |-> "success"]
    OBVIOUS
  <2>2. m \in Messages /\ m.kind = "success"
    BY <2>1 DEF Messages
  <2>3. Answer(request) = m /\ switched = <<>> /\ i3' = [i3 EXCEPT !.events = request.events]
    BY <1>7, <1>9, <1>12, <2>1 DEF Answer
  <2>4. toBar' = toBar \o <<m>>
    BY <1>6, <1>8, <2>3
  <2>5. /\ DOMAIN i3' = I3Fields /\ i3'.ws = i3.ws /\ i3'.config = i3.config /\ i3'.outputs = i3.outputs
        /\ i3'.urgent = i3.urgent /\ i3'.mode = i3.mode /\ i3'.events = request.events
    BY <1>6, <2>3 DEF I3Fields
  <2>6. ~Stale(m, i3'.ws)
    BY <2>2 DEF Stale
  <2>7. <<m>> \in Seq(Messages) /\ ~Carries(<<m>>, {"bar_config"}) /\ \A i \in DOMAIN <<m>> : ~Stale(<<m>>[i], i3'.ws)
    BY <2>2, <2>6, OneMessage
  <2>8. Settled(toI3', toBar') => Settled(toI3, toBar)
    BY <1>10, <1>12, <2>2, <2>3, <2>4
  <2>9. "workspace" \in i3'.events => Asks(toI3')
    BY <1>5, <1>12, <2>5
  <2>10. i3'.ws \in Nat /\ i3'.config \in Configs /\ i3'.outputs \subseteq Outputs /\ i3'.urgent \in BOOLEAN /\ i3'.mode \in BOOLEAN
    BY <1>6, <2>5
  <2>11. QED
    BY <1>1, <1>3, <1>4, <1>5, <2>4, <2>5, <2>7, <2>8, <2>9, <2>10, ToldOK
<1>13. CASE request.kind = "command"
  <2>1. PICK m, n : m = [kind |-> "success"] /\ n = [kind |-> "workspace"]
    OBVIOUS
  <2>2. m \in Messages /\ m.kind = "success" /\ n \in Messages /\ n.kind = "workspace"
    BY <2>1 DEF Messages
  <2>3. Answer(request) = m /\ i3' = [i3 EXCEPT !.ws = @ + 1]
    BY <1>9, <1>13, <2>1 DEF Answer
  <2>4. /\ DOMAIN i3' = I3Fields /\ i3'.ws = i3.ws + 1 /\ i3'.config = i3.config /\ i3'.outputs = i3.outputs
        /\ i3'.urgent = i3.urgent /\ i3'.mode = i3.mode /\ i3'.events = i3.events
    BY <1>6, <2>3 DEF I3Fields
  <2>5. ~Stale(m, i3'.ws) /\ ~Stale(n, i3'.ws) /\ Refreshes(n, i3'.ws)
    BY <2>2 DEF Stale, Refreshes
  <2>6. i3'.ws \in Nat /\ i3'.config \in Configs /\ i3'.outputs \subseteq Outputs /\ i3'.urgent \in BOOLEAN /\ i3'.mode \in BOOLEAN
    BY <1>6, <2>4
  <2>7. CASE "workspace" \in i3.events
    <3>1. PICK q : q = Append(<<n>>, m)
      OBVIOUS
    <3>2. switched = <<n>>
      BY <1>7, <1>13, <2>1, <2>7
    <3>3. <<n>> \in Seq(Messages) /\ <<m>> \in Seq(Messages)
      BY <2>2
    <3>4. (toBar \o <<n>>) \o <<m>> = toBar \o (<<n>> \o <<m>>) /\ <<n>> \o <<m>> = q
      <4>1. PICK p, r : p = <<n>> /\ r = <<m>>
        OBVIOUS
      <4>2. (toBar \o p) \o r = toBar \o (p \o r)
        BY <1>6, <3>3, <4>1
      <4>3. <<n>> \o <<m>> = Append(<<n>>, m)
        BY <2>2
      <4>4. QED
        BY <3>1, <4>1, <4>2, <4>3
    <3>5. toBar' = toBar \o q
      BY <1>8, <2>3, <3>2, <3>4
    <3>6. q \in Seq(Messages) /\ ~Carries(q, {"bar_config"}) /\ (\A i \in DOMAIN q : ~Stale(q[i], i3'.ws)) /\ After(q, 0, i3'.ws)
      BY <2>2, <2>5, <3>1, TwoMessages
    <3>7. Settled(toI3', toBar') => Settled(toI3, toBar)
      BY <1>10, <1>13, <2>2, <2>3, <3>1, <3>5
    <3>8. QED
      BY <1>1, <1>3, <1>4, <1>5, <2>4, <2>6, <3>5, <3>6, <3>7, ToldOK
  <2>8. CASE "workspace" \notin i3.events
    <3>1. switched = <<>>
      BY <1>7, <2>8
    <3>2. toBar' = toBar \o <<m>>
      BY <1>6, <1>8, <2>3, <3>1
    <3>3. <<m>> \in Seq(Messages) /\ ~Carries(<<m>>, {"bar_config"}) /\ \A i \in DOMAIN <<m>> : ~Stale(<<m>>[i], i3'.ws)
      BY <2>2, <2>5, OneMessage
    <3>4. Settled(toI3', toBar') => Settled(toI3, toBar)
      BY <1>10, <1>13, <2>2, <2>3, <3>2
    <3>5. "workspace" \notin i3'.events
      BY <2>4, <2>8
    <3>6. QED
      BY <1>1, <1>3, <1>4, <1>5, <2>4, <2>6, <3>2, <3>3, <3>4, <3>5, ToldOK
  <2>9. QED
    BY <2>7, <2>8
<1>14. request.kind \in {"outputs", "workspaces", "command", "subscribe"}
  BY <1>4 DEF Requests
<1>15. QED
  BY <1>11, <1>12, <1>13, <1>14

-----------------------------------------------------------------------------

\* Every step keeps the invariant, which is more than what is claimed of the bar.
LEMMA BarInvStays == ASSUME BarInv, [BarNext]_barVars PROVE BarInv'
<1>1. ASSUME ProtocolStep PROVE BarInv'
  BY <1>1, GotDataOK, I3AnswersOK DEF ProtocolStep
<1>2. ASSUME BarStep PROVE BarInv'
  <2>1. ASSUME NEW json \in BOOLEAN, StatusFirstLine(json) PROVE BarInv'
    BY <2>1, StatusFirstLineOK
  <2>2. ASSUME NEW which \in {"status", "wsChild"}, ChildSig(which) PROVE BarInv'
    BY <2>2, ChildSigOK
  <2>3. ASSUME NEW o \in Outputs, SendBlockClicked(o) PROVE BarInv'
    BY <2>3, SendBlockClickedOK
  <2>4. QED
    BY <1>2, <2>1, <2>2, <2>3, HandleXEventOK DEF BarStep
<1>3. ASSUME Environment PROVE BarInv'
  <2>1. ASSUME NEW o \in Outputs, CoverChanges(o) PROVE BarInv'
    BY <2>1, CoverChangesOK
  <2>2. ASSUME NEW o \in Outputs, HandleButton(o) PROVE BarInv'
    BY <2>2, HandleButtonOK
  <2>3. ASSUME NEW urgent \in BOOLEAN, StatusLine(urgent) PROVE BarInv'
    BY <2>3, StatusLineOK
  <2>4. ASSUME NEW which \in {"status", "wsChild"}, ChildExits(which) PROVE BarInv'
    BY <2>4, ChildExitsOK
  <2>5. QED
    BY <1>3, <2>1, <2>2, <2>3, <2>4, ModifierChangesOK, WsLineOK DEF Environment
<1>4. ASSUME I3Step PROVE BarInv'
  <2>1. ASSUME NEW urgent \in BOOLEAN, I3Workspaces(urgent) PROVE BarInv'
    BY <2>1, I3WorkspacesOK
  <2>2. ASSUME NEW o \in Outputs, I3Outputs(o) PROVE BarInv'
    BY <2>2, I3OutputsOK
  <2>3. ASSUME NEW config \in Configs, I3Config(config) PROVE BarInv'
    BY <2>3, I3ConfigOK
  <2>4. QED
    BY <1>4, <2>1, <2>2, <2>3, I3ModeOK DEF I3Step
<1>5. ASSUME UNCHANGED barVars PROVE BarInv'
  <2>1. i3' = i3 /\ toI3' = toI3 /\ toBar' = toBar /\ bar' = bar /\ x' = x
    BY <1>5 DEF barVars
  <2>2. QED
    BY <2>1 DEF BarInv, Streams, BarBegun, Refreshed, Seen
<1>6. QED
  BY <1>1, <1>2, <1>3, <1>4, <1>5 DEF BarNext

LEMMA InvariantInStep == ASSUME BarInv PROVE BarInStep
<1>1. Sound(bar)
  BY DEF BarInv
<1>2. BarTypeOK
  <2>1. ASSUME NEW which \in {"status", "wsChild"}
        PROVE  bar[which].pid /\ ~bar[which].exited => (bar[which].asleep <=> bar[which].stopped)
    BY <1>1 DEF Sound, BarOK, ChildOK
  <2>2. QED
    BY <1>1, <2>1 DEF BarTypeOK, Sound, BarOK
<1>3. WorkspacesAreShown
  <2>1. SUFFICES ASSUME Quiet, "workspace" \in i3.events, ProvidesWorkspaces(bar.config)
                 PROVE  bar.ws = [at |-> i3.ws, outs |-> bar.known]
    BY DEF WorkspacesAreShown
  <2>2. Fresh(bar, <<>>, <<>>, i3.ws)
    BY <2>1 DEF BarInv, Refreshed, Quiet
  <2>3. ~Asks(<<>>) /\ ~After(<<>>, 0, i3.ws)
    BY DEF Asks, Carries, After
  <2>4. QED
    BY <2>1, <2>2, <2>3 DEF Fresh
<1>4. StatusRunsInSight
  <2>1. SUFFICES ASSUME Quiet, x.queue = <<>>, InSight, bar.config.display = "dock", bar.status.asleep
                 PROVE  FALSE
    BY DEF StatusRunsInSight
  <2>2. ChildOK(bar.status)
    BY <1>1 DEF Sound, BarOK
  <2>3. bar.status.stopped /\ bar.config # Unknown
    <3>1. bar.status.pid /\ ~bar.status.exited
      BY <2>1, <2>2, NoChildOK, Zenon DEF ChildOK
    <3>2. bar.status.stopped
      BY <2>1, <2>2, <3>1 DEF ChildOK
    <3>3. QED
      BY <3>1, <3>2, ChildIsConfigured
  <2>4. Watched(bar, <<>>, x.covered)
    <3>1. Settled(toI3, toBar)
      BY <2>1, CarriesNothing DEF Quiet, Settled
    <3>2. QED
      BY <2>1, <2>3, <3>1 DEF BarInv, Seen
  <2>5. bar.known \cap bar.visible = {}
    BY <2>3, <2>4 DEF Watched, Notified
  <2>6. PICK o \in bar.mapped : o \notin x.covered
    BY <2>1 DEF InSight
  <2>7. o \in bar.visible /\ o \in bar.known
    BY <1>1, <2>4, <2>6 DEF Watched, Sound, BarOK
  <2>8. QED
    BY <2>5, <2>7
<1>5. QED
  BY <1>2, <1>3, <1>4 DEF BarInStep

\* Whatever i3 is told to change, and however replies, events, X events and the ends of the
\* children interleave: once every message is handled the buttons are i3's workspaces, in
\* dock mode a status command sleeps only out of sight, and no stopped child is waited for
\* (got_workspace_event, got_output_reply, handle_visibility_notify, kill_and_wait).
THEOREM BarsInStep == BarSpec => []BarInStep
<1>1. BarInit => BarInv
  BY BarStarts
<1>2. BarInv /\ [BarNext]_barVars => BarInv'
  BY BarInvStays
<1>3. BarInv => BarInStep
  BY InvariantInStep
<1>4. QED
  BY <1>1, <1>2, <1>3, PTL DEF BarSpec

=============================================================================
