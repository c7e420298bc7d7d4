------------------------------- MODULE Restore -------------------------------
(***************************************************************************)
(* Layouts that are restored (restore_layout.c, and the swallowing in manage.c):  *)
(* append_layout leaves containers with criteria, each with a placeholder window   *)
(* that i3 opens on a second connection and manages as any window, by a criterion    *)
(* for its id that comes first.  The first window that matches takes the place.       *)
(* Slots are the containers of the layout, in the order of the tree; the             *)
(* placeholder of slot s has s for an id, the container that is opened for a           *)
(* window w is place w.                                                                  *)
(***************************************************************************)
EXTENDS Integers, Sequences, SequencesExt, FiniteSetsExt

CONSTANTS Slots,        \* 1 .. n
          Criteria,     \* Criteria[s]: the classes that slot s swallows
          Clients, Classes, MarkNames, None,
          MaxQueue, MaxSeconds     \* bounds

ASSUME RestoreAssumption ==
    /\ Slots \cap Clients = {} /\ None \notin Slots /\ None \notin Clients /\ None \notin Classes
    /\ Slots \subseteq Nat /\ Criteria \in [Slots -> Seq(Classes)]

VARIABLES cons,         \* what is in each place: [open, window, swallows, marks]
          class,        \* of each window, None: it has none
          alive,        \* the windows that X knows, placeholders among them
          queue,        \* the events on i3's connection: <<kind, window>>
          states,       \* state_head: the slots whose placeholder is known
          broken,       \* the second connection was killed and nobody has noticed
          second, since,   \* the second, and managed_since
          swallowed, laid, raced

restoreVars == <<cons, class, alive, queue, states, broken, second, since, swallowed, laid, raced>>

Places == Slots \cup Clients
NoCon == [open |-> FALSE, window |-> None, swallows |-> <<>>, marks |-> <<>>]
Con(i, matches) == [open |-> TRUE, window |-> i, swallows |-> matches, marks |-> <<>>]
PlaceOf(i) == CHOOSE p \in Places : cons[p].open /\ cons[p].window = i
Managed(i) == \E p \in Places : cons[p].open /\ cons[p].window = i
Events(kind, S) == SetToSortSeq({<<kind, s>> : s \in S}, LAMBDA a, b : a[2] < b[2])

\* load_layout, restore_open_placeholder_windows, open_placeholder_window
AppendLayout ==
    /\ ~laid /\ laid' = TRUE
    /\ cons' = [p \in Places |->
                  IF p \in Slots THEN Con(None, <<[id |-> p]>> \o [n \in DOMAIN Criteria[p] |-> [class |-> Criteria[p][n]]])
                  ELSE cons[p]]
    /\ alive' = alive \cup Slots /\ states' = states \cup Slots /\ queue' = queue \o Events("map", Slots)
    /\ UNCHANGED <<class, broken, second, since, swallowed, raced>>

\* match_matches_window, con_for_window
Meets(match, i, is) == IF "id" \in DOMAIN match THEN match.id = i ELSE is = match.class
Takers(i, is) == {s \in Slots : cons[s].open /\ \E n \in DOMAIN cons[s].swallows : Meets(cons[s].swallows[n], i, is)}
ConForWindow(i, is) == Min(Takers(i, is))
MatchOf(i, is, s) == SelectInSeq(cons[s].swallows, LAMBDA match : Meets(match, i, is))
IsOf(i) == IF i \in Clients THEN class[i] ELSE None

\* restore_kill_placeholder
IsPlaceholder(i) == i \in states
KillPlaceholder(i) ==
    IF IsPlaceholder(i)
    THEN /\ states' = states \ {i} /\ alive' = alive \ {i}
         /\ queue' = IF i \in alive THEN Append(Tail(queue), <<"gone", i>>) ELSE Tail(queue)
    ELSE queue' = Tail(queue) /\ UNCHANGED <<states, alive>>
\* _remove_matches, when it was a placeholder
\* mutant: the other criteria stay
Rest_Kept(old, matches) == matches
Rest(old, matches) == IF IsPlaceholder(old) THEN <<>> ELSE matches

\* manage_window, for a MapRequest
ManageWindow(i) ==
    LET s == ConForWindow(i, IsOf(i))
        con == cons[s]
        matches == RemoveAt(con.swallows, MatchOf(i, IsOf(i), s))
    IN /\ since' = [since EXCEPT ![i] = second]
       /\ UNCHANGED <<class, broken, second, laid>>
       /\ IF Takers(i, IsOf(i)) = {}
          THEN /\ cons' = [cons EXCEPT ![i] = Con(i, <<>>)] /\ swallowed' = [swallowed EXCEPT ![i] = FALSE]
               /\ queue' = Tail(queue) /\ raced' = (raced \/ i \in Slots) /\ UNCHANGED <<alive, states>>
          ELSE /\ KillPlaceholder(con.window)
               /\ cons' = [cons EXCEPT ![s].window = i,
                             ![s].swallows = IF con.window = None THEN matches ELSE Rest(con.window, matches)]
               /\ swallowed' = [swallowed EXCEPT ![i] = TRUE]
               /\ raced' = (raced \/ (i \in Clients /\ ~IsPlaceholder(con.window)))
MapRequest ==
    LET i == Head(queue)[2]
    IN /\ queue # <<>> /\ Head(queue)[1] = "map"
       /\ IF i \in alive /\ ~Managed(i) THEN ManageWindow(i)
          ELSE queue' = Tail(queue) /\ UNCHANGED <<cons, class, alive, states, broken, second, since, swallowed, laid, raced>>

\* An UnmapNotify or a DestroyNotify: the container goes with its window
WindowGone ==
    LET i == Head(queue)[2]
    IN /\ queue # <<>> /\ Head(queue)[1] = "gone" /\ queue' = Tail(queue)
       /\ cons' = IF Managed(i) THEN [cons EXCEPT ![PlaceOf(i)] = NoCon] ELSE cons
       /\ UNCHANGED <<class, alive, states, broken, second, since, swallowed, laid, raced>>

\* placeholder_for_con, remanage_window, con_merge_into
MayTakeOver(s, w) == cons[s].window \notin {None, w} /\ since[cons[s].window] <= since[w]
\* the loop over the marks ends when the first has moved to the end of another list
MergedMarks(old, new) == IF old.marks = <<>> THEN new.marks ELSE Append(new.marks, Head(old.marks))
MergeInto(w, s) ==
    /\ KillPlaceholder(cons[s].window)
    /\ cons' = [cons EXCEPT ![PlaceOf(w)] = NoCon,
                  ![s] = [Con(w, Rest(cons[s].window, cons[s].swallows)) EXCEPT
                            !.marks = MergedMarks(cons[PlaceOf(w)], cons[s])]]
    /\ swallowed' = [swallowed EXCEPT ![w] = TRUE]
    /\ raced' = (raced \/ ~IsPlaceholder(cons[s].window))
RemanageWindow(w) ==
    LET s == ConForWindow(w, class[w])
    IN /\ queue # <<>> /\ Head(queue) = <<"class", w>>
       /\ UNCHANGED <<class, broken, second, since, laid>>
       /\ IF Managed(w) /\ ~swallowed[w] /\ Takers(w, class[w]) # {} /\ MayTakeOver(s, w)
          THEN MergeInto(w, s)
          ELSE queue' = Tail(queue) /\ UNCHANGED <<cons, alive, states, swallowed, raced>>

\* "kill" on a container whose placeholder is not managed yet
KillEmpty(s) ==
    /\ cons[s].open /\ cons[s].window = None /\ cons' = [cons EXCEPT ![s] = NoCon] /\ raced' = TRUE
    /\ UNCHANGED <<class, alive, queue, states, broken, second, since, swallowed, laid>>
\* a placeholder is killed, and its connection with it; restore_xcb_prepare_cb, restore_connect
KillClient ==
    /\ ~broken /\ Slots \cap alive # {} /\ Len(queue) < MaxQueue
    /\ broken' = TRUE /\ alive' = alive \ Slots /\ queue' = queue \o Events("gone", Slots \cap alive)
    /\ UNCHANGED <<cons, class, states, second, since, swallowed, laid, raced>>
Reconnect ==
    /\ broken /\ broken' = FALSE /\ states' = {}
    /\ UNCHANGED <<cons, class, alive, queue, second, since, swallowed, laid, raced>>

MarkCon(p, m) ==
    /\ cons[p].open /\ cons[p].window \in Clients /\ m \notin ToSet(cons[p].marks)
    /\ cons' = [q \in Places |-> [cons[q] EXCEPT !.marks = IF q = p THEN Append(@, m) ELSE Remove(@, m)]]
    /\ UNCHANGED <<class, alive, queue, states, broken, second, since, swallowed, laid, raced>>

\* the clients, and the clock
Map(w, c) ==
    /\ w \notin alive /\ Len(queue) < MaxQueue /\ since[w] = 0
    /\ alive' = alive \cup {w} /\ class' = [class EXCEPT ![w] = c] /\ queue' = Append(queue, <<"map", w>>)
    /\ UNCHANGED <<cons, states, broken, second, since, swallowed, laid, raced>>
Withdraw(w) ==
    /\ w \in alive /\ Len(queue) < MaxQueue /\ alive' = alive \ {w} /\ queue' = Append(queue, <<"gone", w>>)
    /\ UNCHANGED <<cons, class, states, broken, second, since, swallowed, laid, raced>>
SetClass(w, c) ==
    /\ w \in alive /\ Len(queue) < MaxQueue /\ c # class[w]
    /\ class' = [class EXCEPT ![w] = c] /\ queue' = Append(queue, <<"class", w>>)
    /\ UNCHANGED <<cons, alive, states, broken, second, since, swallowed, laid, raced>>
NextSecond ==
    /\ second < MaxSeconds /\ second' = second + 1
    /\ UNCHANGED <<cons, class, alive, queue, states, broken, since, swallowed, laid, raced>>

RestoreInit ==
    /\ cons = [p \in Places |-> NoCon] /\ class = [w \in Clients |-> None] /\ alive = {} /\ queue = <<>>
    /\ states = {} /\ broken = FALSE /\ second = 1 /\ since = [i \in Places |-> 0] /\ swallowed = [i \in Places |-> FALSE]
    /\ laid = FALSE /\ raced = FALSE
RestoreNext ==
    \/ AppendLayout \/ MapRequest \/ WindowGone \/ KillClient \/ Reconnect \/ NextSecond
    \/ \E s \in Slots : KillEmpty(s)
    \/ \E p \in Places, m \in MarkNames : MarkCon(p, m)
    \/ \E w \in Clients : \/ RemanageWindow(w) \/ Withdraw(w) \/ \E c \in Classes \cup {None} : Map(w, c)
                         \/ \E c \in Classes : SetClass(w, c)

----------------------------------------------------------------------------
\* "Remove all match criteria, the first swallowed window wins." (manage.c:28): where a
\* window took the place of a managed placeholder, nothing else does, and the
\* placeholder is gone.
FirstWindowWins ==
    ~raced => \A s \in Slots :
        cons[s].window \in Clients => cons[s].swallows = <<>> /\ s \notin alive \cup states
=============================================================================
