------------------------------ MODULE BarTray ------------------------------
(***************************************************************************)
(* The system tray of i3bar: tray clients that dock, hide, die and are kicked *)
(* out when the outputs change, and the X events by which i3bar follows them.  *)
(* The events come late and in the server's order; a client hears a MANAGER     *)
(* message and asks to be docked.                                           *)
(***************************************************************************)
EXTENDS Integers, Sequences, SequencesExt, FiniteSets

CONSTANTS TrayClients, Screens,  \* tray clients, outputs
          NoScreen,              \* no output is for the tray; a client's parent is the root
          MaxTray                \* bounds the steps of clients and outputs

ASSUME TrayAssumption == NoScreen \notin Screens /\ IsFiniteSet(TrayClients)

VARIABLES trayclients,     \* per output, i3bar's list of [win, mapped]
          outputForTray,   \* the output that new clients dock at
          selwin,          \* the selection window exists
          win,             \* the windows of the clients, as X has them
          trayEvents,      \* events on their way to i3bar
          managed,         \* clients that have a MANAGER message to read
          traySteps
trayVars == <<trayclients, outputForTray, selwin, win, trayEvents, managed, traySteps>>

----------------------------------------------------------------------------
(* X: a window's events reach i3bar if it selected them *)

Event(kind, c) == [kind |-> kind, win |-> c]
Told(w, kind, c) == IF w[c].watched THEN <<Event(kind, c)>> ELSE <<>>
Alive(c) == win[c].alive

MapEvents(w, c) == IF w[c].alive /\ ~w[c].mapped THEN Told(w, "map", c) ELSE <<>>
UnmapEvents(w, c) == IF w[c].alive /\ w[c].mapped THEN Told(w, "unmap", c) ELSE <<>>
Mapped(w, c) == [w EXCEPT ![c].mapped = w[c].alive]
Unmapped(w, c) == [w EXCEPT ![c].mapped = FALSE]

----------------------------------------------------------------------------
(* i3bar *)

\* get_tray_output, without a tray_output directive: the first active output
GetTrayOutput(screens) == IF screens = {} THEN NoScreen ELSE CHOOSE s \in screens : TRUE

Entry(s, c) == SelectInSeq(trayclients[s], LAMBDA t : t.win = c)
\* trayclient_and_output_from_window: the first of the lists that has it
OutputOf(c) == IF \E s \in Screens : Entry(s, c) # 0 THEN CHOOSE s \in Screens : Entry(s, c) # 0 ELSE NoScreen

NextEvent(kind, c) == trayEvents # <<>> /\ Head(trayEvents) = Event(kind, c)
Follow(more) == trayEvents' = Tail(trayEvents) \o more

\* handle_client_message, a request to dock. i3bar selects the window's events
\* and reads _XEMBED_INFO; the client may change it before the window is mapped
\* (changesInfo). Reparenting a mapped window unmaps and maps it.
HandleClientMessage(c, changesInfo) ==
    /\ NextEvent("dock", c)
    /\ changesInfo => Alive(c) /\ traySteps < MaxTray
    /\ traySteps' = traySteps + IF changesInfo THEN 1 ELSE 0
    /\ LET watched == [win EXCEPT ![c].watched = Alive(c), ![c].wants = (@ # changesInfo)]
           told == IF changesInfo THEN <<Event("property", c)>> ELSE <<>>
           mapIt == win[c].mapped \/ win[c].wants
       IN IF ~Alive(c) \/ outputForTray = NoScreen
          THEN win' = watched /\ Follow(told) /\ UNCHANGED trayclients
          ELSE /\ win' = [watched EXCEPT ![c].parent = outputForTray, ![c].mapped = mapIt]
               /\ trayclients' = [trayclients EXCEPT ![outputForTray] = Append(@, [win |-> c, mapped |-> FALSE])]
               /\ Follow(told \o UnmapEvents(watched, c) \o IF mapIt THEN Told(watched, "map", c) ELSE <<>>)
    /\ UNCHANGED <<outputForTray, selwin, managed>>

\* handle_destroy_notify
HandleDestroyNotify(c) ==
    /\ NextEvent("destroy", c)
    /\ Follow(<<>>)
    /\ LET s == OutputOf(c)
       IN trayclients' = IF s = NoScreen THEN trayclients ELSE [trayclients EXCEPT ![s] = RemoveAt(@, Entry(s, c))]
    /\ UNCHANGED <<outputForTray, selwin, win, managed, traySteps>>

SetMapped(c, mapped) ==
    LET s == OutputOf(c)
    IN trayclients' = IF s = NoScreen THEN trayclients ELSE [trayclients EXCEPT ![s][Entry(s, c)].mapped = mapped]

\* handle_map_notify
HandleMapNotify(c) ==
    /\ NextEvent("map", c)
    /\ Follow(<<>>)
    /\ SetMapped(c, TRUE)
    /\ UNCHANGED <<outputForTray, selwin, win, managed, traySteps>>

\* handle_unmap_notify
HandleUnmapNotify(c) ==
    /\ NextEvent("unmap", c)
    /\ Follow(<<>>)
    /\ SetMapped(c, FALSE)
    /\ UNCHANGED <<outputForTray, selwin, win, managed, traySteps>>

\* handle_property_notify: _XEMBED_INFO is read again, and compared with what the
\* events said so far.
HandlePropertyNotify(c) ==
    /\ NextEvent("property", c)
    /\ LET s == OutputOf(c)
           listed == s # NoScreen /\ Alive(c)
           shown == listed /\ trayclients[s][Entry(s, c)].mapped
       IN CASE listed /\ shown /\ ~win[c].wants -> win' = Unmapped(win, c) /\ Follow(UnmapEvents(win, c))
            [] listed /\ ~shown /\ win[c].wants -> win' = Mapped(win, c) /\ Follow(MapEvents(win, c))
            [] OTHER -> UNCHANGED win /\ Follow(<<>>)
    /\ UNCHANGED <<trayclients, outputForTray, selwin, managed, traySteps>>

Docked(s) == {trayclients[s][i].win : i \in DOMAIN trayclients[s]}

\* kick_tray_clients: unmap, reparent to the root, forget
KickTrayClients(w, kicked) ==
    [c \in TrayClients |-> IF c \in kicked THEN [w[c] EXCEPT !.mapped = FALSE, !.parent = NoScreen] ELSE w[c]]
\* the server tells of the unmapped ones, in whatever order they were in the lists
KickEvents(kicked) ==
    LET told == {Event("unmap", c) : c \in {k \in kicked : UnmapEvents(win, k) # <<>>}}
    IN Surjection(1 .. Cardinality(told), told)

\* init_tray, once there is an output for it, and kick_tray_clients announce the
\* tray (send_tray_clientmessage).
SendTrayClientmessage(kicked, first) ==
    managed' = managed \cup IF kicked # {} \/ (first # NoScreen /\ ~selwin) THEN {c \in TrayClients : Alive(c)} ELSE {}
InitTray(first) == selwin' = (first # NoScreen)

\* mutant: the clients of a removed bar stay in the list of the output
DestroyWindows_KeepsClients(screens) ==
    LET kicked == UNION {Docked(s) : s \in Screens}
        first == GetTrayOutput(screens)
    IN /\ win' = KickTrayClients(win, kicked)
       /\ \E told \in KickEvents(kicked) : trayEvents' = trayEvents \o told
       /\ UNCHANGED trayclients
       /\ outputForTray' = first
       /\ InitTray(first)
       /\ SendTrayClientmessage(kicked, first)
\* free_outputs and reconfig_windows: every bar window is destroyed after its
\* clients were kicked, which announces the tray again; then output_for_tray is
\* looked for, and the selection window is created or destroyed.
DestroyWindows(screens) ==
    LET kicked == UNION {Docked(s) : s \in Screens}
        first == GetTrayOutput(screens)
    IN /\ win' = KickTrayClients(win, kicked)
       /\ \E told \in KickEvents(kicked) : trayEvents' = trayEvents \o told
       /\ trayclients' = [s \in Screens |-> <<>>]
       /\ outputForTray' = first
       /\ InitTray(first)
       /\ SendTrayClientmessage(kicked, first)

\* got_output_reply
OutputsChange(screens) ==
    /\ traySteps < MaxTray /\ traySteps' = traySteps + 1
    /\ DestroyWindows(screens)

----------------------------------------------------------------------------
(* The clients *)

Act(c) == Alive(c) /\ traySteps < MaxTray /\ traySteps' = traySteps + 1
          /\ UNCHANGED <<trayclients, outputForTray, selwin, managed>>

\* A client that reads MANAGER asks to be docked; one that is docked, or whose
\* request is still to be handled, leaves it at that.
ReadManager(c) ==
    /\ c \in managed
    /\ managed' = managed \ {c}
    /\ trayEvents' = IF selwin /\ Alive(c) /\ win[c].parent = NoScreen /\ Event("dock", c) \notin Range(trayEvents)
                     THEN Append(trayEvents, Event("dock", c)) ELSE trayEvents
    /\ UNCHANGED <<trayclients, outputForTray, selwin, win, traySteps>>

ChangeInfo(c) ==
    /\ Act(c)
    /\ win' = [win EXCEPT ![c].wants = ~@]
    /\ trayEvents' = trayEvents \o Told(win, "property", c)
Hide(c) ==
    /\ Act(c) /\ win[c].mapped
    /\ win' = Unmapped(win, c)
    /\ trayEvents' = trayEvents \o UnmapEvents(win, c)
Die(c) ==
    /\ Act(c)
    /\ win' = [win EXCEPT ![c].alive = FALSE, ![c].mapped = FALSE, ![c].parent = NoScreen]
    /\ trayEvents' = trayEvents \o UnmapEvents(win, c) \o Told(win, "destroy", c)

TrayInit ==
    /\ trayclients = [s \in Screens |-> <<>>]
    /\ outputForTray = GetTrayOutput(Screens)
    /\ selwin = TRUE
    /\ win = [c \in TrayClients |-> [parent |-> NoScreen, mapped |-> FALSE, wants |-> TRUE, watched |-> FALSE, alive |-> TRUE]]
    /\ trayEvents = <<>>
    /\ managed = TrayClients
    /\ traySteps = 0

TrayNext ==
    \/ \E c \in TrayClients :
          \/ \E changesInfo \in BOOLEAN : HandleClientMessage(c, changesInfo)
          \/ HandleDestroyNotify(c) \/ HandleMapNotify(c) \/ HandleUnmapNotify(c) \/ HandlePropertyNotify(c)
          \/ ReadManager(c) \/ ChangeInfo(c) \/ Hide(c) \/ Die(c)
    \/ \E screens \in SUBSET Screens : OutputsChange(screens)
TraySpec == TrayInit /\ [][TrayNext]_trayVars

\* Once its events are handled, the tray lists exactly the living clients that
\* are in a bar, each once, with whether they are mapped, so that the icons get
\* their places (kick_tray_clients: "We might receive an UnmapNotify event
\* afterwards, but better safe than sorry").
TrayInStep ==
    trayEvents = <<>> =>
        \A s \in Screens :
            /\ IsInjective([i \in DOMAIN trayclients[s] |-> trayclients[s][i].win])
            /\ Docked(s) = {c \in TrayClients : win[c].parent = s}
            /\ \A i \in DOMAIN trayclients[s] : trayclients[s][i].mapped = win[trayclients[s][i].win].mapped
=============================================================================
