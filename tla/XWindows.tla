------------------------------ MODULE XWindows ------------------------------
(***************************************************************************)
(* i3 as the window manager of an X server: managing a window (manage.c), the *)
(* events about it (handlers.c), and pushing the tree to the server (x.c).     *)
(*                                                                         *)
(* i3 writes requests and goes on; the server processes them later, between    *)
(* those of the clients, and its events wait until i3 reads them.  The tree is   *)
(* kept to what the push reads: one output with the workspaces Boards, one       *)
(* container per window and workspace (both exist for a sticky group), the focus   *)
(* order, and the x.c state of each container.                                  *)
(***************************************************************************)
EXTENDS XServer, FiniteSets, SequencesExt, Functions, FiniteSetsExt

CONSTANTS NoCon,        \* the workspace itself is focused
          NoBody,       \* XCB_NONE
          Sticky,       \* windows with a sticky_group on every workspace
          MaxClient,    \* bounds what clients and the user do to windows
          MaxCommands   \* bounds the commands

VARIABLES x,            \* the server
          requests,     \* written by i3, not processed yet
          i3,           \* the tree, con_state, focused_id, ignore_events
          pc,           \* what i3 waits for: nothing, or a reply for a window
          ghost,        \* what clients did, for the properties only
          acts          \* how much happened

xVars == <<x, requests, i3, pc, ghost, acts>>

Idle == [at |-> "idle"]
NewCon == [holds |-> FALSE, ignore |-> 0, mapped |-> FALSE, child |-> FALSE, reparent |-> NoCon]

XInit ==
    /\ x = EmptyServer /\ requests = <<>> /\ pc = Idle
    /\ i3 = [cons |-> <<>>, order |-> <<>>, shown |-> CHOOSE s \in Boards : TRUE,
             fid |-> Ewmh, last |-> NoBody, active |-> NoBody, ignoring |-> {}]
    /\ ghost = [gone |-> {}, raced |-> FALSE, deaf |-> {}, born |-> {}]
    /\ acts = [client |-> 0, commands |-> 0]

----------------------------------------------------------------------------
(* con.c, tree.c as far as the push needs them *)

ConOf(s, w) == {c \in DOMAIN s.cons : c[1] = w /\ s.cons[c].holds}
OnShown(s) == SelectSeq(s.order, LAMBDA c : c[2] = s.shown)
Focused(s) == IF OnShown(s) = <<>> THEN NoCon ELSE Head(OnShown(s))
ToFront(q, c) == <<c>> \o SelectSeq(q, LAMBDA d : d # c)

\* workspace_reassign_sticky: an empty container of the group takes the window over
Reassign(s, c, src) ==
    [s EXCEPT !.cons[c].holds = TRUE, !.cons[src].holds = FALSE, !.cons[c].reparent = src]
ReassignSticky(s) ==
    FoldSet(LAMBDA w, t : LET c == <<w, t.shown>>
                          IN IF c \in DOMAIN t.cons /\ ~t.cons[c].holds /\ ConOf(t, w) # {}
                             THEN Reassign(t, c, CHOOSE d \in ConOf(t, w) : TRUE) ELSE t,
            s, Sticky)
ShowSpace(s, ws) == IF ws = s.shown THEN s ELSE ReassignSticky([s EXCEPT !.shown = ws])
ConActivate(s, c) == [s EXCEPT !.order = ToFront(@, c)]
ConActivateUnblock(s, c) == ShowSpace(ConActivate(s, c), c[2])

----------------------------------------------------------------------------
(* x.c *)

\* x_con_init
ConInit(s, c) == [s EXCEPT !.cons = @ @@ (c :> NewCon), !.order = <<c>> \o @]
\* x_con_kill: the ids that are compared later are forgotten
ConKill(s, c) ==
    [s EXCEPT !.cons = Restrict(@, DOMAIN @ \ {c}), !.order = SelectSeq(@, LAMBDA d : d # c),
              !.fid = IF @ = c THEN NoBody ELSE @, !.last = IF @ = c THEN NoBody ELSE @]

Wanted(s, c) == c[2] = s.shown /\ s.cons[c].holds
MaskTo(set, to) == IF set = {} THEN <<>> ELSE <<[op |-> "mask", of |-> set, to |-> to]>>

\* The child moves between two frames while neither it nor the old frame reports
Reparenting(c, old) ==
    <<[op |-> "mask", of |-> {old}, to |-> "redirect"], [op |-> "select", w |-> c[1], to |-> "none"],
      [op |-> "reparent", w |-> c[1], c |-> c],
      [op |-> "mask", of |-> {old}, to |-> "full"], [op |-> "select", w |-> c[1], to |-> "child"]>>

Mapping(s, c) ==
    (IF s.cons[c].child THEN <<>>
     ELSE <<[op |-> "map window", w |-> c[1]], [op |-> "select", w |-> c[1], to |-> "child"]>>)
    \o <<[op |-> "map frame", c |-> c]>>

\* x_push_node for a container: its requests, and what con_state and the container become
Maps(s, c) == Wanted(s, c) /\ ~(s.cons[c].mapped /\ s.cons[c].child)
Reparents(s, c) == s.cons[c].reparent # NoCon /\ s.cons[c].holds
PushNode(s, c) ==
    (IF Reparents(s, c) THEN Reparenting(c, s.cons[c].reparent) ELSE <<>>)
    \o (IF Maps(s, c) THEN Mapping(s, c) ELSE <<>>)
Pushed(s, c) ==
    [s.cons[c] EXCEPT !.mapped = @ \/ Wanted(s, c), !.child = @ \/ Maps(s, c),
                      !.ignore = IF Reparents(s, c) THEN (@ + 1) % 256 ELSE @,
                      !.reparent = IF Reparents(s, c) THEN NoCon ELSE @]

\* x_push_node_unmaps
UnmapNow(s, c) == s.cons[c].mapped /\ ~Wanted(s, c)
Unmapped(s, c) ==
    IF UnmapNow(s, c)
    THEN [s.cons[c] EXCEPT !.mapped = FALSE, !.ignore = IF s.cons[c].holds THEN (@ + 1) % 256 ELSE @]
    ELSE s.cons[c]

\* The focus in x_push_changes; the container that is being closed may still be focused
Target(s, dying) ==
    IF dying # NoCon THEN [to |-> dying, mapped |-> TRUE]
    ELSE LET c == Focused(s)
         IN IF c = NoCon \/ ~s.cons[c].holds THEN [to |-> NoCon, mapped |-> FALSE]
            ELSE [to |-> c[1], mapped |-> s.cons[c].mapped]
SetsFocus(s, t) == s.fid # t.to /\ t.mapped
Fid(s, t) == IF s.fid = t.to THEN s.fid ELSE IF t.mapped THEN t.to ELSE NoBody
FocusRequests(s, t) ==
    (IF SetsFocus(s, t) THEN <<[op |-> "focus", f |-> t.to]>> ELSE <<>>)
    \o (IF Fid(s, t) = NoBody THEN <<[op |-> "focus", f |-> Ewmh]>> ELSE <<>>)
\* change_ewmh_focus: _NET_ACTIVE_WINDOW follows what x_push_changes focused last
ChangeEwmhFocus(s, new) == IF new = s.last THEN s.active ELSE new
Refocused(s, t) ==
    [s EXCEPT !.fid = IF Fid(s, t) = NoBody THEN Ewmh ELSE Fid(s, t),
              !.active = IF Fid(s, t) = NoBody THEN ChangeEwmhFocus(s, NoBody)
                         ELSE IF SetsFocus(s, t) THEN ChangeEwmhFocus(s, IF t.to \in Windows THEN t.to ELSE NoBody)
                         ELSE @,
              !.last = IF Fid(s, t) = NoBody THEN NoBody ELSE IF SetsFocus(s, t) THEN t.to ELSE @]

\* x_push_changes: [s |-> the state after it, out |-> its requests]
PushChanges(s0, dying) ==
    LET on(s) == {c \in DOMAIN s.cons : s.cons[c].mapped}
        order == OnShown(s0) \o SelectSeq(s0.order, LAMBDA c : c[2] # s0.shown)
        nodes == FoldLeft(LAMBDA q, c : q \o PushNode(s0, c), <<>>, order)
        s1 == [s0 EXCEPT !.cons = [c \in DOMAIN @ |-> Pushed(s0, c)]]
        t == Target(s1, dying)
        unmaps == SelectSeq(order, LAMBDA c : UnmapNow(s1, c))
        s2 == [Refocused(s1, t) EXCEPT !.cons = [c \in DOMAIN @ |-> Unmapped(s1, c)]]
    IN [s |-> s2,
        out |-> MaskTo(on(s0), "redirect") \o nodes \o MaskTo(on(s1), "full") \o FocusRequests(s1, t)
                \o FoldLeft(LAMBDA q, c : Append(q, [op |-> "unmap frame", c |-> c]), <<>>, unmaps)]

\* tree_render
TreeRender(s) == PushChanges(s, NoCon)

----------------------------------------------------------------------------
(* What i3 does with one event or command: its state and requests after it *)

Writes(s, out) == i3' = s /\ requests' = requests \o out
Renders(s) == LET p == TreeRender(s) IN Writes(p.s, p.out)
Quiet == requests = <<>> /\ x.events = <<>> /\ pc = Idle

Event == Head(x.events)
\* The next event is taken; a new sequence number leaves the ignored ones behind
Takes(type) == pc = Idle /\ x.events # <<>> /\ Event.type = type /\ x' = [x EXCEPT !.events = Tail(@)]
Current == IF Event.new THEN [i3 EXCEPT !.ignoring = {}] ELSE i3

\* add_ignore_event for the sequence of the event and one type of responses, or any.  (The
\* entries of tree_close_internal are for errors, which end in the log either way.)
\* mutant: nothing is ignored
AddIgnoreEvent_Drops(s, type) == s
AddIgnoreEvent(s, type) == [s EXCEPT !.ignoring = @ \cup {[type |-> type, expired |-> FALSE]}]
\* event_is_ignored: the entries that are older than five seconds go, then one has to match
EventIsIgnored(s, type) == \E e \in s.ignoring : ~e.expired /\ e.type \in {"any", type}
Collected(s) == [s EXCEPT !.ignoring = {e \in @ : ~e.expired}]

\* The reply to GetInputFocus separates the sequences
Separating(out) == <<[op |-> "sync"]>> \o out

\* tree_close_internal without killing: the window is let go, the rest is rendered
\* while the container is still focused, then its frame goes
Release(w) == <<[op |-> "select", w |-> w, to |-> "none"], [op |-> "unmap window", w |-> w],
                [op |-> "reparent", w |-> w, c |-> Root]>>
TreeClose(s, c) ==
    LET detached == [s EXCEPT !.cons = Restrict(@, DOMAIN @ \ {c}), !.order = SelectSeq(@, LAMBDA d : d # c)]
        first == PushChanges(detached, IF Focused(s) = c THEN c ELSE NoCon)
        second == TreeRender(ConKill(first.s, c))
    IN [s |-> second.s,
        out |-> Release(c[1]) \o first.out \o <<[op |-> "destroy frame", c |-> c]>> \o second.out]

\* handle_unmap_notify_event, to which handle_destroy_notify_event passes its event:
\* an UnmapNotify that i3 caused is counted down, another one closes the container
Counted(s, c) == s.cons[c].ignore > 0
\* mutant: an UnmapNotify is never counted down
CountDown_Keeps(s, c) == s
CountDown(s, c) == IF Counted(s, c) THEN [s EXCEPT !.cons[c].ignore = @ - 1] ELSE s
HandleUnmapNotify ==
    /\ Takes("unmap")
    /\ UNCHANGED <<ghost, acts>>
    /\ \/ /\ Event.of \notin DOMAIN i3.cons
          /\ Event.of \in Windows => ConOf(i3, Event.of) = {}
          /\ Writes(Current, <<>>) /\ UNCHANGED pc
       \/ /\ Event.of \in Windows /\ ConOf(i3, Event.of) # {}
          /\ LET c == CHOOSE d \in ConOf(i3, Event.of) : TRUE
                 p == TreeClose(Current, c)
             IN IF Counted(i3, c) THEN Writes(AddIgnoreEvent(CountDown(Current, c), "enter"), Separating(<<>>))
                                  ELSE Writes(AddIgnoreEvent(p.s, "enter"), Separating(p.out))
          /\ pc' = [at |-> "sync"]
       \/ /\ Event.of \in DOMAIN i3.cons
          /\ Writes(AddIgnoreEvent(CountDown(Current, Event.of), "enter"), Separating(<<>>))
          /\ pc' = [at |-> "sync"]

\* handle_focus_in
HandleFocusIn ==
    /\ Takes("focus")
    /\ UNCHANGED <<pc, ghost, acts>>
    /\ \/ Event.of = Root /\ Renders([Current EXCEPT !.fid = NoBody])
       \/ /\ Event.of \in Windows
          /\ ConOf(i3, Event.of) = {} \/ i3.fid = Event.of
          /\ Writes(Current, <<>>)
       \/ /\ Event.of \in Windows /\ ConOf(i3, Event.of) # {} /\ i3.fid # Event.of
          /\ LET c == CHOOSE d \in ConOf(i3, Event.of) : TRUE
             IN Renders([ConActivateUnblock(Current, c) EXCEPT !.fid = Event.of])

\* handle_enter_notify on a frame, with focus_follows_mouse
HandleEnterNotify ==
    /\ Takes("enter")
    /\ UNCHANGED <<pc, ghost, acts>>
    /\ LET ignored == EventIsIgnored(Current, "enter") \/ Event.of \notin DOMAIN i3.cons \/ Event.of = Focused(i3)
           s == Collected(Current)
       IN \/ ignored /\ Writes(s, <<>>)
          \/ ~ignored /\ Renders([ConActivate(ShowSpace(s, Event.of[2]), Event.of) EXCEPT !.fid = NoBody])

\* More than five seconds pass; only an EnterNotify that waits can tell
SecondsPass ==
    /\ pc = Idle /\ x.events # <<>> /\ Event.type = "enter" /\ EventIsIgnored(Current, "enter")
    /\ i3' = [i3 EXCEPT !.ignoring = {[e EXCEPT !.expired = TRUE] : e \in @}]
    /\ UNCHANGED <<x, requests, pc, ghost, acts>>

\* handle_map_request: the sequence is ignored, and manage_window asks for the attributes
HandleMapRequest ==
    /\ Takes("map")
    /\ Writes(AddIgnoreEvent(Current, "any"), <<[op |-> "query", w |-> Event.of]>>)
    /\ pc' = [at |-> "attributes", w |-> Event.of]
    /\ ghost' = IF ConOf(i3, Event.of) = {} /\ ~\E e \in ToSet(Tail(x.events)) : e.type = "unmap" /\ e.of = Event.of
                THEN [ghost EXCEPT !.gone = @ \ {Event.of}, !.deaf = @ \ {Event.of}]
                ELSE ghost
    /\ UNCHANGED acts

----------------------------------------------------------------------------
(* manage_window *)

\* What the reply says of window pc.w
Here == x.reply
Waits(at) == pc.at = at /\ requests = <<>>
Next1(at, out) == pc' = [pc EXCEPT !.at = at] /\ requests' = out /\ UNCHANGED i3
GivesUp == pc' = Idle /\ UNCHANGED <<i3, requests>>

\* no attributes, already managed, no geometry: nothing is done
ManageAsks ==
    /\ Waits("attributes")
    /\ IF Here /\ ConOf(i3, pc.w) = {} THEN Next1("geometry", <<[op |-> "query", w |-> pc.w]>>) ELSE GivesUp
    /\ UNCHANGED <<x, ghost, acts>>
ManageListens ==
    /\ Waits("geometry")
    /\ IF Here THEN Next1("mask", <<[op |-> "select", w |-> pc.w, to |-> "structure"]>>) ELSE GivesUp
    /\ UNCHANGED <<x, ghost, acts>>
\* The container goes into the tree; the window moves into its frame
Manage(s, w, ws) ==
    LET new == {<<w, v>> : v \in IF w \in Sticky THEN Boards ELSE {ws}} \ DOMAIN s.cons
        made == FoldSet(LAMBDA c, t : ConInit(t, c), s, new)
    IN [s |-> [made EXCEPT !.cons[<<w, ws>>] = [@ EXCEPT !.holds = TRUE, !.child = FALSE],
                           !.order = IF ws = s.shown THEN @ ELSE SelectSeq(@, LAMBDA c : c \notin new) \o SetToSeq(new)],
        out |-> SetToSeq({[op |-> "create", c |-> c] : c \in new})]
ManageReparents(ws) ==
    /\ Waits("mask")
    /\ IF Here
       THEN LET m == Manage(i3, pc.w, ws)
            IN /\ i3' = m.s
               /\ requests' = m.out \o <<[op |-> "select", w |-> pc.w, to |-> "none"],
                                         [op |-> "reparent", w |-> pc.w, c |-> <<pc.w, ws>>]>>
               /\ pc' = [at |-> "reparent", w |-> pc.w, c |-> <<pc.w, ws>>]
       ELSE GivesUp
    /\ UNCHANGED <<x, ghost, acts>>
\* "Could not reparent the window, aborting": the container stays
ManageFinishes ==
    /\ Waits("reparent")
    /\ pc' = Idle
    /\ IF Here
       THEN LET p == TreeRender(IF pc.c[2] = i3.shown THEN ConActivate(i3, pc.c) ELSE i3)
            IN i3' = p.s /\ requests' = <<[op |-> "select", w |-> pc.w, to |-> "child"]>> \o p.out
       ELSE UNCHANGED <<i3, requests>>
    /\ UNCHANGED <<x, ghost, acts>>
Synced == pc.at = "sync" /\ requests = <<>> /\ pc' = Idle /\ UNCHANGED <<x, requests, i3, ghost, acts>>

----------------------------------------------------------------------------
(* The server, the clients and the user *)

Serve ==
    /\ requests # <<>>
    /\ x' = Process(x, Head(requests))
    /\ requests' = Tail(requests)
    /\ ghost' = IF Head(requests).op = "kill" THEN [ghost EXCEPT !.gone = @ \cup {Head(requests).w}] ELSE ghost
    /\ UNCHANGED <<i3, pc, acts>>

Client == acts.client < MaxClient /\ acts' = [acts EXCEPT !.client = @ + 1] /\ UNCHANGED <<requests, i3, pc>>
\* who hears what the client does to its window
Heard(w) == (IF x.win[w].mask # "none" THEN 1 ELSE 0)
            + (IF x.win[w].at # Root /\ x.frame[x.win[w].at].mask # "redirect" THEN 1 ELSE 0)
Vanishes(w) == [ghost EXCEPT !.gone = @ \cup {w}, !.deaf = IF Heard(w) = 2 THEN @ ELSE @ \cup {w}]

ClientMaps(w) ==
    /\ Client
    /\ x.win[w].st = "unmapped" \/ w \notin ghost.born
    /\ ghost' = [ghost EXCEPT !.born = @ \cup {w}]
    /\ x' = Send([x EXCEPT !.win[w].st = "unmapped"], "map", w)
\* The pointer enters what lies beneath: an EnterNotify of the same sequence
Enters(y, c, by) ==
    [y EXCEPT !.events = Append(@, [type |-> "enter", of |-> c, new |-> y.bumped, by |-> by]), !.bumped = FALSE]
ClientUnmaps(w) ==
    /\ Client /\ x.win[w].st = "mapped" /\ ghost' = Vanishes(w)
    /\ \/ x' = UnmapWindow(x, w)
       \/ \E c \in Frames :
              /\ x.frame[c] = [st |-> "mapped", mask |-> "full"]
              /\ x' = Enters(UnmapWindow(x, w), c, IF Heard(w) > 0 /\ w \notin ghost.gone THEN "nobody" ELSE "other")
ClientDestroys(w) ==
    Client /\ x.win[w].st # "none" /\ x' = DestroyWindow(x, w) /\ ghost' = Vanishes(w)
\* A client focuses its own window
ClientFocuses(w) ==
    /\ Client /\ Viewable(x, w) /\ x.win[w].at # Root /\ x.focus # w
    /\ ghost' = [ghost EXCEPT !.raced = @ \/ ~Quiet]
    /\ x' = LET y == SetFocus(x, w) IN IF x.win[w].mask = "child" THEN Send(y, "focus", w) ELSE y
\* The user moves the pointer into a frame
UserEnters(c) ==
    /\ Client /\ x.frame[c] = [st |-> "mapped", mask |-> "full"] /\ UNCHANGED ghost
    /\ x' = Enters(x, c, IF Quiet THEN "user" ELSE "other")

\* Commands: "workspace ws" and "kill"
Command == pc = Idle /\ acts.commands < MaxCommands /\ acts' = [acts EXCEPT !.commands = @ + 1]
           /\ ghost' = [ghost EXCEPT !.raced = @ \/ \E e \in ToSet(x.events) : e.type = "focus" /\ e.of \in Windows]
           /\ UNCHANGED <<x, pc>>
CmdShow(ws) == Command /\ ws # i3.shown /\ Renders(ShowSpace(i3, ws))
CmdKill == Command /\ Focused(i3) # NoCon /\ i3.cons[Focused(i3)].holds
           /\ Writes(i3, <<[op |-> "kill", w |-> Focused(i3)[1]]>>)

XNext ==
    \/ HandleUnmapNotify \/ HandleFocusIn \/ HandleEnterNotify \/ HandleMapRequest \/ SecondsPass
    \/ ManageAsks \/ ManageListens \/ (\E ws \in Boards : ManageReparents(ws)) \/ ManageFinishes \/ Synced
    \/ Serve
    \/ \E w \in Windows : ClientMaps(w) \/ ClientUnmaps(w) \/ ClientDestroys(w) \/ ClientFocuses(w)
    \/ \E c \in Frames : UserEnters(c)
    \/ \E ws \in Boards : CmdShow(ws)
    \/ CmdKill

XSpec == XInit /\ [][XNext]_xVars

----------------------------------------------------------------------------
\* The counter of unmaps to ignore keeps to its width, the focus order holds each
\* container once, and i3 waits only for what manage_window and the handlers ask.
XTypeOK ==
    /\ DOMAIN i3.cons \subseteq Frames /\ \A c \in DOMAIN i3.cons : i3.cons[c].ignore \in 0 .. 255
    /\ ToSet(i3.order) = DOMAIN i3.cons /\ Len(i3.order) = Cardinality(DOMAIN i3.cons)
    /\ i3.fid \in Windows \cup Frames \cup {Ewmh, NoBody}
    /\ pc.at \in {"idle", "sync", "attributes", "geometry", "mask", "reparent"}

\* Once everything is processed, no container is left around a window that went away:
\* counting ahead (x.c:1116, 1365) does not swallow a client's unmap, whatever overtook it.
\* Not so when i3's masks were off at that moment (deaf), nor for sticky groups.
GoneWindowsAreClosed ==
    Quiet => \A w \in Windows \ Sticky : ConOf(i3, w) # {} /\ w \in ghost.gone => w \in ghost.deaf

\* Once everything is processed, the server's input focus is where the tree says, although
\* x_push_changes skips the request when focused_id has not changed: handle_focus_in and
\* x_con_kill forget focused_id whenever the server may have moved the focus.
FocusAgrees ==
    Quiet /\ ~ghost.raced /\ Target(i3, NoCon).to \notin ghost.gone =>
        x.focus = IF Target(i3, NoCon).mapped THEN Target(i3, NoCon).to ELSE Ewmh

\* Once everything is processed, tree and server agree on the windows that exist and
\* on the input focus, whatever arrived in between (handle_unmap_notify_event,
\* x_push_node, x_push_changes).
WindowsInStep == XTypeOK /\ GoneWindowsAreClosed /\ FocusAgrees

\* An EnterNotify that follows from a window going away never moves the focus, unless i3
\* takes more than five seconds to read it, and one that the user causes always does:
\* ignore_events (handlers.c:37) is neither too short nor too long.
TooLate == \E e \in Current.ignoring : e.expired
EntersAreTheUsers ==
    [][HandleEnterNotify =>
           /\ Event.by = "nobody" => Focused(i3') = Focused(i3) \/ TooLate
           /\ Event.by = "user" /\ Event.of \in DOMAIN i3.cons => Focused(i3') = Event.of]_xVars
=============================================================================
