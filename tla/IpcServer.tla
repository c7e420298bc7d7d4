------------------------------ MODULE IpcServer ------------------------------
(***************************************************************************)
(* The IPC server (ipc.c) with its clients: requests that are read from the  *)
(* sockets, replies and events that are written to them through a buffer per *)
(* client, the kill timer of a client that does not read, and the restart in *)
(* place that carries one connection into the new process.                   *)
(*                                                                         *)
(* A message has two pieces, so that a short write can cut it; a request comes *)
(* whole, except the request "slow", whose payload its client writes later.     *)
(* What a message says is kept as the versions of the parts of i3's state it    *)
(* was made from.                                                            *)
(***************************************************************************)
EXTENDS Integers, Sequences, FiniteSets, SequencesExt

CONSTANTS Clients,      \* the connections
          None,         \* no client
          Asks,         \* the requests that each client may make
          Room,         \* how many pieces the socket of a client holds
          Events,       \* the events of changes that do not come from a request
          MaxAsks,      \* bounds the requests of all clients
          MaxVersion    \* bounds the changes of i3's state

VARIABLES up,        \* "running", "exec" between the two processes, "exited"
          carried,   \* the client whose descriptor survives the exec
          busy,      \* the client whose payload the process waits for
          clients,   \* all_clients
          conn,      \* what the process and the kernel keep of each connection
          world,     \* versions of the parts of i3's state
          ask,       \* the requests of each client that i3 has not read
          asked,     \* the requests of each client that i3 has handled
          got        \* the pieces each client has read

ipcVars == <<up, carried, busy, clients, conn, world, ask, asked, got>>

Parts == {"tree", "outputs", "config", "mode"}

----------------------------------------------------------------------------
(* Messages and connections *)

\* What the dumps of i3's structures tell: the version of what they were made from
NodeOf(w) == [tree |-> w.tree]
OutputsOf(w) == [outputs |-> w.outputs, tree |-> w.tree]
BarConfigOf(w) == [config |-> w.config]
BindingOf(w) == [config |-> w.config]
ModeOf(w) == [mode |-> w.mode]
Nothing == [p \in {} |-> 0]

Message(kind, at) == [kind |-> kind, at |-> at]
Pieces(msg) == <<[msg |-> msg, part |-> 1], [msg |-> msg, part |-> 2]>>

\* a connection: i3's client structure, the write side of its socket and the link
NoConn == [events |-> {}, firstTick |-> FALSE, buffer |-> <<>>, writing |-> FALSE,
           timer |-> FALSE, sock |-> <<>>, link |-> "none"]

\* ipc_push_pending: what fits is written; with a rest, the write callback and
\* the kill timer run.  A peer that hung up makes the write fail.
Written(k) == IF Room - Len(k.sock) < Len(k.buffer) THEN Room - Len(k.sock) ELSE Len(k.buffer)
\* mutant: the rest of a short write starts one piece too late
PushPending_ShiftsTooFar(k) ==
    IF k.link = "hup" THEN k
    ELSE LET rest == SubSeq(k.buffer, Written(k) + 2, Len(k.buffer))
         IN [k EXCEPT !.sock = @ \o SubSeq(k.buffer, 1, Written(k)), !.buffer = rest,
                      !.writing = rest # <<>>, !.timer = rest # <<>>]
PushPending(k) ==
    IF k.link = "hup" THEN k
    ELSE LET rest == SubSeq(k.buffer, Written(k) + 1, Len(k.buffer))
         IN [k EXCEPT !.sock = @ \o SubSeq(k.buffer, 1, Written(k)), !.buffer = rest,
                      !.writing = rest # <<>>, !.timer = rest # <<>>]

\* mutant: a full socket is not noticed, the header of the message is written on its own
SendTo_HeaderFirst(k, msg) ==
    IF k.buffer = <<>> /\ Len(k.sock) = Room
    THEN PushPending([k EXCEPT !.buffer = Tail(Pieces(msg))])
    ELSE LET longer == [k EXCEPT !.buffer = @ \o Pieces(msg)]
         IN IF k.buffer = <<>> THEN PushPending(longer) ELSE longer
\* ipc_send_client_message: only an empty buffer is pushed at once
SendTo(k, msg) ==
    LET longer == [k EXCEPT !.buffer = @ \o Pieces(msg)]
    IN IF k.buffer = <<>> THEN PushPending(longer) ELSE longer

\* ipc_send_event: to each client that subscribed to it
SendEvent(ks, event, msg) ==
    [c \in Clients |-> IF c \in clients /\ event \in ks[c].events THEN SendTo(ks[c], msg) ELSE ks[c]]

\* free_ipc_client; a peer that is still there reads what the socket holds
Freed(k, kept) ==
    CASE kept -> [NoConn EXCEPT !.sock = k.sock, !.link = k.link]
      [] ~kept /\ k.link = "hup" -> [NoConn EXCEPT !.link = "closed"]
      [] OTHER -> [NoConn EXCEPT !.sock = k.sock, !.link = "eof"]

FreeClient(c) ==
    /\ clients' = clients \ {c}
    /\ conn' = [conn EXCEPT ![c] = Freed(@, FALSE)]

----------------------------------------------------------------------------
(* Events: which part of the state a change of i3 tells of *)

EventOf == [workspace |-> "tree", window |-> "tree", output |-> "outputs",
            mode |-> "mode", binding |-> "mode", barconfig_update |-> "config"]

\* in state w of the world, after the change
WorkspaceEvent(w) == Message("workspace", NodeOf(w))
WindowEvent(w) == Message("window", NodeOf(w))
OutputEvent(w) == Message("output", Nothing)
ModeEvent(w) == Message("mode", ModeOf(w))
BindingEvent(w) == Message("binding", [config |-> w.config, mode |-> w.mode])
BarconfigUpdateEvent(w) == Message("barconfig_update", BarConfigOf(w))
TickEvent == Message("tick", Nothing)
FirstTick == Message("first_tick", Nothing)
ShutdownEvent(reason) == Message(reason, Nothing)

EventMessage(w) ==
    [workspace |-> WorkspaceEvent(w), window |-> WindowEvent(w), output |-> OutputEvent(w),
     mode |-> ModeEvent(w), binding |-> BindingEvent(w), barconfig_update |-> BarconfigUpdateEvent(w)]

\* Something outside IPC changes i3's state: an X event, a key, a timer.  The
\* event is sent by the same handler, after the change.
StateChanges(event) ==
    /\ up = "running" /\ busy = None
    /\ world[EventOf[event]] < MaxVersion
    /\ world' = [world EXCEPT ![EventOf[event]] = @ + 1]
    /\ conn' = SendEvent(conn, event, EventMessage(world')[event])
    /\ UNCHANGED <<up, carried, busy, clients, ask, asked, got>>

\* ipc_shutdown: the event, then every client is cut off and freed but the
\* exempt one, whose structure is freed and whose descriptor stays open
Shutdown(ks, reason, exempt) ==
    LET told == SendEvent(ks, "shutdown", ShutdownEvent(reason))
    IN [c \in Clients |-> IF c \in clients THEN Freed(told[c], c = exempt)
                          ELSE IF told[c].link = "backlog" THEN Freed(told[c], FALSE)
                          ELSE told[c]]

----------------------------------------------------------------------------
(* The handlers: the new connections, given the client and its request *)

Reply(c, msg) == [conn EXCEPT ![c] = SendTo(@, msg)]

GetTree(c) == Reply(c, Message("tree", NodeOf(world)))
GetWorkspaces(c) == Reply(c, Message("workspaces", NodeOf(world)))
GetOutputs(c) == Reply(c, Message("outputs", OutputsOf(world)))
GetMarks(c) == Reply(c, Message("marks", NodeOf(world)))
GetVersion(c) == Reply(c, Message("version", [config |-> world.config]))
GetBarConfig(c) == Reply(c, Message("bar_config", BarConfigOf(world)))
GetBindingModes(c) == Reply(c, Message("binding_modes", BindingOf(world)))
GetConfig(c) == Reply(c, Message("config", [config |-> world.config]))
GetBindingState(c) == Reply(c, Message("binding_state", ModeOf(world)))
GetAiwrStatus(c) == Reply(c, Message("aiwr_status", [config |-> world.config, tree |-> world.tree]))

\* add_subscription runs as the payload is parsed: what stands before the error
\* of a payload that cannot be parsed is subscribed to.
AddSubscriptions(k, events) == [k EXCEPT !.events = @ \cup events]

Subscribe(c, events, parses) ==
    LET added == AddSubscriptions(conn[c], events)
        replied == SendTo(added, Message(IF parses THEN "subscribe" ELSE "subscribe_failed", Nothing))
        first == parses /\ ~added.firstTick /\ "tick" \in added.events
    IN [conn EXCEPT ![c] = IF first THEN SendTo([replied EXCEPT !.firstTick = TRUE], FirstTick)
                           ELSE replied]

\* the event goes out before the reply
SendTick(c) ==
    LET told == SendEvent(conn, "tick", TickEvent)
    IN [told EXCEPT ![c] = SendTo(@, Message("send_tick", Nothing))]

\* sync_respond answers the X client; the reply says whether the payload parsed
Sync(c, parses) == Reply(c, Message(IF parses THEN "sync" ELSE "sync_failed", Nothing))

\* The table of handlers, without the one that runs commands.  Requests of other
\* types are not answered.
Handled(c, request) ==
    CASE request = "get_tree" -> GetTree(c)
      [] request = "get_workspaces" -> GetWorkspaces(c)
      [] request = "get_outputs" -> GetOutputs(c)
      [] request = "get_marks" -> GetMarks(c)
      [] request = "get_version" -> GetVersion(c)
      [] request = "get_bar_config" -> GetBarConfig(c)
      [] request = "get_binding_modes" -> GetBindingModes(c)
      [] request = "get_config" -> GetConfig(c)
      [] request = "get_binding_state" -> GetBindingState(c)
      [] request = "get_aiwr_status" -> GetAiwrStatus(c)
      [] request = "subscribe_tree" -> Subscribe(c, {"workspace", "window", "shutdown"}, TRUE)
      [] request = "subscribe_tick" -> Subscribe(c, {"tick", "output"}, TRUE)
      [] request = "subscribe_broken" -> Subscribe(c, {"tick"}, FALSE)
      [] request = "send_tick" -> SendTick(c)
      [] request = "sync" -> Sync(c, TRUE)
      [] request = "sync_broken" -> Sync(c, FALSE)
      [] request = "unknown_type" -> conn

QuietAsks == {"get_tree", "get_workspaces", "get_outputs", "get_marks", "get_version", "get_bar_config",
              "get_binding_modes", "get_config", "get_binding_state", "get_aiwr_status", "subscribe_tree",
              "subscribe_tick", "subscribe_broken", "send_tick", "sync", "sync_broken", "unknown_type"}
CommandAsks == {"run_command", "reload", "slow", "restart", "exit"}

ASSUME IpcAssumption ==
    /\ Room \in Nat \ {0} /\ MaxVersion \in Nat
    /\ None \notin Clients
    /\ Events \subseteq DOMAIN EventOf
    /\ \A c \in Clients : Asks[c] \subseteq QuietAsks \cup CommandAsks

\* Requests that leave i3's state alone
AnswerQuietly(c, request) ==
    /\ request \in QuietAsks
    /\ conn' = Handled(c, request)
    /\ UNCHANGED <<up, carried, clients, world>>

\* A command runs, with the events of what it changes, before its reply.
RunCommand(c, request) ==
    /\ request \in {"run_command", "reload"}
    /\ LET event == IF request = "reload" THEN "barconfig_update" ELSE "workspace"
           part == EventOf[event]
       IN IF world[part] < MaxVersion
          THEN /\ world' = [world EXCEPT ![part] = @ + 1]
               /\ LET told == SendEvent(conn, event, EventMessage(world')[event])
                  IN conn' = [told EXCEPT ![c] = SendTo(@, Message("command", Nothing))]
          ELSE /\ conn' = Reply(c, Message("command", Nothing))
               /\ UNCHANGED world
    /\ UNCHANGED <<up, carried, clients>>

\* restart: the client's descriptor is kept over the exec, its buffer and its
\* subscriptions are not; what follows in the command is never run.
Restart(c, request) ==
    /\ request = "restart"
    /\ up' = "exec" /\ carried' = c
    /\ conn' = Shutdown(conn, "restart", c)
    /\ clients' = {}
    /\ UNCHANGED world

Exit(c, request) ==
    /\ request = "exit"
    /\ up' = "exited"
    /\ conn' = Shutdown(conn, "exit", None)
    /\ clients' = {}
    /\ UNCHANGED <<carried, world>>

Handle(c, request) ==
    \/ AnswerQuietly(c, request) \/ RunCommand(c, request)
    \/ Restart(c, request) \/ Exit(c, request)

----------------------------------------------------------------------------
(* The callbacks of the event loop *)

\* ipc_new_client
Accept(c) ==
    /\ up = "running" /\ busy = None /\ conn[c].link = "backlog"
    /\ clients' = clients \cup {c}
    /\ conn' = [conn EXCEPT ![c].link = "open"]
    /\ UNCHANGED <<up, carried, busy, world, ask, asked, got>>

\* ipc_receive_message with the whole request there
ReceiveMessage(c) ==
    /\ up = "running" /\ busy = None /\ c \in clients /\ ask[c] # <<>>
    /\ ask' = [ask EXCEPT ![c] = Tail(@)]
    /\ asked' = [asked EXCEPT ![c] = Append(@, Head(ask[c]))]
    /\ IF Head(ask[c]) = "slow"
       THEN busy' = c /\ UNCHANGED <<up, carried, clients, conn, world>>
       ELSE Handle(c, Head(ask[c])) /\ UNCHANGED busy
    /\ UNCHANGED got

\* A header came without its payload: ipc_recv_message tries to read it again and
\* again, and nothing else runs until the client writes it.
ReceivePayload(c) ==
    /\ up = "running" /\ busy = c /\ conn[c].link = "open"
    /\ Handle(c, "run_command")
    /\ busy' = None
    /\ UNCHANGED <<ask, asked, got>>

\* EOF, before a header or instead of a payload
ReceiveEof(c) ==
    /\ up = "running" /\ c \in clients /\ conn[c].link = "hup"
    /\ busy = c \/ (busy = None /\ ask[c] = <<>>)
    /\ FreeClient(c)
    /\ busy' = None
    /\ UNCHANGED <<up, carried, world, ask, asked, got>>

\* ipc_socket_writeable_cb
Writeable(c) ==
    /\ up = "running" /\ busy = None /\ c \in clients
    /\ conn[c].writing /\ Len(conn[c].sock) < Room /\ conn[c].link = "open"
    /\ conn' = [conn EXCEPT ![c] = PushPending(@)]
    /\ UNCHANGED <<up, carried, busy, clients, world, ask, asked, got>>

\* ipc_client_timeout has the lowest priority: it is not called while the socket
\* can be written or read.
\* mutant: the timeout is polite and waits until the socket can be written
Timeout_Polite(c) ==
    /\ up = "running" /\ busy = None /\ c \in clients
    /\ conn[c].timer /\ Len(conn[c].sock) < Room /\ ~conn[c].writing
    /\ FreeClient(c)
    /\ UNCHANGED <<up, carried, busy, world, ask, asked, got>>
Timeout(c) ==
    /\ up = "running" /\ busy = None /\ c \in clients
    /\ conn[c].timer /\ Len(conn[c].sock) = Room /\ ask[c] = <<>>
    /\ FreeClient(c)
    /\ UNCHANGED <<up, carried, busy, world, ask, asked, got>>

\* main of the new process: the carried descriptor becomes a client again, and
\* its reply is the first thing written to it.
StartAgain ==
    /\ up = "exec"
    /\ up' = "running"
    /\ clients' = {carried}
    /\ conn' = [conn EXCEPT ![carried] = PushPending(SendTo(@, Message("command", Nothing)))]
    /\ UNCHANGED <<carried, busy, world, ask, asked, got>>

----------------------------------------------------------------------------
(* The clients *)

Connect(c) ==
    /\ up = "running" /\ conn[c].link = "none"
    /\ conn' = [conn EXCEPT ![c].link = "backlog"]
    /\ UNCHANGED <<up, carried, busy, clients, world, ask, asked, got>>

Requests == FoldSet(LAMBDA c, n : n + Len(ask[c]) + Len(asked[c]), 0, Clients)
Ask(c, request) ==
    /\ conn[c].link \in {"backlog", "open"}
    /\ Requests < MaxAsks
    /\ ask' = [ask EXCEPT ![c] = Append(@, request)]
    /\ UNCHANGED <<up, carried, busy, clients, conn, world, asked, got>>

Read(c) ==
    /\ conn[c].sock # <<>> /\ conn[c].link # "hup"
    /\ got' = [got EXCEPT ![c] = Append(@, Head(conn[c].sock))]
    /\ conn' = [conn EXCEPT ![c].sock = Tail(@)]
    /\ UNCHANGED <<up, carried, busy, clients, world, ask, asked>>

\* The client closes its end: nobody reads what its socket holds.
HangUp(c) ==
    /\ conn[c].link = "open"
    /\ conn' = [conn EXCEPT ![c].link = "hup"]
    /\ UNCHANGED <<up, carried, busy, clients, world, ask, asked, got>>

----------------------------------------------------------------------------
IpcInit ==
    /\ up = "running" /\ carried = None /\ busy = None
    /\ clients = {}
    /\ conn = [c \in Clients |-> NoConn]
    /\ world = [p \in Parts |-> 0]
    /\ ask = [c \in Clients |-> <<>>]
    /\ asked = [c \in Clients |-> <<>>]
    /\ got = [c \in Clients |-> <<>>]

ServerStep(c) ==
    \/ Accept(c) \/ ReceiveMessage(c) \/ ReceivePayload(c) \/ ReceiveEof(c)
    \/ Writeable(c) \/ Timeout(c)

ClientStep(c) ==
    \/ Connect(c) \/ Read(c) \/ HangUp(c)
    \/ \E request \in Asks[c] : Ask(c, request)

IpcNext ==
    \/ \E c \in Clients : ServerStep(c) \/ ClientStep(c)
    \/ StartAgain
    \/ \E event \in Events : StateChanges(event)

IpcSpec == IpcInit /\ [][IpcNext]_ipcVars

\* libev serves every ready descriptor and every timer; a client writes the
\* payload of a request it began.  Nobody has to read.
IpcFairSpec ==
    /\ IpcSpec
    /\ WF_ipcVars(StartAgain)
    /\ \A c \in Clients : /\ WF_ipcVars(Accept(c)) /\ WF_ipcVars(ReceiveMessage(c))
                          /\ WF_ipcVars(ReceivePayload(c)) /\ WF_ipcVars(ReceiveEof(c))
                          /\ WF_ipcVars(Writeable(c)) /\ WF_ipcVars(Timeout(c))

----------------------------------------------------------------------------
(* Properties *)


\* Only clients of the list have structures of the process, and their write
\* callback and kill timer run exactly while their buffer holds something.  A
\* client that hung up keeps what it had until its EOF is read.
IpcTypeOK ==
    /\ up \in {"running", "exec", "exited"}
    /\ carried \in Clients \cup {None} /\ busy \in Clients \cup {None}
    /\ clients \subseteq Clients
    /\ \A c \in Clients :
          /\ Len(conn[c].sock) <= Room
          /\ c \in clients => conn[c].link \in {"open", "hup"}
          /\ c \notin clients => conn[c] = [NoConn EXCEPT !.sock = conn[c].sock, !.link = conn[c].link]
          /\ conn[c].link # "hup" => (conn[c].writing <=> conn[c].buffer # <<>>)
          /\ conn[c].timer <=> conn[c].writing

\* The messages on a connection, from the first one the client read to the last
\* one in the buffer
OnTheWay(c) == conn[c].sock \o conn[c].buffer
Stream(c) == got[c] \o OnTheWay(c)
EventKinds == DOMAIN EventOf \cup {"tick", "first_tick", "restart", "exit"}

\* No restart has left the connection without its buffer and its subscriptions.
NeverCarried(c) == "restart" \notin Range(asked[c])

\* Where the replies on a connection begin, the kinds that requests call for, and
\* the requests that call for one
RepliesOn(s) == {i \in DOMAIN s : s[i].part = 1 /\ s[i].msg.kind \notin EventKinds}
ReplyKind == [get_tree |-> "tree", get_workspaces |-> "workspaces", get_outputs |-> "outputs",
              get_marks |-> "marks", get_version |-> "version", get_bar_config |-> "bar_config",
              get_binding_modes |-> "binding_modes", get_config |-> "config",
              get_binding_state |-> "binding_state", get_aiwr_status |-> "aiwr_status",
              subscribe_tree |-> "subscribe", subscribe_tick |-> "subscribe",
              subscribe_broken |-> "subscribe_failed", slow |-> "command", send_tick |-> "send_tick",
              sync |-> "sync", sync_broken |-> "sync_failed",
              run_command |-> "command", reload |-> "command", restart |-> "command"]
Answerable(requests) == {k \in DOMAIN requests : requests[k] \in DOMAIN ReplyKind}

\* answer takes each reply in the stream s to the request it answers: in their
\* order, with none before it left out
Answers(answer, s, requests) ==
    /\ \A i, j \in RepliesOn(s) : i < j => answer[i] < answer[j]
    /\ \A i \in RepliesOn(s) : s[i].msg.kind = ReplyKind[requests[answer[i]]]
    /\ \A i \in RepliesOn(s), k \in Answerable(requests) :
          k < answer[i] => \E j \in RepliesOn(s) : answer[j] = k

\* docs/ipc: each message causes exactly one reply, in the order of the requests.
\* Of a connection that ended the last replies may be missing, and on one that a
\* restart carried over those that were not written before it.
RepliesInOrder ==
    \A c \in Clients :
        LET s == Stream(c)
        IN NeverCarried(c) =>
              \E answer \in [RepliesOn(s) -> Answerable(asked[c])] :
                 /\ Answers(answer, s, asked[c])
                 /\ c \in clients \ {busy} =>
                       \A k \in Answerable(asked[c]) : \E i \in RepliesOn(s) : answer[i] = k

\* docs/ipc: an event never comes in the middle of another event or reply.  It does
\* to a client that a restart carried over: what was left in its buffer is lost.
MessagesAreWhole ==
    \A c \in Clients :
        LET s == Stream(c)
        IN NeverCarried(c) /\ c \in clients =>
              \A i \in DOMAIN s : /\ s[i].part = 1 <=> i % 2 = 1
                                  /\ s[i].part = 2 => s[i - 1].msg = s[i].msg

\* What a client reads never goes back in time: no reply or event tells an older
\* state of a part of i3 than an earlier one on the connection (docs/ipc: happened-before).
Chronological ==
    \A c \in Clients :
        LET s == Stream(c)
        IN \A i, j \in DOMAIN s : i < j =>
              \A p \in DOMAIN s[i].msg.at \cap DOMAIN s[j].msg.at : s[i].msg.at[p] <= s[j].msg.at[p]

\* A client that was told of its subscription to ticks sees the first tick once,
\* before every other tick, unless i3 began to take a subscription that it then
\* refused; a client that a restart carried over subscribes and is told again.
FirstTickFirst ==
    \A c \in Clients :
        LET s == Stream(c)
            Starts(kind) == {i \in DOMAIN s : s[i].part = 1 /\ s[i].msg.kind = kind}
        IN NeverCarried(c) =>
              /\ Cardinality(Starts("first_tick")) <= 1
              /\ Starts("subscribe_failed") = {} =>
                    \A i \in Starts("tick") : \E j \in Starts("first_tick") : j < i

\* Every client gets one reply per request, in order, whole messages, news in the
\* order in which they happened and the first tick first (ipc_send_client_message,
\* ipc_push_pending, ipc_send_event, ipc_receive_message).
RepliesSound == IpcTypeOK /\ RepliesInOrder /\ MessagesAreWhole /\ Chronological /\ FirstTickFirst

\* Each connection is a stream that is cut at most at its end.
Stream_ == INSTANCE IpcStream WITH linked <- clients, promised <- [c \in Clients |-> Stream(c)],
                                   received <- got
ImplementsStream == Stream_!StreamSpec

\* A buffer that holds something is written or thrown away with its client, even
\* if the client never reads.
EveryBufferDrains == \A c \in Clients : conn[c].buffer # <<>> ~> conn[c].buffer = <<>>
=============================================================================
