------------------------------- MODULE MC_Ipc -------------------------------
(***************************************************************************)
(* Instances for TLC of both ends of IPC: the server in i3, with a client    *)
(* that watches the tree, runs commands and restarts i3 and one that          *)
(* synchronises by ticks; and i3bar, with two outputs and reloads between     *)
(* docked and hidden bars and between commands.  The tray and what the         *)
(* commands write do not touch the rest of i3bar.  Each behaviour is about      *)
(* one of the four (part).                                                       *)
(***************************************************************************)
EXTENDS IpcServer, I3bar, BarTray, BarInput

CONSTANTS c1, c2, WhichParts
VARIABLE part

AsksOfClients ==
    [c \in {c1, c2} |->
        IF c = c1 THEN {"subscribe_tree", "run_command", "slow", "restart"}
        ELSE {"subscribe_tick", "subscribe_broken", "send_tick", "exit"}]

Config(display, shown, command, wsCommand) ==
    [display |-> display, shown |-> shown, command |-> command, wsCommand |-> wsCommand, buttons |-> TRUE]
BarConfigs == {Config("dock", FALSE, "s1", NoCommand), Config("hide", FALSE, "s2", "w1")}

\* a bound: two changes in i3, or one and something that the user or a child does
TwoTurns == changes' + inputs' <= 2

\* a bound: there are two requests, or three when the first client subscribes and
\* runs a command with two of them
RequestsOf(c) == Range(ask[c]) \cup Range(asked[c])
ThreeWithCommand == Requests' < 3 \/ {"subscribe_tree", "run_command"} \subseteq RequestsOf(c1)'

vars == <<ipcVars, barVars, trayVars, inputVars, part>>
\* a bound: i3bar starts docked, and a reload may hide it
StartsDocked == i3.config.display = "dock"
Init == part \in WhichParts /\ IpcInit /\ BarInit /\ TrayInit /\ InputInit /\ StartsDocked
Next ==
    /\ UNCHANGED part
    /\ \/ part = "server" /\ IpcNext /\ ThreeWithCommand /\ UNCHANGED <<barVars, trayVars, inputVars>>
       \/ part = "bar" /\ BarNext /\ TwoTurns /\ UNCHANGED <<ipcVars, trayVars, inputVars>>
       \/ part = "tray" /\ TrayNext /\ UNCHANGED <<ipcVars, barVars, inputVars>>
       \/ part = "input" /\ InputNext /\ UNCHANGED <<ipcVars, barVars, trayVars>>

\* IpcServer's fairness: libev serves every ready descriptor and every timer; a client
\* writes the payload of a request it began.  Nobody has to read.
Serves(A) == part = "server" /\ A /\ UNCHANGED <<barVars, trayVars, inputVars, part>>
FairSpec ==
    /\ Init /\ [][Next]_vars
    /\ WF_vars(Serves(StartAgain))
    /\ \A c \in Clients :
          /\ WF_vars(Serves(Accept(c))) /\ WF_vars(Serves(ReceiveMessage(c)))
          /\ WF_vars(Serves(ReceivePayload(c))) /\ WF_vars(Serves(ReceiveEof(c)))
          /\ WF_vars(Serves(Writeable(c))) /\ WF_vars(Serves(Timeout(c)))
=============================================================================
