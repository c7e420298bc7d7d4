------------------------------ MODULE BarChild ------------------------------
(***************************************************************************)
(* The two processes that i3bar runs, the status command and the workspace   *)
(* command (child.c): starting, the header of the status protocol, stopping  *)
(* and continuing by signals, the end of a process and killing it.           *)
(*                                                                         *)
(* A child is i3bar's structure (pid, the signals, the flag stopped) together *)
(* with the process behind it, which may have exited (exited) and may be       *)
(* suspended (asleep) without i3bar's knowing.                              *)
(***************************************************************************)
EXTENDS Naturals

CONSTANTS NoCommand   \* the command of a child that is not configured

NoChild == [pid |-> FALSE, signals |-> FALSE, stopped |-> FALSE, header |-> "none",
            command |-> NoCommand, exited |-> FALSE, asleep |-> FALSE]

\* status_child_is_alive, ws_child_is_alive: i3bar knows of no exit
IsAlive(c) == c.pid

\* start_child: only the process is new; the signals come with the first line.
Forked(c, command) == [c EXCEPT !.pid = TRUE, !.header = "none", !.command = command, !.exited = FALSE, !.asleep = FALSE]
StartChild(c, command) == IF command = NoCommand THEN c ELSE Forked(c, command)

\* start_ws_child: it may be stopped from the beginning.
StartWsChild(c, command) == IF command = NoCommand THEN c ELSE [Forked(c, command) EXCEPT !.signals = TRUE]

\* cleanup: all of the structure is zeroed
Cleanup(c) == NoChild

StopChild(c) ==
    IF c.signals /\ ~c.stopped THEN [c EXCEPT !.stopped = TRUE, !.asleep = ~c.exited] ELSE c

ContChild(c) ==
    IF IsAlive(c) /\ c.signals /\ c.stopped THEN [c EXCEPT !.stopped = FALSE, !.asleep = FALSE] ELSE c

\* kill_and_wait: a process that sleeps does not act on SIGTERM, and waitpid hangs.
Hangs(c) == IsAlive(c) /\ ~c.exited /\ ContChild(c).asleep
KillAndWait(c) == IF ~IsAlive(c) THEN c ELSE Cleanup(ContChild(c))

\* parse_json_header: a header gives the signals, and anything else is flat text
\* with the signals of the default.
ParseHeader(c, json) == [c EXCEPT !.signals = TRUE, !.header = IF json THEN "json" ELSE "flat"]
=============================================================================
