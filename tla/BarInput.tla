------------------------------ MODULE BarInput ------------------------------
(***************************************************************************)
(* What i3bar reads from its two children. A line is written in pieces, a read *)
(* takes all that is in the pipe, and a child may be killed and started again   *)
(* in the middle of a line. The status command speaks JSON, whose parser takes   *)
(* pieces as they come; lines of the workspace command are put together by hand. *)
(* A text is a sequence of pieces [child, line, last].                        *)
(***************************************************************************)
EXTENDS Integers, Sequences, SequencesExt

CONSTANTS MaxLines     \* bounds the lines of a command, and how often it is started

VARIABLES pipe,        \* per command, pieces not yet read
          run,         \* per command, how often it was started
          line,        \* per command, the line it writes
          urgentLine,  \* the line being written has an urgent block
          statusBuffer, statuslineHead,   \* the parser's blocks, and those shown
          hasUrgent, parsed,              \* parser_context.has_urgent, a line was drawn
          pendingLine, wsLastJson         \* of the workspace command
inputVars == <<pipe, run, line, urgentLine, statusBuffer, statuslineHead, hasUrgent, parsed, pendingLine, wsLastJson>>

Which == {"status", "workspaces"}

\* get_buffer: all that was written
GetBuffer(which) == pipe[which]
Emptied(which) == [pipe EXCEPT ![which] = <<>>]

\* stdin_start_array, stdin_end_map, stdin_end_array: a new line empties the
\* buffer, its end shows the buffer.
ParsePiece(a, piece) ==
    LET begun == IF a.open THEN a.buffer ELSE <<>>
        buffer == Append(begun, piece)
    IN [buffer |-> buffer, open |-> ~piece.last, shown |-> IF piece.last THEN buffer ELSE a.shown,
        urgent |-> a.urgent \/ piece.urgent, drawn |-> a.drawn \/ piece.last]

Open(buffer) == buffer # <<>> /\ ~Last(buffer).last

\* stdin_io_cb with read_json_input; has_urgent is not taken back.
ReadStatus ==
    /\ pipe["status"] # <<>>
    /\ pipe' = Emptied("status")
    /\ LET a == FoldLeft(ParsePiece,
                        [buffer |-> statusBuffer, open |-> Open(statusBuffer), shown |-> statuslineHead,
                         urgent |-> hasUrgent, drawn |-> FALSE],
                        GetBuffer("status"))
       IN statusBuffer' = a.buffer /\ statuslineHead' = a.shown /\ hasUrgent' = a.urgent /\ parsed' = a.drawn
    /\ UNCHANGED <<run, line, urgentLine, pendingLine, wsLastJson>>

\* The strings between newlines: each is appended to what is pending, and parsed
\* if a newline follows.
SplitPiece(a, piece) ==
    LET text == Append(a.pending, piece)
    IN IF piece.last THEN [pending |-> <<>>, json |-> text] ELSE [a EXCEPT !.pending = text]

\* mutant: the last string of a read is parsed though no newline follows
ReadWorkspaces_NoPending ==
    /\ pipe["workspaces"] # <<>>
    /\ pipe' = Emptied("workspaces")
    /\ pendingLine' = <<>> /\ wsLastJson' = <<Last(GetBuffer("workspaces"))>>
    /\ UNCHANGED <<run, line, urgentLine, statusBuffer, statuslineHead, hasUrgent, parsed>>
\* ws_stdin_io_cb
ReadWorkspaces ==
    /\ pipe["workspaces"] # <<>>
    /\ pipe' = Emptied("workspaces")
    /\ LET a == FoldLeft(SplitPiece,
                        [pending |-> pendingLine, json |-> wsLastJson], GetBuffer("workspaces"))
       IN pendingLine' = a.pending /\ wsLastJson' = a.json
    /\ UNCHANGED <<run, line, urgentLine, statusBuffer, statuslineHead, hasUrgent, parsed>>

\* kill_and_wait, cleanup and start_child, start_ws_child: what is pending goes,
\* the parser is new, and what the killed child wrote is never read.
RestartCommand(which) ==
    /\ run[which] < MaxLines
    /\ run' = [run EXCEPT ![which] = @ + 1]
    /\ pipe' = Emptied(which)
    /\ line' = [line EXCEPT ![which] = [n |-> 1, open |-> FALSE]]
    /\ urgentLine' = IF which = "status" THEN FALSE ELSE urgentLine
    /\ statusBuffer' = IF which = "status" THEN <<>> ELSE statusBuffer
    /\ pendingLine' = IF which = "workspaces" THEN <<>> ELSE pendingLine
    /\ UNCHANGED <<statuslineHead, hasUrgent, parsed, wsLastJson>>

\* A child writes a line in one piece or two.
WritePiece(which, last, urgent) ==
    /\ line[which].n <= MaxLines
    /\ line[which].open => last
    /\ LET isUrgent == IF line[which].open /\ which = "status" THEN urgentLine ELSE urgent
       IN /\ pipe' = [pipe EXCEPT ![which] = Append(@, [child |-> run[which], line |-> line[which].n,
                                                        last |-> last, urgent |-> isUrgent])]
          /\ urgentLine' = IF which = "status" THEN isUrgent ELSE urgentLine
    /\ line' = [line EXCEPT ![which] = IF last THEN [n |-> @.n + 1, open |-> FALSE] ELSE [@ EXCEPT !.open = TRUE]]
    /\ UNCHANGED <<run, statusBuffer, statuslineHead, hasUrgent, parsed, pendingLine, wsLastJson>>

InputInit ==
    /\ pipe = [which \in Which |-> <<>>]
    /\ run = [which \in Which |-> 1]
    /\ line = [which \in Which |-> [n |-> 1, open |-> FALSE]]
    /\ urgentLine = FALSE /\ hasUrgent = FALSE /\ parsed = FALSE
    /\ statusBuffer = <<>> /\ statuslineHead = <<>> /\ pendingLine = <<>> /\ wsLastJson = <<>>

InputNext ==
    \/ ReadStatus \/ ReadWorkspaces
    \/ \E which \in Which :
          \/ RestartCommand(which)
          \/ \E last, urgent \in BOOLEAN : (urgent => which = "status") /\ WritePiece(which, last, urgent)
InputSpec == InputInit /\ [][InputNext]_inputVars

----------------------------------------------------------------------------
Whole(text) ==
    /\ Last(text).last
    /\ \A i \in 1..(Len(text) - 1) : ~text[i].last /\ text[i].line = Last(text).line /\ text[i].child = Last(text).child

\* Whatever the pieces they arrived in, and across restarts of the commands, the
\* blocks and the workspaces shown are those of one whole line (ws_stdin_io_cb,
\* stdin_end_array).
LinesAreWhole ==
    /\ statuslineHead # <<>> => Whole(statuslineHead)
    /\ wsLastJson # <<>> => Whole(wsLastJson)
=============================================================================
