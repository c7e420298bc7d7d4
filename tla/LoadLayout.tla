----------------------------- MODULE LoadLayout -----------------------------
(***************************************************************************)
(* tree_append_json (load_layout.c): yajl reads a layout and calls back for   *)
(* every piece; the callbacks build containers from flags, the last key and the  *)
(* node at hand, all of them static variables.  Clients name a file with the       *)
(* command append_layout, and i3 its own tree when it restarts.                      *)
(***************************************************************************)
EXTENDS Integers, Sequences, SequencesExt, FiniteSets

CONSTANTS Root,         \* the container the layout is appended to
          Containers,         \* containers that can be made
          Nobody,
          MaxFiles,     \* bound: layouts that are appended
          MaxTokens     \* bounds the pieces of all layouts together

ASSUME LayoutAssumption == Root \notin Containers /\ Nobody \notin Containers \cup {Root}

VARIABLES json,         \* yajl: on, the open maps and arrays, pieces, files; bad: this one was cut
                        \* or rejected; workspaces: what it contains (json_determine_content)
          key,          \* last_key
          flags,        \* the parsing_ flags that are set
          node,         \* json_node
          incomplete,
          marks,        \* pending marks: the containers that shall have them
          empty,        \* swallow_is_empty
          parent,       \* parent[c], Nobody for one that is not there
          attached,     \* containers in the lists of their parents
          swallows,     \* the containers that have criteria
          marked,       \* the containers that have got a mark
          wrote,        \* the containers in whose map a mark was written
          fate          \* history: what was attached before this file, what files that were cut
                        \* left incomplete, what was freed, and which marks were forgotten

layoutVars == <<json, key, flags, node, incomplete, marks, empty, parent, attached, swallows, marked, wrote, fate>>

Arrays == {"nodes", "floating_nodes", "swallows", "marks", "focus"}
RectFlags == {"rect", "geometry", "gaps"}
Keys == Arrays \cup RectFlags \cup {"class", "name"}

Live == {c \in Containers : parent[c] # Nobody}
\* bound: the memory of a freed container is not used again
Unused == Containers \ (Live \cup fate.freed)
NewCon == CHOOSE c \in Unused : TRUE
Inside(k) == json.on /\ json.open # <<>> /\ Last(json.open).kind = k
Asks(k) == Inside("map") /\ Last(json.open).value = k   \* a map that waits for a key, or for the value of one
\* json_validate has accepted the file: what comes is JSON.  A value ends the wait for it.
Piece(open) == json.n < MaxTokens /\ json' = [json EXCEPT !.open = open, !.n = @ + 1]
Done(open) == IF open # <<>> /\ Last(open).kind = "map" THEN [open EXCEPT ![Len(open)].value = FALSE] ELSE open

\* json_determine_content and tree_append_json.  The first leaves its last key behind, and
\* forgets the marks that a rejected file has left pending if it comes to the key marks.
Begin ==
    /\ ~json.on /\ json.files < MaxFiles
    /\ \E ws \in BOOLEAN :
         json' = [json EXCEPT !.on = TRUE, !.files = @ + 1, !.workspaces = ws, !.bad = FALSE]
    /\ node' = Root /\ incomplete' = 0 /\ flags' = {} /\ key' \in {"name", "nodes", "marks"}
    /\ \E forgets \in BOOLEAN :
         /\ marks' = IF forgets THEN {} ELSE marks
         /\ fate' = [fate EXCEPT !.before = attached, !.lost = IF forgets THEN @ \cup marks ELSE @]
    /\ UNCHANGED <<empty, parent, attached, swallows, marked, wrote>>

\* The node at hand and the containers around it that are not complete
\* mutant: only the node at hand
Incomplete_Innermost == IF incomplete = 0 THEN {} ELSE {node}
Incomplete ==
    LET around[n \in 1 .. incomplete] == IF n = 1 THEN node ELSE parent[around[n - 1]]
    IN {around[n] : n \in 1 .. incomplete}

\* The file is over; yajl_parse does not mind one that is cut (yajl_complete_parse would)
End ==
    /\ json.on
    /\ json' = [json EXCEPT !.on = FALSE, !.open = <<>>, !.bad = json.open # <<>>]
    /\ fate' = [fate EXCEPT !.left = @ \cup Incomplete]
    /\ UNCHANGED <<key, flags, node, incomplete, marks, empty, parent, attached, swallows, marked, wrote>>

\* json_key: the key marks forgets the marks that wait, those of a container around this one
\* too.  floating_nodes are written in a workspace.
Key(k) ==
    /\ Asks(FALSE) /\ Piece([json.open EXCEPT ![Len(json.open)].value = TRUE])
    /\ IF "swallows" \in flags THEN k = "class" ELSE flags \cap RectFlags = {} /\ k # "class"
    /\ k = "floating_nodes" => json.workspaces /\ incomplete = 1
    /\ key' = k /\ flags' = IF k \in {"swallows", "marks", "focus"} \cup RectFlags THEN flags \cup {k} ELSE flags
    /\ IF k = "marks" THEN marks' = {} /\ fate' = [fate EXCEPT !.lost = @ \cup marks]
                      ELSE UNCHANGED <<marks, fate>>
    /\ UNCHANGED <<node, incomplete, empty, parent, attached, swallows, marked, wrote>>

\* json_start_map: a criterion, a rectangle, or a new container.  After the key
\* floating_nodes its parent is the workspace of the node at hand, which is that node.
StartMap ==
    /\ json.on /\ (json.open = <<>> \/ (Inside("array") /\ flags \cap {"marks", "focus"} = {}) \/ (Asks(TRUE) /\ key \in RectFlags))
    /\ Piece(Append(json.open, [kind |-> "map", value |-> FALSE]))
    /\ IF "swallows" \in flags THEN swallows' = swallows \cup {node} /\ empty' = TRUE ELSE UNCHANGED <<swallows, empty>>
    /\ IF flags \cap ({"swallows"} \cup RectFlags) # {} THEN UNCHANGED <<parent, node, incomplete>>
       ELSE /\ Unused # {} /\ node' = NewCon /\ incomplete' = incomplete + 1
            /\ parent' = [parent EXCEPT ![NewCon] = node]
    /\ UNCHANGED <<key, flags, marks, attached, marked, wrote, fate>>

\* json_end_map: all marks that wait are given, and the container is attached.  Criteria of
\* a split container are dropped.
EndMap ==
    /\ Asks(FALSE) /\ ~("swallows" \in flags /\ empty) /\ Piece(Done(Front(json.open)))
    /\ IF flags \cap (RectFlags \cup {"swallows"}) # {}
       THEN UNCHANGED <<node, incomplete, marks, marked, attached, swallows>>
       ELSE /\ marked' = marked \cup marks /\ marks' = {}
            /\ attached' = attached \cup {node}
            /\ swallows' = IF \E c \in attached : parent[c] = node THEN swallows \ {node} ELSE swallows
            /\ node' = parent[node] /\ incomplete' = incomplete - 1
    /\ flags' = flags \ RectFlags
    /\ UNCHANGED <<key, empty, parent, wrote, fate>>

\* json_string: a mark, a criterion, a name
String ==
    /\ (Inside("array") /\ flags \cap {"marks", "focus"} # {}) \/ (Asks(TRUE) /\ key \in {"class", "name"})
    /\ Piece(Done(json.open))
    /\ empty' = IF "swallows" \in flags THEN FALSE ELSE empty
    /\ IF "marks" \in flags THEN marks' = marks \cup {node} /\ wrote' = wrote \cup {node}
       ELSE UNCHANGED <<marks, wrote>>
    /\ UNCHANGED <<key, flags, node, incomplete, parent, attached, swallows, marked, fate>>

\* Nothing is called at the start of an array; json_end_array
StartArray ==
    /\ Asks(TRUE) /\ key \in Arrays /\ Piece(Append(json.open, [kind |-> "array", value |-> FALSE]))
    /\ UNCHANGED <<key, flags, node, incomplete, marks, empty, parent, attached, swallows, marked, wrote, fate>>
EndArray ==
    /\ Inside("array") /\ Piece(Done(Front(json.open))) /\ flags' = flags \ {"swallows", "marks", "focus"}
    /\ UNCHANGED <<key, node, incomplete, marks, empty, parent, attached, swallows, marked, wrote, fate>>

\* Empty criteria: json_end_map gives up, and tree_append_json frees what is incomplete
\* (con_free: the criteria with it, not what is attached to it)
GiveUp ==
    /\ Asks(FALSE) /\ "swallows" \in flags /\ empty
    /\ json' = [json EXCEPT !.on = FALSE, !.open = <<>>, !.bad = TRUE]
    /\ parent' = [c \in Containers |-> IF c \in Incomplete THEN Nobody ELSE parent[c]]
    /\ swallows' = swallows \ Incomplete /\ incomplete' = 0 /\ node' = Root
    /\ fate' = [fate EXCEPT !.freed = @ \cup Incomplete]
    /\ UNCHANGED <<key, flags, marks, empty, attached, marked, wrote>>

LayoutInit ==
    /\ json = [on |-> FALSE, workspaces |-> FALSE, open |-> <<>>, n |-> 0, files |-> 0, bad |-> FALSE] /\ key = "name" /\ flags = {}
    /\ node = Root /\ incomplete = 0 /\ marks = {} /\ empty = FALSE /\ parent = [c \in Containers |-> Nobody]
    /\ attached = {} /\ swallows = {} /\ marked = {} /\ wrote = {}
    /\ fate = [before |-> {}, left |-> {}, freed |-> {}, lost |-> {}]
LayoutNext == Begin \/ End \/ StartMap \/ EndMap \/ String \/ StartArray \/ EndArray \/ GiveUp \/ \E k \in Keys : Key(k)

----------------------------------------------------------------------------
\* When a layout has been read to its end, whatever was cut or rejected before it, all its
\* containers are attached within it, and no flag is left for the next layout.
ReadToTheEnd ==
    /\ incomplete = 0 /\ flags = {} /\ node = Root
    /\ \A c \in attached \ fate.before : parent[c] \in (attached \ fate.before) \cup {Root}
\* A layout that is rejected half way takes its incomplete containers with it and no other
\* (load_layout.c:746-754); only one that is cut leaves some.
NothingIncomplete == Live = attached \cup fate.left /\ attached \cap fate.left = {}
\* The marks are at the containers they are written in ("marking json_node would end up
\* marking the latest child", load_layout.c:36), except that the next key "marks" forgets
\* those that still wait; and they wait for none but the containers of a bad file.
MarksArrive ==
    /\ marked \subseteq wrote /\ wrote \ fate.lost \subseteq marked \cup marks
    /\ marks \subseteq fate.left \cup fate.freed
LayoutsAreWhole == ~json.on => NothingIncomplete /\ MarksArrive /\ (json.bad \/ ReadToTheEnd)
=============================================================================
