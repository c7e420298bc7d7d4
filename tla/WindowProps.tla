---------------------------- MODULE WindowProps ----------------------------
(***************************************************************************)
(* What i3 knows of a client's window (window.c) follows the properties that  *)
(* the client changes: manage_window reads them all, later each PropertyNotify   *)
(* makes i3 read the property as it is by then (handlers.c).  After most changes    *)
(* the for_window rules are checked (assignments.c, match.c), whose commands may      *)
(* check them again or reload the configuration.                                        *)
(***************************************************************************)
EXTENDS Integers, Sequences, SequencesExt, FiniteSets

CONSTANTS Windows, Texts,
          Unset,        \* a property that is not there, a field of i3Window that is NULL
          Rules,        \* the A_COMMAND assignments: a sequence of [match, command]
          MaxSets,      \* bounds the changes that clients make
          MaxReloads    \* bounds the reloads of the configuration

Commands == {"floating", "mark", "reload"}
ASSUME RulesAssumption ==
    /\ Len(Rules) \in Nat /\ DOMAIN Rules = 1 .. Len(Rules)
    /\ \A i \in DOMAIN Rules : Rules[i].command \in Commands

VARIABLES x,            \* x[w][p]: the property p of w at the X server
          mapped,       \* the windows that clients have mapped
          notices,      \* events that i3 has not handled: <<w, p, deleted>> for a property,
                        \* <<w, "map">> and <<w, "unmap">>
          rec,          \* i3Window
          phase,        \* "unmanaged", "read", "deaf", "managed": how far manage_window is
          missed,       \* properties whose last change i3 does not hear of, or not in order
          ran,          \* ran_assignments
          generation,   \* of the list of assignments; a reload makes a new one
          stack,        \* the calls of run_assignments under way: [w, at, generation]
          times,        \* how often a rule has run for a window since the last reload
          sets          \* how many changes clients have made

propsVars == <<x, mapped, notices, rec, phase, missed, ran, generation, stack, times, sets>>

Kept == {"name", "legacy", "class", "role", "machine", "type"}    \* an empty one is ignored
Cleared == {"leader", "transient"}                                  \* an empty one clears the field
Props == Kept \cup Cleared \cup {"hints", "motif", "normal"}
Hints == [input : BOOLEAN, urgent : BOOLEAN]
NormalHints == [min : {Unset, 1}, max : {Unset, 1}]
Border == {"normal", "pixel", "none"}
Values(p) == CASE p = "hints" -> Hints [] p = "normal" -> NormalHints
               [] p = "motif" -> Border [] OTHER -> Texts

----------------------------------------------------------------------------
(* window.c *)

Fresh == [name |-> Unset, utf8 |-> FALSE, class |-> Unset, role |-> Unset, machine |-> Unset,
          type |-> Unset, leader |-> Unset, transient |-> Unset, refuses |-> FALSE, urgent |-> FALSE,
          border |-> "normal", min |-> Unset, max |-> Unset, floating |-> FALSE, mark |-> FALSE]

UpdateClass(r, v) == IF v = Unset THEN r ELSE [r EXCEPT !.class = v]
UpdateName(r, v) == IF v = Unset THEN r ELSE [r EXCEPT !.name = v, !.utf8 = TRUE]
UpdateNameLegacy(r, v) == IF v = Unset \/ r.utf8 THEN r ELSE [r EXCEPT !.name = v]
\* mutant: a leader that is deleted stays
UpdateLeader_Kept(r, v) == IF v = Unset THEN r ELSE [r EXCEPT !.leader = v]
UpdateLeader(r, v) == [r EXCEPT !.leader = v]
UpdateTransientFor(r, v) == [r EXCEPT !.transient = v]
UpdateRole(r, v) == IF v = Unset THEN r ELSE [r EXCEPT !.role = v]
UpdateMachine(r, v) == IF v = Unset THEN r ELSE [r EXCEPT !.machine = v]
UpdateType(r, v) == IF v = Unset THEN r ELSE [r EXCEPT !.type = v]
\* WM_HINTS: hints that are gone are not urgent; the input flag stays
UpdateHints(r, v) == IF v = Unset THEN [r EXCEPT !.urgent = FALSE]
                     ELSE [r EXCEPT !.refuses = ~v.input, !.urgent = v.urgent]
\* border_style_from_motif_value, window_update_motif_hints
UpdateMotif(r, v) == IF v = Unset THEN r ELSE [r EXCEPT !.border = v]
\* window_update_normal_hints: the minimum stays when the hints do not give one
UpdateNormalHints(r, v) ==
    IF v = Unset THEN r ELSE [r EXCEPT !.min = IF v.min = Unset THEN @ ELSE v.min, !.max = v.max]

Update(p, r, v) ==
    CASE p = "name" -> UpdateName(r, v)          [] p = "legacy" -> UpdateNameLegacy(r, v)
      [] p = "class" -> UpdateClass(r, v)        [] p = "role" -> UpdateRole(r, v)
      [] p = "machine" -> UpdateMachine(r, v)    [] p = "type" -> UpdateType(r, v)
      [] p = "leader" -> UpdateLeader(r, v)      [] p = "transient" -> UpdateTransientFor(r, v)
      [] p = "hints" -> UpdateHints(r, v)        [] p = "motif" -> UpdateMotif(r, v)
      [] p = "normal" -> UpdateNormalHints(r, v)

----------------------------------------------------------------------------
(* match.c, assignments.c *)

\* match_matches_window: a match is a function from criteria to values.  A text that is
\* NULL is compared as "".
Matches(m, r) ==
    \A c \in DOMAIN m :
        CASE c = "title" -> r.name = m[c]
          [] c = "window_type" -> r.type = m[c]
          [] c = "floating" -> r.floating = m[c]
          [] c = "con_mark" -> r.mark = m[c]
          [] OTHER -> r[c] = m[c]

\* run_assignments: the rules that are left to a call
Left(f) == {i \in f.at .. Len(Rules) : Matches(Rules[i].match, rec[f.w]) /\ i \notin ran[f.w]}
Call(w) == [w |-> w, at |-> 1, generation |-> generation]
\* the call returns at the end of the list, or when the list is a new one
Return ==
    /\ stack # <<>>
    /\ Last(stack).generation # generation \/ Left(Last(stack)) = {}
    /\ stack' = Front(stack)
    /\ UNCHANGED <<x, mapped, notices, rec, phase, missed, ran, generation, times, sets>>

\* The rule is noted before its command runs
Note(w, i) == ran' = [ran EXCEPT ![w] = @ \cup {i}]

RunRule ==
    /\ stack # <<>> /\ Last(stack).generation = generation /\ Left(Last(stack)) # {}
    /\ LET w == Last(stack).w
           i == CHOOSE j \in Left(Last(stack)) : \A k \in Left(Last(stack)) : j <= k
           on == [stack EXCEPT ![Len(stack)].at = i + 1]
       IN CASE Rules[i].command = "floating" ->          \* cmd_floating checks the rules again
                 /\ Note(w, i) /\ times' = [times EXCEPT ![w][i] = @ + 1]
                 /\ rec' = [rec EXCEPT ![w].floating = TRUE]
                 /\ stack' = Append(on, Call(w)) /\ UNCHANGED generation
            [] Rules[i].command = "mark" ->
                 /\ Note(w, i) /\ times' = [times EXCEPT ![w][i] = @ + 1]
                 /\ rec' = [rec EXCEPT ![w].mark = TRUE] /\ stack' = on /\ UNCHANGED generation
            [] Rules[i].command = "reload" ->            \* free_configuration
                 /\ generation < MaxReloads /\ generation' = generation + 1
                 /\ ran' = [v \in Windows |-> {}] /\ times' = [v \in Windows |-> [j \in DOMAIN Rules |-> 0]]
                 /\ stack' = on /\ UNCHANGED rec
    /\ UNCHANGED <<x, mapped, notices, phase, missed, sets>>

----------------------------------------------------------------------------
(* handlers.c, manage.c *)

Idle == stack = <<>>
Managing == \E w \in Windows : phase[w] \in {"read", "deaf"}
Listens(w) == phase[w] \in {"read", "managed"}
Ready == Idle /\ ~Managing /\ notices # <<>>

\* A client sets or deletes a property.  While manage_window listens to nothing, i3 is not
\* told.  Nor is it of a window that was unmapped; when that is mapped again i3 reads what is
\* there, but a notice of before, that the property is deleted, may come after that.
Late(q, w, p) == <<w, p, TRUE>> \in ToSet(q)
ClientSets(w, p, v) ==
    /\ sets < MaxSets /\ sets' = sets + 1
    /\ v # x[w][p] /\ x' = [x EXCEPT ![w][p] = v]
    /\ notices' = IF Listens(w) THEN Append(notices, <<w, p, v = Unset>>) ELSE notices
    /\ missed' = IF phase[w] = "deaf" \/ (phase[w] = "unmanaged" /\ Late(notices, w, p)) THEN missed \cup {<<w, p>>} ELSE missed
    /\ UNCHANGED <<mapped, rec, phase, ran, generation, stack, times>>

\* It maps its window, which i3 is asked for, and unmaps it while i3 listens
ClientMaps(w) ==
    /\ sets < MaxSets /\ sets' = sets + 1 /\ (w \in mapped => Listens(w))
    /\ mapped' = IF w \in mapped THEN mapped \ {w} ELSE mapped \cup {w}
    /\ notices' = Append(notices, <<w, IF w \in mapped THEN "unmap" ELSE "map">>)
    /\ UNCHANGED <<x, rec, phase, missed, ran, generation, stack, times>>

\* manage_window: listens, then reads the properties; legacy before UTF-8
ReadAll(w) ==
    LET v == x[w]
        titled == UpdateName(UpdateNameLegacy(UpdateClass(Fresh, v.class), v.legacy), v.name)
        related == UpdateRole(UpdateTransientFor(UpdateLeader(titled, v.leader), v.transient), v.role)
        hinted == UpdateNormalHints(UpdateMotif(UpdateHints(related, v.hints), v.motif), v.normal)
    IN UpdateType(UpdateMachine(hinted, v.machine), v.type)
ManageRead(w) ==
    /\ Ready /\ Head(notices) = <<w, "map">> /\ phase[w] = "unmanaged"
    /\ notices' = Tail(notices)
    /\ phase' = [phase EXCEPT ![w] = "read"] /\ rec' = [rec EXCEPT ![w] = ReadAll(w)]
    /\ UNCHANGED <<x, mapped, missed, ran, generation, stack, times, sets>>
\* it listens to nothing while it reparents the window
ManageReparent(w) ==
    /\ phase[w] = "read" /\ phase' = [phase EXCEPT ![w] = "deaf"]
    /\ UNCHANGED <<x, mapped, notices, rec, missed, ran, generation, stack, times, sets>>
ManageRun(w) ==
    /\ phase[w] = "deaf" /\ phase' = [phase EXCEPT ![w] = "managed"] /\ stack' = <<Call(w)>>
    /\ UNCHANGED <<x, mapped, notices, rec, missed, ran, generation, times, sets>>

\* property_notify: reads the property as it is now, unless the event says it is deleted
Handled == Head(notices)
Known == Len(Handled) = 3 /\ phase[Handled[1]] = "managed"
Now == IF Handled[3] THEN Unset ELSE x[Handled[1]][Handled[2]]
\* the normal hints are asked for when the event brings none
Reply == IF Handled[2] = "normal" THEN x[Handled[1]].normal ELSE Now
Take ==
    /\ Ready /\ Known
    /\ notices' = Tail(notices)
    /\ rec' = [rec EXCEPT ![Handled[1]] = Update(Handled[2], @, Reply)]
    /\ UNCHANGED <<x, mapped, phase, missed, ran, generation, times, sets>>
\* handle_windowname_change, _legacy, handle_hints, handle_windowrole_change,
\* handle_class_change, handle_machine_change; handle_window_type if there is a type
Rechecked(p) == p \in {"name", "legacy", "role", "class", "machine", "hints"} \/ (p = "type" /\ Now # Unset)
PropertyNotify == Take /\ stack' = IF Rechecked(Handled[2]) THEN <<Call(Handled[1])>> ELSE <<>>
\* an event of a window that is not known (any more)
PropertyIgnored ==
    /\ Ready /\ Len(Handled) = 3 /\ ~Known /\ notices' = Tail(notices)
    /\ UNCHANGED <<x, mapped, rec, phase, missed, ran, generation, stack, times, sets>>

\* handle_unmap_notify_event, window_free: the window leaves the tree, its properties stay
Unmanage(w) ==
    /\ Ready /\ Head(notices) = <<w, "unmap">> /\ notices' = Tail(notices)
    /\ phase' = [phase EXCEPT ![w] = "unmanaged"]
    /\ rec' = [rec EXCEPT ![w] = Fresh] /\ ran' = [ran EXCEPT ![w] = {}]
    /\ times' = [times EXCEPT ![w] = [i \in DOMAIN Rules |-> 0]]
    /\ missed' = {e \in missed : e[1] # w \/ Late(notices', w, e[2])}
    /\ UNCHANGED <<x, mapped, generation, stack, sets>>

PropsInit ==
    /\ x = [w \in Windows |-> [p \in Props |-> Unset]]
    /\ mapped = {} /\ notices = <<>> /\ missed = {} /\ generation = 0 /\ stack = <<>> /\ sets = 0
    /\ rec = [w \in Windows |-> Fresh] /\ phase = [w \in Windows |-> "unmanaged"]
    /\ ran = [w \in Windows |-> {}] /\ times = [w \in Windows |-> [i \in DOMAIN Rules |-> 0]]
PropsNext ==
    \/ RunRule \/ Return \/ PropertyNotify \/ PropertyIgnored
    \/ \E w \in Windows :
          \/ \E p \in Props : \E v \in Values(p) \cup {Unset} : ClientSets(w, p, v)
          \/ ClientMaps(w)
          \/ ManageRead(w) \/ ManageReparent(w) \/ ManageRun(w) \/ Unmanage(w)

----------------------------------------------------------------------------
\* Once i3 has handled its events, it knows each property as the client has set it last
\* (handlers.c:1364, manage.c:138-145), although it reads it later than the event was sent;
\* but for what changes while manage_window listens to nothing (manage.c:555-562), or while
\* a window is unmapped whose older notices still wait.  The old title counts only for a
\* window that never had a UTF-8 one (window.c:66).
Agrees(r, p, v) ==
    CASE p = "legacy" -> r.utf8 \/ r.name = v
      [] p = "hints" -> r.refuses = ~v.input /\ r.urgent = v.urgent
      [] p = "motif" -> r.border = v
      [] p = "normal" -> r.max = v.max /\ (v.min # Unset => r.min = v.min)
      [] OTHER -> r[p] = v
RecordsFollow ==
    Idle /\ notices = <<>> =>
        \A w \in Windows, p \in Props :
            phase[w] = "managed" /\ <<w, p>> \notin missed =>
                /\ x[w][p] # Unset => Agrees(rec[w], p, x[w][p])
                /\ x[w][p] = Unset => /\ p \in Cleared => rec[w][p] = Unset
                                      /\ p = "hints" => ~rec[w].urgent

\* Between two reloads a rule runs once for a window, however its command, or the command
\* of another rule, makes i3 check the rules again while it goes through them
\* (assignments.c:45, 63).
RulesRunOnce == \A w \in Windows : \A i \in DOMAIN Rules : times[w][i] <= 1

\* What i3 knows of a window and what it has done for it keep step with the client: the
\* records are those of its last requests, and no rule has run for it twice.
PropertiesFollow == RecordsFollow /\ RulesRunOnce
=============================================================================
