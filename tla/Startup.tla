------------------------------- MODULE Startup -------------------------------
(***************************************************************************)
(* Startup notification (startup.c): an application that "exec" starts gets a  *)
(* sequence, whose windows open where it was started, a context of libsn that     *)
(* is counted, a timeout, and the watch cursor until it has started.  The           *)
(* completion is a message that comes from the application or from the timeout       *)
(* and is handled later.                                                              *)
(***************************************************************************)
EXTENDS Integers, Sequences, SequencesExt, FiniteSets

CONSTANTS Ids,          \* startup ids
          Apps,         \* the windows of the applications, one for each id
          IdOf,         \* IdOf[w]: _NET_STARTUP_ID of the window, or of its leader
          Spaces,       \* names of workspaces
          Start, Grace, \* 60 and 30 seconds, in steps of the clock
          MaxTime       \* bound: applications are started until then

ASSUME StartupAssumption ==
    IdOf \in [Apps -> Ids] /\ "gone" \notin Spaces /\ Start \in Nat \ {0} /\ Grace \in Nat \ {0}

VARIABLES now, seqs,    \* seqs: startup_sequences, as [id, ws, deleteAt], 0: not completed
          ref,          \* the reference count of each context, 0 when it is freed
          timers,       \* the timeouts that are running, as [id, at]
          messages,     \* completions that i3 has not handled
          completed,    \* applications that have told they have started
          cursor, focus,
          place,        \* the workspace of each window, Gone when it is not there
          home,         \* where its application was started, as the workspace is called now
          faults        \* uses of a context that is freed

startupVars == <<now, seqs, ref, timers, messages, completed, cursor, focus, place, home, faults>>

Gone == "gone"
Named(i) == {s \in seqs : s.id = i}

\* startup_sequence_delete, for a set of them
Without(r, D) == [i \in Ids |-> IF \E s \in D : s.id = i THEN r[i] - 1 ELSE r[i]]
Delete(D) == seqs' = seqs \ D /\ ref' = Without(ref, D)

\* start_application
\* mutant: the timeout does not hold the context
Refs_One == 1
Refs == 2
StartApplication(i) ==
    /\ now <= MaxTime /\ i \notin completed /\ home[i] = Gone
    /\ seqs' = seqs \cup {[id |-> i, ws |-> focus, deleteAt |-> 0]}
    /\ ref' = [ref EXCEPT ![i] = Refs] /\ timers' = timers \cup {[id |-> i, at |-> now + Start]}
    /\ cursor' = "watch" /\ home' = [home EXCEPT ![i] = focus]
    /\ UNCHANGED <<now, messages, completed, focus, place, faults>>

\* startup_timeout: the context is released, and completed if the sequence is there
StartupTimeout(t) ==
    /\ t \in timers /\ t.at <= now /\ timers' = timers \ {t}
    /\ faults' = IF ref[t.id] = 0 \/ (Named(t.id) # {} /\ ref[t.id] = 1) THEN faults \cup {t.id} ELSE faults
    /\ ref' = [ref EXCEPT ![t.id] = IF @ = 0 THEN 0 ELSE @ - 1]
    /\ messages' = IF Named(t.id) # {} THEN Append(messages, t.id) ELSE messages
    /\ UNCHANGED <<now, seqs, completed, cursor, focus, place, home>>

\* startup_monitor_event for a completion, _prune_startup_sequences
Pruned(S) == {s \in S : s.deleteAt # 0 /\ now > s.deleteAt}
MonitorEvent ==
    /\ messages # <<>> /\ messages' = Tail(messages)
    /\ LET i == Head(messages)
           S == {IF s.id = i THEN [s EXCEPT !.deleteAt = now + Grace] ELSE s : s \in seqs}
       IN IF Named(i) = {} THEN UNCHANGED <<seqs, ref, cursor>>
          ELSE /\ seqs' = S \ Pruned(S) /\ ref' = Without(ref, Pruned(S))
               /\ cursor' = IF \A s \in S : s.deleteAt # 0 THEN "pointer" ELSE cursor
    /\ UNCHANGED <<now, timers, completed, focus, place, home, faults>>

\* startup_sequence_get, startup_workspace_for_window: a window opens; a sequence whose
\* time is over is deleted
SequenceGet(w) == Named(IdOf[w])
Expired(s) == s.deleteAt > 0 /\ now > s.deleteAt
OpenWindow(w) ==
    /\ place[w] = Gone /\ home[IdOf[w]] # Gone
    /\ IF \E s \in SequenceGet(w) : ~Expired(s)
       THEN place' = [place EXCEPT ![w] = (CHOOSE s \in SequenceGet(w) : TRUE).ws] /\ UNCHANGED <<seqs, ref>>
       ELSE place' = [place EXCEPT ![w] = focus] /\ Delete(SequenceGet(w))
    /\ UNCHANGED <<now, timers, messages, completed, cursor, focus, home, faults>>
\* startup_sequence_delete_by_window, when a window moves to another workspace; a leader
\* that is mapped keeps its sequence
MoveWindow(w, s) ==
    /\ place[w] \notin {Gone, s} /\ place' = [place EXCEPT ![w] = s]
    /\ Delete(SequenceGet(w)) /\ home' = [home EXCEPT ![IdOf[w]] = IF SequenceGet(w) # {} THEN "moved" ELSE @]
    /\ UNCHANGED <<now, timers, messages, completed, cursor, focus, faults>>
\* startup_sequence_rename_workspace
NewName(s, a, b) == IF s = a THEN b ELSE s
RenameWorkspace(a, b) ==
    /\ a # b /\ focus # b /\ \A w \in Apps : place[w] # b
    /\ seqs' = {[s EXCEPT !.ws = NewName(@, a, b)] : s \in seqs}
    /\ focus' = NewName(focus, a, b) /\ place' = [w \in Apps |-> NewName(place[w], a, b)]
    /\ home' = [i \in Ids |-> NewName(home[i], a, b)]
    /\ UNCHANGED <<now, ref, timers, messages, completed, cursor, faults>>

FocusWorkspace(s) == focus' = s /\ s # focus /\ UNCHANGED <<now, seqs, ref, timers, messages, completed, cursor, place, home, faults>>
\* libsn's part in the application
Completes(i) ==
    /\ home[i] # Gone /\ i \notin completed /\ completed' = completed \cup {i} /\ messages' = Append(messages, i)
    /\ UNCHANGED <<now, seqs, ref, timers, cursor, focus, place, home, faults>>
\* the loop runs a timeout before more time passes
Tick ==
    /\ now < MaxTime + Start + Grace + 1 /\ \A t \in timers : t.at > now
    /\ now' = now + 1
    /\ UNCHANGED <<seqs, ref, timers, messages, completed, cursor, focus, place, home, faults>>

StartupInit ==
    /\ now = 1 /\ seqs = {} /\ ref = [i \in Ids |-> 0] /\ timers = {} /\ messages = <<>> /\ completed = {}
    /\ cursor = "pointer" /\ focus \in Spaces /\ place = [w \in Apps |-> Gone] /\ home = [i \in Ids |-> Gone] /\ faults = {}
StartupNext ==
    \/ Tick \/ MonitorEvent \/ \E t \in timers : StartupTimeout(t)
    \/ \E i \in Ids : StartApplication(i) \/ Completes(i)
    \/ \E w \in Apps : OpenWindow(w) \/ \E s \in Spaces : MoveWindow(w, s)
    \/ \E s \in Spaces : FocusWorkspace(s) \/ \E r \in Spaces : RenameWorkspace(s, r)
StartupSpec == StartupInit /\ [][StartupNext]_startupVars

----------------------------------------------------------------------------
\* However the timeout, the completion, the expiry and the move of a window follow each
\* other, a context is used only before it is freed, and is freed when the last of the
\* sequence and the timeout has let it go (startup.c:34, 98, 164).
ContextsAreCounted ==
    /\ faults = {}
    /\ \A i \in Ids : ref[i] = Cardinality(Named(i)) + Cardinality({t \in timers : t.id = i})

\* A sequence that lives opens windows where its application was started, under the name
\* that the workspace has by then (startup.c:277).
OpensAtHome == \A s \in seqs : s.ws = home[s.id]

\* Both together, in every order of the timer, the messages of the launchee, its windows
\* and the renaming of workspaces (startup.c).
StartupSound == ContextsAreCounted /\ OpensAtHome
=============================================================================
