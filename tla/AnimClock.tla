------------------------------ MODULE AnimClock ------------------------------
(***************************************************************************)
(* The single animation clock of the fork (src/src/aiwr_anim.c): an array  *)
(* of slots walked by one libev timer.  Every animation of i3-aiwr (the    *)
(* scrolling strip, opening and closing windows, workspace transitions) is *)
(* a slot with a step and a done callback.                                 *)
(*                                                                         *)
(* The program is single threaded, but the callbacks re-enter the clock:   *)
(* a step or done callback may start or cancel animations while anim_tick  *)
(* holds a pointer into the array.  One action is the code between two     *)
(* points where foreign code runs: the event loop, a step callback, a done *)
(* callback, and the tree_render() at the end of a tick.                   *)
(*                                                                         *)
(* Abstracted: progress and easing values, fps, callbacks' data.  A slot's *)
(* "left" is the number of clock units until its progress reaches 1.       *)
(***************************************************************************)
EXTENDS Integers, Sequences, FiniteSets

CONSTANTS
    MaxAnims,       \* bound: how many animations are ever started
    MaxDuration     \* bound: the longest duration, in clock units

ASSUME AnimClockAssumption ==
    /\ MaxAnims \in Nat
    /\ MaxDuration \in Nat \ {0}

VARIABLES
    slots,          \* an.slots[0 .. an.count - 1]
    nextId,         \* an.next_id
    timerRunning,   \* an.timer_running
    renderWanted,   \* an.render_wanted
    inTick,         \* the static in_tick
    pc,             \* where foreign code may run
    n,              \* anim_tick: the snapshot of an.count
    i,              \* anim_tick: the index of s
    late,           \* anim_tick: the ids whose progress is 1 at "now"
    dangling,       \* srealloc has moved the array away from under s
    doneCalls,      \* history: how often each animation's done was called from its slot
    strayCalls,     \* history: how often from the array that srealloc has freed
    starter,        \* history: the animation whose step started this one, or 0
    cancelled,      \* history: the animations that were cancelled
    due, stepped    \* history: alive when the tick began; stepped in it

clock == <<slots, nextId, timerRunning>>
walk == <<inTick, pc, n, i, late, dangling>>
strays == <<strayCalls, starter>>
vars == <<slots, nextId, timerRunning, renderWanted, inTick, pc, n, i, late,
          dangling, doneCalls, strayCalls, starter, cancelled, due, stepped>>

Ids == 1..MaxAnims
Slot == [id : Ids, active : BOOLEAN, left : 0..MaxDuration]

\* The indices of the live slots; slot_by_id finds only live ones.
Live == {j \in 1..Len(slots) : slots[j].active}
IndexOf(id) == {j \in Live : slots[j].id = id}
LiveIds == {slots[j].id : j \in Live}

TypeOK ==
    /\ slots \in Seq(Slot)
    /\ nextId \in 1..(MaxAnims + 1)
    /\ timerRunning \in BOOLEAN
    /\ renderWanted \in BOOLEAN
    /\ inTick \in BOOLEAN
    /\ pc \in {"loop", "visit", "step", "done", "render"}
    /\ n \in Nat
    /\ i \in Nat \ {0}
    /\ late \subseteq Ids
    /\ dangling \in BOOLEAN
    /\ doneCalls \in [Ids -> Nat]
    /\ strayCalls \in [Ids -> Nat]
    /\ starter \in [Ids -> 0..MaxAnims]
    /\ cancelled \subseteq Ids
    /\ due \subseteq Ids
    /\ stepped \subseteq Ids

Init ==
    /\ slots = <<>>
    /\ nextId = 1
    /\ timerRunning = FALSE
    /\ renderWanted = FALSE
    /\ inTick = FALSE
    /\ pc = "loop"
    /\ n = 0
    /\ i = 1
    /\ late = {}
    /\ dangling = FALSE
    /\ doneCalls = [id \in Ids |-> 0]
    /\ strayCalls = [id \in Ids |-> 0]
    /\ starter = [id \in Ids |-> 0]
    /\ cancelled = {}
    /\ due = {}
    /\ stepped = {}

-----------------------------------------------------------------------------
\* Mutation of Compaction: the loop ends before the last slot.
Compaction_LosesLast(old, new) ==
    new = SelectSeq(SubSeq(old, 1, Len(old) - 1), LAMBDA s : s.active)

\* anim_compact: the live slots move to the front of the array, in order; f
\* gives the old index of each kept slot.
Compaction(old, new) ==
    \E m \in 0..Len(old) : \E f \in [1..m -> 1..Len(old)] :
        /\ \A j, k \in 1..m : j < k => f[j] < f[k]
        /\ \A j \in 1..Len(old) : old[j].active <=> \E k \in 1..m : f[k] = j
        /\ new = [k \in 1..m |-> old[f[k]]]

\* anim_stop_timer_if_idle, for the array as it is after the step.
StopTimerIfIdle == timerRunning' = (timerRunning /\ slots' # <<>>)

-----------------------------------------------------------------------------
\* Foreign code runs in the event loop and in the callbacks; these are the
\* calls it makes.
InForeignCode == pc \in {"loop", "step", "done", "render"}

\* aiwr_anim_start with a positive duration (a duration of 0 calls step and
\* done at once and never enters the clock).  srealloc may move the array,
\* and with it the slot that a running anim_tick still points to.
Start(duration) ==
    /\ InForeignCode
    /\ nextId <= MaxAnims
    /\ slots' = Append(slots, [id |-> nextId, active |-> TRUE, left |-> duration])
    /\ nextId' = nextId + 1
    /\ timerRunning' = TRUE
    /\ dangling' \in IF pc = "step" THEN {dangling, TRUE} ELSE {dangling}
    /\ starter' = [starter EXCEPT ![nextId] = IF pc = "step" THEN slots[i].id ELSE 0]
    /\ UNCHANGED <<renderWanted, inTick, pc, n, i, late, doneCalls, strayCalls, cancelled,
                   due, stepped>>

\* A slot taken out of play: within a tick it only becomes inactive, else the
\* array is compacted and an idle timer stopped.
Retire(id) ==
    /\ IndexOf(id) # {}
    /\ LET marked == [j \in 1..Len(slots) |->
                        IF j \in IndexOf(id) THEN [slots[j] EXCEPT !.active = FALSE]
                                             ELSE slots[j]]
       IN  IF inTick THEN slots' = marked ELSE Compaction(marked, slots')
    /\ StopTimerIfIdle

\* aiwr_anim_cancel of a live animation
Cancel(id) ==
    /\ InForeignCode
    /\ Retire(id)
    /\ cancelled' = cancelled \cup {id}
    /\ UNCHANGED <<nextId, renderWanted, walk, doneCalls, strays, due, stepped>>

\* aiwr_anim_finish of a live animation: its last step and its done callback
\* run at once.  (The repository has no caller; the callbacks it runs are
\* taken not to call the clock themselves.)
Finish(id) ==
    /\ InForeignCode
    /\ Retire(id)
    /\ doneCalls' = [doneCalls EXCEPT ![id] = @ + 1]
    /\ UNCHANGED <<nextId, renderWanted, walk, strays, cancelled, due, stepped>>

\* aiwr_anim_request_render
RequestRender ==
    /\ InForeignCode
    /\ renderWanted' = TRUE
    /\ UNCHANGED <<clock, walk, doneCalls, strays, cancelled, due, stepped>>

-----------------------------------------------------------------------------
\* anim_tick, from the timer's expiry to the head of its loop
TimerFires ==
    /\ pc = "loop"
    /\ timerRunning
    /\ pc' = "visit"
    /\ inTick' = TRUE
    /\ n' = Len(slots)
    /\ i' = 1
    /\ late' = {slots[j].id : j \in {k \in 1..Len(slots) : slots[k].left = 0}}
    /\ due' = LiveIds
    /\ stepped' = {}
    /\ UNCHANGED <<clock, renderWanted, dangling, doneCalls, strays, cancelled>>

\* if (!s->active) continue
SkipInactive ==
    /\ pc = "visit"
    /\ i <= n
    /\ ~slots[i].active
    /\ i' = i + 1
    /\ UNCHANGED <<clock, renderWanted, inTick, pc, n, late, dangling,
                   doneCalls, strays, cancelled, due, stepped>>

\* s->step(...) is called
CallStep ==
    /\ pc = "visit"
    /\ i <= n
    /\ slots[i].active
    /\ pc' = "step"
    /\ dangling' = FALSE
    /\ stepped' = stepped \cup {slots[i].id}
    /\ UNCHANGED <<clock, renderWanted, inTick, n, i, late, doneCalls, strays, cancelled, due>>

\* s->active as anim_tick reads it after the step: what the slot holds, or
\* whatever the freed array still shows.
ActiveReads == IF dangling THEN BOOLEAN ELSE {slots[i].active}

\* The step returned and either the animation is not over (if (!last)) or its
\* owner cancelled it within the step (if (!s->active)).
StepReturnsNoDone ==
    /\ pc = "step"
    /\ slots[i].id \notin late \/ FALSE \in ActiveReads
    /\ pc' = "visit"
    /\ i' = i + 1
    /\ UNCHANGED <<clock, renderWanted, inTick, n, late, dangling,
                   doneCalls, strays, cancelled, due, stepped>>

\* Mutation of StepReturnsDone: no second look at s->active after the step.
StepReturnsDone_NoRecheck ==
    /\ pc = "step"
    /\ ~dangling
    /\ slots[i].id \in late
    /\ slots' = [slots EXCEPT ![i].active = FALSE]
    /\ doneCalls' = [doneCalls EXCEPT ![slots[i].id] = @ + 1]
    /\ pc' = "done"
    /\ UNCHANGED <<nextId, timerRunning, renderWanted, inTick, n, i, late,
                   dangling, strays, cancelled, due, stepped>>

\* The last step returned, and s still points to the slot: s->active = false and
\* s->done is called.
StepReturnsDone ==
    /\ pc = "step"
    /\ ~dangling
    /\ slots[i].id \in late
    /\ slots[i].active
    /\ slots' = [slots EXCEPT ![i].active = FALSE]
    /\ doneCalls' = [doneCalls EXCEPT ![slots[i].id] = @ + 1]
    /\ pc' = "done"
    /\ UNCHANGED <<nextId, timerRunning, renderWanted, inTick, n, i, late,
                   dangling, strays, cancelled, due, stepped>>

\* The last step returned, and srealloc has freed the array that s points into:
\* s->active = false changes nothing that is still used, and done is called for an
\* animation whose slot stays as it is, live or cancelled.  (The callback and its
\* data are what the freed memory still holds.)
StepReturnsAstray ==
    /\ pc = "step"
    /\ dangling
    /\ slots[i].id \in late
    /\ TRUE \in ActiveReads
    /\ strayCalls' = [strayCalls EXCEPT ![slots[i].id] = @ + 1]
    /\ pc' = "done"
    /\ UNCHANGED <<clock, renderWanted, inTick, n, i, late, dangling, doneCalls,
                   starter, cancelled, due, stepped>>

DoneReturns ==
    /\ pc = "done"
    /\ pc' = "visit"
    /\ i' = i + 1
    /\ UNCHANGED <<clock, renderWanted, inTick, n, late, dangling,
                   doneCalls, strays, cancelled, due, stepped>>

\* Mutation of EndWalk: for (int i = 0; i < n - 1; i++).
EndWalk_OffByOne ==
    /\ pc = "visit"
    /\ i >= n
    /\ inTick' = FALSE
    /\ Compaction(slots, slots')
    /\ renderWanted' = FALSE
    /\ IF renderWanted THEN pc' = "render" /\ UNCHANGED timerRunning
                       ELSE pc' = "loop" /\ StopTimerIfIdle
    /\ UNCHANGED <<nextId, n, i, late, dangling, doneCalls, strays, cancelled, due, stepped>>

\* The loop is over: in_tick = false, compact, and a wanted tree_render()
\* (foreign code again) or straight on to the end of the tick.
EndWalk ==
    /\ pc = "visit"
    /\ i > n
    /\ inTick' = FALSE
    /\ Compaction(slots, slots')
    /\ renderWanted' = FALSE
    /\ IF renderWanted THEN pc' = "render" /\ UNCHANGED timerRunning
                       ELSE pc' = "loop" /\ StopTimerIfIdle
    /\ UNCHANGED <<nextId, n, i, late, dangling, doneCalls, strays, cancelled, due, stepped>>

\* Mutation of RenderReturns: the tick ends by stopping its timer.
RenderReturns_StopsTimer ==
    /\ pc = "render"
    /\ pc' = "loop"
    /\ timerRunning' = FALSE
    /\ UNCHANGED <<slots, nextId, renderWanted, inTick, n, i, late, dangling,
                   doneCalls, strays, cancelled, due, stepped>>

\* tree_render() returned; anim_stop_timer_if_idle ends the tick.
RenderReturns ==
    /\ pc = "render"
    /\ pc' = "loop"
    /\ UNCHANGED slots
    /\ StopTimerIfIdle
    /\ UNCHANGED <<nextId, renderWanted, inTick, n, i, late, dangling,
                   doneCalls, strays, cancelled, due, stepped>>

\* CLOCK_MONOTONIC advances, whatever the program is doing.
Elapse ==
    /\ \E j \in 1..Len(slots) : slots[j].left > 0
    /\ slots' = [j \in 1..Len(slots) |->
                    [slots[j] EXCEPT !.left = IF @ > 0 THEN @ - 1 ELSE 0]]
    /\ UNCHANGED <<nextId, timerRunning, renderWanted, walk,
                   doneCalls, strays, cancelled, due, stepped>>

-----------------------------------------------------------------------------
Calls ==
    \/ \E d \in 1..MaxDuration : Start(d)
    \/ \E id \in Ids : Cancel(id) \/ Finish(id)
    \/ RequestRender

Tick ==
    \/ TimerFires \/ SkipInactive \/ CallStep
    \/ StepReturnsNoDone \/ StepReturnsDone \/ StepReturnsAstray \/ DoneReturns
    \/ EndWalk \/ RenderReturns

Next == Calls \/ Tick \/ Elapse

Spec == Init /\ [][Next]_vars

(***************************************************************************)
(* Fairness: libev runs an expired timer, callbacks and tree_render return *)
(* and the monotonic clock advances.  Nothing obliges anyone to start or   *)
(* cancel an animation.                                                    *)
(***************************************************************************)
FairSpec == Spec /\ WF_vars(Tick) /\ WF_vars(Elapse)

-----------------------------------------------------------------------------
StartedBy(id) == {k \in Ids : starter[k] = id}

\* anim_tick writes s->active = false before it calls done, and re-reads
\* s->active after the step: an animation's done callback (which frees the
\* ghost of a closed window, say) runs at most once, and once more for each
\* animation that its own steps have started: only such a start moves the array
\* from under s, and done is called astray once for it at most.
DoneAtMostOnce ==
    \A id \in Ids :
        /\ doneCalls[id] <= 1
        /\ strayCalls[id] <= Cardinality(StartedBy(id))

\* "o dono pode ter cancelado dentro do step": a cancelled animation never
\* hears of its end, even when it is cancelled within its own last step, unless
\* that step has also moved the array.
CancelledHearNothing ==
    \A id \in cancelled : /\ doneCalls'[id] = doneCalls[id]
                          /\ strayCalls'[id] # strayCalls[id] => dangling
NoDoneAfterCancel == [][CancelledHearNothing]_vars

\* Back in the event loop the timer runs exactly when there is a slot: no
\* animation hangs for want of a timer and an idle program does not wake up.
TimerIffSlots == pc = "loop" => (timerRunning <=> slots # <<>>)

\* A cancellation within a tick must not make the walk lose its place: every
\* animation alive when the tick began has had its step when the tick is over,
\* unless it was retired on the way.
EveryLiveSlotStepped ==
    ~inTick =>
        \A id \in due : id \in stepped \/ id \in cancelled \/ doneCalls[id] > 0

\* The snapshot of the count: an animation created within a step does not run
\* in the same frame.
CreatedInStepWaits == stepped \subseteq due

\* The clock keeps the promise of Animations: an animation runs while a live
\* slot has its id, and neither the walk of a tick nor the compaction of the
\* array starts, ends or loses one that no callback was called for.  A call of
\* done astray is not one of the promise's: it changes no animation's state.
AnimState ==
    [id \in Ids |-> IF id \in LiveIds THEN "running"
                    ELSE IF id >= nextId THEN "new"
                    ELSE IF id \in cancelled THEN "cancelled" ELSE "done"]

Promise == INSTANCE Animations WITH state <- AnimState
ImplementsAnimations == Promise!Spec

\* Every animation that was started is over some day: done or cancelled, and its
\* slot gone, even if done was called astray before.
EveryAnimationEnds ==
    \A id \in Ids :
        nextId > id ~> (doneCalls[id] > 0 \/ id \in cancelled)

\* What anim_tick, aiwr_anim_start and aiwr_anim_cancel keep, whatever the callbacks
\* do: done runs once at most, but for the calls that a start within a step sends
\* astray, the timer runs exactly when there is an animation, and one that is created
\* in a tick waits for the next.
ClockSafety == TypeOK /\ DoneAtMostOnce /\ TimerIffSlots /\ CreatedInStepWaits
=============================================================================
