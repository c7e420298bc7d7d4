--------------------------- MODULE AnimClock_proofs ---------------------------
(***************************************************************************)
(* What AnimClock promises for any number of animations and any durations. *)
(* The inductive invariant says which slots may still call done: a live    *)
(* slot's animation has not been done or cancelled, ids in the array are   *)
(* distinct, and a walk's indices stay inside the array it began with.     *)
(***************************************************************************)
EXTENDS AnimClock, SequenceTheorems, FiniteSetTheorems, TLAPS

InWalk == pc \in {"visit", "step", "done"}

\* The array: distinct ids, all handed out; live ones neither done nor cancelled.
ArrayInv ==
    /\ \A j, k \in 1..Len(slots) : slots[j].id = slots[k].id => j = k
    /\ \A j \in 1..Len(slots) : slots[j].id < nextId
    /\ \A j \in Live : doneCalls[slots[j].id] = 0 /\ slots[j].id \notin cancelled
    /\ \A id \in Ids : id >= nextId => doneCalls[id] = 0 /\ id \notin cancelled

\* The walk: its snapshot lies within the array and what it may still step was
\* alive when it began.
WalkInv ==
    /\ inTick <=> InWalk
    /\ InWalk => n <= Len(slots) /\ i <= n + 1
    /\ pc \in {"step", "done"} => i <= n
    /\ InWalk => \A j \in 1..n : slots[j].active => slots[j].id \in due
    /\ stepped \subseteq due

TimerInv ==
    /\ slots # <<>> => timerRunning
    /\ pc = "loop" /\ timerRunning => slots # <<>>

\* A call of done from the slot is the last thing that happens to it.
DoneOnce == \A id \in Ids : doneCalls[id] <= 1

IInv == TypeOK /\ ArrayInv /\ WalkInv /\ TimerInv /\ DoneOnce

\* Calls astray: a step under which the array has moved has started an animation
\* that no call of done was counted for yet.
StrayInv ==
    /\ \A id \in Ids : id >= nextId => starter[id] = 0
    /\ \A id \in Ids : strayCalls[id] <= Cardinality(StartedBy(id))
    /\ pc = "step" /\ dangling =>
         strayCalls[slots[i].id] < Cardinality(StartedBy(slots[i].id))

-----------------------------------------------------------------------------
\* A sequence written as a function on 1..m is one of its elements' set.
LEMMA SeqOfFunction ==
    ASSUME NEW S, NEW m \in Nat, NEW f \in [1..m -> S]
    PROVE  f \in Seq(S) /\ Len(f) = m /\ DOMAIN f = 1..m
  OBVIOUS

\* anim_compact keeps the live slots, no others, and keeps their ids distinct.
LEMMA CompactionFacts ==
    ASSUME NEW old \in Seq(Slot), NEW new, Compaction(old, new)
    PROVE  /\ new \in Seq(Slot)
           /\ \A k \in 1..Len(new) :
                \E j \in 1..Len(old) : old[j].active /\ new[k] = old[j]
           /\ \A j \in 1..Len(old) :
                old[j].active => \E k \in 1..Len(new) : new[k] = old[j]
           /\ (\A j, k \in 1..Len(old) : old[j].id = old[k].id => j = k)
                => \A j, k \in 1..Len(new) : new[j].id = new[k].id => j = k
           /\ old = <<>> => new = <<>>
<1>1. PICK m \in 0..Len(old) : \E f \in [1..m -> 1..Len(old)] :
        /\ \A j, k \in 1..m : j < k => f[j] < f[k]
        /\ \A j \in 1..Len(old) : old[j].active <=> \E k \in 1..m : f[k] = j
        /\ new = [k \in 1..m |-> old[f[k]]]
  BY DEF Compaction
<1>2. PICK f \in [1..m -> 1..Len(old)] :
        /\ \A j, k \in 1..m : j < k => f[j] < f[k]
        /\ \A j \in 1..Len(old) : old[j].active <=> \E k \in 1..m : f[k] = j
        /\ new = [k \in 1..m |-> old[f[k]]]
  BY <1>1
<1>3. m \in Nat /\ new \in [1..m -> Slot]
  BY <1>2
<1>4. new \in Seq(Slot) /\ Len(new) = m
  BY <1>3, SeqOfFunction
<1>5. \A k \in 1..m : new[k] = old[f[k]] /\ f[k] \in 1..Len(old) /\ old[f[k]].active
  BY <1>2
<1>6. ASSUME \A j, k \in 1..Len(old) : old[j].id = old[k].id => j = k,
             NEW j \in 1..m, NEW k \in 1..m, new[j].id = new[k].id
      PROVE  j = k
  <2>1. f[j] = f[k]
    BY <1>5, <1>6, SMTT(40)
  <2>2. f[j] \in Int /\ f[k] \in Int /\ j \in Int /\ k \in Int
    BY <1>2, <1>3
  <2>3. QED
    BY <2>1, <2>2, <1>2
<1>7. old = <<>> => new = <<>>
  <2>1. SUFFICES ASSUME old = <<>> PROVE new = <<>>
    OBVIOUS
  <2>2. m = 0
    BY <2>1
  <2>3. QED
    BY <2>2, <1>4
<1>8. ASSUME NEW j \in 1..Len(old), old[j].active
      PROVE  \E k \in 1..Len(new) : new[k] = old[j]
  <2>1. PICK k \in 1..m : f[k] = j
    BY <1>2, <1>8
  <2>2. QED
    BY <2>1, <1>4, <1>5
<1>9. QED
  BY <1>4, <1>5, <1>6, <1>7, <1>8, ZenonT(60)

\* aiwr_anim_cancel and aiwr_anim_finish take one animation's slot out of play
\* and leave the others as they were.
LEMMA RetireFacts ==
    ASSUME TypeOK, ArrayInv, NEW id \in Ids, Retire(id)
    PROVE  /\ slots' \in Seq(Slot)
           /\ \A k \in 1..Len(slots') : \E j \in 1..Len(slots) :
                /\ slots'[k].id = slots[j].id
                /\ slots'[k].active => slots[j].active /\ slots[j].id # id
           /\ \A j \in 1..Len(slots) : slots[j].active /\ slots[j].id # id =>
                \E k \in 1..Len(slots') : slots'[k].id = slots[j].id /\ slots'[k].active
           /\ \A j, k \in 1..Len(slots') : slots'[j].id = slots'[k].id => j = k
           /\ inTick => /\ Len(slots') = Len(slots)
                        /\ \A j \in 1..Len(slots) :
                            /\ slots'[j].id = slots[j].id
                            /\ slots'[j].active => slots[j].active
           /\ doneCalls[id] = 0 /\ id < nextId
           /\ timerRunning' = (timerRunning /\ slots' # <<>>)
<1> DEFINE marked == [j \in 1..Len(slots) |->
                        IF j \in IndexOf(id) THEN [slots[j] EXCEPT !.active = FALSE]
                                             ELSE slots[j]]
<1>1. slots \in Seq(Slot) /\ Len(slots) \in Nat /\ slots \in [1..Len(slots) -> Slot]
  BY DEF TypeOK
<1>2. \A j \in 1..Len(slots) :
        /\ marked[j] \in Slot
        /\ marked[j].id = slots[j].id
        /\ marked[j].active <=> slots[j].active /\ slots[j].id # id
  BY <1>1 DEF Slot, IndexOf, Live
<1>3. marked \in [1..Len(slots) -> Slot]
  BY <1>2
<1>4. marked \in Seq(Slot) /\ Len(marked) = Len(slots)
  BY <1>1, <1>3, SeqOfFunction
<1>5. \A j, k \in 1..Len(marked) : marked[j].id = marked[k].id => j = k
  BY <1>2, <1>4 DEF ArrayInv
<1>6. doneCalls[id] = 0 /\ id < nextId
  <2>1. PICK j \in Live : slots[j].id = id
    BY DEF Retire, IndexOf
  <2>2. QED
    BY <2>1, <1>1 DEF Live, ArrayInv
<1>7. timerRunning' = (timerRunning /\ slots' # <<>>)
  BY DEF Retire, StopTimerIfIdle
<1>8. CASE inTick
  <2>1. slots' = marked
    BY <1>8 DEF Retire
  <2> HIDE DEF marked
  <2>2. QED
    BY <2>1, <1>2, <1>4, <1>5, <1>6, <1>7
<1>9. CASE ~inTick
  <2>1. Compaction(marked, slots')
    BY <1>9 DEF Retire
  <2> HIDE DEF marked
  <2>2. /\ slots' \in Seq(Slot)
        /\ \A k \in 1..Len(slots') :
            \E j \in 1..Len(marked) : marked[j].active /\ slots'[k] = marked[j]
        /\ \A j \in 1..Len(marked) :
            marked[j].active => \E k \in 1..Len(slots') : slots'[k] = marked[j]
        /\ \A j, k \in 1..Len(slots') : slots'[j].id = slots'[k].id => j = k
    BY <2>1, <1>4, <1>5, CompactionFacts
  <2>3. \A k \in 1..Len(slots') : \E j \in 1..Len(slots) :
            /\ slots'[k].id = slots[j].id
            /\ slots'[k].active => slots[j].active /\ slots[j].id # id
    <3>1. ASSUME NEW k \in 1..Len(slots')
          PROVE  \E j \in 1..Len(slots) :
                    /\ slots'[k].id = slots[j].id
                    /\ slots'[k].active => slots[j].active /\ slots[j].id # id
      <4>1. PICK j \in 1..Len(marked) : marked[j].active /\ slots'[k] = marked[j]
        BY <2>2, <3>1
      <4>2. QED
        BY <4>1, <1>2, <1>4
    <3>2. QED
      BY <3>1
  <2>4. \A j \in 1..Len(slots) : slots[j].active /\ slots[j].id # id =>
            \E k \in 1..Len(slots') : slots'[k].id = slots[j].id /\ slots'[k].active
    BY <2>2, <1>2, <1>4, ZenonT(60)
  <2>5. QED
    BY <2>2, <2>3, <2>4, <1>6, <1>7, <1>9
<1>10. QED
  BY <1>8, <1>9

LEMMA InitInv == Init => IInv
<1> SUFFICES ASSUME Init PROVE IInv
  OBVIOUS
<1>1. TypeOK
  <2>1. slots \in Seq(Slot)
    BY EmptySeq DEF Init
  <2>2. /\ nextId \in 1..(MaxAnims + 1) /\ doneCalls \in [Ids -> Nat]
        /\ strayCalls \in [Ids -> Nat] /\ starter \in [Ids -> 0..MaxAnims]
    BY AnimClockAssumption DEF Init
  <2>3. n \in Nat /\ i \in Nat \ {0}
    BY DEF Init
  <2>4. QED
    BY <2>1, <2>2, <2>3, Zenon DEF Init, TypeOK
<1>2. ArrayInv
  BY DEF Init, ArrayInv, Live, Ids
<1>3. WalkInv
  BY DEF Init, WalkInv, InWalk
<1>4. TimerInv
  BY DEF Init, TimerInv
<1>5. DoneOnce
  BY DEF Init, DoneOnce
<1>6. QED
  BY <1>1, <1>2, <1>3, <1>4, <1>5 DEF IInv

\* A cancellation or a finish preserves the invariant; what differs is the
\* history it writes.
LEMMA RetireInv ==
    ASSUME IInv, NEW id \in Ids, InForeignCode, Retire(id),
           UNCHANGED <<nextId, renderWanted, walk, strays, due, stepped>>,
           \/ /\ cancelled' = cancelled \cup {id}
              /\ UNCHANGED doneCalls
           \/ /\ doneCalls' = [doneCalls EXCEPT ![id] = @ + 1]
              /\ UNCHANGED cancelled
    PROVE  IInv'
<1> USE DEF IInv
<1>1. /\ slots' \in Seq(Slot)
      /\ \A k \in 1..Len(slots') : \E j \in 1..Len(slots) :
           /\ slots'[k].id = slots[j].id
           /\ slots'[k].active => slots[j].active /\ slots[j].id # id
      /\ \A j, k \in 1..Len(slots') : slots'[j].id = slots'[k].id => j = k
      /\ inTick => /\ Len(slots') = Len(slots)
                   /\ \A j \in 1..Len(slots) :
                       /\ slots'[j].id = slots[j].id
                       /\ slots'[j].active => slots[j].active
      /\ doneCalls[id] = 0 /\ id < nextId
      /\ timerRunning' = (timerRunning /\ slots' # <<>>)
  BY RetireFacts
<1>2. /\ slots \in Seq(Slot) /\ Len(slots) \in Nat /\ slots \in [1..Len(slots) -> Slot]
      /\ Len(slots') \in Nat /\ slots' \in [1..Len(slots') -> Slot]
  BY <1>1 DEF TypeOK
<1>3. TypeOK'
  BY <1>1 DEF TypeOK, walk, strays
<1>4. ArrayInv'
  <2>1. \A k \in 1..Len(slots') : slots'[k].id < nextId'
    BY <1>1 DEF ArrayInv
  <2>2. ASSUME NEW k \in Live'
        PROVE  doneCalls'[slots'[k].id] = 0 /\ slots'[k].id \notin cancelled'
    <3>1. PICK j \in 1..Len(slots) :
            slots'[k].id = slots[j].id /\ slots[j].active /\ slots[j].id # id
      BY <1>1, <2>2 DEF Live
    <3>2. doneCalls[slots[j].id] = 0 /\ slots[j].id \notin cancelled /\ slots[j].id \in Ids
      BY <3>1, <1>2 DEF ArrayInv, Live, Slot
    <3>3. QED
      BY <3>1, <3>2 DEF TypeOK
  <2>3. ASSUME NEW a \in Ids, a >= nextId'
        PROVE  doneCalls'[a] = 0 /\ a \notin cancelled'
    <3>1. a >= nextId /\ a # id
      BY <1>1, <2>3, AnimClockAssumption DEF Ids, TypeOK
    <3>2. doneCalls[a] = 0 /\ a \notin cancelled
      BY <3>1 DEF ArrayInv
    <3>3. QED
      BY <3>1, <3>2 DEF TypeOK
  <2>4. QED
    BY <1>1, <2>1, <2>2, <2>3 DEF ArrayInv
<1>5. UNCHANGED <<nextId, inTick, pc, n, i, dangling, due, stepped>>
  BY DEF walk
<1>6. WalkInv'
  <2>1. CASE inTick
    BY <2>1, <1>1, <1>2, <1>5 DEF WalkInv, InWalk, TypeOK
  <2>2. CASE ~inTick
    BY <2>2, <1>5, Zenon DEF WalkInv, InWalk
  <2>3. QED
    BY <2>1, <2>2
<1>7. TimerInv'
  <2>1. slots' # <<>> => timerRunning'
    <3>1. slots' # <<>> => slots # <<>>
      <4>1. SUFFICES ASSUME slots' # <<>> PROVE slots # <<>>
        OBVIOUS
      <4>2. 1 \in 1..Len(slots')
        <5>1. Len(slots') \in Nat \ {0}
          BY <4>1, <1>1, EmptySeq, Zenon
        <5>2. QED
          BY <5>1
      <4>3. PICK j \in 1..Len(slots) : slots'[1].id = slots[j].id
        BY <4>2, <1>1
      <4>4. QED
        BY <4>3, <1>2
    <3>2. QED
      BY <3>1, <1>1, Zenon DEF TimerInv
  <2>2. timerRunning' => slots' # <<>>
    BY <1>1, Zenon
  <2>3. QED
    BY <2>1, <2>2, Zenon DEF TimerInv
<1>8. DoneOnce'
  <2>1. doneCalls \in [Ids -> Nat] /\ doneCalls[id] = 0
    BY <1>1 DEF TypeOK
  <2>2. QED
    BY <2>1 DEF DoneOnce
<1>9. QED
  BY <1>3, <1>4, <1>5, <1>6, <1>7, <1>8

\* anim_compact at the end of the walk preserves the invariant.
LEMMA EndWalkInv ==
    ASSUME IInv, EndWalk
    PROVE  IInv'
<1> USE DEF IInv
<1>1. /\ slots' \in Seq(Slot)
      /\ \A k \in 1..Len(slots') :
            \E j \in 1..Len(slots) : slots[j].active /\ slots'[k] = slots[j]
      /\ \A j, k \in 1..Len(slots') : slots'[j].id = slots'[k].id => j = k
      /\ slots = <<>> => slots' = <<>>
  BY CompactionFacts DEF EndWalk, TypeOK, ArrayInv
<1>2. TypeOK'
  BY <1>1 DEF TypeOK, EndWalk, StopTimerIfIdle, strays
<1>3. ArrayInv'
  <2>1. Len(slots) \in Nat /\ Len(slots') \in Nat /\ UNCHANGED <<nextId, doneCalls, cancelled>>
    BY <1>1 DEF EndWalk, TypeOK
  <2>2. \A k \in 1..Len(slots') : slots'[k].id < nextId'
    BY <1>1, <2>1 DEF ArrayInv
  <2>3. \A k \in Live' : doneCalls'[slots'[k].id] = 0 /\ slots'[k].id \notin cancelled'
    BY <1>1, <2>1 DEF ArrayInv, Live
  <2>4. QED
    BY <1>1, <2>1, <2>2, <2>3 DEF ArrayInv
<1>4. WalkInv'
  BY DEF WalkInv, InWalk, EndWalk
<1>5. TimerInv'
  BY <1>1, Zenon DEF TimerInv, EndWalk, StopTimerIfIdle
<1>6. QED
  BY <1>2, <1>3, <1>4, <1>5 DEF EndWalk, DoneOnce

\* A new slot at the end of the array: the walk's snapshot does not see it.
LEMMA StartInv ==
    ASSUME IInv, NEW duration \in 1..MaxDuration, Start(duration)
    PROVE  IInv'
<1> USE DEF IInv
<1> DEFINE s == [id |-> nextId, active |-> TRUE, left |-> duration]
<1>1. s \in Slot /\ nextId \in Ids
  BY AnimClockAssumption DEF Slot, Start, TypeOK, Ids
<1>2. /\ slots' \in Seq(Slot)
      /\ Len(slots) \in Nat
      /\ Len(slots') = Len(slots) + 1
      /\ \A j \in 1..Len(slots) : slots'[j] = slots[j] /\ slots[j] \in Slot
      /\ slots'[Len(slots) + 1] = s
      /\ slots' # <<>>
  BY <1>1 DEF Start, TypeOK
<1>3. TypeOK'
  <2>1. nextId' \in 1..(MaxAnims + 1)
    BY AnimClockAssumption DEF Start, TypeOK
  <2>2. dangling' \in BOOLEAN
    BY Zenon DEF Start, TypeOK
  <2>3. starter' \in [Ids -> 0..MaxAnims]
    <3>1. pc = "step" => slots[i] \in Slot
      BY <1>2 DEF TypeOK, WalkInv, InWalk
    <3>2. (IF pc = "step" THEN slots[i].id ELSE 0) \in 0..MaxAnims
      BY <3>1, AnimClockAssumption DEF Slot, Ids
    <3>3. QED
      BY <3>2 DEF Start, TypeOK
  <2>4. QED
    BY <1>2, <2>1, <2>2, <2>3, Zenon DEF TypeOK, Start
<1> HIDE DEF s
<1>4. ArrayInv'
  <2>1. s.id = nextId /\ nextId' = nextId + 1 /\ nextId \in Nat
    BY AnimClockAssumption DEF s, Start, TypeOK
  <2>2. \A j \in 1..Len(slots) : slots[j].id < nextId /\ slots[j].id \in Nat
    BY <1>2, AnimClockAssumption, SMTT(40) DEF ArrayInv, Slot, Ids
  <2>3. \A j, k \in 1..Len(slots') : slots'[j].id = slots'[k].id => j = k
    <3>1. ASSUME NEW j \in 1..Len(slots'), NEW k \in 1..Len(slots'), slots'[j].id = slots'[k].id
          PROVE  j = k
      <4>1. CASE j \in 1..Len(slots) /\ k \in 1..Len(slots)
        BY <4>1, <3>1, <1>2 DEF ArrayInv
      <4>2. CASE j = Len(slots) + 1 /\ k = Len(slots) + 1
        BY <4>2
      <4>3. CASE j = Len(slots) + 1 /\ k \in 1..Len(slots)
        BY <4>3, <3>1, <1>2, <2>1, <2>2
      <4>4. CASE k = Len(slots) + 1 /\ j \in 1..Len(slots)
        BY <4>4, <3>1, <1>2, <2>1, <2>2
      <4>5. QED
        BY <4>1, <4>2, <4>3, <4>4, <1>2
    <3>2. QED
      BY <3>1
  <2>4. \A j \in 1..Len(slots') : slots'[j].id < nextId'
    BY <1>2, <2>1, <2>2
  <2>5. \A j \in Live' : doneCalls'[slots'[j].id] = 0 /\ slots'[j].id \notin cancelled'
    <3>1. doneCalls[nextId] = 0 /\ nextId \notin cancelled
      BY <1>1, <2>1 DEF ArrayInv
    <3>2. ASSUME NEW j \in Live'
          PROVE  doneCalls[slots'[j].id] = 0 /\ slots'[j].id \notin cancelled
      <4>1. CASE j \in 1..Len(slots)
        BY <4>1, <3>2, <1>2 DEF Live, ArrayInv
      <4>2. CASE j = Len(slots) + 1
        BY <4>2, <3>1, <1>2, <2>1
      <4>3. QED
        BY <4>1, <4>2, <1>2 DEF Live
    <3>3. QED
      BY <3>2 DEF Start
  <2>6. \A a \in Ids : a >= nextId' => doneCalls'[a] = 0 /\ a \notin cancelled'
    BY <2>1, AnimClockAssumption DEF ArrayInv, Start, Ids
  <2>7. QED
    BY <2>3, <2>4, <2>5, <2>6 DEF ArrayInv
<1>5. UNCHANGED <<inTick, pc, n, i, due, stepped, doneCalls>> /\ n \in Nat /\ timerRunning'
  BY DEF Start, TypeOK
<1>6. WalkInv'
  <2>1. CASE InWalk
    BY <2>1, <1>2, <1>5 DEF WalkInv, InWalk
  <2>2. CASE ~InWalk
    BY <2>2, <1>5, Zenon DEF WalkInv, InWalk
  <2>3. QED
    BY <2>1, <2>2
<1>7. TimerInv'
  BY <1>2, <1>5, Zenon DEF TimerInv
<1>8. QED
  BY <1>3, <1>4, <1>5, <1>6, <1>7 DEF DoneOnce

\* The last step returned: this slot goes inactive as its done is called, and
\* distinct ids keep the call from being counted for another live slot.
LEMMA StepReturnsDoneInv ==
    ASSUME IInv, StepReturnsDone
    PROVE  IInv'
<1> USE DEF IInv
<1>1. /\ slots \in Seq(Slot) /\ Len(slots) \in Nat
      /\ i \in 1..Len(slots) /\ i <= n /\ slots[i] \in Slot
  BY DEF TypeOK, WalkInv, InWalk, StepReturnsDone
<1>2. slots[i].active
  BY Zenon DEF StepReturnsDone
<1> DEFINE d == slots[i].id
<1>3. d \in Ids /\ doneCalls[d] = 0 /\ d < nextId
  BY <1>1, <1>2 DEF ArrayInv, Live, Slot
<1>4. slots' = [slots EXCEPT ![i].active = FALSE]
  BY Zenon DEF StepReturnsDone
<1>5. /\ slots' \in Seq(Slot) /\ Len(slots') = Len(slots)
      /\ \A j \in 1..Len(slots) :
            /\ slots'[j].id = slots[j].id
            /\ slots'[j].active => slots[j].active /\ j # i
  <2>1. [slots[i] EXCEPT !.active = FALSE] \in Slot
    BY <1>1 DEF Slot
  <2>2. QED
    BY <1>1, <1>4, <2>1, ExceptSeq
<1> HIDE DEF d
<1>6. doneCalls' = [doneCalls EXCEPT ![d] = @ + 1] /\ UNCHANGED <<nextId, cancelled>>
  BY DEF StepReturnsDone, d
<1>7. ArrayInv'
  <2>1. \A j \in Live' : j \in Live /\ slots[j].id # d /\ slots'[j].id = slots[j].id
    BY <1>1, <1>5 DEF Live, ArrayInv, d
  <2>2. \A j \in Live' : doneCalls'[slots'[j].id] = 0 /\ slots'[j].id \notin cancelled'
    <3>1. ASSUME NEW j \in Live'
          PROVE  doneCalls'[slots'[j].id] = 0 /\ slots'[j].id \notin cancelled'
      <4>1. slots[j].id \in Ids /\ slots[j].id # d /\ slots'[j].id = slots[j].id
        <5>1. j \in Live /\ slots[j].id # d /\ slots'[j].id = slots[j].id
          BY <2>1
        <5>2. slots[j] \in Slot
          BY <5>1, <1>1 DEF Live
        <5>3. QED
          BY <5>1, <5>2 DEF Slot
      <4>2. doneCalls[slots[j].id] = 0 /\ slots[j].id \notin cancelled
        BY <2>1 DEF ArrayInv
      <4>3. QED
        BY <4>1, <4>2, <1>6 DEF TypeOK
    <3>2. QED
      BY <3>1
  <2>3. ASSUME NEW a \in Ids, a >= nextId'
        PROVE  doneCalls'[a] = 0 /\ a \notin cancelled'
    <3>1. a >= nextId /\ a # d
      BY <1>3, <1>6, <2>3, AnimClockAssumption DEF TypeOK, Ids
    <3>2. doneCalls[a] = 0 /\ a \notin cancelled
      BY <3>1 DEF ArrayInv
    <3>3. QED
      BY <3>1, <3>2, <1>6 DEF TypeOK
  <2>4. QED
    BY <1>5, <1>6, <2>2, <2>3 DEF ArrayInv
<1>8. TypeOK'
  <2>1. doneCalls' \in [Ids -> Nat]
    BY <1>6, <1>3 DEF TypeOK
  <2>2. QED
    BY <1>5, <2>1 DEF TypeOK, StepReturnsDone, strays
<1>9. WalkInv'
  BY <1>1, <1>5 DEF WalkInv, InWalk, StepReturnsDone, TypeOK
<1>10. TimerInv'
  <2>1. slots # <<>>
    BY <1>1
  <2>2. QED
    BY <2>1, Zenon DEF TimerInv, StepReturnsDone
<1>11. DoneOnce'
  BY <1>3, <1>6 DEF DoneOnce, TypeOK
<1>12. QED
  BY <1>7, <1>8, <1>9, <1>10, <1>11 DEF StepReturnsDone

\* Time passes for every slot alike.
LEMMA ElapseInv ==
    ASSUME IInv, Elapse
    PROVE  IInv'
<1> USE DEF IInv
<1>1. slots \in Seq(Slot) /\ Len(slots) \in Nat
  BY DEF TypeOK
<1> DEFINE later(j) == [slots[j] EXCEPT !.left = IF @ > 0 THEN @ - 1 ELSE 0]
<1>2. ASSUME NEW j \in 1..Len(slots)
      PROVE  /\ later(j) \in Slot
             /\ later(j).id = slots[j].id
             /\ later(j).active = slots[j].active
  <2>1. slots[j] \in Slot
    BY <1>1
  <2>2. (IF slots[j].left > 0 THEN slots[j].left - 1 ELSE 0) \in 0..MaxDuration
    BY <2>1, AnimClockAssumption DEF Slot
  <2>3. QED
    BY <2>1, <2>2 DEF Slot
<1>3. /\ slots' \in Seq(Slot) /\ Len(slots') = Len(slots)
      /\ \A j \in 1..Len(slots) :
            slots'[j].id = slots[j].id /\ slots'[j].active = slots[j].active
  <2>1. slots' = [j \in 1..Len(slots) |-> later(j)]
    BY DEF Elapse
  <2> HIDE DEF later
  <2>2. slots' \in [1..Len(slots) -> Slot]
    BY <2>1, <1>2
  <2>3. slots' \in Seq(Slot) /\ Len(slots') = Len(slots)
    BY <2>2, <1>1, SeqOfFunction
  <2>4. QED
    BY <2>1, <2>3, <1>2
<1>4. UNCHANGED <<nextId, timerRunning, renderWanted, inTick, pc, n, i, late, dangling,
                  doneCalls, strayCalls, starter, cancelled, due, stepped>>
  BY DEF Elapse, walk, strays
<1>5. TypeOK'
  BY <1>3, <1>4 DEF TypeOK
<1>6. ArrayInv'
  BY <1>3, <1>4 DEF ArrayInv, Live
<1>7. WalkInv'
  <2>1. CASE InWalk
    <3>1. n \in Nat /\ (n <= Len(slots) => \A j \in 1..n : j \in 1..Len(slots))
      BY <1>1 DEF TypeOK
    <3>2. QED
      BY <2>1, <3>1, <1>1, <1>3, <1>4 DEF WalkInv, InWalk
  <2>2. CASE ~InWalk
    BY <2>2, <1>4, Zenon DEF WalkInv, InWalk
  <2>3. QED
    BY <2>1, <2>2
<1>8. TimerInv'
  <2>1. slots # <<>> <=> slots' # <<>>
    BY <1>1, <1>3
  <2>2. QED
    BY <2>1, <1>4, Zenon DEF TimerInv
<1>9. QED
  BY <1>4, <1>5, <1>6, <1>7, <1>8 DEF DoneOnce

\* The inductive step, action by action.
LEMMA NextInv ==
    ASSUME IInv, [Next]_vars
    PROVE  IInv'
<1> USE DEF IInv
<1>1. slots \in Seq(Slot) /\ Len(slots) \in Nat /\ n \in Nat /\ i \in Nat \ {0}
  BY DEF TypeOK
<1>2. ASSUME NEW d \in 1..MaxDuration, Start(d) PROVE IInv'
  BY <1>2, StartInv
<1>3. ASSUME NEW id \in Ids, Cancel(id) PROVE IInv'
  <2>1. /\ InForeignCode /\ Retire(id)
        /\ UNCHANGED <<nextId, renderWanted, walk, strays, due, stepped>>
        /\ cancelled' = cancelled \cup {id} /\ UNCHANGED doneCalls
    BY <1>3, Zenon DEF Cancel
  <2>2. QED
    BY <2>1, RetireInv
<1>4. ASSUME NEW id \in Ids, Finish(id) PROVE IInv'
  <2>1. /\ InForeignCode /\ Retire(id)
        /\ UNCHANGED <<nextId, renderWanted, walk, strays, due, stepped>>
        /\ doneCalls' = [doneCalls EXCEPT ![id] = @ + 1] /\ UNCHANGED cancelled
    BY <1>4, Zenon DEF Finish
  <2>2. QED
    BY <2>1, RetireInv
<1>5. CASE RequestRender
  BY <1>5 DEF RequestRender, TypeOK, ArrayInv, Live, WalkInv, InWalk, TimerInv,
              DoneOnce, clock, walk, strays
<1>6. CASE TimerFires
  <2>1. /\ pc = "loop" /\ pc' = "visit" /\ inTick' = TRUE /\ n' = Len(slots) /\ i' = 1
        /\ UNCHANGED <<slots, nextId, timerRunning, renderWanted, dangling, doneCalls, cancelled,
                       strayCalls, starter>>
        /\ due' = {slots[j].id : j \in Live} /\ stepped' = {}
        /\ late' = {slots[j].id : j \in {k \in 1..Len(slots) : slots[k].left = 0}}
    BY <1>6, Zenon DEF TimerFires, clock, strays, LiveIds
  <2>2. TypeOK'
    <3>1. ASSUME NEW j \in 1..Len(slots) PROVE slots[j].id \in Ids
      <4>1. slots[j] \in Slot
        BY <1>1
      <4>2. QED
        BY <4>1 DEF Slot
    <3>2. due' \subseteq Ids /\ late' \subseteq Ids
      BY <2>1, <3>1 DEF Live
    <3>3. QED
      BY <2>1, <3>2, <1>1 DEF TypeOK
  <2>3. ArrayInv'
    BY <2>1 DEF ArrayInv, Live
  <2>4. WalkInv'
    BY <2>1, <1>1 DEF WalkInv, InWalk, Live
  <2>5. TimerInv'
    BY <2>1, Zenon DEF TimerInv
  <2>6. QED
    BY <2>1, <2>2, <2>3, <2>4, <2>5 DEF DoneOnce
<1>7. CASE SkipInactive
  BY <1>1, <1>7 DEF SkipInactive, TypeOK, ArrayInv, Live, WalkInv, InWalk, TimerInv,
                    DoneOnce, clock, strays
<1>8. CASE CallStep
  <2>1. slots[i].id \in Ids /\ slots[i].id \in due
    <3>1. i \in 1..n /\ n <= Len(slots) /\ slots[i].active
      BY <1>1, <1>8 DEF CallStep, WalkInv, InWalk
    <3>2. slots[i] \in Slot
      BY <1>1, <3>1
    <3>3. QED
      BY <1>1, <1>8, <3>1, <3>2 DEF CallStep, WalkInv, InWalk, Slot
  <2>2. QED
    BY <2>1, <1>1, <1>8 DEF CallStep, TypeOK, ArrayInv, Live, WalkInv, InWalk, TimerInv,
                            DoneOnce, clock, strays
<1>9. CASE StepReturnsNoDone
  BY <1>1, <1>9 DEF StepReturnsNoDone, TypeOK, ArrayInv, Live, WalkInv, InWalk, TimerInv,
                    DoneOnce, clock, strays
<1>10. CASE StepReturnsDone
  BY <1>10, StepReturnsDoneInv
<1>17. CASE StepReturnsAstray
  <2>1. /\ pc = "step" /\ pc' = "done" /\ slots[i].id \in Ids
        /\ UNCHANGED <<slots, nextId, timerRunning, renderWanted, inTick, n, i, late, dangling,
                       doneCalls, starter, cancelled, due, stepped>>
        /\ strayCalls' = [strayCalls EXCEPT ![slots[i].id] = @ + 1]
    BY <1>17 DEF StepReturnsAstray, clock, TypeOK
  <2>2. TypeOK'
    BY <2>1 DEF TypeOK
  <2>3. ArrayInv' /\ WalkInv' /\ DoneOnce'
    BY <2>1 DEF ArrayInv, Live, WalkInv, InWalk, DoneOnce
  <2>4. TimerInv'
    BY <2>1, Zenon DEF TimerInv
  <2>5. QED
    BY <2>2, <2>3, <2>4
<1>11. CASE DoneReturns
  BY <1>1, <1>11 DEF DoneReturns, TypeOK, ArrayInv, Live, WalkInv, InWalk, TimerInv,
                     DoneOnce, clock, strays
<1>12. CASE EndWalk
  BY <1>12, EndWalkInv
<1>13. CASE RenderReturns
  <2>1. TypeOK' /\ ArrayInv' /\ WalkInv' /\ DoneOnce'
    BY <1>13 DEF RenderReturns, TypeOK, ArrayInv, Live, WalkInv, InWalk,
                 DoneOnce, StopTimerIfIdle, strays
  <2>2. TimerInv'
    BY <1>13, Zenon DEF RenderReturns, TimerInv, StopTimerIfIdle
  <2>3. QED
    BY <2>1, <2>2
<1>14. CASE Elapse
  BY <1>14, ElapseInv
<1>15. CASE UNCHANGED vars
  BY <1>15 DEF vars, TypeOK, ArrayInv, Live, WalkInv, InWalk, TimerInv, DoneOnce
<1>16. QED
  BY <1>2, <1>3, <1>4, <1>5, <1>6, <1>7, <1>8, <1>9, <1>10, <1>11, <1>12, <1>13, <1>14, <1>15, <1>17
     DEF Next, Calls, Tick

\* A live slot is not a cancelled one, so done is never called for it.
LEMMA NextNoDoneAfterCancel ==
    ASSUME IInv, [Next]_vars
    PROVE  [CancelledHearNothing]_vars
<1> USE DEF IInv
<1> SUFFICES ASSUME NEW a \in cancelled
             PROVE  doneCalls'[a] = doneCalls[a] /\ (strayCalls'[a] # strayCalls[a] => dangling)
  BY DEF CancelledHearNothing
<1>1. a \in Ids /\ slots \in Seq(Slot) /\ Len(slots) \in Nat
  BY DEF TypeOK
<1>2. ASSUME NEW id \in Ids, Finish(id) PROVE doneCalls'[a] = doneCalls[a]
  <2>1. PICK j \in Live : slots[j].id = id
    BY <1>2 DEF Finish, Retire, IndexOf
  <2>2. id # a
    BY <2>1 DEF ArrayInv
  <2>3. QED
    BY <1>1, <1>2, <2>2 DEF Finish, TypeOK
<1>3. ASSUME StepReturnsDone PROVE doneCalls'[a] = doneCalls[a]
  <2>1. slots[i].active
    BY <1>3, Zenon DEF StepReturnsDone
  <2>2. i \in Live
    <3>1. slots[i].active
      BY <2>1
    <3>2. i \in 1..Len(slots)
      BY <1>1, <1>3 DEF StepReturnsDone, WalkInv, InWalk, TypeOK
    <3>3. QED
      BY <3>1, <3>2 DEF Live
  <2>3. slots[i].id # a
    BY <2>2 DEF ArrayInv
  <2>4. QED
    BY <1>1, <1>3, <2>3 DEF StepReturnsDone, TypeOK
<1>4. QED
  <2>1. ASSUME ~StepReturnsDone, \A id \in Ids : ~Finish(id) PROVE UNCHANGED doneCalls
    BY <2>1, Zenon DEF Next, Calls, Tick, Start, Cancel, RequestRender, TimerFires, SkipInactive,
              CallStep, StepReturnsNoDone, StepReturnsAstray, DoneReturns, EndWalk, RenderReturns,
              Elapse, vars
  <2>2. ASSUME ~dangling PROVE UNCHANGED strayCalls
    BY <2>2, Zenon DEF Next, Calls, Tick, Start, Cancel, Finish, RequestRender, TimerFires,
              SkipInactive, CallStep, StepReturnsNoDone, StepReturnsDone, StepReturnsAstray,
              DoneReturns, EndWalk, RenderReturns, Elapse, vars, strays
  <2>3. QED
    BY <1>2, <1>3, <2>1, <2>2

-----------------------------------------------------------------------------
\* The array starts empty: every animation is new.
LEMMA InitRefines == Init => Promise!Init
<1> SUFFICES ASSUME Init PROVE Promise!Init
  OBVIOUS
<1>1. LiveIds = {} /\ nextId = 1
  BY DEF Init, LiveIds, Live
<1>2. Promise!Ids = Ids /\ \A id \in Ids : id >= 1
  BY DEF Promise!Ids, Ids
<1>3. AnimState = [id \in Ids |-> "new"]
  BY <1>1, <1>2 DEF AnimState
<1>4. QED
  BY <1>2, <1>3 DEF Promise!Init, Init

\* Steps that leave the live ids and the history alone are stutters.
LEMMA SameLiveIds ==
    ASSUME LiveIds' = LiveIds, UNCHANGED <<nextId, cancelled, doneCalls>>
    PROVE  UNCHANGED <<AnimState, doneCalls>>
<1>1. AnimState' = AnimState
  BY DEF AnimState
<1>2. QED
  BY <1>1

\* A live animation has been handed out; the histories do not know it yet.
LEMMA LiveFacts ==
    ASSUME IInv
    PROVE  /\ LiveIds \subseteq Ids
           /\ \A id \in LiveIds : id < nextId /\ doneCalls[id] = 0 /\ id \notin cancelled
<1>1. slots \in Seq(Slot) /\ Len(slots) \in Nat
  BY DEF IInv, TypeOK
<1>2. ASSUME NEW j \in Live
      PROVE  /\ slots[j].id \in Ids /\ slots[j].id < nextId
             /\ doneCalls[slots[j].id] = 0 /\ slots[j].id \notin cancelled
  <2>1. j \in 1..Len(slots) /\ slots[j] \in Slot
    BY <1>1, <1>2 DEF Live
  <2>2. slots[j].id \in Ids
    BY <2>1 DEF Slot
  <2>3. QED
    BY <1>2, <2>1, <2>2 DEF IInv, ArrayInv
<1>3. QED
  BY <1>2 DEF LiveIds

\* aiwr_anim_start begins the next animation.
LEMMA StartRefines ==
    ASSUME IInv, NEW duration \in 1..MaxDuration, Start(duration)
    PROVE  Promise!Next
<1>1. slots \in Seq(Slot) /\ Len(slots) \in Nat /\ nextId \in Ids /\ nextId' = nextId + 1
  BY AnimClockAssumption DEF IInv, TypeOK, Start, Ids
<1>2. /\ Len(slots') = Len(slots) + 1
      /\ \A j \in 1..Len(slots) : slots'[j] = slots[j]
      /\ slots'[Len(slots) + 1].id = nextId /\ slots'[Len(slots) + 1].active
  BY <1>1 DEF Start
<1>3. Live' = Live \cup {Len(slots) + 1}
  BY <1>1, <1>2 DEF Live
<1>4. LiveIds' = LiveIds \cup {nextId}
  BY <1>1, <1>2, <1>3 DEF LiveIds, Live
<1>5. nextId \notin LiveIds /\ \A id \in Ids : id \in Int
  BY LiveFacts, <1>1 DEF Ids
<1>6. UNCHANGED <<cancelled, doneCalls>>
  BY DEF Start
<1>7. AnimState[nextId] = "new"
  BY <1>1, <1>5 DEF AnimState
<1>8. AnimState' = [AnimState EXCEPT ![nextId] = "running"]
  <2>1. ASSUME NEW id \in Ids
        PROVE  AnimState'[id] = [AnimState EXCEPT ![nextId] = "running"][id]
    BY <1>1, <1>4, <1>5, <1>6 DEF AnimState
  <2>2. QED
    BY <2>1 DEF AnimState
<1>9. Promise!Begin(nextId)
  BY <1>6, <1>7, <1>8 DEF Promise!Begin
<1>10. QED
  BY <1>1, <1>9 DEF Promise!Next, Promise!Ids, Ids

\* A step that takes one animation out of the live ids cancels it or is its end,
\* as the history says.
LEMMA OneLeaves ==
    ASSUME IInv, NEW id \in LiveIds, LiveIds' = LiveIds \ {id}, UNCHANGED nextId,
           \/ cancelled' = cancelled \cup {id} /\ UNCHANGED doneCalls
           \/ UNCHANGED cancelled /\ doneCalls' = [doneCalls EXCEPT ![id] = @ + 1]
    PROVE  Promise!Next
<1>0. nextId \in 1..(MaxAnims + 1)
  BY DEF IInv, TypeOK
<1>1. id \in Ids /\ id < nextId /\ id \notin cancelled /\ nextId \in Int /\ id \in Int
  BY <1>0, LiveFacts, AnimClockAssumption DEF Ids
<1>2. AnimState[id] = "running"
  BY <1>1 DEF AnimState
<1>3. CASE cancelled' = cancelled \cup {id} /\ UNCHANGED doneCalls
  <2>1. ASSUME NEW a \in Ids
        PROVE  AnimState'[a] = [AnimState EXCEPT ![id] = "cancelled"][a]
    BY <1>1, <1>3 DEF AnimState
  <2>2. AnimState' = [AnimState EXCEPT ![id] = "cancelled"]
    BY <2>1 DEF AnimState
  <2>3. Promise!Drop(id)
    BY <1>2, <1>3, <2>2 DEF Promise!Drop
  <2>4. QED
    BY <1>1, <2>3 DEF Promise!Next, Promise!Ids, Ids
<1>4. CASE UNCHANGED cancelled /\ doneCalls' = [doneCalls EXCEPT ![id] = @ + 1]
  <2>1. ASSUME NEW a \in Ids
        PROVE  AnimState'[a] = [AnimState EXCEPT ![id] = "done"][a]
    BY <1>1, <1>4 DEF AnimState
  <2>2. AnimState' = [AnimState EXCEPT ![id] = "done"]
    BY <2>1 DEF AnimState
  <2>3. Promise!End(id)
    BY <1>2, <1>4, <2>2 DEF Promise!End
  <2>4. QED
    BY <1>1, <2>3 DEF Promise!Next, Promise!Ids, Ids
<1>5. QED
  BY <1>3, <1>4

\* aiwr_anim_cancel and aiwr_anim_finish take their animation out of the live
\* ids and no other.
LEMMA RetireLeaves ==
    ASSUME IInv, NEW id \in Ids, Retire(id)
    PROVE  id \in LiveIds /\ LiveIds' = LiveIds \ {id}
<1>1. slots \in Seq(Slot) /\ Len(slots) \in Nat
  BY DEF IInv, TypeOK
<1>2. id \in LiveIds
  BY DEF Retire, IndexOf, LiveIds
<1>3. /\ \A k \in 1..Len(slots') : \E j \in 1..Len(slots) :
           /\ slots'[k].id = slots[j].id
           /\ slots'[k].active => slots[j].active /\ slots[j].id # id
      /\ \A j \in 1..Len(slots) : slots[j].active /\ slots[j].id # id =>
           \E k \in 1..Len(slots') : slots'[k].id = slots[j].id /\ slots'[k].active
  BY RetireFacts DEF IInv
<1>4. ASSUME NEW k \in Live' PROVE slots'[k].id \in LiveIds \ {id}
  BY <1>3, <1>4 DEF Live, LiveIds
<1>5. ASSUME NEW j \in Live, slots[j].id # id PROVE slots[j].id \in LiveIds'
  BY <1>3, <1>5 DEF Live, LiveIds
<1>6. QED
  BY <1>2, <1>4, <1>5 DEF LiveIds

\* The last step of a tick: the slot at i leaves the live ids.
LEMMA StepReturnsDoneLeaves ==
    ASSUME IInv, StepReturnsDone
    PROVE  slots[i].id \in LiveIds /\ LiveIds' = LiveIds \ {slots[i].id}
<1>1. /\ slots \in Seq(Slot) /\ Len(slots) \in Nat
      /\ i \in 1..Len(slots) /\ slots[i] \in Slot
  BY DEF IInv, TypeOK, WalkInv, InWalk, StepReturnsDone
<1>2. slots[i].active
  BY Zenon DEF StepReturnsDone
<1>3. slots' = [slots EXCEPT ![i].active = FALSE]
  BY Zenon DEF IInv, StepReturnsDone
<1>4. /\ Len(slots') = Len(slots)
      /\ \A j \in 1..Len(slots) :
            slots'[j].id = slots[j].id /\ (slots'[j].active <=> slots[j].active /\ j # i)
  <2>1. [slots[i] EXCEPT !.active = FALSE] \in Slot
    BY <1>1 DEF Slot
  <2>2. QED
    BY <1>1, <1>3, <2>1, ExceptSeq DEF Slot
<1>5. Live' = Live \ {i} /\ i \in Live
  BY <1>1, <1>2, <1>4 DEF Live
<1>6. \A j \in Live : slots[j].id = slots[i].id => j = i
  BY <1>1 DEF IInv, ArrayInv, Live
<1>7. QED
  BY <1>4, <1>5, <1>6 DEF Live, LiveIds

\* The end of the walk keeps the live slots.
LEMMA EndWalkKeeps ==
    ASSUME IInv, EndWalk
    PROVE  LiveIds' = LiveIds
<1>1. slots \in Seq(Slot) /\ Compaction(slots, slots')
  BY DEF IInv, TypeOK, EndWalk
<1>2. /\ \A k \in 1..Len(slots') :
            \E j \in 1..Len(slots) : slots[j].active /\ slots'[k] = slots[j]
      /\ \A j \in 1..Len(slots) :
            slots[j].active => \E k \in 1..Len(slots') : slots'[k] = slots[j]
  BY <1>1, CompactionFacts
<1>3. ASSUME NEW k \in Live' PROVE slots'[k].id \in LiveIds
  BY <1>2, <1>3 DEF Live, LiveIds
<1>4. ASSUME NEW j \in Live PROVE slots[j].id \in LiveIds'
  BY <1>2, <1>4 DEF Live, LiveIds
<1>5. QED
  BY <1>3, <1>4 DEF LiveIds

\* Time passes in every slot and retires none.
LEMMA ElapseKeeps ==
    ASSUME IInv, Elapse
    PROVE  LiveIds' = LiveIds
<1>1. slots \in Seq(Slot) /\ Len(slots) \in Nat
  BY DEF IInv, TypeOK
<1> DEFINE later(j) == [slots[j] EXCEPT !.left = IF @ > 0 THEN @ - 1 ELSE 0]
<1>2. ASSUME NEW j \in 1..Len(slots)
      PROVE  later(j).id = slots[j].id /\ later(j).active = slots[j].active
  BY <1>1 DEF Slot
<1>3. slots' = [j \in 1..Len(slots) |-> later(j)]
  BY DEF Elapse
<1> HIDE DEF later
<1>4. /\ Len(slots') = Len(slots)
      /\ \A j \in 1..Len(slots) :
            slots'[j].id = slots[j].id /\ slots'[j].active = slots[j].active
  BY <1>1, <1>2, <1>3
<1>5. Live' = Live
  BY <1>4 DEF Live
<1>6. QED
  BY <1>4, <1>5 DEF Live, LiveIds

\* Every step of the clock is one of the promise or leaves it as it is.
LEMMA NextRefines ==
    ASSUME IInv, [Next]_vars
    PROVE  [Promise!Next]_<<AnimState, doneCalls>>
<1>1. ASSUME NEW d \in 1..MaxDuration, Start(d) PROVE Promise!Next
  BY <1>1, StartRefines
<1>2. ASSUME NEW id \in Ids, Cancel(id) PROVE Promise!Next
  <2>1. /\ Retire(id) /\ cancelled' = cancelled \cup {id}
        /\ UNCHANGED <<nextId, doneCalls>>
    BY <1>2, Zenon DEF Cancel
  <2>2. QED
    BY <2>1, RetireLeaves, OneLeaves
<1>3. ASSUME NEW id \in Ids, Finish(id) PROVE Promise!Next
  <2>1. /\ Retire(id) /\ doneCalls' = [doneCalls EXCEPT ![id] = @ + 1]
        /\ UNCHANGED <<nextId, cancelled>>
    BY <1>3, Zenon DEF Finish
  <2>2. QED
    BY <2>1, RetireLeaves, OneLeaves
<1>4. CASE StepReturnsDone
  <2>1. /\ doneCalls' = [doneCalls EXCEPT ![slots[i].id] = @ + 1]
        /\ UNCHANGED <<nextId, cancelled>>
    BY <1>4 DEF StepReturnsDone
  <2>2. QED
    BY <1>4, <2>1, StepReturnsDoneLeaves, OneLeaves
<1>5. CASE EndWalk
  <2>1. UNCHANGED <<nextId, cancelled, doneCalls>>
    BY <1>5, Zenon DEF EndWalk
  <2>2. QED
    BY <1>5, <2>1, EndWalkKeeps, SameLiveIds
<1>6. CASE Elapse
  <2>1. UNCHANGED <<nextId, cancelled, doneCalls>>
    BY <1>6, Zenon DEF Elapse
  <2>2. QED
    BY <1>6, <2>1, ElapseKeeps, SameLiveIds
<1>7. ASSUME UNCHANGED <<slots, nextId, cancelled, doneCalls>>
      PROVE  UNCHANGED <<AnimState, doneCalls>>
  BY <1>7, SameLiveIds DEF LiveIds, Live
<1>8. CASE \/ RequestRender \/ TimerFires \/ SkipInactive \/ CallStep
           \/ StepReturnsNoDone \/ StepReturnsAstray \/ DoneReturns \/ RenderReturns \/ UNCHANGED vars
  <2>1. UNCHANGED <<slots, nextId, cancelled, doneCalls>>
    BY <1>8, Zenon DEF RequestRender, TimerFires, SkipInactive, CallStep, StepReturnsNoDone,
                       StepReturnsAstray, DoneReturns, RenderReturns, clock, vars
  <2>2. QED
    BY <2>1, <1>7
<1>9. QED
  BY <1>1, <1>2, <1>3, <1>4, <1>5, <1>6, <1>8, Zenon DEF Next, Calls, Tick

-----------------------------------------------------------------------------
(* done called astray.                                                      *)

\* A step that starts no animation and calls no done astray.
LEMMA StraysStay ==
    ASSUME StrayInv, UNCHANGED strays, nextId' = nextId,
           pc' = "step" /\ dangling' =>
                pc = "step" /\ dangling /\ slots'[i'].id = slots[i].id
    PROVE  StrayInv'
<1>1. strayCalls' = strayCalls /\ starter' = starter
  BY DEF strays
<1>2. \A id : StartedBy(id)' = StartedBy(id)
  BY <1>1 DEF StartedBy
<1>3. QED
  BY <1>1, <1>2 DEF StrayInv

\* aiwr_anim_start: one more animation that the running step has started.
LEMMA StartStrays ==
    ASSUME IInv, StrayInv, NEW duration \in 1..MaxDuration, Start(duration)
    PROVE  StrayInv'
<1>0. /\ slots \in Seq(Slot) /\ nextId \in 1..(MaxAnims + 1)
      /\ strayCalls \in [Ids -> Nat] /\ starter \in [Ids -> 0..MaxAnims]
  BY DEF IInv, TypeOK
<1>15. nextId <= MaxAnims /\ nextId' = nextId + 1 /\ UNCHANGED <<pc, i, strayCalls>>
  BY DEF Start
<1>1. /\ slots \in Seq(Slot) /\ Len(slots) \in Nat /\ nextId \in Ids /\ nextId' = nextId + 1
      /\ strayCalls \in [Ids -> Nat] /\ starter \in [Ids -> 0..MaxAnims]
      /\ UNCHANGED <<pc, i, strayCalls>>
  BY <1>0, <1>15, AnimClockAssumption DEF Ids
<1>14. PICK by : by = IF pc = "step" THEN slots[i].id ELSE 0
  OBVIOUS
<1>2. starter' = [starter EXCEPT ![nextId] = by]
  BY <1>14 DEF Start
<1>3. pc = "step" => i \in 1..Len(slots) /\ slots[i] \in Slot /\ slots'[i] = slots[i]
  BY <1>1 DEF Start, IInv, TypeOK, WalkInv, InWalk
<1>4. pc = "step" => by \in Ids /\ slots'[i].id = by
  BY <1>3, <1>14 DEF Slot
<1>6. starter[nextId] = 0 /\ \A id \in Ids : id \in Nat /\ id # 0
  BY <1>1 DEF StrayInv, Ids
<1>7. ASSUME NEW id \in Ids
      PROVE  StartedBy(id)' = IF id = by THEN StartedBy(id) \cup {nextId} ELSE StartedBy(id)
  BY <1>1, <1>2, <1>6 DEF StartedBy
<1>8. ASSUME NEW id \in Ids
      PROVE  /\ IsFiniteSet(StartedBy(id)) /\ nextId \notin StartedBy(id)
             /\ Cardinality(StartedBy(id)) \in Nat
  <2>1. IsFiniteSet(Ids)
    BY FS_Interval, AnimClockAssumption DEF Ids
  <2>2. StartedBy(id) \subseteq Ids /\ nextId \notin StartedBy(id)
    BY <1>6 DEF StartedBy
  <2>3. QED
    BY <2>1, <2>2, FS_Subset, FS_CardinalityType
<1>9. ASSUME NEW id \in Ids
      PROVE  /\ Cardinality(StartedBy(id)') \in Nat
             /\ Cardinality(StartedBy(id)') =
                  IF id = by THEN Cardinality(StartedBy(id)) + 1 ELSE Cardinality(StartedBy(id))
  <2>1. Cardinality(StartedBy(id) \cup {nextId}) = Cardinality(StartedBy(id)) + 1
    BY <1>8, FS_AddElement
  <2>2. CASE id = by
    BY <1>7, <1>8, <2>1, <2>2
  <2>3. CASE id # by
    BY <1>7, <1>8, <2>3
  <2>4. QED
    BY <2>2, <2>3
<1>10. \A id \in Ids : strayCalls'[id] <= Cardinality(StartedBy(id)')
  BY <1>1, <1>8, <1>9 DEF StrayInv
<1>11. pc = "step" => strayCalls'[by] < Cardinality(StartedBy(by)')
  <2>1. SUFFICES ASSUME pc = "step" PROVE strayCalls'[by] < Cardinality(StartedBy(by)')
    OBVIOUS
  <2>2. by \in Ids /\ strayCalls[by] <= Cardinality(StartedBy(by)) /\ strayCalls'[by] = strayCalls[by]
    BY <2>1, <1>1, <1>4 DEF StrayInv
  <2>3. Cardinality(StartedBy(by)') = Cardinality(StartedBy(by)) + 1
    BY <2>2, <1>9
  <2>4. strayCalls[by] \in Nat /\ Cardinality(StartedBy(by)) \in Nat
    BY <2>2, <1>1, <1>8
  <2>5. QED
    BY <2>2, <2>3, <2>4
<1>12. \A id \in Ids : id >= nextId' => starter'[id] = 0
  BY <1>1, <1>2 DEF StrayInv, Ids
<1>13. QED
  <2>1. ASSUME pc' = "step"
        PROVE  (strayCalls[slots[i].id] < Cardinality(StartedBy(slots[i].id)))'
    <3>1. pc = "step" /\ slots'[i'].id = by
      BY <1>1, <1>4, <2>1
    <3>2. StartedBy(slots[i].id)' = StartedBy(by)'
      BY <3>1 DEF StartedBy
    <3>3. QED
      BY <1>11, <3>1, <3>2
  <2>2. QED
    BY <1>10, <1>12, <2>1 DEF StrayInv

LEMMA NextStrays ==
    ASSUME IInv, StrayInv, [Next]_vars
    PROVE  StrayInv'
<1>1. ASSUME NEW d \in 1..MaxDuration, Start(d) PROVE StrayInv'
  BY <1>1, StartStrays
<1>2. ASSUME NEW id \in Ids, Cancel(id) \/ Finish(id) PROVE StrayInv'
  <2>1. Retire(id) /\ UNCHANGED strays /\ nextId' = nextId /\ UNCHANGED <<pc, i, dangling>>
    BY <1>2, Zenon DEF Cancel, Finish, walk
  <2>2. ASSUME pc = "step" PROVE slots'[i].id = slots[i].id
    <3>1. inTick /\ i \in 1..Len(slots)
      BY <2>2 DEF IInv, TypeOK, WalkInv, InWalk
    <3>2. QED
      BY <2>1, <3>1, RetireFacts DEF IInv
  <2>3. QED
    BY <2>1, <2>2, StraysStay
<1>3. CASE StepReturnsAstray
  <2>1. /\ pc = "step" /\ dangling /\ pc' = "done"
        /\ UNCHANGED <<slots, nextId, i, starter>>
        /\ strayCalls' = [strayCalls EXCEPT ![slots[i].id] = @ + 1]
    BY <1>3 DEF StepReturnsAstray, clock
  <2>2. \A id : StartedBy(id)' = StartedBy(id)
    BY <2>1 DEF StartedBy
  <2>3. strayCalls \in [Ids -> Nat] /\ \A id \in Ids : Cardinality(StartedBy(id)) \in Nat
    <3>1. IsFiniteSet(Ids) /\ \A id : StartedBy(id) \subseteq Ids
      BY FS_Interval, AnimClockAssumption DEF Ids, StartedBy
    <3>2. QED
      BY <3>1, FS_Subset, FS_CardinalityType DEF IInv, TypeOK
  <2>4. \A id \in Ids : strayCalls'[id] <= Cardinality(StartedBy(id))
    BY <2>1, <2>3 DEF StrayInv
  <2>5. QED
    BY <2>1, <2>2, <2>4 DEF StrayInv
<1>4. CASE StepReturnsDone
  <2>1. pc' = "done" /\ UNCHANGED strays /\ nextId' = nextId
    BY <1>4 DEF StepReturnsDone
  <2>2. QED
    BY <2>1, StraysStay
<1>5. CASE Elapse
  <2>1. UNCHANGED strays /\ nextId' = nextId /\ UNCHANGED <<pc, i, dangling>>
    BY <1>5 DEF Elapse, walk
  <2>2. ASSUME pc = "step" PROVE slots'[i].id = slots[i].id
    <3>1. slots \in Seq(Slot) /\ i \in 1..Len(slots)
      BY <2>2 DEF IInv, TypeOK, WalkInv, InWalk
    <3>2. slots[i] \in Slot /\ \E x : slots'[i] = [slots[i] EXCEPT !.left = x]
      <4>1. \A j \in 1..Len(slots) :
              slots'[j] = [slots[j] EXCEPT !.left = IF slots[j].left > 0 THEN slots[j].left - 1 ELSE 0]
        BY <1>5 DEF Elapse
      <4>2. slots[i] \in Slot
        BY <3>1
      <4>3. QED
        BY <3>1, <4>1, <4>2
    <3>3. QED
      BY <3>2 DEF Slot
  <2>3. QED
    BY <2>1, <2>2, StraysStay
<1>6. CASE CallStep \/ EndWalk
  <2>1. /\ UNCHANGED strays /\ nextId' = nextId
        /\ pc' # "step" \/ dangling' = FALSE
    BY <1>6, Zenon DEF CallStep, EndWalk, clock
  <2>2. QED
    BY <2>1, StraysStay
<1>7. CASE \/ RequestRender \/ TimerFires \/ SkipInactive \/ StepReturnsNoDone
           \/ DoneReturns \/ RenderReturns \/ UNCHANGED vars
  <2>1. /\ UNCHANGED strays /\ nextId' = nextId
        /\ pc' # "step" \/ UNCHANGED <<pc, i, dangling, slots>>
    BY <1>7, Zenon DEF RequestRender, TimerFires, SkipInactive, StepReturnsNoDone, DoneReturns,
                       RenderReturns, clock, walk, vars, strays
  <2>2. QED
    BY <2>1, StraysStay
<1>8. QED
  BY <1>1, <1>2, <1>3, <1>4, <1>5, <1>6, <1>7, Zenon DEF Next, Calls, Tick

-----------------------------------------------------------------------------
LEMMA SpecInv == Spec => []IInv
<1>1. IInv /\ [Next]_vars => IInv'
  BY NextInv
<1>2. QED
  BY InitInv, <1>1, PTL DEF Spec

LEMMA SpecStrays == Spec => []StrayInv
<1>1. Init => StrayInv
  <2>1. SUFFICES ASSUME Init PROVE StrayInv
    OBVIOUS
  <2>2. ASSUME NEW id \in Ids PROVE strayCalls[id] <= Cardinality(StartedBy(id))
    <3>1. StartedBy(id) = {} /\ strayCalls[id] = 0
      BY <2>1 DEF Init, StartedBy, Ids
    <3>2. QED
      BY <3>1, FS_EmptySet
  <2>3. QED
    BY <2>1, <2>2 DEF Init, StrayInv
<1>2. IInv /\ StrayInv /\ [Next]_vars => StrayInv'
  BY NextStrays
<1>3. QED
  BY SpecInv, <1>1, <1>2, PTL DEF Spec

\* The clock's state stays well formed.
THEOREM ClockTypeOK == Spec => []TypeOK
<1>1. IInv => TypeOK
  BY DEF IInv
<1>2. QED
  BY SpecInv, <1>1, PTL

\* done is called at most once for each animation, and astray not more often than
\* the animation's own steps have started others, whatever srealloc does to the array.
THEOREM ClockDoneAtMostOnce == Spec => []DoneAtMostOnce
<1>1. IInv /\ StrayInv => DoneAtMostOnce
  BY DEF IInv, DoneOnce, StrayInv, DoneAtMostOnce
<1>2. QED
  BY SpecInv, SpecStrays, <1>1, PTL

\* In the event loop the timer runs exactly when there are animations.
THEOREM ClockTimerIffSlots == Spec => []TimerIffSlots
<1>1. IInv => TimerIffSlots
  BY Zenon DEF IInv, TimerInv, TimerIffSlots
<1>2. QED
  BY SpecInv, <1>1, PTL

\* A tick steps only the animations that were there when it began.
THEOREM ClockCreatedInStepWaits == Spec => []CreatedInStepWaits
<1>1. IInv => CreatedInStepWaits
  BY DEF IInv, WalkInv, CreatedInStepWaits
<1>2. QED
  BY SpecInv, <1>1, PTL

\* A cancelled animation's done is never called, unless the step that cancels it has
\* moved the array.
THEOREM ClockNoDoneAfterCancel == Spec => NoDoneAfterCancel
<1>1. IInv /\ [Next]_vars => [CancelledHearNothing]_vars
  BY NextNoDoneAfterCancel
<1>2. QED
  BY SpecInv, <1>1, PTL DEF Spec, NoDoneAfterCancel

\* The clock keeps the promise its owners rely on, whatever its callbacks call: each
\* animation ends at most once, by itself or cancelled, and nothing that happens to
\* the array or to the others ends it.  Calls of done astray, which DoneAtMostOnce
\* counts, change the state of no animation.
THEOREM ClockImplementsAnimations == Spec => ImplementsAnimations
<1>1. IInv /\ [Next]_vars => [Promise!Next]_<<AnimState, doneCalls>>
  BY NextRefines
<1>2. QED
  BY SpecInv, InitRefines, <1>1, PTL DEF Spec, ImplementsAnimations, Promise!Spec

\* The safety of the clock for any number of animations of any duration.
THEOREM ClockSafe == Spec => []ClockSafety
<1>1. TypeOK /\ DoneAtMostOnce /\ TimerIffSlots /\ CreatedInStepWaits => ClockSafety
  BY DEF ClockSafety
<1>2. QED
  BY ClockTypeOK, ClockDoneAtMostOnce, ClockTimerIffSlots, ClockCreatedInStepWaits, <1>1, PTL

-----------------------------------------------------------------------------
(* No animation misses its step: those that a walk has yet to visit are ahead *)
(* of its index and still active, unless they are over.                     *)

Over(id) == id \in cancelled \/ doneCalls[id] > 0
Ahead(id) == \E j \in i..n : slots[j].active /\ slots[j].id = id

DueInv ==
    /\ \A id \in due : id \in stepped \/ Over(id) \/ (InWalk /\ Ahead(id))
    /\ pc \in {"step", "done"} => slots[i].id \in stepped

\* Within a walk, slots keep their place and an animation that leaves is over.
LEMMA SlotsStay ==
    ASSUME IInv, DueInv, UNCHANGED <<pc, n, i, due, stepped>>,
           \A id \in Ids : Over(id) => Over(id)',
           InWalk => \A j \in 1..n : /\ slots'[j].id = slots[j].id
                                     /\ slots[j].active => slots'[j].active \/ Over(slots[j].id)'
    PROVE  DueInv'
<1>1. n \in Nat /\ i \in Nat \ {0} /\ due \subseteq Ids
  BY DEF IInv, TypeOK
<1>2. \A j \in i..n : j \in 1..n
  BY <1>1
<1>3. pc \in {"step", "done"} => i \in 1..n
  BY <1>1 DEF IInv, WalkInv
<1>4. InWalk' = InWalk
  BY DEF InWalk
<1>5. ASSUME NEW id \in due PROVE id \in stepped \/ Over(id)' \/ (InWalk' /\ Ahead(id)')
  <2>1. CASE id \in stepped \/ Over(id)
    BY <1>1, <2>1
  <2>2. CASE InWalk /\ Ahead(id)
    <3>1. PICK j \in i..n : slots[j].active /\ slots[j].id = id
      BY <2>2 DEF Ahead
    <3>2. slots'[j].id = id /\ (slots'[j].active \/ Over(id)')
      BY <1>2, <2>2, <3>1
    <3>3. QED
      BY <1>4, <2>2, <3>2 DEF Ahead
  <2>3. QED
    BY <1>5, <2>1, <2>2 DEF DueInv
<1>6. pc \in {"step", "done"} => slots'[i].id \in stepped
  BY <1>3 DEF DueInv, InWalk
<1>7. QED
  BY <1>5, <1>6 DEF DueInv

LEMMA RetireDue ==
    ASSUME IInv, DueInv, NEW id \in Ids, Retire(id),
           UNCHANGED <<pc, n, i, due, stepped>>, Over(id)',
           \A a \in Ids : Over(a) => Over(a)'
    PROVE  DueInv'
<1>1. /\ slots' \in Seq(Slot) /\ slots \in Seq(Slot) /\ Len(slots) \in Nat
      /\ \A j \in 1..Len(slots) : slots[j].active /\ slots[j].id # id =>
           \E k \in 1..Len(slots') : slots'[k].id = slots[j].id /\ slots'[k].active
      /\ \A j, k \in 1..Len(slots') : slots'[j].id = slots'[k].id => j = k
      /\ inTick => /\ Len(slots') = Len(slots)
                   /\ \A j \in 1..Len(slots) : slots'[j].id = slots[j].id
  BY RetireFacts DEF IInv, TypeOK
<1>2. ASSUME InWalk, NEW j \in 1..n
      PROVE  /\ slots'[j].id = slots[j].id
             /\ slots[j].active => slots'[j].active \/ Over(slots[j].id)'
  <2>1. inTick /\ j \in 1..Len(slots)
    <3>1. inTick /\ n <= Len(slots) /\ n \in Nat
      BY <1>2 DEF IInv, WalkInv, TypeOK
    <3>2. QED
      BY <1>1, <3>1
  <2>2. slots'[j].id = slots[j].id
    BY <1>1, <2>1
  <2>3. ASSUME slots[j].active, slots[j].id # id PROVE slots'[j].active
    <3>1. PICK k \in 1..Len(slots') : slots'[k].id = slots[j].id /\ slots'[k].active
      BY <1>1, <2>1, <2>3
    <3>2. k = j
      BY <1>1, <2>1, <2>2, <3>1
    <3>3. QED
      BY <3>1, <3>2
  <2>4. QED
    BY <2>2, <2>3
<1>3. QED
  BY <1>2, SlotsStay

\* The walk goes on from a slot that is not active, or was stepped.
LEMMA WalkOn ==
    ASSUME IInv, DueInv, UNCHANGED <<slots, n, due, stepped, cancelled, doneCalls>>, i' = i + 1,
           InWalk, InWalk', pc' = "visit", ~slots[i].active \/ slots[i].id \in stepped
    PROVE  DueInv'
<1>1. n \in Nat /\ i \in Nat \ {0}
  BY DEF IInv, TypeOK
<1>2. ASSUME NEW id \in due, Ahead(id) PROVE id \in stepped \/ Ahead(id)'
  <2>1. PICK j \in i..n : slots[j].active /\ slots[j].id = id
    BY <1>2 DEF Ahead
  <2>2. CASE j = i
    BY <2>1, <2>2
  <2>3. CASE j # i
    <3>1. j \in (i + 1)..n
      BY <1>1, <2>1, <2>3
    <3>2. QED
      BY <2>1, <3>1 DEF Ahead
  <2>4. QED
    BY <2>2, <2>3
<1>3. \A id : Over(id)' <=> Over(id)
  BY DEF Over
<1>4. QED
  BY <1>2, <1>3 DEF DueInv

LEMMA NextDue ==
    ASSUME IInv, IInv', DueInv, [Next]_vars
    PROVE  DueInv'
<1>1. /\ slots \in Seq(Slot) /\ Len(slots) \in Nat /\ n \in Nat /\ i \in Nat \ {0} /\ due \subseteq Ids
      /\ doneCalls \in [Ids -> Nat]
  BY DEF IInv, TypeOK
<1>2. ASSUME NEW d \in 1..MaxDuration, Start(d) PROVE DueInv'
  <2>1. \A j \in 1..Len(slots) : slots'[j] = slots[j]
    BY <1>1, <1>2 DEF Start
  <2>2. InWalk => n <= Len(slots)
    BY DEF IInv, WalkInv
  <2>3. /\ UNCHANGED <<pc, n, i, due, stepped>> /\ (\A id \in Ids : Over(id) => Over(id)')
        /\ InWalk => \A j \in 1..n : slots'[j] = slots[j]
    BY <1>1, <1>2, <2>1, <2>2 DEF Start, Over
  <2>4. QED
    BY <2>3, SlotsStay
<1>3. ASSUME NEW id \in Ids, Cancel(id) PROVE DueInv'
  <2>1. /\ Retire(id) /\ UNCHANGED <<pc, n, i, due, stepped>>
        /\ Over(id)' /\ \A a \in Ids : Over(a) => Over(a)'
    BY <1>3 DEF Cancel, walk, Over
  <2>2. QED
    BY <2>1, RetireDue
<1>4. ASSUME NEW id \in Ids, Finish(id) PROVE DueInv'
  <2>1. /\ Retire(id) /\ UNCHANGED <<pc, n, i, due, stepped, cancelled>>
        /\ doneCalls' = [doneCalls EXCEPT ![id] = @ + 1]
    BY <1>4 DEF Finish, walk
  <2>2. Over(id)' /\ \A a \in Ids : Over(a) => Over(a)'
    BY <1>1, <2>1 DEF Over
  <2>3. QED
    BY <2>1, <2>2, RetireDue
<1>5. CASE RequestRender \/ UNCHANGED vars
  <2>1. UNCHANGED <<slots, pc, n, i, due, stepped, cancelled, doneCalls>>
    BY <1>5 DEF RequestRender, clock, walk, vars
  <2>2. QED
    BY <2>1 DEF DueInv, Over, InWalk, Ahead
<1>6. CASE TimerFires
  <2>1. /\ pc' = "visit" /\ n' = Len(slots) /\ i' = 1 /\ UNCHANGED slots
        /\ due' = {slots[j].id : j \in Live}
    BY <1>6 DEF TimerFires, clock, LiveIds
  <2>2. QED
    BY <1>1, <2>1 DEF DueInv, InWalk, Ahead, Live
<1>7. CASE SkipInactive
  BY <1>7, WalkOn DEF SkipInactive, InWalk, clock
<1>8. CASE CallStep
  <2>1. /\ pc = "visit" /\ pc' = "step" /\ stepped' = stepped \cup {slots[i].id}
        /\ UNCHANGED <<slots, n, i, due, cancelled, doneCalls>>
    BY <1>8 DEF CallStep, clock
  <2>2. QED
    BY <2>1 DEF DueInv, Over, InWalk, Ahead
<1>9. CASE StepReturnsNoDone
  BY <1>9, WalkOn DEF StepReturnsNoDone, InWalk, clock, DueInv
<1>10. CASE StepReturnsDone
  <2>1. /\ pc = "step" /\ pc' = "done" /\ UNCHANGED <<n, i, due, stepped, cancelled>>
        /\ doneCalls' = [doneCalls EXCEPT ![slots[i].id] = @ + 1]
        /\ slots' = [slots EXCEPT ![i].active = FALSE]
    BY <1>10 DEF StepReturnsDone, IInv
  <2>2. /\ i \in 1..Len(slots) /\ slots[i].id \in Ids /\ slots[i].id \in stepped /\ n <= Len(slots)
    BY <1>1, <2>1 DEF IInv, WalkInv, InWalk, DueInv, Slot
  <2>3. \A j \in 1..Len(slots) : /\ slots'[j].id = slots[j].id
                                 /\ j # i => slots'[j].active = slots[j].active
    <3> DEFINE e == [slots[i] EXCEPT !.active = FALSE]
    <3>1. \A s \in Slot : [s EXCEPT !.active = FALSE].id = s.id /\ [s EXCEPT !.active = FALSE] \in Slot
      BY DEF Slot
    <3>2. e.id = slots[i].id /\ e \in Slot /\ slots' = [slots EXCEPT ![i] = e]
      BY <1>1, <2>1, <2>2, <3>1
    <3> HIDE DEF e
    <3>3. \A j \in 1..Len(slots) : [slots EXCEPT ![i] = e][j] = IF j = i THEN e ELSE slots[j]
      BY <1>1, <2>2, <3>2, ExceptSeq
    <3>4. QED
      BY <3>2, <3>3
  <2>4. \A id \in Ids : Over(id) => Over(id)'
    BY <1>1, <2>1, <2>2 DEF Over
  <2>5. ASSUME NEW id \in due, Ahead(id) PROVE id \in stepped \/ Ahead(id)'
    <3>1. PICK j \in i..n : slots[j].active /\ slots[j].id = id
      BY <2>5 DEF Ahead
    <3>2. j \in 1..Len(slots)
      BY <1>1, <2>2, <3>1
    <3>3. CASE j = i
      BY <2>2, <3>1, <3>3
    <3>4. CASE j # i
      BY <2>1, <2>3, <3>1, <3>2, <3>4 DEF Ahead
    <3>5. QED
      BY <3>3, <3>4
  <2>6. QED
    BY <1>1, <2>1, <2>2, <2>3, <2>4, <2>5 DEF DueInv, InWalk
<1>11. CASE DoneReturns
  BY <1>11, WalkOn DEF DoneReturns, InWalk, clock, DueInv
<1>15. CASE StepReturnsAstray
  <2>1. /\ pc = "step" /\ pc' = "done"
        /\ UNCHANGED <<slots, n, i, due, stepped, cancelled, doneCalls>>
    BY <1>15 DEF StepReturnsAstray, clock
  <2>2. QED
    BY <2>1 DEF DueInv, Over, InWalk, Ahead
<1>12. CASE EndWalk \/ RenderReturns
  <2>1. /\ pc' \in {"loop", "render"} /\ pc \in {"visit", "render"} /\ (pc = "visit" => i > n)
        /\ UNCHANGED <<due, stepped, cancelled, doneCalls>>
    BY <1>12 DEF EndWalk, RenderReturns
  <2>2. InWalk => \A id : ~Ahead(id)
    BY <1>1, <2>1 DEF InWalk, Ahead
  <2>3. QED
    BY <2>1, <2>2 DEF DueInv, Over
<1>13. CASE Elapse
  <2>1. /\ UNCHANGED <<pc, n, i, due, stepped, cancelled, doneCalls>>
        /\ slots' = [j \in 1..Len(slots) |-> [slots[j] EXCEPT !.left = IF @ > 0 THEN @ - 1 ELSE 0]]
    BY <1>13 DEF Elapse, walk
  <2>2. \A j \in 1..Len(slots) : slots'[j].id = slots[j].id /\ slots'[j].active = slots[j].active
    <3>1. \A s \in Slot : \A x : [s EXCEPT !.left = x].id = s.id /\ [s EXCEPT !.left = x].active = s.active
      BY DEF Slot
    <3>2. \A j \in 1..Len(slots) : slots[j] \in Slot
      BY <1>1
    <3>3. \A j \in 1..Len(slots) : \E x : slots'[j] = [slots[j] EXCEPT !.left = x]
      BY <2>1
    <3>4. ASSUME NEW j \in 1..Len(slots) PROVE slots'[j].id = slots[j].id /\ slots'[j].active = slots[j].active
      <4>1. PICK x : slots'[j] = [slots[j] EXCEPT !.left = x]
        BY <3>3
      <4>2. [slots[j] EXCEPT !.left = x].id = slots[j].id /\ [slots[j] EXCEPT !.left = x].active = slots[j].active
        BY <3>1, <3>2, Zenon
      <4>3. QED
        BY <4>1, <4>2
    <3>5. QED
      BY <3>4
  <2>3. /\ InWalk => \A j \in 1..n : /\ slots'[j].id = slots[j].id
                                     /\ slots[j].active => slots'[j].active
        /\ \A id \in Ids : Over(id) => Over(id)'
    BY <1>1, <2>1, <2>2 DEF IInv, WalkInv, Over
  <2>4. QED
    BY <2>1, <2>3, SlotsStay
<1>14. QED
  BY <1>2, <1>3, <1>4, <1>5, <1>6, <1>7, <1>8, <1>9, <1>10, <1>11, <1>12, <1>13, <1>15 DEF Next, Calls, Tick

\* For any number of animations: when a tick is over, each of those that were alive
\* when it began has had its step, unless it was cancelled or finished on the way
\* (anim_tick walks an array that its callbacks mark and append to).
THEOREM ClockStepsAll == Spec => []EveryLiveSlotStepped
<1>1. Init => DueInv
  BY DEF Init, DueInv
<1>2. IInv /\ IInv' /\ DueInv /\ [Next]_vars => DueInv'
  BY NextDue
<1>3. IInv /\ DueInv => EveryLiveSlotStepped
  BY DEF IInv, WalkInv, DueInv, Over, EveryLiveSlotStepped
<1>4. QED
  BY <1>1, <1>2, <1>3, SpecInv, PTL DEF Spec
=============================================================================
