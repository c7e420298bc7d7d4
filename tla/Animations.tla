------------------------------ MODULE Animations ------------------------------
(***************************************************************************)
(* What the owners of animations rely on, without the array, the walk and  *)
(* the timer of AnimClock: an animation is started once, and is over by    *)
(* itself, with one call of its done callback, or because its owner has    *)
(* cancelled it, without one.  Animations do not affect each other.        *)
(***************************************************************************)
EXTENDS Naturals

CONSTANT MaxAnims       \* bound: how many animations are ever started

Ids == 1..MaxAnims

VARIABLES
    state,              \* of each animation
    doneCalls           \* how often its done callback has been called

States == {"new", "running", "done", "cancelled"}

Init ==
    /\ state = [id \in Ids |-> "new"]
    /\ doneCalls = [id \in Ids |-> 0]

Begin(id) ==
    /\ state[id] = "new"
    /\ state' = [state EXCEPT ![id] = "running"]
    /\ UNCHANGED doneCalls

End(id) ==
    /\ state[id] = "running"
    /\ state' = [state EXCEPT ![id] = "done"]
    /\ doneCalls' = [doneCalls EXCEPT ![id] = @ + 1]

Drop(id) ==
    /\ state[id] = "running"
    /\ state' = [state EXCEPT ![id] = "cancelled"]
    /\ UNCHANGED doneCalls

\* A handler that cancels some animations (those that are over already are
\* left alone) and starts others.
Calls(begun, dropped) ==
    /\ \A id \in begun : state[id] = "new"
    /\ state' = [id \in Ids |-> IF id \in begun THEN "running"
                              ELSE IF id \in dropped /\ state[id] = "running" THEN "cancelled"
                              ELSE state[id]]
    /\ UNCHANGED doneCalls

\* aiwr_anim_start takes the next id.
NextIds == {id \in Ids : state[id] = "new" /\ \A k \in 1..(id - 1) : state[k] # "new"}

Next == \E id \in Ids : Begin(id) \/ End(id) \/ Drop(id)

Spec == Init /\ [][Next]_<<state, doneCalls>>
=============================================================================
