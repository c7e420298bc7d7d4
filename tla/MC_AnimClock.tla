---------------------------- MODULE MC_AnimClock ----------------------------
(***************************************************************************)
(* The clock on its own, with callbacks that do anything the interface lets *)
(* them do; the constants are given in the configuration.  Left out of the  *)
(* view of a state: the walk's variables once it is over, which the next    *)
(* tick sets anew, but for what the properties say of them, and of the calls *)
(* astray all but how many the starts leave room for.                       *)
(***************************************************************************)
EXTENDS AnimClock

Walk == IF inTick THEN <<n, i, late, dangling, due, stepped>>
                  ELSE <<EveryLiveSlotStepped, CreatedInStepWaits>>
Room == [id \in Ids |-> Cardinality(StartedBy(id)) - strayCalls[id]]
View == <<slots, nextId, timerRunning, renderWanted, inTick, pc, Walk,
          doneCalls, Room, cancelled>>
=============================================================================
