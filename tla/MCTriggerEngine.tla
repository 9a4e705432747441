--------------------------- MODULE MCTriggerEngine ---------------------------
(* Four triggers of one macro.  One project has a debounced and delayed    *)
(* trigger and one that queues behind it, the other a trigger that may     *)
(* overlap itself and one that fires at startup.                           *)
EXTENDS TriggerEngine

RoomTarget   == [auto |-> "off", after |-> "off", log |-> "off", boot |-> "off"]
RoomOverlap  == [auto |-> "skip", after |-> "queue", log |-> "allow", boot |-> "skip"]
=============================================================================
