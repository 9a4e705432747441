----------------------------- MODULE MCStateRelay -----------------------------
(* A variable, and a reading of a device that its driver declares low.     *)
EXTENDS StateRelay

RoomKeys  == {"var.mode", "device.cam.temp"}
RoomTiers == [k \in RoomKeys |-> IF k = "var.mode" THEN "top" ELSE "low"]
=============================================================================
