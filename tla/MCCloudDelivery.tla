--------------------------- MODULE MCCloudDelivery ---------------------------
(* Two state batches, a heartbeat and an alert through a small buffer.     *)
EXTENDS CloudDelivery

SmallTraffic  == {"batch", "batch2", "heartbeat", "alert"}
SmallPriority == [m \in SmallTraffic |-> CASE m = "heartbeat" -> 2
                                           [] m = "alert" -> 4
                                           [] OTHER -> 0]
=============================================================================
