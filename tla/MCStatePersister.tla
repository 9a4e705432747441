--------------------------- MODULE MCStatePersister ---------------------------
(* A room with two variables whose programmer changes what is persistent:  *)
(* from the one project to the other `mode' is deleted and `source' becomes *)
(* persistent; on the way back `source' is kept and no longer persistent    *)
(* and `mode' is new.                                                       *)
EXTENDS StatePersister

RoomDefault  == [k \in Var |-> "off"]
RoomProjects == {[vars |-> Var, persist |-> {"mode"}],
                 [vars |-> {"source"}, persist |-> {"source"}]}
=============================================================================
