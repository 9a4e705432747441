---------------------------- MODULE MCMacroEngine ----------------------------
(* Small projects on which TLC checks MacroEngine.                         *)
EXTENDS MacroEngine, TLC

Sym == Permutations(Task)

Work   == [do |-> "work", calls |-> NoMacro, guarded |-> FALSE, timeout |-> "never"]
Opt    == [Work EXCEPT !.guarded = TRUE]
Call(m) == [Work EXCEPT !.do = "call", !.calls = m]
Wait(w) == [Work EXCEPT !.do = "wait", !.timeout = w]

(* A show calls a scene (overlap queue, stops on error), which calls a     *)
(* shared macro (overlap skip, stops on error) that waits for a device and *)
(* may call the scene: circular, unless it was run on its own.  The show   *)
(* and the shared macro are of one cancel group.                           *)
SceneMacros  == {"show", "scene", "shared"}
SceneSteps   == [show |-> <<Call("scene"), Opt, Wait("continue")>>,
                 scene |-> <<Call("shared")>>,
                 shared |-> <<Wait("fail"), [Call("scene") EXCEPT !.guarded = TRUE]>>]
SceneGroup   == [show |-> "lights", scene |-> NoGroup, shared |-> "lights"]
SceneOverlap == [show |-> "allow", scene |-> "queue", shared |-> "skip"]

(* Two macros of one cancel group, for three tasks: two starts of the show *)
(* (overlap queue, cooldown) may queue behind a third, wake together, give *)
(* up, preempt the lamp and be preempted by it.  An edit drops the show    *)
(* and another brings it back, so that a start may queue while the         *)
(* definitions are swapped, and go on after that.                          *)
LampMacros   == {"show", "lamp"}
LampSteps    == [show |-> <<>>, lamp |-> <<Opt>>]
LampGroup    == [m \in LampMacros |-> "lights"]
LampOverlap  == [show |-> "queue", lamp |-> "allow"]
LampProjects == {{"lamp"}, LampMacros}
=============================================================================
