----------------------- MODULE DeviceLifecycle_proofs -----------------------
(***************************************************************************)
(* Proofs about DeviceLifecycle: type correctness, and each of its safety  *)
(* properties, in the order of the invariants they rest on.                *)
(*                                                                         *)
(*   IInv      one removal at a time, the backstop of a pause, and what a  *)
(*             replaced instance can still have                            *)
(*   Basics    who runs which request, and which attempt is whose          *)
(*   PauseInv  what keeps a pause: nothing that could end it is under way  *)
(*   CardInv   where the card is wrong, a step is under way that mends it  *)
(*   CaredInv  where the device is down, somebody minds it                 *)
(*                                                                         *)
(* A lemma ...Step says that a step keeps an invariant, a lemma ...Moves   *)
(* what a step makes of a fact that it may end.  Each has one case per     *)
(* action, in the order of Next.                                           *)
(***************************************************************************)
EXTENDS DeviceLifecycle, TLAPS

Removal     == {"update", "carry", "remove"}
Removing(p) == op[p] \in Removal /\ pc[p] # "idle"

(* One removal at a time; it holds the registered instance up to its       *)
(* disconnect, and then there is none until it registers the next.         *)
Removals ==
    /\ \A p, q \in Coroutine : Removing(p) /\ Removing(q) => p = q
    /\ \A p \in Coroutine : Removing(p) =>
          /\ pc[p] \in {"entering", "cancelling", "closing"}
          /\ pc[p] = "closing" => inst = None
          /\ pc[p] # "closing" => drv[p] = inst
          /\ op[p] \in {"update", "carry"} => made < MaxInstances
    /\ op["loop"] = "loop" /\ op["worker"] = "bring up"
    /\ op["timer"] = "resume"

(* What an instance that is not the device's can still have: a connection  *)
(* that the disconnect of its removal is about to close.                   *)
ToBeClosed(i) ==
    \E p \in Coroutine : Removing(p) /\ pc[p] = "closing" /\ drv[p] = i

Left ==
    "superseded" \notin notes =>
        \A i \in Instance \ {inst} :
            attempt[i] = None /\ (conn[i] => ToBeClosed(i))

IInv == TypeOK /\ Removals /\ PauseHasBackstop /\ Left

LEMMA OneMore ==
  ASSUME NEW m \in Nat, NEW n \in 0..m, n < m
  PROVE  n + 1 \in 0..m
  OBVIOUS

LEMMA OneInstance == 1 \in Instance
<1>1. MaxInstances \in Nat \ {0}
  BY LifecycleAssumption
<1> QED  BY <1>1 DEF Instance

LEMMA NoneYet == 0 \in 0..MaxPresses /\ 0 \in 0..MaxDrops
<1>1. MaxPresses \in Nat /\ MaxDrops \in Nat
  BY LifecycleAssumption
<1> QED  BY <1>1

LEMMA NextInstance ==
  ASSUME made \in Instance, made < MaxInstances
  PROVE  made + 1 \in Instance
  BY LifecycleAssumption DEF Instance

LEMMA RetryingTyped ==
  ASSUME NEW f \in [Coroutine -> Place]
  PROVE  Retrying(f) \in [Coroutine -> Place]
  BY DEF Retrying, Coroutine, Place

LEMMA GotoTyped ==
  ASSUME TypeOK, NEW p \in Coroutine, NEW place \in Place
  PROVE  Goto(p, place) \in [Coroutine -> Place]
  BY DEF TypeOK, Goto

LEMMA DialTyped ==
  ASSUME TypeOK, NEW p \in Coroutine, NEW i \in Instance, Dial(p, i)
  PROVE  /\ lock' \in [Instance -> Coroutine \cup {None}]
         /\ attempt' \in [Instance -> Coroutine \cup {None}]
         /\ conn' \in [Instance -> BOOLEAN]
  BY DEF TypeOK, Dial, Locked

-----------------------------------------------------------------------------
(* Every step keeps the types. *)
LEMMA TypedStep ==
  ASSUME TypeOK, Removals, [Next]_vars
  PROVE  TypeOK'
<1> USE LifecycleAssumption DEF TypeOK, Coroutine, Place, Operation, Door,
     Instance, vars, links, flags, coros, count
<1>1. ASSUME NEW r \in Request, NEW o \in Door, Press(r, o)
      PROVE  TypeOK'
  <2>1. presses' \in 0..MaxPresses /\ dropped' \in 0..MaxDrops
    BY <1>1, OneMore DEF Press, count
  <2> QED  BY <1>1, <2>1 DEF Press, Allowed, Released, Stale, Superseded, Note
<1>2. ASSUME NEW r \in Request, Reconnect(r)
      PROVE  TypeOK'
  BY <1>2 DEF Reconnect, Closing, Goto
<1>3. ASSUME NEW r \in Request, Pause(r)
      PROVE  TypeOK'
  BY <1>3 DEF Pause, Closing, Goto, Note
<1>4. ASSUME NEW r \in Request, BeginSetup(r)
      PROVE  TypeOK'
  BY <1>4 DEF BeginSetup, Goto
<1>5. ASSUME NEW r \in Request, Remove(r)
      PROVE  TypeOK'
  BY <1>5 DEF Remove, Closing, Goto
<1>6. ASSUME NEW r \in Request, PressResume(r)
      PROVE  TypeOK'
  <2>1. presses' \in 0..MaxPresses
    BY <1>6, OneMore DEF PressResume
  <2>2. Resume(r)  BY <1>6 DEF PressResume
  <2>3. dropped' \in 0..MaxDrops
    BY <2>2 DEF Resume
  <2> HIDE DEF Place, Operation
  <2>4. /\ pc' \in [Coroutine -> Place] /\ op' \in [Coroutine -> Operation]
        /\ drv' \in [Coroutine -> Instance]
    BY <2>2 DEF Resume, Dialed, Goto, Place, Operation
  <2>5. /\ lock' \in [Instance -> Coroutine \cup {None}]
        /\ attempt' \in [Instance -> Coroutine \cup {None}]
        /\ conn' \in [Instance -> BOOLEAN]
    <3>1. Dial(r, inst) /\ inst \in Instance
      BY <2>2 DEF Resume
    <3>2. lock' \in [Instance -> Coroutine \cup {None}]
      BY <3>1 DEF Dial, Locked
    <3>3. attempt' \in [Instance -> Coroutine \cup {None}]
      BY <3>1 DEF Dial
    <3>4. conn' \in [Instance -> BOOLEAN]
      BY <3>1 DEF Dial, Locked
    <3> QED  BY <3>2, <3>3, <3>4
  <2>6. notes' \subseteq {"skipped", "crossed", "superseded", "redialed",
          "late"}
    BY <2>2 DEF Resume, Note
  <2> QED  BY <2>1, <2>2, <2>3, <2>4, <2>5, <2>6 DEF Resume
<1>7. ASSUME NEW r \in Request, EndSetup(r)
      PROVE  TypeOK'
  BY <1>7 DEF EndSetup, Done, LoopReads, Goto, Retrying
<1>8. ASSUME NEW r \in Request, SetupRedials(r)
      PROVE  TypeOK'
  BY <1>8 DEF SetupRedials, Closing, Goto
<1>9. ASSUME NEW p \in Coroutine, Enter(p)
      PROVE  TypeOK'
  BY <1>9 DEF Enter, Locked, Goto
<1>10. ASSUME NEW p \in Coroutine, Declare(p)
      PROVE  TypeOK'
  BY <1>10 DEF Declare, Goto
<1>11. ASSUME NEW p \in Coroutine, Connected(p)
      PROVE  TypeOK'
  BY <1>11 DEF Connected, Released, LoopReads, Again, Goto
<1>12. ASSUME NEW p \in Coroutine, Settled(p)
      PROVE  TypeOK'
  BY <1>12 DEF Settled, Done, LoopReads, Again, Goto, Retrying
<1>13. ASSUME NEW p \in Coroutine, Unwind(p)
      PROVE  TypeOK'
  BY <1>13 DEF Unwind, Released, Done, LoopReads, Goto, Retrying
<1>14. ASSUME NEW p \in Coroutine, NEW b \in BOOLEAN, ConnectFails(p, b)
      PROVE  TypeOK'
  <2> DEFINE place == IF p = "loop" /\ ~b THEN Goto(p, Again)
                      ELSE IF b \/ op[p] = "setup" THEN Goto(p, "idle")
                      ELSE Retrying(Goto(p, "idle"))
  <2>1. /\ place \in [Coroutine -> Place]
        /\ Goto(p, "closing") \in [Coroutine -> Place]
    BY RetryingTyped DEF Goto, Again
  <2>2. pc' \in [Coroutine -> Place]
    <3> Retrying(place) \in [Coroutine -> Place]
      BY <2>1, RetryingTyped
    <3>1. pc' \in {Goto(p, "closing"), place, Retrying(place)}
      BY <1>14 DEF ConnectFails, Done
    <3> HIDE DEF place, Place, Coroutine
    <3> QED  BY <2>1, <3>1
  <2>3. pc'["loop"] = "waiting" /\ pc["loop"] # "waiting" => inst # None
    BY <1>14, ZenonT(60) DEF ConnectFails, Done, Retrying, Goto, Again
  <2>4. drv' \in [Coroutine -> Instance]
    BY <1>14, <2>3 DEF ConnectFails, LoopReads
  <2>5. /\ lock' \in [Instance -> Coroutine \cup {None}]
        /\ attempt' \in [Instance -> Coroutine \cup {None}]
        /\ conn' \in [Instance -> BOOLEAN]
    BY <1>14 DEF ConnectFails, Released
  <2>6. key' \in BOOLEAN /\ mark' \in BOOLEAN /\ failed' \in BOOLEAN
    BY <1>14 DEF ConnectFails, Done
  <2> QED  BY <1>14, <2>2, <2>4, <2>5, <2>6 DEF ConnectFails
<1>15. ASSUME NEW p \in Coroutine, Redial(p)
      PROVE  TypeOK'
  BY <1>15 DEF Redial, Shut, Closed, Dialed, Informed, Retrying, LoopReads,
       Goto, Note
<1>16. ASSUME NEW p \in Coroutine, PauseHolds(p)
      PROVE  TypeOK'
  BY <1>16 DEF PauseHolds, Shut, Closed, Informed, Retrying, LoopReads, Goto,
     Note
<1>17. ASSUME NEW p \in Coroutine, Removed(p)
      PROVE  TypeOK'
  BY <1>17 DEF Removed, Shut, Closed, Goto
<1>18. ASSUME NEW p \in Coroutine, Readded(p)
      PROVE  TypeOK'
  <2>1. made + 1 \in Instance
    <3>1. made < MaxInstances
      BY <1>18 DEF Readded, Closed, Removals, Removing, Removal
    <3> QED  BY <3>1, NextInstance
  <2> QED  BY <1>18, <2>1 DEF Readded, Shut, Closed, CarriedArmed, Goto
<1>19. ASSUME NEW p \in Coroutine, Discarded(p)
      PROVE  TypeOK'
  BY <1>19 DEF Discarded, Shut, Informed, Retrying, LoopReads, LiveKey, Goto
<1>20. ASSUME Expire
      PROVE  TypeOK'
  BY <1>20, ZenonT(60) DEF Expire, Resume, Dial, Locked, Dialed, Goto, Note
<1>21. ASSUME ExpireRemoved
      PROVE  TypeOK'
  BY <1>21 DEF ExpireRemoved
<1>22. ASSUME BringUp
      PROVE  TypeOK'
  BY <1>22, ZenonT(60) DEF BringUp, Dial, Locked, Dialed, Goto, Note
<1>23. ASSUME Retry
      PROVE  TypeOK'
  <2>1. /\ "loop" \in Coroutine /\ "idle" \in Place /\ drv["loop"] \in Instance
        /\ Dialed("loop", drv["loop"]) \in Place
    BY DEF Dialed
  <2>2. pc' = Goto("loop", "idle")
          \/ pc' = Goto("loop", Dialed("loop", drv["loop"]))
    BY <1>23 DEF Retry
  <2>3. pc' \in [Coroutine -> Place]
    <3> HIDE DEF TypeOK, Coroutine, Place, Operation, Door, Instance, vars,
      links,
         flags, coros, count
    <3> QED  BY <2>1, <2>2, GotoTyped
  <2>4. UNCHANGED links \/ Dial("loop", drv["loop"])
    BY <1>23 DEF Retry
  <2>5. /\ lock' \in [Instance -> Coroutine \cup {None}]
        /\ attempt' \in [Instance -> Coroutine \cup {None}]
        /\ conn' \in [Instance -> BOOLEAN]
    <3>1. CASE UNCHANGED links
      BY <3>1
    <3>2. CASE Dial("loop", drv["loop"])
      <4> HIDE DEF TypeOK, Coroutine, Place, Operation, Door, Instance, vars,
        links,
           flags, coros, count
      <4> QED  BY <2>1, <3>2, DialTyped
    <3> QED  BY <2>4, <3>1, <3>2
  <2>6. notes' \subseteq {"skipped", "crossed", "superseded", "redialed",
          "late"}
    BY <1>23 DEF Retry
  <2>7. UNCHANGED <<inst, made, drops, flags, op, drv, count>>
    BY <1>23 DEF Retry
  <2> QED  BY <2>3, <2>5, <2>6, <2>7
<1>24. ASSUME Kick
      PROVE  TypeOK'
  BY <1>24 DEF Kick, Released, LoopReads, Goto, Stale, Superseded
<1>25. ASSUME NEW i \in Instance, Drop(i)
      PROVE  TypeOK'
  <2>1. presses' \in 0..MaxPresses /\ dropped' \in 0..MaxDrops
    BY <1>25, OneMore DEF Drop, count
  <2> QED  BY <1>25, <2>1 DEF Drop
<1>26. ASSUME NEW i \in Instance, NEW b \in BOOLEAN, DropTold(i, b)
      PROVE  TypeOK'
  BY <1>26, ZenonT(60) DEF DropTold, LoopReads, Retrying, Note
<1>27. CASE UNCHANGED vars
  BY <1>27 DEF vars, links, flags, coros, count
<1> HIDE DEF TypeOK, Coroutine, Place, Operation, Door, Instance, vars, links,
     flags, coros, count
<1> QED
  BY <1>1, <1>2, <1>3, <1>4, <1>5, <1>6, <1>7, <1>8, <1>9, <1>10,
     <1>11, <1>12, <1>13, <1>14, <1>15, <1>16, <1>17, <1>18, <1>19,
     <1>20, <1>21, <1>22, <1>23, <1>24, <1>25, <1>26, <1>27 DEF Next,
     Entering, Head, ConnectStep, CloseStep

(* A step that leaves the removal and the registration alone.             *)
LEMMA RemovalsKept ==
  ASSUME Removals, inst' = inst, made' = made, op' = op,
         \A q \in Coroutine :
            op[q] \in Removal => pc'[q] = pc[q] /\ drv'[q] = drv[q]
  PROVE  Removals'
  BY DEF Removals, Removing

LEMMA NoneApart == None \notin Coroutine /\ None \notin Instance
<1>1. None \notin Coroutine
  BY LifecycleAssumption DEF Coroutine
<1>2. None \notin Nat
  BY LifecycleAssumption
<1>3. \A i \in Instance : i \in Nat
  BY LifecycleAssumption DEF Instance
<1> QED  BY <1>1, <1>2, <1>3

(* ... and one removal at a time. *)
LEMMA RemovalsStep ==
  ASSUME TypeOK, Removals, TypeOK', [Next]_vars
  PROVE  Removals'
<1> USE LifecycleAssumption DEF TypeOK, Removals, Removing, Removal, Goto,
     Coroutine, Place, Operation, Door, Instance, vars, links, flags, coros,
     count
<1>1. ASSUME NEW r \in Request, NEW o \in Door, Press(r, o)
      PROVE  Removals'
  <2>1. /\ inst' = inst /\ made' = made /\ inst # None /\ Allowed(o)
        /\ op' = [op EXCEPT ![r] = o] /\ drv' = [drv EXCEPT ![r] = inst]
    BY <1>1 DEF Press
  <2>2. pc'[r] \in {"entering", "cancelling"}
    BY <1>1 DEF Press
  <2>3. \A q \in Coroutine \ {r, "loop"} : pc'[q] = pc[q]
    BY <1>1 DEF Press
  <2>4. r # "loop" /\ r # "worker" /\ r # "timer"
    BY DEF LifecycleAssumption
  <2>5. \A q \in Coroutine \ {r} : Removing(q)' => Removing(q)
          /\ pc'[q] = pc[q]
    BY <2>1, <2>3
  <2>6. o \in Removal => \A q \in Coroutine : ~Removing(q)
    BY <2>1 DEF Allowed, Busy
  <2>7. o \in {"update", "carry"} => made < MaxInstances
    BY <2>1 DEF Allowed
  <2>8. \A p, q \in Coroutine : Removing(p)' /\ Removing(q)' => p = q
    <3>1. \A p, q \in Coroutine : Removing(p) /\ Removing(q) => p = q
      OBVIOUS
    <3>2. Removing(r)' => o \in Removal
      BY <2>1
    <3> HIDE DEF TypeOK, Removals, Removing, Removal, Coroutine, Place,
         Operation, Door, Instance, vars, links, flags, coros, count
    <3> QED  BY <2>5, <2>6, <3>1, <3>2
  <2>9. op'["loop"] = "loop" /\ op'["worker"] = "bring up"
          /\ op'["timer"] = "resume"
    BY <2>1, <2>4
  <2>10. ASSUME NEW p \in Coroutine, Removing(p)', p # r
         PROVE  /\ pc'[p] \in {"entering", "cancelling", "closing"}
                /\ pc'[p] = "closing" => inst' = None
                /\ pc'[p] # "closing" => drv'[p] = inst'
                /\ op'[p] \in {"update", "carry"} => made' < MaxInstances
    BY <2>1, <2>5, <2>10
  <2>11. /\ drv'[r] = inst' /\ pc'[r] # "closing"
         /\ op'[r] \in {"update", "carry"} => made' < MaxInstances
    BY <2>1, <2>2, <2>7
  <2> QED  BY <2>2, <2>8, <2>9, <2>10, <2>11
<1>2. ASSUME NEW r \in Request, Reconnect(r)
      PROVE  Removals'
  BY <1>2 DEF Reconnect, Closing, Goto
<1>3. ASSUME NEW r \in Request, Pause(r)
      PROVE  Removals'
  BY <1>3 DEF Pause, Closing, Goto, Note
<1>4. ASSUME NEW r \in Request, BeginSetup(r)
      PROVE  Removals'
  BY <1>4 DEF BeginSetup, Goto
<1>5. ASSUME NEW r \in Request, Remove(r)
      PROVE  Removals'
  <2>1. /\ inst' = None /\ made' = made /\ op' = op /\ drv' = drv
        /\ Removing(r) /\ Removing(r)' /\ pc'[r] = "closing"
    BY <1>5 DEF Remove, Past
  <2>2. \A q \in Coroutine \ {r} : pc'[q] = pc[q]
    BY <1>5 DEF Remove
  <2>3. \A q \in Coroutine : Removing(q)' => q = r
    BY <2>1, <2>2
  <2>4. op[r] \in {"update", "carry"} => made < MaxInstances
    BY <2>1
  <2>5. r # "loop" /\ r # "worker" /\ r # "timer"
    BY <2>1
  <2> QED  BY <2>1, <2>2, <2>3, <2>4, <2>5
<1>6. ASSUME NEW r \in Request, PressResume(r)
      PROVE  Removals'
  BY <1>6 DEF PressResume, Resume, Dial, Locked, Dialed, Goto, Note
<1>7. ASSUME NEW r \in Request, EndSetup(r)
      PROVE  Removals'
  BY <1>7 DEF EndSetup, Done, LoopReads, Goto, Retrying
<1>8. ASSUME NEW r \in Request, SetupRedials(r)
      PROVE  Removals'
  BY <1>8 DEF SetupRedials, Closing, Goto
<1>9. ASSUME NEW p \in Coroutine, Enter(p)
      PROVE  Removals'
  BY <1>9 DEF Enter, Locked, Goto
<1>10. ASSUME NEW p \in Coroutine, Declare(p)
      PROVE  Removals'
  BY <1>10 DEF Declare, Goto
<1>11. ASSUME NEW p \in Coroutine, Connected(p)
      PROVE  Removals'
  BY <1>11 DEF Connected, Released, LoopReads, Again, Goto
<1>12. ASSUME NEW p \in Coroutine, Settled(p)
      PROVE  Removals'
  BY <1>12, ZenonT(60) DEF Settled, Done, LoopReads, Again, Goto, Retrying
<1>13. ASSUME NEW p \in Coroutine, Unwind(p)
      PROVE  Removals'
  <2>1. inst' = inst /\ made' = made /\ op' = op
    BY <1>13 DEF Unwind
  <2>2. op[p] \notin Removal
    BY <1>13 DEF Unwind, Ended
  <2>3. \A q \in Coroutine \ {p, "loop"} : pc'[q] = pc[q]
    BY <1>13 DEF Unwind, Ended, Done, Retrying, Goto
  <2>4. \A q \in Coroutine \ {"loop"} : drv'[q] = drv[q]
    BY <1>13 DEF Unwind, LoopReads
  <2>5. op["loop"] \notin Removal
    OBVIOUS
  <2> HIDE DEF TypeOK, Removals, Removing, Removal, Goto, Coroutine, Instance
  <2> QED  BY <2>1, <2>2, <2>3, <2>4, <2>5, RemovalsKept
<1>14. ASSUME NEW p \in Coroutine, NEW b \in BOOLEAN, ConnectFails(p, b)
      PROVE  Removals'
  <2>1. inst' = inst /\ made' = made /\ op' = op
    BY <1>14 DEF ConnectFails
  <2>2. op[p] \notin Removal
    BY <1>14 DEF ConnectFails
  <2>3. \A q \in Coroutine \ {p, "loop"} : pc'[q] = pc[q]
    <3>1. \A q \in Coroutine \ {p, "loop"} :
             /\ Goto(p, "closing")[q] = pc[q] /\ Goto(p, "idle")[q] = pc[q]
             /\ Goto(p, Again)[q] = pc[q]
                  /\ Retrying(Goto(p, "idle"))[q] = pc[q]
             /\ Retrying(Goto(p, Again))[q] = pc[q]
             /\ Retrying(Retrying(Goto(p, "idle")))[q] = pc[q]
      BY DEF Retrying, Goto
    <3>2. pc' \in {Goto(p, "closing"), Goto(p, "idle"), Goto(p, Again),
                   Retrying(Goto(p, "idle")), Retrying(Goto(p, Again)),
                   Retrying(Retrying(Goto(p, "idle")))}
      <4> HIDE DEF TypeOK, Removals, Removing, Removal, Goto
      <4> QED  BY <1>14 DEF ConnectFails, Done
    <3> HIDE DEF TypeOK, Removals, Removing, Removal, Goto, Coroutine
    <3> QED  BY <3>1, <3>2
  <2>4. \A q \in Coroutine \ {"loop"} : drv'[q] = drv[q]
    BY <1>14 DEF ConnectFails, LoopReads
  <2>5. op["loop"] \notin Removal
    OBVIOUS
  <2> HIDE DEF TypeOK, Removals, Removing, Removal, Goto, Coroutine, Instance
  <2> QED  BY <2>1, <2>2, <2>3, <2>4, <2>5, RemovalsKept
<1>15. ASSUME NEW p \in Coroutine, Redial(p)
      PROVE  Removals'
  BY <1>15 DEF Redial, Shut, Closed, Dialed, Informed, Retrying, LoopReads,
       Goto, Note
<1>16. ASSUME NEW p \in Coroutine, PauseHolds(p)
      PROVE  Removals'
  BY <1>16 DEF PauseHolds, Shut, Closed, Informed, Retrying, LoopReads, Goto,
     Note
<1>17. ASSUME NEW p \in Coroutine, Removed(p)
      PROVE  Removals'
  BY <1>17 DEF Removed, Shut, Closed, Goto
<1>18. ASSUME NEW p \in Coroutine, Readded(p)
      PROVE  Removals'
  BY <1>18 DEF Readded, Shut, Closed, CarriedArmed, Goto
<1>19. ASSUME NEW p \in Coroutine, Discarded(p)
      PROVE  Removals'
  BY <1>19 DEF Discarded, Shut, Informed, Retrying, LoopReads, LiveKey, Goto
<1>20. ASSUME Expire
      PROVE  Removals'
  BY <1>20 DEF Expire, Resume, Dial, Locked, Dialed, Goto, Note
<1>21. ASSUME ExpireRemoved
      PROVE  Removals'
  BY <1>21 DEF ExpireRemoved
<1>22. ASSUME BringUp
      PROVE  Removals'
  BY <1>22 DEF BringUp, Dial, Locked, Dialed, Goto, Note
<1>23. ASSUME Retry
      PROVE  Removals'
  <2>1. inst' = inst /\ made' = made /\ op' = op /\ drv' = drv
    BY <1>23 DEF Retry
  <2>2. \A q \in Coroutine \ {"loop"} : pc'[q] = pc[q]
    <3>1. CASE inst = None
      <4>1. pc' = [pc EXCEPT !["loop"] = "idle"]
        BY <1>23, <3>1 DEF Retry
      <4> QED  BY <4>1
    <3>2. CASE inst # None
      <4>1. pc' = [pc EXCEPT !["loop"] = Dialed("loop", drv["loop"])]
        BY <1>23, <3>2 DEF Retry
      <4> QED  BY <4>1
    <3> QED  BY <3>1, <3>2
  <2>3. op["loop"] \notin Removal
    OBVIOUS
  <2> HIDE DEF TypeOK, Removals, Removing, Removal, Goto, Coroutine, Instance
  <2> QED  BY <2>1, <2>2, <2>3, RemovalsKept
<1>24. ASSUME Kick
      PROVE  Removals'
  BY <1>24 DEF Kick, Released, LoopReads, Goto, Stale, Superseded
<1>25. ASSUME NEW i \in Instance, Drop(i)
      PROVE  Removals'
  BY <1>25 DEF Drop
<1>26. ASSUME NEW i \in Instance, NEW b \in BOOLEAN, DropTold(i, b)
      PROVE  Removals'
  <2>1. inst' = inst /\ made' = made /\ op' = op
    BY <1>26 DEF DropTold, LoopReads, Retrying, Note
  <2>2. \A q \in Coroutine :
           op[q] \in Removal => pc'[q] = pc[q] /\ drv'[q] = drv[q]
    BY <1>26, ZenonT(60) DEF DropTold, LoopReads, Retrying, Note
  <2> HIDE DEF TypeOK, Removals, Removing, Removal, Goto, Coroutine, Place,
       Operation, Door, Instance, vars, links, flags, coros, count
  <2> QED  BY <2>1, <2>2, RemovalsKept
<1>27. CASE UNCHANGED vars
  BY <1>27 DEF vars, links, flags, coros, count
<1> HIDE DEF TypeOK, Removals, Removing, Removal, Goto, Coroutine, Place,
     Operation, Door, Instance, vars, links, flags, coros, count
<1> QED
  BY <1>1, <1>2, <1>3, <1>4, <1>5, <1>6, <1>7, <1>8, <1>9, <1>10,
     <1>11, <1>12, <1>13, <1>14, <1>15, <1>16, <1>17, <1>18, <1>19,
     <1>20, <1>21, <1>22, <1>23, <1>24, <1>25, <1>26, <1>27 DEF Next,
     Entering, Head, ConnectStep, CloseStep

(* A pause comes with its backstop and they go together. *)
LEMMA BackstopStep ==
  ASSUME PauseHasBackstop, [Next]_vars
  PROVE  PauseHasBackstop'
<1> USE LifecycleAssumption DEF PauseHasBackstop, flags
<1>1. ASSUME NEW r \in Request, NEW o \in Door, Press(r, o)
      PROVE  PauseHasBackstop'
  BY <1>1 DEF Press, Allowed, Released, Stale, Superseded, Note
<1>2. ASSUME NEW r \in Request, Reconnect(r)
      PROVE  PauseHasBackstop'
  BY <1>2 DEF Reconnect, Closing, Goto
<1>3. ASSUME NEW r \in Request, Pause(r)
      PROVE  PauseHasBackstop'
  BY <1>3 DEF Pause, Closing, Goto, Note
<1>4. ASSUME NEW r \in Request, BeginSetup(r)
      PROVE  PauseHasBackstop'
  BY <1>4 DEF BeginSetup, Goto
<1>5. ASSUME NEW r \in Request, Remove(r)
      PROVE  PauseHasBackstop'
  BY <1>5 DEF Remove, Closing, Goto
<1>6. ASSUME NEW r \in Request, PressResume(r)
      PROVE  PauseHasBackstop'
  BY <1>6 DEF PressResume, Resume, Dial, Locked, Dialed, Goto, Note
<1>7. ASSUME NEW r \in Request, EndSetup(r)
      PROVE  PauseHasBackstop'
  BY <1>7 DEF EndSetup, Done, LoopReads, Goto, Retrying
<1>8. ASSUME NEW r \in Request, SetupRedials(r)
      PROVE  PauseHasBackstop'
  BY <1>8 DEF SetupRedials, Closing, Goto
<1>9. ASSUME NEW p \in Coroutine, Enter(p)
      PROVE  PauseHasBackstop'
  BY <1>9 DEF Enter, Locked, Goto
<1>10. ASSUME NEW p \in Coroutine, Declare(p)
      PROVE  PauseHasBackstop'
  BY <1>10 DEF Declare, Goto
<1>11. ASSUME NEW p \in Coroutine, Connected(p)
      PROVE  PauseHasBackstop'
  BY <1>11 DEF Connected, Released, LoopReads, Again, Goto
<1>12. ASSUME NEW p \in Coroutine, Settled(p)
      PROVE  PauseHasBackstop'
  BY <1>12 DEF Settled, Done, LoopReads, Again, Goto, Retrying
<1>13. ASSUME NEW p \in Coroutine, Unwind(p)
      PROVE  PauseHasBackstop'
  BY <1>13 DEF Unwind, Released, Done, LoopReads, Goto, Retrying
<1>14. ASSUME NEW p \in Coroutine, NEW b \in BOOLEAN, ConnectFails(p, b)
      PROVE  PauseHasBackstop'
  BY <1>14 DEF ConnectFails, Released, Done, LoopReads, Again, Goto, Retrying
<1>15. ASSUME NEW p \in Coroutine, Redial(p)
      PROVE  PauseHasBackstop'
  BY <1>15 DEF Redial, Shut, Closed, Dialed, Informed, Retrying, LoopReads,
       Goto, Note
<1>16. ASSUME NEW p \in Coroutine, PauseHolds(p)
      PROVE  PauseHasBackstop'
  BY <1>16 DEF PauseHolds, Shut, Closed, Informed, Retrying, LoopReads, Goto,
     Note
<1>17. ASSUME NEW p \in Coroutine, Removed(p)
      PROVE  PauseHasBackstop'
  BY <1>17 DEF Removed, Shut, Closed, Goto
<1>18. ASSUME NEW p \in Coroutine, Readded(p)
      PROVE  PauseHasBackstop'
  BY <1>18 DEF Readded, Shut, Closed, CarriedArmed, Goto
<1>19. ASSUME NEW p \in Coroutine, Discarded(p)
      PROVE  PauseHasBackstop'
  BY <1>19 DEF Discarded, Shut, Informed, Retrying, LoopReads, LiveKey, Goto
<1>20. ASSUME Expire
      PROVE  PauseHasBackstop'
  BY <1>20 DEF Expire, Resume, Dial, Locked, Dialed, Goto, Note
<1>21. ASSUME ExpireRemoved
      PROVE  PauseHasBackstop'
  BY <1>21 DEF ExpireRemoved
<1>22. ASSUME BringUp
      PROVE  PauseHasBackstop'
  BY <1>22 DEF BringUp, Dial, Locked, Dialed, Goto, Note
<1>23. ASSUME Retry
      PROVE  PauseHasBackstop'
  BY <1>23 DEF Retry, Dial, Locked, Dialed, Goto
<1>24. ASSUME Kick
      PROVE  PauseHasBackstop'
  BY <1>24 DEF Kick, Released, LoopReads, Goto, Stale, Superseded
<1>25. ASSUME NEW i \in Instance, Drop(i)
      PROVE  PauseHasBackstop'
  BY <1>25 DEF Drop
<1>26. ASSUME NEW i \in Instance, NEW b \in BOOLEAN, DropTold(i, b)
      PROVE  PauseHasBackstop'
  BY <1>26 DEF DropTold, LoopReads, Retrying, Note
<1>27. CASE UNCHANGED vars
  BY <1>27 DEF vars, links, flags, coros, count
<1> HIDE DEF PauseHasBackstop, flags
<1> QED
  BY <1>1, <1>2, <1>3, <1>4, <1>5, <1>6, <1>7, <1>8, <1>9, <1>10,
     <1>11, <1>12, <1>13, <1>14, <1>15, <1>16, <1>17, <1>18, <1>19,
     <1>20, <1>21, <1>22, <1>23, <1>24, <1>25, <1>26, <1>27 DEF Next,
     Entering, Head, ConnectStep, CloseStep

(* A step that registers nothing and opens nothing of a replaced instance, *)
(* and leaves the removal that is closing, keeps Left.                     *)
LEMMA LeftKept ==
  ASSUME Left, inst' = inst, "superseded" \in notes => "superseded" \in notes',
         "superseded" \notin notes' =>
            \A i \in Instance \ {inst} :
               attempt[i] = None => attempt'[i] = None /\ (conn'[i]
                 => conn[i]),
         \A q \in Coroutine :
            Removing(q) /\ pc[q] = "closing" /\ conn'[drv[q]]
               => Removing(q)' /\ pc'[q] = "closing" /\ drv'[q] = drv[q]
  PROVE  Left'
  BY DEF Left, ToBeClosed

(* What is left of an instance that was replaced. *)
LEMMA LeftStep ==
  ASSUME TypeOK, Removals, Left, [Next]_vars
  PROVE  Left'
<1> USE LifecycleAssumption DEF TypeOK, Removals, Removing, Removal, Goto,
     Coroutine, Instance, vars, links, flags, coros, count
<1>1. ASSUME NEW r \in Request, NEW o \in Door, Press(r, o)
      PROVE  Left'
  <2>1. inst' = inst /\ ("superseded" \in notes => "superseded" \in notes')
    BY <1>1 DEF Press, Allowed, Released, Stale, Superseded, Note
  <2>2. "superseded" \notin notes' =>
           \A i \in Instance \ {inst} :
              attempt[i] = None => attempt'[i] = None /\ (conn'[i] => conn[i])
    BY <1>1, <2>1, NoneApart DEF Press, Allowed, Released, Stale,
         Superseded, Note, Current
  <2>3. \A q \in Coroutine :
           Removing(q) /\ pc[q] = "closing" /\ conn'[drv[q]]
              => Removing(q)' /\ pc'[q] = "closing" /\ drv'[q] = drv[q]
    BY <1>1 DEF Press, Allowed, Released, Stale, Superseded, Note
  <2> HIDE DEF TypeOK, Removals, Removing, Removal, Goto, Coroutine,
       Instance, vars, links, flags, coros, count
  <2> QED  BY <2>1, <2>2, <2>3, LeftKept
<1>2. ASSUME NEW r \in Request, Reconnect(r)
      PROVE  Left'
  <2>1. inst' = inst /\ ("superseded" \in notes => "superseded" \in notes')
    BY <1>2 DEF Reconnect, Closing, Goto
  <2>2. "superseded" \notin notes' =>
           \A i \in Instance \ {inst} :
              attempt[i] = None => attempt'[i] = None /\ (conn'[i] => conn[i])
    BY <1>2, <2>1, NoneApart DEF Reconnect, Closing, Goto, Current
  <2>3. \A q \in Coroutine :
           Removing(q) /\ pc[q] = "closing" /\ conn'[drv[q]]
              => Removing(q)' /\ pc'[q] = "closing" /\ drv'[q] = drv[q]
    BY <1>2 DEF Reconnect, Closing, Goto
  <2> HIDE DEF TypeOK, Removals, Removing, Removal, Goto, Coroutine,
       Instance, vars, links, flags, coros, count
  <2> QED  BY <2>1, <2>2, <2>3, LeftKept
<1>3. ASSUME NEW r \in Request, Pause(r)
      PROVE  Left'
  <2>1. inst' = inst /\ ("superseded" \in notes => "superseded" \in notes')
    BY <1>3 DEF Pause, Closing, Goto, Note
  <2>2. "superseded" \notin notes' =>
           \A i \in Instance \ {inst} :
              attempt[i] = None => attempt'[i] = None /\ (conn'[i] => conn[i])
    BY <1>3, <2>1, NoneApart DEF Pause, Closing, Goto, Note, Current
  <2>3. \A q \in Coroutine :
           Removing(q) /\ pc[q] = "closing" /\ conn'[drv[q]]
              => Removing(q)' /\ pc'[q] = "closing" /\ drv'[q] = drv[q]
    BY <1>3 DEF Pause, Closing, Goto, Note
  <2> HIDE DEF TypeOK, Removals, Removing, Removal, Goto, Coroutine,
       Instance, vars, links, flags, coros, count
  <2> QED  BY <2>1, <2>2, <2>3, LeftKept
<1>4. ASSUME NEW r \in Request, BeginSetup(r)
      PROVE  Left'
  <2>1. inst' = inst /\ ("superseded" \in notes => "superseded" \in notes')
    BY <1>4 DEF BeginSetup, Goto
  <2>2. "superseded" \notin notes' =>
           \A i \in Instance \ {inst} :
              attempt[i] = None => attempt'[i] = None /\ (conn'[i] => conn[i])
    BY <1>4, <2>1, NoneApart DEF BeginSetup, Goto, Current
  <2>3. \A q \in Coroutine :
           Removing(q) /\ pc[q] = "closing" /\ conn'[drv[q]]
              => Removing(q)' /\ pc'[q] = "closing" /\ drv'[q] = drv[q]
    BY <1>4 DEF BeginSetup, Goto
  <2> HIDE DEF TypeOK, Removals, Removing, Removal, Goto, Coroutine,
       Instance, vars, links, flags, coros, count
  <2> QED  BY <2>1, <2>2, <2>3, LeftKept
<1>5. ASSUME NEW r \in Request, Remove(r)
      PROVE  Left'
  <2>1. inst' = None /\ notes' = notes /\ drv' = drv /\ conn' = conn
    BY <1>5 DEF Remove
  <2>2. Removing(r) /\ drv[r] = inst /\ Removing(r)' /\ pc'[r] = "closing"
    BY <1>5 DEF Remove, Past
  <2>3. \A i \in Instance : attempt'[i] = attempt[i] \/ attempt'[i] = None
    BY <1>5 DEF Remove, Closing
  <2>4. attempt'[inst] = None
    BY <1>5, <2>2 DEF Remove, Closing
  <2>5. \A i \in Instance \ {inst} : ~ToBeClosed(i)
    BY <2>2 DEF ToBeClosed
  <2>6. \A i \in Instance : "superseded" \notin notes' =>
           attempt'[i] = None /\ (conn'[i] => ToBeClosed(i)')
    <3> TAKE i \in Instance
    <3> HIDE DEF Removing, TypeOK, Removals, Instance, Coroutine
    <3>1. CASE i = inst
      <4>1. drv'[r] = i
        BY <2>1, <2>2, <3>1
      <4>2. ToBeClosed(i)'
        BY <2>2, <4>1 DEF ToBeClosed, Coroutine
      <4> QED  BY <2>4, <3>1, <4>2
    <3>2. CASE i # inst
      BY <2>1, <2>3, <2>5, <3>2 DEF Left
    <3> QED  BY <3>1, <3>2
  <2> HIDE DEF Removing, TypeOK, Removals, Instance, Coroutine
  <2> QED  BY <2>6 DEF Left
<1>6. ASSUME NEW r \in Request, PressResume(r)
      PROVE  Left'
  <2>1. inst' = inst /\ ("superseded" \in notes => "superseded" \in notes')
    BY <1>6 DEF PressResume, Resume, Dial, Locked, Dialed, Goto, Note
  <2>2. "superseded" \notin notes' =>
           \A i \in Instance \ {inst} :
              attempt[i] = None => attempt'[i] = None /\ (conn'[i] => conn[i])
    BY <1>6, <2>1, NoneApart DEF PressResume, Resume, Dial, Locked,
         Dialed, Goto, Note, Current
  <2>3. \A q \in Coroutine :
           Removing(q) /\ pc[q] = "closing" /\ conn'[drv[q]]
              => Removing(q)' /\ pc'[q] = "closing" /\ drv'[q] = drv[q]
    BY <1>6 DEF PressResume, Resume, Dial, Locked, Dialed, Goto, Note
  <2> HIDE DEF TypeOK, Removals, Removing, Removal, Goto, Coroutine,
       Instance, vars, links, flags, coros, count
  <2> QED  BY <2>1, <2>2, <2>3, LeftKept
<1>7. ASSUME NEW r \in Request, EndSetup(r)
      PROVE  Left'
  <2>1. inst' = inst /\ ("superseded" \in notes => "superseded" \in notes')
    BY <1>7 DEF EndSetup, Done, LoopReads, Goto, Retrying
  <2>2. "superseded" \notin notes' =>
           \A i \in Instance \ {inst} :
              attempt[i] = None => attempt'[i] = None /\ (conn'[i] => conn[i])
    BY <1>7, <2>1, NoneApart DEF EndSetup, Done, LoopReads, Goto,
         Retrying, Current
  <2>3. \A q \in Coroutine :
           Removing(q) /\ pc[q] = "closing" /\ conn'[drv[q]]
              => Removing(q)' /\ pc'[q] = "closing" /\ drv'[q] = drv[q]
    BY <1>7 DEF EndSetup, Done, LoopReads, Goto, Retrying
  <2> HIDE DEF TypeOK, Removals, Removing, Removal, Goto, Coroutine,
       Instance, vars, links, flags, coros, count
  <2> QED  BY <2>1, <2>2, <2>3, LeftKept
<1>8. ASSUME NEW r \in Request, SetupRedials(r)
      PROVE  Left'
  <2>1. inst' = inst /\ ("superseded" \in notes => "superseded" \in notes')
    BY <1>8 DEF SetupRedials, Closing, Goto
  <2>2. "superseded" \notin notes' =>
           \A i \in Instance \ {inst} :
              attempt[i] = None => attempt'[i] = None /\ (conn'[i] => conn[i])
    BY <1>8, <2>1, NoneApart DEF SetupRedials, Closing, Goto, Current
  <2>3. \A q \in Coroutine :
           Removing(q) /\ pc[q] = "closing" /\ conn'[drv[q]]
              => Removing(q)' /\ pc'[q] = "closing" /\ drv'[q] = drv[q]
    BY <1>8 DEF SetupRedials, Closing, Goto
  <2> HIDE DEF TypeOK, Removals, Removing, Removal, Goto, Coroutine,
       Instance, vars, links, flags, coros, count
  <2> QED  BY <2>1, <2>2, <2>3, LeftKept
<1>9. ASSUME NEW p \in Coroutine, Enter(p)
      PROVE  Left'
  <2>1. inst' = inst /\ ("superseded" \in notes => "superseded" \in notes')
    BY <1>9 DEF Enter, Locked, Goto
  <2>2. "superseded" \notin notes' =>
           \A i \in Instance \ {inst} :
              attempt[i] = None => attempt'[i] = None /\ (conn'[i] => conn[i])
    BY <1>9, <2>1, NoneApart DEF Enter, Locked, Goto, Current
  <2>3. \A q \in Coroutine :
           Removing(q) /\ pc[q] = "closing" /\ conn'[drv[q]]
              => Removing(q)' /\ pc'[q] = "closing" /\ drv'[q] = drv[q]
    BY <1>9 DEF Enter, Locked, Goto
  <2> HIDE DEF TypeOK, Removals, Removing, Removal, Goto, Coroutine,
       Instance, vars, links, flags, coros, count
  <2> QED  BY <2>1, <2>2, <2>3, LeftKept
<1>10. ASSUME NEW p \in Coroutine, Declare(p)
      PROVE  Left'
  <2>1. inst' = inst /\ ("superseded" \in notes => "superseded" \in notes')
    BY <1>10 DEF Declare, Goto
  <2>2. "superseded" \notin notes' =>
           \A i \in Instance \ {inst} :
              attempt[i] = None => attempt'[i] = None /\ (conn'[i] => conn[i])
    <3>1. attempt[drv[p]] # None
      BY <1>10, NoneApart, ZenonT(60) DEF Declare, Current
    <3>2. attempt' = attempt /\ conn' = [conn EXCEPT ![drv[p]] = TRUE]
      BY <1>10 DEF Declare
    <3> QED  BY <3>1, <3>2
  <2>3. \A q \in Coroutine :
           Removing(q) /\ pc[q] = "closing" /\ conn'[drv[q]]
              => Removing(q)' /\ pc'[q] = "closing" /\ drv'[q] = drv[q]
    BY <1>10 DEF Declare, Goto
  <2> HIDE DEF TypeOK, Removals, Removing, Removal, Goto, Coroutine,
       Instance, vars, links, flags, coros, count
  <2> QED  BY <2>1, <2>2, <2>3, LeftKept
<1>11. ASSUME NEW p \in Coroutine, Connected(p)
      PROVE  Left'
  <2>1. inst' = inst /\ ("superseded" \in notes => "superseded" \in notes')
    BY <1>11 DEF Connected, Released, LoopReads, Again, Goto
  <2>2. "superseded" \notin notes' =>
           \A i \in Instance \ {inst} :
              attempt[i] = None => attempt'[i] = None /\ (conn'[i] => conn[i])
    BY <1>11, <2>1, NoneApart DEF Connected, Released, LoopReads, Again,
         Goto, Current
  <2>3. \A q \in Coroutine :
           Removing(q) /\ pc[q] = "closing" /\ conn'[drv[q]]
              => Removing(q)' /\ pc'[q] = "closing" /\ drv'[q] = drv[q]
    BY <1>11 DEF Connected, Released, LoopReads, Again, Goto
  <2> HIDE DEF TypeOK, Removals, Removing, Removal, Goto, Coroutine,
       Instance, vars, links, flags, coros, count
  <2> QED  BY <2>1, <2>2, <2>3, LeftKept
<1>12. ASSUME NEW p \in Coroutine, Settled(p)
      PROVE  Left'
  <2>1. inst' = inst /\ ("superseded" \in notes => "superseded" \in notes')
    BY <1>12 DEF Settled, Done, LoopReads, Again, Goto, Retrying
  <2>2. "superseded" \notin notes' =>
           \A i \in Instance \ {inst} :
              attempt[i] = None => attempt'[i] = None /\ (conn'[i] => conn[i])
    BY <1>12, <2>1, NoneApart DEF Settled, Done, LoopReads, Again, Goto,
         Retrying, Current
  <2>3. \A q \in Coroutine :
           Removing(q) /\ pc[q] = "closing" /\ conn'[drv[q]]
              => Removing(q)' /\ pc'[q] = "closing" /\ drv'[q] = drv[q]
    BY <1>12 DEF Settled, Done, LoopReads, Again, Goto, Retrying
  <2> HIDE DEF TypeOK, Removals, Removing, Removal, Goto, Coroutine,
       Instance, vars, links, flags, coros, count
  <2> QED  BY <2>1, <2>2, <2>3, LeftKept
<1>13. ASSUME NEW p \in Coroutine, Unwind(p)
      PROVE  Left'
  <2>1. inst' = inst /\ ("superseded" \in notes => "superseded" \in notes')
    BY <1>13 DEF Unwind, Released, Done, LoopReads, Goto, Retrying
  <2>2. "superseded" \notin notes' =>
           \A i \in Instance \ {inst} :
              attempt[i] = None => attempt'[i] = None /\ (conn'[i] => conn[i])
    BY <1>13, <2>1, NoneApart DEF Unwind, Released, Done, LoopReads,
         Goto, Retrying, Current
  <2>3. \A q \in Coroutine :
           Removing(q) /\ pc[q] = "closing" /\ conn'[drv[q]]
              => Removing(q)' /\ pc'[q] = "closing" /\ drv'[q] = drv[q]
    BY <1>13, ZenonT(60) DEF Unwind, Released, Done, LoopReads, Goto, Retrying
  <2> HIDE DEF TypeOK, Removals, Removing, Removal, Goto, Coroutine,
       Instance, vars, links, flags, coros, count
  <2> QED  BY <2>1, <2>2, <2>3, LeftKept
<1>14. ASSUME NEW p \in Coroutine, NEW b \in BOOLEAN, ConnectFails(p, b)
      PROVE  Left'
  <2>1. inst' = inst /\ ("superseded" \in notes => "superseded" \in notes')
    BY <1>14 DEF ConnectFails, Released, Done, LoopReads, Again, Goto, Retrying
  <2>2. "superseded" \notin notes' =>
           \A i \in Instance \ {inst} :
              attempt[i] = None => attempt'[i] = None /\ (conn'[i] => conn[i])
    BY <1>14, <2>1, NoneApart DEF ConnectFails, Released, Done,
         LoopReads, Again, Goto, Retrying, Current
  <2>3. \A q \in Coroutine :
           Removing(q) /\ pc[q] = "closing" /\ conn'[drv[q]]
              => Removing(q)' /\ pc'[q] = "closing" /\ drv'[q] = drv[q]
    BY <1>14, ZenonT(60)
       DEF ConnectFails, Released, Done, LoopReads, Again, Goto, Retrying
  <2> HIDE DEF TypeOK, Removals, Removing, Removal, Goto, Coroutine,
       Instance, vars, links, flags, coros, count
  <2> QED  BY <2>1, <2>2, <2>3, LeftKept
<1>15. ASSUME NEW p \in Coroutine, Redial(p)
      PROVE  Left'
  <2>1. inst' = inst /\ ("superseded" \in notes => "superseded" \in notes')
    BY <1>15 DEF Redial, Shut, Closed, Dialed, Informed, Retrying,
         LoopReads, Goto, Note
  <2>2. "superseded" \notin notes' =>
           \A i \in Instance \ {inst} :
              attempt[i] = None => attempt'[i] = None /\ (conn'[i] => conn[i])
    BY <1>15, <2>1, NoneApart DEF Redial, Shut, Closed, Dialed, Informed,
         Retrying, LoopReads, Goto, Note, Current, Superseded
  <2>3. \A q \in Coroutine :
           Removing(q) /\ pc[q] = "closing" /\ conn'[drv[q]]
              => Removing(q)' /\ pc'[q] = "closing" /\ drv'[q] = drv[q]
    BY <1>15 DEF Redial, Shut, Closed, Dialed, Informed, Retrying,
         LoopReads, Goto, Note
  <2> HIDE DEF TypeOK, Removals, Removing, Removal, Goto, Coroutine,
       Instance, vars, links, flags, coros, count
  <2> QED  BY <2>1, <2>2, <2>3, LeftKept
<1>16. ASSUME NEW p \in Coroutine, PauseHolds(p)
      PROVE  Left'
  <2>1. inst' = inst /\ ("superseded" \in notes => "superseded" \in notes')
    BY <1>16 DEF PauseHolds, Shut, Closed, Informed, Retrying, LoopReads, Goto,
     Note
  <2>2. "superseded" \notin notes' =>
           \A i \in Instance \ {inst} :
              attempt[i] = None => attempt'[i] = None /\ (conn'[i] => conn[i])
    BY <1>16, <2>1, NoneApart DEF PauseHolds, Note, Shut, Closed, Informed,
         Retrying, LoopReads, Goto, Current
  <2>3. \A q \in Coroutine :
           Removing(q) /\ pc[q] = "closing" /\ conn'[drv[q]]
              => Removing(q)' /\ pc'[q] = "closing" /\ drv'[q] = drv[q]
    BY <1>16 DEF PauseHolds, Shut, Closed, Informed, Retrying, LoopReads, Goto,
     Note
  <2> HIDE DEF TypeOK, Removals, Removing, Removal, Goto, Coroutine,
       Instance, vars, links, flags, coros, count
  <2> QED  BY <2>1, <2>2, <2>3, LeftKept
<1>17. ASSUME NEW p \in Coroutine, Removed(p)
      PROVE  Left'
  <2>1. inst' = inst /\ ("superseded" \in notes => "superseded" \in notes')
    BY <1>17 DEF Removed, Shut, Closed, Goto
  <2>2. "superseded" \notin notes' =>
           \A i \in Instance \ {inst} :
              attempt[i] = None => attempt'[i] = None /\ (conn'[i] => conn[i])
    BY <1>17, <2>1, NoneApart DEF Removed, Shut, Closed, Goto, Current
  <2>3. \A q \in Coroutine :
           Removing(q) /\ pc[q] = "closing" /\ conn'[drv[q]]
              => Removing(q)' /\ pc'[q] = "closing" /\ drv'[q] = drv[q]
    BY <1>17, ZenonT(60) DEF Removed, Shut, Closed, Goto
  <2> HIDE DEF TypeOK, Removals, Removing, Removal, Goto, Coroutine,
       Instance, vars, links, flags, coros, count
  <2> QED  BY <2>1, <2>2, <2>3, LeftKept
<1>18. ASSUME NEW p \in Coroutine, Readded(p)
      PROVE  Left'
  <2>1. /\ Removing(p) /\ pc[p] = "closing" /\ inst = None
        /\ notes' = notes /\ attempt' = attempt
    BY <1>18 DEF Readded, Closed
  <2>2. conn' = [conn EXCEPT ![drv[p]] = FALSE]
    BY <1>18 DEF Readded, Shut
  <2>3. \A i \in Instance : i # drv[p] => ~ToBeClosed(i)
    BY <2>1 DEF ToBeClosed
  <2>4. drv[p] \in Instance /\ conn \in [Instance -> BOOLEAN]
    OBVIOUS
  <2> HIDE DEF TypeOK, Removals, Removing, Removal, Goto, Coroutine,
       Instance, vars, links, flags, coros, count
  <2>5. ASSUME NEW i \in Instance \ {inst}, "superseded" \notin notes
        PROVE  attempt[i] = None /\ ~conn'[i]
    BY <2>5, <2>2, <2>3, <2>4 DEF Left
  <2>6. ASSUME NEW i \in Instance \ {inst'}, "superseded" \notin notes
        PROVE  attempt'[i] = None /\ ~conn'[i]
    BY <2>6, <2>1, <2>5, NoneApart
  <2> QED  BY <2>1, <2>6 DEF Left
<1>19. ASSUME NEW p \in Coroutine, Discarded(p)
      PROVE  Left'
  <2>1. inst' = inst /\ ("superseded" \in notes => "superseded" \in notes')
    BY <1>19 DEF Discarded, Shut, Informed, Retrying, LoopReads, LiveKey, Goto
  <2>2. "superseded" \notin notes' =>
           \A i \in Instance \ {inst} :
              attempt[i] = None => attempt'[i] = None /\ (conn'[i] => conn[i])
    BY <1>19, <2>1, NoneApart DEF Discarded, Shut, Informed, Retrying,
         LoopReads, LiveKey, Goto, Current
  <2>3. \A q \in Coroutine :
           Removing(q) /\ pc[q] = "closing" /\ conn'[drv[q]]
              => Removing(q)' /\ pc'[q] = "closing" /\ drv'[q] = drv[q]
    BY <1>19 DEF Discarded, Shut, Informed, Retrying, LoopReads, LiveKey, Goto
  <2> HIDE DEF TypeOK, Removals, Removing, Removal, Goto, Coroutine,
       Instance, vars, links, flags, coros, count
  <2> QED  BY <2>1, <2>2, <2>3, LeftKept
<1>20. ASSUME Expire
      PROVE  Left'
  <2>1. inst' = inst /\ ("superseded" \in notes => "superseded" \in notes')
    BY <1>20 DEF Expire, Resume, Dial, Locked, Dialed, Goto, Note
  <2>2. "superseded" \notin notes' =>
           \A i \in Instance \ {inst} :
              attempt[i] = None => attempt'[i] = None /\ (conn'[i] => conn[i])
    BY <1>20, <2>1, NoneApart DEF Expire, Resume, Dial, Locked, Dialed,
         Goto, Note, Current
  <2>3. \A q \in Coroutine :
           Removing(q) /\ pc[q] = "closing" /\ conn'[drv[q]]
              => Removing(q)' /\ pc'[q] = "closing" /\ drv'[q] = drv[q]
    BY <1>20 DEF Expire, Resume, Dial, Locked, Dialed, Goto, Note
  <2> HIDE DEF TypeOK, Removals, Removing, Removal, Goto, Coroutine,
       Instance, vars, links, flags, coros, count
  <2> QED  BY <2>1, <2>2, <2>3, LeftKept
<1>21. ASSUME ExpireRemoved
      PROVE  Left'
  <2>1. inst' = inst /\ ("superseded" \in notes => "superseded" \in notes')
    BY <1>21 DEF ExpireRemoved
  <2>2. "superseded" \notin notes' =>
           \A i \in Instance \ {inst} :
              attempt[i] = None => attempt'[i] = None /\ (conn'[i] => conn[i])
    BY <1>21, <2>1, NoneApart DEF ExpireRemoved, Current
  <2>3. \A q \in Coroutine :
           Removing(q) /\ pc[q] = "closing" /\ conn'[drv[q]]
              => Removing(q)' /\ pc'[q] = "closing" /\ drv'[q] = drv[q]
    BY <1>21 DEF ExpireRemoved
  <2> HIDE DEF TypeOK, Removals, Removing, Removal, Goto, Coroutine,
       Instance, vars, links, flags, coros, count
  <2> QED  BY <2>1, <2>2, <2>3, LeftKept
<1>22. ASSUME BringUp
      PROVE  Left'
  <2>1. inst' = inst /\ ("superseded" \in notes => "superseded" \in notes')
    BY <1>22 DEF BringUp, Dial, Locked, Dialed, Goto, Note
  <2>2. "superseded" \notin notes' =>
           \A i \in Instance \ {inst} :
              attempt[i] = None => attempt'[i] = None /\ (conn'[i] => conn[i])
    BY <1>22, <2>1, NoneApart DEF BringUp, Dial, Locked, Dialed, Goto,
         Note, Current
  <2>3. \A q \in Coroutine :
           Removing(q) /\ pc[q] = "closing" /\ conn'[drv[q]]
              => Removing(q)' /\ pc'[q] = "closing" /\ drv'[q] = drv[q]
    BY <1>22 DEF BringUp, Dial, Locked, Dialed, Goto, Note
  <2> HIDE DEF TypeOK, Removals, Removing, Removal, Goto, Coroutine,
       Instance, vars, links, flags, coros, count
  <2> QED  BY <2>1, <2>2, <2>3, LeftKept
<1>23. ASSUME Retry
      PROVE  Left'
  <2>1. inst' = inst /\ ("superseded" \in notes => "superseded" \in notes')
    BY <1>23, ZenonT(60) DEF Retry, Dial, Locked, Dialed, Goto
  <2>2. "superseded" \notin notes' =>
           \A i \in Instance \ {inst} :
              attempt[i] = None => attempt'[i] = None /\ (conn'[i] => conn[i])
    <3>1. inst = None => attempt' = attempt /\ conn' = conn
      BY <1>23 DEF Retry, links
    <3>2. inst # None => notes' = notes \cup {n \in {"redialed"} : key}
                               \cup {n \in {"superseded"} : Superseded("loop")}
      BY <1>23 DEF Retry
    <3>3. inst # None /\ "superseded" \notin notes' => drv["loop"] = inst
      BY <3>2 DEF Superseded
    <3>4. inst # None => Dial("loop", drv["loop"])
      BY <1>23 DEF Retry
    <3>5. ASSUME inst # None, "superseded" \notin notes'
          PROVE  \A i \in Instance \ {inst} : attempt'[i] = attempt[i]
                   /\ conn'[i] = conn[i]
      <4>1. \A i \in Instance \ {inst} : attempt'[i] = attempt[i]
        BY <3>3, <3>4, <3>5 DEF Dial
      <4>2. conn' = conn \/ conn' = [conn EXCEPT ![inst] = FALSE]
        BY <3>3, <3>4, <3>5 DEF Dial, Locked
      <4> QED  BY <4>1, <4>2
    <3> QED  BY <3>1, <3>5
  <2>3. \A q \in Coroutine :
           Removing(q) /\ pc[q] = "closing" /\ conn'[drv[q]]
              => Removing(q)' /\ pc'[q] = "closing" /\ drv'[q] = drv[q]
    BY <1>23, ZenonT(60) DEF Retry, Dial, Locked, Dialed, Goto
  <2> HIDE DEF TypeOK, Removals, Removing, Removal, Goto, Coroutine,
       Instance, vars, links, flags, coros, count
  <2> QED  BY <2>1, <2>2, <2>3, LeftKept
<1>24. ASSUME Kick
      PROVE  Left'
  <2>1. inst' = inst /\ ("superseded" \in notes => "superseded" \in notes')
    BY <1>24 DEF Kick, Released, LoopReads, Goto, Stale, Superseded
  <2>2. "superseded" \notin notes' =>
           \A i \in Instance \ {inst} :
              attempt[i] = None => attempt'[i] = None /\ (conn'[i] => conn[i])
    BY <1>24, <2>1, NoneApart DEF Kick, Released, LoopReads, Goto, Stale,
         Superseded, Current
  <2>3. \A q \in Coroutine :
           Removing(q) /\ pc[q] = "closing" /\ conn'[drv[q]]
              => Removing(q)' /\ pc'[q] = "closing" /\ drv'[q] = drv[q]
    BY <1>24 DEF Kick, Released, LoopReads, Goto, Stale, Superseded
  <2> HIDE DEF TypeOK, Removals, Removing, Removal, Goto, Coroutine,
       Instance, vars, links, flags, coros, count
  <2> QED  BY <2>1, <2>2, <2>3, LeftKept
<1>25. ASSUME NEW i \in Instance, Drop(i)
      PROVE  Left'
  <2>1. inst' = inst /\ ("superseded" \in notes => "superseded" \in notes')
    BY <1>25 DEF Drop
  <2>2. "superseded" \notin notes' =>
           \A j \in Instance \ {inst} :
              attempt[j] = None => attempt'[j] = None /\ (conn'[j] => conn[j])
    BY <1>25, <2>1, NoneApart DEF Drop, Current
  <2>3. \A q \in Coroutine :
           Removing(q) /\ pc[q] = "closing" /\ conn'[drv[q]]
              => Removing(q)' /\ pc'[q] = "closing" /\ drv'[q] = drv[q]
    BY <1>25 DEF Drop
  <2> HIDE DEF TypeOK, Removals, Removing, Removal, Goto, Coroutine,
       Instance, vars, links, flags, coros, count
  <2> QED  BY <2>1, <2>2, <2>3, LeftKept
<1>26. ASSUME NEW i \in Instance, NEW b \in BOOLEAN, DropTold(i, b)
      PROVE  Left'
  <2>1. inst' = inst /\ ("superseded" \in notes => "superseded" \in notes')
    BY <1>26 DEF DropTold, LoopReads, Retrying, Note
  <2>2. "superseded" \notin notes' =>
           \A j \in Instance \ {inst} :
              attempt[j] = None => attempt'[j] = None /\ (conn'[j] => conn[j])
    BY <1>26, <2>1, NoneApart DEF DropTold, LoopReads, Retrying, Note, Current
  <2>3. \A q \in Coroutine :
           Removing(q) /\ pc[q] = "closing" /\ conn'[drv[q]]
              => Removing(q)' /\ pc'[q] = "closing" /\ drv'[q] = drv[q]
    BY <1>26 DEF DropTold, LoopReads, Retrying, Note
  <2> HIDE DEF TypeOK, Removals, Removing, Removal, Goto, Coroutine,
       Instance, vars, links, flags, coros, count
  <2> QED  BY <2>1, <2>2, <2>3, LeftKept
<1>27. CASE UNCHANGED vars
  <2>1. inst' = inst /\ notes' = notes /\ attempt' = attempt /\ conn' = conn
    BY <1>27
  <2>2. pc' = pc /\ op' = op /\ drv' = drv
    BY <1>27
  <2> HIDE DEF vars, links, flags, coros, count, TypeOK, Removals
  <2> QED  BY <2>1, <2>2, LeftKept
<1> HIDE DEF TypeOK, Removals, Removing, Removal, Goto, Coroutine, Instance,
     vars, links, flags, coros, count
<1> QED
  BY <1>1, <1>2, <1>3, <1>4, <1>5, <1>6, <1>7, <1>8, <1>9, <1>10,
     <1>11, <1>12, <1>13, <1>14, <1>15, <1>16, <1>17, <1>18, <1>19,
     <1>20, <1>21, <1>22, <1>23, <1>24, <1>25, <1>26, <1>27 DEF Next,
     Entering, Head, ConnectStep, CloseStep

-----------------------------------------------------------------------------
(* Who runs what.                                                          *)

LEMMA Apart == /\ None \notin Coroutine /\ None \notin Instance
               /\ \A r \in Request : r # "loop" /\ r # "worker" /\ r # "timer"
               /\ "loop" \in Coroutine /\ "worker" \in Coroutine
                    /\ "timer" \in Coroutine
               /\ Request \subseteq Coroutine
<1>1. \A r \in Request : r # "loop" /\ r # "worker" /\ r # "timer"
  BY LifecycleAssumption
<1> QED  BY <1>1, NoneApart DEF Coroutine

LEMMA Counted == \A i \in Instance : i \in Nat
  BY LifecycleAssumption DEF Instance

(* connect() is under way *)
Connects(p) == pc[p] \in {"queued", "dialing", "tail"}

(* The loop, the worker and the timer have one task each; requests have    *)
(* the others, and only a setup action has a handler.                      *)
Role(p) == /\ op[p] = "loop" <=> p = "loop"
           /\ op[p] = "bring up" <=> p = "worker"
           /\ p = "timer" => op[p] = "resume"
           /\ pc[p] = "working" => op[p] = "setup"
Roles == \A p \in Coroutine : Role(p)

(* _connect_attempt is of a connect() that is under way; of an instance    *)
(* that was replaced only the loop and a captured driver still dial.       *)
Attempted(i) ==
    attempt[i] # None =>
        /\ Connects(attempt[i]) /\ drv[attempt[i]] = i
        /\ i # inst => \/ attempt[i] = "loop"
                       \/ op[attempt[i]] \in {"reconnect", "setup"}
Attempts == \A i \in Instance : Attempted(i)

(* Instances are made in order, and one not made has no connection.        *)
InstanceMade  == inst # None => inst <= made
DriverMade(p) == drv[p] <= made
DriversMade   == \A p \in Coroutine : DriverMade(p)
NotYetMade(i) == i > made => ~conn[i] /\ attempt[i] = None
Fresh         == \A i \in Instance : NotYetMade(i)

(* One request at a time goes on in the step in which it found no loop.    *)
EnteringAlone(x, y) == pc[x] = "entering" /\ pc[y] = "entering" => x = y
OneEntering         == \A x, y \in Request : EnteringAlone(x, y)

Basics == TypeOK /\ Removals /\ Roles /\ Attempts /\ InstanceMade
             /\ DriversMade /\ Fresh /\ OneEntering

LEMMA NoDoor == /\ "loop" \notin Door /\ "bring up" \notin Door
  /\ "resume" \notin Door
                /\ \A o \in Door : o # "loop" /\ o # "bring up" /\ o # "resume"
  BY DEF Door

LEMMA RolesStep ==
  ASSUME TypeOK, Roles, [Next]_vars
  PROVE  Roles'
<1> SUFFICES ASSUME NEW x \in Coroutine, Role(x)
             PROVE  Role(x)'
  BY DEF Roles
<1> USE DEF TypeOK, Goto, links, flags, coros, count, Role
<1>1. ASSUME NEW r \in Request, NEW o \in Door, Press(r, o),
             \A s \in Request : ~Entering(s)
      PROVE  Role(x)'
  BY <1>1, Apart, NoDoor DEF Press, Released, Stale, Note
<1>2. ASSUME NEW r \in Request, Reconnect(r)  PROVE  Role(x)'
  BY <1>2, Apart, NoDoor DEF Reconnect, Past, Closing, Goto
<1>3. ASSUME NEW r \in Request, Pause(r)  PROVE  Role(x)'
  BY <1>3, Apart, NoDoor DEF Pause, Past, Closing, Goto, Note
<1>4. ASSUME NEW r \in Request, BeginSetup(r)  PROVE  Role(x)'
  BY <1>4, Apart, NoDoor DEF BeginSetup, Past, Goto
<1>5. ASSUME NEW r \in Request, Remove(r)  PROVE  Role(x)'
  BY <1>5, Apart, NoDoor DEF Remove, Past, Closing, Goto
<1>6. ASSUME NEW r \in Request, PressResume(r)  PROVE  Role(x)'
  BY <1>6, Apart, NoDoor DEF PressResume, Resume, Dial, Locked, Dialed, Goto,
     Note
<1>7. ASSUME NEW r \in Request, EndSetup(r)  PROVE  Role(x)'
  BY <1>7, Apart, NoDoor DEF EndSetup, Done, Discards, LoopReads, Goto,
     Retrying
<1>8. ASSUME NEW r \in Request, SetupRedials(r)  PROVE  Role(x)'
  BY <1>8, Apart, NoDoor DEF SetupRedials, Closing, Goto
<1>9. ASSUME NEW p \in Coroutine, Enter(p)  PROVE  Role(x)'
  BY <1>9, Apart, NoDoor DEF Enter, Current, Locked, Goto
<1>10. ASSUME NEW p \in Coroutine, Declare(p)  PROVE  Role(x)'
  BY <1>10, Apart, NoDoor DEF Declare, Current, Goto
<1>11. ASSUME NEW p \in Coroutine, Connected(p)  PROVE  Role(x)'
  BY <1>11, Apart, NoDoor DEF Connected, Current, Stale, Superseded, DownAgain,
     Released, LoopReads, Again, Goto
<1>12. ASSUME NEW p \in Coroutine, Settled(p)  PROVE  Role(x)'
  BY <1>12, Apart, NoDoor DEF Settled, DownAgain, Done, Discards, LoopReads,
     Again, Goto, Retrying
<1>13. ASSUME NEW p \in Coroutine, Unwind(p)  PROVE  Role(x)'
  BY <1>13, Apart, NoDoor DEF Unwind, Ended, Current, Stale, Superseded,
     Released, Done, Discards, LoopReads, Goto, Retrying
<1>14. ASSUME NEW p \in Coroutine, NEW b \in BOOLEAN, ConnectFails(p, b)
      PROVE  Role(x)'
  BY <1>14, Apart, NoDoor, ZenonT(60) DEF ConnectFails, Current, Stale, Superseded,
     Released, Done, Discards, LoopReads, Again, Goto, Retrying
<1>15. ASSUME NEW p \in Coroutine, Redial(p)  PROVE  Role(x)'
  BY <1>15, Apart, NoDoor DEF Redial, Superseded, Shut, Closed, Dialed,
     Informed, Retrying, LoopReads, Goto, Note
<1>16. ASSUME NEW p \in Coroutine, PauseHolds(p)  PROVE  Role(x)'
  BY <1>16, Apart, NoDoor DEF PauseHolds, Superseded, Shut, Closed, Informed,
     Retrying, LoopReads, Goto, Note
<1>17. ASSUME NEW p \in Coroutine, Removed(p)  PROVE  Role(x)'
  BY <1>17, Apart, NoDoor DEF Removed, Shut, Closed, Goto
<1>18. ASSUME NEW p \in Coroutine, Readded(p)  PROVE  Role(x)'
  BY <1>18, Apart, NoDoor DEF Readded, Shut, Closed, CarriedArmed, Goto
<1>19. ASSUME NEW p \in Coroutine, Discarded(p)  PROVE  Role(x)'
  BY <1>19, Apart, NoDoor DEF Discarded, Shut, Informed, Retrying, LoopReads,
     LiveKey, Goto
<1>20. ASSUME Expire  PROVE  Role(x)'
  BY <1>20, Apart, NoDoor DEF Expire, Resume, Dial, Locked, Dialed, Goto, Note
<1>21. ASSUME ExpireRemoved  PROVE  Role(x)'
  BY <1>21, Apart, NoDoor DEF ExpireRemoved
<1>22. ASSUME BringUp  PROVE  Role(x)'
  BY <1>22, Apart, NoDoor DEF BringUp, Dial, Locked, Dialed, Goto, Note
<1>23. ASSUME Retry, \A s \in Request : ~Entering(s)  PROVE  Role(x)'
  BY <1>23, Apart, NoDoor, ZenonT(60)
     DEF Retry, Dial, Locked, Dialed, Goto, Superseded
<1>24. ASSUME Kick  PROVE  Role(x)'
  BY <1>24, Apart, NoDoor DEF Kick, Released, LoopReads, Goto, Stale,
     Superseded
<1>25. ASSUME NEW d \in Instance, Drop(d)  PROVE  Role(x)'
  BY <1>25, Apart, NoDoor DEF Drop
<1>26. ASSUME NEW d \in Instance, NEW b \in BOOLEAN, DropTold(d, b)
      PROVE  Role(x)'
  BY <1>26, Apart, NoDoor DEF DropTold, LoopReads, Retrying, Note
<1>27. ASSUME UNCHANGED vars  PROVE  Role(x)'
  BY <1>27, Apart, NoDoor DEF vars, links, flags, coros, count
<1> HIDE DEF TypeOK, Goto, links, flags, coros, count, Role
<1> QED
  BY <1>1, <1>2, <1>3, <1>4, <1>5, <1>6, <1>7, <1>8, <1>9, <1>10, <1>11, <1>12,
     <1>13, <1>14, <1>15, <1>16, <1>17, <1>18, <1>19, <1>20, <1>21, <1>22,
     <1>23, <1>24, <1>25, <1>26, <1>27 DEF Next, Entering, Head, ConnectStep,
     CloseStep

LEMMA AttemptsStep ==
  ASSUME TypeOK, Removals, Roles, Attempts, [Next]_vars
  PROVE  Attempts'
<1> SUFFICES ASSUME NEW i \in Instance, Attempted(i)
             PROVE  Attempted(i)'
  BY DEF Attempts
<1> USE DEF TypeOK, Goto, Attempted, Connects, links, flags, coros, count
<1>1. ASSUME NEW r \in Request, NEW o \in Door, Press(r, o),
             \A s \in Request : ~Entering(s)
      PROVE  Attempted(i)'
  BY <1>1, Apart DEF Press, Released, Stale, Note
<1>2. ASSUME NEW r \in Request, Reconnect(r)  PROVE  Attempted(i)'
  BY <1>2, Apart DEF Reconnect, Past, Closing, Goto
<1>3. ASSUME NEW r \in Request, Pause(r)  PROVE  Attempted(i)'
  BY <1>3, Apart DEF Pause, Past, Closing, Goto, Note
<1>4. ASSUME NEW r \in Request, BeginSetup(r)  PROVE  Attempted(i)'
  BY <1>4, Apart DEF BeginSetup, Past, Goto
<1>5. ASSUME NEW r \in Request, Remove(r)  PROVE  Attempted(i)'
  BY <1>5, Apart, ZenonT(60)
     DEF Remove, Past, Closing, Goto, Removals, Removing, Removal
<1>6. ASSUME NEW r \in Request, PressResume(r)  PROVE  Attempted(i)'
  BY <1>6, Apart DEF PressResume, Resume, Dial, Locked, Dialed, Goto, Note
<1>7. ASSUME NEW r \in Request, EndSetup(r)  PROVE  Attempted(i)'
  BY <1>7, Apart DEF EndSetup, Done, Discards, LoopReads, Goto, Retrying
<1>8. ASSUME NEW r \in Request, SetupRedials(r)  PROVE  Attempted(i)'
  BY <1>8, Apart DEF SetupRedials, Closing, Goto
<1>9. ASSUME NEW p \in Coroutine, Enter(p)  PROVE  Attempted(i)'
  BY <1>9, Apart DEF Enter, Current, Locked, Goto
<1>10. ASSUME NEW p \in Coroutine, Declare(p)  PROVE  Attempted(i)'
  BY <1>10, Apart DEF Declare, Current, Goto
<1>11. ASSUME NEW p \in Coroutine, Connected(p)  PROVE  Attempted(i)'
  BY <1>11, Apart DEF Connected, Current, Stale, Superseded, DownAgain,
     Released, LoopReads, Again, Goto
<1>12. ASSUME NEW p \in Coroutine, Settled(p)  PROVE  Attempted(i)'
  BY <1>12, Apart DEF Settled, DownAgain, Done, Discards, LoopReads, Again,
     Goto, Retrying
<1>13. ASSUME NEW p \in Coroutine, Unwind(p)  PROVE  Attempted(i)'
  BY <1>13, Apart DEF Unwind, Ended, Current, Stale, Superseded, Released,
     Done, Discards, LoopReads, Goto, Retrying
<1>14. ASSUME NEW p \in Coroutine, NEW b \in BOOLEAN, ConnectFails(p, b)
      PROVE  Attempted(i)'
  BY <1>14, Apart DEF ConnectFails, Current, Stale, Superseded, Released, Done,
     Discards, LoopReads, Again, Goto, Retrying
<1>15. ASSUME NEW p \in Coroutine, Redial(p)  PROVE  Attempted(i)'
  BY <1>15, Apart DEF Redial, Superseded, Shut, Closed, Dialed, Informed,
     Retrying, LoopReads, Goto, Note
<1>16. ASSUME NEW p \in Coroutine, PauseHolds(p)  PROVE  Attempted(i)'
  BY <1>16, Apart DEF PauseHolds, Superseded, Shut, Closed, Informed, Retrying,
     LoopReads, Goto, Note
<1>17. ASSUME NEW p \in Coroutine, Removed(p)  PROVE  Attempted(i)'
  BY <1>17, Apart DEF Removed, Shut, Closed, Goto
<1>18. ASSUME NEW p \in Coroutine, Readded(p)  PROVE  Attempted(i)'
  BY <1>18, Apart, ZenonT(60)
     DEF Readded, Shut, Closed, CarriedArmed, Goto, Removals,
     Removing, Removal
<1>19. ASSUME NEW p \in Coroutine, Discarded(p)  PROVE  Attempted(i)'
  BY <1>19, Apart DEF Discarded, Shut, Informed, Retrying, LoopReads, LiveKey,
     Goto
<1>20. ASSUME Expire  PROVE  Attempted(i)'
  BY <1>20, Apart DEF Expire, Resume, Dial, Locked, Dialed, Goto, Note
<1>21. ASSUME ExpireRemoved  PROVE  Attempted(i)'
  BY <1>21, Apart DEF ExpireRemoved
<1>22. ASSUME BringUp  PROVE  Attempted(i)'
  BY <1>22, Apart DEF BringUp, Dial, Locked, Dialed, Goto, Note
<1>23. ASSUME Retry, \A s \in Request : ~Entering(s)  PROVE  Attempted(i)'
  BY <1>23, Apart DEF Retry, Dial, Locked, Dialed, Goto, Superseded
<1>24. ASSUME Kick  PROVE  Attempted(i)'
  BY <1>24, Apart DEF Kick, Released, LoopReads, Goto, Stale, Superseded
<1>25. ASSUME NEW d \in Instance, Drop(d)  PROVE  Attempted(i)'
  BY <1>25, Apart DEF Drop
<1>26. ASSUME NEW d \in Instance, NEW b \in BOOLEAN, DropTold(d, b)
      PROVE  Attempted(i)'
  BY <1>26, Apart DEF DropTold, LoopReads, Retrying, Note
<1>27. ASSUME UNCHANGED vars  PROVE  Attempted(i)'
  BY <1>27, Apart DEF vars, links, flags, coros, count
<1> HIDE DEF TypeOK, Goto, Attempted, Connects, links, flags, coros, count
<1> QED
  BY <1>1, <1>2, <1>3, <1>4, <1>5, <1>6, <1>7, <1>8, <1>9, <1>10, <1>11, <1>12,
     <1>13, <1>14, <1>15, <1>16, <1>17, <1>18, <1>19, <1>20, <1>21, <1>22,
     <1>23, <1>24, <1>25, <1>26, <1>27 DEF Next, Entering, Head, ConnectStep,
     CloseStep

LEMMA InstanceMadeStep ==
  ASSUME TypeOK, InstanceMade, TypeOK', [Next]_vars
  PROVE  InstanceMade'
<1> USE DEF TypeOK, Goto, links, flags, coros, count, InstanceMade
<1>1. ASSUME NEW r \in Request, NEW o \in Door, Press(r, o),
             \A s \in Request : ~Entering(s)
      PROVE  InstanceMade'
  BY <1>1, Apart, Counted DEF Press, Released, Stale, Note
<1>2. ASSUME NEW r \in Request, Reconnect(r)  PROVE  InstanceMade'
  BY <1>2, Apart, Counted DEF Reconnect, Past, Closing, Goto
<1>3. ASSUME NEW r \in Request, Pause(r)  PROVE  InstanceMade'
  BY <1>3, Apart, Counted DEF Pause, Past, Closing, Goto, Note
<1>4. ASSUME NEW r \in Request, BeginSetup(r)  PROVE  InstanceMade'
  BY <1>4, Apart, Counted DEF BeginSetup, Past, Goto
<1>5. ASSUME NEW r \in Request, Remove(r)  PROVE  InstanceMade'
  BY <1>5, Apart, Counted DEF Remove, Past, Closing, Goto
<1>6. ASSUME NEW r \in Request, PressResume(r)  PROVE  InstanceMade'
  BY <1>6, Apart, Counted DEF PressResume, Resume, Dial, Locked, Dialed, Goto,
     Note
<1>7. ASSUME NEW r \in Request, EndSetup(r)  PROVE  InstanceMade'
  BY <1>7, Apart, Counted DEF EndSetup, Done, Discards, LoopReads, Goto,
     Retrying
<1>8. ASSUME NEW r \in Request, SetupRedials(r)  PROVE  InstanceMade'
  BY <1>8, Apart, Counted DEF SetupRedials, Closing, Goto
<1>9. ASSUME NEW p \in Coroutine, Enter(p)  PROVE  InstanceMade'
  BY <1>9, Apart, Counted DEF Enter, Current, Locked, Goto
<1>10. ASSUME NEW p \in Coroutine, Declare(p)  PROVE  InstanceMade'
  BY <1>10, Apart, Counted DEF Declare, Current, Goto
<1>11. ASSUME NEW p \in Coroutine, Connected(p)  PROVE  InstanceMade'
  BY <1>11, Apart, Counted DEF Connected, Current, Stale, Superseded,
     DownAgain, Released, LoopReads, Again, Goto
<1>12. ASSUME NEW p \in Coroutine, Settled(p)  PROVE  InstanceMade'
  BY <1>12, Apart, Counted DEF Settled, DownAgain, Done, Discards, LoopReads,
     Again, Goto, Retrying
<1>13. ASSUME NEW p \in Coroutine, Unwind(p)  PROVE  InstanceMade'
  BY <1>13, Apart, Counted DEF Unwind, Ended, Current, Stale, Superseded,
     Released, Done, Discards, LoopReads, Goto, Retrying
<1>14. ASSUME NEW p \in Coroutine, NEW b \in BOOLEAN, ConnectFails(p, b)
      PROVE  InstanceMade'
  BY <1>14, Apart, Counted DEF ConnectFails, Current, Stale, Superseded,
     Released, Done, Discards, LoopReads, Again, Goto, Retrying
<1>15. ASSUME NEW p \in Coroutine, Redial(p)  PROVE  InstanceMade'
  BY <1>15, Apart, Counted DEF Redial, Superseded, Shut, Closed, Dialed,
     Informed, Retrying, LoopReads, Goto, Note
<1>16. ASSUME NEW p \in Coroutine, PauseHolds(p)  PROVE  InstanceMade'
  BY <1>16, Apart, Counted DEF PauseHolds, Superseded, Shut, Closed, Informed,
     Retrying, LoopReads, Goto, Note
<1>17. ASSUME NEW p \in Coroutine, Removed(p)  PROVE  InstanceMade'
  BY <1>17, Apart, Counted DEF Removed, Shut, Closed, Goto
<1>18. ASSUME NEW p \in Coroutine, Readded(p)  PROVE  InstanceMade'
  BY <1>18, Apart, Counted DEF Readded, Shut, Closed, CarriedArmed, Goto
<1>19. ASSUME NEW p \in Coroutine, Discarded(p)  PROVE  InstanceMade'
  BY <1>19, Apart, Counted DEF Discarded, Shut, Informed, Retrying, LoopReads,
     LiveKey, Goto
<1>20. ASSUME Expire  PROVE  InstanceMade'
  BY <1>20, Apart, Counted DEF Expire, Resume, Dial, Locked, Dialed, Goto, Note
<1>21. ASSUME ExpireRemoved  PROVE  InstanceMade'
  BY <1>21, Apart, Counted DEF ExpireRemoved
<1>22. ASSUME BringUp  PROVE  InstanceMade'
  BY <1>22, Apart, Counted DEF BringUp, Dial, Locked, Dialed, Goto, Note
<1>23. ASSUME Retry  PROVE  InstanceMade'
  BY <1>23, Apart, Counted DEF Retry, Dial, Locked, Dialed, Goto, Superseded
<1>24. ASSUME Kick  PROVE  InstanceMade'
  BY <1>24, Apart, Counted DEF Kick, Released, LoopReads, Goto, Stale,
     Superseded
<1>25. ASSUME NEW i \in Instance, Drop(i)  PROVE  InstanceMade'
  BY <1>25, Apart, Counted DEF Drop
<1>26. ASSUME NEW i \in Instance, NEW b \in BOOLEAN, DropTold(i, b)
      PROVE  InstanceMade'
  BY <1>26, Apart, Counted DEF DropTold, LoopReads, Retrying, Note
<1>27. ASSUME UNCHANGED vars  PROVE  InstanceMade'
  BY <1>27, Apart, Counted DEF vars, links, flags, coros, count
<1> HIDE DEF TypeOK, Goto, links, flags, coros, count, InstanceMade
<1> QED
  BY <1>1, <1>2, <1>3, <1>4, <1>5, <1>6, <1>7, <1>8, <1>9, <1>10, <1>11, <1>12,
     <1>13, <1>14, <1>15, <1>16, <1>17, <1>18, <1>19, <1>20, <1>21, <1>22,
     <1>23, <1>24, <1>25, <1>26, <1>27 DEF Next, Entering, Head, ConnectStep,
     CloseStep

LEMMA DriversMadeStep ==
  ASSUME TypeOK, InstanceMade, DriversMade, TypeOK', [Next]_vars
  PROVE  DriversMade'
<1> SUFFICES ASSUME NEW x \in Coroutine, DriverMade(x)
             PROVE  DriverMade(x)'
  BY DEF DriversMade
<1> USE DEF TypeOK, Goto, links, flags, coros, count, DriverMade, InstanceMade
<1>1. ASSUME NEW r \in Request, NEW o \in Door, Press(r, o),
             \A s \in Request : ~Entering(s)
      PROVE  DriverMade(x)'
  BY <1>1, Apart, Counted DEF Press, Released, Stale, Note
<1>2. ASSUME NEW r \in Request, Reconnect(r)  PROVE  DriverMade(x)'
  BY <1>2, Apart, Counted DEF Reconnect, Past, Closing, Goto
<1>3. ASSUME NEW r \in Request, Pause(r)  PROVE  DriverMade(x)'
  BY <1>3, Apart, Counted DEF Pause, Past, Closing, Goto, Note
<1>4. ASSUME NEW r \in Request, BeginSetup(r)  PROVE  DriverMade(x)'
  BY <1>4, Apart, Counted DEF BeginSetup, Past, Goto
<1>5. ASSUME NEW r \in Request, Remove(r)  PROVE  DriverMade(x)'
  BY <1>5, Apart, Counted DEF Remove, Past, Closing, Goto
<1>6. ASSUME NEW r \in Request, PressResume(r)  PROVE  DriverMade(x)'
  BY <1>6, Apart, Counted DEF PressResume, Resume, Dial, Locked, Dialed, Goto,
     Note
<1>7. ASSUME NEW r \in Request, EndSetup(r)  PROVE  DriverMade(x)'
  BY <1>7, Apart, Counted DEF EndSetup, Done, Discards, LoopReads, Goto,
     Retrying
<1>8. ASSUME NEW r \in Request, SetupRedials(r)  PROVE  DriverMade(x)'
  BY <1>8, Apart, Counted DEF SetupRedials, Closing, Goto
<1>9. ASSUME NEW p \in Coroutine, Enter(p)  PROVE  DriverMade(x)'
  BY <1>9, Apart, Counted DEF Enter, Current, Locked, Goto
<1>10. ASSUME NEW p \in Coroutine, Declare(p)  PROVE  DriverMade(x)'
  BY <1>10, Apart, Counted DEF Declare, Current, Goto
<1>11. ASSUME NEW p \in Coroutine, Connected(p)  PROVE  DriverMade(x)'
  BY <1>11, Apart, Counted DEF Connected, Current, Stale, Superseded,
     DownAgain, Released, LoopReads, Again, Goto
<1>12. ASSUME NEW p \in Coroutine, Settled(p)  PROVE  DriverMade(x)'
  BY <1>12, Apart, Counted DEF Settled, DownAgain, Done, Discards, LoopReads,
     Again, Goto, Retrying
<1>13. ASSUME NEW p \in Coroutine, Unwind(p)  PROVE  DriverMade(x)'
  BY <1>13, Apart, Counted DEF Unwind, Ended, Current, Stale, Superseded,
     Released, Done, Discards, LoopReads, Goto, Retrying
<1>14. ASSUME NEW p \in Coroutine, NEW b \in BOOLEAN, ConnectFails(p, b)
      PROVE  DriverMade(x)'
  <2>1. drv' \in {drv, [drv EXCEPT !["loop"] = inst]} /\ inst' = inst
          /\ made' = made
    BY <1>14 DEF ConnectFails, LoopReads
  <2>2. pc'["loop"] = "waiting" /\ pc["loop"] # "waiting" => inst # None
          \/ drv'["loop"] = drv["loop"] \/ drv'["loop"] = inst
    BY <2>1
  <2>3. drv'[x] \in {drv[x], inst}
    BY <2>1
  <2>4. drv'[x] \in Instance
    OBVIOUS
  <2>5. drv'[x] = inst => inst # None
    BY <2>4, Apart
  <2> QED  BY <2>1, <2>3, <2>5
<1>15. ASSUME NEW p \in Coroutine, Redial(p)  PROVE  DriverMade(x)'
  BY <1>15, Apart, Counted DEF Redial, Superseded, Shut, Closed, Dialed,
     Informed, Retrying, LoopReads, Goto, Note
<1>16. ASSUME NEW p \in Coroutine, PauseHolds(p)  PROVE  DriverMade(x)'
  BY <1>16, Apart, Counted DEF PauseHolds, Superseded, Shut, Closed, Informed,
     Retrying, LoopReads, Goto, Note
<1>17. ASSUME NEW p \in Coroutine, Removed(p)  PROVE  DriverMade(x)'
  BY <1>17, Apart, Counted DEF Removed, Shut, Closed, Goto
<1>18. ASSUME NEW p \in Coroutine, Readded(p)  PROVE  DriverMade(x)'
  <2>1. drv' = drv /\ made' = made + 1
    BY <1>18 DEF Readded
  <2>2. made \in Nat /\ drv[x] \in Nat
    BY Counted
  <2> QED  BY <2>1, <2>2
<1>19. ASSUME NEW p \in Coroutine, Discarded(p)  PROVE  DriverMade(x)'
  BY <1>19, Apart, Counted DEF Discarded, Shut, Informed, Retrying, LoopReads,
     LiveKey, Goto
<1>20. ASSUME Expire  PROVE  DriverMade(x)'
  BY <1>20, Apart, Counted DEF Expire, Resume, Dial, Locked, Dialed, Goto, Note
<1>21. ASSUME ExpireRemoved  PROVE  DriverMade(x)'
  BY <1>21, Apart, Counted DEF ExpireRemoved
<1>22. ASSUME BringUp  PROVE  DriverMade(x)'
  BY <1>22, Apart, Counted DEF BringUp, Dial, Locked, Dialed, Goto, Note
<1>23. ASSUME Retry, \A s \in Request : ~Entering(s)  PROVE  DriverMade(x)'
  BY <1>23, Apart, Counted DEF Retry, Dial, Locked, Dialed, Goto, Superseded
<1>24. ASSUME Kick  PROVE  DriverMade(x)'
  BY <1>24, Apart, Counted DEF Kick, Released, LoopReads, Goto, Stale,
     Superseded
<1>25. ASSUME NEW d \in Instance, Drop(d)  PROVE  DriverMade(x)'
  BY <1>25, Apart, Counted DEF Drop
<1>26. ASSUME NEW d \in Instance, NEW b \in BOOLEAN, DropTold(d, b)
      PROVE  DriverMade(x)'
  BY <1>26, Apart, Counted DEF DropTold, LoopReads, Retrying, Note
<1>27. ASSUME UNCHANGED vars  PROVE  DriverMade(x)'
  BY <1>27, Apart, Counted DEF vars, links, flags, coros, count
<1> HIDE DEF TypeOK, Goto, links, flags, coros, count, DriverMade, InstanceMade
<1> QED
  BY <1>1, <1>2, <1>3, <1>4, <1>5, <1>6, <1>7, <1>8, <1>9, <1>10, <1>11, <1>12,
     <1>13, <1>14, <1>15, <1>16, <1>17, <1>18, <1>19, <1>20, <1>21, <1>22,
     <1>23, <1>24, <1>25, <1>26, <1>27 DEF Next, Entering, Head, ConnectStep,
     CloseStep

LEMMA FreshStep ==
  ASSUME TypeOK, InstanceMade, DriversMade, Fresh, TypeOK', [Next]_vars
  PROVE  Fresh'
<1> SUFFICES ASSUME NEW i \in Instance, NotYetMade(i)
             PROVE  NotYetMade(i)'
  BY DEF Fresh
<1> USE DEF TypeOK, Goto, links, flags, coros, count, NotYetMade, InstanceMade,
     DriversMade, DriverMade
<1>1. ASSUME NEW r \in Request, NEW o \in Door, Press(r, o),
             \A s \in Request : ~Entering(s)
      PROVE  NotYetMade(i)'
  BY <1>1, Apart, Counted DEF Press, Released, Stale, Note
<1>2. ASSUME NEW r \in Request, Reconnect(r)  PROVE  NotYetMade(i)'
  BY <1>2, Apart, Counted DEF Reconnect, Past, Closing, Goto
<1>3. ASSUME NEW r \in Request, Pause(r)  PROVE  NotYetMade(i)'
  BY <1>3, Apart, Counted DEF Pause, Past, Closing, Goto, Note
<1>4. ASSUME NEW r \in Request, BeginSetup(r)  PROVE  NotYetMade(i)'
  BY <1>4, Apart, Counted DEF BeginSetup, Past, Goto
<1>5. ASSUME NEW r \in Request, Remove(r)  PROVE  NotYetMade(i)'
  BY <1>5, Apart, Counted DEF Remove, Past, Closing, Goto
<1>6. ASSUME NEW r \in Request, PressResume(r)  PROVE  NotYetMade(i)'
  BY <1>6, Apart, Counted DEF PressResume, Resume, Dial, Locked, Dialed, Goto,
     Note
<1>7. ASSUME NEW r \in Request, EndSetup(r)  PROVE  NotYetMade(i)'
  BY <1>7, Apart, Counted DEF EndSetup, Done, Discards, LoopReads, Goto,
     Retrying
<1>8. ASSUME NEW r \in Request, SetupRedials(r)  PROVE  NotYetMade(i)'
  BY <1>8, Apart, Counted DEF SetupRedials, Closing, Goto
<1>9. ASSUME NEW p \in Coroutine, Enter(p)  PROVE  NotYetMade(i)'
  BY <1>9, Apart, Counted DEF Enter, Current, Locked, Goto
<1>10. ASSUME NEW p \in Coroutine, Declare(p)  PROVE  NotYetMade(i)'
  BY <1>10, Apart, Counted DEF Declare, Current, Goto
<1>11. ASSUME NEW p \in Coroutine, Connected(p)  PROVE  NotYetMade(i)'
  BY <1>11, Apart, Counted DEF Connected, Current, Stale, Superseded,
     DownAgain, Released, LoopReads, Again, Goto
<1>12. ASSUME NEW p \in Coroutine, Settled(p)  PROVE  NotYetMade(i)'
  BY <1>12, Apart, Counted DEF Settled, DownAgain, Done, Discards, LoopReads,
     Again, Goto, Retrying
<1>13. ASSUME NEW p \in Coroutine, Unwind(p)  PROVE  NotYetMade(i)'
  BY <1>13, Apart, Counted DEF Unwind, Ended, Current, Stale, Superseded,
     Released, Done, Discards, LoopReads, Goto, Retrying
<1>14. ASSUME NEW p \in Coroutine, NEW b \in BOOLEAN, ConnectFails(p, b)
      PROVE  NotYetMade(i)'
  BY <1>14, Apart, Counted, ZenonT(60) DEF ConnectFails, Current, Stale, Superseded,
     Released, Done, Discards, LoopReads, Again, Goto, Retrying
<1>15. ASSUME NEW p \in Coroutine, Redial(p)  PROVE  NotYetMade(i)'
  BY <1>15, Apart, Counted DEF Redial, Superseded, Shut, Closed, Dialed,
     Informed, Retrying, LoopReads, Goto, Note
<1>16. ASSUME NEW p \in Coroutine, PauseHolds(p)  PROVE  NotYetMade(i)'
  BY <1>16, Apart, Counted DEF PauseHolds, Superseded, Shut, Closed, Informed,
     Retrying, LoopReads, Goto, Note
<1>17. ASSUME NEW p \in Coroutine, Removed(p)  PROVE  NotYetMade(i)'
  BY <1>17, Apart, Counted DEF Removed, Shut, Closed, Goto
<1>18. ASSUME NEW p \in Coroutine, Readded(p)  PROVE  NotYetMade(i)'
  BY <1>18, Apart, Counted DEF Readded, Shut, Closed, CarriedArmed, Goto
<1>19. ASSUME NEW p \in Coroutine, Discarded(p)  PROVE  NotYetMade(i)'
  BY <1>19, Apart, Counted DEF Discarded, Shut, Informed, Retrying, LoopReads,
     LiveKey, Goto
<1>20. ASSUME Expire  PROVE  NotYetMade(i)'
  BY <1>20, Apart, Counted DEF Expire, Resume, Dial, Locked, Dialed, Goto, Note
<1>21. ASSUME ExpireRemoved  PROVE  NotYetMade(i)'
  BY <1>21, Apart, Counted DEF ExpireRemoved
<1>22. ASSUME BringUp  PROVE  NotYetMade(i)'
  BY <1>22, Apart, Counted DEF BringUp, Dial, Locked, Dialed, Goto, Note
<1>23. ASSUME Retry, \A s \in Request : ~Entering(s)  PROVE  NotYetMade(i)'
  BY <1>23, Apart, Counted DEF Retry, Dial, Locked, Dialed, Goto, Superseded
<1>24. ASSUME Kick  PROVE  NotYetMade(i)'
  BY <1>24, Apart, Counted DEF Kick, Released, LoopReads, Goto, Stale,
     Superseded
<1>25. ASSUME NEW d \in Instance, Drop(d)  PROVE  NotYetMade(i)'
  BY <1>25, Apart, Counted DEF Drop
<1>26. ASSUME NEW d \in Instance, NEW b \in BOOLEAN, DropTold(d, b)
      PROVE  NotYetMade(i)'
  BY <1>26, Apart, Counted DEF DropTold, LoopReads, Retrying, Note
<1>27. ASSUME UNCHANGED vars  PROVE  NotYetMade(i)'
  BY <1>27, Apart, Counted DEF vars, links, flags, coros, count
<1> HIDE DEF TypeOK, Goto, links, flags, coros, count, NotYetMade,
     InstanceMade, DriversMade, DriverMade
<1> QED
  BY <1>1, <1>2, <1>3, <1>4, <1>5, <1>6, <1>7, <1>8, <1>9, <1>10, <1>11, <1>12,
     <1>13, <1>14, <1>15, <1>16, <1>17, <1>18, <1>19, <1>20, <1>21, <1>22,
     <1>23, <1>24, <1>25, <1>26, <1>27 DEF Next, Entering, Head, ConnectStep,
     CloseStep

LEMMA OneEnteringStep ==
  ASSUME TypeOK, OneEntering, [Next]_vars
  PROVE  OneEntering'
<1> SUFFICES ASSUME NEW x \in Request, NEW y \in Request, EnteringAlone(x, y)
             PROVE  EnteringAlone(x, y)'
  BY DEF OneEntering
<1> USE DEF TypeOK, Goto, links, flags, coros, count, EnteringAlone
<1>1. ASSUME NEW r \in Request, NEW o \in Door, Press(r, o),
             \A s \in Request : ~Entering(s)
      PROVE  EnteringAlone(x, y)'
  BY <1>1, Apart DEF Press, Released, Stale, Note, Entering
<1>2. ASSUME NEW r \in Request, Reconnect(r)  PROVE  EnteringAlone(x, y)'
  BY <1>2, Apart DEF Reconnect, Past, Closing, Goto
<1>3. ASSUME NEW r \in Request, Pause(r)  PROVE  EnteringAlone(x, y)'
  BY <1>3, Apart DEF Pause, Past, Closing, Goto, Note
<1>4. ASSUME NEW r \in Request, BeginSetup(r)  PROVE  EnteringAlone(x, y)'
  BY <1>4, Apart DEF BeginSetup, Past, Goto
<1>5. ASSUME NEW r \in Request, Remove(r)  PROVE  EnteringAlone(x, y)'
  BY <1>5, Apart DEF Remove, Past, Closing, Goto
<1>6. ASSUME NEW r \in Request, PressResume(r)  PROVE  EnteringAlone(x, y)'
  BY <1>6, Apart DEF PressResume, Resume, Dial, Locked, Dialed, Goto, Note
<1>7. ASSUME NEW r \in Request, EndSetup(r)  PROVE  EnteringAlone(x, y)'
  BY <1>7, Apart DEF EndSetup, Done, Discards, LoopReads, Goto, Retrying
<1>8. ASSUME NEW r \in Request, SetupRedials(r)  PROVE  EnteringAlone(x, y)'
  BY <1>8, Apart DEF SetupRedials, Closing, Goto
<1>9. ASSUME NEW p \in Coroutine, Enter(p)  PROVE  EnteringAlone(x, y)'
  BY <1>9, Apart DEF Enter, Current, Locked, Goto
<1>10. ASSUME NEW p \in Coroutine, Declare(p)  PROVE  EnteringAlone(x, y)'
  BY <1>10, Apart DEF Declare, Current, Goto
<1>11. ASSUME NEW p \in Coroutine, Connected(p)  PROVE  EnteringAlone(x, y)'
  BY <1>11, Apart DEF Connected, Current, Stale, Superseded, DownAgain,
     Released, LoopReads, Again, Goto
<1>12. ASSUME NEW p \in Coroutine, Settled(p)  PROVE  EnteringAlone(x, y)'
  BY <1>12, Apart DEF Settled, DownAgain, Done, Discards, LoopReads, Again,
     Goto, Retrying
<1>13. ASSUME NEW p \in Coroutine, Unwind(p)  PROVE  EnteringAlone(x, y)'
  BY <1>13, Apart DEF Unwind, Ended, Current, Stale, Superseded, Released,
     Done, Discards, LoopReads, Goto, Retrying
<1>14. ASSUME NEW p \in Coroutine, NEW b \in BOOLEAN, ConnectFails(p, b)
      PROVE  EnteringAlone(x, y)'
  BY <1>14, Apart DEF ConnectFails, Current, Stale, Superseded, Released, Done,
     Discards, LoopReads, Again, Goto, Retrying
<1>15. ASSUME NEW p \in Coroutine, Redial(p)  PROVE  EnteringAlone(x, y)'
  BY <1>15, Apart DEF Redial, Superseded, Shut, Closed, Dialed, Informed,
     Retrying, LoopReads, Goto, Note
<1>16. ASSUME NEW p \in Coroutine, PauseHolds(p)  PROVE  EnteringAlone(x, y)'
  BY <1>16, Apart DEF PauseHolds, Superseded, Shut, Closed, Informed, Retrying,
     LoopReads, Goto, Note
<1>17. ASSUME NEW p \in Coroutine, Removed(p)  PROVE  EnteringAlone(x, y)'
  BY <1>17, Apart DEF Removed, Shut, Closed, Goto
<1>18. ASSUME NEW p \in Coroutine, Readded(p)  PROVE  EnteringAlone(x, y)'
  BY <1>18, Apart DEF Readded, Shut, Closed, CarriedArmed, Goto
<1>19. ASSUME NEW p \in Coroutine, Discarded(p)  PROVE  EnteringAlone(x, y)'
  BY <1>19, Apart DEF Discarded, Shut, Informed, Retrying, LoopReads, LiveKey,
     Goto
<1>20. ASSUME Expire  PROVE  EnteringAlone(x, y)'
  BY <1>20, Apart DEF Expire, Resume, Dial, Locked, Dialed, Goto, Note
<1>21. ASSUME ExpireRemoved  PROVE  EnteringAlone(x, y)'
  BY <1>21, Apart DEF ExpireRemoved
<1>22. ASSUME BringUp  PROVE  EnteringAlone(x, y)'
  BY <1>22, Apart DEF BringUp, Dial, Locked, Dialed, Goto, Note
<1>23. ASSUME Retry, \A s \in Request : ~Entering(s)
      PROVE  EnteringAlone(x, y)'
  BY <1>23, Apart DEF Retry, Dial, Locked, Dialed, Goto, Superseded
<1>24. ASSUME Kick  PROVE  EnteringAlone(x, y)'
  BY <1>24, Apart DEF Kick, Released, LoopReads, Goto, Stale, Superseded
<1>25. ASSUME NEW d \in Instance, Drop(d)  PROVE  EnteringAlone(x, y)'
  BY <1>25, Apart DEF Drop
<1>26. ASSUME NEW d \in Instance, NEW b \in BOOLEAN, DropTold(d, b)
      PROVE  EnteringAlone(x, y)'
  BY <1>26, Apart DEF DropTold, LoopReads, Retrying, Note
<1>27. ASSUME UNCHANGED vars  PROVE  EnteringAlone(x, y)'
  BY <1>27, Apart DEF vars, links, flags, coros, count
<1> HIDE DEF TypeOK, Goto, links, flags, coros, count, EnteringAlone
<1> QED
  BY <1>1, <1>2, <1>3, <1>4, <1>5, <1>6, <1>7, <1>8, <1>9, <1>10, <1>11, <1>12,
     <1>13, <1>14, <1>15, <1>16, <1>17, <1>18, <1>19, <1>20, <1>21, <1>22,
     <1>23, <1>24, <1>25, <1>26, <1>27 DEF Next, Entering, Head, ConnectStep,
     CloseStep

-----------------------------------------------------------------------------
(* The shape of a step, for a coroutine: it goes on with what it was at,   *)
(* it opens a door, or it begins what has no door.                         *)

Calm == "crossed" \notin notes

GoesOn(q) == pc'[q] = "idle" \/ (pc[q] # "idle" /\ op'[q] = op[q])

Opens(q) ==
    /\ op'[q] \in Door /\ Allowed(op'[q]) /\ (Crosses(op'[q]) => ~Calm')
    /\ pc[q] = "idle" /\ inst # None
    /\ inst' = inst /\ drv'[q] = inst /\ deferred' = deferred
    /\ pc'[q] = (IF pc["loop"] = "idle" THEN "entering" ELSE "cancelling")
    /\ pc'["loop"] = "idle"
    /\ \A r \in Request : ~Entering(r)
    /\ paused' = (paused /\ op'[q] # "reconnect")

Shaped(q) == GoesOn(q) \/ Opens(q) \/ op'[q] \notin Door

(* The history forgets no race. *)
LEMMA NotesGrow ==
  ASSUME TypeOK, [Next]_vars
  PROVE  notes \subseteq notes'
<1> USE DEF TypeOK, Goto, links, flags, coros, count
<1>1. ASSUME NEW r \in Request, NEW o \in Door, Press(r, o),
             \A s \in Request : ~Entering(s)
      PROVE  notes \subseteq notes'
  BY <1>1, Apart DEF Press, Released, Stale, Note
<1>2. ASSUME NEW r \in Request, Reconnect(r)  PROVE  notes \subseteq notes'
  BY <1>2, Apart DEF Reconnect, Past, Closing, Goto
<1>3. ASSUME NEW r \in Request, Pause(r)  PROVE  notes \subseteq notes'
  BY <1>3, Apart DEF Pause, Past, Closing, Goto, Note
<1>4. ASSUME NEW r \in Request, BeginSetup(r)  PROVE  notes \subseteq notes'
  BY <1>4, Apart DEF BeginSetup, Past, Goto
<1>5. ASSUME NEW r \in Request, Remove(r)  PROVE  notes \subseteq notes'
  BY <1>5, Apart DEF Remove, Past, Closing, Goto
<1>6. ASSUME NEW r \in Request, PressResume(r)  PROVE  notes \subseteq notes'
  BY <1>6, Apart DEF PressResume, Resume, Dial, Locked, Dialed, Goto, Note
<1>7. ASSUME NEW r \in Request, EndSetup(r)  PROVE  notes \subseteq notes'
  BY <1>7, Apart DEF EndSetup, Done, Discards, LoopReads, Goto, Retrying
<1>8. ASSUME NEW r \in Request, SetupRedials(r)  PROVE  notes \subseteq notes'
  BY <1>8, Apart DEF SetupRedials, Closing, Goto
<1>9. ASSUME NEW p \in Coroutine, Enter(p)  PROVE  notes \subseteq notes'
  BY <1>9, Apart DEF Enter, Current, Locked, Goto
<1>10. ASSUME NEW p \in Coroutine, Declare(p)  PROVE  notes \subseteq notes'
  BY <1>10, Apart DEF Declare, Current, Goto
<1>11. ASSUME NEW p \in Coroutine, Connected(p)  PROVE  notes \subseteq notes'
  BY <1>11, Apart DEF Connected, Current, Stale, Superseded, DownAgain,
     Released, LoopReads, Again, Goto
<1>12. ASSUME NEW p \in Coroutine, Settled(p)  PROVE  notes \subseteq notes'
  BY <1>12, Apart DEF Settled, DownAgain, Done, Discards, LoopReads, Again,
     Goto, Retrying
<1>13. ASSUME NEW p \in Coroutine, Unwind(p)  PROVE  notes \subseteq notes'
  BY <1>13, Apart DEF Unwind, Ended, Current, Stale, Superseded, Released,
     Done, Discards, LoopReads, Goto, Retrying
<1>14. ASSUME NEW p \in Coroutine, NEW b \in BOOLEAN, ConnectFails(p, b)
      PROVE  notes \subseteq notes'
  BY <1>14, Apart DEF ConnectFails, Current, Stale, Superseded, Released, Done,
     Discards, LoopReads, Again, Goto, Retrying
<1>15. ASSUME NEW p \in Coroutine, Redial(p)  PROVE  notes \subseteq notes'
  BY <1>15, Apart DEF Redial, Superseded, Shut, Closed, Dialed, Informed,
     Retrying, LoopReads, Goto, Note
<1>16. ASSUME NEW p \in Coroutine, PauseHolds(p)  PROVE  notes \subseteq notes'
  BY <1>16, Apart DEF PauseHolds, Superseded, Shut, Closed, Informed, Retrying,
     LoopReads, Goto, Note
<1>17. ASSUME NEW p \in Coroutine, Removed(p)  PROVE  notes \subseteq notes'
  BY <1>17, Apart DEF Removed, Shut, Closed, Goto
<1>18. ASSUME NEW p \in Coroutine, Readded(p)  PROVE  notes \subseteq notes'
  BY <1>18, Apart DEF Readded, Shut, Closed, CarriedArmed, Goto
<1>19. ASSUME NEW p \in Coroutine, Discarded(p)  PROVE  notes \subseteq notes'
  BY <1>19, Apart DEF Discarded, Shut, Informed, Retrying, LoopReads, LiveKey,
     Goto
<1>20. ASSUME Expire  PROVE  notes \subseteq notes'
  BY <1>20, Apart DEF Expire, Resume, Dial, Locked, Dialed, Goto, Note
<1>21. ASSUME ExpireRemoved  PROVE  notes \subseteq notes'
  BY <1>21, Apart DEF ExpireRemoved
<1>22. ASSUME BringUp  PROVE  notes \subseteq notes'
  BY <1>22, Apart DEF BringUp, Dial, Locked, Dialed, Goto, Note
<1>23. ASSUME Retry, \A s \in Request : ~Entering(s)
      PROVE  notes \subseteq notes'
  BY <1>23, Apart DEF Retry, Dial, Locked, Dialed, Goto, Superseded
<1>24. ASSUME Kick  PROVE  notes \subseteq notes'
  BY <1>24, Apart DEF Kick, Released, LoopReads, Goto, Stale, Superseded
<1>25. ASSUME NEW d \in Instance, Drop(d)  PROVE  notes \subseteq notes'
  BY <1>25, Apart DEF Drop
<1>26. ASSUME NEW d \in Instance, NEW b \in BOOLEAN, DropTold(d, b)
      PROVE  notes \subseteq notes'
  BY <1>26, Apart DEF DropTold, LoopReads, Retrying, Note
<1>27. ASSUME UNCHANGED vars  PROVE  notes \subseteq notes'
  BY <1>27, Apart DEF vars, links, flags, coros, count
<1> HIDE DEF TypeOK, Goto, links, flags, coros, count
<1> QED
  BY <1>1, <1>2, <1>3, <1>4, <1>5, <1>6, <1>7, <1>8, <1>9, <1>10, <1>11, <1>12,
     <1>13, <1>14, <1>15, <1>16, <1>17, <1>18, <1>19, <1>20, <1>21, <1>22,
     <1>23, <1>24, <1>25, <1>26, <1>27 DEF Next, Entering, Head, ConnectStep,
     CloseStep

LEMMA CalmKept ==
  ASSUME TypeOK, [Next]_vars
  PROVE  Calm' => Calm
  BY NotesGrow DEF Calm

LEMMA ShapeStep ==
  ASSUME TypeOK, NEW q \in Coroutine, Role(q), [Next]_vars
  PROVE  Shaped(q)
<1> USE DEF TypeOK, Goto, links, flags, coros, count, Shaped, GoesOn, Role
<1>1. ASSUME NEW r \in Request, NEW o \in Door, Press(r, o),
             \A s \in Request : ~Entering(s)
      PROVE  Shaped(q)
  BY <1>1, Apart, NoDoor DEF Press, Released, Stale, Note, Opens, Calm
<1>2. ASSUME NEW r \in Request, Reconnect(r)  PROVE  Shaped(q)
  BY <1>2, Apart, NoDoor DEF Reconnect, Past, Closing, Goto
<1>3. ASSUME NEW r \in Request, Pause(r)  PROVE  Shaped(q)
  BY <1>3, Apart, NoDoor DEF Pause, Past, Closing, Goto, Note
<1>4. ASSUME NEW r \in Request, BeginSetup(r)  PROVE  Shaped(q)
  BY <1>4, Apart, NoDoor DEF BeginSetup, Past, Goto
<1>5. ASSUME NEW r \in Request, Remove(r)  PROVE  Shaped(q)
  BY <1>5, Apart, NoDoor DEF Remove, Past, Closing, Goto
<1>6. ASSUME NEW r \in Request, PressResume(r)  PROVE  Shaped(q)
  BY <1>6, Apart, NoDoor DEF PressResume, Resume, Dial, Locked, Dialed, Goto,
     Note
<1>7. ASSUME NEW r \in Request, EndSetup(r)  PROVE  Shaped(q)
  BY <1>7, Apart, NoDoor DEF EndSetup, Done, Discards, LoopReads, Goto,
     Retrying
<1>8. ASSUME NEW r \in Request, SetupRedials(r)  PROVE  Shaped(q)
  BY <1>8, Apart, NoDoor DEF SetupRedials, Closing, Goto
<1>9. ASSUME NEW p \in Coroutine, Enter(p)  PROVE  Shaped(q)
  BY <1>9, Apart, NoDoor DEF Enter, Current, Locked, Goto
<1>10. ASSUME NEW p \in Coroutine, Declare(p)  PROVE  Shaped(q)
  BY <1>10, Apart, NoDoor DEF Declare, Current, Goto
<1>11. ASSUME NEW p \in Coroutine, Connected(p)  PROVE  Shaped(q)
  BY <1>11, Apart, NoDoor DEF Connected, Current, Stale, Superseded, DownAgain,
     Released, LoopReads, Again, Goto
<1>12. ASSUME NEW p \in Coroutine, Settled(p)  PROVE  Shaped(q)
  BY <1>12, Apart, NoDoor DEF Settled, DownAgain, Done, Discards, LoopReads,
     Again, Goto, Retrying
<1>13. ASSUME NEW p \in Coroutine, Unwind(p)  PROVE  Shaped(q)
  BY <1>13, Apart, NoDoor DEF Unwind, Ended, Current, Stale, Superseded,
     Released, Done, Discards, LoopReads, Goto, Retrying
<1>14. ASSUME NEW p \in Coroutine, NEW b \in BOOLEAN, ConnectFails(p, b)
      PROVE  Shaped(q)
  BY <1>14, Apart, NoDoor DEF ConnectFails, Current, Stale, Superseded,
     Released, Done, Discards, LoopReads, Again, Goto, Retrying
<1>15. ASSUME NEW p \in Coroutine, Redial(p)  PROVE  Shaped(q)
  BY <1>15, Apart, NoDoor DEF Redial, Superseded, Shut, Closed, Dialed,
     Informed, Retrying, LoopReads, Goto, Note
<1>16. ASSUME NEW p \in Coroutine, PauseHolds(p)  PROVE  Shaped(q)
  BY <1>16, Apart, NoDoor DEF PauseHolds, Superseded, Shut, Closed, Informed,
     Retrying, LoopReads, Goto, Note
<1>17. ASSUME NEW p \in Coroutine, Removed(p)  PROVE  Shaped(q)
  BY <1>17, Apart, NoDoor DEF Removed, Shut, Closed, Goto
<1>18. ASSUME NEW p \in Coroutine, Readded(p)  PROVE  Shaped(q)
  BY <1>18, Apart, NoDoor DEF Readded, Shut, Closed, CarriedArmed, Goto
<1>19. ASSUME NEW p \in Coroutine, Discarded(p)  PROVE  Shaped(q)
  BY <1>19, Apart, NoDoor DEF Discarded, Shut, Informed, Retrying, LoopReads,
     LiveKey, Goto
<1>20. ASSUME Expire  PROVE  Shaped(q)
  BY <1>20, Apart, NoDoor DEF Expire, Resume, Dial, Locked, Dialed, Goto, Note
<1>21. ASSUME ExpireRemoved  PROVE  Shaped(q)
  BY <1>21, Apart, NoDoor DEF ExpireRemoved
<1>22. ASSUME BringUp  PROVE  Shaped(q)
  BY <1>22, Apart, NoDoor DEF BringUp, Dial, Locked, Dialed, Goto, Note
<1>23. ASSUME Retry, \A s \in Request : ~Entering(s)  PROVE  Shaped(q)
  BY <1>23, Apart, NoDoor DEF Retry, Dial, Locked, Dialed, Goto, Superseded
<1>24. ASSUME Kick  PROVE  Shaped(q)
  BY <1>24, Apart, NoDoor DEF Kick, Released, LoopReads, Goto, Stale,
     Superseded
<1>25. ASSUME NEW d \in Instance, Drop(d)  PROVE  Shaped(q)
  BY <1>25, Apart, NoDoor DEF Drop
<1>26. ASSUME NEW d \in Instance, NEW b \in BOOLEAN, DropTold(d, b)
      PROVE  Shaped(q)
  BY <1>26, Apart, NoDoor DEF DropTold, LoopReads, Retrying, Note
<1>27. ASSUME UNCHANGED vars  PROVE  Shaped(q)
  BY <1>27, Apart, NoDoor DEF vars, links, flags, coros, count
<1> HIDE DEF TypeOK, Goto, links, flags, coros, count, Shaped, GoesOn, Role
<1> QED
  BY <1>1, <1>2, <1>3, <1>4, <1>5, <1>6, <1>7, <1>8, <1>9, <1>10, <1>11, <1>12,
     <1>13, <1>14, <1>15, <1>16, <1>17, <1>18, <1>19, <1>20, <1>21, <1>22,
     <1>23, <1>24, <1>25, <1>26, <1>27 DEF Next, Entering, Head, ConnectStep,
     CloseStep

(* A step opens one door. *)
LEMMA OnlyOneOpens ==
  ASSUME TypeOK, NEW q \in Coroutine, NEW y \in Coroutine, Role(q),
         pc[q] = "idle", pc'[q] \in {"entering", "cancelling"}, q # y,
         [Next]_vars
  PROVE  GoesOn(y)
<1> USE DEF TypeOK, Goto, links, flags, coros, count, GoesOn, Role
<1>1. ASSUME NEW r \in Request, NEW o \in Door, Press(r, o),
             \A s \in Request : ~Entering(s)
      PROVE  GoesOn(y)
  BY <1>1, Apart, NoDoor DEF Press, Released, Stale, Note
<1>2. ASSUME NEW r \in Request, Reconnect(r)  PROVE  GoesOn(y)
  BY <1>2, Apart, NoDoor DEF Reconnect, Past, Closing, Goto
<1>3. ASSUME NEW r \in Request, Pause(r)  PROVE  GoesOn(y)
  BY <1>3, Apart, NoDoor DEF Pause, Past, Closing, Goto, Note
<1>4. ASSUME NEW r \in Request, BeginSetup(r)  PROVE  GoesOn(y)
  BY <1>4, Apart, NoDoor DEF BeginSetup, Past, Goto
<1>5. ASSUME NEW r \in Request, Remove(r)  PROVE  GoesOn(y)
  BY <1>5, Apart, NoDoor DEF Remove, Past, Closing, Goto
<1>6. ASSUME NEW r \in Request, PressResume(r)  PROVE  GoesOn(y)
  BY <1>6, Apart, NoDoor DEF PressResume, Resume, Dial, Locked, Dialed, Goto,
     Note
<1>7. ASSUME NEW r \in Request, EndSetup(r)  PROVE  GoesOn(y)
  BY <1>7, Apart, NoDoor DEF EndSetup, Done, Discards, LoopReads, Goto,
     Retrying
<1>8. ASSUME NEW r \in Request, SetupRedials(r)  PROVE  GoesOn(y)
  BY <1>8, Apart, NoDoor DEF SetupRedials, Closing, Goto
<1>9. ASSUME NEW p \in Coroutine, Enter(p)  PROVE  GoesOn(y)
  BY <1>9, Apart, NoDoor DEF Enter, Current, Locked, Goto
<1>10. ASSUME NEW p \in Coroutine, Declare(p)  PROVE  GoesOn(y)
  BY <1>10, Apart, NoDoor DEF Declare, Current, Goto
<1>11. ASSUME NEW p \in Coroutine, Connected(p)  PROVE  GoesOn(y)
  BY <1>11, Apart, NoDoor DEF Connected, Current, Stale, Superseded, DownAgain,
     Released, LoopReads, Again, Goto
<1>12. ASSUME NEW p \in Coroutine, Settled(p)  PROVE  GoesOn(y)
  BY <1>12, Apart, NoDoor DEF Settled, DownAgain, Done, Discards, LoopReads,
     Again, Goto, Retrying
<1>13. ASSUME NEW p \in Coroutine, Unwind(p)  PROVE  GoesOn(y)
  BY <1>13, Apart, NoDoor DEF Unwind, Ended, Current, Stale, Superseded,
     Released, Done, Discards, LoopReads, Goto, Retrying
<1>14. ASSUME NEW p \in Coroutine, NEW b \in BOOLEAN, ConnectFails(p, b)
      PROVE  GoesOn(y)
  BY <1>14, Apart, NoDoor DEF ConnectFails, Current, Stale, Superseded,
     Released, Done, Discards, LoopReads, Again, Goto, Retrying
<1>15. ASSUME NEW p \in Coroutine, Redial(p)  PROVE  GoesOn(y)
  BY <1>15, Apart, NoDoor DEF Redial, Superseded, Shut, Closed, Dialed,
     Informed, Retrying, LoopReads, Goto, Note
<1>16. ASSUME NEW p \in Coroutine, PauseHolds(p)  PROVE  GoesOn(y)
  BY <1>16, Apart, NoDoor DEF PauseHolds, Superseded, Shut, Closed, Informed,
     Retrying, LoopReads, Goto, Note
<1>17. ASSUME NEW p \in Coroutine, Removed(p)  PROVE  GoesOn(y)
  BY <1>17, Apart, NoDoor DEF Removed, Shut, Closed, Goto
<1>18. ASSUME NEW p \in Coroutine, Readded(p)  PROVE  GoesOn(y)
  BY <1>18, Apart, NoDoor DEF Readded, Shut, Closed, CarriedArmed, Goto
<1>19. ASSUME NEW p \in Coroutine, Discarded(p)  PROVE  GoesOn(y)
  BY <1>19, Apart, NoDoor DEF Discarded, Shut, Informed, Retrying, LoopReads,
     LiveKey, Goto
<1>20. ASSUME Expire  PROVE  GoesOn(y)
  BY <1>20, Apart, NoDoor DEF Expire, Resume, Dial, Locked, Dialed, Goto, Note
<1>21. ASSUME ExpireRemoved  PROVE  GoesOn(y)
  BY <1>21, Apart, NoDoor DEF ExpireRemoved
<1>22. ASSUME BringUp  PROVE  GoesOn(y)
  BY <1>22, Apart, NoDoor DEF BringUp, Dial, Locked, Dialed, Goto, Note
<1>23. ASSUME Retry, \A s \in Request : ~Entering(s)  PROVE  GoesOn(y)
  BY <1>23, Apart, NoDoor DEF Retry, Dial, Locked, Dialed, Goto, Superseded
<1>24. ASSUME Kick  PROVE  GoesOn(y)
  BY <1>24, Apart, NoDoor DEF Kick, Released, LoopReads, Goto, Stale,
     Superseded
<1>25. ASSUME NEW d \in Instance, Drop(d)  PROVE  GoesOn(y)
  BY <1>25, Apart, NoDoor DEF Drop
<1>26. ASSUME NEW d \in Instance, NEW b \in BOOLEAN, DropTold(d, b)
      PROVE  GoesOn(y)
  BY <1>26, Apart, NoDoor DEF DropTold, LoopReads, Retrying, Note
<1>27. ASSUME UNCHANGED vars  PROVE  GoesOn(y)
  BY <1>27, Apart, NoDoor DEF vars, links, flags, coros, count
<1> HIDE DEF TypeOK, Goto, links, flags, coros, count, GoesOn, Role
<1> QED
  BY <1>1, <1>2, <1>3, <1>4, <1>5, <1>6, <1>7, <1>8, <1>9, <1>10, <1>11, <1>12,
     <1>13, <1>14, <1>15, <1>16, <1>17, <1>18, <1>19, <1>20, <1>21, <1>22,
     <1>23, <1>24, <1>25, <1>26, <1>27 DEF Next, Entering, Head, ConnectStep,
     CloseStep

-----------------------------------------------------------------------------
(* PausedStaysDown.  While no request crosses a pause: a pause is alone    *)
(* with what could end it, and holds the device from its disconnect on; a  *)
(* carried pause is handed over with nothing under way that could end it.  *)

Held == mark /\ attempt[inst] = None /\ pc["loop"] = "idle"

Pausing(p)  == op[p] = "pause" /\ pc[p] # "idle"
Carrying(p) == op[p] = "carry" /\ pc[p] # "idle"

Lone(q) == op[q] \in {"reconnect", "setup"} => pc[q] = "idle"

PauseAlone(p, q) ==
    Pausing(p) /\ op[q] \in {"reconnect", "setup", "update", "carry"}
        => pc[q] = "idle"
PausePlace(p) ==
    Pausing(p) =>
        /\ ~deferred /\ pc[p] \in {"entering", "cancelling", "closing"}
        /\ inst # None => drv[p] = inst /\ (pc[p] = "closing" => Held)
CarryAlone(p, q) ==
    Carrying(p) /\ op[q] \in {"reconnect", "setup"} => pc[q] = "idle"
CarryPlace(p) ==
    Carrying(p) =>
        /\ pc["loop"] = "idle" /\ pc[p] \in {"entering", "closing"}
        /\ pc[p] = "entering" => paused
Disarmed(p) ==
    op[p] \in {"update", "carry"} /\ pc[p] = "closing" => ~armed
Kept       == paused /\ inst # None => Held /\ ~conn[inst] /\ ~deferred
OnlyPaused == armed /\ inst # None => paused

PauseInv == Calm =>
    /\ \A p, q \in Coroutine : PauseAlone(p, q) /\ CarryAlone(p, q)
    /\ \A p \in Coroutine : PausePlace(p) /\ CarryPlace(p) /\ Disarmed(p)
    /\ paused /\ inst # None => \A q \in Coroutine : Lone(q)
    /\ Kept /\ OnlyPaused

(* How a pause ends, and what a step leaves of a device that is held.      *)
NoDial(p) == Connects(p) => attempt[drv[p]] # p
Lifted    == ~paused' /\ (Busy("pause") => ~Calm')
Remains   == inst' = inst /\ Held' /\ ~deferred' /\ (conn'[inst] => conn[inst])

LEMMA NobodyDials ==
  ASSUME TypeOK, Attempts, Roles, inst # None, Held,
         \A q \in Coroutine : Lone(q)
  PROVE  \A p \in Coroutine : NoDial(p)
<1> SUFFICES ASSUME NEW p \in Coroutine, pc[p] \in {"queued", "dialing",
                    "tail"}, attempt[drv[p]] = p
             PROVE  FALSE
  BY DEF NoDial, Connects
<1>1. drv[p] \in Instance /\ p # None
  BY Apart DEF TypeOK
<1>2. Attempted(drv[p])
  BY <1>1 DEF Attempts
<1>3. Lone(p)
  OBVIOUS
<1> QED  BY <1>1, <1>2, <1>3 DEF Attempted, Lone, Held

(* A pause begins with PauseHolds or is carried by Readded. *)
LEMMA PausedBefore ==
  ASSUME TypeOK, [Next]_vars
  PROVE  \/ paused' /\ inst' # None => paused /\ inst' = inst
         \/ \E q \in Coroutine : PauseHolds(q) \/ Readded(q)
<1> USE DEF TypeOK, Goto, links, flags, coros, count
<1>1. ASSUME NEW r \in Request, NEW o \in Door, Press(r, o),
             \A s \in Request : ~Entering(s)
      PROVE  \/ paused' /\ inst' # None => paused /\ inst' = inst
             \/ \E q \in Coroutine : PauseHolds(q) \/ Readded(q)
  BY <1>1, Apart DEF Press, Released, Stale, Note
<1>2. ASSUME NEW r \in Request, Reconnect(r)
      PROVE  \/ paused' /\ inst' # None => paused /\ inst' = inst
             \/ \E q \in Coroutine : PauseHolds(q) \/ Readded(q)
  BY <1>2, Apart DEF Reconnect, Past, Closing, Goto
<1>3. ASSUME NEW r \in Request, Pause(r)
      PROVE  \/ paused' /\ inst' # None => paused /\ inst' = inst
             \/ \E q \in Coroutine : PauseHolds(q) \/ Readded(q)
  BY <1>3, Apart DEF Pause, Past, Closing, Goto, Note
<1>4. ASSUME NEW r \in Request, BeginSetup(r)
      PROVE  \/ paused' /\ inst' # None => paused /\ inst' = inst
             \/ \E q \in Coroutine : PauseHolds(q) \/ Readded(q)
  BY <1>4, Apart DEF BeginSetup, Past, Goto
<1>5. ASSUME NEW r \in Request, Remove(r)
      PROVE  \/ paused' /\ inst' # None => paused /\ inst' = inst
             \/ \E q \in Coroutine : PauseHolds(q) \/ Readded(q)
  BY <1>5, Apart DEF Remove, Past, Closing, Goto
<1>6. ASSUME NEW r \in Request, PressResume(r)
      PROVE  \/ paused' /\ inst' # None => paused /\ inst' = inst
             \/ \E q \in Coroutine : PauseHolds(q) \/ Readded(q)
  BY <1>6, Apart DEF PressResume, Resume, Dial, Locked, Dialed, Goto, Note
<1>7. ASSUME NEW r \in Request, EndSetup(r)
      PROVE  \/ paused' /\ inst' # None => paused /\ inst' = inst
             \/ \E q \in Coroutine : PauseHolds(q) \/ Readded(q)
  BY <1>7, Apart DEF EndSetup, Done, Discards, LoopReads, Goto, Retrying
<1>8. ASSUME NEW r \in Request, SetupRedials(r)
      PROVE  \/ paused' /\ inst' # None => paused /\ inst' = inst
             \/ \E q \in Coroutine : PauseHolds(q) \/ Readded(q)
  BY <1>8, Apart DEF SetupRedials, Closing, Goto
<1>9. ASSUME NEW p \in Coroutine, Enter(p)
      PROVE  \/ paused' /\ inst' # None => paused /\ inst' = inst
             \/ \E q \in Coroutine : PauseHolds(q) \/ Readded(q)
  BY <1>9, Apart DEF Enter, Current, Locked, Goto
<1>10. ASSUME NEW p \in Coroutine, Declare(p)
      PROVE  \/ paused' /\ inst' # None => paused /\ inst' = inst
             \/ \E q \in Coroutine : PauseHolds(q) \/ Readded(q)
  BY <1>10, Apart DEF Declare, Current, Goto
<1>11. ASSUME NEW p \in Coroutine, Connected(p)
      PROVE  \/ paused' /\ inst' # None => paused /\ inst' = inst
             \/ \E q \in Coroutine : PauseHolds(q) \/ Readded(q)
  BY <1>11, Apart DEF Connected, Current, Stale, Superseded, DownAgain,
     Released, LoopReads, Again, Goto
<1>12. ASSUME NEW p \in Coroutine, Settled(p)
      PROVE  \/ paused' /\ inst' # None => paused /\ inst' = inst
             \/ \E q \in Coroutine : PauseHolds(q) \/ Readded(q)
  BY <1>12, Apart DEF Settled, DownAgain, Done, Discards, LoopReads, Again,
     Goto, Retrying
<1>13. ASSUME NEW p \in Coroutine, Unwind(p)
      PROVE  \/ paused' /\ inst' # None => paused /\ inst' = inst
             \/ \E q \in Coroutine : PauseHolds(q) \/ Readded(q)
  BY <1>13, Apart DEF Unwind, Ended, Current, Stale, Superseded, Released,
     Done, Discards, LoopReads, Goto, Retrying
<1>14. ASSUME NEW p \in Coroutine, NEW b \in BOOLEAN, ConnectFails(p, b)
      PROVE  \/ paused' /\ inst' # None => paused /\ inst' = inst
             \/ \E q \in Coroutine : PauseHolds(q) \/ Readded(q)
  BY <1>14, Apart DEF ConnectFails, Current, Stale, Superseded, Released, Done,
     Discards, LoopReads, Again, Goto, Retrying
<1>15. ASSUME NEW p \in Coroutine, Redial(p)
      PROVE  \/ paused' /\ inst' # None => paused /\ inst' = inst
             \/ \E q \in Coroutine : PauseHolds(q) \/ Readded(q)
  BY <1>15, Apart DEF Redial, Superseded, Shut, Closed, Dialed, Informed,
     Retrying, LoopReads, Goto, Note
<1>16. ASSUME NEW p \in Coroutine, PauseHolds(p)
      PROVE  \/ paused' /\ inst' # None => paused /\ inst' = inst
             \/ \E q \in Coroutine : PauseHolds(q) \/ Readded(q)
  BY <1>16
<1>17. ASSUME NEW p \in Coroutine, Removed(p)
      PROVE  \/ paused' /\ inst' # None => paused /\ inst' = inst
             \/ \E q \in Coroutine : PauseHolds(q) \/ Readded(q)
  BY <1>17, Apart DEF Removed, Shut, Closed, Goto
<1>18. ASSUME NEW p \in Coroutine, Readded(p)
      PROVE  \/ paused' /\ inst' # None => paused /\ inst' = inst
             \/ \E q \in Coroutine : PauseHolds(q) \/ Readded(q)
  BY <1>18
<1>19. ASSUME NEW p \in Coroutine, Discarded(p)
      PROVE  \/ paused' /\ inst' # None => paused /\ inst' = inst
             \/ \E q \in Coroutine : PauseHolds(q) \/ Readded(q)
  BY <1>19, Apart DEF Discarded, Shut, Informed, Retrying, LoopReads, LiveKey,
     Goto
<1>20. ASSUME Expire
      PROVE  \/ paused' /\ inst' # None => paused /\ inst' = inst
             \/ \E q \in Coroutine : PauseHolds(q) \/ Readded(q)
  BY <1>20, Apart DEF Expire, Resume, Dial, Locked, Dialed, Goto, Note
<1>21. ASSUME ExpireRemoved
      PROVE  \/ paused' /\ inst' # None => paused /\ inst' = inst
             \/ \E q \in Coroutine : PauseHolds(q) \/ Readded(q)
  BY <1>21, Apart DEF ExpireRemoved
<1>22. ASSUME BringUp
      PROVE  \/ paused' /\ inst' # None => paused /\ inst' = inst
             \/ \E q \in Coroutine : PauseHolds(q) \/ Readded(q)
  BY <1>22, Apart DEF BringUp, Dial, Locked, Dialed, Goto, Note
<1>23. ASSUME Retry, \A s \in Request : ~Entering(s)
      PROVE  \/ paused' /\ inst' # None => paused /\ inst' = inst
             \/ \E q \in Coroutine : PauseHolds(q) \/ Readded(q)
  BY <1>23, Apart DEF Retry, Dial, Locked, Dialed, Goto, Superseded
<1>24. ASSUME Kick  PROVE  \/ paused' /\ inst' # None => paused /\ inst' = inst
                           \/ \E q \in Coroutine : PauseHolds(q) \/ Readded(q)
  BY <1>24, Apart DEF Kick, Released, LoopReads, Goto, Stale, Superseded
<1>25. ASSUME NEW d \in Instance, Drop(d)
      PROVE  \/ paused' /\ inst' # None => paused /\ inst' = inst
             \/ \E q \in Coroutine : PauseHolds(q) \/ Readded(q)
  BY <1>25, Apart DEF Drop
<1>26. ASSUME NEW d \in Instance, NEW b \in BOOLEAN, DropTold(d, b)
      PROVE  \/ paused' /\ inst' # None => paused /\ inst' = inst
             \/ \E q \in Coroutine : PauseHolds(q) \/ Readded(q)
  BY <1>26, Apart DEF DropTold, LoopReads, Retrying, Note
<1>27. ASSUME UNCHANGED vars
      PROVE  \/ paused' /\ inst' # None => paused /\ inst' = inst
             \/ \E q \in Coroutine : PauseHolds(q) \/ Readded(q)
  BY <1>27, Apart DEF vars, links, flags, coros, count
<1> HIDE DEF TypeOK, Goto, links, flags, coros, count
<1> QED
  BY <1>1, <1>2, <1>3, <1>4, <1>5, <1>6, <1>7, <1>8, <1>9, <1>10, <1>11, <1>12,
     <1>13, <1>14, <1>15, <1>16, <1>17, <1>18, <1>19, <1>20, <1>21, <1>22,
     <1>23, <1>24, <1>25, <1>26, <1>27 DEF Next, Entering, Head, ConnectStep,
     CloseStep

LEMMA ArmedBefore ==
  ASSUME TypeOK, [Next]_vars
  PROVE  \/ armed' => armed
         \/ \E q \in Coroutine : PauseHolds(q) \/ Readded(q)
<1> USE DEF TypeOK, Goto, links, flags, coros, count
<1>1. ASSUME NEW r \in Request, NEW o \in Door, Press(r, o),
             \A s \in Request : ~Entering(s)
      PROVE  \/ armed' => armed
             \/ \E q \in Coroutine : PauseHolds(q) \/ Readded(q)
  BY <1>1, Apart DEF Press, Released, Stale, Note
<1>2. ASSUME NEW r \in Request, Reconnect(r)
      PROVE  \/ armed' => armed
             \/ \E q \in Coroutine : PauseHolds(q) \/ Readded(q)
  BY <1>2, Apart DEF Reconnect, Past, Closing, Goto
<1>3. ASSUME NEW r \in Request, Pause(r)
      PROVE  \/ armed' => armed
             \/ \E q \in Coroutine : PauseHolds(q) \/ Readded(q)
  BY <1>3, Apart DEF Pause, Past, Closing, Goto, Note
<1>4. ASSUME NEW r \in Request, BeginSetup(r)
      PROVE  \/ armed' => armed
             \/ \E q \in Coroutine : PauseHolds(q) \/ Readded(q)
  BY <1>4, Apart DEF BeginSetup, Past, Goto
<1>5. ASSUME NEW r \in Request, Remove(r)
      PROVE  \/ armed' => armed
             \/ \E q \in Coroutine : PauseHolds(q) \/ Readded(q)
  BY <1>5, Apart DEF Remove, Past, Closing, Goto
<1>6. ASSUME NEW r \in Request, PressResume(r)
      PROVE  \/ armed' => armed
             \/ \E q \in Coroutine : PauseHolds(q) \/ Readded(q)
  BY <1>6, Apart DEF PressResume, Resume, Dial, Locked, Dialed, Goto, Note
<1>7. ASSUME NEW r \in Request, EndSetup(r)
      PROVE  \/ armed' => armed
             \/ \E q \in Coroutine : PauseHolds(q) \/ Readded(q)
  BY <1>7, Apart DEF EndSetup, Done, Discards, LoopReads, Goto, Retrying
<1>8. ASSUME NEW r \in Request, SetupRedials(r)
      PROVE  \/ armed' => armed
             \/ \E q \in Coroutine : PauseHolds(q) \/ Readded(q)
  BY <1>8, Apart DEF SetupRedials, Closing, Goto
<1>9. ASSUME NEW p \in Coroutine, Enter(p)
      PROVE  \/ armed' => armed
             \/ \E q \in Coroutine : PauseHolds(q) \/ Readded(q)
  BY <1>9, Apart DEF Enter, Current, Locked, Goto
<1>10. ASSUME NEW p \in Coroutine, Declare(p)
      PROVE  \/ armed' => armed
             \/ \E q \in Coroutine : PauseHolds(q) \/ Readded(q)
  BY <1>10, Apart DEF Declare, Current, Goto
<1>11. ASSUME NEW p \in Coroutine, Connected(p)
      PROVE  \/ armed' => armed
             \/ \E q \in Coroutine : PauseHolds(q) \/ Readded(q)
  BY <1>11, Apart DEF Connected, Current, Stale, Superseded, DownAgain,
     Released, LoopReads, Again, Goto
<1>12. ASSUME NEW p \in Coroutine, Settled(p)
      PROVE  \/ armed' => armed
             \/ \E q \in Coroutine : PauseHolds(q) \/ Readded(q)
  BY <1>12, Apart DEF Settled, DownAgain, Done, Discards, LoopReads, Again,
     Goto, Retrying
<1>13. ASSUME NEW p \in Coroutine, Unwind(p)
      PROVE  \/ armed' => armed
             \/ \E q \in Coroutine : PauseHolds(q) \/ Readded(q)
  BY <1>13, Apart DEF Unwind, Ended, Current, Stale, Superseded, Released,
     Done, Discards, LoopReads, Goto, Retrying
<1>14. ASSUME NEW p \in Coroutine, NEW b \in BOOLEAN, ConnectFails(p, b)
      PROVE  \/ armed' => armed
             \/ \E q \in Coroutine : PauseHolds(q) \/ Readded(q)
  BY <1>14, Apart DEF ConnectFails, Current, Stale, Superseded, Released, Done,
     Discards, LoopReads, Again, Goto, Retrying
<1>15. ASSUME NEW p \in Coroutine, Redial(p)
      PROVE  \/ armed' => armed
             \/ \E q \in Coroutine : PauseHolds(q) \/ Readded(q)
  BY <1>15, Apart DEF Redial, Superseded, Shut, Closed, Dialed, Informed,
     Retrying, LoopReads, Goto, Note
<1>16. ASSUME NEW p \in Coroutine, PauseHolds(p)
      PROVE  \/ armed' => armed
             \/ \E q \in Coroutine : PauseHolds(q) \/ Readded(q)
  BY <1>16
<1>17. ASSUME NEW p \in Coroutine, Removed(p)
      PROVE  \/ armed' => armed
             \/ \E q \in Coroutine : PauseHolds(q) \/ Readded(q)
  BY <1>17, Apart DEF Removed, Shut, Closed, Goto
<1>18. ASSUME NEW p \in Coroutine, Readded(p)
      PROVE  \/ armed' => armed
             \/ \E q \in Coroutine : PauseHolds(q) \/ Readded(q)
  BY <1>18
<1>19. ASSUME NEW p \in Coroutine, Discarded(p)
      PROVE  \/ armed' => armed
             \/ \E q \in Coroutine : PauseHolds(q) \/ Readded(q)
  BY <1>19, Apart DEF Discarded, Shut, Informed, Retrying, LoopReads, LiveKey,
     Goto
<1>20. ASSUME Expire
      PROVE  \/ armed' => armed
             \/ \E q \in Coroutine : PauseHolds(q) \/ Readded(q)
  BY <1>20, Apart DEF Expire, Resume, Dial, Locked, Dialed, Goto, Note
<1>21. ASSUME ExpireRemoved
      PROVE  \/ armed' => armed
             \/ \E q \in Coroutine : PauseHolds(q) \/ Readded(q)
  BY <1>21, Apart DEF ExpireRemoved
<1>22. ASSUME BringUp
      PROVE  \/ armed' => armed
             \/ \E q \in Coroutine : PauseHolds(q) \/ Readded(q)
  BY <1>22, Apart DEF BringUp, Dial, Locked, Dialed, Goto, Note
<1>23. ASSUME Retry, \A s \in Request : ~Entering(s)
      PROVE  \/ armed' => armed
             \/ \E q \in Coroutine : PauseHolds(q) \/ Readded(q)
  BY <1>23, Apart DEF Retry, Dial, Locked, Dialed, Goto, Superseded
<1>24. ASSUME Kick
      PROVE  \/ armed' => armed
             \/ \E q \in Coroutine : PauseHolds(q) \/ Readded(q)
  BY <1>24, Apart DEF Kick, Released, LoopReads, Goto, Stale, Superseded
<1>25. ASSUME NEW d \in Instance, Drop(d)
      PROVE  \/ armed' => armed
             \/ \E q \in Coroutine : PauseHolds(q) \/ Readded(q)
  BY <1>25, Apart DEF Drop
<1>26. ASSUME NEW d \in Instance, NEW b \in BOOLEAN, DropTold(d, b)
      PROVE  \/ armed' => armed
             \/ \E q \in Coroutine : PauseHolds(q) \/ Readded(q)
  BY <1>26, Apart DEF DropTold, LoopReads, Retrying, Note
<1>27. ASSUME UNCHANGED vars
      PROVE  \/ armed' => armed
             \/ \E q \in Coroutine : PauseHolds(q) \/ Readded(q)
  BY <1>27, Apart DEF vars, links, flags, coros, count
<1> HIDE DEF TypeOK, Goto, links, flags, coros, count
<1> QED
  BY <1>1, <1>2, <1>3, <1>4, <1>5, <1>6, <1>7, <1>8, <1>9, <1>10, <1>11, <1>12,
     <1>13, <1>14, <1>15, <1>16, <1>17, <1>18, <1>19, <1>20, <1>21, <1>22,
     <1>23, <1>24, <1>25, <1>26, <1>27 DEF Next, Entering, Head, ConnectStep,
     CloseStep

LEMMA HeldRemains ==
  ASSUME TypeOK, Removals, Roles, inst # None, Held, ~deferred,
         \A q \in Coroutine : Lone(q), \A q \in Coroutine : NoDial(q),
         [Next]_vars
  PROVE  inst' = None \/ Lifted \/ Remains
<1> USE DEF TypeOK, Goto, links, flags, coros, count, Lifted, Remains, Held,
     Calm, Connects
<1>1. ASSUME NEW r \in Request, NEW o \in Door, Press(r, o),
             \A s \in Request : ~Entering(s)
      PROVE  inst' = None \/ Lifted \/ Remains
  <2>1. Role(r) /\ Lone(r) /\ NoDial(r)
    BY Apart DEF Roles
  <2> QED
    BY <1>1, <2>1, Apart DEF Press, Released, Stale, Note, Role, Lone, NoDial
<1>2. ASSUME NEW r \in Request, Reconnect(r)
      PROVE  inst' = None \/ Lifted \/ Remains
  <2>1. Role(r) /\ Lone(r) /\ NoDial(r)
    BY Apart DEF Roles
  <2> QED
    BY <1>2, <2>1, Apart DEF Reconnect, Past, Closing, Goto, Role, Lone, NoDial
<1>3. ASSUME NEW r \in Request, Pause(r)
      PROVE  inst' = None \/ Lifted \/ Remains
  <2>1. Role(r) /\ Lone(r) /\ NoDial(r)
    BY Apart DEF Roles
  <2> QED
    BY <1>3, <2>1, Apart DEF Pause, Past, Closing, Goto, Note, Role, Lone,
       NoDial
<1>4. ASSUME NEW r \in Request, BeginSetup(r)
      PROVE  inst' = None \/ Lifted \/ Remains
  <2>1. Role(r) /\ Lone(r) /\ NoDial(r)
    BY Apart DEF Roles
  <2> QED
    BY <1>4, <2>1, Apart DEF BeginSetup, Past, Goto, Role, Lone, NoDial
<1>5. ASSUME NEW r \in Request, Remove(r)
      PROVE  inst' = None \/ Lifted \/ Remains
  <2>1. Role(r) /\ Lone(r) /\ NoDial(r)
    BY Apart DEF Roles
  <2> QED
    BY <1>5, <2>1, Apart DEF Remove, Past, Closing, Goto, Role, Lone, NoDial
<1>6. ASSUME NEW r \in Request, PressResume(r)
      PROVE  inst' = None \/ Lifted \/ Remains
  <2>1. Role(r) /\ Lone(r) /\ NoDial(r)
    BY Apart DEF Roles
  <2> QED
    BY <1>6, <2>1, Apart DEF PressResume, Resume, Dial, Locked, Dialed, Goto,
       Note, Crosses
<1>7. ASSUME NEW r \in Request, EndSetup(r)
      PROVE  inst' = None \/ Lifted \/ Remains
  <2>1. Role(r) /\ Lone(r) /\ NoDial(r)
    BY Apart DEF Roles
  <2> QED
    BY <1>7, <2>1, Apart DEF EndSetup, Done, Discards, LoopReads, Goto,
       Retrying, Role, Lone, NoDial
<1>8. ASSUME NEW r \in Request, SetupRedials(r)
      PROVE  inst' = None \/ Lifted \/ Remains
  <2>1. Role(r) /\ Lone(r) /\ NoDial(r)
    BY Apart DEF Roles
  <2> QED
    BY <1>8, <2>1, Apart DEF SetupRedials, Closing, Goto, Role, Lone, NoDial
<1>9. ASSUME NEW p \in Coroutine, Enter(p)
      PROVE  inst' = None \/ Lifted \/ Remains
  <2>1. Role(p) /\ Lone(p) /\ NoDial(p)
    BY Apart DEF Roles
  <2> QED
    BY <1>9, <2>1, Apart DEF Enter, Current, Locked, Goto, Role, Lone, NoDial
<1>10. ASSUME NEW p \in Coroutine, Declare(p)
      PROVE  inst' = None \/ Lifted \/ Remains
  <2>1. Role(p) /\ Lone(p) /\ NoDial(p)
    BY Apart DEF Roles
  <2> QED
    BY <1>10, <2>1, Apart DEF Declare, Current, Goto, Role, Lone, NoDial
<1>11. ASSUME NEW p \in Coroutine, Connected(p)
      PROVE  inst' = None \/ Lifted \/ Remains
  <2>1. Role(p) /\ Lone(p) /\ NoDial(p)
    BY Apart DEF Roles
  <2> QED
    BY <1>11, <2>1, Apart DEF Connected, Current, Stale, Superseded, DownAgain,
       Released, LoopReads, Again, Goto, Role, Lone, NoDial
<1>12. ASSUME NEW p \in Coroutine, Settled(p)
      PROVE  inst' = None \/ Lifted \/ Remains
  <2>1. Role(p) /\ Lone(p) /\ NoDial(p)
    BY Apart DEF Roles
  <2> QED
    BY <1>12, <2>1, Apart DEF Settled, DownAgain, Done, Discards, LoopReads,
       Again, Goto, Retrying, Role, Lone, NoDial
<1>13. ASSUME NEW p \in Coroutine, Unwind(p)
      PROVE  inst' = None \/ Lifted \/ Remains
  <2>1. Role(p) /\ Lone(p) /\ NoDial(p)
    BY Apart DEF Roles
  <2> QED
    BY <1>13, <2>1, Apart DEF Unwind, Ended, Current, Stale, Superseded,
       Released, Done, Discards, LoopReads, Goto, Retrying, Role, Lone, NoDial
<1>14. ASSUME NEW p \in Coroutine, NEW b \in BOOLEAN, ConnectFails(p, b)
      PROVE  inst' = None \/ Lifted \/ Remains
  <2>1. Role(p) /\ Lone(p) /\ NoDial(p)
    BY Apart DEF Roles
  <2> QED
    BY <1>14, <2>1, Apart DEF ConnectFails, Current, Stale, Superseded,
       Released, Done, Discards, LoopReads, Again, Goto, Retrying, Role, Lone,
       NoDial
<1>15. ASSUME NEW p \in Coroutine, Redial(p)
      PROVE  inst' = None \/ Lifted \/ Remains
  <2>1. Role(p) /\ Lone(p) /\ NoDial(p)
    BY Apart DEF Roles
  <2> QED
    BY <1>15, <2>1, Apart DEF Redial, Superseded, Shut, Closed, Dialed,
       Informed, Retrying, LoopReads, Goto, Note, Role, Lone, NoDial
<1>16. ASSUME NEW p \in Coroutine, PauseHolds(p)
      PROVE  inst' = None \/ Lifted \/ Remains
  <2>1. Role(p) /\ Lone(p) /\ NoDial(p)
    BY Apart DEF Roles
  <2> QED
    BY <1>16, <2>1, Apart DEF PauseHolds, Superseded, Shut, Closed, Informed,
       Retrying, LoopReads, Goto, Note, Role, Lone, NoDial
<1>17. ASSUME NEW p \in Coroutine, Removed(p)
      PROVE  inst' = None \/ Lifted \/ Remains
  <2>1. Role(p) /\ Lone(p) /\ NoDial(p)
    BY Apart DEF Roles
  <2> QED
    BY <1>17, <2>1, Apart DEF Removed, Shut, Closed, Goto, Role, Lone, NoDial
<1>18. ASSUME NEW p \in Coroutine, Readded(p)
      PROVE  inst' = None \/ Lifted \/ Remains
  <2>1. Role(p) /\ Lone(p) /\ NoDial(p)
    BY Apart DEF Roles
  <2> QED
    BY <1>18, <2>1, Apart DEF Readded, Shut, Closed, CarriedArmed, Goto,
       Removals, Removing, Removal
<1>19. ASSUME NEW p \in Coroutine, Discarded(p)
      PROVE  inst' = None \/ Lifted \/ Remains
  <2>1. Role(p) /\ Lone(p) /\ NoDial(p)
    BY Apart DEF Roles
  <2> QED
    BY <1>19, <2>1, Apart DEF Discarded, Shut, Informed, Retrying, LoopReads,
       LiveKey, Goto, Role, Lone, NoDial
<1>20. ASSUME Expire  PROVE  inst' = None \/ Lifted \/ Remains
  BY <1>20, Apart DEF Expire, Resume, Dial, Locked, Dialed, Goto, Note, Crosses
<1>21. ASSUME ExpireRemoved  PROVE  inst' = None \/ Lifted \/ Remains
  BY <1>21, Apart DEF ExpireRemoved, Role, Lone, NoDial
<1>22. ASSUME BringUp  PROVE  inst' = None \/ Lifted \/ Remains
  BY <1>22, Apart DEF BringUp, Dial, Locked, Dialed, Goto, Note, Role, Lone,
     NoDial
<1>23. ASSUME Retry, \A s \in Request : ~Entering(s)
      PROVE  inst' = None \/ Lifted \/ Remains
  BY <1>23, Apart DEF Retry, Dial, Locked, Dialed, Goto, Superseded, Role,
     Lone, NoDial
<1>24. ASSUME Kick  PROVE  inst' = None \/ Lifted \/ Remains
  BY <1>24, Apart DEF Kick, Released, LoopReads, Goto, Stale, Superseded, Role,
     Lone, NoDial
<1>25. ASSUME NEW d \in Instance, Drop(d)
      PROVE  inst' = None \/ Lifted \/ Remains
  BY <1>25, Apart DEF Drop, Role, Lone, NoDial
<1>26. ASSUME NEW d \in Instance, NEW b \in BOOLEAN, DropTold(d, b)
      PROVE  inst' = None \/ Lifted \/ Remains
  BY <1>26, Apart DEF DropTold, LoopReads, Retrying, Note, Role, Lone, NoDial
<1>27. ASSUME UNCHANGED vars  PROVE  inst' = None \/ Lifted \/ Remains
  BY <1>27, Apart DEF vars, links, flags, coros, count, Role, Lone, NoDial
<1> HIDE DEF TypeOK, Goto, links, flags, coros, count, Lifted, Remains, Held,
     Calm, Connects
<1> QED
  BY <1>1, <1>2, <1>3, <1>4, <1>5, <1>6, <1>7, <1>8, <1>9, <1>10, <1>11, <1>12,
     <1>13, <1>14, <1>15, <1>16, <1>17, <1>18, <1>19, <1>20, <1>21, <1>22,
     <1>23, <1>24, <1>25, <1>26, <1>27 DEF Next, Entering, Head, ConnectStep,
     CloseStep

LEMMA ClosesFrom ==
  ASSUME TypeOK, NEW x \in Coroutine, Role(x), op'[x] \in Removal,
         pc'[x] = "closing", [Next]_vars
  PROVE  (op[x] = op'[x] /\ pc[x] = "closing") \/ ~armed'
<1> USE DEF TypeOK, Goto, links, flags, coros, count, Removal, Role
<1>1. ASSUME NEW r \in Request, NEW o \in Door, Press(r, o),
             \A s \in Request : ~Entering(s)
      PROVE  (op[x] = op'[x] /\ pc[x] = "closing") \/ ~armed'
  BY <1>1, Apart DEF Press, Released, Stale, Note
<1>2. ASSUME NEW r \in Request, Reconnect(r)
      PROVE  (op[x] = op'[x] /\ pc[x] = "closing") \/ ~armed'
  BY <1>2, Apart DEF Reconnect, Past, Closing, Goto
<1>3. ASSUME NEW r \in Request, Pause(r)
      PROVE  (op[x] = op'[x] /\ pc[x] = "closing") \/ ~armed'
  BY <1>3, Apart DEF Pause, Past, Closing, Goto, Note
<1>4. ASSUME NEW r \in Request, BeginSetup(r)
      PROVE  (op[x] = op'[x] /\ pc[x] = "closing") \/ ~armed'
  BY <1>4, Apart DEF BeginSetup, Past, Goto
<1>5. ASSUME NEW r \in Request, Remove(r)
      PROVE  (op[x] = op'[x] /\ pc[x] = "closing") \/ ~armed'
  BY <1>5, Apart DEF Remove, Past, Closing, Goto
<1>6. ASSUME NEW r \in Request, PressResume(r)
      PROVE  (op[x] = op'[x] /\ pc[x] = "closing") \/ ~armed'
  BY <1>6, Apart DEF PressResume, Resume, Dial, Locked, Dialed, Goto, Note
<1>7. ASSUME NEW r \in Request, EndSetup(r)
      PROVE  (op[x] = op'[x] /\ pc[x] = "closing") \/ ~armed'
  BY <1>7, Apart DEF EndSetup, Done, Discards, LoopReads, Goto, Retrying
<1>8. ASSUME NEW r \in Request, SetupRedials(r)
      PROVE  (op[x] = op'[x] /\ pc[x] = "closing") \/ ~armed'
  BY <1>8, Apart DEF SetupRedials, Closing, Goto
<1>9. ASSUME NEW p \in Coroutine, Enter(p)
      PROVE  (op[x] = op'[x] /\ pc[x] = "closing") \/ ~armed'
  BY <1>9, Apart DEF Enter, Current, Locked, Goto
<1>10. ASSUME NEW p \in Coroutine, Declare(p)
      PROVE  (op[x] = op'[x] /\ pc[x] = "closing") \/ ~armed'
  BY <1>10, Apart DEF Declare, Current, Goto
<1>11. ASSUME NEW p \in Coroutine, Connected(p)
      PROVE  (op[x] = op'[x] /\ pc[x] = "closing") \/ ~armed'
  BY <1>11, Apart DEF Connected, Current, Stale, Superseded, DownAgain,
     Released, LoopReads, Again, Goto
<1>12. ASSUME NEW p \in Coroutine, Settled(p)
      PROVE  (op[x] = op'[x] /\ pc[x] = "closing") \/ ~armed'
  BY <1>12, Apart DEF Settled, DownAgain, Done, Discards, LoopReads, Again,
     Goto, Retrying
<1>13. ASSUME NEW p \in Coroutine, Unwind(p)
      PROVE  (op[x] = op'[x] /\ pc[x] = "closing") \/ ~armed'
  BY <1>13, Apart DEF Unwind, Ended, Current, Stale, Superseded, Released,
     Done, Discards, LoopReads, Goto, Retrying
<1>14. ASSUME NEW p \in Coroutine, NEW b \in BOOLEAN, ConnectFails(p, b)
      PROVE  (op[x] = op'[x] /\ pc[x] = "closing") \/ ~armed'
  BY <1>14, Apart DEF ConnectFails, Current, Stale, Superseded, Released, Done,
     Discards, LoopReads, Again, Goto, Retrying
<1>15. ASSUME NEW p \in Coroutine, Redial(p)
      PROVE  (op[x] = op'[x] /\ pc[x] = "closing") \/ ~armed'
  BY <1>15, Apart DEF Redial, Superseded, Shut, Closed, Dialed, Informed,
     Retrying, LoopReads, Goto, Note
<1>16. ASSUME NEW p \in Coroutine, PauseHolds(p)
      PROVE  (op[x] = op'[x] /\ pc[x] = "closing") \/ ~armed'
  BY <1>16, Apart DEF PauseHolds, Superseded, Shut, Closed, Informed, Retrying,
     LoopReads, Goto, Note
<1>17. ASSUME NEW p \in Coroutine, Removed(p)
      PROVE  (op[x] = op'[x] /\ pc[x] = "closing") \/ ~armed'
  BY <1>17, Apart DEF Removed, Shut, Closed, Goto
<1>18. ASSUME NEW p \in Coroutine, Readded(p)
      PROVE  (op[x] = op'[x] /\ pc[x] = "closing") \/ ~armed'
  BY <1>18, Apart DEF Readded, Shut, Closed, CarriedArmed, Goto
<1>19. ASSUME NEW p \in Coroutine, Discarded(p)
      PROVE  (op[x] = op'[x] /\ pc[x] = "closing") \/ ~armed'
  BY <1>19, Apart DEF Discarded, Shut, Informed, Retrying, LoopReads, LiveKey,
     Goto
<1>20. ASSUME Expire  PROVE  (op[x] = op'[x] /\ pc[x] = "closing") \/ ~armed'
  BY <1>20, Apart DEF Expire, Resume, Dial, Locked, Dialed, Goto, Note
<1>21. ASSUME ExpireRemoved
      PROVE  (op[x] = op'[x] /\ pc[x] = "closing") \/ ~armed'
  BY <1>21, Apart DEF ExpireRemoved
<1>22. ASSUME BringUp  PROVE  (op[x] = op'[x] /\ pc[x] = "closing") \/ ~armed'
  BY <1>22, Apart DEF BringUp, Dial, Locked, Dialed, Goto, Note
<1>23. ASSUME Retry, \A s \in Request : ~Entering(s)
      PROVE  (op[x] = op'[x] /\ pc[x] = "closing") \/ ~armed'
  BY <1>23, Apart DEF Retry, Dial, Locked, Dialed, Goto, Superseded
<1>24. ASSUME Kick  PROVE  (op[x] = op'[x] /\ pc[x] = "closing") \/ ~armed'
  BY <1>24, Apart DEF Kick, Released, LoopReads, Goto, Stale, Superseded
<1>25. ASSUME NEW d \in Instance, Drop(d)
      PROVE  (op[x] = op'[x] /\ pc[x] = "closing") \/ ~armed'
  BY <1>25, Apart DEF Drop
<1>26. ASSUME NEW d \in Instance, NEW b \in BOOLEAN, DropTold(d, b)
      PROVE  (op[x] = op'[x] /\ pc[x] = "closing") \/ ~armed'
  BY <1>26, Apart DEF DropTold, LoopReads, Retrying, Note
<1>27. ASSUME UNCHANGED vars
      PROVE  (op[x] = op'[x] /\ pc[x] = "closing") \/ ~armed'
  BY <1>27, Apart DEF vars, links, flags, coros, count
<1> HIDE DEF TypeOK, Goto, links, flags, coros, count, Removal, Role
<1> QED
  BY <1>1, <1>2, <1>3, <1>4, <1>5, <1>6, <1>7, <1>8, <1>9, <1>10, <1>11, <1>12,
     <1>13, <1>14, <1>15, <1>16, <1>17, <1>18, <1>19, <1>20, <1>21, <1>22,
     <1>23, <1>24, <1>25, <1>26, <1>27 DEF Next, Entering, Head, ConnectStep,
     CloseStep

LEMMA PauseMoves ==
  ASSUME TypeOK, NEW x \in Coroutine, Role(x), op[x] = "pause",
         pc[x] \in {"entering", "cancelling", "closing"}, pc'[x] # "idle",
         [Next]_vars
  PROVE  Pause(x) \/ (pc'[x] = pc[x] /\ drv'[x] = drv[x])
<1> USE DEF TypeOK, Goto, links, flags, coros, count, Role
<1>1. ASSUME NEW r \in Request, NEW o \in Door, Press(r, o),
             \A s \in Request : ~Entering(s)
      PROVE  Pause(x) \/ (pc'[x] = pc[x] /\ drv'[x] = drv[x])
  BY <1>1, Apart DEF Press, Released, Stale, Note
<1>2. ASSUME NEW r \in Request, Reconnect(r)
      PROVE  Pause(x) \/ (pc'[x] = pc[x] /\ drv'[x] = drv[x])
  BY <1>2, Apart DEF Reconnect, Past, Closing, Goto
<1>3. ASSUME NEW r \in Request, Pause(r)
      PROVE  Pause(x) \/ (pc'[x] = pc[x] /\ drv'[x] = drv[x])
  <2>1. CASE x = r
    BY <1>3, <2>1
  <2>2. CASE x # r
    BY <1>3, <2>2 DEF Pause, Goto
  <2> QED  BY <2>1, <2>2
<1>4. ASSUME NEW r \in Request, BeginSetup(r)
      PROVE  Pause(x) \/ (pc'[x] = pc[x] /\ drv'[x] = drv[x])
  BY <1>4, Apart DEF BeginSetup, Past, Goto
<1>5. ASSUME NEW r \in Request, Remove(r)
      PROVE  Pause(x) \/ (pc'[x] = pc[x] /\ drv'[x] = drv[x])
  BY <1>5, Apart DEF Remove, Past, Closing, Goto
<1>6. ASSUME NEW r \in Request, PressResume(r)
      PROVE  Pause(x) \/ (pc'[x] = pc[x] /\ drv'[x] = drv[x])
  BY <1>6, Apart DEF PressResume, Resume, Dial, Locked, Dialed, Goto, Note
<1>7. ASSUME NEW r \in Request, EndSetup(r)
      PROVE  Pause(x) \/ (pc'[x] = pc[x] /\ drv'[x] = drv[x])
  BY <1>7, Apart DEF EndSetup, Done, Discards, LoopReads, Goto, Retrying
<1>8. ASSUME NEW r \in Request, SetupRedials(r)
      PROVE  Pause(x) \/ (pc'[x] = pc[x] /\ drv'[x] = drv[x])
  BY <1>8, Apart DEF SetupRedials, Closing, Goto
<1>9. ASSUME NEW p \in Coroutine, Enter(p)
      PROVE  Pause(x) \/ (pc'[x] = pc[x] /\ drv'[x] = drv[x])
  BY <1>9, Apart DEF Enter, Current, Locked, Goto
<1>10. ASSUME NEW p \in Coroutine, Declare(p)
      PROVE  Pause(x) \/ (pc'[x] = pc[x] /\ drv'[x] = drv[x])
  BY <1>10, Apart DEF Declare, Current, Goto
<1>11. ASSUME NEW p \in Coroutine, Connected(p)
      PROVE  Pause(x) \/ (pc'[x] = pc[x] /\ drv'[x] = drv[x])
  BY <1>11, Apart DEF Connected, Current, Stale, Superseded, DownAgain,
     Released, LoopReads, Again, Goto
<1>12. ASSUME NEW p \in Coroutine, Settled(p)
      PROVE  Pause(x) \/ (pc'[x] = pc[x] /\ drv'[x] = drv[x])
  BY <1>12, Apart DEF Settled, DownAgain, Done, Discards, LoopReads, Again,
     Goto, Retrying
<1>13. ASSUME NEW p \in Coroutine, Unwind(p)
      PROVE  Pause(x) \/ (pc'[x] = pc[x] /\ drv'[x] = drv[x])
  BY <1>13, Apart DEF Unwind, Ended, Current, Stale, Superseded, Released,
     Done, Discards, LoopReads, Goto, Retrying
<1>14. ASSUME NEW p \in Coroutine, NEW b \in BOOLEAN, ConnectFails(p, b)
      PROVE  Pause(x) \/ (pc'[x] = pc[x] /\ drv'[x] = drv[x])
  BY <1>14, Apart DEF ConnectFails, Current, Stale, Superseded, Released, Done,
     Discards, LoopReads, Again, Goto, Retrying
<1>15. ASSUME NEW p \in Coroutine, Redial(p)
      PROVE  Pause(x) \/ (pc'[x] = pc[x] /\ drv'[x] = drv[x])
  BY <1>15, Apart DEF Redial, Superseded, Shut, Closed, Dialed, Informed,
     Retrying, LoopReads, Goto, Note
<1>16. ASSUME NEW p \in Coroutine, PauseHolds(p)
      PROVE  Pause(x) \/ (pc'[x] = pc[x] /\ drv'[x] = drv[x])
  BY <1>16, Apart DEF PauseHolds, Superseded, Shut, Closed, Informed, Retrying,
     LoopReads, Goto, Note
<1>17. ASSUME NEW p \in Coroutine, Removed(p)
      PROVE  Pause(x) \/ (pc'[x] = pc[x] /\ drv'[x] = drv[x])
  BY <1>17, Apart DEF Removed, Shut, Closed, Goto
<1>18. ASSUME NEW p \in Coroutine, Readded(p)
      PROVE  Pause(x) \/ (pc'[x] = pc[x] /\ drv'[x] = drv[x])
  BY <1>18, Apart DEF Readded, Shut, Closed, CarriedArmed, Goto
<1>19. ASSUME NEW p \in Coroutine, Discarded(p)
      PROVE  Pause(x) \/ (pc'[x] = pc[x] /\ drv'[x] = drv[x])
  BY <1>19, Apart DEF Discarded, Shut, Informed, Retrying, LoopReads, LiveKey,
     Goto
<1>20. ASSUME Expire  PROVE  Pause(x) \/ (pc'[x] = pc[x] /\ drv'[x] = drv[x])
  BY <1>20, Apart DEF Expire, Resume, Dial, Locked, Dialed, Goto, Note
<1>21. ASSUME ExpireRemoved
      PROVE  Pause(x) \/ (pc'[x] = pc[x] /\ drv'[x] = drv[x])
  BY <1>21, Apart DEF ExpireRemoved
<1>22. ASSUME BringUp  PROVE  Pause(x) \/ (pc'[x] = pc[x] /\ drv'[x] = drv[x])
  BY <1>22, Apart DEF BringUp, Dial, Locked, Dialed, Goto, Note
<1>23. ASSUME Retry, \A s \in Request : ~Entering(s)
      PROVE  Pause(x) \/ (pc'[x] = pc[x] /\ drv'[x] = drv[x])
  BY <1>23, Apart DEF Retry, Dial, Locked, Dialed, Goto, Superseded
<1>24. ASSUME Kick  PROVE  Pause(x) \/ (pc'[x] = pc[x] /\ drv'[x] = drv[x])
  BY <1>24, Apart DEF Kick, Released, LoopReads, Goto, Stale, Superseded
<1>25. ASSUME NEW d \in Instance, Drop(d)
      PROVE  Pause(x) \/ (pc'[x] = pc[x] /\ drv'[x] = drv[x])
  BY <1>25, Apart DEF Drop
<1>26. ASSUME NEW d \in Instance, NEW b \in BOOLEAN, DropTold(d, b)
      PROVE  Pause(x) \/ (pc'[x] = pc[x] /\ drv'[x] = drv[x])
  BY <1>26, Apart DEF DropTold, LoopReads, Retrying, Note
<1>27. ASSUME UNCHANGED vars
      PROVE  Pause(x) \/ (pc'[x] = pc[x] /\ drv'[x] = drv[x])
  BY <1>27, Apart DEF vars, links, flags, coros, count
<1> HIDE DEF TypeOK, Goto, links, flags, coros, count, Role
<1> QED
  BY <1>1, <1>2, <1>3, <1>4, <1>5, <1>6, <1>7, <1>8, <1>9, <1>10, <1>11, <1>12,
     <1>13, <1>14, <1>15, <1>16, <1>17, <1>18, <1>19, <1>20, <1>21, <1>22,
     <1>23, <1>24, <1>25, <1>26, <1>27 DEF Next, Entering, Head, ConnectStep,
     CloseStep

LEMMA CarryMoves ==
  ASSUME TypeOK, NEW x \in Coroutine, Role(x), op[x] = "carry",
         pc[x] = "closing", inst = None, pc["loop"] = "idle", [Next]_vars
  PROVE  pc'[x] \in {"closing", "idle"} /\ pc'["loop"] = "idle"
<1> USE DEF TypeOK, Goto, links, flags, coros, count, Role
<1>1. ASSUME NEW r \in Request, NEW o \in Door, Press(r, o),
             \A s \in Request : ~Entering(s)
      PROVE  pc'[x] \in {"closing", "idle"} /\ pc'["loop"] = "idle"
  BY <1>1, Apart DEF Press, Released, Stale, Note
<1>2. ASSUME NEW r \in Request, Reconnect(r)
      PROVE  pc'[x] \in {"closing", "idle"} /\ pc'["loop"] = "idle"
  BY <1>2, Apart DEF Reconnect, Past, Closing, Goto
<1>3. ASSUME NEW r \in Request, Pause(r)
      PROVE  pc'[x] \in {"closing", "idle"} /\ pc'["loop"] = "idle"
  BY <1>3, Apart DEF Pause, Past, Closing, Goto, Note
<1>4. ASSUME NEW r \in Request, BeginSetup(r)
      PROVE  pc'[x] \in {"closing", "idle"} /\ pc'["loop"] = "idle"
  BY <1>4, Apart DEF BeginSetup, Past, Goto
<1>5. ASSUME NEW r \in Request, Remove(r)
      PROVE  pc'[x] \in {"closing", "idle"} /\ pc'["loop"] = "idle"
  BY <1>5, Apart DEF Remove, Past, Closing, Goto
<1>6. ASSUME NEW r \in Request, PressResume(r)
      PROVE  pc'[x] \in {"closing", "idle"} /\ pc'["loop"] = "idle"
  BY <1>6, Apart DEF PressResume, Resume, Dial, Locked, Dialed, Goto, Note
<1>7. ASSUME NEW r \in Request, EndSetup(r)
      PROVE  pc'[x] \in {"closing", "idle"} /\ pc'["loop"] = "idle"
  BY <1>7, Apart DEF EndSetup, Done, Discards, LoopReads, Goto, Retrying
<1>8. ASSUME NEW r \in Request, SetupRedials(r)
      PROVE  pc'[x] \in {"closing", "idle"} /\ pc'["loop"] = "idle"
  BY <1>8, Apart DEF SetupRedials, Closing, Goto
<1>9. ASSUME NEW p \in Coroutine, Enter(p)
      PROVE  pc'[x] \in {"closing", "idle"} /\ pc'["loop"] = "idle"
  BY <1>9, Apart DEF Enter, Current, Locked, Goto
<1>10. ASSUME NEW p \in Coroutine, Declare(p)
      PROVE  pc'[x] \in {"closing", "idle"} /\ pc'["loop"] = "idle"
  BY <1>10, Apart DEF Declare, Current, Goto
<1>11. ASSUME NEW p \in Coroutine, Connected(p)
      PROVE  pc'[x] \in {"closing", "idle"} /\ pc'["loop"] = "idle"
  BY <1>11, Apart DEF Connected, Current, Stale, Superseded, DownAgain,
     Released, LoopReads, Again, Goto
<1>12. ASSUME NEW p \in Coroutine, Settled(p)
      PROVE  pc'[x] \in {"closing", "idle"} /\ pc'["loop"] = "idle"
  BY <1>12, Apart DEF Settled, DownAgain, Done, Discards, LoopReads, Again,
     Goto, Retrying
<1>13. ASSUME NEW p \in Coroutine, Unwind(p)
      PROVE  pc'[x] \in {"closing", "idle"} /\ pc'["loop"] = "idle"
  BY <1>13, Apart DEF Unwind, Ended, Current, Stale, Superseded, Released,
     Done, Discards, LoopReads, Goto, Retrying
<1>14. ASSUME NEW p \in Coroutine, NEW b \in BOOLEAN, ConnectFails(p, b)
      PROVE  pc'[x] \in {"closing", "idle"} /\ pc'["loop"] = "idle"
  BY <1>14, Apart DEF ConnectFails, Current, Stale, Superseded, Released, Done,
     Discards, LoopReads, Again, Goto, Retrying
<1>15. ASSUME NEW p \in Coroutine, Redial(p)
      PROVE  pc'[x] \in {"closing", "idle"} /\ pc'["loop"] = "idle"
  BY <1>15, Apart DEF Redial, Superseded, Shut, Closed, Dialed, Informed,
     Retrying, LoopReads, Goto, Note
<1>16. ASSUME NEW p \in Coroutine, PauseHolds(p)
      PROVE  pc'[x] \in {"closing", "idle"} /\ pc'["loop"] = "idle"
  BY <1>16, Apart DEF PauseHolds, Superseded, Shut, Closed, Informed, Retrying,
     LoopReads, Goto, Note
<1>17. ASSUME NEW p \in Coroutine, Removed(p)
      PROVE  pc'[x] \in {"closing", "idle"} /\ pc'["loop"] = "idle"
  BY <1>17, Apart DEF Removed, Shut, Closed, Goto
<1>18. ASSUME NEW p \in Coroutine, Readded(p)
      PROVE  pc'[x] \in {"closing", "idle"} /\ pc'["loop"] = "idle"
  BY <1>18, Apart DEF Readded, Shut, Closed, CarriedArmed, Goto
<1>19. ASSUME NEW p \in Coroutine, Discarded(p)
      PROVE  pc'[x] \in {"closing", "idle"} /\ pc'["loop"] = "idle"
  BY <1>19, Apart DEF Discarded, Shut, Informed, Retrying, LoopReads, LiveKey,
     Goto
<1>20. ASSUME Expire
      PROVE  pc'[x] \in {"closing", "idle"} /\ pc'["loop"] = "idle"
  BY <1>20, Apart DEF Expire, Resume, Dial, Locked, Dialed, Goto, Note
<1>21. ASSUME ExpireRemoved
      PROVE  pc'[x] \in {"closing", "idle"} /\ pc'["loop"] = "idle"
  BY <1>21, Apart DEF ExpireRemoved
<1>22. ASSUME BringUp
      PROVE  pc'[x] \in {"closing", "idle"} /\ pc'["loop"] = "idle"
  BY <1>22, Apart DEF BringUp, Dial, Locked, Dialed, Goto, Note
<1>23. ASSUME Retry, \A s \in Request : ~Entering(s)
      PROVE  pc'[x] \in {"closing", "idle"} /\ pc'["loop"] = "idle"
  BY <1>23, Apart DEF Retry, Dial, Locked, Dialed, Goto, Superseded
<1>24. ASSUME Kick
      PROVE  pc'[x] \in {"closing", "idle"} /\ pc'["loop"] = "idle"
  BY <1>24, Apart DEF Kick, Released, LoopReads, Goto, Stale, Superseded
<1>25. ASSUME NEW d \in Instance, Drop(d)
      PROVE  pc'[x] \in {"closing", "idle"} /\ pc'["loop"] = "idle"
  BY <1>25, Apart DEF Drop
<1>26. ASSUME NEW d \in Instance, NEW b \in BOOLEAN, DropTold(d, b)
      PROVE  pc'[x] \in {"closing", "idle"} /\ pc'["loop"] = "idle"
  BY <1>26, Apart DEF DropTold, LoopReads, Retrying, Note
<1>27. ASSUME UNCHANGED vars
      PROVE  pc'[x] \in {"closing", "idle"} /\ pc'["loop"] = "idle"
  BY <1>27, Apart DEF vars, links, flags, coros, count
<1> HIDE DEF TypeOK, Goto, links, flags, coros, count, Role
<1> QED
  BY <1>1, <1>2, <1>3, <1>4, <1>5, <1>6, <1>7, <1>8, <1>9, <1>10, <1>11, <1>12,
     <1>13, <1>14, <1>15, <1>16, <1>17, <1>18, <1>19, <1>20, <1>21, <1>22,
     <1>23, <1>24, <1>25, <1>26, <1>27 DEF Next, Entering, Head, ConnectStep,
     CloseStep

LEMMA PauseRegisters ==
  ASSUME TypeOK, NEW x \in Coroutine, ~deferred,
         \A q \in Coroutine : ~(op[q] \in {"update", "carry"}
           /\ pc[q] # "idle"),
         [Next]_vars
  PROVE  ~deferred' /\ (inst' = inst \/ inst' = None)
<1> USE DEF TypeOK, Goto, links, flags, coros, count
<1>1. ASSUME NEW r \in Request, NEW o \in Door, Press(r, o),
             \A s \in Request : ~Entering(s)
      PROVE  ~deferred' /\ (inst' = inst \/ inst' = None)
  <2>1. ~(op[r] \in {"update", "carry"} /\ pc[r] # "idle")
    BY Apart
  <2> QED
    BY <1>1, <2>1, Apart DEF Press, Released, Stale, Note
<1>2. ASSUME NEW r \in Request, Reconnect(r)
      PROVE  ~deferred' /\ (inst' = inst \/ inst' = None)
  <2>1. ~(op[r] \in {"update", "carry"} /\ pc[r] # "idle")
    BY Apart
  <2> QED
    BY <1>2, <2>1, Apart DEF Reconnect, Past, Closing, Goto
<1>3. ASSUME NEW r \in Request, Pause(r)
      PROVE  ~deferred' /\ (inst' = inst \/ inst' = None)
  <2>1. ~(op[r] \in {"update", "carry"} /\ pc[r] # "idle")
    BY Apart
  <2> QED
    BY <1>3, <2>1, Apart DEF Pause, Past, Closing, Goto, Note
<1>4. ASSUME NEW r \in Request, BeginSetup(r)
      PROVE  ~deferred' /\ (inst' = inst \/ inst' = None)
  <2>1. ~(op[r] \in {"update", "carry"} /\ pc[r] # "idle")
    BY Apart
  <2> QED
    BY <1>4, <2>1, Apart DEF BeginSetup, Past, Goto
<1>5. ASSUME NEW r \in Request, Remove(r)
      PROVE  ~deferred' /\ (inst' = inst \/ inst' = None)
  <2>1. ~(op[r] \in {"update", "carry"} /\ pc[r] # "idle")
    BY Apart
  <2> QED
    BY <1>5, <2>1, Apart DEF Remove, Past, Closing, Goto
<1>6. ASSUME NEW r \in Request, PressResume(r)
      PROVE  ~deferred' /\ (inst' = inst \/ inst' = None)
  <2>1. ~(op[r] \in {"update", "carry"} /\ pc[r] # "idle")
    BY Apart
  <2> QED
    BY <1>6, <2>1, Apart DEF PressResume, Resume, Dial, Locked, Dialed, Goto,
       Note
<1>7. ASSUME NEW r \in Request, EndSetup(r)
      PROVE  ~deferred' /\ (inst' = inst \/ inst' = None)
  <2>1. ~(op[r] \in {"update", "carry"} /\ pc[r] # "idle")
    BY Apart
  <2> QED
    BY <1>7, <2>1, Apart DEF EndSetup, Done, Discards, LoopReads, Goto,
       Retrying
<1>8. ASSUME NEW r \in Request, SetupRedials(r)
      PROVE  ~deferred' /\ (inst' = inst \/ inst' = None)
  <2>1. ~(op[r] \in {"update", "carry"} /\ pc[r] # "idle")
    BY Apart
  <2> QED
    BY <1>8, <2>1, Apart DEF SetupRedials, Closing, Goto
<1>9. ASSUME NEW p \in Coroutine, Enter(p)
      PROVE  ~deferred' /\ (inst' = inst \/ inst' = None)
  <2>1. ~(op[p] \in {"update", "carry"} /\ pc[p] # "idle")
    BY Apart
  <2> QED
    BY <1>9, <2>1, Apart DEF Enter, Current, Locked, Goto
<1>10. ASSUME NEW p \in Coroutine, Declare(p)
      PROVE  ~deferred' /\ (inst' = inst \/ inst' = None)
  <2>1. ~(op[p] \in {"update", "carry"} /\ pc[p] # "idle")
    BY Apart
  <2> QED
    BY <1>10, <2>1, Apart DEF Declare, Current, Goto
<1>11. ASSUME NEW p \in Coroutine, Connected(p)
      PROVE  ~deferred' /\ (inst' = inst \/ inst' = None)
  <2>1. ~(op[p] \in {"update", "carry"} /\ pc[p] # "idle")
    BY Apart
  <2> QED
    BY <1>11, <2>1, Apart DEF Connected, Current, Stale, Superseded, DownAgain,
       Released, LoopReads, Again, Goto
<1>12. ASSUME NEW p \in Coroutine, Settled(p)
      PROVE  ~deferred' /\ (inst' = inst \/ inst' = None)
  <2>1. ~(op[p] \in {"update", "carry"} /\ pc[p] # "idle")
    BY Apart
  <2> QED
    BY <1>12, <2>1, Apart DEF Settled, DownAgain, Done, Discards, LoopReads,
       Again, Goto, Retrying
<1>13. ASSUME NEW p \in Coroutine, Unwind(p)
      PROVE  ~deferred' /\ (inst' = inst \/ inst' = None)
  <2>1. ~(op[p] \in {"update", "carry"} /\ pc[p] # "idle")
    BY Apart
  <2> QED
    BY <1>13, <2>1, Apart DEF Unwind, Ended, Current, Stale, Superseded,
       Released, Done, Discards, LoopReads, Goto, Retrying
<1>14. ASSUME NEW p \in Coroutine, NEW b \in BOOLEAN, ConnectFails(p, b)
      PROVE  ~deferred' /\ (inst' = inst \/ inst' = None)
  <2>1. ~(op[p] \in {"update", "carry"} /\ pc[p] # "idle")
    BY Apart
  <2> QED
    BY <1>14, <2>1, Apart DEF ConnectFails, Current, Stale, Superseded,
       Released, Done, Discards, LoopReads, Again, Goto, Retrying
<1>15. ASSUME NEW p \in Coroutine, Redial(p)
      PROVE  ~deferred' /\ (inst' = inst \/ inst' = None)
  <2>1. ~(op[p] \in {"update", "carry"} /\ pc[p] # "idle")
    BY Apart
  <2> QED
    BY <1>15, <2>1, Apart DEF Redial, Superseded, Shut, Closed, Dialed,
       Informed, Retrying, LoopReads, Goto, Note
<1>16. ASSUME NEW p \in Coroutine, PauseHolds(p)
      PROVE  ~deferred' /\ (inst' = inst \/ inst' = None)
  <2>1. ~(op[p] \in {"update", "carry"} /\ pc[p] # "idle")
    BY Apart
  <2> QED
    BY <1>16, <2>1, Apart DEF PauseHolds, Superseded, Shut, Closed, Informed,
       Retrying, LoopReads, Goto, Note
<1>17. ASSUME NEW p \in Coroutine, Removed(p)
      PROVE  ~deferred' /\ (inst' = inst \/ inst' = None)
  <2>1. ~(op[p] \in {"update", "carry"} /\ pc[p] # "idle")
    BY Apart
  <2> QED
    BY <1>17, <2>1, Apart DEF Removed, Shut, Closed, Goto
<1>18. ASSUME NEW p \in Coroutine, Readded(p)
      PROVE  ~deferred' /\ (inst' = inst \/ inst' = None)
  <2>1. ~(op[p] \in {"update", "carry"} /\ pc[p] # "idle")
    BY Apart
  <2> QED
    BY <1>18, <2>1, Apart DEF Readded, Shut, Closed, CarriedArmed, Goto
<1>19. ASSUME NEW p \in Coroutine, Discarded(p)
      PROVE  ~deferred' /\ (inst' = inst \/ inst' = None)
  <2>1. ~(op[p] \in {"update", "carry"} /\ pc[p] # "idle")
    BY Apart
  <2> QED
    BY <1>19, <2>1, Apart DEF Discarded, Shut, Informed, Retrying, LoopReads,
       LiveKey, Goto
<1>20. ASSUME Expire  PROVE  ~deferred' /\ (inst' = inst \/ inst' = None)
  BY <1>20, Apart DEF Expire, Resume, Dial, Locked, Dialed, Goto, Note
<1>21. ASSUME ExpireRemoved
      PROVE  ~deferred' /\ (inst' = inst \/ inst' = None)
  BY <1>21, Apart DEF ExpireRemoved
<1>22. ASSUME BringUp  PROVE  ~deferred' /\ (inst' = inst \/ inst' = None)
  BY <1>22, Apart DEF BringUp, Dial, Locked, Dialed, Goto, Note
<1>23. ASSUME Retry, \A s \in Request : ~Entering(s)
      PROVE  ~deferred' /\ (inst' = inst \/ inst' = None)
  BY <1>23, Apart DEF Retry, Dial, Locked, Dialed, Goto, Superseded
<1>24. ASSUME Kick  PROVE  ~deferred' /\ (inst' = inst \/ inst' = None)
  BY <1>24, Apart DEF Kick, Released, LoopReads, Goto, Stale, Superseded
<1>25. ASSUME NEW d \in Instance, Drop(d)
      PROVE  ~deferred' /\ (inst' = inst \/ inst' = None)
  BY <1>25, Apart DEF Drop
<1>26. ASSUME NEW d \in Instance, NEW b \in BOOLEAN, DropTold(d, b)
      PROVE  ~deferred' /\ (inst' = inst \/ inst' = None)
  BY <1>26, Apart DEF DropTold, LoopReads, Retrying, Note
<1>27. ASSUME UNCHANGED vars
      PROVE  ~deferred' /\ (inst' = inst \/ inst' = None)
  BY <1>27, Apart DEF vars, links, flags, coros, count
<1> HIDE DEF TypeOK, Goto, links, flags, coros, count
<1> QED
  BY <1>1, <1>2, <1>3, <1>4, <1>5, <1>6, <1>7, <1>8, <1>9, <1>10, <1>11, <1>12,
     <1>13, <1>14, <1>15, <1>16, <1>17, <1>18, <1>19, <1>20, <1>21, <1>22,
     <1>23, <1>24, <1>25, <1>26, <1>27 DEF Next, Entering, Head, ConnectStep,
     CloseStep

LEMMA Backed ==
  ASSUME TypeOK, Removals, armed /\ inst # None => paused, [Next]_vars
  PROVE  (armed' /\ inst' # None => paused') \/ \E q \in Coroutine : Readded(q)
<1> USE DEF TypeOK, Goto, links, flags, coros, count
<1>1. ASSUME NEW r \in Request, NEW o \in Door, Press(r, o),
             \A s \in Request : ~Entering(s)
      PROVE  (armed' /\ inst' # None => paused')
             \/ \E q \in Coroutine : Readded(q)
  BY <1>1, Apart DEF Press, Released, Stale, Note
<1>2. ASSUME NEW r \in Request, Reconnect(r)
      PROVE  (armed' /\ inst' # None => paused')
             \/ \E q \in Coroutine : Readded(q)
  BY <1>2, Apart DEF Reconnect, Past, Closing, Goto
<1>3. ASSUME NEW r \in Request, Pause(r)
      PROVE  (armed' /\ inst' # None => paused')
             \/ \E q \in Coroutine : Readded(q)
  BY <1>3, Apart DEF Pause, Past, Closing, Goto, Note
<1>4. ASSUME NEW r \in Request, BeginSetup(r)
      PROVE  (armed' /\ inst' # None => paused')
             \/ \E q \in Coroutine : Readded(q)
  BY <1>4, Apart DEF BeginSetup, Past, Goto
<1>5. ASSUME NEW r \in Request, Remove(r)
      PROVE  (armed' /\ inst' # None => paused')
             \/ \E q \in Coroutine : Readded(q)
  BY <1>5, Apart DEF Remove, Past, Closing, Goto
<1>6. ASSUME NEW r \in Request, PressResume(r)
      PROVE  (armed' /\ inst' # None => paused')
             \/ \E q \in Coroutine : Readded(q)
  BY <1>6, Apart DEF PressResume, Resume, Dial, Locked, Dialed, Goto, Note
<1>7. ASSUME NEW r \in Request, EndSetup(r)
      PROVE  (armed' /\ inst' # None => paused')
             \/ \E q \in Coroutine : Readded(q)
  BY <1>7, Apart DEF EndSetup, Done, Discards, LoopReads, Goto, Retrying
<1>8. ASSUME NEW r \in Request, SetupRedials(r)
      PROVE  (armed' /\ inst' # None => paused')
             \/ \E q \in Coroutine : Readded(q)
  BY <1>8, Apart DEF SetupRedials, Closing, Goto
<1>9. ASSUME NEW p \in Coroutine, Enter(p)
      PROVE  (armed' /\ inst' # None => paused')
             \/ \E q \in Coroutine : Readded(q)
  BY <1>9, Apart DEF Enter, Current, Locked, Goto
<1>10. ASSUME NEW p \in Coroutine, Declare(p)
      PROVE  (armed' /\ inst' # None => paused')
             \/ \E q \in Coroutine : Readded(q)
  BY <1>10, Apart DEF Declare, Current, Goto
<1>11. ASSUME NEW p \in Coroutine, Connected(p)
      PROVE  (armed' /\ inst' # None => paused')
             \/ \E q \in Coroutine : Readded(q)
  BY <1>11, Apart DEF Connected, Current, Stale, Superseded, DownAgain,
     Released, LoopReads, Again, Goto
<1>12. ASSUME NEW p \in Coroutine, Settled(p)
      PROVE  (armed' /\ inst' # None => paused')
             \/ \E q \in Coroutine : Readded(q)
  BY <1>12, Apart DEF Settled, DownAgain, Done, Discards, LoopReads, Again,
     Goto, Retrying
<1>13. ASSUME NEW p \in Coroutine, Unwind(p)
      PROVE  (armed' /\ inst' # None => paused')
             \/ \E q \in Coroutine : Readded(q)
  BY <1>13, Apart DEF Unwind, Ended, Current, Stale, Superseded, Released,
     Done, Discards, LoopReads, Goto, Retrying
<1>14. ASSUME NEW p \in Coroutine, NEW b \in BOOLEAN, ConnectFails(p, b)
      PROVE  (armed' /\ inst' # None => paused')
             \/ \E q \in Coroutine : Readded(q)
  BY <1>14, Apart DEF ConnectFails, Current, Stale, Superseded, Released, Done,
     Discards, LoopReads, Again, Goto, Retrying
<1>15. ASSUME NEW p \in Coroutine, Redial(p)
      PROVE  (armed' /\ inst' # None => paused')
             \/ \E q \in Coroutine : Readded(q)
  BY <1>15, Apart DEF Redial, Superseded, Shut, Closed, Dialed, Informed,
     Retrying, LoopReads, Goto, Note
<1>16. ASSUME NEW p \in Coroutine, PauseHolds(p)
      PROVE  (armed' /\ inst' # None => paused')
             \/ \E q \in Coroutine : Readded(q)
  BY <1>16, Apart DEF PauseHolds, Superseded, Shut, Closed, Informed, Retrying,
     LoopReads, Goto, Note
<1>17. ASSUME NEW p \in Coroutine, Removed(p)
      PROVE  (armed' /\ inst' # None => paused')
             \/ \E q \in Coroutine : Readded(q)
  BY <1>17, Apart DEF Removed, Shut, Closed, Goto, Removals, Removing, Removal
<1>18. ASSUME NEW p \in Coroutine, Readded(p)
      PROVE  (armed' /\ inst' # None => paused')
             \/ \E q \in Coroutine : Readded(q)
  BY <1>18
<1>19. ASSUME NEW p \in Coroutine, Discarded(p)
      PROVE  (armed' /\ inst' # None => paused')
             \/ \E q \in Coroutine : Readded(q)
  BY <1>19, Apart DEF Discarded, Shut, Informed, Retrying, LoopReads, LiveKey,
     Goto
<1>20. ASSUME Expire
      PROVE  (armed' /\ inst' # None => paused')
             \/ \E q \in Coroutine : Readded(q)
  BY <1>20, Apart DEF Expire, Resume, Dial, Locked, Dialed, Goto, Note
<1>21. ASSUME ExpireRemoved
      PROVE  (armed' /\ inst' # None => paused')
             \/ \E q \in Coroutine : Readded(q)
  BY <1>21, Apart DEF ExpireRemoved
<1>22. ASSUME BringUp
      PROVE  (armed' /\ inst' # None => paused')
             \/ \E q \in Coroutine : Readded(q)
  BY <1>22, Apart DEF BringUp, Dial, Locked, Dialed, Goto, Note
<1>23. ASSUME Retry, \A s \in Request : ~Entering(s)
      PROVE  (armed' /\ inst' # None => paused')
             \/ \E q \in Coroutine : Readded(q)
  BY <1>23, Apart DEF Retry, Dial, Locked, Dialed, Goto, Superseded
<1>24. ASSUME Kick
      PROVE  (armed' /\ inst' # None => paused')
             \/ \E q \in Coroutine : Readded(q)
  BY <1>24, Apart DEF Kick, Released, LoopReads, Goto, Stale, Superseded
<1>25. ASSUME NEW d \in Instance, Drop(d)
      PROVE  (armed' /\ inst' # None => paused')
             \/ \E q \in Coroutine : Readded(q)
  BY <1>25, Apart DEF Drop
<1>26. ASSUME NEW d \in Instance, NEW b \in BOOLEAN, DropTold(d, b)
      PROVE  (armed' /\ inst' # None => paused')
             \/ \E q \in Coroutine : Readded(q)
  BY <1>26, Apart DEF DropTold, LoopReads, Retrying, Note
<1>27. ASSUME UNCHANGED vars
      PROVE  (armed' /\ inst' # None => paused')
             \/ \E q \in Coroutine : Readded(q)
  BY <1>27, Apart DEF vars, links, flags, coros, count
<1> HIDE DEF TypeOK, Goto, links, flags, coros, count
<1> QED
  BY <1>1, <1>2, <1>3, <1>4, <1>5, <1>6, <1>7, <1>8, <1>9, <1>10, <1>11, <1>12,
     <1>13, <1>14, <1>15, <1>16, <1>17, <1>18, <1>19, <1>20, <1>21, <1>22,
     <1>23, <1>24, <1>25, <1>26, <1>27 DEF Next, Entering, Head, ConnectStep,
     CloseStep

LEMMA EnteringGoesFirst ==
  ASSUME TypeOK, OneEntering, NEW x \in Request, pc[x] = "entering",
         op[x] = "carry", [Next]_vars
  PROVE  Remove(x) \/ UNCHANGED vars
<1>1. Entering(x)
  BY DEF Entering
<1>2. CASE Next
  <2>1. PICK r \in Request : Entering(r) /\ Head(r)
    BY <1>1, <1>2 DEF Next
  <2>2. r = x
    BY <2>1 DEF OneEntering, EnteringAlone, Entering
  <2> QED  BY <2>1, <2>2 DEF Head, Reconnect, Pause, BeginSetup
<1> QED  BY <1>2

LEMMA PauseAloneStep ==
  ASSUME TypeOK, Roles, [Next]_vars, PauseInv, Calm, Calm',
         NEW x \in Coroutine, NEW y \in Coroutine
  PROVE  PauseAlone(x, y)'
<1> SUFFICES ASSUME op'[x] = "pause", pc'[x] # "idle", pc'[y] # "idle",
                    op'[y] \in {"reconnect", "setup", "update", "carry"}
             PROVE  FALSE
  BY DEF PauseAlone, Pausing
<1>1. Shaped(x) /\ Shaped(y) /\ op'[x] \in Door /\ op'[y] \in Door
  BY ShapeStep DEF Roles, Door
<1>2. PauseAlone(x, y)
  BY DEF PauseInv
<1>3. CASE GoesOn(x) /\ GoesOn(y)
  BY <1>2, <1>3 DEF GoesOn, PauseAlone, Pausing
<1>4. CASE GoesOn(x) /\ Opens(y)
  <2>1. Busy("pause")
    BY <1>4 DEF GoesOn, Busy
  <2> QED  BY <1>4, <2>1 DEF Opens, Crosses
<1>5. CASE Opens(x)
  <2>1. ~(Busy("reconnect") \/ Busy("setup") \/ Busy("update")
          \/ Busy("carry"))
    BY <1>5 DEF Opens, Crosses
  <2>2. pc[x] = "idle" /\ pc'[x] \in {"entering", "cancelling"} /\ x # y
    BY <1>5 DEF Opens
  <2>3. GoesOn(y)
    BY <2>2, OnlyOneOpens DEF Roles
  <2> QED  BY <2>1, <2>3 DEF GoesOn, Busy
<1> QED  BY <1>1, <1>3, <1>4, <1>5 DEF Shaped

LEMMA CarryAloneStep ==
  ASSUME TypeOK, Removals, Roles, [Next]_vars, PauseInv, Calm,
         NEW x \in Coroutine, NEW y \in Coroutine
  PROVE  CarryAlone(x, y)'
<1> SUFFICES ASSUME op'[x] = "carry", pc'[x] # "idle", pc'[y] # "idle",
                    op'[y] \in {"reconnect", "setup"}
             PROVE  FALSE
  BY DEF CarryAlone, Carrying
<1>1. Shaped(x) /\ Shaped(y) /\ op'[x] \in Door /\ op'[y] \in Door
  BY ShapeStep DEF Roles, Door
<1>2. CarryAlone(x, y)
  BY DEF PauseInv
<1>3. CASE GoesOn(x) /\ GoesOn(y)
  BY <1>2, <1>3 DEF GoesOn, CarryAlone, Carrying
<1>4. CASE GoesOn(x) /\ Opens(y)
  <2>1. op[x] = "carry" /\ pc[x] # "idle" /\ inst # None
          /\ \A r \in Request : ~Entering(r)
    BY <1>4 DEF GoesOn, Opens
  <2>2. pc[x] # "closing"
    BY <2>1 DEF Removals, Removing, Removal
  <2>3. pc[x] = "entering"
    BY <2>1, <2>2 DEF PauseInv, CarryPlace, Carrying
  <2>4. x \in Request
    BY <2>1 DEF Roles, Role, Coroutine
  <2> QED  BY <2>1, <2>3, <2>4 DEF Entering
<1>5. CASE Opens(x)
  <2>1. armed /\ inst # None
    BY <1>5 DEF Opens, Allowed
  <2>2. \A q \in Coroutine : Lone(q)
    BY <2>1 DEF PauseInv, OnlyPaused
  <2>3. pc[x] = "idle" /\ pc'[x] \in {"entering", "cancelling"} /\ x # y
    BY <1>5 DEF Opens
  <2>4. GoesOn(y)
    BY <2>3, OnlyOneOpens DEF Roles
  <2> QED  BY <2>2, <2>4 DEF GoesOn, Lone
<1> QED  BY <1>1, <1>3, <1>4, <1>5 DEF Shaped

LEMMA LoneStep ==
  ASSUME TypeOK, Removals, Roles, [Next]_vars, PauseInv, Calm, Calm', paused',
         inst' # None, NEW y \in Coroutine
  PROVE  Lone(y)'
<1> SUFFICES ASSUME pc'[y] # "idle", op'[y] \in {"reconnect", "setup"}
             PROVE  FALSE
  BY DEF Lone
<1>1. Shaped(y) /\ op'[y] \in Door
  BY ShapeStep DEF Roles, Door
<1>2. CASE Opens(y)
  BY <1>2 DEF Opens, Crosses
<1>3. CASE GoesOn(y)
  <2>1. op[y] \in {"reconnect", "setup"} /\ pc[y] # "idle"
    BY <1>3 DEF GoesOn
  <2>2. ASSUME paused, inst # None PROVE FALSE
    BY <2>1, <2>2 DEF PauseInv, Lone
  <2>3. ASSUME NEW p \in Coroutine, PauseHolds(p) PROVE FALSE
    <3>1. Pausing(p) /\ PauseAlone(p, y)
      BY <2>3 DEF PauseHolds, Closed, Pausing, PauseInv
    <3> QED  BY <2>1, <3>1 DEF PauseAlone
  <2>4. ASSUME NEW p \in Coroutine, Readded(p) PROVE FALSE
    <3>1. Carrying(p) /\ CarryAlone(p, y)
      BY <2>4 DEF Readded, Closed, Carrying, PauseInv
    <3> QED  BY <2>1, <3>1 DEF CarryAlone
  <2> QED  BY <2>2, <2>3, <2>4, PausedBefore
<1> QED  BY <1>1, <1>2, <1>3 DEF Shaped

LEMMA HeldKept ==
  ASSUME TypeOK, Removals, Roles, Attempts, [Next]_vars, inst # None,
         inst' # None, Held, ~deferred, \A q \in Coroutine : Lone(q)
  PROVE  Lifted \/ Remains
BY HeldRemains, NobodyDials

LEMMA KeptStep ==
  ASSUME Basics, TypeOK', [Next]_vars, PauseInv, Calm, Calm'
  PROVE  Kept'
<1> USE DEF Basics
<1> SUFFICES ASSUME paused', inst' # None
             PROVE  Held' /\ ~conn'[inst'] /\ ~deferred'
  BY DEF Kept
<1>1. ASSUME paused, inst' = inst  PROVE  Held' /\ ~conn'[inst'] /\ ~deferred'
  <2>1. Held /\ ~conn[inst] /\ ~deferred /\ \A q \in Coroutine : Lone(q)
    BY <1>1 DEF PauseInv, Kept
  <2>2. Lifted \/ Remains
    BY <1>1, <2>1, HeldKept
  <2> QED  BY <1>1, <2>1, <2>2 DEF Lifted, Remains
<1>2. ASSUME NEW p \in Coroutine, PauseHolds(p)
      PROVE  Held' /\ ~conn'[inst'] /\ ~deferred'
  <2>1. Pausing(p) /\ pc[p] = "closing" /\ inst' = inst
    BY <1>2 DEF PauseHolds, Closed, Pausing
  <2>2. ~deferred /\ drv[p] = inst /\ Held
    BY <2>1 DEF PauseInv, PausePlace
  <2>3. \A q \in Coroutine : Lone(q)
    BY <2>1 DEF PauseInv, PauseAlone, Lone
  <2>4. Busy("pause")
    BY <2>1 DEF Pausing, Busy
  <2>5. Remains
    BY <2>1, <2>2, <2>3, <2>4, HeldKept DEF Lifted
  <2>6. ~conn'[inst]
    BY <1>2, <2>1, <2>2 DEF PauseHolds, Shut, TypeOK
  <2> QED  BY <2>1, <2>5, <2>6 DEF Remains
<1>3. ASSUME NEW p \in Coroutine, Readded(p)
      PROVE  Held' /\ ~conn'[inst'] /\ ~deferred'
  <2>1. /\ op[p] = "carry" /\ mark' /\ ~deferred' /\ inst' = made + 1
             /\ attempt' = attempt
        /\ pc' = [pc EXCEPT ![p] = "idle"]
        /\ conn' = [conn EXCEPT ![drv[p]] = FALSE] /\ pc[p] = "closing"
    BY <1>3 DEF Readded, Shut, Closed, Goto
  <2>2. pc["loop"] = "idle"
    BY <2>1 DEF PauseInv, CarryPlace, Carrying
  <2>3. pc'["loop"] = "idle"
    BY <2>1, <2>2, Apart DEF TypeOK
  <2>4. made + 1 \in Instance /\ made + 1 > made
    BY <2>1, Counted DEF TypeOK
  <2>5. ~conn[made + 1] /\ attempt[made + 1] = None
    BY <2>4 DEF Fresh, NotYetMade
  <2>6. ~conn'[made + 1]
    BY <2>1, <2>4, <2>5 DEF TypeOK
  <2> QED  BY <2>1, <2>3, <2>5, <2>6 DEF Held
<1> QED  BY <1>1, <1>2, <1>3, PausedBefore

LEMMA PausePlaceStep ==
  ASSUME Basics, TypeOK', [Next]_vars, PauseInv, Calm, Calm',
         NEW x \in Coroutine
  PROVE  PausePlace(x)'
<1> USE DEF Basics
<1> SUFFICES ASSUME op'[x] = "pause", pc'[x] # "idle"
             PROVE  /\ ~deferred'
                         /\ pc'[x] \in {"entering", "cancelling", "closing"}
                    /\ inst' # None => drv'[x] = inst'
                         /\ (pc'[x] = "closing" => Held')
  BY DEF PausePlace, Pausing
<1>1. Shaped(x) /\ Role(x)
  BY ShapeStep DEF Roles
<1>2. CASE Opens(x)
  <2>1. ~deferred
    BY <1>2 DEF Opens, Crosses
  <2> QED  BY <1>2, <2>1 DEF Opens
<1>3. CASE GoesOn(x)
  <2>1. Pausing(x) /\ op[x] = "pause"
    BY <1>3 DEF GoesOn, Pausing
  <2>2. /\ ~deferred /\ pc[x] \in {"entering", "cancelling", "closing"}
        /\ inst # None => drv[x] = inst /\ (pc[x] = "closing" => Held)
    BY <2>1 DEF PauseInv, PausePlace
  <2>3. \A q \in Coroutine : PauseAlone(x, q)
    BY DEF PauseInv
  <2>4. ~deferred' /\ (inst' = inst \/ inst' = None)
    BY <2>1, <2>2, <2>3, PauseRegisters DEF PauseAlone
  <2>5. CASE pc'[x] = pc[x] /\ drv'[x] = drv[x]
    <3>1. ASSUME inst' # None, pc[x] = "closing"
          PROVE  Held'
      <4>1. Held /\ ~deferred
        BY <2>2, <2>4, <3>1
      <4>2. \A q \in Coroutine : Lone(q)
        BY <2>1, <2>3 DEF PauseAlone, Lone
      <4>3. Busy("pause")
        BY <2>1 DEF Pausing, Busy
      <4> QED  BY <2>4, <3>1, <4>1, <4>2, <4>3, HeldKept DEF Lifted, Remains
    <3> QED  BY <2>2, <2>4, <2>5, <3>1
  <2>6. CASE Pause(x)
    <3>1. /\ mark' /\ pc' = [pc EXCEPT ![x] = "closing"] /\ inst' = inst
               /\ drv' = drv
          /\ attempt' = [attempt EXCEPT ![drv[x]] = None]
          /\ pc["loop"] # "idle" => ~Calm'
      BY <2>6 DEF Pause, Goto, Closing, Note, Calm
    <3>2. x # "loop" /\ drv[x] \in Instance
      BY <1>1, <2>1 DEF Role, TypeOK
    <3>3. pc'["loop"] = "idle"
      BY <3>1, <3>2 DEF TypeOK
    <3>4. inst # None => attempt'[inst] = None
      BY <2>2, <3>1, <3>2 DEF TypeOK
    <3>5. pc'[x] = "closing"
      BY <3>1 DEF TypeOK
    <3> QED  BY <2>2, <2>4, <3>1, <3>3, <3>4, <3>5 DEF Held
  <2> QED  BY <1>1, <2>1, <2>2, <2>5, <2>6, PauseMoves
<1> QED  BY <1>1, <1>2, <1>3 DEF Shaped, Door

LEMMA CarryPlaceStep ==
  ASSUME Basics, TypeOK', [Next]_vars, PauseInv, Calm, NEW x \in Coroutine
  PROVE  CarryPlace(x)'
<1> USE DEF Basics
<1> SUFFICES ASSUME op'[x] = "carry", pc'[x] # "idle"
             PROVE  /\ pc'["loop"] = "idle"
                         /\ pc'[x] \in {"entering", "closing"}
                    /\ pc'[x] = "entering" => paused'
  BY DEF CarryPlace, Carrying
<1>1. Shaped(x) /\ Role(x)
  BY ShapeStep DEF Roles
<1>2. CASE Opens(x)
  <2>1. armed /\ inst # None
    BY <1>2 DEF Opens, Allowed
  <2>2. paused /\ pc["loop"] = "idle"
    BY <2>1 DEF PauseInv, OnlyPaused, Kept, Held
  <2> QED  BY <1>2, <2>2 DEF Opens
<1>3. CASE GoesOn(x)
  <2>1. Carrying(x) /\ op[x] = "carry"
    BY <1>3 DEF GoesOn, Carrying
  <2>2. pc["loop"] = "idle" /\ pc[x] \in {"entering", "closing"}
    BY <2>1 DEF PauseInv, CarryPlace
  <2>3. CASE pc[x] = "closing"
    <3>1. inst = None
      BY <2>1, <2>3 DEF Removals, Removing, Removal
    <3> QED  BY <1>1, <2>1, <2>2, <2>3, <3>1, CarryMoves
  <2>4. CASE pc[x] = "entering"
    <3>1. x \in Request
      BY <1>1, <2>1 DEF Role, Coroutine
    <3>2. Remove(x) \/ UNCHANGED vars
      BY <2>1, <2>4, <3>1, EnteringGoesFirst
    <3>3. CASE Remove(x)
      <4>1. pc' = [pc EXCEPT ![x] = "closing"]
        BY <3>3 DEF Remove, Goto
      <4> QED  BY <1>1, <2>1, <2>2, <4>1 DEF TypeOK, Role
    <3>4. CASE UNCHANGED vars
      <4>1. pc' = pc /\ paused' = paused
        BY <3>4 DEF vars, coros, flags
      <4> QED  BY <2>1, <2>2, <4>1 DEF PauseInv, CarryPlace
    <3> QED  BY <3>2, <3>3, <3>4
  <2> QED  BY <2>2, <2>3, <2>4
<1> QED  BY <1>1, <1>2, <1>3 DEF Shaped, Door

LEMMA DisarmedStep ==
  ASSUME Basics, TypeOK', [Next]_vars, PauseInv, Calm, NEW x \in Coroutine
  PROVE  Disarmed(x)'
<1> USE DEF Basics
<1> SUFFICES ASSUME op'[x] \in {"update", "carry"}, pc'[x] = "closing", armed'
             PROVE  FALSE
  BY DEF Disarmed
<1>1. op[x] = op'[x] /\ pc[x] = "closing"
  BY ClosesFrom DEF Roles, Removal
<1>2. ~armed
  BY <1>1 DEF PauseInv, Disarmed
<1>3. ASSUME NEW p \in Coroutine, PauseHolds(p)  PROVE  FALSE
  <2>1. Pausing(p) /\ PauseAlone(p, x)
    BY <1>3 DEF PauseHolds, Closed, Pausing, PauseInv
  <2> QED  BY <1>1, <2>1 DEF PauseAlone
<1>4. ASSUME NEW p \in Coroutine, Readded(p)  PROVE  FALSE
  <2>1. Removing(p) /\ Removing(x) /\ pc' = [pc EXCEPT ![p] = "idle"]
    BY <1>1, <1>4 DEF Readded, Closed, Goto, Removing, Removal
  <2>2. p = x
    BY <2>1 DEF Removals
  <2> QED  BY <2>1, <2>2 DEF TypeOK
<1> QED  BY <1>2, <1>3, <1>4, ArmedBefore

LEMMA OnlyPausedStep ==
  ASSUME Basics, TypeOK', [Next]_vars, PauseInv, Calm
  PROVE  OnlyPaused'
<1> USE DEF Basics
<1>1. ASSUME NEW p \in Coroutine, Readded(p)  PROVE  OnlyPaused'
  <2>1. op[p] \in {"update", "carry"} /\ pc[p] = "closing"
    BY <1>1 DEF Readded, Closed
  <2>2. ~armed
    BY <2>1 DEF PauseInv, Disarmed
  <2> QED  BY <1>1, <2>1, <2>2 DEF Readded, CarriedArmed, OnlyPaused
<1>2. armed /\ inst # None => paused
  BY DEF PauseInv, OnlyPaused
<1> QED  BY <1>1, <1>2, Backed DEF OnlyPaused

LEMMA PauseInvStep ==
  ASSUME Basics, TypeOK', [Next]_vars, PauseInv
  PROVE  PauseInv'
<1> SUFFICES ASSUME Calm'
             PROVE  PauseInv'
  BY DEF PauseInv
<1>1. Calm
  BY CalmKept DEF Basics
<1>2. \A p, q \in Coroutine : PauseAlone(p, q)' /\ CarryAlone(p, q)'
  BY <1>1, PauseAloneStep, CarryAloneStep DEF Basics
<1>3. \A p \in Coroutine : PausePlace(p)' /\ CarryPlace(p)' /\ Disarmed(p)'
  BY <1>1, PausePlaceStep, CarryPlaceStep, DisarmedStep
<1>4. paused' /\ inst' # None => \A q \in Coroutine : Lone(q)'
  BY <1>1, LoneStep DEF Basics
<1>5. Kept' /\ OnlyPaused'
  BY <1>1, KeptStep, OnlyPausedStep
<1> QED  BY <1>2, <1>3, <1>4, <1>5 DEF PauseInv

-----------------------------------------------------------------------------
(* Connects and closes.                                                    *)

(* A dial holds the lock of its instance. *)
HoldsLock(p) == pc[p] \in {"dialing", "tail"} => lock[drv[p]] = p
LockHeld     == \A p \in Coroutine : HoldsLock(p)

(* The places of the loop, of a disconnect and of a pause. *)
Station(p) ==
    /\ p = "loop" => pc[p] \in {"idle", "waiting", "queued", "dialing", "tail",
                                "settling"}
    /\ pc[p] = "closing" => op[p] \in {"reconnect", "pause", "setup", "update",
                                       "carry", "remove", "bring up"}
    /\ op[p] = "pause"
         => pc[p] \in {"idle", "entering", "cancelling", "closing"}
Stations == \A p \in Coroutine : Station(p)

(* The worker closes what is not the device's any more. *)
ClosesOld(p)    == p = "worker" /\ pc[p] = "closing" => drv[p] # inst
WorkerClosesOld == \A p \in Coroutine : ClosesOld(p)

LEMMA OverTop == ASSUME NEW m \in Nat, NEW n \in Nat, n <= m PROVE n # m + 1
  OBVIOUS

LEMMA LockHeldStep ==
  ASSUME TypeOK, LockHeld, [Next]_vars
  PROVE  LockHeld'
<1> SUFFICES ASSUME NEW x \in Coroutine, HoldsLock(x)
             PROVE  HoldsLock(x)'
  BY DEF LockHeld
<1> USE DEF TypeOK, Goto, links, flags, coros, count, HoldsLock, Free
<1>1. ASSUME NEW r \in Request, NEW o \in Door, Press(r, o),
             \A s \in Request : ~Entering(s)
      PROVE  HoldsLock(x)'
  BY <1>1, Apart DEF Press, Released, Stale, Note
<1>2. ASSUME NEW r \in Request, Reconnect(r)  PROVE  HoldsLock(x)'
  BY <1>2, Apart DEF Reconnect, Past, Closing, Goto
<1>3. ASSUME NEW r \in Request, Pause(r)  PROVE  HoldsLock(x)'
  BY <1>3, Apart DEF Pause, Past, Closing, Goto, Note
<1>4. ASSUME NEW r \in Request, BeginSetup(r)  PROVE  HoldsLock(x)'
  BY <1>4, Apart DEF BeginSetup, Past, Goto
<1>5. ASSUME NEW r \in Request, Remove(r)  PROVE  HoldsLock(x)'
  BY <1>5, Apart DEF Remove, Past, Closing, Goto
<1>6. ASSUME NEW r \in Request, PressResume(r)  PROVE  HoldsLock(x)'
  BY <1>6, Apart DEF PressResume, Resume, Dial, Locked, Dialed, Goto, Note
<1>7. ASSUME NEW r \in Request, EndSetup(r)  PROVE  HoldsLock(x)'
  BY <1>7, Apart DEF EndSetup, Done, Discards, LoopReads, Goto, Retrying
<1>8. ASSUME NEW r \in Request, SetupRedials(r)  PROVE  HoldsLock(x)'
  BY <1>8, Apart DEF SetupRedials, Closing, Goto
<1>9. ASSUME NEW p \in Coroutine, Enter(p)  PROVE  HoldsLock(x)'
  BY <1>9, Apart DEF Enter, Current, Locked, Goto
<1>10. ASSUME NEW p \in Coroutine, Declare(p)  PROVE  HoldsLock(x)'
  BY <1>10, Apart DEF Declare, Current, Goto
<1>11. ASSUME NEW p \in Coroutine, Connected(p)  PROVE  HoldsLock(x)'
  BY <1>11, Apart DEF Connected, Current, Stale, Superseded, DownAgain,
     Released, LoopReads, Again, Goto
<1>12. ASSUME NEW p \in Coroutine, Settled(p)  PROVE  HoldsLock(x)'
  BY <1>12, Apart DEF Settled, DownAgain, Done, Discards, LoopReads, Again,
     Goto, Retrying
<1>13. ASSUME NEW p \in Coroutine, Unwind(p)  PROVE  HoldsLock(x)'
  BY <1>13, Apart DEF Unwind, Ended, Current, Stale, Superseded, Released,
     Done, Discards, LoopReads, Goto, Retrying
<1>14. ASSUME NEW p \in Coroutine, NEW b \in BOOLEAN, ConnectFails(p, b)
      PROVE  HoldsLock(x)'
  BY <1>14, Apart DEF ConnectFails, Current, Stale, Superseded, Released, Done,
     Discards, LoopReads, Again, Goto, Retrying
<1>15. ASSUME NEW p \in Coroutine, Redial(p)  PROVE  HoldsLock(x)'
  BY <1>15, Apart DEF Redial, Superseded, Shut, Closed, Dialed, Informed,
     Retrying, LoopReads, Goto, Note
<1>16. ASSUME NEW p \in Coroutine, PauseHolds(p)  PROVE  HoldsLock(x)'
  BY <1>16, Apart DEF PauseHolds, Superseded, Shut, Closed, Informed, Retrying,
     LoopReads, Goto, Note
<1>17. ASSUME NEW p \in Coroutine, Removed(p)  PROVE  HoldsLock(x)'
  BY <1>17, Apart DEF Removed, Shut, Closed, Goto
<1>18. ASSUME NEW p \in Coroutine, Readded(p)  PROVE  HoldsLock(x)'
  BY <1>18, Apart DEF Readded, Shut, Closed, CarriedArmed, Goto
<1>19. ASSUME NEW p \in Coroutine, Discarded(p)  PROVE  HoldsLock(x)'
  BY <1>19, Apart DEF Discarded, Shut, Informed, Retrying, LoopReads, LiveKey,
     Goto
<1>20. ASSUME Expire  PROVE  HoldsLock(x)'
  BY <1>20, Apart DEF Expire, Resume, Dial, Locked, Dialed, Goto, Note
<1>21. ASSUME ExpireRemoved  PROVE  HoldsLock(x)'
  BY <1>21, Apart DEF ExpireRemoved
<1>22. ASSUME BringUp  PROVE  HoldsLock(x)'
  BY <1>22, Apart DEF BringUp, Dial, Locked, Dialed, Goto, Note
<1>23. ASSUME Retry, \A s \in Request : ~Entering(s)  PROVE  HoldsLock(x)'
  BY <1>23, Apart DEF Retry, Dial, Locked, Dialed, Goto, Superseded
<1>24. ASSUME Kick  PROVE  HoldsLock(x)'
  BY <1>24, Apart DEF Kick, Released, LoopReads, Goto, Stale, Superseded
<1>25. ASSUME NEW d \in Instance, Drop(d)  PROVE  HoldsLock(x)'
  BY <1>25, Apart DEF Drop
<1>26. ASSUME NEW d \in Instance, NEW b \in BOOLEAN, DropTold(d, b)
      PROVE  HoldsLock(x)'
  BY <1>26, Apart DEF DropTold, LoopReads, Retrying, Note
<1>27. ASSUME UNCHANGED vars  PROVE  HoldsLock(x)'
  BY <1>27, Apart DEF vars, links, flags, coros, count
<1> HIDE DEF TypeOK, Goto, links, flags, coros, count, HoldsLock, Free
<1> QED
  BY <1>1, <1>2, <1>3, <1>4, <1>5, <1>6, <1>7, <1>8, <1>9, <1>10, <1>11, <1>12,
     <1>13, <1>14, <1>15, <1>16, <1>17, <1>18, <1>19, <1>20, <1>21, <1>22,
     <1>23, <1>24, <1>25, <1>26, <1>27 DEF Next, Entering, Head, ConnectStep,
     CloseStep

LEMMA StationsStep ==
  ASSUME TypeOK, Roles, Stations, [Next]_vars
  PROVE  Stations'
<1> SUFFICES ASSUME NEW x \in Coroutine, Station(x), Role(x)
             PROVE  Station(x)'
  BY DEF Stations, Roles
<1> USE DEF TypeOK, Goto, links, flags, coros, count, Station, Role
<1>1. ASSUME NEW r \in Request, NEW o \in Door, Press(r, o),
             \A s \in Request : ~Entering(s)
      PROVE  Station(x)'
  BY <1>1, Apart DEF Press, Released, Stale, Note
<1>2. ASSUME NEW r \in Request, Reconnect(r)  PROVE  Station(x)'
  <2>1. r # "loop" /\ op[r] = "reconnect" /\ op' = op
          /\ pc' = [pc EXCEPT ![r] = "closing"]
    BY <1>2, Apart DEF Reconnect, Goto
  <2>2. CASE x = r
    BY <2>1, <2>2
  <2>3. CASE x # r
    BY <2>1, <2>3
  <2> QED  BY <2>2, <2>3
<1>3. ASSUME NEW r \in Request, Pause(r)  PROVE  Station(x)'
  <2>1. r # "loop" /\ op[r] = "pause" /\ op' = op
          /\ pc' = [pc EXCEPT ![r] = "closing"]
    BY <1>3, Apart DEF Pause, Goto
  <2>2. CASE x = r
    BY <2>1, <2>2
  <2>3. CASE x # r
    BY <2>1, <2>3
  <2> QED  BY <2>2, <2>3
<1>4. ASSUME NEW r \in Request, BeginSetup(r)  PROVE  Station(x)'
  BY <1>4, Apart DEF BeginSetup, Past, Goto
<1>5. ASSUME NEW r \in Request, Remove(r)  PROVE  Station(x)'
  BY <1>5, Apart DEF Remove, Past, Closing, Goto
<1>6. ASSUME NEW r \in Request, PressResume(r)  PROVE  Station(x)'
  BY <1>6, Apart DEF PressResume, Resume, Dial, Locked, Dialed, Goto, Note
<1>7. ASSUME NEW r \in Request, EndSetup(r)  PROVE  Station(x)'
  BY <1>7, Apart DEF EndSetup, Done, Discards, LoopReads, Goto, Retrying
<1>8. ASSUME NEW r \in Request, SetupRedials(r)  PROVE  Station(x)'
  BY <1>8, Apart DEF SetupRedials, Closing, Goto
<1>9. ASSUME NEW p \in Coroutine, Enter(p)  PROVE  Station(x)'
  BY <1>9, Apart DEF Enter, Current, Locked, Goto
<1>10. ASSUME NEW p \in Coroutine, Declare(p)  PROVE  Station(x)'
  BY <1>10, Apart DEF Declare, Current, Goto
<1>11. ASSUME NEW p \in Coroutine, Connected(p)  PROVE  Station(x)'
  BY <1>11, Apart DEF Connected, Current, Stale, Superseded, DownAgain,
     Released, LoopReads, Again, Goto
<1>12. ASSUME NEW p \in Coroutine, Settled(p)  PROVE  Station(x)'
  BY <1>12, Apart DEF Settled, DownAgain, Done, Discards, LoopReads, Again,
     Goto, Retrying
<1>13. ASSUME NEW p \in Coroutine, Unwind(p)  PROVE  Station(x)'
  BY <1>13, Apart DEF Unwind, Ended, Current, Stale, Superseded, Released,
     Done, Discards, LoopReads, Goto, Retrying
<1>14. ASSUME NEW p \in Coroutine, NEW b \in BOOLEAN, ConnectFails(p, b)
      PROVE  Station(x)'
  BY <1>14, Apart DEF ConnectFails, Current, Stale, Superseded, Released, Done,
     Discards, LoopReads, Again, Goto, Retrying
<1>15. ASSUME NEW p \in Coroutine, Redial(p)  PROVE  Station(x)'
  BY <1>15, Apart DEF Redial, Superseded, Shut, Closed, Dialed, Informed,
     Retrying, LoopReads, Goto, Note
<1>16. ASSUME NEW p \in Coroutine, PauseHolds(p)  PROVE  Station(x)'
  BY <1>16, Apart DEF PauseHolds, Superseded, Shut, Closed, Informed, Retrying,
     LoopReads, Goto, Note
<1>17. ASSUME NEW p \in Coroutine, Removed(p)  PROVE  Station(x)'
  BY <1>17, Apart DEF Removed, Shut, Closed, Goto
<1>18. ASSUME NEW p \in Coroutine, Readded(p)  PROVE  Station(x)'
  BY <1>18, Apart DEF Readded, Shut, Closed, CarriedArmed, Goto
<1>19. ASSUME NEW p \in Coroutine, Discarded(p)  PROVE  Station(x)'
  BY <1>19, Apart DEF Discarded, Shut, Informed, Retrying, LoopReads, LiveKey,
     Goto
<1>20. ASSUME Expire  PROVE  Station(x)'
  BY <1>20, Apart DEF Expire, Resume, Dial, Locked, Dialed, Goto, Note
<1>21. ASSUME ExpireRemoved  PROVE  Station(x)'
  BY <1>21, Apart DEF ExpireRemoved
<1>22. ASSUME BringUp  PROVE  Station(x)'
  BY <1>22, Apart DEF BringUp, Dial, Locked, Dialed, Goto, Note
<1>23. ASSUME Retry, \A s \in Request : ~Entering(s)  PROVE  Station(x)'
  BY <1>23, Apart DEF Retry, Dial, Locked, Dialed, Goto, Superseded
<1>24. ASSUME Kick  PROVE  Station(x)'
  BY <1>24, Apart DEF Kick, Released, LoopReads, Goto, Stale, Superseded
<1>25. ASSUME NEW d \in Instance, Drop(d)  PROVE  Station(x)'
  BY <1>25, Apart DEF Drop
<1>26. ASSUME NEW d \in Instance, NEW b \in BOOLEAN, DropTold(d, b)
      PROVE  Station(x)'
  BY <1>26, Apart DEF DropTold, LoopReads, Retrying, Note
<1>27. ASSUME UNCHANGED vars  PROVE  Station(x)'
  BY <1>27, Apart DEF vars, links, flags, coros, count
<1> HIDE DEF TypeOK, Goto, links, flags, coros, count, Station, Role
<1> QED
  BY <1>1, <1>2, <1>3, <1>4, <1>5, <1>6, <1>7, <1>8, <1>9, <1>10, <1>11, <1>12,
     <1>13, <1>14, <1>15, <1>16, <1>17, <1>18, <1>19, <1>20, <1>21, <1>22,
     <1>23, <1>24, <1>25, <1>26, <1>27 DEF Next, Entering, Head, ConnectStep,
     CloseStep

LEMMA WorkerClosesOldStep ==
  ASSUME TypeOK, Removals, Roles, WorkerClosesOld, DriversMade, InstanceMade,
         [Next]_vars
  PROVE  WorkerClosesOld'
<1> SUFFICES ASSUME NEW x \in Coroutine, ClosesOld(x), Role(x), DriverMade(x)
             PROVE  ClosesOld(x)'
  BY DEF WorkerClosesOld, Roles, DriversMade
<1> USE DEF TypeOK, Goto, links, flags, coros, count, ClosesOld, Role,
     DriverMade
<1>1. ASSUME NEW r \in Request, NEW o \in Door, Press(r, o),
             \A s \in Request : ~Entering(s)
      PROVE  ClosesOld(x)'
  BY <1>1, Apart DEF Press, Released, Stale, Note
<1>2. ASSUME NEW r \in Request, Reconnect(r)  PROVE  ClosesOld(x)'
  BY <1>2, Apart DEF Reconnect, Past, Closing, Goto
<1>3. ASSUME NEW r \in Request, Pause(r)  PROVE  ClosesOld(x)'
  BY <1>3, Apart DEF Pause, Past, Closing, Goto, Note
<1>4. ASSUME NEW r \in Request, BeginSetup(r)  PROVE  ClosesOld(x)'
  BY <1>4, Apart DEF BeginSetup, Past, Goto
<1>5. ASSUME NEW r \in Request, Remove(r)  PROVE  ClosesOld(x)'
  BY <1>5, Apart DEF Remove, Past, Closing, Goto
<1>6. ASSUME NEW r \in Request, PressResume(r)  PROVE  ClosesOld(x)'
  BY <1>6, Apart DEF PressResume, Resume, Dial, Locked, Dialed, Goto, Note
<1>7. ASSUME NEW r \in Request, EndSetup(r)  PROVE  ClosesOld(x)'
  BY <1>7, Apart DEF EndSetup, Done, Discards, LoopReads, Goto, Retrying
<1>8. ASSUME NEW r \in Request, SetupRedials(r)  PROVE  ClosesOld(x)'
  BY <1>8, Apart DEF SetupRedials, Closing, Goto
<1>9. ASSUME NEW p \in Coroutine, Enter(p)  PROVE  ClosesOld(x)'
  BY <1>9, Apart DEF Enter, Current, Locked, Goto
<1>10. ASSUME NEW p \in Coroutine, Declare(p)  PROVE  ClosesOld(x)'
  BY <1>10, Apart DEF Declare, Current, Goto
<1>11. ASSUME NEW p \in Coroutine, Connected(p)  PROVE  ClosesOld(x)'
  BY <1>11, Apart DEF Connected, Current, Stale, Superseded, DownAgain,
     Released, LoopReads, Again, Goto
<1>12. ASSUME NEW p \in Coroutine, Settled(p)  PROVE  ClosesOld(x)'
  BY <1>12, Apart DEF Settled, DownAgain, Done, Discards, LoopReads, Again,
     Goto, Retrying
<1>13. ASSUME NEW p \in Coroutine, Unwind(p)  PROVE  ClosesOld(x)'
  BY <1>13, Apart DEF Unwind, Ended, Current, Stale, Superseded, Released,
     Done, Discards, LoopReads, Goto, Retrying
<1>14. ASSUME NEW p \in Coroutine, NEW b \in BOOLEAN, ConnectFails(p, b)
      PROVE  ClosesOld(x)'
  BY <1>14, Apart DEF ConnectFails, Current, Stale, Superseded, Released, Done,
     Discards, LoopReads, Again, Goto, Retrying
<1>15. ASSUME NEW p \in Coroutine, Redial(p)  PROVE  ClosesOld(x)'
  BY <1>15, Apart DEF Redial, Superseded, Shut, Closed, Dialed, Informed,
     Retrying, LoopReads, Goto, Note
<1>16. ASSUME NEW p \in Coroutine, PauseHolds(p)  PROVE  ClosesOld(x)'
  BY <1>16, Apart DEF PauseHolds, Superseded, Shut, Closed, Informed, Retrying,
     LoopReads, Goto, Note
<1>17. ASSUME NEW p \in Coroutine, Removed(p)  PROVE  ClosesOld(x)'
  BY <1>17, Apart DEF Removed, Shut, Closed, Goto
<1>18. ASSUME NEW p \in Coroutine, Readded(p)  PROVE  ClosesOld(x)'
  <2>1. /\ pc' = [pc EXCEPT ![p] = "idle"] /\ drv' = drv /\ inst' = made + 1
    BY <1>18 DEF Readded
  <2>2. made \in Nat /\ drv[x] \in Nat /\ drv[x] <= made
    BY Counted
  <2>3. drv[x] # made + 1
    BY <2>2, OverTop
  <2>4. drv'[x] # inst'
    BY <2>1, <2>3
  <2> QED  BY <2>1, <2>4
<1>19. ASSUME NEW p \in Coroutine, Discarded(p)  PROVE  ClosesOld(x)'
  BY <1>19, Apart DEF Discarded, Shut, Informed, Retrying, LoopReads, LiveKey,
     Goto
<1>20. ASSUME Expire  PROVE  ClosesOld(x)'
  BY <1>20, Apart DEF Expire, Resume, Dial, Locked, Dialed, Goto, Note
<1>21. ASSUME ExpireRemoved  PROVE  ClosesOld(x)'
  BY <1>21, Apart DEF ExpireRemoved
<1>22. ASSUME BringUp  PROVE  ClosesOld(x)'
  BY <1>22, Apart DEF BringUp, Dial, Locked, Dialed, Goto, Note
<1>23. ASSUME Retry, \A s \in Request : ~Entering(s)  PROVE  ClosesOld(x)'
  BY <1>23, Apart DEF Retry, Dial, Locked, Dialed, Goto, Superseded
<1>24. ASSUME Kick  PROVE  ClosesOld(x)'
  BY <1>24, Apart DEF Kick, Released, LoopReads, Goto, Stale, Superseded
<1>25. ASSUME NEW d \in Instance, Drop(d)  PROVE  ClosesOld(x)'
  BY <1>25, Apart DEF Drop
<1>26. ASSUME NEW d \in Instance, NEW b \in BOOLEAN, DropTold(d, b)
      PROVE  ClosesOld(x)'
  BY <1>26, Apart DEF DropTold, LoopReads, Retrying, Note
<1>27. ASSUME UNCHANGED vars  PROVE  ClosesOld(x)'
  BY <1>27, Apart DEF vars, links, flags, coros, count
<1> HIDE DEF TypeOK, Goto, links, flags, coros, count, ClosesOld, Role,
     DriverMade
<1> QED
  BY <1>1, <1>2, <1>3, <1>4, <1>5, <1>6, <1>7, <1>8, <1>9, <1>10, <1>11, <1>12,
     <1>13, <1>14, <1>15, <1>16, <1>17, <1>18, <1>19, <1>20, <1>21, <1>22,
     <1>23, <1>24, <1>25, <1>26, <1>27 DEF Next, Entering, Head, ConnectStep,
     CloseStep

-----------------------------------------------------------------------------
(* CardTruthful.  With none of the races that spoil it, a connection is    *)
(* always shown; and where the card shows one that is gone, or that a dial *)
(* which was ended (Loose) is about to close, a resume is dialing or a     *)
(* disconnect of the device under way, either of which sets the key.       *)

Clean == notes \cap {"redialed", "superseded", "late"} = {}

OwnDriver(p) == inst # None /\ Clean => (attempt[drv[p]] = p => drv[p] = inst)

Dialing(p) == attempt[inst] = p /\ pc[p] \in {"queued", "dialing"}
Mends(p)   == \/ Dialing(p) /\ op[p] = "resume"
              \/ pc[p] = "closing" /\ drv[p] = inst
Mended     == \E p \in Coroutine : Mends(p)
Loose(p)   ==
    pc[p] \in {"dialing", "tail"} /\ attempt[drv[p]] # p /\ drv[p] = inst
Shown      == inst # None /\ Clean => (conn[inst] => key)
Resumed(p) == key /\ inst # None => (Dialing(p) => op[p] = "resume")

CardInv == Clean =>
    /\ inst # None => (conn[inst] => key)
    /\ inst # None /\ key /\ ~conn[inst] => Mended
    /\ \A p \in Coroutine :
          inst # None /\ key => /\ Dialing(p) => op[p] = "resume"
                                /\ Loose(p) => Mended

LEMMA CleanKept ==
  ASSUME TypeOK, [Next]_vars
  PROVE  Clean' => Clean
  BY NotesGrow DEF Clean

LEMMA OwnAttempt ==
  ASSUME TypeOK, Left, NEW p \in Coroutine
  PROVE  OwnDriver(p)
BY Apart DEF OwnDriver, Left, Clean, TypeOK

LEMMA ShownStep ==
  ASSUME TypeOK, Removals, Roles, Left, Fresh, WorkerClosesOld, Shown, Clean,
         Clean', [Next]_vars
  PROVE  Shown'
<1> USE DEF TypeOK, Goto, links, flags, coros, count, Shown, Clean
<1>1. ASSUME NEW r \in Request, NEW o \in Door, Press(r, o),
             \A s \in Request : ~Entering(s)
      PROVE  Shown'
  <2>1. OwnDriver(r) /\ drv[r] \in Instance /\ Role(r) /\ ClosesOld(r)
    BY OwnAttempt, Apart DEF Roles, WorkerClosesOld, TypeOK
  <2> QED
    BY <1>1, <2>1, Apart DEF Press, Released, Stale, Note
<1>2. ASSUME NEW r \in Request, Reconnect(r)  PROVE  Shown'
  <2>1. OwnDriver(r) /\ drv[r] \in Instance /\ Role(r) /\ ClosesOld(r)
    BY OwnAttempt, Apart DEF Roles, WorkerClosesOld, TypeOK
  <2> QED
    BY <1>2, <2>1, Apart DEF Reconnect, Past, Closing, Goto
<1>3. ASSUME NEW r \in Request, Pause(r)  PROVE  Shown'
  <2>1. OwnDriver(r) /\ drv[r] \in Instance /\ Role(r) /\ ClosesOld(r)
    BY OwnAttempt, Apart DEF Roles, WorkerClosesOld, TypeOK
  <2> QED
    BY <1>3, <2>1, Apart DEF Pause, Past, Closing, Goto, Note
<1>4. ASSUME NEW r \in Request, BeginSetup(r)  PROVE  Shown'
  <2>1. OwnDriver(r) /\ drv[r] \in Instance /\ Role(r) /\ ClosesOld(r)
    BY OwnAttempt, Apart DEF Roles, WorkerClosesOld, TypeOK
  <2> QED
    BY <1>4, <2>1, Apart DEF BeginSetup, Past, Goto
<1>5. ASSUME NEW r \in Request, Remove(r)  PROVE  Shown'
  <2>1. OwnDriver(r) /\ drv[r] \in Instance /\ Role(r) /\ ClosesOld(r)
    BY OwnAttempt, Apart DEF Roles, WorkerClosesOld, TypeOK
  <2> QED
    BY <1>5, <2>1, Apart DEF Remove, Past, Closing, Goto
<1>6. ASSUME NEW r \in Request, PressResume(r)  PROVE  Shown'
  <2>1. OwnDriver(r) /\ drv[r] \in Instance /\ Role(r) /\ ClosesOld(r)
    BY OwnAttempt, Apart DEF Roles, WorkerClosesOld, TypeOK
  <2> QED
    BY <1>6, <2>1, Apart DEF PressResume, Resume, Dial, Locked, Dialed, Goto,
       Note
<1>7. ASSUME NEW r \in Request, EndSetup(r)  PROVE  Shown'
  <2>1. OwnDriver(r) /\ drv[r] \in Instance /\ Role(r) /\ ClosesOld(r)
    BY OwnAttempt, Apart DEF Roles, WorkerClosesOld, TypeOK
  <2> QED
    BY <1>7, <2>1, Apart DEF EndSetup, Done, Discards, LoopReads, Goto,
       Retrying
<1>8. ASSUME NEW r \in Request, SetupRedials(r)  PROVE  Shown'
  <2>1. OwnDriver(r) /\ drv[r] \in Instance /\ Role(r) /\ ClosesOld(r)
    BY OwnAttempt, Apart DEF Roles, WorkerClosesOld, TypeOK
  <2> QED
    BY <1>8, <2>1, Apart DEF SetupRedials, Closing, Goto
<1>9. ASSUME NEW p \in Coroutine, Enter(p)  PROVE  Shown'
  <2>1. OwnDriver(p) /\ drv[p] \in Instance /\ Role(p) /\ ClosesOld(p)
    BY OwnAttempt, Apart DEF Roles, WorkerClosesOld, TypeOK
  <2> QED
    BY <1>9, <2>1, Apart DEF Enter, Current, Locked, Goto, OwnDriver
<1>10. ASSUME NEW p \in Coroutine, Declare(p)  PROVE  Shown'
  <2>1. OwnDriver(p) /\ drv[p] \in Instance /\ Role(p) /\ ClosesOld(p)
    BY OwnAttempt, Apart DEF Roles, WorkerClosesOld, TypeOK
  <2> QED
    BY <1>10, <2>1, Apart DEF Declare, Current, Goto, OwnDriver
<1>11. ASSUME NEW p \in Coroutine, Connected(p)  PROVE  Shown'
  <2>1. OwnDriver(p) /\ drv[p] \in Instance /\ Role(p) /\ ClosesOld(p)
    BY OwnAttempt, Apart DEF Roles, WorkerClosesOld, TypeOK
  <2> QED
    BY <1>11, <2>1, Apart DEF Connected, Current, Stale, Superseded, DownAgain,
       Released, LoopReads, Again, Goto
<1>12. ASSUME NEW p \in Coroutine, Settled(p)  PROVE  Shown'
  <2>1. OwnDriver(p) /\ drv[p] \in Instance /\ Role(p) /\ ClosesOld(p)
    BY OwnAttempt, Apart DEF Roles, WorkerClosesOld, TypeOK
  <2> QED
    BY <1>12, <2>1, Apart DEF Settled, DownAgain, Done, Discards, LoopReads,
       Again, Goto, Retrying
<1>13. ASSUME NEW p \in Coroutine, Unwind(p)  PROVE  Shown'
  <2>1. OwnDriver(p) /\ drv[p] \in Instance /\ Role(p) /\ ClosesOld(p)
    BY OwnAttempt, Apart DEF Roles, WorkerClosesOld, TypeOK
  <2> QED
    BY <1>13, <2>1, Apart DEF Unwind, Ended, Current, Stale, Superseded,
       Released, Done, Discards, LoopReads, Goto, Retrying
<1>14. ASSUME NEW p \in Coroutine, NEW b \in BOOLEAN, ConnectFails(p, b)
      PROVE  Shown'
  <2>1. OwnDriver(p) /\ drv[p] \in Instance /\ Role(p) /\ ClosesOld(p)
    BY OwnAttempt, Apart DEF Roles, WorkerClosesOld, TypeOK
  <2> QED
    BY <1>14, <2>1, Apart DEF ConnectFails, Current, Stale, Superseded,
       Released, Done, Discards, LoopReads, Again, Goto, Retrying, OwnDriver
<1>15. ASSUME NEW p \in Coroutine, Redial(p)  PROVE  Shown'
  <2>1. OwnDriver(p) /\ drv[p] \in Instance /\ Role(p) /\ ClosesOld(p)
    BY OwnAttempt, Apart DEF Roles, WorkerClosesOld, TypeOK
  <2> QED
    BY <1>15, <2>1, Apart DEF Redial, Superseded, Shut, Closed, Dialed,
       Informed, Retrying, LoopReads, Goto, Note
<1>16. ASSUME NEW p \in Coroutine, PauseHolds(p)  PROVE  Shown'
  <2>1. OwnDriver(p) /\ drv[p] \in Instance /\ Role(p) /\ ClosesOld(p)
    BY OwnAttempt, Apart DEF Roles, WorkerClosesOld, TypeOK
  <2> QED
    BY <1>16, <2>1, Apart DEF PauseHolds, Superseded, Shut, Closed, Informed,
       Retrying, LoopReads, Goto, Note
<1>17. ASSUME NEW p \in Coroutine, Removed(p)  PROVE  Shown'
  <2>1. OwnDriver(p) /\ drv[p] \in Instance /\ Role(p) /\ ClosesOld(p)
    BY OwnAttempt, Apart DEF Roles, WorkerClosesOld, TypeOK
  <2> QED
    BY <1>17, <2>1, Apart DEF Removed, Shut, Closed, Goto, Removals, Removing,
       Removal
<1>18. ASSUME NEW p \in Coroutine, Readded(p)  PROVE  Shown'
  <2>1. inst' = made + 1 /\ conn' = [conn EXCEPT ![drv[p]] = FALSE]
          /\ pc[p] = "closing" /\ op[p] \in Removal
    BY <1>18 DEF Readded, Shut, Closed, Removal
  <2>2. inst' \in Instance /\ inst' > made
    <3>1. made < MaxInstances
      BY <1>18 DEF Readded, Closed, Removals, Removing, Removal
    <3>2. made + 1 \in Instance
      BY <3>1, NextInstance
    <3> QED  BY <2>1, <3>2, Counted
  <2>3. ~conn[inst']
    BY <2>2 DEF Fresh, NotYetMade
  <2> QED  BY <2>1, <2>2, <2>3
<1>19. ASSUME NEW p \in Coroutine, Discarded(p)  PROVE  Shown'
  <2>1. OwnDriver(p) /\ drv[p] \in Instance /\ Role(p) /\ ClosesOld(p)
    BY OwnAttempt, Apart DEF Roles, WorkerClosesOld, TypeOK
  <2> QED
    BY <1>19, <2>1, Apart DEF Discarded, Shut, Informed, Retrying, LoopReads,
       LiveKey, Goto, ClosesOld, Role
<1>20. ASSUME Expire  PROVE  Shown'
  BY <1>20, Apart DEF Expire, Resume, Dial, Locked, Dialed, Goto, Note
<1>21. ASSUME ExpireRemoved  PROVE  Shown'
  BY <1>21, Apart DEF ExpireRemoved
<1>22. ASSUME BringUp  PROVE  Shown'
  BY <1>22, Apart DEF BringUp, Dial, Locked, Dialed, Goto, Note
<1>23. ASSUME Retry, \A s \in Request : ~Entering(s)  PROVE  Shown'
  BY <1>23, Apart DEF Retry, Dial, Locked, Dialed, Goto, Superseded
<1>24. ASSUME Kick  PROVE  Shown'
  BY <1>24, Apart DEF Kick, Released, LoopReads, Goto, Stale, Superseded
<1>25. ASSUME NEW d \in Instance, Drop(d)  PROVE  Shown'
  <2>1. conn[d] /\ conn' = [conn EXCEPT ![d] = FALSE] /\ inst' = inst
    BY <1>25 DEF Drop
  <2>2. inst # None => d = inst
    BY <2>1 DEF Left, ToBeClosed, Removals
  <2> QED  BY <2>1, <2>2, Apart
<1>26. ASSUME NEW d \in Instance, NEW b \in BOOLEAN, DropTold(d, b)
      PROVE  Shown'
  BY <1>26, Apart DEF DropTold, LoopReads, Retrying, Note
<1>27. ASSUME UNCHANGED vars  PROVE  Shown'
  BY <1>27, Apart DEF vars, links, flags, coros, count
<1> HIDE DEF TypeOK, Goto, links, flags, coros, count, Shown, Clean
<1> QED
  BY <1>1, <1>2, <1>3, <1>4, <1>5, <1>6, <1>7, <1>8, <1>9, <1>10, <1>11, <1>12,
     <1>13, <1>14, <1>15, <1>16, <1>17, <1>18, <1>19, <1>20, <1>21, <1>22,
     <1>23, <1>24, <1>25, <1>26, <1>27 DEF Next, Entering, Head, ConnectStep,
     CloseStep

LEMMA DialingMoves ==
  ASSUME TypeOK, Left, Roles, Clean, Clean', \A p \in Coroutine : Resumed(p),
         inst = None \/ Attempted(inst), Shown, NEW x \in Coroutine, Role(x),
         Resumed(x), [Next]_vars
  PROVE  Resumed(x)'
<1> USE DEF TypeOK, Goto, links, flags, coros, count, Resumed, Dialing, Clean,
     Role
<1>1. ASSUME NEW r \in Request, NEW o \in Door, Press(r, o),
             \A s \in Request : ~Entering(s)
      PROVE  Resumed(x)'
  <2>1. OwnDriver(r) /\ drv[r] \in Instance /\ Role(r) /\ Resumed(r)
    BY OwnAttempt, Apart DEF Roles, TypeOK
  <2> QED
    BY <1>1, <2>1, Apart DEF Press, Released, Stale, Note
<1>2. ASSUME NEW r \in Request, Reconnect(r)  PROVE  Resumed(x)'
  <2>1. OwnDriver(r) /\ drv[r] \in Instance /\ Role(r) /\ Resumed(r)
    BY OwnAttempt, Apart DEF Roles, TypeOK
  <2> QED
    BY <1>2, <2>1, Apart DEF Reconnect, Past, Closing, Goto
<1>3. ASSUME NEW r \in Request, Pause(r)  PROVE  Resumed(x)'
  <2>1. OwnDriver(r) /\ drv[r] \in Instance /\ Role(r) /\ Resumed(r)
    BY OwnAttempt, Apart DEF Roles, TypeOK
  <2> QED
    BY <1>3, <2>1, Apart DEF Pause, Past, Closing, Goto, Note
<1>4. ASSUME NEW r \in Request, BeginSetup(r)  PROVE  Resumed(x)'
  <2>1. OwnDriver(r) /\ drv[r] \in Instance /\ Role(r) /\ Resumed(r)
    BY OwnAttempt, Apart DEF Roles, TypeOK
  <2> QED
    BY <1>4, <2>1, Apart DEF BeginSetup, Past, Goto
<1>5. ASSUME NEW r \in Request, Remove(r)  PROVE  Resumed(x)'
  <2>1. OwnDriver(r) /\ drv[r] \in Instance /\ Role(r) /\ Resumed(r)
    BY OwnAttempt, Apart DEF Roles, TypeOK
  <2> QED
    BY <1>5, <2>1, Apart DEF Remove, Past, Closing, Goto
<1>6. ASSUME NEW r \in Request, PressResume(r)  PROVE  Resumed(x)'
  <2>1. OwnDriver(r) /\ drv[r] \in Instance /\ Role(r) /\ Resumed(r)
    BY OwnAttempt, Apart DEF Roles, TypeOK
  <2> QED
    BY <1>6, <2>1, Apart DEF PressResume, Resume, Dial, Locked, Dialed, Goto,
       Note
<1>7. ASSUME NEW r \in Request, EndSetup(r)  PROVE  Resumed(x)'
  <2>1. OwnDriver(r) /\ drv[r] \in Instance /\ Role(r) /\ Resumed(r)
    BY OwnAttempt, Apart DEF Roles, TypeOK
  <2> QED
    BY <1>7, <2>1, Apart DEF EndSetup, Done, Discards, LoopReads, Goto,
       Retrying
<1>8. ASSUME NEW r \in Request, SetupRedials(r)  PROVE  Resumed(x)'
  <2>1. OwnDriver(r) /\ drv[r] \in Instance /\ Role(r) /\ Resumed(r)
    BY OwnAttempt, Apart DEF Roles, TypeOK
  <2> QED
    BY <1>8, <2>1, Apart DEF SetupRedials, Closing, Goto
<1>9. ASSUME NEW p \in Coroutine, Enter(p)  PROVE  Resumed(x)'
  <2>1. OwnDriver(p) /\ drv[p] \in Instance /\ Role(p) /\ Resumed(p)
    BY OwnAttempt, Apart DEF Roles, TypeOK
  <2> QED
    BY <1>9, <2>1, Apart DEF Enter, Current, Locked, Goto
<1>10. ASSUME NEW p \in Coroutine, Declare(p)  PROVE  Resumed(x)'
  <2>1. OwnDriver(p) /\ drv[p] \in Instance /\ Role(p) /\ Resumed(p)
    BY OwnAttempt, Apart DEF Roles, TypeOK
  <2> QED
    BY <1>10, <2>1, Apart DEF Declare, Current, Goto, OwnDriver
<1>11. ASSUME NEW p \in Coroutine, Connected(p)  PROVE  Resumed(x)'
  <2>1. OwnDriver(p) /\ drv[p] \in Instance /\ Role(p) /\ Resumed(p)
    BY OwnAttempt, Apart DEF Roles, TypeOK
  <2> QED
    BY <1>11, <2>1, Apart DEF Connected, Current, Stale, Superseded, DownAgain,
       Released, LoopReads, Again, Goto
<1>12. ASSUME NEW p \in Coroutine, Settled(p)  PROVE  Resumed(x)'
  <2>1. OwnDriver(p) /\ drv[p] \in Instance /\ Role(p) /\ Resumed(p)
    BY OwnAttempt, Apart DEF Roles, TypeOK
  <2> QED
    BY <1>12, <2>1, Apart DEF Settled, DownAgain, Done, Discards, LoopReads,
       Again, Goto, Retrying
<1>13. ASSUME NEW p \in Coroutine, Unwind(p)  PROVE  Resumed(x)'
  <2>1. OwnDriver(p) /\ drv[p] \in Instance /\ Role(p) /\ Resumed(p)
    BY OwnAttempt, Apart DEF Roles, TypeOK
  <2> QED
    BY <1>13, <2>1, Apart DEF Unwind, Ended, Current, Stale, Superseded,
       Released, Done, Discards, LoopReads, Goto, Retrying
<1>14. ASSUME NEW p \in Coroutine, NEW b \in BOOLEAN, ConnectFails(p, b)
      PROVE  Resumed(x)'
  <2>1. OwnDriver(p) /\ drv[p] \in Instance /\ Role(p) /\ Resumed(p)
    BY OwnAttempt, Apart DEF Roles, TypeOK
  <2> QED
    BY <1>14, <2>1, Apart DEF ConnectFails, Current, Stale, Superseded,
       Released, Done, Discards, LoopReads, Again, Goto, Retrying, OwnDriver
<1>15. ASSUME NEW p \in Coroutine, Redial(p)  PROVE  Resumed(x)'
  <2>1. OwnDriver(p) /\ drv[p] \in Instance /\ Role(p) /\ Resumed(p)
    BY OwnAttempt, Apart DEF Roles, TypeOK
  <2> QED
    BY <1>15, <2>1, Apart DEF Redial, Superseded, Shut, Closed, Dialed,
       Informed, Retrying, LoopReads, Goto, Note
<1>16. ASSUME NEW p \in Coroutine, PauseHolds(p)  PROVE  Resumed(x)'
  <2>1. OwnDriver(p) /\ drv[p] \in Instance /\ Role(p) /\ Resumed(p)
    BY OwnAttempt, Apart DEF Roles, TypeOK
  <2> QED
    BY <1>16, <2>1, Apart DEF PauseHolds, Superseded, Shut, Closed, Informed,
       Retrying, LoopReads, Goto, Note
<1>17. ASSUME NEW p \in Coroutine, Removed(p)  PROVE  Resumed(x)'
  <2>1. OwnDriver(p) /\ drv[p] \in Instance /\ Role(p) /\ Resumed(p)
    BY OwnAttempt, Apart DEF Roles, TypeOK
  <2> QED
    BY <1>17, <2>1, Apart DEF Removed, Shut, Closed, Goto
<1>18. ASSUME NEW p \in Coroutine, Readded(p)  PROVE  Resumed(x)'
  <2>1. OwnDriver(p) /\ drv[p] \in Instance /\ Role(p) /\ Resumed(p)
    BY OwnAttempt, Apart DEF Roles, TypeOK
  <2> QED
    BY <1>18, <2>1, Apart DEF Readded, Shut, Closed, CarriedArmed, Goto
<1>19. ASSUME NEW p \in Coroutine, Discarded(p)  PROVE  Resumed(x)'
  <2>1. OwnDriver(p) /\ drv[p] \in Instance /\ Role(p) /\ Resumed(p)
    BY OwnAttempt, Apart DEF Roles, TypeOK
  <2> QED
    BY <1>19, <2>1, Apart DEF Discarded, Shut, Informed, Retrying, LoopReads,
       LiveKey, Goto, Shown
<1>20. ASSUME Expire  PROVE  Resumed(x)'
  BY <1>20, Apart DEF Expire, Resume, Dial, Locked, Dialed, Goto, Note
<1>21. ASSUME ExpireRemoved  PROVE  Resumed(x)'
  BY <1>21, Apart DEF ExpireRemoved
<1>22. ASSUME BringUp  PROVE  Resumed(x)'
  BY <1>22, Apart DEF BringUp, Dial, Locked, Dialed, Goto, Note
<1>23. ASSUME Retry, \A s \in Request : ~Entering(s)  PROVE  Resumed(x)'
  BY <1>23, Apart DEF Retry, Dial, Locked, Dialed, Goto, Superseded
<1>24. ASSUME Kick  PROVE  Resumed(x)'
  BY <1>24, Apart DEF Kick, Released, LoopReads, Goto, Stale, Superseded
<1>25. ASSUME NEW d \in Instance, Drop(d)  PROVE  Resumed(x)'
  BY <1>25, Apart DEF Drop
<1>26. ASSUME NEW d \in Instance, NEW b \in BOOLEAN, DropTold(d, b)
      PROVE  Resumed(x)'
  BY <1>26, Apart DEF DropTold, LoopReads, Retrying, Note
<1>27. ASSUME UNCHANGED vars  PROVE  Resumed(x)'
  BY <1>27, Apart DEF vars, links, flags, coros, count
<1> HIDE DEF TypeOK, Goto, links, flags, coros, count, Resumed, Dialing, Clean,
     Role
<1> QED
  BY <1>1, <1>2, <1>3, <1>4, <1>5, <1>6, <1>7, <1>8, <1>9, <1>10, <1>11, <1>12,
     <1>13, <1>14, <1>15, <1>16, <1>17, <1>18, <1>19, <1>20, <1>21, <1>22,
     <1>23, <1>24, <1>25, <1>26, <1>27 DEF Next, Entering, Head, ConnectStep,
     CloseStep

LEMMA MendsMoves ==
  ASSUME TypeOK, Left, Roles, Clean, Clean', \A p \in Coroutine : Resumed(p),
         inst = None \/ Attempted(inst), inst # None, NEW x \in Coroutine,
         Role(x), ClosesOld(x), Station(x), Resumed(x), Mends(x), [Next]_vars
  PROVE  Mends(x)' \/ ~key' \/ inst' # inst \/ Mended'
         \/ \E q \in Coroutine : Declare(q)
<1> USE DEF TypeOK, Goto, links, flags, coros, count, Mends, Dialing, Role,
     ClosesOld, Station, Clean, Attempted
<1>1. ASSUME NEW r \in Request, NEW o \in Door, Press(r, o),
             \A s \in Request : ~Entering(s)
      PROVE  Mends(x)' \/ ~key' \/ inst' # inst \/ Mended'
             \/ \E q \in Coroutine : Declare(q)
  <2>1. OwnDriver(r) /\ drv[r] \in Instance /\ Role(r) /\ Resumed(r)
    BY OwnAttempt, Apart DEF Roles, TypeOK
  <2> QED
    BY <1>1, <2>1, Apart DEF Press, Released, Stale, Note
<1>2. ASSUME NEW r \in Request, Reconnect(r)
      PROVE  Mends(x)' \/ ~key' \/ inst' # inst \/ Mended'
             \/ \E q \in Coroutine : Declare(q)
  <2>1. drv[r] = inst /\ inst # None => Mends(r)'
    BY <1>2, Apart DEF Reconnect, Closing, Mends, Goto
  <2>2. drv[r] # inst \/ inst = None => Mends(x)'
    BY <1>2, Apart DEF Reconnect, Past, Closing, Note, Goto
  <2> QED  BY <2>1, <2>2, Apart DEF Mended
<1>3. ASSUME NEW r \in Request, Pause(r)
      PROVE  Mends(x)' \/ ~key' \/ inst' # inst \/ Mended'
             \/ \E q \in Coroutine : Declare(q)
  <2>1. drv[r] = inst /\ inst # None => Mends(r)'
    BY <1>3, Apart DEF Pause, Closing, Mends, Goto
  <2>2. drv[r] # inst \/ inst = None => Mends(x)'
    BY <1>3, Apart DEF Pause, Past, Closing, Note, Goto
  <2> QED  BY <2>1, <2>2, Apart DEF Mended
<1>4. ASSUME NEW r \in Request, BeginSetup(r)
      PROVE  Mends(x)' \/ ~key' \/ inst' # inst \/ Mended'
             \/ \E q \in Coroutine : Declare(q)
  <2>1. OwnDriver(r) /\ drv[r] \in Instance /\ Role(r) /\ Resumed(r)
    BY OwnAttempt, Apart DEF Roles, TypeOK
  <2> QED
    BY <1>4, <2>1, Apart DEF BeginSetup, Past, Goto
<1>5. ASSUME NEW r \in Request, Remove(r)
      PROVE  Mends(x)' \/ ~key' \/ inst' # inst \/ Mended'
             \/ \E q \in Coroutine : Declare(q)
  <2>1. OwnDriver(r) /\ drv[r] \in Instance /\ Role(r) /\ Resumed(r)
    BY OwnAttempt, Apart DEF Roles, TypeOK
  <2> QED
    BY <1>5, <2>1, Apart DEF Remove, Past, Closing, Goto
<1>6. ASSUME NEW r \in Request, PressResume(r)
      PROVE  Mends(x)' \/ ~key' \/ inst' # inst \/ Mended'
             \/ \E q \in Coroutine : Declare(q)
  <2>1. Mends(r)'
    BY <1>6, Apart DEF PressResume, Resume, Dial, Dialed, Mends, Dialing, Goto
  <2> QED  BY <2>1, Apart DEF Mended
<1>7. ASSUME NEW r \in Request, EndSetup(r)
      PROVE  Mends(x)' \/ ~key' \/ inst' # inst \/ Mended'
             \/ \E q \in Coroutine : Declare(q)
  <2>1. OwnDriver(r) /\ drv[r] \in Instance /\ Role(r) /\ Resumed(r)
    BY OwnAttempt, Apart DEF Roles, TypeOK
  <2> QED
    BY <1>7, <2>1, Apart DEF EndSetup, Done, Discards, LoopReads, Goto,
       Retrying
<1>8. ASSUME NEW r \in Request, SetupRedials(r)
      PROVE  Mends(x)' \/ ~key' \/ inst' # inst \/ Mended'
             \/ \E q \in Coroutine : Declare(q)
  <2>1. Mends(r)'
    BY <1>8, Apart DEF SetupRedials, Closing, Mends, Goto
  <2> QED  BY <2>1, Apart DEF Mended
<1>9. ASSUME NEW p \in Coroutine, Enter(p)
      PROVE  Mends(x)' \/ ~key' \/ inst' # inst \/ Mended'
             \/ \E q \in Coroutine : Declare(q)
  <2>1. OwnDriver(p) /\ drv[p] \in Instance /\ Role(p) /\ Resumed(p)
    BY OwnAttempt, Apart DEF Roles, TypeOK
  <2> QED
    BY <1>9, <2>1, Apart DEF Enter, Current, Locked, Goto
<1>10. ASSUME NEW p \in Coroutine, Declare(p)
      PROVE  Mends(x)' \/ ~key' \/ inst' # inst \/ Mended'
             \/ \E q \in Coroutine : Declare(q)
  BY <1>10
<1>11. ASSUME NEW p \in Coroutine, Connected(p)
      PROVE  Mends(x)' \/ ~key' \/ inst' # inst \/ Mended'
             \/ \E q \in Coroutine : Declare(q)
  <2>1. OwnDriver(p) /\ drv[p] \in Instance /\ Role(p) /\ Resumed(p)
    BY OwnAttempt, Apart DEF Roles, TypeOK
  <2> QED
    BY <1>11, <2>1, Apart DEF Connected, Current, Stale, Superseded, DownAgain,
       Released, LoopReads, Again, Goto
<1>12. ASSUME NEW p \in Coroutine, Settled(p)
      PROVE  Mends(x)' \/ ~key' \/ inst' # inst \/ Mended'
             \/ \E q \in Coroutine : Declare(q)
  <2>1. OwnDriver(p) /\ drv[p] \in Instance /\ Role(p) /\ Resumed(p)
    BY OwnAttempt, Apart DEF Roles, TypeOK
  <2> QED
    BY <1>12, <2>1, Apart DEF Settled, DownAgain, Done, Discards, LoopReads,
       Again, Goto, Retrying
<1>13. ASSUME NEW p \in Coroutine, Unwind(p)
      PROVE  Mends(x)' \/ ~key' \/ inst' # inst \/ Mended'
             \/ \E q \in Coroutine : Declare(q)
  <2>1. OwnDriver(p) /\ drv[p] \in Instance /\ Role(p) /\ Resumed(p)
    BY OwnAttempt, Apart DEF Roles, TypeOK
  <2> QED
    BY <1>13, <2>1, Apart DEF Unwind, Ended, Current, Stale, Superseded,
       Released, Done, Discards, LoopReads, Goto, Retrying
<1>14. ASSUME NEW p \in Coroutine, NEW b \in BOOLEAN, ConnectFails(p, b)
      PROVE  Mends(x)' \/ ~key' \/ inst' # inst \/ Mended'
             \/ \E q \in Coroutine : Declare(q)
  <2>1. OwnDriver(p) /\ drv[p] \in Instance /\ Role(p) /\ Resumed(p)
    BY OwnAttempt, Apart DEF Roles, TypeOK
  <2> QED
    BY <1>14, <2>1, Apart, ZenonT(60) DEF ConnectFails, Current, Stale, Superseded,
       Released, Done, Discards, LoopReads, Again, Goto, Retrying
<1>15. ASSUME NEW p \in Coroutine, Redial(p)
      PROVE  Mends(x)' \/ ~key' \/ inst' # inst \/ Mended'
             \/ \E q \in Coroutine : Declare(q)
  <2>1. OwnDriver(p) /\ drv[p] \in Instance /\ Role(p) /\ Resumed(p)
    BY OwnAttempt, Apart DEF Roles, TypeOK
  <2> QED
    BY <1>15, <2>1, Apart DEF Redial, Superseded, Shut, Closed, Dialed,
       Informed, Retrying, LoopReads, Goto, Note
<1>16. ASSUME NEW p \in Coroutine, PauseHolds(p)
      PROVE  Mends(x)' \/ ~key' \/ inst' # inst \/ Mended'
             \/ \E q \in Coroutine : Declare(q)
  <2>1. OwnDriver(p) /\ drv[p] \in Instance /\ Role(p) /\ Resumed(p)
    BY OwnAttempt, Apart DEF Roles, TypeOK
  <2> QED
    BY <1>16, <2>1, Apart DEF PauseHolds, Superseded, Shut, Closed, Informed,
       Retrying, LoopReads, Goto, Note
<1>17. ASSUME NEW p \in Coroutine, Removed(p)
      PROVE  Mends(x)' \/ ~key' \/ inst' # inst \/ Mended'
             \/ \E q \in Coroutine : Declare(q)
  <2>1. OwnDriver(p) /\ drv[p] \in Instance /\ Role(p) /\ Resumed(p)
    BY OwnAttempt, Apart DEF Roles, TypeOK
  <2> QED
    BY <1>17, <2>1, Apart DEF Removed, Shut, Closed, Goto
<1>18. ASSUME NEW p \in Coroutine, Readded(p)
      PROVE  Mends(x)' \/ ~key' \/ inst' # inst \/ Mended'
             \/ \E q \in Coroutine : Declare(q)
  <2>1. OwnDriver(p) /\ drv[p] \in Instance /\ Role(p) /\ Resumed(p)
    BY OwnAttempt, Apart DEF Roles, TypeOK
  <2> QED
    BY <1>18, <2>1, Apart DEF Readded, Shut, Closed, CarriedArmed, Goto
<1>19. ASSUME NEW p \in Coroutine, Discarded(p)
      PROVE  Mends(x)' \/ ~key' \/ inst' # inst \/ Mended'
             \/ \E q \in Coroutine : Declare(q)
  <2>1. OwnDriver(p) /\ drv[p] \in Instance /\ Role(p) /\ Resumed(p)
    BY OwnAttempt, Apart DEF Roles, TypeOK
  <2> QED
    BY <1>19, <2>1, Apart DEF Discarded, Shut, Informed, Retrying, LoopReads,
       LiveKey, Goto
<1>20. ASSUME Expire
      PROVE  Mends(x)' \/ ~key' \/ inst' # inst \/ Mended'
             \/ \E q \in Coroutine : Declare(q)
  <2>1. Mends("timer")'
    BY <1>20, Apart DEF Expire, Resume, Dial, Dialed, Mends, Dialing, Goto
  <2> QED  BY <2>1, Apart DEF Mended
<1>21. ASSUME ExpireRemoved
      PROVE  Mends(x)' \/ ~key' \/ inst' # inst \/ Mended'
             \/ \E q \in Coroutine : Declare(q)
  BY <1>21, Apart DEF ExpireRemoved
<1>22. ASSUME BringUp
      PROVE  Mends(x)' \/ ~key' \/ inst' # inst \/ Mended'
             \/ \E q \in Coroutine : Declare(q)
  BY <1>22, Apart DEF BringUp, Dial, Locked, Dialed, Goto, Note
<1>23. ASSUME Retry, \A s \in Request : ~Entering(s)
      PROVE  Mends(x)' \/ ~key' \/ inst' # inst \/ Mended'
             \/ \E q \in Coroutine : Declare(q)
  BY <1>23, Apart DEF Retry, Dial, Locked, Dialed, Goto, Superseded
<1>24. ASSUME Kick
      PROVE  Mends(x)' \/ ~key' \/ inst' # inst \/ Mended'
             \/ \E q \in Coroutine : Declare(q)
  BY <1>24, Apart DEF Kick, Released, LoopReads, Goto, Stale, Superseded
<1>25. ASSUME NEW d \in Instance, Drop(d)
      PROVE  Mends(x)' \/ ~key' \/ inst' # inst \/ Mended'
             \/ \E q \in Coroutine : Declare(q)
  BY <1>25, Apart DEF Drop
<1>26. ASSUME NEW d \in Instance, NEW b \in BOOLEAN, DropTold(d, b)
      PROVE  Mends(x)' \/ ~key' \/ inst' # inst \/ Mended'
             \/ \E q \in Coroutine : Declare(q)
  BY <1>26, Apart DEF DropTold, LoopReads, Retrying, Note
<1>27. ASSUME UNCHANGED vars
      PROVE  Mends(x)' \/ ~key' \/ inst' # inst \/ Mended'
             \/ \E q \in Coroutine : Declare(q)
  BY <1>27, Apart DEF vars, links, flags, coros, count
<1> HIDE DEF TypeOK, Goto, links, flags, coros, count, Mends, Dialing, Role,
     ClosesOld, Station, Clean, Attempted
<1> QED
  BY <1>1, <1>2, <1>3, <1>4, <1>5, <1>6, <1>7, <1>8, <1>9, <1>10, <1>11, <1>12,
     <1>13, <1>14, <1>15, <1>16, <1>17, <1>18, <1>19, <1>20, <1>21, <1>22,
     <1>23, <1>24, <1>25, <1>26, <1>27 DEF Next, Entering, Head, ConnectStep,
     CloseStep

LEMMA LooseMoves ==
  ASSUME TypeOK, Left, Roles, Clean, Clean', \A p \in Coroutine : Resumed(p),
         inst = None \/ Attempted(inst), inst # None, NEW x \in Coroutine,
         Role(x), Loose(x)', [Next]_vars
  PROVE  Loose(x) \/ ~key' \/ inst' # inst \/ Mended'
         \/ \E q \in Coroutine : Declare(q)
<1> USE DEF TypeOK, Goto, links, flags, coros, count, Loose, Role, Clean,
     Attempted
<1>1. ASSUME NEW r \in Request, NEW o \in Door, Press(r, o),
             \A s \in Request : ~Entering(s)
      PROVE  Loose(x) \/ ~key' \/ inst' # inst \/ Mended'
             \/ \E q \in Coroutine : Declare(q)
  <2>1. OwnDriver(r) /\ drv[r] \in Instance /\ Role(r) /\ Resumed(r)
    BY OwnAttempt, Apart DEF Roles, TypeOK
  <2> QED
    BY <1>1, <2>1, Apart DEF Press, Released, Stale, Note
<1>2. ASSUME NEW r \in Request, Reconnect(r)
      PROVE  Loose(x) \/ ~key' \/ inst' # inst \/ Mended'
             \/ \E q \in Coroutine : Declare(q)
  <2>1. drv[r] = inst /\ inst # None => Mends(r)'
    BY <1>2, Apart DEF Reconnect, Closing, Mends, Goto
  <2>2. drv[r] # inst \/ inst = None => Loose(x)
    BY <1>2, Apart DEF Reconnect, Past, Closing, Note, Goto
  <2> QED  BY <2>1, <2>2, Apart DEF Mended
<1>3. ASSUME NEW r \in Request, Pause(r)
      PROVE  Loose(x) \/ ~key' \/ inst' # inst \/ Mended'
             \/ \E q \in Coroutine : Declare(q)
  <2>1. drv[r] = inst /\ inst # None => Mends(r)'
    BY <1>3, Apart DEF Pause, Closing, Mends, Goto
  <2>2. drv[r] # inst \/ inst = None => Loose(x)
    BY <1>3, Apart DEF Pause, Past, Closing, Note, Goto
  <2> QED  BY <2>1, <2>2, Apart DEF Mended
<1>4. ASSUME NEW r \in Request, BeginSetup(r)
      PROVE  Loose(x) \/ ~key' \/ inst' # inst \/ Mended'
             \/ \E q \in Coroutine : Declare(q)
  <2>1. OwnDriver(r) /\ drv[r] \in Instance /\ Role(r) /\ Resumed(r)
    BY OwnAttempt, Apart DEF Roles, TypeOK
  <2> QED
    BY <1>4, <2>1, Apart DEF BeginSetup, Past, Goto
<1>5. ASSUME NEW r \in Request, Remove(r)
      PROVE  Loose(x) \/ ~key' \/ inst' # inst \/ Mended'
             \/ \E q \in Coroutine : Declare(q)
  <2>1. OwnDriver(r) /\ drv[r] \in Instance /\ Role(r) /\ Resumed(r)
    BY OwnAttempt, Apart DEF Roles, TypeOK
  <2> QED
    BY <1>5, <2>1, Apart DEF Remove, Past, Closing, Goto
<1>6. ASSUME NEW r \in Request, PressResume(r)
      PROVE  Loose(x) \/ ~key' \/ inst' # inst \/ Mended'
             \/ \E q \in Coroutine : Declare(q)
  <2>1. Mends(r)'
    BY <1>6, Apart DEF PressResume, Resume, Dial, Dialed, Mends, Dialing, Goto
  <2> QED  BY <2>1, Apart DEF Mended
<1>7. ASSUME NEW r \in Request, EndSetup(r)
      PROVE  Loose(x) \/ ~key' \/ inst' # inst \/ Mended'
             \/ \E q \in Coroutine : Declare(q)
  <2>1. OwnDriver(r) /\ drv[r] \in Instance /\ Role(r) /\ Resumed(r)
    BY OwnAttempt, Apart DEF Roles, TypeOK
  <2> QED
    BY <1>7, <2>1, Apart DEF EndSetup, Done, Discards, LoopReads, Goto,
       Retrying
<1>8. ASSUME NEW r \in Request, SetupRedials(r)
      PROVE  Loose(x) \/ ~key' \/ inst' # inst \/ Mended'
             \/ \E q \in Coroutine : Declare(q)
  <2>1. Mends(r)'
    BY <1>8, Apart DEF SetupRedials, Closing, Mends, Goto
  <2> QED  BY <2>1, Apart DEF Mended
<1>9. ASSUME NEW p \in Coroutine, Enter(p)
      PROVE  Loose(x) \/ ~key' \/ inst' # inst \/ Mended'
             \/ \E q \in Coroutine : Declare(q)
  <2>1. OwnDriver(p) /\ drv[p] \in Instance /\ Role(p) /\ Resumed(p)
    BY OwnAttempt, Apart DEF Roles, TypeOK
  <2> QED
    BY <1>9, <2>1, Apart DEF Enter, Current, Locked, Goto
<1>10. ASSUME NEW p \in Coroutine, Declare(p)
      PROVE  Loose(x) \/ ~key' \/ inst' # inst \/ Mended'
             \/ \E q \in Coroutine : Declare(q)
  BY <1>10
<1>11. ASSUME NEW p \in Coroutine, Connected(p)
      PROVE  Loose(x) \/ ~key' \/ inst' # inst \/ Mended'
             \/ \E q \in Coroutine : Declare(q)
  <2>1. OwnDriver(p) /\ drv[p] \in Instance /\ Role(p) /\ Resumed(p)
    BY OwnAttempt, Apart DEF Roles, TypeOK
  <2> QED
    BY <1>11, <2>1, Apart DEF Connected, Current, Stale, Superseded, DownAgain,
       Released, LoopReads, Again, Goto, OwnDriver
<1>12. ASSUME NEW p \in Coroutine, Settled(p)
      PROVE  Loose(x) \/ ~key' \/ inst' # inst \/ Mended'
             \/ \E q \in Coroutine : Declare(q)
  <2>1. OwnDriver(p) /\ drv[p] \in Instance /\ Role(p) /\ Resumed(p)
    BY OwnAttempt, Apart DEF Roles, TypeOK
  <2> QED
    BY <1>12, <2>1, Apart DEF Settled, DownAgain, Done, Discards, LoopReads,
       Again, Goto, Retrying
<1>13. ASSUME NEW p \in Coroutine, Unwind(p)
      PROVE  Loose(x) \/ ~key' \/ inst' # inst \/ Mended'
             \/ \E q \in Coroutine : Declare(q)
  <2>1. OwnDriver(p) /\ drv[p] \in Instance /\ Role(p) /\ Resumed(p)
    BY OwnAttempt, Apart DEF Roles, TypeOK
  <2> QED
    BY <1>13, <2>1, Apart DEF Unwind, Ended, Current, Stale, Superseded,
       Released, Done, Discards, LoopReads, Goto, Retrying
<1>14. ASSUME NEW p \in Coroutine, NEW b \in BOOLEAN, ConnectFails(p, b)
      PROVE  Loose(x) \/ ~key' \/ inst' # inst \/ Mended'
             \/ \E q \in Coroutine : Declare(q)
  <2>1. OwnDriver(p) /\ drv[p] \in Instance /\ Role(p) /\ Resumed(p)
    BY OwnAttempt, Apart DEF Roles, TypeOK
  <2> QED
    BY <1>14, <2>1, Apart DEF ConnectFails, Current, Stale, Superseded,
       Released, Done, Discards, LoopReads, Again, Goto, Retrying, OwnDriver,
       Resumed, Dialing
<1>15. ASSUME NEW p \in Coroutine, Redial(p)
      PROVE  Loose(x) \/ ~key' \/ inst' # inst \/ Mended'
             \/ \E q \in Coroutine : Declare(q)
  <2>1. OwnDriver(p) /\ drv[p] \in Instance /\ Role(p) /\ Resumed(p)
    BY OwnAttempt, Apart DEF Roles, TypeOK
  <2> QED
    BY <1>15, <2>1, Apart DEF Redial, Superseded, Shut, Closed, Dialed,
       Informed, Retrying, LoopReads, Goto, Note
<1>16. ASSUME NEW p \in Coroutine, PauseHolds(p)
      PROVE  Loose(x) \/ ~key' \/ inst' # inst \/ Mended'
             \/ \E q \in Coroutine : Declare(q)
  <2>1. OwnDriver(p) /\ drv[p] \in Instance /\ Role(p) /\ Resumed(p)
    BY OwnAttempt, Apart DEF Roles, TypeOK
  <2> QED
    BY <1>16, <2>1, Apart DEF PauseHolds, Superseded, Shut, Closed, Informed,
       Retrying, LoopReads, Goto, Note
<1>17. ASSUME NEW p \in Coroutine, Removed(p)
      PROVE  Loose(x) \/ ~key' \/ inst' # inst \/ Mended'
             \/ \E q \in Coroutine : Declare(q)
  <2>1. OwnDriver(p) /\ drv[p] \in Instance /\ Role(p) /\ Resumed(p)
    BY OwnAttempt, Apart DEF Roles, TypeOK
  <2> QED
    BY <1>17, <2>1, Apart DEF Removed, Shut, Closed, Goto
<1>18. ASSUME NEW p \in Coroutine, Readded(p)
      PROVE  Loose(x) \/ ~key' \/ inst' # inst \/ Mended'
             \/ \E q \in Coroutine : Declare(q)
  <2>1. OwnDriver(p) /\ drv[p] \in Instance /\ Role(p) /\ Resumed(p)
    BY OwnAttempt, Apart DEF Roles, TypeOK
  <2> QED
    BY <1>18, <2>1, Apart DEF Readded, Shut, Closed, CarriedArmed, Goto
<1>19. ASSUME NEW p \in Coroutine, Discarded(p)
      PROVE  Loose(x) \/ ~key' \/ inst' # inst \/ Mended'
             \/ \E q \in Coroutine : Declare(q)
  <2>1. OwnDriver(p) /\ drv[p] \in Instance /\ Role(p) /\ Resumed(p)
    BY OwnAttempt, Apart DEF Roles, TypeOK
  <2> QED
    BY <1>19, <2>1, Apart DEF Discarded, Shut, Informed, Retrying, LoopReads,
       LiveKey, Goto
<1>20. ASSUME Expire
      PROVE  Loose(x) \/ ~key' \/ inst' # inst \/ Mended'
             \/ \E q \in Coroutine : Declare(q)
  <2>1. Mends("timer")'
    BY <1>20, Apart DEF Expire, Resume, Dial, Dialed, Mends, Dialing, Goto
  <2> QED  BY <2>1, Apart DEF Mended
<1>21. ASSUME ExpireRemoved
      PROVE  Loose(x) \/ ~key' \/ inst' # inst \/ Mended'
             \/ \E q \in Coroutine : Declare(q)
  BY <1>21, Apart DEF ExpireRemoved
<1>22. ASSUME BringUp
      PROVE  Loose(x) \/ ~key' \/ inst' # inst \/ Mended'
             \/ \E q \in Coroutine : Declare(q)
  BY <1>22, Apart DEF BringUp, Dial, Locked, Dialed, Goto, Note
<1>23. ASSUME Retry, \A s \in Request : ~Entering(s)
      PROVE  Loose(x) \/ ~key' \/ inst' # inst \/ Mended'
             \/ \E q \in Coroutine : Declare(q)
  BY <1>23, Apart DEF Retry, Dial, Locked, Dialed, Goto, Superseded
<1>24. ASSUME Kick
      PROVE  Loose(x) \/ ~key' \/ inst' # inst \/ Mended'
             \/ \E q \in Coroutine : Declare(q)
  BY <1>24, Apart DEF Kick, Released, LoopReads, Goto, Stale, Superseded
<1>25. ASSUME NEW d \in Instance, Drop(d)
      PROVE  Loose(x) \/ ~key' \/ inst' # inst \/ Mended'
             \/ \E q \in Coroutine : Declare(q)
  BY <1>25, Apart DEF Drop
<1>26. ASSUME NEW d \in Instance, NEW b \in BOOLEAN, DropTold(d, b)
      PROVE  Loose(x) \/ ~key' \/ inst' # inst \/ Mended'
             \/ \E q \in Coroutine : Declare(q)
  BY <1>26, Apart DEF DropTold, LoopReads, Retrying, Note
<1>27. ASSUME UNCHANGED vars
      PROVE  Loose(x) \/ ~key' \/ inst' # inst \/ Mended'
             \/ \E q \in Coroutine : Declare(q)
  BY <1>27, Apart DEF vars, links, flags, coros, count
<1> HIDE DEF TypeOK, Goto, links, flags, coros, count, Loose, Role, Clean,
     Attempted
<1> QED
  BY <1>1, <1>2, <1>3, <1>4, <1>5, <1>6, <1>7, <1>8, <1>9, <1>10, <1>11, <1>12,
     <1>13, <1>14, <1>15, <1>16, <1>17, <1>18, <1>19, <1>20, <1>21, <1>22,
     <1>23, <1>24, <1>25, <1>26, <1>27 DEF Next, Entering, Head, ConnectStep,
     CloseStep

LEMMA DownMoves ==
  ASSUME TypeOK, Left, Roles, Clean, Clean', \A p \in Coroutine : Resumed(p),
         inst = None \/ Attempted(inst), Shown, WorkerClosesOld,
         \A p \in Coroutine : key /\ inst # None /\ Loose(p) => Mended,
         [Next]_vars
  PROVE  key' /\ inst' # None /\ ~conn'[inst'] => (inst' = inst /\ key
           /\ (~conn[inst]
         \/ Mended)) \/ Mended'
<1> USE DEF TypeOK, Goto, links, flags, coros, count, Clean
<1>1. ASSUME NEW r \in Request, NEW o \in Door, Press(r, o),
             \A s \in Request : ~Entering(s)
      PROVE  key' /\ inst' # None /\ ~conn'[inst'] => (inst' = inst /\ key
               /\ (~conn[inst]
             \/ Mended)) \/ Mended'
  <2>1. OwnDriver(r) /\ drv[r] \in Instance /\ Role(r) /\ Resumed(r)
          /\ ClosesOld(r)
    BY OwnAttempt, Apart DEF Roles, TypeOK, WorkerClosesOld
  <2> QED
    BY <1>1, <2>1, Apart DEF Press, Released, Stale, Note
<1>2. ASSUME NEW r \in Request, Reconnect(r)
      PROVE  key' /\ inst' # None /\ ~conn'[inst'] => (inst' = inst /\ key
               /\ (~conn[inst]
             \/ Mended)) \/ Mended'
  <2>1. OwnDriver(r) /\ drv[r] \in Instance /\ Role(r) /\ Resumed(r)
          /\ ClosesOld(r)
    BY OwnAttempt, Apart DEF Roles, TypeOK, WorkerClosesOld
  <2> QED
    BY <1>2, <2>1, Apart DEF Reconnect, Past, Closing, Goto
<1>3. ASSUME NEW r \in Request, Pause(r)
      PROVE  key' /\ inst' # None /\ ~conn'[inst'] => (inst' = inst /\ key
               /\ (~conn[inst]
             \/ Mended)) \/ Mended'
  <2>1. OwnDriver(r) /\ drv[r] \in Instance /\ Role(r) /\ Resumed(r)
          /\ ClosesOld(r)
    BY OwnAttempt, Apart DEF Roles, TypeOK, WorkerClosesOld
  <2> QED
    BY <1>3, <2>1, Apart DEF Pause, Past, Closing, Goto, Note
<1>4. ASSUME NEW r \in Request, BeginSetup(r)
      PROVE  key' /\ inst' # None /\ ~conn'[inst'] => (inst' = inst /\ key
               /\ (~conn[inst]
             \/ Mended)) \/ Mended'
  <2>1. OwnDriver(r) /\ drv[r] \in Instance /\ Role(r) /\ Resumed(r)
          /\ ClosesOld(r)
    BY OwnAttempt, Apart DEF Roles, TypeOK, WorkerClosesOld
  <2> QED
    BY <1>4, <2>1, Apart DEF BeginSetup, Past, Goto
<1>5. ASSUME NEW r \in Request, Remove(r)
      PROVE  key' /\ inst' # None /\ ~conn'[inst'] => (inst' = inst /\ key
               /\ (~conn[inst]
             \/ Mended)) \/ Mended'
  <2>1. OwnDriver(r) /\ drv[r] \in Instance /\ Role(r) /\ Resumed(r)
          /\ ClosesOld(r)
    BY OwnAttempt, Apart DEF Roles, TypeOK, WorkerClosesOld
  <2> QED
    BY <1>5, <2>1, Apart DEF Remove, Past, Closing, Goto
<1>6. ASSUME NEW r \in Request, PressResume(r)
      PROVE  key' /\ inst' # None /\ ~conn'[inst'] => (inst' = inst /\ key
               /\ (~conn[inst]
             \/ Mended)) \/ Mended'
  <2>1. Mends(r)'
    BY <1>6, Apart DEF PressResume, Resume, Dial, Dialed, Mends, Dialing, Goto
  <2> QED  BY <2>1, Apart DEF Mended
<1>7. ASSUME NEW r \in Request, EndSetup(r)
      PROVE  key' /\ inst' # None /\ ~conn'[inst'] => (inst' = inst /\ key
               /\ (~conn[inst]
             \/ Mended)) \/ Mended'
  <2>1. OwnDriver(r) /\ drv[r] \in Instance /\ Role(r) /\ Resumed(r)
          /\ ClosesOld(r)
    BY OwnAttempt, Apart DEF Roles, TypeOK, WorkerClosesOld
  <2> QED
    BY <1>7, <2>1, Apart DEF EndSetup, Done, Discards, LoopReads, Goto,
       Retrying
<1>8. ASSUME NEW r \in Request, SetupRedials(r)
      PROVE  key' /\ inst' # None /\ ~conn'[inst'] => (inst' = inst /\ key
               /\ (~conn[inst]
             \/ Mended)) \/ Mended'
  <2>1. Mends(r)'
    BY <1>8, Apart DEF SetupRedials, Closing, Mends, Goto
  <2> QED  BY <2>1, Apart DEF Mended
<1>9. ASSUME NEW p \in Coroutine, Enter(p)
      PROVE  key' /\ inst' # None /\ ~conn'[inst'] => (inst' = inst /\ key
               /\ (~conn[inst]
             \/ Mended)) \/ Mended'
  <2>1. OwnDriver(p) /\ Resumed(p) /\ drv[p] \in Instance
    BY OwnAttempt
  <2>2. /\ attempt[drv[p]] = p /\ pc[p] = "queued" /\ inst' = inst
             /\ key' = key
        /\ conn' = [conn EXCEPT ![drv[p]] = FALSE]
    BY <1>9 DEF Enter, Current, Locked
  <2>3. inst # None => drv[p] = inst
    BY <2>1, <2>2 DEF OwnDriver
  <2>4. inst # None /\ key => Mends(p)
    BY <2>1, <2>2, <2>3 DEF Resumed, Mends, Dialing
  <2> QED  BY <2>2, <2>4 DEF Mended
<1>10. ASSUME NEW p \in Coroutine, Declare(p)
      PROVE  key' /\ inst' # None /\ ~conn'[inst'] => (inst' = inst /\ key
               /\ (~conn[inst]
             \/ Mended)) \/ Mended'
  <2>1. OwnDriver(p) /\ drv[p] \in Instance /\ Role(p) /\ Resumed(p)
          /\ ClosesOld(p)
    BY OwnAttempt, Apart DEF Roles, TypeOK, WorkerClosesOld
  <2> QED
    BY <1>10, <2>1, Apart DEF Declare, Current, Goto, OwnDriver
<1>11. ASSUME NEW p \in Coroutine, Connected(p)
      PROVE  key' /\ inst' # None /\ ~conn'[inst'] => (inst' = inst /\ key
               /\ (~conn[inst]
             \/ Mended)) \/ Mended'
  <2>1. OwnDriver(p) /\ drv[p] \in Instance /\ Role(p) /\ Resumed(p)
          /\ ClosesOld(p)
    BY OwnAttempt, Apart DEF Roles, TypeOK, WorkerClosesOld
  <2> QED
    BY <1>11, <2>1, Apart DEF Connected, Current, Stale, Superseded, DownAgain,
       Released, LoopReads, Again, Goto
<1>12. ASSUME NEW p \in Coroutine, Settled(p)
      PROVE  key' /\ inst' # None /\ ~conn'[inst'] => (inst' = inst /\ key
               /\ (~conn[inst]
             \/ Mended)) \/ Mended'
  <2>1. OwnDriver(p) /\ drv[p] \in Instance /\ Role(p) /\ Resumed(p)
          /\ ClosesOld(p)
    BY OwnAttempt, Apart DEF Roles, TypeOK, WorkerClosesOld
  <2> QED
    BY <1>12, <2>1, Apart DEF Settled, DownAgain, Done, Discards, LoopReads,
       Again, Goto, Retrying
<1>13. ASSUME NEW p \in Coroutine, Unwind(p)
      PROVE  key' /\ inst' # None /\ ~conn'[inst'] => (inst' = inst /\ key
               /\ (~conn[inst]
             \/ Mended)) \/ Mended'
  <2>1. inst' = inst /\ key' = key
    BY <1>13 DEF Unwind
  <2>2. inst # None /\ conn'[inst] # conn[inst] => Loose(p)
    BY <1>13 DEF Unwind, Ended, Current, Loose
  <2> QED  BY <2>1, <2>2
<1>14. ASSUME NEW p \in Coroutine, NEW b \in BOOLEAN, ConnectFails(p, b)
      PROVE  key' /\ inst' # None /\ ~conn'[inst'] => (inst' = inst /\ key
               /\ (~conn[inst]
             \/ Mended)) \/ Mended'
  <2>1. OwnDriver(p) /\ drv[p] \in Instance /\ Role(p) /\ Resumed(p)
          /\ ClosesOld(p)
    BY OwnAttempt, Apart DEF Roles, TypeOK, WorkerClosesOld
  <2> QED
    BY <1>14, <2>1, Apart DEF ConnectFails, Current, Stale, Superseded,
       Released, Done, Discards, LoopReads, Again, Goto, Retrying, OwnDriver,
       Resumed, Dialing
<1>15. ASSUME NEW p \in Coroutine, Redial(p)
      PROVE  key' /\ inst' # None /\ ~conn'[inst'] => (inst' = inst /\ key
               /\ (~conn[inst]
             \/ Mended)) \/ Mended'
  <2>1. OwnDriver(p) /\ drv[p] \in Instance /\ Role(p) /\ Resumed(p)
          /\ ClosesOld(p)
    BY OwnAttempt, Apart DEF Roles, TypeOK, WorkerClosesOld
  <2> QED
    BY <1>15, <2>1, Apart DEF Redial, Superseded, Shut, Closed, Dialed,
       Informed, Retrying, LoopReads, Goto, Note
<1>16. ASSUME NEW p \in Coroutine, PauseHolds(p)
      PROVE  key' /\ inst' # None /\ ~conn'[inst'] => (inst' = inst /\ key
               /\ (~conn[inst]
             \/ Mended)) \/ Mended'
  <2>1. OwnDriver(p) /\ drv[p] \in Instance /\ Role(p) /\ Resumed(p)
          /\ ClosesOld(p)
    BY OwnAttempt, Apart DEF Roles, TypeOK, WorkerClosesOld
  <2> QED
    BY <1>16, <2>1, Apart DEF PauseHolds, Superseded, Shut, Closed, Informed,
       Retrying, LoopReads, Goto, Note
<1>17. ASSUME NEW p \in Coroutine, Removed(p)
      PROVE  key' /\ inst' # None /\ ~conn'[inst'] => (inst' = inst /\ key
               /\ (~conn[inst]
             \/ Mended)) \/ Mended'
  <2>1. OwnDriver(p) /\ drv[p] \in Instance /\ Role(p) /\ Resumed(p)
          /\ ClosesOld(p)
    BY OwnAttempt, Apart DEF Roles, TypeOK, WorkerClosesOld
  <2> QED
    BY <1>17, <2>1, Apart DEF Removed, Shut, Closed, Goto
<1>18. ASSUME NEW p \in Coroutine, Readded(p)
      PROVE  key' /\ inst' # None /\ ~conn'[inst'] => (inst' = inst /\ key
               /\ (~conn[inst]
             \/ Mended)) \/ Mended'
  <2>1. OwnDriver(p) /\ drv[p] \in Instance /\ Role(p) /\ Resumed(p)
          /\ ClosesOld(p)
    BY OwnAttempt, Apart DEF Roles, TypeOK, WorkerClosesOld
  <2> QED
    BY <1>18, <2>1, Apart DEF Readded, Shut, Closed, CarriedArmed, Goto
<1>19. ASSUME NEW p \in Coroutine, Discarded(p)
      PROVE  key' /\ inst' # None /\ ~conn'[inst'] => (inst' = inst /\ key
               /\ (~conn[inst]
             \/ Mended)) \/ Mended'
  <2>1. OwnDriver(p) /\ drv[p] \in Instance /\ Role(p) /\ Resumed(p)
          /\ ClosesOld(p)
    BY OwnAttempt, Apart DEF Roles, TypeOK, WorkerClosesOld
  <2> QED
    BY <1>19, <2>1, Apart DEF Discarded, Shut, Informed, Retrying, LoopReads,
       LiveKey, Goto, Shown, ClosesOld, Role
<1>20. ASSUME Expire
      PROVE  key' /\ inst' # None /\ ~conn'[inst'] => (inst' = inst /\ key
               /\ (~conn[inst]
             \/ Mended)) \/ Mended'
  <2>1. Mends("timer")'
    BY <1>20, Apart DEF Expire, Resume, Dial, Dialed, Mends, Dialing, Goto
  <2> QED  BY <2>1, Apart DEF Mended
<1>21. ASSUME ExpireRemoved
      PROVE  key' /\ inst' # None /\ ~conn'[inst'] => (inst' = inst /\ key
               /\ (~conn[inst]
             \/ Mended)) \/ Mended'
  BY <1>21, Apart DEF ExpireRemoved
<1>22. ASSUME BringUp
      PROVE  key' /\ inst' # None /\ ~conn'[inst'] => (inst' = inst /\ key
               /\ (~conn[inst]
             \/ Mended)) \/ Mended'
  BY <1>22, Apart DEF BringUp, Dial, Locked, Dialed, Goto, Note
<1>23. ASSUME Retry, \A s \in Request : ~Entering(s)
      PROVE  key' /\ inst' # None /\ ~conn'[inst'] => (inst' = inst /\ key
               /\ (~conn[inst]
             \/ Mended)) \/ Mended'
  BY <1>23, Apart DEF Retry, Dial, Locked, Dialed, Goto, Superseded
<1>24. ASSUME Kick
      PROVE  key' /\ inst' # None /\ ~conn'[inst'] => (inst' = inst /\ key
               /\ (~conn[inst]
             \/ Mended)) \/ Mended'
  BY <1>24, Apart DEF Kick, Released, LoopReads, Goto, Stale, Superseded
<1>25. ASSUME NEW d \in Instance, Drop(d)
      PROVE  key' /\ inst' # None /\ ~conn'[inst'] => (inst' = inst /\ key
               /\ (~conn[inst]
             \/ Mended)) \/ Mended'
  BY <1>25, Apart DEF Drop
<1>26. ASSUME NEW d \in Instance, NEW b \in BOOLEAN, DropTold(d, b)
      PROVE  key' /\ inst' # None /\ ~conn'[inst'] => (inst' = inst /\ key
               /\ (~conn[inst]
             \/ Mended)) \/ Mended'
  BY <1>26, Apart DEF DropTold, LoopReads, Retrying, Note
<1>27. ASSUME UNCHANGED vars
      PROVE  key' /\ inst' # None /\ ~conn'[inst'] => (inst' = inst /\ key
               /\ (~conn[inst]
             \/ Mended)) \/ Mended'
  BY <1>27, Apart DEF vars, links, flags, coros, count
<1> HIDE DEF TypeOK, Goto, links, flags, coros, count, Clean
<1> QED
  BY <1>1, <1>2, <1>3, <1>4, <1>5, <1>6, <1>7, <1>8, <1>9, <1>10, <1>11, <1>12,
     <1>13, <1>14, <1>15, <1>16, <1>17, <1>18, <1>19, <1>20, <1>21, <1>22,
     <1>23, <1>24, <1>25, <1>26, <1>27 DEF Next, Entering, Head, ConnectStep,
     CloseStep

LEMMA KeyMoves ==
  ASSUME TypeOK, Clean, Clean', Shown, [Next]_vars
  PROVE  key' /\ inst' # None => (key /\ inst' = inst)
         \/ \E q \in Coroutine : Declare(q)
<1> USE DEF TypeOK, Goto, links, flags, coros, count, Clean
<1>1. ASSUME NEW r \in Request, NEW o \in Door, Press(r, o),
             \A s \in Request : ~Entering(s)
      PROVE  key' /\ inst' # None => (key /\ inst' = inst)
             \/ \E q \in Coroutine : Declare(q)
  BY <1>1, Apart DEF Press, Released, Stale, Note
<1>2. ASSUME NEW r \in Request, Reconnect(r)
      PROVE  key' /\ inst' # None => (key /\ inst' = inst)
             \/ \E q \in Coroutine : Declare(q)
  BY <1>2, Apart DEF Reconnect, Past, Closing, Goto
<1>3. ASSUME NEW r \in Request, Pause(r)
      PROVE  key' /\ inst' # None => (key /\ inst' = inst)
             \/ \E q \in Coroutine : Declare(q)
  BY <1>3, Apart DEF Pause, Past, Closing, Goto, Note
<1>4. ASSUME NEW r \in Request, BeginSetup(r)
      PROVE  key' /\ inst' # None => (key /\ inst' = inst)
             \/ \E q \in Coroutine : Declare(q)
  BY <1>4, Apart DEF BeginSetup, Past, Goto
<1>5. ASSUME NEW r \in Request, Remove(r)
      PROVE  key' /\ inst' # None => (key /\ inst' = inst)
             \/ \E q \in Coroutine : Declare(q)
  BY <1>5, Apart DEF Remove, Past, Closing, Goto
<1>6. ASSUME NEW r \in Request, PressResume(r)
      PROVE  key' /\ inst' # None => (key /\ inst' = inst)
             \/ \E q \in Coroutine : Declare(q)
  BY <1>6, Apart DEF PressResume, Resume, Dial, Locked, Dialed, Goto, Note
<1>7. ASSUME NEW r \in Request, EndSetup(r)
      PROVE  key' /\ inst' # None => (key /\ inst' = inst)
             \/ \E q \in Coroutine : Declare(q)
  BY <1>7, Apart DEF EndSetup, Done, Discards, LoopReads, Goto, Retrying
<1>8. ASSUME NEW r \in Request, SetupRedials(r)
      PROVE  key' /\ inst' # None => (key /\ inst' = inst)
             \/ \E q \in Coroutine : Declare(q)
  BY <1>8, Apart DEF SetupRedials, Closing, Goto
<1>9. ASSUME NEW p \in Coroutine, Enter(p)
      PROVE  key' /\ inst' # None => (key /\ inst' = inst)
             \/ \E q \in Coroutine : Declare(q)
  BY <1>9, Apart DEF Enter, Current, Locked, Goto
<1>10. ASSUME NEW p \in Coroutine, Declare(p)
      PROVE  key' /\ inst' # None => (key /\ inst' = inst)
             \/ \E q \in Coroutine : Declare(q)
  BY <1>10
<1>11. ASSUME NEW p \in Coroutine, Connected(p)
      PROVE  key' /\ inst' # None => (key /\ inst' = inst)
             \/ \E q \in Coroutine : Declare(q)
  BY <1>11, Apart DEF Connected, Current, Stale, Superseded, DownAgain,
     Released, LoopReads, Again, Goto
<1>12. ASSUME NEW p \in Coroutine, Settled(p)
      PROVE  key' /\ inst' # None => (key /\ inst' = inst)
             \/ \E q \in Coroutine : Declare(q)
  BY <1>12, Apart DEF Settled, DownAgain, Done, Discards, LoopReads, Again,
     Goto, Retrying
<1>13. ASSUME NEW p \in Coroutine, Unwind(p)
      PROVE  key' /\ inst' # None => (key /\ inst' = inst)
             \/ \E q \in Coroutine : Declare(q)
  BY <1>13, Apart DEF Unwind, Ended, Current, Stale, Superseded, Released,
     Done, Discards, LoopReads, Goto, Retrying
<1>14. ASSUME NEW p \in Coroutine, NEW b \in BOOLEAN, ConnectFails(p, b)
      PROVE  key' /\ inst' # None => (key /\ inst' = inst)
             \/ \E q \in Coroutine : Declare(q)
  BY <1>14, Apart DEF ConnectFails, Current, Stale, Superseded, Released, Done,
     Discards, LoopReads, Again, Goto, Retrying
<1>15. ASSUME NEW p \in Coroutine, Redial(p)
      PROVE  key' /\ inst' # None => (key /\ inst' = inst)
             \/ \E q \in Coroutine : Declare(q)
  BY <1>15, Apart DEF Redial, Superseded, Shut, Closed, Dialed, Informed,
     Retrying, LoopReads, Goto, Note
<1>16. ASSUME NEW p \in Coroutine, PauseHolds(p)
      PROVE  key' /\ inst' # None => (key /\ inst' = inst)
             \/ \E q \in Coroutine : Declare(q)
  BY <1>16, Apart DEF PauseHolds, Superseded, Shut, Closed, Informed, Retrying,
     LoopReads, Goto, Note
<1>17. ASSUME NEW p \in Coroutine, Removed(p)
      PROVE  key' /\ inst' # None => (key /\ inst' = inst)
             \/ \E q \in Coroutine : Declare(q)
  BY <1>17, Apart DEF Removed, Shut, Closed, Goto
<1>18. ASSUME NEW p \in Coroutine, Readded(p)
      PROVE  key' /\ inst' # None => (key /\ inst' = inst)
             \/ \E q \in Coroutine : Declare(q)
  BY <1>18, Apart DEF Readded, Shut, Closed, CarriedArmed, Goto
<1>19. ASSUME NEW p \in Coroutine, Discarded(p)
      PROVE  key' /\ inst' # None => (key /\ inst' = inst)
             \/ \E q \in Coroutine : Declare(q)
  BY <1>19, Apart DEF Discarded, Shut, Informed, Retrying, LoopReads, LiveKey,
     Goto, Shown
<1>20. ASSUME Expire
      PROVE  key' /\ inst' # None => (key /\ inst' = inst)
             \/ \E q \in Coroutine : Declare(q)
  BY <1>20, Apart DEF Expire, Resume, Dial, Locked, Dialed, Goto, Note
<1>21. ASSUME ExpireRemoved
      PROVE  key' /\ inst' # None => (key /\ inst' = inst)
             \/ \E q \in Coroutine : Declare(q)
  BY <1>21, Apart DEF ExpireRemoved
<1>22. ASSUME BringUp
      PROVE  key' /\ inst' # None => (key /\ inst' = inst)
             \/ \E q \in Coroutine : Declare(q)
  BY <1>22, Apart DEF BringUp, Dial, Locked, Dialed, Goto, Note
<1>23. ASSUME Retry, \A s \in Request : ~Entering(s)
      PROVE  key' /\ inst' # None => (key /\ inst' = inst)
             \/ \E q \in Coroutine : Declare(q)
  BY <1>23, Apart DEF Retry, Dial, Locked, Dialed, Goto, Superseded
<1>24. ASSUME Kick
      PROVE  key' /\ inst' # None => (key /\ inst' = inst)
             \/ \E q \in Coroutine : Declare(q)
  BY <1>24, Apart DEF Kick, Released, LoopReads, Goto, Stale, Superseded
<1>25. ASSUME NEW d \in Instance, Drop(d)
      PROVE  key' /\ inst' # None => (key /\ inst' = inst)
             \/ \E q \in Coroutine : Declare(q)
  BY <1>25, Apart DEF Drop
<1>26. ASSUME NEW d \in Instance, NEW b \in BOOLEAN, DropTold(d, b)
      PROVE  key' /\ inst' # None => (key /\ inst' = inst)
             \/ \E q \in Coroutine : Declare(q)
  BY <1>26, Apart DEF DropTold, LoopReads, Retrying, Note
<1>27. ASSUME UNCHANGED vars
      PROVE  key' /\ inst' # None => (key /\ inst' = inst)
             \/ \E q \in Coroutine : Declare(q)
  BY <1>27, Apart DEF vars, links, flags, coros, count
<1> HIDE DEF TypeOK, Goto, links, flags, coros, count, Clean
<1> QED
  BY <1>1, <1>2, <1>3, <1>4, <1>5, <1>6, <1>7, <1>8, <1>9, <1>10, <1>11, <1>12,
     <1>13, <1>14, <1>15, <1>16, <1>17, <1>18, <1>19, <1>20, <1>21, <1>22,
     <1>23, <1>24, <1>25, <1>26, <1>27 DEF Next, Entering, Head, ConnectStep,
     CloseStep

LEMMA DeclareAlone ==
  ASSUME TypeOK, Left, LockHeld, Clean, inst # None, NEW q \in Coroutine,
         Declare(q), NEW x \in Coroutine
  PROVE  inst' = inst /\ conn'[inst] /\ ~Loose(x)'
<1>1. OwnDriver(q) /\ HoldsLock(q) /\ HoldsLock(x) /\ drv[q] \in Instance
  BY OwnAttempt DEF LockHeld, TypeOK
<1>2. /\ attempt[drv[q]] = q /\ pc[q] = "dialing" /\ inst' = inst
           /\ drv' = drv /\ attempt' = attempt
      /\ conn' = [conn EXCEPT ![drv[q]] = TRUE]
           /\ pc' = [pc EXCEPT ![q] = "tail"]
  BY DEF Declare, Current, Goto
<1>3. drv[q] = inst /\ lock[inst] = q
  BY <1>1, <1>2 DEF OwnDriver, HoldsLock
<1>4. conn'[inst]
  BY <1>1, <1>2, <1>3 DEF TypeOK
<1>5. ~Loose(x)'
  <2>1. CASE x = q
    BY <1>2, <2>1 DEF Loose
  <2>2. CASE x # q
    BY <1>1, <1>2, <1>3, <2>2 DEF Loose, HoldsLock, TypeOK
  <2> QED  BY <2>1, <2>2
<1> QED  BY <1>2, <1>4, <1>5

LEMMA CardInvStep ==
  ASSUME Basics, Left, LockHeld, WorkerClosesOld, Stations, CardInv, TypeOK',
         [Next]_vars
  PROVE  CardInv'
<1> USE DEF Basics
<1> SUFFICES ASSUME Clean' PROVE CardInv'
  BY DEF CardInv
<1>1. Clean
  BY CleanKept
<1>2. /\ Shown /\ \A p \in Coroutine : Resumed(p)
      /\ \A p \in Coroutine : key /\ inst # None /\ Loose(p) => Mended
  BY <1>1 DEF CardInv, Shown, Resumed
<1>3. inst = None \/ Attempted(inst)
  <2>1. inst # None => inst \in Instance
    BY DEF TypeOK
  <2> QED  BY <2>1 DEF Attempts
<1>4. Shown'
  BY <1>1, <1>2, ShownStep
<1>5. \A p \in Coroutine : Resumed(p)'
  BY <1>1, <1>2, <1>3, DialingMoves DEF Roles
<1>6. ASSUME inst' = inst, inst # None, key', Mended
      PROVE  Mended' \/ \E q \in Coroutine : Declare(q)
  <2>1. PICK x \in Coroutine : Mends(x)
    BY <1>6 DEF Mended
  <2>2. Mends(x)' \/ Mended' \/ \E q \in Coroutine : Declare(q)
    BY <1>1, <1>2, <1>3, <1>6, <2>1, MendsMoves DEF Roles, WorkerClosesOld,
       Stations
  <2> QED  BY <2>2 DEF Mended
<1>7. ASSUME inst' # None, key', ~conn'[inst']  PROVE  Mended'
  <2>1. (key /\ inst' = inst) \/ \E q \in Coroutine : Declare(q)
    BY <1>1, <1>2, <1>7, KeyMoves
  <2>2. (inst' = inst /\ key /\ (~conn[inst] \/ Mended)) \/ Mended'
    BY <1>1, <1>2, <1>3, <1>7, DownMoves
  <2>3. CASE \E q \in Coroutine : Declare(q)
    <3>1. inst = inst'
      BY <2>3 DEF Declare
    <3> QED  BY <1>1, <1>7, <2>3, <3>1, DeclareAlone
  <2>4. CASE inst' = inst /\ key /\ (~conn[inst] \/ Mended)
    <3>1. Mended
      BY <1>1, <1>7, <2>4 DEF CardInv
    <3> QED  BY <1>6, <1>7, <2>3, <2>4, <3>1
  <2> QED  BY <2>2, <2>4
<1>8. ASSUME NEW x \in Coroutine, inst' # None, key', Loose(x)'  PROVE  Mended'
  <2>1. (key /\ inst' = inst) \/ \E q \in Coroutine : Declare(q)
    BY <1>1, <1>2, <1>8, KeyMoves
  <2>2. CASE \E q \in Coroutine : Declare(q)
    <3>1. inst = inst'
      BY <2>2 DEF Declare
    <3> QED  BY <1>1, <1>8, <2>2, <3>1, DeclareAlone
  <2>3. CASE key /\ inst' = inst
    <3>1. Loose(x) \/ Mended' \/ \E q \in Coroutine : Declare(q)
      BY <1>1, <1>2, <1>3, <1>8, <2>3, LooseMoves DEF Roles
    <3>2. Loose(x) => Mended
      BY <1>2, <1>8, <2>3
    <3> QED  BY <1>6, <1>8, <2>2, <2>3, <3>1, <3>2
  <2> QED  BY <2>1, <2>2, <2>3
<1> QED  BY <1>4, <1>5, <1>7, <1>8 DEF CardInv, Shown, Resumed

-----------------------------------------------------------------------------
(* The mark and the retry loop.                                            *)

Closes(p) == pc[p] = "closing" /\ op[p] \in {"reconnect", "pause", "setup"}

(* Who set the mark of a device that is not paused is still under way.     *)
Holder(p) == op[p] \in {"reconnect", "pause", "setup"} /\ pc[p] # "idle"
Marked    == inst # None /\ mark => paused \/ \E p \in Coroutine : Holder(p)

(* A removal has cancelled the loop. *)
LoopCleared(p) == Removing(p) => pc["loop"] \in {"idle", "waiting"}
LoopsCleared   == \A p \in Coroutine : LoopCleared(p)

(* Nobody waits for an instance whose newest connect dials. *)
Foremost(p, q) ==
    inst # None /\ attempt[inst] = p /\ pc[p] \in {"dialing", "tail"} /\ q # p
        => ~(Connects(q) /\ drv[q] = inst)
AllForemost == \A p, q \in Coroutine : Foremost(p, q)

(* The loop dials the device's instance, and what ended its dial is still  *)
(* to come, but for a pause.                                               *)
LoopPlace == Clean /\ inst # None /\ Connects("loop") => drv["loop"] = inst
LoopOwned == Clean /\ inst # None /\ ~paused /\ Connects("loop") =>
                attempt[inst] # None \/ \E p \in Coroutine : Closes(p)

LEMMA HolderMoves ==
  ASSUME TypeOK, Removals, NEW x \in Coroutine, Holder(x), Role(x),
         Station(x), inst # None, [Next]_vars
  PROVE  Holder(x)' \/ ~mark' \/ paused' \/ inst' = None
<1> USE DEF TypeOK, Goto, links, flags, coros, count, Holder, Role, Station
<1>1. ASSUME NEW r \in Request, NEW o \in Door, Press(r, o),
             \A s \in Request : ~Entering(s)
      PROVE  Holder(x)' \/ ~mark' \/ paused' \/ inst' = None
  BY <1>1, Apart DEF Press, Released, Stale, Note
<1>2. ASSUME NEW r \in Request, Reconnect(r)
      PROVE  Holder(x)' \/ ~mark' \/ paused' \/ inst' = None
  BY <1>2, Apart DEF Reconnect, Past, Closing, Goto
<1>3. ASSUME NEW r \in Request, Pause(r)
      PROVE  Holder(x)' \/ ~mark' \/ paused' \/ inst' = None
  BY <1>3, Apart DEF Pause, Past, Closing, Goto, Note
<1>4. ASSUME NEW r \in Request, BeginSetup(r)
      PROVE  Holder(x)' \/ ~mark' \/ paused' \/ inst' = None
  BY <1>4, Apart DEF BeginSetup, Past, Goto
<1>5. ASSUME NEW r \in Request, Remove(r)
      PROVE  Holder(x)' \/ ~mark' \/ paused' \/ inst' = None
  BY <1>5, Apart DEF Remove, Past, Closing, Goto
<1>6. ASSUME NEW r \in Request, PressResume(r)
      PROVE  Holder(x)' \/ ~mark' \/ paused' \/ inst' = None
  BY <1>6, Apart DEF PressResume, Resume, Dial, Locked, Dialed, Goto, Note
<1>7. ASSUME NEW r \in Request, EndSetup(r)
      PROVE  Holder(x)' \/ ~mark' \/ paused' \/ inst' = None
  BY <1>7, Apart DEF EndSetup, Done, Discards, LoopReads, Goto, Retrying
<1>8. ASSUME NEW r \in Request, SetupRedials(r)
      PROVE  Holder(x)' \/ ~mark' \/ paused' \/ inst' = None
  BY <1>8, Apart DEF SetupRedials, Closing, Goto
<1>9. ASSUME NEW p \in Coroutine, Enter(p)
      PROVE  Holder(x)' \/ ~mark' \/ paused' \/ inst' = None
  BY <1>9, Apart DEF Enter, Current, Locked, Goto
<1>10. ASSUME NEW p \in Coroutine, Declare(p)
      PROVE  Holder(x)' \/ ~mark' \/ paused' \/ inst' = None
  BY <1>10, Apart DEF Declare, Current, Goto
<1>11. ASSUME NEW p \in Coroutine, Connected(p)
      PROVE  Holder(x)' \/ ~mark' \/ paused' \/ inst' = None
  BY <1>11, Apart DEF Connected, Current, Stale, Superseded, DownAgain,
     Released, LoopReads, Again, Goto
<1>12. ASSUME NEW p \in Coroutine, Settled(p)
      PROVE  Holder(x)' \/ ~mark' \/ paused' \/ inst' = None
  BY <1>12, Apart DEF Settled, DownAgain, Done, Discards, LoopReads, Again,
     Goto, Retrying
<1>13. ASSUME NEW p \in Coroutine, Unwind(p)
      PROVE  Holder(x)' \/ ~mark' \/ paused' \/ inst' = None
  BY <1>13, Apart DEF Unwind, Ended, Current, Stale, Superseded, Released,
     Done, Discards, LoopReads, Goto, Retrying
<1>14. ASSUME NEW p \in Coroutine, NEW b \in BOOLEAN, ConnectFails(p, b)
      PROVE  Holder(x)' \/ ~mark' \/ paused' \/ inst' = None
  BY <1>14, Apart DEF ConnectFails, Current, Stale, Superseded, Released, Done,
     Discards, LoopReads, Again, Goto, Retrying
<1>15. ASSUME NEW p \in Coroutine, Redial(p)
      PROVE  Holder(x)' \/ ~mark' \/ paused' \/ inst' = None
  BY <1>15, Apart DEF Redial, Superseded, Shut, Closed, Dialed, Informed,
     Retrying, LoopReads, Goto, Note
<1>16. ASSUME NEW p \in Coroutine, PauseHolds(p)
      PROVE  Holder(x)' \/ ~mark' \/ paused' \/ inst' = None
  BY <1>16, Apart DEF PauseHolds, Superseded, Shut, Closed, Informed, Retrying,
     LoopReads, Goto, Note
<1>17. ASSUME NEW p \in Coroutine, Removed(p)
      PROVE  Holder(x)' \/ ~mark' \/ paused' \/ inst' = None
  BY <1>17, Apart DEF Removed, Shut, Closed, Goto
<1>18. ASSUME NEW p \in Coroutine, Readded(p)
      PROVE  Holder(x)' \/ ~mark' \/ paused' \/ inst' = None
  BY <1>18, Apart DEF Readded, Shut, Closed, CarriedArmed, Goto
<1>19. ASSUME NEW p \in Coroutine, Discarded(p)
      PROVE  Holder(x)' \/ ~mark' \/ paused' \/ inst' = None
  BY <1>19, Apart DEF Discarded, Shut, Informed, Retrying, LoopReads, LiveKey,
     Goto
<1>20. ASSUME Expire  PROVE  Holder(x)' \/ ~mark' \/ paused' \/ inst' = None
  BY <1>20, Apart DEF Expire, Resume, Dial, Locked, Dialed, Goto, Note
<1>21. ASSUME ExpireRemoved
      PROVE  Holder(x)' \/ ~mark' \/ paused' \/ inst' = None
  BY <1>21, Apart DEF ExpireRemoved
<1>22. ASSUME BringUp  PROVE  Holder(x)' \/ ~mark' \/ paused' \/ inst' = None
  BY <1>22, Apart DEF BringUp, Dial, Locked, Dialed, Goto, Note
<1>23. ASSUME Retry, \A s \in Request : ~Entering(s)
      PROVE  Holder(x)' \/ ~mark' \/ paused' \/ inst' = None
  BY <1>23, Apart DEF Retry, Dial, Locked, Dialed, Goto, Superseded
<1>24. ASSUME Kick  PROVE  Holder(x)' \/ ~mark' \/ paused' \/ inst' = None
  BY <1>24, Apart DEF Kick, Released, LoopReads, Goto, Stale, Superseded
<1>25. ASSUME NEW d \in Instance, Drop(d)
      PROVE  Holder(x)' \/ ~mark' \/ paused' \/ inst' = None
  BY <1>25, Apart DEF Drop
<1>26. ASSUME NEW d \in Instance, NEW b \in BOOLEAN, DropTold(d, b)
      PROVE  Holder(x)' \/ ~mark' \/ paused' \/ inst' = None
  BY <1>26, Apart DEF DropTold, LoopReads, Retrying, Note
<1>27. ASSUME UNCHANGED vars
      PROVE  Holder(x)' \/ ~mark' \/ paused' \/ inst' = None
  BY <1>27, Apart DEF vars, links, flags, coros, count
<1> HIDE DEF TypeOK, Goto, links, flags, coros, count, Holder, Role, Station
<1> QED
  BY <1>1, <1>2, <1>3, <1>4, <1>5, <1>6, <1>7, <1>8, <1>9, <1>10, <1>11, <1>12,
     <1>13, <1>14, <1>15, <1>16, <1>17, <1>18, <1>19, <1>20, <1>21, <1>22,
     <1>23, <1>24, <1>25, <1>26, <1>27 DEF Next, Entering, Head, ConnectStep,
     CloseStep

LEMMA MarkMoves ==
  ASSUME TypeOK, Removals, [Next]_vars
  PROVE  mark' /\ inst' # None => (mark /\ inst # None) \/ paused'
         \/ \E q \in Coroutine : Holder(q)'
<1> USE DEF TypeOK, Goto, links, flags, coros, count
<1>1. ASSUME NEW r \in Request, NEW o \in Door, Press(r, o),
             \A s \in Request : ~Entering(s)
      PROVE  mark' /\ inst' # None => (mark /\ inst # None) \/ paused'
             \/ \E q \in Coroutine : Holder(q)'
  BY <1>1, Apart DEF Press, Released, Stale, Note
<1>2. ASSUME NEW r \in Request, Reconnect(r)
      PROVE  mark' /\ inst' # None => (mark /\ inst # None) \/ paused'
             \/ \E q \in Coroutine : Holder(q)'
  <2>1. Holder(r)'
    BY <1>2, Apart DEF Reconnect, Past, Goto, Holder
  <2> QED  BY <2>1, Apart
<1>3. ASSUME NEW r \in Request, Pause(r)
      PROVE  mark' /\ inst' # None => (mark /\ inst # None) \/ paused'
             \/ \E q \in Coroutine : Holder(q)'
  <2>1. Holder(r)'
    BY <1>3, Apart DEF Pause, Past, Goto, Holder
  <2> QED  BY <2>1, Apart
<1>4. ASSUME NEW r \in Request, BeginSetup(r)
      PROVE  mark' /\ inst' # None => (mark /\ inst # None) \/ paused'
             \/ \E q \in Coroutine : Holder(q)'
  <2>1. Holder(r)'
    BY <1>4, Apart DEF BeginSetup, Past, Goto, Holder
  <2> QED  BY <2>1, Apart
<1>5. ASSUME NEW r \in Request, Remove(r)
      PROVE  mark' /\ inst' # None => (mark /\ inst # None) \/ paused'
             \/ \E q \in Coroutine : Holder(q)'
  BY <1>5, Apart DEF Remove, Past, Closing, Goto
<1>6. ASSUME NEW r \in Request, PressResume(r)
      PROVE  mark' /\ inst' # None => (mark /\ inst # None) \/ paused'
             \/ \E q \in Coroutine : Holder(q)'
  BY <1>6, Apart DEF PressResume, Resume, Dial, Locked, Dialed, Goto, Note
<1>7. ASSUME NEW r \in Request, EndSetup(r)
      PROVE  mark' /\ inst' # None => (mark /\ inst # None) \/ paused'
             \/ \E q \in Coroutine : Holder(q)'
  BY <1>7, Apart DEF EndSetup, Done, Discards, LoopReads, Goto, Retrying
<1>8. ASSUME NEW r \in Request, SetupRedials(r)
      PROVE  mark' /\ inst' # None => (mark /\ inst # None) \/ paused'
             \/ \E q \in Coroutine : Holder(q)'
  BY <1>8, Apart DEF SetupRedials, Closing, Goto
<1>9. ASSUME NEW p \in Coroutine, Enter(p)
      PROVE  mark' /\ inst' # None => (mark /\ inst # None) \/ paused'
             \/ \E q \in Coroutine : Holder(q)'
  BY <1>9, Apart DEF Enter, Current, Locked, Goto
<1>10. ASSUME NEW p \in Coroutine, Declare(p)
      PROVE  mark' /\ inst' # None => (mark /\ inst # None) \/ paused'
             \/ \E q \in Coroutine : Holder(q)'
  BY <1>10, Apart DEF Declare, Current, Goto
<1>11. ASSUME NEW p \in Coroutine, Connected(p)
      PROVE  mark' /\ inst' # None => (mark /\ inst # None) \/ paused'
             \/ \E q \in Coroutine : Holder(q)'
  BY <1>11, Apart DEF Connected, Current, Stale, Superseded, DownAgain,
     Released, LoopReads, Again, Goto
<1>12. ASSUME NEW p \in Coroutine, Settled(p)
      PROVE  mark' /\ inst' # None => (mark /\ inst # None) \/ paused'
             \/ \E q \in Coroutine : Holder(q)'
  BY <1>12, Apart DEF Settled, DownAgain, Done, Discards, LoopReads, Again,
     Goto, Retrying
<1>13. ASSUME NEW p \in Coroutine, Unwind(p)
      PROVE  mark' /\ inst' # None => (mark /\ inst # None) \/ paused'
             \/ \E q \in Coroutine : Holder(q)'
  BY <1>13, Apart DEF Unwind, Ended, Current, Stale, Superseded, Released,
     Done, Discards, LoopReads, Goto, Retrying
<1>14. ASSUME NEW p \in Coroutine, NEW b \in BOOLEAN, ConnectFails(p, b)
      PROVE  mark' /\ inst' # None => (mark /\ inst # None) \/ paused'
             \/ \E q \in Coroutine : Holder(q)'
  BY <1>14, Apart DEF ConnectFails, Current, Stale, Superseded, Released, Done,
     Discards, LoopReads, Again, Goto, Retrying
<1>15. ASSUME NEW p \in Coroutine, Redial(p)
      PROVE  mark' /\ inst' # None => (mark /\ inst # None) \/ paused'
             \/ \E q \in Coroutine : Holder(q)'
  BY <1>15, Apart DEF Redial, Superseded, Shut, Closed, Dialed, Informed,
     Retrying, LoopReads, Goto, Note
<1>16. ASSUME NEW p \in Coroutine, PauseHolds(p)
      PROVE  mark' /\ inst' # None => (mark /\ inst # None) \/ paused'
             \/ \E q \in Coroutine : Holder(q)'
  BY <1>16, Apart DEF PauseHolds, Superseded, Shut, Closed, Informed, Retrying,
     LoopReads, Goto, Note
<1>17. ASSUME NEW p \in Coroutine, Removed(p)
      PROVE  mark' /\ inst' # None => (mark /\ inst # None) \/ paused'
             \/ \E q \in Coroutine : Holder(q)'
  BY <1>17, Apart DEF Removed, Shut, Closed, Goto
<1>18. ASSUME NEW p \in Coroutine, Readded(p)
      PROVE  mark' /\ inst' # None => (mark /\ inst # None) \/ paused'
             \/ \E q \in Coroutine : Holder(q)'
  BY <1>18, Apart DEF Readded, Shut, Closed, CarriedArmed, Goto
<1>19. ASSUME NEW p \in Coroutine, Discarded(p)
      PROVE  mark' /\ inst' # None => (mark /\ inst # None) \/ paused'
             \/ \E q \in Coroutine : Holder(q)'
  BY <1>19, Apart DEF Discarded, Shut, Informed, Retrying, LoopReads, LiveKey,
     Goto
<1>20. ASSUME Expire
      PROVE  mark' /\ inst' # None => (mark /\ inst # None) \/ paused'
             \/ \E q \in Coroutine : Holder(q)'
  BY <1>20, Apart DEF Expire, Resume, Dial, Locked, Dialed, Goto, Note
<1>21. ASSUME ExpireRemoved
      PROVE  mark' /\ inst' # None => (mark /\ inst # None) \/ paused'
             \/ \E q \in Coroutine : Holder(q)'
  BY <1>21, Apart DEF ExpireRemoved
<1>22. ASSUME BringUp
      PROVE  mark' /\ inst' # None => (mark /\ inst # None) \/ paused'
             \/ \E q \in Coroutine : Holder(q)'
  BY <1>22, Apart DEF BringUp, Dial, Locked, Dialed, Goto, Note
<1>23. ASSUME Retry, \A s \in Request : ~Entering(s)
      PROVE  mark' /\ inst' # None => (mark /\ inst # None) \/ paused'
             \/ \E q \in Coroutine : Holder(q)'
  BY <1>23, Apart DEF Retry, Dial, Locked, Dialed, Goto, Superseded
<1>24. ASSUME Kick
      PROVE  mark' /\ inst' # None => (mark /\ inst # None) \/ paused'
             \/ \E q \in Coroutine : Holder(q)'
  BY <1>24, Apart DEF Kick, Released, LoopReads, Goto, Stale, Superseded
<1>25. ASSUME NEW d \in Instance, Drop(d)
      PROVE  mark' /\ inst' # None => (mark /\ inst # None) \/ paused'
             \/ \E q \in Coroutine : Holder(q)'
  BY <1>25, Apart DEF Drop
<1>26. ASSUME NEW d \in Instance, NEW b \in BOOLEAN, DropTold(d, b)
      PROVE  mark' /\ inst' # None => (mark /\ inst # None) \/ paused'
             \/ \E q \in Coroutine : Holder(q)'
  BY <1>26, Apart DEF DropTold, LoopReads, Retrying, Note
<1>27. ASSUME UNCHANGED vars
      PROVE  mark' /\ inst' # None => (mark /\ inst # None) \/ paused'
             \/ \E q \in Coroutine : Holder(q)'
  BY <1>27, Apart DEF vars, links, flags, coros, count
<1> HIDE DEF TypeOK, Goto, links, flags, coros, count
<1> QED
  BY <1>1, <1>2, <1>3, <1>4, <1>5, <1>6, <1>7, <1>8, <1>9, <1>10, <1>11, <1>12,
     <1>13, <1>14, <1>15, <1>16, <1>17, <1>18, <1>19, <1>20, <1>21, <1>22,
     <1>23, <1>24, <1>25, <1>26, <1>27 DEF Next, Entering, Head, ConnectStep,
     CloseStep

LEMMA UnpauseMoves ==
  ASSUME TypeOK, Removals, inst # None, paused, [Next]_vars
  PROVE  inst' = None \/ ~mark' \/ paused' \/ \E q \in Coroutine : Holder(q)'
<1> USE DEF TypeOK, Goto, links, flags, coros, count
<1>1. ASSUME NEW r \in Request, NEW o \in Door, Press(r, o),
             \A s \in Request : ~Entering(s)
      PROVE  inst' = None \/ ~mark' \/ paused'
             \/ \E q \in Coroutine : Holder(q)'
  <2>1. paused' \/ (o = "reconnect" /\ pc'[r] # "idle" /\ op'[r] = o)
    BY <1>1, Apart DEF Press
  <2>2. paused' \/ Holder(r)'
    BY <2>1 DEF Holder
  <2> QED  BY <2>2, Apart
<1>2. ASSUME NEW r \in Request, Reconnect(r)
      PROVE  inst' = None \/ ~mark' \/ paused'
             \/ \E q \in Coroutine : Holder(q)'
  BY <1>2, Apart DEF Reconnect, Past, Closing, Goto
<1>3. ASSUME NEW r \in Request, Pause(r)
      PROVE  inst' = None \/ ~mark' \/ paused'
             \/ \E q \in Coroutine : Holder(q)'
  BY <1>3, Apart DEF Pause, Past, Closing, Goto, Note
<1>4. ASSUME NEW r \in Request, BeginSetup(r)
      PROVE  inst' = None \/ ~mark' \/ paused'
             \/ \E q \in Coroutine : Holder(q)'
  BY <1>4, Apart DEF BeginSetup, Past, Goto
<1>5. ASSUME NEW r \in Request, Remove(r)
      PROVE  inst' = None \/ ~mark' \/ paused'
             \/ \E q \in Coroutine : Holder(q)'
  BY <1>5, Apart DEF Remove, Past, Closing, Goto
<1>6. ASSUME NEW r \in Request, PressResume(r)
      PROVE  inst' = None \/ ~mark' \/ paused'
             \/ \E q \in Coroutine : Holder(q)'
  BY <1>6, Apart DEF PressResume, Resume, Dial, Locked, Dialed, Goto, Note
<1>7. ASSUME NEW r \in Request, EndSetup(r)
      PROVE  inst' = None \/ ~mark' \/ paused'
             \/ \E q \in Coroutine : Holder(q)'
  BY <1>7, Apart DEF EndSetup, Done, Discards, LoopReads, Goto, Retrying
<1>8. ASSUME NEW r \in Request, SetupRedials(r)
      PROVE  inst' = None \/ ~mark' \/ paused'
             \/ \E q \in Coroutine : Holder(q)'
  BY <1>8, Apart DEF SetupRedials, Closing, Goto
<1>9. ASSUME NEW p \in Coroutine, Enter(p)
      PROVE  inst' = None \/ ~mark' \/ paused'
             \/ \E q \in Coroutine : Holder(q)'
  BY <1>9, Apart DEF Enter, Current, Locked, Goto
<1>10. ASSUME NEW p \in Coroutine, Declare(p)
      PROVE  inst' = None \/ ~mark' \/ paused'
             \/ \E q \in Coroutine : Holder(q)'
  BY <1>10, Apart DEF Declare, Current, Goto
<1>11. ASSUME NEW p \in Coroutine, Connected(p)
      PROVE  inst' = None \/ ~mark' \/ paused'
             \/ \E q \in Coroutine : Holder(q)'
  BY <1>11, Apart DEF Connected, Current, Stale, Superseded, DownAgain,
     Released, LoopReads, Again, Goto
<1>12. ASSUME NEW p \in Coroutine, Settled(p)
      PROVE  inst' = None \/ ~mark' \/ paused'
             \/ \E q \in Coroutine : Holder(q)'
  BY <1>12, Apart DEF Settled, DownAgain, Done, Discards, LoopReads, Again,
     Goto, Retrying
<1>13. ASSUME NEW p \in Coroutine, Unwind(p)
      PROVE  inst' = None \/ ~mark' \/ paused'
             \/ \E q \in Coroutine : Holder(q)'
  BY <1>13, Apart DEF Unwind, Ended, Current, Stale, Superseded, Released,
     Done, Discards, LoopReads, Goto, Retrying
<1>14. ASSUME NEW p \in Coroutine, NEW b \in BOOLEAN, ConnectFails(p, b)
      PROVE  inst' = None \/ ~mark' \/ paused'
             \/ \E q \in Coroutine : Holder(q)'
  BY <1>14, Apart DEF ConnectFails, Current, Stale, Superseded, Released, Done,
     Discards, LoopReads, Again, Goto, Retrying
<1>15. ASSUME NEW p \in Coroutine, Redial(p)
      PROVE  inst' = None \/ ~mark' \/ paused'
             \/ \E q \in Coroutine : Holder(q)'
  BY <1>15, Apart DEF Redial, Superseded, Shut, Closed, Dialed, Informed,
     Retrying, LoopReads, Goto, Note
<1>16. ASSUME NEW p \in Coroutine, PauseHolds(p)
      PROVE  inst' = None \/ ~mark' \/ paused'
             \/ \E q \in Coroutine : Holder(q)'
  BY <1>16, Apart DEF PauseHolds, Superseded, Shut, Closed, Informed, Retrying,
     LoopReads, Goto, Note
<1>17. ASSUME NEW p \in Coroutine, Removed(p)
      PROVE  inst' = None \/ ~mark' \/ paused'
             \/ \E q \in Coroutine : Holder(q)'
  BY <1>17, Apart DEF Removed, Shut, Closed, Goto, Removals, Removing, Removal
<1>18. ASSUME NEW p \in Coroutine, Readded(p)
      PROVE  inst' = None \/ ~mark' \/ paused'
             \/ \E q \in Coroutine : Holder(q)'
  BY <1>18, Apart DEF Readded, Shut, Closed, CarriedArmed, Goto, Removals,
     Removing, Removal
<1>19. ASSUME NEW p \in Coroutine, Discarded(p)
      PROVE  inst' = None \/ ~mark' \/ paused'
             \/ \E q \in Coroutine : Holder(q)'
  BY <1>19, Apart DEF Discarded, Shut, Informed, Retrying, LoopReads, LiveKey,
     Goto
<1>20. ASSUME Expire
      PROVE  inst' = None \/ ~mark' \/ paused'
             \/ \E q \in Coroutine : Holder(q)'
  BY <1>20, Apart DEF Expire, Resume, Dial, Locked, Dialed, Goto, Note
<1>21. ASSUME ExpireRemoved
      PROVE  inst' = None \/ ~mark' \/ paused'
             \/ \E q \in Coroutine : Holder(q)'
  BY <1>21, Apart DEF ExpireRemoved
<1>22. ASSUME BringUp
      PROVE  inst' = None \/ ~mark' \/ paused'
             \/ \E q \in Coroutine : Holder(q)'
  BY <1>22, Apart DEF BringUp, Dial, Locked, Dialed, Goto, Note
<1>23. ASSUME Retry, \A s \in Request : ~Entering(s)
      PROVE  inst' = None \/ ~mark' \/ paused'
             \/ \E q \in Coroutine : Holder(q)'
  BY <1>23, Apart DEF Retry, Dial, Locked, Dialed, Goto, Superseded
<1>24. ASSUME Kick
      PROVE  inst' = None \/ ~mark' \/ paused'
             \/ \E q \in Coroutine : Holder(q)'
  BY <1>24, Apart DEF Kick, Released, LoopReads, Goto, Stale, Superseded
<1>25. ASSUME NEW d \in Instance, Drop(d)
      PROVE  inst' = None \/ ~mark' \/ paused'
             \/ \E q \in Coroutine : Holder(q)'
  BY <1>25, Apart DEF Drop
<1>26. ASSUME NEW d \in Instance, NEW b \in BOOLEAN, DropTold(d, b)
      PROVE  inst' = None \/ ~mark' \/ paused'
             \/ \E q \in Coroutine : Holder(q)'
  BY <1>26, Apart DEF DropTold, LoopReads, Retrying, Note
<1>27. ASSUME UNCHANGED vars
      PROVE  inst' = None \/ ~mark' \/ paused'
             \/ \E q \in Coroutine : Holder(q)'
  BY <1>27, Apart DEF vars, links, flags, coros, count
<1> HIDE DEF TypeOK, Goto, links, flags, coros, count
<1> QED
  BY <1>1, <1>2, <1>3, <1>4, <1>5, <1>6, <1>7, <1>8, <1>9, <1>10, <1>11, <1>12,
     <1>13, <1>14, <1>15, <1>16, <1>17, <1>18, <1>19, <1>20, <1>21, <1>22,
     <1>23, <1>24, <1>25, <1>26, <1>27 DEF Next, Entering, Head, ConnectStep,
     CloseStep

LEMMA MarkedStep ==
  ASSUME TypeOK, Removals, Roles, Stations, Marked, [Next]_vars
  PROVE  Marked'
<1> SUFFICES ASSUME inst' # None, mark', ~paused'
             PROVE  \E p \in Coroutine : Holder(p)'
  BY DEF Marked
<1>1. (mark /\ inst # None) \/ \E q \in Coroutine : Holder(q)'
  BY MarkMoves
<1>2. CASE mark /\ inst # None /\ paused
  BY <1>2, UnpauseMoves
<1>3. ASSUME NEW p \in Coroutine, Holder(p), inst # None  PROVE  Holder(p)'
  BY <1>3, HolderMoves DEF Roles, Stations
<1> QED  BY <1>1, <1>2, <1>3 DEF Marked

LEMMA LoopsClearedStep ==
  ASSUME TypeOK, Removals, Roles, LoopsCleared, [Next]_vars
  PROVE  LoopsCleared'
<1> SUFFICES ASSUME NEW x \in Coroutine, LoopCleared(x), Role(x)
             PROVE  LoopCleared(x)'
  BY DEF LoopsCleared, Roles
<1> USE DEF TypeOK, Goto, links, flags, coros, count, LoopCleared, Removing,
     Removal, Role
<1>1. ASSUME NEW r \in Request, NEW o \in Door, Press(r, o),
             \A s \in Request : ~Entering(s)
      PROVE  LoopCleared(x)'
  BY <1>1, Apart DEF Press, Released, Stale, Note
<1>2. ASSUME NEW r \in Request, Reconnect(r)  PROVE  LoopCleared(x)'
  BY <1>2, Apart DEF Reconnect, Past, Closing, Goto
<1>3. ASSUME NEW r \in Request, Pause(r)  PROVE  LoopCleared(x)'
  BY <1>3, Apart DEF Pause, Past, Closing, Goto, Note
<1>4. ASSUME NEW r \in Request, BeginSetup(r)  PROVE  LoopCleared(x)'
  BY <1>4, Apart DEF BeginSetup, Past, Goto
<1>5. ASSUME NEW r \in Request, Remove(r)  PROVE  LoopCleared(x)'
  BY <1>5, Apart DEF Remove, Past, Closing, Goto
<1>6. ASSUME NEW r \in Request, PressResume(r)  PROVE  LoopCleared(x)'
  BY <1>6, Apart DEF PressResume, Resume, Dial, Locked, Dialed, Goto, Note
<1>7. ASSUME NEW r \in Request, EndSetup(r)  PROVE  LoopCleared(x)'
  BY <1>7, Apart DEF EndSetup, Done, Discards, LoopReads, Goto, Retrying
<1>8. ASSUME NEW r \in Request, SetupRedials(r)  PROVE  LoopCleared(x)'
  BY <1>8, Apart DEF SetupRedials, Closing, Goto
<1>9. ASSUME NEW p \in Coroutine, Enter(p)  PROVE  LoopCleared(x)'
  BY <1>9, Apart DEF Enter, Current, Locked, Goto
<1>10. ASSUME NEW p \in Coroutine, Declare(p)  PROVE  LoopCleared(x)'
  BY <1>10, Apart DEF Declare, Current, Goto
<1>11. ASSUME NEW p \in Coroutine, Connected(p)  PROVE  LoopCleared(x)'
  BY <1>11, Apart DEF Connected, Current, Stale, Superseded, DownAgain,
     Released, LoopReads, Again, Goto
<1>12. ASSUME NEW p \in Coroutine, Settled(p)  PROVE  LoopCleared(x)'
  BY <1>12, Apart DEF Settled, DownAgain, Done, Discards, LoopReads, Again,
     Goto, Retrying
<1>13. ASSUME NEW p \in Coroutine, Unwind(p)  PROVE  LoopCleared(x)'
  BY <1>13, Apart DEF Unwind, Ended, Current, Stale, Superseded, Released,
     Done, Discards, LoopReads, Goto, Retrying
<1>14. ASSUME NEW p \in Coroutine, NEW b \in BOOLEAN, ConnectFails(p, b)
      PROVE  LoopCleared(x)'
  BY <1>14, Apart DEF ConnectFails, Current, Stale, Superseded, Released, Done,
     Discards, LoopReads, Again, Goto, Retrying
<1>15. ASSUME NEW p \in Coroutine, Redial(p)  PROVE  LoopCleared(x)'
  BY <1>15, Apart DEF Redial, Superseded, Shut, Closed, Dialed, Informed,
     Retrying, LoopReads, Goto, Note
<1>16. ASSUME NEW p \in Coroutine, PauseHolds(p)  PROVE  LoopCleared(x)'
  BY <1>16, Apart DEF PauseHolds, Superseded, Shut, Closed, Informed, Retrying,
     LoopReads, Goto, Note
<1>17. ASSUME NEW p \in Coroutine, Removed(p)  PROVE  LoopCleared(x)'
  BY <1>17, Apart DEF Removed, Shut, Closed, Goto
<1>18. ASSUME NEW p \in Coroutine, Readded(p)  PROVE  LoopCleared(x)'
  BY <1>18, Apart DEF Readded, Shut, Closed, CarriedArmed, Goto
<1>19. ASSUME NEW p \in Coroutine, Discarded(p)  PROVE  LoopCleared(x)'
  BY <1>19, Apart DEF Discarded, Shut, Informed, Retrying, LoopReads, LiveKey,
     Goto
<1>20. ASSUME Expire  PROVE  LoopCleared(x)'
  BY <1>20, Apart DEF Expire, Resume, Dial, Locked, Dialed, Goto, Note
<1>21. ASSUME ExpireRemoved  PROVE  LoopCleared(x)'
  BY <1>21, Apart DEF ExpireRemoved
<1>22. ASSUME BringUp  PROVE  LoopCleared(x)'
  BY <1>22, Apart DEF BringUp, Dial, Locked, Dialed, Goto, Note
<1>23. ASSUME Retry, \A s \in Request : ~Entering(s)  PROVE  LoopCleared(x)'
  <2>1. op' = op /\ pc' \in {Goto("loop", "idle"), Goto("loop",
          Dialed("loop", drv["loop"]))}
    BY <1>23 DEF Retry
  <2>2. CASE inst = None
    BY <1>23, <2>1, <2>2, ZenonT(60) DEF Retry
  <2>3. CASE inst # None
    <3>1. pc[x] \notin {"closing", "entering", "cancelling"} \/ ~Removing(x)
      <4>1. Removing(x) => x \in Request /\ pc[x] # "closing"
        BY <2>3 DEF Removals, Coroutine
      <4> QED  BY <1>23, <4>1 DEF Entering, Retry
    <3>2. ~Removing(x)
      BY <3>1 DEF Removals
    <3>3. x # "loop" => pc'[x] = pc[x]
      BY <2>1
    <3> QED  BY <2>1, <3>2, <3>3
  <2> QED  BY <2>2, <2>3
<1>24. ASSUME Kick  PROVE  LoopCleared(x)'
  BY <1>24, Apart DEF Kick, Released, LoopReads, Goto, Stale, Superseded
<1>25. ASSUME NEW d \in Instance, Drop(d)  PROVE  LoopCleared(x)'
  BY <1>25, Apart DEF Drop
<1>26. ASSUME NEW d \in Instance, NEW b \in BOOLEAN, DropTold(d, b)
      PROVE  LoopCleared(x)'
  BY <1>26, Apart DEF DropTold, LoopReads, Retrying, Note
<1>27. ASSUME UNCHANGED vars  PROVE  LoopCleared(x)'
  BY <1>27, Apart DEF vars, links, flags, coros, count
<1> HIDE DEF TypeOK, Goto, links, flags, coros, count, LoopCleared, Removing,
     Removal, Role
<1> QED
  BY <1>1, <1>2, <1>3, <1>4, <1>5, <1>6, <1>7, <1>8, <1>9, <1>10, <1>11, <1>12,
     <1>13, <1>14, <1>15, <1>16, <1>17, <1>18, <1>19, <1>20, <1>21, <1>22,
     <1>23, <1>24, <1>25, <1>26, <1>27 DEF Next, Entering, Head, ConnectStep,
     CloseStep

LEMMA ForemostStep ==
  ASSUME TypeOK, Removals, Fresh, LockHeld, AllForemost,
         inst = None \/ Attempted(inst), [Next]_vars
  PROVE  AllForemost'
<1> SUFFICES ASSUME NEW x \in Coroutine, NEW y \in Coroutine, Foremost(x, y),
                    HoldsLock(x), HoldsLock(y)
             PROVE  Foremost(x, y)'
  BY DEF AllForemost, LockHeld
<1> USE DEF TypeOK, Goto, links, flags, coros, count, Foremost, Connects,
     HoldsLock, Free, Attempted
<1>1. ASSUME NEW r \in Request, NEW o \in Door, Press(r, o),
             \A s \in Request : ~Entering(s)
      PROVE  Foremost(x, y)'
  BY <1>1, Apart DEF Press, Released, Stale, Note
<1>2. ASSUME NEW r \in Request, Reconnect(r)  PROVE  Foremost(x, y)'
  BY <1>2, Apart DEF Reconnect, Past, Closing, Goto
<1>3. ASSUME NEW r \in Request, Pause(r)  PROVE  Foremost(x, y)'
  BY <1>3, Apart DEF Pause, Past, Closing, Goto, Note
<1>4. ASSUME NEW r \in Request, BeginSetup(r)  PROVE  Foremost(x, y)'
  BY <1>4, Apart DEF BeginSetup, Past, Goto
<1>5. ASSUME NEW r \in Request, Remove(r)  PROVE  Foremost(x, y)'
  BY <1>5, Apart DEF Remove, Past, Closing, Goto
<1>6. ASSUME NEW r \in Request, PressResume(r)  PROVE  Foremost(x, y)'
  BY <1>6, Apart DEF PressResume, Resume, Dial, Locked, Dialed, Goto, Note
<1>7. ASSUME NEW r \in Request, EndSetup(r)  PROVE  Foremost(x, y)'
  BY <1>7, Apart DEF EndSetup, Done, Discards, LoopReads, Goto, Retrying
<1>8. ASSUME NEW r \in Request, SetupRedials(r)  PROVE  Foremost(x, y)'
  BY <1>8, Apart DEF SetupRedials, Closing, Goto
<1>9. ASSUME NEW p \in Coroutine, Enter(p)  PROVE  Foremost(x, y)'
  BY <1>9, Apart DEF Enter, Current, Locked, Goto
<1>10. ASSUME NEW p \in Coroutine, Declare(p)  PROVE  Foremost(x, y)'
  BY <1>10, Apart DEF Declare, Current, Goto
<1>11. ASSUME NEW p \in Coroutine, Connected(p)  PROVE  Foremost(x, y)'
  BY <1>11, Apart DEF Connected, Current, Stale, Superseded, DownAgain,
     Released, LoopReads, Again, Goto
<1>12. ASSUME NEW p \in Coroutine, Settled(p)  PROVE  Foremost(x, y)'
  BY <1>12, Apart DEF Settled, DownAgain, Done, Discards, LoopReads, Again,
     Goto, Retrying
<1>13. ASSUME NEW p \in Coroutine, Unwind(p)  PROVE  Foremost(x, y)'
  BY <1>13, Apart DEF Unwind, Ended, Current, Stale, Superseded, Released,
     Done, Discards, LoopReads, Goto, Retrying
<1>14. ASSUME NEW p \in Coroutine, NEW b \in BOOLEAN, ConnectFails(p, b)
      PROVE  Foremost(x, y)'
  BY <1>14, Apart DEF ConnectFails, Current, Stale, Superseded, Released, Done,
     Discards, LoopReads, Again, Goto, Retrying
<1>15. ASSUME NEW p \in Coroutine, Redial(p)  PROVE  Foremost(x, y)'
  BY <1>15, Apart DEF Redial, Superseded, Shut, Closed, Dialed, Informed,
     Retrying, LoopReads, Goto, Note
<1>16. ASSUME NEW p \in Coroutine, PauseHolds(p)  PROVE  Foremost(x, y)'
  BY <1>16, Apart DEF PauseHolds, Superseded, Shut, Closed, Informed, Retrying,
     LoopReads, Goto, Note
<1>17. ASSUME NEW p \in Coroutine, Removed(p)  PROVE  Foremost(x, y)'
  BY <1>17, Apart DEF Removed, Shut, Closed, Goto
<1>18. ASSUME NEW p \in Coroutine, Readded(p)  PROVE  Foremost(x, y)'
  <2>1. inst' = made + 1 /\ attempt' = attempt
    BY <1>18 DEF Readded
  <2>2. inst' \in Instance /\ inst' > made
    <3>1. made < MaxInstances
      BY <1>18 DEF Readded, Closed, Removals, Removing, Removal
    <3>2. made + 1 \in Instance
      BY <3>1, NextInstance
    <3> QED  BY <2>1, <3>2, Counted
  <2>3. attempt'[inst'] = None
    BY <2>1, <2>2 DEF Fresh, NotYetMade
  <2> QED  BY <2>3, Apart
<1>19. ASSUME NEW p \in Coroutine, Discarded(p)  PROVE  Foremost(x, y)'
  BY <1>19, Apart DEF Discarded, Shut, Informed, Retrying, LoopReads, LiveKey,
     Goto
<1>20. ASSUME Expire  PROVE  Foremost(x, y)'
  BY <1>20, Apart DEF Expire, Resume, Dial, Locked, Dialed, Goto, Note
<1>21. ASSUME ExpireRemoved  PROVE  Foremost(x, y)'
  BY <1>21, Apart DEF ExpireRemoved
<1>22. ASSUME BringUp  PROVE  Foremost(x, y)'
  BY <1>22, Apart DEF BringUp, Dial, Locked, Dialed, Goto, Note
<1>23. ASSUME Retry, \A s \in Request : ~Entering(s)  PROVE  Foremost(x, y)'
  BY <1>23, Apart DEF Retry, Dial, Locked, Dialed, Goto, Superseded
<1>24. ASSUME Kick  PROVE  Foremost(x, y)'
  BY <1>24, Apart DEF Kick, Released, LoopReads, Goto, Stale, Superseded
<1>25. ASSUME NEW d \in Instance, Drop(d)  PROVE  Foremost(x, y)'
  BY <1>25, Apart DEF Drop
<1>26. ASSUME NEW d \in Instance, NEW b \in BOOLEAN, DropTold(d, b)
      PROVE  Foremost(x, y)'
  BY <1>26, Apart DEF DropTold, LoopReads, Retrying, Note
<1>27. ASSUME UNCHANGED vars  PROVE  Foremost(x, y)'
  BY <1>27, Apart DEF vars, links, flags, coros, count
<1> HIDE DEF TypeOK, Goto, links, flags, coros, count, Foremost, Connects,
     HoldsLock, Free, Attempted
<1> QED
  BY <1>1, <1>2, <1>3, <1>4, <1>5, <1>6, <1>7, <1>8, <1>9, <1>10, <1>11, <1>12,
     <1>13, <1>14, <1>15, <1>16, <1>17, <1>18, <1>19, <1>20, <1>21, <1>22,
     <1>23, <1>24, <1>25, <1>26, <1>27 DEF Next, Entering, Head, ConnectStep,
     CloseStep

LEMMA LoopPlaceStep ==
  ASSUME TypeOK, Removals, LoopsCleared, LoopPlace, Clean, Clean', [Next]_vars
  PROVE  LoopPlace'
<1> USE DEF TypeOK, Goto, links, flags, coros, count, LoopPlace, Connects,
     Clean
<1>1. ASSUME NEW r \in Request, NEW o \in Door, Press(r, o),
             \A s \in Request : ~Entering(s)
      PROVE  LoopPlace'
  BY <1>1, Apart DEF Press, Released, Stale, Note
<1>2. ASSUME NEW r \in Request, Reconnect(r)  PROVE  LoopPlace'
  BY <1>2, Apart DEF Reconnect, Past, Closing, Goto
<1>3. ASSUME NEW r \in Request, Pause(r)  PROVE  LoopPlace'
  BY <1>3, Apart DEF Pause, Past, Closing, Goto, Note
<1>4. ASSUME NEW r \in Request, BeginSetup(r)  PROVE  LoopPlace'
  BY <1>4, Apart DEF BeginSetup, Past, Goto
<1>5. ASSUME NEW r \in Request, Remove(r)  PROVE  LoopPlace'
  BY <1>5, Apart DEF Remove, Past, Closing, Goto
<1>6. ASSUME NEW r \in Request, PressResume(r)  PROVE  LoopPlace'
  BY <1>6, Apart DEF PressResume, Resume, Dial, Locked, Dialed, Goto, Note
<1>7. ASSUME NEW r \in Request, EndSetup(r)  PROVE  LoopPlace'
  BY <1>7, Apart DEF EndSetup, Done, Discards, LoopReads, Goto, Retrying
<1>8. ASSUME NEW r \in Request, SetupRedials(r)  PROVE  LoopPlace'
  BY <1>8, Apart DEF SetupRedials, Closing, Goto
<1>9. ASSUME NEW p \in Coroutine, Enter(p)  PROVE  LoopPlace'
  BY <1>9, Apart DEF Enter, Current, Locked, Goto
<1>10. ASSUME NEW p \in Coroutine, Declare(p)  PROVE  LoopPlace'
  BY <1>10, Apart DEF Declare, Current, Goto
<1>11. ASSUME NEW p \in Coroutine, Connected(p)  PROVE  LoopPlace'
  BY <1>11, Apart DEF Connected, Current, Stale, Superseded, DownAgain,
     Released, LoopReads, Again, Goto
<1>12. ASSUME NEW p \in Coroutine, Settled(p)  PROVE  LoopPlace'
  BY <1>12, Apart DEF Settled, DownAgain, Done, Discards, LoopReads, Again,
     Goto, Retrying
<1>13. ASSUME NEW p \in Coroutine, Unwind(p)  PROVE  LoopPlace'
  BY <1>13, Apart DEF Unwind, Ended, Current, Stale, Superseded, Released,
     Done, Discards, LoopReads, Goto, Retrying
<1>14. ASSUME NEW p \in Coroutine, NEW b \in BOOLEAN, ConnectFails(p, b)
      PROVE  LoopPlace'
  BY <1>14, Apart DEF ConnectFails, Current, Stale, Superseded, Released, Done,
     Discards, LoopReads, Again, Goto, Retrying
<1>15. ASSUME NEW p \in Coroutine, Redial(p)  PROVE  LoopPlace'
  BY <1>15, Apart DEF Redial, Superseded, Shut, Closed, Dialed, Informed,
     Retrying, LoopReads, Goto, Note
<1>16. ASSUME NEW p \in Coroutine, PauseHolds(p)  PROVE  LoopPlace'
  BY <1>16, Apart DEF PauseHolds, Superseded, Shut, Closed, Informed, Retrying,
     LoopReads, Goto, Note
<1>17. ASSUME NEW p \in Coroutine, Removed(p)  PROVE  LoopPlace'
  BY <1>17, Apart DEF Removed, Shut, Closed, Goto
<1>18. ASSUME NEW p \in Coroutine, Readded(p)  PROVE  LoopPlace'
  <2>1. Removing(p) /\ pc' = [pc EXCEPT ![p] = "idle"]
    BY <1>18 DEF Readded, Closed, Removing, Removal
  <2>2. pc["loop"] \in {"idle", "waiting"}
    BY <2>1 DEF LoopsCleared, LoopCleared
  <2> QED  BY <2>1, <2>2, Apart
<1>19. ASSUME NEW p \in Coroutine, Discarded(p)  PROVE  LoopPlace'
  BY <1>19, Apart DEF Discarded, Shut, Informed, Retrying, LoopReads, LiveKey,
     Goto
<1>20. ASSUME Expire  PROVE  LoopPlace'
  BY <1>20, Apart DEF Expire, Resume, Dial, Locked, Dialed, Goto, Note
<1>21. ASSUME ExpireRemoved  PROVE  LoopPlace'
  BY <1>21, Apart DEF ExpireRemoved
<1>22. ASSUME BringUp  PROVE  LoopPlace'
  BY <1>22, Apart DEF BringUp, Dial, Locked, Dialed, Goto, Note
<1>23. ASSUME Retry, \A s \in Request : ~Entering(s)  PROVE  LoopPlace'
  BY <1>23, Apart DEF Retry, Dial, Locked, Dialed, Goto, Superseded
<1>24. ASSUME Kick  PROVE  LoopPlace'
  BY <1>24, Apart DEF Kick, Released, LoopReads, Goto, Stale, Superseded
<1>25. ASSUME NEW d \in Instance, Drop(d)  PROVE  LoopPlace'
  BY <1>25, Apart DEF Drop
<1>26. ASSUME NEW d \in Instance, NEW b \in BOOLEAN, DropTold(d, b)
      PROVE  LoopPlace'
  BY <1>26, Apart DEF DropTold, LoopReads, Retrying, Note
<1>27. ASSUME UNCHANGED vars  PROVE  LoopPlace'
  BY <1>27, Apart DEF vars, links, flags, coros, count
<1> HIDE DEF TypeOK, Goto, links, flags, coros, count, LoopPlace, Connects,
     Clean
<1> QED
  BY <1>1, <1>2, <1>3, <1>4, <1>5, <1>6, <1>7, <1>8, <1>9, <1>10, <1>11, <1>12,
     <1>13, <1>14, <1>15, <1>16, <1>17, <1>18, <1>19, <1>20, <1>21, <1>22,
     <1>23, <1>24, <1>25, <1>26, <1>27 DEF Next, Entering, Head, ConnectStep,
     CloseStep

LEMMA AttemptStays ==
  ASSUME TypeOK, Removals, Left, Roles, AllForemost, LoopPlace, Clean, Clean',
         inst # None, Attempted(inst), attempt[inst] # None, Connects("loop"),
         [Next]_vars
  PROVE  inst' # inst \/ ~Connects("loop")' \/ attempt'[inst] # None
         \/ \E q \in Coroutine : Closes(q)'
<1> USE DEF TypeOK, Goto, links, flags, coros, count, Connects, LoopPlace,
     Clean, Foremost
<1>1. ASSUME NEW r \in Request, NEW o \in Door, Press(r, o),
             \A s \in Request : ~Entering(s)
      PROVE  inst' # inst \/ ~Connects("loop")' \/ attempt'[inst] # None
             \/ \E q \in Coroutine : Closes(q)'
  <2>1. OwnDriver(r) /\ drv[r] \in Instance /\ Foremost(r, "loop")
    BY OwnAttempt, Apart DEF AllForemost, TypeOK
  <2> QED
    BY <1>1, <2>1, Apart DEF Press, Released, Stale, Note
<1>2. ASSUME NEW r \in Request, Reconnect(r)
      PROVE  inst' # inst \/ ~Connects("loop")' \/ attempt'[inst] # None
             \/ \E q \in Coroutine : Closes(q)'
  <2>1. CASE drv[r] = inst
    <3>1. Closes(r)'
      BY <1>2, Apart DEF Reconnect, Goto, Closes
    <3> QED  BY <3>1, Apart
  <2>2. CASE drv[r] # inst
    BY <1>2, <2>2, Apart DEF Reconnect, Closing
  <2> QED  BY <2>1, <2>2
<1>3. ASSUME NEW r \in Request, Pause(r)
      PROVE  inst' # inst \/ ~Connects("loop")' \/ attempt'[inst] # None
             \/ \E q \in Coroutine : Closes(q)'
  <2>1. CASE drv[r] = inst
    <3>1. Closes(r)'
      BY <1>3, Apart DEF Pause, Goto, Closes
    <3> QED  BY <3>1, Apart
  <2>2. CASE drv[r] # inst
    BY <1>3, <2>2, Apart DEF Pause, Closing
  <2> QED  BY <2>1, <2>2
<1>4. ASSUME NEW r \in Request, BeginSetup(r)
      PROVE  inst' # inst \/ ~Connects("loop")' \/ attempt'[inst] # None
             \/ \E q \in Coroutine : Closes(q)'
  <2>1. OwnDriver(r) /\ drv[r] \in Instance /\ Foremost(r, "loop")
    BY OwnAttempt, Apart DEF AllForemost, TypeOK
  <2> QED
    BY <1>4, <2>1, Apart DEF BeginSetup, Past, Goto
<1>5. ASSUME NEW r \in Request, Remove(r)
      PROVE  inst' # inst \/ ~Connects("loop")' \/ attempt'[inst] # None
             \/ \E q \in Coroutine : Closes(q)'
  <2>1. OwnDriver(r) /\ drv[r] \in Instance /\ Foremost(r, "loop")
    BY OwnAttempt, Apart DEF AllForemost, TypeOK
  <2> QED
    BY <1>5, <2>1, Apart DEF Remove, Past, Closing, Goto
<1>6. ASSUME NEW r \in Request, PressResume(r)
      PROVE  inst' # inst \/ ~Connects("loop")' \/ attempt'[inst] # None
             \/ \E q \in Coroutine : Closes(q)'
  <2>1. OwnDriver(r) /\ drv[r] \in Instance /\ Foremost(r, "loop")
    BY OwnAttempt, Apart DEF AllForemost, TypeOK
  <2> QED
    BY <1>6, <2>1, Apart DEF PressResume, Resume, Dial, Locked, Dialed, Goto,
       Note
<1>7. ASSUME NEW r \in Request, EndSetup(r)
      PROVE  inst' # inst \/ ~Connects("loop")' \/ attempt'[inst] # None
             \/ \E q \in Coroutine : Closes(q)'
  <2>1. OwnDriver(r) /\ drv[r] \in Instance /\ Foremost(r, "loop")
    BY OwnAttempt, Apart DEF AllForemost, TypeOK
  <2> QED
    BY <1>7, <2>1, Apart DEF EndSetup, Done, Discards, LoopReads, Goto,
       Retrying
<1>8. ASSUME NEW r \in Request, SetupRedials(r)
      PROVE  inst' # inst \/ ~Connects("loop")' \/ attempt'[inst] # None
             \/ \E q \in Coroutine : Closes(q)'
  <2>1. Role(r)
    BY Apart DEF Roles
  <2>2. Closes(r)'
    BY <1>8, <2>1, Apart DEF SetupRedials, Goto, Closes, Role
  <2> QED  BY <2>2, Apart
<1>9. ASSUME NEW p \in Coroutine, Enter(p)
      PROVE  inst' # inst \/ ~Connects("loop")' \/ attempt'[inst] # None
             \/ \E q \in Coroutine : Closes(q)'
  <2>1. OwnDriver(p) /\ drv[p] \in Instance /\ Foremost(p, "loop")
    BY OwnAttempt, Apart DEF AllForemost, TypeOK
  <2> QED
    BY <1>9, <2>1, Apart DEF Enter, Current, Locked, Goto
<1>10. ASSUME NEW p \in Coroutine, Declare(p)
      PROVE  inst' # inst \/ ~Connects("loop")' \/ attempt'[inst] # None
             \/ \E q \in Coroutine : Closes(q)'
  <2>1. OwnDriver(p) /\ drv[p] \in Instance /\ Foremost(p, "loop")
    BY OwnAttempt, Apart DEF AllForemost, TypeOK
  <2> QED
    BY <1>10, <2>1, Apart DEF Declare, Current, Goto
<1>11. ASSUME NEW p \in Coroutine, Connected(p)
      PROVE  inst' # inst \/ ~Connects("loop")' \/ attempt'[inst] # None
             \/ \E q \in Coroutine : Closes(q)'
  <2>1. OwnDriver(p) /\ drv[p] \in Instance /\ Foremost(p, "loop")
    BY OwnAttempt, Apart DEF AllForemost, TypeOK
  <2> QED
    BY <1>11, <2>1, Apart DEF Connected, Current, Stale, Superseded, DownAgain,
       Released, LoopReads, Again, Goto, OwnDriver
<1>12. ASSUME NEW p \in Coroutine, Settled(p)
      PROVE  inst' # inst \/ ~Connects("loop")' \/ attempt'[inst] # None
             \/ \E q \in Coroutine : Closes(q)'
  <2>1. OwnDriver(p) /\ drv[p] \in Instance /\ Foremost(p, "loop")
    BY OwnAttempt, Apart DEF AllForemost, TypeOK
  <2> QED
    BY <1>12, <2>1, Apart DEF Settled, DownAgain, Done, Discards, LoopReads,
       Again, Goto, Retrying
<1>13. ASSUME NEW p \in Coroutine, Unwind(p)
      PROVE  inst' # inst \/ ~Connects("loop")' \/ attempt'[inst] # None
             \/ \E q \in Coroutine : Closes(q)'
  <2>1. OwnDriver(p) /\ drv[p] \in Instance /\ Foremost(p, "loop")
    BY OwnAttempt, Apart DEF AllForemost, TypeOK
  <2> QED
    BY <1>13, <2>1, Apart DEF Unwind, Ended, Current, Stale, Superseded,
       Released, Done, Discards, LoopReads, Goto, Retrying, Attempted
<1>14. ASSUME NEW p \in Coroutine, NEW b \in BOOLEAN, ConnectFails(p, b)
      PROVE  inst' # inst \/ ~Connects("loop")' \/ attempt'[inst] # None
             \/ \E q \in Coroutine : Closes(q)'
  <2>1. OwnDriver(p) /\ drv[p] \in Instance /\ Foremost(p, "loop")
    BY OwnAttempt, Apart DEF AllForemost, TypeOK
  <2> QED
    BY <1>14, <2>1, Apart DEF ConnectFails, Current, Stale, Superseded,
       Released, Done, Discards, LoopReads, Again, Goto, Retrying, OwnDriver
<1>15. ASSUME NEW p \in Coroutine, Redial(p)
      PROVE  inst' # inst \/ ~Connects("loop")' \/ attempt'[inst] # None
             \/ \E q \in Coroutine : Closes(q)'
  <2>1. OwnDriver(p) /\ drv[p] \in Instance /\ Foremost(p, "loop")
    BY OwnAttempt, Apart DEF AllForemost, TypeOK
  <2> QED
    BY <1>15, <2>1, Apart DEF Redial, Superseded, Shut, Closed, Dialed,
       Informed, Retrying, LoopReads, Goto, Note
<1>16. ASSUME NEW p \in Coroutine, PauseHolds(p)
      PROVE  inst' # inst \/ ~Connects("loop")' \/ attempt'[inst] # None
             \/ \E q \in Coroutine : Closes(q)'
  <2>1. OwnDriver(p) /\ drv[p] \in Instance /\ Foremost(p, "loop")
    BY OwnAttempt, Apart DEF AllForemost, TypeOK
  <2> QED
    BY <1>16, <2>1, Apart DEF PauseHolds, Superseded, Shut, Closed, Informed,
       Retrying, LoopReads, Goto, Note
<1>17. ASSUME NEW p \in Coroutine, Removed(p)
      PROVE  inst' # inst \/ ~Connects("loop")' \/ attempt'[inst] # None
             \/ \E q \in Coroutine : Closes(q)'
  <2>1. OwnDriver(p) /\ drv[p] \in Instance /\ Foremost(p, "loop")
    BY OwnAttempt, Apart DEF AllForemost, TypeOK
  <2> QED
    BY <1>17, <2>1, Apart DEF Removed, Shut, Closed, Goto
<1>18. ASSUME NEW p \in Coroutine, Readded(p)
      PROVE  inst' # inst \/ ~Connects("loop")' \/ attempt'[inst] # None
             \/ \E q \in Coroutine : Closes(q)'
  <2>1. OwnDriver(p) /\ drv[p] \in Instance /\ Foremost(p, "loop")
    BY OwnAttempt, Apart DEF AllForemost, TypeOK
  <2> QED
    BY <1>18, <2>1, Apart DEF Readded, Shut, Closed, CarriedArmed, Goto
<1>19. ASSUME NEW p \in Coroutine, Discarded(p)
      PROVE  inst' # inst \/ ~Connects("loop")' \/ attempt'[inst] # None
             \/ \E q \in Coroutine : Closes(q)'
  <2>1. OwnDriver(p) /\ drv[p] \in Instance /\ Foremost(p, "loop")
    BY OwnAttempt, Apart DEF AllForemost, TypeOK
  <2> QED
    BY <1>19, <2>1, Apart DEF Discarded, Shut, Informed, Retrying, LoopReads,
       LiveKey, Goto
<1>20. ASSUME Expire
      PROVE  inst' # inst \/ ~Connects("loop")' \/ attempt'[inst] # None
             \/ \E q \in Coroutine : Closes(q)'
  BY <1>20, Apart DEF Expire, Resume, Dial, Locked, Dialed, Goto, Note
<1>21. ASSUME ExpireRemoved
      PROVE  inst' # inst \/ ~Connects("loop")' \/ attempt'[inst] # None
             \/ \E q \in Coroutine : Closes(q)'
  BY <1>21, Apart DEF ExpireRemoved
<1>22. ASSUME BringUp
      PROVE  inst' # inst \/ ~Connects("loop")' \/ attempt'[inst] # None
             \/ \E q \in Coroutine : Closes(q)'
  BY <1>22, Apart DEF BringUp, Dial, Locked, Dialed, Goto, Note
<1>23. ASSUME Retry, \A s \in Request : ~Entering(s)
      PROVE  inst' # inst \/ ~Connects("loop")' \/ attempt'[inst] # None
             \/ \E q \in Coroutine : Closes(q)'
  BY <1>23, Apart DEF Retry, Dial, Locked, Dialed, Goto, Superseded
<1>24. ASSUME Kick
      PROVE  inst' # inst \/ ~Connects("loop")' \/ attempt'[inst] # None
             \/ \E q \in Coroutine : Closes(q)'
  BY <1>24, Apart DEF Kick, Released, LoopReads, Goto, Stale, Superseded
<1>25. ASSUME NEW d \in Instance, Drop(d)
      PROVE  inst' # inst \/ ~Connects("loop")' \/ attempt'[inst] # None
             \/ \E q \in Coroutine : Closes(q)'
  BY <1>25, Apart DEF Drop
<1>26. ASSUME NEW d \in Instance, NEW b \in BOOLEAN, DropTold(d, b)
      PROVE  inst' # inst \/ ~Connects("loop")' \/ attempt'[inst] # None
             \/ \E q \in Coroutine : Closes(q)'
  BY <1>26, Apart DEF DropTold, LoopReads, Retrying, Note
<1>27. ASSUME UNCHANGED vars
      PROVE  inst' # inst \/ ~Connects("loop")' \/ attempt'[inst] # None
             \/ \E q \in Coroutine : Closes(q)'
  BY <1>27, Apart DEF vars, links, flags, coros, count
<1> HIDE DEF TypeOK, Goto, links, flags, coros, count, Connects, LoopPlace,
     Clean, Foremost
<1> QED
  BY <1>1, <1>2, <1>3, <1>4, <1>5, <1>6, <1>7, <1>8, <1>9, <1>10, <1>11, <1>12,
     <1>13, <1>14, <1>15, <1>16, <1>17, <1>18, <1>19, <1>20, <1>21, <1>22,
     <1>23, <1>24, <1>25, <1>26, <1>27 DEF Next, Entering, Head, ConnectStep,
     CloseStep

LEMMA CloserMoves ==
  ASSUME TypeOK, Roles, Clean, Clean', inst # None, NEW x \in Coroutine,
         Closes(x), Role(x), Station(x), [Next]_vars
  PROVE  inst' # inst \/ Closes(x)' \/ attempt'[inst] # None \/ paused'
<1> USE DEF TypeOK, Goto, links, flags, coros, count, Closes, Role, Station,
     Clean
<1>1. ASSUME NEW r \in Request, NEW o \in Door, Press(r, o),
             \A s \in Request : ~Entering(s)
      PROVE  inst' # inst \/ Closes(x)' \/ attempt'[inst] # None \/ paused'
  BY <1>1, Apart DEF Press, Released, Stale, Note
<1>2. ASSUME NEW r \in Request, Reconnect(r)
      PROVE  inst' # inst \/ Closes(x)' \/ attempt'[inst] # None \/ paused'
  BY <1>2, Apart DEF Reconnect, Past, Closing, Goto
<1>3. ASSUME NEW r \in Request, Pause(r)
      PROVE  inst' # inst \/ Closes(x)' \/ attempt'[inst] # None \/ paused'
  BY <1>3, Apart DEF Pause, Past, Closing, Goto, Note
<1>4. ASSUME NEW r \in Request, BeginSetup(r)
      PROVE  inst' # inst \/ Closes(x)' \/ attempt'[inst] # None \/ paused'
  BY <1>4, Apart DEF BeginSetup, Past, Goto
<1>5. ASSUME NEW r \in Request, Remove(r)
      PROVE  inst' # inst \/ Closes(x)' \/ attempt'[inst] # None \/ paused'
  BY <1>5, Apart DEF Remove, Past, Closing, Goto
<1>6. ASSUME NEW r \in Request, PressResume(r)
      PROVE  inst' # inst \/ Closes(x)' \/ attempt'[inst] # None \/ paused'
  BY <1>6, Apart DEF PressResume, Resume, Dial, Locked, Dialed, Goto, Note
<1>7. ASSUME NEW r \in Request, EndSetup(r)
      PROVE  inst' # inst \/ Closes(x)' \/ attempt'[inst] # None \/ paused'
  BY <1>7, Apart DEF EndSetup, Done, Discards, LoopReads, Goto, Retrying
<1>8. ASSUME NEW r \in Request, SetupRedials(r)
      PROVE  inst' # inst \/ Closes(x)' \/ attempt'[inst] # None \/ paused'
  BY <1>8, Apart DEF SetupRedials, Closing, Goto
<1>9. ASSUME NEW p \in Coroutine, Enter(p)
      PROVE  inst' # inst \/ Closes(x)' \/ attempt'[inst] # None \/ paused'
  BY <1>9, Apart DEF Enter, Current, Locked, Goto
<1>10. ASSUME NEW p \in Coroutine, Declare(p)
      PROVE  inst' # inst \/ Closes(x)' \/ attempt'[inst] # None \/ paused'
  BY <1>10, Apart DEF Declare, Current, Goto
<1>11. ASSUME NEW p \in Coroutine, Connected(p)
      PROVE  inst' # inst \/ Closes(x)' \/ attempt'[inst] # None \/ paused'
  BY <1>11, Apart DEF Connected, Current, Stale, Superseded, DownAgain,
     Released, LoopReads, Again, Goto
<1>12. ASSUME NEW p \in Coroutine, Settled(p)
      PROVE  inst' # inst \/ Closes(x)' \/ attempt'[inst] # None \/ paused'
  BY <1>12, Apart DEF Settled, DownAgain, Done, Discards, LoopReads, Again,
     Goto, Retrying
<1>13. ASSUME NEW p \in Coroutine, Unwind(p)
      PROVE  inst' # inst \/ Closes(x)' \/ attempt'[inst] # None \/ paused'
  BY <1>13, Apart DEF Unwind, Ended, Current, Stale, Superseded, Released,
     Done, Discards, LoopReads, Goto, Retrying
<1>14. ASSUME NEW p \in Coroutine, NEW b \in BOOLEAN, ConnectFails(p, b)
      PROVE  inst' # inst \/ Closes(x)' \/ attempt'[inst] # None \/ paused'
  BY <1>14, Apart DEF ConnectFails, Current, Stale, Superseded, Released, Done,
     Discards, LoopReads, Again, Goto, Retrying
<1>15. ASSUME NEW p \in Coroutine, Redial(p)
      PROVE  inst' # inst \/ Closes(x)' \/ attempt'[inst] # None \/ paused'
  BY <1>15, Apart DEF Redial, Superseded, Shut, Closed, Dialed, Informed,
     Retrying, LoopReads, Goto, Note
<1>16. ASSUME NEW p \in Coroutine, PauseHolds(p)
      PROVE  inst' # inst \/ Closes(x)' \/ attempt'[inst] # None \/ paused'
  BY <1>16, Apart DEF PauseHolds, Superseded, Shut, Closed, Informed, Retrying,
     LoopReads, Goto, Note
<1>17. ASSUME NEW p \in Coroutine, Removed(p)
      PROVE  inst' # inst \/ Closes(x)' \/ attempt'[inst] # None \/ paused'
  BY <1>17, Apart DEF Removed, Shut, Closed, Goto
<1>18. ASSUME NEW p \in Coroutine, Readded(p)
      PROVE  inst' # inst \/ Closes(x)' \/ attempt'[inst] # None \/ paused'
  BY <1>18, Apart DEF Readded, Shut, Closed, CarriedArmed, Goto
<1>19. ASSUME NEW p \in Coroutine, Discarded(p)
      PROVE  inst' # inst \/ Closes(x)' \/ attempt'[inst] # None \/ paused'
  BY <1>19, Apart DEF Discarded, Shut, Informed, Retrying, LoopReads, LiveKey,
     Goto
<1>20. ASSUME Expire
      PROVE  inst' # inst \/ Closes(x)' \/ attempt'[inst] # None \/ paused'
  BY <1>20, Apart DEF Expire, Resume, Dial, Locked, Dialed, Goto, Note
<1>21. ASSUME ExpireRemoved
      PROVE  inst' # inst \/ Closes(x)' \/ attempt'[inst] # None \/ paused'
  BY <1>21, Apart DEF ExpireRemoved
<1>22. ASSUME BringUp
      PROVE  inst' # inst \/ Closes(x)' \/ attempt'[inst] # None \/ paused'
  BY <1>22, Apart DEF BringUp, Dial, Locked, Dialed, Goto, Note
<1>23. ASSUME Retry, \A s \in Request : ~Entering(s)
      PROVE  inst' # inst \/ Closes(x)' \/ attempt'[inst] # None \/ paused'
  BY <1>23, Apart DEF Retry, Dial, Locked, Dialed, Goto, Superseded
<1>24. ASSUME Kick
      PROVE  inst' # inst \/ Closes(x)' \/ attempt'[inst] # None \/ paused'
  BY <1>24, Apart DEF Kick, Released, LoopReads, Goto, Stale, Superseded
<1>25. ASSUME NEW d \in Instance, Drop(d)
      PROVE  inst' # inst \/ Closes(x)' \/ attempt'[inst] # None \/ paused'
  BY <1>25, Apart DEF Drop
<1>26. ASSUME NEW d \in Instance, NEW b \in BOOLEAN, DropTold(d, b)
      PROVE  inst' # inst \/ Closes(x)' \/ attempt'[inst] # None \/ paused'
  BY <1>26, Apart DEF DropTold, LoopReads, Retrying, Note
<1>27. ASSUME UNCHANGED vars
      PROVE  inst' # inst \/ Closes(x)' \/ attempt'[inst] # None \/ paused'
  BY <1>27, Apart DEF vars, links, flags, coros, count
<1> HIDE DEF TypeOK, Goto, links, flags, coros, count, Closes, Role, Station,
     Clean
<1> QED
  BY <1>1, <1>2, <1>3, <1>4, <1>5, <1>6, <1>7, <1>8, <1>9, <1>10, <1>11, <1>12,
     <1>13, <1>14, <1>15, <1>16, <1>17, <1>18, <1>19, <1>20, <1>21, <1>22,
     <1>23, <1>24, <1>25, <1>26, <1>27 DEF Next, Entering, Head, ConnectStep,
     CloseStep

LEMMA LoopDials ==
  ASSUME TypeOK, Clean, Clean', inst # None, [Next]_vars
  PROVE  Connects("loop")' => Connects("loop") \/ attempt'[inst] # None
         \/ inst' # inst
<1> USE DEF TypeOK, Goto, links, flags, coros, count, Connects, Clean
<1>1. ASSUME NEW r \in Request, NEW o \in Door, Press(r, o),
             \A s \in Request : ~Entering(s)
      PROVE  Connects("loop")' => Connects("loop") \/ attempt'[inst] # None
             \/ inst' # inst
  BY <1>1, Apart DEF Press, Released, Stale, Note
<1>2. ASSUME NEW r \in Request, Reconnect(r)
      PROVE  Connects("loop")' => Connects("loop") \/ attempt'[inst] # None
             \/ inst' # inst
  BY <1>2, Apart DEF Reconnect, Past, Closing, Goto
<1>3. ASSUME NEW r \in Request, Pause(r)
      PROVE  Connects("loop")' => Connects("loop") \/ attempt'[inst] # None
             \/ inst' # inst
  BY <1>3, Apart DEF Pause, Past, Closing, Goto, Note
<1>4. ASSUME NEW r \in Request, BeginSetup(r)
      PROVE  Connects("loop")' => Connects("loop") \/ attempt'[inst] # None
             \/ inst' # inst
  BY <1>4, Apart DEF BeginSetup, Past, Goto
<1>5. ASSUME NEW r \in Request, Remove(r)
      PROVE  Connects("loop")' => Connects("loop") \/ attempt'[inst] # None
             \/ inst' # inst
  BY <1>5, Apart DEF Remove, Past, Closing, Goto
<1>6. ASSUME NEW r \in Request, PressResume(r)
      PROVE  Connects("loop")' => Connects("loop") \/ attempt'[inst] # None
             \/ inst' # inst
  BY <1>6, Apart DEF PressResume, Resume, Dial, Locked, Dialed, Goto, Note
<1>7. ASSUME NEW r \in Request, EndSetup(r)
      PROVE  Connects("loop")' => Connects("loop") \/ attempt'[inst] # None
             \/ inst' # inst
  BY <1>7, Apart DEF EndSetup, Done, Discards, LoopReads, Goto, Retrying
<1>8. ASSUME NEW r \in Request, SetupRedials(r)
      PROVE  Connects("loop")' => Connects("loop") \/ attempt'[inst] # None
             \/ inst' # inst
  BY <1>8, Apart DEF SetupRedials, Closing, Goto
<1>9. ASSUME NEW p \in Coroutine, Enter(p)
      PROVE  Connects("loop")' => Connects("loop") \/ attempt'[inst] # None
             \/ inst' # inst
  BY <1>9, Apart DEF Enter, Current, Locked, Goto
<1>10. ASSUME NEW p \in Coroutine, Declare(p)
      PROVE  Connects("loop")' => Connects("loop") \/ attempt'[inst] # None
             \/ inst' # inst
  BY <1>10, Apart DEF Declare, Current, Goto
<1>11. ASSUME NEW p \in Coroutine, Connected(p)
      PROVE  Connects("loop")' => Connects("loop") \/ attempt'[inst] # None
             \/ inst' # inst
  BY <1>11, Apart DEF Connected, Current, Stale, Superseded, DownAgain,
     Released, LoopReads, Again, Goto
<1>12. ASSUME NEW p \in Coroutine, Settled(p)
      PROVE  Connects("loop")' => Connects("loop") \/ attempt'[inst] # None
             \/ inst' # inst
  BY <1>12, Apart DEF Settled, DownAgain, Done, Discards, LoopReads, Again,
     Goto, Retrying
<1>13. ASSUME NEW p \in Coroutine, Unwind(p)
      PROVE  Connects("loop")' => Connects("loop") \/ attempt'[inst] # None
             \/ inst' # inst
  BY <1>13, Apart DEF Unwind, Ended, Current, Stale, Superseded, Released,
     Done, Discards, LoopReads, Goto, Retrying
<1>14. ASSUME NEW p \in Coroutine, NEW b \in BOOLEAN, ConnectFails(p, b)
      PROVE  Connects("loop")' => Connects("loop") \/ attempt'[inst] # None
             \/ inst' # inst
  BY <1>14, Apart DEF ConnectFails, Current, Stale, Superseded, Released, Done,
     Discards, LoopReads, Again, Goto, Retrying
<1>15. ASSUME NEW p \in Coroutine, Redial(p)
      PROVE  Connects("loop")' => Connects("loop") \/ attempt'[inst] # None
             \/ inst' # inst
  BY <1>15, Apart DEF Redial, Superseded, Shut, Closed, Dialed, Informed,
     Retrying, LoopReads, Goto, Note
<1>16. ASSUME NEW p \in Coroutine, PauseHolds(p)
      PROVE  Connects("loop")' => Connects("loop") \/ attempt'[inst] # None
             \/ inst' # inst
  BY <1>16, Apart DEF PauseHolds, Superseded, Shut, Closed, Informed, Retrying,
     LoopReads, Goto, Note
<1>17. ASSUME NEW p \in Coroutine, Removed(p)
      PROVE  Connects("loop")' => Connects("loop") \/ attempt'[inst] # None
             \/ inst' # inst
  BY <1>17, Apart DEF Removed, Shut, Closed, Goto
<1>18. ASSUME NEW p \in Coroutine, Readded(p)
      PROVE  Connects("loop")' => Connects("loop") \/ attempt'[inst] # None
             \/ inst' # inst
  BY <1>18, Apart DEF Readded, Shut, Closed, CarriedArmed, Goto
<1>19. ASSUME NEW p \in Coroutine, Discarded(p)
      PROVE  Connects("loop")' => Connects("loop") \/ attempt'[inst] # None
             \/ inst' # inst
  BY <1>19, Apart DEF Discarded, Shut, Informed, Retrying, LoopReads, LiveKey,
     Goto
<1>20. ASSUME Expire
      PROVE  Connects("loop")' => Connects("loop") \/ attempt'[inst] # None
             \/ inst' # inst
  BY <1>20, Apart DEF Expire, Resume, Dial, Locked, Dialed, Goto, Note
<1>21. ASSUME ExpireRemoved
      PROVE  Connects("loop")' => Connects("loop") \/ attempt'[inst] # None
             \/ inst' # inst
  BY <1>21, Apart DEF ExpireRemoved
<1>22. ASSUME BringUp
      PROVE  Connects("loop")' => Connects("loop") \/ attempt'[inst] # None
             \/ inst' # inst
  BY <1>22, Apart DEF BringUp, Dial, Locked, Dialed, Goto, Note
<1>23. ASSUME Retry, \A s \in Request : ~Entering(s)
      PROVE  Connects("loop")' => Connects("loop") \/ attempt'[inst] # None
             \/ inst' # inst
  BY <1>23, Apart DEF Retry, Dial, Locked, Dialed, Goto, Superseded
<1>24. ASSUME Kick
      PROVE  Connects("loop")' => Connects("loop") \/ attempt'[inst] # None
             \/ inst' # inst
  BY <1>24, Apart DEF Kick, Released, LoopReads, Goto, Stale, Superseded
<1>25. ASSUME NEW d \in Instance, Drop(d)
      PROVE  Connects("loop")' => Connects("loop") \/ attempt'[inst] # None
             \/ inst' # inst
  BY <1>25, Apart DEF Drop
<1>26. ASSUME NEW d \in Instance, NEW b \in BOOLEAN, DropTold(d, b)
      PROVE  Connects("loop")' => Connects("loop") \/ attempt'[inst] # None
             \/ inst' # inst
  BY <1>26, Apart DEF DropTold, LoopReads, Retrying, Note
<1>27. ASSUME UNCHANGED vars
      PROVE  Connects("loop")' => Connects("loop") \/ attempt'[inst] # None
             \/ inst' # inst
  BY <1>27, Apart DEF vars, links, flags, coros, count
<1> HIDE DEF TypeOK, Goto, links, flags, coros, count, Connects, Clean
<1> QED
  BY <1>1, <1>2, <1>3, <1>4, <1>5, <1>6, <1>7, <1>8, <1>9, <1>10, <1>11, <1>12,
     <1>13, <1>14, <1>15, <1>16, <1>17, <1>18, <1>19, <1>20, <1>21, <1>22,
     <1>23, <1>24, <1>25, <1>26, <1>27 DEF Next, Entering, Head, ConnectStep,
     CloseStep

LEMMA NewInstanceQuiet ==
  ASSUME TypeOK, Removals, LoopsCleared, [Next]_vars
  PROVE  inst' = inst \/ inst' = None \/ pc'["loop"] \in {"idle", "waiting"}
<1> USE DEF TypeOK, Goto, links, flags, coros, count
<1>1. ASSUME NEW r \in Request, NEW o \in Door, Press(r, o),
             \A s \in Request : ~Entering(s)
      PROVE  inst' = inst \/ inst' = None
             \/ pc'["loop"] \in {"idle", "waiting"}
  BY <1>1, Apart DEF Press, Released, Stale, Note
<1>2. ASSUME NEW r \in Request, Reconnect(r)
      PROVE  inst' = inst \/ inst' = None
             \/ pc'["loop"] \in {"idle", "waiting"}
  BY <1>2, Apart DEF Reconnect, Past, Closing, Goto
<1>3. ASSUME NEW r \in Request, Pause(r)
      PROVE  inst' = inst \/ inst' = None
             \/ pc'["loop"] \in {"idle", "waiting"}
  BY <1>3, Apart DEF Pause, Past, Closing, Goto, Note
<1>4. ASSUME NEW r \in Request, BeginSetup(r)
      PROVE  inst' = inst \/ inst' = None
             \/ pc'["loop"] \in {"idle", "waiting"}
  BY <1>4, Apart DEF BeginSetup, Past, Goto
<1>5. ASSUME NEW r \in Request, Remove(r)
      PROVE  inst' = inst \/ inst' = None
             \/ pc'["loop"] \in {"idle", "waiting"}
  BY <1>5, Apart DEF Remove, Past, Closing, Goto
<1>6. ASSUME NEW r \in Request, PressResume(r)
      PROVE  inst' = inst \/ inst' = None
             \/ pc'["loop"] \in {"idle", "waiting"}
  BY <1>6, Apart DEF PressResume, Resume, Dial, Locked, Dialed, Goto, Note
<1>7. ASSUME NEW r \in Request, EndSetup(r)
      PROVE  inst' = inst \/ inst' = None
             \/ pc'["loop"] \in {"idle", "waiting"}
  BY <1>7, Apart DEF EndSetup, Done, Discards, LoopReads, Goto, Retrying
<1>8. ASSUME NEW r \in Request, SetupRedials(r)
      PROVE  inst' = inst \/ inst' = None
             \/ pc'["loop"] \in {"idle", "waiting"}
  BY <1>8, Apart DEF SetupRedials, Closing, Goto
<1>9. ASSUME NEW p \in Coroutine, Enter(p)
      PROVE  inst' = inst \/ inst' = None
             \/ pc'["loop"] \in {"idle", "waiting"}
  BY <1>9, Apart DEF Enter, Current, Locked, Goto
<1>10. ASSUME NEW p \in Coroutine, Declare(p)
      PROVE  inst' = inst \/ inst' = None
             \/ pc'["loop"] \in {"idle", "waiting"}
  BY <1>10, Apart DEF Declare, Current, Goto
<1>11. ASSUME NEW p \in Coroutine, Connected(p)
      PROVE  inst' = inst \/ inst' = None
             \/ pc'["loop"] \in {"idle", "waiting"}
  BY <1>11, Apart DEF Connected, Current, Stale, Superseded, DownAgain,
     Released, LoopReads, Again, Goto
<1>12. ASSUME NEW p \in Coroutine, Settled(p)
      PROVE  inst' = inst \/ inst' = None
             \/ pc'["loop"] \in {"idle", "waiting"}
  BY <1>12, Apart DEF Settled, DownAgain, Done, Discards, LoopReads, Again,
     Goto, Retrying
<1>13. ASSUME NEW p \in Coroutine, Unwind(p)
      PROVE  inst' = inst \/ inst' = None
             \/ pc'["loop"] \in {"idle", "waiting"}
  BY <1>13, Apart DEF Unwind, Ended, Current, Stale, Superseded, Released,
     Done, Discards, LoopReads, Goto, Retrying
<1>14. ASSUME NEW p \in Coroutine, NEW b \in BOOLEAN, ConnectFails(p, b)
      PROVE  inst' = inst \/ inst' = None
             \/ pc'["loop"] \in {"idle", "waiting"}
  BY <1>14, Apart DEF ConnectFails, Current, Stale, Superseded, Released, Done,
     Discards, LoopReads, Again, Goto, Retrying
<1>15. ASSUME NEW p \in Coroutine, Redial(p)
      PROVE  inst' = inst \/ inst' = None
             \/ pc'["loop"] \in {"idle", "waiting"}
  BY <1>15, Apart DEF Redial, Superseded, Shut, Closed, Dialed, Informed,
     Retrying, LoopReads, Goto, Note
<1>16. ASSUME NEW p \in Coroutine, PauseHolds(p)
      PROVE  inst' = inst \/ inst' = None
             \/ pc'["loop"] \in {"idle", "waiting"}
  BY <1>16, Apart DEF PauseHolds, Superseded, Shut, Closed, Informed, Retrying,
     LoopReads, Goto, Note
<1>17. ASSUME NEW p \in Coroutine, Removed(p)
      PROVE  inst' = inst \/ inst' = None
             \/ pc'["loop"] \in {"idle", "waiting"}
  BY <1>17, Apart DEF Removed, Shut, Closed, Goto
<1>18. ASSUME NEW p \in Coroutine, Readded(p)
      PROVE  inst' = inst \/ inst' = None
             \/ pc'["loop"] \in {"idle", "waiting"}
  <2>1. Removing(p) /\ pc' = [pc EXCEPT ![p] = "idle"]
    BY <1>18 DEF Readded, Closed, Removing, Removal
  <2>2. pc["loop"] \in {"idle", "waiting"}
    BY <2>1 DEF LoopsCleared, LoopCleared
  <2> QED  BY <2>1, <2>2, Apart
<1>19. ASSUME NEW p \in Coroutine, Discarded(p)
      PROVE  inst' = inst \/ inst' = None
             \/ pc'["loop"] \in {"idle", "waiting"}
  BY <1>19, Apart DEF Discarded, Shut, Informed, Retrying, LoopReads, LiveKey,
     Goto
<1>20. ASSUME Expire
      PROVE  inst' = inst \/ inst' = None
             \/ pc'["loop"] \in {"idle", "waiting"}
  BY <1>20, Apart DEF Expire, Resume, Dial, Locked, Dialed, Goto, Note
<1>21. ASSUME ExpireRemoved
      PROVE  inst' = inst \/ inst' = None
             \/ pc'["loop"] \in {"idle", "waiting"}
  BY <1>21, Apart DEF ExpireRemoved
<1>22. ASSUME BringUp
      PROVE  inst' = inst \/ inst' = None
             \/ pc'["loop"] \in {"idle", "waiting"}
  BY <1>22, Apart DEF BringUp, Dial, Locked, Dialed, Goto, Note
<1>23. ASSUME Retry, \A s \in Request : ~Entering(s)
      PROVE  inst' = inst \/ inst' = None
             \/ pc'["loop"] \in {"idle", "waiting"}
  BY <1>23, Apart DEF Retry, Dial, Locked, Dialed, Goto, Superseded
<1>24. ASSUME Kick
      PROVE  inst' = inst \/ inst' = None
             \/ pc'["loop"] \in {"idle", "waiting"}
  BY <1>24, Apart DEF Kick, Released, LoopReads, Goto, Stale, Superseded
<1>25. ASSUME NEW d \in Instance, Drop(d)
      PROVE  inst' = inst \/ inst' = None
             \/ pc'["loop"] \in {"idle", "waiting"}
  BY <1>25, Apart DEF Drop
<1>26. ASSUME NEW d \in Instance, NEW b \in BOOLEAN, DropTold(d, b)
      PROVE  inst' = inst \/ inst' = None
             \/ pc'["loop"] \in {"idle", "waiting"}
  BY <1>26, Apart DEF DropTold, LoopReads, Retrying, Note
<1>27. ASSUME UNCHANGED vars
      PROVE  inst' = inst \/ inst' = None
             \/ pc'["loop"] \in {"idle", "waiting"}
  BY <1>27, Apart DEF vars, links, flags, coros, count
<1> HIDE DEF TypeOK, Goto, links, flags, coros, count
<1> QED
  BY <1>1, <1>2, <1>3, <1>4, <1>5, <1>6, <1>7, <1>8, <1>9, <1>10, <1>11, <1>12,
     <1>13, <1>14, <1>15, <1>16, <1>17, <1>18, <1>19, <1>20, <1>21, <1>22,
     <1>23, <1>24, <1>25, <1>26, <1>27 DEF Next, Entering, Head, ConnectStep,
     CloseStep

LEMMA Unpaused ==
  ASSUME TypeOK, Removals, inst # None, paused, [Next]_vars
  PROVE  inst' # inst \/ paused' \/ ~Connects("loop")' \/ attempt'[inst] # None
<1> USE DEF TypeOK, Goto, links, flags, coros, count, Connects
<1>1. ASSUME NEW r \in Request, NEW o \in Door, Press(r, o),
             \A s \in Request : ~Entering(s)
      PROVE  inst' # inst \/ paused' \/ ~Connects("loop")'
             \/ attempt'[inst] # None
  BY <1>1, Apart DEF Press, Released, Stale, Note
<1>2. ASSUME NEW r \in Request, Reconnect(r)
      PROVE  inst' # inst \/ paused' \/ ~Connects("loop")'
             \/ attempt'[inst] # None
  BY <1>2, Apart DEF Reconnect, Past, Closing, Goto
<1>3. ASSUME NEW r \in Request, Pause(r)
      PROVE  inst' # inst \/ paused' \/ ~Connects("loop")'
             \/ attempt'[inst] # None
  BY <1>3, Apart DEF Pause, Past, Closing, Goto, Note
<1>4. ASSUME NEW r \in Request, BeginSetup(r)
      PROVE  inst' # inst \/ paused' \/ ~Connects("loop")'
             \/ attempt'[inst] # None
  BY <1>4, Apart DEF BeginSetup, Past, Goto
<1>5. ASSUME NEW r \in Request, Remove(r)
      PROVE  inst' # inst \/ paused' \/ ~Connects("loop")'
             \/ attempt'[inst] # None
  BY <1>5, Apart DEF Remove, Past, Closing, Goto
<1>6. ASSUME NEW r \in Request, PressResume(r)
      PROVE  inst' # inst \/ paused' \/ ~Connects("loop")'
             \/ attempt'[inst] # None
  BY <1>6, Apart DEF PressResume, Resume, Dial, Locked, Dialed, Goto, Note
<1>7. ASSUME NEW r \in Request, EndSetup(r)
      PROVE  inst' # inst \/ paused' \/ ~Connects("loop")'
             \/ attempt'[inst] # None
  BY <1>7, Apart DEF EndSetup, Done, Discards, LoopReads, Goto, Retrying
<1>8. ASSUME NEW r \in Request, SetupRedials(r)
      PROVE  inst' # inst \/ paused' \/ ~Connects("loop")'
             \/ attempt'[inst] # None
  BY <1>8, Apart DEF SetupRedials, Closing, Goto
<1>9. ASSUME NEW p \in Coroutine, Enter(p)
      PROVE  inst' # inst \/ paused' \/ ~Connects("loop")'
             \/ attempt'[inst] # None
  BY <1>9, Apart DEF Enter, Current, Locked, Goto
<1>10. ASSUME NEW p \in Coroutine, Declare(p)
      PROVE  inst' # inst \/ paused' \/ ~Connects("loop")'
             \/ attempt'[inst] # None
  BY <1>10, Apart DEF Declare, Current, Goto
<1>11. ASSUME NEW p \in Coroutine, Connected(p)
      PROVE  inst' # inst \/ paused' \/ ~Connects("loop")'
             \/ attempt'[inst] # None
  BY <1>11, Apart DEF Connected, Current, Stale, Superseded, DownAgain,
     Released, LoopReads, Again, Goto
<1>12. ASSUME NEW p \in Coroutine, Settled(p)
      PROVE  inst' # inst \/ paused' \/ ~Connects("loop")'
             \/ attempt'[inst] # None
  BY <1>12, Apart DEF Settled, DownAgain, Done, Discards, LoopReads, Again,
     Goto, Retrying
<1>13. ASSUME NEW p \in Coroutine, Unwind(p)
      PROVE  inst' # inst \/ paused' \/ ~Connects("loop")'
             \/ attempt'[inst] # None
  BY <1>13, Apart DEF Unwind, Ended, Current, Stale, Superseded, Released,
     Done, Discards, LoopReads, Goto, Retrying
<1>14. ASSUME NEW p \in Coroutine, NEW b \in BOOLEAN, ConnectFails(p, b)
      PROVE  inst' # inst \/ paused' \/ ~Connects("loop")'
             \/ attempt'[inst] # None
  BY <1>14, Apart DEF ConnectFails, Current, Stale, Superseded, Released, Done,
     Discards, LoopReads, Again, Goto, Retrying
<1>15. ASSUME NEW p \in Coroutine, Redial(p)
      PROVE  inst' # inst \/ paused' \/ ~Connects("loop")'
             \/ attempt'[inst] # None
  BY <1>15, Apart DEF Redial, Superseded, Shut, Closed, Dialed, Informed,
     Retrying, LoopReads, Goto, Note
<1>16. ASSUME NEW p \in Coroutine, PauseHolds(p)
      PROVE  inst' # inst \/ paused' \/ ~Connects("loop")'
             \/ attempt'[inst] # None
  BY <1>16, Apart DEF PauseHolds, Superseded, Shut, Closed, Informed, Retrying,
     LoopReads, Goto, Note
<1>17. ASSUME NEW p \in Coroutine, Removed(p)
      PROVE  inst' # inst \/ paused' \/ ~Connects("loop")'
             \/ attempt'[inst] # None
  BY <1>17, Apart DEF Removed, Shut, Closed, Goto, Removals, Removing, Removal
<1>18. ASSUME NEW p \in Coroutine, Readded(p)
      PROVE  inst' # inst \/ paused' \/ ~Connects("loop")'
             \/ attempt'[inst] # None
  BY <1>18, Apart DEF Readded, Shut, Closed, CarriedArmed, Goto, Removals,
     Removing, Removal
<1>19. ASSUME NEW p \in Coroutine, Discarded(p)
      PROVE  inst' # inst \/ paused' \/ ~Connects("loop")'
             \/ attempt'[inst] # None
  BY <1>19, Apart DEF Discarded, Shut, Informed, Retrying, LoopReads, LiveKey,
     Goto
<1>20. ASSUME Expire
      PROVE  inst' # inst \/ paused' \/ ~Connects("loop")'
             \/ attempt'[inst] # None
  BY <1>20, Apart DEF Expire, Resume, Dial, Locked, Dialed, Goto, Note
<1>21. ASSUME ExpireRemoved
      PROVE  inst' # inst \/ paused' \/ ~Connects("loop")'
             \/ attempt'[inst] # None
  BY <1>21, Apart DEF ExpireRemoved
<1>22. ASSUME BringUp
      PROVE  inst' # inst \/ paused' \/ ~Connects("loop")'
             \/ attempt'[inst] # None
  BY <1>22, Apart DEF BringUp, Dial, Locked, Dialed, Goto, Note
<1>23. ASSUME Retry, \A s \in Request : ~Entering(s)
      PROVE  inst' # inst \/ paused' \/ ~Connects("loop")'
             \/ attempt'[inst] # None
  BY <1>23, Apart DEF Retry, Dial, Locked, Dialed, Goto, Superseded
<1>24. ASSUME Kick
      PROVE  inst' # inst \/ paused' \/ ~Connects("loop")'
             \/ attempt'[inst] # None
  BY <1>24, Apart DEF Kick, Released, LoopReads, Goto, Stale, Superseded
<1>25. ASSUME NEW d \in Instance, Drop(d)
      PROVE  inst' # inst \/ paused' \/ ~Connects("loop")'
             \/ attempt'[inst] # None
  BY <1>25, Apart DEF Drop
<1>26. ASSUME NEW d \in Instance, NEW b \in BOOLEAN, DropTold(d, b)
      PROVE  inst' # inst \/ paused' \/ ~Connects("loop")'
             \/ attempt'[inst] # None
  BY <1>26, Apart DEF DropTold, LoopReads, Retrying, Note
<1>27. ASSUME UNCHANGED vars
      PROVE  inst' # inst \/ paused' \/ ~Connects("loop")'
             \/ attempt'[inst] # None
  BY <1>27, Apart DEF vars, links, flags, coros, count
<1> HIDE DEF TypeOK, Goto, links, flags, coros, count, Connects
<1> QED
  BY <1>1, <1>2, <1>3, <1>4, <1>5, <1>6, <1>7, <1>8, <1>9, <1>10, <1>11, <1>12,
     <1>13, <1>14, <1>15, <1>16, <1>17, <1>18, <1>19, <1>20, <1>21, <1>22,
     <1>23, <1>24, <1>25, <1>26, <1>27 DEF Next, Entering, Head, ConnectStep,
     CloseStep

LEMMA LoopOwnedStep ==
  ASSUME Basics, Left, TypeOK', Stations, AllForemost, LoopsCleared,
         LoopPlace, LoopOwned, Clean, Clean', [Next]_vars
  PROVE  LoopOwned'
<1> USE DEF Basics
<1> SUFFICES ASSUME inst' # None, ~paused', Connects("loop")'
             PROVE  attempt'[inst'] # None \/ \E p \in Coroutine : Closes(p)'
  BY DEF LoopOwned
<1>1. inst' = inst
  BY NewInstanceQuiet DEF Connects
<1>2. ~paused \/ attempt'[inst'] # None
  BY <1>1, Unpaused
<1>3. CASE Connects("loop") /\ attempt[inst] # None
  <2>1. Attempted(inst)
    BY <1>1 DEF Attempts, TypeOK
  <2> QED  BY <1>1, <1>3, <2>1, AttemptStays
<1>4. ASSUME NEW x \in Coroutine, Closes(x)
      PROVE  attempt'[inst'] # None \/ Closes(x)'
  BY <1>1, <1>4, CloserMoves DEF Roles, Stations
<1>5. Connects("loop") \/ attempt'[inst] # None
  BY <1>1, LoopDials
<1> QED  BY <1>1, <1>2, <1>3, <1>4, <1>5 DEF LoopOwned

-----------------------------------------------------------------------------
(* StrandedOnlyUnderMark.  A device that should be up and is down, or is   *)
(* about to be closed, is cared for: the loop has it, a drop is to be      *)
(* told, a connect of it can still fail and ask for retries, or a request  *)
(* is to dial it.                                                          *)

Fit == notes \cap {"redialed", "superseded", "late", "skipped"} = {}
Due == Fit /\ inst # None /\ ~paused /\ ~deferred /\ ~failed

LoopCares   == pc["loop"] \in {"waiting", "settling"}
DropCares   == inst \in drops
Cares(p)    == Past(p) \/ Closes(p) \/ (op[p] = "setup" /\ pc[p] # "idle")
SomeoneCares == \E p \in Coroutine : Cares(p)
Served      ==
    /\ attempt[inst] # None
    /\ pc[attempt[inst]] = "tail" /\ ~conn[inst] => attempt[inst] = "loop"
Lacking     == ~conn[inst] \/ \E p \in Coroutine : Loose(p)

Cared  == LoopCares \/ DropCares \/ Served \/ SomeoneCares
Minded == pc["loop"] # "idle" \/ DropCares \/ Served \/ SomeoneCares

CaredInv == Due /\ Lacking => Cared

(* A loop that is not idle is enough: it dials, or what ended its dial     *)
(* dials or closes.                                                        *)
LEMMA MindedCared ==
  ASSUME TypeOK', Stations', AllForemost', LoopPlace', LoopOwned', Clean',
         inst' # None, ~paused', Minded'
  PROVE  Cared'
<1>1. CASE pc'["loop"] = "idle" \/ LoopCares'
  BY <1>1 DEF Minded, Cared
<1>2. CASE Connects("loop")'
  <2>1. drv'["loop"] = inst'
    BY <1>2 DEF LoopPlace
  <2>2. ASSUME NEW p \in Coroutine, Closes(p)'
        PROVE  Cared'
    BY <2>2 DEF Cared, SomeoneCares, Cares
  <2>3. ASSUME NEW q \in Coroutine, attempt'[inst'] = q
        PROVE  Cared'
    <3>1. Foremost(q, "loop")'
      BY Apart DEF AllForemost
    <3>2. pc'[q] \in {"dialing", "tail"} => q = "loop"
      BY <1>2, <2>1, <2>3, <3>1, Apart DEF Foremost
    <3>3. Served'
      BY <2>3, <3>2, Apart DEF Served
    <3> QED  BY <3>3 DEF Cared
  <2>4. inst' \in Instance
    BY DEF TypeOK
  <2>5. attempt'[inst'] \in Coroutine \cup {None}
    BY <2>4 DEF TypeOK
  <2> QED  BY <1>2, <2>2, <2>3, <2>5 DEF LoopOwned
<1>3. pc'["loop"] = "idle" \/ LoopCares' \/ Connects("loop")'
  BY Apart DEF Stations, Station, LoopCares, Connects
<1> QED  BY <1>1, <1>2, <1>3

(* What mends the card cares for the device. *)
LEMMA MendedCared ==
  ASSUME TypeOK', Removals', Roles', Stations', WorkerClosesOld',
         inst' # None, Mended'
  PROVE  Cared'
<1>1. PICK p \in Coroutine : Mends(p)'
  BY DEF Mended
<1>2. CASE Dialing(p)'
  <2>1. Served'
    BY <1>2, Apart DEF Dialing, Served
  <2> QED  BY <2>1 DEF Cared
<1>3. CASE pc'[p] = "closing" /\ drv'[p] = inst'
  <2>1. Station(p)' /\ ClosesOld(p)' /\ Role(p)'
    BY DEF Stations, WorkerClosesOld, Roles
  <2>2. op'[p] \notin Removal
    BY <1>3 DEF Removals, Removing
  <2>3. Cares(p)'
    BY <1>3, <2>1, <2>2 DEF Station, ClosesOld, Role, Cares, Closes, Removal
  <2> QED  BY <2>3 DEF Cared, SomeoneCares
<1> QED  BY <1>1, <1>2, <1>3 DEF Mends

LEMMA CaresMoves ==
  ASSUME TypeOK, Roles, Clean, Clean', inst # None, ~key', ~paused',
         NEW x \in Coroutine, Role(x), Station(x), Cares(x), [Next]_vars
  PROVE  Cares(x)' \/ inst' # inst \/ Minded'
<1> USE DEF TypeOK, Goto, links, flags, coros, count, Cares, Closes, Past,
     Role, Station, Clean, Minded, DropCares, Served
<1>1. ASSUME NEW r \in Request, NEW o \in Door, Press(r, o),
             \A s \in Request : ~Entering(s)
      PROVE  Cares(x)' \/ inst' # inst \/ Minded'
  <2>1. Cares(r)'
    BY <1>1, Apart DEF Press, Past, Goto, Cares, Closes
  <2> QED  BY <2>1, Apart DEF Minded, SomeoneCares
<1>2. ASSUME NEW r \in Request, Reconnect(r)
      PROVE  Cares(x)' \/ inst' # inst \/ Minded'
  <2>1. Cares(r)'
    BY <1>2, Apart DEF Reconnect, Past, Goto, Cares, Closes
  <2> QED  BY <2>1, Apart DEF Minded, SomeoneCares
<1>3. ASSUME NEW r \in Request, Pause(r)
      PROVE  Cares(x)' \/ inst' # inst \/ Minded'
  <2>1. Cares(r)'
    BY <1>3, Apart DEF Pause, Past, Goto, Cares, Closes
  <2> QED  BY <2>1, Apart DEF Minded, SomeoneCares
<1>4. ASSUME NEW r \in Request, BeginSetup(r)
      PROVE  Cares(x)' \/ inst' # inst \/ Minded'
  <2>1. Cares(r)'
    BY <1>4, Apart DEF BeginSetup, Past, Goto, Cares, Closes
  <2> QED  BY <2>1, Apart DEF Minded, SomeoneCares
<1>5. ASSUME NEW r \in Request, Remove(r)
      PROVE  Cares(x)' \/ inst' # inst \/ Minded'
  BY <1>5, Apart DEF Remove, Past, Closing, Goto
<1>6. ASSUME NEW r \in Request, PressResume(r)
      PROVE  Cares(x)' \/ inst' # inst \/ Minded'
  BY <1>6, Apart DEF PressResume, Resume, Dial, Locked, Dialed, Goto, Note
<1>7. ASSUME NEW r \in Request, EndSetup(r)
      PROVE  Cares(x)' \/ inst' # inst \/ Minded'
  BY <1>7, Apart DEF EndSetup, Done, Discards, LoopReads, Goto, Retrying
<1>8. ASSUME NEW r \in Request, SetupRedials(r)
      PROVE  Cares(x)' \/ inst' # inst \/ Minded'
  <2>1. Role(r)
    BY Apart DEF Roles
  <2>2. Cares(r)'
    BY <1>8, <2>1, Apart DEF SetupRedials, Goto, Cares, Role, Closes
  <2> QED  BY <2>2, Apart DEF Minded, SomeoneCares
<1>9. ASSUME NEW p \in Coroutine, Enter(p)
      PROVE  Cares(x)' \/ inst' # inst \/ Minded'
  BY <1>9, Apart DEF Enter, Current, Locked, Goto
<1>10. ASSUME NEW p \in Coroutine, Declare(p)
      PROVE  Cares(x)' \/ inst' # inst \/ Minded'
  BY <1>10, Apart DEF Declare, Current, Goto
<1>11. ASSUME NEW p \in Coroutine, Connected(p)
      PROVE  Cares(x)' \/ inst' # inst \/ Minded'
  BY <1>11, Apart DEF Connected, Current, Stale, Superseded, DownAgain,
     Released, LoopReads, Again, Goto
<1>12. ASSUME NEW p \in Coroutine, Settled(p)
      PROVE  Cares(x)' \/ inst' # inst \/ Minded'
  BY <1>12, Apart DEF Settled, DownAgain, Done, Discards, LoopReads, Again,
     Goto, Retrying
<1>13. ASSUME NEW p \in Coroutine, Unwind(p)
      PROVE  Cares(x)' \/ inst' # inst \/ Minded'
  BY <1>13, Apart DEF Unwind, Ended, Current, Stale, Superseded, Released,
     Done, Discards, LoopReads, Goto, Retrying
<1>14. ASSUME NEW p \in Coroutine, NEW b \in BOOLEAN, ConnectFails(p, b)
      PROVE  Cares(x)' \/ inst' # inst \/ Minded'
  BY <1>14, Apart, ZenonT(60)
     DEF ConnectFails, Current, Stale, Superseded, Released, Done,
     Discards, LoopReads, Again, Goto, Retrying
<1>15. ASSUME NEW p \in Coroutine, Redial(p)
      PROVE  Cares(x)' \/ inst' # inst \/ Minded'
  BY <1>15, Apart DEF Redial, Superseded, Shut, Closed, Dialed, Informed,
     Retrying, LoopReads, Goto, Note
<1>16. ASSUME NEW p \in Coroutine, PauseHolds(p)
      PROVE  Cares(x)' \/ inst' # inst \/ Minded'
  BY <1>16, Apart DEF PauseHolds, Superseded, Shut, Closed, Informed, Retrying,
     LoopReads, Goto, Note
<1>17. ASSUME NEW p \in Coroutine, Removed(p)
      PROVE  Cares(x)' \/ inst' # inst \/ Minded'
  BY <1>17, Apart DEF Removed, Shut, Closed, Goto
<1>18. ASSUME NEW p \in Coroutine, Readded(p)
      PROVE  Cares(x)' \/ inst' # inst \/ Minded'
  BY <1>18, Apart DEF Readded, Shut, Closed, CarriedArmed, Goto
<1>19. ASSUME NEW p \in Coroutine, Discarded(p)
      PROVE  Cares(x)' \/ inst' # inst \/ Minded'
  BY <1>19, Apart DEF Discarded, Shut, Informed, Retrying, LoopReads, LiveKey,
     Goto
<1>20. ASSUME Expire  PROVE  Cares(x)' \/ inst' # inst \/ Minded'
  BY <1>20, Apart DEF Expire, Resume, Dial, Locked, Dialed, Goto, Note
<1>21. ASSUME ExpireRemoved  PROVE  Cares(x)' \/ inst' # inst \/ Minded'
  BY <1>21, Apart DEF ExpireRemoved
<1>22. ASSUME BringUp  PROVE  Cares(x)' \/ inst' # inst \/ Minded'
  BY <1>22, Apart DEF BringUp, Dial, Locked, Dialed, Goto, Note
<1>23. ASSUME Retry, \A s \in Request : ~Entering(s)
      PROVE  Cares(x)' \/ inst' # inst \/ Minded'
  BY <1>23, Apart DEF Retry, Dial, Locked, Dialed, Goto, Superseded
<1>24. ASSUME Kick  PROVE  Cares(x)' \/ inst' # inst \/ Minded'
  BY <1>24, Apart DEF Kick, Released, LoopReads, Goto, Stale, Superseded
<1>25. ASSUME NEW d \in Instance, Drop(d)
      PROVE  Cares(x)' \/ inst' # inst \/ Minded'
  BY <1>25, Apart DEF Drop
<1>26. ASSUME NEW d \in Instance, NEW b \in BOOLEAN, DropTold(d, b)
      PROVE  Cares(x)' \/ inst' # inst \/ Minded'
  BY <1>26, Apart DEF DropTold, LoopReads, Retrying, Note
<1>27. ASSUME UNCHANGED vars  PROVE  Cares(x)' \/ inst' # inst \/ Minded'
  BY <1>27, Apart DEF vars, links, flags, coros, count
<1> HIDE DEF TypeOK, Goto, links, flags, coros, count, Cares, Closes, Past,
     Role, Station, Clean, Minded, DropCares, Served
<1> QED
  BY <1>1, <1>2, <1>3, <1>4, <1>5, <1>6, <1>7, <1>8, <1>9, <1>10, <1>11, <1>12,
     <1>13, <1>14, <1>15, <1>16, <1>17, <1>18, <1>19, <1>20, <1>21, <1>22,
     <1>23, <1>24, <1>25, <1>26, <1>27 DEF Next, Entering, Head, ConnectStep,
     CloseStep

LEMMA LoopCaresMoves ==
  ASSUME TypeOK, Roles, inst # None, ~key', LoopCares, [Next]_vars
  PROVE  Minded'
<1> USE DEF TypeOK, Goto, links, flags, coros, count, LoopCares, Minded,
     DropCares, Served
<1>1. ASSUME NEW r \in Request, NEW o \in Door, Press(r, o),
             \A s \in Request : ~Entering(s)
      PROVE  Minded'
  <2>1. Cares(r)'
    BY <1>1, Apart DEF Press, Past, Goto, Cares, Closes
  <2> QED  BY <2>1, Apart DEF Minded, SomeoneCares
<1>2. ASSUME NEW r \in Request, Reconnect(r)  PROVE  Minded'
  <2>1. Cares(r)'
    BY <1>2, Apart DEF Reconnect, Past, Goto, Cares, Closes
  <2> QED  BY <2>1, Apart DEF Minded, SomeoneCares
<1>3. ASSUME NEW r \in Request, Pause(r)  PROVE  Minded'
  <2>1. Cares(r)'
    BY <1>3, Apart DEF Pause, Past, Goto, Cares, Closes
  <2> QED  BY <2>1, Apart DEF Minded, SomeoneCares
<1>4. ASSUME NEW r \in Request, BeginSetup(r)  PROVE  Minded'
  <2>1. Cares(r)'
    BY <1>4, Apart DEF BeginSetup, Past, Goto, Cares, Closes
  <2> QED  BY <2>1, Apart DEF Minded, SomeoneCares
<1>5. ASSUME NEW r \in Request, Remove(r)  PROVE  Minded'
  BY <1>5, Apart DEF Remove, Past, Closing, Goto
<1>6. ASSUME NEW r \in Request, PressResume(r)  PROVE  Minded'
  BY <1>6, Apart DEF PressResume, Resume, Dial, Locked, Dialed, Goto, Note
<1>7. ASSUME NEW r \in Request, EndSetup(r)  PROVE  Minded'
  BY <1>7, Apart DEF EndSetup, Done, Discards, LoopReads, Goto, Retrying
<1>8. ASSUME NEW r \in Request, SetupRedials(r)  PROVE  Minded'
  <2>1. Role(r)
    BY Apart DEF Roles
  <2>2. Cares(r)'
    BY <1>8, <2>1, Apart DEF SetupRedials, Goto, Cares, Role, Closes
  <2> QED  BY <2>2, Apart DEF Minded, SomeoneCares
<1>9. ASSUME NEW p \in Coroutine, Enter(p)  PROVE  Minded'
  BY <1>9, Apart DEF Enter, Current, Locked, Goto
<1>10. ASSUME NEW p \in Coroutine, Declare(p)  PROVE  Minded'
  BY <1>10, Apart DEF Declare, Current, Goto
<1>11. ASSUME NEW p \in Coroutine, Connected(p)  PROVE  Minded'
  BY <1>11, Apart DEF Connected, Current, Stale, Superseded, DownAgain,
     Released, LoopReads, Again, Goto
<1>12. ASSUME NEW p \in Coroutine, Settled(p)  PROVE  Minded'
  BY <1>12, Apart DEF Settled, DownAgain, Done, Discards, LoopReads, Again,
     Goto, Retrying
<1>13. ASSUME NEW p \in Coroutine, Unwind(p)  PROVE  Minded'
  BY <1>13, Apart DEF Unwind, Ended, Current, Stale, Superseded, Released,
     Done, Discards, LoopReads, Goto, Retrying
<1>14. ASSUME NEW p \in Coroutine, NEW b \in BOOLEAN, ConnectFails(p, b)
      PROVE  Minded'
  BY <1>14, Apart DEF ConnectFails, Current, Stale, Superseded, Released, Done,
     Discards, LoopReads, Again, Goto, Retrying
<1>15. ASSUME NEW p \in Coroutine, Redial(p)  PROVE  Minded'
  BY <1>15, Apart DEF Redial, Superseded, Shut, Closed, Dialed, Informed,
     Retrying, LoopReads, Goto, Note
<1>16. ASSUME NEW p \in Coroutine, PauseHolds(p)  PROVE  Minded'
  BY <1>16, Apart DEF PauseHolds, Superseded, Shut, Closed, Informed, Retrying,
     LoopReads, Goto, Note
<1>17. ASSUME NEW p \in Coroutine, Removed(p)  PROVE  Minded'
  BY <1>17, Apart DEF Removed, Shut, Closed, Goto
<1>18. ASSUME NEW p \in Coroutine, Readded(p)  PROVE  Minded'
  BY <1>18, Apart DEF Readded, Shut, Closed, CarriedArmed, Goto
<1>19. ASSUME NEW p \in Coroutine, Discarded(p)  PROVE  Minded'
  BY <1>19, Apart DEF Discarded, Shut, Informed, Retrying, LoopReads, LiveKey,
     Goto
<1>20. ASSUME Expire  PROVE  Minded'
  BY <1>20, Apart DEF Expire, Resume, Dial, Locked, Dialed, Goto, Note
<1>21. ASSUME ExpireRemoved  PROVE  Minded'
  BY <1>21, Apart DEF ExpireRemoved
<1>22. ASSUME BringUp  PROVE  Minded'
  BY <1>22, Apart DEF BringUp, Dial, Locked, Dialed, Goto, Note
<1>23. ASSUME Retry, \A s \in Request : ~Entering(s)  PROVE  Minded'
  BY <1>23, Apart DEF Retry, Dial, Locked, Dialed, Goto, Superseded
<1>24. ASSUME Kick  PROVE  Minded'
  BY <1>24, Apart DEF Kick, Released, LoopReads, Goto, Stale, Superseded
<1>25. ASSUME NEW d \in Instance, Drop(d)  PROVE  Minded'
  BY <1>25, Apart DEF Drop
<1>26. ASSUME NEW d \in Instance, NEW b \in BOOLEAN, DropTold(d, b)
      PROVE  Minded'
  BY <1>26, Apart DEF DropTold, LoopReads, Retrying, Note
<1>27. ASSUME UNCHANGED vars  PROVE  Minded'
  BY <1>27, Apart DEF vars, links, flags, coros, count
<1> HIDE DEF TypeOK, Goto, links, flags, coros, count, LoopCares, Minded,
     DropCares, Served
<1> QED
  BY <1>1, <1>2, <1>3, <1>4, <1>5, <1>6, <1>7, <1>8, <1>9, <1>10, <1>11, <1>12,
     <1>13, <1>14, <1>15, <1>16, <1>17, <1>18, <1>19, <1>20, <1>21, <1>22,
     <1>23, <1>24, <1>25, <1>26, <1>27 DEF Next, Entering, Head, ConnectStep,
     CloseStep

LEMMA DropCaresMoves ==
  ASSUME TypeOK, Roles, Fit', inst # None, ~key', DropCares, [Next]_vars
  PROVE  inst' # inst \/ Minded' \/ failed'
         \/ (mark /\ ~Busy("reconnect") /\ paused' = paused)
<1> USE DEF TypeOK, Goto, links, flags, coros, count, Fit, Minded, DropCares,
     Served
<1>1. ASSUME NEW r \in Request, NEW o \in Door, Press(r, o),
             \A s \in Request : ~Entering(s)
      PROVE  inst' # inst \/ Minded' \/ failed'
             \/ (mark /\ ~Busy("reconnect") /\ paused' = paused)
  <2>1. Cares(r)'
    BY <1>1, Apart DEF Press, Past, Goto, Cares, Closes
  <2> QED  BY <2>1, Apart DEF Minded, SomeoneCares
<1>2. ASSUME NEW r \in Request, Reconnect(r)
      PROVE  inst' # inst \/ Minded' \/ failed'
             \/ (mark /\ ~Busy("reconnect") /\ paused' = paused)
  <2>1. Cares(r)'
    BY <1>2, Apart DEF Reconnect, Past, Goto, Cares, Closes
  <2> QED  BY <2>1, Apart DEF Minded, SomeoneCares
<1>3. ASSUME NEW r \in Request, Pause(r)
      PROVE  inst' # inst \/ Minded' \/ failed'
             \/ (mark /\ ~Busy("reconnect") /\ paused' = paused)
  <2>1. Cares(r)'
    BY <1>3, Apart DEF Pause, Past, Goto, Cares, Closes
  <2> QED  BY <2>1, Apart DEF Minded, SomeoneCares
<1>4. ASSUME NEW r \in Request, BeginSetup(r)
      PROVE  inst' # inst \/ Minded' \/ failed'
             \/ (mark /\ ~Busy("reconnect") /\ paused' = paused)
  <2>1. Cares(r)'
    BY <1>4, Apart DEF BeginSetup, Past, Goto, Cares, Closes
  <2> QED  BY <2>1, Apart DEF Minded, SomeoneCares
<1>5. ASSUME NEW r \in Request, Remove(r)
      PROVE  inst' # inst \/ Minded' \/ failed'
             \/ (mark /\ ~Busy("reconnect") /\ paused' = paused)
  BY <1>5, Apart DEF Remove, Past, Closing, Goto
<1>6. ASSUME NEW r \in Request, PressResume(r)
      PROVE  inst' # inst \/ Minded' \/ failed'
             \/ (mark /\ ~Busy("reconnect") /\ paused' = paused)
  BY <1>6, Apart DEF PressResume, Resume, Dial, Locked, Dialed, Goto, Note
<1>7. ASSUME NEW r \in Request, EndSetup(r)
      PROVE  inst' # inst \/ Minded' \/ failed'
             \/ (mark /\ ~Busy("reconnect") /\ paused' = paused)
  BY <1>7, Apart DEF EndSetup, Done, Discards, LoopReads, Goto, Retrying
<1>8. ASSUME NEW r \in Request, SetupRedials(r)
      PROVE  inst' # inst \/ Minded' \/ failed'
             \/ (mark /\ ~Busy("reconnect") /\ paused' = paused)
  <2>1. Role(r)
    BY Apart DEF Roles
  <2>2. Cares(r)'
    BY <1>8, <2>1, Apart DEF SetupRedials, Goto, Cares, Role, Closes
  <2> QED  BY <2>2, Apart DEF Minded, SomeoneCares
<1>9. ASSUME NEW p \in Coroutine, Enter(p)
      PROVE  inst' # inst \/ Minded' \/ failed'
             \/ (mark /\ ~Busy("reconnect") /\ paused' = paused)
  BY <1>9, Apart DEF Enter, Current, Locked, Goto
<1>10. ASSUME NEW p \in Coroutine, Declare(p)
      PROVE  inst' # inst \/ Minded' \/ failed'
             \/ (mark /\ ~Busy("reconnect") /\ paused' = paused)
  BY <1>10, Apart DEF Declare, Current, Goto
<1>11. ASSUME NEW p \in Coroutine, Connected(p)
      PROVE  inst' # inst \/ Minded' \/ failed'
             \/ (mark /\ ~Busy("reconnect") /\ paused' = paused)
  BY <1>11, Apart DEF Connected, Current, Stale, Superseded, DownAgain,
     Released, LoopReads, Again, Goto
<1>12. ASSUME NEW p \in Coroutine, Settled(p)
      PROVE  inst' # inst \/ Minded' \/ failed'
             \/ (mark /\ ~Busy("reconnect") /\ paused' = paused)
  BY <1>12, Apart DEF Settled, DownAgain, Done, Discards, LoopReads, Again,
     Goto, Retrying
<1>13. ASSUME NEW p \in Coroutine, Unwind(p)
      PROVE  inst' # inst \/ Minded' \/ failed'
             \/ (mark /\ ~Busy("reconnect") /\ paused' = paused)
  BY <1>13, Apart DEF Unwind, Ended, Current, Stale, Superseded, Released,
     Done, Discards, LoopReads, Goto, Retrying
<1>14. ASSUME NEW p \in Coroutine, NEW b \in BOOLEAN, ConnectFails(p, b)
      PROVE  inst' # inst \/ Minded' \/ failed'
             \/ (mark /\ ~Busy("reconnect") /\ paused' = paused)
  BY <1>14, Apart DEF ConnectFails, Current, Stale, Superseded, Released, Done,
     Discards, LoopReads, Again, Goto, Retrying
<1>15. ASSUME NEW p \in Coroutine, Redial(p)
      PROVE  inst' # inst \/ Minded' \/ failed'
             \/ (mark /\ ~Busy("reconnect") /\ paused' = paused)
  BY <1>15, Apart DEF Redial, Superseded, Shut, Closed, Dialed, Informed,
     Retrying, LoopReads, Goto, Note
<1>16. ASSUME NEW p \in Coroutine, PauseHolds(p)
      PROVE  inst' # inst \/ Minded' \/ failed'
             \/ (mark /\ ~Busy("reconnect") /\ paused' = paused)
  BY <1>16, Apart DEF PauseHolds, Superseded, Shut, Closed, Informed, Retrying,
     LoopReads, Goto, Note
<1>17. ASSUME NEW p \in Coroutine, Removed(p)
      PROVE  inst' # inst \/ Minded' \/ failed'
             \/ (mark /\ ~Busy("reconnect") /\ paused' = paused)
  BY <1>17, Apart DEF Removed, Shut, Closed, Goto
<1>18. ASSUME NEW p \in Coroutine, Readded(p)
      PROVE  inst' # inst \/ Minded' \/ failed'
             \/ (mark /\ ~Busy("reconnect") /\ paused' = paused)
  BY <1>18, Apart DEF Readded, Shut, Closed, CarriedArmed, Goto
<1>19. ASSUME NEW p \in Coroutine, Discarded(p)
      PROVE  inst' # inst \/ Minded' \/ failed'
             \/ (mark /\ ~Busy("reconnect") /\ paused' = paused)
  BY <1>19, Apart DEF Discarded, Shut, Informed, Retrying, LoopReads, LiveKey,
     Goto
<1>20. ASSUME Expire
      PROVE  inst' # inst \/ Minded' \/ failed'
             \/ (mark /\ ~Busy("reconnect") /\ paused' = paused)
  BY <1>20, Apart DEF Expire, Resume, Dial, Locked, Dialed, Goto, Note
<1>21. ASSUME ExpireRemoved
      PROVE  inst' # inst \/ Minded' \/ failed'
             \/ (mark /\ ~Busy("reconnect") /\ paused' = paused)
  BY <1>21, Apart DEF ExpireRemoved
<1>22. ASSUME BringUp
      PROVE  inst' # inst \/ Minded' \/ failed'
             \/ (mark /\ ~Busy("reconnect") /\ paused' = paused)
  BY <1>22, Apart DEF BringUp, Dial, Locked, Dialed, Goto, Note
<1>23. ASSUME Retry, \A s \in Request : ~Entering(s)
      PROVE  inst' # inst \/ Minded' \/ failed'
             \/ (mark /\ ~Busy("reconnect") /\ paused' = paused)
  BY <1>23, Apart DEF Retry, Dial, Locked, Dialed, Goto, Superseded
<1>24. ASSUME Kick
      PROVE  inst' # inst \/ Minded' \/ failed'
             \/ (mark /\ ~Busy("reconnect") /\ paused' = paused)
  BY <1>24, Apart DEF Kick, Released, LoopReads, Goto, Stale, Superseded
<1>25. ASSUME NEW d \in Instance, Drop(d)
      PROVE  inst' # inst \/ Minded' \/ failed'
             \/ (mark /\ ~Busy("reconnect") /\ paused' = paused)
  BY <1>25, Apart DEF Drop
<1>26. ASSUME NEW d \in Instance, NEW b \in BOOLEAN, DropTold(d, b)
      PROVE  inst' # inst \/ Minded' \/ failed'
             \/ (mark /\ ~Busy("reconnect") /\ paused' = paused)
  BY <1>26, Apart DEF DropTold, LoopReads, Retrying, Note
<1>27. ASSUME UNCHANGED vars
      PROVE  inst' # inst \/ Minded' \/ failed'
             \/ (mark /\ ~Busy("reconnect") /\ paused' = paused)
  BY <1>27, Apart DEF vars, links, flags, coros, count
<1> HIDE DEF TypeOK, Goto, links, flags, coros, count, Fit, Minded, DropCares,
     Served
<1> QED
  BY <1>1, <1>2, <1>3, <1>4, <1>5, <1>6, <1>7, <1>8, <1>9, <1>10, <1>11, <1>12,
     <1>13, <1>14, <1>15, <1>16, <1>17, <1>18, <1>19, <1>20, <1>21, <1>22,
     <1>23, <1>24, <1>25, <1>26, <1>27 DEF Next, Entering, Head, ConnectStep,
     CloseStep

LEMMA ServedMoves ==
  ASSUME TypeOK, Removals, Left, Roles, AllForemost, Clean, Clean',
         inst # None, Attempted(inst), ~key', ~paused', Served, [Next]_vars
  PROVE  inst' # inst \/ Minded' \/ failed'
         \/ (\E q \in Coroutine : Connected(q) /\ drv[q] = inst
           /\ attempt[inst] = q /\ conn'[inst])
<1>a. ASSUME NEW p \in Coroutine
      PROVE  OwnDriver(p) /\ drv[p] \in Instance /\ Role(p)
               /\ (\A q \in Coroutine : Foremost(q, p))
                    /\ (attempt[inst] = p => drv[p] = inst
                         /\ pc[p] \in {"queued", "dialing", "tail"})
  <2>1. OwnDriver(p)
    BY OwnAttempt
  <2>2. drv[p] \in Instance /\ Role(p)
    BY DEF TypeOK, Roles
  <2>3. \A q \in Coroutine : Foremost(q, p)
    BY DEF AllForemost
  <2>4. attempt[inst] = p => drv[p] = inst
          /\ pc[p] \in {"queued", "dialing", "tail"}
    BY Apart DEF Attempted, Connects
  <2> QED  BY <2>1, <2>2, <2>3, <2>4
<1> USE DEF TypeOK, Goto, links, flags, coros, count, Clean, Connects, Minded,
     DropCares, Served
<1>1. ASSUME NEW r \in Request, NEW o \in Door, Press(r, o),
             \A s \in Request : ~Entering(s)
      PROVE  inst' # inst \/ Minded' \/ failed'
             \/ (\E q \in Coroutine : Connected(q) /\ drv[q] = inst
               /\ attempt[inst] = q /\ conn'[inst])
  <2>1. Cares(r)'
    BY <1>1, Apart DEF Press, Past, Goto, Cares, Closes
  <2> QED  BY <2>1, Apart DEF Minded, SomeoneCares
<1>2. ASSUME NEW r \in Request, Reconnect(r)
      PROVE  inst' # inst \/ Minded' \/ failed'
             \/ (\E q \in Coroutine : Connected(q) /\ drv[q] = inst
               /\ attempt[inst] = q /\ conn'[inst])
  <2>1. Cares(r)'
    BY <1>2, Apart DEF Reconnect, Past, Goto, Cares, Closes
  <2> QED  BY <2>1, Apart DEF Minded, SomeoneCares
<1>3. ASSUME NEW r \in Request, Pause(r)
      PROVE  inst' # inst \/ Minded' \/ failed'
             \/ (\E q \in Coroutine : Connected(q) /\ drv[q] = inst
               /\ attempt[inst] = q /\ conn'[inst])
  <2>1. Cares(r)'
    BY <1>3, Apart DEF Pause, Past, Goto, Cares, Closes
  <2> QED  BY <2>1, Apart DEF Minded, SomeoneCares
<1>4. ASSUME NEW r \in Request, BeginSetup(r)
      PROVE  inst' # inst \/ Minded' \/ failed'
             \/ (\E q \in Coroutine : Connected(q) /\ drv[q] = inst
               /\ attempt[inst] = q /\ conn'[inst])
  <2>1. Cares(r)'
    BY <1>4, Apart DEF BeginSetup, Past, Goto, Cares, Closes
  <2> QED  BY <2>1, Apart DEF Minded, SomeoneCares
<1>5. ASSUME NEW r \in Request, Remove(r)
      PROVE  inst' # inst \/ Minded' \/ failed'
             \/ (\E q \in Coroutine : Connected(q) /\ drv[q] = inst
               /\ attempt[inst] = q /\ conn'[inst])
  <2>1. OwnDriver(r) /\ drv[r] \in Instance /\ Role(r)
          /\ (\A q \in Coroutine : Foremost(q, r)) /\ (attempt[inst] = r
               => drv[r] = inst /\ pc[r] \in {"queued", "dialing", "tail"})
    BY <1>a, Apart
  <2> QED
    BY <1>5, <2>1, Apart DEF Remove, Past, Closing, Goto
<1>6. ASSUME NEW r \in Request, PressResume(r)
      PROVE  inst' # inst \/ Minded' \/ failed'
             \/ (\E q \in Coroutine : Connected(q) /\ drv[q] = inst
               /\ attempt[inst] = q /\ conn'[inst])
  <2>1. OwnDriver(r) /\ drv[r] \in Instance /\ Role(r)
          /\ (\A q \in Coroutine : Foremost(q, r)) /\ (attempt[inst] = r
               => drv[r] = inst /\ pc[r] \in {"queued", "dialing", "tail"})
    BY <1>a, Apart
  <2> QED
    BY <1>6, <2>1, Apart DEF PressResume, Resume, Dial, Locked, Dialed, Goto,
       Note
<1>7. ASSUME NEW r \in Request, EndSetup(r)
      PROVE  inst' # inst \/ Minded' \/ failed'
             \/ (\E q \in Coroutine : Connected(q) /\ drv[q] = inst
               /\ attempt[inst] = q /\ conn'[inst])
  <2>1. OwnDriver(r) /\ drv[r] \in Instance /\ Role(r)
          /\ (\A q \in Coroutine : Foremost(q, r)) /\ (attempt[inst] = r
               => drv[r] = inst /\ pc[r] \in {"queued", "dialing", "tail"})
    BY <1>a, Apart
  <2> QED
    BY <1>7, <2>1, Apart DEF EndSetup, Done, Discards, LoopReads, Goto,
       Retrying
<1>8. ASSUME NEW r \in Request, SetupRedials(r)
      PROVE  inst' # inst \/ Minded' \/ failed'
             \/ (\E q \in Coroutine : Connected(q) /\ drv[q] = inst
               /\ attempt[inst] = q /\ conn'[inst])
  <2>1. Role(r)
    BY Apart DEF Roles
  <2>2. Cares(r)'
    BY <1>8, <2>1, Apart DEF SetupRedials, Goto, Cares, Role, Closes
  <2> QED  BY <2>2, Apart DEF Minded, SomeoneCares
<1>9. ASSUME NEW p \in Coroutine, Enter(p)
      PROVE  inst' # inst \/ Minded' \/ failed'
             \/ (\E q \in Coroutine : Connected(q) /\ drv[q] = inst
               /\ attempt[inst] = q /\ conn'[inst])
  <2>1. OwnDriver(p) /\ drv[p] \in Instance /\ Role(p)
          /\ (\A q \in Coroutine : Foremost(q, p)) /\ (attempt[inst] = p
               => drv[p] = inst /\ pc[p] \in {"queued", "dialing", "tail"})
    BY <1>a, Apart
  <2> QED
    BY <1>9, <2>1, Apart DEF Enter, Current, Locked, Goto, OwnDriver
<1>10. ASSUME NEW p \in Coroutine, Declare(p)
      PROVE  inst' # inst \/ Minded' \/ failed'
             \/ (\E q \in Coroutine : Connected(q) /\ drv[q] = inst
               /\ attempt[inst] = q /\ conn'[inst])
  <2>1. OwnDriver(p) /\ drv[p] \in Instance /\ Role(p)
          /\ (\A q \in Coroutine : Foremost(q, p)) /\ (attempt[inst] = p
               => drv[p] = inst /\ pc[p] \in {"queued", "dialing", "tail"})
    BY <1>a, Apart
  <2> QED
    BY <1>10, <2>1, Apart DEF Declare, Current, Goto, OwnDriver
<1>11. ASSUME NEW p \in Coroutine, Connected(p)
      PROVE  inst' # inst \/ Minded' \/ failed'
             \/ (\E q \in Coroutine : Connected(q) /\ drv[q] = inst
               /\ attempt[inst] = q /\ conn'[inst])
  <2>1. OwnDriver(p) /\ drv[p] \in Instance /\ Role(p)
          /\ (\A q \in Coroutine : Foremost(q, p)) /\ (attempt[inst] = p
               => drv[p] = inst /\ pc[p] \in {"queued", "dialing", "tail"})
    BY <1>a, Apart
  <2> QED
    BY <1>11, <2>1, Apart DEF Connected, Current, Stale, Superseded, DownAgain,
       Released, LoopReads, Again, Goto, OwnDriver
<1>12. ASSUME NEW p \in Coroutine, Settled(p)
      PROVE  inst' # inst \/ Minded' \/ failed'
             \/ (\E q \in Coroutine : Connected(q) /\ drv[q] = inst
               /\ attempt[inst] = q /\ conn'[inst])
  <2>1. OwnDriver(p) /\ drv[p] \in Instance /\ Role(p)
          /\ (\A q \in Coroutine : Foremost(q, p)) /\ (attempt[inst] = p
               => drv[p] = inst /\ pc[p] \in {"queued", "dialing", "tail"})
    BY <1>a, Apart
  <2> QED
    BY <1>12, <2>1, Apart DEF Settled, DownAgain, Done, Discards, LoopReads,
       Again, Goto, Retrying
<1>13. ASSUME NEW p \in Coroutine, Unwind(p)
      PROVE  inst' # inst \/ Minded' \/ failed'
             \/ (\E q \in Coroutine : Connected(q) /\ drv[q] = inst
               /\ attempt[inst] = q /\ conn'[inst])
  <2>1. OwnDriver(p) /\ drv[p] \in Instance /\ Role(p)
          /\ (\A q \in Coroutine : Foremost(q, p)) /\ (attempt[inst] = p
               => drv[p] = inst /\ pc[p] \in {"queued", "dialing", "tail"})
    BY <1>a, Apart
  <2> QED
    BY <1>13, <2>1, Apart DEF Unwind, Ended, Current, Stale, Superseded,
       Released, Done, Discards, LoopReads, Goto, Retrying, Foremost
<1>14. ASSUME NEW p \in Coroutine, NEW b \in BOOLEAN, ConnectFails(p, b)
      PROVE  inst' # inst \/ Minded' \/ failed'
             \/ (\E q \in Coroutine : Connected(q) /\ drv[q] = inst
               /\ attempt[inst] = q /\ conn'[inst])
  <2>1. OwnDriver(p) /\ drv[p] \in Instance /\ Role(p)
          /\ (\A q \in Coroutine : Foremost(q, p)) /\ (attempt[inst] = p
               => drv[p] = inst /\ pc[p] \in {"queued", "dialing", "tail"})
    BY <1>a, Apart
  <2> QED
    BY <1>14, <2>1, Apart DEF ConnectFails, Current, Stale, Superseded,
       Released, Done, Discards, LoopReads, Again, Goto, Retrying, OwnDriver
<1>15. ASSUME NEW p \in Coroutine, Redial(p)
      PROVE  inst' # inst \/ Minded' \/ failed'
             \/ (\E q \in Coroutine : Connected(q) /\ drv[q] = inst
               /\ attempt[inst] = q /\ conn'[inst])
  <2>1. OwnDriver(p) /\ drv[p] \in Instance /\ Role(p)
          /\ (\A q \in Coroutine : Foremost(q, p)) /\ (attempt[inst] = p
               => drv[p] = inst /\ pc[p] \in {"queued", "dialing", "tail"})
    BY <1>a, Apart
  <2> QED
    BY <1>15, <2>1, Apart DEF Redial, Superseded, Shut, Closed, Dialed,
       Informed, Retrying, LoopReads, Goto, Note
<1>16. ASSUME NEW p \in Coroutine, PauseHolds(p)
      PROVE  inst' # inst \/ Minded' \/ failed'
             \/ (\E q \in Coroutine : Connected(q) /\ drv[q] = inst
               /\ attempt[inst] = q /\ conn'[inst])
  <2>1. OwnDriver(p) /\ drv[p] \in Instance /\ Role(p)
          /\ (\A q \in Coroutine : Foremost(q, p)) /\ (attempt[inst] = p
               => drv[p] = inst /\ pc[p] \in {"queued", "dialing", "tail"})
    BY <1>a, Apart
  <2> QED
    BY <1>16, <2>1, Apart DEF PauseHolds, Superseded, Shut, Closed, Informed,
       Retrying, LoopReads, Goto, Note
<1>17. ASSUME NEW p \in Coroutine, Removed(p)
      PROVE  inst' # inst \/ Minded' \/ failed'
             \/ (\E q \in Coroutine : Connected(q) /\ drv[q] = inst
               /\ attempt[inst] = q /\ conn'[inst])
  <2>1. OwnDriver(p) /\ drv[p] \in Instance /\ Role(p)
          /\ (\A q \in Coroutine : Foremost(q, p)) /\ (attempt[inst] = p
               => drv[p] = inst /\ pc[p] \in {"queued", "dialing", "tail"})
    BY <1>a, Apart
  <2> QED
    BY <1>17, <2>1, Apart DEF Removed, Shut, Closed, Goto, Removals, Removing,
       Removal
<1>18. ASSUME NEW p \in Coroutine, Readded(p)
      PROVE  inst' # inst \/ Minded' \/ failed'
             \/ (\E q \in Coroutine : Connected(q) /\ drv[q] = inst
               /\ attempt[inst] = q /\ conn'[inst])
  <2>1. OwnDriver(p) /\ drv[p] \in Instance /\ Role(p)
          /\ (\A q \in Coroutine : Foremost(q, p)) /\ (attempt[inst] = p
               => drv[p] = inst /\ pc[p] \in {"queued", "dialing", "tail"})
    BY <1>a, Apart
  <2> QED
    BY <1>18, <2>1, Apart DEF Readded, Shut, Closed, CarriedArmed, Goto,
       Removals, Removing, Removal
<1>19. ASSUME NEW p \in Coroutine, Discarded(p)
      PROVE  inst' # inst \/ Minded' \/ failed'
             \/ (\E q \in Coroutine : Connected(q) /\ drv[q] = inst
               /\ attempt[inst] = q /\ conn'[inst])
  <2>1. OwnDriver(p) /\ drv[p] \in Instance /\ Role(p)
          /\ (\A q \in Coroutine : Foremost(q, p)) /\ (attempt[inst] = p
               => drv[p] = inst /\ pc[p] \in {"queued", "dialing", "tail"})
    BY <1>a, Apart
  <2> QED
    BY <1>19, <2>1, Apart DEF Discarded, Shut, Informed, Retrying, LoopReads,
       LiveKey, Goto
<1>20. ASSUME Expire
      PROVE  inst' # inst \/ Minded' \/ failed'
             \/ (\E q \in Coroutine : Connected(q) /\ drv[q] = inst
               /\ attempt[inst] = q /\ conn'[inst])
  BY <1>20, Apart DEF Expire, Resume, Dial, Locked, Dialed, Goto, Note
<1>21. ASSUME ExpireRemoved
      PROVE  inst' # inst \/ Minded' \/ failed'
             \/ (\E q \in Coroutine : Connected(q) /\ drv[q] = inst
               /\ attempt[inst] = q /\ conn'[inst])
  BY <1>21, Apart DEF ExpireRemoved
<1>22. ASSUME BringUp
      PROVE  inst' # inst \/ Minded' \/ failed'
             \/ (\E q \in Coroutine : Connected(q) /\ drv[q] = inst
               /\ attempt[inst] = q /\ conn'[inst])
  BY <1>22, Apart DEF BringUp, Dial, Locked, Dialed, Goto, Note
<1>23. ASSUME Retry, \A s \in Request : ~Entering(s)
      PROVE  inst' # inst \/ Minded' \/ failed'
             \/ (\E q \in Coroutine : Connected(q) /\ drv[q] = inst
               /\ attempt[inst] = q /\ conn'[inst])
  BY <1>23, Apart DEF Retry, Dial, Locked, Dialed, Goto, Superseded
<1>24. ASSUME Kick
      PROVE  inst' # inst \/ Minded' \/ failed'
             \/ (\E q \in Coroutine : Connected(q) /\ drv[q] = inst
               /\ attempt[inst] = q /\ conn'[inst])
  BY <1>24, Apart DEF Kick, Released, LoopReads, Goto, Stale, Superseded
<1>25. ASSUME NEW d \in Instance, Drop(d)
      PROVE  inst' # inst \/ Minded' \/ failed'
             \/ (\E q \in Coroutine : Connected(q) /\ drv[q] = inst
               /\ attempt[inst] = q /\ conn'[inst])
  BY <1>25, Apart DEF Drop
<1>26. ASSUME NEW d \in Instance, NEW b \in BOOLEAN, DropTold(d, b)
      PROVE  inst' # inst \/ Minded' \/ failed'
             \/ (\E q \in Coroutine : Connected(q) /\ drv[q] = inst
               /\ attempt[inst] = q /\ conn'[inst])
  BY <1>26, Apart DEF DropTold, LoopReads, Retrying, Note
<1>27. ASSUME UNCHANGED vars
      PROVE  inst' # inst \/ Minded' \/ failed'
             \/ (\E q \in Coroutine : Connected(q) /\ drv[q] = inst
               /\ attempt[inst] = q /\ conn'[inst])
  BY <1>27, Apart DEF vars, links, flags, coros, count
<1> HIDE DEF TypeOK, Goto, links, flags, coros, count, Clean, Connects, Minded,
     DropCares, Served
<1> QED
  BY <1>1, <1>2, <1>3, <1>4, <1>5, <1>6, <1>7, <1>8, <1>9, <1>10, <1>11, <1>12,
     <1>13, <1>14, <1>15, <1>16, <1>17, <1>18, <1>19, <1>20, <1>21, <1>22,
     <1>23, <1>24, <1>25, <1>26, <1>27 DEF Next, Entering, Head, ConnectStep,
     CloseStep

LEMMA FitKept ==
  ASSUME TypeOK, [Next]_vars
  PROVE  Fit' => Fit
  BY NotesGrow DEF Fit

LEMMA DueMoves ==
  ASSUME TypeOK, Removals, Roles, inst # None, [Next]_vars
  PROVE  Due' => (inst' = inst /\ ~paused /\ ~deferred /\ ~failed) \/ Minded'
<1> USE DEF TypeOK, Goto, links, flags, coros, count, Due
<1>1. ASSUME NEW r \in Request, NEW o \in Door, Press(r, o),
             \A s \in Request : ~Entering(s)
      PROVE  Due' => (inst' = inst /\ ~paused /\ ~deferred /\ ~failed)
             \/ Minded'
  <2>1. Cares(r)'
    BY <1>1, Apart DEF Press, Past, Goto, Cares, Closes
  <2> QED  BY <2>1, Apart DEF Minded, SomeoneCares
<1>2. ASSUME NEW r \in Request, Reconnect(r)
      PROVE  Due' => (inst' = inst /\ ~paused /\ ~deferred /\ ~failed)
             \/ Minded'
  <2>1. Cares(r)'
    BY <1>2, Apart DEF Reconnect, Past, Goto, Cares, Closes
  <2> QED  BY <2>1, Apart DEF Minded, SomeoneCares
<1>3. ASSUME NEW r \in Request, Pause(r)
      PROVE  Due' => (inst' = inst /\ ~paused /\ ~deferred /\ ~failed)
             \/ Minded'
  <2>1. Cares(r)'
    BY <1>3, Apart DEF Pause, Past, Goto, Cares, Closes
  <2> QED  BY <2>1, Apart DEF Minded, SomeoneCares
<1>4. ASSUME NEW r \in Request, BeginSetup(r)
      PROVE  Due' => (inst' = inst /\ ~paused /\ ~deferred /\ ~failed)
             \/ Minded'
  <2>1. Cares(r)'
    BY <1>4, Apart DEF BeginSetup, Past, Goto, Cares, Closes
  <2> QED  BY <2>1, Apart DEF Minded, SomeoneCares
<1>5. ASSUME NEW r \in Request, Remove(r)
      PROVE  Due' => (inst' = inst /\ ~paused /\ ~deferred /\ ~failed)
             \/ Minded'
  BY <1>5, Apart DEF Remove, Past, Closing, Goto
<1>6. ASSUME NEW r \in Request, PressResume(r)
      PROVE  Due' => (inst' = inst /\ ~paused /\ ~deferred /\ ~failed)
             \/ Minded'
  <2>1. Served'
    BY <1>6, Apart DEF PressResume, Resume, Dial, Dialed, Served, Goto
  <2> QED  BY <2>1 DEF Minded
<1>7. ASSUME NEW r \in Request, EndSetup(r)
      PROVE  Due' => (inst' = inst /\ ~paused /\ ~deferred /\ ~failed)
             \/ Minded'
  BY <1>7, Apart DEF EndSetup, Done, Discards, LoopReads, Goto, Retrying
<1>8. ASSUME NEW r \in Request, SetupRedials(r)
      PROVE  Due' => (inst' = inst /\ ~paused /\ ~deferred /\ ~failed)
             \/ Minded'
  <2>1. Role(r)
    BY Apart DEF Roles
  <2>2. Cares(r)'
    BY <1>8, <2>1, Apart DEF SetupRedials, Goto, Cares, Role, Closes
  <2> QED  BY <2>2, Apart DEF Minded, SomeoneCares
<1>9. ASSUME NEW p \in Coroutine, Enter(p)
      PROVE  Due' => (inst' = inst /\ ~paused /\ ~deferred /\ ~failed)
             \/ Minded'
  BY <1>9, Apart DEF Enter, Current, Locked, Goto
<1>10. ASSUME NEW p \in Coroutine, Declare(p)
      PROVE  Due' => (inst' = inst /\ ~paused /\ ~deferred /\ ~failed)
             \/ Minded'
  BY <1>10, Apart DEF Declare, Current, Goto
<1>11. ASSUME NEW p \in Coroutine, Connected(p)
      PROVE  Due' => (inst' = inst /\ ~paused /\ ~deferred /\ ~failed)
             \/ Minded'
  BY <1>11, Apart DEF Connected, Current, Stale, Superseded, DownAgain,
     Released, LoopReads, Again, Goto
<1>12. ASSUME NEW p \in Coroutine, Settled(p)
      PROVE  Due' => (inst' = inst /\ ~paused /\ ~deferred /\ ~failed)
             \/ Minded'
  BY <1>12, Apart DEF Settled, DownAgain, Done, Discards, LoopReads, Again,
     Goto, Retrying
<1>13. ASSUME NEW p \in Coroutine, Unwind(p)
      PROVE  Due' => (inst' = inst /\ ~paused /\ ~deferred /\ ~failed)
             \/ Minded'
  BY <1>13, Apart DEF Unwind, Ended, Current, Stale, Superseded, Released,
     Done, Discards, LoopReads, Goto, Retrying
<1>14. ASSUME NEW p \in Coroutine, NEW b \in BOOLEAN, ConnectFails(p, b)
      PROVE  Due' => (inst' = inst /\ ~paused /\ ~deferred /\ ~failed)
             \/ Minded'
  BY <1>14, Apart DEF ConnectFails, Current, Stale, Superseded, Released, Done,
     Discards, LoopReads, Again, Goto, Retrying
<1>15. ASSUME NEW p \in Coroutine, Redial(p)
      PROVE  Due' => (inst' = inst /\ ~paused /\ ~deferred /\ ~failed)
             \/ Minded'
  BY <1>15, Apart DEF Redial, Superseded, Shut, Closed, Dialed, Informed,
     Retrying, LoopReads, Goto, Note
<1>16. ASSUME NEW p \in Coroutine, PauseHolds(p)
      PROVE  Due' => (inst' = inst /\ ~paused /\ ~deferred /\ ~failed)
             \/ Minded'
  BY <1>16, Apart DEF PauseHolds, Superseded, Shut, Closed, Informed, Retrying,
     LoopReads, Goto, Note
<1>17. ASSUME NEW p \in Coroutine, Removed(p)
      PROVE  Due' => (inst' = inst /\ ~paused /\ ~deferred /\ ~failed)
             \/ Minded'
  BY <1>17, Apart DEF Removed, Shut, Closed, Goto, Removals, Removing, Removal
<1>18. ASSUME NEW p \in Coroutine, Readded(p)
      PROVE  Due' => (inst' = inst /\ ~paused /\ ~deferred /\ ~failed)
             \/ Minded'
  BY <1>18, Apart DEF Readded, Shut, Closed, CarriedArmed, Goto, Removals,
     Removing, Removal
<1>19. ASSUME NEW p \in Coroutine, Discarded(p)
      PROVE  Due' => (inst' = inst /\ ~paused /\ ~deferred /\ ~failed)
             \/ Minded'
  BY <1>19, Apart DEF Discarded, Shut, Informed, Retrying, LoopReads, LiveKey,
     Goto
<1>20. ASSUME Expire
      PROVE  Due' => (inst' = inst /\ ~paused /\ ~deferred /\ ~failed)
             \/ Minded'
  <2>1. Served'
    BY <1>20, Apart DEF Expire, Resume, Dial, Dialed, Served, Goto
  <2> QED  BY <2>1 DEF Minded
<1>21. ASSUME ExpireRemoved
      PROVE  Due' => (inst' = inst /\ ~paused /\ ~deferred /\ ~failed)
             \/ Minded'
  BY <1>21, Apart DEF ExpireRemoved
<1>22. ASSUME BringUp
      PROVE  Due' => (inst' = inst /\ ~paused /\ ~deferred /\ ~failed)
             \/ Minded'
  <2>1. Served'
    BY <1>22, Apart DEF BringUp, Resume, Dial, Dialed, Served, Goto
  <2> QED  BY <2>1 DEF Minded
<1>23. ASSUME Retry, \A s \in Request : ~Entering(s)
      PROVE  Due' => (inst' = inst /\ ~paused /\ ~deferred /\ ~failed)
             \/ Minded'
  BY <1>23, Apart DEF Retry, Dial, Locked, Dialed, Goto, Superseded
<1>24. ASSUME Kick
      PROVE  Due' => (inst' = inst /\ ~paused /\ ~deferred /\ ~failed)
             \/ Minded'
  BY <1>24, Apart DEF Kick, Released, LoopReads, Goto, Stale, Superseded
<1>25. ASSUME NEW d \in Instance, Drop(d)
      PROVE  Due' => (inst' = inst /\ ~paused /\ ~deferred /\ ~failed)
             \/ Minded'
  BY <1>25, Apart DEF Drop
<1>26. ASSUME NEW d \in Instance, NEW b \in BOOLEAN, DropTold(d, b)
      PROVE  Due' => (inst' = inst /\ ~paused /\ ~deferred /\ ~failed)
             \/ Minded'
  BY <1>26, Apart DEF DropTold, LoopReads, Retrying, Note
<1>27. ASSUME UNCHANGED vars
      PROVE  Due' => (inst' = inst /\ ~paused /\ ~deferred /\ ~failed)
             \/ Minded'
  BY <1>27, Apart DEF vars, links, flags, coros, count
<1> HIDE DEF TypeOK, Goto, links, flags, coros, count, Due
<1> QED
  BY <1>1, <1>2, <1>3, <1>4, <1>5, <1>6, <1>7, <1>8, <1>9, <1>10, <1>11, <1>12,
     <1>13, <1>14, <1>15, <1>16, <1>17, <1>18, <1>19, <1>20, <1>21, <1>22,
     <1>23, <1>24, <1>25, <1>26, <1>27 DEF Next, Entering, Head, ConnectStep,
     CloseStep

LEMMA DueRegistered ==
  ASSUME TypeOK, inst = None, [Next]_vars
  PROVE  ~Due'
<1> USE DEF TypeOK, Goto, links, flags, coros, count, Due
<1>1. ASSUME NEW r \in Request, NEW o \in Door, Press(r, o),
             \A s \in Request : ~Entering(s)
      PROVE  ~Due'
  BY <1>1, Apart DEF Press, Released, Stale, Note
<1>2. ASSUME NEW r \in Request, Reconnect(r)  PROVE  ~Due'
  BY <1>2, Apart DEF Reconnect, Past, Closing, Goto
<1>3. ASSUME NEW r \in Request, Pause(r)  PROVE  ~Due'
  BY <1>3, Apart DEF Pause, Past, Closing, Goto, Note
<1>4. ASSUME NEW r \in Request, BeginSetup(r)  PROVE  ~Due'
  BY <1>4, Apart DEF BeginSetup, Past, Goto
<1>5. ASSUME NEW r \in Request, Remove(r)  PROVE  ~Due'
  BY <1>5, Apart DEF Remove, Past, Closing, Goto
<1>6. ASSUME NEW r \in Request, PressResume(r)  PROVE  ~Due'
  BY <1>6, Apart DEF PressResume, Resume, Dial, Locked, Dialed, Goto, Note
<1>7. ASSUME NEW r \in Request, EndSetup(r)  PROVE  ~Due'
  BY <1>7, Apart DEF EndSetup, Done, Discards, LoopReads, Goto, Retrying
<1>8. ASSUME NEW r \in Request, SetupRedials(r)  PROVE  ~Due'
  BY <1>8, Apart DEF SetupRedials, Closing, Goto
<1>9. ASSUME NEW p \in Coroutine, Enter(p)  PROVE  ~Due'
  BY <1>9, Apart DEF Enter, Current, Locked, Goto
<1>10. ASSUME NEW p \in Coroutine, Declare(p)  PROVE  ~Due'
  BY <1>10, Apart DEF Declare, Current, Goto
<1>11. ASSUME NEW p \in Coroutine, Connected(p)  PROVE  ~Due'
  BY <1>11, Apart DEF Connected, Current, Stale, Superseded, DownAgain,
     Released, LoopReads, Again, Goto
<1>12. ASSUME NEW p \in Coroutine, Settled(p)  PROVE  ~Due'
  BY <1>12, Apart DEF Settled, DownAgain, Done, Discards, LoopReads, Again,
     Goto, Retrying
<1>13. ASSUME NEW p \in Coroutine, Unwind(p)  PROVE  ~Due'
  BY <1>13, Apart DEF Unwind, Ended, Current, Stale, Superseded, Released,
     Done, Discards, LoopReads, Goto, Retrying
<1>14. ASSUME NEW p \in Coroutine, NEW b \in BOOLEAN, ConnectFails(p, b)
      PROVE  ~Due'
  BY <1>14, Apart DEF ConnectFails, Current, Stale, Superseded, Released, Done,
     Discards, LoopReads, Again, Goto, Retrying
<1>15. ASSUME NEW p \in Coroutine, Redial(p)  PROVE  ~Due'
  BY <1>15, Apart DEF Redial, Superseded, Shut, Closed, Dialed, Informed,
     Retrying, LoopReads, Goto, Note
<1>16. ASSUME NEW p \in Coroutine, PauseHolds(p)  PROVE  ~Due'
  BY <1>16, Apart DEF PauseHolds, Superseded, Shut, Closed, Informed, Retrying,
     LoopReads, Goto, Note
<1>17. ASSUME NEW p \in Coroutine, Removed(p)  PROVE  ~Due'
  BY <1>17, Apart DEF Removed, Shut, Closed, Goto
<1>18. ASSUME NEW p \in Coroutine, Readded(p)  PROVE  ~Due'
  BY <1>18, Apart DEF Readded, Shut, Closed, CarriedArmed, Goto
<1>19. ASSUME NEW p \in Coroutine, Discarded(p)  PROVE  ~Due'
  BY <1>19, Apart DEF Discarded, Shut, Informed, Retrying, LoopReads, LiveKey,
     Goto
<1>20. ASSUME Expire  PROVE  ~Due'
  BY <1>20, Apart DEF Expire, Resume, Dial, Locked, Dialed, Goto, Note
<1>21. ASSUME ExpireRemoved  PROVE  ~Due'
  BY <1>21, Apart DEF ExpireRemoved
<1>22. ASSUME BringUp  PROVE  ~Due'
  BY <1>22, Apart DEF BringUp, Dial, Locked, Dialed, Goto, Note
<1>23. ASSUME Retry, \A s \in Request : ~Entering(s)  PROVE  ~Due'
  BY <1>23, Apart DEF Retry, Dial, Locked, Dialed, Goto, Superseded
<1>24. ASSUME Kick  PROVE  ~Due'
  BY <1>24, Apart DEF Kick, Released, LoopReads, Goto, Stale, Superseded
<1>25. ASSUME NEW d \in Instance, Drop(d)  PROVE  ~Due'
  BY <1>25, Apart DEF Drop
<1>26. ASSUME NEW d \in Instance, NEW b \in BOOLEAN, DropTold(d, b)
      PROVE  ~Due'
  BY <1>26, Apart DEF DropTold, LoopReads, Retrying, Note
<1>27. ASSUME UNCHANGED vars  PROVE  ~Due'
  BY <1>27, Apart DEF vars, links, flags, coros, count
<1> HIDE DEF TypeOK, Goto, links, flags, coros, count, Due
<1> QED
  BY <1>1, <1>2, <1>3, <1>4, <1>5, <1>6, <1>7, <1>8, <1>9, <1>10, <1>11, <1>12,
     <1>13, <1>14, <1>15, <1>16, <1>17, <1>18, <1>19, <1>20, <1>21, <1>22,
     <1>23, <1>24, <1>25, <1>26, <1>27 DEF Next, Entering, Head, ConnectStep,
     CloseStep

LEMMA LackMoves ==
  ASSUME TypeOK, Removals, Left, Roles, WorkerClosesOld, Clean, Clean',
         inst # None, inst' = inst, ~key', ~paused', ~failed', conn[inst],
         ~conn'[inst], [Next]_vars
  PROVE  Minded' \/ \E q \in Coroutine : Loose(q)
<1>a. ASSUME NEW p \in Coroutine
      PROVE  OwnDriver(p) /\ drv[p] \in Instance /\ Role(p) /\ ClosesOld(p)
  BY OwnAttempt DEF TypeOK, Roles, WorkerClosesOld
<1> USE DEF TypeOK, Goto, links, flags, coros, count, Clean, OwnDriver, Role,
     ClosesOld, Minded, DropCares, Served
<1>1. ASSUME NEW r \in Request, NEW o \in Door, Press(r, o),
             \A s \in Request : ~Entering(s)
      PROVE  Minded' \/ \E q \in Coroutine : Loose(q)
  <2>1. Cares(r)'
    BY <1>1, Apart DEF Press, Past, Goto, Cares, Closes
  <2> QED  BY <2>1, Apart DEF Minded, SomeoneCares
<1>2. ASSUME NEW r \in Request, Reconnect(r)
      PROVE  Minded' \/ \E q \in Coroutine : Loose(q)
  <2>1. Cares(r)'
    BY <1>2, Apart DEF Reconnect, Past, Goto, Cares, Closes
  <2> QED  BY <2>1, Apart DEF Minded, SomeoneCares
<1>3. ASSUME NEW r \in Request, Pause(r)
      PROVE  Minded' \/ \E q \in Coroutine : Loose(q)
  <2>1. Cares(r)'
    BY <1>3, Apart DEF Pause, Past, Goto, Cares, Closes
  <2> QED  BY <2>1, Apart DEF Minded, SomeoneCares
<1>4. ASSUME NEW r \in Request, BeginSetup(r)
      PROVE  Minded' \/ \E q \in Coroutine : Loose(q)
  <2>1. Cares(r)'
    BY <1>4, Apart DEF BeginSetup, Past, Goto, Cares, Closes
  <2> QED  BY <2>1, Apart DEF Minded, SomeoneCares
<1>5. ASSUME NEW r \in Request, Remove(r)
      PROVE  Minded' \/ \E q \in Coroutine : Loose(q)
  <2>1. OwnDriver(r) /\ drv[r] \in Instance /\ Role(r) /\ ClosesOld(r)
    BY <1>a, Apart
  <2> QED
    BY <1>5, <2>1, Apart DEF Remove, Past, Closing, Goto
<1>6. ASSUME NEW r \in Request, PressResume(r)
      PROVE  Minded' \/ \E q \in Coroutine : Loose(q)
  <2>1. Served'
    BY <1>6, Apart DEF PressResume, Resume, Dial, Dialed, Served, Goto
  <2> QED  BY <2>1 DEF Minded
<1>7. ASSUME NEW r \in Request, EndSetup(r)
      PROVE  Minded' \/ \E q \in Coroutine : Loose(q)
  <2>1. OwnDriver(r) /\ drv[r] \in Instance /\ Role(r) /\ ClosesOld(r)
    BY <1>a, Apart
  <2> QED
    BY <1>7, <2>1, Apart DEF EndSetup, Done, Discards, LoopReads, Goto,
       Retrying
<1>8. ASSUME NEW r \in Request, SetupRedials(r)
      PROVE  Minded' \/ \E q \in Coroutine : Loose(q)
  <2>1. Role(r)
    BY Apart DEF Roles
  <2>2. Cares(r)'
    BY <1>8, <2>1, Apart DEF SetupRedials, Goto, Cares, Role, Closes
  <2> QED  BY <2>2, Apart DEF Minded, SomeoneCares
<1>9. ASSUME NEW p \in Coroutine, Enter(p)
      PROVE  Minded' \/ \E q \in Coroutine : Loose(q)
  <2>1. OwnDriver(p) /\ drv[p] \in Instance /\ Role(p) /\ ClosesOld(p)
    BY <1>a, Apart
  <2> QED
    BY <1>9, <2>1, Apart DEF Enter, Current, Locked, Goto
<1>10. ASSUME NEW p \in Coroutine, Declare(p)
      PROVE  Minded' \/ \E q \in Coroutine : Loose(q)
  <2>1. OwnDriver(p) /\ drv[p] \in Instance /\ Role(p) /\ ClosesOld(p)
    BY <1>a, Apart
  <2> QED
    BY <1>10, <2>1, Apart DEF Declare, Current, Goto
<1>11. ASSUME NEW p \in Coroutine, Connected(p)
      PROVE  Minded' \/ \E q \in Coroutine : Loose(q)
  <2>1. OwnDriver(p) /\ drv[p] \in Instance /\ Role(p) /\ ClosesOld(p)
    BY <1>a, Apart
  <2> QED
    BY <1>11, <2>1, Apart DEF Connected, Current, Stale, Superseded, DownAgain,
       Released, LoopReads, Again, Goto
<1>12. ASSUME NEW p \in Coroutine, Settled(p)
      PROVE  Minded' \/ \E q \in Coroutine : Loose(q)
  <2>1. OwnDriver(p) /\ drv[p] \in Instance /\ Role(p) /\ ClosesOld(p)
    BY <1>a, Apart
  <2> QED
    BY <1>12, <2>1, Apart DEF Settled, DownAgain, Done, Discards, LoopReads,
       Again, Goto, Retrying
<1>13. ASSUME NEW p \in Coroutine, Unwind(p)
      PROVE  Minded' \/ \E q \in Coroutine : Loose(q)
  <2>1. Loose(p)
    BY <1>13, Apart DEF Unwind, Ended, Current, Loose
  <2> QED  BY <2>1
<1>14. ASSUME NEW p \in Coroutine, NEW b \in BOOLEAN, ConnectFails(p, b)
      PROVE  Minded' \/ \E q \in Coroutine : Loose(q)
  <2>1. OwnDriver(p) /\ drv[p] \in Instance /\ Role(p) /\ ClosesOld(p)
    BY <1>a, Apart
  <2> QED
    BY <1>14, <2>1, Apart DEF ConnectFails, Current, Stale, Superseded,
       Released, Done, Discards, LoopReads, Again, Goto, Retrying
<1>15. ASSUME NEW p \in Coroutine, Redial(p)
      PROVE  Minded' \/ \E q \in Coroutine : Loose(q)
  <2>1. OwnDriver(p) /\ drv[p] \in Instance /\ Role(p) /\ ClosesOld(p)
    BY <1>a, Apart
  <2> QED
    BY <1>15, <2>1, Apart DEF Redial, Superseded, Shut, Closed, Dialed,
       Informed, Retrying, LoopReads, Goto, Note
<1>16. ASSUME NEW p \in Coroutine, PauseHolds(p)
      PROVE  Minded' \/ \E q \in Coroutine : Loose(q)
  <2>1. OwnDriver(p) /\ drv[p] \in Instance /\ Role(p) /\ ClosesOld(p)
    BY <1>a, Apart
  <2> QED
    BY <1>16, <2>1, Apart DEF PauseHolds, Superseded, Shut, Closed, Informed,
       Retrying, LoopReads, Goto, Note
<1>17. ASSUME NEW p \in Coroutine, Removed(p)
      PROVE  Minded' \/ \E q \in Coroutine : Loose(q)
  <2>1. OwnDriver(p) /\ drv[p] \in Instance /\ Role(p) /\ ClosesOld(p)
    BY <1>a, Apart
  <2> QED
    BY <1>17, <2>1, Apart DEF Removed, Shut, Closed, Goto, Removals, Removing,
       Removal
<1>18. ASSUME NEW p \in Coroutine, Readded(p)
      PROVE  Minded' \/ \E q \in Coroutine : Loose(q)
  <2>1. OwnDriver(p) /\ drv[p] \in Instance /\ Role(p) /\ ClosesOld(p)
    BY <1>a, Apart
  <2> QED
    BY <1>18, <2>1, Apart DEF Readded, Shut, Closed, CarriedArmed, Goto,
       Removals, Removing, Removal
<1>19. ASSUME NEW p \in Coroutine, Discarded(p)
      PROVE  Minded' \/ \E q \in Coroutine : Loose(q)
  <2>1. OwnDriver(p) /\ drv[p] \in Instance /\ Role(p) /\ ClosesOld(p)
    BY <1>a, Apart
  <2> QED
    BY <1>19, <2>1, Apart DEF Discarded, Shut, Informed, Retrying, LoopReads,
       LiveKey, Goto
<1>20. ASSUME Expire  PROVE  Minded' \/ \E q \in Coroutine : Loose(q)
  <2>1. Served'
    BY <1>20, Apart DEF Expire, Resume, Dial, Dialed, Served, Goto
  <2> QED  BY <2>1 DEF Minded
<1>21. ASSUME ExpireRemoved  PROVE  Minded' \/ \E q \in Coroutine : Loose(q)
  BY <1>21, Apart DEF ExpireRemoved
<1>22. ASSUME BringUp  PROVE  Minded' \/ \E q \in Coroutine : Loose(q)
  <2>1. Served'
    BY <1>22, Apart DEF BringUp, Resume, Dial, Dialed, Served, Goto
  <2> QED  BY <2>1 DEF Minded
<1>23. ASSUME Retry, \A s \in Request : ~Entering(s)
      PROVE  Minded' \/ \E q \in Coroutine : Loose(q)
  BY <1>23, Apart DEF Retry, Dial, Locked, Dialed, Goto, Superseded
<1>24. ASSUME Kick  PROVE  Minded' \/ \E q \in Coroutine : Loose(q)
  BY <1>24, Apart DEF Kick, Released, LoopReads, Goto, Stale, Superseded
<1>25. ASSUME NEW d \in Instance, Drop(d)
      PROVE  Minded' \/ \E q \in Coroutine : Loose(q)
  BY <1>25, Apart DEF Drop
<1>26. ASSUME NEW d \in Instance, NEW b \in BOOLEAN, DropTold(d, b)
      PROVE  Minded' \/ \E q \in Coroutine : Loose(q)
  BY <1>26, Apart DEF DropTold, LoopReads, Retrying, Note
<1>27. ASSUME UNCHANGED vars  PROVE  Minded' \/ \E q \in Coroutine : Loose(q)
  BY <1>27, Apart DEF vars, links, flags, coros, count
<1> HIDE DEF TypeOK, Goto, links, flags, coros, count, Clean, OwnDriver, Role,
     ClosesOld, Minded, DropCares, Served
<1> QED
  BY <1>1, <1>2, <1>3, <1>4, <1>5, <1>6, <1>7, <1>8, <1>9, <1>10, <1>11, <1>12,
     <1>13, <1>14, <1>15, <1>16, <1>17, <1>18, <1>19, <1>20, <1>21, <1>22,
     <1>23, <1>24, <1>25, <1>26, <1>27 DEF Next, Entering, Head, ConnectStep,
     CloseStep

LEMMA LooseAgain ==
  ASSUME TypeOK, Removals, Left, Roles, WorkerClosesOld, Clean, Clean',
         inst # None, inst' = inst, ~key', NEW x \in Coroutine, Role(x),
         ~Loose(x), Loose(x)', [Next]_vars
  PROVE  Minded'
<1>a. ASSUME NEW p \in Coroutine
      PROVE  OwnDriver(p) /\ drv[p] \in Instance /\ Role(p) /\ ClosesOld(p)
  BY OwnAttempt DEF TypeOK, Roles, WorkerClosesOld
<1> USE DEF TypeOK, Goto, links, flags, coros, count, Clean, OwnDriver, Role,
     ClosesOld, Loose, Minded, DropCares, Served
<1>1. ASSUME NEW r \in Request, NEW o \in Door, Press(r, o),
             \A s \in Request : ~Entering(s)
      PROVE  Minded'
  <2>1. Cares(r)'
    BY <1>1, Apart DEF Press, Past, Goto, Cares, Closes
  <2> QED  BY <2>1, Apart DEF Minded, SomeoneCares
<1>2. ASSUME NEW r \in Request, Reconnect(r)  PROVE  Minded'
  <2>1. Cares(r)'
    BY <1>2, Apart DEF Reconnect, Past, Goto, Cares, Closes
  <2> QED  BY <2>1, Apart DEF Minded, SomeoneCares
<1>3. ASSUME NEW r \in Request, Pause(r)  PROVE  Minded'
  <2>1. Cares(r)'
    BY <1>3, Apart DEF Pause, Past, Goto, Cares, Closes
  <2> QED  BY <2>1, Apart DEF Minded, SomeoneCares
<1>4. ASSUME NEW r \in Request, BeginSetup(r)  PROVE  Minded'
  <2>1. Cares(r)'
    BY <1>4, Apart DEF BeginSetup, Past, Goto, Cares, Closes
  <2> QED  BY <2>1, Apart DEF Minded, SomeoneCares
<1>5. ASSUME NEW r \in Request, Remove(r)  PROVE  Minded'
  <2>1. OwnDriver(r) /\ drv[r] \in Instance /\ Role(r) /\ ClosesOld(r)
    BY <1>a, Apart
  <2> QED
    BY <1>5, <2>1, Apart DEF Remove, Past, Closing, Goto
<1>6. ASSUME NEW r \in Request, PressResume(r)  PROVE  Minded'
  <2>1. Served'
    BY <1>6, Apart DEF PressResume, Resume, Dial, Dialed, Served, Goto
  <2> QED  BY <2>1 DEF Minded
<1>7. ASSUME NEW r \in Request, EndSetup(r)  PROVE  Minded'
  <2>1. OwnDriver(r) /\ drv[r] \in Instance /\ Role(r) /\ ClosesOld(r)
    BY <1>a, Apart
  <2> QED
    BY <1>7, <2>1, Apart DEF EndSetup, Done, Discards, LoopReads, Goto,
       Retrying
<1>8. ASSUME NEW r \in Request, SetupRedials(r)  PROVE  Minded'
  <2>1. Role(r)
    BY Apart DEF Roles
  <2>2. Cares(r)'
    BY <1>8, <2>1, Apart DEF SetupRedials, Goto, Cares, Role, Closes
  <2> QED  BY <2>2, Apart DEF Minded, SomeoneCares
<1>9. ASSUME NEW p \in Coroutine, Enter(p)  PROVE  Minded'
  <2>1. OwnDriver(p) /\ drv[p] \in Instance /\ Role(p) /\ ClosesOld(p)
    BY <1>a, Apart
  <2> QED
    BY <1>9, <2>1, Apart DEF Enter, Current, Locked, Goto
<1>10. ASSUME NEW p \in Coroutine, Declare(p)  PROVE  Minded'
  <2>1. OwnDriver(p) /\ drv[p] \in Instance /\ Role(p) /\ ClosesOld(p)
    BY <1>a, Apart
  <2> QED
    BY <1>10, <2>1, Apart DEF Declare, Current, Goto
<1>11. ASSUME NEW p \in Coroutine, Connected(p)  PROVE  Minded'
  <2>1. OwnDriver(p) /\ drv[p] \in Instance /\ Role(p) /\ ClosesOld(p)
    BY <1>a, Apart
  <2> QED
    BY <1>11, <2>1, Apart DEF Connected, Current, Stale, Superseded, DownAgain,
       Released, LoopReads, Again, Goto
<1>12. ASSUME NEW p \in Coroutine, Settled(p)  PROVE  Minded'
  <2>1. OwnDriver(p) /\ drv[p] \in Instance /\ Role(p) /\ ClosesOld(p)
    BY <1>a, Apart
  <2> QED
    BY <1>12, <2>1, Apart DEF Settled, DownAgain, Done, Discards, LoopReads,
       Again, Goto, Retrying
<1>13. ASSUME NEW p \in Coroutine, Unwind(p)  PROVE  Minded'
  <2>1. OwnDriver(p) /\ drv[p] \in Instance /\ Role(p) /\ ClosesOld(p)
    BY <1>a, Apart
  <2> QED
    BY <1>13, <2>1, Apart DEF Unwind, Ended, Current, Stale, Superseded,
       Released, Done, Discards, LoopReads, Goto, Retrying
<1>14. ASSUME NEW p \in Coroutine, NEW b \in BOOLEAN, ConnectFails(p, b)
      PROVE  Minded'
  <2>1. OwnDriver(p) /\ drv[p] \in Instance /\ Role(p) /\ ClosesOld(p)
    BY <1>a, Apart
  <2> QED
    BY <1>14, <2>1, Apart DEF ConnectFails, Current, Stale, Superseded,
       Released, Done, Discards, LoopReads, Again, Goto, Retrying
<1>15. ASSUME NEW p \in Coroutine, Redial(p)  PROVE  Minded'
  <2>1. OwnDriver(p) /\ drv[p] \in Instance /\ Role(p) /\ ClosesOld(p)
    BY <1>a, Apart
  <2> QED
    BY <1>15, <2>1, Apart DEF Redial, Superseded, Shut, Closed, Dialed,
       Informed, Retrying, LoopReads, Goto, Note
<1>16. ASSUME NEW p \in Coroutine, PauseHolds(p)  PROVE  Minded'
  <2>1. OwnDriver(p) /\ drv[p] \in Instance /\ Role(p) /\ ClosesOld(p)
    BY <1>a, Apart
  <2> QED
    BY <1>16, <2>1, Apart DEF PauseHolds, Superseded, Shut, Closed, Informed,
       Retrying, LoopReads, Goto, Note
<1>17. ASSUME NEW p \in Coroutine, Removed(p)  PROVE  Minded'
  <2>1. OwnDriver(p) /\ drv[p] \in Instance /\ Role(p) /\ ClosesOld(p)
    BY <1>a, Apart
  <2> QED
    BY <1>17, <2>1, Apart DEF Removed, Shut, Closed, Goto, Removals, Removing,
       Removal
<1>18. ASSUME NEW p \in Coroutine, Readded(p)  PROVE  Minded'
  <2>1. OwnDriver(p) /\ drv[p] \in Instance /\ Role(p) /\ ClosesOld(p)
    BY <1>a, Apart
  <2> QED
    BY <1>18, <2>1, Apart DEF Readded, Shut, Closed, CarriedArmed, Goto,
       Removals, Removing, Removal
<1>19. ASSUME NEW p \in Coroutine, Discarded(p)  PROVE  Minded'
  <2>1. OwnDriver(p) /\ drv[p] \in Instance /\ Role(p) /\ ClosesOld(p)
    BY <1>a, Apart
  <2> QED
    BY <1>19, <2>1, Apart DEF Discarded, Shut, Informed, Retrying, LoopReads,
       LiveKey, Goto
<1>20. ASSUME Expire  PROVE  Minded'
  <2>1. Served'
    BY <1>20, Apart DEF Expire, Resume, Dial, Dialed, Served, Goto
  <2> QED  BY <2>1 DEF Minded
<1>21. ASSUME ExpireRemoved  PROVE  Minded'
  BY <1>21, Apart DEF ExpireRemoved
<1>22. ASSUME BringUp  PROVE  Minded'
  <2>1. Served'
    BY <1>22, Apart DEF BringUp, Resume, Dial, Dialed, Served, Goto
  <2> QED  BY <2>1 DEF Minded
<1>23. ASSUME Retry, \A s \in Request : ~Entering(s)  PROVE  Minded'
  BY <1>23, Apart DEF Retry, Dial, Locked, Dialed, Goto, Superseded
<1>24. ASSUME Kick  PROVE  Minded'
  BY <1>24, Apart DEF Kick, Released, LoopReads, Goto, Stale, Superseded
<1>25. ASSUME NEW d \in Instance, Drop(d)  PROVE  Minded'
  BY <1>25, Apart DEF Drop
<1>26. ASSUME NEW d \in Instance, NEW b \in BOOLEAN, DropTold(d, b)
      PROVE  Minded'
  BY <1>26, Apart DEF DropTold, LoopReads, Retrying, Note
<1>27. ASSUME UNCHANGED vars  PROVE  Minded'
  BY <1>27, Apart DEF vars, links, flags, coros, count
<1> HIDE DEF TypeOK, Goto, links, flags, coros, count, Clean, OwnDriver, Role,
     ClosesOld, Loose, Minded, DropCares, Served
<1> QED
  BY <1>1, <1>2, <1>3, <1>4, <1>5, <1>6, <1>7, <1>8, <1>9, <1>10, <1>11, <1>12,
     <1>13, <1>14, <1>15, <1>16, <1>17, <1>18, <1>19, <1>20, <1>21, <1>22,
     <1>23, <1>24, <1>25, <1>26, <1>27 DEF Next, Entering, Head, ConnectStep,
     CloseStep

LEMMA ConnectedKeepsUp ==
  ASSUME TypeOK, AllForemost, inst # None, inst' = inst, NEW q \in Coroutine,
         Connected(q), attempt[inst] = q, drv[q] = inst, conn'[inst]
  PROVE  ~Lacking'
<1> SUFFICES ASSUME NEW x \in Coroutine, Loose(x)'
             PROVE  FALSE
  BY DEF Lacking
<1>1. Foremost(q, x)
  BY DEF AllForemost
<1>2. pc[q] = "tail" /\ pc' = [pc EXCEPT ![q] = pc'[q]]
        /\ pc'[q] \in {"closing", "idle", "waiting", "settling"}
  BY Apart DEF Connected, Goto, Again, TypeOK
<1>3. x # q /\ pc'[x] = pc[x] /\ pc[x] \in {"dialing", "tail"}
  BY <1>2 DEF Loose, TypeOK
<1>4. drv'[x] = drv[x] \/ (x = "loop" /\ pc'["loop"] = "waiting")
  BY DEF Connected, LoopReads, TypeOK
<1>5. drv[x] = inst
  BY <1>3, <1>4 DEF Loose
<1> QED  BY <1>1, <1>2, <1>3, <1>5 DEF Foremost, Connects

LEMMA CaredInvStep ==
  ASSUME Basics, Left, LockHeld, Stations, WorkerClosesOld, CardInv, Marked,
         AllForemost, CaredInv, TypeOK', Removals', Roles', Stations',
         WorkerClosesOld', CardInv', AllForemost', LoopPlace', LoopOwned',
         [Next]_vars
  PROVE  CaredInv'
<1> SUFFICES ASSUME Due', Lacking'
             PROVE  Cared'
  BY DEF CaredInv
<1> USE DEF Basics
<1>1. inst' # None /\ ~paused' /\ ~failed' /\ Clean' /\ Fit'
  BY DEF Due, Fit, Clean
<1>2. Clean /\ Fit
  BY <1>1, CleanKept, FitKept
<1>3. CASE key'
  <2>1. Mended'
    BY <1>1, <1>3 DEF CardInv, Lacking
  <2> QED  BY <1>1, <2>1, MendedCared
<1>4. CASE ~key'
  <2>1. inst # None
    BY DueRegistered
  <2>2. Minded' \/ (inst' = inst /\ ~paused /\ ~deferred /\ ~failed)
    BY <2>1, DueMoves
  <2>3. ASSUME inst' = inst, ~paused, ~deferred, ~failed
        PROVE  Minded'
    <3>1. Attempted(inst)
      BY <2>1 DEF Attempts, TypeOK
    <3>2. ASSUME NEW x \in Coroutine, Cares(x)
          PROVE  Minded'
      <4>1. Cares(x)' \/ Minded'
        BY <1>1, <1>2, <1>4, <2>1, <2>3, <3>2, CaresMoves DEF Roles, Stations
      <4> QED  BY <4>1 DEF Minded, SomeoneCares
    <3>3. CASE DropCares
      <4>1. Minded' \/ (mark /\ ~Busy("reconnect"))
        BY <1>1, <1>4, <2>1, <2>3, <3>3, DropCaresMoves
      <4>2. CASE mark /\ ~Busy("reconnect")
        <5>1. PICK p \in Coroutine : Holder(p)
          BY <2>1, <2>3, <4>2 DEF Marked
        <5>2. CASE op[p] = "pause"
          <6>1. Station(p)
            BY DEF Stations
          <6> QED  BY <3>2, <5>1, <5>2, <6>1 DEF Station, Holder, Cares, Past,
               Closes
        <5>3. CASE op[p] = "setup"
          BY <3>2, <5>1, <5>3 DEF Holder, Cares
        <5> QED  BY <4>2, <5>1, <5>2, <5>3 DEF Holder, Busy
      <4> QED  BY <4>1, <4>2
    <3>4. CASE Served
      <4>1. Minded' \/ (\E q \in Coroutine : Connected(q) /\ drv[q] = inst
              /\ attempt[inst] = q /\ conn'[inst])
        BY <1>1, <1>2, <1>4, <2>1, <2>3, <3>1, <3>4, ServedMoves
      <4> QED  BY <2>1, <2>3, <4>1, ConnectedKeepsUp
    <3>5. CASE LoopCares
      BY <1>4, <2>1, <3>5, LoopCaresMoves
    <3>6. CASE Lacking
      <4>1. Cared
        BY <1>2, <2>1, <2>3, <3>6 DEF CaredInv, Due
      <4> QED  BY <3>2, <3>3, <3>4, <3>5, <4>1 DEF Cared, SomeoneCares
    <3>7. CASE ~Lacking
      <4>1. conn[inst] /\ \A p \in Coroutine : ~Loose(p)
        BY <3>7 DEF Lacking
      <4>2. CASE ~conn'[inst]
        BY <1>1, <1>2, <1>4, <2>1, <2>3, <4>1, <4>2, LackMoves
      <4>3. ASSUME NEW x \in Coroutine, Loose(x)'
            PROVE  Minded'
        BY <1>1, <1>2, <1>4, <2>1, <2>3, <4>1, <4>3, LooseAgain DEF Roles
      <4> QED  BY <2>3, <4>2, <4>3 DEF Lacking
    <3> QED  BY <3>6, <3>7
  <2> QED  BY <1>1, <2>2, <2>3, MindedCared
<1> QED  BY <1>3, <1>4

-----------------------------------------------------------------------------
(* The invariants together.                                                *)

ConnectInv == LockHeld /\ Stations /\ WorkerClosesOld /\ LoopsCleared
                 /\ AllForemost /\ Marked /\ LoopPlace /\ LoopOwned

LifecycleInv == /\ Basics /\ PauseHasBackstop /\ Left
                /\ PauseInv /\ ConnectInv /\ CardInv /\ CaredInv

LEMMA InvInit == ASSUME Init PROVE IInv
<1> USE LifecycleAssumption DEF Init
<1>1. TypeOK
  <2>1. 1 \in Instance
    BY OneInstance
  <2>2. presses \in 0..MaxPresses /\ dropped \in 0..MaxDrops
    BY NoneYet
  <2>3. op \in [Coroutine -> Operation] /\ pc \in [Coroutine -> Place]
    BY DEF Coroutine, Operation, Place
  <2>4. drv \in [Coroutine -> Instance]
    BY <2>1 DEF Coroutine
  <2> QED  BY <2>1, <2>2, <2>3, <2>4 DEF TypeOK
<1>2. Removals
  BY DEF Removals, Removing, Coroutine
<1>3. PauseHasBackstop
  BY DEF PauseHasBackstop
<1>4. Left
  BY DEF Left
<1> QED  BY <1>1, <1>2, <1>3, <1>4 DEF IInv

LEMMA LifecycleInit == ASSUME Init PROVE LifecycleInv
<1>1. IInv
  BY InvInit
<1>2. \A p \in Coroutine : pc[p] = "idle" /\ drv[p] = 1
  BY DEF Init
<1>3. Roles
  BY Apart DEF Init, Roles, Role
<1>4. Attempts /\ Fresh
  BY DEF Init, Attempts, Attempted, Fresh, NotYetMade
<1>5. InstanceMade /\ DriversMade
  <2>1. 1 <= 1
    OBVIOUS
  <2> QED  BY <1>2, <2>1 DEF Init, InstanceMade, DriversMade, DriverMade
<1>6. OneEntering
  BY <1>2, Apart DEF OneEntering, EnteringAlone
<1>7. PauseInv
  BY <1>2 DEF Init, PauseInv, PauseAlone, CarryAlone, PausePlace, CarryPlace,
     Pausing, Carrying, Disarmed, Kept, OnlyPaused
<1>8. inst \in Instance /\ attempt[inst] = None /\ ~conn[inst] /\ ~key
        /\ deferred
  BY OneInstance DEF Init
<1>9. LockHeld /\ Stations /\ WorkerClosesOld /\ LoopsCleared
  BY <1>2, Apart DEF LockHeld, HoldsLock, Stations, Station, WorkerClosesOld,
     ClosesOld, LoopsCleared, LoopCleared
<1>10. AllForemost /\ LoopPlace /\ LoopOwned
  BY <1>2, <1>8, Apart DEF AllForemost, Foremost, LoopPlace, LoopOwned,
    Connects
<1>11. Marked
  BY DEF Init, Marked
<1>12. CardInv
  BY <1>8 DEF CardInv
<1>13. CaredInv
  BY <1>8 DEF CaredInv, Due
<1> QED
  BY <1>1, <1>3, <1>4, <1>5, <1>6, <1>7, <1>9, <1>10, <1>11, <1>12, <1>13
     DEF LifecycleInv, IInv, Basics, ConnectInv

LEMMA InvStep ==
  ASSUME IInv, [Next]_vars
  PROVE  IInv'
<1>1. TypeOK'
  BY TypedStep DEF IInv
<1>2. Removals'
  BY <1>1, RemovalsStep DEF IInv
<1>3. PauseHasBackstop'
  BY BackstopStep DEF IInv
<1>4. Left'
  BY LeftStep DEF IInv
<1> QED  BY <1>1, <1>2, <1>3, <1>4 DEF IInv

LEMMA BasicsStep ==
  ASSUME Basics, TypeOK', Removals', [Next]_vars
  PROVE  Basics'
<1>1. Roles' /\ Attempts' /\ OneEntering'
  BY RolesStep, AttemptsStep, OneEnteringStep DEF Basics
<1>2. InstanceMade' /\ DriversMade' /\ Fresh'
  BY InstanceMadeStep, DriversMadeStep, FreshStep DEF Basics
<1> QED  BY <1>1, <1>2 DEF Basics

LEMMA ConnectInvStep ==
  ASSUME Basics, Left, ConnectInv, TypeOK', [Next]_vars
  PROVE  ConnectInv'
<1> USE DEF Basics, ConnectInv
<1>1. LockHeld' /\ Stations' /\ WorkerClosesOld' /\ LoopsCleared'
  BY LockHeldStep, StationsStep, WorkerClosesOldStep, LoopsClearedStep
<1>2. Marked'
  BY MarkedStep
<1>3. AllForemost'
  <2>1. inst = None \/ Attempted(inst)
    BY DEF Attempts, TypeOK
  <2> QED  BY <2>1, ForemostStep
<1>4. LoopPlace' /\ LoopOwned'
  <2>1. CASE ~Clean'
    BY <2>1 DEF LoopPlace, LoopOwned
  <2>2. CASE Clean'
    <3>1. Clean
      BY <2>2, CleanKept
    <3> QED  BY <2>2, <3>1, LoopPlaceStep, LoopOwnedStep
  <2> QED  BY <2>1, <2>2
<1> QED  BY <1>1, <1>2, <1>3, <1>4

THEOREM Invariance == Spec => []LifecycleInv
<1>1. LifecycleInv /\ [Next]_vars => LifecycleInv'
  <2> SUFFICES ASSUME LifecycleInv, [Next]_vars
               PROVE  LifecycleInv'
    OBVIOUS
  <2>1. IInv'
    BY InvStep DEF LifecycleInv, Basics, IInv
  <2>2. Basics'
    BY <2>1, BasicsStep DEF LifecycleInv, IInv
  <2>3. PauseInv'
    BY <2>1, PauseInvStep DEF LifecycleInv, IInv
  <2>4. ConnectInv'
    BY <2>1, ConnectInvStep DEF LifecycleInv, IInv
  <2>5. CardInv'
    BY <2>1, CardInvStep DEF LifecycleInv, ConnectInv, IInv
  <2>6. CaredInv'
    BY <2>1, <2>2, <2>4, <2>5, CaredInvStep
       DEF LifecycleInv, ConnectInv, Basics, IInv
  <2> QED  BY <2>1, <2>2, <2>3, <2>4, <2>5, <2>6 DEF LifecycleInv, IInv
<1> QED  BY LifecycleInit, <1>1, PTL DEF Spec

(* TypeOK holds for any number of requests, instances and drops.           *)
THEOREM LifecycleTyped == Spec => []TypeOK
<1>1. LifecycleInv => TypeOK  BY DEF LifecycleInv, Basics
<1> QED  BY Invariance, <1>1, PTL

(* A pause always has the backstop that ends it, across a project save     *)
(* that replaces the device under it.                                      *)
THEOREM BackstopArmed == Spec => []PauseHasBackstop
<1>1. LifecycleInv => PauseHasBackstop  BY DEF LifecycleInv
<1> QED  BY Invariance, <1>1, PTL

(* When all is quiet no connection is open but the device's own, unless a  *)
(* request dialed an instance replaced under it.                           *)
THEOREM NoOrphans == Spec => []NoOrphanConnection
<1>1. LifecycleInv => NoOrphanConnection
  <2> SUFFICES ASSUME LifecycleInv, Quiet, "superseded" \notin notes,
                      NEW i \in Instance, conn[i]
               PROVE  i = inst
    BY DEF NoOrphanConnection
  <2>1. ~ToBeClosed(i)
    BY DEF Quiet, ToBeClosed
  <2> QED  BY <2>1 DEF LifecycleInv, Left
<1> QED  BY Invariance, <1>1, PTL

(* pause_device: a paused device stays down and nothing retries it, for    *)
(* any number of requests, replacements and drops, while no other request  *)
(* is under way with the pause.                                            *)
THEOREM PauseKept == Spec => []PausedStaysDown
<1>1. LifecycleInv => PausedStaysDown
  BY DEF LifecycleInv, PausedStaysDown, PauseInv, Calm, Kept, Held
<1> QED  BY Invariance, <1>1, PTL

(* When all is quiet device.<id>.connected says what the driver says, but  *)
(* for the three races it names.                                           *)
THEOREM CardKept == Spec => []CardTruthful
<1>1. LifecycleInv => CardTruthful
  <2> SUFFICES ASSUME LifecycleInv, Quiet, inst # None, Clean
               PROVE  key = conn[inst]
    BY DEF CardTruthful, Clean
  <2>1. ~Mended
    BY DEF Quiet, Mended, Mends, Dialing
  <2>2. key \in BOOLEAN /\ conn[inst] \in BOOLEAN
    BY DEF LifecycleInv, Basics, TypeOK
  <2> QED  BY <2>1, <2>2 DEF LifecycleInv, CardInv
<1> QED  BY Invariance, <1>1, PTL

(* "OpenAVC keeps retrying in the background for as long as the device is  *)
(* in the project": a device left alone while it is down was left so by    *)
(* one of the races named.                                                 *)
THEOREM RetriesKept == Spec => []StrandedOnlyUnderMark
<1>1. LifecycleInv => StrandedOnlyUnderMark
  <2> SUFFICES ASSUME LifecycleInv, Stranded, Fit
               PROVE  FALSE
    BY DEF StrandedOnlyUnderMark, Fit
  <2> USE DEF Stranded, Quiet
  <2>1. Cared
    BY DEF LifecycleInv, CaredInv, Due, Lacking
  <2>2. ~LoopCares /\ ~DropCares /\ ~SomeoneCares
    BY Apart DEF LoopCares, DropCares, SomeoneCares, Cares, Past, Closes
  <2>3. ~Served
    <3>1. inst \in Instance /\ attempt[inst] \in Coroutine \cup {None}
      BY DEF LifecycleInv, Basics, TypeOK
    <3> QED  BY <3>1 DEF LifecycleInv, Basics, Attempts, Attempted, Connects,
                Served
  <2> QED  BY <2>1, <2>2, <2>3 DEF Cared
<1> QED  BY Invariance, <1>1, PTL
=============================================================================
