--------------------------- MODULE DeviceLifecycle ---------------------------
(***************************************************************************)
(* The connection of one configured device, between the device manager     *)
(* (openavc/core/device_manager.py) and its driver (drivers/base.py).      *)
(*                                                                         *)
(* Every door onto the device is a coroutine of one event loop: the        *)
(* requests of operators and project saves, the bring-up worker, the       *)
(* automatic retry loop and the backstop of a pause.  An action is the     *)
(* code between two awaits; `pc' says where a coroutine is suspended:      *)
(*                                                                         *)
(*   cancelling  _cancel_reconnect, awaiting the loop it cancelled         *)
(*   closing     driver.disconnect(), before its last assignments          *)
(*   queued      driver.connect(), waiting for _connect_lock               *)
(*   dialing     _connect_once up to the declare of `connected'            *)
(*   tail        _connect_once after it (push, initial sync, polling)      *)
(*   settling    _apply_pending_settings                                   *)
(*   working     a setup action's handler                                  *)
(*   waiting     the loop between two attempts                             *)
(*                                                                         *)
(* `entering' is no await: a request whose cancel found no loop goes on in *)
(* the same step, and nothing else runs meanwhile (see Next).              *)
(***************************************************************************)
EXTENDS Naturals

CONSTANTS
    Request,       \* coroutines of requests, each serving one at a time
    MaxInstances,  \* bound: driver instances of the device
    MaxPresses,    \* bound: requests made
    MaxDrops,      \* bound: connections dropped by the device
    None

ASSUME LifecycleAssumption ==
    /\ MaxInstances \in Nat \ {0} /\ MaxPresses \in Nat /\ MaxDrops \in Nat
    /\ {"loop", "worker", "timer"} \cap Request = {}
    /\ None \notin Request \cup {"loop", "worker", "timer"} \cup Nat

VARIABLES
    inst,          \* _devices[device_id], or None
    made,          \* instances constructed
    conn,          \* instance -> its `_connected'
    lock,          \* instance -> the holder of _connect_lock
    attempt,       \* instance -> _connect_attempt, by the coroutine it is of
    drops,         \* instances with a drop to be cleaned up and announced
    key,           \* device.<id>.connected
    paused,        \* device.<id>.paused
    armed,         \* the backstop of a pause is scheduled
    mark,          \* device_id in _intentional_disconnect
    failed,        \* device.<id>.reconnect_failed
    deferred,      \* device_id in _deferred_connects
    pc, op, drv,   \* coroutine -> its place, its request, its driver
    notes,         \* history: which known races have happened
    presses, dropped

flags == <<key, paused, armed, mark, failed, deferred>>
links == <<conn, lock, attempt>>
coros == <<pc, op, drv>>
count == <<presses, dropped>>
vars  == <<inst, made, links, drops, flags, coros, notes, count>>

Coroutine == Request \cup {"loop", "worker", "timer"}
Instance  == 1..MaxInstances
Operation == {"reconnect", "pause", "resume", "setup", "update", "carry",
              "remove", "loop", "bring up"}
Door      == {"reconnect", "pause", "setup", "update", "carry", "remove"}
Place     == {"idle", "entering", "cancelling", "closing", "queued", "dialing",
              "tail", "settling", "working", "waiting"}

TypeOK ==
    /\ inst \in Instance \cup {None} /\ made \in Instance
    /\ conn \in [Instance -> BOOLEAN]
    /\ lock \in [Instance -> Coroutine \cup {None}]
    /\ attempt \in [Instance -> Coroutine \cup {None}]
    /\ drops \subseteq Instance
    /\ key \in BOOLEAN /\ paused \in BOOLEAN /\ armed \in BOOLEAN
    /\ mark \in BOOLEAN /\ failed \in BOOLEAN /\ deferred \in BOOLEAN
    /\ pc \in [Coroutine -> Place]
    /\ op \in [Coroutine -> Operation]
    /\ drv \in [Coroutine -> Instance]
    /\ notes \subseteq {"skipped", "crossed", "superseded", "redialed", "late"}
    /\ presses \in 0..MaxPresses /\ dropped \in 0..MaxDrops

(* A project was loaded: the device is registered and not yet dialed.      *)
Init ==
    /\ inst = 1 /\ made = 1
    /\ conn = [i \in Instance |-> FALSE]
    /\ lock = [i \in Instance |-> None]
    /\ attempt = [i \in Instance |-> None]
    /\ drops = {}
    /\ key = FALSE /\ paused = FALSE /\ armed = FALSE
    /\ mark = FALSE /\ failed = FALSE /\ deferred = TRUE
    /\ pc = [p \in Coroutine |-> "idle"]
    /\ op = [p \in Coroutine |-> CASE p = "loop" -> "loop"
                                   [] p = "worker" -> "bring up"
                                   [] OTHER -> "resume"]
    /\ drv = [p \in Coroutine |-> 1]
    /\ notes = {}
    /\ presses = 0 /\ dropped = 0

-----------------------------------------------------------------------------
(* Moves of coroutines.                                                    *)

Goto(p, place) == [pc EXCEPT ![p] = place]

RetryingRemoved(places) ==
    IF places["loop"] = "idle"
    THEN [places EXCEPT !["loop"] = "waiting"]
    ELSE places

(* _start_reconnect: one loop per device *)
Retrying(places) ==
    IF places["loop"] = "idle" /\ inst # None
    THEN [places EXCEPT !["loop"] = "waiting"]
    ELSE places

(* Each iteration of the loop reads the driver before its delay.           *)
LoopReads ==
    drv' = IF pc'["loop"] = "waiting" /\ pc["loop"] # "waiting"
           THEN [drv EXCEPT !["loop"] = inst]
           ELSE drv

(* ... and ends for a device that is gone.                                 *)
Again == IF inst = None THEN "idle" ELSE "waiting"

(* _on_device_disconnected for a disconnect() that has just set the key *)
Informed(places) == IF mark THEN places ELSE Retrying(places)

Superseded(p) == drv[p] # inst

(* The worker's connect was of an instance that is not the device's any    *)
(* more: it goes on to disconnect it.                                      *)
Stale(p) == p = "worker" /\ Superseded(p)

(* `async with _connect_lock' and `finally' of connect(), and the connect  *)
(* in flight that the disconnect of a stale instance ends                  *)
Released(p) ==
    /\ lock' = [i \in Instance |-> IF lock[i] = p THEN None ELSE lock[i]]
    /\ attempt' = [i \in Instance |->
                      IF attempt[i] = p \/ (Stale(p) /\ drv[p] = i)
                      THEN None ELSE attempt[i]]

Note(condition, what) ==
    notes' = IF condition THEN notes \cup {what} ELSE notes

Free(i) == lock[i] = None /\ \A p \in Coroutine : ~(pc[p] = "queued" /\ drv[p] = i)

(* The lock is taken; the clean slate closes an earlier connection.        *)
Locked(p, i) ==
    /\ lock' = [lock EXCEPT ![i] = p]
    /\ conn' = [conn EXCEPT ![i] = FALSE]

(* A connect() of p begins, which ends the one in flight.  A free lock is  *)
(* taken at once, a held one in the order of the calls.                    *)
Dial(p, i) ==
    /\ attempt' = [attempt EXCEPT ![i] = p]
    /\ IF Free(i) THEN Locked(p, i) ELSE UNCHANGED <<lock, conn>>

Dialed(p, i) == IF Free(i) THEN "dialing" ELSE "queued"

ClosingOnly(i) == UNCHANGED attempt

(* A disconnect() of instance i begins, which ends the connect in flight. *)
Closing(i) == attempt' = [attempt EXCEPT ![i] = None]

Busy(o) == \E p \in Coroutine : op[p] = o /\ pc[p] # "idle"

-----------------------------------------------------------------------------
(* Requests.                                                               *)

(* What a pause is not safe against: a request it overtakes or that        *)
(* overtakes it (see PausedStaysDown).                                     *)
Crosses(o) ==
    \/ o = "pause" /\ \/ deferred \/ Busy("reconnect") \/ Busy("setup")
                      \/ Busy("update") \/ Busy("carry")
    \/ o # "pause" /\ Busy("pause")
    \/ o = "setup" /\ paused

(* Update and remove run one at a time, under the reconcile lock; a device *)
(* has one setup action at a time.                                         *)
Allowed(o) ==
    /\ o \in {"update", "carry", "remove"}
          => ~(Busy("update") \/ Busy("carry") \/ Busy("remove"))
    /\ o = "carry" <=> (o \in {"update", "carry"} /\ armed)
    /\ o \in {"update", "carry"} => made < MaxInstances
    /\ o = "setup" => ~Busy("setup")

(* The head of a request, up to and with the cancel of the retry loop.     *)
Press(r, o) ==
    /\ pc[r] = "idle" /\ inst # None /\ presses < MaxPresses
    /\ Allowed(o)
    /\ op' = [op EXCEPT ![r] = o]
    /\ drv' = [drv EXCEPT ![r] = inst]
    /\ pc' = [pc EXCEPT ![r] = IF pc["loop"] = "idle" THEN "entering"
                                                      ELSE "cancelling",
                        !["loop"] = "idle"]
    /\ Released("loop")
    /\ IF o = "reconnect" /\ paused
       THEN paused' = FALSE /\ armed' = FALSE
       ELSE UNCHANGED <<paused, armed>>
    /\ Note(Crosses(o), "crossed")
    /\ presses' = presses + 1
    /\ UNCHANGED <<inst, made, conn, drops, key, mark, failed, deferred, dropped>>

Past(r) == pc[r] \in {"entering", "cancelling"}

(* reconnect_device, to its disconnect *)
Reconnect(r) ==
    /\ Past(r) /\ op[r] = "reconnect"
    /\ failed' = FALSE /\ mark' = TRUE
    /\ Closing(drv[r])
    /\ pc' = Goto(r, "closing")
    /\ UNCHANGED <<inst, made, conn, lock, drops, key, paused, armed, deferred,
                   op, drv, notes, count>>

(* pause_device, to its disconnect *)
Pause(r) ==
    /\ Past(r) /\ op[r] = "pause"
    /\ mark' = TRUE
    /\ Closing(drv[r])
    /\ pc' = Goto(r, "closing")
    /\ Note(pc["loop"] # "idle", "crossed")
    /\ UNCHANGED <<inst, made, conn, lock, drops, key, paused, armed, failed,
                   deferred, op, drv, count>>

(* begin_setup *)
BeginSetup(r) ==
    /\ Past(r) /\ op[r] = "setup"
    /\ mark' = TRUE
    /\ pc' = Goto(r, "working")
    /\ UNCHANGED <<inst, made, links, drops, key, paused, armed, failed,
                   deferred, op, drv, notes, count>>

(* remove_device, also as the first half of update_device *)
Remove(r) ==
    /\ Past(r) /\ op[r] \in {"update", "carry", "remove"}
    /\ armed' = FALSE /\ mark' = FALSE /\ deferred' = FALSE
    /\ inst' = None
    /\ Closing(drv[r])
    /\ pc' = Goto(r, "closing")
    /\ UNCHANGED <<made, conn, lock, drops, key, paused, failed, op, drv,
                   notes, count>>

(* resume_device, to its connect; also run by the backstop of a pause *)
Resume(r) ==
    /\ pc[r] = "idle" /\ inst # None
    /\ armed' = FALSE /\ mark' = FALSE /\ paused' = FALSE
    /\ op' = [op EXCEPT ![r] = "resume"]
    /\ drv' = [drv EXCEPT ![r] = inst]
    /\ Dial(r, inst)
    /\ pc' = Goto(r, Dialed(r, inst))
    /\ Note(Crosses("resume"), "crossed")
    /\ UNCHANGED <<inst, made, drops, key, failed, deferred, dropped>>

PressResume(r) ==
    /\ presses < MaxPresses /\ presses' = presses + 1
    /\ Resume(r)

ExpireCancelled ==
    /\ armed /\ pc["timer"] = "idle"
    /\ armed' = FALSE
    /\ UNCHANGED <<inst, made, links, drops, key, paused, mark, failed,
                   deferred, coros, notes, count>>

(* _pause_expiry *)
Expire == armed /\ Resume("timer") /\ UNCHANGED presses

(* resume_device raises for a device that was removed *)
ExpireRemoved ==
    /\ armed /\ inst = None /\ pc["timer"] = "idle"
    /\ armed' = FALSE
    /\ UNCHANGED <<inst, made, links, drops, key, paused, mark, failed,
                   deferred, coros, notes, count>>

(* bring_up: dial what was registered and not dialed *)
BringUp ==
    /\ deferred /\ inst # None /\ pc["worker"] = "idle"
    /\ deferred' = FALSE
    /\ drv' = [drv EXCEPT !["worker"] = inst]
    /\ Dial("worker", inst)
    /\ pc' = Goto("worker", Dialed("worker", inst))
    /\ Note(key, "redialed")
    /\ UNCHANGED <<inst, made, drops, key, paused, armed, mark, failed, op,
                   count>>


-----------------------------------------------------------------------------
(* The last assignments of disconnect(), which announces the disconnect,   *)
(* and what its caller does next.                                          *)

Shut(p) == conn' = [conn EXCEPT ![drv[p]] = FALSE]

Closed(p) == pc[p] = "closing" /\ key' = FALSE

(* reconnect_device and reconnect_in_place dial the driver they captured *)
Redial(p) ==
    /\ op[p] \in {"reconnect", "setup"}
    /\ Closed(p) /\ Shut(p)
    /\ attempt' = [attempt EXCEPT ![drv[p]] = p]
    /\ lock' = IF Free(drv[p]) THEN [lock EXCEPT ![drv[p]] = p] ELSE lock
    /\ pc' = Informed(Goto(p, Dialed(p, drv[p])))
    /\ Note(Superseded(p), "superseded")
    /\ LoopReads
    /\ UNCHANGED <<inst, made, drops, paused, armed, mark, failed,
                   deferred, op, count>>

(* pause_device, from its disconnect on; its key and its paused state are  *)
(* the device's, whichever instance that has by now                        *)
PauseHolds(p) ==
    /\ op[p] = "pause"
    /\ Closed(p) /\ Shut(p)
    /\ paused' = TRUE /\ armed' = TRUE
    /\ pc' = Informed(Goto(p, "idle"))
    /\ Note(inst # None /\ Superseded(p), "late")
    /\ LoopReads
    /\ UNCHANGED <<inst, made, lock, attempt, drops, mark, failed, deferred,
                   op, count>>

(* the device's state keys go with it *)
Removed(p) ==
    /\ op[p] = "remove"
    /\ Closed(p) /\ Shut(p)
    /\ paused' = FALSE /\ failed' = FALSE
    /\ pc' = Goto(p, "idle")
    /\ UNCHANGED <<inst, made, lock, attempt, drops, armed, mark, deferred,
                   op, drv, notes, count>>

(* _schedule_pause_expiry, for the time the carried pause has left *)
CarriedArmed(p) == op[p] = "carry" \/ armed

(* add_device of the new instance: to be dialed, or under the pause carried*)
Readded(p) ==
    /\ op[p] \in {"update", "carry"}
    /\ Closed(p) /\ Shut(p)
    /\ inst' = made + 1 /\ made' = made + 1
    /\ paused' = (op[p] = "carry")
    /\ armed' = CarriedArmed(p)
    /\ mark' = (op[p] = "carry")
    /\ deferred' = (op[p] = "update")
    /\ failed' = FALSE
    /\ pc' = Goto(p, "idle")
    /\ UNCHANGED <<lock, attempt, drops, op, drv, notes, count>>

DiscardedKey == FALSE

(* what _discard_if_superseded states again for the live instance *)
LiveKey == inst # None /\ conn[inst]

(* the end of _discard_if_superseded *)
Discarded(p) ==
    /\ op[p] = "bring up"
    /\ pc[p] = "closing" /\ Shut(p)
    /\ key' = LiveKey
    /\ pc' = Informed(Goto(p, "idle"))
    /\ LoopReads
    /\ UNCHANGED <<inst, made, lock, attempt, drops, paused, armed, mark,
                   failed, deferred, op, notes, count>>

-----------------------------------------------------------------------------
(* connect().                                                              *)

Current(p) == attempt[drv[p]] = p

(* _raise_if_ended, _end_if_ended *)
Ended(p) == pc[p] \in {"queued", "dialing", "tail"} /\ ~Current(p)

(* The lock comes to the newest call, after the ended ones before it.      *)
Enter(p) ==
    /\ pc[p] = "queued" /\ Current(p) /\ lock[drv[p]] = None
    /\ \A q \in Coroutine \ {p} : ~(pc[q] = "queued" /\ drv[q] = drv[p])
    /\ Locked(p, drv[p])
    /\ pc' = Goto(p, "dialing")
    /\ UNCHANGED <<inst, made, attempt, drops, flags, op, drv, notes, count>>

Declare(p) ==
    /\ pc[p] = "dialing" /\ Current(p)
    /\ conn' = [conn EXCEPT ![drv[p]] = TRUE]
    /\ key' = TRUE
    /\ pc' = Goto(p, "tail")
    /\ UNCHANGED <<inst, made, lock, attempt, drops, paused, armed, mark,
                   failed, deferred, op, drv, notes, count>>

UpAnyway(p) == FALSE

(* the loop's connection has dropped since *)
DownAgain(p) == p = "loop" /\ ~key

(* connect() returns.  The worker asks first whether the device moved on;  *)
(* the loop asks whether the connection is still there.                    *)
Connected(p) ==
    /\ pc[p] = "tail" /\ Current(p)
    /\ Released(p)
    /\ pc' = Goto(p, IF Stale(p) THEN "closing"
                     ELSE IF DownAgain(p) THEN Again ELSE "settling")
    /\ LoopReads
    /\ UNCHANGED <<inst, made, conn, drops, flags, op, notes, count>>

Discards(p) == op[p] \in {"reconnect", "setup"}

(* The caller is done with the connect it made: reconnect_device discards  *)
(* the mark, end_setup discards it and asks for retries.                   *)
Done(p, places) ==
    /\ mark' = (mark /\ ~Discards(p))
    /\ pc' = IF op[p] = "setup" /\ inst # None /\ ~key'
             THEN Retrying(places) ELSE places

(* _apply_pending_settings is over *)
Settled(p) ==
    /\ pc[p] = "settling"
    /\ UNCHANGED key
    /\ Done(p, Goto(p, IF DownAgain(p) THEN Again ELSE "idle"))
    /\ LoopReads
    /\ UNCHANGED <<inst, made, links, drops, paused, armed, failed, deferred,
                   op, notes, count>>

(* The handler of a setup action returns; end_setup. *)
EndSetup(r) ==
    /\ pc[r] = "working"
    /\ UNCHANGED key
    /\ Done(r, Goto(r, "idle"))
    /\ LoopReads
    /\ UNCHANGED <<inst, made, links, drops, paused, armed, failed, deferred,
                   op, notes, count>>

(* ... or calls request_reconnect: the disconnect of reconnect_in_place *)
SetupRedials(r) ==
    /\ pc[r] = "working" /\ inst # None
    /\ drv' = [drv EXCEPT ![r] = inst]
    /\ Closing(inst)
    /\ pc' = Goto(r, "closing")
    /\ UNCHANGED <<inst, made, conn, lock, drops, flags, op, notes, count>>

(* ConnectEndedError: a newer connect or a disconnect owns the device.     *)
Unwind(p) ==
    /\ Ended(p) /\ (pc[p] = "queued" => lock[drv[p]] = None)
    /\ conn' = IF pc[p] = "queued" THEN conn ELSE [conn EXCEPT ![drv[p]] = FALSE]
    /\ Released(p)
    /\ UNCHANGED key
    /\ Done(p, Goto(p, IF Stale(p) THEN "closing" ELSE "idle"))
    /\ LoopReads
    /\ UNCHANGED <<inst, made, drops, paused, armed, failed, deferred, op, notes, count>>

(* The dial or the initial sync raises.  A permanent fault or a rejected   *)
(* login stops the retries, any other asks for them.  Only a raise of the  *)
(* tail and the requests set the key.                                      *)
ConnectFails(p, permanent) ==
    /\ pc[p] \in {"dialing", "tail"} /\ Current(p)
    /\ conn' = [conn EXCEPT ![drv[p]] = FALSE]
    /\ Released(p)
    /\ key' = (key /\ pc[p] = "dialing" /\ op[p] \in {"loop", "bring up", "setup"})
    /\ IF Stale(p)
       THEN pc' = Goto(p, "closing") /\ UNCHANGED <<failed, mark>>
       ELSE /\ permanent => op[p] \in {"reconnect", "loop", "bring up"}
            /\ failed' = (failed \/ permanent)
            /\ Done(p, IF p = "loop" /\ ~permanent
                       THEN Goto(p, Again)
                       ELSE IF permanent \/ op[p] = "setup"
                            THEN Goto(p, "idle")
                            ELSE Retrying(Goto(p, "idle")))
    /\ LoopReads
    /\ UNCHANGED <<inst, made, drops, paused, armed, deferred, op, notes,
                   count>>

-----------------------------------------------------------------------------
(* The retry loop and the device.                                          *)

(* one iteration of _reconnect_loop, past its delay, which outlasts the    *)
(* wait for a loop that was cancelled                                      *)
Retry ==
    /\ pc["loop"] = "waiting" /\ \A r \in Request : pc[r] # "cancelling"
    /\ IF inst = None
       THEN pc' = Goto("loop", "idle") /\ UNCHANGED <<links, notes>>
       ELSE /\ Dial("loop", drv["loop"])
            /\ pc' = Goto("loop", Dialed("loop", drv["loop"]))
            /\ notes' = notes \cup {n \in {"redialed"} : key}
                             \cup {n \in {"superseded"} : Superseded("loop")}
    /\ UNCHANGED <<inst, made, drops, flags, op, drv, count>>

(* kick_reconnect, of a command to a device that is down *)
Kick ==
    /\ pc["loop"] \notin {"idle", "waiting"} /\ inst # None /\ ~key
    /\ Released("loop")
    /\ pc' = Goto("loop", "waiting")
    /\ LoopReads
    /\ UNCHANGED <<inst, made, conn, drops, flags, op, notes, count>>

(* _handle_transport_disconnect *)
Drop(i) ==
    /\ conn[i] /\ dropped < MaxDrops
    /\ conn' = [conn EXCEPT ![i] = FALSE]
    /\ key' = FALSE
    /\ drops' = drops \cup {i}
    /\ dropped' = dropped + 1
    /\ UNCHANGED <<inst, made, lock, attempt, paused, armed, mark, failed,
                   deferred, coros, notes, presses>>

(* _on_disconnect_cleanup announces the drop, _on_device_disconnected      *)
(* leaves it to whoever holds the mark, or to a connection made since.     *)
DropTold(i, permanent) ==
    /\ i \in drops
    /\ drops' = drops \ {i}
    /\ IF inst = None \/ mark \/ key
       THEN UNCHANGED <<pc, failed>>
       ELSE /\ failed' = (failed \/ permanent)
            /\ pc' = IF permanent THEN pc ELSE Retrying(pc)
    /\ Note(inst # None /\ mark /\ ~key /\ Busy("reconnect"), "skipped")
    /\ LoopReads
    /\ UNCHANGED <<inst, made, links, key, paused, armed, mark, deferred, op,
                   count>>

-----------------------------------------------------------------------------
Entering(r) == pc[r] = "entering"

Head(r) == Reconnect(r) \/ Pause(r) \/ BeginSetup(r) \/ Remove(r)

ConnectStep(p) ==
    \/ Enter(p) \/ Declare(p) \/ Connected(p) \/ Settled(p) \/ Unwind(p)
    \/ \E permanent \in BOOLEAN : ConnectFails(p, permanent)

CloseStep(p) ==
    Redial(p) \/ PauseHolds(p) \/ Removed(p) \/ Readded(p) \/ Discarded(p)

Next ==
    \/ \E r \in Request : Entering(r) /\ Head(r)
    \/ /\ \A r \in Request : ~Entering(r)
       /\ \/ \E r \in Request : \/ \E o \in Door : Press(r, o)
                                \/ PressResume(r) \/ Head(r)
                                \/ EndSetup(r) \/ SetupRedials(r)
          \/ \E p \in Coroutine : ConnectStep(p) \/ CloseStep(p)
          \/ Expire \/ ExpireRemoved \/ BringUp \/ Retry \/ Kick
          \/ \E i \in Instance : \/ Drop(i)
                                 \/ \E permanent \in BOOLEAN : DropTold(i, permanent)

Spec == Init /\ [][Next]_vars

(* Every await returns: a connect and a close are bounded by timeouts, a   *)
(* handler returns, a timer fires.  Nothing is asked of the device.        *)
Fairness ==
    /\ \A p \in Coroutine : WF_vars(ConnectStep(p) \/ CloseStep(p))
    /\ \A r \in Request : WF_vars(Head(r)) /\ WF_vars(EndSetup(r))
    /\ WF_vars(Expire)

FairSpec == Spec /\ Fairness


-----------------------------------------------------------------------------
(* Properties.                                                             *)

Quiet == (\A p \in Coroutine : pc[p] = "idle") /\ drops = {}

(* Nothing is under way for a device that is down, and was not removed,    *)
(* paused, given up for good or left to a bring-up that is due.            *)
Stranded ==
    Quiet /\ inst # None /\ ~paused /\ ~deferred /\ ~failed /\ ~conn[inst]

(* "For a network fault OpenAVC keeps retrying in the background for as    *)
(* long as the device is in the project" (docs/devices-and-drivers.md): a  *)
(* connection that drops in the start-up of the loop, of a bring-up, of a  *)
(* resume or of a setup action is retried.  Four ways the code has to      *)
(* leave the device alone are left out: a drop told while a Reconnect      *)
(* holds the mark, a retry or a bring-up that dialed over a live           *)
(* connection, a dial of an instance that was replaced, and a pause that   *)
(* ends late, over the instance that replaced its own: it says of that one *)
(* that it is down, and the loop dials over it unseen.                     *)
StrandedOnlyUnderMark ==
    Stranded => notes \cap {"skipped", "redialed", "superseded", "late"} # {}

(* pause_device: the device stays down, nothing retries it, until it is    *)
(* resumed, unless another request was under way with the pause.           *)
PausedStaysDown ==
    paused /\ inst # None /\ "crossed" \notin notes
        => mark /\ ~conn[inst] /\ pc["loop"] = "idle"

(* "a closed/crashed tab can't strand it offline forever" (pause_device)   *)
PauseHasBackstop == paused /\ inst # None => armed

(* ... and it ends. *)
PauseEnds == paused /\ inst # None ~> ~paused \/ inst = None

(* No connection is left open for an instance that is not the device's     *)
(* (_discard_if_superseded), but by a request that dials the driver it     *)
(* captured before the instance was replaced.                              *)
NoOrphanConnection ==
    Quiet /\ "superseded" \notin notes
        => \A i \in Instance : conn[i] => i = inst

(* The card tells the truth, but for a dial over a live connection, a dial *)
(* of an instance that was replaced and a pause that ends late.            *)
CardTruthful ==
    Quiet /\ inst # None /\ notes \cap {"redialed", "superseded", "late"} = {}
        => key = conn[inst]
=============================================================================
