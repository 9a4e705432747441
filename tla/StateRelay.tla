------------------------------ MODULE StateRelay ------------------------------
(***************************************************************************)
(* How the state of the room reaches the cloud (cloud/state_relay.py): the *)
(* snapshot that opens a connection, the changes batched by tier after it, *)
(* and the state the cloud holds from them.  Underneath is the delivery of *)
(* cloud/agent.py (CloudDelivery), seen as one queue of messages that are  *)
(* read in order and sent again on the next connection until acknowledged. *)
(*                                                                         *)
(* An action is the code between two awaits.  `phase' is the relay's:      *)
(*                                                                         *)
(*   down      no connection                                               *)
(*   off       connected, the cloud has switched state forwarding off      *)
(*   snapshot  start(), sending the snapshot                               *)
(*   running   the flush loop of each tier is on its way                   *)
(*   failed    a send of the snapshot has raised; no loop was created      *)
(***************************************************************************)
EXTENDS Naturals, Sequences, FiniteSets

CONSTANTS
    Key,            \* the state keys that are relayed
    DeviceKey,      \* those of a device that may be removed and added again
    Tier,           \* priority tiers
    Top,            \* the fastest, of whatever cannot be classified
    Declared,       \* key -> the tier its driver declares for it
    ChunkSize,      \* state_batch_max_size
    MaxChanges,     \* bound: changes of the state
    MaxRestarts,    \* bound: connections lost, forwarding switched
    MaxThrottles,   \* bound: throttle directives
    None

ASSUME RelayAssumption ==
    /\ DeviceKey \subseteq Key /\ IsFiniteSet(Key)
    /\ Top \in Tier /\ Declared \in [Key -> Tier]
    /\ ChunkSize \in Nat \ {0}
    /\ MaxChanges \in Nat /\ MaxRestarts \in Nat /\ MaxThrottles \in Nat
    /\ None \notin Tier /\ None \notin [n : Nat, gone : BOOLEAN]

VARIABLES
    store,          \* StateStore: key -> its value, by the number of the change
    device,         \* the device: "up", "removing" (no driver) or "removed"
    phase,
    batches,        \* _batches: tier -> key -> the last entry, or None
    cache,          \* _tier_cache: key -> tier, or None
    flight,         \* tier -> what its flush has still to send
    snap,           \* what the snapshot has still to send
    opening,        \* the chunk with the snapshot flag is still to be sent
    throttled,      \* state batches are throttled
    link,           \* the connection carries data
    unacked,        \* messages sent and not acknowledged
    read,           \* how many of them the cloud has read
    mirror,         \* cloud: key -> value, or None
    old,            \* history: unread messages from before the last start()
    lost,           \* history: keys with a change that was refused
    retiered,       \* history: keys with an entry in a tier while one came
                    \* into another
    changes, restarts, throttles

room  == <<store, device>>
relay == <<phase, batches, cache, flight, snap, opening>>
cloud == <<link, unacked, read, mirror>>
marks == <<old, lost, retiered>>
count == <<changes, restarts, throttles>>
vars  == <<room, relay, throttled, cloud, marks, count>>

Value   == [n : Nat, gone : BOOLEAN]
Entries == [Key -> Value \cup {None}]
Message == [opens : BOOLEAN, entries : Entries]

TypeOK ==
    /\ store \in [Key -> Value]
    /\ device \in {"up", "removing", "removed"}
    /\ phase \in {"down", "off", "snapshot", "running", "failed"}
    /\ batches \in [Tier -> Entries] /\ flight \in [Tier -> Entries]
    /\ snap \in Entries /\ opening \in BOOLEAN
    /\ cache \in [Key -> Tier \cup {None}]
    /\ throttled \in BOOLEAN /\ link \in BOOLEAN
    /\ unacked \in Seq(Message) /\ read \in 0..Len(unacked)
    /\ mirror \in Entries
    /\ old \in Nat /\ lost \subseteq Key /\ retiered \subseteq Key
    /\ changes \in Nat /\ restarts \in Nat /\ throttles \in Nat

Nothing  == [k \in Key |-> None]
NoTiers  == [t \in Tier |-> Nothing]
KeysOf(entries) == {k \in Key : entries[k] # None}
Subscribed == phase \in {"snapshot", "running", "failed"}

Init ==
    /\ store = [k \in Key |-> [n |-> 0, gone |-> FALSE]]
    /\ device = "up"
    /\ phase = "down"
    /\ batches = NoTiers /\ flight = NoTiers
    /\ snap = Nothing /\ opening = FALSE
    /\ cache = [k \in Key |-> None]
    /\ throttled = FALSE /\ link = FALSE
    /\ unacked = <<>> /\ read = 0
    /\ mirror = Nothing
    /\ old = 0 /\ lost = {} /\ retiered = {}
    /\ changes = 0 /\ restarts = 0 /\ throttles = 0

-----------------------------------------------------------------------------
(* Changes of the state, and what _on_state_change does with them.         *)

(* _key_tier: a device without a driver cannot be asked *)
TierOf(k) ==
    IF cache[k] # None THEN cache[k]
    ELSE IF k \in DeviceKey /\ device # "up" THEN Top ELSE Declared[k]

(* keys of K pending in a tier that is not the one they now go to *)
Crossing(K) ==
    {k \in K : \E t \in Tier \ {TierOf(k)} : \/ batches[t][k] # None
                                             \/ flight[t][k] # None}

(* the entry of a deleted key is evicted *)
Cached(K, after) ==
    [k \in Key |-> IF k \notin K THEN cache[k]
                   ELSE IF after[k].gone THEN None ELSE TierOf(k)]

(* Mutant: the subscription follows the snapshot. *)
NotifiedOnceRunning(K, after) ==
    IF phase = "running"
    THEN /\ batches' = [t \in Tier |-> [k \in Key |->
                           IF k \in K /\ TierOf(k) = t THEN after[k]
                                                       ELSE batches[t][k]]]
         /\ cache' = Cached(K, after)
         /\ retiered' = retiered \cup Crossing(K)
    ELSE UNCHANGED <<batches, cache, retiered>>

(* _on_state_change, of every key of K *)
Notified(K, after) ==
    IF Subscribed
    THEN /\ batches' = [t \in Tier |-> [k \in Key |->
                           IF k \in K /\ TierOf(k) = t THEN after[k]
                                                       ELSE batches[t][k]]]
         /\ cache' = Cached(K, after)
         /\ retiered' = retiered \cup Crossing(K)
    ELSE UNCHANGED <<batches, cache, retiered>>

Changed(K, gone) ==
    /\ changes < MaxChanges /\ changes' = changes + 1
    /\ store' = [k \in Key |-> IF k \in K
                               THEN [n |-> store[k].n + 1, gone |-> gone]
                               ELSE store[k]]
    /\ Notified(K, store')

(* StateStore.set *)
SetState(k) ==
    /\ k \in DeviceKey => device = "up"
    /\ Changed({k}, FALSE)
    /\ UNCHANGED <<device, phase, flight, snap, opening, throttled, cloud,
                   old, lost, restarts, throttles>>

(* StateStore.delete, of a variable or a child that is deregistered *)
DeleteState(k) ==
    /\ k \notin DeviceKey \/ device = "up"
    /\ ~store[k].gone
    /\ Changed({k}, TRUE)
    /\ UNCHANGED <<device, phase, flight, snap, opening, throttled, cloud,
                   old, lost, restarts, throttles>>

(* remove_device takes the driver from the registry and disconnects it ... *)
PopDriver ==
    /\ device = "up"
    /\ device' = "removing"
    /\ UNCHANGED <<store, relay, throttled, cloud, marks, count>>

(* ... and clears the device's keys. *)
ClearKeys ==
    /\ device = "removing"
    /\ device' = "removed"
    /\ Changed({k \in DeviceKey : ~store[k].gone}, TRUE)
    /\ UNCHANGED <<phase, flight, snap, opening, throttled, cloud, old, lost,
                   restarts, throttles>>

(* add_device: the driver's constructor creates its keys (base.py          *)
(* _init_state_variables) before the driver is registered.                 *)
AddDevice ==
    /\ device = "removed"
    /\ device' = "up"
    /\ Changed(DeviceKey, FALSE)
    /\ UNCHANGED <<phase, flight, snap, opening, throttled, cloud, old, lost,
                   restarts, throttles>>

-----------------------------------------------------------------------------
(* Sending.                                                                *)

(* one chunk of what is to be sent *)
Chunks(entries) ==
    LET size == IF Cardinality(KeysOf(entries)) < ChunkSize
                THEN Cardinality(KeysOf(entries)) ELSE ChunkSize
    IN  {S \in SUBSET KeysOf(entries) : Cardinality(S) = size}

Only(S, entries) == [k \in Key |-> IF k \in S THEN entries[k] ELSE None]

Without(S, entries) == [k \in Key |-> IF k \in S THEN None ELSE entries[k]]

(* send_message: a throttled message is dropped, its result is not asked   *)
(* for; any other is buffered, and sent if the link is up.                 *)
SendMessage(opens, entries) ==
    IF throttled
    THEN /\ lost' = lost \cup KeysOf(entries) \cup (IF opens THEN Key ELSE {})
         /\ UNCHANGED unacked
    ELSE /\ lost' = lost \ KeysOf(entries)
         /\ unacked' = Append(unacked, [opens |-> opens, entries |-> entries])

(* A send on a broken link raises: the flush is over ("continuing").       *)
Rest(S, entries) == IF link \/ throttled THEN Without(S, entries) ELSE Nothing

(* Mutant: the loops start beside the snapshot. *)
FlushAtOnce(t) ==
    /\ Subscribed /\ flight[t] = Nothing /\ batches[t] # Nothing
    /\ \E S \in Chunks(batches[t]) :
           /\ SendMessage(FALSE, Only(S, batches[t]))
           /\ flight' = [flight EXCEPT ![t] = Rest(S, batches[t])]
    /\ batches' = [batches EXCEPT ![t] = Nothing]
    /\ UNCHANGED <<room, phase, cache, snap, opening, throttled, link, read,
                   mirror, old, retiered, count>>

(* _flush_bucket, to its first send *)
Flush(t) ==
    /\ phase = "running" /\ flight[t] = Nothing /\ batches[t] # Nothing
    /\ \E S \in Chunks(batches[t]) :
           /\ SendMessage(FALSE, Only(S, batches[t]))
           /\ flight' = [flight EXCEPT ![t] = Rest(S, batches[t])]
    /\ batches' = [batches EXCEPT ![t] = Nothing]
    /\ UNCHANGED <<room, phase, cache, snap, opening, throttled, link, read,
                   mirror, old, retiered, count>>

(* ... and the next ones *)
FlushNext(t) ==
    /\ phase = "running" /\ flight[t] # Nothing
    /\ \E S \in Chunks(flight[t]) :
           /\ SendMessage(FALSE, Only(S, flight[t]))
           /\ flight' = [flight EXCEPT ![t] = Rest(S, flight[t])]
    /\ UNCHANGED <<room, phase, batches, cache, snap, opening, throttled, link,
                   read, mirror, old, retiered, count>>

(* The first chunk of the snapshot carries the flag, also when it is empty.*)
SendSnapshot ==
    /\ phase = "snapshot"
    /\ opening \/ snap # Nothing
    /\ \E S \in Chunks(snap) :
           /\ SendMessage(opening, Only(S, snap))
           /\ snap' = Rest(S, snap)
    /\ opening' = FALSE
    /\ phase' = IF link \/ throttled THEN phase ELSE "failed"
    /\ UNCHANGED <<room, batches, cache, flight, throttled, link, read,
                   mirror, old, retiered, count>>

(* start() creates the flush loops. *)
SnapshotSent ==
    /\ phase = "snapshot" /\ ~opening /\ snap = Nothing
    /\ phase' = "running"
    /\ UNCHANGED <<room, batches, cache, flight, snap, opening, throttled,
                   cloud, marks, count>>

-----------------------------------------------------------------------------
(* start() and stop(), with the connection and the feature switchboard.    *)

(* Mutant: the batches of the last connection stay. *)
StartKeepingBatches ==
    /\ phase' = "snapshot"
    /\ UNCHANGED batches
    /\ cache' = [k \in Key |-> None]
    /\ snap' = [k \in Key |-> IF store[k].gone THEN None ELSE store[k]]
    /\ opening' = TRUE
    /\ lost' = {} /\ retiered' = {}

(* start(), to the first send of _send_initial_snapshot *)
Start ==
    /\ phase' = "snapshot"
    /\ batches' = NoTiers
    /\ cache' = [k \in Key |-> None]
    /\ snap' = [k \in Key |-> IF store[k].gone THEN None ELSE store[k]]
    /\ opening' = TRUE
    /\ lost' = {} /\ retiered' = {}

(* A handshake, and the replay of what the buffer still holds: the oldest  *)
(* may have been evicted, the newest lost by a replay cut short, all of it *)
(* dropped by a resume that was refused.  Throttles end.                   *)
Connect(forwarding) ==
    /\ phase = "down"
    /\ link' = TRUE /\ throttled' = FALSE
    /\ \E i \in 1..(Len(unacked) + 1), j \in 0..Len(unacked) :
           /\ unacked' = SubSeq(unacked, i, j)
           /\ old' = Len(unacked')
    /\ read' = 0
    /\ IF forwarding
       THEN Start
       ELSE phase' = "off" /\ UNCHANGED <<batches, cache, snap, opening, lost, retiered>>
    /\ UNCHANGED <<room, flight, mirror, count>>

(* config_update switches forwarding on ...  *)
SwitchOn ==
    /\ phase = "off" /\ link
    /\ Start
    /\ old' = Len(unacked) - read
    /\ UNCHANGED <<room, flight, throttled, cloud, count>>

(* ... and off: stop() cancels the flushes where they are. *)
SwitchOff ==
    /\ phase = "running" /\ restarts < MaxRestarts
    /\ restarts' = restarts + 1
    /\ phase' = "off"
    /\ flight' = NoTiers
    /\ UNCHANGED <<room, batches, cache, snap, opening, throttled, cloud,
                   marks, changes, throttles>>

(* Mutant: a lost link drops the buffer. *)
LinkLostForgetting ==
    /\ link /\ restarts < MaxRestarts
    /\ restarts' = restarts + 1
    /\ link' = FALSE
    /\ unacked' = <<>>
    /\ UNCHANGED <<room, relay, throttled, read, mirror, marks, changes,
                   throttles>>

LinkLost ==
    /\ link /\ restarts < MaxRestarts
    /\ restarts' = restarts + 1
    /\ link' = FALSE
    /\ UNCHANGED <<room, relay, throttled, unacked, read, mirror, marks,
                   changes, throttles>>

(* the agent has noticed; stop() *)
Teardown ==
    /\ phase # "down" /\ ~link
    /\ phase' = "down"
    /\ flight' = NoTiers /\ snap' = Nothing /\ opening' = FALSE
    /\ UNCHANGED <<room, batches, cache, throttled, cloud, marks, count>>

(* _handle_throttle, _unthrottle *)
Throttle ==
    /\ link /\ phase # "down" /\ ~throttled /\ throttles < MaxThrottles
    /\ throttled' = TRUE /\ throttles' = throttles + 1
    /\ UNCHANGED <<room, relay, cloud, marks, changes, restarts>>

Unthrottle ==
    /\ throttled /\ throttled' = FALSE
    /\ UNCHANGED <<room, relay, cloud, marks, count>>

-----------------------------------------------------------------------------
(* The cloud.                                                              *)

(* A snapshot replaces all the cloud holds; deleted keys are kept here as  *)
(* what they are, for the number of the change.                            *)
CloudReads ==
    /\ link /\ read < Len(unacked)
    /\ LET m == unacked[read + 1]
       IN  mirror' = [k \in Key |->
                         IF m.entries[k] # None THEN m.entries[k]
                         ELSE IF m.opens THEN None ELSE mirror[k]]
    /\ read' = read + 1
    /\ old' = IF old > 0 THEN old - 1 ELSE 0
    /\ UNCHANGED <<room, relay, throttled, link, unacked, lost, retiered, count>>

CloudAcks ==
    /\ link /\ read > 0
    /\ unacked' = SubSeq(unacked, read + 1, Len(unacked))
    /\ read' = 0
    /\ UNCHANGED <<room, relay, throttled, link, mirror, marks, count>>

-----------------------------------------------------------------------------
Next ==
    \/ \E k \in Key : SetState(k) \/ DeleteState(k)
    \/ PopDriver \/ ClearKeys \/ AddDevice
    \/ \E t \in Tier : Flush(t) \/ FlushNext(t)
    \/ SendSnapshot \/ SnapshotSent
    \/ \E forwarding \in BOOLEAN : Connect(forwarding)
    \/ SwitchOn \/ SwitchOff \/ LinkLost \/ Teardown
    \/ Throttle \/ Unthrottle
    \/ CloudReads \/ CloudAcks

Spec == Init /\ [][Next]_vars

(* The timers of the tiers and the sends come round, and the cloud reads   *)
(* what a connection carries.                                              *)
Fairness ==
    /\ \A t \in Tier : WF_vars(Flush(t)) /\ WF_vars(FlushNext(t))
    /\ WF_vars(SendSnapshot) /\ WF_vars(SnapshotSent)
    /\ WF_vars(CloudReads)

FairSpec == Spec /\ Fairness

-----------------------------------------------------------------------------
(* Properties.                                                             *)

Agrees(k) == mirror[k] = store[k] \/ (store[k].gone /\ mirror[k] = None)

Pending(k) ==
    \/ snap[k] # None \/ opening
    \/ \E t \in Tier : batches[t][k] # None \/ flight[t][k] # None

(* Once the cloud has read what was sent, and nothing waits to be sent, it *)
(* holds the value the room has -- whatever was lost, replayed, deleted    *)
(* while the connection was down, or changed while the snapshot was on its *)
(* way -- but for keys whose change was refused by a throttle, or that     *)
(* changed their tier while an entry was pending (start, _flush_bucket).   *)
MirrorTruthful ==
    Subscribed /\ link /\ read = Len(unacked) =>
        \A k \in Key \ (lost \cup retiered) : Pending(k) \/ Agrees(k)

(* Of a key that keeps its tier the cloud never goes back to an older      *)
(* value once the snapshot is there ("the cloud applies the same (or a     *)
(* newer) value", start), whatever a throttle refused in between.          *)
NeverBack ==
    [][CloudReads /\ old = 0 /\ ~unacked[read + 1].opens =>
          \A k \in Key \ retiered :
              mirror[k] # None => mirror'[k].n >= mirror[k].n]_vars

(* The tier cache tracks only live keys, and cannot grow without bound     *)
(* (_on_state_change).                                                     *)
CacheOfLiveKeys ==
    Subscribed => \A k \in Key : cache[k] # None => ~store[k].gone

(* Every change gets to the cloud, or is overtaken by a newer one of its   *)
(* key there, if the connection and the forwarding last and no throttle    *)
(* refuses it.                                                             *)
ChangesArrive ==
    \A k \in Key : \A n \in 1..MaxChanges :
        Subscribed /\ store[k].n >= n
            ~> \/ mirror[k] # None /\ mirror[k].n >= n
               \/ mirror[k] = None /\ store[k].gone
               \/ k \in lost \/ ~Subscribed \/ ~link
=============================================================================
