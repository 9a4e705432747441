-------------------------- MODULE StateRelay_proofs --------------------------
(***************************************************************************)
(* Proofs about StateRelay: type correctness, that the tier cache only     *)
(* ever holds keys that are in the store, that the cloud holds what the    *)
(* room has once all is sent and read, and that it never goes back.        *)
(***************************************************************************)
EXTENDS StateRelay, SequenceTheorems, TLAPS

(* The tier of a key is a tier. *)
LEMMA TierOfTyped ==
  ASSUME TypeOK, NEW k \in Key
  PROVE  TierOf(k) \in Tier
  BY RelayAssumption DEF TypeOK, TierOf

LEMMA NothingTyped == Nothing \in Entries /\ NoTiers \in [Tier -> Entries]
  BY DEF Nothing, NoTiers, Entries

LEMMA OnlyTyped ==
  ASSUME NEW S, NEW e \in Entries
  PROVE  Only(S, e) \in Entries /\ Without(S, e) \in Entries
  BY DEF Only, Without, Entries

LEMMA RestTyped ==
  ASSUME NEW S, NEW e \in Entries
  PROVE  Rest(S, e) \in Entries
<1>1. Without(S, e) \in Entries /\ Nothing \in Entries
  BY OnlyTyped, NothingTyped
<1> QED  BY <1>1 DEF Rest

LEMMA CachedTyped ==
  ASSUME TypeOK, NEW K \in SUBSET Key, NEW after
  PROVE  Cached(K, after) \in [Key -> Tier \cup {None}]
<1>1. \A k \in Key : TierOf(k) \in Tier
  BY TierOfTyped
<1>2. cache \in [Key -> Tier \cup {None}]
  BY DEF TypeOK
<1> QED  BY <1>1, <1>2 DEF Cached

(* A change leaves the store, the batches and the cache typed. *)
LEMMA ChangedTyped ==
  ASSUME TypeOK, NEW K \in SUBSET Key, NEW gone \in BOOLEAN, Changed(K, gone)
  PROVE  /\ store' \in [Key -> Value] /\ changes' \in Nat
         /\ batches' \in [Tier -> Entries]
         /\ cache' \in [Key -> Tier \cup {None}]
         /\ retiered' \subseteq Key
<1> DEFINE Entry(t, k) == IF k \in K /\ TierOf(k) = t THEN store'[k]
                                                     ELSE batches[t][k]
<1>1. store' \in [Key -> Value]
  BY DEF TypeOK, Changed, Value
<1>2. changes' \in Nat
  BY DEF TypeOK, Changed
<1>3. \A t \in Tier, k \in Key : Entry(t, k) \in Value \cup {None}
  BY <1>1 DEF TypeOK, Entries
<1>4. [t \in Tier |-> [k \in Key |-> Entry(t, k)]] \in [Tier -> Entries]
  BY <1>3 DEF Entries
<1>5. batches' \in [Tier -> Entries]
  <2>1. CASE Subscribed
    BY <2>1, <1>4 DEF Changed, Notified
  <2>2. CASE ~Subscribed
    BY <2>2 DEF Changed, Notified, TypeOK
  <2> QED  BY <2>1, <2>2
<1>6. cache' \in [Key -> Tier \cup {None}]
  <2>1. Cached(K, store') \in [Key -> Tier \cup {None}]
    BY CachedTyped
  <2> QED  BY <2>1 DEF Changed, Notified, TypeOK
<1>7. retiered' \subseteq Key
  BY DEF Changed, Notified, Crossing, TypeOK
<1> QED  BY <1>1, <1>2, <1>5, <1>6, <1>7

(* A message goes to the end of the queue, or nowhere. *)
LEMMA SendTyped ==
  ASSUME TypeOK, NEW opens \in BOOLEAN, NEW e \in Entries,
         SendMessage(opens, e)
  PROVE  /\ unacked' \in Seq(Message) /\ lost' \subseteq Key
         /\ read \in 0..Len(unacked')
<1>1. CASE throttled
  BY <1>1 DEF SendMessage, TypeOK, KeysOf
<1>2. CASE ~throttled
  <2> DEFINE m == [opens |-> opens, entries |-> e]
  <2>1. m \in Message
    BY DEF Message
  <2>2. unacked' = Append(unacked, m) /\ lost' = lost \ KeysOf(e)
    BY <1>2 DEF SendMessage
  <2>3. unacked \in Seq(Message) /\ read \in 0..Len(unacked) /\ lost \subseteq Key
    BY DEF TypeOK
  <2>4. /\ Append(unacked, m) \in Seq(Message)
        /\ Len(Append(unacked, m)) = Len(unacked) + 1
    BY <2>1, <2>3, AppendProperties
  <2>5. Len(unacked) \in Nat
    BY <2>3, LenProperties
  <2> HIDE DEF m
  <2>6. unacked' \in Seq(Message) /\ lost' \subseteq Key
    BY <2>2, <2>3, <2>4
  <2>7. Len(unacked') = Len(unacked) + 1
    BY <2>2, <2>4
  <2>8. read \in 0..Len(unacked')
    BY <2>3, <2>5, <2>7
  <2> QED  BY <2>6, <2>8
<1> QED  BY <1>1, <1>2

(* start() fills the snapshot from the store and empties the rest. *)
LEMMA StartTyped ==
  ASSUME TypeOK, Start
  PROVE  /\ phase' = "snapshot" /\ batches' \in [Tier -> Entries]
         /\ cache' \in [Key -> Tier \cup {None}] /\ snap' \in Entries
         /\ opening' \in BOOLEAN /\ lost' \subseteq Key /\ retiered' \subseteq Key
<1>1. snap' \in Entries
  BY DEF TypeOK, Start, Entries
<1> QED  BY <1>1, NothingTyped DEF Start

-----------------------------------------------------------------------------
LEMMA InitTyped == Init => TypeOK
<1> SUFFICES ASSUME Init PROVE TypeOK
  OBVIOUS
<1>1. unacked \in Seq(Message) /\ read \in 0..Len(unacked)
  BY DEF Init
<1>2. store \in [Key -> Value] /\ mirror \in Entries /\ snap \in Entries
  BY NothingTyped DEF Init, Value
<1>3. batches \in [Tier -> Entries] /\ flight \in [Tier -> Entries]
  BY NothingTyped DEF Init
<1> QED  BY <1>1, <1>2, <1>3 DEF Init, TypeOK

LEMMA ChangeStepTyped ==
  ASSUME TypeOK,
         \/ \E k \in Key : SetState(k) \/ DeleteState(k)
         \/ ClearKeys \/ AddDevice
  PROVE  TypeOK'
<1>1. \E K \in SUBSET Key, gone \in BOOLEAN : Changed(K, gone)
  BY RelayAssumption DEF SetState, DeleteState, ClearKeys, AddDevice
<1>2. /\ store' \in [Key -> Value] /\ changes' \in Nat
      /\ batches' \in [Tier -> Entries]
      /\ cache' \in [Key -> Tier \cup {None}]
      /\ retiered' \subseteq Key
  BY <1>1, ChangedTyped
<1>3. device' \in {"up", "removing", "removed"}
  BY DEF TypeOK, SetState, DeleteState, ClearKeys, AddDevice
<1>4. UNCHANGED <<phase, flight, snap, opening, throttled, cloud, old, lost,
                  restarts, throttles>>
  BY DEF SetState, DeleteState, ClearKeys, AddDevice
<1> QED  BY <1>2, <1>3, <1>4 DEF TypeOK, cloud

LEMMA FlushTyped ==
  ASSUME TypeOK, NEW t \in Tier, Flush(t) \/ FlushNext(t)
  PROVE  TypeOK'
<1> DEFINE Filled == IF Flush(t) THEN batches[t] ELSE flight[t]
<1>1. Filled \in Entries
  BY DEF TypeOK
<1>2. PICK S : /\ SendMessage(FALSE, Only(S, Filled))
               /\ flight' = [flight EXCEPT ![t] = Rest(S, Filled)]
  BY DEF Flush, FlushNext
<1> HIDE DEF Filled
<1>3. Only(S, Filled) \in Entries /\ Rest(S, Filled) \in Entries
  BY <1>1, OnlyTyped, RestTyped
<1>4. /\ unacked' \in Seq(Message) /\ lost' \subseteq Key
      /\ read \in 0..Len(unacked')
  BY <1>2, <1>3, SendTyped
<1>5. flight' \in [Tier -> Entries] /\ batches' \in [Tier -> Entries]
  BY <1>2, <1>3, NothingTyped DEF TypeOK, Flush, FlushNext
<1>6. UNCHANGED <<room, phase, cache, snap, opening, throttled, link, read,
                  mirror, old, retiered, count>>
  BY DEF Flush, FlushNext
<1> QED  BY <1>4, <1>5, <1>6 DEF TypeOK, room, count

LEMMA SendSnapshotTyped ==
  ASSUME TypeOK, SendSnapshot
  PROVE  TypeOK'
<1>1. PICK S : SendMessage(opening, Only(S, snap)) /\ snap' = Rest(S, snap)
  BY DEF SendSnapshot
<1>2. Only(S, snap) \in Entries /\ Rest(S, snap) \in Entries
  BY OnlyTyped, RestTyped DEF TypeOK
<1>3. /\ unacked' \in Seq(Message) /\ lost' \subseteq Key
      /\ read \in 0..Len(unacked')
  BY <1>1, <1>2, SendTyped DEF TypeOK
<1>4. phase' \in {"down", "off", "snapshot", "running", "failed"}
  BY DEF SendSnapshot, TypeOK
<1> QED  BY <1>1, <1>2, <1>3, <1>4 DEF SendSnapshot, TypeOK, room, count

(* A part of a queue of messages is one. *)
LEMMA PartTyped ==
  ASSUME NEW s \in Seq(Message), NEW i \in 1..(Len(s) + 1), NEW j \in 0..Len(s)
  PROVE  SubSeq(s, i, j) \in Seq(Message) /\ Len(SubSeq(s, i, j)) \in Nat
<1>1. Len(s) \in Nat /\ i \in Int /\ j \in Int
  BY LenProperties
<1>2. \A n \in i..j : n \in 1..Len(s)
  BY <1>1
<1>3. \A n \in i..j : s[n] \in Message
  BY <1>2, ElementOfSeq
<1>4. SubSeq(s, i, j) \in Seq(Message)
  BY <1>1, <1>3, SubSeqProperties
<1> QED  BY <1>4, LenProperties

LEMMA ConnectTyped ==
  ASSUME TypeOK, NEW forwarding \in BOOLEAN, Connect(forwarding)
  PROVE  TypeOK'
<1>1. unacked' \in Seq(Message) /\ old' \in Nat
  BY PartTyped DEF Connect, TypeOK
<1>2. read' \in 0..Len(unacked')
  <2>1. Len(unacked') \in Nat
    BY <1>1, LenProperties
  <2> QED  BY <2>1 DEF Connect
<1>3. /\ phase' \in {"off", "snapshot"} /\ batches' \in [Tier -> Entries]
      /\ cache' \in [Key -> Tier \cup {None}] /\ snap' \in Entries
      /\ opening' \in BOOLEAN /\ lost' \subseteq Key /\ retiered' \subseteq Key
  BY StartTyped DEF Connect, TypeOK
<1> QED  BY <1>1, <1>2, <1>3 DEF Connect, TypeOK, room, count

LEMMA SwitchOnTyped ==
  ASSUME TypeOK, SwitchOn
  PROVE  TypeOK'
<1>1. old' \in Nat
  <2>1. Len(unacked) \in Nat /\ read \in 0..Len(unacked)
    BY LenProperties DEF TypeOK
  <2>2. old' = Len(unacked) - read
    BY DEF SwitchOn
  <2> QED  BY <2>1, <2>2
<1>2. /\ phase' = "snapshot" /\ batches' \in [Tier -> Entries]
      /\ cache' \in [Key -> Tier \cup {None}] /\ snap' \in Entries
      /\ opening' \in BOOLEAN /\ lost' \subseteq Key /\ retiered' \subseteq Key
  BY StartTyped DEF SwitchOn
<1> QED  BY <1>1, <1>2 DEF SwitchOn, TypeOK, room, cloud, count

LEMMA CloudReadsTyped ==
  ASSUME TypeOK, CloudReads
  PROVE  TypeOK'
<1>1. Len(unacked) \in Nat /\ read \in 0..Len(unacked) /\ read < Len(unacked)
  BY LenProperties DEF TypeOK, CloudReads
<1>2. read' \in 0..Len(unacked)
  BY <1>1 DEF CloudReads
<1>3. unacked[read + 1] \in Message
  <2>1. read + 1 \in 1..Len(unacked)
    BY <1>1
  <2> QED  BY <2>1, ElementOfSeq DEF TypeOK
<1>4. mirror' \in Entries
  BY <1>3 DEF CloudReads, TypeOK, Message, Entries
<1>5. old' \in Nat
  BY DEF CloudReads, TypeOK
<1> QED  BY <1>2, <1>4, <1>5 DEF CloudReads, TypeOK, room, relay, count

LEMMA CloudAcksTyped ==
  ASSUME TypeOK, CloudAcks
  PROVE  TypeOK'
<1>1. Len(unacked) \in Nat /\ read \in 0..Len(unacked)
  BY LenProperties DEF TypeOK
<1>2. read + 1 \in 1..(Len(unacked) + 1) /\ Len(unacked) \in 0..Len(unacked)
  BY <1>1
<1>3. unacked' \in Seq(Message)
  BY <1>2, PartTyped DEF CloudAcks, TypeOK
<1>4. read' \in 0..Len(unacked')
  <2>1. Len(unacked') \in Nat
    BY <1>3, LenProperties
  <2>2. read' = 0
    BY DEF CloudAcks
  <2> QED  BY <2>1, <2>2
<1> QED  BY <1>3, <1>4 DEF CloudAcks, TypeOK, room, relay, marks, count

LEMMA OthersTyped ==
  ASSUME TypeOK,
         \/ PopDriver \/ SnapshotSent \/ SwitchOff \/ LinkLost \/ Teardown
         \/ Throttle \/ Unthrottle
  PROVE  TypeOK'
<1>1. CASE PopDriver
  BY <1>1 DEF PopDriver, TypeOK, relay, cloud, marks, count
<1>2. CASE SnapshotSent
  BY <1>2 DEF SnapshotSent, TypeOK, room, cloud, marks, count
<1>3. CASE SwitchOff
  BY <1>3, NothingTyped DEF SwitchOff, TypeOK, room, cloud, marks
<1>4. CASE LinkLost
  <2>1. link' \in BOOLEAN /\ restarts' \in Nat
    <3>1. link' = FALSE /\ restarts' = restarts + 1
      BY <1>4 DEF LinkLost
    <3>2. restarts \in Nat
      BY DEF TypeOK
    <3>3. restarts' \in Nat
      BY <3>1, <3>2
    <3>4. link' \in BOOLEAN
      BY <3>1, Zenon
    <3> QED  BY <3>3, <3>4
  <2>2. UNCHANGED <<room, relay, throttled, unacked, read, mirror, marks,
                    changes, throttles>>
    BY <1>4 DEF LinkLost
  <2> QED  BY <2>1, <2>2 DEF TypeOK, room, relay, marks
<1>5. CASE Teardown
  BY <1>5, NothingTyped DEF Teardown, TypeOK, room, cloud, marks, count
<1>6. CASE Throttle
  BY <1>6 DEF Throttle, TypeOK, room, relay, cloud, marks
<1>7. CASE Unthrottle
  BY <1>7 DEF Unthrottle, TypeOK, room, relay, cloud, marks, count
<1> QED  BY <1>1, <1>2, <1>3, <1>4, <1>5, <1>6, <1>7

LEMMA StepTyped ==
  ASSUME TypeOK, [Next]_vars
  PROVE  TypeOK'
<1>1. ASSUME NEW k \in Key, SetState(k) \/ DeleteState(k) PROVE TypeOK'
  BY <1>1, ChangeStepTyped
<1>2. ASSUME ClearKeys \/ AddDevice PROVE TypeOK'
  BY <1>2, ChangeStepTyped
<1>3. ASSUME NEW t \in Tier, Flush(t) \/ FlushNext(t) PROVE TypeOK'
  BY <1>3, FlushTyped
<1>4. CASE SendSnapshot
  BY <1>4, SendSnapshotTyped
<1>5. ASSUME NEW forwarding \in BOOLEAN, Connect(forwarding) PROVE TypeOK'
  BY <1>5, ConnectTyped
<1>6. CASE SwitchOn
  BY <1>6, SwitchOnTyped
<1>7. CASE CloudReads
  BY <1>7, CloudReadsTyped
<1>8. CASE CloudAcks
  BY <1>8, CloudAcksTyped
<1>9. CASE \/ PopDriver \/ SnapshotSent \/ SwitchOff \/ LinkLost \/ Teardown
           \/ Throttle \/ Unthrottle
  BY <1>9, OthersTyped
<1>10. CASE UNCHANGED vars
  BY <1>10 DEF TypeOK, vars, room, relay, cloud, marks, count
<1> QED
  BY <1>1, <1>2, <1>3, <1>4, <1>5, <1>6, <1>7, <1>8, <1>9, <1>10 DEF Next

(* Every variable keeps its type, whatever the keys, the tiers and the     *)
(* size of a chunk (TypeOK).                                               *)
THEOREM RelayTyped == Spec => []TypeOK
<1> QED  BY InitTyped, StepTyped, PTL DEF Spec
-----------------------------------------------------------------------------
(* What a stage of the relay leaves to the later ones. *)
Stages ==
    /\ phase # "running" => flight = NoTiers
    /\ phase # "snapshot" => snap = Nothing /\ ~opening
    /\ phase = "failed" => ~link

InTier(t, k) == batches[t][k] # None \/ flight[t][k] # None
Batched(k)   == \E t \in Tier : batches[t][k] # None

(* The entries of a key are in one tier, and the last of them on the way   *)
(* -- batch after flight after snapshot -- has its value.                  *)
Newest(k) ==
    /\ \A t, u \in Tier : InTier(t, k) /\ InTier(u, k) => t = u
    /\ \A t \in Tier : batches[t][k] \in {None, store[k]}
    /\ ~Batched(k) =>
          /\ \A t \in Tier : flight[t][k] \in {None, store[k]}
          /\ snap[k] \in {None, store[k]}
          /\ opening /\ snap[k] = None => store[k].gone

(* The value of the key is in the last unread message about it, or in the  *)
(* cloud when there is none.                                               *)
Touches(m, k) == m.opens \/ m.entries[k] # None
Unread == (read + 1)..Len(unacked)

Tells(m, k) ==
    m.entries[k] = store[k] \/ (m.entries[k] = None /\ store[k].gone)

Arrives(k) ==
    /\ (\A i \in Unread : ~Touches(unacked[i], k)) => Agrees(k)
    /\ \A i \in Unread :
          Touches(unacked[i], k)
          /\ (\A j \in (i + 1)..Len(unacked) : ~Touches(unacked[j], k))
              => Tells(unacked[i], k)

Tracked(k) ==
    Subscribed /\ k \notin retiered =>
        Newest(k) /\ (link /\ k \notin lost /\ ~Pending(k) => Arrives(k))


-----------------------------------------------------------------------------
LEMMA ValueIsNotNone == None \notin Value
  BY RelayAssumption DEF Value

LEMMA LenTyped ==
  ASSUME TypeOK
  PROVE  Len(unacked) \in Nat /\ read \in 0..Len(unacked)
  BY LenProperties DEF TypeOK

(* A message that does not touch the key leaves it to the ones before. *)
LEMMA AppendQuiet ==
  ASSUME TypeOK, NEW k \in Key, NEW m \in Message, ~Touches(m, k),
         unacked' = Append(unacked, m), UNCHANGED <<read, mirror, store>>,
         Arrives(k)
  PROVE  Arrives(k)'
<1> DEFINE n == Len(unacked)
<1>1. n \in Nat /\ read \in 0..n
  BY LenTyped
<1>2. /\ Len(unacked') = n + 1 /\ unacked'[n + 1] = m
      /\ \A i \in 1..n : unacked'[i] = unacked[i]
  BY AppendProperties DEF TypeOK
<1> HIDE DEF n
<1>3. Unread = (read + 1)..n /\ Unread' = (read + 1)..(n + 1)
  BY <1>2 DEF Unread, n
<1>4. \A i \in (read + 1)..n : i \in 1..n /\ i \in (read + 1)..(n + 1)
  BY <1>1
<1>5. ~Touches(unacked'[n + 1], k)
  BY <1>2
<1>6. ASSUME \A i \in Unread' : ~Touches(unacked'[i], k)
      PROVE  Agrees(k)'
  <2>1. \A i \in Unread : ~Touches(unacked[i], k)
    BY <1>2, <1>3, <1>4, <1>6
  <2> QED  BY <2>1 DEF Arrives, Agrees
<1>7. ASSUME NEW i \in Unread', Touches(unacked'[i], k),
             \A j \in (i + 1)..(n + 1) : ~Touches(unacked'[j], k)
      PROVE  Tells(unacked[i], k)'
  <2>1. i \in (read + 1)..n
    <3>1. i # n + 1
      BY <1>5, <1>7
    <3> QED  BY <3>1, <1>1, <1>3
  <2>2. \A j \in (i + 1)..n : j \in 1..n /\ j \in (i + 1)..(n + 1)
    BY <2>1, <1>1
  <2>3. \A j \in (i + 1)..n : ~Touches(unacked[j], k)
    BY <2>2, <1>2, <1>7
  <2>4. i \in Unread /\ unacked'[i] = unacked[i]
    BY <2>1, <1>2, <1>3, <1>4
  <2>5. Tells(unacked[i], k)
    BY <2>3, <2>4, <1>7 DEF Arrives, n
  <2> QED  BY <2>4, <2>5 DEF Tells
<1> QED  BY <1>2, <1>6, <1>7 DEF Arrives

(* A message that tells the value of the key is the one that counts. *)
LEMMA AppendTells ==
  ASSUME TypeOK, NEW k \in Key, NEW m \in Message, Touches(m, k),
         unacked' = Append(unacked, m), UNCHANGED <<read, mirror, store>>,
         Tells(m, k)
  PROVE  Arrives(k)'
<1> DEFINE n == Len(unacked)
<1>1. n \in Nat /\ read \in 0..n
  BY LenTyped
<1>2. Len(unacked') = n + 1 /\ unacked'[n + 1] = m
  BY AppendProperties DEF TypeOK
<1> HIDE DEF n
<1>3. Unread' = (read + 1)..(n + 1) /\ n + 1 \in (read + 1)..(n + 1)
  BY <1>1, <1>2 DEF Unread
<1>4. ~(\A i \in Unread' : ~Touches(unacked'[i], k))
  BY <1>2, <1>3
<1>5. ASSUME NEW i \in Unread', Touches(unacked'[i], k),
             \A j \in (i + 1)..(n + 1) : ~Touches(unacked'[j], k)
      PROVE  Tells(unacked[i], k)'
  <2>1. i = n + 1
    <3>1. CASE i # n + 1
      <4>1. n + 1 \in (i + 1)..(n + 1)
        BY <3>1, <1>1, <1>3
      <4> QED  BY <4>1, <1>2, <1>5
    <3> QED  BY <3>1
  <2> QED  BY <2>1, <1>2 DEF Tells
<1> QED  BY <1>2, <1>4, <1>5 DEF Arrives

(* After a send the key arrives if the message told its value, or if it    *)
(* did before and the message said nothing of it.                          *)
LEMMA SendArrives ==
  ASSUME TypeOK, NEW k \in Key, NEW opens \in BOOLEAN, NEW e \in Entries,
         SendMessage(opens, e), UNCHANGED <<read, mirror, store>>,
         k \notin lost',
         opens \/ e[k] # None =>
             e[k] = store[k] \/ (e[k] = None /\ store[k].gone),
         ~opens /\ e[k] = None /\ k \notin lost => Arrives(k)
  PROVE  Arrives(k)'
<1> DEFINE m == [opens |-> opens, entries |-> e]
<1>1. CASE throttled
  <2>1. UNCHANGED unacked /\ k \notin lost /\ k \notin KeysOf(e) /\ ~opens
    BY <1>1 DEF SendMessage
  <2>2. Arrives(k)
    BY <2>1 DEF KeysOf
  <2> QED  BY <2>1, <2>2 DEF Arrives, Unread, Touches, Tells, Agrees
<1>2. CASE ~throttled
  <2>1. unacked' = Append(unacked, m) /\ lost' = lost \ KeysOf(e)
    BY <1>2 DEF SendMessage
  <2>2. m \in Message /\ m.opens = opens /\ m.entries = e
    BY DEF Message
  <2> HIDE DEF m
  <2>3. CASE ~opens /\ e[k] = None
    <3>1. k \notin lost /\ ~Touches(m, k)
      BY <2>1, <2>2, <2>3 DEF KeysOf, Touches
    <3> QED  BY <3>1, <2>1, <2>2, <2>3, AppendQuiet
  <2>4. CASE opens \/ e[k] # None
    <3>1. Touches(m, k) /\ Tells(m, k)
      BY <2>2, <2>4 DEF Touches, Tells
    <3> QED  BY <3>1, <2>1, <2>2, AppendTells
  <2> QED  BY <2>3, <2>4
<1> QED  BY <1>1, <1>2


-----------------------------------------------------------------------------
(* Reading a message moves what it says of the key into the mirror. *)
LEMMA ReadArrives ==
  ASSUME TypeOK, NEW k \in Key, CloudReads, Arrives(k)
  PROVE  Arrives(k)'
<1> DEFINE n == Len(unacked)
           m == unacked[read + 1]
<1>1. n \in Nat /\ read \in 0..n /\ read < n
  BY LenTyped DEF CloudReads
<1>2. /\ UNCHANGED <<store, unacked>> /\ read' = read + 1
      /\ mirror'[k] = IF m.entries[k] # None THEN m.entries[k]
                      ELSE IF m.opens THEN None ELSE mirror[k]
  BY DEF CloudReads, room
<1>3. /\ Unread = (read + 1)..n /\ Unread' = (read + 2)..n
      /\ read + 1 \in Unread
  BY <1>1, <1>2 DEF Unread
<1>4. \A i \in Unread : i # read + 1 => i \in Unread'
  BY <1>1, <1>3
<1>5. \A i \in Unread' : i \in Unread
  BY <1>1, <1>3
<1>6. ASSUME \A i \in Unread' : ~Touches(unacked[i], k)
      PROVE  Agrees(k)'
  <2>1. CASE Touches(m, k)
    <3>1. \A j \in (read + 2)..n : ~Touches(unacked[j], k)
      BY <1>3, <1>6
    <3>2. (read + 1) + 1 = read + 2
      BY <1>1
    <3>3. Tells(m, k)
      BY <2>1, <3>1, <3>2, <1>3 DEF Arrives
    <3> QED  BY <2>1, <3>3, <1>2 DEF Tells, Touches, Agrees
  <2>2. CASE ~Touches(m, k)
    <3>1. Agrees(k)
      BY <2>2, <1>4, <1>6 DEF Arrives
    <3> QED  BY <2>2, <3>1, <1>2 DEF Touches, Agrees
  <2> QED  BY <2>1, <2>2
<1>7. \A i \in Unread' :
          Touches(unacked[i], k)
          /\ (\A j \in (i + 1)..Len(unacked) : ~Touches(unacked[j], k))
              => Tells(unacked[i], k)
  BY <1>5 DEF Arrives
<1>8. \A i \in Unread' : Tells(unacked[i], k) <=> Tells(unacked[i], k)'
  BY <1>2 DEF Tells
<1> QED  BY <1>2, <1>6, <1>7, <1>8 DEF Arrives

(* Acknowledged messages were read. *)
LEMMA AckArrives ==
  ASSUME TypeOK, NEW k \in Key, CloudAcks, Arrives(k)
  PROVE  Arrives(k)'
<1> DEFINE n == Len(unacked)
<1>1. n \in Nat /\ read \in 0..n
  BY LenTyped
<1>2. /\ UNCHANGED <<store, mirror>> /\ read' = 0
      /\ unacked' = SubSeq(unacked, read + 1, n)
  BY DEF CloudAcks, room
<1>3. \A i \in (read + 1)..n : unacked[i] \in Message
  <2>1. \A i \in (read + 1)..n : i \in 1..n
    BY <1>1
  <2> QED  BY <2>1, ElementOfSeq DEF TypeOK
<1> HIDE DEF n
<1>4. /\ Len(unacked') = n - read
      /\ \A i \in 1..(n - read) : unacked'[i] = unacked[read + i]
  <2> DEFINE first == read + 1
  <2>1. first \in Int /\ n \in Int /\ first <= n + 1
    BY <1>1
  <2>2. \A i \in first..n : unacked[i] \in Message
    BY <1>3
  <2>3. unacked' = SubSeq(unacked, first, n)
    BY <1>2
  <2> HIDE DEF first
  <2>4. /\ Len(unacked') = IF first <= n THEN n - first + 1 ELSE 0
        /\ \A i \in 1..(n - first + 1) : unacked'[i] = unacked[first + i - 1]
    BY <2>1, <2>2, <2>3, SubSeqProperties
  <2>5. n - first + 1 = n - read /\ \A i \in 1..n : first + i - 1 = read + i
    BY <1>1 DEF first
  <2>6. \A i \in 1..(n - read) : i \in 1..n
    BY <1>1
  <2>7. first <= n \/ n - first + 1 = 0
    BY <2>1
  <2> QED  BY <2>4, <2>5, <2>6, <2>7
<1>5. Unread = (read + 1)..n /\ Unread' = 1..(n - read)
  BY <1>1, <1>2, <1>4 DEF Unread, n
<1>6. \A i \in Unread' : read + i \in Unread
  BY <1>1, <1>5
<1>7. \A i \in Unread : /\ i - read \in Unread'
                        /\ unacked'[i - read] = unacked[i]
  BY <1>1, <1>4, <1>5
<1>8. ASSUME \A i \in Unread' : ~Touches(unacked'[i], k)
      PROVE  Agrees(k)'
  <2>1. \A i \in Unread : ~Touches(unacked[i], k)
    BY <1>7, <1>8
  <2> QED  BY <2>1, <1>2 DEF Arrives, Agrees
<1>9. ASSUME NEW i \in Unread', Touches(unacked'[i], k),
             \A j \in (i + 1)..(n - read) : ~Touches(unacked'[j], k)
      PROVE  Tells(unacked[i], k)'
  <2>1. unacked'[i] = unacked[read + i] /\ read + i \in Unread
    BY <1>4, <1>5, <1>6
  <2>2. \A j \in (read + i + 1)..n : /\ j - read \in (i + 1)..(n - read)
                                     /\ j \in Unread
    BY <1>1, <1>5
  <2>3. \A j \in (read + i + 1)..n : ~Touches(unacked[j], k)
    BY <2>2, <1>7, <1>9
  <2>4. Tells(unacked[read + i], k)
    BY <2>1, <2>3, <1>9 DEF Arrives, n
  <2> QED  BY <2>1, <2>4, <1>2 DEF Tells
<1> QED  BY <1>4, <1>8, <1>9 DEF Arrives


-----------------------------------------------------------------------------
(* The steps. *)

LEMMA StagesStep ==
  ASSUME Stages, [Next]_vars
  PROVE  Stages'
<1> USE DEF Stages
<1>0. ASSUME UNCHANGED <<phase, flight, snap, opening, link>> PROVE Stages'
  BY <1>0, Zenon
<1>1. ASSUME NEW k \in Key, SetState(k) \/ DeleteState(k) PROVE Stages'
  BY <1>0, <1>1, Zenon DEF SetState, DeleteState, cloud
<1>2. CASE PopDriver \/ ClearKeys \/ AddDevice
  BY <1>0, <1>2, Zenon DEF PopDriver, ClearKeys, AddDevice, relay, cloud
<1>3. ASSUME NEW t \in Tier, Flush(t) \/ FlushNext(t) PROVE Stages'
  <2>1. /\ phase = "running" /\ UNCHANGED <<phase, snap, opening, link>>
    BY <1>3, Zenon DEF Flush, FlushNext
  <2>2. "running" # "snapshot" /\ "running" # "failed"
    OBVIOUS
  <2> QED  BY <2>1, <2>2, Zenon
<1>4. CASE SendSnapshot
  BY <1>4 DEF SendSnapshot, Rest
<1>5. CASE SnapshotSent
  BY <1>5 DEF SnapshotSent, cloud
<1>6. ASSUME NEW forwarding \in BOOLEAN, Connect(forwarding) PROVE Stages'
  BY <1>6 DEF Connect, Start
<1>7. CASE SwitchOn \/ SwitchOff
  BY <1>7 DEF SwitchOn, SwitchOff, Start, cloud
<1>8. CASE LinkLost \/ Teardown
  BY <1>8 DEF LinkLost, Teardown, relay, cloud
<1>9. CASE Throttle \/ Unthrottle
  BY <1>9 DEF Throttle, Unthrottle, relay, cloud
<1>10. CASE CloudReads \/ CloudAcks
  BY <1>10 DEF CloudReads, CloudAcks, relay
<1>11. CASE UNCHANGED vars
  BY <1>11 DEF vars, relay, cloud
<1> QED
  BY <1>1, <1>2, <1>3, <1>4, <1>5, <1>6, <1>7, <1>8, <1>9, <1>10, <1>11
  DEF Next

(* A deleted key is evicted, start() empties the cache, and no other step  *)
(* touches it.                                                             *)
LEMMA CacheStep ==
  ASSUME TypeOK, CacheOfLiveKeys, [Next]_vars
  PROVE  CacheOfLiveKeys'
<1>1. ASSUME NEW K \in SUBSET Key, NEW gone \in BOOLEAN, Changed(K, gone),
             UNCHANGED phase
      PROVE  CacheOfLiveKeys'
  <2> SUFFICES ASSUME Subscribed, NEW k \in Key, cache'[k] # None
               PROVE  ~store'[k].gone
    BY <1>1 DEF CacheOfLiveKeys, Subscribed
  <2>1. cache' = Cached(K, store')
    BY <1>1 DEF Changed, Notified
  <2>2. CASE k \in K
    BY <2>1, <2>2 DEF Cached
  <2>3. CASE k \notin K
    BY <1>1, <2>1, <2>3 DEF Cached, Changed, CacheOfLiveKeys
  <2> QED  BY <2>2, <2>3
<1>2. ASSUME NEW k \in Key, SetState(k) \/ DeleteState(k)
      PROVE  CacheOfLiveKeys'
  BY <1>1, <1>2 DEF SetState, DeleteState
<1>3. CASE ClearKeys \/ AddDevice
  <2>1. (\E K \in SUBSET Key, gone \in BOOLEAN : Changed(K, gone))
        /\ UNCHANGED phase
    BY <1>3, RelayAssumption DEF ClearKeys, AddDevice
  <2> QED  BY <1>1, <2>1
<1>4. ASSUME UNCHANGED <<store, cache>>, Subscribed' => Subscribed
      PROVE  CacheOfLiveKeys'
  BY <1>4 DEF CacheOfLiveKeys
<1>5. ASSUME Start PROVE CacheOfLiveKeys'
  BY <1>5 DEF Start, CacheOfLiveKeys
<1>6. CASE PopDriver
  BY <1>4, <1>6 DEF PopDriver, relay, Subscribed
<1>7. ASSUME NEW t \in Tier, Flush(t) \/ FlushNext(t) PROVE CacheOfLiveKeys'
  BY <1>4, <1>7 DEF Flush, FlushNext, room, Subscribed
<1>8. CASE SendSnapshot \/ SnapshotSent
  BY <1>4, <1>8 DEF SendSnapshot, SnapshotSent, room, Subscribed
<1>9. ASSUME NEW forwarding \in BOOLEAN, Connect(forwarding)
      PROVE  CacheOfLiveKeys'
  BY <1>5, <1>9 DEF Connect, CacheOfLiveKeys, Subscribed
<1>10. CASE SwitchOn
  BY <1>5, <1>10 DEF SwitchOn
<1>11. CASE SwitchOff \/ LinkLost \/ Teardown
  BY <1>4, <1>11 DEF SwitchOff, LinkLost, Teardown, room, relay, Subscribed
<1>12. CASE Throttle \/ Unthrottle \/ CloudReads \/ CloudAcks
  BY <1>4, <1>12
  DEF Throttle, Unthrottle, CloudReads, CloudAcks, room, relay, Subscribed
<1>13. CASE UNCHANGED vars
  BY <1>4, <1>13 DEF vars, room, relay, Subscribed
<1> QED
  BY <1>2, <1>3, <1>6, <1>7, <1>8, <1>9, <1>10, <1>11, <1>12, <1>13 DEF Next

(* A change puts the value of its keys into their batch. *)
LEMMA ChangeTracked ==
  ASSUME TypeOK, NEW k \in Key, Tracked(k),
         NEW K \in SUBSET Key, NEW gone \in BOOLEAN, Changed(K, gone),
         UNCHANGED <<phase, flight, snap, opening, cloud, lost>>
  PROVE  Tracked(k)'
<1> SUFFICES ASSUME Subscribed, k \notin retiered'
             PROVE  /\ Newest(k)'
                    /\ (link /\ k \notin lost /\ ~Pending(k) => Arrives(k))'
  BY DEF Tracked, Subscribed
<1>1. /\ \A t \in Tier : batches'[t][k] =
            IF k \in K /\ TierOf(k) = t THEN store'[k] ELSE batches[t][k]
      /\ retiered' = retiered \cup Crossing(K)
  BY DEF Changed, Notified
<1>2. Newest(k) /\ (link /\ k \notin lost /\ ~Pending(k) => Arrives(k))
  BY <1>1 DEF Tracked
<1>3. CASE k \in K
  <2>1. TierOf(k) \in Tier
    BY TierOfTyped
  <2>2. store'[k] \in Value
    BY ChangedTyped
  <2>3. batches'[TierOf(k)][k] = store'[k] /\ store'[k] # None
    BY <1>1, <1>3, <2>1, <2>2, ValueIsNotNone
  <2>4. \A t \in Tier \ {TierOf(k)} : /\ batches'[t][k] = None
                                      /\ flight'[t][k] = None
    BY <1>1, <1>3 DEF Crossing
  <2>5. Newest(k)'
    BY <2>1, <2>3, <2>4 DEF Newest, InTier, Batched
  <2>6. Pending(k)'
    BY <2>1, <2>3 DEF Pending
  <2> QED  BY <2>5, <2>6
<1>4. CASE k \notin K
  <2>1. /\ store'[k] = store[k]
        /\ \A t \in Tier : /\ batches'[t][k] = batches[t][k]
                           /\ flight'[t][k] = flight[t][k]
    BY <1>1, <1>4 DEF Changed
  <2>2. Newest(k)'
    BY <1>2, <2>1 DEF Newest, InTier, Batched
  <2>3. Pending(k)' = Pending(k)
    BY <2>1 DEF Pending
  <2>4. Arrives(k) => Arrives(k)'
    BY <2>1 DEF Arrives, Unread, Touches, Tells, Agrees, cloud
  <2> QED  BY <1>2, <2>2, <2>3, <2>4 DEF cloud
<1> QED  BY <1>3, <1>4

(* start() takes the values into the snapshot. *)
LEMMA StartTracked ==
  ASSUME TypeOK, Stages, NEW k \in Key, Start, phase # "running",
         UNCHANGED <<store, flight>>
  PROVE  Tracked(k)'
<1>1. \A t \in Tier : batches'[t][k] = None /\ flight'[t][k] = None
  BY DEF Start, Stages, NoTiers, Nothing
<1>2. opening' /\ snap'[k] = IF store'[k].gone THEN None ELSE store'[k]
  BY DEF Start
<1>3. Newest(k)'
  <2>1. snap'[k] \in {None, store'[k]} /\ (snap'[k] = None => store'[k].gone)
    <3>1. store'[k] \in Value
      BY DEF TypeOK
    <3> QED  BY <1>2, <3>1, ValueIsNotNone
  <2> QED  BY <1>1, <2>1 DEF Newest, InTier, Batched
<1>4. Pending(k)'
  BY <1>2 DEF Pending
<1> QED  BY <1>3, <1>4 DEF Tracked


(* A flush sends the batch, which is the newest, and what it has still to  *)
(* send is the newest until the next change.                               *)
LEMMA FlushTracked ==
  ASSUME TypeOK, Stages, NEW k \in Key, Tracked(k), NEW t \in Tier, Flush(t)
  PROVE  Tracked(k)'
<1> SUFFICES ASSUME k \notin retiered
             PROVE  /\ Newest(k)'
                    /\ (link /\ k \notin lost /\ ~Pending(k) => Arrives(k))'
  BY DEF Tracked, Flush
<1>1. /\ phase = "running" /\ flight[t] = Nothing
      /\ snap[k] = None /\ ~opening
      /\ UNCHANGED <<store, link, read, mirror, snap, opening>>
      /\ batches' = [batches EXCEPT ![t] = Nothing]
  BY DEF Flush, Stages, room, Nothing
<1>2. Newest(k) /\ (link /\ k \notin lost /\ ~Pending(k) => Arrives(k))
  BY <1>1 DEF Tracked, Subscribed
<1>3. PICK S : /\ SendMessage(FALSE, Only(S, batches[t]))
               /\ flight' = [flight EXCEPT ![t] = Rest(S, batches[t])]
  BY DEF Flush
<1> DEFINE e == Only(S, batches[t])
<1>4. e \in Entries /\ e[k] = (IF k \in S THEN batches[t][k] ELSE None)
  BY OnlyTyped DEF TypeOK, Only
<1>5. \A u \in Tier : batches'[u][k] = IF u = t THEN None ELSE batches[u][k]
  BY <1>1 DEF TypeOK, Nothing
<1>6. \A u \in Tier : u # t => flight'[u][k] = flight[u][k]
  BY <1>3 DEF TypeOK
<1>7. /\ flight'[t][k] \in {None, batches[t][k]}
      /\ link => flight'[t][k] = IF k \in S THEN None ELSE batches[t][k]
  BY <1>3 DEF TypeOK, Rest, Without, Nothing
<1>8. flight[t][k] = None
  BY <1>1 DEF Nothing
<1>9. Newest(k)'
  <2>1. \A u \in Tier : InTier(u, k)' => InTier(u, k)
    BY <1>5, <1>6, <1>7 DEF InTier
  <2>2. \A u \in Tier : batches'[u][k] \in {None, store'[k]}
    BY <1>1, <1>2, <1>5 DEF Newest
  <2>3. ~Batched(k)' => \A u \in Tier : flight'[u][k] \in {None, store'[k]}
    <3>1. CASE batches[t][k] = None
      <4>1. ~Batched(k)' => ~Batched(k)
        BY <3>1, <1>5 DEF Batched
      <4>2. flight'[t][k] = None
        BY <3>1, <1>7
      <4> QED  BY <4>1, <4>2, <1>1, <1>2, <1>6 DEF Newest
    <3>2. CASE batches[t][k] # None
      BY <3>2, <1>1, <1>2, <1>6, <1>7 DEF Newest, InTier
    <3> QED  BY <3>1, <3>2
  <2>4. \A u, v \in Tier : InTier(u, k)' /\ InTier(v, k)' => u = v
    BY <1>2, <2>1 DEF Newest
  <2>5. snap'[k] = None /\ ~opening'
    BY <1>1, Zenon
  <2> QED  BY <2>2, <2>3, <2>4, <2>5 DEF Newest
<1>10. ASSUME link, k \notin lost', ~Pending(k)' PROVE Arrives(k)'
  <2>1. e[k] # None => e[k] = store[k]
    BY <1>2, <1>4 DEF Newest
  <2>2. e[k] = None => ~Pending(k)
    <3> SUFFICES ASSUME e[k] = None PROVE ~Pending(k)
      OBVIOUS
    <3>1. batches[t][k] = None
      BY <1>4, <1>7, <1>10 DEF Pending
    <3>2. \A u \in Tier : batches[u][k] = None /\ flight[u][k] = None
      BY <3>1, <1>5, <1>6, <1>8, <1>10 DEF Pending
    <3> QED  BY <3>2, <1>1 DEF Pending
  <2>3. FALSE \/ e[k] # None =>
            e[k] = store[k] \/ (e[k] = None /\ store[k].gone)
    BY <2>1
  <2>4. ~FALSE /\ e[k] = None /\ k \notin lost => Arrives(k)
    BY <1>2, <1>10, <2>2
  <2>5. FALSE \in BOOLEAN /\ SendMessage(FALSE, e)
    BY <1>3
  <2> HIDE DEF e
  <2> QED  BY <1>1, <1>4, <1>10, <2>3, <2>4, <2>5, SendArrives
<1> QED  BY <1>1, <1>9, <1>10

LEMMA FlushNextTracked ==
  ASSUME TypeOK, Stages, NEW k \in Key, Tracked(k), NEW t \in Tier,
         FlushNext(t)
  PROVE  Tracked(k)'
<1> SUFFICES ASSUME k \notin retiered
             PROVE  /\ Newest(k)'
                    /\ (link /\ k \notin lost /\ ~Pending(k) => Arrives(k))'
  BY DEF Tracked, FlushNext
<1>1. /\ phase = "running" /\ snap[k] = None /\ ~opening
      /\ UNCHANGED <<store, link, read, mirror, snap, opening, batches>>
  BY DEF FlushNext, Stages, room, Nothing
<1>2. Newest(k) /\ (link /\ k \notin lost /\ ~Pending(k) => Arrives(k))
  BY <1>1 DEF Tracked, Subscribed
<1>3. PICK S : /\ SendMessage(FALSE, Only(S, flight[t]))
               /\ flight' = [flight EXCEPT ![t] = Rest(S, flight[t])]
  BY DEF FlushNext
<1> DEFINE e == Only(S, flight[t])
<1>4. e \in Entries /\ e[k] = (IF k \in S THEN flight[t][k] ELSE None)
  BY OnlyTyped DEF TypeOK, Only
<1>5. \A u \in Tier : u # t => flight'[u][k] = flight[u][k]
  BY <1>3 DEF TypeOK
<1>6. /\ flight'[t][k] \in {None, flight[t][k]}
      /\ link => flight'[t][k] = IF k \in S THEN None ELSE flight[t][k]
  BY <1>3 DEF TypeOK, Rest, Without, Nothing
<1>7. Newest(k)'
  <2>1. \A u \in Tier : InTier(u, k)' => InTier(u, k)
    BY <1>1, <1>5, <1>6 DEF InTier
  <2>2. \A u, v \in Tier : InTier(u, k)' /\ InTier(v, k)' => u = v
    BY <1>2, <2>1 DEF Newest
  <2>3. ~Batched(k) => \A u \in Tier : flight'[u][k] \in {None, store[k]}
    BY <1>2, <1>5, <1>6 DEF Newest
  <2>4. snap'[k] = None /\ ~opening'
    BY <1>1, Zenon
  <2>5. /\ Batched(k)' = Batched(k) /\ store' = store
        /\ \A u \in Tier : batches'[u][k] \in {None, store[k]}
    BY <1>1, <1>2 DEF Batched, Newest
  <2> QED  BY <2>2, <2>3, <2>4, <2>5 DEF Newest
<1>8. ASSUME link, k \notin lost', ~Pending(k)' PROVE Arrives(k)'
  <2>1. e[k] # None => e[k] = store[k]
    BY <1>1, <1>2, <1>4, <1>8 DEF Newest, Pending, Batched
  <2>2. e[k] = None => ~Pending(k)
    <3> SUFFICES ASSUME e[k] = None PROVE ~Pending(k)
      OBVIOUS
    <3>1. flight[t][k] = None
      BY <1>4, <1>6, <1>8 DEF Pending
    <3>2. \A u \in Tier : batches[u][k] = None /\ flight[u][k] = None
      BY <3>1, <1>1, <1>5, <1>8 DEF Pending
    <3> QED  BY <3>2, <1>1 DEF Pending
  <2>3. FALSE \/ e[k] # None =>
            e[k] = store[k] \/ (e[k] = None /\ store[k].gone)
    BY <2>1
  <2>4. ~FALSE /\ e[k] = None /\ k \notin lost => Arrives(k)
    BY <1>2, <1>8, <2>2
  <2>5. FALSE \in BOOLEAN /\ SendMessage(FALSE, e)
    BY <1>3
  <2> HIDE DEF e
  <2> QED  BY <1>1, <1>4, <1>8, <2>3, <2>4, <2>5, SendArrives
<1> QED  BY <1>1, <1>7, <1>8

(* The first chunk of the snapshot says of every key that is not in it     *)
(* that it is gone.                                                        *)
LEMMA SendSnapshotTracked ==
  ASSUME TypeOK, Stages, NEW k \in Key, Tracked(k), SendSnapshot
  PROVE  Tracked(k)'
<1> SUFFICES ASSUME k \notin retiered
             PROVE  /\ Newest(k)'
                    /\ (link /\ k \notin lost /\ ~Pending(k) => Arrives(k))'
  BY DEF Tracked, SendSnapshot
<1>1. /\ phase = "snapshot" /\ flight = NoTiers /\ opening' = FALSE
      /\ UNCHANGED <<store, link, read, mirror, batches, flight>>
  BY DEF SendSnapshot, Stages, room
<1>2. Newest(k) /\ (link /\ k \notin lost /\ ~Pending(k) => Arrives(k))
  BY <1>1 DEF Tracked, Subscribed
<1>3. PICK S : SendMessage(opening, Only(S, snap)) /\ snap' = Rest(S, snap)
  BY DEF SendSnapshot
<1> DEFINE e == Only(S, snap)
<1>4. e \in Entries /\ e[k] = (IF k \in S THEN snap[k] ELSE None)
  BY OnlyTyped DEF TypeOK, Only
<1>5. /\ snap'[k] \in {None, snap[k]}
      /\ link => snap'[k] = IF k \in S THEN None ELSE snap[k]
  BY <1>3 DEF Rest, Without, Nothing
<1>6. Newest(k)'
  <2>1. ~Batched(k) => snap'[k] \in {None, store[k]}
    BY <1>2, <1>5 DEF Newest
  <2>2. \A u \in Tier : InTier(u, k)' <=> InTier(u, k)
    BY <1>1 DEF InTier
  <2>3. Batched(k)' = Batched(k)
    BY <1>1 DEF Batched
  <2> QED  BY <1>1, <1>2, <2>1, <2>2, <2>3 DEF Newest
<1>7. ASSUME link, k \notin lost', ~Pending(k)' PROVE Arrives(k)'
  <2>1. ~Batched(k)
    BY <1>1, <1>7 DEF Pending, Batched
  <2>2. e[k] # None => e[k] = store[k]
    BY <1>2, <1>4, <2>1 DEF Newest
  <2>3. e[k] = None => snap[k] = None
    BY <1>4, <1>5, <1>7 DEF Pending
  <2>4. opening /\ e[k] = None => store[k].gone
    BY <1>2, <2>1, <2>3 DEF Newest
  <2>5. ~opening /\ e[k] = None => ~Pending(k)
    <3> SUFFICES ASSUME ~opening, e[k] = None PROVE ~Pending(k)
      OBVIOUS
    <3>1. \A u \in Tier : batches[u][k] = None /\ flight[u][k] = None
      BY <1>1, <1>7 DEF Pending
    <3> QED  BY <3>1, <2>3 DEF Pending
  <2>6. opening \/ e[k] # None =>
            e[k] = store[k] \/ (e[k] = None /\ store[k].gone)
    BY <2>2, <2>4
  <2>7. ~opening /\ e[k] = None /\ k \notin lost => Arrives(k)
    BY <1>2, <1>7, <2>5
  <2>8. opening \in BOOLEAN /\ SendMessage(opening, e)
    BY <1>3 DEF TypeOK
  <2> HIDE DEF e
  <2> QED  BY <1>1, <1>4, <1>7, <2>6, <2>7, <2>8, SendArrives
<1> QED  BY <1>1, <1>6, <1>7


(* What leaves the key's entries alone leaves Newest alone. *)
LEMMA NewestKept ==
  ASSUME NEW k \in Key, Newest(k),
         UNCHANGED <<store, batches, flight, snap, opening>>
  PROVE  Newest(k)' /\ Pending(k)' = Pending(k)
  BY DEF Newest, InTier, Batched, Pending

LEMMA OthersTracked ==
  ASSUME TypeOK, NEW k \in Key, Tracked(k),
         \/ PopDriver \/ SnapshotSent \/ SwitchOff \/ LinkLost \/ Teardown
         \/ Throttle \/ Unthrottle \/ CloudReads \/ CloudAcks
         \/ UNCHANGED vars
  PROVE  Tracked(k)'
<1>1. CASE SwitchOff \/ Teardown
  BY <1>1 DEF SwitchOff, Teardown, Tracked, Subscribed
<1>2. CASE LinkLost
  <2>1. ~link' /\ UNCHANGED <<store, batches, flight, snap, opening, phase,
                               retiered>>
    BY <1>2, Zenon DEF LinkLost, room, relay, marks
  <2> QED  BY <2>1, NewestKept DEF Tracked, Subscribed
<1>3. ASSUME UNCHANGED <<store, batches, flight, snap, opening, link,
                         lost, retiered>>,
             Subscribed' => Subscribed, Arrives(k) => Arrives(k)'
      PROVE  Tracked(k)'
  BY <1>3, NewestKept DEF Tracked
<1>4. ASSUME UNCHANGED <<unacked, read, mirror, store>>
      PROVE  Arrives(k) => Arrives(k)'
  BY <1>4 DEF Arrives, Unread, Touches, Tells, Agrees
<1>5. CASE PopDriver \/ Throttle \/ Unthrottle \/ UNCHANGED vars
  <2>1. UNCHANGED <<store, relay, cloud, marks>>
    BY <1>5 DEF PopDriver, Throttle, Unthrottle, vars, room
  <2> QED  BY <2>1, <1>3, <1>4 DEF relay, cloud, marks, Subscribed
<1>6. CASE SnapshotSent
  <2>1. UNCHANGED <<store, batches, flight, snap, opening, cloud, marks>>
        /\ Subscribed
    BY <1>6 DEF SnapshotSent, room, Subscribed
  <2> QED  BY <2>1, <1>3, <1>4 DEF cloud, marks
<1>7. CASE CloudReads
  <2>1. UNCHANGED <<store, relay, link, lost, retiered>>
    BY <1>7 DEF CloudReads, room
  <2> QED  BY <2>1, <1>3, <1>7, ReadArrives DEF relay, Subscribed
<1>8. CASE CloudAcks
  <2>1. UNCHANGED <<store, relay, link, marks>>
    BY <1>8 DEF CloudAcks, room
  <2> QED  BY <2>1, <1>3, <1>8, AckArrives DEF relay, marks, Subscribed
<1> QED  BY <1>1, <1>2, <1>5, <1>6, <1>7, <1>8

LEMMA TrackedStep ==
  ASSUME TypeOK, Stages, NEW k \in Key, Tracked(k), [Next]_vars
  PROVE  Tracked(k)'
<1>1. ASSUME NEW l \in Key, SetState(l) \/ DeleteState(l) PROVE Tracked(k)'
  <2>1. \E K \in SUBSET Key, gone \in BOOLEAN :
            /\ Changed(K, gone)
            /\ UNCHANGED <<phase, flight, snap, opening, cloud, lost>>
    BY <1>1 DEF SetState, DeleteState
  <2> QED  BY <2>1, ChangeTracked
<1>2. CASE ClearKeys \/ AddDevice
  <2>1. \E K \in SUBSET Key, gone \in BOOLEAN :
            /\ Changed(K, gone)
            /\ UNCHANGED <<phase, flight, snap, opening, cloud, lost>>
    BY <1>2, RelayAssumption DEF ClearKeys, AddDevice
  <2> QED  BY <2>1, ChangeTracked
<1>3. ASSUME NEW t \in Tier, Flush(t) \/ FlushNext(t) PROVE Tracked(k)'
  BY <1>3, FlushTracked, FlushNextTracked
<1>4. CASE SendSnapshot
  BY <1>4, SendSnapshotTracked
<1>5. ASSUME NEW forwarding \in BOOLEAN, Connect(forwarding)
      PROVE  Tracked(k)'
  <2>1. CASE forwarding
    BY <1>5, <2>1, StartTracked DEF Connect, room
  <2>2. CASE ~forwarding
    BY <1>5, <2>2 DEF Connect, Tracked, Subscribed
  <2> QED  BY <2>1, <2>2
<1>6. CASE SwitchOn
  BY <1>6, StartTracked DEF SwitchOn, room
<1>7. CASE \/ PopDriver \/ SnapshotSent \/ SwitchOff \/ LinkLost \/ Teardown
           \/ Throttle \/ Unthrottle \/ CloudReads \/ CloudAcks
           \/ UNCHANGED vars
  BY <1>7, OthersTracked
<1> QED  BY <1>1, <1>2, <1>3, <1>4, <1>5, <1>6, <1>7 DEF Next

-----------------------------------------------------------------------------
(* The order of the values of a key: the cloud's, those sent, those on the *)
(* way to be sent, and the room's.                                         *)

(* Messages sent since the last start(). *)
Fresh == (read + old + 1)..Len(unacked)

Below(v, w) == v # None /\ w # None => v.n <= w.n

(* Nothing the cloud has or was sent of the key is newer than v. *)
Tops(v, k) ==
    /\ Below(mirror[k], v)
    /\ \A i \in 1..Len(unacked) : Below(unacked[i].entries[k], v)

Waiting(k) == {snap[k]} \cup {batches[t][k] : t \in Tier}
                       \cup {flight[t][k] : t \in Tier}

(* A message sent since start() is no older than any before it. *)
Ordered(k) ==
    \A j \in Fresh :
        /\ Below(mirror[k], unacked[j].entries[k])
        /\ \A i \in 1..Len(unacked) :
              i < j => Below(unacked[i].entries[k], unacked[j].entries[k])

(* The room has the newest; of a key that keeps its tier, messages are in  *)
(* order and what waits to be sent comes after them.                       *)
InLine(k) ==
    /\ Tops(store[k], k)
    /\ Subscribed => \A v \in Waiting(k) : Below(v, store[k])
    /\ k \notin retiered =>
          Ordered(k) /\ (Subscribed => \A v \in Waiting(k) : Tops(v, k))

LEMMA EntryTyped ==
  ASSUME TypeOK, NEW k \in Key
  PROVE  /\ mirror[k] \in Value \cup {None} /\ store[k] \in Value
         /\ Waiting(k) \subseteq Value \cup {None}
         /\ \A i \in 1..Len(unacked) : unacked[i].entries[k] \in Value \cup {None}
<1>1. \A i \in 1..Len(unacked) : unacked[i] \in Message
  BY ElementOfSeq DEF TypeOK
<1>2. \A i \in 1..Len(unacked) : unacked[i].entries[k] \in Value \cup {None}
  BY <1>1 DEF Message, Entries
<1>3. mirror[k] \in Value \cup {None} /\ store[k] \in Value
  BY DEF TypeOK, Entries
<1>4. Waiting(k) \subseteq Value \cup {None}
  BY DEF TypeOK, Entries, Waiting
<1> QED  BY <1>2, <1>3, <1>4

LEMMA BelowTransitive ==
  ASSUME NEW u \in Value \cup {None}, NEW v \in Value, NEW w \in Value \cup {None},
         Below(u, v), Below(v, w)
  PROVE  Below(u, w)
  BY ValueIsNotNone DEF Below, Value

(* A newer value tops what an older one does. *)
LEMMA TopsRise ==
  ASSUME TypeOK, NEW k \in Key, NEW v \in Value, NEW w \in Value \cup {None},
         Tops(v, k), Below(v, w)
  PROVE  Tops(w, k)
<1>1. Below(mirror[k], w)
  BY EntryTyped, BelowTransitive DEF Tops
<1>2. \A i \in 1..Len(unacked) : Below(unacked[i].entries[k], w)
  BY EntryTyped, BelowTransitive DEF Tops
<1> QED  BY <1>1, <1>2 DEF Tops

(* A message whose value tops what there is keeps the order. *)
LEMMA SendOrdered ==
  ASSUME TypeOK, NEW k \in Key, NEW opens \in BOOLEAN, NEW e \in Entries,
         SendMessage(opens, e), UNCHANGED <<read, mirror, old>>
  PROVE  /\ Ordered(k) /\ Tops(e[k], k) => Ordered(k)'
         /\ \A v : Tops(v, k) /\ Below(e[k], v) => Tops(v, k)'
<1>1. CASE throttled
  <2>1. UNCHANGED unacked
    BY <1>1 DEF SendMessage
  <2> QED  BY <2>1 DEF Ordered, Tops, Fresh
<1>2. CASE ~throttled
  <2> DEFINE m == [opens |-> opens, entries |-> e]
             n == Len(unacked)
  <2>1. unacked' = Append(unacked, m) /\ m \in Message /\ m.entries = e
    BY <1>2 DEF SendMessage, Message
  <2>2. n \in Nat /\ read \in Nat /\ old \in Nat
    BY LenTyped DEF TypeOK
  <2> HIDE DEF m
  <2>3. /\ Len(unacked') = n + 1 /\ unacked'[n + 1] = m
        /\ \A i \in 1..n : unacked'[i] = unacked[i]
    BY <2>1, AppendProperties DEF TypeOK
  <2> HIDE DEF n
  <2>4. \A i \in 1..(n + 1) : i \in 1..n \/ i = n + 1
    BY <2>2
  <2>5. ASSUME NEW v, Tops(v, k), Below(e[k], v) PROVE Tops(v, k)'
    BY <2>1, <2>3, <2>4, <2>5 DEF Tops, n
  <2>6. ASSUME Ordered(k), Tops(e[k], k) PROVE Ordered(k)'
    <3> SUFFICES ASSUME NEW j \in Fresh'
                 PROVE  /\ Below(mirror[k], unacked'[j].entries[k])
                        /\ \A i \in 1..(n + 1) : i < j =>
                              Below(unacked'[i].entries[k], unacked'[j].entries[k])
      BY <2>3 DEF Ordered
    <3>1. j \in (read + old + 1)..(n + 1)
      BY <2>3 DEF Fresh
    <3>2. CASE j = n + 1
      <4>1. unacked'[j].entries = e
        BY <2>1, <2>3, <3>2
      <4>2. \A i \in 1..(n + 1) : i < j => i \in 1..n
        BY <2>2, <3>2
      <4> QED  BY <4>1, <4>2, <2>3, <2>6 DEF Tops, n
    <3>3. CASE j # n + 1
      <4>1. j \in Fresh /\ j \in 1..n
        BY <2>2, <3>1, <3>3 DEF Fresh, n
      <4>2. \A i \in 1..(n + 1) : i < j => i \in 1..n
        BY <2>2, <4>1
      <4> QED  BY <4>1, <4>2, <2>3, <2>6 DEF Ordered, n
    <3> QED  BY <3>2, <3>3
  <2> QED  BY <2>5, <2>6
<1> QED  BY <1>1, <1>2

(* So does reading one ... *)
LEMMA ReadOrdered ==
  ASSUME TypeOK, NEW k \in Key, CloudReads
  PROVE  /\ Ordered(k) => Ordered(k)'
         /\ \A v : Tops(v, k) => Tops(v, k)'
<1> DEFINE m == unacked[read + 1]
<1>1. /\ Len(unacked) \in Nat /\ read \in Nat /\ read < Len(unacked)
      /\ old \in Nat
  BY LenTyped DEF CloudReads, TypeOK
<1>2. read + 1 \in 1..Len(unacked)
  BY <1>1
<1>3. /\ UNCHANGED unacked /\ read' = read + 1
      /\ old' = IF old > 0 THEN old - 1 ELSE 0
      /\ mirror'[k] \in {m.entries[k], None, mirror[k]}
  BY DEF CloudReads
<1>4. ASSUME NEW v, Tops(v, k) PROVE Tops(v, k)'
  BY <1>2, <1>3, <1>4 DEF Tops, Below
<1>5. ASSUME Ordered(k) PROVE Ordered(k)'
  <2> SUFFICES ASSUME NEW j \in Fresh'
               PROVE  /\ Below(mirror'[k], unacked[j].entries[k])
                      /\ \A i \in 1..Len(unacked) : i < j =>
                            Below(unacked[i].entries[k], unacked[j].entries[k])
    BY <1>3 DEF Ordered
  <2>1. j \in Fresh /\ read + 1 < j
    BY <1>1, <1>3 DEF Fresh
  <2>2. /\ Below(mirror[k], unacked[j].entries[k])
        /\ \A i \in 1..Len(unacked) : i < j =>
              Below(unacked[i].entries[k], unacked[j].entries[k])
    BY <1>5, <2>1 DEF Ordered
  <2>3. Below(m.entries[k], unacked[j].entries[k])
    BY <1>2, <2>1, <2>2
  <2>4. Below(None, unacked[j].entries[k])
    BY DEF Below
  <2> QED  BY <1>3, <2>2, <2>3, <2>4
<1> QED  BY <1>4, <1>5

(* What is left of a queue is a stretch of it. *)
LEMMA StretchOf ==
  ASSUME NEW s \in Seq(Message), NEW i \in 1..(Len(s) + 1), NEW j \in 0..Len(s)
  PROVE  /\ Len(SubSeq(s, i, j)) = IF i <= j THEN j - i + 1 ELSE 0
         /\ \A x \in 1..Len(SubSeq(s, i, j)) :
               i + x - 1 \in 1..Len(s) /\ SubSeq(s, i, j)[x] = s[i + x - 1]
<1>1. Len(s) \in Nat /\ i \in Int /\ j \in Int
  BY LenProperties
<1>2. \A n \in i..j : n \in 1..Len(s)
  BY <1>1
<1>3. \A n \in i..j : s[n] \in Message
  BY <1>2, ElementOfSeq
<1> DEFINE t == SubSeq(s, i, j)
<1>4. /\ Len(t) = IF i <= j THEN j - i + 1 ELSE 0
      /\ \A x \in 1..(j - i + 1) : t[x] = s[i + x - 1]
  BY <1>1, <1>3, SubSeqProperties
<1> HIDE DEF t
<1>5. \A x \in 1..Len(t) : x \in 1..(j - i + 1) /\ i + x - 1 \in 1..Len(s)
  BY <1>1, <1>4
<1> QED  BY <1>4, <1>5 DEF t

(* ... and forgetting what was acknowledged ... *)
LEMMA AckOrdered ==
  ASSUME TypeOK, NEW k \in Key, CloudAcks
  PROVE  /\ Ordered(k) => Ordered(k)'
         /\ \A v : Tops(v, k) => Tops(v, k)'
<1> DEFINE n == Len(unacked)
<1>1. n \in Nat /\ read \in 0..n /\ old \in Nat /\ unacked \in Seq(Message)
  BY LenTyped DEF TypeOK
<1>2. /\ UNCHANGED <<mirror, old>> /\ read' = 0
      /\ unacked' = SubSeq(unacked, read + 1, n)
  BY DEF CloudAcks, marks
<1>3. read + 1 \in 1..(n + 1) /\ n \in 0..n
  BY <1>1
<1>4. /\ Len(unacked') = IF read + 1 <= n THEN n - (read + 1) + 1 ELSE 0
      /\ \A x \in 1..Len(unacked') :
            read + 1 + x - 1 \in 1..n /\ unacked'[x] = unacked[read + 1 + x - 1]
  BY <1>1, <1>2, <1>3, StretchOf
<1> HIDE DEF n
<1>5. Len(unacked') = n - read
  BY <1>1, <1>4
<1>6. \A x \in 1..Len(unacked') :
         read + x \in 1..n /\ unacked'[x] = unacked[read + x]
  BY <1>1, <1>4, <1>5
<1>7. ASSUME NEW v, Tops(v, k) PROVE Tops(v, k)'
  BY <1>2, <1>6, <1>7 DEF Tops, n
<1>8. ASSUME Ordered(k) PROVE Ordered(k)'
  <2> SUFFICES ASSUME NEW j \in Fresh'
               PROVE  /\ Below(mirror[k], unacked'[j].entries[k])
                      /\ \A i \in 1..Len(unacked') : i < j =>
                            Below(unacked'[i].entries[k], unacked'[j].entries[k])
    BY <1>2 DEF Ordered
  <2>1. j \in 1..Len(unacked') /\ read + j \in (read + old + 1)..n
    BY <1>1, <1>2, <1>5 DEF Fresh
  <2>2. read + j \in Fresh /\ unacked'[j] = unacked[read + j]
    BY <2>1, <1>6 DEF Fresh, n
  <2>3. \A i \in 1..Len(unacked') : i < j =>
           read + i \in 1..n /\ read + i < read + j /\ unacked'[i] = unacked[read + i]
    BY <2>1, <1>1, <1>5, <1>6
  <2> QED  BY <2>2, <2>3, <1>8 DEF Ordered, n
<1> QED  BY <1>7, <1>8

(* ... and a replay, of which nothing is new. *)
LEMMA ConnectOrdered ==
  ASSUME TypeOK, NEW k \in Key, NEW forwarding \in BOOLEAN, Connect(forwarding)
  PROVE  /\ Ordered(k)'
         /\ \A v : Tops(v, k) => Tops(v, k)'
<1>1. PICK i \in 1..(Len(unacked) + 1), j \in 0..Len(unacked) :
         unacked' = SubSeq(unacked, i, j) /\ old' = Len(unacked')
  BY DEF Connect
<1>2. read' = 0 /\ UNCHANGED mirror
  BY DEF Connect
<1>3. \A x \in 1..Len(unacked') :
         i + x - 1 \in 1..Len(unacked) /\ unacked'[x] = unacked[i + x - 1]
  BY <1>1, StretchOf DEF TypeOK
<1>4. ASSUME NEW v, Tops(v, k) PROVE Tops(v, k)'
  BY <1>2, <1>3, <1>4 DEF Tops
<1>5. Fresh' = {}
  <2>1. Len(unacked') \in Nat
    BY <1>1, PartTyped DEF TypeOK
  <2> QED  BY <2>1, <1>1, <1>2 DEF Fresh
<1> QED  BY <1>4, <1>5 DEF Ordered

-----------------------------------------------------------------------------
(* A change is newer than all there is. *)
LEMMA ChangeInLine ==
  ASSUME TypeOK, NEW k \in Key, InLine(k),
         NEW K \in SUBSET Key, NEW gone \in BOOLEAN, Changed(K, gone),
         UNCHANGED <<phase, flight, snap, opening, cloud, old>>
  PROVE  InLine(k)'
<1>1. store[k] \in Value /\ store'[k] \in Value
  BY EntryTyped, ChangedTyped
<1>2. Below(store[k], store'[k])
  BY <1>1 DEF Changed, Below, Value, TypeOK
<1>3. \A v : Tops(v, k)' <=> Tops(v, k)
  BY DEF Tops, cloud
<1>4. Tops(store'[k], k)
  BY <1>1, <1>2, TopsRise DEF InLine
<1>5. ASSUME Subscribed, NEW v \in Waiting(k)'
      PROVE  v \in Waiting(k) \/ v = store'[k]
  <2>1. \A t \in Tier : batches'[t][k] \in {batches[t][k], store'[k]}
    BY <1>5 DEF Changed, Notified
  <2> QED  BY <1>5, <2>1 DEF Waiting
<1>6. Subscribed' = Subscribed /\ retiered \subseteq retiered'
  BY DEF Changed, Notified, Subscribed
<1>7. ASSUME Subscribed, NEW v \in Waiting(k)' PROVE Below(v, store'[k])
  <2>1. CASE v = store'[k]
    BY <2>1, <1>1 DEF Below, Value
  <2>2. CASE v \in Waiting(k)
    <3>1. Below(v, store[k]) /\ v \in Value \cup {None}
      BY <1>7, <2>2, EntryTyped DEF InLine
    <3> QED  BY <3>1, <1>1, <1>2, BelowTransitive
  <2> QED  BY <1>5, <1>7, <2>1, <2>2
<1>8. ASSUME k \notin retiered'
      PROVE  Ordered(k)' /\ (Subscribed => \A v \in Waiting(k)' : Tops(v, k))
  <2>1. k \notin retiered
    BY <1>6, <1>8
  <2>2. Ordered(k)'
    BY <2>1 DEF InLine, Ordered, Fresh, cloud
  <2> QED  BY <2>1, <2>2, <1>4, <1>5 DEF InLine
<1> QED  BY <1>3, <1>4, <1>6, <1>7, <1>8 DEF InLine

(* start() takes what the room has, and begins a new order. *)
LEMMA StartInLine ==
  ASSUME TypeOK, Stages, NEW k \in Key, Start, phase # "running",
         UNCHANGED <<store, flight>>, Tops(store[k], k)', Ordered(k)'
  PROVE  InLine(k)'
<1>1. store'[k] \in Value
  BY EntryTyped
<1>2. \A v \in Waiting(k)' : v \in {None, store'[k]}
  BY DEF Start, Stages, NoTiers, Nothing, Waiting
<1>3. Below(None, store'[k]) /\ Tops(None, k)' /\ Below(store'[k], store'[k])
  BY <1>1 DEF Below, Tops, Value
<1> QED  BY <1>2, <1>3 DEF InLine

(* A send of a value that waits leaves the others in line, if they are the *)
(* same or the room's.                                                     *)
LEMMA SendInLine ==
  ASSUME TypeOK, NEW k \in Key, InLine(k), Subscribed,
         NEW opens \in BOOLEAN, NEW e \in Entries, SendMessage(opens, e),
         UNCHANGED <<store, read, mirror, old, retiered>>,
         e[k] \in Waiting(k) \cup {None},
         \A v \in Waiting(k)' : v \in Waiting(k) \cup {None},
         k \notin retiered =>
            \A v \in Waiting(k)' : v = None \/ e[k] = None \/ v \in {e[k], store[k]}
  PROVE  InLine(k)'
<1>1. /\ Ordered(k) /\ Tops(e[k], k) => Ordered(k)'
      /\ \A v : Tops(v, k) /\ Below(e[k], v) => Tops(v, k)'
  BY SendOrdered
<1>2. \A v : Below(None, v) /\ Below(v, None)
  BY DEF Below
<1>3. Below(e[k], store[k]) /\ Tops(None, k)
  BY <1>2 DEF InLine, Tops
<1>4. \A v \in Waiting(k)' : Below(v, store'[k])
  BY <1>2 DEF InLine
<1>5. ASSUME k \notin retiered
      PROVE  Ordered(k)' /\ \A v \in Waiting(k)' : Tops(v, k)'
  <2>1. Ordered(k) /\ Tops(e[k], k)
    BY <1>3, <1>5 DEF InLine
  <2>2. ASSUME NEW v \in Waiting(k)' PROVE Tops(v, k)'
    <3>1. Tops(v, k)
      BY <1>3, <1>5 DEF InLine
    <3>2. Below(e[k], e[k])
      BY EntryTyped DEF Below, Value, Entries
    <3>3. Below(e[k], v)
      BY <1>2, <1>3, <1>5, <3>2
    <3> QED  BY <1>1, <3>1, <3>3
  <2> QED  BY <1>1, <2>1, <2>2
<1> QED  BY <1>1, <1>3, <1>4, <1>5 DEF InLine

LEMMA FlushInLine ==
  ASSUME TypeOK, Stages, NEW k \in Key, Tracked(k), InLine(k),
         NEW t \in Tier, Flush(t)
  PROVE  InLine(k)'
<1>1. /\ phase = "running" /\ flight[t] = Nothing /\ snap[k] = None
      /\ UNCHANGED <<store, read, mirror, old, retiered, snap>>
      /\ batches' = [batches EXCEPT ![t] = Nothing]
  BY DEF Flush, Stages, room, Nothing
<1>2. PICK S : /\ SendMessage(FALSE, Only(S, batches[t]))
               /\ flight' = [flight EXCEPT ![t] = Rest(S, batches[t])]
  BY DEF Flush
<1> DEFINE e == Only(S, batches[t])
<1>3. e \in Entries /\ e[k] \in {None, batches[t][k]}
  BY OnlyTyped DEF TypeOK, Only
<1>4. \A u \in Tier : batches'[u][k] = IF u = t THEN None ELSE batches[u][k]
  BY <1>1 DEF TypeOK, Nothing
<1>5. /\ \A u \in Tier : u # t => flight'[u][k] = flight[u][k]
      /\ flight'[t][k] \in {None, batches[t][k]}
  BY <1>2 DEF TypeOK, Rest, Without, Nothing
<1>6. e[k] \in Waiting(k) \cup {None}
  BY <1>3 DEF Waiting
<1>7. \A v \in Waiting(k)' : v \in Waiting(k) \cup {None}
  BY <1>1, <1>4, <1>5 DEF Waiting
<1>8. ASSUME k \notin retiered, NEW v \in Waiting(k)', v # None, e[k] # None
      PROVE  v \in {e[k], store[k]}
  <2>1. e[k] = batches[t][k] /\ InTier(t, k)
    BY <1>3, <1>8 DEF InTier
  <2>2. \A u \in Tier : u # t => batches[u][k] = None /\ flight[u][k] = None
    BY <2>1, <1>1, <1>8 DEF Tracked, Newest, InTier, Subscribed
  <2> QED  BY <2>1, <2>2, <1>1, <1>4, <1>5, <1>8 DEF Waiting
<1>9. Subscribed /\ SendMessage(FALSE, e) /\ FALSE \in BOOLEAN
  BY <1>1, <1>2 DEF Subscribed
<1> HIDE DEF e
<1> QED  BY <1>1, <1>3, <1>6, <1>7, <1>8, <1>9, SendInLine

LEMMA FlushNextInLine ==
  ASSUME TypeOK, Stages, NEW k \in Key, Tracked(k), InLine(k),
         NEW t \in Tier, FlushNext(t)
  PROVE  InLine(k)'
<1>1. /\ phase = "running" /\ snap[k] = None
      /\ UNCHANGED <<store, read, mirror, old, retiered, snap, batches>>
  BY DEF FlushNext, Stages, room, Nothing
<1>2. PICK S : /\ SendMessage(FALSE, Only(S, flight[t]))
               /\ flight' = [flight EXCEPT ![t] = Rest(S, flight[t])]
  BY DEF FlushNext
<1> DEFINE e == Only(S, flight[t])
<1>3. e \in Entries /\ e[k] \in {None, flight[t][k]}
  BY OnlyTyped DEF TypeOK, Only
<1>4. /\ \A u \in Tier : u # t => flight'[u][k] = flight[u][k]
      /\ flight'[t][k] \in {None, flight[t][k]}
  BY <1>2 DEF TypeOK, Rest, Without, Nothing
<1>5. e[k] \in Waiting(k) \cup {None}
  BY <1>3 DEF Waiting
<1>6. \A v \in Waiting(k)' : v \in Waiting(k) \cup {None}
  BY <1>1, <1>4 DEF Waiting
<1>7. ASSUME k \notin retiered, NEW v \in Waiting(k)', v # None, e[k] # None
      PROVE  v \in {e[k], store[k]}
  <2>1. e[k] = flight[t][k] /\ InTier(t, k)
    BY <1>3, <1>7 DEF InTier
  <2>2. /\ \A u \in Tier : u # t => flight[u][k] = None
        /\ \A u \in Tier : batches[u][k] \in {None, store[k]}
    BY <2>1, <1>1, <1>7 DEF Tracked, Newest, InTier, Subscribed
  <2> QED  BY <2>1, <2>2, <1>1, <1>4, <1>7 DEF Waiting
<1>8. Subscribed /\ SendMessage(FALSE, e) /\ FALSE \in BOOLEAN
  BY <1>1, <1>2 DEF Subscribed
<1> HIDE DEF e
<1> QED  BY <1>1, <1>3, <1>5, <1>6, <1>7, <1>8, SendInLine

LEMMA SendSnapshotInLine ==
  ASSUME TypeOK, Stages, NEW k \in Key, Tracked(k), InLine(k), SendSnapshot
  PROVE  InLine(k)'
<1>1. /\ phase = "snapshot" /\ flight = NoTiers
      /\ UNCHANGED <<store, read, mirror, old, retiered, batches, flight>>
  BY DEF SendSnapshot, Stages, room
<1>2. PICK S : SendMessage(opening, Only(S, snap)) /\ snap' = Rest(S, snap)
  BY DEF SendSnapshot
<1> DEFINE e == Only(S, snap)
<1>3. e \in Entries /\ e[k] \in {None, snap[k]}
  BY OnlyTyped DEF TypeOK, Only
<1>4. snap'[k] \in {None, snap[k]}
  BY <1>2 DEF Rest, Without, Nothing
<1>5. e[k] \in Waiting(k) \cup {None}
  BY <1>3 DEF Waiting
<1>6. \A v \in Waiting(k)' : v \in Waiting(k) \cup {None}
  BY <1>1, <1>4 DEF Waiting
<1>7. ASSUME k \notin retiered, NEW v \in Waiting(k)', v # None, e[k] # None
      PROVE  v \in {e[k], store[k]}
  <2>1. /\ \A u \in Tier : flight[u][k] = None
        /\ \A u \in Tier : batches[u][k] \in {None, store[k]}
    BY <1>1, <1>7 DEF Tracked, Newest, Subscribed, NoTiers, Nothing
  <2> QED  BY <2>1, <1>1, <1>3, <1>4, <1>7 DEF Waiting
<1>8. Subscribed /\ SendMessage(opening, e) /\ opening \in BOOLEAN
  BY <1>1, <1>2 DEF Subscribed, TypeOK
<1> HIDE DEF e
<1> QED  BY <1>1, <1>3, <1>5, <1>6, <1>7, <1>8, SendInLine

LEMMA OthersInLine ==
  ASSUME TypeOK, NEW k \in Key, InLine(k),
         \/ PopDriver \/ SnapshotSent \/ SwitchOff \/ LinkLost \/ Teardown
         \/ Throttle \/ Unthrottle \/ CloudReads \/ CloudAcks
         \/ UNCHANGED vars
  PROVE  InLine(k)'
<1>1. ASSUME UNCHANGED <<store, retiered>>, Ordered(k) => Ordered(k)',
             \A v : Tops(v, k) => Tops(v, k)',
             Subscribed' => Subscribed /\ Waiting(k)' = Waiting(k)
      PROVE  InLine(k)'
  BY <1>1 DEF InLine
<1>2. ASSUME UNCHANGED <<unacked, read, mirror, old>>
      PROVE  (Ordered(k) => Ordered(k)') /\ \A v : Tops(v, k) => Tops(v, k)'
  BY <1>2 DEF Ordered, Tops, Fresh
<1>3. CASE PopDriver \/ LinkLost \/ Throttle \/ Unthrottle \/ UNCHANGED vars
  <2>1. UNCHANGED <<store, relay, unacked, read, mirror, marks>>
    BY <1>3 DEF PopDriver, LinkLost, Throttle, Unthrottle, vars, room, cloud
  <2> QED  BY <2>1, <1>1, <1>2 DEF relay, marks, Subscribed, Waiting
<1>4. CASE SwitchOff \/ Teardown
  <2>1. ~Subscribed' /\ UNCHANGED <<store, unacked, read, mirror, marks>>
    BY <1>4 DEF SwitchOff, Teardown, room, cloud, Subscribed
  <2> QED  BY <2>1, <1>1, <1>2 DEF marks
<1>5. CASE SnapshotSent
  <2>1. UNCHANGED <<store, batches, flight, snap, unacked, read, mirror, marks>>
        /\ Subscribed
    BY <1>5 DEF SnapshotSent, room, cloud, Subscribed
  <2> QED  BY <2>1, <1>1, <1>2 DEF marks, Waiting
<1>6. CASE CloudReads
  <2>1. UNCHANGED <<store, relay, retiered>>
    BY <1>6 DEF CloudReads, room
  <2> QED  BY <2>1, <1>1, <1>6, ReadOrdered DEF relay, Subscribed, Waiting
<1>7. CASE CloudAcks
  <2>1. UNCHANGED <<store, relay, marks>>
    BY <1>7 DEF CloudAcks, room
  <2> QED  BY <2>1, <1>1, <1>7, AckOrdered DEF relay, marks, Subscribed, Waiting
<1> QED  BY <1>3, <1>4, <1>5, <1>6, <1>7

LEMMA InLineStep ==
  ASSUME TypeOK, Stages, NEW k \in Key, Tracked(k), InLine(k), [Next]_vars
  PROVE  InLine(k)'
<1>1. ASSUME NEW l \in Key, SetState(l) \/ DeleteState(l) PROVE InLine(k)'
  <2>1. \E K \in SUBSET Key, gone \in BOOLEAN :
            /\ Changed(K, gone)
            /\ UNCHANGED <<phase, flight, snap, opening, cloud, old>>
    BY <1>1 DEF SetState, DeleteState
  <2> QED  BY <2>1, ChangeInLine
<1>2. CASE ClearKeys \/ AddDevice
  <2>1. \E K \in SUBSET Key, gone \in BOOLEAN :
            /\ Changed(K, gone)
            /\ UNCHANGED <<phase, flight, snap, opening, cloud, old>>
    BY <1>2, RelayAssumption DEF ClearKeys, AddDevice
  <2> QED  BY <2>1, ChangeInLine
<1>3. ASSUME NEW t \in Tier, Flush(t) \/ FlushNext(t) PROVE InLine(k)'
  BY <1>3, FlushInLine, FlushNextInLine
<1>4. CASE SendSnapshot
  BY <1>4, SendSnapshotInLine
<1>5. ASSUME NEW forwarding \in BOOLEAN, Connect(forwarding)
      PROVE  InLine(k)'
  <2>1. Ordered(k)' /\ \A v : Tops(v, k) => Tops(v, k)'
    BY <1>5, ConnectOrdered
  <2>2. phase = "down" /\ UNCHANGED <<store, flight>>
    BY <1>5 DEF Connect, room
  <2>3. Tops(store[k], k)'
    BY <2>1, <2>2 DEF InLine
  <2>4. CASE forwarding
    BY <1>5, <2>1, <2>2, <2>3, <2>4, StartInLine DEF Connect
  <2>5. CASE ~forwarding
    <3>1. ~Subscribed'
      BY <1>5, <2>5 DEF Connect, Subscribed
    <3> QED  BY <2>1, <2>3, <3>1 DEF InLine
  <2> QED  BY <2>4, <2>5
<1>6. CASE SwitchOn
  <2>1. UNCHANGED <<store, flight, unacked, read, mirror>> /\ Start /\ phase = "off"
    BY <1>6 DEF SwitchOn, room, cloud
  <2>2. Tops(store[k], k)'
    BY <2>1 DEF InLine, Tops
  <2>3. Fresh' = {}
    <3>1. Len(unacked) \in Nat /\ read \in 0..Len(unacked)
          /\ old' = Len(unacked) - read
      BY <1>6, LenTyped DEF SwitchOn
    <3> QED  BY <2>1, <3>1 DEF Fresh
  <2> QED  BY <2>1, <2>2, <2>3, StartInLine DEF Ordered
<1>7. CASE \/ PopDriver \/ SnapshotSent \/ SwitchOff \/ LinkLost \/ Teardown
           \/ Throttle \/ Unthrottle \/ CloudReads \/ CloudAcks
           \/ UNCHANGED vars
  BY <1>7, OthersInLine
<1> QED  BY <1>1, <1>2, <1>3, <1>4, <1>5, <1>6, <1>7 DEF Next

IInv == /\ TypeOK /\ Stages /\ CacheOfLiveKeys
        /\ \A k \in Key : Tracked(k) /\ InLine(k)

-----------------------------------------------------------------------------
(* The invariant holds of every instance. *)
THEOREM Invariance == Spec => []IInv
<1>1. Init => IInv
  <2>1. Init => Stages /\ ~Subscribed
    BY DEF Init, Stages, Subscribed
  <2>2. ASSUME Init PROVE \A k \in Key : InLine(k)
    <3>1. Len(unacked) = 0 /\ read = 0 /\ old = 0 /\ mirror = Nothing
      BY <2>2 DEF Init
    <3> QED  BY <2>1, <2>2, <3>1
             DEF InLine, Tops, Ordered, Fresh, Below, Nothing
  <2> QED  BY <2>1, <2>2, InitTyped DEF IInv, CacheOfLiveKeys, Tracked
<1>2. IInv /\ [Next]_vars => IInv'
  <2> SUFFICES ASSUME IInv, [Next]_vars PROVE IInv'
    OBVIOUS
  <2>1. TypeOK' /\ Stages' /\ CacheOfLiveKeys'
    BY StepTyped, StagesStep, CacheStep DEF IInv
  <2>2. \A k \in Key : Tracked(k)' /\ InLine(k)'
    BY TrackedStep, InLineStep DEF IInv
  <2> QED  BY <2>1, <2>2 DEF IInv
<1> QED  BY <1>1, <1>2, PTL DEF Spec

(* The cache of tiers never keeps a deleted key, whatever the interleaving *)
(* of deletions, device updates and restarts (_on_state_change).           *)
THEOREM CacheIsLive == Spec => []CacheOfLiveKeys
<1>1. IInv => CacheOfLiveKeys
  BY DEF IInv
<1> QED  BY <1>1, Invariance, PTL

(* When all is sent and read, the cloud has the state of the room, but for *)
(* the exempted keys (MirrorTruthful).                                     *)
THEOREM MirrorIsTruthful == Spec => []MirrorTruthful
<1>1. IInv => MirrorTruthful
  <2> SUFFICES ASSUME IInv, Subscribed, link, read = Len(unacked),
                      NEW k \in Key \ (lost \cup retiered), ~Pending(k)
               PROVE  Agrees(k)
    BY DEF MirrorTruthful
  <2>1. Arrives(k)
    BY DEF IInv, Tracked
  <2>2. Len(unacked) \in Nat
    BY LenTyped DEF IInv
  <2>3. \A i \in Unread : FALSE
    BY <2>2 DEF Unread
  <2> QED  BY <2>1, <2>3 DEF Arrives
<1> QED  BY <1>1, Invariance, PTL

(* Of a key that keeps its tier the cloud never goes back to an older value *)
(* (_send_initial_snapshot, _flush_bucket).                                *)
THEOREM CloudGoesForward == Spec => NeverBack
<1>1. ASSUME IInv, CloudReads, old = 0, ~unacked[read + 1].opens,
             NEW k \in Key \ retiered, mirror[k] # None
      PROVE  mirror'[k].n >= mirror[k].n
  <2> DEFINE e == unacked[read + 1].entries[k]
  <2>1. read + 1 \in Fresh /\ read + 1 \in 1..Len(unacked)
    BY <1>1, LenTyped DEF IInv, CloudReads, Fresh
  <2>2. Below(mirror[k], e)
    BY <1>1, <2>1 DEF IInv, InLine, Ordered
  <2>3. mirror'[k] = IF e # None THEN e ELSE mirror[k]
    BY <1>1 DEF CloudReads
  <2>4. mirror[k] \in Value /\ e \in Value \cup {None}
    BY <1>1, <2>1, EntryTyped DEF IInv
  <2> HIDE DEF e
  <2> QED  BY <1>1, <2>2, <2>3, <2>4 DEF Below, Value
<1>2. IInv => (CloudReads /\ old = 0 /\ ~unacked[read + 1].opens =>
          \A k \in Key \ retiered :
              mirror[k] # None => mirror'[k].n >= mirror[k].n)
  BY <1>1
<1> QED  BY <1>2, Invariance, PTL DEF NeverBack
=============================================================================
