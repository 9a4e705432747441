------------------------ MODULE CloudDelivery_proofs ------------------------
(***************************************************************************)
(* Proofs about CloudDelivery: type correctness, one place for each        *)
(* message held, acknowledgements that discard only what was read, and the *)
(* implementation of RetainUntilAcked.                                     *)
(***************************************************************************)
EXTENDS CloudDelivery, FiniteSetTheorems, TLAPS

Live == phase \in {"replaying", "steady"}

(* The books of a connection: both sides count the same messages; b is    *)
(* what the buffer holds of this connection.                               *)
CountedFor(b) ==
    /\ \A e \in b \cup wire : e.seq < nextSeq
    /\ cloudSeq < nextSeq
    /\ \A e \in wire : \A f \in b : e.seq = f.seq => e = f
    /\ \A e \in b : e.seq <= cloudSeq => e.msg \in received
    /\ link => \A e \in b : e.seq > cloudSeq => e \in wire

Counted == CountedFor(buffer)

(* Where the connection loop can be with what. *)
PhaseState ==
    /\ connected <=> phase = "steady"
    /\ phase # "replaying" => replay = {}
    /\ phase \in {"resuming", "replaying"} => dropped
    /\ phase = "backoff" => dropped \/ buffer = {}
    /\ phase \in {"backoff", "stopped"} => ~link
    /\ ~Live => wire = {} /\ acks = {}
    /\ phase = "resuming" => cloudSeq = 0
    /\ ~link => wire = {}

WireOrder ==
    /\ \A e \in wire : e.seq > cloudSeq
    /\ \A e, f \in wire : e.seq = f.seq => e = f
    /\ \A n \in acks : n <= cloudSeq

OwedAccepted == Messages(buffer \cup replay \cup wire) \subseteq accepted

Sizes ==
    /\ IsFiniteSet(buffer) /\ IsFiniteSet(replay)
    /\ Cardinality(buffer) + Cardinality(replay) <= BufferSize

ReplayOnce == \A e, f \in replay : (e.msg = f.msg) <=> (e.seq = f.seq)

IInv ==
    /\ TypeOK /\ HeldOnce /\ ReplayOnce
    /\ PhaseState /\ WireOrder /\ OwedAccepted /\ Sizes
    /\ Live => Counted


-----------------------------------------------------------------------------
(* The sequencer. *)

NewEntry(m) == [seq |-> nextSeq, msg |-> m]

(* What assign_seq does to a buffer that holds only earlier numbers. *)
LEMMA AssignFacts ==
  ASSUME NEW m \in Message, NEW b \in SUBSET Entry, IsFiniteSet(b),
         Cardinality(b) <= BufferSize, nextSeq \in Nat \ {0},
         \A f \in b : f.seq < nextSeq, AssignSeq(m, b)
  PROVE  /\ NewEntry(m) \in Entry /\ NewEntry(m) \notin b /\ nextSeq' = nextSeq + 1
         /\ buffer' \subseteq b \cup {NewEntry(m)} /\ IsFiniteSet(buffer')
         /\ Cardinality(buffer') \in Nat
         /\ Cardinality(buffer') <= BufferSize
         /\ Cardinality(buffer') <= Cardinality(b) + 1
         /\ \/ buffer' = b \cup {NewEntry(m)}
            \/ /\ Cardinality(b) = BufferSize
               /\ \E v \in b \cup {NewEntry(m)} : /\ Lowest(v, b \cup {NewEntry(m)})
                                                  /\ buffer' = (b \cup {NewEntry(m)}) \ {v}
         /\ wire' = IF link THEN wire \cup {NewEntry(m)} ELSE wire
<1> DEFINE e == NewEntry(m)
<1>1. e \in Entry /\ e.seq = nextSeq /\ e \notin b
  BY DEF Entry, NewEntry
<1>2. Filed(e, b) = b \cup {e}
  BY <1>1 DEF Filed, Entry
<1>3. /\ IsFiniteSet(b \cup {e})
      /\ Cardinality(b \cup {e}) = Cardinality(b) + 1
      /\ Cardinality(b) \in Nat
  BY <1>1, FS_AddElement, FS_CardinalityType
<1>4. /\ nextSeq' = nextSeq + 1
      /\ wire' = IF link THEN wire \cup {e} ELSE wire
      /\ IF Cardinality(b \cup {e}) > BufferSize
         THEN \E v \in b \cup {e} : /\ Lowest(v, b \cup {e})
                                    /\ buffer' = (b \cup {e}) \ {v}
         ELSE buffer' = b \cup {e}
  BY <1>2 DEF AssignSeq, Overfull, NewEntry
<1>5. CASE Cardinality(b \cup {e}) > BufferSize
  <2>1. PICK v \in b \cup {e} : /\ Lowest(v, b \cup {e})
                                /\ buffer' = (b \cup {e}) \ {v}
    BY <1>4, <1>5
  <2>2. IsFiniteSet(buffer') /\ Cardinality(buffer') = Cardinality(b)
    BY <2>1, <1>3, FS_RemoveElement, SMTT(30)
  <2>3. Cardinality(b) = BufferSize
    BY <1>3, <1>5, DeliveryAssumption
  <2> QED
    BY <1>1, <1>3, <1>4, <2>1, <2>2, <2>3
<1>6. CASE ~(Cardinality(b \cup {e}) > BufferSize)
  <2>1. buffer' = b \cup {e}
    BY <1>4, <1>6
  <2>2. /\ IsFiniteSet(buffer') /\ Cardinality(buffer') = Cardinality(b) + 1
        /\ ~(Cardinality(buffer') > BufferSize)
    BY <2>1, <1>3, <1>6
  <2> QED
    BY <1>1, <1>3, <1>4, <2>1, <2>2, DeliveryAssumption
<1> QED
  BY <1>5, <1>6

(* assign_seq keeps the books, in a connection as at the start of a replay *)
LEMMA AssignKeepsCount ==
  ASSUME TypeOK, WireOrder, NEW m \in Message, NEW b \in SUBSET Entry,
         IsFiniteSet(b), Cardinality(b) <= BufferSize, CountedFor(b),
         AssignSeq(m, b), UNCHANGED <<cloudSeq, received, link, acks>>,
         ~link => wire = {}
  PROVE  /\ Counted' /\ WireOrder'
         /\ wire' \subseteq Entry /\ buffer' \subseteq Entry
         /\ nextSeq' \in Nat \ {0}
         /\ ~link' => wire' = {}
         /\ Messages(wire') \subseteq Messages(wire) \cup {m}
         /\ Messages(buffer') \subseteq Messages(b) \cup {m}
<1> DEFINE e == NewEntry(m)
<1>1. /\ e \in Entry /\ nextSeq' = nextSeq + 1 /\ buffer' \subseteq b \cup {e}
      /\ wire' = IF link THEN wire \cup {e} ELSE wire
      /\ nextSeq \in Nat \ {0} /\ cloudSeq \in Nat
      /\ wire \subseteq Entry
  <2>1. nextSeq \in Nat \ {0} /\ \A f \in b : f.seq < nextSeq
    BY DEF CountedFor, TypeOK
  <2>2. /\ e \in Entry /\ nextSeq' = nextSeq + 1 /\ buffer' \subseteq b \cup {e}
        /\ wire' = IF link THEN wire \cup {e} ELSE wire
    BY <2>1, AssignFacts
  <2> QED
    BY <2>1, <2>2 DEF TypeOK
<1>2. e.seq = nextSeq /\ e.msg = m
  BY DEF NewEntry
<1> HIDE DEF e
<1>3. \A f \in b \cup wire \cup {e} : f.seq \in Nat \ {0} /\ f.msg \in Message
  BY <1>1 DEF Entry
<1>4. WireOrder'
  BY <1>1, <1>2, <1>3 DEF WireOrder, CountedFor
<1>5. Counted'
  BY <1>1, <1>2, <1>3 DEF WireOrder, CountedFor, Counted
<1> QED
  BY <1>1, <1>2, <1>3, <1>4, <1>5 DEF Messages

-----------------------------------------------------------------------------
(* The invariant. *)

LEMMA InitIInv == Init => IInv
<1> SUFFICES ASSUME Init PROVE IInv
  OBVIOUS
<1>1. IsFiniteSet({}) /\ Cardinality({}) = 0
  BY FS_EmptySet
<1>2. Sizes /\ Cardinality(buffer) <= BufferSize
  BY <1>1, DeliveryAssumption DEF Init, Sizes
<1>3. TypeOK
  <2>1. /\ phase \in {"backoff", "resuming", "replaying", "steady", "stopped"}
        /\ connected \in BOOLEAN /\ dropped \in BOOLEAN /\ link \in BOOLEAN
    BY DEF Init
  <2>2. /\ nextSeq \in Nat \ {0} /\ lastAck \in Nat /\ cloudSeq \in Nat
        /\ losses \in Nat
    BY DEF Init
  <2>3. /\ buffer \subseteq Entry /\ replay \subseteq Entry /\ wire \subseteq Entry
        /\ acks \subseteq Nat /\ accepted \subseteq Message
        /\ received \subseteq accepted /\ cut \subseteq accepted
    BY DEF Init
  <2> QED
    BY <1>2, <2>1, <2>2, <2>3 DEF TypeOK
<1> QED
  BY <1>2, <1>3
     DEF Init, IInv, HeldOnce, ReplayOnce, PhaseState, WireOrder,
         OwedAccepted, Live, Messages

(* The parts of IInv that speak of the buffers' contents stay when nothing *)
(* but the ends of the link and of the loop change.                        *)
LEMMA SendIInv ==
  ASSUME IInv, NEW m \in Message, Send(m)
  PROVE  IInv'
<1> USE DEF Live
<1>1. /\ phase = "steady" /\ m \notin accepted /\ accepted' = accepted \cup {m}
      /\ AssignSeq(m, buffer) /\ replay = {} /\ replay' = {}
      /\ UNCHANGED <<phase, connected, dropped, link, lastAck, cloud, acks,
                     cut, losses>>
  BY DEF Send, IInv, PhaseState
<1>2. /\ buffer \in SUBSET Entry /\ IsFiniteSet(buffer) /\ CountedFor(buffer)
      /\ nextSeq \in Nat \ {0} /\ \A f \in buffer : f.seq < nextSeq
      /\ ~link => wire = {}
      /\ TypeOK /\ WireOrder
  BY <1>1 DEF IInv, TypeOK, Sizes, Counted, CountedFor, PhaseState
<1>3. Cardinality(buffer) <= BufferSize
  BY DEF IInv, TypeOK
<1>4. /\ Counted' /\ WireOrder' /\ wire' \subseteq Entry /\ buffer' \subseteq Entry
      /\ nextSeq' \in Nat \ {0} /\ (~link' => wire' = {})
      /\ Messages(wire') \subseteq Messages(wire) \cup {m}
      /\ Messages(buffer') \subseteq Messages(buffer) \cup {m}
  BY <1>1, <1>2, <1>3, AssignKeepsCount DEF cloud
<1>5. /\ NewEntry(m) \in Entry /\ buffer' \subseteq buffer \cup {NewEntry(m)}
      /\ IsFiniteSet(buffer') /\ Cardinality(buffer') <= BufferSize
      /\ Cardinality(buffer') \in Nat
  BY <1>1, <1>2, <1>3, AssignFacts
<1>6. TypeOK'
  BY <1>1, <1>4, <1>5 DEF IInv, TypeOK, cloud
<1>7. HeldOnce' /\ ReplayOnce'
  <2>1. \A e \in buffer : e.msg # m /\ e.seq # nextSeq
    BY <1>1, <1>2 DEF IInv, OwedAccepted, Messages
  <2>2. NewEntry(m).msg = m /\ NewEntry(m).seq = nextSeq
    BY DEF NewEntry
  <2> QED
    BY <1>1, <1>5, <2>1, <2>2 DEF IInv, HeldOnce, ReplayOnce, Messages
<1>8. PhaseState'
  BY <1>1, <1>4 DEF IInv, PhaseState
<1>9. OwedAccepted'
  BY <1>1, <1>4 DEF IInv, OwedAccepted, Messages
<1>10. Sizes'
  BY <1>1, <1>5, FS_EmptySet DEF Sizes
<1> QED
  BY <1>4, <1>6, <1>7, <1>8, <1>9, <1>10 DEF IInv

LEMMA ResumeFromIInv ==
  ASSUME IInv, ResumeFrom
  PROVE  IInv'
<1> USE DEF Live
<1>1. PICK e \in buffer : First(e, buffer) /\ AssignSeq(e.msg, {})
                          /\ replay' = buffer \ {e}
  BY DEF ResumeFrom, ClearedBuffer
<1>2. /\ phase = "resuming" /\ phase' = "replaying" /\ link
      /\ UNCHANGED <<connected, dropped, link, lastAck, cloud, acks, accepted,
                     cut, losses>>
      /\ wire = {} /\ cloudSeq = 0 /\ replay = {} /\ acks = {} /\ dropped
      /\ ~connected
  BY DEF ResumeFrom, IInv, PhaseState
<1>3. /\ e.msg \in Message /\ e.msg \in accepted
      /\ TypeOK /\ WireOrder /\ CountedFor({}) /\ nextSeq \in Nat \ {0}
  BY <1>2 DEF IInv, TypeOK, CountedFor, OwedAccepted, Messages, Entry
<1>4. IsFiniteSet({}) /\ Cardinality({}) = 0 /\ Cardinality({}) <= BufferSize
  BY FS_EmptySet, DeliveryAssumption
<1>5. /\ Counted' /\ WireOrder' /\ wire' \subseteq Entry /\ buffer' \subseteq Entry
      /\ nextSeq' \in Nat \ {0} /\ (~link' => wire' = {})
      /\ Messages(wire') \subseteq Messages(wire) \cup {e.msg}
      /\ Messages(buffer') \subseteq Messages({}) \cup {e.msg}
  BY <1>1, <1>2, <1>3, <1>4, AssignKeepsCount DEF cloud
<1>6. /\ buffer' \subseteq {NewEntry(e.msg)}
      /\ IsFiniteSet(buffer') /\ Cardinality(buffer') <= 1
      /\ Cardinality(buffer') <= BufferSize /\ Cardinality(buffer') \in Nat
  <2>1. {} \in SUBSET Entry /\ \A f \in {} : f.seq < nextSeq
    OBVIOUS
  <2>2. /\ buffer' \subseteq {} \cup {NewEntry(e.msg)}
        /\ IsFiniteSet(buffer') /\ Cardinality(buffer') \in Nat
        /\ Cardinality(buffer') <= BufferSize
        /\ Cardinality(buffer') <= Cardinality({}) + 1
    BY <1>1, <1>3, <1>4, <2>1, AssignFacts
  <2> QED
    BY <1>4, <2>2
<1>7. /\ IsFiniteSet(replay') /\ Cardinality(replay') = Cardinality(buffer) - 1
      /\ Cardinality(buffer) \in Nat /\ Cardinality(buffer) <= BufferSize
  BY <1>1, FS_RemoveElement, FS_CardinalityType DEF IInv, Sizes, TypeOK
<1>8. TypeOK'
  BY <1>1, <1>2, <1>5, <1>6 DEF IInv, TypeOK, cloud
<1>9. HeldOnce' /\ ReplayOnce'
  <2>1. \A f \in replay' : f.msg # e.msg
    BY <1>1 DEF IInv, HeldOnce, TypeOK, Entry
  <2>2. NewEntry(e.msg).msg = e.msg
    BY DEF NewEntry
  <2> QED
    BY <1>1, <1>6, <2>1, <2>2 DEF IInv, HeldOnce, ReplayOnce, Messages
<1>10. PhaseState'
  BY <1>2, <1>5 DEF IInv, PhaseState
<1>11. OwedAccepted'
  BY <1>1, <1>2, <1>3, <1>5 DEF IInv, OwedAccepted, Messages
<1>12. Sizes'
  BY <1>6, <1>7, DeliveryAssumption DEF Sizes
<1> QED
  BY <1>5, <1>8, <1>9, <1>10, <1>11, <1>12 DEF IInv

(* A replay never overflows the buffer it refills. *)
LEMMA ReplayFits ==
  ASSUME IInv, phase = "replaying", NEW e \in replay
  PROVE  /\ IsFiniteSet(buffer) /\ Cardinality(buffer) < BufferSize
         /\ IsFiniteSet(replay \ {e})
         /\ Cardinality(replay \ {e}) = Cardinality(replay) - 1
         /\ Cardinality(replay) \in Nat /\ Cardinality(buffer) \in Nat
<1>1. /\ IsFiniteSet(replay \ {e})
      /\ Cardinality(replay \ {e}) = Cardinality(replay) - 1
      /\ Cardinality(replay) \in Nat /\ Cardinality(buffer) \in Nat
      /\ Cardinality(replay \ {e}) \in Nat
  BY FS_RemoveElement, FS_CardinalityType DEF IInv, Sizes
<1> QED
  BY <1>1, DeliveryAssumption DEF IInv, Sizes

LEMMA ReplayNextIInv ==
  ASSUME IInv, ReplayNext
  PROVE  IInv'
<1> USE DEF Live
<1>1. PICK e \in replay : First(e, replay) /\ AssignSeq(e.msg, buffer)
                          /\ replay' = replay \ {e}
  BY DEF ReplayNext
<1>2. /\ phase = "replaying"
      /\ UNCHANGED <<phase, connected, dropped, link, lastAck, cloud, acks,
                     accepted, cut, losses>>
  BY DEF ReplayNext
<1>3. /\ e.msg \in Message /\ e.msg \in accepted /\ e.msg \notin Messages(buffer)
      /\ TypeOK /\ WireOrder /\ CountedFor(buffer) /\ nextSeq \in Nat \ {0}
      /\ buffer \in SUBSET Entry /\ (~link => wire = {})
      /\ \A f \in buffer : f.seq < nextSeq
  BY <1>2 DEF IInv, TypeOK, Counted, CountedFor, OwedAccepted, Messages, Entry,
              PhaseState, HeldOnce
<1>4. /\ IsFiniteSet(buffer) /\ Cardinality(buffer) < BufferSize
      /\ IsFiniteSet(replay')
      /\ Cardinality(replay') = Cardinality(replay) - 1
      /\ Cardinality(replay) \in Nat /\ Cardinality(buffer) \in Nat
      /\ Cardinality(buffer) <= BufferSize
  BY <1>1, <1>2, ReplayFits, DeliveryAssumption
<1>5. /\ Counted' /\ WireOrder' /\ wire' \subseteq Entry /\ buffer' \subseteq Entry
      /\ nextSeq' \in Nat \ {0} /\ (~link' => wire' = {})
      /\ Messages(wire') \subseteq Messages(wire) \cup {e.msg}
      /\ Messages(buffer') \subseteq Messages(buffer) \cup {e.msg}
  BY <1>1, <1>2, <1>3, <1>4, AssignKeepsCount DEF cloud
<1>6. /\ buffer' \subseteq buffer \cup {NewEntry(e.msg)}
      /\ IsFiniteSet(buffer') /\ Cardinality(buffer') <= Cardinality(buffer) + 1
      /\ Cardinality(buffer') <= BufferSize /\ Cardinality(buffer') \in Nat
  BY <1>1, <1>3, <1>4, AssignFacts
<1>8. TypeOK'
  BY <1>1, <1>2, <1>5, <1>6 DEF IInv, TypeOK, cloud
<1>9. HeldOnce' /\ ReplayOnce'
  <2>1. \A f \in buffer : f.msg # e.msg /\ f.seq # nextSeq
    BY <1>3 DEF Messages
  <2>2. NewEntry(e.msg).msg = e.msg /\ NewEntry(e.msg).seq = nextSeq
    BY DEF NewEntry
  <2>3. \A f \in replay' : f.msg # e.msg
    BY <1>1 DEF IInv, ReplayOnce, TypeOK, Entry
  <2> QED
    BY <1>1, <1>6, <2>1, <2>2, <2>3 DEF IInv, HeldOnce, ReplayOnce, Messages
<1>10. PhaseState'
  BY <1>1, <1>2, <1>5 DEF IInv, PhaseState
<1>11. OwedAccepted'
  BY <1>1, <1>2, <1>3, <1>5 DEF IInv, OwedAccepted, Messages
<1>12. Sizes'
  BY <1>4, <1>6, DeliveryAssumption DEF IInv, Sizes
<1> QED
  BY <1>5, <1>8, <1>9, <1>10, <1>11, <1>12 DEF IInv

(* Every other action leaves the buffer, gives some of it up, or empties   *)
(* it: a step that adds nothing to what is held or sent keeps the books.   *)
LEMMA Shrinks ==
  ASSUME IInv, buffer' \subseteq buffer, replay' \subseteq replay
  PROVE  /\ IsFiniteSet(buffer') /\ IsFiniteSet(replay')
         /\ Cardinality(buffer') <= BufferSize
         /\ Cardinality(buffer') + Cardinality(replay') <= BufferSize
<1>1. /\ IsFiniteSet(buffer') /\ IsFiniteSet(replay')
      /\ Cardinality(buffer') <= Cardinality(buffer)
      /\ Cardinality(replay') <= Cardinality(replay)
  BY FS_Subset DEF IInv, Sizes
<1>2. /\ Cardinality(buffer) \in Nat /\ Cardinality(replay) \in Nat
      /\ Cardinality(buffer') \in Nat /\ Cardinality(replay') \in Nat
  BY <1>1, FS_CardinalityType DEF IInv, Sizes
<1> QED
  BY <1>1, <1>2, DeliveryAssumption DEF IInv, Sizes

LEMMA ShrinkKeeps ==
  ASSUME IInv, buffer' \subseteq buffer, replay' \subseteq replay,
         wire' \subseteq wire, accepted' = accepted
  PROVE  HeldOnce' /\ ReplayOnce' /\ OwedAccepted' /\ Sizes'
<1>1. Sizes'
  BY Shrinks DEF Sizes
<1> QED
  BY <1>1 DEF IInv, HeldOnce, ReplayOnce, OwedAccepted, Messages

LEMMA StepIInv == IInv /\ [Next]_vars => IInv'
<1> SUFFICES ASSUME IInv, [Next]_vars PROVE IInv'
  OBVIOUS
<1> USE DEF Live
<1>1. CASE \E m \in Message : Send(m)
  BY <1>1, SendIInv
<1>2. CASE HandleAck
  <2>1. /\ phase = "steady" /\ phase' = phase /\ link' = link
        /\ buffer' \subseteq buffer /\ replay' = replay /\ wire' = wire
        /\ acks' \subseteq acks /\ lastAck' \in Nat
        /\ UNCHANGED <<connected, dropped, nextSeq, cloudSeq, received,
                       accepted, cut, losses>>
    BY <1>2 DEF HandleAck, cloud, IInv, TypeOK
  <2>2. Cardinality(buffer') <= BufferSize
    BY <2>1, Shrinks
  <2>3. TypeOK'
    BY <2>1, <2>2 DEF IInv, TypeOK
  <2>4. PhaseState' /\ WireOrder' /\ Counted'
    BY <2>1 DEF IInv, PhaseState, WireOrder, Counted, CountedFor
  <2> QED
    BY <2>1, <2>3, <2>4, ShrinkKeeps DEF IInv
<1>3. CASE Handshake
  <2>1. /\ phase = "backoff" /\ link' = TRUE /\ wire' = {} /\ acks' = {}
        /\ cloudSeq' = 0 /\ nextSeq' = 1 /\ lastAck' = 0 /\ replay = {}
        /\ UNCHANGED <<buffer, replay, received, accepted, cut, losses>>
        /\ IF dropped /\ buffer # {}
           THEN phase' = "resuming" /\ UNCHANGED <<connected, dropped>>
           ELSE phase' = "steady" /\ connected' = TRUE /\ dropped' = FALSE
    BY <1>3 DEF Handshake, ResetForNewSession, ResumeDue, EnterSteady, IInv,
                PhaseState
  <2>2. phase' = "steady" => buffer' = {}
    BY <2>1 DEF IInv, PhaseState
  <2>3. TypeOK'
    <3>1. /\ phase' \in {"backoff", "resuming", "replaying", "steady", "stopped"}
          /\ connected' \in BOOLEAN /\ dropped' \in BOOLEAN
          /\ link' \in BOOLEAN
      BY <2>1 DEF IInv, TypeOK
    <3>2. /\ nextSeq' \in Nat \ {0} /\ lastAck' \in Nat /\ cloudSeq' \in Nat
      BY <2>1
    <3> QED
      BY <2>1, <3>1, <3>2 DEF IInv, TypeOK
  <2>4. PhaseState' /\ WireOrder' /\ (Live' => Counted')
    BY <2>1, <2>2 DEF IInv, PhaseState, WireOrder, Counted, CountedFor
  <2> QED
    BY <2>1, <2>3, <2>4, ShrinkKeeps DEF IInv
<1>4. CASE HandshakeRejected
  <2>1. /\ phase = "backoff" /\ phase' = "stopped"
        /\ UNCHANGED <<connected, dropped, link, nextSeq, lastAck, buffer,
                       replay, wire, cloudSeq, received, acks, accepted, cut,
                       losses>>
    BY <1>4 DEF HandshakeRejected, cloud
  <2>2. TypeOK' /\ PhaseState' /\ WireOrder'
    BY <2>1 DEF IInv, TypeOK, PhaseState, WireOrder
  <2> QED
    BY <2>1, <2>2, ShrinkKeeps DEF IInv
<1>5. CASE ResumeFrom
  BY <1>5, ResumeFromIInv
<1>6. CASE ResumeRefused
  <2>1. /\ phase = "resuming" /\ buffer' = {} /\ phase' = "steady"
        /\ connected' = TRUE /\ dropped' = FALSE /\ replay = {} /\ wire = {}
        /\ cloudSeq = 0
        /\ UNCHANGED <<link, nextSeq, lastAck, replay, wire, cloudSeq, received,
                       acks, accepted, cut, losses>>
    BY <1>6 DEF ResumeRefused, EnterSteady, cloud, IInv, PhaseState
  <2>2. Cardinality(buffer') <= BufferSize
    BY <2>1, Shrinks
  <2>3. TypeOK' /\ PhaseState' /\ WireOrder'
    BY <2>1, <2>2 DEF IInv, TypeOK, PhaseState, WireOrder
  <2>4. Counted'
    BY <2>1, <2>3 DEF IInv, TypeOK, Counted, CountedFor
  <2> QED
    BY <2>1, <2>3, <2>4, ShrinkKeeps DEF IInv
<1>7. CASE ReplayNext
  BY <1>7, ReplayNextIInv
<1>8. CASE ReplayDone
  <2>1. /\ phase = "replaying" /\ replay = {} /\ link /\ phase' = "steady"
        /\ connected' = TRUE /\ dropped' = FALSE
        /\ UNCHANGED <<link, nextSeq, lastAck, buffer, replay, wire, cloudSeq,
                       received, acks, accepted, cut, losses>>
    BY <1>8 DEF ReplayDone, EnterSteady, cloud
  <2>2. TypeOK' /\ PhaseState' /\ WireOrder' /\ Counted'
    BY <2>1 DEF IInv, TypeOK, PhaseState, WireOrder, Counted, CountedFor
  <2> QED
    BY <2>1, <2>2, ShrinkKeeps DEF IInv
<1>9. CASE AttemptFails
  <2>1. /\ phase \in {"resuming", "replaying"} /\ ~link /\ phase' = "backoff"
        /\ replay' = {} /\ cut' = cut \cup Messages(replay)
        /\ wire' = {} /\ acks' = {}
        /\ UNCHANGED <<connected, dropped, link, nextSeq, lastAck, buffer,
                       cloudSeq, received, accepted, losses>>
    BY <1>9 DEF AttemptFails, cloud
  <2>2. Messages(replay) \subseteq accepted
    BY DEF IInv, OwedAccepted, Messages
  <2>3. TypeOK' /\ PhaseState' /\ WireOrder'
    BY <2>1, <2>2 DEF IInv, TypeOK, PhaseState, WireOrder
  <2> QED
    BY <2>1, <2>3, ShrinkKeeps DEF IInv
<1>10. CASE Teardown
  <2>1. /\ phase = "steady" /\ ~link /\ phase' = "backoff" /\ connected' = FALSE
        /\ dropped' = TRUE /\ wire' = {} /\ acks' = {}
        /\ UNCHANGED <<link, nextSeq, lastAck, buffer, replay, cloudSeq,
                       received, accepted, cut, losses>>
    BY <1>10 DEF Teardown, cloud
  <2>2. TypeOK' /\ PhaseState' /\ WireOrder'
    BY <2>1 DEF IInv, TypeOK, PhaseState, WireOrder
  <2> QED
    BY <2>1, <2>2, ShrinkKeeps DEF IInv
<1>11. CASE Stop
  <2>1. /\ phase' = "stopped" /\ connected' = FALSE /\ link' = FALSE
        /\ wire' = {} /\ acks' = {} /\ replay' = {}
        /\ cut' = cut \cup Messages(replay)
        /\ UNCHANGED <<dropped, nextSeq, lastAck, buffer, cloudSeq, received,
                       accepted, losses>>
    BY <1>11 DEF Stop, cloud
  <2>2. Messages(replay) \subseteq accepted
    BY DEF IInv, OwedAccepted, Messages
  <2>3. TypeOK' /\ PhaseState' /\ WireOrder'
    BY <2>1, <2>2 DEF IInv, TypeOK, PhaseState, WireOrder
  <2> QED
    BY <2>1, <2>3, ShrinkKeeps DEF IInv
<1>12. CASE LinkLost
  <2>1. /\ losses' = losses + 1 /\ link' = FALSE /\ wire' = {}
        /\ UNCHANGED <<phase, connected, dropped, nextSeq, lastAck, buffer,
                       replay, cloudSeq, received, acks, accepted, cut>>
    BY <1>12 DEF LinkLost, agent, cloud
  <2>2. TypeOK' /\ PhaseState' /\ WireOrder'
    <3>1. TypeOK'
      <4>1. losses' \in Nat
        BY <2>1 DEF IInv, TypeOK
      <4>2. link' \in BOOLEAN /\ wire' \subseteq Entry
        BY <2>1
      <4> QED
        BY <2>1, <4>1, <4>2 DEF IInv, TypeOK
    <3>2. PhaseState'
      BY <2>1 DEF IInv, PhaseState
    <3>3. WireOrder'
      BY <2>1 DEF IInv, WireOrder
    <3> QED
      BY <3>1, <3>2, <3>3
  <2>3. Live' => Counted'
    BY <2>1 DEF IInv, Counted, CountedFor
  <2> QED
    BY <2>1, <2>2, <2>3, ShrinkKeeps DEF IInv
<1>13. CASE CloudReads
  <2>1. PICK e \in wire : /\ First(e, wire) /\ wire' = wire \ {e}
                          /\ cloudSeq' = e.seq
                          /\ received' = received \cup {e.msg}
    BY <1>13 DEF CloudReads
  <2>2. UNCHANGED <<phase, connected, dropped, nextSeq, lastAck, buffer, replay,
                    link, acks, accepted, cut, losses>>
    BY <1>13 DEF CloudReads, agent
  <2>3. /\ Live /\ link /\ Counted /\ e.seq \in Nat \ {0} /\ e.msg \in accepted
        /\ \A f \in wire : e.seq <= f.seq /\ (f.seq = e.seq => f = e)
        /\ \A f \in wire \cup buffer : f.seq \in Nat
        /\ cloudSeq \in Nat /\ cloudSeq < e.seq
    BY <2>1 DEF IInv, PhaseState, TypeOK, Entry, OwedAccepted, Messages, First,
                WireOrder
  <2>4. TypeOK' /\ PhaseState'
    BY <2>1, <2>2, <2>3 DEF IInv, TypeOK, PhaseState
  <2>5. WireOrder'
    <3>1. \A f \in wire' : f.seq > e.seq
      BY <2>1, <2>3
    <3>2. \A n \in acks : n <= e.seq
      BY <2>3 DEF IInv, WireOrder, TypeOK
    <3> QED
      BY <2>1, <2>2, <3>1, <3>2 DEF IInv, WireOrder
  <2>6. Counted'
    <3>1. \A f \in buffer : f.seq <= e.seq => f.msg \in received'
      BY <2>1, <2>3 DEF Counted, CountedFor
    <3>2. \A f \in buffer : f.seq > e.seq => f \in wire'
      BY <2>1, <2>3 DEF Counted, CountedFor
    <3> QED
      BY <2>1, <2>2, <2>3, <3>1, <3>2 DEF Counted, CountedFor
  <2> QED
    BY <2>1, <2>2, <2>4, <2>5, <2>6, ShrinkKeeps DEF IInv
<1>14. CASE CloudAcks
  <2>1. /\ link /\ cloudSeq > 0 /\ acks' = acks \cup {cloudSeq}
        /\ UNCHANGED <<phase, connected, dropped, nextSeq, lastAck, buffer,
                       replay, link, wire, cloudSeq, received, accepted, cut,
                       losses>>
    BY <1>14 DEF CloudAcks, agent, cloud
  <2>2. Live
    BY <2>1 DEF IInv, TypeOK, PhaseState
  <2>4. TypeOK' /\ PhaseState'
    BY <2>1, <2>2 DEF IInv, TypeOK, PhaseState
  <2>5. WireOrder'
    BY <2>1 DEF IInv, TypeOK, WireOrder
  <2>3. Live' => Counted'
    BY <2>1 DEF IInv, Counted, CountedFor
  <2> QED
    BY <2>1, <2>3, <2>4, <2>5, ShrinkKeeps DEF IInv
<1>15. CASE UNCHANGED vars
  BY <1>15 DEF vars, agent, cloud, IInv, TypeOK, HeldOnce, ReplayOnce,
               PhaseState, WireOrder, OwedAccepted, Sizes, Counted, CountedFor,
               Messages
<1> QED
  BY <1>1, <1>2, <1>3, <1>4, <1>5, <1>6, <1>7, <1>8, <1>9, <1>10, <1>11,
     <1>12, <1>13, <1>14, <1>15 DEF Next

-----------------------------------------------------------------------------
(* The theorems. *)

THEOREM Invariance == Spec => []IInv
  BY InitIInv, StepIInv, PTL DEF Spec

(* The agent's state is well typed and the buffer never outgrows its size. *)
THEOREM DeliveryTyped == Spec => []TypeOK
  BY Invariance, PTL DEF IInv

(* No message is held twice and no number names two messages, through      *)
(* reconnections that start to count from 1 again.                         *)
THEOREM HeldInOnePlace == Spec => []HeldOnce
  BY Invariance, PTL DEF IInv

(* An acknowledgement never discards a message the cloud has not read.     *)
THEOREM AcksAreTruthful == Spec => AckDiscardsReceived
<1>1. IInv /\ [Next]_vars => [HandleAck => Owed \ Owed' \subseteq received]_vars
  <2> SUFFICES ASSUME IInv, HandleAck
               PROVE  Owed \ Owed' \subseteq received
    OBVIOUS
  <2>1. PICK n \in acks : /\ phase = "steady" /\ replay' = replay
                          /\ \/ buffer' = buffer
                             \/ buffer' = {e \in buffer : ~(e.seq <= n)}
    BY DEF HandleAck, Covered
  <2>2. /\ n <= cloudSeq /\ n \in Nat /\ cloudSeq \in Nat
        /\ \A e \in buffer : e.seq \in Nat
        /\ \A e \in buffer : e.seq <= cloudSeq => e.msg \in received
    BY <2>1 DEF IInv, WireOrder, TypeOK, Entry, Live, Counted, CountedFor
  <2>3. ASSUME NEW m \in Owed \ Owed'
        PROVE  m \in received
    <3>1. PICK e \in buffer \cup replay : e.msg = m
      BY <2>3 DEF Owed, Messages
    <3>2. e \in buffer /\ e \notin buffer'
      BY <2>1, <2>3, <3>1 DEF Owed, Messages
    <3>3. e.seq <= n
      BY <2>1, <3>2
    <3> QED
      BY <2>2, <3>1, <3>2, <3>3
  <2> QED
    BY <2>3
<1> QED
  BY <1>1, Invariance, PTL DEF AckDiscardsReceived, Spec

-----------------------------------------------------------------------------
(* The refinement. *)

LEMMA InitContract == Init => Contract!Init
  BY DEF Init, Contract!Init, Owed, Messages

LEMMA SendAccepts ==
  ASSUME IInv, NEW m \in Message, Send(m)
  PROVE  Contract!Accept(m)
<1>1. /\ phase = "steady" /\ connected /\ replay = {} /\ replay' = {}
      /\ m \notin accepted /\ accepted' = accepted \cup {m}
      /\ AssignSeq(m, buffer)
      /\ UNCHANGED <<connected, received, cut>>
  BY DEF Send, IInv, PhaseState, cloud
<1>2. /\ buffer \in SUBSET Entry /\ IsFiniteSet(buffer)
      /\ Cardinality(buffer) <= BufferSize
      /\ nextSeq \in Nat \ {0} /\ \A f \in buffer : f.seq < nextSeq
  BY <1>1 DEF IInv, TypeOK, Sizes, Counted, CountedFor, Live
<1> DEFINE e == NewEntry(m)
<1>3. /\ e \in Entry
      /\ \/ buffer' = buffer \cup {e}
         \/ \E v \in buffer \cup {e} : /\ Lowest(v, buffer \cup {e})
                                       /\ buffer' = (buffer \cup {e}) \ {v}
  BY <1>1, <1>2, AssignFacts
<1>4. e.msg = m
  BY DEF NewEntry
<1> HIDE DEF e
<1>5. Owed = Messages(buffer) /\ Owed' = Messages(buffer')
  BY <1>1 DEF Owed, Messages
<1>6. Messages(buffer \cup {e}) = Owed \cup {m}
  BY <1>4, <1>5 DEF Messages
<1>7. CASE buffer' = buffer \cup {e}
  BY <1>1, <1>5, <1>6, <1>7 DEF Contract!Accept
<1>8. ASSUME NEW v \in buffer \cup {e}, Lowest(v, buffer \cup {e}),
             buffer' = (buffer \cup {e}) \ {v}
      PROVE  Contract!Accept(m)
  <2>1. \A f, g \in buffer \cup {e} : f.msg = g.msg => f = g
    <3>1. \A f \in buffer : f.msg # m
      BY <1>1 DEF IInv, OwedAccepted, Messages
    <3>2. \A f, g \in buffer : f.msg = g.msg => f = g
      BY <1>2 DEF IInv, HeldOnce, Entry
    <3> QED
      BY <1>4, <3>1, <3>2
  <2>2. Owed' = (Owed \cup {m}) \ {v.msg}
    BY <1>5, <1>6, <1>8, <2>1 DEF Messages
  <2>3. v.msg \in Owed \cup {m}
    BY <1>6, <1>8 DEF Messages
  <2>4. \A f \in buffer \cup {e} : Priority[v.msg] <= Priority[f.msg]
    <3>1. \A f \in buffer \cup {e} : Priority[f.msg] \in Nat
      BY <1>2, <1>3, DeliveryAssumption DEF Entry
    <3> QED
      BY <1>8, <3>1 DEF Lowest
  <2>5. Contract!LeastImportant(v.msg, Owed \cup {m})
    BY <1>6, <2>4 DEF Contract!LeastImportant, Messages
  <2> QED
    BY <1>1, <2>2, <2>3, <2>5 DEF Contract!Accept
<1> QED
  BY <1>3, <1>7, <1>8

LEMMA ReplayKeepsOwed ==
  ASSUME IInv, ReplayNext
  PROVE  Owed' = Owed
<1>1. PICK e \in replay : AssignSeq(e.msg, buffer) /\ replay' = replay \ {e}
  BY DEF ReplayNext
<1>2. phase = "replaying" /\ e.msg \in Message
  BY <1>1 DEF ReplayNext, IInv, TypeOK, Entry
<1>3. /\ buffer \in SUBSET Entry /\ nextSeq \in Nat \ {0}
      /\ \A f \in buffer : f.seq < nextSeq
  BY <1>2 DEF IInv, TypeOK, Counted, CountedFor, Live
<1>4. /\ IsFiniteSet(buffer) /\ Cardinality(buffer) < BufferSize
      /\ Cardinality(buffer) <= BufferSize /\ Cardinality(buffer) # BufferSize
  <2>1. /\ IsFiniteSet(buffer) /\ Cardinality(buffer) < BufferSize
        /\ Cardinality(buffer) \in Nat
    BY <1>2, ReplayFits
  <2> QED
    BY <2>1, DeliveryAssumption
<1>5. buffer' = buffer \cup {NewEntry(e.msg)}
  BY <1>1, <1>2, <1>3, <1>4, AssignFacts
<1>6. NewEntry(e.msg).msg = e.msg
  BY DEF NewEntry
<1> QED
  BY <1>1, <1>5, <1>6 DEF Owed, Messages

LEMMA ResumeKeepsOwed ==
  ASSUME IInv, ResumeFrom
  PROVE  Owed' = Owed
<1>1. PICK e \in buffer : AssignSeq(e.msg, {}) /\ replay' = buffer \ {e}
  BY DEF ResumeFrom, ClearedBuffer
<1>2. phase = "resuming" /\ replay = {} /\ e.msg \in Message
  BY DEF ResumeFrom, IInv, PhaseState, TypeOK, Entry
<1>3. /\ {} \in SUBSET Entry /\ nextSeq \in Nat \ {0} /\ IsFiniteSet({})
      /\ \A f \in {} : f.seq < nextSeq
      /\ Cardinality({}) = 0 /\ Cardinality({}) <= BufferSize
      /\ Cardinality({}) # BufferSize
  BY FS_EmptySet, DeliveryAssumption DEF IInv, TypeOK
<1>4. buffer' = {} \cup {NewEntry(e.msg)}
  BY <1>1, <1>2, <1>3, AssignFacts
<1>5. NewEntry(e.msg).msg = e.msg
  BY DEF NewEntry
<1> QED
  BY <1>1, <1>2, <1>4, <1>5 DEF Owed, Messages

LEMMA StepContract == IInv /\ [Next]_vars => [Contract!Next]_(Contract!contract)
<1> SUFFICES ASSUME IInv, [Next]_vars
             PROVE  [Contract!Next]_(Contract!contract)
  OBVIOUS
<1> DEFINE Stutter == UNCHANGED <<connected, accepted, Owed, received, cut>>
<1>0. Stutter => UNCHANGED Contract!contract
  BY DEF Contract!contract
<1>1. CASE \E m \in Message : Send(m)
  BY <1>1, SendAccepts DEF Contract!Next
<1>2. CASE HandleAck
  <2>1. /\ connected /\ UNCHANGED <<connected, accepted, received, cut>>
        /\ Owed' \subseteq Owed
    BY <1>2 DEF HandleAck, IInv, PhaseState, cloud, Owed, Messages
  <2>2. Owed \ Owed' \subseteq received
    <3>1. PICK n \in acks : /\ phase = "steady" /\ replay' = replay
                            /\ \/ buffer' = buffer
                               \/ buffer' = {e \in buffer : ~(e.seq <= n)}
      BY <1>2 DEF HandleAck, Covered
    <3>2. /\ n <= cloudSeq /\ n \in Nat /\ cloudSeq \in Nat
          /\ \A e \in buffer : e.seq \in Nat
          /\ \A e \in buffer : e.seq <= cloudSeq => e.msg \in received
      BY <3>1 DEF IInv, WireOrder, TypeOK, Entry, Live, Counted, CountedFor
    <3>3. \A e \in buffer : e \in buffer' \/ e.msg \in received
      BY <3>1, <3>2
    <3> QED
      BY <3>1, <3>3 DEF Owed, Messages
  <2>3. Owed' = Owed \ (Owed \ Owed') /\ Owed \ Owed' \in SUBSET (Owed \cap received)
    BY <2>1, <2>2
  <2> QED
    BY <2>1, <2>3 DEF Contract!Next, Contract!Settle
<1>3. CASE Handshake
  <2>1. /\ UNCHANGED <<Owed, accepted, received, cut>> /\ ~connected
        /\ connected' \in {connected, TRUE}
    BY <1>3 DEF Handshake, EnterSteady, IInv, PhaseState, Owed, Messages, TypeOK
  <2>2. CASE connected' = connected
    BY <1>0, <2>1, <2>2
  <2>3. CASE connected' = TRUE
    BY <2>1, <2>3 DEF Contract!Next, Contract!Connect
  <2> QED
    BY <2>1, <2>2, <2>3
<1>4. CASE HandshakeRejected \/ LinkLost \/ CloudAcks
  BY <1>0, <1>4 DEF HandshakeRejected, LinkLost, CloudAcks, agent, cloud, Owed,
                    Messages
<1>5. CASE ResumeFrom
  <2>1. Owed' = Owed
    BY <1>5, ResumeKeepsOwed
  <2> QED
    BY <1>0, <1>5, <2>1 DEF ResumeFrom, cloud
<1>6. CASE ResumeRefused
  <2>1. /\ ~connected /\ connected' = TRUE /\ Owed' = {}
        /\ UNCHANGED <<accepted, received, cut>>
    BY <1>6 DEF ResumeRefused, EnterSteady, IInv, PhaseState, Owed, Messages,
                cloud
  <2> QED
    BY <2>1 DEF Contract!Next, Contract!Connect
<1>7. CASE ReplayNext
  <2>1. Owed' = Owed
    BY <1>7, ReplayKeepsOwed
  <2> QED
    BY <1>0, <1>7, <2>1 DEF ReplayNext, cloud
<1>8. CASE ReplayDone
  <2>1. /\ ~connected /\ connected' = TRUE /\ Owed' = Owed
        /\ UNCHANGED <<accepted, received, cut>>
    BY <1>8 DEF ReplayDone, EnterSteady, IInv, PhaseState, Owed, Messages, cloud
  <2> QED
    BY <2>1 DEF Contract!Next, Contract!Connect
<1>9. CASE AttemptFails
  <2>1. /\ ~connected /\ UNCHANGED <<connected, accepted, received>>
        /\ buffer' = buffer /\ replay' = {} /\ cut' = cut \cup Messages(replay)
    BY <1>9 DEF AttemptFails, IInv, PhaseState, cloud
  <2>2. Messages(replay) \in SUBSET Owed /\ Owed' = Owed \ Messages(replay)
    BY <2>1 DEF IInv, HeldOnce, Owed, Messages
  <2> QED
    BY <2>1, <2>2 DEF Contract!Next, Contract!CutShort
<1>10. CASE Teardown
  <2>1. /\ connected /\ connected' = FALSE
        /\ UNCHANGED <<accepted, Owed, received, cut>>
    BY <1>10 DEF Teardown, IInv, PhaseState, cloud, Owed, Messages
  <2> QED
    BY <2>1 DEF Contract!Next, Contract!Disconnect
<1>11. CASE Stop
  <2>1. /\ connected' = FALSE /\ UNCHANGED <<accepted, received>>
        /\ buffer' = buffer /\ replay' = {} /\ cut' = cut \cup Messages(replay)
    BY <1>11 DEF Stop, cloud
  <2>2. CASE connected
    <3>1. replay = {}
      BY <2>2 DEF IInv, PhaseState
    <3>2. UNCHANGED <<accepted, Owed, received, cut>>
      BY <2>1, <3>1 DEF Owed, Messages
    <3> QED
      BY <2>1, <2>2, <3>2 DEF Contract!Next, Contract!Disconnect
  <2>3. CASE ~connected
    <3>1. Messages(replay) \in SUBSET Owed /\ Owed' = Owed \ Messages(replay)
      BY <2>1 DEF IInv, HeldOnce, Owed, Messages
    <3>2. UNCHANGED connected
      BY <2>1, <2>3 DEF IInv, TypeOK
    <3> QED
      BY <2>1, <2>3, <3>1, <3>2 DEF Contract!Next, Contract!CutShort
  <2> QED
    BY <2>2, <2>3
<1>12. CASE CloudReads
  <2>1. PICK e \in wire : received' = received \cup {e.msg}
    BY <1>12 DEF CloudReads
  <2>2. UNCHANGED <<connected, accepted, Owed, cut>>
    BY <1>12 DEF CloudReads, agent, Owed, Messages
  <2>3. e.msg \in accepted /\ e.msg \in Message
    BY <2>1 DEF IInv, OwedAccepted, Messages, TypeOK, Entry
  <2> QED
    BY <2>1, <2>2, <2>3 DEF Contract!Next, Contract!Receive
<1>13. CASE UNCHANGED vars
  BY <1>0, <1>13 DEF vars, agent, cloud, Owed, Messages
<1> QED
  BY <1>1, <1>2, <1>3, <1>4, <1>5, <1>6, <1>7, <1>8, <1>9, <1>10, <1>11,
     <1>12, <1>13 DEF Next

(* The agent implements RetainUntilAcked: while connected, a message it    *)
(* accepted is given up only after the cloud has read it, or as the least  *)
(* important one of a full buffer.                                         *)
THEOREM ContractKept == Spec => KeepsContract
  BY Invariance, InitContract, StepContract, PTL
     DEF KeepsContract, Contract!Spec, Spec
=============================================================================
