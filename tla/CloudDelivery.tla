---------------------------- MODULE CloudDelivery ----------------------------
(***************************************************************************)
(* How the cloud agent (openavc/cloud/agent.py, sequencer.py) gets its     *)
(* upstream messages to the cloud: sequence numbers, the bounded buffer of *)
(* messages not yet acknowledged, acknowledgements, and the resume and     *)
(* replay of a reconnection.  An action is the code of the agent between   *)
(* two awaits, or a step of the cloud.  `phase' is where the connection    *)
(* loop is suspended:                                                      *)
(*                                                                         *)
(*   backoff    between two connections, handshake included                *)
(*   resuming   send_resume: waiting for resume_from                       *)
(*   replaying  _replay_buffered: at the send of one message               *)
(*   steady     _await_steady_state, and the teardown after it             *)
(*   stopped    stop() was called, or the cloud rejected the agent for good*)
(*                                                                         *)
(* The cloud reads one connection in order, acknowledges the highest       *)
(* sequence number it has read and answers a resume with "replay           *)
(* everything" (agent.py:598-603).                                         *)
(***************************************************************************)
EXTENDS Naturals, FiniteSets

CONSTANTS
    Message,       \* the messages a run may send, each once
    Priority,      \* message -> its MESSAGE_PRIORITY
    BufferSize,    \* _max_buffer_size
    MaxLosses      \* bound: how often a connection may be lost

ASSUME DeliveryAssumption ==
    /\ Priority \in [Message -> Nat]
    /\ BufferSize \in Nat \ {0}
    /\ MaxLosses \in Nat

VARIABLES
    phase,         \* where _connection_loop is
    connected,     \* _connected
    dropped,       \* _disconnect_time is set
    link,          \* the socket carries data and the session is valid
    nextSeq,       \* _next_seq
    lastAck,       \* _last_ack_seq
    buffer,        \* _send_buffer
    replay,        \* what _replay_buffered has still to send
    wire,          \* sent on this connection and not yet read by the cloud
    cloudSeq,      \* cloud: highest sequence number read on this connection
    acks,          \* acknowledgements on their way to the agent
    accepted,      \* history: messages sequenced so far
    received,      \* history: messages the cloud has read
    cut,           \* history: messages lost by a replay that was cut short
    losses         \* connections lost so far

agent == <<phase, connected, dropped, nextSeq, lastAck, buffer, replay>>
cloud == <<cloudSeq, received>>
vars  == <<agent, link, wire, cloud, acks, accepted, cut, losses>>

Entry == [seq : Nat \ {0}, msg : Message]

TypeOK ==
    /\ phase \in {"backoff", "resuming", "replaying", "steady", "stopped"}
    /\ connected \in BOOLEAN /\ dropped \in BOOLEAN /\ link \in BOOLEAN
    /\ nextSeq \in Nat \ {0} /\ lastAck \in Nat
    /\ Cardinality(buffer) <= BufferSize
    /\ buffer \subseteq Entry /\ replay \subseteq Entry /\ wire \subseteq Entry
    /\ cloudSeq \in Nat /\ acks \subseteq Nat
    /\ accepted \subseteq Message /\ received \subseteq accepted
    /\ cut \subseteq accepted
    /\ losses \in Nat

Messages(entries) == {e.msg : e \in entries}

(* What the agent still means to deliver. *)
Owed == Messages(buffer \cup replay)

First(e, entries) == e \in entries /\ \A f \in entries : e.seq <= f.seq

-----------------------------------------------------------------------------
(* The sequencer. *)

HighestEvicted(e, entries) ==
    /\ e \in entries
    /\ \A f \in entries : Priority[e.msg] >= Priority[f.msg]

Lowest(e, entries) ==
    /\ e \in entries
    /\ \A f \in entries : \/ Priority[e.msg] < Priority[f.msg]
                          \/ Priority[e.msg] = Priority[f.msg] /\ e.seq <= f.seq

(* _send_buffer is a dict: an entry under the same number is overwritten.  *)
Filed(e, entries) == {f \in entries : f.seq # e.seq} \cup {e}

OverfullByTwo(entries) == Cardinality(entries) > BufferSize + 1

Overfull(entries) == Cardinality(entries) > BufferSize

(* assign_seq, with the buffer it finds *)
AssignSeq(m, entries) ==
    LET e     == [seq |-> nextSeq, msg |-> m]
        filed == Filed(e, entries)
    IN  /\ nextSeq' = nextSeq + 1
        /\ IF Overfull(filed)
           THEN \E v \in filed : Lowest(v, filed) /\ buffer' = filed \ {v}
           ELSE buffer' = filed
        /\ wire' = IF link THEN wire \cup {e} ELSE wire

Covered(e, n) == e.seq <= n

(* handle_ack *)
HandleAck ==
    /\ phase = "steady"
    /\ \E n \in acks :
           /\ acks' = acks \ {n}
           /\ IF n <= lastAck
              THEN UNCHANGED <<lastAck, buffer>>
              ELSE /\ lastAck' = n
                   /\ buffer' = {e \in buffer : ~Covered(e, n)}
    /\ UNCHANGED <<phase, connected, dropped, link, nextSeq, replay, wire,
                   cloud, accepted, cut, losses>>

ResetUpstreamOnly == nextSeq' = 1 /\ UNCHANGED lastAck

(* reset_for_new_session *)
ResetForNewSession == nextSeq' = 1 /\ lastAck' = 0

-----------------------------------------------------------------------------
(* The connection loop. *)

Init ==
    /\ phase = "backoff"
    /\ connected = FALSE /\ dropped = FALSE /\ link = FALSE
    /\ nextSeq = 1 /\ lastAck = 0
    /\ buffer = {} /\ replay = {} /\ wire = {}
    /\ cloudSeq = 0 /\ acks = {}
    /\ accepted = {} /\ received = {} /\ cut = {}
    /\ losses = 0

EnterSteady == phase' = "steady" /\ connected' = TRUE /\ dropped' = FALSE

(* _connect_and_run: a resume only after a disconnect, with something held *)
ResumeDue == dropped /\ buffer # {}

(* connect, handshake, reset_for_new_session, up to the resume or steady   *)
Handshake ==
    /\ phase = "backoff"
    /\ link' = TRUE /\ wire' = {} /\ acks' = {} /\ cloudSeq' = 0
    /\ ResetForNewSession
    /\ IF ResumeDue
       THEN phase' = "resuming" /\ UNCHANGED <<connected, dropped>>
       ELSE EnterSteady
    /\ UNCHANGED <<buffer, replay, received, accepted, cut, losses>>

(* unknown_system, no_key, bad_system_id, version_mismatch: no retry *)
HandshakeRejected ==
    /\ phase = "backoff"
    /\ phase' = "stopped"
    /\ UNCHANGED <<connected, dropped, link, nextSeq, lastAck, buffer, replay,
                   wire, cloud, acks, accepted, cut, losses>>

(* _replay_buffered clears the buffer before it files the messages anew *)
ClearedBuffer == {}

(* resume_from arrives; the first message is filed and sent at once *)
ResumeFrom ==
    /\ phase = "resuming" /\ link
    /\ phase' = "replaying"
    /\ \E e \in buffer : /\ First(e, buffer)
                         /\ AssignSeq(e.msg, ClearedBuffer)
                         /\ replay' = buffer \ {e}
    /\ UNCHANGED <<connected, dropped, link, lastAck, cloud, acks, accepted,
                   cut, losses>>

ReplayNext ==
    /\ phase = "replaying" /\ link
    /\ \E e \in replay : /\ First(e, replay)
                         /\ AssignSeq(e.msg, buffer)
                         /\ replay' = replay \ {e}
    /\ UNCHANGED <<phase, connected, dropped, link, lastAck, cloud, acks,
                   accepted, cut, losses>>

ReplayDone ==
    /\ phase = "replaying" /\ replay = {} /\ link
    /\ EnterSteady
    /\ UNCHANGED <<link, nextSeq, lastAck, buffer, replay, wire, cloud, acks,
                   accepted, cut, losses>>

(* HandshakeError of send_resume: wrong reply, or none in time *)
ResumeRefused ==
    /\ phase = "resuming"
    /\ buffer' = {}
    /\ EnterSteady
    /\ UNCHANGED <<link, nextSeq, lastAck, replay, wire, cloud, acks, accepted,
                   cut, losses>>

(* A connection that fails, or is closed with the session, outside steady  *)
(* state: the exception leaves _connect_and_run; `_disconnect_time' stays. *)
AttemptFails ==
    /\ phase \in {"resuming", "replaying"} /\ ~link
    /\ phase' = "backoff"
    /\ replay' = {}
    /\ cut' = cut \cup Messages(replay)
    /\ wire' = {} /\ acks' = {}
    /\ UNCHANGED <<connected, dropped, link, nextSeq, lastAck, buffer, cloud,
                   accepted, losses>>

(* a steady task ended; the loop records the disconnect *)
Teardown ==
    /\ phase = "steady" /\ ~link
    /\ phase' = "backoff"
    /\ connected' = FALSE
    /\ dropped' = TRUE
    /\ wire' = {} /\ acks' = {}
    /\ UNCHANGED <<link, nextSeq, lastAck, buffer, replay, cloud, accepted,
                   cut, losses>>

(* stop(): nothing is persisted, what is buffered dies with the agent *)
Stop ==
    /\ phase # "stopped"
    /\ phase' = "stopped" /\ connected' = FALSE /\ link' = FALSE
    /\ wire' = {} /\ acks' = {}
    /\ cut' = cut \cup Messages(replay) /\ replay' = {}
    /\ UNCHANGED <<dropped, nextSeq, lastAck, buffer, cloud, accepted, losses>>

-----------------------------------------------------------------------------
(* Senders, the network and the cloud. *)

(* send_message and _send_signed past their gates *)
Send(m) ==
    /\ connected /\ m \notin accepted
    /\ accepted' = accepted \cup {m}
    /\ AssignSeq(m, buffer)
    /\ UNCHANGED <<phase, connected, dropped, link, lastAck, replay, cloud,
                   acks, cut, losses>>

(* The socket breaks, the cloud closes it, the watchdog closes a silent    *)
(* one, or the session is declared invalid.                                *)
LinkLost ==
    /\ link /\ losses < MaxLosses
    /\ losses' = losses + 1
    /\ link' = FALSE /\ wire' = {}
    /\ UNCHANGED <<agent, cloud, acks, accepted, cut>>

CloudReads ==
    /\ \E e \in wire : /\ First(e, wire)
                       /\ wire' = wire \ {e}
                       /\ cloudSeq' = e.seq
                       /\ received' = received \cup {e.msg}
    /\ UNCHANGED <<agent, link, acks, accepted, cut, losses>>

CloudAcks ==
    /\ link /\ cloudSeq > 0 /\ cloudSeq \notin acks /\ lastAck < cloudSeq
    /\ acks' = acks \cup {cloudSeq}
    /\ UNCHANGED <<agent, link, wire, cloud, accepted, cut, losses>>

Next ==
    \/ \E m \in Message : Send(m)
    \/ HandleAck
    \/ Handshake \/ HandshakeRejected
    \/ ResumeFrom \/ ResumeRefused \/ ReplayNext \/ ReplayDone
    \/ AttemptFails \/ Teardown \/ Stop
    \/ LinkLost \/ CloudReads \/ CloudAcks

Spec == Init /\ [][Next]_vars

(* The loop retries for ever and its awaits return; a connection that      *)
(* stays up is read and acknowledged by the cloud.                         *)
Fairness ==
    /\ WF_vars(Handshake) /\ WF_vars(Teardown) /\ WF_vars(AttemptFails)
    /\ WF_vars(ResumeFrom \/ ResumeRefused)
    /\ WF_vars(ReplayNext) /\ WF_vars(ReplayDone)
    /\ WF_vars(CloudReads) /\ WF_vars(CloudAcks) /\ WF_vars(HandleAck)

FairSpec == Spec /\ Fairness

-----------------------------------------------------------------------------
(* Properties. *)

(* An acknowledgement discards only messages the cloud has read, although  *)
(* both sides count from 1 again on each connection and the buffer holds   *)
(* messages of an earlier count (handle_ack, reset_for_new_session).       *)
AckDiscardsReceived ==
    [][HandleAck => Owed \ Owed' \subseteq received]_vars

(* Nothing the agent holds is overwritten by a message that takes its      *)
(* number: each message is held once, each number names one message        *)
(* (assign_seq, _replay_buffered "not duplicated old + new entries").      *)
HeldOnce ==
    /\ \A e, f \in buffer : (e.msg = f.msg) <=> (e.seq = f.seq)
    /\ Messages(buffer) \cap Messages(replay) = {}

(* The buffer drains: on a link that stays up every message it holds is    *)
(* acknowledged, also after a reconnection ("Left un-reset ... the buffer  *)
(* would never drain", reset_for_new_session).                             *)
BufferDrains ==
    \A m \in Message : m \in Owed ~> (m \notin Owed \/ phase = "stopped")

(* The agent keeps the contract of RetainUntilAcked. *)
Contract == INSTANCE RetainUntilAcked WITH owed <- Owed

KeepsContract == Contract!Spec
=============================================================================
