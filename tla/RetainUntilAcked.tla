-------------------------- MODULE RetainUntilAcked --------------------------
(***************************************************************************)
(* What the cloud agent promises those who send through it: a message it   *)
(* accepts is owed to the cloud until the cloud has received it and says   *)
(* so.  While connected a debt ends in no other way, except that a full    *)
(* buffer gives up the least important one.  Between two connections the   *)
(* debts survive; a new connection may refuse all of them, and `cut' names *)
(* the ones a reconnection lost while it was paying them.                  *)
(***************************************************************************)
EXTENDS Naturals

CONSTANTS Message, Priority

VARIABLES connected, accepted, owed, received, cut

contract == <<connected, accepted, owed, received, cut>>

Init ==
    /\ connected = FALSE
    /\ accepted = {} /\ owed = {} /\ received = {} /\ cut = {}

LeastImportant(m, S) == \A n \in S : Priority[m] <= Priority[n]

Accept(m) ==
    /\ connected /\ m \notin accepted
    /\ accepted' = accepted \cup {m}
    /\ \/ owed' = owed \cup {m}
       \/ \E v \in owed \cup {m} : /\ LeastImportant(v, owed \cup {m})
                                   /\ owed' = (owed \cup {m}) \ {v}
    /\ UNCHANGED <<connected, received, cut>>

Receive(m) ==
    /\ m \in accepted
    /\ received' = received \cup {m}
    /\ UNCHANGED <<connected, accepted, owed, cut>>

Settle ==
    /\ connected
    /\ \E S \in SUBSET (owed \cap received) : owed' = owed \ S
    /\ UNCHANGED <<connected, accepted, received, cut>>

Connect ==
    /\ ~connected /\ connected'
    /\ owed' \in {owed, {}}
    /\ UNCHANGED <<accepted, received, cut>>

Disconnect ==
    /\ connected /\ ~connected'
    /\ UNCHANGED <<accepted, owed, received, cut>>

CutShort ==
    /\ ~connected
    /\ \E S \in SUBSET owed : /\ owed' = owed \ S
                              /\ cut' = cut \cup S
    /\ UNCHANGED <<connected, accepted, received>>

Next ==
    \/ \E m \in Message : Accept(m) \/ Receive(m)
    \/ Settle \/ Connect \/ Disconnect \/ CutShort

Spec == Init /\ [][Next]_contract
=============================================================================
