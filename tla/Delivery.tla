------------------------------ MODULE Delivery ------------------------------
(***************************************************************************)
(* What the client promises to the application about its publishes and     *)
(* requests, without packets, identifiers or connections: each is          *)
(* outstanding until it was handed on by the broker, or was refused; what  *)
(* is given up is given up together, with the session; a QoS 2 message is  *)
(* handed on once.                                                         *)
(***************************************************************************)
EXTENDS Naturals

CONSTANT Message

VARIABLES
  outstanding,   \* messages the client still answers for
  handedOn,      \* how often each was handed on
  over,          \* messages refused, too big, or given up
  once           \* the messages of QoS 2

vars == <<outstanding, handedOn, over, once>>

Init ==
  /\ outstanding = {}
  /\ handedOn = [m \in Message |-> 0]
  /\ over = {}
  /\ once = {}

New(m) == m \notin outstanding \cup over \cup once /\ handedOn[m] = 0

Submit(m) ==
  /\ New(m)
  /\ outstanding' = outstanding \cup {m}
  /\ once' \in {once, once \cup {m}}
  /\ UNCHANGED <<handedOn, over>>

TooBig(m) ==
  /\ New(m)
  /\ over' = over \cup {m}
  /\ UNCHANGED <<outstanding, handedOn, once>>

HandOn(m) ==
  /\ m \in outstanding
  /\ m \in once => handedOn[m] = 0
  /\ handedOn' = [handedOn EXCEPT ![m] = @ + 1]
  /\ UNCHANGED <<outstanding, over, once>>

Refuse(m) ==
  /\ m \in outstanding
  /\ over' = over \cup {m}
  /\ UNCHANGED <<outstanding, handedOn, once>>

Settle(m) ==
  /\ m \in outstanding
  /\ handedOn[m] > 0 \/ m \in over
  /\ outstanding' = outstanding \ {m}
  /\ UNCHANGED <<handedOn, over, once>>

GiveUp ==
  /\ over' = over \cup outstanding
  /\ outstanding' = {}
  /\ UNCHANGED <<handedOn, once>>

Next ==
  \/ \E m \in Message : \/ Submit(m) \/ TooBig(m) \/ HandOn(m) \/ Refuse(m) \/ Settle(m)
  \/ GiveUp

Spec == Init /\ [][Next]_vars
=============================================================================
