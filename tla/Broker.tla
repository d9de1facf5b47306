------------------------------- MODULE Broker -------------------------------
(***************************************************************************)
(* The MQTT 5 broker at the other end, external to the repository: what    *)
(* the client's code relies on.  It keeps at most one session for the      *)
(* client, answers every packet, in any order, hands a QoS 2 message on    *)
(* when its PUBREL arrives, and retransmits its own unfinished messages    *)
(* when a session is resumed.                                              *)
(***************************************************************************)
EXTENDS Wire

CONSTANTS
  MayExpire,   \* the session may expire while the client is away
  MayRefuse,   \* the broker may refuse a CONNECT
  MayReject,   \* it may answer a publish with an error
  MayMistake   \* it may announce a session to a client that asked for none

ASSUME BrokerAssumption ==
  /\ MayExpire \in BOOLEAN
  /\ MayRefuse \in BOOLEAN
  /\ MayReject \in BOOLEAN
  /\ MayMistake \in BOOLEAN

VARIABLES
  stored,       \* a session is stored for the client
  open,         \* the current connection's CONNECT was accepted
  granted,      \* Receive Maximum announced on the current connection
  received2,    \* session: QoS 2 messages received and not released, by identifier
  sent,         \* session: messages sent and not acknowledged, by identifier
  toAnswer,     \* answers due on the current connection
  unanswered,   \* publishes received on it and not finally acknowledged
  nextIn,       \* messages published to the client so far
  delivered,    \* history: how often each message was handed on, or
                \* each request executed
  rejected      \* history: messages refused with an error code

brokerVars == <<stored, open, granted, received2, sent, toAnswer, unanswered,
                nextIn, delivered, rejected>>

(* A message to the client that it has not acknowledged. *)
SentEntry == [qos : QoS, msg : InMsg, released : BOOLEAN]

BrokerTypeOK ==
  /\ stored \in BOOLEAN
  /\ open \in BOOLEAN
  /\ granted \in ReceiveMaxima
  /\ DOMAIN received2 \subseteq PacketId
  /\ \A id \in DOMAIN received2 : received2[id] \in {0} \cup OutMsg
  /\ DOMAIN sent \subseteq InIds
  /\ \A id \in DOMAIN sent : sent[id] \in SentEntry
  /\ toAnswer \subseteq Reply
  /\ unanswered \subseteq PacketId
  /\ nextIn \in 0 .. MaxInbound
  /\ delivered \in [OutMsg -> Nat]
  /\ rejected \subseteq {0} \cup OutMsg

BrokerInit ==
  /\ stored = FALSE
  /\ open = FALSE
  /\ granted \in ReceiveMaxima
  /\ received2 = EmptyMap
  /\ sent = EmptyMap
  /\ toAnswer = {}
  /\ unanswered = {}
  /\ nextIn = 0
  /\ delivered = [m \in OutMsg |-> 0]
  /\ rejected = {}

-----------------------------------------------------------------------------
Incoming(type) ==
  /\ linkUp
  /\ open \/ type = "CONNECT"
  /\ toServer # <<>>
  /\ Head(toServer).type = type

Read == toServer' = Tail(toServer)

(* A resumed session starts with the unfinished messages, in order. *)
Retransmission(order) ==
  [i \in DOMAIN order |->
     IF sent[order[i]].released THEN Ack("PUBREL", order[i])
     ELSE Publish(order[i], sent[order[i]].qos, sent[order[i]].msg)]

AcceptResume ==
  /\ Incoming("CONNECT")
  /\ ~Head(toServer).clean
  /\ stored
  /\ Read
  /\ open' = TRUE
  /\ \E rmax \in ReceiveMaxima, order \in Ascending(DOMAIN sent) :
       /\ granted' = rmax
       /\ toClient' = (toClient \o <<Connack(TRUE, TRUE, rmax)>>)
                        \o Retransmission(order)
  /\ UNCHANGED <<linkUp, stored, received2, sent, toAnswer, unanswered, nextIn,
                 delivered, rejected>>

AcceptNew ==
  /\ Incoming("CONNECT")
  /\ Head(toServer).clean \/ ~stored
  /\ Read
  /\ open' = TRUE
  /\ stored' = TRUE
  /\ received2' = EmptyMap
  /\ sent' = EmptyMap
  /\ \E rmax \in ReceiveMaxima,
        present \in {FALSE} \cup (IF MayMistake /\ Head(toServer).clean
                                  THEN {TRUE} ELSE {}) :
       /\ granted' = rmax
       /\ toClient' = toClient \o <<Connack(TRUE, present, rmax)>>
  /\ UNCHANGED <<linkUp, toAnswer, unanswered, nextIn, delivered, rejected>>

Refuse ==
  /\ MayRefuse
  /\ Incoming("CONNECT")
  /\ Read
  /\ toClient' = Append(toClient, Connack(FALSE, FALSE, granted))
  /\ UNCHANGED <<linkUp, brokerVars>>

(* A QoS 1 message is handed on as it arrives. *)
ReceivePublish1 ==
  /\ Incoming("PUBLISH")
  /\ Head(toServer).qos = 1
  /\ Read
  /\ LET p == Head(toServer)
     IN /\ unanswered' = unanswered \cup {p.id}
        /\ delivered' = [delivered EXCEPT ![p.msg] = @ + 1]
        /\ toAnswer' = toAnswer \cup {Ack("PUBACK", p.id)}
  /\ UNCHANGED <<linkUp, toClient, stored, open, granted, received2, sent,
                 nextIn, rejected>>

(* A QoS 2 message is stored under its identifier; a second copy is only
   acknowledged. *)
ReceivePublish2 ==
  /\ Incoming("PUBLISH")
  /\ Head(toServer).qos = 2
  /\ Read
  /\ LET p == Head(toServer)
     IN /\ unanswered' = unanswered \cup {p.id}
        /\ received2' = IF p.id \in DOMAIN received2 THEN received2
                        ELSE Put(received2, p.id, p.msg)
        /\ toAnswer' = toAnswer \cup {Ack("PUBREC", p.id)}
  /\ UNCHANGED <<linkUp, toClient, stored, open, granted, sent, nextIn,
                 delivered, rejected>>

RejectPublish ==
  /\ MayReject
  /\ Incoming("PUBLISH")
  /\ Head(toServer).id \notin DOMAIN received2
  /\ Read
  /\ LET p == Head(toServer)
     IN /\ unanswered' = unanswered \cup {p.id}
        /\ rejected' = rejected \cup {p.msg}
        /\ toAnswer' = toAnswer \cup
             {Nack(IF p.qos = 1 THEN "PUBACK" ELSE "PUBREC", p.id)}
  /\ UNCHANGED <<linkUp, toClient, stored, open, granted, received2, sent,
                 nextIn, delivered>>

(* PUBREL hands the stored message on; an unknown identifier is answered
   all the same. *)
ReceivePubrel ==
  /\ Incoming("PUBREL")
  /\ Read
  /\ LET id == Head(toServer).id
     IN /\ delivered' = IF id \in DOMAIN received2
                        THEN [delivered EXCEPT ![received2[id]] = @ + 1]
                        ELSE delivered
        /\ received2' = Drop(received2, id)
        /\ toAnswer' = toAnswer \cup {Ack("PUBCOMP", id)}
  /\ UNCHANGED <<linkUp, toClient, stored, open, granted, sent, unanswered,
                 nextIn, rejected>>

ReceiveRequest ==
  /\ \E kind \in RequestKinds : Incoming(kind)
  /\ Read
  /\ delivered' = [delivered EXCEPT ![Head(toServer).msg] = @ + 1]
  /\ toAnswer' = toAnswer \cup
       {Ack(IF Head(toServer).type = "SUBSCRIBE" THEN "SUBACK" ELSE "UNSUBACK",
            Head(toServer).id)}
  /\ UNCHANGED <<linkUp, toClient, stored, open, granted, received2, sent,
                 unanswered, nextIn, rejected>>

(* Answers leave in any order.  All but a successful PUBREC end the
   broker's count of the publish against Receive Maximum. *)
Answer ==
  /\ linkUp
  /\ \E a \in toAnswer :
       /\ toAnswer' = toAnswer \ {a}
       /\ toClient' = Append(toClient, a)
       /\ unanswered' = IF a.type = "PUBREC" /\ a.ok THEN unanswered
                        ELSE unanswered \ {a.id}
  /\ UNCHANGED <<linkUp, toServer, stored, open, granted, received2, sent,
                 nextIn, delivered, rejected>>

(* The broker publishes a message to the client under a free identifier. *)
BrokerPublish(qos) ==
  /\ linkUp
  /\ open
  /\ nextIn < MaxInbound
  /\ nextIn' = nextIn + 1
  /\ \E id \in InIds \ DOMAIN sent :
       /\ sent' = Put(sent, id, [qos |-> qos, msg |-> nextIn', released |-> FALSE])
       /\ toClient' = Append(toClient, Publish(id, qos, nextIn'))
  /\ UNCHANGED <<linkUp, toServer, stored, open, granted, received2, toAnswer,
                 unanswered, delivered, rejected>>

ReceivePubackPubcomp ==
  /\ Incoming("PUBACK") \/ Incoming("PUBCOMP")
  /\ Read
  /\ sent' = Drop(sent, Head(toServer).id)
  /\ UNCHANGED <<linkUp, toClient, stored, open, granted, received2, toAnswer,
                 unanswered, nextIn, delivered, rejected>>

ReceivePubrec ==
  /\ Incoming("PUBREC")
  /\ Read
  /\ LET id == Head(toServer).id
     IN IF id \in DOMAIN sent
        THEN /\ sent' = [sent EXCEPT ![id].released = TRUE]
             /\ toClient' = Append(toClient, Ack("PUBREL", id))
        ELSE /\ toClient' = Append(toClient, Nack("PUBREL", id))
             /\ UNCHANGED sent
  /\ UNCHANGED <<linkUp, stored, open, granted, received2, toAnswer, unanswered,
                 nextIn, delivered, rejected>>

Expire ==
  /\ MayExpire
  /\ ~linkUp
  /\ stored
  /\ stored' = FALSE
  /\ received2' = EmptyMap
  /\ sent' = EmptyMap
  /\ UNCHANGED <<wireVars, open, granted, toAnswer, unanswered, nextIn,
                 delivered, rejected>>

(* The connection is gone; the session stays. *)
ConnectionGone ==
  /\ open' = FALSE
  /\ toAnswer' = {}
  /\ unanswered' = {}
=============================================================================
