--------------------------- MODULE ExchangeProps ----------------------------
(***************************************************************************)
(* What the session promises to the application and to the broker.         *)
(***************************************************************************)
EXTENDS Exchange

Arriving(type) == {i \in DOMAIN toClient : toClient[i].type = type}

Leaving(type) == {i \in DOMAIN toServer : toServer[i].type = type}

Carried(q, types) == {p \in Range(q) : p.type \in types}

(* A broker that resumes a session always finds a client that still has one:
   CLEAN_START is requested exactly when nothing is stored, and nothing is
   stored or released between the CONNECT and its CONNACK. *)
SessionPresentHasData ==
  \A i \in Arriving("CONNACK") : toClient[i].present => HaveSessionData

(* The phases of a connection: no CONNECT is on its way; the CONNECT is, and
   says what the stores say; its CONNACK is; a refusal is; it is in use. *)
NotAsked ==
  /\ toServer = <<>> /\ toClient = <<>>
  /\ ~open
  /\ connectQueued => state = "TCP_CONNECTED"

Asked ==
  /\ toServer = <<Connect(~HaveSessionData)>> /\ toClient = <<>>
  /\ ~open
  /\ state = "TCP_CONNECTED" /\ ~connectQueued

Accepted ==
  /\ toServer = <<>> /\ Arriving("CONNACK") = {1}
  /\ toClient[1].ok
  /\ ~MayMistake => (toClient[1].present => HaveSessionData)
  /\ state = "TCP_CONNECTED" /\ ~connectQueued

Refused ==
  /\ toServer = <<>> /\ toClient = <<Connack(FALSE, FALSE, granted)>>
  /\ ~open
  /\ state = "TCP_CONNECTED" /\ ~connectQueued

Running ==
  /\ state = "RUNNING" /\ ~connectQueued
  /\ Leaving("CONNECT") = {} /\ Arriving("CONNACK") = {}

(* A connection passes from NotAsked through Asked to Accepted or Refused, and
   the client handles and sends nothing else before it is RUNNING: so what its
   CONNECT said of its stores still holds when the CONNACK is handled.  The
   inductive invariant behind SessionPresentHasData. *)
InPhase ==
  \/ Running
  \/ /\ state # "RUNNING" /\ toAnswer = {}
     /\ NotAsked \/ Asked \/ Accepted \/ Refused

(* A packet of an earlier connection was answered before the CONNECT left: the
   broker accepts nothing any more. *)
Spoiled ==
  /\ outlived
  /\ toServer # <<>> /\ Head(toServer).type # "CONNECT"
  /\ toClient = <<>> /\ toAnswer = {}
  /\ ~open
  /\ state = "TCP_CONNECTED"

(* The same of a client that handled packets after the end of their connection. *)
Handshake == InPhase \/ Spoiled

(* Nothing the application handed over disappears: a message or request is
   still stored, or reached the broker, or was refused by it, or was reported
   as too big, or was dropped by _startClean together with the session it
   belonged to. *)
NoMessageLost ==
  \A m \in 1 .. nextId :
    \/ delivered[m] > 0
    \/ m \in rejected \cup abandoned \cup tooBig
    \/ \E id \in DOMAIN outbound : outbound[id].msg = m

Promise == INSTANCE Delivery WITH
  Message     <- OutMsg,
  outstanding <- {outbound[id].msg : id \in DOMAIN outbound},
  handedOn    <- delivered,
  over        <- rejected \cup tooBig \cup abandoned,
  once        <- qos2Messages

(* The session, with its stores, identifiers, flow control and resends, over a
   network that drops connections, implements Delivery: no step of a handler
   releases a packet whose message was neither handed on nor refused, the broker
   never meets a message the client has released, and messages are given up only
   all together. *)
DeliversAsPromised == Promise!Spec

(* Whatever is dropped or resent, no QoS 2 message is handed on twice. *)
ExactlyOnceOutbound == \A m \in qos2Messages : delivered[m] <= 1

(* As long as the broker keeps its session and accepts the client, no message
   is dropped, however often the connection is. *)
NothingAbandoned == ~MayExpire /\ ~MayRefuse => abandoned = {}

(* Why: a broker that neither expires nor refuses has a session whenever the
   client has one to go on with, so _startClean finds the stores empty. *)
SessionKept ==
  ~MayExpire /\ ~MayRefuse =>
    /\ abandoned = {}
    /\ HaveSessionData \/ state = "RUNNING" \/ Accepted => stored
    /\ Accepted /\ ~toClient[1].present => ~HaveSessionData
    /\ ~Refused

(* What flow control holds back is stored, unsent and queued once, so that
   _runFlow always finds the packet it pops. *)
PendingIsStored ==
  state = "RUNNING" =>
    /\ IsInjective(pending)
    /\ \A i \in DOMAIN pending :
         /\ pending[i] \in StoredPublishes
         /\ ~outbound[pending[i]].pubrec
         /\ pending[i] \notin unanswered

(* Publishing at QoS 1 only: _inflight counts the packets sent on this
   connection and not yet acknowledged, and packets wait only while it stands
   at Receive Maximum.  The exception, exactly: every exchange that ended after
   its connection had is discounted although onDisconnect had reset the count,
   and 0 - 1 is the largest uint32_t. *)
InflightExact ==
  state = "RUNNING" =>
    /\ inflight = (Cardinality(StoredPublishes \ Range(pending)) - uncounted) % Word
    /\ pending # <<>> /\ uncounted = 0 => inflight = receiveMax

(* Why: without the exception the count stays within Receive Maximum as
   announced on this connection, and covers every publish the broker holds
   unacknowledged. *)
InflightCounted ==
  state = "RUNNING" =>
    /\ inflight = Cardinality(StoredPublishes \ Range(pending))
    /\ pending # <<>> => inflight = receiveMax

FlowExact ==
  /\ InflightCounted
  /\ state = "RUNNING" =>
       inflight <= receiveMax /\ receiveMax = granted /\ unanswered \subseteq StoredPublishes
  /\ Accepted => toClient[1].rmax = granted

(* The broker never holds more unacknowledged publishes than it allowed. *)
ReceiveMaximumRespected == open => Cardinality(unanswered) <= granted

(* Publishing at QoS 1 only: a message is handed on for the first time only
   after all earlier ones, across flow control and resends. *)
HandedOnInOrder ==
  \A m \in OutMsg : delivered[m] > 0 =>
    \A n \in 1 .. m - 1 : delivered[n] > 0 \/ n \in rejected \cup abandoned \cup tooBig

Publishes == Carried(toServer, {"PUBLISH"})

(* Why: the publishes on their way and those held back are in the order of their
   identifiers, and what is neither was handed on or refused. *)
SentInOrder ==
  state = "RUNNING" =>
    /\ \A i, j \in Leaving("PUBLISH") : i < j => toServer[i].id < toServer[j].id
    /\ \A i, j \in DOMAIN pending : i < j => pending[i] < pending[j]
    /\ \A p \in Publishes, id \in Range(pending) : p.id < id
    /\ \A id \in StoredPublishes :
         \/ delivered[id] > 0 \/ id \in rejected \/ id \in Range(pending)
         \/ \E p \in Publishes : p.id = id

(* If the connection eventually stays up, every stored publish is eventually
   acknowledged: flow control leaves none behind, unless an exchange that ended
   after its connection made _inflight wrap. *)
PublishesSettle ==
  <>[](state = "RUNNING" /\ uncounted = 0) => <>[](StoredPublishes = {})

(* A message from the broker is acknowledged, on a connection the broker has
   accepted, only after the application got it. *)
AcknowledgedWasDispatched ==
  open => \A i \in Leaving("PUBACK") \cup Leaving("PUBREC") :
    /\ toServer[i].id \in DOMAIN sent
    /\ dispatched[sent[toServer[i].id].msg] > 0

(* A message the application has not seen never arrives under an identifier
   that still waits for its PUBREL. *)
FreshInbound ==
  state = "RUNNING" =>
   \A i \in Arriving("PUBLISH") :
     dispatched[toClient[i].msg] = 0 => toClient[i].id \notin inbound

(* _inbound holds no identifier the broker has finished with. *)
NoInboundLeak ==
  state = "RUNNING" => \A id \in inbound : id \in DOMAIN sent /\ sent[id].qos = 2

(* A QoS 2 message reaches the application once ("For QoS2, Only dispatch to
   the user once", H4AsyncMQTT.cpp:839). *)
ExactlyOnceInbound ==
  \A id \in DOMAIN sent : sent[id].qos = 2 => dispatched[sent[id].msg] <= 1

-----------------------------------------------------------------------------
(* The inductive invariants behind the properties above.  A packet in transit
   belongs to one of two kinds of exchange: the client's publishes and requests
   (Requests and their Replies), and the broker's publishes (Incomings and
   their Answers). *)

Asking    == {"PUBLISH", "PUBREL"} \cup RequestKinds
Replying  == {"PUBACK", "PUBREC", "PUBCOMP", "SUBACK", "UNSUBACK"}
Offering  == {"PUBLISH", "PUBREL"}
Accepting == {"PUBACK", "PUBREC", "PUBCOMP"}

Requests  == Carried(toServer, Asking)
Replies   == toAnswer \cup Carried(toClient, Replying)
Incomings == Carried(toClient, Offering)
Answers   == Carried(toServer, Accepting)

OncePerId(q, types) ==
  \A i, j \in DOMAIN q :
    q[i].type \in types /\ q[j].type \in types /\ q[i].id = q[j].id => i = j

(* Packets are in transit, and publishes in flight or held back, only on an
   established connection, once the client is RUNNING. *)
QuietUnlessRunning ==
  /\ state = "RUNNING" => linkUp
  /\ ~linkUp => toServer = <<>> /\ toClient = <<>>
  /\ state # "RUNNING" =>
       /\ pending = <<>> /\ inflight = 0
       /\ toAnswer = {} /\ unanswered = {}
       /\ Replies = {}

(* An exchange of the client takes one step at a time: of the packets that carry
   an identifier, and the places in _pending, there is one in all. *)
OneStepPerId ==
  /\ OncePerId(toServer, Asking)
  /\ OncePerId(toClient, Replying)
  /\ \A a, b \in toAnswer : a.id = b.id => a = b
  /\ \A a \in toAnswer, b \in Carried(toClient, Replying) : a.id # b.id
  /\ \A p \in Requests, a \in Replies : p.id # a.id
  /\ IsInjective(pending)
  /\ \A p \in Requests \cup Replies : p.id \notin Range(pending)

(* The packet that carries on the exchange agrees with what the client stored
   and the broker did so far. *)
RequestsMatch ==
  \A p \in Requests :
    /\ p.id \in DOMAIN outbound
    /\ p.type = "PUBREL" <=> outbound[p.id].pubrec
    /\ p.type = "PUBREL" => outbound[p.id].kind = "PUBLISH"
    /\ p.type # "PUBREL" =>
         p.type = outbound[p.id].kind /\ p.msg = p.id
    /\ p.type = "PUBLISH" => p.qos = outbound[p.id].qos

RepliesMatch ==
  \A a \in Replies :
    /\ a.id \in DOMAIN outbound
    /\ a.type = "PUBCOMP" <=> outbound[a.id].pubrec
    /\ a.type \in {"PUBACK", "PUBREC", "PUBCOMP"} <=> outbound[a.id].kind = "PUBLISH"
    /\ a.type = "PUBACK" => outbound[a.id].qos = 1
    /\ a.type = "PUBREC" => outbound[a.id].qos = 2
    /\ ~a.ok => a.id \in rejected /\ a.type \in {"PUBACK", "PUBREC"}
    /\ a.ok => IF a.type = "PUBREC" THEN a.id \in DOMAIN received2
                ELSE delivered[a.id] > 0

PendingMatch ==
  \A id \in Range(pending) : id \in StoredPublishes /\ ~outbound[id].pubrec

(* The broker counts a publish against Receive Maximum only while a step of its
   exchange other than the last is on its way. *)
UnansweredMatch ==
  \A id \in unanswered :
    \/ \E a \in toAnswer : a.id = id
    \/ \E a \in Carried(toClient, Replying) : a.id = id /\ a.type = "PUBREC" /\ a.ok
    \/ \E p \in Requests : p.id = id /\ p.type = "PUBREL"

(* An entry holds the message of its own identifier, which no later message has. *)
EntryRight(id) ==
  /\ id \in 1 .. nextId
  /\ outbound[id].msg = id
  /\ outbound[id].retries = MaxRetries
  /\ outbound[id].kind = "PUBLISH" =>
       outbound[id].qos \in PublishQoS /\ (outbound[id].qos = 2 <=> id \in qos2Messages)
  /\ outbound[id].kind # "PUBLISH" => id \notin qos2Messages
  /\ outbound[id].pubrec => outbound[id].kind = "PUBLISH" /\ outbound[id].qos = 2

StoreRight ==
  /\ \A id \in DOMAIN outbound : EntryRight(id)
  /\ rejected \cup abandoned \cup tooBig \cup qos2Messages \subseteq 1 .. nextId
  /\ \A m \in OutMsg : delivered[m] > 0 => m \in 1 .. nextId

(* QoS 2: the broker hands a message on when it forgets its identifier, which
   is after the client has forgotten to publish it. *)
HandedOnOnce ==
  /\ \A id \in DOMAIN received2 :
       received2[id] = id /\ id \in qos2Messages /\ delivered[id] = 0
  /\ \A id \in DOMAIN outbound :
       id \in qos2Messages /\ ~outbound[id].pubrec => delivered[id] = 0

(* The client and the broker go on with the session that the stores are about,
   or will if nothing else happens. *)
SessionGoesOn ==
  \/ state = "RUNNING"
  \/ stored /\ (state # "TCP_CONNECTED" \/ (linkUp /\ toClient = <<>>))
  \/ Accepted /\ toClient[1].present

ReleasedIsReceived ==
  SessionGoesOn =>
    \A id \in DOMAIN outbound :
      outbound[id].pubrec => id \in DOMAIN received2 \/ delivered[id] > 0

(* Every exchange of the client is where its packets, the stores and the
   broker's answers agree it is: behind NoMessageLost, ExactlyOnceOutbound,
   PendingIsStored and the refinement. *)
OutboundExchange ==
  /\ QuietUnlessRunning
  /\ StoreRight
  /\ HandedOnOnce
  /\ ReleasedIsReceived
  /\ OneStepPerId
  /\ RequestsMatch
  /\ RepliesMatch
  /\ PendingMatch
  /\ UnansweredMatch

(* The parts of the same of the broker's exchanges: an identifier has one offer
   and one answer under way, and never both. *)
OneOfferPerId ==
  /\ OncePerId(toClient, Offering)
  /\ OncePerId(toServer, Accepting)
  /\ \A p \in Incomings, a \in Answers : p.id # a.id

IncomingsMatch ==
  \A p \in Incomings :
    /\ p.id \in DOMAIN sent
    /\ p.type = "PUBREL" <=> sent[p.id].released
    /\ p.type = "PUBREL" => sent[p.id].qos = 2
    /\ p.type = "PUBLISH" => p.qos = sent[p.id].qos /\ p.msg = sent[p.id].msg

AnswersMatch ==
  \A a \in Answers :
    /\ a.id \in DOMAIN sent
    /\ a.type = "PUBACK" <=> sent[a.id].qos = 1
    /\ a.type = "PUBCOMP" => a.id \notin inbound
    /\ a.type # "PUBCOMP" => dispatched[sent[a.id].msg] > 0

InboundAgrees ==
  SessionGoesOn =>
    \A id \in inbound :
      id \in DOMAIN sent /\ sent[id].qos = 2 /\ dispatched[sent[id].msg] > 0

ReleasedAtQoS2 == \A id \in DOMAIN sent : sent[id].released => sent[id].qos = 2

(* The broker's exchanges: what is offered, sent again, answered and kept in
   _inbound is of one message per identifier.  Behind AcknowledgedWasDispatched,
   FreshInbound and NoInboundLeak. *)
InboundExchange ==
  /\ OneOfferPerId
  /\ ReleasedAtQoS2
  /\ IncomingsMatch
  /\ AnswersMatch
  /\ InboundAgrees
=============================================================================
