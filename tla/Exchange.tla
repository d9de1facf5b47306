------------------------------ MODULE Exchange ------------------------------
(***************************************************************************)
(* The client's session, a broker and the network between them.  The       *)
(* network drops the connection at any point; a QoS guarantee has to       *)
(* survive that.  The client does not always handle packets in the order   *)
(* they came, nor before their connection ends: _handlePacket queues the   *)
(* rest of a long segment, and goes on with a segment after it closed the  *)
(* connection itself (module Receive models both packet by packet).        *)
(***************************************************************************)
EXTENDS Session, Broker

CONSTANTS
  MaxDrops,   \* bound: connections the network drops
  MaxRest,    \* bound: packets that wait in queued rests of segments
  Beside      \* bound: calls of the application in a behaviour in which the
              \* broker publishes too

ASSUME DropAssumption == {MaxDrops, MaxRest, Beside} \subseteq Nat

VARIABLES
  drops,      \* connections dropped so far
  rest,       \* packets received and not handled when their connection ended
  outlived,   \* history: a packet was handled after the end of its connection
  uncounted   \* history: exchanges that ended so

vars == <<wireVars, sessionVars, brokerVars, drops, rest, outlived, uncounted>>

(* _handlePacket of the packets in `rest`. *)
Rest == INSTANCE Session WITH toClient <- rest

TypeOK ==
  /\ WireTypeOK
  /\ SessionTypeOK
  /\ BrokerTypeOK
  /\ drops \in 0 .. MaxDrops
  /\ rest \in Seq(ClientBound)
  /\ outlived \in BOOLEAN
  /\ uncounted \in Nat

Init ==
  /\ WireInit
  /\ SessionInit
  /\ BrokerInit
  /\ drops = 0
  /\ rest = <<>>
  /\ outlived = FALSE
  /\ uncounted = 0

(* Of the packets in toClient the first n were received: they wait in the
   segment that _handlePacket has not finished, or in its queued rest, and are
   handled although the connection is gone. *)
Saved(n) ==
  /\ n + Len(rest) <= MaxRest
  /\ n <= Len(toClient)
  /\ rest' = rest \o SubSeq(toClient, 1, n)

(* The connection ends: the network drops it, the client closes it at a packet
   it rejects, or a broker closes it after refusing the CONNECT.  A client that
   is not RUNNING waits for its CONNACK and has received nothing. *)
ConnectionLost ==
  /\ linkUp
  /\ \E n \in 0 .. (IF state = "RUNNING" THEN MaxRest ELSE 0) : Saved(n)
  /\ OnDisconnect
  /\ uncounted' = 0
  /\ ConnectionGone
  /\ UNCHANGED <<connectQueued, outbound, inbound, nextId, receiveMax,
                 dispatched, abandoned, qos2Messages, tooBig, stored, granted,
                 received2, sent, nextIn, delivered, rejected, outlived>>

NetworkDrops ==
  /\ drops < MaxDrops
  /\ drops' = drops + 1
  /\ ConnectionLost

(* The broker closes after a refusal, and on a client whose first packet is not
   CONNECT. *)
BrokerCloses ==
  /\ ~open
  /\ IF toServer = <<>> THEN ~connectQueued ELSE Head(toServer).type # "CONNECT"
  /\ toClient = <<>>
  /\ ConnectionLost
  /\ UNCHANGED drops

(* The client closes on a session it does not know. *)
ClientCloses ==
  /\ ConnackUnknownSession
  /\ uncounted' = 0
  /\ ConnectionGone
  /\ UNCHANGED <<stored, granted, received2, sent, nextIn, delivered, rejected,
                 drops, rest, outlived>>

-----------------------------------------------------------------------------
(* The H4 queue runs in order: the rests in it are handled before a CONNECT that
   was queued after them leaves. *)
ClientOnly == UNCHANGED <<brokerVars, drops, rest, outlived, uncounted>>

BrokerOnly == UNCHANGED <<sessionVars, drops, rest, outlived, uncounted>>

ClientStep ==
  \/ rest = <<>> /\ ConnectPacket /\ ClientOnly
  \/ ConnackRunning /\ ClientOnly
  \/ ConnackRefused /\ ClientOnly
  \/ PubackPubcomp  /\ ClientOnly
  \/ SubackUnsuback /\ ClientOnly
  \/ PubrecFailed   /\ ClientOnly
  \/ Pubrec         /\ ClientOnly
  \/ Pubrel         /\ ClientOnly
  \/ HandlePublish  /\ ClientOnly
  \/ ClientCloses

Establish ==
  \/ StartConnect /\ ClientOnly
  \/ OnTcpConnect /\ ClientOnly

Application ==
  /\ nextIn = 0 \/ nextId < Beside
  /\ \/ \E qos \in PublishQoS : PublishPacket(qos) /\ ClientOnly
     \/ \E kind \in RequestKinds : MultiTopic(kind) /\ ClientOnly
     \/ \E qos \in PublishQoS : PacketTooBig("PUBLISH", qos) /\ ClientOnly
     \/ \E kind \in RequestKinds : PacketTooBig(kind, 0) /\ ClientOnly

BrokerStep ==
  \/ AcceptResume         /\ BrokerOnly
  \/ AcceptNew            /\ BrokerOnly
  \/ ReceivePublish1      /\ BrokerOnly
  \/ ReceivePublish2      /\ BrokerOnly
  \/ ReceivePubrel        /\ BrokerOnly
  \/ ReceiveRequest       /\ BrokerOnly
  \/ Answer               /\ BrokerOnly
  \/ ReceivePubackPubcomp /\ BrokerOnly
  \/ ReceivePubrec        /\ BrokerOnly

BrokerChoice ==
  \/ Refuse        /\ BrokerOnly
  \/ RejectPublish /\ BrokerOnly
  \/ Expire        /\ BrokerOnly
  \/ nextId <= Beside /\ \E qos \in QoS : BrokerPublish(qos) /\ BrokerOnly

(* A packet waits in a queued rest, and the one behind it came in a segment that
   is handled first. *)
Overtaken ==
  /\ state = "RUNNING"
  /\ \E i \in 1 .. Len(toClient) - 1 :
       toClient' = [toClient EXCEPT ![i] = toClient[i + 1], ![i + 1] = toClient[i]]
  /\ UNCHANGED <<linkUp, toServer, sessionVars, brokerVars, drops, rest,
                 outlived, uncounted>>

(* The handlers that run _publishEnd: after the end of the connection they
   discount a publish from an _inflight that onDisconnect has reset. *)
RestEnds == Rest!PubackPubcomp \/ Rest!PubrecFailed

(* _handlePacket of a packet whose connection has ended. *)
RestStep ==
  /\ \/ RestEnds /\ uncounted' = uncounted + 1
     \/ /\ \/ Rest!SubackUnsuback
           \/ Rest!Pubrec
           \/ Rest!Pubrel
           \/ Rest!HandlePublish
        /\ UNCHANGED uncounted
  /\ outlived' = TRUE
  /\ UNCHANGED <<toClient, brokerVars, drops>>

(* What happens as long as every packet is handled on its connection. *)
InTurn ==
  \/ ClientStep
  \/ Establish
  \/ Application
  \/ BrokerStep
  \/ BrokerChoice
  \/ NetworkDrops
  \/ BrokerCloses
  \/ Overtaken

Next == InTurn \/ RestStep

(* The H4 loop runs queued functions and the network's callbacks, the
   reconnector fires every 5 s, and a broker reads and answers.  Nothing makes
   the application publish, the network fail or a session expire. *)
Fairness ==
  /\ WF_vars(ClientStep)
  /\ WF_vars(Establish)
  /\ WF_vars(BrokerStep)
  /\ WF_vars(BrokerCloses)
  /\ WF_vars(RestStep)

Spec == Init /\ [][Next]_vars

FairSpec == Spec /\ Fairness
=============================================================================
