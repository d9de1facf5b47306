-------------------------------- MODULE Wire --------------------------------
(***************************************************************************)
(* The MQTT control packets that carry session state between the client    *)
(* and its broker, and the TCP connection that carries them.  A packet is  *)
(* a record of the fields its handlers read; bytes, lengths and properties *)
(* are abstracted.  QoS 0 publishes and PINGREQ/PINGRESP touch no session  *)
(* state and are left out.                                                 *)
(***************************************************************************)
EXTENDS Maps

CONSTANTS
  IdSpace,        \* PacketID arithmetic is modulo IdSpace (2^16 in the code)
  MaxPublish,     \* bound: identifiers the application consumes
  MaxInbound,     \* bound: messages the broker publishes to the client
  InIds,          \* packet identifiers the broker uses for them
  PublishQoS,     \* QoS levels the application publishes at: a subset of {1, 2}
  RequestKinds,   \* the requests made: a subset of {"SUBSCRIBE", "UNSUBSCRIBE"}
  ReceiveMaxima   \* values of Receive Maximum the broker may announce

ASSUME WireAssumption ==
  /\ IdSpace \in Nat \ {0}
  /\ MaxPublish \in Nat
  /\ MaxInbound \in Nat
  /\ InIds \subseteq Nat /\ IsFiniteSet(InIds)
  /\ PublishQoS \subseteq {1, 2}
  /\ RequestKinds \subseteq {"SUBSCRIBE", "UNSUBSCRIBE"}
  /\ ReceiveMaxima \subseteq Nat \ {0}

VARIABLES
  linkUp,    \* a TCP connection is established
  toServer,  \* packets sent by the client and not yet read by the broker
  toClient   \* packets sent by the broker and not yet handled by the client

wireVars == <<linkUp, toServer, toClient>>

PacketId == 0 .. IdSpace - 1
OutMsg   == 1 .. MaxPublish   \* 0 stands for no message
InMsg    == 1 .. MaxInbound
QoS      == {1, 2}

Connect(clean)        == [type |-> "CONNECT", clean |-> clean]
Connack(ok, present, rmax) ==
  [type |-> "CONNACK", ok |-> ok, present |-> present, rmax |-> rmax]
Publish(id, qos, msg) == [type |-> "PUBLISH", id |-> id, qos |-> qos, msg |-> msg]
Request(kind, id, msg) == [type |-> kind, id |-> id, msg |-> msg]
Ack(type, id)         == [type |-> type, id |-> id, ok |-> TRUE]
Nack(type, id)        == [type |-> type, id |-> id, ok |-> FALSE]

ServerBound ==
       [type : {"CONNECT"}, clean : BOOLEAN]
  \cup [type : {"PUBLISH"}, id : PacketId, qos : {0} \cup QoS, msg : {0} \cup OutMsg]
  \cup [type : RequestKinds, id : PacketId, msg : {0} \cup OutMsg]
  \cup [type : {"PUBREL"}, id : PacketId, ok : BOOLEAN]
  \cup [type : {"PUBACK", "PUBREC", "PUBCOMP"}, id : InIds, ok : BOOLEAN]

Reply == [type : {"PUBACK", "PUBREC", "PUBCOMP", "SUBACK", "UNSUBACK"},
          id : PacketId, ok : BOOLEAN]

ClientBound ==
       [type : {"CONNACK"}, ok : BOOLEAN, present : BOOLEAN, rmax : ReceiveMaxima]
  \cup [type : {"PUBLISH"}, id : InIds, qos : QoS, msg : InMsg]
  \cup [type : {"PUBREL"}, id : InIds, ok : BOOLEAN]
  \cup Reply

WireTypeOK ==
  /\ linkUp \in BOOLEAN
  /\ toServer \in Seq(ServerBound)
  /\ toClient \in Seq(ClientBound)

WireInit ==
  /\ linkUp = FALSE
  /\ toServer = <<>>
  /\ toClient = <<>>
=============================================================================
