-------------------------- MODULE Exchange_proofs ---------------------------
(***************************************************************************)
(* Type correctness of the composed session, for every value of the        *)
(* constants, and its handshake: a broker that resumes a session finds a   *)
(* client that still has it.  What the CONNECT says of the client's stores *)
(* must still be true when the CONNACK arrives, so nothing but the CONNACK *)
(* may be handled between.                                                 *)
(***************************************************************************)
EXTENDS ExchangeProps, Maps_proofs

-----------------------------------------------------------------------------
(* Packets. *)

(* What the client sends once it is RUNNING. *)
ServerData == {p \in ServerBound : p.type # "CONNECT"}

LEMMA ServerBoundPackets ==
  ASSUME NEW id \in PacketId, NEW qos \in {0} \cup QoS, NEW msg \in {0} \cup OutMsg
  PROVE  /\ Publish(id, qos, msg) \in ServerBound
         /\ \A kind \in RequestKinds : Request(kind, id, msg) \in ServerBound
         /\ Ack("PUBREL", id) \in ServerBound
  BY DEF Publish, Request, Ack, ServerBound

LEMMA ServerDataSubset == ServerData \subseteq ServerBound
  BY DEF ServerData

LEMMA ServerDataPackets ==
  ASSUME WireAssumption,
         NEW id \in PacketId, NEW qos \in {0} \cup QoS, NEW msg \in {0} \cup OutMsg
  PROVE  /\ Publish(id, qos, msg) \in ServerData
         /\ \A kind \in RequestKinds : Request(kind, id, msg) \in ServerData
         /\ Ack("PUBREL", id) \in ServerData
  <1>1. /\ Publish(id, qos, msg).type # "CONNECT"
        /\ \A kind \in RequestKinds : Request(kind, id, msg).type # "CONNECT"
        /\ Ack("PUBREL", id).type # "CONNECT"
    BY WireAssumption DEF Publish, Request, Ack
  <1>2. QED BY <1>1, ServerBoundPackets DEF ServerData

LEMMA ConnectPacketInSet == \A clean \in BOOLEAN : Connect(clean) \in ServerBound
  BY DEF Connect, ServerBound

LEMMA AnswerPackets ==
  ASSUME NEW id \in InIds
  PROVE  /\ Ack("PUBACK", id) \in ServerBound
         /\ Ack("PUBREC", id) \in ServerBound
         /\ Ack("PUBCOMP", id) \in ServerBound
  BY DEF Ack, ServerBound

LEMMA ReplyPackets ==
  ASSUME NEW id \in PacketId
  PROVE  \A type \in {"PUBACK", "PUBREC", "PUBCOMP", "SUBACK", "UNSUBACK"} :
           Ack(type, id) \in Reply /\ Nack(type, id) \in Reply
  BY DEF Ack, Nack, Reply

LEMMA ClientBoundPackets ==
  /\ \A ok, present \in BOOLEAN, rmax \in ReceiveMaxima :
       Connack(ok, present, rmax) \in ClientBound
  /\ \A id \in InIds, qos \in QoS, msg \in InMsg :
       Publish(id, qos, msg) \in ClientBound
  /\ \A id \in InIds : Ack("PUBREL", id) \in ClientBound /\ Nack("PUBREL", id) \in ClientBound
  /\ Reply \subseteq ClientBound
  BY DEF Connack, Publish, Ack, Nack, ClientBound

LEMMA ClientBoundFields ==
  ASSUME NEW p \in ClientBound, WireAssumption
  PROVE  /\ p.type = "CONNACK" => /\ p.rmax \in Nat \ {0}
                                  /\ p.ok \in BOOLEAN
                                  /\ p.present \in BOOLEAN
         /\ p.type = "PUBLISH" => /\ p.id \in InIds
                                  /\ p.qos \in QoS
                                  /\ p.msg \in InMsg
         /\ p.type = "PUBREL" => p.id \in InIds
         /\ p.type \in {"PUBACK", "PUBREC", "PUBCOMP", "SUBACK", "UNSUBACK"} =>
              p.id \in PacketId
  BY DEF ClientBound, Reply, WireAssumption

LEMMA ServerBoundFields ==
  ASSUME NEW p \in ServerBound, WireAssumption
  PROVE  /\ p.type \in {"PUBLISH"} \cup RequestKinds =>
              p.id \in PacketId /\ p.msg \in {0} \cup OutMsg
         /\ p.type = "PUBREL" => p.id \in PacketId
         /\ p.type \in {"PUBACK", "PUBREC", "PUBCOMP"} => p.id \in InIds
  BY DEF ServerBound, WireAssumption

LEMMA ReceivedPacket ==
  ASSUME WireTypeOK, NEW type, Receive(type)
  PROVE  /\ Head(toClient) \in ClientBound
         /\ Head(toClient).type = type
         /\ Tail(toClient) \in Seq(ClientBound)
  BY DEF WireTypeOK, Receive

LEMMA ReadPacket ==
  ASSUME WireTypeOK, NEW type, Incoming(type)
  PROVE  /\ Head(toServer) \in ServerBound
         /\ Head(toServer).type = type
         /\ Tail(toServer) \in Seq(ServerBound)
  BY DEF WireTypeOK, Incoming

-----------------------------------------------------------------------------
(* The helpers of the handlers. *)

LEMMA PacketIdFinite ==
  ASSUME WireAssumption PROVE IsFiniteSet(PacketId)
  BY FS_Interval DEF PacketId, WireAssumption

LEMMA OutboundType ==
  ASSUME SessionTypeOK
  PROVE  /\ DOMAIN outbound \subseteq PacketId
         /\ \A id \in DOMAIN outbound : outbound[id] \in Entry
  BY DEF SessionTypeOK

LEMMA SendType ==
  ASSUME NEW S, toServer \in Seq(S), NEW packets \in Seq(S), Send(packets)
  PROVE  toServer' \in Seq(S)
  BY ConcatType DEF Send

LEMMA SendOneType ==
  ASSUME NEW S, toServer \in Seq(S), NEW p \in S, Send(<<p>>)
  PROVE  toServer' \in Seq(S)
  <1>1. <<p>> \in Seq(S)
    OBVIOUS
  <1>2. QED BY <1>1, SendType

LEMMA StoredPacketType ==
  ASSUME WireAssumption, SessionTypeOK, NEW id \in DOMAIN outbound
  PROVE  StoredPacket(id) \in ServerData
  <1>1. id \in PacketId /\ outbound[id] \in Entry
    BY OutboundType
  <1>2. /\ outbound[id].kind \in {"PUBLISH"} \cup RequestKinds
        /\ outbound[id].qos \in {0} \cup QoS
        /\ outbound[id].msg \in {0} \cup OutMsg
    BY <1>1 DEF Entry
  <1>3. QED BY <1>1, <1>2, ServerDataPackets DEF StoredPacket

LEMMA AckOutboundType ==
  ASSUME SessionTypeOK, NEW id, AckOutbound(id)
  PROVE  /\ DOMAIN outbound' \subseteq PacketId
         /\ \A i \in DOMAIN outbound' : outbound'[i] \in Entry
  BY OutboundType, DropType DEF AckOutbound

LEMMA StartCleanType ==
  ASSUME SessionTypeOK, StartClean
  PROVE  /\ inbound' \subseteq InIds
         /\ DOMAIN outbound' = {}
         /\ abandoned' \subseteq {0} \cup OutMsg
  <1>1. \A id \in DOMAIN outbound : outbound[id].msg \in {0} \cup OutMsg
    BY OutboundType DEF Entry
  <1>2. QED BY <1>1, EmptyMapType DEF StartClean, SessionTypeOK

LEMMA PublishEndType ==
  ASSUME WireAssumption, SessionAssumption, SessionTypeOK,
         NEW S, ServerData \subseteq S, toServer \in Seq(S),
         NEW store, DOMAIN store \subseteq DOMAIN outbound, PublishEnd(store)
  PROVE  /\ toServer' \in Seq(S)
         /\ pending' \in Seq(PacketId)
         /\ inflight' \in 0 .. Word - 1
  <1>1. CASE pending = <<>>
    BY <1>1, SessionAssumption DEF PublishEnd, SessionTypeOK
  <1>2. CASE pending # <<>> /\ Head(pending) \in DOMAIN store
    <2>1. StoredPacket(Head(pending)) \in S
      BY <1>2, StoredPacketType
    <2>2. Send(<<StoredPacket(Head(pending))>>) /\ pending' = Tail(pending) /\ UNCHANGED inflight
      BY <1>2 DEF PublishEnd, RunFlow
    <2>3. toServer' \in Seq(S)
      BY <2>1, <2>2, SendOneType
    <2>4. QED BY <1>2, <2>2, <2>3 DEF SessionTypeOK
  <1>3. CASE pending # <<>> /\ Head(pending) \notin DOMAIN store
    BY <1>3 DEF PublishEnd, RunFlow, SessionTypeOK
  <1>4. QED BY <1>1, <1>2, <1>3

LEMMA ResendType ==
  ASSUME WireAssumption, SessionAssumption, SessionTypeOK,
         NEW S, ServerData \subseteq S, toServer \in Seq(S), NEW rmax \in Nat \ {0}, ResendPartialTxns(rmax)
  PROVE  /\ toServer' \in Seq(S)
         /\ pending' \in Seq(PacketId)
         /\ inflight' \in 0 .. Word - 1
         /\ DOMAIN outbound' \subseteq PacketId
         /\ \A i \in DOMAIN outbound' : outbound'[i] \in Entry
  <1> DEFINE kept  == DOMAIN outbound \ Spent
             rels  == kept \cap Released
             pubs  == {id \in kept \cap StoredPublishes : id # 0} \ rels
             room  == Room(rmax)
  <1>1. PICK order \in Ascending(pubs) :
          LET fit == IF Len(order) <= room THEN Len(order) ELSE room
              now == {order[i] : i \in 1 .. fit}
          IN \E batch \in Ascending(rels \cup now) :
               /\ toServer' = toServer \o
                    [i \in DOMAIN batch |-> IF batch[i] \in rels
                                           THEN Ack("PUBREL", batch[i])
                                           ELSE StoredPacket(batch[i])]
               /\ pending' = pending \o SubSeq(order, fit + 1, Len(order))
               /\ inflight' = (inflight + fit) % Word
               /\ outbound' = Restrict(outbound, kept)
    BY DEF ResendPartialTxns
  <1> DEFINE fit == IF Len(order) <= room THEN Len(order) ELSE room
             now == {order[i] : i \in 1 .. fit}
  <1>2. PICK batch \in Ascending(rels \cup now) :
          /\ toServer' = toServer \o
               [i \in DOMAIN batch |-> IF batch[i] \in rels
                                      THEN Ack("PUBREL", batch[i])
                                      ELSE StoredPacket(batch[i])]
          /\ pending' = pending \o SubSeq(order, fit + 1, Len(order))
          /\ inflight' = (inflight + fit) % Word
          /\ outbound' = Restrict(outbound, kept)
    BY <1>1
  <1>3. kept \subseteq DOMAIN outbound /\ rels \subseteq kept /\ pubs \subseteq kept
    OBVIOUS
  <1>4. inflight \in 0 .. Word - 1 /\ pending \in Seq(PacketId)
    BY DEF SessionTypeOK
  <1> HIDE DEF kept, rels, pubs, room
  <1>5. room \in Nat
    BY <1>4, SessionAssumption DEF room, Room
  <1>6. order \in Seq(pubs) /\ Len(order) \in Nat
    <2>1. IsFiniteSet(pubs)
      BY <1>3, OutboundType, PacketIdFinite, FS_Subset
    <2>2. QED BY <2>1, AscendingType
  <1>7. fit \in 0 .. Len(order)
    BY <1>5, <1>6
  <1>8. now \subseteq pubs
    BY <1>6, <1>7
  <1> HIDE DEF fit, now
  <1>9. batch \in Seq(rels \cup now)
    <2>1. IsFiniteSet(rels \cup now)
      BY <1>3, <1>8, OutboundType, PacketIdFinite, FS_Subset
    <2>2. QED BY <2>1, AscendingType
  <1>10. toServer' \in Seq(S)
    <2> DEFINE out == [i \in DOMAIN batch |-> IF batch[i] \in rels
                                             THEN Ack("PUBREL", batch[i])
                                             ELSE StoredPacket(batch[i])]
    <2>1. ASSUME NEW i \in DOMAIN batch PROVE out[i] \in S
      <3>1. batch[i] \in DOMAIN outbound
        BY <1>3, <1>8, <1>9
      <3>2. Ack("PUBREL", batch[i]) \in S
        BY <3>1, OutboundType, ServerDataPackets
      <3>3. StoredPacket(batch[i]) \in S
        BY <3>1, StoredPacketType
      <3>4. QED BY <3>2, <3>3
    <2>2. out \in Seq(S)
      BY <1>9, <2>1
    <2>3. QED BY <1>2, <2>2, ConcatType
  <1>11. pending' \in Seq(PacketId)
    <2>1. order \in Seq(PacketId)
      BY <1>3, <1>6, OutboundType
    <2>2. SubSeq(order, fit + 1, Len(order)) \in Seq(PacketId)
      BY <1>7, <2>1
    <2>3. QED BY <1>2, <1>4, <2>2
  <1>12. inflight' \in 0 .. Word - 1
    BY <1>2, <1>4, <1>6, <1>7, SessionAssumption
  <1>13. /\ DOMAIN outbound' \subseteq PacketId
         /\ \A i \in DOMAIN outbound' : outbound'[i] \in Entry
    BY <1>2, <1>3, OutboundType, RestrictType
  <1>14. QED BY <1>10, <1>11, <1>12, <1>13

-----------------------------------------------------------------------------
(* The initial states. *)

LEMMA InitType == Init => TypeOK
  <1> SUFFICES ASSUME Init PROVE TypeOK
    OBVIOUS
  <1>1. WireTypeOK
    <2>1. linkUp = FALSE /\ toServer = <<>> /\ toClient = <<>>
      BY DEF Init, WireInit
    <2>2. QED BY <2>1, EmptySeqType DEF WireTypeOK
  <1>2. SessionTypeOK
    <2>1. outbound = EmptyMap /\ inbound = {} /\ pending = <<>> /\ inflight = 0 /\ nextId = 0
      BY DEF Init, SessionInit
    <2>2. /\ state \in State
          /\ connectQueued = FALSE
          /\ abandoned = {}
          /\ qos2Messages = {}
          /\ tooBig = {}
      BY DEF Init, SessionInit, State
    <2>3. receiveMax \in Nat \ {0} /\ dispatched \in [InMsg -> Nat]
      BY SessionAssumption DEF Init, SessionInit
    <2>4. 0 \in 0 .. Word - 1 /\ 0 \in 0 .. MaxPublish
      BY SessionAssumption, WireAssumption
    <2>5. /\ DOMAIN outbound \subseteq PacketId
          /\ \A id \in DOMAIN outbound : outbound[id] \in Entry
      BY <2>1, EmptyMapType
    <2>6. connectQueued \in BOOLEAN /\ pending \in Seq(PacketId)
      BY <2>1, <2>2, EmptySeqType
    <2>7. QED BY <2>1, <2>2, <2>3, <2>4, <2>5, <2>6 DEF SessionTypeOK
  <1>3. BrokerTypeOK
    <2>1. received2 = EmptyMap /\ sent = EmptyMap /\ nextIn = 0
      BY DEF Init, BrokerInit
    <2>2. /\ stored = FALSE
          /\ open = FALSE
          /\ granted \in ReceiveMaxima
          /\ toAnswer = {}
          /\ unanswered = {}
          /\ delivered \in [OutMsg -> Nat]
          /\ rejected = {}
      BY WireAssumption DEF Init, BrokerInit
    <2>3. 0 \in 0 .. MaxInbound
      BY WireAssumption
    <2>4. QED BY <2>1, <2>2, <2>3, EmptyMapType DEF BrokerTypeOK
  <1>4. drops \in 0 .. MaxDrops
    BY DropAssumption DEF Init
  <1>5. rest \in Seq(ClientBound) /\ outlived \in BOOLEAN /\ uncounted \in Nat
    BY EmptySeqType DEF Init
  <1>6. QED BY <1>1, <1>2, <1>3, <1>4, <1>5 DEF TypeOK

-----------------------------------------------------------------------------
(* The client's steps leave the broker alone, and the other way round. *)

(* What was received on an ended connection, and the history about it. *)
RestTypeOK ==
  /\ rest \in Seq(ClientBound)
  /\ outlived \in BOOLEAN
  /\ uncounted \in Nat

LEMMA ClientOnlyType ==
  ASSUME TypeOK, ClientOnly
  PROVE  BrokerTypeOK' /\ (drops \in 0 .. MaxDrops)' /\ RestTypeOK'
  BY DEF TypeOK, ClientOnly, brokerVars, BrokerTypeOK, RestTypeOK

LEMMA BrokerOnlyType ==
  ASSUME TypeOK, BrokerOnly
  PROVE  SessionTypeOK' /\ (drops \in 0 .. MaxDrops)' /\ RestTypeOK'
  BY DEF TypeOK, BrokerOnly, sessionVars, SessionTypeOK, RestTypeOK

(* Each of the client's steps keeps the types of the wire and the session. *)

ClientSide == WireTypeOK /\ SessionTypeOK

LEMMA ConnectPacketType == ClientSide /\ ConnectPacket => ClientSide'
  <1> SUFFICES ASSUME ClientSide, ConnectPacket PROVE ClientSide'
    OBVIOUS
  <1>1. toServer' \in Seq(ServerBound)
    BY ConnectPacketInSet, SendOneType DEF ConnectPacket, ClientSide, HaveSessionData, WireTypeOK
  <1>2. WireTypeOK'
    BY <1>1 DEF ConnectPacket, ClientSide, WireTypeOK
  <1>3. SessionTypeOK'
    BY DEF ConnectPacket, ClientSide, SessionTypeOK
  <1>4. QED BY <1>2, <1>3 DEF ClientSide

LEMMA EstablishType == ClientSide /\ (StartConnect \/ OnTcpConnect) => ClientSide'
  <1> SUFFICES ASSUME ClientSide, StartConnect \/ OnTcpConnect PROVE ClientSide'
    OBVIOUS
  <1>1. CASE StartConnect
    BY <1>1 DEF StartConnect, ClientSide, WireTypeOK, SessionTypeOK, wireVars, State
  <1>2. CASE OnTcpConnect
    BY <1>2 DEF OnTcpConnect, ClientSide, WireTypeOK, SessionTypeOK, State
  <1>3. QED BY <1>1, <1>2

LEMMA ConnackRunningType ==
  WireAssumption /\ SessionAssumption /\ ClientSide /\ ConnackRunning => ClientSide'
  <1> SUFFICES ASSUME WireAssumption, SessionAssumption, ClientSide, ConnackRunning
               PROVE  ClientSide'
    OBVIOUS
  <1> DEFINE connack == Head(toClient)
  <1>1. /\ connack \in ClientBound
        /\ connack.type = "CONNACK"
        /\ Tail(toClient) \in Seq(ClientBound)
    BY ReceivedPacket DEF ConnackRunning, ClientSide
  <1>2. connack.rmax \in Nat \ {0}
    BY <1>1, ClientBoundFields
  <1>3. /\ toServer' \in Seq(ServerBound)
        /\ pending' \in Seq(PacketId)
        /\ inflight' \in 0 .. Word - 1
        /\ DOMAIN outbound' \subseteq PacketId
        /\ \A i \in DOMAIN outbound' : outbound'[i] \in Entry
        /\ inbound' \subseteq InIds
        /\ abandoned' \subseteq {0} \cup OutMsg
    <2>1. CASE connack.present
      <3>1. ResendPartialTxns(connack.rmax) /\ UNCHANGED <<inbound, abandoned>>
        BY <2>1 DEF ConnackRunning
      <3>2. QED BY <1>2, <3>1, ResendType, ServerDataSubset DEF ClientSide, SessionTypeOK, WireTypeOK
    <2>2. CASE ~connack.present
      <3>1. StartClean /\ UNCHANGED <<toServer, pending, inflight>>
        BY <2>2 DEF ConnackRunning
      <3>2. QED BY <3>1, StartCleanType DEF ClientSide, SessionTypeOK, WireTypeOK
    <2>3. QED BY <2>1, <2>2
  <1>4. WireTypeOK'
    BY <1>1, <1>3 DEF ConnackRunning, Consume, ClientSide, WireTypeOK
  <1>5. SessionTypeOK'
    BY <1>2, <1>3 DEF ConnackRunning, ClientSide, SessionTypeOK, State
  <1>6. QED BY <1>4, <1>5 DEF ClientSide

LEMMA ConnackRefusedType == ClientSide /\ ConnackRefused => ClientSide'
  <1> SUFFICES ASSUME ClientSide, ConnackRefused PROVE ClientSide'
    OBVIOUS
  <1>1. Tail(toClient) \in Seq(ClientBound)
    BY ReceivedPacket DEF ConnackRefused, ClientSide
  <1>2. WireTypeOK'
    BY <1>1 DEF ConnackRefused, Consume, ClientSide, WireTypeOK
  <1>3. inbound' \subseteq InIds /\ DOMAIN outbound' = {} /\ abandoned' \subseteq {0} \cup OutMsg
    BY StartCleanType DEF ConnackRefused, ClientSide
  <1>4. SessionTypeOK'
    BY <1>3 DEF ConnackRefused, ClientSide, SessionTypeOK
  <1>5. QED BY <1>2, <1>4 DEF ClientSide

LEMMA PubackPubcompType ==
  WireAssumption /\ SessionAssumption /\ ClientSide /\ PubackPubcomp => ClientSide'
  <1> SUFFICES ASSUME WireAssumption, SessionAssumption, ClientSide, PubackPubcomp
               PROVE  ClientSide'
    OBVIOUS
  <1>1. Tail(toClient) \in Seq(ClientBound)
    BY ReceivedPacket DEF PubackPubcomp, ClientSide
  <1>2. /\ toServer' \in Seq(ServerBound)
        /\ pending' \in Seq(PacketId)
        /\ inflight' \in 0 .. Word - 1
    BY PublishEndType, ServerDataSubset DEF PubackPubcomp, ClientSide, WireTypeOK
  <1>3. /\ DOMAIN outbound' \subseteq PacketId
        /\ \A i \in DOMAIN outbound' : outbound'[i] \in Entry
    BY AckOutboundType DEF PubackPubcomp, ClientSide
  <1>4. WireTypeOK'
    BY <1>1, <1>2 DEF PubackPubcomp, Consume, ClientSide, WireTypeOK
  <1>5. SessionTypeOK'
    BY <1>2, <1>3 DEF PubackPubcomp, ClientSide, SessionTypeOK
  <1>6. QED BY <1>4, <1>5 DEF ClientSide

LEMMA SubackUnsubackType == ClientSide /\ SubackUnsuback => ClientSide'
  <1> SUFFICES ASSUME ClientSide, SubackUnsuback PROVE ClientSide'
    OBVIOUS
  <1>1. Tail(toClient) \in Seq(ClientBound)
    BY ReceivedPacket DEF SubackUnsuback, ClientSide
  <1>2. /\ DOMAIN outbound' \subseteq PacketId
        /\ \A i \in DOMAIN outbound' : outbound'[i] \in Entry
    BY AckOutboundType DEF SubackUnsuback, ClientSide
  <1>3. WireTypeOK'
    BY <1>1 DEF SubackUnsuback, Consume, ClientSide, WireTypeOK
  <1>4. SessionTypeOK'
    BY <1>2 DEF SubackUnsuback, ClientSide, SessionTypeOK
  <1>5. QED BY <1>3, <1>4 DEF ClientSide

LEMMA PubrecFailedType ==
  WireAssumption /\ SessionAssumption /\ ClientSide /\ PubrecFailed => ClientSide'
  <1> SUFFICES ASSUME WireAssumption, SessionAssumption, ClientSide, PubrecFailed
               PROVE  ClientSide'
    OBVIOUS
  <1>1. Tail(toClient) \in Seq(ClientBound)
    BY ReceivedPacket DEF PubrecFailed, ClientSide
  <1>2. DOMAIN Drop(outbound, Head(toClient).id) \subseteq DOMAIN outbound
    BY DEF Drop, Restrict
  <1>3. /\ toServer' \in Seq(ServerBound)
        /\ pending' \in Seq(PacketId)
        /\ inflight' \in 0 .. Word - 1
    BY <1>2, PublishEndType, ServerDataSubset DEF PubrecFailed, ClientSide, WireTypeOK
  <1>4. /\ DOMAIN outbound' \subseteq PacketId
        /\ \A i \in DOMAIN outbound' : outbound'[i] \in Entry
    BY AckOutboundType DEF PubrecFailed, ClientSide
  <1>5. WireTypeOK'
    BY <1>1, <1>3 DEF PubrecFailed, Consume, ClientSide, WireTypeOK
  <1>6. SessionTypeOK'
    BY <1>3, <1>4 DEF PubrecFailed, ClientSide, SessionTypeOK
  <1>7. QED BY <1>5, <1>6 DEF ClientSide

LEMMA PubrecType ==
  WireAssumption /\ SessionAssumption /\ ClientSide /\ Pubrec => ClientSide'
  <1> SUFFICES ASSUME WireAssumption, SessionAssumption, ClientSide, Pubrec
               PROVE  ClientSide'
    OBVIOUS
  <1> DEFINE id == Head(toClient).id
             fresh == [kind |-> "PUBLISH", qos |-> 0, msg |-> 0, pubrec |-> FALSE,
                       retries |-> MaxRetries, freed |-> TRUE]
             entry == IF id \in DOMAIN outbound THEN outbound[id] ELSE fresh
  <1>1. Tail(toClient) \in Seq(ClientBound) /\ id \in PacketId
    BY ReceivedPacket, ClientBoundFields DEF Pubrec, ClientSide
  <1>2. /\ outbound' = Put(outbound, id, [entry EXCEPT !.pubrec = TRUE])
        /\ Send(<<Ack("PUBREL", id)>>)
    BY DEF Pubrec
  <1>3. Ack("PUBREL", id) \in ServerBound
    BY <1>1 DEF Ack, ServerBound
  <1>4. toServer' \in Seq(ServerBound)
    BY <1>2, <1>3, SendOneType DEF ClientSide, WireTypeOK
  <1>5. entry \in Entry
    BY OutboundType, SessionAssumption DEF ClientSide, Entry
  <1>6. [entry EXCEPT !.pubrec = TRUE] \in Entry
    <2> HIDE DEF entry
    <2> QED BY <1>5 DEF Entry
  <1>7. /\ DOMAIN outbound' \subseteq PacketId
        /\ \A i \in DOMAIN outbound' : outbound'[i] \in Entry
    <2> DEFINE changed == [entry EXCEPT !.pubrec = TRUE]
    <2>1. changed \in Entry /\ outbound' = Put(outbound, id, changed)
      BY <1>2, <1>6
    <2> HIDE DEF changed, id
    <2>2. QED BY <1>1, <2>1, OutboundType, PutType DEF ClientSide
  <1>8. WireTypeOK'
    BY <1>1, <1>4 DEF Pubrec, Consume, ClientSide, WireTypeOK
  <1>9. SessionTypeOK'
    BY <1>7 DEF Pubrec, ClientSide, SessionTypeOK
  <1>10. QED BY <1>8, <1>9 DEF ClientSide

LEMMA PubrelType == WireAssumption /\ ClientSide /\ Pubrel => ClientSide'
  <1> SUFFICES ASSUME WireAssumption, ClientSide, Pubrel PROVE ClientSide'
    OBVIOUS
  <1>1. Tail(toClient) \in Seq(ClientBound) /\ Head(toClient).id \in InIds
    BY ReceivedPacket, ClientBoundFields DEF Pubrel, ClientSide
  <1>2. toServer' \in Seq(ServerBound)
    BY <1>1, AnswerPackets, SendOneType DEF Pubrel, ClientSide, WireTypeOK
  <1>3. WireTypeOK'
    BY <1>1, <1>2 DEF Pubrel, Consume, ClientSide, WireTypeOK
  <1>4. SessionTypeOK'
    BY DEF Pubrel, ClientSide, SessionTypeOK
  <1>5. QED BY <1>3, <1>4 DEF ClientSide

LEMMA HandlePublishType == WireAssumption /\ ClientSide /\ HandlePublish => ClientSide'
  <1> SUFFICES ASSUME WireAssumption, ClientSide, HandlePublish PROVE ClientSide'
    OBVIOUS
  <1> DEFINE p == Head(toClient)
  <1>1. Tail(toClient) \in Seq(ClientBound) /\ p.id \in InIds /\ p.msg \in InMsg
    BY ReceivedPacket, ClientBoundFields DEF HandlePublish, ClientSide
  <1>2. Send(<<Ack("PUBACK", p.id)>>) \/ Send(<<Ack("PUBREC", p.id)>>)
    BY DEF HandlePublish
  <1>3. toServer' \in Seq(ServerBound)
    BY <1>1, <1>2, AnswerPackets, SendOneType DEF ClientSide, WireTypeOK
  <1>4. inbound' \subseteq InIds
    BY <1>1 DEF HandlePublish, ClientSide, SessionTypeOK
  <1>5. dispatched' \in [InMsg -> Nat]
    BY <1>1 DEF HandlePublish, Despatch, ClientSide, SessionTypeOK
  <1>6. WireTypeOK'
    BY <1>1, <1>3 DEF HandlePublish, Consume, ClientSide, WireTypeOK
  <1>7. SessionTypeOK'
    BY <1>4, <1>5 DEF HandlePublish, ClientSide, SessionTypeOK
  <1>8. QED BY <1>6, <1>7 DEF ClientSide

LEMMA NewEntryType ==
  ASSUME WireAssumption, SessionAssumption, ClientSide, nextId < MaxPublish,
         NEW kind \in {"PUBLISH"} \cup RequestKinds, NEW qos \in {0} \cup QoS
  PROVE  /\ nextId + 1 \in OutMsg /\ nextId + 1 \in 0 .. MaxPublish
         /\ (nextId + 1) % IdSpace \in PacketId
         /\ NewEntry(kind, qos) \in Entry
  <1>1. nextId + 1 \in OutMsg /\ nextId + 1 \in 0 .. MaxPublish
    BY WireAssumption DEF ClientSide, SessionTypeOK, OutMsg
  <1>2. (nextId + 1) % IdSpace \in PacketId
    <2>1. nextId + 1 \in Nat /\ IdSpace \in Nat \ {0}
      BY <1>1, WireAssumption
    <2>2. QED BY <2>1, ModType DEF PacketId
  <1>3. NewEntry(kind, qos) \in Entry
    BY <1>1, SessionAssumption DEF NewEntry, Entry
  <1>4. QED BY <1>1, <1>2, <1>3

LEMMA PublishPacketType ==
  ASSUME WireAssumption, SessionAssumption, NEW qos \in QoS,
         ClientSide, PublishPacket(qos)
  PROVE  ClientSide'
  <1> DEFINE id == nextId' % IdSpace
  <1>1. nextId' = nextId + 1 /\ nextId < MaxPublish
    BY DEF PublishPacket
  <1>2. /\ nextId' \in OutMsg /\ nextId' \in 0 .. MaxPublish
        /\ id \in PacketId
        /\ NewEntry("PUBLISH", qos) \in Entry
    BY <1>1, NewEntryType
  <1>3. Publish(id, qos, nextId') \in ServerBound
    BY <1>2, ServerBoundPackets
  <1>4. outbound' = Put(outbound, id, NewEntry("PUBLISH", qos))
    BY DEF PublishPacket
  <1>5. /\ DOMAIN outbound' \subseteq PacketId
        /\ \A i \in DOMAIN outbound' : outbound'[i] \in Entry
    <2> HIDE DEF id
    <2> QED BY <1>2, <1>4, OutboundType, PutType DEF ClientSide
  <1>6. /\ toServer' \in Seq(ServerBound)
        /\ pending' \in Seq(PacketId)
        /\ inflight' \in 0 .. Word - 1
    <2>1. CASE UNCHANGED <<inflight, toServer>> /\ pending' = Append(pending, id)
      BY <1>2, <2>1 DEF ClientSide, WireTypeOK, SessionTypeOK
    <2>2. CASE /\ inflight' \in {inflight, (inflight + 1) % Word}
               /\ Send(<<Publish(id, qos, nextId')>>)
               /\ UNCHANGED pending
      <3>1. toServer' \in Seq(ServerBound)
        BY <1>3, <2>2, SendOneType DEF ClientSide, WireTypeOK
      <3>2. inflight' \in 0 .. Word - 1
        BY <2>2, SessionAssumption DEF ClientSide, SessionTypeOK
      <3>3. QED BY <2>2, <3>1, <3>2 DEF ClientSide, SessionTypeOK
    <2>3. QED BY <2>1, <2>2 DEF PublishPacket
  <1>7. WireTypeOK'
    BY <1>6 DEF PublishPacket, ClientSide, WireTypeOK
  <1>8. qos2Messages' \subseteq OutMsg
    BY <1>2 DEF PublishPacket, ClientSide, SessionTypeOK
  <1>9. SessionTypeOK'
    BY <1>2, <1>5, <1>6, <1>8 DEF PublishPacket, ClientSide, SessionTypeOK
  <1>10. QED BY <1>7, <1>9 DEF ClientSide

LEMMA MultiTopicType ==
  ASSUME WireAssumption, SessionAssumption, NEW kind \in RequestKinds,
         ClientSide, MultiTopic(kind)
  PROVE  ClientSide'
  <1> DEFINE id == nextId' % IdSpace
  <1>1. nextId' = nextId + 1 /\ nextId < MaxPublish
    BY DEF MultiTopic
  <1>2. /\ nextId' \in OutMsg /\ nextId' \in 0 .. MaxPublish
        /\ id \in PacketId
        /\ NewEntry(kind, 0) \in Entry
    BY <1>1, NewEntryType
  <1>3. outbound' = Put(outbound, id, NewEntry(kind, 0)) /\ Send(<<Request(kind, id, nextId')>>)
    BY DEF MultiTopic
  <1>4. toServer' \in Seq(ServerBound)
    <2>1. Request(kind, id, nextId') \in ServerBound
      BY <1>2 DEF Request, ServerBound
    <2>2. QED BY <1>3, <2>1, SendOneType DEF ClientSide, WireTypeOK
  <1>5. /\ DOMAIN outbound' \subseteq PacketId
        /\ \A i \in DOMAIN outbound' : outbound'[i] \in Entry
    <2> HIDE DEF id
    <2> QED BY <1>2, <1>3, OutboundType, PutType DEF ClientSide
  <1>6. WireTypeOK'
    BY <1>4 DEF MultiTopic, ClientSide, WireTypeOK
  <1>7. SessionTypeOK'
    BY <1>2, <1>5 DEF MultiTopic, ClientSide, SessionTypeOK
  <1>8. QED BY <1>6, <1>7 DEF ClientSide

LEMMA PacketTooBigType ==
  ASSUME WireAssumption, SessionAssumption, ClientSide,
         NEW kind \in {"PUBLISH"} \cup RequestKinds, NEW qos \in {0} \cup QoS,
         PacketTooBig(kind, qos)
  PROVE  ClientSide'
  <1> DEFINE id == nextId' % IdSpace
  <1>1. nextId' = nextId + 1 /\ nextId < MaxPublish
    BY DEF PacketTooBig
  <1>2. /\ nextId' \in OutMsg /\ nextId' \in 0 .. MaxPublish
        /\ id \in PacketId
        /\ NewEntry(kind, qos) \in Entry
    BY <1>1, NewEntryType
  <1>3. outbound' \in {Put(outbound, id, NewEntry(kind, qos)), Drop(outbound, id)}
    BY DEF PacketTooBig
  <1>4. /\ DOMAIN outbound' \subseteq PacketId
        /\ \A i \in DOMAIN outbound' : outbound'[i] \in Entry
    <2> HIDE DEF id
    <2>1. CASE outbound' = Put(outbound, id, NewEntry(kind, qos))
      BY <1>2, <2>1, OutboundType, PutType DEF ClientSide
    <2>2. CASE outbound' = Drop(outbound, id)
      BY <2>2, OutboundType, DropType DEF ClientSide
    <2>3. QED BY <1>3, <2>1, <2>2
  <1>5. WireTypeOK'
    BY DEF PacketTooBig, wireVars, ClientSide, WireTypeOK
  <1>6. tooBig' \subseteq OutMsg
    BY <1>2 DEF PacketTooBig, ClientSide, SessionTypeOK
  <1>7. SessionTypeOK'
    BY <1>2, <1>4, <1>6 DEF PacketTooBig, ClientSide, SessionTypeOK
  <1>8. QED BY <1>5, <1>7 DEF ClientSide

-----------------------------------------------------------------------------
(* Each of the broker's steps keeps the types of the wire and the broker. *)

BrokerSide == WireTypeOK /\ BrokerTypeOK

LEMMA Received2Type ==
  ASSUME BrokerTypeOK
  PROVE  /\ DOMAIN received2 \subseteq PacketId
         /\ \A id \in DOMAIN received2 : received2[id] \in {0} \cup OutMsg
  BY DEF BrokerTypeOK

LEMMA SentType ==
  ASSUME BrokerTypeOK
  PROVE  /\ DOMAIN sent \subseteq InIds
         /\ \A id \in DOMAIN sent : sent[id] \in SentEntry
  BY DEF BrokerTypeOK

LEMMA RetransmissionType ==
  ASSUME WireAssumption, BrokerTypeOK, NEW order \in Ascending(DOMAIN sent)
  PROVE  Retransmission(order) \in Seq(ClientBound)
  <1>1. order \in Seq(DOMAIN sent)
    BY SentType, WireAssumption, FS_Subset, AscendingType
  <1>2. ASSUME NEW id \in DOMAIN sent
        PROVE  /\ Ack("PUBREL", id) \in ClientBound
               /\ Publish(id, sent[id].qos, sent[id].msg) \in ClientBound
    BY SentType, ClientBoundPackets DEF SentEntry
  <1> DEFINE packet(i) == IF sent[order[i]].released THEN Ack("PUBREL", order[i])
                         ELSE Publish(order[i], sent[order[i]].qos, sent[order[i]].msg)
  <1>3. \A i \in 1 .. Len(order) : packet(i) \in ClientBound
    BY <1>1, <1>2
  <1>4. Retransmission(order) = [i \in 1 .. Len(order) |-> packet(i)]
    BY <1>1 DEF Retransmission
  <1> HIDE DEF packet
  <1>5. Len(order) \in Nat
    BY <1>1
  <1>6. [i \in 1 .. Len(order) |-> packet(i)] \in [1 .. Len(order) -> ClientBound]
    BY <1>3
  <1>7. QED BY <1>4, <1>5, <1>6

LEMMA AcceptResumeType == WireAssumption /\ BrokerSide /\ AcceptResume => BrokerSide'
  <1> SUFFICES ASSUME WireAssumption, BrokerSide, AcceptResume PROVE BrokerSide'
    OBVIOUS
  <1>1. Tail(toServer) \in Seq(ServerBound)
    BY ReadPacket DEF AcceptResume, BrokerSide
  <1>2. PICK rmax \in ReceiveMaxima, order \in Ascending(DOMAIN sent) :
          /\ granted' = rmax
          /\ toClient' = (toClient \o <<Connack(TRUE, TRUE, rmax)>>)
                           \o Retransmission(order)
    BY DEF AcceptResume
  <1>3. Connack(TRUE, TRUE, rmax) \in ClientBound /\ granted' \in ReceiveMaxima
    BY <1>2, ClientBoundPackets, WireAssumption
  <1>4. toClient' \in Seq(ClientBound)
    <2>1. Retransmission(order) \in Seq(ClientBound)
      BY RetransmissionType DEF BrokerSide
    <2>2. toClient \o <<Connack(TRUE, TRUE, rmax)>> \in Seq(ClientBound)
      BY <1>3, SingletonSeqType, ConcatType DEF BrokerSide, WireTypeOK
    <2>3. QED BY <1>2, <2>1, <2>2, ConcatType
  <1>5. WireTypeOK'
    BY <1>1, <1>4 DEF AcceptResume, Read, BrokerSide, WireTypeOK
  <1>6. BrokerTypeOK'
    BY <1>3 DEF AcceptResume, BrokerSide, BrokerTypeOK
  <1>7. QED BY <1>5, <1>6 DEF BrokerSide

LEMMA AcceptNewType == WireAssumption /\ BrokerSide /\ AcceptNew => BrokerSide'
  <1> SUFFICES ASSUME WireAssumption, BrokerSide, AcceptNew PROVE BrokerSide'
    OBVIOUS
  <1>1. Tail(toServer) \in Seq(ServerBound)
    BY ReadPacket DEF AcceptNew, BrokerSide
  <1>2. PICK rmax \in ReceiveMaxima, present \in BOOLEAN :
          granted' = rmax /\ toClient' = toClient \o <<Connack(TRUE, present, rmax)>>
    BY DEF AcceptNew
  <1>3. Connack(TRUE, present, rmax) \in ClientBound /\ granted' \in ReceiveMaxima
    BY <1>2, ClientBoundPackets, WireAssumption
  <1>4. toClient' \in Seq(ClientBound)
    BY <1>2, <1>3, SingletonSeqType, ConcatType DEF BrokerSide, WireTypeOK
  <1>5. WireTypeOK'
    BY <1>1, <1>4 DEF AcceptNew, Read, BrokerSide, WireTypeOK
  <1>6. DOMAIN received2' = {} /\ DOMAIN sent' = {}
    BY EmptyMapType DEF AcceptNew
  <1>7. BrokerTypeOK'
    BY <1>3, <1>6 DEF AcceptNew, BrokerSide, BrokerTypeOK
  <1>8. QED BY <1>5, <1>7 DEF BrokerSide

LEMMA RefuseType == WireAssumption /\ BrokerSide /\ Refuse => BrokerSide'
  <1> SUFFICES ASSUME WireAssumption, BrokerSide, Refuse PROVE BrokerSide'
    OBVIOUS
  <1>1. Tail(toServer) \in Seq(ServerBound)
    BY ReadPacket DEF Refuse, BrokerSide
  <1>2. UNCHANGED <<linkUp, brokerVars>> /\ toServer' = Tail(toServer)
    BY DEF Refuse, Read
  <1>3. Connack(FALSE, FALSE, granted) \in ClientBound
    BY ClientBoundPackets DEF BrokerSide, BrokerTypeOK
  <1>4. toClient' \in Seq(ClientBound)
    <2> DEFINE c == Connack(FALSE, FALSE, granted)
    <2>1. toClient \in Seq(ClientBound) /\ toClient' = Append(toClient, c)
      BY DEF Refuse, BrokerSide, WireTypeOK
    <2>2. c \in ClientBound
      BY <1>3
    <2> HIDE DEF c
    <2>3. QED BY <2>1, <2>2
  <1>5. WireTypeOK'
    BY <1>1, <1>2, <1>4 DEF BrokerSide, WireTypeOK
  <1>6. BrokerTypeOK'
    BY <1>2 DEF brokerVars, BrokerSide, BrokerTypeOK
  <1>7. QED BY <1>5, <1>6 DEF BrokerSide

LEMMA ReceivePublishType ==
  WireAssumption /\ BrokerSide /\ (ReceivePublish1 \/ ReceivePublish2 \/ RejectPublish)
    => BrokerSide'
  <1> SUFFICES ASSUME WireAssumption, BrokerSide,
                      ReceivePublish1 \/ ReceivePublish2 \/ RejectPublish
               PROVE  BrokerSide'
    OBVIOUS
  <1> DEFINE p == Head(toServer)
  <1>1. /\ Tail(toServer) \in Seq(ServerBound)
        /\ p.id \in PacketId
        /\ p.msg \in {0} \cup OutMsg
    BY ReadPacket, ServerBoundFields
    DEF ReceivePublish1, ReceivePublish2, RejectPublish, BrokerSide
  <1>2. WireTypeOK'
    BY <1>1 DEF ReceivePublish1, ReceivePublish2, RejectPublish, Read, BrokerSide, WireTypeOK
  <1>3. unanswered' \subseteq PacketId
    BY <1>1 DEF ReceivePublish1, ReceivePublish2, RejectPublish, BrokerSide, BrokerTypeOK
  <1>4. CASE ReceivePublish1
    <2>1. toAnswer' \subseteq Reply
      BY <1>1, <1>4, ReplyPackets DEF ReceivePublish1, BrokerSide, BrokerTypeOK
    <2>2. delivered' \in [OutMsg -> Nat]
      BY <1>4, CountType DEF ReceivePublish1, BrokerSide, BrokerTypeOK
    <2>3. BrokerTypeOK'
      BY <1>3, <1>4, <2>1, <2>2 DEF ReceivePublish1, BrokerSide, BrokerTypeOK
    <2>4. QED BY <1>2, <2>3 DEF BrokerSide
  <1>5. CASE ReceivePublish2
    <2>1. toAnswer' \subseteq Reply
      BY <1>1, <1>5, ReplyPackets DEF ReceivePublish2, BrokerSide, BrokerTypeOK
    <2>2. received2' \in {received2, Put(received2, p.id, p.msg)}
      BY <1>5 DEF ReceivePublish2
    <2>3. /\ DOMAIN received2' \subseteq PacketId
          /\ \A id \in DOMAIN received2' : received2'[id] \in {0} \cup OutMsg
      <3> DEFINE V == {0} \cup OutMsg
      <3>1. /\ DOMAIN received2 \subseteq PacketId
            /\ \A id \in DOMAIN received2 : received2[id] \in V
            /\ p.id \in PacketId
            /\ p.msg \in V
        BY <1>1, Received2Type DEF BrokerSide
      <3> HIDE DEF V, p
      <3>2. /\ DOMAIN Put(received2, p.id, p.msg) \subseteq PacketId
            /\ \A id \in DOMAIN Put(received2, p.id, p.msg) :
                 Put(received2, p.id, p.msg)[id] \in V
        BY <3>1, PutType
      <3>3. /\ DOMAIN received2' \subseteq PacketId
            /\ \A id \in DOMAIN received2' : received2'[id] \in V
        BY <2>2, <3>1, <3>2
      <3>4. QED BY <3>3 DEF V
    <2>4. BrokerTypeOK'
      BY <1>3, <1>5, <2>1, <2>3 DEF ReceivePublish2, BrokerSide, BrokerTypeOK
    <2>5. QED BY <1>2, <2>4 DEF BrokerSide
  <1>6. CASE RejectPublish
    <2>1. toAnswer' \subseteq Reply
      BY <1>1, <1>6, ReplyPackets DEF RejectPublish, BrokerSide, BrokerTypeOK
    <2>2. rejected' \subseteq {0} \cup OutMsg
      BY <1>1, <1>6 DEF RejectPublish, BrokerSide, BrokerTypeOK
    <2>3. BrokerTypeOK'
      BY <1>3, <1>6, <2>1, <2>2 DEF RejectPublish, BrokerSide, BrokerTypeOK
    <2>4. QED BY <1>2, <2>3 DEF BrokerSide
  <1>7. QED BY <1>4, <1>5, <1>6

LEMMA ReceivePubrelType == WireAssumption /\ BrokerSide /\ ReceivePubrel => BrokerSide'
  <1> SUFFICES ASSUME WireAssumption, BrokerSide, ReceivePubrel PROVE BrokerSide'
    OBVIOUS
  <1> DEFINE id == Head(toServer).id
  <1>1. Tail(toServer) \in Seq(ServerBound) /\ id \in PacketId
    BY ReadPacket, ServerBoundFields DEF ReceivePubrel, BrokerSide
  <1>2. WireTypeOK'
    BY <1>1 DEF ReceivePubrel, Read, BrokerSide, WireTypeOK
  <1>3. toAnswer' \subseteq Reply
    BY <1>1, ReplyPackets DEF ReceivePubrel, BrokerSide, BrokerTypeOK
  <1>4. delivered' \in [OutMsg -> Nat]
    BY CountType DEF ReceivePubrel, BrokerSide, BrokerTypeOK
  <1>5. /\ DOMAIN received2' \subseteq PacketId
        /\ \A i \in DOMAIN received2' : received2'[i] \in {0} \cup OutMsg
    <2> DEFINE V == {0} \cup OutMsg
    <2>1. /\ DOMAIN received2 \subseteq PacketId
          /\ \A i \in DOMAIN received2 : received2[i] \in V
      BY Received2Type DEF BrokerSide
    <2>2. received2' = Drop(received2, id)
      BY DEF ReceivePubrel
    <2> HIDE DEF V, id
    <2>3. /\ DOMAIN received2' \subseteq PacketId
          /\ \A i \in DOMAIN received2' : received2'[i] \in V
      BY <2>1, <2>2, DropType
    <2>4. QED BY <2>3 DEF V
  <1>6. BrokerTypeOK'
    BY <1>3, <1>4, <1>5 DEF ReceivePubrel, BrokerSide, BrokerTypeOK
  <1>7. QED BY <1>2, <1>6 DEF BrokerSide

LEMMA ReceiveRequestType == WireAssumption /\ BrokerSide /\ ReceiveRequest => BrokerSide'
  <1> SUFFICES ASSUME WireAssumption, BrokerSide, ReceiveRequest PROVE BrokerSide'
    OBVIOUS
  <1> DEFINE p == Head(toServer)
  <1>1. Tail(toServer) \in Seq(ServerBound) /\ p.id \in PacketId
    BY ReadPacket, ServerBoundFields DEF ReceiveRequest, BrokerSide
  <1>2. WireTypeOK'
    BY <1>1 DEF ReceiveRequest, Read, BrokerSide, WireTypeOK
  <1>3. toAnswer' \subseteq Reply
    BY <1>1, ReplyPackets DEF ReceiveRequest, BrokerSide, BrokerTypeOK
  <1>4. delivered' \in [OutMsg -> Nat]
    BY CountType DEF ReceiveRequest, BrokerSide, BrokerTypeOK
  <1>5. BrokerTypeOK'
    BY <1>3, <1>4 DEF ReceiveRequest, BrokerSide, BrokerTypeOK
  <1>6. QED BY <1>2, <1>5 DEF BrokerSide

LEMMA AnswerType == WireAssumption /\ BrokerSide /\ Answer => BrokerSide'
  <1> SUFFICES ASSUME WireAssumption, BrokerSide, Answer PROVE BrokerSide'
    OBVIOUS
  <1>1. PICK a \in toAnswer :
          /\ toAnswer' = toAnswer \ {a}
          /\ toClient' = Append(toClient, a)
          /\ unanswered' \subseteq unanswered
    BY DEF Answer
  <1>2. toClient' \in Seq(ClientBound)
    <2>1. a \in ClientBound
      BY ClientBoundPackets DEF BrokerSide, BrokerTypeOK
    <2>2. QED BY <1>1, <2>1 DEF BrokerSide, WireTypeOK
  <1>3. WireTypeOK'
    BY <1>2 DEF Answer, BrokerSide, WireTypeOK
  <1>4. BrokerTypeOK'
    BY <1>1 DEF Answer, BrokerSide, BrokerTypeOK
  <1>5. QED BY <1>3, <1>4 DEF BrokerSide

LEMMA BrokerPublishType ==
  ASSUME WireAssumption, NEW qos \in QoS, BrokerSide, BrokerPublish(qos)
  PROVE  BrokerSide'
  <1>1. nextIn' \in InMsg /\ nextIn' \in 0 .. MaxInbound
    <2>1. nextIn \in 0 .. MaxInbound
      BY DEF BrokerSide, BrokerTypeOK
    <2>2. nextIn < MaxInbound /\ nextIn' = nextIn + 1
      BY DEF BrokerPublish
    <2>3. QED BY <2>1, <2>2, WireAssumption DEF InMsg
  <1>2. PICK id \in InIds \ DOMAIN sent :
          /\ sent' = Put(sent, id, [qos |-> qos, msg |-> nextIn', released |-> FALSE])
          /\ toClient' = Append(toClient, Publish(id, qos, nextIn'))
    BY DEF BrokerPublish
  <1>3. toClient' \in Seq(ClientBound)
    <2>1. Publish(id, qos, nextIn') \in ClientBound
      BY <1>1, ClientBoundPackets
    <2>2. QED BY <1>2, <2>1 DEF BrokerSide, WireTypeOK
  <1>4. /\ DOMAIN sent' \subseteq InIds
        /\ \A i \in DOMAIN sent' : sent'[i] \in SentEntry
    <2> DEFINE m == [qos |-> qos, msg |-> nextIn', released |-> FALSE]
    <2>1. m \in SentEntry
      BY <1>1 DEF SentEntry
    <2>2. sent' = Put(sent, id, m)
      BY <1>2
    <2> HIDE DEF m
    <2>3. QED BY <2>1, <2>2, SentType, PutType DEF BrokerSide
  <1>5. WireTypeOK'
    BY <1>3 DEF BrokerPublish, BrokerSide, WireTypeOK
  <1>6. BrokerTypeOK'
    BY <1>1, <1>4 DEF BrokerPublish, BrokerSide, BrokerTypeOK
  <1>7. QED BY <1>5, <1>6 DEF BrokerSide

LEMMA ReceivePubackPubcompType ==
  WireAssumption /\ BrokerSide /\ ReceivePubackPubcomp => BrokerSide'
  <1> SUFFICES ASSUME WireAssumption, BrokerSide, ReceivePubackPubcomp PROVE BrokerSide'
    OBVIOUS
  <1>1. Tail(toServer) \in Seq(ServerBound)
    BY ReadPacket DEF ReceivePubackPubcomp, BrokerSide
  <1>2. WireTypeOK'
    BY <1>1 DEF ReceivePubackPubcomp, Read, BrokerSide, WireTypeOK
  <1>3. /\ DOMAIN sent' \subseteq InIds
        /\ \A i \in DOMAIN sent' : sent'[i] \in SentEntry
    BY SentType, DropType DEF ReceivePubackPubcomp, BrokerSide
  <1>4. BrokerTypeOK'
    BY <1>3 DEF ReceivePubackPubcomp, BrokerSide, BrokerTypeOK
  <1>5. QED BY <1>2, <1>4 DEF BrokerSide

LEMMA ReceivePubrecType == WireAssumption /\ BrokerSide /\ ReceivePubrec => BrokerSide'
  <1> SUFFICES ASSUME WireAssumption, BrokerSide, ReceivePubrec PROVE BrokerSide'
    OBVIOUS
  <1> DEFINE id == Head(toServer).id
  <1>1. Tail(toServer) \in Seq(ServerBound) /\ id \in InIds
    BY ReadPacket, ServerBoundFields DEF ReceivePubrec, BrokerSide
  <1>2. toClient' \in Seq(ClientBound)
    <2>1. Ack("PUBREL", id) \in ClientBound /\ Nack("PUBREL", id) \in ClientBound
      BY <1>1, ClientBoundPackets
    <2>2. PICK p \in {Ack("PUBREL", id), Nack("PUBREL", id)} : toClient' = Append(toClient, p)
      BY DEF ReceivePubrec
    <2>3. p \in ClientBound /\ toClient \in Seq(ClientBound)
      BY <2>1 DEF BrokerSide, WireTypeOK
    <2>4. QED BY <2>2, <2>3
  <1>3. WireTypeOK'
    BY <1>1, <1>2 DEF ReceivePubrec, Read, BrokerSide, WireTypeOK
  <1>4. /\ DOMAIN sent' \subseteq InIds
        /\ \A i \in DOMAIN sent' : sent'[i] \in SentEntry
    <2>1. CASE id \in DOMAIN sent
      <3>1. sent' = [sent EXCEPT ![id].released = TRUE]
        BY <2>1 DEF ReceivePubrec
      <3> HIDE DEF id
      <3>2. QED BY <2>1, <3>1, SentType DEF BrokerSide, SentEntry
    <2>2. CASE id \notin DOMAIN sent
      BY <2>2, SentType DEF ReceivePubrec, BrokerSide
    <2>3. QED BY <2>1, <2>2
  <1>5. BrokerTypeOK'
    BY <1>4 DEF ReceivePubrec, BrokerSide, BrokerTypeOK
  <1>6. QED BY <1>3, <1>5 DEF BrokerSide

LEMMA ExpireType == BrokerSide /\ Expire => BrokerSide'
  <1> SUFFICES ASSUME BrokerSide, Expire PROVE BrokerSide'
    OBVIOUS
  <1>1. DOMAIN received2' = {} /\ DOMAIN sent' = {}
    BY EmptyMapType DEF Expire
  <1>2. WireTypeOK'
    BY DEF Expire, wireVars, BrokerSide, WireTypeOK
  <1>3. BrokerTypeOK'
    BY <1>1 DEF Expire, BrokerSide, BrokerTypeOK
  <1>4. QED BY <1>2, <1>3 DEF BrokerSide

-----------------------------------------------------------------------------
(* The connection. *)

LEMMA OnDisconnectType ==
  ASSUME SessionAssumption, ClientSide, OnDisconnect,
         UNCHANGED <<connectQueued, outbound, inbound, nextId, receiveMax, dispatched,
                     abandoned, qos2Messages, tooBig>>
  PROVE  ClientSide'
  <1>1. linkUp' = FALSE /\ toServer' = <<>> /\ toClient' = <<>> /\ pending' = <<>> /\ inflight' = 0
    BY DEF OnDisconnect
  <1>2. WireTypeOK'
    BY <1>1, EmptySeqType DEF WireTypeOK
  <1>3. state' \in State
    BY DEF OnDisconnect, ClientSide, SessionTypeOK, State
  <1>4. pending' \in Seq(PacketId) /\ inflight' \in 0 .. Word - 1
    BY <1>1, EmptySeqType, SessionAssumption
  <1>5. SessionTypeOK'
    BY <1>3, <1>4 DEF ClientSide, SessionTypeOK
  <1>6. QED BY <1>2, <1>5 DEF ClientSide

LEMMA ConnectionGoneType ==
  ASSUME BrokerTypeOK, ConnectionGone,
         UNCHANGED <<stored, granted, received2, sent, nextIn, delivered, rejected>>
  PROVE  BrokerTypeOK'
  BY DEF ConnectionGone, BrokerTypeOK

LEMMA SavedType ==
  ASSUME WireTypeOK, RestTypeOK, NEW n \in Nat, Saved(n)
  PROVE  rest' \in Seq(ClientBound)
  <1>1. SubSeq(toClient, 1, n) \in Seq(ClientBound)
    BY DEF WireTypeOK, Saved
  <1>2. QED BY <1>1, ConcatType DEF RestTypeOK, Saved

LEMMA ConnectionLostType ==
  SessionAssumption /\ DropAssumption /\ ClientSide /\ BrokerTypeOK /\ RestTypeOK
    /\ ConnectionLost => ClientSide' /\ BrokerTypeOK' /\ RestTypeOK'
  <1> SUFFICES ASSUME SessionAssumption, DropAssumption, ClientSide, BrokerTypeOK,
                      RestTypeOK, ConnectionLost
               PROVE  ClientSide' /\ BrokerTypeOK' /\ RestTypeOK'
    OBVIOUS
  <1>1. ClientSide' /\ BrokerTypeOK'
    BY OnDisconnectType, ConnectionGoneType DEF ConnectionLost
  <1>2. PICK n \in Nat : Saved(n)
    BY DropAssumption DEF ConnectionLost
  <1>3. rest' \in Seq(ClientBound)
    BY <1>2, SavedType DEF ClientSide
  <1>4. QED BY <1>1, <1>3 DEF ConnectionLost, RestTypeOK

LEMMA ClientClosesType ==
  WireAssumption /\ SessionAssumption /\ ClientSide /\ BrokerTypeOK /\ ClientCloses
    => ClientSide' /\ BrokerTypeOK'
  <1> SUFFICES ASSUME WireAssumption, SessionAssumption, ClientSide, BrokerTypeOK,
                      ClientCloses
               PROVE  ClientSide' /\ BrokerTypeOK'
    OBVIOUS
  <1>1. linkUp' = FALSE /\ toServer' = <<>> /\ toClient' = <<>> /\ pending' = <<>> /\ inflight' = 0
    BY DEF ClientCloses, ConnackUnknownSession
  <1>2. WireTypeOK'
    BY <1>1, EmptySeqType DEF WireTypeOK
  <1>3. receiveMax' \in Nat \ {0} /\ state' \in State
    BY ReceivedPacket, ClientBoundFields
    DEF ClientCloses, ConnackUnknownSession, ClientSide, State
  <1>4. pending' \in Seq(PacketId) /\ inflight' \in 0 .. Word - 1
    BY <1>1, EmptySeqType, SessionAssumption
  <1>5. SessionTypeOK'
    BY <1>3, <1>4 DEF ClientCloses, ConnackUnknownSession, ClientSide, SessionTypeOK
  <1>6. BrokerTypeOK'
    BY ConnectionGoneType DEF ClientCloses
  <1>7. QED BY <1>2, <1>5, <1>6 DEF ClientSide

-----------------------------------------------------------------------------
(* The whole system. *)

LEMMA TypeOKSides == TypeOK <=> /\ ClientSide
                                /\ BrokerSide
                                /\ drops \in 0 .. MaxDrops
                                /\ RestTypeOK
  BY DEF TypeOK, ClientSide, BrokerSide, RestTypeOK

LEMMA ClientStepType ==
  WireAssumption /\ SessionAssumption /\ TypeOK /\ ClientStep => TypeOK'
  <1> SUFFICES ASSUME WireAssumption, SessionAssumption, TypeOK, ClientStep PROVE TypeOK'
    OBVIOUS
  <1>1. ASSUME ClientSide', ClientOnly PROVE TypeOK'
    BY <1>1, ClientOnlyType DEF TypeOK, ClientSide, RestTypeOK
  <1>2. ClientSide /\ BrokerTypeOK
    BY DEF TypeOK, ClientSide
  <1>3. CASE ClientCloses
    <2>1. ClientSide' /\ BrokerTypeOK'
      BY <1>2, <1>3, ClientClosesType
    <2>2. UNCHANGED <<drops, rest, outlived>> /\ uncounted' = 0
      BY <1>3 DEF ClientCloses
    <2>3. QED BY <2>1, <2>2 DEF TypeOK, ClientSide
  <1>4. CASE ClientOnly /\ ~ClientCloses
    BY <1>1, <1>2, <1>4, ConnectPacketType, ConnackRunningType, ConnackRefusedType,
       PubackPubcompType, SubackUnsubackType, PubrecFailedType, PubrecType, PubrelType,
       HandlePublishType DEF ClientStep
  <1>5. QED BY <1>3, <1>4 DEF ClientStep

LEMMA ApplicationType ==
  WireAssumption /\ SessionAssumption /\ TypeOK /\ (Establish \/ Application) => TypeOK'
  <1> SUFFICES ASSUME WireAssumption, SessionAssumption, TypeOK, Establish \/ Application
               PROVE  TypeOK'
    OBVIOUS
  <1>1. ClientOnly
    BY DEF Establish, Application
  <1>2. ClientSide
    BY DEF TypeOK, ClientSide
  <1>3. CASE Establish
    <2>1. ClientSide'
      BY <1>2, <1>3, EstablishType DEF Establish
    <2>2. QED BY <1>1, <2>1, ClientOnlyType DEF TypeOK, ClientSide, RestTypeOK
  <1>4. CASE Application
    <2>1. ASSUME NEW qos \in PublishQoS, PublishPacket(qos) PROVE ClientSide'
      <3>1. qos \in QoS
        BY WireAssumption DEF QoS
      <3>2. QED BY <1>2, <2>1, <3>1, PublishPacketType
    <2>2. ASSUME NEW kind \in RequestKinds, MultiTopic(kind) PROVE ClientSide'
      BY <1>2, <2>2, MultiTopicType
    <2>3. ASSUME NEW qos \in PublishQoS, PacketTooBig("PUBLISH", qos) PROVE ClientSide'
      <3>1. qos \in {0} \cup QoS
        BY WireAssumption DEF QoS
      <3>2. QED BY <1>2, <2>3, <3>1, PacketTooBigType
    <2>4. ASSUME NEW kind \in RequestKinds, PacketTooBig(kind, 0) PROVE ClientSide'
      BY <1>2, <2>4, PacketTooBigType
    <2>5. ClientSide'
      BY <1>4, <2>1, <2>2, <2>3, <2>4 DEF Application
    <2>6. QED BY <1>1, <2>5, ClientOnlyType DEF TypeOK, ClientSide, RestTypeOK
  <1>5. QED BY <1>3, <1>4

LEMMA BrokerType == WireAssumption /\ TypeOK /\ (BrokerStep \/ BrokerChoice) => TypeOK'
  <1> SUFFICES ASSUME WireAssumption, TypeOK, BrokerStep \/ BrokerChoice PROVE TypeOK'
    OBVIOUS
  <1>1. BrokerOnly
    BY DEF BrokerStep, BrokerChoice
  <1>2. BrokerSide
    BY DEF TypeOK, BrokerSide
  <1>3. CASE BrokerStep
    <2>1. BrokerSide'
      BY <1>2, <1>3, AcceptResumeType, AcceptNewType, ReceivePublishType,
         ReceivePubrelType, ReceiveRequestType, AnswerType, ReceivePubackPubcompType,
         ReceivePubrecType DEF BrokerStep
    <2>2. QED BY <1>1, <2>1, BrokerOnlyType DEF TypeOK, BrokerSide, RestTypeOK
  <1>4. CASE BrokerChoice
    <2>1. BrokerSide'
      BY <1>2, <1>4, RefuseType, ReceivePublishType, ExpireType, BrokerPublishType
      DEF BrokerChoice
    <2>2. QED BY <1>1, <2>1, BrokerOnlyType DEF TypeOK, BrokerSide, RestTypeOK
  <1>5. QED BY <1>3, <1>4

LEMMA LostType ==
  SessionAssumption /\ DropAssumption /\ TypeOK /\ (NetworkDrops \/ BrokerCloses) => TypeOK'
  <1> SUFFICES ASSUME SessionAssumption, DropAssumption, TypeOK,
                      NetworkDrops \/ BrokerCloses
               PROVE  TypeOK'
    OBVIOUS
  <1>1. ClientSide' /\ BrokerTypeOK' /\ RestTypeOK'
    BY ConnectionLostType
    DEF TypeOK, ClientSide, RestTypeOK, NetworkDrops, BrokerCloses
  <1>2. drops' \in 0 .. MaxDrops
    BY DropAssumption DEF TypeOK, NetworkDrops, BrokerCloses
  <1>3. QED BY <1>1, <1>2 DEF TypeOK, ClientSide, RestTypeOK

(* Two neighbours of a sequence change places. *)
Exchanged(q, i) == [q EXCEPT ![i] = q[i + 1], ![i + 1] = q[i]]

LEMMA ExchangedType ==
  ASSUME NEW S, NEW q \in Seq(S), NEW i \in 1 .. Len(q) - 1
  PROVE  /\ Exchanged(q, i) \in Seq(S)
         /\ Len(Exchanged(q, i)) = Len(q)
         /\ DOMAIN Exchanged(q, i) = DOMAIN q
         /\ Exchanged(q, i)[i] = q[i + 1] /\ Exchanged(q, i)[i + 1] = q[i]
         /\ \A j \in DOMAIN q : j # i /\ j # i + 1 => Exchanged(q, i)[j] = q[j]
  <1>1. i \in 1 .. Len(q) /\ i + 1 \in 1 .. Len(q) /\ i # i + 1
    OBVIOUS
  <1>2. q[i] \in S /\ q[i + 1] \in S
    BY <1>1
  <1>3. QED BY <1>1, <1>2 DEF Exchanged

LEMMA OvertakenType == TypeOK /\ Overtaken => TypeOK'
  <1> SUFFICES ASSUME TypeOK, Overtaken PROVE TypeOK'
    OBVIOUS
  <1>1. PICK i \in 1 .. Len(toClient) - 1 : toClient' = Exchanged(toClient, i)
    BY DEF Overtaken, Exchanged
  <1>2. toClient' \in Seq(ClientBound)
    BY <1>1, ExchangedType DEF TypeOK, WireTypeOK
  <1>3. WireTypeOK'
    BY <1>2 DEF TypeOK, WireTypeOK, Overtaken
  <1>4. SessionTypeOK' /\ BrokerTypeOK'
    BY DEF TypeOK, Overtaken, sessionVars, brokerVars, SessionTypeOK, BrokerTypeOK
  <1>5. QED BY <1>3, <1>4 DEF TypeOK, Overtaken

LEMMA InTurnType == TypeOK /\ [InTurn]_vars => TypeOK'
  <1> SUFFICES ASSUME TypeOK, [InTurn]_vars PROVE TypeOK'
    OBVIOUS
  <1>1. CASE InTurn
    BY <1>1, WireAssumption, SessionAssumption, DropAssumption, ClientStepType,
       ApplicationType, BrokerType, LostType, OvertakenType DEF InTurn
  <1>2. CASE UNCHANGED vars
    BY <1>2 DEF vars, wireVars, sessionVars, brokerVars, TypeOK, WireTypeOK,
                SessionTypeOK, BrokerTypeOK
  <1>3. QED BY <1>1, <1>2

-----------------------------------------------------------------------------
(* A packet that is handled after the end of its connection: the handlers do to
   the stores what they do to the packets of a connection. *)

LEMMA RestHelpers ==
  /\ \A id : Rest!Ack("PUBREL", id) = Ack("PUBREL", id)
  /\ \A id : /\ Rest!Ack("PUBACK", id) = Ack("PUBACK", id)
             /\ Rest!Ack("PUBREC", id) = Ack("PUBREC", id)
             /\ Rest!Ack("PUBCOMP", id) = Ack("PUBCOMP", id)
  /\ \A f, k : Rest!Drop(f, k) = Drop(f, k)
  /\ \A f, k, v : Rest!Put(f, k, v) = Put(f, k, v)
  /\ \A id : Rest!StoredPacket(id) = StoredPacket(id)
  BY DEF Rest!Ack, Ack, Rest!Drop, Drop, Rest!Put, Put, Rest!Restrict, Restrict,
         Rest!StoredPacket, StoredPacket, Rest!Publish, Publish, Rest!Request, Request

LEMMA RestSend ==
  ASSUME NEW packets, Rest!Send(packets) PROVE Send(packets)
  BY DEF Rest!Send, Send

LEMMA RestPublishEnd ==
  ASSUME NEW store, Rest!PublishEnd(store) PROVE PublishEnd(store)
  <1>1. CASE pending = <<>>
    BY <1>1 DEF Rest!PublishEnd, PublishEnd
  <1>2. CASE pending # <<>>
    <2>1. Rest!RunFlow(store) /\ UNCHANGED inflight
      BY <1>2 DEF Rest!PublishEnd
    <2>2. RunFlow(store)
      BY <2>1, RestHelpers, RestSend DEF Rest!RunFlow, RunFlow
    <2>3. QED BY <1>2, <2>1, <2>2 DEF PublishEnd
  <1>3. QED BY <1>1, <1>2

LEMMA SendNothing ==
  ASSUME WireTypeOK, UNCHANGED toServer
  PROVE  \E packets \in Seq(ServerData) : Send(packets)
  <1>1. toServer \o <<>> = toServer
    BY DEF WireTypeOK
  <1>2. <<>> \in Seq(ServerData) /\ Send(<<>>)
    BY <1>1, EmptySeqType DEF Send
  <1>3. QED BY <1>2

LEMMA PublishEndSent ==
  ASSUME WireAssumption, WireTypeOK, SessionTypeOK,
         NEW store, DOMAIN store \subseteq DOMAIN outbound, PublishEnd(store)
  PROVE  \E packets \in Seq(ServerData) : Send(packets)
  <1>1. CASE UNCHANGED toServer
    BY <1>1, SendNothing
  <1>2. CASE pending # <<>> /\ Head(pending) \in DOMAIN store
    <2>1. StoredPacket(Head(pending)) \in ServerData
      BY <1>2, StoredPacketType
    <2>2. <<StoredPacket(Head(pending))>> \in Seq(ServerData)
      BY <2>1, SingletonSeqType
    <2>3. QED BY <1>2, <2>2 DEF PublishEnd, RunFlow
  <1>3. QED BY <1>1, <1>2 DEF PublishEnd, RunFlow

LEMMA RestEndsType ==
  ASSUME WireAssumption, SessionAssumption, TypeOK, RestEnds
  PROVE  /\ rest # <<>> /\ rest' = Tail(rest)
         /\ \E packets \in Seq(ServerData) : Send(packets)
         /\ SessionTypeOK'
         /\ UNCHANGED <<linkUp, state, connectQueued>>
  <1> DEFINE id == Head(rest).id
  <1>1. /\ rest # <<>> /\ rest' = Tail(rest)
        /\ UNCHANGED <<linkUp, state, connectQueued, inbound, nextId, receiveMax,
                       dispatched, abandoned, qos2Messages, tooBig>>
    BY DEF RestEnds, Rest!PubackPubcomp, Rest!PubrecFailed, Rest!Receive, Rest!Consume
  <1>2. AckOutbound(id)
    BY RestHelpers DEF RestEnds, Rest!PubackPubcomp, Rest!PubrecFailed, Rest!AckOutbound,
       AckOutbound
  <1>3. PICK store \in {outbound, Drop(outbound, id)} : PublishEnd(store)
    BY RestHelpers, RestPublishEnd DEF RestEnds, Rest!PubackPubcomp, Rest!PubrecFailed
  <1>4. DOMAIN store \subseteq DOMAIN outbound
    <2>1. DOMAIN Drop(outbound, id) \subseteq DOMAIN outbound
      BY DEF Drop, Restrict
    <2>2. QED BY <2>1
  <1> HIDE DEF id
  <1>5. /\ pending' \in Seq(PacketId)
        /\ inflight' \in 0 .. Word - 1
    BY <1>3, <1>4, PublishEndType, ServerDataSubset DEF TypeOK, WireTypeOK
  <1>6. /\ DOMAIN outbound' \subseteq PacketId
        /\ \A i \in DOMAIN outbound' : outbound'[i] \in Entry
    BY <1>2, AckOutboundType DEF TypeOK
  <1>7. SessionTypeOK'
    BY <1>1, <1>5, <1>6 DEF TypeOK, SessionTypeOK
  <1>8. \E packets \in Seq(ServerData) : Send(packets)
    BY <1>3, <1>4, PublishEndSent DEF TypeOK
  <1>9. QED BY <1>1, <1>7, <1>8

LEMMA RestSubackType ==
  ASSUME WireAssumption, SessionAssumption, TypeOK, Rest!SubackUnsuback
  PROVE  /\ rest # <<>> /\ rest' = Tail(rest)
         /\ \E packets \in Seq(ServerData) : Send(packets)
         /\ SessionTypeOK'
         /\ UNCHANGED <<linkUp, state, connectQueued>>
  <1>1. /\ rest # <<>> /\ rest' = Tail(rest)
        /\ AckOutbound(Head(rest).id)
        /\ UNCHANGED <<linkUp, toServer, state, connectQueued, inbound, pending,
                       inflight, nextId, receiveMax, dispatched, abandoned,
                       qos2Messages, tooBig>>
    BY RestHelpers DEF Rest!SubackUnsuback, Rest!Receive, Rest!Consume, Rest!AckOutbound,
       AckOutbound
  <1>2. /\ DOMAIN outbound' \subseteq PacketId
        /\ \A i \in DOMAIN outbound' : outbound'[i] \in Entry
    BY <1>1, AckOutboundType DEF TypeOK
  <1>3. SessionTypeOK'
    BY <1>1, <1>2 DEF TypeOK, SessionTypeOK
  <1>4. QED BY <1>1, <1>3, SendNothing DEF TypeOK

LEMMA RestPubrecType ==
  ASSUME WireAssumption, SessionAssumption, TypeOK, Rest!Pubrec
  PROVE  /\ rest # <<>> /\ rest' = Tail(rest)
         /\ \E packets \in Seq(ServerData) : Send(packets)
         /\ SessionTypeOK'
         /\ UNCHANGED <<linkUp, state, connectQueued>>
  <1> DEFINE id == Head(rest).id
             fresh == [kind |-> "PUBLISH", qos |-> 0, msg |-> 0, pubrec |-> FALSE,
                       retries |-> MaxRetries, freed |-> TRUE]
             entry == IF id \in DOMAIN outbound THEN outbound[id] ELSE fresh
             changed == [entry EXCEPT !.pubrec = TRUE]
  <1>1. /\ rest # <<>> /\ rest' = Tail(rest) /\ Head(rest).type = "PUBREC"
        /\ UNCHANGED <<linkUp, state, connectQueued, inbound, pending, inflight,
                       nextId, receiveMax, dispatched, abandoned, qos2Messages, tooBig>>
    BY DEF Rest!Pubrec, Rest!Receive, Rest!Consume
  <1>2. outbound' = Put(outbound, id, changed) /\ Send(<<Ack("PUBREL", id)>>)
    BY RestHelpers, RestSend DEF Rest!Pubrec
  <1>3. id \in PacketId
    BY <1>1, ClientBoundFields DEF TypeOK
  <1>4. entry \in Entry
    BY OutboundType, SessionAssumption DEF TypeOK, Entry
  <1>5. changed \in Entry
    <2> HIDE DEF entry
    <2> QED BY <1>4 DEF Entry
  <1>6. /\ DOMAIN outbound' \subseteq PacketId
        /\ \A i \in DOMAIN outbound' : outbound'[i] \in Entry
    <2> HIDE DEF changed, id
    <2> QED BY <1>2, <1>3, <1>5, OutboundType, PutType DEF TypeOK
  <1>7. SessionTypeOK'
    BY <1>1, <1>6 DEF TypeOK, SessionTypeOK
  <1>8. Ack("PUBREL", id) \in ServerData
    BY <1>3 DEF Ack, ServerData, ServerBound
  <1>9. QED BY <1>1, <1>2, <1>7, <1>8, SingletonSeqType

LEMMA RestInboundType ==
  ASSUME WireAssumption, SessionAssumption, TypeOK, Rest!Pubrel \/ Rest!HandlePublish
  PROVE  /\ rest # <<>> /\ rest' = Tail(rest)
         /\ \E packets \in Seq(ServerData) : Send(packets)
         /\ SessionTypeOK'
         /\ UNCHANGED <<linkUp, state, connectQueued>>
  <1> DEFINE id == Head(rest).id
  <1>1. /\ rest # <<>> /\ rest' = Tail(rest) /\ Head(rest).type \in {"PUBREL", "PUBLISH"}
        /\ UNCHANGED <<linkUp, state, connectQueued, outbound, pending, inflight,
                       nextId, receiveMax, abandoned, qos2Messages, tooBig>>
    BY DEF Rest!Pubrel, Rest!HandlePublish, Rest!Receive, Rest!Consume
  <1>2. id \in InIds
    BY <1>1, ClientBoundFields DEF TypeOK
  <1>3. \/ Send(<<Ack("PUBACK", id)>>)
        \/ Send(<<Ack("PUBREC", id)>>)
        \/ Send(<<Ack("PUBCOMP", id)>>)
    BY RestHelpers, RestSend DEF Rest!Pubrel, Rest!HandlePublish
  <1>4. \A type \in {"PUBACK", "PUBREC", "PUBCOMP"} : Ack(type, id) \in ServerData
    BY <1>2, AnswerPackets DEF ServerData, Ack
  <1>5. inbound' \subseteq InIds
    BY <1>2 DEF Rest!Pubrel, Rest!HandlePublish, TypeOK, SessionTypeOK
  <1>6. dispatched' \in [InMsg -> Nat]
    BY DEF Rest!Pubrel, Rest!HandlePublish, Rest!Despatch, TypeOK, SessionTypeOK
  <1>7. SessionTypeOK'
    BY <1>1, <1>5, <1>6 DEF TypeOK, SessionTypeOK
  <1>8. QED BY <1>1, <1>3, <1>4, <1>7, SingletonSeqType

LEMMA RestStepType ==
  ASSUME WireAssumption, SessionAssumption, TypeOK, RestStep
  PROVE  /\ TypeOK'
         /\ rest # <<>> /\ outlived'
         /\ \E packets \in Seq(ServerData) : Send(packets)
         /\ UNCHANGED <<linkUp, toClient, state, connectQueued, brokerVars>>
  <1>1. /\ rest # <<>> /\ rest' = Tail(rest)
        /\ \E packets \in Seq(ServerData) : Send(packets)
        /\ SessionTypeOK'
        /\ UNCHANGED <<linkUp, state, connectQueued>>
    BY RestEndsType, RestSubackType, RestPubrecType, RestInboundType DEF RestStep
  <1>2. outlived' = TRUE /\ UNCHANGED <<toClient, brokerVars, drops>>
    BY DEF RestStep
  <1>3. uncounted' \in Nat
    BY DEF RestStep, TypeOK
  <1>4. rest' \in Seq(ClientBound)
    BY <1>1 DEF TypeOK
  <1>5. toServer' \in Seq(ServerBound)
    <2>1. PICK packets \in Seq(ServerData) : Send(packets)
      BY <1>1
    <2>2. packets \in Seq(ServerBound)
      BY ServerDataSubset
    <2>3. QED BY <2>1, <2>2, SendType DEF TypeOK, WireTypeOK
  <1>6. WireTypeOK'
    BY <1>1, <1>2, <1>5 DEF TypeOK, WireTypeOK
  <1>7. BrokerTypeOK'
    BY <1>2 DEF TypeOK, brokerVars, BrokerTypeOK
  <1>8. TypeOK'
    BY <1>1, <1>2, <1>3, <1>4, <1>6, <1>7 DEF TypeOK
  <1>9. QED BY <1>1, <1>2, <1>8

LEMMA NextType == TypeOK /\ [Next]_vars => TypeOK'
  BY WireAssumption, SessionAssumption, InTurnType, RestStepType DEF Next

(* Once a packet has outlived its connection, that stays so. *)
LEMMA InTurnHistory == [InTurn]_vars => UNCHANGED outlived
  BY DEF InTurn, ClientStep, ClientCloses, ClientOnly, Establish, Application, BrokerStep,
         BrokerChoice, BrokerOnly, NetworkDrops, BrokerCloses, ConnectionLost, Overtaken, vars

LEMMA OutlivedStays ==
  ASSUME TypeOK, [Next]_vars
  PROVE  ([InTurn]_vars /\ outlived' = outlived) \/ outlived'
  <1>1. CASE RestStep
    BY <1>1, WireAssumption, SessionAssumption, RestStepType
  <1>2. CASE [InTurn]_vars
    BY <1>2, InTurnHistory
  <1>3. QED BY <1>1, <1>2 DEF Next

(* Every variable keeps its type: the packets in transit are well formed, the
   stores are keyed by 16-bit identifiers, and _inflight stays a word. *)
THEOREM TypeCorrect == Spec => []TypeOK
  BY InitType, NextType, PTL DEF Spec

-----------------------------------------------------------------------------
(* Packets after the handshake. *)

ClientData == {p \in ClientBound : p.type # "CONNACK"}

LEMMA RunningPackets ==
  ASSUME WireTypeOK, Running
  PROVE  toServer \in Seq(ServerData) /\ toClient \in Seq(ClientData)
  <1>1. ASSUME NEW i \in DOMAIN toServer PROVE toServer[i] \in ServerData
    BY DEF WireTypeOK, Running, Leaving, ServerData
  <1>2. ASSUME NEW i \in DOMAIN toClient PROVE toClient[i] \in ClientData
    BY DEF WireTypeOK, Running, Arriving, ClientData
  <1>3. QED BY <1>1, <1>2 DEF WireTypeOK

LEMMA RunningAgain ==
  ASSUME state' = "RUNNING", ~connectQueued',
         toServer' \in Seq(ServerData), toClient' \in Seq(ClientData)
  PROVE  InPhase'
  <1>1. \A i \in DOMAIN toServer' : toServer'[i].type # "CONNECT"
    BY DEF ServerData
  <1>2. \A i \in DOMAIN toClient' : toClient'[i].type # "CONNACK"
    BY DEF ClientData
  <1>3. QED BY <1>1, <1>2 DEF InPhase, Running, Leaving, Arriving

LEMMA ClientDataPackets ==
  /\ \A id \in InIds, qos \in QoS, msg \in InMsg : Publish(id, qos, msg) \in ClientData
  /\ \A id \in InIds : Ack("PUBREL", id) \in ClientData /\ Nack("PUBREL", id) \in ClientData
  /\ Reply \subseteq ClientData
  <1>1. \A p \in Reply : p.type # "CONNACK"
    BY DEF Reply
  <1>2. QED BY <1>1, ClientBoundPackets DEF ClientData, Publish, Ack, Nack

LEMMA RetransmissionData ==
  ASSUME WireAssumption, BrokerTypeOK, NEW order \in Ascending(DOMAIN sent)
  PROVE  Retransmission(order) \in Seq(ClientData)
  <1>1. Retransmission(order) \in Seq(ClientBound)
    BY RetransmissionType
  <1>2. \A i \in DOMAIN Retransmission(order) : Retransmission(order)[i].type # "CONNACK"
    BY DEF Retransmission, Ack, Publish
  <1>3. QED BY <1>1, <1>2 DEF ClientData

LEMMA AnswerDataPackets ==
  ASSUME NEW id \in InIds
  PROVE  /\ Ack("PUBACK", id) \in ServerData
         /\ Ack("PUBREC", id) \in ServerData
         /\ Ack("PUBCOMP", id) \in ServerData
  BY AnswerPackets DEF ServerData, Ack

LEMMA HeadOfOne ==
  ASSUME NEW x, NEW s, s = <<x>> PROVE Head(s) = x /\ Tail(s) = <<>>
  OBVIOUS

LEMMA AskedPacket ==
  ASSUME Asked
  PROVE  /\ Head(toServer).type = "CONNECT"
         /\ Head(toServer).clean = ~HaveSessionData
         /\ Tail(toServer) = <<>>
  <1> DEFINE c == Connect(~HaveSessionData)
  <1>1. c.type = "CONNECT" /\ c.clean = ~HaveSessionData
    BY DEF Connect
  <1>2. toServer = <<c>>
    BY DEF Asked
  <1> HIDE DEF c
  <1>3. Head(toServer) = c /\ Tail(toServer) = <<>>
    BY <1>2, HeadOfOne
  <1>4. QED BY <1>1, <1>3

LEMMA RunningPast ==
  ASSUME WireTypeOK, Running
  PROVE  ~Incoming("CONNECT") /\ ~Receive("CONNACK")
  <1>1. ~Incoming("CONNECT")
    <2>1. toServer # <<>> => 1 \in DOMAIN toServer /\ Head(toServer) = toServer[1]
      BY DEF WireTypeOK
    <2>2. QED BY <2>1 DEF Running, Leaving, Incoming
  <1>2. ~Receive("CONNACK")
    <2>1. toClient # <<>> => 1 \in DOMAIN toClient /\ Head(toClient) = toClient[1]
      BY DEF WireTypeOK
    <2>2. QED BY <2>1 DEF Running, Arriving, Receive
  <1>3. QED BY <1>1, <1>2

(* While the client waits it can handle nothing but a CONNACK, and the broker
   read nothing but a CONNECT. *)
LEMMA OnlyConnack ==
  ASSUME WireTypeOK, InPhase, state # "RUNNING", NEW type, Receive(type)
  PROVE  type = "CONNACK" /\ (Accepted \/ Refused)
  <1>1. Accepted \/ Refused
    BY DEF InPhase, Running, NotAsked, Asked, Receive
  <1>2. CASE Accepted
    <2>1. 1 \in DOMAIN toClient /\ toClient[1].type = "CONNACK"
      BY <1>2 DEF Accepted, Arriving
    <2>2. QED BY <1>2, <2>1 DEF Receive, WireTypeOK
  <1>3. CASE Refused
    BY <1>3 DEF Refused, Receive, Connack
  <1>4. QED BY <1>1, <1>2, <1>3

LEMMA OnlyConnect ==
  ASSUME InPhase, state # "RUNNING", NEW type, Incoming(type)
  PROVE  type = "CONNECT" /\ Asked
  <1>1. Asked
    BY DEF InPhase, Running, NotAsked, Accepted, Refused, Incoming
  <1>2. QED BY <1>1, AskedPacket DEF Incoming

LEMMA RunningIsRunning == InPhase /\ state = "RUNNING" => Running
  BY DEF InPhase

-----------------------------------------------------------------------------
(* Before the client is RUNNING. *)

LEMMA InitHandshake == Init => InPhase
  BY DEF Init, WireInit, SessionInit, BrokerInit, InPhase, NotAsked

LEMMA EstablishHandshake ==
  ASSUME InPhase, Establish PROVE InPhase'
  <1>1. state \in {"DISCONNECTED", "CONNECTING"} /\ ~connectQueued /\ NotAsked /\ toAnswer = {}
    BY DEF Establish, StartConnect, OnTcpConnect, InPhase, Running, NotAsked, Asked,
           Accepted, Refused
  <1>2. UNCHANGED <<toServer, toClient, toAnswer, open>>
    BY DEF Establish, StartConnect, OnTcpConnect, ClientOnly, brokerVars, wireVars
  <1>3. state' # "RUNNING" /\ (connectQueued' => state' = "TCP_CONNECTED")
    BY <1>1 DEF Establish, StartConnect, OnTcpConnect
  <1>4. QED BY <1>1, <1>2, <1>3 DEF InPhase, NotAsked

LEMMA ConnectPacketHandshake ==
  ASSUME InPhase, ConnectPacket, ClientOnly PROVE InPhase'
  <1>1. NotAsked /\ toAnswer = {} /\ state = "TCP_CONNECTED"
    BY DEF ConnectPacket, InPhase, Running, NotAsked, Asked, Accepted, Refused
  <1>2. UNCHANGED <<toClient, toAnswer, open, state, inbound, outbound>> /\ ~connectQueued'
    BY DEF ConnectPacket, ClientOnly, brokerVars
  <1>3. HaveSessionData' = HaveSessionData
    BY <1>2 DEF HaveSessionData
  <1>4. toServer' \in {<<>>, <<Connect(~HaveSessionData)>>}
    BY <1>1 DEF ConnectPacket, Send, NotAsked
  <1>5. CASE toServer' = <<>>
    BY <1>1, <1>2, <1>5 DEF InPhase, NotAsked
  <1>6. CASE toServer' = <<Connect(~HaveSessionData)>>
    BY <1>1, <1>2, <1>3, <1>6 DEF InPhase, NotAsked, Asked
  <1>7. QED BY <1>4, <1>5, <1>6

LEMMA AcceptHandshake ==
  ASSUME WireAssumption, TypeOK, InPhase, AcceptResume \/ AcceptNew, BrokerOnly
  PROVE  InPhase'
  <1>1. CASE state = "RUNNING"
    BY <1>1, RunningIsRunning, RunningPast DEF AcceptResume, AcceptNew, TypeOK
  <1>2. CASE state # "RUNNING"
    <2>1. Asked /\ toAnswer = {}
      BY <1>2, OnlyConnect DEF AcceptResume, AcceptNew, InPhase, Running
    <2>2. Head(toServer).clean = ~HaveSessionData
      BY <2>1, AskedPacket
    <2>3. UNCHANGED <<state, connectQueued, inbound, outbound, toAnswer>> /\ toServer' = <<>>
      BY <2>1, AskedPacket DEF BrokerOnly, sessionVars, AcceptResume, AcceptNew, Read
    <2>4. PICK rmax \in ReceiveMaxima, present \in BOOLEAN, behind \in Seq(ClientData) :
            /\ toClient' = <<Connack(TRUE, present, rmax)>> \o behind
            /\ ~MayMistake => (present => HaveSessionData)
      <3>1. CASE AcceptResume
        <4>1. PICK rmax \in ReceiveMaxima, order \in Ascending(DOMAIN sent) :
                toClient' = (toClient \o <<Connack(TRUE, TRUE, rmax)>>) \o Retransmission(order)
          BY <3>1 DEF AcceptResume
        <4>2. Retransmission(order) \in Seq(ClientData)
          BY RetransmissionData DEF TypeOK
        <4>3. toClient \o <<Connack(TRUE, TRUE, rmax)>> = <<Connack(TRUE, TRUE, rmax)>>
          BY <2>1 DEF Asked
        <4>4. HaveSessionData
          BY <2>2, <3>1 DEF AcceptResume
        <4>5. QED BY <4>1, <4>2, <4>3, <4>4
      <3>2. CASE AcceptNew
        <4>1. PICK rmax \in ReceiveMaxima, present \in BOOLEAN :
                /\ toClient' = toClient \o <<Connack(TRUE, present, rmax)>>
                /\ ~MayMistake => ~present
          BY <3>2 DEF AcceptNew
        <4>2. toClient' = <<Connack(TRUE, present, rmax)>> \o <<>>
          BY <2>1, <4>1 DEF Asked
        <4>3. <<>> \in Seq(ClientData)
          BY EmptySeqType
        <4>4. QED BY <4>1, <4>2, <4>3
      <3>3. QED BY <3>1, <3>2
    <2>5. Accepted'
      <3> DEFINE c == Connack(TRUE, present, rmax)
      <3>1. c.type = "CONNACK" /\ c.ok /\ c.present = present
        BY DEF Connack
      <3> HIDE DEF c
      <3>2. toClient'[1] = c /\ \A i \in DOMAIN toClient' : i # 1 => toClient'[i] \in ClientData
        BY <2>4 DEF c
      <3>3. 1 \in DOMAIN toClient'
        BY <2>4
      <3>4. {i \in DOMAIN toClient' : toClient'[i].type = "CONNACK"} = {1}
        BY <3>1, <3>2, <3>3 DEF ClientData
      <3>5. ~MayMistake => (toClient'[1].present => HaveSessionData')
        BY <2>3, <2>4, <3>1, <3>2 DEF HaveSessionData
      <3>6. QED BY <2>1, <2>3, <3>1, <3>2, <3>4, <3>5 DEF Accepted, Asked, Arriving
    <2>6. QED BY <1>2, <2>1, <2>3, <2>5 DEF InPhase
  <1>3. QED BY <1>1, <1>2

LEMMA RefuseHandshake ==
  ASSUME WireAssumption, TypeOK, InPhase, Refuse, BrokerOnly PROVE InPhase'
  <1>1. CASE state = "RUNNING"
    BY <1>1, RunningIsRunning, RunningPast DEF Refuse, TypeOK
  <1>2. CASE state # "RUNNING"
    <2>1. Asked /\ toAnswer = {}
      BY <1>2, OnlyConnect DEF Refuse, InPhase, Running
    <2>2. UNCHANGED <<state, connectQueued, toAnswer, open, granted>> /\ toServer' = <<>>
      BY <2>1, AskedPacket DEF BrokerOnly, sessionVars, Refuse, brokerVars, Read
    <2>3. toClient' = <<Connack(FALSE, FALSE, granted)>>
      BY <2>1 DEF Refuse, Asked
    <2>4. Refused'
      BY <2>1, <2>2, <2>3 DEF Refused, Asked, Connack
    <2>5. QED BY <1>2, <2>1, <2>2, <2>4 DEF InPhase
  <1>3. QED BY <1>1, <1>2

LEMMA ElementsType ==
  ASSUME NEW S, NEW T, NEW s \in Seq(T), \A i \in 1 .. Len(s) : s[i] \in S
  PROVE  s \in Seq(S)
  OBVIOUS

LEMMA TailType ==
  ASSUME NEW S, NEW T, NEW s \in Seq(T), s # <<>>, \A i \in 2 .. Len(s) : s[i] \in S
  PROVE  Tail(s) \in Seq(S)
  <1>1. Len(s) \in Nat /\ Len(Tail(s)) = Len(s) - 1 /\ Tail(s) \in Seq(T)
    OBVIOUS
  <1>2. ASSUME NEW i \in 1 .. Len(Tail(s)) PROVE Tail(s)[i] \in S
    <2>1. Tail(s)[i] = s[i + 1] /\ i + 1 \in 2 .. Len(s)
      BY <1>1
    <2>2. QED BY <2>1
  <1>3. QED BY <1>1, <1>2, ElementsType

LEMMA ConnackRunningHandshake ==
  ASSUME WireAssumption, SessionAssumption, TypeOK, InPhase, ConnackRunning, ClientOnly
  PROVE  InPhase'
  <1>1. Accepted
    <2>1. state = "TCP_CONNECTED" /\ Receive("CONNACK") /\ Head(toClient).ok
      BY DEF ConnackRunning
    <2>2. ~Refused
      BY <2>1 DEF Refused, Connack
    <2>3. QED BY <2>1, <2>2, OnlyConnack DEF TypeOK
  <1>2. state' = "RUNNING" /\ ~connectQueued' /\ toClient' = Tail(toClient)
    BY <1>1 DEF ConnackRunning, Consume, Accepted
  <1>3. toServer \in Seq(ServerData)
    BY <1>1, EmptySeqType DEF Accepted
  <1>4. toServer' \in Seq(ServerData)
    <2>1. CASE Head(toClient).present
      <3>1. Head(toClient).rmax \in Nat \ {0}
        BY ReceivedPacket, ClientBoundFields DEF ConnackRunning, TypeOK
      <3>2. ResendPartialTxns(Head(toClient).rmax)
        BY <2>1 DEF ConnackRunning
      <3>3. QED BY <1>3, <3>1, <3>2, ResendType DEF TypeOK
    <2>2. CASE ~Head(toClient).present
      BY <1>3, <2>2 DEF ConnackRunning
    <2>3. QED BY <2>1, <2>2
  <1>5. toClient' \in Seq(ClientData)
    <2>1. toClient \in Seq(ClientBound) /\ toClient # <<>>
      BY DEF TypeOK, WireTypeOK, ConnackRunning, Receive
    <2>2. \A j \in 2 .. Len(toClient) : toClient[j] \in ClientData
      BY <1>1, <2>1 DEF Accepted, Arriving, ClientData
    <2>3. QED BY <1>2, <2>1, <2>2, TailType
  <1>6. QED BY <1>2, <1>4, <1>5, RunningAgain

LEMMA ConnackRefusedHandshake ==
  ASSUME TypeOK, InPhase, ConnackRefused, ClientOnly PROVE InPhase'
  <1>1. state # "RUNNING"
    BY RunningIsRunning, RunningPast DEF ConnackRefused, TypeOK
  <1>2. Refused /\ toAnswer = {}
    <2>1. ~Accepted
      BY DEF Accepted, ConnackRefused, Receive, TypeOK, WireTypeOK
    <2>2. QED BY <1>1, <2>1, OnlyConnack DEF ConnackRefused, TypeOK, InPhase, Running
  <1>3. toClient' = <<>>
    BY <1>2, HeadOfOne DEF Refused, ConnackRefused, Consume
  <1>4. QED BY <1>1, <1>2, <1>3
            DEF ConnackRefused, ClientOnly, brokerVars, Refused, NotAsked, InPhase

(* The end of a connection, in any phase. *)
LEMMA LostHandshake ==
  ASSUME InPhase, NetworkDrops \/ BrokerCloses \/ ClientCloses PROVE InPhase'
  <1>1. connectQueued => state = "TCP_CONNECTED"
    BY DEF InPhase, Running, NotAsked, Asked, Accepted, Refused
  <1>2. /\ toServer' = <<>> /\ toClient' = <<>>
        /\ open' = FALSE /\ toAnswer' = {}
        /\ UNCHANGED connectQueued
    BY DEF NetworkDrops, BrokerCloses, ConnectionLost, OnDisconnect, ConnectionGone,
           ClientCloses, ConnackUnknownSession
  <1>3. CASE NetworkDrops \/ BrokerCloses
    <2>1. state' = IF state = "RUNNING" THEN "DISCONNECTED" ELSE state
      BY <1>3 DEF NetworkDrops, BrokerCloses, ConnectionLost, OnDisconnect
    <2>2. state' # "RUNNING" /\ (connectQueued' => state' = "TCP_CONNECTED")
      BY <1>1, <1>2, <2>1
    <2>3. QED BY <1>2, <2>2 DEF InPhase, NotAsked
  <1>4. CASE ClientCloses
    <2>1. Receive("CONNACK") /\ state = "TCP_CONNECTED" /\ Head(toClient).ok
      BY <1>4 DEF ClientCloses, ConnackUnknownSession
    <2>2. ~connectQueued
      BY <2>1 DEF InPhase, Running, NotAsked, Asked, Accepted, Refused, Receive
    <2>3. state' = "DISCONNECTED"
      BY <1>4 DEF ClientCloses, ConnackUnknownSession
    <2>4. QED BY <1>2, <2>2, <2>3 DEF InPhase, NotAsked
  <1>5. QED BY <1>3, <1>4

-----------------------------------------------------------------------------
(* While the client is RUNNING. *)

(* The handlers of everything but CONNACK. *)
DataHandler ==
  \/ PubackPubcomp
  \/ SubackUnsuback
  \/ PubrecFailed
  \/ Pubrec
  \/ Pubrel
  \/ HandlePublish

LEMMA HandlerHandshake ==
  ASSUME WireAssumption, SessionAssumption, TypeOK, InPhase, DataHandler
  PROVE  InPhase'
  <1>1. Running
    <2>1. ASSUME NEW type, Receive(type), type # "CONNACK" PROVE state = "RUNNING"
      BY <2>1, OnlyConnack DEF TypeOK
    <2>2. state = "RUNNING"
      BY <2>1 DEF DataHandler, PubackPubcomp, SubackUnsuback, PubrecFailed, Pubrec, Pubrel,
                  HandlePublish
    <2>3. QED BY <2>2, RunningIsRunning
  <1>2. toServer \in Seq(ServerData) /\ toClient \in Seq(ClientData) /\ toClient # <<>>
    BY <1>1, RunningPackets
    DEF TypeOK, DataHandler, PubackPubcomp, SubackUnsuback, PubrecFailed, Pubrec, Pubrel,
        HandlePublish, Receive
  <1>3. state' = "RUNNING" /\ ~connectQueued' /\ toClient' = Tail(toClient)
    BY <1>1 DEF Running, DataHandler, PubackPubcomp, SubackUnsuback, PubrecFailed, Pubrec,
                Pubrel, HandlePublish, Consume
  <1>4. toClient' \in Seq(ClientData)
    BY <1>2, <1>3
  <1> DEFINE id == Head(toClient).id
  <1>5. toServer' \in Seq(ServerData)
    <2>1. CASE PubackPubcomp
      BY <1>2, <2>1, PublishEndType DEF PubackPubcomp, TypeOK
    <2>2. CASE PubrecFailed
      <3>1. DOMAIN Drop(outbound, id) \subseteq DOMAIN outbound
        BY DEF Drop, Restrict
      <3>2. PublishEnd(Drop(outbound, id))
        BY <2>2 DEF PubrecFailed
      <3> HIDE DEF id
      <3>3. QED BY <1>2, <3>1, <3>2, PublishEndType DEF TypeOK
    <2>3. CASE SubackUnsuback
      BY <1>2, <2>3 DEF SubackUnsuback
    <2>4. CASE Pubrec
      <3>1. id \in PacketId
        BY <2>4, ReceivedPacket, ClientBoundFields DEF Pubrec, TypeOK
      <3>2. Ack("PUBREL", id) \in ServerData
        BY <3>1 DEF Ack, ServerData, ServerBound
      <3>3. QED BY <1>2, <2>4, <3>2, SendOneType DEF Pubrec
    <2>5. CASE Pubrel
      <3>1. id \in InIds
        BY <2>5, ReceivedPacket, ClientBoundFields DEF Pubrel, TypeOK
      <3>2. QED BY <1>2, <2>5, <3>1, AnswerDataPackets, SendOneType DEF Pubrel
    <2>6. CASE HandlePublish
      <3>1. id \in InIds
        BY <2>6, ReceivedPacket, ClientBoundFields DEF HandlePublish, TypeOK
      <3>2. Send(<<Ack("PUBACK", id)>>) \/ Send(<<Ack("PUBREC", id)>>)
        BY <2>6 DEF HandlePublish
      <3>3. QED BY <1>2, <3>1, <3>2, AnswerDataPackets, SendOneType
    <2>7. QED BY <2>1, <2>2, <2>3, <2>4, <2>5, <2>6 DEF DataHandler
  <1>6. QED BY <1>3, <1>4, <1>5, RunningAgain

LEMMA ApplicationHandshake ==
  ASSUME WireAssumption, SessionAssumption, TypeOK, InPhase, Application
  PROVE  InPhase'
  <1>1. Running
    BY RunningIsRunning DEF Application, PublishPacket, MultiTopic, PacketTooBig
  <1>2. state' = "RUNNING" /\ ~connectQueued' /\ UNCHANGED toClient
    <2>1. UNCHANGED <<state, connectQueued, toClient>>
      BY DEF Application, PublishPacket, MultiTopic, PacketTooBig, wireVars
    <2>2. QED BY <1>1, <2>1 DEF Running
  <1>3. toServer \in Seq(ServerData) /\ toClient \in Seq(ClientData)
    BY <1>1, RunningPackets DEF TypeOK
  <1>4. ClientSide
    BY DEF TypeOK, ClientSide
  <1>5. ASSUME nextId < MaxPublish
        PROVE  nextId + 1 \in OutMsg /\ (nextId + 1) % IdSpace \in PacketId
    BY <1>4, <1>5, NewEntryType DEF QoS
  <1>6. toServer' \in Seq(ServerData)
    <2>1. ASSUME NEW qos \in PublishQoS, PublishPacket(qos) PROVE toServer' \in Seq(ServerData)
      <3>1. qos \in {0} \cup QoS
        BY WireAssumption DEF QoS
      <3>2. nextId' \in OutMsg /\ nextId' % IdSpace \in PacketId
        BY <1>5, <2>1 DEF PublishPacket
      <3>3. Publish(nextId' % IdSpace, qos, nextId') \in ServerData
        BY <3>1, <3>2, ServerDataPackets
      <3>4. UNCHANGED toServer \/ Send(<<Publish(nextId' % IdSpace, qos, nextId')>>)
        BY <2>1 DEF PublishPacket
      <3>5. QED BY <1>3, <3>3, <3>4, SendOneType
    <2>2. ASSUME NEW kind \in RequestKinds, MultiTopic(kind) PROVE toServer' \in Seq(ServerData)
      <3>1. nextId' \in OutMsg /\ nextId' % IdSpace \in PacketId
        BY <1>5, <2>2 DEF MultiTopic
      <3>2. Request(kind, nextId' % IdSpace, nextId') \in ServerData
        BY <3>1, ServerDataPackets
      <3>3. Send(<<Request(kind, nextId' % IdSpace, nextId')>>)
        BY <2>2 DEF MultiTopic
      <3>4. QED BY <1>3, <3>2, <3>3, SendOneType
    <2>3. ASSUME NEW kind, NEW qos, PacketTooBig(kind, qos) PROVE toServer' \in Seq(ServerData)
      BY <1>3, <2>3 DEF PacketTooBig, wireVars
    <2>4. QED BY <2>1, <2>2, <2>3 DEF Application
  <1>7. QED BY <1>2, <1>3, <1>6, RunningAgain

-----------------------------------------------------------------------------
(* The broker, but for the CONNECT. *)

(* It reads what only a RUNNING client sends. *)
DataReader ==
  \/ ReceivePublish1
  \/ ReceivePublish2
  \/ RejectPublish
  \/ ReceivePubrel
  \/ ReceiveRequest
  \/ ReceivePubackPubcomp
  \/ ReceivePubrec

LEMMA ReaderHandshake ==
  ASSUME WireAssumption, TypeOK, InPhase, DataReader, BrokerOnly PROVE InPhase'
  <1>1. PICK type : type # "CONNECT" /\ Incoming(type)
    BY WireAssumption DEF DataReader, ReceivePublish1, ReceivePublish2, RejectPublish,
       ReceivePubrel, ReceiveRequest, ReceivePubackPubcomp, ReceivePubrec
  <1>2. Running
    BY <1>1, OnlyConnect, RunningIsRunning
  <1>3. toServer \in Seq(ServerData) /\ toClient \in Seq(ClientData) /\ toServer # <<>>
    BY <1>1, <1>2, RunningPackets DEF TypeOK, Incoming
  <1>4. state' = "RUNNING" /\ ~connectQueued' /\ toServer' = Tail(toServer)
    BY <1>2 DEF Running, BrokerOnly, sessionVars, DataReader, ReceivePublish1,
       ReceivePublish2, RejectPublish, ReceivePubrel, ReceiveRequest,
       ReceivePubackPubcomp, ReceivePubrec, Read
  <1>5. toServer' \in Seq(ServerData)
    BY <1>3, <1>4
  <1>6. toClient' \in Seq(ClientData)
    <2>1. CASE ReceivePubrec
      <3>1. Head(toServer).id \in InIds
        BY <2>1, ReadPacket, ServerBoundFields DEF ReceivePubrec, TypeOK
      <3>2. /\ Ack("PUBREL", Head(toServer).id) \in ClientData
            /\ Nack("PUBREL", Head(toServer).id) \in ClientData
        BY <3>1, ClientDataPackets
      <3>3. PICK p \in {Ack("PUBREL", Head(toServer).id), Nack("PUBREL", Head(toServer).id)} :
              toClient' = Append(toClient, p)
        BY <2>1 DEF ReceivePubrec
      <3>4. p \in ClientData
        BY <3>2
      <3>5. QED BY <1>3, <3>3, <3>4
    <2>2. CASE UNCHANGED toClient
      BY <1>3, <2>2
    <2>3. QED BY <2>1, <2>2 DEF DataReader, ReceivePublish1, ReceivePublish2, RejectPublish,
                 ReceivePubrel, ReceiveRequest, ReceivePubackPubcomp
  <1>7. QED BY <1>4, <1>5, <1>6, RunningAgain

LEMMA AnswerHandshake ==
  ASSUME TypeOK, InPhase, Answer, BrokerOnly PROVE InPhase'
  <1>1. Running
    BY DEF Answer, InPhase
  <1>2. toServer \in Seq(ServerData) /\ toClient \in Seq(ClientData)
    BY <1>1, RunningPackets DEF TypeOK
  <1>3. PICK a \in toAnswer : toClient' = Append(toClient, a)
    BY DEF Answer
  <1>4. a \in ClientData
    BY ClientDataPackets DEF TypeOK, BrokerTypeOK
  <1>5. toClient' \in Seq(ClientData) /\ toServer' \in Seq(ServerData)
    BY <1>2, <1>3, <1>4 DEF Answer
  <1>6. QED BY <1>1, <1>5, RunningAgain DEF Running, BrokerOnly, sessionVars

LEMMA BrokerPublishHandshake ==
  ASSUME WireAssumption, TypeOK, InPhase, NEW qos \in QoS, BrokerPublish(qos), BrokerOnly
  PROVE  InPhase'
  <1>1. PICK id \in InIds : toClient' = Append(toClient, Publish(id, qos, nextIn'))
    BY DEF BrokerPublish
  <1> DEFINE p == Publish(id, qos, nextIn')
  <1>2. p \in ClientData
    <2>1. nextIn' \in InMsg
      BY WireAssumption DEF TypeOK, BrokerTypeOK, BrokerPublish, InMsg
    <2>2. QED BY <2>1, ClientDataPackets
  <1> HIDE DEF p
  <1>3. toClient' = Append(toClient, p) /\ toClient \in Seq(ClientBound)
    BY <1>1 DEF p, TypeOK, WireTypeOK
  <1>4. UNCHANGED <<toServer, state, connectQueued, inbound, outbound, toAnswer>>
    BY DEF BrokerPublish, BrokerOnly, sessionVars
  <1>5. CASE Running
    <2>1. toServer \in Seq(ServerData) /\ toClient \in Seq(ClientData)
      BY <1>5, RunningPackets DEF TypeOK
    <2>2. toClient' \in Seq(ClientData)
      BY <1>2, <1>3, <2>1
    <2>3. QED BY <1>4, <1>5, <2>1, <2>2, RunningAgain DEF Running
  <1>6. CASE Accepted /\ state # "RUNNING" /\ toAnswer = {}
    <2>1. Arriving("CONNACK")' = {1} /\ toClient'[1] = toClient[1]
      <3>1. 1 \in DOMAIN toClient /\ Len(toClient) \in Nat
        BY <1>3, <1>6 DEF Accepted, Arriving
      <3>2. DOMAIN toClient' = DOMAIN toClient \cup {Len(toClient) + 1}
        BY <1>3
      <3>3. toClient'[Len(toClient) + 1].type # "CONNACK"
        BY <1>2, <1>3 DEF ClientData
      <3>4. \A i \in DOMAIN toClient : toClient'[i] = toClient[i]
        BY <1>3
      <3>5. QED BY <1>6, <3>1, <3>2, <3>3, <3>4 DEF Accepted, Arriving
    <2>2. HaveSessionData' = HaveSessionData
      BY <1>4 DEF HaveSessionData
    <2>3. Accepted'
      BY <1>4, <1>6, <2>1, <2>2 DEF Accepted
    <2>4. QED BY <1>4, <1>6, <2>3 DEF InPhase
  <1>7. QED BY <1>5, <1>6 DEF InPhase, NotAsked, Asked, Refused, BrokerPublish

LEMMA UnchangedHandshake ==
  ASSUME InPhase,
         UNCHANGED <<toServer, toClient, state, connectQueued, inbound, outbound, toAnswer,
                     open, granted>>
  PROVE  InPhase'
  BY DEF InPhase, Running, NotAsked, Asked, Accepted, Refused, Leaving, Arriving,
         HaveSessionData

-----------------------------------------------------------------------------
(* The handshake. *)

LEMMA OvertakenPhase ==
  ASSUME TypeOK, InPhase, Overtaken PROVE InPhase'
  <1>1. Running
    BY RunningIsRunning DEF Overtaken
  <1>2. toServer \in Seq(ServerData) /\ toClient \in Seq(ClientData)
    BY <1>1, RunningPackets DEF TypeOK
  <1>3. PICK i \in 1 .. Len(toClient) - 1 : toClient' = Exchanged(toClient, i)
    BY DEF Overtaken, Exchanged
  <1>4. toClient' \in Seq(ClientData)
    BY <1>2, <1>3, ExchangedType
  <1>5. QED BY <1>1, <1>2, <1>4, RunningAgain DEF Overtaken, sessionVars, Running

LEMMA NextPhase == TypeOK /\ InPhase /\ [InTurn]_vars => InPhase'
  <1> SUFFICES ASSUME TypeOK, InPhase, [InTurn]_vars PROVE InPhase'
    OBVIOUS
  <1>1. WireAssumption /\ SessionAssumption
    BY WireAssumption, SessionAssumption
  <1>2. CASE ClientStep
    BY <1>1, <1>2, ConnectPacketHandshake, ConnackRunningHandshake, ConnackRefusedHandshake,
       LostHandshake, HandlerHandshake DEF ClientStep, DataHandler
  <1>3. CASE Establish
    BY <1>3, EstablishHandshake
  <1>4. CASE Application
    BY <1>1, <1>4, ApplicationHandshake
  <1>5. CASE BrokerStep
    BY <1>1, <1>5, AcceptHandshake, ReaderHandshake, AnswerHandshake
    DEF BrokerStep, DataReader
  <1>6. CASE BrokerChoice
    <2>1. CASE Expire /\ BrokerOnly
      BY <2>1, UnchangedHandshake DEF Expire, BrokerOnly, sessionVars, wireVars
    <2>2. CASE Refuse /\ BrokerOnly
      BY <1>1, <2>2, RefuseHandshake
    <2>3. CASE RejectPublish /\ BrokerOnly
      BY <1>1, <2>3, ReaderHandshake DEF DataReader
    <2>4. CASE \E qos \in QoS : BrokerPublish(qos) /\ BrokerOnly
      BY <1>1, <2>4, BrokerPublishHandshake
    <2>5. QED BY <1>6, <2>1, <2>2, <2>3, <2>4 DEF BrokerChoice
  <1>7. CASE NetworkDrops \/ BrokerCloses
    BY <1>7, LostHandshake
  <1>8. CASE Overtaken
    BY <1>8, OvertakenPhase
  <1>9. CASE UNCHANGED vars
    BY <1>9, UnchangedHandshake DEF vars, wireVars, sessionVars, brokerVars
  <1>10. QED BY <1>2, <1>3, <1>4, <1>5, <1>6, <1>7, <1>8, <1>9 DEF InTurn

(* Without packets that outlive their connection there are no other phases. *)
LEMMA PhaseInvariant == Spec => [](TypeOK /\ (outlived \/ InPhase))
  <1>1. Init => TypeOK /\ (outlived \/ InPhase)
    BY InitType, InitHandshake
  <1>2. TypeOK /\ (outlived \/ InPhase) /\ [Next]_vars => (TypeOK /\ (outlived \/ InPhase))'
    <2> SUFFICES ASSUME TypeOK, outlived \/ InPhase, [Next]_vars
                 PROVE  TypeOK' /\ (outlived \/ InPhase)'
      OBVIOUS
    <2>1. TypeOK'
      BY NextType
    <2>2. ([InTurn]_vars /\ outlived' = outlived) \/ outlived'
      BY OutlivedStays
    <2>3. QED BY <2>1, <2>2, NextPhase
  <1>3. QED BY <1>1, <1>2, PTL DEF Spec

-----------------------------------------------------------------------------
(* Packets that outlive their connection are handled before the next CONNECT
   leaves. *)

BeforeConnect ==
  \/ NotAsked /\ state # "RUNNING" /\ toAnswer = {}
  \/ Spoiled

RestsWait == rest # <<>> => BeforeConnect

LEMMA BeforeConnectIdle ==
  ASSUME BeforeConnect
  PROVE  /\ toClient = <<>> /\ toAnswer = {} /\ ~open /\ state # "RUNNING"
         /\ connectQueued => state = "TCP_CONNECTED"
         /\ ~Incoming("CONNECT")
  BY DEF BeforeConnect, NotAsked, Spoiled, Incoming

LEMMA SendData ==
  ASSUME NEW S, toServer \in Seq(S), NEW packets \in Seq(ServerData), Send(packets)
  PROVE  \/ UNCHANGED toServer
         \/ /\ state \in {"RUNNING", "TCP_CONNECTED"}
            /\ toServer' # <<>>
            /\ Head(toServer') = IF toServer = <<>> THEN Head(packets) ELSE Head(toServer)
            /\ toServer = <<>> => Head(packets).type # "CONNECT"
  <1>1. CASE state \in {"RUNNING", "TCP_CONNECTED"} /\ linkUp /\ packets # <<>>
    <2>1. toServer' = toServer \o packets
      BY <1>1 DEF Send
    <2>2. Head(packets) \in ServerData
      BY <1>1
    <2>3. toServer' # <<>>
      BY <1>1, <2>1
    <2>4. Head(toServer') = IF toServer = <<>> THEN Head(packets) ELSE Head(toServer)
      BY <1>1, <2>1
    <2>5. QED BY <1>1, <2>2, <2>3, <2>4 DEF ServerData
  <1>2. CASE ~(state \in {"RUNNING", "TCP_CONNECTED"} /\ linkUp)
    BY <1>2 DEF Send
  <1>3. CASE packets = <<>>
    BY <1>3 DEF Send
  <1>4. QED BY <1>1, <1>2, <1>3

LEMMA RestStepBefore ==
  ASSUME TypeOK, BeforeConnect, RestStep PROVE BeforeConnect'
  <1>1. /\ outlived'
        /\ \E packets \in Seq(ServerData) : Send(packets)
        /\ UNCHANGED <<linkUp, toClient, state, connectQueued, brokerVars>>
    BY WireAssumption, SessionAssumption, RestStepType
  <1>2. UNCHANGED <<open, toAnswer>>
    BY <1>1 DEF brokerVars
  <1>3. PICK packets \in Seq(ServerData) : Send(packets)
    BY <1>1
  <1>4. CASE UNCHANGED toServer
    BY <1>1, <1>2, <1>4 DEF BeforeConnect, NotAsked, Spoiled
  <1>5. CASE /\ state \in {"RUNNING", "TCP_CONNECTED"}
             /\ toServer' # <<>>
             /\ Head(toServer') = IF toServer = <<>> THEN Head(packets) ELSE Head(toServer)
             /\ toServer = <<>> => Head(packets).type # "CONNECT"
    <2>1. state = "TCP_CONNECTED" /\ toClient = <<>> /\ toAnswer = {} /\ ~open
      BY <1>5, BeforeConnectIdle
    <2>2. Head(toServer').type # "CONNECT"
      BY <1>5 DEF BeforeConnect, NotAsked, Spoiled
    <2>3. QED BY <1>1, <1>2, <1>5, <2>1, <2>2 DEF BeforeConnect, Spoiled
  <1>6. QED BY <1>3, <1>4, <1>5, SendData DEF TypeOK, WireTypeOK

LEMMA ConnectPacketSpoiled ==
  ASSUME TypeOK, Spoiled, ConnectPacket, ClientOnly PROVE Spoiled'
  <1> DEFINE c == Connect(~HaveSessionData)
  <1>1. toServer' = toServer \/ toServer' = toServer \o <<c>>
    BY DEF ConnectPacket, Send
  <1> HIDE DEF c
  <1>2. toServer \in Seq(ServerBound) /\ toServer # <<>>
    BY DEF TypeOK, WireTypeOK, Spoiled
  <1>3. toServer' # <<>> /\ Head(toServer') = Head(toServer)
    BY <1>1, <1>2
  <1>4. UNCHANGED <<toClient, state, toAnswer, open, outlived>>
    BY DEF ConnectPacket, ClientOnly, brokerVars
  <1>5. QED BY <1>3, <1>4 DEF Spoiled

LEMMA InTurnBefore ==
  ASSUME TypeOK, BeforeConnect, [InTurn]_vars, outlived' = outlived,
         ~(ConnectPacket /\ ClientOnly)
  PROVE  BeforeConnect'
  <1>1. /\ toClient = <<>> /\ toAnswer = {} /\ ~open /\ state # "RUNNING"
        /\ connectQueued => state = "TCP_CONNECTED"
        /\ ~Incoming("CONNECT")
    BY BeforeConnectIdle
  <1>2. ASSUME UNCHANGED <<toServer, toClient, toAnswer, open, state, connectQueued>>
        PROVE  BeforeConnect'
    BY <1>2 DEF BeforeConnect, NotAsked, Spoiled
  <1>3. CASE ClientStep
    <2>1. \A type : ~Receive(type)
      BY <1>1 DEF Receive
    <2>2. QED BY <1>3, <2>1 DEF ClientStep, ClientCloses, ConnackUnknownSession, ConnackRunning,
              ConnackRefused, PubackPubcomp, SubackUnsuback, PubrecFailed, Pubrec, Pubrel,
              HandlePublish
  <1>4. CASE Establish
    <2>1. UNCHANGED <<toServer, toClient, toAnswer, open>>
      BY <1>4 DEF Establish, StartConnect, OnTcpConnect, ClientOnly, brokerVars, wireVars
    <2>2. state \in {"DISCONNECTED", "CONNECTING"} /\ state' # "RUNNING"
          /\ (connectQueued' => state' = "TCP_CONNECTED")
      BY <1>1, <1>4 DEF Establish, StartConnect, OnTcpConnect
    <2>3. QED BY <2>1, <2>2 DEF BeforeConnect, NotAsked, Spoiled
  <1>5. ~Application /\ ~Overtaken
    BY <1>1 DEF Application, PublishPacket, MultiTopic, PacketTooBig, Overtaken
  <1>6. CASE BrokerStep \/ BrokerChoice
    <2>1. \A type : ~Incoming(type)
      BY <1>1 DEF Incoming
    <2>2. Expire /\ BrokerOnly
      BY <1>1, <1>6, <2>1 DEF BrokerStep, BrokerChoice, AcceptResume, AcceptNew, Refuse,
         ReceivePublish1, ReceivePublish2, RejectPublish, ReceivePubrel, ReceiveRequest,
         Answer, ReceivePubackPubcomp, ReceivePubrec, BrokerPublish
    <2>3. QED BY <1>2, <2>2 DEF Expire, BrokerOnly, sessionVars, wireVars
  <1>7. CASE NetworkDrops \/ BrokerCloses
    <2>1. /\ toServer' = <<>> /\ toClient' = <<>>
          /\ open' = FALSE /\ toAnswer' = {}
          /\ UNCHANGED <<connectQueued, state>>
      BY <1>1, <1>7 DEF NetworkDrops, BrokerCloses, ConnectionLost, OnDisconnect, ConnectionGone
    <2>2. QED BY <1>1, <2>1 DEF BeforeConnect, NotAsked
  <1>8. CASE UNCHANGED vars
    BY <1>2, <1>8 DEF vars, wireVars, sessionVars, brokerVars
  <1>9. QED BY <1>3, <1>4, <1>5, <1>6, <1>7, <1>8 DEF InTurn

LEMMA LostBefore ==
  ASSUME InPhase \/ BeforeConnect, NetworkDrops \/ BrokerCloses PROVE BeforeConnect'
  <1>1. connectQueued => state = "TCP_CONNECTED"
    BY BeforeConnectIdle DEF InPhase, Running, NotAsked, Asked, Accepted, Refused
  <1>2. /\ toServer' = <<>> /\ toClient' = <<>>
        /\ open' = FALSE /\ toAnswer' = {}
        /\ UNCHANGED connectQueued
        /\ state' = IF state = "RUNNING" THEN "DISCONNECTED" ELSE state
    BY DEF NetworkDrops, BrokerCloses, ConnectionLost, OnDisconnect, ConnectionGone
  <1>3. state' # "RUNNING" /\ (connectQueued' => state' = "TCP_CONNECTED")
    BY <1>1, <1>2
  <1>4. QED BY <1>2, <1>3 DEF BeforeConnect, NotAsked

(* Only the loss of a connection leaves anything in a rest, and while something
   is there the CONNECT waits. *)
LEMMA InTurnRests ==
  ASSUME TypeOK, [InTurn]_vars
  PROVE  \/ UNCHANGED rest /\ (rest # <<>> => ~(ConnectPacket /\ ClientOnly))
         \/ NetworkDrops \/ BrokerCloses
  <1>1. CASE ClientStep /\ ~(rest = <<>> /\ ConnectPacket /\ ClientOnly)
    <2>1. UNCHANGED rest
      BY <1>1 DEF ClientStep, ClientOnly, ClientCloses
    <2>2. \/ Receive("CONNACK")
          \/ DataHandler
      BY <1>1 DEF ClientStep, ClientCloses, ConnackUnknownSession, ConnackRunning,
                  ConnackRefused, DataHandler
    <2>3. toClient # <<>> /\ toClient' # toClient
      <3>1. toClient # <<>>
        BY <2>2 DEF DataHandler, Receive, PubackPubcomp, SubackUnsuback, PubrecFailed,
                    Pubrec, Pubrel, HandlePublish
      <3>2. toClient' = Tail(toClient) \/ toClient' = <<>>
        BY <1>1 DEF ClientStep, ClientCloses, ConnackUnknownSession, ConnackRunning,
                    ConnackRefused, PubackPubcomp, SubackUnsuback, PubrecFailed, Pubrec,
                    Pubrel, HandlePublish, Consume
      <3>3. Tail(toClient) # toClient
        BY <3>1 DEF TypeOK, WireTypeOK
      <3>4. QED BY <3>1, <3>2, <3>3
    <2>4. ~ConnectPacket
      BY <2>3 DEF ConnectPacket
    <2>5. QED BY <2>1, <2>4
  <1>2. CASE rest = <<>> /\ ConnectPacket /\ ClientOnly
    BY <1>2 DEF ClientOnly
  <1>3. ConnectPacket /\ ClientOnly => connectQueued /\ ~connectQueued' /\ UNCHANGED brokerVars
    BY DEF ConnectPacket, ClientOnly
  <1>4. CASE Establish \/ Application
    BY <1>4 DEF Establish, Application, ClientOnly, StartConnect, OnTcpConnect,
                PublishPacket, MultiTopic, PacketTooBig, ConnectPacket
  <1>5. CASE BrokerStep \/ BrokerChoice
    BY <1>3, <1>5 DEF BrokerStep, BrokerChoice, BrokerOnly, sessionVars
  <1>6. CASE Overtaken
    BY <1>3, <1>6 DEF Overtaken, sessionVars
  <1>7. CASE UNCHANGED vars
    BY <1>3, <1>7 DEF vars, sessionVars
  <1>8. QED BY <1>1, <1>2, <1>4, <1>5, <1>6, <1>7 DEF InTurn

LEMMA NextHandshake ==
  TypeOK /\ Handshake /\ RestsWait /\ [Next]_vars => Handshake' /\ RestsWait'
  <1> SUFFICES ASSUME TypeOK, Handshake, RestsWait, [Next]_vars
               PROVE  Handshake' /\ RestsWait'
    OBVIOUS
  <1>1. CASE RestStep
    <2>1. BeforeConnect
      BY <1>1, WireAssumption, SessionAssumption, RestStepType DEF RestsWait
    <2>2. BeforeConnect'
      BY <1>1, <2>1, RestStepBefore
    <2>3. QED BY <2>2 DEF BeforeConnect, Handshake, InPhase, RestsWait
  <1>2. CASE [InTurn]_vars
    <2>1. CASE NetworkDrops \/ BrokerCloses
      <3>1. InPhase \/ BeforeConnect
        BY DEF Handshake, BeforeConnect
      <3>2. BeforeConnect'
        BY <2>1, <3>1, LostBefore
      <3>3. QED BY <3>2 DEF BeforeConnect, Handshake, InPhase, RestsWait
    <2>2. CASE UNCHANGED rest /\ (rest # <<>> => ~(ConnectPacket /\ ClientOnly))
      <3>1. UNCHANGED outlived
        BY <1>2, InTurnHistory
      <3>2. RestsWait'
        BY <1>2, <2>2, <3>1, InTurnBefore DEF RestsWait
      <3>3. CASE InPhase
        BY <1>2, <3>2, <3>3, NextPhase DEF Handshake
      <3>4. CASE Spoiled /\ ~(ConnectPacket /\ ClientOnly)
        <4>1. BeforeConnect'
          BY <1>2, <3>1, <3>4, InTurnBefore DEF BeforeConnect
        <4>2. QED BY <3>2, <4>1 DEF BeforeConnect, Handshake, InPhase
      <3>5. CASE Spoiled /\ ConnectPacket /\ ClientOnly
        BY <3>2, <3>5, ConnectPacketSpoiled DEF Handshake
      <3>6. QED BY <3>3, <3>4, <3>5 DEF Handshake
    <2>3. QED BY <1>2, <2>1, <2>2, InTurnRests
  <1>3. QED BY <1>1, <1>2 DEF Next

(* Every connection of every behaviour is in one of the phases, whatever is
   handled after the end of its connection. *)
THEOREM HandshakeInvariant == Spec => []Handshake
  <1>1. Init => TypeOK /\ Handshake /\ RestsWait
    <2>1. Init => rest = <<>>
      BY DEF Init
    <2>2. QED BY <2>1, InitType, InitHandshake DEF Handshake, RestsWait
  <1>2. (TypeOK /\ Handshake /\ RestsWait) /\ [Next]_vars
          => (TypeOK /\ Handshake /\ RestsWait)'
    BY NextType, NextHandshake
  <1>3. QED BY <1>1, <1>2, PTL DEF Spec

(* With a broker that announces a session only to a client that asked to resume
   one, _handlePacket never finds Session Present for a client without session
   data, whatever happened on earlier connections and however late the queued
   ConnectPacket was built. *)
THEOREM SessionPresentCorrect ==
  ASSUME ~MayMistake PROVE Spec => []SessionPresentHasData
  <1>1. Handshake => SessionPresentHasData
    BY DEF Handshake, Spoiled, InPhase, Running, NotAsked, Asked, Accepted, Refused,
           Arriving, Connack, SessionPresentHasData
  <1>2. QED BY <1>1, HandshakeInvariant, PTL
=============================================================================
