-------------------------- MODULE Messages_proofs ---------------------------
(***************************************************************************)
(* Messages in both directions, for every value of the constants.  Those   *)
(* of the client, for an application that publishes at QoS 1 only:         *)
(* _inflight is exact, Receive Maximum is respected, and messages are      *)
(* handed on in order. (With QoS 2 none of it holds: run flow_control.)    *)
(* Those of the broker, with no premise, so that the client's own          *)
(* identifiers may be used again: what is acknowledged was dispatched,     *)
(* what was not is never taken for a copy, and _inbound keeps nothing.     *)
(* Both until a packet is handled after the end of its connection          *)
(* (outlived): the runs go on from there.                                  *)
(***************************************************************************)
EXTENDS Outbound_proofs

(* The premise: besides what OutboundInvariant needs, _inflight is wide enough
   to count every identifier (uint32_t against 16 bits). *)
AtQoS1 == IdsSuffice /\ PublishQoS = {1} /\ IdSpace <= Word

(* The publishes sent on this connection and not yet acknowledged. *)
InFlight == StoredPublishes \ Range(pending)

-----------------------------------------------------------------------------
(* What QoS 1 rules out. *)

LEMMA OnlyPuback ==
  ASSUME AtQoS1, Context
  PROVE  /\ Released = {}
         /\ \A a \in Replies : a.type \notin {"PUBREC", "PUBCOMP"}
         /\ \A p \in Requests : p.type # "PUBREL"
  <1> USE ContextParts
  <1>1. \A id \in DOMAIN outbound :
          ~outbound[id].pubrec /\ (outbound[id].kind = "PUBLISH" => outbound[id].qos = 1)
    BY DEF StoreRight, EntryRight, AtQoS1
  <1>2. \A a \in Replies : a.type \notin {"PUBREC", "PUBCOMP"}
    <2>1. ASSUME NEW a \in Replies, a.type = "PUBREC" PROVE FALSE
      <3>1. a.id \in DOMAIN outbound /\ outbound[a.id].qos = 2 /\ outbound[a.id].kind = "PUBLISH"
        BY <2>1 DEF RepliesMatch
      <3>2. QED BY <1>1, <3>1
    <2>2. QED BY <1>1, <2>1 DEF RepliesMatch
  <1>3. QED BY <1>1, <1>2 DEF Released, RequestsMatch

LEMMA FlowFinite ==
  ASSUME AtQoS1, Context
  PROVE  /\ IsFiniteSet(StoredPublishes) /\ IsFiniteSet(InFlight)
         /\ Cardinality(InFlight) \in 0 .. MaxPublish
         /\ MaxPublish < Word /\ Word \in Nat /\ MaxPublish \in Nat
  <1>1. MaxPublish \in Nat /\ Word \in Nat /\ MaxPublish < Word
    BY WireAssumption, SessionAssumption DEF AtQoS1, IdsSuffice
  <1>2. InFlight \subseteq StoredPublishes /\ StoredPublishes \subseteq 1 .. MaxPublish
    BY ContextParts, StoredIsMessage DEF InFlight, StoredPublishes, OutMsg
  <1>3. IsFiniteSet(1 .. MaxPublish) /\ Cardinality(1 .. MaxPublish) = MaxPublish
    BY <1>1, FS_Interval
  <1>4. IsFiniteSet(StoredPublishes) /\ IsFiniteSet(InFlight)
    BY <1>2, <1>3, FS_Subset
  <1>5. Cardinality(InFlight) \in Nat
    BY <1>4, FS_CardinalityType
  <1>6. InFlight \in SUBSET (1 .. MaxPublish)
    BY <1>2
  <1>7. Cardinality(InFlight) <= Cardinality(1 .. MaxPublish)
    BY <1>3, <1>6, FS_Subset
  <1>8. QED BY <1>1, <1>3, <1>4, <1>5, <1>7

(* The publish a PUBACK answers was in flight, and the broker no longer counts
   it. *)
LEMMA AnsweredFlight ==
  ASSUME AtQoS1, Context, NEW a, a \in Carried(toClient, Replying), a.type = "PUBACK"
  PROVE  a.id \in InFlight /\ a.id \notin unanswered
  <1> USE ContextParts
  <1>1. a \in Replies /\ a.id \in StoredPublishes
    BY DEF Replies, RepliesMatch, StoredPublishes
  <1>2. a.id \notin Range(pending)
    BY <1>1 DEF OneStepPerId
  <1>3. a.id \notin unanswered
    <2>1. \A b \in toAnswer : b.id # a.id
      BY DEF OneStepPerId
    <2>2. \A b \in Replies : b.type # "PUBREC"
      BY OnlyPuback
    <2>3. \A p \in Requests : p.type # "PUBREL"
      BY OnlyPuback
    <2>4. QED BY <2>1, <2>2, <2>3 DEF UnansweredMatch, Replies
  <1>4. QED BY <1>1, <1>2, <1>3 DEF InFlight

-----------------------------------------------------------------------------
(* The count. *)

LEMMA FlowParts ==
  ASSUME FlowExact, state = "RUNNING"
  PROVE  /\ inflight = Cardinality(InFlight)
         /\ inflight <= receiveMax
         /\ pending # <<>> => inflight = receiveMax
         /\ receiveMax = granted
         /\ unanswered \subseteq StoredPublishes
  BY DEF FlowExact, InflightCounted, InFlight

LEMMA FlowRunning ==
  ASSUME state' = "RUNNING",
         inflight' = Cardinality(InFlight'),
         inflight' <= receiveMax',
         pending' # <<>> => inflight' = receiveMax',
         receiveMax' = granted',
         unanswered' \subseteq StoredPublishes'
  PROVE  FlowExact'
  BY NoConnackNext DEF FlowExact, InflightCounted, InFlight

(* A step that is about something else. *)
LEMMA FlowSame ==
  ASSUME FlowExact, state = "RUNNING", StoredPublishes' = StoredPublishes,
         unanswered' \subseteq StoredPublishes,
         UNCHANGED <<state, inflight, pending, receiveMax, granted>>
  PROVE  FlowExact'
  <1>1. InFlight' = InFlight
    BY DEF InFlight
  <1>2. QED BY <1>1, FlowParts, FlowRunning

(* Nobody publishes. *)
LEMMA FlowIdle ==
  ASSUME state' # "RUNNING", Accepted' => toClient'[1].rmax = granted' PROVE FlowExact'
  BY DEF FlowExact, InflightCounted

(* A publish ended; the next one takes its place, or there is one fewer. *)
LEMMA PubackFlow ==
  ASSUME AtQoS1, Context, FlowExact, state = "RUNNING", PubackPubcomp, ClientOnly
  PROVE  FlowExact'
  <1> USE ContextParts
  <1>1. PICK h : h = Head(toClient)
    OBVIOUS
  <1>2. /\ Consume /\ PublishEnd(outbound) /\ outbound' = Drop(outbound, h.id)
        /\ UNCHANGED <<state, receiveMax, granted, unanswered, toAnswer>>
    BY <1>1 DEF PubackPubcomp, AckOutbound, ClientOnly, brokerVars
  <1>3. h \in Carried(toClient, Replying) /\ h.type = "PUBACK"
    <2>1. PICK type \in {"PUBACK", "PUBCOMP"} : Receive(type)
      BY DEF PubackPubcomp
    <2>2. type \in Replying
      BY DEF Replying
    <2>3. h \in Replies /\ h \in Carried(toClient, Replying) /\ h.type = type
      BY <1>1, <1>2, <2>1, <2>2, HandledReply
    <2>4. QED BY <2>3, OnlyPuback
  <1>4. h.id \in InFlight /\ h.id \notin unanswered
    BY <1>3, AnsweredFlight
  <1>5. StoredPublishes' = StoredPublishes \ {h.id}
    BY <1>2 DEF Drop, Restrict, StoredPublishes
  <1>6. unanswered' \subseteq StoredPublishes'
    BY <1>2, <1>4, <1>5, FlowParts
  <1>7. /\ IsFiniteSet(InFlight \ {h.id})
        /\ Cardinality(InFlight \ {h.id}) = Cardinality(InFlight) - 1
    BY <1>4, FlowFinite, FS_RemoveElement
  <1>8. /\ inflight = Cardinality(InFlight) /\ inflight <= receiveMax /\ receiveMax \in Nat
        /\ inflight \in Nat /\ inflight < Word /\ Word \in Nat
    BY FlowParts, FlowFinite DEF TypeOK, SessionTypeOK
  <1>9. CASE pending # <<>>
    <2>1. PICK front : front = Head(pending)
      OBVIOUS
    <2>2. /\ IsInjective(pending) /\ pending \in Seq(PacketId)
          /\ front \in Range(pending) /\ Range(Tail(pending)) = Range(pending) \ {front}
      BY <1>9, <2>1, QueueTail DEF OneStepPerId, TypeOK, SessionTypeOK
    <2>3. front \in StoredPublishes /\ front \in DOMAIN outbound
      BY <2>2 DEF PendingMatch, StoredPublishes
    <2>4. pending' = Tail(pending) /\ inflight' = inflight
      BY <1>2, <1>9, <2>1, <2>3 DEF PublishEnd, RunFlow
    <2>5. /\ InFlight' = (InFlight \ {h.id}) \cup {front}
          /\ front \notin InFlight \ {h.id}
      BY <1>4, <1>5, <2>2, <2>3, <2>4 DEF InFlight
    <2>6. Cardinality(InFlight') = Cardinality(InFlight \ {h.id}) + 1
      BY <1>7, <2>5, FS_AddElement
    <2>7. inflight' = Cardinality(InFlight')
      BY <1>7, <1>8, <2>4, <2>6
    <2>8. inflight' = receiveMax
      BY <1>9, <2>4, FlowParts
    <2>9. QED BY <1>2, <1>6, <1>8, <2>4, <2>7, <2>8, FlowParts, FlowRunning
  <1>10. CASE pending = <<>>
    <2>1. inflight' = (inflight - 1) % Word /\ pending' = pending
      BY <1>2, <1>10 DEF PublishEnd
    <2>2. InFlight' = InFlight \ {h.id}
      BY <1>5, <2>1 DEF InFlight
    <2>3. Cardinality(InFlight \ {h.id}) \in Nat
      BY <1>7, FS_CardinalityType
    <2>4. inflight - 1 \in Nat /\ inflight - 1 < Word
      BY <1>7, <1>8, <2>3
    <2>5. inflight' = inflight - 1
      BY <1>8, <2>1, <2>4
    <2>6. inflight' = Cardinality(InFlight') /\ inflight' <= receiveMax
      BY <1>7, <1>8, <2>2, <2>5
    <2>7. QED BY <1>2, <1>6, <1>10, <2>1, <2>6, FlowParts, FlowRunning
  <1>11. QED BY <1>9, <1>10

LEMMA SubackFlow ==
  ASSUME Context, FlowExact, state = "RUNNING", SubackUnsuback, ClientOnly
  PROVE  FlowExact'
  <1> USE ContextParts
  <1>1. PICK h : h = Head(toClient)
    OBVIOUS
  <1>2. /\ Consume /\ outbound' = Drop(outbound, h.id)
        /\ UNCHANGED <<state, inflight, pending, receiveMax, granted, unanswered, toAnswer>>
    BY <1>1 DEF SubackUnsuback, AckOutbound, ClientOnly, brokerVars
  <1>3. h \in Replies /\ h.type \in {"SUBACK", "UNSUBACK"}
    <2>1. PICK type \in {"SUBACK", "UNSUBACK"} : Receive(type)
      BY DEF SubackUnsuback
    <2>2. type \in Replying
      BY DEF Replying
    <2>3. QED BY <1>1, <1>2, <2>1, <2>2, HandledReply
  <1>4. h.id \notin StoredPublishes
    BY <1>3 DEF RepliesMatch, StoredPublishes
  <1>5. StoredPublishes' = StoredPublishes
    BY <1>2, <1>4 DEF Drop, Restrict, StoredPublishes
  <1>6. QED BY <1>2, <1>5, FlowParts, FlowSame

(* Handlers that have nothing to do, and those of the broker's messages. *)
LEMMA OtherHandlerFlow ==
  ASSUME AtQoS1, Context, FlowExact, state = "RUNNING",
         PubrecFailed \/ Pubrec \/ Pubrel \/ HandlePublish, ClientOnly
  PROVE  FlowExact'
  <1> USE ContextParts
  <1>1. CASE Pubrel \/ HandlePublish
    <2>1. UNCHANGED <<state, inflight, pending, receiveMax, granted, outbound, unanswered>>
      BY <1>1 DEF Pubrel, HandlePublish, ClientOnly, brokerVars
    <2>2. StoredPublishes' = StoredPublishes
      BY <2>1 DEF StoredPublishes
    <2>3. QED BY <2>1, <2>2, FlowParts, FlowSame
  <1>2. CASE PubrecFailed \/ Pubrec
    <2>1. Receive("PUBREC") /\ Consume /\ UNCHANGED toAnswer
      BY <1>2 DEF PubrecFailed, Pubrec, ClientOnly, brokerVars
    <2>2. "PUBREC" \in Replying
      BY DEF Replying
    <2>3. Head(toClient) \in Replies /\ Head(toClient).type = "PUBREC"
      BY <2>1, <2>2, HandledReply
    <2>4. QED BY <2>3, OnlyPuback
  <1>3. QED BY <1>1, <1>2

LEMMA PublishFlow ==
  ASSUME AtQoS1, Context, FlowExact, NEW qos \in PublishQoS, PublishPacket(qos), ClientOnly
  PROVE  FlowExact'
  <1> USE ContextParts
  <1> DEFINE id == nextId'
  <1>1. /\ state = "RUNNING" /\ nextId < MaxPublish /\ nextId' = nextId + 1
        /\ UNCHANGED <<state, receiveMax, granted, unanswered>>
    BY DEF PublishPacket, ClientOnly, brokerVars
  <1>2. /\ id % IdSpace = id /\ id # 0 /\ id \notin DOMAIN outbound /\ id \notin Range(pending)
        /\ id \in PacketId
    BY <1>1, NewIdentifier DEF AtQoS1
  <1>3. /\ outbound' = Put(outbound, id, NewEntry("PUBLISH", qos))
        /\ IF inflight >= receiveMax
           THEN pending' = Append(pending, id) /\ UNCHANGED inflight
           ELSE inflight' = (inflight + 1) % Word /\ UNCHANGED pending
    BY <1>2 DEF PublishPacket
  <1> HIDE DEF id
  <1>4. StoredPublishes' = StoredPublishes \cup {id} /\ id \notin StoredPublishes
    BY <1>2, <1>3 DEF StoredPublishes, Put, NewEntry
  <1>5. /\ inflight = Cardinality(InFlight) /\ inflight <= receiveMax
        /\ receiveMax \in Nat /\ inflight \in Nat /\ inflight <= MaxPublish
        /\ unanswered \subseteq StoredPublishes' /\ receiveMax = granted
        /\ pending # <<>> => inflight = receiveMax
    BY <1>1, <1>4, FlowParts, FlowFinite DEF TypeOK, SessionTypeOK
  <1>6. pending \in Seq(PacketId)
    BY DEF TypeOK, SessionTypeOK
  <1>7. CASE inflight >= receiveMax
    <2>1. pending' = Append(pending, id) /\ inflight' = inflight /\ inflight = receiveMax
      BY <1>3, <1>5, <1>7
    <2>2. Range(pending') = Range(pending) \cup {id}
      BY <1>2, <1>6, <2>1, QueueAppend
    <2>3. InFlight' = InFlight
      BY <1>2, <1>4, <2>2 DEF InFlight
    <2>4. QED BY <1>1, <1>5, <2>1, <2>3, FlowRunning
  <1>8. CASE inflight < receiveMax
    <2>1. pending' = pending /\ inflight' = (inflight + 1) % Word /\ pending = <<>>
      BY <1>3, <1>5, <1>8
    <2>2. InFlight' = InFlight \cup {id} /\ id \notin InFlight
      BY <1>2, <1>4, <2>1 DEF InFlight
    <2>3. Cardinality(InFlight') = inflight + 1
      BY <1>5, <2>2, FlowFinite, FS_AddElement
    <2>4. inflight + 1 < Word /\ Word \in Nat
      <3>1. Cardinality(InFlight \cup {id}) <= MaxPublish
        <4>1. InFlight \cup {id} \in SUBSET (1 .. MaxPublish)
          BY <1>1, NewIdentifier, StoredIsMessage DEF InFlight, StoredPublishes, OutMsg, id, AtQoS1
        <4>2. IsFiniteSet(1 .. MaxPublish) /\ Cardinality(1 .. MaxPublish) = MaxPublish
          BY FlowFinite, FS_Interval
        <4>3. QED BY <4>1, <4>2, FS_Subset
      <3>2. QED BY <1>5, <2>2, <2>3, <3>1, FlowFinite
    <2>5. inflight' = inflight + 1
      BY <1>5, <2>1, <2>4
    <2>6. pending' = <<>> /\ inflight' <= receiveMax
      BY <1>5, <1>8, <2>1, <2>5
    <2>7. QED BY <1>1, <1>5, <2>3, <2>5, <2>6, FlowRunning
  <1>9. QED BY <1>5, <1>7, <1>8

LEMMA RequestFlow ==
  ASSUME AtQoS1, Context, FlowExact, ClientOnly,
         \/ \E kind \in RequestKinds : MultiTopic(kind)
         \/ \E kind, qos : PacketTooBig(kind, qos)
  PROVE  FlowExact'
  <1> USE ContextParts
  <1>1. /\ state = "RUNNING" /\ nextId < MaxPublish /\ nextId' = nextId + 1
        /\ UNCHANGED <<state, inflight, pending, receiveMax, granted, unanswered>>
    BY DEF MultiTopic, PacketTooBig, ClientOnly, brokerVars
  <1>2. /\ nextId' % IdSpace = nextId' /\ nextId' # 0 /\ nextId' \notin DOMAIN outbound
    BY <1>1, NewIdentifier DEF AtQoS1
  <1>3. StoredPublishes' = StoredPublishes
    <2>1. ASSUME NEW kind \in RequestKinds, MultiTopic(kind)
          PROVE  StoredPublishes' = StoredPublishes
      <3>1. outbound' = Put(outbound, nextId', NewEntry(kind, 0)) /\ kind # "PUBLISH"
        BY <1>2, <2>1, AskingTypes DEF MultiTopic
      <3>2. QED BY <1>2, <3>1 DEF StoredPublishes, Put, NewEntry
    <2>2. ASSUME NEW kind, NEW qos, PacketTooBig(kind, qos)
          PROVE  StoredPublishes' = StoredPublishes
      <3>1. outbound' = Drop(outbound, nextId')
        BY <1>2, <2>2 DEF PacketTooBig
      <3>2. QED BY <1>2, <3>1 DEF StoredPublishes, Drop, Restrict
    <2>3. QED BY <2>1, <2>2
  <1>4. QED BY <1>1, <1>3, FlowParts, FlowSame

(* The broker reads a publish of the client, or answers. *)
LEMMA ReaderFlow ==
  ASSUME Context, FlowExact, state = "RUNNING", DataReader \/ Answer, BrokerOnly
  PROVE  FlowExact'
  <1> USE ContextParts
  <1>1. UNCHANGED <<state, inflight, pending, receiveMax, granted, outbound>>
    BY DEF DataReader, ReceivePublish1, ReceivePublish2, ReceivePubrel, ReceiveRequest,
       RejectPublish, ReceivePubackPubcomp, ReceivePubrec, Answer, BrokerOnly, sessionVars
  <1>2. StoredPublishes' = StoredPublishes
    BY <1>1 DEF StoredPublishes
  <1>3. unanswered' \subseteq StoredPublishes
    <2>1. CASE ReceivePublish1 \/ ReceivePublish2 \/ RejectPublish
      <3>1. /\ Incoming("PUBLISH") /\ Read
            /\ unanswered' = unanswered \cup {Head(toServer).id}
        BY <2>1 DEF ReceivePublish1, ReceivePublish2, RejectPublish
      <3>2. Head(toServer) \in Requests /\ Head(toServer).type = "PUBLISH"
        BY <3>1, ReadRequest, AskingTypes DEF OneStepPerId
      <3>3. Head(toServer).id \in StoredPublishes
        BY <3>2 DEF RequestsMatch, StoredPublishes
      <3>4. QED BY <3>1, <3>3, FlowParts
    <2>2. CASE Answer
      <3>1. unanswered' \subseteq unanswered
        BY <2>2 DEF Answer
      <3>2. QED BY <3>1, FlowParts
    <2>3. CASE ReceivePubrel \/ ReceiveRequest \/ ReceivePubackPubcomp \/ ReceivePubrec
      <3>1. UNCHANGED unanswered
        BY <2>3 DEF ReceivePubrel, ReceiveRequest, ReceivePubackPubcomp, ReceivePubrec
      <3>2. QED BY <3>1, FlowParts
    <2>4. QED BY <2>1, <2>2, <2>3 DEF DataReader
  <1>4. QED BY <1>1, <1>2, <1>3, FlowSame

-----------------------------------------------------------------------------
(* _resendPartialTxns sends the stored publishes again in order, as many as
   Receive Maximum allows, and holds the rest back. *)
LEMMA ResendInOrder ==
  ASSUME AtQoS1, Context, state # "RUNNING", toServer = <<>>,
         NEW rmax, rmax \in Nat \ {0}, ResendPartialTxns(rmax)
  PROVE  /\ StoredPublishes' = StoredPublishes
         /\ inflight' = Cardinality(InFlight') /\ inflight' <= rmax
         /\ pending' # <<>> => inflight' = rmax
         /\ \A i, j \in DOMAIN pending' : i < j => pending'[i] < pending'[j]
         /\ \A i, j \in DOMAIN toServer' : i < j => toServer'[i].id < toServer'[j].id
         /\ \A i \in DOMAIN toServer' :
              /\ toServer'[i].type = "PUBLISH"
              /\ \A id \in Range(pending') : toServer'[i].id < id
         /\ \A id \in StoredPublishes :
              id \in Range(pending') \/ \E i \in DOMAIN toServer' : toServer'[i].id = id
  <1> USE ContextParts
  <1> DEFINE kept  == DOMAIN outbound \ Spent
             rels  == kept \cap Released
             pubs  == {id \in kept \cap StoredPublishes : id # 0} \ rels
             room  == Room(rmax)
  <1>1. PICK order \in Ascending(pubs) :
          LET fit == IF Len(order) <= room THEN Len(order) ELSE room
              now == {order[i] : i \in 1 .. fit}
          IN \E batch \in Ascending(rels \cup now) :
               /\ toServer' = toServer \o
                    [i \in DOMAIN batch |-> IF batch[i] \in rels
                                           THEN Ack("PUBREL", batch[i])
                                           ELSE StoredPacket(batch[i])]
               /\ pending' = pending \o SubSeq(order, fit + 1, Len(order))
               /\ inflight' = (inflight + fit) % Word
               /\ outbound' = Restrict(outbound, kept)
    BY DEF ResendPartialTxns
  <1> DEFINE fit  == IF Len(order) <= room THEN Len(order) ELSE room
             now  == {order[i] : i \in 1 .. fit}
             held == SubSeq(order, fit + 1, Len(order))
  <1>2. PICK batch \in Ascending(rels \cup now) :
          /\ toServer' = toServer \o
               [i \in DOMAIN batch |-> IF batch[i] \in rels
                                      THEN Ack("PUBREL", batch[i])
                                      ELSE StoredPacket(batch[i])]
          /\ pending' = pending \o held
          /\ inflight' = (inflight + fit) % Word
          /\ outbound' = Restrict(outbound, kept)
    BY <1>1
  <1>3. kept = DOMAIN outbound
    <2>1. \A id \in DOMAIN outbound : outbound[id].retries # 1
      BY SessionAssumption DEF AtQoS1, IdsSuffice, StoreRight, EntryRight
    <2>2. QED BY <2>1 DEF Spent
  <1>4. rels = {} /\ pubs = StoredPublishes
    <2>1. rels = {}
      BY OnlyPuback
    <2>2. \A id \in StoredPublishes : id \in DOMAIN outbound /\ id # 0
      BY StoredIsMessage DEF StoredPublishes, OutMsg
    <2>3. QED BY <1>3, <2>1, <2>2
  <1>5. pending = <<>> /\ inflight = 0 /\ room = rmax
    <2>1. pending = <<>> /\ inflight = 0
      BY QuietBefore
    <2>2. QED BY <2>1 DEF Room
  <1>6. StoredPublishes' = StoredPublishes
    <2>1. DOMAIN outbound' = DOMAIN outbound /\ \A id \in DOMAIN outbound : outbound'[id] = outbound[id]
      BY <1>2, <1>3 DEF Restrict
    <2>2. QED BY <2>1 DEF StoredPublishes
  <1> HIDE DEF kept, rels, pubs, room
  <1>7. /\ StoredPublishes \subseteq Nat /\ IsFiniteSet(StoredPublishes)
    BY FlowFinite, StoredIsMessage DEF StoredPublishes, OutMsg
  <1>8. /\ order \in Seq(StoredPublishes) /\ Len(order) \in Nat /\ DOMAIN order = 1 .. Len(order)
        /\ IsInjective(order) /\ Range(order) = StoredPublishes
        /\ \A i, j \in DOMAIN order : i < j => order[i] < order[j]
        /\ \A k \in 0 .. Len(order) : Cardinality({order[i] : i \in 1 .. k}) = k
    BY <1>4, <1>7, AscendingOnce, AscendingAll
  <1>9. fit \in 0 .. Len(order) /\ fit \in Nat /\ fit <= rmax /\ (fit < Len(order) => fit = rmax)
    <2>1. Len(order) \in Nat /\ rmax \in Nat /\ room = rmax
      BY <1>5, <1>8
    <2>2. fit = IF Len(order) <= rmax THEN Len(order) ELSE rmax
      BY <2>1
    <2> HIDE DEF fit
    <2>3. QED BY <2>1, <2>2
  <1> HIDE DEF fit
  <1>10. /\ held \in Seq(StoredPublishes) /\ DOMAIN held = 1 .. Len(order) - fit
         /\ \A i \in DOMAIN held : held[i] = order[i + fit] /\ i + fit \in DOMAIN order /\ i + fit > fit
         /\ \A i \in DOMAIN order : i > fit => i - fit \in DOMAIN held /\ held[i - fit] = order[i]
         /\ Len(order) = fit => held = <<>>
    <2>1. order \in Seq(StoredPublishes) /\ DOMAIN order = 1 .. Len(order) /\ Len(order) \in Nat
          /\ fit \in 0 .. Len(order)
      BY <1>8, <1>9
    <2> HIDE DEF fit
    <2>2. QED BY <2>1, RestIndexed
  <1> HIDE DEF held
  <1>11. pending' = held
    <2>1. pending' = <<>> \o held
      BY <1>2, <1>5
    <2>2. QED BY <1>10, <2>1
  <1>12. now \subseteq StoredPublishes
    BY <1>8, <1>9
  <1>13. Range(held) = StoredPublishes \ now
    <2>1. ASSUME NEW x \in Range(held) PROVE x \in StoredPublishes /\ x \notin now
      <3>1. PICK i \in DOMAIN held : x = order[i + fit] /\ i + fit \in DOMAIN order /\ i + fit > fit
        BY <1>10, <2>1 DEF Range
      <3>2. \A k \in 1 .. fit : k \in DOMAIN order /\ k # i + fit
        BY <1>8, <1>9, <3>1
      <3>3. QED BY <1>8, <3>1, <3>2 DEF IsInjective, Range
    <2>2. ASSUME NEW x \in StoredPublishes, x \notin now PROVE x \in Range(held)
      <3>1. PICK i \in DOMAIN order : x = order[i]
        BY <1>8, <2>2 DEF Range
      <3>2. i > fit
        BY <1>8, <1>9, <2>2, <3>1
      <3>3. QED BY <1>10, <3>1, <3>2 DEF Range
    <2>3. QED BY <2>1, <2>2
  <1>14. InFlight' = now /\ Cardinality(now) = fit
    <2>1. InFlight' = StoredPublishes \ Range(held)
      BY <1>6, <1>11 DEF InFlight
    <2>2. QED BY <1>8, <1>9, <1>12, <1>13, <2>1
  <1>15. inflight' = fit
    <2>1. Cardinality(now) <= Cardinality(StoredPublishes)
      BY <1>7, <1>12, FS_Subset
    <2>2. Cardinality(StoredPublishes) <= MaxPublish
      <3>1. StoredPublishes \in SUBSET (1 .. MaxPublish)
        BY StoredIsMessage DEF StoredPublishes, OutMsg
      <3>2. IsFiniteSet(1 .. MaxPublish) /\ Cardinality(1 .. MaxPublish) = MaxPublish
        BY FlowFinite, FS_Interval
      <3>3. QED BY <3>1, <3>2, FS_Subset
    <2>3. Cardinality(StoredPublishes) \in Nat
      BY <1>7, FS_CardinalityType
    <2>4. fit < Word /\ Word \in Nat
      BY <1>9, <1>14, <2>1, <2>2, <2>3, FlowFinite
    <2>5. inflight' = (0 + fit) % Word
      BY <1>2, <1>5
    <2>6. fit \in Nat
      BY <1>9
    <2>7. QED BY <2>4, <2>5, <2>6
  <1>16. pending' # <<>> => inflight' = rmax
    BY <1>9, <1>10, <1>11, <1>15
  <1>17. \A i, j \in DOMAIN pending' : i < j => pending'[i] < pending'[j]
    <2>1. ASSUME NEW i \in DOMAIN held, NEW j \in DOMAIN held, i < j
          PROVE  held[i] < held[j]
      <3>1. i \in Nat /\ j \in Nat /\ fit \in Nat
        <4>1. fit \in Nat /\ DOMAIN held = 1 .. Len(order) - fit
          BY <1>9, <1>10
        <4>2. i \in 1 .. Len(order) - fit /\ j \in 1 .. Len(order) - fit
          BY <4>1
        <4>3. QED BY <4>1, <4>2
      <3>2. i + fit < j + fit
        BY <2>1, <3>1
      <3>3. QED BY <1>8, <1>10, <3>2
    <2>2. QED BY <1>11, <2>1
  <1>18. /\ DOMAIN batch = 1 .. Len(batch) /\ Len(batch) \in Nat /\ Range(batch) = now
         /\ batch \in Seq(now)
         /\ \A i, j \in DOMAIN batch : i < j => batch[i] < batch[j]
    <2>1. IsFiniteSet(now) /\ now \subseteq Nat /\ rels \cup now = now
      BY <1>4, <1>7, <1>12, FS_Subset
    <2> HIDE DEF now
    <2>2. QED BY <2>1, AscendingOnce, AscendingAll
  <1>19. /\ DOMAIN toServer' = DOMAIN batch
         /\ \A i \in DOMAIN batch : toServer'[i] = StoredPacket(batch[i])
    <2> DEFINE out == [i \in DOMAIN batch |-> IF batch[i] \in rels THEN Ack("PUBREL", batch[i])
                                             ELSE StoredPacket(batch[i])]
    <2>1. toServer' = <<>> \o out
      BY <1>2
    <2>2. out \in Seq({out[i] : i \in DOMAIN batch})
      BY <1>18
    <2>3. DOMAIN out = DOMAIN batch /\ \A i \in DOMAIN batch : out[i] = StoredPacket(batch[i])
      BY <1>4
    <2> HIDE DEF out
    <2>4. toServer' = out
      BY <2>1, <2>2
    <2>5. QED BY <2>3, <2>4
  <1>20. \A i \in DOMAIN toServer' :
           /\ toServer'[i].type = "PUBLISH" /\ toServer'[i].id = batch[i] /\ batch[i] \in now
    <2>1. \A i \in DOMAIN batch : batch[i] \in now /\ batch[i] \in StoredPublishes
      BY <1>12, <1>18 DEF Range
    <2>2. \A i \in DOMAIN batch : /\ StoredPacket(batch[i]).type = "PUBLISH"
                                  /\ StoredPacket(batch[i]).id = batch[i]
      BY <2>1 DEF StoredPacket, StoredPublishes, Publish
    <2>3. QED BY <1>19, <2>1, <2>2
  <1>21. \A x \in now, id \in Range(pending') : x < id
    <2>1. ASSUME NEW k \in 1 .. fit, NEW i \in DOMAIN held PROVE order[k] < held[i]
      <3>1. i + fit \in DOMAIN order /\ i + fit > fit /\ held[i] = order[i + fit]
        BY <1>10
      <3>2. Len(order) \in Nat /\ DOMAIN order = 1 .. Len(order) /\ fit \in 0 .. Len(order)
        BY <1>8, <1>9
      <3>3. k \in DOMAIN order /\ k < i + fit
        BY <3>1, <3>2
      <3>4. QED BY <1>8, <3>1, <3>3
    <2>2. QED BY <1>11, <2>1 DEF Range
  <1>22. \A id \in StoredPublishes :
           id \in Range(pending') \/ \E i \in DOMAIN toServer' : toServer'[i].id = id
    <2>1. \A id \in now : \E i \in DOMAIN batch : batch[i] = id
      BY <1>18 DEF Range
    <2> HIDE DEF now
    <2>2. QED BY <1>11, <1>13, <1>19, <1>20, <2>1
  <1> HIDE DEF now
  <1>23. \A i, j \in DOMAIN toServer' : i < j => toServer'[i].id < toServer'[j].id
    BY <1>18, <1>19, <1>20
  <1>24. inflight' = Cardinality(InFlight') /\ inflight' <= rmax
    BY <1>9, <1>14, <1>15
  <1>25. \A i \in DOMAIN toServer' :
           toServer'[i].type = "PUBLISH" /\ \A id \in Range(pending') : toServer'[i].id < id
    BY <1>20, <1>21
  <1>26. QED BY <1>6, <1>16, <1>17, <1>22, <1>23, <1>24, <1>25

-----------------------------------------------------------------------------
(* The connection. *)

LEMMA AcceptedPacket ==
  ASSUME TypeOK, InPhase, ConnackRunning
  PROVE  /\ state # "RUNNING" /\ Accepted /\ toServer = <<>> /\ state' = "RUNNING"
         /\ Head(toClient) = toClient[1] /\ toClient[1].rmax \in Nat \ {0}
  <1>1. Receive("CONNACK") /\ WireTypeOK /\ state = "TCP_CONNECTED" /\ state' = "RUNNING"
        /\ Head(toClient).ok
    BY DEF ConnackRunning, TypeOK
  <1>2. Accepted \/ Refused
    BY <1>1, OnlyConnack
  <1>3. Accepted
    BY <1>1, <1>2, RefusedFirst DEF Receive
  <1>4. Head(toClient).rmax \in Nat \ {0}
    BY <1>1, ReceivedPacket, ClientBoundFields, WireAssumption
  <1>5. Head(toClient) = toClient[1] /\ toServer = <<>>
    BY <1>3 DEF Accepted
  <1>6. QED BY <1>1, <1>3, <1>4, <1>5

LEMMA ConnackRunningFlow ==
  ASSUME AtQoS1, Context, FlowExact, ConnackRunning, ClientOnly PROVE FlowExact'
  <1> USE ContextParts
  <1>1. PICK rmax : rmax = toClient[1].rmax
    OBVIOUS
  <1>2. /\ state # "RUNNING" /\ toServer = <<>> /\ state' = "RUNNING" /\ rmax \in Nat \ {0}
        /\ receiveMax' = rmax /\ granted' = granted /\ rmax = granted
    BY <1>1, AcceptedPacket DEF ConnackRunning, ClientOnly, brokerVars, FlowExact
  <1>3. pending = <<>> /\ inflight = 0 /\ unanswered' = {}
    BY <1>2, QuietBefore DEF ClientOnly, brokerVars
  <1>4. CASE StartClean /\ UNCHANGED <<pending, inflight>>
    <2>1. StoredPublishes' = {}
      BY <1>4, EmptyMapType DEF StartClean, StoredPublishes
    <2>2. InFlight' = {} /\ Cardinality(InFlight') = 0
      BY <2>1, FS_EmptySet DEF InFlight
    <2>3. QED BY <1>2, <1>3, <1>4, <2>2, FlowRunning
  <1>5. CASE ResendPartialTxns(rmax)
    <2>1. /\ inflight' = Cardinality(InFlight') /\ inflight' <= rmax
          /\ pending' # <<>> => inflight' = rmax
      BY <1>2, <1>5, ResendInOrder
    <2>2. QED BY <1>2, <1>3, <2>1, FlowRunning
  <1>6. QED BY <1>1, <1>4, <1>5, AcceptedPacket DEF ConnackRunning

LEMMA AcceptFlow ==
  ASSUME TypeOK, InPhase, AcceptResume \/ AcceptNew, BrokerOnly PROVE FlowExact'
  <1>1. state' # "RUNNING" /\ toClient = <<>>
    BY AskedNow DEF AcceptResume, AcceptNew, BrokerOnly, sessionVars
  <1>2. toClient'[1].rmax = granted'
    <2>1. CASE AcceptResume
      <3>1. PICK rmax \in ReceiveMaxima, order \in Ascending(DOMAIN sent) :
              /\ granted' = rmax
              /\ toClient' = (toClient \o <<Connack(TRUE, TRUE, rmax)>>) \o Retransmission(order)
        BY <2>1 DEF AcceptResume
      <3>2. Retransmission(order) \in Seq(ClientData)
        BY WireAssumption, RetransmissionData DEF TypeOK
      <3> DEFINE c == Connack(TRUE, TRUE, rmax)
                 r == Retransmission(order)
      <3> HIDE DEF c, r
      <3>3. toClient' = (<<>> \o <<c>>) \o r /\ r \in Seq(ClientData)
        BY <1>1, <3>1, <3>2 DEF c, r
      <3>4. toClient'[1] = c
        BY <3>3
      <3>5. QED BY <3>1, <3>4 DEF c, Connack
    <2>2. CASE AcceptNew
      <3>1. PICK rmax \in ReceiveMaxima, present \in BOOLEAN :
              granted' = rmax /\ toClient' = toClient \o <<Connack(TRUE, present, rmax)>>
        BY <2>2 DEF AcceptNew
      <3>2. toClient' = <<Connack(TRUE, present, rmax)>>
        BY <1>1, <3>1
      <3>3. QED BY <3>1, <3>2 DEF Connack
    <2>3. QED BY <2>1, <2>2
  <1>3. QED BY <1>1, <1>2, FlowIdle

LEMMA BrokerPublishFlow ==
  ASSUME Context, FlowExact, NEW qos \in QoS, BrokerPublish(qos), BrokerOnly
  PROVE  FlowExact'
  <1> USE ContextParts
  <1>1. /\ UNCHANGED <<state, inflight, pending, receiveMax, granted, outbound, unanswered>>
    BY DEF BrokerPublish, BrokerOnly, sessionVars
  <1>2. CASE state = "RUNNING"
    <2>1. StoredPublishes' = StoredPublishes
      BY <1>1 DEF StoredPublishes
    <2>2. QED BY <1>1, <1>2, <2>1, FlowParts, FlowSame
  <1>3. CASE state # "RUNNING"
    <2>1. Accepted
      BY <1>3 DEF InPhase, Running, NotAsked, Asked, Refused, BrokerPublish
    <2>2. PICK p : toClient' = Append(toClient, p)
      BY DEF BrokerPublish
    <2>3. toClient \in Seq(ClientBound) /\ 1 \in DOMAIN toClient
      BY <2>1 DEF TypeOK, WireTypeOK, Accepted, Arriving
    <2>4. toClient'[1] = toClient[1]
      BY <2>2, <2>3
    <2>5. toClient'[1].rmax = granted'
      BY <1>1, <2>1, <2>4 DEF FlowExact
    <2>6. QED BY <1>1, <1>3, <2>5, FlowIdle
  <1>4. QED BY <1>2, <1>3

LEMMA IdleFlow ==
  ASSUME Context,
         \/ Establish \/ NetworkDrops \/ BrokerCloses \/ ClientCloses
         \/ (ConnectPacket \/ ConnackRefused) /\ ClientOnly
         \/ (Refuse \/ Expire) /\ BrokerOnly
  PROVE  FlowExact'
  <1> USE ContextParts
  <1>1. CASE NetworkDrops \/ BrokerCloses \/ ClientCloses
    <2>1. toClient' = <<>> /\ state' # "RUNNING"
      BY <1>1 DEF NetworkDrops, BrokerCloses, ClientCloses, ConnectionLost, OnDisconnect,
         ConnackUnknownSession
    <2>2. QED BY <2>1, NoConnackNext, FlowIdle
  <1>2. CASE Establish
    <2>1. toClient = <<>>
      BY <1>2 DEF Establish, StartConnect, OnTcpConnect, InPhase, Running, NotAsked, Asked,
         Accepted, Refused
    <2>2. UNCHANGED toClient /\ state' # "RUNNING"
      BY <1>2 DEF Establish, StartConnect, OnTcpConnect, ClientOnly, brokerVars, wireVars
    <2>3. QED BY <2>1, <2>2, NoConnackNext, FlowIdle
  <1>3. CASE ConnectPacket /\ ClientOnly
    <2>1. toClient = <<>> /\ state # "RUNNING"
      BY <1>3 DEF ConnectPacket, InPhase, Running, NotAsked, Asked, Accepted, Refused
    <2>2. UNCHANGED <<toClient, state>>
      BY <1>3 DEF ConnectPacket, ClientOnly, brokerVars
    <2>3. QED BY <2>1, <2>2, NoConnackNext, FlowIdle
  <1>4. CASE ConnackRefused /\ ClientOnly
    <2>1. Receive("CONNACK") /\ WireTypeOK /\ ~Head(toClient).ok /\ toClient' = Tail(toClient)
          /\ UNCHANGED state
      BY <1>4 DEF ConnackRefused, Consume, TypeOK
    <2>2. state # "RUNNING"
      BY <2>1, RunningIsRunning, RunningPast
    <2>3. Refused
      BY <2>1, <2>2, OnlyConnack DEF Accepted
    <2>4. Tail(toClient) = <<>>
      BY <2>3, HeadOfOne DEF Refused
    <2>5. QED BY <2>1, <2>2, <2>4, NoConnackNext, FlowIdle
  <1>5. CASE Refuse /\ BrokerOnly
    <2>1. state # "RUNNING" /\ UNCHANGED <<state, granted>> /\ toClient = <<>>
      BY <1>5, AskedNow DEF Refuse, BrokerOnly, sessionVars, brokerVars
    <2>2. toClient' = <<Connack(FALSE, FALSE, granted)>>
      BY <1>5, <2>1 DEF Refuse
    <2>3. toClient'[1].rmax = granted'
      BY <2>1, <2>2 DEF Connack
    <2>4. QED BY <2>1, <2>3, FlowIdle
  <1>6. CASE Expire /\ BrokerOnly
    <2>1. state # "RUNNING" /\ UNCHANGED <<state, toClient>> /\ ~linkUp
      BY <1>6 DEF Expire, BrokerOnly, sessionVars, wireVars
    <2>2. toClient = <<>>
      BY <2>1, QuietBefore
    <2>3. QED BY <2>1, <2>2, NoConnackNext, FlowIdle
  <1>7. QED BY <1>1, <1>2, <1>3, <1>4, <1>5, <1>6

LEMMA NextFlow == AtQoS1 /\ Context /\ FlowExact /\ [InTurn]_vars => FlowExact'
  <1> SUFFICES ASSUME AtQoS1, Context, FlowExact, [InTurn]_vars PROVE FlowExact'
    OBVIOUS
  <1> USE ContextParts
  <1>1. CASE DataHandler /\ ClientOnly
    <2>1. state = "RUNNING"
      BY <1>1, HandlerRunning
    <2>2. QED BY <1>1, <2>1, PubackFlow, SubackFlow, OtherHandlerFlow DEF DataHandler
  <1>2. CASE Application
    <2>1. ASSUME NEW qos \in PublishQoS, PublishPacket(qos), ClientOnly PROVE FlowExact'
      BY <2>1, PublishFlow
    <2>2. ASSUME NEW kind, NEW qos, PacketTooBig(kind, qos), ClientOnly PROVE FlowExact'
      BY <2>2, RequestFlow
    <2>3. ASSUME NEW kind \in RequestKinds, MultiTopic(kind), ClientOnly PROVE FlowExact'
      BY <2>3, RequestFlow
    <2>4. QED BY <1>2, <2>1, <2>2, <2>3 DEF Application
  <1>3. CASE (DataReader \/ Answer) /\ BrokerOnly
    <2>1. state = "RUNNING"
      BY <1>3, ReaderRunning
    <2>2. QED BY <1>3, <2>1, ReaderFlow
  <1>4. CASE ConnackRunning /\ ClientOnly
    BY <1>4, ConnackRunningFlow
  <1>5. CASE (AcceptResume \/ AcceptNew) /\ BrokerOnly
    BY <1>5, AcceptFlow
  <1>6. CASE \E qos \in QoS : BrokerPublish(qos) /\ BrokerOnly
    BY <1>6, BrokerPublishFlow
  <1>7. CASE UNCHANGED vars
    <2>1. UNCHANGED <<state, inflight, pending, receiveMax, granted, outbound, unanswered, toClient,
                      toServer, connectQueued, inbound>>
      BY <1>7 DEF vars, wireVars, sessionVars, brokerVars
    <2>2. /\ StoredPublishes' = StoredPublishes
          /\ HaveSessionData' = HaveSessionData /\ Arriving("CONNACK")' = Arriving("CONNACK")
      BY <2>1 DEF StoredPublishes, HaveSessionData, Arriving
    <2>3. Accepted' <=> Accepted
      BY <2>1, <2>2 DEF Accepted
    <2>4. QED BY <2>1, <2>2, <2>3 DEF FlowExact, InflightCounted
  <1>13. CASE Overtaken
    <2>1. /\ state = "RUNNING"
          /\ UNCHANGED <<state, inflight, pending, receiveMax, granted, outbound, unanswered>>
      BY <1>13 DEF Overtaken, sessionVars, brokerVars
    <2>2. StoredPublishes' = StoredPublishes
      BY <2>1 DEF StoredPublishes
    <2>3. QED BY <2>1, <2>2, FlowParts, FlowSame
  <1>8. CASE \/ Establish \/ NetworkDrops \/ BrokerCloses \/ ClientCloses
             \/ (ConnectPacket \/ ConnackRefused) /\ ClientOnly
             \/ (Refuse \/ Expire) /\ BrokerOnly
    BY <1>8, IdleFlow
  <1>9. CASE ClientStep
    BY <1>1, <1>4, <1>8, <1>9 DEF ClientStep, DataHandler
  <1>10. CASE BrokerStep \/ BrokerChoice
    BY <1>3, <1>5, <1>6, <1>8, <1>10 DEF BrokerStep, BrokerChoice, DataReader
  <1>11. CASE Establish \/ NetworkDrops \/ BrokerCloses
    BY <1>8, <1>11
  <1>12. QED BY <1>2, <1>7, <1>9, <1>10, <1>11, <1>13 DEF InTurn

LEMMA InitContext == Init => Context /\ FlowExact
  <1> SUFFICES ASSUME Init PROVE Context /\ FlowExact
    OBVIOUS
  <1>1. Context
    BY InitType, InitHandshake, InitOutbound DEF Context
  <1>2. state = "DISCONNECTED"
    BY DEF Init, SessionInit
  <1>3. QED BY <1>1, <1>2, NoConnack DEF FlowExact, InflightCounted

LEMMA FlowInvariant ==
  ASSUME AtQoS1 PROVE Spec => [](TypeOK /\ (outlived \/ (Context /\ FlowExact)))
  <1> DEFINE Inv == TypeOK /\ (outlived \/ (Context /\ FlowExact))
  <1>1. Init => Inv
    BY InitContext, InitType
  <1>2. Inv /\ [Next]_vars => Inv'
    <2> SUFFICES ASSUME Inv, [Next]_vars PROVE Inv'
      OBVIOUS
    <2>1. TypeOK'
      BY NextType
    <2>2. ([InTurn]_vars /\ outlived' = outlived) \/ outlived'
      BY OutlivedStays
    <2>3. QED BY <2>1, <2>2, NextOutbound, NextFlow DEF AtQoS1
  <1>3. QED BY <1>1, <1>2, PTL DEF Spec

(* No exchange ends after its connection before a packet is handled then. *)
LEMMA NothingUncounted == Spec => [](TypeOK /\ (outlived \/ uncounted = 0))
  <1> DEFINE Inv == TypeOK /\ (outlived \/ uncounted = 0)
  <1>1. Init => Inv
    BY InitType DEF Init
  <1>2. Inv /\ [Next]_vars => Inv'
    <2> SUFFICES ASSUME Inv, [Next]_vars PROVE Inv'
      OBVIOUS
    <2>1. TypeOK'
      BY NextType
    <2>2. ([InTurn]_vars /\ outlived' = outlived) \/ outlived'
      BY OutlivedStays
    <2>3. ASSUME [InTurn]_vars PROVE uncounted' \in {uncounted, 0}
      BY <2>3 DEF InTurn, ClientStep, ClientCloses, ClientOnly, Establish, Application, BrokerStep,
         BrokerChoice, BrokerOnly, NetworkDrops, BrokerCloses, ConnectionLost, Overtaken, vars
    <2>4. QED BY <2>1, <2>2, <2>3
  <1>3. QED BY <1>1, <1>2, PTL DEF Spec

(* Publishing at QoS 1, _inflight never drifts from the number of publishes
   sent and unacknowledged, and nothing waits while there is room: across
   acknowledgements, rejections, flow control, resends and lost connections,
   until a packet is handled after the end of its connection. *)
THEOREM InflightIsExact ==
  ASSUME AtQoS1 PROVE Spec => [](outlived \/ InflightExact)
  <1>1. ASSUME Context, FlowExact, uncounted = 0 PROVE InflightExact
    <2> SUFFICES ASSUME state = "RUNNING"
                 PROVE  /\ inflight = (Cardinality(InFlight) - uncounted) % Word
                        /\ pending # <<>> => inflight = receiveMax
      BY <1>1 DEF InflightExact, InFlight
    <2>1. inflight = Cardinality(InFlight) /\ (pending # <<>> => inflight = receiveMax)
      BY <1>1, FlowParts
    <2>2. inflight \in 0 .. Word - 1 /\ Word \in Nat
      BY <1>1, ContextParts, SessionAssumption DEF TypeOK, SessionTypeOK
    <2>3. (inflight - 0) % Word = inflight
      BY <2>2
    <2>4. QED BY <1>1, <2>1, <2>3
  <1>2. Context /\ FlowExact /\ uncounted = 0 => InflightExact
    BY <1>1
  <1>3. QED BY <1>2, FlowInvariant, NothingUncounted, PTL

(* Publishing at QoS 1, the broker never holds more unacknowledged publishes
   than it allowed on this connection; again until a packet outlives its
   connection. *)
THEOREM ReceiveMaximumIsRespected ==
  ASSUME AtQoS1 PROVE Spec => [](outlived \/ ReceiveMaximumRespected)
  <1>1. ASSUME Context, FlowExact PROVE ReceiveMaximumRespected
    <2> USE <1>1, ContextParts
    <2>1. granted \in Nat
      BY WireAssumption DEF TypeOK, BrokerTypeOK
    <2>2. CASE state # "RUNNING"
      <3>1. Cardinality(unanswered) = 0
        BY <2>2, QuietBefore, FS_EmptySet
      <3>2. QED BY <2>1, <3>1 DEF ReceiveMaximumRespected
    <2>3. CASE state = "RUNNING"
      <3>1. \A id \in unanswered : id \notin Range(pending)
        BY DEF OneStepPerId, UnansweredMatch, Replies
      <3>2. unanswered \in SUBSET InFlight
        BY <2>3, <3>1, FlowParts DEF InFlight
      <3>3. /\ Cardinality(unanswered) <= Cardinality(InFlight)
            /\ Cardinality(unanswered) \in Nat /\ Cardinality(InFlight) \in Nat
        BY <3>2, FlowFinite, FS_Subset, FS_CardinalityType
      <3>4. Cardinality(InFlight) <= granted
        BY <2>3, FlowParts
      <3>5. QED BY <2>1, <3>3, <3>4 DEF ReceiveMaximumRespected
    <2>4. QED BY <2>2, <2>3
  <1>2. Context /\ FlowExact => ReceiveMaximumRespected
    BY <1>1
  <1>3. QED BY <1>2, FlowInvariant, PTL

-----------------------------------------------------------------------------
(* The order of publishes. *)

(* Requests would be handed on before publishes that flow control holds back. *)
PublishesOnly == AtQoS1 /\ RequestKinds = {}

InOrder(q) ==
  \A i, j \in DOMAIN q :
    q[i].type = "PUBLISH" /\ q[j].type = "PUBLISH" /\ i < j => q[i].id < q[j].id

Increasing(q) == \A i, j \in DOMAIN q : i < j => q[i] < q[j]

LEMMA InOrderTail ==
  ASSUME NEW S, NEW q \in Seq(S), q # <<>>, InOrder(q)
  PROVE  /\ InOrder(Tail(q))
         /\ Head(q).type = "PUBLISH" =>
              \A p \in Carried(Tail(q), {"PUBLISH"}) : Head(q).id < p.id
  <1>1. /\ Len(q) \in Nat \ {0} /\ DOMAIN q = 1 .. Len(q) /\ Head(q) = q[1]
        /\ DOMAIN Tail(q) = 1 .. Len(q) - 1
        /\ \A i \in DOMAIN Tail(q) : i + 1 \in DOMAIN q /\ Tail(q)[i] = q[i + 1] /\ 1 < i + 1
    OBVIOUS
  <1>2. \A i, j \in DOMAIN Tail(q) : i < j => i + 1 < j + 1
    BY <1>1
  <1>3. InOrder(Tail(q))
    BY <1>1, <1>2 DEF InOrder
  <1>4. ASSUME Head(q).type = "PUBLISH", NEW p \in Carried(Tail(q), {"PUBLISH"})
        PROVE  Head(q).id < p.id
    <2>1. PICK i \in DOMAIN Tail(q) : Tail(q)[i] = p /\ p.type = "PUBLISH"
      BY <1>4 DEF Carried, Range
    <2>2. q[i + 1] = p /\ i + 1 \in DOMAIN q /\ 1 \in DOMAIN q /\ 1 < i + 1
      BY <1>1, <2>1
    <2>3. QED BY <1>1, <1>4, <2>1, <2>2 DEF InOrder
  <1>5. QED BY <1>3, <1>4

LEMMA InOrderAppend ==
  ASSUME NEW S, NEW q \in Seq(S), NEW p \in S, InOrder(q),
         p.type = "PUBLISH" => \A a \in Carried(q, {"PUBLISH"}) : a.id < p.id
  PROVE  InOrder(Append(q, p))
  <1> DEFINE r == Append(q, p)
  <1>1. /\ Len(q) \in Nat /\ DOMAIN q = 1 .. Len(q) /\ DOMAIN r = 1 .. Len(q) + 1
        /\ \A i \in DOMAIN q : r[i] = q[i]
        /\ r[Len(q) + 1] = p
    OBVIOUS
  <1> HIDE DEF r
  <1>2. SUFFICES ASSUME NEW i \in DOMAIN r, NEW j \in DOMAIN r, i < j,
                        r[i].type = "PUBLISH", r[j].type = "PUBLISH"
                 PROVE  r[i].id < r[j].id
    BY DEF InOrder, r
  <1>3. i \in DOMAIN q /\ r[i] = q[i]
    BY <1>1, <1>2
  <1>4. CASE j \in DOMAIN q
    BY <1>1, <1>2, <1>3, <1>4 DEF InOrder
  <1>5. CASE j \notin DOMAIN q
    <2>1. r[j] = p
      BY <1>1, <1>2, <1>5
    <2>2. r[i] \in Carried(q, {"PUBLISH"})
      BY <1>2, <1>3 DEF Carried, Range
    <2>3. QED BY <1>2, <2>1, <2>2
  <1>6. QED BY <1>4, <1>5

LEMMA IncreasingTail ==
  ASSUME NEW S, NEW q \in Seq(S), q # <<>>, Increasing(q)
  PROVE  Increasing(Tail(q)) /\ \A x \in Range(Tail(q)) : Head(q) < x
  <1>1. /\ Len(q) \in Nat \ {0} /\ DOMAIN q = 1 .. Len(q) /\ Head(q) = q[1]
        /\ DOMAIN Tail(q) = 1 .. Len(q) - 1
        /\ \A i \in DOMAIN Tail(q) : i + 1 \in DOMAIN q /\ Tail(q)[i] = q[i + 1] /\ 1 < i + 1
    OBVIOUS
  <1>2. \A i, j \in DOMAIN Tail(q) : i < j => i + 1 < j + 1
    BY <1>1
  <1>3. Increasing(Tail(q))
    BY <1>1, <1>2 DEF Increasing
  <1>4. ASSUME NEW x \in Range(Tail(q)) PROVE Head(q) < x
    <2>1. PICK i \in DOMAIN Tail(q) : x = Tail(q)[i]
      BY <1>4 DEF Range
    <2>2. q[i + 1] = x /\ i + 1 \in DOMAIN q /\ 1 \in DOMAIN q /\ 1 < i + 1
      BY <1>1, <2>1
    <2>3. QED BY <1>1, <2>2 DEF Increasing
  <1>5. QED BY <1>3, <1>4

LEMMA IncreasingAppend ==
  ASSUME NEW S, NEW q \in Seq(S), NEW x \in S, Increasing(q), \A y \in Range(q) : y < x
  PROVE  Increasing(Append(q, x))
  <1> DEFINE r == Append(q, x)
  <1>1. /\ Len(q) \in Nat /\ DOMAIN q = 1 .. Len(q) /\ DOMAIN r = 1 .. Len(q) + 1
        /\ \A i \in DOMAIN q : r[i] = q[i]
        /\ r[Len(q) + 1] = x
    OBVIOUS
  <1> HIDE DEF r
  <1>2. SUFFICES ASSUME NEW i \in DOMAIN r, NEW j \in DOMAIN r, i < j PROVE r[i] < r[j]
    BY DEF Increasing, r
  <1>3. i \in DOMAIN q /\ r[i] = q[i] /\ r[i] \in Range(q)
    BY <1>1, <1>2 DEF Range
  <1>4. CASE j \in DOMAIN q
    BY <1>1, <1>2, <1>3, <1>4 DEF Increasing
  <1>5. CASE j \notin DOMAIN q
    <2>1. r[j] = x
      BY <1>1, <1>2, <1>5
    <2>2. QED BY <1>3, <2>1
  <1>6. QED BY <1>4, <1>5

LEMMA OrderParts ==
  ASSUME SentInOrder, state = "RUNNING"
  PROVE  /\ InOrder(toServer) /\ Increasing(pending)
         /\ \A p \in Publishes, id \in Range(pending) : p.id < id
         /\ \A id \in StoredPublishes :
              \/ delivered[id] > 0 \/ id \in rejected \/ id \in Range(pending)
              \/ \E p \in Publishes : p.id = id
  BY DEF SentInOrder, InOrder, Increasing, Leaving

LEMMA OrderKept ==
  ASSUME InOrder(toServer'), Increasing(pending'),
         \A p \in Publishes', id \in Range(pending') : p.id < id,
         \A id \in StoredPublishes' :
            \/ delivered'[id] > 0 \/ id \in rejected' \/ id \in Range(pending')
            \/ \E p \in Publishes' : p.id = id
  PROVE  SentInOrder'
  BY DEF SentInOrder, InOrder, Increasing, Leaving

(* The packet that is sent comes after all publishes on their way. *)
LEMMA PublishSent ==
  ASSUME Context, state = "RUNNING", InOrder(toServer), NEW p \in ServerBound, Send(<<p>>),
         p.type = "PUBLISH" => \A a \in Publishes : a.id < p.id
  PROVE  /\ InOrder(toServer')
         /\ Publishes' = Publishes \cup (IF p.type = "PUBLISH" THEN {p} ELSE {})
  <1>1. toServer' = toServer \o <<p>> /\ toServer \in Seq(ServerBound)
    BY RunningSend, ContextParts DEF TypeOK, WireTypeOK
  <1>2. toServer' = Append(toServer, p)
    BY <1>1
  <1>3. InOrder(Append(toServer, p))
    BY <1>1, InOrderAppend DEF Publishes
  <1>4. Carried(Append(toServer, p), {"PUBLISH"})
          = Carried(toServer, {"PUBLISH"}) \cup (IF p.type \in {"PUBLISH"} THEN {p} ELSE {})
    BY <1>1, CarriedAppend
  <1>5. QED BY <1>2, <1>3, <1>4 DEF Publishes

LEMMA PublishRead ==
  ASSUME TypeOK, InOrder(toServer), NEW type, Incoming(type), Read
  PROVE  /\ InOrder(toServer') /\ Head(toServer).type = type
         /\ type # "PUBLISH" => Publishes' = Publishes
         /\ type = "PUBLISH" =>
              /\ Head(toServer) \in Publishes
              /\ Publishes = Publishes' \cup {Head(toServer)}
              /\ \A p \in Publishes' : Head(toServer).id < p.id
  <1>1. toServer \in Seq(ServerBound) /\ toServer # <<>> /\ toServer' = Tail(toServer)
        /\ Head(toServer).type = type
    BY DEF TypeOK, WireTypeOK, Incoming, Read
  <1>2. Carried(toServer, {"PUBLISH"})
          = Carried(toServer', {"PUBLISH"}) \cup Carried(<<Head(toServer)>>, {"PUBLISH"})
    BY <1>1, CarriedTail
  <1>3. Carried(<<Head(toServer)>>, {"PUBLISH"}) = IF type = "PUBLISH" THEN {Head(toServer)} ELSE {}
    BY <1>1, CarriedOne
  <1>4. /\ InOrder(toServer')
        /\ type = "PUBLISH" => \A p \in Carried(toServer', {"PUBLISH"}) : Head(toServer).id < p.id
    BY <1>1, InOrderTail
  <1>5. QED BY <1>1, <1>2, <1>3, <1>4 DEF Publishes

LEMMA OrderSame ==
  ASSUME SentInOrder, state = "RUNNING", InOrder(toServer'), Publishes' = Publishes,
         StoredPublishes' \subseteq StoredPublishes, UNCHANGED <<pending, delivered, rejected>>
  PROVE  SentInOrder'
  BY OrderParts, OrderKept

LEMMA PubackOrder ==
  ASSUME Context, SentInOrder, state = "RUNNING", PubackPubcomp, ClientOnly
  PROVE  SentInOrder'
  <1> USE ContextParts
  <1>1. /\ PublishEnd(outbound) /\ outbound' = Drop(outbound, Head(toClient).id)
        /\ UNCHANGED <<delivered, rejected>>
    BY DEF PubackPubcomp, AckOutbound, ClientOnly, brokerVars
  <1>2. StoredPublishes' \subseteq StoredPublishes
    BY <1>1 DEF Drop, Restrict, StoredPublishes
  <1>3. CASE UNCHANGED <<toServer, pending>>
    BY <1>1, <1>2, <1>3, OrderParts, OrderSame DEF Publishes
  <1>4. CASE FrontSent
    <2>1. PICK front : front = Head(pending)
      OBVIOUS
    <2>2. /\ pending # <<>> /\ Send(<<StoredPacket(front)>>) /\ pending' = Tail(pending)
          /\ front \in Range(pending) /\ front \in DOMAIN outbound
          /\ StoredPacket(front).id = front /\ StoredPacket(front).type = "PUBLISH"
          /\ Range(pending') = Range(pending) \ {front}
      BY <1>4, <2>1, FrontSentTransit DEF FrontSent
    <2>3. PICK p \in ServerBound : p = StoredPacket(front)
      BY <2>2, StoredPacketType, ServerDataSubset, WireAssumption DEF TypeOK
    <2>4. \A a \in Publishes : a.id < p.id
      BY <2>2, <2>3, OrderParts
    <2>5. InOrder(toServer') /\ Publishes' = Publishes \cup {p}
      BY <2>2, <2>3, <2>4, OrderParts, PublishSent
    <2>6. Increasing(pending') /\ \A x \in Range(pending') : front < x
      BY <2>1, <2>2, OrderParts, IncreasingTail DEF TypeOK, SessionTypeOK
    <2>7. \A a \in Publishes', id \in Range(pending') : a.id < id
      BY <2>2, <2>3, <2>5, <2>6, OrderParts
    <2>8. \A id \in StoredPublishes' :
            \/ delivered'[id] > 0 \/ id \in rejected' \/ id \in Range(pending')
            \/ \E a \in Publishes' : a.id = id
      <3>1. p.id = front
        BY <2>2, <2>3
      <3>2. QED BY <1>1, <1>2, <2>2, <2>5, <3>1, OrderParts
    <2>9. QED BY <2>5, <2>6, <2>7, <2>8, OrderKept
  <1>5. QED BY <1>1, <1>3, <1>4, PublishEndSends

LEMMA OtherHandlerOrder ==
  ASSUME PublishesOnly, Context, SentInOrder, state = "RUNNING", ClientOnly,
         SubackUnsuback \/ PubrecFailed \/ Pubrec \/ Pubrel \/ HandlePublish
  PROVE  SentInOrder'
  <1> USE ContextParts
  <1>1. UNCHANGED <<delivered, rejected>>
    BY DEF ClientOnly, brokerVars
  <1>2. CASE SubackUnsuback
    <2>1. StoredPublishes' \subseteq StoredPublishes /\ UNCHANGED <<toServer, pending>>
      BY <1>2 DEF SubackUnsuback, AckOutbound, Drop, Restrict, StoredPublishes
    <2>2. QED BY <1>1, <2>1, OrderParts, OrderSame DEF Publishes
  <1>3. CASE PubrecFailed \/ Pubrec
    <2>1. Receive("PUBREC") /\ Consume /\ UNCHANGED toAnswer
      BY <1>3 DEF PubrecFailed, Pubrec, ClientOnly, brokerVars
    <2>2. "PUBREC" \in Replying
      BY DEF Replying
    <2>3. Head(toClient) \in Replies /\ Head(toClient).type = "PUBREC"
      BY <2>1, <2>2, HandledReply
    <2>4. QED BY <2>3, OnlyPuback DEF PublishesOnly
  <1>4. CASE Pubrel \/ HandlePublish
    <2>1. PICK type \in {"PUBACK", "PUBREC", "PUBCOMP"} : Send(<<Ack(type, Head(toClient).id)>>)
      BY <1>4 DEF Pubrel, HandlePublish
    <2>2. Head(toClient).id \in InIds
      <3>1. PICK t \in {"PUBLISH", "PUBREL"} : Receive(t)
        BY <1>4 DEF Pubrel, HandlePublish
      <3>2. QED BY <3>1, ReceivedPacket, ClientBoundFields, WireAssumption DEF TypeOK
    <2>3. PICK p \in ServerBound : p = Ack(type, Head(toClient).id)
      BY <2>2, AnswerPackets
    <2>4. p.type # "PUBLISH"
      BY <2>3 DEF Ack
    <2>5. InOrder(toServer') /\ Publishes' = Publishes
      BY <2>1, <2>3, <2>4, OrderParts, PublishSent
    <2>6. StoredPublishes' = StoredPublishes /\ UNCHANGED pending
      BY <1>4 DEF Pubrel, HandlePublish, StoredPublishes
    <2>7. QED BY <1>1, <2>5, <2>6, OrderSame
  <1>5. QED BY <1>2, <1>3, <1>4

LEMMA PublishOrder ==
  ASSUME PublishesOnly, Context, FlowExact, SentInOrder, NEW qos \in PublishQoS,
         PublishPacket(qos), ClientOnly
  PROVE  SentInOrder'
  <1> USE ContextParts
  <1>1. /\ state = "RUNNING" /\ nextId < MaxPublish /\ nextId' = nextId + 1
        /\ UNCHANGED <<delivered, rejected>>
    BY DEF PublishPacket, ClientOnly, brokerVars
  <1>2. PICK id \in OutMsg : id = nextId'
    BY <1>1, NewIdentifier DEF PublishesOnly, AtQoS1
  <1>3. /\ id % IdSpace = id /\ id # 0 /\ id \in PacketId /\ id \notin DOMAIN outbound
    BY <1>1, <1>2, NewIdentifier DEF PublishesOnly, AtQoS1
  <1>4. /\ outbound' = Put(outbound, id, NewEntry("PUBLISH", qos))
        /\ \/ /\ pending' = Append(pending, id) /\ UNCHANGED toServer
           \/ /\ inflight < receiveMax /\ UNCHANGED pending
              /\ Send(<<Publish(id, qos, id)>>)
    <2>1. inflight \in Nat /\ receiveMax \in Nat
      BY FlowParts, FlowFinite, <1>1 DEF TypeOK, SessionTypeOK, PublishesOnly
    <2>2. QED BY <1>2, <1>3, <2>1 DEF PublishPacket
  <1>5. StoredPublishes' = StoredPublishes \cup {id}
    BY <1>3, <1>4 DEF StoredPublishes, Put, NewEntry
  <1>6. \A n \in DOMAIN outbound : n < id
    BY <1>1, <1>2, StoredIsMessage DEF TypeOK, SessionTypeOK
  <1>7. /\ \A a \in Publishes : a.id < id
        /\ \A n \in Range(pending) : n < id
    <2>1. \A a \in Publishes : a \in Requests
      BY AskingTypes DEF Publishes, Requests, Carried
    <2>2. QED BY <1>6, <2>1 DEF RequestsMatch, PendingMatch, StoredPublishes
  <1>8. CASE pending' = Append(pending, id) /\ UNCHANGED toServer
    <2>1. pending \in Seq(PacketId)
      BY DEF TypeOK, SessionTypeOK
    <2>2. Increasing(pending') /\ Range(pending') = Range(pending) \cup {id}
      BY <1>1, <1>3, <1>7, <1>8, <2>1, OrderParts, IncreasingAppend, QueueAppend
    <2>3. Publishes' = Publishes
      BY <1>8 DEF Publishes
    <2>4. InOrder(toServer')
      BY <1>1, <1>8, OrderParts
    <2>5. \A a \in Publishes', n \in Range(pending') : a.id < n
      BY <1>1, <1>7, <2>2, <2>3, OrderParts
    <2>6. \A n \in StoredPublishes' :
            \/ delivered'[n] > 0 \/ n \in rejected' \/ n \in Range(pending')
            \/ \E a \in Publishes' : a.id = n
      BY <1>1, <1>5, <2>2, <2>3, OrderParts
    <2>7. QED BY <2>2, <2>4, <2>5, <2>6, OrderKept
  <1>9. CASE inflight < receiveMax /\ UNCHANGED pending /\ Send(<<Publish(id, qos, id)>>)
    <2>1. pending = <<>>
      <3>1. inflight \in Nat /\ receiveMax \in Nat
        BY FlowParts, FlowFinite, <1>1 DEF TypeOK, SessionTypeOK, PublishesOnly
      <3>2. QED BY <1>1, <1>9, <3>1, FlowParts
    <2>2. PICK p \in ServerBound : p = Publish(id, qos, id)
      BY <1>3, ServerDataPackets, ServerDataSubset, WireAssumption DEF QoS
    <2>3. p.id = id /\ p.type = "PUBLISH"
      BY <2>2 DEF Publish
    <2>4. InOrder(toServer') /\ Publishes' = Publishes \cup {p}
      BY <1>1, <1>7, <1>9, <2>2, <2>3, OrderParts, PublishSent
    <2>5. Range(pending') = {} /\ Increasing(pending') /\ pending' = pending
      BY <1>9, <2>1 DEF Range, Increasing
    <2>6. \A n \in StoredPublishes' :
            \/ delivered'[n] > 0 \/ n \in rejected' \/ n \in Range(pending')
            \/ \E a \in Publishes' : a.id = n
      BY <1>1, <1>5, <2>3, <2>4, <2>5, OrderParts
    <2>7. QED BY <2>4, <2>5, <2>6, OrderKept
  <1>10. QED BY <1>4, <1>8, <1>9

LEMMA TooBigOrder ==
  ASSUME PublishesOnly, Context, SentInOrder, NEW kind, NEW qos, PacketTooBig(kind, qos),
         ClientOnly
  PROVE  SentInOrder'
  <1> USE ContextParts
  <1>1. /\ state = "RUNNING" /\ nextId < MaxPublish /\ nextId' = nextId + 1
        /\ UNCHANGED <<delivered, rejected, toServer, pending>>
    BY DEF PacketTooBig, ClientOnly, brokerVars, wireVars
  <1>2. nextId' % IdSpace = nextId' /\ nextId' # 0
    BY <1>1, NewIdentifier DEF PublishesOnly, AtQoS1
  <1>3. outbound' = Drop(outbound, nextId')
    BY <1>2 DEF PacketTooBig
  <1>4. StoredPublishes' \subseteq StoredPublishes
    BY <1>3 DEF StoredPublishes, Drop, Restrict
  <1>5. QED BY <1>1, <1>4, OrderParts, OrderSame DEF Publishes

(* What the broker reads, in a system without QoS 2 and requests. *)
LEMMA ReadAtQoS1 ==
  ASSUME PublishesOnly, Context, state = "RUNNING", DataReader
  PROVE  ReceivePublish1 \/ RejectPublish \/ ReceivePubackPubcomp \/ ReceivePubrec
  <1> USE ContextParts
  <1>1. CASE ReceivePublish2
    <2>1. Head(toServer) \in Requests /\ Head(toServer).type = "PUBLISH" /\ Head(toServer).qos = 2
      BY <1>1, ReadRequest, AskingTypes DEF ReceivePublish2, OneStepPerId
    <2>2. Head(toServer).id \in DOMAIN outbound /\ outbound[Head(toServer).id].qos = 2
          /\ outbound[Head(toServer).id].kind = "PUBLISH"
      BY <2>1 DEF RequestsMatch
    <2>3. QED BY <2>2 DEF StoreRight, EntryRight, PublishesOnly, AtQoS1
  <1>2. CASE ReceivePubrel
    <2>1. Head(toServer) \in Requests /\ Head(toServer).type = "PUBREL"
      BY <1>2, ReadRequest, AskingTypes DEF ReceivePubrel, OneStepPerId
    <2>2. QED BY <2>1, OnlyPuback DEF PublishesOnly
  <1>3. CASE ReceiveRequest
    BY <1>3 DEF ReceiveRequest, PublishesOnly
  <1>4. QED BY <1>1, <1>2, <1>3 DEF DataReader

LEMMA ReaderOrder ==
  ASSUME PublishesOnly, Context, SentInOrder, state = "RUNNING", DataReader, BrokerOnly
  PROVE  SentInOrder'
  <1> USE ContextParts
  <1>1. UNCHANGED <<pending, outbound>> /\ StoredPublishes' = StoredPublishes
    BY DEF BrokerOnly, sessionVars, StoredPublishes
  <1>2. ASSUME NEW type, type # "PUBLISH", Incoming(type), Read, UNCHANGED <<delivered, rejected>>
        PROVE  SentInOrder'
    BY <1>1, <1>2, OrderParts, PublishRead, OrderSame
  <1>3. CASE ReceivePublish1 \/ RejectPublish
    <2>1. Incoming("PUBLISH") /\ Read
      BY <1>3 DEF ReceivePublish1, RejectPublish
    <2>2. PICK h : h = Head(toServer)
      OBVIOUS
    <2>3. /\ InOrder(toServer') /\ h \in Publishes /\ Publishes = Publishes' \cup {h}
          /\ h.type = "PUBLISH"
      BY <2>1, <2>2, OrderParts, PublishRead
    <2>4. h \in Requests /\ h.id \in DOMAIN outbound /\ h.msg = h.id /\ h.id \in OutMsg
      <3>1. h \in Requests
        BY <2>3, AskingTypes DEF Publishes, Requests, Carried
      <3>2. QED BY <2>3, <3>1, StoredIsMessage DEF RequestsMatch
    <2>5. /\ delivered'[h.id] > 0 \/ h.id \in rejected'
          /\ \A id \in OutMsg : delivered[id] > 0 => delivered'[id] > 0
          /\ rejected \subseteq rejected'
      <3>1. delivered \in [OutMsg -> Nat]
        BY DEF TypeOK, BrokerTypeOK
      <3>2. CASE ReceivePublish1
        <4>1. delivered' = [delivered EXCEPT ![h.id] = @ + 1] /\ rejected' = rejected
          BY <2>2, <2>4, <3>2 DEF ReceivePublish1
        <4>2. delivered'[h.id] > 0 /\ \A id \in OutMsg : delivered'[id] >= delivered[id]
          BY <2>4, <3>1, <4>1, CountOne
        <4>3. \A id \in OutMsg : delivered[id] \in Nat /\ delivered'[id] \in Nat
          BY <3>1, <4>1
        <4>4. QED BY <4>1, <4>2, <4>3
      <3>3. CASE RejectPublish
        BY <2>2, <2>4, <3>3 DEF RejectPublish
      <3>4. QED BY <1>3, <3>2, <3>3
    <2>6. Increasing(pending') /\ \A p \in Publishes', id \in Range(pending') : p.id < id
      BY <1>1, <2>3, OrderParts
    <2>7. \A id \in StoredPublishes' :
            \/ delivered'[id] > 0 \/ id \in rejected' \/ id \in Range(pending')
            \/ \E p \in Publishes' : p.id = id
      <3>1. \A id \in StoredPublishes : id \in OutMsg
        BY StoredIsMessage DEF StoredPublishes
      <3>2. QED BY <1>1, <2>3, <2>5, <3>1, OrderParts
    <2>8. QED BY <2>3, <2>6, <2>7, OrderKept
  <1>4. CASE ReceivePubackPubcomp \/ ReceivePubrec
    BY <1>2, <1>4 DEF ReceivePubackPubcomp, ReceivePubrec
  <1>5. QED BY <1>3, <1>4, ReadAtQoS1

LEMMA ConnackRunningOrder ==
  ASSUME PublishesOnly, Context, ConnackRunning, ClientOnly PROVE SentInOrder'
  <1> USE ContextParts
  <1>1. PICK rmax : rmax = toClient[1].rmax
    OBVIOUS
  <1>2. state # "RUNNING" /\ toServer = <<>> /\ rmax \in Nat \ {0}
    BY <1>1, AcceptedPacket
  <1>3. pending = <<>>
    BY <1>2, QuietBefore
  <1>4. CASE StartClean /\ UNCHANGED <<toServer, pending>>
    <2>1. StoredPublishes' = {}
      BY <1>4, EmptyMapType DEF StartClean, StoredPublishes
    <2>2. Range(pending') = {} /\ Increasing(pending') /\ InOrder(toServer') /\ Publishes' = {}
      BY <1>2, <1>3, <1>4 DEF Range, Increasing, InOrder, Publishes, Carried
    <2>3. QED BY <2>1, <2>2, OrderKept
  <1>5. CASE ResendPartialTxns(rmax)
    <2>1. /\ StoredPublishes' = StoredPublishes
          /\ \A i, j \in DOMAIN pending' : i < j => pending'[i] < pending'[j]
          /\ \A i, j \in DOMAIN toServer' : i < j => toServer'[i].id < toServer'[j].id
          /\ \A i \in DOMAIN toServer' :
               /\ toServer'[i].type = "PUBLISH"
               /\ \A id \in Range(pending') : toServer'[i].id < id
          /\ \A id \in StoredPublishes :
               id \in Range(pending') \/ \E i \in DOMAIN toServer' : toServer'[i].id = id
      BY <1>2, <1>5, ResendInOrder DEF PublishesOnly
    <2>2. InOrder(toServer') /\ Increasing(pending')
      BY <2>1 DEF InOrder, Increasing
    <2>3. \A p : p \in Publishes' <=> \E i \in DOMAIN toServer' : toServer'[i] = p
      BY <2>1 DEF Publishes, Carried, Range
    <2>4. \A p \in Publishes', id \in Range(pending') : p.id < id
      BY <2>1, <2>3
    <2>5. \A id \in StoredPublishes' : id \in Range(pending') \/ \E p \in Publishes' : p.id = id
      BY <2>1, <2>3
    <2>6. QED BY <2>2, <2>4, <2>5, OrderKept
  <1>6. QED BY <1>1, <1>4, <1>5, AcceptedPacket DEF ConnackRunning

LEMMA NextOrder ==
  PublishesOnly /\ Context /\ FlowExact /\ SentInOrder /\ [InTurn]_vars => SentInOrder'
  <1> SUFFICES ASSUME PublishesOnly, Context, FlowExact, SentInOrder, [InTurn]_vars, state' = "RUNNING"
               PROVE  SentInOrder'
    BY DEF SentInOrder
  <1> USE ContextParts
  <1>1. CASE DataHandler /\ ClientOnly
    <2>1. state = "RUNNING"
      BY <1>1, HandlerRunning
    <2>2. QED BY <1>1, <2>1, PubackOrder, OtherHandlerOrder DEF DataHandler
  <1>2. CASE Application
    <2>1. ASSUME NEW qos \in PublishQoS, PublishPacket(qos), ClientOnly PROVE SentInOrder'
      BY <2>1, PublishOrder
    <2>2. ASSUME NEW kind, NEW qos, PacketTooBig(kind, qos), ClientOnly PROVE SentInOrder'
      BY <2>2, TooBigOrder
    <2>3. QED BY <1>2, <2>1, <2>2 DEF Application, PublishesOnly
  <1>3. CASE DataReader /\ BrokerOnly
    <2>1. state = "RUNNING"
      BY <1>3, ReaderRunning
    <2>2. QED BY <1>3, <2>1, ReaderOrder
  <1>4. CASE ConnackRunning /\ ClientOnly
    BY <1>4, ConnackRunningOrder
  <1>5. ASSUME UNCHANGED <<state, toServer, pending, outbound, delivered, rejected>>
        PROVE  SentInOrder'
    <2>1. Publishes' = Publishes /\ StoredPublishes' = StoredPublishes
      BY <1>5 DEF Publishes, StoredPublishes
    <2>2. QED BY <1>5, <2>1, OrderParts, OrderSame
  <1>6. CASE (Answer \/ \E qos \in QoS : BrokerPublish(qos)) /\ BrokerOnly
    BY <1>5, <1>6 DEF Answer, BrokerPublish, BrokerOnly, sessionVars
  <1>7. CASE UNCHANGED vars
    BY <1>5, <1>7 DEF vars, wireVars, sessionVars, brokerVars
  <1>8. CASE Establish \/ NetworkDrops \/ BrokerCloses \/ ClientCloses
    BY <1>8 DEF Establish, StartConnect, OnTcpConnect, NetworkDrops, BrokerCloses, ClientCloses,
       ConnectionLost, OnDisconnect, ConnackUnknownSession
  <1>9. CASE ConnectPacket /\ ClientOnly
    BY <1>9 DEF ConnectPacket, InPhase, Running
  <1>10. CASE ConnackRefused /\ ClientOnly
    <2>1. Receive("CONNACK") /\ WireTypeOK /\ UNCHANGED state
      BY <1>10 DEF ConnackRefused, TypeOK
    <2>2. QED BY <2>1, RunningIsRunning, RunningPast
  <1>11. CASE (AcceptResume \/ AcceptNew \/ Refuse \/ Expire) /\ BrokerOnly
    <2>1. UNCHANGED state /\ (Incoming("CONNECT") \/ ~linkUp)
      BY <1>11 DEF AcceptResume, AcceptNew, Refuse, Expire, BrokerOnly, sessionVars
    <2>2. QED BY <2>1, AskedNow
  <1>12. CASE ClientStep
    BY <1>1, <1>4, <1>8, <1>9, <1>10, <1>12 DEF ClientStep, DataHandler
  <1>13. CASE BrokerStep \/ BrokerChoice
    BY <1>3, <1>6, <1>11, <1>13 DEF BrokerStep, BrokerChoice, DataReader
  <1>14. CASE Overtaken
    BY <1>5, <1>14 DEF Overtaken, sessionVars, brokerVars
  <1>15. QED BY <1>2, <1>7, <1>8, <1>12, <1>13, <1>14 DEF InTurn

(* The broker hands on the publish it reads; an earlier one that is stored would
   be on its way before it. *)
LEMMA HandOnKeepsOrder ==
  ASSUME PublishesOnly, Context, SentInOrder, NoMessageLost, HandedOnInOrder, state = "RUNNING",
         ReceivePublish1, BrokerOnly
  PROVE  HandedOnInOrder'
  <1> USE ContextParts
  <1>1. PICK h : h = Head(toServer)
    OBVIOUS
  <1>2. Incoming("PUBLISH") /\ Read
    BY DEF ReceivePublish1
  <1>3. /\ h \in Publishes /\ Publishes = Publishes' \cup {h} /\ h.type = "PUBLISH"
        /\ \A p \in Publishes' : h.id < p.id
    BY <1>1, <1>2, OrderParts, PublishRead
  <1>4. h \in Requests
    BY <1>3, AskingTypes DEF Publishes, Requests, Carried
  <1>5. h.id \in DOMAIN outbound /\ h.msg = h.id
    BY <1>3, <1>4 DEF RequestsMatch
  <1>6. h.id \in OutMsg /\ h.id \in 1 .. nextId
    BY <1>5, StoredIsMessage
  <1>7. /\ delivered \in [OutMsg -> Nat]
        /\ delivered' = [delivered EXCEPT ![h.id] = @ + 1]
        /\ UNCHANGED <<rejected, abandoned, tooBig>>
    BY <1>1, <1>5 DEF ReceivePublish1, BrokerOnly, sessionVars, TypeOK, BrokerTypeOK
  <1>8. \A m \in OutMsg : delivered[m] > 0 => delivered'[m] > 0
    <2>1. \A m \in OutMsg : delivered'[m] >= delivered[m]
      BY <1>6, <1>7, CountOne
    <2>2. \A m \in OutMsg : delivered[m] \in Nat /\ delivered'[m] \in Nat
      BY <1>6, <1>7
    <2>3. QED BY <2>1, <2>2
  <1>9. \A m \in OutMsg : m # h.id => delivered'[m] = delivered[m]
    BY <1>6, <1>7, CountOne
  <1>10. ASSUME NEW n \in 1 .. h.id - 1
         PROVE  delivered[n] > 0 \/ n \in rejected \cup abandoned \cup tooBig
    <2>1. nextId \in Nat /\ h.id \in Nat /\ n \in Nat /\ n < h.id
      BY <1>6 DEF TypeOK, SessionTypeOK
    <2>2. n \in 1 .. nextId
      BY <1>6, <2>1
    <2>3. n \in StoredPublishes => delivered[n] > 0 \/ n \in rejected
      <3>1. ~(h.id < n) /\ h.id # n
        BY <2>1
      <3>2. QED BY <1>3, <3>1, OrderParts
    <2>4. ASSUME NEW id \in DOMAIN outbound, outbound[id].msg = n PROVE n \in StoredPublishes
      <3>1. id = n
        BY <2>4, StoredIsMessage
      <3>2. outbound[id].kind = "PUBLISH"
        BY <2>4 DEF TypeOK, SessionTypeOK, Entry, PublishesOnly
      <3>3. QED BY <3>1, <3>2 DEF StoredPublishes
    <2>5. QED BY <2>2, <2>3, <2>4 DEF NoMessageLost
  <1>11. SUFFICES ASSUME NEW m \in OutMsg, delivered'[m] > 0, NEW n \in 1 .. m - 1
                  PROVE  delivered'[n] > 0 \/ n \in rejected \cup abandoned \cup tooBig
    BY <1>7 DEF HandedOnInOrder
  <1>12. n \in OutMsg
    BY WireAssumption DEF OutMsg
  <1>13. delivered[n] > 0 \/ n \in rejected \cup abandoned \cup tooBig
    BY <1>9, <1>10, <1>11 DEF HandedOnInOrder
  <1>14. QED BY <1>8, <1>12, <1>13

LEMMA NextHandedOn ==
  PublishesOnly /\ Context /\ SentInOrder /\ NoMessageLost /\ HandedOnInOrder /\ [InTurn]_vars
    => HandedOnInOrder'
  <1> SUFFICES ASSUME PublishesOnly, Context, SentInOrder, NoMessageLost, HandedOnInOrder,
                      [InTurn]_vars
               PROVE  HandedOnInOrder'
    OBVIOUS
  <1> USE ContextParts
  <1>1. ASSUME delivered' = delivered, rejected \subseteq rejected',
               abandoned \subseteq abandoned', tooBig \subseteq tooBig'
        PROVE  HandedOnInOrder'
    BY <1>1 DEF HandedOnInOrder
  <1>2. CASE DataReader /\ BrokerOnly
    <2>1. state = "RUNNING"
      BY <1>2, ReaderRunning
    <2>2. UNCHANGED <<abandoned, tooBig>>
      BY <1>2 DEF BrokerOnly, sessionVars
    <2>3. CASE ReceivePublish1
      BY <1>2, <2>1, <2>3, HandOnKeepsOrder
    <2>4. CASE RejectPublish \/ ReceivePubackPubcomp \/ ReceivePubrec
      BY <1>1, <2>2, <2>4 DEF RejectPublish, ReceivePubackPubcomp, ReceivePubrec
    <2>5. QED BY <1>2, <2>1, <2>3, <2>4, ReadAtQoS1
  <1>3. CASE (Answer \/ Refuse \/ AcceptResume \/ AcceptNew \/ Expire
                \/ \E qos \in QoS : BrokerPublish(qos)) /\ BrokerOnly
    BY <1>1, <1>3 DEF Answer, Refuse, AcceptResume, AcceptNew, Expire, BrokerPublish, BrokerOnly,
       sessionVars, brokerVars
  <1>4. CASE ClientStep
    <2>1. UNCHANGED <<delivered, rejected>>
      BY <1>4 DEF ClientStep, ClientOnly, brokerVars, ClientCloses
    <2>2. abandoned \subseteq abandoned' /\ tooBig' = tooBig
      BY <1>4 DEF ClientStep, ConnectPacket, ConnackRunning, ConnackRefused, StartClean,
         PubackPubcomp, SubackUnsuback, PubrecFailed, Pubrec, Pubrel, HandlePublish,
         ClientCloses, ConnackUnknownSession
    <2>3. QED BY <1>1, <2>1, <2>2
  <1>5. CASE Application
    BY <1>1, <1>5 DEF Application, PublishPacket, MultiTopic, PacketTooBig, ClientOnly, brokerVars
  <1>6. CASE Establish \/ NetworkDrops \/ BrokerCloses
    BY <1>1, <1>6 DEF Establish, StartConnect, OnTcpConnect, NetworkDrops, BrokerCloses,
       ConnectionLost, ClientOnly, brokerVars
  <1>7. CASE UNCHANGED vars
    BY <1>1, <1>7 DEF vars, sessionVars, brokerVars
  <1>8. CASE BrokerStep \/ BrokerChoice
    BY <1>2, <1>3, <1>8 DEF BrokerStep, BrokerChoice, DataReader
  <1>9. CASE Overtaken
    BY <1>1, <1>9 DEF Overtaken, sessionVars, brokerVars
  <1>10. QED BY <1>4, <1>5, <1>6, <1>7, <1>8, <1>9 DEF InTurn

(* QoS 1 publishes are handed on for the first time in the order in which the
   application called publish(), whatever was held back, dropped or sent again,
   until a packet is handled after the end of its connection. *)
THEOREM PublishOrderKept ==
  ASSUME PublishesOnly PROVE Spec => [](outlived \/ HandedOnInOrder)
  <1> DEFINE Inv == outlived \/ (SentInOrder /\ HandedOnInOrder)
             Flow == TypeOK /\ (outlived \/ (Context /\ FlowExact))
             Kept == outlived \/ NoMessageLost
  <1>1. Init => Inv
    <2>1. SUFFICES ASSUME Init PROVE Inv
      OBVIOUS
    <2>2. state = "DISCONNECTED" /\ delivered = [m \in OutMsg |-> 0]
      BY <2>1 DEF Init, SessionInit, BrokerInit
    <2>3. QED BY <2>2 DEF SentInOrder, HandedOnInOrder
  <1>2. Inv /\ Flow /\ Kept /\ [Next]_vars => Inv'
    <2> SUFFICES ASSUME Inv, Flow, Kept, [Next]_vars PROVE Inv'
      OBVIOUS
    <2>1. ([InTurn]_vars /\ outlived' = outlived) \/ outlived'
      BY OutlivedStays
    <2>2. QED BY <2>1, NextOrder, NextHandedOn
  <1>3. Spec => []Flow
    BY FlowInvariant DEF PublishesOnly
  <1>4. Spec => []Kept
    BY NoMessageEverLost DEF PublishesOnly, AtQoS1
  <1>5. Inv => outlived \/ HandedOnInOrder
    OBVIOUS
  <1> HIDE DEF Inv, Flow, Kept
  <1>6. QED BY <1>1, <1>2, <1>3, <1>4, <1>5, PTL DEF Spec

-----------------------------------------------------------------------------
(* Messages of the broker. *)

(* Only an established connection carries packets, and a client is RUNNING only
   on one. *)
LinkCarries ==
  /\ state = "RUNNING" => linkUp
  /\ ~linkUp => toServer = <<>> /\ toClient = <<>>

(* What the steps below start from. *)
Shared == TypeOK /\ InPhase /\ LinkCarries

LEMMA LinkStays ==
  ASSUME LinkCarries, linkUp' = linkUp, linkUp \/ UNCHANGED <<toServer, toClient, state>>
  PROVE  LinkCarries'
  BY DEF LinkCarries

LEMMA SendWithLink ==
  ASSUME NEW ps, Send(ps) PROVE linkUp \/ UNCHANGED toServer
  BY DEF Send

LEMMA NextLinkCarries == Shared /\ [InTurn]_vars => LinkCarries'
  <1> SUFFICES ASSUME Shared, [InTurn]_vars PROVE LinkCarries'
    OBVIOUS
  <1> USE DEF Shared
  <1>1. CASE DataHandler \/ ConnackRunning \/ ConnackRefused
    <2>1. toClient # <<>> /\ linkUp' = linkUp
      BY <1>1 DEF DataHandler, PubackPubcomp, SubackUnsuback, PubrecFailed, Pubrec, Pubrel,
         HandlePublish, ConnackRunning, ConnackRefused, Receive
    <2>2. QED BY <2>1, LinkStays DEF LinkCarries
  <1>2. CASE ConnectPacket
    BY <1>2, SendWithLink, LinkStays DEF ConnectPacket
  <1>3. CASE Application
    <2>1. state = "RUNNING" /\ linkUp
      BY <1>3 DEF Application, PublishPacket, MultiTopic, PacketTooBig, LinkCarries
    <2>2. linkUp' = linkUp
      BY <1>3 DEF Application, PublishPacket, MultiTopic, PacketTooBig, wireVars
    <2>3. QED BY <2>1, <2>2, LinkStays
  <1>4. CASE DataReader \/ AcceptResume \/ AcceptNew \/ Refuse
    BY <1>4, LinkStays DEF DataReader, ReceivePublish1, ReceivePublish2, RejectPublish,
       ReceivePubrel, ReceiveRequest, ReceivePubackPubcomp, ReceivePubrec, AcceptResume,
       AcceptNew, Refuse, Incoming
  <1>5. CASE Answer \/ \E qos \in QoS : BrokerPublish(qos)
    BY <1>5, LinkStays DEF Answer, BrokerPublish
  <1>6. CASE Expire /\ BrokerOnly
    BY <1>6, LinkStays DEF Expire, BrokerOnly, wireVars, sessionVars
  <1>7. CASE ClientCloses \/ NetworkDrops \/ BrokerCloses
    BY <1>7 DEF ClientCloses, ConnackUnknownSession, NetworkDrops, BrokerCloses, ConnectionLost,
       OnDisconnect, LinkCarries
  <1>8. CASE Establish
    BY <1>8 DEF Establish, StartConnect, OnTcpConnect, wireVars, LinkCarries
  <1>9. CASE UNCHANGED vars
    BY <1>9, LinkStays DEF vars, wireVars, sessionVars
  <1>10. CASE ClientStep
    BY <1>1, <1>2, <1>7, <1>10 DEF ClientStep, DataHandler
  <1>11. CASE BrokerStep \/ BrokerChoice
    BY <1>4, <1>5, <1>6, <1>11 DEF BrokerStep, BrokerChoice, DataReader
  <1>12. CASE Overtaken
    BY <1>12 DEF Overtaken, LinkCarries
  <1>13. QED BY <1>3, <1>7, <1>8, <1>9, <1>10, <1>11, <1>12 DEF InTurn

LEMMA InitShared == Init => Shared
  <1>1. Init => LinkCarries
    BY DEF Init, WireInit, SessionInit, LinkCarries
  <1>2. QED BY <1>1, InitType, InitHandshake DEF Shared

LEMMA NextShared == Shared /\ [InTurn]_vars => Shared'
  BY NextLinkCarries, InTurnType, NextPhase DEF Shared

-----------------------------------------------------------------------------
(* The kinds of packets. *)

LEMMA OfferingTypes ==
  /\ \A type \in Replying : type \notin Offering
  /\ "CONNACK" \notin Offering
  /\ \A type \in Asking : type \notin Accepting
  /\ "CONNECT" \notin Accepting
  BY WireAssumption DEF Offering, Replying, Asking, Accepting

(* A packet that is no answer is sent. *)
LEMMA NoAnswerSent ==
  ASSUME TypeOK, OncePerId(toServer, Accepting), NEW p, p.type \notin Accepting, Send(<<p>>)
  PROVE  Answers' = Answers /\ OncePerId(toServer', Accepting)
  <1> DEFINE S == ServerBound \cup {p}
  <1>1. toServer \in Seq(S) /\ p \in S
    <2>1. toServer \in Seq(ServerBound)
      BY DEF TypeOK, WireTypeOK
    <2>2. \A i \in 1 .. Len(toServer) : toServer[i] \in S
      BY <2>1
    <2> HIDE DEF S
    <2>3. toServer \in Seq(S)
      BY <2>1, <2>2, ElementsType
    <2>4. QED BY <2>3 DEF S
  <1> HIDE DEF S
  <1>2. toServer' = toServer \/ toServer' = Append(toServer, p)
    BY <1>1, AppendConcat DEF Send
  <1>3. Carried(Append(toServer, p), Accepting) = Carried(toServer, Accepting)
        /\ OncePerId(Append(toServer, p), Accepting)
    <2>1. /\ Carried(Append(toServer, p), Accepting)
                = Carried(toServer, Accepting) \cup (IF p.type \in Accepting THEN {p} ELSE {})
          /\ OncePerId(toServer, Accepting)
               /\ (p.type \in Accepting => \A a \in Carried(toServer, Accepting) : a.id # p.id)
               => OncePerId(Append(toServer, p), Accepting)
      BY <1>1, CarriedAppend
    <2>2. QED BY <2>1
  <1>4. QED BY <1>2, <1>3 DEF Answers

LEMMA StoredIsNoAnswer ==
  ASSUME TypeOK, NEW id \in DOMAIN outbound PROVE StoredPacket(id).type \notin Accepting
  <1>1. outbound[id].kind \in {"PUBLISH"} \cup RequestKinds
    BY DEF TypeOK, SessionTypeOK, Entry
  <1>2. StoredPacket(id).type = outbound[id].kind
    BY DEF StoredPacket, Publish, Request
  <1>3. QED BY <1>1, <1>2, WireAssumption DEF Accepting

LEMMA EndSendsNoAnswer ==
  ASSUME TypeOK, OncePerId(toServer, Accepting), NEW store, DOMAIN store \subseteq DOMAIN outbound,
         PublishEnd(store)
  PROVE  Answers' = Answers /\ OncePerId(toServer', Accepting)
  <1>1. CASE UNCHANGED toServer
    BY <1>1 DEF Answers
  <1>2. ASSUME NEW id \in DOMAIN outbound, Send(<<StoredPacket(id)>>)
        PROVE  Answers' = Answers /\ OncePerId(toServer', Accepting)
    BY <1>2, NoAnswerSent, StoredIsNoAnswer
  <1>3. QED BY <1>1, <1>2 DEF PublishEnd, RunFlow

(* What is resent is no answer either. *)
LEMMA ResendIsNoAnswer ==
  ASSUME TypeOK, toServer = <<>>, NEW rmax \in Nat, ResendPartialTxns(rmax)
  PROVE  Answers' = {}
  <1> DEFINE kept == DOMAIN outbound \ Spent
             rels == kept \cap Released
             pubs == {id \in kept \cap StoredPublishes : id # 0} \ rels
  <1>1. PICK order \in Ascending(pubs) :
          LET fit == IF Len(order) <= Room(rmax) THEN Len(order) ELSE Room(rmax)
              now == {order[i] : i \in 1 .. fit}
          IN \E batch \in Ascending(rels \cup now) :
               toServer' = toServer \o
                 [i \in DOMAIN batch |-> IF batch[i] \in rels THEN Ack("PUBREL", batch[i])
                                                              ELSE StoredPacket(batch[i])]
    BY DEF ResendPartialTxns
  <1> DEFINE fit == IF Len(order) <= Room(rmax) THEN Len(order) ELSE Room(rmax)
             now == {order[i] : i \in 1 .. fit}
  <1>2. PICK batch \in Ascending(rels \cup now) :
          toServer' = toServer \o
            [i \in DOMAIN batch |-> IF batch[i] \in rels THEN Ack("PUBREL", batch[i])
                                                         ELSE StoredPacket(batch[i])]
    BY <1>1
  <1>3. IsFiniteSet(DOMAIN outbound)
    BY PacketIdFinite, WireAssumption, FS_Subset DEF TypeOK, SessionTypeOK
  <1>4. order \in Seq(pubs) /\ Len(order) \in Nat
    BY <1>3, FS_Subset, AscendingType
  <1>5. now \subseteq DOMAIN outbound
    <2>1. Room(rmax) \in Nat
      BY SessionAssumption DEF TypeOK, SessionTypeOK, Room
    <2>2. fit \in Nat /\ fit <= Len(order)
      BY <1>4, <2>1
    <2>3. QED BY <1>4, <2>2
  <1>6. rels \cup now \subseteq DOMAIN outbound
    BY <1>5
  <1> HIDE DEF now, rels
  <1>7. batch \in Seq(rels \cup now)
    BY <1>3, <1>6, FS_Subset, AscendingType
  <1> DEFINE r == [i \in DOMAIN batch |-> IF batch[i] \in rels THEN Ack("PUBREL", batch[i])
                                                              ELSE StoredPacket(batch[i])]
  <1>8. \A i \in DOMAIN batch : r[i].type \notin Accepting
    <2>1. \A i \in DOMAIN batch : batch[i] \in DOMAIN outbound
      BY <1>6, <1>7
    <2>2. \A id : Ack("PUBREL", id).type \notin Accepting
      BY DEF Ack, Accepting
    <2>3. QED BY <2>1, <2>2, StoredIsNoAnswer
  <1>9. DOMAIN batch = 1 .. Len(batch) /\ Len(batch) \in Nat
    BY <1>7
  <1>10. toServer' = r
    <2>1. r \in Seq({r[i] : i \in DOMAIN batch})
      <3> DEFINE T == {r[i] : i \in DOMAIN batch}
      <3>1. r \in [1 .. Len(batch) -> T]
        BY <1>9
      <3> HIDE DEF r, T
      <3>2. r \in Seq(T)
        BY <1>9, <3>1
      <3>3. QED BY <3>2 DEF T
    <2> HIDE DEF r
    <2>2. <<>> \o r = r
      BY <2>1
    <2>3. toServer' = <<>> \o r
      BY <1>2 DEF r
    <2>4. QED BY <2>2, <2>3
  <1>11. \A i \in DOMAIN toServer' : toServer'[i].type \notin Accepting
    BY <1>8, <1>10
  <1>12. QED BY <1>11 DEF Answers, Carried, Range

-----------------------------------------------------------------------------
(* Steps that touch no exchange of the broker's. *)

LEMMA InboundParts ==
  InboundExchange <=> OneOfferPerId /\ ReleasedAtQoS2 /\ IncomingsMatch /\ AnswersMatch /\ InboundAgrees
  BY DEF InboundExchange

LEMMA SameExchanges ==
  ASSUME InboundExchange, inbound' \subseteq inbound, UNCHANGED <<sent, dispatched>>,
         Answers' \subseteq Answers, OncePerId(toServer', Accepting),
         Incomings' \subseteq Incomings, OncePerId(toClient', Offering),
         (SessionGoesOn' => SessionGoesOn) \/ inbound' = {}
  PROVE  InboundExchange'
  BY DEF InboundExchange, OneOfferPerId, ReleasedAtQoS2, IncomingsMatch, AnswersMatch,
         InboundAgrees

LEMMA NoneCarried ==
  ASSUME toServer' = <<>>, toClient' = <<>>
  PROVE  /\ Answers' = {} /\ Incomings' = {}
         /\ OncePerId(toServer', Accepting) /\ OncePerId(toClient', Offering)
  BY CarriedEmpty DEF Answers, Incomings

(* The client reads a packet that offers nothing. *)
LEMMA NoOfferHandled ==
  ASSUME TypeOK, InboundExchange, NEW type, type \notin Offering, Receive(type), Consume
  PROVE  Incomings' = Incomings /\ OncePerId(toClient', Offering)
  BY ReceiveCarried, InboundParts DEF OneOfferPerId, Incomings

LEMMA RunningGoesOn ==
  ASSUME InboundExchange, state = "RUNNING", UNCHANGED <<inbound, sent, dispatched>>,
         Answers' \subseteq Answers, OncePerId(toServer', Accepting),
         Incomings' \subseteq Incomings, OncePerId(toClient', Offering)
  PROVE  InboundExchange'
  BY SameExchanges DEF SessionGoesOn

LEMMA OtherHandlerInbound ==
  ASSUME Shared, InboundExchange, PubackPubcomp \/ SubackUnsuback \/ PubrecFailed \/ Pubrec,
         ClientOnly
  PROVE  InboundExchange'
  <1> USE DEF Shared
  <1>1. PICK type \in Replying : Receive(type)
    BY DEF PubackPubcomp, SubackUnsuback, PubrecFailed, Pubrec, Replying
  <1>2. Consume /\ UNCHANGED <<inbound, sent, dispatched>>
    BY DEF PubackPubcomp, SubackUnsuback, PubrecFailed, Pubrec, ClientOnly, brokerVars
  <1>3. Incomings' = Incomings /\ OncePerId(toClient', Offering)
    BY <1>1, <1>2, NoOfferHandled, OfferingTypes
  <1>4. state = "RUNNING"
    BY HandlerRunning DEF DataHandler
  <1>5. OncePerId(toServer, Accepting)
    BY DEF InboundExchange, OneOfferPerId
  <1>6. Answers' = Answers /\ OncePerId(toServer', Accepting)
    <2>1. CASE PubackPubcomp
      BY <1>5, <2>1, EndSendsNoAnswer DEF PubackPubcomp
    <2>2. CASE SubackUnsuback
      BY <1>5, <2>2 DEF SubackUnsuback, Answers
    <2>3. CASE PubrecFailed
      <3>1. DOMAIN Drop(outbound, Head(toClient).id) \subseteq DOMAIN outbound
        BY DEF Drop, Restrict
      <3>2. QED BY <1>5, <2>3, <3>1, EndSendsNoAnswer DEF PubrecFailed
    <2>4. CASE Pubrec
      <3>1. PICK p : p = Ack("PUBREL", Head(toClient).id)
        OBVIOUS
      <3>2. p.type \notin Accepting /\ Send(<<p>>)
        BY <2>4, <3>1 DEF Pubrec, Ack, Accepting
      <3>3. QED BY <1>5, <3>2, NoAnswerSent
    <2>5. QED BY <2>1, <2>2, <2>3, <2>4
  <1>7. QED BY <1>2, <1>3, <1>4, <1>6, RunningGoesOn

LEMMA ApplicationInbound ==
  ASSUME Shared, InboundExchange, Application PROVE InboundExchange'
  <1> USE DEF Shared
  <1>1. /\ state = "RUNNING" /\ UNCHANGED <<toClient, inbound, sent, dispatched>>
    BY DEF Application, PublishPacket, MultiTopic, PacketTooBig, ClientOnly, brokerVars, wireVars
  <1>2. /\ OncePerId(toServer, Accepting)
        /\ Incomings' = Incomings /\ OncePerId(toClient', Offering)
    BY <1>1 DEF InboundExchange, OneOfferPerId, Incomings
  <1>3. \/ UNCHANGED toServer
        \/ \E p : p.type \notin Accepting /\ Send(<<p>>)
    <2>1. ASSUME NEW qos, PublishPacket(qos)
          PROVE  UNCHANGED toServer \/ \E p : p.type \notin Accepting /\ Send(<<p>>)
      <3>1. PICK p : p = Publish(nextId' % IdSpace, qos, nextId')
        OBVIOUS
      <3>2. p.type \notin Accepting
        BY <3>1 DEF Publish, Accepting
      <3>3. QED BY <2>1, <3>1, <3>2 DEF PublishPacket
    <2>2. ASSUME NEW kind \in RequestKinds, MultiTopic(kind)
          PROVE  \E p : p.type \notin Accepting /\ Send(<<p>>)
      <3>1. PICK p : p = Request(kind, nextId' % IdSpace, nextId')
        OBVIOUS
      <3>2. p.type \notin Accepting
        BY <3>1, WireAssumption DEF Request, Accepting
      <3>3. QED BY <2>2, <3>1, <3>2 DEF MultiTopic
    <2>3. ASSUME NEW kind, NEW qos, PacketTooBig(kind, qos) PROVE UNCHANGED toServer
      BY <2>3 DEF PacketTooBig, wireVars
    <2>4. QED BY <2>1, <2>2, <2>3 DEF Application
  <1>4. Answers' = Answers /\ OncePerId(toServer', Accepting)
    <2>1. CASE UNCHANGED toServer
      BY <1>2, <2>1 DEF Answers
    <2>2. QED BY <1>2, <1>3, <2>1, NoAnswerSent
  <1>5. QED BY <1>1, <1>2, <1>4, RunningGoesOn

LEMMA ReaderInbound ==
  ASSUME Shared, InboundExchange, BrokerOnly,
         ReceivePublish1 \/ ReceivePublish2 \/ RejectPublish \/ ReceivePubrel \/ ReceiveRequest
  PROVE  InboundExchange'
  <1> USE DEF Shared
  <1>1. PICK type \in Asking : Incoming(type)
    BY AskingTypes DEF ReceivePublish1, ReceivePublish2, RejectPublish, ReceivePubrel,
       ReceiveRequest
  <1>2. Read /\ UNCHANGED <<toClient, inbound, sent, dispatched>>
    BY DEF ReceivePublish1, ReceivePublish2, RejectPublish, ReceivePubrel, ReceiveRequest,
       BrokerOnly, sessionVars
  <1>3. Answers' = Answers /\ OncePerId(toServer', Accepting)
    BY <1>1, <1>2, ReadCarried, OfferingTypes, InboundParts DEF OneOfferPerId, Answers
  <1>4. state = "RUNNING"
    BY ReaderRunning DEF DataReader
  <1>5. Incomings' = Incomings /\ OncePerId(toClient', Offering)
    BY <1>2 DEF InboundExchange, OneOfferPerId, Incomings
  <1>6. QED BY <1>2, <1>3, <1>4, <1>5, RunningGoesOn

LEMMA AnswerInbound ==
  ASSUME Shared, InboundExchange, Answer, BrokerOnly PROVE InboundExchange'
  <1> USE DEF Shared
  <1>1. PICK a \in toAnswer : toClient' = Append(toClient, a)
    BY DEF Answer
  <1>2. UNCHANGED <<toServer, inbound, sent, dispatched>>
    BY DEF Answer, BrokerOnly, sessionVars
  <1>3. a \in ClientBound /\ a.type \in Replying /\ toClient \in Seq(ClientBound)
    BY DEF TypeOK, BrokerTypeOK, WireTypeOK, ClientBound, Reply, Replying
  <1>4. a.type \notin Offering
    BY <1>3, OfferingTypes
  <1>5. OncePerId(toClient, Offering) /\ OncePerId(toServer', Accepting) /\ Answers' = Answers
    BY <1>2 DEF InboundExchange, OneOfferPerId, Answers
  <1>6. Incomings' = Incomings /\ OncePerId(toClient', Offering)
    <2>1. /\ Carried(Append(toClient, a), Offering)
                = Carried(toClient, Offering) \cup (IF a.type \in Offering THEN {a} ELSE {})
          /\ OncePerId(toClient, Offering)
               /\ (a.type \in Offering => \A b \in Carried(toClient, Offering) : b.id # a.id)
               => OncePerId(Append(toClient, a), Offering)
      BY <1>3, CarriedAppend
    <2>2. QED BY <1>1, <1>4, <1>5, <2>1 DEF Incomings
  <1>7. state = "RUNNING"
    BY ReaderRunning
  <1>8. QED BY <1>2, <1>5, <1>6, <1>7, RunningGoesOn

-----------------------------------------------------------------------------
(* The connection is established, accepted and lost. *)

LEMMA SilentBefore ==
  ASSUME Shared, state # "RUNNING" PROVE Answers = {} /\ OncePerId(toServer, Accepting)
  <1>1. Carried(toServer, Accepting) = {}
    BY OnlyConnectSent, CarriedMore DEF Shared
  <1>2. QED BY <1>1, CarriedNone DEF Answers

LEMMA EstablishInbound ==
  ASSUME Shared, InboundExchange, Establish \/ (ConnectPacket /\ ClientOnly), Shared'
  PROVE  InboundExchange'
  <1> USE DEF Shared
  <1>1. state # "RUNNING" /\ NotAsked
    BY DEF Establish, StartConnect, OnTcpConnect, ConnectPacket, InPhase, Running, NotAsked,
           Asked, Accepted, Refused
  <1>2. UNCHANGED <<toClient, inbound, sent, dispatched, stored>> /\ state' # "RUNNING"
    BY <1>1 DEF Establish, StartConnect, OnTcpConnect, ConnectPacket, ClientOnly, brokerVars,
       wireVars
  <1>3. Carried(toServer', Accepting) = {}
    <2>1. InPhase' /\ state' # "RUNNING"
      BY <1>2
    <2>2. (InPhase /\ state # "RUNNING" => Carried(toServer, Asking \cup Accepting) = {})'
      BY OnlyConnectSent, PTL
    <2>3. QED BY <2>1, <2>2, CarriedMore
  <1>4. Answers' \subseteq Answers /\ OncePerId(toServer', Accepting)
    BY <1>3, CarriedNone DEF Answers
  <1>5. Incomings' = Incomings /\ OncePerId(toClient', Offering)
    BY <1>2 DEF InboundExchange, OneOfferPerId, Incomings
  <1>6. SessionGoesOn' => SessionGoesOn
    <2>1. ~Accepted' /\ toClient = <<>>
      BY <1>1, <1>2 DEF NotAsked, Accepted, Arriving
    <2>2. \/ state \in {"DISCONNECTED", "CONNECTING"}
          \/ UNCHANGED <<state, linkUp>>
      BY DEF Establish, StartConnect, OnTcpConnect, ConnectPacket
    <2>3. QED BY <1>2, <2>1, <2>2 DEF SessionGoesOn
  <1>7. QED BY <1>2, <1>4, <1>5, <1>6, SameExchanges

LEMMA LostInbound ==
  ASSUME InboundExchange, NetworkDrops \/ BrokerCloses \/ ClientCloses PROVE InboundExchange'
  <1>1. linkUp' = FALSE /\ toServer' = <<>> /\ toClient' = <<>>
        /\ UNCHANGED <<inbound, sent, dispatched, stored>>
    BY DEF NetworkDrops, BrokerCloses, ClientCloses, ConnectionLost, ConnackUnknownSession,
       OnDisconnect
  <1>2. (SessionGoesOn' => SessionGoesOn) \/ inbound' = {}
    <2>1. CASE NetworkDrops \/ BrokerCloses
      <3>1. state' = IF state = "RUNNING" THEN "DISCONNECTED" ELSE state
        BY <2>1 DEF NetworkDrops, BrokerCloses, ConnectionLost, OnDisconnect
      <3>2. ~Accepted'
        BY <1>1 DEF Accepted, Arriving
      <3>3. QED BY <1>1, <3>1, <3>2 DEF SessionGoesOn
    <2>2. CASE ClientCloses
      BY <1>1, <2>2 DEF ClientCloses, ConnackUnknownSession, HaveSessionData
    <2>3. QED BY <2>1, <2>2
  <1>3. QED BY <1>1, <1>2, NoneCarried, SameExchanges

LEMMA ConnackInbound ==
  ASSUME Shared, InboundExchange, ConnackRunning \/ ConnackRefused, ClientOnly
  PROVE  InboundExchange'
  <1> USE DEF Shared
  <1>1. PICK c : c = Head(toClient)
    OBVIOUS
  <1>2. Receive("CONNACK") /\ Consume /\ UNCHANGED <<sent, dispatched>>
    BY DEF ConnackRunning, ConnackRefused, ClientOnly, brokerVars
  <1>3. c \in ClientBound /\ c.type = "CONNACK" /\ c.rmax \in Nat
    BY <1>1, <1>2, ReceivedPacket, ClientBoundFields, WireAssumption DEF TypeOK
  <1>4. Incomings' = Incomings /\ OncePerId(toClient', Offering)
    BY <1>2, NoOfferHandled, OfferingTypes
  <1>5. state # "RUNNING"
    BY <1>2, RunningIsRunning, RunningPast DEF TypeOK
  <1>6. Accepted \/ Refused
    BY <1>2, <1>5, OnlyConnack DEF TypeOK
  <1>7. toServer = <<>> /\ Answers = {} /\ OncePerId(toServer, Accepting)
    BY <1>5, <1>6, SilentBefore DEF Accepted, Refused
  <1>8. CASE StartClean /\ UNCHANGED toServer
    <2>1. inbound' = {}
      BY <1>8 DEF StartClean
    <2>2. Answers' = Answers /\ OncePerId(toServer', Accepting)
      BY <1>7, <1>8 DEF Answers
    <2>3. QED BY <1>2, <1>4, <2>1, <2>2, SameExchanges
  <1>9. CASE ResendPartialTxns(c.rmax) /\ UNCHANGED inbound /\ c.present /\ c.ok
    <2>1. Answers' = {}
      BY <1>3, <1>7, <1>9, ResendIsNoAnswer
    <2>2. OncePerId(toServer', Accepting)
      BY <2>1, CarriedNone DEF Answers
    <2>3. SessionGoesOn
      <3>1. ~Refused
        BY <1>1, <1>9 DEF Refused, Connack
      <3>2. Accepted /\ c = toClient[1]
        BY <1>1, <1>6, <3>1 DEF Accepted, TypeOK, WireTypeOK
      <3>3. QED BY <1>9, <3>2 DEF SessionGoesOn
    <2>4. QED BY <1>2, <1>4, <1>7, <1>9, <2>1, <2>2, <2>3, SameExchanges
  <1>10. QED BY <1>1, <1>8, <1>9 DEF ConnackRunning, ConnackRefused

LEMMA RefuseInbound ==
  ASSUME Shared, InboundExchange, (Refuse \/ Expire) /\ BrokerOnly PROVE InboundExchange'
  <1> USE DEF Shared
  <1>1. UNCHANGED <<inbound, dispatched, state>>
    BY DEF BrokerOnly, sessionVars
  <1>2. CASE Refuse
    <2>1. state = "TCP_CONNECTED" /\ toClient = <<>> /\ Incoming("CONNECT") /\ Read
      BY <1>2, AskedNow DEF Refuse
    <2>2. PICK c : c = Connack(FALSE, FALSE, granted)
      OBVIOUS
    <2>3. toClient' = <<c>> /\ UNCHANGED sent
      BY <1>2, <2>1, <2>2 DEF Refuse, brokerVars
    <2>4. c.type \notin Offering /\ ~c.present
      BY <2>2, OfferingTypes DEF Connack
    <2>5. Incomings' = {} /\ OncePerId(toClient', Offering)
      BY <2>3, <2>4, CarriedOne DEF Incomings
    <2>6. Answers' = Answers /\ OncePerId(toServer', Accepting)
      BY <2>1, SilentBefore, ReadCarried, OfferingTypes DEF Answers
    <2>7. ~SessionGoesOn'
      <3>1. toClient' # <<>> /\ toClient'[1] = c
        BY <2>3
      <3>2. QED BY <1>1, <2>1, <2>4, <3>1 DEF SessionGoesOn
    <2>8. QED BY <1>1, <2>3, <2>5, <2>6, <2>7, SameExchanges
  <1>3. CASE Expire
    <2>1. UNCHANGED <<toServer, toClient>> /\ toServer = <<>> /\ toClient = <<>> /\ stored' = FALSE
          /\ state # "RUNNING"
      BY <1>3 DEF Expire, wireVars, LinkCarries
    <2>2. ~SessionGoesOn'
      <3>1. ~Accepted'
        BY <2>1 DEF Accepted, Arriving
      <3>2. QED BY <1>1, <2>1, <3>1 DEF SessionGoesOn
    <2>3. DOMAIN sent' = {}
      BY <1>3, EmptyMapType DEF Expire
    <2>4. QED BY <2>1, <2>2, <2>3, NoneCarried DEF InboundExchange, OneOfferPerId,
             ReleasedAtQoS2, IncomingsMatch, AnswersMatch, InboundAgrees
  <1>4. QED BY <1>2, <1>3

(* A new session has nothing to offer, and a client that stored something does
   not go on with it. *)
LEMMA AcceptNewInbound ==
  ASSUME Shared, InboundExchange, AcceptNew, BrokerOnly PROVE InboundExchange'
  <1> USE DEF Shared
  <1>1. /\ state = "TCP_CONNECTED" /\ toClient = <<>> /\ Incoming("CONNECT") /\ Read
        /\ Head(toServer).clean = ~HaveSessionData
    BY AskedNow DEF AcceptNew
  <1>2. UNCHANGED <<inbound, dispatched, state>>
    BY DEF BrokerOnly, sessionVars
  <1>3. PICK rmax \in ReceiveMaxima, present \in BOOLEAN :
          /\ toClient' = toClient \o <<Connack(TRUE, present, rmax)>>
          /\ present => Head(toServer).clean
    BY DEF AcceptNew
  <1>4. PICK c : c = Connack(TRUE, present, rmax)
    OBVIOUS
  <1>5. toClient' = <<c>> /\ c.type \notin Offering /\ c.present = present
    BY <1>1, <1>3, <1>4, OfferingTypes DEF Connack
  <1>6. Incomings' = {} /\ OncePerId(toClient', Offering)
    BY <1>5, CarriedOne DEF Incomings
  <1>7. Answers' = {} /\ OncePerId(toServer', Accepting)
    BY <1>1, SilentBefore, ReadCarried, OfferingTypes DEF Answers
  <1>8. ~SessionGoesOn' \/ inbound' = {}
    <2>1. CASE present
      BY <1>1, <1>2, <1>3, <2>1 DEF HaveSessionData
    <2>2. CASE ~present
      <3>1. toClient' # <<>> /\ toClient'[1] = c
        BY <1>5
      <3>2. QED BY <1>1, <1>2, <1>5, <2>2, <3>1 DEF SessionGoesOn
    <2>3. QED BY <2>1, <2>2
  <1>9. DOMAIN sent' = {}
    BY EmptyMapType DEF AcceptNew
  <1>10. QED BY <1>6, <1>7, <1>8, <1>9 DEF InboundExchange, OneOfferPerId, ReleasedAtQoS2,
            IncomingsMatch, AnswersMatch, InboundAgrees

(* A resumed session offers again what is not finished, and the client answers
   nothing before. *)
LEMMA RetransmissionOffers ==
  ASSUME TypeOK, NEW order \in Ascending(DOMAIN sent)
  PROVE  /\ Retransmission(order) \in Seq(ClientBound)
         /\ OncePerId(Retransmission(order), Offering)
         /\ \A p \in Carried(Retransmission(order), Offering) :
              /\ p.id \in DOMAIN sent
              /\ p.type = "PUBREL" <=> sent[p.id].released
              /\ p.type = "PUBLISH" => p.qos = sent[p.id].qos /\ p.msg = sent[p.id].msg
  <1> DEFINE r == Retransmission(order)
  <1>1. r \in Seq(ClientBound)
    BY RetransmissionType, WireAssumption DEF TypeOK
  <1>2. DOMAIN sent \subseteq InIds /\ IsFiniteSet(DOMAIN sent)
    BY WireAssumption, FS_Subset DEF TypeOK, BrokerTypeOK
  <1>3. Cardinality(DOMAIN sent) \in Nat
    BY <1>2, FS_CardinalityType
  <1>4. /\ order \in [1 .. Cardinality(DOMAIN sent) -> DOMAIN sent]
        /\ \A i, j \in 1 .. Cardinality(DOMAIN sent) : i < j => order[i] < order[j]
    BY DEF Ascending
  <1>5. \A i, j \in DOMAIN order : order[i] = order[j] => i = j
    <2>1. SUFFICES ASSUME NEW i \in DOMAIN order, NEW j \in DOMAIN order, i < j
                   PROVE  order[i] # order[j]
      BY <1>3, <1>4
    <2>2. order[i] \in Nat /\ order[j] \in Nat /\ order[i] < order[j]
      BY <1>2, <1>4, <2>1, WireAssumption
    <2>3. QED BY <2>2
  <1>6. /\ DOMAIN r = DOMAIN order
        /\ \A i \in DOMAIN order :
             r[i] = IF sent[order[i]].released THEN Ack("PUBREL", order[i])
                    ELSE Publish(order[i], sent[order[i]].qos, sent[order[i]].msg)
    BY DEF Retransmission
  <1> HIDE DEF r
  <1>7. \A i \in DOMAIN order :
          /\ r[i].id = order[i] /\ order[i] \in DOMAIN sent
          /\ r[i].type = "PUBREL" <=> sent[order[i]].released
          /\ r[i].type = "PUBLISH" =>
               r[i].qos = sent[order[i]].qos /\ r[i].msg = sent[order[i]].msg
    <2>1. SUFFICES ASSUME NEW i \in DOMAIN order
                   PROVE  /\ r[i].id = order[i] /\ order[i] \in DOMAIN sent
                          /\ r[i].type = "PUBREL" <=> sent[order[i]].released
                          /\ r[i].type = "PUBLISH" =>
                               r[i].qos = sent[order[i]].qos /\ r[i].msg = sent[order[i]].msg
      OBVIOUS
    <2>2. order[i] \in DOMAIN sent
      BY <1>4
    <2>3. CASE sent[order[i]].released
      BY <1>6, <2>2, <2>3 DEF Ack
    <2>4. CASE ~sent[order[i]].released
      BY <1>6, <2>2, <2>4 DEF Publish
    <2>5. QED BY <2>3, <2>4
  <1>8. OncePerId(r, Offering)
    BY <1>5, <1>6, <1>7 DEF OncePerId
  <1>9. \A p \in Carried(r, Offering) : \E i \in DOMAIN order : p = r[i]
    BY <1>6 DEF Carried, Range
  <1>10. \A p \in Carried(r, Offering) :
           /\ p.id \in DOMAIN sent
           /\ p.type = "PUBREL" <=> sent[p.id].released
           /\ p.type = "PUBLISH" => p.qos = sent[p.id].qos /\ p.msg = sent[p.id].msg
    BY <1>7, <1>9
  <1>11. QED BY <1>1, <1>8, <1>10 DEF r

LEMMA AcceptResumeInbound ==
  ASSUME Shared, InboundExchange, AcceptResume, BrokerOnly PROVE InboundExchange'
  <1> USE DEF Shared
  <1>1. /\ state = "TCP_CONNECTED" /\ toClient = <<>> /\ Incoming("CONNECT") /\ Read
        /\ linkUp /\ stored
    BY AskedNow DEF AcceptResume, Incoming
  <1>2. UNCHANGED <<inbound, dispatched, sent>>
    BY DEF AcceptResume, BrokerOnly, sessionVars
  <1>3. PICK rmax \in ReceiveMaxima, order \in Ascending(DOMAIN sent) :
          toClient' = (toClient \o <<Connack(TRUE, TRUE, rmax)>>) \o Retransmission(order)
    BY DEF AcceptResume
  <1>4. PICK c \in ClientBound : c = Connack(TRUE, TRUE, rmax)
    BY ClientBoundPackets
  <1>5. PICK r : r = Retransmission(order)
    OBVIOUS
  <1>6. /\ r \in Seq(ClientBound) /\ OncePerId(r, Offering)
        /\ \A p \in Carried(r, Offering) :
              /\ p.id \in DOMAIN sent
              /\ p.type = "PUBREL" <=> sent[p.id].released
              /\ p.type = "PUBLISH" => p.qos = sent[p.id].qos /\ p.msg = sent[p.id].msg
    BY <1>5, RetransmissionOffers
  <1>7. <<c>> \in Seq(ClientBound) /\ toClient' = <<c>> \o r
    <2>1. toClient' = (<<>> \o <<c>>) \o r
      BY <1>1, <1>3, <1>4, <1>5
    <2>2. QED BY <2>1
  <1>8. Carried(<<c>>, Offering) = {} /\ OncePerId(<<c>>, Offering)
    BY <1>4, CarriedOne, OfferingTypes DEF Connack
  <1>9. Carried(<<c>> \o r, Offering) = Carried(r, Offering) /\ OncePerId(<<c>> \o r, Offering)
    <2>1. PICK q : q = <<c>>
      OBVIOUS
    <2>2. q \in Seq(ClientBound) /\ r \in Seq(ClientBound)
      BY <1>6, <1>7, <2>1
    <2>3. Carried(q, Offering) = {} /\ OncePerId(q, Offering) /\ OncePerId(r, Offering)
      BY <1>6, <1>8, <2>1
    <2>4. Carried(q \o r, Offering) = Carried(q, Offering) \cup Carried(r, Offering)
      BY <2>2, CarriedConcat
    <2>5. OncePerId(q \o r, Offering)
      BY <2>2, <2>3, OnceConcat
    <2>6. QED BY <2>1, <2>3, <2>4, <2>5
  <1>10. Incomings' = Carried(r, Offering) /\ OncePerId(toClient', Offering)
    BY <1>7, <1>9 DEF Incomings
  <1>11. Answers' = {} /\ OncePerId(toServer', Accepting)
    BY <1>1, SilentBefore, ReadCarried, OfferingTypes DEF Answers
  <1>12. SessionGoesOn
    BY <1>1 DEF SessionGoesOn
  <1>13. OneOfferPerId' /\ ReleasedAtQoS2' /\ AnswersMatch' /\ InboundAgrees'
    BY <1>2, <1>10, <1>11, <1>12 DEF InboundExchange, OneOfferPerId, ReleasedAtQoS2,
       AnswersMatch, InboundAgrees
  <1>14. IncomingsMatch'
    BY <1>2, <1>6, <1>10 DEF InboundExchange, ReleasedAtQoS2, IncomingsMatch
  <1>15. QED BY <1>13, <1>14, InboundParts, PTL

-----------------------------------------------------------------------------
(* The steps of the broker's exchanges. *)

LEMMA AnswerSent ==
  ASSUME TypeOK, OncePerId(toServer, Accepting), NEW p \in ServerBound, p.type \in Accepting,
         \A a \in Answers : a.id # p.id, Send(<<p>>)
  PROVE  Answers' \subseteq Answers \cup {p} /\ OncePerId(toServer', Accepting)
  <1>1. toServer \in Seq(ServerBound)
    BY DEF TypeOK, WireTypeOK
  <1>2. toServer' = toServer \/ toServer' = Append(toServer, p)
    BY <1>1, AppendConcat DEF Send
  <1>3. /\ Carried(Append(toServer, p), Accepting)
             = Carried(toServer, Accepting) \cup (IF p.type \in Accepting THEN {p} ELSE {})
        /\ OncePerId(toServer, Accepting)
             /\ (p.type \in Accepting => \A a \in Carried(toServer, Accepting) : a.id # p.id)
             => OncePerId(Append(toServer, p), Accepting)
    BY <1>1, CarriedAppend
  <1>4. QED BY <1>2, <1>3 DEF Answers

LEMMA OfferSent ==
  ASSUME TypeOK, OncePerId(toClient, Offering), NEW p \in ClientBound, p.type \in Offering,
         \A b \in Incomings : b.id # p.id, toClient' = Append(toClient, p)
  PROVE  Incomings' = Incomings \cup {p} /\ OncePerId(toClient', Offering)
  <1>1. toClient \in Seq(ClientBound)
    BY DEF TypeOK, WireTypeOK
  <1>2. /\ Carried(Append(toClient, p), Offering)
             = Carried(toClient, Offering) \cup (IF p.type \in Offering THEN {p} ELSE {})
        /\ OncePerId(toClient, Offering)
             /\ (p.type \in Offering => \A b \in Carried(toClient, Offering) : b.id # p.id)
             => OncePerId(Append(toClient, p), Offering)
    BY <1>1, CarriedAppend
  <1>3. QED BY <1>2 DEF Incomings

(* The client handles a packet of an exchange and answers it. *)
LEMMA AnswerExchange ==
  ASSUME TypeOK, InboundExchange, state = "RUNNING",
         NEW h \in Incomings, Incomings = Incomings' \cup {h}, \A p \in Incomings' : p.id # h.id,
         OncePerId(toClient', Offering),
         NEW a, a.id = h.id, Answers' \subseteq Answers \cup {a}, OncePerId(toServer', Accepting),
         UNCHANGED sent, \A m \in InMsg : dispatched[m] > 0 => dispatched'[m] > 0,
         inbound' \subseteq inbound \cup {h.id},
         a.type = "PUBACK" <=> sent[h.id].qos = 1,
         a.type = "PUBCOMP" => h.id \notin inbound',
         a.type # "PUBCOMP" => dispatched'[sent[h.id].msg] > 0,
         h.id \in inbound' => sent[h.id].qos = 2 /\ dispatched'[sent[h.id].msg] > 0
  PROVE  InboundExchange'
  <1> USE InboundParts
  <1>1. \A id \in DOMAIN sent : sent[id].msg \in InMsg
    BY DEF TypeOK, BrokerTypeOK, SentEntry
  <1>2. h.id \in DOMAIN sent
    BY DEF IncomingsMatch
  <1>3. \A b \in Answers : b.id # h.id
    BY DEF OneOfferPerId
  <1>4. OneOfferPerId'
    BY DEF OneOfferPerId
  <1>5. IncomingsMatch' /\ ReleasedAtQoS2'
    BY DEF IncomingsMatch, ReleasedAtQoS2
  <1>6. AnswersMatch'
    <2>1. SUFFICES ASSUME NEW b \in Answers'
                   PROVE  /\ b.id \in DOMAIN sent
                          /\ b.type = "PUBACK" <=> sent[b.id].qos = 1
                          /\ b.type = "PUBCOMP" => b.id \notin inbound'
                          /\ b.type # "PUBCOMP" => dispatched'[sent[b.id].msg] > 0
      BY DEF AnswersMatch
    <2>2. CASE b = a
      BY <1>2, <2>2
    <2>3. CASE b \in Answers
      <3>1. /\ b.id \in DOMAIN sent
            /\ b.type = "PUBACK" <=> sent[b.id].qos = 1
            /\ b.type = "PUBCOMP" => b.id \notin inbound
            /\ b.type # "PUBCOMP" => dispatched[sent[b.id].msg] > 0
        BY <2>3 DEF AnswersMatch
      <3>2. b.id # h.id
        BY <1>3, <2>3
      <3>3. sent[b.id].msg \in InMsg
        BY <1>1, <3>1
      <3>4. QED BY <3>1, <3>2, <3>3
    <2>4. QED BY <2>2, <2>3
  <1>7. InboundAgrees'
    <2>1. SUFFICES ASSUME NEW id \in inbound'
                   PROVE  id \in DOMAIN sent /\ sent[id].qos = 2 /\ dispatched'[sent[id].msg] > 0
      BY DEF InboundAgrees
    <2>2. CASE id = h.id
      BY <1>2, <2>2
    <2>3. CASE id \in inbound
      BY <1>1, <2>3 DEF InboundAgrees, SessionGoesOn
    <2>4. QED BY <2>2, <2>3
  <1>8. QED BY <1>4, <1>5, <1>6, <1>7, InboundParts, PTL

LEMMA HandlePublishInbound ==
  ASSUME Shared, InboundExchange, HandlePublish, ClientOnly PROVE InboundExchange'
  <1> USE DEF Shared
  <1>1. PICK h : h = Head(toClient)
    OBVIOUS
  <1>2. Receive("PUBLISH") /\ Consume /\ UNCHANGED sent
    BY DEF HandlePublish, ClientOnly, brokerVars
  <1>3. state = "RUNNING"
    BY HandlerRunning DEF DataHandler
  <1>4. /\ h \in Incomings /\ Incomings = Incomings' \cup {h} /\ \A p \in Incomings' : p.id # h.id
        /\ OncePerId(toClient', Offering) /\ h.type = "PUBLISH" /\ h \in ClientBound
    <2>1. "PUBLISH" \in Offering
      BY DEF Offering
    <2>2. QED BY <1>1, <1>2, <2>1, ReceiveCarried, InboundParts DEF OneOfferPerId, Incomings
  <1>5. h.id \in InIds /\ h.qos \in QoS /\ h.msg \in InMsg
    BY <1>4, ClientBoundFields, WireAssumption
  <1>6. h.id \in DOMAIN sent /\ h.qos = sent[h.id].qos /\ h.msg = sent[h.id].msg
    BY <1>4, InboundParts DEF IncomingsMatch
  <1>7. /\ dispatched \in [InMsg -> Nat]
        /\ dispatched' = [dispatched EXCEPT ![h.msg] = @ + 1]
    BY <1>1 DEF HandlePublish, Despatch, TypeOK, SessionTypeOK
  <1>8. dispatched'[h.msg] > 0 /\ \A m \in InMsg : dispatched[m] > 0 => dispatched'[m] > 0
    <2>1. dispatched'[h.msg] > 0 /\ \A m \in InMsg : dispatched'[m] >= dispatched[m]
      BY <1>5, <1>7, CountOne
    <2>2. \A m \in InMsg : dispatched[m] \in Nat /\ dispatched'[m] \in Nat
      BY <1>7
    <2>3. QED BY <2>1, <2>2
  <1>9. PICK a \in ServerBound :
          /\ a.id = h.id /\ a.type \in {"PUBACK", "PUBREC"} /\ Send(<<a>>)
          /\ a.type = "PUBACK" <=> h.qos = 1
          /\ inbound' = inbound \cup (IF h.qos = 2 THEN {h.id} ELSE {})
    <2>1. CASE h.qos = 1
      <3>1. Ack("PUBACK", h.id) \in ServerBound /\ Ack("PUBACK", h.id).id = h.id
            /\ Ack("PUBACK", h.id).type = "PUBACK"
        BY <1>5, AnswerPackets DEF Ack
      <3>2. Send(<<Ack("PUBACK", h.id)>>) /\ inbound' = inbound
        BY <1>1, <2>1 DEF HandlePublish
      <3>3. QED BY <2>1, <3>1, <3>2
    <2>2. CASE h.qos = 2
      <3>1. Ack("PUBREC", h.id) \in ServerBound /\ Ack("PUBREC", h.id).id = h.id
            /\ Ack("PUBREC", h.id).type = "PUBREC"
        BY <1>5, AnswerPackets DEF Ack
      <3>2. Send(<<Ack("PUBREC", h.id)>>) /\ inbound' = inbound \cup {h.id}
        BY <1>1, <2>2 DEF HandlePublish
      <3>3. QED BY <2>2, <3>1, <3>2
    <2>3. QED BY <1>5, <2>1, <2>2 DEF QoS
  <1>10. Answers' \subseteq Answers \cup {a} /\ OncePerId(toServer', Accepting)
    <2>1. a.type \in Accepting /\ \A b \in Answers : b.id # a.id
      BY <1>4, <1>9, InboundParts DEF Accepting, OneOfferPerId
    <2>2. QED BY <1>9, <2>1, AnswerSent, InboundParts DEF OneOfferPerId
  <1>11. h.id \in inbound' => sent[h.id].qos = 2
    BY <1>3, <1>6, <1>9, InboundParts DEF InboundAgrees, SessionGoesOn
  <1>12. inbound' \subseteq inbound \cup {h.id}
    BY <1>9
  <1>13. QED BY <1>2, <1>3, <1>4, <1>6, <1>8, <1>9, <1>10, <1>11, <1>12, AnswerExchange

LEMMA PubrelInbound ==
  ASSUME Shared, InboundExchange, Pubrel, ClientOnly PROVE InboundExchange'
  <1> USE DEF Shared
  <1>1. PICK h : h = Head(toClient)
    OBVIOUS
  <1>2. Receive("PUBREL") /\ Consume /\ UNCHANGED <<sent, dispatched>>
    BY DEF Pubrel, ClientOnly, brokerVars
  <1>3. state = "RUNNING"
    BY HandlerRunning DEF DataHandler
  <1>4. /\ h \in Incomings /\ Incomings = Incomings' \cup {h} /\ \A p \in Incomings' : p.id # h.id
        /\ OncePerId(toClient', Offering) /\ h.type = "PUBREL" /\ h \in ClientBound
    <2>1. "PUBREL" \in Offering
      BY DEF Offering
    <2>2. QED BY <1>1, <1>2, <2>1, ReceiveCarried, InboundParts DEF OneOfferPerId, Incomings
  <1>5. h.id \in InIds
    BY <1>4, ClientBoundFields, WireAssumption
  <1>6. sent[h.id].qos = 2
    BY <1>4, InboundParts DEF IncomingsMatch
  <1>7. PICK a \in ServerBound : a.id = h.id /\ a.type = "PUBCOMP" /\ Send(<<a>>)
    <2>1. Ack("PUBCOMP", h.id) \in ServerBound /\ Ack("PUBCOMP", h.id).id = h.id
          /\ Ack("PUBCOMP", h.id).type = "PUBCOMP"
      BY <1>5, AnswerPackets DEF Ack
    <2>2. QED BY <1>1, <2>1 DEF Pubrel
  <1>8. Answers' \subseteq Answers \cup {a} /\ OncePerId(toServer', Accepting)
    <2>1. a.type \in Accepting /\ \A b \in Answers : b.id # a.id
      BY <1>4, <1>7, InboundParts DEF Accepting, OneOfferPerId
    <2>2. QED BY <1>7, <2>1, AnswerSent, InboundParts DEF OneOfferPerId
  <1>9. inbound' = inbound \ {h.id}
    BY <1>1 DEF Pubrel
  <1>10. QED BY <1>2, <1>3, <1>4, <1>6, <1>7, <1>8, <1>9, AnswerExchange

LEMMA BrokerPublishInbound ==
  ASSUME Shared, InboundExchange, NEW qos \in QoS, BrokerPublish(qos), BrokerOnly
  PROVE  InboundExchange'
  <1> USE DEF Shared
  <1>1. PICK id \in InIds \ DOMAIN sent :
          /\ sent' = Put(sent, id, [qos |-> qos, msg |-> nextIn', released |-> FALSE])
          /\ toClient' = Append(toClient, Publish(id, qos, nextIn'))
    BY DEF BrokerPublish
  <1>2. PICK p \in ClientBound : p = Publish(id, qos, nextIn')
    <2>1. nextIn' \in InMsg
      BY WireAssumption DEF TypeOK, BrokerTypeOK, BrokerPublish, InMsg
    <2>2. QED BY <1>1, <2>1, ClientBoundPackets
  <1>3. p.type = "PUBLISH" /\ p.id = id /\ p.qos = qos /\ p.msg = nextIn'
    BY <1>2 DEF Publish
  <1>4. /\ DOMAIN sent' = DOMAIN sent \cup {id} /\ \A i \in DOMAIN sent : sent'[i] = sent[i]
        /\ sent'[id].qos = qos /\ sent'[id].msg = nextIn' /\ ~sent'[id].released
    BY <1>1 DEF Put
  <1>5. UNCHANGED <<linkUp, toServer, state, stored, inbound, dispatched>> /\ open
    BY DEF BrokerPublish, BrokerOnly, sessionVars
  <1>6. /\ \A b \in Incomings : b.id \in DOMAIN sent /\ b.id # id
        /\ \A a \in Answers : a.id \in DOMAIN sent /\ a.id # id
    BY <1>1, InboundParts DEF IncomingsMatch, AnswersMatch
  <1>7. Incomings' = Incomings \cup {p} /\ OncePerId(toClient', Offering)
    <2>1. "PUBLISH" \in Offering
      BY DEF Offering
    <2>2. QED BY <1>1, <1>2, <1>3, <1>6, <2>1, OfferSent, InboundParts DEF OneOfferPerId
  <1>8. Answers' = Answers /\ OncePerId(toServer', Accepting)
    BY <1>5, InboundParts DEF OneOfferPerId, Answers
  <1>9. SessionGoesOn' => SessionGoesOn
    <2>1. CASE state = "RUNNING"
      BY <2>1 DEF SessionGoesOn
    <2>2. CASE state # "RUNNING"
      <3>1. Accepted
        BY <1>5, <2>2 DEF InPhase, Running, NotAsked, Asked, Refused
      <3>2. toClient \in Seq(ClientBound) /\ 1 \in DOMAIN toClient
        BY <3>1 DEF TypeOK, WireTypeOK, Accepted, Arriving
      <3>3. toClient' # <<>> /\ toClient'[1] = toClient[1]
        BY <1>1, <1>2, <3>2
      <3>4. state = "TCP_CONNECTED"
        BY <3>1 DEF Accepted
      <3>5. QED BY <1>5, <3>1, <3>3, <3>4 DEF SessionGoesOn
    <2>3. QED BY <2>1, <2>2
  <1>10. OneOfferPerId'
    BY <1>3, <1>6, <1>7, <1>8, InboundParts DEF OneOfferPerId
  <1>11. IncomingsMatch'
    BY <1>3, <1>4, <1>7, InboundParts DEF IncomingsMatch
  <1>12. AnswersMatch' /\ ReleasedAtQoS2'
    BY <1>4, <1>5, <1>8, InboundParts DEF AnswersMatch, ReleasedAtQoS2
  <1>13. InboundAgrees'
    BY <1>4, <1>5, <1>9, InboundParts DEF InboundAgrees
  <1>14. QED BY <1>10, <1>11, <1>12, <1>13, InboundParts, PTL

(* The broker reads an answer. *)
LEMMA ReadAnswer ==
  ASSUME Shared, InboundExchange, NEW type \in Accepting, Incoming(type), Read
  PROVE  /\ Head(toServer) \in Answers /\ Head(toServer).type = type
         /\ Answers = Answers' \cup {Head(toServer)}
         /\ \A a \in Answers' : a.id # Head(toServer).id
         /\ OncePerId(toServer', Accepting) /\ state = "RUNNING"
  <1>1. state = "RUNNING"
    BY OnlyConnect, OfferingTypes DEF Shared
  <1>2. QED BY <1>1, ReadCarried, InboundParts DEF Shared, OneOfferPerId, Answers

LEMMA EndOfferInbound ==
  ASSUME Shared, InboundExchange, ReceivePubackPubcomp, BrokerOnly PROVE InboundExchange'
  <1> USE InboundParts
  <1>1. PICK type \in {"PUBACK", "PUBCOMP"} : Incoming(type)
    BY DEF ReceivePubackPubcomp
  <1>2. PICK h : h = Head(toServer)
    OBVIOUS
  <1>3. /\ h \in Answers /\ h.type = type /\ Answers = Answers' \cup {h}
        /\ \A a \in Answers' : a.id # h.id
        /\ OncePerId(toServer', Accepting) /\ state = "RUNNING"
    <2>1. type \in Accepting /\ Read
      BY DEF Accepting, ReceivePubackPubcomp
    <2>2. QED BY <1>1, <1>2, <2>1, ReadAnswer
  <1>4. UNCHANGED <<toClient, state, inbound, dispatched>>
    BY DEF ReceivePubackPubcomp, BrokerOnly, sessionVars
  <1>5. /\ DOMAIN sent' = DOMAIN sent \ {h.id} /\ \A id \in DOMAIN sent' : sent'[id] = sent[id]
    BY <1>2 DEF ReceivePubackPubcomp, Drop, Restrict
  <1>6. Incomings' = Incomings /\ OncePerId(toClient', Offering)
    BY <1>4 DEF OneOfferPerId, Incomings
  <1>7. \A p \in Incomings : p.id # h.id
    BY <1>3 DEF OneOfferPerId
  <1>8. h.id \notin inbound
    <2>1. CASE h.type = "PUBACK"
      <3>1. sent[h.id].qos = 1
        BY <1>3, <2>1 DEF AnswersMatch
      <3>2. QED BY <1>3, <3>1 DEF InboundAgrees, SessionGoesOn
    <2>2. CASE h.type = "PUBCOMP"
      BY <1>3, <2>2 DEF AnswersMatch
    <2>3. QED BY <1>3, <2>1, <2>2
  <1>9. OneOfferPerId' /\ ReleasedAtQoS2'
    BY <1>3, <1>5, <1>6 DEF OneOfferPerId, ReleasedAtQoS2
  <1>10. IncomingsMatch'
    BY <1>5, <1>6, <1>7 DEF IncomingsMatch
  <1>11. AnswersMatch'
    BY <1>3, <1>4, <1>5 DEF AnswersMatch
  <1>12. InboundAgrees'
    BY <1>3, <1>4, <1>5, <1>8 DEF InboundAgrees, SessionGoesOn
  <1>13. QED BY <1>9, <1>10, <1>11, <1>12, InboundParts, PTL

LEMMA ReceivePubrecInbound ==
  ASSUME Shared, InboundExchange, ReceivePubrec, BrokerOnly PROVE InboundExchange'
  <1> USE InboundParts
  <1>1. PICK h : h = Head(toServer)
    OBVIOUS
  <1>2. /\ h \in Answers /\ h.type = "PUBREC" /\ Answers = Answers' \cup {h}
        /\ \A a \in Answers' : a.id # h.id
        /\ OncePerId(toServer', Accepting) /\ state = "RUNNING"
    <2>1. "PUBREC" \in Accepting /\ Read /\ Incoming("PUBREC")
      BY DEF Accepting, ReceivePubrec
    <2>2. QED BY <1>1, <2>1, ReadAnswer
  <1>3. UNCHANGED <<state, inbound, dispatched>>
    BY DEF ReceivePubrec, BrokerOnly, sessionVars
  <1>4. DOMAIN sent \subseteq InIds /\ \A i \in DOMAIN sent : sent[i] \in SentEntry
    BY DEF Shared, TypeOK, BrokerTypeOK
  <1>5. h.id \in DOMAIN sent /\ sent[h.id].qos = 2
    <2>1. h.id \in DOMAIN sent /\ sent[h.id].qos # 1
      BY <1>2 DEF AnswersMatch
    <2>2. QED BY <1>4, <2>1 DEF SentEntry, QoS
  <1>6. /\ DOMAIN sent' = DOMAIN sent
        /\ \A id \in DOMAIN sent : id # h.id => sent'[id] = sent[id]
        /\ \A id \in DOMAIN sent : sent'[id].qos = sent[id].qos /\ sent'[id].msg = sent[id].msg
        /\ sent'[h.id].released
    BY <1>1, <1>4, <1>5 DEF ReceivePubrec, SentEntry
  <1>7. PICK p \in ClientBound : p = Ack("PUBREL", h.id)
    BY <1>4, <1>5, ClientBoundPackets
  <1>8. p.type = "PUBREL" /\ p.id = h.id /\ toClient' = Append(toClient, p)
    BY <1>1, <1>5, <1>7 DEF ReceivePubrec, Ack
  <1>9. \A b \in Incomings : b.id # h.id
    BY <1>2 DEF OneOfferPerId
  <1>10. Incomings' = Incomings \cup {p} /\ OncePerId(toClient', Offering)
    <2>1. "PUBREL" \in Offering
      BY DEF Offering
    <2>2. QED BY <1>8, <1>9, <2>1, OfferSent DEF Shared, OneOfferPerId
  <1>11. OneOfferPerId'
    BY <1>2, <1>8, <1>10 DEF OneOfferPerId
  <1>12. ReleasedAtQoS2'
    BY <1>5, <1>6 DEF ReleasedAtQoS2
  <1>13. IncomingsMatch'
    BY <1>5, <1>6, <1>8, <1>9, <1>10 DEF IncomingsMatch
  <1>14. AnswersMatch'
    BY <1>2, <1>3, <1>6 DEF AnswersMatch
  <1>15. InboundAgrees'
    BY <1>2, <1>3, <1>6 DEF InboundAgrees, SessionGoesOn
  <1>16. QED BY <1>11, <1>12, <1>13, <1>14, <1>15, InboundParts, PTL

-----------------------------------------------------------------------------
LEMMA InitInbound == Init => InboundExchange
  <1> SUFFICES ASSUME Init PROVE InboundExchange
    OBVIOUS
  <1>1. toServer = <<>> /\ toClient = <<>> /\ inbound = {} /\ DOMAIN sent = {}
    BY EmptyMapType DEF Init, WireInit, SessionInit, BrokerInit
  <1>2. /\ Answers = {} /\ Incomings = {}
        /\ OncePerId(toServer, Accepting) /\ OncePerId(toClient, Offering)
    BY <1>1, CarriedEmpty DEF Answers, Incomings
  <1>3. QED BY <1>1, <1>2 DEF InboundExchange, OneOfferPerId, ReleasedAtQoS2, IncomingsMatch,
           AnswersMatch, InboundAgrees

LEMMA NextInbound == Shared /\ InboundExchange /\ [InTurn]_vars => InboundExchange'
  <1> SUFFICES ASSUME Shared, InboundExchange, [InTurn]_vars PROVE InboundExchange'
    OBVIOUS
  <1>1. CASE ClientStep
    BY <1>1, NextShared, EstablishInbound, ConnackInbound, OtherHandlerInbound, PubrelInbound,
       HandlePublishInbound, LostInbound DEF ClientStep
  <1>2. CASE Establish
    BY <1>2, NextShared, EstablishInbound
  <1>3. CASE Application
    BY <1>3, ApplicationInbound
  <1>4. CASE BrokerStep
    BY <1>4, AcceptResumeInbound, AcceptNewInbound, ReaderInbound, AnswerInbound,
       EndOfferInbound, ReceivePubrecInbound DEF BrokerStep
  <1>5. CASE BrokerChoice
    BY <1>5, RefuseInbound, ReaderInbound, BrokerPublishInbound DEF BrokerChoice
  <1>6. CASE NetworkDrops \/ BrokerCloses
    BY <1>6, LostInbound
  <1>7. CASE UNCHANGED vars
    <2>1. /\ UNCHANGED <<toServer, toClient, linkUp, state, connectQueued, stored>>
          /\ UNCHANGED <<outbound, inbound, sent, dispatched>>
      BY <1>7 DEF vars, wireVars, sessionVars, brokerVars
    <2>2. Answers' = Answers /\ Incomings' = Incomings
      BY <2>1 DEF Answers, Incomings
    <2>3. SessionGoesOn' => SessionGoesOn
      BY <2>1 DEF SessionGoesOn, Accepted, Arriving, HaveSessionData
    <2>4. QED BY <2>1, <2>2, <2>3, SameExchanges, InboundParts DEF OneOfferPerId
  <1>8. CASE Overtaken
    <2>1. /\ UNCHANGED <<toServer, state, stored, inbound, sent, dispatched>>
          /\ state = "RUNNING"
      BY <1>8 DEF Overtaken, sessionVars, brokerVars
    <2>2. PICK i \in 1 .. Len(toClient) - 1 : toClient' = Exchanged(toClient, i)
      BY <1>8 DEF Overtaken, Exchanged
    <2>3. Incomings' = Incomings /\ OncePerId(toClient', Offering)
      BY <2>2, ExchangedCarried, InboundParts
      DEF Shared, TypeOK, WireTypeOK, OneOfferPerId, Incomings
    <2>4. Answers' = Answers
      BY <2>1 DEF Answers
    <2>5. SessionGoesOn' => SessionGoesOn
      BY <2>1 DEF SessionGoesOn
    <2>6. QED BY <2>1, <2>3, <2>4, <2>5, SameExchanges, InboundParts DEF OneOfferPerId
  <1>9. QED BY <1>1, <1>2, <1>3, <1>4, <1>5, <1>6, <1>7, <1>8 DEF InTurn

(* The broker's exchanges stand where its packets, the identifiers the client
   keeps and the client's answers agree they do, until a packet is handled after
   the end of its connection. *)
THEOREM InboundInvariant == Spec => [](outlived \/ InboundExchange)
  <1> DEFINE Inv == TypeOK /\ (outlived \/ (Shared /\ InboundExchange))
  <1>1. Init => Inv
    BY InitShared, InitInbound DEF Shared
  <1>2. Inv /\ [Next]_vars => Inv'
    <2> SUFFICES ASSUME Inv, [Next]_vars PROVE Inv'
      OBVIOUS
    <2>1. TypeOK'
      BY NextType
    <2>2. ([InTurn]_vars /\ outlived' = outlived) \/ outlived'
      BY OutlivedStays
    <2>3. QED BY <2>1, <2>2, NextShared, NextInbound
  <1>3. Inv => outlived \/ InboundExchange
    OBVIOUS
  <1>4. QED BY <1>1, <1>2, <1>3, PTL DEF Spec

(* A message from the broker is acknowledged (_handlePublish) only after
   _hpDespatch gave it to the application, also across lost connections, as long
   as no packet outlives one. *)
THEOREM AcknowledgedIsDispatched == Spec => [](outlived \/ AcknowledgedWasDispatched)
  <1>1. InboundExchange => AcknowledgedWasDispatched
    <2>1. SUFFICES ASSUME InboundExchange,
                          NEW i \in Leaving("PUBACK") \cup Leaving("PUBREC")
                   PROVE  toServer[i].id \in DOMAIN sent
                          /\ dispatched[sent[toServer[i].id].msg] > 0
      BY DEF AcknowledgedWasDispatched
    <2>2. toServer[i] \in Answers /\ toServer[i].type # "PUBCOMP"
      BY <2>1 DEF Leaving, Answers, Carried, Range, Accepting
    <2>3. QED BY <2>1, <2>2, InboundParts DEF AnswersMatch
  <1>2. QED BY <1>1, InboundInvariant, PTL

(* No message the application has not seen arrives under an identifier that
   _inbound holds: the test for a second copy in _handlePublish could not drop a
   first one, as long as no packet outlives its connection. *)
THEOREM FreshIsNew == Spec => [](outlived \/ FreshInbound)
  <1>1. InboundExchange => FreshInbound
    <2>1. SUFFICES ASSUME InboundExchange, state = "RUNNING", NEW i \in Arriving("PUBLISH"),
                          dispatched[toClient[i].msg] = 0
                   PROVE  toClient[i].id \notin inbound
      BY DEF FreshInbound
    <2>2. toClient[i] \in Incomings /\ toClient[i].type = "PUBLISH"
      BY DEF Arriving, Incomings, Carried, Range, Offering
    <2>3. toClient[i].msg = sent[toClient[i].id].msg
      BY <2>1, <2>2, InboundParts DEF IncomingsMatch
    <2>4. QED BY <2>1, <2>3, InboundParts DEF InboundAgrees, SessionGoesOn
  <1>2. QED BY <1>1, InboundInvariant, PTL

(* _inbound keeps no identifier of an exchange the broker has finished, as long
   as no packet outlives its connection. *)
THEOREM InboundNeverLeaks == Spec => [](outlived \/ NoInboundLeak)
  <1>1. InboundExchange => NoInboundLeak
    BY InboundParts DEF InboundAgrees, SessionGoesOn, NoInboundLeak
  <1>2. QED BY <1>1, InboundInvariant, PTL
=============================================================================
