----------------------------- MODULE TopicAlias -----------------------------
(***************************************************************************)
(* Topic aliases.  Outgoing: a publish is built with an alias for its      *)
(* topic, or with an alias in place of the topic, before it is known       *)
(* whether it is sent now, held back by flow control or discarded; a       *)
(* stored packet without a topic gets it back when it is sent again.       *)
(* Incoming: the aliases the broker uses towards the client, in messages   *)
(* that wait for the client to handle them, perhaps in the queued rest of  *)
(* a segment, which later messages overtake.                               *)
(*                                                                         *)
(* A packet that is sent counts as read by the broker: a connection keeps  *)
(* the order, and what it loses is lost from the end.  QoS 2 is like QoS 1 *)
(* up to its PUBREC, and sends no PUBLISH after it.  The application leaves*)
(* the alias of its publishes to the library.                              *)
(***************************************************************************)
EXTENDS Maps

CONSTANTS
  Topic,         \* topic names
  MaxPublish,    \* bound: messages the application and the broker publish
  ReceiveMax,    \* the broker's Receive Maximum
  AliasMaxima,   \* values of Topic Alias Maximum the broker may announce
  RxAliasMax,    \* MQTT5_RX_TOPIC_ALIAS_MAXIMUM, announced to the broker
  MaxRetries     \* H4AMC_MAX_RETRIES

NoTopic == ""    \* the empty string in place of a topic

ASSUME TopicAliasAssumption ==
  /\ NoTopic \notin Topic /\ IsFiniteSet(Topic)
  /\ MaxPublish \in Nat
  /\ ReceiveMax \in Nat \ {0}
  /\ AliasMaxima \subseteq Nat /\ AliasMaxima # {}
  /\ RxAliasMax \in Nat \ {0}
  /\ MaxRetries = 2   \* so that no packet is given its topic twice

VARIABLES
  running,      \* _state is H4AMC_RUNNING
  aliasMax,     \* _serverOptions->topic_alias_max
  tx,           \* _tx_topic_alias: the topic of each alias assigned
  rx,           \* _rx_topic_alias
  stored,       \* _outbound, by message
  pending,      \* _pending
  inflight,     \* _inflight
  published,    \* messages published so far
  known,        \* the broker: aliases of this connection, as it read them
  announced,    \* the broker: aliases it used towards the client on it
  sent,         \* messages the broker sent
  incoming,     \* those of them the client has not handled
  misrouted,    \* history: messages the broker took for another topic
  unresolved,   \* history: messages whose alias it did not know
  discarded,    \* history: messages a reconnection discarded
  overtaken,    \* history: a packet was sent before, or instead of, an older one
  rearranged,   \* history: a message was overtaken, or outlived its connection
  misdirected   \* history: a message was dispatched under a wrong topic

vars == <<running, aliasMax, tx, rx, stored, pending, inflight, published, known,
          announced, sent, incoming, misrouted, unresolved, discarded, overtaken,
          rearranged, misdirected>>

Message == 1 .. MaxPublish

(* A publish: its topic, and what its bytes hold.  `bare` is mqttTraits.topic
   being empty, which no later insertion changes. *)
Packet == [msg : Message, topic : Topic, name : Topic \cup {NoTopic}, alias : Nat,
           bare : BOOLEAN, retries : 0 .. MaxRetries]

(* A message from the broker: its topic, and what its bytes hold. *)
Incoming == [topic : Topic, name : Topic \cup {NoTopic}, alias : Nat]

TypeOK ==
  /\ {running, overtaken, rearranged, misdirected} \subseteq BOOLEAN
  /\ aliasMax \in {0} \cup AliasMaxima
  /\ tx \in Seq(Topic)
  /\ DOMAIN stored \subseteq Message
  /\ \A m \in DOMAIN stored : stored[m] \in Packet
  /\ pending \in Seq(Message)
  /\ inflight \in 0 .. ReceiveMax
  /\ {published, sent} \subseteq 0 .. MaxPublish
  /\ \A map \in {rx, known, announced} :
       DOMAIN map \subseteq Nat /\ \A k \in DOMAIN map : map[k] \in Topic
  /\ incoming \in Seq(Incoming)
  /\ misrouted \cup unresolved \cup discarded \subseteq Message

Init ==
  /\ running = FALSE
  /\ aliasMax = 0
  /\ tx = <<>>
  /\ rx = EmptyMap
  /\ stored = EmptyMap
  /\ pending = <<>>
  /\ inflight = 0
  /\ published = 0
  /\ sent = 0
  /\ known = EmptyMap
  /\ announced = EmptyMap
  /\ incoming = <<>>
  /\ misrouted = {}
  /\ unresolved = {}
  /\ discarded = {}
  /\ overtaken = FALSE
  /\ rearranged = FALSE
  /\ misdirected = FALSE

-----------------------------------------------------------------------------
(* The aliases there can be. *)
Aliases == 1 .. Cardinality(Topic)

(* The broker reads `packets` with the aliases of `table`.  On an alias it does
   not know it would close the connection; here it notes that and goes on. *)

Definers(packets, k) ==
  {i \in DOMAIN packets : packets[i].alias = k /\ packets[i].name # NoTopic}

(* What alias k stands for after these packets. *)
Meaning(table, packets, k) ==
  IF Definers(packets, k) # {}
  THEN packets[CHOOSE i \in Definers(packets, k) :
                 \A j \in Definers(packets, k) : j <= i].name
  ELSE IF k \in DOMAIN table THEN table[k] ELSE NoTopic

Resolved(table, packets, i) ==
  IF packets[i].name # NoTopic THEN packets[i].name
  ELSE Meaning(table, SubSeq(packets, 1, i - 1), packets[i].alias)

BrokerReads(table, packets) ==
  /\ known' = [k \in {j \in Aliases : Meaning(table, packets, j) # NoTopic} |->
                 Meaning(table, packets, k)]
  /\ unresolved' = unresolved \cup
       {packets[i].msg : i \in {j \in DOMAIN packets :
                                  Resolved(table, packets, j) = NoTopic}}
  /\ misrouted' = misrouted \cup
       {packets[i].msg : i \in {j \in DOMAIN packets :
                          Resolved(table, packets, j) \notin {NoTopic, packets[j].topic}}}

NothingRead == UNCHANGED <<known, unresolved, misrouted>>

-----------------------------------------------------------------------------
(* Publishing. *)

AliasOf(topic) == CHOOSE k \in DOMAIN tx : tx[k] = topic

(* Slip: one alias more than the broker allows. *)
AliasSpaceAtMax == Len(tx) <= aliasMax

(* _availableTXAliasSpace *)
AliasSpace == Len(tx) < aliasMax

(* _begin of PublishPacket: the alias replaces a topic that has one, goes with
   a topic that gets one now, and is absent when there is no space. *)
Built(topic) ==
  LET has == topic \in Range(tx)
  IN [msg |-> published + 1, topic |-> topic, retries |-> MaxRetries, bare |-> has,
      name |-> IF has THEN NoTopic ELSE topic,
      alias |-> IF has THEN AliasOf(topic)
                ELSE IF AliasSpace THEN Len(tx) + 1 ELSE 0]

(* _assignTXAlias, if the broker's maximum leaves space. *)
AssignAlias(topic) ==
  tx' = IF topic \notin Range(tx) /\ AliasSpace THEN Append(tx, topic) ELSE tx

Publishing(topic) ==
  /\ running
  /\ published + sent < MaxPublish
  /\ published' = published + 1
  /\ AssignAlias(topic)
  /\ UNCHANGED <<running, aliasMax, rx, announced, sent, incoming, discarded, rearranged,
                 misdirected>>

(* QoS 0 passes flow control by. *)
PublishQoS0(topic) ==
  /\ Publishing(topic)
  /\ BrokerReads(known, <<Built(topic)>>)
  /\ overtaken' = (overtaken \/ pending # <<>>)
  /\ UNCHANGED <<stored, pending, inflight>>

PublishQoS1(topic) ==
  /\ Publishing(topic)
  /\ stored' = Put(stored, published + 1, Built(topic))
  /\ IF inflight >= ReceiveMax
     THEN /\ pending' = Append(pending, published + 1)
          /\ NothingRead
          /\ UNCHANGED inflight
     ELSE /\ inflight' = inflight + 1
          /\ BrokerReads(known, <<Built(topic)>>)
          /\ UNCHANGED pending
  /\ UNCHANGED overtaken

(* _build finds the packet larger than the broker's maximum: it is discarded,
   its alias stays assigned. *)
PublishTooBig(topic) ==
  /\ Publishing(topic)
  /\ overtaken' = TRUE
  /\ NothingRead
  /\ UNCHANGED <<stored, pending, inflight>>

(* Slip: the packet that waited last is sent first. *)
RunFlowLast ==
  /\ BrokerReads(known, <<stored[pending[Len(pending)]]>>)
  /\ pending' = SubSeq(pending, 1, Len(pending) - 1)

(* _runFlow: the packet at the front is sent as it is stored. *)
RunFlow ==
  /\ BrokerReads(known, <<stored[Head(pending)]>>)
  /\ pending' = Tail(pending)

(* Slip: the publish that ends is counted twice. *)
PublishEndTwice ==
  IF pending # <<>>
  THEN RunFlow /\ UNCHANGED inflight
  ELSE inflight' = inflight - 2 /\ NothingRead /\ UNCHANGED pending

PublishEnd ==
  IF pending # <<>>
  THEN RunFlow /\ UNCHANGED inflight
  ELSE inflight' = inflight - 1 /\ NothingRead /\ UNCHANGED pending

(* PUBACK for a packet sent on this connection. *)
Acknowledged(m) ==
  /\ running
  /\ m \in DOMAIN stored \ Range(pending)
  /\ stored' = Drop(stored, m)
  /\ PublishEnd
  /\ UNCHANGED <<running, aliasMax, tx, rx, published, announced, sent, incoming,
                 discarded, overtaken, rearranged, misdirected>>

-----------------------------------------------------------------------------
(* The connection. *)

Disconnected ==
  /\ running' = FALSE
  /\ pending' = <<>>
  /\ inflight' = 0

(* Of these messages those that were received are still handled; the others
   are lost with the connection. *)
Received(messages) ==
  \E n \in 0 .. Len(messages) : incoming' = SubSeq(messages, 1, n)

Lost ==
  /\ running
  /\ Disconnected
  /\ Received(incoming)
  /\ NothingRead
  /\ UNCHANGED <<aliasMax, tx, rx, stored, published, announced, sent, discarded,
                 overtaken, rearranged, misdirected>>

(* _clearAliases comes after the resend, which still needs them.  A rest of the
   last connection may still be queued. *)
Connack(max) ==
  /\ ~running
  /\ running' = TRUE
  /\ aliasMax' = max
  /\ tx' = <<>>
  /\ rx' = EmptyMap
  /\ announced' = EmptyMap
  /\ rearranged' = (rearranged \/ incoming # <<>>)
  /\ UNCHANGED <<published, sent, incoming, overtaken, misdirected>>

ConnackNewSession ==
  /\ \E max \in AliasMaxima : Connack(max)
  /\ stored' = EmptyMap
  /\ BrokerReads(EmptyMap, <<>>)
  /\ UNCHANGED <<pending, inflight, discarded>>

(* Slip: the alias of the packet is looked up among one too few. *)
InsertableButLast(p) == ~p.bare \/ p.alias \in 1 .. Len(tx) - 1

(* _insertTopicAlias succeeds: the alias has a topic. *)
Insertable(p) == ~p.bare \/ p.alias \in DOMAIN tx

(* The stored packet after _resendPartialTxns.  Only the copy that replaces a
   packet without topic keeps the retry that was counted. *)
Resent(p) ==
  IF p.bare THEN [p EXCEPT !.name = tx[p.alias], !.retries = @ - 1] ELSE p

(* _resendPartialTxns: the survivors in order, as far as Receive Maximum
   allows. *)
ConnackResend ==
  LET kept == {m \in DOMAIN stored : stored[m].retries > 1 /\ Insertable(stored[m])}
      fit  == IF Cardinality(kept) < ReceiveMax THEN Cardinality(kept) ELSE ReceiveMax
  IN /\ DOMAIN stored # {}
     /\ \E max \in AliasMaxima : Connack(max)
     /\ stored' = [m \in kept |-> Resent(stored[m])]
     /\ discarded' = discarded \cup (DOMAIN stored \ kept)
     /\ inflight' = fit
     /\ \E order \in Ascending(kept) :
          /\ BrokerReads(EmptyMap, [i \in 1 .. fit |-> Resent(stored[order[i]])])
          /\ pending' = SubSeq(order, fit + 1, Len(order))

-----------------------------------------------------------------------------
(* Messages from the broker. *)

(* The aliases the client accepts.  It announces one more, which it refuses. *)
RxAliases == 1 .. RxAliasMax - 1

BrokerSends(message) ==
  /\ running
  /\ published + sent < MaxPublish
  /\ sent' = sent + 1
  /\ incoming' = Append(incoming, message)
  /\ NothingRead
  /\ UNCHANGED <<running, aliasMax, tx, rx, stored, pending, inflight, published,
                 discarded, overtaken, rearranged, misdirected>>

(* With the topic, and with an alias unless k is 0. *)
BrokerSendsNamed(topic, k) ==
  /\ BrokerSends([topic |-> topic, name |-> topic, alias |-> k])
  /\ announced' = IF k \in RxAliases THEN Put(announced, k, topic) ELSE announced

(* With an alias in place of the topic. *)
BrokerSendsBare(k) ==
  /\ BrokerSends([topic |-> announced[k], name |-> NoTopic, alias |-> k])
  /\ UNCHANGED announced

(* A message waits in a queued rest, and the one behind it came in a segment that
   is handled first. *)
Overtaken ==
  /\ \E i \in 1 .. Len(incoming) - 1 :
       incoming' = [incoming EXCEPT ![i] = incoming[i + 1], ![i + 1] = incoming[i]]
  /\ rearranged' = TRUE
  /\ NothingRead
  /\ UNCHANGED <<running, aliasMax, tx, rx, stored, pending, inflight, published,
                 announced, sent, discarded, overtaken, misdirected>>

(* _handlePublish of the first message, which goes through; a connection that
   has ended makes no difference. *)
Dispatched ==
  /\ incoming # <<>>
  /\ incoming' = Tail(incoming)
  /\ NothingRead
  /\ UNCHANGED <<running, aliasMax, tx, stored, pending, inflight, published,
                 announced, sent, discarded, overtaken, rearranged>>

(* Slip: an alias keeps its first topic. *)
RegisterAliasOnce(k, topic) == rx' = IF k \in DOMAIN rx THEN rx ELSE Put(rx, k, topic)

(* _handlePublish: assigned or updated. *)
RegisterAlias(k, topic) == rx' = Put(rx, k, topic)

ReceiveNamed ==
  LET p == Head(incoming)
  IN /\ Dispatched
     /\ p.name # NoTopic
     /\ \/ p.alias = 0 /\ UNCHANGED rx
        \/ p.alias \in RxAliases /\ RegisterAlias(p.alias, p.name)
     /\ UNCHANGED misdirected

ReceiveBare ==
  LET p == Head(incoming)
  IN /\ Dispatched
     /\ p.name = NoTopic
     /\ p.alias \in DOMAIN rx
     /\ misdirected' = (misdirected \/ rx[p.alias] # p.topic)
     /\ UNCHANGED rx

(* _protocolError, which closes the connection: at an alias the client does not
   accept, or at one it does not know alone. *)
ReceiveRejected ==
  LET p == Head(incoming)
  IN /\ incoming # <<>>
     /\ IF p.name = NoTopic THEN p.alias \notin DOMAIN rx ELSE p.alias \notin {0} \cup RxAliases
     /\ Disconnected
     /\ Received(Tail(incoming))
     /\ misdirected' = (misdirected \/ p.name = NoTopic)
     /\ NothingRead
     /\ UNCHANGED <<aliasMax, tx, rx, stored, published, announced, sent, discarded,
                    overtaken, rearranged>>

-----------------------------------------------------------------------------
Next ==
  \/ \E topic \in Topic :
       \/ PublishQoS0(topic)
       \/ PublishQoS1(topic)
       \/ PublishTooBig(topic)
  \/ \E m \in Message : Acknowledged(m)
  \/ Lost
  \/ ConnackNewSession
  \/ ConnackResend
  \/ \E topic \in Topic, k \in 0 .. RxAliasMax : BrokerSendsNamed(topic, k)
  \/ \E k \in DOMAIN announced : BrokerSendsBare(k)
  \/ Overtaken
  \/ ReceiveNamed
  \/ ReceiveBare
  \/ ReceiveRejected

Spec == Init /\ [][Next]_vars

-----------------------------------------------------------------------------
(* The broker takes each message for the topic it was published to: an alias
   alone means to the broker what it means to the client, on the connection the
   packet was built for and, with the topic put back, on the next one.  It
   holds as long as the packets reach the broker in the order they were built. *)
RightTopic == ~overtaken => misrouted = {} /\ unresolved = {}

(* No message is taken for another topic, as long as the broker knew every
   alias it read: docs/mqtt5.md:66 has the library manage the aliases by
   itself, whatever is held back or resent. *)
NeverOtherTopic == unresolved = {} => misrouted = {}

(* No reconnection discards a message because its topic is gone: the alias is
   still in the table when _insertTopicAlias looks for it, whatever has been
   assigned, sent, or put back on an earlier connection since. *)
TopicRecovered ==
  [][\A m \in discarded' \ discarded : stored[m].name # NoTopic]_vars

(* The broker never sees an alias above the maximum it announced, on a packet
   of this connection or on one resent from the last, as long as it announces
   no smaller one. *)
AliasWithinMaximum == \A k \in DOMAIN known : k <= aliasMax

(* A message from the broker without a topic is dispatched under the topic the
   broker meant, and neither refused nor taken for another: over redefinitions,
   refused aliases, lost connections and what is handled after them.  It holds as
   long as no message is overtaken, and none is handled on a later connection
   (_handlePublish, _clearAliases). *)
InboundTopicRight == ~rearranged => ~misdirected

-----------------------------------------------------------------------------
(* The inductive invariants behind the properties above. *)

(* What waits is stored, and waits while _inflight, the number of the rest,
   stands at Receive Maximum: nothing is sent past it. *)
FlowAgrees ==
  /\ ~running => pending = <<>> /\ inflight = 0
  /\ IsInjective(pending)
  /\ Range(pending) \subseteq DOMAIN stored
  /\ \A m \in DOMAIN stored : m <= published
  /\ running => inflight = Cardinality(DOMAIN stored \ Range(pending))
  /\ pending # <<>> => inflight = ReceiveMax

(* A stored packet without a topic is one of this connection, or of the last
   until the next is accepted, and finds its topic in the table; one that had
   its topic put back has used a retry. *)
TopicKept(p) ==
  IF p.name = NoTopic
  THEN /\ p.bare /\ p.retries = MaxRetries
       /\ p.alias \in DOMAIN tx /\ tx[p.alias] = p.topic
  ELSE p.name = p.topic /\ (p.bare => p.retries < MaxRetries)

StoredTopic == IsInjective(tx) /\ \A m \in DOMAIN stored : TopicKept(stored[m])

(* The packets held back, as the broker will read them. *)
Waiting == [i \in DOMAIN pending |-> stored[pending[i]]]

(* A broker with this table, once it has read the packets, has the aliases of
   `names`, and takes each packet for its topic. *)
Agrees(table, names, packets) ==
  /\ \A k \in DOMAIN names : Meaning(table, packets, k) = names[k]
  /\ \A i \in DOMAIN packets : Resolved(table, packets, i) = packets[i].topic

BrokerAgrees == running => Agrees(known, tx, Waiting)

(* The client, once it has handled what is on its way, has the broker's aliases,
   and takes each message for its topic. *)
ClientAgrees == Agrees(rx, IF running THEN announced ELSE EmptyMap, incoming)

(* Behind InboundTopicRight. *)
InboundTables ==
  /\ DOMAIN announced \subseteq RxAliases
  /\ \A i \in DOMAIN incoming :
       incoming[i].name = NoTopic => incoming[i].alias \in RxAliases
  /\ ~rearranged => ClientAgrees /\ ~misdirected

(* The client's table, its stored packets and the broker's table agree on what
   an alias stands for: behind RightTopic and TopicRecovered. *)
AliasTables ==
  /\ FlowAgrees
  /\ StoredTopic
  /\ ~overtaken => BrokerAgrees
  /\ RightTopic
=============================================================================
