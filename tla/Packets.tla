------------------------------ MODULE Packets ------------------------------
(***************************************************************************)
(* The packets the client builds, from what the application configured,    *)
(* what the server announced and what the call asked for, to the bytes the *)
(* server reads; and the packets it receives.  A builder first counts the  *)
(* size (_begin), then writes into a buffer of that size.                  *)
(*                                                                         *)
(* A user property has one key; a map of several keeps its order.  A method*)
(* of authentication is never empty, and memory never runs out.            *)
(***************************************************************************)
EXTENDS ServerCodec, FiniteSets

CONSTANTS
  Lengths,      \* lengths of the application's texts
  Ids,          \* packet identifiers used
  MaxSettings   \* bound: calls that configure the client

ASSUME PacketsAssumption ==
  /\ Lengths \subseteq Nat \ {0} /\ IsFiniteSet(Lengths) /\ Lengths # {}
  /\ Ids \subseteq 1 .. 65535 /\ Ids # {}

ASSUME SettingsAssumption == MaxSettings \in Nat

VARIABLES
  settings,    \* calls that configured the client so far
  will,        \* _will
  method,      \* the authenticator's method, empty without authenticator
  static,      \* _user_static_props, by kind of packet
  dynamic,     \* _user_dynamic_props: the kinds that have a callback
  options,     \* _serverOptions
  running,     \* _state is H4AMC_RUNNING
  tx,          \* _tx_topic_alias
  announced,   \* history: the properties of the last CONNACK
  last         \* history: the packet built or received last

vars == <<settings, will, method, static, dynamic, options, running, tx,
          announced, last>>

config == <<settings, will, method, static, dynamic>>

Kind == {"CONNECT", "PUBLISH", "SUBSCRIBE", "UNSUBSCRIBE", "AUTH"}

(* A text: its character tells it from others. *)
Text(character, n) == [k \in 1 .. n |-> character]

Pair(n) == <<Text(107, 1), Text(118, n)>>

UserProps == {<<>>} \cup {<<Pair(n)>> : n \in Lengths}

NoProps == [format |-> 0, expiry |-> 0, delay |-> 0, content |-> <<>>, response |-> <<>>,
            correlation |-> <<>>, user |-> <<>>]

AllProps(n) ==
  [format |-> 1, expiry |-> 300, delay |-> 5, content |-> Text(99, n),
   response |-> Text(114, n), correlation |-> Text(0, n), user |-> <<Pair(n)>>]

Some(field, value) == [NoProps EXCEPT ![field] = value]

(* MQTT5MessageProperties the application may give: none, all, or one. *)
MessageProps ==
  {NoProps, Some("expiry", 300), Some("format", 1), Some("content", Text(99, 3)),
   Some("response", Text(114, 4)), Some("correlation", Text(0, 5))}
  \cup {AllProps(n) : n \in Lengths}

Topics == {Text(116, n) : n \in Lengths}

(* Filters: the text, and what the checks of _multiTopic find in it. *)
Filter(character, n, wild, misplaced, shared, badName) ==
  [text |-> Text(character, n), wild |-> wild, misplaced |-> misplaced,
   shared |-> shared, badName |-> badName]

Filters ==
  {Filter(102, n, FALSE, FALSE, FALSE, FALSE) : n \in Lengths} \cup
  {Filter(35, 3, TRUE, FALSE, FALSE, FALSE), Filter(109, 3, TRUE, TRUE, FALSE, FALSE),
   Filter(36, 5, FALSE, FALSE, TRUE, FALSE), Filter(37, 5, TRUE, FALSE, TRUE, TRUE)}

(* One filter, or two in the order of a std::set. *)
FilterLists ==
  {<<f>> : f \in Filters} \cup
  {<<f, g>> : f \in {x \in Filters : x.shared}, g \in {x \in Filters : x.text[1] = 102}}

Defaults == [receiveMax |-> 65535, aliasMax |-> 0, maxSize |-> 65535, maxQos |-> 2,
             retain |-> 1, wildcard |-> 1, subIds |-> 1, shared |-> 1]

(* Properties of the CONNACKs the server may send. *)
ConnackLists ==
  {<<<<33, 5>>>>, <<<<36, 0>>, <<37, 0>>, <<34, 1>>>>, <<<<39, 20>>, <<40, 0>>>>,
   <<<<42, 0>>, <<41, 0>>, <<31, Text(114, 3)>>, <<UserProperty, Pair(2)>>, <<34, 2>>>>}

NoPacket == [from |-> "none"]

Idle == last = NoPacket

Init ==
  /\ settings = 0
  /\ will = [topic |-> <<>>]
  /\ method = <<>>
  /\ static = [k \in Kind |-> <<>>]
  /\ dynamic = {}
  /\ options = Defaults
  /\ running = FALSE
  /\ tx = <<>>
  /\ announced = <<>>
  /\ last = NoPacket

-----------------------------------------------------------------------------
(* Configuration. *)

Setting ==
  /\ Idle
  /\ settings < MaxSettings
  /\ settings' = settings + 1
  /\ UNCHANGED <<options, running, tx, announced, last>>

SetWill(n, qos, retain, props) ==
  /\ Setting
  /\ will' = [topic |-> Text(116, n), payload |-> Text(112, n), qos |-> qos,
              retain |-> retain, props |-> props]
  /\ UNCHANGED <<method, static, dynamic>>

SetAuthenticator(n) ==
  /\ Setting
  /\ method' = Text(97, n)
  /\ UNCHANGED <<will, static, dynamic>>

AddStaticUserProp(kinds, user) ==
  /\ Setting
  /\ static' = [k \in Kind |-> IF k \in kinds THEN user ELSE static[k]]
  /\ UNCHANGED <<will, method, dynamic>>

AddDynamicUserProp(kinds) ==
  /\ Setting
  /\ dynamic' = dynamic \cup kinds
  /\ UNCHANGED <<will, method, static>>

ResetUserProps ==
  /\ Setting
  /\ static' = [k \in Kind |-> <<>>]
  /\ dynamic' = {}
  /\ UNCHANGED <<will, method>>

-----------------------------------------------------------------------------
(* Building.  `answer` is what the dynamic callback returns this time. *)

UserEntries(user) == [k \in DOMAIN user |-> Paired(user[k])]

(* _fetchUserProperties and _serializeUserProperties: those of the call, the
   static ones, and those of the callback, which is asked once. *)
AllUserEntries(kind, passed, answer) ==
  UserEntries(passed \o static[kind] \o IF kind \in dynamic THEN answer ELSE <<>>)

(* What a property list occupies, and its bytes. *)
Counted(props) == PropertyLength(props) + VbiLength[PropertyLength(props)]

Written(props) == EncodeVbi[PropertyLength(props)] \o SerializeAll(props)

Block(s) == Len(s) + 2

Meant(props) == [k \in DOMAIN props |-> <<props[k].id, props[k].value>>]

(* _build: the fixed header for a body that was counted as `count` bytes, then
   the body; as many bytes are sent as were counted.  A packet larger than the
   server's maximum is discarded. *)
Build(control, count, body, intent, checked) ==
  LET header == <<control>> \o EncodeVbi[count]
      size   == Len(header) + count
      bytes  == header \o body
  IN last' = [from |-> "client", written |-> Len(bytes), size |-> size,
              bytes |-> SubSeq(bytes, 1, IF size < Len(bytes) THEN size ELSE Len(bytes)),
              intent |-> intent, resent |-> FALSE, rl |-> 0,
              sent |-> ~(checked /\ options.maxSize < size)]

HasWill == will.topic # <<>>

WillEntries(p) ==
  Only(p.format # 0, Number(1, p.format, 2))
  \o Only(p.expiry # 0, Number(2, p.expiry, 5))
  \o Only(p.delay # 0, Number(24, p.delay, 5))
  \o Only(p.content # <<>>, Texted(3, p.content))
  \o Only(p.response # <<>>, Texted(8, p.response))
  \o Only(p.correlation # <<>>, Texted(9, p.correlation))
  \o UserEntries(p.user)

ClientId == Text(105, 3)

AuthData == Text(1, 2)

KeepAlive == 300   \* _keepalive, a 16-bit number here

ConnectEntries(answer) ==
  <<Number(17, 3600, 5), Number(33, 25, 3), Number(39, 5200, 5), Number(34, 50, 3)>>
  \o (IF method = <<>> THEN <<>> ELSE <<Texted(21, method), Texted(22, AuthData)>>)
  \o <<Number(23, 1, 2), Number(25, 1, 2)>>
  \o AllUserEntries("CONNECT", <<Pair(4)>>, answer)

ConnectFlags(clean, user, password) ==
  (IF clean THEN 2 ELSE 0)
  + (IF HasWill THEN 4 + 8 * will.qos + (IF will.retain THEN 32 ELSE 0) ELSE 0)
  + (IF user # <<>> THEN 128 ELSE 0) + (IF password # <<>> THEN 64 ELSE 0)

(* What _begin of ConnectPacket counts of the will's properties. *)
WillCounted == IF HasWill THEN Counted(WillEntries(will.props)) ELSE 0

(* What _protocolPayload writes: without a will the default of _willproperties,
   a property length of zero. *)
WillWritten == IF HasWill THEN Written(WillEntries(will.props)) ELSE <<0>>

(* The credentials are those of the last connect(). *)
ConnectPacket(clean, user, password, answer) ==
  LET props == ConnectEntries(answer)
      flags == ConnectFlags(clean, user, password)
      texts == (IF HasWill THEN <<will.topic, will.payload>> ELSE <<>>)
               \o Only(user # <<>>, user) \o Only(password # <<>>, password)
      blocks == FlattenSeq([k \in DOMAIN texts |-> EncodeString(texts[k])])
  IN /\ Idle
     /\ Build(16, 10 + Block(ClientId) + WillCounted + Len(blocks) + Counted(props),
              EncodeString(Text(77, 4)) \o <<5, flags>> \o Poke16(KeepAlive)
                \o Written(props) \o EncodeString(ClientId) \o WillWritten \o blocks,
              [type |-> "CONNECT", flags |-> flags, id |-> 0,
               props |-> Meant(props), texts |-> <<ClientId>> \o texts,
               willProps |-> IF HasWill THEN Meant(WillEntries(will.props)) ELSE <<>>],
              FALSE)
     /\ running' = FALSE
     /\ UNCHANGED <<config, options, tx, announced>>

PublishEntries(p, alias, answer) ==
  Only(p.format # 0, Number(1, p.format, 2))
  \o Only(p.expiry # 0, Number(2, p.expiry, 5))
  \o Only(p.response # <<>>, Texted(8, p.response))
  \o Only(p.correlation # <<>>, Texted(9, p.correlation))
  \o Only(alias # 0, Number(35, alias, 3))
  \o Only(p.content # <<>>, Texted(3, p.content))
  \o AllUserEntries("PUBLISH", p.user, answer)

HasAlias(topic) == topic \in Range(tx)

(* Slip: one alias more than the server takes. *)
AliasSpaceAtMax == Len(tx) <= options.aliasMax

AliasSpace == Len(tx) < options.aliasMax

(* _getTXAlias, or _assignTXAlias if there is space. *)
AliasFor(topic) ==
  IF HasAlias(topic) THEN CHOOSE k \in DOMAIN tx : tx[k] = topic
  ELSE IF AliasSpace THEN Len(tx) + 1 ELSE 0

Lesser(a, b) == IF a < b THEN a ELSE b

(* The checks of PublishPacket: a QoS the server does not take is lowered. *)
GrantedQos(qos) == Lesser(qos, options.maxQos)

PublishPacket(topic, asked, retain, id, payload, p, answer) ==
  LET qos   == GrantedQos(asked)
      flags == 2 * qos + (IF retain /\ options.retain = 1 THEN 1 ELSE 0)
      name  == IF HasAlias(topic) THEN <<>> ELSE topic
      props == PublishEntries(p, AliasFor(topic), answer)
      pid   == IF qos > 0 THEN id ELSE 0
  IN /\ Idle
     /\ running
     /\ Build(Publish + flags,
              Block(name) + Len(payload) + Counted(props) + (IF qos > 0 THEN 2 ELSE 0),
              EncodeString(name) \o (IF qos > 0 THEN Poke16(id) ELSE <<>>)
                \o Written(props) \o payload,
              [type |-> "PUBLISH", flags |-> flags, id |-> pid, props |-> Meant(props),
               texts |-> <<name, payload>>],
              TRUE)
     /\ tx' = IF ~HasAlias(topic) /\ AliasSpace THEN Append(tx, topic) ELSE tx
     /\ UNCHANGED <<config, options, running, announced>>

(* The checks of _multiTopic: what fails one is notified, not sent. *)
Permitted(filters) ==
  \A k \in DOMAIN filters :
    /\ ~filters[k].misplaced
    /\ filters[k].wild => options.wildcard = 1
    /\ filters[k].shared => options.shared = 1 /\ ~filters[k].badName

TopicTexts(filters) == [k \in DOMAIN filters |-> filters[k].text]

MultiTopicSize(filters, extra) ==
  FoldSeq(LAMBDA f, n : Len(f.text) + extra + n, 0, filters)

(* A subscription with a callback carries an identifier, if the server has
   them. *)
SubscribeEntries(subId, hasCallback, user, answer) ==
  Only(hasCallback /\ options.subIds = 1, Number(11, subId, 1 + VbiLength[subId]))
  \o AllUserEntries("SUBSCRIBE", user, answer)

SubscribePacket(filters, id, subId, hasCallback, choice, user, answer) ==
  LET props == SubscribeEntries(subId, hasCallback, user, answer)
  IN /\ Idle
     /\ running
     /\ Permitted(filters)
     /\ Build(130, MultiTopicSize(filters, 3) + Counted(props) + 2,
              Poke16(id) \o Written(props)
                \o FlattenSeq([k \in DOMAIN filters |->
                                 EncodeString(filters[k].text) \o <<choice>>]),
              [type |-> "SUBSCRIBE", flags |-> 2, id |-> id, props |-> Meant(props),
               texts |-> [k \in DOMAIN filters |-> <<filters[k].text, choice>>]],
              TRUE)
     /\ UNCHANGED <<config, options, running, tx, announced>>

UnsubscribePacket(filters, id, answer) ==
  LET props == AllUserEntries("UNSUBSCRIBE", <<>>, answer)
  IN /\ Idle
     /\ running
     /\ Permitted(filters)
     /\ Build(162, MultiTopicSize(filters, 2) + Counted(props) + 2,
              Poke16(id) \o Written(props)
                \o FlattenSeq([k \in DOMAIN filters |-> EncodeString(filters[k].text)]),
              [type |-> "UNSUBSCRIBE", flags |-> 2, id |-> id, props |-> Meant(props),
               texts |-> TopicTexts(filters)],
              TRUE)
     /\ UNCHANGED <<config, options, running, tx, announced>>

(* AuthenticationPacket, the answer to an AUTH from the server. *)
AuthenticationPacket(reason, data, answer) ==
  LET props == <<Texted(21, method), Texted(22, data)>> \o AllUserEntries("AUTH", <<>>, answer)
  IN /\ method # <<>>
     /\ last.from = "server" /\ last.bytes[1] = Auth
     /\ Build(Auth, 1 + Counted(props), <<reason>> \o Written(props),
              [type |-> "AUTH", flags |-> 0, id |-> reason, props |-> Meant(props),
               texts |-> <<>>],
              FALSE)
     /\ UNCHANGED <<config, options, running, tx, announced>>

(* _idGarbage: PUBACK, PUBREC, PUBREL and PUBCOMP, four bytes. *)
IdGarbage(control, id) ==
  /\ Idle
  /\ running
  /\ last' = [from |-> "client", written |-> 4, size |-> 4,
              bytes |-> <<control, 2>> \o Poke16(id), intent |-> [type |-> "ACK", id |-> id],
              resent |-> FALSE, rl |-> 0, sent |-> TRUE]
  /\ UNCHANGED <<config, options, running, tx, announced>>

-----------------------------------------------------------------------------
(* Slip: the length of the topic is not added to the remaining length. *)
InsertedSameLength(b, t, topic) ==
  LET n == DecodeVbi(b, 2)
      copy == <<b[1]>> \o EncodeVbi[n.value] \o SubSeq(b, n.next, Len(b))
  IN SubSeq(copy, 1, t.topicIndex) \o EncodeString(topic)
     \o SubSeq(copy, t.topicIndex + 3, Len(copy))

(* _insertTopicAlias: first the remaining length is replaced, then the two bytes
   at the index the topic had before that. *)
Inserted(b, t, topic) ==
  LET n == DecodeVbi(b, 2)
      copy == <<b[1]>> \o EncodeVbi[n.value + Len(topic)] \o SubSeq(b, n.next, Len(b))
  IN SubSeq(copy, 1, t.topicIndex) \o EncodeString(topic)
     \o SubSeq(copy, t.topicIndex + 3, Len(copy))

-----------------------------------------------------------------------------
(* Receiving.  `meant` is what the server put into the packet. *)

Received(bytes, meant) ==
  last' = [from |-> "server", bytes |-> bytes, meant |-> meant]

Option(props, id, default) ==
  IF Values(props, id) = {} THEN default ELSE GetNumeric(props, id)

(* Slip: what the last CONNACK does not mention stays as it was. *)
HandleConnackKept(props) ==
  [receiveMax |-> Option(props, 33, options.receiveMax),
   aliasMax |-> Option(props, 34, options.aliasMax),
   maxSize  |-> Option(props, 39, options.maxSize),
   maxQos   |-> Option(props, 36, options.maxQos),
   retain   |-> Option(props, 37, options.retain),
   wildcard |-> Option(props, 40, options.wildcard),
   subIds   |-> Option(props, 41, options.subIds),
   shared   |-> Option(props, 42, options.shared)]

(* _handleConnackProps: new options, each with what its property says. *)
HandleConnackProps(props) ==
  [receiveMax |-> Option(props, 33, Defaults.receiveMax),
   aliasMax |-> Option(props, 34, Defaults.aliasMax),
   maxSize  |-> Option(props, 39, Defaults.maxSize),
   maxQos   |-> Option(props, 36, Defaults.maxQos),
   retain   |-> Option(props, 37, Defaults.retain),
   wildcard |-> Option(props, 40, Defaults.wildcard),
   subIds   |-> Option(props, 41, Defaults.subIds),
   shared   |-> Option(props, 42, Defaults.shared)]

ReceiveConnack(present, list) ==
  LET bytes == WriteConnack(present, 0, list)
  IN /\ last.from = "client" /\ last.intent.type = "CONNECT"
     /\ Received(bytes, [present |-> present, reason |-> 0, props |-> list])
     /\ options' = HandleConnackProps(Traits(bytes).props)
     /\ running' = TRUE
     /\ tx' = <<>>
     /\ announced' = list
     /\ UNCHANGED config

WithDup(bytes) == <<bytes[1] + 8>> \o Tail(bytes)

(* The CONNACK of a later connection: a stored publish is sent again, with DUP and
   with the topic that an alias stood for, before the aliases are cleared.  Its
   size is not compared with the new maximum. *)
ResendPublish(list) ==
  /\ last.from = "client" /\ last.sent /\ ~last.resent
  /\ last.intent.type = "PUBLISH" /\ last.intent.id # 0
  /\ \E t \in {Traits(last.bytes)} :
     \E topic \in {IF t.topic = <<>> THEN tx[t.alias] ELSE t.topic} :
     \E bytes \in {WithDup(IF t.topic = <<>> THEN Inserted(last.bytes, t, topic)
                           ELSE last.bytes)} :
       last' = [last EXCEPT !.bytes = bytes, !.written = Len(bytes), !.size = Len(bytes),
                            !.resent = TRUE, !.intent.texts[1] = topic, !.intent.flags = @ + 8,
                            !.rl = VbiLength[DecodeVbi(last.bytes, 2).value]]
  /\ options' = HandleConnackProps(Traits(WriteConnack(1, 0, list)).props)
  /\ tx' = <<>>
  /\ announced' = list
  /\ UNCHANGED <<config, running>>

ReceivePublish(topic, qos, retain, id, list, payload) ==
  LET flags == 2 * qos + (IF retain THEN 1 ELSE 0)
  IN /\ Idle
     /\ running
     /\ Received(WritePublish(flags, topic, id, list, payload),
                 [topic |-> topic, qos |-> qos, retain |-> retain, props |-> list,
                  id |-> IF qos = 0 THEN 0 ELSE id, payload |-> payload])
     /\ UNCHANGED <<config, options, running, tx, announced>>

ReceiveAck(type, id, reason, list) ==
  /\ Idle
  /\ running
  /\ Received(WriteAck(type, id, reason, list),
              [id |-> id, reason |-> reason, props |-> list])
  /\ UNCHANGED <<config, options, running, tx, announced>>

ReceiveSuback(type, id, list, reasons) ==
  /\ Idle
  /\ running
  /\ Received(WriteSuback(type, id, list, reasons),
              [id |-> id, reasons |-> reasons, props |-> list])
  /\ UNCHANGED <<config, options, running, tx, announced>>

(* AUTH or DISCONNECT *)
ReceiveReason(type, reason, list) ==
  /\ Idle
  /\ running \/ type = Auth
  /\ Received(WriteReason(type, reason, list), [reason |-> reason, props |-> list])
  /\ UNCHANGED <<config, options, running, tx, announced>>

-----------------------------------------------------------------------------
(* Lists of properties the server may send with these packets. *)
PublishLists ==
  {<<>>, <<<<35, 3>>, <<11, 1>>>>, <<<<11, 1>>, <<11, Radix + 1>>, <<2, 300>>>>,
   <<<<1, 1>>, <<3, Text(99, 2)>>, <<9, <<0, 7>>>>, <<UserProperty, Pair(1)>>,
     <<UserProperty, <<Text(75, 2), Text(86, 1)>>>>, <<8, Text(114, 3)>>>>}

ReasonLists == {<<>>, <<<<31, Text(114, 2)>>>>, <<<<31, Text(114, 1)>>, <<UserProperty, Pair(4)>>>>}

Configure ==
  \/ \E n \in Lengths : \E props \in {NoProps, AllProps(n)} :
       SetWill(n, IF props = NoProps THEN 1 ELSE 2, props = NoProps, props)
  \/ \E n \in Lengths : SetAuthenticator(n)
  \/ \E kinds \in {{"PUBLISH"}, Kind}, user \in UserProps :
       AddStaticUserProp(kinds, user)
  \/ \E kinds \in {{"PUBLISH"}, Kind} : AddDynamicUserProp(kinds)
  \/ ResetUserProps

(* A payload, or the empty one that clears a retained message. *)
Payload(topic, clear) == IF clear THEN <<>> ELSE Text(112, 2 + Len(topic))

(* The callback's answer matters only where there is a callback. *)
Answers(kind) == IF kind \in dynamic THEN UserProps ELSE {<<>>}

Send ==
  \/ \E clean \in BOOLEAN, user \in {<<>>} \cup {Text(117, n) : n \in Lengths},
        password \in {<<>>} \cup {Text(119, n) : n \in Lengths},
        answer \in Answers("CONNECT") : ConnectPacket(clean, user, password, answer)
  \/ \E topic \in Topics, qos \in 0 .. 2, clear \in BOOLEAN, id \in Ids,
        p \in MessageProps, answer \in Answers("PUBLISH") :
       PublishPacket(topic, qos, clear, id, Payload(topic, clear), p, answer)
  \/ \E filters \in FilterLists, id \in Ids, subId \in {0, 1, Radix},
        user \in UserProps, answer \in Answers("SUBSCRIBE") :
       SubscribePacket(filters, id, subId, subId # 0, 25, user, answer)
  \/ \E filters \in FilterLists, id \in Ids, answer \in Answers("UNSUBSCRIBE") :
       UnsubscribePacket(filters, id, answer)
  \/ \E reason \in {0, 24}, n \in Lengths, answer \in Answers("AUTH") :
       AuthenticationPacket(reason, Text(1, n), answer)
  \/ \E control \in ShortAcks, id \in Ids : IdGarbage(control, id)

Receive ==
  \/ \E present \in {0, 1}, list \in ConnackLists : ReceiveConnack(present, list)
  \/ \E list \in ConnackLists : ResendPublish(list)
  \/ \E topic \in Topics \cup {<<>>}, qos \in 0 .. 2, clear \in BOOLEAN, id \in Ids,
        list \in PublishLists :
       ReceivePublish(topic, qos, clear, id, list, Payload(topic, clear))
  \/ \E type \in ShortAcks, id \in Ids, reason \in {0, 16}, list \in ReasonLists :
       ReceiveAck(type, id, reason, list)
  \/ \E type \in {Suback, Unsuback}, id \in Ids, list \in ReasonLists,
        reasons \in {<<0>>, <<1, 128>>} : ReceiveSuback(type, id, list, reasons)
  \/ \E type \in {Auth, Disconnect}, reason \in {0, 24}, list \in ReasonLists :
       ReceiveReason(type, reason, list)

(* The packet is gone or handled: the next one. *)
Handled ==
  /\ ~Idle
  /\ last' = NoPacket
  /\ UNCHANGED <<config, options, running, tx, announced>>

Next == Configure \/ Send \/ Receive \/ Handled

Spec == Init /\ [][Next]_vars

-----------------------------------------------------------------------------
TypeOK ==
  /\ settings \in 0 .. MaxSettings
  /\ static \in [Kind -> UserProps]
  /\ dynamic \subseteq Kind
  /\ DOMAIN options = DOMAIN Defaults
  /\ running \in BOOLEAN
  /\ tx \in Seq(Topics) /\ Len(tx) <= options.aliasMax
  /\ last.from \in {"none", "client", "server"}

FromClient == last.from = "client"

Is(type) == FromClient /\ last.intent.type = type

Legible == Understood(last.bytes) = last.intent

(* A CONNECT without a will: the property length of the will that is not there is
   written, and not counted. *)
ConnectWithoutWill == Is("CONNECT") /\ (last.intent.flags \div 4) % 2 = 0

WithoutCredentials == Len(last.intent.texts) = 1

(* Putting the topic back made the remaining length one byte longer. *)
LengthGrew ==
  /\ FromClient /\ last.resent
  /\ VbiLength[DecodeVbi(last.bytes, 2).value] # last.rl

(* The size a builder counts before it asks for memory is the size it writes,
   whatever is configured and whatever the callback for user properties returns
   the next time; only a CONNECT without a will writes a byte more. *)
CountedIsWritten ==
  FromClient => last.written = last.size + (IF ConnectWithoutWill THEN 1 ELSE 0)

(* The server reads in every packet that is sent what the application asked for
   and the properties that were configured.  The exceptions are exactly the
   CONNECT without a will but with credentials, which the byte too much
   displaces, and a resend whose remaining length has become longer. *)
ServerUnderstands ==
  FromClient /\ last.sent /\ ~LengthGrew =>
    (Legible <=> (ConnectWithoutWill => WithoutCredentials))

(* What mqttTraits finds in a packet the client stores for a later resend is
   what was put into it: an acknowledgement, an alias and a topic put back rest
   on it. *)
StoredTraitsRight ==
  (Is("PUBLISH") \/ Is("SUBSCRIBE") \/ Is("UNSUBSCRIBE")) /\ ~last.resent =>
    \E t \in {Traits(last.bytes)} :
       /\ t.ok
       /\ t.id = last.intent.id
       /\ Is("PUBLISH") =>
            /\ <<t.topic, t.payload>> = last.intent.texts
            /\ t.topic = <<>> => t.alias \in DOMAIN tx /\ Peek16(last.bytes, t.topicIndex + 1) = 0

(* What mqttTraits finds in a packet from the server is what the server put into
   it: properties of every type, identifiers, reasons, topic and payload. *)
ReceivedAsMeant ==
  last.from = "server" =>
    \E t \in {Traits(last.bytes)} :
       /\ t.ok
       /\ [k \in DOMAIN t.props |-> <<t.props[k].id, t.props[k].value>>] = last.meant.props
       /\ \A f \in DOMAIN last.meant \ {"props"} : t[f] = last.meant[f]

(* What the server announced on this connection, by its identifier. *)
Announced(id, default) ==
  IF \E k \in DOMAIN announced : announced[k][1] = id
  THEN announced[CHOOSE k \in DOMAIN announced : announced[k][1] = id][2] ELSE default

(* No packet that is built on a connection asks of the server what the CONNACK of
   this very connection ruled out, or did not mention and so allowed less.  A
   publish that is sent again is not checked a second time: it may be larger than
   the server of the new connection takes, or above its Maximum QoS. *)
OptionsRespected ==
  running /\ FromClient /\ last.sent /\ ~last.resent =>
    /\ ~Is("AUTH") => ~(Announced(39, 65535) < last.size)
    /\ Is("PUBLISH") =>
         /\ (last.intent.flags \div 2) % 4 <= Announced(36, 2)
         /\ last.intent.flags % 2 = 1 => Announced(37, 1) = 1
         /\ \A k \in DOMAIN last.intent.props :
              last.intent.props[k][1] = 35 => last.intent.props[k][2] <= Announced(34, 0)
    /\ Is("SUBSCRIBE") =>
         \A k \in DOMAIN last.intent.props :
           last.intent.props[k][1] = 11 => Announced(41, 1) = 1

(* A publish whose topic is put back for a resend is legible ("For
   retransmission of unacked publishes", h4amc_config.h). *)
ResendLegible == FromClient /\ last.resent => Legible
=============================================================================
