--------------------------- MODULE Packets_proofs ---------------------------
(***************************************************************************)
(* The options of a connection, for every length of text, identifier and   *)
(* number of settings: what the client builds keeps to the CONNACK of this *)
(* connection.  That the client reads a CONNACK as the server wrote it is  *)
(* an assumption of the theorem; the codec is recursive, and the run       *)
(* packets checks it (ReceivedAsMeant).                                    *)
(***************************************************************************)
EXTENDS Packets, TLAPS

(* The premise: the properties mqttTraits finds in a CONNACK are those that were
   written, in their order. *)
ConnackReadBack ==
  \A present \in {0, 1}, list \in ConnackLists :
    \E props \in {Traits(WriteConnack(present, 0, list)).props} :
      /\ DOMAIN props = DOMAIN list
      /\ \A k \in DOMAIN list : props[k].id = list[k][1] /\ props[k].value = list[k][2]

(* What a CONNACK with these properties says of one of them. *)
Says(list, id, default) ==
  IF \E k \in DOMAIN list : list[k][1] = id
  THEN list[CHOOSE k \in DOMAIN list : list[k][1] = id][2] ELSE default

-----------------------------------------------------------------------------
(* The CONNACKs. *)

LEMMA ListShapes ==
  ASSUME NEW list \in ConnackLists
  PROVE  /\ DOMAIN list = 1 .. Len(list) /\ Len(list) \in Nat
         /\ \A j, k \in DOMAIN list : list[j][1] = list[k][1] => j = k
         /\ \A k \in DOMAIN list :
              /\ list[k][1] \in {34, 36} => list[k][2] \in Nat
              /\ list[k][1] = 39 => list[k][2] = 20
  <1>1. CASE list = <<<<33, 5>>>>
    BY <1>1
  <1>2. CASE list = <<<<36, 0>>, <<37, 0>>, <<34, 1>>>>
    BY <1>2
  <1>3. CASE list = <<<<39, 20>>, <<40, 0>>>>
    BY <1>3
  <1>4. CASE list = <<<<42, 0>>, <<41, 0>>, <<31, Text(114, 3)>>, <<UserProperty, Pair(2)>>,
                      <<34, 2>>>>
    BY <1>4 DEF UserProperty
  <1>5. QED BY <1>1, <1>2, <1>3, <1>4 DEF ConnackLists

LEMMA SaysNumbers ==
  ASSUME NEW list \in ConnackLists
  PROVE  /\ Says(list, 34, 0) \in Nat
         /\ Says(list, 36, 2) \in Nat
         /\ Says(list, 39, 65535) \in {20, 65535}
  BY ListShapes DEF Says

(* Each identifier occurs once: the first is the one. *)
LEMMA OptionSays ==
  ASSUME ConnackReadBack, NEW present \in {0, 1}, NEW list \in ConnackLists, NEW id, NEW default
  PROVE  Option(Traits(WriteConnack(present, 0, list)).props, id, default)
           = Says(list, id, default)
  <1> DEFINE props == Traits(WriteConnack(present, 0, list)).props
  <1>1. /\ DOMAIN props = DOMAIN list
        /\ \A k \in DOMAIN list : props[k].id = list[k][1] /\ props[k].value = list[k][2]
    BY DEF ConnackReadBack
  <1> HIDE DEF props
  <1>2. CASE \A k \in DOMAIN list : list[k][1] # id
    <2>1. Values(props, id) = {}
      BY <1>1, <1>2 DEF Values
    <2>2. QED BY <1>2, <2>1 DEF Option, Says, props
  <1>3. CASE \E k \in DOMAIN list : list[k][1] = id
    <2>1. PICK k \in DOMAIN list : list[k][1] = id
      BY <1>3
    <2>2. \A j \in DOMAIN list : list[j][1] = id => j = k
      BY <2>1, ListShapes
    <2>3. Says(list, id, default) = list[k][2]
      BY <2>1, <2>2 DEF Says
    <2>4. Values(props, id) # {}
      <3>1. props[k].value \in Values(props, id)
        BY <1>1, <2>1 DEF Values
      <3>2. QED BY <3>1
    <2>5. (CHOOSE j \in DOMAIN props : /\ props[j].id = id
                                       /\ \A i \in 1 .. j - 1 : props[i].id # id) = k
      <3>1. \A i \in 1 .. k - 1 : i \in DOMAIN list /\ i # k
        BY <2>1, ListShapes
      <3>2. \A i \in 1 .. k - 1 : props[i].id # id
        BY <1>1, <2>2, <3>1
      <3>3. QED BY <1>1, <2>1, <2>2, <3>2
    <2>6. QED BY <1>1, <2>1, <2>3, <2>4, <2>5 DEF Option, GetNumeric, props
  <1>4. QED BY <1>2, <1>3

-----------------------------------------------------------------------------
(* What a packet of the client is a record of. *)
PacketShape ==
  FromClient => DOMAIN last = {"from", "written", "size", "bytes", "intent", "resent", "rl", "sent"}

(* What the options are: numbers, and on a connection what its CONNACK says. *)
Limits ==
  /\ options.aliasMax \in Nat /\ options.maxQos \in Nat
  /\ running =>
       /\ announced \in ConnackLists
       /\ options.aliasMax = Says(announced, 34, 0)
       /\ options.maxQos   = Says(announced, 36, 2)
       /\ options.retain   = Says(announced, 37, 1)
       /\ options.maxSize  = Says(announced, 39, 65535)
       /\ options.subIds   = Says(announced, 41, 1)

LEMMA AnnouncedSays ==
  ASSUME NEW id, NEW default PROVE Announced(id, default) = Says(announced, id, default)
  BY DEF Announced, Says

LEMMA HandledConnack ==
  ASSUME ConnackReadBack, NEW present \in {0, 1}, NEW list \in ConnackLists,
         options' = HandleConnackProps(Traits(WriteConnack(present, 0, list)).props),
         announced' = list
  PROVE  Limits' /\ DOMAIN options' = DOMAIN Defaults
  <1> DEFINE props == Traits(WriteConnack(present, 0, list)).props
  <1>1. /\ Option(props, 34, 0) = Says(list, 34, 0)
        /\ Option(props, 36, 2) = Says(list, 36, 2)
        /\ Option(props, 37, 1) = Says(list, 37, 1)
        /\ Option(props, 39, 65535) = Says(list, 39, 65535)
        /\ Option(props, 41, 1) = Says(list, 41, 1)
    BY OptionSays
  <1> HIDE DEF props
  <1>2. options' = HandleConnackProps(props)
    BY DEF props
  <1>3. /\ options'.aliasMax = Says(list, 34, 0)
        /\ options'.maxQos = Says(list, 36, 2)
        /\ options'.retain = Says(list, 37, 1)
        /\ options'.maxSize = Says(list, 39, 65535)
        /\ options'.subIds = Says(list, 41, 1)
        /\ DOMAIN options' = DOMAIN Defaults
    BY <1>1, <1>2 DEF HandleConnackProps, Defaults
  <1>4. QED BY <1>3, SaysNumbers DEF Limits

-----------------------------------------------------------------------------
(* Types. *)

LEMMA UserPropsTyped ==
  <<>> \in UserProps /\ UserProps \subseteq Seq({Pair(n) : n \in Lengths})
  <1>1. \A n \in Lengths : Pair(n) \in {Pair(m) : m \in Lengths}
    OBVIOUS
  <1>2. \A n \in Lengths : <<Pair(n)>> \in Seq({Pair(m) : m \in Lengths})
    BY <1>1
  <1>3. ASSUME NEW user \in UserProps PROVE user \in Seq({Pair(m) : m \in Lengths})
    <2>1. CASE user = <<>>
      BY <2>1
    <2>2. CASE \E n \in Lengths : user = <<Pair(n)>>
      BY <1>2, <2>2
    <2>3. QED BY <2>1, <2>2 DEF UserProps
  <1>4. <<>> \in UserProps
    BY DEF UserProps
  <1>5. QED BY <1>3, <1>4

LEMMA AliasInRange ==
  ASSUME TypeOK, Limits, NEW topic
  PROVE  /\ AliasFor(topic) \in Nat /\ AliasFor(topic) <= options.aliasMax
         /\ ~HasAlias(topic) /\ AliasSpace => Len(tx) + 1 <= options.aliasMax
  <1>1. tx \in Seq(Topics) /\ Len(tx) \in Nat /\ options.aliasMax \in Nat
        /\ Len(tx) <= options.aliasMax /\ DOMAIN tx = 1 .. Len(tx)
    BY DEF TypeOK, Limits
  <1>2. CASE HasAlias(topic)
    <2>1. \E k \in DOMAIN tx : tx[k] = topic
      BY <1>2 DEF HasAlias, Range
    <2>2. (CHOOSE k \in DOMAIN tx : tx[k] = topic) \in DOMAIN tx
      BY <2>1
    <2>3. QED BY <1>1, <1>2, <2>2 DEF AliasFor
  <1>3. CASE ~HasAlias(topic)
    BY <1>1, <1>3 DEF AliasFor, AliasSpace
  <1>4. QED BY <1>2, <1>3

(* What building leaves of a packet, whatever its bytes. *)
LEMMA Built ==
  ASSUME NEW control, NEW count, NEW body, NEW intent, NEW checked,
         Build(control, count, body, intent, checked)
  PROVE  /\ PacketShape' /\ last'.from = "client"
         /\ last'.intent = intent
         /\ checked = TRUE /\ last'.sent => ~(options.maxSize < last'.size)
  BY DEF Build, PacketShape

LEMMA KeepLimits ==
  ASSUME Limits, UNCHANGED <<options, announced>>, running' => running
  PROVE  Limits'
  BY DEF Limits, Says

LEMMA KeepTypes ==
  ASSUME TypeOK, UNCHANGED <<config, options, tx>>, running' \in BOOLEAN,
         last'.from \in {"none", "client", "server"}
  PROVE  TypeOK'
  BY DEF TypeOK, config

LEMMA ReceivedKeeps ==
  ASSUME NEW bytes, NEW meant, Received(bytes, meant)
  PROVE  PacketShape' /\ OptionsRespected' /\ last'.from = "server"
  BY DEF Received, PacketShape, OptionsRespected, FromClient

(* Configuring happens between packets. *)
LEMMA ConfigureKeeps ==
  ASSUME TypeOK, PacketShape, Limits, OptionsRespected, Configure
  PROVE  TypeOK' /\ PacketShape' /\ Limits' /\ OptionsRespected'
  <1>1. Setting
    BY DEF Configure, SetWill, SetAuthenticator, AddStaticUserProp, AddDynamicUserProp,
       ResetUserProps
  <1>2. last' = last /\ last.from = "none"
    BY <1>1 DEF Setting, Idle, NoPacket
  <1>3. PacketShape' /\ OptionsRespected'
    BY <1>2 DEF PacketShape, OptionsRespected, FromClient
  <1>4. Limits'
    BY <1>1, KeepLimits DEF Setting
  <1>5. static' \in [Kind -> UserProps] /\ dynamic' \subseteq Kind
    <2>1. CASE UNCHANGED <<static, dynamic>>
      BY <2>1 DEF TypeOK
    <2>2. ASSUME NEW kinds \in {{"PUBLISH"}, Kind}, NEW user \in UserProps,
                 AddStaticUserProp(kinds, user)
          PROVE  static' \in [Kind -> UserProps] /\ dynamic' \subseteq Kind
      BY <2>2 DEF AddStaticUserProp, TypeOK
    <2>3. ASSUME NEW kinds \in {{"PUBLISH"}, Kind}, AddDynamicUserProp(kinds)
          PROVE  static' \in [Kind -> UserProps] /\ dynamic' \subseteq Kind
      BY <2>3 DEF AddDynamicUserProp, TypeOK, Kind
    <2>4. CASE ResetUserProps
      BY <2>4, UserPropsTyped DEF ResetUserProps
    <2>5. QED BY <2>1, <2>2, <2>3, <2>4 DEF Configure, SetWill, SetAuthenticator
  <1>6. TypeOK'
    <2>1. settings' \in 0 .. MaxSettings
      <3>1. settings \in 0 .. MaxSettings /\ MaxSettings \in Nat
        BY SettingsAssumption DEF TypeOK
      <3>2. settings < MaxSettings /\ settings' = settings + 1
        BY <1>1 DEF Setting
      <3>3. QED BY <3>1, <3>2
    <2>2. UNCHANGED <<options, running, tx, last>>
      BY <1>1, <1>2 DEF Setting
    <2>3. QED BY <1>5, <2>1, <2>2 DEF TypeOK
  <1>7. QED BY <1>3, <1>4, <1>6

-----------------------------------------------------------------------------
(* Packets that carry no limit but their size. *)

LEMMA ConnectKeeps ==
  ASSUME TypeOK, PacketShape, Limits,
         NEW clean, NEW user, NEW password, NEW answer,
         ConnectPacket(clean, user, password, answer)
  PROVE  TypeOK' /\ PacketShape' /\ Limits' /\ OptionsRespected'
  <1>1. /\ running' = FALSE /\ UNCHANGED <<config, options, tx, announced>>
        /\ PacketShape' /\ last'.from = "client"
    BY DEF ConnectPacket, Build, PacketShape
  <1>2. TypeOK'
    BY <1>1, KeepTypes
  <1>3. Limits'
    BY <1>1, KeepLimits
  <1>4. QED BY <1>1, <1>2, <1>3 DEF OptionsRespected

LEMMA SizeRespected ==
  ASSUME Limits, running, last'.sent => ~(options.maxSize < last'.size),
         UNCHANGED <<options, running, announced>>
  PROVE  last'.sent => ~(Announced(39, 65535)' < last'.size)
  <1>1. options.maxSize = Announced(39, 65535)'
    BY AnnouncedSays DEF Limits, Announced, Says
  <1>2. QED BY <1>1

LEMMA UnsubscribeKeeps ==
  ASSUME TypeOK, PacketShape, Limits,
         NEW filters, NEW id, NEW answer, UnsubscribePacket(filters, id, answer)
  PROVE  TypeOK' /\ PacketShape' /\ Limits' /\ OptionsRespected'
  <1>1. /\ running /\ UNCHANGED <<config, options, running, tx, announced>>
        /\ PacketShape' /\ last'.from = "client" /\ last'.intent.type = "UNSUBSCRIBE"
        /\ last'.sent => ~(options.maxSize < last'.size)
    BY DEF UnsubscribePacket, Build, PacketShape
  <1>2. TypeOK' /\ Limits'
    BY <1>1, KeepTypes, KeepLimits DEF TypeOK
  <1>3. last'.sent => ~(Announced(39, 65535)' < last'.size)
    BY <1>1, SizeRespected
  <1>4. QED BY <1>1, <1>2, <1>3 DEF OptionsRespected, Is

LEMMA AuthenticationKeeps ==
  ASSUME TypeOK, PacketShape, Limits,
         NEW reason, NEW data, NEW answer, AuthenticationPacket(reason, data, answer)
  PROVE  TypeOK' /\ PacketShape' /\ Limits' /\ OptionsRespected'
  <1>1. /\ UNCHANGED <<config, options, running, tx, announced>>
        /\ PacketShape' /\ last'.from = "client" /\ last'.intent.type = "AUTH"
    BY DEF AuthenticationPacket, Build, PacketShape
  <1>2. TypeOK' /\ Limits'
    BY <1>1, KeepTypes, KeepLimits DEF TypeOK
  <1>3. QED BY <1>1, <1>2 DEF OptionsRespected, Is, FromClient

LEMMA IdGarbageKeeps ==
  ASSUME TypeOK, PacketShape, Limits, NEW control, NEW id, IdGarbage(control, id)
  PROVE  TypeOK' /\ PacketShape' /\ Limits' /\ OptionsRespected'
  <1>1. /\ running /\ UNCHANGED <<config, options, running, tx, announced>>
        /\ PacketShape' /\ last'.from = "client" /\ last'.intent.type = "ACK" /\ last'.size = 4
    BY DEF IdGarbage, PacketShape
  <1>2. TypeOK' /\ Limits'
    BY <1>1, KeepTypes, KeepLimits DEF TypeOK
  <1>3. Announced(39, 65535)' \in {20, 65535}
    <2>1. Announced(39, 65535)' = Announced(39, 65535)
      BY <1>1 DEF Announced
    <2>2. QED BY <1>1, <2>1, AnnouncedSays, SaysNumbers DEF Limits
  <1>4. ~(Announced(39, 65535)' < last'.size)
    BY <1>1, <1>3
  <1>5. QED BY <1>1, <1>2, <1>4 DEF OptionsRespected, Is, FromClient

-----------------------------------------------------------------------------
(* Packets whose properties the server's options limit. *)

(* The user properties of a packet say nothing else. *)
LEMMA UserEntriesTyped ==
  ASSUME TypeOK, NEW kind \in Kind, NEW passed \in Seq({Pair(n) : n \in Lengths}),
         NEW answer \in UserProps
  PROVE  AllUserEntries(kind, passed, answer) \in Seq({Paired(Pair(n)) : n \in Lengths})
  <1> DEFINE all == passed \o static[kind] \o IF kind \in dynamic THEN answer ELSE <<>>
  <1>1. static[kind] \in Seq({Pair(n) : n \in Lengths}) /\ answer \in Seq({Pair(n) : n \in Lengths})
    BY UserPropsTyped DEF TypeOK
  <1>2. all \in Seq({Pair(n) : n \in Lengths})
    BY <1>1
  <1> HIDE DEF all
  <1>3. UserEntries(all) \in Seq({Paired(Pair(n)) : n \in Lengths})
    <2>1. DOMAIN all = 1 .. Len(all) /\ Len(all) \in Nat
      BY <1>2
    <2>2. \A k \in 1 .. Len(all) : Paired(all[k]) \in {Paired(Pair(n)) : n \in Lengths}
      BY <1>2
    <2>3. QED BY <2>1, <2>2 DEF UserEntries
  <1>4. QED BY <1>3 DEF AllUserEntries, all

LEMMA SubscribeEntriesTyped ==
  ASSUME TypeOK, NEW subId, NEW hasCallback, NEW user \in UserProps, NEW answer \in UserProps,
         NEW k \in DOMAIN SubscribeEntries(subId, hasCallback, user, answer),
         SubscribeEntries(subId, hasCallback, user, answer)[k].id = 11
  PROVE  options.subIds = 1
  <1> DEFINE entries == SubscribeEntries(subId, hasCallback, user, answer)
             users   == AllUserEntries("SUBSCRIBE", user, answer)
             E       == {Paired(Pair(n)) : n \in Lengths}
  <1> SUFFICES ASSUME options.subIds # 1 PROVE FALSE
    OBVIOUS
  <1>1. users \in Seq(E)
    BY UserEntriesTyped, UserPropsTyped DEF Kind
  <1>2. entries = <<>> \o users
    BY DEF SubscribeEntries, Only
  <1> HIDE DEF entries, users
  <1>3. entries \in Seq(E)
    BY <1>1, <1>2
  <1>4. entries[k] \in E
    BY <1>3 DEF entries
  <1>5. entries[k].id = 38
    <2>1. PICK n \in Lengths : entries[k] = Paired(Pair(n))
      BY <1>4
    <2>2. QED BY <2>1 DEF Paired, UserProperty
  <1>6. QED BY <1>5 DEF entries

LEMMA SubscribeKeeps ==
  ASSUME TypeOK, PacketShape, Limits,
         NEW filters, NEW id, NEW subId, NEW hasCallback, NEW choice,
         NEW user \in UserProps, NEW answer \in UserProps,
         SubscribePacket(filters, id, subId, hasCallback, choice, user, answer)
  PROVE  TypeOK' /\ PacketShape' /\ Limits' /\ OptionsRespected'
  <1> DEFINE entries == SubscribeEntries(subId, hasCallback, user, answer)
  <1>1. /\ running /\ UNCHANGED <<config, options, running, tx, announced>>
        /\ PacketShape' /\ last'.from = "client" /\ last'.intent.type = "SUBSCRIBE"
        /\ last'.sent => ~(options.maxSize < last'.size)
        /\ last'.intent.props = Meant(entries)
    BY DEF SubscribePacket, Build, PacketShape
  <1>2. TypeOK' /\ Limits'
    BY <1>1, KeepTypes, KeepLimits DEF TypeOK
  <1>3. last'.sent => ~(Announced(39, 65535)' < last'.size)
    BY <1>1, SizeRespected
  <1>4. ASSUME NEW k \in DOMAIN last'.intent.props, last'.intent.props[k][1] = 11
        PROVE  Announced(41, 1)' = 1
    <2>1. k \in DOMAIN entries /\ entries[k].id = 11
      BY <1>1, <1>4 DEF Meant
    <2>2. options.subIds = 1
      BY <2>1, SubscribeEntriesTyped
    <2>3. Announced(41, 1)' = Announced(41, 1)
      BY <1>1 DEF Announced
    <2>4. QED BY <1>1, <2>2, <2>3, AnnouncedSays DEF Limits
  <1>5. QED BY <1>1, <1>2, <1>3, <1>4 DEF OptionsRespected, Is, FromClient

LEMMA MessageUser ==
  ASSUME NEW p \in MessageProps
  PROVE  p.user \in Seq({Pair(n) : n \in Lengths})
  <1>1. <<>> \in Seq({Pair(n) : n \in Lengths})
    OBVIOUS
  <1>2. CASE p = NoProps
    BY <1>1, <1>2 DEF NoProps
  <1>3. CASE p \in {Some("expiry", 300), Some("format", 1), Some("content", Text(99, 3)),
                    Some("response", Text(114, 4)), Some("correlation", Text(0, 5))}
    <2>1. p.user = <<>>
      BY <1>3 DEF Some, NoProps
    <2>2. QED BY <1>1, <2>1
  <1>4. CASE \E n \in Lengths : p = AllProps(n)
    <2>1. PICK n \in Lengths : p = AllProps(n)
      BY <1>4
    <2>2. p.user = <<Pair(n)>>
      BY <2>1 DEF AllProps
    <2>3. Pair(n) \in {Pair(m) : m \in Lengths}
      OBVIOUS
    <2>4. QED BY <2>2, <2>3
  <1>5. QED BY <1>2, <1>3, <1>4 DEF MessageProps

(* The properties of a PUBLISH: an alias is the only one with identifier 35. *)
LEMMA PublishEntriesTyped ==
  ASSUME TypeOK, NEW p \in MessageProps, NEW alias, NEW answer \in UserProps,
         NEW k \in DOMAIN PublishEntries(p, alias, answer),
         PublishEntries(p, alias, answer)[k].id = 35
  PROVE  PublishEntries(p, alias, answer)[k].value = alias
  <1> DEFINE entries == PublishEntries(p, alias, answer)
             users   == AllUserEntries("PUBLISH", p.user, answer)
             U       == {Paired(Pair(n)) : n \in Lengths}
             E       == U \cup {Number(1, p.format, 2), Number(2, p.expiry, 5),
                                Texted(8, p.response), Texted(9, p.correlation),
                                Number(35, alias, 3), Texted(3, p.content)}
  <1>1. users \in Seq(U)
    BY UserEntriesTyped, MessageUser DEF Kind
  <1>2. \A e \in E : <<>> \in Seq(E) /\ <<e>> \in Seq(E)
    <2> HIDE DEF E
    <2>1. QED OBVIOUS
  <1>3. users \in Seq(E)
    <2>1. U \subseteq E
      OBVIOUS
    <2> HIDE DEF users, U, E
    <2>2. QED BY <1>1, <2>1
  <1>4. /\ Only(p.format # 0, Number(1, p.format, 2)) \in Seq(E)
        /\ Only(p.expiry # 0, Number(2, p.expiry, 5)) \in Seq(E)
        /\ Only(p.response # <<>>, Texted(8, p.response)) \in Seq(E)
        /\ Only(p.correlation # <<>>, Texted(9, p.correlation)) \in Seq(E)
        /\ Only(alias # 0, Number(35, alias, 3)) \in Seq(E)
        /\ Only(p.content # <<>>, Texted(3, p.content)) \in Seq(E)
    <2>1. /\ Number(1, p.format, 2) \in E /\ Number(2, p.expiry, 5) \in E
          /\ Texted(8, p.response) \in E /\ Texted(9, p.correlation) \in E
          /\ Number(35, alias, 3) \in E /\ Texted(3, p.content) \in E
      OBVIOUS
    <2> HIDE DEF E
    <2>2. QED BY <1>2, <2>1 DEF Only
  <1>5. entries \in Seq(E)
    <2> HIDE DEF users, E
    <2>1. QED BY <1>3, <1>4 DEF PublishEntries, users
  <1>6. entries[k] \in E
    <2> HIDE DEF entries, E
    <2>1. k \in DOMAIN entries
      BY DEF entries
    <2>2. QED BY <1>5, <2>1
  <1>7. ASSUME NEW e \in E, e.id = 35 PROVE e.value = alias
    <2>1. CASE e \in U
      <3>1. PICK n \in Lengths : e = Paired(Pair(n))
        BY <2>1
      <3>2. QED BY <1>7, <3>1 DEF Paired, UserProperty
    <2>2. CASE e \notin U
      BY <1>7, <2>2 DEF Number, Texted
    <2>3. QED BY <2>1, <2>2
  <1>8. QED BY <1>6, <1>7

LEMMA QosRespected ==
  ASSUME Limits, NEW asked \in 0 .. 2, NEW r \in {0, 1}
  PROVE  /\ ((2 * GrantedQos(asked) + r) \div 2) % 4 <= options.maxQos
         /\ (2 * GrantedQos(asked) + r) % 2 = r
  <1>1. GrantedQos(asked) \in 0 .. 2 /\ GrantedQos(asked) <= options.maxQos
    BY DEF Limits, GrantedQos, Lesser
  <1>2. \A q \in 0 .. 2 : ((2 * q + r) \div 2) % 4 = q /\ (2 * q + r) % 2 = r
    OBVIOUS
  <1>3. QED BY <1>1, <1>2

LEMMA PublishKeeps ==
  ASSUME TypeOK, PacketShape, Limits,
         NEW topic \in Topics, NEW asked \in 0 .. 2, NEW retain \in BOOLEAN, NEW id, NEW payload,
         NEW p \in MessageProps, NEW answer \in UserProps,
         PublishPacket(topic, asked, retain, id, payload, p, answer)
  PROVE  TypeOK' /\ PacketShape' /\ Limits' /\ OptionsRespected'
  <1> DEFINE entries == PublishEntries(p, AliasFor(topic), answer)
             r       == IF retain /\ options.retain = 1 THEN 1 ELSE 0
  <1>1. /\ running /\ UNCHANGED <<config, options, running, announced>>
        /\ tx' = IF ~HasAlias(topic) /\ AliasSpace THEN Append(tx, topic) ELSE tx
        /\ PacketShape' /\ last'.from = "client" /\ last'.intent.type = "PUBLISH"
        /\ last'.sent => ~(options.maxSize < last'.size)
        /\ last'.intent.props = Meant(entries)
        /\ last'.intent.flags = 2 * GrantedQos(asked) + r
    BY DEF PublishPacket, Build, PacketShape
  <1>2. Limits'
    BY <1>1, KeepLimits
  <1>3. tx' \in Seq(Topics) /\ Len(tx') <= options'.aliasMax
    BY <1>1, AliasInRange DEF TypeOK
  <1>4. TypeOK'
    BY <1>1, <1>3 DEF TypeOK, config
  <1>5. last'.sent => ~(Announced(39, 65535)' < last'.size)
    BY <1>1, SizeRespected
  <1>6. /\ Announced(36, 2)' = options.maxQos
        /\ Announced(37, 1)' = options.retain
        /\ Announced(34, 0)' = options.aliasMax
    <2>1. /\ Announced(36, 2)' = Announced(36, 2) /\ Announced(37, 1)' = Announced(37, 1)
          /\ Announced(34, 0)' = Announced(34, 0)
      BY <1>1 DEF Announced
    <2>2. QED BY <1>1, <2>1, AnnouncedSays DEF Limits
  <1>7. /\ (last'.intent.flags \div 2) % 4 <= Announced(36, 2)'
        /\ last'.intent.flags % 2 = 1 => Announced(37, 1)' = 1
    <2>1. r \in {0, 1}
      OBVIOUS
    <2>2. ((2 * GrantedQos(asked) + r) \div 2) % 4 <= options.maxQos
          /\ (2 * GrantedQos(asked) + r) % 2 = r
      BY <2>1, QosRespected
    <2>3. QED BY <1>1, <1>6, <2>2
  <1>8. ASSUME NEW k \in DOMAIN last'.intent.props, last'.intent.props[k][1] = 35
        PROVE  last'.intent.props[k][2] <= Announced(34, 0)'
    <2>1. k \in DOMAIN entries /\ entries[k].id = 35 /\ last'.intent.props[k][2] = entries[k].value
      BY <1>1, <1>8 DEF Meant
    <2>2. entries[k].value = AliasFor(topic)
      BY <2>1, PublishEntriesTyped
    <2>3. QED BY <1>6, <2>1, <2>2, AliasInRange
  <1>9. QED BY <1>1, <1>2, <1>4, <1>5, <1>7, <1>8 DEF OptionsRespected, Is, FromClient

-----------------------------------------------------------------------------
(* Packets that set the options. *)

LEMMA ConnackKeeps ==
  ASSUME ConnackReadBack, TypeOK, NEW present \in {0, 1}, NEW list \in ConnackLists,
         ReceiveConnack(present, list)
  PROVE  TypeOK' /\ PacketShape' /\ Limits' /\ OptionsRespected'
  <1>1. Limits' /\ DOMAIN options' = DOMAIN Defaults
    BY HandledConnack DEF ReceiveConnack
  <1>2. PacketShape' /\ OptionsRespected' /\ last'.from = "server"
    BY ReceivedKeeps DEF ReceiveConnack
  <1>3. tx' \in Seq(Topics) /\ Len(tx') <= options'.aliasMax
    BY <1>1 DEF ReceiveConnack, Limits
  <1>4. running' \in BOOLEAN /\ UNCHANGED config
    BY DEF ReceiveConnack
  <1>5. TypeOK'
    BY <1>1, <1>2, <1>3, <1>4 DEF TypeOK, config
  <1>6. QED BY <1>1, <1>2, <1>5

LEMMA ResendKeeps ==
  ASSUME ConnackReadBack, TypeOK, PacketShape, NEW list \in ConnackLists, ResendPublish(list)
  PROVE  TypeOK' /\ PacketShape' /\ Limits' /\ OptionsRespected'
  <1>1. Limits' /\ DOMAIN options' = DOMAIN Defaults
    BY HandledConnack DEF ResendPublish
  <1>2. PacketShape' /\ last'.from = "client" /\ last'.resent = TRUE
    <2>1. \E t \in {Traits(last.bytes)} :
          \E topic \in {IF t.topic = <<>> THEN tx[t.alias] ELSE t.topic} :
          \E bytes \in {WithDup(IF t.topic = <<>> THEN Inserted(last.bytes, t, topic)
                                ELSE last.bytes)} :
            last' = [last EXCEPT !.bytes = bytes, !.written = Len(bytes), !.size = Len(bytes),
                                 !.resent = TRUE, !.intent.texts[1] = topic,
                                 !.intent.flags = @ + 8,
                                 !.rl = VbiLength[DecodeVbi(last.bytes, 2).value]]
      BY DEF ResendPublish
    <2>2. last.from = "client"
      BY DEF ResendPublish
    <2>3. DOMAIN last = {"from", "written", "size", "bytes", "intent", "resent", "rl", "sent"}
      BY <2>2 DEF PacketShape, FromClient
    <2>4. QED BY <2>1, <2>2, <2>3 DEF PacketShape
  <1>3. OptionsRespected'
    BY <1>2 DEF OptionsRespected
  <1>4. tx' \in Seq(Topics) /\ Len(tx') <= options'.aliasMax
    BY <1>1 DEF ResendPublish, Limits
  <1>5. UNCHANGED <<config, running>>
    BY DEF ResendPublish
  <1>6. TypeOK'
    BY <1>1, <1>2, <1>4, <1>5 DEF TypeOK, config
  <1>7. QED BY <1>1, <1>2, <1>3, <1>6

(* The other packets of the server, and the end of a packet. *)
LEMMA OthersKeep ==
  ASSUME TypeOK, Limits, UNCHANGED <<config, options, running, tx, announced>>,
         last' = NoPacket \/ \E bytes, meant : Received(bytes, meant)
  PROVE  TypeOK' /\ PacketShape' /\ Limits' /\ OptionsRespected'
  <1>1. PacketShape' /\ OptionsRespected' /\ last'.from \in {"none", "client", "server"}
    <2>1. CASE last' = NoPacket
      BY <2>1 DEF NoPacket, PacketShape, OptionsRespected, FromClient
    <2>2. CASE \E bytes, meant : Received(bytes, meant)
      BY <2>2, ReceivedKeeps
    <2>3. QED BY <2>1, <2>2
  <1>2. QED BY <1>1, KeepTypes, KeepLimits DEF TypeOK

-----------------------------------------------------------------------------
Premise == TypeOK /\ PacketShape /\ Limits /\ OptionsRespected

LEMMA InitPremise == Init => Premise
  <1> SUFFICES ASSUME Init PROVE Premise
    OBVIOUS
  <1>1. TypeOK
    <2>1. settings \in 0 .. MaxSettings
      <3>1. settings = 0
        BY DEF Init
      <3>2. QED BY <3>1, SettingsAssumption
    <2>2. static \in [Kind -> UserProps] /\ dynamic \subseteq Kind
      BY UserPropsTyped DEF Init
    <2>3. running \in BOOLEAN
      BY DEF Init
    <2>4. DOMAIN options = DOMAIN Defaults /\ options.aliasMax = 0
      BY DEF Init, Defaults
    <2>5. tx \in Seq(Topics) /\ Len(tx) = 0
      <3>1. <<>> \in Seq(Topics) /\ Len(<<>>) = 0
        OBVIOUS
      <3>2. QED BY <3>1 DEF Init
    <2>6. last.from \in {"none", "client", "server"}
      BY DEF Init, NoPacket
    <2>7. Len(tx) <= options.aliasMax
      BY <2>4, <2>5
    <2>8. QED BY <2>1, <2>2, <2>3, <2>4, <2>5, <2>6, <2>7 DEF TypeOK
  <1>2. QED BY <1>1 DEF Init, Premise, PacketShape, Limits, OptionsRespected, FromClient,
       NoPacket, Defaults

LEMMA SendKeeps ==
  ASSUME Premise, Send PROVE Premise'
  <1> USE DEF Premise
  <1>1. \A kind \in Kind : Answers(kind) \subseteq UserProps
    BY UserPropsTyped DEF Answers
  <1>2. ASSUME NEW clean \in BOOLEAN, NEW user, NEW password, NEW answer,
               ConnectPacket(clean, user, password, answer)
        PROVE  Premise'
    BY <1>2, ConnectKeeps
  <1>3. ASSUME NEW topic \in Topics, NEW qos \in 0 .. 2, NEW clear \in BOOLEAN, NEW id \in Ids,
               NEW p \in MessageProps, NEW answer \in Answers("PUBLISH"),
               PublishPacket(topic, qos, clear, id, Payload(topic, clear), p, answer)
        PROVE  Premise'
    BY <1>1, <1>3, PublishKeeps DEF Kind
  <1>4. ASSUME NEW filters \in FilterLists, NEW id \in Ids, NEW subId \in {0, 1, Radix},
               NEW user \in UserProps, NEW answer \in Answers("SUBSCRIBE"),
               SubscribePacket(filters, id, subId, subId # 0, 25, user, answer)
        PROVE  Premise'
    <2>1. answer \in UserProps
      BY <1>1 DEF Kind
    <2>2. PICK hasCallback : SubscribePacket(filters, id, subId, hasCallback, 25, user, answer)
      BY <1>4
    <2>3. QED BY <2>1, <2>2, SubscribeKeeps
  <1>5. ASSUME NEW filters, NEW id, NEW answer, UnsubscribePacket(filters, id, answer)
        PROVE  Premise'
    BY <1>5, UnsubscribeKeeps
  <1>6. ASSUME NEW reason, NEW data, NEW answer, AuthenticationPacket(reason, data, answer)
        PROVE  Premise'
    BY <1>6, AuthenticationKeeps
  <1>7. ASSUME NEW control, NEW id, IdGarbage(control, id)
        PROVE  Premise'
    BY <1>7, IdGarbageKeeps
  <1>8. QED BY <1>2, <1>3, <1>4, <1>5, <1>6, <1>7 DEF Send

LEMMA ReceiveKeeps ==
  ASSUME ConnackReadBack, Premise, Receive PROVE Premise'
  <1> USE DEF Premise
  <1>1. CASE \E present \in {0, 1}, list \in ConnackLists : ReceiveConnack(present, list)
    BY <1>1, ConnackKeeps
  <1>2. CASE \E list \in ConnackLists : ResendPublish(list)
    BY <1>2, ResendKeeps
  <1>3. CASE /\ UNCHANGED <<config, options, running, tx, announced>>
             /\ \E bytes, meant : Received(bytes, meant)
    BY <1>3, OthersKeep
  <1>4. \/ \E present \in {0, 1}, list \in ConnackLists : ReceiveConnack(present, list)
        \/ \E list \in ConnackLists : ResendPublish(list)
        \/ \E topic, qos, retain, id, list, payload :
             ReceivePublish(topic, qos, retain, id, list, payload)
        \/ \E type, id, reason, list : ReceiveAck(type, id, reason, list)
        \/ \E type, id, list, reasons : ReceiveSuback(type, id, list, reasons)
        \/ \E type, reason, list : ReceiveReason(type, reason, list)
    BY DEF Receive
  <1>5. ASSUME NEW topic, NEW qos, NEW retain, NEW id, NEW list, NEW payload,
               ReceivePublish(topic, qos, retain, id, list, payload)
        PROVE  Premise'
    BY <1>3, <1>5 DEF ReceivePublish
  <1>6. ASSUME NEW type, NEW id, NEW reason, NEW list, ReceiveAck(type, id, reason, list)
        PROVE  Premise'
    BY <1>3, <1>6 DEF ReceiveAck
  <1>7. ASSUME NEW type, NEW id, NEW list, NEW reasons, ReceiveSuback(type, id, list, reasons)
        PROVE  Premise'
    BY <1>3, <1>7 DEF ReceiveSuback
  <1>8. ASSUME NEW type, NEW reason, NEW list, ReceiveReason(type, reason, list)
        PROVE  Premise'
    BY <1>3, <1>8 DEF ReceiveReason
  <1>9. QED BY <1>1, <1>2, <1>4, <1>5, <1>6, <1>7, <1>8

LEMMA NextPremise == ConnackReadBack /\ Premise /\ [Next]_vars => Premise'
  <1> SUFFICES ASSUME ConnackReadBack, Premise, [Next]_vars PROVE Premise'
    OBVIOUS
  <1>1. CASE Configure
    BY <1>1, ConfigureKeeps DEF Premise
  <1>2. CASE Send
    BY <1>2, SendKeeps
  <1>3. CASE Receive
    BY <1>3, ReceiveKeeps
  <1>4. CASE Handled
    BY <1>4, OthersKeep DEF Handled, Premise
  <1>5. CASE UNCHANGED vars
    <2>1. /\ UNCHANGED <<settings, static, dynamic, options, running, tx, announced, last>>
          /\ UNCHANGED <<config, options, tx, announced>>
      BY <1>5 DEF vars, config
    <2>2. TypeOK' /\ Limits'
      BY <2>1 DEF Premise, TypeOK, Limits, Says
    <2>3. PacketShape'
      BY <2>1 DEF Premise, PacketShape, FromClient
    <2>4. OptionsRespected'
      BY <2>1 DEF Premise, OptionsRespected, Announced, FromClient, Is
    <2>5. QED BY <2>2, <2>3, <2>4 DEF Premise
  <1>6. QED BY <1>1, <1>2, <1>3, <1>4, <1>5 DEF Next

(* Every variable keeps its type; there are never more aliases than the server
   takes. *)
THEOREM PacketTypesCorrect ==
  ASSUME ConnackReadBack PROVE Spec => []TypeOK
  <1>1. Premise => TypeOK
    BY DEF Premise
  <1>2. Premise /\ [Next]_vars => Premise'
    BY NextPremise
  <1>3. QED BY <1>1, <1>2, InitPremise, PTL DEF Spec

(* No packet built on a connection asks for what its CONNACK ruled out or did not
   mention: _handleConnackProps leaves nothing of an earlier server, and each
   builder compares with every limit that concerns it. *)
THEOREM OptionsAlwaysRespected ==
  ASSUME ConnackReadBack PROVE Spec => []OptionsRespected
  <1>1. Premise => OptionsRespected
    BY DEF Premise
  <1>2. Premise /\ [Next]_vars => Premise'
    BY NextPremise
  <1>3. QED BY <1>1, <1>2, InitPremise, PTL DEF Spec
=============================================================================
