------------------------------- MODULE Codec -------------------------------
(***************************************************************************)
(* The client's encoders and decoders: integers, strings, properties, and  *)
(* mqttTraits, which takes a whole packet apart.  A packet is the sequence *)
(* of its bytes.  Only the radix of a variable byte integer is scaled: 128 *)
(* in the code, 8 in the runs, so that short packets cross the lengths at  *)
(* which a length needs one more byte.                                     *)
(***************************************************************************)
EXTENDS Integers, Sequences, SequencesExt

CONSTANT Radix   \* 128: the values of one byte of a variable byte integer

ASSUME CodecAssumption == Radix \in Nat /\ Radix > 4

(* Past the end there is memory of another object; no well-formed packet makes
   the client read it. *)
At(b, i) == IF i \in DOMAIN b THEN b[i] ELSE 0

Only(condition, e) == IF condition THEN <<e>> ELSE <<>>

Poke16(n) == <<n \div 256, n % 256>>

Peek16(b, i) == At(b, i) * 256 + At(b, i + 1)

Slice(b, i, n) == [k \in 1 .. n |-> At(b, i + k - 1)]

(* encodeVariableByteInteger: the low digit first, each but the last with the
   continuation bit. *)
EncodeVbi[n \in Nat] ==
  IF n < Radix THEN <<n>> ELSE <<(n % Radix) + Radix>> \o EncodeVbi[n \div Radix]

(* varBytesLength *)
VbiLength[n \in Nat] == IF n < Radix THEN 1 ELSE 1 + VbiLength[n \div Radix]

Continues(byte) == (byte \div Radix) % 2 = 1

(* The three decoders, of the remaining length, of a property length and of a
   property, reject an integer of four bytes. *)
DecodeVbi(b, i) ==
  LET last == {k \in 0 .. 2 : /\ ~Continues(At(b, i + k))
                              /\ \A j \in 0 .. k - 1 : Continues(At(b, i + j))}
      digit(k) == At(b, i + k) % Radix
  IN IF last = {} THEN [ok |-> FALSE, value |-> 0, next |-> i + 3]
     ELSE LET n == CHOOSE k \in last : TRUE
          IN [ok |-> TRUE, next |-> i + n + 1,
              value |-> digit(0) + (IF n > 0 THEN digit(1) * Radix ELSE 0)
                                 + (IF n > 1 THEN digit(2) * Radix * Radix ELSE 0)]

EncodeString(s) == Poke16(Len(s)) \o s

DecodeString(b, i) == Slice(b, i + 2, Peek16(b, i))

-----------------------------------------------------------------------------
(* Properties.  A value is a number, a string (UTF-8 or binary), or a pair of
   strings; a length adds what the builder of a packet counts for it. *)

UserProperty == 38

Number(id, value, width) == [id |-> id, value |-> value, width |-> width]

Texted(id, value) == [id |-> id, value |-> value, width |-> 3 + Len(value)]

Paired(p) == [id |-> UserProperty, value |-> p, width |-> 5 + Len(p[1]) + Len(p[2])]

(* Slip: Request Problem Information is not among the one-byte properties. *)
SerializeNumberBut23(id, v) ==
  CASE id \in {1, 25, 36, 37, 40, 41, 42} -> <<id, v % 256>>
    [] id \in {19, 33, 34, 35}            -> <<id>> \o Poke16(v)
    [] id = 11                            -> <<id>> \o EncodeVbi[v]
    [] id \in {2, 17, 24, 39}             -> <<id, 0, 0>> \o Poke16(v)
    [] OTHER                              -> <<>>

(* serializeProperty of a number (here below 2^16); an identifier that is not
   in its table writes nothing. *)
SerializeNumber(id, v) ==
  CASE id \in {1, 23, 25, 36, 37, 40, 41, 42} -> <<id, v % 256>>
    [] id \in {19, 33, 34, 35}                -> <<id>> \o Poke16(v)
    [] id = 11                                -> <<id>> \o EncodeVbi[v]
    [] id \in {2, 17, 24, 39}                 -> <<id, 0, 0>> \o Poke16(v)
    [] OTHER                                  -> <<>>

(* serializeProperty of a string, of binary data, and serializeUserProperty. *)
Serialize(p) ==
  CASE p.id \in {3, 8, 18, 21, 26, 28, 31} \cup {9, 22} -> <<p.id>> \o EncodeString(p.value)
    [] p.id = UserProperty -> <<p.id>> \o EncodeString(p.value[1]) \o EncodeString(p.value[2])
    [] OTHER               -> SerializeNumber(p.id, p.value)

SerializeAll(props) == FlattenSeq([k \in DOMAIN props |-> Serialize(props[k])])

(* What a builder adds to _propertyLength. *)
PropertyLength(props) == FoldSeq(LAMBDA p, n : p.width + n, 0, props)

(* One case of parseProperties: the property after identifier `id`, the bytes it
   takes off the property length, and whether it is malformed. *)
ParseOne(id, b, i) ==
  LET parsed(v, took, bad) == [id |-> id, value |-> v, took |-> took, malformed |-> bad]
      s == DecodeString(b, i)
      t == DecodeString(b, i + 2 + Len(s))
      n == DecodeVbi(b, i)
  IN CASE id \in {3, 8, 18, 21, 26, 28, 31} \cup {9, 22} -> parsed(s, 2 + Len(s), FALSE)
       [] id = UserProperty -> parsed(<<s, t>>, 4 + Len(s) + Len(t), FALSE)
       [] id \in {1, 23, 25, 37, 40, 41, 42} -> parsed(At(b, i), 1, At(b, i) > 1)
       [] id = 36 -> parsed(At(b, i), 1, FALSE)
       [] id \in {19, 33, 34, 35} -> parsed(Peek16(b, i), 2, FALSE)
       [] id = 11 -> parsed(n.value, n.next - i, ~n.ok)
       [] id \in {2, 17, 24, 39} ->
            parsed(Peek16(b, i) * 65536 + Peek16(b, i + 2), 4, FALSE)
       [] OTHER -> parsed(0, 0, TRUE)

(* The loop of parseProperties: until the length is used up.  A length that is
   exceeded wraps, and the loop leaves the packet: malformed here. *)
ParseFrom(b) ==
  LET rest[i \in Nat, left \in Int] ==
        LET after(p) ==
              IF p.malformed THEN [ok |-> FALSE, props |-> <<>>, next |-> i + 1]
              ELSE [rest[i + 1 + p.took, left - 1 - p.took] EXCEPT
                      !.props = <<[id |-> p.id, value |-> p.value]>> \o @]
        IN IF left <= 0 THEN [ok |-> left = 0, props |-> <<>>, next |-> i]
           ELSE after(ParseOne(At(b, i), b, i + 1))
  IN rest

ParseProperties(b, i) ==
  LET list(n) == IF n.ok THEN ParseFrom(b)[n.next, n.value]
                 ELSE [ok |-> FALSE, props |-> <<>>, next |-> n.next]
  IN list(DecodeVbi(b, i))

Values(props, id) == {props[k].value : k \in {j \in DOMAIN props : props[j].id = id}}

(* getNumericProperty: the first one, or zero. *)
GetNumeric(props, id) ==
  IF Values(props, id) = {} THEN 0
  ELSE props[CHOOSE k \in DOMAIN props : /\ props[k].id = id
                                         /\ \A j \in 1 .. k - 1 : props[j].id # id].value

-----------------------------------------------------------------------------
(* mqttTraits *)

Connack     == 32
Publish     == 48
Suback      == 144
Unsuback    == 176
Disconnect  == 224
Auth        == 240
ShortAcks   == {64, 80, 98, 112}             \* PUBACK, PUBREC, PUBREL, PUBCOMP
TopicAcks   == {130, Suback, 162, Unsuback}  \* and SUBSCRIBE, UNSUBSCRIBE

IsPublish(type) == type \div 16 = 3

(* What stays as the constructor of the class leaves it. *)
NoTraits(b) ==
  [type |-> b[1], ok |-> TRUE, id |-> 0, qos |-> 0, retain |-> FALSE, dup |-> FALSE,
   topic |-> <<>>, topicIndex |-> 0, present |-> 0, reason |-> 0, props |-> <<>>,
   alias |-> 0, subIds |-> {}, payload |-> <<>>, reasons |-> <<>>]

WithProps(t, parsed) == [t EXCEPT !.ok = parsed.ok, !.props = parsed.props]

(* CONNACK, DISCONNECT and AUTH from the reason code on. *)
ReasonTraits(t, b, i, remlen) ==
  LET r == [t EXCEPT !.reason = At(b, i)]
  IN IF remlen = 0 THEN t
     ELSE IF remlen >= 2 /\ At(b, i + 1) # 0
     THEN WithProps(r, ParseProperties(b, i + 1)) ELSE r

ShortAckTraits(t, b, i, remlen) ==
  LET r == [t EXCEPT !.id = Peek16(b, i), !.reason = IF remlen > 2 THEN At(b, i + 2) ELSE 0]
  IN IF remlen >= 4 /\ At(b, i + 3) # 0 THEN WithProps(r, ParseProperties(b, i + 3)) ELSE r

(* The payload of a SUBACK or UNSUBACK is its reasons. *)
TopicAckTraits(t, b, i) ==
  LET parsed == ParseProperties(b, i + 2)
      has    == At(b, i + 2) # 0
      from   == IF has THEN parsed.next ELSE i + 3
      r      == [t EXCEPT !.id = Peek16(b, i),
                          !.reasons = IF t.type \in {Suback, Unsuback}
                                      THEN SubSeq(b, from, Len(b)) ELSE <<>>]
  IN IF has THEN WithProps(r, parsed) ELSE r

(* A PUBLISH whose topic is at b[i], its identifier or properties at b[idAt]. *)
Message(t, b, topic, i, idAt, parsed) ==
  LET flags == b[1] % 16
      qos   == (flags \div 2) % 4
  IN [t EXCEPT !.retain = flags % 2 = 1, !.dup = flags \div 8 = 1, !.qos = qos,
        !.topic = topic, !.topicIndex = IF topic = <<>> THEN i - 1 ELSE 0,
        !.id = IF qos > 0 THEN Peek16(b, idAt) ELSE 0,
        !.ok = parsed.ok, !.props = parsed.props,
        !.alias = IF parsed.ok THEN GetNumeric(parsed.props, 35) ELSE 0,
        !.subIds = IF parsed.ok THEN Values(parsed.props, 11) ELSE {},
        !.payload = SubSeq(b, parsed.next, Len(b))]

(* Slip: the identifier is skipped before QoS is looked at. *)
PublishTraitsId(t, b, i) ==
  LET from(topic, idAt) == Message(t, b, topic, i, idAt, ParseProperties(b, idAt + 2))
      after(topic)      == from(topic, i + 2 + Len(topic))
  IN after(DecodeString(b, i))

PublishTraits(t, b, i) ==
  LET idLength          == IF (b[1] \div 2) % 4 > 0 THEN 2 ELSE 0
      from(topic, idAt) == Message(t, b, topic, i, idAt, ParseProperties(b, idAt + idLength))
      after(topic)      == from(topic, i + 2 + Len(topic))
  IN after(DecodeString(b, i))

(* mqttTraits of one whole packet; topicIndex counts from 0 as the code does. *)
Traits(b) ==
  LET t == NoTraits(b)
      body(i, remlen) ==
        CASE b[1] = Connack ->
               ReasonTraits([t EXCEPT !.present = At(b, i)], b, i + 1, remlen)
          [] b[1] \in {Disconnect, Auth} -> ReasonTraits(t, b, i, remlen)
          [] b[1] \in ShortAcks -> ShortAckTraits(t, b, i, remlen)
          [] b[1] \in TopicAcks -> TopicAckTraits(t, b, i)
          [] IsPublish(b[1]) -> PublishTraits(t, b, i)
          [] OTHER -> t
      header(n) == IF n.ok THEN body(n.next, n.value) ELSE [t EXCEPT !.ok = FALSE]
  IN header(DecodeVbi(b, 2))
=============================================================================
