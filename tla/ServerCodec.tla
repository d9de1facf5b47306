---------------------------- MODULE ServerCodec ----------------------------
(***************************************************************************)
(* The server's side of the wire, external to the repository: how a server *)
(* that follows MQTT 5 reads what the client sends, and writes what the    *)
(* client reads.  The types of the properties are those the comments of    *)
(* Properties.h declare.  A packet that cannot be read is Malformed.       *)
(***************************************************************************)
EXTENDS Codec

Malformed == [type |-> "malformed"]

(* A variable byte integer of up to four bytes. *)
ReadVbi(b, i) ==
  LET last == {k \in 0 .. 3 : /\ ~Continues(At(b, i + k))
                              /\ \A j \in 0 .. k - 1 : Continues(At(b, i + j))}
      n == IF last = {} THEN 0 ELSE CHOOSE k \in last : TRUE
  IN [ok |-> last # {} /\ i + n <= Len(b), next |-> i + n + 1,
      value |-> FoldFunctionOnSet(+, 0, [k \in 0 .. n |-> (At(b, i + k) % Radix) * Radix^k],
                                  0 .. n)]

ByteProperties == {1, 23, 25, 36, 37, 40, 41, 42}
TwoByteProperties == {19, 33, 34, 35}
FourByteProperties == {2, 17, 24, 39}
StringProperties == {3, 8, 9, 18, 21, 22, 26, 28, 31}

(* The property at b[i]: its value, and where the next one starts. *)
ReadProperty(b, i) ==
  LET id == At(b, i)
      s  == DecodeString(b, i + 1)
      t  == DecodeString(b, i + 3 + Len(s))
      n  == ReadVbi(b, i + 1)
      read(v, size) == [ok |-> TRUE, id |-> id, value |-> v, next |-> i + 1 + size]
  IN CASE id \in ByteProperties     -> read(At(b, i + 1), 1)
       [] id \in TwoByteProperties  -> read(Peek16(b, i + 1), 2)
       [] id \in FourByteProperties -> read(Peek16(b, i + 3), 4)
       [] id \in StringProperties   -> read(s, 2 + Len(s))
       [] id = UserProperty         -> read(<<s, t>>, 4 + Len(s) + Len(t))
       [] id = 11                   -> [read(n.value, n.next - i - 1) EXCEPT !.ok = n.ok]
       [] OTHER                     -> [read(0, 0) EXCEPT !.ok = FALSE]

(* The properties from b[j] to `end`, for every j. *)
ReadList(b, end) ==
  LET from[j \in Nat] ==
        LET then(p) == IF p.ok
                       THEN [from[p.next] EXCEPT !.value = <<<<p.id, p.value>>>> \o @]
                       ELSE [ok |-> FALSE, value |-> <<>>, next |-> j]
        IN IF j >= end THEN [ok |-> j = end /\ end <= Len(b) + 1, value |-> <<>>, next |-> end]
           ELSE then(ReadProperty(b, j))
  IN from

ReadProperties(b, i) ==
  LET list(n) == IF n.ok THEN ReadList(b, n.next + n.value)[n.next]
                 ELSE [ok |-> FALSE, value |-> <<>>, next |-> i]
  IN list(ReadVbi(b, i))

(* Property lists and texts in a row, as `kinds` says. *)
ReadParts(b, from, kinds) ==
  LET list(r, l) == [r EXCEPT !.ok = l.ok, !.next = l.next, !.lists = Append(@, l.value)]
      text(r, s) == [r EXCEPT !.ok = r.next + 1 + Len(s) <= Len(b),
                              !.next = @ + 2 + Len(s), !.texts = Append(@, s)]
      read(r, kind) == IF ~r.ok THEN r
                       ELSE IF kind = "list" THEN list(r, ReadProperties(b, r.next))
                       ELSE text(r, DecodeString(b, r.next))
  IN FoldLeft(read, [ok |-> TRUE, next |-> from, lists |-> <<>>, texts |-> <<>>], kinds)

(* CONNECT: header, properties, client id, the will, the credentials. *)
ReadConnect(b, i) ==
  LET flags == At(b, i + 7)
      bit(k) == (flags \div k) % 2 = 1
      kinds == <<"list", "text">> \o (IF bit(4) THEN <<"list", "text", "text">> ELSE <<>>)
               \o Only(bit(128), "text") \o Only(bit(64), "text")
      connect(r) ==
        IF r.ok /\ r.next = Len(b) + 1
        THEN [type |-> "CONNECT", flags |-> flags, id |-> 0, props |-> r.lists[1],
              willProps |-> IF bit(4) THEN r.lists[2] ELSE <<>>, texts |-> r.texts]
        ELSE Malformed
  IN connect(ReadParts(b, i + 10, kinds))

(* The identifier, two bytes after the topic, only above QoS 0. *)
ReadPublish(b, i) ==
  LET flags == b[1] % 16
      idLength == IF flags \div 2 % 4 > 0 THEN 2 ELSE 0
      publish(topic, idAt, props) ==
        IF props.ok
        THEN [type |-> "PUBLISH", flags |-> flags,
              id |-> IF idLength > 0 THEN Peek16(b, idAt) ELSE 0, props |-> props.value,
              texts |-> <<topic, SubSeq(b, props.next, Len(b))>>]
        ELSE Malformed
      after(topic) == publish(topic, i + 2 + Len(topic),
                              ReadProperties(b, i + 2 + Len(topic) + idLength))
  IN after(DecodeString(b, i))

(* SUBSCRIBE (an options byte after each filter) and UNSUBSCRIBE. *)
ReadFilters(b, i, options) ==
  LET props == ReadProperties(b, i + 2)
      from[j \in Nat] ==
        IF j > Len(b) THEN <<>>
        ELSE LET next == j + 2 + Peek16(b, j) + options
             IN <<IF options = 1 THEN <<DecodeString(b, j), At(b, next - 1)>>
                  ELSE DecodeString(b, j)>> \o from[next]
  IN IF props.ok
     THEN [type |-> IF options = 1 THEN "SUBSCRIBE" ELSE "UNSUBSCRIBE", flags |-> b[1] % 16,
           id |-> Peek16(b, i), props |-> props.value, texts |-> from[props.next]]
     ELSE Malformed

ReadAuth(b, i) ==
  LET props == ReadProperties(b, i + 1)
  IN IF props.ok /\ props.next = Len(b) + 1
     THEN [type |-> "AUTH", flags |-> b[1] % 16, id |-> At(b, i), props |-> props.value,
           texts |-> <<>>]
     ELSE Malformed

(* From the remaining length on. *)
ReadBody(b, i) ==
  CASE b[1] = 16          -> ReadConnect(b, i)
    [] IsPublish(b[1])    -> ReadPublish(b, i)
    [] b[1] = 130         -> ReadFilters(b, i, 1)
    [] b[1] = 162         -> ReadFilters(b, i, 0)
    [] b[1] = Auth        -> ReadAuth(b, i)
    [] b[1] \in ShortAcks -> [type |-> "ACK", id |-> Peek16(b, i)]
    [] OTHER              -> Malformed

(* What the server understands of the bytes of one packet. *)
Understood(b) ==
  LET n == ReadVbi(b, 2)
  IN IF n.ok /\ n.next + n.value = Len(b) + 1 THEN ReadBody(b, n.next) ELSE Malformed

-----------------------------------------------------------------------------
(* What the server writes.  A property is a pair of identifier and value. *)

WriteProperty(p) ==
  LET id == p[1]
      v  == p[2]
  IN <<id>> \o
     (CASE id \in ByteProperties     -> <<v>>
        [] id \in TwoByteProperties  -> Poke16(v)
        [] id \in FourByteProperties -> <<0, 0>> \o Poke16(v)
        [] id \in StringProperties   -> EncodeString(v)
        [] id = UserProperty         -> EncodeString(v[1]) \o EncodeString(v[2])
        [] id = 11                   -> EncodeVbi[v])

WriteProperties(props) ==
  LET all == FlattenSeq([k \in DOMAIN props |-> WriteProperty(props[k])])
  IN EncodeVbi[Len(all)] \o all

WritePacket(type, body) == <<type>> \o EncodeVbi[Len(body)] \o body

WriteConnack(present, reason, props) ==
  WritePacket(Connack, <<present, reason>> \o WriteProperties(props))

(* DISCONNECT or AUTH; with no properties the length may be left out. *)
WriteReason(type, reason, props) ==
  WritePacket(type, <<reason>> \o IF props = <<>> THEN <<>> ELSE WriteProperties(props))

(* PUBACK, PUBREC, PUBREL, PUBCOMP, in the shortest form that says it all. *)
WriteAck(type, id, reason, props) ==
  WritePacket(type, Poke16(id) \o
    (IF props # <<>> THEN <<reason>> \o WriteProperties(props)
     ELSE IF reason # 0 THEN <<reason>> ELSE <<>>))

WriteSuback(type, id, props, reasons) ==
  WritePacket(type, Poke16(id) \o WriteProperties(props) \o reasons)

WritePublish(flags, topic, id, props, payload) ==
  WritePacket(Publish + flags,
    EncodeString(topic) \o (IF (flags \div 2) % 4 = 0 THEN <<>> ELSE Poke16(id))
    \o WriteProperties(props) \o payload)
=============================================================================
