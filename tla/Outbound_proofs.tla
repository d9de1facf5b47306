-------------------------- MODULE Outbound_proofs ---------------------------
(***************************************************************************)
(* The client's publishes and requests, for every value of the constants:  *)
(* none is lost, a QoS 2 message is handed on once, what flow control      *)
(* holds back can be sent, and the session implements Delivery.            *)
(***************************************************************************)
EXTENDS Exchange_proofs

-----------------------------------------------------------------------------
(* Packets in transit: what Carried and OncePerId become when a packet is read
   or written. *)

LEMMA CarriedElement ==
  ASSUME NEW q, NEW T, NEW p
  PROVE  p \in Carried(q, T) <=> p.type \in T /\ \E i \in DOMAIN q : q[i] = p
  BY DEF Carried, Range

LEMMA CarriedEmpty == \A T : Carried(<<>>, T) = {} /\ OncePerId(<<>>, T)
  BY DEF Carried, Range, OncePerId

LEMMA CarriedConcat ==
  ASSUME NEW S, NEW q \in Seq(S), NEW r \in Seq(S), NEW T
  PROVE  Carried(q \o r, T) = Carried(q, T) \cup Carried(r, T)
  <1>1. Range(q \o r) = Range(q) \cup Range(r)
    <2>1. /\ Len(q) \in Nat /\ Len(r) \in Nat
          /\ DOMAIN q = 1 .. Len(q) /\ DOMAIN r = 1 .. Len(r)
          /\ DOMAIN (q \o r) = 1 .. Len(q) + Len(r)
      OBVIOUS
    <2>2. /\ \A i \in DOMAIN q : i \in DOMAIN (q \o r) /\ (q \o r)[i] = q[i]
          /\ \A i \in DOMAIN r : Len(q) + i \in DOMAIN (q \o r) /\ (q \o r)[Len(q) + i] = r[i]
      BY <2>1
    <2>3. \A i \in DOMAIN (q \o r) : \/ i \in DOMAIN q /\ (q \o r)[i] = q[i]
                                     \/ i - Len(q) \in DOMAIN r /\ (q \o r)[i] = r[i - Len(q)]
      BY <2>1
    <2>4. ASSUME NEW x \in Range(q \o r) PROVE x \in Range(q) \cup Range(r)
      <3>1. PICK i \in DOMAIN (q \o r) : x = (q \o r)[i]
        BY DEF Range
      <3>2. QED BY <2>3, <3>1 DEF Range
    <2>5. ASSUME NEW x \in Range(q) \cup Range(r) PROVE x \in Range(q \o r)
      <3>1. CASE x \in Range(q)
        BY <2>2, <3>1 DEF Range
      <3>2. CASE x \in Range(r)
        <4>1. PICK i \in DOMAIN r : x = r[i]
          BY <3>2 DEF Range
        <4>2. Len(q) + i \in DOMAIN (q \o r) /\ x = (q \o r)[Len(q) + i]
          BY <2>2, <4>1
        <4>3. QED BY <4>2 DEF Range
      <3>3. QED BY <3>1, <3>2
    <2>6. QED BY <2>4, <2>5
  <1>2. QED BY <1>1 DEF Carried

LEMMA CarriedOne ==
  ASSUME NEW p, NEW T
  PROVE  /\ Carried(<<p>>, T) = IF p.type \in T THEN {p} ELSE {}
         /\ OncePerId(<<p>>, T)
  <1>1. Range(<<p>>) = {p} /\ DOMAIN <<p>> = {1}
    BY DEF Range
  <1>2. QED BY <1>1 DEF Carried, OncePerId

LEMMA CarriedTail ==
  ASSUME NEW S, NEW q \in Seq(S), q # <<>>, NEW T
  PROVE  Carried(q, T) = Carried(Tail(q), T) \cup Carried(<<Head(q)>>, T)
  <1>1. q = <<Head(q)>> \o Tail(q) /\ Tail(q) \in Seq(S) /\ Head(q) \in S
    OBVIOUS
  <1>2. <<Head(q)>> \in Seq(S)
    BY <1>1
  <1> DEFINE h == <<Head(q)>>
             t == Tail(q)
  <1>3. h \in Seq(S) /\ t \in Seq(S) /\ q = h \o t
    BY <1>1, <1>2
  <1> HIDE DEF h, t
  <1>4. Carried(h \o t, T) = Carried(h, T) \cup Carried(t, T)
    BY <1>3, CarriedConcat
  <1>5. Carried(q, T) = Carried(t, T) \cup Carried(h, T)
    BY <1>3, <1>4
  <1>6. QED BY <1>5 DEF h, t

LEMMA OnceConcat ==
  ASSUME NEW S, NEW q \in Seq(S), NEW r \in Seq(S), NEW T,
         OncePerId(q, T), OncePerId(r, T),
         \A a \in Carried(q, T), b \in Carried(r, T) : a.id # b.id
  PROVE  OncePerId(q \o r, T)
  <1>1. /\ Len(q) \in Nat /\ Len(r) \in Nat
        /\ DOMAIN q = 1 .. Len(q) /\ DOMAIN r = 1 .. Len(r)
        /\ DOMAIN (q \o r) = 1 .. Len(q) + Len(r)
    OBVIOUS
  <1>2. \A i \in DOMAIN (q \o r) :
          \/ i \in DOMAIN q /\ (q \o r)[i] = q[i]
          \/ i - Len(q) \in DOMAIN r /\ (q \o r)[i] = r[i - Len(q)] /\ i > Len(q)
    BY <1>1
  <1>3. \A i \in DOMAIN q, j \in DOMAIN r :
          q[i].type \in T /\ r[j].type \in T => q[i].id # r[j].id
    BY DEF Carried, Range
  <1> DEFINE s == q \o r
  <1>4. SUFFICES ASSUME NEW i \in DOMAIN s, NEW j \in DOMAIN s,
                        s[i].type \in T, s[j].type \in T, s[i].id = s[j].id
                 PROVE  i = j
    BY DEF OncePerId
  <1>5. CASE i \in DOMAIN q /\ s[i] = q[i] /\ j \in DOMAIN q /\ s[j] = q[j]
    BY <1>4, <1>5 DEF OncePerId
  <1>6. CASE /\ i - Len(q) \in DOMAIN r /\ s[i] = r[i - Len(q)]
             /\ j - Len(q) \in DOMAIN r /\ s[j] = r[j - Len(q)]
    <2>1. i - Len(q) = j - Len(q)
      BY <1>4, <1>6 DEF OncePerId
    <2>2. QED BY <1>1, <1>4, <2>1
  <1>7. QED BY <1>2, <1>3, <1>4, <1>5, <1>6

LEMMA OnceTail ==
  ASSUME NEW S, NEW q \in Seq(S), q # <<>>, NEW T, OncePerId(q, T)
  PROVE  /\ OncePerId(Tail(q), T)
         /\ Head(q).type \in T => \A p \in Carried(Tail(q), T) : p.id # Head(q).id
  <1>1. /\ Len(q) \in Nat \ {0} /\ DOMAIN q = 1 .. Len(q) /\ Head(q) = q[1]
        /\ DOMAIN Tail(q) = 1 .. Len(q) - 1
        /\ \A i \in DOMAIN Tail(q) : i + 1 \in DOMAIN q /\ Tail(q)[i] = q[i + 1] /\ i + 1 # 1
    OBVIOUS
  <1>2. OncePerId(Tail(q), T)
    <2> SUFFICES ASSUME NEW i \in DOMAIN Tail(q), NEW j \in DOMAIN Tail(q),
                        q[i + 1].type \in T, q[j + 1].type \in T, q[i + 1].id = q[j + 1].id
                 PROVE  i = j
      BY <1>1 DEF OncePerId
    <2>1. i + 1 = j + 1
      BY <1>1 DEF OncePerId
    <2>2. QED BY <1>1, <2>1
  <1>3. ASSUME Head(q).type \in T, NEW p \in Carried(Tail(q), T) PROVE p.id # Head(q).id
    <2>1. PICK i \in DOMAIN Tail(q) : Tail(q)[i] = p /\ p.type \in T
      BY <1>3 DEF Carried, Range
    <2>2. q[i + 1] = p /\ i + 1 \in DOMAIN q /\ 1 \in DOMAIN q /\ i + 1 # 1
      BY <1>1, <2>1
    <2>3. QED BY <1>1, <1>3, <2>1, <2>2 DEF OncePerId
  <1>4. QED BY <1>2, <1>3

LEMMA ExchangedCarried ==
  ASSUME NEW S, NEW q \in Seq(S), NEW i \in 1 .. Len(q) - 1, NEW T
  PROVE  /\ Carried(Exchanged(q, i), T) = Carried(q, T)
         /\ OncePerId(q, T) => OncePerId(Exchanged(q, i), T)
  <1> DEFINE swap(j) == IF j = i THEN i + 1 ELSE IF j = i + 1 THEN i ELSE j
  <1>1. PICK r : r = Exchanged(q, i)
    OBVIOUS
  <1>2. /\ i \in DOMAIN q /\ i + 1 \in DOMAIN q /\ i # i + 1
        /\ DOMAIN r = DOMAIN q
        /\ r[i] = q[i + 1] /\ r[i + 1] = q[i]
        /\ \A j \in DOMAIN q : j # i /\ j # i + 1 => r[j] = q[j]
    BY <1>1, ExchangedType
  <1>3. \A j \in DOMAIN q : swap(j) \in DOMAIN q /\ swap(swap(j)) = j /\ r[j] = q[swap(j)]
    BY <1>2
  <1> HIDE DEF swap
  <1>4. Range(r) = Range(q)
    <2>1. \A j \in DOMAIN q : q[j] = r[swap(j)]
      BY <1>3
    <2>2. QED BY <1>2, <1>3, <2>1 DEF Range
  <1>5. ASSUME OncePerId(q, T) PROVE OncePerId(r, T)
    <2> SUFFICES ASSUME NEW j \in DOMAIN q, NEW k \in DOMAIN q,
                        r[j].type \in T, r[k].type \in T, r[j].id = r[k].id
                 PROVE  j = k
      BY <1>2 DEF OncePerId
    <2>1. swap(j) = swap(k)
      BY <1>3, <1>5 DEF OncePerId
    <2>2. QED BY <1>3, <2>1
  <1>6. QED BY <1>1, <1>4, <1>5 DEF Carried

LEMMA CarriedAppend ==
  ASSUME NEW S, NEW q \in Seq(S), NEW p \in S, NEW T
  PROVE  /\ Carried(Append(q, p), T)
              = Carried(q, T) \cup (IF p.type \in T THEN {p} ELSE {})
         /\ OncePerId(q, T) /\ (p.type \in T => \A a \in Carried(q, T) : a.id # p.id)
              => OncePerId(Append(q, p), T)
  <1> DEFINE r == <<p>>
  <1>1. Append(q, p) = q \o r /\ r \in Seq(S)
    BY AppendConcat
  <1>2. Carried(r, T) = (IF p.type \in T THEN {p} ELSE {}) /\ OncePerId(r, T)
    BY CarriedOne
  <1> HIDE DEF r
  <1>3. Carried(q \o r, T) = Carried(q, T) \cup Carried(r, T)
    BY <1>1, CarriedConcat
  <1>4. ASSUME OncePerId(q, T), p.type \in T => \A a \in Carried(q, T) : a.id # p.id
        PROVE  OncePerId(q \o r, T)
    BY <1>1, <1>2, <1>4, OnceConcat
  <1>5. QED BY <1>1, <1>2, <1>3, <1>4

-----------------------------------------------------------------------------
(* What the theorems about the client's exchanges assume of the constants:
   identifiers are not used again (they are after 64536 packets,
   Packet.cpp:477), and a stored packet survives its first resend
   (H4AMC_MAX_RETRIES is 2, h4amc_config.h:85). *)
IdsSuffice == MaxPublish < IdSpace /\ MaxRetries > 1

(* The part of OutboundExchange about packets in transit. *)
InTransit ==
  /\ OneStepPerId
  /\ RequestsMatch
  /\ RepliesMatch
  /\ PendingMatch
  /\ UnansweredMatch

(* The part about the stores and histories. *)
Recorded ==
  /\ StoreRight
  /\ HandedOnOnce
  /\ ReleasedIsReceived

LEMMA OutboundParts ==
  OutboundExchange <=> QuietUnlessRunning /\ Recorded /\ InTransit
  BY DEF OutboundExchange, Recorded, InTransit

LEMMA AskingTypes ==
  /\ "PUBLISH" \in Asking /\ "PUBREL" \in Asking /\ RequestKinds \subseteq Asking
  /\ "CONNECT" \notin Asking
  /\ \A type \in Accepting : type \notin Asking
  /\ "PUBLISH" \notin RequestKinds /\ "PUBREL" \notin RequestKinds
  BY WireAssumption DEF Asking, Accepting

LEMMA CarriedNone ==
  ASSUME NEW q, NEW T, Carried(q, T) = {} PROVE OncePerId(q, T)
  BY DEF Carried, Range, OncePerId

(* Nothing is in transit. *)
LEMMA NothingInTransit ==
  ASSUME Requests' = {}, Replies' = {}, pending' = <<>>, unanswered' = {}
  PROVE  InTransit'
  <1>1. OneStepPerId'
    <2>1. OncePerId(toServer', Asking) /\ OncePerId(toClient', Replying)
      BY CarriedNone DEF Requests, Replies
    <2>2. IsInjective(pending') /\ Range(pending') = {}
      BY DEF IsInjective, Range
    <2>3. QED BY <2>1, <2>2 DEF OneStepPerId, Requests, Replies
  <1>2. PendingMatch'
    BY DEF PendingMatch, Range
  <1>3. RequestsMatch' /\ RepliesMatch' /\ UnansweredMatch'
    BY DEF RequestsMatch, RepliesMatch, UnansweredMatch
  <1>4. QED BY <1>1, <1>2, <1>3 DEF InTransit

(* Before the client is RUNNING it has sent nothing but a CONNECT. *)
LEMMA OnlyConnectSent ==
  InPhase /\ state # "RUNNING" => Carried(toServer, Asking \cup Accepting) = {}
  <1> SUFFICES ASSUME InPhase, state # "RUNNING"
               PROVE  Carried(toServer, Asking \cup Accepting) = {}
    OBVIOUS
  <1>1. toServer \in {<<>>, <<Connect(~HaveSessionData)>>}
    BY DEF InPhase, Running, NotAsked, Asked, Accepted, Refused
  <1>2. Connect(~HaveSessionData).type \notin Asking \cup Accepting
    BY AskingTypes DEF Connect, Accepting
  <1>3. QED BY <1>1, <1>2, CarriedEmpty, CarriedOne

LEMMA CarriedMore ==
  ASSUME NEW q, NEW T, NEW U, Carried(q, T \cup U) = {}
  PROVE  Carried(q, T) = {} /\ Carried(q, U) = {}
  BY DEF Carried

(* Once it is, what it sends leaves. *)
LEMMA RunningSend ==
  ASSUME QuietUnlessRunning, state = "RUNNING", NEW ps, Send(ps)
  PROVE  toServer' = toServer \o ps
  BY DEF QuietUnlessRunning, Send

(* The broker reads a packet. *)
LEMMA ReadCarried ==
  ASSUME TypeOK, NEW T, OncePerId(toServer, T), NEW type, Incoming(type), Read
  PROVE  /\ Head(toServer) \in ServerBound /\ Head(toServer).type = type
         /\ OncePerId(toServer', T)
         /\ type \notin T => Carried(toServer', T) = Carried(toServer, T)
         /\ type \in T =>
              /\ Head(toServer) \in Carried(toServer, T)
              /\ Carried(toServer, T) = Carried(toServer', T) \cup {Head(toServer)}
              /\ \A p \in Carried(toServer', T) : p.id # Head(toServer).id
  <1>1. toServer \in Seq(ServerBound) /\ toServer # <<>> /\ toServer' = Tail(toServer)
    BY DEF TypeOK, WireTypeOK, Incoming, Read
  <1>2. Head(toServer) \in ServerBound /\ Head(toServer).type = type
    BY <1>1 DEF Incoming
  <1>3. Carried(toServer, T) = Carried(toServer', T) \cup Carried(<<Head(toServer)>>, T)
    BY <1>1, CarriedTail
  <1>4. Carried(<<Head(toServer)>>, T) = IF type \in T THEN {Head(toServer)} ELSE {}
    BY <1>2, CarriedOne
  <1>5. /\ OncePerId(toServer', T)
        /\ type \in T => \A p \in Carried(toServer', T) : p.id # Head(toServer).id
    BY <1>1, <1>2, OnceTail
  <1>6. QED BY <1>2, <1>3, <1>4, <1>5

LEMMA ReadRequest ==
  ASSUME TypeOK, OncePerId(toServer, Asking), NEW type, Incoming(type), Read
  PROVE  /\ Head(toServer) \in ServerBound /\ Head(toServer).type = type
         /\ OncePerId(toServer', Asking)
         /\ type \notin Asking => Requests' = Requests
         /\ type \in Asking =>
              /\ Head(toServer) \in Requests
              /\ Requests = Requests' \cup {Head(toServer)}
              /\ \A p \in Requests' : p.id # Head(toServer).id
  BY ReadCarried DEF Requests

(* The client handles a packet. *)
LEMMA ReceiveCarried ==
  ASSUME TypeOK, NEW T, OncePerId(toClient, T), NEW type, Receive(type), Consume
  PROVE  /\ Head(toClient) \in ClientBound /\ Head(toClient).type = type
         /\ OncePerId(toClient', T)
         /\ type \notin T => Carried(toClient', T) = Carried(toClient, T)
         /\ type \in T =>
              /\ Head(toClient) \in Carried(toClient, T)
              /\ Carried(toClient, T) = Carried(toClient', T) \cup {Head(toClient)}
              /\ \A p \in Carried(toClient', T) : p.id # Head(toClient).id
  <1>1. toClient \in Seq(ClientBound) /\ toClient # <<>> /\ toClient' = Tail(toClient)
    BY DEF TypeOK, WireTypeOK, Receive, Consume
  <1>2. Head(toClient) \in ClientBound /\ Head(toClient).type = type
    BY <1>1 DEF Receive
  <1>3. Carried(toClient, T) = Carried(toClient', T) \cup Carried(<<Head(toClient)>>, T)
    BY <1>1, CarriedTail
  <1>4. Carried(<<Head(toClient)>>, T) = IF type \in T THEN {Head(toClient)} ELSE {}
    BY <1>2, CarriedOne
  <1>5. /\ OncePerId(toClient', T)
        /\ type \in T => \A p \in Carried(toClient', T) : p.id # Head(toClient).id
    BY <1>1, <1>2, OnceTail
  <1>6. QED BY <1>2, <1>3, <1>4, <1>5

LEMMA ReceiveReply ==
  ASSUME TypeOK, OncePerId(toClient, Replying), NEW type, Receive(type), Consume
  PROVE  /\ Head(toClient) \in ClientBound /\ Head(toClient).type = type
         /\ OncePerId(toClient', Replying)
         /\ type \notin Replying => Carried(toClient', Replying) = Carried(toClient, Replying)
         /\ type \in Replying =>
              /\ Head(toClient) \in Carried(toClient, Replying)
              /\ Carried(toClient, Replying) = Carried(toClient', Replying) \cup {Head(toClient)}
              /\ \A p \in Carried(toClient', Replying) : p.id # Head(toClient).id
  BY ReceiveCarried

-----------------------------------------------------------------------------
(* The broker's steps in the exchanges of the client. *)

Context == TypeOK /\ InPhase /\ OutboundExchange

LEMMA ContextParts ==
  ASSUME Context
  PROVE  /\ TypeOK /\ InPhase /\ QuietUnlessRunning
         /\ StoreRight /\ HandedOnOnce /\ ReleasedIsReceived
         /\ OneStepPerId /\ RequestsMatch /\ RepliesMatch /\ PendingMatch /\ UnansweredMatch
         /\ state = "RUNNING" => linkUp
  BY DEF Context, OutboundExchange, QuietUnlessRunning

LEMMA StoredIsMessage ==
  ASSUME TypeOK, StoreRight, NEW id \in DOMAIN outbound
  PROVE  id \in OutMsg /\ id \in 1 .. nextId /\ outbound[id].msg = id
  BY WireAssumption DEF StoreRight, EntryRight, TypeOK, SessionTypeOK, OutMsg

LEMMA QuietRunning ==
  ASSUME state' = "RUNNING", linkUp' PROVE QuietUnlessRunning'
  BY DEF QuietUnlessRunning

(* It reads a packet of the client's exchange and queues the answer. *)
LEMMA AnswerQueued ==
  ASSUME OneStepPerId, RequestsMatch, PendingMatch, UnansweredMatch,
         NEW h \in Requests, Requests = Requests' \cup {h},
         \A p \in Requests' : p.id # h.id,
         OncePerId(toServer', Asking),
         NEW a, a.id = h.id, toAnswer' = toAnswer \cup {a},
         unanswered' \subseteq unanswered \cup {h.id},
         UNCHANGED <<toClient, pending, outbound>>
  PROVE  /\ OneStepPerId' /\ RequestsMatch' /\ PendingMatch' /\ UnansweredMatch'
         /\ Replies' = Replies \cup {a}
         /\ \A b \in Replies : b.id # h.id
  <1>1. Replies' = Replies \cup {a} /\ \A b \in Replies : b.id # h.id
    BY DEF Replies, OneStepPerId
  <1>2. h.id \notin Range(pending)
    BY DEF OneStepPerId
  <1>3. OneStepPerId'
    BY <1>1, <1>2 DEF OneStepPerId, Replies
  <1>4. RequestsMatch' /\ PendingMatch'
    BY DEF RequestsMatch, PendingMatch, StoredPublishes
  <1>5. UnansweredMatch'
    BY DEF UnansweredMatch
  <1>6. QED BY <1>1, <1>3, <1>4, <1>5

(* A message that is not of QoS 2 is handed on. *)
LEMMA HandOnRecorded ==
  ASSUME TypeOK, StoreRight, HandedOnOnce, ReleasedIsReceived, state = "RUNNING",
         NEW id \in DOMAIN outbound, id \notin qos2Messages,
         delivered' = [delivered EXCEPT ![id] = @ + 1],
         UNCHANGED <<state, outbound, nextId, rejected, abandoned, tooBig, qos2Messages,
                     received2>>
  PROVE  /\ Recorded' /\ delivered'[id] > 0
         /\ \A m \in OutMsg : delivered[m] > 0 => delivered'[m] > 0
  <1>1. id \in OutMsg /\ id \in 1 .. nextId /\ delivered \in [OutMsg -> Nat]
    BY StoredIsMessage DEF TypeOK, BrokerTypeOK
  <1>2. /\ delivered'[id] > 0
        /\ \A m \in OutMsg : delivered'[m] >= delivered[m]
        /\ \A m \in OutMsg : m # id => delivered'[m] = delivered[m]
        /\ \A m \in OutMsg : delivered[m] \in Nat /\ delivered'[m] \in Nat
    BY <1>1, CountOne, CountType
  <1>3. qos2Messages \subseteq OutMsg /\ DOMAIN outbound \subseteq OutMsg
    BY StoredIsMessage DEF TypeOK, SessionTypeOK
  <1>4. StoreRight'
    BY <1>1, <1>2 DEF StoreRight, EntryRight
  <1>5. HandedOnOnce'
    BY <1>2, <1>3 DEF HandedOnOnce
  <1>6. ReleasedIsReceived'
    BY <1>2, <1>3 DEF ReleasedIsReceived, SessionGoesOn
  <1>7. QED BY <1>2, <1>4, <1>5, <1>6 DEF Recorded

LEMMA ReceivePublish1Outbound ==
  ASSUME Context, state = "RUNNING", ReceivePublish1, BrokerOnly
  PROVE  OutboundExchange'
  <1> DEFINE h == Head(toServer)
             a == Ack("PUBACK", h.id)
  <1> USE ContextParts
  <1>1. /\ toAnswer' = toAnswer \cup {a} /\ unanswered' = unanswered \cup {h.id}
        /\ delivered' = [delivered EXCEPT ![h.msg] = @ + 1]
        /\ UNCHANGED <<linkUp, toClient, received2, rejected>>
        /\ UNCHANGED <<state, pending, outbound, nextId, abandoned, tooBig, qos2Messages>>
    BY DEF ReceivePublish1, BrokerOnly, sessionVars
  <1>2. /\ h \in Requests /\ Requests = Requests' \cup {h}
        /\ \A p \in Requests' : p.id # h.id
        /\ OncePerId(toServer', Asking)
        /\ h.type = "PUBLISH" /\ h.qos = 1
    BY ReadRequest, AskingTypes DEF ReceivePublish1, OneStepPerId
  <1> DEFINE id == h.id
  <1>3. /\ id \in DOMAIN outbound /\ outbound[id].kind = "PUBLISH" /\ outbound[id].qos = 1
        /\ ~outbound[id].pubrec /\ h.msg = id
    BY <1>2 DEF RequestsMatch
  <1>4. id \notin qos2Messages
    BY <1>3 DEF StoreRight, EntryRight
  <1>5. a.id = id /\ a.type = "PUBACK" /\ a.ok
    BY DEF Ack
  <1> HIDE DEF h, a
  <1>6. /\ Recorded' /\ delivered'[id] > 0
        /\ \A m \in OutMsg : delivered[m] > 0 => delivered'[m] > 0
    BY <1>1, <1>3, <1>4, HandOnRecorded
  <1>7. /\ OneStepPerId' /\ RequestsMatch' /\ PendingMatch' /\ UnansweredMatch'
        /\ Replies' = Replies \cup {a}
    BY <1>1, <1>2, <1>5, AnswerQueued
  <1>8. RepliesMatch'
    <2>1. \A b \in Replies : b.id \in OutMsg
      BY StoredIsMessage DEF RepliesMatch
    <2>2. QED BY <1>1, <1>3, <1>5, <1>6, <1>7, <2>1 DEF RepliesMatch
  <1>9. QuietUnlessRunning'
    BY <1>1, QuietRunning
  <1>10. QED BY <1>6, <1>7, <1>8, <1>9, OutboundParts, PTL DEF InTransit

LEMMA ReceiveRequestOutbound ==
  ASSUME Context, state = "RUNNING", ReceiveRequest, BrokerOnly
  PROVE  OutboundExchange'
  <1> DEFINE h == Head(toServer)
             a == Ack(IF h.type = "SUBSCRIBE" THEN "SUBACK" ELSE "UNSUBACK", h.id)
  <1> USE ContextParts
  <1>1. /\ toAnswer' = toAnswer \cup {a}
        /\ delivered' = [delivered EXCEPT ![h.msg] = @ + 1]
        /\ UNCHANGED <<linkUp, toClient, received2, rejected, unanswered>>
        /\ UNCHANGED <<state, pending, outbound, nextId, abandoned, tooBig, qos2Messages>>
    BY DEF ReceiveRequest, BrokerOnly, sessionVars
  <1>2. PICK kind \in RequestKinds : Incoming(kind) /\ Read
    BY DEF ReceiveRequest
  <1>3. /\ h \in Requests /\ Requests = Requests' \cup {h}
        /\ \A p \in Requests' : p.id # h.id
        /\ OncePerId(toServer', Asking)
        /\ h.type = kind
    BY <1>2, ReadRequest, AskingTypes DEF OneStepPerId
  <1> DEFINE id == h.id
  <1>4. /\ id \in DOMAIN outbound /\ outbound[id].kind = kind /\ h.msg = id
        /\ ~outbound[id].pubrec /\ kind # "PUBLISH"
    BY <1>3, AskingTypes DEF RequestsMatch
  <1>5. id \notin qos2Messages
    BY <1>4 DEF StoreRight, EntryRight
  <1>6. a.id = id /\ a.type \in {"SUBACK", "UNSUBACK"} /\ a.ok
    BY DEF Ack
  <1> HIDE DEF h, a
  <1>7. /\ Recorded' /\ delivered'[id] > 0
        /\ \A m \in OutMsg : delivered[m] > 0 => delivered'[m] > 0
    BY <1>1, <1>4, <1>5, HandOnRecorded
  <1>8. /\ OneStepPerId' /\ RequestsMatch' /\ PendingMatch' /\ UnansweredMatch'
        /\ Replies' = Replies \cup {a}
    BY <1>1, <1>3, <1>6, AnswerQueued
  <1>9. RepliesMatch'
    <2>1. \A b \in Replies : b.id \in OutMsg
      BY StoredIsMessage DEF RepliesMatch
    <2>2. QED BY <1>1, <1>4, <1>6, <1>7, <1>8, <2>1 DEF RepliesMatch
  <1>10. QuietUnlessRunning'
    BY <1>1, QuietRunning
  <1>11. QED BY <1>7, <1>8, <1>9, <1>10, OutboundParts, PTL DEF InTransit

LEMMA ReceivePublish2Outbound ==
  ASSUME Context, state = "RUNNING", ReceivePublish2, BrokerOnly
  PROVE  OutboundExchange'
  <1> DEFINE h == Head(toServer)
             a == Ack("PUBREC", h.id)
  <1> USE ContextParts
  <1>1. /\ toAnswer' = toAnswer \cup {a} /\ unanswered' = unanswered \cup {h.id}
        /\ received2' = IF h.id \in DOMAIN received2 THEN received2
                        ELSE Put(received2, h.id, h.msg)
        /\ UNCHANGED <<linkUp, toClient, delivered, rejected>>
        /\ UNCHANGED <<state, pending, outbound, nextId, abandoned, tooBig, qos2Messages>>
    BY DEF ReceivePublish2, BrokerOnly, sessionVars
  <1>2. /\ h \in Requests /\ Requests = Requests' \cup {h}
        /\ \A p \in Requests' : p.id # h.id
        /\ OncePerId(toServer', Asking)
        /\ h.type = "PUBLISH" /\ h.qos = 2
    BY ReadRequest, AskingTypes DEF ReceivePublish2, OneStepPerId
  <1> DEFINE id == h.id
  <1>3. /\ id \in DOMAIN outbound /\ outbound[id].kind = "PUBLISH" /\ outbound[id].qos = 2
        /\ ~outbound[id].pubrec /\ h.msg = id
    BY <1>2 DEF RequestsMatch
  <1>4. id \in qos2Messages /\ delivered[id] = 0
    BY <1>3 DEF StoreRight, EntryRight, HandedOnOnce
  <1>5. a.id = id /\ a.type = "PUBREC" /\ a.ok
    BY DEF Ack
  <1> HIDE DEF h, a
  <1>6. /\ DOMAIN received2' = DOMAIN received2 \cup {id}
        /\ \A i \in DOMAIN received2 : received2'[i] = received2[i]
        /\ received2'[id] = id
    BY <1>1, <1>3 DEF Put, HandedOnOnce
  <1>7. Recorded'
    <2>1. StoreRight'
      BY <1>1 DEF StoreRight, EntryRight
    <2>2. HandedOnOnce'
      BY <1>1, <1>4, <1>6 DEF HandedOnOnce
    <2>3. ReleasedIsReceived'
      BY <1>1, <1>6 DEF ReleasedIsReceived, SessionGoesOn
    <2>4. QED BY <2>1, <2>2, <2>3 DEF Recorded
  <1>8. /\ OneStepPerId' /\ RequestsMatch' /\ PendingMatch' /\ UnansweredMatch'
        /\ Replies' = Replies \cup {a}
    BY <1>1, <1>2, <1>5, AnswerQueued
  <1>9. RepliesMatch'
    BY <1>1, <1>3, <1>5, <1>6, <1>8 DEF RepliesMatch
  <1>10. QuietUnlessRunning'
    BY <1>1, QuietRunning
  <1>11. QED BY <1>7, <1>8, <1>9, <1>10, OutboundParts, PTL DEF InTransit

LEMMA RejectPublishOutbound ==
  ASSUME Context, state = "RUNNING", RejectPublish, BrokerOnly
  PROVE  OutboundExchange'
  <1> DEFINE h == Head(toServer)
             a == Nack(IF h.qos = 1 THEN "PUBACK" ELSE "PUBREC", h.id)
  <1> USE ContextParts
  <1>1. /\ toAnswer' = toAnswer \cup {a} /\ unanswered' = unanswered \cup {h.id}
        /\ rejected' = rejected \cup {h.msg}
        /\ UNCHANGED <<linkUp, toClient, delivered, received2>>
        /\ UNCHANGED <<state, pending, outbound, nextId, abandoned, tooBig, qos2Messages>>
    BY DEF RejectPublish, BrokerOnly, sessionVars
  <1>2. /\ h \in Requests /\ Requests = Requests' \cup {h}
        /\ \A p \in Requests' : p.id # h.id
        /\ OncePerId(toServer', Asking)
        /\ h.type = "PUBLISH"
    BY ReadRequest, AskingTypes DEF RejectPublish, OneStepPerId
  <1> DEFINE id == h.id
  <1>3. /\ id \in DOMAIN outbound /\ outbound[id].kind = "PUBLISH" /\ outbound[id].qos = h.qos
        /\ ~outbound[id].pubrec /\ h.msg = id
    BY <1>2 DEF RequestsMatch
  <1>4. h.qos \in {1, 2} /\ id \in 1 .. nextId
    BY <1>3, WireAssumption DEF StoreRight, EntryRight
  <1>5. /\ a.id = id /\ ~a.ok
        /\ a.type = IF h.qos = 1 THEN "PUBACK" ELSE "PUBREC"
    BY DEF Nack
  <1> HIDE DEF h, a
  <1>6. Recorded'
    <2>1. StoreRight'
      BY <1>1, <1>3, <1>4 DEF StoreRight, EntryRight
    <2>2. HandedOnOnce' /\ ReleasedIsReceived'
      BY <1>1 DEF HandedOnOnce, ReleasedIsReceived, SessionGoesOn
    <2>3. QED BY <2>1, <2>2 DEF Recorded
  <1>7. /\ OneStepPerId' /\ RequestsMatch' /\ PendingMatch' /\ UnansweredMatch'
        /\ Replies' = Replies \cup {a}
    BY <1>1, <1>2, <1>5, AnswerQueued
  <1>8. RepliesMatch'
    BY <1>1, <1>3, <1>4, <1>5, <1>7 DEF RepliesMatch
  <1>9. QuietUnlessRunning'
    BY <1>1, QuietRunning
  <1>10. QED BY <1>6, <1>7, <1>8, <1>9, OutboundParts, PTL DEF InTransit

LEMMA ReceivePubrelOutbound ==
  ASSUME Context, state = "RUNNING", ReceivePubrel, BrokerOnly
  PROVE  OutboundExchange'
  <1> DEFINE h == Head(toServer)
             a == Ack("PUBCOMP", h.id)
             id == h.id
  <1> USE ContextParts
  <1>1. /\ toAnswer' = toAnswer \cup {a}
        /\ delivered' = IF id \in DOMAIN received2
                        THEN [delivered EXCEPT ![received2[id]] = @ + 1]
                        ELSE delivered
        /\ received2' = Drop(received2, id)
        /\ UNCHANGED <<linkUp, toClient, rejected, unanswered>>
        /\ UNCHANGED <<state, pending, outbound, nextId, abandoned, tooBig, qos2Messages>>
    BY DEF ReceivePubrel, BrokerOnly, sessionVars
  <1>2. /\ h \in Requests /\ Requests = Requests' \cup {h}
        /\ \A p \in Requests' : p.id # h.id
        /\ OncePerId(toServer', Asking)
        /\ h.type = "PUBREL"
    BY ReadRequest, AskingTypes DEF ReceivePubrel, OneStepPerId
  <1>3. /\ id \in DOMAIN outbound /\ outbound[id].kind = "PUBLISH" /\ outbound[id].pubrec
        /\ id \in OutMsg /\ id \in 1 .. nextId
    BY <1>2, StoredIsMessage DEF RequestsMatch
  <1>4. id \in DOMAIN received2 \/ delivered[id] > 0
    BY <1>3 DEF ReleasedIsReceived, SessionGoesOn
  <1>5. a.id = id /\ a.type = "PUBCOMP" /\ a.ok
    BY DEF Ack
  <1> HIDE DEF h, a, id
  <1>6. /\ DOMAIN received2' = DOMAIN received2 \ {id}
        /\ \A i \in DOMAIN received2' : received2'[i] = received2[i]
    BY <1>1 DEF Drop, Restrict
  <1>7. /\ delivered'[id] > 0
        /\ \A m \in OutMsg : m # id => delivered'[m] = delivered[m]
    <2>1. id \in DOMAIN received2 => received2[id] = id
      BY DEF HandedOnOnce
    <2>2. delivered \in [OutMsg -> Nat]
      BY DEF TypeOK, BrokerTypeOK
    <2>3. CASE id \in DOMAIN received2
      <3>1. delivered' = [delivered EXCEPT ![id] = @ + 1]
        BY <1>1, <2>1, <2>3
      <3>2. QED BY <1>3, <2>2, <3>1, CountOne
    <2>4. CASE id \notin DOMAIN received2
      BY <1>1, <1>4, <2>4
    <2>5. QED BY <2>3, <2>4
  <1>8. qos2Messages \subseteq OutMsg /\ DOMAIN outbound \subseteq OutMsg
    BY StoredIsMessage DEF TypeOK, SessionTypeOK
  <1>9. Recorded'
    <2>1. StoreRight'
      BY <1>1, <1>3, <1>7 DEF StoreRight, EntryRight
    <2>2. HandedOnOnce'
      BY <1>1, <1>3, <1>6, <1>7, <1>8 DEF HandedOnOnce
    <2>3. ReleasedIsReceived'
      BY <1>1, <1>6, <1>7, <1>8 DEF ReleasedIsReceived, SessionGoesOn
    <2>4. QED BY <2>1, <2>2, <2>3 DEF Recorded
  <1>10. /\ OneStepPerId' /\ RequestsMatch' /\ PendingMatch' /\ UnansweredMatch'
         /\ Replies' = Replies \cup {a}
         /\ \A b \in Replies : b.id # h.id
    <2>1. a.id = h.id /\ unanswered' \subseteq unanswered \cup {h.id}
      BY <1>1, <1>5 DEF id
    <2>2. QED BY <1>1, <1>2, <2>1, AnswerQueued
  <1>11. RepliesMatch'
    <2>1. \A b \in Replies : b.id # id /\ b.id \in OutMsg
      BY <1>8, <1>10 DEF id, RepliesMatch
    <2>2. QED BY <1>1, <1>3, <1>5, <1>6, <1>7, <1>10, <2>1 DEF RepliesMatch
  <1>12. QuietUnlessRunning'
    BY <1>1, QuietRunning
  <1>13. QED BY <1>9, <1>10, <1>11, <1>12, OutboundParts, PTL DEF InTransit

(* A step that leaves the stores and the histories alone. *)
LEMMA SameRecords ==
  ASSUME Recorded, SessionGoesOn' => SessionGoesOn,
         UNCHANGED <<outbound, nextId, rejected, abandoned, tooBig, qos2Messages, received2,
                     delivered>>
  PROVE  Recorded'
  <1>1. StoreRight' /\ HandedOnOnce'
    BY DEF Recorded, StoreRight, EntryRight, HandedOnOnce
  <1>2. ReleasedIsReceived'
    BY DEF Recorded, ReleasedIsReceived
  <1>3. QED BY <1>1, <1>2 DEF Recorded

(* A step of the broker's exchanges. *)
LEMMA SameTransit ==
  ASSUME InTransit, Requests' = Requests, OncePerId(toServer', Asking),
         Carried(toClient', Replying) = Carried(toClient, Replying),
         OncePerId(toClient', Replying),
         UNCHANGED <<toAnswer, pending, unanswered, outbound, rejected, received2, delivered>>
  PROVE  InTransit'
  <1>1. Replies' = Replies
    BY DEF Replies
  <1>2. OneStepPerId'
    BY <1>1 DEF InTransit, OneStepPerId
  <1>3. RequestsMatch' /\ RepliesMatch'
    BY <1>1 DEF InTransit, RequestsMatch, RepliesMatch
  <1>4. PendingMatch'
    BY DEF InTransit, PendingMatch, StoredPublishes
  <1>5. UnansweredMatch'
    BY DEF InTransit, UnansweredMatch
  <1>6. QED BY <1>2, <1>3, <1>4, <1>5 DEF InTransit

LEMMA ContextTransit == Context => InTransit /\ Recorded
  BY OutboundParts DEF Context

(* The client's queue when the broker writes a packet that is no reply. *)
LEMMA NoReplyAppended ==
  ASSUME TypeOK, OncePerId(toClient, Replying), NEW p \in ClientBound, p.type \notin Replying,
         toClient' = Append(toClient, p)
  PROVE  /\ Carried(toClient', Replying) = Carried(toClient, Replying)
         /\ OncePerId(toClient', Replying)
  <1>1. toClient \in Seq(ClientBound)
    BY DEF TypeOK, WireTypeOK
  <1>2. /\ Carried(Append(toClient, p), Replying) = Carried(toClient, Replying) \cup {}
        /\ OncePerId(Append(toClient, p), Replying)
    BY <1>1, CarriedAppend
  <1>3. QED BY <1>2

LEMMA AnswerOutbound ==
  ASSUME Context, state = "RUNNING", Answer, BrokerOnly
  PROVE  OutboundExchange'
  <1> USE ContextParts
  <1>1. PICK a \in toAnswer :
          /\ toAnswer' = toAnswer \ {a}
          /\ toClient' = Append(toClient, a)
          /\ unanswered' = IF a.type = "PUBREC" /\ a.ok THEN unanswered
                           ELSE unanswered \ {a.id}
    BY DEF Answer
  <1>2. /\ UNCHANGED <<linkUp, toServer, received2, delivered, rejected>>
        /\ UNCHANGED <<state, pending, outbound, nextId, abandoned, tooBig, qos2Messages>>
    BY DEF Answer, BrokerOnly, sessionVars
  <1>3. a \in ClientBound /\ a.type \in Replying /\ toClient \in Seq(ClientBound)
    BY DEF TypeOK, BrokerTypeOK, WireTypeOK, ClientBound, Reply, Replying
  <1>4. \A b \in Carried(toClient, Replying) : b.id # a.id
    BY DEF OneStepPerId
  <1>5. Carried(toClient', Replying) = Carried(toClient, Replying) \cup {a}
    BY <1>1, <1>3, CarriedAppend
  <1>7. Replies' = Replies
    BY <1>1, <1>5 DEF Replies
  <1>9. OncePerId(toClient', Replying)
    BY <1>1, <1>3, <1>4, CarriedAppend DEF OneStepPerId
  <1>10. Requests' = Requests
    BY <1>2 DEF Requests
  <1>11. OneStepPerId'
    <2>1. OncePerId(toClient', Replying) /\ OncePerId(toServer', Asking)
      BY <1>2, <1>9 DEF OneStepPerId
    <2>2. \A b, c \in toAnswer' : b.id = c.id => b = c
      BY <1>1 DEF OneStepPerId
    <2>3. \A b \in toAnswer', c \in Carried(toClient', Replying) : b.id # c.id
      BY <1>1, <1>4, <1>5 DEF OneStepPerId
    <2>4. QED BY <1>2, <1>7, <1>10, <2>1, <2>2, <2>3 DEF OneStepPerId
  <1>12. RequestsMatch' /\ RepliesMatch' /\ PendingMatch'
    BY <1>2, <1>7, <1>10 DEF RequestsMatch, RepliesMatch, PendingMatch, StoredPublishes
  <1>13. UnansweredMatch'
    <2> SUFFICES ASSUME NEW id \in unanswered'
                 PROVE  \/ \E b \in toAnswer' : b.id = id
                        \/ \E b \in Carried(toClient', Replying) :
                             b.id = id /\ b.type = "PUBREC" /\ b.ok
                        \/ \E p \in Requests' : p.id = id /\ p.type = "PUBREL"
      BY DEF UnansweredMatch
    <2>1. id \in unanswered
      BY <1>1
    <2>2. CASE id = a.id
      <3>1. a.type = "PUBREC" /\ a.ok
        BY <1>1, <2>2
      <3>2. QED BY <1>5, <2>2, <3>1
    <2>3. CASE id # a.id
      BY <1>1, <1>5, <1>10, <2>1, <2>3 DEF UnansweredMatch
    <2>4. QED BY <2>2, <2>3
  <1>14. Recorded'
    BY <1>2, SameRecords, ContextTransit DEF SessionGoesOn
  <1>15. QuietUnlessRunning'
    BY <1>2, QuietRunning
  <1>16. QED BY <1>11, <1>12, <1>13, <1>14, <1>15, OutboundParts, PTL DEF InTransit

LEMMA ReceivePubackPubcompOutbound ==
  ASSUME Context, state = "RUNNING", ReceivePubackPubcomp, BrokerOnly
  PROVE  OutboundExchange'
  <1> USE ContextParts
  <1>1. /\ UNCHANGED <<linkUp, toClient, received2, delivered, rejected, toAnswer, unanswered>>
        /\ UNCHANGED <<state, pending, outbound, nextId, abandoned, tooBig, qos2Messages>>
    BY DEF ReceivePubackPubcomp, BrokerOnly, sessionVars
  <1>2. Requests' = Requests /\ OncePerId(toServer', Asking)
    <2>1. PICK type \in {"PUBACK", "PUBCOMP"} : Incoming(type) /\ Read
      BY DEF ReceivePubackPubcomp
    <2>2. QED BY <2>1, ReadRequest, AskingTypes DEF OneStepPerId, Accepting
  <1>3. InTransit'
    BY <1>1, <1>2, SameTransit, ContextTransit DEF OneStepPerId
  <1>4. Recorded'
    BY <1>1, SameRecords, ContextTransit DEF SessionGoesOn
  <1>5. QuietUnlessRunning'
    BY <1>1, QuietRunning
  <1>6. QED BY <1>3, <1>4, <1>5, OutboundParts, PTL

LEMMA ReceivePubrecOutbound ==
  ASSUME Context, state = "RUNNING", ReceivePubrec, BrokerOnly
  PROVE  OutboundExchange'
  <1> USE ContextParts
  <1>1. /\ UNCHANGED <<linkUp, received2, delivered, rejected, toAnswer, unanswered>>
        /\ UNCHANGED <<state, pending, outbound, nextId, abandoned, tooBig, qos2Messages>>
    BY DEF ReceivePubrec, BrokerOnly, sessionVars
  <1>0. PICK p \in {Ack("PUBREL", Head(toServer).id), Nack("PUBREL", Head(toServer).id)} :
          toClient' = Append(toClient, p)
    BY DEF ReceivePubrec
  <1>2. Requests' = Requests /\ OncePerId(toServer', Asking)
    BY ReadRequest, AskingTypes DEF OneStepPerId, Accepting, ReceivePubrec
  <1>3. p \in ClientBound /\ p.type \notin Replying
    <2>1. Head(toServer).id \in InIds
      BY ReadPacket, ServerBoundFields, WireAssumption DEF ReceivePubrec, TypeOK
    <2>2. p \in ClientData
      BY <2>1, ClientDataPackets
    <2>3. QED BY <2>2 DEF ClientData, Ack, Nack, Replying
  <1>4. /\ Carried(toClient', Replying) = Carried(toClient, Replying)
        /\ OncePerId(toClient', Replying)
    BY <1>0, <1>3, NoReplyAppended DEF OneStepPerId
  <1>5. InTransit'
    BY <1>1, <1>2, <1>4, SameTransit, ContextTransit
  <1>6. Recorded'
    BY <1>1, SameRecords, ContextTransit DEF SessionGoesOn
  <1>7. QuietUnlessRunning'
    BY <1>1, QuietRunning
  <1>8. QED BY <1>5, <1>6, <1>7, OutboundParts, PTL

-----------------------------------------------------------------------------
(* Before the client is RUNNING. *)

LEMMA QuietPhase ==
  ASSUME InPhase', state' # "RUNNING",
         pending' = <<>>, inflight' = 0, toAnswer' = {}, unanswered' = {},
         Carried(toClient', Replying) = {},
         ~linkUp' => toServer' = <<>> /\ toClient' = <<>>
  PROVE  QuietUnlessRunning' /\ InTransit'
  <1>1. (Carried(toServer, Asking \cup Accepting) = {})'
    <2>1. (state # "RUNNING")'
      OBVIOUS
    <2>2. QED BY <2>1, OnlyConnectSent, PTL
  <1>2. Requests' = {} /\ Replies' = {}
    BY <1>1, CarriedMore DEF Requests, Replies
  <1>3. InTransit'
    BY <1>2, NothingInTransit
  <1>4. QuietUnlessRunning'
    BY <1>2 DEF QuietUnlessRunning
  <1>5. QED BY <1>3, <1>4

LEMMA QuietBefore ==
  ASSUME Context, state # "RUNNING"
  PROVE  /\ pending = <<>> /\ inflight = 0 /\ toAnswer = {} /\ unanswered = {}
         /\ Carried(toClient, Replying) = {}
         /\ ~linkUp => toServer = <<>> /\ toClient = <<>>
  BY ContextParts DEF QuietUnlessRunning, Replies

LEMMA EstablishOutbound ==
  ASSUME Context, InPhase', Establish PROVE OutboundExchange'
  <1> USE ContextParts
  <1>1. state \in {"DISCONNECTED", "CONNECTING"} /\ toClient = <<>>
    BY DEF Establish, StartConnect, OnTcpConnect, InPhase, Running, NotAsked, Asked,
           Accepted, Refused
  <1>2. /\ UNCHANGED <<toServer, toClient, pending, inflight, toAnswer, unanswered, stored>>
        /\ UNCHANGED <<outbound, nextId, rejected, abandoned, tooBig, qos2Messages, received2,
                       delivered>>
        /\ state' # "RUNNING"
        /\ ~linkUp' => ~linkUp
    BY <1>1 DEF Establish, StartConnect, OnTcpConnect, ClientOnly, brokerVars, wireVars
  <1>3. QuietUnlessRunning' /\ InTransit'
    BY <1>1, <1>2, QuietBefore, QuietPhase
  <1>4. SessionGoesOn' => SessionGoesOn
    <2>1. ~Accepted'
      BY <1>1, <1>2 DEF Accepted, Arriving
    <2>2. QED BY <1>1, <1>2, <2>1 DEF SessionGoesOn
  <1>5. Recorded'
    BY <1>2, <1>4, SameRecords, ContextTransit
  <1>6. QED BY <1>3, <1>5, OutboundParts, PTL

LEMMA ConnectPacketOutbound ==
  ASSUME Context, InPhase', ConnectPacket, ClientOnly PROVE OutboundExchange'
  <1> USE ContextParts
  <1>1. state = "TCP_CONNECTED" /\ NotAsked
    BY DEF ConnectPacket, InPhase, Running, NotAsked, Asked, Accepted, Refused
  <1>2. /\ UNCHANGED <<linkUp, toClient, state, pending, inflight, toAnswer, unanswered, stored>>
        /\ UNCHANGED <<outbound, nextId, rejected, abandoned, tooBig, qos2Messages, received2,
                       delivered>>
        /\ ~linkUp => toServer' = toServer
    BY <1>1 DEF ConnectPacket, ClientOnly, brokerVars, Send
  <1>3. QuietUnlessRunning' /\ InTransit'
    BY <1>1, <1>2, QuietBefore, QuietPhase
  <1>4. SessionGoesOn' => SessionGoesOn
    <2>1. ~Accepted'
      BY <1>1, <1>2 DEF NotAsked, Accepted, Arriving
    <2>2. QED BY <1>1, <1>2, <2>1 DEF SessionGoesOn
  <1>5. Recorded'
    BY <1>2, <1>4, SameRecords, ContextTransit
  <1>6. QED BY <1>3, <1>5, OutboundParts, PTL

(* The broker answers the CONNECT. *)
LEMMA RetransmissionNoReply ==
  ASSUME TypeOK, NEW order \in Ascending(DOMAIN sent)
  PROVE  Carried(Retransmission(order), Replying) = {}
  <1>1. \A i \in DOMAIN Retransmission(order) :
          Retransmission(order)[i].type \in {"PUBREL", "PUBLISH"}
    BY DEF Retransmission, Ack, Publish
  <1>2. QED BY <1>1 DEF Carried, Range, Replying

LEMMA AskedNow ==
  ASSUME InPhase, TypeOK, Incoming("CONNECT")
  PROVE  /\ state = "TCP_CONNECTED" /\ Asked /\ toClient = <<>>
         /\ Head(toServer).clean = ~HaveSessionData
  <1>1. state # "RUNNING"
    BY RunningIsRunning, RunningPast DEF TypeOK
  <1>2. Asked
    BY <1>1, OnlyConnect
  <1>3. QED BY <1>2, AskedPacket DEF Asked

LEMMA AcceptResumeOutbound ==
  ASSUME Context, InPhase', AcceptResume, BrokerOnly PROVE OutboundExchange'
  <1> USE ContextParts
  <1>1. state = "TCP_CONNECTED" /\ toClient = <<>> /\ linkUp /\ stored
    BY AskedNow DEF AcceptResume, Incoming
  <1>2. /\ UNCHANGED <<linkUp, state, pending, inflight, toAnswer, unanswered, stored>>
        /\ UNCHANGED <<outbound, nextId, rejected, abandoned, tooBig, qos2Messages, received2,
                       delivered>>
    BY DEF AcceptResume, BrokerOnly, sessionVars
  <1>3. Carried(toClient', Replying) = {}
    <2>1. PICK rmax \in ReceiveMaxima, order \in Ascending(DOMAIN sent) :
            toClient' = (toClient \o <<Connack(TRUE, TRUE, rmax)>>) \o Retransmission(order)
      BY DEF AcceptResume
    <2> DEFINE c == <<Connack(TRUE, TRUE, rmax)>>
               r == Retransmission(order)
    <2>2. c \in Seq(ClientBound) /\ r \in Seq(ClientBound)
      <3>1. Connack(TRUE, TRUE, rmax) \in ClientBound
        BY ClientBoundPackets
      <3>2. r \in Seq(ClientBound)
        BY RetransmissionType, WireAssumption DEF TypeOK
      <3>3. c \in Seq(ClientBound)
        BY <3>1, SingletonSeqType
      <3> HIDE DEF c, r
      <3>4. QED BY <3>2, <3>3
    <2>3. Carried(c, Replying) = {} /\ Carried(r, Replying) = {}
      BY CarriedOne, RetransmissionNoReply DEF Connack, Replying
    <2>4. toClient' = (<<>> \o c) \o r
      BY <1>1, <2>1
    <2> HIDE DEF c, r
    <2>5. toClient' = c \o r
      BY <2>2, <2>4
    <2>6. Carried(c \o r, Replying) = Carried(c, Replying) \cup Carried(r, Replying)
      BY <2>2, CarriedConcat
    <2>7. QED BY <2>3, <2>5, <2>6
  <1>4. QuietUnlessRunning' /\ InTransit'
    BY <1>1, <1>2, <1>3, QuietBefore, QuietPhase
  <1>5. Recorded'
    BY <1>1, <1>2, SameRecords, ContextTransit DEF SessionGoesOn
  <1>6. QED BY <1>4, <1>5, OutboundParts, PTL

(* The stores, when the session is not gone on with. *)
LEMMA OtherSession ==
  ASSUME Recorded,
         \/ ~SessionGoesOn'
         \/ DOMAIN outbound = {},
         DOMAIN received2' \subseteq DOMAIN received2,
         \A id \in DOMAIN received2' : received2'[id] = received2[id],
         UNCHANGED <<outbound, nextId, rejected, abandoned, tooBig, qos2Messages, delivered>>
  PROVE  Recorded'
  <1>1. StoreRight' /\ HandedOnOnce'
    BY DEF Recorded, StoreRight, EntryRight, HandedOnOnce
  <1>2. ReleasedIsReceived'
    BY DEF ReleasedIsReceived
  <1>3. QED BY <1>1, <1>2 DEF Recorded

LEMMA AcceptNewOutbound ==
  ASSUME Context, InPhase', AcceptNew, BrokerOnly PROVE OutboundExchange'
  <1> USE ContextParts
  <1>1. /\ state = "TCP_CONNECTED" /\ toClient = <<>> /\ linkUp
        /\ Head(toServer).clean = ~HaveSessionData
    BY AskedNow DEF AcceptNew, Incoming
  <1>2. /\ UNCHANGED <<linkUp, state, pending, inflight, toAnswer, unanswered>>
        /\ UNCHANGED <<outbound, nextId, rejected, abandoned, tooBig, qos2Messages, delivered>>
        /\ DOMAIN received2' = {}
    BY EmptyMapType DEF AcceptNew, BrokerOnly, sessionVars
  <1>3. PICK rmax \in ReceiveMaxima, present \in BOOLEAN :
          /\ toClient' = toClient \o <<Connack(TRUE, present, rmax)>>
          /\ present => Head(toServer).clean
    BY DEF AcceptNew
  <1> DEFINE c == Connack(TRUE, present, rmax)
  <1>4. c.type = "CONNACK" /\ c.present = present
    BY DEF Connack
  <1> HIDE DEF c
  <1>5. toClient' = <<c>>
    BY <1>1, <1>3 DEF c
  <1>6. Carried(toClient', Replying) = {}
    BY <1>4, <1>5, CarriedOne DEF Replying
  <1>7. QuietUnlessRunning' /\ InTransit'
    BY <1>1, <1>2, <1>6, QuietBefore, QuietPhase
  <1>8. DOMAIN outbound = {} \/ ~SessionGoesOn'
    <2>1. CASE present
      BY <1>1, <1>3, <2>1 DEF HaveSessionData
    <2>2. CASE ~present
      <3>1. toClient' # <<>> /\ toClient'[1] = c
        BY <1>5
      <3>2. QED BY <1>1, <1>2, <1>4, <2>2, <3>1 DEF SessionGoesOn
    <2>3. QED BY <2>1, <2>2
  <1>9. Recorded'
    BY <1>2, <1>8, OtherSession, ContextTransit
  <1>10. QED BY <1>7, <1>9, OutboundParts, PTL

LEMMA RefuseOutbound ==
  ASSUME Context, InPhase', Refuse, BrokerOnly PROVE OutboundExchange'
  <1> USE ContextParts
  <1>1. state = "TCP_CONNECTED" /\ toClient = <<>> /\ linkUp
    BY AskedNow DEF Refuse, Incoming
  <1>2. /\ UNCHANGED <<linkUp, state, pending, inflight, toAnswer, unanswered>>
        /\ UNCHANGED <<outbound, nextId, rejected, abandoned, tooBig, qos2Messages, delivered,
                       received2>>
    BY DEF Refuse, BrokerOnly, sessionVars, brokerVars
  <1> DEFINE c == Connack(FALSE, FALSE, granted)
  <1>3. c.type = "CONNACK" /\ ~c.present
    BY DEF Connack
  <1>4. toClient' = Append(toClient, c)
    BY DEF Refuse
  <1> HIDE DEF c
  <1>5. toClient' = <<c>>
    BY <1>1, <1>4
  <1>6. Carried(toClient', Replying) = {}
    BY <1>3, <1>5, CarriedOne DEF Replying
  <1>7. QuietUnlessRunning' /\ InTransit'
    BY <1>1, <1>2, <1>6, QuietBefore, QuietPhase
  <1>8. ~SessionGoesOn'
    <2>1. toClient' # <<>> /\ toClient'[1] = c
      BY <1>5
    <2>2. QED BY <1>1, <1>2, <1>3, <2>1 DEF SessionGoesOn
  <1>9. Recorded'
    BY <1>2, <1>8, OtherSession, ContextTransit
  <1>10. QED BY <1>7, <1>9, OutboundParts, PTL

LEMMA ExpireOutbound ==
  ASSUME Context, InPhase', Expire, BrokerOnly PROVE OutboundExchange'
  <1> USE ContextParts
  <1>1. state # "RUNNING" /\ toClient = <<>>
    BY DEF Expire, QuietUnlessRunning
  <1>2. /\ UNCHANGED <<linkUp, toServer, toClient, state, pending, inflight, toAnswer,
                       unanswered>>
        /\ UNCHANGED <<outbound, nextId, rejected, abandoned, tooBig, qos2Messages, delivered>>
        /\ DOMAIN received2' = {} /\ stored' = FALSE
    BY EmptyMapType DEF Expire, BrokerOnly, sessionVars, wireVars
  <1>3. QuietUnlessRunning' /\ InTransit'
    BY <1>1, <1>2, QuietBefore, QuietPhase
  <1>4. ~SessionGoesOn'
    <2>1. ~Accepted'
      BY <1>1, <1>2 DEF Accepted, Arriving
    <2>2. QED BY <1>1, <1>2, <2>1 DEF SessionGoesOn
  <1>5. Recorded'
    BY <1>2, <1>4, OtherSession, ContextTransit
  <1>6. QED BY <1>3, <1>5, OutboundParts, PTL

(* The broker publishes as soon as it has accepted the client. *)
LEMMA BrokerPublishOutbound ==
  ASSUME Context, InPhase', NEW qos \in QoS, BrokerPublish(qos), BrokerOnly
  PROVE  OutboundExchange'
  <1> USE ContextParts
  <1>1. PICK id \in InIds : toClient' = Append(toClient, Publish(id, qos, nextIn'))
    BY DEF BrokerPublish
  <1> DEFINE p == Publish(id, qos, nextIn')
  <1>2. p \in ClientBound /\ p.type = "PUBLISH"
    <2>1. nextIn' \in InMsg
      BY WireAssumption DEF TypeOK, BrokerTypeOK, BrokerPublish, InMsg
    <2>2. QED BY <2>1, ClientBoundPackets DEF Publish
  <1> HIDE DEF p
  <1>3. toClient' = Append(toClient, p)
    BY <1>1 DEF p
  <1>4. /\ UNCHANGED <<linkUp, toServer, state, pending, inflight, toAnswer, unanswered, stored>>
        /\ UNCHANGED <<outbound, nextId, rejected, abandoned, tooBig, qos2Messages, received2,
                       delivered>>
        /\ linkUp /\ open
    BY DEF BrokerPublish, BrokerOnly, sessionVars
  <1>5. /\ Carried(toClient', Replying) = Carried(toClient, Replying)
        /\ OncePerId(toClient', Replying)
    BY <1>2, <1>3, NoReplyAppended DEF OneStepPerId, Replying
  <1>6. Requests' = Requests /\ OncePerId(toServer', Asking)
    BY <1>4 DEF Requests, OneStepPerId
  <1>7. InTransit'
    BY <1>4, <1>5, <1>6, SameTransit, ContextTransit
  <1>8. QuietUnlessRunning'
    BY <1>4, <1>5 DEF QuietUnlessRunning, Replies
  <1>9. SessionGoesOn' => SessionGoesOn
    <2>1. CASE state = "RUNNING"
      BY <2>1 DEF SessionGoesOn
    <2>2. CASE state # "RUNNING"
      <3>1. Accepted
        BY <1>4, <2>2 DEF InPhase, Running, NotAsked, Asked, Refused
      <3>2. toClient \in Seq(ClientBound) /\ 1 \in DOMAIN toClient
        BY <3>1 DEF TypeOK, WireTypeOK, Accepted, Arriving
      <3>3. toClient' # <<>> /\ toClient'[1] = toClient[1]
        BY <1>2, <1>3, <3>2
      <3>4. state = "TCP_CONNECTED"
        BY <3>1 DEF Accepted
      <3>5. QED BY <1>4, <3>1, <3>3, <3>4 DEF SessionGoesOn
    <2>3. QED BY <2>1, <2>2
  <1>10. Recorded'
    BY <1>4, <1>9, SameRecords, ContextTransit
  <1>11. QED BY <1>7, <1>8, <1>10, OutboundParts, PTL

(* The connection is lost. *)
LEMMA ConnectionLostOutbound ==
  ASSUME Context, InPhase', NetworkDrops \/ BrokerCloses PROVE OutboundExchange'
  <1> USE ContextParts
  <1>1. /\ linkUp' = FALSE /\ toServer' = <<>> /\ toClient' = <<>>
        /\ state' = IF state = "RUNNING" THEN "DISCONNECTED" ELSE state
        /\ pending' = <<>> /\ inflight' = 0 /\ toAnswer' = {} /\ unanswered' = {}
        /\ UNCHANGED <<outbound, nextId, rejected, abandoned, tooBig, qos2Messages, received2,
                       delivered, stored>>
    BY DEF NetworkDrops, BrokerCloses, ConnectionLost, OnDisconnect, ConnectionGone
  <1>2. Carried(toClient', Replying) = {} /\ state' # "RUNNING"
    BY <1>1, CarriedEmpty
  <1>3. QuietUnlessRunning' /\ InTransit'
    BY <1>1, <1>2, QuietPhase
  <1>4. SessionGoesOn' => SessionGoesOn
    <2>1. ~Accepted'
      BY <1>1 DEF Accepted, Arriving
    <2>2. QED BY <1>1, <2>1 DEF SessionGoesOn
  <1>5. Recorded'
    BY <1>1, <1>4, SameRecords, ContextTransit
  <1>6. QED BY <1>3, <1>5, OutboundParts, PTL

LEMMA ClientClosesOutbound ==
  ASSUME Context, InPhase', ClientCloses PROVE OutboundExchange'
  <1> USE ContextParts
  <1>1. /\ linkUp' = FALSE /\ toServer' = <<>> /\ toClient' = <<>> /\ state' = "DISCONNECTED"
        /\ pending' = <<>> /\ inflight' = 0 /\ toAnswer' = {} /\ unanswered' = {}
        /\ UNCHANGED <<outbound, nextId, rejected, abandoned, tooBig, qos2Messages, received2,
                       delivered>>
        /\ DOMAIN outbound = {}
    BY DEF ClientCloses, ConnackUnknownSession, ConnectionGone, HaveSessionData
  <1>2. Carried(toClient', Replying) = {}
    BY <1>1, CarriedEmpty
  <1>3. QuietUnlessRunning' /\ InTransit'
    BY <1>1, <1>2, QuietPhase
  <1>4. Recorded'
    BY <1>1, OtherSession, ContextTransit
  <1>5. QED BY <1>3, <1>4, OutboundParts, PTL

(* _startClean leaves nothing behind. *)
LEMMA StartCleanRecorded ==
  ASSUME Context, StartClean,
         UNCHANGED <<nextId, rejected, tooBig, qos2Messages, received2, delivered>>
  PROVE  Recorded'
  <1> USE ContextParts
  <1>1. DOMAIN outbound' = {} /\ abandoned' = abandoned \cup {outbound[id].msg : id \in DOMAIN outbound}
    BY EmptyMapType DEF StartClean
  <1>2. abandoned' \subseteq 1 .. nextId
    BY <1>1, StoredIsMessage DEF StoreRight
  <1>3. StoreRight'
    BY <1>1, <1>2 DEF StoreRight
  <1>4. HandedOnOnce' /\ ReleasedIsReceived'
    BY <1>1 DEF HandedOnOnce, ReleasedIsReceived
  <1>5. QED BY <1>3, <1>4 DEF Recorded

LEMMA ConnackRefusedOutbound ==
  ASSUME Context, InPhase', ConnackRefused, ClientOnly PROVE OutboundExchange'
  <1> USE ContextParts
  <1>1. state # "RUNNING"
    BY RunningIsRunning, RunningPast DEF ConnackRefused, TypeOK
  <1>2. Refused
    <2>1. ~Accepted
      BY DEF Accepted, ConnackRefused, Receive, TypeOK, WireTypeOK
    <2>2. QED BY <1>1, <2>1, OnlyConnack DEF ConnackRefused, TypeOK
  <1>3. toClient' = <<>>
    BY <1>2, HeadOfOne DEF ConnackRefused, Consume, Refused
  <1>4. /\ UNCHANGED <<linkUp, toServer, state, pending, inflight, toAnswer, unanswered>>
        /\ UNCHANGED <<nextId, rejected, tooBig, qos2Messages, received2, delivered>>
        /\ StartClean
    BY DEF ConnackRefused, ClientOnly, brokerVars
  <1>5. QuietUnlessRunning' /\ InTransit'
    <2>1. Carried(toClient', Replying) = {}
      BY <1>3, CarriedEmpty
    <2>2. QED BY <1>1, <1>3, <1>4, <2>1, QuietBefore, QuietPhase
  <1>6. Recorded'
    BY <1>4, StartCleanRecorded
  <1>7. QED BY <1>5, <1>6, OutboundParts, PTL

-----------------------------------------------------------------------------
(* The client handles a reply. *)

LEMMA HandledReply ==
  ASSUME Context, NEW type \in Replying, Receive(type), Consume, UNCHANGED toAnswer
  PROVE  /\ Head(toClient) \in Replies /\ Head(toClient).type = type
         /\ Head(toClient) \in Carried(toClient, Replying)
         /\ Carried(toClient, Replying) = Carried(toClient', Replying) \cup {Head(toClient)}
         /\ Replies = Replies' \cup {Head(toClient)}
         /\ OncePerId(toClient', Replying)
         /\ \A b \in Replies' : b.id # Head(toClient).id
         /\ \A p \in Requests : p.id # Head(toClient).id
         /\ Head(toClient).id \notin Range(pending)
         /\ Head(toClient).id \in DOMAIN outbound
  <1> USE ContextParts
  <1> DEFINE h == Head(toClient)
  <1>1. /\ h.type = type /\ h \in Carried(toClient, Replying)
        /\ OncePerId(toClient', Replying)
        /\ Carried(toClient, Replying) = Carried(toClient', Replying) \cup {h}
        /\ \A p \in Carried(toClient', Replying) : p.id # h.id
    BY ReceiveReply DEF OneStepPerId
  <1> HIDE DEF h
  <1>2. h \in Replies /\ Replies = Replies' \cup {h}
    BY <1>1 DEF Replies
  <1>3. \A b \in Replies' : b.id # h.id
    BY <1>1 DEF Replies, OneStepPerId
  <1>4. /\ \A p \in Requests : p.id # h.id
        /\ h.id \notin Range(pending)
        /\ h.id \in DOMAIN outbound
    BY <1>2 DEF OneStepPerId, RepliesMatch
  <1>5. QED BY <1>1, <1>2, <1>3, <1>4 DEF h

(* The client sends a packet. *)
LEMMA SentMore ==
  ASSUME Context, state = "RUNNING", NEW p \in ServerBound, Send(<<p>>)
  PROVE  /\ Requests' = Requests \cup (IF p.type \in Asking THEN {p} ELSE {})
         /\ (p.type \in Asking => \A q \in Requests : q.id # p.id)
              => OncePerId(toServer', Asking)
  <1> USE ContextParts
  <1>1. toServer \in Seq(ServerBound)
    BY DEF TypeOK, WireTypeOK
  <1>2. toServer' = Append(toServer, p)
    BY <1>1, RunningSend, AppendConcat
  <1>3. Carried(Append(toServer, p), Asking)
          = Carried(toServer, Asking) \cup (IF p.type \in Asking THEN {p} ELSE {})
    BY <1>1, CarriedAppend
  <1>4. (p.type \in Asking => \A q \in Carried(toServer, Asking) : q.id # p.id)
          => OncePerId(Append(toServer, p), Asking)
    BY <1>1, CarriedAppend DEF OneStepPerId
  <1>5. QED BY <1>2, <1>3, <1>4 DEF Requests

(* The packet at the front of _pending is sent. *)
FrontSent ==
  /\ pending # <<>>
  /\ Send(<<StoredPacket(Head(pending))>>)
  /\ pending' = Tail(pending)

LEMMA FrontSentTransit ==
  ASSUME Context, state = "RUNNING", FrontSent
  PROVE  /\ Head(pending) \in Range(pending)
         /\ Head(pending) \in DOMAIN outbound
         /\ StoredPacket(Head(pending)).id = Head(pending)
         /\ StoredPacket(Head(pending)).type = "PUBLISH"
         /\ StoredPacket(Head(pending)).qos = outbound[Head(pending)].qos
         /\ StoredPacket(Head(pending)).msg = Head(pending)
         /\ outbound[Head(pending)].kind = "PUBLISH" /\ ~outbound[Head(pending)].pubrec
         /\ Requests' = Requests \cup {StoredPacket(Head(pending))}
         /\ OncePerId(toServer', Asking)
         /\ IsInjective(pending')
         /\ Range(pending') = Range(pending) \ {Head(pending)}
  <1> USE ContextParts
  <1> DEFINE f == Head(pending)
             p == StoredPacket(Head(pending))
  <1>1. pending # <<>> /\ pending \in Seq(PacketId) /\ IsInjective(pending) /\ pending' = Tail(pending)
    BY DEF FrontSent, TypeOK, SessionTypeOK, OneStepPerId
  <1>2. /\ f \in Range(pending) /\ IsInjective(pending')
        /\ Range(pending') = Range(pending) \ {f}
    BY <1>1, QueueTail
  <1>3. f \in DOMAIN outbound /\ outbound[f].kind = "PUBLISH" /\ ~outbound[f].pubrec
    BY <1>2 DEF PendingMatch, StoredPublishes
  <1>4. /\ p = Publish(f, outbound[f].qos, f)
        /\ p.id = f /\ p.type = "PUBLISH" /\ p.qos = outbound[f].qos /\ p.msg = f
    BY <1>3, StoredIsMessage DEF StoredPacket, Publish
  <1>5. p \in ServerBound
    BY <1>3, StoredPacketType, WireAssumption DEF TypeOK, ServerData
  <1>6. Send(<<p>>)
    BY DEF FrontSent
  <1> HIDE DEF f, p
  <1>7. \A q \in Requests : q.id # p.id
    BY <1>2, <1>4 DEF OneStepPerId
  <1>8. Requests' = Requests \cup {p} /\ OncePerId(toServer', Asking)
    BY <1>4, <1>5, <1>6, <1>7, SentMore, AskingTypes
  <1>9. QED BY <1>2, <1>3, <1>4, <1>8 DEF f, p

(* An exchange ends: its packet is released, and the next one is sent in its
   place or not. *)
LEMMA ExchangeEnds ==
  ASSUME Context, state = "RUNNING", NEW type \in Replying, Receive(type), Consume,
         ~(type = "PUBREC" /\ Head(toClient).ok),
         outbound' = Drop(outbound, Head(toClient).id),
         UNCHANGED <<toServer, pending>> \/ FrontSent,
         UNCHANGED <<linkUp, state, toAnswer, unanswered, nextId, rejected, abandoned, tooBig,
                     qos2Messages, received2, delivered>>
  PROVE  OutboundExchange'
  <1> USE ContextParts
  <1> DEFINE h == Head(toClient)
  <1>1. /\ h \in Replies /\ h.type = type
        /\ Carried(toClient, Replying) = Carried(toClient', Replying) \cup {h}
        /\ Replies = Replies' \cup {h}
        /\ OncePerId(toClient', Replying)
        /\ \A b \in Replies' : b.id # h.id
        /\ \A p \in Requests : p.id # h.id
        /\ h.id \notin Range(pending)
    BY HandledReply
  <1>2. ~(h.type = "PUBREC" /\ h.ok) /\ outbound' = Drop(outbound, h.id)
    BY <1>1
  <1> HIDE DEF h
  <1>3. /\ DOMAIN outbound' = DOMAIN outbound \ {h.id}
        /\ \A id \in DOMAIN outbound' : outbound'[id] = outbound[id]
    BY <1>2 DEF Drop, Restrict
  <1>4. Recorded'
    <2>1. StoreRight'
      <3>1. ASSUME NEW id \in DOMAIN outbound' PROVE EntryRight(id)'
        <4>1. id \in DOMAIN outbound /\ outbound'[id] = outbound[id] /\ EntryRight(id)
          BY <1>3 DEF StoreRight
        <4>2. QED BY <4>1 DEF EntryRight
      <3>2. QED BY <3>1 DEF StoreRight
    <2>2. HandedOnOnce' /\ ReleasedIsReceived'
      BY <1>3 DEF HandedOnOnce, ReleasedIsReceived, SessionGoesOn
    <2>3. QED BY <2>1, <2>2 DEF Recorded
  <1>5. RepliesMatch'
    BY <1>1, <1>3 DEF RepliesMatch
  <1>6. QuietUnlessRunning'
    BY QuietRunning
  <1>7. Requests \subseteq Requests' /\ Range(pending') \subseteq Range(pending)
    BY FrontSentTransit DEF Requests
  <1>8. PendingMatch'
    BY <1>1, <1>3, <1>7 DEF PendingMatch, StoredPublishes
  <1>9. UnansweredMatch'
    BY <1>1, <1>2, <1>7 DEF UnansweredMatch
  <1>10. OneStepPerId' /\ RequestsMatch'
    <2>1. CASE UNCHANGED <<toServer, pending>>
      <3>1. Requests' = Requests
        BY <2>1 DEF Requests
      <3>2. OneStepPerId'
        BY <1>1, <2>1, <3>1 DEF OneStepPerId
      <3>3. RequestsMatch'
        BY <1>1, <1>3, <3>1 DEF RequestsMatch
      <3>4. QED BY <3>2, <3>3
    <2>2. CASE FrontSent
      <3> DEFINE f == Head(pending)
                 p == StoredPacket(Head(pending))
      <3>1. /\ f \in Range(pending) /\ f \in DOMAIN outbound
            /\ p.id = f /\ p.type = "PUBLISH" /\ p.qos = outbound[f].qos /\ p.msg = f
            /\ outbound[f].kind = "PUBLISH" /\ ~outbound[f].pubrec
            /\ Requests' = Requests \cup {p}
            /\ OncePerId(toServer', Asking)
            /\ IsInjective(pending')
            /\ Range(pending') = Range(pending) \ {f}
        BY <2>2, FrontSentTransit
      <3> HIDE DEF f, p
      <3>2. \A q \in Requests \cup Replies : q.id # f
        BY <3>1 DEF OneStepPerId
      <3>3. OneStepPerId'
        BY <1>1, <3>1, <3>2 DEF OneStepPerId
      <3>4. RequestsMatch'
        BY <1>1, <1>3, <3>1 DEF RequestsMatch
      <3>5. QED BY <3>3, <3>4
    <2>3. QED BY <2>1, <2>2
  <1>11. QED BY <1>4, <1>5, <1>6, <1>8, <1>9, <1>10, OutboundParts, PTL DEF InTransit

LEMMA PublishEndSends ==
  ASSUME Context, NEW store, DOMAIN outbound \cap Range(pending) \subseteq DOMAIN store,
         PublishEnd(store)
  PROVE  UNCHANGED <<toServer, pending>> \/ FrontSent
  <1> USE ContextParts
  <1>1. CASE pending = <<>>
    BY <1>1 DEF PublishEnd
  <1>2. CASE pending # <<>>
    <2>1. pending \in Seq(PacketId) /\ IsInjective(pending)
      BY DEF TypeOK, SessionTypeOK, OneStepPerId
    <2>2. Head(pending) \in Range(pending)
      BY <1>2, <2>1, QueueTail
    <2>3. Head(pending) \in DOMAIN store
      BY <2>2 DEF PendingMatch, StoredPublishes
    <2>4. QED BY <1>2, <2>3 DEF PublishEnd, RunFlow, FrontSent
  <1>3. QED BY <1>1, <1>2

LEMMA PubackPubcompOutbound ==
  ASSUME Context, state = "RUNNING", PubackPubcomp, ClientOnly PROVE OutboundExchange'
  <1>1. PICK type \in {"PUBACK", "PUBCOMP"} : Receive(type)
    BY DEF PubackPubcomp
  <1>2. UNCHANGED <<toServer, pending>> \/ FrontSent
    BY PublishEndSends DEF PubackPubcomp
  <1>3. /\ Consume /\ outbound' = Drop(outbound, Head(toClient).id)
        /\ UNCHANGED <<linkUp, state, toAnswer, unanswered, nextId, rejected, abandoned,
                       tooBig, qos2Messages, received2, delivered>>
    BY DEF PubackPubcomp, AckOutbound, ClientOnly, brokerVars
  <1>4. type \in Replying /\ type # "PUBREC"
    BY <1>1 DEF Replying
  <1>5. QED BY <1>1, <1>2, <1>3, <1>4, ExchangeEnds

LEMMA SubackUnsubackOutbound ==
  ASSUME Context, state = "RUNNING", SubackUnsuback, ClientOnly PROVE OutboundExchange'
  <1>1. PICK type \in {"SUBACK", "UNSUBACK"} : Receive(type)
    BY DEF SubackUnsuback
  <1>2. /\ Consume /\ outbound' = Drop(outbound, Head(toClient).id)
        /\ UNCHANGED <<linkUp, toServer, pending, state, toAnswer, unanswered, nextId, rejected,
                       abandoned, tooBig, qos2Messages, received2, delivered>>
    BY DEF SubackUnsuback, AckOutbound, ClientOnly, brokerVars
  <1>3. type \in Replying /\ type # "PUBREC"
    BY <1>1 DEF Replying
  <1>4. QED BY <1>1, <1>2, <1>3, ExchangeEnds

LEMMA PubrecFailedOutbound ==
  ASSUME Context, state = "RUNNING", PubrecFailed, ClientOnly PROVE OutboundExchange'
  <1>1. /\ Consume /\ Receive("PUBREC") /\ ~Head(toClient).ok
        /\ outbound' = Drop(outbound, Head(toClient).id)
        /\ UNCHANGED <<linkUp, state, toAnswer, unanswered, nextId, rejected, abandoned,
                       tooBig, qos2Messages, received2, delivered>>
    BY DEF PubrecFailed, AckOutbound, ClientOnly, brokerVars
  <1>2. "PUBREC" \in Replying
    BY DEF Replying
  <1>3. UNCHANGED <<toServer, pending>> \/ FrontSent
    <2> DEFINE store == Drop(outbound, Head(toClient).id)
    <2>1. Head(toClient).id \notin Range(pending)
      BY <1>1, <1>2, HandledReply
    <2>2. DOMAIN outbound \cap Range(pending) \subseteq DOMAIN store
      BY <2>1 DEF Drop, Restrict
    <2>3. PublishEnd(store)
      BY DEF PubrecFailed
    <2> HIDE DEF store
    <2>4. QED BY <2>2, <2>3, PublishEndSends
  <1>4. QED BY <1>1, <1>2, <1>3, ExchangeEnds

LEMMA PubrecOutbound ==
  ASSUME Context, state = "RUNNING", Pubrec, ClientOnly PROVE OutboundExchange'
  <1> USE ContextParts
  <1> DEFINE h == Head(toClient)
             id == h.id
             p == Ack("PUBREL", id)
  <1>1. /\ Receive("PUBREC") /\ h.ok /\ Consume
        /\ UNCHANGED <<linkUp, state, toAnswer, unanswered, nextId, rejected, abandoned,
                       tooBig, qos2Messages, received2, delivered, pending>>
    BY DEF Pubrec, ClientOnly, brokerVars
  <1>2. /\ h \in Replies /\ h.type = "PUBREC"
        /\ Carried(toClient, Replying) = Carried(toClient', Replying) \cup {h}
        /\ Replies = Replies' \cup {h}
        /\ OncePerId(toClient', Replying)
        /\ \A b \in Replies' : b.id # h.id
        /\ \A q \in Requests : q.id # h.id
        /\ id \notin Range(pending)
        /\ id \in DOMAIN outbound
    BY <1>1, HandledReply DEF Replying
  <1>3. /\ outbound' = Put(outbound, id, [outbound[id] EXCEPT !.pubrec = TRUE])
        /\ Send(<<p>>)
    BY <1>2 DEF Pubrec
  <1>4. p.id = id /\ p.type = "PUBREL" /\ p \in ServerBound
    <2>1. id \in PacketId
      BY <1>2, OutboundType DEF TypeOK
    <2>2. p \in ServerBound
      BY <2>1 DEF Ack, ServerBound
    <2>3. QED BY <2>2 DEF Ack
  <1>5. /\ ~outbound[id].pubrec /\ outbound[id].kind = "PUBLISH" /\ outbound[id].qos = 2
        /\ id \in DOMAIN received2 /\ outbound[id] \in Entry
    BY <1>1, <1>2, OutboundType DEF RepliesMatch, TypeOK
  <1> HIDE DEF h, p, id
  <1>6. /\ DOMAIN outbound' = DOMAIN outbound
        /\ \A i \in DOMAIN outbound : i # id => outbound'[i] = outbound[i]
        /\ outbound'[id] = [outbound[id] EXCEPT !.pubrec = TRUE]
    BY <1>2, <1>3 DEF Put
  <1>7. /\ outbound'[id].pubrec
        /\ outbound'[id].kind = outbound[id].kind
        /\ outbound'[id].qos = outbound[id].qos
        /\ outbound'[id].msg = outbound[id].msg
        /\ outbound'[id].retries = outbound[id].retries
    BY <1>5, <1>6 DEF Entry
  <1>8. Requests' = Requests \cup {p} /\ OncePerId(toServer', Asking)
    <2>1. \A q \in Requests : q.id # p.id
      BY <1>2, <1>4 DEF id
    <2>2. QED BY <1>3, <1>4, <2>1, SentMore, AskingTypes
  <1>9. Recorded'
    <2>1. StoreRight'
      <3>1. ASSUME NEW i \in DOMAIN outbound', i # id PROVE EntryRight(i)'
        BY <1>1, <1>6, <3>1 DEF StoreRight, EntryRight
      <3>2. ASSUME NEW i \in DOMAIN outbound', i = id PROVE EntryRight(i)'
        <4>1. EntryRight(i)
          BY <1>6, <3>2 DEF StoreRight
        <4>2. QED BY <1>1, <1>5, <1>7, <3>2, <4>1 DEF EntryRight
      <3>3. QED BY <1>1, <3>1, <3>2 DEF StoreRight
    <2>2. HandedOnOnce'
      BY <1>1, <1>6, <1>7 DEF HandedOnOnce
    <2>3. ReleasedIsReceived'
      BY <1>1, <1>5, <1>6 DEF ReleasedIsReceived, SessionGoesOn
    <2>4. QED BY <2>1, <2>2, <2>3 DEF Recorded
  <1>10. OneStepPerId'
    BY <1>1, <1>2, <1>4, <1>8 DEF OneStepPerId, id
  <1>11. RequestsMatch'
    <2>1. /\ p.id \in DOMAIN outbound'
          /\ p.type = "PUBREL" /\ outbound'[p.id].pubrec /\ outbound'[p.id].kind = "PUBLISH"
      BY <1>2, <1>4, <1>5, <1>6, <1>7 DEF id
    <2>2. \A q \in Requests : q.id \in DOMAIN outbound' /\ outbound'[q.id] = outbound[q.id]
      BY <1>2, <1>6 DEF RequestsMatch, id
    <2>3. QED BY <1>8, <2>1, <2>2 DEF RequestsMatch
  <1>12. RepliesMatch'
    BY <1>1, <1>2, <1>6 DEF RepliesMatch, id
  <1>13. PendingMatch'
    BY <1>1, <1>2, <1>6 DEF PendingMatch, StoredPublishes
  <1>14. UnansweredMatch'
    BY <1>1, <1>2, <1>4, <1>8 DEF UnansweredMatch, id
  <1>15. QuietUnlessRunning'
    BY <1>1, QuietRunning
  <1>16. QED BY <1>9, <1>10, <1>11, <1>12, <1>13, <1>14, <1>15, OutboundParts, PTL DEF InTransit

(* The client answers the broker's publishes. *)
LEMMA InboundAnswered ==
  ASSUME Context, state = "RUNNING", NEW type \in Offering, Receive(type), Consume,
         NEW p \in ServerBound, p.type \in Accepting, Send(<<p>>),
         UNCHANGED <<linkUp, state, toAnswer, unanswered, nextId, rejected, abandoned,
                     tooBig, qos2Messages, received2, delivered, pending, outbound>>
  PROVE  OutboundExchange'
  <1> USE ContextParts
  <1>1. /\ Carried(toClient', Replying) = Carried(toClient, Replying)
        /\ OncePerId(toClient', Replying)
    BY ReceiveReply DEF OneStepPerId, Offering, Replying
  <1>2. Requests' = Requests /\ OncePerId(toServer', Asking)
    BY SentMore, AskingTypes
  <1>3. InTransit'
    BY <1>1, <1>2, SameTransit, ContextTransit
  <1>4. Recorded'
    BY SameRecords, ContextTransit DEF SessionGoesOn
  <1>5. QuietUnlessRunning'
    BY QuietRunning
  <1>6. QED BY <1>3, <1>4, <1>5, OutboundParts, PTL

LEMMA PubrelOutbound ==
  ASSUME Context, state = "RUNNING", Pubrel, ClientOnly PROVE OutboundExchange'
  <1> USE ContextParts
  <1> DEFINE p == Ack("PUBCOMP", Head(toClient).id)
  <1>1. /\ Receive("PUBREL") /\ Consume /\ Send(<<p>>)
        /\ UNCHANGED <<linkUp, state, toAnswer, unanswered, nextId, rejected, abandoned,
                       tooBig, qos2Messages, received2, delivered, pending, outbound>>
    BY DEF Pubrel, ClientOnly, brokerVars
  <1>2. p \in ServerBound /\ p.type \in Accepting
    <2>1. Head(toClient).id \in InIds
      BY <1>1, ReceivedPacket, ClientBoundFields, WireAssumption DEF TypeOK
    <2>2. QED BY <2>1, AnswerPackets DEF Ack, Accepting
  <1> HIDE DEF p
  <1>3. "PUBREL" \in Offering
    BY DEF Offering
  <1>4. QED BY <1>1, <1>2, <1>3, InboundAnswered

LEMMA HandlePublishOutbound ==
  ASSUME Context, state = "RUNNING", HandlePublish, ClientOnly PROVE OutboundExchange'
  <1> USE ContextParts
  <1>1. /\ Receive("PUBLISH") /\ Consume
        /\ UNCHANGED <<linkUp, state, toAnswer, unanswered, nextId, rejected, abandoned,
                       tooBig, qos2Messages, received2, delivered, pending, outbound>>
    BY DEF HandlePublish, ClientOnly, brokerVars
  <1>2. PICK type \in {"PUBACK", "PUBREC"} : Send(<<Ack(type, Head(toClient).id)>>)
    BY DEF HandlePublish
  <1> DEFINE p == Ack(type, Head(toClient).id)
  <1>3. p \in ServerBound /\ p.type \in Accepting
    <2>1. Head(toClient).id \in InIds
      BY <1>1, ReceivedPacket, ClientBoundFields, WireAssumption DEF TypeOK
    <2>2. QED BY <2>1, AnswerPackets DEF Ack, Accepting
  <1>4. Send(<<p>>)
    BY <1>2
  <1> HIDE DEF p
  <1>5. "PUBLISH" \in Offering
    BY DEF Offering
  <1>6. QED BY <1>1, <1>3, <1>4, <1>5, InboundAnswered

-----------------------------------------------------------------------------
(* The application's calls. *)

(* The next identifier is new, and so is the message that takes it. *)
LEMMA NewIdentifier ==
  ASSUME IdsSuffice, TypeOK, StoreRight, RequestsMatch, RepliesMatch, PendingMatch,
         nextId < MaxPublish, nextId' = nextId + 1
  PROVE  /\ nextId' % IdSpace = nextId' /\ nextId' # 0
         /\ nextId' \in OutMsg /\ nextId' \in PacketId
         /\ nextId' \in 1 .. nextId' /\ 1 .. nextId \subseteq 1 .. nextId'
         /\ nextId' \notin 1 .. nextId
         /\ nextId' \notin DOMAIN outbound
         /\ \A p \in Requests \cup Replies : p.id # nextId'
         /\ nextId' \notin Range(pending)
         /\ nextId' \notin qos2Messages
         /\ delivered[nextId'] = 0
  <1>1. nextId \in 0 .. MaxPublish /\ nextId \in Nat /\ MaxPublish \in Nat /\ IdSpace \in Nat
    BY WireAssumption DEF TypeOK, SessionTypeOK
  <1>2. nextId' % IdSpace = nextId'
    BY <1>1 DEF IdsSuffice
  <1>3. /\ nextId' # 0 /\ nextId' \in OutMsg /\ nextId' \in PacketId
        /\ nextId' \in 1 .. nextId' /\ 1 .. nextId \subseteq 1 .. nextId'
        /\ nextId' \notin 1 .. nextId
    BY <1>1 DEF OutMsg, PacketId, IdsSuffice
  <1>4. nextId' \notin DOMAIN outbound /\ nextId' \notin qos2Messages
    BY <1>3 DEF StoreRight, EntryRight
  <1>5. delivered[nextId'] = 0
    BY <1>3 DEF StoreRight, TypeOK, BrokerTypeOK
  <1>6. \A p \in Requests \cup Replies : p.id # nextId'
    BY <1>4 DEF RequestsMatch, RepliesMatch
  <1>7. nextId' \notin Range(pending)
    BY <1>4 DEF PendingMatch, StoredPublishes
  <1>8. QED BY <1>2, <1>3, <1>4, <1>5, <1>6, <1>7

(* A packet takes the next identifier and is stored. *)
LEMMA StoreNew ==
  ASSUME IdsSuffice, Context, state = "RUNNING",
         NEW kind \in {"PUBLISH"} \cup RequestKinds, NEW qos \in {0} \cup QoS,
         kind = "PUBLISH" => qos \in PublishQoS,
         nextId < MaxPublish, nextId' = nextId + 1,
         qos2Messages' = IF kind = "PUBLISH" /\ qos = 2 THEN qos2Messages \cup {nextId'}
                         ELSE qos2Messages,
         outbound' = Put(outbound, nextId' % IdSpace, NewEntry(kind, qos)),
         UNCHANGED <<state, rejected, abandoned, tooBig, received2, delivered>>
  PROVE  /\ Recorded'
         /\ DOMAIN outbound' = DOMAIN outbound \cup {nextId'}
         /\ \A id \in DOMAIN outbound : outbound'[id] = outbound[id]
         /\ outbound'[nextId'].kind = kind /\ outbound'[nextId'].qos = qos
         /\ ~outbound'[nextId'].pubrec
  <1> USE ContextParts
  <1>1. PICK n \in OutMsg : n = nextId'
    BY NewIdentifier
  <1>2. /\ n % IdSpace = n
        /\ n \in 1 .. nextId' /\ 1 .. nextId \subseteq 1 .. nextId' /\ n \notin 1 .. nextId
        /\ n \notin DOMAIN outbound
        /\ n \notin qos2Messages /\ delivered[n] = 0
    BY <1>1, NewIdentifier
  <1> DEFINE e == NewEntry(kind, qos)
  <1>3. /\ e.kind = kind /\ e.qos = qos /\ e.msg = n /\ ~e.pubrec /\ e.retries = MaxRetries
    BY <1>1 DEF NewEntry
  <1>4. outbound' = Put(outbound, n, e)
    BY <1>1, <1>2
  <1> HIDE DEF e
  <1>5. /\ DOMAIN outbound' = DOMAIN outbound \cup {n}
        /\ \A id \in DOMAIN outbound : outbound'[id] = outbound[id]
        /\ outbound'[n] = e
    BY <1>2, <1>4 DEF Put
  <1>6. qos2Messages' = IF kind = "PUBLISH" /\ qos = 2 THEN qos2Messages \cup {n} ELSE qos2Messages
    BY <1>1
  <1>7. StoreRight'
    <2>1. ASSUME NEW id \in DOMAIN outbound PROVE EntryRight(id)'
      <3>1. EntryRight(id) /\ id # n
        BY <1>2 DEF StoreRight
      <3>2. id \in qos2Messages' <=> id \in qos2Messages
        BY <1>6, <3>1
      <3>3. QED BY <1>2, <1>5, <3>1, <3>2 DEF EntryRight
    <2>2. EntryRight(n)'
      <3>1. /\ outbound'[n].kind = kind /\ outbound'[n].qos = qos /\ outbound'[n].msg = n
            /\ ~outbound'[n].pubrec /\ outbound'[n].retries = MaxRetries
        BY <1>3, <1>5
      <3>2. n \in qos2Messages' <=> kind = "PUBLISH" /\ qos = 2
        BY <1>2, <1>6
      <3>3. QED BY <1>2, <3>1, <3>2 DEF EntryRight
    <2>3. rejected' \cup abandoned' \cup tooBig' \cup qos2Messages' \subseteq 1 .. nextId'
      BY <1>2, <1>6 DEF StoreRight
    <2>4. \A m \in OutMsg : delivered'[m] > 0 => m \in 1 .. nextId'
      BY <1>2 DEF StoreRight
    <2>5. QED BY <1>5, <2>1, <2>2, <2>3, <2>4 DEF StoreRight
  <1>8. HandedOnOnce'
    BY <1>2, <1>5, <1>6 DEF HandedOnOnce, StoreRight, EntryRight
  <1>9. ReleasedIsReceived'
    BY <1>3, <1>5 DEF ReleasedIsReceived, SessionGoesOn
  <1>10. QED BY <1>1, <1>3, <1>5, <1>7, <1>8, <1>9 DEF Recorded

(* It is sent. *)
LEMMA SendNew ==
  ASSUME IdsSuffice, Context, state = "RUNNING", nextId < MaxPublish, nextId' = nextId + 1,
         NEW p \in ServerBound, p.type \in Asking, p.type # "PUBREL", p.id = nextId',
         p.msg = nextId',
         Send(<<p>>),
         DOMAIN outbound' = DOMAIN outbound \cup {nextId'},
         \A id \in DOMAIN outbound : outbound'[id] = outbound[id],
         outbound'[nextId'].kind = p.type,
         p.type = "PUBLISH" => p.qos = outbound'[nextId'].qos,
         ~outbound'[nextId'].pubrec,
         UNCHANGED <<toClient, toAnswer, pending, unanswered, rejected, received2, delivered>>
  PROVE  InTransit'
  <1> USE ContextParts
  <1>1. PICK n \in OutMsg : n = nextId'
    BY NewIdentifier
  <1>2. /\ n \notin DOMAIN outbound
        /\ \A q \in Requests \cup Replies : q.id # n
        /\ n \notin Range(pending)
    BY <1>1, NewIdentifier
  <1>3. Requests' = Requests \cup {p} /\ OncePerId(toServer', Asking)
    BY <1>1, <1>2, SentMore
  <1>4. Replies' = Replies /\ Carried(toClient', Replying) = Carried(toClient, Replying)
    BY DEF Replies
  <1>5. OneStepPerId'
    BY <1>1, <1>2, <1>3, <1>4 DEF OneStepPerId
  <1>6. RequestsMatch'
    <2>1. \A q \in Requests : q.id \in DOMAIN outbound' /\ outbound'[q.id] = outbound[q.id]
      BY DEF RequestsMatch
    <2>2. /\ p.id \in DOMAIN outbound' /\ ~outbound'[p.id].pubrec
          /\ outbound'[p.id].kind = p.type
          /\ p.msg = p.id
          /\ p.type = "PUBLISH" => p.qos = outbound'[p.id].qos
      OBVIOUS
    <2>3. QED BY <1>3, <2>1, <2>2 DEF RequestsMatch
  <1>7. RepliesMatch'
    <2>1. \A q \in Replies : q.id \in DOMAIN outbound' /\ outbound'[q.id] = outbound[q.id]
      BY DEF RepliesMatch
    <2>2. QED BY <1>4, <2>1 DEF RepliesMatch
  <1>8. PendingMatch'
    BY DEF PendingMatch, StoredPublishes
  <1>9. UnansweredMatch'
    BY <1>3, <1>4 DEF UnansweredMatch
  <1>10. QED BY <1>5, <1>6, <1>7, <1>8, <1>9 DEF InTransit

(* It waits in _pending. *)
LEMMA HoldNew ==
  ASSUME IdsSuffice, Context, state = "RUNNING", nextId < MaxPublish, nextId' = nextId + 1,
         pending' = Append(pending, nextId'),
         DOMAIN outbound' = DOMAIN outbound \cup {nextId'},
         \A id \in DOMAIN outbound : outbound'[id] = outbound[id],
         outbound'[nextId'].kind = "PUBLISH",
         ~outbound'[nextId'].pubrec,
         UNCHANGED <<toServer, toClient, toAnswer, unanswered, rejected, received2, delivered>>
  PROVE  InTransit'
  <1> USE ContextParts
  <1>1. PICK n \in OutMsg : n = nextId'
    BY NewIdentifier
  <1>2. /\ n \notin DOMAIN outbound
        /\ \A q \in Requests \cup Replies : q.id # n
        /\ n \notin Range(pending) /\ n \in PacketId
    BY <1>1, NewIdentifier
  <1>3. Requests' = Requests /\ Replies' = Replies
    BY DEF Requests, Replies
  <1>4. Range(pending') = Range(pending) \cup {n} /\ IsInjective(pending')
    <2>1. pending \in Seq(PacketId) /\ IsInjective(pending)
      BY DEF TypeOK, SessionTypeOK, OneStepPerId
    <2>2. pending' = Append(pending, n)
      BY <1>1
    <2>3. QED BY <1>2, <2>1, <2>2, QueueAppend
  <1>5. OneStepPerId'
    BY <1>2, <1>3, <1>4 DEF OneStepPerId
  <1>6. RequestsMatch'
    <2>1. \A q \in Requests : q.id \in DOMAIN outbound' /\ outbound'[q.id] = outbound[q.id]
      BY DEF RequestsMatch
    <2>2. QED BY <1>3, <2>1 DEF RequestsMatch
  <1>7. RepliesMatch'
    <2>1. \A q \in Replies : q.id \in DOMAIN outbound' /\ outbound'[q.id] = outbound[q.id]
      BY DEF RepliesMatch
    <2>2. QED BY <1>3, <2>1 DEF RepliesMatch
  <1>8. PendingMatch'
    BY <1>1, <1>4 DEF PendingMatch, StoredPublishes
  <1>9. UnansweredMatch'
    BY <1>3 DEF UnansweredMatch
  <1>10. QED BY <1>5, <1>6, <1>7, <1>8, <1>9 DEF InTransit

LEMMA PublishPacketOutbound ==
  ASSUME IdsSuffice, Context, NEW qos \in PublishQoS, PublishPacket(qos), ClientOnly
  PROVE  OutboundExchange'
  <1> USE ContextParts
  <1>1. /\ state = "RUNNING" /\ nextId < MaxPublish /\ nextId' = nextId + 1
        /\ qos2Messages' = IF qos = 2 THEN qos2Messages \cup {nextId'} ELSE qos2Messages
        /\ outbound' = Put(outbound, nextId' % IdSpace, NewEntry("PUBLISH", qos))
        /\ UNCHANGED <<linkUp, state, toClient, rejected, abandoned, tooBig, received2, delivered,
                       toAnswer, unanswered>>
    BY DEF PublishPacket, ClientOnly, brokerVars
  <1>2. qos \in QoS
    BY WireAssumption DEF QoS
  <1>3. /\ nextId' % IdSpace = nextId' /\ nextId' \in OutMsg /\ nextId' \in PacketId
    BY <1>1, NewIdentifier
  <1>4. /\ Recorded'
        /\ DOMAIN outbound' = DOMAIN outbound \cup {nextId'}
        /\ \A id \in DOMAIN outbound : outbound'[id] = outbound[id]
        /\ outbound'[nextId'].kind = "PUBLISH" /\ outbound'[nextId'].qos = qos
        /\ ~outbound'[nextId'].pubrec
    BY <1>1, <1>2, StoreNew
  <1>5. InTransit'
    <2>1. CASE pending' = Append(pending, nextId') /\ UNCHANGED toServer
      BY <1>1, <1>4, <2>1, HoldNew
    <2>2. CASE Send(<<Publish(nextId', qos, nextId')>>) /\ UNCHANGED pending
      <3> DEFINE p == Publish(nextId', qos, nextId')
      <3>1. /\ p.type = "PUBLISH" /\ p.id = nextId' /\ p.msg = nextId' /\ p.qos = qos
        BY DEF Publish
      <3>2. p \in ServerBound
        BY <1>2, <1>3, ServerBoundPackets
      <3>3. Send(<<p>>) /\ UNCHANGED pending
        BY <2>2
      <3> HIDE DEF p
      <3>4. QED BY <1>1, <1>4, <3>1, <3>2, <3>3, SendNew, AskingTypes
    <2>3. QED BY <1>3, <2>1, <2>2 DEF PublishPacket
  <1>6. QuietUnlessRunning'
    BY <1>1, QuietRunning
  <1>7. QED BY <1>4, <1>5, <1>6, OutboundParts, PTL

LEMMA MultiTopicOutbound ==
  ASSUME IdsSuffice, Context, NEW kind \in RequestKinds, MultiTopic(kind), ClientOnly
  PROVE  OutboundExchange'
  <1> USE ContextParts
  <1>1. /\ state = "RUNNING" /\ nextId < MaxPublish /\ nextId' = nextId + 1
        /\ outbound' = Put(outbound, nextId' % IdSpace, NewEntry(kind, 0))
        /\ Send(<<Request(kind, nextId' % IdSpace, nextId')>>)
        /\ UNCHANGED <<linkUp, state, toClient, rejected, abandoned, tooBig, received2, delivered,
                       toAnswer, unanswered, qos2Messages, pending>>
    BY DEF MultiTopic, ClientOnly, brokerVars
  <1>2. /\ nextId' % IdSpace = nextId' /\ nextId' \in OutMsg /\ nextId' \in PacketId
    BY <1>1, NewIdentifier
  <1>3. kind # "PUBLISH" /\ kind \in Asking /\ kind # "PUBREL"
    BY AskingTypes
  <1>4. /\ Recorded'
        /\ DOMAIN outbound' = DOMAIN outbound \cup {nextId'}
        /\ \A id \in DOMAIN outbound : outbound'[id] = outbound[id]
        /\ outbound'[nextId'].kind = kind /\ outbound'[nextId'].qos = 0
        /\ ~outbound'[nextId'].pubrec
    BY <1>1, <1>3, StoreNew
  <1>5. InTransit'
    <2> DEFINE p == Request(kind, nextId', nextId')
    <2>1. p.type = kind /\ p.id = nextId' /\ p.msg = nextId'
      BY DEF Request
    <2>2. p \in ServerBound
      BY <1>2, ServerBoundPackets
    <2>3. Send(<<p>>)
      BY <1>1, <1>2
    <2> HIDE DEF p
    <2>4. QED BY <1>1, <1>3, <1>4, <2>1, <2>2, <2>3, SendNew
  <1>6. QuietUnlessRunning'
    BY <1>1, QuietRunning
  <1>7. QED BY <1>4, <1>5, <1>6, OutboundParts, PTL

LEMMA PacketTooBigOutbound ==
  ASSUME IdsSuffice, Context, NEW kind, NEW qos, PacketTooBig(kind, qos), ClientOnly
  PROVE  OutboundExchange'
  <1> USE ContextParts
  <1>1. /\ state = "RUNNING" /\ nextId < MaxPublish /\ nextId' = nextId + 1
        /\ tooBig' = tooBig \cup {nextId'}
        /\ outbound' = IF nextId' % IdSpace = 0
                       THEN Put(outbound, nextId' % IdSpace, NewEntry(kind, qos))
                       ELSE Drop(outbound, nextId' % IdSpace)
        /\ UNCHANGED <<linkUp, toServer, toClient, state, rejected, abandoned, received2,
                       delivered, toAnswer, unanswered, qos2Messages, pending>>
    BY DEF PacketTooBig, ClientOnly, brokerVars, wireVars
  <1>2. /\ nextId' % IdSpace = nextId' /\ nextId' # 0
        /\ nextId' \in 1 .. nextId' /\ 1 .. nextId \subseteq 1 .. nextId'
        /\ nextId' \notin DOMAIN outbound
    BY <1>1, NewIdentifier
  <1>3. /\ DOMAIN outbound' = DOMAIN outbound
        /\ \A id \in DOMAIN outbound : outbound'[id] = outbound[id]
    <2>1. outbound' = Drop(outbound, nextId')
      BY <1>1, <1>2
    <2>2. DOMAIN outbound \ {nextId'} = DOMAIN outbound
      BY <1>2
    <2>3. QED BY <2>1, <2>2 DEF Drop, Restrict
  <1>4. Recorded'
    <2>1. StoreRight'
      <3>1. ASSUME NEW id \in DOMAIN outbound' PROVE EntryRight(id)'
        <4>1. id \in DOMAIN outbound /\ outbound'[id] = outbound[id] /\ EntryRight(id)
          BY <1>3 DEF StoreRight
        <4>2. id \in 1 .. nextId' /\ qos2Messages' = qos2Messages
          BY <1>1, <1>2, <4>1 DEF EntryRight
        <4>3. QED BY <4>1, <4>2 DEF EntryRight
      <3>2. rejected' \cup abandoned' \cup tooBig' \cup qos2Messages' \subseteq 1 .. nextId'
        BY <1>1, <1>2 DEF StoreRight
      <3>3. \A m \in OutMsg : delivered'[m] > 0 => m \in 1 .. nextId'
        BY <1>1, <1>2 DEF StoreRight
      <3>4. QED BY <3>1, <3>2, <3>3 DEF StoreRight
    <2>2. HandedOnOnce' /\ ReleasedIsReceived'
      BY <1>1, <1>3 DEF HandedOnOnce, ReleasedIsReceived, SessionGoesOn
    <2>3. QED BY <2>1, <2>2 DEF Recorded
  <1>5. InTransit'
    <2>1. Requests' = Requests /\ Replies' = Replies
      BY <1>1 DEF Requests, Replies
    <2>2. OneStepPerId' /\ UnansweredMatch'
      BY <1>1, <2>1 DEF OneStepPerId, UnansweredMatch
    <2>3. RequestsMatch'
      BY <1>3, <2>1 DEF RequestsMatch
    <2>4. RepliesMatch'
      BY <1>1, <1>3, <2>1 DEF RepliesMatch
    <2>5. PendingMatch'
      BY <1>1, <1>3 DEF PendingMatch, StoredPublishes
    <2>6. QED BY <2>2, <2>3, <2>4, <2>5 DEF InTransit
  <1>6. QuietUnlessRunning'
    BY <1>1, QuietRunning
  <1>7. QED BY <1>4, <1>5, <1>6, OutboundParts, PTL

-----------------------------------------------------------------------------
(* The CONNACK: the session is gone on with, or begins anew. *)

(* What _resendPartialTxns puts on the wire and into _pending. *)
LEMMA ResendExchange ==
  ASSUME IdsSuffice, Context, state # "RUNNING", toServer = <<>>,
         NEW rmax, rmax \in Nat, ResendPartialTxns(rmax)
  PROVE  /\ DOMAIN outbound' = DOMAIN outbound
         /\ \A id \in DOMAIN outbound : outbound'[id] = outbound[id]
         /\ OncePerId(toServer', Asking)
         /\ IsInjective(pending')
         /\ \A id \in Range(pending') : id \in StoredPublishes /\ ~outbound[id].pubrec
         /\ \A p \in Requests' :
              /\ p.id \in StoredPublishes /\ p.id \notin Range(pending')
              /\ \/ p.type = "PUBREL" /\ outbound[p.id].pubrec
                 \/ /\ p.type = "PUBLISH" /\ ~outbound[p.id].pubrec
                    /\ p.msg = p.id /\ p.qos = outbound[p.id].qos
  <1> USE ContextParts
  <1> DEFINE kept  == DOMAIN outbound \ Spent
             rels  == kept \cap Released
             pubs  == {id \in kept \cap StoredPublishes : id # 0} \ rels
             room  == Room(rmax)
  <1>1. PICK order \in Ascending(pubs) :
          LET fit == IF Len(order) <= room THEN Len(order) ELSE room
              now == {order[i] : i \in 1 .. fit}
          IN \E batch \in Ascending(rels \cup now) :
               /\ toServer' = toServer \o
                    [i \in DOMAIN batch |-> IF batch[i] \in rels
                                           THEN Ack("PUBREL", batch[i])
                                           ELSE StoredPacket(batch[i])]
               /\ pending' = pending \o SubSeq(order, fit + 1, Len(order))
               /\ inflight' = (inflight + fit) % Word
               /\ outbound' = Restrict(outbound, kept)
    BY DEF ResendPartialTxns
  <1> DEFINE fit == IF Len(order) <= room THEN Len(order) ELSE room
             now == {order[i] : i \in 1 .. fit}
  <1>2. PICK batch \in Ascending(rels \cup now) :
          /\ toServer' = toServer \o
               [i \in DOMAIN batch |-> IF batch[i] \in rels
                                      THEN Ack("PUBREL", batch[i])
                                      ELSE StoredPacket(batch[i])]
          /\ pending' = pending \o SubSeq(order, fit + 1, Len(order))
          /\ outbound' = Restrict(outbound, kept)
    BY <1>1
  <1>3. Spent = {} /\ kept = DOMAIN outbound
    <2>1. MaxRetries # 1
      BY SessionAssumption DEF IdsSuffice
    <2>2. \A id \in DOMAIN outbound : outbound[id].retries # 1
      BY <2>1 DEF StoreRight, EntryRight
    <2>3. Spent = {}
      BY <2>2 DEF Spent
    <2>4. QED BY <2>3
  <1>4. /\ rels \subseteq StoredPublishes /\ \A id \in rels : outbound[id].pubrec
        /\ pubs \subseteq StoredPublishes /\ \A id \in pubs : ~outbound[id].pubrec
    BY <1>3 DEF Released, StoredPublishes, StoreRight, EntryRight
  <1>5. StoredPublishes \subseteq PacketId /\ PacketId \subseteq Nat
    BY OutboundType, WireAssumption DEF TypeOK, StoredPublishes, PacketId
  <1>6. pending = <<>> /\ inflight = 0
    BY QuietBefore
  <1>7. room \in Nat
    BY <1>6 DEF Room
  <1>8. /\ DOMAIN outbound' = DOMAIN outbound
        /\ \A id \in DOMAIN outbound : outbound'[id] = outbound[id]
    BY <1>2, <1>3 DEF Restrict
  <1> HIDE DEF kept, rels, pubs, room
  <1>9. order \in Seq(pubs) /\ Len(order) \in Nat /\ IsInjective(order) /\ Range(order) \subseteq pubs
    <2>1. IsFiniteSet(pubs) /\ pubs \subseteq Nat
      BY <1>4, <1>5, WireAssumption, PacketIdFinite, FS_Subset
    <2>2. QED BY <2>1, AscendingOnce
  <1>10. fit \in 0 .. Len(order) /\ now \subseteq pubs
    BY <1>7, <1>9
  <1>11. /\ IsInjective(pending') /\ Range(pending') \subseteq pubs
         /\ \A id \in Range(pending') : id \notin now
    <2> DEFINE r == SubSeq(order, fit + 1, Len(order))
    <2>1. IsInjective(r) /\ r \in Seq(pubs) /\ Range(r) \subseteq Range(order) \ {order[i] : i \in 1 .. fit}
      <3> HIDE DEF fit
      <3>1. QED BY <1>9, <1>10, RestOfSequence
    <2>2. pending' = <<>> \o r
      BY <1>2, <1>6
    <2> HIDE DEF r
    <2>3. pending' = r
      BY <2>1, <2>2
    <2>4. QED BY <1>9, <2>1, <2>3
  <1> HIDE DEF fit, now
  <1>12. /\ batch \in Seq(rels \cup now) /\ IsInjective(batch) /\ DOMAIN batch = 1 .. Len(batch)
         /\ Len(batch) \in Nat
    <2>1. IsFiniteSet(rels \cup now) /\ rels \cup now \subseteq Nat
      BY <1>4, <1>5, <1>10, WireAssumption, PacketIdFinite, FS_Subset
    <2>2. QED BY <2>1, AscendingOnce
  <1> DEFINE out == [i \in DOMAIN batch |-> IF batch[i] \in rels THEN Ack("PUBREL", batch[i])
                                           ELSE StoredPacket(batch[i])]
  <1>13. toServer' = out
    <2>1. toServer' = <<>> \o out
      BY <1>2
    <2>2. out \in Seq({out[i] : i \in DOMAIN batch})
      BY <1>12
    <2> HIDE DEF out
    <2>3. QED BY <2>1, <2>2
  <1>14. ASSUME NEW i \in DOMAIN out
         PROVE  /\ i \in DOMAIN batch /\ out[i].id = batch[i]
                /\ batch[i] \in StoredPublishes /\ batch[i] \notin Range(pending')
                /\ \/ out[i].type = "PUBREL" /\ outbound[batch[i]].pubrec
                   \/ /\ out[i].type = "PUBLISH" /\ ~outbound[batch[i]].pubrec
                      /\ out[i].msg = batch[i] /\ out[i].qos = outbound[batch[i]].qos
    <2>1. i \in DOMAIN batch /\ batch[i] \in rels \cup now
      BY <1>12
    <2>2. CASE batch[i] \in rels
      <3>1. out[i] = Ack("PUBREL", batch[i])
        BY <2>1, <2>2
      <3>2. out[i].id = batch[i] /\ out[i].type = "PUBREL"
        BY <3>1 DEF Ack
      <3>3. batch[i] \in StoredPublishes /\ outbound[batch[i]].pubrec
        BY <1>4, <2>2
      <3>4. batch[i] \notin Range(pending')
        BY <1>4, <1>11, <3>3
      <3>5. QED BY <2>1, <3>2, <3>3, <3>4
    <2>3. CASE batch[i] \notin rels
      <3>1. /\ batch[i] \in now /\ batch[i] \in StoredPublishes /\ ~outbound[batch[i]].pubrec
            /\ batch[i] \notin Range(pending')
        BY <1>4, <1>10, <1>11, <2>1, <2>3
      <3>2. batch[i] \in DOMAIN outbound /\ outbound[batch[i]].kind = "PUBLISH"
        BY <3>1 DEF StoredPublishes
      <3>3. out[i] = Publish(batch[i], outbound[batch[i]].qos, batch[i])
        BY <2>1, <2>3, <3>2, StoredIsMessage DEF StoredPacket
      <3>4. QED BY <2>1, <3>1, <3>3 DEF Publish
    <2>4. QED BY <2>2, <2>3
  <1> HIDE DEF out
  <1>15. OncePerId(out, Asking)
    BY <1>14, <1>12 DEF OncePerId, IsInjective
  <1>16. \A p \in Requests' : \E i \in DOMAIN out : p = out[i]
    BY <1>13 DEF Requests, Carried, Range
  <1>17. \A p \in Requests' :
           /\ p.id \in StoredPublishes /\ p.id \notin Range(pending')
           /\ \/ p.type = "PUBREL" /\ outbound[p.id].pubrec
              \/ /\ p.type = "PUBLISH" /\ ~outbound[p.id].pubrec
                 /\ p.msg = p.id /\ p.qos = outbound[p.id].qos
    BY <1>14, <1>16
  <1>18. QED BY <1>4, <1>8, <1>11, <1>13, <1>15, <1>17

LEMMA ConnackRunningOutbound ==
  ASSUME IdsSuffice, Context, ConnackRunning, ClientOnly PROVE OutboundExchange'
  <1> USE ContextParts
  <1> DEFINE c == Head(toClient)
  <1>0. linkUp
    BY DEF ConnackRunning, Receive, QuietUnlessRunning
  <1>1. /\ state = "TCP_CONNECTED" /\ state' = "RUNNING" /\ linkUp' /\ Receive("CONNACK")
        /\ c.ok /\ Consume
        /\ UNCHANGED <<nextId, rejected, tooBig, qos2Messages, received2, delivered, toAnswer,
                       unanswered>>
        /\ \/ c.present /\ ResendPartialTxns(c.rmax) /\ UNCHANGED abandoned
           \/ ~c.present /\ StartClean /\ UNCHANGED <<toServer, pending>>
    BY <1>0 DEF ConnackRunning, Receive, ClientOnly, brokerVars
  <1>2. Accepted /\ toClient[1] = c
    <2>1. ~Refused
      BY <1>1 DEF Refused, Connack
    <2>2. Accepted
      BY <1>1, <2>1, OnlyConnack DEF TypeOK
    <2>3. QED BY <2>2 DEF Accepted, TypeOK, WireTypeOK
  <1>3. /\ toServer = <<>> /\ pending = <<>> /\ toAnswer = {} /\ unanswered = {}
        /\ Carried(toClient, Replying) = {}
    BY <1>1, <1>2, QuietBefore DEF Accepted
  <1>4. c \in ClientBound /\ c.type = "CONNACK" /\ Carried(toClient', Replying) = {}
    BY <1>1, <1>3, ReceiveReply, CarriedNone DEF Replying
  <1>5. c.rmax \in Nat
    BY <1>4, ClientBoundFields, WireAssumption
  <1> HIDE DEF c
  <1>6. Replies' = {}
    BY <1>1, <1>3, <1>4 DEF Replies
  <1>7. QuietUnlessRunning'
    BY <1>1, QuietRunning
  <1>8. CASE ~c.present
    <2>1. InTransit'
      <3>1. Requests' = {} /\ pending' = <<>> /\ unanswered' = {}
        BY <1>1, <1>3, <1>8, CarriedEmpty DEF Requests
      <3>2. QED BY <1>6, <3>1, NothingInTransit
    <2>2. Recorded'
      BY <1>1, <1>8, StartCleanRecorded
    <2>3. QED BY <1>7, <2>1, <2>2, OutboundParts, PTL
  <1>9. CASE c.present
    <2>1. /\ DOMAIN outbound' = DOMAIN outbound
          /\ \A id \in DOMAIN outbound : outbound'[id] = outbound[id]
          /\ OncePerId(toServer', Asking)
          /\ IsInjective(pending')
          /\ \A id \in Range(pending') : id \in StoredPublishes /\ ~outbound[id].pubrec
          /\ \A p \in Requests' :
               /\ p.id \in StoredPublishes /\ p.id \notin Range(pending')
               /\ \/ p.type = "PUBREL" /\ outbound[p.id].pubrec
                  \/ /\ p.type = "PUBLISH" /\ ~outbound[p.id].pubrec
                     /\ p.msg = p.id /\ p.qos = outbound[p.id].qos
      BY <1>1, <1>3, <1>5, <1>9, ResendExchange
    <2>2. Recorded'
      <3>1. UNCHANGED abandoned
        BY <1>1, <1>9
      <3>2. StoreRight' /\ HandedOnOnce'
        BY <1>1, <2>1, <3>1 DEF StoreRight, EntryRight, HandedOnOnce
      <3>3. SessionGoesOn
        BY <1>2, <1>9 DEF SessionGoesOn
      <3>4. ReleasedIsReceived'
        BY <1>1, <2>1, <3>3 DEF ReleasedIsReceived
      <3>5. QED BY <3>2, <3>4 DEF Recorded
    <2>3. OneStepPerId'
      <3>1. OncePerId(toClient', Replying) /\ toAnswer' = {}
        BY <1>1, <1>3, <1>4, CarriedNone
      <3>2. QED BY <1>4, <1>6, <2>1, <3>1 DEF OneStepPerId
    <2>4. RequestsMatch'
      BY <2>1 DEF RequestsMatch, StoredPublishes
    <2>5. PendingMatch'
      BY <2>1 DEF PendingMatch, StoredPublishes
    <2>6. RepliesMatch' /\ UnansweredMatch'
      BY <1>1, <1>3, <1>6 DEF RepliesMatch, UnansweredMatch
    <2>7. QED BY <1>7, <2>2, <2>3, <2>4, <2>5, <2>6, OutboundParts, PTL DEF InTransit
  <1>10. QED BY <1>8, <1>9

-----------------------------------------------------------------------------
LEMMA InitOutbound == Init => OutboundExchange
  <1> SUFFICES ASSUME Init PROVE OutboundExchange
    OBVIOUS
  <1>1. /\ toServer = <<>> /\ toClient = <<>> /\ linkUp = FALSE /\ state = "DISCONNECTED"
        /\ DOMAIN outbound = {} /\ pending = <<>> /\ inflight = 0
        /\ abandoned = {} /\ qos2Messages = {} /\ tooBig = {} /\ rejected = {}
        /\ DOMAIN received2 = {} /\ toAnswer = {} /\ unanswered = {}
        /\ delivered = [m \in OutMsg |-> 0]
    BY EmptyMapType DEF Init, WireInit, SessionInit, BrokerInit
  <1>2. Carried(toServer, Asking) = {} /\ Carried(toClient, Replying) = {}
    BY <1>1, CarriedEmpty
  <1>3. Requests = {} /\ Replies = {}
    BY <1>1, <1>2 DEF Requests, Replies
  <1>4. QuietUnlessRunning
    BY <1>1, <1>3 DEF QuietUnlessRunning
  <1>5. StoreRight /\ HandedOnOnce /\ ReleasedIsReceived
    BY <1>1 DEF StoreRight, HandedOnOnce, ReleasedIsReceived
  <1>6. OneStepPerId
    <2>1. OncePerId(toServer, Asking) /\ OncePerId(toClient, Replying)
      BY <1>2, CarriedNone
    <2>2. IsInjective(pending) /\ Range(pending) = {}
      BY <1>1 DEF IsInjective, Range
    <2>3. QED BY <1>1, <1>2, <1>3, <2>1, <2>2 DEF OneStepPerId
  <1>7. PendingMatch /\ RequestsMatch /\ RepliesMatch /\ UnansweredMatch
    BY <1>1, <1>3 DEF PendingMatch, Range, RequestsMatch, RepliesMatch, UnansweredMatch
  <1>8. QED BY <1>4, <1>5, <1>6, <1>7 DEF OutboundExchange

(* The handlers of all but CONNACK, and the broker's readers of all but CONNECT,
   run on an established connection. *)
LEMMA HandlerRunning ==
  ASSUME TypeOK, InPhase, DataHandler PROVE state = "RUNNING"
  <1>1. ASSUME NEW type, Receive(type), type # "CONNACK" PROVE state = "RUNNING"
    BY <1>1, OnlyConnack DEF TypeOK
  <1>2. QED BY <1>1 DEF DataHandler, PubackPubcomp, SubackUnsuback, PubrecFailed, Pubrec, Pubrel,
               HandlePublish

LEMMA ReaderRunning ==
  ASSUME InPhase, DataReader \/ Answer PROVE state = "RUNNING"
  <1>1. CASE DataReader
    <2>1. PICK type : type # "CONNECT" /\ Incoming(type)
      BY <1>1, WireAssumption DEF DataReader, ReceivePublish1, ReceivePublish2, RejectPublish,
         ReceivePubrel, ReceiveRequest, ReceivePubackPubcomp, ReceivePubrec
    <2>2. QED BY <2>1, OnlyConnect
  <1>2. CASE Answer
    BY <1>2 DEF Answer, InPhase, Running
  <1>3. QED BY <1>1, <1>2

LEMMA OvertakenOutbound ==
  ASSUME Context, Overtaken PROVE OutboundExchange'
  <1> USE ContextParts
  <1>1. /\ state = "RUNNING"
        /\ UNCHANGED <<linkUp, toServer, state, pending, outbound, nextId, abandoned, tooBig,
                       qos2Messages, received2, delivered, rejected, toAnswer, unanswered>>
    BY DEF Overtaken, sessionVars, brokerVars
  <1>2. PICK i \in 1 .. Len(toClient) - 1 : toClient' = Exchanged(toClient, i)
    BY DEF Overtaken, Exchanged
  <1>3. /\ Carried(toClient', Replying) = Carried(toClient, Replying)
        /\ OncePerId(toClient', Replying)
    BY <1>2, ExchangedCarried DEF TypeOK, WireTypeOK, OneStepPerId
  <1>4. Requests' = Requests /\ OncePerId(toServer', Asking)
    BY <1>1 DEF Requests, OneStepPerId
  <1>5. InTransit'
    BY <1>1, <1>3, <1>4, SameTransit, ContextTransit
  <1>6. Recorded'
    BY <1>1, SameRecords, ContextTransit DEF SessionGoesOn
  <1>7. QuietUnlessRunning'
    BY <1>1, QuietRunning
  <1>8. QED BY <1>5, <1>6, <1>7, OutboundParts, PTL

LEMMA NextOutbound == IdsSuffice /\ Context /\ [InTurn]_vars => Context'
  <1> SUFFICES ASSUME IdsSuffice, Context, [InTurn]_vars PROVE Context'
    OBVIOUS
  <1> USE ContextParts
  <1>1. TypeOK' /\ InPhase'
    BY InTurnType, NextPhase
  <1>2. CASE ClientStep
    <2>1. CASE ClientCloses
      BY <1>1, <2>1, ClientClosesOutbound DEF Context
    <2>2. CASE ~ClientCloses /\ ClientOnly
      <3>1. CASE ConnectPacket
        BY <1>1, <2>2, <3>1, ConnectPacketOutbound DEF Context
      <3>2. CASE ConnackRunning
        BY <1>1, <2>2, <3>2, ConnackRunningOutbound DEF Context
      <3>3. CASE ConnackRefused
        BY <1>1, <2>2, <3>3, ConnackRefusedOutbound DEF Context
      <3>4. CASE DataHandler
        <4>1. state = "RUNNING"
          BY <3>4, HandlerRunning
        <4>2. OutboundExchange'
          BY <2>2, <3>4, <4>1, PubackPubcompOutbound, SubackUnsubackOutbound,
             PubrecFailedOutbound, PubrecOutbound, PubrelOutbound, HandlePublishOutbound
          DEF DataHandler
        <4>3. QED BY <1>1, <4>2 DEF Context
      <3>5. QED BY <1>2, <2>2, <3>1, <3>2, <3>3, <3>4 DEF ClientStep, DataHandler
    <2>3. QED BY <1>2, <2>1, <2>2 DEF ClientStep
  <1>3. CASE Establish
    BY <1>1, <1>3, EstablishOutbound DEF Context
  <1>4. CASE Application
    BY <1>1, <1>4, PublishPacketOutbound, MultiTopicOutbound, PacketTooBigOutbound
    DEF Application, Context
  <1>5. CASE BrokerStep \/ BrokerChoice
    <2>1. BrokerOnly
      BY <1>5 DEF BrokerStep, BrokerChoice
    <2>2. CASE AcceptResume
      BY <1>1, <2>1, <2>2, AcceptResumeOutbound DEF Context
    <2>3. CASE AcceptNew
      BY <1>1, <2>1, <2>3, AcceptNewOutbound DEF Context
    <2>4. CASE Refuse
      BY <1>1, <2>1, <2>4, RefuseOutbound DEF Context
    <2>5. CASE Expire
      BY <1>1, <2>1, <2>5, ExpireOutbound DEF Context
    <2>6. CASE \E qos \in QoS : BrokerPublish(qos)
      BY <1>1, <2>1, <2>6, BrokerPublishOutbound DEF Context
    <2>7. CASE DataReader \/ Answer
      <3>1. state = "RUNNING"
        BY <2>7, ReaderRunning
      <3>2. OutboundExchange'
        BY <2>1, <2>7, <3>1, ReceivePublish1Outbound, ReceivePublish2Outbound,
           RejectPublishOutbound, ReceivePubrelOutbound, ReceiveRequestOutbound,
           ReceivePubackPubcompOutbound, ReceivePubrecOutbound, AnswerOutbound
        DEF DataReader
      <3>3. QED BY <1>1, <3>2 DEF Context
    <2>8. QED BY <1>5, <2>2, <2>3, <2>4, <2>5, <2>6, <2>7
             DEF BrokerStep, BrokerChoice, DataReader
  <1>6. CASE NetworkDrops \/ BrokerCloses
    BY <1>1, <1>6, ConnectionLostOutbound DEF Context
  <1>7. CASE UNCHANGED vars
    <2>1. UNCHANGED <<linkUp, toServer, toClient, state, connectQueued, inbound, outbound, pending,
                      inflight, nextId, abandoned, qos2Messages, tooBig, stored, received2,
                      toAnswer, unanswered, delivered, rejected, open, granted>>
      BY <1>7 DEF vars, wireVars, sessionVars, brokerVars
    <2>2. Requests' = Requests /\ Replies' = Replies
      BY <2>1 DEF Requests, Replies
    <2>3. InTransit'
      BY <2>1, <2>2, SameTransit, ContextTransit DEF OneStepPerId
    <2>4. SessionGoesOn' => SessionGoesOn
      BY <2>1 DEF SessionGoesOn, Accepted, Arriving, HaveSessionData
    <2>5. Recorded'
      BY <2>1, <2>4, SameRecords, ContextTransit
    <2>6. QuietUnlessRunning'
      BY <2>1, <2>2 DEF QuietUnlessRunning
    <2>7. OutboundExchange'
      BY <2>3, <2>5, <2>6, OutboundParts, PTL
    <2>8. QED BY <1>1, <2>7 DEF Context
  <1>8. CASE Overtaken
    BY <1>1, <1>8, OvertakenOutbound DEF Context
  <1>9. QED BY <1>2, <1>3, <1>4, <1>5, <1>6, <1>7, <1>8 DEF InTurn

(* Every exchange of the client is, in every state before a packet outlives its
   connection, where its stores, the packets in transit and the broker's answers
   agree that it is: through lost connections, overtaking, resends, refusals and
   flow control. *)
THEOREM OutboundInvariant ==
  ASSUME IdsSuffice PROVE Spec => [](outlived \/ OutboundExchange)
  <1> DEFINE Inv == TypeOK /\ (outlived \/ Context)
  <1>1. Init => Inv
    BY InitType, InitHandshake, InitOutbound DEF Context
  <1>2. Inv /\ [Next]_vars => Inv'
    <2> SUFFICES ASSUME Inv, [Next]_vars PROVE Inv'
      OBVIOUS
    <2>1. TypeOK'
      BY NextType
    <2>2. ([InTurn]_vars /\ outlived' = outlived) \/ outlived'
      BY OutlivedStays
    <2>3. QED BY <2>1, <2>2, NextOutbound
  <1>3. Inv => outlived \/ OutboundExchange
    BY DEF Context
  <1>4. QED BY <1>1, <1>2, <1>3, PTL DEF Spec

-----------------------------------------------------------------------------
(* What Delivery sees of the session. *)

LEMMA OutstandingIsStored ==
  Context => {outbound[id].msg : id \in DOMAIN outbound} = DOMAIN outbound
  BY ContextParts, StoredIsMessage

LEMMA OutstandingIsStoredNext ==
  ASSUME Context' PROVE {outbound[id].msg : id \in DOMAIN outbound}' = DOMAIN outbound'
  <1>1. ({outbound[id].msg : id \in DOMAIN outbound} = DOMAIN outbound)'
    BY OutstandingIsStored, PTL
  <1>2. QED BY <1>1

(* The steps Delivery does not see. *)
LEMMA Unseen ==
  ASSUME Context, Context', DOMAIN outbound' = DOMAIN outbound,
         UNCHANGED <<delivered, rejected, tooBig, abandoned, qos2Messages>>
  PROVE  UNCHANGED Promise!vars
  <1>1. {outbound[id].msg : id \in DOMAIN outbound}'
          = {outbound[id].msg : id \in DOMAIN outbound}
    BY OutstandingIsStored, OutstandingIsStoredNext
  <1>2. QED BY <1>1 DEF Promise!vars

LEMMA HandOnStep ==
  ASSUME Context, Context', NEW id \in DOMAIN outbound, UNCHANGED outbound,
         id \in qos2Messages => delivered[id] = 0,
         delivered' = [delivered EXCEPT ![id] = @ + 1],
         UNCHANGED <<rejected, tooBig, abandoned, qos2Messages>>
  PROVE  Promise!Next
  <1>1. id \in OutMsg /\ id \in {outbound[i].msg : i \in DOMAIN outbound}
    BY StoredIsMessage, OutstandingIsStored, ContextParts
  <1>2. Promise!HandOn(id)
    BY <1>1 DEF Promise!HandOn
  <1>3. QED BY <1>1, <1>2 DEF Promise!Next

LEMMA SettleStep ==
  ASSUME Context, Context', NEW id \in DOMAIN outbound, DOMAIN outbound' = DOMAIN outbound \ {id},
         delivered[id] > 0 \/ id \in rejected,
         UNCHANGED <<delivered, rejected, tooBig, abandoned, qos2Messages>>
  PROVE  Promise!Next
  <1>1. /\ id \in OutMsg /\ id \in {outbound[i].msg : i \in DOMAIN outbound}
        /\ {outbound[i].msg : i \in DOMAIN outbound}'
             = {outbound[i].msg : i \in DOMAIN outbound} \ {id}
    BY StoredIsMessage, OutstandingIsStored, OutstandingIsStoredNext, ContextParts
  <1>2. Promise!Settle(id)
    BY <1>1 DEF Promise!Settle
  <1>3. QED BY <1>1, <1>2 DEF Promise!Next

LEMMA GiveUpStep ==
  ASSUME Context, Context', StartClean,
         UNCHANGED <<delivered, rejected, tooBig, qos2Messages>>
  PROVE  Promise!Next
  <1>1. DOMAIN outbound' = {}
    BY EmptyMapType DEF StartClean
  <1>2. {outbound[i].msg : i \in DOMAIN outbound}' = {}
    BY <1>1, OutstandingIsStoredNext
  <1>3. Promise!GiveUp
    BY <1>2 DEF Promise!GiveUp, StartClean
  <1>4. QED BY <1>3 DEF Promise!Next

LEMMA SubmitStep ==
  ASSUME IdsSuffice, Context, Context', nextId < MaxPublish, nextId' = nextId + 1,
         DOMAIN outbound' = DOMAIN outbound \cup {nextId'},
         qos2Messages' \in {qos2Messages, qos2Messages \cup {nextId'}},
         UNCHANGED <<delivered, rejected, tooBig, abandoned>>
  PROVE  Promise!Next
  <1>1. PICK n \in OutMsg : n = nextId'
    BY NewIdentifier, ContextParts
  <1>2. /\ n \notin DOMAIN outbound /\ n \notin qos2Messages /\ delivered[n] = 0
        /\ n \notin rejected \cup tooBig \cup abandoned
    BY <1>1, NewIdentifier, ContextParts DEF StoreRight
  <1>3. /\ {outbound[i].msg : i \in DOMAIN outbound}'
             = {outbound[i].msg : i \in DOMAIN outbound} \cup {n}
        /\ n \notin {outbound[i].msg : i \in DOMAIN outbound}
    BY <1>1, <1>2, OutstandingIsStored, OutstandingIsStoredNext
  <1>4. Promise!Submit(n)
    BY <1>1, <1>2, <1>3 DEF Promise!Submit, Promise!New
  <1>5. QED BY <1>4 DEF Promise!Next

LEMMA TooBigStep ==
  ASSUME IdsSuffice, Context, Context', nextId < MaxPublish, nextId' = nextId + 1,
         DOMAIN outbound' = DOMAIN outbound, tooBig' = tooBig \cup {nextId'},
         UNCHANGED <<delivered, rejected, abandoned, qos2Messages>>
  PROVE  Promise!Next
  <1>1. PICK n \in OutMsg : n = nextId'
    BY NewIdentifier, ContextParts
  <1>2. /\ n \notin DOMAIN outbound /\ n \notin qos2Messages /\ delivered[n] = 0
        /\ n \notin rejected \cup tooBig \cup abandoned
    BY <1>1, NewIdentifier, ContextParts DEF StoreRight
  <1>3. /\ {outbound[i].msg : i \in DOMAIN outbound}'
             = {outbound[i].msg : i \in DOMAIN outbound}
        /\ n \notin {outbound[i].msg : i \in DOMAIN outbound}
    BY <1>2, OutstandingIsStored, OutstandingIsStoredNext
  <1>4. Promise!TooBig(n)
    BY <1>1, <1>2, <1>3 DEF Promise!TooBig, Promise!New
  <1>5. QED BY <1>4 DEF Promise!Next

LEMMA RefuseStep ==
  ASSUME Context, Context', NEW id \in DOMAIN outbound, UNCHANGED outbound,
         rejected' = rejected \cup {id},
         UNCHANGED <<delivered, tooBig, abandoned, qos2Messages>>
  PROVE  Promise!Next
  <1>1. id \in OutMsg /\ id \in {outbound[i].msg : i \in DOMAIN outbound}
    BY StoredIsMessage, OutstandingIsStored, ContextParts
  <1>2. Promise!Refuse(id)
    BY <1>1 DEF Promise!Refuse
  <1>3. QED BY <1>1, <1>2 DEF Promise!Next

-----------------------------------------------------------------------------
(* Every step of the session and the broker is a step of Delivery, or none. *)

LEMMA EndStep ==
  ASSUME Context, Context', NEW type \in Replying, Receive(type), Consume,
         ~(type = "PUBREC" /\ Head(toClient).ok),
         outbound' = Drop(outbound, Head(toClient).id),
         UNCHANGED <<toAnswer, delivered, rejected, tooBig, abandoned, qos2Messages>>
  PROVE  Promise!Next
  <1> USE ContextParts
  <1>1. PICK h : h = Head(toClient)
    OBVIOUS
  <1>2. /\ h \in Replies /\ h.type = type
        /\ h.id \in DOMAIN outbound
    BY <1>1, HandledReply
  <1>3. delivered[h.id] > 0 \/ h.id \in rejected
    BY <1>1, <1>2 DEF RepliesMatch
  <1>4. DOMAIN outbound' = DOMAIN outbound \ {h.id}
    BY <1>1 DEF Drop, Restrict
  <1>5. QED BY <1>2, <1>3, <1>4, SettleStep

LEMMA HandlerSimulates ==
  ASSUME Context, Context', DataHandler, ClientOnly
  PROVE  Promise!Next \/ UNCHANGED Promise!vars
  <1> USE ContextParts
  <1>1. /\ Consume
        /\ UNCHANGED <<toAnswer, delivered, rejected, tooBig, abandoned, qos2Messages>>
    BY DEF DataHandler, PubackPubcomp, SubackUnsuback, PubrecFailed, Pubrec, Pubrel,
           HandlePublish, ClientOnly, brokerVars
  <1>2. CASE PubackPubcomp
    <2>1. PICK type \in {"PUBACK", "PUBCOMP"} : Receive(type)
      BY <1>2 DEF PubackPubcomp
    <2>2. outbound' = Drop(outbound, Head(toClient).id)
      BY <1>2 DEF PubackPubcomp, AckOutbound
    <2>3. type \in Replying /\ type # "PUBREC"
      BY <2>1 DEF Replying
    <2>4. QED BY <1>1, <2>1, <2>2, <2>3, EndStep
  <1>3. CASE SubackUnsuback
    <2>1. PICK type \in {"SUBACK", "UNSUBACK"} : Receive(type)
      BY <1>3 DEF SubackUnsuback
    <2>2. outbound' = Drop(outbound, Head(toClient).id)
      BY <1>3 DEF SubackUnsuback, AckOutbound
    <2>3. type \in Replying /\ type # "PUBREC"
      BY <2>1 DEF Replying
    <2>4. QED BY <1>1, <2>1, <2>2, <2>3, EndStep
  <1>4. CASE PubrecFailed
    <2>1. /\ Receive("PUBREC") /\ ~Head(toClient).ok
          /\ outbound' = Drop(outbound, Head(toClient).id)
      BY <1>4 DEF PubrecFailed, AckOutbound
    <2>2. "PUBREC" \in Replying
      BY DEF Replying
    <2>3. QED BY <1>1, <2>1, <2>2, EndStep
  <1>5. CASE Pubrec
    <2>1. Head(toClient).id \in DOMAIN outbound
      BY <1>1, <1>5, HandledReply DEF Pubrec, Replying
    <2>2. DOMAIN outbound' = DOMAIN outbound
      BY <1>5, <2>1 DEF Pubrec, Put
    <2>3. QED BY <1>1, <2>2, Unseen
  <1>6. CASE Pubrel \/ HandlePublish
    <2>1. UNCHANGED outbound
      BY <1>6 DEF Pubrel, HandlePublish
    <2>2. QED BY <1>1, <2>1, Unseen
  <1>7. QED BY <1>2, <1>3, <1>4, <1>5, <1>6 DEF DataHandler

LEMMA ClientSimulates ==
  ASSUME IdsSuffice, Context, Context', ClientStep
  PROVE  Promise!Next \/ UNCHANGED Promise!vars
  <1> USE ContextParts
  <1>1. CASE ClientCloses
    BY <1>1, Unseen DEF ClientCloses, ConnackUnknownSession
  <1>2. CASE DataHandler /\ ClientOnly
    BY <1>2, HandlerSimulates
  <1>3. CASE ConnectPacket /\ ClientOnly
    BY <1>3, Unseen DEF ConnectPacket, ClientOnly, brokerVars
  <1>4. CASE ConnackRefused /\ ClientOnly
    BY <1>4, GiveUpStep DEF ConnackRefused, ClientOnly, brokerVars
  <1>5. CASE ConnackRunning /\ ClientOnly
    <2>1. UNCHANGED <<delivered, rejected, tooBig, qos2Messages>>
      BY <1>5 DEF ConnackRunning, ClientOnly, brokerVars
    <2>2. CASE StartClean
      BY <2>1, <2>2, GiveUpStep
    <2>3. CASE ResendPartialTxns(Head(toClient).rmax) /\ UNCHANGED abandoned
      <3>1. state = "TCP_CONNECTED" /\ Receive("CONNACK") /\ Head(toClient).ok
        BY <1>5 DEF ConnackRunning
      <3>2. toServer = <<>>
        <4>1. ~Refused
          BY <3>1 DEF Refused, Connack
        <4>2. QED BY <3>1, <4>1, OnlyConnack DEF TypeOK, Accepted
      <3>3. Head(toClient).rmax \in Nat
        BY <3>1, ReceivedPacket, ClientBoundFields, WireAssumption DEF TypeOK
      <3>4. DOMAIN outbound' = DOMAIN outbound
        BY <2>3, <3>1, <3>2, <3>3, ResendExchange
      <3>5. QED BY <2>1, <2>3, <3>4, Unseen
    <2>4. QED BY <1>5, <2>2, <2>3 DEF ConnackRunning
  <1>6. QED BY <1>1, <1>2, <1>3, <1>4, <1>5 DEF ClientStep, DataHandler

LEMMA ApplicationSimulates ==
  ASSUME IdsSuffice, Context, Context', Application
  PROVE  Promise!Next
  <1> USE ContextParts
  <1>1. ASSUME NEW qos \in PublishQoS, PublishPacket(qos), ClientOnly PROVE Promise!Next
    <2>1. /\ nextId < MaxPublish /\ nextId' = nextId + 1
          /\ qos2Messages' \in {qos2Messages, qos2Messages \cup {nextId'}}
          /\ outbound' = Put(outbound, nextId' % IdSpace, NewEntry("PUBLISH", qos))
          /\ UNCHANGED <<delivered, rejected, tooBig, abandoned>>
      BY <1>1 DEF PublishPacket, ClientOnly, brokerVars
    <2>2. DOMAIN outbound' = DOMAIN outbound \cup {nextId'}
      BY <2>1, NewIdentifier DEF Put
    <2>3. QED BY <2>1, <2>2, SubmitStep
  <1>2. ASSUME NEW kind \in RequestKinds, MultiTopic(kind), ClientOnly PROVE Promise!Next
    <2>1. /\ nextId < MaxPublish /\ nextId' = nextId + 1
          /\ outbound' = Put(outbound, nextId' % IdSpace, NewEntry(kind, 0))
          /\ UNCHANGED <<delivered, rejected, tooBig, abandoned, qos2Messages>>
      BY <1>2 DEF MultiTopic, ClientOnly, brokerVars
    <2>2. DOMAIN outbound' = DOMAIN outbound \cup {nextId'}
      BY <2>1, NewIdentifier DEF Put
    <2>3. QED BY <2>1, <2>2, SubmitStep
  <1>3. ASSUME NEW kind, NEW qos, PacketTooBig(kind, qos), ClientOnly PROVE Promise!Next
    <2>1. /\ nextId < MaxPublish /\ nextId' = nextId + 1
          /\ tooBig' = tooBig \cup {nextId'}
          /\ outbound' = IF nextId' % IdSpace = 0
                         THEN Put(outbound, nextId' % IdSpace, NewEntry(kind, qos))
                         ELSE Drop(outbound, nextId' % IdSpace)
          /\ UNCHANGED <<delivered, rejected, abandoned, qos2Messages>>
      BY <1>3 DEF PacketTooBig, ClientOnly, brokerVars
    <2>2. DOMAIN outbound' = DOMAIN outbound
      BY <2>1, NewIdentifier DEF Drop, Restrict
    <2>3. QED BY <2>1, <2>2, TooBigStep
  <1>4. QED BY <1>1, <1>2, <1>3 DEF Application

LEMMA ReaderSimulates ==
  ASSUME Context, Context', state = "RUNNING", DataReader, BrokerOnly
  PROVE  Promise!Next \/ UNCHANGED Promise!vars
  <1> USE ContextParts
  <1>1. PICK h : h = Head(toServer)
    OBVIOUS
  <1>2. UNCHANGED <<outbound, tooBig, abandoned, qos2Messages>>
    BY DEF BrokerOnly, sessionVars
  <1>3. ASSUME NEW type \in Asking, Incoming(type), Read
        PROVE  h \in Requests /\ h.type = type /\ h.id \in DOMAIN outbound
    BY <1>1, <1>3, ReadRequest DEF OneStepPerId, RequestsMatch
  <1>4. CASE ReceivePublish1
    <2>1. /\ h \in Requests /\ h.type = "PUBLISH" /\ h.id \in DOMAIN outbound /\ h.qos = 1
          /\ delivered' = [delivered EXCEPT ![h.msg] = @ + 1] /\ UNCHANGED rejected
      BY <1>1, <1>3, <1>4, AskingTypes DEF ReceivePublish1
    <2>2. h.msg = h.id /\ h.id \notin qos2Messages
      BY <2>1 DEF RequestsMatch, StoreRight, EntryRight
    <2>3. QED BY <1>2, <2>1, <2>2, HandOnStep
  <1>5. CASE ReceiveRequest
    <2>1. PICK kind \in RequestKinds : Incoming(kind) /\ Read
      BY <1>5 DEF ReceiveRequest
    <2>2. /\ h \in Requests /\ h.type = kind /\ h.id \in DOMAIN outbound
          /\ delivered' = [delivered EXCEPT ![h.msg] = @ + 1] /\ UNCHANGED rejected
      BY <1>1, <1>3, <1>5, <2>1, AskingTypes DEF ReceiveRequest
    <2>3. h.msg = h.id /\ h.id \notin qos2Messages
      BY <2>2, AskingTypes DEF RequestsMatch, StoreRight, EntryRight
    <2>4. QED BY <1>2, <2>2, <2>3, HandOnStep
  <1>6. CASE ReceivePubrel
    <2>1. /\ h \in Requests /\ h.id \in DOMAIN outbound /\ UNCHANGED rejected
          /\ delivered' = IF h.id \in DOMAIN received2
                          THEN [delivered EXCEPT ![received2[h.id]] = @ + 1]
                          ELSE delivered
      BY <1>1, <1>3, <1>6, AskingTypes DEF ReceivePubrel
    <2>2. CASE h.id \in DOMAIN received2
      <3>1. received2[h.id] = h.id /\ delivered[h.id] = 0
        BY <2>2 DEF HandedOnOnce
      <3>2. QED BY <1>2, <2>1, <2>2, <3>1, HandOnStep
    <2>3. CASE h.id \notin DOMAIN received2
      BY <1>2, <2>1, <2>3, Unseen
    <2>4. QED BY <2>2, <2>3
  <1>7. CASE RejectPublish
    <2>1. /\ h \in Requests /\ h.type = "PUBLISH" /\ h.id \in DOMAIN outbound
          /\ rejected' = rejected \cup {h.msg} /\ UNCHANGED delivered
      BY <1>1, <1>3, <1>7, AskingTypes DEF RejectPublish
    <2>2. h.msg = h.id
      BY <2>1 DEF RequestsMatch
    <2>3. QED BY <1>2, <2>1, <2>2, RefuseStep
  <1>8. CASE ReceivePublish2 \/ ReceivePubackPubcomp \/ ReceivePubrec
    BY <1>2, <1>8, Unseen DEF ReceivePublish2, ReceivePubackPubcomp, ReceivePubrec
  <1>9. QED BY <1>4, <1>5, <1>6, <1>7, <1>8 DEF DataReader

LEMMA NextSimulates ==
  IdsSuffice /\ Context /\ Context' /\ [InTurn]_vars => [Promise!Next]_Promise!vars
  <1> SUFFICES ASSUME IdsSuffice, Context, Context', [InTurn]_vars
               PROVE  Promise!Next \/ UNCHANGED Promise!vars
    OBVIOUS
  <1> USE ContextParts
  <1>1. CASE ClientStep
    BY <1>1, ClientSimulates
  <1>2. CASE Establish
    BY <1>2, Unseen DEF Establish, StartConnect, OnTcpConnect, ClientOnly, brokerVars
  <1>3. CASE Application
    BY <1>3, ApplicationSimulates
  <1>4. CASE BrokerStep \/ BrokerChoice
    <2>1. BrokerOnly
      BY <1>4 DEF BrokerStep, BrokerChoice
    <2>2. CASE DataReader
      BY <2>1, <2>2, ReaderRunning, ReaderSimulates
    <2>3. CASE AcceptResume \/ AcceptNew \/ Refuse \/ Expire \/ Answer
               \/ \E qos \in QoS : BrokerPublish(qos)
      <3>1. UNCHANGED <<outbound, delivered, rejected, tooBig, abandoned, qos2Messages>>
        BY <2>1, <2>3 DEF AcceptResume, AcceptNew, Refuse, Expire, Answer, BrokerPublish,
           BrokerOnly, sessionVars, brokerVars
      <3>2. QED BY <3>1, Unseen
    <2>4. QED BY <1>4, <2>2, <2>3 DEF BrokerStep, BrokerChoice, DataReader
  <1>5. CASE NetworkDrops \/ BrokerCloses
    BY <1>5, Unseen DEF NetworkDrops, BrokerCloses, ConnectionLost
  <1>6. CASE UNCHANGED vars
    BY <1>6, Unseen DEF vars, sessionVars, brokerVars
  <1>7. CASE Overtaken
    BY <1>7, Unseen DEF Overtaken, sessionVars, brokerVars
  <1>8. QED BY <1>1, <1>2, <1>3, <1>4, <1>5, <1>6, <1>7 DEF InTurn

LEMMA InitSimulates == Init => Promise!Init
  <1> SUFFICES ASSUME Init PROVE Promise!Init
    OBVIOUS
  <1>1. /\ DOMAIN outbound = {} /\ rejected = {} /\ tooBig = {} /\ abandoned = {}
        /\ qos2Messages = {} /\ delivered = [m \in OutMsg |-> 0]
    BY EmptyMapType DEF Init, SessionInit, BrokerInit
  <1>2. QED BY <1>1 DEF Promise!Init

(* The refinement: whatever the network and the broker do, the session's steps
   are those of Delivery, as long as every packet is handled on its connection.
   A handler releases a packet only when its message was handed on or refused,
   the broker never meets a message the client has released, and messages are
   given up only all together. *)
THEOREM Refinement ==
  ASSUME IdsSuffice PROVE Spec /\ []~outlived => DeliversAsPromised
  <1>1. Init => Context
    BY InitType, InitHandshake, InitOutbound DEF Context
  <1>2. TypeOK /\ ~outlived' /\ [Next]_vars => [InTurn]_vars
    BY OutlivedStays
  <1>3. Context /\ [InTurn]_vars => Context'
    BY NextOutbound
  <1>4. Context /\ Context' /\ [InTurn]_vars => [Promise!Next]_Promise!vars
    BY NextSimulates
  <1>5. Spec => []TypeOK
    BY TypeCorrect
  <1>6. QED BY <1>1, <1>2, <1>3, <1>4, <1>5, InitSimulates, PTL
            DEF Spec, DeliversAsPromised, Promise!Spec

-----------------------------------------------------------------------------
(* What follows from the refinement. *)

(* Delivery never loses track of a message it has accounted for. *)
Accounted(m) ==
  \/ delivered[m] > 0
  \/ m \in rejected \cup abandoned \cup tooBig
  \/ \E id \in DOMAIN outbound : outbound[id].msg = m

LEMMA StaysAccounted ==
  ASSUME TypeOK, [Promise!Next]_Promise!vars, NEW m \in OutMsg, Accounted(m)
  PROVE  Accounted(m)'
  <1> DEFINE out  == {outbound[id].msg : id \in DOMAIN outbound}
             over == rejected \cup tooBig \cup abandoned
  <1>1. delivered[m] > 0 \/ m \in over \/ m \in out
    BY DEF Accounted
  <1>2. delivered \in [OutMsg -> Nat]
    BY DEF TypeOK, BrokerTypeOK
  <1>3. delivered'[m] > 0 \/ m \in over' \/ m \in out'
    <2>1. CASE UNCHANGED Promise!vars
      BY <1>1, <2>1 DEF Promise!vars
    <2>2. CASE Promise!GiveUp
      BY <1>1, <2>2 DEF Promise!GiveUp
    <2>3. ASSUME NEW n \in OutMsg, Promise!HandOn(n)
          PROVE  delivered'[m] > 0 \/ m \in over' \/ m \in out'
      <3>1. delivered' = [delivered EXCEPT ![n] = @ + 1] /\ out' = out /\ over' = over
        BY <2>3 DEF Promise!HandOn
      <3>2. delivered'[m] >= delivered[m] /\ delivered[m] \in Nat /\ delivered'[m] \in Nat
        BY <1>2, <3>1, CountOne, CountType
      <3>3. delivered[m] > 0 => delivered'[m] > 0
        BY <3>2
      <3>4. QED BY <1>1, <3>1, <3>3
    <2>4. ASSUME NEW n \in OutMsg, Promise!Submit(n) \/ Promise!TooBig(n) \/ Promise!Refuse(n)
          PROVE  delivered'[m] > 0 \/ m \in over' \/ m \in out'
      BY <1>1, <2>4 DEF Promise!Submit, Promise!TooBig, Promise!Refuse
    <2>5. ASSUME NEW n \in OutMsg, Promise!Settle(n)
          PROVE  delivered'[m] > 0 \/ m \in over' \/ m \in out'
      BY <1>1, <2>5 DEF Promise!Settle
    <2>6. QED BY <2>1, <2>2, <2>3, <2>4, <2>5 DEF Promise!Next
  <1>4. QED BY <1>3 DEF Accounted

(* A call of the application takes one identifier, and its message is stored
   or reported as too big. *)
LEMMA OneMessageAtATime ==
  ASSUME IdsSuffice, Context, Context', [InTurn]_vars, NEW m
  PROVE  \/ nextId' = nextId
         \/ nextId' = nextId + 1 /\ (m = nextId' => Accounted(m)')
  <1> USE ContextParts
  <1>1. CASE Application
    <2>1. ASSUME NEW qos \in PublishQoS, PublishPacket(qos), ClientOnly
          PROVE  nextId' = nextId + 1 /\ (m = nextId' => Accounted(m)')
      <3>1. /\ nextId < MaxPublish /\ nextId' = nextId + 1
            /\ outbound' = Put(outbound, nextId' % IdSpace, NewEntry("PUBLISH", qos))
        BY <2>1 DEF PublishPacket
      <3>2. nextId' \in DOMAIN outbound' /\ outbound'[nextId'].msg = nextId'
        BY <3>1, NewIdentifier DEF Put, NewEntry
      <3>3. QED BY <3>1, <3>2 DEF Accounted
    <2>2. ASSUME NEW kind \in RequestKinds, MultiTopic(kind), ClientOnly
          PROVE  nextId' = nextId + 1 /\ (m = nextId' => Accounted(m)')
      <3>1. /\ nextId < MaxPublish /\ nextId' = nextId + 1
            /\ outbound' = Put(outbound, nextId' % IdSpace, NewEntry(kind, 0))
        BY <2>2 DEF MultiTopic
      <3>2. nextId' \in DOMAIN outbound' /\ outbound'[nextId'].msg = nextId'
        BY <3>1, NewIdentifier DEF Put, NewEntry
      <3>3. QED BY <3>1, <3>2 DEF Accounted
    <2>3. ASSUME NEW kind, NEW qos, PacketTooBig(kind, qos)
          PROVE  nextId' = nextId + 1 /\ (m = nextId' => Accounted(m)')
      BY <2>3 DEF PacketTooBig, Accounted
    <2>4. QED BY <1>1, <2>1, <2>2, <2>3 DEF Application
  <1>2. CASE ~Application
    BY <1>2 DEF InTurn, ClientStep, Establish, BrokerStep, BrokerChoice, NetworkDrops, BrokerCloses,
       Overtaken, ClientCloses, ConnectPacket, ConnackRunning, ConnackRefused, PubackPubcomp, SubackUnsuback,
       PubrecFailed, Pubrec, Pubrel, HandlePublish, ConnackUnknownSession, StartConnect,
       OnTcpConnect, ConnectionLost, BrokerOnly, sessionVars, vars
  <1>3. QED BY <1>1, <1>2

(* No message disappears, however connections are lost, as long as every packet
   is handled on its connection. *)
THEOREM NoMessageEverLost ==
  ASSUME IdsSuffice PROVE Spec => [](outlived \/ NoMessageLost)
  <1> DEFINE Inv == Context /\ NoMessageLost
  <1>1. Init => Inv
    <2> SUFFICES ASSUME Init PROVE Inv
      OBVIOUS
    <2>1. Context
      BY InitType, InitHandshake, InitOutbound DEF Context
    <2>2. nextId = 0
      BY DEF Init, SessionInit
    <2>3. QED BY <2>1, <2>2 DEF NoMessageLost
  <1>2. Inv /\ [InTurn]_vars => Inv'
    <2> SUFFICES ASSUME Inv, [InTurn]_vars PROVE Inv'
      OBVIOUS
    <2>1. Context'
      BY NextOutbound
    <2>2. nextId \in Nat /\ nextId' \in Nat /\ 1 .. nextId \subseteq OutMsg /\ 1 .. nextId' \subseteq OutMsg
      <3>1. nextId \in 0 .. MaxPublish /\ MaxPublish \in Nat
        BY WireAssumption, ContextParts DEF TypeOK, SessionTypeOK
      <3>2. (TypeOK)'
        BY <2>1, ContextParts, PTL DEF Context
      <3>3. nextId' \in 0 .. MaxPublish
        BY <3>2 DEF TypeOK, SessionTypeOK
      <3>4. QED BY <3>1, <3>3 DEF OutMsg
    <2>3. [Promise!Next]_Promise!vars
      BY <2>1, NextSimulates
    <2>4. ASSUME NEW m \in 1 .. nextId' PROVE Accounted(m)'
      <3>1. CASE m \in 1 .. nextId
        <4>1. m \in OutMsg /\ Accounted(m)
          BY <2>2, <3>1 DEF NoMessageLost, Accounted
        <4>2. QED BY <2>3, <4>1, StaysAccounted, ContextParts
      <3>2. CASE m \notin 1 .. nextId
        <4>1. nextId' # nextId
          BY <2>4, <3>2
        <4>2. nextId' = nextId + 1 /\ (m = nextId' => Accounted(m)')
          BY <2>1, <4>1, OneMessageAtATime
        <4>3. m = nextId'
          BY <2>2, <2>4, <3>2, <4>2
        <4>4. QED BY <4>2, <4>3
      <3>3. QED BY <3>1, <3>2
    <2>5. NoMessageLost'
      BY <2>4 DEF NoMessageLost, Accounted
    <2>6. QED BY <2>1, <2>5
  <1>3. TypeOK /\ (outlived \/ Inv) /\ [Next]_vars => (TypeOK /\ (outlived \/ Inv))'
    <2> HIDE DEF Inv
    <2> SUFFICES ASSUME TypeOK, outlived \/ Inv, [Next]_vars
                 PROVE  TypeOK' /\ (outlived \/ Inv)'
      OBVIOUS
    <2>1. TypeOK'
      BY NextType
    <2>2. ([InTurn]_vars /\ outlived' = outlived) \/ outlived'
      BY OutlivedStays
    <2>3. QED BY <1>2, <2>1, <2>2
  <1>4. QED BY <1>1, <1>3, InitType, PTL DEF Spec

(* One more copy of a QoS 2 message is handed on only when none was. *)
LEMMA StaysOnce ==
  ASSUME TypeOK, ExactlyOnceOutbound, [Promise!Next]_Promise!vars
  PROVE  ExactlyOnceOutbound'
  <1>1. /\ delivered \in [OutMsg -> Nat] /\ qos2Messages \subseteq OutMsg
        /\ \A m \in qos2Messages : delivered[m] <= 1
    BY DEF TypeOK, BrokerTypeOK, SessionTypeOK, ExactlyOnceOutbound
  <1>2. CASE UNCHANGED <<delivered, qos2Messages>>
    BY <1>1, <1>2 DEF ExactlyOnceOutbound
  <1>3. ASSUME NEW n \in OutMsg, Promise!Submit(n) PROVE ExactlyOnceOutbound'
    <2>1. /\ delivered' = delivered /\ delivered[n] = 0
          /\ qos2Messages' \subseteq qos2Messages \cup {n}
      BY <1>3 DEF Promise!Submit, Promise!New
    <2>2. QED BY <1>1, <2>1 DEF ExactlyOnceOutbound
  <1>4. ASSUME NEW n \in OutMsg, Promise!HandOn(n) PROVE ExactlyOnceOutbound'
    <2>1. /\ delivered' = [delivered EXCEPT ![n] = @ + 1] /\ qos2Messages' = qos2Messages
          /\ n \in qos2Messages => delivered[n] = 0
      BY <1>4 DEF Promise!HandOn
    <2>2. /\ delivered'[n] = delivered[n] + 1
          /\ \A m \in OutMsg : m # n => delivered'[m] = delivered[m]
      BY <1>1, <2>1, CountOne
    <2>3. \A m \in qos2Messages' : delivered'[m] <= 1
      BY <1>1, <2>1, <2>2
    <2>4. QED BY <2>3 DEF ExactlyOnceOutbound
  <1>5. CASE UNCHANGED Promise!vars
    BY <1>2, <1>5 DEF Promise!vars
  <1>6. ASSUME NEW n \in OutMsg, Promise!TooBig(n) \/ Promise!Refuse(n) \/ Promise!Settle(n)
        PROVE  ExactlyOnceOutbound'
    BY <1>2, <1>6 DEF Promise!TooBig, Promise!Refuse, Promise!Settle
  <1>7. CASE Promise!GiveUp
    BY <1>2, <1>7 DEF Promise!GiveUp
  <1>8. QED BY <1>3, <1>4, <1>5, <1>6, <1>7 DEF Promise!Next

(* Whatever is dropped or resent, no QoS 2 message is handed on twice, as long as
   every packet is handled on its connection. *)
THEOREM ExactlyOnce ==
  ASSUME IdsSuffice PROVE Spec => [](outlived \/ ExactlyOnceOutbound)
  <1> DEFINE Inv == Context /\ ExactlyOnceOutbound
  <1>1. Init => Inv
    <2> SUFFICES ASSUME Init PROVE Inv
      OBVIOUS
    <2>1. Context
      BY InitType, InitHandshake, InitOutbound DEF Context
    <2>2. qos2Messages = {}
      BY DEF Init, SessionInit
    <2>3. QED BY <2>1, <2>2 DEF ExactlyOnceOutbound
  <1>2. Inv /\ [InTurn]_vars => Inv'
    <2>1. Context /\ [InTurn]_vars => Context'
      BY NextOutbound
    <2>2. ASSUME Context, Context', ExactlyOnceOutbound, [InTurn]_vars PROVE ExactlyOnceOutbound'
      BY <2>2, NextSimulates, StaysOnce, ContextParts
    <2>3. QED BY <2>1, <2>2
  <1>3. TypeOK /\ (outlived \/ Inv) /\ [Next]_vars => (TypeOK /\ (outlived \/ Inv))'
    <2> HIDE DEF Inv
    <2> SUFFICES ASSUME TypeOK, outlived \/ Inv, [Next]_vars
                 PROVE  TypeOK' /\ (outlived \/ Inv)'
      OBVIOUS
    <2>1. TypeOK'
      BY NextType
    <2>2. ([InTurn]_vars /\ outlived' = outlived) \/ outlived'
      BY OutlivedStays
    <2>3. QED BY <1>2, <2>1, <2>2
  <1>4. QED BY <1>1, <1>3, InitType, PTL DEF Spec

LEMMA PendingKept == OutboundExchange => PendingIsStored
  <1> SUFFICES ASSUME OutboundExchange PROVE PendingIsStored
    OBVIOUS
  <1>1. OneStepPerId /\ PendingMatch /\ UnansweredMatch
    BY DEF OutboundExchange
  <1>2. \A id \in unanswered : id \notin Range(pending)
    BY <1>1 DEF OneStepPerId, UnansweredMatch, Replies
  <1>3. \A i \in DOMAIN pending : pending[i] \in Range(pending)
    BY DEF Range
  <1>4. QED BY <1>1, <1>2, <1>3 DEF PendingIsStored, OneStepPerId, PendingMatch

(* _runFlow always finds the packet it pops: what is held back is stored,
   unsent and queued once, through every acknowledgement and resend, as long as
   every packet is handled on its connection. *)
THEOREM PendingAlwaysStored ==
  ASSUME IdsSuffice PROVE Spec => [](outlived \/ PendingIsStored)
  BY OutboundInvariant, PendingKept, PTL

-----------------------------------------------------------------------------
(* Nothing is given up while the broker keeps its session. *)

LEMMA NoConnack ==
  toClient = <<>> \/ state # "TCP_CONNECTED" => ~Accepted /\ ~Refused
  <1>1. ASSUME toClient = <<>> PROVE Arriving("CONNACK") # {1} /\ toClient # <<Connack(FALSE, FALSE, granted)>>
    BY <1>1 DEF Arriving
  <1>2. QED BY <1>1 DEF Accepted, Refused

LEMMA RefusedFirst == Refused => ~toClient[1].ok
  BY DEF Refused, Connack

LEMMA NotRefusedNext ==
  ASSUME toClient'[1].ok PROVE ~Refused'
  <1>1. (Refused => ~toClient[1].ok)'
    BY RefusedFirst, PTL
  <1>2. QED BY <1>1

LEMMA NoConnackNext ==
  ASSUME toClient' = <<>> \/ state' # "TCP_CONNECTED" PROVE ~Accepted' /\ ~Refused'
  <1>1. (toClient = <<>> \/ state # "TCP_CONNECTED")'
    OBVIOUS
  <1>2. (~Accepted /\ ~Refused)'
    BY <1>1, NoConnack, PTL
  <1>3. QED BY <1>2

(* The client is in use, or becomes idle: what is stored stays. *)
LEMMA KeptQuietly ==
  ASSUME SessionKept, toClient' = <<>> \/ state' # "TCP_CONNECTED",
         UNCHANGED <<stored, abandoned>>,
         state = "RUNNING" \/ (UNCHANGED <<inbound, outbound>> /\ state' # "RUNNING")
  PROVE  SessionKept'
  <1> SUFFICES ASSUME ~MayExpire, ~MayRefuse
               PROVE  /\ abandoned' = {}
                      /\ HaveSessionData' \/ state' = "RUNNING" => stored'
    BY NoConnackNext DEF SessionKept
  <1>1. HaveSessionData' = HaveSessionData \/ state = "RUNNING"
    BY DEF HaveSessionData
  <1>2. QED BY <1>1 DEF SessionKept

LEMMA AcceptKept ==
  ASSUME TypeOK, InPhase, SessionKept, AcceptResume \/ AcceptNew, BrokerOnly
  PROVE  SessionKept'
  <1>1. /\ state = "TCP_CONNECTED" /\ toClient = <<>>
        /\ Head(toServer).clean = ~HaveSessionData
    BY AskedNow DEF AcceptResume, AcceptNew
  <1>2. /\ UNCHANGED <<state, abandoned, inbound, outbound>>
        /\ HaveSessionData' = HaveSessionData
    BY DEF BrokerOnly, sessionVars, HaveSessionData
  <1>3. stored' = TRUE
    BY DEF AcceptResume, AcceptNew, TypeOK, BrokerTypeOK
  <1>4. /\ toClient'[1].type = "CONNACK" /\ toClient'[1].ok
        /\ toClient'[1].present \/ Head(toServer).clean \/ ~stored
    <2>1. CASE AcceptResume
      <3>1. PICK rmax \in ReceiveMaxima, order \in Ascending(DOMAIN sent) :
              toClient' = (toClient \o <<Connack(TRUE, TRUE, rmax)>>) \o Retransmission(order)
        BY <2>1 DEF AcceptResume
      <3>2. Retransmission(order) \in Seq(ClientData)
        BY WireAssumption, RetransmissionData DEF TypeOK
      <3> DEFINE c == Connack(TRUE, TRUE, rmax)
                 r == Retransmission(order)
      <3> HIDE DEF c, r
      <3>3. toClient' = (<<>> \o <<c>>) \o r /\ r \in Seq(ClientData)
        BY <1>1, <3>1, <3>2 DEF c, r
      <3>4. toClient'[1] = c
        BY <3>3
      <3>5. QED BY <3>4 DEF c, Connack
    <2>2. CASE AcceptNew
      <3>1. PICK rmax \in ReceiveMaxima, present \in BOOLEAN :
              toClient' = toClient \o <<Connack(TRUE, present, rmax)>>
        BY <2>2 DEF AcceptNew
      <3>2. toClient' = <<Connack(TRUE, present, rmax)>>
        BY <1>1, <3>1
      <3>3. Head(toServer).clean \/ ~stored
        BY <2>2 DEF AcceptNew
      <3>4. QED BY <3>2, <3>3 DEF Connack
    <2>3. QED BY <2>1, <2>2
  <1>5. ~Refused'
    BY <1>4, NotRefusedNext
  <1>6. QED BY <1>1, <1>2, <1>3, <1>4, <1>5 DEF SessionKept

LEMMA BrokerPublishKept ==
  ASSUME TypeOK, InPhase, SessionKept, NEW qos \in QoS, BrokerPublish(qos), BrokerOnly
  PROVE  SessionKept'
  <1>1. UNCHANGED <<stored, state, abandoned, inbound, outbound>>
    BY DEF BrokerPublish, BrokerOnly, sessionVars
  <1>2. CASE state # "TCP_CONNECTED"
    <2>1. state' = "RUNNING" \/ (state' # "RUNNING" /\ state' # "TCP_CONNECTED")
      BY <1>1, <1>2
    <2>2. state = "RUNNING" \/ state' # "RUNNING"
      BY <1>1
    <2>3. QED BY <1>1, <2>1, <2>2, KeptQuietly
  <1>3. CASE state = "TCP_CONNECTED"
    <2>1. Accepted
      BY <1>3 DEF InPhase, Running, NotAsked, Asked, Refused, BrokerPublish
    <2>2. PICK p \in ClientBound : toClient' = Append(toClient, p)
      <3>1. PICK id \in InIds : toClient' = Append(toClient, Publish(id, qos, nextIn'))
        BY DEF BrokerPublish
      <3>2. nextIn' \in InMsg
        BY WireAssumption DEF BrokerPublish, TypeOK, BrokerTypeOK, InMsg
      <3>3. Publish(id, qos, nextIn') \in ClientBound
        BY <3>2, ClientDataPackets DEF ClientData
      <3>4. QED BY <3>1, <3>3
    <2>3. toClient \in Seq(ClientBound) /\ 1 \in DOMAIN toClient
      BY <2>1 DEF TypeOK, WireTypeOK, Accepted, Arriving
    <2>4. toClient'[1] = toClient[1]
      BY <2>2, <2>3
    <2>5. ~Refused'
      BY <2>1, <2>4, NotRefusedNext DEF Accepted
    <2>6. HaveSessionData' = HaveSessionData
      BY <1>1 DEF HaveSessionData
    <2>7. QED BY <1>1, <1>3, <2>1, <2>4, <2>5, <2>6 DEF SessionKept
  <1>4. QED BY <1>2, <1>3

LEMMA ConnackKept ==
  ASSUME TypeOK, InPhase, SessionKept, ConnackRunning \/ ConnackRefused, ClientOnly
  PROVE  SessionKept'
  <1> SUFFICES ASSUME ~MayExpire, ~MayRefuse PROVE SessionKept'
    BY DEF SessionKept
  <1>1. state # "RUNNING" /\ (Accepted \/ Refused)
    <2>1. Receive("CONNACK") /\ WireTypeOK
      BY DEF ConnackRunning, ConnackRefused, TypeOK
    <2>2. state # "RUNNING"
      BY <2>1, RunningIsRunning, RunningPast
    <2>3. QED BY <2>1, <2>2, OnlyConnack
  <1>2. Accepted /\ stored
    BY <1>1 DEF SessionKept
  <1>3. Head(toClient) = toClient[1] /\ Head(toClient).ok
    BY <1>2 DEF Accepted
  <1>4. ConnackRunning /\ state' = "RUNNING" /\ UNCHANGED stored
    BY <1>3 DEF ConnackRunning, ConnackRefused, ClientOnly, brokerVars
  <1>5. abandoned' = {}
    <2>1. CASE Head(toClient).present
      BY <1>4, <2>1 DEF ConnackRunning, SessionKept
    <2>2. CASE ~Head(toClient).present
      <3>1. DOMAIN outbound = {} /\ abandoned = {}
        BY <1>2, <1>3, <2>2 DEF SessionKept, HaveSessionData
      <3>2. abandoned' = abandoned \cup {outbound[id].msg : id \in DOMAIN outbound}
        BY <1>4, <2>2 DEF ConnackRunning, StartClean
      <3>3. QED BY <3>1, <3>2
    <2>3. QED BY <2>1, <2>2
  <1>6. ~Accepted' /\ ~Refused'
    BY <1>4, NoConnackNext
  <1>7. QED BY <1>2, <1>4, <1>5, <1>6 DEF SessionKept

LEMMA NextKept == TypeOK /\ InPhase /\ SessionKept /\ [InTurn]_vars => SessionKept'
  <1> SUFFICES ASSUME TypeOK, InPhase, SessionKept, [InTurn]_vars PROVE SessionKept'
    OBVIOUS
  <1>1. CASE DataHandler /\ ClientOnly
    <2>1. state = "RUNNING" /\ UNCHANGED <<state, stored, abandoned>>
      BY <1>1, HandlerRunning DEF DataHandler, PubackPubcomp, SubackUnsuback, PubrecFailed, Pubrec,
         Pubrel, HandlePublish, ClientOnly, brokerVars
    <2>2. QED BY <2>1, KeptQuietly
  <1>2. CASE Application
    <2>1. state = "RUNNING" /\ UNCHANGED <<state, stored, abandoned>>
      BY <1>2 DEF Application, PublishPacket, MultiTopic, PacketTooBig, ClientOnly, brokerVars
    <2>2. QED BY <2>1, KeptQuietly
  <1>3. CASE (DataReader \/ Answer) /\ BrokerOnly
    <2>1. state = "RUNNING" /\ UNCHANGED <<state, stored, abandoned>>
      BY <1>3, ReaderRunning DEF DataReader, ReceivePublish1, ReceivePublish2, ReceivePubrel,
         ReceiveRequest, RejectPublish, ReceivePubackPubcomp, ReceivePubrec, Answer, BrokerOnly,
         sessionVars
    <2>2. QED BY <2>1, KeptQuietly
  <1>4. CASE ConnectPacket /\ ClientOnly
    <2>1. toClient = <<>> /\ state # "RUNNING"
      BY <1>4 DEF ConnectPacket, InPhase, Running, NotAsked, Asked, Accepted, Refused
    <2>2. UNCHANGED <<toClient, state, stored, abandoned, inbound, outbound>>
      BY <1>4 DEF ConnectPacket, ClientOnly, brokerVars
    <2>3. QED BY <2>1, <2>2, KeptQuietly
  <1>5. CASE Establish
    <2>1. toClient = <<>>
      BY <1>5 DEF Establish, StartConnect, OnTcpConnect, InPhase, Running, NotAsked, Asked,
         Accepted, Refused
    <2>2. UNCHANGED <<toClient, stored, abandoned, inbound, outbound>> /\ state' # "RUNNING"
      BY <1>5 DEF Establish, StartConnect, OnTcpConnect, ClientOnly, brokerVars, wireVars
    <2>3. QED BY <2>1, <2>2, KeptQuietly
  <1>6. CASE NetworkDrops \/ BrokerCloses \/ ClientCloses
    <2>1. /\ toClient' = <<>> /\ state' # "RUNNING"
          /\ UNCHANGED <<stored, abandoned, inbound, outbound>>
      BY <1>6 DEF NetworkDrops, BrokerCloses, ClientCloses, ConnectionLost, OnDisconnect,
         ConnackUnknownSession
    <2>2. QED BY <2>1, KeptQuietly
  <1>7. CASE Refuse \/ Expire
    BY <1>7 DEF Refuse, Expire, SessionKept
  <1>8. CASE UNCHANGED vars
    <2>1. UNCHANGED <<toClient, granted, toServer, state, connectQueued, inbound, outbound, stored,
                      abandoned, open>>
      BY <1>8 DEF vars, wireVars, sessionVars, brokerVars
    <2>2. HaveSessionData' = HaveSessionData /\ Arriving("CONNACK")' = Arriving("CONNACK")
      BY <2>1 DEF HaveSessionData, Arriving
    <2>3. Accepted' <=> Accepted
      BY <2>1, <2>2 DEF Accepted
    <2>4. Refused' <=> Refused
      BY <2>1 DEF Refused
    <2>5. QED BY <2>1, <2>2, <2>3, <2>4 DEF SessionKept
  <1>9. CASE (ConnackRunning \/ ConnackRefused) /\ ClientOnly
    BY <1>9, ConnackKept
  <1>10. CASE (AcceptResume \/ AcceptNew) /\ BrokerOnly
    BY <1>10, AcceptKept
  <1>11. CASE \E qos \in QoS : BrokerPublish(qos) /\ BrokerOnly
    BY <1>11, BrokerPublishKept
  <1>12. CASE Overtaken
    <2>1. state = "RUNNING" /\ UNCHANGED <<state, stored, abandoned>>
      BY <1>12 DEF Overtaken, sessionVars, brokerVars
    <2>2. QED BY <2>1, KeptQuietly
  <1>13. QED BY <1>1, <1>2, <1>3, <1>4, <1>5, <1>6, <1>7, <1>8, <1>9, <1>10, <1>11, <1>12
               DEF InTurn, ClientStep, BrokerStep, BrokerChoice, DataHandler, DataReader

(* What was received on an ended connection came from a broker that has a
   session, and keeps it. *)
RestsKept == ~MayExpire /\ ~MayRefuse /\ rest # <<>> => stored

LEMMA RestStepKept ==
  ASSUME TypeOK, SessionKept, RestsKept, BeforeConnect, RestStep
  PROVE  SessionKept' /\ RestsKept'
  <1>1. /\ rest # <<>>
        /\ UNCHANGED <<toClient, state, stored>>
    BY WireAssumption, SessionAssumption, RestStepType DEF brokerVars
  <1>2. UNCHANGED abandoned
    BY DEF RestStep, RestEnds, Rest!PubackPubcomp, Rest!PubrecFailed, Rest!SubackUnsuback,
           Rest!Pubrec, Rest!Pubrel, Rest!HandlePublish
  <1>3. toClient' = <<>> /\ state' # "RUNNING"
    BY <1>1, BeforeConnectIdle
  <1>4. ~Accepted' /\ ~Refused'
    BY <1>3, NoConnackNext
  <1>5. QED BY <1>1, <1>2, <1>3, <1>4 DEF SessionKept, RestsKept

LEMMA SpoiledKept ==
  ASSUME TypeOK, SessionKept, Spoiled, [InTurn]_vars PROVE SessionKept'
  <1>1. /\ toClient = <<>> /\ toAnswer = {} /\ ~open /\ state = "TCP_CONNECTED"
        /\ ~Incoming("CONNECT")
    BY BeforeConnectIdle DEF BeforeConnect, Spoiled
  <1>2. CASE ClientStep
    <2>1. \A type : ~Receive(type)
      BY <1>1 DEF Receive
    <2>2. ConnectPacket /\ ClientOnly
      BY <1>2, <2>1 DEF ClientStep, ClientCloses, ConnackUnknownSession, ConnackRunning,
         ConnackRefused, PubackPubcomp, SubackUnsuback, PubrecFailed, Pubrec, Pubrel,
         HandlePublish
    <2>3. UNCHANGED <<toClient, state, stored, abandoned, inbound, outbound>>
      BY <2>2 DEF ConnectPacket, ClientOnly, brokerVars
    <2>4. QED BY <1>1, <2>3, KeptQuietly
  <1>3. ~Establish /\ ~Application /\ ~Overtaken
    BY <1>1 DEF Establish, StartConnect, OnTcpConnect, Application, PublishPacket, MultiTopic,
                PacketTooBig, Overtaken
  <1>4. CASE BrokerStep \/ BrokerChoice
    <2>1. \A type : ~Incoming(type)
      BY <1>1 DEF Incoming
    <2>2. Expire
      BY <1>1, <1>4, <2>1 DEF BrokerStep, BrokerChoice, AcceptResume, AcceptNew, Refuse,
         ReceivePublish1, ReceivePublish2, RejectPublish, ReceivePubrel, ReceiveRequest,
         Answer, ReceivePubackPubcomp, ReceivePubrec, BrokerPublish
    <2>3. QED BY <2>2 DEF Expire, SessionKept
  <1>5. CASE NetworkDrops \/ BrokerCloses
    <2>1. /\ toClient' = <<>> /\ state' # "RUNNING"
          /\ UNCHANGED <<stored, abandoned, inbound, outbound>>
      BY <1>5 DEF NetworkDrops, BrokerCloses, ConnectionLost, OnDisconnect
    <2>2. QED BY <2>1, KeptQuietly
  <1>6. CASE UNCHANGED vars
    <2>1. UNCHANGED <<toClient, state, stored, abandoned, inbound, outbound>>
      BY <1>6 DEF vars, wireVars, sessionVars, brokerVars
    <2>2. QED BY <1>1, <2>1, KeptQuietly
  <1>7. QED BY <1>2, <1>3, <1>4, <1>5, <1>6 DEF InTurn

LEMMA InTurnRestsKept ==
  ASSUME TypeOK, SessionKept, RestsKept, [InTurn]_vars PROVE RestsKept'
  <1> SUFFICES ASSUME ~MayExpire, ~MayRefuse, rest' # <<>> PROVE stored'
    BY DEF RestsKept
  <1>1. stored => stored'
    BY DEF InTurn, ClientStep, ClientCloses, ClientOnly, Establish, Application, BrokerStep,
       BrokerChoice, NetworkDrops, BrokerCloses, ConnectionLost, Overtaken, Expire, Refuse,
       RejectPublish, BrokerPublish, AcceptResume, AcceptNew, ReceivePublish1, ReceivePublish2,
       ReceivePubrel, ReceiveRequest, Answer, ReceivePubackPubcomp, ReceivePubrec, brokerVars,
       vars
  <1>2. CASE UNCHANGED rest
    BY <1>1, <1>2 DEF RestsKept
  <1>3. CASE (NetworkDrops \/ BrokerCloses) /\ ~UNCHANGED rest
    <2>1. PICK n \in 0 .. (IF state = "RUNNING" THEN MaxRest ELSE 0) : Saved(n)
      BY <1>3 DEF NetworkDrops, BrokerCloses, ConnectionLost
    <2>2. state = "RUNNING"
      <3>1. CASE n = 0
        <4>1. SubSeq(toClient, 1, n) = <<>> /\ rest \in Seq(ClientBound)
          BY <3>1 DEF TypeOK, WireTypeOK
        <4>2. rest \o <<>> = rest
          BY <4>1
        <4>3. QED BY <1>3, <2>1, <4>1, <4>2 DEF Saved
      <3>2. CASE n # 0
        BY <2>1, <3>2
      <3>3. QED BY <3>1, <3>2
    <2>3. QED BY <1>1, <2>2 DEF SessionKept
  <1>4. QED BY <1>2, <1>3, InTurnRests

(* However often the connection is dropped, and whatever is handled after its
   end, nothing stored is given up as long as the broker keeps its session and
   accepts the client: CLEAN_START is never requested, nor _startClean called,
   over a packet that waits to be sent. *)
THEOREM NothingEverAbandoned == Spec => []NothingAbandoned
  <1> DEFINE Inv == TypeOK /\ Handshake /\ RestsWait /\ SessionKept /\ RestsKept
  <1>1. Init => Inv
    <2> SUFFICES ASSUME Init PROVE Inv
      OBVIOUS
    <2>1. /\ state = "DISCONNECTED" /\ inbound = {} /\ DOMAIN outbound = {} /\ abandoned = {}
          /\ toClient = <<>> /\ rest = <<>>
      BY EmptyMapType DEF Init, SessionInit, WireInit
    <2>2. QED BY <2>1, InitType, InitHandshake, NoConnack
              DEF SessionKept, HaveSessionData, Handshake, RestsWait, RestsKept
  <1>2. Inv /\ [Next]_vars => Inv'
    <2> SUFFICES ASSUME Inv, [Next]_vars PROVE Inv'
      OBVIOUS
    <2>1. TypeOK' /\ Handshake' /\ RestsWait'
      BY NextType, NextHandshake
    <2>2. CASE RestStep
      <3>1. BeforeConnect
        BY <2>2, WireAssumption, SessionAssumption, RestStepType DEF RestsWait
      <3>2. QED BY <2>1, <2>2, <3>1, RestStepKept
    <2>3. CASE [InTurn]_vars
      <3>1. SessionKept'
        BY <2>3, NextKept, SpoiledKept DEF Handshake
      <3>2. QED BY <2>1, <2>3, <3>1, InTurnRestsKept
    <2>4. QED BY <2>2, <2>3 DEF Next
  <1>3. Inv => NothingAbandoned
    BY DEF SessionKept, NothingAbandoned
  <1>4. QED BY <1>1, <1>2, <1>3, PTL DEF Spec
=============================================================================
