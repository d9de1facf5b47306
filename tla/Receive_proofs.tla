--------------------------- MODULE Receive_proofs ---------------------------
(***************************************************************************)
(* How received packets reach the application, for every value of the      *)
(* constants: the client knows the identifiers of its subscriptions, a     *)
(* message reaches the right callback, only rests are overtaken, and no    *)
(* packet is skipped.                                                      *)
(***************************************************************************)
EXTENDS Receive, Maps_proofs

-----------------------------------------------------------------------------
(* The inductive invariants. *)

Packet ==
  [type : {"CONNACK"}, n : 1 .. MaxSent, answer : Answer, props : BOOLEAN, ids : BOOLEAN]
    \cup [type : {"PUBLISH"}, n : 1 .. MaxSent, matched : SUBSET Subscription]
    \cup [type : {"SUBACK", "UNSUBACK"} \cup BadTypes, n : 1 .. MaxSent]

Request == [topix : TopicSets, subscribes : BOOLEAN, id : Nat, cb : Nat]

HandledPacket == [n : 1 .. MaxSent, matched : SUBSET Subscription, got : SUBSET Nat,
                  session : Nat, returns : BOOLEAN]

(* The types of all variables, and what the counters count. *)
Types ==
  /\ TypeOK
  /\ tree \in [rest : Seq(Packet), nested : 0 .. MaxNested]
  /\ queue \in Seq(Seq(Packet))
  /\ toClient \in Seq(Packet)
  /\ toServer \in Seq(Request)
  /\ handled \in Seq(HandledPacket)
  /\ segments \in Seq([first : Nat, last : Nat])
  /\ session <= connections
  /\ subId <= Len(asked)

(* The packets that were received and are not handled, and those to come. *)
Queued == UNION {Range(queue[i]) : i \in DOMAIN queue}

UnderWay == Range(toClient) \cup Range(tree.rest) \cup Queued

Begins(q) == q # <<>> /\ q[1].type = "CONNACK"

FirstOnly(q) == \A i \in DOMAIN q : q[i].type = "CONNACK" => i = 1

(* A CONNACK is the first packet of its connection, so it is never in a queued
   rest, and the client is not RUNNING before it is handled. *)
ConnackFirst ==
  /\ FirstOnly(toClient) /\ FirstOnly(tree.rest)
  /\ \A p \in Queued : p.type # "CONNACK"
  /\ running => up
  /\ ~up => toClient = <<>> /\ toServer = <<>>
  /\ Begins(tree.rest) => ~Begins(toClient)
  /\ Begins(tree.rest) \/ Begins(toClient) => up /\ ~running /\ toServer = <<>>

(* The subscriptions at the server, and those that messages under way were sent
   for. *)
Concerned ==
  {subs[f] : f \in DOMAIN subs}
    \cup UNION {p.matched : p \in {q \in UnderWay : q.type = "PUBLISH"}}

(* An identifier stands for one set of topics for ever, and for as long as its
   session lasts the client has a callback for it. *)
Known(s) ==
  s.id # NoId =>
    /\ s.id <= subId
    /\ s.id \in DOMAIN subsResources =>
         subsResources[s.id].topix = s.topix /\ s.cb <= subsResources[s.id].cb
    /\ s.session = session => s.id \in DOMAIN subsResources

(* What a request on its way says of the client's table. *)
RequestKnown(p) ==
  /\ p.id # NoId => /\ p.id \in DOMAIN subsResources
                    /\ subsResources[p.id].topix = p.topix
                    /\ p.cb <= subsResources[p.id].cb
  /\ p.cb <= Len(asked)

IdsKnown ==
  /\ \A id \in DOMAIN subsResources :
       /\ subsResources[id].cb \in 1 .. Len(asked)
       /\ asked[subsResources[id].cb] = subsResources[id].topix
  /\ \A s \in Concerned : s.session <= session /\ s.cb <= Len(asked) /\ Known(s)
  /\ \A f \in DOMAIN subs : subs[f].session = session
  /\ \A i \in DOMAIN toServer : RequestKnown(toServer[i])
  /\ \A q \in {toClient, tree.rest} : Begins(q) /\ q[1].answer = "CLEAN" =>
       DOMAIN subs = {} /\ \A s \in Concerned : s.session # session

(* The last packet that is not on its way any more. *)
Arrived == written - Len(toClient)

(* A packet that may wait: too far into its segment for the first call tree. *)
MayWait(n) ==
  \E k \in DOMAIN segments : n \in Segment(k) /\ n - segments[k].first > MaxNested

(* The call tree of a segment's first packets: they come in order, and after
   all that was handled before. *)
InOrder ==
  /\ \E k \in DOMAIN segments : \A j \in DOMAIN tree.rest :
       /\ tree.rest[j].n = segments[k].first + tree.nested + j - 1
       /\ tree.rest[j].n \in Segment(k)
  /\ \A i \in DOMAIN handled, j \in DOMAIN tree.rest : handled[i].n < tree.rest[j].n

(* Only packets that may wait do, and others are handled as they come. *)
WaitInTurn ==
  /\ Len(toClient) <= written
  /\ \A i \in DOMAIN toClient : toClient[i].n = Arrived + i
  /\ \A k \in DOMAIN segments : segments[k].last <= Arrived
  /\ \A i \in DOMAIN handled : handled[i].n <= Arrived
  /\ \A p \in Range(tree.rest) \cup Queued : p.n <= Arrived
  /\ \A p \in Queued : MayWait(p.n)
  /\ InOrder \/ \A p \in Range(tree.rest) : MayWait(p.n)
  /\ OnlyRestsOvertaken

(* The packets that wait: before the call tree, and in each queued rest. *)
RowIds == 0 .. Len(queue)

Row(k) == IF k = 0 THEN tree.rest ELSE queue[k]

Waiting(m) == \E k \in RowIds : \E i \in DOMAIN Row(k) : Row(k)[i].n = m

Done(m) == \E i \in DOMAIN handled : handled[i].n = m

SameSegment(m, n) == \E k \in DOMAIN segments : m \in Segment(k) /\ n \in Segment(k)

Precedes(m, n) == m # n /\ (SameSegment(m, n) => m < n)

(* What h leaves behind it when its handler returns at once is never handled. *)
Lets(h, n) == Precedes(h.n, n) /\ (SameSegment(h.n, n) => ~h.returns)

(* What waits in one row. *)
InRows ==
  /\ \A k \in RowIds : \A i, j \in DOMAIN Row(k) : SameSegment(Row(k)[i].n, Row(k)[j].n)
  /\ \A k \in RowIds : \A i, j \in DOMAIN Row(k) : i < j => Row(k)[i].n < Row(k)[j].n
  /\ \A k, l \in RowIds : \A i \in DOMAIN Row(k), j \in DOMAIN Row(l) :
       k # l => ~SameSegment(Row(k)[i].n, Row(l)[j].n)

(* What was received is handled, or waits, or is abandoned.  A segment is in one
   row, in its order, after those of its packets that are handled: so the end of a
   row can be cut off and queued behind others, or left. *)
Placed ==
  /\ \A m : Done(m) \/ Waiting(m) => m \in Received
  /\ \A m \in Received : Done(m) \/ Waiting(m) \/ m \in Abandoned
  /\ InRows
  /\ \A i, j \in DOMAIN handled : i < j => Lets(handled[i], handled[j].n)
  /\ \A i \in DOMAIN handled, k \in RowIds : \A j \in DOMAIN Row(k) :
       Lets(handled[i], Row(k)[j].n)

-----------------------------------------------------------------------------
(* Packets and sequences of them. *)

LEMMA PacketFields ==
  ASSUME NEW p \in Packet
  PROVE  /\ p.n \in 1 .. MaxSent
         /\ p.type \in {"CONNACK", "PUBLISH", "SUBACK", "UNSUBACK", "REJECTED", "MALFORMED"}
         /\ p.type = "CONNACK" => p.answer \in Answer /\ p.props \in BOOLEAN /\ p.ids \in BOOLEAN
         /\ p.type = "PUBLISH" => p.matched \subseteq Subscription
  BY DEF Packet, BadTypes

LEMMA WrittenPacket ==
  ASSUME NEW n \in 1 .. MaxSent
  PROVE  /\ \A answer \in Answer, props \in BOOLEAN, ids \in BOOLEAN :
              Connack(n, answer, props, ids) \in Packet
         /\ \A matched \in SUBSET Subscription : Publish(n, matched) \in Packet
         /\ \A type \in {"SUBACK", "UNSUBACK"} \cup BadTypes : Other(type, n) \in Packet
  BY DEF Packet, Connack, Publish, Other

LEMMA SeqTail ==
  ASSUME NEW S, NEW q \in Seq(S), q # <<>>
  PROVE  /\ Head(q) \in S /\ Head(q) = q[1] /\ Tail(q) \in Seq(S)
         /\ Len(q) \in Nat /\ Len(q) > 0 /\ DOMAIN q = 1 .. Len(q)
         /\ Len(Tail(q)) = Len(q) - 1 /\ DOMAIN Tail(q) = 1 .. Len(q) - 1
         /\ \A i \in DOMAIN Tail(q) : Tail(q)[i] = q[i + 1] /\ i + 1 \in DOMAIN q
         /\ Range(Tail(q)) \subseteq Range(q)
         /\ Head(q) \in Range(q)
  <1>1. /\ Head(q) \in S /\ Head(q) = q[1] /\ Tail(q) \in Seq(S)
        /\ Len(q) \in Nat /\ Len(q) > 0 /\ DOMAIN q = 1 .. Len(q)
        /\ Len(Tail(q)) = Len(q) - 1 /\ DOMAIN Tail(q) = 1 .. Len(q) - 1
    OBVIOUS
  <1>2. \A i \in DOMAIN Tail(q) : Tail(q)[i] = q[i + 1] /\ i + 1 \in DOMAIN q
    BY <1>1, TailIndexed
  <1>3. Range(Tail(q)) \subseteq Range(q)
    BY <1>2 DEF Range
  <1>4. Head(q) \in Range(q)
    BY <1>1 DEF Range
  <1>5. QED BY <1>1, <1>2, <1>3, <1>4

LEMMA SeqAppend ==
  ASSUME NEW S, NEW q \in Seq(S), NEW x \in S
  PROVE  /\ Append(q, x) \in Seq(S) /\ Append(q, x) # <<>>
         /\ Len(q) \in Nat /\ DOMAIN q = 1 .. Len(q)
         /\ Len(Append(q, x)) = Len(q) + 1 /\ DOMAIN Append(q, x) = 1 .. Len(q) + 1
         /\ \A i \in DOMAIN q : Append(q, x)[i] = q[i]
         /\ Append(q, x)[Len(q) + 1] = x
         /\ Range(Append(q, x)) = Range(q) \cup {x}
  <1>1. /\ Append(q, x) \in Seq(S) /\ Append(q, x) # <<>>
        /\ Len(q) \in Nat /\ DOMAIN q = 1 .. Len(q)
        /\ Len(Append(q, x)) = Len(q) + 1 /\ DOMAIN Append(q, x) = 1 .. Len(q) + 1
        /\ \A i \in DOMAIN q : Append(q, x)[i] = q[i]
        /\ Append(q, x)[Len(q) + 1] = x
    OBVIOUS
  <1>2. QED BY <1>1, QueueAppend

LEMMA SeqElements ==
  ASSUME NEW S, NEW q \in Seq(S)
  PROVE  Range(q) \subseteq S /\ DOMAIN q = 1 .. Len(q) /\ Len(q) \in Nat
  BY DEF Range

(* A segment: the packets at the front of what is on its way. *)
LEMMA Cut ==
  ASSUME NEW S, NEW q \in Seq(S), NEW n \in 1 .. Len(q)
  PROVE  LET s == SubSeq(q, 1, n)
             r == SubSeq(q, n + 1, Len(q))
         IN /\ s \in Seq(S) /\ Len(s) = n /\ DOMAIN s = 1 .. n
            /\ \A i \in DOMAIN s : s[i] = q[i] /\ i \in DOMAIN q
            /\ r \in Seq(S) /\ Len(r) = Len(q) - n /\ DOMAIN r = 1 .. Len(q) - n
            /\ \A i \in DOMAIN r : r[i] = q[i + n] /\ i + n \in DOMAIN q
            /\ Range(s) \subseteq Range(q) /\ Range(r) \subseteq Range(q)
            /\ s # <<>>
  <1> DEFINE s == SubSeq(q, 1, n)
             r == SubSeq(q, n + 1, Len(q))
  <1>1. /\ s \in Seq(S) /\ Len(s) = n /\ DOMAIN s = 1 .. n
        /\ \A i \in DOMAIN s : s[i] = q[i] /\ i \in DOMAIN q
    OBVIOUS
  <1>2. /\ r \in Seq(S) /\ DOMAIN r = 1 .. Len(q) - n
        /\ \A i \in DOMAIN r : r[i] = q[i + n] /\ i + n \in DOMAIN q
    BY RestIndexed
  <1>3. Len(r) = Len(q) - n
    BY <1>2
  <1>4. Range(s) \subseteq Range(q) /\ Range(r) \subseteq Range(q)
    BY <1>1, <1>2 DEF Range
  <1>5. s # <<>>
    BY <1>1
  <1>6. QED BY <1>1, <1>2, <1>3, <1>4, <1>5

(* The end of a handler: the rest of the segment is handled next, or queued, or
   lost. *)
Leaves == IF Returns(Head(tree.rest)) THEN Return ELSE GoRound

LEMMA RoundCases ==
  ASSUME Types, tree.rest # <<>>, Leaves
  PROVE  /\ tree' \in [rest : Seq(Packet), nested : 0 .. MaxNested]
         /\ queue' \in Seq(Seq(Packet))
         /\ (\A i \in DOMAIN queue : queue[i] # <<>>) => \A i \in DOMAIN queue' : queue'[i] # <<>>
         /\ \/ /\ Returns(Head(tree.rest)) \/ Tail(tree.rest) = <<>>
               /\ tree' = NoTree /\ queue' = queue
            \/ /\ ~Returns(Head(tree.rest)) /\ Tail(tree.rest) # <<>> /\ tree.nested < MaxNested
               /\ tree'.rest = Tail(tree.rest) /\ tree'.nested = tree.nested + 1
               /\ queue' = queue
            \/ /\ ~Returns(Head(tree.rest)) /\ tree.nested = MaxNested
               /\ tree' = NoTree /\ queue' = Append(queue, Tail(tree.rest))
  <1>1. /\ tree \in [rest : Seq(Packet), nested : 0 .. MaxNested]
        /\ queue \in Seq(Seq(Packet)) /\ MaxNested \in Nat
    BY ReceiveAssumption DEF Types
  <1>2. PICK r \in Seq(Packet) : r = Tail(tree.rest)
    BY <1>1, SeqTail
  <1>3. NoTree \in [rest : Seq(Packet), nested : 0 .. MaxNested]
    BY <1>1 DEF NoTree
  <1>0. CASE Returns(Head(tree.rest))
    BY <1>0, <1>1, <1>3 DEF Leaves, Return
  <1>4. CASE ~Returns(Head(tree.rest)) /\ r = <<>>
    BY <1>1, <1>2, <1>3, <1>4 DEF Leaves, GoRound
  <1>5. CASE ~Returns(Head(tree.rest)) /\ r # <<>> /\ tree.nested < MaxNested
    <2>1. tree' = [rest |-> r, nested |-> tree.nested + 1] /\ queue' = queue
      BY <1>2, <1>5 DEF Leaves, GoRound
    <2>2. QED BY <1>1, <1>2, <1>5, <2>1
  <1>6. CASE ~Returns(Head(tree.rest)) /\ r # <<>> /\ ~(tree.nested < MaxNested)
    <2>1. tree' = NoTree /\ queue' = Append(queue, r)
      BY <1>2, <1>6 DEF Leaves, GoRound
    <2>2. queue' \in Seq(Seq(Packet))
      BY <1>1, <2>1, SeqAppend
    <2>3. (\A i \in DOMAIN queue : queue[i] # <<>>) => \A i \in DOMAIN queue' : queue'[i] # <<>>
      BY <1>1, <1>6, <2>1, SeqAppend
    <2>4. tree.nested = MaxNested
      BY <1>1, <1>6
    <2>5. QED BY <1>2, <1>3, <1>6, <2>1, <2>2, <2>3, <2>4, Zenon
  <1>7. QED BY <1>0, <1>4, <1>5, <1>6

LEMMA ReturnsType ==
  ASSUME NEW p PROVE Returns(p) \in BOOLEAN
  BY DEF Returns

LEMMA RecordType ==
  ASSUME Types, tree.rest # <<>>, NEW matched \in SUBSET Subscription, NEW got \in SUBSET Nat,
         Record(matched, got)
  PROVE  handled' \in Seq(HandledPacket)
  <1>1. Head(tree.rest) \in Packet
    BY SeqTail DEF Types
  <1>2. session \in Nat
    BY ReceiveAssumption DEF Types, TypeOK
  <1>3. [n |-> Head(tree.rest).n, matched |-> matched, got |-> got, session |-> session,
          returns |-> Returns(Head(tree.rest))] \in HandledPacket
    BY <1>1, <1>2, PacketFields, ReturnsType DEF HandledPacket
  <1>4. QED BY <1>3, SeqAppend DEF Record, Types

-----------------------------------------------------------------------------
(* Types. *)

LEMMA Bounds ==
  Types =>
    /\ connections \in 0 .. MaxConnections /\ MaxConnections \in Nat
    /\ session \in 0 .. MaxConnections /\ session <= connections
    /\ subId \in 0 .. MaxCalls /\ MaxCalls \in Nat /\ subId <= Len(asked)
    /\ written \in 0 .. MaxSent /\ MaxSent \in Nat
    /\ asked \in Seq(TopicSets) /\ Len(asked) \in 0 .. MaxCalls
    /\ up \in BOOLEAN /\ running \in BOOLEAN
    /\ DOMAIN subsResources \subseteq 1 .. subId
    /\ \A id \in DOMAIN subsResources : subsResources[id] \in [cb : 1 .. MaxCalls, topix : TopicSets]
    /\ \A f \in DOMAIN subs : f \in UNION TopicSets /\ subs[f] \in Subscription
    /\ \A i \in DOMAIN queue : queue[i] # <<>>
  <1> SUFFICES ASSUME Types
               PROVE  Bounds!2
    OBVIOUS
  <1>1. TypeOK /\ session <= connections /\ subId <= Len(asked)
    BY DEF Types
  <1>2. MaxConnections \in Nat /\ MaxCalls \in Nat /\ MaxSent \in Nat
    BY ReceiveAssumption
  <1>3. asked \in Seq(TopicSets) /\ Len(asked) \in Nat /\ Len(asked) <= MaxCalls
    BY <1>1 DEF TypeOK
  <1>4. Len(asked) \in 0 .. MaxCalls
    BY <1>2, <1>3
  <1>5. QED BY <1>1, <1>2, <1>3, <1>4 DEF TypeOK

(* The new table: of this identifier the entry is new, or has a new callback;
   so has any other entry of these topics. *)
Renewed(id, topix, cb) ==
  /\ id \in 1 .. subId' /\ subId' \in {subId, subId + 1}
  /\ id \in DOMAIN subsResources => subsResources[id].topix = topix /\ subId' = subId
  /\ id \notin DOMAIN subsResources => id = subId + 1 /\ subId' = id
  /\ DOMAIN subsResources' = DOMAIN subsResources \cup {id}
  /\ subsResources'[id] = [cb |-> cb, topix |-> topix]
  /\ \A i \in DOMAIN subsResources :
       /\ subsResources'[i] \in [cb : 1 .. MaxCalls, topix : TopicSets]
       /\ subsResources'[i].topix = subsResources[i].topix
       /\ subsResources'[i].cb = IF subsResources[i].topix = topix THEN cb ELSE subsResources[i].cb

LEMMA RegisteredCases ==
  ASSUME Types, NEW topix \in TopicSets, NEW cb \in 1 .. MaxCalls, Registered(topix, cb)
  PROVE  \E id \in 1 .. subId' : Renewed(id, topix, cb)
  <1> DEFINE same == {id \in DOMAIN subsResources : subsResources[id].topix = topix}
  <1>1. /\ DOMAIN subsResources \subseteq 1 .. subId /\ subId \in Nat
        /\ \A id \in DOMAIN subsResources : subsResources[id] \in [cb : 1 .. MaxCalls, topix : TopicSets]
    BY Bounds
  <1>2. ASSUME NEW id \in same PROVE [subsResources[id] EXCEPT !.cb = cb] = [cb |-> cb, topix |-> topix]
    <2>1. subsResources[id] = [cb |-> subsResources[id].cb, topix |-> topix]
      BY <1>1, <1>2
    <2>2. QED BY <2>1
  <1>3. CASE same # {}
    <2>1. PICK id \in same : TRUE
      BY <1>3
    <2>2. /\ subId' = subId /\ DOMAIN subsResources' = DOMAIN subsResources
          /\ \A i \in DOMAIN subsResources : subsResources'[i] =
               IF i \in same THEN [subsResources[i] EXCEPT !.cb = cb] ELSE subsResources[i]
      BY <1>3 DEF Registered
    <2>3. /\ \A i \in same : subsResources'[i] = [cb |-> cb, topix |-> topix]
          /\ \A i \in DOMAIN subsResources \ same : subsResources'[i] = subsResources[i]
      BY <1>2, <2>2
    <2>4. id \in 1 .. subId'
      BY <1>1, <2>1, <2>2
    <2>5. Renewed(id, topix, cb)
      BY <1>1, <2>1, <2>2, <2>3, <2>4 DEF Renewed
    <2>6. QED BY <2>4, <2>5
  <1>4. CASE same = {}
    <2>1. /\ subId' = subId + 1
          /\ subsResources' = Put(subsResources, subId + 1, [cb |-> cb, topix |-> topix])
      BY <1>4 DEF Registered
    <2>2. subId + 1 \notin DOMAIN subsResources
      BY <1>1
    <2>3. /\ DOMAIN subsResources' = DOMAIN subsResources \cup {subId + 1}
          /\ subsResources'[subId + 1] = [cb |-> cb, topix |-> topix]
          /\ \A i \in DOMAIN subsResources :
               subsResources'[i] = subsResources[i] /\ subsResources[i].topix # topix
      BY <1>4, <2>1, <2>2 DEF Put
    <2>4. subId + 1 \in 1 .. subId'
      BY <1>1, <2>1
    <2>5. Renewed(subId + 1, topix, cb)
      BY <1>1, <2>1, <2>2, <2>3, <2>4 DEF Renewed
    <2>6. QED BY <2>4, <2>5
  <1>5. QED BY <1>3, <1>4

LEMMA SubscribeTypes ==
  ASSUME Types, NEW topix \in TopicSets, NEW callback \in BOOLEAN, NEW tooBig \in BOOLEAN,
         Subscribe(topix, callback, tooBig)
  PROVE  Types'
  <1> DEFINE cb == Len(asked) + 1
             uses == subIdsAvailable /\ callback
             id == CHOOSE i \in DOMAIN subsResources' : subsResources'[i].topix = topix
  <1>1. /\ Len(asked) < MaxCalls /\ asked' = Append(asked, topix)
        /\ IF uses THEN Registered(topix, cb) ELSE UNCHANGED <<subId, subsResources>>
        /\ toServer' = IF tooBig THEN toServer
                       ELSE Append(toServer,
                              [topix |-> topix, subscribes |-> TRUE,
                               id |-> IF uses THEN id ELSE NoId,
                               cb |-> IF uses THEN cb ELSE NoCallback])
    BY DEF Subscribe
  <1>2. /\ asked' \in Seq(TopicSets) /\ Len(asked') = Len(asked) + 1 /\ Len(asked) \in Nat
        /\ cb \in 1 .. MaxCalls /\ Len(asked') <= MaxCalls
    BY <1>1, Bounds, SeqAppend
  <1>3. /\ subId' \in 0 .. MaxCalls /\ subId' <= Len(asked')
        /\ DOMAIN subsResources' \subseteq 1 .. subId'
        /\ \A i \in DOMAIN subsResources' :
             subsResources'[i] \in [cb : 1 .. MaxCalls, topix : TopicSets]
    <2>1. CASE uses
      <3>1. PICK i \in 1 .. subId' : Renewed(i, topix, cb)
        BY <1>1, <1>2, <2>1, RegisteredCases
      <3>2. /\ DOMAIN subsResources \subseteq 1 .. subId /\ subId \in 0 .. MaxCalls
            /\ MaxCalls \in Nat /\ subId <= Len(asked)
        BY Bounds
      <3>3. subId' \in 0 .. MaxCalls /\ subId' <= Len(asked')
        BY <1>2, <3>1, <3>2 DEF Renewed
      <3>4. DOMAIN subsResources' \subseteq 1 .. subId'
        BY <3>1, <3>2 DEF Renewed
      <3>5. \A j \in DOMAIN subsResources' :
              subsResources'[j] \in [cb : 1 .. MaxCalls, topix : TopicSets]
        BY <1>2, <3>1 DEF Renewed
      <3>6. QED BY <3>3, <3>4, <3>5
    <2>2. CASE ~uses
      BY <1>1, <1>2, <2>2, Bounds
    <2>3. QED BY <2>1, <2>2
  <1>4. uses => id \in Nat
    <2>1. SUFFICES ASSUME uses PROVE id \in Nat
      OBVIOUS
    <2>2. \E i \in DOMAIN subsResources' : subsResources'[i].topix = topix
      <3>1. PICK i \in 1 .. subId' : Renewed(i, topix, cb)
        BY <1>1, <1>2, <2>1, RegisteredCases
      <3>2. QED BY <3>1 DEF Renewed
    <2>3. id \in DOMAIN subsResources'
      BY <2>2
    <2>4. QED BY <1>3, <2>3
  <1>5. toServer' \in Seq(Request)
    <2>1. [topix |-> topix, subscribes |-> TRUE,
           id |-> IF uses THEN id ELSE NoId, cb |-> IF uses THEN cb ELSE NoCallback] \in Request
      BY <1>2, <1>4 DEF Request, NoId, NoCallback
    <2>2. QED BY <1>1, <2>1, SeqAppend DEF Types
  <1>6. UNCHANGED <<connections, up, running, subIdsAvailable, tree, queue, segments, handled,
                    subs, written, toClient, session>>
    BY DEF Subscribe, calls, server
  <1>7. QED BY <1>2, <1>3, <1>5, <1>6 DEF Types, TypeOK

LEMMA UnsubscribeTypes ==
  ASSUME Types, NEW topix \in TopicSets, Unsubscribe(topix) PROVE Types'
  <1>1. /\ Len(asked) < MaxCalls /\ asked' = Append(asked, topix)
        /\ toServer' = Append(toServer, [topix |-> topix, subscribes |-> FALSE,
                                         id |-> NoId, cb |-> NoCallback])
        /\ UNCHANGED <<connections, up, running, subIdsAvailable, subsResources, subId, tree,
                       queue, segments, handled, subs, written, toClient, session>>
    BY DEF Unsubscribe, client, calls, server
  <1>2. /\ asked' \in Seq(TopicSets) /\ Len(asked') = Len(asked) + 1 /\ Len(asked) \in Nat
        /\ Len(asked') <= MaxCalls /\ subId <= Len(asked')
    BY <1>1, Bounds, SeqAppend
  <1>3. [topix |-> topix, subscribes |-> FALSE, id |-> NoId, cb |-> NoCallback] \in Request
    BY DEF Request, NoId, NoCallback
  <1>4. toServer' \in Seq(Request)
    BY <1>1, <1>3, SeqAppend DEF Types
  <1>5. QED BY <1>1, <1>2, <1>4 DEF Types, TypeOK

LEMMA WriteTypes ==
  ASSUME Types, written < MaxSent, NEW p \in Packet, Write(p)
  PROVE  toClient' \in Seq(Packet) /\ written' \in 0 .. MaxSent
  <1>1. toClient \in Seq(Packet) /\ toClient' = Append(toClient, p) /\ written' = written + 1
    BY DEF Types, Write
  <1>2. written \in 0 .. MaxSent /\ MaxSent \in Nat
    BY Bounds
  <1>3. written' \in 0 .. MaxSent
    BY <1>1, <1>2
  <1>4. QED BY <1>1, <1>3, SeqAppend

LEMMA NumberedNext ==
  Types /\ written < MaxSent => written + 1 \in 1 .. MaxSent
  BY Bounds

LEMMA ConnectTypes ==
  ASSUME Types, NEW answer \in Answer, NEW props \in BOOLEAN, NEW ids \in BOOLEAN,
         Connect(answer, props, ids) PROVE Types'
  <1>1. /\ connections < MaxConnections /\ written < MaxSent
        /\ connections' = connections + 1 /\ up' = TRUE
        /\ subs' = IF answer = "CLEAN" THEN EmptyMap ELSE subs
        /\ session' = IF answer = "CLEAN" THEN session + 1 ELSE session
        /\ Write(Connack(written + 1, answer, props, ids))
        /\ UNCHANGED <<running, subIdsAvailable, subsResources, subId, tree, queue, segments,
                       handled, toServer, asked>>
    BY DEF Connect, client, calls
  <1>2. toClient' \in Seq(Packet) /\ written' \in 0 .. MaxSent
    BY <1>1, NumberedNext, WrittenPacket, WriteTypes
  <1>3. /\ connections' \in 0 .. MaxConnections /\ session' \in 0 .. MaxConnections
        /\ session' <= connections'
    BY <1>1, Bounds
  <1>4. DOMAIN subs' \subseteq UNION TopicSets /\ \A f \in DOMAIN subs' : subs'[f] \in Subscription
    BY <1>1, Bounds, EmptyMapType
  <1>5. QED BY <1>1, <1>2, <1>3, <1>4 DEF Types, TypeOK

LEMMA GoneTypes ==
  ASSUME Types, Gone,
         UNCHANGED <<connections, client, calls, server, session, asked>>
  PROVE  Types'
  <1>1. /\ up' = FALSE /\ running' = FALSE /\ toServer' = <<>> /\ toClient' = <<>>
        /\ UNCHANGED <<connections, subIdsAvailable, subsResources, subId, tree, queue, segments,
                       handled, subs, written, session, asked>>
    BY DEF Gone, client, calls, server
  <1>2. toServer' \in Seq(Request) /\ toClient' \in Seq(Packet)
    BY <1>1, EmptySeqType
  <1>3. QED BY <1>1, <1>2 DEF Types, TypeOK

LEMMA ServerReadsTypes ==
  ASSUME Types, ServerReads PROVE Types'
  <1> DEFINE p == Head(toServer)
             s == [id |-> p.id, cb |-> p.cb, topix |-> p.topix, session |-> session]
  <1>1. /\ toServer # <<>> /\ written < MaxSent /\ toServer' = Tail(toServer)
        /\ subs' = IF p.subscribes
                   THEN [f \in DOMAIN subs \cup p.topix |-> IF f \in p.topix THEN s ELSE subs[f]]
                   ELSE Restrict(subs, DOMAIN subs \ p.topix)
        /\ Write(Other(IF p.subscribes THEN "SUBACK" ELSE "UNSUBACK", written + 1))
        /\ UNCHANGED <<connections, up, running, subIdsAvailable, subsResources, subId, tree,
                       queue, segments, handled, session, asked>>
    BY DEF ServerReads, client, calls
  <1>2. p \in Request /\ toServer' \in Seq(Request)
    BY <1>1, SeqTail DEF Types
  <1>3. p.topix \in TopicSets /\ s \in Subscription
    BY <1>2, Bounds DEF Request, Subscription
  <1>4. DOMAIN subs' \subseteq UNION TopicSets /\ \A f \in DOMAIN subs' : subs'[f] \in Subscription
    <2>1. CASE p.subscribes
      <3>1. subs' = [f \in DOMAIN subs \cup p.topix |-> IF f \in p.topix THEN s ELSE subs[f]]
        BY <1>1, <2>1
      <3>2. QED BY <1>3, <3>1, Bounds
    <2>2. CASE ~p.subscribes
      <3>1. subs' = Restrict(subs, DOMAIN subs \ p.topix)
        BY <1>1, <2>2
      <3>2. QED BY <3>1, Bounds DEF Restrict
    <2>3. QED BY <2>1, <2>2
  <1>5. toClient' \in Seq(Packet) /\ written' \in 0 .. MaxSent
    BY <1>1, NumberedNext, WrittenPacket, WriteTypes
  <1>6. QED BY <1>1, <1>2, <1>4, <1>5 DEF Types, TypeOK

LEMMA PublishedPacket ==
  ASSUME Types, written < MaxSent, NEW filters \in SUBSET DOMAIN subs
  PROVE  Publish(written + 1, {subs[f] : f \in filters}) \in Packet
  <1>1. {subs[f] : f \in filters} \in SUBSET Subscription
    BY Bounds
  <1>2. QED BY <1>1, NumberedNext, WrittenPacket

LEMMA ServerWritesTypes ==
  ASSUME Types, written < MaxSent, NEW p \in Packet, Write(p),
         UNCHANGED <<connections, up, running, client, calls, subs, toServer, session, asked>>
  PROVE  Types'
  <1>1. toClient' \in Seq(Packet) /\ written' \in 0 .. MaxSent
    BY WriteTypes
  <1>2. QED BY <1>1 DEF Types, TypeOK, client, calls

LEMMA ReceiveSegmentTypes ==
  ASSUME Types, NEW n \in 1 .. MaxSent, ReceiveSegment(n) PROVE Types'
  <1>1. /\ n \in 1 .. Len(toClient)
        /\ tree' = [rest |-> SubSeq(toClient, 1, n), nested |-> 0]
        /\ toClient' = SubSeq(toClient, n + 1, Len(toClient))
        /\ segments' = Append(segments, [first |-> toClient[1].n, last |-> toClient[n].n])
        /\ UNCHANGED <<connections, up, running, subIdsAvailable, subsResources, subId, queue,
                       handled, subs, written, toServer, session, asked>>
    BY DEF ReceiveSegment, client, server
  <1>2. SubSeq(toClient, 1, n) \in Seq(Packet) /\ toClient' \in Seq(Packet)
    BY <1>1, Cut DEF Types
  <1>3. tree' \in [rest : Seq(Packet), nested : 0 .. MaxNested]
    BY <1>1, <1>2, ReceiveAssumption
  <1>4. toClient[1] \in Packet /\ toClient[n] \in Packet
    BY <1>1 DEF Types
  <1>5. [first |-> toClient[1].n, last |-> toClient[n].n] \in [first : Nat, last : Nat]
    BY <1>4, PacketFields
  <1>6. segments' \in Seq([first : Nat, last : Nat])
    BY <1>1, <1>5, SeqAppend DEF Types
  <1>7. QED BY <1>1, <1>2, <1>3, <1>6 DEF Types, TypeOK

LEMMA RunTailTypes ==
  ASSUME Types, RunTail PROVE Types'
  <1>1. /\ queue # <<>> /\ tree' = [rest |-> Head(queue), nested |-> 0] /\ queue' = Tail(queue)
        /\ UNCHANGED <<connections, up, running, subIdsAvailable, subsResources, subId, segments,
                       handled, subs, written, toServer, toClient, session, asked>>
    BY DEF RunTail, client, server
  <1>2. /\ Head(queue) \in Seq(Packet) /\ queue' \in Seq(Seq(Packet))
        /\ \A i \in DOMAIN queue' : queue'[i] = queue[i + 1] /\ i + 1 \in DOMAIN queue
    BY <1>1, SeqTail DEF Types
  <1>3. \A i \in DOMAIN queue' : queue'[i] # <<>>
    BY <1>2, Bounds
  <1>4. tree' \in [rest : Seq(Packet), nested : 0 .. MaxNested]
    BY <1>1, <1>2, ReceiveAssumption
  <1>5. QED BY <1>1, <1>2, <1>3, <1>4 DEF Types, TypeOK

(* What all handlers do. *)
LEMMA HandleCases ==
  ASSUME Types, Handle
  PROVE  /\ tree.rest # <<>> /\ Leaves
         /\ UNCHANGED <<connections, subId, segments, server, session, asked>>
         /\ \/ UNCHANGED <<up, running, toServer, toClient>>
            \/ Handling("CONNACK") /\ UNCHANGED <<up, toServer, toClient>>
            \/ Gone
         /\ HandlePublish \/ Record({}, {})
         /\ \/ subsResources' = subsResources
            \/ /\ Handling("CONNACK") /\ Head(tree.rest).answer = "CLEAN"
               /\ subsResources' = EmptyMap
  <1>1. tree.rest # <<>>
    BY DEF Handle, HandleConnack, ConnackWithoutProperties, ConnackUnknownSession, HandlePublish,
      HandleSubackUnsuback, HandleRejected, HandleMalformed, Handling
  <1>2. CASE HandleConnack
    <2>1. Head(tree.rest) \in Packet /\ Head(tree.rest).type = "CONNACK"
      BY <1>1, <1>2, SeqTail DEF Types, HandleConnack, Handling
    <2>2. Head(tree.rest).answer \in {"CLEAN", "RESUMED"}
      BY <1>2, <2>1, PacketFields DEF HandleConnack, Returns, Answer
    <2>3. subsResources' = IF Head(tree.rest).answer = "RESUMED" THEN subsResources ELSE EmptyMap
      BY <1>2 DEF HandleConnack, HandleSession
    <2>4. Leaves
      BY <1>2 DEF Leaves, HandleConnack
    <2>5. UNCHANGED <<connections, subId, segments, server, session, asked, up, toServer, toClient>>
      BY <1>2 DEF HandleConnack, HandleSession
    <2>6. Handling("CONNACK") /\ Record({}, {})
      BY <1>2 DEF HandleConnack
    <2>7. QED BY <1>1, <2>2, <2>3, <2>4, <2>5, <2>6
  <1>3. CASE ConnackWithoutProperties
    <2>1. Leaves
      BY <1>3 DEF ConnackWithoutProperties, Handling, Leaves, Returns
    <2>2. QED BY <1>1, <1>3, <2>1 DEF ConnackWithoutProperties, client
  <1>4. CASE ConnackUnknownSession
    <2>1. Leaves
      BY <1>4 DEF ConnackUnknownSession, Handling, Leaves, Returns
    <2>2. QED BY <1>1, <1>4, <2>1 DEF ConnackUnknownSession
  <1>5. CASE HandlePublish
    <2>1. Leaves
      BY <1>5 DEF HandlePublish, Handling, Leaves, Returns
    <2>2. QED BY <1>1, <1>5, <2>1 DEF HandlePublish, client
  <1>6. CASE HandleSubackUnsuback
    <2>1. Leaves
      BY <1>6 DEF HandleSubackUnsuback, Handling, Leaves, Returns
    <2>2. QED BY <1>1, <1>6, <2>1 DEF HandleSubackUnsuback, client
  <1>7. CASE HandleRejected
    <2>1. Leaves
      BY <1>7 DEF HandleRejected, Handling, Leaves, Returns
    <2>2. QED BY <1>1, <1>7, <2>1 DEF HandleRejected, client
  <1>8. CASE HandleMalformed
    <2>1. Leaves
      BY <1>8 DEF HandleMalformed, Handling, Leaves, Returns
    <2>2. QED BY <1>1, <1>8, <2>1 DEF HandleMalformed, client
  <1>9. QED BY <1>2, <1>3, <1>4, <1>5, <1>6, <1>7, <1>8 DEF Handle

(* A handler, whatever else it does. *)
LEMMA HandleTypes ==
  ASSUME Types, tree.rest # <<>>, Leaves,
         NEW matched \in SUBSET Subscription, NEW got \in SUBSET Nat, Record(matched, got),
         UNCHANGED <<connections, segments, server, session, asked>>
  PROVE  /\ tree' \in [rest : Seq(Packet), nested : 0 .. MaxNested]
         /\ queue' \in Seq(Seq(Packet)) /\ \A i \in DOMAIN queue' : queue'[i] # <<>>
         /\ handled' \in Seq(HandledPacket)
  BY RoundCases, RecordType, Bounds

LEMMA CalledType ==
  ASSUME Types, NEW ids PROVE Called(ids) \in SUBSET Nat
  BY Bounds DEF Called, General

(* What a handler records: for a PUBLISH, the callbacks that it called. *)
LEMMA Recorded ==
  ASSUME Types, Handle
  PROVE  \E matched \in SUBSET Subscription, got \in SUBSET Nat : Record(matched, got)
  <1>1. CASE HandlePublish
    <2>1. PICK matched : matched = Head(tree.rest).matched
      OBVIOUS
    <2>2. PICK got : got = Called({s.id : s \in matched} \ {NoId})
      OBVIOUS
    <2>3. tree.rest # <<>> /\ Head(tree.rest).type = "PUBLISH" /\ Record(matched, got)
      BY <1>1, <2>1, <2>2 DEF HandlePublish, Handling
    <2>4. matched \in SUBSET Subscription
      BY <2>1, <2>3, SeqTail, PacketFields DEF Types
    <2>5. got \in SUBSET Nat
      BY <2>2, CalledType
    <2>6. QED BY <2>3, <2>4, <2>5
  <1>2. CASE Record({}, {})
    BY <1>2
  <1>3. QED BY <1>1, <1>2, HandleCases

LEMMA HandlersTypes ==
  ASSUME Types, Handle PROVE Types'
  <1>1. /\ tree.rest # <<>> /\ Leaves
        /\ UNCHANGED <<connections, subId, segments, server, session, asked>>
    BY HandleCases
  <1>2. /\ tree' \in [rest : Seq(Packet), nested : 0 .. MaxNested]
        /\ queue' \in Seq(Seq(Packet)) /\ \A i \in DOMAIN queue' : queue'[i] # <<>>
        /\ handled' \in Seq(HandledPacket)
    BY <1>1, Recorded, HandleTypes
  <1>3. subIdsAvailable' \in BOOLEAN
    <2>1. subIdsAvailable' = subIdsAvailable \/ subIdsAvailable' = Head(tree.rest).ids
      BY DEF Handle, HandleConnack, ConnackWithoutProperties, ConnackUnknownSession, HandlePublish,
        HandleSubackUnsuback, HandleRejected, HandleMalformed, client
    <2>2. CASE subIdsAvailable' = subIdsAvailable
      BY <2>2 DEF Types, TypeOK
    <2>3. CASE HandleConnack \/ ConnackUnknownSession
      BY <1>1, <2>3, SeqTail, PacketFields
        DEF Types, HandleConnack, ConnackUnknownSession, Handling
    <2>4. QED BY <2>1, <2>2, <2>3
      DEF Handle, ConnackWithoutProperties, HandlePublish, HandleSubackUnsuback, HandleRejected,
        HandleMalformed, client
  <1>4. /\ DOMAIN subsResources' \subseteq 1 .. subId'
        /\ \A id \in DOMAIN subsResources' :
             subsResources'[id] \in [cb : 1 .. MaxCalls, topix : TopicSets]
    BY <1>1, HandleCases, Bounds, EmptyMapType
  <1>5. up' \in BOOLEAN /\ running' \in BOOLEAN
    <2>1. CASE UNCHANGED <<up, running>> \/ Gone
      BY <2>1, Bounds DEF Gone
    <2>2. CASE HandleConnack
      BY <2>2, Bounds DEF HandleConnack
    <2>3. QED BY <2>1, <2>2
      DEF Handle, ConnackWithoutProperties, ConnackUnknownSession, HandlePublish,
        HandleSubackUnsuback, HandleRejected, HandleMalformed
  <1>6. toServer' \in Seq(Request) /\ toClient' \in Seq(Packet)
    BY HandleCases, EmptySeqType DEF Types, Gone
  <1>7. QED BY <1>1, <1>2, <1>3, <1>4, <1>5, <1>6 DEF Types, TypeOK, server

LEMMA NextTypes == Types /\ [Next]_vars => Types'
  <1> SUFFICES ASSUME Types, [Next]_vars PROVE Types'
    OBVIOUS
  <1>1. ASSUME NEW topix \in TopicSets,
               \/ \E callback \in BOOLEAN : Subscribe(topix, callback, FALSE)
               \/ Subscribe(topix, TRUE, TRUE) \/ Unsubscribe(topix)
        PROVE  Types'
    BY <1>1, SubscribeTypes, UnsubscribeTypes
  <1>2. ASSUME NEW answer \in Answer, NEW props \in BOOLEAN, NEW ids \in BOOLEAN,
         Connect(answer, props, ids) PROVE Types'
    BY <1>2, ConnectTypes
  <1>3. CASE Lost \/ \E n \in 1 .. MaxSent : SegmentTooLarge(n)
    BY <1>3, GoneTypes DEF Lost, SegmentTooLarge
  <1>4. ASSUME NEW filters \in SUBSET DOMAIN subs \ {{}}, ServerPublishes(filters) PROVE Types'
    BY <1>4, PublishedPacket, ServerWritesTypes DEF ServerPublishes
  <1>5. ASSUME NEW type \in BadTypes, ServerWritesBad(type) PROVE Types'
    BY <1>5, NumberedNext, WrittenPacket, ServerWritesTypes DEF ServerWritesBad
  <1>6. ASSUME NEW n \in 1 .. MaxSent, ReceiveSegment(n) PROVE Types'
    BY <1>6, ReceiveSegmentTypes
  <1>7. CASE Handle
    BY <1>7, HandlersTypes
  <1>8. CASE UNCHANGED vars
    BY <1>8 DEF Types, TypeOK, vars, client, calls, server
  <1>9. QED BY <1>1, <1>2, <1>3, <1>4, <1>5, <1>6, <1>7, <1>8, ServerReadsTypes, RunTailTypes
    DEF Next, Application, Server

LEMMA InitTypes == Init => Types
  <1> SUFFICES ASSUME Init PROVE Types
    OBVIOUS
  <1>1. /\ <<>> \in Seq(Packet) /\ <<>> \in Seq(Seq(Packet)) /\ <<>> \in Seq(Request)
        /\ <<>> \in Seq(HandledPacket) /\ <<>> \in Seq([first : Nat, last : Nat])
        /\ <<>> \in Seq(TopicSets) /\ Len(<<>>) = 0
    BY EmptySeqType
  <1>2. tree \in [rest : Seq(Packet), nested : 0 .. MaxNested] /\ tree.nested \in 0 .. MaxNested
    BY <1>1, ReceiveAssumption DEF Init, NoTree
  <1>3. {up, running, subIdsAvailable} \subseteq BOOLEAN
    BY DEF Init
  <1>4. DOMAIN subs = {} /\ DOMAIN subsResources = {}
    BY EmptyMapType DEF Init
  <1>5. QED BY <1>1, <1>2, <1>3, <1>4, ReceiveAssumption DEF Init, Types, TypeOK

(* The state keeps its types, and counters, identifiers and call trees stay
   within their bounds. *)
THEOREM TypeCorrect == Spec => []TypeOK
  <1>1. Types => TypeOK
    BY DEF Types
  <1>2. QED BY <1>1, InitTypes, NextTypes, PTL DEF Spec

-----------------------------------------------------------------------------
(* A CONNACK comes first. *)

LEMMA TailNoConnack ==
  ASSUME NEW q \in Seq(Packet), q # <<>>, FirstOnly(q)
  PROVE  \A p \in Range(Tail(q)) : p.type # "CONNACK"
  <1>1. /\ \A i \in DOMAIN Tail(q) : Tail(q)[i] = q[i + 1] /\ i + 1 \in DOMAIN q /\ i + 1 # 1
    BY SeqTail
  <1>2. QED BY <1>1 DEF FirstOnly, Range

LEMMA NoConnack ==
  ASSUME NEW q \in Seq(Packet), \A p \in Range(q) : p.type # "CONNACK"
  PROVE  FirstOnly(q) /\ ~Begins(q)
  <1>1. \A i \in DOMAIN q : q[i] \in Range(q)
    BY DEF Range
  <1>2. q # <<>> => 1 \in DOMAIN q
    BY SeqTail
  <1>3. QED BY <1>1, <1>2 DEF FirstOnly, Begins

(* The packets of the tree and of the queue after a handler, ... *)
LEMMA RoundRanges ==
  ASSUME Types, tree.rest # <<>>, Leaves
  PROVE  /\ Range(tree'.rest) \subseteq Range(Tail(tree.rest))
         /\ Queued' \subseteq Queued \cup Range(Tail(tree.rest))
  <1>1. tree.rest \in Seq(Packet) /\ queue \in Seq(Seq(Packet))
    BY DEF Types
  <1>2. PICK r \in Seq(Packet) : r = Tail(tree.rest)
    BY <1>1, SeqTail
  <1>3. /\ tree'.rest = r \/ tree'.rest = <<>>
        /\ queue' = queue \/ queue' = Append(queue, r)
    BY <1>2, RoundCases DEF NoTree
  <1>4. Range(tree'.rest) \subseteq Range(r)
    BY <1>3 DEF Range
  <1>5. CASE queue' = queue
    BY <1>2, <1>4, <1>5 DEF Queued
  <1>6. CASE queue' = Append(queue, r)
    <2>1. /\ DOMAIN queue' = 1 .. Len(queue) + 1 /\ DOMAIN queue = 1 .. Len(queue) /\ Len(queue) \in Nat
          /\ \A i \in DOMAIN queue : queue'[i] = queue[i]
          /\ queue'[Len(queue) + 1] = r
      BY <1>1, <1>6, SeqAppend
    <2>2. \A i \in DOMAIN queue' : i \in DOMAIN queue \/ i = Len(queue) + 1
      BY <2>1
    <2>3. QED BY <1>2, <1>4, <2>1, <2>2 DEF Queued
  <1>7. QED BY <1>3, <1>5, <1>6

(* ... and after a queued rest is taken up. *)
LEMMA RunTailRanges ==
  ASSUME Types, RunTail
  PROVE  /\ tree'.rest = Head(queue) /\ tree'.rest \in Seq(Packet) /\ tree'.nested = 0
         /\ Range(tree'.rest) \subseteq Queued /\ Queued' \subseteq Queued
  <1>1. queue \in Seq(Seq(Packet)) /\ queue # <<>>
    BY DEF Types, RunTail
  <1>2. tree' = [rest |-> Head(queue), nested |-> 0] /\ queue' = Tail(queue)
    BY DEF RunTail
  <1>3. /\ Head(queue) \in Seq(Packet) /\ Head(queue) = queue[1] /\ 1 \in DOMAIN queue
        /\ \A i \in DOMAIN queue' : queue'[i] = queue[i + 1] /\ i + 1 \in DOMAIN queue
    BY <1>1, <1>2, SeqTail
  <1>4. QED BY <1>2, <1>3 DEF Queued

LEMMA HandledNoConnack ==
  ASSUME Types, ConnackFirst, tree.rest # <<>>, Leaves
  PROVE  /\ FirstOnly(tree'.rest) /\ ~Begins(tree'.rest)
         /\ \A p \in Queued' : p.type # "CONNACK"
  <1>1. \A p \in Range(Tail(tree.rest)) : p.type # "CONNACK"
    BY TailNoConnack DEF Types, ConnackFirst
  <1>2. tree'.rest \in Seq(Packet)
    BY RoundCases
  <1>3. \A p \in Range(tree'.rest) \cup Queued' : p.type # "CONNACK"
    BY <1>1, RoundRanges DEF ConnackFirst
  <1>4. QED BY <1>2, <1>3, NoConnack

LEMMA WriteFirst ==
  ASSUME Types, ConnackFirst, NEW p \in Packet, p.type # "CONNACK", Write(p)
  PROVE  FirstOnly(toClient')
         /\ (Begins(toClient') => Begins(toClient) /\ toClient'[1] = toClient[1])
         /\ Range(toClient') = Range(toClient) \cup {p}
  <1>1. toClient' = Append(toClient, p) /\ toClient \in Seq(Packet)
    BY DEF Write, Types
  <1>2. /\ DOMAIN toClient' = 1 .. Len(toClient) + 1 /\ DOMAIN toClient = 1 .. Len(toClient)
        /\ Len(toClient) \in Nat
        /\ \A i \in DOMAIN toClient : toClient'[i] = toClient[i]
        /\ toClient'[Len(toClient) + 1] = p
    BY <1>1, SeqAppend
  <1>3. \A i \in DOMAIN toClient' : i \in DOMAIN toClient \/ i = Len(toClient) + 1
    BY <1>2
  <1>4. FirstOnly(toClient')
    BY <1>2, <1>3 DEF FirstOnly, ConnackFirst
  <1>5. ASSUME Begins(toClient') PROVE Begins(toClient) /\ toClient'[1] = toClient[1]
    <2>1. toClient'[1].type = "CONNACK" /\ 1 \in DOMAIN toClient'
      BY <1>2, <1>5 DEF Begins
    <2>2. 1 \in DOMAIN toClient
      BY <1>2, <1>3, <2>1
    <2>3. QED BY <1>2, <2>1, <2>2 DEF Begins
  <1>6. Range(toClient') = Range(toClient) \cup {p}
    BY <1>1, SeqAppend
  <1>7. QED BY <1>4, <1>5, <1>6

LEMMA SegmentFirst ==
  ASSUME Types, ConnackFirst, NEW n \in 1 .. Len(toClient),
         tree' = [rest |-> SubSeq(toClient, 1, n), nested |-> 0],
         toClient' = SubSeq(toClient, n + 1, Len(toClient))
  PROVE  /\ FirstOnly(tree'.rest) /\ (Begins(tree'.rest) => Begins(toClient))
         /\ (Begins(tree'.rest) => tree'.rest[1] = toClient[1])
         /\ FirstOnly(toClient') /\ ~Begins(toClient')
         /\ Range(tree'.rest) \subseteq Range(toClient) /\ Range(toClient') \subseteq Range(toClient)
  <1>1. /\ tree'.rest \in Seq(Packet) /\ DOMAIN tree'.rest = 1 .. n
        /\ \A i \in DOMAIN tree'.rest : tree'.rest[i] = toClient[i] /\ i \in DOMAIN toClient
        /\ toClient' \in Seq(Packet)
        /\ \A i \in DOMAIN toClient' : toClient'[i] = toClient[i + n] /\ i + n \in DOMAIN toClient
        /\ Range(tree'.rest) \subseteq Range(toClient) /\ Range(toClient') \subseteq Range(toClient)
        /\ DOMAIN toClient' = 1 .. Len(toClient) - n
    BY Cut DEF Types
  <1>2. FirstOnly(tree'.rest)
    BY <1>1 DEF FirstOnly, ConnackFirst
  <1>3. Begins(tree'.rest) => Begins(toClient) /\ tree'.rest[1] = toClient[1]
    <2>1. 1 \in DOMAIN tree'.rest
      BY <1>1
    <2>2. toClient # <<>>
      BY <1>1, <2>1
    <2>3. QED BY <1>1, <2>1, <2>2 DEF Begins
  <1>4. \A p \in Range(toClient') : p.type # "CONNACK"
    <2>1. \A i \in DOMAIN toClient' : i + n # 1
      BY <1>1
    <2>2. QED BY <1>1, <2>1 DEF Range, FirstOnly, ConnackFirst
  <1>5. QED BY <1>1, <1>2, <1>3, <1>4, NoConnack

LEMMA InitFirst == Init => ConnackFirst
  BY DEF Init, ConnackFirst, FirstOnly, Begins, Queued, NoTree

LEMMA NextFirst == Types /\ ConnackFirst /\ [Next]_vars => ConnackFirst'
  <1> SUFFICES ASSUME Types, ConnackFirst, [Next]_vars PROVE ConnackFirst'
    OBVIOUS
  <1>1. ASSUME \/ \E topix \in TopicSets, callback \in BOOLEAN, tooBig \in BOOLEAN :
                    Subscribe(topix, callback, tooBig)
               \/ \E topix \in TopicSets : Unsubscribe(topix)
        PROVE  ConnackFirst'
    <2>1. running /\ UNCHANGED <<up, running, tree, queue, toClient>>
      BY <1>1 DEF Subscribe, Unsubscribe, calls
    <2>2. QED BY <2>1 DEF ConnackFirst, FirstOnly, Begins, Queued
  <1>2. ASSUME NEW answer \in Answer, NEW props \in BOOLEAN, NEW ids \in BOOLEAN,
         Connect(answer, props, ids)
        PROVE  ConnackFirst'
    <2>1. /\ ~up /\ Idle /\ up' = TRUE /\ toClient' = Append(toClient, Connack(written + 1, answer, props, ids))
          /\ UNCHANGED <<running, tree, queue, toServer>>
      BY <1>2 DEF Connect, calls, Write
    <2>2. toClient = <<>> /\ toServer = <<>> /\ ~running /\ tree.rest = <<>>
      BY <2>1 DEF ConnackFirst, Idle, NoTree
    <2>3. FirstOnly(toClient')
      BY <2>1, <2>2 DEF FirstOnly
    <2>4. QED BY <2>1, <2>2, <2>3 DEF ConnackFirst, FirstOnly, Begins, Queued
  <1>3. ASSUME Gone, UNCHANGED calls, Idle PROVE ConnackFirst'
    <2>1. /\ up' = FALSE /\ running' = FALSE /\ toServer' = <<>> /\ toClient' = <<>>
          /\ tree.rest = <<>> /\ UNCHANGED <<tree, queue>>
      BY <1>3 DEF Gone, calls, Idle, NoTree
    <2>2. QED BY <2>1 DEF ConnackFirst, FirstOnly, Begins, Queued
  <1>4. ASSUME NEW p \in Packet, p.type # "CONNACK", Write(p), up, UNCHANGED <<up, running, calls>>,
               toServer' = toServer \/ toServer # <<>>
        PROVE  ConnackFirst'
    <2>1. FirstOnly(toClient') /\ (Begins(toClient') => Begins(toClient))
      BY <1>4, WriteFirst
    <2>2. QED BY <1>4, <2>1 DEF ConnackFirst, FirstOnly, Begins, Queued, calls
  <1>5. CASE ServerReads
    <2>1. PICK type \in {"SUBACK", "UNSUBACK"} : Write(Other(type, written + 1))
      BY <1>5 DEF ServerReads
    <2>2. Other(type, written + 1) \in Packet /\ Other(type, written + 1).type = type
      BY <1>5, NumberedNext, WrittenPacket DEF ServerReads, Other
    <2>3. QED BY <1>4, <1>5, <2>1, <2>2 DEF ServerReads
  <1>6. ASSUME NEW filters \in SUBSET DOMAIN subs, ServerPublishes(filters) PROVE ConnackFirst'
    <2>1. /\ Publish(written + 1, {subs[f] : f \in filters}) \in Packet
          /\ Publish(written + 1, {subs[f] : f \in filters}).type = "PUBLISH"
      BY <1>6, PublishedPacket DEF ServerPublishes, Publish
    <2>2. QED BY <1>4, <1>6, <2>1 DEF ServerPublishes
  <1>7. ASSUME NEW type \in BadTypes, ServerWritesBad(type) PROVE ConnackFirst'
    <2>1. Other(type, written + 1) \in Packet /\ Other(type, written + 1).type # "CONNACK"
      BY <1>7, NumberedNext, WrittenPacket DEF ServerWritesBad, Other, BadTypes
    <2>2. QED BY <1>4, <1>7, <2>1 DEF ServerWritesBad
  <1>8. ASSUME NEW n \in 1 .. MaxSent, ReceiveSegment(n) PROVE ConnackFirst'
    <2>1. /\ n \in 1 .. Len(toClient) /\ tree' = [rest |-> SubSeq(toClient, 1, n), nested |-> 0]
          /\ toClient' = SubSeq(toClient, n + 1, Len(toClient)) /\ up
          /\ UNCHANGED <<up, running, queue, toServer>>
      BY <1>8 DEF ReceiveSegment
    <2>2. /\ FirstOnly(tree'.rest) /\ (Begins(tree'.rest) => Begins(toClient))
          /\ FirstOnly(toClient') /\ ~Begins(toClient')
      BY <2>1, SegmentFirst
    <2>3. QED BY <2>1, <2>2 DEF ConnackFirst, Queued
  <1>9. CASE RunTail
    <2>1. /\ tree'.rest \in Seq(Packet)
          /\ Range(tree'.rest) \subseteq Queued /\ Queued' \subseteq Queued
      BY <1>9, RunTailRanges
    <2>2. FirstOnly(tree'.rest) /\ ~Begins(tree'.rest)
      BY <2>1, NoConnack DEF ConnackFirst
    <2>3. UNCHANGED <<up, running, toServer, toClient>>
      BY <1>9 DEF RunTail
    <2>4. QED BY <2>1, <2>2, <2>3 DEF ConnackFirst
  <1>10. ASSUME tree.rest # <<>>, Leaves,
                \/ UNCHANGED <<up, running, toServer, toClient>>
                \/ Begins(tree.rest) /\ UNCHANGED <<up, toServer, toClient>>
                \/ Gone
         PROVE  ConnackFirst'
    <2>1. /\ FirstOnly(tree'.rest) /\ ~Begins(tree'.rest)
          /\ \A p \in Queued' : p.type # "CONNACK"
      BY <1>10, HandledNoConnack
    <2>2. CASE Gone
      BY <2>1, <2>2 DEF ConnackFirst, Gone, Begins, FirstOnly
    <2>3. CASE UNCHANGED <<up, running, toServer, toClient>>
      BY <2>1, <2>3 DEF ConnackFirst
    <2>4. CASE Begins(tree.rest) /\ UNCHANGED <<up, toServer, toClient>>
      BY <2>1, <2>4 DEF ConnackFirst
    <2>5. QED BY <1>10, <2>2, <2>3, <2>4
  <1>11. CASE Handle
    <2>1. Handling("CONNACK") => Begins(tree.rest)
      BY SeqTail DEF Handling, Begins, Types
    <2>2. QED BY <1>10, <1>11, <2>1, HandleCases
  <1>12. CASE UNCHANGED vars
    BY <1>12 DEF ConnackFirst, Queued, vars, calls
  <1>13. CASE Application
    BY <1>1, <1>13 DEF Application
  <1>14. CASE Server
    BY <1>2, <1>3, <1>5, <1>6, <1>7, <1>14 DEF Server, Lost
  <1>15. CASE \E n \in 1 .. MaxSent : SegmentTooLarge(n) \/ ReceiveSegment(n)
    BY <1>3, <1>8, <1>15 DEF SegmentTooLarge
  <1>16. QED BY <1>9, <1>11, <1>12, <1>13, <1>14, <1>15 DEF Next

-----------------------------------------------------------------------------
(* Identifiers of subscriptions. *)

LEMMA ConcernedType == Types => Concerned \subseteq Subscription
  <1> SUFFICES ASSUME Types PROVE Concerned \subseteq Subscription
    OBVIOUS
  <1>1. /\ Range(toClient) \subseteq Packet /\ Range(tree.rest) \subseteq Packet
        /\ \A i \in DOMAIN queue : queue[i] \in Seq(Packet)
    BY SeqElements DEF Types
  <1>2. \A i \in DOMAIN queue : Range(queue[i]) \subseteq Packet
    BY <1>1, SeqElements
  <1>3. UnderWay \subseteq Packet
    BY <1>1, <1>2 DEF UnderWay, Queued
  <1>4. QED BY <1>3, PacketFields, Bounds DEF Concerned

LEMMA ConcernedFewer ==
  ASSUME \A f \in DOMAIN subs' : subs'[f] \in Concerned,
         \A p \in UnderWay' : \/ p \in UnderWay
                              \/ p.type # "PUBLISH"
                              \/ p.matched \subseteq Concerned
  PROVE  Concerned' \subseteq Concerned
  <1>1. \A p \in UnderWay' : p.type = "PUBLISH" => p.matched \subseteq Concerned
    BY DEF Concerned
  <1>2. \A s \in Concerned' : \/ \E f \in DOMAIN subs' : s = subs'[f]
                              \/ \E p \in UnderWay' : p.type = "PUBLISH" /\ s \in p.matched
    BY DEF Concerned
  <1>3. QED BY <1>1, <1>2

LEMMA SameConcerned ==
  ASSUME subs' = subs, \A p \in UnderWay' : p \in UnderWay \/ p.type # "PUBLISH"
  PROVE  Concerned' \subseteq Concerned
  <1>1. \A f \in DOMAIN subs' : subs'[f] \in Concerned
    BY DEF Concerned
  <1>2. QED BY <1>1, ConcernedFewer

(* Nothing new is known of, and a CONNACK that comes first came first. *)
LEMMA StillKnown ==
  ASSUME IdsKnown, Concerned' \subseteq Concerned,
         UNCHANGED <<subsResources, subId, asked, session, subs>>,
         toServer' = toServer \/ toServer' = <<>>,
         \A q \in {toClient', tree'.rest} : Begins(q) =>
           \/ Begins(toClient) /\ q[1] = toClient[1]
           \/ Begins(tree.rest) /\ q[1] = tree.rest[1]
  PROVE  IdsKnown'
  <1>1. \A s \in Concerned' : s.session <= session' /\ s.cb <= Len(asked') /\ Known(s)'
    BY DEF IdsKnown, Known
  <1>2. \A i \in DOMAIN toServer' : RequestKnown(toServer[i])'
    <2>1. CASE toServer' = toServer
      BY <2>1 DEF IdsKnown, RequestKnown
    <2>2. CASE toServer' = <<>>
      BY <2>2
    <2>3. QED BY <2>1, <2>2
  <1>3. \A q \in {toClient', tree'.rest} : Begins(q) /\ q[1].answer = "CLEAN" =>
          DOMAIN subs' = {} /\ \A s \in Concerned' : s.session # session'
    BY DEF IdsKnown
  <1>4. QED BY <1>1, <1>2, <1>3 DEF IdsKnown

(* An entry keeps its topics, and its callback is never an older one. *)
EntriesKept ==
  /\ Len(asked') = Len(asked) + 1
  /\ \A i \in DOMAIN subsResources :
       /\ i \in DOMAIN subsResources'
       /\ subsResources'[i].topix = subsResources[i].topix
       /\ \A c \in Nat : c <= Len(asked) /\ c <= subsResources[i].cb => c <= subsResources'[i].cb

LEMMA RequestsStillKnown ==
  ASSUME Types, \A i \in DOMAIN toServer : RequestKnown(toServer[i]), EntriesKept,
         NEW request \in Request, RequestKnown(request)',
         toServer' = toServer \/ toServer' = Append(toServer, request)
  PROVE  \A i \in DOMAIN toServer' : RequestKnown(toServer[i])'
  <1>1. toServer \in Seq(Request) /\ Len(asked) \in Nat
    BY Bounds DEF Types
  <1>2. ASSUME NEW i \in DOMAIN toServer
        PROVE  (\A p \in {toServer[i]} : p.id # NoId =>
                  /\ p.id \in DOMAIN subsResources'
                  /\ subsResources'[p.id].topix = p.topix
                  /\ p.cb <= subsResources'[p.id].cb)
               /\ toServer[i].cb <= Len(asked')
    <2>1. toServer[i] \in Request
      BY <1>1, <1>2
    <2>2. toServer[i].cb \in Nat
      BY <2>1 DEF Request
    <2>3. QED BY <1>1, <2>2 DEF RequestKnown, EntriesKept
  <1>3. ASSUME NEW i \in DOMAIN toServer'
        PROVE  \/ i \in DOMAIN toServer /\ toServer'[i] = toServer[i]
               \/ toServer'[i] = request
    <2>1. CASE toServer' = toServer
      BY <1>3, <2>1
    <2>2. CASE toServer' = Append(toServer, request)
      BY <1>1, <1>3, <2>2, SeqAppend
    <2>3. QED BY <2>1, <2>2
  <1>4. QED BY <1>2, <1>3 DEF RequestKnown

LEMMA SubscribeKnown ==
  ASSUME Types, ConnackFirst, IdsKnown, NEW topix \in TopicSets, NEW callback \in BOOLEAN,
         NEW tooBig \in BOOLEAN, Subscribe(topix, callback, tooBig)
  PROVE  IdsKnown'
  <1> DEFINE cb == Len(asked) + 1
             uses == subIdsAvailable /\ callback
             id == CHOOSE i \in DOMAIN subsResources' : subsResources'[i].topix = topix
             request == [topix |-> topix, subscribes |-> TRUE, id |-> IF uses THEN id ELSE NoId,
                         cb |-> IF uses THEN cb ELSE NoCallback]
  <1>1. /\ Len(asked) < MaxCalls /\ asked' = Append(asked, topix) /\ running
        /\ IF uses THEN Registered(topix, cb) ELSE UNCHANGED <<subId, subsResources>>
        /\ toServer' = IF tooBig THEN toServer ELSE Append(toServer, request)
        /\ UNCHANGED <<tree, queue, toClient, subs, session>>
    BY DEF Subscribe, calls, server
  <1>2. /\ Len(asked) \in Nat /\ DOMAIN asked = 1 .. Len(asked)
        /\ Len(asked') = Len(asked) + 1 /\ asked'[cb] = topix
        /\ \A i \in 1 .. Len(asked) : asked'[i] = asked[i]
        /\ cb \in 1 .. MaxCalls
    BY <1>1, Bounds, SeqAppend
  <1>3. Concerned' = Concerned
    BY <1>1 DEF Concerned, UnderWay, Queued
  <1>4. ~Begins(toClient) /\ ~Begins(tree.rest)
    BY <1>1 DEF ConnackFirst
  <1> PICK r : r = request
    <2> HIDE DEF request
    <2> QED OBVIOUS
  <1>5. CASE uses
    <2>1. PICK new \in 1 .. subId' : Renewed(new, topix, cb)
      BY <1>1, <1>2, <1>5, RegisteredCases
    <2>2. \A i \in DOMAIN subsResources' :
            /\ subsResources'[i].cb \in 1 .. Len(asked')
            /\ asked'[subsResources'[i].cb] = subsResources'[i].topix
      <3>1. ASSUME NEW i \in DOMAIN subsResources'
            PROVE  /\ subsResources'[i].cb \in 1 .. Len(asked')
                   /\ asked'[subsResources'[i].cb] = subsResources'[i].topix
        <4>1. CASE i = new
          BY <1>2, <2>1, <4>1 DEF Renewed
        <4>2. CASE i # new /\ subsResources[i].topix = topix
          BY <1>2, <2>1, <3>1, <4>2 DEF Renewed
        <4>3. CASE i # new /\ subsResources[i].topix # topix
          BY <1>2, <2>1, <3>1, <4>3 DEF Renewed, IdsKnown
        <4>4. QED BY <4>1, <4>2, <4>3
      <3>2. QED BY <3>1
    <2>3. \A i \in DOMAIN subsResources :
            /\ i \in DOMAIN subsResources'
            /\ subsResources'[i].topix = subsResources[i].topix
            /\ \A c \in Nat : c <= Len(asked) /\ c <= subsResources[i].cb => c <= subsResources'[i].cb
      BY <1>2, <2>1 DEF Renewed
    <2>4. ASSUME NEW s \in Concerned
          PROVE  s.session <= session' /\ s.cb <= Len(asked') /\ Known(s)'
      <3>1. s \in Subscription /\ s.id \in Nat /\ s.cb \in Nat
        BY ConcernedType DEF Subscription
      <3>2. s.session <= session /\ s.cb <= Len(asked) /\ Known(s)
        BY DEF IdsKnown
      <3>3. s.id # NoId => s.id <= subId'
        BY <2>1, <3>1, <3>2, Bounds DEF Known, Renewed
      <3>4. s.id # NoId /\ s.id \in DOMAIN subsResources' => s.id \in DOMAIN subsResources
        BY <2>1, <3>1, <3>2, Bounds DEF Known, Renewed
      <3>5. QED BY <1>1, <1>2, <2>3, <3>1, <3>2, <3>3, <3>4 DEF Known
    <2>5. id \in DOMAIN subsResources' /\ subsResources'[id].topix = topix /\ subsResources'[id].cb = cb
      <3>1. \E i \in DOMAIN subsResources' : subsResources'[i].topix = topix
        BY <2>1 DEF Renewed
      <3>2. id \in DOMAIN subsResources' /\ subsResources'[id].topix = topix
        BY <3>1
      <3>3. \A i \in DOMAIN subsResources' : subsResources'[i].topix = topix => subsResources'[i].cb = cb
        BY <2>1 DEF Renewed
      <3>4. QED BY <3>2, <3>3
    <2>6. \A i \in DOMAIN toServer' : RequestKnown(toServer[i])'
      <3>1. r \in Request
        <4>1. id \in Nat
          <5>1. DOMAIN subsResources \subseteq 1 .. subId /\ subId \in Nat
            BY Bounds
          <5>2. DOMAIN subsResources' = DOMAIN subsResources \cup {new} /\ new \in Nat
            BY <2>1 DEF Renewed
          <5>3. DOMAIN subsResources' \subseteq Nat
            BY <5>1, <5>2
          <5>4. QED BY <2>5, <5>3
        <4>2. QED BY <1>2, <4>1 DEF Request, NoId, NoCallback
      <3>2. RequestKnown(r)'
        BY <1>2, <1>5, <2>5 DEF RequestKnown
      <3>3. EntriesKept
        BY <1>2, <2>3 DEF EntriesKept
      <3>4. \A i \in DOMAIN toServer : RequestKnown(toServer[i])
        BY DEF IdsKnown
      <3>5. QED BY <1>1, <3>1, <3>2, <3>3, <3>4, RequestsStillKnown
    <2>7. QED BY <1>1, <1>3, <1>4, <2>2, <2>4, <2>6 DEF IdsKnown
  <1>6. CASE ~uses
    <2>1. UNCHANGED <<subId, subsResources>> /\ r.id = NoId /\ r.cb = 0
      BY <1>1, <1>6 DEF NoCallback
    <2>2. \A i \in DOMAIN subsResources' :
            /\ subsResources'[i].cb \in 1 .. Len(asked')
            /\ asked'[subsResources'[i].cb] = subsResources'[i].topix
      BY <1>2, <2>1 DEF IdsKnown
    <2>3. ASSUME NEW s \in Concerned
          PROVE  s.session <= session' /\ s.cb <= Len(asked') /\ Known(s)'
      <3>1. s \in Subscription /\ s.cb \in Nat
        BY ConcernedType DEF Subscription
      <3>2. QED BY <1>1, <1>2, <2>1, <3>1 DEF IdsKnown, Known
    <2>4. \A i \in DOMAIN toServer' : RequestKnown(toServer[i])'
      <3>1. r \in Request
        BY <1>6 DEF Request, NoId, NoCallback
      <3>2. RequestKnown(r)'
        BY <1>2, <2>1 DEF RequestKnown
      <3>3. EntriesKept
        BY <1>2, <2>1 DEF EntriesKept
      <3>4. \A i \in DOMAIN toServer : RequestKnown(toServer[i])
        BY DEF IdsKnown
      <3>5. QED BY <1>1, <3>1, <3>2, <3>3, <3>4, RequestsStillKnown
    <2>5. QED BY <1>1, <1>3, <1>4, <2>2, <2>3, <2>4 DEF IdsKnown
  <1>7. QED BY <1>5, <1>6

LEMMA UnsubscribeKnown ==
  ASSUME Types, ConnackFirst, IdsKnown, NEW topix \in TopicSets, Unsubscribe(topix)
  PROVE  IdsKnown'
  <1>1. PICK r : r = [topix |-> topix, subscribes |-> FALSE, id |-> NoId, cb |-> NoCallback]
    OBVIOUS
  <1>2. /\ asked' = Append(asked, topix) /\ running /\ toServer' = Append(toServer, r)
        /\ UNCHANGED <<tree, queue, toClient, subs, session, subId, subsResources>>
    BY <1>1 DEF Unsubscribe, calls, server, client
  <1>3. /\ Len(asked) \in Nat /\ Len(asked') = Len(asked) + 1
        /\ \A i \in 1 .. Len(asked) : asked'[i] = asked[i]
    BY <1>2, Bounds, SeqAppend
  <1>4. Concerned' = Concerned
    BY <1>2 DEF Concerned, UnderWay, Queued
  <1>5. ~Begins(toClient) /\ ~Begins(tree.rest)
    BY <1>2 DEF ConnackFirst
  <1>6. ASSUME NEW s \in Concerned
        PROVE  s.session <= session' /\ s.cb <= Len(asked') /\ Known(s)'
    <2>1. s \in Subscription /\ s.cb \in Nat
      BY ConcernedType DEF Subscription
    <2>2. QED BY <1>2, <1>3, <2>1 DEF IdsKnown, Known
  <1>7. \A i \in DOMAIN toServer' : RequestKnown(toServer[i])'
    <2>1. r \in Request /\ RequestKnown(r)'
      BY <1>1, <1>3 DEF Request, RequestKnown, NoId, NoCallback
    <2>2. EntriesKept
      BY <1>2, <1>3 DEF EntriesKept
    <2>3. QED BY <1>2, <2>1, <2>2, RequestsStillKnown DEF IdsKnown
  <1>8. QED BY <1>2, <1>3, <1>4, <1>5, <1>6, <1>7 DEF IdsKnown

LEMMA ConnectKnown ==
  ASSUME Types, ConnackFirst, IdsKnown, NEW answer \in Answer, NEW props \in BOOLEAN,
         NEW ids \in BOOLEAN, Connect(answer, props, ids)
  PROVE  IdsKnown'
  <1>1. PICK p : p = Connack(written + 1, answer, props, ids)
    OBVIOUS
  <1>2. /\ ~up /\ tree.rest = <<>> /\ toClient' = Append(toClient, p)
        /\ subs' = IF answer = "CLEAN" THEN EmptyMap ELSE subs
        /\ session' = IF answer = "CLEAN" THEN session + 1 ELSE session
        /\ UNCHANGED <<subsResources, subId, tree, queue, toServer, asked>>
    BY <1>1 DEF Connect, calls, client, Write, Idle, NoTree
  <1>3. toClient = <<>> /\ toServer = <<>> /\ toClient' = <<p>> /\ Range(toClient') = {p}
    BY <1>2 DEF ConnackFirst, Range
  <1>4. p.type = "CONNACK" /\ p.answer = answer
    BY <1>1 DEF Connack
  <1>5. Concerned' \subseteq Concerned
    <2>1. \A f \in DOMAIN subs' : subs'[f] \in Concerned
      BY <1>2, EmptyMapType DEF Concerned
    <2>2. \A q \in UnderWay' : q \in UnderWay \/ q.type # "PUBLISH"
      BY <1>2, <1>3, <1>4 DEF UnderWay, Queued
    <2>3. QED BY <2>1, <2>2, ConcernedFewer
  <1>6. CASE answer # "CLEAN"
    <2>1. UNCHANGED <<subs, session>>
      BY <1>2, <1>6
    <2>2. \A s \in Concerned' : s.session <= session' /\ s.cb <= Len(asked') /\ Known(s)'
      BY <1>2, <1>5, <2>1 DEF IdsKnown, Known
    <2>3. \A q \in {toClient', tree'.rest} : Begins(q) => q[1].answer # "CLEAN"
      <3>1. toClient'[1] = p /\ ~Begins(tree'.rest)
        BY <1>2, <1>3 DEF Begins
      <3>2. QED BY <1>4, <1>6, <3>1
    <2>4. QED BY <1>2, <1>3, <2>1, <2>2, <2>3 DEF IdsKnown, RequestKnown
  <1>7. CASE answer = "CLEAN"
    <2>1. /\ session' = session + 1 /\ DOMAIN subs' = {} /\ session \in Nat
      BY <1>2, <1>7, EmptyMapType, Bounds
    <2>2. ASSUME NEW s \in Concerned'
          PROVE  s.session < session' /\ s.cb <= Len(asked') /\ Known(s)'
      <3>1. s \in Concerned /\ s.session \in Nat
        BY <1>5, <2>2, ConcernedType DEF Subscription
      <3>2. s.session <= session /\ s.cb <= Len(asked) /\ Known(s)
        BY <3>1 DEF IdsKnown
      <3>3. s.session < session' /\ s.session # session'
        BY <2>1, <3>1, <3>2
      <3>4. QED BY <1>2, <3>2, <3>3 DEF Known
    <2>3. \A s \in Concerned' : s.session <= session' /\ s.session # session'
      <3>1. ASSUME NEW s \in Concerned' PROVE s.session <= session' /\ s.session # session'
        <4>1. s.session \in Nat
          BY <1>5, ConcernedType DEF Subscription
        <4>2. QED BY <2>1, <2>2, <4>1
      <3>2. QED BY <3>1
    <2>4. QED BY <1>2, <1>3, <2>1, <2>2, <2>3 DEF IdsKnown, RequestKnown
  <1>8. QED BY <1>6, <1>7

LEMMA ServerReadsKnown ==
  ASSUME Types, ConnackFirst, IdsKnown, ServerReads PROVE IdsKnown'
  <1>1. PICK p : p = Head(toServer)
    OBVIOUS
  <1>2. PICK s : s = [id |-> p.id, cb |-> p.cb, topix |-> p.topix, session |-> session]
    OBVIOUS
  <1>3. PICK w : w = Other(IF p.subscribes THEN "SUBACK" ELSE "UNSUBACK", written + 1)
    OBVIOUS
  <1>4. /\ toServer # <<>> /\ written < MaxSent /\ toServer' = Tail(toServer)
        /\ subs' = IF p.subscribes
                   THEN [f \in DOMAIN subs \cup p.topix |-> IF f \in p.topix THEN s ELSE subs[f]]
                   ELSE Restrict(subs, DOMAIN subs \ p.topix)
        /\ Write(w)
        /\ UNCHANGED <<subsResources, subId, tree, queue, session, asked>>
    BY <1>1, <1>2, <1>3 DEF ServerReads, client, calls
  <1>5. w \in Packet /\ w.type \notin {"CONNACK", "PUBLISH"}
    BY <1>3, <1>4, NumberedNext, WrittenPacket DEF Other
  <1>6. /\ Range(toClient') = Range(toClient) \cup {w}
        /\ Begins(toClient') => Begins(toClient)
    BY <1>4, <1>5, WriteFirst
  <1>7. ~Begins(toClient') /\ ~Begins(tree'.rest)
    BY <1>4, <1>6 DEF ConnackFirst
  <1>8. /\ p \in Request /\ toServer[1] = p /\ 1 \in DOMAIN toServer
        /\ \A i \in DOMAIN toServer' : toServer'[i] = toServer[i + 1] /\ i + 1 \in DOMAIN toServer
    BY <1>1, <1>4, SeqTail DEF Types
  <1>9. \A f \in DOMAIN subs' : subs'[f] = s \/ (f \in DOMAIN subs /\ subs'[f] = subs[f])
    <2>1. CASE p.subscribes
      <3>1. subs' = [f \in DOMAIN subs \cup p.topix |-> IF f \in p.topix THEN s ELSE subs[f]]
        BY <1>4, <2>1
      <3>2. QED BY <3>1
    <2>2. CASE ~p.subscribes
      BY <1>4, <2>2 DEF Restrict
    <2>3. QED BY <2>1, <2>2
  <1>10. \A t \in Concerned' : t = s \/ t \in Concerned
    <2>1. \A q \in UnderWay' : q \in UnderWay \/ q.type # "PUBLISH"
      BY <1>4, <1>5, <1>6 DEF UnderWay, Queued
    <2>2. ASSUME NEW t \in Concerned'
          PROVE  \/ \E f \in DOMAIN subs' : t = subs'[f]
                 \/ \E q \in UnderWay : q.type = "PUBLISH" /\ t \in q.matched
      BY <2>1 DEF Concerned
    <2>3. QED BY <1>9, <2>2 DEF Concerned
  <1>11. s.session <= session' /\ s.cb <= Len(asked') /\ Known(s)'
    <2>1. session \in Nat /\ subId \in Nat /\ DOMAIN subsResources \subseteq 1 .. subId
      BY Bounds
    <2>2. RequestKnown(p)
      BY <1>8 DEF IdsKnown
    <2>3. /\ s.id = p.id /\ s.cb = p.cb /\ s.topix = p.topix /\ s.session = session
      BY <1>2
    <2>4. s.id # NoId => s.id <= subId
      BY <2>1, <2>2, <2>3 DEF RequestKnown
    <2>5. QED BY <1>4, <2>1, <2>2, <2>3, <2>4 DEF RequestKnown, Known
  <1>12. \A t \in Concerned' : t.session <= session' /\ t.cb <= Len(asked') /\ Known(t)'
    BY <1>4, <1>10, <1>11 DEF IdsKnown, Known
  <1>13. \A f \in DOMAIN subs' : subs'[f].session = session'
    <2>1. s.session = session
      BY <1>2
    <2>2. QED BY <1>4, <1>9, <2>1 DEF IdsKnown
  <1>14. \A i \in DOMAIN toServer' : RequestKnown(toServer[i])'
    BY <1>4, <1>8 DEF IdsKnown, RequestKnown
  <1>15. QED BY <1>4, <1>7, <1>12, <1>13, <1>14 DEF IdsKnown

LEMMA ServerWritesKnown ==
  ASSUME Types, ConnackFirst, IdsKnown, NEW p \in Packet, p.type # "CONNACK", Write(p),
         p.type = "PUBLISH" => p.matched \subseteq Concerned,
         UNCHANGED <<client, calls, subs, toServer, session, asked>>
  PROVE  IdsKnown'
  <1>1. /\ Range(toClient') = Range(toClient) \cup {p}
        /\ Begins(toClient') => Begins(toClient) /\ toClient'[1] = toClient[1]
    BY WriteFirst
  <1>2. UNCHANGED <<subsResources, subId, tree, queue, subs, toServer, session, asked>>
    BY DEF client, calls
  <1>3. Concerned' \subseteq Concerned
    <2>1. \A f \in DOMAIN subs' : subs'[f] \in Concerned
      BY <1>2 DEF Concerned
    <2>2. \A q \in UnderWay' : q \in UnderWay \/ q = p
      BY <1>1, <1>2 DEF UnderWay, Queued
    <2>3. QED BY <2>1, <2>2, ConcernedFewer
  <1>4. QED BY <1>1, <1>2, <1>3, StillKnown

LEMMA GoneKnown ==
  ASSUME Types, ConnackFirst, IdsKnown, Gone, UNCHANGED <<client, calls, server, session, asked>>
  PROVE  IdsKnown'
  <1>1. /\ toServer' = <<>> /\ toClient' = <<>>
        /\ UNCHANGED <<subsResources, subId, tree, queue, subs, session, asked>>
    BY DEF Gone, client, calls, server
  <1>2. Concerned' \subseteq Concerned
    <2>1. Range(toClient') = {}
      BY <1>1 DEF Range
    <2>2. \A q \in UnderWay' : q \in UnderWay
      BY <1>1, <2>1 DEF UnderWay, Queued
    <2>3. QED BY <1>1, <2>2, SameConcerned
  <1>3. ~Begins(toClient')
    BY <1>1 DEF Begins
  <1>4. QED BY <1>1, <1>2, <1>3, StillKnown

LEMMA ReceiveSegmentKnown ==
  ASSUME Types, ConnackFirst, IdsKnown, NEW n \in 1 .. MaxSent, ReceiveSegment(n) PROVE IdsKnown'
  <1>1. /\ n \in 1 .. Len(toClient) /\ tree' = [rest |-> SubSeq(toClient, 1, n), nested |-> 0]
        /\ toClient' = SubSeq(toClient, n + 1, Len(toClient))
        /\ UNCHANGED <<subsResources, subId, queue, subs, toServer, session, asked>>
    BY DEF ReceiveSegment, client, server
  <1>2. /\ Begins(tree'.rest) => Begins(toClient) /\ tree'.rest[1] = toClient[1]
        /\ ~Begins(toClient')
        /\ Range(tree'.rest) \subseteq Range(toClient) /\ Range(toClient') \subseteq Range(toClient)
    BY <1>1, SegmentFirst
  <1>3. Concerned' \subseteq Concerned
    <2>1. \A q \in UnderWay' : q \in UnderWay
      BY <1>1, <1>2 DEF UnderWay, Queued
    <2>2. QED BY <1>1, <2>1, SameConcerned
  <1>4. QED BY <1>1, <1>2, <1>3, StillKnown

LEMMA RunTailKnown ==
  ASSUME Types, ConnackFirst, IdsKnown, RunTail PROVE IdsKnown'
  <1>1. UNCHANGED <<subsResources, subId, subs, toServer, toClient, session, asked>>
    BY DEF RunTail, client, server
  <1>2. /\ tree'.rest \in Seq(Packet)
        /\ Range(tree'.rest) \subseteq Queued /\ Queued' \subseteq Queued
    BY RunTailRanges
  <1>3. ~Begins(tree'.rest)
    BY <1>2, NoConnack DEF ConnackFirst
  <1>4. Concerned' \subseteq Concerned
    <2>1. \A q \in UnderWay' : q \in UnderWay
      BY <1>1, <1>2 DEF UnderWay
    <2>2. QED BY <1>1, <2>1, SameConcerned
  <1>5. QED BY <1>1, <1>3, <1>4, StillKnown

LEMMA HandledFewer ==
  ASSUME Types, tree.rest # <<>>, Leaves, subs' = subs, toClient' = toClient \/ toClient' = <<>>
  PROVE  Concerned' \subseteq Concerned
  <1>1. /\ Range(tree'.rest) \subseteq Range(tree.rest)
        /\ Queued' \subseteq Queued \cup Range(tree.rest)
    BY RoundRanges, SeqTail DEF Types
  <1>2. Range(toClient') \subseteq Range(toClient)
    BY DEF Range
  <1>3. \A q \in UnderWay' : q \in UnderWay
    BY <1>1, <1>2 DEF UnderWay
  <1>4. QED BY <1>3, SameConcerned

LEMMA HandleKnown ==
  ASSUME Types, ConnackFirst, IdsKnown, Handle PROVE IdsKnown'
  <1>1. tree.rest # <<>> /\ Leaves /\ UNCHANGED <<subId, subs, session, asked>>
    BY HandleCases DEF server
  <1>2. \/ toClient' = toClient /\ toServer' = toServer
        \/ toClient' = <<>> /\ toServer' = <<>>
    BY HandleCases DEF Gone
  <1>3. Concerned' \subseteq Concerned
    BY <1>1, <1>2, HandledFewer
  <1>4. ~Begins(tree'.rest)
    BY <1>1, HandledNoConnack
  <1>5. Begins(toClient') => toClient' = toClient
    BY <1>2 DEF Begins
  <1>6. CASE subsResources' = subsResources
    BY <1>1, <1>2, <1>3, <1>4, <1>5, <1>6, StillKnown
  <1>7. CASE subsResources' # subsResources
    <2>1. /\ Handling("CONNACK") /\ Head(tree.rest).answer = "CLEAN" /\ subsResources' = EmptyMap
      BY <1>7, HandleCases
    <2>2. Begins(tree.rest) /\ tree.rest[1].answer = "CLEAN"
      BY <2>1, SeqTail DEF Handling, Begins, Types
    <2>3. /\ DOMAIN subs = {} /\ \A s \in Concerned : s.session # session
      BY <2>2 DEF IdsKnown
    <2>4. toServer = <<>> /\ ~Begins(toClient)
      BY <2>2 DEF ConnackFirst
    <2>5. DOMAIN subsResources' = {}
      BY <2>1, EmptyMapType
    <2>6. \A s \in Concerned' : s.session <= session' /\ s.cb <= Len(asked') /\ Known(s)'
      BY <1>1, <1>3, <2>3, <2>5 DEF IdsKnown, Known
    <2>7. toServer' = <<>> /\ ~Begins(toClient')
      BY <1>2, <2>4 DEF Begins
    <2>8. QED BY <1>1, <1>4, <2>3, <2>5, <2>6, <2>7 DEF IdsKnown
  <1>8. QED BY <1>6, <1>7

LEMMA InitKnown == Init => IdsKnown
  BY EmptyMapType DEF Init, IdsKnown, Concerned, UnderWay, Queued, Begins, NoTree, Range

LEMMA NextKnown == Types /\ ConnackFirst /\ IdsKnown /\ [Next]_vars => IdsKnown'
  <1> SUFFICES ASSUME Types, ConnackFirst, IdsKnown, [Next]_vars PROVE IdsKnown'
    OBVIOUS
  <1>1. CASE Application
    BY <1>1, SubscribeKnown, UnsubscribeKnown DEF Application
  <1>2. CASE Server
    <2>1. ASSUME NEW filters \in SUBSET DOMAIN subs, ServerPublishes(filters) PROVE IdsKnown'
      <3>1. PICK p : p = Publish(written + 1, {subs[f] : f \in filters})
        OBVIOUS
      <3>2. /\ p \in Packet /\ p.type = "PUBLISH" /\ p.matched = {subs[f] : f \in filters}
        BY <2>1, <3>1, PublishedPacket DEF ServerPublishes, Publish
      <3>3. p.matched \subseteq Concerned
        BY <3>2 DEF Concerned
      <3>4. Write(p) /\ UNCHANGED <<client, calls, subs, toServer, session, asked>>
        BY <2>1, <3>1 DEF ServerPublishes
      <3>5. QED BY <3>2, <3>3, <3>4, ServerWritesKnown
    <2>2. ASSUME NEW type \in BadTypes, ServerWritesBad(type) PROVE IdsKnown'
      <3>1. PICK p : p = Other(type, written + 1)
        OBVIOUS
      <3>2. p \in Packet /\ p.type \notin {"CONNACK", "PUBLISH"}
        BY <2>2, <3>1, NumberedNext, WrittenPacket DEF ServerWritesBad, Other, BadTypes
      <3>3. Write(p) /\ UNCHANGED <<client, calls, subs, toServer, session, asked>>
        BY <2>2, <3>1 DEF ServerWritesBad
      <3>4. QED BY <3>2, <3>3, ServerWritesKnown
    <2>3. CASE Lost
      BY <2>3, GoneKnown DEF Lost
    <2>4. QED BY <1>2, <2>1, <2>2, <2>3, ConnectKnown, ServerReadsKnown DEF Server
  <1>3. CASE \E n \in 1 .. MaxSent : SegmentTooLarge(n) \/ ReceiveSegment(n)
    BY <1>3, GoneKnown, ReceiveSegmentKnown DEF SegmentTooLarge
  <1>4. CASE UNCHANGED vars
    <2>1. UNCHANGED <<subsResources, subId, asked, session, subs, toServer, toClient, tree, queue>>
      BY <1>4 DEF vars, client, calls, server
    <2>2. \A q \in UnderWay' : q \in UnderWay
      BY <2>1 DEF UnderWay, Queued
    <2>3. Concerned' \subseteq Concerned
      BY <2>1, <2>2, SameConcerned
    <2>4. QED BY <2>1, <2>3, StillKnown
  <1>5. QED BY <1>1, <1>2, <1>3, <1>4, RunTailKnown, HandleKnown DEF Next

(* The invariants of packets and identifiers. *)
IInv == Types /\ ConnackFirst /\ IdsKnown

LEMMA Invariant == Spec => []IInv
  <1>1. Init => IInv
    BY InitTypes, InitFirst, InitKnown DEF IInv
  <1>2. IInv /\ [Next]_vars => IInv'
    BY NextTypes, NextFirst, NextKnown DEF IInv
  <1>3. QED BY <1>1, <1>2, PTL DEF Spec

(* The client knows every identifier that a subscription of its session has, at
   the server or on its way there. *)
THEOREM ServerIdsAlwaysKnown == Spec => []ServerIdsKnown
  <1>1. IInv => ServerIdsKnown
    <2> SUFFICES ASSUME IInv PROVE ServerIdsKnown
      OBVIOUS
    <2>1. ASSUME NEW f \in DOMAIN subs, subs[f].id # NoId
          PROVE  subs[f].id \in DOMAIN subsResources
      <3>1. subs[f] \in Concerned
        BY DEF Concerned
      <3>2. QED BY <2>1, <3>1 DEF IInv, IdsKnown, Known
    <2>2. QED BY <2>1 DEF ServerIdsKnown, IInv, IdsKnown, RequestKnown
  <1>2. QED BY <1>1, Invariant, PTL

-----------------------------------------------------------------------------
(* Callbacks. *)

(* What RightCallback says of one packet, and that its callbacks were given. *)
RightlyHandled(h) ==
  LET callbacks == h.got \ {General}
  IN /\ h.matched # {} => h.got # {}
     /\ \A cb \in callbacks : \E s \in h.matched :
          /\ s.id # NoId
          /\ asked[cb] = s.topix /\ cb >= s.cb
     /\ \A s \in h.matched : s.id # NoId /\ s.session = h.session =>
          \E cb \in callbacks : asked[cb] = s.topix

Answered ==
  \A i \in DOMAIN handled :
    RightlyHandled(handled[i]) /\ handled[i].got \ {General} \subseteq 1 .. Len(asked)

LEMMA AnsweredSame ==
  ASSUME Types, Answered, handled' = handled,
         asked' = asked \/ \E topix \in TopicSets : asked' = Append(asked, topix)
  PROVE  Answered'
  <1>1. Len(asked') \in Nat /\ Len(asked) \in Nat /\ Len(asked) <= Len(asked')
        /\ \A cb \in 1 .. Len(asked) : asked'[cb] = asked[cb]
    BY Bounds, SeqAppend
  <1>2. ASSUME NEW i \in DOMAIN handled
        PROVE  (\A h \in {handled[i]} : RightlyHandled(h)')
               /\ handled[i].got \ {General} \subseteq 1 .. Len(asked')
    <2>1. RightlyHandled(handled[i]) /\ handled[i].got \ {General} \subseteq 1 .. Len(asked)
      BY DEF Answered
    <2>2. \A cb \in handled[i].got \ {General} : asked'[cb] = asked[cb]
      BY <1>1, <2>1
    <2>3. QED BY <1>1, <2>1, <2>2 DEF RightlyHandled
  <1>3. QED BY <1>2 DEF Answered, RightlyHandled

LEMMA AnsweredNext ==
  ASSUME Types, Answered, asked' = asked, tree.rest # <<>>,
         NEW matched \in SUBSET Subscription, NEW got \in SUBSET Nat, Record(matched, got),
         \A h : h.matched = matched /\ h.got = got /\ h.session = session =>
           RightlyHandled(h) /\ h.got \ {General} \subseteq 1 .. Len(asked)
  PROVE  Answered'
  <1>1. PICK h : h = [n |-> Head(tree.rest).n, matched |-> matched, got |-> got, session |-> session,
                     returns |-> Returns(Head(tree.rest))]
    OBVIOUS
  <1>2. h \in HandledPacket
    <2>1. Head(tree.rest) \in Packet
      BY SeqTail DEF Types
    <2>2. QED BY <1>1, <2>1, Bounds, PacketFields, ReturnsType DEF HandledPacket
  <1>3. handled' = Append(handled, h) /\ handled \in Seq(HandledPacket)
    BY <1>1 DEF Record, Types
  <1>4. RightlyHandled(h) /\ h.got \ {General} \subseteq 1 .. Len(asked)
    BY <1>1
  <1>5. \A i \in DOMAIN handled' : (i \in DOMAIN handled /\ handled'[i] = handled[i]) \/ handled'[i] = h
    BY <1>2, <1>3, SeqAppend
  <1>6. QED BY <1>4, <1>5 DEF Answered, RightlyHandled

LEMMA DispatchedRight ==
  ASSUME IInv, HandlePublish, Answered PROVE Answered'
  <1>1. PICK matched : matched = Head(tree.rest).matched
    OBVIOUS
  <1>2. PICK ids : ids = {s.id : s \in matched} \ {NoId}
    OBVIOUS
  <1>3. PICK got : got = Called(ids)
    OBVIOUS
  <1>4. /\ tree.rest # <<>> /\ Head(tree.rest).type = "PUBLISH"
        /\ Record(matched, got) /\ asked' = asked
    BY <1>1, <1>2, <1>3 DEF HandlePublish, Handling
  <1>5. Head(tree.rest) \in Packet /\ Head(tree.rest) \in UnderWay
    BY <1>4, SeqTail DEF IInv, Types, UnderWay
  <1>6. matched \in SUBSET Subscription /\ got \in SUBSET Nat
    BY <1>1, <1>3, <1>4, <1>5, PacketFields, CalledType DEF IInv
  <1>7. matched \subseteq Concerned
    BY <1>1, <1>4, <1>5 DEF Concerned
  <1>8. /\ \A s \in matched : Known(s)
        /\ \A id \in DOMAIN subsResources : /\ subsResources[id].cb \in 1 .. Len(asked)
                                            /\ asked[subsResources[id].cb] = subsResources[id].topix
    BY <1>7 DEF IInv, IdsKnown
  <1>9. got # {}
    BY <1>3 DEF Called
  <1>10. ASSUME NEW cb \in got \ {General}
         PROVE  \E s \in matched : /\ s.id # NoId /\ s.id \in DOMAIN subsResources
                                   /\ cb = subsResources[s.id].cb
    <2>1. PICK id \in ids \cap DOMAIN subsResources : cb = subsResources[id].cb
      BY <1>3, <1>10 DEF Called
    <2>2. QED BY <1>2, <2>1
  <1>11. \A cb \in got \ {General} : cb \in 1 .. Len(asked)
    BY <1>8, <1>10
  <1>12. ASSUME NEW cb \in got \ {General}
         PROVE  \E s \in matched : s.id # NoId /\ asked[cb] = s.topix /\ cb >= s.cb
    <2>1. PICK s \in matched : /\ s.id # NoId /\ s.id \in DOMAIN subsResources
                               /\ cb = subsResources[s.id].cb
      BY <1>10
    <2>2. asked[cb] = s.topix /\ s.cb <= cb
      BY <1>8, <2>1 DEF Known
    <2>3. s.cb \in Nat /\ cb \in Nat
      BY <1>6, <1>12 DEF Subscription
    <2>4. QED BY <2>1, <2>2, <2>3
  <1>13. ASSUME NEW s \in matched, s.id # NoId, s.session = session
         PROVE  \E cb \in got \ {General} : asked[cb] = s.topix
    <2>1. s.id \in DOMAIN subsResources /\ subsResources[s.id].topix = s.topix
      BY <1>8, <1>13 DEF Known
    <2>2. s.id \in ids \cap DOMAIN subsResources
      BY <1>2, <1>13, <2>1
    <2>3. subsResources[s.id].cb \in got
      BY <1>3, <2>2 DEF Called
    <2>4. subsResources[s.id].cb # General
      BY <1>8, <2>1 DEF General
    <2>5. QED BY <1>8, <2>1, <2>3, <2>4
  <1>14. \A h : h.matched = matched /\ h.got = got /\ h.session = session =>
           RightlyHandled(h) /\ h.got \ {General} \subseteq 1 .. Len(asked)
    BY <1>9, <1>11, <1>12, <1>13 DEF RightlyHandled
  <1>15. QED BY <1>4, <1>6, <1>14, AnsweredNext DEF IInv

LEMMA NextAnswered == IInv /\ Answered /\ [Next]_vars => Answered'
  <1> SUFFICES ASSUME IInv, Answered, [Next]_vars PROVE Answered'
    OBVIOUS
  <1>1. CASE Application
    BY <1>1, AnsweredSame DEF Application, Subscribe, Unsubscribe, calls, IInv
  <1>2. CASE Server \/ RunTail \/ \E n \in 1 .. MaxSent : SegmentTooLarge(n) \/ ReceiveSegment(n)
    <2>1. handled' = handled /\ asked' = asked
      BY <1>2 DEF Server, Connect, Lost, ServerReads, ServerPublishes, ServerWritesBad, RunTail,
        SegmentTooLarge, ReceiveSegment, calls
    <2>2. QED BY <2>1, AnsweredSame DEF IInv
  <1>3. CASE UNCHANGED vars
    <2>1. handled' = handled /\ asked' = asked
      BY <1>3 DEF vars, calls
    <2>2. QED BY <2>1, AnsweredSame DEF IInv
  <1>4. CASE Handle /\ Record({}, {})
    <2>1. tree.rest # <<>> /\ Record({}, {}) /\ asked' = asked
      BY <1>4, HandleCases DEF IInv
    <2>2. \A h : h.matched = {} /\ h.got = {} /\ h.session = session =>
            RightlyHandled(h) /\ h.got \ {General} \subseteq 1 .. Len(asked)
      BY DEF RightlyHandled
    <2>3. QED BY <2>1, <2>2, AnsweredNext DEF IInv
  <1>5. QED BY <1>1, <1>2, <1>3, <1>4, DispatchedRight, HandleCases DEF Next, IInv

(* A message reaches the last callback given for each subscription of this
   session it was sent for, and no callback of other topics. *)
THEOREM CallbackAlwaysRight == Spec => []RightCallback
  <1>1. Init => Answered
    BY DEF Init, Answered
  <1>2. Answered => RightCallback
    BY DEF Answered, RightCallback, RightlyHandled
  <1>3. QED BY <1>1, <1>2, Invariant, NextAnswered, PTL DEF Spec

-----------------------------------------------------------------------------
(* Packets that wait. *)

LEMMA ArrivedType ==
  Types /\ WaitInTurn => /\ Arrived \in Nat /\ written \in Nat /\ Len(toClient) \in Nat
                         /\ DOMAIN toClient = 1 .. Len(toClient) /\ MaxNested \in Nat
  <1> SUFFICES ASSUME Types, WaitInTurn
               PROVE  ArrivedType!2
    OBVIOUS
  <1>1. written \in 0 .. MaxSent /\ MaxSent \in Nat /\ MaxNested \in Nat
    BY Bounds, ReceiveAssumption
  <1>2. DOMAIN toClient = 1 .. Len(toClient) /\ Len(toClient) \in Nat
    BY SeqElements DEF Types
  <1>3. Len(toClient) <= written
    BY DEF WaitInTurn
  <1>4. QED BY <1>1, <1>2, <1>3 DEF Arrived

LEMMA HistoryType ==
  ASSUME Types
  PROVE  /\ \A i \in DOMAIN handled : handled[i].n \in Nat
         /\ \A k \in DOMAIN segments : segments[k].first \in Nat /\ segments[k].last \in Nat
  <1>1. \A i \in DOMAIN handled : handled[i] \in HandledPacket
    BY DEF Types
  <1>2. \A k \in DOMAIN segments : segments[k] \in [first : Nat, last : Nat]
    <2>1. segments \in Seq([first : Nat, last : Nat])
      BY DEF Types
    <2>2. Range(segments) \subseteq [first : Nat, last : Nat]
      BY <2>1, SeqElements
    <2>3. QED BY <2>2 DEF Range
  <1>3. QED BY <1>1, <1>2 DEF HandledPacket

(* Nothing is handled or received. *)
LEMMA WaitStays ==
  ASSUME Types, WaitInTurn, Arrived <= Arrived', Arrived' \in Nat,
         Len(toClient') <= written',
         \A i \in DOMAIN toClient' : toClient'[i].n = Arrived' + i,
         UNCHANGED calls
  PROVE  WaitInTurn'
  <1>1. UNCHANGED <<tree, queue, segments, handled>>
    BY DEF calls
  <1>2. /\ \A k \in DOMAIN segments : segments[k].last \in Nat
        /\ \A i \in DOMAIN handled : handled[i].n \in Nat
    BY HistoryType
  <1>3. \A p \in Range(tree.rest) \cup Queued : p.n \in Nat
    <2>1. \A i \in DOMAIN queue : Range(queue[i]) \subseteq Packet
      BY SeqElements DEF Types
    <2>2. Range(tree.rest) \cup Queued \subseteq Packet
      BY <2>1, SeqElements DEF Types, Queued
    <2>3. QED BY <2>2, PacketFields
  <1>4. Arrived \in Nat
    BY ArrivedType
  <1>5. /\ \A k \in DOMAIN segments : segments[k].last <= Arrived'
        /\ \A i \in DOMAIN handled : handled[i].n <= Arrived'
        /\ \A p \in Range(tree.rest) \cup Queued : p.n <= Arrived'
    BY <1>2, <1>3, <1>4 DEF WaitInTurn
  <1>6. Queued' = Queued
    BY <1>1 DEF Queued
  <1>7. \A n : MayWait(n)' <=> MayWait(n)
    BY <1>1 DEF MayWait, Segment
  <1>8. InOrder' <=> InOrder
    BY <1>1 DEF InOrder, Segment
  <1>9. OnlyRestsOvertaken'
    BY <1>1 DEF WaitInTurn, OnlyRestsOvertaken, Segment
  <1>10. QED BY <1>1, <1>5, <1>6, <1>7, <1>8, <1>9 DEF WaitInTurn

LEMMA WriteWaits ==
  ASSUME Types, WaitInTurn, written < MaxSent, NEW p \in Packet, p.n = written + 1, Write(p),
         UNCHANGED calls
  PROVE  WaitInTurn'
  <1>1. /\ Arrived \in Nat /\ written \in Nat /\ Len(toClient) \in Nat
        /\ DOMAIN toClient = 1 .. Len(toClient) /\ Len(toClient) <= written
    BY ArrivedType DEF WaitInTurn
  <1>2. /\ written' = written + 1 /\ Len(toClient') = Len(toClient) + 1
        /\ DOMAIN toClient' = 1 .. Len(toClient) + 1
        /\ \A i \in DOMAIN toClient : toClient'[i] = toClient[i]
        /\ toClient'[Len(toClient) + 1] = p
    BY SeqAppend DEF Write, Types
  <1>3. Arrived' = Arrived
    BY <1>1, <1>2 DEF Arrived
  <1>4. ASSUME NEW i \in DOMAIN toClient' PROVE toClient'[i].n = Arrived' + i
    <2>1. CASE i \in DOMAIN toClient
      BY <1>2, <1>3, <2>1 DEF WaitInTurn
    <2>2. CASE i = Len(toClient) + 1
      BY <1>1, <1>2, <1>3, <2>2 DEF Arrived
    <2>3. QED BY <1>1, <1>2, <1>4, <2>1, <2>2
  <1>5. QED BY <1>1, <1>2, <1>3, <1>4, WaitStays

LEMMA GoneWaits ==
  ASSUME Types, WaitInTurn, Gone, UNCHANGED <<calls, written>> PROVE WaitInTurn'
  <1>1. /\ Arrived \in Nat /\ written \in Nat /\ Len(toClient) \in Nat
    BY ArrivedType
  <1>2. toClient' = <<>> /\ written' = written
    BY DEF Gone
  <1>3. Len(toClient') = 0 /\ DOMAIN toClient' = {}
    BY <1>2
  <1>4. Arrived' = written
    BY <1>1, <1>2, <1>3 DEF Arrived
  <1>5. Arrived <= Arrived' /\ Arrived' \in Nat /\ Len(toClient') <= written'
    BY <1>1, <1>2, <1>3, <1>4 DEF Arrived
  <1>6. QED BY <1>3, <1>5, WaitStays

(* A segment, its packets and their numbers. *)
LEMMA SegmentReceived ==
  ASSUME Types, WaitInTurn, NEW n \in 1 .. MaxSent, ReceiveSegment(n)
  PROVE  /\ n \in Nat /\ n > 0 /\ Arrived \in Nat /\ Arrived' = Arrived + n
         /\ tree.rest = <<>> /\ tree'.nested = 0 /\ DOMAIN tree'.rest = 1 .. n
         /\ \A j \in DOMAIN tree'.rest :
              /\ tree'.rest[j] = toClient[j] /\ j \in DOMAIN toClient
              /\ tree'.rest[j].n = Arrived + j /\ tree'.rest[j].n <= Arrived'
         /\ \A i \in DOMAIN toClient' : toClient'[i].n = Arrived' + i
         /\ Len(toClient') <= written'
         /\ DOMAIN segments = 1 .. Len(segments) /\ Len(segments) \in Nat
         /\ DOMAIN segments' = 1 .. Len(segments) + 1
         /\ \A k \in DOMAIN segments : segments'[k] = segments[k] /\ k \in DOMAIN segments'
         /\ segments'[Len(segments) + 1].first = Arrived + 1
         /\ segments'[Len(segments) + 1].last = Arrived + n
         /\ UNCHANGED <<queue, handled, written>>
  <1>1. /\ n \in 1 .. Len(toClient) /\ tree' = [rest |-> SubSeq(toClient, 1, n), nested |-> 0]
        /\ toClient' = SubSeq(toClient, n + 1, Len(toClient)) /\ tree.rest = <<>>
        /\ segments' = Append(segments, [first |-> toClient[1].n, last |-> toClient[n].n])
        /\ UNCHANGED <<queue, handled, written>>
    BY DEF ReceiveSegment, server, Idle, NoTree
  <1>2. /\ Arrived \in Nat /\ written \in Nat /\ Len(toClient) \in Nat /\ MaxNested \in Nat
        /\ DOMAIN toClient = 1 .. Len(toClient) /\ Len(toClient) <= written
        /\ \A i \in DOMAIN toClient : toClient[i].n = Arrived + i
    BY ArrivedType DEF WaitInTurn
  <1>3. /\ DOMAIN tree'.rest = 1 .. n /\ tree'.nested = 0
        /\ \A i \in DOMAIN tree'.rest : tree'.rest[i] = toClient[i] /\ i \in DOMAIN toClient
        /\ Len(toClient') = Len(toClient) - n /\ DOMAIN toClient' = 1 .. Len(toClient) - n
        /\ \A i \in DOMAIN toClient' : toClient'[i] = toClient[i + n] /\ i + n \in DOMAIN toClient
    <2>1. toClient \in Seq(Packet)
      BY DEF Types
    <2>2. PICK front : front = SubSeq(toClient, 1, n)
      OBVIOUS
    <2>3. PICK back : back = SubSeq(toClient, n + 1, Len(toClient))
      OBVIOUS
    <2>4. tree'.rest = front /\ tree'.nested = 0 /\ toClient' = back
      BY <1>1, <2>2, <2>3
    <2>5. n \in 1 .. Len(toClient)
      BY <1>1
    <2>6. /\ DOMAIN front = 1 .. n
          /\ \A i \in DOMAIN front : front[i] = toClient[i] /\ i \in DOMAIN toClient
      BY <2>1, <2>2, <2>5, Cut
    <2>7. /\ Len(back) = Len(toClient) - n /\ DOMAIN back = 1 .. Len(toClient) - n
          /\ \A i \in DOMAIN back : back[i] = toClient[i + n] /\ i + n \in DOMAIN toClient
      BY <2>1, <2>3, <2>5, Cut
    <2>8. QED BY <2>4, <2>6, <2>7
  <1>4. Arrived' = Arrived + n /\ n \in Nat /\ n > 0
    <2>1. written' = written /\ n \in Nat /\ n > 0
      BY <1>1
    <2>2. QED BY <1>2, <1>3, <2>1 DEF Arrived
  <1>5. \A i \in DOMAIN toClient' : toClient'[i].n = Arrived' + i
    BY <1>2, <1>3, <1>4
  <1>6. PICK s : s = [first |-> toClient[1].n, last |-> toClient[n].n]
    OBVIOUS
  <1>7. s.first = Arrived + 1 /\ s.last = Arrived + n /\ s \in [first : Nat, last : Nat]
    <2>1. 1 \in DOMAIN toClient /\ n \in DOMAIN toClient
      BY <1>1, <1>2
    <2>2. toClient[1].n = Arrived + 1 /\ toClient[n].n = Arrived + n
      BY <1>2, <2>1
    <2>3. QED BY <1>2, <1>6, <2>2
  <1>8. /\ DOMAIN segments = 1 .. Len(segments) /\ Len(segments) \in Nat
        /\ DOMAIN segments' = 1 .. Len(segments) + 1
        /\ \A k \in DOMAIN segments : segments'[k] = segments[k] /\ k \in DOMAIN segments'
        /\ segments'[Len(segments) + 1] = s
    <2>1. segments' = Append(segments, s) /\ segments \in Seq([first : Nat, last : Nat])
      BY <1>1, <1>6 DEF Types
    <2>2. QED BY <1>7, <2>1, SeqAppend
  <1>9. \A j \in DOMAIN tree'.rest : tree'.rest[j].n = Arrived + j /\ tree'.rest[j].n <= Arrived'
    BY <1>2, <1>3, <1>4
  <1>10. Len(toClient') <= written'
    <2>1. written' = written
      BY <1>1
    <2>2. QED BY <1>2, <1>3, <1>4, <2>1
  <1>11. QED BY <1>1, <1>2, <1>3, <1>4, <1>5, <1>7, <1>8, <1>9, <1>10

LEMMA SegmentWaits ==
  ASSUME Types, WaitInTurn, NEW n \in 1 .. MaxSent, ReceiveSegment(n) PROVE WaitInTurn'
  <1>1. /\ n \in Nat /\ n > 0 /\ Arrived \in Nat /\ Arrived' = Arrived + n
        /\ UNCHANGED <<queue, handled, written>>
    BY SegmentReceived
  <1>2. /\ tree'.nested = 0 /\ DOMAIN tree'.rest = 1 .. n
        /\ \A j \in DOMAIN tree'.rest : tree'.rest[j].n = Arrived + j /\ tree'.rest[j].n <= Arrived'
    BY SegmentReceived
  <1>3. \A i \in DOMAIN toClient' : toClient'[i].n = Arrived' + i
    BY SegmentReceived
  <1>4. Len(toClient') <= written'
    BY SegmentReceived
  <1>5. /\ DOMAIN segments = 1 .. Len(segments) /\ Len(segments) \in Nat
        /\ DOMAIN segments' = 1 .. Len(segments) + 1
        /\ \A k \in DOMAIN segments : segments'[k] = segments[k] /\ k \in DOMAIN segments'
        /\ segments'[Len(segments) + 1].first = Arrived + 1
        /\ segments'[Len(segments) + 1].last = Arrived + n
    BY SegmentReceived
  <1>6. \A m : MayWait(m) => MayWait(m)'
    BY <1>5 DEF MayWait, Segment
  <1>7. InOrder'
    <2>1. Len(segments) + 1 \in DOMAIN segments'
      BY <1>5
    <2>2. \A j \in DOMAIN tree'.rest :
            /\ tree'.rest[j].n = segments'[Len(segments) + 1].first + tree'.nested + j - 1
            /\ tree'.rest[j].n \in segments'[Len(segments) + 1].first .. segments'[Len(segments) + 1].last
      <3>1. ASSUME NEW j \in DOMAIN tree'.rest
            PROVE  /\ tree'.rest[j].n = Arrived + 1 + 0 + j - 1
                   /\ tree'.rest[j].n \in Arrived + 1 .. Arrived + n
        <4>1. j \in 1 .. n /\ tree'.rest[j].n = Arrived + j
          BY <1>2
        <4>2. QED BY <1>1, <4>1
      <3>2. QED BY <1>2, <1>5, <3>1
    <2>3. \A i \in DOMAIN handled, j \in DOMAIN tree'.rest : handled[i].n < tree'.rest[j].n
      <3>1. \A i \in DOMAIN handled : handled[i].n <= Arrived /\ handled[i].n \in Nat
        BY HistoryType DEF WaitInTurn
      <3>2. QED BY <1>1, <1>2, <3>1
    <2>4. QED BY <1>1, <2>1, <2>2, <2>3 DEF InOrder, Segment
  <1>8. \A k \in DOMAIN segments' : segments'[k].last <= Arrived'
    <2>1. \A k \in DOMAIN segments' : k \in DOMAIN segments \/ k = Len(segments) + 1
      BY <1>5
    <2>2. \A k \in DOMAIN segments : segments[k].last <= Arrived /\ segments[k].last \in Nat
      BY HistoryType DEF WaitInTurn
    <2>3. QED BY <1>1, <1>5, <2>1, <2>2
  <1>9. \A i \in DOMAIN handled' : handled'[i].n <= Arrived'
    <2>1. \A i \in DOMAIN handled : handled[i].n <= Arrived /\ handled[i].n \in Nat
      BY HistoryType DEF WaitInTurn
    <2>2. QED BY <1>1, <2>1
  <1>10. Queued' = Queued /\ \A p \in Queued : p.n <= Arrived /\ p.n \in Nat /\ MayWait(p.n)
    <2>1. \A i \in DOMAIN queue : Range(queue[i]) \subseteq Packet
      BY SeqElements DEF Types
    <2>2. Queued \subseteq Packet
      BY <2>1 DEF Queued
    <2>3. Queued' = Queued
      BY <1>1 DEF Queued
    <2>4. \A p \in Queued : p.n \in Nat
      BY <2>2, PacketFields
    <2>5. \A p \in Queued : p.n <= Arrived /\ MayWait(p.n)
      BY DEF WaitInTurn
    <2>6. QED BY <2>3, <2>4, <2>5
  <1>11. \A p \in Range(tree'.rest) \cup Queued' : p.n <= Arrived'
    BY <1>1, <1>2, <1>10 DEF Range
  <1>12. OnlyRestsOvertaken'
    <2>1. \A i, j \in DOMAIN handled : i < j /\ handled[j].n < handled[i].n => MayWait(handled[j].n)
      BY DEF WaitInTurn, OnlyRestsOvertaken, MayWait
    <2>2. \A i, j \in DOMAIN handled : i < j /\ handled[j].n < handled[i].n => MayWait(handled[j].n)'
      BY <1>1, <1>6, <2>1
    <2>3. handled' = handled
      BY <1>1
    <2>4. QED BY <2>2, <2>3 DEF OnlyRestsOvertaken, MayWait
  <1>13. QED BY <1>3, <1>4, <1>6, <1>7, <1>8, <1>9, <1>10, <1>11, <1>12 DEF WaitInTurn

LEMMA RunTailWaits ==
  ASSUME Types, WaitInTurn, RunTail PROVE WaitInTurn'
  <1>1. /\ Range(tree'.rest) \subseteq Queued /\ Queued' \subseteq Queued
    BY RunTailRanges
  <1>2. UNCHANGED <<segments, handled, toClient, written>>
    BY DEF RunTail, server
  <1>3. Arrived' = Arrived
    BY <1>2 DEF Arrived
  <1>4. \A m : MayWait(m)' <=> MayWait(m)
    BY <1>2 DEF MayWait, Segment
  <1>5. OnlyRestsOvertaken'
    BY <1>2 DEF WaitInTurn, OnlyRestsOvertaken, Segment
  <1>6. QED BY <1>1, <1>2, <1>3, <1>4, <1>5 DEF WaitInTurn

LEMMA HandleWaits ==
  ASSUME Types, WaitInTurn, tree.rest # <<>>, Leaves,
         NEW matched \in SUBSET Subscription, NEW got \in SUBSET Nat, Record(matched, got),
         UNCHANGED <<segments, written>>,
         toClient' = toClient \/ toClient' = <<>>
  PROVE  WaitInTurn'
  <1>1. /\ Arrived \in Nat /\ written \in Nat /\ Len(toClient) \in Nat /\ MaxNested \in Nat
        /\ Len(toClient) <= written
    BY ArrivedType DEF WaitInTurn
  <1>2. /\ Arrived' \in Nat /\ Arrived <= Arrived' /\ Len(toClient') <= written'
        /\ \A i \in DOMAIN toClient' : toClient'[i].n = Arrived' + i
    <2>1. CASE toClient' = toClient
      BY <1>1, <2>1 DEF WaitInTurn, Arrived
    <2>2. CASE toClient' = <<>>
      <3>1. Len(toClient') = 0 /\ DOMAIN toClient' = {} /\ written' = written
        BY <2>2
      <3>2. QED BY <1>1, <3>1 DEF Arrived
    <2>3. QED BY <2>1, <2>2
  <1>3. PICK first : first = tree.rest[1]
    OBVIOUS
  <1>4. PICK h : h = [n |-> first.n, matched |-> matched, got |-> got, session |-> session,
                     returns |-> Returns(first)]
    OBVIOUS
  <1>5. /\ first = Head(tree.rest) /\ first \in Packet /\ first \in Range(tree.rest)
        /\ Len(tree.rest) \in Nat /\ Len(tree.rest) > 0 /\ DOMAIN tree.rest = 1 .. Len(tree.rest)
        /\ DOMAIN Tail(tree.rest) = 1 .. Len(tree.rest) - 1
        /\ \A i \in DOMAIN Tail(tree.rest) :
             Tail(tree.rest)[i] = tree.rest[i + 1] /\ i + 1 \in DOMAIN tree.rest
        /\ Range(Tail(tree.rest)) \subseteq Range(tree.rest)
    BY <1>3, SeqTail DEF Types
  <1>6. h \in HandledPacket /\ h.n = first.n /\ first.n \in Nat
    <2>1. session \in Nat
      BY Bounds
    <2>2. first.n \in 1 .. MaxSent /\ first.n \in Nat
      BY <1>5, PacketFields
    <2>3. QED BY <1>4, <2>1, <2>2, ReturnsType DEF HandledPacket
  <1>7. /\ DOMAIN handled = 1 .. Len(handled) /\ Len(handled) \in Nat
        /\ DOMAIN handled' = 1 .. Len(handled) + 1
        /\ \A i \in DOMAIN handled : handled'[i] = handled[i]
        /\ handled'[Len(handled) + 1] = h
    <2>1. handled' = Append(handled, h) /\ handled \in Seq(HandledPacket)
      BY <1>4, <1>5 DEF Record, Types
    <2>2. QED BY <1>6, <2>1, SeqAppend
  <1>8. \A i \in DOMAIN handled' : i \in DOMAIN handled \/ i = Len(handled) + 1
    BY <1>7
  <1>9. /\ \A i \in DOMAIN handled : handled[i].n \in Nat /\ handled[i].n <= Arrived
        /\ \A k \in DOMAIN segments : segments[k].first \in Nat /\ segments[k].last \in Nat
                                      /\ segments[k].last <= Arrived
    BY HistoryType DEF WaitInTurn
  <1>10. \A m : MayWait(m)' <=> MayWait(m)
    BY DEF MayWait, Segment
  <1>11. /\ Range(tree'.rest) \subseteq Range(Tail(tree.rest))
         /\ Queued' \subseteq Queued \cup Range(Tail(tree.rest))
    BY RoundRanges
  <1>12. \A p \in Range(tree.rest) \cup Queued : p.n \in Nat /\ p.n <= Arrived
    <2>1. \A i \in DOMAIN queue : Range(queue[i]) \subseteq Packet
      BY SeqElements DEF Types
    <2>2. Range(tree.rest) \cup Queued \subseteq Packet
      BY <2>1, SeqElements DEF Types, Queued
    <2>3. QED BY <2>2, PacketFields DEF WaitInTurn
  <1>13. \A p \in Range(tree'.rest) \cup Queued' : p.n <= Arrived'
    BY <1>1, <1>2, <1>5, <1>11, <1>12
  <1>14. \A k \in DOMAIN segments' : segments'[k].last <= Arrived'
    BY <1>1, <1>2, <1>9
  <1>15. \A i \in DOMAIN handled' : handled'[i].n <= Arrived'
    <2>1. first.n <= Arrived
      BY <1>5, <1>12
    <2>2. \A i \in DOMAIN handled : handled'[i].n \in Nat /\ handled'[i].n <= Arrived
      BY <1>7, <1>9
    <2>3. ASSUME NEW i \in DOMAIN handled' PROVE handled'[i].n \in Nat /\ handled'[i].n <= Arrived
      BY <1>6, <1>7, <1>8, <2>1, <2>2
    <2>4. QED BY <1>1, <1>2, <2>3
  <1>16. MayWait(first.n) \/ \A i \in DOMAIN handled : handled[i].n < first.n
    BY <1>3, <1>5 DEF WaitInTurn, InOrder
  <1>17. OnlyRestsOvertaken'
    <2>1. \A i, j \in DOMAIN handled : i < j /\ handled[j].n < handled[i].n => MayWait(handled[j].n)
      BY DEF WaitInTurn, OnlyRestsOvertaken, MayWait
    <2>2. ASSUME NEW i \in DOMAIN handled', NEW j \in DOMAIN handled', i < j,
                 handled'[j].n < handled'[i].n
          PROVE  MayWait(handled'[j].n)
      <3>1. i \in DOMAIN handled
        BY <1>7, <2>2
      <3>2. CASE j \in DOMAIN handled
        BY <1>7, <2>1, <2>2, <3>1, <3>2
      <3>3. CASE j = Len(handled) + 1
        <4>1. handled[i].n \in Nat /\ handled'[i].n = handled[i].n /\ handled'[j].n = first.n
          BY <1>6, <1>7, <1>9, <3>1, <3>3
        <4>2. ~(handled[i].n < first.n)
          BY <1>6, <2>2, <4>1
        <4>3. QED BY <1>16, <3>1, <4>1, <4>2
      <3>4. QED BY <1>8, <2>2, <3>2, <3>3
    <2>3. QED BY <2>2 DEF OnlyRestsOvertaken, MayWait, Segment
  <1>18. /\ \A p \in Queued' : MayWait(p.n)
         /\ InOrder' \/ \A p \in Range(tree'.rest) : MayWait(p.n)
    <2>1. CASE \A p \in Range(tree.rest) : MayWait(p.n)
      BY <1>5, <1>11, <2>1 DEF WaitInTurn
    <2>2. CASE InOrder
      <3>1. PICK k \in DOMAIN segments : \A j \in DOMAIN tree.rest :
              /\ tree.rest[j].n = segments[k].first + tree.nested + j - 1
              /\ tree.rest[j].n \in Segment(k)
        BY <2>2 DEF InOrder
      <3>2. tree.nested \in Nat
        BY DEF Types
      <3>3. \A j \in DOMAIN Tail(tree.rest) :
              /\ Tail(tree.rest)[j].n = segments[k].first + tree.nested + j
              /\ Tail(tree.rest)[j].n \in Segment(k)
              /\ first.n < Tail(tree.rest)[j].n
        <4>1. ASSUME NEW j \in DOMAIN Tail(tree.rest)
              PROVE  /\ Tail(tree.rest)[j].n = segments[k].first + tree.nested + j
                     /\ Tail(tree.rest)[j].n \in Segment(k)
                     /\ first.n < Tail(tree.rest)[j].n
          <5>1. /\ Tail(tree.rest)[j] = tree.rest[j + 1] /\ j + 1 \in DOMAIN tree.rest
                /\ 1 \in DOMAIN tree.rest /\ j \in Nat /\ j > 0
            BY <1>5
          <5>2. /\ tree.rest[j + 1].n = segments[k].first + tree.nested + (j + 1) - 1
                /\ tree.rest[j + 1].n \in Segment(k)
                /\ first.n = segments[k].first + tree.nested + 1 - 1
            BY <1>3, <3>1, <5>1
          <5>3. QED BY <1>9, <3>1, <3>2, <5>1, <5>2
        <4>2. QED BY <4>1
      <3>4. CASE tree'.rest = Tail(tree.rest) /\ tree'.nested = tree.nested + 1 /\ queue' = queue
        <4>1. ASSUME NEW j \in DOMAIN tree'.rest
              PROVE  /\ tree'.rest[j].n = segments'[k].first + tree'.nested + j - 1
                     /\ tree'.rest[j].n \in segments'[k].first .. segments'[k].last
          <5>1. /\ tree'.rest[j].n = segments[k].first + tree.nested + j
                /\ tree'.rest[j].n \in Segment(k) /\ j \in Nat
            BY <1>5, <3>3, <3>4
          <5>2. segments[k].first \in Nat
            BY <1>9, <3>1
          <5>3. tree.nested \in Nat /\ tree'.nested = tree.nested + 1 /\ segments' = segments
            BY <3>2, <3>4
          <5>4. segments[k].first + tree.nested + j = segments[k].first + tree'.nested + j - 1
            BY <5>1, <5>2, <5>3
          <5>5. QED BY <5>1, <5>3, <5>4 DEF Segment
        <4>2. ASSUME NEW i \in DOMAIN handled', NEW j \in DOMAIN tree'.rest
              PROVE  handled'[i].n < tree'.rest[j].n
          <5>1. /\ tree'.rest[j].n \in Nat /\ first.n < tree'.rest[j].n
            <6>1. j \in DOMAIN Tail(tree.rest) /\ tree'.rest[j] = Tail(tree.rest)[j]
              BY <3>4
            <6>2. Tail(tree.rest)[j] \in Range(tree.rest)
              BY <1>5, <6>1 DEF Range
            <6>3. QED BY <1>12, <3>3, <6>1, <6>2
          <5>2. CASE i = Len(handled) + 1
            BY <1>6, <1>7, <5>1, <5>2
          <5>3. CASE i \in DOMAIN handled
            <6>1. handled[i].n < first.n
              BY <1>3, <1>5, <2>2, <5>3 DEF InOrder
            <6>2. QED BY <1>6, <1>7, <1>9, <5>1, <5>3, <6>1
          <5>4. QED BY <1>8, <5>2, <5>3
        <4>3. InOrder'
          BY <3>1, <4>1, <4>2 DEF InOrder, Segment
        <4>4. Queued' = Queued
          BY <3>4 DEF Queued
        <4>5. QED BY <4>3, <4>4 DEF WaitInTurn
      <3>5. CASE tree'.rest = <<>> /\ queue' = queue
        BY <3>5 DEF Queued, Range, WaitInTurn
      <3>6. CASE tree'.rest = <<>> /\ tree.nested = MaxNested
        <4>1. ASSUME NEW p \in Range(Tail(tree.rest)) PROVE MayWait(p.n)
          <5>1. PICK j \in DOMAIN Tail(tree.rest) : p = Tail(tree.rest)[j]
            BY <4>1 DEF Range
          <5>2. p.n = segments[k].first + MaxNested + j /\ p.n \in Segment(k) /\ j \in Nat /\ j > 0
            BY <1>5, <3>3, <3>6, <5>1
          <5>3. p.n - segments[k].first > MaxNested
            BY <1>1, <1>9, <3>1, <5>2
          <5>4. QED BY <3>1, <5>2, <5>3 DEF MayWait
        <4>2. Range(tree'.rest) = {}
          BY <3>6 DEF Range
        <4>3. QED BY <1>11, <4>1, <4>2 DEF WaitInTurn
      <3>7. QED BY <3>4, <3>5, <3>6, RoundCases DEF NoTree
    <2>3. QED BY <2>1, <2>2 DEF WaitInTurn
  <1>19. QED BY <1>2, <1>10, <1>13, <1>14, <1>15, <1>17, <1>18 DEF WaitInTurn

LEMMA NextWaits == Types /\ WaitInTurn /\ [Next]_vars => WaitInTurn'
  <1> SUFFICES ASSUME Types, WaitInTurn, [Next]_vars PROVE WaitInTurn'
    OBVIOUS
  <1>1. ASSUME UNCHANGED <<toClient, written, calls>> PROVE WaitInTurn'
    BY <1>1, ArrivedType, WaitStays DEF Arrived, WaitInTurn
  <1>2. ASSUME NEW answer \in Answer, NEW props \in BOOLEAN, NEW ids \in BOOLEAN,
         Connect(answer, props, ids) PROVE WaitInTurn'
    <2>1. PICK p : p = Connack(written + 1, answer, props, ids)
      OBVIOUS
    <2>2. p \in Packet /\ p.n = written + 1
      BY <1>2, <2>1, NumberedNext, WrittenPacket DEF Connect, Connack
    <2>3. QED BY <1>2, <2>1, <2>2, WriteWaits DEF Connect
  <1>3. CASE ServerReads
    <2>1. PICK p \in Packet : p.n = written + 1 /\ Write(p)
      <3>1. PICK type \in {"SUBACK", "UNSUBACK"} : Write(Other(type, written + 1))
        BY <1>3 DEF ServerReads
      <3>2. Other(type, written + 1) \in Packet /\ Other(type, written + 1).n = written + 1
        BY <1>3, NumberedNext, WrittenPacket DEF ServerReads, Other
      <3>3. QED BY <3>1, <3>2
    <2>2. QED BY <1>3, <2>1, WriteWaits DEF ServerReads
  <1>4. ASSUME NEW filters \in SUBSET DOMAIN subs, ServerPublishes(filters) PROVE WaitInTurn'
    <2>1. PICK p : p = Publish(written + 1, {subs[f] : f \in filters})
      OBVIOUS
    <2>2. p \in Packet /\ p.n = written + 1
      BY <1>4, <2>1, PublishedPacket DEF ServerPublishes, Publish
    <2>3. QED BY <1>4, <2>1, <2>2, WriteWaits DEF ServerPublishes
  <1>5. ASSUME NEW type \in BadTypes, ServerWritesBad(type) PROVE WaitInTurn'
    <2>1. PICK p : p = Other(type, written + 1)
      OBVIOUS
    <2>2. p \in Packet /\ p.n = written + 1
      BY <1>5, <2>1, NumberedNext, WrittenPacket DEF ServerWritesBad, Other
    <2>3. QED BY <1>5, <2>1, <2>2, WriteWaits DEF ServerWritesBad
  <1>6. CASE Lost \/ \E n \in 1 .. MaxSent : SegmentTooLarge(n)
    BY <1>6, GoneWaits DEF Lost, SegmentTooLarge, server
  <1>7. ASSUME NEW n \in 1 .. MaxSent, ReceiveSegment(n) PROVE WaitInTurn'
    BY <1>7, SegmentWaits
  <1>8. CASE Handle
    <2>1. /\ tree.rest # <<>> /\ Leaves /\ UNCHANGED <<segments, written>>
          /\ toClient' = toClient \/ toClient' = <<>>
      BY <1>8, HandleCases DEF server, Gone
    <2>2. QED BY <1>8, <2>1, Recorded, HandleWaits
  <1>9. CASE Application
    BY <1>1, <1>9 DEF Application, Subscribe, Unsubscribe, server
  <1>10. CASE UNCHANGED vars
    BY <1>1, <1>10 DEF vars, server
  <1>11. CASE Server
    BY <1>2, <1>3, <1>4, <1>5, <1>6, <1>11 DEF Server
  <1>12. QED BY <1>6, <1>7, <1>8, <1>9, <1>10, <1>11, RunTailWaits DEF Next

(* A packet is handled before an earlier one only if that was too far into its
   segment for the call tree of the segment. *)
THEOREM OnlyRestsAreOvertaken == Spec => []OnlyRestsOvertaken
  <1>1. Init => WaitInTurn
    BY DEF Init, WaitInTurn, OnlyRestsOvertaken, Arrived, NoTree, Queued, Range
  <1>2. WaitInTurn => OnlyRestsOvertaken
    BY DEF WaitInTurn
  <1>3. Types /\ WaitInTurn /\ [Next]_vars => (Types /\ WaitInTurn)'
    BY NextTypes, NextWaits
  <1>4. QED BY <1>1, <1>2, <1>3, InitTypes, PTL DEF Spec

-----------------------------------------------------------------------------
(* Nothing is skipped. *)

LEMMA RowTypes ==
  ASSUME Types
  PROVE  /\ DOMAIN queue = 1 .. Len(queue) /\ Len(queue) \in Nat
         /\ Row(0) = tree.rest /\ 0 \in RowIds
         /\ \A k \in DOMAIN queue : Row(k) = queue[k] /\ k \in RowIds
         /\ \A k \in RowIds : k \in Nat /\ (k = 0 \/ k \in DOMAIN queue) /\ Row(k) \in Seq(Packet)
         /\ \A k \in RowIds : \A i \in DOMAIN Row(k) : Row(k)[i].n \in Nat /\ i \in Nat /\ i > 0
  <1>1. /\ DOMAIN queue = 1 .. Len(queue) /\ Len(queue) \in Nat
        /\ \A k \in DOMAIN queue : queue[k] \in Seq(Packet)
        /\ tree.rest \in Seq(Packet)
    BY DEF Types
  <1>2. \A k \in DOMAIN queue : Row(k) = queue[k] /\ k \in RowIds
    BY <1>1 DEF Row, RowIds
  <1>3. \A k \in RowIds : k \in Nat /\ (k = 0 \/ k \in DOMAIN queue)
    BY <1>1 DEF RowIds
  <1>4. Row(0) = tree.rest /\ 0 \in RowIds
    BY <1>1 DEF Row, RowIds
  <1>5. \A k \in RowIds : Row(k) \in Seq(Packet)
    BY <1>1, <1>2, <1>3, <1>4
  <1>6. ASSUME NEW k \in RowIds, NEW i \in DOMAIN Row(k)
        PROVE  Row(k)[i].n \in Nat /\ i \in Nat /\ i > 0
    <2>1. Row(k) \in Seq(Packet)
      BY <1>5
    <2>2. Row(k)[i] \in Packet /\ i \in Nat /\ i > 0
      BY <1>6, <2>1
    <2>3. QED BY <2>2, PacketFields
  <1>7. QED BY <1>1, <1>2, <1>3, <1>4, <1>5, <1>6

(* What was received is in a segment with itself. *)
LEMMA ReceivedSame ==
  \A m : m \in Received <=> SameSegment(m, m)
  BY DEF Received, SameSegment

(* Rows are renumbered, and packets taken from their fronts: row k is now what
   row f[k] was after its first d[k] packets. *)
Moved(f, d) ==
  /\ \A k \in RowIds' : d[k] \in Nat /\ f[k] \in RowIds
  /\ \A k \in RowIds' : \A i \in DOMAIN Row(k)' :
       /\ i \in Nat /\ i > 0 /\ i + d[k] \in DOMAIN Row(f[k])
       /\ Row(k)'[i] = Row(f[k])[i + d[k]]
  /\ \A k, l \in RowIds' : \A i \in DOMAIN Row(k)', j \in DOMAIN Row(l)' : k # l => f[k] # f[l]

LEMMA RowsMove ==
  ASSUME Types, InRows, segments' = segments, NEW f, NEW d, Moved(f, d)
  PROVE  InRows'
  <1>1. ASSUME NEW k \in RowIds', NEW i \in DOMAIN Row(k)', NEW j \in DOMAIN Row(k)', i < j
        PROVE  Row(k)'[i].n < Row(k)'[j].n
    <2>1. /\ i + d[k] \in DOMAIN Row(f[k]) /\ j + d[k] \in DOMAIN Row(f[k]) /\ f[k] \in RowIds
          /\ Row(k)'[i] = Row(f[k])[i + d[k]] /\ Row(k)'[j] = Row(f[k])[j + d[k]]
          /\ i \in Nat /\ j \in Nat /\ d[k] \in Nat
      BY <1>1 DEF Moved
    <2>2. i + d[k] < j + d[k]
      BY <1>1, <2>1
    <2>3. QED BY <2>1, <2>2 DEF InRows
  <1>2. ASSUME NEW k \in RowIds', NEW l \in RowIds', NEW i \in DOMAIN Row(k)',
               NEW j \in DOMAIN Row(l)', k # l
        PROVE  ~SameSegment(Row(k)'[i].n, Row(l)'[j].n)
    <2>1. /\ f[k] # f[l] /\ f[k] \in RowIds /\ f[l] \in RowIds
          /\ i + d[k] \in DOMAIN Row(f[k]) /\ j + d[l] \in DOMAIN Row(f[l])
          /\ Row(k)'[i] = Row(f[k])[i + d[k]] /\ Row(l)'[j] = Row(f[l])[j + d[l]]
      BY <1>2 DEF Moved
    <2>2. QED BY <2>1 DEF InRows
  <1>3. \A m, n : SameSegment(m, n)' <=> SameSegment(m, n)
    BY DEF SameSegment, Segment
  <1>4. ASSUME NEW k \in RowIds', NEW i \in DOMAIN Row(k)', NEW j \in DOMAIN Row(k)'
        PROVE  SameSegment(Row(k)'[i].n, Row(k)'[j].n)
    <2>1. /\ i + d[k] \in DOMAIN Row(f[k]) /\ j + d[k] \in DOMAIN Row(f[k]) /\ f[k] \in RowIds
          /\ Row(k)'[i] = Row(f[k])[i + d[k]] /\ Row(k)'[j] = Row(f[k])[j + d[k]]
      BY <1>4 DEF Moved
    <2>2. QED BY <2>1 DEF InRows
  <1>5. QED BY <1>1, <1>2, <1>3, <1>4 DEF InRows

LEMMA PlacedStays ==
  ASSUME Placed, UNCHANGED calls PROVE Placed'
  <1>1. UNCHANGED <<tree, queue, segments, handled>>
    BY DEF calls
  <1>2. RowIds' = RowIds /\ \A k : Row(k)' = Row(k)
    BY <1>1 DEF RowIds, Row
  <1>3. \A m, n : SameSegment(m, n)' <=> SameSegment(m, n)
    BY <1>1 DEF SameSegment, Segment
  <1>4. \A h, n : Lets(h, n)' <=> Lets(h, n)
    BY <1>3 DEF Precedes, Lets
  <1>5. \A m : (Waiting(m)' <=> Waiting(m)) /\ (Done(m)' <=> Done(m))
    BY <1>1, <1>2 DEF Waiting, Done
  <1>6. Received' = Received /\ Abandoned' = Abandoned
    BY <1>1 DEF Received, Abandoned, Segment
  <1>7. InRows'
    BY <1>2, <1>3 DEF Placed, InRows
  <1>8. QED BY <1>1, <1>2, <1>4, <1>5, <1>6, <1>7 DEF Placed

LEMMA RunTailPlaced ==
  ASSUME Types, Placed, RunTail PROVE Placed'
  <1>1. /\ tree.rest = <<>> /\ queue # <<>> /\ tree'.rest = Head(queue) /\ queue' = Tail(queue)
        /\ UNCHANGED <<segments, handled>>
    BY DEF RunTail, Idle, NoTree
  <1>2. /\ Head(queue) = queue[1] /\ Len(queue) \in Nat /\ Len(queue) > 0
        /\ DOMAIN queue = 1 .. Len(queue)
        /\ Len(queue') = Len(queue) - 1 /\ DOMAIN queue' = 1 .. Len(queue) - 1
        /\ \A k \in DOMAIN queue' : queue'[k] = queue[k + 1] /\ k + 1 \in DOMAIN queue
    BY <1>1, SeqTail DEF Types
  <1>3. ASSUME NEW k \in RowIds'
        PROVE  k + 1 \in RowIds /\ Row(k)' = Row(k + 1) /\ k \in Nat
    <2>1. k \in 0 .. Len(queue) - 1
      BY <1>2, <1>3 DEF RowIds
    <2>2. k + 1 \in RowIds /\ k \in Nat /\ Row(k + 1) = queue[k + 1]
      BY <1>2, <2>1 DEF RowIds, Row
    <2>3. CASE k = 0
      BY <1>1, <1>2, <2>2, <2>3 DEF Row
    <2>4. CASE k # 0
      <3>1. k \in DOMAIN queue'
        BY <1>2, <2>1, <2>4
      <3>2. QED BY <1>2, <2>2, <2>4, <3>1 DEF Row
    <2>5. QED BY <2>2, <2>3, <2>4
  <1>4. ASSUME NEW k \in RowIds, NEW i \in DOMAIN Row(k)
        PROVE  k \in Nat /\ k - 1 \in RowIds' /\ Row(k - 1)' = Row(k)
    <2>1. k # 0
      BY <1>1, <1>4 DEF Row
    <2>2. k \in Nat /\ k - 1 \in RowIds' /\ k - 1 + 1 = k
      BY <1>2, <2>1 DEF RowIds
    <2>3. QED BY <1>3, <2>2
  <1>5. InRows'
    <2>1. PICK f : f = [k \in Nat |-> k + 1]
      OBVIOUS
    <2>2. PICK d : d = [k \in Nat |-> 0]
      OBVIOUS
    <2>3. \A k \in RowIds' : d[k] = 0 /\ f[k] = k + 1 /\ k \in Nat
      BY <1>3, <2>1, <2>2
    <2>4. \A k \in RowIds' : d[k] \in Nat /\ f[k] \in RowIds
      BY <1>3, <2>3
    <2>5. ASSUME NEW k \in RowIds', NEW i \in DOMAIN Row(k)'
          PROVE  /\ i \in Nat /\ i > 0 /\ i + d[k] \in DOMAIN Row(f[k])
                 /\ Row(k)'[i] = Row(f[k])[i + d[k]]
      <3>1. i \in DOMAIN Row(k + 1) /\ k + 1 \in RowIds /\ Row(k)' = Row(k + 1)
        BY <1>3, <2>5
      <3>2. i \in Nat /\ i > 0
        BY <3>1, RowTypes
      <3>3. i + d[k] = i
        BY <2>3, <3>2
      <3>4. QED BY <2>3, <3>1, <3>2, <3>3
    <2>6. \A k, l \in RowIds' : k # l => f[k] # f[l]
      BY <2>3
    <2>7. Moved(f, d)
      BY <2>4, <2>5, <2>6 DEF Moved
    <2>8. QED BY <1>1, <2>7, RowsMove DEF Placed
  <1>6. ASSUME NEW m PROVE Waiting(m)' <=> Waiting(m)
    <2>1. ASSUME NEW k \in RowIds', NEW i \in DOMAIN Row(k)', Row(k)'[i].n = m PROVE Waiting(m)
      BY <1>3, <2>1 DEF Waiting
    <2>2. ASSUME NEW k \in RowIds, NEW i \in DOMAIN Row(k), Row(k)[i].n = m
          PROVE  \E l \in RowIds' : \E j \in DOMAIN Row(l)' : Row(l)'[j].n = m
      BY <1>4, <2>2
    <2>3. QED BY <2>1, <2>2 DEF Waiting
  <1>7. /\ Received' = Received /\ Abandoned' = Abandoned /\ \A m : Done(m)' <=> Done(m)
        /\ \A h, n : Lets(h, n)' <=> Lets(h, n)
    BY <1>1 DEF Received, Abandoned, Done, Lets, Precedes, SameSegment, Segment
  <1>8. \A i \in DOMAIN handled, k \in RowIds' : \A j \in DOMAIN Row(k)' :
          Lets(handled[i], Row(k)'[j].n)
    BY <1>3 DEF Placed
  <1>9. /\ \A m : (Done(m) \/ Waiting(m))' => m \in Received'
        /\ \A m \in Received' : (Done(m) \/ Waiting(m) \/ m \in Abandoned)'
    BY <1>6, <1>7 DEF Placed
  <1>10. QED BY <1>1, <1>5, <1>7, <1>8, <1>9 DEF Placed

(* The first packet before the call tree is handled, and the others move, or are
   abandoned. *)
LEMMA HandledMove ==
  ASSUME Types, Placed, tree.rest # <<>>, segments' = segments,
         NEW h \in HandledPacket, h.n = tree.rest[1].n, handled' = Append(handled, h),
         NEW f, NEW d, Moved(f, d),
         \A k \in RowIds' : \A j \in DOMAIN Row(k)' : f[k] = 0 => d[k] = 1 /\ ~h.returns,
         \A m : Waiting(m) => \/ Waiting(m)' \/ m = h.n
                              \/ h.returns /\ h.n < m /\ SameSegment(h.n, m)
  PROVE  Placed'
  <1>1. /\ DOMAIN handled = 1 .. Len(handled) /\ Len(handled) \in Nat
        /\ DOMAIN handled' = 1 .. Len(handled) + 1
        /\ \A i \in DOMAIN handled : handled'[i] = handled[i]
        /\ handled'[Len(handled) + 1] = h
    BY SeqAppend DEF Types
  <1>2. 0 \in RowIds /\ Row(0) = tree.rest /\ 1 \in DOMAIN Row(0) /\ Row(0)[1].n = h.n
    BY RowTypes, SeqTail DEF Types
  <1>3. /\ Received' = Received
        /\ \A m, n : SameSegment(m, n)' <=> SameSegment(m, n)
        /\ \A g, n : Lets(g, n)' <=> Lets(g, n)
    BY DEF Received, Lets, Precedes, SameSegment, Segment
  <1>4. InRows'
    BY RowsMove DEF Placed
  <1>5. ASSUME NEW m PROVE Waiting(m)' => Waiting(m)
    BY DEF Waiting, Moved
  <1>6. ASSUME NEW m \in Received,
               m \in Abandoned \/ (h.returns /\ h.n < m /\ SameSegment(h.n, m))
        PROVE  m \in Abandoned'
    <2>1. \A i \in DOMAIN handled : i \in DOMAIN handled' /\ handled'[i] = handled[i]
      BY <1>1
    <2>2. Len(handled) + 1 \in DOMAIN handled' /\ handled'[Len(handled) + 1] = h
      BY <1>1
    <2>3. \A k \in DOMAIN segments : k \in DOMAIN segments' /\ Segment(k)' = Segment(k)
      BY DEF Segment
    <2>4. ASSUME NEW g, NEW k \in DOMAIN segments, g.returns, {g.n, m} \subseteq Segment(k),
                 g.n < m, \E i \in DOMAIN handled' : handled'[i] = g
          PROVE  m \in Abandoned'
      <3>1. \E i \in DOMAIN handled', l \in DOMAIN segments' :
              handled'[i].returns /\ {handled'[i].n, m} \subseteq Segment(l)' /\ handled'[i].n < m
        BY <2>3, <2>4
      <3>2. m \in Received'
        BY <1>3
      <3>3. QED BY <3>1, <3>2 DEF Abandoned
    <2>5. CASE m \in Abandoned
      <3>1. PICK i \in DOMAIN handled, k \in DOMAIN segments :
              handled[i].returns /\ {handled[i].n, m} \subseteq Segment(k) /\ handled[i].n < m
        BY <2>5 DEF Abandoned
      <3>2. QED BY <2>1, <2>4, <3>1
    <2>6. CASE h.returns /\ h.n < m /\ SameSegment(h.n, m)
      <3>1. PICK k \in DOMAIN segments : h.n \in Segment(k) /\ m \in Segment(k)
        BY <2>6 DEF SameSegment
      <3>2. QED BY <2>2, <2>4, <2>6, <3>1
    <2>7. QED BY <1>6, <2>5, <2>6
  <1>7. ASSUME NEW m PROVE Done(m)' <=> Done(m) \/ m = h.n
    <2>1. Done(m) => \E i \in DOMAIN handled' : handled'[i].n = m
      BY <1>1 DEF Done
    <2>2. m = h.n => \E i \in DOMAIN handled' : handled'[i].n = m
      <3>1. Len(handled) + 1 \in DOMAIN handled'
        BY <1>1
      <3>2. QED BY <1>1, <3>1
    <2>3. ASSUME NEW i \in DOMAIN handled', handled'[i].n = m PROVE Done(m) \/ m = h.n
      <3>1. i \in DOMAIN handled \/ i = Len(handled) + 1
        BY <1>1
      <3>2. QED BY <1>1, <2>3, <3>1 DEF Done
    <2>4. QED BY <2>1, <2>2, <2>3 DEF Done
  <1>8. Waiting(h.n)
    BY <1>2 DEF Waiting
  <1>9. /\ \A m : (Done(m) \/ Waiting(m))' => m \in Received'
        /\ \A m \in Received' : (Done(m) \/ Waiting(m) \/ m \in Abandoned)'
    <2>1. ASSUME NEW m
          PROVE  /\ Done(m) \/ Waiting(m) => m \in Received
                 /\ m \in Received => Done(m) \/ Waiting(m) \/ m \in Abandoned
                 /\ Waiting(m) => \/ Waiting(m)' \/ m = h.n
                                  \/ h.returns /\ h.n < m /\ SameSegment(h.n, m)
      BY DEF Placed
    <2>2. QED BY <1>3, <1>5, <1>6, <1>7, <1>8, <2>1
  <1>10. ASSUME NEW i \in DOMAIN handled', NEW j \in DOMAIN handled', i < j
         PROVE  Lets(handled'[i], handled'[j].n)
    <2>1. i \in DOMAIN handled /\ handled'[i] = handled[i]
      BY <1>1, <1>10
    <2>2. CASE j \in DOMAIN handled
      BY <1>1, <1>10, <2>1, <2>2 DEF Placed
    <2>3. CASE j = Len(handled) + 1
      BY <1>1, <1>2, <2>1, <2>3 DEF Placed
    <2>4. QED BY <1>1, <1>10, <2>2, <2>3
  <1>11. ASSUME NEW i \in DOMAIN handled', NEW k \in RowIds', NEW j \in DOMAIN Row(k)'
         PROVE  Lets(handled'[i], Row(k)'[j].n)
    <2>1. /\ d[k] \in Nat /\ f[k] \in RowIds /\ j \in Nat /\ j > 0
          /\ j + d[k] \in DOMAIN Row(f[k]) /\ Row(k)'[j] = Row(f[k])[j + d[k]]
          /\ f[k] = 0 => d[k] = 1 /\ ~h.returns
      BY <1>11 DEF Moved
    <2>2. CASE i \in DOMAIN handled
      BY <1>1, <2>1, <2>2 DEF Placed
    <2>3. CASE i = Len(handled) + 1 /\ f[k] = 0
      <3>1. 1 < j + d[k]
        BY <2>1, <2>3
      <3>2. h.n < Row(k)'[j].n
        BY <1>2, <2>1, <2>3, <3>1 DEF Placed, InRows
      <3>3. h.n \in Nat /\ Row(k)'[j].n \in Nat
        BY <1>2, <2>1, RowTypes
      <3>4. h.n # Row(k)'[j].n
        BY <3>2, <3>3
      <3>5. QED BY <1>1, <2>1, <2>3, <3>2, <3>4 DEF Precedes, Lets
    <2>4. CASE i = Len(handled) + 1 /\ f[k] # 0
      <3>1. ~SameSegment(h.n, Row(k)'[j].n)
        BY <1>2, <2>1, <2>4 DEF Placed, InRows
      <3>2. SameSegment(h.n, h.n)
        BY <1>8, ReceivedSame DEF Placed
      <3>3. h.n # Row(k)'[j].n
        BY <3>1, <3>2
      <3>4. QED BY <1>1, <2>4, <3>1, <3>3 DEF Precedes, Lets
    <2>5. QED BY <1>1, <2>2, <2>3, <2>4
  <1>12. QED BY <1>3, <1>4, <1>9, <1>10, <1>11 DEF Placed

LEMMA HandlePlaced ==
  ASSUME Types, Placed, tree.rest # <<>>, Leaves,
         NEW matched \in SUBSET Subscription, NEW got \in SUBSET Nat, Record(matched, got),
         segments' = segments
  PROVE  Placed'
  <1>1. PICK h : h = [n |-> Head(tree.rest).n, matched |-> matched, got |-> got, session |-> session,
                     returns |-> Returns(Head(tree.rest))]
    OBVIOUS
  <1>2. PICK rest : rest = Tail(tree.rest)
    OBVIOUS
  <1>3. /\ Head(tree.rest) = tree.rest[1] /\ Head(tree.rest) \in Packet
        /\ Len(tree.rest) \in Nat /\ DOMAIN tree.rest = 1 .. Len(tree.rest)
        /\ rest \in Seq(Packet) /\ DOMAIN rest = 1 .. Len(tree.rest) - 1
        /\ \A i \in DOMAIN rest : rest[i] = tree.rest[i + 1] /\ i + 1 \in DOMAIN tree.rest
    BY <1>2, SeqTail DEF Types
  <1>4. h \in HandledPacket /\ h.n = tree.rest[1].n /\ handled' = Append(handled, h)
    <2>1. session \in Nat
      BY Bounds
    <2>2. Head(tree.rest).n \in 1 .. MaxSent
      BY <1>3, PacketFields
    <2>3. h \in HandledPacket
      BY <1>1, <2>1, <2>2, ReturnsType DEF HandledPacket
    <2>4. QED BY <1>1, <1>3, <2>3 DEF Record
  <1>5. \A i \in DOMAIN tree.rest : i = 1 \/ (i - 1 \in DOMAIN rest /\ rest[i - 1] = tree.rest[i])
    BY <1>3
  <1>6. \A i \in DOMAIN rest : i \in Nat /\ i > 0
    BY <1>3
  <1>7. CASE ~h.returns /\ tree'.rest = rest /\ queue' = queue
    <2>1. PICK f : f = [k \in Nat |-> k]
      OBVIOUS
    <2>2. PICK d : d = [k \in Nat |-> IF k = 0 THEN 1 ELSE 0]
      OBVIOUS
    <2>3. RowIds' = RowIds /\ Row(0)' = rest /\ Row(0) = tree.rest
          /\ \A k \in RowIds : k # 0 => Row(k)' = Row(k)
      BY <1>7 DEF RowIds, Row
    <2>4. \A k \in RowIds : k \in Nat /\ f[k] = k /\ d[k] = IF k = 0 THEN 1 ELSE 0
      BY <2>1, <2>2, RowTypes
    <2>5. ASSUME NEW k \in RowIds', NEW i \in DOMAIN Row(k)'
          PROVE  /\ i \in Nat /\ i > 0 /\ i + d[k] \in DOMAIN Row(f[k])
                 /\ Row(k)'[i] = Row(f[k])[i + d[k]]
      <3>1. CASE k = 0
        BY <1>3, <1>6, <2>3, <2>4, <2>5, <3>1
      <3>2. CASE k # 0
        <4>1. i \in DOMAIN Row(k) /\ Row(k)' = Row(k) /\ k \in RowIds
          BY <2>3, <2>5, <3>2
        <4>2. i \in Nat /\ i > 0
          BY <4>1, RowTypes
        <4>3. i + d[k] = i /\ f[k] = k
          BY <2>4, <3>2, <4>1, <4>2
        <4>4. QED BY <4>1, <4>2, <4>3
      <3>3. QED BY <3>1, <3>2
    <2>6. ASSUME NEW k \in RowIds, NEW i \in DOMAIN Row(k), ~(k = 0 /\ i = 1)
          PROVE  \E l \in RowIds' : \E j \in DOMAIN Row(l)' : Row(l)'[j].n = Row(k)[i].n
      <3>1. CASE k = 0
        <4>1. i - 1 \in DOMAIN Row(0)' /\ Row(0)'[i - 1] = Row(k)[i]
          BY <1>5, <2>3, <2>6, <3>1
        <4>2. 0 \in RowIds'
          BY <2>3, <2>6, <3>1
        <4>3. QED BY <4>1, <4>2
      <3>2. CASE k # 0
        BY <2>3, <2>6, <3>2
      <3>3. QED BY <3>1, <3>2
    <2>7. \A k \in RowIds' : d[k] \in Nat /\ f[k] \in RowIds /\ (f[k] = 0 => d[k] = 1)
      BY <2>3, <2>4
    <2>8. \A k, l \in RowIds' : k # l => f[k] # f[l]
      BY <2>3, <2>4
    <2>9. \A m : Waiting(m) => Waiting(m)' \/ m = h.n
      <3>1. ASSUME NEW m, Waiting(m), m # h.n
            PROVE  \E l \in RowIds' : \E j \in DOMAIN Row(l)' : Row(l)'[j].n = m
        <4>1. PICK k \in RowIds : \E i \in DOMAIN Row(k) : Row(k)[i].n = m
          BY <3>1 DEF Waiting
        <4>2. PICK i \in DOMAIN Row(k) : Row(k)[i].n = m
          BY <4>1
        <4>3. ~(k = 0 /\ i = 1)
          BY <1>4, <2>3, <3>1, <4>2
        <4>4. QED BY <2>6, <4>1, <4>2, <4>3
      <3>2. QED BY <3>1 DEF Waiting
    <2>10. Moved(f, d)
      BY <2>5, <2>7, <2>8 DEF Moved
    <2>11. QED BY <1>4, <1>7, <2>7, <2>9, <2>10, HandledMove
  <1>8. CASE ~h.returns /\ tree'.rest = <<>> /\ queue' = Append(queue, rest)
    <2>1. PICK last : last = Len(queue) + 1
      OBVIOUS
    <2>2. PICK f : f = [k \in Nat |-> IF k = last THEN 0 ELSE k]
      OBVIOUS
    <2>3. PICK d : d = [k \in Nat |-> IF k = 0 \/ k = last THEN 1 ELSE 0]
      OBVIOUS
    <2>4. /\ DOMAIN queue = 1 .. Len(queue) /\ Len(queue) \in Nat
          /\ Len(queue') = last /\ queue'[last] = rest
          /\ \A k \in DOMAIN queue : queue'[k] = queue[k]
      <3>1. rest \in Seq(Packet) /\ queue \in Seq(Seq(Packet)) /\ queue' = Append(queue, rest)
        BY <1>3, <1>8 DEF Types
      <3>2. QED BY <2>1, <3>1, SeqAppend
    <2>5. /\ \A k \in RowIds' : k \in Nat /\ (k \in RowIds \/ k = last)
          /\ \A k \in RowIds : k \in RowIds' /\ k # last /\ k \in Nat
          /\ last \in RowIds' /\ last # 0 /\ last \in Nat /\ 0 \in RowIds
      BY <2>1, <2>4 DEF RowIds
    <2>6. Row(0)' = <<>> /\ Row(0) = tree.rest /\ Row(last)' = rest
      BY <1>8, <2>4, <2>5 DEF Row
    <2>7. \A k \in RowIds : k # 0 => Row(k)' = Row(k)
      <3>1. \A k \in RowIds : k = 0 \/ k \in DOMAIN queue
        BY RowTypes
      <3>2. QED BY <2>4, <3>1 DEF Row
    <2>8. /\ \A k \in RowIds : f[k] = k /\ d[k] = IF k = 0 THEN 1 ELSE 0
          /\ f[last] = 0 /\ d[last] = 1
      BY <2>2, <2>3, <2>5
    <2>9. ASSUME NEW k \in RowIds', NEW i \in DOMAIN Row(k)'
          PROVE  /\ i \in Nat /\ i > 0 /\ i + d[k] \in DOMAIN Row(f[k]) /\ k # 0
                 /\ Row(k)'[i] = Row(f[k])[i + d[k]]
      <3>1. k # 0
        BY <2>6, <2>9
      <3>2. CASE k = last
        BY <1>3, <1>6, <2>6, <2>8, <2>9, <3>1, <3>2
      <3>3. CASE k # last
        <4>1. i \in DOMAIN Row(k) /\ Row(k)' = Row(k) /\ k \in RowIds
          BY <2>5, <2>7, <2>9, <3>1, <3>3
        <4>2. i \in Nat /\ i > 0
          BY <4>1, RowTypes
        <4>3. i + d[k] = i /\ f[k] = k
          BY <2>8, <3>1, <4>1, <4>2
        <4>4. QED BY <3>1, <4>1, <4>2, <4>3
      <3>4. QED BY <3>2, <3>3
    <2>10. ASSUME NEW k \in RowIds, NEW i \in DOMAIN Row(k), ~(k = 0 /\ i = 1)
           PROVE  \E l \in RowIds' : \E j \in DOMAIN Row(l)' : Row(l)'[j].n = Row(k)[i].n
      <3>1. CASE k = 0
        <4>1. i - 1 \in DOMAIN Row(last)' /\ Row(last)'[i - 1] = Row(k)[i]
          BY <1>5, <2>6, <2>10, <3>1
        <4>2. QED BY <2>5, <4>1
      <3>2. CASE k # 0
        BY <2>5, <2>7, <2>10, <3>2
      <3>3. QED BY <3>1, <3>2
    <2>11. \A k \in RowIds' : d[k] \in Nat /\ f[k] \in RowIds /\ (f[k] = 0 => d[k] = 1)
      BY <2>5, <2>8
    <2>12. \A k, l \in RowIds' : \A i \in DOMAIN Row(k)', j \in DOMAIN Row(l)' : k # l => f[k] # f[l]
      <3>1. ASSUME NEW k \in RowIds', NEW l \in RowIds', k # 0, l # 0, k # l PROVE f[k] # f[l]
        <4>1. (k \in RowIds \/ k = last) /\ (l \in RowIds \/ l = last)
          BY <2>5
        <4>2. QED BY <2>8, <3>1, <4>1
      <3>2. QED BY <2>9, <3>1
    <2>13. \A m : Waiting(m) => Waiting(m)' \/ m = h.n
      <3>1. ASSUME NEW m, Waiting(m), m # h.n
            PROVE  \E l \in RowIds' : \E j \in DOMAIN Row(l)' : Row(l)'[j].n = m
        <4>1. PICK k \in RowIds : \E i \in DOMAIN Row(k) : Row(k)[i].n = m
          BY <3>1 DEF Waiting
        <4>2. PICK i \in DOMAIN Row(k) : Row(k)[i].n = m
          BY <4>1
        <4>3. ~(k = 0 /\ i = 1)
          BY <1>4, <2>6, <3>1, <4>2
        <4>4. QED BY <2>10, <4>1, <4>2, <4>3
      <3>2. QED BY <3>1 DEF Waiting
    <2>14. Moved(f, d)
      BY <2>9, <2>11, <2>12 DEF Moved
    <2>15. QED BY <1>4, <1>8, <2>11, <2>13, <2>14, HandledMove
  <1>9. CASE h.returns /\ tree'.rest = <<>> /\ queue' = queue
    <2>1. PICK f : f = [k \in Nat |-> k]
      OBVIOUS
    <2>2. PICK d : d = [k \in Nat |-> 0]
      OBVIOUS
    <2>3. RowIds' = RowIds /\ Row(0)' = <<>> /\ Row(0) = tree.rest /\ 0 \in RowIds
          /\ \A k \in RowIds : k # 0 => Row(k)' = Row(k)
      BY <1>9, RowTypes DEF RowIds, Row
    <2>4. \A k \in RowIds : k \in Nat /\ f[k] = k /\ d[k] = 0
      BY <2>1, <2>2, RowTypes
    <2>5. ASSUME NEW k \in RowIds', NEW i \in DOMAIN Row(k)'
          PROVE  /\ i \in Nat /\ i > 0 /\ i + d[k] \in DOMAIN Row(f[k]) /\ k # 0
                 /\ Row(k)'[i] = Row(f[k])[i + d[k]]
      <3>1. k # 0
        BY <2>3, <2>5
      <3>2. i \in DOMAIN Row(k) /\ Row(k)' = Row(k) /\ k \in RowIds
        BY <2>3, <2>5, <3>1
      <3>3. i \in Nat /\ i > 0
        BY <3>2, RowTypes
      <3>4. i + d[k] = i /\ f[k] = k
        BY <2>4, <3>2, <3>3
      <3>5. QED BY <3>1, <3>2, <3>3, <3>4
    <2>6. Moved(f, d)
      <3>1. \A k \in RowIds' : d[k] \in Nat /\ f[k] \in RowIds
        BY <2>3, <2>4
      <3>2. \A k, l \in RowIds' : k # l => f[k] # f[l]
        BY <2>3, <2>4
      <3>3. QED BY <2>5, <3>1, <3>2 DEF Moved
    <2>7. \A k \in RowIds' : \A j \in DOMAIN Row(k)' : f[k] # 0
      BY <2>3, <2>4, <2>5
    <2>8. \A m : Waiting(m) => \/ Waiting(m)' \/ m = h.n
                               \/ h.returns /\ h.n < m /\ SameSegment(h.n, m)
      <3>1. ASSUME NEW m, Waiting(m), m # h.n
            PROVE  \/ \E l \in RowIds' : \E j \in DOMAIN Row(l)' : Row(l)'[j].n = m
                   \/ h.returns /\ h.n < m /\ SameSegment(h.n, m)
        <4>1. PICK k \in RowIds : \E i \in DOMAIN Row(k) : Row(k)[i].n = m
          BY <3>1 DEF Waiting
        <4>2. PICK i \in DOMAIN Row(k) : Row(k)[i].n = m
          BY <4>1
        <4>3. CASE k # 0
          BY <2>3, <4>2, <4>3
        <4>4. CASE k = 0
          <5>1. 1 \in DOMAIN Row(0) /\ Row(0)[1].n = h.n
            BY <1>3, <1>4, <2>3, SeqTail DEF Types
          <5>2. i # 1 /\ i \in Nat /\ i > 0
            BY <3>1, <4>2, <4>4, <5>1, RowTypes
          <5>3. 1 < i
            BY <5>2
          <5>4. h.n < m /\ SameSegment(h.n, m)
            BY <2>3, <4>2, <4>4, <5>1, <5>3 DEF Placed, InRows
          <5>5. QED BY <1>9, <5>4
        <4>5. QED BY <4>3, <4>4
      <3>2. QED BY <3>1 DEF Waiting
    <2>9. QED BY <1>4, <2>6, <2>7, <2>8, HandledMove
  <1>10. \/ h.returns /\ tree'.rest = <<>> /\ queue' = queue
         \/ ~h.returns /\ tree'.rest = rest /\ queue' = queue
         \/ ~h.returns /\ tree'.rest = <<>> /\ queue' = Append(queue, rest)
    <2>1. NoTree.rest = <<>>
      BY DEF NoTree
    <2>2. h.returns = Returns(Head(tree.rest))
      BY <1>1
    <2>3. QED BY <1>2, <2>1, <2>2, RoundCases
  <1>11. QED BY <1>7, <1>8, <1>9, <1>10

LEMMA SegmentPlaced ==
  ASSUME Types, WaitInTurn, Placed, NEW n \in 1 .. MaxSent, ReceiveSegment(n) PROVE Placed'
  <1>1. PICK last : last = Len(segments) + 1
    OBVIOUS
  <1>2. /\ n \in Nat /\ n > 0 /\ Arrived \in Nat /\ tree.rest = <<>> /\ DOMAIN tree'.rest = 1 .. n
        /\ \A j \in DOMAIN tree'.rest : tree'.rest[j].n = Arrived + j
        /\ DOMAIN segments = 1 .. Len(segments) /\ Len(segments) \in Nat
        /\ DOMAIN segments' = 1 .. last
        /\ \A k \in DOMAIN segments : segments'[k] = segments[k] /\ k \in DOMAIN segments'
        /\ segments'[last].first = Arrived + 1 /\ segments'[last].last = Arrived + n
        /\ queue' = queue /\ handled' = handled
    BY <1>1, SegmentReceived
  <1>3. /\ \A k \in DOMAIN segments : k # last /\ Segment(k)' = Segment(k)
        /\ \A k \in DOMAIN segments' : k \in DOMAIN segments \/ k = last
        /\ last \in DOMAIN segments'
        /\ Segment(last)' = Arrived + 1 .. Arrived + n
    BY <1>1, <1>2 DEF Segment
  <1>4. \A m \in Received : m \in Nat /\ m <= Arrived
    <2>1. ASSUME NEW k \in DOMAIN segments, NEW m \in Segment(k) PROVE m \in Nat /\ m <= Arrived
      <3>1. segments[k].first \in Nat /\ segments[k].last \in Nat /\ segments[k].last <= Arrived
        BY HistoryType DEF WaitInTurn
      <3>2. QED BY <1>2, <2>1, <3>1 DEF Segment
    <2>2. QED BY <2>1 DEF Received
  <1>5. Received' = Received \cup (Arrived + 1 .. Arrived + n)
    <2>1. \A m : m \in Received <=> \E k \in DOMAIN segments : m \in Segment(k)
      BY DEF Received
    <2>2. \A m : m \in Received' <=> \E k \in DOMAIN segments' : m \in Segment(k)'
      BY DEF Received
    <2>3. \A k \in DOMAIN segments : k \in DOMAIN segments'
      BY <1>2
    <2>4. ASSUME NEW m PROVE m \in Received' <=> m \in Received \/ m \in Arrived + 1 .. Arrived + n
      <3>1. ASSUME m \in Received' PROVE m \in Received \/ m \in Arrived + 1 .. Arrived + n
        <4>1. PICK k \in DOMAIN segments' : m \in Segment(k)'
          BY <2>2, <3>1
        <4>2. CASE k = last
          BY <1>3, <4>1, <4>2
        <4>3. CASE k \in DOMAIN segments
          BY <1>3, <2>1, <4>1, <4>3
        <4>4. QED BY <1>3, <4>2, <4>3
      <3>2. ASSUME m \in Received PROVE m \in Received'
        <4>1. PICK k \in DOMAIN segments : m \in Segment(k)
          BY <2>1, <3>2
        <4>2. m \in Segment(k)'
          BY <1>3, <4>1
        <4>3. QED BY <2>2, <2>3, <4>2
      <3>3. ASSUME m \in Arrived + 1 .. Arrived + n PROVE m \in Received'
        BY <1>3, <2>2, <3>3
      <3>4. QED BY <3>1, <3>2, <3>3
    <2>5. QED BY <2>4
  <1>6. \A i \in DOMAIN handled : handled[i].n \in Received
    BY DEF Placed, Done
  <1>7. \A k \in RowIds : \A i \in DOMAIN Row(k) : Row(k)[i].n \in Received
    BY DEF Placed, Waiting
  <1>8. /\ RowIds' = RowIds /\ Row(0)' = tree'.rest /\ Row(0) = <<>> /\ 0 \in RowIds
        /\ \A k \in RowIds : k # 0 => Row(k)' = Row(k)
    BY <1>2, RowTypes DEF RowIds, Row
  <1>9. ASSUME NEW j \in DOMAIN Row(0)'
        PROVE  /\ Row(0)'[j].n = Arrived + j /\ j \in Nat
               /\ Row(0)'[j].n \in Nat /\ Row(0)'[j].n > Arrived
    <2>1. j \in 1 .. n /\ Row(0)'[j].n = Arrived + j
      BY <1>2, <1>8, <1>9
    <2>2. QED BY <1>2, <2>1
  <1>10. ASSUME NEW m \in Received, NEW l PROVE SameSegment(m, l)' <=> SameSegment(m, l)
    <2>1. m \notin Segment(last)'
      BY <1>2, <1>3, <1>4, <1>10
    <2>2. \A k \in DOMAIN segments : k \in DOMAIN segments'
      BY <1>2
    <2>3. QED BY <1>3, <2>1, <2>2 DEF SameSegment
  <1>11. ASSUME NEW m \in Received, NEW l \in Nat, l > Arrived
         PROVE  ~SameSegment(m, l)' /\ ~SameSegment(l, m)' /\ m < l /\ m # l
    <2>1. m < l /\ m # l
      BY <1>2, <1>4, <1>11
    <2>2. ~SameSegment(m, l) /\ ~SameSegment(l, m)
      <3>1. l \notin Received
        BY <1>2, <1>4, <1>11
      <3>2. QED BY <3>1 DEF SameSegment, Received
    <2>3. m \notin Segment(last)'
      BY <1>2, <1>3, <1>4, <1>11
    <2>4. QED BY <1>3, <2>1, <2>2, <2>3 DEF SameSegment
  <1>12. InRows'
    <2>1. ASSUME NEW k \in RowIds', NEW i \in DOMAIN Row(k)', NEW j \in DOMAIN Row(k)', i < j
          PROVE  Row(k)'[i].n < Row(k)'[j].n
      <3>1. CASE k = 0
        BY <1>2, <1>9, <2>1, <3>1
      <3>2. CASE k # 0
        BY <1>8, <2>1, <3>2 DEF Placed, InRows
      <3>3. QED BY <3>1, <3>2
    <2>2. ASSUME NEW k \in RowIds', NEW l \in RowIds', NEW i \in DOMAIN Row(k)',
                 NEW j \in DOMAIN Row(l)', k # l
          PROVE  \A a, b : a = Row(k)'[i].n /\ b = Row(l)'[j].n => ~SameSegment(a, b)'
      <3>1. CASE k = 0
        <4>1. Row(l)'[j].n \in Received
          BY <1>7, <1>8, <2>2, <3>1
        <4>2. QED BY <1>9, <1>11, <2>2, <3>1, <4>1
      <3>2. CASE l = 0
        <4>1. Row(k)'[i].n \in Received
          BY <1>7, <1>8, <2>2, <3>2
        <4>2. QED BY <1>9, <1>11, <2>2, <3>2, <4>1
      <3>3. CASE k # 0 /\ l # 0
        <4>1. Row(k)' = Row(k) /\ Row(l)' = Row(l) /\ k \in RowIds /\ l \in RowIds
          BY <1>8, <2>2, <3>3
        <4>2. Row(k)[i].n \in Received /\ ~SameSegment(Row(k)[i].n, Row(l)[j].n)
          BY <1>7, <2>2, <4>1 DEF Placed, InRows
        <4>3. QED BY <1>10, <4>1, <4>2
      <3>4. QED BY <3>1, <3>2, <3>3
    <2>3. ASSUME NEW k \in RowIds', NEW i \in DOMAIN Row(k)', NEW j \in DOMAIN Row(k)'
          PROVE  \A a, b : a = Row(k)'[i].n /\ b = Row(k)'[j].n => SameSegment(a, b)'
      <3>1. CASE k = 0
        <4>1. ASSUME NEW c \in DOMAIN Row(0)' PROVE Row(0)'[c].n \in Arrived + 1 .. Arrived + n
          <5>1. c \in 1 .. n /\ Row(0)'[c].n = Arrived + c
            BY <1>2, <1>8, <4>1
          <5>2. QED BY <1>2, <5>1
        <4>2. i \in DOMAIN Row(0)' /\ j \in DOMAIN Row(0)'
          BY <2>3, <3>1
        <4>3. Row(k)'[i].n \in Segment(last)' /\ Row(k)'[j].n \in Segment(last)'
          BY <1>3, <3>1, <4>1, <4>2
        <4>4. QED BY <1>3, <4>3 DEF SameSegment
      <3>2. CASE k # 0
        <4>1. Row(k)' = Row(k) /\ k \in RowIds
          BY <1>8, <2>3, <3>2
        <4>2. Row(k)[i].n \in Received /\ SameSegment(Row(k)[i].n, Row(k)[j].n)
          BY <1>7, <2>3, <4>1 DEF Placed, InRows
        <4>3. QED BY <1>10, <4>1, <4>2
      <3>3. QED BY <3>1, <3>2
    <2>4. QED BY <2>1, <2>2, <2>3 DEF InRows
  <1>13. \A m : Done(m)' <=> Done(m)
    BY <1>2 DEF Done
  <1>14. ASSUME NEW m PROVE Waiting(m)' <=> Waiting(m) \/ m \in Arrived + 1 .. Arrived + n
    <2>1. ASSUME Waiting(m)' PROVE Waiting(m) \/ m \in Arrived + 1 .. Arrived + n
      <3>1. PICK k \in RowIds' : \E i \in DOMAIN Row(k)' : Row(k)'[i].n = m
        BY <2>1 DEF Waiting
      <3>2. CASE k = 0
        BY <1>2, <1>8, <3>1, <3>2
      <3>3. CASE k # 0
        BY <1>8, <3>1, <3>3 DEF Waiting
      <3>4. QED BY <3>2, <3>3
    <2>2. ASSUME Waiting(m) PROVE \E k \in RowIds' : \E i \in DOMAIN Row(k)' : Row(k)'[i].n = m
      <3>1. PICK k \in RowIds : \E i \in DOMAIN Row(k) : Row(k)[i].n = m
        BY <2>2 DEF Waiting
      <3>2. k # 0
        BY <1>8, <3>1
      <3>3. QED BY <1>8, <3>1, <3>2
    <2>3. ASSUME m \in Arrived + 1 .. Arrived + n
          PROVE  \E k \in RowIds' : \E i \in DOMAIN Row(k)' : Row(k)'[i].n = m
      <3>1. m - Arrived \in DOMAIN tree'.rest /\ tree'.rest[m - Arrived].n = m
        BY <1>2, <2>3
      <3>2. QED BY <1>8, <3>1
    <2>4. QED BY <2>1, <2>2, <2>3 DEF Waiting
  <1>15. /\ \A m : (Done(m) \/ Waiting(m))' => m \in Received'
         /\ \A m \in Received' : (Done(m) \/ Waiting(m) \/ m \in Abandoned)'
    <2>1. Abandoned \subseteq Abandoned'
      BY <1>2, <1>3, <1>5 DEF Abandoned
    <2>2. ASSUME NEW m
          PROVE  /\ Done(m) \/ Waiting(m) => m \in Received
                 /\ m \in Received => Done(m) \/ Waiting(m) \/ m \in Abandoned
      BY DEF Placed
    <2>3. QED BY <1>5, <1>13, <1>14, <2>1, <2>2
  <1>16. \A i, j \in DOMAIN handled : i < j =>
           \A g, b : g = handled[i] /\ b = handled[j].n => Lets(g, b)'
    <2>1. ASSUME NEW i \in DOMAIN handled, NEW j \in DOMAIN handled, i < j,
                 NEW g, NEW b, g = handled[i], b = handled[j].n
          PROVE  Lets(g, b)'
      <3>1. Lets(g, b) /\ g.n \in Received
        BY <1>6, <2>1 DEF Placed
      <3>2. QED BY <1>10, <3>1 DEF Precedes, Lets
    <2>2. QED BY <2>1
  <1>17. ASSUME NEW i \in DOMAIN handled, NEW k \in RowIds', NEW j \in DOMAIN Row(k)',
                NEW g, NEW b, g = handled[i], b = Row(k)'[j].n
         PROVE  Lets(g, b)'
    <2>1. g.n \in Received
      BY <1>6, <1>17
    <2>2. CASE k = 0
      BY <1>9, <1>11, <1>17, <2>1, <2>2 DEF Precedes, Lets
    <2>3. CASE k # 0
      <3>1. Lets(g, b)
        BY <1>8, <1>17, <2>3 DEF Placed
      <3>2. QED BY <1>10, <2>1, <3>1 DEF Precedes, Lets
    <2>4. QED BY <2>2, <2>3
  <1>18. handled' = handled
    BY <1>2
  <1>19. QED BY <1>12, <1>15, <1>16, <1>17, <1>18 DEF Placed

LEMMA NextPlaced == Types /\ WaitInTurn /\ Placed /\ [Next]_vars => Placed'
  <1> SUFFICES ASSUME Types, WaitInTurn, Placed, [Next]_vars PROVE Placed'
    OBVIOUS
  <1>1. CASE Handle
    <2>1. tree.rest # <<>> /\ Leaves /\ segments' = segments
      BY <1>1, HandleCases
    <2>2. QED BY <1>1, <2>1, Recorded, HandlePlaced
  <1>2. ASSUME NEW n \in 1 .. MaxSent, ReceiveSegment(n) PROVE Placed'
    BY <1>2, SegmentPlaced
  <1>3. CASE Application \/ Server \/ (\E n \in 1 .. MaxSent : SegmentTooLarge(n)) \/ UNCHANGED vars
    <2>1. UNCHANGED calls
      BY <1>3 DEF Application, Subscribe, Unsubscribe, Server, Connect, Lost, ServerReads,
        ServerPublishes, ServerWritesBad, SegmentTooLarge, vars
    <2>2. QED BY <2>1, PlacedStays
  <1>4. QED BY <1>1, <1>2, <1>3, RunTailPlaced DEF Next

LEMMA InitPlaced == Init => Placed
  <1> SUFFICES ASSUME Init PROVE Placed
    OBVIOUS
  <1>1. tree.rest = <<>> /\ queue = <<>> /\ segments = <<>> /\ handled = <<>>
    BY DEF Init, NoTree
  <1>2. \A k \in RowIds : k = 0 /\ Row(k) = <<>>
    BY <1>1 DEF RowIds, Row
  <1>3. QED BY <1>1, <1>2 DEF Placed, InRows, Received, Done, Waiting

LEMMA RowsIndexed ==
  ASSUME Types
  PROVE  /\ DOMAIN Rows = 1 .. Len(queue) + 2
         /\ Rows[1] = handled /\ \A r \in DOMAIN Rows : r > 1 => r - 2 \in RowIds /\ Rows[r] = Row(r - 2)
         /\ \A k \in RowIds : k + 2 \in DOMAIN Rows
  <1>1. PICK S : S = Seq(Packet) \cup {handled, tree.rest}
    OBVIOUS
  <1>2. <<handled, tree.rest>> \in Seq(S) /\ queue \in Seq(S)
    BY <1>1 DEF Types
  <1>3. PICK q \in Seq(S) : q = <<handled, tree.rest>>
    BY <1>2
  <1>4. Len(q) = 2 /\ q[1] = handled /\ q[2] = tree.rest
    BY <1>3
  <1>5. /\ DOMAIN Rows = 1 .. Len(queue) + 2 /\ Len(queue) \in Nat
        /\ \A r \in DOMAIN Rows : Rows[r] = IF r <= 2 THEN q[r] ELSE queue[r - 2]
    BY <1>2, <1>3, <1>4 DEF Rows
  <1>6. QED BY <1>4, <1>5 DEF RowIds, Row

(* Every packet that was received is handled, once, or is still to be, unless it
   came in one segment behind a packet at which _handlePacket returns; then it never
   is.  And those of one segment are handled in its order. *)
THEOREM NothingEverSkipped == Spec => []NothingSkipped
  <1>1. Types /\ Placed => NothingSkipped
    <2> SUFFICES ASSUME Types, Placed PROVE NothingSkipped
      OBVIOUS
    <2>1. ASSUME NEW m PROVE (\E r \in DOMAIN Rows : \E i \in DOMAIN Rows[r] : Rows[r][i].n = m)
                             <=> Done(m) \/ Waiting(m)
      <3>1. ASSUME NEW r \in DOMAIN Rows, NEW i \in DOMAIN Rows[r], Rows[r][i].n = m
            PROVE  Done(m) \/ Waiting(m)
        <4>1. r = 1 \/ r > 1
          BY <3>1, RowsIndexed, RowTypes
        <4>2. QED BY <3>1, <4>1, RowsIndexed DEF Done, Waiting
      <3>2. ASSUME Done(m) PROVE \E r \in DOMAIN Rows : \E i \in DOMAIN Rows[r] : Rows[r][i].n = m
        <4>1. 1 \in DOMAIN Rows /\ Rows[1] = handled
          BY RowsIndexed, RowTypes
        <4>2. QED BY <3>2, <4>1 DEF Done
      <3>3. ASSUME Waiting(m) PROVE \E r \in DOMAIN Rows : \E i \in DOMAIN Rows[r] : Rows[r][i].n = m
        <4>1. PICK k \in RowIds : \E i \in DOMAIN Row(k) : Row(k)[i].n = m
          BY <3>3 DEF Waiting
        <4>2. k \in Nat /\ k + 2 > 1 /\ k + 2 - 2 = k
          BY RowTypes
        <4>3. k + 2 \in DOMAIN Rows /\ Rows[k + 2] = Row(k)
          BY <4>2, RowsIndexed
        <4>4. QED BY <4>1, <4>3
      <3>4. QED BY <3>1, <3>2, <3>3
    <2>2. ASSUME NEW r \in DOMAIN Rows, NEW s \in DOMAIN Rows, NEW i \in DOMAIN Rows[r],
                 NEW j \in DOMAIN Rows[s], r < s \/ (r = s /\ i < j)
          PROVE  Precedes(Rows[r][i].n, Rows[s][j].n)
      <3>1. r \in Nat /\ s \in Nat /\ r >= 1 /\ s >= 1
        BY RowsIndexed, RowTypes
      <3>2. CASE r = 1 /\ s = 1
        BY <2>2, <3>2, RowsIndexed DEF Placed, Lets
      <3>3. CASE r = 1 /\ s > 1
        BY <2>2, <3>3, RowsIndexed DEF Placed, Lets
      <3>4. CASE r > 1 /\ s > 1
        <4>1. /\ Rows[r] = Row(r - 2) /\ Rows[s] = Row(s - 2)
              /\ r - 2 \in RowIds /\ s - 2 \in RowIds
          BY <3>4, RowsIndexed
        <4>2. CASE r = s
          <5>1. Rows[r][i].n < Rows[s][j].n
            BY <2>2, <3>1, <4>1, <4>2 DEF Placed, InRows
          <5>2. Rows[r][i].n \in Nat /\ Rows[s][j].n \in Nat
            BY <2>2, <4>1, RowTypes
          <5>3. Rows[r][i].n # Rows[s][j].n
            BY <5>1, <5>2
          <5>4. QED BY <5>1, <5>3 DEF Precedes
        <4>3. CASE r # s
          <5>1. r - 2 # s - 2
            BY <3>1, <4>3
          <5>2. ~SameSegment(Rows[r][i].n, Rows[s][j].n)
            BY <2>2, <4>1, <5>1 DEF Placed, InRows
          <5>3. SameSegment(Rows[r][i].n, Rows[r][i].n)
            BY <2>1, <2>2, ReceivedSame DEF Placed
          <5>4. QED BY <5>2, <5>3 DEF Precedes
        <4>4. QED BY <4>2, <4>3
      <3>5. QED BY <2>2, <3>1, <3>2, <3>3, <3>4
    <2>3. ASSUME NEW m, Done(m) \/ Waiting(m), m \in Abandoned PROVE FALSE
      <3>1. PICK i \in DOMAIN handled, k \in DOMAIN segments :
              handled[i].returns /\ {handled[i].n, m} \subseteq Segment(k) /\ handled[i].n < m
        BY <2>3 DEF Abandoned
      <3>2. SameSegment(handled[i].n, m) /\ SameSegment(m, handled[i].n)
        BY <3>1 DEF SameSegment
      <3>3. CASE Waiting(m)
        BY <3>1, <3>2, <3>3 DEF Waiting, Placed, Lets
      <3>4. CASE Done(m)
        <4>1. PICK j \in DOMAIN handled : handled[j].n = m
          BY <3>4 DEF Done
        <4>2. i \in Nat /\ j \in Nat /\ handled[i].n \in Nat /\ handled[j].n \in Nat
          <5>1. DOMAIN handled = 1 .. Len(handled) /\ Len(handled) \in Nat
            BY SeqElements DEF Types
          <5>2. QED BY <5>1, HistoryType
        <4>3. CASE i < j
          BY <3>1, <3>2, <4>1, <4>3 DEF Placed, Lets
        <4>4. CASE j < i
          <5>1. m < handled[i].n
            BY <3>2, <4>1, <4>4 DEF Placed, Lets, Precedes
          <5>2. QED BY <3>1, <4>1, <4>2, <5>1
        <4>5. CASE i = j
          BY <3>1, <4>1, <4>2, <4>5
        <4>6. QED BY <4>2, <4>3, <4>4, <4>5
      <3>5. QED BY <2>3, <3>3, <3>4
    <2>4. UNION {{Rows[r][i].n : i \in DOMAIN Rows[r]} : r \in DOMAIN Rows}
            = Received \ Abandoned
      <3>1. \A m : m \in Received \ Abandoned <=> Done(m) \/ Waiting(m)
        BY <2>3 DEF Placed
      <3>2. QED BY <2>1, <3>1
    <2>5. QED BY <2>2, <2>4 DEF NothingSkipped, Precedes, SameSegment
  <1>2. Init => Types /\ WaitInTurn /\ Placed
    <2>1. Init => WaitInTurn
      BY DEF Init, WaitInTurn, OnlyRestsOvertaken, Arrived, NoTree, Queued, Range
    <2>2. QED BY <2>1, InitTypes, InitPlaced
  <1>3. Types /\ WaitInTurn /\ Placed /\ [Next]_vars => (Types /\ WaitInTurn /\ Placed)'
    BY NextTypes, NextWaits, NextPlaced
  <1>4. QED BY <1>1, <1>2, <1>3, PTL DEF Spec
=============================================================================
