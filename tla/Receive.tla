------------------------------ MODULE Receive -------------------------------
(***************************************************************************)
(* How received packets reach the application: _handlePacket, which works  *)
(* through a TCP segment packet by packet and leaves the rest of a long    *)
(* one to a queued function, and _hpDespatch, which chooses the callback   *)
(* by subscription identifier.  A handler may call the application, which  *)
(* may subscribe there and then; nothing else runs before it returns.      *)
(*                                                                         *)
(* The server and TCP are external.  A packet is numbered by its place in  *)
(* what the server wrote.                                                  *)
(***************************************************************************)
EXTENDS Maps, FiniteSets, SequencesExt

CONSTANTS
  TopicSets,       \* the sets of topic filters the application subscribes to
  MaxNested,       \* 10: packets handled in one call tree after the first
  MaxSegment,      \* MQTT_CONNECT_MAX_PACKET_SIZE, as Size counts
  MaxSent,         \* bound: packets the server writes
  MaxBad,          \* bound: packets on their way that the client will reject
  MaxCalls,        \* bound: calls of subscribe() and unsubscribe()
  MaxConnections   \* bound: connections

ASSUME ReceiveAssumption ==
  /\ {} \notin TopicSets
  /\ {MaxNested, MaxSegment, MaxSent, MaxBad, MaxCalls, MaxConnections} \subseteq Nat

VARIABLES
  connections,     \* connections made so far
  up,              \* the TCP connection is open
  running,         \* _state is H4AMC_RUNNING
  subIdsAvailable, \* getServerOptions().subscriptions_identifiers_available
  subsResources,   \* _subsResources
  subId,           \* subId
  tree,            \* packets the running call tree has before it, and n_handled
  queue,           \* queued functions, each with the copied rest of a segment
  subs,            \* server: its subscriptions
  toServer,        \* SUBSCRIBE and UNSUBSCRIBE on their way
  toClient,        \* packets written and not received
  written,         \* packets the server wrote
  session,         \* history: sessions that were lost
  asked,           \* history: the topics of each call
  segments,        \* history: the first and last packet of each segment
  handled          \* history: packets handled, and the callbacks called

client == <<subIdsAvailable, subsResources, subId>>
server == <<subs, written>>
calls  == <<tree, queue, segments, handled>>
vars   == <<connections, up, running, client, calls, server, toServer, toClient,
            session, asked>>

General == 0   \* _cbMessage; the callback given with the k-th call is k

NoCallback == 0

NoId == 0

(* What the server knows of a subscription, and, for the properties, the
   callback and topics that its SUBSCRIBE came from. *)
Subscription == [id : Nat, cb : Nat, topix : TopicSets, session : Nat]

(* Whether the server starts a session, resumes the client's, or resumes one of
   which a client that asked for a clean start knows nothing. *)
Answer == {"CLEAN", "RESUMED", "UNKNOWN"}

(* CONNACK, with what its properties say or none at all. *)
Connack(n, answer, props, ids) ==
  [type |-> "CONNACK", n |-> n, answer |-> answer, props |-> props, ids |-> ids]

Publish(n, matched) == [type |-> "PUBLISH", n |-> n, matched |-> matched]

Other(type, n) == [type |-> type, n |-> n]

TypeOK ==
  /\ connections \in 0 .. MaxConnections
  /\ {up, running, subIdsAvailable} \subseteq BOOLEAN
  /\ DOMAIN subsResources \subseteq 1 .. subId
  /\ \A id \in DOMAIN subsResources : subsResources[id] \in [cb : 1 .. MaxCalls, topix : TopicSets]
  /\ subId \in 0 .. MaxCalls
  /\ tree.nested \in 0 .. MaxNested
  /\ \A i \in DOMAIN queue : queue[i] # <<>>
  /\ DOMAIN subs \subseteq UNION TopicSets
  /\ \A f \in DOMAIN subs : subs[f] \in Subscription
  /\ written \in 0 .. MaxSent
  /\ asked \in Seq(TopicSets) /\ Len(asked) <= MaxCalls
  /\ session \in 0 .. MaxConnections

NoTree == [rest |-> <<>>, nested |-> 0]

Idle == tree = NoTree

Init ==
  /\ connections = 0
  /\ up = FALSE
  /\ running = FALSE
  /\ subIdsAvailable = TRUE
  /\ subsResources = EmptyMap
  /\ subId = 0
  /\ tree = NoTree
  /\ queue = <<>>
  /\ subs = EmptyMap
  /\ toServer = <<>>
  /\ toClient = <<>>
  /\ written = 0
  /\ session = 0
  /\ asked = <<>>
  /\ segments = <<>>
  /\ handled = <<>>

-----------------------------------------------------------------------------
(* The application. *)

(* The identifier of the same set of topics is used again, with the new
   callback. *)
Registered(topix, cb) ==
  LET same == {id \in DOMAIN subsResources : subsResources[id].topix = topix}
  IN IF same # {}
     THEN /\ subsResources' = [id \in DOMAIN subsResources |->
               IF id \in same THEN [subsResources[id] EXCEPT !.cb = cb] ELSE subsResources[id]]
          /\ UNCHANGED subId
     ELSE /\ subId' = subId + 1
          /\ subsResources' = Put(subsResources, subId', [cb |-> cb, topix |-> topix])

(* subscribe(): _multiTopic registers the callback while it counts the packet's
   size, so before the server's Maximum Packet Size may discard the packet. *)
Subscribe(topix, callback, tooBig) ==
  LET cb   == Len(asked) + 1
      uses == subIdsAvailable /\ callback
      id   == CHOOSE i \in DOMAIN subsResources' : subsResources'[i].topix = topix
  IN /\ running
     /\ Len(asked) < MaxCalls
     /\ asked' = Append(asked, topix)
     /\ IF uses THEN Registered(topix, cb) ELSE UNCHANGED <<subId, subsResources>>
     /\ toServer' = IF tooBig THEN toServer
                    ELSE Append(toServer,
                           [topix |-> topix, subscribes |-> TRUE,
                            id |-> IF uses THEN id ELSE NoId,
                            cb |-> IF uses THEN cb ELSE NoCallback])
     /\ UNCHANGED <<connections, up, running, subIdsAvailable, calls, server,
                    toClient, session>>

(* unsubscribe(): nothing is taken out of _subsResources, then or later. *)
Unsubscribe(topix) ==
  /\ running
  /\ Len(asked) < MaxCalls
  /\ asked' = Append(asked, topix)
  /\ toServer' = Append(toServer, [topix |-> topix, subscribes |-> FALSE,
                                   id |-> NoId, cb |-> NoCallback])
  /\ UNCHANGED <<connections, up, running, client, calls, server, toClient, session>>

-----------------------------------------------------------------------------
(* TCP and the server. *)

Write(packet) == /\ toClient' = Append(toClient, packet)
                 /\ written' = written + 1

(* A connection, its CONNECT and the server's answer; a session is resumed if
   the server has it, and ought to be only if the client asks for it.  It takes
   a property to say that there are no subscription identifiers. *)
Connect(answer, props, ids) ==
  /\ ~up /\ Idle
  /\ connections < MaxConnections
  /\ written < MaxSent
  /\ answer # "CLEAN" => connections > 0
  /\ ~ids => props
  /\ connections' = connections + 1
  /\ up' = TRUE
  /\ subs' = IF answer = "CLEAN" THEN EmptyMap ELSE subs
  /\ session' = IF answer = "CLEAN" THEN session + 1 ELSE session
  /\ Write(Connack(written + 1, answer, props, ids))
  /\ UNCHANGED <<running, client, calls, toServer, asked>>

(* The connection is lost, with everything on its way. *)
Gone ==
  /\ up' = FALSE
  /\ running' = FALSE
  /\ toServer' = <<>>
  /\ toClient' = <<>>

Lost ==
  /\ up /\ Idle
  /\ Gone
  /\ UNCHANGED <<connections, client, calls, server, session, asked>>

ServerReads ==
  LET p == Head(toServer)
      s == [id |-> p.id, cb |-> p.cb, topix |-> p.topix, session |-> session]
  IN /\ up /\ toServer # <<>>
     /\ written < MaxSent
     /\ toServer' = Tail(toServer)
     /\ subs' = IF p.subscribes
                THEN [f \in DOMAIN subs \cup p.topix |-> IF f \in p.topix THEN s ELSE subs[f]]
                ELSE Restrict(subs, DOMAIN subs \ p.topix)
     /\ Write(Other(IF p.subscribes THEN "SUBACK" ELSE "UNSUBACK", written + 1))
     /\ UNCHANGED <<connections, up, running, client, calls, session, asked>>

(* A message that matches some subscriptions: one copy for all of them. *)
ServerPublishes(filters) ==
  /\ up
  /\ written < MaxSent
  /\ Write(Publish(written + 1, {subs[f] : f \in filters}))
  /\ UNCHANGED <<connections, up, running, client, calls, subs, toServer,
                 session, asked>>

(* A packet that the client answers with _protocolError: in its handler, as a
   PUBLISH under the largest topic alias, or because it cannot be parsed or is
   cut off at the end of its segment. *)
BadTypes == {"REJECTED", "MALFORMED"}

ServerWritesBad(type) ==
  /\ up
  /\ written < MaxSent
  /\ Cardinality({i \in DOMAIN toClient : toClient[i].type \in BadTypes}) < MaxBad
  /\ Write(Other(type, written + 1))
  /\ UNCHANGED <<connections, up, running, client, calls, subs, toServer,
                 session, asked>>

-----------------------------------------------------------------------------
(* The client. *)

(* The size of packets: a message counts 2, any other packet 1. *)
Size(packets) ==
  Len(packets) + Cardinality({i \in DOMAIN packets : packets[i].type = "PUBLISH"})

(* A segment that is larger than the largest packet is an error as a whole. *)
SegmentTooLarge(n) ==
  /\ up /\ Idle
  /\ n \in 1 .. Len(toClient)
  /\ Size(SubSeq(toClient, 1, n)) > MaxSegment
  /\ Gone
  /\ UNCHANGED <<connections, client, calls, server, session, asked>>

(* onRX: the first n packets arrive as one segment. *)
ReceiveSegment(n) ==
  /\ up /\ Idle
  /\ n \in 1 .. Len(toClient)
  /\ Size(SubSeq(toClient, 1, n)) <= MaxSegment
  /\ tree' = [rest |-> SubSeq(toClient, 1, n), nested |-> 0]
  /\ toClient' = SubSeq(toClient, n + 1, Len(toClient))
  /\ segments' = Append(segments, [first |-> toClient[1].n, last |-> toClient[n].n])
  /\ UNCHANGED <<connections, up, running, client, queue, handled, server, toServer,
                 session, asked>>

(* Slip: the rest waits for a connection. *)
RunTailConnected ==
  /\ Idle /\ running
  /\ queue # <<>>
  /\ tree' = [rest |-> Head(queue), nested |-> 0]
  /\ queue' = Tail(queue)
  /\ UNCHANGED <<connections, up, running, client, segments, handled, server, toServer,
                 toClient, session, asked>>

(* The queued function: _handlePacket of a rest, on whatever connection is
   current by then. *)
RunTail ==
  /\ Idle
  /\ queue # <<>>
  /\ tree' = [rest |-> Head(queue), nested |-> 0]
  /\ queue' = Tail(queue)
  /\ UNCHANGED <<connections, up, running, client, segments, handled, server, toServer,
                 toClient, session, asked>>

(* Slip: the counter is tested after it is incremented. *)
GoRoundOneMore ==
  LET rest == Tail(tree.rest)
  IN IF rest = <<>> THEN tree' = NoTree /\ UNCHANGED queue
     ELSE IF tree.nested <= MaxNested
     THEN tree' = [rest |-> rest, nested |-> tree.nested + 1] /\ UNCHANGED queue
     ELSE tree' = NoTree /\ queue' = Append(queue, rest)

(* Slip: one packet less in a call tree. *)
GoRoundEarly ==
  LET rest == Tail(tree.rest)
  IN IF rest = <<>> THEN tree' = NoTree /\ UNCHANGED queue
     ELSE IF tree.nested + 1 < MaxNested
     THEN tree' = [rest |-> rest, nested |-> tree.nested + 1] /\ UNCHANGED queue
     ELSE tree' = NoTree /\ queue' = Append(queue, rest)

(* The end of _handlePacket: the next packet of the segment, or the rest is
   copied and queued. *)
GoRound ==
  LET rest == Tail(tree.rest)
  IN IF rest = <<>> THEN tree' = NoTree /\ UNCHANGED queue
     ELSE IF tree.nested < MaxNested
     THEN tree' = [rest |-> rest, nested |-> tree.nested + 1] /\ UNCHANGED queue
     ELSE tree' = NoTree /\ queue' = Append(queue, rest)

(* The packets at which _handlePacket returns before it has looked for the next:
   what follows in their segment is lost, on a connection that goes on in the
   case of a CONNACK without properties. *)
Returns(p) ==
  \/ p.type = "MALFORMED"
  \/ p.type = "CONNACK" /\ (~p.props \/ p.answer = "UNKNOWN")

(* Slip: the rest is queued before the return. *)
ReturnLate ==
  /\ tree' = NoTree
  /\ queue' = IF Len(tree.rest) > 1 THEN Append(queue, Tail(tree.rest)) ELSE queue

Return ==
  /\ tree' = NoTree
  /\ UNCHANGED queue

Handling(type) == tree.rest # <<>> /\ Head(tree.rest).type = type

Record(matched, got) ==
  LET p == Head(tree.rest)
  IN handled' = Append(handled, [n |-> p.n, matched |-> matched, got |-> got,
                                 session |-> session, returns |-> Returns(p)])

(* Slip: identifiers start again with the session. *)
HandleSessionAnew(present) ==
  IF present THEN UNCHANGED <<subsResources, subId>>
  ELSE subsResources' = EmptyMap /\ subId' = 0

(* Slip: the callbacks are forgotten with the connection. *)
HandleSessionNever(present) ==
  subsResources' = EmptyMap /\ UNCHANGED subId

(* _resendPartialTxns *)
HandleSession(present) ==
  /\ subsResources' = IF present THEN subsResources ELSE EmptyMap
  /\ UNCHANGED subId

HandleConnack ==
  /\ Handling("CONNACK")
  /\ ~Returns(Head(tree.rest))
  /\ running' = TRUE
  /\ subIdsAvailable' = Head(tree.rest).ids
  /\ HandleSession(Head(tree.rest).answer = "RESUMED")
  /\ Record({}, {})
  /\ GoRound
  /\ UNCHANGED <<segments, connections, up, server, toServer, toClient, session, asked>>

(* A server that sends no properties: "INCOMPLIAT SERVER!". *)
ConnackWithoutProperties ==
  /\ Handling("CONNACK")
  /\ ~Head(tree.rest).props
  /\ Record({}, {})
  /\ Return
  /\ UNCHANGED <<connections, up, running, client, segments, server, toServer, toClient,
                 session, asked>>

ConnackUnknownSession ==
  /\ Handling("CONNACK")
  /\ Head(tree.rest).props
  /\ Head(tree.rest).answer = "UNKNOWN"
  /\ subIdsAvailable' = Head(tree.rest).ids
  /\ Record({}, {})
  /\ Return
  /\ Gone
  /\ UNCHANGED <<segments, connections, subsResources, subId, server, session, asked>>

(* _hpDespatch: the callback of every known identifier, or the general one. *)
Called(ids) ==
  IF ids \cap DOMAIN subsResources = {} THEN {General}
  ELSE {subsResources[id].cb : id \in ids \cap DOMAIN subsResources}

HandlePublish ==
  LET matched == Head(tree.rest).matched
  IN /\ Handling("PUBLISH")
     /\ Record(matched, Called({s.id : s \in matched} \ {NoId}))
     /\ GoRound
     /\ UNCHANGED <<segments, connections, up, running, client, server, toServer, toClient,
                    session, asked>>

(* SUBACK and UNSUBACK: the deletion of a subscription is never proposed, so
   _confirmDeletion finds none. *)
HandleSubackUnsuback ==
  /\ Handling("SUBACK") \/ Handling("UNSUBACK")
  /\ Record({}, {})
  /\ GoRound
  /\ UNCHANGED <<segments, connections, up, running, client, server, toServer, toClient,
                 session, asked>>

(* The connection is closed, and the segment is worked through all the same. *)
HandleRejected ==
  /\ Handling("REJECTED")
  /\ Record({}, {})
  /\ GoRound
  /\ Gone
  /\ UNCHANGED <<segments, connections, client, server, session, asked>>

(* mqttTraits finds the packet malformed or incomplete: the connection is closed,
   and nothing behind the packet is looked at. *)
HandleMalformed ==
  /\ Handling("MALFORMED")
  /\ Record({}, {})
  /\ Return
  /\ Gone
  /\ UNCHANGED <<segments, connections, client, server, session, asked>>

-----------------------------------------------------------------------------
Application ==
  \/ \E topix \in TopicSets, callback \in BOOLEAN : Subscribe(topix, callback, FALSE)
  \/ \E topix \in TopicSets : Subscribe(topix, TRUE, TRUE)
  \/ \E topix \in TopicSets : Unsubscribe(topix)

Server ==
  \/ \E answer \in Answer, props \in BOOLEAN, ids \in BOOLEAN : Connect(answer, props, ids)
  \/ Lost
  \/ ServerReads
  \/ \E filters \in SUBSET DOMAIN subs \ {{}} : ServerPublishes(filters)
  \/ \E type \in BadTypes : ServerWritesBad(type)

Handle ==
  \/ HandleConnack
  \/ ConnackWithoutProperties
  \/ ConnackUnknownSession
  \/ HandlePublish
  \/ HandleSubackUnsuback
  \/ HandleRejected
  \/ HandleMalformed

Next ==
  \/ Application
  \/ Server
  \/ \E n \in 1 .. MaxSent : SegmentTooLarge(n) \/ ReceiveSegment(n)
  \/ RunTail
  \/ Handle

Spec == Init /\ [][Next]_vars

(* A handler returns, and the H4 loop runs what is queued. *)
FairSpec == Spec /\ WF_vars(Handle) /\ WF_vars(RunTail)

-----------------------------------------------------------------------------
Segment(k) == segments[k].first .. segments[k].last

Received == UNION {Segment(k) : k \in DOMAIN segments}

(* The packets that were received, in the order in which they are handled: those
   that were, the call tree, and the queued rests. *)
Rows == <<handled, tree.rest>> \o queue

(* What came behind a packet at which the handler returns. *)
Abandoned ==
  {n \in Received : \E i \in DOMAIN handled, k \in DOMAIN segments :
     /\ handled[i].returns
     /\ {handled[i].n, n} \subseteq Segment(k)
     /\ handled[i].n < n}

(* Every packet that was received is handled, once, or is still before the call
   tree, or in a queued rest, except those that came in one segment behind a
   packet at which _handlePacket returns, none of which is ever handled.  The
   queue loses nothing at a closed connection, a rejected packet or a rest that
   is itself too long.  And what a segment carries is handled in its order. *)
NothingSkipped ==
  /\ UNION {{Rows[r][i].n : i \in DOMAIN Rows[r]} : r \in DOMAIN Rows} = Received \ Abandoned
  /\ \A r, s \in DOMAIN Rows : \A i \in DOMAIN Rows[r], j \in DOMAIN Rows[s] :
       r < s \/ (r = s /\ i < j) =>
         /\ Rows[r][i].n # Rows[s][j].n
         /\ \A k \in DOMAIN segments :
              {Rows[r][i].n, Rows[s][j].n} \subseteq Segment(k) => Rows[r][i].n < Rows[s][j].n

(* A packet is handled before an earlier one only if the earlier one was more
   than MaxNested packets into its segment: the others never wait. *)
OnlyRestsOvertaken ==
  \A i, j \in DOMAIN handled : i < j /\ handled[j].n < handled[i].n =>
    \E k \in DOMAIN segments : /\ handled[j].n \in Segment(k)
                              /\ handled[j].n - segments[k].first > MaxNested

(* A message reaches a callback for every subscription it was sent for that
   carries an identifier, the last one the application gave for those topics,
   and no callback of other topics, even if it is handled on a later
   connection or after its session was lost. *)
RightCallback ==
  \A i \in DOMAIN handled :
    LET h == handled[i]
        callbacks == h.got \ {General}
    IN /\ h.matched # {} => h.got # {}
       /\ \A cb \in callbacks : \E s \in h.matched :
            /\ s.id # NoId
            /\ asked[cb] = s.topix /\ cb >= s.cb
       /\ \A s \in h.matched : s.id # NoId /\ s.session = h.session =>
            \E cb \in callbacks : asked[cb] = s.topix

(* The client knows every identifier that a subscription of its session
   carries, at the server or on its way there. *)
ServerIdsKnown ==
  running =>
    /\ \A f \in DOMAIN subs : subs[f].id # NoId => subs[f].id \in DOMAIN subsResources
    /\ \A i \in DOMAIN toServer :
         toServer[i].id # NoId => toServer[i].id \in DOMAIN subsResources

(* Again and again no packet waits, whatever becomes of its connection: each that
   was received is handled in the end, or stands in its segment behind one at
   which _handlePacket returned. *)
EverythingHandled ==
  []<>(Received \ Abandoned \subseteq {handled[i].n : i \in DOMAIN handled})
=============================================================================
