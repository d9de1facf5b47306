------------------------------ MODULE Session -------------------------------
(***************************************************************************)
(* The client's half of the MQTT session: the outbound and inbound packet  *)
(* stores, flow control against the broker's Receive Maximum, the          *)
(* acknowledgement handlers and the resend at reconnection                 *)
(* (H4AsyncMQTT.cpp, H4AsyncMQTT.h, Packet.cpp, Packet.h; MQTT5 = 1).      *)
(*                                                                         *)
(* The connection life cycle is reduced to what decides when these run:    *)
(* module Connection models it in full.  Topic aliases are not negotiated  *)
(* here (Topic Alias Maximum 0), so every stored PUBLISH carries its topic.*)
(***************************************************************************)
EXTENDS Wire

CONSTANTS
  Word,               \* _inflight is a uint32_t: arithmetic modulo Word
  MaxRetries,         \* H4AMC_MAX_RETRIES
  DefaultReceiveMax,  \* Receive Maximum before the broker announces one
  MayBeTooBig         \* packets may exceed the broker's Maximum Packet Size

ASSUME SessionAssumption ==
  /\ Word \in Nat \ {0}
  /\ MaxRetries \in Nat \ {0}
  /\ DefaultReceiveMax \in Nat \ {0}
  /\ MayBeTooBig \in BOOLEAN

VARIABLES
  state,          \* _state
  connectQueued,  \* a ConnectPacket waits in the H4 queue
  outbound,       \* _outbound: packets stored until they are acknowledged
  inbound,        \* _inbound: QoS 2 identifiers between PUBLISH and PUBREL
  pending,        \* _pending: identifiers flow control holds back
  inflight,       \* _inflight
  nextId,         \* _nextId, counted from its initial value
  receiveMax,     \* getServerOptions().receive_max
  dispatched,     \* history: how often each message reached the application
  abandoned,      \* history: messages _startClean dropped unacknowledged
  qos2Messages,   \* history: messages published at QoS 2
  tooBig          \* history: messages discarded for their size

sessionVars == <<state, connectQueued, outbound, inbound, pending, inflight,
                 nextId, receiveMax, dispatched, abandoned, qos2Messages, tooBig>>

State == {"DISCONNECTED", "CONNECTING", "TCP_CONNECTED", "RUNNING"}

Entry == [kind : {"PUBLISH"} \cup RequestKinds, qos : {0} \cup QoS,
          msg : {0} \cup OutMsg, pubrec : BOOLEAN, retries : Nat,
          freed : BOOLEAN]

SessionTypeOK ==
  /\ state \in State
  /\ connectQueued \in BOOLEAN
  /\ DOMAIN outbound \subseteq PacketId
  /\ \A id \in DOMAIN outbound : outbound[id] \in Entry
  /\ inbound \subseteq InIds
  /\ pending \in Seq(PacketId)
  /\ inflight \in 0 .. Word - 1
  /\ nextId \in 0 .. MaxPublish
  /\ receiveMax \in Nat \ {0}
  /\ dispatched \in [InMsg -> Nat]
  /\ abandoned \subseteq {0} \cup OutMsg
  /\ qos2Messages \subseteq OutMsg
  /\ tooBig \subseteq OutMsg

SessionInit ==
  /\ state = "DISCONNECTED"
  /\ connectQueued = FALSE
  /\ outbound = EmptyMap
  /\ inbound = {}
  /\ pending = <<>>
  /\ inflight = 0
  /\ nextId = 0
  /\ receiveMax = DefaultReceiveMax
  /\ dispatched = [m \in InMsg |-> 0]
  /\ abandoned = {}
  /\ qos2Messages = {}
  /\ tooBig = {}

HaveSessionData == inbound # {} \/ DOMAIN outbound # {}

StoredPublishes == {id \in DOMAIN outbound : outbound[id].kind = "PUBLISH"}

-----------------------------------------------------------------------------
(* Helpers of the handlers. *)

(* _send: nothing leaves unless RUNNING or TCP_CONNECTED; TX on a closed
   connection goes nowhere. *)
Send(packets) ==
  toServer' = IF state \in {"RUNNING", "TCP_CONNECTED"} /\ linkUp
              THEN toServer \o packets ELSE toServer

StoredPacket(id) ==
  IF outbound[id].kind = "PUBLISH"
  THEN Publish(id, outbound[id].qos, outbound[id].msg)
  ELSE Request(outbound[id].kind, id, outbound[id].msg)

(* _ACKoutbound: release the stored packet (an unknown identifier is only
   reported to the application). *)
AckOutbound(id) == outbound' = Drop(outbound, id)

(* Slip: the packet that waited last is sent first. *)
RunFlowLast(store) ==
  LET n == Len(pending)
  IN IF pending[n] \in DOMAIN store
     THEN Send(<<StoredPacket(pending[n])>>) /\ pending' = SubSeq(pending, 1, n - 1)
     ELSE UNCHANGED <<toServer, pending>>

(* _runFlow, called with a non-empty _pending: send the packet at its front,
   unless `store` no longer holds it. *)
RunFlow(store) ==
  LET front == Head(pending)
  IN IF front \in DOMAIN store
     THEN Send(<<StoredPacket(front)>>) /\ pending' = Tail(pending)
     ELSE UNCHANGED <<toServer, pending>>

(* Slips: nothing is sent in place of what ended; the count goes down although
   another packet took the place; the count is not a machine word. *)
PublishEndOnly(store) ==
  inflight' = (inflight - 1) % Word /\ UNCHANGED <<toServer, pending>>

PublishEndTwice(store) ==
  /\ IF pending # <<>> THEN RunFlow(store) ELSE UNCHANGED <<toServer, pending>>
  /\ inflight' = (inflight - 1) % Word

PublishEndUnbounded(store) ==
  IF pending # <<>>
  THEN RunFlow(store) /\ UNCHANGED inflight
  ELSE inflight' = inflight - 1 /\ UNCHANGED <<toServer, pending>>

(* _publishEnd: one exchange ended, so the next held-back packet takes its
   place, or there is one fewer in flight. *)
PublishEnd(store) ==
  IF pending # <<>>
  THEN RunFlow(store) /\ UNCHANGED inflight
  ELSE inflight' = (inflight - 1) % Word /\ UNCHANGED <<toServer, pending>>

(* Slip: only the outbound store is cleared. *)
StartCleanOutbound ==
  /\ outbound' = EmptyMap
  /\ abandoned' = abandoned \cup {outbound[id].msg : id \in DOMAIN outbound}
  /\ UNCHANGED inbound

(* _startClean *)
StartClean ==
  /\ inbound' = {}
  /\ outbound' = EmptyMap
  /\ abandoned' = abandoned \cup {outbound[id].msg : id \in DOMAIN outbound}

(* Slip: one attempt too few. *)
SpentEarly == {id \in DOMAIN outbound : outbound[id].retries <= 2}

(* What has no attempt left at reconnection.  The count is decremented in a
   copy of the entry, so it never runs down. *)
Spent == {id \in DOMAIN outbound : outbound[id].retries = 1}

(* Slip: the PUBREC is forgotten, and the message is published again. *)
ReleasedNone == {}

(* What the broker has taken over: PUBREL goes on with the exchange. *)
Released == {id \in DOMAIN outbound : outbound[id].pubrec}

(* Slip: Receive Maximum is not applied to what is sent again. *)
RoomForAll(rmax) == Cardinality(DOMAIN outbound)

(* How many publishes _canPublishQoS still admits. *)
Room(rmax) == IF inflight < rmax THEN rmax - inflight ELSE 0

(* _resendPartialTxns(true): PUBREL for what was released, and the other stored
   publishes again as far as Receive Maximum allows, in order of identifier;
   the rest wait in _pending. *)
ResendPartialTxns(rmax) ==
  LET kept  == DOMAIN outbound \ Spent
      rels  == kept \cap Released
      pubs  == {id \in kept \cap StoredPublishes : id # 0} \ rels
      room  == Room(rmax)
  IN \E order \in Ascending(pubs) :
       LET fit == IF Len(order) <= room THEN Len(order) ELSE room
           now == {order[i] : i \in 1 .. fit}
       IN \E batch \in Ascending(rels \cup now) :
            /\ toServer' = toServer \o
                 [i \in DOMAIN batch |-> IF batch[i] \in rels
                                        THEN Ack("PUBREL", batch[i])
                                        ELSE StoredPacket(batch[i])]
            /\ pending' = pending \o SubSeq(order, fit + 1, Len(order))
            /\ inflight' = (inflight + fit) % Word
            /\ outbound' = Restrict(outbound, kept)

-----------------------------------------------------------------------------
(* The application's calls. *)

(* The packet that takes the next identifier, as it is stored: the data of
   identifier 0, which counts as none, is freed. *)
NewEntry(kind, qos) ==
  [kind |-> kind, qos |-> qos, msg |-> nextId + 1, pubrec |-> FALSE,
   retries |-> MaxRetries, freed |-> (nextId + 1) % IdSpace = 0]

(* publish() with QoS 1 or 2, guarded by _runGuard: take the next identifier,
   store the packet, and send it unless Receive Maximum is reached.  Flow
   control passes over identifier 0. *)
PublishPacket(qos) ==
  /\ state = "RUNNING"
  /\ nextId < MaxPublish
  /\ nextId' = nextId + 1
  /\ qos2Messages' = IF qos = 2 THEN qos2Messages \cup {nextId'} ELSE qos2Messages
  /\ LET id == nextId' % IdSpace
     IN /\ outbound' = Put(outbound, id, NewEntry("PUBLISH", qos))
        /\ IF id # 0 /\ inflight >= receiveMax
           THEN /\ pending' = Append(pending, id)
                /\ UNCHANGED <<inflight, toServer>>
           ELSE /\ inflight' = IF id # 0 THEN (inflight + 1) % Word ELSE inflight
                /\ Send(<<Publish(id, qos, nextId')>>)
                /\ UNCHANGED pending
  /\ UNCHANGED <<linkUp, toClient, state, connectQueued, inbound, receiveMax,
                 dispatched, abandoned, tooBig>>

(* subscribe() and unsubscribe(): stored until the SUBACK or UNSUBACK, never
   held back by flow control. *)
MultiTopic(kind) ==
  /\ state = "RUNNING"
  /\ nextId < MaxPublish
  /\ nextId' = nextId + 1
  /\ LET id == nextId' % IdSpace
     IN /\ outbound' = Put(outbound, id, NewEntry(kind, 0))
        /\ Send(<<Request(kind, id, nextId')>>)
  /\ UNCHANGED <<linkUp, toClient, state, connectQueued, inbound, pending,
                 inflight, receiveMax, dispatched, abandoned, qos2Messages, tooBig>>

(* Either of them when the packet exceeds the broker's Maximum Packet Size:
   what was stored is released at once, and the application told. *)
PacketTooBig(kind, qos) ==
  /\ MayBeTooBig
  /\ state = "RUNNING"
  /\ nextId < MaxPublish
  /\ nextId' = nextId + 1
  /\ tooBig' = tooBig \cup {nextId'}
  /\ LET id == nextId' % IdSpace
     IN outbound' = IF id = 0 THEN Put(outbound, id, NewEntry(kind, qos))
                    ELSE Drop(outbound, id)
  /\ UNCHANGED <<wireVars, state, connectQueued, inbound, pending, inflight,
                 receiveMax, dispatched, abandoned, qos2Messages>>

-----------------------------------------------------------------------------
(* The connection, as far as the session is concerned. *)

(* _connect, called by the application or the reconnector. *)
StartConnect ==
  /\ state = "DISCONNECTED"
  /\ state' = "CONNECTING"
  /\ UNCHANGED <<wireVars, connectQueued, outbound, inbound, pending, inflight,
                 nextId, receiveMax, dispatched, abandoned, qos2Messages, tooBig>>

(* The onConnect callback: the CONNECT is left to the H4 queue. *)
OnTcpConnect ==
  /\ state = "CONNECTING"
  /\ linkUp' = TRUE
  /\ state' = "TCP_CONNECTED"
  /\ connectQueued' = TRUE
  /\ UNCHANGED <<toServer, toClient, outbound, inbound, pending, inflight,
                 nextId, receiveMax, dispatched, abandoned, qos2Messages, tooBig>>

(* Slips: always, or never, a clean start. *)
ConnectPacketClean ==
  /\ connectQueued
  /\ connectQueued' = FALSE
  /\ Send(<<Connect(TRUE)>>)
  /\ UNCHANGED <<linkUp, toClient, state, outbound, inbound, pending, inflight,
                 nextId, receiveMax, dispatched, abandoned, qos2Messages, tooBig>>

ConnectPacketResume ==
  /\ connectQueued
  /\ connectQueued' = FALSE
  /\ Send(<<Connect(FALSE)>>)
  /\ UNCHANGED <<linkUp, toClient, state, outbound, inbound, pending, inflight,
                 nextId, receiveMax, dispatched, abandoned, qos2Messages, tooBig>>

(* The queued function: ConnectPacket asks for a clean start exactly when
   the client has no session data. *)
ConnectPacket ==
  /\ connectQueued
  /\ connectQueued' = FALSE
  /\ Send(<<Connect(~HaveSessionData)>>)
  /\ UNCHANGED <<linkUp, toClient, state, outbound, inbound, pending, inflight,
                 nextId, receiveMax, dispatched, abandoned, qos2Messages, tooBig>>

(* Slip: the packets held back are remembered across connections. *)
OnDisconnectKeepsPending ==
  /\ linkUp' = FALSE
  /\ toServer' = <<>>
  /\ toClient' = <<>>
  /\ state' = IF state = "RUNNING" THEN "DISCONNECTED" ELSE state
  /\ inflight' = 0
  /\ UNCHANGED pending

(* The onDisconnect callback: only a RUNNING client becomes DISCONNECTED (and
   starts the reconnector); flow control is reset in any state.  What the
   connection still carried is gone; module Exchange says what had been
   received and is handled all the same. *)
OnDisconnect ==
  /\ linkUp' = FALSE
  /\ toServer' = <<>>
  /\ toClient' = <<>>
  /\ state' = IF state = "RUNNING" THEN "DISCONNECTED" ELSE state
  /\ pending' = <<>>
  /\ inflight' = 0

-----------------------------------------------------------------------------
(* The packet handlers of _handlePacket. *)

Receive(type) ==
  /\ toClient # <<>>
  /\ Head(toClient).type = type

Consume == toClient' = Tail(toClient)

(* CONNACK with reason code 0 while the client waits for it, and either the
   broker has no session (start clean) or both have one (resend). *)
ConnackRunning ==
  /\ Receive("CONNACK")
  /\ Head(toClient).ok
  /\ state = "TCP_CONNECTED"
  /\ ~Head(toClient).present \/ HaveSessionData
  /\ Consume
  /\ state' = "RUNNING"
  /\ receiveMax' = Head(toClient).rmax
  /\ IF Head(toClient).present
     THEN ResendPartialTxns(Head(toClient).rmax) /\ UNCHANGED <<inbound, abandoned>>
     ELSE StartClean /\ UNCHANGED <<toServer, pending, inflight>>
  /\ UNCHANGED <<linkUp, connectQueued, nextId, dispatched, qos2Messages, tooBig>>

(* CONNACK with Session Present for a client that has no session: it closes
   the connection, whose onDisconnect callback finds it RUNNING. *)
ConnackUnknownSession ==
  /\ Receive("CONNACK")
  /\ Head(toClient).ok
  /\ state = "TCP_CONNECTED"
  /\ Head(toClient).present
  /\ ~HaveSessionData
  /\ linkUp' = FALSE
  /\ toServer' = <<>>
  /\ toClient' = <<>>
  /\ state' = "DISCONNECTED"
  /\ pending' = <<>>
  /\ inflight' = 0
  /\ receiveMax' = Head(toClient).rmax
  /\ UNCHANGED <<connectQueued, outbound, inbound, nextId, dispatched, abandoned, qos2Messages, tooBig>>

(* CONNACK with an error: everything unacknowledged is dropped and the
   connection is left to the broker to close. *)
ConnackRefused ==
  /\ Receive("CONNACK")
  /\ ~Head(toClient).ok
  /\ Consume
  /\ StartClean
  /\ UNCHANGED <<linkUp, toServer, state, connectQueued, pending, inflight,
                 nextId, receiveMax, dispatched, qos2Messages, tooBig>>

(* PUBACK and PUBCOMP end an exchange, whatever their reason code. *)
PubackPubcomp ==
  /\ Receive("PUBACK") \/ Receive("PUBCOMP")
  /\ Consume
  /\ PublishEnd(outbound)
  /\ AckOutbound(Head(toClient).id)
  /\ UNCHANGED <<linkUp, state, connectQueued, inbound, nextId, receiveMax,
                 dispatched, abandoned, qos2Messages, tooBig>>

(* SUBACK and UNSUBACK release the request. *)
SubackUnsuback ==
  /\ Receive("SUBACK") \/ Receive("UNSUBACK")
  /\ Consume
  /\ AckOutbound(Head(toClient).id)
  /\ UNCHANGED <<linkUp, toServer, state, connectQueued, inbound, pending,
                 inflight, nextId, receiveMax, dispatched, abandoned, qos2Messages, tooBig>>

(* PUBREC with an error ends the exchange: the packet is released first. *)
PubrecFailed ==
  /\ Receive("PUBREC")
  /\ ~Head(toClient).ok
  /\ Consume
  /\ AckOutbound(Head(toClient).id)
  /\ PublishEnd(Drop(outbound, Head(toClient).id))
  /\ UNCHANGED <<linkUp, state, connectQueued, inbound, nextId, receiveMax,
                 dispatched, abandoned, qos2Messages, tooBig>>

(* PUBREC: from now on the exchange goes on with PUBREL.  operator[] creates
   an entry for an identifier the store does not hold. *)
Pubrec ==
  /\ Receive("PUBREC")
  /\ Head(toClient).ok
  /\ Consume
  /\ LET id == Head(toClient).id
         entry == IF id \in DOMAIN outbound THEN outbound[id]
                  ELSE [kind |-> "PUBLISH", qos |-> 0, msg |-> 0,
                        pubrec |-> FALSE, retries |-> MaxRetries, freed |-> TRUE]
     IN /\ outbound' = Put(outbound, id, [entry EXCEPT !.pubrec = TRUE])
        /\ Send(<<Ack("PUBREL", id)>>)
  /\ UNCHANGED <<linkUp, state, connectQueued, inbound, pending, inflight,
                 nextId, receiveMax, dispatched, abandoned, qos2Messages, tooBig>>

(* Slip: the identifier is not released. *)
PubrelKeepsId ==
  /\ Receive("PUBREL")
  /\ Consume
  /\ Send(<<Ack("PUBCOMP", Head(toClient).id)>>)
  /\ UNCHANGED <<linkUp, state, connectQueued, inbound, outbound, pending, inflight,
                 nextId, receiveMax, dispatched, abandoned, qos2Messages, tooBig>>

(* PUBREL closes an inbound QoS 2 exchange; PUBCOMP answers it even if the
   identifier is unknown. *)
Pubrel ==
  /\ Receive("PUBREL")
  /\ Consume
  /\ inbound' = inbound \ {Head(toClient).id}
  /\ Send(<<Ack("PUBCOMP", Head(toClient).id)>>)
  /\ UNCHANGED <<linkUp, state, connectQueued, outbound, pending, inflight,
                 nextId, receiveMax, dispatched, abandoned, qos2Messages, tooBig>>

(* Slip: QoS 2 is left to a later step that never comes. *)
DespatchQoS1(p) ==
  IF p.qos = 1 THEN dispatched' = [dispatched EXCEPT ![p.msg] = @ + 1]
  ELSE UNCHANGED dispatched

(* _hpDespatch: the message reaches the application's callback. *)
Despatch(p) == dispatched' = [dispatched EXCEPT ![p.msg] = @ + 1]

(* _handlePublish: the empty statement after its `if` leaves _hpDespatch
   unconditional; QoS 1 is answered by PUBACK, QoS 2 by PUBREC. *)
HandlePublish ==
  /\ Receive("PUBLISH")
  /\ Consume
  /\ LET p == Head(toClient)
     IN /\ Despatch(p)
        /\ \/ /\ p.qos = 1
              /\ Send(<<Ack("PUBACK", p.id)>>)
              /\ UNCHANGED inbound
           \/ /\ p.qos = 2
              /\ Send(<<Ack("PUBREC", p.id)>>)
              /\ inbound' = inbound \cup {p.id}
  /\ UNCHANGED <<linkUp, state, connectQueued, outbound, pending, inflight,
                 nextId, receiveMax, abandoned, qos2Messages, tooBig>>
=============================================================================
