# H4AsyncMQTT in TLA+

TLA+ modules that model H4AsyncMQTT, an MQTT client for ESP8266/ESP32 and
POSIX, as it is built with `MQTT5 = 1` (the library's default), together with the
TLC configurations that check them and proofs checked by TLAPS. Paths are
relative to the repository (`src/...`); `H4AsyncMQTT.cpp:839` and the like name
files under its own `src/` directory.

Contents: [the system](#the-system) · [the modules](#the-modules) ·
[what the runs check](#what-the-runs-check) · [what is proved](#what-is-proved) ·
[disagreements found](#disagreements-found) · [what is not modelled](#what-is-not-modelled) ·
[plan](#plan) · [running the checks](#running-the-checks)

## The system

One `H4AsyncMQTT` object is driven by three sources of events: calls of the
application (`connect`, `disconnect`, `publish`, `subscribe`, `unsubscribe`,
`informNetworkState`), callbacks of the TCP library H4AsyncTCP (connected, failed,
disconnected, error, data received), and the H4 scheduler (the reconnector timer, the
keep-alive timer, functions queued with `h4.queueFunction`). On one device they
run one after the other on the H4 loop, so a handler is atomic; everything
between two handlers may interleave.

| Component | State | Operations | What makes it hard | What makes it correct |
|---|---|---|---|---|
| Session: stores, flow control, acknowledgements, resend | `_outbound`, `_inbound`, `_pending`, `_inflight`, `_nextId`, `_serverOptions->receive_max` | `PublishPacket`, `Packet::_multiTopic`, `Packet::_build`, the `_handlePacket` cases, `_handlePublish`, `_resendPartialTxns`, `_startClean`, `_runFlow`, `_publishEnd` | a connection that drops inside any exchange; state of the session (stores) and of the connection (`_pending`, `_inflight`) reset at different moments; identifiers shared between the two | no message lost, QoS 2 once, Receive Maximum respected, order kept, every publish eventually acknowledged, both sides agree whether there is a session |
| Connection life cycle | `_state`, `_h4atClient`, the `H4AMC_RCX_ID` timer, queued ConnectPackets, `_networkState` | `connect`, `disconnect`, `_connect`, `_destroyClient`, `_startReconnector`, the TCP callbacks, CONNACK, DISCONNECT, `_protocolError` | callbacks that use a pointer another callback clears; a timer and a queue that outlive the connection they were started for; a library that may close now or later | no use of a dead client, one connection, one CONNECT on it, a lost connection is replaced |
| Topic aliases | `_tx_topic_alias`, `_rx_topic_alias`, and the alias bytes inside stored packets | `_begin` of `PublishPacket`, `_assignTXAlias`, `_insertTopicAlias`, `_clearAliases`, `_handlePublish` | an alias is assigned when a packet is built, which need not be when, or on the connection on which, it is sent | the broker takes every message for its topic, in both directions |
| Receiving: segments, subscription identifiers, dispatch | the queue of unprocessed rests, `_subsResources`, `_packSubIds`, what a CONNACK says of identifiers | `onRX`, `_handlePacket`'s recursion over a TCP segment, `_hpDespatch`, `SubscriptionResource`, `_confirmDeletion` | the rest of a long segment is handled later, after what came behind it, perhaps on another connection; handlers call the application, which subscribes again; identifiers outlive the messages that carry them | every packet is handled, once, unless it stands behind an early return; only rests are overtaken; a message reaches the callbacks of the subscriptions it matched |
| Packets: builders, codec, properties | will, authenticator, `_user_static_props`, `_user_dynamic_props`, `_serverOptions` | `ConnectPacket`, `PublishPacket`, `Packet::_multiTopic`, `AuthenticationPacket`, `_idGarbage`, `mqttTraits`, `MQTT_Properties`, `_insertTopicAlias` | a size is counted by one piece of code and written by another; lengths at the byte boundaries; options of the last connection | what is counted is written; the server reads what was meant; the client reads back what it stored and what it is sent |
| Keep-alive | `_keepalive`, the ping timer | `_startPinging`, Server Keep Alive | unsigned arithmetic in two units | a PINGREQ is sent before the server gives up |
| Authentication, redirect, reason strings, TLS | configuration | AUTH exchange, property callbacks | optional code, external parties | — |

**Interactions.** The TCP `onConnect` callback moves the life cycle to
`TCP_CONNECTED` and queues a `ConnectPacket`. The packet asks for a clean start if
the session has no data (`_haveSessionData`). The CONNACK handler sets `RUNNING`,
resends or clears the session, and clears the aliases *after* the resend, which still
uses them. The TCP `onDisconnect` callback moves a `RUNNING` client to
`DISCONNECTED`, starts the reconnector, and resets flow control, in any state: while packets of
that connection may still wait to be handled, behind the one whose handler closed it. Flow
control decides at the end of `Packet::_build` whether a packet already given an
identifier, an alias and a place in `_outbound` is sent or waits in `_pending`; every
PUBACK and PUBCOMP sends one that waits.

What arrives is one TCP segment at a time: `onRX` calls `_handlePacket`, which handles the
first packet and calls itself for the next, at most ten deep, and queues the rest. A
handler may call the application, and the application the client, before the next
packet of the segment is looked at. A handler that closes the connection does not end this;
an early return of `_handlePacket` does, and drops the rest of the segment.

`PROJECT.json` lists each component, and under `hazards` what in this code a test
would hardly reach, at its line, with the properties that cover it.

## The modules

| Module | Models | Lines of code it stands for |
|---|---|---|
| `Maps` | `std::map` as a function: insert, erase, iteration order | — |
| `Wire` | control packets as records of the fields the handlers read, and the TCP connection as two queues | `Packet.h`, `mqTraits.cpp` constructors |
| `Session` | the client's session: every handler, the application's calls | `H4AsyncMQTT.cpp` 157-176, 191-237, 299-517, 833-926; `Packet.cpp` 113-157, 169-292, 325-544 |
| `Broker` | what the code relies on in a broker (external): one session, answers in any order, QoS 2 handed on at PUBREL, retransmission, expiry, refusals, errors | external |
| `Exchange` | composes `Session`, `Broker` and a network that drops connections, with packets handled out of order or after the end of their connection; fairness | `H4AsyncMQTT.cpp` 230-237, 582-603 |
| `ExchangeProps` | the properties of `Exchange` | — |
| `Maps_proofs` | lemmas about `Maps` and the sequences the models use | — |
| `Exchange_proofs` | type correctness of `Exchange`, and the handshake | — |
| `Outbound_proofs` | theorems about outgoing messages, and that `Exchange` implements `Delivery` | — |
| `Messages_proofs` | theorems about `_inflight`, Receive Maximum and the order of publishes, and about messages from the broker | — |
| `TopicAlias_proofs` | theorems about `TopicAlias` | — |
| `Connection_proofs` | theorems about `Connection` | — |
| `Receive_proofs` | theorems about `Receive` | — |
| `Packets_proofs` | theorems about the options in `Packets` | — |
| `Delivery` | what the session promises, without packets or connections: the abstract specification `Exchange` implements | — |
| `Connection` | the life cycle in full, with the pointer to the client, several TCP sockets, the timer, the queue and the period of the keep-alive timer | `H4AsyncMQTT.cpp` 178-190, 191-298, 393-459, 519-536, 619-624, 668-671, 930-962 |
| `TopicAlias` | outgoing and incoming aliases, with as much of flow control and resend as moves packets | `Packet.cpp` 445-530, 134-155; `H4AsyncMQTT.cpp` 230-237, 582-603, 705-768, 806-841, 867-917 |
| `Codec` | the client's encoders and decoders, and `mqttTraits`, on sequences of bytes | `Properties.cpp` 175-455; `mqTraits.cpp` 154-275; `H4AsyncMQTT.cpp` 84-151; `H4AsyncMQTT.h` 182-252 |
| `ServerCodec` | how a server reads what the client writes, and writes what the client reads (external, from the MQTT 5 the code relies on) | external |
| `Packets` | every builder, from configuration and server options to bytes, and the reading of received packets | `Packet.cpp` 48-110, 113-292, 325-598; `H4AsyncMQTT.cpp` 393-431, 625-682, 705-803; the options and setters of `H4AsyncMQTT.h`, `h4amc_common.h` |
| `Receive` | segments, queued rests, `_subsResources` and the choice of callbacks | `H4AsyncMQTT.cpp` 328-443, 471-487, 582-603, 826-841, 919-925, 997-1008; `Packet.cpp` 212-259 |

A variable keeps the name of the member it stands for without the underscore; a
comment gives the member where the name differs. An action is a whole handler: for
instance `ConnackRunning` is the CONNACK case from the state assignment through
`_resendPartialTxns`, and `PubackPubcomp` is `_publishEnd` followed by
`_ACKoutbound`, in that order (`PubrecFailed` has them the other way round, as the code
does). History variables (`dispatched`, `abandoned`, `delivered`, `misrouted`, ...)
record what happened and are read by properties only.

What the modules abstract, and where it is kept: payloads, topics, lengths and properties
have no place in `Session` except Receive Maximum, and are all of `Packets`; topics and
aliases over several connections are `TopicAlias`. QoS 0 touches no session state and is in
`TopicAlias` and `Packets` only. `Session` reduces the life cycle to what decides when a
session handler runs; `Connection` reduces the session to one CONNECT and its answer per
socket. They share the states' names, and `Session`'s simplification is the life cycle of
`Connection` with a connection lost before the CONNACK left as it is, which is what the
code does. `TopicAlias` repeats the flow control of `Session` without QoS 2, subscriptions
and a wire of its own: a packet sent counts as read, since a connection keeps the order and
loses only a tail, and an unread tail defines no alias a later packet of that connection
relies on. Messages from the broker it keeps apart (`incoming`): they wait, are handled out
of order (`Overtaken`) or after their connection (`Lost`). Acknowledgements to the client
are handled at once there; late ones are in `Exchange`. `Receive` numbers packets by their place in what the server wrote; of an
application handler it keeps that subscribing and unsubscribing may come between any two
packets of a segment, which includes every moment a handler may choose. A queued rest may
run at any time while no other handler does, also on a later connection: H4's queue runs
before or after the TCP events that end one connection and begin another, and the code
does not tie the queued function to its connection.

What `Receive` shows of segments, `Exchange` has in a form that needs no segments. A queued rest
lets the packet behind it be handled first: `Overtaken` exchanges two packets that wait. A
connection ends with packets received and not handled, in the segment whose handler closed it or
in a queued rest: `ConnectionLost` keeps any number of them, up to `MaxRest`, in `rest`
(`Saved`), and `RestStep` handles them by the same handlers of `Session` (`Rest`, an instance
with `rest` in place of `toClient`), while the client is disconnected or connecting. The H4
queue is in order, so the next ConnectPacket, queued later, waits for them; a rest long enough to be queued
a third time behind that ConnectPacket is left out. `outlived` notes that this has happened,
and `uncounted` how often such a packet ran `_publishEnd` on the count that `onDisconnect` had
reset.

`Codec` is exact in every byte but for one number: the radix of a variable byte integer,
128 in the code, is the constant `Radix`, so that packets of a few bytes cross the lengths
at which a length itself needs another byte. A packet is built in two passes, as in the
code: `_begin` counts (`size`), the writers fill the buffer (`written`). The callback for
dynamic user properties is asked once, while counting.

Definitions marked *Slip* are what a plausible mistake would make of the
definition that follows them (a reset forgotten, a count off by one, an order
swapped). They take no part in any specification; `PROJECT.json` pairs each with the
property that catches it, to show that the property depends on that piece of code.

### The broker

`Broker` is a conforming MQTT 5 broker, as far as this client can tell the
difference. Each liberty has a constant, so that a property can be stated for
exactly the brokers it needs: `MayExpire` (sessions), `MayRefuse` (CONNECT),
`MayReject` (publishes), `MayMistake` (a session announced to a client that asked for
a clean start, which `ConnackUnknownSession` guards against). `unanswered` is
its count against the Receive Maximum it `granted`.

`ServerCodec` is a server that reads MQTT 5 strictly and writes every packet type with any
list of the properties of that type. `Receive`'s server answers SUBSCRIBE and UNSUBSCRIBE,
resumes or loses the session or resumes one that is unknown to the client, says so with properties or
without, allows subscription identifiers or not, sends messages with one identifier for each
matching subscription, and writes packets that the client rejects, in their handler or as
malformed. `TopicAlias`' broker names each message by topic, by topic and alias, or by an alias
it has defined on the connection, and may redefine one, up to the maximum in the CONNECT.

### The TCP library

H4AsyncTCP is not in the repository. `Connection` takes from its use that a connection
attempt ends in `onConnect` or `onConnectFail`, that an open connection may end at any
time in `onDisconnect`, preceded or not by `onError`, and that `close()` leads to
`onDisconnect`. The code at `_destroyClient` expects `close()` to call it before it
returns ("It all should be ending here", `H4AsyncMQTT.cpp:295`); since nothing shows
this, `syncClose` is either, and properties that need the expectation say so
(`Expected`).

## What the runs check

With two workers the runs that hold take between ten seconds (`connection`) and three minutes (`packets`), for
44,000 states (`connection`) to 1.8 million (`alias`); those that find a violation take at most half a minute.

| Run | Configuration | Asks | Result |
|---|---|---|---|
| `qos1` | `Qos1.cfg` | QoS 1 with flow control, expiry, refusals, rejections, oversized packets, a mistaken broker, two drops, late packets, and messages from the broker over two identifiers at both QoS beside | holds |
| `qos2` | `Qos2.cfg` | QoS 1 and 2 and requests mixed, two drops, late packets, a broker that keeps its session | holds |
| `connection` | `Connection.cfg` | every interleaving of the life cycle on two sockets | holds |
| `alias` | `Alias.cfg` | three topics, two aliases each way, one packet in flight, messages that wait, any number of reconnections | holds |
| `packets` | `Packets.cfg` | every packet that can be built or received, after up to two configuring calls | holds |
| `receive` | `Receive.cfg` | segments up to four packets with queued rests and early returns, two connections, subscriptions from handlers | holds |
| `flow_control` | `FlowControl.cfg` | Receive Maximum with QoS 2 | violated |
| `inbound_twice` | `InboundTwice.cfg` | QoS 2 dispatched once | violated |
| `reconnect` | `Reconnect.cfg` | the client comes back | violated |
| `server_keep_alive` | `ServerKeepAlive.cfg` | PINGREQ in time for the server's keep-alive | violated |
| `alias_misrouted` | `AliasMisrouted.cfg` | no message under another topic | violated |
| `topic_put_back` | `TopicPutBack.cfg` | a resent publish is legible | violated |

**Session.** `NoMessageLost` relates the application's calls to what the stores hold
and the broker did: whatever was handed over is stored, or delivered, or
accounted for as refused, too big or dropped with its session. `NothingAbandoned` says when
nothing is dropped. `ExactlyOnceOutbound` is QoS 2 towards the broker.
`PendingIsStored` and `InflightExact` tie flow control to the stores (the second for QoS 1 only:
with QoS 2 it fails, see below). `InflightExact` gives `_inflight` exactly, modulo the machine word, with what acknowledgements
took from it that were handled after `onDisconnect` had reset it. `ReceiveMaximumRespected` is the broker's side of it.
`HandedOnInOrder` is order across holding back and resending. `PublishesSettle` is
liveness: if the connection eventually stays up, and `_inflight` is not one that such an
acknowledgement made wrap (a finding below), all stored publishes are
acknowledged. `SessionPresentHasData`, with its strengthening `Handshake`, says that
the two sides agree on whether a session exists when the CONNACK is handled.
`AcknowledgedWasDispatched`, `FreshInbound` and `NoInboundLeak` are about messages to the
application: none is acknowledged unseen, and `_inbound` never holds an identifier that a
new message may carry.

`OutboundExchange`, `InboundExchange`, `FlowExact`, `SentInOrder` and `SessionKept` are the
inductive invariants behind these: what the stores, the packets on the wire and
the broker's memory must agree on for the rest to hold. They are proved for every instance
(below), so the configurations do not list them; TLC finds them true on the
instances of `Qos1.cfg` and `Qos2.cfg` with `MaxRest = 0` when they are added to `INVARIANTS`,
and `AliasTables` and `InboundTables` on that of `Alias.cfg`. Once a packet has outlived its
connection they no longer hold as they stand; the properties above do, and are checked there too.

`DeliversAsPromised` is the refinement: under the mapping `Promise` every step of `Exchange` is
a step of `Delivery` or a stutter. A step that released a packet whose message was
neither handed on nor refused, a broker that met a message the client had released, a
second delivery at QoS 2, or a message given up alone while others stay, would be none.

**Connection.** `NoNullDereference`, `OneConnection`, `OneConnectPacket` and
`RunningIsAccepted` hold under `Expected`, `ReconnectorArmed` without
it. `KeepsConnecting`, liveness, is stated where the code gets what it expects: the client holds an open TCP
connection again and again, unless it lost one before the CONNACK and is `Stuck` in
`TCP_CONNECTED` without one for ever. That the second case occurs is run `reconnect`; the property
says that it is the only one. With a deferred close, `connect()` in the callback or an
early `disconnect()` a second live connection can leave a client that is `RUNNING` with a
dead one.

**Topic aliases.** `RightTopic` holds unless a packet was overtaken (a QoS 0 publish passed a
held-back one by, or an oversized packet was dropped after its alias was assigned).
`AliasTables` is the inductive invariant behind it. `TopicRecovered`: no resend drops a packet because its topic cannot be found, which
rests on clearing the aliases after the resend and on the topic staying in a packet
once inserted. `AliasWithinMaximum` is the broker's limit. `InboundTopicRight` is the
other direction: a message with an alias alone gets the topic the broker meant, and is not
refused, however many wait while aliases are redefined or refused and connections lost, as
long as none is overtaken in the client's queue or handled on a later connection
(`rearranged`). Without that exception it is violated (a finding below).

**Keep-alive.** `PingsInTime` is violated by Server Keep Alive (`server_keep_alive`) and
would hold without it; the CONNECT announces milliseconds where the server reads seconds,
which only makes the server more patient.

**Packets.** `CountedIsWritten` relates the two passes of every builder, over all
configurations; a byte too much is written past the buffer, a byte too few leaves garbage in
the packet. `ServerUnderstands` reads the bytes back with the server's reader and compares with
the call's arguments and the configuration; it says exactly which CONNECTs are illegible
(found below), with `<=>`. `StoredTraitsRight` compares what the client reads in a packet it
stores, and later acknowledges or resends, with what went in. `ReceivedAsMeant` is
`mqttTraits` on what a server writes. `OptionsRespected` relates the packets sent to the
CONNACK of the same connection, not of an earlier one: Maximum Packet Size, Maximum QoS,
Retain Available, Topic Alias Maximum, subscription identifiers. It speaks of the packets
built on the connection; a stored publish that the CONNACK of the next connection resends
(`ResendPublish`) keeps what the server it was built for allowed, which is a finding
without a run (below).

**Receive.** `NothingSkipped` follows each packet from the segment through call tree and queue
to its handler; skipped are exactly the packets behind one at which `_handlePacket` returns early
(`Returns`: malformed, a CONNACK without properties or of an unknown session), and those are never handled. `OnlyRestsOvertaken` bounds the reordering the queue causes: packets within the
first eleven of a segment (`MaxNested + 1`) never wait, so that only the rest of a longer
segment can be handled after something that arrived later. `RightCallback` is dispatch:
whatever is subscribed, subscribed again with another callback, unsubscribed or lost with
the session while messages are on their way, a message reaches a callback that was given
for the topics it was sent for and no other. `ServerIdsKnown` is why: no subscription of the
session has an identifier that the client has forgotten. `EverythingHandled` is liveness: a
queued rest is handled even if its connection is gone, so that again and again every packet
received is handled or stands behind an early return.

Each module has one type invariant, checked with the rest.

**Bounds, and why they are enough.** Every bound is a named constant.

- `MaxPublish = 3` (4 in `Alias.cfg`): with Receive Maximum 1 or 2, one packet
  can be in flight, one held back and one behind it, or two resent and one new; no handler
  relates more than the head of `_pending` and one stored packet.
- `MaxDrops = 2`: a resend that is itself cut off, and a second resend of what the
  first one changed. A third connection has nothing that differs from the second.
- `ReceiveMaxima = {1, 2}`: the value may also change from one connection to the next;
  `DefaultReceiveMax = 9` is what `_serverOptions` holds before a CONNACK.
- `IdSpace = 16` keeps identifiers from wrapping: what happens when they do is a finding below.
  `Word = 65536` makes a wrapped `_inflight` larger than any Receive Maximum, as 2^32 is.
- `MaxInbound = 2` over two identifiers: two messages under different identifiers, or one
  identifier used for both.
- `MaxRest = 1`: one packet handled after the end of its connection. It resets nothing that
  a second one would find otherwise; after two drops there are two. `MaxRest = 0` in the runs that look for a
  violation without it.
  `Beside = 1`: while messages come in, one publish of the client is on its way, so that
  both directions share connections and stores without multiplying their states.
- `MaxRetries = 2` is `H4AMC_MAX_RETRIES` (`TopicAlias` assumes it).
- `Socket = {1, 2}`, `MaxQueued = 2`: the current connection and one being closed, a
  ConnectPacket of an older connection and one of the current. The count of CONNECTs on a
  socket stops at 2.
- `AliasMaxima = {2}` in `alias`, so that three topics compete; `{1, 2}` in
  `alias_misrouted`. `RxAliasMax = 3` in `alias`: two aliases that the client accepts and
  one that it announces and refuses. `MaxPublish` bounds the messages of both directions together.
- `KeepAliveInterval = 58000` is what the code computes from the scavenge period of the TCP
  library, an external number; `Headroom = 2000`. `Word = 2^24` stands for 2^32 in
  `Connection` (TLC's integers have 32 bits): any wrapped period is beyond 1.5 times every
  keep-alive used. `ServerKeepAlives = {60}`: every value below 2000 wraps.
- `Radix = 8` for 128: a variable byte integer takes a second byte at 8 and a third at 64,
  and the packets built with `Lengths = {2, 6}` have property and remaining lengths on both
  sides of each. `Ids = {258}` has two different bytes, so that a swapped or shifted
  identifier shows. `MaxSettings = 2` configures any two of will, authenticator, static and
  dynamic user properties, or one of them and its reset. User property maps have one key;
  an authentication method is not empty.
- `MaxNested = 1` for ten: a call tree handles two packets and queues the rest, so that a
  segment of four packets has a rest that is full and `MaxSent = 5` leaves one that
  overtakes it; `MaxConnections = 2` and `MaxCalls = 2` let a rest be handled on the next
  connection and a subscription be made again or end. `MaxBad = 1` packet on its way is one
  the client rejects. `MaxSegment = 6` is the maximum packet
  size, where a message counts 2 and any other packet 1: of the segments that fit four packets, those with three messages
  are too large.

Deadlock is not checked where the bounded inputs run out (`CHECK_DEADLOCK FALSE`) and is
checked for `Connection`, whose application can always call.

**Fairness.** `Exchange`: weak fairness of the client's queue and handlers, of connection
establishment, of the broker's reading and answering, and of the close after a
refusal; nothing makes the application publish, the network fail or a session expire.
Justified by the H4 loop, which runs every queued function and event, by the
reconnector's 5 s timer, and by a broker that is alive. `Connection`: weak fairness of the
timer, the queue, and the end of what was told to close or reported as failed;
strong fairness of a successful TCP connect and of an accepting CONNACK for each socket,
which is the assumption "one of many attempts succeeds" and which liveness needs, as
no client connects to a server that never answers. `Receive`: weak fairness of the handler
that is due (it returns, and the recursion goes on) and of the queued function, which the H4
loop runs; nothing makes the server write or a segment arrive. The same queue runs `RestStep` of
`Exchange`.

## What is proved

Every theorem holds for all values of the constants that satisfy the named assumptions of
the modules (`WireAssumption`, `SessionAssumption`, `BrokerAssumption`, `DropAssumption`,
`ConnectionAssumption`, `TopicAliasAssumption`, `ReceiveAssumption`, `CodecAssumption`,
`PacketsAssumption`, `SettingsAssumption`: the types of the constants), hence for any
number of messages, drops, identifiers, sockets and topics. What a theorem needs beyond is
a named hypothesis in its statement:

| Hypothesis | Says | Why the code justifies it |
|---|---|---|
| `IdsSuffice` | identifiers do not wrap, and a stored packet is resent at least once | `_nextId` gives 65535 identifiers before it wraps (`Packet.cpp:477`; what happens then is a finding below); `H4AMC_MAX_RETRIES` is 2 (`h4amc_config.h:85`) |
| `AtQoS1` | `IdsSuffice`, publishes at QoS 1, and a machine word counts every identifier | identifiers have 16 bits, `_inflight` 32 at least; at QoS 2 the properties fail (`flow_control`) |
| `PublishesOnly` | `AtQoS1` and no SUBSCRIBE or UNSUBSCRIBE | states the order of publishes by their identifiers alone; the packets of requests pass no flow control |
| `OneMaximum` | the broker announces one Topic Alias Maximum on every connection | otherwise a resent packet keeps an alias above the new maximum (found below) |
| `ConnackReadBack` | `mqttTraits` finds in a CONNACK the properties that the server wrote, in their order | evaluated for the radix of the run and for 128, the one of the code; in the run it is part of `ReceivedAsMeant` |
| `~MayMistake` | a session is resumed only for a client that asked | MQTT 5 |

**The session.** `Exchange` has some thirty actions, and a proof of an invariant has one lemma for each
or for each group with the same effect. They rest on the same lemmas about `Put`, `Drop`,
`Ascending`, `Send` and the resend (`Maps_proofs`, `Exchange_proofs`).

- `TypeCorrect`: `Spec => []TypeOK`, split into the side of the client (`ClientSide`: wire and
  session) and the side of the broker (`BrokerSide`).
- **The condition `outlived`.** A packet that is handled after the end of its connection changes
  the client's stores while neither side has a connection. In that part of the behaviours the
  invariants below no longer hold as they stand, so the theorems that rest on them
  say `[](outlived \/ ...)`, or `Spec /\ []~outlived => ...` for the refinement: they cover every behaviour up to the first such
  packet, with packets overtaken in the client's queue. The runs `qos1` and `qos2` check the
  properties without the condition. `TypeCorrect`, `HandshakeInvariant`, `SessionPresentCorrect` and
  `NothingEverAbandoned` are proved without it.
- `HandshakeInvariant`: `Spec => []Handshake`. `SessionPresentHasData` is not inductive: to
  know that HaveSessionData is still what the CONNECT said when the CONNACK arrives, one
  has to know that nothing was handled or stored in between. `Handshake` therefore
  names the phases of a connection (`NotAsked`, `Asked`, `Accepted`, `Refused`, `Running`)
  with what is on the wire in each. While the client is not `RUNNING` the only packet it
  can receive is a CONNACK (`OnlyConnack`) and the only one the broker can read is a
  CONNECT (`OnlyConnect`); while it is, neither occurs (`RunningPast`). A late packet that is answered before
  the CONNECT leaves a connection the broker does not accept (`Spoiled`).
- `SessionPresentCorrect`: with `~MayMistake`, `Spec => []SessionPresentHasData`.
- `OutboundInvariant`: under `IdsSuffice`, `Spec => [](outlived \/ OutboundExchange)`. None of the promises about
  outgoing messages is inductive, as an acknowledgement may arrive for anything the broker
  might have seen: the invariant says that of one identifier there is one step under way
  (`OneStepPerId`: an original, a PUBREL, an answer, never two of them), that each request on
  the wire is one the store still holds in that state (`RequestsMatch`), that each answer is of
  what the broker has handed on or still holds (`RepliesMatch`), that what waits in `_pending` is not on
  the wire (`PendingMatch`), and that the broker's memory of QoS 2 identifiers is of messages
  the client has not released (`StoreRight`, `ReleasedIsReceived`, `HandedOnOnce`). That a new identifier is in no store and on no
  wire is where `IdsSuffice` is used.
- `Refinement`: under `IdsSuffice`, `Spec /\ []~outlived => DeliversAsPromised`. The initial states map to one another, and each
  action is a step of `Delivery` or a stutter, from `OutboundExchange`.
- `NoMessageEverLost`, `ExactlyOnce` and `PendingAlwaysStored`, from the same invariant, and
  `NothingEverAbandoned`, from `SessionKept`, which needs no hypothesis but the brokers its
  property names.
- `InflightIsExact` and `ReceiveMaximumIsRespected`: under `AtQoS1`, from `FlowExact`. Counting is by cardinality: each step
  moves at most one identifier between what is sent, what waits and what is
  acknowledged, and the resend counts what it sends until Receive Maximum is reached. That the
  count is wrong once an acknowledgement is late is a finding below.
- `PublishOrderKept`: under `PublishesOnly`, `Spec => [](outlived \/ HandedOnInOrder)`, from `SentInOrder`: what is on its way and
  what waits behind it are one ascending sequence, and a resend starts it again from the
  lowest identifier not acknowledged.
- `InboundInvariant`: `Spec => [](outlived \/ InboundExchange)`, and from it `AcknowledgedIsDispatched`,
  `FreshIsNew` and `InboundNeverLeaks`, without any assumption on the constants. `InboundExchange` is the counterpart of
  `OutboundExchange`: of one identifier there is either an offer of the broker or an answer
  of the client under way, each as the broker's memory of the exchange has it, and
  `_inbound` holds identifiers of QoS 2 exchanges that are open, as long as the session goes on.

**The life cycle.** (`Connection_proofs`)

- `TypeCorrect`: `Spec => []TypeOK`.
- `ReconnectorAlwaysArmed`: `Spec => []ReconnectorArmed`, which is inductive as it stands:
  every step into `DISCONNECTED` starts the reconnector, and only `onConnect`, which leaves
  it, stops it. No expectation of the library or the application is needed.
- `LifeCycleInvariant`: `Spec => []LifeCycle`. The four properties below are not inductive: that a
  queued ConnectPacket finds its connection, for instance, needs that none is queued
  while another connection opens. `LifeCycle` says that, as long as the code's
  expectations (`Expected`) hold, the client is in one of four phases: `Down` (no pointer,
  no connection, nothing queued), `Opens`, `Greets` (connected, with one CONNECT either queued
  or sent, or already lost) and `Up` (connected, its CONNECT answered). An expectation that
  has failed stays failed until a reboot (`ExpectedBefore`), so each step may assume it before.
- `NeverNullDereference`, `AlwaysOneConnection`, `AlwaysOneConnectPacket` and
  `RunningAlwaysAccepted` follow from `LifeCycle`.

**Topic aliases.**

- `TypeCorrect`: `Spec => []TypeOK`.
- `TablesAgree`: `Spec => []AliasTables`. The broker's table is not the client's while packets
  wait: the invariant says what it *will* be. A broker with the table `known`, once it has
  read what waits in `_pending`, has every alias of `_tx_topic_alias`, and takes each packet for its topic (`Agrees`);
  a packet without a topic is of this connection, or of the last until the aliases are
  cleared, and its alias is in the table (`TopicKept`). That sending the head of the queue keeps
  `Agrees` for the rest (`_runFlow`), and that the resend establishes it from an empty table, are
  lemmas about `Meaning` and `Resolved`, the last defining packet before a place in a sequence.
- `TopicAlwaysRight` and `TopicAlwaysRecovered` (`Spec => TopicRecovered`, an action property) follow.
- `InboundTopicAlwaysRight`: `Spec => []InboundTopicRight`, from `InboundTables`. The client's table of
  incoming aliases is behind the broker's by the messages that wait, so the invariant is again `Agrees`: once it
  has handled what waits, the client has every alias the broker announced, and takes each message for
  its topic, as long as `rearranged` is false.
- `AliasAlwaysWithinMaximum`: under `OneMaximum`, `Spec => []AliasWithinMaximum`.

**Receiving.** (`Receive_proofs`, without any hypothesis)

- `TypeCorrect`: `Spec => []TypeOK`.
- `ServerIdsAlwaysKnown`: `Spec => []ServerIdsKnown`. It is not inductive: a SUBSCRIBE on
  its way must be known too, and a CONNACK that clears `_subsResources` must not find a
  subscription that the server still has. `ConnackFirst` says that a CONNACK is the first packet of its connection,
  hence never in a queued rest, and that nothing is on its way to the server before it is
  handled; `IdsKnown` says that an identifier stands for one set of topics for ever (`subId`
  is never reset) and that the client has it as long as its session lasts.
- `CallbackAlwaysRight`: `Spec => []RightCallback`, from `IdsKnown` and `Answered`. A rest that was queued
  before the session was lost is why `IdsKnown` also speaks of the subscriptions that
  messages on their way were sent for, of earlier sessions too.
- `OnlyRestsAreOvertaken`: `Spec => []OnlyRestsOvertaken`, from `WaitInTurn`: what is queued was too far into its
  segment, and the call tree of the first packets of a segment comes in order and after all that
  was handled before.
- `NothingEverSkipped`: `Spec => []NothingSkipped`, from `WaitInTurn` and `Placed`. A packet that has
  arrived waits in a *row*, the call tree or one queued rest. `NothingSkipped` is not inductive:
  it follows the packets of one segment through one row, and does not say that a rest which is cut
  off and queued behind others shares no segment with another row. `Placed` says that a segment
  has packets in at most one row, there in its order and one after the other, that those already
  handled are the ones before, and that together they are the whole segment, unless
  `_handlePacket` returned in it: then no row has the rest, nor ever will. Each handler
  renumbers rows or cuts one in two; `Moved` is what all of them have in common, and
  `PlacedStays` the lemma that it keeps `Placed`.

**Packets.** (`Packets_proofs`, under `ConnackReadBack`, for every length of text, identifier and
number of settings)

- `OptionsAlwaysRespected`: `Spec => []OptionsRespected`, from `Limits`: on a connection each of `_serverOptions`
  is what its CONNACK says, or the default where it says nothing (`Says`). Each builder is a lemma of
  its own: what it compares with the options is enough for what it sends. For a PUBLISH that
  takes the lists of properties apart, since an alias must be the only entry with its
  identifier whatever the message and the user properties are. The property is not
  inductive without `Limits`, as `running` and `announced` say nothing of `options`.
- `PacketTypesCorrect`: `Spec => []TypeOK`, which includes that there are never more aliases than
  the server takes.

The premise stands for the one thing that cannot be proved, what the recursive codec computes.

**Only model-checked.** The rest of `Packets` (`CountedIsWritten`, `ServerUnderstands`,
`StoredTraitsRight`, `ReceivedAsMeant`): its codec is recursive, and what a recursive definition
computes for every input is an induction over data. All liveness properties, since TLAPS does not
handle fairness and ENABLED.

## Disagreements found

`PROJECT.json` quotes the line of the repository each of these contradicts.

1. **Receive Maximum is exceeded after a reconnection** (`flow_control`). PUBRELs sent by
   `_resendPartialTxns` are not counted in `_inflight`, but their PUBCOMPs are discounted.
   With nothing held back the same PUBCOMP takes the unsigned `_inflight` below zero,
   and every later publish waits for ever.
2. **A QoS 2 message is dispatched twice** (`inbound_twice`): the `if` of
   `H4AsyncMQTT.cpp:839` ends in a semicolon.
3. **A connection lost before the CONNACK is never replaced** (`reconnect`).
4. **A message reaches the wrong topic** (`alias_misrouted`): resent packets carry aliases of
   the last connection, new packets number them from 1 again, and QoS 0 publishes overtake
   the held-back packet that would redefine the alias. Without a reconnection the same
   overtaking, or a packet dropped for its size, leaves the broker with an alias
   it does not know.
5. **A resent publish is illegible** (`topic_put_back`): `_insertTopicAlias` finds the place of
   the empty topic before it replaces the remaining length, and erases one byte too early
   when that has become longer.
6. **Server Keep Alive stops the PINGREQs** (`server_keep_alive`): seconds are taken for
   milliseconds, and the period `_keepalive - 2000` wraps.

Properties that hold state the next ones as exact exceptions (`InflightExact`,
`PublishesSettle`, `ServerUnderstands`, `CountedIsWritten`, `NoNullDereference`, `NothingSkipped` and
`InboundTopicRight`):

7. **An acknowledgement handled after the close stops publishing** (`InflightExact`, 235). A packet
   rejected in its handler closes the connection, `onDisconnect` resets `_inflight`, and the segment goes
   on, as does a queued rest: a PUBACK behind takes the unsigned `_inflight` below zero, at QoS 1 too.
   Nothing resets it before the end of the next connection, on which every publish is held back.
8. **A CONNECT without a will** writes a property length that is not counted (`Packet.h:90`);
   with a user name or password the server cannot read it.
9. **disconnect() before the CONNACK** leaves a null pointer to later callbacks.
10. **A CONNACK with an empty property list**, which is conforming, is ignored
   (`H4AsyncMQTT.cpp:400`), with the rest of its segment: the client stays `TCP_CONNECTED`.
11. **A message by alias alone overtakes the one that defines the alias** (820, 585-600): the
   rest of a long segment is queued behind the next segment. The message gets an older topic,
   or a conforming server is disconnected with a protocol error.

Findings without a run: a packet's size is compared with Maximum Packet Size when it is built, and
`_resendPartialTxns` sends what is stored to a server that may have announced less (904; the
exception of `OptionsRespected`); identifier 0, given out when the counter wraps after 64536 packets,
whose stored packet is freed at once and written to at the next resend (`Packet.cpp:155`);
the two bytes of `disconnect(reason)`, the second of which is the remaining length (953);
AUTH answered with what the server sent (550); `subscribe()` always returns 0 (`Packet.h:124`);
`_subsResources` never loses an unsubscribed entry, as the test for SUBSCRIBE bars the
UNSUBSCRIBE branch (`Packet.cpp:222`); the copy of a rest that is queued twice is leaked
(592); the limit of one packet's size is applied to a whole segment (353).

Met on the way, without a run of their own: `H4AMC_MAX_RETRIES` has no effect, as the
decremented copy is dropped (`H4AsyncMQTT.cpp:874`), except for packets whose topic was
inserted, which the *second* reconnection therefore drops (890), although
`h4amc_config.h` says a packet is dropped only with the insertion disabled. SUBSCRIBE and UNSUBSCRIBE
packets are not resent (903) but stay stored. The largest topic alias announced in
CONNECT is rejected (821 against `Packet.cpp:404`). `MQTT5_TX_TOPIC_ALIAS_MAXIMUM`
(`h4amc_config.h:53`) is not used. A broker that lowers its Topic Alias Maximum gets
resent packets with the old, larger aliases.

## What is not modelled

- **Authentication (SCRAM)**: the authenticator's steps are code of the application or stubs.
  The AUTH packet and the method and data in CONNECT are in `Packets`; the exchange changes
  no state that the models have except through `_protocolError`, which `Connection` has.
- **Redirect and reason strings**: they call the application back and keep nothing.
- **Malformed packets**: `Codec` says where a decoder rejects one; what the rejection leads
  to is `ProtocolError` in `Connection` and `HandleMalformed` in `Receive`. Reading
  beyond a packet that is malformed is not modelled.
- **A rest that outlives the next CONNECT**: in `Exchange` the rests of a connection are handled before
  the ConnectPacket of the next one, which the H4 queue runs later. A rest of more than eleven packets is
  queued again, behind it; only `Receive` has that.
- **Late acknowledgements in `TopicAlias`**: its flow control is exact only as long as each acknowledgement
  is handled on its connection; `Exchange` has the others.
- **Incomplete packets**: a packet cut off at the end of its segment is `MALFORMED` in `Receive`: the code
  treats it the same way and does not wait for the rest.
- **TLS**: credentials and a session ticket handed to the TCP library, in a build of its own.
- **MQTT 3.1.1** (`MQTT5 = 0`): has no flow control or aliases and resends stored requests;
  the models follow the default build.
- **Out of memory** (`mbx::getMemory` failing) and a second client in the same program (the
  stores are static members).

## Plan

Done: the models of every component above and their runs; the theorems about `Exchange`,
with its refinement of `Delivery`, about `Connection`, `TopicAlias`, `Receive` and the options in
`Packets`. Next, in this order:

1. An abstract life cycle (down, connecting, up) implemented by `Connection`, with the phases
   of `LifeCycle` as the mapping.
2. More configurations: a broker that lowers its Topic Alias Maximum between connections,
   and Receive Maximum together with inbound traffic at QoS 2.

## Running the checks

    tlc -workers 2 -config Qos1.cfg ExchangeProps
    tlc -workers 2 -config Connection.cfg Connection
    tlc -workers 2 -config Alias.cfg TopicAlias
    tlc -workers 2 -config Packets.cfg Packets
    tlc -workers 2 -config Receive.cfg Receive
    tlapm Exchange_proofs.tla
    tlapm Outbound_proofs.tla
    tlapm Messages_proofs.tla
    tlapm Packets_proofs.tla
    tlapm Connection_proofs.tla
    tlapm TopicAlias_proofs.tla
    tlapm Receive_proofs.tla
    tlapm Maps_proofs.tla

The other configurations go with `ExchangeProps` (`Qos2`, `FlowControl`, `InboundTwice`),
`Connection` (`Reconnect`, `ServerKeepAlive`), `TopicAlias` (`AliasMisrouted`) and `Packets`
(`TopicPutBack`).
