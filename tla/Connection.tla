----------------------------- MODULE Connection -----------------------------
(***************************************************************************)
(* The connection life cycle of H4AsyncMQTT: its state, the pointer to the *)
(* TCP client, the reconnector, the queued ConnectPacket, and every way a  *)
(* connection starts and ends.  The TCP library (H4AsyncTCP) is external:  *)
(* it opens, fails, loses and closes connections and calls the callbacks   *)
(* that _connect registers.                                                *)
(*                                                                         *)
(* Calling a method through a null _h4atClient is the end of the program:  *)
(* `crashed`, after which the device reboots.                              *)
(***************************************************************************)
EXTENDS Integers, FiniteSets

CONSTANTS
  Socket,            \* H4AsyncClient objects alive at a time
  MaxQueued,         \* bound: ConnectPackets waiting in the queue
  KeepAliveInterval, \* KEEP_ALIVE_INTERVAL
  Headroom,          \* H4AMC_HEADROOM
  ServerKeepAlives,  \* what a CONNACK may say of Server Keep Alive, in seconds
  Word               \* an unsigned number wraps here

ASSUME ConnectionAssumption ==
  /\ Socket \subseteq Nat \ {0} /\ IsFiniteSet(Socket)
  /\ MaxQueued \in Nat
  /\ {KeepAliveInterval, Headroom, Word} \subseteq Nat \ {0}
  /\ ServerKeepAlives \subseteq Nat \ {0}

None == 0   \* nullptr

VARIABLES
  state,         \* _state
  client,        \* _h4atClient
  socket,        \* the TCP connections, and what was exchanged on each: the
                 \* CONNECTs sent (counted up to 2) and whether one was answered
  reconnector,   \* the H4AMC_RCX_ID timer runs
  queued,        \* functions in the H4 queue that build a ConnectPacket
  network,       \* _networkState
  keepalive,     \* _keepalive, from which the H4AMC_KA_ID timer takes its period
  demanded,      \* history: the keep-alive the server goes by, in seconds
  syncClose,     \* close() runs onDisconnect before it returns, or later:
                 \* the library decides, once and for all
  wanted,        \* history: connect() was called, and the server has not said
                 \* DISCONNECT since
  early,         \* history: disconnect() was called before RUNNING, by the
                 \* application or by _protocolError
  inCallback,    \* history: connect() was called from the disconnect callback
  crashed        \* a null client was used

pinging == <<keepalive, demanded>>

vars == <<state, client, socket, reconnector, queued, network, pinging, syncClose,
          wanted, early, inCallback, crashed>>

State == {"DISCONNECTED", "CONNECTING", "TCP_ERROR", "TCP_CONNECTED", "RUNNING"}

SocketState == [tcp : {"free", "opening", "open", "closing"},
                connects : 0 .. 2, answered : BOOLEAN]

Free == [tcp |-> "free", connects |-> 0, answered |-> FALSE]

Opening == [Free EXCEPT !.tcp = "opening"]

TypeOK ==
  /\ state \in State
  /\ client \in Socket \cup {None}
  /\ socket \in [Socket -> SocketState]
  /\ queued \in 0 .. MaxQueued
  /\ {keepalive, demanded} \subseteq Nat
  /\ {reconnector, network, syncClose, wanted, early, inCallback, crashed} \subseteq BOOLEAN

Init ==
  /\ state = "DISCONNECTED"
  /\ client = None
  /\ socket = [c \in Socket |-> Free]
  /\ reconnector = FALSE
  /\ queued = 0
  /\ network = TRUE
  /\ keepalive = 0
  /\ demanded = 0
  /\ syncClose \in BOOLEAN
  /\ wanted = FALSE
  /\ early = FALSE
  /\ inCallback = FALSE
  /\ crashed = FALSE

IsOpen(c) == socket[c].tcp = "open"

(* What close() leaves of a socket. *)
Closed(c) == IF syncClose THEN Free ELSE [socket[c] EXCEPT !.tcp = "closing"]

(* Slips: a connection lost in any state, or only in RUNNING, is replaced. *)
RecoversAlways == State \ {"DISCONNECTED"}

RecoversRunning == {"RUNNING"}

(* The states in which the TCP onDisconnect callback starts a reconnection. *)
Recovers == {"RUNNING", "TCP_ERROR"}

(* Slip: the pointer is cleared whatever the state. *)
OnDisconnectClears(c) ==
  /\ socket' = [socket EXCEPT ![c] = Free]
  /\ client' = None
  /\ IF state \in Recovers
     THEN state' = "DISCONNECTED" /\ reconnector' = TRUE
     ELSE UNCHANGED <<state, reconnector>>

(* The TCP onDisconnect callback of socket c. *)
OnDisconnect(c) ==
  /\ socket' = [socket EXCEPT ![c] = Free]
  /\ IF state \in Recovers
     THEN state' = "DISCONNECTED" /\ client' = None /\ reconnector' = TRUE
     ELSE UNCHANGED <<state, client, reconnector>>

(* Slip: the pointer is cleared, the connection is left open. *)
DestroyClientOnly(s) ==
  /\ client' = None
  /\ state' = s
  /\ UNCHANGED <<socket, reconnector>>

(* _destroyClient, called in state s: a connected client is closed, which may
   run the callback above at once; the pointer is cleared in any case. *)
DestroyClient(s) ==
  /\ client' = None
  /\ IF client # None /\ IsOpen(client)
     THEN /\ socket' = [socket EXCEPT ![client] = Closed(client)]
          /\ state' = IF syncClose /\ s \in Recovers THEN "DISCONNECTED" ELSE s
          /\ reconnector' = (reconnector \/ (syncClose /\ s \in Recovers))
     ELSE state' = s /\ UNCHANGED <<socket, reconnector>>

(* _connect past its guards: close the old client, open a new one. *)
NewConnection ==
  LET n == CHOOSE c \in Socket : socket[c].tcp = "free"
  IN /\ \E c \in Socket : socket[c].tcp = "free"
     /\ socket' = [c \in Socket |-> IF c = n THEN Opening
                                    ELSE IF c = client THEN Closed(c) ELSE socket[c]]
     /\ client' = n
     /\ state' = "CONNECTING"

Crash ==
  /\ crashed' = TRUE
  /\ UNCHANGED <<state, client, socket, reconnector, queued>>

-----------------------------------------------------------------------------
(* The application. *)

(* connect(): refused with ERR_ISCONN unless DISCONNECTED. *)
UserConnect ==
  /\ state = "DISCONNECTED"
  /\ network' = TRUE
  /\ wanted' = TRUE
  /\ NewConnection
  /\ UNCHANGED <<reconnector, queued, pinging, syncClose, early, inCallback, crashed>>

(* disconnect(): send DISCONNECT if the TCP connection is up, and destroy the
   client.  Nothing here tells the reconnector to stop. *)
Disconnect ==
  /\ early' = (early \/ state \in {"CONNECTING", "TCP_CONNECTED"})
  /\ IF state \in {"TCP_CONNECTED", "RUNNING"} /\ client = None
     THEN Crash
     ELSE DestroyClient(state) /\ UNCHANGED <<queued, crashed>>

UserDisconnect ==
  /\ state # "DISCONNECTED"
  /\ Disconnect
  /\ UNCHANGED <<network, pinging, syncClose, wanted, inCallback>>

(* A publish, or the keep-alive timer's PINGREQ, finds no client. *)
SendWithoutClient ==
  /\ state = "RUNNING"
  /\ client = None
  /\ Crash
  /\ UNCHANGED <<network, pinging, syncClose, wanted, early, inCallback>>

InformNetworkState ==
  /\ network' = ~network
  /\ UNCHANGED <<state, client, socket, reconnector, queued, pinging, syncClose, wanted,
                 early, inCallback, crashed>>

-----------------------------------------------------------------------------
(* The timers and the queue of H4. *)

(* The reconnector's _connect; in any other case it returns at once.  (A client
   to close in DISCONNECTED exists only inside ServerDisconnect's callback.) *)
ReconnectTick ==
  /\ reconnector
  /\ state = "DISCONNECTED"
  /\ network
  /\ NewConnection
  /\ UNCHANGED <<reconnector, queued, network, pinging, syncClose, wanted, early,
                 inCallback, crashed>>

(* Slip: the emptiness of the queue is not tested. *)
RunConnectPacketUnguarded ==
  /\ queued' = queued - 1
  /\ UNCHANGED <<state, client, socket, reconnector, crashed, network, pinging, syncClose,
                 wanted, early, inCallback>>

(* The function onConnect queued: ConnectPacket, sent in any state that has a
   TCP connection, on whatever client is current by then. *)
RunConnectPacket ==
  /\ queued > 0
  /\ \/ /\ state \in {"RUNNING", "TCP_CONNECTED"}
        /\ client = None
        /\ Crash
     \/ /\ state \in {"RUNNING", "TCP_CONNECTED"} => client # None
        /\ queued' = queued - 1
        /\ socket' = IF state \in {"RUNNING", "TCP_CONNECTED"} /\ IsOpen(client)
                     THEN [socket EXCEPT ![client].connects = IF @ = 2 THEN 2 ELSE @ + 1] ELSE socket
        /\ UNCHANGED <<state, client, reconnector, crashed>>
  /\ UNCHANGED <<network, pinging, syncClose, wanted, early, inCallback>>

-----------------------------------------------------------------------------
(* The callbacks of the TCP library. *)

(* onConnect: the ConnectPacket announces _keepalive, a number of milliseconds,
   where the server reads seconds. *)
OnConnect(c) ==
  /\ socket[c].tcp = "opening"
  /\ queued < MaxQueued
  /\ IF client = None THEN Crash /\ UNCHANGED pinging
     ELSE /\ socket' = [socket EXCEPT ![c].tcp = "open"]
          /\ reconnector' = FALSE
          /\ keepalive' = KeepAliveInterval
          /\ demanded' = KeepAliveInterval
          /\ state' = "TCP_CONNECTED"
          /\ queued' = queued + 1
          /\ UNCHANGED <<client, crashed>>
  /\ UNCHANGED <<network, syncClose, wanted, early, inCallback>>

(* Slip: a failed attempt is not repeated. *)
OnConnectFailOnce(c) ==
  /\ socket[c].tcp = "opening"
  /\ socket' = [socket EXCEPT ![c] = Free]
  /\ state' = "DISCONNECTED"
  /\ client' = None
  /\ UNCHANGED <<reconnector, queued, network, pinging, syncClose, wanted, early, inCallback,
                 crashed>>

(* onConnectFail: the reconnector starts whatever the state. *)
OnConnectFail(c) ==
  /\ socket[c].tcp = "opening"
  /\ socket' = [socket EXCEPT ![c] = Free]
  /\ state' = "DISCONNECTED"
  /\ client' = None
  /\ reconnector' = TRUE
  /\ UNCHANGED <<queued, network, pinging, syncClose, wanted, early, inCallback, crashed>>

(* onError with an error code; the library then closes the connection. *)
OnError(c) ==
  /\ IsOpen(c)
  /\ state = "RUNNING"
  /\ state' = "TCP_ERROR"
  /\ UNCHANGED <<client, socket, reconnector, queued, network, pinging, syncClose, wanted,
                 early, inCallback, crashed>>

(* The peer or the network ends the connection. *)
Lost(c) ==
  /\ IsOpen(c)
  /\ OnDisconnect(c)
  /\ UNCHANGED <<queued, network, pinging, syncClose, wanted, early, inCallback, crashed>>

(* The callback that a close() left for later. *)
ClosedLater(c) ==
  /\ socket[c].tcp = "closing"
  /\ OnDisconnect(c)
  /\ UNCHANGED <<queued, network, pinging, syncClose, wanted, early, inCallback, crashed>>

-----------------------------------------------------------------------------
(* What arrives from the server. *)

AnswerDue(c) == IsOpen(c) /\ socket[c].connects > 0 /\ ~socket[c].answered

Answered(c) == [socket EXCEPT ![c].answered = TRUE]

(* Server Keep Alive in the properties of a CONNACK: the timer is started anew
   with the server's number. *)
HandleKeepAlive ==
  \/ UNCHANGED pinging
  \/ \E v \in ServerKeepAlives :
       /\ demanded' = v
       /\ keepalive' = IF v < keepalive THEN v ELSE keepalive

(* CONNACK, success.  In another state than TCP_CONNECTED it is only logged. *)
ConnackAccepted(c) ==
  /\ AnswerDue(c)
  /\ HandleKeepAlive
  /\ socket' = Answered(c)
  /\ state' = IF state = "TCP_CONNECTED" THEN "RUNNING" ELSE state
  /\ UNCHANGED <<client, reconnector, queued, network, syncClose, wanted, early,
                 inCallback, crashed>>

(* CONNACK for a session the client does not have: RUNNING, then destroyed. *)
ConnackUnknownSession(c) ==
  /\ AnswerDue(c)
  /\ state = "TCP_CONNECTED"
  /\ HandleKeepAlive
  /\ DestroyClient("RUNNING")
  /\ UNCHANGED <<queued, network, syncClose, wanted, early, inCallback, crashed>>

(* CONNACK with an error, or with no properties: the state does not change,
   and the connection is left to the server. *)
ConnackWithoutEffect(c) ==
  /\ AnswerDue(c)
  /\ socket' = Answered(c)
  /\ UNCHANGED <<state, client, reconnector, queued, network, pinging, syncClose, wanted,
                 early, inCallback, crashed>>

(* DISCONNECT from the server: DISCONNECTED first, then the application's
   callback, then the client is destroyed. *)
ServerDisconnect(c) ==
  /\ IsOpen(c)
  /\ socket[c].answered
  /\ wanted' = FALSE
  /\ DestroyClient("DISCONNECTED")
  /\ UNCHANGED <<queued, network, pinging, syncClose, early, inCallback, crashed>>

(* The same when the callback calls connect(): the client that is destroyed
   is the new one, which is not connected yet. *)
ServerDisconnectReconnect(c) ==
  /\ IsOpen(c)
  /\ socket[c].answered
  /\ network' = TRUE
  /\ wanted' = TRUE
  /\ inCallback' = TRUE
  /\ \E n \in Socket : /\ socket[n].tcp = "free"
                       /\ socket' = [socket EXCEPT ![c] = Closed(c), ![n] = Opening]
  /\ state' = "CONNECTING"
  /\ client' = None
  /\ UNCHANGED <<reconnector, queued, pinging, syncClose, early, crashed>>

(* A packet the client rejects: _protocolError, hence disconnect(). *)
ProtocolError(c) ==
  /\ IsOpen(c)
  /\ Disconnect
  /\ UNCHANGED <<network, pinging, syncClose, wanted, inCallback>>

(* The device starts again. *)
Reboot ==
  /\ crashed
  /\ state' = "DISCONNECTED"
  /\ client' = None
  /\ socket' = [c \in Socket |-> Free]
  /\ queued' = 0
  /\ network' = TRUE
  /\ reconnector' = FALSE
  /\ wanted' = FALSE
  /\ early' = FALSE
  /\ inCallback' = FALSE
  /\ crashed' = FALSE
  /\ keepalive' = 0
  /\ demanded' = 0
  /\ UNCHANGED syncClose

-----------------------------------------------------------------------------
Application ==
  \/ UserConnect
  \/ UserDisconnect
  \/ SendWithoutClient
  \/ InformNetworkState

Server(c) ==
  \/ ConnackAccepted(c)
  \/ ConnackUnknownSession(c)
  \/ ConnackWithoutEffect(c)
  \/ ServerDisconnect(c)
  \/ ServerDisconnectReconnect(c)
  \/ ProtocolError(c)

Tcp(c) ==
  \/ OnConnect(c)
  \/ OnConnectFail(c)
  \/ OnError(c)
  \/ Lost(c)
  \/ ClosedLater(c)

Next ==
  \/ ~crashed /\ Application
  \/ ~crashed /\ ReconnectTick
  \/ ~crashed /\ RunConnectPacket
  \/ \E c \in Socket : ~crashed /\ (Server(c) \/ Tcp(c))
  \/ Reboot

(* The H4 loop runs its timer and its queue; the library ends what it was
   told to close or reported as failed; a connection attempt ends, and one of
   many succeeds; a server that is asked often enough accepts. *)
Fairness ==
  /\ WF_vars(~crashed /\ ReconnectTick)
  /\ WF_vars(~crashed /\ RunConnectPacket)
  /\ \A c \in Socket :
       /\ WF_vars(~crashed /\ ClosedLater(c))
       /\ WF_vars(~crashed /\ state = "TCP_ERROR" /\ Lost(c))
       /\ WF_vars(~crashed /\ (OnConnect(c) \/ OnConnectFail(c)))
       /\ SF_vars(~crashed /\ OnConnect(c))
       /\ SF_vars(~crashed /\ ConnackAccepted(c))

Spec == Init /\ [][Next]_vars

FairSpec == Spec /\ Fairness

-----------------------------------------------------------------------------
(* What the code relies on: the library closes at once ("It all should be
   ending here", H4AsyncMQTT.cpp:295), disconnect() comes only when RUNNING,
   and connect() does not come from the disconnect callback. *)
Expected == syncClose /\ ~early /\ ~inCallback

(* The code never uses a client that is gone. *)
NoNullDereference == Expected => ~crashed

(* There is never a second connection, opening or open, beside the current
   one: a reconnection starts only when the last connection is over. *)
OneConnection ==
  Expected => Cardinality({c \in Socket : socket[c].tcp \in {"opening", "open"}}) <= 1

(* No connection carries two CONNECT packets, although they are built by a
   queued function that may run when another connection is current. *)
OneConnectPacket == Expected => \A c \in Socket : socket[c].connects <= 1

(* A client that is RUNNING holds a connection whose CONNECT was answered. *)
RunningIsAccepted ==
  Expected /\ state = "RUNNING" =>
    client # None /\ IsOpen(client) /\ socket[client].answered

(* A client that is DISCONNECTED without having been told so by the server
   has its reconnector running, however close() behaves and whenever the
   application calls. *)
ReconnectorArmed == state = "DISCONNECTED" /\ wanted => reconnector

Connected == client # None /\ IsOpen(client)

(* The connection is gone before its CONNACK: nothing tells the client. *)
Stuck == state = "TCP_CONNECTED" /\ ~Connected

(* Whatever fails, a client on a network that stays up holds an open TCP
   connection again and again.  The one exception is a client that lost its
   connection before the CONNACK and stays TCP_CONNECTED without one for ever: in
   no other state does it wait in vain. *)
KeepsConnecting ==
  <>[](network /\ wanted /\ Expected) => []<>Connected \/ <>[]Stuck

(* "If you informed with network disconnection, you MUSH either inform with
   network connected, or call the connect() API" (docs/api.md:123): then the
   client is connected to the server again. *)
NetworkConnectedReconnects ==
  <>[](network /\ wanted /\ ~early /\ ~inCallback) => <>(state = "RUNNING")

(* The period of the timer that sends PINGREQ, in milliseconds. *)
Period == (keepalive - Headroom) % Word

(* "The server can override the client Keep Alive value" (docs/mqtt5.md:62): a
   client that is RUNNING sends a PINGREQ before the server, which waits one and
   a half times the keep-alive it goes by, closes the connection. *)
PingsInTime == state = "RUNNING" => Period <= 1500 * demanded
=============================================================================
