-------------------------- MODULE Connection_proofs --------------------------
(***************************************************************************)
(* The life cycle for any number of sockets: type correctness, the         *)
(* reconnector, and, where the library and the application behave as the   *)
(* code expects, that the pointer to the client and the TCP connections    *)
(* agree.                                                                  *)
(***************************************************************************)
EXTENDS Connection, FiniteSetTheorems, TLAPS

(* The variables an action leaves alone, by what they are about. *)
TypeParts ==
  /\ state' \in State
  /\ client' \in Socket \cup {None}
  /\ socket' \in [Socket -> SocketState]
  /\ queued' \in 0 .. MaxQueued
  /\ keepalive' \in Nat /\ demanded' \in Nat
  /\ reconnector' \in BOOLEAN /\ network' \in BOOLEAN /\ syncClose' \in BOOLEAN
  /\ wanted' \in BOOLEAN /\ early' \in BOOLEAN /\ inCallback' \in BOOLEAN
  /\ crashed' \in BOOLEAN

LEMMA PartsAreType == TypeParts => TypeOK'
  BY DEF TypeParts, TypeOK

LEMMA SetTcp ==
  ASSUME NEW s \in SocketState, NEW v \in {"free", "opening", "open", "closing"}
  PROVE  [s EXCEPT !.tcp = v] \in SocketState
  BY DEF SocketState

LEMMA SetAnswered ==
  ASSUME NEW s \in SocketState PROVE [s EXCEPT !.answered = TRUE] \in SocketState
  BY DEF SocketState

LEMMA CountConnect ==
  ASSUME NEW s \in SocketState
  PROVE  [s EXCEPT !.connects = IF @ = 2 THEN 2 ELSE @ + 1] \in SocketState
  BY DEF SocketState

LEMMA SocketStates ==
  ASSUME TypeOK
  PROVE  /\ Free \in SocketState
         /\ Opening \in SocketState
         /\ \A c \in Socket : socket[c] \in SocketState /\ Closed(c) \in SocketState
  <1>1. Free \in SocketState
    BY DEF Free, SocketState
  <1>2. Opening \in SocketState
    BY <1>1, SetTcp, Zenon DEF Opening
  <1>3. \A c \in Socket : socket[c] \in SocketState
    BY DEF TypeOK
  <1>4. \A c \in Socket : Closed(c) \in SocketState
    BY <1>1, <1>3, SetTcp, Zenon DEF Closed
  <1>5. QED BY <1>1, <1>2, <1>3, <1>4

LEMMA DisconnectType ==
  ASSUME TypeOK, NEW c \in Socket, OnDisconnect(c)
  PROVE  /\ state' \in State
         /\ client' \in Socket \cup {None}
         /\ socket' \in [Socket -> SocketState]
         /\ reconnector' \in BOOLEAN
  BY SocketStates DEF OnDisconnect, TypeOK, State

LEMMA DestroyType ==
  ASSUME TypeOK, NEW s \in State, DestroyClient(s)
  PROVE  /\ state' \in State
         /\ client' = None
         /\ socket' \in [Socket -> SocketState]
         /\ reconnector' \in BOOLEAN
  BY SocketStates DEF DestroyClient, TypeOK, State

LEMMA NewConnectionType ==
  ASSUME TypeOK, NewConnection
  PROVE  /\ state' \in State
         /\ client' \in Socket
         /\ socket' \in [Socket -> SocketState]
  <1> DEFINE n == CHOOSE c \in Socket : socket[c].tcp = "free"
  <1>1. n \in Socket
    BY DEF NewConnection
  <1>2. client' = n /\ state' = "CONNECTING"
    BY DEF NewConnection
  <1>3. socket' = [c \in Socket |-> IF c = n THEN Opening
                                    ELSE IF c = client THEN Closed(c) ELSE socket[c]]
    BY DEF NewConnection
  <1> HIDE DEF n
  <1>4. QED BY <1>1, <1>2, <1>3, SocketStates DEF State

LEMMA DisconnectCallType ==
  ASSUME TypeOK, Disconnect
  PROVE  /\ state' \in State
         /\ client' \in Socket \cup {None}
         /\ socket' \in [Socket -> SocketState]
         /\ queued' \in 0 .. MaxQueued
         /\ reconnector' \in BOOLEAN /\ early' \in BOOLEAN /\ crashed' \in BOOLEAN
  <1>1. early' \in BOOLEAN
    BY DEF Disconnect, TypeOK
  <1>2. CASE Crash /\ crashed'
    BY <1>1, <1>2 DEF Crash, TypeOK
  <1>3. CASE DestroyClient(state) /\ UNCHANGED <<queued, crashed>>
    BY <1>1, <1>3, DestroyType DEF TypeOK
  <1>4. QED BY <1>2, <1>3 DEF Disconnect, Crash

-----------------------------------------------------------------------------
LEMMA ApplicationType ==
  ASSUME TypeOK, Application PROVE TypeOK'
  <1>1. CASE UserConnect
    <2>1. TypeParts BY <1>1, NewConnectionType DEF UserConnect, TypeParts, TypeOK, pinging
    <2>2. QED BY <2>1, PartsAreType
  <1>2. CASE UserDisconnect
    <2>1. TypeParts BY <1>2, DisconnectCallType DEF UserDisconnect, TypeParts, TypeOK, pinging
    <2>2. QED BY <2>1, PartsAreType
  <1>3. CASE SendWithoutClient
    <2>1. TypeParts BY <1>3 DEF SendWithoutClient, Crash, TypeParts, TypeOK, pinging
    <2>2. QED BY <2>1, PartsAreType
  <1>4. CASE InformNetworkState
    <2>1. TypeParts BY <1>4 DEF InformNetworkState, TypeParts, TypeOK, pinging
    <2>2. QED BY <2>1, PartsAreType
  <1>5. QED BY <1>1, <1>2, <1>3, <1>4 DEF Application

LEMMA QueueType ==
  ASSUME TypeOK, MaxQueued \in Nat, ReconnectTick \/ RunConnectPacket \/ Reboot
  PROVE  TypeOK'
  <1>1. CASE ReconnectTick
    <2>1. TypeParts BY <1>1, NewConnectionType DEF ReconnectTick, TypeParts, TypeOK, pinging
    <2>2. QED BY <2>1, PartsAreType
  <1>2. CASE RunConnectPacket
    <2>1. queued' \in 0 .. MaxQueued
      BY <1>2 DEF RunConnectPacket, Crash, TypeOK
    <2>2. socket' \in [Socket -> SocketState]
      <3>1. ASSUME NEW c \in Socket
            PROVE  [socket[c] EXCEPT !.connects = IF @ = 2 THEN 2 ELSE @ + 1] \in SocketState
        BY SocketStates, CountConnect, Zenon
      <3>2. client \in Socket \cup {None}
        BY DEF TypeOK
      <3>3. CASE client = None
        BY <1>2, <3>3 DEF RunConnectPacket, Crash, TypeOK
      <3>4. CASE client \in Socket
        BY <1>2, <3>1, <3>4 DEF RunConnectPacket, Crash, TypeOK
      <3>5. QED BY <3>2, <3>3, <3>4
    <2>3. TypeParts
      BY <1>2, <2>1, <2>2 DEF RunConnectPacket, Crash, TypeParts, TypeOK, pinging
    <2>4. QED BY <2>3, PartsAreType
  <1>3. CASE Reboot
    <2>1. socket' \in [Socket -> SocketState] /\ state' \in State /\ queued' \in 0 .. MaxQueued
      BY <1>3, SocketStates DEF Reboot, State
    <2>2. TypeParts
      BY <1>3, <2>1 DEF Reboot, TypeParts, TypeOK
    <2>3. QED BY <2>2, PartsAreType
  <1>4. QED BY <1>1, <1>2, <1>3

LEMMA TcpType ==
  ASSUME ConnectionAssumption, TypeOK, NEW c \in Socket, Tcp(c) PROVE TypeOK'
  <1>1. CASE OnConnect(c)
    <2>1. [socket[c] EXCEPT !.tcp = "open"] \in SocketState
      BY SocketStates, SetTcp, Zenon
    <2>2. CASE client = None
      BY <1>1, <2>2, PartsAreType DEF OnConnect, Crash, TypeParts, TypeOK, pinging
    <2>3. CASE client # None
      <3>1. socket' \in [Socket -> SocketState]
        BY <1>1, <2>1, <2>3 DEF OnConnect, TypeOK
      <3>2. queued' \in 0 .. MaxQueued
        BY <1>1, <2>3 DEF OnConnect, TypeOK, ConnectionAssumption
      <3>3. keepalive' \in Nat /\ demanded' \in Nat
        BY <1>1, <2>3 DEF OnConnect, ConnectionAssumption
      <3>4. TypeParts
        BY <1>1, <2>3, <3>1, <3>2, <3>3 DEF OnConnect, TypeParts, TypeOK, State
      <3>5. QED BY <3>4, PartsAreType
    <2>4. QED BY <2>2, <2>3
  <1>2. CASE OnConnectFail(c)
    <2>1. TypeParts
      BY <1>2, SocketStates DEF OnConnectFail, TypeParts, TypeOK, State, pinging
    <2>2. QED BY <2>1, PartsAreType
  <1>3. CASE OnError(c)
    <2>1. TypeParts BY <1>3 DEF OnError, TypeParts, TypeOK, State, pinging
    <2>2. QED BY <2>1, PartsAreType
  <1>4. CASE Lost(c)
    <2>1. TypeParts BY <1>4, DisconnectType DEF Lost, TypeParts, TypeOK, pinging
    <2>2. QED BY <2>1, PartsAreType
  <1>5. CASE ClosedLater(c)
    <2>1. TypeParts BY <1>5, DisconnectType DEF ClosedLater, TypeParts, TypeOK, pinging
    <2>2. QED BY <2>1, PartsAreType
  <1>6. QED BY <1>1, <1>2, <1>3, <1>4, <1>5 DEF Tcp

LEMMA ServerType ==
  ASSUME ConnectionAssumption, TypeOK, NEW c \in Socket, Server(c) PROVE TypeOK'
  <1>1. Answered(c) \in [Socket -> SocketState]
    <2>1. [socket[c] EXCEPT !.answered = TRUE] \in SocketState
      BY SocketStates, SetAnswered, Zenon
    <2>2. QED BY <2>1 DEF Answered, TypeOK
  <1>2. HandleKeepAlive => keepalive' \in Nat /\ demanded' \in Nat
    BY DEF HandleKeepAlive, pinging, TypeOK, ConnectionAssumption
  <1>3. CASE ConnackAccepted(c)
    <2>1. TypeParts BY <1>1, <1>2, <1>3 DEF ConnackAccepted, TypeParts, TypeOK, State
    <2>2. QED BY <2>1, PartsAreType
  <1>4. CASE ConnackUnknownSession(c)
    <2>1. "RUNNING" \in State BY DEF State
    <2>2. TypeParts
      BY <1>2, <1>4, <2>1, DestroyType DEF ConnackUnknownSession, TypeParts, TypeOK
    <2>3. QED BY <2>2, PartsAreType
  <1>5. CASE ConnackWithoutEffect(c)
    <2>1. TypeParts BY <1>1, <1>5 DEF ConnackWithoutEffect, TypeParts, TypeOK, pinging
    <2>2. QED BY <2>1, PartsAreType
  <1>6. CASE ServerDisconnect(c)
    <2>1. "DISCONNECTED" \in State BY DEF State
    <2>2. TypeParts
      BY <1>6, <2>1, DestroyType DEF ServerDisconnect, TypeParts, TypeOK, pinging
    <2>3. QED BY <2>2, PartsAreType
  <1>7. CASE ServerDisconnectReconnect(c)
    <2>1. socket' \in [Socket -> SocketState]
      BY <1>7, SocketStates DEF ServerDisconnectReconnect, TypeOK
    <2>2. TypeParts
      BY <1>7, <2>1 DEF ServerDisconnectReconnect, TypeParts, TypeOK, State, pinging
    <2>3. QED BY <2>2, PartsAreType
  <1>8. CASE ProtocolError(c)
    <2>1. TypeParts BY <1>8, DisconnectCallType DEF ProtocolError, TypeParts, TypeOK, pinging
    <2>2. QED BY <2>1, PartsAreType
  <1>9. QED BY <1>3, <1>4, <1>5, <1>6, <1>7, <1>8 DEF Server

LEMMA StepType ==
  ASSUME ConnectionAssumption, TypeOK, [Next]_vars PROVE TypeOK'
  <1>1. CASE Application
    BY <1>1, ApplicationType
  <1>2. CASE ReconnectTick \/ RunConnectPacket \/ Reboot
    BY <1>2, QueueType DEF ConnectionAssumption
  <1>3. ASSUME NEW c \in Socket, Tcp(c) \/ Server(c) PROVE TypeOK'
    BY <1>3, TcpType, ServerType
  <1>4. CASE UNCHANGED vars
    BY <1>4 DEF vars, pinging, TypeOK
  <1>5. QED BY <1>1, <1>2, <1>3, <1>4 DEF Next

(* The type invariant, for any sockets, intervals and queue. *)
THEOREM TypeCorrect == Spec => []TypeOK
  <1>1. Init => TypeOK
    <2>1. ASSUME Init PROVE socket \in [Socket -> SocketState] /\ state \in State
      BY <2>1 DEF Init, State, SocketState, Free
    <2>2. ASSUME Init PROVE queued \in 0 .. MaxQueued
      BY <2>2, ConnectionAssumption DEF Init, ConnectionAssumption
    <2>3. ASSUME Init PROVE client \in Socket \cup {None} /\ {keepalive, demanded} \subseteq Nat
      BY <2>3 DEF Init
    <2>4. ASSUME Init
          PROVE  {reconnector, network, syncClose, wanted, early, inCallback, crashed} \subseteq BOOLEAN
      BY <2>4, Zenon DEF Init
    <2>5. QED BY <2>1, <2>2, <2>3, <2>4 DEF TypeOK
  <1>2. TypeOK /\ [Next]_vars => TypeOK'
    BY ConnectionAssumption, StepType
  <1>3. QED BY <1>1, <1>2, PTL DEF Spec

-----------------------------------------------------------------------------
(* The reconnector: whatever leads to DISCONNECTED starts it, and it stops only
   where the client leaves DISCONNECTED. *)

LEMMA DestroyArms ==
  ASSUME NEW s \in State \ {"DISCONNECTED"}, DestroyClient(s)
  PROVE  state' = "DISCONNECTED" => reconnector'
  BY DEF DestroyClient

LEMMA DestroyKeepsArmed ==
  ASSUME TypeOK, ReconnectorArmed, DestroyClient(state), wanted' = wanted
  PROVE  ReconnectorArmed'
  <1>1. CASE state = "DISCONNECTED"
    BY <1>1 DEF DestroyClient, ReconnectorArmed, TypeOK
  <1>2. CASE state # "DISCONNECTED"
    BY <1>2, DestroyArms DEF ReconnectorArmed, TypeOK
  <1>3. QED BY <1>1, <1>2

LEMMA DisconnectKeepsArmed ==
  ASSUME TypeOK, ReconnectorArmed, Disconnect, wanted' = wanted
  PROVE  ReconnectorArmed'
  <1>1. CASE Crash
    BY <1>1 DEF Crash, ReconnectorArmed
  <1>2. CASE DestroyClient(state)
    BY <1>2, DestroyKeepsArmed
  <1>3. QED BY <1>1, <1>2 DEF Disconnect

LEMMA LostKeepsArmed ==
  ASSUME NEW c, ReconnectorArmed, OnDisconnect(c), wanted' = wanted
  PROVE  ReconnectorArmed'
  BY DEF OnDisconnect, ReconnectorArmed

LEMMA StepArmed ==
  ASSUME TypeOK, ReconnectorArmed, [Next]_vars PROVE ReconnectorArmed'
  <1>1. CASE Application
    <2>1. CASE UserConnect
      BY <2>1 DEF UserConnect, NewConnection, ReconnectorArmed
    <2>2. CASE UserDisconnect
      BY <2>2, DisconnectKeepsArmed DEF UserDisconnect
    <2>3. CASE SendWithoutClient
      BY <2>3 DEF SendWithoutClient, Crash, ReconnectorArmed
    <2>4. CASE InformNetworkState
      BY <2>4 DEF InformNetworkState, ReconnectorArmed
    <2>5. QED BY <1>1, <2>1, <2>2, <2>3, <2>4 DEF Application
  <1>2. CASE ReconnectTick
    BY <1>2 DEF ReconnectTick, NewConnection, ReconnectorArmed
  <1>3. CASE RunConnectPacket
    BY <1>3 DEF RunConnectPacket, Crash, ReconnectorArmed
  <1>4. ASSUME NEW c \in Socket, Server(c) PROVE ReconnectorArmed'
    <2>1. CASE ConnackAccepted(c)
      BY <2>1 DEF ConnackAccepted, ReconnectorArmed
    <2>2. CASE ConnackUnknownSession(c)
      <3>1. "RUNNING" \in State \ {"DISCONNECTED"} BY DEF State
      <3>2. QED BY <2>2, <3>1, DestroyArms DEF ConnackUnknownSession, ReconnectorArmed
    <2>3. CASE ConnackWithoutEffect(c)
      BY <2>3 DEF ConnackWithoutEffect, ReconnectorArmed
    <2>4. CASE ServerDisconnect(c)
      BY <2>4 DEF ServerDisconnect, ReconnectorArmed
    <2>5. CASE ServerDisconnectReconnect(c)
      BY <2>5 DEF ServerDisconnectReconnect, ReconnectorArmed
    <2>6. CASE ProtocolError(c)
      BY <2>6, DisconnectKeepsArmed DEF ProtocolError
    <2>7. QED BY <1>4, <2>1, <2>2, <2>3, <2>4, <2>5, <2>6 DEF Server
  <1>5. ASSUME NEW c \in Socket, Tcp(c) PROVE ReconnectorArmed'
    <2>1. CASE OnConnect(c)
      BY <2>1 DEF OnConnect, Crash, ReconnectorArmed
    <2>2. CASE OnConnectFail(c)
      BY <2>2 DEF OnConnectFail, ReconnectorArmed
    <2>3. CASE OnError(c)
      BY <2>3 DEF OnError, ReconnectorArmed
    <2>4. CASE Lost(c)
      BY <2>4, LostKeepsArmed DEF Lost
    <2>5. CASE ClosedLater(c)
      BY <2>5, LostKeepsArmed DEF ClosedLater
    <2>6. QED BY <1>5, <2>1, <2>2, <2>3, <2>4, <2>5 DEF Tcp
  <1>6. CASE Reboot
    BY <1>6 DEF Reboot, ReconnectorArmed
  <1>7. CASE UNCHANGED vars
    BY <1>7 DEF vars, ReconnectorArmed
  <1>8. QED BY <1>1, <1>2, <1>3, <1>4, <1>5, <1>6, <1>7 DEF Next

(* A client that is DISCONNECTED against its will always has its reconnector
   running, for any number of sockets and however close() behaves. *)
THEOREM ReconnectorAlwaysArmed == Spec => []ReconnectorArmed
  <1>1. Init => ReconnectorArmed
    BY DEF Init, ReconnectorArmed
  <1>2. TypeOK /\ ReconnectorArmed /\ [Next]_vars => ReconnectorArmed'
    BY StepArmed
  <1>3. QED BY <1>1, <1>2, TypeCorrect, PTL DEF Spec

-----------------------------------------------------------------------------
(* The phases of a connection, where everything behaves as the code expects:
   the pointer and the TCP connections agree, and a ConnectPacket waits in the
   queue only for the connection it was queued for. *)

Alone == client \in Socket /\ \A d \in Socket \ {client} : socket[d] = Free

Down ==
  /\ state = "DISCONNECTED" /\ queued = 0
  /\ client = None /\ \A d \in Socket : socket[d] = Free

Opens == state = "CONNECTING" /\ queued = 0 /\ Alone /\ socket[client] = Opening

Greets ==
  /\ state = "TCP_CONNECTED" /\ queued \in {0, 1} /\ Alone
  /\ \/ socket[client] = Free
     \/ /\ IsOpen(client)
        /\ socket[client].connects = 1 - queued
        /\ socket[client].answered => queued = 0

Up ==
  /\ state \in {"RUNNING", "TCP_ERROR"} /\ queued = 0 /\ Alone
  /\ IsOpen(client) /\ socket[client].connects = 1 /\ socket[client].answered

Phases == Down \/ Opens \/ Greets \/ Up

LifeCycle == Expected => ~crashed /\ Phases

LEMMA FreeFields ==
  /\ Free.tcp = "free" /\ Free.connects = 0 /\ Free.answered = FALSE
  /\ Opening.tcp = "opening" /\ Opening.connects = 0 /\ Opening.answered = FALSE
  BY DEF Free, Opening

LEMMA TheClient ==
  ASSUME ConnectionAssumption, Phases, NEW c \in Socket, socket[c].tcp # "free"
  PROVE  c = client /\ client # None /\ state # "DISCONNECTED"
  BY FreeFields DEF ConnectionAssumption, Phases, Down, Opens, Greets, Up, Alone, None

LEMMA DestroyDown ==
  ASSUME ConnectionAssumption, TypeOK, Phases, syncClose, queued = 0, queued' = 0,
         NEW s \in State, DestroyClient(s), client # None, IsOpen(client),
         s \in Recovers \cup {"DISCONNECTED"}
  PROVE  Down'
  <1>1. client \in Socket /\ Alone
    BY DEF Phases, Down, Opens, Greets, Up, Alone
  <1>2. socket' = [socket EXCEPT ![client] = Free] /\ client' = None
    BY DEF DestroyClient, Closed
  <1>3. state' = "DISCONNECTED"
    BY DEF DestroyClient
  <1>4. \A d \in Socket : socket'[d] = Free
    BY <1>1, <1>2 DEF Alone, TypeOK
  <1>5. QED BY <1>2, <1>3, <1>4 DEF Down

(* disconnect() comes only when the client is RUNNING or TCP_ERROR. *)
LEMMA DisconnectDown ==
  ASSUME ConnectionAssumption, TypeOK, Phases, syncClose, Disconnect, ~early', ~crashed,
         state # "DISCONNECTED"
  PROVE  Phases' /\ ~crashed'
  <1>1. state \notin {"CONNECTING", "TCP_CONNECTED"}
    BY DEF Disconnect
  <1>2. Up
    BY <1>1 DEF Phases, Down, Opens, Greets
  <1>3. client # None /\ queued = 0 /\ IsOpen(client)
    BY <1>2 DEF Up, Alone, ConnectionAssumption, None
  <1>4. DestroyClient(state) /\ queued' = 0 /\ ~crashed'
    BY <1>3 DEF Disconnect
  <1>5. state \in State /\ state \in Recovers
    BY <1>2 DEF Up, State, Recovers
  <1>6. Down'
    BY <1>3, <1>4, <1>5, DestroyDown
  <1>7. QED BY <1>4, <1>6 DEF Phases

LEMMA NewOpens ==
  ASSUME TypeOK, Down, NewConnection, queued' = queued
  PROVE  Opens'
  <1> DEFINE n == CHOOSE c \in Socket : socket[c].tcp = "free"
  <1>1. n \in Socket /\ client' = n /\ state' = "CONNECTING"
    BY DEF NewConnection
  <1>2. socket' = [c \in Socket |-> IF c = n THEN Opening
                                    ELSE IF c = client THEN Closed(c) ELSE socket[c]]
    BY DEF NewConnection
  <1> HIDE DEF n
  <1>3. \A d \in Socket : d # client
    BY ConnectionAssumption DEF Down, None, ConnectionAssumption
  <1>4. QED BY <1>1, <1>2, <1>3 DEF Down, Opens, Alone

LEMMA OverPhases ==
  ASSUME TypeOK, ConnectionAssumption, Phases, NEW c \in Socket, OnDisconnect(c),
         IsOpen(c) \/ socket[c].tcp = "closing", queued' = queued
  PROVE  Phases'
  <1>1. c = client /\ client # None
    BY TheClient DEF IsOpen
  <1>2. socket' = [socket EXCEPT ![c] = Free]
    BY DEF OnDisconnect
  <1>3. CASE Up
    <2>1. \A d \in Socket : socket'[d] = Free
      BY <1>1, <1>2, <1>3 DEF Up, Alone, TypeOK
    <2>2. QED BY <1>3, <2>1 DEF Up, OnDisconnect, Recovers, Phases, Down
  <1>4. CASE Greets
    <2>1. UNCHANGED <<state, client>>
      BY <1>4 DEF Greets, OnDisconnect, Recovers
    <2>2. \A d \in Socket : socket'[d] = Free
      BY <1>1, <1>2, <1>4 DEF Greets, Alone, TypeOK
    <2>3. QED BY <1>4, <2>1, <2>2 DEF Greets, Alone, Phases
  <1>5. ~Down /\ ~Opens
    BY <1>1, FreeFields DEF Down, Opens, IsOpen
  <1>6. QED BY <1>3, <1>4, <1>5 DEF Phases

(* Frame: a step that leaves all this alone stays in its phase. *)
LEMMA SamePhase ==
  ASSUME Phases, UNCHANGED <<state, client, socket, queued>> PROVE Phases'
  BY DEF Phases, Down, Opens, Greets, Up, Alone, IsOpen

LEMMA ApplicationPhases ==
  ASSUME ConnectionAssumption, TypeOK, Phases, ~crashed, Application, syncClose, ~early'
  PROVE  Phases' /\ ~crashed'
  <1>1. CASE UserConnect
    <2>1. Down
      BY <1>1 DEF UserConnect, Phases, Opens, Greets, Up
    <2>2. QED BY <1>1, <2>1, NewOpens DEF UserConnect, Phases
  <1>2. CASE UserDisconnect
    BY <1>2, DisconnectDown DEF UserDisconnect
  <1>3. CASE SendWithoutClient
    BY <1>3 DEF SendWithoutClient, Phases, Down, Opens, Greets, Up, Alone,
                ConnectionAssumption, None
  <1>4. CASE InformNetworkState
    BY <1>4, SamePhase DEF InformNetworkState
  <1>5. QED BY <1>1, <1>2, <1>3, <1>4 DEF Application

LEMMA QueuePhases ==
  ASSUME ConnectionAssumption, TypeOK, Phases, ~crashed, ReconnectTick \/ RunConnectPacket
  PROVE  Phases' /\ ~crashed'
  <1>1. CASE ReconnectTick
    <2>1. Down
      BY <1>1 DEF ReconnectTick, Phases, Opens, Greets, Up
    <2>2. QED BY <1>1, <2>1, NewOpens DEF ReconnectTick, Phases
  <1>2. CASE RunConnectPacket
    <2>1. Greets /\ queued = 1
      BY <1>2 DEF RunConnectPacket, Phases, Down, Opens, Up, Greets
    <2>2. client # None /\ client \in Socket /\ state = "TCP_CONNECTED"
      BY <2>1 DEF Greets, Alone, ConnectionAssumption, None
    <2>3. queued' = 0 /\ UNCHANGED <<state, client, crashed>>
      BY <1>2, <2>1, <2>2 DEF RunConnectPacket, Crash
    <2>4. CASE socket[client] = Free
      <3>1. UNCHANGED socket
        BY <1>2, <2>2, <2>4, FreeFields DEF RunConnectPacket, Crash, IsOpen
      <3>2. QED BY <2>1, <2>3, <2>4, <3>1 DEF Greets, Alone, Phases
    <2>5. CASE IsOpen(client) /\ socket[client].connects = 0 /\ ~socket[client].answered
      <3>1. socket' = [socket EXCEPT ![client].connects = IF @ = 2 THEN 2 ELSE @ + 1]
        BY <1>2, <2>2, <2>5 DEF RunConnectPacket, Crash
      <3>2. socket[client] \in SocketState
        BY <2>2 DEF TypeOK
      <3>3. /\ socket'[client].tcp = "open" /\ socket'[client].connects = 1
            /\ ~socket'[client].answered
        BY <2>2, <2>5, <3>1, <3>2 DEF TypeOK, IsOpen, SocketState
      <3>4. \A d \in Socket \ {client} : socket'[d] = Free
        BY <2>1, <2>2, <3>1 DEF Greets, Alone, TypeOK
      <3>5. QED BY <2>2, <2>3, <3>3, <3>4 DEF Greets, Alone, Phases, IsOpen
    <2>6. QED BY <2>1, <2>4, <2>5 DEF Greets
  <1>3. QED BY <1>1, <1>2

LEMMA TcpPhases ==
  ASSUME ConnectionAssumption, TypeOK, Phases, ~crashed, NEW c \in Socket, Tcp(c)
  PROVE  Phases' /\ ~crashed'
  <1>1. CASE OnConnect(c)
    <2>1. c = client /\ client # None
      BY <1>1, TheClient DEF OnConnect
    <2>2. Opens
      BY <1>1, <2>1, FreeFields
      DEF OnConnect, Phases, Down, Greets, Up, Alone, IsOpen, None, ConnectionAssumption
    <2>3. socket' = [socket EXCEPT ![c].tcp = "open"] /\ queued' = 1
          /\ state' = "TCP_CONNECTED" /\ UNCHANGED <<client, crashed>>
      BY <1>1, <2>1, <2>2 DEF OnConnect, Opens
    <2>4. socket[c] = Opening /\ socket[c] \in SocketState
      BY <2>1, <2>2 DEF Opens, TypeOK
    <2>5. socket'[c].tcp = "open" /\ socket'[c].connects = 0 /\ ~socket'[c].answered
      BY <2>3, <2>4, FreeFields DEF TypeOK, SocketState
    <2>6. \A d \in Socket \ {client} : socket'[d] = Free
      BY <2>1, <2>2, <2>3 DEF Opens, Alone, TypeOK
    <2>7. QED BY <2>1, <2>3, <2>5, <2>6 DEF Greets, Alone, Phases, IsOpen
  <1>2. CASE OnConnectFail(c)
    <2>1. c = client /\ client # None
      BY <1>2, TheClient DEF OnConnectFail
    <2>2. Opens
      BY <1>2, <2>1, FreeFields
      DEF OnConnectFail, Phases, Down, Greets, Up, Alone, IsOpen, None, ConnectionAssumption
    <2>3. \A d \in Socket : socket'[d] = Free
      BY <1>2, <2>1, <2>2 DEF OnConnectFail, Opens, Alone, TypeOK
    <2>4. QED BY <1>2, <2>2, <2>3 DEF OnConnectFail, Opens, Down, Phases
  <1>3. CASE OnError(c)
    <2>1. Up
      BY <1>3 DEF OnError, Phases, Down, Opens, Greets
    <2>2. QED BY <1>3, <2>1 DEF OnError, Up, Alone, Phases, IsOpen
  <1>4. CASE Lost(c)
    BY <1>4, OverPhases DEF Lost
  <1>5. CASE ClosedLater(c)
    BY <1>5, OverPhases DEF ClosedLater
  <1>6. QED BY <1>1, <1>2, <1>3, <1>4, <1>5 DEF Tcp

LEMMA ServerPhases ==
  ASSUME ConnectionAssumption, TypeOK, Phases, ~crashed, syncClose, ~early', ~inCallback',
         NEW c \in Socket, Server(c)
  PROVE  Phases' /\ ~crashed'
  <1>1. IsOpen(c)
    BY DEF Server, ConnackAccepted, ConnackUnknownSession, ConnackWithoutEffect, AnswerDue,
           ServerDisconnect, ServerDisconnectReconnect, ProtocolError
  <1>2. c = client /\ client # None /\ state # "DISCONNECTED" /\ (Greets \/ Up)
    BY <1>1, TheClient, FreeFields DEF IsOpen, Phases, Down, Opens
  <1>3. ASSUME AnswerDue(c), socket' = Answered(c), UNCHANGED <<client, queued, crashed>>,
               state' \in {state, "RUNNING"}
        PROVE  Phases' /\ ~crashed'
    <2>1. Greets /\ queued = 0 /\ socket[c].connects = 1
      BY <1>2, <1>3, FreeFields DEF AnswerDue, Greets, Up, IsOpen
    <2>2. socket[c] \in SocketState
      BY DEF TypeOK
    <2>3. socket'[c].tcp = "open" /\ socket'[c].connects = 1 /\ socket'[c].answered
      BY <1>1, <1>3, <2>1, <2>2 DEF Answered, TypeOK, IsOpen, SocketState
    <2>4. \A d \in Socket \ {client} : socket'[d] = Free
      BY <1>2, <1>3, <2>1 DEF Answered, Greets, Alone, TypeOK
    <2>5. QED BY <1>2, <1>3, <2>1, <2>3, <2>4 DEF Greets, Up, Alone, Phases, IsOpen
  <1>4. CASE ConnackAccepted(c)
    BY <1>3, <1>4 DEF ConnackAccepted
  <1>5. CASE ConnackUnknownSession(c)
    <2>1. queued = 0
      BY <1>2, <1>5, FreeFields DEF ConnackUnknownSession, AnswerDue, Greets, Up, IsOpen
    <2>2. "RUNNING" \in State /\ "RUNNING" \in Recovers
      BY DEF State, Recovers
    <2>3. Down'
      BY <1>1, <1>2, <1>5, <2>1, <2>2, DestroyDown DEF ConnackUnknownSession
    <2>4. QED BY <1>5, <2>3 DEF ConnackUnknownSession, Phases
  <1>6. CASE ConnackWithoutEffect(c)
    BY <1>3, <1>6 DEF ConnackWithoutEffect
  <1>7. CASE ServerDisconnect(c)
    <2>1. queued = 0
      BY <1>2, <1>7, FreeFields DEF ServerDisconnect, Greets, Up, IsOpen
    <2>2. "DISCONNECTED" \in State
      BY DEF State
    <2>3. Down'
      BY <1>1, <1>2, <1>7, <2>1, <2>2, DestroyDown DEF ServerDisconnect
    <2>4. QED BY <1>7, <2>3 DEF ServerDisconnect, Phases
  <1>8. CASE ServerDisconnectReconnect(c)
    BY <1>8 DEF ServerDisconnectReconnect
  <1>9. CASE ProtocolError(c)
    BY <1>2, <1>9, DisconnectDown DEF ProtocolError
  <1>10. QED BY <1>4, <1>5, <1>6, <1>7, <1>8, <1>9 DEF Server

LEMMA RebootLifeCycle ==
  ASSUME Reboot PROVE LifeCycle'
  BY DEF Reboot, LifeCycle, Phases, Down

(* What is no longer expected stays so until the device reboots. *)
LEMMA DisconnectStaysEarly ==
  ASSUME Disconnect, ~early' PROVE ~early
  BY Zenon DEF Disconnect

LEMMA ExpectedBefore ==
  ASSUME [Next]_vars, Expected', ~Reboot PROVE Expected
  <1>1. ASSUME UNCHANGED <<syncClose, early, inCallback>> PROVE Expected
    BY <1>1 DEF Expected
  <1>2. ASSUME Disconnect, UNCHANGED <<syncClose, inCallback>> PROVE Expected
    BY <1>2, DisconnectStaysEarly DEF Expected
  <1>3. CASE Application
    BY <1>1, <1>2, <1>3, Zenon
    DEF Application, UserConnect, UserDisconnect, SendWithoutClient, InformNetworkState
  <1>4. CASE ReconnectTick \/ RunConnectPacket
    BY <1>1, <1>4, Zenon DEF ReconnectTick, RunConnectPacket
  <1>5. ASSUME NEW c \in Socket, Tcp(c) PROVE Expected
    BY <1>1, <1>5, Zenon DEF Tcp, OnConnect, OnConnectFail, OnError, Lost, ClosedLater
  <1>6. ASSUME NEW c \in Socket, Server(c) PROVE Expected
    <2>1. ~ServerDisconnectReconnect(c)
      BY Zenon DEF ServerDisconnectReconnect, Expected
    <2>2. QED
      BY <1>1, <1>2, <1>6, <2>1, Zenon
      DEF Server, ConnackAccepted, ConnackUnknownSession, ConnackWithoutEffect,
          ServerDisconnect, ProtocolError
  <1>7. CASE UNCHANGED vars
    BY <1>1, <1>7 DEF vars
  <1>8. QED BY <1>3, <1>4, <1>5, <1>6, <1>7 DEF Next

LEMMA StepLifeCycle ==
  ASSUME ConnectionAssumption, TypeOK, LifeCycle, [Next]_vars PROVE LifeCycle'
  <1>1. CASE Reboot
    BY <1>1, RebootLifeCycle
  <1>2. CASE ~Reboot
    <2> SUFFICES ASSUME Expected' PROVE ~crashed' /\ Phases'
      BY DEF LifeCycle
    <2>1. Expected /\ ~crashed /\ Phases /\ syncClose /\ ~early' /\ ~inCallback'
      BY <1>2, ExpectedBefore DEF LifeCycle, Expected
    <2>2. CASE Application
      BY <2>1, <2>2, ApplicationPhases
    <2>3. CASE ReconnectTick \/ RunConnectPacket
      BY <2>1, <2>3, QueuePhases
    <2>4. ASSUME NEW c \in Socket, Tcp(c) PROVE ~crashed' /\ Phases'
      BY <2>1, <2>4, TcpPhases
    <2>5. ASSUME NEW c \in Socket, Server(c) PROVE ~crashed' /\ Phases'
      BY <2>1, <2>5, ServerPhases
    <2>6. CASE UNCHANGED vars
      BY <2>1, <2>6, SamePhase DEF vars
    <2>7. QED BY <1>2, <2>2, <2>3, <2>4, <2>5, <2>6 DEF Next
  <1>3. QED BY <1>1, <1>2

(* The phases are an invariant of every execution in which the library and the
   application behave as the code expects. *)
THEOREM LifeCycleInvariant == Spec => []LifeCycle
  <1>1. Init => LifeCycle
    BY DEF Init, LifeCycle, Phases, Down
  <1>2. TypeOK /\ LifeCycle /\ [Next]_vars => LifeCycle'
    BY ConnectionAssumption, StepLifeCycle
  <1>3. QED BY <1>1, <1>2, TypeCorrect, PTL DEF Spec

(* No method is called through a null pointer to the client. *)
THEOREM NeverNullDereference == Spec => []NoNullDereference
  <1>1. LifeCycle => NoNullDereference
    BY DEF LifeCycle, NoNullDereference
  <1>2. QED BY <1>1, LifeCycleInvariant, PTL

(* At most one TCP connection is opening or open. *)
THEOREM AlwaysOneConnection == Spec => []OneConnection
  <1>1. TypeOK /\ LifeCycle => OneConnection
    <2> SUFFICES ASSUME TypeOK, LifeCycle, Expected
                 PROVE  Cardinality({c \in Socket : socket[c].tcp \in {"opening", "open"}}) <= 1
      BY DEF OneConnection
    <2> DEFINE used == {c \in Socket : socket[c].tcp \in {"opening", "open"}}
    <2>1. used \subseteq {client}
      BY ConnectionAssumption, TheClient DEF LifeCycle
    <2>2. IsFiniteSet({client}) /\ Cardinality({client}) = 1
      BY FS_Singleton
    <2>3. Cardinality(used) <= Cardinality({client})
      BY <2>1, <2>2, FS_Subset
    <2>4. QED BY <2>2, <2>3
  <1>2. QED BY <1>1, TypeCorrect, LifeCycleInvariant, PTL

(* No TCP connection carries a second CONNECT. *)
THEOREM AlwaysOneConnectPacket == Spec => []OneConnectPacket
  <1>1. TypeOK /\ LifeCycle => OneConnectPacket
    BY FreeFields DEF LifeCycle, OneConnectPacket, Phases, Down, Opens, Greets, Up, Alone
  <1>2. QED BY <1>1, TypeCorrect, LifeCycleInvariant, PTL

(* A RUNNING client has an open connection whose CONNECT was answered. *)
THEOREM RunningAlwaysAccepted == Spec => []RunningIsAccepted
  <1>1. LifeCycle => RunningIsAccepted
    BY ConnectionAssumption
    DEF LifeCycle, RunningIsAccepted, Phases, Down, Opens, Greets, Up, Alone,
        ConnectionAssumption, None
  <1>2. QED BY <1>1, LifeCycleInvariant, PTL
=============================================================================
