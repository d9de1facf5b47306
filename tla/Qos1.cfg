SPECIFICATION FairSpec
CONSTANTS
  IdSpace = 16
  MaxPublish = 3
  MaxInbound = 2
  InIds = {1, 2}
  PublishQoS = {1}
  RequestKinds = {}
  ReceiveMaxima = {1, 2}
  Word = 65536
  MaxRetries = 2
  DefaultReceiveMax = 9
  MayBeTooBig = TRUE
  MayExpire = TRUE
  MayRefuse = TRUE
  MayReject = TRUE
  MayMistake = TRUE
  Beside = 1
  MaxRest = 1
  MaxDrops = 2
INVARIANTS
  NoMessageLost
  PendingIsStored
  InflightExact
  ReceiveMaximumRespected
  HandedOnInOrder
  Handshake
  AcknowledgedWasDispatched
  FreshInbound
  NoInboundLeak
PROPERTIES
  PublishesSettle
  DeliversAsPromised
CHECK_DEADLOCK FALSE
