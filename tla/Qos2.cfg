SPECIFICATION Spec
CONSTANTS
  IdSpace = 16
  MaxPublish = 3
  MaxInbound = 0
  InIds = {}
  PublishQoS = {1, 2}
  RequestKinds = {"SUBSCRIBE", "UNSUBSCRIBE"}
  ReceiveMaxima = {1, 2}
  Word = 65536
  MaxRetries = 2
  DefaultReceiveMax = 9
  MayBeTooBig = TRUE
  MayExpire = FALSE
  MayRefuse = FALSE
  MayReject = TRUE
  MayMistake = FALSE
  Beside = 1
  MaxRest = 1
  MaxDrops = 2
INVARIANTS
  TypeOK
  NothingAbandoned
  ExactlyOnceOutbound
  SessionPresentHasData
PROPERTY
  DeliversAsPromised
CHECK_DEADLOCK FALSE
