SPECIFICATION Spec
CONSTANTS
  IdSpace = 16
  MaxPublish = 1
  MaxInbound = 2
  InIds = {1, 2}
  PublishQoS = {1}
  RequestKinds = {}
  ReceiveMaxima = {1}
  Word = 65536
  MaxRetries = 2
  DefaultReceiveMax = 9
  MayBeTooBig = FALSE
  MayExpire = FALSE
  MayRefuse = FALSE
  MayReject = FALSE
  MayMistake = FALSE
  Beside = 1
  MaxRest = 0
  MaxDrops = 1
INVARIANT
  ExactlyOnceInbound
CHECK_DEADLOCK FALSE
