SPECIFICATION Spec
CONSTANTS
  IdSpace = 16
  MaxPublish = 3
  MaxInbound = 0
  InIds = {}
  PublishQoS = {1, 2}
  RequestKinds = {}
  ReceiveMaxima = {1, 2}
  Word = 65536
  MaxRetries = 2
  DefaultReceiveMax = 9
  MayBeTooBig = FALSE
  MayExpire = FALSE
  MayRefuse = FALSE
  MayReject = FALSE
  MayMistake = FALSE
  Beside = 1
  MaxRest = 0
  MaxDrops = 1
INVARIANT
  ReceiveMaximumRespected
CHECK_DEADLOCK FALSE
