SPECIFICATION Spec
CONSTANTS
  Topic = {"a", "b", "c"}
  MaxPublish = 4
  ReceiveMax = 1
  AliasMaxima = {1, 2}
  RxAliasMax = 2
  MaxRetries = 2
INVARIANT NeverOtherTopic
CHECK_DEADLOCK FALSE
