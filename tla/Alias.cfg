SPECIFICATION Spec
CONSTANTS
  Topic = {"a", "b", "c"}
  MaxPublish = 4
  ReceiveMax = 1
  AliasMaxima = {2}
  RxAliasMax = 3
  MaxRetries = 2
INVARIANTS
  TypeOK
  RightTopic
  AliasWithinMaximum
  InboundTopicRight
PROPERTIES
  TopicRecovered
CHECK_DEADLOCK FALSE
