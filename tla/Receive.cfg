SPECIFICATION FairSpec
CONSTANTS
  TopicSets = {{"a"}, {"a", "b"}}
  MaxNested = 1
  MaxSegment = 6
  MaxSent = 5
  MaxBad = 1
  MaxCalls = 2
  MaxConnections = 2
INVARIANTS
  TypeOK
  NothingSkipped
  OnlyRestsOvertaken
  RightCallback
  ServerIdsKnown
PROPERTY
  EverythingHandled
CHECK_DEADLOCK FALSE
