SPECIFICATION Spec
CONSTANTS
  Radix = 8
  Lengths = {2, 6}
  Ids = {258}
  MaxSettings = 2
INVARIANTS
  TypeOK
  CountedIsWritten
  ServerUnderstands
  StoredTraitsRight
  ReceivedAsMeant
  OptionsRespected
CHECK_DEADLOCK FALSE
