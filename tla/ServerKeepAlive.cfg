SPECIFICATION Spec
CONSTANTS
  Socket = {1, 2}
  MaxQueued = 2
  KeepAliveInterval = 58000
  Headroom = 2000
  ServerKeepAlives = {60}
  Word = 16777216
INVARIANT PingsInTime
