SPECIFICATION FairSpec
CONSTANTS
  RingSize = 2
  Keys <- SomeKeys
  Letters = {30}
  MaxKeys = 3
  MaxWire = 2
  Devices = {14}
  Vectors = {34, 46}
INVARIANT Acknowledged
INVARIANT NoStray
INVARIANT Faithful
PROPERTY InOrder
PROPERTY TypeAheadRead
