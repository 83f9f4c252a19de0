SPECIFICATION Spec
CONSTANTS
  MapBytes = 2
  Bits = 3
  Tail = 1
  PageSize = 4096
  Requests = {4088, 4097}
INVARIANT TypeOK
INVARIANT Disjoint
INVARIANT Exact
PROPERTY InHeap
PROPERTY RetrySucceeds
PROPERTY MallocHolds
PROPERTY KeepsPromise
CHECK_DEADLOCK FALSE
