SPECIFICATION Spec
CONSTANTS
  MapBytes = 2
  Bits = 3
  Tail = 1
  PageSize = 4096
  Requests = {1, 4092}
INVARIANT Capacity
CHECK_DEADLOCK FALSE
