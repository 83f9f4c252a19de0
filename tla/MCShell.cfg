SPECIFICATION Spec
CONSTANTS
  Disks = {1, 2}
  Names = {"s", "t"}
  Image <- SomeImage
  MaxDepth = 2
CHECK_DEADLOCK FALSE
INVARIANT PathKept
INVARIANT WayBack
 
