SPECIFICATION Spec
CONSTANTS
  Starts <- SomeStarts
  MaxTicks = 2
INVARIANT TimeWas
INVARIANT Printed
