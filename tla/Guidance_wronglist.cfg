CONSTANTS
  IdTools <- AllIds
  MaxObstacles = 2
SPECIFICATION Spec
INVARIANT NoWrongList
