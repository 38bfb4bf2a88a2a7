CONSTANTS
  IdTools <- Classified
  MaxObstacles = 2
SPECIFICATION FairSpec
INVARIANTS
  TypeOK
  SkewIsNamed
  OnlyConnectIsNoTool
  NoWrongList
PROPERTIES
  EachHintHelps
  HintsSuffice
