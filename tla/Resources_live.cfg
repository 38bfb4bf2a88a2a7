CONSTANTS
  Missing <- AnyMissing
  MaxChanges = 3
SPECIFICATION Spec
INVARIANT TypeOK
PROPERTIES
  ToldTruly
  PictureComplete
