CONSTANTS
  Missing <- AnyMissing
  MaxChanges = 3
SPECIFICATION Spec
PROPERTY MissingIsVisible
