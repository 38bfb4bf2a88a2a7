CONSTANTS
  IdTools <- Classified
  MaxObstacles = 2
SPECIFICATION Spec
INVARIANT SuggestionsExist
