CONSTANTS
  Stores <- MCStores
  Groups <- MCGroups
  Budget = 4
  MaxLimit <- MCMax
  DefaultLimit <- MCDefault
  Limits <- MCLimits
SPECIFICATION Spec
INVARIANTS
  TypeOK
  LogsBounded
  LogsMaximal
  NoSilentCut
  CompactUnlessVerbose
  WorkloadsFindable
