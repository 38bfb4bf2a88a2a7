CONSTANTS
  r1 = r1  r2 = r2  publish = publish  status = status  claude = claude  cursor = cursor
  Main = Main  NoTool = NoTool  NoClient = NoClient
  Reqs <- MCReqs  Tools <- MCTools  Gated <- MCGated  TwoTrips <- MCTwoTrips
  Clients <- MCClients  MaxCrashes = 1
SPECIFICATION Spec
SYMMETRY TwoSymmetry
INVARIANTS
  TypeOK
  AtMostOnce
  UnreachableMeansUntouched
  OkMeansExecuted
  TagNamesCaller
  DisconnectAccounts
  IInv
PROPERTY KeepsPromise
CHECK_DEADLOCK FALSE
