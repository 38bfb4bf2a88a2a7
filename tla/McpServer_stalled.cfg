CONSTANTS
  r1 = r1  r2 = r2  publish = publish  status = status  claude = claude  cursor = cursor
  Main = Main  NoTool = NoTool  NoClient = NoClient
  Reqs <- MCReqs  Tools <- MCTools  Gated <- MCGated  TwoTrips <- MCTwoTrips
  Clients <- OneClient  MaxCrashes = 1
SPECIFICATION StalledSpec
PROPERTY InitializeAnswered
CHECK_DEADLOCK FALSE
