SPECIFICATION FairSurface
CONSTANTS
  Sessions = {"s1", "s2"}
  NoSession = "none"
  Borrowers = {"c1", "c2"}
  GenerationModulus = 8
  IdentityOf <- MCIdentityOf
  Identities <- MCIdentities
  Paths <- MCPaths
  MaxOpens = 2
  NativeLists <- MCNativeLists
  CounterModulus = 8
  InitialNative = {7}
  MaxNative = 1
CHECK_DEADLOCK FALSE
INVARIANTS
  HandlesAccounted
  FakesStayInside
  IdentifiersAgree
  NoMissedChange
  WalkIsWhole
PROPERTIES
  SteamCatchesUp
