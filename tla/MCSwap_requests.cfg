CONSTANTS
  a1 = a1
  a2 = a2
  b1 = b1
  b2 = b2
  b3 = b3
  b4 = b4
  kOld = kOld
  kNew = kNew
  r1 = r1
  r2 = r2
  u1 = u1
  u2 = u2
  v1 = v1
  v2 = v2
  HeldQuotes = {v1, v2}
  BackendOrder <- TwoBackends
  DeathMax = 2
  NoQuote = NoQuote
  MeltQuotes = {}
  Tokens <- MCTokens
  Keysets <- MCKeysets
  KeysetOf <- MCKeysetOf
  Value <- MCValue
  Ppk <- MCPpk
  Genesis <- MCGenesis
  Swaps <- MCSwaps
  MaxFaults = 2
SPECIFICATION FairSpec
INVARIANTS
  HoldersExclusive
  BalanceMatchesTables
  NoInflation
  FeesCoverSupplyLoss
PROPERTIES
  SwapImplementsEcash
  EveryLockReleased
  HeldQuotesAreResolved
CHECK_DEADLOCK FALSE
