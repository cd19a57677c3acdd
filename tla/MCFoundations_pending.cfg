SPECIFICATION Spec
CONSTANTS
  x1 = x1
  x2 = x2
  Points <- Z
  Scalars <- Z
  PAdd <- ZAdd
  Neg <- ZNeg
  Times <- ZMul
  SAdd <- ZAdd
  SMul <- ZMul
  G = 1
  Infinity = 0
  Zero = 0
  HashToCurve <- ZHashToCurve
  HashToCurveDeprecated <- ZHashToCurveDeprecated
  HashE <- ZHashE
  Secrets <- MCSecrets
  MintKey = 3
  ana = ana
  bea = bea
  cy = cy
  p1 = p1
  p2 = p2
  swp = swp
  mlt = mlt
  NoWitness = NoWitness
  NoLock = NoLock
  NoRequest = NoRequest
  Owners <- MCOwners
  Proofs <- MCProofs
  Locks <- MCLocks
  Requests <- MCRequests
  SwapTargets <- MCSwaps
  MeltTargets <- MCMelts
  MaxTime = 2
  MaxSigns = 3
  kA = kA
  kO = kO
  KeysetPpk <- MCKeysetPpk
  ActiveKeyset = kA
  Purses <- MCPurses
  Requested <- MCRequested
  FeeReserves <- MCReserves
  TargetCount = 2
  AllowedAmounts <- MCAllowedAmounts
  MaxOrder = 5
  Nothing = Nothing
  MaxPayments = 2
  kb = kb
  k0 = k0
  kv = kv
  ku = ku
  kw = kw
  kx = kx
  ky = ky
  sv = sv
  sx = sx
  mA = mA
  mB = mB
  KeysetIds <- MCKeysetIds
  IdVersion <- MCIdVersion
  Prefix <- MCPrefix
  MintOf <- MCMintOf
  UnitOf <- MCUnitOf
  TokenProofs <- MCTokenProofs
  ForeignTokens <- MCForeignTokens
  SendIds = {s1, s2}
  NoSend = NoSend
  d1 = d1
  d2 = d2
  d3 = d3
  d4 = d4
  Callers = {d1, d2, d3, d4}
  Rows = {x1, x2}
  RowOf <- MCRowOf
  LockOf <- MCLockOf
  Existing = {x1}
  LockTimeout = 3
  Margin = 4
  Owed = 2
  FlightMax = 1
  MovesMax = 3
  LateMax = 1
  LeakMax = 4
  NoEntry = NoEntry
  NoteRows = {n1, n2}
  BatchSize = 1
  DeathsMax = 2
  n1 = n1
  n2 = n2
  Kinds = {"clnrest", "corelightningrest", "lndrest", "lndgrpc", "lnbits", "blink", "strike"}
  Kmsat = 2
  Quotes = {2, 3}
  Invoices = {4, 5}
  Parts = {2}
  Probes = {0, 2, 4}
  ReserveMin = 2
  ReservePercent = 50
  MaxPaid = 2
  Notes = {n1, n2}
  OldVersions = {10, 15, 26}
  Null = Null
INVARIANT PendingStaysPending
CHECK_DEADLOCK FALSE
