CONSTANTS
  a1 = a1
  a2 = a2
  c1 = c1
  c2 = c2
  kOld = kOld
  kNew = kNew
  qe = qe
  qi = qi
  mq = mq
  m1 = m1
  m2 = m2
  g1 = g1
  g2 = g2
  NoQuote = NoQuote
  Tokens <- MCTokens
  Keysets <- OneKeyset
  KeysetOf <- MCKeysetOf
  Value <- MCValue
  Ppk <- MCPpk
  Genesis <- MCGenesis
  MintQuotes <- OneMintQuote
  QuoteAmount <- MCQuoteAmount
  Mints = {}
  QuotePollers = {}
  MaxMintCrashes = 0
  MeltAmount <- MCMeltAmount
  FeeReserve <- MCFeeReserve
  FeeUnit = 2
  Internal <- MCInternal
  MeltQuotes <- ExternalQuote
  Melts <- OneMelt
  MeltPollers <- OnePoller
  UnknownInFlight = TRUE
  DisableOnError = FALSE
  NewCheckingId = TRUE
  MaxCrashes = 0
SPECIFICATION MeltFairSpec
PROPERTIES
  PendingMeltResolves
CHECK_DEADLOCK FALSE
