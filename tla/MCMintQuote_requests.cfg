CONSTANTS
  a1 = a1
  a2 = a2
  b1 = b1
  kOld = kOld
  kNew = kNew
  q1 = q1
  q2 = q2
  m1 = m1
  m2 = m2
  m3 = m3
  g1 = g1
  NoQuote = NoQuote
  MeltQuotes = {}
  Tokens <- MCFewTokens
  Keysets <- MCKeysets
  KeysetOf <- MCKeysetOf
  Value <- MCValue
  Ppk <- MCPpk
  Genesis = {}
  QuoteAmount <- MCQuoteAmount
  QuotePollers <- OnePoller
  MintQuotes <- OneQuote
  Mints <- ThreeMints
  MaxMintCrashes = 1
SPECIFICATION MintFairSpec
INVARIANTS
  IssuedBacked
  OneMinterPerQuote
PROPERTIES
  PendingQuoteReleased
  SettledIsNoticed
CHECK_DEADLOCK FALSE
