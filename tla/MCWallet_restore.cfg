SPECIFICATION WalletSpec
CONSTANTS
  Tasks = {t1}
  MintQuotes = {i1}
  MeltQuotes = {p1}
  NoQuote = NoQuote
  MintSize = 1
  MeltNeed = 1
  BlankOutputs = 1
  Batch = 2
  EmptyLimit = 1
  Backups <- backups
  MaxIndex = 6
  MaxFaults = 1
INVARIANT RestoredCounterIsFresh
CHECK_DEADLOCK FALSE
