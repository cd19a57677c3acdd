SPECIFICATION Spec
CONSTANTS
  n1 = n1
  n2 = n2
  mq1 = mq1
  lq1 = lq1
  lq2 = lq2
  b1 = b1
  b2 = b2
  b3 = b3
  b4 = b4
  b5 = b5
  Nobody = Nobody
  Connections = {w1, w2}
  MintQuotes = {mq1}
  MeltQuotes = {lq1, lq2}
  ApiRequests <- MCApiRequests
  OutputAmount <- MCOutputAmount
  CacheEnabled = TRUE
  IdPerQuote = FALSE
  ApiCrashMax = 1
  ApiNotes = {n1, n2}
  Logins = {l1, l2}
  Calls = {r1, r2}
  Tokens = {t1, t2}
  BatchMax = 1
  HitsMax = 1
  NoToken = NoToken
  Clients = {c1, c2}
  SubIds = {s1}
  Filters = {f1}
  LastState = 2
  MaxClients = 2
  MaxSubs = 1
  CliClient = c1
  CliSub = s0
  CliFilter = f1
  Rotations = {o1, o2}
  Melts = {q1}
  LastCounter = 2
  CrashMax = 2
  NoKeyset = NoKeyset
INVARIANTS
  AnswersAreTrue  OneCallPerToken SubscriberIsTold
  SignedStaysRedeemable WalletFollowsRotation
CHECK_DEADLOCK FALSE
