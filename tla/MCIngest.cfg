CONSTANTS
  tokenA = tokenA
  tokenB = tokenB
  noToken = noToken
  p1 = p1
  p2 = p2
  w1 = w1
  w2 = w2
  c0 = c0
  c6 = c6
  Token = {tokenA, tokenB, noToken}
  NoToken = noToken
  Padded = {tokenA}
  Pool = {p1, p2}
  Tokens <- PoolTokens
  Decimals <- TokenDecimals
  Task = {w1, w2}
  Mixes <- TwoTasks
  MaxTry = 2
  MaxErr = 2
  Coin = {c0, c6}
  CoinDecimals <- EachDecimals
  Topics <- Transactions
  LATEST_BACKFILL = 1
  FetchLimit = 2
  MaxLoss = 2
  HoldingKinds = {"AmPool", "CePool", "KrPool", "ScCoin", "CeVe", "ScVe", "ScDebt", "Stake", "Navi"}
  Request = {1, 2}
  Ttl = 1
  FetchTime = 1
  SqrtPrice = {9, 10, 12}
  MaxMoves = 1
  MaxDefects = 1
SPECIFICATION MCSpec
INVARIANTS IngestTypeOK GuessesTraced TradesMirrorSwaps RowsBelievable
  PositionsWorth
PROPERTIES HandlersEndHere SettledShownOnce ImplementsConsumer
CHECK_DEADLOCK FALSE
