SPECIFICATION Spec
CONSTANTS
  Txs = {"t1", "t2", "r", "b"}
  Coins <- PayCoins
  Elsewhere = "elsewhere"
  CreatedBy <- PayCreatedBy
  Spends <- PaySpends
  Mine = {"c1", "c2", "cb"}
  Value <- PayValue
  NotFinal = {"r"}
  LockHeight <- PayLockHeight
  Coinbases = {"b"}
  CoinbaseHeight <- PayCoinbaseHeight
  Maturity = 1
  Unconfirmed = 9
  MaxHeight = 2
INVARIANTS
  TypeOK
  OneOfDoubleSpend
  BalanceIsUtxos
  HistoryFollowsList
  ConflictsResolved
  CacheIsCurrent
PROPERTIES
  DependentsRemoved
