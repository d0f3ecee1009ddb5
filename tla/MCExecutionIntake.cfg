CHECK_DEADLOCK FALSE
SPECIFICATION FairSpec
CONSTANTS
  d1 = d1
  btc = btc
  None = None
  Decisions = {d1}
  Symbol <- MCSymbol
  MaxAge = 0
  MinInterval = 1
  ClaimTtl = 2
  IntentTtl = 1
  HandlingTime = 1
  MaxTries = 2
  MaxPolls = 1
  StoresFail = TRUE
  AuditFails = TRUE
  RedisLoses = TRUE
  Parts = TRUE
  AutoHeal = TRUE
  MaxCopies <- Twice
  MaxCrashes = 1
  Horizon = 2
INVARIANTS TypeOK IntentOnRecord FilledIsTraded
PROPERTIES ExecutesOnce LedgerContract ComesBack
