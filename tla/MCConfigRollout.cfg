SPECIFICATION LiveSpec
CONSTANTS
  b1 = b1
  b2 = b2
  okx = okx
  bybit = bybit
  h1 = h1
  h2 = h2
  Bots = {b1}
  Exchanges = {okx, bybit}
  First = okx
  Handlers = {h1, h2}
  Updates <- MCUpdates
  MaxVersion = 3
  Failures = TRUE
  Restarts = TRUE
INVARIANTS TypeOK PublishedIsStored NothingForgotten
PROPERTIES PendingIsApplied
