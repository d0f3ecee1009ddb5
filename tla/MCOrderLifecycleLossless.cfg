SPECIFICATION LosslessSpec
CONSTANTS
  c1 = c1
  c2 = c2
  x1 = x1
  x2 = x2
  i1 = i1
  None = None
  Orders = {c1}
  ExIds = {x1}
  Intents = {i1}
  IntentOf <- OneIntentOf
  ExIdOf <- OneExIdOf
  Qty = 3
  ExchangeSizes <- RoundedSizes
  KeySets <- ClientKeys
PROPERTIES ClosedIsLearned
CHECK_DEADLOCK FALSE
