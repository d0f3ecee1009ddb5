SPECIFICATION Spec
CONSTANTS
  c1 = c1
  c2 = c2
  x1 = x1
  x2 = x2
  i1 = i1
  None = None
  Orders = {c1, c2}
  ExIds = {x1, x2}
  Intents = {i1}
  IntentOf <- TwoIntentOf
  ExIdOf <- TwoExIdOf
  Qty = 2
  ExchangeSizes <- OneSize
  KeySets <- EveryKeySet
INVARIANTS TypeOK FilledIsReal IndexesAgree
PROPERTIES TerminalAndFillsStay RecordContract
CHECK_DEADLOCK FALSE
