SPECIFICATION LiveSpec
CONSTANTS
  okx = okx
  bybit = bybit
  kraken = kraken
  None = None
  Exchanges = {okx, bybit, kraken}
  Registered = {okx, bybit}
  Primary = okx
  Secondary = bybit
  ArmTargets <- MCArmTargets
  HasRouter = TRUE
  Restarts = TRUE
INVARIANTS TypeOK
PROPERTIES HaltIsFinal UnreadinessIsLearned
