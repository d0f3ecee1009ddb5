SPECIFICATION LiveSpec
CONSTANTS
  Tolerance = 0
  MaxHead = 4
  MaxLag = 2
  MaxRestarts = 1
INVARIANTS TypeOK Whole BlindStartOnly
PROPERTIES CatchesUp
