SPECIFICATION LiveSpec
CONSTANTS
  e = e
  m = m
  x = x
  g = g
  Entries = {e}
  Makers = {}
  Exits = {x}
  Closes = {}
  Lot = 2
  RemoveAfter = 2
PROPERTIES PositionConverges RecordCatchesUp
CHECK_DEADLOCK FALSE
