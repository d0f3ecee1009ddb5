SPECIFICATION Spec
CONSTANTS
  e = e
  m = m
  x = x
  g = g
  Entries = {m}
  Makers = {m}
  Exits = {}
  Closes = {g}
  Lot = 2
  RemoveAfter = 2
INVARIANT TypeOK
INVARIANT FillNotForgotten
PROPERTY RecordContract
CHECK_DEADLOCK FALSE
