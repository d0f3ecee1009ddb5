SPECIFICATION Spec
CONSTANTS
  e = e
  m = m
  x = x
  g = g
  Entries = {e}
  Makers = {}
  Exits = {}
  Closes = {g}
  Lot = 2
  RemoveAfter = 2
INVARIANT NoPhantom
CHECK_DEADLOCK FALSE
