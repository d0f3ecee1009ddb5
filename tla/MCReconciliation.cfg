SPECIFICATION LiveSpec
CONSTANTS
  o1 = o1
  Orders = {o1}
  MaxSize = 2
  Rows = {TRUE, FALSE}
  RemoveAfter = 2
  Slack = 1
  MaxFaults = 1
INVARIANTS TypeOK
PROPERTIES HealedIsOver RecordContract GhostsEnd PositionComesBack
