CHECK_DEADLOCK FALSE
SPECIFICATION FairSpec
CONSTANTS
  MaxReposts = 1
  Fallbacks = {TRUE, FALSE}
  WindowPolls = 1
  TerminalPolls = 1
  MaxTries = 2
  MaxPolls = 1
  Size = 3
INVARIANTS TypeOK OneAtATime EndedIsOver FilledIsFilled
PROPERTIES Ends
