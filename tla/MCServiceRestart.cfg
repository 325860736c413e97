\* One operator is enough: restart races the service that it has told to stop.
SPECIFICATION FairSpec
CONSTANTS
  Operators = {o1}
  Clients = {c1}
  MaxStarts = 2
  MaxCommands = 2
PROPERTY RestartRestarts
CHECK_DEADLOCK FALSE
