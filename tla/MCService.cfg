\* Two operators, one client, a service that is started twice.  A stopped service
\* stays stopped once the bounds are reached, so deadlock is not an error.
SPECIFICATION FairSpec
CONSTANTS
  Operators = {o1, o2}
  Clients = {c1}
  MaxStarts = 2
  MaxCommands = 2
INVARIANT TypeOK
INVARIANT StoppedIsQuiet
PROPERTY StopEnds
PROPERTY InstalledIsWhole
CHECK_DEADLOCK FALSE
