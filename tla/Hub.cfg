\* Two clients with one conversation in common and one of ann's own; clients may
\* connect before the hub runs, and one Redis command fails.
CONSTANTS
  ann = ann
  shared = shared
  Clients = {ann, bob}
  Rooms = {shared, other}
  CanAccess <- TheAccess
  Buffer = 1
  EarlyJoins = TRUE
  MaxFaults = 1
  hub = hub
  none = none
SPECIFICATION FairSpec
INVARIANTS TypeOK NoStraySubscription GoneClientsWatchNothing UnheardOnlyWhenLost
PROPERTIES ClosedClientsLeave
\* A panic ends the process.
CHECK_DEADLOCK FALSE
