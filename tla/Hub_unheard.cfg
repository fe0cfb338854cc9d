\* Two clients of one conversation who connect while the hub is running; no
\* Redis command fails.
CONSTANTS
  ann = ann
  shared = shared
  Clients = {ann, bob}
  Rooms = {shared}
  CanAccess <- TheAccess
  Buffer = 1
  EarlyJoins = FALSE
  MaxFaults = 0
  hub = hub
  none = none
SPECIFICATION Spec
INVARIANTS WatchersAreSubscribed
CHECK_DEADLOCK FALSE
