\* A process that dies while it holds an event for the last time.
CONSTANTS
  Events = {e1, e2}
  Drainers = {d1, d2}
  BatchSize = 2
  MaxAttempts = 3
SPECIFICATION Spec
INVARIANTS NothingIsDroppedSilently
CHECK_DEADLOCK FALSE
