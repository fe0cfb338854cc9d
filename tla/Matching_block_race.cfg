\* The commit of a block between a swipe's check for blocks and its own commit.
CONSTANTS
  Users = {u1, u2}
  Requests = {r1, r2, r3}
  LockKey <- DistinctKeys
SPECIFICATION Spec
PROPERTIES NoMatchAcrossABlock
CHECK_DEADLOCK FALSE
