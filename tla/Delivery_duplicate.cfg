\* One match, one drainer and one worker; no Redis command fails.
CONSTANTS
  ann = ann
  bob = bob
  Messages = {match}
  Users = {ann, bob}
  Recipients <- TheRecipients
  Workers = {w1}
  MaxLen = 2
  HandlerAttempts = 2
  MaxEntries = 2
  MaxFaults = 0
  Drainers = {d1}
  BatchSize = 1
  MaxAttempts = 2
SPECIFICATION DeliverySpec
INVARIANTS OneNotificationPerEvent
CHECK_DEADLOCK FALSE
