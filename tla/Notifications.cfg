\* Two workers on one or two entries, the first of which may be trimmed; every
\* handler may fail, and one command or consumer does.
CONSTANTS
  ann = ann
  bob = bob
  match = match
  Messages = {match}
  Users = {ann, bob}
  Recipients <- TheRecipients
  Workers = {w1, w2}
  MaxLen = 1
  HandlerAttempts = 2
  MaxEntries = 2
  MaxFaults = 1
SPECIFICATION FairSpec
INVARIANTS TypeOK NothingLeavesUnhandled RowsArePushedOnce HandledNotifiesAll
PROPERTIES EntriesLeave
\* The stream may be empty for good.
CHECK_DEADLOCK FALSE
