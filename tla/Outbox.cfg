\* Two drainers and two events, claimed one or two at a time, with a last
\* attempt after the first.  No symmetry: a liveness property is checked.
CONSTANTS
  Events = {e1, e2}
  Drainers = {d1, d2}
  BatchSize = 2
  MaxAttempts = 3
SPECIFICATION FairSpec
INVARIANTS TypeOK DeliveriesArePaidFor PublishedWasDelivered
PROPERTIES EventsAreSettled
\* Everything may have been published or used up.
CHECK_DEADLOCK FALSE
