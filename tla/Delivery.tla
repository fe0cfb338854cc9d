------------------------------ MODULE Delivery ------------------------------
(***************************************************************************)
(* From the commit of a domain change to the inboxes: the outbox, whose    *)
(* drainers publish to the Redis stream through redisOutboxPublisher of    *)
(* cmd/server, and the notification workers that consume the stream.       *)
(*                                                                         *)
(* The publisher hands the queue the type and the payload of an event, and *)
(* the queue gives each XADD an event_id of its own: an event that is      *)
(* published twice becomes two entries with two identities.                *)
(***************************************************************************)
EXTENDS Notifications

CONSTANTS Drainers, BatchSize, MaxAttempts

VARIABLES stage, attempts, leased, batch, marking, delivered, reported

boxVars == <<stage, attempts, leased, batch, marking, delivered, reported>>
allVars == <<vars, boxVars>>

Box == INSTANCE Outbox WITH Events <- Messages

DeliveryInit == Init /\ Box!Init

\* The outbox alone: rows come, are claimed and marked, leases run out.
Drain ==
  /\ \/ \E m \in Messages : Box!Enqueue(m) \/ Box!LeaseExpires(m)
     \/ \E d \in Drainers : Box!TableStep(d)
  /\ UNCHANGED vars

\* redisOutboxPublisher.Publish; an error may come without the entry or after it.
Publish(d, c) ==
  \/ /\ Box!Publish(d, c) \/ Box!PublishFails(d, c, TRUE)
     /\ XAdd(c.event)
     /\ UNCHANGED handlerVars
  \/ /\ Box!PublishFails(d, c, FALSE)
     /\ UNCHANGED vars

DeliveryNext ==
  \/ Drain
  \/ \E d \in Drainers : \E c \in batch[d] : Publish(d, c)
  \/ Consume /\ UNCHANGED boxVars

DeliverySpec == DeliveryInit /\ [][DeliveryNext]_allVars

-----------------------------------------------------------------------------
NotificationsFor(u, m) ==
  {n \in inbox : n[1] = u /\ stream[n[2]] = m}

\* A domain event notifies each person once, though it is delivered again when
\* its bookkeeping fails: "so a redelivered event cannot create a duplicate
\* row" (011_c_notifications.sql:10-11), "consumers are required to be
\* idempotent on event_id for exactly this case" (drainer.go:162-164).
OneNotificationPerEvent ==
  \A u \in Users, m \in Messages : Cardinality(NotificationsFor(u, m)) <= 1
=============================================================================
