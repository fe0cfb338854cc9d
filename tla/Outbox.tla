------------------------------- MODULE Outbox -------------------------------
(***************************************************************************)
(* internal/outbox: the rows of outbox_events and the drainers that        *)
(* publish them.  Every API replica runs a drainer; they share the table   *)
(* and know nothing of each other.                                         *)
(*                                                                         *)
(* A claim is one statement (UPDATE .. FOR UPDATE SKIP LOCKED).  It counts *)
(* an attempt and moves available_at into the future, which leases the row *)
(* to the drainer until that time has come.                                *)
(***************************************************************************)
EXTENDS Naturals, FiniteSets

CONSTANTS Events,      \* bound: the events ever recorded
          Drainers,
          BatchSize,
          MaxAttempts

ASSUME OutboxAssumption ==
  /\ BatchSize \in Nat \ {0}
  /\ MaxAttempts \in Nat \ {0}
  /\ IsFiniteSet(Drainers)

VARIABLES stage,       \* stage[e]: no row yet, unpublished, or published_at set
          attempts,
          leased,      \* available_at lies in the future
          batch,       \* batch[d]: the claimed events d has yet to deal with
          marking,     \* marking[d]: the one it has just published, or none
          delivered,   \* history: how often an event reached the transport
          reported     \* history: the events logged as out of retries

row == <<stage, attempts, leased>>
vars == <<row, batch, marking, delivered, reported>>

\* What a drainer holds in memory: an event and the attempt it claimed it for.
Claims == [event: Events, attempt: 1 .. MaxAttempts]

TypeOK ==
  /\ stage \in [Events -> {"none", "pending", "published"}]
  /\ attempts \in [Events -> 0 .. MaxAttempts]
  /\ leased \in [Events -> BOOLEAN]
  /\ batch \in [Drainers -> SUBSET Claims]
  /\ marking \in [Drainers -> SUBSET Claims]
  /\ delivered \in [Events -> Nat]
  /\ reported \in SUBSET Events

Init ==
  /\ stage = [e \in Events |-> "none"]
  /\ attempts = [e \in Events |-> 0]
  /\ leased = [e \in Events |-> FALSE]
  /\ batch = [d \in Drainers |-> {}]
  /\ marking = [d \in Drainers |-> {}]
  /\ delivered = [e \in Events |-> 0]
  /\ reported = {}

-----------------------------------------------------------------------------
\* Fault: the last attempt is never made.
ClaimableButLast ==
  {e \in Events : stage[e] = "pending" /\ ~leased[e] /\ attempts[e] + 1 < MaxAttempts}

\* Fault: the limit is not looked at.
ClaimableForEver == {e \in Events : stage[e] = "pending" /\ ~leased[e]}

Claimable ==
  {e \in Events : stage[e] = "pending" /\ ~leased[e] /\ attempts[e] < MaxAttempts}

Idle(d) == batch[d] = {} /\ marking[d] = {}

\* The transaction of a domain change commits, and its event with it.
Enqueue(e) ==
  /\ stage[e] = "none"
  /\ stage' = [stage EXCEPT ![e] = "pending"]
  /\ UNCHANGED <<attempts, leased, batch, marking, delivered, reported>>

\* A tick or a kick: DrainOnce claims as many rows as there are, up to the size
\* of a batch.
Claim(d) ==
  /\ Idle(d)
  /\ \E claimed \in SUBSET Claimable \ {{}} :
       /\ \/ Cardinality(claimed) = BatchSize
          \/ claimed = Claimable /\ Cardinality(claimed) < BatchSize
       /\ attempts' = [e \in Events |->
                         IF e \in claimed THEN attempts[e] + 1 ELSE attempts[e]]
       /\ leased' = [e \in Events |-> leased[e] \/ e \in claimed]
       /\ batch' = [batch EXCEPT ![d] =
                      {[event |-> e, attempt |-> attempts[e] + 1] : e \in claimed}]
  /\ UNCHANGED <<stage, marking, delivered, reported>>

\* The back-off of the row has passed.
LeaseExpires(e) ==
  /\ leased[e]
  /\ stage[e] = "pending"
  /\ leased' = [leased EXCEPT ![e] = FALSE]
  /\ UNCHANGED <<stage, attempts, batch, marking, delivered, reported>>

\* The transport has taken the event.
Publish(d, c) ==
  /\ marking[d] = {}
  /\ c \in batch[d]
  /\ batch' = [batch EXCEPT ![d] = @ \ {c}]
  /\ marking' = [marking EXCEPT ![d] = {c}]
  /\ delivered' = [delivered EXCEPT ![c.event] = @ + 1]
  /\ UNCHANGED <<row, reported>>

\* Fault: a failed event stays in the batch and is tried again at once.
KeepsFailed(d, c) == batch[d]

WithoutFailed(d, c) == batch[d] \ {c}

\* Fault: a failure falls through to the bookkeeping of a success.
MarksFailed(c) == {c}

MarksNothing(c) == {}

\* Publish returns an error, although the transport may have taken the event
\* (a lost reply).  recordFailure logs it, loudly after the last attempt, and
\* writes last_error, which nothing reads.
PublishFails(d, c, taken) ==
  /\ marking[d] = {}
  /\ c \in batch[d]
  /\ batch' = [batch EXCEPT ![d] = WithoutFailed(d, c)]
  /\ marking' = [marking EXCEPT ![d] = MarksNothing(c)]
  /\ delivered' = IF taken THEN [delivered EXCEPT ![c.event] = @ + 1] ELSE delivered
  /\ reported' = IF c.attempt >= MaxAttempts THEN reported \cup {c.event} ELSE reported
  /\ UNCHANGED row

\* UPDATE .. SET published_at WHERE published_at IS NULL.
MarkPublished(d) ==
  /\ marking[d] # {}
  /\ marking' = [marking EXCEPT ![d] = {}]
  /\ stage' = [e \in Events |-> IF \E c \in marking[d] : c.event = e
                                THEN "published" ELSE stage[e]]
  /\ UNCHANGED <<attempts, leased, batch, delivered, reported>>

\* The bookkeeping fails: the event will be delivered again.
MarkFails(d) ==
  /\ marking[d] # {}
  /\ marking' = [marking EXCEPT ![d] = {}]
  /\ UNCHANGED <<row, batch, delivered, reported>>

\* The process dies, or is shut down between two events, and is started again:
\* what it had claimed is forgotten.
Stop(d) ==
  /\ ~Idle(d)
  /\ batch' = [batch EXCEPT ![d] = {}]
  /\ marking' = [marking EXCEPT ![d] = {}]
  /\ UNCHANGED <<row, delivered, reported>>

-----------------------------------------------------------------------------
\* The steps of a drainer with the table alone, and those with the transport.
TableStep(d) == Claim(d) \/ MarkPublished(d) \/ MarkFails(d) \/ Stop(d)

TransportStep(d) ==
  \E c \in batch[d] :
    Publish(d, c) \/ \E taken \in BOOLEAN : PublishFails(d, c, taken)

Next ==
  \/ \E e \in Events : Enqueue(e) \/ LeaseExpires(e)
  \/ \E d \in Drainers : TableStep(d) \/ TransportStep(d)

Spec == Init /\ [][Next]_vars

\* A drainer polls, gets on with its batch, and time passes; the transport and
\* the database may fail every time.
FairSpec ==
  /\ Spec
  /\ \A d \in Drainers : WF_vars(TableStep(d) \/ TransportStep(d))
  /\ \A e \in Events : WF_vars(LeaseExpires(e))

-----------------------------------------------------------------------------
Holders(e) == {d \in Drainers : \E c \in batch[d] : c.event = e}

\* Each delivery of an event is paid for by an attempt, whoever claimed it,
\* however often its lease ran out and whatever was lost with a process: it
\* reaches the transport at most MaxAttempts times (drainer.go:32-48, 157-167).
DeliveriesArePaidFor ==
  \A e \in Events : delivered[e] + Cardinality(Holders(e)) <= attempts[e]

\* No event is taken off the list that the transport has not taken
\* (drainer.go:157-167).
PublishedWasDelivered ==
  \A e \in Events : stage[e] = "published" => delivered[e] >= 1

\* An event out of attempts that no drainer holds, delivered or not, has been
\* reported, or was published: "if this process dies mid publish, the row
\* becomes eligible again" (drainer.go:29-31), and "dropping a match
\* notification silently is worse than an alert" (drainer.go:216-217).
NothingIsDroppedSilently ==
  \A e \in Events :
    (/\ stage[e] = "pending"
     /\ attempts[e] = MaxAttempts
     /\ \A d \in Drainers : \A c \in batch[d] \cup marking[d] : c.event # e)
      => e \in reported

\* However often processes die and the transport fails, a recorded event is
\* published or has been claimed as often as it may be: none is forgotten with
\* attempts left (drainer.go:27-31, 107-142).
EventsAreSettled ==
  \A e \in Events :
    stage[e] = "pending" ~> (stage[e] = "published" \/ attempts[e] = MaxAttempts)
=============================================================================
