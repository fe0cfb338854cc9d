---------------------------- MODULE OutboxProofs ----------------------------
(***************************************************************************)
(* For any number of events and drainers and any limit: an event reaches   *)
(* the transport no more often than it was claimed, and none is taken off  *)
(* the list that has not reached it.                                       *)
(***************************************************************************)
EXTENDS Outbox, TLAPS, FiniteSetTheorems

\* A batch has an event once: it was claimed by one statement.
ClaimedOnce ==
  \A d \in Drainers : \A b, c \in batch[d] : b.event = c.event => b = c

\* What is about to be marked has reached the transport.
MarkedWasDelivered ==
  \A d \in Drainers : \A c \in marking[d] : delivered[c.event] >= 1

OutboxInv ==
  /\ TypeOK /\ ClaimedOnce /\ MarkedWasDelivered
  /\ DeliveriesArePaidFor /\ PublishedWasDelivered

-----------------------------------------------------------------------------
\* There are as many holders as there are drainers at most.
LEMMA HoldersAreFew ==
  ASSUME NEW e
  PROVE  IsFiniteSet(Holders(e)) /\ Cardinality(Holders(e)) \in Nat
<1>1. Holders(e) \subseteq Drainers
  BY DEF Holders
<1> QED BY <1>1, FS_Subset, FS_CardinalityType, OutboxAssumption

LEMMA HoldersAreFewAfter ==
  ASSUME NEW e
  PROVE  IsFiniteSet(Holders(e)') /\ Cardinality(Holders(e)') \in Nat
<1>1. Holders(e)' \subseteq Drainers
  BY DEF Holders
<1> QED BY <1>1, FS_Subset, FS_CardinalityType, OutboxAssumption

\* Forgetting claims leaves the rest paid for.
LEMMA FewerHolders ==
  ASSUME TypeOK, DeliveriesArePaidFor, UNCHANGED <<attempts, delivered>>,
         \A d \in Drainers : batch'[d] \subseteq batch[d]
  PROVE  DeliveriesArePaidFor'
<1> SUFFICES ASSUME NEW e \in Events
             PROVE  delivered[e] + Cardinality(Holders(e)') <= attempts[e]
  BY DEF DeliveriesArePaidFor
<1>1. Holders(e)' \subseteq Holders(e)
  BY DEF Holders
<1>2. Cardinality(Holders(e)') <= Cardinality(Holders(e))
  BY <1>1, HoldersAreFew, FS_Subset
<1>3. delivered[e] \in Nat /\ attempts[e] \in Nat
  BY OutboxAssumption DEF TypeOK
<1> QED BY <1>2, <1>3, HoldersAreFew, HoldersAreFewAfter DEF DeliveriesArePaidFor

\* A claim is given up for a delivery at most.
LEMMA HandOver ==
  ASSUME TypeOK, ClaimedOnce, DeliveriesArePaidFor,
         NEW d \in Drainers, NEW c \in batch[d],
         batch' = [batch EXCEPT ![d] = @ \ {c}], UNCHANGED attempts,
         \/ UNCHANGED delivered
         \/ delivered' = [delivered EXCEPT ![c.event] = @ + 1]
  PROVE  DeliveriesArePaidFor'
<1> SUFFICES ASSUME NEW e \in Events
             PROVE  delivered'[e] + Cardinality(Holders(e)') <= attempts[e]
  BY DEF DeliveriesArePaidFor
<1>1. /\ batch'[d] = batch[d] \ {c}
      /\ \A q \in Drainers \ {d} : batch'[q] = batch[q]
  BY DEF TypeOK
<1>2. /\ delivered[e] \in Nat /\ attempts[e] \in Nat /\ delivered'[e] \in Nat
      /\ delivered'[e] = delivered[e] \/ (c.event = e /\ delivered'[e] = delivered[e] + 1)
  BY OutboxAssumption DEF TypeOK
<1>3. delivered[e] + Cardinality(Holders(e)) <= attempts[e]
  BY DEF DeliveriesArePaidFor
<1>4. CASE c.event = e
  <2>1. d \in Holders(e)
    BY <1>4 DEF Holders
  <2>2. d \notin Holders(e)'
    BY <1>1, <1>4 DEF Holders, ClaimedOnce
  <2>3. Holders(e)' = Holders(e) \ {d}
    BY <1>1, <2>2 DEF Holders
  <2>4. Cardinality(Holders(e)') = Cardinality(Holders(e)) - 1
    BY <2>1, <2>3, HoldersAreFew, FS_RemoveElement
  <2> QED BY <1>2, <1>3, <2>4, HoldersAreFew
<1>5. CASE c.event # e
  <2>1. Holders(e)' = Holders(e)
    BY <1>1, <1>5 DEF Holders
  <2> QED BY <1>2, <1>3, <1>5, <2>1, HoldersAreFew
<1> QED BY <1>4, <1>5

-----------------------------------------------------------------------------
LEMMA EnqueueInv ==
  ASSUME OutboxInv, NEW e \in Events, Enqueue(e)
  PROVE  OutboxInv'
<1>1. TypeOK'
  BY DEF OutboxInv, TypeOK, Enqueue
<1>2. ClaimedOnce' /\ MarkedWasDelivered'
  BY DEF OutboxInv, ClaimedOnce, MarkedWasDelivered, Enqueue
<1>3. DeliveriesArePaidFor'
  BY FewerHolders DEF OutboxInv, Enqueue
<1>4. PublishedWasDelivered'
  BY DEF OutboxInv, PublishedWasDelivered, Enqueue, TypeOK
<1> QED BY <1>1, <1>2, <1>3, <1>4 DEF OutboxInv

LEMMA LeaseExpiresInv ==
  ASSUME OutboxInv, NEW e \in Events, LeaseExpires(e)
  PROVE  OutboxInv'
<1>1. TypeOK'
  BY DEF OutboxInv, TypeOK, LeaseExpires
<1>2. ClaimedOnce' /\ MarkedWasDelivered' /\ PublishedWasDelivered'
  BY DEF OutboxInv, ClaimedOnce, MarkedWasDelivered, PublishedWasDelivered, LeaseExpires
<1>3. DeliveriesArePaidFor'
  BY FewerHolders DEF OutboxInv, LeaseExpires
<1> QED BY <1>1, <1>2, <1>3 DEF OutboxInv

\* A drainer that claims holds nothing; each claim comes with its attempt.
LEMMA ClaimInv ==
  ASSUME OutboxInv, NEW d \in Drainers, Claim(d)
  PROVE  OutboxInv'
<1>1. PICK claimed \in SUBSET Claimable :
        /\ attempts' = [e \in Events |->
                          IF e \in claimed THEN attempts[e] + 1 ELSE attempts[e]]
        /\ leased' = [e \in Events |-> leased[e] \/ e \in claimed]
        /\ batch' = [batch EXCEPT ![d] =
                       {[event |-> e, attempt |-> attempts[e] + 1] : e \in claimed}]
  BY DEF Claim
<1> DEFINE new == {[event |-> e, attempt |-> attempts[e] + 1] : e \in claimed}
<1>2. TypeOK /\ UNCHANGED <<stage, marking, delivered, reported>> /\ batch[d] = {}
  BY DEF OutboxInv, Claim, Idle
<1>3. \A e \in claimed : e \in Events /\ attempts[e] + 1 \in 1 .. MaxAttempts
  BY <1>2, OutboxAssumption DEF Claimable, TypeOK
<1>4. new \subseteq Claims
  BY <1>3 DEF Claims
<1>5. batch' \in [Drainers -> SUBSET Claims] /\ batch'[d] = new
      /\ \A q \in Drainers \ {d} : batch'[q] = batch[q]
  BY <1>1, <1>2, <1>4 DEF TypeOK
<1>6. attempts' \in [Events -> 0 .. MaxAttempts]
  BY <1>1, <1>2, <1>3, OutboxAssumption DEF TypeOK
<1>7. leased' \in [Events -> BOOLEAN]
  BY <1>1
<1>8. TypeOK'
  BY <1>2, <1>5, <1>6, <1>7 DEF TypeOK
<1>9. ClaimedOnce'
  BY <1>5 DEF OutboxInv, ClaimedOnce
<1>10. MarkedWasDelivered' /\ PublishedWasDelivered'
  BY <1>2 DEF OutboxInv, MarkedWasDelivered, PublishedWasDelivered
<1>11. ASSUME NEW e \in Events
       PROVE  delivered[e] + Cardinality(Holders(e)') <= attempts'[e]
  <2>1. /\ delivered[e] + Cardinality(Holders(e)) <= attempts[e]
        /\ delivered[e] \in Nat /\ attempts[e] \in Nat
        /\ Cardinality(Holders(e)) \in Nat /\ IsFiniteSet(Holders(e))
    BY <1>2, HoldersAreFew, OutboxAssumption DEF OutboxInv, DeliveriesArePaidFor, TypeOK
  <2>2. CASE e \in claimed
    <3>1. d \notin Holders(e)
      BY <1>2 DEF Holders
    <3>2. [event |-> e, attempt |-> attempts[e] + 1] \in batch'[d]
      BY <1>5, <2>2
    <3>3. Holders(e)' = Holders(e) \cup {d}
      <4>1. d \in Holders(e)'
        BY <3>2 DEF Holders
      <4>2. \A q \in Drainers \ {d} : q \in Holders(e)' <=> q \in Holders(e)
        BY <1>5 DEF Holders
      <4>3. Holders(e) \subseteq Drainers /\ Holders(e)' \subseteq Drainers
        BY DEF Holders
      <4> QED BY <4>1, <4>2, <4>3
    <3>4. Cardinality(Holders(e)') = Cardinality(Holders(e)) + 1
      BY <2>1, <3>1, <3>3, FS_AddElement
    <3> QED BY <1>1, <2>1, <2>2, <3>4
  <2>3. CASE e \notin claimed
    <3>1. d \notin Holders(e) /\ d \notin Holders(e)'
      BY <1>2, <1>5, <2>3 DEF Holders
    <3>2. Holders(e)' = Holders(e)
      BY <1>5, <3>1 DEF Holders
    <3> QED BY <1>1, <2>1, <2>3, <3>2
  <2> QED BY <2>2, <2>3
<1> QED BY <1>2, <1>8, <1>9, <1>10, <1>11 DEF OutboxInv, DeliveriesArePaidFor

LEMMA PublishInv ==
  ASSUME OutboxInv, NEW d \in Drainers, NEW c \in batch[d], Publish(d, c)
  PROVE  OutboxInv'
<1>1. TypeOK /\ c \in Claims /\ c.event \in Events
  BY DEF OutboxInv, TypeOK, Claims
<1>2. /\ delivered' \in [Events -> Nat] /\ delivered'[c.event] >= 1
      /\ \A e \in Events : delivered'[e] >= delivered[e]
  BY <1>1 DEF Publish, TypeOK
<1>3. /\ batch' \in [Drainers -> SUBSET Claims]
      /\ \A q \in Drainers : batch'[q] \subseteq batch[q]
  BY <1>1 DEF Publish, TypeOK
<1>4. /\ marking' \in [Drainers -> SUBSET Claims] /\ marking'[d] = {c}
      /\ \A q \in Drainers \ {d} : marking'[q] = marking[q]
  BY <1>1 DEF Publish, TypeOK
<1>5. TypeOK'
  BY <1>1, <1>2, <1>3, <1>4 DEF Publish, TypeOK, row
<1>6. ClaimedOnce'
  BY <1>3 DEF OutboxInv, ClaimedOnce
<1>7. MarkedWasDelivered'
  <2> SUFFICES ASSUME NEW q \in Drainers, NEW b \in marking'[q]
               PROVE  delivered'[b.event] >= 1
    BY DEF MarkedWasDelivered
  <2>1. CASE q = d
    BY <1>2, <1>4, <2>1
  <2>2. CASE q # d
    <3>1. b \in marking[q] /\ b.event \in Events
      BY <1>1, <1>4, <2>2 DEF TypeOK, Claims
    <3>2. delivered[b.event] >= 1 /\ delivered[b.event] \in Nat /\ delivered'[b.event] \in Nat
      BY <1>1, <1>2, <3>1 DEF OutboxInv, MarkedWasDelivered, TypeOK
    <3> QED BY <1>2, <3>1, <3>2
  <2> QED BY <2>1, <2>2
<1>8. DeliveriesArePaidFor'
  BY HandOver DEF OutboxInv, Publish, row
<1>9. PublishedWasDelivered'
  BY <1>1, <1>2 DEF OutboxInv, PublishedWasDelivered, Publish, row, TypeOK
<1> QED BY <1>5, <1>6, <1>7, <1>8, <1>9 DEF OutboxInv

LEMMA PublishFailsInv ==
  ASSUME OutboxInv, NEW d \in Drainers, NEW c \in batch[d], NEW taken \in BOOLEAN,
         PublishFails(d, c, taken)
  PROVE  OutboxInv'
<1>1. TypeOK /\ c \in Claims /\ c.event \in Events
  BY DEF OutboxInv, TypeOK, Claims
<1>2. /\ delivered' \in [Events -> Nat]
      /\ \A e \in Events : delivered'[e] >= delivered[e]
  BY <1>1 DEF PublishFails, TypeOK
<1>3. /\ batch' = [batch EXCEPT ![d] = @ \ {c}]
      /\ batch' \in [Drainers -> SUBSET Claims]
      /\ \A q \in Drainers : batch'[q] \subseteq batch[q]
  BY <1>1 DEF PublishFails, WithoutFailed, TypeOK
<1>4. /\ marking' \in [Drainers -> SUBSET Claims]
      /\ \A q \in Drainers : marking'[q] \subseteq marking[q]
  BY <1>1 DEF PublishFails, MarksNothing, TypeOK
<1>5. reported' \subseteq Events
  BY <1>1 DEF PublishFails, TypeOK
<1>6. TypeOK'
  BY <1>1, <1>2, <1>3, <1>4, <1>5 DEF PublishFails, TypeOK, row
<1>7. ClaimedOnce'
  BY <1>3 DEF OutboxInv, ClaimedOnce
<1>8. MarkedWasDelivered'
  <2> SUFFICES ASSUME NEW q \in Drainers, NEW b \in marking'[q]
               PROVE  delivered'[b.event] >= 1
    BY DEF MarkedWasDelivered
  <2>1. b \in marking[q] /\ b.event \in Events
    BY <1>1, <1>4 DEF TypeOK, Claims
  <2>2. delivered[b.event] >= 1 /\ delivered[b.event] \in Nat /\ delivered'[b.event] \in Nat
    BY <1>1, <1>2, <2>1 DEF OutboxInv, MarkedWasDelivered, TypeOK
  <2> QED BY <1>2, <2>1, <2>2
<1>9. DeliveriesArePaidFor'
  BY <1>3, HandOver DEF OutboxInv, PublishFails, row
<1>10. PublishedWasDelivered'
  BY <1>1, <1>2 DEF OutboxInv, PublishedWasDelivered, PublishFails, row, TypeOK
<1> QED BY <1>6, <1>7, <1>8, <1>9, <1>10 DEF OutboxInv

LEMMA MarkPublishedInv ==
  ASSUME OutboxInv, NEW d \in Drainers, MarkPublished(d)
  PROVE  OutboxInv'
<1>1. TypeOK /\ UNCHANGED <<attempts, leased, batch, delivered, reported>>
  BY DEF OutboxInv, MarkPublished
<1>2. /\ marking' \in [Drainers -> SUBSET Claims]
      /\ \A q \in Drainers : marking'[q] \subseteq marking[q]
  BY <1>1 DEF MarkPublished, TypeOK
<1>3. /\ stage' \in [Events -> {"none", "pending", "published"}]
      /\ \A e \in Events : stage'[e] = IF \E c \in marking[d] : c.event = e
                                      THEN "published" ELSE stage[e]
  BY <1>1 DEF MarkPublished, TypeOK
<1>4. TypeOK'
  BY <1>1, <1>2, <1>3 DEF TypeOK
<1>5. ClaimedOnce' /\ MarkedWasDelivered'
  BY <1>1, <1>2 DEF OutboxInv, ClaimedOnce, MarkedWasDelivered
<1>6. DeliveriesArePaidFor'
  BY <1>1, FewerHolders DEF OutboxInv
<1>7. PublishedWasDelivered'
  BY <1>1, <1>3 DEF OutboxInv, PublishedWasDelivered, MarkedWasDelivered
<1> QED BY <1>4, <1>5, <1>6, <1>7 DEF OutboxInv

LEMMA ForgetInv ==
  ASSUME OutboxInv, NEW d \in Drainers, MarkFails(d) \/ Stop(d)
  PROVE  OutboxInv'
<1>1. TypeOK /\ UNCHANGED <<stage, attempts, leased, delivered, reported>>
  BY DEF OutboxInv, MarkFails, Stop, row
<1>2. /\ marking' \in [Drainers -> SUBSET Claims]
      /\ \A q \in Drainers : marking'[q] \subseteq marking[q]
      /\ batch' \in [Drainers -> SUBSET Claims]
      /\ \A q \in Drainers : batch'[q] \subseteq batch[q]
  BY <1>1 DEF MarkFails, Stop, TypeOK
<1>3. TypeOK'
  BY <1>1, <1>2 DEF TypeOK
<1>4. ClaimedOnce' /\ MarkedWasDelivered' /\ PublishedWasDelivered'
  BY <1>1, <1>2 DEF OutboxInv, ClaimedOnce, MarkedWasDelivered, PublishedWasDelivered
<1>5. DeliveriesArePaidFor'
  BY <1>1, <1>2, FewerHolders DEF OutboxInv
<1> QED BY <1>3, <1>4, <1>5 DEF OutboxInv

-----------------------------------------------------------------------------
LEMMA OutboxInitInv == Init => OutboxInv
<1> SUFFICES ASSUME Init PROVE OutboxInv
  OBVIOUS
<1>1. TypeOK
  BY OutboxAssumption DEF Init, TypeOK
<1>2. ClaimedOnce /\ MarkedWasDelivered /\ PublishedWasDelivered
  BY DEF Init, ClaimedOnce, MarkedWasDelivered, PublishedWasDelivered
<1>3. ASSUME NEW e \in Events
      PROVE  delivered[e] + Cardinality(Holders(e)) <= attempts[e]
  <2>1. Holders(e) = {}
    BY DEF Init, Holders
  <2> QED BY <2>1, FS_EmptySet DEF Init
<1> QED BY <1>1, <1>2, <1>3 DEF OutboxInv, DeliveriesArePaidFor

LEMMA OutboxNextInv == OutboxInv /\ [Next]_vars => OutboxInv'
<1> SUFFICES ASSUME OutboxInv, [Next]_vars PROVE OutboxInv'
  OBVIOUS
<1>1. CASE UNCHANGED vars
  BY <1>1 DEF vars, row, OutboxInv, TypeOK, ClaimedOnce, MarkedWasDelivered,
     DeliveriesArePaidFor, PublishedWasDelivered, Holders
<1>2. CASE Next
  BY <1>2, EnqueueInv, LeaseExpiresInv, ClaimInv, MarkPublishedInv, ForgetInv,
     PublishInv, PublishFailsInv DEF Next, TableStep, TransportStep
<1> QED BY <1>1, <1>2

\* The inductive invariant of the outbox.
THEOREM OutboxSpecInv == Spec => []OutboxInv
BY OutboxInitInv, OutboxNextInv, PTL DEF Spec

\* Every variable keeps its type; no row is claimed more than MaxAttempts times.
THEOREM OutboxSpecTypeOK == Spec => []TypeOK
<1>1. OutboxInv => TypeOK
  BY DEF OutboxInv
<1> QED BY <1>1, OutboxSpecInv, PTL

\* Each delivery was paid for by an attempt (drainer.go:32-48, 157-167).
THEOREM SpecDeliveriesArePaidFor == Spec => []DeliveriesArePaidFor
<1>1. OutboxInv => DeliveriesArePaidFor
  BY DEF OutboxInv
<1> QED BY <1>1, OutboxSpecInv, PTL

\* What is marked published has reached the transport (drainer.go:157-167).
THEOREM SpecPublishedWasDelivered == Spec => []PublishedWasDelivered
<1>1. OutboxInv => PublishedWasDelivered
  BY DEF OutboxInv
<1> QED BY <1>1, OutboxSpecInv, PTL
=============================================================================
