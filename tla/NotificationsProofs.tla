------------------------ MODULE NotificationsProofs ------------------------
(***************************************************************************)
(* For any number of entries, workers, recipients and failures: no entry   *)
(* leaves the queue unhandled, everybody a handled entry concerns has been *)
(* notified, and no row is pushed twice.  Then the same behind the outbox: *)
(* Delivery is made of steps of its two parts, and what the outbox counts  *)
(* bounds how often a person hears of an event.                            *)
(***************************************************************************)
EXTENDS Delivery, TLAPS, FiniteSetTheorems

Places == {"idle", "exists", "count", "handle", "remember", "deadLetter", "ack"}

Added == 1 .. Len(stream)

WorkerTypes ==
  /\ stream \in Seq(Messages) /\ Len(stream) <= MaxEntries
  /\ trimmed \in Nat
  /\ state \in [Entries -> {"new", "pending", "acked"}]
  /\ at \in [Workers -> Places]
  /\ entry \in [Workers -> Nat]
  /\ faults \in Nat

HandlerTypes ==
  /\ inbox \subseteq Users \X Entries
  /\ pushed \in [Users \X Entries -> Nat]
  /\ to \in [Workers -> Nat \ {0}]
  /\ created \in [Workers -> BOOLEAN]

\* A busy worker has an entry that was added; behind the handler it carries one
\* that may be acknowledged.
CarriesEntry(w) ==
  /\ at[w] # "idle" => entry[w] \in Added
  /\ at[w] = "remember" => entry[w] \in handled
  /\ at[w] = "ack" => entry[w] \in handled \cup dead \cup unwritten

QueueInv ==
  /\ WorkerTypes
  /\ done \subseteq handled /\ handled \subseteq Added
  /\ \A w \in Workers : CarriesEntry(w)
  /\ NothingLeavesUnhandled

\* The handler has notified everybody before the recipient it is at ..
NotifiedSoFar(w) ==
  at[w] = "handle" =>
    \A k \in 1 .. to[w] - 1 :
      k \in DOMAIN List(w) => <<List(w)[k], entry[w]>> \in inbox

\* .. and begins with the first.
BeginsAtFirst(w) == at[w] # "handle" => to[w] = 1 /\ ~created[w]

\* A row that has just been created is there, and nobody has pushed it.
CreatedIsNew(w) ==
  created[w] =>
    to[w] \in DOMAIN List(w) /\ Row(w) \in inbox /\ pushed[Row(w)] = 0

\* One worker at most has created a row.
OneCreator ==
  \A v, w \in Workers : created[v] /\ created[w] /\ Row(v) = Row(w) => v = w

HandlerInv ==
  /\ HandlerTypes
  /\ \A w \in Workers : NotifiedSoFar(w) /\ BeginsAtFirst(w) /\ CreatedIsNew(w)
  /\ OneCreator
  /\ RowsArePushedOnce
  /\ HandledNotifiesAll

NotificationsInv == QueueInv /\ HandlerInv

-----------------------------------------------------------------------------
\* The list of an entry is one of users, and rows are those of the inboxes.
LEMMA ListOfUsers ==
  ASSUME QueueInv, NEW w \in Workers, at[w] # "idle"
  PROVE  /\ entry[w] \in Entries /\ entry[w] \in Added
         /\ List(w) \in Seq(Users)
         /\ \A k \in DOMAIN List(w) : <<List(w)[k], entry[w]>> \in Users \X Entries
<1>1. entry[w] \in Added /\ stream \in Seq(Messages) /\ Len(stream) <= MaxEntries
  BY DEF QueueInv, CarriesEntry, WorkerTypes
<1>2. stream[entry[w]] \in Messages /\ entry[w] \in Entries
  BY <1>1, QueueAssumption DEF Added, Entries
<1>3. List(w) \in Seq(Users)
  BY <1>2, RecipientsAssumption DEF List
<1>4. \A k \in DOMAIN List(w) : List(w)[k] \in Users
  BY <1>3
<1> QED BY <1>1, <1>2, <1>3, <1>4

\* A worker goes somewhere with an entry, and nothing that was handled, copied
\* or logged is forgotten.
LEMMA WorkerMoves ==
  ASSUME QueueInv, NEW w \in Workers, NEW step \in Places, NEW i \in Nat,
         Goto(w, step), entry' = [entry EXCEPT ![w] = i],
         UNCHANGED <<stream, trimmed>>,
         state' \in [Entries -> {"new", "pending", "acked"}], faults' \in Nat,
         handled \subseteq handled', dead \subseteq dead', unwritten \subseteq unwritten',
         done' \subseteq handled', handled' \subseteq Added,
         step # "idle" => i \in Added,
         step = "remember" => i \in handled',
         step = "ack" => i \in handled' \cup dead' \cup unwritten',
         \A j \in Entries : state'[j] = "acked" => state[j] = "acked"
                                \/ j \in handled' \cup dead' \cup unwritten'
  PROVE  /\ QueueInv'
         /\ at'[w] = step /\ entry'[w] = i
         /\ \A v \in Workers \ {w} : at'[v] = at[v] /\ entry'[v] = entry[v]
<1>1. /\ at' \in [Workers -> Places] /\ at'[w] = step
      /\ entry' \in [Workers -> Nat] /\ entry'[w] = i
      /\ \A v \in Workers \ {w} : at'[v] = at[v] /\ entry'[v] = entry[v]
  BY DEF QueueInv, WorkerTypes, Goto
<1>2. WorkerTypes'
  BY <1>1 DEF QueueInv, WorkerTypes
<1>3. NothingLeavesUnhandled'
  BY DEF QueueInv, NothingLeavesUnhandled
<1>4. Added' = Added
  BY DEF Added
<1>5. ASSUME NEW v \in Workers
      PROVE  CarriesEntry(v)'
  <2>1. CASE v = w
    BY <1>1, <1>4, <2>1 DEF CarriesEntry
  <2>2. CASE v # w
    BY <1>1, <1>4, <2>2 DEF CarriesEntry, QueueInv
  <2> QED BY <2>1, <2>2
<1>6. QueueInv'
  BY <1>2, <1>3, <1>4, <1>5 DEF QueueInv
<1> QED BY <1>1, <1>6

\* What a worker does before and behind its handler is nothing to the handlers.
LEMMA HandlersRest ==
  ASSUME NotificationsInv, UNCHANGED handlerVars,
         \A v \in Workers : at[v] = "handle" => at'[v] = at[v] /\ entry'[v] = entry[v],
         \A i \in Added : stream'[i] = stream[i],
         handled' = handled, faults' \in Nat, faults' >= faults
  PROVE  HandlerInv'
<1> USE DEF NotificationsInv, handlerVars
<1>1. HandlerTypes'
  BY DEF HandlerInv, HandlerTypes
<1>2. ASSUME NEW v \in Workers, at[v] = "handle"
      PROVE  /\ at'[v] = "handle" /\ entry'[v] = entry[v] /\ List(v)' = List(v)
             /\ Row(v)' = Row(v)
  <2>1. entry[v] \in Added
    BY <1>2, ListOfUsers
  <2> QED BY <1>2, <2>1 DEF List, Row
<1>3. ASSUME NEW v \in Workers, at[v] # "handle"
      PROVE  to'[v] = 1 /\ ~created'[v] /\ ~created[v]
  BY <1>3 DEF HandlerInv, BeginsAtFirst
<1>4. \A v \in Workers : created[v] => at[v] = "handle"
  BY <1>3
<1>5. ASSUME NEW v \in Workers
      PROVE  NotifiedSoFar(v)' /\ BeginsAtFirst(v)' /\ CreatedIsNew(v)'
  <2>1. CASE at[v] = "handle"
    BY <1>2, <2>1 DEF HandlerInv, NotifiedSoFar, BeginsAtFirst, CreatedIsNew
  <2>2. CASE at[v] # "handle"
    <3>1. 1 .. to'[v] - 1 = {}
      BY <1>3, <2>2
    <3> QED BY <1>3, <2>2, <3>1 DEF NotifiedSoFar, BeginsAtFirst, CreatedIsNew
  <2> QED BY <2>1, <2>2
<1>6. OneCreator'
  BY <1>2, <1>4 DEF HandlerInv, OneCreator
<1>7. RowsArePushedOnce'
  <2> SUFFICES ASSUME NEW n \in Users \X Entries
               PROVE  IF n \notin inbox THEN pushed[n] = 0
                      ELSE \/ pushed[n] = 1
                           \/ pushed[n] = 0 /\ faults' > 0
                           \/ pushed[n] = 0 /\ \E w \in Workers : created[w] /\ Row(w)' = n
    BY DEF RowsArePushedOnce
  <2>1. faults \in Nat
    BY DEF QueueInv, WorkerTypes
  <2>2. \A w \in Workers : created[w] => Row(w)' = Row(w)
    BY <1>2, <1>4
  <2> QED BY <2>1, <2>2 DEF HandlerInv, RowsArePushedOnce
<1>8. HandledNotifiesAll'
  BY DEF HandlerInv, HandledNotifiesAll, QueueInv
<1> QED BY <1>1, <1>5, <1>6, <1>7, <1>8 DEF HandlerInv

-----------------------------------------------------------------------------
\* An entry is added behind the others.
LEMMA XAddInv ==
  ASSUME NotificationsInv, NEW m \in Messages, XAdd(m), UNCHANGED handlerVars
  PROVE  NotificationsInv'
<1> USE DEF NotificationsInv
<1>1. /\ stream' \in Seq(Messages) /\ Len(stream') = Len(stream) + 1
      /\ Len(stream') <= MaxEntries /\ trimmed' \in Nat
      /\ \A i \in Added : stream'[i] = stream[i]
  BY QueueAssumption DEF XAdd, QueueInv, WorkerTypes, Added
<1>2. Added \subseteq Added'
  BY <1>1 DEF Added, QueueInv, WorkerTypes
<1>3. UNCHANGED <<state, done, dead, at, entry, faults, handled, unwritten>>
  BY DEF XAdd, worker
<1>4. QueueInv'
  BY <1>1, <1>2, <1>3 DEF QueueInv, WorkerTypes, CarriesEntry, NothingLeavesUnhandled
<1>5. HandlerInv'
  BY <1>1, <1>3, HandlersRest DEF QueueInv, WorkerTypes
<1> QED BY <1>4, <1>5

\* Exists, Count, DeadLetter, Remember and Ack.
LEMMA ProcessInv ==
  ASSUME NotificationsInv, NEW w \in Workers, Process(w), UNCHANGED handlerVars
  PROVE  NotificationsInv'
<1> USE DEF NotificationsInv
<1>1. /\ WorkerTypes /\ done \subseteq handled /\ handled \subseteq Added
      /\ CarriesEntry(w) /\ entry[w] \in Nat
  BY DEF QueueInv, WorkerTypes
<1>2. UNCHANGED <<stream, trimmed, handled>> /\ at[w] \notin {"idle", "handle"}
  BY DEF Process, Exists, Count, DeadLetter, Remember, Ack, redis
<1>3. faults' \in Nat /\ faults' >= faults
  <2>1. CASE ~Ack(w)
    BY <1>1, <2>1 DEF Process, Exists, Count, DeadLetter, Remember, Either, WorkerTypes
  <2>2. CASE Ack(w)
    <3>1. PICK failed \in SUBSET {"XACK", "DEL"} : faults' = faults + Cardinality(failed)
      BY <2>2 DEF Ack
    <3>2. Cardinality(failed) \in Nat
      <4>1. IsFiniteSet({"XACK"}) /\ {"XACK", "DEL"} = {"XACK"} \cup {"DEL"}
        BY FS_Singleton
      <4>2. IsFiniteSet({"XACK", "DEL"})
        BY <4>1, FS_AddElement
      <4>3. IsFiniteSet(failed)
        BY <4>2, FS_Subset
      <4> QED BY <4>3, FS_CardinalityType
    <3> QED BY <1>1, <3>1, <3>2 DEF WorkerTypes
  <2> QED BY <2>1, <2>2
<1>4. QueueInv' /\ \A v \in Workers \ {w} : at'[v] = at[v] /\ entry'[v] = entry[v]
  <2>0. entry[w] \in Added
    BY <1>1, <1>2 DEF CarriesEntry
  <2>1. CASE Exists(w)
    <3>1. PICK step \in {"ack", "count"} :
            Goto(w, step) /\ (step = "ack" => entry[w] \in done)
      BY <2>1 DEF Exists, Either
    <3>2. entry' = [entry EXCEPT ![w] = entry[w]] /\ UNCHANGED <<state, done, dead, unwritten>>
      BY <1>1, <2>1 DEF Exists, WorkerTypes, redis
    <3>3. step \in Places /\ step # "remember" /\ (step = "ack" => entry[w] \in handled')
      BY <1>1, <1>2, <3>1 DEF Places
    <3>4. /\ state' \in [Entries -> {"new", "pending", "acked"}] /\ done' \subseteq handled'
          /\ handled' \subseteq Added /\ Goto(w, step)
      BY <1>1, <1>2, <3>1, <3>2 DEF WorkerTypes
    <3> QED BY <1>1, <1>2, <1>3, <2>0, <3>2, <3>3, <3>4, WorkerMoves
  <2>2. CASE Count(w)
    <3>1. entry' = [entry EXCEPT ![w] = entry[w]] /\ UNCHANGED <<state, done, dead, unwritten>>
          /\ Goto(w, "handle")
      BY <1>1, <2>2 DEF Count, WorkerTypes
    <3> QED BY <1>1, <1>2, <1>3, <2>0, <3>1, WorkerMoves DEF Places, WorkerTypes
  <2>3. CASE DeadLetter(w)
    <3>1. /\ entry' = [entry EXCEPT ![w] = entry[w]] /\ UNCHANGED <<state, done>>
          /\ Goto(w, "ack") /\ dead \subseteq dead' /\ unwritten \subseteq unwritten'
          /\ entry[w] \in dead' \cup unwritten'
      BY <1>1, <2>3 DEF DeadLetter, Either, WorkerTypes
    <3> QED BY <1>1, <1>2, <1>3, <2>0, <3>1, WorkerMoves DEF Places, WorkerTypes
  <2>4. CASE Remember(w)
    <3>1. /\ entry' = [entry EXCEPT ![w] = entry[w]] /\ UNCHANGED <<state, dead, unwritten>>
          /\ Goto(w, "ack") /\ done' \subseteq handled /\ entry[w] \in handled
      BY <1>1, <2>4 DEF Remember, Either, WorkerTypes, CarriesEntry
    <3> QED BY <1>1, <1>2, <1>3, <2>0, <3>1, WorkerMoves DEF Places, WorkerTypes
  <2>5. CASE Ack(w)
    <3>1. /\ entry' = [entry EXCEPT ![w] = 0] /\ Goto(w, "idle")
          /\ UNCHANGED <<done, dead, unwritten>>
          /\ entry[w] \in handled \cup dead \cup unwritten
      BY <1>1, <2>5 DEF Ack, Rest, CarriesEntry
    <3>2. state' = state \/ state' = [state EXCEPT ![entry[w]] = "acked"]
      BY <2>5 DEF Ack
    <3>3. /\ state' \in [Entries -> {"new", "pending", "acked"}]
          /\ \A j \in Entries : state'[j] = "acked" => state[j] = "acked" \/ j = entry[w]
      BY <1>1, <3>2 DEF WorkerTypes
    <3> QED BY <1>1, <1>2, <1>3, <3>1, <3>3, WorkerMoves DEF Places
  <2> QED BY <2>1, <2>2, <2>3, <2>4, <2>5 DEF Process
<1>5. HandlerInv'
  BY <1>2, <1>3, <1>4, HandlersRest DEF handlerVars
<1> QED BY <1>4, <1>5

\* An entry is given to an idle worker, for the first time or once more.
LEMMA TakeInv ==
  ASSUME NotificationsInv, NEW w \in Workers, UNCHANGED handlerVars,
         ReadNew(w) \/ \E i \in Entries : Reclaim(w, i)
  PROVE  NotificationsInv'
<1> USE DEF NotificationsInv
<1>1. PICK i \in Stored : Take(w, i) /\ (state' = state \/ state' = [state EXCEPT ![i] = "pending"])
  BY DEF ReadNew, Reclaim, redis
<1>2. at[w] = "idle" /\ UNCHANGED <<stream, trimmed, done, dead, faults, handled, unwritten>>
  BY DEF ReadNew, Reclaim, redis
<1>3. i \in Added /\ WorkerTypes /\ done \subseteq handled /\ handled \subseteq Added
  BY <1>1 DEF Stored, Added, QueueInv, WorkerTypes
<1>4. /\ state' \in [Entries -> {"new", "pending", "acked"}]
      /\ \A j \in Entries : state'[j] = "acked" => state[j] = "acked"
  BY <1>1, <1>3 DEF WorkerTypes
<1>5. i \in Nat /\ Goto(w, "exists") /\ entry' = [entry EXCEPT ![w] = i]
  BY <1>1, <1>3 DEF Take, Added
<1>6. QueueInv' /\ \A v \in Workers \ {w} : at'[v] = at[v] /\ entry'[v] = entry[v]
  BY <1>2, <1>3, <1>4, <1>5, WorkerMoves DEF Places, WorkerTypes
<1>7. HandlerInv'
  BY <1>2, <1>3, <1>6, HandlersRest DEF WorkerTypes
<1> QED BY <1>6, <1>7

-----------------------------------------------------------------------------
\* The row of the handler's recipient, between two queue steps.
LEMMA RowAtHand ==
  ASSUME QueueInv, HandlerTypes, NEW w \in Workers, at[w] = "handle", to[w] <= Len(List(w))
  PROVE  to[w] \in DOMAIN List(w) /\ Row(w) \in Users \X Entries
<1>1. List(w) \in Seq(Users) /\ to[w] \in Nat \ {0}
  BY ListOfUsers DEF HandlerTypes
<1>2. to[w] \in DOMAIN List(w)
  BY <1>1
<1> QED BY <1>2, ListOfUsers DEF Row

LEMMA InsertInv ==
  ASSUME NotificationsInv, NEW w \in Workers, Insert(w)
  PROVE  NotificationsInv'
<1> USE DEF NotificationsInv
<1>1. UNCHANGED queueVars /\ UNCHANGED pushed
  BY DEF Insert
<1>2. QueueInv'
  BY <1>1 DEF queueVars, redis, worker, QueueInv, WorkerTypes, CarriesEntry, Added,
     NothingLeavesUnhandled
<1>3. UNCHANGED <<stream, at, entry, faults, handled>>
  BY <1>1 DEF queueVars, redis, worker
<1>4. /\ at[w] = "handle" /\ ~created[w] /\ HandlerTypes /\ to[w] \in Nat \ {0}
      /\ to[w] \in DOMAIN List(w) /\ Row(w) \in Users \X Entries
  BY RowAtHand DEF Insert, Inserting, HandlerInv, HandlerTypes
<1>5. inbox' = inbox \cup {Row(w)}
  BY DEF Insert
<1>6. \A v \in Workers : List(v)' = List(v)
  BY <1>3 DEF List
<1>7. HandledNotifiesAll'
  BY <1>3, <1>5 DEF HandlerInv, HandledNotifiesAll
<1>8. \A v \in Workers : NotifiedSoFar(v) /\ BeginsAtFirst(v) /\ CreatedIsNew(v)
  BY DEF HandlerInv
<1>9. CASE Row(w) \notin inbox
  <2>1. created' = [created EXCEPT ![w] = TRUE] /\ UNCHANGED to
    BY <1>9 DEF Insert, Creates
  <2>2. /\ created' \in [Workers -> BOOLEAN] /\ created'[w]
        /\ \A v \in Workers \ {w} : created'[v] = created[v]
        /\ \A v \in Workers : created[v] => created'[v]
    BY <1>4, <2>1 DEF HandlerTypes
  <2>3. HandlerTypes'
    BY <1>1, <1>4, <1>5, <2>1, <2>2 DEF HandlerTypes
  <2>4. pushed[Row(w)] = 0
    BY <1>4, <1>9 DEF HandlerInv, RowsArePushedOnce
  <2>5. \A v \in Workers : Row(v)' = Row(v)
    BY <1>3, <1>6, <2>1 DEF Row
  <2>6. ASSUME NEW v \in Workers
        PROVE  NotifiedSoFar(v)' /\ BeginsAtFirst(v)' /\ CreatedIsNew(v)'
    <3>1. NotifiedSoFar(v)'
      BY <1>3, <1>5, <1>6, <1>8, <2>1 DEF NotifiedSoFar
    <3>2. CASE v = w
      BY <1>1, <1>3, <1>4, <1>5, <1>6, <2>1, <2>4, <2>5, <3>1, <3>2
      DEF BeginsAtFirst, CreatedIsNew
    <3>3. CASE v # w
      BY <1>1, <1>3, <1>5, <1>6, <1>8, <2>1, <2>2, <2>5, <3>1, <3>3
      DEF BeginsAtFirst, CreatedIsNew
    <3> QED BY <3>2, <3>3
  <2>7. \A v \in Workers \ {w} : created[v] => Row(v) # Row(w)
    BY <1>8, <1>9 DEF CreatedIsNew
  <2>8. OneCreator'
    BY <2>2, <2>5, <2>7 DEF HandlerInv, OneCreator
  <2>9. RowsArePushedOnce'
    BY <1>1, <1>3, <1>5, <2>2, <2>4, <2>5 DEF HandlerInv, RowsArePushedOnce
  <2> QED BY <1>2, <1>7, <2>3, <2>6, <2>8, <2>9 DEF HandlerInv
<1>10. CASE Row(w) \in inbox
  <2>1. to' = [to EXCEPT ![w] = to[w] + 1] /\ UNCHANGED <<inbox, created>>
    BY <1>5, <1>10 DEF Insert, Creates, NextRecipient
  <2>2. /\ to' \in [Workers -> Nat \ {0}] /\ to'[w] = to[w] + 1
        /\ \A v \in Workers \ {w} : to'[v] = to[v]
    BY <1>4, <2>1 DEF HandlerTypes
  <2>3. \A v \in Workers \ {w} : Row(v)' = Row(v)
    BY <1>3, <1>6, <2>2 DEF Row
  <2>4. NotifiedSoFar(w)'
    <3> SUFFICES ASSUME NEW k \in 1 .. to[w], k \in DOMAIN List(w)
                 PROVE  <<List(w)[k], entry[w]>> \in inbox
      BY <1>3, <1>4, <1>6, <2>1, <2>2 DEF NotifiedSoFar
    <3>1. CASE k = to[w]
      BY <1>10, <3>1 DEF Row
    <3>2. CASE k # to[w]
      BY <1>4, <1>8, <3>2 DEF NotifiedSoFar
    <3> QED BY <3>1, <3>2
  <2>5. ASSUME NEW v \in Workers
        PROVE  NotifiedSoFar(v)' /\ BeginsAtFirst(v)' /\ CreatedIsNew(v)'
    <3>1. CASE v = w
      BY <1>3, <1>4, <2>1, <2>4, <3>1 DEF BeginsAtFirst, CreatedIsNew
    <3>2. CASE v # w
      BY <1>1, <1>3, <1>6, <1>8, <2>1, <2>2, <2>3, <3>2
      DEF NotifiedSoFar, BeginsAtFirst, CreatedIsNew
    <3> QED BY <3>1, <3>2
  <2>6. OneCreator'
    BY <1>4, <2>1, <2>3 DEF HandlerInv, OneCreator
  <2>7. RowsArePushedOnce'
    BY <1>1, <1>3, <1>4, <2>1, <2>3 DEF HandlerInv, RowsArePushedOnce
  <2>8. HandlerTypes'
    BY <1>1, <1>4, <2>1, <2>2 DEF HandlerTypes
  <2> QED BY <1>2, <1>7, <2>5, <2>6, <2>7, <2>8 DEF HandlerInv
<1> QED BY <1>9, <1>10

LEMMA PushInv ==
  ASSUME NotificationsInv, NEW w \in Workers, Push(w)
  PROVE  NotificationsInv'
<1> USE DEF NotificationsInv
<1>1. UNCHANGED queueVars /\ UNCHANGED inbox /\ created[w] /\ at[w] = "handle"
  BY DEF Push
<1>2. QueueInv'
  BY <1>1 DEF queueVars, redis, worker, QueueInv, WorkerTypes, CarriesEntry, Added,
     NothingLeavesUnhandled
<1>3. UNCHANGED <<stream, at, entry, faults, handled>>
  BY <1>1 DEF queueVars, redis, worker
<1>4. \A v \in Workers : NotifiedSoFar(v) /\ BeginsAtFirst(v) /\ CreatedIsNew(v)
  BY DEF HandlerInv
<1>5. /\ to[w] \in DOMAIN List(w) /\ Row(w) \in inbox /\ pushed[Row(w)] = 0
      /\ HandlerTypes /\ to[w] \in Nat \ {0} /\ Row(w) \in Users \X Entries
  BY <1>1, <1>4 DEF CreatedIsNew, HandlerInv, HandlerTypes
<1>6. /\ to' \in [Workers -> Nat \ {0}] /\ to'[w] = to[w] + 1
      /\ \A v \in Workers \ {w} : to'[v] = to[v]
      /\ created' \in [Workers -> BOOLEAN] /\ ~created'[w]
      /\ \A v \in Workers \ {w} : created'[v] = created[v]
      /\ pushed' \in [Users \X Entries -> Nat] /\ pushed'[Row(w)] = 1
      /\ \A n \in Users \X Entries : n # Row(w) => pushed'[n] = pushed[n]
  BY <1>5 DEF Push, HandlerTypes
<1>7. \A v \in Workers : List(v)' = List(v)
  BY <1>3 DEF List
<1>8. \A v \in Workers \ {w} : Row(v)' = Row(v)
  BY <1>3, <1>6, <1>7 DEF Row
<1>9. NotifiedSoFar(w)'
  <2> SUFFICES ASSUME NEW k \in 1 .. to[w], k \in DOMAIN List(w)
               PROVE  <<List(w)[k], entry[w]>> \in inbox
    BY <1>1, <1>3, <1>5, <1>6, <1>7 DEF NotifiedSoFar
  <2>1. CASE k = to[w]
    BY <1>5, <2>1 DEF Row
  <2>2. CASE k # to[w]
    BY <1>1, <1>4, <1>5, <2>2 DEF NotifiedSoFar
  <2> QED BY <2>1, <2>2
<1>10. ASSUME NEW v \in Workers
       PROVE  NotifiedSoFar(v)' /\ BeginsAtFirst(v)' /\ CreatedIsNew(v)'
  <2>1. CASE v = w
    BY <1>1, <1>3, <1>6, <1>9, <2>1 DEF BeginsAtFirst, CreatedIsNew
  <2>2. CASE v # w
    <3>1. NotifiedSoFar(v)' /\ BeginsAtFirst(v)'
      BY <1>1, <1>3, <1>4, <1>6, <1>7, <2>2 DEF NotifiedSoFar, BeginsAtFirst
    <3>2. created[v] => Row(v) # Row(w) /\ Row(v) \in Users \X Entries
      BY <1>1, <1>4, <1>5, <2>2 DEF HandlerInv, OneCreator, CreatedIsNew, HandlerTypes
    <3>3. CreatedIsNew(v)'
      BY <1>1, <1>4, <1>6, <1>7, <1>8, <2>2, <3>2 DEF CreatedIsNew
    <3> QED BY <3>1, <3>3
  <2> QED BY <2>1, <2>2
<1>11. OneCreator'
  BY <1>6, <1>8 DEF HandlerInv, OneCreator
<1>12. RowsArePushedOnce'
  <2> SUFFICES ASSUME NEW n \in Users \X Entries
               PROVE  IF n \notin inbox THEN pushed'[n] = 0
                      ELSE \/ pushed'[n] = 1
                           \/ pushed'[n] = 0 /\ faults > 0
                           \/ pushed'[n] = 0 /\ \E v \in Workers : created'[v] /\ Row(v)' = n
    BY <1>1, <1>3 DEF RowsArePushedOnce
  <2>1. CASE n = Row(w)
    BY <1>5, <1>6, <2>1
  <2>2. CASE n # Row(w)
    <3>1. pushed'[n] = pushed[n]
      BY <1>6, <2>2
    <3>2. \A v \in Workers : created[v] /\ Row(v) = n => created'[v] /\ Row(v)' = n
      BY <1>6, <1>8, <2>2
    <3> QED BY <3>1, <3>2 DEF HandlerInv, RowsArePushedOnce
  <2> QED BY <2>1, <2>2
<1>13. HandledNotifiesAll' /\ HandlerTypes'
  BY <1>1, <1>3, <1>5, <1>6 DEF HandlerInv, HandledNotifiesAll, HandlerTypes
<1> QED BY <1>2, <1>10, <1>11, <1>12, <1>13 DEF HandlerInv

-----------------------------------------------------------------------------
\* A handler ends: a row that it has created and not pushed is lost to a fault.
LEMMA HandlerEnds ==
  ASSUME NotificationsInv, NEW w \in Workers, Restart(w),
         UNCHANGED <<inbox, pushed, stream>>,
         at'[w] # "handle",
         \A v \in Workers \ {w} : at'[v] = at[v] /\ entry'[v] = entry[v],
         faults' \in Nat, faults' >= faults,
         ~created[w] \/ faults' > 0,
         HandledNotifiesAll'
  PROVE  HandlerInv'
<1> USE DEF NotificationsInv
<1>1. HandlerTypes /\ faults \in Nat
  BY DEF HandlerInv, QueueInv, WorkerTypes
<1>2. /\ to' \in [Workers -> Nat \ {0}] /\ to'[w] = 1
      /\ \A v \in Workers \ {w} : to'[v] = to[v]
      /\ created' \in [Workers -> BOOLEAN] /\ ~created'[w]
      /\ \A v \in Workers \ {w} : created'[v] = created[v]
  BY <1>1 DEF Restart, HandlerTypes
<1>3. \A v \in Workers \ {w} : List(v)' = List(v) /\ Row(v)' = Row(v)
  BY <1>2 DEF List, Row
<1>4. \A v \in Workers : NotifiedSoFar(v) /\ BeginsAtFirst(v) /\ CreatedIsNew(v)
  BY DEF HandlerInv
<1>5. ASSUME NEW v \in Workers
      PROVE  NotifiedSoFar(v)' /\ BeginsAtFirst(v)' /\ CreatedIsNew(v)'
  <2>1. CASE v = w
    BY <1>2, <2>1 DEF NotifiedSoFar, BeginsAtFirst, CreatedIsNew
  <2>2. CASE v # w
    BY <1>2, <1>3, <1>4, <2>2 DEF NotifiedSoFar, BeginsAtFirst, CreatedIsNew
  <2> QED BY <2>1, <2>2
<1>6. OneCreator'
  BY <1>2, <1>3 DEF HandlerInv, OneCreator
<1>7. RowsArePushedOnce'
  <2> SUFFICES ASSUME NEW n \in Users \X Entries
               PROVE  IF n \notin inbox THEN pushed[n] = 0
                      ELSE \/ pushed[n] = 1
                           \/ pushed[n] = 0 /\ faults' > 0
                           \/ pushed[n] = 0 /\ \E v \in Workers : created'[v] /\ Row(v)' = n
    BY DEF RowsArePushedOnce
  <2>1. \A v \in Workers \ {w} : created[v] /\ Row(v) = n => created'[v] /\ Row(v)' = n
    BY <1>2, <1>3
  <2>2. faults > 0 => faults' > 0
    BY <1>1
  <2> QED BY <2>1, <2>2 DEF HandlerInv, RowsArePushedOnce
<1> QED BY <1>1, <1>2, <1>5, <1>6, <1>7 DEF HandlerInv, HandlerTypes

\* Everybody has been notified: the entry counts as handled.
LEMMA SucceedInv ==
  ASSUME NotificationsInv, NEW w \in Workers, Succeed(w)
  PROVE  NotificationsInv'
<1> USE DEF NotificationsInv
<1>1. /\ at[w] = "handle" /\ handled' = handled \cup {entry[w]} /\ Goto(w, "remember")
      /\ Restart(w) /\ to[w] > Len(List(w))
      /\ UNCHANGED <<inbox, pushed, stream, trimmed, state, done, dead, entry, faults, unwritten>>
  BY DEF Succeed, HandlerSucceeds, Conclude, redis
<1>2. WorkerTypes /\ HandlerTypes /\ entry[w] \in Added /\ handled \subseteq Added
      /\ done \subseteq handled /\ entry[w] \in Nat
  BY <1>1 DEF QueueInv, HandlerInv, CarriesEntry, WorkerTypes
<1>3. entry' = [entry EXCEPT ![w] = entry[w]]
  BY <1>1, <1>2 DEF WorkerTypes
<1>4. /\ QueueInv' /\ at'[w] = "remember"
      /\ \A v \in Workers \ {w} : at'[v] = at[v] /\ entry'[v] = entry[v]
  <2>1. /\ handled \subseteq handled' /\ handled' \subseteq Added /\ done' \subseteq handled'
        /\ entry[w] \in handled' /\ "remember" \in Places
    BY <1>1, <1>2 DEF Places
  <2>2. state' \in [Entries -> {"new", "pending", "acked"}] /\ faults' \in Nat
    BY <1>1, <1>2 DEF WorkerTypes
  <2> QED BY <1>1, <1>2, <1>3, <2>1, <2>2, WorkerMoves
<1>5. List(w) \in Seq(Users) /\ to[w] \in Nat \ {0}
  BY <1>1, <1>2, ListOfUsers DEF HandlerTypes
<1>6. \A k \in DOMAIN List(w) : <<List(w)[k], entry[w]>> \in inbox
  BY <1>1, <1>5 DEF HandlerInv, NotifiedSoFar
<1>7. HandledNotifiesAll'
  BY <1>1, <1>6 DEF HandlerInv, HandledNotifiesAll, List
<1>8. ~created[w]
  BY <1>1, <1>5 DEF HandlerInv, CreatedIsNew
<1>9. faults' \in Nat /\ faults' >= faults
  BY <1>1, <1>2 DEF WorkerTypes
<1>10. HandlerInv'
  BY <1>1, <1>4, <1>7, <1>8, <1>9, HandlerEnds
<1> QED BY <1>4, <1>10

LEMMA FailInv ==
  ASSUME NotificationsInv, NEW w \in Workers, Fail(w)
  PROVE  NotificationsInv'
<1> USE DEF NotificationsInv
<1>1. /\ at[w] = "handle" /\ ~created[w] /\ Restart(w)
      /\ UNCHANGED <<inbox, pushed, stream, trimmed, state, done, dead, faults, handled, unwritten>>
  BY DEF Fail, Inserting, HandlerFails, redis
<1>2. WorkerTypes /\ entry[w] \in Added /\ handled \subseteq Added
      /\ done \subseteq handled /\ entry[w] \in Nat
  BY <1>1 DEF QueueInv, CarriesEntry, WorkerTypes
<1>3. /\ QueueInv' /\ at'[w] # "handle"
      /\ \A v \in Workers \ {w} : at'[v] = at[v] /\ entry'[v] = entry[v]
  <2>1. CASE OutOfAttempts(w)
    <3>1. Goto(w, "deadLetter") /\ entry' = [entry EXCEPT ![w] = entry[w]]
      BY <1>2, <2>1 DEF Fail, HandlerFails, Conclude, WorkerTypes
    <3> QED BY <1>1, <1>2, <3>1, WorkerMoves DEF Places, WorkerTypes
  <2>2. CASE ~OutOfAttempts(w)
    <3>1. Goto(w, "idle") /\ entry' = [entry EXCEPT ![w] = 0]
      BY <2>2 DEF Fail, HandlerFails, Rest
    <3> QED BY <1>1, <1>2, <3>1, WorkerMoves DEF Places, WorkerTypes
  <2> QED BY <2>1, <2>2
<1>4. HandledNotifiesAll'
  BY <1>1 DEF HandlerInv, HandledNotifiesAll
<1>5. faults' \in Nat /\ faults' >= faults
  BY <1>1, <1>2 DEF WorkerTypes
<1>6. HandlerInv'
  BY <1>1, <1>3, <1>4, <1>5, HandlerEnds
<1> QED BY <1>3, <1>6

LEMMA DieInv ==
  ASSUME NotificationsInv, NEW w \in Workers, Die(w)
  PROVE  NotificationsInv'
<1> USE DEF NotificationsInv
<1>1. /\ Restart(w) /\ faults' = faults + 1
      /\ Goto(w, "idle") /\ entry' = [entry EXCEPT ![w] = 0]
      /\ UNCHANGED <<inbox, pushed, stream, trimmed, state, done, dead, handled, unwritten>>
  BY DEF Die, Crash, Rest, redis
<1>2. WorkerTypes /\ handled \subseteq Added /\ done \subseteq handled
  BY DEF QueueInv
<1>3. faults' \in Nat /\ faults' >= faults /\ faults' > 0
  BY <1>1, <1>2 DEF WorkerTypes
<1>4. /\ QueueInv' /\ at'[w] # "handle"
      /\ \A v \in Workers \ {w} : at'[v] = at[v] /\ entry'[v] = entry[v]
  BY <1>1, <1>2, <1>3, WorkerMoves DEF Places, WorkerTypes
<1>5. HandledNotifiesAll'
  BY <1>1 DEF HandlerInv, HandledNotifiesAll
<1>6. HandlerInv'
  BY <1>1, <1>3, <1>4, <1>5, HandlerEnds
<1> QED BY <1>4, <1>6

-----------------------------------------------------------------------------
LEMMA NotificationsInitInv == Init => NotificationsInv
<1> SUFFICES ASSUME Init PROVE NotificationsInv
  OBVIOUS
<1>1. QueueInv
  <2>1. WorkerTypes
    BY QueueAssumption DEF Init, QueueInit, WorkerTypes, Places
  <2>2. done \subseteq handled /\ handled \subseteq Added
    BY DEF Init, QueueInit
  <2>3. \A w \in Workers : CarriesEntry(w)
    BY DEF Init, QueueInit, CarriesEntry
  <2>4. NothingLeavesUnhandled
    BY DEF Init, QueueInit, NothingLeavesUnhandled
  <2> QED BY <2>1, <2>2, <2>3, <2>4 DEF QueueInv
<1>2. HandlerTypes
  BY DEF Init, HandlerTypes
<1>3. \A w \in Workers : NotifiedSoFar(w) /\ BeginsAtFirst(w) /\ CreatedIsNew(w)
  BY DEF Init, QueueInit, NotifiedSoFar, BeginsAtFirst, CreatedIsNew
<1>4. OneCreator /\ RowsArePushedOnce /\ HandledNotifiesAll
  BY DEF Init, QueueInit, OneCreator, RowsArePushedOnce, HandledNotifiesAll
<1> QED BY <1>1, <1>2, <1>3, <1>4 DEF NotificationsInv, HandlerInv

LEMMA NotificationsNextInv == NotificationsInv /\ [Next]_vars => NotificationsInv'
<1> SUFFICES ASSUME NotificationsInv, [Next]_vars PROVE NotificationsInv'
  OBVIOUS
<1>1. CASE UNCHANGED vars
  <2>1. QueueInv'
    BY <1>1 DEF vars, queueVars, redis, worker, NotificationsInv, QueueInv, WorkerTypes,
       CarriesEntry, Added, NothingLeavesUnhandled
  <2>2. faults \in Nat
    BY DEF NotificationsInv, QueueInv, WorkerTypes
  <2>3. HandlerInv'
    BY <1>1, <2>2, HandlersRest DEF vars, queueVars, redis, worker
  <2> QED BY <2>1, <2>3 DEF NotificationsInv
<1>2. CASE Next
  <2>1. CASE \E m \in Messages : XAdd(m) /\ UNCHANGED handlerVars
    BY <2>1, XAddInv
  <2>2. CASE \E w \in Workers : Work(w)
    BY <2>2, InsertInv, PushInv, SucceedInv, FailInv, ProcessInv, TakeInv DEF Work
  <2>3. CASE \E w \in Workers : Die(w)
    BY <2>3, DieInv
  <2>4. CASE \E w \in Workers : \E i \in Entries : Retry(w, i)
    BY <2>4, TakeInv DEF Retry
  <2> QED BY <1>2, <2>1, <2>2, <2>3, <2>4 DEF Next, Consume
<1> QED BY <1>1, <1>2

\* The inductive invariant of the queue and its handlers.
THEOREM NotificationsSpecInv == Spec => []NotificationsInv
BY NotificationsInitInv, NotificationsNextInv, PTL DEF Spec

\* An acknowledged entry was handled, copied or logged (queue.go:238-255),
\* however many workers and failures there are.
THEOREM SpecNothingLeavesUnhandled == Spec => []NothingLeavesUnhandled
<1>1. NotificationsInv => NothingLeavesUnhandled
  BY DEF NotificationsInv, QueueInv
<1> QED BY <1>1, NotificationsSpecInv, PTL

\* A row is pushed once, or not at all after a fault (service.go:103-117).
THEOREM SpecRowsArePushedOnce == Spec => []RowsArePushedOnce
<1>1. NotificationsInv => RowsArePushedOnce
  BY DEF NotificationsInv, HandlerInv
<1> QED BY <1>1, NotificationsSpecInv, PTL

\* A handled entry has notified everybody (service.go:91-120).
THEOREM SpecHandledNotifiesAll == Spec => []HandledNotifiesAll
<1>1. NotificationsInv => HandledNotifiesAll
  BY DEF NotificationsInv, HandlerInv
<1> QED BY <1>1, NotificationsSpecInv, PTL
-----------------------------------------------------------------------------
\* The workers that have an entry when its attempts run out, or are past its
\* handler: what is counted beyond the limit is counted by them.
Spent(i) ==
  {w \in Workers :
     /\ entry[w] = i
     /\ \/ at[w] = "handle" /\ attempt[w] >= HandlerAttempts
        \/ at[w] \in {"remember", "deadLetter", "ack"}}

\* The types the proofs above do without, and the bound on the attempts: a
\* worker gives up an entry out of attempts by resetting its counter, or by a
\* fault.
CounterTypes ==
  /\ trimmed <= MaxEntries /\ faults <= MaxFaults
  /\ dead \subseteq Entries /\ unwritten \subseteq Entries
  /\ entry \in [Workers -> Entries \cup {0}]
  /\ tries \in [Entries -> Nat] /\ attempt \in [Workers -> Attempts]
AttemptsRunOut ==
  \A i \in Entries :
    tries[i] <= HandlerAttempts - 1 + Cardinality(Spent(i)) + faults

CountersInv == NotificationsInv /\ CounterTypes /\ AttemptsRunOut

LEMMA SpentIsFinite ==
  \A i : /\ IsFiniteSet(Spent(i)) /\ Cardinality(Spent(i)) \in Nat
         /\ Cardinality(Spent(i)) <= Cardinality(Workers)
         /\ Cardinality(Workers) \in Nat
<1>1. \A i : Spent(i) \in SUBSET Workers
  BY DEF Spent
<1>2. \A i : IsFiniteSet(Spent(i)) /\ Cardinality(Spent(i)) <= Cardinality(Workers)
  BY <1>1, QueueAssumption, FS_Subset
<1> QED BY <1>2, QueueAssumption, FS_CardinalityType

\* An attempts counter has the type of an attempt.
LEMMA TriesAreAttempts ==
  ASSUME CountersInv, NEW i \in Entries
  PROVE  tries[i] \in Attempts
<1>1. /\ tries[i] \in Nat /\ faults \in Nat /\ faults <= MaxFaults
      /\ tries[i] <= HandlerAttempts - 1 + Cardinality(Spent(i)) + faults
  BY DEF CountersInv, CounterTypes, AttemptsRunOut, NotificationsInv, QueueInv, WorkerTypes
<1> QED BY <1>1, SpentIsFinite, QueueAssumption DEF Attempts

\* The bound holds on when a worker that leaves the spent ones has reset the
\* counter or met a fault.
LEMMA BoundHoldsOn ==
  ASSUME CountersInv, NEW w \in Workers,
         \A v \in Workers \ {w} :
           at'[v] = at[v] /\ entry'[v] = entry[v] /\ attempt'[v] = attempt[v],
         tries' \in [Entries -> Nat], faults' \in Nat, faults' >= faults,
         \A i \in Entries :
           \/ tries'[i] <= HandlerAttempts - 1
           \/ tries'[i] <= tries[i] /\ faults' > faults
           \/ tries'[i] <= tries[i] /\ (w \in Spent(i) => w \in Spent(i)')
           \/ tries'[i] <= tries[i] + 1 /\ w \notin Spent(i) /\ w \in Spent(i)'
  PROVE  AttemptsRunOut'
<1> SUFFICES ASSUME NEW i \in Entries
             PROVE  tries'[i] <= HandlerAttempts - 1 + Cardinality(Spent(i)') + faults'
  BY DEF AttemptsRunOut
<1>1. /\ tries[i] <= HandlerAttempts - 1 + Cardinality(Spent(i)) + faults
      /\ tries[i] \in Nat /\ tries'[i] \in Nat /\ faults \in Nat
      /\ HandlerAttempts \in Nat \ {0}
  BY QueueAssumption DEF CountersInv, CounterTypes, AttemptsRunOut, NotificationsInv,
     QueueInv, WorkerTypes
<1>2. IsFiniteSet(Spent(i)) /\ IsFiniteSet(Spent(i)')
      /\ Cardinality(Spent(i)) \in Nat /\ Cardinality(Spent(i)') \in Nat
  <2>1. Spent(i)' \in SUBSET Workers
    BY DEF Spent
  <2>2. IsFiniteSet(Spent(i)')
    BY <2>1, QueueAssumption, FS_Subset
  <2> QED BY <2>2, SpentIsFinite, FS_CardinalityType
<1>3. Spent(i) \ {w} \subseteq Spent(i)' /\ Spent(i)' \subseteq Spent(i) \cup {w}
  BY DEF Spent
<1>4. CASE tries'[i] <= HandlerAttempts - 1
  BY <1>1, <1>2, <1>4
<1>5. CASE tries'[i] <= tries[i] /\ faults' > faults
  <2>1. Cardinality(Spent(i)) - 1 <= Cardinality(Spent(i)')
    <3>0. /\ IsFiniteSet(Spent(i) \ {w})
          /\ Cardinality(Spent(i) \ {w}) =
               IF w \in Spent(i) THEN Cardinality(Spent(i)) - 1 ELSE Cardinality(Spent(i))
      BY <1>2, FS_RemoveElement
    <3>1. IsFiniteSet(Spent(i) \ {w}) /\ Cardinality(Spent(i) \ {w}) >= Cardinality(Spent(i)) - 1
      BY <1>2, <3>0
    <3>2. Cardinality(Spent(i) \ {w}) <= Cardinality(Spent(i)')
      BY <1>2, <1>3, FS_Subset
    <3>3. Cardinality(Spent(i) \ {w}) \in Nat
      BY <3>1, FS_CardinalityType
    <3> QED BY <1>2, <3>1, <3>2, <3>3
  <2> QED BY <1>1, <1>2, <1>5, <2>1
<1>6. CASE tries'[i] <= tries[i] /\ (w \in Spent(i) => w \in Spent(i)')
  <2>1. Cardinality(Spent(i)) <= Cardinality(Spent(i)')
    BY <1>2, <1>3, <1>6, FS_Subset
  <2> QED BY <1>1, <1>2, <1>6, <2>1
<1>7. CASE tries'[i] <= tries[i] + 1 /\ w \notin Spent(i) /\ w \in Spent(i)'
  <2>1. Spent(i)' = Spent(i) \cup {w}
    BY <1>3, <1>7
  <2>2. Cardinality(Spent(i)') = Cardinality(Spent(i)) + 1
    BY <1>2, <1>7, <2>1, FS_AddElement
  <2> QED BY <1>1, <1>2, <1>7, <2>2
<1> QED BY <1>4, <1>5, <1>6, <1>7

-----------------------------------------------------------------------------
\* What a step of a worker writes: at, entry and attempt of itself.
LEMMA WorkerWrites ==
  ASSUME CountersInv, NEW w \in Workers, NEW step, NEW i \in Entries \cup {0},
         NEW n \in Attempts,
         Goto(w, step), entry' = [entry EXCEPT ![w] = i],
         attempt' = [attempt EXCEPT ![w] = n]
  PROVE  /\ at'[w] = step /\ entry'[w] = i /\ attempt'[w] = n
         /\ entry' \in [Workers -> Entries \cup {0}] /\ attempt' \in [Workers -> Attempts]
         /\ \A v \in Workers \ {w} :
              at'[v] = at[v] /\ entry'[v] = entry[v] /\ attempt'[v] = attempt[v]
<1>1. /\ at \in [Workers -> Places] /\ entry \in [Workers -> Entries \cup {0}]
      /\ attempt \in [Workers -> Attempts]
  BY DEF CountersInv, NotificationsInv, QueueInv, WorkerTypes, CounterTypes
<1> QED BY ONLY <1>1, w \in Workers, i \in Entries \cup {0}, n \in Attempts,
           Goto(w, step), entry' = [entry EXCEPT ![w] = i],
           attempt' = [attempt EXCEPT ![w] = n] DEF Goto

LEMMA CountersFacts ==
  ASSUME CountersInv, NEW w \in Workers
  PROVE  /\ entry[w] \in Entries \cup {0} /\ attempt[w] \in Attempts /\ 0 \in Attempts
         /\ (at[w] # "idle" => entry[w] \in Entries)
         /\ entry = [entry EXCEPT ![w] = entry[w]]
         /\ attempt = [attempt EXCEPT ![w] = attempt[w]]
         /\ faults \in Nat /\ faults <= MaxFaults /\ tries \in [Entries -> Nat]
<1>1. 0 \in Attempts
  BY SpentIsFinite, QueueAssumption DEF Attempts
<1>2. at[w] # "idle" => entry[w] \in Entries
  BY ListOfUsers DEF CountersInv, NotificationsInv
<1> QED BY <1>1, <1>2 DEF CountersInv, CounterTypes, NotificationsInv, QueueInv, WorkerTypes

\* A worker goes on with its entry, and the counters stay.
LEMMA GoesOn ==
  ASSUME CountersInv, NotificationsInv', NEW w \in Workers, NEW step, Goto(w, step),
         NEW i \in Entries \cup {0}, entry' = [entry EXCEPT ![w] = i],
         NEW n \in Attempts, attempt' = [attempt EXCEPT ![w] = n],
         UNCHANGED <<trimmed, tries>>,
         dead' \subseteq Entries, unwritten' \subseteq Entries,
         faults' \in Nat, faults' >= faults, faults' <= MaxFaults,
         \/ faults' > faults
         \/ at[w] \in {"idle", "exists", "count"}
         \/ at[w] = "handle" /\ attempt[w] < HandlerAttempts
         \/ step \in {"remember", "deadLetter", "ack"} /\ i = entry[w]
  PROVE  CountersInv'
<1>1. /\ at'[w] = step /\ entry'[w] = i /\ attempt'[w] = n
      /\ entry' \in [Workers -> Entries \cup {0}] /\ attempt' \in [Workers -> Attempts]
      /\ \A v \in Workers \ {w} :
           at'[v] = at[v] /\ entry'[v] = entry[v] /\ attempt'[v] = attempt[v]
  BY WorkerWrites
<1>2. CounterTypes'
  BY <1>1 DEF CountersInv, CounterTypes
<1>3. attempt[w] \in Nat /\ tries \in [Entries -> Nat] /\ HandlerAttempts \in Nat
  BY CountersFacts, QueueAssumption, SpentIsFinite DEF Attempts
<1>4. \A j \in Entries : faults' > faults \/ (w \in Spent(j) => w \in Spent(j)')
  BY <1>1, <1>3 DEF Spent
<1>5. \A j \in Entries : tries'[j] <= tries[j]
  BY <1>3
<1>6. AttemptsRunOut'
  BY <1>1, <1>3, <1>4, <1>5, BoundHoldsOn
<1> QED BY <1>2, <1>6 DEF CountersInv

LEMMA CountCounters ==
  ASSUME CountersInv, NotificationsInv', NEW w \in Workers, Count(w)
  PROVE  CountersInv'
<1>1. /\ at[w] = "count" /\ Goto(w, "handle") /\ UNCHANGED <<trimmed, dead, unwritten, entry>>
      /\ entry[w] \in Entries
  BY CountersFacts DEF Count
<1>2. dead' \subseteq Entries /\ unwritten' \subseteq Entries
  BY <1>1 DEF CountersInv, CounterTypes
<1>3. CASE faults < MaxFaults /\ UNCHANGED <<tries, attempt>> /\ faults' = faults + 1
  <2>1. entry' = [entry EXCEPT ![w] = entry[w]] /\ attempt' = [attempt EXCEPT ![w] = attempt[w]]
        /\ attempt[w] \in Attempts
    BY <1>1, <1>3, CountersFacts
  <2>2. faults' \in Nat /\ faults' > faults /\ faults' >= faults /\ faults' <= MaxFaults
    BY <1>3, CountersFacts, QueueAssumption
  <2> QED BY <1>1, <1>2, <1>3, <2>1, <2>2, GoesOn
<1>4. CASE /\ tries' = [tries EXCEPT ![entry[w]] = @ + 1]
           /\ attempt' = [attempt EXCEPT ![w] = tries[entry[w]] + 1]
           /\ UNCHANGED faults
  <2> DEFINE n == tries[entry[w]] + 1
  <2>1. /\ tries \in [Entries -> Nat] /\ faults \in Nat /\ faults <= MaxFaults
        /\ HandlerAttempts \in Nat \ {0} /\ MaxFaults \in Nat
    BY CountersFacts, QueueAssumption
  <2>2. /\ tries' \in [Entries -> Nat] /\ tries'[entry[w]] = n /\ n \in Nat
        /\ \A i \in Entries \ {entry[w]} : tries'[i] = tries[i]
    BY <1>1, <1>4, <2>1
  <2>3. \A i : w \notin Spent(i)
    BY <1>1 DEF Spent
  <2>4. /\ at'[w] = "handle" /\ entry'[w] = entry[w] /\ attempt'[w] = n
        /\ \A v \in Workers \ {w} :
             at'[v] = at[v] /\ entry'[v] = entry[v] /\ attempt'[v] = attempt[v]
    <3>1. at \in [Workers -> Places] /\ attempt \in [Workers -> Attempts]
      BY DEF CountersInv, CounterTypes, NotificationsInv, QueueInv, WorkerTypes
    <3> QED BY <1>1, <1>4, <3>1 DEF Goto
  <2>5. \A i \in Entries :
           \/ tries'[i] <= HandlerAttempts - 1
           \/ tries'[i] <= tries[i] /\ (w \in Spent(i) => w \in Spent(i)')
           \/ tries'[i] <= tries[i] + 1 /\ w \notin Spent(i) /\ w \in Spent(i)'
    <3> SUFFICES ASSUME NEW i \in Entries, ~(tries'[i] <= HandlerAttempts - 1)
                 PROVE  \/ tries'[i] <= tries[i] /\ (w \in Spent(i) => w \in Spent(i)')
                        \/ tries'[i] <= tries[i] + 1 /\ w \notin Spent(i) /\ w \in Spent(i)'
      OBVIOUS
    <3>1. CASE i = entry[w]
      <4>1. n >= HandlerAttempts
        BY <2>1, <2>2, <3>1
      <4>2. w \in Spent(i)'
        BY <2>4, <3>1, <4>1 DEF Spent
      <4> QED BY <2>2, <2>3, <3>1, <4>2
    <3>2. CASE i # entry[w]
      BY <2>1, <2>2, <2>3, <3>2
    <3> QED BY <3>1, <3>2
  <2>6. faults' \in Nat /\ faults' >= faults /\ faults' <= MaxFaults
    BY <1>4, <2>1
  <2>7. AttemptsRunOut'
    BY <2>2, <2>4, <2>5, <2>6, BoundHoldsOn
  <2>8. n \in Attempts
    <3>1. tries'[entry[w]] <= HandlerAttempts - 1 + Cardinality(Spent(entry[w])') + faults'
      BY <1>1, <2>4, <2>7 DEF AttemptsRunOut
    <3>2. /\ Cardinality(Spent(entry[w])') \in Nat
          /\ Cardinality(Spent(entry[w])') <= Cardinality(Workers)
          /\ Cardinality(Workers) \in Nat
      <4>1. Spent(entry[w])' \in SUBSET Workers
        BY DEF Spent
      <4> QED BY <4>1, QueueAssumption, FS_Subset, FS_CardinalityType
    <3>3. Spent(entry[w])' = Spent(entry[w])'
      OBVIOUS
    <3> QED BY <2>1, <2>2, <2>6, <3>1, <3>2 DEF Attempts
  <2>9. CounterTypes'
    BY <1>1, <1>2, <1>4, <2>2, <2>6, <2>8 DEF CountersInv, CounterTypes
  <2> QED BY <2>7, <2>9 DEF CountersInv
<1> QED BY <1>3, <1>4 DEF Count, Either

LEMMA AckCounters ==
  ASSUME CountersInv, NotificationsInv', NEW w \in Workers, Ack(w)
  PROVE  CountersInv'
<1>1. /\ at[w] = "ack" /\ Rest(w) /\ UNCHANGED <<trimmed, dead, unwritten>>
      /\ entry[w] \in Entries
  BY CountersFacts DEF Ack
<1>2. PICK failed \in SUBSET {"XACK", "DEL"} :
        /\ faults' = faults + Cardinality(failed) /\ faults' <= MaxFaults
        /\ tries' = IF "DEL" \in failed THEN tries ELSE [tries EXCEPT ![entry[w]] = 0]
  BY DEF Ack
<1>3. Cardinality(failed) \in Nat /\ ("DEL" \in failed => Cardinality(failed) > 0)
  <2>1. IsFiniteSet({"XACK"}) /\ {"XACK", "DEL"} = {"XACK"} \cup {"DEL"}
    BY FS_Singleton
  <2>2. IsFiniteSet({"XACK", "DEL"})
    BY <2>1, FS_AddElement
  <2>3. IsFiniteSet(failed)
    BY <2>2, FS_Subset
  <2>4. Cardinality(failed) \in Nat
    BY <2>3, FS_CardinalityType
  <2>5. "DEL" \in failed => Cardinality(failed) # 0
    BY <2>3, FS_EmptySet
  <2> QED BY <2>4, <2>5
<1>4. /\ faults \in Nat /\ faults' \in Nat /\ faults' >= faults
      /\ ("DEL" \in failed => faults' > faults)
  BY <1>2, <1>3, CountersFacts
<1>5. /\ entry' \in [Workers -> Entries \cup {0}] /\ attempt' \in [Workers -> Attempts]
      /\ \A v \in Workers \ {w} :
           at'[v] = at[v] /\ entry'[v] = entry[v] /\ attempt'[v] = attempt[v]
  <2>1. Goto(w, "idle") /\ entry' = [entry EXCEPT ![w] = 0]
        /\ attempt' = [attempt EXCEPT ![w] = 0]
    BY <1>1 DEF Rest
  <2>2. 0 \in Attempts /\ 0 \in Entries \cup {0}
    BY CountersFacts
  <2> QED BY <2>1, <2>2, WorkerWrites
<1>6. tries \in [Entries -> Nat] /\ HandlerAttempts \in Nat \ {0}
  BY CountersFacts, QueueAssumption
<1>7. tries' \in [Entries -> Nat]
  BY <1>1, <1>2, <1>6
<1>8. \A i \in Entries :
           \/ tries'[i] <= HandlerAttempts - 1
           \/ tries'[i] <= tries[i] /\ faults' > faults
           \/ tries'[i] <= tries[i] /\ (w \in Spent(i) => w \in Spent(i)')
  <2> SUFFICES ASSUME NEW i \in Entries
               PROVE  \/ tries'[i] <= HandlerAttempts - 1
                      \/ tries'[i] <= tries[i] /\ faults' > faults
                      \/ tries'[i] <= tries[i] /\ (w \in Spent(i) => w \in Spent(i)')
    OBVIOUS
  <2>1. CASE "DEL" \in failed
    BY <1>2, <1>4, <1>6, <2>1
  <2>2. CASE "DEL" \notin failed /\ i = entry[w]
    BY <1>2, <1>6, <2>2
  <2>3. CASE "DEL" \notin failed /\ i # entry[w]
    BY <1>2, <1>6, <2>3 DEF Spent
  <2> QED BY <2>1, <2>2, <2>3
<1>9. AttemptsRunOut'
  BY <1>4, <1>5, <1>7, <1>8, BoundHoldsOn
<1>10. CounterTypes'
  BY <1>1, <1>2, <1>5, <1>7 DEF CountersInv, CounterTypes
<1> QED BY <1>9, <1>10 DEF CountersInv

\* Exists, DeadLetter and Remember.
LEMMA ProcessCounters ==
  ASSUME CountersInv, NotificationsInv', NEW w \in Workers, Process(w)
  PROVE  CountersInv'
<1>1. CASE Exists(w) \/ DeadLetter(w) \/ Remember(w)
  <2>1. /\ at[w] \in {"exists", "deadLetter", "remember"} /\ entry[w] \in Entries
        /\ UNCHANGED <<trimmed, tries, entry, attempt>>
    BY <1>1, CountersFacts DEF Exists, DeadLetter, Remember, redis
  <2>2. PICK step \in {"ack", "count"} :
          Goto(w, step) /\ (at[w] # "exists" => step = "ack")
    BY <1>1 DEF Exists, DeadLetter, Remember, Either
  <2>3. faults' \in Nat /\ faults' >= faults /\ faults' <= MaxFaults
    <3>1. faults' = faults \/ (faults < MaxFaults /\ faults' = faults + 1)
      BY <1>1 DEF Exists, DeadLetter, Remember, Either
    <3> QED BY <3>1, CountersFacts, QueueAssumption
  <2>4. dead' \subseteq dead \cup {entry[w]} /\ unwritten' \subseteq unwritten \cup {entry[w]}
    BY <1>1 DEF Exists, DeadLetter, Remember, Either, redis
  <2>5. dead' \subseteq Entries /\ unwritten' \subseteq Entries
    BY <2>1, <2>4 DEF CountersInv, CounterTypes
  <2>6. entry' = [entry EXCEPT ![w] = entry[w]] /\ attempt' = [attempt EXCEPT ![w] = attempt[w]]
        /\ attempt[w] \in Attempts
    BY <2>1, CountersFacts
  <2> QED BY <2>1, <2>2, <2>3, <2>5, <2>6, GoesOn
<1>2. CASE Count(w)
  BY <1>2, CountCounters
<1>3. CASE Ack(w)
  BY <1>3, AckCounters
<1> QED BY <1>1, <1>2, <1>3 DEF Process

\* The worker's steps from one entry to the next.
LEMMA WorkCounters ==
  ASSUME CountersInv, NotificationsInv', NEW w \in Workers,
         \/ Insert(w) \/ Push(w) \/ Succeed(w) \/ Fail(w) \/ Die(w)
         \/ ReadNew(w) \/ \E i \in Entries : Reclaim(w, i)
  PROVE  CountersInv'
<1>0. /\ dead \subseteq Entries /\ unwritten \subseteq Entries /\ 0 \in Attempts
      /\ faults \in Nat /\ faults <= MaxFaults
  BY CountersFacts DEF CountersInv, CounterTypes
<1>1. CASE Insert(w) \/ Push(w)
  <2>1. UNCHANGED queueVars
    BY <1>1 DEF Insert, Push
  <2> QED BY <2>1 DEF queueVars, redis, worker, CountersInv, CounterTypes, AttemptsRunOut, Spent
<1>2. CASE ReadNew(w) \/ \E i \in Entries : Reclaim(w, i)
  <2>1. PICK i \in Stored : Take(w, i)
    BY <1>2 DEF ReadNew, Reclaim
  <2>2. at[w] = "idle" /\ UNCHANGED <<trimmed, tries, dead, faults, unwritten>>
    BY <1>2 DEF ReadNew, Reclaim, redis
  <2>3. i \in Entries \cup {0}
    <3>1. i \in (trimmed + 1)..Len(stream)
      BY DEF Stored
    <3>2. trimmed \in Nat /\ Len(stream) \in Nat /\ Len(stream) <= MaxEntries /\ MaxEntries \in Nat
      <4>1. stream \in Seq(Messages) /\ trimmed \in Nat /\ Len(stream) <= MaxEntries
        BY DEF CountersInv, NotificationsInv, QueueInv, WorkerTypes
      <4>2. MaxEntries \in Nat
        BY QueueAssumption
      <4> QED BY <4>1, <4>2
    <3> QED BY <3>1, <3>2 DEF Entries
  <2>4. Goto(w, "exists") /\ entry' = [entry EXCEPT ![w] = i]
        /\ attempt' = [attempt EXCEPT ![w] = attempt[w]] /\ attempt[w] \in Attempts
    BY <2>1, CountersFacts DEF Take
  <2>5. faults' \in Nat /\ faults' >= faults /\ faults' <= MaxFaults
    BY <1>0, <2>2
  <2> QED BY <1>0, <2>2, <2>3, <2>4, <2>5, GoesOn
<1>3. CASE Succeed(w)
  <2>1. /\ at[w] = "handle" /\ Goto(w, "remember") /\ UNCHANGED <<trimmed, tries, dead, entry, faults, unwritten>>
        /\ attempt' = [attempt EXCEPT ![w] = 0]
    BY <1>3 DEF Succeed, HandlerSucceeds, Conclude, redis
  <2>2. entry' = [entry EXCEPT ![w] = entry[w]] /\ entry[w] \in Entries \cup {0}
    BY <2>1, CountersFacts
  <2>3. faults' \in Nat /\ faults' >= faults /\ faults' <= MaxFaults
    BY <1>0, <2>1
  <2> QED BY <1>0, <2>1, <2>2, <2>3, GoesOn
<1>4. CASE Fail(w)
  <2>1. /\ at[w] = "handle" /\ UNCHANGED <<trimmed, tries, dead, faults, unwritten>>
        /\ attempt' = [attempt EXCEPT ![w] = 0]
        /\ \/ OutOfAttempts(w) /\ Goto(w, "deadLetter") /\ UNCHANGED entry
           \/ ~OutOfAttempts(w) /\ Goto(w, "idle") /\ entry' = [entry EXCEPT ![w] = 0]
    BY <1>4 DEF Fail, HandlerFails, Conclude, Rest, redis
  <2>2. faults' \in Nat /\ faults' >= faults /\ faults' <= MaxFaults
    BY <1>0, <2>1
  <2>3. CASE OutOfAttempts(w)
    <3>1. entry' = [entry EXCEPT ![w] = entry[w]] /\ entry[w] \in Entries \cup {0}
      BY <2>1, <2>3, CountersFacts
    <3> QED BY <1>0, <2>1, <2>2, <2>3, <3>1, GoesOn
  <2>4. CASE ~OutOfAttempts(w)
    <3>1. attempt[w] < HandlerAttempts
      <4>1. attempt[w] \in Nat /\ HandlerAttempts \in Nat
        BY CountersFacts, QueueAssumption, SpentIsFinite DEF Attempts
      <4> QED BY <2>4, <4>1 DEF OutOfAttempts
    <3>2. 0 \in Entries \cup {0}
      OBVIOUS
    <3> QED BY <1>0, <2>1, <2>2, <2>4, <3>1, <3>2, GoesOn
  <2> QED BY <2>3, <2>4
<1>5. CASE Die(w)
  <2>1. /\ faults < MaxFaults /\ faults' = faults + 1 /\ Goto(w, "idle")
        /\ entry' = [entry EXCEPT ![w] = 0] /\ attempt' = [attempt EXCEPT ![w] = 0]
        /\ UNCHANGED <<trimmed, tries, dead, unwritten>>
    BY <1>5 DEF Die, Crash, Rest, redis
  <2>2. faults' \in Nat /\ faults' > faults /\ faults' >= faults /\ faults' <= MaxFaults
    BY <1>0, <2>1, QueueAssumption
  <2>3. 0 \in Entries \cup {0}
    OBVIOUS
  <2> QED BY <1>0, <2>1, <2>2, <2>3, GoesOn
<1> QED BY <1>1, <1>2, <1>3, <1>4, <1>5

LEMMA CountersInitInv == Init => CountersInv
<1> SUFFICES ASSUME Init PROVE CountersInv
  OBVIOUS
<1>1. /\ trimmed = 0 /\ faults = 0 /\ dead = {} /\ unwritten = {}
      /\ tries = [i \in Entries |-> 0] /\ at = [w \in Workers |-> "idle"]
      /\ entry = [w \in Workers |-> 0] /\ attempt = [w \in Workers |-> 0]
  BY DEF Init, QueueInit
<1>2. 0 \in Attempts
  BY SpentIsFinite, QueueAssumption DEF Attempts
<1>3. CounterTypes
  BY <1>1, <1>2, QueueAssumption DEF CounterTypes
<1>4. ASSUME NEW i \in Entries
      PROVE  tries[i] <= HandlerAttempts - 1 + Cardinality(Spent(i)) + faults
  BY <1>1, SpentIsFinite, QueueAssumption
<1> QED BY <1>3, <1>4, NotificationsInitInv DEF CountersInv, AttemptsRunOut

LEMMA CountersNextInv == CountersInv /\ [Next]_vars => CountersInv'
<1> SUFFICES ASSUME CountersInv, [Next]_vars PROVE CountersInv'
  OBVIOUS
<1>1. NotificationsInv'
  BY NotificationsNextInv DEF CountersInv
<1>2. CASE UNCHANGED vars
  BY <1>1, <1>2 DEF vars, queueVars, redis, worker, CountersInv, CounterTypes, AttemptsRunOut, Spent
<1>3. ASSUME NEW m \in Messages, XAdd(m)
      PROVE  CountersInv'
  <2>1. UNCHANGED <<tries, dead, at, entry, attempt, faults, unwritten>>
    BY <1>3 DEF XAdd, worker
  <2>2. trimmed' <= MaxEntries
    BY <1>3, QueueAssumption DEF XAdd, CountersInv, NotificationsInv, QueueInv, WorkerTypes
  <2> QED BY <1>1, <2>1, <2>2 DEF CountersInv, CounterTypes, AttemptsRunOut, Spent
<1>4. ASSUME NEW w \in Workers, Work(w) \/ Die(w) \/ \E i \in Entries : Retry(w, i)
      PROVE  CountersInv'
  BY <1>1, <1>4, ProcessCounters, WorkCounters DEF Work, Retry
<1> QED BY <1>2, <1>3, <1>4 DEF Next, Consume

\* Every variable has its type, and an entry is handled at most so often as
\* Attempts allows (queue.go:228-247): the limit, one handler in each worker,
\* and one for every fault.
THEOREM NotificationsSpecTypeOK == Spec => []TypeOK
<1>1. CountersInv => TypeOK
  <2> SUFFICES ASSUME CountersInv PROVE TypeOK
    OBVIOUS
  <2>1. QueueTypeOK
    <3>1. /\ stream \in Seq(Messages) /\ Len(stream) <= MaxEntries
          /\ state \in [Entries -> {"new", "pending", "acked"}]
          /\ at \in [Workers -> Places]
          /\ done \subseteq handled /\ handled \subseteq Added
          /\ trimmed \in Nat /\ faults \in Nat /\ MaxEntries \in Nat
      BY QueueAssumption DEF CountersInv, NotificationsInv, QueueInv, WorkerTypes
    <3>2. Added \subseteq Entries
      BY <3>1 DEF Added, Entries
    <3>3. trimmed \in 0 .. MaxEntries /\ faults \in 0 .. MaxFaults
      BY <3>1, QueueAssumption DEF CountersInv, CounterTypes
    <3>4. tries \in [Entries -> Attempts]
      BY TriesAreAttempts DEF CountersInv, CounterTypes
    <3>5. done \subseteq Entries /\ handled \subseteq Entries
      BY <3>1, <3>2
    <3> QED BY <3>1, <3>3, <3>4, <3>5 DEF QueueTypeOK, CountersInv, CounterTypes, Places
  <2> QED BY <2>1 DEF TypeOK, CountersInv, NotificationsInv, HandlerInv, HandlerTypes
<1>2. Spec => []CountersInv
  BY CountersInitInv, CountersNextInv, PTL DEF Spec
<1> QED BY <1>1, <1>2, PTL

-----------------------------------------------------------------------------
\* Delivery: the outbox in front of the queue.  OutboxProofs holds of its events.
BoxP == INSTANCE OutboxProofs WITH Events <- Messages

\* The steps of the outbox in Delivery are those that OutboxProofs is about.
LEMMA BoxInit ==
  ASSUME IsFiniteSet(Drainers), BatchSize \in Nat \ {0}, MaxAttempts \in Nat \ {0}
  PROVE  Box!Init => BoxP!OutboxInv
<1>1. Box!Init <=> BoxP!Init
  BY DEF Box!Init, BoxP!Init
<1>2. BoxP!IsFiniteSet(Drainers)
  BY DEF BoxP!IsFiniteSet, IsFiniteSet
<1>3. BoxP!Init => BoxP!OutboxInv
  BY <1>2, BoxP!OutboxInitInv
<1> QED BY <1>1, <1>3

LEMMA BoxNext ==
  ASSUME IsFiniteSet(Drainers), BatchSize \in Nat \ {0}, MaxAttempts \in Nat \ {0}
  PROVE  BoxP!OutboxInv /\ [Box!Next]_boxVars => BoxP!OutboxInv'
<1>1. Box!Next => BoxP!Next
  BY DEF Box!Next, BoxP!Next, Box!TableStep, BoxP!TableStep, Box!TransportStep,
     BoxP!TransportStep, Box!Enqueue, BoxP!Enqueue, Box!LeaseExpires, BoxP!LeaseExpires,
     Box!Claim, BoxP!Claim, Box!Idle, BoxP!Idle, Box!Claimable, BoxP!Claimable,
     Box!Cardinality, BoxP!Cardinality, Box!Publish, BoxP!Publish, Box!PublishFails,
     BoxP!PublishFails, Box!WithoutFailed, BoxP!WithoutFailed, Box!MarksNothing,
     BoxP!MarksNothing, Box!MarkPublished, BoxP!MarkPublished, Box!MarkFails,
     BoxP!MarkFails, Box!Stop, BoxP!Stop, Box!row, BoxP!row
<1>2. BoxP!IsFiniteSet(Drainers)
  BY DEF BoxP!IsFiniteSet, IsFiniteSet
<1>3. BoxP!OutboxInv /\ [BoxP!Next]_BoxP!vars => BoxP!OutboxInv'
  BY <1>2, BoxP!OutboxNextInv
<1>4. UNCHANGED boxVars => UNCHANGED BoxP!vars
  BY DEF boxVars, BoxP!vars, BoxP!row
<1> QED BY <1>1, <1>3, <1>4

\* The entries that an event has become.
EntriesOf(m) == {i \in Added : stream[i] = m}

\* An event has as many entries as it was handed over ..
EntriesAreDeliveries == \A m \in Messages : Cardinality(EntriesOf(m)) = delivered[m]

\* .. and rows belong to entries.
RowsHaveEntries == \A n \in inbox : n[2] \in Added

DeliveryInv == BoxP!OutboxInv /\ NotificationsInv /\ EntriesAreDeliveries /\ RowsHaveEntries

\* What one step of the composition is for its parts.
LEMMA DeliveryStep ==
  ASSUME BoxP!OutboxInv, [DeliveryNext]_allVars
  PROVE  /\ [Next]_vars /\ [Box!Next]_boxVars
         /\ \/ UNCHANGED <<stream, delivered>>
            \/ \E m \in Messages :
                 XAdd(m) /\ UNCHANGED handlerVars /\ delivered' = [delivered EXCEPT ![m] = @ + 1]
<1>1. CASE UNCHANGED allVars
  BY <1>1 DEF allVars, boxVars, vars, queueVars, redis
<1>2. CASE Drain
  BY <1>2 DEF Drain, vars, queueVars, redis, Box!Next, Box!TableStep, Box!Enqueue,
     Box!LeaseExpires, Box!Claim, Box!MarkPublished, Box!MarkFails, Box!Stop
<1>3. ASSUME NEW d \in Drainers, NEW c \in batch[d], Publish(d, c)
      PROVE  /\ [Next]_vars /\ [Box!Next]_boxVars
             /\ \/ UNCHANGED <<stream, delivered>>
                \/ \E m \in Messages :
                     XAdd(m) /\ UNCHANGED handlerVars /\ delivered' = [delivered EXCEPT ![m] = @ + 1]
  <2>1. c.event \in Messages
    BY DEF BoxP!OutboxInv, BoxP!TypeOK, BoxP!Claims
  <2>2. Box!Next
    BY <1>3 DEF Publish, Box!Next, Box!TransportStep
  <2>3. CASE /\ Box!Publish(d, c) \/ Box!PublishFails(d, c, TRUE)
             /\ XAdd(c.event) /\ UNCHANGED handlerVars
    BY <2>1, <2>2, <2>3 DEF Next, Box!Publish, Box!PublishFails
  <2>4. CASE Box!PublishFails(d, c, FALSE) /\ UNCHANGED vars
    BY <2>2, <2>4 DEF Box!PublishFails, vars, queueVars, redis
  <2> QED BY <1>3, <2>3, <2>4 DEF Publish
<1>4. CASE Consume /\ UNCHANGED boxVars
  <2>1. UNCHANGED delivered
    BY <1>4 DEF boxVars
  <2>2. stream' = stream
    BY <1>4 DEF Consume, Work, Die, Retry, Insert, Push, Succeed, Fail, Process, ReadNew,
       Reclaim, Crash, Exists, Count, DeadLetter, Remember, Ack, HandlerSucceeds,
       HandlerFails, queueVars, redis
  <2> QED BY <1>4, <2>1, <2>2 DEF Next
<1> QED BY <1>1, <1>2, <1>3, <1>4 DEF DeliveryNext

\* A new row is one of an entry that a worker has at hand.
LEMMA RowsStayWithEntries ==
  ASSUME NotificationsInv, RowsHaveEntries, [Next]_vars
  PROVE  RowsHaveEntries'
<1>1. \/ inbox' = inbox
      \/ \E w \in Workers : inbox' = inbox \cup {Row(w)} /\ at[w] = "handle"
  BY DEF Next, Consume, Work, Die, Retry, Insert, Inserting, Push, Succeed, Fail, vars, handlerVars
<1>2. \A w \in Workers : at[w] = "handle" => Row(w)[2] \in Added
  BY DEF NotificationsInv, QueueInv, CarriesEntry, Row
<1>3. Added \subseteq Added'
  <2>1. stream' = stream \/ \E m \in Messages : stream' = Append(stream, m)
    BY DEF Next, Consume, Work, Die, Retry, Insert, Push, Succeed, Fail, Process, ReadNew,
       Reclaim, Crash, Exists, Count, DeadLetter, Remember, Ack, HandlerSucceeds,
       HandlerFails, XAdd, vars, queueVars, redis
  <2>2. stream \in Seq(Messages)
    BY DEF NotificationsInv, QueueInv, WorkerTypes
  <2> QED BY <2>1, <2>2 DEF Added
<1> QED BY <1>1, <1>2, <1>3 DEF RowsHaveEntries

\* The entries of an event, before and after one more is added.
LEMMA EntriesAreFinite ==
  ASSUME stream \in Seq(Messages), NEW e
  PROVE  IsFiniteSet(EntriesOf(e)) /\ Cardinality(EntriesOf(e)) \in Nat
<1>1. EntriesOf(e) \subseteq 1 .. Len(stream) /\ Len(stream) \in Nat
  BY DEF EntriesOf, Added
<1>2. IsFiniteSet(1 .. Len(stream))
  BY <1>1, FS_Interval
<1>3. IsFiniteSet(EntriesOf(e))
  BY <1>1, <1>2, FS_Subset
<1> QED BY <1>3, FS_CardinalityType

LEMMA EntriesOfAdded ==
  ASSUME stream \in Seq(Messages), NEW m \in Messages, stream' = Append(stream, m),
         NEW e \in Messages
  PROVE  /\ IsFiniteSet(EntriesOf(e)) /\ Cardinality(EntriesOf(e)) \in Nat
         /\ Cardinality(EntriesOf(e)') =
              IF e = m THEN Cardinality(EntriesOf(e)) + 1 ELSE Cardinality(EntriesOf(e))
<1>1. /\ Len(stream) \in Nat /\ Len(stream') = Len(stream) + 1
      /\ stream'[Len(stream) + 1] = m
      /\ \A i \in 1 .. Len(stream) : stream'[i] = stream[i]
  OBVIOUS
<1>2. EntriesOf(e) \subseteq 1 .. Len(stream)
  BY DEF EntriesOf, Added
<1>3. IsFiniteSet(EntriesOf(e)) /\ Cardinality(EntriesOf(e)) \in Nat
  BY EntriesAreFinite
<1>4. Len(stream) + 1 \notin EntriesOf(e)
  BY <1>1, <1>2
<1>5. EntriesOf(e)' = IF e = m THEN EntriesOf(e) \cup {Len(stream) + 1} ELSE EntriesOf(e)
  BY <1>1 DEF EntriesOf, Added
<1>6. Cardinality(EntriesOf(e) \cup {Len(stream) + 1}) = Cardinality(EntriesOf(e)) + 1
  BY <1>3, <1>4, FS_AddElement
<1> QED BY <1>3, <1>5, <1>6

LEMMA DeliveryInitInv ==
  ASSUME IsFiniteSet(Drainers), BatchSize \in Nat \ {0}, MaxAttempts \in Nat \ {0},
         DeliveryInit
  PROVE  DeliveryInv
<1>1. BoxP!OutboxInv /\ NotificationsInv
  BY BoxInit, NotificationsInitInv DEF DeliveryInit
<1>2. stream = <<>> /\ inbox = {} /\ \A m \in Messages : delivered[m] = 0
  BY DEF DeliveryInit, Init, QueueInit, Box!Init
<1>3. \A m : EntriesOf(m) = {}
  BY <1>2 DEF EntriesOf, Added
<1> QED BY <1>1, <1>2, <1>3, FS_EmptySet DEF DeliveryInv, EntriesAreDeliveries, RowsHaveEntries

LEMMA DeliveryNextInv ==
  ASSUME IsFiniteSet(Drainers), BatchSize \in Nat \ {0}, MaxAttempts \in Nat \ {0},
         DeliveryInv, [DeliveryNext]_allVars
  PROVE  DeliveryInv'
<1>1. [Next]_vars /\ [Box!Next]_boxVars
  BY DeliveryStep DEF DeliveryInv
<1>2. BoxP!OutboxInv' /\ NotificationsInv' /\ RowsHaveEntries'
  BY <1>1, BoxNext, NotificationsNextInv, RowsStayWithEntries DEF DeliveryInv
<1>3. /\ stream \in Seq(Messages)
      /\ delivered \in [Messages -> Nat]
  BY DEF DeliveryInv, NotificationsInv, QueueInv, WorkerTypes, BoxP!OutboxInv, BoxP!TypeOK
<1>4. EntriesAreDeliveries'
  <2>1. CASE UNCHANGED <<stream, delivered>>
    BY <2>1 DEF DeliveryInv, EntriesAreDeliveries, EntriesOf, Added
  <2>2. ASSUME NEW m \in Messages, stream' = Append(stream, m),
               delivered' = [delivered EXCEPT ![m] = @ + 1]
        PROVE  EntriesAreDeliveries'
    <3> SUFFICES ASSUME NEW e \in Messages
                 PROVE  Cardinality(EntriesOf(e)') = delivered'[e]
      BY DEF EntriesAreDeliveries
    <3>1. Cardinality(EntriesOf(e)') =
            IF e = m THEN Cardinality(EntriesOf(e)) + 1 ELSE Cardinality(EntriesOf(e))
      BY <1>3, <2>2, EntriesOfAdded
    <3>2. Cardinality(EntriesOf(e)) = delivered[e]
      BY DEF DeliveryInv, EntriesAreDeliveries
    <3> QED BY <1>3, <2>2, <3>1, <3>2
  <2> QED BY <2>1, <2>2, DeliveryStep DEF DeliveryInv, XAdd
<1> QED BY <1>2, <1>4 DEF DeliveryInv

\* However often an event is delivered again, a person is notified of it at most
\* once for each attempt that the outbox counted, and so MaxAttempts times.
NotificationsAreBounded ==
  \A u \in Users, m \in Messages :
    Cardinality(NotificationsFor(u, m)) <= attempts[m] /\ attempts[m] <= MaxAttempts

LEMMA BoundedByAttempts ==
  ASSUME IsFiniteSet(Drainers), BatchSize \in Nat \ {0}, MaxAttempts \in Nat \ {0},
         DeliveryInv
  PROVE  NotificationsAreBounded
<1> SUFFICES ASSUME NEW u \in Users, NEW m \in Messages
             PROVE  Cardinality(NotificationsFor(u, m)) <= attempts[m] /\ attempts[m] <= MaxAttempts
  BY DEF NotificationsAreBounded
<1> DEFINE rows == NotificationsFor(u, m)
           f == [n \in rows |-> n[2]]
<1>1. stream \in Seq(Messages) /\ inbox \subseteq Users \X Entries
  BY DEF DeliveryInv, NotificationsInv, QueueInv, WorkerTypes, HandlerInv, HandlerTypes
<1>2. IsFiniteSet(EntriesOf(m)) /\ Cardinality(EntriesOf(m)) \in Nat
  BY <1>1, EntriesAreFinite
<1>3. f \in Injection(rows, EntriesOf(m))
  <2>1. \A n \in rows : n[2] \in EntriesOf(m) /\ n = <<u, n[2]>>
    BY <1>1 DEF NotificationsFor, EntriesOf, DeliveryInv, RowsHaveEntries
  <2> HIDE DEF rows
  <2> QED BY <2>1 DEF Injection, IsInjective
<1>4. IsFiniteSet(rows) /\ Cardinality(rows) <= Cardinality(EntriesOf(m))
  <2> HIDE DEF rows, f
  <2> QED BY <1>2, <1>3, FS_Injection
<1>5. Cardinality(EntriesOf(m)) = delivered[m]
  BY DEF DeliveryInv, EntriesAreDeliveries
<1>6. /\ delivered[m] + Cardinality(BoxP!Holders(m)) <= attempts[m]
      /\ delivered[m] \in Nat /\ attempts[m] \in 0 .. MaxAttempts
  <2>1. \A S : BoxP!Cardinality(S) = Cardinality(S)
    BY DEF BoxP!Cardinality, Cardinality
  <2> QED BY <2>1 DEF DeliveryInv, BoxP!OutboxInv, BoxP!TypeOK, BoxP!DeliveriesArePaidFor
<1>7. Cardinality(BoxP!Holders(m)) \in Nat
  <2>1. BoxP!Holders(m) \subseteq Drainers
    BY DEF BoxP!Holders
  <2> QED BY <2>1, FS_Subset, FS_CardinalityType
<1>8. Cardinality(rows) \in Nat
  BY <1>4, FS_CardinalityType
<1> QED BY <1>2, <1>4, <1>5, <1>6, <1>7, <1>8

\* The inductive invariant of the composition: each entry of the stream is one
\* delivery of its event, and rows belong to entries.
THEOREM DeliverySpecInv ==
  ASSUME IsFiniteSet(Drainers), BatchSize \in Nat \ {0}, MaxAttempts \in Nat \ {0}
  PROVE  DeliverySpec => []DeliveryInv
<1>1. DeliveryInit => DeliveryInv
  BY DeliveryInitInv
<1>2. DeliveryInv /\ [DeliveryNext]_allVars => DeliveryInv'
  BY DeliveryNextInv
<1> QED BY <1>1, <1>2, PTL DEF DeliverySpec

\* With the queue as its transport the outbox is still the one of Outbox
\* (redisOutboxPublisher, cmd/server/main.go:151-165).
THEOREM SpecDeliversFromTheOutbox == DeliverySpec => Box!Spec
<1>1. DeliveryInit => Box!Init
  BY DEF DeliveryInit
<1>2. [DeliveryNext]_allVars => [Box!Next]_Box!vars
  <2> SUFFICES ASSUME [DeliveryNext]_allVars PROVE [Box!Next]_Box!vars
    OBVIOUS
  <2> QED BY DEF DeliveryNext, Drain, Publish, Box!Next, Box!TransportStep, allVars,
             boxVars, Box!vars, Box!row
<1> QED BY <1>1, <1>2, PTL DEF DeliverySpec, Box!Spec

\* With the outbox as its producer the queue with its handlers is still the one of
\* Notifications, so that what is proved of it above holds of deliveries too
\* (queue.go, notifications/consumers.go).
THEOREM SpecDeliversToTheInboxes ==
  ASSUME IsFiniteSet(Drainers), BatchSize \in Nat \ {0}, MaxAttempts \in Nat \ {0}
  PROVE  DeliverySpec => Spec
<1>1. DeliveryInit => Init
  BY DEF DeliveryInit
<1>2. DeliveryInv /\ [DeliveryNext]_allVars => [Next]_vars
  BY DeliveryStep DEF DeliveryInv
<1> QED BY <1>1, <1>2, DeliverySpecInv, PTL DEF DeliverySpec, Spec

\* A person may be notified of an event more than once (the queue gives each XADD
\* an identity of its own), but no more often than the outbox attempted it
\* (queue.go:61, drainer.go:32-48).
THEOREM SpecNotificationsAreBounded ==
  ASSUME IsFiniteSet(Drainers), BatchSize \in Nat \ {0}, MaxAttempts \in Nat \ {0}
  PROVE  DeliverySpec => []NotificationsAreBounded
<1>1. DeliveryInv => NotificationsAreBounded
  BY BoundedByAttempts
<1> QED BY <1>1, DeliverySpecInv, PTL
=============================================================================
