--------------------------- MODULE Notifications ----------------------------
(***************************************************************************)
(* internal/notifications on the worker side: the handler that turns the   *)
(* entries of the notifications stream into rows of the inboxes.           *)
(*                                                                         *)
(* The row of a recipient is unique per event_id, which is the identity of *)
(* the stream entry.  Increment of the cached unread count and push follow *)
(* the insert that has created the row.                                    *)
(***************************************************************************)
EXTENDS StreamQueue

CONSTANTS Users,
          Recipients   \* Recipients[m]: whom m notifies, in the handler's order

ASSUME RecipientsAssumption == Recipients \in [Messages -> Seq(Users)]

VARIABLES inbox,    \* rows of notifications: <<user, entry>>
          pushed,   \* history: increments and pushes for a row
          to,       \* to[w]: the place of the recipient the handler is at
          created   \* created[w]: its row has been inserted by w just now

handlerVars == <<inbox, pushed, to, created>>
vars == <<queueVars, handlerVars>>

TypeOK ==
  /\ QueueTypeOK
  /\ inbox \subseteq Users \X Entries
  /\ pushed \in [Users \X Entries -> Nat]
  /\ to \in [Workers -> Nat \ {0}]
  /\ created \in [Workers -> BOOLEAN]

Init ==
  /\ QueueInit
  /\ inbox = {}
  /\ pushed = [n \in Users \X Entries |-> 0]
  /\ to = [w \in Workers |-> 1]
  /\ created = [w \in Workers |-> FALSE]

-----------------------------------------------------------------------------
List(w) == Recipients[stream[entry[w]]]
Row(w) == <<List(w)[to[w]], entry[w]>>
Inserting(w) == at[w] = "handle" /\ to[w] <= Len(List(w)) /\ ~created[w]

\* Fault: the handler bumps and pushes for an existing row too.
AlwaysCreates(w) == TRUE

Creates(w) == Row(w) \notin inbox

\* Fault: a row that is there means that the whole event has been handled.
SkipsRest(w) == Len(List(w)) + 1

NextRecipient(w) == to[w] + 1

\* INSERT .. ON CONFLICT (user_id, event_id) DO NOTHING.
Insert(w) ==
  /\ Inserting(w)
  /\ inbox' = inbox \cup {Row(w)}
  /\ IF Creates(w)
     THEN created' = [created EXCEPT ![w] = TRUE] /\ UNCHANGED to
     ELSE to' = [to EXCEPT ![w] = NextRecipient(w)] /\ UNCHANGED created
  /\ UNCHANGED <<queueVars, pushed>>

\* The counter is incremented and the devices are pushed to; errors are ignored.
Push(w) ==
  /\ at[w] = "handle"
  /\ created[w]
  /\ pushed' = [pushed EXCEPT ![Row(w)] = @ + 1]
  /\ created' = [created EXCEPT ![w] = FALSE]
  /\ to' = [to EXCEPT ![w] = @ + 1]
  /\ UNCHANGED <<queueVars, inbox>>

Restart(w) ==
  /\ to' = [to EXCEPT ![w] = 1]
  /\ created' = [created EXCEPT ![w] = FALSE]

\* Everybody has been notified.
Succeed(w) ==
  /\ to[w] > Len(List(w))
  /\ HandlerSucceeds(w)
  /\ Restart(w)
  /\ UNCHANGED <<inbox, pushed>>

\* The name lookup or the insert fails.
Fail(w) ==
  /\ Inserting(w)
  /\ HandlerFails(w)
  /\ Restart(w)
  /\ UNCHANGED <<inbox, pushed>>

Die(w) ==
  /\ Crash(w)
  /\ Restart(w)
  /\ UNCHANGED <<inbox, pushed>>

-----------------------------------------------------------------------------
Work(w) ==
  \/ Insert(w) \/ Push(w)
  \/ at[w] = "handle" /\ Succeed(w)
  \/ Fail(w)
  \/ Process(w) /\ UNCHANGED handlerVars
  \/ ReadNew(w) /\ UNCHANGED handlerVars

Retry(w, i) == Reclaim(w, i) /\ UNCHANGED handlerVars

\* The consumers of the group.
Consume ==
  \E w \in Workers :
    Work(w) \/ Die(w) \/ \E i \in Entries : Retry(w, i)

Next ==
  \/ \E m \in Messages : XAdd(m) /\ UNCHANGED handlerVars
  \/ Consume

Spec == Init /\ [][Next]_vars

\* Workers get on with what they have; the reclaimer, which takes the oldest
\* entries first, comes to every pending entry again and again.
FairSpec ==
  /\ Spec
  /\ \A w \in Workers : WF_vars(Work(w))
  /\ \A i \in Entries : SF_vars(\E w \in Workers : Retry(w, i))

-----------------------------------------------------------------------------
\* Each row is pushed once: never twice, however often its event is delivered
\* and whoever handles it meanwhile, and never not at all unless something has
\* failed (service.go:103-117, store.go:45-46).
RowsArePushedOnce ==
  \A n \in Users \X Entries :
    IF n \notin inbox THEN pushed[n] = 0
    ELSE \/ pushed[n] = 1
         \/ pushed[n] = 0 /\ faults > 0
         \/ pushed[n] = 0 /\ \E w \in Workers : created[w] /\ Row(w) = n

\* An event counts as handled only when everybody it concerns has been
\* notified, over however many attempts (service.go:91-120).
HandledNotifiesAll ==
  \A i \in handled : \A k \in DOMAIN Recipients[stream[i]] :
    <<Recipients[stream[i]][k], i>> \in inbox
=============================================================================
