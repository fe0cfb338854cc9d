------------------------------- MODULE Inbox -------------------------------
(***************************************************************************)
(* One user's notifications and the cached count of the unread ones: the   *)
(* rows are in Postgres, the count is a Redis key that expires, and each   *)
(* call changes the rows first and then, in a second step that may fail or *)
(* never come, the count.                                                  *)
(***************************************************************************)
EXTENDS Integers, FiniteSets

CONSTANTS Notes,       \* the notifications that may ever arrive
          InboxCalls   \* requests and queue workers at work at once

ASSUME InboxAssumption == IsFiniteSet(Notes) /\ IsFiniteSet(InboxCalls)

VARIABLES notes,       \* notes[n]: "absent", "unread" or "read"
          count,       \* the cached count, or Uncached
          expiring,    \* does the key have a time to live
          inbox,       \* what each call is doing
          raced        \* history: the count was written by a call that overlapped
                       \* another, met its floor, or a command on it was lost

inboxVars == <<notes, count, expiring, inbox, raced>>

Uncached == -1

InboxSteps == {"idle", "increment", "decrement", "reset", "miss", "fill"}

\* n is what a fill has counted.  clean (history): nothing that would make the
\* value to be written wrong has happened since the rows were read or marked.
InboxCall == [step: InboxSteps, n: 0 .. Cardinality(Notes), clean: BOOLEAN]
IdleInboxCall == [step |-> "idle", n |-> 0, clean |-> FALSE]

InboxTypeOK ==
  /\ notes \in [Notes -> {"absent", "unread", "read"}]
  /\ count \in {Uncached} \cup Nat
  /\ expiring \in BOOLEAN /\ raced \in BOOLEAN
  /\ inbox \in [InboxCalls -> InboxCall]

InboxInit ==
  /\ notes = [n \in Notes |-> "absent"]
  /\ count = Uncached
  /\ expiring = FALSE /\ raced = FALSE
  /\ inbox = [c \in InboxCalls |-> IdleInboxCall]

Unread == {n \in Notes : notes[n] = "unread"}
InboxAt(c, step) == inbox[c].step = step
InStep(step) == {c \in InboxCalls : InboxAt(c, step)}
EndsInbox(c) == inbox' = [inbox EXCEPT ![c] = IdleInboxCall]

\* The counts that are still to be corrected by one.
Corrections == InStep("increment") \cup InStep("decrement")

\* c has changed the rows and goes on to the count: what others have counted or
\* are about to reset is out of date.
ChangesRows(c, step, clean) ==
  inbox' = [d \in InboxCalls |->
              IF d = c THEN [step |-> step, n |-> 0, clean |-> clean]
                       ELSE [inbox[d] EXCEPT !.clean = FALSE]]

-----------------------------------------------------------------------------
\* insert: a row for the event; a repeated event makes none and goes no further.
Arrive(c, n) ==
  /\ InboxAt(c, "idle")
  /\ notes[n] = "absent"
  /\ notes' = [notes EXCEPT ![n] = "unread"]
  /\ ChangesRows(c, "increment", FALSE)
  /\ UNCHANGED <<count, expiring, raced>>

\* Fault: a plain INCR, which makes the key when there is none.
IncrementAlways(c) ==
  /\ InboxAt(c, "increment")
  /\ count' = IF count = Uncached THEN 1 ELSE count + 1
  /\ EndsInbox(c)
  /\ UNCHANGED <<notes, expiring, raced>>

\* incrIfCached
Increment(c) ==
  /\ InboxAt(c, "increment")
  /\ count' = IF count = Uncached THEN Uncached ELSE count + 1
  /\ EndsInbox(c)
  /\ UNCHANGED <<notes, expiring, raced>>

\* markRead: only a row that was unread goes on to the count.
ReadOne(c, n) ==
  /\ InboxAt(c, "idle")
  /\ notes[n] = "unread"
  /\ notes' = [notes EXCEPT ![n] = "read"]
  /\ ChangesRows(c, "decrement", FALSE)
  /\ UNCHANGED <<count, expiring, raced>>

\* decrIfCached: below zero the key is SET to zero, which also takes away its
\* time to live.  A read that overtakes the increment of its row comes there.
Decrement(c) ==
  /\ InboxAt(c, "decrement")
  /\ count' = IF count <= 0 THEN count ELSE count - 1
  /\ expiring' = (expiring /\ count # 0)
  /\ raced' = (raced \/ count = 0)
  /\ EndsInbox(c)
  /\ UNCHANGED notes

\* markAllRead, then SET 0.
ReadAll(c) ==
  /\ InboxAt(c, "idle")
  /\ notes' = [n \in Notes |-> IF notes[n] = "unread" THEN "read" ELSE notes[n]]
  /\ IF Unread = {}
     THEN inbox' = [inbox EXCEPT ![c] = [step |-> "reset", n |-> 0,
                                         clean |-> Corrections = {}]]
     ELSE ChangesRows(c, "reset", Corrections = {})
  /\ UNCHANGED <<count, expiring, raced>>

Reset(c) ==
  /\ InboxAt(c, "reset")
  /\ count' = 0
  /\ expiring' = TRUE
  /\ raced' = ~inbox[c].clean
  /\ EndsInbox(c)
  /\ UNCHANGED notes

\* UnreadCount: a hit is answered as it is, a miss goes to Postgres.  A Redis
\* that does not answer counts as a miss.
Miss(c) ==
  /\ InboxAt(c, "idle")
  /\ inbox' = [inbox EXCEPT ![c].step = "miss"]
  /\ UNCHANGED <<notes, count, expiring, raced>>

CountUnread(c) ==
  /\ InboxAt(c, "miss")
  /\ inbox' = [inbox EXCEPT ![c] = [step |-> "fill", n |-> Cardinality(Unread),
                                    clean |-> Corrections = {}]]
  /\ UNCHANGED <<notes, count, expiring, raced>>

Fill(c) ==
  /\ InboxAt(c, "fill")
  /\ count' = inbox[c].n
  /\ expiring' = TRUE
  /\ raced' = ~inbox[c].clean
  /\ EndsInbox(c)
  /\ UNCHANGED notes

\* The command is lost, or the process ends before it.  Its error is dropped; a
\* fill that is lost changes nothing.
LosesCommand(c) ==
  /\ ~InboxAt(c, "idle")
  /\ raced' = (raced \/ ~(InboxAt(c, "miss") \/ InboxAt(c, "fill")))
  /\ EndsInbox(c)
  /\ UNCHANGED <<notes, count, expiring>>

Expire ==
  /\ count # Uncached
  /\ expiring
  /\ count' = Uncached
  /\ expiring' = FALSE
  /\ raced' = FALSE
  /\ UNCHANGED <<notes, inbox>>

InboxStep(c) ==
  \/ \E n \in Notes : Arrive(c, n) \/ ReadOne(c, n)
  \/ Increment(c) \/ Decrement(c)
  \/ ReadAll(c) \/ Reset(c)
  \/ Miss(c) \/ CountUnread(c) \/ Fill(c) \/ LosesCommand(c)

InboxNext == Expire \/ \E c \in InboxCalls : InboxStep(c)

InboxSpec == InboxInit /\ [][InboxNext]_inboxVars

-----------------------------------------------------------------------------
\* "Postgres remains the source of truth" (counters.go:14-15): a cached count
\* is the number of unread rows but for the corrections on their way, unless it
\* was filled or reset across somebody else's change, met its floor, or a command
\* was lost.
CountIsRightUnlessRaced ==
  (count # Uncached /\ ~raced /\ InStep("reset") = {}) =>
     count = Cardinality(Unread) - Cardinality(InStep("increment"))
               + Cardinality(InStep("decrement"))
=============================================================================
