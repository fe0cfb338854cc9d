---------------------------- MODULE StreamQueue -----------------------------
(***************************************************************************)
(* internal/platform/queue: one Redis stream and the workers of one        *)
(* consumer group.  Entries are numbered in the order of their XADD.       *)
(*                                                                         *)
(* An entry that has been read stays pending until it is acknowledged; the *)
(* reclaimer hands an entry that has been pending for RetryDelay to a      *)
(* worker once more, whether or not another one is still busy with it.     *)
(* What the handler does between Count and its end is the business of the  *)
(* module that extends this one.                                           *)
(***************************************************************************)
EXTENDS Naturals, Sequences, FiniteSets

CONSTANTS Messages,          \* what an entry may carry
          Workers,           \* goroutines of all the consumers of the group
          MaxLen,            \* the length a stream is trimmed to
          HandlerAttempts,   \* ConsumerConfig.MaxAttempts
          MaxEntries,        \* bound: XADDs
          MaxFaults          \* bound: failing Redis commands and crashes

ASSUME QueueAssumption ==
  /\ IsFiniteSet(Workers)
  /\ MaxLen \in Nat \ {0}
  /\ HandlerAttempts \in Nat \ {0}
  /\ MaxEntries \in Nat
  /\ MaxFaults \in Nat

VARIABLES stream,    \* every entry ever added
          trimmed,   \* the first so many are no longer stored
          state,     \* state[i]: new, pending or acked
          done,      \* the entries whose dedupe key is set
          tries,     \* the attempts counter of an entry
          dead,      \* the entries copied to the dead-letter stream
          at,        \* at[w]: what worker w does next ..
          entry,     \* .. with this entry
          attempt,   \* .. at this attempt
          faults,
          handled,   \* history: the entries whose handler has succeeded
          unwritten  \* history: those whose dead letter could not be written

redis == <<stream, trimmed, state, done, tries, dead>>
worker == <<at, entry, attempt>>
queueVars == <<redis, worker, faults, handled, unwritten>>

Entries == 1 .. MaxEntries

\* An entry is handled at most so often before it is acknowledged: the workers
\* that have it when its attempts run out, and those that died with it, come on
\* top of the attempts (queue.go:228-247).
Attempts == 0 .. HandlerAttempts - 1 + Cardinality(Workers) + MaxFaults

QueueTypeOK ==
  /\ stream \in Seq(Messages) /\ Len(stream) <= MaxEntries
  /\ trimmed \in 0 .. MaxEntries
  /\ state \in [Entries -> {"new", "pending", "acked"}]
  /\ done \subseteq Entries
  /\ tries \in [Entries -> Attempts]
  /\ dead \subseteq Entries
  /\ at \in [Workers -> {"idle", "exists", "count", "handle", "remember",
                        "deadLetter", "ack"}]
  /\ entry \in [Workers -> Entries \cup {0}]
  /\ attempt \in [Workers -> Attempts]
  /\ faults \in 0 .. MaxFaults
  /\ handled \subseteq Entries
  /\ unwritten \subseteq Entries

QueueInit ==
  /\ stream = <<>>
  /\ trimmed = 0
  /\ state = [i \in Entries |-> "new"]
  /\ done = {}
  /\ tries = [i \in Entries |-> 0]
  /\ dead = {}
  /\ at = [w \in Workers |-> "idle"]
  /\ entry = [w \in Workers |-> 0]
  /\ attempt = [w \in Workers |-> 0]
  /\ faults = 0
  /\ handled = {}
  /\ unwritten = {}

-----------------------------------------------------------------------------
Goto(w, step) == at' = [at EXCEPT ![w] = step]

Take(w, i) ==
  /\ Goto(w, "exists")
  /\ entry' = [entry EXCEPT ![w] = i]
  /\ UNCHANGED attempt

Rest(w) ==
  /\ Goto(w, "idle")
  /\ entry' = [entry EXCEPT ![w] = 0]
  /\ attempt' = [attempt EXCEPT ![w] = 0]

\* A Redis command succeeds, or fails as long as the bound allows it.
Either(succeeds, fails) ==
  \/ succeeds /\ UNCHANGED faults
  \/ faults < MaxFaults /\ fails /\ faults' = faults + 1

\* XADD with an approximate MAXLEN: trimming may leave more than MaxLen.
XAdd(m) ==
  /\ Len(stream) < MaxEntries
  /\ stream' = Append(stream, m)
  /\ \E n \in trimmed .. Len(stream) :
       /\ n = trimmed \/ Len(stream) + 1 - n >= MaxLen
       /\ trimmed' = n
  /\ UNCHANGED <<state, done, tries, dead, worker, faults, handled, unwritten>>

Stored == trimmed + 1 .. Len(stream)

\* XREADGROUP ">": the first entry nobody in the group has been given.
ReadNew(w) ==
  /\ at[w] = "idle"
  /\ \E i \in Stored :
       /\ state[i] = "new"
       /\ \A j \in Stored : j < i => state[j] # "new"
       /\ state' = [state EXCEPT ![i] = "pending"]
       /\ Take(w, i)
  /\ UNCHANGED <<stream, trimmed, done, tries, dead, faults, handled, unwritten>>

\* Fault: the scan starts behind the oldest entry instead of at it.
ReclaimBehindOldest(w, i) ==
  /\ at[w] = "idle"
  /\ i \in Stored \ {trimmed + 1}
  /\ state[i] = "pending"
  /\ Take(w, i)
  /\ UNCHANGED <<redis, faults, handled, unwritten>>

\* XAUTOCLAIM: the entry has been idle for RetryDelay.
Reclaim(w, i) ==
  /\ at[w] = "idle"
  /\ i \in Stored
  /\ state[i] = "pending"
  /\ Take(w, i)
  /\ UNCHANGED <<redis, faults, handled, unwritten>>

-----------------------------------------------------------------------------
\* EXISTS on the dedupe key of the event: what has been done is acknowledged.
Exists(w) ==
  /\ at[w] = "exists"
  /\ Either(Goto(w, IF entry[w] \in done THEN "ack" ELSE "count"), Goto(w, "count"))
  /\ UNCHANGED <<redis, entry, attempt, handled, unwritten>>

\* INCR of the attempts counter; when it fails, the handler runs at attempt 0.
Count(w) ==
  /\ at[w] = "count"
  /\ Either(/\ tries' = [tries EXCEPT ![entry[w]] = @ + 1]
            /\ attempt' = [attempt EXCEPT ![w] = tries[entry[w]] + 1],
            UNCHANGED <<tries, attempt>>)
  /\ Goto(w, "handle")
  /\ UNCHANGED <<stream, trimmed, state, done, dead, entry, handled, unwritten>>

\* The number of the attempt has served its purpose.
Conclude(w, step) ==
  /\ Goto(w, step)
  /\ attempt' = [attempt EXCEPT ![w] = 0]
  /\ UNCHANGED entry

HandlerSucceeds(w) ==
  /\ at[w] = "handle"
  /\ handled' = handled \cup {entry[w]}
  /\ Conclude(w, "remember")
  /\ UNCHANGED <<redis, faults, unwritten>>

\* Fault: the limit is not looked at.
NeverOutOfAttempts(w) == FALSE

OutOfAttempts(w) == attempt[w] >= HandlerAttempts

\* A failed entry stays pending, until its attempts are used up.
HandlerFails(w) ==
  /\ at[w] = "handle"
  /\ IF OutOfAttempts(w) THEN Conclude(w, "deadLetter") ELSE Rest(w)
  /\ UNCHANGED <<redis, faults, handled, unwritten>>

\* Fault: an entry out of attempts is acknowledged and not copied.
AcksWithoutCopy(w) ==
  /\ at[w] = "deadLetter"
  /\ Goto(w, "ack")
  /\ UNCHANGED <<redis, entry, attempt, faults, handled, unwritten>>

\* XADD to the dead-letter stream.  When it fails that is logged, and the entry
\* is acknowledged all the same.
DeadLetter(w) ==
  /\ at[w] = "deadLetter"
  /\ Either(dead' = dead \cup {entry[w]} /\ UNCHANGED unwritten,
            unwritten' = unwritten \cup {entry[w]} /\ UNCHANGED dead)
  /\ Goto(w, "ack")
  /\ UNCHANGED <<stream, trimmed, state, done, tries, entry, attempt, handled>>

\* SET of the dedupe key; its error is ignored.
Remember(w) ==
  /\ at[w] = "remember"
  /\ Either(done' = done \cup {entry[w]}, UNCHANGED done)
  /\ Goto(w, "ack")
  /\ UNCHANGED <<stream, trimmed, state, tries, dead, entry, attempt, handled, unwritten>>

\* XACK, and DEL of the attempts counter; each may fail without the other.
Ack(w) ==
  /\ at[w] = "ack"
  /\ \E failed \in SUBSET {"XACK", "DEL"} :
       /\ faults' = faults + Cardinality(failed)
       /\ faults' <= MaxFaults
       /\ state' = IF "XACK" \in failed THEN state
                   ELSE [state EXCEPT ![entry[w]] = "acked"]
       /\ tries' = IF "DEL" \in failed THEN tries
                   ELSE [tries EXCEPT ![entry[w]] = 0]
  /\ Rest(w)
  /\ UNCHANGED <<stream, trimmed, done, dead, handled, unwritten>>

\* The consumer dies with the entry in hand, read or about to be acknowledged.
Crash(w) ==
  /\ at[w] # "idle"
  /\ faults < MaxFaults
  /\ faults' = faults + 1
  /\ Rest(w)
  /\ UNCHANGED <<redis, handled, unwritten>>

-----------------------------------------------------------------------------
\* What a worker does around its handler.
Process(w) == Exists(w) \/ Count(w) \/ DeadLetter(w) \/ Remember(w) \/ Ack(w)

\* Nothing leaves the queue by being forgotten: an acknowledged entry has been
\* handled, or copied to the dead-letter stream, or its failing copy was
\* logged, whichever worker acknowledged it (queue.go:238-255).
NothingLeavesUnhandled ==
  \A i \in Entries : state[i] = "acked" => i \in handled \cup dead \cup unwritten

\* An entry that is not trimmed is acknowledged in the end, although handlers
\* fail and workers die: the reclaimer hands it out again until its attempts
\* are used up (queue.go:183-217, 243-247).
EntriesLeave ==
  \A i \in Entries : i \in Stored ~> (state[i] = "acked" \/ i \notin Stored)
=============================================================================
