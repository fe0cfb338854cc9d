------------------------------- MODULE Traits -------------------------------
(***************************************************************************)
(* internal/personality over internal/cache: one user's trait vector in    *)
(* Postgres, replaced by every submission of the questionnaire, and the    *)
(* copy of it that discovery reads through a cache with a time to live.    *)
(*                                                                         *)
(* Cache commands may fail unheeded, and a process may end between two     *)
(* statements.  Scoring is in Compatibility.                               *)
(***************************************************************************)
EXTENDS Naturals

CONSTANTS TraitCalls,      \* requests at work at once
          RetakeInterval,  \* 0: retakes are unrestricted
          MaxRetakes,      \* bound: submissions stored
          LastTick         \* bound: the clock

ASSUME TraitsAssumption ==
  RetakeInterval \in Nat /\ MaxRetakes \in Nat /\ LastTick \in Nat

VARIABLES row,     \* the stored vector: its version, whether it is complete,
                   \* and when it was assessed; version 0 is no row
          entry,   \* the cached version, 0 for none, and whether it is in time
          taking,  \* what each call is doing
          tick,    \* the clock
          stale    \* history: the entry was set from a row read before an
                   \* upsert, or an invalidation failed

traitVars == <<row, entry, taking, tick, stale>>

NoEntry == [version |-> 0, inTime |-> FALSE]
IdleTaking == [step |-> "idle", version |-> 0, at |-> 0, alone |-> FALSE]

\* alone (history): no vector has been stored since the call read the row.
TakingStates ==
  [step: {"idle", "upsert", "invalidate", "expired", "miss", "set"},
   version: 0 .. MaxRetakes + 1, at: 0 .. LastTick, alone: BOOLEAN]

TraitsTypeOK ==
  /\ row \in [version: 0 .. MaxRetakes + 1, usable: BOOLEAN, at: 0 .. LastTick]
  /\ entry \in [version: 0 .. MaxRetakes + 1, inTime: BOOLEAN]
  /\ taking \in [TraitCalls -> TakingStates]
  /\ tick \in 0 .. LastTick
  /\ stale \in BOOLEAN

\* No row yet, or one seeded without a complete vector (version 1).
TraitsInit ==
  /\ row \in {[version |-> v, usable |-> FALSE, at |-> 0] : v \in {0, 1}}
  /\ entry = NoEntry
  /\ taking = [c \in TraitCalls |-> IdleTaking]
  /\ tick = 0
  /\ stale = FALSE

TakingAt(c, step) == taking[c].step = step
TakingBecomes(c, state) == taking' = [taking EXCEPT ![c] = state]

TraitTick ==
  /\ tick < LastTick
  /\ tick' = tick + 1
  /\ UNCHANGED <<row, entry, taking, stale>>

-----------------------------------------------------------------------------
\* Fault: the window is not looked at.
NoWindow == TRUE

\* LastAssessedAt: the time of any row, of an incomplete one too.
Assessed == row.version # 0

\* nextRetakeAt: no window before the first assessment, nor with interval 0.
MayRetake ==
  ~Assessed \/ RetakeInterval = 0 \/ row.at + RetakeInterval <= tick

\* Submit: the window is checked, then the answers are scored.
CheckRetake(c) ==
  /\ TakingAt(c, "idle")
  /\ MayRetake
  /\ TakingBecomes(c, [IdleTaking EXCEPT !.step = "upsert", !.at = tick,
                                         !.alone = TRUE])
  /\ UNCHANGED <<row, entry, tick, stale>>

\* Upsert: the last one stands, with the time its call had looked at.
Upsert(c) ==
  /\ TakingAt(c, "upsert")
  /\ row.version <= MaxRetakes
  /\ row' = [version |-> row.version + 1, usable |-> TRUE, at |-> taking[c].at]
  /\ taking' = [d \in TraitCalls |->
                  IF d = c THEN [IdleTaking EXCEPT !.step = "invalidate"]
                           ELSE [taking[d] EXCEPT !.alone = FALSE]]
  /\ UNCHANGED <<entry, tick, stale>>

Invalidate(c) ==
  /\ TakingAt(c, "invalidate")
  /\ entry' = NoEntry
  /\ stale' = FALSE
  /\ TakingBecomes(c, IdleTaking)
  /\ UNCHANGED <<row, tick>>

-----------------------------------------------------------------------------
\* Traits: a hit in time is answered and changes nothing; anything else, an
\* unanswered command too, goes on to Postgres.
GetEntry(c) ==
  /\ TakingAt(c, "idle")
  /\ TakingBecomes(c, [IdleTaking EXCEPT !.step =
                         IF entry # NoEntry /\ ~entry.inTime THEN "expired" ELSE "miss"])
  /\ UNCHANGED <<row, entry, tick, stale>>

\* The write lock is taken anew, so the entry is looked at again.
DropExpired(c) ==
  /\ TakingAt(c, "expired")
  /\ entry' = IF entry.inTime THEN entry ELSE NoEntry
  /\ stale' = (stale /\ entry.inTime)
  /\ TakingBecomes(c, [IdleTaking EXCEPT !.step = "miss"])
  /\ UNCHANGED <<row, tick>>

\* An incomplete vector counts as none, and is not cached.
ReadTraits(c) ==
  /\ TakingAt(c, "miss")
  /\ TakingBecomes(c, IF row.usable
                      THEN [IdleTaking EXCEPT !.step = "set", !.version = row.version,
                                              !.alone = TRUE]
                      ELSE IdleTaking)
  /\ UNCHANGED <<row, entry, tick, stale>>

SetEntry(c) ==
  /\ TakingAt(c, "set")
  /\ entry' = [version |-> taking[c].version, inTime |-> TRUE]
  /\ stale' = ~taking[c].alone
  /\ TakingBecomes(c, IdleTaking)
  /\ UNCHANGED <<row, tick>>

\* The call fails or its process ends; its last command is not carried out.
TakingStops(c) ==
  /\ ~TakingAt(c, "idle")
  /\ stale' = (stale \/ (TakingAt(c, "invalidate") /\ entry # NoEntry))
  /\ TakingBecomes(c, IdleTaking)
  /\ UNCHANGED <<row, entry, tick>>

\* The time to live runs out ...
EntryExpires ==
  /\ entry.inTime
  /\ entry' = [entry EXCEPT !.inTime = FALSE]
  /\ UNCHANGED <<row, taking, tick, stale>>

\* ... and the janitor, an eviction for another user's entry, or Redis drops it.
EntryDropped ==
  /\ entry # NoEntry
  /\ entry' = NoEntry
  /\ stale' = FALSE
  /\ UNCHANGED <<row, taking, tick>>

TraitStep(c) ==
  \/ CheckRetake(c) \/ Upsert(c) \/ Invalidate(c)
  \/ GetEntry(c) \/ DropExpired(c) \/ ReadTraits(c) \/ SetEntry(c)
  \/ TakingStops(c)

TraitsNext ==
  TraitTick \/ EntryExpires \/ EntryDropped \/ \E c \in TraitCalls : TraitStep(c)

TraitsSpec == TraitsInit /\ [][TraitsNext]_traitVars

-----------------------------------------------------------------------------
\* "a retake is reflected in the very next discovery request rather than after
\* the TTL" (service.go:109-110), once its submission has invalidated the entry
\* and but for readers who took the old vector before it was replaced.
TraitsAreCurrentUnlessRaced ==
  (entry # NoEntry /\ ~stale /\ \A c \in TraitCalls : ~TakingAt(c, "invalidate"))
    => entry.version = row.version

\* A vector is not replaced within RetakeInterval of its assessment, except by
\* a submission that was checked before that vector was stored.
RetakesAreSpaced ==
  [][\A c \in TraitCalls :
       (row'.version # row.version /\ row.version # 0 /\ TakingAt(c, "upsert")
          /\ taking'[c].step = "invalidate" /\ taking[c].alone)
         => row'.at >= row.at + RetakeInterval]_traitVars
=============================================================================
