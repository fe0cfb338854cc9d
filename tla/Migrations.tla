----------------------------- MODULE Migrations -----------------------------
(***************************************************************************)
(* internal/migrate, run by cmd/migrate and by every replica that boots:   *)
(* a session-level advisory lock, a ledger of applied files, and one       *)
(* transaction for each file that is not in it.                            *)
(*                                                                         *)
(* The statements go through a connection pool.  The lock belongs to the   *)
(* connection that took it: it is lost when that connection closes, and    *)
(* the unlock may be sent on another one.                                  *)
(***************************************************************************)
EXTENDS Naturals, Sequences

CONSTANTS Migrators,   \* processes
          Connections, \* those of each pool
          LastFile,    \* files are 1 .. LastFile, in the order of their names
          Checksums

ASSUME MigrationsAssumption ==
  /\ LastFile \in Nat
  /\ "pending" \notin Checksums

VARIABLES ledger,    \* schema_migrations: what each file was recorded with
          history,   \* history: the files in the order their effects committed
          holder,    \* the connection that has the lock, or Nobody
          build,     \* the files each process was built with: 1 .. n, checksums
          mig        \* what each process is doing

migrationVars == <<ledger, history, holder, build, mig>>

Nobody == <<>>
NotApplied == "pending"

\* Files of a build: some of the first, as they were checked in.
Builds == UNION {[1 .. n -> Checksums] : n \in 0 .. LastFile}

MigSteps == {"off", "lock", "load", "files", "commit", "unlock", "up"}

\* known: the ledger as it was loaded; file: the one being applied; ok: no error.
Mig == [step: MigSteps, known: [1 .. LastFile -> Checksums \cup {NotApplied}],
        file: 0 .. LastFile, ok: BOOLEAN]
NothingKnown == [i \in 1 .. LastFile |-> NotApplied]
MigOff == [step |-> "off", known |-> NothingKnown, file |-> 0, ok |-> TRUE]

MigrationsTypeOK ==
  /\ ledger \in [1 .. LastFile -> Checksums \cup {NotApplied}]
  /\ history \in Seq(1 .. LastFile)
  /\ holder \in {Nobody} \cup (Migrators \X Connections)
  /\ build \in [Migrators -> Builds]
  /\ mig \in [Migrators -> Mig]

MigrationsInit ==
  /\ ledger = NothingKnown
  /\ history = <<>>
  /\ holder = Nobody
  /\ build \in [Migrators -> Builds]
  /\ mig = [p \in Migrators |-> MigOff]

MigAt(p, step) == mig[p].step = step
MigBecomes(p, state) == mig' = [mig EXCEPT ![p] = state]
MigGoesTo(p, step) == MigBecomes(p, [mig[p] EXCEPT !.step = step])

-----------------------------------------------------------------------------
\* Apply: Load has read the files; without any there is nothing to do.
Boot(p) ==
  /\ MigAt(p, "off")
  /\ MigGoesTo(p, IF build[p] = <<>> THEN "up" ELSE "lock")
  /\ UNCHANGED <<ledger, history, holder, build>>

\* pg_advisory_lock, on whatever connection the pool hands out.
TakeLock(p, k) ==
  /\ MigAt(p, "lock")
  /\ holder = Nobody
  /\ holder' = <<p, k>>
  /\ MigGoesTo(p, "load")
  /\ UNCHANGED <<ledger, history, build>>

\* CREATE TABLE IF NOT EXISTS, loadLedger.
LoadLedger(p) ==
  /\ MigAt(p, "load")
  /\ MigBecomes(p, [mig[p] EXCEPT !.step = "files", !.known = ledger])
  /\ UNCHANGED <<ledger, history, holder, build>>

Pending(p) == {i \in DOMAIN build[p] : mig[p].known[i] = NotApplied}
Edited(p) ==
  {i \in DOMAIN build[p] : mig[p].known[i] \notin {NotApplied, build[p][i]}}

\* The first file that is pending or was edited; an edited one ends the run.
NextFile(p) ==
  {i \in Pending(p) \cup Edited(p) : \A j \in Pending(p) \cup Edited(p) : i <= j}

\* BEGIN, the file's statements.
ExecuteFile(p) ==
  /\ MigAt(p, "files")
  /\ \E i \in NextFile(p) \ Edited(p) :
       MigBecomes(p, [mig[p] EXCEPT !.step = "commit", !.file = i])
  /\ UNCHANGED <<ledger, history, holder, build>>

NoMoreFiles(p) ==
  /\ MigAt(p, "files")
  /\ NextFile(p) = {} \/ NextFile(p) \cap Edited(p) # {}
  /\ MigBecomes(p, [mig[p] EXCEPT !.step = "unlock", !.ok = NextFile(p) = {}])
  /\ UNCHANGED <<ledger, history, holder, build>>

\* Fault: versions are not unique in the ledger.
NeverRecorded(i) == FALSE

\* The primary key of schema_migrations.
Recorded(i) == ledger[i] # NotApplied

\* The INSERT and COMMIT; a version that somebody else has recorded meanwhile
\* makes the whole transaction fail, and with it the run.
CommitFile(p) ==
  /\ MigAt(p, "commit")
  /\ LET i == mig[p].file
     IN  IF Recorded(i)
         THEN /\ MigBecomes(p, [mig[p] EXCEPT !.step = "unlock", !.ok = FALSE, !.file = 0])
              /\ UNCHANGED <<ledger, history>>
         ELSE /\ ledger' = [ledger EXCEPT ![i] = build[p][i]]
              /\ history' = Append(history, i)
              /\ MigBecomes(p, [mig[p] EXCEPT !.step = "files", !.file = 0,
                                              !.known[i] = build[p][i]])
  /\ UNCHANGED <<holder, build>>

\* The deferred pg_advisory_unlock does nothing on a connection without the
\* lock.  cmd/migrate closes its pool afterwards, a server keeps it.
Unlock(p, k) ==
  /\ MigAt(p, "unlock")
  /\ holder' = IF holder = <<p, k>> THEN Nobody ELSE holder
  /\ MigGoesTo(p, IF mig[p].ok THEN "up" ELSE "off")
  /\ UNCHANGED <<ledger, history, build>>

\* A connection is recycled or breaks, its session ends and its lock with it.
ConnectionCloses(p, k) ==
  /\ holder = <<p, k>>
  /\ holder' = Nobody
  /\ UNCHANGED <<ledger, history, build, mig>>

\* A statement fails, or the process ends: an open transaction is rolled back,
\* and in the end the pool is closed.
MigratorStops(p) ==
  /\ ~MigAt(p, "off")
  /\ holder' = IF holder # Nobody /\ holder[1] = p THEN Nobody ELSE holder
  /\ MigBecomes(p, MigOff)
  /\ UNCHANGED <<ledger, history, build>>

MigrationStep(p) ==
  \/ Boot(p) \/ LoadLedger(p) \/ ExecuteFile(p) \/ NoMoreFiles(p)
  \/ CommitFile(p) \/ MigratorStops(p)
  \/ \E k \in Connections : TakeLock(p, k) \/ Unlock(p, k) \/ ConnectionCloses(p, k)

MigrationsNext == \E p \in Migrators : MigrationStep(p)

MigrationsSpec == MigrationsInit /\ [][MigrationsNext]_migrationVars

-----------------------------------------------------------------------------
\* "applies the numbered SQL migrations in order, exactly once" (migrate.go:1):
\* also when the lock has gone with its connection and two processes work from
\* ledgers loaded at different times; and a process that is up agrees with the
\* ledger on every file it was built with (migrate.go:2-3).
MigrationsRunOnce ==
  /\ \A n \in DOMAIN history : history[n] = n
  /\ \A i \in 1 .. LastFile : ledger[i] # NotApplied <=> i <= Len(history)
  /\ \A p \in Migrators :
       MigAt(p, "up") => \A i \in DOMAIN build[p] : ledger[i] = build[p][i]
=============================================================================
