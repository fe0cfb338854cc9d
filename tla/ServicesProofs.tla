--------------------------- MODULE ServicesProofs ---------------------------
(***************************************************************************)
(* The platform's services, the limiter and the migrations, and all the    *)
(* components side by side.                                                *)
(***************************************************************************)
EXTENDS MCServices, TalkProofs, MemberProofs

-----------------------------------------------------------------------------
\* Migrations: the files are applied once each, in order, by one process at a time.

\* What a process loaded from the ledger stays there.
KnowsTheLedger(p) ==
  \A i \in 1 .. LastFile :
    mig[p].known[i] # NotApplied => ledger[i] = mig[p].known[i]

\* The file it is at is the first that it does not know.
AppliesTheFirst(p) ==
  MigAt(p, "commit") =>
    /\ mig[p].file \in DOMAIN build[p]
    /\ mig[p].known[mig[p].file] = NotApplied
    /\ \A j \in 1 .. LastFile : j < mig[p].file => mig[p].known[j] # NotApplied

\* A run that ends well has seen all its files in the ledger.
EndsWithAll(p) ==
  (MigAt(p, "up") \/ (MigAt(p, "unlock") /\ mig[p].ok)) =>
    \A i \in DOMAIN build[p] : mig[p].known[i] = build[p][i]

ProcessInv(p) == KnowsTheLedger(p) /\ AppliesTheFirst(p) /\ EndsWithAll(p)

LedgerInv ==
  /\ \A n \in DOMAIN history : history[n] = n
  /\ \A i \in 1 .. LastFile : ledger[i] # NotApplied <=> i <= Len(history)

MigrationsInv ==
  /\ MigrationsTypeOK
  /\ LedgerInv
  /\ \A p \in Migrators : ProcessInv(p)

-----------------------------------------------------------------------------
\* The files of a build are some of the first LastFile.
LEMMA BuildFiles ==
  ASSUME MigrationsTypeOK, NEW p \in Migrators
  PROVE  /\ DOMAIN build[p] \subseteq 1 .. LastFile
         /\ \A i \in DOMAIN build[p] : build[p][i] \in Checksums
         /\ \A i \in DOMAIN build[p] : \A j \in 1 .. LastFile :
              j < i => j \in DOMAIN build[p]
<1>0. build[p] \in UNION {[1 .. n -> Checksums] : n \in 0 .. LastFile}
  <2>1. build \in [Migrators -> Builds]
    BY DEF MigrationsTypeOK
  <2>2. build[p] \in Builds
    BY ONLY <2>1, p \in Migrators
  <2> QED BY ONLY <2>2 DEF Builds
<1>1. PICK n \in 0 .. LastFile : build[p] \in [1 .. n -> Checksums]
  BY ONLY <1>0, Zenon
<1>2. DOMAIN build[p] = 1 .. n
  BY ONLY <1>1
<1>3. \A i \in DOMAIN build[p] : build[p][i] \in Checksums
  BY ONLY <1>1
<1> QED BY <1>2, <1>3, MigrationsAssumption

\* What is left of a step that only moves one process: the rest of the
\* invariant follows from what holds of that process afterwards.
LEMMA ProcessMoves ==
  ASSUME MigrationsInv, NEW p \in Migrators, NEW s \in Mig, MigBecomes(p, s),
         UNCHANGED <<ledger, history, build>>,
         holder' \in {Nobody} \cup (Migrators \X Connections),
         ProcessInv(p)'
  PROVE  MigrationsInv'
<1>1. /\ mig' \in [Migrators -> Mig] /\ mig'[p] = s
      /\ \A q \in Migrators \ {p} : mig'[q] = mig[q]
  BY DEF MigrationsInv, MigrationsTypeOK, MigBecomes
<1>2. MigrationsTypeOK'
  BY <1>1 DEF MigrationsInv, MigrationsTypeOK
<1>3. LedgerInv'
  BY DEF MigrationsInv, LedgerInv
<1>4. ASSUME NEW q \in Migrators, q # p
      PROVE  ProcessInv(q)'
  BY <1>1, <1>4 DEF MigrationsInv, ProcessInv, KnowsTheLedger, AppliesTheFirst,
     EndsWithAll, MigAt
<1> QED BY <1>2, <1>3, <1>4 DEF MigrationsInv

\* A step that keeps what the process knows and goes somewhere where nothing
\* more is asked of it.
LEMMA ProcessGoes ==
  ASSUME MigrationsInv, NEW p \in Migrators, NEW step \in {"off", "lock", "load"},
         MigGoesTo(p, step), UNCHANGED <<ledger, history, build>>,
         holder' \in {Nobody} \cup (Migrators \X Connections)
  PROVE  MigrationsInv'
<1> DEFINE s == [step |-> step, known |-> mig[p].known, file |-> mig[p].file, ok |-> mig[p].ok]
<1>1. mig[p] \in Mig
  BY DEF MigrationsInv, MigrationsTypeOK
<1>2. s \in Mig /\ [mig[p] EXCEPT !.step = step] = s
  BY <1>1 DEF Mig, MigSteps
<1>3. MigBecomes(p, s)
  BY <1>2 DEF MigGoesTo
<1>4. mig'[p] = s
  BY <1>3 DEF MigBecomes, MigrationsInv, MigrationsTypeOK
<1>5. ProcessInv(p)'
  BY <1>4 DEF ProcessInv, KnowsTheLedger, AppliesTheFirst, EndsWithAll, MigAt, MigrationsInv
<1> QED BY <1>2, <1>3, <1>5, ProcessMoves

-----------------------------------------------------------------------------
LEMMA BootInv ==
  ASSUME MigrationsInv, NEW p \in Migrators, Boot(p)
  PROVE  MigrationsInv'
<1>1. UNCHANGED <<ledger, history, holder, build>>
      /\ holder \in {Nobody} \cup (Migrators \X Connections)
  BY DEF Boot, MigrationsInv, MigrationsTypeOK
<1>2. CASE build[p] # <<>>
  BY <1>1, <1>2, ProcessGoes DEF Boot
<1>3. CASE build[p] = <<>>
  <2> DEFINE s == [step |-> "up", known |-> mig[p].known, file |-> mig[p].file, ok |-> mig[p].ok]
  <2>1. mig[p] \in Mig
    BY DEF MigrationsInv, MigrationsTypeOK
  <2>2. s \in Mig /\ [mig[p] EXCEPT !.step = "up"] = s
    BY <2>1 DEF Mig, MigSteps
  <2>3. MigBecomes(p, s)
    BY <1>3, <2>2 DEF MigGoesTo, Boot
  <2>4. mig'[p] = s
    BY <2>3 DEF MigBecomes, MigrationsInv, MigrationsTypeOK
  <2>5. DOMAIN build[p] = {}
    BY <1>3
  <2>6. ProcessInv(p)'
    BY <1>1, <2>4, <2>5 DEF ProcessInv, KnowsTheLedger, AppliesTheFirst, EndsWithAll,
       MigAt, MigrationsInv
  <2> QED BY <1>1, <2>2, <2>3, <2>6, ProcessMoves
<1> QED BY <1>2, <1>3

LEMMA TakeLockInv ==
  ASSUME MigrationsInv, NEW p \in Migrators, NEW k \in Connections, TakeLock(p, k)
  PROVE  MigrationsInv'
BY ProcessGoes DEF TakeLock

LEMMA LoadLedgerInv ==
  ASSUME MigrationsInv, NEW p \in Migrators, LoadLedger(p)
  PROVE  MigrationsInv'
<1> DEFINE s == [mig[p] EXCEPT !.step = "files", !.known = ledger]
<1>1. mig[p] \in Mig /\ ledger \in [1 .. LastFile -> Checksums \cup {NotApplied}]
      /\ holder \in {Nobody} \cup (Migrators \X Connections)
  BY DEF MigrationsInv, MigrationsTypeOK
<1>2. s \in Mig /\ s.step = "files" /\ s.known = ledger
  BY <1>1 DEF Mig, MigSteps
<1>3. MigBecomes(p, s) /\ UNCHANGED <<ledger, history, holder, build>>
  BY DEF LoadLedger
<1> HIDE DEF s
<1>4. mig'[p] = s
  BY <1>2, <1>3 DEF MigBecomes, MigrationsInv, MigrationsTypeOK
<1>5. ProcessInv(p)'
  BY <1>2, <1>3, <1>4 DEF ProcessInv, KnowsTheLedger, AppliesTheFirst, EndsWithAll, MigAt
<1> QED BY <1>1, <1>2, <1>3, <1>5, ProcessMoves

\* Every file before the first that is pending or edited is known as checked in.
LEMMA ExecuteFileInv ==
  ASSUME MigrationsInv, NEW p \in Migrators, ExecuteFile(p)
  PROVE  MigrationsInv'
<1>1. PICK i \in NextFile(p) \ Edited(p) :
        MigBecomes(p, [mig[p] EXCEPT !.step = "commit", !.file = i])
  BY DEF ExecuteFile
<1> DEFINE s == [mig[p] EXCEPT !.step = "commit", !.file = i]
<1>2. mig[p] \in Mig /\ MigrationsTypeOK
      /\ holder \in {Nobody} \cup (Migrators \X Connections)
  BY DEF MigrationsInv, MigrationsTypeOK
<1>3. /\ i \in DOMAIN build[p] /\ i \in 1 .. LastFile /\ mig[p].known[i] = NotApplied
      /\ \A j \in Pending(p) : i <= j
  BY <1>1, <1>2, BuildFiles DEF NextFile, Pending, Edited
<1>4. \A j \in 1 .. LastFile : j < i => mig[p].known[j] # NotApplied
  <2> SUFFICES ASSUME NEW j \in 1 .. LastFile, j < i, mig[p].known[j] = NotApplied
               PROVE  FALSE
    OBVIOUS
  <2>1. j \in Pending(p)
    BY <1>2, <1>3, BuildFiles DEF Pending
  <2> QED BY <2>1, <1>3, MigrationsAssumption
<1>5. s \in Mig /\ s.step = "commit" /\ s.file = i /\ s.known = mig[p].known
  <2>1. i \in 0 .. LastFile
    BY <1>3, MigrationsAssumption
  <2> QED BY <1>2, <2>1 DEF Mig, MigSteps
<1>6. MigBecomes(p, s) /\ UNCHANGED <<ledger, history, holder, build>>
  BY <1>1 DEF ExecuteFile
<1> HIDE DEF s
<1>7. mig'[p] = s
  BY <1>5, <1>6 DEF MigBecomes, MigrationsInv, MigrationsTypeOK
<1>8. ProcessInv(p)'
  BY <1>3, <1>4, <1>5, <1>6, <1>7 DEF ProcessInv, KnowsTheLedger, AppliesTheFirst,
     EndsWithAll, MigAt, MigrationsInv
<1> QED BY <1>2, <1>5, <1>6, <1>8, ProcessMoves

\* Without a first file there is none that is pending or edited.
LEMMA NoMoreFilesInv ==
  ASSUME MigrationsInv, NEW p \in Migrators, NoMoreFiles(p)
  PROVE  MigrationsInv'
<1> DEFINE done == NextFile(p) = {}
           s == [mig[p] EXCEPT !.step = "unlock", !.ok = done]
<1>1. mig[p] \in Mig /\ MigrationsTypeOK
      /\ holder \in {Nobody} \cup (Migrators \X Connections)
  BY DEF MigrationsInv, MigrationsTypeOK
<1>3. MigBecomes(p, s) /\ UNCHANGED <<ledger, history, holder, build>>
  BY Zenon DEF NoMoreFiles
<1>0. done \in BOOLEAN
  OBVIOUS
<1> HIDE DEF done
<1>2. s \in Mig /\ s.step = "unlock" /\ s.known = mig[p].known /\ s.ok = done
  BY <1>0, <1>1 DEF Mig, MigSteps
<1> HIDE DEF s
<1>4. mig'[p] = s
  BY <1>3 DEF MigBecomes, MigrationsInv, MigrationsTypeOK
<1>5. ASSUME done
      PROVE  \A i \in DOMAIN build[p] : mig[p].known[i] = build[p][i]
  <2>1. Pending(p) \cup Edited(p) \subseteq Nat
    BY <1>1, BuildFiles, MigrationsAssumption DEF Pending, Edited
  <2>2. Pending(p) \cup Edited(p) = {}
    BY <1>5, <2>1, LeastNumber DEF NextFile, done
  <2> QED BY <2>2 DEF Pending, Edited
<1>6. ProcessInv(p)'
  BY <1>2, <1>3, <1>4, <1>5 DEF ProcessInv, KnowsTheLedger, AppliesTheFirst, EndsWithAll,
     MigAt, MigrationsInv
<1> QED BY <1>1, <1>2, <1>3, <1>6, ProcessMoves

\* The file that is recorded is the one after those whose effects are there.
LEMMA CommitFileInv ==
  ASSUME MigrationsInv, NEW p \in Migrators, CommitFile(p)
  PROVE  MigrationsInv'
<1> DEFINE i == mig[p].file
<1>1. mig[p] \in Mig /\ MigrationsTypeOK /\ LedgerInv /\ ProcessInv(p)
      /\ holder \in {Nobody} \cup (Migrators \X Connections)
  BY DEF MigrationsInv, MigrationsTypeOK
<1>2. /\ i \in DOMAIN build[p] /\ i \in 1 .. LastFile /\ build[p][i] \in Checksums
      /\ mig[p].known[i] = NotApplied
      /\ \A j \in 1 .. LastFile : j < i => mig[p].known[j] # NotApplied
  BY <1>1, BuildFiles DEF CommitFile, ProcessInv, AppliesTheFirst
<1>3. CASE Recorded(i)
  <2> DEFINE s == [mig[p] EXCEPT !.step = "unlock", !.ok = FALSE, !.file = 0]
  <2>1. s \in Mig /\ s.step = "unlock" /\ s.known = mig[p].known /\ s.ok = FALSE
    <3>1. 0 \in 0 .. LastFile
      BY MigrationsAssumption
    <3> QED BY <1>1, <3>1 DEF Mig, MigSteps
  <2>2. MigBecomes(p, s) /\ UNCHANGED <<ledger, history, holder, build>>
    BY <1>3 DEF CommitFile
  <2> HIDE DEF s
  <2>3. mig'[p] = s
    BY <2>1, <2>2 DEF MigBecomes, MigrationsInv, MigrationsTypeOK
  <2>4. ProcessInv(p)'
    BY <1>1, <2>1, <2>2, <2>3 DEF ProcessInv, KnowsTheLedger, AppliesTheFirst, EndsWithAll, MigAt
  <2> QED BY <1>1, <2>1, <2>2, <2>4, ProcessMoves
<1>4. CASE ~Recorded(i)
  <2> DEFINE learnt == [mig[p].known EXCEPT ![i] = build[p][i]]
             s == [mig[p] EXCEPT !.step = "files", !.file = 0, !.known[i] = build[p][i]]
  <2>1. mig[p].known \in [1 .. LastFile -> Checksums \cup {NotApplied}]
    BY <1>1 DEF Mig
  <2>2. learnt \in [1 .. LastFile -> Checksums \cup {NotApplied}]
    BY <1>2, <2>1
  <2>3. s \in Mig /\ s.step = "files" /\ s.known = learnt
    <3>1. 0 \in 0 .. LastFile
      BY MigrationsAssumption
    <3>2. s = [mig[p] EXCEPT !.step = "files", !.file = 0, !.known = learnt]
      BY <1>1 DEF Mig
    <3> QED BY <1>1, <2>2, <3>1, <3>2 DEF Mig, MigSteps
  <2>4. learnt[i] = build[p][i] /\ \A j \in 1 .. LastFile \ {i} : learnt[j] = mig[p].known[j]
    BY <1>2, <2>1
  <2>5. /\ MigBecomes(p, s) /\ UNCHANGED <<holder, build>>
        /\ ledger' = [ledger EXCEPT ![i] = build[p][i]] /\ history' = Append(history, i)
    BY <1>4 DEF CommitFile
  <2> HIDE DEF s, learnt
  <2>6. /\ mig' \in [Migrators -> Mig] /\ mig'[p] = s
        /\ \A q \in Migrators \ {p} : mig'[q] = mig[q]
    BY <2>3, <2>5 DEF MigBecomes, MigrationsInv, MigrationsTypeOK
  <2>7. /\ ledger' \in [1 .. LastFile -> Checksums \cup {NotApplied}]
        /\ ledger[i] = NotApplied /\ ledger'[i] = build[p][i] /\ ledger'[i] # NotApplied
        /\ \A j \in 1 .. LastFile : j # i => ledger'[j] = ledger[j]
    BY <1>1, <1>2, <1>4, <2>5, MigrationsAssumption DEF Recorded, MigrationsTypeOK, NotApplied
  <2>8. history \in Seq(1 .. LastFile) /\ Len(history) \in Nat
    BY <1>1 DEF MigrationsTypeOK
  <2>9. i = Len(history) + 1
    <3>1. i > Len(history)
      BY <1>1, <1>2, <2>7, <2>8, MigrationsAssumption DEF LedgerInv
    <3>2. ASSUME i > Len(history) + 1
          PROVE  FALSE
      <4>1. i - 1 \in 1 .. LastFile /\ i - 1 < i
        BY <1>2, <2>8, <3>2, MigrationsAssumption
      <4>2. ledger[i - 1] # NotApplied
        BY <1>1, <1>2, <4>1 DEF ProcessInv, KnowsTheLedger
      <4>3. i - 1 <= Len(history)
        BY <1>1, <4>1, <4>2 DEF LedgerInv
      <4> QED BY <1>2, <2>8, <3>2, <4>3, MigrationsAssumption
    <3> QED BY <1>2, <2>8, <3>1, <3>2, MigrationsAssumption
  <2>10. /\ history' \in Seq(1 .. LastFile) /\ Len(history') = Len(history) + 1
         /\ history'[Len(history) + 1] = i
         /\ \A n \in 1 .. Len(history) : history'[n] = history[n]
    BY <1>2, <2>5, <2>8
  <2>11. MigrationsTypeOK'
    BY <1>1, <2>5, <2>6, <2>7, <2>10 DEF MigrationsTypeOK
  <2>12. LedgerInv'
    <3>1. \A n \in DOMAIN history' : history'[n] = n
      BY <1>1, <2>8, <2>9, <2>10 DEF LedgerInv
    <3>2. ASSUME NEW j \in 1 .. LastFile
          PROVE  ledger'[j] # NotApplied <=> j <= Len(history')
      <4>1. ledger[j] # NotApplied <=> j <= Len(history)
        BY <1>1 DEF LedgerInv
      <4>2. j \in Nat /\ Len(history') = Len(history) + 1
        BY <2>10, MigrationsAssumption
      <4>3. CASE j = i
        BY ONLY <2>7, <2>8, <2>9, <4>2, <4>3
      <4>4. CASE j # i
        <5>1. ledger'[j] = ledger[j]
          BY <2>7, <4>4
        <5>2. j <= Len(history) <=> j <= Len(history')
          BY ONLY <2>8, <2>9, <4>2, <4>4
        <5> QED BY ONLY <4>1, <5>1, <5>2
      <4> QED BY ONLY <4>3, <4>4
    <3> QED BY <3>1, <3>2 DEF LedgerInv
  <2>13. ProcessInv(p)'
    <3>1. KnowsTheLedger(p)'
      BY <1>1, <1>2, <2>3, <2>4, <2>6, <2>7 DEF ProcessInv, KnowsTheLedger
    <3> QED BY <2>3, <2>6, <3>1 DEF ProcessInv, AppliesTheFirst, EndsWithAll, MigAt
  <2>14. ASSUME NEW q \in Migrators, q # p
         PROVE  ProcessInv(q)'
    <3>1. ProcessInv(q) /\ mig'[q] = mig[q] /\ build' = build
      BY <2>5, <2>6, <2>14 DEF MigrationsInv
    <3>2. KnowsTheLedger(q)'
      BY <2>7, <3>1 DEF ProcessInv, KnowsTheLedger
    <3> QED BY <3>1, <3>2 DEF ProcessInv, AppliesTheFirst, EndsWithAll, MigAt
  <2> QED BY <2>11, <2>12, <2>13, <2>14 DEF MigrationsInv
<1> QED BY <1>3, <1>4

LEMMA UnlockInv ==
  ASSUME MigrationsInv, NEW p \in Migrators, NEW k \in Connections, Unlock(p, k)
  PROVE  MigrationsInv'
<1>1. mig[p] \in Mig
      /\ holder' \in {Nobody} \cup (Migrators \X Connections)
      /\ UNCHANGED <<ledger, history, build>>
  BY DEF Unlock, MigrationsInv, MigrationsTypeOK
<1>2. CASE ~mig[p].ok
  BY <1>1, <1>2, ProcessGoes DEF Unlock
<1>3. CASE mig[p].ok
  <2> DEFINE s == [step |-> "up", known |-> mig[p].known, file |-> mig[p].file, ok |-> mig[p].ok]
  <2>1. s \in Mig /\ [mig[p] EXCEPT !.step = "up"] = s
    BY <1>1 DEF Mig, MigSteps
  <2>2. MigBecomes(p, s)
    BY <1>3, <2>1 DEF MigGoesTo, Unlock
  <2>3. mig'[p] = s
    BY <2>2 DEF MigBecomes, MigrationsInv, MigrationsTypeOK
  <2>4. ProcessInv(p) /\ EndsWithAll(p)
    BY DEF MigrationsInv, ProcessInv
  <2>5. \A i \in DOMAIN build[p] : mig[p].known[i] = build[p][i]
    BY <1>3, <2>4 DEF EndsWithAll, Unlock
  <2>6. ProcessInv(p)'
    BY <1>1, <2>3, <2>4, <2>5 DEF ProcessInv, KnowsTheLedger, AppliesTheFirst,
       EndsWithAll, MigAt
  <2> QED BY <1>1, <2>1, <2>2, <2>6, ProcessMoves
<1> QED BY <1>2, <1>3

LEMMA ConnectionClosesInv ==
  ASSUME MigrationsInv, NEW p \in Migrators, NEW k \in Connections, ConnectionCloses(p, k)
  PROVE  MigrationsInv'
BY DEF ConnectionCloses, MigrationsInv, MigrationsTypeOK, LedgerInv, ProcessInv,
   KnowsTheLedger, AppliesTheFirst, EndsWithAll, MigAt

LEMMA MigratorStopsInv ==
  ASSUME MigrationsInv, NEW p \in Migrators, MigratorStops(p)
  PROVE  MigrationsInv'
<1>1. /\ holder' \in {Nobody} \cup (Migrators \X Connections)
      /\ MigBecomes(p, MigOff) /\ UNCHANGED <<ledger, history, build>>
  BY DEF MigratorStops, MigrationsInv, MigrationsTypeOK
<1>2. MigOff \in Mig
  BY MigrationsAssumption DEF MigOff, Mig, MigSteps, NothingKnown
<1>3. mig'[p] = MigOff
  BY <1>1 DEF MigBecomes, MigrationsInv, MigrationsTypeOK
<1>4. ProcessInv(p)'
  BY <1>1, <1>3 DEF ProcessInv, KnowsTheLedger, AppliesTheFirst, EndsWithAll, MigAt,
     MigOff, NothingKnown
<1> QED BY <1>1, <1>2, <1>4, ProcessMoves

-----------------------------------------------------------------------------
LEMMA MigrationsInitInv == MigrationsInit => MigrationsInv
<1> SUFFICES ASSUME MigrationsInit PROVE MigrationsInv
  OBVIOUS
<1>1. MigOff \in Mig /\ NothingKnown \in [1 .. LastFile -> Checksums \cup {NotApplied}]
  BY MigrationsAssumption DEF MigOff, Mig, MigSteps, NothingKnown
<1>2. MigrationsTypeOK
  BY <1>1 DEF MigrationsInit, MigrationsTypeOK
<1>3. LedgerInv
  BY MigrationsAssumption DEF MigrationsInit, LedgerInv, NothingKnown
<1>4. \A p \in Migrators : ProcessInv(p)
  BY DEF MigrationsInit, ProcessInv, KnowsTheLedger, AppliesTheFirst, EndsWithAll,
     MigAt, MigOff, NothingKnown
<1> QED BY <1>2, <1>3, <1>4 DEF MigrationsInv

LEMMA MigrationsNextInv == MigrationsInv /\ [MigrationsNext]_migrationVars => MigrationsInv'
<1> SUFFICES ASSUME MigrationsInv, [MigrationsNext]_migrationVars PROVE MigrationsInv'
  OBVIOUS
<1>1. CASE UNCHANGED migrationVars
  BY <1>1 DEF migrationVars, MigrationsInv, MigrationsTypeOK, LedgerInv, ProcessInv,
     KnowsTheLedger, AppliesTheFirst, EndsWithAll, MigAt
<1>2. CASE MigrationsNext
  <2>1. PICK p \in Migrators : MigrationStep(p)
    BY <1>2 DEF MigrationsNext
  <2>2. CASE \E k \in Connections : TakeLock(p, k) \/ Unlock(p, k) \/ ConnectionCloses(p, k)
    BY <2>2, TakeLockInv, UnlockInv, ConnectionClosesInv
  <2> QED BY <2>1, <2>2, BootInv, LoadLedgerInv, ExecuteFileInv, NoMoreFilesInv,
       CommitFileInv, MigratorStopsInv DEF MigrationStep
<1> QED BY <1>1, <1>2

\* The inductive invariant: the ledger is a prefix of the files, and every
\* process is at the first file that it does not find there.
THEOREM MigrationsSpecInv == MigrationsSpec => []MigrationsInv
BY MigrationsInitInv, MigrationsNextInv, PTL DEF MigrationsSpec

\* Each file's effects commit once and in the order of the names, and a process
\* that is up agrees with the ledger (migrate.go:1-3), for any number of
\* processes, with or without the lock.
THEOREM SpecMigrationsRunOnce == MigrationsSpec => []MigrationsRunOnce
<1>1. MigrationsInv => MigrationsRunOnce
  <2> SUFFICES ASSUME MigrationsInv, NEW p \in Migrators, MigAt(p, "up"),
                      NEW i \in DOMAIN build[p]
               PROVE  ledger[i] = build[p][i]
    BY DEF MigrationsInv, LedgerInv, MigrationsRunOnce
  <2>1. mig[p].known[i] = build[p][i]
    BY DEF MigrationsInv, ProcessInv, EndsWithAll
  <2>2. i \in 1 .. LastFile /\ build[p][i] # NotApplied
    BY BuildFiles, MigrationsAssumption DEF MigrationsInv, NotApplied
  <2> QED BY <2>1, <2>2 DEF MigrationsInv, ProcessInv, KnowsTheLedger
<1> QED BY <1>1, MigrationsSpecInv, PTL

-----------------------------------------------------------------------------
\* RateLimit: the fixed window and its counters.

\* The requests a counter has counted in this life, and those of them that it
\* has let pass or may.
Holders(k) == {c \in LimitCalls : k \in limited[c].counted}
MayPass(c, k) ==
  /\ k \in limited[c].counted
  /\ limited[c].step # "refused"
  /\ (limited[c].step \in {"expire", "decide"} /\ Head(limited[c].todo) = k) =>
       limited[c].count <= Limit
Passers(k) == {c \in LimitCalls : MayPass(c, k)}

\* Whoever is let in or may be was counted, and those the limit admits are few.
CountersCover ==
  \A k \in LimitKeys :
    /\ served[k] + Cardinality(Holders(k)) <= counter[k]
    /\ served[k] + Cardinality(Passers(k)) <= Limit

\* A request has a key to ask for, and decides by a counter that will expire.
CallsHaveKeys ==
  \A c \in LimitCalls :
    /\ limited[c].step # "idle" => limited[c].todo # <<>>
    /\ (limited[c].step \in {"decide", "refused"}
          /\ Head(limited[c].todo) \in limited[c].counted)
         => Head(limited[c].todo) \in hasTTL

RateLimitInv == RateLimitTypeOK /\ CountersCover /\ CallsHaveKeys

-----------------------------------------------------------------------------
LEMMA TallyTypes ==
  ASSUME NEW k
  PROVE  /\ IsFiniteSet(Holders(k)) /\ Cardinality(Holders(k)) \in Nat
         /\ IsFiniteSet(Passers(k)) /\ Cardinality(Passers(k)) \in Nat
         /\ Passers(k) \subseteq Holders(k)
         /\ Cardinality(Passers(k)) <= Cardinality(Holders(k))
<1>1. Holders(k) \subseteq LimitCalls /\ Passers(k) \subseteq Holders(k)
  BY DEF Holders, Passers, MayPass
<1>2. IsFiniteSet(Holders(k))
  BY <1>1, FS_Subset, RateLimitAssumption
<1>3. IsFiniteSet(Passers(k)) /\ Cardinality(Passers(k)) <= Cardinality(Holders(k))
  BY <1>1, <1>2, FS_Subset
<1> QED BY <1>1, <1>2, <1>3, FS_CardinalityType

\* A smaller set counts for less, one that gives up an element for one less.
LEMMA TallyShrinks ==
  ASSUME NEW S, NEW T, IsFiniteSet(S), T \subseteq S
  PROVE  /\ Cardinality(T) \in Nat /\ Cardinality(S) \in Nat
         /\ Cardinality(T) <= Cardinality(S)
         /\ \A c \in S : T \subseteq S \ {c} => Cardinality(T) + 1 <= Cardinality(S)
         /\ \A c : IsFiniteSet(S \cup {c}) /\ Cardinality(S \cup {c}) <= Cardinality(S) + 1
<1>1. IsFiniteSet(T) /\ Cardinality(T) <= Cardinality(S)
  BY FS_Subset
<1>2. Cardinality(T) \in Nat /\ Cardinality(S) \in Nat
  BY <1>1, FS_CardinalityType
<1>3. ASSUME NEW c \in S, T \subseteq S \ {c}
      PROVE  Cardinality(T) + 1 <= Cardinality(S)
  <2>1. IsFiniteSet(S \ {c}) /\ Cardinality(S \ {c}) = Cardinality(S) - 1
    BY FS_RemoveElement
  <2>2. Cardinality(T) <= Cardinality(S \ {c})
    BY <1>3, <2>1, FS_Subset
  <2> QED BY <1>2, <2>1, <2>2
<1>4. ASSUME NEW c
      PROVE  IsFiniteSet(S \cup {c}) /\ Cardinality(S \cup {c}) <= Cardinality(S) + 1
  BY <1>2, FS_AddElement
<1> QED BY <1>1, <1>2, <1>3, <1>4

LEMMA LimitMoves ==
  ASSUME RateLimitTypeOK, NEW c \in LimitCalls, NEW s \in LimitCall, LimitBecomes(c, s)
  PROVE  /\ limited' \in [LimitCalls -> LimitCall]
         /\ limited'[c] = s
         /\ \A d \in LimitCalls \ {c} : limited'[d] = limited[d]
BY DEF RateLimitTypeOK, LimitBecomes

LEMMA IdleLimit ==
  ASSUME RateLimitTypeOK
  PROVE  /\ IdleLimitCall \in LimitCall /\ IdleLimitCall.step = "idle"
         /\ IdleLimitCall.counted = {}
BY RateLimitAssumption DEF IdleLimitCall, LimitCall

\* The first of the keys left is one of the keys.
LEMMA HeadIsKey ==
  ASSUME RateLimitInv, NEW c \in LimitCalls, limited[c].step # "idle"
  PROVE  /\ limited[c].todo \in Seq(LimitKeys) /\ limited[c].todo # <<>>
         /\ Head(limited[c].todo) \in LimitKeys
<1>1. limited[c].todo \in Seq(LimitKeys) /\ limited[c].todo # <<>>
  BY DEF RateLimitInv, RateLimitTypeOK, LimitCall, CallsHaveKeys
<1> QED BY ONLY <1>1

\* Of a sequence of more than one key something is left after the first.
LEMMA TailIsLeft ==
  ASSUME NEW S, NEW q \in Seq(S), Len(q) > 1
  PROVE  Tail(q) \in Seq(S) /\ Tail(q) # <<>>
<1>1. q # <<>>
  OBVIOUS
<1> DEFINE t == Tail(q)
<1>3. t \in Seq(S) /\ Len(t) = Len(q) - 1
  BY <1>1, HeadTailProperties
<1> HIDE DEF t
<1>4. Len(q) \in Nat /\ Len(t) \in Nat
  BY <1>3
<1>5. Len(t) # 0
  BY ONLY <1>3, <1>4, Len(q) > 1
<1>6. t # <<>>
  BY ONLY <1>5
<1> QED BY <1>3, <1>6 DEF t

\* What the sets of requests become when one request moves.
LEMMA TalliesMove ==
  ASSUME NEW c \in LimitCalls, \A d \in LimitCalls \ {c} : limited'[d] = limited[d], NEW k
  PROVE  /\ Holders(k)' \subseteq Holders(k) \cup {c}
         /\ Passers(k)' \subseteq Passers(k) \cup {c}
         /\ k \notin limited'[c].counted =>
              Holders(k)' \subseteq Holders(k) \ {c} /\ Passers(k)' \subseteq Passers(k) \ {c}
         /\ limited'[c].counted \subseteq limited[c].counted => Holders(k)' \subseteq Holders(k)
         /\ ~MayPass(c, k)' => Passers(k)' \subseteq Passers(k) \ {c}
         /\ (MayPass(c, k)' => MayPass(c, k)) => Passers(k)' \subseteq Passers(k)
BY DEF Holders, Passers, MayPass

\* What is granted plus what is held stays below a bound that does not shrink,
\* when what is newly granted was held before.
LEMMA BalanceKept ==
  ASSUME NEW granted \in Nat, NEW held \in Nat, NEW bound \in Nat, granted + held <= bound,
         NEW granted2 \in Nat, NEW held2 \in Nat, NEW bound2 \in Nat, bound <= bound2,
         NEW more \in {0, 1}, granted2 = granted + more, held2 + more <= held
  PROVE  granted2 + held2 <= bound2
OBVIOUS

\* A request gives up its place or keeps it, and nobody is let in.
LEMMA NobodyServed ==
  ASSUME RateLimitInv, NEW c \in LimitCalls, NEW s \in LimitCall, LimitBecomes(c, s),
         UNCHANGED <<failClosed, served>>,
         counter' \in [LimitKeys -> 0 .. MaxCount],
         \A k \in LimitKeys : counter[k] <= counter'[k],
         hasTTL \subseteq hasTTL', hasTTL' \subseteq LimitKeys,
         s.counted \subseteq limited[c].counted,
         \A k \in LimitKeys : MayPass(c, k)' => MayPass(c, k),
         s.step # "idle" => s.todo # <<>>,
         (s.step \in {"decide", "refused"} /\ Head(s.todo) \in s.counted) => Head(s.todo) \in hasTTL'
  PROVE  RateLimitInv'
<1>1. /\ limited' \in [LimitCalls -> LimitCall]
      /\ limited'[c] = s
      /\ \A d \in LimitCalls \ {c} : limited'[d] = limited[d]
  BY LimitMoves DEF RateLimitInv
<1>2. RateLimitTypeOK'
  BY <1>1 DEF RateLimitInv, RateLimitTypeOK
<1>3. ASSUME NEW k \in LimitKeys
      PROVE  /\ served'[k] + Cardinality(Holders(k)') <= counter'[k]
             /\ served'[k] + Cardinality(Passers(k)') <= Limit
  <2>1. Holders(k)' \subseteq Holders(k) /\ Passers(k)' \subseteq Passers(k)
    BY <1>1, TalliesMove
  <2>2. /\ Cardinality(Holders(k)') <= Cardinality(Holders(k))
        /\ Cardinality(Passers(k)') <= Cardinality(Passers(k))
        /\ Cardinality(Holders(k)') \in Nat /\ Cardinality(Passers(k)') \in Nat
        /\ Cardinality(Holders(k)) \in Nat /\ Cardinality(Passers(k)) \in Nat
    BY <2>1, TallyTypes, TallyShrinks
  <2>3. /\ served[k] + Cardinality(Holders(k)) <= counter[k]
        /\ served[k] + Cardinality(Passers(k)) <= Limit
        /\ served[k] \in Nat /\ counter[k] \in Nat /\ counter'[k] \in Nat
        /\ served'[k] = served[k] /\ counter[k] <= counter'[k]
    BY RateLimitAssumption DEF RateLimitInv, CountersCover, RateLimitTypeOK
  <2> QED BY <2>2, <2>3, RateLimitAssumption
<1>4. CountersCover'
  BY <1>3 DEF CountersCover
<1>5. CallsHaveKeys'
  BY <1>1 DEF RateLimitInv, CallsHaveKeys
<1> QED BY <1>2, <1>4, <1>5 DEF RateLimitInv

\* A request is let in under some of its keys, none of which refuses it.
LEMMA SomebodyServed ==
  ASSUME RateLimitInv, NEW c \in LimitCalls, NEW keys \in SUBSET limited[c].counted,
         Serve(c, keys), \A k \in keys : MayPass(c, k),
         UNCHANGED <<failClosed, hasTTL>>,
         counter' \in [LimitKeys -> 0 .. MaxCount],
         \A k \in LimitKeys : counter[k] <= counter'[k]
  PROVE  RateLimitInv'
<1>0. LimitBecomes(c, IdleLimitCall)
      /\ served' = [k \in LimitKeys |-> IF k \in keys THEN served[k] + 1 ELSE served[k]]
  BY DEF Serve
<1>1. /\ limited' \in [LimitCalls -> LimitCall]
      /\ limited'[c] = IdleLimitCall
      /\ \A d \in LimitCalls \ {c} : limited'[d] = limited[d]
  BY <1>0, IdleLimit, LimitMoves DEF RateLimitInv
<1>2. served' \in [LimitKeys -> Nat]
  BY <1>0 DEF RateLimitInv, RateLimitTypeOK
<1>3. RateLimitTypeOK'
  BY <1>1, <1>2 DEF RateLimitInv, RateLimitTypeOK
<1>4. ASSUME NEW k \in LimitKeys
      PROVE  /\ served'[k] + Cardinality(Holders(k)') <= counter'[k]
             /\ served'[k] + Cardinality(Passers(k)') <= Limit
  <2>1. Holders(k)' \subseteq Holders(k) \ {c} /\ Passers(k)' \subseteq Passers(k) \ {c}
    BY <1>1, IdleLimit, TalliesMove DEF RateLimitInv
  <2>2. /\ Cardinality(Holders(k)') <= Cardinality(Holders(k))
        /\ Cardinality(Passers(k)') <= Cardinality(Passers(k))
        /\ Cardinality(Holders(k)') \in Nat /\ Cardinality(Passers(k)') \in Nat
        /\ Cardinality(Holders(k)) \in Nat /\ Cardinality(Passers(k)) \in Nat
    BY <2>1, TallyTypes, TallyShrinks
  <2>3. k \in keys => /\ Cardinality(Holders(k)') + 1 <= Cardinality(Holders(k))
                      /\ Cardinality(Passers(k)') + 1 <= Cardinality(Passers(k))
    <3> SUFFICES ASSUME k \in keys
                 PROVE  /\ Cardinality(Holders(k)') + 1 <= Cardinality(Holders(k))
                        /\ Cardinality(Passers(k)') + 1 <= Cardinality(Passers(k))
      OBVIOUS
    <3>1. c \in Holders(k) /\ c \in Passers(k)
      BY DEF Holders, Passers
    <3>2. Holders(k)' \subseteq Holders(k) /\ Passers(k)' \subseteq Passers(k)
      BY <2>1
    <3>3. Cardinality(Holders(k)') + 1 <= Cardinality(Holders(k))
      BY <2>1, <3>1, <3>2, TallyTypes, TallyShrinks
    <3>4. Cardinality(Passers(k)') + 1 <= Cardinality(Passers(k))
      BY <2>1, <3>1, <3>2, TallyTypes, TallyShrinks
    <3> QED BY <3>3, <3>4
  <2>4. /\ served[k] + Cardinality(Holders(k)) <= counter[k]
        /\ served[k] + Cardinality(Passers(k)) <= Limit
        /\ served[k] \in Nat /\ counter[k] \in Nat /\ counter'[k] \in Nat
        /\ counter[k] <= counter'[k]
    BY RateLimitAssumption DEF RateLimitInv, CountersCover, RateLimitTypeOK
  <2>5. served'[k] = IF k \in keys THEN served[k] + 1 ELSE served[k]
    BY <1>0
  <2>6. CASE k \in keys
    <3>1. served'[k] = served[k] + 1 /\ served'[k] \in Nat
      BY <1>2, <2>5, <2>6
    <3>2. served'[k] + Cardinality(Holders(k)') <= counter'[k]
      BY ONLY <2>2, <2>3, <2>4, <2>6, <3>1, BalanceKept
    <3>3. served'[k] + Cardinality(Passers(k)') <= Limit
      BY ONLY <2>2, <2>3, <2>4, <2>6, <3>1, RateLimitAssumption, BalanceKept
    <3> QED BY <3>2, <3>3
  <2>7. CASE k \notin keys
    <3>1. served'[k] = served[k] + 0 /\ served'[k] \in Nat
      BY <1>2, <2>4, <2>5, <2>7
    <3>2. served'[k] + Cardinality(Holders(k)') <= counter'[k]
      BY ONLY <2>2, <2>4, <3>1, BalanceKept
    <3>3. served'[k] + Cardinality(Passers(k)') <= Limit
      BY ONLY <2>2, <2>4, <3>1, RateLimitAssumption, BalanceKept
    <3> QED BY <3>2, <3>3
  <2> QED BY <2>6, <2>7
<1>5. CountersCover'
  BY <1>4 DEF CountersCover
<1>6. CallsHaveKeys'
  BY <1>1, IdleLimit DEF RateLimitInv, CallsHaveKeys
<1> QED BY <1>3, <1>5, <1>6 DEF RateLimitInv

-----------------------------------------------------------------------------
LEMMA ArriveLimitedStep ==
  ASSUME RateLimitInv, NEW c \in LimitCalls, NEW keys \in KeyLists, ArriveLimited(c, keys)
  PROVE  RateLimitInv'
<1> DEFINE s == [IdleLimitCall EXCEPT !.step = "ask", !.todo = keys]
<1>1. LimitBecomes(c, s) /\ UNCHANGED <<counter, hasTTL, failClosed, served>>
  BY DEF ArriveLimited
<1>2. keys \in Seq(LimitKeys) /\ keys # <<>> /\ 0 \in 0 .. MaxCount
  BY RateLimitAssumption
<1>3. s \in LimitCall /\ s.step = "ask" /\ s.todo = keys /\ s.counted = {}
  BY <1>2 DEF IdleLimitCall, LimitCall
<1> HIDE DEF s
<1>4. limited'[c] = s
  BY <1>1, <1>3, LimitMoves DEF RateLimitInv
<1>5. \A k \in LimitKeys : ~MayPass(c, k)'
  BY <1>3, <1>4 DEF MayPass
<1>6. /\ counter' \in [LimitKeys -> 0 .. MaxCount] /\ hasTTL' \subseteq LimitKeys
      /\ \A k \in LimitKeys : counter[k] <= counter'[k]
  BY <1>1, RateLimitAssumption DEF RateLimitInv, RateLimitTypeOK
<1> QED BY <1>1, <1>2, <1>3, <1>5, <1>6, NobodyServed

LEMMA LimitEndsStep ==
  ASSUME RateLimitInv, NEW c \in LimitCalls, LimitBecomes(c, IdleLimitCall),
         UNCHANGED <<hasTTL, failClosed, served>>,
         counter' \in [LimitKeys -> 0 .. MaxCount],
         \A k \in LimitKeys : counter[k] <= counter'[k]
  PROVE  RateLimitInv'
<1>1. /\ IdleLimitCall \in LimitCall /\ IdleLimitCall.step = "idle"
      /\ IdleLimitCall.counted = {}
  BY IdleLimit DEF RateLimitInv
<1>2. limited'[c] = IdleLimitCall
  BY <1>1, LimitMoves DEF RateLimitInv
<1>3. \A k \in LimitKeys : ~MayPass(c, k)'
  BY <1>1, <1>2 DEF MayPass
<1>4. hasTTL' \subseteq LimitKeys
  BY DEF RateLimitInv, RateLimitTypeOK
<1> QED BY <1>1, <1>3, <1>4, NobodyServed

LEMMA CountStep ==
  ASSUME RateLimitInv, NEW c \in LimitCalls, Count(c)
  PROVE  RateLimitInv'
<1>1. PICK k \in LimitKeys : k = Head(limited[c].todo)
  BY HeadIsKey DEF Count, LimitAt
<1> DEFINE step == IF k \in hasTTL THEN "decide" ELSE "expire"
           s == [limited[c] EXCEPT !.step = step, !.count = counter[k] + 1,
                                   !.counted = @ \cup {k}]
<1>2. /\ LimitAt(c, "ask") /\ counter[k] < MaxCount
      /\ counter' = [counter EXCEPT ![k] = @ + 1]
      /\ LimitBecomes(c, s)
      /\ UNCHANGED <<hasTTL, failClosed, served>>
  BY <1>1 DEF Count
<1>3. counter[k] \in Nat /\ counter[k] + 1 \in 0 .. MaxCount
  BY <1>2, RateLimitAssumption DEF RateLimitInv, RateLimitTypeOK
<1>4. /\ s \in LimitCall /\ s.step = step /\ s.count = counter[k] + 1
      /\ s.todo = limited[c].todo /\ s.counted = limited[c].counted \cup {k}
  <2>1. limited[c] \in LimitCall /\ step \in {"decide", "expire"}
    BY DEF RateLimitInv, RateLimitTypeOK
  <2> HIDE DEF step
  <2> QED BY <1>3, <2>1 DEF LimitCall
<1> HIDE DEF s
<1>5. /\ limited' \in [LimitCalls -> LimitCall]
      /\ limited'[c] = s
      /\ \A d \in LimitCalls \ {c} : limited'[d] = limited[d]
  BY <1>2, <1>4, LimitMoves DEF RateLimitInv
<1>6. /\ counter' \in [LimitKeys -> 0 .. MaxCount] /\ counter'[k] = counter[k] + 1
      /\ \A j \in LimitKeys \ {k} : counter'[j] = counter[j]
  BY <1>2, <1>3 DEF RateLimitInv, RateLimitTypeOK
<1>7. RateLimitTypeOK'
  BY <1>2, <1>5, <1>6 DEF RateLimitInv, RateLimitTypeOK
<1>8. ASSUME NEW j \in LimitKeys
      PROVE  /\ served'[j] + Cardinality(Holders(j)') <= counter'[j]
             /\ served'[j] + Cardinality(Passers(j)') <= Limit
  <2>1. /\ served[j] + Cardinality(Holders(j)) <= counter[j]
        /\ served[j] + Cardinality(Passers(j)) <= Limit
        /\ served[j] \in Nat /\ counter[j] \in Nat /\ served' = served
    BY <1>2, RateLimitAssumption DEF RateLimitInv, CountersCover, RateLimitTypeOK
  <2>2. /\ Cardinality(Holders(j)) \in Nat /\ Cardinality(Passers(j)) \in Nat
        /\ Cardinality(Holders(j)') \in Nat /\ Cardinality(Passers(j)') \in Nat
        /\ Cardinality(Passers(j)') <= Cardinality(Holders(j)')
    <3>1. /\ Cardinality(Holders(j)) \in Nat /\ Cardinality(Passers(j)) \in Nat
          /\ Cardinality(Passers(j)) <= Cardinality(Holders(j))
      BY TallyTypes
    <3>2. Holders(j)' \subseteq LimitCalls /\ Passers(j)' \subseteq Holders(j)'
      BY DEF Holders, Passers, MayPass
    <3>3. IsFiniteSet(Holders(j)')
      BY <3>2, FS_Subset, RateLimitAssumption
    <3> QED BY <3>1, <3>2, <3>3, TallyShrinks
  <2>3. CASE j = k
    <3>1. Cardinality(Holders(j)') <= Cardinality(Holders(j)) + 1
      <4>1. IsFiniteSet(Holders(j)) /\ Holders(j)' \subseteq Holders(j) \cup {c}
        BY <1>5, TallyTypes, TalliesMove
      <4>2. IsFiniteSet(Holders(j) \cup {c})
            /\ Cardinality(Holders(j) \cup {c}) <= Cardinality(Holders(j)) + 1
            /\ Cardinality(Holders(j) \cup {c}) \in Nat
        BY <4>1, TallyShrinks, FS_CardinalityType
      <4>3. Cardinality(Holders(j)') <= Cardinality(Holders(j) \cup {c})
        BY <4>1, <4>2, TallyShrinks
      <4> QED BY <2>2, <4>2, <4>3
    <3>2. CASE counter[k] + 1 <= Limit
      BY <1>6, <2>1, <2>2, <2>3, <3>1, <3>2, RateLimitAssumption
    <3>3. CASE ~(counter[k] + 1 <= Limit)
      <4>1. ~MayPass(c, k)'
        BY <1>1, <1>4, <1>5, <3>3 DEF MayPass
      <4>2. Passers(j)' \subseteq Passers(j)
        BY <1>5, <2>3, <4>1, TalliesMove
      <4>3. Cardinality(Passers(j)') <= Cardinality(Passers(j))
        BY <4>2, TallyTypes, TallyShrinks
      <4> QED BY <1>6, <2>1, <2>2, <2>3, <3>1, <4>3, RateLimitAssumption
    <3> QED BY <3>2, <3>3
  <2>4. CASE j # k
    <3>1. MayPass(c, j)' => MayPass(c, j)
      BY <1>2, <1>4, <1>5, <2>4 DEF MayPass, LimitAt
    <3>2. Holders(j)' \subseteq Holders(j) /\ Passers(j)' \subseteq Passers(j)
      <4>1. Passers(j)' \subseteq Passers(j)
        BY <1>5, <3>1, TalliesMove
      <4>2. Holders(j)' \subseteq Holders(j)
        BY <1>4, <1>5, <2>4 DEF Holders
      <4> QED BY <4>1, <4>2
    <3>3. /\ Cardinality(Holders(j)') <= Cardinality(Holders(j))
          /\ Cardinality(Passers(j)') <= Cardinality(Passers(j))
      BY <3>2, TallyTypes, TallyShrinks
    <3> QED BY <1>6, <2>1, <2>2, <2>4, <3>3, RateLimitAssumption
  <2> QED BY <2>3, <2>4
<1>9. CountersCover'
  BY <1>8 DEF CountersCover
<1>10. CallsHaveKeys'
  <2>1. s.todo # <<>>
    BY <1>2, <1>4, HeadIsKey DEF LimitAt
  <2>2. s.step \in {"decide", "refused"} => Head(s.todo) \in hasTTL
    BY <1>1, <1>4
  <2> QED BY <1>2, <1>5, <2>1, <2>2 DEF RateLimitInv, CallsHaveKeys
<1> QED BY <1>7, <1>9, <1>10 DEF RateLimitInv

LEMMA SetExpiryStep ==
  ASSUME RateLimitInv, NEW c \in LimitCalls, SetExpiry(c)
  PROVE  RateLimitInv'
<1>1. PICK k \in LimitKeys : k = Head(limited[c].todo)
  BY HeadIsKey DEF SetExpiry, LimitAt
<1> DEFINE s == [limited[c] EXCEPT !.step = "decide"]
<1>2. /\ LimitAt(c, "expire") /\ LimitBecomes(c, s)
      /\ hasTTL' = IF counter[k] > 0 THEN hasTTL \cup {k} ELSE hasTTL
      /\ UNCHANGED <<counter, failClosed, served>>
  BY <1>1 DEF SetExpiry
<1>3. /\ s \in LimitCall /\ s.step = "decide" /\ s.todo = limited[c].todo
      /\ s.count = limited[c].count /\ s.counted = limited[c].counted
  BY DEF RateLimitInv, RateLimitTypeOK, LimitCall
<1> HIDE DEF s
<1>4. limited'[c] = s
  BY <1>2, <1>3, LimitMoves DEF RateLimitInv
<1>5. \A j \in LimitKeys : MayPass(c, j)' => MayPass(c, j)
  BY <1>2, <1>3, <1>4 DEF MayPass, LimitAt
<1>6. /\ counter' \in [LimitKeys -> 0 .. MaxCount]
      /\ \A j \in LimitKeys : counter[j] \in Nat /\ counter[j] <= counter'[j]
      /\ hasTTL \subseteq hasTTL' /\ hasTTL' \subseteq LimitKeys
  BY <1>2, RateLimitAssumption DEF RateLimitInv, RateLimitTypeOK
<1>7. k \in s.counted => k \in hasTTL'
  <2> SUFFICES ASSUME k \in s.counted PROVE k \in hasTTL'
    OBVIOUS
  <2>1. c \in Holders(k)
    BY <1>3 DEF Holders
  <2>2. IsFiniteSet(Holders(k)) /\ Cardinality(Holders(k)) \in Nat /\ {} \subseteq Holders(k) \ {c}
    BY TallyTypes
  <2>3. Cardinality({}) + 1 <= Cardinality(Holders(k))
    BY <2>1, <2>2, TallyShrinks
  <2>4. Cardinality({}) = 0
    BY FS_EmptySet
  <2>5. served[k] + Cardinality(Holders(k)) <= counter[k] /\ served[k] \in Nat
    BY DEF RateLimitInv, CountersCover, RateLimitTypeOK
  <2>6. counter[k] > 0
    BY <1>6, <2>2, <2>3, <2>4, <2>5
  <2> QED BY <1>2, <2>6
<1>8. s.todo # <<>>
  BY <1>2, <1>3, HeadIsKey DEF LimitAt
<1> QED BY <1>1, <1>2, <1>3, <1>5, <1>6, <1>7, <1>8, NobodyServed

LEMMA DecideStep ==
  ASSUME RateLimitInv, NEW c \in LimitCalls, Decide(c)
  PROVE  RateLimitInv'
<1>1. LimitAt(c, "decide") /\ UNCHANGED <<counter, hasTTL, failClosed>>
  BY DEF Decide
<1>2. /\ limited[c].todo \in Seq(LimitKeys) /\ limited[c].todo # <<>>
      /\ Head(limited[c].todo) \in LimitKeys
  BY <1>1, HeadIsKey DEF LimitAt
<1>3. limited[c] \in LimitCall
  BY DEF RateLimitInv, RateLimitTypeOK
<1>4. /\ counter' \in [LimitKeys -> 0 .. MaxCount] /\ hasTTL' \subseteq LimitKeys
      /\ \A k \in LimitKeys : counter[k] <= counter'[k]
  BY <1>1, RateLimitAssumption DEF RateLimitInv, RateLimitTypeOK
<1>5. CASE ~LimitAllows(c)
  <2> DEFINE s == [limited[c] EXCEPT !.step = "refused"]
  <2>1. LimitBecomes(c, s) /\ UNCHANGED served
    BY <1>5 DEF Decide
  <2>2. /\ s \in LimitCall /\ s.step = "refused" /\ s.todo = limited[c].todo
        /\ s.counted = limited[c].counted
    BY <1>3 DEF LimitCall
  <2> HIDE DEF s
  <2>3. limited'[c] = s
    BY <2>1, <2>2, LimitMoves DEF RateLimitInv
  <2>4. \A k \in LimitKeys : ~MayPass(c, k)'
    BY <2>2, <2>3 DEF MayPass
  <2>5. Head(s.todo) \in s.counted => Head(s.todo) \in hasTTL'
    BY <1>1, <2>2 DEF RateLimitInv, CallsHaveKeys, LimitAt
  <2> QED BY <1>1, <1>2, <1>4, <2>1, <2>2, <2>4, <2>5, NobodyServed
<1>6. CASE LimitAllows(c) /\ Len(limited[c].todo) > 1
  <2> DEFINE s == [limited[c] EXCEPT !.step = "ask", !.todo = Tail(@), !.count = 0]
  <2>1. LimitBecomes(c, s) /\ UNCHANGED served
    BY <1>6 DEF Decide
  <2>2. Tail(limited[c].todo) \in Seq(LimitKeys) /\ Tail(limited[c].todo) # <<>>
    <3>1. Len(limited[c].todo) > 1
      BY <1>6
    <3> QED BY <1>2, <3>1, TailIsLeft
  <2>3. 0 \in 0 .. MaxCount
    BY RateLimitAssumption
  <2>4. /\ s \in LimitCall /\ s.step = "ask" /\ s.todo # <<>>
        /\ s.counted = limited[c].counted
    BY <1>3, <2>2, <2>3 DEF LimitCall
  <2> HIDE DEF s
  <2>5. limited'[c] = s
    BY <2>1, <2>4, LimitMoves DEF RateLimitInv
  <2>6. \A k \in LimitKeys : MayPass(c, k)' => MayPass(c, k)
    BY <1>1, <1>6, <2>4, <2>5 DEF MayPass, LimitAt, LimitAllows
  <2> QED BY <1>1, <1>4, <2>1, <2>4, <2>6, NobodyServed
<1>7. CASE LimitAllows(c) /\ ~(Len(limited[c].todo) > 1)
  <2>1. Serve(c, limited[c].counted)
    BY <1>7 DEF Decide
  <2>2. \A k \in limited[c].counted : MayPass(c, k)
    BY <1>1, <1>7 DEF MayPass, LimitAt, LimitAllows
  <2> QED BY <1>1, <1>4, <2>1, <2>2, SomebodyServed
<1> QED BY <1>5, <1>6, <1>7

LEMMA LimiterFailsStep ==
  ASSUME RateLimitInv, NEW c \in LimitCalls, LimiterFails(c)
  PROVE  RateLimitInv'
<1>1. LimitAt(c, "ask") \/ LimitAt(c, "expire")
  BY DEF LimiterFails
<1>2. PICK k \in LimitKeys : k = Head(limited[c].todo)
  BY <1>1, HeadIsKey DEF LimitAt
<1>3. /\ IF failClosed THEN LimitBecomes(c, IdleLimitCall) /\ UNCHANGED served
                       ELSE Serve(c, limited[c].counted \ {k})
      /\ \/ UNCHANGED counter
         \/ counter[k] < MaxCount /\ counter' = [counter EXCEPT ![k] = @ + 1]
      /\ UNCHANGED <<hasTTL, failClosed>>
  BY <1>2 DEF LimiterFails
<1>4. /\ counter' \in [LimitKeys -> 0 .. MaxCount]
      /\ \A j \in LimitKeys : counter[j] <= counter'[j]
  <2>1. counter \in [LimitKeys -> 0 .. MaxCount]
    BY DEF RateLimitInv, RateLimitTypeOK
  <2> QED BY <1>3, <2>1, RateLimitAssumption
<1>5. CASE failClosed
  BY <1>3, <1>4, <1>5, LimitEndsStep
<1>6. CASE ~failClosed
  <2>1. \A j \in limited[c].counted \ {k} : MayPass(c, j)
    BY <1>1, <1>2 DEF MayPass, LimitAt
  <2> QED BY <1>3, <1>4, <1>6, <2>1, SomebodyServed
<1> QED BY <1>5, <1>6

LEMMA WindowEndsStep ==
  ASSUME RateLimitInv, NEW k \in LimitKeys, WindowEnds(k)
  PROVE  RateLimitInv'
<1> DEFINE F(c) == [limited[c] EXCEPT !.counted = @ \ {k}]
<1>1. /\ counter' = [counter EXCEPT ![k] = 0] /\ hasTTL' = hasTTL \ {k}
      /\ served' = [served EXCEPT ![k] = 0]
      /\ limited' = [c \in LimitCalls |-> F(c)]
      /\ UNCHANGED failClosed
  BY DEF WindowEnds
<1>2. ASSUME NEW c \in LimitCalls
      PROVE  /\ F(c) \in LimitCall /\ F(c).step = limited[c].step
             /\ F(c).todo = limited[c].todo /\ F(c).count = limited[c].count
             /\ F(c).counted = limited[c].counted \ {k}
  BY DEF RateLimitInv, RateLimitTypeOK, LimitCall
<1> HIDE DEF F
<1>3. /\ limited' \in [LimitCalls -> LimitCall]
      /\ \A c \in LimitCalls :
           /\ limited'[c].step = limited[c].step
           /\ limited'[c].todo = limited[c].todo /\ limited'[c].count = limited[c].count
           /\ limited'[c].counted = limited[c].counted \ {k}
  <2>1. \A c \in LimitCalls : limited'[c] = F(c)
    BY <1>1
  <2> QED BY <1>1, <1>2, <2>1
<1>4. /\ counter' \in [LimitKeys -> 0 .. MaxCount] /\ counter'[k] = 0
      /\ served' \in [LimitKeys -> Nat] /\ served'[k] = 0
      /\ \A j \in LimitKeys \ {k} : counter'[j] = counter[j] /\ served'[j] = served[j]
  BY <1>1, RateLimitAssumption DEF RateLimitInv, RateLimitTypeOK
<1>5. RateLimitTypeOK'
  BY <1>1, <1>3, <1>4 DEF RateLimitInv, RateLimitTypeOK
<1>6. ASSUME NEW j \in LimitKeys
      PROVE  /\ served'[j] + Cardinality(Holders(j)') <= counter'[j]
             /\ served'[j] + Cardinality(Passers(j)') <= Limit
  <2>1. CASE j = k
    <3>1. Holders(j)' = {} /\ Passers(j)' = {}
      BY <1>3, <2>1 DEF Holders, Passers, MayPass
    <3>2. Cardinality({}) = 0
      BY FS_EmptySet
    <3> QED BY <1>4, <2>1, <3>1, <3>2, RateLimitAssumption
  <2>2. CASE j # k
    <3>1. Holders(j)' \subseteq Holders(j) /\ Passers(j)' \subseteq Passers(j)
      BY <1>3, <2>2 DEF Holders, Passers, MayPass
    <3>2. /\ Cardinality(Holders(j)') <= Cardinality(Holders(j))
          /\ Cardinality(Passers(j)') <= Cardinality(Passers(j))
          /\ Cardinality(Holders(j)') \in Nat /\ Cardinality(Passers(j)') \in Nat
          /\ Cardinality(Holders(j)) \in Nat /\ Cardinality(Passers(j)) \in Nat
      BY <3>1, TallyTypes, TallyShrinks
    <3>3. /\ served[j] + Cardinality(Holders(j)) <= counter[j]
          /\ served[j] + Cardinality(Passers(j)) <= Limit
          /\ served[j] \in Nat /\ counter[j] \in Nat
          /\ served'[j] = served[j] /\ counter'[j] = counter[j]
      BY <1>4, <2>2, RateLimitAssumption DEF RateLimitInv, CountersCover, RateLimitTypeOK
    <3> QED BY <3>2, <3>3, RateLimitAssumption
  <2> QED BY <2>1, <2>2
<1>7. CountersCover'
  BY <1>6 DEF CountersCover
<1>8. CallsHaveKeys'
  BY <1>1, <1>3 DEF RateLimitInv, CallsHaveKeys
<1> QED BY <1>5, <1>7, <1>8 DEF RateLimitInv

-----------------------------------------------------------------------------
LEMMA RateLimitInitInv == RateLimitInit => RateLimitInv
<1> SUFFICES ASSUME RateLimitInit PROVE RateLimitInv
  OBVIOUS
<1>1. /\ counter = [k \in LimitKeys |-> 0] /\ hasTTL = {} /\ failClosed \in BOOLEAN
      /\ limited = [c \in LimitCalls |-> IdleLimitCall]
      /\ served = [k \in LimitKeys |-> 0]
  BY DEF RateLimitInit
<1>2. 0 \in 0 .. MaxCount /\ <<>> \in Seq(LimitKeys)
  BY RateLimitAssumption
<1>3. IdleLimitCall \in LimitCall /\ IdleLimitCall.step = "idle" /\ IdleLimitCall.counted = {}
  BY <1>2 DEF IdleLimitCall, LimitCall
<1>4. RateLimitTypeOK
  BY <1>1, <1>2, <1>3 DEF RateLimitTypeOK
<1>5. CountersCover
  <2>1. \A k \in LimitKeys : Holders(k) = {} /\ Passers(k) = {}
    BY <1>1, <1>3 DEF Holders, Passers, MayPass
  <2>2. Cardinality({}) = 0
    BY FS_EmptySet
  <2>3. \A k \in LimitKeys : counter[k] = 0 /\ served[k] = 0
    BY <1>1
  <2>4. ASSUME NEW k \in LimitKeys
        PROVE  /\ served[k] + Cardinality(Holders(k)) <= counter[k]
               /\ served[k] + Cardinality(Passers(k)) <= Limit
    <3>1. Cardinality(Holders(k)) = 0 /\ Cardinality(Passers(k)) = 0
      BY <2>1, <2>2
    <3> QED BY ONLY <2>3, <3>1, RateLimitAssumption
  <2> QED BY <2>4 DEF CountersCover
<1>6. CallsHaveKeys
  BY <1>1, <1>3 DEF CallsHaveKeys
<1> QED BY <1>4, <1>5, <1>6 DEF RateLimitInv

LEMMA RateLimitNextInv == RateLimitInv /\ [RateLimitNext]_limitVars => RateLimitInv'
<1> SUFFICES ASSUME RateLimitInv, [RateLimitNext]_limitVars PROVE RateLimitInv'
  OBVIOUS
<1>1. ASSUME NEW c \in LimitCalls, LimitCallEnds(c)
      PROVE  RateLimitInv'
  <2>1. /\ LimitBecomes(c, IdleLimitCall) /\ UNCHANGED <<counter, hasTTL, failClosed, served>>
        /\ counter' \in [LimitKeys -> 0 .. MaxCount]
        /\ \A k \in LimitKeys : counter[k] <= counter'[k]
    BY <1>1, RateLimitAssumption DEF LimitCallEnds, RateLimitInv, RateLimitTypeOK
  <2> QED BY <2>1, LimitEndsStep
<1>2. CASE UNCHANGED limitVars
  BY <1>2 DEF limitVars, RateLimitInv, RateLimitTypeOK, CountersCover, CallsHaveKeys,
     Holders, Passers, MayPass
<1>3. CASE RateLimitNext
  BY <1>1, <1>3, ArriveLimitedStep, CountStep, SetExpiryStep, DecideStep, LimiterFailsStep,
     WindowEndsStep DEF RateLimitNext
<1> QED BY <1>2, <1>3

LEMMA RateLimitInvImplies == RateLimitInv => LimitHolds
<1> SUFFICES ASSUME RateLimitInv PROVE LimitHolds
  OBVIOUS
<1>1. ASSUME NEW k \in LimitKeys
      PROVE  served[k] <= Limit
  <2>1. served[k] + Cardinality(Passers(k)) <= Limit /\ served[k] \in Nat
    BY DEF RateLimitInv, CountersCover, RateLimitTypeOK
  <2>2. Cardinality(Passers(k)) \in Nat
    BY TallyTypes
  <2> QED BY <2>1, <2>2, RateLimitAssumption
<1> QED BY <1>1 DEF RateLimitInv, CallsHaveKeys, LimitHolds, LimitAt

-----------------------------------------------------------------------------
\* All the components side by side: each keeps its own invariant.

\* A step is one of the component that the world has chosen.
LEMMA WorldsStep ==
  ASSUME [ServicesNext]_<<world, talkVars, traitsVars, memberVars, platformVars>>
  PROVE  /\ world' = world
         /\ world = "messaging" => [MessagingNext]_messagingVars
         /\ world = "keyset" => [KeysetNext]_keysetVars
         /\ world = "media" => [MediaNext]_mediaVars
         /\ world = "inbox" => [InboxNext]_inboxVars
         /\ world = "traits" => [TraitsNext]_traitVars
         /\ world = "compatibility" => [CompatibilityNext]_compatVars
         /\ world = "questionnaire" => [QuestionnaireNext]_sheet
         /\ world = "limits" => [RateLimitNext]_limitVars
         /\ world = "migrations" => [MigrationsNext]_migrationVars
         /\ world = "profile" => [ProfileNext]_profileVars
         /\ world = "preferences" => [PreferencesNext]_settings
         /\ world = "accounts" => [AccountsNext]_accountVars
         /\ world = "access" => [AccessNext]_accessVars
         /\ world # "traits" => UNCHANGED traitVars
         /\ world # "profile" => UNCHANGED profileVars
         /\ world # "preferences" => UNCHANGED settings
<1>1. CASE ServicesNext
  BY <1>1 DEF ServicesNext, traitsVars, memberVars
<1>2. CASE UNCHANGED <<world, talkVars, traitsVars, memberVars, platformVars>>
  BY <1>2 DEF talkVars, traitsVars, memberVars, platformVars
<1> QED BY <1>1, <1>2

\* The inductive invariant: that of the component that moves.
ServicesInv ==
  /\ In("messaging", ThreadInv) /\ In("keyset", KeysetInv)
  /\ In("media", MediaInv) /\ In("inbox", InboxInv) /\ In("traits", TraitsInv)
  /\ In("compatibility", CompatibilityTypeOK) /\ In("questionnaire", QuestionnaireTypeOK)
  /\ In("limits", RateLimitInv) /\ In("migrations", MigrationsInv)
  /\ In("profile", ProfileInv) /\ In("preferences", PreferencesInv)
  /\ In("accounts", AccountsInv) /\ In("access", AccessInv)

LEMMA ServicesInitInv == ServicesInit => ServicesInv
BY MessagingInitInv, KeysetInitInv, MediaInitInv, InboxInitInv, TraitsInitInv,
   CompatibilityInitType, QuestionnaireInitType, RateLimitInitInv, MigrationsInitInv,
   ProfileInitInv, PreferencesInitInv, AccountsInitInv, AccessInitInv, Zenon DEF ServicesInit, ServicesInv, In

LEMMA ServicesNextInv ==
  /\ ServicesInv
  /\ [ServicesNext]_<<world, talkVars, traitsVars, memberVars, platformVars>>
  => ServicesInv'
<1> SUFFICES ASSUME ServicesInv,
                    [ServicesNext]_<<world, talkVars, traitsVars, memberVars, platformVars>>
             PROVE  ServicesInv'
  OBVIOUS
<1>1. world' = world
  BY WorldsStep
<1>2. world = "messaging" => ThreadInv'
  BY WorldsStep, MessagingNextInv DEF ServicesInv, In
<1>3. world = "media" => MediaInv'
  BY WorldsStep, MediaNextInv DEF ServicesInv, In
<1>4. world = "inbox" => InboxInv'
  BY WorldsStep, InboxNextInv DEF ServicesInv, In
<1>5. world = "traits" => TraitsInv'
  BY WorldsStep, TraitsNextInv DEF ServicesInv, In
<1>6. world = "limits" => RateLimitInv'
  BY WorldsStep, RateLimitNextInv DEF ServicesInv, In
<1>7. world = "migrations" => MigrationsInv'
  BY WorldsStep, MigrationsNextInv DEF ServicesInv, In
<1>8. world = "accounts" => AccountsInv'
  BY WorldsStep, AccountsNextInv DEF ServicesInv, In
<1>9. world = "access" => AccessInv'
  BY WorldsStep, AccessNextInv DEF ServicesInv, In
<1>10. world = "keyset" => KeysetInv'
  BY WorldsStep, KeysetNextInv DEF ServicesInv, In
<1>11. world = "compatibility" => CompatibilityTypeOK'
  BY WorldsStep, CompatibilityNextType DEF ServicesInv, In
<1>12. world = "questionnaire" => QuestionnaireTypeOK'
  BY WorldsStep, QuestionnaireNextType DEF ServicesInv, In
<1>13. world = "profile" => ProfileInv'
  BY WorldsStep, ProfileNextInv DEF ServicesInv, In
<1>14. world = "preferences" => PreferencesInv'
  BY WorldsStep, PreferencesNextInv DEF ServicesInv, In
<1> QED BY <1>1, <1>2, <1>3, <1>4, <1>5, <1>6, <1>7, <1>8, <1>9, <1>10, <1>11, <1>12,
           <1>13, <1>14 DEF ServicesInv, In

\* Side by side, every component keeps its invariant.
THEOREM ServicesSpecInv == ServicesSpec => []ServicesInv
BY ServicesInitInv, ServicesNextInv, PTL DEF ServicesSpec

\* Every variable of the thirteen components keeps its type, whatever the order
\* of the calls (the tables and caches of the services under internal/).
THEOREM SpecServicesTypeOK == ServicesSpec => []ServicesTypeOK
<1>1. ServicesInv => ServicesTypeOK
  BY ProfileInvImplies, PreferencesInvImplies DEF ServicesInv, ServicesTypeOK, In, ThreadInv,
     KeysetInv, MediaInv, InboxInv, TraitsInv, RateLimitInv, MigrationsInv, AccountsInv, AccessInv
<1> QED BY <1>1, ServicesSpecInv, PTL

\* A compatibility score is in range, the same both ways and the same in SQL and
\* in Go; a sheet is scored when it answers each question once, each trait by the
\* mean of its own questions (domain/traits.go, the ranking query, scoring.go).
THEOREM SpecScoresAreSound == ServicesSpec => []ScoresAreSound
<1>1. ServicesInv => ScoresAreSound
  BY ScoresFollowTypes, SheetsFollowTypes DEF ServicesInv, ScoresAreSound, In
<1> QED BY <1>1, ServicesSpecInv, PTL

\* The gallery keeps its shape and the legacy form its photos, the stored
\* preferences satisfy the table, and a finished form stays finished (profile and
\* preferences services, user_photos, migration 005).
THEOREM SpecMembersSettingsAreSound == ServicesSpec => MembersSettingsAreSound
<1> DEFINE Kept == \A c \in ProfileCalls : KeepsPhotos(c)
           StaysDone == PreferencesDone(settings) => PreferencesDone(settings')
<1>1. ServicesInv => In("profile", GalleryShape) /\ In("preferences", PreferencesAreSound)
  BY ProfileInvImplies, PreferencesInvImplies DEF ServicesInv, In
<1>2. /\ ServicesInv
      /\ [ServicesNext]_<<world, talkVars, traitsVars, memberVars, platformVars>>
      => [Kept]_profileVars
  BY WorldsStep, ProfileNextKeeps DEF ServicesInv, In
<1>3. [ServicesNext]_<<world, talkVars, traitsVars, memberVars, platformVars>>
      => [StaysDone]_settings
  BY WorldsStep, StepStaysDone
<1>4. ServicesSpec => []In("profile", GalleryShape) /\ []In("preferences", PreferencesAreSound)
  BY <1>1, ServicesSpecInv, PTL
<1>5. ServicesSpec => [][Kept]_profileVars
  BY <1>2, ServicesSpecInv, PTL DEF ServicesSpec
<1>6. ServicesSpec => [][StaysDone]_settings
  BY <1>3, PTL DEF ServicesSpec
<1>7. [][Kept]_profileVars => FormKeepsPhotos
  BY DEF FormKeepsPhotos
<1>8. [][StaysDone]_settings => PreferencesStayDone
  BY DEF PreferencesStayDone
<1> QED BY <1>4, <1>5, <1>6, <1>7, <1>8, PTL DEF MembersSettingsAreSound

\* An address has one account, only a link of its own that was not retired
\* verifies it, one link is open unless resends overlapped, and an access token
\* outlives the revocation of its session by less than its life (auth:
\* registration, verification, tokens).
THEOREM SpecIdentitiesAreSound == ServicesSpec => []IdentitiesAreSound
<1>1. ServicesInv => IdentitiesAreSound
  BY AccountsInvImplies, AccessInvImplies DEF ServicesInv, IdentitiesAreSound, In
<1> QED BY <1>1, ServicesSpecInv, PTL

\* The unread counter and the cached trait vector are current unless a call
\* overlapped another (notifications counters, trait cache).
THEOREM SpecCachesAreCurrentUnlessRaced == ServicesSpec => []CachesAreCurrentUnlessRaced
<1>1. ServicesInv => CachesAreCurrentUnlessRaced
  BY DEF ServicesInv, CachesAreCurrentUnlessRaced, In, InboxInv, TraitsInv
<1> QED BY <1>1, ServicesSpecInv, PTL

\* A window serves no more than its limit, a counter that refuses expires, and
\* retakes keep their distance (ratelimit.go, personality service).
THEOREM SpecQuotasHold == ServicesSpec => QuotasHold
<1>1. ServicesInv => In("limits", LimitHolds)
  BY RateLimitInvImplies DEF ServicesInv, In
<1>2. /\ ServicesInv
      /\ [ServicesNext]_<<world, talkVars, traitsVars, memberVars, platformVars>>
      => [RetakeIsSpaced]_traitVars
  BY WorldsStep, StepRetakesAreSpaced DEF ServicesInv, In
<1>3. ServicesSpec => []In("limits", LimitHolds)
  BY <1>1, ServicesSpecInv, PTL
<1>4. ServicesSpec => [][RetakeIsSpaced]_traitVars
  BY <1>2, ServicesSpecInv, PTL DEF ServicesSpec
<1>5. [][RetakeIsSpaced]_traitVars => RetakesAreSpaced
  BY DEF RetakesAreSpaced, RetakeIsSpaced
<1> QED BY <1>3, <1>4, <1>5, PTL DEF QuotasHold
=============================================================================
