------------------------- MODULE BackupRestoreProofs -------------------------
(***************************************************************************)
(* Proofs about export and restore, for every number of hands, saves and   *)
(* corpus cases: with deaths in any operation, restores overwrite nothing, *)
(* hands appear with their screenshot and the corpus keeps to its limit;   *)
(* without deaths, export and restore are indivisible.                     *)
(*                                                                         *)
(* The invariant BackupInv says what a running restore may rely on: its    *)
(* archive still fits the corpus, counted over the hands in the store, the *)
(* temporary directories and the archive together.  SteadyOK adds what     *)
(* only a process that lives keeps to: nothing is left over, and whatever  *)
(* of the archive is not there is still to be written.                     *)
(***************************************************************************)
EXTENDS BackupRestore, TLAPS, FiniteSetTheorems

\* A hand as a restore writes it.
FromArchive(j) == [record |-> archive.jobs[j], image |-> TRUE]

\* A running restore works on an archive the corpus limit has been checked for;
\* the hand it stages is one that is not there, and those it has created are as
\* the archive has them.
RestoreOK ==
    ~ Idle => /\ archive # None
              /\ restore.jobs \subseteq ArchivedIds(archive)
              /\ restore.staged # None => /\ restore.staged \in restore.jobs
                                          /\ dir[restore.staged] = None
              /\ \A j \in restore.newJobs : /\ j \in ArchivedIds(archive)
                                             /\ dir[j] = FromArchive(j)
              /\ FitsCorpus(archive)

\* Whatever is stored, left over or archived was once drawn, and no more than
\* finitely many hands were.
DrawnOK ==
    /\ IsFiniteSet(drawn)
    /\ \A j \in Jobs : dir[j] # None => j \in drawn
    /\ \A entry \in leftover : entry.job \in drawn
    /\ archive # None => ArchivedIds(archive) \subseteq drawn
    /\ IsFiniteSet(leftover)

BackupInv == TypeOK /\ RestoreOK /\ DrawnOK /\ CorpusWithinLimit

Included == {j \in Jobs : Get(j) # None /\ Get(j).included}

-----------------------------------------------------------------------------
(***************************************************************************)
(* Types                                                                   *)
(***************************************************************************)

\* What the type invariant says of a hand.
LEMMA HandTypes ==
    ASSUME TypeOK, NEW j \in Jobs
    PROVE  /\ dir[j] # None => /\ dir[j] \in Dirs
                               /\ dir[j].record \in Records \cup {None}
                               /\ dir[j].image \in BOOLEAN
           /\ Get(j) # None => /\ dir[j] # None
                               /\ Get(j) \in Records
                               /\ Get(j) = dir[j].record
BY DEF TypeOK, Dirs, Get

\* A record that is saved now.
LEMMA NewRecordType ==
    ASSUME TypeOK, saves < MaxSaves, NEW included \in BOOLEAN, NEW active \in BOOLEAN
    PROVE  /\ NewRecord(included, active) \in Records
           /\ NewRecord(included, active) # None
           /\ NewRecord(included, active).included = included
           /\ saves + 1 \in 0 .. MaxSaves
<1>1. saves + 1 \in 1 .. MaxSaves
  BY BoundsAssumption DEF TypeOK
<1>2. NewRecord(included, active) \in Records
  BY <1>1 DEF NewRecord, Records
<1> QED
  BY <1>1, <1>2, NoneIsNoRecord DEF NewRecord

\* The archive a restore works on.
LEMMA ArchiveTypes ==
    ASSUME TypeOK, archive # None
    PROVE  /\ archive.jobs \in [Jobs -> Records \cup {None}]
           /\ archive.reports \subseteq Reports
           /\ ArchivedIds(archive) \subseteq Jobs
           /\ \A j \in ArchivedIds(archive) : archive.jobs[j] \in Records
BY DEF TypeOK, Archives, ArchivedIds

\* What the type invariant says of a running restore.
LEMMA RestoreTypes ==
    ASSUME TypeOK, ~ Idle
    PROVE  /\ restore \in Restores
           /\ restore.jobs \subseteq Jobs /\ restore.newJobs \subseteq Jobs
           /\ restore.staged \in Jobs \cup {None}
           /\ restore.reports \subseteq Reports /\ restore.newReports \subseteq Reports
BY DEF TypeOK, Idle, Restores

\* What a restore has created.
LEMMA NewHands ==
    ASSUME TypeOK, RestoreOK, ~ Idle, NEW j \in restore.newJobs
    PROVE  /\ j \in Jobs /\ j \in ArchivedIds(archive) /\ archive # None
           /\ dir[j] = FromArchive(j) /\ dir[j] # None
           /\ Get(j) = archive.jobs[j] /\ Get(j) # None
<1>1. j \in Jobs /\ j \in ArchivedIds(archive) /\ archive # None /\ dir[j] = FromArchive(j)
  BY RestoreTypes DEF RestoreOK
<1>2. FromArchive(j) \in Dirs /\ archive.jobs[j] # None
  BY <1>1, ArchiveTypes DEF FromArchive, Dirs, ArchivedIds
<1>3. dir[j] # None
  BY <1>1, <1>2, NoneIsNoRecord
<1> QED
  BY <1>1, <1>2, <1>3 DEF Get, FromArchive

\* What an interrupted rmtree leaves of a hand.
LEMMA RemainsTypes ==
    ASSUME TypeOK, NEW j \in Jobs, NEW rest \in Remains(j)
    PROVE  /\ rest \in Dirs
           /\ rest.record # None => rest.record = Get(j)
           /\ rest.image => HasImage(j)
           /\ rest # dir[j]
<1>1. Get(j) \in Records \cup {None}
  BY HandTypes
<1> QED
  BY <1>1 DEF Remains, Dirs

\* What the store lists.
LEMMA ListedTypes ==
    ASSUME TypeOK
    PROVE  \A entry \in Listed : /\ entry.job \in Jobs /\ entry.record \in Records
                                 /\ \/ entry \in leftover
                                    \/ Get(entry.job) # None /\ entry.record = Get(entry.job)
<1>1. \A j \in Jobs : Get(j) # None => Get(j) \in Records
  BY HandTypes
<1> QED
  BY <1>1 DEF Listed, TypeOK, Leftovers

\* Every step keeps the types, action by action.
LEMMA StepKeepsTypes ==
    ASSUME TypeOK, RestoreOK, [Next]_vars
    PROVE  TypeOK'
<1>1. CASE UNCHANGED vars
  BY <1>1 DEF TypeOK, vars
<1>2. ASSUME NEW j \in Jobs, Create(j) PROVE TypeOK'
  <2>1. NewRecord(FALSE, TRUE) \in Records /\ saves + 1 \in 0 .. MaxSaves
    BY <1>2, NewRecordType DEF Create
  <2>2. [record |-> NewRecord(FALSE, TRUE), image |-> TRUE] \in Dirs
    BY <2>1 DEF Dirs
  <2> QED
    BY <1>2, <2>1, <2>2 DEF Create, TypeOK
<1>3. ASSUME NEW j \in Jobs, Delete(j) PROVE TypeOK'
  BY <1>3 DEF Delete, TypeOK
<1>4. ASSUME NEW j \in Jobs, NEW r \in Records, Get(j) # None,
             dir' = [dir EXCEPT ![j].record = r], saves < MaxSaves, saves' = saves + 1,
             UNCHANGED <<leftover, reports, archive, restore, drawn>>
      PROVE  TypeOK'
  <2>1. [dir[j] EXCEPT !.record = r] \in Dirs
    BY <1>4, HandTypes DEF Dirs
  <2>2. dir' = [dir EXCEPT ![j] = [dir[j] EXCEPT !.record = r]]
    BY <1>4
  <2>3. saves + 1 \in 0 .. MaxSaves
    BY <1>4, BoundsAssumption DEF TypeOK
  <2> HIDE DEF Dirs
  <2> QED
    BY <1>4, <2>1, <2>2, <2>3 DEF TypeOK
<1>5. ASSUME NEW j \in Jobs, NEW included \in BOOLEAN, NEW active \in BOOLEAN,
             Save(j, included, active)
      PROVE  TypeOK'
  BY <1>4, <1>5, NewRecordType DEF Save
<1>6. ASSUME NEW j \in Jobs, Restart(j) PROVE TypeOK'
  <2>1. Get(j).included \in BOOLEAN
    BY <1>6, HandTypes DEF Restart, Records
  <2> QED
    BY <1>4, <1>6, <2>1, NewRecordType DEF Restart
<1>7. CASE RunBenchmark
  <2>1. IncludedIds \in Reports
    <3>1. IncludedIds \subseteq Jobs
      BY ListedTypes DEF IncludedIds
    <3> QED
      BY <1>7, <3>1 DEF RunBenchmark, Reports
  <2> QED
    BY <1>7, <2>1 DEF RunBenchmark, TypeOK
<1>8. CASE Export
  <2>1. \A j \in Jobs : Get(j) \in Records \cup {None}
    BY HandTypes
  <2>2. [jobs |-> [j \in Jobs |-> Get(j)], reports |-> reports] \in Archives
    BY <2>1 DEF Archives, TypeOK
  <2> HIDE DEF Archives
  <2> QED
    BY <1>8, <2>2 DEF Export, TypeOK, store
<1>9. CASE StartRestore
  <2> DEFINE r == [jobs |-> ArchivedIds(archive) \ ListedIds, staged |-> None,
                   reports |-> archive.reports \ reports,
                   newJobs |-> {}, newReports |-> {}]
  <2>1. r \in Restores
    BY <1>9, ArchiveTypes DEF StartRestore, Restores
  <2> HIDE DEF r
  <2>2. restore' = r
    BY <1>9 DEF StartRestore, r
  <2> QED
    BY <1>9, <2>1, <2>2 DEF StartRestore, TypeOK, store
<1>10. CASE StartEmpty
  BY <1>10 DEF StartEmpty, TypeOK
<1>11. ASSUME NEW j \in Jobs, StageJob(j) PROVE TypeOK'
  <2>1. archive.jobs[j] \in Records
    BY <1>11, ArchiveTypes DEF StageJob, RestoreOK
  <2>2. [job |-> j, record |-> archive.jobs[j]] \in Leftovers
    BY <2>1 DEF Leftovers
  <2>3. restore' \in Restores
    BY <1>11, RestoreTypes DEF StageJob, Restores
  <2> QED
    BY <1>11, <2>2, <2>3 DEF StageJob, TypeOK
<1>12. CASE PublishJob
  <2>1. PICK j \in Jobs : j = restore.staged
    BY <1>12, RestoreTypes DEF PublishJob
  <2>2. archive.jobs[j] \in Records
    BY <1>12, <2>1, ArchiveTypes DEF PublishJob, RestoreOK
  <2>3. [record |-> archive.jobs[j], image |-> TRUE] \in Dirs
    BY <2>2 DEF Dirs
  <2>4. dir' = [dir EXCEPT ![j] = [record |-> archive.jobs[j], image |-> TRUE]]
        /\ leftover' \subseteq leftover
    BY <1>12, <2>1 DEF PublishJob
  <2>5. restore' \in Restores
    BY <1>12, <2>1, RestoreTypes DEF PublishJob, Restores
  <2> QED
    BY <1>12, <2>3, <2>4, <2>5, ZenonT(60) DEF PublishJob, TypeOK
<1>13. ASSUME NEW report \in Reports, PublishReport(report) PROVE TypeOK'
  <2>1. restore' \in Restores
    BY <1>13, RestoreTypes DEF PublishReport, Restores
  <2> QED
    BY <1>13, <2>1 DEF PublishReport, TypeOK
<1>14. CASE FinishRestore
  BY <1>14 DEF FinishRestore, TypeOK, store
<1>15. CASE RollBack
  BY <1>15 DEF RollBack, TypeOK
<1>16. ASSUME NEW j \in Jobs, DieInCreate(j) PROVE TypeOK'
  <2>1. \A image \in BOOLEAN : [record |-> None, image |-> image] \in Dirs
    BY DEF Dirs
  <2> QED
    BY <1>16, <2>1 DEF DieInCreate, TypeOK
<1>17. ASSUME NEW j \in Jobs, DieInDelete(j) PROVE TypeOK'
  BY <1>17, RemainsTypes DEF DieInDelete, TypeOK
<1>18. CASE DieInRestore
  <2>1. restore' = None /\ UNCHANGED <<archive, saves, drawn>>
    BY <1>18 DEF DieInRestore
  <2>2. CASE UNCHANGED <<dir, leftover, reports>>
    BY <2>1, <2>2 DEF TypeOK
  <2>3. CASE \E j \in restore.newJobs : \E rest \in Remains(j) :
              /\ dir' = [dir EXCEPT ![j] = rest]
              /\ leftover' = {entry \in leftover : entry.job # restore.staged}
              /\ reports' = reports \ restore.newReports
    <3>1. restore.newJobs \subseteq Jobs
      BY <1>18, RestoreTypes DEF DieInRestore
    <3> QED
      BY <2>1, <2>3, <3>1, RemainsTypes DEF TypeOK
  <2> QED
    BY <1>18, <2>2, <2>3 DEF DieInRestore
<1> QED
  BY <1>1, <1>2, <1>3, <1>5, <1>6, <1>7, <1>8, <1>9, <1>10, <1>11, <1>12, <1>13, <1>14,
     <1>15, <1>16, <1>17, <1>18 DEF Next, SteadyNext, UserStep, RestoreStep, Death

-----------------------------------------------------------------------------
(***************************************************************************)
(* Identities                                                              *)
(***************************************************************************)

\* Every step keeps to identities that were drawn.
LEMMA StepKeepsDrawn ==
    ASSUME TypeOK, RestoreOK, DrawnOK, [Next]_vars
    PROVE  DrawnOK'
<1>1. CASE UNCHANGED vars
  BY <1>1 DEF DrawnOK, vars, ArchivedIds
<1>2. ASSUME NEW j \in Jobs, j \notin drawn, drawn' = drawn \cup {j},
             \A i \in Jobs : i # j => dir'[i] = dir[i],
             UNCHANGED <<leftover, archive>>
      PROVE  DrawnOK'
  <2>1. IsFiniteSet(drawn')
    BY <1>2, FS_AddElement DEF DrawnOK
  <2> QED
    BY <1>2, <2>1 DEF DrawnOK, ArchivedIds
<1>3. ASSUME UNCHANGED <<drawn, archive>>, leftover' \subseteq leftover,
             \A j \in Jobs : dir'[j] # None => dir[j] # None
      PROVE  DrawnOK'
  <2>1. IsFiniteSet(leftover')
    BY <1>3, FS_Subset DEF DrawnOK
  <2> QED
    BY <1>3, <2>1 DEF DrawnOK, ArchivedIds
<1>4. ASSUME NEW j \in Jobs, Create(j) \/ DieInCreate(j) PROVE DrawnOK'
  BY <1>2, <1>4 DEF Create, DieInCreate, TypeOK
<1>5. ASSUME NEW j \in Jobs, \/ Delete(j) \/ DieInDelete(j) \/ Restart(j)
                             \/ \E included, active \in BOOLEAN : Save(j, included, active)
      PROVE  DrawnOK'
  <2>1. dir[j] # None
    BY <1>5 DEF Delete, DieInDelete, Restart, Save, Get
  <2>2. \A i \in Jobs : i # j => dir'[i] = dir[i]
    BY <1>5 DEF Delete, DieInDelete, Restart, Save, TypeOK
  <2> QED
    BY <1>3, <1>5, <2>1, <2>2 DEF Delete, DieInDelete, Restart, Save
<1>6. CASE RunBenchmark \/ StartRestore \/ FinishRestore \/ \E report \in Reports : PublishReport(report)
  BY <1>3, <1>6 DEF RunBenchmark, StartRestore, FinishRestore, PublishReport, store
<1>7. CASE Export
  BY <1>7 DEF Export, DrawnOK, store, ArchivedIds, Get
<1>8. CASE StartEmpty \/ RollBack
  BY <1>3, <1>8 DEF StartEmpty, RollBack
<1>9. ASSUME NEW j \in Jobs, StageJob(j) PROVE DrawnOK'
  <2>1. j \in drawn
    BY <1>9 DEF StageJob, RestoreOK, DrawnOK
  <2>2. IsFiniteSet(leftover')
    BY <1>9, FS_AddElement DEF StageJob, DrawnOK
  <2> QED
    BY <1>9, <2>1, <2>2 DEF StageJob, DrawnOK, ArchivedIds
<1>10. CASE PublishJob
  <2>1. PICK j \in Jobs : j = restore.staged
    BY <1>10, RestoreTypes DEF PublishJob
  <2>2. j \in drawn
    BY <1>10, <2>1 DEF PublishJob, RestoreOK, DrawnOK
  <2>3. leftover' \subseteq leftover /\ UNCHANGED <<drawn, archive>>
        /\ \A i \in Jobs : i # j => dir'[i] = dir[i]
    BY <1>10, <2>1 DEF PublishJob, TypeOK
  <2>4. IsFiniteSet(leftover')
    BY <2>3, FS_Subset DEF DrawnOK
  <2> QED
    BY <2>2, <2>3, <2>4 DEF DrawnOK, ArchivedIds
<1>11. CASE DieInRestore
  <2>1. UNCHANGED <<drawn, archive>> /\ leftover' \subseteq leftover
    BY <1>11 DEF DieInRestore
  <2>2. CASE UNCHANGED dir
    BY <1>3, <2>1, <2>2
  <2>3. CASE \E j \in restore.newJobs : \E rest \in Remains(j) : dir' = [dir EXCEPT ![j] = rest]
    <3>1. PICK j \in restore.newJobs : \E rest \in Remains(j) : dir' = [dir EXCEPT ![j] = rest]
      BY <2>3
    <3>2. PICK rest \in Remains(j) : dir' = [dir EXCEPT ![j] = rest]
      BY <3>1
    <3>3. j \in Jobs /\ dir[j] # None
      BY <1>11, NewHands DEF DieInRestore
    <3>4. \A i \in Jobs : i # j => dir'[i] = dir[i]
      BY <3>2 DEF TypeOK
    <3> QED
      BY <1>3, <2>1, <3>3, <3>4
  <2> QED
    BY <1>11, <2>2, <2>3 DEF DieInRestore
<1> QED
  BY <1>1, <1>4, <1>5, <1>6, <1>7, <1>8, <1>9, <1>10, <1>11
  DEF Next, SteadyNext, UserStep, RestoreStep, Death

-----------------------------------------------------------------------------
(***************************************************************************)
(* The corpus during a restore                                             *)
(***************************************************************************)

\* Hands that come from the archive do not add to what was counted before.
LEMMA StillFits ==
    ASSUME TypeOK, DrawnOK, archive # None, UNCHANGED archive, FitsCorpus(archive),
           \A entry \in Listed' : \/ entry \in Listed
                                  \/ /\ entry.job \in ArchivedIds(archive)
                                     /\ entry.record = archive.jobs[entry.job]
    PROVE  FitsCorpus(archive)'
<1> DEFINE counted == IncludedIds \cup
                {j \in ArchivedIds(archive) : archive.jobs[j].included}
<1>1. counted \subseteq drawn
  <2>1. \A entry \in Listed : entry.job \in drawn
    BY ListedTypes DEF DrawnOK, Get
  <2> QED
    BY <2>1 DEF IncludedIds, DrawnOK
<1>2. IsFiniteSet(counted) /\ Cardinality(counted) \in Nat
  BY <1>1, FS_Subset, FS_CardinalityType DEF DrawnOK
<1>3. counted' \subseteq counted
  <2>1. IncludedIds' \subseteq counted
    BY DEF IncludedIds
  <2> QED
    BY <2>1 DEF ArchivedIds
<1>4. Cardinality(counted') <= Cardinality(counted) /\ Cardinality(counted') \in Nat
  BY <1>2, <1>3, FS_Subset, FS_CardinalityType
<1> QED
  BY <1>2, <1>4, BoundsAssumption DEF FitsCorpus

\* Every step keeps what a running restore relies on.
LEMMA StepKeepsRestore ==
    ASSUME TypeOK, RestoreOK, DrawnOK, [Next]_vars
    PROVE  RestoreOK'
<1>1. CASE UNCHANGED vars
  BY <1>1 DEF RestoreOK, vars, Idle, FitsCorpus, IncludedIds, Listed, Get, ArchivedIds, FromArchive
<1>2. CASE Idle /\ restore' = restore
  BY <1>2 DEF RestoreOK, Idle
<1>3. CASE restore' = None
  BY <1>3 DEF RestoreOK, Idle
<1>4. CASE StartRestore
  <2>1. FitsCorpus(archive)'
    BY <1>4 DEF StartRestore, Accepts, FitsCorpus, IncludedIds, Listed, Get, ArchivedIds, store
  <2> QED
    BY <1>4, <2>1 DEF StartRestore, RestoreOK, ArchivedIds
<1>5. ASSUME NEW j \in Jobs, StageJob(j) PROVE RestoreOK'
  <2>1. \A entry \in Listed' : entry \in Listed
                               \/ entry = [job |-> j, record |-> archive.jobs[j]]
    BY <1>5 DEF StageJob, Listed, Get
  <2>2. FitsCorpus(archive)'
    BY <1>5, <2>1, StillFits DEF StageJob, RestoreOK
  <2>3. restore'.staged = j /\ restore'.jobs = restore.jobs /\ restore'.newJobs = restore.newJobs
    BY <1>5, RestoreTypes DEF StageJob, Restores
  <2> QED
    BY <1>5, <2>2, <2>3 DEF StageJob, RestoreOK, ArchivedIds, FromArchive
<1>6. CASE PublishJob
  <2>1. PICK j \in Jobs : j = restore.staged
    BY <1>6, RestoreTypes DEF PublishJob
  <2>2. j \in ArchivedIds(archive) /\ archive # None /\ FitsCorpus(archive)
    BY <1>6, <2>1 DEF PublishJob, RestoreOK
  <2>3. dir' = [dir EXCEPT ![j] = [record |-> archive.jobs[j], image |-> TRUE]]
        /\ leftover' \subseteq leftover /\ UNCHANGED archive
    BY <1>6, <2>1 DEF PublishJob
  <2>4. \A entry \in Listed' : entry \in Listed
                               \/ entry = [job |-> j, record |-> archive.jobs[j]]
    <3>1. \A i \in Jobs : Get(i)' = IF i = j THEN archive.jobs[j] ELSE Get(i)
      <4>1. dir'[j] = [record |-> archive.jobs[j], image |-> TRUE] /\ dir'[j] # None
        <5>1. [record |-> archive.jobs[j], image |-> TRUE] \in Dirs
          BY <2>2, ArchiveTypes DEF Dirs
        <5> QED
          BY <2>3, <5>1, NoneIsNoRecord DEF TypeOK
      <4> QED
        BY <2>3, <4>1 DEF Get, TypeOK
    <3> QED
      BY <2>3, <3>1 DEF Listed
  <2>5. FitsCorpus(archive)'
    BY <2>2, <2>3, <2>4, StillFits
  <2>6. /\ restore'.staged = None /\ restore'.jobs \subseteq restore.jobs
        /\ restore'.newJobs = restore.newJobs \cup {j}
    BY <1>6, <2>1, RestoreTypes DEF PublishJob, Restores
  <2>7. \A i \in restore'.newJobs : i \in ArchivedIds(archive)' /\ dir'[i] = FromArchive(i)'
    <3> SUFFICES ASSUME NEW i \in restore'.newJobs
                 PROVE  i \in ArchivedIds(archive) /\ dir'[i] = FromArchive(i)
      BY <2>3 DEF ArchivedIds, FromArchive
    <3>1. CASE i = j
      BY <2>2, <2>3, <3>1 DEF FromArchive, TypeOK
    <3>2. CASE i # j
      BY <1>6, <2>3, <2>6, <3>2, NewHands DEF PublishJob, TypeOK
    <3> QED
      BY <3>1, <3>2
  <2> QED
    BY <1>6, <2>2, <2>3, <2>5, <2>6, <2>7 DEF PublishJob, RestoreOK, ArchivedIds
<1>7. ASSUME NEW report \in Reports, PublishReport(report) PROVE RestoreOK'
  <2>1. restore'.staged = restore.staged /\ restore'.jobs = restore.jobs
        /\ restore'.newJobs = restore.newJobs
    BY <1>7, RestoreTypes DEF PublishReport, Restores
  <2>2. FitsCorpus(archive)'
    BY <1>7, StillFits DEF PublishReport, RestoreOK, Listed, Get
  <2> QED
    BY <1>7, <2>1, <2>2 DEF PublishReport, RestoreOK, ArchivedIds, FromArchive
<1>8. CASE FinishRestore \/ RollBack \/ DieInRestore
  BY <1>3, <1>8 DEF FinishRestore, RollBack, DieInRestore
<1>9. CASE \/ RunBenchmark \/ Export \/ StartEmpty
           \/ \E j \in Jobs : \/ Create(j) \/ Delete(j)
                              \/ DieInCreate(j) \/ DieInDelete(j) \/ Restart(j)
           \/ \E j \in Jobs, included, active \in BOOLEAN : Save(j, included, active)
  BY <1>2, <1>9 DEF RunBenchmark, Export, StartEmpty, Create, Delete, DieInCreate, DieInDelete,
                    Restart, Save
<1> QED
  BY <1>1, <1>4, <1>5, <1>6, <1>7, <1>8, <1>9 DEF Next, SteadyNext, UserStep, RestoreStep, Death

-----------------------------------------------------------------------------
(***************************************************************************)
(* The corpus                                                              *)
(***************************************************************************)

\* The values of a function are no more than its arguments.
LEMMA ValuesOfFinite ==
    ASSUME NEW S, IsFiniteSet(S), NEW f, f = [x \in S |-> f[x]]
    PROVE  /\ IsFiniteSet({f[x] : x \in S})
           /\ Cardinality({f[x] : x \in S}) <= Cardinality(S)
<1>1. f \in Surjection(S, {f[x] : x \in S})
  BY Zenon DEF Surjection
<1> QED
  BY <1>1, FS_Surjection

\* Selected hands are among those that are counted.
LEMMA SelectedAreCounted ==
    ASSUME TypeOK, DrawnOK
    PROVE  /\ Included \subseteq IncludedIds
           /\ Cardinality(IncludedIds) <= IncludedCount
           /\ IsFiniteSet(Included) /\ Cardinality(Included) \in Nat
           /\ IsFiniteSet(IncludedIds) /\ Cardinality(IncludedIds) \in Nat
           /\ IncludedCount \in Nat
<1> DEFINE entries == {e \in Listed : e.record.included}
<1>1. IsFiniteSet(Listed)
  <2>1. {i \in Jobs : Get(i) # None} \subseteq drawn
    BY DEF DrawnOK, Get
  <2>2. IsFiniteSet({i \in Jobs : Get(i) # None})
    BY <2>1, FS_Subset DEF DrawnOK
  <2>3. IsFiniteSet({[job |-> j, record |-> Get(j)] : j \in {i \in Jobs : Get(i) # None}})
    <3> DEFINE entry == [j \in {i \in Jobs : Get(i) # None} |-> [job |-> j, record |-> Get(j)]]
    <3>1. {[job |-> j, record |-> Get(j)] : j \in {i \in Jobs : Get(i) # None}}
            = {entry[j] : j \in {i \in Jobs : Get(i) # None}}
      BY Zenon
    <3> HIDE DEF entry
    <3>2. entry = [j \in {i \in Jobs : Get(i) # None} |-> entry[j]]
      BY DEF entry
    <3> QED
      BY <2>2, <3>1, <3>2, ValuesOfFinite
  <2> QED
    BY <2>3, FS_Union DEF Listed, DrawnOK
<1>2. IsFiniteSet(entries)
  BY <1>1, FS_Subset
<1>3. IncludedIds = {e.job : e \in entries}
  BY DEF IncludedIds
<1>4. /\ IsFiniteSet({e.job : e \in entries})
      /\ Cardinality({e.job : e \in entries}) <= Cardinality(entries)
  <2> DEFINE job == [e \in entries |-> e.job]
  <2> HIDE DEF entries
  <2>1. {e.job : e \in entries} = {job[e] : e \in entries}
    BY Zenon
  <2> HIDE DEF job
  <2>2. job = [e \in entries |-> job[e]]
    BY DEF job
  <2> QED
    BY <1>2, <2>1, <2>2, ValuesOfFinite
<1>5. IncludedCount = Cardinality(entries) /\ IncludedCount \in Nat
  BY <1>2, FS_CardinalityType DEF IncludedCount
<1>6. Included \subseteq IncludedIds
  <2> SUFFICES ASSUME NEW j \in Included PROVE j \in IncludedIds
    OBVIOUS
  <2>1. [job |-> j, record |-> Get(j)] \in entries
    BY DEF Included, Listed
  <2> QED
    BY <1>3, <2>1
<1>7. IsFiniteSet(Included)
  BY <1>3, <1>4, <1>6, FS_Subset
<1> QED
  BY <1>3, <1>4, <1>5, <1>6, <1>7, FS_CardinalityType

\* A step after which no other hand is selected keeps the limit.
LEMMA FewerSelected ==
    ASSUME TypeOK, DrawnOK, CorpusWithinLimit,
           \A j \in Jobs : Get(j)' # None /\ Get(j)'.included => Get(j) # None /\ Get(j).included
    PROVE  CorpusWithinLimit'
<1>1. IsFiniteSet(Included) /\ Cardinality(Included) \in Nat
  BY SelectedAreCounted
<1>2. Included' \subseteq Included
  BY DEF Included
<1>3. Cardinality(Included') <= Cardinality(Included) /\ Cardinality(Included') \in Nat
  BY <1>1, <1>2, FS_Subset, FS_CardinalityType
<1> QED
  BY <1>1, <1>3, BoundsAssumption DEF CorpusWithinLimit, Included

\* Once an archive has been found to fit, hands that come from the store or
\* from the archive are within the limit.
LEMMA FittingIsWithinLimit ==
    ASSUME TypeOK, DrawnOK, archive # None, FitsCorpus(archive),
           NEW S, S \subseteq IncludedIds \cup
                     {j \in ArchivedIds(archive) : archive.jobs[j].included}
    PROVE  Cardinality(S) <= MaxDatasetCases
<1> DEFINE counted == IncludedIds \cup
                {j \in ArchivedIds(archive) : archive.jobs[j].included}
<1>1. IsFiniteSet(counted) /\ Cardinality(counted) \in Nat
  <2>1. IsFiniteSet({j \in ArchivedIds(archive) : archive.jobs[j].included})
    <3>1. {j \in ArchivedIds(archive) : archive.jobs[j].included} \subseteq drawn
      BY DEF DrawnOK
    <3> QED
      BY <3>1, FS_Subset DEF DrawnOK
  <2> QED
    BY <2>1, SelectedAreCounted, FS_Union, FS_CardinalityType
<1>2. Cardinality(S) <= Cardinality(counted) /\ Cardinality(S) \in Nat
  BY <1>1, FS_Subset, FS_CardinalityType
<1> QED
  BY <1>1, <1>2, BoundsAssumption DEF FitsCorpus

\* Every step keeps the corpus within its limit.
LEMMA StepKeepsCorpus ==
    ASSUME TypeOK, RestoreOK, DrawnOK, CorpusWithinLimit, [Next]_vars
    PROVE  CorpusWithinLimit'
<1>0. TypeOK' /\ DrawnOK' /\ RestoreOK'
  BY StepKeepsTypes, StepKeepsDrawn, StepKeepsRestore
<1>1. ASSUME UNCHANGED dir PROVE CorpusWithinLimit'
  BY <1>1 DEF CorpusWithinLimit, Get
<1>2. ASSUME NEW j \in Jobs, \A i \in Jobs : i # j => dir'[i] = dir[i],
             dir'[j] # None /\ dir'[j].record # None /\ dir'[j].record.included =>
                 Get(j) # None /\ Get(j).included
      PROVE  CorpusWithinLimit'
  <2>1. \A i \in Jobs : Get(i)' # None /\ Get(i)'.included => Get(i) # None /\ Get(i).included
    BY <1>2 DEF Get
  <2> QED
    BY <2>1, FewerSelected
<1>3. ASSUME NEW j \in Jobs, Create(j) PROVE CorpusWithinLimit'
  <2>1. dir'[j] = [record |-> NewRecord(FALSE, TRUE), image |-> TRUE]
        /\ \A i \in Jobs : i # j => dir'[i] = dir[i]
    BY <1>3 DEF Create, TypeOK
  <2> QED
    BY <1>2, <2>1 DEF NewRecord
<1>4. ASSUME NEW j \in Jobs, NEW included \in BOOLEAN, NEW active \in BOOLEAN,
             Save(j, included, active)
      PROVE  CorpusWithinLimit'
  <2>1. dir'[j].record = NewRecord(included, active)
        /\ \A i \in Jobs : i # j => dir'[i] = dir[i]
    <3>1. dir[j] \in Dirs
      BY <1>4, HandTypes DEF Save
    <3> QED
      BY <1>4, <3>1 DEF Save, TypeOK, Dirs
  <2>2. CASE included => Get(j).included
    BY <1>2, <1>4, <2>1, <2>2 DEF Save, NewRecord
  <2>3. CASE included /\ ~ Get(j).included
    <3>1. Included' \subseteq Included \cup {j}
      BY <2>1 DEF Included, Get
    <3>2. Cardinality(Included) < MaxDatasetCases
      BY <1>4, <2>3, SelectedAreCounted, FS_Subset, BoundsAssumption DEF Save
    <3>3. IsFiniteSet(Included \cup {j})
          /\ Cardinality(Included \cup {j}) <= Cardinality(Included) + 1
      <4>1. IsFiniteSet(Included) /\ Cardinality(Included) \in Nat
        BY SelectedAreCounted
      <4> HIDE DEF Included
      <4>2. /\ IsFiniteSet(Included \cup {j})
            /\ Cardinality(Included \cup {j}) =
                  IF j \in Included THEN Cardinality(Included) ELSE Cardinality(Included) + 1
        BY <4>1, FS_AddElement
      <4> QED
        BY <4>1, <4>2
    <3>4. /\ Cardinality(Included') <= Cardinality(Included \cup {j})
          /\ Cardinality(Included') \in Nat /\ Cardinality(Included \cup {j}) \in Nat
          /\ Cardinality(Included) \in Nat
      BY <3>1, <3>3, SelectedAreCounted, FS_Subset, FS_CardinalityType
    <3> QED
      BY <3>2, <3>3, <3>4, BoundsAssumption DEF CorpusWithinLimit, Included
  <2> QED
    BY <2>2, <2>3
<1>5. ASSUME NEW j \in Jobs, \/ Delete(j) \/ DieInCreate(j) \/ DieInDelete(j) \/ Restart(j)
      PROVE  CorpusWithinLimit'
  <2>1. \A i \in Jobs : i # j => dir'[i] = dir[i]
    BY <1>5 DEF Delete, DieInCreate, DieInDelete, Restart, TypeOK
  <2>2. CASE Delete(j)
    BY <1>2, <2>1, <2>2 DEF Delete, TypeOK
  <2>3. CASE DieInCreate(j)
    BY <1>2, <2>1, <2>3 DEF DieInCreate, TypeOK
  <2>4. CASE DieInDelete(j)
    <3>1. PICK rest \in Remains(j) : dir' = [dir EXCEPT ![j] = rest]
      BY <2>4 DEF DieInDelete
    <3>2. rest.record # None => rest.record = Get(j)
      BY RemainsTypes
    <3> QED
      BY <1>2, <2>1, <2>4, <3>1, <3>2 DEF DieInDelete, TypeOK
  <2>5. CASE Restart(j)
    <3>1. dir[j] \in Dirs
      BY <2>5, HandTypes DEF Restart
    <3>2. dir'[j].record.included = Get(j).included /\ Get(j) # None
      BY <2>5, <3>1 DEF Restart, TypeOK, Dirs, NewRecord
    <3> QED
      BY <1>2, <2>1, <3>2
  <2> QED
    BY <1>5, <2>2, <2>3, <2>4, <2>5
<1>6. CASE StartEmpty \/ RollBack
  <2>1. \A j \in Jobs : dir'[j] = None \/ dir'[j] = dir[j]
    BY <1>6 DEF StartEmpty, RollBack
  <2>2. \A j \in Jobs : Get(j)' # None => Get(j)' = Get(j)
    BY <2>1 DEF Get
  <2> QED
    BY <2>2, FewerSelected
<1>7. CASE PublishJob
  <2>1. PICK j \in Jobs : j = restore.staged
    BY <1>7, RestoreTypes DEF PublishJob
  <2>2. archive # None /\ FitsCorpus(archive) /\ j \in ArchivedIds(archive)
    BY <1>7, <2>1 DEF PublishJob, RestoreOK
  <2>3. dir' = [dir EXCEPT ![j] = [record |-> archive.jobs[j], image |-> TRUE]]
    BY <1>7, <2>1 DEF PublishJob
  <2>4. Included' \subseteq IncludedIds \cup
                {i \in ArchivedIds(archive) : archive.jobs[i].included}
    <3>1. Included' \subseteq Included \cup {j}
          /\ (j \in Included' => archive.jobs[j].included)
      BY <2>3 DEF Included, Get, TypeOK
    <3> QED
      BY <2>2, <3>1, SelectedAreCounted
  <2>5. PICK S : S = Included'
    OBVIOUS
  <2>6. Cardinality(S) <= MaxDatasetCases
    BY <2>2, <2>4, <2>5, FittingIsWithinLimit
  <2> QED
    BY <2>5, <2>6 DEF CorpusWithinLimit, Included
<1>8. CASE DieInRestore
  <2>1. CASE UNCHANGED dir
    BY <1>1, <2>1
  <2>2. CASE \E j \in restore.newJobs : \E rest \in Remains(j) : dir' = [dir EXCEPT ![j] = rest]
    <3>1. PICK j \in restore.newJobs : \E rest \in Remains(j) : dir' = [dir EXCEPT ![j] = rest]
      BY <2>2
    <3>2. PICK rest \in Remains(j) : dir' = [dir EXCEPT ![j] = rest]
      BY <3>1
    <3>3. j \in Jobs /\ Get(j) # None
      BY <1>8, NewHands DEF DieInRestore
    <3>4. rest.record # None => rest.record = Get(j)
      BY <3>3, RemainsTypes
    <3>5. dir'[j] = rest /\ \A i \in Jobs : i # j => dir'[i] = dir[i]
      BY <3>2, <3>3 DEF TypeOK
    <3> QED
      BY <1>2, <3>3, <3>4, <3>5
  <2> QED
    BY <1>8, <2>1, <2>2 DEF DieInRestore
<1>9. CASE \/ UNCHANGED vars \/ RunBenchmark \/ Export \/ StartRestore \/ FinishRestore
           \/ \E j \in Jobs : StageJob(j)
           \/ \E report \in Reports : PublishReport(report)
  BY <1>1, <1>9 DEF vars, RunBenchmark, Export, StartRestore, FinishRestore, StageJob,
                    PublishReport, store
<1> QED
  BY <1>3, <1>4, <1>5, <1>6, <1>7, <1>8, <1>9 DEF Next, SteadyNext, UserStep, RestoreStep, Death

-----------------------------------------------------------------------------
(***************************************************************************)
(* Invariants                                                              *)
(***************************************************************************)

\* The invariant at the start.
LEMMA InitialBackup == Init => BackupInv
<1> SUFFICES ASSUME Init PROVE BackupInv
  OBVIOUS
<1>1. TypeOK
  BY BoundsAssumption DEF Init, TypeOK, Dirs, Archives, Restores
<1>2. RestoreOK
  BY DEF Init, RestoreOK, Idle
<1>3. DrawnOK
  BY FS_EmptySet DEF Init, DrawnOK
<1>4. CorpusWithinLimit
  <2>1. {j \in Jobs : Get(j) # None /\ Get(j).included} = {}
    BY DEF Init, Get
  <2> QED
    BY <2>1, FS_EmptySet, BoundsAssumption DEF CorpusWithinLimit
<1> QED
  BY <1>1, <1>2, <1>3, <1>4 DEF BackupInv

\* The invariant is inductive.
LEMMA StepKeepsBackup == BackupInv /\ [Next]_vars => BackupInv'
BY StepKeepsTypes, StepKeepsRestore, StepKeepsDrawn, StepKeepsCorpus DEF BackupInv

\* The store, the archive and a running restore fit together, deaths included.
THEOREM BackupInvariant == Spec => []BackupInv
BY InitialBackup, StepKeepsBackup, PTL DEF Spec

\* Every directory, leftover and archive has its shape, and the clock its range.
THEOREM BackupTypeCorrect == Spec => []TypeOK
BY BackupInvariant, PTL DEF BackupInv

\* However hands come into the corpus, and whatever a death leaves behind, it
\* keeps to the limit.
THEOREM RestoresKeepCorpusLimit == Spec => []CorpusWithinLimit
BY BackupInvariant, PTL DEF BackupInv

-----------------------------------------------------------------------------
(***************************************************************************)
(* Steps                                                                   *)
(***************************************************************************)

\* A hand becomes readable only with its screenshot.
AppearsComplete ==
    \A j \in Jobs : Get(j) = None /\ Get(j)' # None => HasImage(j)'

\* No step makes a hand readable without its screenshot.
LEMMA StepAppearsComplete ==
    ASSUME TypeOK, RestoreOK, [Next]_vars
    PROVE  AppearsComplete
<1>1. ASSUME \A j \in Jobs : Get(j)' # None => Get(j) # None
      PROVE  AppearsComplete
  BY <1>1 DEF AppearsComplete
<1>2. ASSUME NEW j \in Jobs, \A i \in Jobs : i # j => dir'[i] = dir[i],
             Get(j) # None \/ Get(j)' = None \/ HasImage(j)'
      PROVE  AppearsComplete
  BY <1>2 DEF AppearsComplete, Get
<1>3. ASSUME NEW j \in Jobs, Create(j) PROVE AppearsComplete
  <2>1. [record |-> NewRecord(FALSE, TRUE), image |-> TRUE] \in Dirs
    BY <1>3, NewRecordType DEF Create, Dirs
  <2>2. dir'[j] = [record |-> NewRecord(FALSE, TRUE), image |-> TRUE] /\ dir'[j] # None
        /\ \A i \in Jobs : i # j => dir'[i] = dir[i]
    BY <1>3, <2>1, NoneIsNoRecord DEF Create, TypeOK
  <2>3. HasImage(j)'
    BY <2>2 DEF HasImage, NewRecord
  <2> QED
    BY <1>2, <2>2, <2>3
<1>4. ASSUME NEW j \in Jobs, \/ Delete(j) \/ Restart(j) \/ DieInDelete(j)
                             \/ \E included, active \in BOOLEAN : Save(j, included, active)
      PROVE  AppearsComplete
  <2>1. Get(j) # None
    BY <1>4 DEF Delete, Restart, DieInDelete, Save
  <2>2. \A i \in Jobs : i # j => dir'[i] = dir[i]
    BY <1>4 DEF Delete, Restart, DieInDelete, Save, TypeOK
  <2> QED
    BY <1>2, <2>1, <2>2
<1>5. ASSUME NEW j \in Jobs, DieInCreate(j) PROVE AppearsComplete
  <2>1. Get(j)' = None /\ \A i \in Jobs : i # j => dir'[i] = dir[i]
    BY <1>5 DEF DieInCreate, TypeOK, Get
  <2> QED
    BY <1>2, <2>1
<1>6. CASE StartEmpty \/ RollBack
  <2>1. \A j \in Jobs : dir'[j] = None \/ dir'[j] = dir[j]
    BY <1>6 DEF StartEmpty, RollBack
  <2> QED
    BY <1>1, <2>1 DEF Get
<1>7. CASE PublishJob
  <2>1. PICK j \in Jobs : j = restore.staged
    BY <1>7, RestoreTypes DEF PublishJob
  <2>2. archive.jobs[j] \in Records
    BY <1>7, <2>1, ArchiveTypes DEF PublishJob, RestoreOK
  <2>3. [record |-> archive.jobs[j], image |-> TRUE] \in Dirs
    BY <2>2 DEF Dirs
  <2>4. dir'[j] = [record |-> archive.jobs[j], image |-> TRUE] /\ dir'[j] # None
        /\ \A i \in Jobs : i # j => dir'[i] = dir[i]
    BY <1>7, <2>1, <2>3, NoneIsNoRecord DEF PublishJob, TypeOK
  <2>5. HasImage(j)'
    BY <2>4 DEF HasImage
  <2> QED
    BY <1>2, <2>4, <2>5
<1>8. CASE DieInRestore
  <2>1. CASE UNCHANGED dir
    BY <1>1, <2>1 DEF Get
  <2>2. CASE \E j \in restore.newJobs : \E rest \in Remains(j) : dir' = [dir EXCEPT ![j] = rest]
    <3>1. PICK j \in restore.newJobs : \E rest \in Remains(j) : dir' = [dir EXCEPT ![j] = rest]
      BY <2>2
    <3>2. j \in Jobs /\ Get(j) # None
      BY <1>8, NewHands DEF DieInRestore
    <3>3. \A i \in Jobs : i # j => dir'[i] = dir[i]
      BY <3>1 DEF TypeOK
    <3> QED
      BY <1>2, <3>2, <3>3
  <2> QED
    BY <1>8, <2>1, <2>2 DEF DieInRestore
<1>9. CASE \/ UNCHANGED vars \/ RunBenchmark \/ Export \/ StartRestore \/ FinishRestore
           \/ \E j \in Jobs : StageJob(j)
           \/ \E report \in Reports : PublishReport(report)
  <2>1. UNCHANGED dir
    BY <1>9 DEF vars, RunBenchmark, Export, StartRestore, FinishRestore, StageJob,
                PublishReport, store
  <2> QED
    BY <1>1, <2>1 DEF Get
<1> QED
  BY <1>3, <1>4, <1>5, <1>6, <1>7, <1>8, <1>9 DEF Next, SteadyNext, UserStep, RestoreStep, Death

\* A running restore leaves alone what it has not created itself.
LeavesOthersAlone ==
    ~ Idle => \A j \in Jobs : Get(j) # None /\ j \notin restore.newJobs => dir'[j] = dir[j]

\* No step of a restore touches a hand it has not created.
LEMMA StepLeavesOthersAlone ==
    ASSUME TypeOK, RestoreOK, [Next]_vars
    PROVE  LeavesOthersAlone
<1> SUFFICES ASSUME ~ Idle, NEW j \in Jobs, Get(j) # None, j \notin restore.newJobs
             PROVE  dir'[j] = dir[j]
  BY DEF LeavesOthersAlone
<1>1. CASE PublishJob
  <2>1. restore.staged # j /\ restore.staged \in Jobs
    BY <1>1, RestoreTypes DEF PublishJob, RestoreOK, Get
  <2> QED
    BY <1>1, <2>1 DEF PublishJob, TypeOK
<1>2. CASE RollBack
  BY <1>2 DEF RollBack
<1>3. CASE DieInRestore
  BY <1>3 DEF DieInRestore, TypeOK
<1>4. CASE UNCHANGED dir
  BY <1>4
<1>5. UNCHANGED dir \/ PublishJob \/ RollBack \/ DieInRestore
  <2>1. CASE RestoreStep
    BY <2>1 DEF RestoreStep, StageJob, PublishReport, FinishRestore, store
  <2>2. CASE UNCHANGED vars
    BY <2>2 DEF vars
  <2>3. ~ UserStep /\ (Death => DieInRestore)
    BY DEF UserStep, Death, Create, Delete, Save, RunBenchmark, Export, StartRestore, StartEmpty,
           DieInCreate, DieInDelete, Restart
  <2> QED
    BY <2>1, <2>2, <2>3 DEF Next, SteadyNext
<1> QED
  BY <1>1, <1>2, <1>3, <1>4, <1>5

\* Image before record in create_job, and the rename of a whole directory in a
\* restore: no hand becomes readable without its screenshot.
THEOREM HandsAppearComplete == Spec => AppearsWithImage
<1>1. BackupInv /\ [Next]_vars => AppearsComplete
  BY StepAppearsComplete DEF BackupInv
<1> QED
  BY <1>1, BackupInvariant, PTL DEF Spec, AppearsWithImage, AppearsComplete

\* A restore overwrites no hand and takes back only what it has created.
THEOREM RestoresOverwriteNothing == Spec => RestoreNeverOverwrites
<1>1. BackupInv /\ [Next]_vars => LeavesOthersAlone
  BY StepLeavesOthersAlone DEF BackupInv
<1> QED
  BY <1>1, BackupInvariant, PTL DEF Spec, RestoreNeverOverwrites, LeavesOthersAlone

-----------------------------------------------------------------------------
(***************************************************************************)
(* One step for others                                                     *)
(***************************************************************************)

\* Without deaths, all that is left over is the hand being staged; what is not
\* there yet of the archive is still to be written, and the rest is quiet.
SteadyOK ==
    /\ leftover \subseteq {[job |-> restore.staged, record |-> archive.jobs[restore.staged]]}
    /\ leftover # {} => ~ Idle /\ restore.staged # None
    /\ ~ Idle =>
          /\ \A j \in ArchivedIds(archive) : j \in restore.jobs \/ Get(j) = archive.jobs[j]
          /\ \A j \in Jobs \ restore.newJobs : Get(j) # None => ~ IsActive(Get(j))
          /\ restore.reports \cap reports = {}
          /\ archive.reports \subseteq reports \cup restore.reports
          /\ restore.newReports \cup restore.reports \subseteq archive.reports

\* An accepted restore starts with nothing left over and no conflict.
LEMMA SteadyStart ==
    ASSUME TypeOK, SteadyOK, StartRestore
    PROVE  SteadyOK'
<1>1. leftover = {} /\ Idle
  BY DEF SteadyOK, StartRestore
<1>2. \A j \in Jobs : Get(j) # None => [job |-> j, record |-> Get(j)] \in Listed /\ j \in ListedIds
  BY DEF Listed, ListedIds
<1>3. \A j \in Jobs : Get(j) # None => ~ IsActive(Get(j))
  BY <1>2 DEF StartRestore, Accepts, Quiet, IsActive
<1>4. ASSUME NEW j \in ArchivedIds(archive), j \in ListedIds PROVE Get(j) = archive.jobs[j]
  <2>1. PICK entry \in Listed : entry.job = j
    BY <1>4 DEF ListedIds
  <2>2. entry.record = archive.jobs[j]
    BY <1>4, <2>1 DEF StartRestore, Accepts, Conflicts
  <2>3. entry.record = Get(j)
    BY <1>1, <2>1, ListedTypes
  <2> QED
    BY <2>2, <2>3
<1>5. restore' = [jobs |-> ArchivedIds(archive) \ ListedIds, staged |-> None,
                  reports |-> archive.reports \ reports,
                  newJobs |-> {}, newReports |-> {}]
      /\ UNCHANGED <<dir, leftover, reports, archive>>
  BY DEF StartRestore, store
<1> QED
  BY <1>1, <1>3, <1>4, <1>5 DEF SteadyOK, Idle, Get, ArchivedIds

\* Without deaths every step keeps SteadyOK.
LEMMA StepKeepsSteady ==
    ASSUME TypeOK, RestoreOK, SteadyOK, [SteadyNext]_vars
    PROVE  SteadyOK'
<1>1. CASE UNCHANGED vars
  BY <1>1 DEF SteadyOK, vars, Idle, Get, ArchivedIds
<1>2. CASE Idle /\ restore' = restore /\ leftover' \subseteq leftover
  BY <1>2 DEF SteadyOK, Idle
<1>3. CASE UserStep
  <2>1. CASE StartRestore
    BY <2>1, SteadyStart
  <2>2. CASE ~ StartRestore
    BY <1>2, <1>3, <2>2 DEF UserStep, Create, Delete, Save, RunBenchmark, Export, StartEmpty, store
  <2> QED
    BY <2>1, <2>2
<1>4. ASSUME NEW j \in Jobs, StageJob(j) PROVE SteadyOK'
  <2>1. /\ restore'.staged = j /\ restore'.jobs = restore.jobs
        /\ restore'.newJobs = restore.newJobs /\ restore'.reports = restore.reports
        /\ restore'.newReports = restore.newReports
        /\ restore' # None
    <3>1. restore' \in Restores
      BY <1>4, RestoreTypes DEF StageJob, Restores
    <3> QED
      BY <1>4, <3>1, RestoreTypes, NoneIsNoRecord DEF StageJob, Restores
  <2>2. leftover' = {[job |-> j, record |-> archive.jobs[j]]} /\ j # None
    BY <1>4, NoneIsNoRecord DEF StageJob, SteadyOK
  <2> QED
    BY <1>4, <2>1, <2>2 DEF StageJob, SteadyOK, Idle, Get, ArchivedIds
<1>5. CASE PublishJob
  <2>1. PICK j \in Jobs : j = restore.staged
    BY <1>5, RestoreTypes DEF PublishJob
  <2>2. /\ restore'.staged = None /\ restore'.jobs = restore.jobs \ {j}
        /\ restore'.newJobs = restore.newJobs \cup {j} /\ restore'.reports = restore.reports
        /\ restore'.newReports = restore.newReports
        /\ restore' # None
    <3>1. restore' \in Restores
      BY <1>5, <2>1, RestoreTypes DEF PublishJob, Restores
    <3> QED
      BY <1>5, <2>1, <3>1, RestoreTypes, NoneIsNoRecord DEF PublishJob, Restores
  <2>3. leftover' = {}
    BY <1>5, <2>1 DEF PublishJob, SteadyOK
  <2>4. /\ dir' = [dir EXCEPT ![j] = [record |-> archive.jobs[j], image |-> TRUE]]
        /\ UNCHANGED <<reports, archive>> /\ ~ Idle
    BY <1>5, <2>1 DEF PublishJob
  <2>5. \A i \in Jobs : i # j => Get(i)' = Get(i)
    BY <2>4 DEF Get, TypeOK
  <2>6. Get(j)' = archive.jobs[j]
    <3>1. archive.jobs[j] \in Records
      BY <1>5, <2>1, ArchiveTypes DEF PublishJob, RestoreOK
    <3>2. [record |-> archive.jobs[j], image |-> TRUE] \in Dirs
      BY <3>1 DEF Dirs
    <3> QED
      BY <2>4, <3>2, NoneIsNoRecord DEF Get, TypeOK
  <2>7. ArchivedIds(archive)' = ArchivedIds(archive) /\ ArchivedIds(archive) \subseteq Jobs
    BY <2>4 DEF ArchivedIds
  <2> QED
    BY <2>2, <2>3, <2>4, <2>5, <2>6, <2>7 DEF SteadyOK, Idle
<1>6. ASSUME NEW report \in Reports, PublishReport(report) PROVE SteadyOK'
  <2>1. /\ restore'.staged = restore.staged /\ restore'.jobs = restore.jobs
        /\ restore'.newJobs = restore.newJobs
        /\ restore'.reports = restore.reports \ {report}
        /\ restore'.newReports = restore.newReports \cup {report}
        /\ restore' # None
    <3>1. restore' \in Restores
      BY <1>6, RestoreTypes DEF PublishReport, Restores
    <3> QED
      BY <1>6, <3>1, RestoreTypes, NoneIsNoRecord DEF PublishReport, Restores
  <2> QED
    BY <1>6, <2>1 DEF PublishReport, SteadyOK, Idle, Get, ArchivedIds
<1>7. CASE FinishRestore
  <2>1. leftover = {}
    BY <1>7 DEF FinishRestore, SteadyOK, RestoreOK
  <2> QED
    BY <1>7, <2>1 DEF FinishRestore, SteadyOK, Idle, store
<1>8. CASE RollBack
  <2>1. leftover' = {} /\ restore' = None
    BY <1>8 DEF RollBack, SteadyOK
  <2> QED
    BY <2>1 DEF SteadyOK, Idle
<1> QED
  BY <1>1, <1>3, <1>4, <1>5, <1>6, <1>7, <1>8 DEF SteadyNext, RestoreStep

\* SteadyOK at the start.
LEMMA InitialSteady == Init => SteadyOK
BY DEF Init, SteadyOK, Idle

Unseen == UNCHANGED <<Stored, StoredReports, archive>>

\* Outside restores the store is what it shows.
LEMMA ShownWhenIdle ==
    /\ Idle => Stored = [j \in Jobs |-> Get(j)] /\ StoredReports = reports
    /\ Idle' => Stored' = [j \in Jobs |-> Get(j)'] /\ StoredReports' = reports'
BY DEF Stored, StoredReports

\* An operation on one hand is a change of one.
LEMMA HandChanges ==
    ASSUME TypeOK, TypeOK', Idle, Idle', NEW j \in Jobs,
           \A i \in Jobs : i # j => dir'[i] = dir[i], UNCHANGED <<reports, archive>>
    PROVE  Atomic!ChangeJob
<1>1. \A i \in Jobs : i # j => Get(i)' = Get(i)
  BY DEF Get
<1>2. Get(j)' \in Records \cup {None}
  BY DEF TypeOK, Dirs, Get
<1>3. Stored' = [Stored EXCEPT ![j] = Get(j)'] /\ StoredReports' = StoredReports
  BY <1>1, ShownWhenIdle
<1> QED
  BY <1>2, <1>3 DEF Atomic!ChangeJob

\* Changes, reports and exports are those of AtomicBackup; the start of a restore is unseen.
LEMMA UserStepsRefine ==
    ASSUME TypeOK, TypeOK', UserStep
    PROVE  Atomic!Next \/ Unseen
<1>1. Idle
  BY DEF UserStep, Create, Delete, Save, RunBenchmark, Export, StartRestore, StartEmpty
<1>2. ASSUME NEW j \in Jobs, \/ Create(j) \/ Delete(j)
                             \/ \E included, active \in BOOLEAN : Save(j, included, active)
      PROVE  Atomic!ChangeJob
  <2>1. /\ \A i \in Jobs : i # j => dir'[i] = dir[i]
        /\ UNCHANGED <<reports, archive, restore>>
    BY <1>2 DEF Create, Delete, Save, TypeOK
  <2> QED
    BY <1>1, <2>1, HandChanges DEF Idle
<1>3. CASE RunBenchmark
  <2>1. IncludedIds \in Reports
    <3>1. IncludedIds \subseteq Jobs
      BY ListedTypes DEF IncludedIds
    <3> QED
      BY <1>3, <3>1 DEF RunBenchmark, Reports
  <2>2. /\ reports' = reports \cup {IncludedIds} /\ Idle'
        /\ Stored' = Stored /\ archive' = archive
    BY <1>1, <1>3 DEF RunBenchmark, Idle, Stored, Get
  <2> QED
    BY <1>1, <2>1, <2>2, ShownWhenIdle DEF Atomic!Next, Atomic!AddReport
<1>4. CASE Export
  <2>1. \A j \in Jobs : Get(j) # None => ~ IsActive(Get(j))
    <3>1. \A j \in Jobs : Get(j) # None => [job |-> j, record |-> Get(j)] \in Listed
      BY DEF Listed
    <3> QED
      BY <1>4, <3>1 DEF Export, Quiet, IsActive
  <2>2. Idle' /\ UNCHANGED <<Stored, StoredReports>>
    BY <1>1, <1>4 DEF Export, store, Idle, Stored, StoredReports, Get
  <2>3. archive' = [jobs |-> Stored, reports |-> StoredReports]
    BY <1>1, <1>4, ShownWhenIdle DEF Export
  <2>4. \A j \in Jobs : Stored[j] # None => ~ IsActive(Stored[j])
    BY <1>1, <2>1, ShownWhenIdle
  <2> QED
    BY <2>2, <2>3, <2>4 DEF Atomic!Next, Atomic!Export
<1>5. CASE StartRestore
  <2>1. /\ restore' = [jobs |-> ArchivedIds(archive) \ ListedIds, staged |-> None,
                       reports |-> archive.reports \ reports,
                       newJobs |-> {}, newReports |-> {}]
        /\ UNCHANGED <<dir, reports, archive>>
    BY <1>5 DEF StartRestore, store
  <2> QED
    BY <1>1, <2>1 DEF Unseen, Stored, StoredReports, Get
<1>6. CASE StartEmpty
  <2>1. Idle' /\ reports' = {} /\ archive' = archive /\ \A j \in Jobs : Get(j)' = None
    BY <1>1, <1>6 DEF StartEmpty, Idle, Get
  <2> QED
    BY <2>1, ShownWhenIdle DEF Atomic!Next, Atomic!StartEmpty
<1> QED
  BY <1>2, <1>3, <1>4, <1>5, <1>6 DEF UserStep, Atomic!Next

\* The last step of a restore is the whole restore of AtomicBackup.
LEMMA FinishRefines ==
    ASSUME TypeOK, RestoreOK, SteadyOK, FinishRestore
    PROVE  Atomic!Restore
<1>1. /\ ~ Idle /\ Idle' /\ restore.jobs = {} /\ restore.reports = {}
      /\ UNCHANGED <<dir, reports, archive>> /\ archive # None
  BY DEF FinishRestore, Idle, store, RestoreOK
<1>2. \A j \in Jobs : Stored[j] = IF j \in restore.newJobs THEN None ELSE Get(j)
  BY <1>1 DEF Stored
<1>3. \A j \in Jobs : Stored'[j] = Get(j)
  BY <1>1, ShownWhenIdle DEF Get
<1>4. \A j \in ArchivedIds(archive) : Get(j) = archive.jobs[j]
  BY <1>1 DEF SteadyOK
<1>5. \A j \in Jobs : Stored[j] # None => ~ IsActive(Stored[j])
  BY <1>1, <1>2 DEF SteadyOK
<1>6. \A j \in Jobs : archive.jobs[j] # None => Stored[j] \in {None, archive.jobs[j]}
  BY <1>2, <1>4 DEF ArchivedIds
<1>7. Stored' = [j \in Jobs |-> IF Stored[j] = None THEN archive.jobs[j] ELSE Stored[j]]
  <2>1. ASSUME NEW j \in Jobs
        PROVE  Get(j) = IF Stored[j] = None THEN archive.jobs[j] ELSE Stored[j]
    <3>1. CASE j \in restore.newJobs
      BY <1>1, <1>2, <3>1, NewHands
    <3>2. CASE j \notin restore.newJobs /\ Get(j) # None
      BY <1>2, <3>2
    <3>3. CASE j \notin restore.newJobs /\ Get(j) = None
      BY <1>2, <1>4, <3>3 DEF ArchivedIds
    <3> QED
      BY <3>1, <3>2, <3>3
  <2> QED
    BY <1>1, <2>1, ShownWhenIdle DEF Get
<1>8. StoredReports' = StoredReports \cup archive.reports
  <2>1. archive.reports \subseteq reports /\ restore.newReports \subseteq archive.reports
    BY <1>1 DEF SteadyOK
  <2> QED
    BY <1>1, <2>1 DEF StoredReports
<1> QED
  BY <1>1, <1>5, <1>6, <1>7, <1>8 DEF Atomic!Restore

\* What a restore writes, and what it takes back, is unseen until it has finished.
LEMMA RestoreStepsRefine ==
    ASSUME TypeOK, RestoreOK, SteadyOK, RestoreStep
    PROVE  Atomic!Next \/ Unseen
<1>1. ASSUME NEW j \in Jobs, StageJob(j) PROVE Unseen
  <2>1. restore'.newJobs = restore.newJobs /\ restore'.newReports = restore.newReports
        /\ restore' # None /\ restore # None
    <3>1. restore' \in Restores
      BY <1>1, RestoreTypes DEF StageJob, Restores
    <3> QED
      BY <1>1, <3>1, RestoreTypes, NoneIsNoRecord DEF StageJob, Restores, Idle
  <2> QED
    BY <1>1, <2>1 DEF StageJob, Unseen, Stored, StoredReports, Idle, Get
<1>2. CASE PublishJob
  <2>1. PICK j \in Jobs : j = restore.staged
    BY <1>2, RestoreTypes DEF PublishJob
  <2>2. /\ restore'.newJobs = restore.newJobs \cup {j}
        /\ restore'.newReports = restore.newReports /\ restore' # None /\ restore # None
    <3>1. restore' \in Restores
      BY <1>2, <2>1, RestoreTypes DEF PublishJob, Restores
    <3> QED
      BY <1>2, <2>1, <3>1, RestoreTypes, NoneIsNoRecord DEF PublishJob, Restores, Idle
  <2>3. Get(j) = None
    BY <1>2, <2>1 DEF PublishJob, RestoreOK, Get
  <2>4. \A i \in Jobs : i # j => Get(i)' = Get(i)
    BY <1>2, <2>1 DEF PublishJob, Get, TypeOK
  <2>5. Stored' = Stored
    BY <2>2, <2>3, <2>4 DEF Stored, Idle
  <2> QED
    BY <1>2, <2>2, <2>5 DEF PublishJob, Unseen, StoredReports, Idle
<1>3. ASSUME NEW report \in Reports, PublishReport(report) PROVE Unseen
  <2>1. /\ restore'.newJobs = restore.newJobs
        /\ restore'.newReports = restore.newReports \cup {report}
        /\ restore' # None /\ restore # None
    <3>1. restore' \in Restores
      BY <1>3, RestoreTypes DEF PublishReport, Restores
    <3> QED
      BY <1>3, <3>1, RestoreTypes, NoneIsNoRecord DEF PublishReport, Restores, Idle
  <2>2. report \notin reports /\ reports' = reports \cup {report}
    BY <1>3 DEF PublishReport, SteadyOK
  <2>3. StoredReports' = StoredReports
    BY <2>1, <2>2 DEF StoredReports, Idle
  <2> QED
    BY <1>3, <2>1, <2>3 DEF PublishReport, Unseen, Stored, Idle, Get
<1>4. CASE RollBack
  <2>1. ~ Idle /\ Idle' /\ archive' = archive /\ reports' = reports \ restore.newReports
        /\ \A j \in Jobs : dir'[j] = IF j \in restore.newJobs THEN None ELSE dir[j]
    BY <1>4 DEF RollBack, Idle
  <2>2. \A j \in Jobs : Get(j)' = IF j \in restore.newJobs THEN None ELSE Get(j)
    BY <2>1 DEF Get
  <2> QED
    BY <2>1, <2>2 DEF Unseen, Stored, StoredReports
<1> QED
  BY <1>1, <1>2, <1>3, <1>4, FinishRefines DEF RestoreStep, Atomic!Next

\* Every step without deaths is one of AtomicBackup, or unseen.
LEMMA StepRefines ==
    BackupInv /\ SteadyOK /\ [SteadyNext]_vars
        => [Atomic!Next]_<<Stored, StoredReports, archive>>
<1> SUFFICES ASSUME BackupInv, SteadyOK, [SteadyNext]_vars
             PROVE  Atomic!Next \/ Unseen
  BY DEF Unseen
<1>1. TypeOK /\ RestoreOK /\ TypeOK'
  BY StepKeepsTypes DEF BackupInv, Next
<1>2. CASE UNCHANGED vars
  BY <1>2 DEF vars, Unseen, Stored, StoredReports, Idle, Get
<1> QED
  BY <1>1, <1>2, UserStepsRefine, RestoreStepsRefine DEF SteadyNext

\* The store is empty at the start.
LEMMA InitRefines == Init => Atomic!Init
BY DEF Init, Atomic!Init, Stored, StoredReports, Idle, Get

\* To everyone who takes the locks, an export is a snapshot of a quiet store,
\* and a restore adds all that is missing in one step or changes nothing.
THEOREM RestoresAreAtomic == SteadySpec => ImplementsAtomicBackup
<1>1. BackupInv /\ SteadyOK /\ [SteadyNext]_vars => BackupInv' /\ SteadyOK'
  <2>1. [SteadyNext]_vars => [Next]_vars
    BY DEF Next
  <2> QED
    BY <2>1, StepKeepsBackup, StepKeepsSteady DEF BackupInv
<1> QED
  BY <1>1, InitialBackup, InitialSteady, InitRefines, StepRefines, PTL
  DEF SteadySpec, ImplementsAtomicBackup, Atomic!Spec
=============================================================================
