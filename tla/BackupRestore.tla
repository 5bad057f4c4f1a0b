----------------------------- MODULE BackupRestore -----------------------------
(***************************************************************************)
(* The data directory as the full backup sees it: one directory per hand,  *)
(* benchmark reports, the export of both into an archive and the restore   *)
(* of that archive, which creates directory after directory and report     *)
(* after report and takes them back when one cannot be written.            *)
(*                                                                         *)
(* Export and restore hold every lock of the process, and export also the  *)
(* exclusive side of the data lock, so no other operation runs beside      *)
(* them; training progress, lesson export and corpus overview read the     *)
(* store without a lock and see every intermediate state.  The process can *)
(* die inside any operation.                                               *)
(***************************************************************************)
EXTENDS Naturals, FiniteSets

CONSTANTS
    Jobs,            \* hand identities, drawn by uuid4 and never drawn again
    MaxSaves,        \* bound: how many records are ever saved
    MaxDatasetCases, \* MAX_DATASET_CASES
    None             \* absent directory, record, archive or operation

ASSUME BoundsAssumption == MaxSaves \in Nat /\ MaxDatasetCases \in Nat

\* A record is told apart by updated_at, which every save sets anew, and by
\* what export and restore look at: corpus label and work in progress.
Records == [updated_at: 1 .. MaxSaves, included: BOOLEAN, active: BOOLEAN]

\* A benchmark report names the hands it scored.
Reports == (SUBSET Jobs) \ {{}}

VARIABLES
    dir,      \* jobs/<id>: which of job.json and the image it holds
    leftover, \* job.json files in jobs/.backup-restore.* directories
    reports,  \* benchmarks/*.json
    archive,  \* a downloaded backup
    restore,  \* progress of the restore that is running
    saves,    \* the clock behind updated_at
    drawn     \* identities given out so far

store == <<dir, leftover, reports>>
vars == <<dir, leftover, reports, archive, restore, saves, drawn>>

Dirs == [record: Records \cup {None}, image: BOOLEAN]
Leftovers == [job: Jobs, record: Records]
Archives == [jobs: [Jobs -> Records \cup {None}], reports: SUBSET Reports]
Restores == [jobs: SUBSET Jobs, staged: Jobs \cup {None}, reports: SUBSET Reports,
             newJobs: SUBSET Jobs, newReports: SUBSET Reports]

\* None is nothing else.
ASSUME NoneIsNoRecord == None \notin Records \cup Jobs \cup Dirs \cup Archives \cup Restores

TypeOK ==
    /\ dir \in [Jobs -> Dirs \cup {None}]
    /\ leftover \subseteq Leftovers
    /\ reports \subseteq Reports
    /\ archive \in Archives \cup {None}
    /\ restore \in Restores \cup {None}
    /\ saves \in 0 .. MaxSaves
    /\ drawn \subseteq Jobs

Init ==
    /\ dir = [j \in Jobs |-> None]
    /\ leftover = {}
    /\ reports = {}
    /\ archive = None
    /\ restore = None
    /\ saves = 0
    /\ drawn = {}

-----------------------------------------------------------------------------
(***************************************************************************)
(* Reading                                                                 *)
(***************************************************************************)

\* FileJobStore.get: the record in the hand's own directory.
Get(j) == IF dir[j] = None THEN None ELSE dir[j].record

HasImage(j) == dir[j] # None /\ dir[j].image

\* FileJobStore.list: every */job.json below jobs/, hidden directories too.
Listed == {[job |-> j, record |-> Get(j)] : j \in {i \in Jobs : Get(i) # None}}
              \cup leftover

ListedIds == {entry.job : entry \in Listed}

Quiet == \A entry \in Listed : ~ entry.record.active

\* How many corpus labels the inclusion handler counts.
IncludedCount == Cardinality({entry \in Listed : entry.record.included})

IncludedIds == {entry.job : entry \in {e \in Listed : e.record.included}}

Idle == restore = None

-----------------------------------------------------------------------------
(***************************************************************************)
(* Hands and reports                                                       *)
(***************************************************************************)

\* Mutant: touch() is forgotten.
UntouchedRecord(included, active) ==
    [updated_at |-> saves, included |-> included, active |-> active]

NewRecord(included, active) ==
    [updated_at |-> saves + 1, included |-> included, active |-> active]

Create(j) ==
    /\ Idle
    /\ j \notin drawn
    /\ saves < MaxSaves
    /\ dir' = [dir EXCEPT ![j] = [record |-> NewRecord(FALSE, TRUE), image |-> TRUE]]
    /\ drawn' = drawn \cup {j}
    /\ saves' = saves + 1
    /\ UNCHANGED <<leftover, reports, archive, restore>>

\* Any handler that loads a hand, changes it and saves it.
Save(j, included, active) ==
    /\ Idle
    /\ Get(j) # None
    /\ saves < MaxSaves
    /\ included /\ ~ Get(j).included => IncludedCount < MaxDatasetCases
    /\ dir' = [dir EXCEPT ![j].record = NewRecord(included, active)]
    /\ saves' = saves + 1
    /\ UNCHANGED <<leftover, reports, archive, restore, drawn>>

Delete(j) ==
    /\ Idle
    /\ Get(j) # None
    /\ dir' = [dir EXCEPT ![j] = None]
    /\ UNCHANGED <<leftover, reports, archive, restore, saves, drawn>>

RunBenchmark ==
    /\ Idle
    /\ IncludedIds # {}
    /\ reports' = reports \cup {IncludedIds}
    /\ UNCHANGED <<dir, leftover, archive, restore, saves, drawn>>

-----------------------------------------------------------------------------
(***************************************************************************)
(* Export                                                                  *)
(***************************************************************************)

\* Refused while work is active, and when a listed hand has no image.
Export ==
    /\ Idle
    /\ Quiet
    /\ \A id \in ListedIds : HasImage(id)
    /\ archive' = [jobs |-> [j \in Jobs |-> Get(j)], reports |-> reports]
    /\ UNCHANGED <<store, restore, saves, drawn>>

\* What parse_application_backup_archive asks of reports.
Parses(backup) ==
    \A report \in backup.reports : \A j \in report : backup.jobs[j] # None

ArchivedIds(backup) == {j \in Jobs : backup.jobs[j] # None}

-----------------------------------------------------------------------------
(***************************************************************************)
(* Restore                                                                 *)
(***************************************************************************)

\* A listed hand of the backup must be there, record and image, unchanged.
Conflicts(backup) ==
    \E entry \in Listed :
        /\ entry.job \in ArchivedIds(backup)
        /\ ~ HasImage(entry.job) \/ entry.record # backup.jobs[entry.job]

FitsCorpus(backup) ==
    Cardinality(IncludedIds \cup
                {j \in ArchivedIds(backup) : backup.jobs[j].included})
        <= MaxDatasetCases

\* Mutant: the corpus limit is not checked.
AcceptsAnyCorpus(backup) == Parses(backup) /\ Quiet /\ ~ Conflicts(backup)

Accepts(backup) ==
    Parses(backup) /\ Quiet /\ FitsCorpus(backup) /\ ~ Conflicts(backup)

StartRestore ==
    /\ Idle
    /\ archive # None
    /\ Accepts(archive)
    /\ restore' = [jobs |-> ArchivedIds(archive) \ ListedIds,
                   staged |-> None,
                   reports |-> archive.reports \ reports,
                   newJobs |-> {}, newReports |-> {}]
    /\ UNCHANGED <<store, archive, saves, drawn>>

\* Image and record are written into a temporary directory of their own.
StageJob(j) ==
    /\ ~ Idle
    /\ restore.staged = None
    /\ j \in restore.jobs
    /\ dir[j] = None
    /\ leftover' = leftover \cup {[job |-> j, record |-> archive.jobs[j]]}
    /\ restore' = [restore EXCEPT !.staged = j]
    /\ UNCHANGED <<dir, reports, archive, saves, drawn>>

\* The temporary directory is renamed.
PublishJob ==
    /\ ~ Idle
    /\ restore.staged # None
    /\ LET j == restore.staged
           entry == [job |-> j, record |-> archive.jobs[j]] IN
       /\ dir' = [dir EXCEPT ![j] = [record |-> entry.record, image |-> TRUE]]
       /\ leftover' = leftover \ {entry}
       /\ restore' = [restore EXCEPT !.staged = None,
                                     !.jobs = @ \ {j},
                                     !.newJobs = @ \cup {j}]
    /\ UNCHANGED <<reports, archive, saves, drawn>>

PublishReport(report) ==
    /\ ~ Idle
    /\ restore.jobs = {}
    /\ report \in restore.reports
    /\ reports' = reports \cup {report}
    /\ restore' = [restore EXCEPT !.reports = @ \ {report},
                                  !.newReports = @ \cup {report}]
    /\ UNCHANGED <<dir, leftover, archive, saves, drawn>>

FinishRestore ==
    /\ ~ Idle
    /\ restore.jobs = {} /\ restore.reports = {}
    /\ restore' = None
    /\ UNCHANGED <<store, archive, saves, drawn>>

\* Mutants: only the reports are taken back, or all hands of the backup are.
RollBackReportsOnly ==
    /\ ~ Idle
    /\ reports' = reports \ restore.newReports
    /\ leftover' = {entry \in leftover : entry.job # restore.staged}
    /\ restore' = None
    /\ UNCHANGED <<dir, archive, saves, drawn>>

RollBackEverything ==
    /\ ~ Idle
    /\ dir' = [j \in Jobs |-> IF j \in ArchivedIds(archive) THEN None ELSE dir[j]]
    /\ reports' = reports \ restore.newReports
    /\ leftover' = {entry \in leftover : entry.job # restore.staged}
    /\ restore' = None
    /\ UNCHANGED <<archive, saves, drawn>>

\* A write fails, or a directory is in the way: the temporary directory is
\* removed, then the reports and the hands this restore has created.
RollBack ==
    /\ ~ Idle
    /\ dir' = [j \in Jobs |-> IF j \in restore.newJobs THEN None ELSE dir[j]]
    /\ reports' = reports \ restore.newReports
    /\ leftover' = {entry \in leftover : entry.job # restore.staged}
    /\ restore' = None
    /\ UNCHANGED <<archive, saves, drawn>>

-----------------------------------------------------------------------------
(***************************************************************************)
(* Death of the process                                                    *)
(***************************************************************************)

\* Mutant: the record is written before the image.
DieInCreateAfterRecord(j) ==
    /\ Idle
    /\ j \notin drawn
    /\ saves < MaxSaves
    /\ dir' = [dir EXCEPT ![j] = [record |-> NewRecord(FALSE, TRUE), image |-> FALSE]]
    /\ drawn' = drawn \cup {j}
    /\ saves' = saves + 1
    /\ UNCHANGED <<leftover, reports, archive, restore>>

\* Inside create_job, by a death or by a failing write: the directory stays,
\* perhaps with the image.
DieInCreate(j) ==
    /\ Idle
    /\ j \notin drawn
    /\ \E image \in BOOLEAN :
           dir' = [dir EXCEPT ![j] = [record |-> None, image |-> image]]
    /\ drawn' = drawn \cup {j}
    /\ UNCHANGED <<leftover, reports, archive, restore, saves>>

\* What rmtree leaves when it is interrupted: it unlinks the two files in no
\* particular order.
Remains(j) ==
    {rest \in [record: {Get(j), None}, image: BOOLEAN] :
        rest # dir[j] /\ (rest.image => HasImage(j))}

DieInDelete(j) ==
    /\ Idle
    /\ Get(j) # None
    /\ \E rest \in Remains(j) : dir' = [dir EXCEPT ![j] = rest]
    /\ UNCHANGED <<leftover, reports, archive, restore, saves, drawn>>

\* Inside a restore, whatever it has written stays; or inside the roll-back,
\* which has deleted all reports it had created and is deleting a hand.
DieInRestore ==
    /\ ~ Idle
    /\ \/ UNCHANGED <<dir, leftover, reports>>
       \/ \E j \in restore.newJobs : \E rest \in Remains(j) :
              /\ dir' = [dir EXCEPT ![j] = rest]
              /\ leftover' = {entry \in leftover : entry.job # restore.staged}
              /\ reports' = reports \ restore.newReports
    /\ restore' = None
    /\ UNCHANGED <<archive, saves, drawn>>

\* Between operations, and startup: recover_interrupted_jobs ends the work of
\* each active hand and saves it.
Restart(j) ==
    /\ Idle
    /\ Get(j) # None
    /\ Get(j).active
    /\ saves < MaxSaves
    /\ dir' = [dir EXCEPT ![j].record = NewRecord(Get(j).included, FALSE)]
    /\ saves' = saves + 1
    /\ UNCHANGED <<leftover, reports, archive, restore, drawn>>

\* The application is started on an empty data volume, to be filled from a
\* backup.
StartEmpty ==
    /\ Idle
    /\ dir' = [j \in Jobs |-> None]
    /\ leftover' = {}
    /\ reports' = {}
    /\ UNCHANGED <<archive, restore, saves, drawn>>

UserStep ==
    \/ \E j \in Jobs : Create(j) \/ Delete(j)
    \/ \E j \in Jobs, included, active \in BOOLEAN : Save(j, included, active)
    \/ RunBenchmark
    \/ Export
    \/ StartRestore
    \/ StartEmpty

RestoreStep ==
    \/ \E j \in Jobs : StageJob(j)
    \/ PublishJob
    \/ \E report \in Reports : PublishReport(report)
    \/ FinishRestore
    \/ RollBack

Death ==
    \/ \E j \in Jobs : DieInCreate(j) \/ DieInDelete(j) \/ Restart(j)
    \/ DieInRestore

SteadyNext == UserStep \/ RestoreStep
Next == SteadyNext \/ Death

\* A process that does not die, and one that may.
SteadySpec == Init /\ [][SteadyNext]_vars
Spec == Init /\ [][Next]_vars

-----------------------------------------------------------------------------
(***************************************************************************)
(* Properties                                                              *)
(***************************************************************************)

\* However hands come into the corpus, by selection or by restore, its size
\* stays within what its own export and import accept, also around deaths.
CorpusWithinLimit ==
    Cardinality({j \in Jobs : Get(j) # None /\ Get(j).included}) <= MaxDatasetCases

\* A hand never becomes readable without its screenshot, not even when the
\* process dies between the two writes.
AppearsWithImage ==
    [][\A j \in Jobs : Get(j) = None /\ Get(j)' # None => HasImage(j)']_vars

\* While a restore runs, no stored hand changes or disappears, except that a
\* failed restore takes back what it has created itself.
RestoreNeverOverwrites ==
    [][~ Idle => \A j \in Jobs :
           Get(j) # None /\ j \notin restore.newJobs => dir'[j] = dir[j]]_vars

\* To everyone who takes the locks, an export is a snapshot of a quiet store
\* and a restore happens at once or not at all, failing writes included.
IsActive(record) == record.active

Stored == [j \in Jobs |-> IF ~ Idle /\ j \in restore.newJobs THEN None ELSE Get(j)]

StoredReports == IF Idle THEN reports ELSE reports \ restore.newReports

Atomic == INSTANCE AtomicBackup WITH stored <- Stored, reports <- StoredReports

ImplementsAtomicBackup == Atomic!Spec

\* "A valid full backup can restore jobs": what was exported can be parsed.
ExportsParse == archive # None => Parses(archive)

\* "exact re-restores are idempotent": when no restore runs and each hand of
\* the backup is either unchanged or unknown to the application, the backup
\* is accepted.
RestoreCanBeRepeated ==
    Idle /\ archive # None /\ Parses(archive) /\ FitsCorpus(archive) /\ Quiet
      /\ (\A j \in ArchivedIds(archive) :
              \/ dir[j] = None
              \/ HasImage(j) /\ Get(j) = archive.jobs[j])
        => Accepts(archive)
=============================================================================
