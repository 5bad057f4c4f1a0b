-------------------------- MODULE CorpusImportProofs --------------------------
(***************************************************************************)
(* For every set of hands, archives and request identities, any size of    *)
(* the corpus and any number of interruptions: what imports and users do   *)
(* together keeps the corpus exportable, an import overwrites nothing, a   *)
(* completed receipt tells the truth, and an interrupted import resumes.   *)
(*                                                                         *)
(* The acceptance of an import is a check of all hands under the corpus    *)
(* lock; what it established must survive interruptions and restarts,      *)
(* while uploads and approvals go on, until the receipt is terminal.  That *)
(* is what the invariant says of an import that is under way.              *)
(***************************************************************************)
EXTENDS CorpusImport, TLAPS, FiniteSetTheorems

-----------------------------------------------------------------------------
(***************************************************************************)
(* Records                                                                 *)
(***************************************************************************)

\* JobLifecycle is instantiated with the constants of this module, so its
\* record operators are those of JobRecords.
LEMMA LifeNames ==
    /\ Life!JobRecord = JobRecord
    /\ \A S : Life!Option(S) = Option(S)
    /\ Life!Uploaded = Uploaded
    /\ \A job, state : Life!Approved(job, state) = Approved(job, state)
    /\ \A job : Life!Recovered(job) = Recovered(job)
<1>1. \A S : Life!Option(S) = Option(S)
  BY DEF Life!Option, Option
<1>2. Life!Status = Status
  BY DEF Life!Status, Status
<1>3. /\ Life!Answers = Answers
      /\ Life!Guidance = Guidance
  BY DEF Life!Answers, Answers, Life!Guidance, Guidance
<1>4. Life!Comparisons = Comparisons
  BY <1>3 DEF Life!Comparisons, Comparisons
<1>5. Life!JobRecord = JobRecord
  BY <1>1, <1>2, <1>3, <1>4 DEF Life!JobRecord, JobRecord
<1>6. Life!Uploaded = Uploaded
  BY DEF Life!Uploaded, Uploaded
<1>7. \A job, state : Life!Approved(job, state) = Approved(job, state)
  BY DEF Life!Approved, Approved
<1>8. \A job : Life!Recovered(job) = Recovered(job)
  BY DEF Life!Recovered, Recovered
<1> QED
  BY <1>1, <1>5, <1>6, <1>7, <1>8

\* A stored hand is a record.
LEMMA RecordsExist == \A job \in JobRecord : job # None
BY NoneIsNoValue

\* The record of an upload, which nobody has approved or selected.
LEMMA UploadedFacts ==
    /\ Uploaded \in JobRecord
    /\ Uploaded.approved_state = None
    /\ Uploaded.benchmark_included = FALSE
    /\ Uploaded.benchmark_import_request_id = None
BY DEF Uploaded, JobRecord, Status, Option

\* The record of an imported hand.
LEMMA ImportedFacts ==
    ASSUME NEW request \in Option(ImportIds), NEW label \in States
    PROVE  /\ Imported(request, label) \in JobRecord
           /\ Imported(request, label).approved_state = label
           /\ Imported(request, label).benchmark_included = TRUE
           /\ Imported(request, label).benchmark_import_request_id = request
BY DEF Imported, Uploaded, JobRecord, Status, Option

\* A repaired hand is labelled and selected, and keeps its owner.
LEMMA RepairedFacts ==
    ASSUME NEW job \in JobRecord, NEW label \in States
    PROVE  LET new == [job EXCEPT !.approved_state = label,
                                  !.benchmark_included = TRUE,
                                  !.status = "approved"] IN
           /\ new \in JobRecord
           /\ new.approved_state = label
           /\ new.benchmark_included = TRUE
           /\ new.benchmark_import_request_id = job.benchmark_import_request_id
BY ZenonT(60) DEF JobRecord, Status, Option

\* Selection changes nothing else.
LEMMA SelectedFacts ==
    ASSUME NEW job \in JobRecord, NEW included \in BOOLEAN
    PROVE  LET new == [job EXCEPT !.benchmark_included = included] IN
           /\ new \in JobRecord
           /\ new.approved_state = job.approved_state
           /\ new.benchmark_included = included
           /\ new.benchmark_import_request_id = job.benchmark_import_request_id
BY DEF JobRecord

\* An approval changes the label, neither the selection nor the owner.
LEMMA ApprovedFacts ==
    ASSUME NEW job \in JobRecord, NEW state \in States
    PROVE  /\ Approved(job, state) \in JobRecord
           /\ Approved(job, state).approved_state = state
           /\ Approved(job, state).benchmark_included = job.benchmark_included
           /\ Approved(job, state).benchmark_import_request_id =
                  job.benchmark_import_request_id
BY DEF Approved, JobRecord, Status, Option

\* Startup changes none of them.
LEMMA RecoveredFacts ==
    ASSUME NEW job \in JobRecord
    PROVE  /\ Recovered(job) \in JobRecord
           /\ Recovered(job).approved_state = job.approved_state
           /\ Recovered(job).benchmark_included = job.benchmark_included
           /\ Recovered(job).benchmark_import_request_id =
                  job.benchmark_import_request_id
<1>1. \A pending \in BOOLEAN, status \in Status :
          LET new == [job EXCEPT !.recommendation_pending = pending,
                                 !.status = status] IN
          /\ new \in JobRecord
          /\ new.approved_state = job.approved_state
          /\ new.benchmark_included = job.benchmark_included
          /\ new.benchmark_import_request_id = job.benchmark_import_request_id
  BY DEF JobRecord
<1> QED
  BY <1>1 DEF Recovered, Status

-----------------------------------------------------------------------------
(***************************************************************************)
(* The inductive invariant                                                 *)
(***************************************************************************)

\* The corpus is finite and exportable.
CorpusOK == IsFiniteSet(Life!IncludedJobs) /\ CorpusIsExportable

\* An upload cannot draw the identity of a stored hand, nor of one that a
\* pending or running import may still write.
DrawnOK ==
    /\ \A j \in Jobs : Exists(j) => upload[j] # "unused"
    /\ \A r \in ImportIds : Pending(r) =>
           \A j \in DOMAIN journal[r].dataset : upload[j] # "unused"
    /\ ~ Idle => \A j \in DOMAIN import.dataset : upload[j] # "unused"

\* Hands of a request that is not journaled do not exist; one receipt at most
\* is pending, and an import with a request runs what that receipt says.
JournalOK ==
    /\ \A j \in Jobs, r \in ImportIds : OwnedBy(j, r) => journal[r] # None
    /\ \A r, q \in ImportIds : Pending(r) /\ Pending(q) => r = q
    /\ ~ Idle /\ import.request # None =>
           /\ Pending(import.request)
           /\ journal[import.request].dataset = import.dataset

\* What a running import knows of a hand of its archive: one that is not yet
\* started is absent, one that is half written belongs to the request, one that
\* was there carries the label or, if it is to be repaired, none, and one that
\* is done is imported.
HandOK(j) ==
    /\ j \in import.fresh /\ import.half # j => ~ Exists(j)
    /\ (j \in import.fresh /\ import.half = j) \/ j \in import.resumed =>
           /\ Exists(j)
           /\ jobs[j].approved_state \in {None, import.dataset[j]}
    /\ j \in import.fresh /\ import.half = j =>
           jobs[j].benchmark_import_request_id = import.request
    /\ j \in import.reused =>
           /\ Exists(j)
           /\ image[j]
           /\ jobs[j].approved_state = import.dataset[j]
    /\ j \notin import.fresh \cup import.resumed \cup import.reused =>
           /\ Exists(j)
           /\ image[j]
           /\ jobs[j].benchmark_included
           /\ jobs[j].approved_state = import.dataset[j]

RunningOK ==
    ~ Idle =>
        /\ FitsCorpus(import.dataset)
        /\ import.fresh \cup import.resumed \cup import.reused
               \subseteq DOMAIN import.dataset
        /\ \A j \in DOMAIN import.dataset : HandOK(j)

HasHands(r) == \E j \in Jobs : OwnedBy(j, r)

\* The import has been accepted and has not ended for good.
Underway(r) == Pending(r) /\ (HasHands(r) \/ (~ Idle /\ import.request = r))

\* What its acceptance established and interruptions leave.
StaysAcceptable(r, dataset) ==
    /\ FitsCorpus(dataset)
    /\ \A j \in Life!IncludedJobs \cup Existing(dataset) :
           image[j] \/ (j \in DOMAIN dataset /\ OwnedBy(j, r))

UnderwayOK ==
    \A r \in ImportIds : Underway(r) =>
        /\ ~ Idle => import.request = r
        /\ StaysAcceptable(r, journal[r].dataset)

ImportInv ==
    TypeOK /\ CorpusOK /\ DrawnOK /\ JournalOK /\ RunningOK /\ UnderwayOK

-----------------------------------------------------------------------------
(***************************************************************************)
(* Operators on the hands                                                  *)
(***************************************************************************)

\* The types, in the names of this module.
LEMMA Types ==
    /\ Life!TypeOK <=> /\ jobs \in [Jobs -> Option(JobRecord)]
                       /\ upload \in [Jobs -> Life!UploadStage]
                       /\ run \in [Solvers -> Option(Life!Attempts)]
    /\ \A job \in Option(JobRecord) : job # None => job \in JobRecord
<1>1. \A S : Life!Option(S) = Option(S)
  BY LifeNames
<1> QED
  BY <1>1, LifeNames DEF Life!TypeOK, Option

\* So is the corpus.
LEMMA Included ==
    Life!IncludedJobs = {j \in Jobs : Exists(j) /\ jobs[j].benchmark_included}
BY DEF Life!IncludedJobs, Life!Exists, Exists

\* The same after a step.
LEMMA IncludedNext ==
    Life!IncludedJobs' = {j \in Jobs : Exists(j)' /\ jobs'[j].benchmark_included}
BY DEF Life!IncludedJobs, Life!Exists, Exists

\* The limit, in the names of this module.
LEMMA Exportable ==
    CorpusIsExportable <=>
        /\ Cardinality(Life!IncludedJobs) <= MaxDatasetCases
        /\ \A i \in Life!IncludedJobs : jobs[i].approved_state # None
<1>1. \A S : Life!Cardinality(S) = Cardinality(S)
  BY DEF Life!Cardinality, Cardinality
<1> QED
  BY <1>1 DEF CorpusIsExportable, Life!CorpusIsExportable

\* The same after a step.
LEMMA ExportableNext ==
    CorpusIsExportable' <=>
        /\ Cardinality(Life!IncludedJobs') <= MaxDatasetCases
        /\ \A i \in Life!IncludedJobs' : jobs'[i].approved_state # None
<1>1. \A S : Life!Cardinality(S) = Cardinality(S)
  BY DEF Life!Cardinality, Cardinality
<1> QED
  BY <1>1 DEF CorpusIsExportable, Life!CorpusIsExportable

\* A running import is one of Imports.
LEMMA RunningImport ==
    ASSUME TypeOK, ~ Idle
    PROVE  /\ import \in Imports
           /\ import.dataset \in Datasets
           /\ DOMAIN import.dataset \subseteq Jobs
           /\ IsFiniteSet(DOMAIN import.dataset)
           /\ \A j \in DOMAIN import.dataset : import.dataset[j] \in States
<1>1. import \in Imports
  BY DEF TypeOK, Idle, Option
<1>2. import.dataset \in Datasets
  BY <1>1 DEF Imports
<1> QED
  BY <1>1, <1>2, DatasetsAssumption

\* So is what a pending receipt says.
LEMMA PendingReceipt ==
    ASSUME TypeOK, NEW r \in ImportIds, Pending(r)
    PROVE  /\ journal[r] \in Receipts
           /\ journal[r].dataset \in Datasets
           /\ DOMAIN journal[r].dataset \subseteq Jobs
           /\ IsFiniteSet(DOMAIN journal[r].dataset)
           /\ \A j \in DOMAIN journal[r].dataset : journal[r].dataset[j] \in States
<1>1. journal[r] \in Receipts
  BY DEF TypeOK, Pending, Option
<1>2. journal[r].dataset \in Datasets
  BY <1>1 DEF Receipts
<1> QED
  BY <1>1, <1>2, DatasetsAssumption

\* A finite corpus within the limit, together with a hand that is counted
\* already or leaves it below.
LEMMA LimitOfUnion ==
    ASSUME NEW S, NEW T, NEW D, IsFiniteSet(S), IsFiniteSet(D),
           T \subseteq S \cup D, Cardinality(S \cup D) <= MaxDatasetCases
    PROVE  IsFiniteSet(T) /\ Cardinality(T) <= MaxDatasetCases
<1>1. IsFiniteSet(S \cup D)
  BY FS_Union
<1>2. IsFiniteSet(T) /\ Cardinality(T) <= Cardinality(S \cup D)
  BY <1>1, FS_Subset
<1>3. Cardinality(T) \in Nat /\ Cardinality(S \cup D) \in Nat
  BY <1>1, <1>2, FS_CardinalityType
<1> QED
  BY <1>2, <1>3, DatasetsAssumption

\* What a write of one hand leaves.
LEMMA WriteShape ==
    ASSUME TypeOK, NEW j \in Jobs, NEW job \in JobRecord, NEW b \in BOOLEAN,
           Write(j, job, b)
    PROVE  /\ Life!TypeOK'
           /\ image' \in [Jobs -> BOOLEAN]
           /\ Exists(j)' /\ jobs'[j] = job /\ image'[j] = b
           /\ \A i \in Jobs \ {j} : jobs'[i] = jobs[i] /\ image'[i] = image[i]
           /\ UNCHANGED <<upload, run, journal, interruptions>>
<1>1. jobs \in [Jobs -> Option(JobRecord)] /\ image \in [Jobs -> BOOLEAN]
  BY Types DEF TypeOK
<1>2. /\ jobs' = [jobs EXCEPT ![j] = job]
      /\ image' = [image EXCEPT ![j] = b]
      /\ UNCHANGED <<upload, run, journal, interruptions>>
  BY DEF Write
<1>3. job # None /\ job \in Option(JobRecord)
  BY RecordsExist DEF Option
<1>4. jobs' \in [Jobs -> Option(JobRecord)] /\ image' \in [Jobs -> BOOLEAN]
  BY <1>1, <1>2, <1>3
<1>5. /\ upload' \in [Jobs -> Life!UploadStage]
      /\ run' \in [Solvers -> Option(Life!Attempts)]
  BY <1>2, Types DEF TypeOK
<1>6. (Life!TypeOK <=> /\ jobs \in [Jobs -> Option(JobRecord)]
                       /\ upload \in [Jobs -> Life!UploadStage]
                       /\ run \in [Solvers -> Option(Life!Attempts)])'
  BY Types, PTL
<1> QED
  BY <1>1, <1>2, <1>3, <1>4, <1>5, <1>6 DEF Exists

\* A write of a hand of the running import keeps the corpus within what was
\* counted when the import was accepted.
LEMMA CorpusAfterWrite ==
    ASSUME ImportInv, ~ Idle, NEW j \in DOMAIN import.dataset,
           NEW job \in JobRecord, NEW b \in BOOLEAN, Write(j, job, b),
           job.benchmark_included => job.approved_state # None,
           import'.dataset = import.dataset,
           j \in Life!IncludedJobs => job.benchmark_included
    PROVE  CorpusOK' /\ FitsCorpus(import.dataset)'
<1>1. /\ j \in Jobs
      /\ IsFiniteSet(DOMAIN import.dataset)
      /\ TypeOK
  BY RunningImport DEF ImportInv
<1>2. /\ Exists(j)' /\ jobs'[j] = job
      /\ \A i \in Jobs \ {j} : jobs'[i] = jobs[i]
  BY <1>1, WriteShape
<1>3. /\ Life!IncludedJobs = {i \in Jobs : Exists(i) /\ jobs[i].benchmark_included}
      /\ Life!IncludedJobs' = {i \in Jobs : Exists(i)' /\ jobs'[i].benchmark_included}
  BY DEF Life!IncludedJobs, Life!Exists, Exists
<1>4. \A i \in Jobs \ {j} : Exists(i)' <=> Exists(i)
  BY <1>2 DEF Exists
<1>5. /\ Life!IncludedJobs' \subseteq Life!IncludedJobs \cup DOMAIN import.dataset
      /\ Life!IncludedJobs' \cup DOMAIN import.dataset
             = Life!IncludedJobs \cup DOMAIN import.dataset
  BY <1>1, <1>2, <1>3, <1>4
<1>6. Cardinality(Life!IncludedJobs \cup DOMAIN import.dataset) <= MaxDatasetCases
  BY DEF ImportInv, RunningOK, FitsCorpus
<1>7. IsFiniteSet(Life!IncludedJobs)
  BY DEF ImportInv, CorpusOK
<1>8. IsFiniteSet(Life!IncludedJobs') /\ Cardinality(Life!IncludedJobs') <= MaxDatasetCases
  BY <1>1, <1>5, <1>6, <1>7, LimitOfUnion
<1>9. \A i \in Life!IncludedJobs' : jobs'[i].approved_state # None
  <2>1. \A i \in Life!IncludedJobs : jobs[i].approved_state # None
    BY Exportable DEF ImportInv, CorpusOK
  <2>2. ASSUME NEW i \in Life!IncludedJobs', i # j
        PROVE  jobs'[i].approved_state # None
    BY <1>2, <1>3, <1>4, <2>1, <2>2
  <2> QED
    BY <1>2, <1>3, <2>2
<1>10. CorpusOK'
  BY <1>8, <1>9, ExportableNext DEF CorpusOK
<1>11. FitsCorpus(import.dataset)'
  BY <1>5, <1>6 DEF FitsCorpus
<1> QED
  BY <1>10, <1>11

\* Ownership in terms of the record.
LEMMA Owners ==
    ASSUME NEW j, NEW r \in ImportIds
    PROVE  OwnedBy(j, r) <=>
               Exists(j) /\ jobs[j].benchmark_import_request_id = r
BY NoneIsNoValue DEF OwnedBy

\* The same after a step.
LEMMA OwnersNext ==
    ASSUME NEW j, NEW r \in ImportIds
    PROVE  OwnedBy(j, r)' <=>
               Exists(j)' /\ jobs'[j].benchmark_import_request_id = r
BY NoneIsNoValue DEF OwnedBy

\* One write of a running import, whatever it writes, when the hand it writes
\* is as it should be afterwards: a hand changes its owner only to the
\* request of the import, and lacks its image only if that request owns it.
LEMMA ImportWrite ==
    ASSUME ImportInv, ~ Idle, NEW j \in DOMAIN import.dataset,
           NEW job \in JobRecord, NEW b \in BOOLEAN, Write(j, job, b),
           job.benchmark_included => job.approved_state # None,
           j \in Life!IncludedJobs => job.benchmark_included,
           import' \in Imports,
           import'.dataset = import.dataset, import'.request = import.request,
           import.half \in {None, j}, import'.half \in {None, j},
           \A i \in Jobs \ {j} : /\ i \in import'.fresh <=> i \in import.fresh
                                 /\ i \in import'.resumed <=> i \in import.resumed
                                 /\ i \in import'.reused <=> i \in import.reused,
           HandOK(j)',
           \A r \in ImportIds : job.benchmark_import_request_id = r =>
                                    r = import.request \/ OwnedBy(j, r),
           \A r \in ImportIds : OwnedBy(j, r) => job.benchmark_import_request_id = r,
           \/ b
           \/ import.request # None /\ job.benchmark_import_request_id = import.request
    PROVE  ImportInv'
<1> USE DEF ImportInv
<1>1. /\ j \in Jobs
      /\ DOMAIN import.dataset \subseteq Jobs
      /\ import \in Imports
  BY RunningImport
<1>2. /\ Life!TypeOK'
      /\ image' \in [Jobs -> BOOLEAN]
      /\ Exists(j)' /\ jobs'[j] = job /\ image'[j] = b
      /\ \A i \in Jobs \ {j} : jobs'[i] = jobs[i] /\ image'[i] = image[i]
      /\ UNCHANGED <<upload, run, journal, interruptions>>
  BY <1>1, WriteShape
<1>3. \A i \in Jobs \ {j} : Exists(i)' <=> Exists(i)
  BY <1>2 DEF Exists
<1>4. ~ Idle'
  BY NoneIsNoImport DEF Idle
<1>5. TypeOK'
  BY <1>2 DEF TypeOK, Option
<1>6. CorpusOK' /\ FitsCorpus(import.dataset)'
  BY CorpusAfterWrite
<1>7. \A r \in ImportIds : Pending(r)' <=> Pending(r)
  BY <1>2 DEF Pending
<1>8. DrawnOK'
  BY <1>1, <1>2, <1>3, <1>7 DEF DrawnOK
<1>9. ASSUME NEW i \in Jobs \ {j}, NEW r \in ImportIds
      PROVE  OwnedBy(i, r)' <=> OwnedBy(i, r)
  BY <1>2, <1>3, Owners, OwnersNext
<1>10. ASSUME NEW r \in ImportIds
       PROVE  /\ OwnedBy(j, r) => OwnedBy(j, r)'
              /\ OwnedBy(j, r)' => r = import.request \/ OwnedBy(j, r)
  BY <1>2, Owners, OwnersNext
<1>11. ASSUME import.request # None
       PROVE  /\ import.request \in ImportIds
              /\ Pending(import.request)
              /\ journal[import.request].dataset = import.dataset
  BY <1>1, <1>11 DEF JournalOK, Imports, Option
<1>12. JournalOK'
  <2>1. ASSUME NEW i \in Jobs, NEW r \in ImportIds, OwnedBy(i, r)'
        PROVE  journal'[r] # None
    <3>1. OwnedBy(i, r) \/ r = import.request
      BY <1>9, <1>10, <2>1
    <3>2. CASE r = import.request
      BY <1>2, <1>11, <3>2, NoneIsNoValue DEF Pending
    <3> QED
      BY <1>2, <3>1, <3>2 DEF JournalOK
  <2> QED
    BY <1>2, <1>7, <1>11, <2>1 DEF JournalOK
<1>13. RunningOK'
  <2>1. ASSUME NEW i \in DOMAIN import.dataset, i # j
        PROVE  HandOK(i)'
    <3>1. i \in Jobs \ {j} /\ HandOK(i)
      BY <1>1, <2>1 DEF RunningOK
    <3>2. /\ Exists(i)' <=> Exists(i)
          /\ jobs'[i] = jobs[i] /\ image'[i] = image[i]
      BY <1>2, <1>3, <3>1
    <3>3. import.half = i <=> import'.half = i
      BY <1>1, <3>1, NoneIsNoImport
    <3> HIDE DEF ImportInv
    <3> QED
      BY <3>1, <3>2, <3>3 DEF HandOK
  <2>2. import'.fresh \cup import'.resumed \cup import'.reused
            \subseteq DOMAIN import.dataset
    BY <1>1 DEF RunningOK, Imports
  <2> QED
    BY <1>4, <1>6, <2>1, <2>2 DEF RunningOK
<1>14. UnderwayOK'
  <2> SUFFICES ASSUME NEW r \in ImportIds, Underway(r)'
               PROVE  import.request = r /\ StaysAcceptable(r, journal[r].dataset)'
    BY DEF UnderwayOK
  <2>1. Underway(r) /\ import.request = r
    <3>1. Pending(r)
      BY <1>7 DEF Underway
    <3>2. CASE import.request = r
      BY <3>1, <3>2 DEF Underway
    <3>3. CASE import.request # r
      <4>1. PICK i \in Jobs : OwnedBy(i, r)'
        BY <3>3 DEF Underway, HasHands
      <4>2. OwnedBy(i, r)
        BY <1>9, <1>10, <3>3, <4>1
      <4> QED
        BY <3>1, <4>2 DEF Underway, HasHands, UnderwayOK
    <3> QED
      BY <3>2, <3>3
  <2>2. /\ journal[r].dataset = import.dataset /\ journal' = journal
        /\ import.request # None
    BY <1>2, <1>11, <2>1, NoneIsNoValue
  <2>3. StaysAcceptable(r, import.dataset)
    BY <2>1, <2>2 DEF UnderwayOK
  <2>4. ASSUME NEW i \in Life!IncludedJobs' \cup Existing(import.dataset)'
        PROVE  image'[i] \/ (i \in DOMAIN import.dataset /\ OwnedBy(i, r)')
    <3>1. CASE i = j
      BY <1>2, <2>1, <3>1, OwnersNext
    <3>2. CASE i # j
      <4>1. i \in Jobs
        BY <1>1, IncludedNext DEF Existing
      <4>2. i \in Life!IncludedJobs \cup Existing(import.dataset)
        BY <1>2, <1>3, <3>2, <4>1, Included, IncludedNext DEF Existing
      <4> QED
        BY <1>2, <1>9, <2>3, <3>2, <4>1, <4>2 DEF StaysAcceptable
    <3> QED
      BY <3>1, <3>2
  <2> QED
    BY <1>6, <2>1, <2>2, <2>4 DEF StaysAcceptable
<1> QED
  BY <1>5, <1>6, <1>8, <1>12, <1>13, <1>14

\* One file of two is written.
LEMMA HalfwayShape ==
    ASSUME import \in Imports, NEW j \in Jobs, Halfway(j)
    PROVE  /\ import' \in Imports
           /\ import'.dataset = import.dataset /\ import'.request = import.request
           /\ import'.half = j
           /\ import'.fresh = import.fresh /\ import'.resumed = import.resumed
           /\ import'.reused = import.reused
BY DEF Halfway, Imports, Option

\* The hand is done.
LEMMA DoneShape ==
    ASSUME import \in Imports, NEW j \in Jobs, Done(j)
    PROVE  /\ import' \in Imports
           /\ import'.dataset = import.dataset /\ import'.request = import.request
           /\ import'.half = None
           /\ import'.fresh = import.fresh \ {j}
           /\ import'.resumed = import.resumed \ {j}
           /\ import'.reused = import.reused \ {j}
<1> DEFINE next == [import EXCEPT !.fresh = import.fresh \ {j},
                                  !.resumed = import.resumed \ {j},
                                  !.reused = import.reused \ {j}, !.half = None]
<1>1. import' = next
  BY DEF Done
<1>2. None \in Option(Jobs)
  BY DEF Option
<1>3. \A half \in Option(Jobs) :
          [import EXCEPT !.fresh = import.fresh \ {j},
                         !.resumed = import.resumed \ {j},
                         !.reused = import.reused \ {j}, !.half = half] \in Imports
  BY DEF Imports
<1>4. next \in Imports
  BY <1>2, <1>3
<1>5. /\ next.dataset = import.dataset /\ next.request = import.request
      /\ next.half = None
      /\ next.fresh = import.fresh \ {j}
      /\ next.resumed = import.resumed \ {j}
      /\ next.reused = import.reused \ {j}
  BY DEF Imports
<1> QED
  BY <1>1, <1>4, <1>5

\* A running import of a hand that it may write.
LEMMA HandOfImport ==
    ASSUME ImportInv, ~ Idle,
           NEW j \in import.fresh \cup import.resumed \cup import.reused
    PROVE  /\ import \in Imports
           /\ j \in Jobs /\ j \in DOMAIN import.dataset
           /\ import.dataset[j] \in States
           /\ import.request \in Option(ImportIds)
           /\ HandOK(j)
           /\ Exists(j) => jobs[j] \in JobRecord
<1>1. /\ import \in Imports
      /\ DOMAIN import.dataset \subseteq Jobs
      /\ \A i \in DOMAIN import.dataset : import.dataset[i] \in States
  BY RunningImport DEF ImportInv
<1>2. j \in DOMAIN import.dataset /\ HandOK(j)
  BY DEF ImportInv, RunningOK
<1>3. jobs \in [Jobs -> Option(JobRecord)]
  BY Types DEF ImportInv, TypeOK
<1> QED
  BY <1>1, <1>2, <1>3, Types DEF Exists, Imports

\* A hand is started: an upload of a direct import, or a record without image.
LEMMA StartHandStep ==
    ASSUME ImportInv, NEW j \in Jobs, StartHand(j)
    PROVE  ImportInv'
<1> DEFINE label == import.dataset[j]
<1>1. ~ Idle /\ import.half = None /\ j \in import.fresh /\ Halfway(j)
  BY DEF StartHand
<1>2. /\ import \in Imports
      /\ j \in DOMAIN import.dataset /\ label \in States
      /\ import.request \in Option(ImportIds)
      /\ HandOK(j)
  BY <1>1, HandOfImport
<1>3. import.half # j
  BY <1>1, NoneIsNoImport
<1>4. ~ Exists(j)
  BY <1>1, <1>2, <1>3 DEF HandOK
<1>5. /\ import' \in Imports
      /\ import'.dataset = import.dataset /\ import'.request = import.request
      /\ import'.half = j
      /\ import'.fresh = import.fresh /\ import'.resumed = import.resumed
      /\ import'.reused = import.reused
  BY <1>1, <1>2, HalfwayShape
<1>6. j \notin import.resumed /\ j \notin import.reused
  BY <1>2, <1>4 DEF HandOK
<1>7. PICK job \in JobRecord, b \in BOOLEAN :
          /\ Write(j, job, b)
          /\ job.approved_state \in {None, label}
          /\ job.benchmark_included => job.approved_state # None
          /\ job.benchmark_import_request_id = import.request
          /\ b \/ import.request # None
  <2>1. CASE import.request = None
    BY <1>1, <2>1, UploadedFacts DEF StartHand
  <2>2. CASE import.request # None
    BY <1>2, <2>2, ImportedFacts, NoneIsNoValue DEF StartHand
  <2> QED
    BY <2>1, <2>2
<1>8. jobs'[j] = job /\ Exists(j)' /\ TypeOK
  BY <1>7, WriteShape DEF ImportInv
<1>9. HandOK(j)'
  BY <1>1, <1>5, <1>6, <1>7, <1>8 DEF HandOK
<1>10. \A r \in ImportIds : ~ OwnedBy(j, r)
  BY <1>4 DEF OwnedBy
<1>11. j \notin Life!IncludedJobs
  BY <1>4, Included
<1> HIDE DEF label
<1> QED
  BY <1>1, <1>2, <1>5, <1>7, <1>9, <1>10, <1>11, ImportWrite

\* It is finished with its label and its image.
LEMMA FinishHandStep ==
    ASSUME ImportInv, NEW j \in Jobs, FinishHand(j)
    PROVE  ImportInv'
<1> DEFINE label == import.dataset[j]
           new == Imported(import.request, label)
<1>1. ~ Idle /\ import.half = j /\ j \in import.fresh /\ Write(j, new, TRUE) /\ Done(j)
  BY DEF FinishHand
<1>2. /\ import \in Imports
      /\ j \in DOMAIN import.dataset /\ label \in States
      /\ import.request \in Option(ImportIds)
  BY <1>1, HandOfImport
<1>3. /\ import' \in Imports
      /\ import'.dataset = import.dataset /\ import'.request = import.request
      /\ import'.half = None
      /\ import'.fresh = import.fresh \ {j}
      /\ import'.resumed = import.resumed \ {j}
      /\ import'.reused = import.reused \ {j}
  BY <1>1, <1>2, DoneShape
<1>4. /\ new \in JobRecord
      /\ new.approved_state = label
      /\ new.benchmark_included = TRUE
      /\ new.benchmark_import_request_id = import.request
  BY <1>2, ImportedFacts
<1> HIDE DEF new
<1>5. jobs'[j] = new /\ Exists(j)' /\ image'[j]
  BY <1>1, <1>4, WriteShape DEF ImportInv
<1>6. HandOK(j)'
  BY <1>3, <1>4, <1>5, NoneIsNoImport DEF HandOK
<1>7. new.approved_state # None
  BY <1>2, <1>4, NoneIsNoValue
<1>8. ASSUME NEW r \in ImportIds, OwnedBy(j, r)
      PROVE  r = import.request
  BY <1>1, <1>8, Owners, HandOfImport DEF HandOK
<1> HIDE DEF label
<1> QED
  BY <1>1, <1>2, <1>3, <1>4, <1>6, <1>7, <1>8, ImportWrite

\* The repair of a hand begins with its image; its record stays.
LEMMA StartRepairStep ==
    ASSUME ImportInv, NEW j \in Jobs, StartRepair(j)
    PROVE  ImportInv'
<1> DEFINE job == jobs[j]
<1>1. /\ ~ Idle /\ import.half = None /\ j \in import.resumed
      /\ Write(j, job, TRUE) /\ Halfway(j)
  BY DEF StartRepair
<1>2. /\ import \in Imports
      /\ j \in DOMAIN import.dataset
      /\ HandOK(j)
      /\ Exists(j) => job \in JobRecord
  BY <1>1, HandOfImport
<1>3. /\ Exists(j) /\ job \in JobRecord
      /\ job.approved_state \in {None, import.dataset[j]}
      /\ j \notin import.fresh
  BY <1>1, <1>2, NoneIsNoImport DEF HandOK
<1>4. /\ import' \in Imports
      /\ import'.dataset = import.dataset /\ import'.request = import.request
      /\ import'.half = j
      /\ import'.fresh = import.fresh /\ import'.resumed = import.resumed
      /\ import'.reused = import.reused
  BY <1>1, <1>2, HalfwayShape
<1>5. jobs'[j] = job /\ Exists(j)' /\ image'[j]
  BY <1>1, <1>3, WriteShape DEF ImportInv
<1>6. HandOK(j)'
  BY <1>1, <1>2, <1>3, <1>4, <1>5 DEF HandOK
<1>7. /\ job.benchmark_included => job.approved_state # None
      /\ j \in Life!IncludedJobs => job.benchmark_included
  BY <1>3, Included, Exportable DEF ImportInv, CorpusOK
<1>8. \A r \in ImportIds : OwnedBy(j, r) <=> job.benchmark_import_request_id = r
  BY <1>3, Owners
<1> HIDE DEF job
<1> QED
  BY <1>1, <1>2, <1>3, <1>4, <1>6, <1>7, <1>8, ImportWrite

\* It ends with the label and the selection.
LEMMA FinishRepairStep ==
    ASSUME ImportInv, NEW j \in Jobs, FinishRepair(j)
    PROVE  ImportInv'
<1> DEFINE label == import.dataset[j]
           new == [jobs[j] EXCEPT !.approved_state = label,
                                  !.benchmark_included = TRUE,
                                  !.status = "approved"]
<1>1. /\ ~ Idle /\ import.half = j /\ j \in import.resumed
      /\ Write(j, new, TRUE) /\ Done(j)
  BY DEF FinishRepair
<1>2. /\ import \in Imports
      /\ j \in DOMAIN import.dataset /\ label \in States
      /\ HandOK(j)
      /\ Exists(j) => jobs[j] \in JobRecord
  BY <1>1, HandOfImport
<1>3. Exists(j) /\ jobs[j] \in JobRecord
  BY <1>1, <1>2 DEF HandOK
<1>4. /\ import' \in Imports
      /\ import'.dataset = import.dataset /\ import'.request = import.request
      /\ import'.half = None
      /\ import'.fresh = import.fresh \ {j}
      /\ import'.resumed = import.resumed \ {j}
      /\ import'.reused = import.reused \ {j}
  BY <1>1, <1>2, DoneShape
<1>5. /\ new \in JobRecord
      /\ new.approved_state = label
      /\ new.benchmark_included = TRUE
      /\ new.benchmark_import_request_id = jobs[j].benchmark_import_request_id
  BY <1>2, <1>3, RepairedFacts
<1> HIDE DEF new
<1>6. jobs'[j] = new /\ Exists(j)' /\ image'[j]
  BY <1>1, <1>5, WriteShape DEF ImportInv
<1>7. HandOK(j)'
  BY <1>4, <1>5, <1>6, NoneIsNoImport DEF HandOK
<1>8. new.approved_state # None
  BY <1>2, <1>5, NoneIsNoValue
<1>9. \A r \in ImportIds : OwnedBy(j, r) <=> new.benchmark_import_request_id = r
  BY <1>3, <1>5, Owners
<1> HIDE DEF label
<1> QED
  BY <1>1, <1>2, <1>4, <1>5, <1>7, <1>8, <1>9, ImportWrite

\* A hand that was there is selected.
LEMMA SelectHandStep ==
    ASSUME ImportInv, NEW j \in Jobs, SelectHand(j)
    PROVE  ImportInv'
<1> DEFINE new == [jobs[j] EXCEPT !.benchmark_included = TRUE]
<1>1. /\ ~ Idle /\ import.half = None /\ j \in import.reused
      /\ Write(j, new, image[j]) /\ Done(j)
  BY DEF SelectHand
<1>2. /\ import \in Imports
      /\ j \in DOMAIN import.dataset /\ import.dataset[j] \in States
      /\ HandOK(j)
      /\ Exists(j) => jobs[j] \in JobRecord
  BY <1>1, HandOfImport
<1>3. /\ Exists(j) /\ jobs[j] \in JobRecord /\ image[j]
      /\ jobs[j].approved_state = import.dataset[j]
  BY <1>1, <1>2 DEF HandOK
<1>4. /\ import' \in Imports
      /\ import'.dataset = import.dataset /\ import'.request = import.request
      /\ import'.half = None
      /\ import'.fresh = import.fresh \ {j}
      /\ import'.resumed = import.resumed \ {j}
      /\ import'.reused = import.reused \ {j}
  BY <1>1, <1>2, DoneShape
<1>5. /\ new \in JobRecord
      /\ new.approved_state = jobs[j].approved_state
      /\ new.benchmark_included = TRUE
      /\ new.benchmark_import_request_id = jobs[j].benchmark_import_request_id
  BY <1>3, SelectedFacts
<1> HIDE DEF new
<1>6. Write(j, new, TRUE)
  <2>1. image[j] = TRUE
    BY <1>3 DEF ImportInv, TypeOK
  <2> QED
    BY <1>1, <2>1
<1>7. jobs'[j] = new /\ Exists(j)' /\ image'[j]
  BY <1>5, <1>6, WriteShape DEF ImportInv
<1>8. HandOK(j)'
  BY <1>3, <1>4, <1>5, <1>7, NoneIsNoImport DEF HandOK
<1>9. new.approved_state # None
  BY <1>2, <1>3, <1>5, NoneIsNoValue
<1>10. \A r \in ImportIds : OwnedBy(j, r) <=> new.benchmark_import_request_id = r
  BY <1>3, <1>5, Owners
<1> QED
  BY <1>1, <1>2, <1>4, <1>5, <1>6, <1>8, <1>9, <1>10, ImportWrite

-----------------------------------------------------------------------------
(***************************************************************************)
(* Steps that leave the hands alone                                        *)
(***************************************************************************)

\* What an import looks at in a hand.
SameHand(j) ==
    /\ Exists(j)' <=> Exists(j)
    /\ Exists(j) =>
           /\ jobs'[j].approved_state = jobs[j].approved_state
           /\ jobs'[j].benchmark_included = jobs[j].benchmark_included
           /\ jobs'[j].benchmark_import_request_id = jobs[j].benchmark_import_request_id
    /\ image'[j] = image[j]

\* What is said of the corpus and of an archive depends on nothing else.
LEMMA SameHands ==
    ASSUME TypeOK, \A j \in Jobs : SameHand(j)
    PROVE  /\ Life!IncludedJobs' = Life!IncludedJobs
           /\ CorpusOK => CorpusOK'
           /\ \A j \in Jobs, r \in ImportIds : OwnedBy(j, r)' <=> OwnedBy(j, r)
           /\ \A r \in ImportIds : HasHands(r)' <=> HasHands(r)
           /\ \A dataset \in Datasets : FitsCorpus(dataset) => FitsCorpus(dataset)'
           /\ \A r \in ImportIds, dataset \in Datasets :
                  StaysAcceptable(r, dataset) => StaysAcceptable(r, dataset)'
<1>1. Life!IncludedJobs' = Life!IncludedJobs
  BY Included, IncludedNext DEF SameHand
<1>2. CorpusOK => CorpusOK'
  BY <1>1, Exportable, ExportableNext, Included DEF CorpusOK, SameHand
<1>3. \A j \in Jobs, r \in ImportIds : OwnedBy(j, r)' <=> OwnedBy(j, r)
  BY Owners, OwnersNext DEF SameHand
<1>4. \A r \in ImportIds : HasHands(r)' <=> HasHands(r)
  BY <1>3 DEF HasHands
<1>5. \A dataset \in Datasets : FitsCorpus(dataset) => FitsCorpus(dataset)'
  BY <1>1 DEF FitsCorpus
<1>6. ASSUME NEW r \in ImportIds, NEW dataset \in Datasets,
             StaysAcceptable(r, dataset)
      PROVE  StaysAcceptable(r, dataset)'
  <2>1. DOMAIN dataset \subseteq Jobs /\ Life!IncludedJobs \subseteq Jobs
    BY DatasetsAssumption, Included
  <2>2. Existing(dataset)' = Existing(dataset)
    BY <2>1 DEF Existing, SameHand
  <2>3. \A j \in Life!IncludedJobs \cup Existing(dataset) :
            image'[j] \/ (j \in DOMAIN dataset /\ OwnedBy(j, r)')
    BY <1>3, <1>6, <2>1 DEF StaysAcceptable, SameHand, Existing
  <2> QED
    BY <1>1, <1>5, <1>6, <2>2, <2>3 DEF StaysAcceptable
<1> QED
  BY <1>1, <1>2, <1>3, <1>4, <1>5, <1>6

\* Hands that are not written stay the same.
LEMMA UnwrittenHands ==
    ASSUME UNCHANGED <<jobs, image>>
    PROVE  \A j \in Jobs : SameHand(j)
BY DEF SameHand, Exists

\* The identities of an archive are drawn, and no other.
LEMMA DrawnShape ==
    ASSUME TypeOK, NEW dataset \in Datasets, Drawn(dataset)
    PROVE  /\ upload' \in [Jobs -> Life!UploadStage]
           /\ \A j \in DOMAIN dataset : upload'[j] # "unused"
           /\ \A j \in Jobs : upload[j] # "unused" => upload'[j] # "unused"
<1>1. upload \in [Jobs -> Life!UploadStage]
  BY Types DEF TypeOK
<1>2. DOMAIN dataset \subseteq Jobs
  BY DatasetsAssumption
<1> QED
  BY <1>1, <1>2 DEF Drawn, Life!UploadStage

\* The types, after a step that writes no hand.
LEMMA TypesNext ==
    Life!TypeOK' <=> /\ jobs' \in [Jobs -> Option(JobRecord)]
                     /\ upload' \in [Jobs -> Life!UploadStage]
                     /\ run' \in [Solvers -> Option(Life!Attempts)]
<1>1. \A S : Life!Option(S) = Option(S)
  BY LifeNames
<1> QED
  BY <1>1, LifeNames DEF Life!TypeOK

\* Archive and receipt are published.
LEMMA BeginImportStep ==
    ASSUME ImportInv, NEW r \in ImportIds, NEW dataset \in Datasets,
           BeginImport(r, dataset)
    PROVE  ImportInv'
<1> USE DEF ImportInv
<1> DEFINE receipt == [status |-> "pending", dataset |-> dataset]
<1>1. /\ ~ Idle => import.request = None
      /\ journal[r] = None
      /\ \A q \in ImportIds : ~ Pending(q)
      /\ journal' = [journal EXCEPT ![r] = receipt]
      /\ Drawn(dataset)
      /\ UNCHANGED <<jobs, run, image, import, interruptions>>
  BY DEF BeginImport, HasPendingImport
<1>2. receipt \in Receipts /\ receipt.status = "pending" /\ receipt.dataset = dataset
  BY DEF Receipts
<1> HIDE DEF receipt
<1>3. receipt # None /\ journal \in [ImportIds -> Option(Receipts)]
  BY <1>2, NoneIsNoImport DEF TypeOK
<1>4. /\ journal' \in [ImportIds -> Option(Receipts)]
      /\ journal'[r] = receipt
      /\ \A q \in ImportIds \ {r} : journal'[q] = journal[q]
  BY <1>1, <1>2, <1>3 DEF Option
<1>5. /\ Pending(r)'
      /\ \A q \in ImportIds \ {r} : ~ Pending(q)'
  BY <1>1, <1>2, <1>3, <1>4 DEF Pending
<1>6. /\ upload' \in [Jobs -> Life!UploadStage]
      /\ \A j \in DOMAIN dataset : upload'[j] # "unused"
      /\ \A j \in Jobs : upload[j] # "unused" => upload'[j] # "unused"
  BY <1>1, DrawnShape
<1>7. \A j \in Jobs : SameHand(j)
  BY <1>1, UnwrittenHands
<1>8. TypeOK'
  BY <1>1, <1>4, <1>6, Types, TypesNext DEF TypeOK
<1>9. CorpusOK'
  BY <1>7, SameHands
<1>10. DrawnOK'
  <2>1. ~ Idle => DOMAIN import.dataset \subseteq Jobs
    BY RunningImport
  <2> QED
    BY <1>1, <1>2, <1>4, <1>5, <1>6, <1>7, <2>1 DEF DrawnOK, SameHand, Idle
<1>11. JournalOK'
  BY <1>1, <1>3, <1>4, <1>5, <1>7, SameHands DEF JournalOK, Idle
<1>12. RunningOK'
  <2>1. ~ Idle => import.dataset \in Datasets
    BY RunningImport
  <2>2. ASSUME NEW j, HandOK(j)
        PROVE  HandOK(j)'
    BY <1>1, <2>2 DEF HandOK, Exists
  <2> QED
    BY <1>1, <1>7, <2>1, <2>2, SameHands DEF RunningOK, Idle
<1>13. UnderwayOK'
  <2>1. ~ HasHands(r)
    BY <1>1 DEF HasHands, JournalOK
  <2>2. ~ HasHands(r)'
    BY <1>7, <2>1, SameHands
  <2>3. ~ Underway(r)'
    BY <1>1, <2>2, NoneIsNoValue DEF Underway, Idle
  <2> QED
    BY <1>5, <2>3 DEF UnderwayOK, Underway
<1> QED
  BY <1>8, <1>9, <1>10, <1>11, <1>12, <1>13

\* An accepted import starts from hands as it takes them to be.
LEMMA PlanStep ==
    ASSUME TypeOK, NEW request \in Option(ImportIds), NEW dataset \in Datasets,
           Accepts(request, dataset), import' = Plan(request, dataset),
           UNCHANGED <<jobs, image>>
    PROVE  /\ import' \in Imports
           /\ import'.dataset = dataset /\ import'.request = request
           /\ RunningOK'
<1> DEFINE own == {j \in DOMAIN dataset : OwnedBy(j, request)}
           fresh == DOMAIN dataset \ Existing(dataset)
           reused == Existing(dataset) \ own
<1>1. DOMAIN dataset \subseteq Jobs
  BY DatasetsAssumption
<1>2. /\ fresh \in SUBSET Jobs /\ own \in SUBSET Jobs /\ reused \in SUBSET Jobs
      /\ fresh \cup own \cup reused = DOMAIN dataset
  BY <1>1 DEF Existing, OwnedBy
<1>3. import' = [request |-> request, dataset |-> dataset, fresh |-> fresh,
                 resumed |-> own, reused |-> reused, half |-> None]
  BY DEF Plan
<1>4. \A j \in fresh : ~ Exists(j) /\ j \notin own /\ j \notin reused
  BY DEF Existing, OwnedBy
<1>5. ASSUME NEW j \in own
      PROVE  /\ Exists(j) /\ j \notin reused
             /\ jobs[j].approved_state \in {None, dataset[j]}
  <2>1. Exists(j) /\ j \in Existing(dataset)
    BY DEF OwnedBy, Existing
  <2> QED
    BY <2>1 DEF Accepts, Matches
<1>6. ASSUME NEW j \in reused
      PROVE  Exists(j) /\ image[j] /\ jobs[j].approved_state = dataset[j]
  <2>1. Exists(j) /\ j \in Existing(dataset) /\ ~ OwnedBy(j, request)
    BY DEF Existing
  <2> QED
    BY <2>1 DEF Accepts, Matches
<1> HIDE DEF own, fresh, reused
<1>7. /\ import' \in Imports
      /\ import'.dataset = dataset /\ import'.request = request
      /\ import'.fresh = fresh /\ import'.resumed = own /\ import'.reused = reused
      /\ import'.half = None
  BY <1>2, <1>3 DEF Imports, Option
<1>8. ASSUME NEW j \in DOMAIN dataset
      PROVE  HandOK(j)'
  <2>1. Exists(j)' <=> Exists(j)
    BY DEF Exists
  <2>2. import'.half # j
    BY <1>1, <1>7, NoneIsNoImport
  <2> QED
    BY <1>2, <1>4, <1>5, <1>6, <1>7, <2>1, <2>2 DEF HandOK
<1>9. FitsCorpus(dataset)'
  <2>1. \A j \in Jobs : SameHand(j)
    BY UnwrittenHands
  <2> QED
    BY <2>1, SameHands DEF Accepts
<1> QED
  BY <1>2, <1>7, <1>8, <1>9 DEF RunningOK

\* A journaled import is run, for the first time or again.
LEMMA RunImportStep ==
    ASSUME ImportInv, NEW r \in ImportIds, RunImport(r)
    PROVE  ImportInv'
<1> USE DEF ImportInv
<1> DEFINE dataset == journal[r].dataset
<1>1. /\ Idle /\ Pending(r) /\ Accepts(r, dataset)
      /\ import' = Plan(r, dataset)
      /\ UNCHANGED <<jobs, upload, run, image, journal, interruptions>>
  BY DEF RunImport, handVars
<1>2. dataset \in Datasets /\ r \in Option(ImportIds) /\ r # None
  BY <1>1, PendingReceipt, NoneIsNoValue DEF Option
<1> HIDE DEF dataset
<1>3. /\ import' \in Imports
      /\ import'.dataset = dataset /\ import'.request = r
      /\ RunningOK'
  BY <1>1, <1>2, PlanStep
<1>4. \A j \in Jobs : SameHand(j)
  BY <1>1, UnwrittenHands
<1>5. \A q \in ImportIds : Pending(q)' <=> Pending(q)
  BY <1>1 DEF Pending
<1>6. TypeOK'
  BY <1>1, <1>3, Types, TypesNext DEF TypeOK, Option
<1>7. CorpusOK'
  BY <1>4, SameHands
<1>8. DrawnOK'
  BY <1>1, <1>3, <1>4, <1>5 DEF DrawnOK, SameHand, dataset
<1>9. JournalOK'
  BY <1>1, <1>3, <1>4, <1>5, SameHands DEF JournalOK, dataset
<1>10. UnderwayOK'
  <2>1. PICK archive \in Datasets : archive = dataset
    BY <1>2
  <2>2. StaysAcceptable(r, archive)
    BY <1>1, <2>1 DEF Accepts, IsExportable, StaysAcceptable, Matches
  <2>3. StaysAcceptable(r, archive)'
    BY <1>4, <2>2, SameHands
  <2>4. journal'[r].dataset = archive
    BY <1>1, <2>1 DEF dataset
  <2>5. \A q \in ImportIds : Underway(q)' => q = r
    BY <1>1, <1>5 DEF Underway, JournalOK
  <2> QED
    BY <1>3, <2>3, <2>4, <2>5 DEF UnderwayOK, StaysAcceptable, FitsCorpus, Existing, OwnedBy
<1> QED
  BY <1>3, <1>6, <1>7, <1>8, <1>9, <1>10

\* Or it is rejected for good.
LEMMA RejectImportStep ==
    ASSUME ImportInv, NEW r \in ImportIds, RejectImport(r)
    PROVE  ImportInv'
<1> USE DEF ImportInv
<1> DEFINE receipt == [journal[r] EXCEPT !.status = "failed"]
<1>1. /\ Idle /\ Pending(r)
      /\ journal' = [journal EXCEPT ![r] = receipt]
      /\ UNCHANGED <<jobs, upload, run, image, import, interruptions>>
  BY DEF RejectImport, EndJournal, handVars
<1>2. journal[r] \in Receipts /\ journal \in [ImportIds -> Option(Receipts)]
  BY <1>1, PendingReceipt DEF TypeOK
<1>3. receipt \in Receipts /\ receipt.status = "failed"
  BY <1>2 DEF Receipts
<1> HIDE DEF receipt
<1>4. /\ journal' \in [ImportIds -> Option(Receipts)]
      /\ journal'[r] = receipt /\ receipt # None
      /\ \A q \in ImportIds \ {r} : journal'[q] = journal[q]
  BY <1>1, <1>2, <1>3, NoneIsNoImport DEF Option
<1>5. \A q \in ImportIds : ~ Pending(q)'
  BY <1>1, <1>3, <1>4 DEF Pending, JournalOK
<1>6. \A j \in Jobs : SameHand(j)
  BY <1>1, UnwrittenHands
<1>7. TypeOK'
  BY <1>1, <1>4, Types, TypesNext DEF TypeOK
<1>8. CorpusOK'
  BY <1>6, SameHands
<1>9. DrawnOK'
  BY <1>1, <1>5, <1>6 DEF DrawnOK, SameHand, Idle
<1>10. JournalOK'
  BY <1>1, <1>4, <1>5, <1>6, SameHands DEF JournalOK, Idle
<1>11. RunningOK' /\ UnderwayOK'
  BY <1>1, <1>5 DEF RunningOK, UnderwayOK, Underway, Idle
<1> QED
  BY <1>7, <1>8, <1>9, <1>10, <1>11

\* An import without an identity runs at once.
LEMMA RunDirectImportStep ==
    ASSUME ImportInv, NEW dataset \in Datasets, RunDirectImport(dataset)
    PROVE  ImportInv'
<1> USE DEF ImportInv
<1>1. /\ Idle /\ Accepts(None, dataset)
      /\ \A q \in ImportIds : ~ Pending(q)
      /\ import' = Plan(None, dataset)
      /\ Drawn(dataset)
      /\ UNCHANGED <<jobs, run, image, journal, interruptions>>
  BY DEF RunDirectImport, HasPendingImport
<1>2. None \in Option(ImportIds)
  BY DEF Option
<1>3. /\ import' \in Imports
      /\ import'.dataset = dataset /\ import'.request = None
      /\ RunningOK'
  BY <1>1, <1>2, PlanStep
<1>4. \A j \in Jobs : SameHand(j)
  BY <1>1, UnwrittenHands
<1>5. \A q \in ImportIds : ~ Pending(q)'
  BY <1>1 DEF Pending
<1>6. /\ upload' \in [Jobs -> Life!UploadStage]
      /\ \A j \in DOMAIN dataset : upload'[j] # "unused"
      /\ \A j \in Jobs : upload[j] # "unused" => upload'[j] # "unused"
  BY <1>1, DrawnShape
<1>7. TypeOK'
  BY <1>1, <1>3, <1>6, Types, TypesNext DEF TypeOK, Option
<1>8. CorpusOK'
  BY <1>4, SameHands
<1>9. DrawnOK'
  BY <1>3, <1>4, <1>5, <1>6 DEF DrawnOK, SameHand
<1>10. JournalOK'
  BY <1>1, <1>3, <1>4, <1>5, SameHands DEF JournalOK
<1>11. UnderwayOK'
  BY <1>5 DEF UnderwayOK, Underway
<1> QED
  BY <1>3, <1>7, <1>8, <1>9, <1>10, <1>11

\* An import that ends, whatever its receipt says then, if it says anything
\* new only of an import that has written all of its hands.
LEMMA EndStep ==
    ASSUME ImportInv, ~ Idle, import' = None, interruptions' \in 0 .. MaxInterruptions,
           UNCHANGED <<jobs, upload, run, image>>,
           \/ journal' = journal
           \/ /\ import.request # None
              /\ EndJournal(import.request, "completed")
    PROVE  ImportInv'
<1> USE DEF ImportInv
<1>1. import \in Imports
  BY RunningImport
<1>2. \A j \in Jobs : SameHand(j)
  BY UnwrittenHands
<1>3. Idle' /\ TypeOK
  BY DEF Idle
<1>4. ASSUME NEW r \in ImportIds, Pending(r), EndJournal(r, "completed")
      PROVE  /\ journal' \in [ImportIds -> Option(Receipts)]
             /\ ~ Pending(r)' /\ journal'[r] # None
             /\ \A q \in ImportIds \ {r} : journal'[q] = journal[q]
  <2> DEFINE receipt == [journal[r] EXCEPT !.status = "completed"]
  <2>1. journal[r] \in Receipts /\ journal \in [ImportIds -> Option(Receipts)]
    BY <1>4, PendingReceipt DEF TypeOK
  <2>2. receipt \in Receipts /\ receipt.status = "completed"
    BY <2>1 DEF Receipts
  <2>3. journal' = [journal EXCEPT ![r] = receipt]
    BY <1>4 DEF EndJournal
  <2> HIDE DEF receipt
  <2> QED
    BY <2>1, <2>2, <2>3, NoneIsNoImport DEF Option, Pending
<1>5. /\ journal' \in [ImportIds -> Option(Receipts)]
      /\ \A q \in ImportIds : journal[q] # None => journal'[q] # None
      /\ \A q \in ImportIds : Pending(q)' => Pending(q) /\ journal'[q] = journal[q]
  <2>1. CASE journal' = journal
    BY <2>1 DEF TypeOK, Pending
  <2>2. CASE import.request # None /\ EndJournal(import.request, "completed")
    <3>1. import.request \in ImportIds /\ Pending(import.request)
      BY <1>1, <2>2 DEF Imports, Option, JournalOK
    <3>2. PICK r \in ImportIds : r = import.request
      BY <3>1
    <3>3. Pending(r) /\ EndJournal(r, "completed")
      BY <2>2, <3>1, <3>2
    <3>4. /\ journal' \in [ImportIds -> Option(Receipts)]
          /\ ~ Pending(r)' /\ journal'[r] # None
          /\ \A q \in ImportIds \ {r} : journal'[q] = journal[q]
      BY <1>4, <3>3
    <3> QED
      BY <3>4 DEF Pending
  <2> QED
    BY <2>1, <2>2
<1>6. TypeOK'
  BY <1>5, Types, TypesNext DEF TypeOK, Option
<1>7. CorpusOK'
  BY <1>2, SameHands
<1>8. DrawnOK'
  BY <1>2, <1>3, <1>5 DEF DrawnOK, SameHand
<1>9. JournalOK'
  BY <1>2, <1>3, <1>5, SameHands DEF JournalOK
<1>10. RunningOK'
  BY <1>3 DEF RunningOK
<1>11. UnderwayOK'
  <2> SUFFICES ASSUME NEW r \in ImportIds, Underway(r)'
               PROVE  StaysAcceptable(r, journal[r].dataset)'
    BY <1>3 DEF UnderwayOK
  <2>1. Pending(r) /\ journal'[r] = journal[r] /\ HasHands(r)'
    BY <1>3, <1>5 DEF Underway
  <2>2. Underway(r)
    BY <1>2, <2>1, SameHands DEF Underway
  <2>3. PICK archive \in Datasets : archive = journal[r].dataset
    BY <2>1, PendingReceipt
  <2>4. StaysAcceptable(r, archive)'
    BY <1>2, <2>2, <2>3, SameHands DEF UnderwayOK
  <2> QED
    BY <2>1, <2>3, <2>4 DEF StaysAcceptable, FitsCorpus, Existing, OwnedBy
<1> QED
  BY <1>6, <1>7, <1>8, <1>9, <1>10, <1>11

\* The process dies; startup recovery writes records but changes nothing that
\* an import looks at.
LEMMA RestartStep ==
    ASSUME ImportInv, Restart
    PROVE  ImportInv'
<1> USE DEF ImportInv
<1>1. /\ interruptions < MaxInterruptions /\ interruptions' = interruptions + 1
      /\ import' = None /\ UNCHANGED <<image, journal>>
      /\ jobs' = [j \in Jobs |-> IF Exists(j) THEN Recovered(jobs[j]) ELSE None]
      /\ upload' = [j \in Jobs |->
                        IF upload[j] = "unused" THEN "unused" ELSE "done"]
      /\ run' = [s \in Solvers |-> None]
  BY LifeNames DEF Restart, Life!Restart, Life!Exists, Exists
<1>2. jobs \in [Jobs -> Option(JobRecord)]
  BY Types DEF TypeOK
<1>3. ASSUME NEW j \in Jobs
      PROVE  jobs'[j] \in Option(JobRecord) /\ SameHand(j)
  <2>1. CASE Exists(j)
    <3>1. jobs[j] \in JobRecord /\ jobs'[j] = Recovered(jobs[j])
      BY <1>1, <1>2, <2>1, Types DEF Exists
    <3> QED
      BY <1>1, <3>1, RecoveredFacts, RecordsExist DEF SameHand, Exists, Option
  <2>2. CASE ~ Exists(j)
    BY <1>1, <2>2 DEF SameHand, Exists, Option
  <2> QED
    BY <2>1, <2>2
<1>4. TypeOK'
  <2>1. jobs' \in [Jobs -> Option(JobRecord)]
    BY <1>1, <1>3
  <2>2. upload' \in [Jobs -> Life!UploadStage] /\ run' \in [Solvers -> Option(Life!Attempts)]
    BY <1>1 DEF Life!UploadStage, Option
  <2>3. interruptions' \in 0 .. MaxInterruptions
    BY <1>1, DatasetsAssumption DEF TypeOK
  <2> QED
    BY <1>1, <2>1, <2>2, <2>3, TypesNext DEF TypeOK, Option
<1>5. Idle' /\ (\A q \in ImportIds : Pending(q)' <=> Pending(q)) /\ TypeOK
  BY <1>1 DEF Idle, Pending
<1>6. CorpusOK'
  BY <1>3, SameHands
<1>7. DrawnOK'
  <2>1. \A q \in ImportIds : Pending(q) => DOMAIN journal[q].dataset \subseteq Jobs
    BY PendingReceipt
  <2> QED
    BY <1>1, <1>3, <1>5, <2>1 DEF DrawnOK, SameHand
<1>8. JournalOK'
  BY <1>1, <1>3, <1>5, SameHands DEF JournalOK
<1>9. RunningOK'
  BY <1>5 DEF RunningOK
<1>10. UnderwayOK'
  <2> SUFFICES ASSUME NEW r \in ImportIds, Underway(r)'
               PROVE  StaysAcceptable(r, journal[r].dataset)'
    BY <1>5 DEF UnderwayOK
  <2>1. Pending(r) /\ HasHands(r)'
    BY <1>5 DEF Underway
  <2>2. Underway(r)
    BY <1>3, <2>1, SameHands DEF Underway
  <2>3. PICK archive \in Datasets : archive = journal[r].dataset
    BY <2>1, PendingReceipt
  <2>4. StaysAcceptable(r, archive)'
    BY <1>3, <2>2, <2>3, SameHands DEF UnderwayOK
  <2> QED
    BY <1>1, <2>3, <2>4 DEF StaysAcceptable, FitsCorpus, Existing, OwnedBy
<1> QED
  BY <1>4, <1>6, <1>7, <1>8, <1>9, <1>10

-----------------------------------------------------------------------------
(***************************************************************************)
(* Users beside the import                                                 *)
(***************************************************************************)

\* What a user's step changes of one hand.
LEMMA EditShape ==
    ASSUME TypeOK, NEW j \in Jobs, NEW job \in Option(JobRecord),
           jobs' = [jobs EXCEPT ![j] = job]
    PROVE  /\ jobs' \in [Jobs -> Option(JobRecord)]
           /\ jobs'[j] = job
           /\ \A i \in Jobs \ {j} : jobs'[i] = jobs[i]
           /\ \A i \in Jobs \ {j} : Exists(i)' <=> Exists(i)
<1>1. jobs \in [Jobs -> Option(JobRecord)]
  BY Types DEF TypeOK
<1> QED
  BY <1>1 DEF Exists

\* An upload draws a fresh identity, so it meets no hand and no archive.
LEMMA CreateJobStep ==
    ASSUME ImportInv, NEW j \in Jobs, CreateJob(j)
    PROVE  ImportInv'
<1> USE DEF ImportInv
<1>1. /\ upload[j] = "unused"
      /\ jobs' = [jobs EXCEPT ![j] = Uploaded]
      /\ upload' = [upload EXCEPT ![j] = "stored"]
      /\ image' = [image EXCEPT ![j] = TRUE]
      /\ UNCHANGED <<run, journal, import, interruptions>>
  BY LifeNames DEF CreateJob, Life!CreateJob
<1>2. ~ Exists(j)
  BY <1>1 DEF DrawnOK
<1>3. /\ ~ Idle => j \notin DOMAIN import.dataset
      /\ \A r \in ImportIds : Pending(r) => j \notin DOMAIN journal[r].dataset
  BY <1>1 DEF DrawnOK
<1>4. Uploaded \in Option(JobRecord)
  BY UploadedFacts DEF Option
<1>5. /\ jobs' \in [Jobs -> Option(JobRecord)]
      /\ jobs'[j] = Uploaded
      /\ \A i \in Jobs \ {j} : jobs'[i] = jobs[i]
      /\ \A i \in Jobs \ {j} : Exists(i)' <=> Exists(i)
  BY <1>1, <1>4, EditShape
<1>6. /\ upload \in [Jobs -> Life!UploadStage] /\ image \in [Jobs -> BOOLEAN]
  BY Types DEF TypeOK
<1>7. /\ upload' \in [Jobs -> Life!UploadStage] /\ image' \in [Jobs -> BOOLEAN]
      /\ \A i \in Jobs : upload[i] # "unused" => upload'[i] # "unused"
      /\ upload'[j] # "unused"
      /\ \A i \in Jobs \ {j} : image'[i] = image[i]
  BY <1>1, <1>6 DEF Life!UploadStage
<1>8. /\ \A q \in ImportIds : Pending(q)' <=> Pending(q)
      /\ Idle' <=> Idle
  BY <1>1 DEF Pending, Idle
<1>9. TypeOK'
  BY <1>1, <1>5, <1>7, Types, TypesNext DEF TypeOK
<1>10. Life!IncludedJobs' = Life!IncludedJobs
  BY <1>2, <1>5, Included, IncludedNext, UploadedFacts DEF Exists
<1>11. CorpusOK'
  BY <1>2, <1>5, <1>10, Exportable, ExportableNext, Included DEF CorpusOK, Exists
<1>12. \A i \in Jobs, r \in ImportIds : OwnedBy(i, r)' <=> OwnedBy(i, r)
  <2>1. ASSUME NEW r \in ImportIds
        PROVE  OwnedBy(j, r)' <=> OwnedBy(j, r)
    BY <1>2, <1>5, Owners, OwnersNext, UploadedFacts, NoneIsNoValue
  <2>2. ASSUME NEW i \in Jobs \ {j}, NEW r \in ImportIds
        PROVE  OwnedBy(i, r)' <=> OwnedBy(i, r)
    BY <1>5, Owners, OwnersNext
  <2> QED
    BY <2>1, <2>2
<1>13. DrawnOK'
  <2>1. ~ Idle => DOMAIN import.dataset \subseteq Jobs
    BY RunningImport
  <2>2. \A q \in ImportIds : Pending(q) => DOMAIN journal[q].dataset \subseteq Jobs
    BY PendingReceipt
  <2> QED
    BY <1>1, <1>5, <1>7, <1>8, <2>1, <2>2 DEF DrawnOK
<1>14. JournalOK'
  <2>1. journal' = journal /\ import' = import
    BY <1>1
  <2>2. \A q \in ImportIds : journal'[q] # None <=> journal[q] # None
    BY <2>1
  <2> HIDE DEF ImportInv
  <2>3. JournalOK
    BY DEF ImportInv
  <2> QED
    BY <1>12, <2>1, <2>2, <2>3 DEF JournalOK, Pending, Idle
<1>15. RunningOK'
  <2> SUFFICES ASSUME ~ Idle
               PROVE  RunningOK'
    BY <1>8 DEF RunningOK
  <2>1. DOMAIN import.dataset \subseteq Jobs \ {j}
    BY <1>3, RunningImport
  <2>2. ASSUME NEW i \in DOMAIN import.dataset
        PROVE  HandOK(i)'
    <3>1. i \in Jobs \ {j} /\ HandOK(i)
      BY <2>1 DEF RunningOK
    <3>2. jobs'[i] = jobs[i] /\ image'[i] = image[i] /\ (Exists(i)' <=> Exists(i))
      BY <1>5, <1>7, <3>1
    <3> HIDE DEF ImportInv
    <3> QED
      BY <1>1, <3>1, <3>2 DEF HandOK
  <2> QED
    BY <1>1, <1>10, <2>2 DEF RunningOK, FitsCorpus
<1>16. UnderwayOK'
  <2> SUFFICES ASSUME NEW r \in ImportIds, Underway(r)'
               PROVE  /\ ~ Idle => import.request = r
                      /\ StaysAcceptable(r, journal[r].dataset)'
    BY <1>1, <1>8 DEF UnderwayOK
  <2>1. Underway(r) /\ Pending(r)
    BY <1>1, <1>8, <1>12 DEF Underway, HasHands
  <2>2. PICK archive \in Datasets : archive = journal[r].dataset
    BY <2>1, PendingReceipt
  <2>3. StaysAcceptable(r, archive) /\ j \notin DOMAIN archive
    BY <1>3, <2>1, <2>2 DEF UnderwayOK
  <2>4. DOMAIN archive \subseteq Jobs \ {j} /\ Life!IncludedJobs \subseteq Jobs \ {j}
    BY <1>2, <2>3, DatasetsAssumption, Included
  <2>5. Existing(archive)' = Existing(archive)
    BY <1>5, <2>4 DEF Existing
  <2>6. \A i \in Life!IncludedJobs \cup Existing(archive) :
            image'[i] \/ (i \in DOMAIN archive /\ OwnedBy(i, r)')
    BY <1>7, <1>12, <2>3, <2>4 DEF StaysAcceptable, Existing
  <2>7. StaysAcceptable(r, archive)'
    BY <1>10, <2>3, <2>5, <2>6 DEF StaysAcceptable, FitsCorpus
  <2>8. journal'[r].dataset = archive
    BY <1>1, <2>2
  <2> QED
    BY <2>1, <2>7, <2>8
       DEF UnderwayOK, StaysAcceptable, FitsCorpus, Existing, OwnedBy
<1> QED
  BY <1>9, <1>11, <1>13, <1>14, <1>15, <1>16

\* An approval writes a label, and no hand of the running import.
LEMMA ApproveStep ==
    ASSUME ImportInv, NEW j \in Jobs, Approve(j)
    PROVE  ImportInv'
<1> USE DEF ImportInv
<1>1. PICK state \in States :
          /\ ~ Locked(j) /\ Exists(j)
          /\ jobs' = [jobs EXCEPT ![j] = Approved(jobs[j], state)]
          /\ UNCHANGED <<upload, run, image, journal, import, interruptions>>
  BY LifeNames DEF Approve, Life!Approve, Life!Exists, Life!Edit, Exists
<1>2. jobs[j] \in JobRecord
  BY <1>1, Types DEF TypeOK, Exists
<1> DEFINE new == Approved(jobs[j], state)
<1>3. /\ new \in JobRecord
      /\ new.approved_state = state
      /\ new.benchmark_included = jobs[j].benchmark_included
      /\ new.benchmark_import_request_id = jobs[j].benchmark_import_request_id
  BY <1>2, ApprovedFacts
<1> HIDE DEF new
<1>4. /\ jobs' \in [Jobs -> Option(JobRecord)]
      /\ jobs'[j] = new
      /\ \A i \in Jobs \ {j} : jobs'[i] = jobs[i]
      /\ \A i \in Jobs \ {j} : Exists(i)' <=> Exists(i)
  BY <1>1, <1>3, EditShape DEF Option, new
<1>5. Exists(j)'
  BY <1>3, <1>4, RecordsExist DEF Exists
<1>6. \A i \in Jobs : Exists(i)' <=> Exists(i)
  BY <1>1, <1>4, <1>5
<1>7. /\ \A q \in ImportIds : Pending(q)' <=> Pending(q)
      /\ Idle' <=> Idle
  BY <1>1 DEF Pending, Idle
<1>8. TypeOK'
  BY <1>1, <1>4, Types, TypesNext DEF TypeOK
<1>9. Life!IncludedJobs' = Life!IncludedJobs
  BY <1>3, <1>4, <1>6, Included, IncludedNext
<1>10. CorpusOK'
  <2>1. \A i \in Life!IncludedJobs : jobs'[i].approved_state # None
    BY <1>3, <1>4, NoneIsNoValue, Exportable, Included DEF CorpusOK
  <2> QED
    BY <1>9, <2>1, Exportable, ExportableNext DEF CorpusOK
<1>11. \A i \in Jobs, r \in ImportIds : OwnedBy(i, r)' <=> OwnedBy(i, r)
  BY <1>3, <1>4, <1>6, Owners, OwnersNext
<1>12. DrawnOK'
  BY <1>1, <1>6, <1>7 DEF DrawnOK
<1>13. JournalOK'
  <2>1. journal' = journal /\ import' = import /\ JournalOK
    BY <1>1
  <2>2. \A q \in ImportIds : journal'[q] # None <=> journal[q] # None
    BY <2>1
  <2> HIDE DEF ImportInv
  <2> QED
    BY <1>11, <2>1, <2>2 DEF JournalOK, Pending, Idle
<1>14. RunningOK'
  <2> SUFFICES ASSUME ~ Idle
               PROVE  RunningOK'
    BY <1>7 DEF RunningOK
  <2>1. DOMAIN import.dataset \subseteq Jobs \ {j}
    BY <1>1, RunningImport DEF Locked
  <2>2. ASSUME NEW i \in DOMAIN import.dataset
        PROVE  HandOK(i)'
    <3>1. i \in Jobs \ {j} /\ HandOK(i)
      BY <2>1 DEF RunningOK
    <3>2. jobs'[i] = jobs[i] /\ image' = image /\ (Exists(i)' <=> Exists(i))
      BY <1>1, <1>4, <3>1
    <3> HIDE DEF ImportInv
    <3> QED
      BY <1>1, <3>1, <3>2 DEF HandOK
  <2> QED
    BY <1>1, <1>9, <2>2 DEF RunningOK, FitsCorpus
<1>15. UnderwayOK'
  <2> SUFFICES ASSUME NEW r \in ImportIds, Underway(r)'
               PROVE  /\ ~ Idle => import.request = r
                      /\ StaysAcceptable(r, journal[r].dataset)'
    BY <1>1, <1>7 DEF UnderwayOK
  <2>1. Underway(r) /\ Pending(r)
    BY <1>1, <1>7, <1>11 DEF Underway, HasHands
  <2>2. PICK archive \in Datasets : archive = journal[r].dataset
    BY <2>1, PendingReceipt
  <2>3. StaysAcceptable(r, archive)
    BY <2>1, <2>2 DEF UnderwayOK
  <2>4. DOMAIN archive \subseteq Jobs /\ Life!IncludedJobs \subseteq Jobs
    BY DatasetsAssumption, Included
  <2>5. Existing(archive)' = Existing(archive)
    BY <1>6, <2>4 DEF Existing
  <2>6. \A i \in Life!IncludedJobs \cup Existing(archive) :
            image[i] \/ (i \in DOMAIN archive /\ OwnedBy(i, r)')
    BY <1>11, <2>3, <2>4 DEF StaysAcceptable, Existing
  <2>7. StaysAcceptable(r, archive)'
    BY <1>1, <1>9, <2>3, <2>5, <2>6 DEF StaysAcceptable, FitsCorpus
  <2>8. journal'[r].dataset = archive
    BY <1>1, <2>2
  <2> QED
    BY <2>1, <2>7, <2>8
       DEF UnderwayOK, StaysAcceptable, FitsCorpus, Existing, OwnedBy
<1> QED
  BY <1>8, <1>10, <1>12, <1>13, <1>14, <1>15

\* With no import running or pending, the invariant says only that the hands
\* are well formed, their identities drawn and their owners journaled.
LEMMA QuietInvariant ==
    ASSUME ImportInv, CorpusReady,
           NEW j \in Jobs, Exists(j), NEW job \in Option(JobRecord),
           jobs' = [jobs EXCEPT ![j] = job],
           image' \in [Jobs -> BOOLEAN],
           UNCHANGED <<upload, run, journal, import, interruptions>>,
           \A r \in ImportIds : OwnedBy(j, r)' => OwnedBy(j, r),
           CorpusOK'
    PROVE  ImportInv'
<1> USE DEF ImportInv
<1>1. /\ jobs' \in [Jobs -> Option(JobRecord)]
      /\ jobs'[j] = job
      /\ \A i \in Jobs \ {j} : jobs'[i] = jobs[i]
      /\ \A i \in Jobs \ {j} : Exists(i)' <=> Exists(i)
  BY EditShape
<1>2. Idle' /\ \A q \in ImportIds : ~ Pending(q)'
  BY DEF CorpusReady, HasPendingImport, Pending, Idle
<1>3. TypeOK'
  BY <1>1, Types, TypesNext DEF TypeOK
<1>4. DrawnOK'
  BY <1>1, <1>2 DEF DrawnOK
<1>5. JournalOK'
  <2>1. ASSUME NEW i \in Jobs, NEW r \in ImportIds, OwnedBy(i, r)'
        PROVE  OwnedBy(i, r)
    BY <1>1, <2>1, Owners, OwnersNext
  <2> QED
    BY <1>2, <2>1 DEF JournalOK
<1>6. RunningOK' /\ UnderwayOK'
  BY <1>2 DEF RunningOK, UnderwayOK, Underway
<1> QED
  BY <1>3, <1>4, <1>5, <1>6

\* A hand is selected below the limit and with a label, or taken out.
LEMMA SelectForCorpusStep ==
    ASSUME ImportInv, NEW j \in Jobs, NEW included \in BOOLEAN,
           SelectForCorpus(j, included)
    PROVE  ImportInv'
<1> USE DEF ImportInv
<1>1. /\ CorpusReady /\ Exists(j)
      /\ included => jobs[j].approved_state # None
      /\ included /\ ~ jobs[j].benchmark_included =>
             Cardinality(Life!IncludedJobs) < MaxDatasetCases
      /\ jobs' = [jobs EXCEPT ![j] = [jobs[j] EXCEPT !.benchmark_included = included]]
      /\ UNCHANGED <<upload, run, image, journal, import, interruptions>>
  <2>1. \A S : Life!Cardinality(S) = Cardinality(S)
    BY DEF Life!Cardinality, Cardinality
  <2> QED
    BY <2>1 DEF SelectForCorpus, Life!SetBenchmarkInclusion, Life!Exists,
                Life!Edit, Exists
<1>2. jobs[j] \in JobRecord
  BY <1>1, Types DEF TypeOK, Exists
<1> DEFINE new == [jobs[j] EXCEPT !.benchmark_included = included]
<1>3. /\ new \in JobRecord
      /\ new.approved_state = jobs[j].approved_state
      /\ new.benchmark_included = included
      /\ new.benchmark_import_request_id = jobs[j].benchmark_import_request_id
  BY <1>2, SelectedFacts
<1>4. jobs' = [jobs EXCEPT ![j] = new] /\ new \in Option(JobRecord)
  BY <1>1, <1>3 DEF Option
<1> HIDE DEF new
<1>5. /\ jobs'[j] = new
      /\ \A i \in Jobs \ {j} : jobs'[i] = jobs[i]
      /\ \A i \in Jobs \ {j} : Exists(i)' <=> Exists(i)
  BY <1>4, EditShape
<1>6. Life!IncludedJobs' = IF included THEN Life!IncludedJobs \cup {j}
                                       ELSE Life!IncludedJobs \ {j}
  BY <1>1, <1>3, <1>5, RecordsExist, Included, IncludedNext DEF Exists
<1>7. \A i \in Life!IncludedJobs' : jobs'[i].approved_state # None
  BY <1>1, <1>3, <1>5, <1>6, Exportable, Included DEF CorpusOK
<1>8. IsFiniteSet(Life!IncludedJobs') /\ Cardinality(Life!IncludedJobs') <= MaxDatasetCases
  <2> DEFINE S == Life!IncludedJobs
  <2>1. IsFiniteSet(S) /\ Cardinality(S) <= MaxDatasetCases /\ Cardinality(S) \in Nat
    BY Exportable, FS_CardinalityType DEF CorpusOK
  <2>2. CASE included /\ j \notin S
    <3>1. Cardinality(S) < MaxDatasetCases
      BY <1>1, <2>2, Included
    <3>2. Life!IncludedJobs' = S \cup {j}
      BY <1>6, <2>2
    <3> HIDE DEF S
    <3>3. IsFiniteSet(S \cup {j}) /\ Cardinality(S \cup {j}) = Cardinality(S) + 1
      BY <2>1, <2>2, FS_AddElement
    <3> QED
      BY <2>1, <3>1, <3>2, <3>3, DatasetsAssumption
  <2>3. CASE ~ (included /\ j \notin S)
    <3>1. Life!IncludedJobs' \subseteq S \cup {}
      BY <1>6, <2>3
    <3>2. Cardinality(S \cup {}) <= MaxDatasetCases
      BY <2>1
    <3> HIDE DEF S
    <3> QED
      BY <2>1, <3>1, <3>2, FS_EmptySet, LimitOfUnion
  <2> QED
    BY <2>2, <2>3
<1>9. CorpusOK'
  BY <1>7, <1>8, ExportableNext DEF CorpusOK
<1>10. \A r \in ImportIds : OwnedBy(j, r)' => OwnedBy(j, r)
  BY <1>1, <1>3, <1>5, Owners, OwnersNext
<1>11. image' \in [Jobs -> BOOLEAN]
  BY <1>1 DEF TypeOK
<1> QED
  BY <1>1, <1>4, <1>9, <1>10, <1>11, QuietInvariant

\* A hand is deleted, with its image.
LEMMA DeleteStep ==
    ASSUME ImportInv, NEW j \in Jobs, Delete(j)
    PROVE  ImportInv'
<1> USE DEF ImportInv
<1>1. /\ CorpusReady /\ Exists(j)
      /\ jobs' = [jobs EXCEPT ![j] = None]
      /\ image' = [image EXCEPT ![j] = FALSE]
      /\ UNCHANGED <<upload, run, journal, import, interruptions>>
  BY DEF Delete, Life!Delete, Life!Exists, Life!Edit, Exists
<1>2. None \in Option(JobRecord)
  BY DEF Option
<1>3. /\ jobs'[j] = None
      /\ \A i \in Jobs \ {j} : jobs'[i] = jobs[i]
      /\ \A i \in Jobs \ {j} : Exists(i)' <=> Exists(i)
  BY <1>1, <1>2, EditShape
<1>4. Life!IncludedJobs' = Life!IncludedJobs \ {j}
  BY <1>3, Included, IncludedNext DEF Exists
<1>5. IsFiniteSet(Life!IncludedJobs') /\ Cardinality(Life!IncludedJobs') <= MaxDatasetCases
  <2> DEFINE S == Life!IncludedJobs
  <2>1. IsFiniteSet(S) /\ Cardinality(S \cup {}) <= MaxDatasetCases
    BY Exportable DEF CorpusOK
  <2>2. Life!IncludedJobs' \subseteq S \cup {}
    BY <1>4
  <2> HIDE DEF S
  <2> QED
    BY <2>1, <2>2, FS_EmptySet, LimitOfUnion
<1>6. CorpusOK'
  BY <1>3, <1>4, <1>5, Exportable, ExportableNext, Included DEF CorpusOK
<1>7. \A r \in ImportIds : ~ OwnedBy(j, r)'
  BY <1>3, OwnersNext DEF Exists
<1>8. image' \in [Jobs -> BOOLEAN]
  BY <1>1 DEF TypeOK
<1> QED
  BY <1>1, <1>2, <1>6, <1>7, <1>8, QuietInvariant

-----------------------------------------------------------------------------
(***************************************************************************)
(* The invariant and the theorems                                          *)
(***************************************************************************)

\* At the start there are no hands, no receipts and no import.
LEMMA InitEstablishesImportInv == Init => ImportInv
<1> SUFFICES ASSUME Init
             PROVE  ImportInv
  OBVIOUS
<1>1. /\ jobs = [j \in Jobs |-> None]
      /\ upload = [j \in Jobs |-> "unused"]
      /\ run = [s \in Solvers |-> None]
      /\ image = [j \in Jobs |-> FALSE]
      /\ journal = [r \in ImportIds |-> None]
      /\ import = None
      /\ interruptions = 0
  BY DEF Init, Life!Init
<1>2. \A j \in Jobs : ~ Exists(j)
  BY <1>1 DEF Exists
<1>3. Idle /\ \A r \in ImportIds : ~ Pending(r)
  BY <1>1 DEF Idle, Pending
<1>4. TypeOK
  <2>1. Life!TypeOK
    BY <1>1, Types DEF Option, Life!UploadStage
  <2>2. 0 \in 0 .. MaxInterruptions
    BY DatasetsAssumption
  <2> QED
    BY <1>1, <2>1, <2>2 DEF TypeOK, Option
<1>5. CorpusOK
  <2>1. Life!IncludedJobs = {}
    BY <1>2, Included
  <2>2. IsFiniteSet({}) /\ Cardinality({}) = 0
    BY FS_EmptySet
  <2>3. 0 <= MaxDatasetCases
    BY DatasetsAssumption
  <2> QED
    BY <2>1, <2>2, <2>3, Exportable DEF CorpusOK
<1>6. DrawnOK /\ RunningOK /\ UnderwayOK
  BY <1>2, <1>3 DEF DrawnOK, RunningOK, UnderwayOK, Underway
<1>7. JournalOK
  BY <1>2, <1>3 DEF JournalOK, OwnedBy
<1> QED
  BY <1>4, <1>5, <1>6, <1>7 DEF ImportInv

\* Every step keeps the invariant.
LEMMA NextKeepsImportInv == ImportInv /\ [Next]_vars => ImportInv'
<1> SUFFICES ASSUME ImportInv, [Next]_vars
             PROVE  ImportInv'
  OBVIOUS
<1>1. ASSUME NEW r \in ImportIds, Poll(r)
      PROVE  ImportInv'
  BY <1>1, RunImportStep, RejectImportStep DEF Poll
<1>2. ASSUME NEW r \in ImportIds, NEW dataset \in Datasets, BeginImport(r, dataset)
      PROVE  ImportInv'
  BY <1>2, BeginImportStep
<1>3. ASSUME NEW dataset \in Datasets, RunDirectImport(dataset)
      PROVE  ImportInv'
  BY <1>3, RunDirectImportStep
<1>4. ASSUME NEW j \in Jobs,
             \/ StartHand(j) \/ FinishHand(j)
             \/ StartRepair(j) \/ FinishRepair(j) \/ SelectHand(j)
      PROVE  ImportInv'
  BY <1>4, StartHandStep, FinishHandStep, StartRepairStep, FinishRepairStep,
     SelectHandStep
<1>5. CASE CompleteImport
  <2>1. interruptions' \in 0 .. MaxInterruptions
    BY <1>5 DEF CompleteImport, ImportInv, TypeOK
  <2>2. /\ ~ Idle /\ import' = None /\ UNCHANGED <<jobs, upload, run, image>>
        /\ \/ journal' = journal
           \/ import.request # None /\ EndJournal(import.request, "completed")
    BY <1>5 DEF CompleteImport, handVars
  <2> QED
    BY <2>1, <2>2, EndStep
<1>6. CASE FailWrite
  <2>1. interruptions' \in 0 .. MaxInterruptions
    BY <1>6, DatasetsAssumption DEF FailWrite, ImportInv, TypeOK
  <2>2. /\ ~ Idle /\ import' = None /\ UNCHANGED <<jobs, upload, run, image, journal>>
    BY <1>6 DEF FailWrite, handVars
  <2> QED
    BY <2>1, <2>2, EndStep
<1>7. CASE Restart
  BY <1>7, RestartStep
<1>8. ASSUME NEW j \in Jobs, CreateJob(j) \/ Approve(j) \/ Delete(j)
      PROVE  ImportInv'
  BY <1>8, CreateJobStep, ApproveStep, DeleteStep
<1>9. ASSUME NEW j \in Jobs, NEW included \in BOOLEAN, SelectForCorpus(j, included)
      PROVE  ImportInv'
  BY <1>9, SelectForCorpusStep
<1>10. CASE UNCHANGED vars
  BY <1>10
     DEF vars, ImportInv, TypeOK, Life!TypeOK, CorpusOK, CorpusIsExportable,
         Life!CorpusIsExportable, Life!IncludedJobs, Life!Exists, DrawnOK,
         JournalOK, RunningOK, HandOK, UnderwayOK, Underway, HasHands,
         StaysAcceptable, FitsCorpus, Existing, OwnedBy, Exists, Pending, Idle
<1> QED
  BY <1>1, <1>2, <1>3, <1>4, <1>5, <1>6, <1>7, <1>8, <1>9, <1>10
     DEF Next, ImportStep

\* The invariant holds always.
THEOREM ImportInvariant == Spec => []ImportInv
<1> QED
  BY InitEstablishesImportInv, NextKeepsImportInv, PTL DEF Spec

\* The states are as declared.
THEOREM ImportTypeCorrect == Spec => []TypeOK
<1>1. ImportInv => TypeOK
  BY DEF ImportInv
<1> QED
  BY <1>1, ImportInvariant, PTL

\* Selection, journaled and direct imports together, around interruptions, keep
\* the corpus labelled and within the limit of its own export.
THEOREM ImportsKeepCorpusExportable == Spec => []CorpusIsExportable
<1>1. ImportInv => CorpusIsExportable
  BY DEF ImportInv, CorpusOK
<1> QED
  BY <1>1, ImportInvariant, PTL

-----------------------------------------------------------------------------
(***************************************************************************)
(* What a running import leaves of its hands                               *)
(***************************************************************************)

\* A hand is there, with its label if it had one and its image if it had one.
Untouched(j) ==
    /\ Exists(j)'
    /\ image[j] => image'[j]
    /\ jobs[j].approved_state # None =>
           jobs'[j].approved_state = jobs[j].approved_state

\* Startup and steps that write no hand leave it.
LEMMA SameHandIsUntouched ==
    ASSUME NEW j, Exists(j), SameHand(j)
    PROVE  Untouched(j)
BY DEF SameHand, Untouched

\* So does a write of a hand with the label it has, or of another hand.
LEMMA WriteLeavesHands ==
    ASSUME TypeOK, NEW j \in Jobs, Exists(j),
           NEW i \in Jobs, NEW job \in JobRecord, NEW b \in BOOLEAN,
           Write(i, job, b),
           i = j => /\ image[j] => b
                    /\ job.approved_state = jobs[j].approved_state
                       \/ jobs[j].approved_state = None
    PROVE  Untouched(j)
<1>1. /\ Exists(i)' /\ jobs'[i] = job /\ image'[i] = b
      /\ \A k \in Jobs \ {i} : jobs'[k] = jobs[k] /\ image'[k] = image[k]
  BY WriteShape
<1>2. CASE i = j
  BY <1>1, <1>2 DEF Untouched
<1>3. CASE i # j
  BY <1>1, <1>3 DEF Untouched, Exists
<1> QED
  BY <1>2, <1>3

\* The steps of the import itself: it starts only hands that are absent, and
\* writes to the others the label they have.
LEMMA ImportLeavesHands ==
    ASSUME ImportInv, NEW j \in Jobs, Exists(j), NEW i \in Jobs,
           \/ StartHand(i) \/ FinishHand(i)
           \/ StartRepair(i) \/ FinishRepair(i) \/ SelectHand(i)
    PROVE  Untouched(j)
<1> DEFINE label == import.dataset[i]
<1>1. /\ ~ Idle
      /\ i \in import.fresh \cup import.resumed \cup import.reused
  BY DEF StartHand, FinishHand, StartRepair, FinishRepair, SelectHand
<1>2. /\ label \in States /\ import.request \in Option(ImportIds)
      /\ HandOK(i)
      /\ Exists(i) => jobs[i] \in JobRecord
      /\ TypeOK
  BY <1>1, HandOfImport DEF ImportInv
<1>3. i # None
  BY NoneIsNoImport
<1>4. CASE StartHand(i)
  <2>1. ~ Exists(i)
    BY <1>2, <1>3, <1>4 DEF StartHand, HandOK
  <2>2. i # j
    BY <2>1
  <2>3. PICK job \in JobRecord, b \in BOOLEAN : Write(i, job, b)
    BY <1>2, <1>4, UploadedFacts, ImportedFacts DEF StartHand
  <2> QED
    BY <1>2, <2>2, <2>3, WriteLeavesHands
<1>5. CASE FinishHand(i)
  <2> DEFINE new == Imported(import.request, label)
  <2>1. /\ Write(i, new, TRUE)
        /\ jobs[i].approved_state \in {None, label}
    BY <1>2, <1>5 DEF FinishHand, HandOK
  <2>2. new \in JobRecord /\ new.approved_state = label
    BY <1>2, ImportedFacts
  <2> HIDE DEF new
  <2> QED
    BY <1>2, <2>1, <2>2, WriteLeavesHands
<1>6. CASE StartRepair(i)
  <2>1. Write(i, jobs[i], TRUE) /\ jobs[i] \in JobRecord
    BY <1>2, <1>6 DEF StartRepair, HandOK
  <2> QED
    BY <1>2, <2>1, WriteLeavesHands
<1>7. CASE FinishRepair(i)
  <2> DEFINE new == [jobs[i] EXCEPT !.approved_state = label,
                                    !.benchmark_included = TRUE,
                                    !.status = "approved"]
  <2>1. /\ Write(i, new, TRUE) /\ jobs[i] \in JobRecord
        /\ jobs[i].approved_state \in {None, label}
    BY <1>2, <1>7 DEF FinishRepair, HandOK
  <2>2. new \in JobRecord /\ new.approved_state = label
    BY <1>2, <2>1, RepairedFacts
  <2> HIDE DEF new
  <2> QED
    BY <1>2, <2>1, <2>2, WriteLeavesHands
<1>8. CASE SelectHand(i)
  <2> DEFINE new == [jobs[i] EXCEPT !.benchmark_included = TRUE]
  <2>1. /\ Write(i, new, image[i]) /\ jobs[i] \in JobRecord
        /\ image[i] \in BOOLEAN
    BY <1>2, <1>8 DEF SelectHand, HandOK, TypeOK
  <2>2. new \in JobRecord /\ new.approved_state = jobs[i].approved_state
    BY <2>1, SelectedFacts
  <2> HIDE DEF new
  <2> QED
    BY <1>2, <2>1, <2>2, WriteLeavesHands
<1> QED
  BY <1>4, <1>5, <1>6, <1>7, <1>8

\* Every step, as long as the import runs.
LEMMA LockedHandsStay ==
    ASSUME ImportInv, [Next]_vars, NEW j \in Jobs, Locked(j), Exists(j)
    PROVE  Untouched(j)
<1> USE DEF ImportInv
<1>1. ~ Idle /\ TypeOK
  BY DEF Locked
<1>2. (UNCHANGED <<jobs, image>>) => Untouched(j)
  BY UnwrittenHands, SameHandIsUntouched
<1>3. ASSUME NEW r \in ImportIds, Poll(r)
      PROVE  Untouched(j)
  BY <1>1, <1>3 DEF Poll, RunImport, RejectImport
<1>4. ASSUME NEW r \in ImportIds, NEW dataset \in Datasets, BeginImport(r, dataset)
      PROVE  Untouched(j)
  BY <1>2, <1>4 DEF BeginImport
<1>5. ASSUME NEW dataset \in Datasets, RunDirectImport(dataset)
      PROVE  Untouched(j)
  BY <1>1, <1>5 DEF RunDirectImport
<1>6. ASSUME NEW i \in Jobs,
             \/ StartHand(i) \/ FinishHand(i)
             \/ StartRepair(i) \/ FinishRepair(i) \/ SelectHand(i)
      PROVE  Untouched(j)
  BY <1>6, ImportLeavesHands
<1>7. CASE CompleteImport \/ FailWrite \/ UNCHANGED vars
  BY <1>2, <1>7 DEF CompleteImport, FailWrite, handVars, vars
<1>8. CASE Restart
  <2>1. jobs[j] \in JobRecord
    BY Types DEF TypeOK, Exists
  <2>2. jobs'[j] = Recovered(jobs[j]) /\ image' = image
    BY <1>8, LifeNames DEF Restart, Life!Restart, Life!Exists, Exists
  <2> QED
    BY <2>1, <2>2, RecoveredFacts, RecordsExist DEF Untouched, Exists
<1>9. ASSUME NEW i \in Jobs, CreateJob(i)
      PROVE  Untouched(j)
  <2>1. /\ upload[i] = "unused"
        /\ jobs' = [jobs EXCEPT ![i] = Uploaded]
        /\ image' = [image EXCEPT ![i] = TRUE]
    BY <1>9, LifeNames DEF CreateJob, Life!CreateJob
  <2>2. i # j
    BY <2>1 DEF DrawnOK
  <2>3. jobs'[j] = jobs[j] /\ image'[j] = image[j]
    BY <1>1, <2>1, <2>2, Types DEF TypeOK
  <2> QED
    BY <2>3 DEF Untouched, Exists
<1>10. ASSUME NEW i \in Jobs, Approve(i)
       PROVE  Untouched(j)
  <2>1. PICK job : jobs' = [jobs EXCEPT ![i] = job] /\ image' = image /\ ~ Locked(i)
    BY <1>10 DEF Approve, Life!Approve, Life!Edit
  <2>2. jobs'[j] = jobs[j]
    BY <1>1, <2>1, Types DEF TypeOK
  <2> QED
    BY <2>1, <2>2 DEF Untouched, Exists
<1>11. ASSUME NEW i \in Jobs, Delete(i)
       PROVE  Untouched(j)
  BY <1>1, <1>11 DEF Delete, CorpusReady
<1>12. ASSUME NEW i \in Jobs, NEW included \in BOOLEAN, SelectForCorpus(i, included)
       PROVE  Untouched(j)
  BY <1>1, <1>12 DEF SelectForCorpus, CorpusReady
<1> QED
  BY <1>3, <1>4, <1>5, <1>6, <1>7, <1>8, <1>9, <1>10, <1>11, <1>12
     DEF Next, ImportStep

\* From its acceptance to its end or interruption an import overwrites no label
\* and loses no screenshot of the hands it names.
THEOREM ImportsOverwriteNothing == Spec => ImportNeverOverwrites
<1>1. ImportInv /\ [Next]_vars =>
          [\A j \in Jobs : Locked(j) /\ Exists(j) =>
              /\ Exists(j)'
              /\ image[j] => image'[j]
              /\ jobs[j].approved_state # None =>
                     jobs'[j].approved_state = jobs[j].approved_state]_vars
  BY LockedHandsStay DEF Untouched
<1> QED
  BY <1>1, ImportInvariant, PTL DEF Spec, ImportNeverOverwrites

-----------------------------------------------------------------------------
(***************************************************************************)
(* What a receipt says                                                     *)
(***************************************************************************)

\* Only the end of an import and the rejection of one write a receipt that is
\* pending.
LEMMA ReceiptSteps ==
    ASSUME ImportInv, [Next]_vars, NEW r \in ImportIds, Pending(r),
           journal'[r] # journal[r]
    PROVE  \/ RejectImport(r) /\ journal'[r].status = "failed"
           \/ /\ CompleteImport /\ import.request = r
              /\ journal'[r].status = "completed"
<1> DEFINE Goal == \/ RejectImport(r) /\ journal'[r].status = "failed"
                   \/ /\ CompleteImport /\ import.request = r
                      /\ journal'[r].status = "completed"
<1>1. /\ journal[r] \in Receipts /\ journal \in [ImportIds -> Option(Receipts)]
      /\ \A q \in ImportIds : Pending(q) => q = r
  BY PendingReceipt DEF ImportInv, TypeOK, JournalOK
<1>2. ASSUME NEW q \in ImportIds, NEW status, EndJournal(q, status)
      PROVE  q = r /\ journal'[r].status = status
  <2>1. q = r
    BY <1>1, <1>2 DEF EndJournal
  <2>2. journal'[r] = [journal[r] EXCEPT !.status = status]
    BY <1>1, <1>2, <2>1 DEF EndJournal
  <2> QED
    BY <1>1, <2>1, <2>2 DEF Receipts
<1>3. ASSUME NEW q \in ImportIds, Poll(q)
      PROVE  Goal
  BY <1>2, <1>3 DEF Poll, RunImport, RejectImport
<1>4. ASSUME NEW q \in ImportIds, NEW dataset \in Datasets, BeginImport(q, dataset)
      PROVE  Goal
  BY <1>4 DEF BeginImport, HasPendingImport
<1>5. ASSUME NEW dataset \in Datasets, RunDirectImport(dataset)
      PROVE  Goal
  BY <1>5 DEF RunDirectImport
<1>6. ASSUME NEW j \in Jobs,
             \/ StartHand(j) \/ FinishHand(j)
             \/ StartRepair(j) \/ FinishRepair(j) \/ SelectHand(j)
      PROVE  Goal
  BY <1>6 DEF StartHand, FinishHand, StartRepair, FinishRepair, SelectHand, Write
<1>7. CASE CompleteImport
  <2>1. import.request # None /\ EndJournal(import.request, "completed") /\ ~ Idle
    BY <1>7 DEF CompleteImport
  <2>2. PICK q \in ImportIds : q = import.request
    BY <2>1, RunningImport DEF ImportInv, Imports, Option
  <2> QED
    BY <1>2, <1>7, <2>1, <2>2
<1>8. CASE FailWrite \/ Restart \/ UNCHANGED vars
  BY <1>8 DEF FailWrite, Restart, vars
<1>9. ASSUME NEW j \in Jobs, CreateJob(j) \/ Approve(j) \/ Delete(j)
      PROVE  Goal
  BY <1>9 DEF CreateJob, Approve, Delete
<1>10. ASSUME NEW j \in Jobs, NEW included \in BOOLEAN, SelectForCorpus(j, included)
       PROVE  Goal
  BY <1>10 DEF SelectForCorpus
<1> QED
  BY <1>3, <1>4, <1>5, <1>6, <1>7, <1>8, <1>9, <1>10 DEF Next, ImportStep

\* An import that has no hand left to write has written them all.
LEMMA CompletedStep ==
    ASSUME ImportInv, [Next]_vars, NEW r \in ImportIds, Pending(r),
           journal'[r].status = "completed",
           NEW j \in DOMAIN journal[r].dataset
    PROVE  /\ Exists(j) /\ image[j]
           /\ jobs[j].benchmark_included
           /\ jobs[j].approved_state = journal[r].dataset[j]
<1>1. journal'[r] # journal[r]
  BY DEF Pending
<1>2. CompleteImport /\ import.request = r
  BY <1>1, ReceiptSteps
<1>3. /\ ~ Idle
      /\ import.fresh \cup import.resumed \cup import.reused = {}
  BY <1>2 DEF CompleteImport
<1>4. journal[r].dataset = import.dataset
  BY <1>2, <1>3, NoneIsNoValue DEF ImportInv, JournalOK
<1>5. HandOK(j)
  BY <1>3, <1>4 DEF ImportInv, RunningOK
<1> QED
  BY <1>3, <1>4, <1>5 DEF HandOK

\* A completed receipt tells the truth.
THEOREM CompletedImportsAreWhole == Spec => CompletedMeansImported
<1>1. ImportInv /\ [Next]_vars =>
          [\A r \in ImportIds :
              Pending(r) /\ journal'[r].status = "completed" =>
                  \A j \in DOMAIN journal[r].dataset :
                      /\ Exists(j) /\ image[j]
                      /\ jobs[j].benchmark_included
                      /\ jobs[j].approved_state = journal[r].dataset[j]]_vars
  BY CompletedStep
<1> QED
  BY <1>1, ImportInvariant, PTL DEF Spec, CompletedMeansImported

\* An import that has written a hand meets, when it is run again, hands that
\* it accepts, unless the label of one has changed.
LEMMA ResumedStep ==
    ASSUME ImportInv, [Next]_vars, NEW r \in ImportIds, Pending(r),
           journal'[r].status = "failed", HasHands(r)
    PROVE  \E j \in Existing(journal[r].dataset) :
               jobs[j].approved_state # journal[r].dataset[j]
<1> DEFINE dataset == journal[r].dataset
<1>1. journal'[r] # journal[r]
  BY DEF Pending
<1>2. RejectImport(r)
  BY <1>1, ReceiptSteps
<1>3. ~ Accepts(r, dataset)
  BY <1>2 DEF RejectImport
<1>4. Underway(r)
  BY DEF Underway
<1>5. StaysAcceptable(r, dataset)
  BY <1>4 DEF ImportInv, UnderwayOK
<1>6. \A j \in DOMAIN dataset : dataset[j] \in States /\ dataset[j] # None
  BY PendingReceipt, NoneIsNoValue DEF ImportInv
<1>7. SUFFICES ASSUME \A j \in Existing(dataset) : jobs[j].approved_state = dataset[j]
               PROVE  Accepts(r, dataset)
  BY <1>3
<1> HIDE DEF dataset
<1>8. FitsCorpus(dataset)
  BY <1>5 DEF StaysAcceptable
<1>9. \A j \in Existing(dataset) : Matches(j, r, dataset)
  BY <1>5, <1>7 DEF StaysAcceptable, Matches
<1>10. IsExportable(r, dataset)
  <2> SUFFICES ASSUME NEW j \in Life!IncludedJobs \cup Existing(dataset),
                      ~ (j \in DOMAIN dataset /\ OwnedBy(j, r))
               PROVE  image[j] /\ jobs[j].approved_state # None
    BY DEF IsExportable
  <2>1. image[j]
    BY <1>5 DEF StaysAcceptable
  <2>2. jobs[j].approved_state # None
    BY <1>6, <1>7, Exportable DEF Existing, ImportInv, CorpusOK
  <2> QED
    BY <2>1, <2>2
<1> QED
  BY <1>8, <1>9, <1>10 DEF Accepts

\* An interrupted import can be resumed, unless a user relabelled its hands.
THEOREM InterruptedImportsResume == Spec => ResumedUnlessRelabelled
<1>1. ImportInv /\ [Next]_vars =>
          [\A r \in ImportIds :
              Pending(r) /\ journal'[r].status = "failed" =>
                  LET dataset == journal[r].dataset IN
                  (\E j \in Jobs : OwnedBy(j, r)) =>
                      \E j \in Existing(dataset) :
                          jobs[j].approved_state # dataset[j]]_vars
  BY ResumedStep DEF HasHands
<1> QED
  BY <1>1, ImportInvariant, PTL DEF Spec, ResumedUnlessRelabelled
=============================================================================
