----------------------------- MODULE CorpusImport -----------------------------
(***************************************************************************)
(* Importing a parser dataset into the corpus.  An import with a client's  *)
(* request identity is journaled: the archive and a pending receipt are    *)
(* published before anything else, the hands are written one after the     *)
(* other, and the receipt becomes completed or failed.  The process may    *)
(* die, or a write may fail, between any two writes; a later poll of the   *)
(* receipt runs the import again from the journaled archive.  An import    *)
(* without an identity leaves no journal.                                  *)
(*                                                                         *)
(* A running import holds the import lock, the corpus lock and the locks   *)
(* of its hands, so uploads and edits of other hands go on beside it.      *)
(* While a receipt is pending and nothing runs, users may still approve    *)
(* its hands, but not delete or select hands or import another dataset.    *)
(* Recommendations change no field that an import looks at, and the parser *)
(* only one that an approval changes too; both are left out.               *)
(***************************************************************************)
EXTENDS JobRecords, Naturals

CONSTANTS
    Jobs, Solvers, MaxDatasetCases, \* as in JobLifecycle
    Datasets,                       \* archives: hands with their labels
    MaxInterruptions                \* bound: deaths and failing writes

ASSUME DatasetsAssumption ==
    /\ \A dataset \in Datasets : /\ DOMAIN dataset \subseteq Jobs
                                 /\ DOMAIN dataset # {}
                                 /\ IsFiniteSet(DOMAIN dataset)
                                 /\ \A j \in DOMAIN dataset : dataset[j] \in States
    /\ MaxDatasetCases \in Nat
    /\ MaxInterruptions \in Nat

VARIABLES
    jobs, upload, run, \* as in JobLifecycle
    image,             \* which hands have their screenshot
    journal,           \* imports/<request>: receipt and archive
    import,            \* the import that is running
    interruptions      \* how many there have been

Life == INSTANCE JobLifecycle

handVars == <<jobs, upload, run>>
vars == <<jobs, upload, run, image, journal, import, interruptions>>

Receipts == [status: {"pending", "completed", "failed"}, dataset: Datasets]

\* The hands still to be written, by what import_parser_dataset does to them:
\* create them, repair what this request created, or select what was there;
\* and the hand of which one file of two is written.
Imports == [request: Option(ImportIds), dataset: Datasets, fresh: SUBSET Jobs,
            resumed: SUBSET Jobs, reused: SUBSET Jobs, half: Option(Jobs)]

\* No hand, no receipt and no import is taken for its absence.
ASSUME NoneIsNoImport == None \notin Jobs \cup Receipts \cup Imports

TypeOK ==
    /\ Life!TypeOK
    /\ image \in [Jobs -> BOOLEAN]
    /\ journal \in [ImportIds -> Option(Receipts)]
    /\ import \in Option(Imports)
    /\ interruptions \in 0 .. MaxInterruptions

Init ==
    /\ Life!Init
    /\ image = [j \in Jobs |-> FALSE]
    /\ journal = [r \in ImportIds |-> None]
    /\ import = None
    /\ interruptions = 0

Exists(j) == jobs[j] # None

Pending(r) == journal[r] # None /\ journal[r].status = "pending"

HasPendingImport == \E r \in ImportIds : Pending(r)

Idle == import = None

\* The locks of an import, as seen by a handler for one hand.
Locked(j) == ~ Idle /\ j \in DOMAIN import.dataset

-----------------------------------------------------------------------------
(***************************************************************************)
(* Starting an import                                                      *)
(***************************************************************************)

OwnedBy(j, request) ==
    request # None /\ Exists(j) /\ jobs[j].benchmark_import_request_id = request

Existing(dataset) == {j \in DOMAIN dataset : Exists(j)}

\* Mutant: the hands of the archive are counted alone.
FitsCorpusAlone(dataset) == Cardinality(DOMAIN dataset) <= MaxDatasetCases

FitsCorpus(dataset) ==
    Cardinality(Life!IncludedJobs \cup DOMAIN dataset) <= MaxDatasetCases

\* Mutant: a hand of the same request is never a conflict.
MatchesUnlessOwned(j, request, dataset) ==
    OwnedBy(j, request) \/ (image[j] /\ jobs[j].approved_state = dataset[j])

\* An existing hand must carry the same label and image.  One that this
\* request created may lack either.
Matches(j, request, dataset) ==
    LET own == OwnedBy(j, request) IN
    /\ image[j] \/ own
    /\ \/ jobs[j].approved_state = dataset[j]
       \/ own /\ jobs[j].approved_state = None

\* The corpus as it would be must be exportable: every hand that is selected
\* or taken over needs a label and an image.
IsExportable(request, dataset) ==
    \A j \in Life!IncludedJobs \cup Existing(dataset) :
        \/ j \in DOMAIN dataset /\ OwnedBy(j, request)
        \/ image[j] /\ jobs[j].approved_state # None

Accepts(request, dataset) ==
    /\ FitsCorpus(dataset)
    /\ \A j \in Existing(dataset) : Matches(j, request, dataset)
    /\ IsExportable(request, dataset)

\* Mutant: hands of the same request are taken as written.
PlanWithoutRepair(request, dataset) ==
    [request |-> request, dataset |-> dataset,
     fresh |-> DOMAIN dataset \ Existing(dataset),
     resumed |-> {}, reused |-> Existing(dataset), half |-> None]

Plan(request, dataset) ==
    LET own == {j \in DOMAIN dataset : OwnedBy(j, request)} IN
    [request |-> request, dataset |-> dataset,
     fresh |-> DOMAIN dataset \ Existing(dataset),
     resumed |-> own, reused |-> Existing(dataset) \ own, half |-> None]

\* An archive names hands whose identities were drawn before it was made.
Drawn(dataset) ==
    upload' = [j \in Jobs |-> IF j \in DOMAIN dataset /\ upload[j] = "unused"
                              THEN "done" ELSE upload[j]]

\* Mutant: a rejected import keeps its receipt pending.
EndJournalKeepingPending(r, status) ==
    journal' = [journal EXCEPT ![r].status =
                    IF status = "failed" THEN "pending" ELSE status]

EndJournal(r, status) == journal' = [journal EXCEPT ![r].status = status]

\* begin_import publishes archive and receipt together, under the import lock
\* but not under the corpus lock that a direct import holds.
BeginImport(r, dataset) ==
    /\ ~ Idle => import.request = None
    /\ journal[r] = None
    /\ ~ HasPendingImport
    /\ journal' = [journal EXCEPT ![r] = [status |-> "pending", dataset |-> dataset]]
    /\ Drawn(dataset)
    /\ UNCHANGED <<jobs, run, image, import, interruptions>>

\* The upload request itself, its repetition, or a poll of the receipt runs
\* whatever is journaled as pending.
RunImport(r) ==
    /\ Idle
    /\ Pending(r)
    /\ Accepts(r, journal[r].dataset)
    /\ import' = Plan(r, journal[r].dataset)
    /\ UNCHANGED <<handVars, image, journal, interruptions>>

RejectImport(r) ==
    /\ Idle
    /\ Pending(r)
    /\ ~ Accepts(r, journal[r].dataset)
    /\ EndJournal(r, "failed")
    /\ UNCHANGED <<handVars, image, import, interruptions>>

RunDirectImport(dataset) ==
    /\ Idle
    /\ ~ HasPendingImport
    /\ Accepts(None, dataset)
    /\ import' = Plan(None, dataset)
    /\ Drawn(dataset)
    /\ UNCHANGED <<jobs, run, image, journal, interruptions>>

-----------------------------------------------------------------------------
(***************************************************************************)
(* Writing the hands                                                       *)
(***************************************************************************)

\* Mutant: a status that JobRecord does not know.
ImportedAsImported(request, label) ==
    [Uploaded EXCEPT !.status = "imported", !.approved_state = label,
                     !.benchmark_included = TRUE,
                     !.benchmark_import_request_id = request]

Imported(request, label) ==
    [Uploaded EXCEPT !.status = "approved",
                     !.approved_state = label,
                     !.benchmark_included = TRUE,
                     !.benchmark_import_request_id = request]

Write(j, job, hasImage) ==
    /\ jobs' = [jobs EXCEPT ![j] = job]
    /\ image' = [image EXCEPT ![j] = hasImage]
    /\ UNCHANGED <<upload, run, journal, interruptions>>

Halfway(j) == import' = [import EXCEPT !.half = j]

Done(j) ==
    import' = [import EXCEPT !.fresh = @ \ {j}, !.resumed = @ \ {j},
                             !.reused = @ \ {j}, !.half = None]

\* create_benchmark_import_job writes record, then image; create_job writes
\* image and a record that is not yet labelled, which is saved again.
StartHand(j) ==
    /\ ~ Idle
    /\ import.half = None
    /\ j \in import.fresh
    /\ IF import.request = None
       THEN Write(j, Uploaded, TRUE)
       ELSE Write(j, Imported(import.request, import.dataset[j]), FALSE)
    /\ Halfway(j)

FinishHand(j) ==
    /\ ~ Idle
    /\ import.half = j
    /\ j \in import.fresh
    /\ Write(j, Imported(import.request, import.dataset[j]), TRUE)
    /\ Done(j)

StartRepair(j) ==
    /\ ~ Idle
    /\ import.half = None
    /\ j \in import.resumed
    /\ Write(j, jobs[j], TRUE)
    /\ Halfway(j)

FinishRepair(j) ==
    /\ ~ Idle
    /\ import.half = j
    /\ j \in import.resumed
    /\ Write(j, [jobs[j] EXCEPT !.approved_state = import.dataset[j],
                                !.benchmark_included = TRUE,
                                !.status = "approved"], TRUE)
    /\ Done(j)

SelectHand(j) ==
    /\ ~ Idle
    /\ import.half = None
    /\ j \in import.reused
    /\ Write(j, [jobs[j] EXCEPT !.benchmark_included = TRUE], image[j])
    /\ Done(j)

CompleteImport ==
    /\ ~ Idle
    /\ import.fresh \cup import.resumed \cup import.reused = {}
    /\ IF import.request = None THEN UNCHANGED journal
       ELSE EndJournal(import.request, "completed")
    /\ import' = None
    /\ UNCHANGED <<handVars, image, interruptions>>

-----------------------------------------------------------------------------
(***************************************************************************)
(* Interruptions                                                           *)
(***************************************************************************)

\* A write fails: the import ends, its receipt stays pending.
FailWrite ==
    /\ ~ Idle
    /\ interruptions < MaxInterruptions
    /\ interruptions' = interruptions + 1
    /\ import' = None
    /\ UNCHANGED <<handVars, image, journal>>

Restart ==
    /\ interruptions < MaxInterruptions
    /\ interruptions' = interruptions + 1
    /\ import' = None
    /\ Life!Restart
    /\ UNCHANGED <<image, journal>>

-----------------------------------------------------------------------------
(***************************************************************************)
(* Users beside the import                                                 *)
(***************************************************************************)

CreateJob(j) ==
    /\ Life!CreateJob(j)
    /\ image' = [image EXCEPT ![j] = TRUE]
    /\ UNCHANGED <<journal, import, interruptions>>

Approve(j) ==
    /\ ~ Locked(j)
    /\ \E state \in States : Life!Approve(j, state)
    /\ UNCHANGED <<image, journal, import, interruptions>>

\* Mutant: a pending receipt is no obstacle.
SelectForCorpusAnyTime(j, included) ==
    /\ Idle
    /\ Life!SetBenchmarkInclusion(j, included)
    /\ UNCHANGED <<image, journal, import, interruptions>>

\* The corpus lock, and no pending receipt.
CorpusReady == Idle /\ ~ HasPendingImport

SelectForCorpus(j, included) ==
    /\ CorpusReady
    /\ Life!SetBenchmarkInclusion(j, included)
    /\ included /\ ~ jobs[j].benchmark_included =>
           \A i \in Life!IncludedJobs \cup {j} : image[i]
    /\ UNCHANGED <<image, journal, import, interruptions>>

Delete(j) ==
    /\ CorpusReady
    /\ Life!Delete(j)
    /\ image' = [image EXCEPT ![j] = FALSE]
    /\ UNCHANGED <<journal, import, interruptions>>

ImportStep ==
    \/ \E j \in Jobs : \/ StartHand(j) \/ FinishHand(j)
                        \/ StartRepair(j) \/ FinishRepair(j) \/ SelectHand(j)
    \/ CompleteImport

Poll(r) == RunImport(r) \/ RejectImport(r)

Next ==
    \/ \E r \in ImportIds : Poll(r) \/ \E dataset \in Datasets : BeginImport(r, dataset)
    \/ \E dataset \in Datasets : RunDirectImport(dataset)
    \/ ImportStep
    \/ FailWrite
    \/ Restart
    \/ \E j \in Jobs : CreateJob(j) \/ Approve(j) \/ Delete(j)
    \/ \E j \in Jobs, included \in BOOLEAN : SelectForCorpus(j, included)

\* A running import goes on, and the browser polls the receipt until it is
\* terminal; interruptions end at some time.
Fairness ==
    /\ WF_vars(ImportStep)
    /\ \A r \in ImportIds : WF_vars(Poll(r))

Spec == Init /\ [][Next]_vars /\ Fairness

-----------------------------------------------------------------------------
(***************************************************************************)
(* Properties                                                              *)
(***************************************************************************)

\* Selection, journaled and direct imports together, around interruptions,
\* never push the corpus over the limit of its own export, and every corpus
\* hand is labelled.
CorpusIsExportable == Life!CorpusIsExportable

\* "rejects the archive instead of being overwritten": from the acceptance of
\* an import to its end or interruption, no hand of it changes its label or
\* loses its screenshot.
ImportNeverOverwrites ==
    [][\A j \in Jobs : Locked(j) /\ Exists(j) =>
           /\ Exists(j)'
           /\ image[j] => image'[j]
           /\ jobs[j].approved_state # None =>
                  jobs'[j].approved_state = jobs[j].approved_state]_vars

\* A receipt becomes completed only when every hand of the archive is stored,
\* labelled as the archive says, selected, and has its screenshot, whatever
\* interruptions there have been.
CompletedMeansImported ==
    [][\A r \in ImportIds :
           Pending(r) /\ journal'[r].status = "completed" =>
               \A j \in DOMAIN journal[r].dataset :
                   /\ Exists(j) /\ image[j]
                   /\ jobs[j].benchmark_included
                   /\ jobs[j].approved_state = journal[r].dataset[j]]_vars

\* "interrupted or partial imports can resume": an import that has written a
\* hand is not rejected when it is run again,
\* unless one of its hands was relabelled in between.
ResumedUnlessRelabelled ==
    [][\A r \in ImportIds :
           Pending(r) /\ journal'[r].status = "failed" =>
               LET dataset == journal[r].dataset IN
               (\E j \in Jobs : OwnedBy(j, r)) =>
                   \E j \in Existing(dataset) :
                       jobs[j].approved_state # dataset[j]]_vars

\* Every pending receipt becomes terminal, so selection, deletion, benchmark
\* runs and backups are not refused for good.
PendingImportEnds == \A r \in ImportIds : Pending(r) ~> ~ Pending(r)
=============================================================================
