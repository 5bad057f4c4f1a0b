----------------------------- MODULE JobLifecycle -----------------------------
(***************************************************************************)
(* The life of processing jobs inside one backend process: upload and      *)
(* parsing, approval, the training answer, the recommendation, its review, *)
(* benchmark selection, archival, deletion, and the death and restart of   *)
(* the process.                                                            *)
(*                                                                         *)
(* Every handler runs in its own thread.  The section between taking the   *)
(* job's lock and releasing it is one step here: it loads the record,      *)
(* decides, and publishes the new file with an atomic rename.  What is not *)
(* atomic is kept apart: the parser and the recommendation provider run    *)
(* between two such sections, with the lock released, so any other request *)
(* for the same job may come in between.  A request that is refused (404   *)
(* or 409) changes nothing and is no step.                                 *)
(***************************************************************************)
EXTENDS JobRecords, Naturals

CONSTANTS
    Jobs,            \* job identities; an upload draws a fresh one
    Solvers,         \* threads that can run a recommendation at the same time
    MaxDatasetCases  \* MAX_DATASET_CASES, the size limit of the corpus

ASSUME MaxDatasetCasesAssumption == MaxDatasetCases \in Nat

VARIABLES
    jobs,    \* job.json of every job, None while there is none
    upload,  \* progress of the upload request that creates the job
    run      \* what each solver thread computes, None while it is idle

vars == <<jobs, upload, run>>

\* "stored": the record exists and the parser has not started.
UploadStage == {"unused", "stored", "parsing", "done"}

\* The snapshot a recommendation takes before it releases the job's lock.
Attempts == [job: Jobs, state: States, id: Option(RequestIds)]

\* An idle thread has no attempt.
ASSUME NoneIsNoAttempt == None \notin Attempts

TypeOK ==
    /\ jobs \in [Jobs -> Option(JobRecord)]
    /\ upload \in [Jobs -> UploadStage]
    /\ run \in [Solvers -> Option(Attempts)]

Init ==
    /\ jobs = [j \in Jobs |-> None]
    /\ upload = [j \in Jobs |-> "unused"]
    /\ run = [s \in Solvers |-> None]

Exists(j) == jobs[j] # None

\* One locked load-change-save section of a handler that only edits the job.
Edit(j, job) ==
    /\ jobs' = [jobs EXCEPT ![j] = job]
    /\ UNCHANGED <<upload, run>>

-----------------------------------------------------------------------------
(***************************************************************************)
(* The upload request                                                      *)
(***************************************************************************)

\* store.create_job under the backup lock.
CreateJob(j) ==
    /\ upload[j] = "unused"
    /\ jobs' = [jobs EXCEPT ![j] = Uploaded]
    /\ upload' = [upload EXCEPT ![j] = "stored"]
    /\ UNCHANGED run

\* The record is read again under the job's lock before the parser starts;
\* an upload deleted by then ends the request.
StartParser(j) ==
    /\ upload[j] = "stored"
    /\ upload' = [upload EXCEPT ![j] = IF Exists(j) THEN "parsing" ELSE "done"]
    /\ UNCHANGED <<jobs, run>>

\* Mutant: the outcome is saved without asking whether the job still exists.
FinishParserAnyway(j, job) ==
    /\ upload[j] = "parsing"
    /\ jobs' = [jobs EXCEPT ![j] = IF Exists(j) THEN job ELSE Uploaded]
    /\ upload' = [upload EXCEPT ![j] = "done"]
    /\ UNCHANGED run

\* The parser has finished; its outcome is merged into the latest record.  A
\* record deleted meanwhile stays deleted.
FinishParser(j, job) ==
    /\ upload[j] = "parsing"
    /\ jobs' = IF Exists(j) THEN [jobs EXCEPT ![j] = job] ELSE jobs
    /\ upload' = [upload EXCEPT ![j] = "done"]
    /\ UNCHANGED run

ParserSucceeds(j) ==
    \E detected \in States, clean \in BOOLEAN :
        FinishParser(j, Parsed(jobs[j], detected, clean))

ParserFails(j) == FinishParser(j, ParserFailed(jobs[j]))

-----------------------------------------------------------------------------
(***************************************************************************)
(* Edits of one job                                                        *)
(***************************************************************************)

Approve(j, state) ==
    /\ Exists(j)
    /\ ~ jobs[j].recommendation_pending
    /\ Edit(j, Approved(jobs[j], state))

\* Mutants: an answer is accepted before there is an approved state, or after
\* the recommendation was revealed.
RecordDecisionUnapproved(j, line) ==
    /\ Exists(j)
    /\ jobs[j].recommendation = None
    /\ Edit(j, Decided(jobs[j], line))

RecordDecisionAfterReveal(j, line) ==
    /\ Exists(j)
    /\ jobs[j].approved_state # None
    /\ Edit(j, Decided(jobs[j], line))

\* An answer is refused once a recommendation is stored, but not while one
\* is being computed.
RecordDecision(j, line) ==
    /\ Exists(j)
    /\ jobs[j].approved_state # None
    /\ jobs[j].recommendation = None
    /\ Edit(j, Decided(jobs[j], line))

\* A review request without a body, with a note, or with an empty note.
CompleteReview(j) ==
    /\ Exists(j)
    /\ IsReviewable(jobs[j])
    /\ \E note \in {jobs[j].training_review_note, Comparison(jobs[j]), None} :
           Edit(j, Reviewed(jobs[j], note))

ReopenReview(j) ==
    /\ Exists(j)
    /\ IsReviewable(jobs[j])
    /\ Edit(j, Reopened(jobs[j]))

UpdateMetadata(j, title) ==
    /\ Exists(j)
    /\ Edit(j, Retitled(jobs[j], title))

\* The corpus lock is held around the job's lock, so the count is exact.
IncludedJobs == {j \in Jobs : Exists(j) /\ jobs[j].benchmark_included}

SetBenchmarkInclusion(j, included) ==
    /\ Exists(j)
    /\ included => jobs[j].approved_state # None
    /\ included /\ ~ jobs[j].benchmark_included =>
           Cardinality(IncludedJobs) < MaxDatasetCases
    /\ Edit(j, [jobs[j] EXCEPT !.benchmark_included = included])

\* A job can be deleted at any time, also while it is parsed or solved.
Delete(j) ==
    /\ Exists(j)
    /\ Edit(j, None)

\* All locks are held while every job of the batch is checked and saved.  A
\* death between two of the saves leaves what the archival of fewer jobs,
\* followed by Restart, leaves.
Archive(batch) ==
    /\ \A j \in batch : Exists(j) /\ IsHistoryReady(jobs[j])
    /\ jobs' = [j \in Jobs |-> IF j \in batch
                               THEN [jobs[j] EXCEPT !.archived_at = TRUE]
                               ELSE jobs[j]]
    /\ UNCHANGED <<upload, run>>

-----------------------------------------------------------------------------
(***************************************************************************)
(* Recommendations                                                         *)
(***************************************************************************)

StartRecommendation(s, j, id) ==
    /\ run[s] = None
    /\ Exists(j)
    /\ jobs[j].approved_state # None
    /\ ~ jobs[j].recommendation_pending
    /\ jobs' = [jobs EXCEPT ![j] = Requested(jobs[j], id)]
    /\ run' = [run EXCEPT ![s] =
                   [job |-> j, state |-> jobs[j].approved_state, id |-> id]]
    /\ UNCHANGED upload

HasTarget(attempt) ==
    IsCurrentTarget(jobs[attempt.job], attempt.state, attempt.id)

\* Setup, the required-fields check or the provider call has ended and the
\* thread is back under the job's lock.
FinishRecommendation(s, job) ==
    /\ run[s] # None
    /\ HasTarget(run[s])
    /\ jobs' = [jobs EXCEPT ![run[s].job] = job]
    /\ run' = [run EXCEPT ![s] = None]
    /\ UNCHANGED upload

ProviderAnswers(s) ==
    \E verdict \in Verdicts :
        FinishRecommendation(s,
            Recommended(jobs[run[s].job], run[s].state, verdict))

ProviderRejectsInput(s) ==
    FinishRecommendation(s, Uncorrected(jobs[run[s].job]))

ProviderFails(s) ==
    FinishRecommendation(s, RecommendationFailed(jobs[run[s].job]))

\* The job was deleted, or the record no longer names this attempt: the
\* request ends with a conflict and writes nothing.
AbandonRecommendation(s) ==
    /\ run[s] # None
    /\ ~ HasTarget(run[s])
    /\ run' = [run EXCEPT ![s] = None]
    /\ UNCHANGED <<jobs, upload>>

-----------------------------------------------------------------------------
(***************************************************************************)
(* Death of the process and startup                                        *)
(***************************************************************************)

\* All threads die.  Startup recovery saves job after job before the first
\* request is served; repeating it after another death changes nothing more.
Restart ==
    /\ jobs' = [j \in Jobs |-> IF Exists(j) THEN Recovered(jobs[j]) ELSE None]
    /\ upload' = [j \in Jobs |->
                      IF upload[j] = "unused" THEN "unused" ELSE "done"]
    /\ run' = [s \in Solvers |-> None]

UploadStep(j) == StartParser(j) \/ ParserSucceeds(j) \/ ParserFails(j)

UserEdit(j) ==
    \/ \E state \in States : Approve(j, state)
    \/ \E line \in Decisions : RecordDecision(j, line)
    \/ CompleteReview(j)
    \/ ReopenReview(j)
    \/ \E title \in Option(Titles) : UpdateMetadata(j, title)
    \/ \E included \in BOOLEAN : SetBenchmarkInclusion(j, included)
    \/ Delete(j)

SolverStep(s) ==
    \/ ProviderAnswers(s)
    \/ ProviderRejectsInput(s)
    \/ ProviderFails(s)
    \/ AbandonRecommendation(s)

Next ==
    \/ \E j \in Jobs : CreateJob(j) \/ UploadStep(j) \/ UserEdit(j)
    \/ \E batch \in (SUBSET Jobs) \ {{}} : Archive(batch)
    \/ \E s \in Solvers, j \in Jobs, id \in Option(RequestIds) :
           StartRecommendation(s, j, id)
    \/ \E s \in Solvers : SolverStep(s)
    \/ Restart

\* Parsers and providers are bounded by request timeouts, and a thread that
\* waits for a job's lock gets it; nothing obliges a user to act.
Fairness ==
    /\ \A j \in Jobs : WF_vars(UploadStep(j))
    /\ \A s \in Solvers : WF_vars(SolverStep(s))

Spec == Init /\ [][Next]_vars /\ Fairness

-----------------------------------------------------------------------------
(***************************************************************************)
(* Invariants                                                              *)
(***************************************************************************)

Runs(s, j) == run[s] # None /\ run[s].job = j

\* The persisted in-progress marker never outlives its attempt and no attempt
\* outlives its marker: a stored job is marked pending exactly while one
\* solver thread works on it, and that thread holds the approved state and
\* the request identity the record names.  A hand can therefore not be stuck
\* behind "Recommendation is already running" (recommend_processing_job).
PendingHasOneOwner ==
    \A j \in Jobs : Exists(j) =>
        LET owners == {s \in Solvers : Runs(s, j)} IN
        /\ jobs[j].recommendation_pending <=> owners # {}
        /\ \A s \in owners : HasTarget(run[s])
        /\ \A s, t \in owners : s = t

\* Whatever a hand shows belongs together: the locked answer and the
\* recommendation were both made for the state that is approved now, and a
\* review time or lesson note was written about exactly that pair
\* (approve_processing_job, record_processing_training_decision and the
\* completion of recommend_processing_job clear what they invalidate).
ComparisonIsCurrent ==
    \A j \in Jobs : Exists(j) => IsCurrentComparison(jobs[j])

\* The status never contradicts the rest of the record, and a hand that says
\* it is being parsed has a live upload request that will end that
\* (process_uploaded_image, recover_interrupted_jobs).
StatusMatchesRecord ==
    \A j \in Jobs : Exists(j) =>
        /\ IsFittingStatus(jobs[j])
        /\ jobs[j].status = "created" => upload[j] \in {"stored", "parsing"}

\* Every corpus label is an approved hand and the corpus keeps to the limit
\* that its own export and import enforce (set_benchmark_inclusion).
CorpusIsExportable ==
    /\ Cardinality(IncludedJobs) <= MaxDatasetCases
    /\ \A j \in IncludedJobs : jobs[j].approved_state # None

-----------------------------------------------------------------------------
(***************************************************************************)
(* What a step may never do                                                *)
(***************************************************************************)

\* A deleted upload is never recreated by a parser or a provider that was
\* still working on it (FileJobStore.save would recreate the directory).
DeletedStaysDeleted ==
    [][\A j \in Jobs :
           upload[j] # "unused" /\ ~ Exists(j) => ~ Exists(j)']_vars

\* The end of a parser or provider call, which started from an older copy of
\* the record, never loses what users did since: title, corpus label,
\* archival and locked answer stay, and so does an approved state.
CompletionsKeepUserEdits ==
    [][\A j \in Jobs :
           Exists(j) /\ Exists(j)' /\ (upload' # upload \/ run' # run) =>
               LET old == jobs[j]  new == jobs'[j] IN
               /\ new.title = old.title
               /\ new.benchmark_included = old.benchmark_included
               /\ new.archived_at = old.archived_at
               /\ new.training_decision = old.training_decision
               /\ old.approved_state # None =>
                      new.approved_state = old.approved_state]_vars

\* A late parser outcome does not change the status of an approved hand.
LateParserKeepsStatus ==
    [][\A j \in Jobs :
           /\ upload'[j] # upload[j]
           /\ run' = run
           /\ Exists(j) /\ Exists(j)'
           /\ jobs[j].approved_state # None
           => jobs'[j].status = jobs[j].status]_vars

-----------------------------------------------------------------------------
(***************************************************************************)
(* Refinement of the trainer's promise                                     *)
(***************************************************************************)

\* The hand a learner sees in the stored record.
HandOf(j) ==
    IF Exists(j)
    THEN [stage |-> "open",
          state |-> jobs[j].approved_state,
          answer |-> jobs[j].training_decision,
          guidance |-> jobs[j].recommendation,
          lesson |-> jobs[j].training_review_note]
    ELSE [stage |-> IF upload[j] = "unused" THEN "unborn" ELSE "gone",
          state |-> None, answer |-> None, guidance |-> None, lesson |-> None]

Hands == [j \in Jobs |-> HandOf(j)]

Promise == INSTANCE TrainingHand WITH hand <- Hands

\* Threads that parse and solve outside the job's lock, deletions, archivals
\* and restarts still look to a learner as if every operation on a hand were
\* one indivisible step of TrainingHand.
ImplementsTrainingHand == Promise!Spec

-----------------------------------------------------------------------------
(***************************************************************************)
(* What must happen                                                        *)
(***************************************************************************)

\* No hand stays marked as being parsed or solved: the request that set the
\* mark, or startup recovery, takes it away.
ActiveWorkEnds ==
    \A j \in Jobs :
        (Exists(j) /\ (jobs[j].status = "created" \/ jobs[j].recommendation_pending))
            ~> ~ (Exists(j) /\ (jobs[j].status = "created"
                                  \/ jobs[j].recommendation_pending))

=============================================================================
