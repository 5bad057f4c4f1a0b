------------------------- MODULE JobLifecycleProofs -------------------------
(***************************************************************************)
(* Proofs about JobLifecycle for every set of jobs, threads, states,       *)
(* decisions, verdicts, identities and titles.                             *)
(*                                                                         *)
(* The first part proves the coherence of the store: every handler writes  *)
(* a job record, and each part of the inductive invariant survives a step  *)
(* that changes at most one hand and one thread.  The second part rests on *)
(* it: what a step may never do, that the parser corpus keeps to the limit *)
(* of its own export and import, and that every step of a handler, of a    *)
(* solver thread or of startup is one step of TrainingHand, or none.       *)
(***************************************************************************)
EXTENDS JobLifecycle, TLAPS, FiniteSetTheorems

-----------------------------------------------------------------------------
(***************************************************************************)
(* Handlers write job records                                              *)
(***************************************************************************)

\* A fresh upload is a job record.
LEMMA UploadedType == Uploaded \in JobRecord
BY DEF Uploaded, JobRecord, Status, Option

\* Changing the status keeps a job record.
LEMMA StatusType ==
    ASSUME NEW job \in JobRecord, NEW status \in Status
    PROVE  [job EXCEPT !.status = status] \in JobRecord
BY DEF JobRecord

\* Both parser outcomes write job records.
LEMMA ParsedType ==
    ASSUME NEW job \in JobRecord, NEW detected \in States, NEW clean \in BOOLEAN
    PROVE  /\ Parsed(job, detected, clean) \in JobRecord
           /\ ParserFailed(job) \in JobRecord
<1> DEFINE merged == [job EXCEPT !.parser_result = detected]
<1>1. merged \in JobRecord
  BY DEF JobRecord, Option
<1>2. \A record \in JobRecord, status \in Status, state \in Option(States) :
          [record EXCEPT !.status = status, !.approved_state = state] \in JobRecord
  BY DEF JobRecord
<1>3. detected \in Option(States)
  BY DEF Option
<1>4. QED
  BY <1>1, <1>2, <1>3, StatusType DEF Parsed, ParserFailed, Status

\* Approving an offered state writes a job record.
LEMMA ApprovedType ==
    ASSUME NEW job \in JobRecord, NEW state \in States
    PROVE  Approved(job, state) \in JobRecord
BY DEF Approved, JobRecord, Status, Option

\* An answer to an approved state is well formed.
LEMMA DecidedType ==
    ASSUME NEW job \in JobRecord, NEW line \in Decisions,
           job.approved_state # None
    PROVE  Decided(job, line) \in JobRecord
BY DEF Decided, JobRecord, Status, Option, Answers

\* A reviewable hand has a well-formed comparison.
LEMMA ComparisonType ==
    ASSUME NEW job \in JobRecord, IsReviewable(job)
    PROVE  Comparison(job) \in Comparisons
BY DEF Comparison, Comparisons, IsReviewable, JobRecord, Option

\* Completing and reopening a review write job records.
LEMMA ReviewedType ==
    ASSUME NEW job \in JobRecord, IsReviewable(job),
           NEW note \in Option(Comparisons)
    PROVE  /\ Reviewed(job, note) \in JobRecord
           /\ Reopened(job) \in JobRecord
<1>1. \A time \in Option(Comparisons) :
          [job EXCEPT !.training_reviewed_at = time,
                      !.training_review_note = note] \in JobRecord
  BY DEF JobRecord
<1>2. \A time \in Option(Comparisons) :
          [job EXCEPT !.training_reviewed_at = time] \in JobRecord
  BY DEF JobRecord
<1>3. job.training_reviewed_at \in Option(Comparisons)
  BY DEF JobRecord
<1>4. Comparison(job) \in Option(Comparisons) /\ None \in Option(Comparisons)
  BY ComparisonType DEF Option
<1>5. QED
  BY <1>1, <1>2, <1>3, <1>4 DEF Reviewed, Reopened

\* Starting and answering a recommendation write job records.
LEMMA SolverTypes ==
    ASSUME NEW job \in JobRecord, NEW id \in Option(RequestIds),
           NEW state \in States, NEW verdict \in Verdicts
    PROVE  /\ Requested(job, id) \in JobRecord
           /\ Recommended(job, state, verdict) \in JobRecord
<1>1. \A pending \in BOOLEAN :
          [job EXCEPT !.recommendation_pending = pending,
                      !.recommendation_request_id = id] \in JobRecord
  BY DEF JobRecord
<1>2. \A pending \in BOOLEAN, guidance \in Option(Guidance),
         none \in Option(Comparisons), status \in Status :
          [job EXCEPT !.recommendation = guidance,
                      !.recommendation_pending = pending,
                      !.training_reviewed_at = none,
                      !.training_review_note = none,
                      !.status = status] \in JobRecord
  BY DEF JobRecord
<1>3. [verdict |-> verdict, state |-> state] \in Option(Guidance)
  BY DEF Option, Guidance
<1>4. None \in Option(Comparisons)
  BY DEF Option
<1>5. QED
  BY <1>1, <1>2, <1>3, <1>4 DEF Requested, Recommended, Status

\* So do its other ends and startup recovery.
LEMMA EndTypes ==
    ASSUME NEW job \in JobRecord
    PROVE  /\ Uncorrected(job) \in JobRecord
           /\ RecommendationFailed(job) \in JobRecord
           /\ Recovered(job) \in JobRecord
<1>1. \A pending \in BOOLEAN, status \in Status :
          [job EXCEPT !.recommendation_pending = pending, !.status = status]
              \in JobRecord
  BY DEF JobRecord
<1>2. QED
  BY <1>1 DEF Uncorrected, RecommendationFailed, Recovered, Status

\* So do metadata, corpus selection and archival.
LEMMA FlagTypes ==
    ASSUME NEW job \in JobRecord, NEW title \in Option(Titles),
           NEW included \in BOOLEAN
    PROVE  /\ Retitled(job, title) \in JobRecord
           /\ [job EXCEPT !.benchmark_included = included] \in JobRecord
           /\ [job EXCEPT !.archived_at = TRUE] \in JobRecord
<1>1. \A flag \in BOOLEAN :
          /\ [job EXCEPT !.benchmark_included = flag] \in JobRecord
          /\ [job EXCEPT !.archived_at = flag] \in JobRecord
  BY DEF JobRecord
<1>2. Retitled(job, title) \in JobRecord
  BY DEF Retitled, JobRecord
<1>3. QED
  BY <1>1, <1>2

-----------------------------------------------------------------------------
(***************************************************************************)
(* Handlers keep a record coherent                                         *)
(***************************************************************************)

\* What every handler preserves of a stored record.
RecordOK(job) ==
    /\ job \in JobRecord
    /\ IsCurrentComparison(job)
    /\ IsFittingStatus(job)

\* A fresh upload is coherent.
LEMMA UploadedOK == RecordOK(Uploaded)
BY UploadedType
   DEF RecordOK, Uploaded, IsCurrentComparison, IsFittingStatus, Comparison

\* A fitting status keeps a record coherent.
LEMMA StatusOK ==
    ASSUME NEW job, RecordOK(job), NEW status \in Status
    PROVE  LET new == [job EXCEPT !.status = status] IN
           IsFittingStatus(new) => RecordOK(new)
BY StatusType DEF RecordOK, IsCurrentComparison, Comparison, JobRecord

\* approve_processing_job clears all that the new state invalidates.
LEMMA ApprovedOK ==
    ASSUME NEW job, RecordOK(job), NEW state \in States
    PROVE  RecordOK(Approved(job, state))
BY ApprovedType, NoneIsNoValue, ZenonT(60)
   DEF RecordOK, Approved, IsCurrentComparison, IsFittingStatus, Comparison, JobRecord

\* An answer locked before the reveal clears the old review.
LEMMA DecidedOK ==
    ASSUME NEW job, RecordOK(job), NEW line \in Decisions,
           job.approved_state # None, job.recommendation = None
    PROVE  RecordOK(Decided(job, line))
BY DecidedType, NoneIsNoValue, ZenonT(60)
   DEF RecordOK, Decided, IsCurrentComparison, IsFittingStatus, Comparison, JobRecord

\* A hand nobody approved may be parsed or failed.
LEMMA UnapprovedStatusOK ==
    ASSUME NEW job, RecordOK(job), job.approved_state = None
    PROVE  /\ RecordOK([job EXCEPT !.status = "parsed"])
           /\ RecordOK([job EXCEPT !.status = "error"])
<1>1. /\ IsFittingStatus([job EXCEPT !.status = "parsed"])
      /\ IsFittingStatus([job EXCEPT !.status = "error"])
  BY DEF RecordOK, IsFittingStatus, JobRecord
<1>2. "parsed" \in Status /\ "error" \in Status
  BY DEF Status
<1>3. RecordOK([job EXCEPT !.status = "parsed"])
  BY <1>1, <1>2, StatusOK
<1>4. RecordOK([job EXCEPT !.status = "error"])
  BY <1>1, <1>2, StatusOK
<1>5. QED
  BY <1>3, <1>4

\* A parser failure, however late, keeps a record coherent.
LEMMA ParserFailedOK ==
    ASSUME NEW job, RecordOK(job)
    PROVE  RecordOK(ParserFailed(job))
<1>1. CASE job.approved_state = None
  <2>1. RecordOK([job EXCEPT !.status = "error"])
    BY UnapprovedStatusOK, <1>1
  <2>2. QED
    BY <1>1, <2>1 DEF ParserFailed
<1>2. CASE job.approved_state # None
  BY <1>2 DEF ParserFailed
<1>3. QED
  BY <1>1, <1>2

\* A parser outcome, however late, keeps a record coherent.
LEMMA ParsedOK ==
    ASSUME NEW job, RecordOK(job),
           NEW detected \in States, NEW clean \in BOOLEAN
    PROVE  /\ RecordOK(Parsed(job, detected, clean))
           /\ RecordOK(ParserFailed(job))
<1> DEFINE merged == [job EXCEPT !.parser_result = detected]
<1>1. merged \in JobRecord
  BY DEF RecordOK, JobRecord, Option
<1>2. RecordOK(merged)
  BY <1>1 DEF RecordOK, IsCurrentComparison, IsFittingStatus, Comparison, JobRecord
<1>3. /\ merged.approved_state = job.approved_state
      /\ merged.recommendation = job.recommendation
      /\ merged.training_decision = job.training_decision
      /\ merged.archived_at = job.archived_at
  BY DEF RecordOK, JobRecord
<1> HIDE DEF merged
<1>5. ASSUME job.approved_state = None
      PROVE  RecordOK([merged EXCEPT !.status = "approved",
                                     !.approved_state = detected])
  <2> DEFINE new == [merged EXCEPT !.status = "approved",
                                   !.approved_state = detected]
  <2>1. new \in JobRecord
    <3>1. \A state \in Option(States), status \in Status :
              [merged EXCEPT !.status = status, !.approved_state = state]
                  \in JobRecord
      BY <1>1 DEF JobRecord
    <3>2. QED
      BY <3>1 DEF Status, Option
  <2>2. job.training_decision = None /\ job.recommendation = None
    BY <1>5, NoneIsNoValue DEF RecordOK, IsCurrentComparison, JobRecord, Option, Answers, Guidance
  <2>3. IsCurrentComparison(new)
    BY <1>2, <1>3, <2>2 DEF RecordOK, IsCurrentComparison, Comparison, JobRecord
  <2>4. IsFittingStatus(new)
    BY <1>2, NoneIsNoValue DEF RecordOK, IsFittingStatus, JobRecord
  <2>5. QED
    BY <2>1, <2>3, <2>4 DEF RecordOK
<1>6. RecordOK(ParserFailed(job))
  BY ParserFailedOK
<1>7. RecordOK(Parsed(job, detected, clean))
  <2>1. Parsed(job, detected, clean) =
            IF job.approved_state # None THEN merged
            ELSE IF AutoApprove /\ clean
            THEN [merged EXCEPT !.status = "approved",
                                !.approved_state = detected]
            ELSE [merged EXCEPT !.status = "parsed"]
    BY <1>3 DEF Parsed, merged
  <2>2. CASE job.approved_state # None
    BY <2>1, <2>2, <1>2
  <2>3. CASE job.approved_state = None
    <3>1. RecordOK([merged EXCEPT !.status = "parsed"])
      BY <1>2, <1>3, UnapprovedStatusOK, <2>3
    <3>2. QED
      BY <2>1, <2>3, <3>1, <1>5
  <2>4. QED
    BY <2>2, <2>3
<1>8. QED
  BY <1>6, <1>7

\* Review time and note are about the comparison on screen.
LEMMA ReviewedOK ==
    ASSUME NEW job, RecordOK(job), IsReviewable(job),
           NEW note \in {job.training_review_note, Comparison(job), None}
    PROVE  /\ RecordOK(Reviewed(job, note))
           /\ RecordOK(Reopened(job))
<1>1. note \in Option(Comparisons)
  BY ComparisonType DEF RecordOK, JobRecord, Option
<1>2. Reviewed(job, note) \in JobRecord /\ Reopened(job) \in JobRecord
  BY <1>1, ReviewedType DEF RecordOK
<1>3. \A time, kept \in {None, Comparison(job)} :
          LET new == [job EXCEPT !.training_reviewed_at = time,
                                 !.training_review_note = kept] IN
          IsCurrentComparison(new) /\ IsFittingStatus(new)
  BY DEF RecordOK, IsCurrentComparison, IsFittingStatus, Comparison, JobRecord
<1>4. \A time \in {None, Comparison(job)} :
          LET new == [job EXCEPT !.training_reviewed_at = time] IN
          IsCurrentComparison(new) /\ IsFittingStatus(new)
  BY DEF RecordOK, IsCurrentComparison, IsFittingStatus, Comparison, JobRecord
<1>5. /\ job.training_reviewed_at \in {None, Comparison(job)}
      /\ note \in {None, Comparison(job)}
  BY DEF RecordOK, IsCurrentComparison
<1>6. QED
  BY <1>2, <1>3, <1>4, <1>5 DEF RecordOK, Reviewed, Reopened

\* Metadata and corpus selection disturb nothing.
LEMMA FlagsOK ==
    ASSUME NEW job, RecordOK(job), NEW title \in Option(Titles),
           NEW included \in BOOLEAN
    PROVE  /\ RecordOK(Retitled(job, title))
           /\ RecordOK([job EXCEPT !.benchmark_included = included])
<1>1. /\ Retitled(job, title) \in JobRecord
      /\ [job EXCEPT !.benchmark_included = included] \in JobRecord
  BY FlagTypes DEF RecordOK
<1>2. RecordOK(Retitled(job, title))
  BY <1>1 DEF RecordOK, Retitled, IsCurrentComparison, IsFittingStatus, Comparison, JobRecord
<1>3. RecordOK([job EXCEPT !.benchmark_included = included])
  BY <1>1 DEF RecordOK, IsCurrentComparison, IsFittingStatus, Comparison, JobRecord
<1>4. QED
  BY <1>2, <1>3

\* What is_history_ready lets through has an approved state.
LEMMA ArchivedOK ==
    ASSUME NEW job, RecordOK(job), IsHistoryReady(job)
    PROVE  RecordOK([job EXCEPT !.archived_at = TRUE])
<1>1. job.approved_state # None
  BY NoneIsNoValue
     DEF RecordOK, IsHistoryReady, IsFittingStatus, IsCurrentComparison,
         JobRecord, Option, Guidance
<1>2. [job EXCEPT !.archived_at = TRUE] \in JobRecord
  BY FlagTypes DEF RecordOK, Option
<1>3. QED
  BY <1>1, <1>2
     DEF RecordOK, IsCurrentComparison, IsFittingStatus, Comparison, JobRecord

\* The in-progress marker disturbs nothing.
LEMMA RequestedOK ==
    ASSUME NEW job, RecordOK(job), NEW id \in Option(RequestIds)
    PROVE  RecordOK(Requested(job, id))
<1>1. Requested(job, id) \in JobRecord
  <2>1. \A pending \in BOOLEAN :
            [job EXCEPT !.recommendation_pending = pending,
                        !.recommendation_request_id = id] \in JobRecord
    BY DEF RecordOK, JobRecord
  <2>2. QED
    BY <2>1 DEF Requested
<1>2. QED
  BY <1>1 DEF RecordOK, Requested, IsCurrentComparison, IsFittingStatus, Comparison, JobRecord

\* A recommendation for the approved state clears the old review.
LEMMA RecommendedOK ==
    ASSUME NEW job, RecordOK(job), job.approved_state # None,
           NEW verdict \in Verdicts
    PROVE  RecordOK(Recommended(job, job.approved_state, verdict))
<1>1. job.approved_state \in States
  BY DEF RecordOK, JobRecord, Option
<1>2. Recommended(job, job.approved_state, verdict) \in JobRecord
  BY <1>1, SolverTypes DEF RecordOK, Option
<1> DEFINE guidance == [verdict |-> verdict, state |-> job.approved_state]
           new == Recommended(job, job.approved_state, verdict)
<1>3. guidance.state = job.approved_state /\ guidance # None
  BY <1>1, NoneIsNoValue DEF Guidance
<1>4. /\ new.approved_state = job.approved_state
      /\ new.training_decision = job.training_decision
      /\ new.recommendation = guidance
      /\ new.training_reviewed_at = None
      /\ new.training_review_note = None
      /\ new.status = "recommended"
      /\ new.archived_at = job.archived_at
  BY DEF RecordOK, JobRecord, Recommended
<1> HIDE DEF guidance, new
<1>5. IsCurrentComparison(new) /\ IsFittingStatus(new)
  BY <1>3, <1>4 DEF RecordOK, IsCurrentComparison, IsFittingStatus, Comparison
<1>6. QED
  BY <1>2, <1>5 DEF RecordOK, new

\* Every other end of an attempt keeps a record coherent.
LEMMA EndsOK ==
    ASSUME NEW job, RecordOK(job)
    PROVE  /\ RecordOK(RecommendationFailed(job))
           /\ RecordOK(Recovered(job))
           /\ job.approved_state # None => RecordOK(Uncorrected(job))
<1>1. /\ RecommendationFailed(job) \in JobRecord
      /\ Recovered(job) \in JobRecord
      /\ Uncorrected(job) \in JobRecord
  BY EndTypes DEF RecordOK
<1>2. RecordOK(RecommendationFailed(job))
  BY <1>1 DEF RecordOK, RecommendationFailed, IsCurrentComparison, IsFittingStatus, Comparison, JobRecord
<1>3. RecordOK(Recovered(job))
  BY <1>2 DEF Recovered, RecommendationFailed
<1>4. ASSUME job.approved_state # None
      PROVE  RecordOK(Uncorrected(job))
  BY <1>1, <1>4 DEF RecordOK, Uncorrected, IsCurrentComparison, IsFittingStatus, Comparison, JobRecord
<1>5. QED
  BY <1>2, <1>3, <1>4

-----------------------------------------------------------------------------
(***************************************************************************)
(* Stored records                                                          *)
(***************************************************************************)

RecordsOK == \A j \in Jobs : Exists(j) => RecordOK(jobs[j])

\* An upload that has not happened has no record and no solver; a record that
\* is still to be parsed has its upload request.
UploadsOK ==
    /\ \A j \in Jobs : Exists(j) =>
           /\ upload[j] # "unused"
           /\ jobs[j].status = "created" => upload[j] \in {"stored", "parsing"}
    /\ \A s \in Solvers : run[s] # None => upload[run[s].job] # "unused"

Coherent == TypeOK /\ RecordsOK /\ UploadsOK

\* A record that is saved is no missing record.
LEMMA RecordIsNotNone == \A job : RecordOK(job) => job # None /\ job \in JobRecord
BY NoneIsNoValue DEF RecordOK

\* Saving a coherent record for an existing job keeps the store coherent,
\* unless the record would turn back to "created".
LEMMA SaveCoherent ==
    ASSUME Coherent, NEW j \in Jobs, Exists(j), NEW job, RecordOK(job),
           job.status = "created" => jobs[j].status = "created",
           jobs' = [jobs EXCEPT ![j] = job],
           upload' = upload,
           run' \in [Solvers -> Option(Attempts)],
           \A s \in Solvers :
               run'[s] # None => run'[s] = run[s] \/ run'[s].job = j
    PROVE  Coherent'
<1>1. TypeOK'
  BY RecordIsNotNone DEF Coherent, TypeOK, Option
<1>2. \A k \in Jobs : jobs'[k] = IF k = j THEN job ELSE jobs[k]
  BY DEF Coherent, TypeOK
<1>3. RecordsOK'
  BY <1>2 DEF Coherent, RecordsOK, Exists
<1>4. UploadsOK'
  BY <1>2 DEF Coherent, UploadsOK, Exists
<1>5. QED
  BY <1>1, <1>3, <1>4 DEF Coherent

\* Init establishes the coherence of the store.
LEMMA InitCoherent == Init => Coherent
BY DEF Init, Coherent, TypeOK, RecordsOK, UploadsOK, Exists, Option, UploadStage

\* What a user's edit of one job preserves.
LEMMA UserEditCoherent ==
    ASSUME Coherent, NEW j \in Jobs, UserEdit(j)
    PROVE  Coherent'
<1> DEFINE job == jobs[j]
<1>1. Exists(j)
  BY DEF UserEdit, Approve, RecordDecision, CompleteReview, ReopenReview,
         UpdateMetadata, SetBenchmarkInclusion, Delete
<1>2. RecordOK(job)
  BY <1>1 DEF Coherent, RecordsOK
<1>3. ASSUME NEW new, Edit(j, new), RecordOK(new),
             new.status = "created" => job.status = "created"
      PROVE  Coherent'
  <2>1. run' \in [Solvers -> Option(Attempts)] /\ run' = run /\ upload' = upload
    BY <1>3 DEF Edit, Coherent, TypeOK
  <2>2. QED
    BY <1>1, <1>3, <2>1, SaveCoherent DEF Edit
<1>4. ASSUME NEW state \in States, Approve(j, state)
      PROVE  Coherent'
  <2>1. Approved(job, state).status # "created"
    BY <1>2 DEF Approved, RecordOK, JobRecord
  <2>2. QED
    BY <1>2, <1>3, <1>4, <2>1, ApprovedOK DEF Approve
<1>5. ASSUME NEW line \in Decisions, RecordDecision(j, line)
      PROVE  Coherent'
  <2>1. Decided(job, line).status # "created"
    BY <1>2 DEF Decided, RecordOK, JobRecord
  <2>2. QED
    BY <1>2, <1>3, <1>5, <2>1, DecidedOK DEF RecordDecision
<1>6. CASE CompleteReview(j)
  <2>1. PICK note \in {job.training_review_note, Comparison(job), None} :
            Edit(j, Reviewed(job, note))
    BY <1>6 DEF CompleteReview
  <2>2. Reviewed(job, note).status = job.status
    BY <1>2 DEF Reviewed, RecordOK, JobRecord
  <2>3. RecordOK(Reviewed(job, note))
    BY <1>2, <1>6, ReviewedOK DEF CompleteReview
  <2>4. QED
    BY <1>3, <2>1, <2>2, <2>3
<1>7. CASE ReopenReview(j)
  <2>1. Reopened(job).status = job.status
    BY <1>2 DEF Reopened, RecordOK, JobRecord
  <2>2. RecordOK(Reopened(job))
    BY <1>2, <1>7, ReviewedOK DEF ReopenReview
  <2>3. QED
    BY <1>3, <1>7, <2>1, <2>2 DEF ReopenReview
<1>8. ASSUME NEW title \in Option(Titles), UpdateMetadata(j, title)
      PROVE  Coherent'
  <2>1. Retitled(job, title).status = job.status
    BY <1>2 DEF Retitled, RecordOK, JobRecord
  <2>2. RecordOK(Retitled(job, title))
    BY <1>2, FlagsOK
  <2>3. QED
    BY <1>3, <1>8, <2>1, <2>2 DEF UpdateMetadata
<1>9. ASSUME NEW included \in BOOLEAN, SetBenchmarkInclusion(j, included)
      PROVE  Coherent'
  <2>1. [job EXCEPT !.benchmark_included = included].status = job.status
    BY <1>2 DEF RecordOK, JobRecord
  <2>2. None \in Option(Titles)
    BY DEF Option
  <2>3. RecordOK([job EXCEPT !.benchmark_included = included])
    BY <1>2, <2>2, FlagsOK
  <2>4. QED
    BY <1>3, <1>9, <2>1, <2>3 DEF SetBenchmarkInclusion
<1>10. CASE Delete(j)
  BY <1>10 DEF Delete, Edit, Coherent, TypeOK, RecordsOK, UploadsOK, Exists, Option
<1>11. QED
  BY <1>4, <1>5, <1>6, <1>7, <1>8, <1>9, <1>10 DEF UserEdit

\* The upload request keeps the store coherent.
LEMMA UploadCoherent ==
    ASSUME Coherent, NEW j \in Jobs, CreateJob(j) \/ UploadStep(j)
    PROVE  Coherent'
<1>1. CASE CreateJob(j)
  <2>1. RecordOK(Uploaded) /\ Uploaded # None
    BY UploadedOK, RecordIsNotNone
  <2>2. QED
    BY <1>1, <2>1 DEF CreateJob, Coherent, TypeOK, RecordsOK, UploadsOK,
                      Exists, Option, UploadStage, RecordOK
<1>2. CASE StartParser(j)
  BY <1>2 DEF StartParser, Coherent, TypeOK, RecordsOK, UploadsOK, Exists, UploadStage
<1>3. ASSUME NEW job, FinishParser(j, job),
             Exists(j) => RecordOK(job) /\ job.status # "created"
      PROVE  Coherent'
  BY <1>3, RecordIsNotNone
     DEF FinishParser, Coherent, TypeOK, RecordsOK, UploadsOK, Exists, Option, UploadStage
<1>4. ASSUME NEW detected \in States, NEW clean \in BOOLEAN,
             FinishParser(j, Parsed(jobs[j], detected, clean))
      PROVE  Coherent'
  <2>1. ASSUME Exists(j)
        PROVE  /\ RecordOK(Parsed(jobs[j], detected, clean))
               /\ Parsed(jobs[j], detected, clean).status # "created"
    <3>1. RecordOK(jobs[j])
      BY <2>1 DEF Coherent, RecordsOK
    <3>2. Parsed(jobs[j], detected, clean).status # "created"
      BY <3>1 DEF Parsed, RecordOK, JobRecord, IsFittingStatus
    <3>3. QED
      BY <3>1, <3>2, ParsedOK
  <2>2. QED
    BY <1>3, <1>4, <2>1
<1>5. CASE ParserFails(j)
  <2>1. ASSUME Exists(j)
        PROVE  /\ RecordOK(ParserFailed(jobs[j]))
               /\ ParserFailed(jobs[j]).status # "created"
    <3>1. RecordOK(jobs[j])
      BY <2>1 DEF Coherent, RecordsOK
    <3>2. ParserFailed(jobs[j]).status # "created"
      BY <3>1 DEF ParserFailed, RecordOK, JobRecord, IsFittingStatus
    <3>3. RecordOK(ParserFailed(jobs[j]))
      <4>1. CASE jobs[j].approved_state = None
        BY <3>1, <4>1, UnapprovedStatusOK DEF ParserFailed
      <4>2. CASE jobs[j].approved_state # None
        BY <3>1, <4>2 DEF ParserFailed
      <4>3. QED
        BY <4>1, <4>2
    <3>4. QED
      BY <3>2, <3>3
  <2>2. QED
    BY <1>3, <1>5, <2>1 DEF ParserFails
<1>6. QED
  BY <1>1, <1>2, <1>4, <1>5 DEF UploadStep, ParserSucceeds

\* Starting, finishing and abandoning a recommendation keep it coherent.
LEMMA SolverCoherent ==
    ASSUME Coherent, NEW s \in Solvers,
           \/ \E j \in Jobs, id \in Option(RequestIds) :
                  StartRecommendation(s, j, id)
           \/ SolverStep(s)
    PROVE  Coherent'
<1>1. ASSUME NEW j \in Jobs, NEW id \in Option(RequestIds),
             StartRecommendation(s, j, id)
      PROVE  Coherent'
  <2>1. RecordOK(jobs[j])
    BY <1>1 DEF StartRecommendation, Coherent, RecordsOK
  <2>2. RecordOK(Requested(jobs[j], id))
    BY <2>1, RequestedOK
  <2>3. Requested(jobs[j], id).status = jobs[j].status
    BY <2>1 DEF Requested, RecordOK, JobRecord
  <2>4. [job |-> j, state |-> jobs[j].approved_state, id |-> id] \in Attempts
    BY <1>1, <2>1 DEF StartRecommendation, RecordOK, JobRecord, Option, Attempts
  <2>5. /\ run' \in [Solvers -> Option(Attempts)]
        /\ \A t \in Solvers :
               run'[t] # None => run'[t] = run[t] \/ run'[t].job = j
    BY <1>1, <2>4 DEF StartRecommendation, Coherent, TypeOK, Option
  <2>6. QED
    BY <1>1, <2>2, <2>3, <2>5, SaveCoherent DEF StartRecommendation
<1>2. ASSUME NEW job, FinishRecommendation(s, job),
             Exists(run[s].job) /\ jobs[run[s].job].approved_state # None =>
                 RecordOK(job) /\ job.status # "created"
      PROVE  Coherent'
  <2> DEFINE j == run[s].job
  <2>1. run[s] \in Attempts
    BY <1>2 DEF FinishRecommendation, Coherent, TypeOK, Option
  <2>2. j \in Jobs /\ run[s].state \in States
    BY <2>1 DEF Attempts
  <2>3. Exists(j) /\ jobs[j].approved_state # None
    BY <1>2, <2>2, NoneIsNoValue
       DEF FinishRecommendation, HasTarget, IsCurrentTarget, Exists
  <2>4. /\ run' \in [Solvers -> Option(Attempts)]
        /\ \A t \in Solvers : run'[t] # None => run'[t] = run[t]
    BY <1>2 DEF FinishRecommendation, Coherent, TypeOK, Option
  <2>5. /\ jobs' = [jobs EXCEPT ![j] = job]
        /\ upload' = upload
    BY <1>2 DEF FinishRecommendation
  <2>6. RecordOK(job) /\ job.status # "created"
    BY <1>2, <2>3
  <2> HIDE DEF j
  <2>7. QED
    BY <2>2, <2>3, <2>4, <2>5, <2>6, SaveCoherent
<1> DEFINE old == jobs[run[s].job]
<1>3. ASSUME run[s] # None, HasTarget(run[s])
      PROVE  /\ RecordOK(old)
             /\ old.approved_state # None
             /\ old.approved_state = run[s].state
  <2>1. run[s].job \in Jobs /\ run[s].state \in States
    BY <1>3 DEF Coherent, TypeOK, Option, Attempts
  <2>2. Exists(run[s].job) /\ old.approved_state = run[s].state
    BY <1>3 DEF HasTarget, IsCurrentTarget, Exists
  <2>3. QED
    BY <2>1, <2>2, NoneIsNoValue DEF Coherent, RecordsOK
<1>4. ASSUME NEW verdict \in Verdicts,
             FinishRecommendation(s, Recommended(old, run[s].state, verdict))
      PROVE  Coherent'
  <2>1. RecordOK(old) /\ old.approved_state # None /\ run[s].state = old.approved_state
    BY <1>3, <1>4 DEF FinishRecommendation
  <2>2. RecordOK(Recommended(old, run[s].state, verdict))
    BY <2>1, RecommendedOK
  <2>3. Recommended(old, run[s].state, verdict).status # "created"
    BY <2>1 DEF Recommended, RecordOK, JobRecord
  <2>4. QED
    BY <1>2, <1>4, <2>2, <2>3
<1>5. CASE ProviderRejectsInput(s)
  <2>1. RecordOK(old) /\ old.approved_state # None
    BY <1>3, <1>5 DEF ProviderRejectsInput, FinishRecommendation
  <2>2. RecordOK(Uncorrected(old))
    BY <2>1, EndsOK
  <2>3. Uncorrected(old).status # "created"
    BY <2>1 DEF Uncorrected, RecordOK, JobRecord
  <2>4. QED
    BY <1>2, <1>5, <2>2, <2>3 DEF ProviderRejectsInput
<1>6. CASE ProviderFails(s)
  <2>1. RecordOK(old)
    BY <1>3, <1>6 DEF ProviderFails, FinishRecommendation
  <2>2. RecordOK(RecommendationFailed(old))
    BY <2>1, EndsOK
  <2>3. RecommendationFailed(old).status # "created"
    BY <2>1 DEF RecommendationFailed, RecordOK, JobRecord
  <2>4. QED
    BY <1>2, <1>6, <2>2, <2>3 DEF ProviderFails
<1>7. CASE AbandonRecommendation(s)
  BY <1>7 DEF AbandonRecommendation, Coherent, TypeOK, RecordsOK, UploadsOK, Exists, Option
<1>8. QED
  BY <1>1, <1>4, <1>5, <1>6, <1>7 DEF SolverStep, ProviderAnswers

\* Archiving a batch keeps the store coherent.
LEMMA ArchiveCoherent ==
    ASSUME Coherent, NEW batch \in SUBSET Jobs, Archive(batch)
    PROVE  Coherent'
<1>1. \A j \in batch :
          LET new == [jobs[j] EXCEPT !.archived_at = TRUE] IN
          /\ RecordOK(new)
          /\ new.status = jobs[j].status
  <2> SUFFICES ASSUME NEW j \in batch
               PROVE  LET new == [jobs[j] EXCEPT !.archived_at = TRUE] IN
                      RecordOK(new) /\ new.status = jobs[j].status
    OBVIOUS
  <2>1. RecordOK(jobs[j]) /\ IsHistoryReady(jobs[j])
    BY DEF Archive, Coherent, RecordsOK
  <2>2. [jobs[j] EXCEPT !.archived_at = TRUE].status = jobs[j].status
    BY <2>1 DEF RecordOK, JobRecord
  <2>3. QED
    BY <2>1, <2>2, ArchivedOK
<1>2. \A j \in Jobs :
          /\ jobs'[j] # None <=> Exists(j)
          /\ Exists(j) => RecordOK(jobs'[j]) /\ jobs'[j].status = jobs[j].status
  BY <1>1, RecordIsNotNone DEF Archive, Coherent, RecordsOK, Exists
<1>3. jobs' \in [Jobs -> Option(JobRecord)]
  <2>1. \A j \in Jobs : jobs'[j] \in Option(JobRecord)
    BY <1>2, RecordIsNotNone DEF Option
  <2>2. QED
    BY <2>1 DEF Archive
<1>4. QED
  BY <1>2, <1>3 DEF Archive, Coherent, TypeOK, RecordsOK, UploadsOK, Exists

\* So do the death of the process and its startup.
LEMMA RestartCoherent ==
    ASSUME Coherent, Restart
    PROVE  Coherent'
<1>1. \A j \in Jobs : Exists(j) =>
          RecordOK(Recovered(jobs[j])) /\ Recovered(jobs[j]).status # "created"
  <2> SUFFICES ASSUME NEW j \in Jobs, Exists(j)
               PROVE  /\ RecordOK(Recovered(jobs[j]))
                      /\ Recovered(jobs[j]).status # "created"
    OBVIOUS
  <2>1. RecordOK(jobs[j])
    BY DEF Coherent, RecordsOK
  <2>2. Recovered(jobs[j]).status # "created"
    BY <2>1 DEF Recovered, RecordOK, JobRecord
  <2>3. QED
    BY <2>1, <2>2, EndsOK
<1>2. \A j \in Jobs :
          /\ jobs'[j] # None <=> Exists(j)
          /\ Exists(j) => RecordOK(jobs'[j]) /\ jobs'[j].status # "created"
  BY <1>1, RecordIsNotNone DEF Restart, Exists
<1>3. jobs' \in [Jobs -> Option(JobRecord)]
  <2>1. \A j \in Jobs : jobs'[j] \in Option(JobRecord)
    BY <1>2, RecordIsNotNone DEF Option
  <2>2. QED
    BY <2>1 DEF Restart
<1>4. QED
  BY <1>2, <1>3 DEF Restart, Coherent, TypeOK, RecordsOK, UploadsOK, Exists,
                    Option, UploadStage

\* Every step keeps the store coherent.
LEMMA NextCoherent == Coherent /\ [Next]_vars => Coherent'
<1> SUFFICES ASSUME Coherent, [Next]_vars
             PROVE  Coherent'
  OBVIOUS
<1>1. CASE UNCHANGED vars
  BY <1>1 DEF vars, Coherent, TypeOK, RecordsOK, UploadsOK, Exists
<1>2. CASE Next
  BY <1>2, UploadCoherent, UserEditCoherent, ArchiveCoherent, SolverCoherent,
     RestartCoherent DEF Next
<1>3. QED
  BY <1>1, <1>2

\* In every reachable state the store is coherent.
THEOREM CoherentAlways == Spec => []Coherent
BY InitCoherent, NextCoherent, PTL DEF Spec

\* Every reachable state has the declared shape.
THEOREM TypeCorrect == Spec => []TypeOK
<1>1. Coherent => TypeOK
  BY DEF Coherent
<1>2. QED
  BY <1>1, CoherentAlways, PTL

\* Answer, recommendation, review and note always belong to the approved
\* state and to each other, whatever threads, users and restarts do.
THEOREM ComparisonsAreCurrent == Spec => []ComparisonIsCurrent
<1>1. Coherent => ComparisonIsCurrent
  BY DEF Coherent, RecordsOK, RecordOK, ComparisonIsCurrent
<1>2. QED
  BY <1>1, CoherentAlways, PTL

\* The status always agrees with the record, and an upload shown as being
\* parsed has a live upload request.
THEOREM StatusesFit == Spec => []StatusMatchesRecord
<1>1. Coherent => StatusMatchesRecord
  BY DEF Coherent, RecordsOK, RecordOK, UploadsOK, StatusMatchesRecord
<1>2. QED
  BY <1>1, CoherentAlways, PTL

-----------------------------------------------------------------------------
(***************************************************************************)
(* Owners of the in-progress marker                                        *)
(***************************************************************************)

\* PendingHasOneOwner, thread by thread.
Owned(j) ==
    /\ jobs[j].recommendation_pending => \E s \in Solvers : Runs(s, j)
    /\ \A s \in Solvers :
           Runs(s, j) => jobs[j].recommendation_pending /\ HasTarget(run[s])
    /\ \A s, t \in Solvers : Runs(s, j) /\ Runs(t, j) => s = t

OwnersOK == \A j \in Jobs : Exists(j) => Owned(j)

\* The two forms say the same.
LEMMA OwnersOKMeaning == OwnersOK <=> PendingHasOneOwner
BY DEF OwnersOK, Owned, PendingHasOneOwner

\* Init has no owners.
LEMMA InitOwners == Init => OwnersOK
BY DEF Init, OwnersOK, Exists

\* A change of one record that neither touches the marker nor, under the
\* marker, the approved state and the request identity, keeps the owners.
LEMMA KeptOwners ==
    ASSUME Coherent, OwnersOK, NEW j \in Jobs, Exists(j), NEW job,
           jobs' = [jobs EXCEPT ![j] = job], run' = run,
           job # None => job.recommendation_pending = jobs[j].recommendation_pending,
           job # None /\ jobs[j].recommendation_pending =>
               /\ job.approved_state = jobs[j].approved_state
               /\ job.recommendation_request_id = jobs[j].recommendation_request_id
    PROVE  OwnersOK'
<1>1. \A k \in Jobs : jobs'[k] = IF k = j THEN job ELSE jobs[k]
  BY DEF Coherent, TypeOK
<1>2. \A k \in Jobs : k # j => (Exists(k)' <=> Exists(k)) /\ (Exists(k) => Owned(k)')
  BY <1>1 DEF OwnersOK, Owned, Exists, Runs, HasTarget
<1>3. ASSUME job # None
      PROVE  Owned(j)'
  <2>1. Owned(j)
    BY DEF OwnersOK
  <2>2. \A s \in Solvers : Runs(s, j)' <=> Runs(s, j)
    BY DEF Runs
  <2>3. \A s \in Solvers : Runs(s, j) => HasTarget(run[s])'
    BY <1>1, <1>3, <2>1 DEF Owned, HasTarget, IsCurrentTarget, Runs
  <2>4. QED
    BY <1>1, <1>3, <2>1, <2>2, <2>3 DEF Owned
<1>4. QED
  BY <1>1, <1>2, <1>3 DEF OwnersOK, Exists

\* The fields that identify an attempt; most handlers leave them alone.
SameAttempt(new, old) ==
    /\ new.recommendation_pending = old.recommendation_pending
    /\ new.recommendation_request_id = old.recommendation_request_id
    /\ new.approved_state = old.approved_state

\* The edits that leave them alone.
LEMMA EditsKeepAttempt ==
    ASSUME NEW job \in JobRecord, NEW line, NEW note, NEW title, NEW included
    PROVE  /\ SameAttempt(Decided(job, line), job)
           /\ SameAttempt(Reviewed(job, note), job)
           /\ SameAttempt(Reopened(job), job)
           /\ SameAttempt(Retitled(job, title), job)
           /\ SameAttempt([job EXCEPT !.benchmark_included = included], job)
           /\ SameAttempt([job EXCEPT !.archived_at = included], job)
<1>1. SameAttempt(Decided(job, line), job)
  BY DEF SameAttempt, Decided, JobRecord
<1>2. SameAttempt(Reviewed(job, note), job)
  BY DEF SameAttempt, Reviewed, JobRecord
<1>3. SameAttempt(Reopened(job), job)
  BY DEF SameAttempt, Reopened, JobRecord
<1>4. SameAttempt(Retitled(job, title), job)
  BY DEF SameAttempt, Retitled, JobRecord
<1>5. SameAttempt([job EXCEPT !.benchmark_included = included], job)
  BY DEF SameAttempt, JobRecord
<1>6. SameAttempt([job EXCEPT !.archived_at = included], job)
  BY DEF SameAttempt, JobRecord
<1>7. QED
  BY <1>1, <1>2, <1>3, <1>4, <1>5, <1>6

\* No user edit disturbs the owners.
LEMMA UserEditOwners ==
    ASSUME Coherent, OwnersOK, NEW j \in Jobs, UserEdit(j)
    PROVE  OwnersOK'
<1> DEFINE job == jobs[j]
<1>1. Exists(j)
  BY DEF UserEdit, Approve, RecordDecision, CompleteReview, ReopenReview,
         UpdateMetadata, SetBenchmarkInclusion, Delete
<1>2. job \in JobRecord
  BY <1>1, RecordIsNotNone DEF Coherent, RecordsOK
<1>3. ASSUME NEW new, Edit(j, new), SameAttempt(new, job)
      PROVE  OwnersOK'
  BY <1>1, <1>3, KeptOwners DEF Edit, SameAttempt
<1>4. ASSUME NEW state \in States, Approve(j, state)
      PROVE  OwnersOK'
  <2>1. Approved(job, state).recommendation_pending = job.recommendation_pending
    BY <1>2 DEF Approved, JobRecord
  <2>2. ~ job.recommendation_pending
    BY <1>4 DEF Approve
  <2>3. QED
    BY <1>1, <1>4, <2>1, <2>2, KeptOwners DEF Approve, Edit
<1>5. ASSUME NEW line \in Decisions, RecordDecision(j, line)
      PROVE  OwnersOK'
  BY <1>2, <1>3, <1>5, EditsKeepAttempt DEF RecordDecision
<1>6. CASE CompleteReview(j)
  BY <1>2, <1>3, <1>6, EditsKeepAttempt DEF CompleteReview
<1>7. CASE ReopenReview(j)
  BY <1>2, <1>3, <1>7, EditsKeepAttempt DEF ReopenReview
<1>8. ASSUME NEW title \in Option(Titles), UpdateMetadata(j, title)
      PROVE  OwnersOK'
  BY <1>2, <1>3, <1>8, EditsKeepAttempt DEF UpdateMetadata
<1>9. ASSUME NEW included \in BOOLEAN, SetBenchmarkInclusion(j, included)
      PROVE  OwnersOK'
  BY <1>2, <1>3, <1>9, EditsKeepAttempt DEF SetBenchmarkInclusion
<1>10. CASE Delete(j)
  BY <1>1, <1>10, KeptOwners DEF Delete, Edit
<1>11. QED
  BY <1>4, <1>5, <1>6, <1>7, <1>8, <1>9, <1>10 DEF UserEdit

\* A parser outcome keeps the marker and, under it, the approved state.
LEMMA ParsedKeepsAttempt ==
    ASSUME NEW job \in JobRecord, NEW detected, NEW clean,
           job.approved_state # None
    PROVE  /\ SameAttempt(Parsed(job, detected, clean), job)
           /\ SameAttempt(ParserFailed(job), job)
BY DEF SameAttempt, Parsed, ParserFailed, JobRecord

\* Nor does it set or clear the marker of a hand that is not approved.
LEMMA ParsedKeepsMarker ==
    ASSUME NEW job \in JobRecord, NEW detected, NEW clean
    PROVE  /\ Parsed(job, detected, clean).recommendation_pending
                  = job.recommendation_pending
           /\ ParserFailed(job).recommendation_pending
                  = job.recommendation_pending
BY DEF Parsed, ParserFailed, JobRecord

\* The upload request never disturbs the owners: a hand under the marker is
\* approved, and a fresh upload has no solver.
LEMMA UploadOwners ==
    ASSUME Coherent, OwnersOK, NEW j \in Jobs, CreateJob(j) \/ UploadStep(j)
    PROVE  OwnersOK'
<1>1. CASE CreateJob(j)
  <2>1. \A k \in Jobs : jobs'[k] = IF k = j THEN Uploaded ELSE jobs[k]
    BY <1>1 DEF CreateJob, Coherent, TypeOK
  <2>2. \A s \in Solvers : ~ Runs(s, j)
    BY <1>1 DEF CreateJob, Coherent, UploadsOK, Runs
  <2>3. Owned(j)'
    BY <1>1, <2>1, <2>2 DEF CreateJob, Owned, Uploaded, Runs
  <2>4. \A k \in Jobs : k # j => (Exists(k)' <=> Exists(k)) /\ (Exists(k) => Owned(k)')
    BY <1>1, <2>1 DEF CreateJob, OwnersOK, Owned, Exists, Runs, HasTarget
  <2>5. QED
    BY <2>3, <2>4 DEF OwnersOK
<1>2. CASE StartParser(j)
  BY <1>2 DEF StartParser, OwnersOK, Owned, Exists, Runs, HasTarget
<1>3. ASSUME NEW job, FinishParser(j, job),
             Exists(j) => /\ job.recommendation_pending = jobs[j].recommendation_pending
                          /\ jobs[j].approved_state # None => SameAttempt(job, jobs[j])
      PROVE  OwnersOK'
  <2>1. CASE ~ Exists(j)
    BY <1>3, <2>1 DEF FinishParser, OwnersOK, Owned, Exists, Runs, HasTarget
  <2>2. CASE Exists(j)
    <3>1. jobs[j].recommendation_pending => jobs[j].approved_state # None
      BY <2>2, NoneIsNoValue
         DEF Coherent, TypeOK, Option, Attempts, OwnersOK, Owned, Runs,
             HasTarget, IsCurrentTarget
    <3>2. QED
      BY <1>3, <2>2, <3>1, KeptOwners DEF FinishParser, SameAttempt
  <2>3. QED
    BY <2>1, <2>2
<1>4. Exists(j) => jobs[j] \in JobRecord
  BY RecordIsNotNone DEF Coherent, RecordsOK
<1>5. ASSUME NEW detected \in States, NEW clean \in BOOLEAN,
             FinishParser(j, Parsed(jobs[j], detected, clean))
      PROVE  OwnersOK'
  BY <1>3, <1>4, <1>5, ParsedKeepsAttempt, ParsedKeepsMarker
<1>6. CASE ParserFails(j)
  BY <1>3, <1>4, <1>6, ParsedKeepsAttempt, ParsedKeepsMarker DEF ParserFails
<1>7. QED
  BY <1>1, <1>2, <1>5, <1>6 DEF UploadStep, ParserSucceeds

\* Starting a recommendation takes a free marker; ending one releases it; a
\* thread that finds the record changed holds no marker of an existing job.
LEMMA SolverOwners ==
    ASSUME Coherent, OwnersOK, NEW s \in Solvers,
           \/ \E j \in Jobs, id \in Option(RequestIds) :
                  StartRecommendation(s, j, id)
           \/ SolverStep(s)
    PROVE  OwnersOK'
<1>1. ASSUME NEW j \in Jobs, NEW id \in Option(RequestIds),
             StartRecommendation(s, j, id)
      PROVE  OwnersOK'
  <2> DEFINE attempt == [job |-> j, state |-> jobs[j].approved_state, id |-> id]
             new == Requested(jobs[j], id)
  <2>1. jobs[j] \in JobRecord
    BY <1>1, RecordIsNotNone DEF StartRecommendation, Coherent, RecordsOK
  <2>2. /\ new.recommendation_pending = TRUE
        /\ new.recommendation_request_id = id
        /\ new.approved_state = jobs[j].approved_state
    BY <2>1 DEF Requested, JobRecord
  <2>3. new # None /\ attempt # None
    <3>1. RecordOK(jobs[j])
      BY <1>1 DEF StartRecommendation, Coherent, RecordsOK
    <3>2. new # None
      BY <3>1, RequestedOK, RecordIsNotNone
    <3>3. attempt \in Attempts
      BY <1>1, <2>1 DEF StartRecommendation, JobRecord, Option, Attempts
    <3>4. QED
      BY <3>2, <3>3, NoneIsNoAttempt
  <2>4. \A k \in Jobs : jobs'[k] = IF k = j THEN new ELSE jobs[k]
    BY <1>1 DEF StartRecommendation, Coherent, TypeOK
  <2>5. \A t \in Solvers : run'[t] = IF t = s THEN attempt ELSE run[t]
    BY <1>1 DEF StartRecommendation, Coherent, TypeOK
  <2>6. \A t \in Solvers : ~ Runs(t, j)
    BY <1>1 DEF StartRecommendation, OwnersOK, Owned
  <2>7. attempt.job = j /\ attempt.state = jobs[j].approved_state /\ attempt.id = id
    OBVIOUS
  <2>8. run[s] = None
    BY <1>1 DEF StartRecommendation
  <2> HIDE DEF attempt, new
  <2>9. \A t \in Solvers : Runs(t, j)' <=> t = s
    BY <2>3, <2>5, <2>6, <2>7 DEF Runs
  <2>10. HasTarget(run[s])'
    BY <2>2, <2>3, <2>4, <2>5, <2>7 DEF HasTarget, IsCurrentTarget
  <2>11. Owned(j)'
    BY <2>2, <2>4, <2>9, <2>10 DEF Owned
  <2>12. \A k \in Jobs : k # j => (Exists(k)' <=> Exists(k)) /\ (Exists(k) => Owned(k)')
    BY <2>4, <2>5, <2>7, <2>8 DEF OwnersOK, Owned, Exists, Runs, HasTarget
  <2>13. QED
    BY <2>11, <2>12 DEF OwnersOK
<1>2. ASSUME NEW job, FinishRecommendation(s, job), ~ job.recommendation_pending
      PROVE  OwnersOK'
  <2>1. PICK j \in Jobs : j = run[s].job /\ run[s] # None
    BY <1>2 DEF FinishRecommendation, Coherent, TypeOK, Option, Attempts
  <2>2. \A k \in Jobs : jobs'[k] = IF k = j THEN job ELSE jobs[k]
    BY <1>2, <2>1 DEF FinishRecommendation, Coherent, TypeOK
  <2>3. \A t \in Solvers : run'[t] = IF t = s THEN None ELSE run[t]
    BY <1>2 DEF FinishRecommendation, Coherent, TypeOK
  <2>4. Exists(j)
    BY <1>2, <2>1 DEF FinishRecommendation, HasTarget, IsCurrentTarget, Exists
  <2>5. \A t \in Solvers : Runs(t, j) => t = s
    BY <2>1, <2>4 DEF OwnersOK, Owned, Runs
  <2>6. \A t \in Solvers : ~ Runs(t, j)'
    BY <2>3, <2>5 DEF Runs
  <2>7. Owned(j)'
    BY <1>2, <2>1, <2>2, <2>6 DEF Owned
  <2>8. \A k \in Jobs : k # j => (Exists(k)' <=> Exists(k)) /\ (Exists(k) => Owned(k)')
    <3> SUFFICES ASSUME NEW k \in Jobs, k # j
                 PROVE  (Exists(k)' <=> Exists(k)) /\ (Exists(k) => Owned(k)')
      OBVIOUS
    <3>1. jobs'[k] = jobs[k]
      BY <2>2
    <3>2. \A t \in Solvers : Runs(t, k)' <=> Runs(t, k)
      BY <2>1, <2>3 DEF Runs
    <3>3. \A t \in Solvers : Runs(t, k) => (HasTarget(run[t])' <=> HasTarget(run[t]))
      BY <2>1, <2>3, <3>1 DEF Runs, HasTarget
    <3>4. QED
      BY <3>1, <3>2, <3>3 DEF OwnersOK, Owned, Exists
  <2>9. QED
    BY <2>7, <2>8 DEF OwnersOK
<1> DEFINE old == jobs[run[s].job]
<1>3. ASSUME run[s] # None, HasTarget(run[s])
      PROVE  old \in JobRecord
  BY <1>3, RecordIsNotNone
     DEF HasTarget, IsCurrentTarget, Coherent, TypeOK, RecordsOK, Option, Attempts, Exists
<1>4. ASSUME old \in JobRecord, NEW verdict \in Verdicts
      PROVE  /\ ~ Recommended(old, run[s].state, verdict).recommendation_pending
             /\ ~ Uncorrected(old).recommendation_pending
             /\ ~ RecommendationFailed(old).recommendation_pending
  BY <1>4 DEF JobRecord, Recommended, Uncorrected, RecommendationFailed
<1>5. ASSUME NEW verdict \in Verdicts,
             FinishRecommendation(s, Recommended(old, run[s].state, verdict))
      PROVE  OwnersOK'
  BY <1>2, <1>3, <1>4, <1>5 DEF FinishRecommendation
<1>6. CASE ProviderRejectsInput(s)
  <2>1. old \in JobRecord
    BY <1>3, <1>6 DEF ProviderRejectsInput, FinishRecommendation
  <2>2. ~ Uncorrected(old).recommendation_pending
    BY <2>1 DEF JobRecord, Uncorrected
  <2>3. QED
    BY <1>2, <1>6, <2>2 DEF ProviderRejectsInput
<1>7. CASE ProviderFails(s)
  <2>1. old \in JobRecord
    BY <1>3, <1>7 DEF ProviderFails, FinishRecommendation
  <2>2. ~ RecommendationFailed(old).recommendation_pending
    BY <2>1 DEF JobRecord, RecommendationFailed
  <2>3. QED
    BY <1>2, <1>7, <2>2 DEF ProviderFails
<1>8. CASE AbandonRecommendation(s)
  <2>1. \A t \in Solvers : run'[t] = IF t = s THEN None ELSE run[t]
    BY <1>8 DEF AbandonRecommendation, Coherent, TypeOK
  <2>2. \A k \in Jobs : Exists(k) => ~ Runs(s, k)
    BY <1>8 DEF AbandonRecommendation, OwnersOK, Owned
  <2>3. \A k \in Jobs, t \in Solvers :
            Exists(k) => (Runs(t, k)' <=> Runs(t, k))
    BY <2>1, <2>2 DEF Runs
  <2>4. \A k \in Jobs, t \in Solvers :
            Exists(k) /\ Runs(t, k) => (HasTarget(run[t])' <=> HasTarget(run[t]))
    BY <1>8, <2>1, <2>2 DEF AbandonRecommendation, HasTarget
  <2>5. QED
    BY <1>8, <2>3, <2>4 DEF AbandonRecommendation, OwnersOK, Owned, Exists
<1>9. QED
  BY <1>1, <1>5, <1>6, <1>7, <1>8 DEF SolverStep, ProviderAnswers

\* Archiving touches no marker.
LEMMA ArchiveOwners ==
    ASSUME Coherent, OwnersOK, NEW batch \in SUBSET Jobs, Archive(batch)
    PROVE  OwnersOK'
<1>1. \A j \in Jobs :
          Exists(j) => jobs[j] \in JobRecord /\ SameAttempt(jobs'[j], jobs[j])
  <2> SUFFICES ASSUME NEW j \in Jobs, Exists(j)
               PROVE  jobs[j] \in JobRecord /\ SameAttempt(jobs'[j], jobs[j])
    OBVIOUS
  <2>1. jobs[j] \in JobRecord
    BY RecordIsNotNone DEF Coherent, RecordsOK
  <2>2. QED
    BY <2>1, EditsKeepAttempt DEF Archive, SameAttempt
<1>2. \A j \in Jobs : Exists(j)' <=> Exists(j)
  <2>1. Coherent'
    BY ArchiveCoherent
  <2>2. \A j \in Jobs : Exists(j) => Exists(j)'
    <3> SUFFICES ASSUME NEW j \in Jobs, Exists(j)
                 PROVE  Exists(j)'
      OBVIOUS
    <3>1. CASE j \notin batch
      BY <3>1 DEF Archive, Exists
    <3>2. CASE j \in batch
      <4>1. RecordOK(jobs[j]) /\ IsHistoryReady(jobs[j])
        BY <3>2 DEF Archive, Coherent, RecordsOK
      <4>2. RecordOK([jobs[j] EXCEPT !.archived_at = TRUE])
        BY <4>1, ArchivedOK
      <4>3. QED
        BY <3>2, <4>2, RecordIsNotNone DEF Archive, Exists
    <3>3. QED
      BY <3>1, <3>2
  <2>3. QED
    BY <2>2 DEF Archive, Exists
<1>3. \A j \in Jobs, s \in Solvers : Runs(s, j)' <=> Runs(s, j)
  BY DEF Archive, Runs
<1>4. \A j \in Jobs, s \in Solvers :
          Exists(j) /\ Runs(s, j) => (HasTarget(run[s])' <=> HasTarget(run[s]))
  BY <1>1, <1>2 DEF Archive, Runs, HasTarget, IsCurrentTarget, SameAttempt, Exists
<1>5. QED
  BY <1>1, <1>2, <1>3, <1>4 DEF OwnersOK, Owned, SameAttempt

\* After a restart there are neither markers nor threads.
LEMMA RestartOwners ==
    ASSUME Coherent, OwnersOK, Restart
    PROVE  OwnersOK'
<1>1. \A j \in Jobs : Exists(j) => ~ Recovered(jobs[j]).recommendation_pending
  <2> SUFFICES ASSUME NEW j \in Jobs, Exists(j)
               PROVE  ~ Recovered(jobs[j]).recommendation_pending
    OBVIOUS
  <2>1. jobs[j] \in JobRecord
    BY RecordIsNotNone DEF Coherent, RecordsOK
  <2>2. QED
    BY <2>1 DEF Recovered, JobRecord
<1>2. \A j \in Jobs, s \in Solvers : ~ Runs(s, j)'
  BY DEF Restart, Runs
<1>3. QED
  BY <1>1, <1>2 DEF Restart, OwnersOK, Owned, Exists

\* Every step keeps the owners.
LEMMA NextOwners == Coherent /\ OwnersOK /\ [Next]_vars => OwnersOK'
<1> SUFFICES ASSUME Coherent, OwnersOK, [Next]_vars
             PROVE  OwnersOK'
  OBVIOUS
<1>1. CASE UNCHANGED vars
  BY <1>1 DEF vars, OwnersOK, Owned, Exists, Runs, HasTarget
<1>2. CASE Next
  BY <1>2, UploadOwners, UserEditOwners, ArchiveOwners, SolverOwners,
     RestartOwners DEF Next
<1>3. QED
  BY <1>1, <1>2

\* In every reachable state the markers are owned.
LEMMA OwnersAlways == Spec => []OwnersOK
BY InitOwners, NextOwners, CoherentAlways, PTL DEF Spec

\* The in-progress marker of a stored hand has exactly one living owner.
THEOREM MarkersAreOwned == Spec => []PendingHasOneOwner
BY OwnersAlways, OwnersOKMeaning, PTL


-----------------------------------------------------------------------------
(***************************************************************************)
(* Steps by what they change                                               *)
(***************************************************************************)

\* A user edit touches one stored hand, and neither uploads nor threads.
LEMMA UserEditShape ==
    ASSUME NEW j \in Jobs, UserEdit(j)
    PROVE  /\ Exists(j)
           /\ \E job : jobs' = [jobs EXCEPT ![j] = job]
           /\ upload' = upload
           /\ run' = run
<1>1. ASSUME NEW state \in States, Approve(j, state)
      PROVE  Exists(j) /\ \E job : Edit(j, job)
  BY <1>1 DEF Approve
<1>2. ASSUME NEW line \in Decisions, RecordDecision(j, line)
      PROVE  Exists(j) /\ \E job : Edit(j, job)
  BY <1>2 DEF RecordDecision
<1>3. ASSUME CompleteReview(j) \/ ReopenReview(j) \/ Delete(j)
      PROVE  Exists(j) /\ \E job : Edit(j, job)
  BY <1>3 DEF CompleteReview, ReopenReview, Delete
<1>4. ASSUME NEW title \in Option(Titles), UpdateMetadata(j, title)
      PROVE  Exists(j) /\ \E job : Edit(j, job)
  BY <1>4 DEF UpdateMetadata
<1>5. ASSUME NEW included \in BOOLEAN, SetBenchmarkInclusion(j, included)
      PROVE  Exists(j) /\ \E job : Edit(j, job)
  BY <1>5 DEF SetBenchmarkInclusion
<1>6. Exists(j) /\ \E job : Edit(j, job)
  BY <1>1, <1>2, <1>3, <1>4, <1>5 DEF UserEdit
<1>7. QED
  BY <1>6 DEF Edit

\* The steps of a hand's upload request after its creation.
LEMMA UploadStepShape ==
    ASSUME NEW j \in Jobs, UploadStep(j)
    PROVE  /\ \/ jobs' = jobs
              \/ /\ Exists(j)
                 /\ \/ \E detected \in States, clean \in BOOLEAN :
                           jobs' = [jobs EXCEPT ![j] = Parsed(jobs[j], detected, clean)]
                    \/ jobs' = [jobs EXCEPT ![j] = ParserFailed(jobs[j])]
           /\ run' = run
BY DEF UploadStep, StartParser, ParserSucceeds, ParserFails, FinishParser

\* The end of a recommendation attempt on the hand it was started for.
LEMMA SolverStepShape ==
    ASSUME Coherent, NEW s \in Solvers, SolverStep(s)
    PROVE  /\ \/ jobs' = jobs
              \/ LET j == run[s].job IN
                 /\ j \in Jobs
                 /\ Exists(j)
                 /\ \/ \E verdict \in Verdicts :
                           jobs' = [jobs EXCEPT ![j] =
                                        Recommended(jobs[j], run[s].state, verdict)]
                    \/ jobs' = [jobs EXCEPT ![j] = Uncorrected(jobs[j])]
                    \/ jobs' = [jobs EXCEPT ![j] = RecommendationFailed(jobs[j])]
           /\ upload' = upload
<1>1. CASE AbandonRecommendation(s)
  BY <1>1 DEF AbandonRecommendation
<1>2. ASSUME NEW job, FinishRecommendation(s, job)
      PROVE  /\ run[s].job \in Jobs
             /\ Exists(run[s].job)
             /\ jobs' = [jobs EXCEPT ![run[s].job] = job]
             /\ upload' = upload
  BY <1>2 DEF FinishRecommendation, HasTarget, IsCurrentTarget, Exists,
              Coherent, TypeOK, Option, Attempts
<1>3. ASSUME NEW verdict \in Verdicts,
             FinishRecommendation(s, Recommended(jobs[run[s].job], run[s].state, verdict))
      PROVE  /\ run[s].job \in Jobs
             /\ Exists(run[s].job)
             /\ jobs' = [jobs EXCEPT ![run[s].job] =
                             Recommended(jobs[run[s].job], run[s].state, verdict)]
             /\ upload' = upload
  BY <1>2, <1>3
<1>4. QED
  BY <1>1, <1>2, <1>3
     DEF SolverStep, ProviderAnswers, ProviderRejectsInput, ProviderFails

-----------------------------------------------------------------------------
(***************************************************************************)
(* Deleted hands                                                           *)
(***************************************************************************)

\* A hand whose upload has happened and that is gone is not stored again.
LEMMA DeletedStep ==
    ASSUME Coherent, [Next]_vars,
           NEW j \in Jobs, upload[j] # "unused", ~ Exists(j)
    PROVE  ~ Exists(j)'
<1> USE DEF Coherent, TypeOK, Exists
<1>1. ASSUME NEW k \in Jobs, k # j, NEW job, jobs' = [jobs EXCEPT ![k] = job]
      PROVE  ~ Exists(j)'
  BY <1>1
<1>2. ASSUME NEW k \in Jobs, CreateJob(k)
      PROVE  ~ Exists(j)'
  BY <1>1, <1>2 DEF CreateJob
<1>3. ASSUME NEW k \in Jobs, UploadStep(k)
      PROVE  ~ Exists(j)'
  BY <1>1, <1>3, UploadStepShape
<1>4. ASSUME NEW k \in Jobs, UserEdit(k)
      PROVE  ~ Exists(j)'
  BY <1>1, <1>4, UserEditShape
<1>5. ASSUME NEW batch \in SUBSET Jobs, Archive(batch)
      PROVE  ~ Exists(j)'
  BY <1>5 DEF Archive
<1>6. ASSUME NEW s \in Solvers, NEW k \in Jobs, NEW id \in Option(RequestIds),
             StartRecommendation(s, k, id)
      PROVE  ~ Exists(j)'
  BY <1>1, <1>6 DEF StartRecommendation
<1>7. ASSUME NEW s \in Solvers, SolverStep(s)
      PROVE  ~ Exists(j)'
  BY <1>1, <1>7, SolverStepShape
<1>8. CASE Restart
  BY <1>8 DEF Restart
<1>9. CASE UNCHANGED vars
  BY <1>9 DEF vars
<1>10. QED
  BY <1>2, <1>3, <1>4, <1>5, <1>6, <1>7, <1>8, <1>9 DEF Next

\* A deleted upload is never recreated by a parser or a provider that was
\* still working on it.
THEOREM DeletedHandsStayDeleted == Spec => DeletedStaysDeleted
<1>1. Coherent /\ [Next]_vars =>
          [\A j \in Jobs : upload[j] # "unused" /\ ~ Exists(j) => ~ Exists(j)']_vars
  BY DeletedStep
<1>2. QED
  BY <1>1, CoherentAlways, PTL DEF Spec, DeletedStaysDeleted

-----------------------------------------------------------------------------
(***************************************************************************)
(* Completions and user edits                                              *)
(***************************************************************************)

\* What a completion or a restart leaves of a record.
KeepsEdits(old, new) ==
    /\ new.title = old.title
    /\ new.benchmark_included = old.benchmark_included
    /\ new.archived_at = old.archived_at
    /\ new.training_decision = old.training_decision
    /\ old.approved_state # None => new.approved_state = old.approved_state

\* Every operator that a parser, a provider or startup applies keeps the edits.
LEMMA OperatorsKeepEdits ==
    ASSUME NEW job \in JobRecord
    PROVE  /\ \A detected, clean : KeepsEdits(job, Parsed(job, detected, clean))
           /\ KeepsEdits(job, ParserFailed(job))
           /\ \A id : KeepsEdits(job, Requested(job, id))
           /\ \A state, verdict : KeepsEdits(job, Recommended(job, state, verdict))
           /\ KeepsEdits(job, Uncorrected(job))
           /\ KeepsEdits(job, RecommendationFailed(job))
           /\ KeepsEdits(job, Recovered(job))
<1>1. \A detected, clean : KeepsEdits(job, Parsed(job, detected, clean))
  BY DEF KeepsEdits, Parsed, JobRecord
<1>2. KeepsEdits(job, ParserFailed(job))
  BY DEF KeepsEdits, ParserFailed, JobRecord
<1>3. \A pending, id : KeepsEdits(job, [job EXCEPT !.recommendation_pending = pending,
                                                  !.recommendation_request_id = id])
  BY DEF KeepsEdits, JobRecord
<1>4. \A pending, state, verdict :
          KeepsEdits(job, [job EXCEPT
              !.recommendation = [verdict |-> verdict, state |-> state],
              !.recommendation_pending = pending,
              !.training_reviewed_at = None,
              !.training_review_note = None,
              !.status = "recommended"])
  BY DEF KeepsEdits, JobRecord
<1>5. \A pending, status :
          KeepsEdits(job, [job EXCEPT !.recommendation_pending = pending,
                                      !.status = status])
  BY DEF KeepsEdits, JobRecord
<1>6. KeepsEdits(job, job)
  BY DEF KeepsEdits
<1>7. QED
  BY <1>1, <1>2, <1>3, <1>4, <1>5, <1>6
     DEF Requested, Recommended, Uncorrected, RecommendationFailed, Recovered

\* A step that ends or starts work, or a restart, keeps what users entered.
LEMMA CompletionStep ==
    ASSUME Coherent, [Next]_vars, NEW j \in Jobs, Exists(j), Exists(j)',
           upload' # upload \/ run' # run
    PROVE  KeepsEdits(jobs[j], jobs'[j])
<1> DEFINE Kept == KeepsEdits(jobs[j], jobs'[j])
<1>1. jobs[j] \in JobRecord /\ upload[j] # "unused"
  BY DEF Coherent, RecordsOK, RecordOK, UploadsOK
<1>2. KeepsEdits(jobs[j], jobs[j])
  BY DEF KeepsEdits
<1>3. ASSUME NEW k \in Jobs, NEW job, jobs' = [jobs EXCEPT ![k] = job],
             k = j => KeepsEdits(jobs[j], job)
      PROVE  Kept
  <2>1. jobs'[j] = IF k = j THEN job ELSE jobs[j]
    BY <1>3 DEF Coherent, TypeOK
  <2>2. QED
    BY <1>2, <1>3, <2>1
<1>4. ASSUME jobs' = jobs
      PROVE  Kept
  BY <1>2, <1>4
<1>5. ASSUME NEW k \in Jobs, CreateJob(k)
      PROVE  Kept
  BY <1>1, <1>3, <1>5 DEF CreateJob
<1>6. ASSUME NEW k \in Jobs, UploadStep(k)
      PROVE  Kept
  <2>1. ASSUME NEW detected \in States, NEW clean \in BOOLEAN,
               jobs' = [jobs EXCEPT ![k] = Parsed(jobs[k], detected, clean)]
        PROVE  Kept
    BY <1>1, <1>3, <2>1, OperatorsKeepEdits
  <2>2. ASSUME jobs' = [jobs EXCEPT ![k] = ParserFailed(jobs[k])]
        PROVE  Kept
    BY <1>1, <1>3, <2>2, OperatorsKeepEdits
  <2>3. QED
    BY <1>4, <1>6, <2>1, <2>2, UploadStepShape
<1>7. ASSUME NEW k \in Jobs, UserEdit(k)
      PROVE  FALSE
  BY <1>7, UserEditShape
<1>8. ASSUME NEW batch \in SUBSET Jobs, Archive(batch)
      PROVE  FALSE
  BY <1>8 DEF Archive
<1>9. ASSUME NEW s \in Solvers, NEW k \in Jobs, NEW id \in Option(RequestIds),
             StartRecommendation(s, k, id)
      PROVE  Kept
  BY <1>1, <1>3, <1>9, OperatorsKeepEdits DEF StartRecommendation
<1>10. ASSUME NEW s \in Solvers, SolverStep(s)
       PROVE  Kept
  <2> DEFINE k == run[s].job
  <2>1. ASSUME k \in Jobs, NEW verdict \in Verdicts,
               jobs' = [jobs EXCEPT ![k] =
                            Recommended(jobs[k], run[s].state, verdict)]
        PROVE  Kept
    BY <1>1, <1>3, <2>1, OperatorsKeepEdits
  <2>2. ASSUME k \in Jobs,
               \/ jobs' = [jobs EXCEPT ![k] = Uncorrected(jobs[k])]
               \/ jobs' = [jobs EXCEPT ![k] = RecommendationFailed(jobs[k])]
        PROVE  Kept
    BY <1>1, <1>3, <2>2, OperatorsKeepEdits
  <2>3. QED
    BY <1>4, <1>10, <2>1, <2>2, SolverStepShape
<1>11. CASE Restart
  <2>1. jobs'[j] = Recovered(jobs[j])
    BY <1>11 DEF Restart
  <2>2. QED
    BY <1>1, <2>1, OperatorsKeepEdits
<1>12. CASE UNCHANGED vars
  BY <1>4, <1>12 DEF vars
<1>13. QED
  BY <1>5, <1>6, <1>7, <1>8, <1>9, <1>10, <1>11, <1>12 DEF Next

\* The end of a parser or provider call, which started from an older copy of
\* the record, never loses what users did since.
THEOREM CompletionsLoseNoEdit == Spec => CompletionsKeepUserEdits
<1>1. Coherent /\ [Next]_vars =>
          [\A j \in Jobs :
              Exists(j) /\ Exists(j)' /\ (upload' # upload \/ run' # run) =>
                  LET old == jobs[j]  new == jobs'[j] IN
                  /\ new.title = old.title
                  /\ new.benchmark_included = old.benchmark_included
                  /\ new.archived_at = old.archived_at
                  /\ new.training_decision = old.training_decision
                  /\ old.approved_state # None =>
                         new.approved_state = old.approved_state]_vars
  BY CompletionStep DEF KeepsEdits
<1>2. QED
  BY <1>1, CoherentAlways, PTL DEF Spec, CompletionsKeepUserEdits

-----------------------------------------------------------------------------
(***************************************************************************)
(* Late parser outcomes                                                    *)
(***************************************************************************)

\* Without solver threads no stored hand is marked, so startup recovery
\* leaves an approved hand as it is.
LEMMA RecoveryKeepsApproved ==
    ASSUME Coherent, OwnersOK, Restart, run' = run,
           NEW j \in Jobs, Exists(j), jobs[j].approved_state # None
    PROVE  jobs'[j] = jobs[j]
<1>1. RecordOK(jobs[j])
  BY DEF Coherent, RecordsOK
<1>2. jobs[j].status # "created"
  BY <1>1 DEF RecordOK, IsFittingStatus
<1>3. \A s \in Solvers : run[s] = None
  BY DEF Restart
<1>4. ~ jobs[j].recommendation_pending
  BY <1>3 DEF OwnersOK, Owned, Runs
<1>5. jobs'[j] = Recovered(jobs[j])
  BY DEF Restart
<1>6. QED
  BY <1>2, <1>4, <1>5 DEF Recovered

\* The end of an upload request does not change the status of an approved hand.
LEMMA LateParserStep ==
    ASSUME Coherent, OwnersOK, [Next]_vars,
           upload' # upload, run' = run,
           NEW j \in Jobs, Exists(j), jobs[j].approved_state # None
    PROVE  jobs'[j].status = jobs[j].status
<1> DEFINE Same == jobs'[j].status = jobs[j].status
<1>1. jobs[j] \in JobRecord /\ upload[j] # "unused" /\ jobs \in [Jobs -> Option(JobRecord)]
  BY DEF Coherent, TypeOK, RecordsOK, RecordOK, UploadsOK
<1>2. ASSUME NEW k \in Jobs, CreateJob(k)
      PROVE  Same
  BY <1>1, <1>2 DEF CreateJob
<1>3. ASSUME NEW k \in Jobs, UploadStep(k)
      PROVE  Same
  <2>1. /\ \A detected, clean : Parsed(jobs[j], detected, clean).status = jobs[j].status
        /\ ParserFailed(jobs[j]).status = jobs[j].status
    BY <1>1 DEF Parsed, ParserFailed, JobRecord
  <2>2. QED
    BY <1>1, <1>3, <2>1, UploadStepShape
<1>4. ASSUME NEW k \in Jobs, UserEdit(k)
      PROVE  FALSE
  BY <1>4, UserEditShape
<1>5. ASSUME NEW batch \in SUBSET Jobs, Archive(batch)
      PROVE  FALSE
  BY <1>5 DEF Archive
<1>6. ASSUME NEW s \in Solvers, NEW k \in Jobs, NEW id \in Option(RequestIds),
             StartRecommendation(s, k, id)
      PROVE  FALSE
  BY <1>6 DEF StartRecommendation
<1>7. ASSUME NEW s \in Solvers, SolverStep(s)
      PROVE  FALSE
  BY <1>7, SolverStepShape
<1>8. CASE Restart
  BY <1>8, RecoveryKeepsApproved
<1>9. CASE UNCHANGED vars
  BY <1>9 DEF vars
<1>10. QED
  BY <1>2, <1>3, <1>4, <1>5, <1>6, <1>7, <1>8, <1>9 DEF Next

\* A parser outcome that arrives after a user approved the hand does not
\* change its status (process_uploaded_image).
THEOREM LateParsersKeepStatus == Spec => LateParserKeepsStatus
<1>1. Coherent /\ OwnersOK /\ [Next]_vars =>
          [\A j \in Jobs :
              /\ upload'[j] # upload[j]
              /\ run' = run
              /\ Exists(j) /\ Exists(j)'
              /\ jobs[j].approved_state # None
              => jobs'[j].status = jobs[j].status]_vars
  BY LateParserStep
<1>2. QED
  BY <1>1, CoherentAlways, OwnersAlways, PTL DEF Spec, LateParserKeepsStatus

-----------------------------------------------------------------------------
(***************************************************************************)
(* The corpus: selection is the only step that adds a label; every other   *)
(* step keeps the labels of the hands that stay.                           *)
(***************************************************************************)

\* The limit, with the finiteness that makes counting meaningful.
CorpusOK ==
    /\ IsFiniteSet(IncludedJobs)
    /\ Cardinality(IncludedJobs) <= MaxDatasetCases
    /\ \A j \in IncludedJobs : jobs[j].approved_state # None

\* A save that adds no label and takes no approval away.
AddsNoLabel(old, new) ==
    /\ new.benchmark_included => old.benchmark_included
    /\ old.approved_state # None => new.approved_state # None

-----------------------------------------------------------------------------
(***************************************************************************)
(* What the operators on records do to the label                           *)
(***************************************************************************)

\* No operator but selection adds a label.
LEMMA OperatorsAddNoLabel ==
    ASSUME NEW job \in JobRecord
    PROVE  /\ \A detected, clean : AddsNoLabel(job, Parsed(job, detected, clean))
           /\ AddsNoLabel(job, ParserFailed(job))
           /\ \A state \in States : AddsNoLabel(job, Approved(job, state))
           /\ \A line : AddsNoLabel(job, Decided(job, line))
           /\ \A note : AddsNoLabel(job, Reviewed(job, note))
           /\ AddsNoLabel(job, Reopened(job))
           /\ \A title : AddsNoLabel(job, Retitled(job, title))
           /\ \A id : AddsNoLabel(job, Requested(job, id))
           /\ \A state, verdict : AddsNoLabel(job, Recommended(job, state, verdict))
           /\ AddsNoLabel(job, Uncorrected(job))
           /\ AddsNoLabel(job, RecommendationFailed(job))
           /\ AddsNoLabel(job, Recovered(job))
           /\ \A archived : AddsNoLabel(job, [job EXCEPT !.archived_at = archived])
<1>1. \A detected, clean : AddsNoLabel(job, Parsed(job, detected, clean))
  BY DEF AddsNoLabel, Parsed, JobRecord
<1>2. AddsNoLabel(job, ParserFailed(job))
  BY DEF AddsNoLabel, ParserFailed, JobRecord
<1>3. \A state \in States : AddsNoLabel(job, Approved(job, state))
  BY NoneIsNoValue DEF AddsNoLabel, Approved, JobRecord
<1>4. \A answer, status :
          AddsNoLabel(job, [job EXCEPT !.training_decision = answer,
                                       !.training_reviewed_at = None,
                                       !.training_review_note = None,
                                       !.status = status])
  BY DEF AddsNoLabel, JobRecord
<1>5. \A note : AddsNoLabel(job, Reviewed(job, note))
  BY DEF AddsNoLabel, Reviewed, JobRecord
<1>6. AddsNoLabel(job, Reopened(job))
  BY DEF AddsNoLabel, Reopened, JobRecord
<1>7. \A title : AddsNoLabel(job, Retitled(job, title))
  BY DEF AddsNoLabel, Retitled, JobRecord
<1>8. \A pending, id :
          AddsNoLabel(job, [job EXCEPT !.recommendation_pending = pending,
                                       !.recommendation_request_id = id])
  BY DEF AddsNoLabel, JobRecord
<1>9. \A guidance, pending, status :
          AddsNoLabel(job, [job EXCEPT !.recommendation = guidance,
                                       !.recommendation_pending = pending,
                                       !.training_reviewed_at = None,
                                       !.training_review_note = None,
                                       !.status = status])
  BY DEF AddsNoLabel, JobRecord
<1>10. \A pending, status :
           AddsNoLabel(job, [job EXCEPT !.recommendation_pending = pending,
                                        !.status = status])
  BY DEF AddsNoLabel, JobRecord
<1>11. AddsNoLabel(job, job)
  BY DEF AddsNoLabel
<1>12. \A archived : AddsNoLabel(job, [job EXCEPT !.archived_at = archived])
  BY DEF AddsNoLabel, JobRecord
<1>13. QED
  BY <1>1, <1>2, <1>3, <1>4, <1>5, <1>6, <1>7, <1>8, <1>9, <1>10, <1>11, <1>12
     DEF Decided, Requested, Recommended, Uncorrected, RecommendationFailed, Recovered

-----------------------------------------------------------------------------
(***************************************************************************)
(* Steps                                                                   *)
(***************************************************************************)

\* A hand's record after the step carries no label the hand did not have.
NoNewLabel(j) == Exists(j)' => Exists(j) /\ AddsNoLabel(jobs[j], jobs'[j])

\* A step after which no hand carries a new label keeps the limit; a new hand
\* carries none.
LEMMA FewerLabels ==
    ASSUME CorpusOK, MaxDatasetCases \in Nat,
           \A j \in Jobs : \/ NoNewLabel(j)
                           \/ Exists(j)' /\ ~ jobs'[j].benchmark_included
    PROVE  CorpusOK'
<1>1. /\ IncludedJobs' \subseteq IncludedJobs
      /\ \A j \in IncludedJobs' : jobs'[j].approved_state # None
  BY DEF IncludedJobs, NoNewLabel, AddsNoLabel, CorpusOK
<1>2. /\ IsFiniteSet(IncludedJobs')
      /\ Cardinality(IncludedJobs') <= Cardinality(IncludedJobs)
      /\ Cardinality(IncludedJobs') \in Nat
      /\ Cardinality(IncludedJobs) \in Nat
  BY <1>1, FS_Subset, FS_CardinalityType DEF CorpusOK
<1>3. QED
  BY <1>1, <1>2 DEF CorpusOK

\* A record of a hand that is stored before the step.
LEMMA SavedHand ==
    ASSUME Coherent, NEW j \in Jobs, Exists(j), NEW job,
           AddsNoLabel(jobs[j], job), jobs' = [jobs EXCEPT ![j] = job]
    PROVE  \A k \in Jobs : NoNewLabel(k)
<1>1. \A k \in Jobs : jobs'[k] = IF k = j THEN job ELSE jobs[k]
  BY DEF Coherent, TypeOK
<1>2. QED
  BY <1>1 DEF NoNewLabel, AddsNoLabel, Exists

\* Selection counts the labels under the corpus lock before it adds one.
LEMMA SelectionKeepsLimit ==
    ASSUME Coherent, CorpusOK, NEW j \in Jobs, NEW included \in BOOLEAN,
           SetBenchmarkInclusion(j, included)
    PROVE  CorpusOK'
<1> DEFINE new == [jobs[j] EXCEPT !.benchmark_included = included]
<1>1. /\ Exists(j)
      /\ jobs[j] \in JobRecord
      /\ jobs' = [jobs EXCEPT ![j] = new]
  BY DEF SetBenchmarkInclusion, Edit, Coherent, RecordsOK, RecordOK
<1>2. new.benchmark_included = included /\ new.approved_state = jobs[j].approved_state
  BY <1>1 DEF JobRecord
<1>3. MaxDatasetCases \in Nat
  BY MaxDatasetCasesAssumption
<1>4. CASE included => jobs[j].benchmark_included
  <2>1. AddsNoLabel(jobs[j], new)
    BY <1>2, <1>4 DEF AddsNoLabel
  <2>2. QED
    BY <1>1, <1>3, <2>1, SavedHand, FewerLabels
<1>5. CASE included /\ ~ jobs[j].benchmark_included
  <2> DEFINE more == IncludedJobs \cup {j}
  <2>1. /\ Cardinality(IncludedJobs) < MaxDatasetCases
        /\ jobs[j].approved_state # None
    BY <1>5 DEF SetBenchmarkInclusion
  <2>2. /\ IncludedJobs' \subseteq more
        /\ \A k \in IncludedJobs' : jobs'[k].approved_state # None
    <3>1. \A k \in Jobs : jobs'[k] = IF k = j THEN new ELSE jobs[k]
      BY <1>1 DEF Coherent, TypeOK
    <3>2. QED
      BY <1>2, <2>1, <3>1 DEF IncludedJobs, Exists, CorpusOK
  <2>3. IsFiniteSet(more) /\ Cardinality(more) <= MaxDatasetCases
    <3>1. IsFiniteSet(IncludedJobs) /\ Cardinality(IncludedJobs) \in Nat
      BY FS_CardinalityType DEF CorpusOK
    <3>2. /\ IsFiniteSet(more)
          /\ Cardinality(more) = IF j \in IncludedJobs THEN Cardinality(IncludedJobs)
                                ELSE Cardinality(IncludedJobs) + 1
      BY <3>1, FS_AddElement
    <3>3. QED
      BY <1>3, <2>1, <3>1, <3>2
  <2>4. /\ IsFiniteSet(IncludedJobs')
        /\ Cardinality(IncludedJobs') <= MaxDatasetCases
    <3>1. /\ IsFiniteSet(IncludedJobs')
          /\ Cardinality(IncludedJobs') <= Cardinality(more)
      BY <2>2, <2>3, FS_Subset
    <3>2. Cardinality(IncludedJobs') \in Nat /\ Cardinality(more) \in Nat
      BY <2>3, <3>1, FS_CardinalityType
    <3>3. QED
      BY <1>3, <2>3, <3>1, <3>2
  <2>5. QED
    BY <2>2, <2>4 DEF CorpusOK
<1>6. QED
  BY <1>4, <1>5

\* No other user edit adds a label.
LEMMA UserEditKeepsLimit ==
    ASSUME Coherent, CorpusOK, NEW j \in Jobs, UserEdit(j)
    PROVE  CorpusOK'
<1>1. Exists(j)
  BY DEF UserEdit, Approve, RecordDecision, CompleteReview, ReopenReview,
         UpdateMetadata, SetBenchmarkInclusion, Delete
<1>2. jobs[j] \in JobRecord /\ MaxDatasetCases \in Nat
  BY <1>1, MaxDatasetCasesAssumption DEF Coherent, RecordsOK, RecordOK
<1>3. ASSUME NEW job, Edit(j, job), AddsNoLabel(jobs[j], job)
      PROVE  CorpusOK'
  BY <1>1, <1>2, <1>3, SavedHand, FewerLabels DEF Edit
<1>4. ASSUME NEW state \in States, Approve(j, state)
      PROVE  CorpusOK'
  BY <1>2, <1>3, <1>4, OperatorsAddNoLabel DEF Approve
<1>5. ASSUME NEW line \in Decisions, RecordDecision(j, line)
      PROVE  CorpusOK'
  BY <1>2, <1>3, <1>5, OperatorsAddNoLabel DEF RecordDecision
<1>6. CASE CompleteReview(j)
  BY <1>2, <1>3, <1>6, OperatorsAddNoLabel DEF CompleteReview
<1>7. CASE ReopenReview(j)
  BY <1>2, <1>3, <1>7, OperatorsAddNoLabel DEF ReopenReview
<1>8. ASSUME NEW title \in Option(Titles), UpdateMetadata(j, title)
      PROVE  CorpusOK'
  BY <1>2, <1>3, <1>8, OperatorsAddNoLabel DEF UpdateMetadata
<1>9. CASE Delete(j)
  <2>1. \A k \in Jobs : jobs'[k] = IF k = j THEN None ELSE jobs[k]
    BY <1>9 DEF Delete, Edit, Coherent, TypeOK
  <2>2. \A k \in Jobs : NoNewLabel(k)
    BY <2>1 DEF NoNewLabel, AddsNoLabel, Exists
  <2>3. QED
    BY <1>2, <2>2, FewerLabels
<1>10. QED
  BY <1>4, <1>5, <1>6, <1>7, <1>8, <1>9, SelectionKeepsLimit DEF UserEdit

\* Uploads, solver threads, archivals and restarts add no label.
LEMMA OtherStepsKeepLimit ==
    ASSUME Coherent, CorpusOK,
           \/ \E j \in Jobs : CreateJob(j) \/ UploadStep(j)
           \/ \E batch \in (SUBSET Jobs) \ {{}} : Archive(batch)
           \/ \E s \in Solvers, j \in Jobs, id \in Option(RequestIds) :
                  StartRecommendation(s, j, id)
           \/ \E s \in Solvers : SolverStep(s)
           \/ Restart
    PROVE  CorpusOK'
<1>1. /\ MaxDatasetCases \in Nat
      /\ \A j \in Jobs : Exists(j) => jobs[j] \in JobRecord
  BY MaxDatasetCasesAssumption DEF Coherent, RecordsOK, RecordOK
<1>2. ASSUME jobs' = jobs
      PROVE  CorpusOK'
  BY <1>2 DEF CorpusOK, IncludedJobs, Exists
<1>3. ASSUME NEW j \in Jobs, Exists(j), NEW job,
             AddsNoLabel(jobs[j], job), jobs' = [jobs EXCEPT ![j] = job]
      PROVE  CorpusOK'
  BY <1>1, <1>3, SavedHand, FewerLabels
<1>4. ASSUME NEW j \in Jobs, CreateJob(j)
      PROVE  CorpusOK'
  <2>1. \A k \in Jobs : jobs'[k] = IF k = j THEN Uploaded ELSE jobs[k]
    BY <1>4 DEF CreateJob, Coherent, TypeOK
  <2>2. Uploaded # None /\ ~ Uploaded.benchmark_included
    BY UploadedOK, RecordIsNotNone DEF Uploaded
  <2>3. \A k \in Jobs : \/ NoNewLabel(k)
                        \/ Exists(k)' /\ ~ jobs'[k].benchmark_included
    BY <2>1, <2>2 DEF NoNewLabel, AddsNoLabel, Exists
  <2>4. QED
    BY <1>1, <2>3, FewerLabels
<1>5. ASSUME NEW j \in Jobs, NEW job, FinishParser(j, job),
             Exists(j) => AddsNoLabel(jobs[j], job)
      PROVE  CorpusOK'
  BY <1>2, <1>3, <1>5 DEF FinishParser
<1>6. ASSUME NEW j \in Jobs, UploadStep(j)
      PROVE  CorpusOK'
  <2>1. CASE StartParser(j)
    BY <1>2, <2>1 DEF StartParser
  <2>2. CASE ParserFails(j)
    BY <1>1, <1>5, <2>2, OperatorsAddNoLabel DEF ParserFails
  <2>3. CASE ParserSucceeds(j)
    BY <1>1, <1>5, <2>3, OperatorsAddNoLabel DEF ParserSucceeds
  <2>4. QED
    BY <1>6, <2>1, <2>2, <2>3 DEF UploadStep
<1>7. ASSUME NEW batch \in SUBSET Jobs, Archive(batch)
      PROVE  CorpusOK'
  <2>1. \A k \in Jobs : jobs'[k] = IF k \in batch
                                   THEN [jobs[k] EXCEPT !.archived_at = TRUE]
                                   ELSE jobs[k]
    BY <1>7 DEF Archive
  <2>2. \A k \in batch : Exists(k)
    BY <1>7 DEF Archive
  <2>3. \A k \in batch : AddsNoLabel(jobs[k], [jobs[k] EXCEPT !.archived_at = TRUE])
    BY <1>1, <2>2, OperatorsAddNoLabel
  <2>4. \A k \in Jobs : NoNewLabel(k)
    BY <2>1, <2>2, <2>3 DEF NoNewLabel, AddsNoLabel, Exists
  <2>5. QED
    BY <1>1, <2>4, FewerLabels
<1>8. ASSUME NEW s \in Solvers, NEW j \in Jobs, NEW id \in Option(RequestIds),
             StartRecommendation(s, j, id)
      PROVE  CorpusOK'
  BY <1>1, <1>3, <1>8, OperatorsAddNoLabel DEF StartRecommendation
<1>9. ASSUME NEW s \in Solvers, SolverStep(s)
      PROVE  CorpusOK'
  <2>1. CASE AbandonRecommendation(s)
    BY <1>2, <2>1 DEF AbandonRecommendation
  <2>2. ASSUME NEW job, FinishRecommendation(s, job),
               AddsNoLabel(jobs[run[s].job], job)
        PROVE  CorpusOK'
    <3>1. run[s].job \in Jobs /\ Exists(run[s].job)
      BY <2>2 DEF FinishRecommendation, HasTarget, IsCurrentTarget, Exists,
                  Coherent, TypeOK, Option, Attempts
    <3>2. QED
      BY <1>3, <2>2, <3>1 DEF FinishRecommendation
  <2>3. ASSUME ~ AbandonRecommendation(s)
        PROVE  jobs[run[s].job] \in JobRecord
    BY <1>1, <1>9, <2>3
       DEF SolverStep, ProviderAnswers, ProviderRejectsInput, ProviderFails,
           FinishRecommendation, HasTarget, IsCurrentTarget, Exists,
           Coherent, TypeOK, Option, Attempts
  <2>4. QED
    BY <1>9, <2>1, <2>2, <2>3, OperatorsAddNoLabel
       DEF SolverStep, ProviderAnswers, ProviderRejectsInput, ProviderFails
<1>10. CASE Restart
  <2>1. \A k \in Jobs : jobs'[k] = IF Exists(k) THEN Recovered(jobs[k]) ELSE None
    BY <1>10 DEF Restart
  <2>2. \A k \in Jobs : Exists(k) => AddsNoLabel(jobs[k], Recovered(jobs[k]))
    BY <1>1, OperatorsAddNoLabel
  <2>3. \A k \in Jobs : NoNewLabel(k)
    BY <2>1, <2>2 DEF NoNewLabel, Exists
  <2>4. QED
    BY <1>1, <2>3, FewerLabels
<1>11. QED
  BY <1>4, <1>6, <1>7, <1>8, <1>9, <1>10

-----------------------------------------------------------------------------
(***************************************************************************)
(* The limit                                                               *)
(***************************************************************************)

\* The corpus starts empty.
LEMMA InitCorpus == Init => CorpusOK
<1> SUFFICES ASSUME Init
             PROVE  CorpusOK
  OBVIOUS
<1>1. IncludedJobs = {}
  BY DEF Init, IncludedJobs, Exists
<1>2. QED
  BY <1>1, FS_EmptySet, MaxDatasetCasesAssumption DEF CorpusOK

\* Every step keeps the limit.
LEMMA NextCorpus == Coherent /\ CorpusOK /\ [Next]_vars => CorpusOK'
<1> SUFFICES ASSUME Coherent, CorpusOK, [Next]_vars
             PROVE  CorpusOK'
  OBVIOUS
<1>1. CASE UNCHANGED vars
  BY <1>1 DEF vars, CorpusOK, IncludedJobs, Exists
<1>2. CASE Next
  BY <1>2, UserEditKeepsLimit, OtherStepsKeepLimit DEF Next
<1>3. QED
  BY <1>1, <1>2

\* The corpus never grows beyond what its own export and import accept, and
\* holds approved hands only (set_benchmark_inclusion).
THEOREM CorpusStaysExportable == Spec => []CorpusIsExportable
<1>1. Spec => []CorpusOK
  BY InitCorpus, NextCorpus, CoherentAlways, PTL DEF Spec
<1>2. CorpusOK => CorpusIsExportable
  BY DEF CorpusOK, CorpusIsExportable
<1>3. QED
  BY <1>1, <1>2, PTL

-----------------------------------------------------------------------------
(***************************************************************************)
(* The refinement of TrainingHand, under the mapping Hands.                *)
(***************************************************************************)

\* The hand a learner sees in a stored record.
Shown(job) ==
    Promise!Open(job.approved_state, job.training_decision,
                 job.recommendation, job.training_review_note)

\* Two records that show the same hand.
SameHand(old, new) ==
    /\ new.approved_state = old.approved_state
    /\ new.training_decision = old.training_decision
    /\ new.recommendation = old.recommendation
    /\ new.training_review_note = old.training_review_note

-----------------------------------------------------------------------------
(***************************************************************************)
(* What the operators on records do to the hand that is shown              *)
(***************************************************************************)

\* Records with the same hand are shown alike.
LEMMA SameHandShown ==
    ASSUME NEW old, NEW new, SameHand(old, new)
    PROVE  Shown(new) = Shown(old)
BY DEF SameHand, Shown

\* Saves that a learner does not see.
LEMMA UnseenSaves ==
    ASSUME NEW job \in JobRecord
    PROVE  /\ SameHand(job, ParserFailed(job))
           /\ \A title : SameHand(job, Retitled(job, title))
           /\ SameHand(job, Reopened(job))
           /\ \A id : SameHand(job, Requested(job, id))
           /\ SameHand(job, Uncorrected(job))
           /\ SameHand(job, RecommendationFailed(job))
           /\ SameHand(job, Recovered(job))
           /\ \A included : SameHand(job, [job EXCEPT !.benchmark_included = included])
           /\ \A archived : SameHand(job, [job EXCEPT !.archived_at = archived])
<1>1. SameHand(job, ParserFailed(job))
  BY DEF SameHand, ParserFailed, JobRecord
<1>2. \A title : SameHand(job, Retitled(job, title))
  BY DEF SameHand, Retitled, JobRecord
<1>3. SameHand(job, Reopened(job))
  BY DEF SameHand, Reopened, JobRecord
<1>4. \A pending, id : SameHand(job, [job EXCEPT !.recommendation_pending = pending,
                                                 !.recommendation_request_id = id])
  BY DEF SameHand, JobRecord
<1>5. \A pending, status : SameHand(job, [job EXCEPT !.recommendation_pending = pending,
                                                     !.status = status])
  BY DEF SameHand, JobRecord
<1>6. \A included : SameHand(job, [job EXCEPT !.benchmark_included = included])
  BY DEF SameHand, JobRecord
<1>7. \A archived : SameHand(job, [job EXCEPT !.archived_at = archived])
  BY DEF SameHand, JobRecord
<1>8. SameHand(job, job)
  BY DEF SameHand
<1>9. QED
  BY <1>1, <1>2, <1>3, <1>4, <1>5, <1>6, <1>7, <1>8
     DEF Requested, Uncorrected, RecommendationFailed, Recovered

\* Saves that a learner sees.
LEMMA SeenSaves ==
    ASSUME NEW job \in JobRecord
    PROVE  /\ \A state : Shown(Approved(job, state))
                             = Promise!Open(state, None, None, None)
           /\ \A line : Shown(Decided(job, line))
                            = Promise!Open(job.approved_state,
                                           [line |-> line, state |-> job.approved_state],
                                           job.recommendation, None)
           /\ \A state, verdict : Shown(Recommended(job, state, verdict))
                                      = Promise!Open(job.approved_state,
                                            job.training_decision,
                                            [verdict |-> verdict, state |-> state], None)
           /\ \A note : Shown(Reviewed(job, note))
                            = Promise!Open(job.approved_state, job.training_decision,
                                           job.recommendation, note)
<1>1. ASSUME NEW state
      PROVE  Shown(Approved(job, state)) = Promise!Open(state, None, None, None)
  BY DEF Shown, Approved, JobRecord
<1>2. ASSUME NEW line
      PROVE  Shown(Decided(job, line))
                 = Promise!Open(job.approved_state,
                                [line |-> line, state |-> job.approved_state],
                                job.recommendation, None)
  <2>1. \A answer, status :
            LET new == [job EXCEPT !.training_decision = answer,
                                   !.training_reviewed_at = None,
                                   !.training_review_note = None,
                                   !.status = status]
            IN  /\ new.approved_state = job.approved_state
                /\ new.training_decision = answer
                /\ new.recommendation = job.recommendation
                /\ new.training_review_note = None
    BY DEF JobRecord
  <2>2. QED
    BY <2>1 DEF Shown, Decided
<1>3. ASSUME NEW state, NEW verdict
      PROVE  Shown(Recommended(job, state, verdict))
                 = Promise!Open(job.approved_state, job.training_decision,
                                [verdict |-> verdict, state |-> state], None)
  <2>1. \A guidance, pending, status :
            LET new == [job EXCEPT !.recommendation = guidance,
                                   !.recommendation_pending = pending,
                                   !.training_reviewed_at = None,
                                   !.training_review_note = None,
                                   !.status = status]
            IN  /\ new.approved_state = job.approved_state
                /\ new.training_decision = job.training_decision
                /\ new.recommendation = guidance
                /\ new.training_review_note = None
    BY DEF JobRecord
  <2>2. QED
    BY <2>1 DEF Shown, Recommended
<1>4. ASSUME NEW note
      PROVE  Shown(Reviewed(job, note))
                 = Promise!Open(job.approved_state, job.training_decision,
                                job.recommendation, note)
  BY DEF Shown, Reviewed, JobRecord
<1>5. QED
  BY <1>1, <1>2, <1>3, <1>4

\* A parser outcome leaves the hand as it is or approves a hand that had no
\* approved state, and therefore nothing built on one.
LEMMA ParsedShown ==
    ASSUME NEW job, RecordOK(job), NEW detected \in States, NEW clean \in BOOLEAN
    PROVE  \/ SameHand(job, Parsed(job, detected, clean))
           \/ Shown(Parsed(job, detected, clean)) = Promise!Open(detected, None, None, None)
<1>1. job \in JobRecord
  BY DEF RecordOK
<1>2. CASE job.approved_state # None \/ ~ (AutoApprove /\ clean)
  BY <1>1, <1>2 DEF Parsed, SameHand, JobRecord
<1>3. CASE job.approved_state = None /\ AutoApprove /\ clean
  <2>1. /\ job.training_decision = None
        /\ job.recommendation = None
        /\ job.training_review_note = None
    BY <1>1, <1>3, NoneIsNoValue
       DEF RecordOK, IsCurrentComparison, JobRecord, Option, Answers, Guidance,
           Comparison, Comparisons
  <2>2. LET new == Parsed(job, detected, clean) IN
        /\ new.approved_state = detected
        /\ new.training_decision = job.training_decision
        /\ new.recommendation = job.recommendation
        /\ new.training_review_note = job.training_review_note
    BY <1>1, <1>3 DEF Parsed, JobRecord
  <2>3. QED
    BY <2>1, <2>2 DEF Shown
<1>4. QED
  BY <1>2, <1>3

-----------------------------------------------------------------------------
(***************************************************************************)
(* What a save of one hand does to the hands that are shown                *)
(***************************************************************************)

\* A stored hand is shown as its record says.
LEMMA StoredIsShown ==
    ASSUME Coherent, NEW j \in Jobs, Exists(j)
    PROVE  /\ Hands[j] = Shown(jobs[j])
           /\ RecordOK(jobs[j])
           /\ jobs[j] \in JobRecord
           /\ upload[j] # "unused"
BY DEF Hands, HandOf, Shown, Promise!Open, Coherent, RecordsOK, RecordOK, UploadsOK

\* Saving a record for one stored hand changes what is shown of that hand.
LEMMA SaveShown ==
    ASSUME Coherent, NEW j \in Jobs, NEW job, job # None,
           jobs' = [jobs EXCEPT ![j] = job],
           \A k \in Jobs : k # j => upload'[k] = upload[k]
    PROVE  Promise!Become(j, Shown(job))
<1>1. \A k \in Jobs : jobs'[k] = IF k = j THEN job ELSE jobs[k]
  BY DEF Coherent, TypeOK
<1>2. \A k \in Jobs : k # j => HandOf(k)' = HandOf(k)
  BY <1>1 DEF HandOf, Exists
<1>3. HandOf(j)' = Shown(job)
  BY <1>1 DEF HandOf, Exists, Shown, Promise!Open
<1>4. QED
  BY <1>2, <1>3 DEF Hands, Promise!Become

\* Steps that save nothing, and use no upload, are not seen.
LEMMA NothingSaved ==
    ASSUME jobs' = jobs,
           \A k \in Jobs : upload'[k] = "unused" <=> upload[k] = "unused"
    PROVE  Hands' = Hands
<1>1. \A k \in Jobs : HandOf(k)' = HandOf(k)
  BY DEF HandOf, Exists
<1>2. QED
  BY <1>1 DEF Hands

\* A save whose record is shown as before is not seen.
LEMMA UnseenSave ==
    ASSUME Coherent, NEW j \in Jobs, Exists(j), NEW job, job # None,
           SameHand(jobs[j], job),
           jobs' = [jobs EXCEPT ![j] = job],
           \A k \in Jobs : k # j => upload'[k] = upload[k]
    PROVE  Hands' = Hands
<1>1. Shown(job) = Hands[j]
  BY StoredIsShown, SameHandShown
<1>2. Promise!Become(j, Shown(job))
  BY SaveShown
<1>3. QED
  BY <1>1, <1>2 DEF Promise!Become, Hands

-----------------------------------------------------------------------------
(***************************************************************************)
(* Steps                                                                   *)
(***************************************************************************)

\* A step of the promise for one hand, or no step.
Kept == [Promise!Next]_Hands

\* Uploading opens a hand; the parser leaves it or approves it.
LEMMA UploadSimulated ==
    ASSUME Coherent, NEW j \in Jobs, CreateJob(j) \/ UploadStep(j)
    PROVE  Kept
<1>1. /\ jobs \in [Jobs -> Option(JobRecord)]
      /\ upload \in [Jobs -> UploadStage]
  BY DEF Coherent, TypeOK
<1>2. CASE CreateJob(j)
  <2>1. Hands[j] = Promise!Unborn
    BY <1>2 DEF CreateJob, Hands, HandOf, Promise!Unborn, Coherent, UploadsOK
  <2>2. Uploaded # None /\ Shown(Uploaded) = Promise!Open(None, None, None, None)
    BY UploadedOK, RecordIsNotNone DEF Shown, Uploaded
  <2>3. Promise!Become(j, Shown(Uploaded))
    BY <1>1, <1>2, <2>2, SaveShown DEF CreateJob
  <2>4. QED
    BY <2>1, <2>2, <2>3 DEF Kept, Promise!Next, Promise!OpenHand
<1>3. CASE StartParser(j)
  BY <1>1, <1>3, NothingSaved DEF StartParser, Kept
<1>4. ASSUME NEW job, FinishParser(j, job), ~ Exists(j)
      PROVE  Kept
  BY <1>1, <1>4, NothingSaved DEF FinishParser, Kept
<1>5. ASSUME NEW job, FinishParser(j, job), Exists(j), RecordOK(job)
      PROVE  /\ job # None
             /\ jobs' = [jobs EXCEPT ![j] = job]
             /\ \A k \in Jobs : k # j => upload'[k] = upload[k]
  BY <1>1, <1>5, RecordIsNotNone DEF FinishParser
<1>6. CASE ParserFails(j) /\ Exists(j)
  <2>1. RecordOK(ParserFailed(jobs[j])) /\ SameHand(jobs[j], ParserFailed(jobs[j]))
    BY <1>6, StoredIsShown, ParserFailedOK, UnseenSaves
  <2>2. QED
    BY <1>5, <1>6, <2>1, UnseenSave DEF ParserFails, Kept
<1>7. ASSUME NEW detected \in States, NEW clean \in BOOLEAN, Exists(j),
             FinishParser(j, Parsed(jobs[j], detected, clean))
      PROVE  Kept
  <2> DEFINE new == Parsed(jobs[j], detected, clean)
  <2>1. RecordOK(jobs[j]) /\ RecordOK(new)
    BY <1>7, StoredIsShown, ParsedOK
  <2>2. CASE SameHand(jobs[j], new)
    BY <1>5, <1>7, <2>1, <2>2, UnseenSave DEF Kept
  <2>3. CASE Shown(new) = Promise!Open(detected, None, None, None)
    <3>1. Promise!Become(j, Promise!Open(detected, None, None, None))
      BY <1>5, <1>7, <2>1, <2>3, SaveShown
    <3>2. Hands[j].stage = "open"
      BY <1>7 DEF Hands, HandOf
    <3>3. QED
      BY <3>1, <3>2 DEF Kept, Promise!Next, Promise!ApproveState
  <2>4. QED
    BY <2>1, <2>2, <2>3, ParsedShown
<1>8. QED
  BY <1>2, <1>3, <1>4, <1>6, <1>7 DEF UploadStep, ParserSucceeds, ParserFails

\* Each user edit is one operation of the promise, or concerns nothing a
\* learner sees of the hand.
LEMMA UserEditSimulated ==
    ASSUME Coherent, NEW j \in Jobs, UserEdit(j)
    PROVE  Kept
<1>1. /\ Exists(j)
      /\ \E job : Edit(j, job)
  BY DEF UserEdit, Approve, RecordDecision, CompleteReview, ReopenReview,
         UpdateMetadata, SetBenchmarkInclusion, Delete
<1>2. /\ Hands[j] = Shown(jobs[j])
      /\ RecordOK(jobs[j])
      /\ jobs[j] \in JobRecord
      /\ upload[j] # "unused"
  BY <1>1, StoredIsShown
<1>3. /\ Hands[j].stage = "open"
      /\ Hands[j].state = jobs[j].approved_state
      /\ Hands[j].answer = jobs[j].training_decision
      /\ Hands[j].guidance = jobs[j].recommendation
      /\ Hands[j].lesson = jobs[j].training_review_note
  BY <1>2 DEF Shown, Promise!Open
<1>4. ASSUME NEW job, Edit(j, job), RecordOK(job), SameHand(jobs[j], job)
      PROVE  Kept
  BY <1>1, <1>4, UnseenSave, RecordIsNotNone DEF Edit, Kept
<1>5. ASSUME NEW job, Edit(j, job), RecordOK(job)
      PROVE  Promise!Become(j, Shown(job))
  BY <1>5, SaveShown, RecordIsNotNone DEF Edit
<1>6. ASSUME NEW state \in States, Approve(j, state)
      PROVE  Kept
  <2>1. Promise!Become(j, Promise!Open(state, None, None, None))
    BY <1>2, <1>5, <1>6, ApprovedOK, SeenSaves DEF Approve
  <2>2. QED
    BY <1>3, <2>1 DEF Kept, Promise!Next, Promise!ApproveState
<1>7. ASSUME NEW line \in Decisions, RecordDecision(j, line)
      PROVE  Kept
  <2>1. Promise!Become(j, Promise!Open(jobs[j].approved_state,
                              [line |-> line, state |-> jobs[j].approved_state],
                              jobs[j].recommendation, None))
    BY <1>2, <1>5, <1>7, DecidedOK, SeenSaves DEF RecordDecision
  <2>2. QED
    BY <1>3, <1>7, <2>1 DEF RecordDecision, Kept, Promise!Next, Promise!LockAnswer
<1>8. CASE CompleteReview(j)
  <2>1. PICK note \in {jobs[j].training_review_note, Comparison(jobs[j]), None} :
            Edit(j, Reviewed(jobs[j], note))
    BY <1>8 DEF CompleteReview
  <2>2. IsReviewable(jobs[j])
    BY <1>8 DEF CompleteReview
  <2>3. Promise!Become(j, Promise!Open(jobs[j].approved_state,
                              jobs[j].training_decision, jobs[j].recommendation, note))
    BY <1>2, <1>5, <2>1, <2>2, ReviewedOK, SeenSaves
  <2>4. note \in {None, Comparison(jobs[j])}
    BY <1>2 DEF RecordOK, IsCurrentComparison
  <2>5. QED
    BY <1>3, <2>2, <2>3, <2>4
       DEF IsReviewable, Comparison, Kept, Promise!Next, Promise!WriteLesson
<1>9. CASE ReopenReview(j)
  BY <1>2, <1>4, <1>9, ReviewedOK, UnseenSaves DEF ReopenReview
<1>10. ASSUME NEW title \in Option(Titles), UpdateMetadata(j, title)
       PROVE  Kept
  BY <1>2, <1>4, <1>10, FlagsOK, UnseenSaves DEF UpdateMetadata
<1>11. ASSUME NEW included \in BOOLEAN, SetBenchmarkInclusion(j, included)
       PROVE  Kept
  <2> DEFINE new == [jobs[j] EXCEPT !.benchmark_included = included]
  <2>1. Edit(j, new)
    BY <1>11 DEF SetBenchmarkInclusion
  <2>2. RecordOK(new)
    BY <1>2, FlagsOK, NoneIsNoValue DEF Option
  <2>3. SameHand(jobs[j], new)
    BY <1>2, UnseenSaves
  <2>4. QED
    BY <1>4, <2>1, <2>2, <2>3
<1>12. CASE Delete(j)
  <2>1. \A k \in Jobs : jobs'[k] = IF k = j THEN None ELSE jobs[k]
    BY <1>12 DEF Delete, Edit, Coherent, TypeOK
  <2>2. upload' = upload
    BY <1>12 DEF Delete, Edit
  <2>3. \A k \in Jobs : k # j => HandOf(k)' = HandOf(k)
    BY <2>1, <2>2 DEF HandOf, Exists
  <2>4. HandOf(j)' = Promise!Gone
    BY <1>2, <2>1, <2>2 DEF HandOf, Exists, Promise!Gone, Promise!Unborn
  <2>5. Promise!Become(j, Promise!Gone)
    BY <2>3, <2>4 DEF Hands, Promise!Become
  <2>6. QED
    BY <1>3, <2>5 DEF Kept, Promise!Next, Promise!DeleteHand
<1>13. QED
  BY <1>6, <1>7, <1>8, <1>9, <1>10, <1>11, <1>12 DEF UserEdit

\* Starting an attempt, and each of its ends but the answer, is not seen.
LEMMA SolverSimulated ==
    ASSUME Coherent, NEW s \in Solvers,
           \/ \E j \in Jobs, id \in Option(RequestIds) : StartRecommendation(s, j, id)
           \/ SolverStep(s)
    PROVE  Kept
<1>1. ASSUME NEW j \in Jobs, Exists(j), NEW job, RecordOK(job),
             jobs' = [jobs EXCEPT ![j] = job], upload' = upload
      PROVE  /\ Promise!Become(j, Shown(job))
             /\ SameHand(jobs[j], job) => Kept
  BY <1>1, SaveShown, UnseenSave, RecordIsNotNone DEF Kept
<1>2. ASSUME NEW j \in Jobs, NEW id \in Option(RequestIds),
             StartRecommendation(s, j, id)
      PROVE  Kept
  BY <1>1, <1>2, StoredIsShown, RequestedOK, UnseenSaves DEF StartRecommendation
<1>3. CASE AbandonRecommendation(s)
  BY <1>3, NothingSaved DEF AbandonRecommendation, Kept
<1>4. ASSUME NEW job, FinishRecommendation(s, job)
      PROVE  /\ run[s].job \in Jobs
             /\ Exists(run[s].job)
             /\ jobs[run[s].job].approved_state = run[s].state
             /\ run[s].state \in States
             /\ jobs' = [jobs EXCEPT ![run[s].job] = job]
             /\ upload' = upload
  BY <1>4 DEF FinishRecommendation, HasTarget, IsCurrentTarget, Exists,
              Coherent, TypeOK, Option, Attempts
<1>5. CASE ProviderRejectsInput(s) \/ ProviderFails(s)
  <2> DEFINE j == run[s].job
  <2>1. /\ j \in Jobs /\ Exists(j) /\ upload' = upload
        /\ RecordOK(jobs[j]) /\ jobs[j] \in JobRecord
        /\ jobs[j].approved_state # None
    BY <1>4, <1>5, StoredIsShown, NoneIsNoValue
       DEF ProviderRejectsInput, ProviderFails
  <2>2. \/ jobs' = [jobs EXCEPT ![j] = Uncorrected(jobs[j])]
        \/ jobs' = [jobs EXCEPT ![j] = RecommendationFailed(jobs[j])]
    BY <1>4, <1>5 DEF ProviderRejectsInput, ProviderFails
  <2>3. /\ RecordOK(Uncorrected(jobs[j])) /\ RecordOK(RecommendationFailed(jobs[j]))
        /\ SameHand(jobs[j], Uncorrected(jobs[j]))
        /\ SameHand(jobs[j], RecommendationFailed(jobs[j]))
    BY <2>1, EndsOK, UnseenSaves
  <2>4. QED
    BY <1>1, <2>1, <2>2, <2>3
<1>6. ASSUME NEW verdict \in Verdicts,
             FinishRecommendation(s, Recommended(jobs[run[s].job], run[s].state, verdict))
      PROVE  Kept
  <2> DEFINE j == run[s].job
             new == Recommended(jobs[j], run[s].state, verdict)
  <2>1. /\ j \in Jobs /\ Exists(j) /\ upload' = upload
        /\ jobs' = [jobs EXCEPT ![j] = new]
        /\ jobs[j].approved_state = run[s].state
        /\ jobs[j].approved_state # None
        /\ jobs[j] \in JobRecord
        /\ RecordOK(new)
    BY <1>4, <1>6, StoredIsShown, RecommendedOK, NoneIsNoValue
  <2>2. Promise!Become(j, Promise!Open(jobs[j].approved_state,
                jobs[j].training_decision,
                [verdict |-> verdict, state |-> jobs[j].approved_state], None))
    BY <1>1, <2>1, SeenSaves
  <2>3. /\ Hands[j].state = jobs[j].approved_state
        /\ Hands[j].answer = jobs[j].training_decision
    BY <2>1 DEF Hands, HandOf
  <2>4. QED
    BY <2>1, <2>2, <2>3 DEF Kept, Promise!Next, Promise!Reveal
<1>7. QED
  BY <1>2, <1>3, <1>5, <1>6 DEF SolverStep, ProviderAnswers

\* Archival and startup recovery save several hands and are not seen.
LEMMA BatchSimulated ==
    ASSUME Coherent,
           \/ \E batch \in (SUBSET Jobs) \ {{}} : Archive(batch)
           \/ Restart
    PROVE  Kept
<1>1. ASSUME \A j \in Jobs : Exists(j)' <=> Exists(j),
             \A j \in Jobs : Exists(j) => SameHand(jobs[j], jobs'[j]),
             \A j \in Jobs : upload'[j] = "unused" <=> upload[j] = "unused"
      PROVE  Kept
  <2>1. \A j \in Jobs : HandOf(j)' = HandOf(j)
    BY <1>1 DEF HandOf, SameHand
  <2>2. QED
    BY <2>1 DEF Hands, Kept
<1>2. \A j \in Jobs : Exists(j) => jobs[j] \in JobRecord
  BY StoredIsShown
<1>3. \A job : SameHand(job, job)
  BY DEF SameHand
<1>4. ASSUME NEW batch \in SUBSET Jobs, Archive(batch)
      PROVE  Kept
  <2>1. Coherent'
    BY <1>4, ArchiveCoherent
  <2>2. \A j \in Jobs : jobs'[j] = IF j \in batch
                                   THEN [jobs[j] EXCEPT !.archived_at = TRUE]
                                   ELSE jobs[j]
    BY <1>4 DEF Archive
  <2>3. \A j \in Jobs : Exists(j) => SameHand(jobs[j], jobs'[j])
    <3>1. \A j \in Jobs : Exists(j) =>
              SameHand(jobs[j], [jobs[j] EXCEPT !.archived_at = TRUE])
      BY <1>2, UnseenSaves
    <3>2. QED
      BY <1>3, <2>2, <3>1
  <2>4. \A j \in Jobs : Exists(j)' <=> Exists(j)
    <3>1. \A j \in batch : Exists(j) /\ RecordOK(jobs[j]) /\ IsHistoryReady(jobs[j])
      BY <1>4, StoredIsShown DEF Archive
    <3>2. \A j \in batch : [jobs[j] EXCEPT !.archived_at = TRUE] # None
      BY <3>1, ArchivedOK, RecordIsNotNone
    <3>3. QED
      BY <2>2, <3>1, <3>2 DEF Exists
  <2>5. QED
    BY <1>1, <1>4, <2>3, <2>4 DEF Archive
<1>5. CASE Restart
  <2>1. \A j \in Jobs : jobs'[j] = IF Exists(j) THEN Recovered(jobs[j]) ELSE None
    BY <1>5 DEF Restart
  <2>2. \A j \in Jobs : Exists(j) => Recovered(jobs[j]) # None
    BY StoredIsShown, EndsOK, RecordIsNotNone
  <2>3. \A j \in Jobs : Exists(j)' <=> Exists(j)
    BY <2>1, <2>2 DEF Exists
  <2>4. \A j \in Jobs : Exists(j) => SameHand(jobs[j], jobs'[j])
    BY <1>2, <2>1, UnseenSaves
  <2>5. \A j \in Jobs : upload'[j] = "unused" <=> upload[j] = "unused"
    BY <1>5 DEF Restart
  <2>6. QED
    BY <1>1, <2>3, <2>4, <2>5
<1>6. QED
  BY <1>4, <1>5

-----------------------------------------------------------------------------
(***************************************************************************)
(* The refinement                                                          *)
(***************************************************************************)

\* Each step from a coherent store is a step of the promise.
LEMMA StepSimulated == Coherent /\ [Next]_vars => [Promise!Next]_Hands
<1> SUFFICES ASSUME Coherent, [Next]_vars
             PROVE  Kept
  BY DEF Kept
<1>1. CASE UNCHANGED vars
  BY <1>1, NothingSaved DEF vars, Kept
<1>2. CASE Next
  BY <1>2, UploadSimulated, UserEditSimulated, SolverSimulated, BatchSimulated
     DEF Next
<1>3. QED
  BY <1>1, <1>2

\* Initially no hand is born.
LEMMA InitSimulated == Init => Promise!Init
BY DEF Init, Promise!Init, Promise!Unborn, Hands, HandOf, Exists

\* Parsing and solving outside the job's lock, deletion, archival and restarts
\* look to a learner as if each operation on a hand were one indivisible step.
THEOREM HandsKeepTheirPromise == Spec => ImplementsTrainingHand
BY InitSimulated, StepSimulated, CoherentAlways, PTL
   DEF Spec, ImplementsTrainingHand, Promise!Spec
=============================================================================
