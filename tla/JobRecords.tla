------------------------------ MODULE JobRecords ------------------------------
(***************************************************************************)
(* The processing-job record and what each request handler writes into it. *)
(*                                                                         *)
(* A handler of the backend takes the job's lock, loads the record from    *)
(* its JSON file, checks it, changes some fields and saves the file again. *)
(* The operators below are those changes, one per handler, as functions    *)
(* from the record that was loaded to the record that is saved; the state  *)
(* machines of this project decide when each one may run.                  *)
(*                                                                         *)
(* Data is kept only as far as the properties tell it apart.  A canonical  *)
(* poker state is a member of States and is always user-approved once it   *)
(* is stored.  A recommendation is a member of Verdicts together with the  *)
(* state it was computed for.  A lesson note, or a review timestamp, is    *)
(* the comparison that was on screen when it was written.  Title, notes    *)
(* and tags travel together as one title.  Error texts are left out: the   *)
(* status says that there is one.                                          *)
(***************************************************************************)
EXTENDS FiniteSets

CONSTANTS
    States,      \* canonical table states a user can approve
    Decisions,   \* lines a player can lock in before the reveal
    Verdicts,    \* lines a recommendation provider can return
    Misses,      \* the <<decision, verdict>> pairs graded neither match nor mixed
    RequestIds,  \* client-generated solver request identities
    ImportIds,   \* client-generated dataset-import identities
    Titles,      \* screenshot metadata a user can enter
    AutoApprove, \* parser_auto_approve_enabled of the deployment
    None         \* Python's None, and the content of a job file that is absent

Option(S) == S \cup {None}

Status == {"created", "parsed", "approved", "recommended", "error"}

Answers == [line: Decisions, state: States]

Guidance == [verdict: Verdicts, state: States]

Comparisons == [answer: Answers, guidance: Guidance]

JobRecord ==
    [status: Status,
     title: Option(Titles),
     parser_result: Option(States),
     approved_state: Option(States),
     training_decision: Option(Answers),
     recommendation: Option(Guidance),
     recommendation_pending: BOOLEAN,
     recommendation_request_id: Option(RequestIds),
     benchmark_import_request_id: Option(ImportIds),
     training_reviewed_at: Option(Comparisons),
     training_review_note: Option(Comparisons),
     benchmark_included: BOOLEAN,
     archived_at: BOOLEAN]

\* None is no value of any field and no job record.
ASSUME NoneIsNoValue ==
    None \notin States \cup RequestIds \cup ImportIds \cup Titles
                \cup Answers \cup Guidance \cup Comparisons \cup JobRecord

ASSUME MissesAssumption == Misses \subseteq Decisions \X Verdicts

ASSUME AutoApproveAssumption == AutoApprove \in BOOLEAN

-----------------------------------------------------------------------------
(***************************************************************************)
(* Upload and parsing                                                      *)
(***************************************************************************)

\* The record FileJobStore.create_job writes for a new upload.
Uploaded ==
    [status |-> "created",
     title |-> None,
     parser_result |-> None,
     approved_state |-> None,
     training_decision |-> None,
     recommendation |-> None,
     recommendation_pending |-> FALSE,
     recommendation_request_id |-> None,
     benchmark_import_request_id |-> None,
     training_reviewed_at |-> None,
     training_review_note |-> None,
     benchmark_included |-> FALSE,
     archived_at |-> FALSE]

\* Mutant: a late failure marks whatever hand it finds.
UnguardedParserFailed(job) == [job EXCEPT !.status = "error"]

\* save_parser_failure: a late failure leaves an approved hand alone.
ParserFailed(job) ==
    IF job.approved_state = None THEN [job EXCEPT !.status = "error"] ELSE job

\* Mutant: the result is saved into the copy that was loaded before parsing.
StaleParsed(job, detected, clean) ==
    [Uploaded EXCEPT !.status = "parsed", !.parser_result = detected]

\* A parser result is merged into the latest record.  Only a hand nobody has
\* approved yet changes status, and it is approved at once when the
\* deployment allows it and the result is confident and free of warnings.
Parsed(job, detected, clean) ==
    LET merged == [job EXCEPT !.parser_result = detected] IN
    IF job.approved_state # None THEN merged
    ELSE IF AutoApprove /\ clean
    THEN [merged EXCEPT !.status = "approved", !.approved_state = detected]
    ELSE [merged EXCEPT !.status = "parsed"]

-----------------------------------------------------------------------------
(***************************************************************************)
(* User edits                                                              *)
(***************************************************************************)

\* Mutant: a re-approval forgets to discard the locked answer.
ApprovedKeepingAnswer(job, state) ==
    [job EXCEPT !.approved_state = state,
                !.recommendation = None,
                !.status = "approved"]

\* approve_processing_job: a (re-)approval discards what was built on the
\* previous state.
Approved(job, state) ==
    [job EXCEPT !.approved_state = state,
                !.training_decision = None,
                !.recommendation = None,
                !.training_reviewed_at = None,
                !.training_review_note = None,
                !.status = "approved"]

\* record_processing_training_decision.
Decided(job, line) ==
    [job EXCEPT !.training_decision =
                    [line |-> line, state |-> job.approved_state],
                !.training_reviewed_at = None,
                !.training_review_note = None,
                !.status = "approved"]

Comparison(job) ==
    [answer |-> job.training_decision, guidance |-> job.recommendation]

\* A review needs a completed comparison that is not graded match or mixed.
IsReviewable(job) ==
    /\ job.training_decision # None
    /\ job.recommendation # None
    /\ <<job.training_decision.line, job.recommendation.verdict>> \in Misses

\* complete_training_review: the first review time is kept; a request body
\* replaces the note, possibly by no note.
Reviewed(job, note) ==
    [job EXCEPT !.training_reviewed_at =
                    IF @ = None THEN Comparison(job) ELSE @,
                !.training_review_note = note]

\* reopen_training_review keeps the note for editing.
Reopened(job) == [job EXCEPT !.training_reviewed_at = None]

\* update_processing_job_metadata.
Retitled(job, title) == [job EXCEPT !.title = title]

\* is_history_ready.
IsHistoryReady(job) ==
    \/ job.archived_at
    \/ /\ job.status # "error"
       /\ ~ job.recommendation_pending
       /\ \/ job.status \in {"approved", "recommended"}
          \/ job.approved_state # None
          \/ job.recommendation # None

-----------------------------------------------------------------------------
(***************************************************************************)
(* Recommendation attempts                                                 *)
(***************************************************************************)

\* recommend_processing_job, before the provider runs: the in-progress
\* marker and the caller's request identity are persisted.
Requested(job, id) ==
    [job EXCEPT !.recommendation_pending = TRUE,
                !.recommendation_request_id = id]

\* current_recommendation_target: may an attempt that was started for `state'
\* under the identity `id' still write to this record?
IsCurrentTarget(job, state, id) ==
    /\ job # None
    /\ job.approved_state = state
    /\ job.recommendation_request_id = id

\* The provider answered.
Recommended(job, state, verdict) ==
    [job EXCEPT !.recommendation = [verdict |-> verdict, state |-> state],
                !.recommendation_pending = FALSE,
                !.training_reviewed_at = None,
                !.training_review_note = None,
                !.status = "recommended"]

\* The state lacks a field the provider needs, or the provider rejects the
\* input: the hand stays approved and correctable.
Uncorrected(job) ==
    [job EXCEPT !.recommendation_pending = FALSE, !.status = "approved"]

\* Mutant: a failure leaves the in-progress marker behind.
FailedStillPending(job) == [job EXCEPT !.status = "error"]

\* Configuration, provider or unexpected failure.
RecommendationFailed(job) ==
    [job EXCEPT !.recommendation_pending = FALSE, !.status = "error"]

-----------------------------------------------------------------------------
(***************************************************************************)
(* Startup                                                                 *)
(***************************************************************************)

\* Mutant: startup looks for interrupted recommendations only.
RecoveredPendingOnly(job) ==
    IF job.recommendation_pending
    THEN [job EXCEPT !.recommendation_pending = FALSE, !.status = "error"]
    ELSE job

\* recover_interrupted_jobs: no parser or provider call survives a restart.
Recovered(job) ==
    IF job.status = "created" \/ job.recommendation_pending
    THEN [job EXCEPT !.recommendation_pending = FALSE, !.status = "error"]
    ELSE job

-----------------------------------------------------------------------------
(***************************************************************************)
(* What every stored record satisfies                                      *)
(***************************************************************************)

\* The locked answer and the recommendation were made for the state that is
\* approved now; review time and note are about exactly that pair.
IsCurrentComparison(job) ==
    /\ job.training_decision # None =>
           job.training_decision.state = job.approved_state
    /\ job.recommendation # None =>
           job.recommendation.state = job.approved_state
    /\ job.training_reviewed_at \in {None, Comparison(job)}
    /\ job.training_review_note \in {None, Comparison(job)}

\* The status, and being archived, agree with what the record holds.
IsFittingStatus(job) ==
    /\ job.status \in {"created", "parsed"} => job.approved_state = None
    /\ job.status \in {"approved", "recommended"} => job.approved_state # None
    /\ job.status = "recommended" => job.recommendation # None
    /\ job.archived_at => job.approved_state # None
=============================================================================
