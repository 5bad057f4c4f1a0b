------------------------------- MODULE DataLocks -------------------------------
(***************************************************************************)
(* The locks of the backend and who waits for whom.                        *)
(*                                                                         *)
(* A request passes up to four gates.  The middleware takes the shared     *)
(* side of the data lock, an flock, for every request that may change      *)
(* data; the export handler takes the exclusive side.  A thread of the     *)
(* event loop's executor blocks in flock meanwhile.  The handler then runs *)
(* in a thread of another pool, and there takes in-process locks: the      *)
(* backup lock, the import lock, the corpus lock, the stripes of the hands *)
(* it works on, and the history lock.  Each of the pools can be exhausted  *)
(* by threads that wait.                                                   *)
(*                                                                         *)
(* The backup command and the startup of another process share the data    *)
(* lock but nothing else.  A request that is cancelled while it waits for  *)
(* the data lock leaves its executor thread behind.                        *)
(***************************************************************************)
EXTENDS Naturals, FiniteSets, Sequences, SequencesExt

CONSTANTS
    Requests,  \* requests, and runs of the backup command and of startup
    Kinds,     \* the handlers they may be for
    Jobs,      \* hands
    Stripes,   \* JOB_LOCK_STRIPES, the numbers of the job locks
    StripeOf,  \* job_lock_index: hash(job_id) % JOB_LOCK_STRIPES
    Workers,   \* threads of the event loop's executor
    Tokens     \* threads of the pool that runs handlers

AllKinds ==
    {"upload", "edit", "recommend", "include", "delete", "archive",
     "import", "import_journaled", "import_poll", "benchmark", "restore",
     "backup", "list", "get", "export_dataset", "cli_backup", "startup"}

ASSUME LocksAssumption ==
    /\ Kinds \subseteq AllKinds
    /\ IsFiniteSet(Stripes) /\ Stripes \subseteq Nat
    /\ StripeOf \in [Jobs -> Stripes]
    /\ Workers \in Nat \ {0}
    /\ Tokens \in Nat \ {0}

VARIABLES
    request,    \* what the request is for
    stage,      \* the gate it is at
    cancelled,  \* requests cancelled while they waited for the data lock
    flock,      \* the side of the data lock its descriptor holds
    todo,       \* the sections it has still to run, as sequences of locks
    held        \* how many locks of the current section it holds

vars == <<request, stage, cancelled, flock, todo, held>>

-----------------------------------------------------------------------------
(***************************************************************************)
(* What a request takes                                                    *)
(***************************************************************************)

\* A run of the backup command or the startup of another process.
OwnProcess == {"cli_backup", "startup"}

\* Snapshots of all data.
Exporting == {"backup", "cli_backup"}

\* Mutant: a polled receipt is a GET, and may resume an import nevertheless.
SideForMethod(kind) ==
    IF kind \in Exporting THEN "exclusive"
    ELSE IF kind \in {"list", "get", "export_dataset", "import_poll"} THEN "none"
    ELSE "shared"

\* DataMutationLockMiddleware: by method, and by path for the one GET that
\* changes data.  Exports take their side in the handler.
Side(kind) ==
    IF kind \in Exporting THEN "exclusive"
    ELSE IF kind \in {"list", "get", "export_dataset"} THEN "none"
    ELSE "shared"

Lock(name) == <<name, 0>>

JobLock(i) == <<"job", i>>

\* Mutant: one lock per hand that is named.  Two hands can share a stripe.
LocksPerHand(js) ==
    LET hands == SetToSeq(js) IN
    [n \in 1 .. Len(hands) |-> JobLock(StripeOf[hands[n]])]

\* sorted() of a set of numbers.
Sorted(numbers) ==
    CHOOSE s \in [1 .. Cardinality(numbers) -> numbers] :
        \A m, n \in DOMAIN s : m < n => s[m] < s[n]

\* Mutant: a batch takes the lock of one of its hands.
FirstJobLock(js) ==
    LET indexes == Sorted({StripeOf[j] : j \in js}) IN
    [n \in {1} \cap DOMAIN indexes |-> JobLock(indexes[n])]

\* The stripes of a set of hands, each once, in ascending order.
JobLocks(js) ==
    LET indexes == Sorted({StripeOf[j] : j \in js}) IN
    [n \in DOMAIN indexes |-> JobLock(indexes[n])]

AllJobLocks ==
    LET indexes == Sorted(Stripes) IN
    [n \in DOMAIN indexes |-> JobLock(indexes[n])]

\* save_job takes the history lock for an archived hand.
Saving(locks) == {locks, Append(locks, Lock("history"))}

\* Mutant: hands vanish or change while they are listed.
BatchBesideLists(js) == JobLocks(js)

\* Archival, deletion and import change what the lists show.
Batch(js) == JobLocks(js) \o <<Lock("history")>>

\* Mutant: the corpus is counted without its lock.
CorpusUnlocked(locks) == locks

\* Whatever adds hands to the corpus or takes them away, or needs it to keep them.
WithCorpus(locks) == <<Lock("corpus")>> \o locks

Everything ==
    <<Lock("backup"), Lock("import")>>
        \o WithCorpus(AllJobLocks \o <<Lock("history")>>)

\* The sections a handler may go through, each with its locks in the order
\* they are taken.  Parsers and providers run between two sections.
PlansOf(js) ==
    LET uploading(last) == << <<Lock("backup")>>, JobLocks(js), last>>
        once(sections) == {<<section>> : section \in sections}
        corpusBatch == WithCorpus(Batch(js))
        journaled == <<Lock("import")>> \o corpusBatch
    IN  [upload             |-> {uploading(last) : last \in Saving(JobLocks(js))},
         edit               |-> once(Saving(JobLocks(js))),
         recommend          |-> {<<section, section>> : section \in Saving(JobLocks(js))},
         include            |-> once(Saving(WithCorpus(JobLocks(js)))),
         archive            |-> once({Batch(js)}),
         delete             |-> once({corpusBatch}),
         import             |-> once({corpusBatch}),
         import_journaled   |-> once({journaled}),
         import_poll        |-> once({journaled}),
         benchmark          |-> once({WithCorpus(<<>>)}),
         export_dataset     |-> once({WithCorpus(<<>>)}),
         restore            |-> once({Everything}),
         backup             |-> once({Everything}),
         list               |-> once({<<Lock("history")>>}),
         get                |-> once({JobLocks(js)}),
         cli_backup         |-> once({<<>>}),
         startup            |-> once({<<>>})]

Plans(kind, js) == PlansOf(js)[kind]

\* A handler names one hand, except for batches; some name none.
Named(kind) ==
    IF kind \in {"archive", "import", "import_journaled", "import_poll"}
    THEN (SUBSET Jobs) \ {{}}
    ELSE IF kind \in {"upload", "edit", "recommend", "include", "delete", "get"}
    THEN {{j} : j \in Jobs}
    ELSE {{}}

CallsOf(kind, js) ==
    {[kind |-> kind, jobs |-> js, plan |-> plan] : plan \in Plans(kind, js)}

Calls == UNION {UNION {CallsOf(kind, js) : js \in Named(kind)} : kind \in Kinds}

-----------------------------------------------------------------------------
(***************************************************************************)
(* The data lock                                                           *)
(***************************************************************************)

GoTo(r, gate) == stage' = [stage EXCEPT ![r] = gate]

\* A request without a side of the data lock waits for a handler thread; the
\* others wait for the data lock, in a thread of the executor or, in a
\* process of their own, directly.
FirstGate(kind) ==
    IF Side(kind) = "none" THEN "admitted"
    ELSE IF kind \in OwnProcess THEN "blocked"
    ELSE "submitted"

\* A request that comes later is one whose first step comes late.
Init ==
    /\ request \in [Requests -> Calls]
    /\ stage = [r \in Requests |-> FirstGate(request[r].kind)]
    /\ cancelled = {}
    /\ flock = [r \in Requests |-> "none"]
    /\ todo = [r \in Requests |-> request[r].plan]
    /\ held = [r \in Requests |-> 0]

InServer(r) == request[r].kind \notin OwnProcess

\* asyncio.to_thread: an executor thread takes the call and blocks in flock.
EnterFlock(r) ==
    /\ stage[r] = "submitted"
    /\ Cardinality({s \in Requests : stage[s] = "blocked" /\ InServer(s)}) < Workers
    /\ GoTo(r, "blocked")
    /\ UNCHANGED <<request, cancelled, flock, todo, held>>

\* Any number of shared holders, or one exclusive one, within and across
\* processes: every acquisition opens a descriptor of its own.
Grantable(side) ==
    \A s \in Requests :
        \/ flock[s] = "none"
        \/ flock[s] = "shared" /\ side = "shared"

\* The thread returns with the descriptor; the event loop has not seen it yet.
GetFlock(r) ==
    /\ stage[r] = "blocked"
    /\ Grantable(Side(request[r].kind))
    /\ flock' = [flock EXCEPT ![r] = Side(request[r].kind)]
    /\ GoTo(r, "granted")
    /\ UNCHANGED <<request, cancelled, todo, held>>

\* The client, or the shutdown of its task, gives up before the event loop
\* has seen the descriptor; shield keeps the acquisition going.  Once the
\* handler's thread runs, a cancellation waits for its end.
Cancel(r) ==
    /\ stage[r] \in {"submitted", "blocked", "granted"}
    /\ InServer(r)
    /\ r \notin cancelled
    /\ cancelled' = cancelled \cup {r}
    /\ UNCHANGED <<request, stage, flock, todo, held>>

\* Mutant: nobody observes the result of a cancelled acquisition.
ForgetOrphan(r) ==
    /\ stage[r] = "granted"
    /\ r \in cancelled
    /\ GoTo(r, "ended")
    /\ UNCHANGED <<request, cancelled, flock, todo, held>>

\* _release_cancelled_acquisition.
ReleaseOrphan(r) ==
    /\ stage[r] = "granted"
    /\ r \in cancelled
    /\ flock' = [flock EXCEPT ![r] = "none"]
    /\ GoTo(r, "ended")
    /\ UNCHANGED <<request, cancelled, todo, held>>

\* The event loop resumes the request with its descriptor.
Admit(r) ==
    /\ stage[r] = "granted"
    /\ r \notin cancelled
    /\ GoTo(r, "admitted")
    /\ UNCHANGED <<request, cancelled, flock, todo, held>>

-----------------------------------------------------------------------------
(***************************************************************************)
(* The handler                                                             *)
(***************************************************************************)

\* A handler, from its start to its end: also while it waits, and between its
\* sections.
InHandler(r) == stage[r] \in {"running", "inside"}

StartHandler(r) ==
    /\ stage[r] = "admitted"
    /\ InServer(r) => Cardinality({s \in Requests : InHandler(s) /\ InServer(s)}) < Tokens
    /\ GoTo(r, "running")
    /\ UNCHANGED <<request, cancelled, flock, todo, held>>

HeldLocks(r) ==
    IF todo[r] = <<>> THEN {} ELSE {Head(todo[r])[n] : n \in 1 .. held[r]}

\* Nobody holds the lock, not even the thread itself: Lock is not reentrant.
Free(lock) == \A s \in Requests : lock \notin HeldLocks(s)

TakeLock(r) ==
    /\ stage[r] = "running"
    /\ todo[r] # <<>>
    /\ held[r] < Len(Head(todo[r]))
    /\ Free(Head(todo[r])[held[r] + 1])
    /\ held' = [held EXCEPT ![r] = @ + 1]
    /\ UNCHANGED <<request, stage, cancelled, flock, todo>>

\* With all locks of the section the handler reads or writes its files ...
BeginSection(r) ==
    /\ stage[r] = "running"
    /\ todo[r] # <<>>
    /\ held[r] = Len(Head(todo[r]))
    /\ GoTo(r, "inside")
    /\ UNCHANGED <<request, cancelled, flock, todo, held>>

\* ... and leaves all of them.  A refused request ends after its section.
EndSection(r) ==
    /\ stage[r] = "inside"
    /\ \E rest \in {Tail(todo[r]), <<>>} : todo' = [todo EXCEPT ![r] = rest]
    /\ held' = [held EXCEPT ![r] = 0]
    /\ GoTo(r, "running")
    /\ UNCHANGED <<request, cancelled, flock>>

\* The handler's thread has ended, background work included, and the
\* middleware releases the data lock.
Finish(r) ==
    /\ stage[r] = "running"
    /\ todo[r] = <<>>
    /\ flock' = [flock EXCEPT ![r] = "none"]
    /\ GoTo(r, "ended")
    /\ UNCHANGED <<request, cancelled, todo, held>>

\* Whatever a request does to come to its end.
Work(r) ==
    \/ EnterFlock(r) \/ GetFlock(r) \/ ReleaseOrphan(r) \/ Admit(r)
    \/ StartHandler(r)
    \/ TakeLock(r) \/ BeginSection(r) \/ EndSection(r) \/ Finish(r)

AllEnded == \A r \in Requests : stage[r] = "ended"

Next == \E r \in Requests : Work(r) \/ Cancel(r)

Spec == Init /\ [][Next]_vars

-----------------------------------------------------------------------------
(***************************************************************************)
(* Properties                                                              *)
(***************************************************************************)

Stages ==
    {"submitted", "blocked", "granted", "admitted", "running",
     "inside", "ended"}

Sides == {"none", "shared", "exclusive"}

IsFor(r, kinds) == request[r].kind \in kinds

Changing ==
    {"upload", "edit", "recommend", "include", "delete", "archive", "import",
     "import_journaled", "import_poll", "benchmark", "restore", "startup"}

\* "API mutations hold a shared data-volume lock across the full request,
\* including background work": while a browser or CLI export reads, in this
\* process or another, no request that changes data is anywhere between its
\* start and its end, and no other export runs.
ExportsSeeWholeRequests ==
    \A r, s \in Requests :
        r # s /\ IsFor(r, Exporting) /\ InHandler(r) /\ InHandler(s)
            => ~ IsFor(s, Changing \cup Exporting)

\* The hands whose stored files a section may write.  The first section of an
\* upload and the completion of a restore create new ones.
Writes(r) ==
    IF stage[r] # "inside" THEN {}
    ELSE IF IsFor(r, {"restore"}) THEN Jobs
    ELSE IF IsFor(r, Changing) /\ ~ (IsFor(r, {"upload"}) /\ Len(todo[r]) = 3)
    THEN request[r].jobs
    ELSE {}

\* "Mutations for one job are serialized", also when one of them names several.
OneWriterPerHand ==
    \A r, s \in Requests : r # s => Writes(r) \cap Writes(s) = {}

\* The queue and history lists, which read hand after hand, see an archival,
\* an import, a deletion or a restore as a whole or not at all, although they
\* take no lock of any hand and not the data lock.
ListsSeeWholeBatches ==
    \A r, s \in Requests :
        stage[r] = "inside" /\ stage[s] = "inside" /\ IsFor(r, {"list"})
            => ~ IsFor(s, {"archive", "import", "import_journaled", "import_poll",
                           "delete", "restore"})

\* While the corpus is counted, exported or scored its membership stands still:
\* no selection, deletion, import or restore adds a hand or takes one away.  The
\* states of its hands are not fixed: an approval holds the stripe of its hand
\* only (approve_processing_job) and may relabel a selected hand meanwhile.
CorpusMembersAreStable ==
    \A r, s \in Requests :
        r # s /\ stage[r] = "inside" /\ stage[s] = "inside"
          /\ IsFor(r, {"include", "export_dataset", "benchmark"})
            => ~ IsFor(s, {"include", "delete", "import", "import_journaled",
                           "import_poll", "restore"})

\* What a request needs to go on: the guards of the disjuncts of Work.
CanGoOn(r) ==
    \/ /\ stage[r] = "submitted"
       /\ Cardinality({s \in Requests : stage[s] = "blocked" /\ InServer(s)}) < Workers
    \/ stage[r] = "blocked" /\ Grantable(Side(request[r].kind))
    \/ stage[r] = "granted"
    \/ /\ stage[r] = "admitted"
       /\ InServer(r) => Cardinality({s \in Requests : InHandler(s) /\ InServer(s)}) < Tokens
    \/ stage[r] = "running" /\ todo[r] = <<>>
    \/ stage[r] = "running" /\ todo[r] # <<>> /\ held[r] = Len(Head(todo[r]))
    \/ /\ stage[r] = "running" /\ todo[r] # <<>> /\ held[r] < Len(Head(todo[r]))
       /\ Free(Head(todo[r])[held[r] + 1])
    \/ stage[r] = "inside"

\* Nobody waits for ever: with finitely many requests some can always go on,
\* without any being cancelled, until all have ended, whatever the order of
\* locks, the stripes two hands share, the size of the pools and the
\* cancellations that happened.  That the guards hold means that Work is
\* possible.
NoStandstill ==
    /\ AllEnded \/ \E r \in Requests : CanGoOn(r)
    /\ \A r \in Requests : CanGoOn(r) => ENABLED Work(r)
=============================================================================
