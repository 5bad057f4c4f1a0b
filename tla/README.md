# A TLA+ model of Poker Hero

Poker Hero turns a screenshot of a poker table into a training hand: a parser
reads the table, a user corrects and approves what it read, answers the
decision, and a recommendation provider reveals its line for comparison. The
hands are JSON files on a disk, worked on by the threads of one FastAPI process
(`src/apps/backend/app`) for a browser client (`src/apps/frontend/src`) and for
agents (MCP).

This directory holds TLA+ modules of the parts that are hard to test, the TLC
configurations that check them on small instances, and TLAPS proofs about the
central ones. `PROJECT.json` is the index: which lines of the code every
definition stands for, which properties each run checks, a plausible bug for each
property that makes it fail, and the hazards the properties are for.

## Running it

    tlc -config JobHand.cfg       MCJobLifecycle.tla
    tlc -config CorpusImport.cfg  MCCorpusImport.tla
    tlc -config BackupSteady.cfg  MCBackupRestore.tla
    tlc -config BackupDeath.cfg   MCBackupRestore.tla
    tlc -config BackupReports.cfg MCBackupRestore.tla    # ends in a counterexample
    tlc -config BackupRepeat.cfg  MCBackupRestore.tla    # ends in a counterexample
    tlc -config Locks.cfg         MCDataLocks.tla
    tlc -config BackupRetention.cfg MCBackupRetention.tla
    tlc -config McpHttp.cfg       MCMcpHttp.tla
    tlc -config PokerHands.cfg    MCPokerStates.tla
    tlc -config PokerShort.cfg    MCPokerStates.tla      # ends in a counterexample
    tlc -config PokerTotals.cfg   MCPokerStates.tla      # ends in a counterexample
    tlapm JobLifecycleProofs.tla
    tlapm CorpusImportProofs.tla
    tlapm BackupRestoreProofs.tla
    tlapm BackupRetentionProofs.tla
    tlapm DataLocksProofs.tla
    tlapm McpHttpProofs.tla
    tlapm PokerTableProofs.tla
    tlapm PokerStatesProofs.tla

## Inventory

### Job record and request handlers (`bootstrap.py`, `models.py`)

*State.* One `JobRecord` per hand: status, parser result, approved state, locked
answer, recommendation, in-progress marker and request identity, review time and
lesson note, corpus label, import identity, archival time, title.
*Operations.* Upload and parse, approve, answer, recommend, complete or reopen a
review, edit metadata, select for the corpus, archive, delete, recover at startup.
*Interaction.* Each handler runs in a thread of its own and holds one of a fixed
number of lock stripes while it loads, changes and saves a record. The parser and
the recommendation provider run with the lock released, between two such sections.
*Hard.* A completion applied to a record that changed meanwhile; two attempts for
one hand; deletion while work is under way; six exits of the recommendation
handler that must all release the marker; a process that dies with work under way.
*Correct when* answer, recommendation, review time and note belong to the approved
state and to each other; the status agrees with the record; the in-progress
marker has exactly one living owner; completions lose no edit and recreate no
deleted hand; active work ends.

### File job store and benchmark store (`storage.py`)

*State.* `jobs/<id>/job.json` and image, `benchmarks/<id>.json` with summaries and
`latest.json`, `benchmarks/imports/<request>/` with archive and receipt.
*Operations.* create, get, list, save, restore, delete; begin, complete and fail
an import. Single files are replaced by an atomic rename; directories are not
written atomically, except on restore, which renames a temporary directory.
*Hard.* A death between two files; a scan that sees a temporary directory.
*Correct when* a hand is never readable without its screenshot unless an import is
going to repair it, and what a list shows can be opened.

### Parser corpus and dataset import (`benchmark_corpus.py`, `dataset_*.py`)

*State.* The corpus labels of the hands and the import journal.
*Operations.* Select and deselect, export, import with or without a journal,
resume a journaled import when a client polls its receipt, run a benchmark.
*Interaction.* A corpus lock around selection, import, export, benchmark and
deletion; an import lock around journaled imports; the locks of all hands of an
archive while it is written.
*Hard.* Death or a failing write between two hands, and users who edit the hands
before the import is resumed.
*Correct when* the corpus stays within the limit its own export accepts, an import
overwrites no label, completes only when everything is there, and ends.

### Application backup and restore (`application_backup.py`)

*State.* An archive of all hands and reports.
*Operations.* Export under every lock and the exclusive side of the data lock;
restore under every lock, adding what is missing and taking it back on failure.
*Hard.* A write that fails midway, a death midway, hands that conflict, reports
that mention deleted hands, unlocked readers during a restore.
*Correct when* an export is a snapshot, a restore happens at once or not at all and
never overwrites, and what was exported can be restored.

### Locks and middleware (`data_lock.py`, `DataMutationLockMiddleware`)

*State.* An flock on the data directory, shared by requests that
change data, exclusive for exports and the backup command; the in-process locks.
*Hard.* A request that is cancelled while it waits for flock; one lock order over
five kinds of locks; a new process that recovers jobs while an old one works.
*Correct when* nobody keeps a lock that no longer has an owner, no cycle of waits
exists, and exports never overlap with changes.

### Backup command and retention (`backup_cli.py`)

*State.* A directory of archives, and what of it has reached the disk; a lock file.
*Operations.* Creates the directory, checks, publishes and prunes archives.
*Hard.* Scheduled runs and retries overlap, as processes that share nothing but the
directory; a run can end between any two system calls, and a directory entry is
durable only after an fsync.
*Correct when* pruning never removes the archive just published nor more than the
retention says, and a death leaves no half-written archive under a final name.

### Rate limiter (`rate_limiting.py`)

*State.* A token bucket per client and category, in order of last use, in a table of
bounded size. *Operations.* One `check` per limited request: refill, discard inactive
buckets, throw away the one used longest ago when the table is full, grant or deny
with a Retry-After. *Hard.* Refill, cap and eviction together.
*Correct when* no client is granted more than its budget, but for what the bound on
memory costs, and a client that waits as long as it was told is let in.

### MCP principals and gateway (`mcp_access.py`, `mcp_http.py`, `mcp_gateway.py`)

*State.* Principals with scopes, expiry, a hashed token and the time of its last use,
in one file; the sliding windows of calls and the count of bodies being read, in
memory. *Operations.* Create, rotate, revoke; per call: authenticate, read the body,
take a place in the window, record the use, run the tool, which calls the API.
*Interaction.* The store's file lock; the event loop between awaits; the rate limiter
behind the tools.
*Hard.* A principal rotated, revoked or expired between authentication and use; a
time read before a lock is waited for; readers that must be given back at each exit.
*Correct when* no use of a withdrawn token is recorded or reaches the application,
limits hold for each principal, and no call keeps a reader.

### Preflop chart (`solvers/preflop_context.py`, `solvers/preflop_chart.py`)

*State.* None. *Operations.* From the fields of an approved state, some of them
unknown, find out which of its spots it is, or none; pick, widen and narrow the
policy for it; advise for a starting hand.
*Hard.* Fields that say the same thing in two ways and may be missing in any
combination; seats that act twice; short stacks, where a raise is all a seat has.
*Correct when* the spot it answers is the one that was played, and its advice is an
action the rules allow.

### Postflop ranges, wagers and routing (`solvers/`, `providers/local_solver.py`)

*State.* None. *Operations.* Choose ranges and stacks from the preflop record;
validate the record of each street; work out the opponents' wagers; name the fields
that are missing; choose the engine; estimate.
*Hard.* Nine preflop lines that differ by one action; relative positions where the
button is also a blind; all-ins for less than a raise; three modules that decide
independently what a state must tell.
*Correct when* ranges, stacks, positions and wagers are those of the hand, a true
record is accepted, and a state in which nothing is missing can be solved.

### Training, pipeline selection, parsers, providers, solver plugin

Pure functions of stored data or of one state (`training.py`, `pipeline.py`, other
`providers/`), image processing (`parsers/`) and a Rust program
(`solver-plugins/postflop`). Their outcome is a free choice in JobLifecycle.

### Browser workspace (`frontend/src/features/workspace`, `pages/analyzer`)

*State.* A local cache of the processing queue and mutation leases in session
storage that mark hands whose requests may still be under way.
*Operations.* Start, settle, expire and reconcile leases against the backend's
projection; reload. *Hard.* Lost responses, a reload with requests under way, two
tabs. *Correct when* an uncertain hand is never synchronised from a stale
projection and no lease keeps a hand locked for good.

Out of scope: rendering, the stateless edge worker, deployment scripts.

## Modules

| Module | Models |
| --- | --- |
| `JobRecords` | The record, and for each handler the function from the record it loads to the record it saves |
| `JobLifecycle` | The handlers as steps: who may run when, over records, uploads and solver threads |
| `TrainingHand` | Abstract: what a learner is promised about a hand |
| `JobLifecycleProofs` | TLAPS proofs: the invariants of `JobLifecycle`, what its steps never do, the corpus limit, and that it implements `TrainingHand` |
| `CorpusImport` | Dataset imports write by write, over the actions of `JobLifecycle` |
| `CorpusImportProofs` | TLAPS proofs: imports overwrite nothing, resume, and keep the corpus exportable |
| `BackupRestore` | The data directory file by file: create, delete, export, restore, deaths |
| `AtomicBackup` | Abstract: what a full backup promises |
| `BackupRestoreProofs` | TLAPS proofs: what restores keep although they may die, and that without deaths they implement `AtomicBackup` |
| `DataLocks` | The data lock, the in-process locks of every handler and the thread pools: who waits for whom |
| `DataLocksProofs` | TLAPS proofs: exports and changes exclude each other, so do the locked sections of one hand, lists and batches, and the readers of the corpus and what adds to it or takes away; nothing stands still |
| `BackupRetention` | The backup command's runs on one destination, their ends and losses of power |
| `BackupRetentionProofs` | TLAPS proofs: what a run reports is durable where the destination is, and what retention leaves |
| `SecondsClock` | The clock that limiters and principals are judged by |
| `TokenBuckets` | The API rate limiter |
| `McpPrincipals` | The credentials of hosted agents and their administration |
| `McpHttp` | A hosted call from its first byte to the API, over `McpPrincipals` and `TokenBuckets` |
| `McpHttpProofs` | TLAPS proofs: what a client of the limiter is granted, when it is let in again, the size of the table; readers, windows, tokens and the request limit of agents |
| `PreflopContext` | Which preflop spot an approved state describes |
| `PreflopChart` | The policies of the chart and the advice they give |
| `PostflopRanges` | The preflop line, the stacks and the ranges of a postflop solve |
| `SolverRouting` | Relative positions, records of a street, wagers, required fields, choice of the engine |
| `RangeEstimate` | What the range/EV estimate refuses, its sizes and its pots |
| `StateValidation` | The validators of an approved state's streets and wagers, and where one of them fails instead of answering |
| `PokerTable` | The game of poker: hands that approved states can be about |
| `PokerStates` | The states a reviewer may make of such a hand, and what the readers must find in them |
| `PokerTableProofs` | TLAPS proofs: what every hand that is played keeps to |
| `PokerStatesProofs` | TLAPS proofs: what the readers find in the states of such a hand |
| `MC...` | Constants of the instances that TLC checks |

### JobRecords and JobLifecycle

`jobs[j]` is `job.json` of hand `j` or `None`; `upload[j]` is how far the request
that creates it has got; `run[s]` is the snapshot (hand, state, request identity)
that solver thread `s` took before it released the lock. One action is one locked
section of a handler. It is one step because it holds the lock of the job and
because `save` publishes a record by an atomic rename. What the code does between
two sections is two actions with everything else possible in between:
`StartParser`/`ParserSucceeds`/`ParserFails` and
`StartRecommendation`/`ProviderAnswers`/`ProviderRejectsInput`/`ProviderFails`/
`AbandonRecommendation`. Refused requests (404, 409, 422) change nothing and are
not steps. `Restart` is the death of all threads followed by
`recover_interrupted_jobs`.

Data is kept as far as properties tell it apart. An answer or a recommendation
carries the state it was made for, and a review time or a note carries the
comparison it was written about, so that "is still about the current hand" is a
statement about the record; the code stores none of this, which is why it has to
clear fields instead. Grading is a relation `Misses` between answers and verdicts.

### CorpusImport

`journal[r]` is the receipt and archive of request `r`, `import` the import that is
running with the hands it still has to create, repair or select, `image[j]` whether
the screenshot is there. Creating a hand takes two writes, in the order of the
code: record before image for a journaled import, image before record (and a
second save of the label) for a direct one. A failing write leaves the receipt
pending, like a death. While `import` is set, its hands are locked and so is the
corpus; other hands can be uploaded and approved. `None` is no hand, receipt or import, and an
archive names finitely many hands. The parser and recommendations
are left out: they touch nothing an import looks at that an approval does not.

### BackupRestore

`dir[j]` is the directory of hand `j` (absent, or which of its two files exist),
`leftover` the `job.json` files in temporary directories of restores, which
`FileJobStore.list` finds like any other, `restore` the progress of a restore.
`updated_at`, drawn from the clock `saves`, tells records apart; of the rest of a
record only the corpus label and whether work is active matter here. Export is one
step, because it holds every lock and the exclusive data lock; a restore is a step
per directory and per report, because it can fail or die after each. `StartEmpty` is
the recovery on a fresh data volume that the deployment guide describes.

### DataLocks

A `request` names its handler, its hands and its plan: the sections it goes
through, each a sequence of locks in the order the handler takes them (`PlansOf`,
which stands for every `with` statement of `bootstrap.py`; `Sorted` is the ascending
order in which the stripes of several hands are locked). `stage[r]` is the gate
the request is at, `flock[r]` the side of the data lock its descriptor holds,
`held[r]` how many locks of its current section it has. A request that needs the
data lock waits for a thread of the event loop's executor (`submitted`), blocks in
flock there (`blocked`), returns with a descriptor the event loop has not seen
(`granted`) and then waits for a handler thread (`admitted`). It can be cancelled
until the event loop has seen the descriptor; `ReleaseOrphan` is the callback that
closes it then. The handler's thread runs to its end also when its client is gone.
The backup command and the startup of another process take part as requests that
need no thread of this process.

What a section does to the data is what the other modules model as one step. A
refused request leaves early, after a section (`EndSection`); leaving before all
locks are taken is the same with fewer locks. An archived hand is saved under the
history lock as well (`Saving`), so a plan is chosen with and without it.

### BackupRetention

Each run of `export` is a number, the place of its archive's name among all names:
the name is the time the run began, so it says nothing about the order in which runs
publish. `stage[e]` is how far `export_application_backup` has come after the archive
was built (which happens under the data lock, see `DataLocks`); `lock` is the holder
of the destination's lock file; `archives` are the final names in the directory,
`durable` those at its last fsync, `whole` the archives whose file was written, fsynced
and read back. `Fail` is a failing system call, an archive that does not parse, or a
kill: the directory stays as it is, the lock is released. `Outage` is a loss of power:
every entry added or removed since the last fsync is there or not (`AfterOutage`), and
a destination whose parent has not been fsynced may be gone. The properties quantify
over `AfterOutage` in every state, so they speak of power lost at any time, and `Outage`
lets later runs find what is left. Temporary files carry names nobody looks for.

### SecondsClock, TokenBuckets, McpPrincipals and McpHttp

`tokens[k]` and `updated[k]` are a bucket, counted in units of a 1/`Window` token so
that the refill of a second is a whole number; `before` is the order of the
`OrderedDict`. `Check` is the whole of `ApiRateLimiter.check`, which holds a thread
lock. Four observers count what a client was granted and was told since a moment
that `Observe` may move to any later one; `Observe` is part of `BucketSpec` only, so
the run counts from second 0 and the theorems speak of every interval.

`principals` is the file of the store; each operation under its file lock is a step.
`now` in a call or in `admin` is the time that was read before the lock was waited
for: expiry and last use are judged by it, as in the code. Tokens are numbers of
issue, since prefix and secret are fresh random strings; token 0 belongs to a record
of another environment that a copied data directory may hold. The environment check
of a principal of this process always succeeds and has no action.

A call's stages are the stretches between two awaits of `HostedMcpAuthMiddleware`:
`Arrive`, `Authenticate` (in a thread pool), `AbandonBody` or `FinishBody`,
`RecordUsage` (in the pool again), `RunTool`. Checks of host, origin and bearer
scheme read only the headers and are passed by every call of the model. The tools
that recommend reach the API under one client identity, `GatewayKey`; clients with the
same identity draw on the same bucket.

### PreflopContext to PokerStates: pure functions on true hands

The chart, the choice of ranges, the wagers and the routing read one record and
change nothing, so there is no protocol to model. What can go wrong is that they
read a different hand out of the fields than the one that was played. Tests fix
single states; here `PokerTable`, which is not part of the program, plays every hand
of a small game by the rules of no-limit hold'em, and `PokerStates` builds from each
decision the approved states that are true of it, with any of the optional fields
left unknown: the opener, its size, the stacks, the record of a street, the completed
streets, the opponents' wagers, a seat's name or its label. The properties compare
what the program concludes with what happened.

The readers are operators on that record, with the field names of the code. Money is
in hundredths of a big blind (the tolerance of 0.05 BB is 5), shares of the chart are
in ten-thousandths as the code rounds them; where a rounding has a tie the code's
floats decide it and the model rounds up, which changes no place in the ranking. Of
the free text `action_context` the model keeps what its four readers find in it; the
views leave it out. A validator answers yes or no, but for the one of the commitment
total, which can also end in a `TypeError` (`CommitmentTotalFails`): such a state is
neither accepted nor invalid, it cannot be stored. `hand_classes_in_policy_band` is kept as the band itself. The
order of the ranking and every policy of the chart are in the model.

## Runs

| Run | Instance | Shows |
| --- | --- | --- |
| `job_hand` | 1 hand, 2 solver threads, 2 states, 2 answers, 2 verdicts, requests with and without identity (24,518 states) | The record stays coherent, markers have one owner, completions keep edits, deleted hands stay deleted, active work ends, and `JobLifecycle` implements `TrainingHand` |
| `corpus_import` | 3 hands, limit 2, archives of 1 and 2 hands, 2 interruptions (144,413 states) | Imports never overwrite, resume, complete only when done, and end |
| `backup_steady` | 3 hands, 6 saves, no deaths (209,033 states) | Export and restore implement `AtomicBackup`, although a restore is many writes that may fail |
| `backup_death` | 3 hands, 5 saves, deaths everywhere (694,371 states) | No hand without screenshot, no hand overwritten by a restore, corpus limit |
| `backup_reports` | 2 hands | Counterexample: a backup that its own restore refuses |
| `backup_repeat` | 2 hands | Counterexample: an interrupted restore cannot be repeated |
| `locks` | Every pair of 17 kinds of requests, and 3 requests of the 7 kinds with several locks; 3 hands, 2 of them in one stripe, 2 handler threads, 1 flock thread (2,116,757 states) | Exports see whole requests and lists whole batches, the corpus has one set of hands while it is read, one writer per hand; no cycle of three, no exhausted pool and no abandoned request stops the server |
| `backup_retention` | 3 runs with `--retain` 1, 2 or none, an archive with an older and one with a newer name, a destination that exists or not, 1 loss of power (414,150 states) | In a destination that has been fsynced what is reported is durable; retention leaves neither too few archives nor too many |
| `mcp_http` | 3 calls, 1 principal, 2 tokens, 2 bucket keys, 4 requests in all, 4 seconds, tables of one entry (1,019,850 states) | Both limiters keep their bounds, readers are given back, no withdrawn token is used |
| `poker_hands` | A table of six of which four seats come in, with stacks of 12, 25 and 100 BB; a duel of 17 against 60; up to 3 preflop raises, flop and turn (18,181 states) | The chart, the ranges, the wagers, the validators and the routing read every true state as it was played |
| `poker_short` | Six stacks of 15 BB, flop | Counterexample: a choice of ranges that raises an error |
| `poker_totals` | The instance of `poker_hands` | Counterexample: a state is asked for a total that cannot be stored |

Bounds. Hands interact through the corpus limit, batches and archives that name several
of them; two hands, and three where an archive of two meets a third one, produce each
of these, and `corpus_import`, whose hands are selected, approved and deleted by the
steps of `JobLifecycle`, has three. Everything about one record is
independent of the other hands (a solver thread is started for its hand, and waits for
no other one), so `job_hand` has one hand and rich data instead:
two states, answers and verdicts make every stale value different from the current
one, and two threads allow a superseded attempt to meet the one that replaced it.
`MaxSaves` bounds how often records change, `MaxInterruptions` how often an import
is interrupted; both are enough for a change before, during and after the operation
that is checked. `MaxDatasetCases` (250 in the code) is 1 or 2, so that the limit is
reached. `CorpusImport` has no recommendations, because no action it checks reads them. Two requests show every conflict of two
lock orders; three, with fewer threads than requests, show longer cycles and pools
whose threads all wait. Three hands in two stripes give batches that share a stripe
with another request, with themselves, or not at all. The instance starts with three
requests of the kinds in `Crowd`, or with any two beside a third that has ended, which
is a state the module reaches. Hands and requests are
interchangeable (`SYMMETRY`): no property names one.

`mcp_http` has tables of one entry, so that two clients evict each other all the
time; the window is 3 seconds and the clock passes one of them, so that a window
empties and a bucket refills; a limit of 1 or 2 is reached by 3 calls; 2 tokens are a
token and the one that replaced it. One administration request is under way at a
time: the store's lock orders them anyway, and the last-use time of a call can still
be older than any of them.

`backup_retention`: three runs are a run, one that overlaps with it and one that finds
what both left; names in every order, different `--retain`, and an archive from the
future cover what `_prune_backups` distinguishes. A second loss of power meets a
directory that is as it is on disk, like the initial one.

`poker_hands` has raises to 2 and 3 times the wager or all in, so that the sizes the
chart knows, the ones it rejects and the short all-ins occur. Of the six seats utg and
cutoff never come in (104,323 states with all six, and nothing new: the code looks at
the order of the seats that act and at tables of shares). Three raises and four records
reach each of the nine postflop lines and each of the chart's spots except
`big_blind_option`, which no table gives, since the hand is over when everyone has
folded to the big blind. Stacks of 12, 25 and 100 BB are all in with different raises. A
turn after a flop gives the completed streets.

Left out: short all-in raises before the
flop, flops with more than two players, and bets that exceed what the opponent has
(which the game would return). A full raise is asked of advice only between two players,
since with more an all-in of a third may lie in between. A state of two players that
names neither by its seat is not among the views: the code takes it for a table of six,
and nothing in the record says otherwise. `WagersAreTrue` leaves out one kind of reraise (`ReusesOpen`): told by the size of the
open, with neither the history nor the wager, and asking of hero what that open would
have asked. "A later re-raise cannot reuse the initial opening
size", says `src/docs/decisions/0021-track-multiway-current-wager-commitments.md`, but a
3-bet to twice hero's open leaves as much to call as the open did, and then it is
reused. Where the amount to call tells the two apart the property does require that the
open is not reused. `AcceptedIsSolvable` is about stored states in which nothing is
missing (`WagerFields` are the ones of `WagersSent` that the validators let through),
not about whether what is missing can be told, which `CompletedIsAccepted` asks; and only for the states that are routed to the estimate: a
3-bet between 5.0 and 5.05 times the open passes the tolerance of the context but has no
policy in the chart.

Deadlock is checked in `JobLifecycle` and `CorpusImport`; the backup instances stop
when their clock does and the lock instances when all requests have ended, so their
configurations say `CHECK_DEADLOCK FALSE`, as do `McpHttp`, whose requests run out,
and the poker instances, whose hands end. In `DataLocks`, `NoStandstill` states
what TLC's check would not: until all have ended somebody can go on, without a
cancellation. Each of its steps brings a request nearer to its end, so this is also
why all requests end. The runs of `BackupRetention` end as well, so its
configuration says the same. That holds for finitely many requests: flock does not promise
that an export gets its turn under an endless stream of changes.

Fairness. `JobLifecycle`: weak fairness of each upload and of each solver thread.
Parsers and providers that call out have request timeouts, those that compute
terminate, and a thread waiting for a job's lock gets it since sections are short.
No user action is fair. `CorpusImport`: weak fairness of the running import and of
the poll, since the browser polls a pending receipt until it is terminal; without a
poll nothing resumes an import, also not startup. Interruptions are finite. The
safety properties hold without fairness.

`McpHttp`, `BackupRetention` and the poker modules do not state liveness: a call's exits are all
refusals or the tool's own end, a pure function has none, and a
run of the backup command waits only for a lock that the kernel releases.

### What the counterexamples are

* `ExportsParse`: a report outlives the hands it scored, and the archive parser
  refuses a report that mentions a hand the archive does not hold. After a scored
  hand is deleted, every backup is refused by restore; the backup command checks
  what it has written with the same parser and publishes nothing any more.
* `RestoreCanBeRepeated`: `FileJobStore.restore` fills its temporary directory
  inside `jobs/`, and `list` (`*/job.json` also matches directories with a leading
  dot) counts it as the hand itself. After a death before the rename nothing removes
  it: the hand is listed but cannot be opened, its source image is missing, and the
  same restore is refused from then on.

* `BandsAreValid`: `adjusted_four_bet_defense_policy` caps the share of hands that
  raises at the share that continues; with short stacks the two are equal, and the
  caller's range in a 4-bet pot is the band between them. `hand_classes_in_policy_band` refuses an
  empty band with a `ValueError` that no caller expects (an open to 2, a 3-bet to 4,
  a 4-bet to 12.8 and a call, with 15 BB each). The decision record on 4-bet pots
  promises the configured ranges for whatever cannot be derived.
* `CompletedIsAccepted`: `_validate_opponent_commitment_total` takes
  `max(state.current_bet or 0, *recorded_wagers)`. With neither a wager nor an amount
  on record this is `max` of one number, a `TypeError`. A `ValueError` would make the
  state invalid; a `TypeError` leaves the request as a server error. The routing asks
  for this very field alone when a limper and a raiser face hero and the reviewer tells
  the open by its size, without the history, and how many are at the wager. The
  fallback is "withheld until any commitment context that cannot be derived has been
  reviewed" (`src/docs/reference/architecture.md`), and the review cannot be stored,
  unless `opponent_wager`, for which nobody asked, is told with it.

Seen while modelling, without a run: `_raise_sizes` keeps the sizes above the call
first and caps them by the effective stack afterwards, so with a stack of no more
than the call the estimate weighs a raise that is smaller than the call; and it takes
an effective stack of 0 for one that is not known. A 3-bet to twice the open of a hero
without a blind, told without a history, is taken for the open (`ReusesOpen`).

Two more concern the backup command. `_ensure_backup_destination` fsyncs the parents of
the directories this run found missing. A run that finds a destination that another
one has just made, and not yet fsynced or been killed before, reports success although
a loss of power may take the directory and the archive with it;
`docs/specs/poker-hero-product-spec.md` asks that success fsyncs "any newly created
destination parent entries". `RetainedSurvive` and `ReportedIsDurable` except that
case, in which nothing is claimed, and so do the theorems about them: without `vanished`
and `destination` in their conditions TLC shows it in nine steps. And `--retain` goes by names: a run that began earlier but published later
removes a newer archive of another run (always one of an intact data volume), and a run
killed while it prunes leaves the oldest archives, since the newest go first.

## Proofs

Every safety property that the runs of the stateful modules check is proved, for all
sets of hands, threads, requests, runs, calls and so on and for every value of the
limits, except one half of `NoStandstill` (below) and the two that the code breaks;
`CorpusIsExportable` is run with imports, and proved with them and without:

| Theorem | States | Module |
| --- | --- | --- |
| `TypeCorrect` | `Spec => []TypeOK` | `JobLifecycleProofs` |
| `ComparisonsAreCurrent` | `Spec => []ComparisonIsCurrent` | |
| `StatusesFit` | `Spec => []StatusMatchesRecord` | |
| `MarkersAreOwned` | `Spec => []PendingHasOneOwner` | |
| `DeletedHandsStayDeleted` | `Spec => DeletedStaysDeleted` | |
| `CompletionsLoseNoEdit` | `Spec => CompletionsKeepUserEdits` | |
| `LateParsersKeepStatus` | `Spec => LateParserKeepsStatus` | |
| `CorpusStaysExportable` | `Spec => []CorpusIsExportable` | |
| `HandsKeepTheirPromise` | `Spec => ImplementsTrainingHand` | |
| `ImportTypeCorrect` | `Spec => []TypeOK` | `CorpusImportProofs` |
| `ImportsKeepCorpusExportable` | `Spec => []CorpusIsExportable` | |
| `ImportsOverwriteNothing` | `Spec => ImportNeverOverwrites` | |
| `CompletedImportsAreWhole` | `Spec => CompletedMeansImported` | |
| `InterruptedImportsResume` | `Spec => ResumedUnlessRelabelled` | |
| `BackupTypeCorrect` | `Spec => []TypeOK` | `BackupRestoreProofs` |
| `RestoresKeepCorpusLimit` | `Spec => []CorpusWithinLimit` | |
| `HandsAppearComplete` | `Spec => AppearsWithImage` | |
| `RestoresOverwriteNothing` | `Spec => RestoreNeverOverwrites` | |
| `RestoresAreAtomic` | `SteadySpec => ImplementsAtomicBackup` | |
| `ReportedArchiveIsDurable` | `Spec => []ReportedIsDurable` | `BackupRetentionProofs` |
| `RetainedArchivesSurvive` | `Spec => []RetainedSurvive` | |
| `ExportsExcludeChanges` | `Spec => []ExportsSeeWholeRequests` | `DataLocksProofs` |
| `WritersAreSerialized` | `Spec => []OneWriterPerHand` | |
| `ListsAreConsistent` | `Spec => []ListsSeeWholeBatches` | |
| `CorpusReadsSeeOneMembership` | `Spec => []CorpusMembersAreStable` | |
| `SomebodyCanGoOn` | `Spec => [](AllEnded \/ \E r \in Requests : CanGoOn(r))` | |
| `GrantsAreBounded` | `BucketSpec => []RateBound` | `McpHttpProofs` |
| `RetryAfterIsHonest` | `BucketSpec => []RetryIsHonest` | |
| `TableIsBounded` | `BucketSpec => []TableInv` | |
| `CallsTypeCorrect` | `Spec => []TypeOK` | |
| `AgentsAreLimited` | `Spec => []RateBound` and `[]RetryIsHonest` | |
| `WindowsAreBounded` | `Spec => []WindowBound` | |
| `ReadersAreReleased` | `Spec => []ReadersAccounted` | |
| `OnlyCurrentTokensAreUsed` | `Spec => []UseIsCurrent` | |
| `TableInvariant` | `Spec => []TableInv` | `PokerTableProofs` |
| `HandInvariant` | `Spec => [](TableInv /\ HandInv)` | |
| `ContextIsTheSpot` | `Spec => []ContextIsTrue` | `PokerStatesProofs` |
| `AcceptedIsAnswered` | `Spec => []AcceptedIsSolvable` | |
| `WagersAreToldTruly` | `Spec => []WagersAreTrue` | |
| `TrueWagersAreStored` | `Spec => []TrueWagersAreAccepted` | |
| `ChartAdviceIsLegal` | `TenBlinds` implies `Spec => []AdviceIsLegal` | |
| `TrueHistoriesAreAccepted` | `Spec => []TrueHistoryIsAccepted` | |
| `RangesAreTrue` | `Spec => []RangesFollowTheHand` | |

The assumptions are those of the modules: `None` differs from every value, and the
parameters have their types. Three ask for finiteness, because `Cardinality` says nothing
of infinite sets: lock stripes are finitely many, and so are the hands of one dataset
archive and the archives that a backup destination has at first. The sets of hands,
requests, calls and runs may be infinite; where their number matters, that only
finitely many take part so far is a part of the invariant.

### The job record

The first three follow from one inductive invariant, `Coherent`: `TypeOK`, every
stored record is coherent by itself (`RecordOK`: answer, guidance and review belong
to the approved state, the status fits), and a record that says it is being parsed
has a live upload. Coherence of a record is kept by each operator of `JobRecords`
(one lemma each, `...OK`), so each action needs only the fact that it saves the
result of one of them to one hand (`SaveCoherent`). `ComparisonIsCurrent` alone is
not inductive: a parser outcome may approve a hand that has no approved state, and
it is the type of answers and guidance (their state is never `None`) that says such
a hand has none to invalidate. `StatusMatchesRecord` needs the same types and,
for hands that are being parsed, the state of their upload.

`MarkersAreOwned` is a second invariant, `OwnersOK`, proved relative to `Coherent`.
It is inductive only as the full equivalence: that a marked hand has an owner needs
each end of an attempt to clear the marker; that there is at most one owner needs
`StartRecommendation` to refuse marked hands; and that the owner still has its
target needs `Approve` to refuse them as well. Deletion and restart are the two ways
an attempt loses its hand, which is why the invariant speaks of stored hands only.

The action properties rest on these invariants and on a shape lemma for each kind
of step (`UserEditShape`, `UploadStepShape`, `SolverStepShape`): which hand it may
save, and by which operator. That a deleted hand is never stored again needs that
the hand a solver thread saves exists, which the request-identity check of
`current_recommendation_target` gives. `LateParsersKeepStatus` needs `OwnersOK` as
well: a restart is a step that ends uploads, and it leaves an approved hand alone
only because, with no thread solving it, it is not marked.

`CorpusStaysExportable` uses its own invariant, the limit together with finiteness
of the set of labelled hands, since `Cardinality` says nothing of infinite sets and
no assumption makes `Jobs` finite. Only selection adds a label (`OperatorsAddNoLabel`).

`HandsKeepTheirPromise` is a step simulation under the mapping `Hands`. Each
operator of `JobRecords` either keeps the four fields a learner sees (`UnseenSaves`)
or changes them as one action of `TrainingHand` does (`SeenSaves`, `ParsedShown`);
coherence is what makes the guards agree: a lesson can only be written about the
comparison on the table, and automatic approval by a late parser starts a hand
that has nothing built on an earlier state. `TrainingHand` has no fairness, so the
theorem is about safety; what must happen eventually is in `ActiveWorkEnds`.

### The locks

`ExportsExcludeChanges` holds for any number of requests, processes and threads. Its
invariant `FlockInv` says that a request has its side of the data lock from the
grant to its end (`SidesHeld`) and that whoever has the exclusive side is alone
(`ExclusiveIsAlone`). The first part is what the release after background work,
and not after the response, is for; the property alone says nothing of requests
between the grant and the start of their handler.

The three theorems about the sections of handlers rest on `LockInv`: what a request has still to run is
an end of its plan (`RestOK`), inside a section it has taken all locks of it (`HeldOK`), and
no lock is held twice (`LocksApart`). That is invariant whatever the plans are; that it
protects the data is `PlansAreGuarded`, a lemma about the table `PlansOf` alone: whichever
plan a handler follows, each section that changes a hand contains that hand's stripe, each
section of a batch the history lock, and each that adds a hand to the corpus or takes one
away the corpus lock. That is all that `CorpusReadsSeeOneMembership` claims: while the
corpus is counted, exported or scored its hands are the same. Their labels need not be:
`approve_processing_job` holds the stripe of its hand only, and may replace the state of
a selected hand beside an export or a benchmark, which then reads the old label or the
new one (a record is written as a whole).
The lemma needs that sorting the stripes of a batch loses none (`SortedKeepsAll`), which `Sorted`
is defined for: it is a strictly ascending sequence over a finite set of numbers, whose
existence (`AscendingExists`) is an induction over the stripes. The induction theorems of
the library take an operator, so the lemma takes a smallest set without such a
sequence instead, which exists because the strict subsets of finite sets are well-founded.

`SomebodyCanGoOn` says that nothing stands still, also with more requests than threads.
`NoStandstill` asks for a step by `ENABLED`, which the prover does not know, so `CanGoOn`
spells the guards of the steps out; the run checks that a step is possible wherever they hold,
the theorem that they hold of somebody. Its core is `PlansAreOrderly`: every section of every
plan takes its locks in one order (`Rank`: backup, import, corpus, stripes by number,
history). Of the threads that wait for a lock the one whose lock is the furthest waits for
a thread that does not wait (`FurthestMayGoOn`). With no thread in a handler, nobody who
waits for a handler thread waits in vain, and with nobody there either, nobody has a side of
the data lock (`IdleOK`), so a request that waits for it gets it.

### Imports

An import is accepted by one check of all its hands under the corpus lock and then written
hand by hand, with other users at work and with interruptions anywhere. `ImportInv` says
what survives of that check. While the import runs (`RunningOK`), each of its hands is in
one of four conditions: not there, half written by this request, there with nothing to
change, or done. While it is only pending, with hands that it has written
(`UnderwayOK`), the archive still fits the corpus, and every hand of the corpus or the
archive that has no screenshot belongs to this request (`StaysAcceptable`), so it is
accepted again. `DrawnOK` says that no upload can draw the identity of a hand that the
archive may still write: without it a new hand in the way would be overwritten, or the
import refused. `JournalOK` says that at most one receipt is pending. TLC checked this
invariant with two request identities before it was proved; with one, as in the run, two
pending receipts do not occur.

Each write of an import changes one hand and adds at most a label
(`WriteShape`, `CorpusAfterWrite`): the corpus never grows beyond itself and the archive
together, of which `FitsCorpus` has counted the union. `InterruptedImportsResume` is then
the statement that a rejection needs a hand that conflicts, and that the only
conflict that `StaysAcceptable` leaves is a hand with another label.

### Backups

`BackupInv` says what a running restore may rely on: the hand it stages is absent, the ones
it has created are as the archive has them, and the archive still fits the corpus
(`RestoreOK`). The last is kept because a restore holds every lock, so that the corpus
changes only by its own hands (`StillFits`), and a hand that the roll-back or a death takes
away makes it smaller. `HandsAppearComplete` and `RestoresOverwriteNothing` follow
action by action, with deaths: `rmtree` that dies leaves less of a hand, never more
(`RemainsTypes`).

`RestoresAreAtomic` is a refinement of the specification without deaths. The mapping shows
the store as it was before the restore until its last write (`Stored`, `StoredReports`), and
everything at once with `FinishRestore`. `SteadyOK` is what makes that step the abstract
one: nothing is left over but the hand being staged, and whatever of the archive is
not there is still to be written. With deaths the mapping fails, which is what
`backup_repeat` shows of the code.

`ReportedArchiveIsDurable` holds for any number of runs, any options, names and losses
of power. A run that publishes holds the lock (`LockIsHeld`), so a step of one run
finds no other one with anything to lose (`Alone`); its own archive is in the directory
from the link on (`Linked`), because `Kept` always has it; and only what is `whole` is in
the directory or could come back to it (`OnlyWhole`). At its report all entries are on
disk (`Settled`), and then a loss of power has nothing to choose.

`RetainedArchivesSurvive` adds `SurvivalInv`. Of what no loss of power can take away, either
nothing that somebody counts on is missing, or as much is left as some run retains
(`Survives`). Before a removal everything is on the disk (`PrunesDurable`, the fsync that
comes before retention), and a run that removes an archive leaves its own and enough newer
ones to make up what it retains (`RemovalLeavesRetained`). What a run keeps is never more
than it was told, wherever its own name stands among the others (`KeptIsBounded`).

### Limits

`GrantsAreBounded` and `RetryAfterIsHonest` hold for any clients, limits, window and
size of the table, and over any interval, since `Observe` may begin one at any time.
The bound by itself is not inductive. The first part of `McpHttpProofs` keeps accounts: what was
granted and what is left in a bucket never exceed a full bucket and the refill of the
time it is accounted for (`Books`), and for a client without a bucket even a full new
one is paid for, because a bucket is discarded only when it has been idle for a
window, or counted as an eviction. The promise to a denied client is that the level
of its bucket at the promised second is a token or more, whatever others do. The
theorems are about `BucketSpec`, in which any client asks at any time; the run
`mcp_http` checks the same properties where the limiter is used.

Its second part shows first that every step of `McpHttp` is one of `BucketSpec` or leaves the
buckets alone (`StepsOfBuckets`), so that the bounds carry over to agents
(`AgentsAreLimited`). The invariant `HttpInv` has one part per shared structure. A window
bounds nothing as long as the code's deque and the calls are unrelated; `Recorded` relates
them: every call of the last window has a place of its own in the deque of its entry, by an
injection, unless the entry has been displaced from the table. Then the length of the
deque bounds the calls. The readers are counted by the calls that read, and a reader is
given back once because a call reads once. `OnlyCurrentTokensAreUsed` needs
that tokens are issued once and that a withdrawn one is nobody's or that of a revoked
principal (`TokensOK`).

### The poker readers

The theorems of `PokerStatesProofs` are about every set of dealt seats with both blinds,
every stack from one and a half big blinds (`ProfilesAssumption`), every set of raises, every
bound on their number and on the length of the record, and every state a reviewer may
make of such a hand. One assumption is added for `ChartAdviceIsLegal` (below).

Each property compares what the code reads in a record with the hand the record is of, so
none needs an invariant of its own; all need to know how hands go. That is `TableInv`,
an induction over the steps of the game. `ChipsInv` has the pot as the sum of what the seats have spent:
the bare-numbers contexts conclude from the pot who came in. `BookInv` says that what a seat
has put in besides its blind is on record. `WagerInv` ties the wager to the last raise; its bounds
on the size of a full raise are what makes the chart's sizes legal. `LapInv` is about order: nobody acts
twice in a row, and as long as somebody has not acted, the seats before the turn are on record
or out and those behind it are not. Without it the lines with two or three entries cannot be
told apart by their seats. `StreetInv` lists the six lines by which two players come to a
decision after the flop.

`ContextIsTheSpot` goes context by context (`OpenContextIsTheSpot`,
`CallersContextIsTheSpot` and so on). The contexts that are read from a record need what its entries say of
the seats; `UnrecordedIsTheSpot`, where the opener is told but not the record, needs that a pot with
another caller or raiser is larger than the one the context asks for (`RoomForAnother`):
this is where stacks of one and a half big blinds are used, for a shorter all-in could add less than
the tolerance of that comparison. `AcceptedIsAnswered` and `WagersAreToldTruly` go by the sources
of `wager_context.py`: a wager that is told, the greatest one on record, an open, a bet.
Both are about stored states. `WagersAreToldTruly` has the exception of its property, the
reraise that the code takes for its open (`ReusesOpen`); `AcceptedIsAnswered` does not say
that a state which misses something can ever be completed (`CompletedIsAccepted`).

`TrueWagersAreStored` is about the validators of the wagers. What is told is true, so the
bounds have to hold of the hand: somebody is at the wager hero faces (`SomebodyAtTheWager`),
what the opponents have in is at least the wager for each of those at it and at most the wager
for each of them (`OpponentsPutBounds`), and all of it is in the pot (`OpponentsPutInPot`).
Where the total is checked against the record, the greatest amount on it is the wager
(`RecordedAmountsFacts`). The case in which the validator itself fails
(`CommitmentTotalFails`) is a disjunct of the property.

`ChartAdviceIsLegal` assumes `TenBlinds`, stacks of ten big blinds or more. The profiles that TLC plays
satisfy it, and the bound is needed: a state may leave out hero's stack, and then the chart
does not know that hero cannot reraise in full. Against an open to four big blinds it advises a
raise to six and a half where that is the shortest stack in the hand, which is neither a full raise nor all
in for a hero who has more. With ten big blinds each of the chart's multiples is a full raise, or
all the chips of one of the two.

`TrueHistoriesAreAccepted` is about what a state tells of the streets after the flop, of
the one under way and of the ones before it. Of those the state of the game keeps
only the record, so a second induction, `HandInv`, says what a record of a finished street can be:
one of the five lines of `ClosedStreet`, in which a bet is at least 75 and a raise at least
twice the bet (`ClosedInv`). It needs to know that whoever owes nothing has the wager in or
is all in (`CallsInv`) and that no amount on a street is a small one, unless somebody has no
more (`AmountsInv`), since half the pot is 75 or more. The two readers of a record, the
validator of a finished line in `models.py` and the check before a solve in `local_solver.py`, go
through it action by action with what was put in before each (`PutIn`). The proof computes that
for lines of up to four actions (`PutInTwo` and so on, from `PutInNext`); then every line under way
(`StreetIsSound`) and every finished one (`ClosedIsValid`) is tried against every condition
of the two. A raise of less than the full size is in these lines only as an all-in, and the
exception of the code for it has to fit exactly there. `PositionIsRole` adds that no pair of names
gives hero the other's side.

`RangesAreTrue` rests on the same two invariants. A selection is the configured one or that of one of nine
lines (`SelectionIs`), and each line has a lemma (`SingleRaisedBelongs`, `SqueezeBelongs` and so on) that
says of it what `IsTheLine` says: the record is of this line, the seats it names are hero's and the
opponent's, the seat it takes for the strong one raised last, and its wager is the one before the flop.
`CutRangesBelong` concludes the rest for all of them. Three things are needed for it:

- The seats. A state may name a player by seat, as the button, or by the order they act in; what the
  code makes of two such names (`AreTheSeats`, `LimpedSeats`, `IsolationSeats`, `ReviewedSeats`) is
  hero and the opponent, heads-up too, where the small blind is the button.
- The stack. `ContributionsAreTold` has that what the code adds up from the streets is what was put in, and
  `HandInv` that the rest was the stack. A record of the street may be left out; then the check of the facing
  action catches a wager that would be taken for none, as a bet is more than the tolerance.
- The numbers of the chart. The range that is cut from the top begins at 0, and the other one must not:
  every policy of the tables raises with some hands (`PairsPlay`, `TriplesPlay`) and keeps some
  after it is adjusted to a size and a depth, each by 0.6 or more (`PoliciesRaise`).

The attempts found a fault of the model. `Sizes` was a `CASE` whose guards overlap, which means an
arbitrary one of the arms that apply; TLC takes the first, as the code does, so that no run could notice.
It is now a chain of `IF`.

### What stays with TLC

Liveness (`ActiveWorkEnds`, `PendingImportEnds`), and the half of `NoStandstill` that uses
`ENABLED`: both are out of the prover's reach. Every other property of a passing run is stated
by a theorem.
`ExportsParse`, `RestoreCanBeRepeated`, `BandsAreValid` and `CompletedIsAccepted` are false.

## Plan

Modules, in this order:

1. `WorkspaceLeases`: the browser's leases against a lossy channel to the backend;
   abstract specification: a hand shown as settled is the backend's.
2. `RollingStart`: startup recovery of a new process beside an old one, the
   composition of `DataLocks` and `JobLifecycle`.
3. Training outcome, queue and spacing, and pipeline selection, checked against
   reference definitions over bounded inputs.

Theorems: of the pure
functions of the poker modules what does not depend on how a hand was played, for every
state: that the policies of the chart give shares of at most the whole, and, with
`CommitmentTotalFails` as the only exception, that `StateValidation` takes what
`SolverRouting` asks for.

## Not modelled

The contents of archives (layout, digests, sizes), of reports and of parser and provider
results; error texts; ordering and paging of lists; benchmark summaries; failing saves
in `JobLifecycle` (an `OSError` while a completion is saved leaves the marker until the
next restart); a second process beside `JobLifecycle` (planned); a lock file that cannot
be opened; the forced end of a process that still has requests. Of the chart and the
solver provider: texts, confidence, provenance and range strings; the readers of free
text, of which only the result is kept; equities, fold equity and the choice between
candidates in the estimate; the child process and the solver plugin, a numerical
computation out of TLC's reach; providers other than the local solver. Of hosted MCP:
the checks of headers, which read only the request, and the translation of tools into
API requests. Of the backup command: the restore drill, which restores twice
into a temporary store of its own, and the marker of an enrolled data volume.
Rendering, the edge worker and the deployment scripts keep no state worth a model.
