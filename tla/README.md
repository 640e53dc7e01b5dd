# A TLA+ model of the model-evaluation workbench

This directory models the parts of the workbench whose behaviour depends on
order, concurrency and failure: the library and its artifacts, the experiments
made of them, their execution, the requests that meet on the same rows, the
review of their answers, the scores computed from them and the report over all
of it. TLC checks the models on small instances; TLAPS proves, for every
instance, each safety and each action property of the passing runs.

## The system

| component | state it keeps | operations | hard part |
|---|---|---|---|
| attempt rows (`executor.py`, `models.py`) | `run_attempts`: status, parent, number, reason, cost, cache_hit | retry, cancel, refuse, settle | the retry chain, what the latest row hides |
| executor (`executor.py`) | `experiments.status`, `runs.status`, attempts, `provider_call_cache` | `execute_experiment`, `execute_run`, `cancel_*`, `create_retry_attempt_for_run` | retries, cap, cache, refusals, cancellation and crash inside one transaction |
| queue and monitor sessions (`main.py`, `queue.py`, `database.py`) | the same rows, Redis jobs | queue, edit draft, cancel, retry, `execute_experiment_job` | sessions that read early and write late; row locks; lost updates |
| review queue (`repositories.py`, `main.py`) | `review_sets`, `reviewers`, `review_items`, `review_assignments`, human `scores` | create set, assign, record decision | two decisions on one item; items that share attempts; locks |
| scoring (`deterministic_evaluators.py`, `llm_judges.py`, `metric_adapter_execution.py`) | `scores`, `judge_executions` | score an attempt, compute divergences, run a judge, run adapters | check-then-insert; results computed once from rows that may still grow |
| library (`repositories.py`, `main.py`) | versioned cases, models, judges, suites | create, new version, archive, run a suite | latest + 1 numbering under a unique key; pins that must not follow the library |
| manifest (`manifest.py`, `repositories.py`, `snapshots.py`) | `experiments`, their runs and inputs | validate, expand, draft, edit | reads of several statements; two edits that each delete the runs they loaded |
| artifacts (`artifacts.py`) | `artifacts`, `artifact_preprocessing_runs`, the files of the storage | declare, set the input mode, preprocess | files that no transaction covers; a failure at a later page |
| analytics (`results_analytics.py`) | none | select, filter, aggregate, compare | rates, frontiers and agreements over rows that are partial, retried or of different sources |
| headless CLI (`headless.py`, `cli/`) | none of its own | run a manifest or a suite, score, judge, export | overrides the stored controls and puts them back |
| frontend, exports, promptfoo, demos, migrations | none that matters here | | not modelled |

Requests and jobs interact only through the database and the Redis queue. A
session is made by `sessionmaker(autoflush=False, expire_on_commit=False)`: it
reads a row when a statement or a lazy load asks for it, never again, and its
flush writes the columns it changed. A job is one transaction from the first
flush to the commit after the last run.

## Modules

**AttemptRows** is the data: a run's rows as a sequence in id order, so that a
row's id is its index, and one operator for each helper of `executor.py`
(`CancelRows` is `_cancel_run_attempts`, `NextQueued` is `_next_queued_attempt`,
`StatusFromAttempts` is `_run_status_from_attempts`, `Verdict` the end of
`execute_experiment`). `due` stands for `available_at <= now`; `calls` counts
the provider calls made for a row and is a history field.

**AttemptLedger** is the abstract specification: what the committed rows of an
experiment may do. A row is never removed, its identity never changes, a
terminal row is never rewritten, and rows are added only as retries of failed
rows. `Executor` implements it (`LedgerSpec`, with `db.att` for the ledger).

**Executor** is one worker executing one experiment, step by step: `pc` is the
place in `execute_experiment`/`execute_run`, `exp`, `run`, `att` and `cache`
are what the session sees, `db` what is committed. `Crash` and
`NaiveTimestamp` roll back to `db`. `gate` is what the data-dependent checks
(adapter, truncation policy, context budget, provider policy) say of a run.
`ExternalCancel` is a cancellation another connection commits during the
execution; under a database that locks the experiment row it cannot happen
before the commit, so it is taken only for the backend `autocommit`, the
situation `tests/test_executor_phase5.py:679` sets up. The monitor's handlers
run between executions here; their races with an execution are the subject of

**ExperimentSessions**: workers and clients as database sessions. A client's
request is its reads, one statement each, then its flush and commit in one
step; a worker's execution holds the experiment row from its first flush and
each run's row from the flush of that run. A run that was canceled before is
canceled in memory only (`SkipCanceledRun`): its rows are written, and locked, by
the flush of the next run that is executed (`Canceling`), or at the commit, which
writes them over what is stored by then (`Executed`). `Blocked` says which commits
wait.
On SQLite a waiting session may give up (`RequestTimeout`, `JobTimeout`). The
inside of a run is abbreviated: a queued row is called and succeeds, or fails
and ends its run; the worker's own retries are Executor's subject.

**AttemptHistory** is its abstract specification: what the committed attempts of
an experiment may do whichever sessions read and write them. An attempt is made
once, when it is queued, and never queued again; rows are added only as retries of
terminal rows, one each; nothing is removed, except by an edit, before any call,
that starts again. It is weaker than AttemptLedger where the code is: a session
that read an attempt early may cancel it after it was settled.
`ExperimentSessions` implements it (`HistorySpec`, with `db.att` for the history
and `db.gen` for the edition).

**ReviewQueue**: the requests that create a review set, assign reviewers and
record decisions, as sessions with the locks their flushes take (`Holds`,
`Needs`, `WaitsFor`). `SelectPrior`, `FlushDecision`, `FlushSubmission` and
`CommitDecision` are the steps of `record_review_decision` between which
another session can commit. An assignment belongs to a fixed item and reviewer,
reviewers are numbered in slug order, and one row per answer stands for the
several scores a decision stores. `turns` is the assumption under which the code
keeps one vote per reviewer: a reviewer waits for an answer before submitting
again. `Fail` is any error, timeout or lost connection; it rolls back.

**Scoring**: the evaluator job, the CLI's scoring, the metric adapters and one
judge, beside the commits of executions and manual retries. The rows an
experiment may come to have are chosen at the start (`ledger`) and committed
bit by bit (`done`); that only failed rows are retried, which `ledger` assumes,
is what the theorems `RetriesContinueChains` and `RetriesFormNoTree` say of
Executor. `status` is the experiment's, and a row
is `blocked` when the cost cap kept it from running: such a run is skipped,
lets the experiment be complete, and may be retried by hand afterwards.
`LookUpRow` reads one row's scores at a time; `CommitScores` inserts what was
not found. `AskJudge`, `ReadAttempts`, `InsertExecution`, `Judge` and
`CommitJudge` are `run_llm_judge` cut where another session can commit.
`alone` is the assumption under which scores are stored once.

**Library** is the library, what preprocessing makes of its artifacts, and the
experiments made of both, under sessions that each do a script of requests.
`items`, `artifacts`, `records` and `experiments` are committed rows; `view` is
what a session has read or flushed, `held` the unique keys and row locks its
flushes took, so that `Free` says which insert waits. Every statement that reads
is a step: `StartCreate` reads the newest version, `Resolve` pins one row,
`ReadInput` and `DeriveInput` are the statements of
`_artifact_snapshot_from_manifest`, `LookForExperiment` the idempotence check of
a run, `ReadRuns` the load that `experiment.runs.clear()` deletes by. Then the
flush and the commit: `CommitItem`, `CommitDraft`, `CommitEdit`, `CommitRun`,
`CommitRecord`. An edit loads the experiment's columns at `StartEdit` and its runs
only at `ReadRuns`; what its flush writes are the columns that differ from those it
loaded (`Flushed`), and what it deletes the runs it loaded. `Valid` and `Expansion` are `validate_manifest_payload` and
`expand_manifest`, over sets: a run is a case, a model and a number of attempts.
Preprocessing is `Parse`, then for each part what the parser yields
(`Outputs`), and for each of these `LookForFile`, `OpenFile`, `CloseFile` and
`SaveRow`; the files `whole` and `partial` are in no transaction. A file's name
stands for its content, so two sessions that derive the same thing meet at one
file. `Die` ends a session anywhere. `mistaken`, `overlapped` and `ran` are
history: files that two writers met at, experiments that were written by a
session after another had changed what it had loaded, and the suites that ran.

**Results** is the report as operators of the evidence (attempts, review scores,
judge verdicts, stored divergences, tags, audits) beside the steps by which the
evidence grows: an attempt ends or is retried, a reviewer submits, a judge or
the demo seed scores, divergences are stored, a report is asked for under a
filter. `Selected`, `Bucket`, `Dominates`, `LiftRows`, `DivergenceRows` and the others are the
functions of `results_analytics.py` over small numbers. The report is one read
in the model; in the code it is several statements of one session.

**MCExecutor**, **MCExperimentSessions**, **MCReviewQueue**, **MCScoring**,
**MCResults** and **MCLibrary** are the instances for TLC.
**AttemptRowsProofs**, **ExecutorProofs**, **SessionsProofs**,
**ReviewQueueProofs**, **ScoringProofs**, **LibraryProofs**,
**PreprocessingProofs** and **ResultsProofs** hold the theorems.

## What is checked

| run | instance | question |
|---|---|---|
| `executor` | 2 runs x 2 replicates, 4 control snapshots, 5 gate patterns, at most 3 rows before a manual retry | call, verdict, cap and cancellation properties; the refinement of the ledger; executions end |
| `executor_reexecution` | 1 run x 2 replicates, Postgres | a queued attempt is settled when executions are repeated |
| `executor_sqlite` | 1 x 1, SQLite | the same question; violated |
| `executor_crash` | 1 x 1, Postgres | is every provider call on record; violated |
| `sessions_workers` | 2 workers, 1 client, 1 run, both databases | no stale or doubled call, executed runs survive edits, every request is answered |
| `sessions_requests` | 1 worker, 2 clients, 1 run, 1 edit, Postgres | one retry per attempt; the commits of all sessions implement AttemptHistory |
| `sessions_overwrite` | 1 worker, 1 client | does a cancellation keep finished attempts; violated |
| `sessions_queue` | 1 worker, 1 client | is the experiment queued before its job; violated |
| `review_queue` | 2 concurrent requests of 4, 2 reviewers, 3 items that share attempts | decisions keep their scores and no others', one vote that agrees with the record, no deadlock among assigners, sets are never overwritten |
| `scoring` | 2 requests, 8 histories of attempts | no score twice, divergences from final answers, one whole judgement, paid for once, of what reviewers compare |
| `results` | 6 ledgers, 5 filters, up to three models, two cases or two replicates | the frontier is sound, filters only restrict, the sources of a divergence name one baseline, disagreements are between people and judges who disagreed, intervals count every replicate once |
| `library` | 2 mortal sessions, 19 scripts of up to 5 requests a session | pins resolve, preprocessing is all or nothing and its files whole, derived inputs are bound to their source, suites run what they pinned and is not archived, an experiment is its manifest |

Bounds. `MaxRows` bounds the manual retries, which are unlimited in the code;
with three rows a run reaches a retry of a replicate, a retry of that retry and
one of another replicate. `MaxJobs` and `MaxEdits` bound the queue and the
edits: two jobs are what a double queue request leaves, and a second edit meets
no state the first has not met. Two runs are needed for the cap, the cache and
the verdict, which look across runs; two replicates for failures that are
masked; two workers for doubled jobs; two clients for doubled retries. With one run
a canceled run is skipped but none is executed after it, so `Canceling` needs two:
the safety properties of both passing session runs and `HistorySpec` were also
explored with two workers, one client and two runs (5.2 million states), and
`RequestsAnswered` with one worker, one job, one client and two runs (0.14 million),
without an error; the theorems are about any number. One response cost (2) is enough, because the caps
(1, 3) lie below it and between one and two calls.

In `review_queue` three models give three pairs, any two of which share an
attempt, which is where a search for prior scores can go wrong; two of them are
decided, with two different winners (`Decided`, `Winners`). Four requests
(`MaxRequests`) let a set be created by two requests that race and be decided
twice, or a decision be revised while another session is at it. In `scoring` two requests are
every pair of kinds that can meet; a third would repeat one of them. The eight
ledgers are replicates with and without a retry, a failed baseline retried
beside a warmed row, three models without replicates, a run that fails for
good, and a skipped baseline, a skipped model and a skipped run with a replicate
left, each retried or settled after the experiment was complete.

In `library` the scripts pair requests that can meet: next versions of one slug
that race with each other and with a version a client names; two creations of a
suite, beside runs of it and new versions of its members; each of the seven
parsers beside a draft that uses what it derives; the same preprocessing twice,
over the same file; chains of derivations over a file that a dead session left;
a suite one of whose members was archived from the start;
overlapping edits of one draft, with the same runs, other runs, other controls and
invalid designs; and runs from the command line beside edits and runs of the same
manifest. Two versions, two parts and two sessions suffice, because the third of
each meets no state that the second has not met; the proofs do not have these
bounds. In `results` the ledgers are two cases, a retried baseline, three models, a
replicate that stays failed, attempts of unknown cost or latency, and a replicate
that the cost cap refused, which are the cases in which rows tie, are missing, or
are counted twice.

Deadlock is not checked: an idle system with its bounds used up is a proper end.

Fairness. `FairSpec` of Executor asks weak fairness of the worker's own steps
only: straight-line code, and a provider call that hangs is ended by RQ's job
timeout. `ReexecutionSpec` adds the assumption `QueuedAttemptSettles` needs,
that somebody executes the experiment again and time passes; the code alone
does not provide it (a manual retry enqueues no job). `FairSpec` of
ExperimentSessions asks weak fairness of each job and strong fairness of each
request's answer: Postgres grants row locks in arrival order, so a request
that can infinitely often proceed does. Dying workers are never assumed to stop.

## Findings

Four runs end in a violation; each is a statement of the documentation that the
code does not keep. `executor_crash`: an execution is one transaction, so a
crash forgets provider calls. `executor_sqlite`: a reloaded retry row makes
`_next_queued_attempt` raise TypeError on SQLite, the default database.
`sessions_overwrite`: a cancellation overwrites an attempt that finished after
it was read. `sessions_queue`: jobs are pushed before the experiment is marked
queued.

## What is proved

**ExecutorProofs** is about `Executor!Spec`, for any number of runs and
replicates, any controls and gates, from the named assumptions `CostsAssumption`
and `ExecutorAssumption`. The argument is one inductive invariant, `IInv`
(theorem `Invariant`), a conjunction of

- `TypeOK`;
- `RowsInv`: the rows of every run are `Sound` (retries continue failed rows, no
  row has two, calls and costs agree with statuses) and every failure is
  `Explained`; the rows the session sees extend the committed ones, terminal
  rows unchanged (`Grows`);
- `DurableInv`: nothing committed is running;
- the invariants of the program counter: which row is selected and in which
  status, and what `ext` and `late` can be (`CancelInv`).

The checked properties are not inductive by themselves: that a rollback keeps
them needs that the committed rows have them too, and that a retry never makes
a second child of a row needs to know, at the provider call, that the selected
row has none yet. Each action has a lemma for its effect on rows in
AttemptRowsProofs (`RewriteOne`, `CancelRewrites`, `BlockRewrites`,
`AppendRetryKeepsSound`), then one for its effect on `IInv` in ExecutorProofs.
From `Invariant` follow type correctness, `RetryChain`, `OneRetryPerAttempt`,
`CallAccounting`, `FailureExplained`, `NothingLeftRunning`, `OneLateCall`,
`NoCallOnceCanceled`, `CancellationLostOnlyAtEnd`, and the refinement
`ExecutorKeepsLedger: Spec => LedgerSpec`. Those of them that the run `executor`
does not list are parts of `IInv`, and proved only.

`VerdictMatchesRows` needs `VerdictInv` beside `IInv`. A run's status is a cached
answer: the executor takes it from the latest row, the monitor's handlers from
whether any row is open. That these agree is `CanceledLast`, that a run whose
latest row is canceled has no open row; it has to hold of the committed rows and
statuses too, which a rollback brings back, and of a run's rows while its status
is "running" and says nothing. No adapter is the one case in which a run may be
failed with rows that did not fail.

`CapOvershootBounded` needs `CapInv`: the cap has not been reached while a call
runs, although other rows have been settled since it was checked, and the
committed rows are within it, which a rollback brings back. Most steps cost
nothing: what costs something after them did before (`Cheaper`), so the total falls
if it changes at all, by a cache hit that no longer counts; an answer adds its own
cost (`TotalOfCall`). `Spent` is a sum over the rows of all runs, taken in no
particular order, and the library has no theorem about such sums. The ones needed
are proved before (`SumOver`, to `SumBelow`): that the sum exists (`SumExists`), and
that every member, not only the one it picks, can be taken out of it
(`SumWithout`). Each is an induction over finite sets, made as a search for the
least set for which the claim fails (`LeastSet`).

**SessionsProofs**, from `SessionsAssumption`, for any number of workers, clients
and runs. `LockInv` says that a worker is past its first flush exactly when it
holds the experiment row (`lock`), and that it has locked the row of the run it
is at. `ReadInv` says what reading early and writing late is worth: the rows a
client has read are prolonged by the committed ones, or an edit has replaced them
since and the generation tells (`ClientOK`); the worker that holds the lock has
locked the run it is at, its copy of a run it has locked differs from the committed
rows by its own calls, and what is queued for it is queued in the database
(`WorkerOK`). Of a canceled run it skipped it says nothing, for others may write
those rows until the commit, which only cancels rows of them
(`CanceledContinues`). `Stored` says that retries are chained and that a run with a call has an audit
row. `Step` is what a commit of one session may do to the rows: it keeps all of
them and appends at most where a worker holds a run, or it is the edit of an
unlocked draft without calls. Each action is a `Step` and every `Step` keeps what
the other sessions have read true, so each action has only its own session to
look at. A doubled retry is impossible because it would repeat the attempt id of
a row the client has not seen (`RetryChains`); hence `OneRetryPerAttempt`,
`HistoryKept` (which no run lists: `HistorySpec`, below, is about the same commits
and says more), `ExecutedRunsAreKept` and `NoStaleCall`.

`SessionsKeepHistory` is the refinement, `Spec => HistorySpec`. `Step` says which
rows are there, `RowStep` what became of each, and for that a session has to
remember what it read: `HistInv` says that an attempt a
client has seen settled is settled still unless an edit came between
(`ClientHas`, `Recalls`); that each row the worker that holds the lock has locked is at
most one history step from the stored one, the row being called aside (`WorkerHas`,
`InCall`); and that nothing stored is running (`Quiet`). A commit is `Recorded`,
one history step for every row and retries of settled rows after them, or
`Replaced`, the edit. A commit of one session keeps what the others know:
what is settled stays settled, and the rows of a run a worker holds are not
written by anyone else (`OthersKeepHistory`). A flush that writes `canceled` over
what the session has not seen is a history step because any row may be canceled
(`CancelRecorded`); one that writes a worker's own copy back is one because that
copy is a history step from what is stored (`MergedContinues`). Each action
commits nothing (`NoCommit`) or is one of these (`CommitHistory`, `EndHistory`,
`WorkHistory`); `NextHistory` puts them together.

**ReviewQueueProofs**, from `ReviewAssumption` alone, for any number of sessions,
items and reviewers: `RecordedDecisionsAreScored` needs `SessionInv`, which says
what a session between two of its steps knows (the prior scores it will delete
are its own reviewer's on its own item, so it never takes another's), and
`SetIsNeverReplaced` needs `CreateInv`, that at most one session has inserted
the set and then none is committed.

`ComparisonsAreWhole` is about sessions that delete what they have read.
`ScoreInv` says that the scores of one decision are of one item and reviewer,
stamped together, and two (`Whole`, `Alike`); that a group of scores a session
has read whole is whole still, unless another session removed all of it or
stamped all of it (`Follows`), so that the late delete or stamp takes both
answers or neither; and that nobody has read the scores of a decision that is
not committed (`FreshOK`). `OneVoteInTurns` and `StampedScoresAgree` add
`TurnInv`: under `turns`, whoever decides is the only one of its reviewer
(`AloneOK`), so what it has read as prior is all there is. `AssignersNeverDeadlock`
rests on `AssignInv`: an assigner inserts in the order of slugs, so it waits for a
reviewer above all that it has inserted; in a set of waiting assigners the one
that inserts the greatest (`Greatest`) waits for none of the others.

**ScoringProofs**, from `ScoringAssumption`, for any ledger and any number of
sessions, evaluators and configs. What has to be proved is that things computed
once stay right while rows are still added. The invariant calls rows `Settled`
when every row that may still be executed or retried comes after a skip; a
complete experiment is settled (`StatusOK`), executions and retries keep it so
(`ExecuteSettles`, `RetrySettles`, which rest on `InOrder`: the rows of a run are
executed in order), and the evaluator job and the judge begin only then. Hence a
divergence is from the answer its replicate ends with, because a replicate
succeeds at most once (`OneSucceeds`), and the judge's pairs are the reviewers'
(`JudgePairsAreReviewed`). Scores are stored once because a scorer that is alone
knows that what it holds is not stored (`AloneOK`); comparisons are paid once
because every call was made by a request that has failed, has committed, or is
the only one past the unique constraint (`CallsOK`, `JudgeOK`).

**LibraryProofs** and **PreprocessingProofs**, from `LibraryAssumption`, for any
library, sessions and scripts. `Shape` says that sessions are functions and views
records; `ActionsMove`, that a step of one session leaves the others' views
alone. `PinsResolve` needs `PinsInv`: what a session has pinned or read is
committed, which stays true because the keys of rows only get more.
`StoreInv` is about preprocessing. Of committed rows it says that ids are below
`nextId`, that a row a client declared has a client's file, and the two
properties themselves; of a session that preprocesses (`SessionOK`), that its
record is not in the table, that the ids of its rows are nobody's, that their
files are stored, and that its source is whole or mistaken; of two sessions
(`Apart`), that they have neither a record nor a row in common. `Grows` and
`Fresh` say what a step may do to the committed rows and to its own session;
`OthersStayOK` and `StayApart` show once that this disturbs no other session, so
each action has only its own session to look at. `DerivedInputsAreBound` then
follows from `InputsInv`: what a session has looked up is bound, and stays so,
since no request changes a row's id, source, record or binding (`Ident`).

The rest of PreprocessingProofs is about versions and experiments. `VersionInv`:
versions count from one, and suites have cases and models for members.
`ManifestInv`: what a manifest names is, for as long as a session works on it,
still to be looked up or pinned under the same slug (`Answered`); a session that
writes has nothing left to look up, so the runs it makes are the manifest's
`Expansion`. An edit replaces all runs and leaves the manifest's controls beside
the manifest when what it loaded is what is stored (`Current`): then a column that
it does not write has the value it would have written. Otherwise its experiment is
in `overlapped` (`Fits`). `SuiteInv`: what a suite run
looks up is what the row of the suite pins, less the cases that are archived or in
another split; neither a suite's members nor a case's flag change (`ItemsStay`).
`BatchInv` is about the runs by the request that made them: requests make theirs
at once and under numbers of their own, and delete those of another together,
because whoever loaded one of them loaded all that are left (`Agree`, `RestIsWhole`);
so an experiment has all the runs of a request or none, overlapped or not. Together
with `StatusInv` these give `ExperimentIsItsManifest`,
`SuiteRunsItsMembership` and `TypeOK`. The assumption on scripts says what clients
write: the references of a manifest name cases and models, its restrictions name
some of these, its id is not the name of a suite run (`Written`), and a suite's
members are cases and models (`KeepsKinds`). Every script of the run `library`
meets it, and the request schemas and `validate_manifest_payload` enforce the rest.

**ResultsProofs**, from `ResultsAssumption` (ledgers are finite and numbered, in
the order of their attempts; verdicts and decisions are those of the schemas), for
any ledgers, reviewers, judges and filters. The report is an operator of one
state, so there is little to be inductive about: `IInv` says where scores come
from. A person's score is half of a submission and the other half is there
(`FromSubmission`, `BothScored`); a judge's is of one of the two attempts it
compared; a stored divergence is from the row of the same replicate without a
warmer (`Scored`). The rest is about the operators. `FrontierIsSound`: rates are
compared by cross-multiplication, which is transitive only when denominators are
positive (`TimesKeepsOrder` to `RatesAreOrdered`, `BucketHasRates`), so domination
is a strict order (`DominationIsAnOrder`), and in a finite table each dominated row
is below one that is not (`SomethingIsGreatest`). `DivergencesAgree`: the row a
replicate succeeded with is its last (`SucceededIsLast`), so a stored baseline,
one that tags are compared with and one a judge quotes are the same.
`SamplesAreReplicates`: the intervals count rows that are neither retries nor have a
parent, and a replicate has ended rows exactly if its first row has ended
(`SampleOf`), because a replicate's rows end in the order of the ledger
(`EndedInOrder`), and one such row only (`OneSampleEach`); it failed at some row
exactly if it failed at the first, because only failed rows are retried.
`FiltersOnlyRestrict`: for each table of the report, that the rows of the filtered
evidence are the rows asked for (`TableNarrows`, `LiftNarrows`, `SpreadNarrows`,
`DivergenceNarrows`, `CarryoverNarrows`). `DisagreementIsReal` rests on the order of
pairs, by which an outcome tells the decision (`PairsAreOrdered`, `OutcomesTell`).

Only model-checked: the liveness properties `ExecutionEnds`, `QueuedAttemptSettles`
and `RequestsAnswered`, which are out of the prover's reach.

## Known limits of the code

The properties are stated as the code keeps them; what it does not promise:

- Two decisions of one reviewer on one item that race each delete the scores
  they can see and leave two votes (`OneVoteInTurns` holds for `turns`;
  `tests/test_review_queues_phase16.py:396` and `tests/test_review_phase8.py:428`
  revise one decision after the other).
- Three concurrent decisions can wait for each other in a circle; Postgres ends
  one of them. Only assigners are ordered against this.
- Two scorers that overlap store a score twice (`ScoredOnceIfAlone` holds for
  `alone`).
- With replicates the judge looks at one replicate of each run, and compares
  only rows that happen to be of the same replicate.
- A run that the cost cap skipped can be retried in a complete experiment; its
  new answer is compared by reviewers, but divergences from an older row and
  the judge's execution stay as they are.
- A derived file is written in place and left alone when it exists, so a session
  may store a row of a file that another is still writing, and a file that a dead
  session left half written is never repaired; what is derived from it is
  derived from half a file (`FilesAreWhole` names these files, `mistaken`).
- A cancellation that commits after the execution's last look at the experiment's
  status is overwritten by its verdict (`executor.py:122-135`): a canceled
  experiment becomes complete or failed (`CancellationLostOnlyAtEnd` says that this
  is the only step that can lose it).
- Two edits of one draft each write the columns that differ from those they loaded,
  at `main.py:809`, and delete the runs that are there at `repositories.py:1042`. If
  one commits between the other's two reads, the later keeps the earlier's controls
  or manifest where they differ from its own but its own equal what it had loaded;
  if it commits after both, and the `run_id`s differ, both sets of runs stay.
  `run_manifest`, putting back the controls it read, overwrites those of an edit that
  committed meanwhile. `ExperimentIsItsManifest` exempts the columns of such
  experiments (`overlapped`).
- A case that was created archived can be a member of a suite; runs of the suite
  leave it out without a word (`repositories.py:2563`), and a suite of such cases
  only cannot be run.
- `docs/data-model.md:155` says a derived input carries the id of its derived
  artifact. The normalized image of `image_visual` lacks that key
  (`artifacts.py:458-595`); once a client gives it a derived input mode
  (`main.py:691`), a draft of its source selects it and records an input without
  it. Client metadata that has all the keys counts as a binding, and an explicit
  other mode may relabel a bound artifact; both are left out.
- A suite that loses the race for a version, or a derived slug that a client has
  taken, is answered by 500 rather than 409: the flush raises outside
  `_commit_or_conflict`.
- `docs/results-analytics.md:53` says that stored rubric dimensions of judges give
  claim and conclusion rows. `run_llm_judge` compares answers of one warmer
  (`llm_judges.py:342`), and `_compatible_judge_evidence`
  (`results_analytics.py:1039`) wants equal comparison ids, so only the demo's own
  scores yield such rows.
- Calibration joins a judge and a person by attempt, not by pair: with three
  models, a judge who agrees with the person on every pair still shows
  disagreements. The summary's failure rate counts attempts that were retried
  later, and judge scores cover the newest replicate of a run only.
- `controls_snapshot` is read before the experiment is locked
  (`executor.py:97`): an execution may follow controls that an edit has replaced.
  ExperimentSessions does not tell controls apart, so no property covers it.
- The provider cache is filled by check-then-insert (`executor.py:571`), so two
  executions may pay for the same answer; every retry lengthens `attempt_id`, a
  column of 120 characters (`executor.py:815`); a provider's timeout is the
  adapter's (`executor.py:443`). None of the three is modelled.

## Plan

Every safety property of a passing run is proved, and both refinements. What would
come next is more of the model: prompts, warmers and evaluators as dimensions of a
design of their own; the experiment builder's and the monitor's client state
(`App.tsx`, `api.ts`, `experimentBuilder.ts`), whose polling and saving race the
requests of ExperimentSessions.

## Not modelled

- Which attempts are paired for review and in which shuffled order, the failure
  taxonomy's versions and the reveal endpoint, the text and policy conditions
  under which an adapter or evaluator has nothing to say, canceled rows in
  Scoring.
- Of the library: items given inline in a manifest, edits that rename a slug, the
  replicates of a suite (one in the model), and the copying of fields into
  snapshots. References are resolved in any order, the code's is fixed.
- Of manifests: the order of the runs and its seed, the checks of single fields,
  and the estimate of the preview.
- Of artifacts: what a parser extracts; `register_file_artifact` and
  `copy_file_to_storage`, which nothing in the repository calls.
- Of the report: interval formulas, verbosity bias, the taxonomy rollup, coverage,
  carryover and divergence summaries, rubric calibration rows and dry runs.
- Formats and fixtures: requests and responses, pricing tables, promptfoo and
  trace exports, the demos, migrations and the React client. None of them keeps
  state whose order matters to the rest.
