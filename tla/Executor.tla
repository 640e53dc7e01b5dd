------------------------------ MODULE Executor ------------------------------
(***************************************************************************)
(* executor.py: one experiment executed by one worker session, with the    *)
(* monitor's cancel and retry handlers between executions.                 *)
(*                                                                         *)
(* exp, run, att and cache are the rows as the session sees them; db is    *)
(* what the last commit made durable.  An execution is one transaction:    *)
(* it commits once, at its end, and an exception or a dead worker rolls    *)
(* all of it back.  The steps of an execution follow pc:                   *)
(*   next   between two runs         loop   top of execute_run's loop      *)
(*   ready  a row is selected        call   the provider call is running   *)
(*                                                                         *)
(* ext is a cancellation of the experiment row that another connection has *)
(* committed and this session has not refreshed yet; it can only happen    *)
(* when the engine autocommits.  late counts the provider calls started in *)
(* that window and lost tells that a rollback has erased a provider call;  *)
(* both are history variables.                                             *)
(***************************************************************************)
EXTENDS AttemptRows, FiniteSets, FiniteSetsExt

CONSTANTS
  NRuns,        \* logical runs of the experiment
  Replicates,   \* replicate rows expansion gives each run
  Controls,     \* the control snapshots and database backends explored
  Gates,        \* what the data-dependent checks may say of the runs
  Keys,         \* provider cache keys
  KeyOf,        \* the cache key of each run's request
  NoCap,        \* max_total_cost_usd is None
  MaxRows       \* bound: a manual retry is taken while a run has fewer rows

Runs == 1 .. NRuns

ControlSnapshot ==
  [retry_failed : BOOLEAN, cache_provider_calls : BOOLEAN,
   max_total_cost : Nat \cup {NoCap}, max_attempts : Nat, backoff : BOOLEAN,
   backend : {"postgres", "sqlite", "autocommit"}]

Gate == {"open", "no_adapter", "unsupported_truncation_policy",
         "context_budget_exceeded", "policy"}

ASSUME ExecutorAssumption ==
  /\ NRuns \in Nat \ {0} /\ Replicates \in Nat \ {0} /\ MaxRows \in Nat
  /\ Controls \subseteq ControlSnapshot
  /\ Gates \subseteq [Runs -> Gate]
  /\ KeyOf \in [Runs -> Keys]

VARIABLES controls, gate, exp, run, att, cache, pc, cur, sel, db, ext, late, lost

fixed   == <<controls, gate>>
rows    == <<exp, run, att, cache>>
history == <<late, lost>>
vars    == <<controls, gate, exp, run, att, cache, pc, cur, sel, db, ext, late, lost>>
-----------------------------------------------------------------------------
\* Mutant: the committed status is never reloaded.
StaleStatus == exp

\* _refresh_run_cancel_state: the status of the experiment row after the reload.
Reloaded == IF ext THEN "canceled" ELSE exp

Canceled == Reloaded = "canceled" \/ run[cur] = "canceled"

\* Mutant: only the rows of the run at hand are counted against the cap.
CapReachedByRun ==
  /\ controls.max_total_cost # NoCap
  /\ MapThenSumSet(LAMBDA i : att[cur][i].cost, DOMAIN att[cur]) >= controls.max_total_cost

\* _cost_cap_reached: what the rows without a cache hit have cost so far.
Spent ==
  MapThenSumSet(LAMBDA x : att[x[1]][x[2]].cost,
                {x \in UNION {{r} \X DOMAIN att[r] : r \in Runs} :
                   ~att[x[1]][x[2]].cache_hit})
CapReached == controls.max_total_cost # NoCap /\ Spent >= controls.max_total_cost

\* _should_retry, for a retryable failure.
ShouldRetry(row) ==
  controls.retry_failed /\ row.attempt_number < controls.max_attempts

\* SQLite gives available_at back without its time zone, and comparing it
\* with utc_now() raises TypeError.
Naive(i) == /\ controls.backend = "sqlite"
            /\ i \in DOMAIN db.att[cur] /\ att[cur][i].attempt_kind = "retry"
NextQueuedRaises ==
  \E i \in DOMAIN att[cur] :
    /\ att[cur][i].status = "queued" /\ Naive(i)
    /\ \A j \in Eligible(att[cur]) : j < i => Naive(j)

Init ==
  /\ controls \in Controls
  /\ gate \in Gates
  /\ exp \in {"draft", "queued"}
  /\ run = [r \in Runs |-> "pending"]
  /\ att = [r \in Runs |-> [k \in 1 .. Replicates |-> ReplicateRow(k)]]
  /\ cache = {}
  /\ pc = "idle" /\ cur = 0 /\ sel = 0
  /\ db = [exp |-> exp, run |-> run, att |-> att, cache |-> cache]
  /\ ext = FALSE /\ late = 0 /\ lost = FALSE

\* session.commit()
Commit == db' = [exp |-> exp', run |-> run', att |-> att', cache |-> cache']
-----------------------------------------------------------------------------
\* The monitor's handlers, each a transaction of its own.

CancelAll ==
  /\ att' = [r \in Runs |-> CancelRows(att[r])]
  /\ run' = [r \in Runs |-> CancelStatus(att[r], run[r])]

CancelExperiment ==
  /\ pc = "idle"
  /\ exp' = "canceled" /\ CancelAll /\ UNCHANGED cache
  /\ Commit
  /\ UNCHANGED <<fixed, pc, cur, sel, ext, history>>

CancelRun(r) ==
  /\ pc = "idle"
  /\ att' = [att EXCEPT ![r] = CancelRows(@)]
  /\ run' = [run EXCEPT ![r] = CancelStatus(att[r], @)]
  /\ UNCHANGED <<exp, cache>>
  /\ Commit
  /\ UNCHANGED <<fixed, pc, cur, sel, ext, history>>

\* create_retry_attempt_for_run, when no retry is open and the latest row failed.
\* The handler retries whatever controls.retry_failed says and has no attempt limit.
RetryRun(r) ==
  /\ pc = "idle"
  /\ Len(att[r]) < MaxRows
  /\ ~HasOpenRetry(att[r])
  /\ att[r][Len(att[r])].status = "failed"
  /\ att' = [att EXCEPT ![r] = Append(@, RetryRow(@, Len(@), FALSE))]
  /\ run' = [run EXCEPT ![r] = "pending"]
  /\ exp' = IF exp = "canceled" THEN exp ELSE "queued"
  /\ UNCHANGED cache
  /\ Commit
  /\ UNCHANGED <<fixed, pc, cur, sel, ext, history>>
-----------------------------------------------------------------------------
\* execute_experiment up to its loop over the runs.

ExecuteCanceled ==
  /\ pc = "idle" /\ exp = "canceled"
  /\ CancelAll /\ UNCHANGED <<exp, cache>>
  /\ Commit
  /\ UNCHANGED <<fixed, pc, cur, sel, ext, history>>

StartExperiment ==
  /\ pc = "idle" /\ exp # "canceled"
  /\ exp' = "running"
  /\ pc' = "next" /\ cur' = 1
  /\ UNCHANGED <<fixed, run, att, cache, sel, db, ext, history>>

\* execute_run, before its loop.

NextRun == cur' = cur + 1 /\ pc' = "next" /\ sel' = 0

AtRun == pc = "next" /\ cur \in Runs

SkipCanceledRun ==
  /\ AtRun
  /\ exp = "canceled" \/ run[cur] = "canceled"
  /\ att' = [att EXCEPT ![cur] = CancelRows(@)]
  /\ run' = [run EXCEPT ![cur] = CancelStatus(att[cur], @)]
  /\ NextRun
  /\ UNCHANGED <<fixed, exp, cache, db, ext, history>>

\* No adapter: the run fails even when it has no row left to refuse.
NoAdapter ==
  /\ AtRun
  /\ exp # "canceled" /\ run[cur] # "canceled"
  /\ gate[cur] = "no_adapter" /\ ~NextQueuedRaises
  /\ att' = IF NextQueued(att[cur]) = 0 THEN att
            ELSE [att EXCEPT ![cur] = BlockRows(@, "provider_blocked")]
  /\ run' = [run EXCEPT ![cur] = "failed"]
  /\ NextRun
  /\ UNCHANGED <<fixed, exp, cache, db, ext, history>>

BeginRun ==
  /\ AtRun
  /\ exp # "canceled" /\ run[cur] # "canceled"
  /\ gate[cur] # "no_adapter"
  /\ run' = [run EXCEPT ![cur] = "running"]
  /\ pc' = "loop"
  /\ UNCHANGED <<fixed, exp, att, cache, cur, sel, db, ext, history>>
-----------------------------------------------------------------------------
\* One iteration of execute_run's loop.

Refresh == /\ exp' = Reloaded
           /\ ext' = (ext /\ exp' # "canceled")
           /\ late' = IF ext' THEN late ELSE 0
           /\ UNCHANGED lost

\* The end of execute_run: a skipped or canceled run keeps its status.
FinishRun ==
  run' = [run EXCEPT ![cur] =
            IF @ \in {"skipped", "canceled"} THEN @ ELSE StatusFromAttempts(att'[cur])]

\* Mutant: the loop waits for rows in backoff instead of leaving them queued.
WaitForBackoff ==
  /\ pc = "loop" /\ ~NextQueuedRaises
  /\ \A i \in DOMAIN att[cur] : att[cur][i].status # "queued"
  /\ Refresh
  /\ att' = att /\ FinishRun
  /\ NextRun
  /\ UNCHANGED <<fixed, cache, db>>

NothingQueued ==
  /\ pc = "loop" /\ ~NextQueuedRaises
  /\ NextQueued(att[cur]) = 0
  /\ Refresh
  /\ att' = att /\ FinishRun
  /\ NextRun
  /\ UNCHANGED <<fixed, cache, db>>

SeeCanceled ==
  /\ pc = "loop" /\ ~NextQueuedRaises
  /\ NextQueued(att[cur]) # 0 /\ Canceled
  /\ Refresh
  /\ att' = [att EXCEPT ![cur] = CancelRows(@)]
  /\ run' = [run EXCEPT ![cur] = "canceled"]
  /\ NextRun
  /\ UNCHANGED <<fixed, cache, db>>

SelectAttempt ==
  /\ pc = "loop" /\ ~NextQueuedRaises
  /\ NextQueued(att[cur]) # 0 /\ ~Canceled
  /\ Refresh
  /\ sel' = NextQueued(att[cur]) /\ pc' = "ready"
  /\ UNCHANGED <<fixed, run, att, cache, cur, db>>

\* The truncation and context-budget checks, then, past the cache, the policy check.
CacheHit == controls.cache_provider_calls /\ KeyOf[cur] \in cache
ContextGate == gate[cur] \in {"unsupported_truncation_policy", "context_budget_exceeded"}

BlockRun ==
  /\ pc = "ready"
  /\ \/ ContextGate
     \/ gate[cur] = "policy" /\ ~CacheHit /\ ~CapReached
  /\ att' = [att EXCEPT ![cur] =
               BlockRows(@, IF ContextGate THEN gate[cur] ELSE "provider_blocked")]
  /\ FinishRun
  /\ NextRun
  /\ UNCHANGED <<fixed, exp, cache, db, ext, history>>

\* Mutant: the reused response is not marked as a cache hit.
ApplyUnmarkedResponse ==
  /\ pc = "ready" /\ ~ContextGate /\ CacheHit
  /\ att' = [att EXCEPT ![cur][sel].status = "succeeded"]
  /\ pc' = "loop"
  /\ UNCHANGED <<fixed, exp, run, cache, cur, sel, db, ext, history>>

ApplyCachedResponse ==
  /\ pc = "ready" /\ ~ContextGate /\ CacheHit
  /\ att' = [att EXCEPT ![cur][sel] =
               [@ EXCEPT !.status = "succeeded", !.cache_hit = TRUE]]
  /\ pc' = "loop"
  /\ UNCHANGED <<fixed, exp, run, cache, cur, sel, db, ext, history>>

SkipOverCap ==
  /\ pc = "ready" /\ ~ContextGate /\ ~CacheHit /\ CapReached
  /\ att' = [att EXCEPT ![cur][sel] = Refused(@, "cost_cap_exceeded")]
  /\ run' = [run EXCEPT ![cur] = "skipped"]
  /\ NextRun
  /\ UNCHANGED <<fixed, exp, cache, db, ext, history>>

Called(row) == [row EXCEPT !.calls = @ + 1, !.status = "running"]

StartCall ==
  /\ pc = "ready" /\ ~ContextGate /\ ~CacheHit /\ ~CapReached
  /\ gate[cur] # "policy"
  /\ att' = [att EXCEPT ![cur][sel] = Called(@)]
  /\ pc' = "call"
  /\ late' = IF ext THEN late + 1 ELSE late
  /\ UNCHANGED <<fixed, exp, run, cache, cur, sel, db, ext, lost>>
-----------------------------------------------------------------------------
\* _run_provider_attempt: how the call ends.

CallSucceeds(cost) ==
  /\ pc = "call"
  /\ att' = [att EXCEPT ![cur][sel] = [@ EXCEPT !.status = "succeeded", !.cost = cost]]
  /\ cache' = IF controls.cache_provider_calls THEN cache \cup {KeyOf[cur]} ELSE cache
  /\ pc' = "loop"
  /\ UNCHANGED <<fixed, exp, run, cur, sel, db, ext, history>>

Failed(kind, why) ==
  [att[cur] EXCEPT ![sel] =
     [@ EXCEPT !.status = "failed", !.error_kind = kind, !.reason = why]]

CallFailsRetry ==
  /\ pc = "call" /\ ShouldRetry(att[cur][sel])
  /\ LET failed == Failed("retryable", "none")
     IN  att' = [att EXCEPT ![cur] =
                   Append(failed, RetryRow(failed, sel, ~controls.backoff))]
  /\ pc' = "loop"
  /\ UNCHANGED <<fixed, exp, run, cache, cur, sel, db, ext, history>>

CallFailsForGood(kind) ==
  /\ pc = "call"
  /\ kind = "retryable" => ~ShouldRetry(att[cur][sel])
  /\ att' = [att EXCEPT ![cur] = Failed(kind, "error_message")]
  /\ FinishRun
  /\ NextRun
  /\ UNCHANGED <<fixed, exp, cache, db, ext, history>>
-----------------------------------------------------------------------------
\* The end of execute_experiment, and the caller's commit.

Statuses == {run[r] : r \in Runs}

FinishExperiment ==
  /\ pc = "next" /\ cur = NRuns + 1
  /\ exp' = Verdict(exp, Statuses)
  /\ UNCHANGED <<run, att, cache>>
  /\ Commit
  /\ pc' = "idle" /\ cur' = 0 /\ ext' = FALSE /\ late' = 0
  /\ UNCHANGED <<fixed, sel, lost>>

\* An exception outside the provider call, or the death of the worker: the
\* session closes without a commit.
Rollback ==
  /\ exp' = db.exp /\ run' = db.run /\ att' = db.att /\ cache' = db.cache
  /\ lost' = (lost \/ \E r \in Runs : \E i \in DOMAIN att[r] :
                        att[r][i].calls > 0
                        /\ (i \in DOMAIN db.att[r] => db.att[r][i].calls = 0))
  /\ pc' = "idle" /\ cur' = 0 /\ sel' = 0 /\ late' = 0
  /\ UNCHANGED <<fixed, db, ext>>

Crash == pc # "idle" /\ controls.backend # "autocommit" /\ Rollback

NaiveTimestamp ==
  /\ \/ AtRun /\ gate[cur] = "no_adapter" /\ exp # "canceled" /\ run[cur] # "canceled"
     \/ pc = "loop"
  /\ NextQueuedRaises
  /\ Rollback

\* Another connection commits experiments.status = canceled during an execution.
ExternalCancel ==
  /\ pc # "idle" /\ controls.backend = "autocommit"
  /\ exp # "canceled" /\ ~ext
  /\ ext' = TRUE
  /\ UNCHANGED <<fixed, rows, pc, cur, sel, db, history>>

\* The backoff of row i of run r ends.
BackoffEnds(r, i) ==
  /\ i \in DOMAIN att[r] /\ att[r][i].status = "queued" /\ ~att[r][i].due
  /\ att' = [att EXCEPT ![r] = Ripen(@, i)]
  /\ db' = [db EXCEPT !.att[r] = Ripen(@, i)]
  /\ UNCHANGED <<fixed, exp, run, cache, pc, cur, sel, ext, history>>
-----------------------------------------------------------------------------
Monitor == CancelExperiment \/ \E r \in Runs : CancelRun(r) \/ RetryRun(r)

Worker ==
  \/ SkipCanceledRun \/ NoAdapter \/ BeginRun
  \/ NothingQueued \/ SeeCanceled \/ SelectAttempt
  \/ BlockRun \/ ApplyCachedResponse \/ SkipOverCap \/ StartCall
  \/ (\E c \in Costs : CallSucceeds(c)) \/ CallFailsRetry
  \/ (\E k \in ErrorKind \ {"none", "blocked_by_config"} : CallFailsForGood(k))
  \/ FinishExperiment \/ NaiveTimestamp

Environment ==
  \/ Crash \/ ExternalCancel
  \/ \E r \in Runs : \E i \in DOMAIN att[r] : BackoffEnds(r, i)

Next == Monitor \/ ExecuteCanceled \/ StartExperiment \/ Worker \/ Environment

Spec == Init /\ [][Next]_vars

\* A started execution keeps running: the worker process executes it in a
\* straight line and the queue's job timeout ends a provider call that hangs.
FairSpec == Spec /\ WF_vars(Worker)

\* The user executes the experiment again and again (run_manifest accepts an
\* experiment it has already stored) and time passes.
ReexecutionSpec ==
  /\ FairSpec /\ WF_vars(StartExperiment)
  /\ \A r \in Runs : \A i \in 1 .. MaxRows + Replicates :
       WF_vars(i \in DOMAIN att[r] /\ BackoffEnds(r, i))
-----------------------------------------------------------------------------
TypeOK ==
  /\ controls \in ControlSnapshot /\ gate \in [Runs -> Gate]
  /\ exp \in ExperimentStatus /\ run \in [Runs -> RunStatus]
  /\ att \in [Runs -> Seq(RunAttempt)] /\ cache \subseteq Keys
  /\ pc \in {"idle", "next", "loop", "ready", "call"}
  /\ cur \in 0 .. NRuns + 1 /\ sel \in Nat
  /\ db \in [exp : ExperimentStatus, run : [Runs -> RunStatus],
             att : [Runs -> Seq(RunAttempt)], cache : SUBSET Keys]
  /\ ext \in BOOLEAN /\ late \in Nat /\ lost \in BOOLEAN

Row(r, i) == att[r][i]

\* A retry row continues the chain of the row it names: same replicate, the
\* next attempt number, and the parent is an earlier row that stayed failed.
RetryChain ==
  \A r \in Runs : \A i \in DOMAIN att[r] :
    IF Row(r, i).attempt_kind = "replicate"
    THEN Row(r, i).parent = 0 /\ Row(r, i).attempt_number = 1
    ELSE /\ Row(r, i).parent \in 1 .. i - 1
         /\ LET p == Row(r, Row(r, i).parent)
            IN  /\ p.status = "failed"
                /\ Row(r, i).attempt_number = p.attempt_number + 1
                /\ Row(r, i).replicate_index = p.replicate_index

\* No failed row is retried twice, whether by the executor or by the monitor's
\* retry button: retries of a replicate form a chain, never a tree.
OneRetryPerAttempt ==
  \A r \in Runs : \A i, j \in DOMAIN att[r] :
    Row(r, i).parent = Row(r, j).parent /\ Row(r, i).parent # 0 => i = j

\* What the rows say about provider calls is what happened: at most one call
\* per row, none for a row a policy refused or the cache answered, and only a
\* called row has a cost.
CallAccounting ==
  \A r \in Runs : \A i \in DOMAIN att[r] :
    /\ Row(r, i).calls <= 1
    /\ Row(r, i).calls = 1 => Row(r, i).status \in {"running", "succeeded", "failed"}
    /\ Row(r, i).status = "succeeded" => (Row(r, i).cache_hit <=> Row(r, i).calls = 0)
    /\ Row(r, i).error_kind = "blocked_by_config" => Row(r, i).calls = 0
    /\ Row(r, i).cost > 0 => Row(r, i).calls = 1

\* A failure is never dropped silently: a failed row carries a terminal reason
\* or there is a retry made from it.
FailureExplained ==
  \A r \in Runs : \A i \in DOMAIN att[r] :
    Row(r, i).status = "failed" /\ Row(r, i).reason = "none"
      => \E j \in DOMAIN att[r] : Row(r, j).parent = i

\* The status of a run that is not executing agrees with its rows: complete
\* means the latest row succeeded, pending means work is left, canceled means
\* none is, skipped means the cost cap refused a row.
VerdictMatchesRows ==
  \A r \in Runs :
    LET s == att[r] IN
    /\ run[r] = "complete" => s[Len(s)].status = "succeeded"
    /\ run[r] = "pending"  => \E i \in DOMAIN s : s[i].status = "queued"
    /\ run[r] = "canceled" => \A i \in DOMAIN s : s[i].status \in Terminal
    /\ run[r] = "skipped"  => \E i \in DOMAIN s : s[i].reason = "cost_cap_exceeded"
    /\ run[r] = "failed"   => \/ s[Len(s)].status = "failed"
                             \/ gate[r] = "no_adapter"

\* Nothing durable is ever left "running": no status a later execution or the
\* monitor would have to repair survives a commit or a rollback.
NothingLeftRunning ==
  /\ db.exp # "running"
  /\ \A r \in Runs : /\ db.run[r] # "running"
                     /\ \A i \in DOMAIN db.att[r] : db.att[r][i].status # "running"

\* The cap is checked before each call, so the total passes it by less than the
\* cost of one call.
CapOvershootBounded ==
  controls.max_total_cost # NoCap
    => Spent = 0 \/ \E c \in Costs : Spent < controls.max_total_cost + c

\* However late an external cancellation comes, at most one more provider call
\* starts before the executor has noticed it.
OneLateCall == late <= 1

\* A canceled experiment stays canceled, committed or as the session sees it.  A
\* cancellation that another connection has committed is taken over by the next
\* refresh; no crash and no rollback loses it, and only an execution that ends
\* without another refresh does: it writes its verdict over the cancellation.
CancellationLostOnlyAtEnd ==
  [][/\ db.exp = "canceled" => db'.exp = "canceled"
     /\ exp = "canceled" => exp' = "canceled"
     /\ ext => ext' \/ exp' = "canceled" \/ FinishExperiment]_vars

\* Once the session knows of the cancellation no provider call starts.
NoCallOnceCanceled ==
  [][pc = "ready" /\ pc' = "call" => exp # "canceled" /\ run[cur] # "canceled"]_vars

\* A started execution ends: retries, cache hits and refusals never loop for ever.
ExecutionEnds == (pc # "idle") ~> (pc = "idle")

\* Every provider call is on record: the rows of a call are never rolled back.
EveryCallRecorded == ~lost

\* When executions are repeated and crashes stop, no attempt stays queued for
\* ever: a retry that was promised is made, refused or canceled.  (The end of an
\* execution that found nothing to do is the same step as a crash just before it.)
QueuedAttemptSettles ==
  <>[][Crash => NaiveTimestamp \/ FinishExperiment]_vars
    => \A r \in Runs : \A i \in 1 .. MaxRows + Replicates :
         (i \in DOMAIN att[r] /\ att[r][i].status = "queued")
           ~> (i \notin DOMAIN att[r] \/ att[r][i].status \in Terminal \/ exp = "canceled")

\* The committed rows evolve as the ledger of AttemptLedger does.
Ledger == INSTANCE AttemptLedger WITH ledger <- db.att
LedgerSpec == Ledger!Spec
=============================================================================
