------------------------- MODULE ExperimentSessions -------------------------
(***************************************************************************)
(* The database sessions that meet on one experiment: the workers that run *)
(* execute_experiment_job, and the requests that queue, edit, cancel or    *)
(* retry it.                                                               *)
(*                                                                         *)
(* db is what is committed.  A session reads rows one statement at a time, *)
(* keeps them in view (autoflush and expire_on_commit are off, so nothing  *)
(* is read again), and its flush writes the columns whose value it changed *)
(* over whatever is committed by then.  A request flushes and commits in   *)
(* one step.  A worker flushes as it goes: from its first flush on, lock   *)
(* names it as holder of the experiment row, and touched are the runs      *)
(* whose rows it has locked; both last until it commits or dies.           *)
(*                                                                         *)
(* What happens between two reads of a worker inside one run, and the      *)
(* retries it makes itself, are the subject of Executor: here a queued row *)
(* is called and succeeds, or fails and ends its run.                      *)
(***************************************************************************)
EXTENDS AttemptRows, FiniteSets

CONSTANTS
  Workers,      \* RQ worker processes
  Clients,      \* requests in flight against the API
  NRuns,        \* logical runs of the experiment
  Backends,     \* the databases explored
  NoOne,        \* no session holds the lock
  MaxRows,      \* bound: a retry is asked for while a run has fewer rows
  MaxJobs,      \* bound: an experiment is queued while fewer jobs wait
  MaxEdits      \* bound: edits of the draft

Sessions == Workers \cup Clients
Runs == 1 .. NRuns

ASSUME SessionsAssumption ==
  /\ NRuns \in Nat \ {0} /\ MaxRows \in Nat /\ MaxJobs \in Nat /\ MaxEdits \in Nat
  /\ Workers \cap Clients = {} /\ NoOne \notin Sessions
  /\ Backends \subseteq {"postgres", "sqlite"}

VARIABLES
  backend,   \* "postgres": row locks; "sqlite": one write lock, which times out
  db,        \* the committed rows; gen counts the edits that replaced them
  jobs,      \* execution jobs in the queue
  lock,      \* the worker whose uncommitted write holds the experiment row
  touched,   \* the runs whose rows that worker has locked
  pc, view,  \* of each session
  op, arg,   \* what a client asks for, and of which run
  cur        \* the run a worker is at

vars   == <<backend, db, jobs, lock, touched, pc, view, op, arg, cur>>
locks  == <<lock, touched>>
client == <<op, arg>>

NewRows == [r \in Runs |-> <<ReplicateRow(1)>>]
Blank   == [exp |-> "draft", run |-> [r \in Runs |-> "pending"],
            att |-> [r \in Runs |-> <<>>], gen |-> 0]

\* A stored draft.  audited are the runs that audit_logs rows refer to.
Init ==
  /\ backend \in Backends
  /\ db = [exp |-> "draft", run |-> [r \in Runs |-> "pending"], att |-> NewRows,
           gen |-> 0, audited |-> {}]
  /\ jobs = 0 /\ lock = NoOne /\ touched = {}
  /\ pc = [s \in Sessions |-> "idle"] /\ view = [s \in Sessions |-> Blank]
  /\ op = [c \in Clients |-> "none"] /\ arg = [c \in Clients |-> 1]
  /\ cur = [w \in Workers |-> 0]

Goto(s, label) == pc' = [pc EXCEPT ![s] = label]
End(s) == Goto(s, "idle") /\ view' = [view EXCEPT ![s] = Blank]

EndRequest(c) ==
  End(c) /\ op' = [op EXCEPT ![c] = "none"] /\ arg' = [arg EXCEPT ![c] = 1]

\* The rows of the runs a session has read; none when they have been replaced.
RowsRead(s) == IF view[s].gen = db.gen THEN db.att ELSE [r \in Runs |-> <<>>]
-----------------------------------------------------------------------------
\* What a flush writes: value where the session changed what it had read.
Column(read, value, stored) == IF value # read THEN value ELSE stored

CancelStored(read, stored) ==
  [i \in DOMAIN stored |->
     IF i \in DOMAIN read /\ read[i].status \in Open
     THEN [stored[i] EXCEPT !.status = "canceled"] ELSE stored[i]]

\* A flush that updates a deleted row raises StaleDataError.
Cancels(v, R) ==
  \E r \in R : CancelRows(v.att[r]) # v.att[r] \/ CancelStatus(v.att[r], v.run[r]) # v.run[r]
Stale(v, R) == v.gen # db.gen /\ Cancels(v, R)

\* The rows of the runs in R are canceled as v shows them.
CanceledRuns(v, R) ==
  [db EXCEPT
     !.run = [r \in Runs |-> IF r \in R
                             THEN Column(v.run[r], CancelStatus(v.att[r], v.run[r]), @[r])
                             ELSE @[r]],
     !.att = [r \in Runs |-> IF r \in R /\ v.gen = db.gen
                             THEN CancelStored(v.att[r], @[r]) ELSE @[r]]]

\* The rows a request's flush updates; SQLAlchemy leaves out unchanged ones.
WritesExperiment(c) ==
  \/ op[c] \in {"queue", "edit"}
  \/ op[c] = "cancel_experiment" /\ view[c].exp # "canceled"
  \/ op[c] = "retry" /\ view[c].exp \notin {"canceled", "queued"}
WritesRun(c, r) ==
  \/ op[c] = "edit"
  \/ op[c] = "retry" /\ r = arg[c] /\ view[c].run[r] # "pending"
  \/ /\ op[c] = "cancel_experiment" \/ (op[c] = "cancel_run" /\ r = arg[c])
     /\ Cancels(view[c], {r})

CancelsAttempts(v, r) == CancelRows(v.att[r]) # v.att[r]

\* The worker has passed the canceled run r and gone on to another one, whose
\* flush also wrote the cancellation of the open attempts of r.
Canceling(r) ==
  /\ lock # NoOne /\ r \notin touched
  /\ CancelsAttempts(view[lock], r) /\ \E later \in touched : r < later

\* They are locked by a worker.
Blocked(c) ==
  /\ lock # NoOne
  /\ \/ backend = "sqlite"
     \/ WritesExperiment(c)
     \/ \E r \in touched : WritesRun(c, r)
     \/ \E r \in Runs : Canceling(r) /\ WritesRun(c, r) /\ CancelsAttempts(view[c], r)
-----------------------------------------------------------------------------
\* The requests.  The first read of each, and its early returns.

AskCancelExperiment(c) ==
  /\ pc[c] = "idle"
  /\ op' = [op EXCEPT ![c] = "cancel_experiment"]
  /\ view' = [view EXCEPT ![c].exp = db.exp] /\ Goto(c, "runs")
  /\ UNCHANGED <<backend, db, jobs, locks, arg, cur>>

AskCancelRun(c, r) ==
  /\ pc[c] = "idle"
  /\ op' = [op EXCEPT ![c] = "cancel_run"] /\ arg' = [arg EXCEPT ![c] = r]
  /\ view' = [view EXCEPT ![c].run = db.run, ![c].gen = db.gen] /\ Goto(c, "attempts")
  /\ UNCHANGED <<backend, db, jobs, locks, cur>>

AskRetry(c, r) ==
  /\ pc[c] = "idle" /\ Len(db.att[r]) < MaxRows
  /\ op' = [op EXCEPT ![c] = "retry"] /\ arg' = [arg EXCEPT ![c] = r]
  /\ view' = [view EXCEPT ![c].run = db.run, ![c].gen = db.gen] /\ Goto(c, "attempts")
  /\ UNCHANGED <<backend, db, jobs, locks, cur>>

\* Only a draft is queued or edited; any other experiment gets a 409.
AskQueue(c) ==
  /\ pc[c] = "idle" /\ db.exp = "draft" /\ jobs < MaxJobs
  /\ op' = [op EXCEPT ![c] = "queue"]
  /\ view' = [view EXCEPT ![c].exp = db.exp] /\ Goto(c, "enqueue")
  /\ UNCHANGED <<backend, db, jobs, locks, arg, cur>>

AskEdit(c) ==
  /\ pc[c] = "idle" /\ db.exp = "draft" /\ db.gen < MaxEdits
  /\ op' = [op EXCEPT ![c] = "edit"]
  /\ view' = [view EXCEPT ![c].exp = db.exp] /\ Goto(c, "runs")
  /\ UNCHANGED <<backend, db, jobs, locks, arg, cur>>

\* The lazy loads of experiment.runs and of run.attempts.
ReadRuns(c) ==
  /\ c \in Clients /\ pc[c] = "runs"
  /\ view' = [view EXCEPT ![c].run = db.run, ![c].gen = db.gen] /\ Goto(c, "attempts")
  /\ UNCHANGED <<backend, db, jobs, locks, client, cur>>

ReadAttempts(c) ==
  /\ pc[c] = "attempts" /\ op[c] # "retry"
  /\ view' = [view EXCEPT ![c].att = RowsRead(c)] /\ Goto(c, "write")
  /\ UNCHANGED <<backend, db, jobs, locks, client, cur>>

\* create_retry_attempt_for_run: nothing is written unless no retry is open
\* and the latest row failed; then the experiment is read as well.
Retryable(s) == s # <<>> /\ ~HasOpenRetry(s) /\ s[Len(s)].status = "failed"

ReadRetried(c) ==
  /\ pc[c] = "attempts" /\ op[c] = "retry"
  /\ IF Retryable(RowsRead(c)[arg[c]])
     THEN /\ view' = [view EXCEPT ![c].att = RowsRead(c)] /\ Goto(c, "experiment")
          /\ UNCHANGED client
     ELSE EndRequest(c)
  /\ UNCHANGED <<backend, db, jobs, locks, cur>>

ReadRetriedExperiment(c) ==
  /\ pc[c] = "experiment"
  /\ view' = [view EXCEPT ![c].exp = db.exp] /\ Goto(c, "write")
  /\ UNCHANGED <<backend, db, jobs, locks, client, cur>>

\* enqueue_experiment_execution pushes four jobs, the second being the
\* execution.  When Redis fails the request ends with a 503, whichever of
\* them have already been pushed.
Enqueue(c) ==
  /\ pc[c] = "enqueue"
  /\ \/ jobs' = jobs + 1 /\ Goto(c, "write") /\ UNCHANGED <<view, client>>
     \/ jobs' \in {jobs, jobs + 1} /\ EndRequest(c)
  /\ UNCHANGED <<backend, db, locks, cur>>
-----------------------------------------------------------------------------
\* The flush and commit of each request.

Writes(c, o) == pc[c] = "write" /\ op[c] = o /\ ~Blocked(c)

CommitCancelExperiment(c) ==
  /\ Writes(c, "cancel_experiment")
  /\ db' = IF Stale(view[c], Runs) THEN db
           ELSE [CanceledRuns(view[c], Runs) EXCEPT !.exp = Column(view[c].exp, "canceled", @)]
  /\ EndRequest(c)
  /\ UNCHANGED <<backend, jobs, locks, cur>>

CommitCancelRun(c) ==
  /\ Writes(c, "cancel_run")
  /\ db' = IF Stale(view[c], {arg[c]}) THEN db
           ELSE [CanceledRuns(view[c], {arg[c]}) EXCEPT !.audited = @ \cup {arg[c]}]
  /\ EndRequest(c)
  /\ UNCHANGED <<backend, jobs, locks, cur>>

\* Mutant: attempt ids are not unique within a run.
NeverTaken(r, row) == FALSE

\* uq_run_attempts_run_attempt_id: the retry's attempt_id names its parent.
Taken(r, row) ==
  \E i \in DOMAIN db.att[r] : /\ db.att[r][i].parent = row.parent
                              /\ db.att[r][i].attempt_number = row.attempt_number

CommitRetry(c) ==
  /\ Writes(c, "retry")
  /\ LET r   == arg[c]
         v   == view[c]
         row == RetryRow(v.att[r], Len(v.att[r]), TRUE)
     IN  db' = IF v.gen # db.gen \/ Taken(r, row) THEN db
               ELSE [db EXCEPT
                       !.att[r] = Append(@, row),
                       !.run[r] = Column(v.run[r], "pending", @),
                       !.exp = IF v.exp = "canceled" THEN @ ELSE Column(v.exp, "queued", @),
                       !.audited = @ \cup {r}]
  /\ EndRequest(c)
  /\ UNCHANGED <<backend, jobs, locks, cur>>

CommitQueue(c) ==
  /\ Writes(c, "queue")
  /\ db' = [db EXCEPT !.exp = "queued"]
  /\ EndRequest(c)
  /\ UNCHANGED <<backend, jobs, locks, cur>>

\* Mutant: audit rows do not keep a run from being deleted.
Unreferenced == TRUE

\* audit_logs refers to runs and attempts without ON DELETE.
Deletable == db.audited = {}

\* The edit deletes every run and creates those of the new manifest, which
\* differs from the old one.  Of two edits the second fails on
\* uq_runs_experiment_run_id.
CommitEdit(c) ==
  /\ Writes(c, "edit")
  /\ db' = IF view[c].gen # db.gen \/ ~Deletable THEN db
           ELSE [db EXCEPT !.run = [r \in Runs |-> "pending"], !.att = NewRows, !.gen = @ + 1]
  /\ EndRequest(c)
  /\ UNCHANGED <<backend, jobs, locks, cur>>

\* SQLite gives up waiting for the write lock: "database is locked".
GiveUp(s, label) == backend = "sqlite" /\ lock \notin {NoOne, s} /\ pc[s] = label

RequestTimeout(c) ==
  /\ GiveUp(c, "write") /\ EndRequest(c)
  /\ UNCHANGED <<backend, db, jobs, locks, cur>>
-----------------------------------------------------------------------------
\* execute_experiment_job.

TakeJob(w) ==
  /\ pc[w] = "idle" /\ jobs > 0
  /\ jobs' = jobs - 1 /\ Goto(w, "get")
  /\ UNCHANGED <<backend, db, locks, view, client, cur>>

\* session.get(Experiment): its status, and the controls of this edit.
GetExperiment(w) ==
  /\ pc[w] = "get"
  /\ view' = [view EXCEPT ![w].exp = db.exp, ![w].gen = db.gen]
  /\ Goto(w, IF db.exp = "canceled" THEN "cancel" ELSE "begin")
  /\ UNCHANGED <<backend, db, jobs, locks, client, cur>>

\* A canceled experiment: cancel whatever is open, and commit.
ReadCanceled(w) ==
  /\ pc[w] = "cancel"
  /\ view' = [view EXCEPT ![w].run = db.run, ![w].att = db.att, ![w].gen = db.gen]
  /\ Goto(w, "commit_canceled")
  /\ UNCHANGED <<backend, db, jobs, locks, client, cur>>

CommitCanceled(w) ==
  /\ pc[w] = "commit_canceled"
  /\ \/ lock = NoOne
     \/ /\ backend = "postgres" /\ \A r \in touched : ~Cancels(view[w], {r})
        /\ \A r \in Runs : Canceling(r) => ~CancelsAttempts(view[w], r)
  /\ db' = IF Stale(view[w], Runs) THEN db ELSE CanceledRuns(view[w], Runs)
  /\ End(w)
  /\ UNCHANGED <<backend, jobs, locks, client, cur>>

\* Mutant: the runs are read without flushing the status first.
BeginUnflushed(w) ==
  /\ pc[w] = "begin"
  /\ lock' = IF lock = NoOne THEN w ELSE lock
  /\ view' = [view EXCEPT ![w].exp = "running"]
  /\ Goto(w, "load_runs")
  /\ UNCHANGED <<backend, db, jobs, touched, client, cur>>

\* The flush of status = running waits for the experiment row.
Begin(w) ==
  /\ pc[w] = "begin" /\ lock = NoOne
  /\ lock' = w
  /\ view' = [view EXCEPT ![w].exp = "running"]
  /\ Goto(w, "load_runs")
  /\ UNCHANGED <<backend, db, jobs, touched, client, cur>>

LoadRuns(w) ==
  /\ pc[w] = "load_runs"
  /\ view' = [view EXCEPT ![w].run = db.run]
  /\ cur' = [cur EXCEPT ![w] = 1] /\ Goto(w, "run")
  /\ UNCHANGED <<backend, db, jobs, locks, client>>

NextRun(w) == cur' = [cur EXCEPT ![w] = @ + 1] /\ Goto(w, "run")

\* The attempts of a canceled run are loaded, and canceled in memory alone: the
\* flush that writes it is that of the next run, or of the commit.
SkipCanceledRun(w) ==
  /\ pc[w] = "run" /\ cur[w] \in Runs /\ view[w].run[cur[w]] = "canceled"
  /\ view' = [view EXCEPT ![w].att[cur[w]] = db.att[cur[w]]]
  /\ NextRun(w)
  /\ UNCHANGED <<backend, db, jobs, locks, client>>

\* The flush of the run's status takes its row; the attempts are loaded after it.
BeginRun(w) ==
  /\ pc[w] = "run" /\ cur[w] \in Runs /\ view[w].run[cur[w]] # "canceled"
  /\ touched' = touched \cup {cur[w]}
  /\ view' = [view EXCEPT ![w].run[cur[w]] = "running"]
  /\ Goto(w, "load")
  /\ UNCHANGED <<backend, db, jobs, lock, client, cur>>

LoadAttempts(w) ==
  /\ pc[w] = "load"
  /\ view' = [view EXCEPT ![w].att[cur[w]] = db.att[cur[w]]]
  /\ Goto(w, "select")
  /\ UNCHANGED <<backend, db, jobs, locks, client, cur>>

Selected(w) == NextQueued(view[w].att[cur[w]])

Settle(w, rows) ==
  view' = [view EXCEPT ![w].att[cur[w]] = rows, ![w].run[cur[w]] = StatusFromAttempts(rows)]

Called(row) == [row EXCEPT !.status = "running", !.calls = @ + 1]

StartCall(w) ==
  /\ pc[w] = "select" /\ Selected(w) # 0
  /\ view' = [view EXCEPT ![w].att[cur[w]][Selected(w)] = Called(@)]
  /\ Goto(w, "call")
  /\ UNCHANGED <<backend, db, jobs, locks, client, cur>>

Calling(w) == CHOOSE i \in DOMAIN view[w].att[cur[w]] :
                view[w].att[cur[w]][i].status = "running"
Ended(w, status) ==
  [view[w].att[cur[w]] EXCEPT ![Calling(w)].status = status]

CallSucceeds(w) ==
  /\ pc[w] = "call"
  /\ view' = [view EXCEPT ![w].att[cur[w]] = Ended(w, "succeeded")]
  /\ Goto(w, "select")
  /\ UNCHANGED <<backend, db, jobs, locks, client, cur>>

CallFails(w) ==
  /\ pc[w] = "call"
  /\ Settle(w, Ended(w, "failed"))
  /\ NextRun(w)
  /\ UNCHANGED <<backend, db, jobs, locks, client>>

NothingQueued(w) ==
  /\ pc[w] = "select" /\ Selected(w) = 0
  /\ Settle(w, view[w].att[cur[w]])
  /\ NextRun(w)
  /\ UNCHANGED <<backend, db, jobs, locks, client>>

\* Mutant: the worker's rows replace those that are stored.
OnlyLoaded(loaded, stored) == loaded

\* What the worker's flushes leave: its own rows, and those inserted since it
\* loaded them.
Merged(loaded, stored) ==
  loaded \o SubSeq(stored, Len(loaded) + 1, Len(stored))

\* The verdict and what the flushes of an execution leave.  The runs that it
\* began are those it touched; of the others it cancels what was open.
Executed(w) ==
  [db EXCEPT
     !.exp = Verdict(view[w].exp, {view[w].run[r] : r \in Runs}),
     !.run = [r \in Runs |-> IF r \in touched THEN view[w].run[r] ELSE @[r]],
     !.att = [r \in Runs |-> IF r \in touched THEN Merged(view[w].att[r], @[r])
                             ELSE CancelStored(view[w].att[r], @[r])],
     !.audited = @ \cup {r \in touched : \E i \in DOMAIN view[w].att[r] :
                                           view[w].att[r][i].calls > 0}]

Ends(w) == pc[w] = "run" /\ cur[w] = NRuns + 1

\* Mutant: the worker ends without closing its transaction.
FinishHoldingLock(w) ==
  /\ Ends(w)
  /\ db' = Executed(w)
  /\ End(w) /\ cur' = [cur EXCEPT ![w] = 0]
  /\ UNCHANGED <<backend, jobs, locks, client>>

\* session.commit() and the end of the job.
Finish(w) ==
  /\ Ends(w)
  /\ db' = Executed(w)
  /\ lock' = NoOne /\ touched' = {}
  /\ End(w) /\ cur' = [cur EXCEPT ![w] = 0]
  /\ UNCHANGED <<backend, jobs, client>>

JobTimeout(w) ==
  /\ GiveUp(w, "begin") \/ GiveUp(w, "commit_canceled")
  /\ End(w)
  /\ UNCHANGED <<backend, db, jobs, locks, client, cur>>

\* The worker dies, or an exception ends the job: its transaction is rolled back.
Die(w) ==
  /\ pc[w] # "idle"
  /\ IF lock = w THEN lock' = NoOne /\ touched' = {} ELSE UNCHANGED locks
  /\ End(w) /\ cur' = [cur EXCEPT ![w] = 0]
  /\ UNCHANGED <<backend, db, jobs, client>>
-----------------------------------------------------------------------------
Answer(c) ==
  \/ ReadRuns(c) \/ ReadAttempts(c) \/ ReadRetried(c) \/ ReadRetriedExperiment(c)
  \/ Enqueue(c)
  \/ CommitCancelExperiment(c) \/ CommitCancelRun(c) \/ CommitRetry(c)
  \/ CommitQueue(c) \/ CommitEdit(c) \/ RequestTimeout(c)

Request(c) ==
  \/ AskCancelExperiment(c) \/ AskQueue(c) \/ AskEdit(c)
  \/ \E r \in Runs : AskCancelRun(c, r) \/ AskRetry(c, r)

Job(w) ==
  \/ TakeJob(w) \/ GetExperiment(w) \/ ReadCanceled(w) \/ CommitCanceled(w) \/ Begin(w) \/ LoadRuns(w)
  \/ SkipCanceledRun(w) \/ BeginRun(w) \/ LoadAttempts(w)
  \/ StartCall(w) \/ CallSucceeds(w) \/ CallFails(w) \/ NothingQueued(w)
  \/ Finish(w) \/ JobTimeout(w)

Next ==
  \/ \E c \in Clients : Request(c) \/ Answer(c)
  \/ \E w \in Workers : Job(w) \/ Die(w)

Spec == Init /\ [][Next]_vars

\* Request handlers and jobs are straight-line code, and a call ends (the job
\* timeout ends it if the provider does not).
FairSpec ==
  /\ Spec
  /\ \A c \in Clients : SF_vars(Answer(c))
  /\ \A w \in Workers : WF_vars(Job(w))
-----------------------------------------------------------------------------
Labels == {"idle", "runs", "attempts", "experiment", "enqueue", "write",
           "get", "cancel", "commit_canceled", "begin", "load_runs", "run", "load",
           "select", "call"}

TypeOK ==
  /\ backend \in Backends
  /\ db \in [exp : ExperimentStatus, run : [Runs -> RunStatus],
             att : [Runs -> Seq(RunAttempt)], gen : Nat, audited : SUBSET Runs]
  /\ jobs \in Nat /\ lock \in Workers \cup {NoOne} /\ touched \subseteq Runs
  /\ pc \in [Sessions -> Labels]
  /\ view \in [Sessions -> [exp : ExperimentStatus, run : [Runs -> RunStatus],
                            att : [Runs -> Seq(RunAttempt)], gen : Nat]]
  /\ op \in [Clients -> {"none", "cancel_experiment", "cancel_run", "retry", "queue", "edit"}]
  /\ arg \in [Clients -> Runs] /\ cur \in [Workers -> 0 .. NRuns + 1]

\* A provider call is only started for a row that is still queued in the
\* database and that no other worker is calling, although the experiment was
\* read before its lock was taken: a duplicated job makes no call twice, and a
\* row whose cancellation was committed is not called.
NoStaleCall ==
  [][\A w \in Workers :
       pc[w] = "select" /\ pc'[w] = "call"
         => LET r == cur[w] IN
            /\ db.gen = db'.gen /\ Selected(w) \in DOMAIN db.att[r]
            /\ db.att[r][Selected(w)].status = "queued"
            /\ \A v \in Workers \ {w} : pc[v] = "call" => cur[v] # r]_vars

\* Two retry requests that race make one retry: no committed row has two.
OneRetryPerAttempt ==
  \A r \in Runs : \A i, j \in DOMAIN db.att[r] :
    db.att[r][i].parent = db.att[r][j].parent /\ db.att[r][i].parent # 0 => i = j

\* An edit that was let through as an edit of a draft never deletes the record
\* of a provider call.
ExecutedRunsAreKept ==
  [][db'.gen # db.gen => \A r \in Runs : \A i \in DOMAIN db.att[r] : db.att[r][i].calls = 0]_vars

\* The attempt history is kept: until an edit replaces the runs, no commit drops
\* a row or makes it another attempt, not even the commit of an execution that
\* loaded the rows before a retry was inserted among them.
HistoryKept ==
  [][db'.gen = db.gen =>
       \A r \in Runs : \A i \in DOMAIN db.att[r] :
         /\ i \in DOMAIN db'.att[r]
         /\ db'.att[r][i].parent = db.att[r][i].parent
         /\ db'.att[r][i].calls >= db.att[r][i].calls]_vars

\* No request waits for ever, whatever the workers do while it waits.
RequestsAnswered == \A c \in Clients : (pc[c] # "idle") ~> (pc[c] = "idle")

\* "Failed provider calls and nondeterministic reruns never overwrite prior
\* attempts": a committed terminal row stays as it is.
TerminalRowsFinal ==
  [][db'.gen = db.gen =>
       \A r \in Runs : \A i \in DOMAIN db.att[r] :
         db.att[r][i].status \in Terminal => db'.att[r][i].status = db.att[r][i].status]_vars

\* "Queues execution through the queue adapter after marking experiments queued".
QueuedBeforeExecution == jobs > 0 => db.exp # "draft"

\* The commits of all sessions together make a history as AttemptHistory says.
History == INSTANCE AttemptHistory WITH history <- db.att, edition <- db.gen
HistorySpec == History!Spec
=============================================================================
