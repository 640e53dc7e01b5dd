------------------------------ MODULE Scoring ------------------------------
(***************************************************************************)
(* The automatic scores of one experiment: deterministic evaluators, the   *)
(* divergence from a no-warmer baseline, metric adapters and one LLM judge.*)
(*                                                                         *)
(* The experiment is a grid of models and warmers over one case and one    *)
(* system prompt; evaluation never relates rows of different cases or      *)
(* prompts.  Which attempt rows there may come to be, and their outcomes,  *)
(* is chosen at the start (ledger, in id order: a row's id is its index).  *)
(* Each execution commits the outcomes of some, with their scores, in one  *)
(* transaction.  A row has output text when it has succeeded.  A row the   *)
(* cost cap keeps from running ("blocked") fails, but its run is skipped   *)
(* and the experiment may be complete; nothing is canceled here.           *)
(*                                                                         *)
(* Every request is a database session that reads one statement at a time  *)
(* and commits once.  No constraint keeps a score from being stored twice: *)
(* it is looked up and inserted when it is not found.  The keys of one row *)
(* are looked up together, as no two requests differ in how they pair      *)
(* them.  An experiment has one execution of a judge (a unique constraint).*)
(***************************************************************************)
EXTENDS Naturals, FiniteSets, Sequences

CONSTANTS
  Sessions,    \* requests in flight
  Ledgers,     \* the attempt rows executions may leave, each a sequence
  Evaluators,  \* the code evaluators of the experiment
  Configs,     \* metric adapter configs that pass policy and input checks
  MaxRequests  \* bound: requests are made while fewer were

Models   == {row.model : row \in UNION {{l[i] : i \in DOMAIN l} : l \in Ledgers}}
Warmers  == {row.warmer : row \in UNION {{l[i] : i \in DOMAIN l} : l \in Ledgers}}
NoWarmer == "none"
NoRow    == 0

\* Only rows that failed are retried, so that a replicate succeeds in its last
\* row.
ASSUME ScoringAssumption ==
  /\ MaxRequests \in Nat
  /\ "divergence" \notin Evaluators \cup Configs
  /\ \A l \in Ledgers :
       /\ l \in Seq([model : Models, warmer : Warmers, replicate_index : Nat,
                     attempt_number : Nat, status : {"succeeded", "failed", "blocked"}])
       /\ \A i, j \in DOMAIN l :
            /\ l[i].model = l[j].model /\ l[i].warmer = l[j].warmer
            /\ l[i].replicate_index = l[j].replicate_index /\ i < j
            => l[i].status # "succeeded"

VARIABLES
  alone,      \* whether code and adapter scoring is requested one at a time
  ledger,     \* the rows there may come to be
  rows,       \* how many of them there are
  done,       \* the rows whose outcome is committed
  status,     \* of the experiment
  scores,     \* rows of scores by code, divergence and metric adapters
  execution,  \* judge_executions: the comparisons made, if the judge has run
  verdicts,   \* rows of scores by the judge
  calls,      \* history: the comparisons the judge's provider was asked, by request
  failed,     \* history: the judge requests that failed after asking
  made,       \* requests made so far, which numbers them
  pc, req, view   \* of each session: where it is, what it was asked, what it read

data == <<scores, execution, verdicts>>
runs == <<ledger, rows, done, status>>
vars == <<alone, runs, data, calls, failed, made, pc, req, view>>

Rows     == DOMAIN ledger
Existing == 1 .. rows

\* The run of a row: one per model and warmer.
SameRun(i, j) ==
  ledger[i].model = ledger[j].model /\ ledger[i].warmer = ledger[j].warmer
SameReplicate(i, j) == ledger[i].replicate_index = ledger[j].replicate_index
Succeeded(i) == ledger[i].status = "succeeded"

NoExecution == [by |-> 0, comparisons |-> {}]
NoRequest   == [kind |-> "none", keys |-> {}, force |-> FALSE, swap |-> FALSE,
                live |-> FALSE, id |-> 0]
Unread      == [todo |-> {}, fresh |-> {}, asked |-> {}, comparisons |-> {}, decided |-> {}]

Init ==
  /\ alone \in BOOLEAN /\ ledger \in Ledgers /\ rows \in 0 .. Len(ledger)
  /\ \A i \in Rows : i <= rows <=> ledger[i].attempt_number = 1
  /\ done = {} /\ status = "open" /\ scores = {} /\ execution = NoExecution /\ verdicts = {}
  /\ calls = {} /\ failed = {} /\ made = 0
  /\ pc = [s \in Sessions |-> "idle"]
  /\ req = [s \in Sessions |-> NoRequest]
  /\ view = [s \in Sessions |-> Unread]
-----------------------------------------------------------------------------
\* Executions.

\* The score to be stored for a row under a key; baseline is the row a
\* divergence is from.
CodeScores(attempts, keys) ==
  {[row |-> i, key |-> k, baseline |-> NoRow] : i \in {j \in attempts : Succeeded(j)}, k \in keys}

Stored(candidates, request, force) ==
  {[row |-> c.row, key |-> c.key, baseline |-> c.baseline, forced |-> force,
    by |-> request] : c \in candidates}

RetryOf(j, i) ==
  /\ SameRun(i, j) /\ SameReplicate(i, j)
  /\ i < j /\ ledger[j].attempt_number = ledger[i].attempt_number + 1

\* The run of row i after an execution that settled new, of n rows in all: it
\* was skipped by the cost cap, whatever rows it has left, or its latest row
\* has succeeded.
RunEnds(i, new, n) ==
  \E j \in done \cup new :
    /\ SameRun(i, j)
    /\ \A k \in done \cup new : SameRun(k, j) => k <= j
    /\ \/ ledger[j].status = "blocked" /\ j \in new
       \/ Succeeded(j) /\ \A k \in 1 .. n : SameRun(k, j) => k <= j

\* The commit of an execution, which may have retried rows that it saw fail.
\* The rows of a run are executed in order, since a row that is queued earlier
\* is due earlier.  Scores are looked up before they are stored, but nobody can
\* have scored a row that is not committed yet.
Execute ==
  \E n \in rows .. Len(ledger) : \E new \in SUBSET ((1 .. n) \ done) :
    /\ \A i \in done \cup new, j \in 1 .. n : SameRun(i, j) /\ j < i => j \in done \cup new
    /\ \A j \in (rows + 1) .. n :
         \E i \in new : RetryOf(j, i) /\ ledger[i].status = "failed"
    /\ rows' = n /\ done' = done \cup new
    /\ status' = IF \A i \in 1 .. n : RunEnds(i, new, n) THEN "complete" ELSE "open"
    /\ scores' = scores \cup Stored(CodeScores(new, Evaluators), 0, FALSE)
    /\ UNCHANGED <<alone, ledger, execution, verdicts, calls, failed, made, pc, req, view>>

\* create_retry_attempt_for_run: of a run whose latest row has failed, a skipped
\* one of a complete experiment too.
Retry ==
  /\ rows < Len(ledger)
  /\ \E i \in done : /\ ~Succeeded(i) /\ RetryOf(rows + 1, i)
                     /\ \A j \in Existing : SameRun(i, j) => j <= i
  /\ rows' = rows + 1 /\ status' = "open"
  /\ UNCHANGED <<alone, ledger, done, data, calls, failed, made, pc, req, view>>
-----------------------------------------------------------------------------
Goto(s, label) == pc' = [pc EXCEPT ![s] = label]

EndRequest(s) ==
  /\ Goto(s, "idle")
  /\ req' = [req EXCEPT ![s] = NoRequest] /\ view' = [view EXCEPT ![s] = Unread]

\* A new request, numbered; changes gives the fields that are not the default.
Begin(s, request) ==
  /\ pc[s] = "idle" /\ made < MaxRequests
  /\ made' = made + 1
  /\ req' = [req EXCEPT ![s] = request]
  /\ UNCHANGED <<alone, runs, data, calls, failed>>

IsScoring(s) == req[s].kind \in {"job", "cli", "adapter"}
MayScore     == alone => \A t \in Sessions : ~IsScoring(t)

\* _matching_baseline: the newest row of the same replicate without a warmer,
\* of those with text if there are any.
Baseline(i) ==
  LET same == {j \in done : /\ ledger[j].model = ledger[i].model
                            /\ ledger[j].warmer = NoWarmer /\ SameReplicate(i, j)}
      best == IF \E j \in same : Succeeded(j) THEN {j \in same : Succeeded(j)} ELSE same
  IN  IF best = {} THEN NoRow ELSE CHOOSE j \in best : \A k \in best : k <= j

Divergences ==
  {[row |-> i, key |-> "divergence", baseline |-> Baseline(i)] :
     i \in {j \in done : ledger[j].warmer # NoWarmer}}

\* Mutant: the scores executions store are not recognised.
AbsentElsewhere(candidates) ==
  {c \in candidates : ~\E x \in scores : x.row = c.row /\ x.key = c.key /\ x.by # 0}

\* _score_exists, _divergence_score_exists, _metric_adapter_score_exists: what
\* a divergence was measured from is not part of its key.
Absent(candidates) ==
  {c \in candidates : ~\E x \in scores : x.row = c.row /\ x.key = c.key}

\* Mutant: the status of the experiment is not looked at.
AskJobAnytime(s) ==
  /\ MayScore
  /\ Begin(s, [NoRequest EXCEPT !.kind = "job", !.keys = Evaluators, !.id = made + 1])
  /\ view' = [view EXCEPT ![s].todo = CodeScores(done, Evaluators)]
  /\ Goto(s, "score")

\* run_deterministic_evaluators_job; it does nothing before the experiment is
\* complete.
AskJob(s) ==
  /\ MayScore /\ status = "complete"
  /\ Begin(s, [NoRequest EXCEPT !.kind = "job", !.keys = Evaluators, !.id = made + 1])
  /\ view' = [view EXCEPT ![s].todo = CodeScores(done, Evaluators)]
  /\ Goto(s, "score")

\* headless.score_experiment, for one evaluator, whatever the status.
AskCli(s, e) ==
  /\ MayScore
  /\ Begin(s, [NoRequest EXCEPT !.kind = "cli", !.keys = {e}, !.id = made + 1])
  /\ view' = [view EXCEPT ![s].todo = CodeScores(done, {e})]
  /\ Goto(s, "score")

\* run_metric_adapters_for_experiment; a dry run stores nothing.
AskAdapters(s, configs, force) ==
  /\ MayScore
  /\ Begin(s, [NoRequest EXCEPT !.kind = "adapter", !.keys = configs, !.force = force,
                                !.id = made + 1])
  /\ view' = [view EXCEPT ![s].todo = CodeScores(done, configs)]
  /\ Goto(s, "score")

\* The keys of the least row left, by id.
LookUpRow(s) ==
  /\ pc[s] \in {"score", "diverge"} /\ view[s].todo # {}
  /\ LET first == {c \in view[s].todo : \A d \in view[s].todo : c.row <= d.row}
         fresh == IF req[s].force THEN first ELSE Absent(first)
     IN  view' = [view EXCEPT ![s].todo = @ \ first, ![s].fresh = @ \cup fresh]
  /\ UNCHANGED <<alone, runs, data, calls, failed, made, pc, req>>

\* The job goes on to the divergences, for which it reads the rows again.
ReadDivergences(s) ==
  /\ pc[s] = "score" /\ view[s].todo = {} /\ req[s].kind = "job"
  /\ view' = [view EXCEPT ![s].todo = Divergences]
  /\ Goto(s, "diverge")
  /\ UNCHANGED <<alone, runs, data, calls, failed, made, req>>

CommitScores(s) ==
  /\ pc[s] = IF req[s].kind = "job" THEN "diverge" ELSE "score"
  /\ view[s].todo = {}
  /\ scores' = scores \cup Stored(view[s].fresh, req[s].id, req[s].force)
  /\ EndRequest(s)
  /\ UNCHANGED <<alone, runs, execution, verdicts, calls, failed, made>>
-----------------------------------------------------------------------------
\* The judge.

\* _succeeded_attempts: of each run the succeeded row of the highest attempt
\* number, then of the highest id, whichever replicate it is of.
Supersedes(j, i) ==
  \/ ledger[j].attempt_number > ledger[i].attempt_number
  \/ ledger[j].attempt_number = ledger[i].attempt_number /\ j > i

JudgedRows ==
  {i \in done : /\ Succeeded(i)
                /\ ~\E j \in done : Succeeded(j) /\ SameRun(i, j) /\ Supersedes(j, i)}

\* Mutant: rows are grouped without their replicate.
PairsAcrossReplicates ==
  {p \in JudgedRows \X JudgedRows : p[1] < p[2] /\ ledger[p[1]].warmer = ledger[p[2]].warmer}

\* _pairwise_comparisons: two rows of one warmer and one replicate.
JudgePairs ==
  {p \in JudgedRows \X JudgedRows :
     p[1] < p[2] /\ ledger[p[1]].warmer = ledger[p[2]].warmer /\ SameReplicate(p[1], p[2])}

\* Mutant: positions counted from one.
PositionsFromOne(swap) == IF swap THEN {1, 2} ELSE {1}

\* The swap indices of a pair's comparisons.
Positions(swap) == IF swap THEN {0, 1} ELSE {0}

\* The two rows a comparison, a pair and a position, puts before the judge.
Compared(c) == {c[1][1], c[1][2]}

\* The checks before the execution is inserted: the experiment is complete and
\* has no execution.
AskJudge(s, swap, live) ==
  /\ status = "complete" /\ execution = NoExecution
  /\ Begin(s, [NoRequest EXCEPT !.kind = "judge", !.swap = swap, !.live = live,
                                !.id = made + 1])
  /\ Goto(s, "read_attempts")
  /\ UNCHANGED view

\* The attempts are read later.
ReadAttempts(s) ==
  /\ pc[s] = "read_attempts"
  /\ LET asked == JudgePairs \X Positions(req[s].swap)
     IN  view' = [view EXCEPT ![s].asked = asked, ![s].comparisons = asked]
  /\ Goto(s, "insert_execution")
  /\ UNCHANGED <<alone, runs, data, calls, failed, made, req>>

\* Mutant: nothing keeps a second execution out.
InsertAnyExecution(s) ==
  /\ pc[s] = "insert_execution"
  /\ Goto(s, "judge")
  /\ UNCHANGED <<alone, runs, data, calls, failed, made, req, view>>

\* uq_judge_executions_experiment_evaluator: the flush waits for the session
\* that has inserted the same key, and fails if that has committed.
InsertExecution(s) ==
  /\ pc[s] = "insert_execution"
  /\ \A t \in Sessions : pc[t] # "judge"
  /\ IF execution # NoExecution
     THEN EndRequest(s)
     ELSE Goto(s, "judge") /\ UNCHANGED <<req, view>>
  /\ UNCHANGED <<alone, runs, data, calls, failed, made>>

Asks(s, c) ==
  calls' = IF req[s].live THEN calls \cup {[comparison |-> c, by |-> req[s].id]} ELSE calls

\* Comparisons are made in a fixed order, which does not matter here.
NextComparison(s) ==
  IF view[s].comparisons = {} THEN {} ELSE {CHOOSE c \in view[s].comparisons : TRUE}

\* Mutant: a comparison whose call fails is skipped.
JudgeOrSkip(s) ==
  /\ pc[s] = "judge"
  /\ \E c \in NextComparison(s) :
       /\ Asks(s, c)
       /\ \/ view' = [view EXCEPT ![s].comparisons = @ \ {c}, ![s].decided = @ \cup {c}]
          \/ req[s].live /\ view' = [view EXCEPT ![s].comparisons = @ \ {c}]
  /\ UNCHANGED <<alone, runs, data, failed, made, pc, req>>

\* One comparison: the provider's decision, if the request is live, and the
\* flush of its scores.
Judge(s) ==
  /\ pc[s] = "judge"
  /\ \E c \in NextComparison(s) :
       /\ Asks(s, c)
       /\ view' = [view EXCEPT ![s].comparisons = @ \ {c}, ![s].decided = @ \cup {c}]
  /\ UNCHANGED <<alone, runs, data, failed, made, pc, req>>

\* The provider fails, or its answer is no decision: nothing of the request is
\* kept but the call.
JudgeFails(s) ==
  /\ pc[s] = "judge" /\ req[s].live
  /\ \E c \in NextComparison(s) : Asks(s, c)
  /\ failed' = failed \cup {req[s].id}
  /\ EndRequest(s)
  /\ UNCHANGED <<alone, runs, data, made>>

CommitJudge(s) ==
  /\ pc[s] = "judge" /\ view[s].comparisons = {}
  /\ execution' = [by |-> req[s].id, comparisons |-> view[s].asked]
  /\ verdicts' = verdicts \cup
       UNION {{[comparison |-> c, row |-> i, by |-> req[s].id] : i \in Compared(c)} :
                c \in view[s].decided}
  /\ EndRequest(s)
  /\ UNCHANGED <<alone, runs, scores, calls, failed, made>>

\* A request may be refused (policy, cost cap, context budget, an unknown
\* evaluator or configuration), lose the database, or die.
Fail(s) ==
  /\ pc[s] # "idle"
  /\ failed' = IF req[s].kind = "judge" THEN failed \cup {req[s].id} ELSE failed
  /\ EndRequest(s)
  /\ UNCHANGED <<alone, runs, data, calls, made>>
-----------------------------------------------------------------------------
Ask(s) ==
  \/ AskJob(s)
  \/ \E e \in Evaluators : AskCli(s, e)
  \/ \E configs \in (SUBSET Configs) \ {{}}, force \in BOOLEAN : AskAdapters(s, configs, force)
  \/ \E swap, live \in BOOLEAN : AskJudge(s, swap, live)

Score(s) == LookUpRow(s) \/ ReadDivergences(s) \/ CommitScores(s)

RunJudge(s) ==
  ReadAttempts(s) \/ InsertExecution(s) \/ Judge(s) \/ JudgeFails(s) \/ CommitJudge(s)

Next == Execute \/ Retry \/ \E s \in Sessions : Ask(s) \/ Score(s) \/ RunJudge(s) \/ Fail(s)

Spec == Init /\ [][Next]_vars
-----------------------------------------------------------------------------
Candidate  == [row : Nat, key : Evaluators \cup Configs \cup {"divergence"}, baseline : Nat]
Comparison == (Nat \X Nat) \X {0, 1}
Request == [kind : {"none", "job", "cli", "adapter", "judge"},
            keys : SUBSET (Evaluators \cup Configs), force : BOOLEAN, swap : BOOLEAN,
            live : BOOLEAN, id : Nat]
View == [todo : SUBSET Candidate, fresh : SUBSET Candidate,
         asked : SUBSET Comparison, comparisons : SUBSET Comparison, decided : SUBSET Comparison]

TypeOK ==
  /\ alone \in BOOLEAN /\ ledger \in Ledgers
  /\ rows \in 0 .. Len(ledger) /\ done \subseteq Existing /\ status \in {"open", "complete"}
  /\ scores \subseteq [row : Nat, key : Evaluators \cup Configs \cup {"divergence"},
                       baseline : Nat, forced : BOOLEAN, by : Nat]
  /\ execution \in [by : Nat, comparisons : SUBSET Comparison]
  /\ verdicts \subseteq [comparison : Comparison, row : Nat, by : Nat]
  /\ calls \subseteq [comparison : Comparison, by : Nat]
  /\ failed \subseteq Nat /\ made \in Nat
  /\ pc \in [Sessions -> {"idle", "score", "diverge", "read_attempts", "insert_execution", "judge"}]
  /\ req \in [Sessions -> Request] /\ view \in [Sessions -> View]

\* Requests that evaluate code, divergences or metrics one at a time never
\* store a score twice, whatever executions commit meanwhile; only a forced
\* adapter run repeats one.
ScoredOnceIfAlone ==
  alone => \A x, y \in scores :
             x.row = y.row /\ x.key = y.key /\ ~x.forced /\ ~y.forced => x = y

\* Rows after one the cost cap kept from running, which complete experiments
\* may still get.
AfterSkip(j) == \E i \in Rows : SameRun(i, j) /\ i < j /\ ledger[i].status = "blocked"

\* A stored divergence is from the answer the replicate ended with, although it
\* is never computed again and a failed baseline may have been retried; unless
\* the run was skipped before it had that answer.
DivergedFromFinalBaseline ==
  \A x \in scores : x.key = "divergence" =>
    \A j \in done :
      /\ ledger[j].model = ledger[x.row].model /\ ledger[j].warmer = NoWarmer
      /\ SameReplicate(x.row, j) /\ Succeeded(j)
      => x.baseline = j \/ AfterSkip(j)

\* What reviewers are asked to compare: two answers of one replicate.
ReviewPairs ==
  {p \in done \X done : /\ p[1] < p[2] /\ Succeeded(p[1]) /\ Succeeded(p[2])
                        /\ ledger[p[1]].warmer = ledger[p[2]].warmer
                        /\ SameReplicate(p[1], p[2]) /\ ~SameRun(p[1], p[2])}

\* Comparisons are of such pairs, and without replicates of all of them but
\* those with answers of a run that was skipped first.  (With replicates they
\* are of one row of each run, or none that match.)
Reviewed(comparisons) ==
  LET judged == {c[1] : c \in comparisons}
  IN  /\ judged \subseteq ReviewPairs
      /\ (\A i \in Rows : ledger[i].replicate_index = 0) =>
           \A p \in ReviewPairs : p \in judged \/ AfterSkip(p[1]) \/ AfterSkip(p[2])

\* The judge can be set against the reviewers: it has compared what they are
\* asked to compare, whatever was executed while it ran.
JudgedAsReviewed == execution # NoExecution => Reviewed(execution.comparisons)

\* Whatever fails, the judge's scores are those of one execution, whole: both
\* answers of every comparison, in every position asked for.
JudgementIsWhole ==
  /\ \A v \in verdicts : /\ v.by = execution.by /\ v.comparison \in execution.comparisons
                         /\ v.row \in Compared(v.comparison)
  /\ \A c \in execution.comparisons : \A i \in Compared(c) :
       \E v \in verdicts : v.comparison = c /\ v.row = i

\* However many requests race to run the judge, a comparison is paid for once
\* but for requests that failed.
CallsPaidOnce ==
  \A x, y \in calls :
    x.comparison = y.comparison /\ {x.by, y.by} \cap failed = {} => x = y
=============================================================================
