---------------------------- MODULE AttemptRows ----------------------------
(***************************************************************************)
(* The run_attempts rows of one run, and the helpers of executor.py that   *)
(* read or rewrite them.  A run's rows are a sequence in id order, so a    *)
(* row's id is its index and "latest" is the last one.                     *)
(*                                                                         *)
(* A row keeps what the executor's decisions depend on.  parent is the     *)
(* index of the failed row a retry was made from (0: none).  due is the    *)
(* comparison available_at <= now.  calls counts provider calls made for   *)
(* the row; the code keeps no such column, it is here to state properties. *)
(***************************************************************************)
EXTENDS Integers, Sequences

CONSTANT Costs   \* the cost_usd values a provider response may carry

ASSUME CostsAssumption == Costs \subseteq Nat

AttemptStatus == {"queued", "running", "succeeded", "failed", "canceled"}
ErrorKind     == {"none", "retryable", "blocked_by_config", "unknown"}
FailureReason == {"none", "provider_blocked", "unsupported_truncation_policy",
                  "context_budget_exceeded", "cost_cap_exceeded", "error_message"}
RunStatus     == {"pending", "running", "complete", "failed", "canceled", "skipped"}
ExperimentStatus == {"draft", "queued", "running", "complete", "failed", "canceled"}

RunAttempt ==
  [attempt_kind : {"replicate", "retry"}, replicate_index : Nat, attempt_number : Nat,
   parent : Nat, status : AttemptStatus, error_kind : ErrorKind,
   reason : FailureReason, due : BOOLEAN, cache_hit : BOOLEAN, cost : Costs \cup {0},
   calls : Nat]

Terminal == {"succeeded", "failed", "canceled"}
Open     == {"queued", "running"}
-----------------------------------------------------------------------------
\* The row expansion creates for one replicate of a logical run.
ReplicateRow(k) ==
  [attempt_kind |-> "replicate", replicate_index |-> k, attempt_number |-> 1,
   parent |-> 0, status |-> "queued", error_kind |-> "none", reason |-> "none",
   due |-> TRUE, cache_hit |-> FALSE, cost |-> 0, calls |-> 0]

\* _create_retry_attempt: a queued row after the failed row i; with a positive
\* backoff it is not due until time has passed.
RetryRow(s, i, instant) ==
  [ReplicateRow(s[i].replicate_index) EXCEPT
     !.attempt_kind = "retry", !.attempt_number = s[i].attempt_number + 1,
     !.parent = i, !.due = instant]

\* Mutant: every row that has not succeeded is canceled.
CancelUnsuccessfulRows(s) ==
  [i \in DOMAIN s |-> IF s[i].status # "succeeded"
                      THEN [s[i] EXCEPT !.status = "canceled"] ELSE s[i]]

\* _cancel_run_attempts, on the rows and on the run's status.
CancelRows(s) ==
  [i \in DOMAIN s |-> IF s[i].status \in Open
                      THEN [s[i] EXCEPT !.status = "canceled"] ELSE s[i]]
CancelStatus(s, status) ==
  IF (\E i \in DOMAIN s : s[i].status \in Open) \/ status \in {"pending", "running"}
  THEN "canceled" ELSE status

\* The row a policy check refuses, without a provider call.
Refused(row, why) ==
  [row EXCEPT !.status = "failed", !.error_kind = "blocked_by_config", !.reason = why]

\* The selected row and every row still queued are refused for the same reason.
BlockRows(s, why) ==
  [i \in DOMAIN s |-> IF s[i].status = "queued" THEN Refused(s[i], why) ELSE s[i]]

\* _next_queued_attempt: the queued row of least id whose backoff is over; 0 for None.
Eligible(s) == {i \in DOMAIN s : s[i].status = "queued" /\ s[i].due}

\* Mutant: only the replicate rows are looked at.
NextQueuedReplicate(s) ==
  LET rows == {i \in Eligible(s) : s[i].attempt_kind = "replicate"}
  IN  IF rows = {} THEN 0 ELSE CHOOSE i \in rows : \A j \in rows : i <= j

NextQueued(s) ==
  IF Eligible(s) = {} THEN 0
  ELSE CHOOSE i \in Eligible(s) : \A j \in Eligible(s) : i <= j

\* _queued_retry_attempt is not None.
HasOpenRetry(s) ==
  \E i \in DOMAIN s : s[i].attempt_kind = "retry" /\ s[i].status \in Open

\* Mutant: the attempt's status is stored as the run's.
RawStatusOfLatest(s) == IF s = <<>> THEN "pending" ELSE s[Len(s)].status

\* Mutant: one successful row makes the run complete.
CompleteIfAnySucceeded(s) ==
  IF \E i \in DOMAIN s : s[i].status = "succeeded" THEN "complete"
  ELSE IF \E i \in DOMAIN s : s[i].status = "failed" THEN "failed" ELSE "pending"

\* _run_status_from_attempts: the latest row alone decides.
StatusFromAttempts(s) ==
  IF s = <<>> THEN "pending"
  ELSE CASE s[Len(s)].status = "succeeded" -> "complete"
         [] s[Len(s)].status = "failed"    -> "failed"
         [] s[Len(s)].status = "canceled"  -> "canceled"
         [] s[Len(s)].status = "running"   -> "running"
         [] s[Len(s)].status = "queued"    -> "pending"

\* The status execute_experiment gives an experiment whose runs have these statuses.
Verdict(exp, statuses) ==
  IF exp = "canceled" \/ statuses = {"canceled"} THEN "canceled"
  ELSE IF "failed" \in statuses THEN "failed"
  ELSE IF "running" \in statuses THEN "running"
  ELSE IF "pending" \in statuses THEN "queued"
  ELSE "complete"

\* A row that only the passage of time has touched.
Ripen(s, i) == IF i \in DOMAIN s THEN [s EXCEPT ![i].due = TRUE] ELSE s
=============================================================================
