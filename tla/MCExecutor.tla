----------------------------- MODULE MCExecutor -----------------------------
(***************************************************************************)
(* TLC instances of Executor: two runs of two replicates that share one    *)
(* cache key, responses that cost 2, and the control snapshots below, each *)
(* chosen for an interaction the executor has to get right.                *)
(***************************************************************************)
EXTENDS Executor

CONSTANT k1

Control(retry, cached, cap, backoff, backend) ==
  [retry_failed |-> retry, cache_provider_calls |-> cached, max_total_cost |-> cap,
   max_attempts |-> 2, backoff |-> backoff, backend |-> backend]

MCControls ==
  {Control(TRUE, FALSE, NoCap, TRUE, "postgres"),    \* retries wait for their backoff
   Control(TRUE, FALSE, 3, FALSE, "postgres"),       \* retries at once, under a cost cap
   Control(FALSE, TRUE, 1, TRUE, "sqlite"),          \* the cache answers past the cap;
                                                     \* reloaded timestamps are naive
   Control(TRUE, FALSE, NoCap, FALSE, "autocommit")} \* cancellations land mid-execution

\* Retries on either database, for the runs that execute one run repeatedly.
PostgresRetry == {Control(TRUE, FALSE, NoCap, TRUE, "postgres"),
                  Control(TRUE, TRUE, 3, FALSE, "postgres")}
SqliteRetry   == {Control(TRUE, FALSE, NoCap, TRUE, "sqlite")}

\* The first run meets each gate; the second is open, or refused by policy
\* after an open one.  The two context gates differ only in the reason stored.
MCGates == {[r \in Runs |-> IF r = 1 THEN g ELSE "open"]
              : g \in Gate \ {"unsupported_truncation_policy"}}
           \cup {[r \in Runs |-> IF r = 1 THEN "open" ELSE "policy"]}

MCKeyOf == [r \in Runs |-> k1]
=============================================================================
