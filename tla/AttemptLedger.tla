--------------------------- MODULE AttemptLedger ---------------------------
(***************************************************************************)
(* What the executor promises of the attempts it persists, whatever        *)
(* policies, caps, caches, failures or crashes it meets: a ledger.  Rows   *)
(* are never removed or rewritten once terminal, and a row is added only   *)
(* as a retry of a row that failed.                                        *)
(***************************************************************************)
EXTENDS AttemptRows

CONSTANTS NRuns, Replicates

VARIABLE ledger

\* What a row is: none of it ever changes.
Identity(row) == <<row.attempt_kind, row.replicate_index, row.attempt_number, row.parent>>

RowStep(old, new) ==
  /\ Identity(new) = Identity(old)
  /\ old.status \in Terminal => new = old
  /\ old.status = "queued" => new.status # "running"
  /\ new.calls >= old.calls

\* A new row is a queued or already settled retry of an earlier, failed row.
RetryOf(s, i) ==
  /\ s[i].attempt_kind = "retry" /\ s[i].parent \in 1 .. i - 1
  /\ s[s[i].parent].status = "failed"
  /\ s[i].attempt_number = s[s[i].parent].attempt_number + 1

Evolves(old, new) ==
  /\ Len(old) <= Len(new)
  /\ \A i \in 1 .. Len(old) : RowStep(old[i], new[i])
  /\ \A i \in Len(old) + 1 .. Len(new) : RetryOf(new, i)

Init == ledger = [r \in 1 .. NRuns |-> [k \in 1 .. Replicates |-> ReplicateRow(k)]]

Next == /\ ledger' \in [1 .. NRuns -> Seq(RunAttempt)]
        /\ \A r \in 1 .. NRuns : Evolves(ledger[r], ledger'[r])

Spec == Init /\ [][Next]_ledger
=============================================================================
