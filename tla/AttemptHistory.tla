--------------------------- MODULE AttemptHistory ---------------------------
(***************************************************************************)
(* What is promised of the attempts of one experiment, whichever requests  *)
(* and jobs read and write them at the same time: a history.  A commit     *)
(* keeps every attempt; it makes those that were queued, cancels some and  *)
(* adds retries of settled ones.  Only an edit starts the history again,   *)
(* and only before any attempt was made.                                   *)
(*                                                                         *)
(* Compared with AttemptLedger, which is about one session at a time, a    *)
(* commit may cancel an attempt that was settled after it was read.        *)
(***************************************************************************)
EXTENDS AttemptRows

CONSTANT NRuns

VARIABLES
  history,   \* the attempts of each run
  edition    \* how often an edit has replaced the runs

Runs == 1 .. NRuns

\* A new experiment, or an edited one.
Beginning == [r \in Runs |-> <<ReplicateRow(1)>>]

Canceled(row) == [row EXCEPT !.status = "canceled"]
Made(row, outcome) == [row EXCEPT !.status = outcome, !.calls = @ + 1]

\* An attempt is made once, when it is queued, and never queued again.
RowStep(old, new) ==
  \/ new = old
  \/ new = Canceled(old)
  \/ /\ old.status = "queued"
     /\ \E outcome \in {"succeeded", "failed"} : new = Made(old, outcome)

RetryOf(s, i) ==
  \E p \in 1 .. i - 1, due \in BOOLEAN : s[p].status \in Terminal /\ s[i] = RetryRow(s, p, due)

RetriedOnce(s) ==
  \A i, j \in 1 .. Len(s) : s[i].parent = s[j].parent /\ s[i].parent # 0 => i = j

Continues(old, new) ==
  /\ Len(old) <= Len(new)
  /\ \A i \in 1 .. Len(old) : RowStep(old[i], new[i])
  /\ \A i \in Len(old) + 1 .. Len(new) : RetryOf(new, i)
  /\ RetriedOnce(new)
-----------------------------------------------------------------------------
Init == history = Beginning /\ edition = 0

Record ==
  /\ history' \in [Runs -> Seq(RunAttempt)]
  /\ \A r \in Runs : Continues(history[r], history'[r])
  /\ edition' = edition

Replace ==
  /\ \A r \in Runs : \A i \in 1 .. Len(history[r]) : history[r][i].calls = 0
  /\ history' = Beginning
  /\ edition' = edition + 1

Next == Record \/ Replace

Spec == Init /\ [][Next]_<<history, edition>>
=============================================================================
