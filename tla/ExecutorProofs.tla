--------------------------- MODULE ExecutorProofs ---------------------------
(***************************************************************************)
(* Theorems about Executor, for every number of runs, replicates, rows and *)
(* provider costs, every control snapshot, gate and cache key.  IInv is    *)
(* the inductive invariant; VerdictInv and CapInv add to it what the       *)
(* theorems about statuses and about costs need.                           *)
(***************************************************************************)
EXTENDS Executor, AttemptRowsProofs, FiniteSetTheorems

\* The rows of all runs: a is what the session sees, d what is durable.
SoundRows(a, d) ==
  \A r \in Runs : /\ Sound(a[r]) /\ Explained(a[r])
                  /\ Sound(d[r]) /\ Explained(d[r])
                  /\ Grows(d[r], a[r])

RowsInv == SoundRows(att, db.att)

\* What a step may do to the durable rows.
DurableGrows == \A q \in Runs : Grows(db.att[q], db'.att[q])

\* Only the row of the provider call in progress, and only the run at hand,
\* are ever running.
CursorInv ==
  /\ pc \in {"loop", "ready", "call"} => cur \in Runs
  /\ pc = "ready" => sel \in 1 .. Len(att[cur]) /\ att[cur][sel].status = "queued"
  /\ pc = "call" => /\ sel \in 1 .. Len(att[cur])
                    /\ att[cur][sel].status = "running" /\ att[cur][sel].calls = 1
  /\ \A r \in Runs : \A i \in 1 .. Len(att[r]) :
       att[r][i].status = "running" => pc = "call" /\ r = cur /\ i = sel
  /\ \A r \in Runs : run[r] = "running" => pc \in {"loop", "ready", "call"} /\ r = cur

\* Between executions the session sees what is durable.
DurableInv ==
  /\ db.exp # "running"
  /\ \A r \in Runs : db.run[r] # "running"
  /\ \A r \in Runs : \A i \in 1 .. Len(db.att[r]) : db.att[r][i].status # "running"
  /\ pc = "idle" => exp = db.exp /\ run = db.run /\ att = db.att /\ cache = db.cache

\* A cancellation the session has seen during an execution came over an
\* autocommitting engine, and no row is selected once it is known.
CancelInv ==
  /\ ext => controls.backend = "autocommit"
  /\ pc # "idle" /\ exp = "canceled" => controls.backend = "autocommit"
  /\ pc = "ready" => exp # "canceled" /\ run[cur] # "canceled" /\ late = 0
  /\ late <= 1

IInv == TypeOK /\ RowsInv /\ CursorInv /\ DurableInv /\ CancelInv
-----------------------------------------------------------------------------
LEMMA GrowsReflexive ==
  ASSUME NEW s, Sound(s)
  PROVE  Grows(s, s)
<1>1. s \in Rows /\ Len(s) \in Nat BY DEF Sound, Rows
<1>2. \A i \in 1 .. Len(s) : s[i].calls \in Nat BY <1>1, RowType
<1>3. Len(s) + 1 .. Len(s) = {} BY <1>1
<1>. QED BY <1>1, <1>2, <1>3 DEF Grows, SameIdentity

\* Committing sound rows leaves sound rows.
LEMMA CommitSound ==
  ASSUME NEW a, NEW d, SoundRows(a, d)
  PROVE  SoundRows(a, a) /\ SoundRows(d, d)
BY GrowsReflexive DEF SoundRows

\* The rows of run r are rewritten.
LEMMA RewriteRun ==
  ASSUME NEW a \in [Runs -> Rows], NEW d \in [Runs -> Rows], SoundRows(a, d),
         NEW r \in Runs, NEW t, Rewrites(a[r], t),
         \A i \in 1 .. Len(a[r]) :
           t[i].status = "failed" /\ t[i].reason = "none" => t[i] = a[r][i]
  PROVE  /\ [a EXCEPT ![r] = t] \in [Runs -> Rows]
         /\ SoundRows([a EXCEPT ![r] = t], d)
<1>1. t \in Rows BY DEF Rewrites
<1>2. Sound(t) /\ Explained(t)
  BY RewriteKeepsSound, RewriteKeepsExplained DEF SoundRows
<1>3. Grows(d[r], t) BY GrowsThenRewrites DEF SoundRows
<1>. QED BY <1>1, <1>2, <1>3 DEF SoundRows

\* The open rows of every run are canceled, none being running.
LEMMA CancelAllSound ==
  ASSUME NEW a \in [Runs -> Rows], NEW d \in [Runs -> Rows], SoundRows(a, d),
         \A r \in Runs : \A i \in 1 .. Len(a[r]) : a[r][i].status # "running"
  PROVE  LET c == [r \in Runs |-> CancelRows(a[r])]
         IN  /\ c \in [Runs -> Rows] /\ SoundRows(c, d)
             /\ \A r \in Runs : \A i \in 1 .. Len(c[r]) : c[r][i].status # "running"
<1>. DEFINE c == [r \in Runs |-> CancelRows(a[r])]
<1>1. ASSUME NEW r \in Runs
      PROVE  /\ Rewrites(a[r], CancelRows(a[r]))
             /\ \A i \in 1 .. Len(a[r]) :
                  /\ CancelRows(a[r])[i].status \in Terminal
                  /\ CancelRows(a[r])[i].status = "failed" => CancelRows(a[r])[i] = a[r][i]
  BY CancelRewrites DEF SoundRows
<1>2. ASSUME NEW r \in Runs
      PROVE  /\ c[r] \in Rows /\ Sound(c[r]) /\ Explained(c[r]) /\ Grows(d[r], c[r])
             /\ \A i \in 1 .. Len(c[r]) : c[r][i].status # "running"
  <2>1. c[r] = CancelRows(a[r]) OBVIOUS
  <2>2. c[r] \in Rows /\ Len(c[r]) = Len(a[r]) BY <1>1, <2>1 DEF Rewrites
  <2>3. Sound(c[r]) /\ Explained(c[r])
    BY <1>1, <2>1, RewriteKeepsSound, RewriteKeepsExplained DEF SoundRows
  <2>4. Grows(d[r], c[r]) BY <1>1, <2>1, GrowsThenRewrites DEF SoundRows
  <2>. QED BY <1>1, <2>1, <2>2, <2>3, <2>4 DEF Terminal
<1>. QED BY <1>2 DEF SoundRows

\* The rows after a retry was appended: the old ones and a queued one.
LEMMA AppendedRows ==
  ASSUME NEW s \in Rows, NEW row, row.status = "queued", NEW t, t = Append(s, row)
  PROVE  \A j \in 1 .. Len(t) : t[j].status = "queued" \/ (j \in 1 .. Len(s) /\ t[j] = s[j])
<1>1. /\ Len(s) \in Nat /\ Len(t) = Len(s) + 1 /\ t[Len(s) + 1] = row
      /\ \A j \in 1 .. Len(s) : t[j] = s[j]
  BY DEF Rows
<1>2. ASSUME NEW j \in 1 .. Len(t)
      PROVE  t[j].status = "queued" \/ (j \in 1 .. Len(s) /\ t[j] = s[j])
  <2>1. CASE j = Len(s) + 1 BY <1>1, <2>1
  <2>2. CASE j # Len(s) + 1 BY <1>1, <2>2
  <2>. QED BY <2>1, <2>2
<1>. QED BY <1>2

\* A retry is appended to the rows of run r, after row i.
LEMMA AppendRun ==
  ASSUME NEW a \in [Runs -> Rows], NEW d \in [Runs -> Rows], SoundRows(a, d),
         NEW r \in Runs, NEW s \in Rows, Sound(s), Grows(d[r], s),
         NEW i \in 1 .. Len(s), NEW b \in BOOLEAN,
         s[i].status = "failed", \A j \in 1 .. Len(s) : s[j].parent # i,
         \A j \in 1 .. Len(s) : j # i => ExplainedAt(s, j),
         NEW t, t = Append(s, RetryRow(s, i, b))
  PROVE  /\ [a EXCEPT ![r] = t] \in [Runs -> Rows]
         /\ SoundRows([a EXCEPT ![r] = t], d)
<1>1. /\ Sound(t) /\ Len(t) = Len(s) + 1
      /\ \A j \in 1 .. Len(s) : t[j] = s[j]
      /\ t[Len(s) + 1] = RetryRow(s, i, b)
      /\ t[Len(s) + 1].status = "queued"
      /\ Explained(t)
  BY AppendRetryKeepsSound
<1>2. t[Len(s) + 1].attempt_kind = "retry" BY <1>1 DEF RetryRow, ReplicateRow
<1>3. t \in Rows BY <1>1 DEF Sound
<1>4. Grows(d[r], t) BY <1>1, <1>2, <1>3, GrowsThenAppends
<1>5. SoundRows([a EXCEPT ![r] = t], d) BY <1>1, <1>4 DEF SoundRows
<1>. QED BY <1>3, <1>5
-----------------------------------------------------------------------------
\* What the invariant says of the types of the row functions.
LEMMA RowFunctions ==
  ASSUME TypeOK
  PROVE  /\ att \in [Runs -> Rows] /\ db.att \in [Runs -> Rows]
         /\ exp \in ExperimentStatus /\ db.exp \in ExperimentStatus
         /\ run \in [Runs -> RunStatus] /\ db.run \in [Runs -> RunStatus]
         /\ cache \in SUBSET Keys /\ db.cache \in SUBSET Keys
         /\ db = [exp |-> db.exp, run |-> db.run, att |-> db.att, cache |-> db.cache]
         /\ Runs \subseteq Nat /\ NRuns \in Nat
BY ExecutorAssumption DEF TypeOK, Rows, Runs

\* The statuses a run can take on from its rows or when they are canceled.
LEMMA StatusTypes ==
  ASSUME NEW s \in Rows, NEW st \in RunStatus
  PROVE  /\ StatusFromAttempts(s) \in RunStatus
         /\ CancelStatus(s, st) \in RunStatus
         /\ CancelStatus(s, st) # "running"
         /\ (Len(s) > 0 => s[Len(s)].status # "running") => StatusFromAttempts(s) # "running"
<1>1. CancelStatus(s, st) \in RunStatus /\ CancelStatus(s, st) # "running"
  BY DEF CancelStatus, RunStatus
<1>2. CASE s = <<>> BY <1>1, <1>2 DEF StatusFromAttempts, RunStatus
<1>3. CASE s # <<>>
  <2>1. Len(s) \in 1 .. Len(s) BY <1>3 DEF Rows
  <2>2. s[Len(s)].status \in AttemptStatus BY <2>1, RowType DEF RunAttempt
  <2>. DEFINE st1 == s[Len(s)].status
  <2>3. StatusFromAttempts(s) =
          CASE st1 = "succeeded" -> "complete" [] st1 = "failed" -> "failed"
            [] st1 = "canceled" -> "canceled" [] st1 = "running" -> "running"
            [] st1 = "queued" -> "pending"
    BY <1>3 DEF StatusFromAttempts
  <2>4. st1 \in AttemptStatus BY <2>2
  <2>5. Len(s) > 0 BY <2>1
  <2>. HIDE DEF st1
  <2>6. StatusFromAttempts(s) \in RunStatus
    BY <2>3, <2>4 DEF AttemptStatus, RunStatus
  <2>7. st1 # "running" => StatusFromAttempts(s) # "running"
    BY <2>3, <2>4 DEF AttemptStatus
  <2>. QED BY <1>1, <2>5, <2>6, <2>7 DEF st1
<1>. QED BY <1>2, <1>3

\* The rows an expanded experiment starts with.
LEMMA InitInv == Init => IInv
<1>. SUFFICES ASSUME Init PROVE IInv OBVIOUS
<1>. DEFINE first == [k \in 1 .. Replicates |-> ReplicateRow(k)]
<1>1. Replicates \in Nat \ {0} /\ NRuns \in Nat \ {0} BY ExecutorAssumption
<1>2. ASSUME NEW k \in 1 .. Replicates
      PROVE  /\ first[k] = ReplicateRow(k) /\ ReplicateRow(k) \in RunAttempt
             /\ Accounts(ReplicateRow(k))
             /\ ReplicateRow(k).attempt_kind = "replicate" /\ ReplicateRow(k).parent = 0
             /\ ReplicateRow(k).attempt_number = 1 /\ ReplicateRow(k).status = "queued"
  BY DEF ReplicateRow, RunAttempt, AttemptStatus, ErrorKind, FailureReason, Accounts, Open
<1>3. first \in Rows /\ Len(first) = Replicates
  BY <1>1, <1>2 DEF Rows
<1>4. Sound(first) /\ Explained(first) /\ Grows(first, first)
  <2>1. Sound(first) BY <1>1, <1>2, <1>3 DEF Sound, ChainAt
  <2>2. Explained(first) BY <1>2, <1>3 DEF Explained, ExplainedAt
  <2>. QED BY <2>1, <2>2, GrowsReflexive
<1>. HIDE DEF first
<1>5. att = [r \in Runs |-> first] /\ db.att = att /\ db.exp = exp /\ db.run = run
      /\ db.cache = cache
  BY DEF Init, first
<1>6. att \in [Runs -> Rows] /\ \A r \in Runs : att[r] = first BY <1>3, <1>5
<1>7. TypeOK
  <2>1. controls \in ControlSnapshot /\ gate \in [Runs -> Gate]
    BY ExecutorAssumption DEF Init
  <2>2. exp \in ExperimentStatus /\ run \in [Runs -> RunStatus] /\ cache \in SUBSET Keys
    BY DEF Init, ExperimentStatus, RunStatus
  <2>3. db \in [exp : ExperimentStatus, run : [Runs -> RunStatus],
                att : [Runs -> Seq(RunAttempt)], cache : SUBSET Keys]
    <3>1. db = [exp |-> exp, run |-> run, att |-> att, cache |-> cache]
      BY Zenon DEF Init
    <3>2. att \in [Runs -> Seq(RunAttempt)] BY <1>6 DEF Rows
    <3>. QED BY ONLY <2>2, <3>1, <3>2
  <2>4. /\ pc \in {"idle", "next", "loop", "ready", "call"}
        /\ cur \in 0 .. NRuns + 1 /\ sel \in Nat /\ late \in Nat
    BY <1>1 DEF Init
  <2>5. ext \in BOOLEAN /\ lost \in BOOLEAN BY Zenon DEF Init
  <2>. QED BY <1>6, <2>1, <2>2, <2>3, <2>4, <2>5 DEF TypeOK, Rows
<1>8. RowsInv BY <1>4, <1>5, <1>6 DEF RowsInv, SoundRows
<1>9. CursorInv BY <1>2, <1>3, <1>6 DEF CursorInv, Init
<1>10. DurableInv BY <1>2, <1>3, <1>5, <1>6 DEF DurableInv, Init
<1>11. CancelInv BY DEF CancelInv, Init
<1>. QED BY <1>7, <1>8, <1>9, <1>10, <1>11 DEF IInv
-----------------------------------------------------------------------------
\* Steps that end in a commit: cancellations, the retry button, and the end of
\* an execution.  What has to be shown of such a step is what it commits.
LEMMA CommitStep ==
  ASSUME IInv, Commit, pc' = "idle", UNCHANGED fixed,
         exp' \in ExperimentStatus \ {"running"},
         run' \in [Runs -> RunStatus], \A r \in Runs : run'[r] # "running",
         att' \in [Runs -> Rows], SoundRows(att', db.att),
         \A r \in Runs : \A i \in 1 .. Len(att'[r]) : att'[r][i].status # "running",
         cache' \in SUBSET Keys, cur' \in 0 .. NRuns + 1, sel' \in Nat,
         ~ext' \/ ext' = ext, ext' \in BOOLEAN, late' = 0 \/ late' = late, lost' = lost
  PROVE  IInv' /\ DurableGrows
<1>1. TypeOK'
  <2>1. db' \in [exp : ExperimentStatus, run : [Runs -> RunStatus],
                 att : [Runs -> Seq(RunAttempt)], cache : SUBSET Keys]
    BY DEF Commit, Rows
  <2>2. late' \in Nat BY DEF IInv, TypeOK
  <2>3. lost' \in BOOLEAN BY Zenon DEF IInv, TypeOK
  <2>4. controls' \in ControlSnapshot /\ gate' \in [Runs -> Gate]
    BY DEF IInv, TypeOK, fixed
  <2>. QED BY <2>1, <2>2, <2>3, <2>4 DEF TypeOK, Rows
<1>2. db'.exp = exp' /\ db'.run = run' /\ db'.att = att' /\ db'.cache = cache'
  BY DEF Commit
<1>3. RowsInv' BY <1>2, CommitSound DEF RowsInv
<1>4. CursorInv' BY DEF CursorInv
<1>5. DurableInv' BY <1>2 DEF DurableInv
<1>6. CancelInv'
  <2>1. controls' = controls BY DEF fixed
  <2>2. ext' => controls'.backend = "autocommit" BY <2>1, Zenon DEF IInv, CancelInv
  <2>3. late' <= 1 BY DEF IInv, CancelInv, TypeOK
  <2>. QED BY <2>2, <2>3 DEF CancelInv
<1>7. DurableGrows BY <1>2 DEF SoundRows, DurableGrows
<1>. QED BY <1>1, <1>3, <1>4, <1>5, <1>6, <1>7 DEF IInv

\* At rest nothing the session sees is running.
LEMMA IdleNothingRunning ==
  ASSUME IInv, pc \in {"idle", "next", "loop"}
  PROVE  /\ \A r \in Runs : \A i \in 1 .. Len(att[r]) : att[r][i].status # "running"
         /\ pc = "idle" => exp # "running"
         /\ pc # "loop" => \A r \in Runs : run[r] # "running"
         /\ \A r \in Runs : r # cur => run[r] # "running"
BY DEF IInv, CursorInv, DurableInv

LEMMA CancelAllInv ==
  ASSUME IInv, pc = "idle", CancelAll, Commit, exp' = "canceled",
         UNCHANGED <<cache, fixed, pc, cur, sel, ext, history>>
  PROVE  IInv' /\ DurableGrows
<1>1. TypeOK /\ SoundRows(att, db.att) BY DEF IInv, RowsInv
<1>2. /\ att' \in [Runs -> Rows] /\ SoundRows(att', db.att)
      /\ \A r \in Runs : \A i \in 1 .. Len(att'[r]) : att'[r][i].status # "running"
  BY <1>1, RowFunctions, IdleNothingRunning, CancelAllSound DEF CancelAll
<1>3. run' \in [Runs -> RunStatus] /\ \A r \in Runs : run'[r] # "running"
  <2>1. \A r \in Runs : /\ CancelStatus(att[r], run[r]) \in RunStatus
                        /\ CancelStatus(att[r], run[r]) # "running"
    BY <1>1, RowFunctions, StatusTypes
  <2>. QED BY <2>1 DEF CancelAll
<1>4. /\ cache' \in SUBSET Keys /\ cur' \in 0 .. NRuns + 1 /\ sel' \in Nat
      /\ ext' = ext /\ ext' \in BOOLEAN /\ late' = late /\ lost' = lost
  BY <1>1 DEF TypeOK, history
<1>5. exp' \in ExperimentStatus \ {"running"} /\ UNCHANGED fixed /\ pc' = "idle"
  BY DEF ExperimentStatus
<1>. QED BY <1>2, <1>3, <1>4, <1>5, CommitStep

\* Canceling one run's rows.
LEMMA CancelOneSound ==
  ASSUME IInv, pc \in {"idle", "next", "loop"}, NEW r \in Runs,
         att' = [att EXCEPT ![r] = CancelRows(@)]
  PROVE  /\ att' \in [Runs -> Rows] /\ SoundRows(att', db.att)
         /\ \A q \in Runs : \A i \in 1 .. Len(att'[q]) : att'[q][i].status # "running"
         /\ CancelStatus(att[r], run[r]) \in RunStatus
         /\ CancelStatus(att[r], run[r]) # "running"
<1>1. /\ att \in [Runs -> Rows] /\ db.att \in [Runs -> Rows] /\ SoundRows(att, db.att)
      /\ run \in [Runs -> RunStatus]
  BY RowFunctions DEF IInv, RowsInv
<1>2. \A q \in Runs : \A i \in 1 .. Len(att[q]) : att[q][i].status # "running"
  BY IdleNothingRunning
<1>3. /\ Rewrites(att[r], CancelRows(att[r]))
      /\ \A i \in 1 .. Len(att[r]) :
           /\ CancelRows(att[r])[i].status \in Terminal
           /\ CancelRows(att[r])[i].status = "failed" => CancelRows(att[r])[i] = att[r][i]
  BY <1>1, <1>2, CancelRewrites DEF SoundRows
<1>4. att' \in [Runs -> Rows] /\ SoundRows(att', db.att) BY <1>1, <1>3, RewriteRun
<1>5. \A i \in 1 .. Len(att'[r]) : att'[r][i].status # "running"
  BY <1>1, <1>3 DEF Rewrites, Terminal
<1>6. \A q \in Runs : q # r => att'[q] = att[q] BY <1>1
<1>7. att[r] \in Rows /\ run[r] \in RunStatus BY <1>1
<1>. QED BY <1>2, <1>4, <1>5, <1>6, <1>7, StatusTypes

\* Steps inside an execution: nothing is committed.
LEMMA SessionStep ==
  ASSUME IInv, db' = db, pc' \in {"next", "loop", "ready", "call"}, UNCHANGED fixed,
         exp' \in ExperimentStatus, run' \in [Runs -> RunStatus],
         att' \in [Runs -> Rows], SoundRows(att', db.att),
         cache' \in SUBSET Keys, cur' \in 0 .. NRuns + 1, sel' \in Nat,
         ext' \in BOOLEAN, ext' => controls.backend = "autocommit",
         late' \in Nat, late' <= 1, lost' = lost,
         exp' = "canceled" => controls.backend = "autocommit",
         pc' = "ready" => exp' # "canceled" /\ run'[cur'] # "canceled" /\ late' = 0,
         CursorInv'
  PROVE  IInv'
<1>1. TypeOK'
  <2>1. lost' \in BOOLEAN BY Zenon DEF IInv, TypeOK
  <2>2. controls' \in ControlSnapshot /\ gate' \in [Runs -> Gate]
    BY DEF IInv, TypeOK, fixed
  <2>3. db' \in [exp : ExperimentStatus, run : [Runs -> RunStatus],
                 att : [Runs -> Seq(RunAttempt)], cache : SUBSET Keys]
    BY DEF IInv, TypeOK
  <2>. QED BY <2>1, <2>2, <2>3 DEF TypeOK, Rows
<1>2. RowsInv' BY DEF RowsInv
<1>3. DurableInv'
  <2>1. pc' # "idle" OBVIOUS
  <2>. QED BY <2>1 DEF IInv, DurableInv
<1>4. CancelInv'
  <2>1. controls' = controls BY DEF fixed
  <2>2. ext' => controls'.backend = "autocommit" BY <2>1, Zenon
  <2>. QED BY <2>1, <2>2 DEF CancelInv
<1>. QED BY <1>1, <1>2, <1>3, <1>4 DEF IInv

\* A rollback returns to what is durable.
LEMMA RollbackInv ==
  ASSUME IInv, Rollback
  PROVE  IInv'
<1>1. TypeOK /\ RowsInv /\ DurableInv /\ CancelInv BY DEF IInv
<1>2. /\ exp' = db'.exp /\ run' = db'.run /\ att' = db'.att /\ cache' = db'.cache
      /\ db' = db /\ pc' = "idle" /\ cur' = 0 /\ sel' = 0 /\ late' = 0
      /\ ext' = ext /\ controls' = controls /\ gate' = gate
  BY DEF Rollback, fixed
<1>3. TypeOK'
  <2>1. lost' \in BOOLEAN
    <3>1. lost \in BOOLEAN BY <1>1 DEF TypeOK
    <3>. QED BY <3>1, Zenon DEF Rollback
  <2>2. /\ exp' \in ExperimentStatus /\ run' \in [Runs -> RunStatus]
        /\ att' \in [Runs -> Seq(RunAttempt)] /\ cache' \subseteq Keys
    BY <1>1, <1>2, RowFunctions DEF Rows
  <2>3. 0 \in 0 .. NRuns + 1 /\ 0 \in Nat BY ExecutorAssumption
  <2>4. ext' \in BOOLEAN BY <1>1, <1>2, Zenon DEF TypeOK
  <2>. QED BY <1>1, <1>2, <2>1, <2>2, <2>3, <2>4 DEF TypeOK
<1>4. RowsInv' BY <1>1, <1>2, CommitSound DEF RowsInv
<1>5. CursorInv' BY <1>1, <1>2 DEF CursorInv, DurableInv
<1>6. DurableInv' BY <1>1, <1>2 DEF DurableInv
<1>7. CancelInv'
  <2>1. ext' => controls'.backend = "autocommit" BY <1>1, <1>2, Zenon DEF CancelInv
  <2>. QED BY <1>2, <2>1 DEF CancelInv
<1>. QED BY <1>3, <1>4, <1>5, <1>6, <1>7 DEF IInv

\* The rows of the run at hand are rewritten.
LEMMA RewriteInv ==
  ASSUME IInv, cur \in Runs, NEW t, att' = [att EXCEPT ![cur] = t], Rewrites(att[cur], t),
         \A i \in 1 .. Len(att[cur]) :
           t[i].status = "failed" /\ t[i].reason = "none" => t[i] = att[cur][i]
  PROVE  /\ att' \in [Runs -> Rows] /\ SoundRows(att', db.att)
         /\ att'[cur] = t /\ Len(t) = Len(att[cur]) /\ Sound(t)
         /\ \A q \in Runs : q # cur => att'[q] = att[q]
<1>1. /\ att \in [Runs -> Rows] /\ db.att \in [Runs -> Rows] /\ SoundRows(att, db.att)
  BY RowFunctions DEF IInv, RowsInv
<1>2. att' \in [Runs -> Rows] /\ SoundRows(att', db.att) BY <1>1, RewriteRun
<1>. QED BY <1>1, <1>2 DEF SoundRows, Rewrites

\* The end of execute_run: none of the run's rows is running any more.
LEMMA EndsRun ==
  ASSUME IInv, pc # "idle", cur \in Runs, NextRun, UNCHANGED fixed, db' = db,
         NEW st \in RunStatus \ {"running"}, run' = [run EXCEPT ![cur] = st],
         att' \in [Runs -> Rows], SoundRows(att', db.att),
         \A q \in Runs : q # cur => att'[q] = att[q],
         \A i \in 1 .. Len(att'[cur]) : att'[cur][i].status # "running",
         cache' = cache, exp' \in ExperimentStatus,
         exp' = "canceled" => controls.backend = "autocommit",
         ext' \in BOOLEAN, ext' => ext, late' \in {0, late}, lost' = lost
  PROVE  IInv'
<1>1. TypeOK /\ CursorInv /\ CancelInv BY DEF IInv
<1>2. cur' \in 0 .. NRuns + 1 /\ sel' \in Nat /\ pc' = "next"
  BY ExecutorAssumption DEF NextRun, Runs
<1>3. run' \in [Runs -> RunStatus] /\ \A q \in Runs : run'[q] # "running"
  BY <1>1 DEF TypeOK, CursorInv
<1>4. \A q \in Runs : \A i \in 1 .. Len(att'[q]) : att'[q][i].status # "running"
  BY <1>1 DEF CursorInv
<1>5. CursorInv' BY <1>2, <1>3, <1>4 DEF CursorInv
<1>6. late' \in Nat /\ late' <= 1 BY <1>1 DEF TypeOK, CancelInv
<1>7. ext' => controls.backend = "autocommit" BY <1>1, Zenon DEF CancelInv
<1>8. cache' \in SUBSET Keys BY <1>1 DEF TypeOK
<1>. QED BY <1>2, <1>3, <1>5, <1>6, <1>7, <1>8, SessionStep

\* The reload of the statuses at the top of execute_run's loop.
LEMMA RefreshInv ==
  ASSUME IInv, pc # "idle", Refresh
  PROVE  /\ exp' = Reloaded /\ exp' \in ExperimentStatus
         /\ exp' = "canceled" => controls.backend = "autocommit"
         /\ ext' \in BOOLEAN /\ (ext' => ext)
         /\ late' \in {0, late} /\ lost' = lost
         /\ exp' # "canceled" => ~ext' /\ late' = 0
<1>1. TypeOK /\ CancelInv BY DEF IInv
<1>2. exp' = Reloaded /\ ext' = (ext /\ exp' # "canceled") /\ lost' = lost
      /\ late' = IF ext' THEN late ELSE 0
  BY DEF Refresh
<1>3. exp' = IF ext THEN "canceled" ELSE exp BY <1>2 DEF Reloaded
<1>4. exp' \in ExperimentStatus BY <1>1, <1>3 DEF TypeOK, ExperimentStatus
<1>5. exp' = "canceled" => controls.backend = "autocommit" BY <1>1, <1>3 DEF CancelInv
<1>6. ext' \in BOOLEAN /\ (ext' => ext) BY <1>2, Zenon
<1>7. late' \in {0, late} BY <1>2
<1>8. exp' # "canceled" => ~ext' BY <1>2, <1>3, Zenon
<1>. QED BY <1>2, <1>4, <1>5, <1>6, <1>7, <1>8

\* The status FinishRun gives the run.
LEMMA FinishRunStatus ==
  ASSUME TypeOK, cur \in Runs, att' \in [Runs -> Rows], FinishRun,
         \A i \in 1 .. Len(att'[cur]) : att'[cur][i].status # "running"
  PROVE  \E st \in RunStatus \ {"running"} : run' = [run EXCEPT ![cur] = st]
<1>. DEFINE st == IF run[cur] \in {"skipped", "canceled"} THEN run[cur]
                  ELSE StatusFromAttempts(att'[cur])
<1>1. run[cur] \in RunStatus /\ att'[cur] \in Rows BY DEF TypeOK
<1>2. Len(att'[cur]) > 0 => att'[cur][Len(att'[cur])].status # "running"
  BY <1>1 DEF Rows
<1>3. st \in RunStatus /\ st # "running" BY <1>1, <1>2, StatusTypes
<1>4. run' = [run EXCEPT ![cur] = st] BY DEF FinishRun, TypeOK
<1>. HIDE DEF st
<1>. QED BY <1>3, <1>4

\* A row of the run at hand gets its outcome or starts to run.
LEMMA OutcomeInv ==
  ASSUME IInv, cur \in Runs, sel \in 1 .. Len(att[cur]),
         NEW row \in RunAttempt, SameIdentity(row, att[cur][sel]), Accounts(row),
         row.calls >= att[cur][sel].calls, att[cur][sel].status \notin Terminal,
         ~(row.status = "failed" /\ row.reason = "none"),
         att' = [att EXCEPT ![cur] = [@ EXCEPT ![sel] = row]]
  PROVE  /\ att' \in [Runs -> Rows] /\ SoundRows(att', db.att)
         /\ \A q \in Runs : q # cur => att'[q] = att[q]
         /\ Len(att'[cur]) = Len(att[cur])
         /\ \A j \in 1 .. Len(att[cur]) :
              att'[cur][j] = IF j = sel THEN row ELSE att[cur][j]
<1>. DEFINE s == att[cur]
            t == [s EXCEPT ![sel] = row]
<1>1. Sound(s) BY DEF IInv, RowsInv, SoundRows
<1>2. /\ Rewrites(s, t)
      /\ \A j \in 1 .. Len(s) : t[j] = IF j = sel THEN row ELSE s[j]
  BY <1>1, RewriteOne
<1>3. att' = [att EXCEPT ![cur] = t] OBVIOUS
<1>4. \A j \in 1 .. Len(s) : t[j].status = "failed" /\ t[j].reason = "none" => t[j] = s[j]
  BY <1>2
<1>. HIDE DEF t
<1>5. /\ att' \in [Runs -> Rows] /\ SoundRows(att', db.att)
      /\ att'[cur] = t /\ Len(t) = Len(att[cur])
      /\ \A q \in Runs : q # cur => att'[q] = att[q]
  BY <1>2, <1>3, <1>4, RewriteInv
<1>. QED BY <1>2, <1>5
-----------------------------------------------------------------------------
\* The steps, one lemma each or one for those with the same effect on the rows.

LEMMA MonitorInv == IInv /\ Monitor => IInv' /\ DurableGrows
<1>. SUFFICES ASSUME IInv, Monitor PROVE IInv' /\ DurableGrows OBVIOUS
<1>1. TypeOK /\ RowsInv BY DEF IInv
<1>2. /\ att \in [Runs -> Rows] /\ db.att \in [Runs -> Rows] /\ SoundRows(att, db.att)
      /\ run \in [Runs -> RunStatus] /\ exp \in ExperimentStatus
      /\ cache \in SUBSET Keys /\ cur \in 0 .. NRuns + 1 /\ sel \in Nat
      /\ ext \in BOOLEAN
  BY <1>1, RowFunctions, Zenon DEF RowsInv, TypeOK
<1>3. CASE CancelExperiment
  BY <1>3, CancelAllInv DEF CancelExperiment
<1>4. ASSUME NEW r \in Runs, CancelRun(r) PROVE IInv' /\ DurableGrows
  <2>1. /\ pc = "idle" /\ pc' = "idle" /\ att' = [att EXCEPT ![r] = CancelRows(@)]
        /\ run' = [run EXCEPT ![r] = CancelStatus(att[r], @)]
        /\ exp' = exp /\ cache' = cache /\ Commit /\ UNCHANGED fixed
        /\ cur' = cur /\ sel' = sel /\ ext' = ext /\ late' = late /\ lost' = lost
    BY <1>4 DEF CancelRun, history
  <2>2. /\ att' \in [Runs -> Rows] /\ SoundRows(att', db.att)
        /\ \A q \in Runs : \A i \in 1 .. Len(att'[q]) : att'[q][i].status # "running"
        /\ CancelStatus(att[r], run[r]) \in RunStatus
        /\ CancelStatus(att[r], run[r]) # "running"
    BY <2>1, CancelOneSound
  <2>3. exp # "running" /\ \A q \in Runs : run[q] # "running"
    BY <2>1, IdleNothingRunning
  <2>4. run' \in [Runs -> RunStatus] /\ \A q \in Runs : run'[q] # "running"
    BY <1>2, <2>1, <2>2, <2>3
  <2>. QED BY <1>2, <2>1, <2>2, <2>3, <2>4, CommitStep
<1>5. ASSUME NEW r \in Runs, RetryRun(r) PROVE IInv' /\ DurableGrows
  <2>. DEFINE s == att[r]
              t == Append(s, RetryRow(s, Len(s), FALSE))
  <2>1. /\ pc = "idle" /\ pc' = "idle" /\ att' = [att EXCEPT ![r] = t]
        /\ s[Len(s)].status = "failed"
        /\ run' = [run EXCEPT ![r] = "pending"]
        /\ exp' = IF exp = "canceled" THEN exp ELSE "queued"
        /\ cache' = cache /\ Commit /\ UNCHANGED fixed
        /\ cur' = cur /\ sel' = sel /\ ext' = ext /\ late' = late /\ lost' = lost
    BY <1>2, <1>5 DEF RetryRun, history
  <2>2. Sound(s) /\ Explained(s) /\ Grows(db.att[r], s) /\ s \in Rows
    BY <1>2 DEF SoundRows
  <2>3. Len(s) \in 1 .. Len(s) BY <2>2 DEF Sound, Rows
  <2>4. ASSUME NEW j \in 1 .. Len(s) PROVE s[j].parent # Len(s)
    <3>1. ChainAt(s, j) BY <2>2 DEF Sound
    <3>. QED BY <2>3, <3>1 DEF ChainAt
  <2>5. \A j \in 1 .. Len(s) : ExplainedAt(s, j) BY <2>2 DEF Explained
  <2>. HIDE DEF s
  <2>6. /\ [att EXCEPT ![r] = t] \in [Runs -> Rows]
        /\ SoundRows([att EXCEPT ![r] = t], db.att)
        /\ \A j \in 1 .. Len(t) : t[j].status = "queued" \/ (j \in 1 .. Len(s) /\ t[j] = s[j])
    <3>1. PICK n \in 1 .. Len(s) : n = Len(s) BY <2>3
    <3>2. PICK b \in BOOLEAN : b = FALSE OBVIOUS
    <3>3. s[n].status = "failed" /\ \A j \in 1 .. Len(s) : s[j].parent # n
      BY <2>1, <2>4, <3>1
    <3>4. t = Append(s, RetryRow(s, n, b)) BY <3>1, <3>2
    <3>5. \A j \in 1 .. Len(s) : j # n => ExplainedAt(s, j) BY <2>5
    <3>. HIDE DEF t
    <3>6. [att EXCEPT ![r] = t] \in [Runs -> Rows]
      BY <1>2, <2>2, <3>3, <3>4, <3>5, AppendRun
    <3>7. SoundRows([att EXCEPT ![r] = t], db.att)
      BY <1>2, <2>2, <3>3, <3>4, <3>5, AppendRun
    <3>8. \A j \in 1 .. Len(t) : t[j].status = "queued" \/ (j \in 1 .. Len(s) /\ t[j] = s[j])
      <4>1. RetryRow(s, n, b).status = "queued" BY DEF RetryRow, ReplicateRow
      <4>. QED BY <2>2, <3>4, <4>1, AppendedRows
    <3>. QED BY <3>6, <3>7, <3>8
  <2>7. \A q \in Runs : \A i \in 1 .. Len(att[q]) : att[q][i].status # "running"
    BY <2>1, IdleNothingRunning
  <2>. HIDE DEF t
  <2>8. ASSUME NEW q \in Runs, NEW i \in 1 .. Len(att'[q])
        PROVE  att'[q][i].status # "running"
    <3>1. CASE q # r BY <1>2, <2>1, <2>7, <3>1
    <3>2. CASE q = r
      <4>1. att'[q] = t BY <1>2, <2>1, <3>2
      <4>. QED BY <2>6, <2>7, <4>1 DEF s
    <3>. QED BY <3>1, <3>2
  <2>9. exp # "running" /\ \A q \in Runs : run[q] # "running"
    BY <2>1, IdleNothingRunning
  <2>10. run' \in [Runs -> RunStatus] /\ \A q \in Runs : run'[q] # "running"
    BY <1>2, <2>1, <2>9 DEF RunStatus
  <2>11. exp' \in ExperimentStatus \ {"running"}
    BY <1>2, <2>1, <2>9 DEF ExperimentStatus
  <2>. QED BY <1>2, <2>1, <2>6, <2>8, <2>10, <2>11, CommitStep
<1>. QED BY <1>3, <1>4, <1>5 DEF Monitor

\* Facts every step starts from.
LEMMA Facts ==
  ASSUME IInv
  PROVE  /\ att \in [Runs -> Rows] /\ db.att \in [Runs -> Rows] /\ SoundRows(att, db.att)
         /\ run \in [Runs -> RunStatus] /\ exp \in ExperimentStatus
         /\ cache \in SUBSET Keys /\ cur \in 0 .. NRuns + 1 /\ sel \in Nat
         /\ late \in Nat /\ late <= 1 /\ ext \in BOOLEAN
         /\ ext => controls.backend = "autocommit"
         /\ Runs \subseteq Nat /\ NRuns \in Nat \ {0}
<1>1. TypeOK /\ RowsInv /\ CancelInv BY DEF IInv
<1>2. ext \in BOOLEAN /\ (ext => controls.backend = "autocommit")
  BY <1>1, Zenon DEF TypeOK, CancelInv
<1>3. cur \in 0 .. NRuns + 1 /\ sel \in Nat /\ late \in Nat /\ late <= 1
  BY <1>1 DEF TypeOK, CancelInv
<1>. QED BY <1>1, <1>2, <1>3, RowFunctions, ExecutorAssumption DEF RowsInv

\* A step that commits nothing.
LEMMA DurableUnchanged ==
  ASSUME IInv, db' = db
  PROVE  DurableGrows
BY Facts, GrowsReflexive DEF SoundRows, DurableGrows

LEMMA StartInv ==
  IInv /\ (ExecuteCanceled \/ StartExperiment) => IInv' /\ DurableGrows
<1>. SUFFICES ASSUME IInv, ExecuteCanceled \/ StartExperiment
              PROVE  IInv' /\ DurableGrows
  OBVIOUS
<1>1. CASE ExecuteCanceled
  <2>1. exp' = "canceled" /\ pc = "idle" BY <1>1 DEF ExecuteCanceled
  <2>. QED BY <1>1, <2>1, CancelAllInv DEF ExecuteCanceled
<1>2. CASE StartExperiment
  <2>1. /\ pc = "idle" /\ exp # "canceled" /\ exp' = "running" /\ pc' = "next" /\ cur' = 1
        /\ UNCHANGED fixed /\ db' = db /\ run' = run /\ att' = att /\ cache' = cache
        /\ sel' = sel /\ ext' = ext /\ late' = late /\ lost' = lost
    BY <1>2 DEF StartExperiment, history
  <2>2. CursorInv' BY <2>1, IdleNothingRunning DEF CursorInv
  <2>3. cur' \in 0 .. NRuns + 1 /\ exp' \in ExperimentStatus /\ exp' # "canceled"
    BY <2>1, Facts DEF ExperimentStatus
  <2>. QED BY <2>1, <2>2, <2>3, Facts, SessionStep, DurableUnchanged
<1>. QED BY <1>1, <1>2

LEMMA BeforeLoopInv == IInv /\ (SkipCanceledRun \/ NoAdapter \/ BeginRun) => IInv'
<1>. SUFFICES ASSUME IInv, SkipCanceledRun \/ NoAdapter \/ BeginRun PROVE IInv' OBVIOUS
<1>1. /\ pc = "next" /\ cur \in Runs /\ UNCHANGED fixed /\ db' = db /\ exp' = exp
      /\ cache' = cache /\ ext' = ext /\ late' = late /\ lost' = lost
  BY DEF SkipCanceledRun, NoAdapter, BeginRun, AtRun, history
<1>2. /\ \A r \in Runs : \A i \in 1 .. Len(att[r]) : att[r][i].status # "running"
      /\ \A r \in Runs : run[r] # "running"
  BY <1>1, IdleNothingRunning
<1>3. exp' = "canceled" => controls.backend = "autocommit"
  BY <1>1 DEF IInv, CancelInv
<1>4. ext' \in BOOLEAN /\ (ext' => ext) /\ late' \in {0, late} BY <1>1, Facts
<1>5. CASE SkipCanceledRun
  <2>1. /\ att' = [att EXCEPT ![cur] = CancelRows(@)] /\ NextRun
        /\ run' = [run EXCEPT ![cur] = CancelStatus(att[cur], @)]
    BY <1>5 DEF SkipCanceledRun
  <2>2. /\ att' \in [Runs -> Rows] /\ SoundRows(att', db.att)
        /\ \A q \in Runs : \A i \in 1 .. Len(att'[q]) : att'[q][i].status # "running"
        /\ CancelStatus(att[cur], run[cur]) \in RunStatus
        /\ CancelStatus(att[cur], run[cur]) # "running"
    BY <1>1, <2>1, CancelOneSound
  <2>3. \A q \in Runs : q # cur => att'[q] = att[q] BY <2>1, Facts
  <2>4. PICK st \in RunStatus \ {"running"} : st = CancelStatus(att[cur], run[cur])
    BY <2>2
  <2>5. run' = [run EXCEPT ![cur] = st] BY <2>1, <2>4
  <2>. QED BY <1>1, <1>3, <1>4, <2>1, <2>2, <2>3, <2>5, Facts, EndsRun
<1>6. CASE NoAdapter
  <2>1. /\ run' = [run EXCEPT ![cur] = "failed"] /\ NextRun
        /\ \/ att' = att
           \/ att' = [att EXCEPT ![cur] = BlockRows(@, "provider_blocked")]
    BY <1>6 DEF NoAdapter
  <2>2. /\ att' \in [Runs -> Rows] /\ SoundRows(att', db.att)
        /\ \A q \in Runs : q # cur => att'[q] = att[q]
        /\ \A i \in 1 .. Len(att'[cur]) : att'[cur][i].status # "running"
    <3>1. CASE att' = att BY <1>1, <1>2, <3>1, Facts
    <3>2. CASE att' = [att EXCEPT ![cur] = BlockRows(@, "provider_blocked")]
      <4>. DEFINE t == BlockRows(att[cur], "provider_blocked")
      <4>1. Sound(att[cur]) /\ "provider_blocked" \in FailureReason \ {"none"}
        BY <1>1, Facts DEF SoundRows, FailureReason
      <4>2. /\ Rewrites(att[cur], t)
            /\ \A i \in 1 .. Len(att[cur]) :
                 /\ t[i].status = "running" => att[cur][i].status = "running"
                 /\ t[i].reason = "none" => t[i] = att[cur][i]
        BY <4>1, BlockRewrites
      <4>. HIDE DEF t
      <4>3. att' = [att EXCEPT ![cur] = t] BY <3>2 DEF t
      <4>4. /\ att' \in [Runs -> Rows] /\ SoundRows(att', db.att)
            /\ att'[cur] = t /\ Len(t) = Len(att[cur])
            /\ \A q \in Runs : q # cur => att'[q] = att[q]
        BY <1>1, <4>2, <4>3, RewriteInv
      <4>. QED BY <1>1, <1>2, <4>2, <4>4
    <3>. QED BY <2>1, <3>1, <3>2
  <2>3. "failed" \in RunStatus \ {"running"} BY DEF RunStatus
  <2>. QED BY <1>1, <1>3, <1>4, <2>1, <2>2, <2>3, Facts, EndsRun
<1>7. CASE BeginRun
  <2>1. /\ run' = [run EXCEPT ![cur] = "running"] /\ pc' = "loop" /\ att' = att
        /\ cur' = cur /\ sel' = sel
    BY <1>7 DEF BeginRun
  <2>2. run' \in [Runs -> RunStatus] BY <2>1, Facts DEF RunStatus
  <2>3. CursorInv' BY <1>1, <1>2, <2>1, Facts DEF CursorInv
  <2>. QED BY <1>1, <1>3, <1>4, <2>1, <2>2, <2>3, Facts, SessionStep
<1>. QED BY <1>5, <1>6, <1>7

LEMMA LoopInv == IInv /\ (NothingQueued \/ SeeCanceled \/ SelectAttempt) => IInv'
<1>. SUFFICES ASSUME IInv, NothingQueued \/ SeeCanceled \/ SelectAttempt PROVE IInv' OBVIOUS
<1>1. /\ pc = "loop" /\ UNCHANGED fixed /\ db' = db /\ cache' = cache /\ Refresh
  BY DEF NothingQueued, SeeCanceled, SelectAttempt
<1>2. cur \in Runs BY <1>1 DEF IInv, CursorInv
<1>3. \A r \in Runs : \A i \in 1 .. Len(att[r]) : att[r][i].status # "running"
  BY <1>1, IdleNothingRunning
<1>4. /\ exp' = Reloaded /\ exp' \in ExperimentStatus
      /\ exp' = "canceled" => controls.backend = "autocommit"
      /\ ext' \in BOOLEAN /\ (ext' => ext)
      /\ late' \in {0, late} /\ lost' = lost
      /\ exp' # "canceled" => ~ext' /\ late' = 0
  BY <1>1, RefreshInv
<1>5. CASE NothingQueued
  <2>1. att' = att /\ FinishRun /\ NextRun BY <1>5 DEF NothingQueued
  <2>2. /\ att' \in [Runs -> Rows] /\ SoundRows(att', db.att) /\ TypeOK
        /\ \A i \in 1 .. Len(att'[cur]) : att'[cur][i].status # "running"
    BY <1>2, <1>3, <2>1, Facts DEF IInv
  <2>3. PICK st \in RunStatus \ {"running"} : run' = [run EXCEPT ![cur] = st]
    BY <1>2, <2>1, <2>2, FinishRunStatus
  <2>. QED BY <1>1, <1>2, <1>4, <2>1, <2>2, <2>3, EndsRun
<1>6. CASE SeeCanceled
  <2>1. /\ att' = [att EXCEPT ![cur] = CancelRows(@)] /\ NextRun
        /\ run' = [run EXCEPT ![cur] = "canceled"]
    BY <1>6 DEF SeeCanceled
  <2>2. /\ att' \in [Runs -> Rows] /\ SoundRows(att', db.att)
        /\ \A q \in Runs : \A i \in 1 .. Len(att'[q]) : att'[q][i].status # "running"
    BY <1>1, <1>2, <2>1, CancelOneSound
  <2>3. \A q \in Runs : q # cur => att'[q] = att[q] BY <2>1, Facts
  <2>4. "canceled" \in RunStatus \ {"running"} BY DEF RunStatus
  <2>. QED BY <1>1, <1>2, <1>4, <2>1, <2>2, <2>3, <2>4, EndsRun
<1>7. CASE SelectAttempt
  <2>1. /\ NextQueued(att[cur]) # 0 /\ ~Canceled
        /\ sel' = NextQueued(att[cur]) /\ pc' = "ready"
        /\ run' = run /\ att' = att /\ cur' = cur
    BY <1>7 DEF SelectAttempt
  <2>2. sel' \in 1 .. Len(att[cur]) /\ att[cur][sel'].status = "queued"
    BY <1>2, <2>1, Facts, NextQueuedSelects
  <2>3. exp' # "canceled" /\ run[cur] # "canceled" BY <1>4, <2>1 DEF Canceled
  <2>4. CursorInv' BY <1>1, <1>2, <1>3, <2>1, <2>2 DEF CursorInv, IInv
  <2>5. sel' \in Nat BY <2>2
  <2>6. late' \in Nat /\ late' <= 1 /\ (ext' => controls.backend = "autocommit")
    BY <1>4, <2>3, Facts
  <2>. QED BY <1>1, <1>4, <2>1, <2>3, <2>4, <2>5, <2>6, Facts, SessionStep
<1>. QED BY <1>5, <1>6, <1>7

LEMMA ReadyInv ==
  IInv /\ (BlockRun \/ ApplyCachedResponse \/ SkipOverCap \/ StartCall) => IInv'
<1>. SUFFICES ASSUME IInv, BlockRun \/ ApplyCachedResponse \/ SkipOverCap \/ StartCall
              PROVE  IInv'
  OBVIOUS
<1>1. /\ pc = "ready" /\ UNCHANGED fixed /\ db' = db /\ exp' = exp /\ cache' = cache
      /\ ext' = ext /\ lost' = lost
  BY DEF BlockRun, ApplyCachedResponse, SkipOverCap, StartCall, history
<1>2. /\ cur \in Runs /\ sel \in 1 .. Len(att[cur]) /\ att[cur][sel].status = "queued"
      /\ exp # "canceled" /\ late = 0
      /\ \A r \in Runs : \A i \in 1 .. Len(att[r]) : att[r][i].status # "running"
      /\ \A r \in Runs : run[r] = "running" => r = cur
  BY <1>1 DEF IInv, CursorInv, CancelInv
<1>3. /\ Sound(att[cur]) /\ att[cur] \in Rows /\ att[cur][sel] \in RunAttempt
      /\ att[cur][sel].calls \in Nat /\ Accounts(att[cur][sel])
  BY <1>2, Facts, RowType DEF SoundRows, Sound
<1>4. /\ att[cur][sel].calls = 0 /\ att[cur][sel].cost = 0
      /\ att[cur][sel].error_kind = "none" /\ ~att[cur][sel].cache_hit
  BY <1>2, <1>3 DEF Accounts, Open
<1>5. CASE BlockRun
  <2>. DEFINE why == IF ContextGate THEN gate[cur] ELSE "provider_blocked"
              t   == BlockRows(att[cur], why)
  <2>1. /\ att' = [att EXCEPT ![cur] = t] /\ FinishRun /\ NextRun /\ late' = late
    BY <1>5, Facts DEF BlockRun, history
  <2>2. why \in FailureReason \ {"none"} BY DEF ContextGate, FailureReason
  <2>3. /\ Rewrites(att[cur], t)
        /\ \A i \in 1 .. Len(att[cur]) :
             /\ t[i].status = "running" => att[cur][i].status = "running"
             /\ t[i].reason = "none" => t[i] = att[cur][i]
    BY <1>3, <2>2, BlockRewrites
  <2>. HIDE DEF t
  <2>4. /\ att' \in [Runs -> Rows] /\ SoundRows(att', db.att)
        /\ att'[cur] = t /\ Len(t) = Len(att[cur])
        /\ \A q \in Runs : q # cur => att'[q] = att[q]
    BY <1>2, <2>1, <2>3, RewriteInv
  <2>5. \A i \in 1 .. Len(att'[cur]) : att'[cur][i].status # "running"
    BY <1>2, <2>3, <2>4
  <2>6. PICK st \in RunStatus \ {"running"} : run' = [run EXCEPT ![cur] = st]
    BY <1>2, <2>1, <2>4, <2>5, FinishRunStatus DEF IInv
  <2>. QED BY <1>1, <1>2, <2>1, <2>4, <2>5, <2>6, Facts, EndsRun
<1>6. CASE ApplyCachedResponse
  <2>. DEFINE row == [att[cur][sel] EXCEPT !.status = "succeeded", !.cache_hit = TRUE]
  <2>1. /\ att' = [att EXCEPT ![cur] = [@ EXCEPT ![sel] = row]] /\ pc' = "loop"
        /\ run' = run /\ cur' = cur /\ sel' = sel /\ late' = late
    BY <1>6, <1>2, Facts DEF ApplyCachedResponse, history
  <2>2. /\ row \in RunAttempt /\ SameIdentity(row, att[cur][sel])
        /\ row.status = "succeeded" /\ row.calls = 0 /\ row.cost = 0
        /\ row.error_kind = "none"
    BY <1>3, <1>4 DEF RunAttempt, AttemptStatus, SameIdentity
  <2>3. row.cache_hit = TRUE BY <1>3 DEF RunAttempt
  <2>. HIDE DEF row
  <2>4. Accounts(row) /\ row.calls >= att[cur][sel].calls
    BY <1>4, <2>2, <2>3 DEF Accounts, Open
  <2>5. /\ att' \in [Runs -> Rows] /\ SoundRows(att', db.att)
        /\ \A q \in Runs : q # cur => att'[q] = att[q]
        /\ Len(att'[cur]) = Len(att[cur])
        /\ \A j \in 1 .. Len(att[cur]) : att'[cur][j] = IF j = sel THEN row ELSE att[cur][j]
    BY <1>2, <2>1, <2>2, <2>4, OutcomeInv DEF Terminal
  <2>6. CursorInv' BY <1>1, <1>2, <2>1, <2>2, <2>5 DEF CursorInv
  <2>. QED BY <1>1, <1>2, <2>1, <2>5, <2>6, Facts, SessionStep
<1>7. CASE SkipOverCap
  <2>. DEFINE row == Refused(att[cur][sel], "cost_cap_exceeded")
  <2>1. /\ att' = [att EXCEPT ![cur] = [@ EXCEPT ![sel] = row]] /\ NextRun
        /\ run' = [run EXCEPT ![cur] = "skipped"] /\ late' = late
    BY <1>7, <1>2, Facts DEF SkipOverCap, history
  <2>2. /\ row \in RunAttempt /\ SameIdentity(row, att[cur][sel])
        /\ row.status = "failed" /\ row.calls = 0 /\ row.cost = 0
        /\ row.error_kind = "blocked_by_config" /\ row.reason = "cost_cap_exceeded"
    BY <1>3, <1>4 DEF Refused, RunAttempt, AttemptStatus, ErrorKind, FailureReason, SameIdentity
  <2>. HIDE DEF row
  <2>3. Accounts(row) /\ row.calls >= att[cur][sel].calls
    BY <1>4, <2>2 DEF Accounts, Open
  <2>4. /\ att' \in [Runs -> Rows] /\ SoundRows(att', db.att)
        /\ \A q \in Runs : q # cur => att'[q] = att[q]
        /\ Len(att'[cur]) = Len(att[cur])
        /\ \A j \in 1 .. Len(att[cur]) : att'[cur][j] = IF j = sel THEN row ELSE att[cur][j]
    BY <1>2, <2>1, <2>2, <2>3, OutcomeInv DEF Terminal
  <2>5. \A i \in 1 .. Len(att'[cur]) : att'[cur][i].status # "running"
    BY <1>2, <2>2, <2>4
  <2>6. "skipped" \in RunStatus \ {"running"} BY DEF RunStatus
  <2>. QED BY <1>1, <1>2, <2>1, <2>4, <2>5, <2>6, Facts, EndsRun
<1>8. CASE StartCall
  <2>. DEFINE row == Called(att[cur][sel])
  <2>1. /\ att' = [att EXCEPT ![cur] = [@ EXCEPT ![sel] = row]] /\ pc' = "call"
        /\ run' = run /\ cur' = cur /\ sel' = sel
        /\ late' = IF ext THEN late + 1 ELSE late
    BY <1>8, <1>2, Facts DEF StartCall
  <2>2. /\ row \in RunAttempt /\ SameIdentity(row, att[cur][sel])
        /\ row.status = "running" /\ row.calls = 1 /\ row.cost = 0
        /\ row.error_kind = "none" /\ ~row.cache_hit
    <3>1. ASSUME NEW old \in RunAttempt, NEW n \in Nat
          PROVE  LET new == [old EXCEPT !.calls = n, !.status = "running"]
                 IN  /\ new \in RunAttempt /\ SameIdentity(new, old)
                     /\ new.status = "running" /\ new.calls = n /\ new.cost = old.cost
                     /\ new.error_kind = old.error_kind /\ new.cache_hit = old.cache_hit
      BY DEF RunAttempt, AttemptStatus, SameIdentity
    <3>2. att[cur][sel].calls + 1 \in Nat /\ att[cur][sel].calls + 1 = 1 BY <1>4
    <3>. QED BY <1>3, <1>4, <3>1, <3>2 DEF Called
  <2>. HIDE DEF row
  <2>3. Accounts(row) /\ row.calls >= att[cur][sel].calls
    BY <1>4, <2>2 DEF Accounts, Open
  <2>4. /\ att' \in [Runs -> Rows] /\ SoundRows(att', db.att)
        /\ \A q \in Runs : q # cur => att'[q] = att[q]
        /\ Len(att'[cur]) = Len(att[cur])
        /\ \A j \in 1 .. Len(att[cur]) : att'[cur][j] = IF j = sel THEN row ELSE att[cur][j]
    BY <1>2, <2>1, <2>2, <2>3, OutcomeInv DEF Terminal
  <2>5. CursorInv' BY <1>1, <1>2, <2>1, <2>2, <2>4 DEF CursorInv
  <2>6. late' \in Nat /\ late' <= 1 BY <1>2, <2>1
  <2>. QED BY <1>1, <1>2, <2>1, <2>4, <2>5, <2>6, Facts, SessionStep
<1>. QED BY <1>5, <1>6, <1>7, <1>8

\* The rows of a run that is in a provider call, after the call has failed.
LEMMA FailedRows ==
  ASSUME IInv, pc = "call", NEW kind \in ErrorKind \ {"none", "blocked_by_config"},
         NEW why \in FailureReason
  PROVE  /\ Rewrites(att[cur], Failed(kind, why))
         /\ \A j \in 1 .. Len(att[cur]) :
              /\ Failed(kind, why)[j].status # "running"
              /\ j # sel => Failed(kind, why)[j] = att[cur][j]
         /\ Failed(kind, why)[sel].status = "failed"
         /\ Failed(kind, why)[sel].reason = why
         /\ cur \in Runs /\ sel \in 1 .. Len(att[cur])
         /\ \A j \in 1 .. Len(att[cur]) : att[cur][j].parent # sel
<1>. DEFINE s   == att[cur]
            row == [s[sel] EXCEPT !.status = "failed", !.error_kind = kind, !.reason = why]
<1>1. /\ cur \in Runs /\ sel \in 1 .. Len(s) /\ s[sel].status = "running"
      /\ s[sel].calls = 1
      /\ \A j \in 1 .. Len(s) : s[j].status = "running" => j = sel
  BY DEF IInv, CursorInv
<1>2. /\ Sound(s) /\ s \in Rows /\ s[sel] \in RunAttempt /\ Accounts(s[sel])
  BY <1>1, Facts, RowType DEF SoundRows, Sound
<1>3. /\ row \in RunAttempt /\ SameIdentity(row, s[sel])
      /\ row.status = "failed" /\ row.calls = 1 /\ row.cost = s[sel].cost
      /\ row.error_kind = kind /\ row.reason = why
  BY <1>1, <1>2 DEF RunAttempt, AttemptStatus, ErrorKind, SameIdentity
<1>4. Failed(kind, why) = [s EXCEPT ![sel] = row] BY DEF Failed
<1>. HIDE DEF row
<1>5. Accounts(row) /\ row.calls >= s[sel].calls
  BY <1>1, <1>3 DEF Accounts, Open
<1>6. /\ Rewrites(s, [s EXCEPT ![sel] = row])
      /\ \A j \in 1 .. Len(s) : [s EXCEPT ![sel] = row][j] = IF j = sel THEN row ELSE s[j]
  BY <1>1, <1>2, <1>3, <1>5, RewriteOne DEF Terminal
<1>7. ASSUME NEW j \in 1 .. Len(s) PROVE s[j].parent # sel
  <2>1. ChainAt(s, j) BY <1>2 DEF Sound
  <2>2. s[j].attempt_kind = "replicate" => s[j].parent = 0 BY <2>1 DEF ChainAt
  <2>3. s[j].attempt_kind # "replicate" => s[s[j].parent].status = "failed"
    BY <2>1 DEF ChainAt
  <2>. QED BY <1>1, <2>2, <2>3
<1>. QED BY <1>1, <1>3, <1>4, <1>6, <1>7

LEMMA CallInv ==
  IInv /\ (\/ \E c \in Costs : CallSucceeds(c)
           \/ CallFailsRetry
           \/ \E k \in ErrorKind \ {"none", "blocked_by_config"} : CallFailsForGood(k))
    => IInv'
<1>. SUFFICES ASSUME IInv,
                     \/ \E c \in Costs : CallSucceeds(c)
                     \/ CallFailsRetry
                     \/ \E k \in ErrorKind \ {"none", "blocked_by_config"} : CallFailsForGood(k)
              PROVE  IInv'
  OBVIOUS
<1>1. /\ pc = "call" /\ UNCHANGED fixed /\ db' = db /\ exp' = exp
      /\ ext' = ext /\ late' = late /\ lost' = lost
  BY DEF CallSucceeds, CallFailsRetry, CallFailsForGood, history
<1>2. /\ cur \in Runs /\ sel \in 1 .. Len(att[cur]) /\ att[cur][sel].status = "running"
      /\ att[cur][sel].calls = 1
      /\ \A r \in Runs : \A i \in 1 .. Len(att[r]) :
           att[r][i].status = "running" => r = cur /\ i = sel
      /\ \A r \in Runs : run[r] = "running" => r = cur
  BY <1>1 DEF IInv, CursorInv
<1>3. /\ Sound(att[cur]) /\ att[cur] \in Rows /\ att[cur][sel] \in RunAttempt
      /\ Accounts(att[cur][sel]) /\ Explained(att[cur]) /\ Grows(db.att[cur], att[cur])
  BY <1>2, Facts, RowType DEF SoundRows, Sound
<1>4. exp' = "canceled" => controls.backend = "autocommit"
  BY <1>1 DEF IInv, CancelInv
<1>5. ASSUME NEW c \in Costs, CallSucceeds(c) PROVE IInv'
  <2>. DEFINE row == [att[cur][sel] EXCEPT !.status = "succeeded", !.cost = c]
  <2>1. /\ att' = [att EXCEPT ![cur] = [@ EXCEPT ![sel] = row]] /\ pc' = "loop"
        /\ run' = run /\ cur' = cur /\ sel' = sel
        /\ cache' = IF controls.cache_provider_calls THEN cache \cup {KeyOf[cur]} ELSE cache
    BY <1>5, <1>2, Facts DEF CallSucceeds
  <2>2. /\ row \in RunAttempt /\ SameIdentity(row, att[cur][sel])
        /\ row.status = "succeeded" /\ row.calls = 1 /\ row.cache_hit = att[cur][sel].cache_hit
        /\ row.error_kind = att[cur][sel].error_kind
    BY <1>2, <1>3 DEF RunAttempt, AttemptStatus, SameIdentity
  <2>. HIDE DEF row
  <2>3. att[cur][sel].error_kind = "none" /\ ~att[cur][sel].cache_hit
    BY <1>2, <1>3 DEF Accounts, Open
  <2>4. Accounts(row) /\ row.calls >= att[cur][sel].calls
    BY <1>2, <2>2, <2>3 DEF Accounts, Open
  <2>5. /\ att' \in [Runs -> Rows] /\ SoundRows(att', db.att)
        /\ \A q \in Runs : q # cur => att'[q] = att[q]
        /\ Len(att'[cur]) = Len(att[cur])
        /\ \A j \in 1 .. Len(att[cur]) : att'[cur][j] = IF j = sel THEN row ELSE att[cur][j]
    BY <1>2, <2>1, <2>2, <2>4, OutcomeInv DEF Terminal
  <2>6. CursorInv' BY <1>1, <1>2, <2>1, <2>2, <2>5 DEF CursorInv
  <2>7. cache' \in SUBSET Keys
    <3>1. KeyOf[cur] \in Keys BY <1>2, ExecutorAssumption
    <3>. QED BY <2>1, <3>1, Facts
  <2>. QED BY <1>1, <1>4, <2>1, <2>5, <2>6, <2>7, Facts, SessionStep
<1>6. CASE CallFailsRetry
  <2>. DEFINE s == Failed("retryable", "none")
              t == Append(s, RetryRow(s, sel, ~controls.backoff))
  <2>1. /\ att' = [att EXCEPT ![cur] = t] /\ pc' = "loop"
        /\ run' = run /\ cur' = cur /\ sel' = sel /\ cache' = cache
    BY <1>6 DEF CallFailsRetry
  <2>2. "retryable" \in ErrorKind \ {"none", "blocked_by_config"} /\ "none" \in FailureReason
    BY DEF ErrorKind, FailureReason
  <2>3. /\ Rewrites(att[cur], s)
        /\ \A j \in 1 .. Len(att[cur]) :
             s[j].status # "running" /\ (j # sel => s[j] = att[cur][j])
        /\ s[sel].status = "failed"
        /\ \A j \in 1 .. Len(att[cur]) : att[cur][j].parent # sel
    BY <1>1, <2>2, FailedRows
  <2>. HIDE DEF s
  <2>4. s \in Rows /\ Sound(s) /\ Len(s) = Len(att[cur]) /\ Grows(db.att[cur], s)
    <3>1. db.att[cur] \in Rows BY <1>2, Facts
    <3>2. Sound(s) BY <1>3, <2>3, RewriteKeepsSound
    <3>3. Grows(db.att[cur], s) BY <1>3, <2>3, <3>1, GrowsThenRewrites
    <3>. QED BY <2>3, <3>2, <3>3 DEF Rewrites
  <2>5. \A j \in 1 .. Len(s) : s[j].parent # sel
    BY <2>3, <2>4 DEF Rewrites, SameIdentity
  <2>6. ASSUME NEW j \in 1 .. Len(s), j # sel PROVE ExplainedAt(s, j)
    <3>1. ExplainedAt(att[cur], j) BY <1>3, <2>4 DEF Explained
    <3>. QED BY <2>3, <2>4, <2>6, <3>1 DEF ExplainedAt, Rewrites, SameIdentity
  <2>7. /\ [att EXCEPT ![cur] = t] \in [Runs -> Rows]
        /\ SoundRows([att EXCEPT ![cur] = t], db.att)
        /\ \A j \in 1 .. Len(t) : t[j].status = "queued" \/ (j \in 1 .. Len(s) /\ t[j] = s[j])
    <3>1. (~controls.backoff) \in BOOLEAN BY Zenon
    <3>2. PICK b \in BOOLEAN : b = (~controls.backoff) BY <3>1, Zenon
    <3>3. PICK n \in 1 .. Len(s) : n = sel BY <1>2, <2>4
    <3>4. t = Append(s, RetryRow(s, n, b)) BY <3>2, <3>3, Zenon
    <3>. HIDE DEF t
    <3>5. s[n].status = "failed" /\ (\A j \in 1 .. Len(s) : s[j].parent # n)
          /\ (\A j \in 1 .. Len(s) : j # n => ExplainedAt(s, j))
      BY <2>3, <2>5, <2>6, <3>3
    <3>6. [att EXCEPT ![cur] = t] \in [Runs -> Rows]
      BY <1>2, <2>4, <3>4, <3>5, Facts, AppendRun
    <3>7. SoundRows([att EXCEPT ![cur] = t], db.att)
      BY <1>2, <2>4, <3>4, <3>5, Facts, AppendRun
    <3>8. \A j \in 1 .. Len(t) : t[j].status = "queued" \/ (j \in 1 .. Len(s) /\ t[j] = s[j])
      <4>1. RetryRow(s, n, b).status = "queued" BY DEF RetryRow, ReplicateRow
      <4>. QED BY <2>4, <3>4, <4>1, AppendedRows
    <3>. QED BY <3>6, <3>7, <3>8
  <2>. HIDE DEF t
  <2>8. ASSUME NEW q \in Runs, NEW i \in 1 .. Len(att'[q])
        PROVE  att'[q][i].status # "running"
    <3>1. CASE q # cur BY <1>2, <2>1, <3>1, Facts
    <3>2. CASE q = cur
      <4>1. att'[q] = t BY <1>2, <2>1, <3>2, Facts
      <4>. QED BY <2>3, <2>4, <2>7, <4>1
    <3>. QED BY <3>1, <3>2
  <2>9. CursorInv' BY <1>1, <1>2, <2>1, <2>8 DEF CursorInv
  <2>. QED BY <1>1, <1>4, <2>1, <2>7, <2>9, Facts, SessionStep
<1>7. ASSUME NEW k \in ErrorKind \ {"none", "blocked_by_config"}, CallFailsForGood(k)
      PROVE  IInv'
  <2>. DEFINE t == Failed(k, "error_message")
  <2>1. att' = [att EXCEPT ![cur] = t] /\ FinishRun /\ NextRun /\ cache' = cache
    BY <1>7 DEF CallFailsForGood
  <2>2. "error_message" \in FailureReason BY DEF FailureReason
  <2>3. /\ Rewrites(att[cur], t)
        /\ \A j \in 1 .. Len(att[cur]) :
             t[j].status # "running" /\ (j # sel => t[j] = att[cur][j])
        /\ t[sel].reason = "error_message"
    BY <1>1, <2>2, FailedRows
  <2>. HIDE DEF t
  <2>4. /\ att' \in [Runs -> Rows] /\ SoundRows(att', db.att)
        /\ att'[cur] = t /\ Len(t) = Len(att[cur])
        /\ \A q \in Runs : q # cur => att'[q] = att[q]
    BY <1>2, <2>1, <2>3, RewriteInv
  <2>5. \A i \in 1 .. Len(att'[cur]) : att'[cur][i].status # "running"
    BY <2>3, <2>4
  <2>6. PICK st \in RunStatus \ {"running"} : run' = [run EXCEPT ![cur] = st]
    BY <1>2, <2>1, <2>4, <2>5, FinishRunStatus DEF IInv
  <2>. QED BY <1>1, <1>2, <1>4, <2>1, <2>4, <2>5, <2>6, Facts, EndsRun
<1>. QED BY <1>5, <1>6, <1>7

LEMMA FinishInv == IInv /\ FinishExperiment => IInv' /\ DurableGrows
<1>. SUFFICES ASSUME IInv, FinishExperiment PROVE IInv' /\ DurableGrows OBVIOUS
<1>1. /\ pc = "next" /\ exp' = Verdict(exp, Statuses) /\ run' = run /\ att' = att
      /\ cache' = cache /\ Commit /\ pc' = "idle" /\ cur' = 0 /\ ext' = FALSE
      /\ late' = 0 /\ UNCHANGED fixed /\ sel' = sel /\ lost' = lost
  BY DEF FinishExperiment
<1>2. /\ \A r \in Runs : \A i \in 1 .. Len(att[r]) : att[r][i].status # "running"
      /\ \A r \in Runs : run[r] # "running"
  BY <1>1, IdleNothingRunning
<1>3. "running" \notin Statuses BY <1>2 DEF Statuses
<1>4. exp' \in ExperimentStatus \ {"running"}
  BY <1>1, <1>3 DEF Verdict, ExperimentStatus
<1>5. cur' \in 0 .. NRuns + 1 BY <1>1, Facts
<1>6. ext' \in BOOLEAN /\ ~ext' BY <1>1, Zenon
<1>. QED BY <1>1, <1>2, <1>4, <1>5, <1>6, Facts, CommitStep

\* The rows of run r, and the durable ones, when a backoff has ended.
LEMMA RipenSound ==
  ASSUME NEW o, NEW s, Sound(o), Explained(o), Sound(s), Explained(s), Grows(o, s),
         NEW i \in 1 .. Len(s), s[i].status \notin Terminal
  PROVE  /\ Sound(Ripen(s, i)) /\ Explained(Ripen(s, i))
         /\ Sound(Ripen(o, i)) /\ Explained(Ripen(o, i))
         /\ Grows(Ripen(o, i), Ripen(s, i)) /\ Grows(o, Ripen(o, i))
         /\ Len(Ripen(s, i)) = Len(s) /\ Len(Ripen(o, i)) = Len(o)
         /\ \A j \in 1 .. Len(s) : /\ Ripen(s, i)[j].status = s[j].status
                                   /\ Ripen(s, i)[j].calls = s[j].calls
         /\ \A j \in 1 .. Len(o) : Ripen(o, i)[j].status = o[j].status
<1>. DEFINE t == Ripen(s, i)
            u == Ripen(o, i)
<1>1. i \in 1 .. Len(o) => o[i].status \notin Terminal BY DEF Grows
<1>2. /\ Rewrites(s, t)
      /\ \A j \in 1 .. Len(s) :
           /\ t[j].status = s[j].status /\ t[j].reason = s[j].reason
           /\ t[j].calls = s[j].calls
           /\ s[j].status \in Terminal => t[j] = s[j]
  BY RipenRewrites
<1>3. /\ Rewrites(o, u)
      /\ \A j \in 1 .. Len(o) :
           /\ u[j].status = o[j].status /\ u[j].reason = o[j].reason
           /\ u[j].calls = o[j].calls
           /\ o[j].status \in Terminal => u[j] = o[j]
  BY <1>1, RipenRewrites
<1>. HIDE DEF t, u
<1>4. Sound(t) /\ Explained(t)
  BY <1>2, RewriteKeepsSound, RewriteKeepsExplained DEF Terminal
<1>5. Sound(u) /\ Explained(u)
  BY <1>3, RewriteKeepsSound, RewriteKeepsExplained DEF Terminal
<1>6. o \in Rows /\ s \in Rows /\ t \in Rows /\ u \in Rows /\ Len(t) = Len(s) /\ Len(u) = Len(o)
  BY <1>2, <1>3 DEF Sound, Rewrites
<1>7. Grows(o, t) BY <1>2, <1>6, GrowsThenRewrites
<1>8. Grows(u, t)
  <2>1. ASSUME NEW j \in 1 .. Len(u)
        PROVE  /\ SameIdentity(t[j], u[j])
               /\ u[j].status \in Terminal => t[j] = u[j]
               /\ t[j].calls >= u[j].calls
    <3>1. SameIdentity(t[j], o[j]) /\ SameIdentity(u[j], o[j])
      BY <1>3, <1>6, <1>7 DEF Grows, Rewrites
    <3>2. SameIdentity(t[j], u[j]) BY <3>1 DEF SameIdentity
    <3>3. u[j].status \in Terminal => t[j] = o[j] /\ u[j] = o[j]
      BY <1>3, <1>6, <1>7 DEF Grows
    <3>4. t[j].calls >= u[j].calls BY <1>3, <1>6, <1>7 DEF Grows
    <3>. QED BY <3>2, <3>3, <3>4
  <2>. QED BY <1>6, <1>7, <2>1 DEF Grows
<1>9. Grows(o, u) BY <1>3, <1>6, GrowsReflexive, GrowsThenRewrites
<1>. QED BY <1>2, <1>3, <1>4, <1>5, <1>6, <1>8, <1>9 DEF t, u

LEMMA BackoffInv ==
  ASSUME IInv, NEW r \in Runs, NEW i \in DOMAIN att[r], BackoffEnds(r, i)
  PROVE  IInv' /\ DurableGrows
<1>. DEFINE a == [att EXCEPT ![r] = Ripen(att[r], i)]
            d == [db.att EXCEPT ![r] = Ripen(db.att[r], i)]
<1>1. /\ att[r][i].status = "queued" /\ att' = a
      /\ db' = [db EXCEPT !.att[r] = Ripen(@, i)]
      /\ UNCHANGED fixed /\ exp' = exp /\ run' = run /\ cache' = cache /\ pc' = pc
      /\ cur' = cur /\ sel' = sel /\ ext' = ext /\ late' = late /\ lost' = lost
  BY DEF BackoffEnds, history
<1>2. db = [exp |-> db.exp, run |-> db.run, att |-> db.att, cache |-> db.cache]
      /\ db.att \in [Runs -> Rows]
  BY RowFunctions DEF IInv
<1>3. db'.exp = db.exp /\ db'.run = db.run /\ db'.att = d /\ db'.cache = db.cache
      /\ db' = [exp |-> db.exp, run |-> db.run, att |-> d, cache |-> db.cache]
  BY <1>1, <1>2
<1>4. /\ Sound(att[r]) /\ Explained(att[r]) /\ Sound(db.att[r]) /\ Explained(db.att[r])
      /\ Grows(db.att[r], att[r]) /\ i \in 1 .. Len(att[r])
      /\ att[r][i].status \notin Terminal
  BY <1>1, Facts DEF SoundRows, Terminal, Rows
<1>5. /\ Sound(Ripen(att[r], i)) /\ Explained(Ripen(att[r], i))
      /\ Sound(Ripen(db.att[r], i)) /\ Explained(Ripen(db.att[r], i))
      /\ Grows(Ripen(db.att[r], i), Ripen(att[r], i)) /\ Grows(db.att[r], Ripen(db.att[r], i))
      /\ Len(Ripen(att[r], i)) = Len(att[r]) /\ Len(Ripen(db.att[r], i)) = Len(db.att[r])
      /\ \A j \in 1 .. Len(att[r]) : /\ Ripen(att[r], i)[j].status = att[r][j].status
                                     /\ Ripen(att[r], i)[j].calls = att[r][j].calls
      /\ \A j \in 1 .. Len(db.att[r]) : Ripen(db.att[r], i)[j].status = db.att[r][j].status
  BY <1>4, RipenSound, SMTT(30)
<1>6. /\ a[r] = Ripen(att[r], i) /\ d[r] = Ripen(db.att[r], i)
      /\ \A q \in Runs : q # r => a[q] = att[q] /\ d[q] = db.att[q]
  BY Facts
<1>7. a \in [Runs -> Rows] /\ d \in [Runs -> Rows] BY <1>5, Facts DEF Sound
<1>. HIDE DEF a, d
<1>8. SoundRows(a, d) BY <1>5, <1>6, Facts DEF SoundRows
<1>9. /\ \A q \in Runs : Len(a[q]) = Len(att[q]) /\ Len(d[q]) = Len(db.att[q])
      /\ \A q \in Runs : \A j \in 1 .. Len(att[q]) :
           a[q][j].status = att[q][j].status /\ a[q][j].calls = att[q][j].calls
      /\ \A q \in Runs : \A j \in 1 .. Len(db.att[q]) : d[q][j].status = db.att[q][j].status
  BY <1>5, <1>6, SMTT(30)
<1>10. TypeOK'
  <2>1. TypeOK BY DEF IInv
  <2>2. db' \in [exp : ExperimentStatus, run : [Runs -> RunStatus],
                 att : [Runs -> Seq(RunAttempt)], cache : SUBSET Keys]
    BY <1>3, <1>7, <2>1, RowFunctions DEF Rows
  <2>3. /\ controls' \in ControlSnapshot /\ gate' \in [Runs -> Gate]
        /\ exp' \in ExperimentStatus /\ run' \in [Runs -> RunStatus] /\ cache' \subseteq Keys
        /\ pc' \in {"idle", "next", "loop", "ready", "call"}
        /\ cur' \in 0 .. NRuns + 1 /\ sel' \in Nat /\ late' \in Nat
    BY <1>1, <2>1 DEF TypeOK, fixed
  <2>4. ext' \in BOOLEAN /\ lost' \in BOOLEAN BY <1>1, <2>1, Zenon DEF TypeOK
  <2>. QED BY <1>1, <1>7, <2>2, <2>3, <2>4 DEF TypeOK, Rows
<1>11. RowsInv' BY <1>1, <1>3, <1>8 DEF RowsInv
<1>12. CursorInv' BY <1>1, <1>9 DEF CursorInv, IInv
<1>13. DurableInv'
  <2>1. pc = "idle" => att = db.att BY DEF IInv, DurableInv
  <2>2. pc' = "idle" => att' = db'.att BY <1>1, <1>3, <2>1 DEF a, d
  <2>. QED BY <1>1, <1>3, <1>9, <2>2 DEF DurableInv, IInv
<1>14. CancelInv'
  <2>1. controls' = controls BY <1>1 DEF fixed
  <2>2. ext' => controls'.backend = "autocommit" BY <1>1, <2>1, Zenon DEF IInv, CancelInv
  <2>. QED BY <1>1, <2>1, <2>2 DEF IInv, CancelInv
<1>15. DurableGrows
  BY <1>3, <1>5, <1>6, Facts, GrowsReflexive DEF SoundRows, DurableGrows
<1>. QED BY <1>10, <1>11, <1>12, <1>13, <1>14, <1>15 DEF IInv

LEMMA EnvironmentInv == IInv /\ Environment => IInv' /\ DurableGrows
<1>. SUFFICES ASSUME IInv, Environment PROVE IInv' /\ DurableGrows OBVIOUS
<1>1. CASE Crash
  BY <1>1, RollbackInv, DurableUnchanged DEF Crash, Rollback
<1>2. CASE ExternalCancel
  <2>1. /\ pc # "idle" /\ controls.backend = "autocommit" /\ ext' = TRUE /\ UNCHANGED fixed
        /\ exp' = exp /\ run' = run /\ att' = att /\ cache' = cache /\ pc' = pc
        /\ cur' = cur /\ sel' = sel /\ db' = db /\ late' = late /\ lost' = lost
    BY <1>2 DEF ExternalCancel, rows, history
  <2>2. CursorInv' BY <2>1 DEF IInv, CursorInv
  <2>3. pc' \in {"next", "loop", "ready", "call"} BY <2>1 DEF IInv, TypeOK
  <2>4. pc' = "ready" => exp' # "canceled" /\ run'[cur'] # "canceled" /\ late' = 0
    BY <2>1 DEF IInv, CancelInv
  <2>5. ext' \in BOOLEAN BY <2>1
  <2>. QED BY <2>1, <2>2, <2>3, <2>4, <2>5, Facts, SessionStep, DurableUnchanged
<1>3. CASE \E r \in Runs : \E i \in DOMAIN att[r] : BackoffEnds(r, i)
  BY <1>3, BackoffInv
<1>. QED BY <1>1, <1>2, <1>3 DEF Environment

\* The invariant is inductive, and the durable rows only grow.
LEMMA StepInv == IInv /\ [Next]_vars => IInv' /\ DurableGrows
<1>. SUFFICES ASSUME IInv, [Next]_vars PROVE IInv' /\ DurableGrows OBVIOUS
<1>1. CASE Monitor BY <1>1, MonitorInv
<1>2. CASE ExecuteCanceled \/ StartExperiment BY <1>2, StartInv
<1>3. CASE Worker
  <2>1. CASE SkipCanceledRun \/ NoAdapter \/ BeginRun
    <3>1. db' = db BY <2>1 DEF SkipCanceledRun, NoAdapter, BeginRun
    <3>. QED BY <2>1, <3>1, BeforeLoopInv, DurableUnchanged
  <2>2. CASE NothingQueued \/ SeeCanceled \/ SelectAttempt
    <3>1. db' = db BY <2>2 DEF NothingQueued, SeeCanceled, SelectAttempt
    <3>. QED BY <2>2, <3>1, LoopInv, DurableUnchanged
  <2>3. CASE BlockRun \/ ApplyCachedResponse \/ SkipOverCap \/ StartCall
    <3>1. db' = db BY <2>3 DEF BlockRun, ApplyCachedResponse, SkipOverCap, StartCall
    <3>. QED BY <2>3, <3>1, ReadyInv, DurableUnchanged
  <2>4. CASE \/ \E c \in Costs : CallSucceeds(c)
             \/ CallFailsRetry
             \/ \E k \in ErrorKind \ {"none", "blocked_by_config"} : CallFailsForGood(k)
    <3>1. db' = db BY <2>4 DEF CallSucceeds, CallFailsRetry, CallFailsForGood
    <3>. QED BY <2>4, <3>1, CallInv, DurableUnchanged
  <2>5. CASE FinishExperiment BY <2>5, FinishInv
  <2>6. CASE NaiveTimestamp
    <3>1. Rollback /\ db' = db BY <2>6 DEF NaiveTimestamp, Rollback
    <3>. QED BY <3>1, RollbackInv, DurableUnchanged
  <2>. QED BY <1>3, <2>1, <2>2, <2>3, <2>4, <2>5, <2>6 DEF Worker
<1>4. CASE Environment BY <1>4, EnvironmentInv
<1>5. CASE UNCHANGED vars
  <2>1. IInv' <=> IInv
    BY <1>5 DEF vars, IInv, TypeOK, RowsInv, CursorInv, DurableInv, CancelInv
  <2>2. db' = db BY <1>5 DEF vars
  <2>. QED BY <2>1, <2>2, DurableUnchanged
<1>. QED BY <1>1, <1>2, <1>3, <1>4, <1>5 DEF Next
-----------------------------------------------------------------------------
\* In every behaviour of the executor the rows, the cursor and the commits are
\* as IInv says (execute_experiment, cancel_*, create_retry_attempt_for_run).
THEOREM Invariant == Spec => []IInv
<1>1. Init => IInv BY InitInv
<1>2. IInv /\ [Next]_vars => IInv' BY StepInv
<1>. QED BY <1>1, <1>2, PTL DEF Spec

\* Every variable keeps its type, the rows of a run being a sequence of rows.
THEOREM TypeCorrect == Spec => []TypeOK
<1>1. IInv => TypeOK BY DEF IInv
<1>. QED BY <1>1, Invariant, PTL

\* Retries link up: whatever is canceled, blocked, retried by hand or rolled
\* back, a retry row continues the chain of an earlier row that stayed failed.
THEOREM RetriesContinueChains == Spec => []RetryChain
<1>1. ASSUME IInv PROVE RetryChain
  <2>1. ASSUME NEW r \in Runs PROVE Sound(att[r]) /\ DOMAIN att[r] = 1 .. Len(att[r])
    BY <1>1, <2>1, Facts DEF SoundRows, Rows
  <2>. QED BY <2>1 DEF RetryChain, Row, Sound, ChainAt
<1>. QED BY <1>1, Invariant, PTL

\* A failed row is retried at most once, by the executor and the monitor together.
THEOREM RetriesFormNoTree == Spec => []OneRetryPerAttempt
<1>1. ASSUME IInv PROVE OneRetryPerAttempt
  <2>1. ASSUME NEW r \in Runs PROVE Sound(att[r]) /\ DOMAIN att[r] = 1 .. Len(att[r])
    BY <1>1, <2>1, Facts DEF SoundRows, Rows
  <2>. QED BY <2>1 DEF OneRetryPerAttempt, Row, Sound
<1>. QED BY <1>1, Invariant, PTL

\* What a row says of its provider calls, its cache hit and its cost is what happened.
THEOREM CallsAreAccounted == Spec => []CallAccounting
<1>1. ASSUME IInv PROVE CallAccounting
  <2>1. ASSUME NEW r \in Runs PROVE Sound(att[r]) /\ DOMAIN att[r] = 1 .. Len(att[r])
    BY <1>1, <2>1, Facts DEF SoundRows, Rows
  <2>2. ASSUME NEW r \in Runs, NEW i \in DOMAIN att[r] PROVE Accounts(att[r][i])
    BY <2>1, <2>2 DEF Sound
  <2>. QED BY <2>2 DEF CallAccounting, Row, Accounts
<1>. QED BY <1>1, Invariant, PTL

\* A failed row says why it was final, or a retry was made from it.
THEOREM FailuresAreExplained == Spec => []FailureExplained
<1>1. ASSUME IInv PROVE FailureExplained
  <2>1. ASSUME NEW r \in Runs PROVE Explained(att[r]) /\ DOMAIN att[r] = 1 .. Len(att[r])
    BY <1>1, <2>1, Facts DEF SoundRows, Rows
  <2>. QED BY <2>1 DEF FailureExplained, Row, Explained, ExplainedAt
<1>. QED BY <1>1, Invariant, PTL

\* Nothing durable is ever left running, whenever the worker dies.
THEOREM NothingStaysRunning == Spec => []NothingLeftRunning
<1>1. ASSUME IInv PROVE NothingLeftRunning
  <2>1. \A r \in Runs : DOMAIN db.att[r] = 1 .. Len(db.att[r]) BY <1>1, Facts DEF Rows
  <2>. QED BY <1>1, <2>1 DEF NothingLeftRunning, IInv, DurableInv
<1>. QED BY <1>1, Invariant, PTL

\* At most one provider call starts between a cancellation and its discovery.
THEOREM CancellationStopsCalls == Spec => []OneLateCall
<1>1. IInv => OneLateCall BY DEF IInv, CancelInv, OneLateCall
<1>. QED BY <1>1, Invariant, PTL

\* No provider call starts once the session knows of the cancellation.
THEOREM NoCallAfterCancel == Spec => NoCallOnceCanceled
<1>1. IInv => (pc = "ready" => exp # "canceled" /\ run[cur] # "canceled")
  BY DEF IInv, CancelInv
<1>2. ASSUME IInv, pc = "ready" /\ pc' = "call"
      PROVE  exp # "canceled" /\ run[cur] # "canceled"
  BY <1>1, <1>2
<1>3. IInv /\ [Next]_vars
        => [pc = "ready" /\ pc' = "call" => exp # "canceled" /\ run[cur] # "canceled"]_vars
  BY <1>2
<1>. QED BY <1>3, Invariant, PTL DEF Spec, NoCallOnceCanceled
-----------------------------------------------------------------------------
\* Sound rows that grow, none of them running, evolve as the ledger allows.
LEMMA GrowsEvolves ==
  ASSUME NEW o, NEW t, Sound(o), Sound(t), Grows(o, t),
         \A i \in 1 .. Len(t) : t[i].status # "running"
  PROVE  Ledger!Evolves(o, t)
<1>1. /\ o \in Rows /\ t \in Rows /\ Len(o) \in Nat /\ Len(t) \in Nat /\ Len(o) <= Len(t)
  BY DEF Sound, Grows, Rows
<1>2. ASSUME NEW i \in 1 .. Len(o) PROVE Ledger!RowStep(o[i], t[i])
  <2>1. i \in 1 .. Len(t) BY <1>1
  <2>. QED BY <2>1
       DEF Grows, SameIdentity, Ledger!RowStep, Ledger!Identity, Ledger!Terminal, Terminal
<1>3. ASSUME NEW i \in Len(o) + 1 .. Len(t) PROVE Ledger!RetryOf(t, i)
  <2>1. i \in 1 .. Len(t) BY <1>1
  <2>2. t[i].attempt_kind = "retry" BY DEF Grows
  <2>3. ChainAt(t, i) BY <2>1 DEF Sound
  <2>. QED BY <2>2, <2>3 DEF ChainAt, Ledger!RetryOf
<1>. QED BY <1>1, <1>2, <1>3 DEF Ledger!Evolves

\* The committed rows are a ledger: every commit, whatever happened before it,
\* keeps the settled rows as they are and adds retries of failed rows only.
THEOREM ExecutorKeepsLedger == Spec => LedgerSpec
<1>1. Init => Ledger!Init BY DEF Init, Ledger!Init, Runs, Ledger!ReplicateRow, ReplicateRow
<1>2. IInv /\ [Next]_vars => [Ledger!Next]_(db.att)
  <2>. SUFFICES ASSUME IInv, [Next]_vars PROVE Ledger!Next
    OBVIOUS
  <2>1. IInv' /\ DurableGrows BY StepInv
  <2>2. /\ db.att \in [Runs -> Rows] /\ db'.att \in [Runs -> Rows]
        /\ SoundRows(att, db.att) /\ SoundRows(att', db'.att)
    BY <2>1, RowFunctions DEF IInv, TypeOK, RowsInv, Rows
  <2>3. \A r \in Runs : \A i \in 1 .. Len(db'.att[r]) : db'.att[r][i].status # "running"
    BY <2>1 DEF IInv, DurableInv
  <2>4. ASSUME NEW r \in Runs PROVE Ledger!Evolves(db.att[r], db'.att[r])
    BY <2>1, <2>2, <2>3, GrowsEvolves DEF SoundRows, DurableGrows
  <2>. QED BY <2>2, <2>4 DEF Ledger!Next, Runs, Rows, Ledger!RunAttempt, RunAttempt,
       Ledger!AttemptStatus, AttemptStatus, Ledger!ErrorKind, ErrorKind,
       Ledger!FailureReason, FailureReason
<1>. QED BY <1>1, <1>2, Invariant, PTL DEF Spec, LedgerSpec, Ledger!Spec

\* An execution starts from a committed status that is not canceled.
CommittedOpen == pc # "idle" => db.exp # "canceled"

\* No step of the executor, of the monitor, of a crash or of a rollback takes a
\* canceled experiment to another status, and a cancellation another connection
\* has committed is lost only to the verdict of an execution that ends before it
\* refreshes again.
THEOREM CancellationIsLostOnlyAtTheEnd == Spec => CancellationLostOnlyAtEnd
<1>. DEFINE Kept == /\ db.exp = "canceled" => db'.exp = "canceled"
                    /\ exp = "canceled" => exp' = "canceled"
                    /\ ext => ext' \/ exp' = "canceled" \/ FinishExperiment
<1>1. ASSUME IInv, CommittedOpen, Next PROVE Kept /\ CommittedOpen'
  <2>1. /\ pc # "idle" => db.exp # "canceled"
        /\ pc # "idle" /\ exp = "canceled" => controls.backend = "autocommit"
        /\ pc = "idle" => exp = db.exp
    BY <1>1 DEF IInv, CancelInv, DurableInv, CommittedOpen
  <2>2. CASE Monitor
    <3>1. /\ pc = "idle" /\ pc' = pc /\ ext' = ext /\ Commit
          /\ exp' \in {exp, "canceled"} \/ (exp # "canceled" /\ exp' = "queued")
      BY <2>2, Zenon DEF Monitor, CancelExperiment, CancelRun, RetryRun
    <3>2. db'.exp = exp' BY <3>1 DEF Commit
    <3>. QED BY <2>1, <3>1, <3>2 DEF CommittedOpen
  <2>3. CASE ExecuteCanceled \/ StartExperiment
    BY <2>1, <2>3 DEF ExecuteCanceled, StartExperiment, Commit, CommittedOpen
  <2>4. CASE SkipCanceledRun \/ NoAdapter \/ BeginRun
    BY <2>1, <2>4 DEF SkipCanceledRun, NoAdapter, BeginRun, AtRun, CommittedOpen
  <2>5. CASE NothingQueued \/ SeeCanceled \/ SelectAttempt
    BY <2>1, <2>5 DEF CommittedOpen, NothingQueued, SeeCanceled, SelectAttempt, Refresh, Reloaded
  <2>6. CASE BlockRun \/ ApplyCachedResponse \/ SkipOverCap \/ StartCall
    BY <2>1, <2>6 DEF CommittedOpen, BlockRun, ApplyCachedResponse, SkipOverCap, StartCall
  <2>7. CASE \/ \E c \in Costs : CallSucceeds(c)
             \/ CallFailsRetry
             \/ \E k \in ErrorKind \ {"none", "blocked_by_config"} : CallFailsForGood(k)
    <3>1. pc = "call" /\ UNCHANGED <<exp, db, ext>>
      BY <2>7, Zenon DEF CallSucceeds, CallFailsRetry, CallFailsForGood
    <3>. QED BY <2>1, <3>1 DEF CommittedOpen
  <2>8. CASE FinishExperiment
    <3>1. pc # "idle" /\ pc' = "idle" /\ exp' = Verdict(exp, Statuses)
      BY <2>8 DEF FinishExperiment
    <3>2. exp = "canceled" => exp' = "canceled" BY <3>1 DEF Verdict
    <3>. QED BY <2>1, <2>8, <3>1, <3>2, Zenon DEF CommittedOpen
  <2>9. CASE NaiveTimestamp
    <3>1. controls.backend = "sqlite" BY <2>9 DEF NaiveTimestamp, NextQueuedRaises, Naive
    <3>2. pc # "idle" BY <2>9 DEF NaiveTimestamp, AtRun
    <3>3. db' = db /\ ext' = ext /\ pc' = "idle" BY <2>9 DEF NaiveTimestamp, Rollback
    <3>. QED BY <2>1, <3>1, <3>2, <3>3 DEF CommittedOpen
  <2>10. CASE Crash BY <2>1, <2>10 DEF Crash, Rollback, CommittedOpen
  <2>11. CASE ExternalCancel BY <2>1, <2>11 DEF ExternalCancel, rows, CommittedOpen
  <2>12. CASE \E r \in Runs : \E i \in DOMAIN att[r] : BackoffEnds(r, i)
    <3>1. db'.exp = db.exp /\ exp' = exp /\ ext' = ext /\ pc' = pc
      BY <1>1, <2>12 DEF BackoffEnds, IInv, TypeOK
    <3>. QED BY <2>1, <3>1 DEF CommittedOpen
  <2>. QED BY <1>1, <2>2, <2>3, <2>4, <2>5, <2>6, <2>7, <2>8, <2>9, <2>10, <2>11, <2>12
       DEF Next, Worker, Environment
<1>2. Init => CommittedOpen BY DEF Init, CommittedOpen
<1>3. IInv /\ CommittedOpen /\ [Next]_vars => CommittedOpen'
  BY <1>1 DEF CommittedOpen, vars
<1>4. IInv /\ CommittedOpen /\ [Next]_vars => [Kept]_vars BY <1>1
<1>. QED BY <1>2, <1>3, <1>4, Invariant, PTL DEF Spec, CancellationLostOnlyAtEnd
-----------------------------------------------------------------------------
(***************************************************************************)
(* The statuses of the runs.  A run's status fits its rows, those the      *)
(* session sees and those committed, because a row is only ever canceled   *)
(* together with all the open rows of its run, so that the latest row      *)
(* tells for all; while a run executes its status is "running" and says    *)
(* nothing.                                                                *)
(***************************************************************************)
CanceledLast(s) ==
  s[Len(s)].status = "canceled" => \A i \in 1 .. Len(s) : s[i].status \in Terminal

RunFits(s, status, g) ==
  /\ status = "complete" => s[Len(s)].status = "succeeded"
  /\ status = "pending"  => \E i \in 1 .. Len(s) : s[i].status = "queued"
  /\ status = "canceled" => \A i \in 1 .. Len(s) : s[i].status \in Terminal
  /\ status = "skipped"  => \E i \in 1 .. Len(s) : s[i].reason = "cost_cap_exceeded"
  /\ status = "failed"   => s[Len(s)].status = "failed" \/ g = "no_adapter"
  /\ CanceledLast(s)

AllFit(a, status, g) == \A r \in Runs : RunFits(a[r], status[r], g[r])

VerdictInv ==
  /\ AllFit(att, run, gate) /\ AllFit(db.att, db.run, gate)
  /\ pc \in {"loop", "ready", "call"} => run[cur] = "running"

\* Canceling the rows of a run, with the status cancellation gives it.
LEMMA CanceledFits ==
  ASSUME NEW s, Sound(s), \A i \in 1 .. Len(s) : s[i].status # "running",
         NEW g
  PROVE  /\ RunFits(CancelRows(s), "canceled", g)
         /\ \A status : status # "running" /\ RunFits(s, status, g)
              => RunFits(CancelRows(s), CancelStatus(s, status), g)
<1>. DEFINE t == CancelRows(s)
<1>1. s \in Rows /\ DOMAIN s = 1 .. Len(s) /\ Len(s) \in 1 .. Len(s) BY DEF Sound, Rows
<1>2. Len(t) = Len(s) /\ \A i \in 1 .. Len(s) : t[i].status \in Terminal
  BY CancelRewrites DEF Rewrites
<1>3. \A i \in 1 .. Len(s) : s[i].status \notin Open => t[i] = s[i]
  BY <1>1 DEF CancelRows
<1>. HIDE DEF t
<1>4. RunFits(t, "canceled", g) BY <1>2 DEF RunFits, CanceledLast
<1>5. ASSUME NEW status, status # "running", RunFits(s, status, g)
      PROVE  RunFits(t, CancelStatus(s, status), g)
  <2>1. CASE CancelStatus(s, status) = "canceled" BY <1>4, <2>1
  <2>2. CASE CancelStatus(s, status) # "canceled"
    <3>1. CancelStatus(s, status) = status /\ \A i \in 1 .. Len(s) : s[i].status \notin Open
      BY <1>1, <2>2 DEF CancelStatus
    <3>2. \A i \in 1 .. Len(s) : t[i] = s[i] BY <1>3, <3>1
    <3>3. RunFits(t, status, g) BY <1>1, <1>2, <1>5, <3>2 DEF RunFits, CanceledLast
    <3>. QED BY <3>1, <3>3
  <2>. QED BY <2>1, <2>2
<1>. QED BY <1>4, <1>5 DEF t

\* The status the latest row gives a run.
LEMMA LatestFits ==
  ASSUME NEW s, Sound(s), CanceledLast(s), NEW g
  PROVE  RunFits(s, StatusFromAttempts(s), g)
<1>. DEFINE last == s[Len(s)].status
            st   == StatusFromAttempts(s)
<1>1. s \in Rows /\ s # <<>> /\ Len(s) \in 1 .. Len(s) BY DEF Sound, Rows
<1>2. last \in AttemptStatus BY <1>1, RowType DEF RunAttempt
<1>3. st = CASE last = "succeeded" -> "complete" [] last = "failed" -> "failed"
             [] last = "canceled" -> "canceled" [] last = "running" -> "running"
             [] last = "queued" -> "pending"
  BY <1>1 DEF StatusFromAttempts
<1>4. last = "canceled" => \A i \in 1 .. Len(s) : s[i].status \in Terminal
  BY DEF CanceledLast
<1>5. last = "queued" => \E i \in 1 .. Len(s) : s[i].status = "queued" BY <1>1
<1>. HIDE DEF last, st
<1>6. /\ st = "complete" => last = "succeeded"
      /\ st = "pending" => last = "queued"
      /\ st = "canceled" => last = "canceled"
      /\ st # "skipped"
      /\ st = "failed" => last = "failed"
  BY <1>2, <1>3 DEF AttemptStatus
<1>. QED BY <1>4, <1>5, <1>6 DEF RunFits, CanceledLast, last, st

\* An open row that starts to run, succeeds or fails; open rows that are refused.
LEMMA OutcomeKeepsLast ==
  ASSUME NEW s, Sound(s), CanceledLast(s), NEW t, Len(t) = Len(s),
         \A i \in 1 .. Len(s) :
           t[i] = s[i] \/ (s[i].status \notin Terminal /\ t[i].status # "canceled")
  PROVE  CanceledLast(t)
<1>1. Len(s) \in 1 .. Len(s) BY DEF Sound, Rows
<1>. QED BY <1>1 DEF CanceledLast

LEMMA BlockKeepsLast ==
  ASSUME NEW s, Sound(s), CanceledLast(s), NEW why \in FailureReason \ {"none"}
  PROVE  CanceledLast(BlockRows(s, why))
<1>. DEFINE t == BlockRows(s, why)
<1>1. s \in Rows /\ DOMAIN s = 1 .. Len(s) BY DEF Sound, Rows
<1>2. Len(t) = Len(s) BY BlockRewrites DEF Rewrites
<1>3. ASSUME NEW i \in 1 .. Len(s)
      PROVE  t[i] = s[i] \/ (s[i].status \notin Terminal /\ t[i].status # "canceled")
  <2>1. t[i] = IF s[i].status = "queued" THEN Refused(s[i], why) ELSE s[i]
    BY <1>1 DEF BlockRows
  <2>2. s[i] \in RunAttempt BY <1>1, RowType
  <2>3. Refused(s[i], why).status = "failed" BY <2>2 DEF Refused, RunAttempt
  <2>. QED BY <2>1, <2>3 DEF Terminal
<1>. HIDE DEF t
<1>4. CanceledLast(t) BY <1>2, <1>3, OutcomeKeepsLast
<1>. QED BY <1>4 DEF t

\* A retry is queued behind the rows of a run.
LEMMA AppendFits ==
  ASSUME NEW s \in Rows, NEW row, row.status = "queued", NEW g
  PROVE  RunFits(Append(s, row), "pending", g)
<1>. DEFINE t == Append(s, row)
<1>1. Len(t) = Len(s) + 1 /\ Len(s) \in Nat /\ t[Len(t)] = row BY DEF Rows
<1>2. Len(t) \in 1 .. Len(t) BY <1>1
<1>. HIDE DEF t
<1>3. RunFits(t, "pending", g) BY <1>1, <1>2 DEF RunFits, CanceledLast
<1>. QED BY <1>3 DEF t

\* Rows that differ neither in status nor in reason.
LEMMA SameStatusesFit ==
  ASSUME NEW s, Sound(s), NEW t, Len(t) = Len(s),
         \A i \in 1 .. Len(s) : t[i].status = s[i].status /\ t[i].reason = s[i].reason,
         NEW status, NEW g, RunFits(s, status, g)
  PROVE  RunFits(t, status, g)
<1>1. Len(s) \in 1 .. Len(s) BY DEF Sound, Rows
<1>. QED BY <1>1 DEF RunFits, CanceledLast

\* A running run says nothing of its rows but that a canceled row ends them.
LEMMA RunningFits ==
  ASSUME NEW s, CanceledLast(s), NEW g
  PROVE  RunFits(s, "running", g)
BY DEF RunFits

\* A commit makes durable what fits.
LEMMA CommitFits ==
  ASSUME IInv, Commit, pc' = "idle", AllFit(att', run', gate), gate' = gate
  PROVE  VerdictInv'
BY DEF VerdictInv, Commit

\* A step inside an execution.
LEMMA SessionFits ==
  ASSUME VerdictInv, AllFit(att', run', gate), gate' = gate, db' = db,
         pc' \in {"loop", "ready", "call"} => run'[cur'] = "running"
  PROVE  VerdictInv'
BY DEF VerdictInv

LEMMA InitFits == Init => VerdictInv
<1>. SUFFICES ASSUME Init PROVE VerdictInv OBVIOUS
<1>1. Replicates \in Nat \ {0} BY ExecutorAssumption
<1>2. ASSUME NEW r \in Runs PROVE RunFits(att[r], run[r], gate[r])
  <2>1. att[r] = [k \in 1 .. Replicates |-> ReplicateRow(k)] /\ run[r] = "pending"
    BY DEF Init
  <2>2. Len(att[r]) = Replicates BY <1>1, <2>1
  <2>3. \A i \in 1 .. Len(att[r]) : att[r][i].status = "queued"
    <3>1. \A k \in 1 .. Replicates : ReplicateRow(k).status = "queued"
      BY DEF ReplicateRow
    <3>. QED BY <2>1, <2>2, <3>1
  <2>4. Len(att[r]) \in 1 .. Len(att[r]) BY <1>1, <2>2
  <2>. QED BY <2>1, <2>3, <2>4 DEF RunFits, CanceledLast
<1>3. db.att = att /\ db.run = run /\ pc = "idle" BY DEF Init
<1>. QED BY <1>2, <1>3 DEF VerdictInv, AllFit

\* The cancellation of every run, and of one run, between executions.
LEMMA CancelAllFits ==
  ASSUME IInv, VerdictInv, pc = "idle", pc' = "idle", CancelAll, Commit, UNCHANGED fixed
  PROVE  VerdictInv'
<1>1. ASSUME NEW r \in Runs PROVE RunFits(att'[r], run'[r], gate[r])
  <2>1. att'[r] = CancelRows(att[r]) /\ run'[r] = CancelStatus(att[r], run[r])
    BY DEF CancelAll
  <2>2. Sound(att[r]) /\ RunFits(att[r], run[r], gate[r])
    BY Facts DEF SoundRows, VerdictInv, AllFit
  <2>3. run[r] # "running" /\ \A i \in 1 .. Len(att[r]) : att[r][i].status # "running"
    BY IdleNothingRunning
  <2>. QED BY <2>1, <2>2, <2>3, CanceledFits
<1>2. gate' = gate BY DEF fixed
<1>. QED BY <1>1, <1>2, CommitFits DEF AllFit

LEMMA CancelOneFits ==
  ASSUME IInv, VerdictInv, pc \in {"idle", "next"}, NEW r \in Runs,
         att' = [att EXCEPT ![r] = CancelRows(@)],
         run' = [run EXCEPT ![r] = CancelStatus(att[r], @)]
  PROVE  AllFit(att', run', gate)
<1>1. Sound(att[r]) /\ AllFit(att, run, gate) /\ RunFits(att[r], run[r], gate[r])
  BY Facts DEF SoundRows, VerdictInv, AllFit
<1>2. run[r] # "running" /\ \A i \in 1 .. Len(att[r]) : att[r][i].status # "running"
  BY IdleNothingRunning
<1>3. RunFits(CancelRows(att[r]), CancelStatus(att[r], run[r]), gate[r])
  BY <1>1, <1>2, CanceledFits
<1>4. /\ att'[r] = CancelRows(att[r]) /\ run'[r] = CancelStatus(att[r], run[r])
      /\ \A q \in Runs : q # r => att'[q] = att[q] /\ run'[q] = run[q]
  BY Facts
<1>5. \A q \in Runs : RunFits(att'[q], run'[q], gate[q])
  BY <1>1, <1>3, <1>4 DEF AllFit
<1>. QED BY <1>5 DEF AllFit

LEMMA MonitorFits ==
  IInv /\ VerdictInv /\ (Monitor \/ ExecuteCanceled \/ StartExperiment) => VerdictInv'
<1>. SUFFICES ASSUME IInv, VerdictInv, Monitor \/ ExecuteCanceled \/ StartExperiment
              PROVE  VerdictInv'
  OBVIOUS
<1>1. CASE CancelExperiment BY <1>1, CancelAllFits DEF CancelExperiment
<1>2. CASE ExecuteCanceled BY <1>2, CancelAllFits DEF ExecuteCanceled
<1>3. ASSUME NEW r \in Runs, CancelRun(r) PROVE VerdictInv'
  <2>1. pc = "idle" /\ pc' = "idle" /\ Commit /\ gate' = gate BY <1>3 DEF CancelRun, fixed
  <2>2. AllFit(att', run', gate) BY <1>3, <2>1, CancelOneFits DEF CancelRun
  <2>. QED BY <2>1, <2>2, CommitFits
<1>4. ASSUME NEW r \in Runs, RetryRun(r) PROVE VerdictInv'
  <2>1. pc' = "idle" /\ Commit /\ gate' = gate BY <1>4 DEF RetryRun, fixed
  <2>2. /\ att'[r] = Append(att[r], RetryRow(att[r], Len(att[r]), FALSE))
        /\ run'[r] = "pending"
        /\ \A q \in Runs : q # r => att'[q] = att[q] /\ run'[q] = run[q]
    BY <1>4, Facts DEF RetryRun
  <2>3. RetryRow(att[r], Len(att[r]), FALSE).status = "queued"
    BY DEF RetryRow, ReplicateRow
  <2>4. RunFits(att'[r], run'[r], gate[r]) BY <2>2, <2>3, Facts, AppendFits
  <2>5. \A q \in Runs : RunFits(att'[q], run'[q], gate[q])
    BY <2>2, <2>4 DEF VerdictInv, AllFit
  <2>6. AllFit(att', run', gate) BY <2>5 DEF AllFit
  <2>. QED BY <2>1, <2>6, CommitFits
<1>5. CASE StartExperiment
  <2>1. pc' = "next" /\ db' = db /\ run' = run /\ att' = att /\ gate' = gate
    BY <1>5 DEF StartExperiment, fixed
  <2>. QED BY <2>1, SessionFits DEF VerdictInv
<1>. QED BY <1>1, <1>2, <1>3, <1>4, <1>5 DEF Monitor

\* The steps of an execution that end the run at hand, its status then being st.
LEMMA EndFits ==
  ASSUME IInv, VerdictInv, cur \in Runs, NextRun, db' = db, gate' = gate,
         NEW st, run' = [run EXCEPT ![cur] = st],
         \A q \in Runs : q # cur => att'[q] = att[q],
         RunFits(att'[cur], st, gate[cur])
  PROVE  VerdictInv'
<1>1. run'[cur] = st /\ \A q \in Runs : q # cur => run'[q] = run[q] BY Facts
<1>2. \A q \in Runs : RunFits(att'[q], run'[q], gate[q])
  BY <1>1 DEF VerdictInv, AllFit
<1>3. AllFit(att', run', gate) BY <1>2 DEF AllFit
<1>4. pc' = "next" BY DEF NextRun
<1>. QED BY <1>3, <1>4, SessionFits

LEMMA FinishFits ==
  ASSUME IInv, VerdictInv, cur \in Runs, run[cur] = "running", FinishRun, NextRun,
         db' = db, gate' = gate, \A q \in Runs : q # cur => att'[q] = att[q],
         Sound(att'[cur]), CanceledLast(att'[cur])
  PROVE  VerdictInv'
<1>. DEFINE st == StatusFromAttempts(att'[cur])
<1>1. run' = [run EXCEPT ![cur] = st] BY Facts DEF FinishRun
<1>2. RunFits(att'[cur], st, gate[cur]) BY LatestFits
<1>. HIDE DEF st
<1>. QED BY <1>1, <1>2, EndFits

\* The steps of an execution that stay in the loop.
LEMMA StayFits ==
  ASSUME IInv, VerdictInv, cur \in Runs, run[cur] = "running", run' = run, cur' = cur,
         db' = db, gate' = gate, \A q \in Runs : q # cur => att'[q] = att[q],
         CanceledLast(att'[cur])
  PROVE  VerdictInv'
<1>1. RunFits(att'[cur], run'[cur], gate[cur]) BY RunningFits
<1>2. \A q \in Runs : RunFits(att'[q], run'[q], gate[q])
  BY <1>1 DEF VerdictInv, AllFit
<1>3. AllFit(att', run', gate) BY <1>2 DEF AllFit
<1>. QED BY <1>3, SessionFits DEF VerdictInv

LEMMA BeforeLoopFits ==
  IInv /\ VerdictInv /\ (SkipCanceledRun \/ NoAdapter \/ BeginRun) => VerdictInv'
<1>. SUFFICES ASSUME IInv, VerdictInv, SkipCanceledRun \/ NoAdapter \/ BeginRun
              PROVE  VerdictInv'
  OBVIOUS
<1>1. pc = "next" /\ cur \in Runs /\ gate' = gate /\ db' = db
  BY DEF SkipCanceledRun, NoAdapter, BeginRun, AtRun, fixed
<1>2. Sound(att[cur]) /\ CanceledLast(att[cur]) /\ AllFit(att, run, gate)
  BY <1>1, Facts DEF SoundRows, VerdictInv, AllFit, RunFits
<1>3. CASE SkipCanceledRun
  <2>1. AllFit(att', run', gate) BY <1>1, <1>3, CancelOneFits DEF SkipCanceledRun
  <2>2. pc' = "next" BY <1>3 DEF SkipCanceledRun, NextRun
  <2>. QED BY <1>1, <2>1, <2>2, SessionFits
<1>4. CASE NoAdapter
  <2>1. /\ run' = [run EXCEPT ![cur] = "failed"] /\ NextRun /\ gate[cur] = "no_adapter"
        /\ \/ att' = att
           \/ att' = [att EXCEPT ![cur] = BlockRows(@, "provider_blocked")]
    BY <1>4 DEF NoAdapter
  <2>2. "provider_blocked" \in FailureReason \ {"none"} BY DEF FailureReason
  <2>3. CanceledLast(att'[cur]) /\ \A q \in Runs : q # cur => att'[q] = att[q]
    <3>1. CASE att' = att BY <1>2, <3>1
    <3>2. CASE att' = [att EXCEPT ![cur] = BlockRows(@, "provider_blocked")]
      <4>1. att'[cur] = BlockRows(att[cur], "provider_blocked")
        BY <1>1, <3>2, Facts
      <4>2. \A q \in Runs : q # cur => att'[q] = att[q] BY <3>2, Facts
      <4>. QED BY <1>2, <2>2, <4>1, <4>2, BlockKeepsLast
    <3>. QED BY <2>1, <3>1, <3>2
  <2>4. RunFits(att'[cur], "failed", gate[cur]) BY <2>1, <2>3 DEF RunFits
  <2>. QED BY <1>1, <2>1, <2>3, <2>4, EndFits
<1>5. CASE BeginRun
  <2>1. run' = [run EXCEPT ![cur] = "running"] /\ att' = att /\ cur' = cur
    BY <1>5 DEF BeginRun
  <2>2. run'[cur] = "running" /\ \A q \in Runs : q # cur => run'[q] = run[q]
    BY <1>1, <2>1, Facts
  <2>3. RunFits(att'[cur], run'[cur], gate[cur]) BY <1>2, <2>1, <2>2, RunningFits
  <2>4. AllFit(att', run', gate)
    <3>1. \A q \in Runs : RunFits(att'[q], run'[q], gate[q])
      BY <1>2, <2>1, <2>2, <2>3 DEF AllFit
    <3>. QED BY <3>1 DEF AllFit
  <2>. QED BY <1>1, <2>1, <2>2, <2>4, SessionFits
<1>. QED BY <1>3, <1>4, <1>5

LEMMA LoopFits ==
  IInv /\ VerdictInv /\ (NothingQueued \/ SeeCanceled \/ SelectAttempt) => VerdictInv'
<1>. SUFFICES ASSUME IInv, VerdictInv, NothingQueued \/ SeeCanceled \/ SelectAttempt
              PROVE  VerdictInv'
  OBVIOUS
<1>1. pc = "loop" /\ gate' = gate /\ db' = db
  BY DEF NothingQueued, SeeCanceled, SelectAttempt, fixed
<1>2. cur \in Runs /\ run[cur] = "running" BY <1>1 DEF IInv, CursorInv, VerdictInv
<1>3. /\ Sound(att[cur]) /\ CanceledLast(att[cur]) /\ AllFit(att, run, gate)
      /\ RunFits(att[cur], run[cur], gate[cur])
  BY <1>2, Facts DEF SoundRows, VerdictInv, AllFit, RunFits
<1>4. CASE NothingQueued
  <2>1. att' = att /\ FinishRun /\ NextRun BY <1>4 DEF NothingQueued
  <2>. QED BY <1>1, <1>2, <1>3, <2>1, FinishFits
<1>5. CASE SeeCanceled
  <2>1. /\ att' = [att EXCEPT ![cur] = CancelRows(@)] /\ NextRun
        /\ run' = [run EXCEPT ![cur] = "canceled"]
    BY <1>5 DEF SeeCanceled
  <2>2. att'[cur] = CancelRows(att[cur]) /\ \A q \in Runs : q # cur => att'[q] = att[q]
    BY <1>2, <2>1, Facts
  <2>3. \A i \in 1 .. Len(att[cur]) : att[cur][i].status # "running"
    BY <1>1, <1>2, IdleNothingRunning
  <2>5. RunFits(att'[cur], "canceled", gate[cur]) BY <1>3, <2>2, <2>3, CanceledFits
  <2>. QED BY <1>1, <1>2, <2>1, <2>2, <2>5, EndFits
<1>6. CASE SelectAttempt
  <2>1. run' = run /\ att' = att /\ cur' = cur BY <1>6 DEF SelectAttempt
  <2>. QED BY <1>1, <1>2, <1>3, <2>1, StayFits
<1>. QED BY <1>4, <1>5, <1>6

LEMMA ReadyFits ==
  IInv /\ VerdictInv /\ (BlockRun \/ ApplyCachedResponse \/ SkipOverCap \/ StartCall)
    => VerdictInv'
<1>. SUFFICES ASSUME IInv, VerdictInv,
                     BlockRun \/ ApplyCachedResponse \/ SkipOverCap \/ StartCall
              PROVE  VerdictInv'
  OBVIOUS
<1>1. pc = "ready" /\ gate' = gate /\ db' = db
  BY DEF BlockRun, ApplyCachedResponse, SkipOverCap, StartCall, fixed
<1>2. /\ cur \in Runs /\ run[cur] = "running" /\ sel \in 1 .. Len(att[cur])
      /\ att[cur][sel].status = "queued"
  BY <1>1 DEF IInv, CursorInv, VerdictInv
<1>3. /\ Sound(att[cur]) /\ CanceledLast(att[cur])
      /\ att[cur] \in Rows /\ att[cur][sel] \in RunAttempt
  BY <1>2, Facts, RowType DEF SoundRows, VerdictInv, AllFit, RunFits
\* Row sel becomes row, every other one stays.
<1>4. ASSUME NEW row, att' = [att EXCEPT ![cur][sel] = row]
      PROVE  /\ \A q \in Runs : q # cur => att'[q] = att[q]
             /\ Len(att'[cur]) = Len(att[cur]) /\ att'[cur][sel] = row
             /\ row.status # "canceled" => CanceledLast(att'[cur])
  <2>1. /\ \A q \in Runs : q # cur => att'[q] = att[q]
        /\ att'[cur] = [att[cur] EXCEPT ![sel] = row]
    BY <1>2, <1>4, Facts
  <2>2. /\ Len(att'[cur]) = Len(att[cur])
        /\ \A i \in 1 .. Len(att[cur]) : att'[cur][i] = IF i = sel THEN row ELSE att[cur][i]
    BY <1>2, <1>3, <2>1 DEF Rows
  <2>3. row.status # "canceled" => CanceledLast(att'[cur])
    BY <1>2, <1>3, <2>2, OutcomeKeepsLast DEF Terminal
  <2>. QED BY <1>2, <2>1, <2>2, <2>3
<1>5. CASE BlockRun
  <2>. DEFINE why == IF ContextGate THEN gate[cur] ELSE "provider_blocked"
              t   == BlockRows(att[cur], why)
  <2>1. att' = [att EXCEPT ![cur] = t] /\ FinishRun /\ NextRun
    BY <1>5, Facts DEF BlockRun
  <2>2. why \in FailureReason \ {"none"} BY DEF ContextGate, FailureReason
  <2>3. Sound(t) /\ CanceledLast(t)
    BY <1>3, <2>2, BlockRewrites, RewriteKeepsSound, BlockKeepsLast
  <2>. HIDE DEF t
  <2>4. att'[cur] = t /\ \A q \in Runs : q # cur => att'[q] = att[q]
    BY <1>2, <2>1, Facts
  <2>. QED BY <1>1, <1>2, <2>1, <2>3, <2>4, FinishFits
<1>6. CASE ApplyCachedResponse
  <2>. DEFINE row == [att[cur][sel] EXCEPT !.status = "succeeded", !.cache_hit = TRUE]
  <2>1. att' = [att EXCEPT ![cur][sel] = row] /\ run' = run /\ cur' = cur
    BY <1>2, <1>6, Facts DEF ApplyCachedResponse
  <2>2. row.status # "canceled" BY <1>3 DEF RunAttempt
  <2>. HIDE DEF row
  <2>. QED BY <1>1, <1>2, <1>4, <2>1, <2>2, StayFits
<1>7. CASE SkipOverCap
  <2>. DEFINE row == Refused(att[cur][sel], "cost_cap_exceeded")
  <2>1. /\ att' = [att EXCEPT ![cur][sel] = row] /\ NextRun
        /\ run' = [run EXCEPT ![cur] = "skipped"]
    BY <1>2, <1>7, Facts DEF SkipOverCap
  <2>2. row.status = "failed" /\ row.reason = "cost_cap_exceeded"
    BY <1>3 DEF Refused, RunAttempt
  <2>. HIDE DEF row
  <2>3. RunFits(att'[cur], "skipped", gate[cur]) BY <1>2, <1>4, <2>1, <2>2 DEF RunFits
  <2>. QED BY <1>1, <1>2, <1>4, <2>1, <2>3, EndFits
<1>8. CASE StartCall
  <2>. DEFINE row == Called(att[cur][sel])
  <2>1. att' = [att EXCEPT ![cur][sel] = row] /\ run' = run /\ cur' = cur
    BY <1>2, <1>8, Facts DEF StartCall
  <2>2. row.status # "canceled" BY <1>3 DEF Called, RunAttempt
  <2>. HIDE DEF row
  <2>. QED BY <1>1, <1>2, <1>4, <2>1, <2>2, StayFits
<1>. QED BY <1>5, <1>6, <1>7, <1>8

LEMMA CallFits ==
  IInv /\ VerdictInv
       /\ (\/ \E c \in Costs : CallSucceeds(c)
           \/ CallFailsRetry
           \/ \E k \in ErrorKind \ {"none", "blocked_by_config"} : CallFailsForGood(k))
    => VerdictInv'
<1>. SUFFICES ASSUME IInv, VerdictInv,
                     \/ \E c \in Costs : CallSucceeds(c)
                     \/ CallFailsRetry
                     \/ \E k \in ErrorKind \ {"none", "blocked_by_config"} : CallFailsForGood(k)
              PROVE  VerdictInv'
  OBVIOUS
<1>1. pc = "call" /\ gate' = gate /\ db' = db
  BY DEF CallSucceeds, CallFailsRetry, CallFailsForGood, fixed
<1>2. /\ cur \in Runs /\ run[cur] = "running" /\ sel \in 1 .. Len(att[cur])
      /\ att[cur][sel].status = "running"
  BY <1>1 DEF IInv, CursorInv, VerdictInv
<1>3. /\ Sound(att[cur]) /\ CanceledLast(att[cur])
      /\ att[cur] \in Rows /\ att[cur][sel] \in RunAttempt
  BY <1>2, Facts, RowType DEF SoundRows, VerdictInv, AllFit, RunFits
<1>4. ASSUME NEW c \in Costs, CallSucceeds(c) PROVE VerdictInv'
  <2>. DEFINE row == [att[cur][sel] EXCEPT !.status = "succeeded", !.cost = c]
  <2>1. /\ att' = [att EXCEPT ![cur] = [att[cur] EXCEPT ![sel] = row]]
        /\ run' = run /\ cur' = cur
    BY <1>2, <1>4, Facts DEF CallSucceeds
  <2>2. row.status # "canceled" BY <1>3 DEF RunAttempt
  <2>. HIDE DEF row
  <2>3. att'[cur] = [att[cur] EXCEPT ![sel] = row] /\ \A q \in Runs : q # cur => att'[q] = att[q]
    BY <1>2, <2>1, Facts
  <2>4. /\ Len(att'[cur]) = Len(att[cur])
        /\ \A i \in 1 .. Len(att[cur]) : att'[cur][i] = IF i = sel THEN row ELSE att[cur][i]
    BY <1>2, <1>3, <2>3 DEF Rows
  <2>5. CanceledLast(att'[cur])
    BY <1>2, <1>3, <2>2, <2>4, OutcomeKeepsLast DEF Terminal
  <2>. QED BY <1>1, <1>2, <2>1, <2>3, <2>5, StayFits
<1>5. CASE CallFailsRetry
  <2>. DEFINE s == Failed("retryable", "none")
              row == RetryRow(s, sel, ~controls.backoff)
  <2>1. att' = [att EXCEPT ![cur] = Append(s, row)] /\ run' = run /\ cur' = cur
    BY <1>5 DEF CallFailsRetry
  <2>2. "retryable" \in ErrorKind \ {"none", "blocked_by_config"} /\ "none" \in FailureReason
    BY DEF ErrorKind, FailureReason
  <2>3. s \in Rows BY <1>1, <2>2, FailedRows DEF Rewrites
  <2>4. row.status = "queued" BY DEF RetryRow, ReplicateRow
  <2>. HIDE DEF s, row
  <2>5. att'[cur] = Append(s, row) /\ \A q \in Runs : q # cur => att'[q] = att[q]
    BY <1>2, <2>1, Facts
  <2>6. CanceledLast(att'[cur]) BY <2>3, <2>4, <2>5, AppendFits DEF RunFits
  <2>. QED BY <1>1, <1>2, <2>1, <2>5, <2>6, StayFits
<1>6. ASSUME NEW k \in ErrorKind \ {"none", "blocked_by_config"}, CallFailsForGood(k)
      PROVE  VerdictInv'
  <2>. DEFINE t == Failed(k, "error_message")
  <2>1. att' = [att EXCEPT ![cur] = t] /\ FinishRun /\ NextRun
    BY <1>6 DEF CallFailsForGood
  <2>2. "error_message" \in FailureReason BY DEF FailureReason
  <2>3. /\ Rewrites(att[cur], t) /\ t[sel].status = "failed"
        /\ \A j \in 1 .. Len(att[cur]) : j # sel => t[j] = att[cur][j]
    BY <1>1, <2>2, FailedRows
  <2>. HIDE DEF t
  <2>4. Sound(t) BY <1>3, <2>3, RewriteKeepsSound
  <2>5. Len(t) = Len(att[cur]) BY <2>3 DEF Rewrites
  <2>6. CanceledLast(t) BY <1>2, <1>3, <2>3, <2>5, OutcomeKeepsLast DEF Terminal
  <2>7. att'[cur] = t /\ \A q \in Runs : q # cur => att'[q] = att[q]
    BY <1>2, <2>1, Facts
  <2>. QED BY <1>1, <1>2, <2>1, <2>4, <2>6, <2>7, FinishFits
<1>. QED BY <1>4, <1>5, <1>6

LEMMA RollbackFits ==
  ASSUME IInv, VerdictInv, Rollback
  PROVE  VerdictInv'
<1>1. att' = db.att /\ run' = db.run /\ db' = db /\ pc' = "idle" /\ gate' = gate
  BY DEF Rollback, fixed
<1>. QED BY <1>1 DEF VerdictInv

\* The end of a backoff changes no status and no reason.
LEMMA BackoffFits ==
  ASSUME IInv, VerdictInv, NEW r \in Runs, NEW i \in DOMAIN att[r], BackoffEnds(r, i)
  PROVE  VerdictInv'
<1>1. /\ att[r][i].status = "queued" /\ att' = [att EXCEPT ![r] = Ripen(att[r], i)]
      /\ db' = [db EXCEPT !.att[r] = Ripen(@, i)]
      /\ gate' = gate /\ run' = run /\ pc' = pc /\ cur' = cur
  BY DEF BackoffEnds, fixed
<1>2. /\ db = [exp |-> db.exp, run |-> db.run, att |-> db.att, cache |-> db.cache]
      /\ db.att \in [Runs -> Rows]
  BY RowFunctions DEF IInv
<1>3. db'.run = db.run /\ db'.att = [db.att EXCEPT ![r] = Ripen(db.att[r], i)]
  BY <1>1, <1>2
<1>4. /\ Sound(att[r]) /\ Sound(db.att[r]) /\ Grows(db.att[r], att[r])
      /\ i \in 1 .. Len(att[r]) /\ att[r][i].status \notin Terminal
  BY <1>1, Facts DEF SoundRows, Terminal, Rows
<1>5. i \in 1 .. Len(db.att[r]) => db.att[r][i].status \notin Terminal
  BY <1>4 DEF Grows
<1>6. /\ RunFits(att[r], run[r], gate[r]) /\ RunFits(db.att[r], db.run[r], gate[r])
  BY DEF VerdictInv, AllFit
<1>7. ASSUME NEW s, Sound(s), i \in 1 .. Len(s) => s[i].status \notin Terminal,
             NEW status, RunFits(s, status, gate[r])
      PROVE  RunFits(Ripen(s, i), status, gate[r])
  <2>. DEFINE t == Ripen(s, i)
  <2>1. Len(t) = Len(s) BY <1>7, RipenRewrites DEF Rewrites
  <2>2. \A j \in 1 .. Len(s) : t[j].status = s[j].status /\ t[j].reason = s[j].reason
    BY <1>7, RipenRewrites
  <2>. HIDE DEF t
  <2>3. RunFits(t, status, gate[r]) BY <1>7, <2>1, <2>2, SameStatusesFit
  <2>. QED BY <2>3 DEF t
<1>8. /\ RunFits(Ripen(att[r], i), run[r], gate[r])
      /\ RunFits(Ripen(db.att[r], i), db.run[r], gate[r])
  BY <1>4, <1>5, <1>6, <1>7
<1>9. \A q \in Runs : RunFits(att'[q], run'[q], gate[q])
  BY <1>1, <1>8, Facts DEF VerdictInv, AllFit
<1>10. \A q \in Runs : RunFits(db'.att[q], db'.run[q], gate[q])
  BY <1>3, <1>8, Facts DEF VerdictInv, AllFit
<1>. QED BY <1>1, <1>9, <1>10 DEF VerdictInv, AllFit

LEMMA StepFits == IInv /\ VerdictInv /\ [Next]_vars => VerdictInv'
<1>. SUFFICES ASSUME IInv, VerdictInv, [Next]_vars PROVE VerdictInv' OBVIOUS
<1>1. CASE Monitor \/ ExecuteCanceled \/ StartExperiment BY <1>1, MonitorFits
<1>2. CASE SkipCanceledRun \/ NoAdapter \/ BeginRun BY <1>2, BeforeLoopFits
<1>3. CASE NothingQueued \/ SeeCanceled \/ SelectAttempt BY <1>3, LoopFits
<1>4. CASE BlockRun \/ ApplyCachedResponse \/ SkipOverCap \/ StartCall BY <1>4, ReadyFits
<1>5. CASE \/ \E c \in Costs : CallSucceeds(c)
           \/ CallFailsRetry
           \/ \E k \in ErrorKind \ {"none", "blocked_by_config"} : CallFailsForGood(k)
  BY <1>5, CallFits
<1>6. CASE FinishExperiment
  <2>1. att' = att /\ run' = run /\ Commit /\ pc' = "idle" /\ gate' = gate
    BY <1>6 DEF FinishExperiment, fixed
  <2>. QED BY <2>1, CommitFits DEF VerdictInv
<1>7. CASE NaiveTimestamp \/ Crash BY <1>7, RollbackFits DEF NaiveTimestamp, Crash
<1>8. CASE ExternalCancel
  <2>1. /\ att' = att /\ run' = run /\ db' = db /\ pc' = pc /\ cur' = cur /\ gate' = gate
    BY <1>8 DEF ExternalCancel, rows, fixed
  <2>. QED BY <2>1 DEF VerdictInv
<1>9. CASE \E r \in Runs : \E i \in DOMAIN att[r] : BackoffEnds(r, i) BY <1>9, BackoffFits
<1>10. CASE UNCHANGED vars BY <1>10 DEF vars, VerdictInv
<1>. QED BY <1>1, <1>2, <1>3, <1>4, <1>5, <1>6, <1>7, <1>8, <1>9, <1>10
     DEF Next, Worker, Environment

\* A run is never shown as something its rows deny: complete when the latest row
\* did not succeed, pending with no row left to execute, canceled with one left,
\* whichever of the executor and the monitor's handlers wrote the status last.
THEOREM StatusesMatchRows == Spec => []VerdictMatchesRows
<1>1. IInv /\ VerdictInv => VerdictMatchesRows
  <2>. SUFFICES ASSUME IInv, VerdictInv PROVE VerdictMatchesRows OBVIOUS
  <2>1. \A r \in Runs : DOMAIN att[r] = 1 .. Len(att[r]) BY Facts DEF Rows
  <2>. QED BY <2>1 DEF VerdictMatchesRows, VerdictInv, AllFit, RunFits
<1>. QED BY <1>1, InitFits, StepFits, Invariant, PTL DEF Spec
-----------------------------------------------------------------------------
\* A sum over a finite set, the way MapThenSumSet makes it: g is the sums of the
\* values c over the subsets of S, each by a member it picks.
Pick(s) == CHOOSE x \in s : TRUE

IsSum(c, S, g) ==
  g = [s \in SUBSET S |-> IF s = {} THEN 0 ELSE c[Pick(s)] + g[s \ {Pick(s)}]]

SumOver(c, S) == (CHOOSE g : IsSum(c, S, g))[S]

LEMMA PickIn == \A s : s # {} => Pick(s) \in s
BY DEF Pick

\* Induction over a finite set: of the subsets for which something fails, one
\* is least.
LEMMA LeastSet ==
  ASSUME NEW S, IsFiniteSet(S), NEW B \in SUBSET SUBSET S, B # {}
  PROVE  \E T \in B : \A U \in SUBSET T : U # T => U \notin B
<1>1. IsWellFoundedOn(StrictSubsetOrdering(S), FiniteSubsetsOf(S))
  BY FS_StrictSubsetOrderingWellFounded
<1>2. B \subseteq FiniteSubsetsOf(S) BY FS_FiniteSubsetsOfFinite
<1>3. PICK T \in B : \A U \in B : ~ (<<U, T>> \in StrictSubsetOrdering(S))
  BY <1>1, <1>2, WFMin
<1>4. ASSUME NEW U \in SUBSET T, U # T, U \in B PROVE FALSE
  <2>1. <<U, T>> \in StrictSubsetOrdering(S) BY <1>4 DEF StrictSubsetOrdering
  <2>. QED BY <1>3, <1>4, <2>1
<1>. QED BY <1>3, <1>4

\* The equation, at a subset.
LEMMA SumAt ==
  ASSUME NEW c, NEW S, NEW g, IsSum(c, S, g), NEW s \in SUBSET S
  PROVE  /\ s = {} => g[s] = 0
         /\ s # {} => g[s] = c[Pick(s)] + g[s \ {Pick(s)}]
BY DEF IsSum

\* Two such functions agree wherever both are defined.
LEMMA SumUnique ==
  ASSUME NEW c, NEW S, IsFiniteSet(S), NEW R, NEW T, S \subseteq R, S \subseteq T,
         NEW g, NEW h, IsSum(c, R, g), IsSum(c, T, h)
  PROVE  g[S] = h[S]
<1>. DEFINE B == {s \in SUBSET S : g[s] # h[s]}
<1>1. SUFFICES ASSUME B # {} PROVE FALSE OBVIOUS
<1>2. PICK s \in B : \A u \in SUBSET s : u # s => u \notin B
  <2>1. B \in SUBSET SUBSET S OBVIOUS
  <2>. HIDE DEF B
  <2>. QED BY <1>1, <2>1, LeastSet
<1>3. s \in SUBSET R /\ s \in SUBSET T /\ s \in SUBSET S OBVIOUS
<1>4. s # {} BY <1>3, SumAt
<1>5. s \ {Pick(s)} \in SUBSET s /\ s \ {Pick(s)} # s BY <1>4, PickIn
<1>6. g[s \ {Pick(s)}] = h[s \ {Pick(s)}] BY <1>2, <1>5
<1>7. g[s] = c[Pick(s)] + g[s \ {Pick(s)}] BY <1>3, <1>4, SumAt
<1>8. h[s] = c[Pick(s)] + h[s \ {Pick(s)}] BY <1>3, <1>4, SumAt
<1>. QED BY <1>2, <1>6, <1>7, <1>8

\* The equation has a solution: for a least set without one, put together those
\* of its subsets.
LEMMA SumExists ==
  ASSUME NEW c, NEW S, IsFiniteSet(S)
  PROVE  \E g : IsSum(c, S, g)
<1>. DEFINE B == {T \in SUBSET S : ~ \E g : IsSum(c, T, g)}
<1>1. SUFFICES ASSUME B # {} PROVE FALSE OBVIOUS
<1>2. PICK T \in B : \A u \in SUBSET T : u # T => u \notin B
  <2>1. B \in SUBSET SUBSET S OBVIOUS
  <2>. HIDE DEF B
  <2>. QED BY <1>1, <2>1, LeastSet
<1>3. \A u \in SUBSET T : IsFiniteSet(u) BY FS_Subset
<1>. DEFINE h(u) == CHOOSE g : IsSum(c, u, g)
            g0 == [s \in SUBSET T |-> IF s = {} THEN 0
                                      ELSE c[Pick(s)] + h(s \ {Pick(s)})[s \ {Pick(s)}]]
<1>4. ASSUME NEW u \in SUBSET T, u # T PROVE IsSum(c, u, h(u))
  <2>1. u \in SUBSET S /\ u \notin B BY <1>2, <1>4
  <2>2. \E g : IsSum(c, u, g) BY <2>1
  <2>. QED BY <2>2
<1>5. ASSUME NEW u \in SUBSET T, u # T PROVE g0[u] = h(u)[u]
  <2>. DEFINE v == u \ {Pick(u)}
  <2>1. CASE u = {}
    <3>1. IsSum(c, u, h(u)) /\ u \in SUBSET u BY <1>4, <1>5
    <3>. HIDE DEF h
    <3>2. h(u)[u] = 0 BY <2>1, <3>1, SumAt
    <3>. QED BY <2>1, <3>2
  <2>2. CASE u # {}
    <3>1. Pick(u) \in u /\ v \in SUBSET T /\ v # T /\ v \subseteq u /\ u \in SUBSET u
      BY <1>5, <2>2, PickIn
    <3>2. IsSum(c, u, h(u)) /\ IsSum(c, v, h(v)) BY <1>4, <1>5, <3>1
    <3>3. IsFiniteSet(v) BY <1>3, <3>1
    <3>. HIDE DEF h
    <3>4. h(u)[u] = c[Pick(u)] + h(u)[v] BY <2>2, <3>1, <3>2, SumAt
    <3>. HIDE DEF v
    <3>5. h(u)[v] = h(v)[v] BY <3>1, <3>2, <3>3, SumUnique
    <3>6. g0[u] = c[Pick(u)] + h(v)[v] BY <2>2 DEF v
    <3>. QED BY <3>4, <3>5, <3>6
  <2>. QED BY <2>1, <2>2
<1>6. IsSum(c, T, g0)
  <2>1. ASSUME NEW s \in SUBSET T, s # {}
        PROVE  h(s \ {Pick(s)})[s \ {Pick(s)}] = g0[s \ {Pick(s)}]
    <3>1. s \ {Pick(s)} \in SUBSET T /\ s \ {Pick(s)} # T BY <2>1, PickIn
    <3>. HIDE DEF g0, h
    <3>. QED BY <1>5, <3>1
  <2>2. g0 = [s \in SUBSET T |-> IF s = {} THEN 0
                                 ELSE c[Pick(s)] + h(s \ {Pick(s)})[s \ {Pick(s)}]]
    OBVIOUS
  <2>. HIDE DEF g0, h
  <2>3. \A s \in SUBSET T :
          (IF s = {} THEN 0 ELSE c[Pick(s)] + h(s \ {Pick(s)})[s \ {Pick(s)}])
            = (IF s = {} THEN 0 ELSE c[Pick(s)] + g0[s \ {Pick(s)}])
    BY <2>1
  <2>. QED BY <2>2, <2>3 DEF IsSum
<1>. QED BY <1>2, <1>6

LEMMA SumOverIs ==
  ASSUME NEW c, NEW S, IsFiniteSet(S), NEW R, S \subseteq R, NEW g, IsSum(c, R, g)
  PROVE  SumOver(c, S) = g[S]
<1>. DEFINE h == CHOOSE k : IsSum(c, S, k)
<1>1. IsSum(c, S, h) BY SumExists
<1>2. SumOver(c, S) = h[S] BY DEF SumOver
<1>. HIDE DEF h
<1>3. S \subseteq S OBVIOUS
<1>4. g[S] = h[S] BY <1>1, <1>3, SumUnique
<1>. QED BY <1>2, <1>4

\* The sum by the member it picks.
LEMMA SumEquation ==
  ASSUME NEW c, NEW S, IsFiniteSet(S)
  PROVE  /\ SumOver(c, {}) = 0
         /\ S # {} => SumOver(c, S) = c[Pick(S)] + SumOver(c, S \ {Pick(S)})
<1>1. PICK g : IsSum(c, S, g) BY SumExists
<1>2. /\ IsFiniteSet({}) /\ IsFiniteSet(S \ {Pick(S)})
      /\ {} \in SUBSET S /\ S \in SUBSET S
  BY FS_Subset
<1>3. /\ SumOver(c, S) = g[S] /\ SumOver(c, {}) = g[{}]
      /\ SumOver(c, S \ {Pick(S)}) = g[S \ {Pick(S)}]
  BY <1>1, <1>2, SumOverIs
<1>4. g[{}] = 0 BY <1>1, <1>2, SumAt
<1>5. S # {} => g[S] = c[Pick(S)] + g[S \ {Pick(S)}] BY <1>1, <1>2 DEF IsSum
<1>. QED BY <1>3, <1>4, <1>5

LEMMA SumEmpty == \A c : SumOver(c, {}) = 0
BY SumEquation, FS_EmptySet

LEMMA SumType ==
  ASSUME NEW c, NEW S, IsFiniteSet(S), \A x \in S : c[x] \in Nat
  PROVE  SumOver(c, S) \in Nat
<1>. DEFINE B == {s \in SUBSET S : SumOver(c, s) \notin Nat}
<1>1. SUFFICES ASSUME B # {} PROVE FALSE OBVIOUS
<1>2. PICK s \in B : \A u \in SUBSET s : u # s => u \notin B
  <2>1. B \in SUBSET SUBSET S OBVIOUS
  <2>. HIDE DEF B
  <2>. QED BY <1>1, <2>1, LeastSet
<1>3. s \in SUBSET S /\ IsFiniteSet(s) BY FS_Subset
<1>4. s # {} BY SumEmpty
<1>. DEFINE u == s \ {Pick(s)}
<1>5. Pick(s) \in s /\ u \in SUBSET s /\ u # s BY <1>4, PickIn
<1>6. SumOver(c, u) \in Nat BY <1>2, <1>3, <1>5
<1>7. SumOver(c, s) = c[Pick(s)] + SumOver(c, u) BY <1>3, <1>4, SumEquation
<1>. QED BY <1>2, <1>3, <1>5, <1>6, <1>7

\* The sum by any member.
LEMMA SumWithout ==
  ASSUME NEW c, NEW S, IsFiniteSet(S), \A x \in S : c[x] \in Nat, NEW e \in S
  PROVE  SumOver(c, S) = c[e] + SumOver(c, S \ {e})
<1>. DEFINE B == {s \in SUBSET S : \E x \in s : SumOver(c, s) # c[x] + SumOver(c, s \ {x})}
<1>1. SUFFICES ASSUME B # {} PROVE FALSE OBVIOUS
<1>2. PICK s \in B : \A u \in SUBSET s : u # s => u \notin B
  <2>1. B \in SUBSET SUBSET S OBVIOUS
  <2>. HIDE DEF B
  <2>. QED BY <1>1, <2>1, LeastSet
<1>3. PICK x \in s : SumOver(c, s) # c[x] + SumOver(c, s \ {x}) OBVIOUS
<1>. DEFINE y == Pick(s)
<1>4. s \in SUBSET S /\ IsFiniteSet(s) /\ s # {} /\ y \in s BY FS_Subset, PickIn
<1>5. SumOver(c, s) = c[y] + SumOver(c, s \ {y}) BY <1>4, SumEquation
<1>6. x # y BY <1>3, <1>5
<1>. HIDE DEF y
<1>7. \A u \in SUBSET s : u # s => \A z \in u : SumOver(c, u) = c[z] + SumOver(c, u \ {z})
  BY <1>2, <1>4
<1>8. SumOver(c, s \ {y}) = c[x] + SumOver(c, (s \ {y}) \ {x}) BY <1>4, <1>6, <1>7
<1>9. SumOver(c, s \ {x}) = c[y] + SumOver(c, (s \ {x}) \ {y}) BY <1>3, <1>4, <1>6, <1>7
<1>10. (s \ {y}) \ {x} = (s \ {x}) \ {y} OBVIOUS
<1>11. IsFiniteSet((s \ {y}) \ {x}) BY <1>4, FS_Subset
<1>12. SumOver(c, (s \ {y}) \ {x}) \in Nat BY <1>4, <1>11, SumType
<1>13. c[x] \in Nat /\ c[y] \in Nat BY <1>3, <1>4
<1>. DEFINE k == SumOver(c, (s \ {y}) \ {x})
<1>14. SumOver(c, s) = c[y] + (c[x] + k) BY <1>5, <1>8
<1>15. SumOver(c, s \ {x}) = c[y] + k BY <1>9, <1>10
<1>. HIDE DEF k
<1>16. k \in Nat BY <1>12 DEF k
<1>17. c[y] + (c[x] + k) = c[x] + (c[y] + k) BY <1>13, <1>16
<1>. QED BY <1>3, <1>14, <1>15, <1>17

\* A sum none of whose members has more than in another sum is not above it.
LEMMA SumBelow ==
  ASSUME NEW c, NEW S, IsFiniteSet(S), \A x \in S : c[x] \in Nat,
         NEW d, NEW T, IsFiniteSet(T), \A x \in T : d[x] \in Nat,
         \A x \in T : d[x] # 0 => x \in S /\ d[x] <= c[x]
  PROVE  SumOver(d, T) <= SumOver(c, S)
<1>. DEFINE Under(t, s) == \A x \in t : d[x] # 0 => x \in s
            B == {t \in SUBSET T : \E s \in SUBSET S :
                    Under(t, s) /\ ~ (SumOver(d, t) <= SumOver(c, s))}
<1>1. SUFFICES ASSUME B # {} PROVE FALSE OBVIOUS
<1>2. PICK t \in B : \A u \in SUBSET t : u # t => u \notin B
  <2>1. B \in SUBSET SUBSET T OBVIOUS
  <2>. HIDE DEF B
  <2>. QED BY <1>1, <2>1, LeastSet
<1>3. PICK s \in SUBSET S : Under(t, s) /\ ~ (SumOver(d, t) <= SumOver(c, s)) OBVIOUS
<1>4. /\ t \in SUBSET T /\ IsFiniteSet(t) /\ IsFiniteSet(s)
      /\ SumOver(c, s) \in Nat
  BY SumType, FS_Subset
<1>5. t # {}
  <2>1. SumOver(d, {}) = 0 BY SumEmpty
  <2>. QED BY <1>3, <1>4, <2>1
<1>6. PICK x \in t : TRUE BY <1>5
<1>7. SumOver(d, t) = d[x] + SumOver(d, t \ {x}) BY <1>4, SumWithout
<1>8. IsFiniteSet(t \ {x}) /\ SumOver(d, t \ {x}) \in Nat /\ d[x] \in Nat
  <2>1. IsFiniteSet(t \ {x}) BY <1>4, FS_Subset
  <2>. QED BY <1>4, <2>1, SumType
<1>9. \A r \in SUBSET S : Under(t \ {x}, r) => SumOver(d, t \ {x}) <= SumOver(c, r)
  BY <1>2, <1>4
<1>10. CASE d[x] = 0
  <2>1. SumOver(d, t \ {x}) <= SumOver(c, s) BY <1>3, <1>9
  <2>. QED BY <1>3, <1>7, <1>8, <1>10, <2>1
<1>11. CASE d[x] # 0
  <2>1. x \in s /\ d[x] <= c[x] /\ c[x] \in Nat BY <1>3, <1>4, <1>11
  <2>2. SumOver(c, s) = c[x] + SumOver(c, s \ {x}) BY <1>4, <2>1, SumWithout
  <2>3. IsFiniteSet(s \ {x}) /\ SumOver(c, s \ {x}) \in Nat
    <3>1. IsFiniteSet(s \ {x}) BY <1>4, FS_Subset
    <3>. QED BY <3>1, SumType
  <2>4. SumOver(d, t \ {x}) <= SumOver(c, s \ {x}) BY <1>3, <1>9
  <2>. QED BY <1>3, <1>7, <1>8, <2>1, <2>2, <2>3, <2>4
<1>. QED BY <1>10, <1>11
-----------------------------------------------------------------------------
\* What the rows s of all runs have cost: the cells, those that count, their costs.
Cells(s)   == UNION {{r} \X DOMAIN s[r] : r \in Runs}
Charged(s) == {x \in Cells(s) : ~s[x[1]][x[2]].cache_hit}
CostOf(s)  == [x \in Cells(s) |-> s[x[1]][x[2]].cost]
Total(s)   == SumOver(CostOf(s), Charged(s))

LEMMA CellsOf ==
  ASSUME NEW s \in [Runs -> Rows]
  PROVE  /\ Cells(s) = {x \in Runs \X Nat : x[2] \in 1 .. Len(s[x[1]])}
         /\ \A x \in Cells(s) : x[1] \in Runs /\ x[2] \in 1 .. Len(s[x[1]])
         /\ \A x \in Cells(s) : s[x[1]][x[2]].cost \in Nat
         /\ IsFiniteSet(Charged(s))
<1>1. \A r \in Runs : s[r] \in Rows /\ Len(s[r]) \in Nat /\ DOMAIN s[r] = 1 .. Len(s[r])
  BY DEF Rows
<1>2. ASSUME NEW x \in Cells(s)
      PROVE  x \in Runs \X Nat /\ x[1] \in Runs /\ x[2] \in 1 .. Len(s[x[1]])
  <2>1. PICK r \in Runs : x \in {r} \X DOMAIN s[r] BY DEF Cells
  <2>2. x[1] = r /\ x[2] \in 1 .. Len(s[r]) /\ x = <<x[1], x[2]>> BY <1>1, <2>1
  <2>. QED BY <1>1, <2>2
<1>3. ASSUME NEW x \in Runs \X Nat, x[2] \in 1 .. Len(s[x[1]]) PROVE x \in Cells(s)
  <2>1. x[1] \in Runs /\ x \in {x[1]} \X DOMAIN s[x[1]] BY <1>1, <1>3
  <2>. QED BY <2>1 DEF Cells
<1>4. \A x \in Cells(s) : s[x[1]][x[2]].cost \in Nat
  BY <1>1, <1>2, RowType
<1>5. IsFiniteSet(Cells(s))
  <2>. DEFINE F == {{r} \X DOMAIN s[r] : r \in Runs}
  <2>1. IsFiniteSet(Runs) BY ExecutorAssumption, FS_Interval DEF Runs
  <2>2. IsFiniteSet(F)
    <3>. DEFINE f == [r \in Runs |-> {r} \X DOMAIN s[r]]
    <3>1. f \in Surjection(Runs, F) BY DEF Surjection
    <3>. HIDE DEF f, F
    <3>. QED BY <2>1, <3>1, FS_Surjection
  <2>3. ASSUME NEW r \in Runs PROVE IsFiniteSet({r} \X DOMAIN s[r])
    <3>1. IsFiniteSet({r}) BY FS_Singleton
    <3>2. Len(s[r]) \in Int /\ 1 \in Int /\ DOMAIN s[r] = 1 .. Len(s[r]) BY <1>1
    <3>3. IsFiniteSet(DOMAIN s[r]) BY <3>2, FS_Interval
    <3>. QED BY <3>1, <3>3, FS_Product
  <2>4. \A T \in F : IsFiniteSet(T) BY <2>3
  <2>. HIDE DEF F
  <2>5. IsFiniteSet(UNION F) BY <2>2, <2>4, FS_UNION
  <2>. QED BY <2>5 DEF F, Cells
<1>6. IsFiniteSet(Charged(s)) BY <1>5, FS_Subset DEF Charged
<1>. QED BY <1>2, <1>3, <1>4, <1>6

\* _cost_cap_reached sums the costs of the rows that count.
LEMMA SpentIsTotal ==
  ASSUME att \in [Runs -> Rows]
  PROVE  Spent = Total(att)
<1>. DEFINE S == Charged(att)
            c == CostOf(att)
            Eq(g) == g = [s \in SUBSET S |->
                            IF s = {} THEN 0
                            ELSE LET x == CHOOSE x \in s : TRUE
                                 IN  att[x[1]][x[2]].cost + g[s \ {x}]]
            h == CHOOSE g : Eq(g)
<1>1. Spent = h[S]
  BY DEF Spent, MapThenSumSet, MapThenFoldSet, Charged, Cells
<1>2. \A g : Eq(g) <=> IsSum(c, S, g)
  <2>1. S \subseteq Cells(att) BY DEF Charged
  <2>2. ASSUME NEW s \in SUBSET S, s # {}
        PROVE  LET x == CHOOSE x \in s : TRUE
               IN  x = Pick(s) /\ att[x[1]][x[2]].cost = c[Pick(s)]
    <3>1. Pick(s) \in Cells(att) BY <2>1, <2>2, PickIn
    <3>. QED BY <3>1 DEF Pick, CostOf
  <2>3. ASSUME NEW g, NEW s \in SUBSET S
        PROVE  (IF s = {} THEN 0 ELSE LET x == CHOOSE x \in s : TRUE
                                      IN  att[x[1]][x[2]].cost + g[s \ {x}])
                 = (IF s = {} THEN 0 ELSE c[Pick(s)] + g[s \ {Pick(s)}])
    <3>1. CASE s = {} BY <3>1
    <3>2. CASE s # {}
      <4>1. /\ (CHOOSE x \in s : TRUE) = Pick(s)
            /\ att[Pick(s)[1]][Pick(s)[2]].cost = c[Pick(s)]
        BY <2>2, <3>2
      <4>. QED BY <3>2, <4>1
    <3>. QED BY <3>1, <3>2
  <2>. QED BY <2>3 DEF IsSum
<1>3. \E g : IsSum(c, S, g) BY CellsOf, SumExists
<1>4. IsSum(c, S, h)
  <2>. HIDE DEF Eq
  <2>1. \E g : Eq(g) BY <1>2, <1>3
  <2>2. Eq(h) BY <2>1
  <2>. HIDE DEF h
  <2>. QED BY <1>2, <2>2
<1>. QED BY <1>1, <1>4, CellsOf, SumOverIs DEF Total

\* The rows t cost no more than the rows s: what costs something in t cost that
\* in s, and counted there if it counts now.
CheaperAt(t, s, i) ==
  t[i].cost # 0 => /\ i \in 1 .. Len(s) /\ t[i].cost = s[i].cost
                   /\ s[i].cache_hit => t[i].cache_hit
Cheaper(t, s) == \A i \in 1 .. Len(t) : CheaperAt(t, s, i)

LEMMA TotalFalls ==
  ASSUME NEW s \in [Runs -> Rows], NEW t \in [Runs -> Rows],
         \A r \in Runs : Cheaper(t[r], s[r])
  PROVE  Total(t) \in Nat /\ Total(s) \in Nat /\ Total(t) <= Total(s)
<1>1. /\ \A x \in Charged(s) : CostOf(s)[x] \in Nat
      /\ \A x \in Charged(t) : CostOf(t)[x] \in Nat
      /\ IsFiniteSet(Charged(s)) /\ IsFiniteSet(Charged(t))
  BY CellsOf DEF Charged, CostOf
<1>2. ASSUME NEW x \in Charged(t), CostOf(t)[x] # 0
      PROVE  x \in Charged(s) /\ CostOf(t)[x] <= CostOf(s)[x]
  <2>1. /\ x \in Runs \X Nat /\ x[1] \in Runs /\ x[2] \in 1 .. Len(t[x[1]])
        /\ x \in Cells(t) /\ CostOf(t)[x] = t[x[1]][x[2]].cost
        /\ ~t[x[1]][x[2]].cache_hit /\ CostOf(t)[x] \in Nat
    BY <1>1, CellsOf DEF Charged, CostOf
  <2>2. CheaperAt(t[x[1]], s[x[1]], x[2]) BY <2>1 DEF Cheaper
  <2>3. /\ x[2] \in 1 .. Len(s[x[1]]) /\ ~s[x[1]][x[2]].cache_hit
        /\ CostOf(t)[x] = s[x[1]][x[2]].cost
    BY <1>2, <2>1, <2>2 DEF CheaperAt
  <2>4. x \in Cells(s) BY <2>1, <2>3, CellsOf
  <2>5. x \in Charged(s) /\ CostOf(s)[x] = CostOf(t)[x] BY <2>3, <2>4 DEF Charged, CostOf
  <2>. QED BY <2>1, <2>5
<1>3. Total(t) \in Nat /\ Total(s) \in Nat BY <1>1, SumType DEF Total
<1>4. Total(t) <= Total(s) BY <1>1, <1>2, SumBelow DEF Total
<1>. QED BY <1>3, <1>4

\* One row is charged: the total rises by its cost at most.
LEMMA TotalOfCall ==
  ASSUME NEW s \in [Runs -> Rows], NEW t \in [Runs -> Rows],
         NEW r \in Runs, NEW i \in 1 .. Len(t[r]),
         \A q \in Runs : q # r => Cheaper(t[q], s[q]),
         \A j \in 1 .. Len(t[r]) : j # i => CheaperAt(t[r], s[r], j)
  PROVE  Total(t) <= Total(s) + t[r][i].cost
<1>. DEFINE e == <<r, i>>
            T == Charged(t) \ {e}
<1>1. /\ \A x \in Charged(s) : CostOf(s)[x] \in Nat
      /\ \A x \in Charged(t) : CostOf(t)[x] \in Nat
      /\ IsFiniteSet(Charged(s)) /\ IsFiniteSet(Charged(t)) /\ IsFiniteSet(T)
  BY CellsOf, FS_Subset DEF Charged, CostOf
<1>2. ASSUME NEW x \in T, CostOf(t)[x] # 0
      PROVE  x \in Charged(s) /\ CostOf(t)[x] <= CostOf(s)[x]
  <2>1. /\ x \in Runs \X Nat /\ x[1] \in Runs /\ x[2] \in 1 .. Len(t[x[1]])
        /\ x \in Cells(t) /\ CostOf(t)[x] = t[x[1]][x[2]].cost
        /\ ~t[x[1]][x[2]].cache_hit /\ CostOf(t)[x] \in Nat
    BY <1>1, CellsOf DEF Charged, CostOf
  <2>2. CheaperAt(t[x[1]], s[x[1]], x[2])
    <3>1. CASE x[1] # r BY <2>1, <3>1 DEF Cheaper
    <3>2. CASE x[1] = r
      <4>1. x[2] # i BY <2>1, <3>2
      <4>. QED BY <2>1, <3>2, <4>1
    <3>. QED BY <3>1, <3>2
  <2>3. /\ x[2] \in 1 .. Len(s[x[1]]) /\ ~s[x[1]][x[2]].cache_hit
        /\ CostOf(t)[x] = s[x[1]][x[2]].cost
    BY <1>2, <2>1, <2>2 DEF CheaperAt
  <2>4. x \in Cells(s) BY <2>1, <2>3, CellsOf
  <2>5. x \in Charged(s) /\ CostOf(s)[x] = CostOf(t)[x] BY <2>3, <2>4 DEF Charged, CostOf
  <2>. QED BY <2>1, <2>5
<1>3. \A x \in T : CostOf(t)[x] \in Nat BY <1>1
<1>. HIDE DEF T
<1>4. /\ SumOver(CostOf(t), T) <= Total(s) /\ SumOver(CostOf(t), T) \in Nat /\ Total(s) \in Nat
  BY <1>1, <1>2, <1>3, SumBelow, SumType DEF Total
<1>5. t[r][i].cost \in Nat /\ e \in Cells(t)
  <2>1. t[r] \in Rows BY DEF Rows
  <2>2. e \in Runs \X Nat /\ e[1] = r /\ e[2] = i BY <2>1 DEF Rows
  <2>3. e \in Cells(t) BY <2>2, CellsOf
  <2>. QED BY <2>2, <2>3, CellsOf
<1>6. CASE e \in Charged(t)
  <2>1. Total(t) = CostOf(t)[e] + SumOver(CostOf(t), T)
    BY <1>1, <1>6, SumWithout DEF Total, T
  <2>2. CostOf(t)[e] = t[r][i].cost BY <1>5 DEF CostOf
  <2>. QED BY <1>4, <1>5, <2>1, <2>2
<1>7. CASE e \notin Charged(t)
  <2>1. T = Charged(t) BY <1>7 DEF T
  <2>. QED BY <1>4, <1>5, <2>1 DEF Total
<1>. QED BY <1>6, <1>7

LEMMA SameRowsCheap == \A s : Cheaper(s, s)
BY DEF Cheaper, CheaperAt

\* A row that is settled without an answer keeps its cost.
LEMMA RewritesCheap ==
  ASSUME NEW s \in Rows
  PROVE  /\ Cheaper(CancelRows(s), s)
         /\ \A why : Cheaper(BlockRows(s, why), s)
         /\ \A i : Cheaper(Ripen(s, i), s)
<1>1. Len(s) \in Nat /\ DOMAIN s = 1 .. Len(s) BY DEF Rows
<1>2. \A i \in 1 .. Len(s) : s[i] \in RunAttempt BY RowType
<1>3. Cheaper(CancelRows(s), s)
  <2>. DEFINE t == CancelRows(s)
  <2>1. /\ Len(t) = Len(s)
        /\ \A i \in 1 .. Len(s) : t[i] = IF s[i].status \in Open
                                         THEN [s[i] EXCEPT !.status = "canceled"] ELSE s[i]
    BY <1>1 DEF CancelRows
  <2>. HIDE DEF t
  <2>2. \A i \in 1 .. Len(s) : t[i].cost = s[i].cost /\ t[i].cache_hit = s[i].cache_hit
    BY <1>2, <2>1 DEF RunAttempt
  <2>3. Cheaper(t, s) BY <2>1, <2>2 DEF Cheaper, CheaperAt
  <2>. QED BY <2>3 DEF t
<1>4. ASSUME NEW why PROVE Cheaper(BlockRows(s, why), s)
  <2>. DEFINE t == BlockRows(s, why)
  <2>1. /\ Len(t) = Len(s)
        /\ \A i \in 1 .. Len(s) : t[i] = IF s[i].status = "queued" THEN Refused(s[i], why)
                                         ELSE s[i]
    BY <1>1 DEF BlockRows
  <2>. HIDE DEF t
  <2>2. \A i \in 1 .. Len(s) : t[i].cost = s[i].cost /\ t[i].cache_hit = s[i].cache_hit
    BY <1>2, <2>1 DEF RunAttempt, Refused
  <2>3. Cheaper(t, s) BY <2>1, <2>2 DEF Cheaper, CheaperAt
  <2>. QED BY <2>3 DEF t
<1>5. ASSUME NEW i PROVE Cheaper(Ripen(s, i), s)
  <2>. DEFINE t == Ripen(s, i)
  <2>1. CASE i \notin DOMAIN s BY <2>1, SameRowsCheap DEF Ripen
  <2>2. CASE i \in DOMAIN s
    <3>1. /\ Len(t) = Len(s)
          /\ \A j \in 1 .. Len(s) : t[j] = IF j = i THEN [s[i] EXCEPT !.due = TRUE] ELSE s[j]
      BY <1>1, <2>2 DEF Ripen
    <3>. HIDE DEF t
    <3>2. \A j \in 1 .. Len(s) : t[j].cost = s[j].cost /\ t[j].cache_hit = s[j].cache_hit
      BY <1>2, <3>1 DEF RunAttempt
    <3>3. Cheaper(t, s) BY <3>1, <3>2 DEF Cheaper, CheaperAt
    <3>. QED BY <3>3 DEF t
  <2>. QED BY <2>1, <2>2
<1>. QED BY <1>3, <1>4, <1>5

\* So does a row that is replaced by one with its cost that counts no more.
LEMMA ReplaceCheap ==
  ASSUME NEW s \in Rows, NEW i \in 1 .. Len(s), NEW row,
         row.cost = s[i].cost, s[i].cache_hit => row.cache_hit
  PROVE  LET t == [s EXCEPT ![i] = row] IN Cheaper(t, s) /\ Len(t) = Len(s)
<1>. DEFINE t == [s EXCEPT ![i] = row]
<1>1. Len(t) = Len(s) /\ \A j \in 1 .. Len(s) : t[j] = IF j = i THEN row ELSE s[j]
  BY DEF Rows
<1>. HIDE DEF t
<1>2. Cheaper(t, s) BY <1>1 DEF Cheaper, CheaperAt
<1>. QED BY <1>1, <1>2 DEF t

\* A retry has cost nothing yet.
LEMMA AppendCheap ==
  ASSUME NEW s \in Rows, NEW t \in Rows, Cheaper(t, s), NEW i, NEW b
  PROVE  Cheaper(Append(t, RetryRow(t, i, b)), s)
<1>. DEFINE u == Append(t, RetryRow(t, i, b))
<1>1. RetryRow(t, i, b).cost = 0 BY DEF RetryRow, ReplicateRow
<1>2. /\ Len(t) \in Nat /\ Len(u) = Len(t) + 1 /\ u[Len(t) + 1] = RetryRow(t, i, b)
      /\ \A j \in 1 .. Len(t) : u[j] = t[j]
  BY DEF Rows
<1>. HIDE DEF u
<1>3. ASSUME NEW j \in 1 .. Len(u) PROVE CheaperAt(u, s, j)
  <2>1. CASE j = Len(t) + 1 BY <1>1, <1>2, <2>1 DEF CheaperAt
  <2>2. CASE j # Len(t) + 1
    <3>1. j \in 1 .. Len(t) BY <1>2, <2>2
    <3>2. CheaperAt(t, s, j) /\ u[j] = t[j] BY <1>2, <3>1 DEF Cheaper
    <3>. QED BY <3>2 DEF CheaperAt
  <2>. QED BY <2>1, <2>2
<1>4. Cheaper(u, s) BY <1>3 DEF Cheaper
<1>. QED BY <1>4 DEF u
-----------------------------------------------------------------------------
\* What is spent has passed the cap by less than one call costs, in the rows of
\* the session and in those that a rollback brings back; while a call runs, it
\* has not reached it.
Within(s, cap) == Total(s) = 0 \/ \E c \in Costs : Total(s) < cap + c

CapInv ==
  controls.max_total_cost # NoCap
    => /\ Within(att, controls.max_total_cost) /\ Within(db.att, controls.max_total_cost)
       /\ pc = "call" => Total(att) < controls.max_total_cost

LEMMA WithinFalls ==
  ASSUME NEW s \in [Runs -> Rows], NEW t \in [Runs -> Rows], NEW cap \in Nat,
         Within(s, cap), \A r \in Runs : Cheaper(t[r], s[r])
  PROVE  Within(t, cap)
<1>1. Total(t) \in Nat /\ Total(s) \in Nat /\ Total(t) <= Total(s) BY TotalFalls
<1>2. CASE Total(s) = 0 BY <1>1, <1>2 DEF Within
<1>3. CASE Total(s) # 0
  <2>1. PICK c \in Costs : Total(s) < cap + c BY <1>3 DEF Within
  <2>2. c \in Nat BY CostsAssumption
  <2>3. Total(t) < cap + c BY <1>1, <2>1, <2>2
  <2>. QED BY <2>3 DEF Within
<1>. QED BY <1>2, <1>3

\* A step in which no call is charged.
LEMMA CheapStep ==
  ASSUME IInv, IInv', CapInv, controls' = controls,
         \A r \in Runs : Cheaper(att'[r], att[r]),
         db'.att = att' \/ \A r \in Runs : Cheaper(db'.att[r], db.att[r]),
         pc' = "call" => pc = "call" \/ ~CapReached
  PROVE  CapInv'
<1>. DEFINE cap == controls.max_total_cost
<1>1. SUFFICES ASSUME cap # NoCap
               PROVE  /\ Within(att', cap) /\ Within(db'.att, cap)
                      /\ pc' = "call" => Total(att') < cap
  BY DEF CapInv
<1>2. cap \in Nat BY <1>1 DEF IInv, TypeOK, ControlSnapshot
<1>3. /\ att \in [Runs -> Rows] /\ att' \in [Runs -> Rows]
      /\ db.att \in [Runs -> Rows] /\ db'.att \in [Runs -> Rows]
  BY RowFunctions DEF IInv, TypeOK, Rows
<1>4. Within(att, cap) /\ Within(db.att, cap) BY <1>1 DEF CapInv
<1>5. Within(att', cap) BY <1>2, <1>3, <1>4, WithinFalls
<1>6. Within(db'.att, cap)
  <2>1. CASE db'.att = att' BY <1>5, <2>1
  <2>2. CASE \A r \in Runs : Cheaper(db'.att[r], db.att[r])
    BY <1>2, <1>3, <1>4, <2>2, WithinFalls
  <2>. QED BY <2>1, <2>2
<1>7. ASSUME pc' = "call" PROVE Total(att') < cap
  <2>1. Total(att') \in Nat /\ Total(att) \in Nat /\ Total(att') <= Total(att)
    BY <1>3, TotalFalls
  <2>2. Total(att) < cap
    <3>1. CASE pc = "call" BY <1>1, <3>1 DEF CapInv
    <3>2. CASE ~CapReached
      <4>1. ~(Total(att) >= cap) BY <1>1, <1>3, <3>2, SpentIsTotal DEF CapReached
      <4>. QED BY <1>2, <2>1, <4>1
    <3>. QED BY <1>7, <3>1, <3>2
  <2>. QED BY <1>2, <2>1, <2>2
<1>. QED BY <1>5, <1>6, <1>7

\* One run's rows are replaced by cheaper ones.
LEMMA RunCheap ==
  ASSUME att \in [Runs -> Rows], NEW r \in Runs, NEW t, att' = [att EXCEPT ![r] = t],
         Cheaper(t, att[r])
  PROVE  \A q \in Runs : Cheaper(att'[q], att[q])
BY SameRowsCheap

LEMMA MonitorCheap ==
  ASSUME IInv, IInv', CapInv, Monitor \/ ExecuteCanceled \/ StartExperiment
  PROVE  CapInv'
<1>1. att \in [Runs -> Rows] /\ \A r \in Runs : att[r] \in Rows BY RowFunctions DEF IInv
<1>2. controls' = controls /\ pc' # "call"
  <2>1. CASE StartExperiment BY <2>1 DEF StartExperiment, fixed
  <2>2. CASE ~StartExperiment
    <3>1. pc = "idle" /\ pc' = pc /\ controls' = controls
      BY <2>2 DEF Monitor, CancelExperiment, CancelRun, RetryRun, ExecuteCanceled, fixed
    <3>. QED BY <3>1
  <2>. QED BY <2>1, <2>2
<1>3. CASE StartExperiment
  <2>1. att' = att /\ db' = db BY <1>3 DEF StartExperiment
  <2>. QED BY <1>2, <2>1, CheapStep, SameRowsCheap
<1>4. ASSUME Commit, \A r \in Runs : Cheaper(att'[r], att[r]) PROVE CapInv'
  <2>1. db'.att = att' BY <1>4 DEF Commit
  <2>. QED BY <1>2, <1>4, <2>1, CheapStep
<1>5. CASE CancelExperiment \/ ExecuteCanceled
  <2>1. Commit /\ att' = [r \in Runs |-> CancelRows(att[r])]
    BY <1>5 DEF CancelExperiment, ExecuteCanceled, CancelAll
  <2>2. \A r \in Runs : Cheaper(att'[r], att[r]) BY <1>1, <2>1, RewritesCheap
  <2>. QED BY <1>4, <2>1, <2>2
<1>6. ASSUME NEW r \in Runs, CancelRun(r) PROVE CapInv'
  <2>1. Commit /\ att' = [att EXCEPT ![r] = CancelRows(att[r])] BY <1>6 DEF CancelRun
  <2>2. Cheaper(CancelRows(att[r]), att[r]) BY <1>1, RewritesCheap
  <2>. QED BY <1>1, <1>4, <2>1, <2>2, RunCheap
<1>7. ASSUME NEW r \in Runs, RetryRun(r) PROVE CapInv'
  <2>. DEFINE t == Append(att[r], RetryRow(att[r], Len(att[r]), FALSE))
  <2>1. Commit /\ att' = [att EXCEPT ![r] = t] BY <1>7 DEF RetryRun
  <2>2. Cheaper(t, att[r]) BY <1>1, AppendCheap, SameRowsCheap
  <2>. HIDE DEF t
  <2>. QED BY <1>1, <1>4, <2>1, <2>2, RunCheap
<1>. QED BY <1>3, <1>5, <1>6, <1>7 DEF Monitor

\* One row of a run is replaced by one with its cost.
LEMMA RowCheap ==
  ASSUME IInv, NEW r \in Runs, NEW i \in 1 .. Len(att[r]), NEW row,
         att' = [att EXCEPT ![r] = [att[r] EXCEPT ![i] = row]],
         row.cost = att[r][i].cost, att[r][i].cache_hit => row.cache_hit
  PROVE  \A q \in Runs : Cheaper(att'[q], att[q])
<1>. DEFINE t == [att[r] EXCEPT ![i] = row]
<1>1. att \in [Runs -> Rows] /\ att[r] \in Rows BY Facts
<1>2. Cheaper(t, att[r]) BY <1>1, ReplaceCheap
<1>. HIDE DEF t
<1>3. att' = [att EXCEPT ![r] = t] BY DEF t
<1>. QED BY <1>1, <1>2, <1>3, RunCheap

\* The steps of an execution other than the answer of a call.
LEMMA WorkerCheap ==
  ASSUME IInv, IInv', CapInv,
         \/ SkipCanceledRun \/ NoAdapter \/ BeginRun
         \/ NothingQueued \/ SeeCanceled \/ SelectAttempt
         \/ BlockRun \/ ApplyCachedResponse \/ SkipOverCap \/ StartCall
  PROVE  CapInv'
<1>1. controls' = controls /\ db' = db
  BY DEF SkipCanceledRun, NoAdapter, BeginRun, NothingQueued, SeeCanceled, SelectAttempt,
         BlockRun, ApplyCachedResponse, SkipOverCap, StartCall, fixed
<1>2. cur \in Runs
  BY DEF SkipCanceledRun, NoAdapter, BeginRun, NothingQueued, SeeCanceled, SelectAttempt,
         BlockRun, ApplyCachedResponse, SkipOverCap, StartCall, AtRun, IInv, CursorInv
<1>3. att \in [Runs -> Rows] /\ att[cur] \in Rows BY <1>2, Facts
<1>4. pc' = "call" => ~CapReached
  BY DEF SkipCanceledRun, NoAdapter, BeginRun, NothingQueued, SeeCanceled, SelectAttempt,
         BlockRun, ApplyCachedResponse, SkipOverCap, StartCall, NextRun
<1>5. SUFFICES \A q \in Runs : Cheaper(att'[q], att[q])
  BY <1>1, <1>4, CheapStep, SameRowsCheap
<1>6. ASSUME att' = att PROVE \A q \in Runs : Cheaper(att'[q], att[q])
  BY <1>6, SameRowsCheap
<1>7. CASE BeginRun \/ NothingQueued \/ SelectAttempt
  BY <1>6, <1>7 DEF BeginRun, NothingQueued, SelectAttempt
<1>8. CASE SkipCanceledRun \/ SeeCanceled
  <2>1. att' = [att EXCEPT ![cur] = CancelRows(att[cur])]
    BY <1>8 DEF SkipCanceledRun, SeeCanceled
  <2>2. Cheaper(CancelRows(att[cur]), att[cur]) BY <1>3, RewritesCheap
  <2>. QED BY <1>2, <1>3, <2>1, <2>2, RunCheap
<1>9. CASE NoAdapter \/ BlockRun
  <2>1. att' = att \/ \E why : att' = [att EXCEPT ![cur] = BlockRows(att[cur], why)]
    BY <1>9 DEF NoAdapter, BlockRun
  <2>2. \A why : Cheaper(BlockRows(att[cur], why), att[cur]) BY <1>3, RewritesCheap
  <2>. QED BY <1>2, <1>3, <1>6, <2>1, <2>2, RunCheap
<1>10. CASE ApplyCachedResponse \/ SkipOverCap \/ StartCall
  <2>1. pc = "ready" BY <1>10 DEF ApplyCachedResponse, SkipOverCap, StartCall
  <2>2. sel \in 1 .. Len(att[cur]) BY <2>1 DEF IInv, CursorInv
  <2>. DEFINE row == att[cur][sel]
  <2>3. row \in RunAttempt BY <1>3, <2>2, RowType
  <2>4. CASE ApplyCachedResponse
    <3>. DEFINE new == [row EXCEPT !.status = "succeeded", !.cache_hit = TRUE]
    <3>1. att' = [att EXCEPT ![cur] = [att[cur] EXCEPT ![sel] = new]]
      BY <1>2, <1>3, <2>4 DEF ApplyCachedResponse
    <3>2. new.cost = row.cost /\ new.cache_hit BY <2>3 DEF RunAttempt
    <3>. HIDE DEF new
    <3>. QED BY <1>2, <2>2, <3>1, <3>2, RowCheap
  <2>5. CASE SkipOverCap
    <3>. DEFINE new == Refused(row, "cost_cap_exceeded")
    <3>1. att' = [att EXCEPT ![cur] = [att[cur] EXCEPT ![sel] = new]]
      BY <1>2, <1>3, <2>5 DEF SkipOverCap
    <3>2. new.cost = row.cost /\ new.cache_hit = row.cache_hit
      BY <2>3 DEF RunAttempt, Refused
    <3>. HIDE DEF new
    <3>. QED BY <1>2, <2>2, <3>1, <3>2, RowCheap
  <2>6. CASE StartCall
    <3>. DEFINE new == Called(row)
    <3>1. att' = [att EXCEPT ![cur] = [att[cur] EXCEPT ![sel] = new]]
      BY <1>2, <1>3, <2>6 DEF StartCall
    <3>2. new.cost = row.cost /\ new.cache_hit = row.cache_hit
      BY <2>3 DEF RunAttempt, Called
    <3>. HIDE DEF new
    <3>. QED BY <1>2, <2>2, <3>1, <3>2, RowCheap
  <2>. QED BY <1>10, <2>4, <2>5, <2>6
<1>. QED BY <1>7, <1>8, <1>9, <1>10

\* The answer of a call is charged: the cap was not reached before.
LEMMA CallCharged ==
  ASSUME IInv, IInv', CapInv, NEW c \in Costs, CallSucceeds(c)
  PROVE  CapInv'
<1>. DEFINE cap == controls.max_total_cost
            row == [att[cur][sel] EXCEPT !.status = "succeeded", !.cost = c]
<1>1. pc = "call" /\ pc' = "loop" /\ controls' = controls /\ db' = db
  BY DEF CallSucceeds, fixed
<1>2. cur \in Runs /\ sel \in 1 .. Len(att[cur]) BY <1>1 DEF IInv, CursorInv
<1>3. att \in [Runs -> Rows] /\ att[cur] \in Rows /\ att[cur][sel] \in RunAttempt
  BY <1>2, Facts, RowType
<1>4. att' = [att EXCEPT ![cur] = [att[cur] EXCEPT ![sel] = row]]
  BY <1>2, <1>3 DEF CallSucceeds
<1>5. row.cost = c BY <1>3 DEF RunAttempt
<1>6. att' \in [Runs -> Rows] BY RowFunctions DEF IInv, TypeOK, Rows
<1>. HIDE DEF row
<1>7. SUFFICES ASSUME cap # NoCap PROVE Within(att', cap) /\ Within(db.att, cap)
  BY <1>1 DEF CapInv
<1>8. Within(db.att, cap) /\ Total(att) < cap BY <1>1, <1>7 DEF CapInv
<1>9. /\ \A q \in Runs : q # cur => att'[q] = att[q]
      /\ Len(att'[cur]) = Len(att[cur])
      /\ \A j \in 1 .. Len(att[cur]) : att'[cur][j] = IF j = sel THEN row ELSE att[cur][j]
  <2>1. att'[cur] = [att[cur] EXCEPT ![sel] = row] /\ \A q \in Runs : q # cur => att'[q] = att[q]
    BY <1>2, <1>3, <1>4
  <2>. QED BY <1>2, <1>3, <2>1 DEF Rows
<1>10. /\ \A q \in Runs : q # cur => Cheaper(att'[q], att[q])
       /\ \A j \in 1 .. Len(att'[cur]) : j # sel => CheaperAt(att'[cur], att[cur], j)
  <2>1. \A q \in Runs : q # cur => Cheaper(att'[q], att[q]) BY <1>9, SameRowsCheap
  <2>2. \A j \in 1 .. Len(att'[cur]) : j # sel => CheaperAt(att'[cur], att[cur], j)
    BY <1>9 DEF CheaperAt
  <2>. QED BY <2>1, <2>2
<1>11. Total(att') <= Total(att) + c
  <2>1. sel \in 1 .. Len(att'[cur]) /\ att'[cur][sel].cost = c BY <1>2, <1>5, <1>9
  <2>. QED BY <1>2, <1>3, <1>6, <1>10, <2>1, TotalOfCall
<1>12. Total(att) \in Nat /\ Total(att') \in Nat BY <1>3, <1>6, TotalFalls, SameRowsCheap
<1>13. cap \in Nat /\ c \in Nat
  BY <1>7, CostsAssumption DEF IInv, TypeOK, ControlSnapshot
<1>14. Total(att') < cap + c BY <1>8, <1>11, <1>12, <1>13
<1>. QED BY <1>8, <1>14 DEF Within

\* A failed call costs nothing.
LEMMA CallFailedCheap ==
  ASSUME IInv, IInv', CapInv,
         \/ CallFailsRetry
         \/ \E k \in ErrorKind \ {"none", "blocked_by_config"} : CallFailsForGood(k)
  PROVE  CapInv'
<1>1. pc = "call" /\ pc' # "call" /\ controls' = controls /\ db' = db
  BY DEF CallFailsRetry, CallFailsForGood, NextRun, fixed
<1>2. cur \in Runs /\ sel \in 1 .. Len(att[cur]) BY <1>1 DEF IInv, CursorInv
<1>3. att \in [Runs -> Rows] /\ att[cur] \in Rows /\ att[cur][sel] \in RunAttempt
  BY <1>2, Facts, RowType
<1>4. SUFFICES \A q \in Runs : Cheaper(att'[q], att[q])
  BY <1>1, CheapStep, SameRowsCheap
<1>5. ASSUME NEW k \in ErrorKind \ {"none", "blocked_by_config"}, NEW why \in FailureReason
      PROVE  Cheaper(Failed(k, why), att[cur]) /\ Failed(k, why) \in Rows
  <2>. DEFINE new == [att[cur][sel] EXCEPT !.status = "failed", !.error_kind = k, !.reason = why]
  <2>1. new.cost = att[cur][sel].cost /\ new.cache_hit = att[cur][sel].cache_hit
    BY <1>3 DEF RunAttempt
  <2>2. Failed(k, why) = [att[cur] EXCEPT ![sel] = new] BY DEF Failed
  <2>. HIDE DEF new
  <2>3. Cheaper([att[cur] EXCEPT ![sel] = new], att[cur]) BY <1>2, <1>3, <2>1, ReplaceCheap
  <2>4. Failed(k, why) \in Rows BY <1>1, FailedRows DEF Rewrites
  <2>. QED BY <2>2, <2>3, <2>4
<1>6. CASE CallFailsRetry
  <2>. DEFINE s == Failed("retryable", "none")
              t == Append(s, RetryRow(s, sel, ~controls.backoff))
  <2>1. att' = [att EXCEPT ![cur] = t] BY <1>6 DEF CallFailsRetry
  <2>2. Cheaper(s, att[cur]) /\ s \in Rows BY <1>5 DEF ErrorKind, FailureReason
  <2>. HIDE DEF s
  <2>3. Cheaper(t, att[cur]) BY <1>3, <2>2, AppendCheap
  <2>. HIDE DEF t
  <2>. QED BY <1>2, <1>3, <2>1, <2>3, RunCheap
<1>7. ASSUME NEW k \in ErrorKind \ {"none", "blocked_by_config"}, CallFailsForGood(k)
      PROVE  \A q \in Runs : Cheaper(att'[q], att[q])
  <2>. DEFINE t == Failed(k, "error_message")
  <2>1. att' = [att EXCEPT ![cur] = t] BY <1>7 DEF CallFailsForGood
  <2>2. Cheaper(t, att[cur]) BY <1>5 DEF FailureReason
  <2>. HIDE DEF t
  <2>. QED BY <1>2, <1>3, <2>1, <2>2, RunCheap
<1>. QED BY <1>6, <1>7

\* What a rollback brings back was within the cap.
LEMMA RollbackCheap ==
  ASSUME CapInv, Rollback
  PROVE  CapInv'
<1>1. att' = db.att /\ db' = db /\ pc' = "idle" /\ controls' = controls
  BY DEF Rollback, fixed
<1>. QED BY <1>1 DEF CapInv

LEMMA BackoffCheap ==
  ASSUME IInv, IInv', CapInv, NEW r \in Runs, NEW i \in DOMAIN att[r], BackoffEnds(r, i)
  PROVE  CapInv'
<1>1. /\ att' = [att EXCEPT ![r] = Ripen(att[r], i)]
      /\ db' = [db EXCEPT !.att[r] = Ripen(@, i)]
      /\ controls' = controls /\ pc' = pc
  BY DEF BackoffEnds, fixed
<1>2. /\ db = [exp |-> db.exp, run |-> db.run, att |-> db.att, cache |-> db.cache]
      /\ db.att \in [Runs -> Rows] /\ att \in [Runs -> Rows]
  BY RowFunctions DEF IInv
<1>3. db'.att = [db.att EXCEPT ![r] = Ripen(db.att[r], i)] BY <1>1, <1>2
<1>4. Cheaper(Ripen(att[r], i), att[r]) /\ Cheaper(Ripen(db.att[r], i), db.att[r])
  BY <1>2, RewritesCheap
<1>5. \A q \in Runs : Cheaper(att'[q], att[q])
  BY <1>1, <1>2, <1>4, SameRowsCheap
<1>6. \A q \in Runs : Cheaper(db'.att[q], db.att[q])
  BY <1>2, <1>3, <1>4, SameRowsCheap
<1>. QED BY <1>1, <1>5, <1>6, CheapStep

LEMMA StepCap == IInv /\ CapInv /\ [Next]_vars => CapInv'
<1>. SUFFICES ASSUME IInv, CapInv, [Next]_vars PROVE CapInv' OBVIOUS
<1>1. IInv' BY StepInv
<1>2. CASE Monitor \/ ExecuteCanceled \/ StartExperiment BY <1>1, <1>2, MonitorCheap
<1>3. CASE \/ SkipCanceledRun \/ NoAdapter \/ BeginRun
           \/ NothingQueued \/ SeeCanceled \/ SelectAttempt
           \/ BlockRun \/ ApplyCachedResponse \/ SkipOverCap \/ StartCall
  BY <1>1, <1>3, WorkerCheap
<1>4. CASE \E c \in Costs : CallSucceeds(c) BY <1>1, <1>4, CallCharged
<1>5. CASE \/ CallFailsRetry
           \/ \E k \in ErrorKind \ {"none", "blocked_by_config"} : CallFailsForGood(k)
  BY <1>1, <1>5, CallFailedCheap
<1>6. CASE FinishExperiment
  <2>1. att' = att /\ db'.att = att' /\ pc' = "idle" /\ controls' = controls
    BY <1>6 DEF FinishExperiment, Commit, fixed
  <2>. QED BY <1>1, <2>1, CheapStep, SameRowsCheap
<1>7. CASE NaiveTimestamp \/ Crash BY <1>7, RollbackCheap DEF NaiveTimestamp, Crash
<1>8. CASE ExternalCancel \/ UNCHANGED vars
  <2>1. att' = att /\ db' = db /\ pc' = pc /\ controls' = controls
    BY <1>8 DEF ExternalCancel, rows, fixed, vars
  <2>. QED BY <2>1 DEF CapInv
<1>9. CASE \E r \in Runs : \E i \in DOMAIN att[r] : BackoffEnds(r, i)
  BY <1>1, <1>9, BackoffCheap
<1>. QED BY <1>2, <1>3, <1>4, <1>5, <1>6, <1>7, <1>8, <1>9
     DEF Next, Worker, Environment

\* Nothing has been spent before the first execution.
LEMMA InitCap == Init => CapInv
<1>. SUFFICES ASSUME Init PROVE CapInv OBVIOUS
<1>1. att \in [Runs -> Rows] BY InitInv, Facts
<1>2. \A r \in Runs : \A i \in 1 .. Len(att[r]) : att[r][i].cost = 0
  BY ExecutorAssumption DEF Init, ReplicateRow
<1>3. \A x \in Charged(att) : CostOf(att)[x] = 0
  <2>1. \A x \in Cells(att) : CostOf(att)[x] = 0 BY <1>1, <1>2, CellsOf DEF CostOf
  <2>. QED BY <2>1 DEF Charged
<1>4. Total(att) = 0
  <2>1. IsFiniteSet({}) /\ IsFiniteSet(Charged(att)) BY <1>1, CellsOf, FS_EmptySet
  <2>2. Total(att) <= SumOver(CostOf(att), {})
    BY <1>3, <2>1, SumBelow DEF Total
  <2>3. Total(att) \in Nat BY <1>1, TotalFalls, SameRowsCheap
  <2>. QED BY <2>2, <2>3, SumEmpty
<1>5. pc = "idle" /\ db.att = att BY DEF Init
<1>. QED BY <1>4, <1>5 DEF CapInv, Within

\* The cap holds but for the last call: whatever is retried, canceled, answered
\* from the cache or rolled back, what the called rows have cost passes
\* max_total_cost_usd by less than the cost of one call (_cost_cap_reached).
THEOREM CostStaysUnderCap == Spec => []CapOvershootBounded
<1>1. IInv /\ CapInv => CapOvershootBounded
  <2>1. IInv => Spent = Total(att) BY Facts, SpentIsTotal
  <2>. QED BY <2>1 DEF CapInv, Within, CapOvershootBounded
<1>. QED BY <1>1, InitCap, StepCap, Invariant, PTL DEF Spec
=============================================================================
