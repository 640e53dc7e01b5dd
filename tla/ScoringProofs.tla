--------------------------- MODULE ScoringProofs ---------------------------
(***************************************************************************)
(* What is proved of Scoring, for any experiment and any number of         *)
(* requests.  The inductive invariant says when rows are settled: all that *)
(* may still be executed come after a skip.  So they are once an           *)
(* experiment has been complete, which is what the job and the judge see.  *)
(* It says what sessions hold: candidates are of committed rows, one for   *)
(* each row and key; a session that scores alone knows no score to be      *)
(* stored that is already there; and of the sessions that run the judge at *)
(* most one has inserted its execution, while none is committed.           *)
(***************************************************************************)
EXTENDS Scoring, WellFoundedInduction, TLAPS

\* The candidates a session holds.
Held(s) == view[s].todo \cup view[s].fresh

\* A divergence from the answer the replicate of row i ended with.
FromFinal(i, b) ==
  \A j \in done :
    /\ ledger[j].model = ledger[i].model /\ ledger[j].warmer = NoWarmer
    /\ SameReplicate(i, j) /\ Succeeded(j)
    => b = j \/ AfterSkip(j)

\* Only rows after a skip are left to be executed or retried.
Settled ==
  /\ \A j \in Existing \ done : AfterSkip(j)
  /\ \A i \in done :
       ledger[i].status = "failed" /\ (\A j \in Existing : SameRun(i, j) => j <= i)
       => AfterSkip(i)

\* The rows of a run are executed in order.
InOrder == \A i \in done, j \in Existing : SameRun(i, j) /\ j < i => j \in done

StatusOK == status = "complete" => Settled

HeldOK(s) ==
  /\ pc[s] \notin {"score", "diverge"} => Held(s) = {}
  /\ pc[s] = "score" => \A c \in Held(s) : c.key # "divergence"
  /\ \A c \in Held(s) : c.row \in done /\ (c.key = "divergence" => FromFinal(c.row, c.baseline))
  /\ \A c, d \in Held(s) : c.row = d.row /\ c.key = d.key => c = d

Judging == {"read_attempts", "insert_execution", "judge"}

JobOK(s) ==
  /\ pc[s] = "idle" => req[s].kind = "none" /\ view[s] = Unread
  /\ pc[s] \in {"score", "diverge"} => IsScoring(s)
  /\ pc[s] \in Judging => req[s].kind = "judge" /\ req[s].id > 0
  /\ pc[s] # "idle" /\ req[s].kind \in {"job", "judge"} => Settled
  /\ pc[s] = "diverge" => req[s].kind = "job"

JudgeOK(s) ==
  /\ pc[s] \in {"read_attempts", "insert_execution"} => view[s].decided = {}
  /\ pc[s] = "insert_execution" => view[s].comparisons = view[s].asked
  /\ pc[s] \in {"insert_execution", "judge"} => Reviewed(view[s].asked)
  /\ pc[s] = "judge" =>
       /\ view[s].comparisons \cup view[s].decided = view[s].asked
       /\ execution = NoExecution
       /\ \A t \in Sessions : pc[t] = "judge" => t = s

AloneOK ==
  alone =>
    /\ \A s, t \in Sessions : IsScoring(s) /\ IsScoring(t) => s = t
    /\ \A s \in Sessions : ~req[s].force =>
         \A c \in view[s].fresh : ~\E x \in scores : x.row = c.row /\ x.key = c.key

ScoresOK ==
  \A x \in scores :
    /\ x.row \in done
    /\ x.key = "divergence" => Settled /\ FromFinal(x.row, x.baseline)

\* The execution on record compared what reviewers compare.
ExecutionOK == execution # NoExecution => Settled /\ Reviewed(execution.comparisons)

\* Whoever has paid has failed, has committed, or is at it.
CallsOK ==
  \A x \in calls :
    \/ x.by \in failed
    \/ execution # NoExecution /\ x.by = execution.by
    \/ \E s \in Sessions : pc[s] = "judge" /\ x.by = req[s].id

IInv ==
  /\ TypeOK /\ InOrder /\ StatusOK
  /\ \A s \in Sessions : HeldOK(s) /\ JobOK(s) /\ JudgeOK(s)
  /\ AloneOK /\ ScoredOnceIfAlone /\ ScoresOK
  /\ ExecutionOK /\ JudgementIsWhole /\ CallsOK
-----------------------------------------------------------------------------
Labels == {"idle", "score", "diverge", "read_attempts", "insert_execution", "judge"}

\* Rows are numbers.
LEMMA RowsAreNumbers ==
  ASSUME ledger \in Ledgers
  PROVE  /\ Rows \subseteq Nat /\ Len(ledger) \in Nat /\ Rows = 1 .. Len(ledger)
         /\ \A i \in Rows : /\ ledger[i].attempt_number \in Nat /\ ledger[i].replicate_index \in Nat
                            /\ i \in Nat
                            /\ ledger[i].status \in {"succeeded", "failed", "blocked"}
<1> DEFINE Row == [model : Models, warmer : Warmers, replicate_index : Nat,
                   attempt_number : Nat, status : {"succeeded", "failed", "blocked"}]
<1>1. ledger \in Seq(Row)
  BY ScoringAssumption
<1>2. Rows = 1 .. Len(ledger) /\ Len(ledger) \in Nat
  BY <1>1 DEF Rows
<1>3. ASSUME NEW i \in Rows
      PROVE  /\ ledger[i].attempt_number \in Nat /\ ledger[i].replicate_index \in Nat
             /\ i \in Nat /\ ledger[i].status \in {"succeeded", "failed", "blocked"}
  <2>1. ledger[i] \in Row
    <3> HIDE DEF Row
    <3> QED BY <1>1, <1>2
  <2> QED BY <2>1, <1>2
<1>4. Rows \subseteq Nat
  BY <1>2
<1> QED BY <1>2, <1>3, <1>4

\* A bounded set of numbers has a greatest one.
LEMMA HasGreatest ==
  ASSUME NEW S \in SUBSET Nat, S # {}, NEW n \in Nat, \A k \in S : k <= n
  PROVE  \E m \in S : \A k \in S : k <= m
<1> DEFINE T == {b \in Nat : \A k \in S : k <= b}
<1>1. \E b \in T : \A c \in T : ~(<<c, b>> \in OpToRel(<, Nat))
  <2>1. T \subseteq Nat /\ T # {}
    OBVIOUS
  <2> HIDE DEF T
  <2> QED BY <2>1, NatLessThanWellFounded, WFMin
<1>2. PICK b \in T : \A c \in T : ~(<<c, b>> \in OpToRel(<, Nat))
  BY <1>1
<1>3. \A c \in T : ~(c < b)
  BY <1>2 DEF OpToRel
<1>4. b \in S
  <2> SUFFICES ASSUME b \notin S PROVE FALSE
    OBVIOUS
  <2>1. \A k \in S : k < b
    OBVIOUS
  <2>2. b \in Nat /\ b > 0
    <3>1. PICK k \in S : k < b
      BY <2>1
    <3>2. b \in Nat /\ k \in Nat
      OBVIOUS
    <3> QED BY <3>1, <3>2
  <2>3. \A k \in S : k <= b - 1
    BY <2>1, <2>2
  <2>4. b - 1 \in T /\ b - 1 < b
    BY <2>2, <2>3
  <2> QED BY <2>4, <1>3
<1> QED BY <1>4

\* Rows that exist are rows.
LEMMA ExistingAreRows ==
  ASSUME TypeOK
  PROVE  Existing \subseteq Rows /\ done \subseteq Existing /\ Rows \subseteq Nat /\ rows \in Nat
  BY RowsAreNumbers DEF TypeOK, Existing

\* A replicate has at most one succeeded row.
LEMMA OneSucceeds ==
  ASSUME TypeOK, NEW i \in Rows, NEW j \in Rows, SameRun(i, j), SameReplicate(i, j),
         Succeeded(i), Succeeded(j)
  PROVE  i = j
<1>1. i \in Nat /\ j \in Nat
  BY RowsAreNumbers DEF TypeOK
<1>2. ASSUME i < j PROVE FALSE
  BY <1>2, ScoringAssumption DEF TypeOK, Rows, SameRun, SameReplicate, Succeeded
<1>3. ASSUME j < i PROVE FALSE
  BY <1>3, ScoringAssumption DEF TypeOK, Rows, SameRun, SameReplicate, Succeeded
<1> QED BY <1>1, <1>2, <1>3

\* A replicate without a warmer has at most one succeeded row, and it is the
\* baseline.
LEMMA BaselineIsFinal ==
  ASSUME TypeOK, NEW i \in done
  PROVE  FromFinal(i, Baseline(i)) /\ Baseline(i) \in Nat
<1> DEFINE same == {j \in done : /\ ledger[j].model = ledger[i].model
                                 /\ ledger[j].warmer = NoWarmer /\ SameReplicate(i, j)}
           good == {j \in same : Succeeded(j)}
           best == IF \E j \in same : Succeeded(j) THEN good ELSE same
<1>1. done \subseteq Rows /\ Rows \subseteq Nat
  BY ExistingAreRows
<1>2. Baseline(i) = IF best = {} THEN NoRow
                    ELSE CHOOSE j \in best : \A k \in best : k <= j
  BY DEF Baseline
<1>3. \A a, b \in good : a = b
  BY <1>1, OneSucceeds DEF SameRun, SameReplicate
<1>4. ASSUME NEW j \in good PROVE Baseline(i) = j
  <2>1. best = {j}
    <3>1. \A a \in good : a = j
      BY <1>3
    <3> QED BY <3>1, <1>4
  <2>2. \A k \in best : k <= j
    BY <2>1, <1>1
  <2>3. \A a \in best : a = j
    BY <2>1
  <2> HIDE DEF best
  <2> QED BY <2>1, <2>2, <2>3, <1>2
<1>5. FromFinal(i, Baseline(i))
  BY <1>1, <1>4 DEF FromFinal
<1>6. Baseline(i) \in Nat
  <2>1. CASE best = {}
    BY <2>1, <1>2 DEF NoRow
  <2>2. CASE best # {}
    <3>1. best \subseteq Nat /\ \A k \in best : k <= Len(ledger)
      <4>1. Rows = 1 .. Len(ledger) /\ Len(ledger) \in Nat
        BY RowsAreNumbers DEF TypeOK
      <4>2. best \subseteq Rows
        BY <1>1
      <4> HIDE DEF best
      <4> QED BY <4>1, <4>2
    <3>2. Len(ledger) \in Nat
      BY RowsAreNumbers DEF TypeOK
    <3> HIDE DEF best
    <3>3. \E m \in best : \A k \in best : k <= m
      BY <2>2, <3>1, <3>2, HasGreatest
    <3> QED BY <2>2, <3>1, <3>3, <1>2
  <2> QED BY <2>1, <2>2
<1> QED BY <1>5, <1>6
-----------------------------------------------------------------------------
\* At the start nothing is held and nothing is scored.
LEMMA InitInv == Init => IInv
<1> SUFFICES ASSUME Init PROVE IInv
  OBVIOUS
<1> USE DEF Init, NoRequest, Unread, NoExecution
<1>1. TypeOK
  <2>1. NoRequest \in Request /\ Unread \in View
    BY DEF Request, View
  <2> QED BY <2>1 DEF TypeOK
<1>2. \A s \in Sessions : HeldOK(s) /\ JobOK(s) /\ JudgeOK(s)
  BY DEF HeldOK, Held, JobOK, Judging, JudgeOK
<1>3. AloneOK /\ ScoredOnceIfAlone /\ ScoresOK /\ CallsOK
  BY DEF AloneOK, IsScoring, ScoredOnceIfAlone, ScoresOK, CallsOK
<1>4. ExecutionOK /\ JudgementIsWhole /\ StatusOK /\ InOrder
  BY DEF ExecutionOK, JudgementIsWhole, StatusOK, InOrder
<1> QED BY <1>1, <1>2, <1>3, <1>4 DEF IInv

Untouched(t) == pc'[t] = pc[t] /\ req'[t] = req[t] /\ view'[t] = view[t]

\* What a session holds and does stays in order while it waits.
LEMMA UntouchedKeeps ==
  ASSUME IInv, UNCHANGED runs, NEW t \in Sessions, Untouched(t)
  PROVE  HeldOK(t)' /\ JobOK(t)'
  BY DEF runs, IInv, Untouched, HeldOK, Held, JobOK, Judging, FromFinal, Rows, SameReplicate,
         Succeeded,
         IsScoring, Settled, Existing, AfterSkip, SameRun

\* The end of a request leaves its session as it was at the start.
LEMMA EndKeeps ==
  ASSUME IInv, UNCHANGED runs, NEW s \in Sessions, EndRequest(s)
  PROVE  /\ pc' \in [Sessions -> Labels] /\ req' \in [Sessions -> Request]
         /\ view' \in [Sessions -> View]
         /\ \A t \in Sessions : HeldOK(t)' /\ JobOK(t)'
         /\ \A t \in Sessions : t # s => Untouched(t)
         /\ pc'[s] = "idle" /\ ~IsScoring(s)' /\ view'[s].fresh = {}
<1> USE DEF EndRequest, Goto
<1>1. NoRequest \in Request /\ Unread \in View
  BY DEF NoRequest, Request, Unread, View
<1>2. /\ pc' \in [Sessions -> Labels] /\ req' \in [Sessions -> Request]
      /\ view' \in [Sessions -> View]
  BY <1>1 DEF IInv, TypeOK, Labels
<1>3. /\ \A t \in Sessions : t # s => Untouched(t)
      /\ pc'[s] = "idle" /\ req'[s] = NoRequest /\ view'[s] = Unread
  BY DEF Untouched, IInv, TypeOK
<1>4. HeldOK(s)' /\ JobOK(s)' /\ ~IsScoring(s)' /\ view'[s].fresh = {}
  BY <1>3 DEF HeldOK, Held, JobOK, Judging, IsScoring, NoRequest, Unread
<1> QED BY <1>2, <1>3, <1>4, UntouchedKeeps

\* What a step that leaves the rows, the stored scores and the judge's
\* execution alone cannot disturb.
LEMMA StoredKeeps ==
  ASSUME IInv, UNCHANGED <<alone, runs, data>>
  PROVE  ScoredOnceIfAlone' /\ ScoresOK' /\ ExecutionOK' /\ JudgementIsWhole' /\ StatusOK' /\ InOrder'
  BY DEF data, runs, IInv, ScoredOnceIfAlone, ScoresOK, ExecutionOK, JudgementIsWhole,
         StatusOK, InOrder,
         FromFinal, Settled, Existing, Reviewed, ReviewPairs, AfterSkip, Succeeded, SameRun,
         SameReplicate, Rows

\* Sessions that are not s and did not run the judge do not begin to.
LEMMA JudgeUntouched ==
  ASSUME IInv, UNCHANGED <<runs, execution>>, NEW t \in Sessions, Untouched(t),
         \A u \in Sessions : pc'[u] = "judge" => pc[u] = "judge"
  PROVE  JudgeOK(t)'
  BY DEF runs, IInv, JudgeOK, Untouched, Reviewed, ReviewPairs, AfterSkip, Succeeded, SameRun,
         SameReplicate, Rows

\* A request that ends without storing anything, having failed if it paid.
LEMMA AbandonKeeps ==
  ASSUME IInv, NEW s \in Sessions, EndRequest(s),
         UNCHANGED <<alone, runs, data, made>>,
         failed' \in SUBSET Nat, failed \subseteq failed',
         pc[s] = "judge" => req[s].id \in failed',
         \/ calls' = calls
         \/ \E c \in view[s].comparisons :
              req[s].id \in failed' /\ calls' = calls \cup {[comparison |-> c,
                   by |-> req[s].id]}
  PROVE  IInv'
<1> USE DEF data, runs
<1>1. TypeOK'
  <2>1. calls' \subseteq [comparison : Comparison, by : Nat]
    <3>1. view[s].comparisons \subseteq Comparison /\ req[s].id \in Nat
      BY DEF IInv, TypeOK, View, Request
    <3> QED BY <3>1 DEF IInv, TypeOK
  <2> QED BY <2>1, EndKeeps DEF IInv, TypeOK, Labels, Existing
<1>2. \A t \in Sessions : HeldOK(t)' /\ JobOK(t)'
  BY EndKeeps
<1>3. ASSUME NEW t \in Sessions PROVE JudgeOK(t)'
  <2>1. CASE t = s
    BY <2>1, EndKeeps DEF JudgeOK
  <2>2. CASE t # s
    <3>1. Untouched(t) /\ \A u \in Sessions : pc'[u] = "judge" => pc[u] = "judge"
      BY <2>2, EndKeeps DEF Untouched
    <3> QED BY <3>1, JudgeUntouched
  <2> QED BY <2>1, <2>2
<1>4. AloneOK'
  <2>1. \A t \in Sessions : /\ IsScoring(t)' => t # s /\ IsScoring(t)
                            /\ t # s => Untouched(t)
    BY EndKeeps DEF IsScoring, Untouched
  <2> QED BY <2>1, EndKeeps DEF IInv, AloneOK, Untouched
<1>5. ScoredOnceIfAlone' /\ ScoresOK' /\ ExecutionOK' /\ JudgementIsWhole' /\ StatusOK' /\ InOrder'
  BY StoredKeeps
<1>6. CallsOK'
  <2> SUFFICES ASSUME NEW x \in calls', x.by \notin failed'
               PROVE  \/ execution # NoExecution /\ x.by = execution.by
                      \/ \E t \in Sessions : pc'[t] = "judge" /\ x.by = req'[t].id
    BY DEF CallsOK
  <2>1. x \in calls
    OBVIOUS
  <2>2. CASE execution # NoExecution /\ x.by = execution.by
    BY <2>2
  <2>3. CASE \E t \in Sessions : pc[t] = "judge" /\ x.by = req[t].id
    <3>1. PICK t \in Sessions : pc[t] = "judge" /\ x.by = req[t].id
      BY <2>3
    <3>2. t # s
      BY <3>1
    <3> QED BY <3>1, <3>2, EndKeeps DEF Untouched
  <2> QED BY <2>1, <2>2, <2>3 DEF IInv, CallsOK
<1> QED BY <1>1, <1>2, <1>3, <1>4, <1>5, <1>6 DEF IInv

\* A session's request to score the committed rows under some keys.
LEMMA AskScoringKeeps ==
  ASSUME IInv, NEW s \in Sessions, NEW request \in Request, NEW keys,
         MayScore, Begin(s, request), Goto(s, "score"),
         view' = [view EXCEPT ![s].todo = CodeScores(done, keys)],
         keys \subseteq Evaluators \cup Configs,
         request.kind \in {"job", "cli", "adapter"}, request.kind = "job" => Settled
  PROVE  IInv'
<1> USE DEF Begin, Goto, data, runs
<1>1. /\ pc[s] = "idle" /\ pc'[s] = "score" /\ req'[s] = request
      /\ view'[s].todo = CodeScores(done, keys) /\ view'[s].fresh = {}
      /\ view[s].todo = {} /\ view[s].fresh = {}
      /\ \A t \in Sessions : t # s => Untouched(t)
  <2>1. Held(s) = {}
    BY DEF IInv, HeldOK
  <2> QED BY <2>1 DEF Untouched, IInv, TypeOK, View, Held
<1>2. CodeScores(done, keys) \subseteq Candidate
  BY ExistingAreRows DEF IInv, CodeScores, Candidate, NoRow
<1>3. TypeOK'
  <2>1. [view[s] EXCEPT !.todo = CodeScores(done, keys)] \in View
    <3>1. view[s] \in View
      BY DEF IInv, TypeOK
    <3> QED BY <1>2, <3>1 DEF View
  <2>2. view' \in [Sessions -> View]
    BY <2>1 DEF IInv, TypeOK
  <2> QED BY <2>2 DEF IInv, TypeOK, Existing
<1>4. HeldOK(s)'
  BY <1>1, ScoringAssumption DEF HeldOK, Held, CodeScores
<1>5. JobOK(s)'
  BY <1>1 DEF JobOK, Judging, IsScoring, Settled, Existing, AfterSkip, SameRun, Rows
<1>6. \A t \in Sessions : HeldOK(t)' /\ JobOK(t)'
  BY <1>1, <1>4, <1>5, UntouchedKeeps
<1>7. ASSUME NEW t \in Sessions PROVE JudgeOK(t)'
  <2>1. \A u \in Sessions : pc'[u] = "judge" => pc[u] = "judge"
    BY <1>1 DEF Untouched
  <2>2. CASE t = s
    BY <2>2, <1>1 DEF JudgeOK
  <2>3. CASE t # s
    BY <2>1, <2>3, <1>1, JudgeUntouched
  <2> QED BY <2>2, <2>3
<1>8. AloneOK'
  <2>1. \A t \in Sessions : t # s => (IsScoring(t)' <=> IsScoring(t))
    BY <1>1 DEF IsScoring, Untouched
  <2> QED BY <2>1, <1>1 DEF MayScore, IInv, AloneOK, Untouched
<1>9. CallsOK'
  <2>1. \A t \in Sessions : pc[t] = "judge" => t # s
    BY <1>1
  <2> QED BY <2>1, <1>1 DEF IInv, CallsOK, Untouched
<1> QED BY <1>3, <1>6, <1>7, <1>8, <1>9, StoredKeeps DEF IInv, data

\* A step of a scoring session that only changes what it holds.
LEMMA HoldingKeeps ==
  ASSUME IInv, NEW s \in Sessions, UNCHANGED <<alone, runs, data, calls, failed, made, req>>,
         view' \in [Sessions -> View], pc' \in [Sessions -> Labels],
         \A t \in Sessions : t # s => Untouched(t),
         pc[s] \in {"score", "diverge"}, pc'[s] \in {"score", "diverge"},
         HeldOK(s)', JobOK(s)',
         alone /\ ~req[s].force =>
           \A c \in view'[s].fresh : ~\E x \in scores : x.row = c.row /\ x.key = c.key
  PROVE  IInv'
<1> USE DEF data, runs
<1>1. TypeOK'
  BY DEF IInv, TypeOK, Existing, Labels
<1>2. \A t \in Sessions : HeldOK(t)' /\ JobOK(t)'
  BY UntouchedKeeps
<1>3. ASSUME NEW t \in Sessions PROVE JudgeOK(t)'
  <2>1. \A u \in Sessions : pc'[u] = "judge" => pc[u] = "judge"
    BY DEF Untouched
  <2>2. CASE t = s
    BY <2>2 DEF JudgeOK
  <2>3. CASE t # s
    BY <2>1, <2>3, JudgeUntouched
  <2> QED BY <2>2, <2>3
<1>4. AloneOK'
  BY DEF IInv, AloneOK, IsScoring, Untouched
<1>5. CallsOK'
  BY DEF IInv, CallsOK, Untouched
<1> QED BY <1>1, <1>2, <1>3, <1>4, <1>5, StoredKeeps DEF IInv

LEMMA LookUpKeeps ==
  ASSUME IInv, NEW s \in Sessions, LookUpRow(s)
  PROVE  IInv'
<1> DEFINE first == {c \in view[s].todo : \A d \in view[s].todo : c.row <= d.row}
           fresh == IF req[s].force THEN first ELSE Absent(first)
<1>1. /\ view' = [view EXCEPT ![s].todo = @ \ first, ![s].fresh = @ \cup fresh]
      /\ first \subseteq view[s].todo /\ fresh \subseteq first
      /\ ~req[s].force => fresh = Absent(first)
      /\ pc[s] \in {"score", "diverge"}
      /\ UNCHANGED <<alone, runs, data, calls, failed, made, pc, req>>
  BY DEF Absent, LookUpRow
<1> HIDE DEF first, fresh
<1>2. /\ view'[s].todo = view[s].todo \ first /\ view'[s].fresh = view[s].fresh \cup fresh
      /\ view' \in [Sessions -> View]
      /\ \A t \in Sessions : t # s => Untouched(t)
  <2>1. view[s] \in View /\ fresh \subseteq Candidate /\ view \in [Sessions -> View]
    BY <1>1 DEF IInv, TypeOK, View
  <2>2. view' \in [Sessions -> View]
    BY <1>1, <2>1 DEF View
  <2>3. view'[s].todo = view[s].todo \ first
    BY <1>1, <2>1 DEF View
  <2>4. view'[s].fresh = view[s].fresh \cup fresh
    BY <1>1, <2>1 DEF View
  <2>5. \A t \in Sessions : t # s => Untouched(t)
    BY <1>1, <2>1 DEF Untouched
  <2> QED BY <2>2, <2>3, <2>4, <2>5
<1>3. Held(s)' \subseteq Held(s)
  BY <1>1, <1>2 DEF Held
<1>4. HeldOK(s)'
  BY <1>1, <1>3 DEF runs, IInv, HeldOK, FromFinal, AfterSkip, SameRun, Rows, SameReplicate,
                    Succeeded
<1>5. JobOK(s)'
  BY <1>1 DEF runs, IInv, JobOK, Judging, IsScoring, Settled, Existing, AfterSkip, SameRun, Rows
<1>6. alone /\ ~req[s].force =>
        \A c \in view'[s].fresh : ~\E x \in scores : x.row = c.row /\ x.key = c.key
  BY <1>1, <1>2 DEF IInv, AloneOK, Absent, data
<1> QED BY <1>1, <1>2, <1>4, <1>5, <1>6, HoldingKeeps DEF IInv, TypeOK, Labels

LEMMA ReadDivergencesKeeps ==
  ASSUME IInv, NEW s \in Sessions, ReadDivergences(s)
  PROVE  IInv'
<1> USE DEF ReadDivergences, Goto, runs
<1>1. /\ TypeOK
      /\ view'[s].todo = Divergences /\ view'[s].fresh = view[s].fresh
      /\ Held(s) = view[s].fresh
      /\ \A t \in Sessions : t # s => Untouched(t)
      /\ pc'[s] = "diverge"
  BY DEF IInv, TypeOK, View, Untouched, Held, JobOK, Judging
<1>2. \A c \in Divergences : /\ c.row \in done /\ c.key = "divergence"
                             /\ c.baseline = Baseline(c.row) /\ c \in Candidate
                             /\ FromFinal(c.row, c.baseline)
  <2>1. ASSUME NEW i \in done
        PROVE  i \in Nat /\ Baseline(i) \in Nat /\ FromFinal(i, Baseline(i))
    BY <1>1, <2>1, BaselineIsFinal, ExistingAreRows
  <2> QED BY <2>1 DEF Divergences, Candidate
<1>3. \A c, d \in Divergences : c.row = d.row => c = d
  BY DEF Divergences
<1>4. \A c \in view[s].fresh : c.key # "divergence" /\ c.row \in done
  BY <1>1 DEF IInv, HeldOK
<1>5. view' \in [Sessions -> View] /\ pc' \in [Sessions -> Labels]
  <2>1. [view[s] EXCEPT !.todo = Divergences] \in View
    <3>1. view[s] \in View /\ Divergences \subseteq Candidate
      BY <1>1, <1>2 DEF TypeOK
    <3> HIDE DEF Divergences
    <3> QED BY <3>1 DEF View
  <2>2. view' \in [Sessions -> View]
    BY <2>1, <1>1 DEF TypeOK
  <2>3. pc' \in [Sessions -> Labels]
    BY <1>1 DEF TypeOK, Labels
  <2> QED BY <2>2, <2>3
<1>6. HeldOK(s)'
  <2>1. Held(s)' = Divergences \cup view[s].fresh
    BY <1>1 DEF Held
  <2>2. \A c, d \in view[s].fresh : c.row = d.row /\ c.key = d.key => c = d
    BY <1>1 DEF IInv, HeldOK
  <2>3. \A c, d \in Held(s)' : c.row = d.row /\ c.key = d.key => c = d
    BY <2>1, <2>2, <1>2, <1>3, <1>4
  <2>4. \A c \in Held(s)' :
          c.row \in done' /\ (c.key = "divergence" => FromFinal(c.row, c.baseline)')
    BY <2>1, <1>2, <1>4 DEF FromFinal, AfterSkip, SameRun, Rows, SameReplicate, Succeeded
  <2> QED BY <2>3, <2>4, <1>1 DEF HeldOK
<1>7. JobOK(s)'
  BY <1>1 DEF runs, IInv, JobOK, Judging, IsScoring, Settled, Existing, AfterSkip, SameRun, Rows
<1> QED BY <1>1, <1>5, <1>6, <1>7, HoldingKeeps DEF IInv, AloneOK

LEMMA CommitScoresKeeps ==
  ASSUME IInv, NEW s \in Sessions, CommitScores(s)
  PROVE  IInv'
<1> USE DEF CommitScores, runs
<1> DEFINE new == Stored(view[s].fresh, req[s].id, req[s].force)
<1>1. /\ EndRequest(s) /\ UNCHANGED <<alone, runs>>
      /\ scores' = scores \cup new
  OBVIOUS
<1>2. \A y \in new : \E c \in view[s].fresh :
        y.row = c.row /\ y.key = c.key /\ y.baseline = c.baseline /\ y.forced = req[s].force
  BY DEF Stored
<1>3. TypeOK'
  <2>1. req[s].id \in Nat /\ req[s].force \in BOOLEAN /\ view[s].fresh \subseteq Candidate
    BY DEF IInv, TypeOK, Request, View
  <2>2. scores' \subseteq [row : Nat, key : Evaluators \cup Configs \cup {"divergence"},
                           baseline : Nat, forced : BOOLEAN, by : Nat]
    BY <2>1 DEF Stored, Candidate, IInv, TypeOK
  <2> QED BY <2>2, <1>1, EndKeeps DEF IInv, TypeOK, Labels, Existing
<1>4. \A t \in Sessions : HeldOK(t)' /\ JobOK(t)'
  BY <1>1, EndKeeps
<1>5. ASSUME NEW t \in Sessions PROVE JudgeOK(t)'
  <2>1. \A u \in Sessions : pc'[u] = "judge" => pc[u] = "judge"
    BY <1>1, EndKeeps DEF Untouched
  <2>2. CASE t = s
    BY <2>2, <1>1, EndKeeps DEF JudgeOK
  <2>3. CASE t # s
    BY <2>1, <2>3, <1>1, EndKeeps, JudgeUntouched
  <2> QED BY <2>2, <2>3
<1>6. IsScoring(s)
  BY DEF IInv, JobOK, Judging
<1>7. AloneOK'
  <2> SUFFICES ASSUME alone PROVE AloneOK'
    BY DEF AloneOK
  <2>1. \A t \in Sessions : IsScoring(t) => t = s
    BY <1>6 DEF IInv, AloneOK
  <2>2. \A t \in Sessions : ~IsScoring(t)'
    BY <2>1, <1>1, EndKeeps DEF IsScoring, Untouched
  <2>3. ASSUME NEW t \in Sessions PROVE view'[t].fresh = {}
    <3>1. CASE t = s
      BY <3>1, <1>1, EndKeeps
    <3>2. CASE t # s
      <4>1. Untouched(t) /\ ~IsScoring(t)
        BY <3>2, <2>1, <1>1, EndKeeps
      <4>2. pc[t] \notin {"score", "diverge"}
        BY <4>1 DEF IInv, JobOK, Judging
      <4> QED BY <4>1, <4>2 DEF IInv, HeldOK, Held, Untouched
    <3> QED BY <3>1, <3>2
  <2> QED BY <2>2, <2>3 DEF AloneOK
<1>8. ScoredOnceIfAlone'
  <2> SUFFICES ASSUME alone, NEW x \in scores', NEW y \in scores',
                      x.row = y.row, x.key = y.key, ~x.forced, ~y.forced
               PROVE  x = y
    BY DEF ScoredOnceIfAlone
  <2>1. \A u \in new, w \in scores : ~u.forced => ~(w.row = u.row /\ w.key = u.key)
    BY <1>2 DEF IInv, AloneOK
  <2>2. CASE x \in scores /\ y \in scores
    BY <2>2 DEF IInv, ScoredOnceIfAlone
  <2>3. CASE x \in new /\ y \in new
    <3>1. PICK c \in view[s].fresh :
            x = [row |-> c.row, key |-> c.key, baseline |-> c.baseline,
                 forced |-> req[s].force, by |-> req[s].id]
      BY <2>3 DEF Stored
    <3>2. PICK d \in view[s].fresh :
            y = [row |-> d.row, key |-> d.key, baseline |-> d.baseline,
                 forced |-> req[s].force, by |-> req[s].id]
      BY <2>3 DEF Stored
    <3>3. c = d
      BY <3>1, <3>2 DEF IInv, HeldOK, Held
    <3> QED BY <3>1, <3>2, <3>3
  <2> QED BY <2>1, <2>2, <2>3, <1>1
<1>9. ScoresOK'
  <2>1. \A c \in view[s].fresh :
          /\ c.row \in done
          /\ c.key = "divergence" => Settled /\ FromFinal(c.row, c.baseline)
    BY DEF IInv, HeldOK, Held, JobOK, Judging
  <2>2. \A x \in scores' :
          /\ x.row \in done
          /\ x.key = "divergence" => Settled /\ FromFinal(x.row, x.baseline)
    BY <2>1, <1>1, <1>2 DEF IInv, ScoresOK
  <2> QED BY <2>2 DEF ScoresOK, FromFinal, Settled, Existing, AfterSkip, SameRun, Rows,
                      SameReplicate, Succeeded
<1>10. ExecutionOK' /\ JudgementIsWhole' /\ StatusOK' /\ InOrder'
  BY DEF IInv, ExecutionOK, JudgementIsWhole, StatusOK, InOrder, Settled, Existing, Reviewed,
         ReviewPairs,
         AfterSkip, Succeeded, SameRun, SameReplicate, Rows
<1>11. CallsOK'
  <2>1. \A t \in Sessions : pc[t] = "judge" => t # s
    BY DEF IInv, TypeOK
  <2> QED BY <2>1, <1>1, EndKeeps DEF IInv, CallsOK, Untouched
<1> QED BY <1>3, <1>4, <1>5, <1>7, <1>8, <1>9, <1>10, <1>11 DEF IInv

\* A set of numbers has a least one.
LEMMA HasLeast ==
  ASSUME NEW S \in SUBSET Nat, S # {}
  PROVE  \E m \in S : \A k \in S : m <= k
<1>1. \E m \in S : \A k \in S : ~(<<k, m>> \in OpToRel(<, Nat))
  BY NatLessThanWellFounded, WFMin
<1>2. PICK m \in S : \A k \in S : ~(<<k, m>> \in OpToRel(<, Nat))
  BY <1>1
<1>3. \A k \in S : ~(k < m)
  BY <1>2 DEF OpToRel
<1>4. \A k \in S : m <= k
  BY <1>3
<1> QED BY <1>4

\* Once rows are settled, an execution settles only rows after a skip; and the
\* rows of a complete experiment are settled.
LEMMA ExecuteSettles ==
  ASSUME IInv, Execute
  PROVE  /\ StatusOK' /\ InOrder'
         /\ Settled => Settled' /\ \A j \in done' \ done : AfterSkip(j)
<1>1. PICK n \in rows .. Len(ledger) : \E new \in SUBSET ((1 .. n) \ done) :
        /\ \A i \in done \cup new, j \in 1 .. n : SameRun(i, j) /\ j < i => j \in done \cup new
        /\ \A j \in (rows + 1) .. n :
             \E i \in new : RetryOf(j, i) /\ ledger[i].status = "failed"
        /\ rows' = n /\ done' = done \cup new
        /\ status' = IF \A i \in 1 .. n : RunEnds(i, new, n) THEN "complete" ELSE "open"
  BY DEF Execute
<1>2. PICK new \in SUBSET ((1 .. n) \ done) :
        /\ \A i \in done \cup new, j \in 1 .. n : SameRun(i, j) /\ j < i => j \in done \cup new
        /\ \A j \in (rows + 1) .. n :
             \E i \in new : RetryOf(j, i) /\ ledger[i].status = "failed"
        /\ rows' = n /\ done' = done \cup new
        /\ status' = IF \A i \in 1 .. n : RunEnds(i, new, n) THEN "complete" ELSE "open"
  BY <1>1
<1>3. /\ Existing' = 1 .. n /\ Existing \subseteq 1 .. n /\ 1 .. n \subseteq Rows
      /\ Rows \subseteq Nat /\ rows \in Nat /\ n \in Nat /\ ledger' = ledger /\ Rows' = Rows
      /\ done \subseteq Existing /\ done' \subseteq 1 .. n
  BY <1>2, RowsAreNumbers, ExistingAreRows DEF Existing, IInv, TypeOK, Execute, Rows
<1>4. InOrder'
  BY <1>2, <1>3 DEF InOrder, SameRun
<1>5. StatusOK'
  <2> SUFFICES ASSUME \A i \in 1 .. n : RunEnds(i, new, n) PROVE Settled'
    BY <1>2 DEF StatusOK
  <2> DEFINE Ends(i, k) == /\ SameRun(i, k) /\ \A j \in done' : SameRun(j, k) => j <= k
                           /\ \/ ledger[k].status = "blocked"
                              \/ /\ ledger[k].status = "succeeded"
                                 /\ \A j \in 1 .. n : SameRun(j, k) => j <= k
  <2>1. \A i \in 1 .. n : \E k \in done' : Ends(i, k)
    BY <1>2 DEF RunEnds, Succeeded
  <2>2. ASSUME NEW j \in (1 .. n) \ done' PROVE AfterSkip(j)
    <3>1. PICK k \in done' : /\ SameRun(j, k)
                             /\ \/ ledger[k].status = "blocked"
                                \/ \A i \in 1 .. n : SameRun(i, k) => i <= k
      <4> HIDE DEF Ends
      <4>1. PICK k \in done' : Ends(j, k)
        BY <2>1
      <4> USE DEF Ends
      <4> QED BY <4>1
    <3>2. k \in Nat /\ j \in Nat /\ k # j /\ k \in Rows
      BY <1>3
    <3>3. ~(j < k)
      BY <1>2, <3>1 DEF SameRun
    <3>4. k < j
      BY <3>2, <3>3
    <3>5. ledger[k].status = "blocked"
      BY <3>1, <3>2, <3>4
    <3> QED BY <3>1, <3>2, <3>4, <3>5 DEF AfterSkip, SameRun
  <2>3. ASSUME NEW i \in done', ledger[i].status = "failed",
               \A j \in 1 .. n : SameRun(i, j) => j <= i
        PROVE  FALSE
    <3>1. PICK k \in done' : /\ SameRun(i, k) /\ \A j \in done' : SameRun(j, k) => j <= k
                             /\ ledger[k].status \in {"blocked", "succeeded"}
      <4>1. i \in 1 .. n
        BY <1>3
      <4> HIDE DEF Ends
      <4>2. PICK k \in done' : Ends(i, k)
        BY <2>1, <4>1
      <4> USE DEF Ends
      <4> QED BY <4>2
    <3>2. i <= k /\ k <= i /\ i \in Nat /\ k \in Nat
      BY <2>3, <3>1, <1>3
    <3> QED BY <2>3, <3>1, <3>2
  <2> QED BY <2>2, <2>3, <1>3 DEF Settled, AfterSkip, SameRun
<1>6. ASSUME Settled PROVE Settled' /\ \A j \in done' \ done : AfterSkip(j)
  <2>1. \A i, j \in Rows : SameRun(i, j) /\ i < j /\ AfterSkip(i) => AfterSkip(j)
    BY <1>3 DEF AfterSkip, SameRun
  <2>2. \A j \in Existing \ done : AfterSkip(j)
    BY <1>6 DEF Settled
  <2>3. \A j \in (rows + 1) .. n : AfterSkip(j)
    <3> DEFINE bad == {j \in (rows + 1) .. n : ~AfterSkip(j)}
    <3> SUFFICES ASSUME bad # {} PROVE FALSE
      OBVIOUS
    <3>1. PICK j \in bad : \A k \in bad : j <= k
      <4>1. bad \subseteq Nat
        BY <1>3
      <4> HIDE DEF bad
      <4> QED BY <4>1, HasLeast
    <3>2. PICK i \in new : RetryOf(j, i)
      BY <1>2, <3>1
    <3>3. i \in 1 .. n /\ i \notin done /\ i < j /\ SameRun(i, j) /\ i \in Rows /\ j \in Rows
      BY <1>2, <1>3, <3>1, <3>2 DEF RetryOf
    <3>4. CASE i \in Existing
      BY <3>1, <3>3, <3>4, <2>1, <2>2
    <3>5. CASE i \notin Existing
      <4>1. i \in (rows + 1) .. n
        BY <3>3, <3>5, <1>3 DEF Existing
      <4> QED BY <4>1, <3>1, <3>3, <2>1, <1>3
    <3> QED BY <3>4, <3>5
  <2>4. \A j \in (1 .. n) \ done : AfterSkip(j)
    <3>1. \A j \in 1 .. n : j \in Existing \/ j \in (rows + 1) .. n
      BY <1>3 DEF Existing
    <3> QED BY <3>1, <2>2, <2>3
  <2>5. \A j \in (1 .. n) \ done' : AfterSkip(j)
    BY <2>4, <1>2
  <2>6. ASSUME NEW i \in done', ledger[i].status = "failed",
               \A j \in 1 .. n : SameRun(i, j) => j <= i
        PROVE  AfterSkip(i)
    <3>1. CASE i \in done
      BY <3>1, <2>6, <1>3, <1>6 DEF Settled
    <3>2. CASE i \notin done
      BY <3>2, <2>4, <1>3
    <3> QED BY <3>1, <3>2
  <2>7. Settled'
    BY <2>5, <2>6, <1>3 DEF Settled, AfterSkip, SameRun
  <2> QED BY <2>4, <2>7, <1>3
<1> QED BY <1>4, <1>5, <1>6

\* What is settled stays settled when a row is retried.
LEMMA RetrySettles ==
  ASSUME IInv, Retry
  PROVE  /\ InOrder' /\ (Settled => Settled') /\ ledger' = ledger /\ done' = done
         /\ Existing' = Existing \cup {rows + 1} /\ rows' \in 0 .. Len(ledger)
<1>1. /\ rows < Len(ledger) /\ rows' = rows + 1 /\ ledger' = ledger /\ done' = done
      /\ rows \in Nat /\ Len(ledger) \in Nat /\ done \subseteq Existing
      /\ Rows = 1 .. Len(ledger) /\ Existing \subseteq Rows
  BY RowsAreNumbers, ExistingAreRows DEF Retry, IInv, TypeOK
<1>2. PICK i \in done : /\ ~Succeeded(i) /\ RetryOf(rows + 1, i)
                        /\ \A j \in Existing : SameRun(i, j) => j <= i
  BY DEF Retry
<1>3. Existing' = Existing \cup {rows + 1} /\ rows + 1 \in Rows /\ i \in Existing
  BY <1>1 DEF Existing
<1>4. InOrder'
  <2>1. \A k \in done : ~(rows + 1 < k)
    BY <1>1 DEF Existing
  <2>2. InOrder
    BY DEF IInv
  <2>3. ASSUME NEW k \in done, NEW j \in Existing', SameRun(k, j), j < k PROVE j \in done
    BY <1>3, <2>1, <2>2, <2>3 DEF InOrder
  <2> QED BY <1>1, <2>3 DEF InOrder, SameRun
<1>5. ASSUME Settled PROVE Settled'
  <2>1. AfterSkip(rows + 1)
    <3>1. ledger[i].status \in {"failed", "blocked"}
      <4>1. ledger[i].status \in {"succeeded", "failed", "blocked"}
        BY <1>1, <1>3, RowsAreNumbers DEF IInv, TypeOK
      <4> QED BY <1>2, <4>1 DEF Succeeded
    <3>2. SameRun(i, rows + 1) /\ i < rows + 1 /\ i \in Nat
      BY <1>1, <1>2, <1>3 DEF RetryOf
    <3>3. CASE ledger[i].status = "blocked"
      BY <3>2, <3>3, <1>1, <1>3 DEF AfterSkip, SameRun
    <3>4. CASE ledger[i].status = "failed"
      <4>1. AfterSkip(i)
        BY <1>2, <1>5, <3>4 DEF Settled
      <4> QED BY <4>1, <3>2, <1>1 DEF AfterSkip, SameRun
    <3> QED BY <3>1, <3>3, <3>4
  <2> QED BY <2>1, <1>1, <1>3, <1>5 DEF Settled, AfterSkip, SameRun, Rows
<1> QED BY <1>1, <1>3, <1>4, <1>5

\* What reviewers compare once rows are settled: more is only of rows after a
\* skip.
LEMMA ReviewedKeeps ==
  ASSUME TypeOK, ledger' = ledger, done \subseteq done', \A j \in done' \ done : AfterSkip(j),
         NEW comparisons, Reviewed(comparisons)
  PROVE  Reviewed(comparisons)'
<1> DEFINE judged == {c[1] : c \in comparisons}
<1>1. ReviewPairs \subseteq ReviewPairs'
  BY DEF ReviewPairs, Succeeded, SameRun, SameReplicate
<1>2. \A p \in ReviewPairs' : p \in ReviewPairs \/ p[1] \in done' \ done \/ p[2] \in done' \ done
  BY DEF ReviewPairs, Succeeded, SameRun, SameReplicate
<1>3. judged \subseteq ReviewPairs
  BY DEF Reviewed
<1>4. (\A i \in Rows : ledger[i].replicate_index = 0) =>
        \A p \in ReviewPairs : p \in judged \/ AfterSkip(p[1]) \/ AfterSkip(p[2])
  BY DEF Reviewed
<1>5. \A j : AfterSkip(j)' = AfterSkip(j)
  BY DEF AfterSkip, Rows, SameRun
<1>6. Rows' = Rows
  BY DEF Rows
<1>7. Reviewed(comparisons)' =
        (/\ judged \subseteq ReviewPairs'
         /\ (\A i \in Rows' : ledger'[i].replicate_index = 0) =>
              \A p \in ReviewPairs' : p \in judged \/ AfterSkip(p[1])' \/ AfterSkip(p[2])')
  BY DEF Reviewed
<1> HIDE DEF judged
<1>8. (\A i \in Rows' : ledger'[i].replicate_index = 0) =>
        \A p \in ReviewPairs' : p \in judged \/ AfterSkip(p[1])' \/ AfterSkip(p[2])'
  BY <1>2, <1>4, <1>5, <1>6
<1> QED BY <1>1, <1>3, <1>7, <1>8

\* A divergence stays one from the final answer.
LEMMA FromFinalKeeps ==
  ASSUME ledger' = ledger, \A j \in done' \ done : AfterSkip(j), NEW i, NEW b, FromFinal(i, b)
  PROVE  FromFinal(i, b)'
  BY DEF FromFinal, AfterSkip, SameRun, Rows, SameReplicate, Succeeded

LEMMA ExecuteKeeps ==
  ASSUME IInv, Execute
  PROVE  IInv'
<1>1. PICK n \in rows .. Len(ledger) : \E new \in SUBSET ((1 .. n) \ done) :
        /\ rows' = n /\ done' = done \cup new
        /\ status' \in {"open", "complete"}
        /\ scores' = scores \cup Stored(CodeScores(new, Evaluators), 0, FALSE)
  BY DEF Execute
<1>2. PICK new \in SUBSET ((1 .. n) \ done) :
        /\ rows' = n /\ done' = done \cup new
        /\ status' \in {"open", "complete"}
        /\ scores' = scores \cup Stored(CodeScores(new, Evaluators), 0, FALSE)
  BY <1>1
<1>3. UNCHANGED <<alone, ledger, execution, verdicts, calls, failed, made, pc, req, view>>
  BY DEF Execute
<1> DEFINE fresh == Stored(CodeScores(new, Evaluators), 0, FALSE)
<1>4. /\ Existing' = 1 .. n /\ rows' \in 0 .. Len(ledger) /\ done' \subseteq Existing'
      /\ 1 .. n \subseteq Nat
  <2>1. rows \in Nat /\ Len(ledger) \in Nat /\ done \subseteq 1 .. rows
    BY RowsAreNumbers DEF IInv, TypeOK, Existing
  <2> QED BY <1>2, <2>1 DEF Existing
<1>5. \A y \in fresh : /\ y.row \in new /\ y.row \in Nat /\ y.key \in Evaluators
                       /\ y = [row |-> y.row, key |-> y.key, baseline |-> NoRow,
                               forced |-> FALSE, by |-> 0]
  BY <1>2, <1>4 DEF Stored, CodeScores
<1>6. /\ StatusOK' /\ InOrder' /\ (Settled => Settled')
      /\ Settled => \A j \in done' \ done : AfterSkip(j)
  BY ExecuteSettles
<1>7. TypeOK'
  <2>1. scores' \subseteq [row : Nat, key : Evaluators \cup Configs \cup {"divergence"},
                           baseline : Nat, forced : BOOLEAN, by : Nat]
    <3>1. \A y \in fresh : y \in [row : Nat, key : Evaluators \cup Configs \cup {"divergence"},
                                 baseline : Nat, forced : BOOLEAN, by : Nat]
      <4> SUFFICES ASSUME NEW y \in fresh
                   PROVE  y \in [row : Nat, key : Evaluators \cup Configs \cup {"divergence"},
                                baseline : Nat, forced : BOOLEAN, by : Nat]
        OBVIOUS
      <4>1. PICK i \in Nat, k \in Evaluators :
              y = [row |-> i, key |-> k, baseline |-> NoRow, forced |-> FALSE, by |-> 0]
        BY <1>5
      <4> HIDE DEF fresh
      <4> QED BY <4>1 DEF NoRow
    <3> QED BY <3>1, <1>2 DEF IInv, TypeOK
  <2> QED BY <2>1, <1>2, <1>3, <1>4 DEF IInv, TypeOK
<1>8. ASSUME NEW t \in Sessions PROVE HeldOK(t)' /\ JobOK(t)' /\ JudgeOK(t)'
  <2>1. HeldOK(t)'
    <3>1. ASSUME NEW c \in Held(t), c.key = "divergence" PROVE FromFinal(c.row, c.baseline)'
      <4>1. Settled /\ FromFinal(c.row, c.baseline)
        BY <3>1 DEF IInv, HeldOK, JobOK
      <4> QED BY <4>1, <1>3, <1>6, FromFinalKeeps
    <3>2. Held(t)' = Held(t)
      BY <1>3 DEF Held
    <3> QED BY <3>1, <3>2, <1>2, <1>3 DEF IInv, HeldOK
  <2>2. JobOK(t)'
    BY <1>3, <1>6 DEF IInv, JobOK, IsScoring
  <2>3. JudgeOK(t)'
    <3>1. ASSUME pc[t] \in {"insert_execution", "judge"} PROVE Reviewed(view[t].asked)'
      <4>1. PICK asked : asked = view[t].asked
        OBVIOUS
      <4>2. Settled /\ Reviewed(asked)
        BY <3>1, <4>1 DEF IInv, JobOK, Judging, JudgeOK
      <4>3. Reviewed(asked)'
        BY <4>2, <1>2, <1>3, <1>6, ReviewedKeeps DEF IInv
      <4> QED BY <4>1, <4>3, <1>3 DEF Reviewed
    <3> QED BY <3>1, <1>3 DEF IInv, JudgeOK
  <2> QED BY <2>1, <2>2, <2>3
<1>9. AloneOK'
  <2>1. \A t \in Sessions : \A c \in view[t].fresh : c.row \in done
    BY DEF IInv, HeldOK, Held
  <2> QED BY <2>1, <1>2, <1>3, <1>5 DEF IInv, AloneOK, IsScoring
<1>10. ScoredOnceIfAlone'
  <2>1. \A x \in scores : x.row \in done
    BY DEF IInv, ScoresOK
  <2>2. \A x, y \in fresh : x.row = y.row /\ x.key = y.key => x = y
    BY <1>5
  <2>3. \A y \in fresh : y.row \notin done
    BY <1>2, <1>5
  <2>4. scores' = scores \cup fresh
    BY <1>2
  <2> HIDE DEF fresh
  <2> SUFFICES ASSUME alone, NEW x \in scores', NEW y \in scores',
                      x.row = y.row, x.key = y.key, ~x.forced, ~y.forced
               PROVE  x = y
    BY <1>3 DEF ScoredOnceIfAlone
  <2>5. CASE x \in scores /\ y \in scores
    BY <2>5 DEF IInv, ScoredOnceIfAlone
  <2>6. CASE x \in fresh /\ y \in fresh
    BY <2>2, <2>6
  <2> QED BY <2>1, <2>3, <2>4, <2>5, <2>6
<1>11. ScoresOK'
  <2>1. \A y \in fresh : y.key # "divergence" /\ y.row \in done'
    BY <1>2, <1>5, ScoringAssumption
  <2>2. ASSUME NEW x \in scores
        PROVE  /\ x.row \in done'
               /\ x.key = "divergence" => Settled' /\ FromFinal(x.row, x.baseline)'
    <3>1. x.row \in done /\ (x.key = "divergence" => Settled /\ FromFinal(x.row, x.baseline))
      BY DEF IInv, ScoresOK
    <3> QED BY <3>1, <1>2, <1>3, <1>6, FromFinalKeeps
  <2> QED BY <2>1, <2>2, <1>2 DEF ScoresOK
<1>12. ExecutionOK'
  <2> SUFFICES ASSUME execution # NoExecution
               PROVE  Settled' /\ Reviewed(execution.comparisons)'
    BY <1>3 DEF ExecutionOK
  <2>1. Settled /\ Reviewed(execution.comparisons)
    BY DEF IInv, ExecutionOK
  <2> QED BY <2>1, <1>2, <1>3, <1>6, ReviewedKeeps DEF IInv
<1>13. JudgementIsWhole' /\ CallsOK'
  BY <1>3 DEF IInv, JudgementIsWhole, CallsOK
<1> QED BY <1>6, <1>7, <1>8, <1>9, <1>10, <1>11, <1>12, <1>13 DEF IInv

LEMMA RetryKeeps ==
  ASSUME IInv, Retry
  PROVE  IInv'
<1> USE DEF data
<1>1. /\ UNCHANGED <<alone, ledger, done, data, calls, failed, made, pc, req, view>>
      /\ status' = "open"
  BY DEF Retry
<1>2. /\ InOrder' /\ (Settled => Settled') /\ StatusOK'
      /\ Existing' = Existing \cup {rows + 1} /\ rows' \in 0 .. Len(ledger)
  BY <1>1, RetrySettles DEF StatusOK
<1>3. TypeOK'
  BY <1>1, <1>2 DEF IInv, TypeOK
<1> USE DEF FromFinal, Reviewed, ReviewPairs, AfterSkip, Succeeded, SameRun, SameReplicate, Rows
<1>4. ASSUME NEW t \in Sessions PROVE HeldOK(t)' /\ JobOK(t)' /\ JudgeOK(t)'
  <2>1. HeldOK(t)'
    BY <1>1 DEF IInv, HeldOK, Held
  <2>2. JobOK(t)'
    BY <1>1, <1>2 DEF IInv, JobOK, IsScoring
  <2>3. JudgeOK(t)'
    BY <1>1 DEF IInv, JudgeOK
  <2> QED BY <2>1, <2>2, <2>3
<1>5. AloneOK' /\ ScoredOnceIfAlone'
  BY <1>1 DEF IInv, AloneOK, IsScoring, ScoredOnceIfAlone
<1>6. ScoresOK' /\ ExecutionOK'
  BY <1>1, <1>2 DEF IInv, ScoresOK, ExecutionOK
<1>7. JudgementIsWhole' /\ CallsOK'
  BY <1>1 DEF IInv, JudgementIsWhole, CallsOK
<1> QED BY <1>2, <1>3, <1>4, <1>5, <1>6, <1>7 DEF IInv

LEMMA AskJudgeKeeps ==
  ASSUME IInv, NEW s \in Sessions, NEW swap \in BOOLEAN, NEW live \in BOOLEAN,
         AskJudge(s, swap, live)
  PROVE  IInv'
<1> USE DEF AskJudge, Begin, Goto, data, runs
<1> DEFINE id == made + 1
           request == [NoRequest EXCEPT !.kind = "judge", !.swap = swap, !.live = live,
                !.id = id]
<1>1. request \in Request /\ request.kind = "judge" /\ request.id > 0
  <2>1. id \in Nat /\ id > 0
    BY DEF IInv, TypeOK
  <2>2. request = [NoRequest EXCEPT !.kind = "judge", !.swap = swap, !.live = live, !.id = id]
    OBVIOUS
  <2> HIDE DEF id, request
  <2>3. request \in Request
    BY <2>1, <2>2 DEF NoRequest, Request
  <2>4. request.kind = "judge" /\ request.id = id
    BY <2>2 DEF NoRequest
  <2> QED BY <2>1, <2>3, <2>4
<1>2. /\ pc[s] = "idle" /\ pc' = [pc EXCEPT ![s] = "read_attempts"]
      /\ req' = [req EXCEPT ![s] = request]
      /\ view[s] = Unread /\ UNCHANGED <<alone, runs, data, calls, failed, view>>
      /\ made' \in Nat
  BY DEF IInv, TypeOK, JobOK
<1>3. Settled
  BY DEF IInv, StatusOK
<1> HIDE DEF id, request
<1>4. /\ view'[s] = Unread /\ req'[s] = request /\ pc'[s] = "read_attempts"
      /\ \A t \in Sessions : t # s => Untouched(t)
  BY <1>2 DEF Untouched, IInv, TypeOK
<1>5. TypeOK'
  <2>1. req' \in [Sessions -> Request] /\ pc' \in [Sessions -> Labels]
    BY <1>1, <1>2 DEF IInv, TypeOK, Labels
  <2> QED BY <2>1, <1>2 DEF IInv, TypeOK, Labels, Existing
<1>6. HeldOK(s)' /\ JobOK(s)'
  <2>1. Settled'
    BY <1>2, <1>3 DEF Settled, Existing, AfterSkip, SameRun, Rows
  <2>2. HeldOK(s)'
    BY <1>4 DEF HeldOK, Held, Unread
  <2>3. JobOK(s)'
    BY <2>1, <1>1, <1>4 DEF JobOK, Judging
  <2> QED BY <2>2, <2>3
<1>7. \A t \in Sessions : HeldOK(t)' /\ JobOK(t)'
  BY <1>2, <1>4, <1>6, UntouchedKeeps
<1>8. ASSUME NEW t \in Sessions PROVE JudgeOK(t)'
  <2>1. \A u \in Sessions : pc'[u] = "judge" => pc[u] = "judge"
    BY <1>4 DEF Untouched
  <2>2. CASE t = s
    BY <2>2, <1>4 DEF JudgeOK, Unread
  <2>3. CASE t # s
    BY <2>1, <2>3, <1>2, <1>4, JudgeUntouched
  <2> QED BY <2>2, <2>3
<1>9. AloneOK'
  <2>1. ~IsScoring(s)'
    BY <1>1, <1>4 DEF IsScoring
  <2>2. \A t \in Sessions : view'[t].fresh = view[t].fresh
    BY <1>2
  <2>3. view'[s].fresh = {}
    BY <1>4 DEF Unread
  <2> QED BY <2>1, <2>2, <2>3, <1>2, <1>4 DEF IInv, AloneOK, IsScoring, Untouched
<1>10. CallsOK'
  <2>1. \A t \in Sessions : pc[t] = "judge" => t # s
    BY <1>2
  <2> QED BY <2>1, <1>2, <1>4 DEF IInv, CallsOK, Untouched
<1> QED BY <1>2, <1>5, <1>7, <1>8, <1>9, <1>10, StoredKeeps DEF IInv

\* The judge compares what reviewers compare, once rows are settled.
LEMMA JudgePairsAreReviewed ==
  ASSUME TypeOK, NEW swap \in BOOLEAN
  PROVE  Reviewed(JudgePairs \X Positions(swap))
<1> DEFINE judged == {c[1] : c \in JudgePairs \X Positions(swap)}
<1>1. Rows \subseteq Nat /\ done \subseteq Rows
  BY ExistingAreRows
<1>2. judged = JudgePairs
  <2>1. \A c \in JudgePairs \X Positions(swap) : c[1] \in JudgePairs
    OBVIOUS
  <2>2. ASSUME NEW p \in JudgePairs PROVE p \in judged
    <3>1. <<p, 0>> \in JudgePairs \X Positions(swap) /\ <<p, 0>>[1] = p
      BY DEF Positions
    <3> QED BY <3>1
  <2> QED BY <2>1, <2>2
<1>3. ASSUME NEW i \in JudgedRows, NEW j \in JudgedRows, i < j PROVE ~SameRun(i, j)
  <2> SUFFICES ASSUME SameRun(i, j) PROVE FALSE
    OBVIOUS
  <2>1. i \in done /\ j \in done /\ Succeeded(i) /\ Succeeded(j) /\ SameRun(j, i)
    BY DEF JudgedRows, SameRun
  <2>2. ~Supersedes(i, j) /\ ~Supersedes(j, i)
    BY <2>1 DEF JudgedRows
  <2>3. ledger[i].attempt_number \in Nat /\ ledger[j].attempt_number \in Nat
    BY <2>1, <1>1, RowsAreNumbers DEF TypeOK
  <2> QED BY <2>2, <2>3, <1>3 DEF Supersedes
<1>4. ASSUME NEW p \in JudgePairs PROVE p \in ReviewPairs
  <2>1. /\ p \in JudgedRows \X JudgedRows /\ p[1] < p[2]
        /\ ledger[p[1]].warmer = ledger[p[2]].warmer /\ SameReplicate(p[1], p[2])
    BY DEF JudgePairs
  <2>2. /\ p[1] \in JudgedRows /\ p[2] \in JudgedRows
        /\ Succeeded(p[1]) /\ Succeeded(p[2]) /\ p \in done \X done
    BY <2>1 DEF JudgedRows
  <2> QED BY <2>1, <2>2, <1>3 DEF ReviewPairs
<1>5. ASSUME \A i \in Rows : ledger[i].replicate_index = 0, NEW p \in ReviewPairs
      PROVE  p \in JudgePairs
  <2>1. /\ p \in done \X done /\ p[1] \in done /\ p[2] \in done
        /\ p[1] < p[2] /\ Succeeded(p[1]) /\ Succeeded(p[2])
        /\ ledger[p[1]].warmer = ledger[p[2]].warmer /\ SameReplicate(p[1], p[2])
    BY DEF ReviewPairs
  <2>2. ASSUME NEW i \in done, Succeeded(i) PROVE i \in JudgedRows
    <3>1. ASSUME NEW j \in done, Succeeded(j), SameRun(i, j) PROVE j = i
      BY <3>1, <2>2, <1>1, <1>5, OneSucceeds DEF SameReplicate
    <3>2. ~Supersedes(i, i)
      BY <1>1, RowsAreNumbers DEF Supersedes, TypeOK
    <3> QED BY <3>1, <3>2, <2>2 DEF JudgedRows
  <2>3. p \in JudgedRows \X JudgedRows
    BY <2>1, <2>2
  <2> QED BY <2>1, <2>3 DEF JudgePairs
<1> HIDE DEF judged
<1>6. (\A i \in Rows : ledger[i].replicate_index = 0) => \A p \in ReviewPairs : p \in judged
  BY <1>2, <1>5
<1>7. judged \subseteq ReviewPairs
  BY <1>2, <1>4
<1> USE DEF judged
<1> QED BY <1>6, <1>7 DEF Reviewed

LEMMA ReadAttemptsKeeps ==
  ASSUME IInv, NEW s \in Sessions, ReadAttempts(s)
  PROVE  IInv'
<1> DEFINE asked == JudgePairs \X Positions(req[s].swap)
<1>1. /\ pc[s] = "read_attempts" /\ pc' = [pc EXCEPT ![s] = "insert_execution"]
      /\ view' = [view EXCEPT ![s].asked = asked, ![s].comparisons = asked]
      /\ UNCHANGED <<alone, runs, data, calls, failed, made, req>>
  BY DEF ReadAttempts, Goto
<1>2. asked \subseteq Comparison
  <2>1. JudgePairs \subseteq Nat \X Nat
    BY ExistingAreRows DEF IInv, JudgePairs, JudgedRows
  <2> QED BY <2>1 DEF Comparison, Positions
<1>3. Reviewed(asked)
  BY JudgePairsAreReviewed DEF IInv, TypeOK, Request
<1> HIDE DEF asked
<1>4. view[s] \in View /\ view \in [Sessions -> View]
  BY DEF IInv, TypeOK
<1>5. /\ view'[s].asked = asked /\ view'[s].comparisons = asked
      /\ view'[s].decided = view[s].decided
      /\ view'[s].todo = view[s].todo /\ view'[s].fresh = view[s].fresh
      /\ pc'[s] = "insert_execution" /\ req'[s] = req[s]
      /\ \A t \in Sessions : t # s => Untouched(t)
  BY <1>1, <1>4 DEF View, Untouched, IInv, TypeOK
<1>6. TypeOK'
  <2>1. view' \in [Sessions -> View]
    BY <1>1, <1>2, <1>4 DEF View
  <2> QED BY <2>1, <1>1 DEF IInv, TypeOK, runs, data, Existing
<1>7. HeldOK(s)' /\ JobOK(s)'
  <2>1. Held(s) = {} /\ Held(s)' = {}
    BY <1>1, <1>5 DEF IInv, HeldOK, Held
  <2>2. Settled'
    BY <1>1 DEF runs, IInv, JobOK, Judging, Settled, Existing, AfterSkip, SameRun, Rows
  <2> QED BY <2>1, <2>2, <1>1, <1>5 DEF IInv, HeldOK, JobOK, Judging
<1>8. \A t \in Sessions : HeldOK(t)' /\ JobOK(t)'
  BY <1>1, <1>5, <1>7, UntouchedKeeps
<1>9. ASSUME NEW t \in Sessions PROVE JudgeOK(t)'
  <2>1. \A u \in Sessions : pc'[u] = "judge" => pc[u] = "judge"
    BY <1>5 DEF Untouched
  <2>2. CASE t = s
    <3>1. Reviewed(view[s].asked)'
      <4>1. PICK a : a = asked
        OBVIOUS
      <4>2. Reviewed(a)'
        BY <4>1, <1>1, <1>3, ReviewedKeeps DEF runs, IInv
      <4> QED BY <4>1, <4>2, <1>5 DEF Reviewed
    <3> QED BY <2>2, <3>1, <1>1, <1>5 DEF IInv, JudgeOK
  <2>3. CASE t # s
    BY <2>1, <2>3, <1>1, <1>5, JudgeUntouched DEF data
  <2> QED BY <2>2, <2>3
<1>10. AloneOK'
  <2>1. \A t \in Sessions : view'[t].fresh = view[t].fresh
    BY <1>5 DEF Untouched
  <2> QED BY <2>1, <1>1 DEF IInv, AloneOK, IsScoring, data
<1>11. CallsOK'
  <2>1. \A t \in Sessions : pc[t] = "judge" => t # s
    BY <1>1
  <2> QED BY <2>1, <1>1, <1>5 DEF IInv, CallsOK, Untouched, data
<1> QED BY <1>1, <1>6, <1>8, <1>9, <1>10, <1>11, StoredKeeps DEF IInv

LEMMA InsertExecutionKeeps ==
  ASSUME IInv, NEW s \in Sessions, InsertExecution(s)
  PROVE  IInv'
<1> USE DEF InsertExecution, Goto, data, runs
<1>1. CASE execution # NoExecution
  BY <1>1, AbandonKeeps DEF IInv, TypeOK
<1>2. CASE execution = NoExecution
  <2>1. /\ pc' = [pc EXCEPT ![s] = "judge"] /\ pc[s] = "insert_execution"
        /\ UNCHANGED <<alone, runs, data, calls, failed, made, req, view>>
        /\ \A t \in Sessions : pc[t] # "judge"
    BY <1>2
  <2>2. /\ pc'[s] = "judge" /\ \A t \in Sessions : t # s => pc'[t] = pc[t]
        /\ \A t \in Sessions : t # s => Untouched(t)
    BY <2>1 DEF IInv, TypeOK, Untouched
  <2>3. TypeOK'
    BY <2>1 DEF IInv, TypeOK, Existing
  <2>4. HeldOK(s)' /\ JobOK(s)'
    BY <2>1, <2>2 DEF IInv, HeldOK, Held, FromFinal, Succeeded, SameReplicate, JobOK,
                      Judging, IsScoring, Settled, Existing, AfterSkip, SameRun, Rows
  <2>5. \A t \in Sessions : HeldOK(t)' /\ JobOK(t)'
    BY <2>1, <2>2, <2>4, UntouchedKeeps
  <2>6. ASSUME NEW t \in Sessions PROVE Reviewed(view[t].asked) => Reviewed(view[t].asked)'
    BY <2>1 DEF Reviewed, ReviewPairs, AfterSkip, Succeeded, SameRun,
                          SameReplicate, Rows
  <2>7. \A t \in Sessions : JudgeOK(t)'
    BY <1>2, <2>1, <2>2, <2>6 DEF IInv, JudgeOK
  <2>8. AloneOK' /\ CallsOK'
    BY <2>1 DEF IInv, AloneOK, IsScoring, CallsOK
  <2> QED BY <2>1, <2>3, <2>5, <2>7, <2>8, StoredKeeps DEF IInv
<1> QED BY <1>1, <1>2

LEMMA JudgeKeeps ==
  ASSUME IInv, NEW s \in Sessions, Judge(s)
  PROVE  IInv'
<1> USE DEF data, runs
<1>1. PICK c \in NextComparison(s) :
        /\ Asks(s, c)
        /\ view' = [view EXCEPT ![s].comparisons = @ \ {c}, ![s].decided = @ \cup {c}]
  BY DEF Judge
<1>2. /\ pc[s] = "judge" /\ c \in view[s].comparisons
      /\ UNCHANGED <<alone, runs, data, failed, made, pc, req>>
  BY <1>1 DEF Judge, NextComparison
<1>3. view[s] \in View /\ view \in [Sessions -> View] /\ c \in Comparison
  BY <1>2 DEF IInv, TypeOK, View
<1>4. /\ view'[s].comparisons = view[s].comparisons \ {c}
      /\ view'[s].decided = view[s].decided \cup {c}
      /\ view'[s].asked = view[s].asked
      /\ view'[s].todo = view[s].todo /\ view'[s].fresh = view[s].fresh
  BY <1>1, <1>3 DEF View
<1>5. \A t \in Sessions : t # s => Untouched(t)
  BY <1>1, <1>2, <1>3 DEF Untouched
<1>6. TypeOK'
  <2>1. view' \in [Sessions -> View]
    BY <1>1, <1>3 DEF View
  <2>2. calls' \subseteq [comparison : Comparison, by : Nat]
    BY <1>1, <1>3 DEF Asks, IInv, TypeOK, Request
  <2> QED BY <2>1, <2>2, <1>2 DEF IInv, TypeOK, Existing
<1>7. HeldOK(s)' /\ JobOK(s)'
  <2>1. Held(s)' = Held(s)
    BY <1>4 DEF Held
  <2> QED BY <2>1, <1>2 DEF IInv, HeldOK, FromFinal, Succeeded, SameReplicate, JobOK,
                            Judging, IsScoring, Settled, Existing, AfterSkip, SameRun, Rows
<1>8. \A t \in Sessions : HeldOK(t)' /\ JobOK(t)'
  BY <1>2, <1>5, <1>7, UntouchedKeeps
<1>9. ASSUME NEW t \in Sessions PROVE JudgeOK(t)'
  <2>1. CASE t = s
    <3>1. Reviewed(view[s].asked) => Reviewed(view[s].asked)'
      BY <1>2, <1>4 DEF Reviewed, ReviewPairs, AfterSkip, Succeeded, SameRun,
                            SameReplicate, Rows
    <3>2. view'[s].comparisons \cup view'[s].decided = view[s].comparisons \cup view[s].decided
      BY <1>2, <1>4
    <3> QED BY <2>1, <3>1, <3>2, <1>2, <1>4 DEF IInv, JudgeOK
  <2>2. CASE t # s
    BY <2>2, <1>2, <1>5, JudgeUntouched
  <2> QED BY <2>1, <2>2
<1>10. AloneOK'
  <2>1. \A t \in Sessions : view'[t].fresh = view[t].fresh
    BY <1>4, <1>5 DEF Untouched
  <2> QED BY <2>1, <1>2 DEF IInv, AloneOK, IsScoring
<1>11. CallsOK'
  <2>1. \A x \in calls' : x \in calls \/ x.by = req[s].id
    BY <1>1 DEF Asks
  <2> QED BY <2>1, <1>2 DEF IInv, CallsOK
<1> QED BY <1>2, <1>6, <1>8, <1>9, <1>10, <1>11, StoredKeeps DEF IInv

LEMMA CommitJudgeKeeps ==
  ASSUME IInv, NEW s \in Sessions, CommitJudge(s)
  PROVE  IInv'
<1> USE DEF CommitJudge
<1> DEFINE asked == view[s].asked
<1>1. /\ EndRequest(s) /\ UNCHANGED <<alone, runs, scores, calls, failed, made>>
      /\ pc[s] = "judge" /\ execution = NoExecution
      /\ view[s].decided = asked /\ req[s].id > 0 /\ Settled /\ Reviewed(asked)
      /\ execution' = [by |-> req[s].id, comparisons |-> asked]
      /\ \A t \in Sessions : pc[t] = "judge" => t = s
  BY DEF IInv, JudgeOK, JobOK, Judging
<1>2. asked \subseteq Comparison /\ req[s].id \in Nat
  BY <1>1 DEF IInv, TypeOK, View, Request
<1>3. verdicts = {}
  BY <1>1 DEF IInv, JudgementIsWhole, NoExecution
<1> HIDE DEF asked
<1>4. verdicts' = UNION {{[comparison |-> c, row |-> i, by |-> req[s].id] : i \in Compared(c)} :
                           c \in asked}
  BY <1>1, <1>3
<1>5. TypeOK'
  <2>1. \A c \in asked : Compared(c) \subseteq Nat
    BY <1>2 DEF Compared, Comparison
  <2>2. verdicts' \subseteq [comparison : Comparison, row : Nat, by : Nat]
    BY <2>1, <1>2, <1>4
  <2>3. execution' \in [by : Nat, comparisons : SUBSET Comparison]
    BY <1>1, <1>2
  <2> QED BY <2>2, <2>3, <1>1, EndKeeps DEF runs, IInv, TypeOK, Labels, Existing
<1>6. \A t \in Sessions : HeldOK(t)' /\ JobOK(t)'
  BY <1>1, EndKeeps
<1>7. ASSUME NEW t \in Sessions PROVE JudgeOK(t)'
  <2>1. CASE t = s
    BY <2>1, <1>1, EndKeeps DEF JudgeOK
  <2>2. CASE t # s
    <3>1. Untouched(t) /\ pc[t] # "judge"
      BY <2>2, <1>1, EndKeeps
    <3>2. Reviewed(view[t].asked) => Reviewed(view[t].asked)'
      BY <3>1, <1>1 DEF Untouched, runs, Reviewed, ReviewPairs, AfterSkip, Succeeded, SameRun,
                        SameReplicate, Rows
    <3> QED BY <3>1, <3>2 DEF IInv, JudgeOK, Untouched
  <2> QED BY <2>1, <2>2
<1>8. AloneOK'
  <2>1. \A t \in Sessions : /\ IsScoring(t)' => t # s /\ IsScoring(t)
                            /\ t # s => Untouched(t)
    BY <1>1, EndKeeps DEF IsScoring, Untouched
  <2> QED BY <2>1, <1>1, EndKeeps DEF IInv, AloneOK, Untouched
<1>9. ScoredOnceIfAlone' /\ ScoresOK' /\ StatusOK' /\ InOrder'
  BY <1>1 DEF runs, IInv, ScoredOnceIfAlone, ScoresOK, StatusOK, InOrder, Settled, Existing,
              FromFinal,
              AfterSkip, SameRun, Rows, SameReplicate, Succeeded
<1>10. ExecutionOK'
  <2>1. Settled'
    BY <1>1 DEF runs, Settled, Existing, AfterSkip, SameRun, Rows
  <2>2. PICK a : a = asked
    OBVIOUS
  <2>3. Reviewed(a)'
    BY <2>2, <1>1, ReviewedKeeps DEF runs, IInv
  <2>4. execution'.comparisons = a
    BY <2>2, <1>1
  <2> QED BY <2>1, <2>3, <2>4 DEF ExecutionOK, Reviewed
<1>11. JudgementIsWhole'
  <2>1. \A v \in verdicts' : /\ v.by = execution'.by /\ v.comparison \in execution'.comparisons
                              /\ v.row \in Compared(v.comparison)
    BY <1>1, <1>4
  <2>2. \A c \in execution'.comparisons : \A i \in Compared(c) :
          \E v \in verdicts' : v.comparison = c /\ v.row = i
    <3> SUFFICES ASSUME NEW c \in asked, NEW i \in Compared(c)
                 PROVE  \E v \in verdicts' : v.comparison = c /\ v.row = i
      BY <1>1
    <3>1. [comparison |-> c, row |-> i, by |-> req[s].id] \in verdicts'
      BY <1>4
    <3> QED BY <3>1
  <2> QED BY <2>1, <2>2 DEF JudgementIsWhole, Compared
<1>12. CallsOK'
  <2>1. execution' # NoExecution /\ execution'.by = req[s].id
    BY <1>1 DEF NoExecution
  <2> QED BY <2>1, <1>1 DEF IInv, CallsOK
<1> QED BY <1>5, <1>6, <1>7, <1>8, <1>9, <1>10, <1>11, <1>12 DEF IInv

\* Whatever is asked, the invariant is kept.
LEMMA AskKeeps ==
  ASSUME IInv, NEW s \in Sessions, Ask(s)
  PROVE  IInv'
<1>1. made + 1 \in Nat
  BY DEF IInv, TypeOK
<1>2. CASE AskJob(s)
  <2> DEFINE id == made + 1
             request == [NoRequest EXCEPT !.kind = "job", !.keys = Evaluators, !.id = id]
  <2>1. id \in Nat
    BY <1>1
  <2>2. request = [NoRequest EXCEPT !.kind = "job", !.keys = Evaluators, !.id = id]
    OBVIOUS
  <2>3. /\ MayScore /\ Settled /\ Begin(s, request) /\ Goto(s, "score")
        /\ view' = [view EXCEPT ![s].todo = CodeScores(done, Evaluators)]
    BY <1>2 DEF AskJob, IInv, StatusOK
  <2> HIDE DEF id, request
  <2>4. request \in Request
    BY <2>1, <2>2 DEF NoRequest, Request
  <2>5. request.kind = "job"
    BY <2>2 DEF NoRequest
  <2> QED BY <2>3, <2>4, <2>5, AskScoringKeeps
<1>3. ASSUME NEW e \in Evaluators, AskCli(s, e) PROVE IInv'
  <2> DEFINE id == made + 1
             request == [NoRequest EXCEPT !.kind = "cli", !.keys = {e}, !.id = id]
  <2>1. id \in Nat
    BY <1>1
  <2>2. request = [NoRequest EXCEPT !.kind = "cli", !.keys = {e}, !.id = id]
    OBVIOUS
  <2>3. /\ MayScore /\ Begin(s, request) /\ Goto(s, "score")
        /\ view' = [view EXCEPT ![s].todo = CodeScores(done, {e})]
    BY <1>3 DEF AskCli
  <2> HIDE DEF id, request
  <2>4. request \in Request
    BY <2>1, <2>2 DEF NoRequest, Request
  <2>5. request.kind = "cli" /\ {e} \subseteq Evaluators \cup Configs
    BY <2>2 DEF NoRequest
  <2> QED BY <2>3, <2>4, <2>5, AskScoringKeeps
<1>4. ASSUME NEW configs \in SUBSET Configs, NEW force \in BOOLEAN,
             AskAdapters(s, configs, force)
      PROVE  IInv'
  <2> DEFINE id == made + 1
             request == [NoRequest EXCEPT !.kind = "adapter", !.keys = configs,
                                          !.force = force, !.id = id]
  <2>1. id \in Nat
    BY <1>1
  <2>2. request = [NoRequest EXCEPT !.kind = "adapter", !.keys = configs,
                                    !.force = force, !.id = id]
    OBVIOUS
  <2>3. /\ MayScore /\ Begin(s, request) /\ Goto(s, "score")
        /\ view' = [view EXCEPT ![s].todo = CodeScores(done, configs)]
    BY <1>4 DEF AskAdapters
  <2> HIDE DEF id, request
  <2>4. request \in Request
    BY <2>1, <2>2 DEF NoRequest, Request
  <2>5. request.kind = "adapter" /\ configs \subseteq Evaluators \cup Configs
    BY <2>2 DEF NoRequest
  <2> QED BY <2>3, <2>4, <2>5, AskScoringKeeps
<1> QED BY <1>2, <1>3, <1>4, AskJudgeKeeps DEF Ask

\* A step that changes nothing keeps the invariant.
LEMMA StutterKeeps == IInv /\ UNCHANGED vars => IInv'
<1> SUFFICES ASSUME IInv, UNCHANGED vars PROVE IInv'
  OBVIOUS
<1> USE DEF vars, data, runs
<1>1. TypeOK'
  BY DEF IInv, TypeOK, Existing
<1>2. \A t \in Sessions : HeldOK(t)' /\ JobOK(t)' /\ JudgeOK(t)'
  BY UntouchedKeeps, JudgeUntouched DEF Untouched
<1>3. AloneOK' /\ CallsOK'
  BY DEF IInv, AloneOK, IsScoring, CallsOK
<1> QED BY <1>1, <1>2, <1>3, StoredKeeps DEF IInv

\* The judge's requests fail with nothing kept but the call.
LEMMA FailureKeeps ==
  ASSUME IInv, NEW s \in Sessions, JudgeFails(s) \/ Fail(s)
  PROVE  IInv'
<1>1. req[s].id \in Nat /\ failed \in SUBSET Nat
  BY DEF IInv, TypeOK, Request
<1>2. CASE JudgeFails(s)
  <2>1. PICK c \in NextComparison(s) : Asks(s, c)
    BY <1>2 DEF JudgeFails
  <2>2. c \in view[s].comparisons
    BY <2>1 DEF NextComparison
  <2>3. /\ EndRequest(s) /\ UNCHANGED <<alone, runs, data, made>>
        /\ failed' = failed \cup {req[s].id}
        /\ calls' = calls \cup {[comparison |-> c, by |-> req[s].id]}
    BY <1>2, <2>1 DEF JudgeFails, Asks
  <2>4. failed' \in SUBSET Nat /\ failed \subseteq failed' /\ req[s].id \in failed'
    BY <1>1, <2>3
  <2> QED BY <2>2, <2>3, <2>4, AbandonKeeps
<1>3. CASE Fail(s)
  <2>1. /\ EndRequest(s) /\ UNCHANGED <<alone, runs, data, calls, made>>
        /\ failed' = IF req[s].kind = "judge" THEN failed \cup {req[s].id} ELSE failed
    BY <1>3 DEF Fail
  <2>2. failed' \in SUBSET Nat /\ failed \subseteq failed'
    BY <1>1, <2>1
  <2>3. pc[s] = "judge" => req[s].id \in failed'
    BY <2>1 DEF IInv, JobOK, Judging
  <2> QED BY <2>1, <2>2, <2>3, AbandonKeeps
<1> QED BY <1>2, <1>3

\* The inductive invariant holds in every state of the specification.
THEOREM Invariant == Spec => []IInv
<1>1. Init => IInv
  BY InitInv
<1>2. IInv /\ [Next]_vars => IInv'
  <2> SUFFICES ASSUME IInv, [Next]_vars PROVE IInv'
    OBVIOUS
  <2>1. CASE Execute
    BY <2>1, ExecuteKeeps
  <2>7. CASE Retry
    BY <2>7, RetryKeeps
  <2>2. ASSUME NEW s \in Sessions, Ask(s) PROVE IInv'
    BY <2>2, AskKeeps
  <2>3. ASSUME NEW s \in Sessions, Score(s) PROVE IInv'
    BY <2>3, LookUpKeeps, ReadDivergencesKeeps, CommitScoresKeeps DEF Score
  <2>4. ASSUME NEW s \in Sessions, RunJudge(s) PROVE IInv'
    BY <2>4, ReadAttemptsKeeps, InsertExecutionKeeps, JudgeKeeps, FailureKeeps,
         CommitJudgeKeeps DEF RunJudge
  <2>5. ASSUME NEW s \in Sessions, Fail(s) PROVE IInv'
    BY <2>5, FailureKeeps
  <2>6. CASE UNCHANGED vars
    BY <2>6, StutterKeeps
  <2> QED BY <2>1, <2>2, <2>3, <2>4, <2>5, <2>6, <2>7 DEF Next
<1> QED BY <1>1, <1>2, PTL DEF Spec
-----------------------------------------------------------------------------
\* Every variable keeps its type, whatever requests and executions do.
THEOREM TypeCorrect == Spec => []TypeOK
<1>1. IInv => TypeOK
  BY DEF IInv
<1> QED BY <1>1, Invariant, PTL

\* One request at a time, no evaluator or adapter stores a score twice.
THEOREM ScoredOnce == Spec => []ScoredOnceIfAlone
<1>1. IInv => ScoredOnceIfAlone
  BY DEF IInv
<1> QED BY <1>1, Invariant, PTL

\* A stored divergence is from the answer its baseline replicate ended with,
\* unless the cost cap skipped the run first.
THEOREM DivergedFromFinal == Spec => []DivergedFromFinalBaseline
<1>1. IInv => DivergedFromFinalBaseline
  BY DEF IInv, ScoresOK, FromFinal, DivergedFromFinalBaseline
<1> QED BY <1>1, Invariant, PTL

\* The judge's scores are those of one execution, and all of it.
THEOREM JudgementWhole == Spec => []JudgementIsWhole
<1>1. IInv => JudgementIsWhole
  BY DEF IInv
<1> QED BY <1>1, Invariant, PTL

\* No two requests that did not fail have asked for the same comparison.
THEOREM PaidOnce == Spec => []CallsPaidOnce
<1>1. ASSUME IInv PROVE CallsPaidOnce
  <2> SUFFICES ASSUME NEW x \in calls, NEW y \in calls, x.comparison = y.comparison,
                      x.by \notin failed, y.by \notin failed
               PROVE  x = y
    BY DEF CallsPaidOnce
  <2>1. x \in [comparison : Comparison, by : Nat] /\ y \in [comparison : Comparison, by : Nat]
    BY <1>1 DEF IInv, TypeOK
  <2>2. x.by = y.by
    <3>1. CASE execution # NoExecution
      <4>1. \A s \in Sessions : pc[s] # "judge"
        BY <1>1, <3>1 DEF IInv, JudgeOK
      <4> QED BY <1>1, <3>1, <4>1 DEF IInv, CallsOK
    <3>2. CASE execution = NoExecution
      <4>1. PICK s \in Sessions : pc[s] = "judge" /\ x.by = req[s].id
        BY <1>1, <3>2 DEF IInv, CallsOK
      <4>2. PICK t \in Sessions : pc[t] = "judge" /\ y.by = req[t].id
        BY <1>1, <3>2 DEF IInv, CallsOK
      <4>3. s = t
        BY <1>1, <4>1, <4>2 DEF IInv, JudgeOK
      <4> QED BY <4>1, <4>2, <4>3
    <3> QED BY <3>1, <3>2
  <2> QED BY <2>1, <2>2
<1> QED BY <1>1, Invariant, PTL

\* The judge on record compared what reviewers compare: nothing else, and without
\* replicates all of it but answers of runs that were skipped first.
THEOREM JudgedLikeReviews == Spec => []JudgedAsReviewed
<1>1. IInv => JudgedAsReviewed
  BY DEF IInv, ExecutionOK, JudgedAsReviewed
<1> QED BY <1>1, Invariant, PTL
=============================================================================
