------------------------- MODULE AttemptRowsProofs -------------------------
(***************************************************************************)
(* Lemmas about the row operators of AttemptRows, for the proofs about     *)
(* Executor.  Sound says what the rows of one run look like at every step  *)
(* of the program; Rewrites and Grows say how they may change.             *)
(***************************************************************************)
EXTENDS AttemptRows, TLAPS, WellFoundedInduction

Rows == Seq(RunAttempt)

SameIdentity(a, b) ==
  /\ a.attempt_kind = b.attempt_kind /\ a.replicate_index = b.replicate_index
  /\ a.attempt_number = b.attempt_number /\ a.parent = b.parent

\* What one row says of its provider calls.
Accounts(row) ==
  /\ row.calls <= 1
  /\ row.calls = 1 => row.status \in {"running", "succeeded", "failed"}
  /\ row.status = "succeeded" => (row.cache_hit <=> row.calls = 0)
  /\ row.error_kind = "blocked_by_config" => row.calls = 0
  /\ row.cost > 0 => row.calls = 1
  /\ row.status \in Open => row.error_kind = "none" /\ row.cost = 0 /\ ~row.cache_hit

\* What row i says of the row it was retried from.
ChainAt(s, i) ==
  IF s[i].attempt_kind = "replicate"
  THEN s[i].parent = 0 /\ s[i].attempt_number = 1
  ELSE /\ s[i].parent \in 1 .. i - 1
       /\ s[s[i].parent].status = "failed"
       /\ s[i].attempt_number = s[s[i].parent].attempt_number + 1
       /\ s[i].replicate_index = s[s[i].parent].replicate_index

\* A failed row without a terminal reason has been retried.
ExplainedAt(s, i) ==
  s[i].status = "failed" /\ s[i].reason = "none"
    => \E j \in 1 .. Len(s) : s[j].parent = i

Sound(s) ==
  /\ s \in Rows /\ Len(s) > 0
  /\ \A i \in 1 .. Len(s) : Accounts(s[i]) /\ ChainAt(s, i)
  /\ \A i, j \in 1 .. Len(s) : s[i].parent = s[j].parent /\ s[i].parent # 0 => i = j

Explained(s) == \A i \in 1 .. Len(s) : ExplainedAt(s, i)

\* t rewrites rows of s in place, the terminal ones excepted.
Rewrites(s, t) ==
  /\ t \in Rows /\ Len(t) = Len(s)
  /\ \A i \in 1 .. Len(s) : /\ SameIdentity(t[i], s[i])
                            /\ s[i].status \in Terminal => t[i] = s[i]
                            /\ t[i].calls >= s[i].calls
                            /\ Accounts(t[i])

\* t rewrites rows of s in place and may have further retry rows.
Grows(s, t) ==
  /\ Len(s) <= Len(t)
  /\ \A i \in 1 .. Len(s) : /\ SameIdentity(t[i], s[i])
                            /\ s[i].status \in Terminal => t[i] = s[i]
                            /\ t[i].calls >= s[i].calls
  /\ \A i \in Len(s) + 1 .. Len(t) : t[i].attempt_kind = "retry"
-----------------------------------------------------------------------------
\* A row of the sequence is a row.
LEMMA RowType ==
  ASSUME NEW s \in Rows, NEW i \in 1 .. Len(s)
  PROVE  /\ s[i] \in RunAttempt /\ DOMAIN s = 1 .. Len(s) /\ Len(s) \in Nat
         /\ s[i].calls \in Nat /\ s[i].parent \in Nat /\ s[i].attempt_number \in Nat
         /\ s[i].replicate_index \in Nat /\ s[i].cost \in Nat
<1>1. s[i] \in RunAttempt /\ DOMAIN s = 1 .. Len(s) /\ Len(s) \in Nat BY DEF Rows
<1>2. /\ s[i].calls \in Nat /\ s[i].parent \in Nat /\ s[i].attempt_number \in Nat
      /\ s[i].replicate_index \in Nat /\ s[i].cost \in Costs \cup {0}
  BY <1>1, Zenon DEF RunAttempt
<1>3. Costs \cup {0} \subseteq Nat BY CostsAssumption
<1>4. s[i].cost \in Nat BY <1>2, <1>3, Zenon
<1>. QED BY <1>1, <1>2, <1>4

\* Changing one row of the sequence changes that row only.
LEMMA ExceptRow ==
  ASSUME NEW s \in Rows, NEW i \in 1 .. Len(s), NEW row \in RunAttempt
  PROVE  LET t == [s EXCEPT ![i] = row]
         IN  /\ t \in Rows /\ Len(t) = Len(s)
             /\ \A j \in 1 .. Len(s) : t[j] = IF j = i THEN row ELSE s[j]
BY DEF Rows

\* The row of a new replicate, and of a retry, is a row.
LEMMA NewRowType ==
  ASSUME NEW s \in Rows, NEW i \in 1 .. Len(s), NEW b \in BOOLEAN, NEW k \in Nat
  PROVE  ReplicateRow(k) \in RunAttempt /\ RetryRow(s, i, b) \in RunAttempt
<1>1. /\ i \in Nat /\ s[i].attempt_number + 1 \in Nat /\ s[i].replicate_index \in Nat
  BY RowType
<1>2. ASSUME NEW n \in Nat PROVE ReplicateRow(n) \in RunAttempt
  BY DEF ReplicateRow, RunAttempt, AttemptStatus, ErrorKind, FailureReason
<1>3. ASSUME NEW row \in RunAttempt, NEW n \in Nat, NEW p \in Nat
      PROVE  [row EXCEPT !.attempt_kind = "retry", !.attempt_number = n,
                         !.parent = p, !.due = b] \in RunAttempt
  BY DEF RunAttempt
<1>4. ReplicateRow(s[i].replicate_index) \in RunAttempt BY <1>1, <1>2
<1>5. RetryRow(s, i, b) \in RunAttempt BY <1>1, <1>3, <1>4 DEF RetryRow
<1>. QED BY <1>2, <1>5

\* If a row can be selected, the selected row is one of those.
LEMMA NextQueuedSelects ==
  ASSUME NEW s \in Rows, NextQueued(s) # 0
  PROVE  /\ NextQueued(s) \in 1 .. Len(s)
         /\ s[NextQueued(s)].status = "queued"
<1>1. Eligible(s) # {} BY DEF NextQueued
<1>2. Eligible(s) \subseteq Nat BY DEF Eligible, Rows
<1>3. PICK i \in Eligible(s) : \A j \in Eligible(s) : ~ (<<j, i>> \in OpToRel(<, Nat))
  BY <1>1, <1>2, WFMin, NatLessThanWellFounded
<1>4. ASSUME NEW j \in Eligible(s) PROVE i <= j
  <2>1. i \in Nat /\ j \in Nat BY <1>2
  <2>2. j < i => <<j, i>> \in OpToRel(<, Nat) BY <2>1 DEF OpToRel
  <2>3. ~(<<j, i>> \in OpToRel(<, Nat)) BY <1>3
  <2>4. ~(j < i) BY <2>2, <2>3
  <2>. QED BY <2>1, <2>4
<1>5. NextQueued(s) \in Eligible(s) BY <1>1, <1>4 DEF NextQueued
<1>. QED BY <1>5 DEF Eligible, Rows
-----------------------------------------------------------------------------
\* A rewrite keeps the chains of retries: the rows they name have failed, so
\* they are not rewritten.
LEMMA RewriteKeepsSound ==
  ASSUME NEW s, NEW t, Sound(s), Rewrites(s, t)
  PROVE  Sound(t)
<1>1. s \in Rows /\ t \in Rows /\ Len(t) = Len(s) /\ Len(s) \in Nat
  BY DEF Sound, Rewrites, Rows
<1>2. ASSUME NEW i \in 1 .. Len(s) PROVE ChainAt(t, i)
  <2>1. ChainAt(s, i) /\ SameIdentity(t[i], s[i]) BY DEF Sound, Rewrites
  <2>2. CASE s[i].attempt_kind = "replicate" BY <2>1, <2>2 DEF ChainAt, SameIdentity
  <2>3. CASE s[i].attempt_kind # "replicate"
    <3>. DEFINE p == s[i].parent
    <3>1. p \in 1 .. i - 1 /\ s[p].status = "failed" BY <2>1, <2>3 DEF ChainAt
    <3>2. p \in 1 .. Len(s) BY <1>1, <3>1
    <3>3. t[p] = s[p] BY <3>1, <3>2 DEF Rewrites, Terminal
    <3>. QED BY <2>1, <2>3, <3>1, <3>3 DEF ChainAt, SameIdentity
  <2>. QED BY <2>2, <2>3
<1>3. ASSUME NEW i \in 1 .. Len(s), NEW j \in 1 .. Len(s),
             t[i].parent = t[j].parent, t[i].parent # 0
      PROVE  i = j
  <2>1. t[i].parent = s[i].parent /\ t[j].parent = s[j].parent
    BY DEF Rewrites, SameIdentity
  <2>. QED BY <1>3, <2>1 DEF Sound
<1>4. \A i \in 1 .. Len(s) : Accounts(t[i]) BY DEF Rewrites
<1>. QED BY <1>1, <1>2, <1>3, <1>4 DEF Sound

\* A rewrite that leaves no failed row without a reason keeps failures explained.
LEMMA RewriteKeepsExplained ==
  ASSUME NEW s, NEW t, Sound(s), Explained(s), Rewrites(s, t),
         \A i \in 1 .. Len(s) :
           t[i].status = "failed" /\ t[i].reason = "none" => t[i] = s[i]
  PROVE  Explained(t)
<1>1. Len(t) = Len(s) BY DEF Rewrites
<1>2. ASSUME NEW i \in 1 .. Len(s), t[i].status = "failed", t[i].reason = "none"
      PROVE  \E j \in 1 .. Len(s) : t[j].parent = i
  <2>1. t[i] = s[i] BY <1>2
  <2>2. PICK j \in 1 .. Len(s) : s[j].parent = i
    BY <1>2, <2>1 DEF Explained, ExplainedAt
  <2>3. t[j].parent = i BY <2>2 DEF Rewrites, SameIdentity
  <2>. QED BY <2>3
<1>. QED BY <1>1, <1>2 DEF Explained, ExplainedAt

\* Growth composes with a further rewrite.
LEMMA GrowsThenRewrites ==
  ASSUME NEW o \in Rows, NEW s \in Rows, NEW t, Grows(o, s), Rewrites(s, t)
  PROVE  Grows(o, t)
<1>1. /\ t \in Rows /\ Len(t) = Len(s) /\ Len(s) \in Nat /\ Len(o) \in Nat
      /\ Len(o) <= Len(s)
  BY DEF Rewrites, Grows, Rows
<1>2. ASSUME NEW i \in 1 .. Len(o)
      PROVE  /\ SameIdentity(t[i], o[i])
             /\ o[i].status \in Terminal => t[i] = o[i]
             /\ t[i].calls >= o[i].calls
  <2>1. i \in 1 .. Len(s) BY <1>1
  <2>2. SameIdentity(s[i], o[i]) /\ SameIdentity(t[i], s[i])
    BY <2>1 DEF Grows, Rewrites
  <2>3. (o[i].status \in Terminal => s[i] = o[i]) /\ (s[i].status \in Terminal => t[i] = s[i])
    BY <2>1 DEF Grows, Rewrites
  <2>4. s[i].calls >= o[i].calls /\ t[i].calls >= s[i].calls
    BY <2>1 DEF Grows, Rewrites
  <2>5. o[i].calls \in Nat /\ s[i].calls \in Nat /\ t[i].calls \in Nat
    BY <1>1, <2>1, RowType
  <2>6. t[i].calls >= o[i].calls BY <2>4, <2>5
  <2>. QED BY <2>2, <2>3, <2>6 DEF SameIdentity
<1>3. ASSUME NEW i \in Len(o) + 1 .. Len(t) PROVE t[i].attempt_kind = "retry"
  <2>1. i \in 1 .. Len(s) /\ i \in Len(o) + 1 .. Len(s) BY <1>1
  <2>. QED BY <2>1 DEF Grows, Rewrites, SameIdentity
<1>. QED BY <1>1, <1>2, <1>3 DEF Grows
-----------------------------------------------------------------------------
\* Rewriting one open row is a rewrite of the rows.
LEMMA RewriteOne ==
  ASSUME NEW s, Sound(s), NEW i \in 1 .. Len(s), s[i].status \notin Terminal,
         NEW row \in RunAttempt, SameIdentity(row, s[i]), Accounts(row),
         row.calls >= s[i].calls
  PROVE  /\ Rewrites(s, [s EXCEPT ![i] = row])
         /\ \A j \in 1 .. Len(s) :
              [s EXCEPT ![i] = row][j] = IF j = i THEN row ELSE s[j]
<1>. DEFINE t == [s EXCEPT ![i] = row]
<1>1. s \in Rows BY DEF Sound
<1>2. /\ t \in Rows /\ Len(t) = Len(s)
      /\ \A j \in 1 .. Len(s) : t[j] = IF j = i THEN row ELSE s[j]
  BY <1>1, ExceptRow
<1>3. ASSUME NEW j \in 1 .. Len(s)
      PROVE  /\ SameIdentity(t[j], s[j])
             /\ s[j].status \in Terminal => t[j] = s[j]
             /\ t[j].calls >= s[j].calls
             /\ Accounts(t[j])
  <2>1. CASE j = i BY <1>2, <2>1
  <2>2. CASE j # i
    <3>1. t[j] = s[j] BY <1>2, <2>2
    <3>2. s[j].calls \in Nat BY <1>1, RowType
    <3>3. t[j].calls >= s[j].calls BY <3>1, <3>2
    <3>4. Accounts(s[j]) BY DEF Sound
    <3>. QED BY <3>1, <3>3, <3>4 DEF SameIdentity
  <2>. QED BY <2>1, <2>2
<1>. QED BY <1>2, <1>3 DEF Rewrites

\* Canceling the rows of a run is a rewrite when none of them is running.
LEMMA CancelRewrites ==
  ASSUME NEW s, Sound(s), \A i \in 1 .. Len(s) : s[i].status # "running"
  PROVE  /\ Rewrites(s, CancelRows(s))
         /\ \A i \in 1 .. Len(s) :
              /\ CancelRows(s)[i].status \in Terminal
              /\ CancelRows(s)[i].status = "failed" => CancelRows(s)[i] = s[i]
<1>. DEFINE t == CancelRows(s)
<1>1. s \in Rows /\ DOMAIN s = 1 .. Len(s) /\ Len(s) \in Nat BY DEF Sound, Rows
<1>2. ASSUME NEW i \in 1 .. Len(s)
      PROVE  [s[i] EXCEPT !.status = "canceled"] \in RunAttempt
  <2>1. s[i] \in RunAttempt BY <1>1, RowType
  <2>. QED BY <2>1 DEF RunAttempt, AttemptStatus
<1>3. \A i \in 1 .. Len(s) :
        t[i] = IF s[i].status \in Open THEN [s[i] EXCEPT !.status = "canceled"] ELSE s[i]
  BY <1>1 DEF CancelRows
<1>4. \A i \in 1 .. Len(s) : t[i] \in RunAttempt BY <1>1, <1>2, <1>3, RowType
<1>5. t \in Rows /\ Len(t) = Len(s) BY <1>1, <1>4 DEF CancelRows, Rows
<1>6. ASSUME NEW i \in 1 .. Len(s)
      PROVE  /\ SameIdentity(t[i], s[i])
             /\ s[i].status \in Terminal => t[i] = s[i]
             /\ t[i].calls >= s[i].calls
             /\ Accounts(t[i])
             /\ t[i].status \in Terminal
             /\ t[i].status = "failed" => t[i] = s[i]
  <2>1. s[i] \in RunAttempt /\ s[i].calls \in Nat /\ Accounts(s[i])
    BY <1>1, RowType DEF Sound
  <2>2. CASE s[i].status \in Open
    <3>1. s[i].status = "queued" BY <2>2 DEF Open
    <3>2. s[i].calls = 0 BY <2>1, <3>1 DEF Accounts
    <3>3. t[i] = [s[i] EXCEPT !.status = "canceled"] BY <1>3, <2>2
    <3>4. /\ SameIdentity(t[i], s[i]) /\ t[i].status = "canceled"
          /\ t[i].calls = s[i].calls /\ t[i].cost = s[i].cost
          /\ t[i].error_kind = s[i].error_kind
      BY <2>1, <3>3 DEF RunAttempt, SameIdentity
    <3>5. Accounts(t[i]) BY <2>1, <2>2, <3>2, <3>4 DEF Accounts, Open
    <3>. QED BY <2>1, <3>1, <3>4, <3>5 DEF Terminal
  <2>3. CASE s[i].status \notin Open
    <3>1. t[i] = s[i] BY <1>3, <2>3
    <3>2. s[i].status \in Terminal BY <2>1, <2>3 DEF RunAttempt, AttemptStatus, Open, Terminal
    <3>. QED BY <2>1, <3>1, <3>2 DEF SameIdentity
  <2>. QED BY <2>2, <2>3
<1>. QED BY <1>5, <1>6 DEF Rewrites

\* Refusing the queued rows of a run is a rewrite.
LEMMA BlockRewrites ==
  ASSUME NEW s, Sound(s), NEW why \in FailureReason \ {"none"}
  PROVE  /\ Rewrites(s, BlockRows(s, why))
         /\ \A i \in 1 .. Len(s) :
              /\ BlockRows(s, why)[i].status # "queued"
              /\ BlockRows(s, why)[i].status = "running" => s[i].status = "running"
              /\ BlockRows(s, why)[i].reason = "none" => BlockRows(s, why)[i] = s[i]
<1>. DEFINE t == BlockRows(s, why)
<1>1. s \in Rows /\ DOMAIN s = 1 .. Len(s) /\ Len(s) \in Nat BY DEF Sound, Rows
<1>2. ASSUME NEW row \in RunAttempt
      PROVE  /\ Refused(row, why) \in RunAttempt /\ SameIdentity(Refused(row, why), row)
             /\ Refused(row, why).status = "failed" /\ Refused(row, why).reason = why
             /\ Refused(row, why).calls = row.calls /\ Refused(row, why).cost = row.cost
             /\ Refused(row, why).error_kind = "blocked_by_config"
  BY DEF Refused, RunAttempt, AttemptStatus, ErrorKind, SameIdentity
<1>3. \A i \in 1 .. Len(s) :
        t[i] = IF s[i].status = "queued" THEN Refused(s[i], why) ELSE s[i]
  BY <1>1 DEF BlockRows
<1>4. \A i \in 1 .. Len(s) : t[i] \in RunAttempt BY <1>1, <1>2, <1>3, RowType
<1>5. t \in Rows /\ Len(t) = Len(s) BY <1>1, <1>4 DEF BlockRows, Rows
<1>6. ASSUME NEW i \in 1 .. Len(s)
      PROVE  /\ SameIdentity(t[i], s[i])
             /\ s[i].status \in Terminal => t[i] = s[i]
             /\ t[i].calls >= s[i].calls
             /\ Accounts(t[i])
             /\ t[i].status # "queued"
             /\ t[i].status = "running" => s[i].status = "running"
             /\ t[i].reason = "none" => t[i] = s[i]
  <2>1. s[i] \in RunAttempt /\ s[i].calls \in Nat /\ Accounts(s[i])
    BY <1>1, RowType DEF Sound
  <2>2. CASE s[i].status = "queued"
    <3>1. s[i].calls = 0 /\ s[i].cost = 0 BY <2>1, <2>2 DEF Accounts, Open
    <3>2. t[i] = Refused(s[i], why) BY <1>3, <2>2
    <3>3. Accounts(t[i]) BY <1>2, <2>1, <3>1, <3>2 DEF Accounts, Open
    <3>. QED BY <1>2, <2>1, <2>2, <3>2, <3>3 DEF Terminal
  <2>3. CASE s[i].status # "queued"
    <3>1. t[i] = s[i] BY <1>3, <2>3
    <3>. QED BY <2>1, <2>3, <3>1 DEF SameIdentity
  <2>. QED BY <2>2, <2>3
<1>. QED BY <1>5, <1>6 DEF Rewrites

\* A retry appended to the rows after a failed row that has none yet.
LEMMA AppendRetryKeepsSound ==
  ASSUME NEW s, Sound(s), NEW i \in 1 .. Len(s), NEW b \in BOOLEAN,
         s[i].status = "failed",
         \A j \in 1 .. Len(s) : s[j].parent # i
  PROVE  LET t == Append(s, RetryRow(s, i, b))
         IN  /\ Sound(t) /\ Len(t) = Len(s) + 1
             /\ \A j \in 1 .. Len(s) : t[j] = s[j]
             /\ t[Len(s) + 1] = RetryRow(s, i, b)
             /\ t[Len(s) + 1].status = "queued"
             /\ (\A j \in 1 .. Len(s) : j # i => ExplainedAt(s, j)) => Explained(t)
<1>. DEFINE new == RetryRow(s, i, b)
            t   == Append(s, new)
            n   == Len(s) + 1
<1>1. s \in Rows /\ Len(s) \in Nat /\ Len(s) > 0 BY DEF Sound, Rows
<1>2. new \in RunAttempt BY <1>1, NewRowType
<1>3. /\ t \in Rows /\ Len(t) = n /\ n \in Nat
      /\ \A j \in 1 .. Len(s) : t[j] = s[j]
      /\ t[n] = new
  BY <1>1, <1>2 DEF Rows
<1>4. /\ new.attempt_kind = "retry" /\ new.parent = i /\ new.status = "queued"
      /\ new.attempt_number = s[i].attempt_number + 1
      /\ new.replicate_index = s[i].replicate_index
      /\ new.calls = 0 /\ new.cost = 0 /\ new.error_kind = "none" /\ ~new.cache_hit
  BY DEF RetryRow, ReplicateRow
<1>. HIDE DEF new, t
<1>5. ASSUME NEW j \in 1 .. n PROVE Accounts(t[j]) /\ ChainAt(t, j)
  <2>1. CASE j = n
    <3>1. Accounts(t[j]) BY <1>3, <1>4, <2>1 DEF Accounts, Open
    <3>2. i \in 1 .. n - 1 /\ t[i] = s[i] BY <1>1, <1>3
    <3>3. ChainAt(t, j) BY <1>3, <1>4, <2>1, <3>2 DEF ChainAt
    <3>. QED BY <3>1, <3>3
  <2>2. CASE j # n
    <3>1. j \in 1 .. Len(s) /\ t[j] = s[j] BY <1>1, <1>3, <2>2
    <3>2. Accounts(s[j]) /\ ChainAt(s, j) BY <3>1 DEF Sound
    <3>3. s[j].attempt_kind # "replicate" => s[j].parent \in 1 .. Len(s)
      BY <1>1, <3>1, <3>2 DEF ChainAt
    <3>. QED BY <1>3, <3>1, <3>2, <3>3 DEF ChainAt
  <2>. QED BY <2>1, <2>2
<1>6. ASSUME NEW j \in 1 .. n, NEW k \in 1 .. n,
             t[j].parent = t[k].parent, t[j].parent # 0
      PROVE  j = k
  <2>1. \A m \in 1 .. n : m # n => m \in 1 .. Len(s) /\ t[m] = s[m] BY <1>1, <1>3
  <2>2. CASE j = n /\ k # n BY <1>3, <1>4, <1>6, <2>1, <2>2
  <2>3. CASE j # n /\ k = n BY <1>3, <1>4, <1>6, <2>1, <2>3
  <2>4. CASE j # n /\ k # n BY <1>6, <2>1, <2>4 DEF Sound
  <2>. QED BY <2>2, <2>3, <2>4
<1>7. Sound(t) BY <1>1, <1>3, <1>5, <1>6 DEF Sound
<1>8. ASSUME \A j \in 1 .. Len(s) : j # i => ExplainedAt(s, j)
      PROVE  Explained(t)
  <2>1. SUFFICES ASSUME NEW j \in 1 .. n, t[j].status = "failed", t[j].reason = "none"
                 PROVE  \E k \in 1 .. n : t[k].parent = j
    BY <1>3 DEF Explained, ExplainedAt
  <2>2. n \in 1 .. n /\ j \in 1 .. Len(s) /\ t[j] = s[j] BY <1>1, <1>3, <1>4, <2>1
  <2>3. CASE j = i BY <1>3, <1>4, <2>2, <2>3
  <2>4. CASE j # i
    <3>1. PICK k \in 1 .. Len(s) : s[k].parent = j
      BY <1>8, <2>1, <2>2, <2>4 DEF ExplainedAt
    <3>2. k \in 1 .. n /\ t[k] = s[k] BY <1>1, <1>3
    <3>. QED BY <3>1, <3>2
  <2>. QED BY <2>3, <2>4
<1>9. Len(t) = Len(s) + 1 /\ t[Len(s) + 1] = new BY <1>3
<1>. QED BY <1>3, <1>4, <1>7, <1>8, <1>9 DEF new, t

\* A retry appended to rows that have grown is further growth.
LEMMA GrowsThenAppends ==
  ASSUME NEW o \in Rows, NEW s \in Rows, NEW t \in Rows, Grows(o, s),
         Len(t) = Len(s) + 1, \A j \in 1 .. Len(s) : t[j] = s[j],
         t[Len(s) + 1].attempt_kind = "retry"
  PROVE  Grows(o, t)
<1>1. Len(o) \in Nat /\ Len(s) \in Nat /\ Len(o) <= Len(s) BY DEF Grows, Rows
<1>2. \A i \in 1 .. Len(o) : i \in 1 .. Len(s) /\ t[i] = s[i] BY <1>1
<1>3. ASSUME NEW i \in Len(o) + 1 .. Len(t) PROVE t[i].attempt_kind = "retry"
  <2>1. CASE i = Len(s) + 1 BY <2>1
  <2>2. CASE i # Len(s) + 1
    <3>1. i \in 1 .. Len(s) /\ i \in Len(o) + 1 .. Len(s) BY <1>1, <2>2
    <3>. QED BY <3>1 DEF Grows
  <2>. QED BY <2>1, <2>2
<1>. QED BY <1>1, <1>2, <1>3 DEF Grows

\* The end of a backoff is a rewrite of a queued row.
LEMMA RipenRewrites ==
  ASSUME NEW s, Sound(s), NEW i, i \in 1 .. Len(s) => s[i].status \notin Terminal
  PROVE  /\ Rewrites(s, Ripen(s, i))
         /\ \A j \in 1 .. Len(s) :
              /\ Ripen(s, i)[j].status = s[j].status
              /\ Ripen(s, i)[j].reason = s[j].reason
              /\ Ripen(s, i)[j].calls = s[j].calls
              /\ s[j].status \in Terminal => Ripen(s, i)[j] = s[j]
<1>1. s \in Rows /\ DOMAIN s = 1 .. Len(s) BY DEF Sound, Rows
<1>2. CASE i \notin 1 .. Len(s)
  <2>1. Ripen(s, i) = s BY <1>1, <1>2 DEF Ripen
  <2>2. \A j \in 1 .. Len(s) : s[j].calls \in Nat /\ s[j].calls >= s[j].calls
    BY <1>1, RowType
  <2>. QED BY <1>1, <2>1, <2>2 DEF Rewrites, SameIdentity, Sound
<1>3. CASE i \in 1 .. Len(s)
  <2>. DEFINE row == [s[i] EXCEPT !.due = TRUE]
  <2>1. s[i] \in RunAttempt /\ s[i].calls \in Nat /\ Accounts(s[i])
    BY <1>1, <1>3, RowType DEF Sound
  <2>2. /\ row \in RunAttempt /\ SameIdentity(row, s[i])
        /\ row.status = s[i].status /\ row.reason = s[i].reason
        /\ row.calls = s[i].calls /\ row.cost = s[i].cost
        /\ row.error_kind = s[i].error_kind /\ row.cache_hit = s[i].cache_hit
    BY <2>1 DEF RunAttempt, SameIdentity
  <2>. HIDE DEF row
  <2>3. Accounts(row) BY <2>1, <2>2 DEF Accounts
  <2>4. row.calls >= s[i].calls BY <2>1, <2>2
  <2>5. /\ Rewrites(s, [s EXCEPT ![i] = row])
        /\ \A j \in 1 .. Len(s) : [s EXCEPT ![i] = row][j] = IF j = i THEN row ELSE s[j]
    BY <1>3, <2>2, <2>3, <2>4, RewriteOne
  <2>6. Ripen(s, i) = [s EXCEPT ![i] = row] BY <1>1, <1>3 DEF Ripen, row
  <2>. QED BY <1>3, <2>2, <2>5, <2>6
<1>. QED BY <1>2, <1>3
=============================================================================
