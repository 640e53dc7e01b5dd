---------------------------- MODULE SessionsProofs ----------------------------
(***************************************************************************)
(* Theorems about ExperimentSessions, for every number of workers, clients *)
(* and runs: what the experiment lock and the rows a session has read have *)
(* to do with what is committed when the session writes.                   *)
(***************************************************************************)
EXTENDS ExperimentSessions, AttemptRowsProofs

Db   == [exp : ExperimentStatus, run : [Runs -> RunStatus],
         att : [Runs -> Rows], gen : Nat, audited : SUBSET Runs]
View == [exp : ExperimentStatus, run : [Runs -> RunStatus],
         att : [Runs -> Rows], gen : Nat]
-----------------------------------------------------------------------------
\* t has the rows of s, as the same attempts, and may have more.
Prolongs(t, s) ==
  /\ Len(s) <= Len(t)
  /\ \A i \in 1 .. Len(s) : /\ t[i].parent = s[i].parent
                            /\ t[i].attempt_number = s[i].attempt_number

\* t has the rows of s unchanged, and may have more.
Appends(t, s) == Len(s) <= Len(t) /\ \A i \in 1 .. Len(s) : t[i] = s[i]

\* t is what a commit may make of the stored rows s.
Keeps(t, s) == Prolongs(t, s) /\ \A i \in 1 .. Len(s) : t[i].calls >= s[i].calls

\* s is what the worker that holds the lock has made of the stored rows t.
Works(s, t) ==
  /\ Prolongs(t, s)
  /\ \A i \in 1 .. Len(s) : /\ s[i].calls >= t[i].calls
                            /\ s[i].status = "queued" => t[i].status = "queued"

\* A retry follows its parent and is numbered after it; no two have one parent.
Chained(s) ==
  /\ \A i \in 1 .. Len(s) :
       s[i].parent # 0 => /\ s[i].parent \in 1 .. Len(s)
                          /\ s[i].attempt_number = s[s[i].parent].attempt_number + 1
  /\ \A i, j \in 1 .. Len(s) : s[i].parent = s[j].parent /\ s[i].parent # 0 => i = j
-----------------------------------------------------------------------------
\* The labels at which a worker is the holder of the experiment lock, and those
\* at which a session has read no attempts.
Locked  == {"load_runs", "run", "load", "select", "call"}
AtRun   == {"load", "select", "call"}
Unread  == {"idle", "runs", "attempts", "get", "cancel", "begin", "load_runs"}

\* A session at label l with the view v, when d is committed.
SessionOK(l, v, d) ==
  /\ v.gen <= d.gen
  /\ l \in Unread => v.att = [r \in Runs |-> <<>>]

\* A client: its rows are of this edit, or it will find out.
ClientOK(l, v, o, a, d) ==
  /\ v.gen = d.gen => \A r \in Runs : Prolongs(d.att[r], v.att[r])
  /\ o = "retry" /\ l \in {"experiment", "write"} => v.att[a] # <<>>
  /\ l = "enqueue" => o = "queue"

\* A worker that holds the lock: it has only loaded rows of runs it has locked,
\* and of canceled runs that it has passed.
WorkerOK(l, v, t, d) ==
  l \in Locked =>
    \A r \in Runs : IF r \in t THEN Works(v.att[r], d.att[r])
                    ELSE v.att[r] = <<>> \/ v.run[r] = "canceled"

LockInv ==
  /\ \A w \in Workers : pc[w] \in Locked <=> lock = w
  /\ lock = NoOne => touched = {}
  /\ \A w \in Workers : pc[w] \in AtRun => cur[w] \in Runs /\ cur[w] \in touched

ReadInv ==
  /\ \A s \in Sessions : SessionOK(pc[s], view[s], db)
  /\ \A c \in Clients : ClientOK(pc[c], view[c], op[c], arg[c], db)
  /\ \A w \in Workers : WorkerOK(pc[w], view[w], touched, db)

\* What is committed: the chains of retries, and an audit row where there are calls.
Audited(d) ==
  d.audited = {} => \A r \in Runs : \A i \in 1 .. Len(d.att[r]) : d.att[r][i].calls = 0

Stored(d) == (\A r \in Runs : Chained(d.att[r])) /\ Audited(d)

IInv == TypeOK /\ LockInv /\ ReadInv /\ Stored(db)
-----------------------------------------------------------------------------
\* What session s may make of db: it keeps every row and appends at most, where
\* another worker has locked a run; or it is the edit of an unlocked draft.
KeepsAll(d) == d.gen = db.gen /\ \A r \in Runs : Keeps(d.att[r], db.att[r])

Respects(d, s) ==
  \A w \in Workers \ {s} :
    pc[w] \in Locked => \A r \in touched : Appends(d.att[r], db.att[r])

Edits(d) == d.gen = db.gen + 1 /\ lock = NoOne /\ db.audited = {}

Step(d, s) == (KeepsAll(d) /\ Respects(d, s)) \/ Edits(d)
-----------------------------------------------------------------------------
\* Appended rows prolong; prolonging is transitive; the empty view is prolonged.
LEMMA RowRelations ==
  ASSUME NEW s \in Rows, NEW t \in Rows, NEW u \in Rows
  PROVE  /\ Prolongs(s, s) /\ Appends(s, s) /\ Keeps(s, s)
         /\ Prolongs(t, <<>>) /\ Works(<<>>, t)
         /\ Prolongs(t, s) /\ Prolongs(u, t) => Prolongs(u, s)
         /\ Works(s, t) /\ Appends(u, t) => Works(s, u)
         /\ Appends(t, s) => Keeps(t, s)
<1>1. Len(s) \in Nat /\ Len(t) \in Nat /\ Len(u) \in Nat BY DEF Rows
<1>2. \A i \in 1 .. Len(s) : s[i].calls \in Nat BY RowType
<1>3. Prolongs(s, s) /\ Appends(s, s) /\ Keeps(s, s)
  BY <1>1, <1>2 DEF Prolongs, Appends, Keeps
<1>4. Prolongs(t, <<>>) /\ Works(<<>>, t) BY <1>1 DEF Prolongs, Works
<1>5. Prolongs(t, s) /\ Prolongs(u, t) => Prolongs(u, s) BY <1>1 DEF Prolongs
<1>6. Works(s, t) /\ Appends(u, t) => Works(s, u) BY <1>1 DEF Works, Prolongs, Appends
<1>7. Appends(t, s) => Keeps(t, s) BY <1>1, <1>2 DEF Appends, Keeps, Prolongs
<1>. QED BY <1>3, <1>4, <1>5, <1>6, <1>7

\* Rows of the same number that are the same attempts are chained alike.
LEMMA ChainsStay ==
  ASSUME NEW s \in Rows, NEW t \in Rows, Prolongs(t, s), Len(t) = Len(s), Chained(s)
  PROVE  Chained(t)
<1>1. Len(s) \in Nat BY DEF Rows
<1>2. \A i \in 1 .. Len(s) : t[i].parent = s[i].parent /\ t[i].attempt_number = s[i].attempt_number
  BY DEF Prolongs
<1>. QED BY <1>1, <1>2 DEF Chained

\* The row a retry appends, unless its attempt id is taken.
LEMMA RetryChains ==
  ASSUME NEW s \in Rows, NEW t \in Rows, s # <<>>, Prolongs(t, s), Chained(t),
         \A i \in 1 .. Len(t) :
           ~(/\ t[i].parent = RetryRow(s, Len(s), TRUE).parent
             /\ t[i].attempt_number = RetryRow(s, Len(s), TRUE).attempt_number)
  PROVE  LET u == Append(t, RetryRow(s, Len(s), TRUE))
         IN  /\ u \in Rows /\ Appends(u, t) /\ Chained(u)
             /\ Len(u) = Len(t) + 1 /\ u[Len(t) + 1].calls = 0
<1>. DEFINE n   == Len(s)
            row == RetryRow(s, n, TRUE)
            u   == Append(t, row)
<1>1. n \in 1 .. Len(s) /\ Len(t) \in Nat /\ n <= Len(t) BY DEF Rows, Prolongs
<1>2. row \in RunAttempt BY <1>1, NewRowType, TRUE \in BOOLEAN, 0 \in Nat
<1>3. row.parent = n /\ row.attempt_number = s[n].attempt_number + 1 /\ row.calls = 0
  BY DEF RetryRow, ReplicateRow
<1>4. t[n].attempt_number = s[n].attempt_number BY <1>1 DEF Prolongs
<1>5. \A i \in 1 .. Len(t) : t[i].parent # n
  <2>1. SUFFICES ASSUME NEW i \in 1 .. Len(t), t[i].parent = n PROVE FALSE OBVIOUS
  <2>2. n # 0 BY <1>1
  <2>3. t[i].attempt_number = t[n].attempt_number + 1 BY <2>1, <2>2 DEF Chained
  <2>4. t[i].parent = row.parent /\ t[i].attempt_number = row.attempt_number
    BY <1>3, <1>4, <2>1, <2>3
  <2>. QED BY <2>4
<1>. HIDE DEF row
<1>6. /\ u \in Rows /\ Len(u) = Len(t) + 1 /\ u[Len(t) + 1] = row
      /\ \A i \in 1 .. Len(t) : u[i] = t[i]
  BY <1>2 DEF Rows
<1>. HIDE DEF u, n
<1>7. Appends(u, t) BY <1>1, <1>6 DEF Appends
<1>8. ASSUME NEW i \in 1 .. Len(u), u[i].parent # 0
      PROVE  /\ u[i].parent \in 1 .. Len(u)
             /\ u[i].attempt_number = u[u[i].parent].attempt_number + 1
  <2>1. CASE i = Len(t) + 1 BY <1>1, <1>3, <1>4, <1>6, <2>1
  <2>2. CASE i # Len(t) + 1
    <3>1. i \in 1 .. Len(t) /\ u[i] = t[i] BY <1>1, <1>6, <2>2
    <3>2. /\ t[i].parent \in 1 .. Len(t)
          /\ t[i].attempt_number = t[t[i].parent].attempt_number + 1
      BY <1>8, <3>1 DEF Chained
    <3>. QED BY <1>1, <1>6, <3>1, <3>2
  <2>. QED BY <2>1, <2>2
<1>9. ASSUME NEW i \in 1 .. Len(u), NEW j \in 1 .. Len(u),
             u[i].parent = u[j].parent, u[i].parent # 0
      PROVE  i = j
  <2>1. \A k \in 1 .. Len(u) : k # Len(t) + 1 => k \in 1 .. Len(t) /\ u[k] = t[k]
    BY <1>1, <1>6
  <2>2. CASE i # Len(t) + 1 /\ j # Len(t) + 1 BY <1>9, <2>1, <2>2 DEF Chained
  <2>3. CASE i = Len(t) + 1 /\ j # Len(t) + 1 BY <1>3, <1>5, <1>6, <1>9, <2>1, <2>3
  <2>4. CASE i # Len(t) + 1 /\ j = Len(t) + 1 BY <1>3, <1>5, <1>6, <1>9, <2>1, <2>4
  <2>. QED BY <2>2, <2>3, <2>4
<1>10. Chained(u) BY <1>8, <1>9 DEF Chained
<1>11. u[Len(t) + 1].calls = 0 BY <1>3, <1>6
<1>. QED BY <1>6, <1>7, <1>10, <1>11 DEF u, n, row
-----------------------------------------------------------------------------
\* Canceling open rows in place keeps every row, and is a cancellation.
LEMMA CancelStoredKeeps ==
  ASSUME NEW read \in Rows, NEW s \in Rows
  PROVE  /\ CancelStored(read, s) \in Rows /\ Len(CancelStored(read, s)) = Len(s)
         /\ Keeps(CancelStored(read, s), s)
         /\ \A i \in 1 .. Len(s) : CancelStored(read, s)[i].calls = s[i].calls
         /\ (\A i \in 1 .. Len(read) : read[i].status \notin Open) => CancelStored(read, s) = s
<1>. DEFINE t == CancelStored(read, s)
<1>1. DOMAIN s = 1 .. Len(s) /\ Len(s) \in Nat /\ DOMAIN read = 1 .. Len(read) BY DEF Rows
<1>2. ASSUME NEW i \in 1 .. Len(s)
      PROVE  /\ t[i] \in RunAttempt /\ t[i].calls = s[i].calls /\ t[i].parent = s[i].parent
             /\ t[i].attempt_number = s[i].attempt_number /\ t[i].calls >= s[i].calls
  <2>1. s[i] \in RunAttempt /\ s[i].calls \in Nat BY RowType
  <2>. DEFINE row == [s[i] EXCEPT !.status = "canceled"]
  <2>2. /\ row \in RunAttempt /\ row.calls = s[i].calls /\ row.parent = s[i].parent
        /\ row.attempt_number = s[i].attempt_number
    BY <2>1 DEF RunAttempt, AttemptStatus
  <2>3. t[i] = row \/ t[i] = s[i] BY <1>1 DEF CancelStored
  <2>. HIDE DEF row, t
  <2>. QED BY <2>1, <2>2, <2>3
<1>3. t \in Rows /\ Len(t) = Len(s) BY <1>1, <1>2 DEF CancelStored, Rows
<1>4. ASSUME \A i \in 1 .. Len(read) : read[i].status \notin Open
      PROVE  t = s
  BY <1>1, <1>4 DEF CancelStored, Rows
<1>5. Keeps(t, s) BY <1>1, <1>2, <1>3 DEF Keeps, Prolongs
<1>. QED BY <1>2, <1>3, <1>4, <1>5

\* A session with nothing to cancel in a run has read no open row of it.
LEMMA NothingToCancel ==
  ASSUME NEW v \in View, NEW r \in Runs, ~Cancels(v, {r})
  PROVE  \A i \in 1 .. Len(v.att[r]) : v.att[r][i].status \notin Open
<1>. DEFINE s == v.att[r]
<1>1. s \in Rows /\ DOMAIN s = 1 .. Len(s) BY DEF View, Rows
<1>2. CancelRows(s) = s BY DEF Cancels
<1>3. SUFFICES ASSUME NEW i \in 1 .. Len(s), s[i].status \in Open PROVE FALSE OBVIOUS
<1>4. CancelRows(s)[i] = [s[i] EXCEPT !.status = "canceled"] BY <1>1, <1>3 DEF CancelRows
<1>5. s[i] \in RunAttempt BY <1>1, RowType
<1>6. [s[i] EXCEPT !.status = "canceled"].status = "canceled" BY <1>5 DEF RunAttempt
<1>. QED BY <1>2, <1>3, <1>4, <1>6 DEF Open

\* The rows of a canceled run, and the statuses the helpers return.
LEMMA CanceledTypes ==
  ASSUME NEW s \in Rows, NEW q \in RunStatus
  PROVE  /\ CancelRows(s) \in Rows /\ Len(CancelRows(s)) = Len(s)
         /\ \A i \in 1 .. Len(s) : /\ CancelRows(s)[i].parent = s[i].parent
                                   /\ CancelRows(s)[i].attempt_number = s[i].attempt_number
                                   /\ CancelRows(s)[i].calls = s[i].calls
                                   /\ CancelRows(s)[i].status # "queued"
         /\ CancelStatus(s, q) \in RunStatus /\ StatusFromAttempts(s) \in RunStatus
<1>. DEFINE t == CancelRows(s)
<1>1. DOMAIN s = 1 .. Len(s) /\ Len(s) \in Nat BY DEF Rows
<1>2. ASSUME NEW i \in 1 .. Len(s)
      PROVE  /\ t[i] \in RunAttempt /\ t[i].calls = s[i].calls /\ t[i].parent = s[i].parent
             /\ t[i].attempt_number = s[i].attempt_number /\ t[i].status # "queued"
  <2>1. s[i] \in RunAttempt BY RowType
  <2>. DEFINE row == [s[i] EXCEPT !.status = "canceled"]
  <2>2. /\ row \in RunAttempt /\ row.calls = s[i].calls /\ row.parent = s[i].parent
        /\ row.attempt_number = s[i].attempt_number /\ row.status = "canceled"
    BY <2>1 DEF RunAttempt, AttemptStatus
  <2>3. t[i] = row \/ (t[i] = s[i] /\ s[i].status \notin Open) BY <1>1 DEF CancelRows
  <2>. HIDE DEF row, t
  <2>. QED BY <2>1, <2>2, <2>3 DEF Open
<1>3. t \in Rows /\ Len(t) = Len(s) BY <1>1, <1>2 DEF CancelRows, Rows
<1>4. CancelStatus(s, q) \in RunStatus BY DEF CancelStatus, RunStatus
<1>5. StatusFromAttempts(s) \in RunStatus
  <2>1. CASE s = <<>> BY <2>1 DEF StatusFromAttempts, RunStatus
  <2>2. CASE s # <<>>
    <3>1. Len(s) \in 1 .. Len(s) BY <2>2 DEF Rows
    <3>2. s[Len(s)].status \in AttemptStatus BY <3>1, RowType DEF RunAttempt
    <3>. QED BY <2>2, <3>2 DEF StatusFromAttempts, RunStatus, AttemptStatus
  <2>. QED BY <2>1, <2>2
<1>. QED BY <1>2, <1>3, <1>4, <1>5

\* What the commit of an execution leaves of the rows of a run.
LEMMA MergedKeeps ==
  ASSUME NEW s \in Rows, NEW t \in Rows, Works(s, t)
  PROVE  /\ Merged(s, t) \in Rows /\ Len(Merged(s, t)) = Len(t) /\ Keeps(Merged(s, t), t)
         /\ \A i \in 1 .. Len(t) : i <= Len(s) => Merged(s, t)[i] = s[i]
         /\ \A i \in 1 .. Len(t) : i > Len(s) => Merged(s, t)[i] = t[i]
<1>. DEFINE u == Merged(s, t)
<1>1. Len(s) \in Nat /\ Len(t) \in Nat /\ Len(s) <= Len(t) BY DEF Rows, Works, Prolongs
<1>. DEFINE rest == SubSeq(t, Len(s) + 1, Len(t))
<1>2. /\ rest \in Rows /\ Len(rest) = Len(t) - Len(s)
      /\ \A i \in 1 .. Len(t) - Len(s) : rest[i] = t[Len(s) + i]
  BY <1>1 DEF Rows
<1>3. /\ u \in Rows /\ Len(u) = Len(t)
      /\ \A i \in 1 .. Len(s) : u[i] = s[i]
      /\ \A i \in 1 .. Len(t) : i > Len(s) => u[i] = rest[i - Len(s)]
  <2>. HIDE DEF rest
  <2>1. u = s \o rest BY DEF Merged, rest
  <2>2. s \in Seq(RunAttempt) /\ rest \in Seq(RunAttempt) BY <1>2 DEF Rows
  <2>3. u \in Seq(RunAttempt) /\ Len(u) = Len(s) + Len(rest) BY <2>1, <2>2
  <2>4. \A i \in 1 .. Len(s) + Len(rest) :
          u[i] = IF i <= Len(s) THEN s[i] ELSE rest[i - Len(s)]
    BY <2>1, <2>2
  <2>5. Len(s) + Len(rest) = Len(t) BY <1>1, <1>2
  <2>6. u \in Rows /\ Len(u) = Len(t) BY <2>3, <2>5 DEF Rows
  <2>. HIDE DEF u
  <2>. QED BY <1>1, <2>4, <2>5, <2>6
<1>. HIDE DEF u, rest
<1>4. \A i \in 1 .. Len(t) : i > Len(s) => u[i] = t[i]
  <2>1. SUFFICES ASSUME NEW i \in 1 .. Len(t), i > Len(s) PROVE u[i] = t[i] OBVIOUS
  <2>2. i - Len(s) \in 1 .. Len(t) - Len(s) /\ Len(s) + (i - Len(s)) = i BY <1>1, <2>1
  <2>. QED BY <1>2, <1>3, <2>1, <2>2
<1>5. ASSUME NEW i \in 1 .. Len(t)
      PROVE  /\ u[i].parent = t[i].parent /\ u[i].attempt_number = t[i].attempt_number
             /\ u[i].calls >= t[i].calls
  <2>1. CASE i <= Len(s)
    <3>1. i \in 1 .. Len(s) /\ u[i] = s[i] BY <1>1, <1>3, <2>1
    <3>. QED BY <3>1 DEF Works, Prolongs
  <2>2. CASE i > Len(s)
    <3>1. u[i] = t[i] /\ t[i].calls \in Nat BY <1>4, <2>2, RowType
    <3>. QED BY <3>1
  <2>. QED BY <1>1, <2>1, <2>2
<1>6. Keeps(u, t) BY <1>1, <1>3, <1>5 DEF Keeps, Prolongs
<1>7. \A i \in 1 .. Len(t) : i <= Len(s) => u[i] = s[i] BY <1>1, <1>3
<1>. QED BY <1>3, <1>4, <1>6, <1>7 DEF u
-----------------------------------------------------------------------------
\* The type invariant, by its parts.
LEMMA Types ==
  TypeOK <=> /\ backend \in Backends /\ db \in Db /\ jobs \in Nat
             /\ lock \in Workers \cup {NoOne} /\ touched \subseteq Runs
             /\ pc \in [Sessions -> Labels] /\ view \in [Sessions -> View]
             /\ op \in [Clients -> {"none", "cancel_experiment", "cancel_run",
                                    "retry", "queue", "edit"}]
             /\ arg \in [Clients -> Runs] /\ cur \in [Workers -> 0 .. NRuns + 1]
BY DEF TypeOK, Db, View, Rows

\* The fields of what is committed and of what a session has read.
LEMMA DbFields ==
  ASSUME NEW d \in Db
  PROVE  /\ d.exp \in ExperimentStatus /\ d.run \in [Runs -> RunStatus] /\ d.gen \in Nat
         /\ d.att \in [Runs -> Rows] /\ d.audited \subseteq Runs
         /\ \A r \in Runs : d.att[r] \in Rows
BY DEF Db

LEMMA ViewFields ==
  ASSUME NEW v \in View
  PROVE  /\ v.exp \in ExperimentStatus /\ v.run \in [Runs -> RunStatus] /\ v.gen \in Nat
         /\ v.att \in [Runs -> Rows] /\ \A r \in Runs : v.att[r] \in Rows
BY DEF View

\* A session that has read nothing is in order, whatever is committed.
LEMMA BlankOK ==
  ASSUME NEW d \in Db
  PROVE  /\ Blank \in View /\ SessionOK("idle", Blank, d)
         /\ \A a \in Runs : ClientOK("idle", Blank, "none", a, d)
         /\ \A t : WorkerOK("idle", Blank, t, d)
<1>1. <<>> \in Rows /\ 0 \in Nat /\ "draft" \in ExperimentStatus /\ "pending" \in RunStatus
  BY DEF Rows, ExperimentStatus, RunStatus
<1>2. Blank \in View BY <1>1 DEF Blank, View
<1>3. Blank.gen = 0 /\ Blank.att = [r \in Runs |-> <<>>] BY DEF Blank
<1>4. d.gen \in Nat /\ \A r \in Runs : Prolongs(d.att[r], <<>>)
  BY <1>1, DbFields, RowRelations
<1>5. SessionOK("idle", Blank, d) BY <1>3, <1>4 DEF SessionOK
<1>6. \A a \in Runs : ClientOK("idle", Blank, "none", a, d)
  BY <1>3, <1>4 DEF ClientOK
<1>7. \A t : WorkerOK("idle", Blank, t, d) BY DEF WorkerOK, Locked
<1>. QED BY <1>2, <1>5, <1>6, <1>7

\* A commit of session s leaves what every other session has read in order.
LEMMA OthersStayOK ==
  ASSUME IInv, NEW s \in Sessions, NEW d \in Db, Step(d, s), NEW x \in Sessions, x # s
  PROVE  /\ SessionOK(pc[x], view[x], d)
         /\ x \in Clients => ClientOK(pc[x], view[x], op[x], arg[x], d)
         /\ x \in Workers => WorkerOK(pc[x], view[x], touched, d)
<1>1. db \in Db /\ view[x] \in View BY Types DEF IInv
<1>2. /\ db.gen \in Nat /\ d.gen \in Nat /\ view[x].gen \in Nat
      /\ \A r \in Runs : db.att[r] \in Rows /\ d.att[r] \in Rows /\ view[x].att[r] \in Rows
  BY <1>1, DbFields, ViewFields
<1>3. /\ SessionOK(pc[x], view[x], db)
      /\ x \in Clients => ClientOK(pc[x], view[x], op[x], arg[x], db)
      /\ x \in Workers => WorkerOK(pc[x], view[x], touched, db)
  BY DEF IInv, ReadInv
<1>4. db.gen <= d.gen BY <1>2 DEF Step, KeepsAll, Edits
<1>5. SessionOK(pc[x], view[x], d)
  <2>. DEFINE v == view[x]
  <2>. HIDE DEF v
  <2>1. SessionOK(pc[x], v, db) /\ v.gen \in Nat BY <1>2, <1>3 DEF v
  <2>2. SessionOK(pc[x], v, d) BY <1>2, <1>4, <2>1 DEF SessionOK
  <2>. QED BY <2>2 DEF v
<1>6. ASSUME x \in Clients PROVE ClientOK(pc[x], view[x], op[x], arg[x], d)
  <2>1. ClientOK(pc[x], view[x], op[x], arg[x], db) BY <1>3, <1>6
  <2>2. view[x].gen <= db.gen BY <1>3 DEF SessionOK
  <2>3. ASSUME view[x].gen = d.gen, NEW r \in Runs
        PROVE  Prolongs(d.att[r], view[x].att[r])
    <3>1. db.gen = d.gen /\ KeepsAll(d) BY <1>2, <1>4, <2>2, <2>3 DEF Step, Edits
    <3>2. Prolongs(d.att[r], db.att[r]) BY <3>1 DEF KeepsAll, Keeps
    <3>3. Prolongs(db.att[r], view[x].att[r]) BY <2>1, <2>3, <3>1 DEF ClientOK
    <3>. QED BY <1>2, <3>2, <3>3, RowRelations
  <2>. QED BY <2>1, <2>3 DEF ClientOK
<1>7. ASSUME x \in Workers PROVE WorkerOK(pc[x], view[x], touched, d)
  <2>1. SUFFICES ASSUME pc[x] \in Locked, NEW r \in Runs
                 PROVE  IF r \in touched THEN Works(view[x].att[r], d.att[r])
                        ELSE view[x].att[r] = <<>> \/ view[x].run[r] = "canceled"
    BY DEF WorkerOK
  <2>2. lock = x BY <1>7, <2>1 DEF IInv, LockInv
  <2>3. lock # NoOne BY <1>7, <2>2, SessionsAssumption DEF Sessions
  <2>4. Respects(d, s) BY <2>3 DEF Step, Edits
  <2>5. IF r \in touched THEN Works(view[x].att[r], db.att[r])
        ELSE view[x].att[r] = <<>> \/ view[x].run[r] = "canceled"
    BY <1>3, <1>7, <2>1 DEF WorkerOK
  <2>6. CASE r \in touched
    <3>1. Appends(d.att[r], db.att[r]) BY <1>7, <2>1, <2>4, <2>6 DEF Respects
    <3>. QED BY <1>2, <2>5, <2>6, <3>1, RowRelations
  <2>. QED BY <2>5, <2>6
<1>. QED BY <1>5, <1>6, <1>7

\* No change is a step, of any session.
LEMMA NoStep ==
  ASSUME IInv, NEW s \in Sessions
  PROVE  Step(db, s)
<1>1. \A r \in Runs : db.att[r] \in Rows BY Types, DbFields DEF IInv
<1>2. \A r \in Runs : Keeps(db.att[r], db.att[r]) /\ Appends(db.att[r], db.att[r])
  BY <1>1, RowRelations
<1>3. KeepsAll(db) BY <1>2 DEF KeepsAll
<1>4. Respects(db, s) BY <1>2, Types DEF Respects, IInv
<1>. QED BY <1>3, <1>4 DEF Step
-----------------------------------------------------------------------------
\* One step of a client: what it has to establish for the invariant.
LEMMA ClientStep ==
  ASSUME IInv, NEW c \in Clients, NEW v \in View, NEW l \in Labels,
         NEW o \in {"none", "cancel_experiment", "cancel_run", "retry", "queue", "edit"},
         NEW a \in Runs,
         view' = [view EXCEPT ![c] = v], pc' = [pc EXCEPT ![c] = l],
         op' = [op EXCEPT ![c] = o], arg' = [arg EXCEPT ![c] = a],
         UNCHANGED <<backend, locks, cur>>, jobs' \in Nat,
         db' \in Db, Step(db', c), Stored(db'),
         SessionOK(l, v, db'), ClientOK(l, v, o, a, db')
  PROVE  IInv'
<1>1. /\ backend \in Backends /\ lock \in Workers \cup {NoOne} /\ touched \subseteq Runs
      /\ pc \in [Sessions -> Labels] /\ view \in [Sessions -> View]
      /\ op \in [Clients -> {"none", "cancel_experiment", "cancel_run",
                             "retry", "queue", "edit"}]
      /\ arg \in [Clients -> Runs] /\ cur \in [Workers -> 0 .. NRuns + 1]
  BY Types DEF IInv
<1>2. c \in Sessions /\ c \notin Workers /\ Workers \subseteq Sessions
      /\ Clients \subseteq Sessions
  BY SessionsAssumption DEF Sessions
<1>3. /\ pc'[c] = l /\ view'[c] = v /\ op'[c] = o /\ arg'[c] = a
      /\ \A x \in Sessions \ {c} : pc'[x] = pc[x] /\ view'[x] = view[x]
      /\ \A x \in Clients \ {c} : op'[x] = op[x] /\ arg'[x] = arg[x]
  BY <1>1, <1>2
<1>4. TypeOK'
  <2>1. pc' \in [Sessions -> Labels] BY <1>1
  <2>2. view' \in [Sessions -> View] BY <1>1
  <2>3. /\ op' \in [Clients -> {"none", "cancel_experiment", "cancel_run",
                                "retry", "queue", "edit"}]
        /\ arg' \in [Clients -> Runs]
    BY <1>1
  <2>. QED BY <1>1, <2>1, <2>2, <2>3 DEF TypeOK, Db, View, Rows, locks
<1>5. LockInv' BY <1>2, <1>3 DEF IInv, LockInv, locks
<1>6. ASSUME NEW x \in Sessions PROVE SessionOK(pc[x], view[x], db)'
  <2>1. CASE x = c BY <1>3, <2>1
  <2>2. CASE x # c
    <3>1. SessionOK(pc[x], view[x], db') BY <1>2, <2>2, OthersStayOK
    <3>. QED BY <1>3, <2>2, <3>1
  <2>. QED BY <2>1, <2>2
<1>7. ASSUME NEW x \in Clients PROVE ClientOK(pc[x], view[x], op[x], arg[x], db)'
  <2>1. CASE x = c BY <1>3, <2>1
  <2>2. CASE x # c
    <3>1. ClientOK(pc[x], view[x], op[x], arg[x], db') BY <1>2, <2>2, OthersStayOK
    <3>. QED BY <1>2, <1>3, <2>2, <3>1
  <2>. QED BY <2>1, <2>2
<1>8. ASSUME NEW x \in Workers PROVE WorkerOK(pc[x], view[x], touched, db)'
  <2>1. x # c /\ x \in Sessions BY <1>2
  <2>2. WorkerOK(pc[x], view[x], touched, db') BY <1>2, <2>1, OthersStayOK
  <2>. QED BY <1>3, <2>1, <2>2 DEF locks
<1>9. ReadInv' BY <1>6, <1>7, <1>8 DEF ReadInv
<1>. QED BY <1>4, <1>5, <1>9 DEF IInv

\* One step of a worker: the lock is what its label says, and nobody else's.
LEMMA WorkerStep ==
  ASSUME IInv, NEW w \in Workers, NEW v \in View, NEW l \in Labels,
         NEW k \in 0 .. NRuns + 1,
         view' = [view EXCEPT ![w] = v], pc' = [pc EXCEPT ![w] = l],
         cur' = [cur EXCEPT ![w] = k],
         UNCHANGED <<backend, client>>, jobs' \in Nat,
         lock' \in Workers \cup {NoOne}, touched' \subseteq Runs,
         l \in Locked <=> lock' = w,
         \A x \in Workers \ {w} : lock' = x <=> lock = x,
         lock' = NoOne => touched' = {},
         lock # w => touched' = touched,
         l \in AtRun => k \in Runs /\ k \in touched',
         db' \in Db, Step(db', w), Stored(db'),
         SessionOK(l, v, db'), WorkerOK(l, v, touched', db')
  PROVE  IInv'
<1>1. /\ backend \in Backends
      /\ pc \in [Sessions -> Labels] /\ view \in [Sessions -> View]
      /\ op \in [Clients -> {"none", "cancel_experiment", "cancel_run",
                             "retry", "queue", "edit"}]
      /\ arg \in [Clients -> Runs] /\ cur \in [Workers -> 0 .. NRuns + 1]
  BY Types DEF IInv
<1>2. w \in Sessions /\ w \notin Clients /\ Workers \subseteq Sessions
      /\ Clients \subseteq Sessions
  BY SessionsAssumption DEF Sessions
<1>3. /\ pc'[w] = l /\ view'[w] = v /\ cur'[w] = k
      /\ \A x \in Sessions \ {w} : pc'[x] = pc[x] /\ view'[x] = view[x]
      /\ \A x \in Workers \ {w} : cur'[x] = cur[x]
  BY <1>1, <1>2
<1>4. TypeOK'
  <2>1. pc' \in [Sessions -> Labels] BY <1>1
  <2>2. view' \in [Sessions -> View] BY <1>1
  <2>3. cur' \in [Workers -> 0 .. NRuns + 1] BY <1>1
  <2>. QED BY <1>1, <2>1, <2>2, <2>3 DEF TypeOK, Db, View, Rows, client
<1>5. ASSUME NEW x \in Workers, x # w, pc[x] \in Locked PROVE touched' = touched
  BY <1>5 DEF IInv, LockInv
<1>6. LockInv'
  <2>1. ASSUME NEW x \in Workers PROVE (pc[x] \in Locked <=> lock = x)'
    BY <1>2, <1>3 DEF IInv, LockInv
  <2>2. ASSUME NEW x \in Workers, (pc[x] \in AtRun)'
        PROVE  (cur[x] \in Runs /\ cur[x] \in touched)'
    <3>1. CASE x = w BY <1>3, <2>2, <3>1
    <3>2. CASE x # w
      <4>1. pc[x] \in AtRun /\ cur'[x] = cur[x] BY <1>2, <1>3, <2>2, <3>2
      <4>2. pc[x] \in Locked BY <4>1 DEF AtRun, Locked
      <4>3. cur[x] \in Runs /\ cur[x] \in touched BY <4>1 DEF IInv, LockInv
      <4>. QED BY <1>5, <3>2, <4>1, <4>2, <4>3
    <3>. QED BY <3>1, <3>2
  <2>. QED BY <2>1, <2>2 DEF LockInv
<1>7. ASSUME NEW x \in Sessions PROVE SessionOK(pc[x], view[x], db)'
  <2>1. CASE x = w BY <1>3, <2>1
  <2>2. CASE x # w
    <3>1. SessionOK(pc[x], view[x], db') BY <1>2, <2>2, OthersStayOK
    <3>. QED BY <1>3, <2>2, <3>1
  <2>. QED BY <2>1, <2>2
<1>8. ASSUME NEW x \in Clients PROVE ClientOK(pc[x], view[x], op[x], arg[x], db)'
  <2>1. x # w /\ x \in Sessions BY <1>2
  <2>2. ClientOK(pc[x], view[x], op[x], arg[x], db') BY <1>2, <2>1, OthersStayOK
  <2>. QED BY <1>3, <2>1, <2>2 DEF client
<1>9. ASSUME NEW x \in Workers PROVE WorkerOK(pc[x], view[x], touched, db)'
  <2>1. CASE x = w BY <1>3, <2>1
  <2>2. CASE x # w /\ pc[x] \in Locked
    <3>1. WorkerOK(pc[x], view[x], touched, db') BY <1>2, <2>2, OthersStayOK
    <3>2. WorkerOK(pc[x], view[x], touched', db') BY <1>5, <2>2, <3>1
    <3>. QED BY <1>2, <1>3, <2>2, <3>2
  <2>3. CASE x # w /\ pc[x] \notin Locked BY <1>2, <1>3, <2>3 DEF WorkerOK
  <2>. QED BY <2>1, <2>2, <2>3
<1>10. ReadInv' BY <1>7, <1>8, <1>9 DEF ReadInv
<1>. QED BY <1>4, <1>6, <1>10 DEF IInv
-----------------------------------------------------------------------------
\* The fields of what a cancellation commits.
LEMMA CanceledFields ==
  ASSUME db \in Db, NEW v \in View, NEW R \in SUBSET Runs
  PROVE  LET d == CanceledRuns(v, R)
         IN  /\ d \in Db /\ d.gen = db.gen /\ d.audited = db.audited /\ d.exp = db.exp
             /\ \A r \in Runs : \/ d.att[r] = db.att[r]
                                \/ r \in R /\ d.att[r] = CancelStored(v.att[r], db.att[r])
<1>. DEFINE run == [r \in Runs |-> IF r \in R
                        THEN Column(v.run[r], CancelStatus(v.att[r], v.run[r]), db.run[r])
                        ELSE db.run[r]]
            att == [r \in Runs |-> IF r \in R /\ v.gen = db.gen
                        THEN CancelStored(v.att[r], db.att[r]) ELSE db.att[r]]
            d   == CanceledRuns(v, R)
<1>1. d = [db EXCEPT !.run = run, !.att = att] BY DEF CanceledRuns, Db
<1>2. /\ db.run \in [Runs -> RunStatus]
      /\ \A r \in Runs : db.att[r] \in Rows /\ v.att[r] \in Rows /\ v.run[r] \in RunStatus
  BY DbFields, ViewFields
<1>3. run \in [Runs -> RunStatus]
  <2>1. \A r \in Runs : Column(v.run[r], CancelStatus(v.att[r], v.run[r]), db.run[r]) \in RunStatus
    BY <1>2, CanceledTypes DEF Column
  <2>. QED BY <1>2, <2>1
<1>4. att \in [Runs -> Rows]
  <2>1. \A r \in Runs : CancelStored(v.att[r], db.att[r]) \in Rows BY <1>2, CancelStoredKeeps
  <2>. QED BY <1>2, <2>1
<1>5. \A r \in Runs : \/ att[r] = db.att[r]
                      \/ r \in R /\ att[r] = CancelStored(v.att[r], db.att[r])
  OBVIOUS
<1>. HIDE DEF run, att, d
<1>6. /\ d \in Db /\ d.gen = db.gen /\ d.audited = db.audited /\ d.exp = db.exp
      /\ d.att = att
  BY <1>1, <1>3, <1>4 DEF Db
<1>. QED BY <1>5, <1>6 DEF d

\* A cancellation keeps every row, and is no change where a worker is at work.
LEMMA CancelStep ==
  ASSUME IInv, NEW s \in Sessions, NEW v \in View, NEW R \in SUBSET Runs,
         \A w \in Workers \ {s} :
           pc[w] \in Locked => \A r \in R \cap touched : ~Cancels(v, {r}),
         NEW d \in Db, d.att = CanceledRuns(v, R).att, d.gen = db.gen,
         db.audited \subseteq d.audited
  PROVE  Step(d, s) /\ Stored(d)
<1>1. db \in Db /\ touched \subseteq Runs BY Types DEF IInv
<1>2. \A r \in Runs : db.att[r] \in Rows /\ d.att[r] \in Rows /\ v.att[r] \in Rows
  BY <1>1, DbFields, ViewFields
<1>3. ASSUME NEW r \in Runs
      PROVE  /\ Len(d.att[r]) = Len(db.att[r]) /\ Keeps(d.att[r], db.att[r])
             /\ \A i \in 1 .. Len(db.att[r]) : d.att[r][i].calls = db.att[r][i].calls
             /\ r \notin R \/ ~Cancels(v, {r}) => d.att[r] = db.att[r]
  <2>1. \/ d.att[r] = db.att[r]
        \/ r \in R /\ d.att[r] = CancelStored(v.att[r], db.att[r])
    BY <1>1, CanceledFields
  <2>2. CASE d.att[r] = db.att[r] BY <1>2, <2>2, RowRelations
  <2>3. CASE r \in R /\ d.att[r] = CancelStored(v.att[r], db.att[r])
    <3>. DEFINE t == CancelStored(v.att[r], db.att[r])
    <3>1. /\ Len(t) = Len(db.att[r]) /\ Keeps(t, db.att[r])
          /\ \A i \in 1 .. Len(db.att[r]) : t[i].calls = db.att[r][i].calls
      BY <1>2, CancelStoredKeeps
    <3>2. ASSUME ~Cancels(v, {r}) PROVE t = db.att[r]
      <4>1. \A i \in 1 .. Len(v.att[r]) : v.att[r][i].status \notin Open
        BY <3>2, NothingToCancel
      <4>. QED BY <1>2, <4>1, CancelStoredKeeps
    <3>. HIDE DEF t
    <3>3. d.att[r] = t BY <2>3 DEF t
    <3>. QED BY <2>3, <3>1, <3>2, <3>3
  <2>. QED BY <2>1, <2>2, <2>3
<1>4. KeepsAll(d) BY <1>3 DEF KeepsAll
<1>5. Respects(d, s)
  <2>1. SUFFICES ASSUME NEW w \in Workers \ {s}, pc[w] \in Locked, NEW r \in touched
                 PROVE  Appends(d.att[r], db.att[r])
    BY DEF Respects
  <2>2. r \in Runs /\ (r \notin R \/ ~Cancels(v, {r})) BY <1>1, <2>1
  <2>3. d.att[r] = db.att[r] BY <1>3, <2>2
  <2>. QED BY <1>2, <2>2, <2>3, RowRelations
<1>6. ASSUME NEW r \in Runs PROVE Chained(d.att[r])
  <2>1. Chained(db.att[r]) BY DEF IInv, Stored
  <2>2. Prolongs(d.att[r], db.att[r]) /\ Len(d.att[r]) = Len(db.att[r])
    BY <1>3 DEF Keeps
  <2>. QED BY <1>2, <2>1, <2>2, ChainsStay
<1>7. Audited(d)
  <2>1. SUFFICES ASSUME d.audited = {}, NEW r \in Runs, NEW i \in 1 .. Len(d.att[r])
                 PROVE  d.att[r][i].calls = 0
    BY DEF Audited
  <2>2. db.audited = {} /\ i \in 1 .. Len(db.att[r]) BY <1>3, <2>1
  <2>3. db.att[r][i].calls = 0 BY <2>2 DEF IInv, Stored, Audited
  <2>. QED BY <1>3, <2>2, <2>3
<1>. QED BY <1>4, <1>5, <1>6, <1>7 DEF Step, Stored

\* A commit that changes no attempt.
LEMMA SameRowsStep ==
  ASSUME IInv, NEW s \in Sessions, NEW d \in Db, d.att = db.att, d.gen = db.gen,
         d.audited = db.audited
  PROVE  Step(d, s) /\ Stored(d)
<1>1. Step(db, s) BY NoStep
<1>2. Step(d, s) BY <1>1 DEF Step, KeepsAll, Respects, Edits
<1>. QED BY <1>2 DEF IInv, Stored, Audited

\* No other worker is at work when a worker holds the lock, or when nobody does.
LEMMA AloneAtWork ==
  ASSUME IInv, NEW s \in Sessions, lock \in {NoOne, s}
  PROVE  \A w \in Workers \ {s} : pc[w] \notin Locked
<1>1. NoOne \notin Workers BY SessionsAssumption DEF Sessions
<1>. QED BY <1>1 DEF IInv, LockInv
-----------------------------------------------------------------------------
\* A client that reads, and one that has read no attempts yet.
Reads(c, v, l, o, a) ==
  /\ view' = [view EXCEPT ![c] = v] /\ pc' = [pc EXCEPT ![c] = l]
  /\ op' = [op EXCEPT ![c] = o] /\ arg' = [arg EXCEPT ![c] = a]
  /\ UNCHANGED <<backend, db, locks, cur>> /\ jobs' \in Nat

\* The read leaves the client with what a client may hold there.
SoundRead(c, v, l, o, a) ==
  /\ v \in View /\ l \in Labels /\ a \in Runs
  /\ o \in {"none", "cancel_experiment", "cancel_run", "retry", "queue", "edit"}
  /\ Reads(c, v, l, o, a) /\ SessionOK(l, v, db) /\ ClientOK(l, v, o, a, db)

LEMMA ClientReads ==
  ASSUME IInv, NEW c \in Clients, NEW v, NEW l, NEW o, NEW a, SoundRead(c, v, l, o, a)
  PROVE  IInv'
<1>1. c \in Sessions BY DEF Sessions
<1>2. db \in Db /\ Step(db, c) /\ Stored(db) BY <1>1, NoStep, Types DEF IInv
<1>3. db' = db BY DEF SoundRead, Reads
<1>4. /\ db' \in Db /\ Step(db', c) /\ Stored(db')
      /\ SessionOK(l, v, db') /\ ClientOK(l, v, o, a, db')
  BY <1>2, <1>3 DEF SoundRead
<1>5. /\ v \in View /\ l \in Labels /\ a \in Runs
      /\ o \in {"none", "cancel_experiment", "cancel_run", "retry", "queue", "edit"}
  BY DEF SoundRead
<1>6. /\ view' = [view EXCEPT ![c] = v] /\ pc' = [pc EXCEPT ![c] = l]
      /\ op' = [op EXCEPT ![c] = o] /\ arg' = [arg EXCEPT ![c] = a]
      /\ UNCHANGED <<backend, locks, cur>> /\ jobs' \in Nat
  BY DEF SoundRead, Reads
<1>. QED BY <1>4, <1>5, <1>6, ClientStep

LEMMA UnreadOK ==
  ASSUME db \in Db, NEW v, v.att = [r \in Runs |-> <<>>], v.gen <= db.gen,
         NEW l, NEW o, NEW a, l \notin {"experiment", "write"}, l = "enqueue" => o = "queue"
  PROVE  SessionOK(l, v, db) /\ ClientOK(l, v, o, a, db)
<1>1. <<>> \in Rows BY DEF Rows
<1>2. \A r \in Runs : Prolongs(db.att[r], <<>>) BY <1>1, DbFields, RowRelations
<1>. QED BY <1>2 DEF SessionOK, ClientOK

\* A request that has ended.
LEMMA RequestEnds ==
  ASSUME IInv, NEW c \in Clients, EndRequest(c),
         UNCHANGED <<backend, locks, cur>>, jobs' \in Nat,
         db' \in Db, Step(db', c), Stored(db')
  PROVE  IInv'
<1>1. 1 \in Runs BY SessionsAssumption DEF Runs
<1>2. /\ Blank \in View /\ SessionOK("idle", Blank, db')
      /\ ClientOK("idle", Blank, "none", 1, db')
  BY <1>1, BlankOK
<1>3. /\ view' = [view EXCEPT ![c] = Blank] /\ pc' = [pc EXCEPT ![c] = "idle"]
      /\ op' = [op EXCEPT ![c] = "none"] /\ arg' = [arg EXCEPT ![c] = 1]
  BY DEF EndRequest, End, Goto
<1>4. "idle" \in Labels BY DEF Labels
<1>. QED BY <1>1, <1>2, <1>3, <1>4, ClientStep

\* The fields of the views the reads build.
LEMMA ViewUpdates ==
  ASSUME NEW v \in View, NEW e \in ExperimentStatus, NEW run \in [Runs -> RunStatus],
         NEW g \in Nat, NEW att \in [Runs -> Rows]
  PROVE  /\ [v EXCEPT !.exp = e] \in View
         /\ [v EXCEPT !.exp = e].att = v.att /\ [v EXCEPT !.exp = e].gen = v.gen
         /\ [v EXCEPT !.exp = e].run = v.run
         /\ [v EXCEPT !.exp = e, !.gen = g] \in View
         /\ [v EXCEPT !.exp = e, !.gen = g].att = v.att
         /\ [v EXCEPT !.exp = e, !.gen = g].gen = g
         /\ [v EXCEPT !.run = run, !.gen = g] \in View
         /\ [v EXCEPT !.run = run, !.gen = g].att = v.att
         /\ [v EXCEPT !.run = run, !.gen = g].gen = g
         /\ [v EXCEPT !.run = run, !.att = att, !.gen = g] \in View
         /\ [v EXCEPT !.run = run, !.att = att, !.gen = g].att = att
         /\ [v EXCEPT !.run = run, !.att = att, !.gen = g].gen = g
         /\ [v EXCEPT !.run = run] \in View
         /\ [v EXCEPT !.run = run].att = v.att /\ [v EXCEPT !.run = run].gen = v.gen
         /\ [v EXCEPT !.att = att] \in View
         /\ [v EXCEPT !.att = att].att = att /\ [v EXCEPT !.att = att].gen = v.gen
         /\ [v EXCEPT !.att = att, !.run = run] \in View
         /\ [v EXCEPT !.att = att, !.run = run].att = att
         /\ [v EXCEPT !.att = att, !.run = run].gen = v.gen
BY DEF View

\* The requests' first reads, and the read of the runs.
LEMMA AskActs ==
  ASSUME IInv, NEW c \in Clients,
         \/ Request(c)
         \/ ReadRuns(c)
  PROVE  IInv'
<1>1. /\ db \in Db /\ view[c] \in View /\ c \in Sessions /\ arg[c] \in Runs /\ jobs \in Nat
      /\ op \in [Clients -> {"none", "cancel_experiment", "cancel_run",
                             "retry", "queue", "edit"}]
      /\ arg \in [Clients -> Runs] /\ view \in [Sessions -> View]
      /\ pc \in [Sessions -> Labels]
  BY Types DEF IInv, Sessions
<1>2. db.exp \in ExperimentStatus /\ db.run \in [Runs -> RunStatus] /\ db.gen \in Nat
  BY <1>1, DbFields
<1>. DEFINE v == [view[c] EXCEPT !.exp = db.exp]
            u == [view[c] EXCEPT !.run = db.run, !.gen = db.gen]
<1>3. /\ v \in View /\ v.att = view[c].att /\ v.gen = view[c].gen
      /\ u \in View /\ u.att = view[c].att /\ u.gen = db.gen
  <2>1. view[c].att \in [Runs -> Rows] BY <1>1, ViewFields
  <2>2. v \in View /\ v.att = view[c].att /\ v.gen = view[c].gen
    BY <1>1, <1>2, <2>1, ViewUpdates
  <2>3. u \in View /\ u.att = view[c].att /\ u.gen = db.gen
    BY <1>1, <1>2 DEF View
  <2>. QED BY <2>2, <2>3
<1>4. view[c].gen <= db.gen /\ (pc[c] \in Unread => view[c].att = [r \in Runs |-> <<>>])
  BY <1>1 DEF IInv, ReadInv, SessionOK
<1>5. /\ [view EXCEPT ![c].exp = db.exp] = [view EXCEPT ![c] = v]
      /\ [view EXCEPT ![c].run = db.run, ![c].gen = db.gen] = [view EXCEPT ![c] = u]
  BY <1>1
<1>6. [op EXCEPT ![c] = op[c]] = op /\ [arg EXCEPT ![c] = arg[c]] = arg BY <1>1
<1>. HIDE DEF v, u
<1>7. ASSUME pc[c] \in Unread, NEW l \in {"runs", "attempts", "enqueue"},
             NEW o, l = "enqueue" => o = "queue", NEW a
      PROVE  /\ SessionOK(l, v, db) /\ ClientOK(l, v, o, a, db)
             /\ SessionOK(l, u, db) /\ ClientOK(l, u, o, a, db)
  <2>1. v.att = [r \in Runs |-> <<>>] /\ v.gen <= db.gen BY <1>3, <1>4, <1>7
  <2>2. u.att = [r \in Runs |-> <<>>] /\ u.gen <= db.gen BY <1>2, <1>3, <1>4, <1>7
  <2>3. l \notin {"experiment", "write"} BY <1>7
  <2>. QED BY <1>1, <1>7, <2>1, <2>2, <2>3, UnreadOK
<1>8. {"runs", "attempts", "enqueue"} \subseteq Labels /\ {"idle", "runs"} \subseteq Unread
  BY DEF Labels, Unread
<1>10. CASE AskCancelExperiment(c)
  <2>1. Reads(c, v, "runs", "cancel_experiment", arg[c]) /\ pc[c] \in Unread
    BY <1>1, <1>5, <1>6, <1>8, <1>10 DEF Reads, AskCancelExperiment, Goto
  <2>2. SessionOK("runs", v, db) /\ ClientOK("runs", v, "cancel_experiment", arg[c], db)
    BY <1>7, <2>1
  <2>3. SoundRead(c, v, "runs", "cancel_experiment", arg[c]) BY <1>1, <1>3, <1>8, <2>1, <2>2 DEF SoundRead
  <2>. QED BY <2>3, ClientReads
<1>11. CASE AskQueue(c)
  <2>1. Reads(c, v, "enqueue", "queue", arg[c]) /\ pc[c] \in Unread
    BY <1>1, <1>5, <1>6, <1>8, <1>11 DEF Reads, AskQueue, Goto
  <2>2. SessionOK("enqueue", v, db) /\ ClientOK("enqueue", v, "queue", arg[c], db)
    BY <1>7, <2>1
  <2>3. SoundRead(c, v, "enqueue", "queue", arg[c]) BY <1>1, <1>3, <1>8, <2>1, <2>2 DEF SoundRead
  <2>. QED BY <2>3, ClientReads
<1>12. CASE AskEdit(c)
  <2>1. Reads(c, v, "runs", "edit", arg[c]) /\ pc[c] \in Unread
    BY <1>1, <1>5, <1>6, <1>8, <1>12 DEF Reads, AskEdit, Goto
  <2>2. SessionOK("runs", v, db) /\ ClientOK("runs", v, "edit", arg[c], db)
    BY <1>7, <2>1
  <2>3. SoundRead(c, v, "runs", "edit", arg[c]) BY <1>1, <1>3, <1>8, <2>1, <2>2 DEF SoundRead
  <2>. QED BY <2>3, ClientReads
<1>13. ASSUME NEW r \in Runs, AskCancelRun(c, r) PROVE IInv'
  <2>1. Reads(c, u, "attempts", "cancel_run", r) /\ pc[c] \in Unread
    BY <1>1, <1>5, <1>6, <1>8, <1>13 DEF Reads, AskCancelRun, Goto
  <2>2. SessionOK("attempts", u, db) /\ ClientOK("attempts", u, "cancel_run", r, db)
    BY <1>7, <2>1
  <2>3. SoundRead(c, u, "attempts", "cancel_run", r) BY <1>1, <1>3, <1>8, <2>1, <2>2 DEF SoundRead
  <2>. QED BY <2>3, ClientReads
<1>14. ASSUME NEW r \in Runs, AskRetry(c, r) PROVE IInv'
  <2>1. Reads(c, u, "attempts", "retry", r) /\ pc[c] \in Unread
    BY <1>1, <1>5, <1>6, <1>8, <1>14 DEF Reads, AskRetry, Goto
  <2>2. SessionOK("attempts", u, db) /\ ClientOK("attempts", u, "retry", r, db)
    BY <1>7, <2>1
  <2>3. SoundRead(c, u, "attempts", "retry", r) BY <1>1, <1>3, <1>8, <2>1, <2>2 DEF SoundRead
  <2>. QED BY <2>3, ClientReads
<1>15. CASE ReadRuns(c)
  <2>1. Reads(c, u, "attempts", op[c], arg[c]) /\ pc[c] \in Unread
    BY <1>1, <1>5, <1>6, <1>8, <1>15 DEF Reads, ReadRuns, Goto, client
  <2>2. SessionOK("attempts", u, db) /\ ClientOK("attempts", u, op[c], arg[c], db)
    BY <1>7, <2>1
  <2>3. SoundRead(c, u, "attempts", op[c], arg[c]) BY <1>1, <1>3, <1>8, <2>1, <2>2 DEF SoundRead
  <2>. QED BY <2>3, ClientReads
<1>. QED BY <1>10, <1>11, <1>12, <1>13, <1>14, <1>15 DEF Request

\* The other reads of a request, the queue, and the write that timed out.
LEMMA ReadActs ==
  ASSUME IInv, NEW c \in Clients,
         \/ ReadAttempts(c) \/ ReadRetried(c) \/ ReadRetriedExperiment(c)
         \/ Enqueue(c) \/ RequestTimeout(c)
  PROVE  IInv'
<1>1. /\ db \in Db /\ view[c] \in View /\ c \in Sessions /\ arg[c] \in Runs /\ jobs \in Nat
      /\ op[c] \in {"none", "cancel_experiment", "cancel_run", "retry", "queue", "edit"}
      /\ op \in [Clients -> {"none", "cancel_experiment", "cancel_run",
                             "retry", "queue", "edit"}]
      /\ arg \in [Clients -> Runs] /\ view \in [Sessions -> View]
  BY Types DEF IInv, Sessions
<1>2. db.exp \in ExperimentStatus /\ db.gen \in Nat /\ db.att \in [Runs -> Rows]
      /\ view[c].gen \in Nat /\ view[c].att \in [Runs -> Rows]
      /\ \A r \in Runs : db.att[r] \in Rows
  BY <1>1, DbFields, ViewFields
<1>3. Step(db, c) /\ Stored(db) BY <1>1, NoStep DEF IInv
<1>4. view[c].gen <= db.gen BY <1>1 DEF IInv, ReadInv, SessionOK
<1>5. ClientOK(pc[c], view[c], op[c], arg[c], db) BY DEF IInv, ReadInv
<1>6. RowsRead(c) \in [Runs -> Rows] /\ (view[c].gen = db.gen => RowsRead(c) = db.att)
  <2>1. <<>> \in Rows BY DEF Rows
  <2>. QED BY <1>2, <2>1 DEF RowsRead
<1>. DEFINE v == [view[c] EXCEPT !.att = RowsRead(c)]
            u == [view[c] EXCEPT !.exp = db.exp]
<1>7. v \in View /\ v.att = RowsRead(c) /\ v.gen = view[c].gen
  BY <1>1, <1>6 DEF View
<1>8. u \in View /\ u.att = view[c].att /\ u.gen = view[c].gen
  BY <1>1, <1>2 DEF View
<1>9. /\ [view EXCEPT ![c].att = RowsRead(c)] = [view EXCEPT ![c] = v]
      /\ [view EXCEPT ![c].exp = db.exp] = [view EXCEPT ![c] = u]
      /\ [op EXCEPT ![c] = op[c]] = op /\ [arg EXCEPT ![c] = arg[c]] = arg
      /\ [view EXCEPT ![c] = view[c]] = view
  BY <1>1
<1>10. {"write", "experiment"} \subseteq Labels /\ {"write", "experiment"} \cap Unread = {}
  BY DEF Labels, Unread
<1>. HIDE DEF v, u
<1>11. ASSUME NEW l \in {"write", "experiment"}
       PROVE  /\ SessionOK(l, v, db) /\ SessionOK(l, u, db) /\ SessionOK(l, view[c], db)
  BY <1>4, <1>7, <1>8, <1>10 DEF SessionOK
<1>12. ASSUME NEW l \in {"write", "experiment"},
              op[c] = "retry" => RowsRead(c)[arg[c]] # <<>>
       PROVE  ClientOK(l, v, op[c], arg[c], db)
  <2>1. \A r \in Runs : Prolongs(db.att[r], db.att[r]) BY <1>2, RowRelations
  <2>2. v.gen = db.gen => \A r \in Runs : Prolongs(db.att[r], v.att[r])
    BY <1>6, <1>7, <2>1
  <2>. QED BY <1>7, <1>12, <2>2 DEF ClientOK
<1>20. CASE ReadAttempts(c)
  <2>1. Reads(c, v, "write", op[c], arg[c]) /\ op[c] # "retry"
    BY <1>1, <1>9, <1>20 DEF Reads, ReadAttempts, Goto, client
  <2>2. SessionOK("write", v, db) /\ ClientOK("write", v, op[c], arg[c], db)
    BY <1>11, <1>12, <2>1
  <2>3. SoundRead(c, v, "write", op[c], arg[c]) BY <1>1, <1>7, <1>10, <2>1, <2>2 DEF SoundRead
  <2>. QED BY <2>3, ClientReads
<1>21. CASE ReadRetried(c) /\ Retryable(RowsRead(c)[arg[c]])
  <2>1. Reads(c, v, "experiment", op[c], arg[c])
    BY <1>1, <1>9, <1>21 DEF Reads, ReadRetried, Goto, client
  <2>2. RowsRead(c)[arg[c]] # <<>> BY <1>21 DEF Retryable
  <2>3. SessionOK("experiment", v, db) /\ ClientOK("experiment", v, op[c], arg[c], db)
    BY <1>11, <1>12, <2>2
  <2>4. SoundRead(c, v, "experiment", op[c], arg[c]) BY <1>1, <1>7, <1>10, <2>1, <2>3 DEF SoundRead
  <2>. QED BY <2>4, ClientReads
<1>22. CASE ReadRetried(c) /\ ~Retryable(RowsRead(c)[arg[c]])
  <2>1. EndRequest(c) /\ UNCHANGED <<backend, db, locks, cur>> /\ jobs' \in Nat
    BY <1>1, <1>22 DEF ReadRetried
  <2>2. db' \in Db /\ Step(db', c) /\ Stored(db') BY <1>1, <1>3, <2>1
  <2>. QED BY <2>1, <2>2, RequestEnds
<1>23. CASE ReadRetriedExperiment(c)
  <2>1. Reads(c, u, "write", op[c], arg[c]) /\ pc[c] = "experiment"
    BY <1>1, <1>9, <1>23 DEF Reads, ReadRetriedExperiment, Goto, client
  <2>2. ClientOK("write", u, op[c], arg[c], db) BY <1>5, <1>8, <2>1 DEF ClientOK
  <2>3. SoundRead(c, u, "write", op[c], arg[c]) BY <1>1, <1>8, <1>10, <1>11, <2>1, <2>2 DEF SoundRead
  <2>. QED BY <2>3, ClientReads
<1>24. CASE Enqueue(c)
  <2>1. pc[c] = "enqueue" /\ op[c] = "queue" BY <1>5, <1>24 DEF Enqueue, ClientOK
  <2>2. CASE jobs' = jobs + 1 /\ Goto(c, "write") /\ UNCHANGED <<view, client>>
    <3>1. Reads(c, view[c], "write", op[c], arg[c])
      BY <1>1, <1>9, <1>24, <2>2 DEF Reads, Enqueue, Goto, client
    <3>2. ClientOK("write", view[c], op[c], arg[c], db) BY <1>5, <2>1 DEF ClientOK
    <3>3. SoundRead(c, view[c], "write", op[c], arg[c]) BY <1>1, <1>10, <1>11, <3>1, <3>2 DEF SoundRead
    <3>. QED BY <3>3, ClientReads
  <2>3. CASE jobs' \in {jobs, jobs + 1} /\ EndRequest(c)
    <3>1. EndRequest(c) /\ UNCHANGED <<backend, db, locks, cur>> /\ jobs' \in Nat
      BY <1>1, <1>24, <2>3 DEF Enqueue
    <3>2. db' \in Db /\ Step(db', c) /\ Stored(db') BY <1>1, <1>3, <3>1
    <3>. QED BY <3>1, <3>2, RequestEnds
  <2>. QED BY <1>24, <2>2, <2>3 DEF Enqueue
<1>25. CASE RequestTimeout(c)
  <2>1. EndRequest(c) /\ UNCHANGED <<backend, db, locks, cur>> /\ jobs' \in Nat
    BY <1>1, <1>25 DEF RequestTimeout
  <2>2. db' \in Db /\ Step(db', c) /\ Stored(db') BY <1>1, <1>3, <2>1
  <2>. QED BY <2>1, <2>2, RequestEnds
<1>. QED BY <1>20, <1>21, <1>22, <1>23, <1>24, <1>25
-----------------------------------------------------------------------------
\* A commit is not blocked: if a worker is at work, the rows it has locked
\* are not among those the request writes.
LEMMA Unblocked ==
  ASSUME IInv, NEW c \in Clients, ~Blocked(c), NEW w \in Workers, pc[w] \in Locked
  PROVE  /\ ~WritesExperiment(c)
         /\ \A r \in touched : ~WritesRun(c, r)
<1>1. lock = w /\ NoOne \notin Workers
  BY SessionsAssumption DEF IInv, LockInv, Sessions
<1>. QED BY <1>1 DEF Blocked

\* What the commit of each request makes of db is a step.
LEMMA CancelCommits ==
  ASSUME IInv, NEW c \in Clients, CommitCancelExperiment(c) \/ CommitCancelRun(c)
  PROVE  db' \in Db /\ Step(db', c) /\ Stored(db')
<1>1. /\ db \in Db /\ view[c] \in View /\ c \in Sessions /\ arg[c] \in Runs
  BY Types DEF IInv, Sessions
<1>2. Step(db, c) /\ Stored(db) BY <1>1, NoStep DEF IInv
<1>. DEFINE v == view[c]
<1>3. CASE CommitCancelExperiment(c)
  <2>1. op[c] = "cancel_experiment" /\ ~Blocked(c)
    BY <1>3 DEF CommitCancelExperiment, Writes
  <2>. DEFINE d == CanceledRuns(v, Runs)
              e == [d EXCEPT !.exp = Column(v.exp, "canceled", d.exp)]
  <2>2. db' = db \/ db' = e BY <1>3 DEF CommitCancelExperiment
  <2>3. d \in Db /\ d.gen = db.gen /\ d.audited = db.audited BY <1>1, CanceledFields
  <2>4. e \in Db /\ e.att = d.att /\ e.gen = db.gen /\ e.audited = db.audited
    <3>. HIDE DEF d
    <3>1. Column(v.exp, "canceled", d.exp) \in ExperimentStatus
      BY <2>3, DbFields DEF Column, ExperimentStatus
    <3>. QED BY <2>3, <3>1 DEF Db
  <2>5. ASSUME NEW w \in Workers \ {c}, pc[w] \in Locked, NEW r \in Runs \cap touched
        PROVE  ~Cancels(v, {r})
    <3>1. ~WritesRun(c, r) BY <2>1, <2>5, Unblocked
    <3>. QED BY <2>1, <3>1 DEF WritesRun
  <2>6. Step(e, c) /\ Stored(e)
    <3>1. Runs \in SUBSET Runs OBVIOUS
    <3>. HIDE DEF e
    <3>. QED BY <1>1, <2>4, <2>5, <3>1, CancelStep
  <2>. HIDE DEF e
  <2>. QED BY <1>1, <1>2, <2>2, <2>4, <2>6
<1>4. CASE CommitCancelRun(c)
  <2>1. op[c] = "cancel_run" /\ ~Blocked(c)
    BY <1>4 DEF CommitCancelRun, Writes
  <2>. DEFINE R == {arg[c]}
              d == CanceledRuns(v, R)
              e == [d EXCEPT !.audited = d.audited \cup R]
  <2>2. db' = db \/ db' = e BY <1>4 DEF CommitCancelRun
  <2>3. d \in Db /\ d.gen = db.gen /\ d.audited = db.audited BY <1>1, CanceledFields
  <2>4. e \in Db /\ e.att = d.att /\ e.gen = db.gen /\ db.audited \subseteq e.audited
    <3>1. d.audited \cup R \subseteq Runs BY <1>1, <2>3, DbFields
    <3>. HIDE DEF d, R
    <3>. QED BY <2>3, <3>1 DEF Db
  <2>5. ASSUME NEW w \in Workers \ {c}, pc[w] \in Locked, NEW r \in R \cap touched
        PROVE  ~Cancels(v, {r})
    <3>1. ~WritesRun(c, r) BY <2>1, <2>5, Unblocked
    <3>. QED BY <2>1, <2>5, <3>1 DEF WritesRun
  <2>6. Step(e, c) /\ Stored(e)
    <3>1. R \in SUBSET Runs BY <1>1
    <3>. HIDE DEF e, R
    <3>. QED BY <1>1, <2>4, <2>5, <3>1, CancelStep
  <2>. HIDE DEF e
  <2>. QED BY <1>1, <1>2, <2>2, <2>4, <2>6
<1>. QED BY <1>3, <1>4

LEMMA RetryCommits ==
  ASSUME IInv, NEW c \in Clients, CommitRetry(c)
  PROVE  db' \in Db /\ Step(db', c) /\ Stored(db')
<1>. DEFINE v   == view[c]
            r   == arg[c]
            row == RetryRow(v.att[r], Len(v.att[r]), TRUE)
            e   == [db EXCEPT
                      !.att[r] = Append(@, row),
                      !.run[r] = Column(v.run[r], "pending", @),
                      !.exp = IF v.exp = "canceled" THEN @ ELSE Column(v.exp, "queued", @),
                      !.audited = @ \cup {r}]
<1>1. /\ db \in Db /\ v \in View /\ c \in Sessions /\ r \in Runs
      /\ pc[c] = "write" /\ op[c] = "retry"
  BY Types DEF IInv, Sessions, CommitRetry, Writes
<1>2. Step(db, c) /\ Stored(db) BY <1>1, NoStep DEF IInv
<1>3. db' = db \/ (v.gen = db.gen /\ ~Taken(r, row) /\ db' = e) BY DEF CommitRetry
<1>4. ASSUME v.gen = db.gen, ~Taken(r, row)
      PROVE  e \in Db /\ Step(e, c) /\ Stored(e)
  <2>. DEFINE s == v.att[r]
              t == db.att[r]
              u == Append(t, row)
  <2>1. /\ s \in Rows /\ t \in Rows /\ db.att \in [Runs -> Rows]
        /\ db.run \in [Runs -> RunStatus] /\ db.exp \in ExperimentStatus
        /\ db.audited \subseteq Runs /\ DOMAIN t = 1 .. Len(t)
        /\ \A x \in Runs : db.att[x] \in Rows
    BY <1>1, DbFields, ViewFields DEF Rows
  <2>2. s # <<>> /\ Prolongs(t, s)
    <3>1. ClientOK(pc[c], view[c], op[c], arg[c], db) BY DEF IInv, ReadInv
    <3>. QED BY <1>1, <1>4, <3>1 DEF ClientOK
  <2>3. Chained(t) BY <1>1 DEF IInv, Stored
  <2>4. \A i \in 1 .. Len(t) : ~(/\ t[i].parent = row.parent
                                 /\ t[i].attempt_number = row.attempt_number)
    BY <1>4, <2>1 DEF Taken
  <2>5. /\ u \in Rows /\ Appends(u, t) /\ Chained(u)
        /\ Len(u) = Len(t) + 1 /\ u[Len(t) + 1].calls = 0
    BY <2>1, <2>2, <2>3, <2>4, RetryChains
  <2>. DEFINE att == [db.att EXCEPT ![r] = u]
              run == [db.run EXCEPT ![r] = Column(v.run[r], "pending", @)]
              exp == IF v.exp = "canceled" THEN db.exp ELSE Column(v.exp, "queued", db.exp)
  <2>. HIDE DEF u
  <2>6. att \in [Runs -> Rows] BY <2>1, <2>5
  <2>7. run \in [Runs -> RunStatus] BY <2>1 DEF Column, RunStatus
  <2>8. exp \in ExperimentStatus BY <2>1 DEF Column, ExperimentStatus
  <2>9. \A x \in Runs : att[x] = IF x = r THEN u ELSE db.att[x] BY <2>1
  <2>10. e = [db EXCEPT !.att = att, !.run = run, !.exp = exp, !.audited = db.audited \cup {r}]
    BY <1>1 DEF Db, u
  <2>. HIDE DEF att, run, exp, e
  <2>11. /\ e \in Db /\ e.gen = db.gen /\ e.att = att /\ e.audited = db.audited \cup {r}
    BY <1>1, <2>1, <2>6, <2>7, <2>8, <2>10 DEF Db
  <2>12. ASSUME NEW x \in Runs PROVE Appends(e.att[x], db.att[x]) /\ Chained(e.att[x])
    <3>1. CASE x = r BY <2>5, <2>9, <2>11, <3>1
    <3>2. CASE x # r
      <4>1. e.att[x] = db.att[x] BY <2>9, <2>11, <3>2
      <4>2. Chained(db.att[x]) BY DEF IInv, Stored
      <4>. QED BY <2>1, <4>1, <4>2, RowRelations
    <3>. QED BY <3>1, <3>2
  <2>13. e.att \in [Runs -> Rows] BY <2>6, <2>11
  <2>14. KeepsAll(e)
    <3>1. \A x \in Runs : Keeps(e.att[x], db.att[x]) BY <2>1, <2>12, <2>13, RowRelations
    <3>. QED BY <2>11, <3>1 DEF KeepsAll
  <2>15. Respects(e, c)
    <3>1. touched \subseteq Runs BY Types DEF IInv
    <3>. QED BY <2>12, <3>1 DEF Respects
  <2>16. Audited(e) BY <2>11 DEF Audited
  <2>. QED BY <2>11, <2>12, <2>14, <2>15, <2>16 DEF Step, Stored
<1>. HIDE DEF e
<1>. QED BY <1>1, <1>2, <1>3, <1>4

LEMMA EditCommits ==
  ASSUME IInv, NEW c \in Clients, CommitEdit(c) \/ CommitQueue(c)
  PROVE  db' \in Db /\ Step(db', c) /\ Stored(db')
<1>1. db \in Db /\ c \in Sessions BY Types DEF IInv, Sessions
<1>2. Step(db, c) /\ Stored(db) BY <1>1, NoStep DEF IInv
<1>3. CASE CommitQueue(c)
  <2>. DEFINE d == [db EXCEPT !.exp = "queued"]
  <2>1. db' = d BY <1>3 DEF CommitQueue
  <2>2. d \in Db /\ d.att = db.att /\ d.gen = db.gen /\ d.audited = db.audited
    BY <1>1 DEF Db, ExperimentStatus
  <2>3. Step(d, c) /\ Stored(d) BY <1>1, <2>2, SameRowsStep
  <2>. QED BY <2>1, <2>2, <2>3
<1>4. CASE CommitEdit(c)
  <2>. DEFINE d == [db EXCEPT !.run = [r \in Runs |-> "pending"], !.att = NewRows,
                              !.gen = @ + 1]
  <2>1. op[c] = "edit" /\ ~Blocked(c) /\ (db' = db \/ (Deletable /\ db' = d))
    BY <1>4 DEF CommitEdit, Writes
  <2>2. lock = NoOne BY <2>1 DEF Blocked, WritesExperiment
  <2>3. ReplicateRow(1) \in RunAttempt /\ ReplicateRow(1).parent = 0
        /\ ReplicateRow(1).calls = 0
    BY DEF ReplicateRow, RunAttempt, AttemptStatus, ErrorKind, FailureReason
  <2>4. ASSUME NEW row \in RunAttempt, row.parent = 0
        PROVE  <<row>> \in Rows /\ Len(<<row>>) = 1 /\ <<row>>[1] = row /\ Chained(<<row>>)
    BY <2>4 DEF Rows, Chained
  <2>5. \A r \in Runs : /\ NewRows[r] \in Rows /\ Chained(NewRows[r])
                        /\ \A i \in 1 .. Len(NewRows[r]) : NewRows[r][i].calls = 0
    <3>. DEFINE row == ReplicateRow(1)
    <3>1. \A r \in Runs : NewRows[r] = <<row>> BY DEF NewRows
    <3>2. row \in RunAttempt /\ row.parent = 0 /\ row.calls = 0 BY <2>3
    <3>. HIDE DEF row
    <3>3. /\ <<row>> \in Rows /\ Len(<<row>>) = 1 /\ <<row>>[1] = row
          /\ Chained(<<row>>)
      BY <2>4, <3>2
    <3>4. \A i \in 1 .. Len(<<row>>) : <<row>>[i].calls = 0 BY <3>2, <3>3
    <3>. DEFINE one == <<row>>
    <3>5. one \in Rows /\ Chained(one) /\ (\A i \in 1 .. Len(one) : one[i].calls = 0)
      BY <3>3, <3>4
    <3>6. \A r \in Runs : NewRows[r] = one BY <3>1
    <3>. HIDE DEF one
    <3>. QED BY <3>5, <3>6
  <2>6. NewRows \in [Runs -> Rows] BY <2>5 DEF NewRows
  <2>7. [r \in Runs |-> "pending"] \in [Runs -> RunStatus] BY DEF RunStatus
  <2>8. d \in Db /\ d.att = NewRows /\ d.gen = db.gen + 1
    <3>1. db.gen + 1 \in Nat BY <1>1, DbFields
    <3>. QED BY <1>1, <2>6, <2>7, <3>1 DEF Db
  <2>. HIDE DEF d
  <2>9. Stored(d) BY <2>5, <2>8 DEF Stored, Audited
  <2>10. Deletable => Step(d, c) BY <2>2, <2>8 DEF Step, Edits, Deletable
  <2>. QED BY <1>1, <1>2, <2>1, <2>8, <2>9, <2>10
<1>. QED BY <1>3, <1>4

\* The commits of the requests.
LEMMA CommitActs ==
  ASSUME IInv, NEW c \in Clients,
         \/ CommitCancelExperiment(c) \/ CommitCancelRun(c) \/ CommitRetry(c)
         \/ CommitQueue(c) \/ CommitEdit(c)
  PROVE  IInv' /\ db' \in Db /\ Step(db', c)
<1>1. db' \in Db /\ Step(db', c) /\ Stored(db')
  BY CancelCommits, RetryCommits, EditCommits
<1>2. EndRequest(c) /\ UNCHANGED <<backend, locks, cur>> /\ jobs' = jobs
  BY DEF CommitCancelExperiment, CommitCancelRun, CommitRetry, CommitQueue, CommitEdit
<1>3. jobs' \in Nat BY <1>2, Types DEF IInv
<1>. QED BY <1>1, <1>2, <1>3, RequestEnds
-----------------------------------------------------------------------------
\* A worker that does not hold the lock, before and after.
LEMMA WorkerWaits ==
  ASSUME IInv, NEW w \in Workers, NEW v \in View, NEW l \in Labels,
         pc[w] \notin Locked, l \notin Locked,
         view' = [view EXCEPT ![w] = v], pc' = [pc EXCEPT ![w] = l],
         UNCHANGED <<backend, locks, client, cur>>, jobs' \in Nat,
         db' \in Db, Step(db', w), Stored(db'), SessionOK(l, v, db')
  PROVE  IInv'
<1>1. /\ lock \in Workers \cup {NoOne} /\ touched \subseteq Runs
      /\ cur \in [Workers -> 0 .. NRuns + 1]
  BY Types DEF IInv
<1>2. lock # w /\ (lock = NoOne => touched = {}) BY DEF IInv, LockInv
<1>3. lock' = lock /\ touched' = touched BY DEF locks
<1>4. cur[w] \in 0 .. NRuns + 1 /\ cur' = [cur EXCEPT ![w] = cur[w]] BY <1>1
<1>5. UNCHANGED <<backend, client>> OBVIOUS
<1>6. WorkerOK(l, v, touched', db') BY DEF WorkerOK
<1>7. l \notin AtRun BY DEF AtRun, Locked
<1>8. l \in Locked <=> lock' = w BY <1>2, <1>3
<1>9. \A x \in Workers \ {w} : lock' = x <=> lock = x BY <1>3
<1>10. lock' \in Workers \cup {NoOne} /\ touched' \subseteq Runs BY <1>1, <1>3
<1>11. (lock' = NoOne => touched' = {}) /\ touched' = touched BY <1>2, <1>3
<1>. QED BY <1>4, <1>5, <1>6, <1>7, <1>8, <1>9, <1>10, <1>11, WorkerStep

\* A worker that holds the lock, before and after: it reads, and works on rows of
\* its own.
LEMMA WorkerWorks ==
  ASSUME IInv, NEW w \in Workers, NEW v \in View, NEW l \in Labels,
         NEW k \in 0 .. NRuns + 1,
         pc[w] \in Locked, l \in Locked, l # "load_runs",
         view' = [view EXCEPT ![w] = v], pc' = [pc EXCEPT ![w] = l],
         cur' = [cur EXCEPT ![w] = k],
         UNCHANGED <<backend, db, jobs, lock, client>>,
         touched' \subseteq Runs, l \in AtRun => k \in Runs /\ k \in touched',
         v.gen = view[w].gen, WorkerOK(l, v, touched', db)
  PROVE  IInv'
<1>1. lock = w /\ w # NoOne BY SessionsAssumption DEF IInv, LockInv, Sessions
<1>2. w \in Sessions /\ jobs \in Nat /\ lock \in Workers \cup {NoOne}
  BY Types DEF IInv, Sessions
<1>3. db \in Db /\ Step(db, w) /\ Stored(db) BY <1>2, NoStep, Types DEF IInv
<1>4. SessionOK(l, v, db)
  <2>1. view[w].gen <= db.gen BY <1>2 DEF IInv, ReadInv, SessionOK
  <2>2. l \notin Unread BY DEF Locked, Unread
  <2>. QED BY <2>1, <2>2 DEF SessionOK
<1>5. db' = db /\ lock' = lock /\ jobs' = jobs OBVIOUS
<1>6. /\ db' \in Db /\ Step(db', w) /\ Stored(db') /\ SessionOK(l, v, db')
      /\ WorkerOK(l, v, touched', db')
  BY <1>3, <1>4, <1>5
<1>7. UNCHANGED <<backend, client>> /\ jobs' \in Nat BY <1>2, <1>5
<1>8. l \in Locked <=> lock' = w BY <1>1, <1>5
<1>9. \A x \in Workers \ {w} : lock' = x <=> lock = x BY <1>5
<1>10. lock' \in Workers \cup {NoOne} /\ lock' # NoOne BY <1>1, <1>2, <1>5
<1>. QED BY <1>6, <1>7, <1>8, <1>9, <1>10, WorkerStep

\* It takes other rows for a run it has locked, or rows of a canceled run.
LEMMA TakesRows ==
  ASSUME IInv, NEW w \in Workers, pc[w] \in Locked, NEW r \in Runs,
         NEW n \in Rows, Works(n, db.att[r]), NEW l,
         NEW v, r \in touched \/ v.run[r] = "canceled",
         \A x \in Runs : v.att[x] = IF x = r THEN n ELSE view[w].att[x],
         \A x \in Runs : x # r => v.run[x] = view[w].run[x]
  PROVE  WorkerOK(l, v, touched, db)
<1>1. WorkerOK(pc[w], view[w], touched, db) BY DEF IInv, ReadInv
<1>2. \A x \in Runs : IF x \in touched THEN Works(view[w].att[x], db.att[x])
                      ELSE view[w].att[x] = <<>> \/ view[w].run[x] = "canceled"
  BY <1>1 DEF WorkerOK
<1>3. ASSUME NEW x \in Runs
      PROVE  IF x \in touched THEN Works(v.att[x], db.att[x])
             ELSE v.att[x] = <<>> \/ v.run[x] = "canceled"
  <2>1. CASE x = r BY <2>1
  <2>2. CASE x # r BY <1>2, <2>2
  <2>. QED BY <2>1, <2>2
<1>. QED BY <1>3 DEF WorkerOK

\* It begins a run of which it has read no attempts.
LEMMA TakesRun ==
  ASSUME IInv, NEW w \in Workers, pc[w] \in Locked, NEW r \in Runs,
         view[w].run[r] # "canceled", NEW l, NEW v, v.att = view[w].att,
         \A x \in Runs : x # r => v.run[x] = view[w].run[x]
  PROVE  WorkerOK(l, v, touched \cup {r}, db)
<1>1. WorkerOK(pc[w], view[w], touched, db) BY DEF IInv, ReadInv
<1>2. db.att[r] \in Rows BY Types, DbFields DEF IInv
<1>3. \A x \in Runs : IF x \in touched THEN Works(v.att[x], db.att[x])
                      ELSE v.att[x] = <<>> \/ view[w].run[x] = "canceled"
  BY <1>1 DEF WorkerOK
<1>4. Works(v.att[r], db.att[r])
  <2>1. Works(<<>>, db.att[r]) BY <1>2, RowRelations
  <2>. QED BY <1>3, <2>1
<1>. QED BY <1>3, <1>4 DEF WorkerOK

\* One row of the worker's own rows gets another status, and perhaps a call.
LEMMA WorksOn ==
  ASSUME NEW s \in Rows, NEW t \in Rows, Works(s, t), NEW i, NEW row,
         i \in 1 .. Len(s) =>
           /\ row \in RunAttempt /\ row.status # "queued"
           /\ row.parent = s[i].parent /\ row.attempt_number = s[i].attempt_number
           /\ row.calls >= s[i].calls
  PROVE  [s EXCEPT ![i] = row] \in Rows /\ Works([s EXCEPT ![i] = row], t)
<1>. DEFINE u == [s EXCEPT ![i] = row]
<1>1. DOMAIN s = 1 .. Len(s) /\ Len(s) \in Nat BY DEF Rows
<1>2. CASE i \notin 1 .. Len(s)
  <2>1. u = [j \in DOMAIN s |-> s[j]] BY <1>1, <1>2
  <2>2. s = [j \in DOMAIN s |-> s[j]] BY DEF Rows
  <2>. QED BY <2>1, <2>2
<1>3. CASE i \in 1 .. Len(s)
  <2>1. row \in RunAttempt BY <1>3
  <2>2. /\ u \in Rows /\ Len(u) = Len(s)
        /\ \A j \in 1 .. Len(s) : u[j] = IF j = i THEN row ELSE s[j]
    BY <1>3, <2>1, ExceptRow
  <2>3. \A j \in 1 .. Len(s) : s[j].calls \in Nat /\ t[j].calls \in Nat
    <3>1. \A j \in 1 .. Len(s) : j \in 1 .. Len(t) BY <1>1 DEF Works, Prolongs, Rows
    <3>. QED BY <3>1, RowType
  <2>4. row.calls \in Nat BY <2>1 DEF RunAttempt
  <2>. HIDE DEF u
  <2>5. ASSUME NEW j \in 1 .. Len(s)
        PROVE  /\ t[j].parent = u[j].parent /\ t[j].attempt_number = u[j].attempt_number
               /\ u[j].calls >= t[j].calls
               /\ u[j].status = "queued" => t[j].status = "queued"
    <3>1. /\ t[j].parent = s[j].parent /\ t[j].attempt_number = s[j].attempt_number
          /\ s[j].calls >= t[j].calls
          /\ s[j].status = "queued" => t[j].status = "queued"
      BY DEF Works, Prolongs
    <3>2. CASE j = i BY <1>3, <2>2, <2>3, <2>4, <3>1, <3>2
    <3>3. CASE j # i BY <2>2, <3>1, <3>3
    <3>. QED BY <3>2, <3>3
  <2>6. Works(u, t) BY <2>2, <2>5 DEF Works, Prolongs
  <2>. QED BY <2>2, <2>6 DEF u
<1>. QED BY <1>2, <1>3

\* The rows a call is started for, and the rows when it has ended.
LEMMA CallWorks ==
  ASSUME NEW s \in Rows, NEW t \in Rows, Works(s, t), NEW i,
         NEW q \in {"succeeded", "failed"}
  PROVE  /\ [s EXCEPT ![i] = Called(s[i])] \in Rows
         /\ Works([s EXCEPT ![i] = Called(s[i])], t)
         /\ [s EXCEPT ![i].status = q] \in Rows
         /\ Works([s EXCEPT ![i].status = q], t)
<1>. DEFINE one == Called(s[i])
            two == [s[i] EXCEPT !.status = q]
<1>1. ASSUME i \in 1 .. Len(s)
      PROVE  /\ one \in RunAttempt /\ one.status # "queued"
             /\ one.parent = s[i].parent /\ one.attempt_number = s[i].attempt_number
             /\ one.calls >= s[i].calls
             /\ two \in RunAttempt /\ two.status # "queued"
             /\ two.parent = s[i].parent /\ two.attempt_number = s[i].attempt_number
             /\ two.calls >= s[i].calls
  <2>1. s[i] \in RunAttempt /\ s[i].calls \in Nat BY <1>1, RowType
  <2>2. /\ two \in RunAttempt /\ two.parent = s[i].parent /\ two.status = q
        /\ two.attempt_number = s[i].attempt_number /\ two.calls = s[i].calls
    BY <2>1 DEF RunAttempt, AttemptStatus
  <2>3. /\ one \in RunAttempt /\ one.parent = s[i].parent /\ one.status = "running"
        /\ one.attempt_number = s[i].attempt_number /\ one.calls = s[i].calls + 1
    <3>1. ASSUME NEW row \in RunAttempt
          PROVE  /\ row.calls + 1 \in Nat
                 /\ Called(row) = [row EXCEPT !.status = "running", !.calls = row.calls + 1]
      BY DEF Called, RunAttempt
    <3>2. ASSUME NEW row \in RunAttempt, NEW n \in Nat
          PROVE  LET r == [row EXCEPT !.status = "running", !.calls = n]
                 IN  /\ r \in RunAttempt /\ r.parent = row.parent /\ r.status = "running"
                     /\ r.attempt_number = row.attempt_number /\ r.calls = n
      BY DEF RunAttempt, AttemptStatus
    <3>3. ASSUME NEW row \in RunAttempt
          PROVE  /\ Called(row) \in RunAttempt /\ Called(row).parent = row.parent
                 /\ Called(row).status = "running" /\ Called(row).calls = row.calls + 1
                 /\ Called(row).attempt_number = row.attempt_number
      <4>. DEFINE n == row.calls + 1
      <4>1. n \in Nat /\ Called(row) = [row EXCEPT !.status = "running", !.calls = n]
        BY <3>1
      <4>. HIDE DEF n
      <4>2. LET r == [row EXCEPT !.status = "running", !.calls = n]
            IN  /\ r \in RunAttempt /\ r.parent = row.parent /\ r.status = "running"
                /\ r.attempt_number = row.attempt_number /\ r.calls = n
        BY <3>2, <4>1
      <4>. QED BY <4>1, <4>2 DEF n
    <3>. QED BY <2>1, <3>3
  <2>. HIDE DEF one, two
  <2>. QED BY <2>1, <2>2, <2>3
<1>2. [s EXCEPT ![i].status = q] = [s EXCEPT ![i] = two] OBVIOUS
<1>. HIDE DEF one, two
<1>3. [s EXCEPT ![i] = one] \in Rows /\ Works([s EXCEPT ![i] = one], t)
  BY <1>1, WorksOn
<1>4. [s EXCEPT ![i] = two] \in Rows /\ Works([s EXCEPT ![i] = two], t)
  BY <1>1, WorksOn
<1>. QED BY <1>2, <1>3, <1>4 DEF one

\* The steps of a worker that does not hold the lock, Begin excepted.
LEMMA WaitActs ==
  ASSUME IInv, NEW w \in Workers,
         \/ TakeJob(w) \/ GetExperiment(w) \/ ReadCanceled(w) \/ CommitCanceled(w)
         \/ JobTimeout(w)
  PROVE  IInv' /\ db' \in Db /\ Step(db', w)
<1>1. /\ db \in Db /\ view[w] \in View /\ w \in Sessions /\ jobs \in Nat
      /\ view \in [Sessions -> View] /\ lock \in Workers \cup {NoOne}
  BY Types DEF IInv, Sessions
<1>2. db.exp \in ExperimentStatus /\ db.run \in [Runs -> RunStatus] /\ db.gen \in Nat
      /\ db.att \in [Runs -> Rows]
  BY <1>1, DbFields
<1>3. Step(db, w) /\ Stored(db) BY <1>1, NoStep DEF IInv
<1>4. view[w].gen <= db.gen /\ (pc[w] \in Unread => view[w].att = [r \in Runs |-> <<>>])
  BY <1>1 DEF IInv, ReadInv, SessionOK
<1>5. Blank \in View /\ \A d \in Db : SessionOK("idle", Blank, d) BY <1>1, BlankOK
<1>6. CASE TakeJob(w)
  <2>1. /\ view' = [view EXCEPT ![w] = view[w]] /\ pc' = [pc EXCEPT ![w] = "get"]
        /\ UNCHANGED <<backend, db, locks, client, cur>> /\ jobs' \in Nat
        /\ pc[w] = "idle"
    BY <1>1, <1>6 DEF TakeJob, Goto
  <2>2. SessionOK("get", view[w], db') BY <1>4, <2>1 DEF SessionOK, Unread
  <2>3. "get" \in Labels /\ "get" \notin Locked /\ pc[w] \notin Locked
    BY <2>1 DEF Labels, Locked
  <2>4. db' \in Db /\ Step(db', w) /\ Stored(db') BY <1>1, <1>3, <2>1
  <2>. QED BY <1>1, <2>1, <2>2, <2>3, <2>4, WorkerWaits
<1>7. CASE GetExperiment(w)
  <2>. DEFINE v == [view[w] EXCEPT !.exp = db.exp, !.gen = db.gen]
              l == IF db.exp = "canceled" THEN "cancel" ELSE "begin"
  <2>1. /\ view' = [view EXCEPT ![w] = v] /\ pc' = [pc EXCEPT ![w] = l]
        /\ UNCHANGED <<backend, db, locks, client, cur>> /\ jobs' \in Nat
        /\ pc[w] = "get"
    BY <1>1, <1>7 DEF GetExperiment, Goto
  <2>2. v \in View /\ v.att = view[w].att /\ v.gen = db.gen BY <1>1, <1>2 DEF View
  <2>3. l \in Labels /\ l \notin Locked /\ pc[w] \notin Locked /\ pc[w] \in Unread
    BY <2>1 DEF Labels, Locked, Unread
  <2>. HIDE DEF v, l
  <2>4. SessionOK(l, v, db') BY <1>2, <1>4, <2>1, <2>2, <2>3 DEF SessionOK
  <2>5. db' \in Db /\ Step(db', w) /\ Stored(db') BY <1>1, <1>3, <2>1
  <2>. QED BY <2>1, <2>2, <2>3, <2>4, <2>5, WorkerWaits
<1>8. CASE ReadCanceled(w)
  <2>. DEFINE v == [view[w] EXCEPT !.run = db.run, !.att = db.att, !.gen = db.gen]
  <2>1. /\ view' = [view EXCEPT ![w] = v] /\ pc' = [pc EXCEPT ![w] = "commit_canceled"]
        /\ UNCHANGED <<backend, db, locks, client, cur>> /\ jobs' \in Nat
        /\ pc[w] = "cancel"
    BY <1>1, <1>8 DEF ReadCanceled, Goto
  <2>2. v \in View /\ v.gen = db.gen BY <1>1, <1>2 DEF View
  <2>3. /\ "commit_canceled" \in Labels /\ "commit_canceled" \notin Locked
        /\ "commit_canceled" \notin Unread /\ pc[w] \notin Locked
    BY <2>1 DEF Labels, Locked, Unread
  <2>. HIDE DEF v
  <2>4. SessionOK("commit_canceled", v, db') BY <1>2, <2>1, <2>2, <2>3 DEF SessionOK
  <2>5. db' \in Db /\ Step(db', w) /\ Stored(db') BY <1>1, <1>3, <2>1
  <2>. QED BY <2>1, <2>2, <2>3, <2>4, <2>5, WorkerWaits
<1>9. "idle" \in Labels /\ "idle" \notin Locked BY DEF Labels, Locked
<1>10. CASE CommitCanceled(w)
  <2>. DEFINE d == CanceledRuns(view[w], Runs)
  <2>1. /\ view' = [view EXCEPT ![w] = Blank] /\ pc' = [pc EXCEPT ![w] = "idle"]
        /\ UNCHANGED <<backend, locks, client, cur>> /\ jobs' \in Nat
        /\ pc[w] = "commit_canceled" /\ (db' = db \/ db' = d)
        /\ lock = NoOne \/ \A r \in touched : ~Cancels(view[w], {r})
    BY <1>1, <1>10 DEF CommitCanceled, End, Goto
  <2>2. d \in Db /\ d.gen = db.gen /\ d.audited = db.audited BY <1>1, CanceledFields
  <2>3. ASSUME NEW x \in Workers \ {w}, pc[x] \in Locked, NEW r \in Runs \cap touched
        PROVE  ~Cancels(view[w], {r})
    <3>1. lock # NoOne BY <1>1, <2>3, AloneAtWork
    <3>. QED BY <2>1, <2>3, <3>1
  <2>4. Step(d, w) /\ Stored(d)
    <3>1. Runs \in SUBSET Runs /\ db.audited \subseteq d.audited BY <2>2
    <3>2. d.att = CanceledRuns(view[w], Runs).att OBVIOUS
    <3>. HIDE DEF d
    <3>. QED BY <1>1, <2>2, <2>3, <3>1, <3>2, CancelStep
  <2>. HIDE DEF d
  <2>5. db' \in Db /\ Step(db', w) /\ Stored(db') BY <1>1, <1>3, <2>1, <2>2, <2>4
  <2>6. pc[w] \notin Locked BY <2>1 DEF Locked
  <2>. QED BY <1>5, <1>9, <2>1, <2>5, <2>6, WorkerWaits
<1>11. CASE JobTimeout(w)
  <2>1. /\ view' = [view EXCEPT ![w] = Blank] /\ pc' = [pc EXCEPT ![w] = "idle"]
        /\ UNCHANGED <<backend, db, locks, client, cur>> /\ jobs' \in Nat
        /\ pc[w] \in {"begin", "commit_canceled"}
    BY <1>1, <1>11 DEF JobTimeout, GiveUp, End, Goto
  <2>2. db' \in Db /\ Step(db', w) /\ Stored(db') BY <1>1, <1>3, <2>1
  <2>3. pc[w] \notin Locked BY <2>1 DEF Locked
  <2>. QED BY <1>5, <1>9, <2>1, <2>2, <2>3, WorkerWaits
<1>. QED BY <1>6, <1>7, <1>8, <1>10, <1>11

\* The lock is taken.
LEMMA BeginActs ==
  ASSUME IInv, NEW w \in Workers, Begin(w)
  PROVE  IInv'
<1>1. /\ db \in Db /\ view[w] \in View /\ w \in Sessions /\ jobs \in Nat
      /\ view \in [Sessions -> View] /\ touched \subseteq Runs
      /\ cur \in [Workers -> 0 .. NRuns + 1]
  BY Types DEF IInv, Sessions
<1>2. NoOne \notin Workers BY SessionsAssumption DEF Sessions
<1>3. Step(db, w) /\ Stored(db) BY <1>1, NoStep DEF IInv
<1>. DEFINE v == [view[w] EXCEPT !.exp = "running"]
<1>4. /\ view' = [view EXCEPT ![w] = v] /\ pc' = [pc EXCEPT ![w] = "load_runs"]
      /\ cur' = [cur EXCEPT ![w] = cur[w]] /\ lock = NoOne /\ lock' = w
      /\ UNCHANGED <<backend, client>> /\ db' = db /\ touched' = touched
      /\ jobs' = jobs /\ pc[w] = "begin"
  BY <1>1 DEF Begin, Goto
<1>5. v \in View /\ v.att = view[w].att /\ v.gen = view[w].gen
  BY <1>1 DEF View, ExperimentStatus
<1>. HIDE DEF v
<1>6. v.gen <= db.gen /\ v.att = [r \in Runs |-> <<>>]
  BY <1>1, <1>4, <1>5 DEF IInv, ReadInv, SessionOK, Unread
<1>7. SessionOK("load_runs", v, db') BY <1>4, <1>6 DEF SessionOK
<1>8. WorkerOK("load_runs", v, touched', db')
  <2>1. <<>> \in Rows BY DEF Rows
  <2>2. \A r \in Runs : Works(<<>>, db.att[r]) BY <1>1, <2>1, DbFields, RowRelations
  <2>. QED BY <1>4, <1>6, <2>2 DEF WorkerOK
<1>9. "load_runs" \in Labels /\ "load_runs" \in Locked /\ "load_runs" \notin AtRun
  BY DEF Labels, Locked, AtRun
<1>10. /\ db' \in Db /\ Step(db', w) /\ Stored(db') /\ jobs' \in Nat
       /\ lock' \in Workers \cup {NoOne} /\ touched' \subseteq Runs
       /\ lock' # NoOne /\ touched' = touched /\ cur[w] \in 0 .. NRuns + 1
       /\ \A x \in Workers \ {w} : lock' = x <=> lock = x
  BY <1>1, <1>2, <1>3, <1>4
<1>. QED BY <1>4, <1>5, <1>7, <1>8, <1>9, <1>10, WorkerStep

\* The lock is released, or a job that did not have it dies.
LEMMA EndActs ==
  ASSUME IInv, NEW w \in Workers, Finish(w) \/ Die(w)
  PROVE  IInv' /\ db' \in Db /\ Step(db', w)
<1>1. /\ db \in Db /\ view[w] \in View /\ w \in Sessions /\ jobs \in Nat
      /\ touched \subseteq Runs /\ lock \in Workers \cup {NoOne}
      /\ 0 \in 0 .. NRuns + 1
  BY Types, SessionsAssumption DEF IInv, Sessions
<1>2. NoOne \notin Workers BY SessionsAssumption DEF Sessions
<1>3. Step(db, w) /\ Stored(db) BY <1>1, NoStep DEF IInv
<1>4. /\ "idle" \in Labels /\ "idle" \notin Locked /\ "idle" \notin AtRun /\ "idle" # "load_runs"
  BY DEF Labels, Locked, AtRun
<1>5. ASSUME db' \in Db, Step(db', w), Stored(db')
      PROVE  IInv'
  <2>1. /\ view' = [view EXCEPT ![w] = Blank] /\ pc' = [pc EXCEPT ![w] = "idle"]
        /\ cur' = [cur EXCEPT ![w] = 0] /\ UNCHANGED <<backend, client>> /\ jobs' = jobs
    BY DEF Finish, Die, End, Goto
  <2>2. \/ lock = w /\ lock' = NoOne /\ touched' = {}
        \/ lock # w /\ lock' = lock /\ touched' = touched
    BY DEF Finish, Ends, Die, locks, IInv, LockInv, Locked
  <2>3. /\ lock' \in Workers \cup {NoOne} /\ touched' \subseteq Runs /\ lock' # w
        /\ lock # w => touched' = touched
        /\ \A x \in Workers \ {w} : lock' = x <=> lock = x
    BY <1>1, <1>2, <2>2
  <2>4. lock' = NoOne => touched' = {} BY <2>2 DEF IInv, LockInv
  <2>5. /\ Blank \in View /\ SessionOK("idle", Blank, db')
        /\ WorkerOK("idle", Blank, touched', db')
    BY <1>5, BlankOK
  <2>. QED BY <1>1, <1>4, <1>5, <2>1, <2>3, <2>4, <2>5, WorkerStep
<1>6. CASE Die(w)
  <2>1. db' = db BY <1>6 DEF Die
  <2>2. db' \in Db /\ Step(db', w) /\ Stored(db') BY <1>1, <1>3, <2>1
  <2>. QED BY <1>5, <2>2
<1>7. CASE Finish(w)
  <2>. DEFINE v   == view[w]
              run == [r \in Runs |-> IF r \in touched THEN v.run[r] ELSE db.run[r]]
              att == [r \in Runs |-> IF r \in touched THEN Merged(v.att[r], db.att[r])
                                     ELSE CancelStored(v.att[r], db.att[r])]
              exp == Verdict(v.exp, {v.run[r] : r \in Runs})
              aud == db.audited \cup {r \in touched : \E i \in DOMAIN v.att[r] :
                                                        v.att[r][i].calls > 0}
              d   == [db EXCEPT !.exp = exp, !.run = run, !.att = att, !.audited = aud]
  <2>1. db' = d /\ pc[w] = "run"
    <3>1. db' = Executed(w) /\ pc[w] = "run" BY <1>7 DEF Finish, Ends
    <3>2. Executed(w) = d BY <1>1 DEF Executed, Db
    <3>. QED BY <3>1, <3>2
  <2>2. /\ v.run \in [Runs -> RunStatus] /\ db.audited \subseteq Runs /\ db.exp \in ExperimentStatus
        /\ db.run \in [Runs -> RunStatus]
        /\ \A r \in Runs : /\ v.att[r] \in Rows /\ db.att[r] \in Rows
                           /\ DOMAIN v.att[r] = 1 .. Len(v.att[r])
    BY <1>1, DbFields, ViewFields DEF Rows
  <2>3. \A r \in touched : Works(v.att[r], db.att[r])
    <3>1. pc[w] \in Locked BY <2>1 DEF Locked
    <3>. QED BY <1>1, <3>1 DEF IInv, ReadInv, WorkerOK
  <2>4. ASSUME NEW r \in Runs
        PROVE  /\ att[r] \in Rows /\ Len(att[r]) = Len(db.att[r]) /\ Keeps(att[r], db.att[r])
               /\ \A i \in 1 .. Len(db.att[r]) :
                    \/ r \in touched /\ i <= Len(v.att[r]) /\ att[r][i] = v.att[r][i]
                    \/ att[r][i].calls = db.att[r][i].calls
    <3>1. CASE r \in touched
      <4>1. att[r] = Merged(v.att[r], db.att[r]) BY <3>1
      <4>2. Works(v.att[r], db.att[r]) /\ v.att[r] \in Rows /\ db.att[r] \in Rows
        BY <2>2, <2>3, <3>1
      <4>3. Len(v.att[r]) \in Nat BY <4>2 DEF Rows
      <4>. HIDE DEF att
      <4>4. /\ att[r] \in Rows /\ Len(att[r]) = Len(db.att[r]) /\ Keeps(att[r], db.att[r])
            /\ \A i \in 1 .. Len(db.att[r]) : i <= Len(v.att[r]) => att[r][i] = v.att[r][i]
            /\ \A i \in 1 .. Len(db.att[r]) : i > Len(v.att[r]) => att[r][i] = db.att[r][i]
        BY <4>1, <4>2, MergedKeeps
      <4>. QED BY <3>1, <4>3, <4>4
    <3>2. CASE r \notin touched
      <4>1. att[r] = CancelStored(v.att[r], db.att[r]) BY <3>2
      <4>2. v.att[r] \in Rows /\ db.att[r] \in Rows BY <2>2
      <4>. HIDE DEF att
      <4>. QED BY <4>1, <4>2, CancelStoredKeeps
    <3>. QED BY <3>1, <3>2
  <2>5. att \in [Runs -> Rows] /\ run \in [Runs -> RunStatus] BY <2>2, <2>4
  <2>6. exp \in ExperimentStatus BY DEF Verdict, ExperimentStatus
  <2>7. aud \subseteq Runs /\ db.audited \subseteq aud BY <1>1, <2>2
  <2>8. aud = {} => \A r \in touched : \A i \in 1 .. Len(v.att[r]) : ~(v.att[r][i].calls > 0)
    BY <1>1, <2>2
  <2>. HIDE DEF att, exp, aud, run
  <2>9. /\ d \in Db /\ d.gen = db.gen /\ d.att = att /\ d.audited = aud
    BY <1>1, <2>2, <2>5, <2>6, <2>7 DEF Db
  <2>. HIDE DEF d
  <2>10. KeepsAll(d) BY <2>4, <2>9 DEF KeepsAll
  <2>11. Respects(d, w)
    <3>1. lock = w BY <2>1 DEF IInv, LockInv, Locked
    <3>. QED BY <1>1, <3>1, AloneAtWork DEF Respects
  <2>12. ASSUME NEW r \in Runs PROVE Chained(d.att[r])
    <3>1. Chained(db.att[r]) BY DEF IInv, Stored
    <3>2. Prolongs(d.att[r], db.att[r]) BY <2>4, <2>9 DEF Keeps
    <3>. QED BY <2>2, <2>4, <2>9, <3>1, <3>2, ChainsStay
  <2>13. Audited(d)
    <3>1. SUFFICES ASSUME aud = {}, NEW r \in Runs, NEW i \in 1 .. Len(att[r])
                   PROVE  att[r][i].calls = 0
      BY <2>9 DEF Audited
    <3>2. i \in 1 .. Len(db.att[r]) BY <2>4, <3>1
    <3>3. CASE r \in touched /\ i <= Len(v.att[r]) /\ att[r][i] = v.att[r][i]
      <4>1. i \in 1 .. Len(v.att[r]) BY <2>2, <3>2, <3>3 DEF Rows
      <4>2. ~(v.att[r][i].calls > 0) BY <2>8, <3>1, <3>3, <4>1
      <4>3. v.att[r][i].calls \in Nat BY <2>2, <4>1, RowType
      <4>4. v.att[r][i].calls = 0 BY <4>2, <4>3
      <4>. QED BY <3>3, <4>4
    <3>4. CASE att[r][i].calls = db.att[r][i].calls
      <4>1. db.audited = {} BY <2>7, <3>1
      <4>2. db.att[r][i].calls = 0 BY <3>2, <4>1 DEF IInv, Stored, Audited
      <4>. QED BY <3>4, <4>2
    <3>. QED BY <2>4, <3>2, <3>3, <3>4
  <2>14. db' \in Db /\ Step(db', w) /\ Stored(db')
    BY <2>1, <2>9, <2>10, <2>11, <2>12, <2>13 DEF Step, Stored
  <2>. QED BY <1>5, <2>14
<1>. QED BY <1>6, <1>7

\* The steps of the worker that holds the lock.
LEMMA WorkActs ==
  ASSUME IInv, NEW w \in Workers,
         \/ LoadRuns(w) \/ SkipCanceledRun(w) \/ BeginRun(w) \/ LoadAttempts(w)
         \/ StartCall(w) \/ CallSucceeds(w) \/ CallFails(w) \/ NothingQueued(w)
  PROVE  IInv'
<1>. DEFINE r == cur[w]
            s == view[w].att[r]
<1>1. /\ db \in Db /\ view[w] \in View /\ w \in Sessions /\ touched \subseteq Runs
      /\ view \in [Sessions -> View] /\ cur \in [Workers -> 0 .. NRuns + 1]
      /\ r \in 0 .. NRuns + 1 /\ NRuns \in Nat \ {0}
  BY Types, SessionsAssumption DEF IInv, Sessions
<1>2. /\ db.run \in [Runs -> RunStatus] /\ db.att \in [Runs -> Rows]
      /\ view[w].run \in [Runs -> RunStatus] /\ view[w].att \in [Runs -> Rows]
      /\ \A x \in Runs : db.att[x] \in Rows /\ view[w].att[x] \in Rows
  BY <1>1, DbFields, ViewFields
<1>3. pc[w] \in Locked
  BY DEF LoadRuns, SkipCanceledRun, BeginRun, LoadAttempts, StartCall, CallSucceeds,
         CallFails, NothingQueued, Locked
<1>4. WorkerOK(pc[w], view[w], touched, db) BY DEF IInv, ReadInv
<1>5. {"run", "load", "select", "call"} \subseteq Labels \cap Locked /\ "run" \notin AtRun
  BY DEF Labels, Locked, AtRun
<1>6. /\ [cur EXCEPT ![w] = cur[w]] = cur /\ [cur EXCEPT ![w] = @ + 1] = [cur EXCEPT ![w] = r + 1]
      /\ 1 \in 0 .. NRuns + 1 /\ (r \in Runs => r + 1 \in 0 .. NRuns + 1)
  BY <1>1 DEF Runs
<1>7. pc[w] \in AtRun => r \in Runs /\ r \in touched /\ touched \subseteq touched
  BY DEF IInv, LockInv
<1>8. \A x \in touched : Works(view[w].att[x], db.att[x]) BY <1>1, <1>3, <1>4 DEF WorkerOK
\* A step that takes the rows n, perhaps with another status of the run.
<1>9. ASSUME NEW n \in Rows, Works(n, db.att[r]), NEW q \in RunStatus, r \in Runs,
             r \in touched \/ (view[w].run[r] = "canceled" /\ q = "canceled"),
             touched' = touched,
             NEW l \in {"run", "select", "call"}, l \in AtRun => r \in touched, NEW k \in 0 .. NRuns + 1,
             k = r \/ l = "run",
             \/ view' = [view EXCEPT ![w].att[r] = n]
             \/ view' = [view EXCEPT ![w].att[r] = n, ![w].run[r] = q],
             Goto(w, l), cur' = [cur EXCEPT ![w] = k],
             UNCHANGED <<backend, db, jobs, lock, client>>
      PROVE  IInv'
  <2>. DEFINE att == [view[w].att EXCEPT ![r] = n]
              run == [view[w].run EXCEPT ![r] = q]
              v   == [view[w] EXCEPT !.att = att]
              u   == [view[w] EXCEPT !.att = att, !.run = run]
  <2>1. att \in [Runs -> Rows] /\ run \in [Runs -> RunStatus] BY <1>2, <1>9
  <2>2. \A x \in Runs : /\ att[x] = IF x = r THEN n ELSE view[w].att[x]
                        /\ run[x] = IF x = r THEN q ELSE view[w].run[x]
    BY <1>2, <1>9
  <2>3. \/ view' = [view EXCEPT ![w] = v]
        \/ view' = [view EXCEPT ![w] = u]
    <3>1. [view EXCEPT ![w].att[r] = n] = [view EXCEPT ![w] = v] OBVIOUS
    <3>2. [view EXCEPT ![w].att[r] = n, ![w].run[r] = q] = [view EXCEPT ![w] = u]
      BY <1>1 DEF View
    <3>. QED BY <1>9, <3>1, <3>2
  <2>. HIDE DEF att, run
  <2>4. /\ v \in View /\ v.att = att /\ v.gen = view[w].gen /\ v.run = view[w].run
        /\ u \in View /\ u.att = att /\ u.gen = view[w].gen /\ u.run = run
    BY <1>1, <2>1 DEF View
  <2>. HIDE DEF v, u
  <2>5. pc' = [pc EXCEPT ![w] = l] /\ l \in Labels /\ l \in Locked /\ l # "load_runs"
    BY <1>5, <1>9 DEF Goto
  <2>6. (l \in AtRun => k \in Runs /\ k \in touched') /\ touched' \subseteq Runs
    BY <1>1, <1>5, <1>9
  <2>7. WorkerOK(l, v, touched', db) /\ WorkerOK(l, u, touched', db)
    BY <1>3, <1>9, <2>2, <2>4, TakesRows
  <2>8. CASE view' = [view EXCEPT ![w] = v]
    BY <1>3, <1>9, <2>4, <2>5, <2>6, <2>7, <2>8, WorkerWorks
  <2>9. CASE view' = [view EXCEPT ![w] = u]
    BY <1>3, <1>9, <2>4, <2>5, <2>6, <2>7, <2>9, WorkerWorks
  <2>. QED BY <2>3, <2>8, <2>9
\* A step that takes no rows.
<1>10. ASSUME NEW run \in [Runs -> RunStatus], view' = [view EXCEPT ![w].run = run],
              NEW l \in {"run", "load"}, Goto(w, l), NEW k \in 0 .. NRuns + 1,
              cur' = [cur EXCEPT ![w] = k], l = "load" => k \in Runs /\ k \in touched',
              touched' \subseteq Runs,
              \A v : v.att = view[w].att /\ v.run = run => WorkerOK(l, v, touched', db),
              UNCHANGED <<backend, db, jobs, lock, client>>
       PROVE  IInv'
  <2>. DEFINE v == [view[w] EXCEPT !.run = run]
  <2>1. view' = [view EXCEPT ![w] = v] BY <1>10
  <2>2. v \in View /\ v.att = view[w].att /\ v.gen = view[w].gen /\ v.run = run
    BY <1>1, <1>10 DEF View
  <2>. HIDE DEF v
  <2>3. pc' = [pc EXCEPT ![w] = l] /\ l \in Labels /\ l \in Locked /\ l # "load_runs"
    BY <1>5, <1>10 DEF Goto
  <2>4. l \in AtRun => k \in Runs /\ k \in touched' BY <1>5, <1>10
  <2>5. WorkerOK(l, v, touched', db) BY <1>10, <2>2
  <2>. QED BY <1>3, <1>10, <2>1, <2>2, <2>3, <2>4, <2>5, WorkerWorks
<1>20. CASE LoadRuns(w)
  <2>1. /\ view' = [view EXCEPT ![w].run = db.run] /\ Goto(w, "run") /\ pc[w] = "load_runs"
        /\ cur' = [cur EXCEPT ![w] = 1] /\ UNCHANGED <<backend, db, jobs, lock, client>>
        /\ touched' = touched
    BY <1>20 DEF LoadRuns, locks
  <2>2. view[w].att = [x \in Runs |-> <<>>]
    BY <1>1, <2>1 DEF IInv, ReadInv, SessionOK, Unread
  <2>3. \A x \in touched : Works(<<>>, db.att[x]) BY <1>1, <1>8, <2>2
  <2>4. ASSUME NEW v, v.att = view[w].att PROVE WorkerOK("run", v, touched', db)
    BY <2>1, <2>2, <2>3, <2>4 DEF WorkerOK
  <2>. QED BY <1>1, <1>2, <1>6, <1>10, <2>1, <2>4
\* Rows as they are stored, and a run that is begun.
<1>11. ASSUME r \in Runs PROVE db.att[r] \in Rows /\ Works(db.att[r], db.att[r])
  <2>1. db.att[r] \in Rows BY <1>2, <1>11
  <2>2. Prolongs(db.att[r], db.att[r]) BY <2>1, RowRelations
  <2>3. \A i \in 1 .. Len(db.att[r]) : db.att[r][i].calls \in Nat BY <2>1, RowType
  <2>. QED BY <2>1, <2>2, <2>3 DEF Works
<1>21. CASE SkipCanceledRun(w)
  <2>1. /\ r \in Runs /\ touched' = touched /\ view' = [view EXCEPT ![w].att[r] = db.att[r]]
        /\ Goto(w, "run") /\ cur' = [cur EXCEPT ![w] = r + 1]
        /\ UNCHANGED <<backend, db, jobs, lock, client>> /\ view[w].run[r] = "canceled"
    BY <1>6, <1>21 DEF SkipCanceledRun, NextRun, locks
  <2>2. "canceled" \in RunStatus BY DEF RunStatus
  <2>3. db.att[r] \in Rows /\ Works(db.att[r], db.att[r]) BY <1>11, <2>1
  <2>4. r + 1 \in 0 .. NRuns + 1 BY <1>6, <2>1
  <2>. QED BY <1>5, <1>9, <2>1, <2>2, <2>3, <2>4
<1>22. CASE BeginRun(w)
  <2>. DEFINE run == [view[w].run EXCEPT ![r] = "running"]
  <2>1. /\ r \in Runs /\ touched' = touched \cup {r} /\ view[w].run[r] # "canceled"
        /\ view' = [view EXCEPT ![w].run[r] = "running"]
        /\ Goto(w, "load") /\ cur' = [cur EXCEPT ![w] = r]
        /\ UNCHANGED <<backend, db, jobs, lock, client>>
    BY <1>6, <1>22 DEF BeginRun
  <2>2. view' = [view EXCEPT ![w].run = run] BY <2>1
  <2>3. run \in [Runs -> RunStatus] BY <1>2, <2>1 DEF RunStatus
  <2>4. r \in touched' /\ touched' \subseteq Runs /\ r \in 0 .. NRuns + 1
    BY <1>1, <2>1
  <2>5. \A x \in Runs : x # r => run[x] = view[w].run[x] BY <1>2
  <2>. HIDE DEF run
  <2>6. ASSUME NEW v, v.att = view[w].att, v.run = run
        PROVE  WorkerOK("load", v, touched', db)
    BY <1>3, <2>1, <2>5, <2>6, TakesRun
  <2>. QED BY <1>10, <2>1, <2>2, <2>3, <2>4, <2>6
<1>23. CASE LoadAttempts(w)
  <2>1. /\ pc[w] = "load" /\ view' = [view EXCEPT ![w].att[r] = db.att[r]] /\ Goto(w, "select")
        /\ cur' = [cur EXCEPT ![w] = r] /\ UNCHANGED <<backend, db, jobs, lock, client>>
        /\ touched' = touched
    BY <1>6, <1>23 DEF LoadAttempts, locks
  <2>2. r \in Runs /\ r \in touched BY <1>7, <2>1 DEF AtRun
  <2>3. db.att[r] \in Rows /\ Works(db.att[r], db.att[r]) BY <1>11, <2>2
  <2>4. "pending" \in RunStatus BY DEF RunStatus
  <2>. QED BY <1>1, <1>9, <2>1, <2>2, <2>3, <2>4
<1>24. CASE StartCall(w)
  <2>. DEFINE n == [s EXCEPT ![Selected(w)] = Called(s[Selected(w)])]
  <2>1. /\ pc[w] = "select" /\ Goto(w, "call") /\ cur' = [cur EXCEPT ![w] = r]
        /\ UNCHANGED <<backend, db, jobs, lock, client>> /\ touched' = touched
        /\ view' = [view EXCEPT ![w].att[r] = n]
    BY <1>6, <1>24 DEF StartCall, locks
  <2>2. r \in Runs /\ r \in touched BY <1>7, <2>1 DEF AtRun
  <2>3. n \in Rows /\ Works(n, db.att[r]) BY <1>2, <1>8, <2>2, CallWorks
  <2>4. "pending" \in RunStatus BY DEF RunStatus
  <2>. HIDE DEF n
  <2>. QED BY <1>1, <1>9, <2>1, <2>2, <2>3, <2>4
<1>25. CASE CallSucceeds(w)
  <2>. DEFINE n == Ended(w, "succeeded")
  <2>1. /\ pc[w] = "call" /\ Goto(w, "select") /\ cur' = [cur EXCEPT ![w] = r]
        /\ UNCHANGED <<backend, db, jobs, lock, client>> /\ touched' = touched
        /\ view' = [view EXCEPT ![w].att[r] = n]
    BY <1>6, <1>25 DEF CallSucceeds, locks
  <2>2. r \in Runs /\ r \in touched BY <1>7, <2>1 DEF AtRun
  <2>3. n \in Rows /\ Works(n, db.att[r]) BY <1>2, <1>8, <2>2, CallWorks DEF Ended
  <2>4. "pending" \in RunStatus BY DEF RunStatus
  <2>. HIDE DEF n
  <2>. QED BY <1>1, <1>9, <2>1, <2>2, <2>3, <2>4
<1>26. CASE CallFails(w)
  <2>. DEFINE n == Ended(w, "failed")
  <2>1. /\ pc[w] = "call" /\ Goto(w, "run") /\ cur' = [cur EXCEPT ![w] = r + 1]
        /\ UNCHANGED <<backend, db, jobs, lock, client>> /\ touched' = touched
        /\ view' = [view EXCEPT ![w].att[r] = n, ![w].run[r] = StatusFromAttempts(n)]
    BY <1>6, <1>26 DEF CallFails, NextRun, Settle, locks
  <2>2. r \in Runs /\ r \in touched BY <1>7, <2>1 DEF AtRun
  <2>3. n \in Rows /\ Works(n, db.att[r]) BY <1>2, <1>8, <2>2, CallWorks DEF Ended
  <2>4. StatusFromAttempts(n) \in RunStatus
    <3>1. "pending" \in RunStatus BY DEF RunStatus
    <3>. HIDE DEF n
    <3>. QED BY <2>3, <3>1, CanceledTypes
  <2>. HIDE DEF n
  <2>. QED BY <1>1, <1>6, <1>9, <2>1, <2>2, <2>3, <2>4
<1>27. CASE NothingQueued(w)
  <2>1. /\ pc[w] = "select" /\ Goto(w, "run") /\ cur' = [cur EXCEPT ![w] = r + 1]
        /\ UNCHANGED <<backend, db, jobs, lock, client>> /\ touched' = touched
        /\ view' = [view EXCEPT ![w].att[r] = s, ![w].run[r] = StatusFromAttempts(s)]
    BY <1>6, <1>27 DEF NothingQueued, NextRun, Settle, locks
  <2>2. r \in Runs /\ r \in touched BY <1>7, <2>1 DEF AtRun
  <2>3. s \in Rows /\ Works(s, db.att[r]) BY <1>2, <1>8, <2>2
  <2>4. StatusFromAttempts(s) \in RunStatus
    <3>1. "pending" \in RunStatus BY DEF RunStatus
    <3>. QED BY <2>3, <3>1, CanceledTypes
  <2>. HIDE DEF s
  <2>. QED BY <1>1, <1>6, <1>9, <2>1, <2>2, <2>3, <2>4
<1>. QED BY <1>20, <1>21, <1>22, <1>23, <1>24, <1>25, <1>26, <1>27
-----------------------------------------------------------------------------
LEMMA InitInv == Init => IInv
<1>. SUFFICES ASSUME Init PROVE IInv OBVIOUS
<1>. DEFINE row == ReplicateRow(1)
            att == [r \in Runs |-> <<row>>]
            d   == [exp |-> "draft", run |-> [r \in Runs |-> "pending"], att |-> att,
                    gen |-> 0, audited |-> {}]
<1>1. row \in RunAttempt /\ row.parent = 0 /\ row.calls = 0
  BY DEF ReplicateRow, RunAttempt, AttemptStatus, ErrorKind, FailureReason
<1>2. db = d BY DEF Init, NewRows
<1>. HIDE DEF row
<1>3. <<row>> \in Rows /\ Len(<<row>>) = 1 /\ <<row>>[1] = row BY <1>1 DEF Rows
<1>4. Chained(<<row>>) BY <1>1, <1>3 DEF Chained
<1>5. att \in [Runs -> Rows] BY <1>3
<1>6. d \in Db BY <1>5 DEF Db, ExperimentStatus, RunStatus
<1>7. Stored(d)
  <2>1. \A r \in Runs : att[r] = <<row>> OBVIOUS
  <2>2. \A r \in Runs : Chained(att[r]) BY <1>4, <2>1
  <2>3. \A r \in Runs : \A i \in 1 .. Len(att[r]) : att[r][i].calls = 0
    BY <1>1, <1>3, <2>1
  <2>. QED BY <2>2, <2>3 DEF Stored, Audited
<1>8. /\ Blank \in View /\ SessionOK("idle", Blank, db)
      /\ \A a \in Runs : ClientOK("idle", Blank, "none", a, db)
      /\ \A t : WorkerOK("idle", Blank, t, db)
  BY <1>2, <1>6, BlankOK
<1>9. /\ backend \in Backends /\ jobs = 0 /\ lock = NoOne /\ touched = {}
      /\ pc = [s \in Sessions |-> "idle"] /\ view = [s \in Sessions |-> Blank]
      /\ op = [c \in Clients |-> "none"] /\ arg = [c \in Clients |-> 1]
      /\ cur = [w \in Workers |-> 0]
  BY DEF Init
<1>10. 1 \in Runs /\ 0 \in 0 .. NRuns + 1 /\ "idle" \in Labels /\ NoOne \notin Workers
  BY SessionsAssumption DEF Runs, Labels, Sessions
<1>11. TypeOK
  <2>1. view \in [Sessions -> View] BY <1>8, <1>9
  <2>2. pc \in [Sessions -> Labels] /\ arg \in [Clients -> Runs]
        /\ cur \in [Workers -> 0 .. NRuns + 1]
    BY <1>9, <1>10
  <2>3. db \in Db BY <1>2, <1>6
  <2>4. /\ backend \in Backends /\ jobs \in Nat /\ lock \in Workers \cup {NoOne}
        /\ touched \subseteq Runs
        /\ op \in [Clients -> {"none", "cancel_experiment", "cancel_run",
                               "retry", "queue", "edit"}]
    BY <1>9
  <2>. QED BY <2>1, <2>2, <2>3, <2>4, Types
<1>12. LockInv BY <1>9, <1>10 DEF LockInv, Locked, AtRun, Sessions
<1>13. ReadInv
  <2>1. Clients \subseteq Sessions /\ Workers \subseteq Sessions BY DEF Sessions
  <2>. QED BY <1>8, <1>9, <1>10, <2>1 DEF ReadInv
<1>. QED BY <1>2, <1>7, <1>11, <1>12, <1>13 DEF IInv

\* Every step keeps the invariant, and makes of db what a session may make of it.
LEMMA NextInv ==
  ASSUME IInv, [Next]_vars
  PROVE  IInv' /\ \E s \in Sessions \cup {NoOne} : db' = db \/ (db' \in Db /\ Step(db', s))
<1>1. Workers \subseteq Sessions /\ Clients \subseteq Sessions BY DEF Sessions
<1>2. ASSUME NEW c \in Clients, Request(c) \/ ReadRuns(c)
      PROVE  IInv' /\ db' = db
  <2>1. db' = db
    BY <1>2 DEF Request, AskCancelExperiment, AskQueue, AskEdit, AskCancelRun, AskRetry,
                ReadRuns
  <2>. QED BY <1>2, <2>1, AskActs
<1>3. ASSUME NEW c \in Clients,
             \/ ReadAttempts(c) \/ ReadRetried(c) \/ ReadRetriedExperiment(c)
             \/ Enqueue(c) \/ RequestTimeout(c)
      PROVE  IInv' /\ db' = db
  <2>1. db' = db
    BY <1>3 DEF ReadAttempts, ReadRetried, ReadRetriedExperiment, Enqueue, RequestTimeout
  <2>. QED BY <1>3, <2>1, ReadActs
<1>4. ASSUME NEW c \in Clients,
             \/ CommitCancelExperiment(c) \/ CommitCancelRun(c) \/ CommitRetry(c)
             \/ CommitQueue(c) \/ CommitEdit(c)
      PROVE  IInv' /\ db' \in Db /\ Step(db', c)
  BY <1>4, CommitActs
<1>5. ASSUME NEW w \in Workers,
             \/ TakeJob(w) \/ GetExperiment(w) \/ ReadCanceled(w) \/ CommitCanceled(w)
             \/ JobTimeout(w)
      PROVE  IInv' /\ db' \in Db /\ Step(db', w)
  BY <1>5, WaitActs
<1>6. ASSUME NEW w \in Workers, Begin(w) PROVE IInv' /\ db' = db
  BY <1>6, BeginActs DEF Begin
<1>7. ASSUME NEW w \in Workers, Finish(w) \/ Die(w)
      PROVE  IInv' /\ db' \in Db /\ Step(db', w)
  BY <1>7, EndActs
<1>8. ASSUME NEW w \in Workers,
             \/ LoadRuns(w) \/ SkipCanceledRun(w) \/ BeginRun(w) \/ LoadAttempts(w)
             \/ StartCall(w) \/ CallSucceeds(w) \/ CallFails(w) \/ NothingQueued(w)
      PROVE  IInv' /\ db' = db
  <2>1. db' = db
    BY <1>8 DEF LoadRuns, SkipCanceledRun, BeginRun, LoadAttempts, StartCall, CallSucceeds,
                CallFails, NothingQueued
  <2>. QED BY <1>8, <2>1, WorkActs
<1>9. CASE UNCHANGED vars
  <2>1. TypeOK' BY <1>9 DEF IInv, TypeOK, vars, client, locks
  <2>2. LockInv' BY <1>9 DEF IInv, LockInv, vars, client, locks
  <2>3. ReadInv' BY <1>9 DEF IInv, ReadInv, vars, client, locks
  <2>4. Stored(db)' /\ db' = db BY <1>9 DEF IInv, vars
  <2>. QED BY <2>1, <2>2, <2>3, <2>4 DEF IInv
<1>10. ASSUME NEW c \in Clients, Request(c) \/ Answer(c)
       PROVE  IInv' /\ (db' = db \/ (db' \in Db /\ Step(db', c)))
  BY <1>2, <1>3, <1>4, <1>10 DEF Answer
<1>11. ASSUME NEW w \in Workers, Job(w) \/ Die(w)
       PROVE  IInv' /\ (db' = db \/ (db' \in Db /\ Step(db', w)))
  BY <1>5, <1>6, <1>7, <1>8, <1>11 DEF Job
<1>. QED BY <1>1, <1>9, <1>10, <1>11 DEF Next

\* The invariant of the lock, of what the sessions have read and of the stored rows.
THEOREM SessionsInvariant == Spec => []IInv
<1>1. IInv /\ [Next]_vars => IInv' BY NextInv
<1>. QED BY <1>1, InitInv, PTL DEF Spec

\* The variables have their types in every reachable state.
THEOREM SessionsTypeOK == Spec => []TypeOK
<1>1. IInv => TypeOK BY DEF IInv
<1>. QED BY <1>1, SessionsInvariant, PTL

\* Two retry requests that race make one retry (create_retry_attempt_for_run and
\* the unique attempt id), for any number of requests, workers and rows.
THEOREM RetryIsSingle == Spec => []OneRetryPerAttempt
<1>1. IInv => OneRetryPerAttempt
  <2>1. SUFFICES ASSUME IInv, NEW r \in Runs, NEW i \in DOMAIN db.att[r],
                        NEW j \in DOMAIN db.att[r],
                        db.att[r][i].parent = db.att[r][j].parent, db.att[r][i].parent # 0
                 PROVE  i = j
    BY DEF OneRetryPerAttempt
  <2>2. db.att[r] \in Rows BY <2>1, Types, DbFields DEF IInv
  <2>3. DOMAIN db.att[r] = 1 .. Len(db.att[r]) BY <2>2 DEF Rows
  <2>4. Chained(db.att[r]) BY <2>1 DEF IInv, Stored
  <2>. QED BY <2>1, <2>3, <2>4 DEF Chained
<1>. QED BY <1>1, SessionsInvariant, PTL

\* No commit loses a row or makes it another attempt until an edit replaces the
\* runs: not a retry, a cancellation, nor the commit of an execution.
THEOREM HistoryIsKept == Spec => HistoryKept
<1>1. ASSUME IInv, [Next]_vars, db'.gen = db.gen, NEW r \in Runs, NEW i \in DOMAIN db.att[r]
      PROVE  /\ i \in DOMAIN db'.att[r]
             /\ db'.att[r][i].parent = db.att[r][i].parent
             /\ db'.att[r][i].calls >= db.att[r][i].calls
  <2>1. db \in Db /\ db.gen \in Nat BY <1>1, Types, DbFields DEF IInv
  <2>2. IInv' /\ \E s \in Sessions \cup {NoOne} : db' = db \/ (db' \in Db /\ Step(db', s))
    BY <1>1, NextInv
  <2>3. db.att[r] \in Rows BY <2>1, DbFields
  <2>4. db' \in Db /\ Keeps(db'.att[r], db.att[r])
    <3>1. CASE db' = db BY <2>1, <2>3, <3>1, RowRelations
    <3>2. ASSUME NEW s, db' \in Db, Step(db', s) PROVE Keeps(db'.att[r], db.att[r])
      BY <1>1, <2>1, <3>2 DEF Step, KeepsAll, Edits
    <3>. QED BY <2>2, <3>1, <3>2
  <2>5. db'.att[r] \in Rows BY <2>4, DbFields
  <2>6. /\ DOMAIN db.att[r] = 1 .. Len(db.att[r]) /\ Len(db.att[r]) \in Nat
        /\ DOMAIN db'.att[r] = 1 .. Len(db'.att[r]) /\ Len(db'.att[r]) \in Nat
    BY <2>3, <2>5 DEF Rows
  <2>. QED BY <1>1, <2>4, <2>6 DEF Keeps, Prolongs
<1>2. IInv /\ [Next]_vars =>
        [db'.gen = db.gen =>
           \A r \in Runs : \A i \in DOMAIN db.att[r] :
             /\ i \in DOMAIN db'.att[r]
             /\ db'.att[r][i].parent = db.att[r][i].parent
             /\ db'.att[r][i].calls >= db.att[r][i].calls]_vars
  BY <1>1
<1>. QED BY <1>2, SessionsInvariant, PTL DEF Spec, HistoryKept

\* An edit deletes no run that a provider was called for: the audit rows that the
\* execution commits with the calls keep the runs from being deleted.
THEOREM CallsAreNotDeleted == Spec => ExecutedRunsAreKept
<1>1. ASSUME IInv, [Next]_vars, db'.gen # db.gen, NEW r \in Runs, NEW i \in DOMAIN db.att[r]
      PROVE  db.att[r][i].calls = 0
  <2>1. db \in Db BY <1>1, Types DEF IInv
  <2>2. PICK s \in Sessions \cup {NoOne} : db' = db \/ (db' \in Db /\ Step(db', s))
    BY <1>1, NextInv
  <2>3. db.audited = {} BY <1>1, <2>2 DEF Step, KeepsAll, Edits
  <2>4. db.att[r] \in Rows BY <2>1, DbFields
  <2>5. i \in 1 .. Len(db.att[r]) BY <1>1, <2>4 DEF Rows
  <2>. QED BY <1>1, <2>3, <2>5 DEF IInv, Stored, Audited
<1>2. IInv /\ [Next]_vars =>
        [db'.gen # db.gen => \A r \in Runs : \A i \in DOMAIN db.att[r] :
                               db.att[r][i].calls = 0]_vars
  BY <1>1
<1>. QED BY <1>2, SessionsInvariant, PTL DEF Spec, ExecutedRunsAreKept
-----------------------------------------------------------------------------
\* A session moves by its own steps only.
LEMMA OthersDoNotMove ==
  ASSUME TypeOK, NEW w \in Workers, Next, pc'[w] # pc[w]
  PROVE  Job(w) \/ Die(w)
<1>1. pc \in [Sessions -> Labels] /\ w \in Sessions BY Types DEF Sessions
<1>2. ASSUME NEW x, NEW l, pc' = [pc EXCEPT ![x] = l] PROVE x = w BY <1>1, <1>2
<1>3. ASSUME NEW c \in Clients, Request(c) PROVE \E l : pc' = [pc EXCEPT ![c] = l]
  BY <1>3 DEF Request, AskCancelExperiment, AskQueue, AskEdit, AskCancelRun, AskRetry, Goto
<1>4. ASSUME NEW c \in Clients, Answer(c) PROVE \E l : pc' = [pc EXCEPT ![c] = l]
  <2>1. ASSUME \/ ReadRuns(c) \/ ReadAttempts(c) \/ ReadRetried(c)
               \/ ReadRetriedExperiment(c) \/ Enqueue(c)
        PROVE  \E l : pc' = [pc EXCEPT ![c] = l]
    BY <2>1 DEF ReadRuns, ReadAttempts, ReadRetried, ReadRetriedExperiment, Enqueue, Goto,
                EndRequest, End
  <2>2. ASSUME \/ CommitCancelExperiment(c) \/ CommitCancelRun(c) \/ CommitRetry(c)
               \/ CommitQueue(c) \/ CommitEdit(c) \/ RequestTimeout(c)
        PROVE  \E l : pc' = [pc EXCEPT ![c] = l]
    <3>1. EndRequest(c)
      BY <2>2 DEF CommitCancelExperiment, CommitCancelRun, CommitRetry, CommitQueue,
                  CommitEdit, RequestTimeout
    <3>. QED BY <3>1 DEF EndRequest, End, Goto
  <2>. QED BY <1>4, <2>1, <2>2 DEF Answer
<1>5. ASSUME NEW x \in Workers, Job(x) \/ Die(x) PROVE \E l : pc' = [pc EXCEPT ![x] = l]
  BY <1>5 DEF Job, TakeJob, GetExperiment, ReadCanceled, CommitCanceled, Begin, LoadRuns,
              SkipCanceledRun, BeginRun, LoadAttempts, StartCall, CallSucceeds, CallFails,
              NothingQueued, Finish, JobTimeout, Die, NextRun, End, Goto
<1>6. w \notin Clients BY SessionsAssumption
<1>. QED BY <1>2, <1>3, <1>4, <1>5, <1>6 DEF Next

\* A call is started for a row that is still queued in the database, and that
\* nobody else is calling: the rows were loaded under the experiment lock.
THEOREM CallsAreNotStale == Spec => NoStaleCall
<1>1. ASSUME IInv, [Next]_vars, NEW w \in Workers, pc[w] = "select", pc'[w] = "call"
      PROVE  LET r == cur[w] IN
             /\ db.gen = db'.gen /\ Selected(w) \in DOMAIN db.att[r]
             /\ db.att[r][Selected(w)].status = "queued"
             /\ \A v \in Workers \ {w} : pc[v] = "call" => cur[v] # r
  <2>. DEFINE r == cur[w]
  <2>1. Next /\ (Job(w) \/ Die(w)) BY <1>1, OthersDoNotMove DEF IInv, vars
  <2>2. pc \in [Sessions -> Labels] /\ w \in Sessions /\ db \in Db /\ view[w] \in View
    BY <1>1, Types DEF IInv, Sessions
  <2>3. ASSUME NEW l, pc' = [pc EXCEPT ![w] = l] PROVE l = "call" BY <1>1, <2>2, <2>3
  <2>4. StartCall(w)
    <3>1. ~NothingQueued(w) BY <2>3 DEF NothingQueued, NextRun, Goto
    <3>2. ~Die(w) BY <2>3 DEF Die, End, Goto
    <3>. QED BY <1>1, <2>1, <3>1, <3>2
         DEF Job, TakeJob, GetExperiment, ReadCanceled, CommitCanceled, Begin, LoadRuns,
             SkipCanceledRun, BeginRun, LoadAttempts, CallSucceeds, CallFails, Finish,
             Ends, JobTimeout, GiveUp
  <2>5. r \in Runs /\ r \in touched BY <1>1 DEF IInv, LockInv, AtRun
  <2>6. view[w].att[r] \in Rows /\ db.att[r] \in Rows BY <2>2, <2>5, DbFields, ViewFields
  <2>. DEFINE s == view[w].att[r]
              k == NextQueued(s)
  <2>7. k # 0 /\ Selected(w) = k BY <2>4 DEF StartCall, Selected
  <2>8. k \in 1 .. Len(s) /\ s[k].status = "queued" BY <2>6, <2>7, NextQueuedSelects
  <2>9. Works(s, db.att[r]) BY <1>1, <2>5 DEF IInv, ReadInv, WorkerOK, Locked
  <2>10. k \in 1 .. Len(db.att[r]) /\ db.att[r][k].status = "queued"
    <3>1. Len(s) \in Nat /\ Len(db.att[r]) \in Nat BY <2>6 DEF Rows
    <3>. HIDE DEF s, k
    <3>2. Len(s) <= Len(db.att[r]) BY <2>9 DEF Works, Prolongs
    <3>3. s[k].status = "queued" => db.att[r][k].status = "queued"
      BY <2>8, <2>9 DEF Works
    <3>. QED BY <2>8, <3>1, <3>2, <3>3
  <2>11. DOMAIN db.att[r] = 1 .. Len(db.att[r]) BY <2>6 DEF Rows
  <2>12. db'.gen = db.gen BY <2>4 DEF StartCall
  <2>13. \A v \in Workers \ {w} : pc[v] # "call"
    BY <1>1 DEF IInv, LockInv, Locked
  <2>. QED BY <2>7, <2>10, <2>11, <2>12, <2>13
<1>2. IInv /\ [Next]_vars =>
        [\A w \in Workers :
           pc[w] = "select" /\ pc'[w] = "call"
             => LET r == cur[w] IN
                /\ db.gen = db'.gen /\ Selected(w) \in DOMAIN db.att[r]
                /\ db.att[r][Selected(w)].status = "queued"
                /\ \A v \in Workers \ {w} : pc[v] = "call" => cur[v] # r]_vars
  BY <1>1
<1>. QED BY <1>2, SessionsInvariant, PTL DEF Spec, NoStaleCall
-----------------------------------------------------------------------------
\* What the refinement of AttemptHistory needs besides: how the rows a session
\* has read differ from those that are stored.

\* Nothing that is committed is being called.
Idle(s)  == \A i \in 1 .. Len(s) : s[i].status # "running"
Quiet(d) == \A r \in Runs : Idle(d.att[r])

\* t has the replicates of s, and what was settled in s is settled.
Recalls(t, s) ==
  \A i \in 1 .. Len(s) : /\ t[i].replicate_index = s[i].replicate_index
                         /\ s[i].status \in Terminal => t[i].status \in Terminal

\* A client: a retry is asked for after a failure that it has read.
ClientHas(l, v, o, a, d) ==
  /\ v.gen = d.gen => \A r \in Runs : Recalls(d.att[r], v.att[r])
  /\ o = "retry" /\ l \in {"experiment", "write"} => v.att[a][Len(v.att[a])].status = "failed"

\* The rows s of a worker, where t are stored: each is what one step of the
\* history makes of it, but for the one that is being called.
SettledRow(row, stored) == row.status # "running" /\ History!RowStep(stored, row)
CalledRow(row, stored)  == stored.status = "queued" /\ row = Called(stored)

Settled(s, t) == \A i \in 1 .. Len(s) : SettledRow(s[i], t[i])
InCall(s, t) ==
  \E i \in 1 .. Len(s) : /\ CalledRow(s[i], t[i])
                         /\ \A j \in 1 .. Len(s) : j # i => SettledRow(s[j], t[j])

WorkerHas(l, v, k, t, d) ==
  l \in Locked =>
    \A r \in t : IF l = "call" /\ r = k THEN InCall(v.att[r], d.att[r])
                    ELSE Settled(v.att[r], d.att[r])

HistInv ==
  /\ Quiet(db)
  /\ \A c \in Clients : ClientHas(pc[c], view[c], op[c], arg[c], db)
  /\ \A w \in Workers : WorkerHas(pc[w], view[w], cur[w], touched, db)

\* A commit, as the history has it.
Recorded(d) == d.gen = db.gen /\ \A r \in Runs : History!Continues(db.att[r], d.att[r])

Replaced(d) ==
  /\ d.gen = db.gen + 1 /\ d.att = History!Beginning
  /\ \A r \in Runs : \A i \in 1 .. Len(db.att[r]) : db.att[r][i].calls = 0
-----------------------------------------------------------------------------
\* AttemptHistory has its own names for the rows.
LEMMA HistoryNames ==
  /\ History!Runs = Runs /\ History!RunAttempt = RunAttempt /\ History!Terminal = Terminal
  /\ History!Beginning = NewRows
  /\ \A s, i, b : History!RetryRow(s, i, b) = RetryRow(s, i, b)
<1>1. History!Runs = Runs BY DEF History!Runs, Runs
<1>2. History!RunAttempt = RunAttempt
  BY DEF History!RunAttempt, RunAttempt, History!AttemptStatus, AttemptStatus,
         History!ErrorKind, ErrorKind, History!FailureReason, FailureReason
<1>3. History!Terminal = Terminal BY DEF History!Terminal, Terminal
<1>4. \A k : History!ReplicateRow(k) = ReplicateRow(k)
  BY DEF History!ReplicateRow, ReplicateRow
<1>5. History!Beginning = NewRows BY <1>1, <1>4 DEF History!Beginning, NewRows
<1>6. \A s, i, b : History!RetryRow(s, i, b) = RetryRow(s, i, b)
  BY <1>4 DEF History!RetryRow, RetryRow
<1>. QED BY <1>1, <1>2, <1>3, <1>5, <1>6

\* A row that is made: its fields.
LEMMA MadeRow ==
  ASSUME NEW row \in RunAttempt, NEW q \in {"running", "succeeded", "failed"}
  PROVE  LET made == [row EXCEPT !.status = q, !.calls = row.calls + 1]
         IN  /\ made \in RunAttempt /\ made.status = q
             /\ made.replicate_index = row.replicate_index
             /\ [made EXCEPT !.status = "succeeded"]
                  = [row EXCEPT !.status = "succeeded", !.calls = row.calls + 1]
             /\ [made EXCEPT !.status = "failed"]
                  = [row EXCEPT !.status = "failed", !.calls = row.calls + 1]
<1>. DEFINE n == row.calls + 1
<1>1. n \in Nat BY DEF RunAttempt
<1>. HIDE DEF n
<1>. DEFINE made == [row EXCEPT !.status = q, !.calls = n]
<1>2. /\ made \in RunAttempt /\ made.status = q
      /\ made.replicate_index = row.replicate_index
  BY <1>1 DEF RunAttempt, AttemptStatus
<1>3. /\ [made EXCEPT !.status = "succeeded"] = [row EXCEPT !.status = "succeeded", !.calls = n]
      /\ [made EXCEPT !.status = "failed"] = [row EXCEPT !.status = "failed", !.calls = n]
  BY <1>1 DEF RunAttempt
<1>. QED BY <1>2, <1>3 DEF n

\* A row and what a step of the history makes of it.
LEMMA RowSteps ==
  ASSUME NEW row \in RunAttempt, NEW new
  PROVE  /\ History!RowStep(row, row)
         /\ History!RowStep(row, [row EXCEPT !.status = "canceled"])
         /\ [row EXCEPT !.status = "canceled"].status = "canceled"
         /\ History!RowStep(row, new) =>
              /\ new.replicate_index = row.replicate_index
              /\ row.status \in Terminal => new.status \in Terminal
              /\ new.status = "queued" => new = row
              /\ row.status # "running" => new.status # "running"
<1>1. History!RowStep(row, row) BY DEF History!RowStep
<1>2. History!RowStep(row, [row EXCEPT !.status = "canceled"])
  BY DEF History!RowStep, History!Canceled
<1>3. [row EXCEPT !.status = "canceled"].status = "canceled" BY DEF RunAttempt
<1>4. ASSUME History!RowStep(row, new)
      PROVE  /\ new.replicate_index = row.replicate_index
             /\ row.status \in Terminal => new.status \in Terminal
             /\ new.status = "queued" => new = row
             /\ row.status # "running" => new.status # "running"
  <2>1. CASE new = row BY <2>1
  <2>2. CASE new = History!Canceled(row)
    <3>1. new.status = "canceled" /\ new.replicate_index = row.replicate_index
      BY <2>2 DEF History!Canceled, RunAttempt
    <3>. QED BY <3>1 DEF Terminal
  <2>3. ASSUME row.status = "queued", NEW q \in {"succeeded", "failed"},
               new = History!Made(row, q)
        PROVE  /\ new.replicate_index = row.replicate_index /\ new.status = q
    <3>. DEFINE n == row.calls + 1
    <3>1. new = [row EXCEPT !.status = q, !.calls = n] BY <2>3 DEF History!Made, RunAttempt
    <3>. HIDE DEF n
    <3>. QED BY <3>1 DEF RunAttempt
  <2>. QED BY <1>4, <2>1, <2>2, <2>3 DEF History!RowStep, Terminal
<1>. QED BY <1>1, <1>2, <1>3, <1>4

\* A queued row that is called, and that the call settles.
LEMMA CallSettles ==
  ASSUME NEW row \in RunAttempt, row.status = "queued", NEW q \in {"succeeded", "failed"}
  PROVE  /\ CalledRow(Called(row), row) /\ Called(row).status = "running"
         /\ SettledRow([Called(row) EXCEPT !.status = q], row)
<1>1. Called(row) = [row EXCEPT !.status = "running", !.calls = row.calls + 1]
  BY DEF Called, RunAttempt
<1>2. History!Made(row, q) = [row EXCEPT !.status = q, !.calls = row.calls + 1]
  BY DEF History!Made, RunAttempt
<1>3. Called(row).status = "running"
  <2>1. [row EXCEPT !.status = "running", !.calls = row.calls + 1].status = "running"
    BY "running" \in {"running", "succeeded", "failed"}, MadeRow
  <2>. QED BY <1>1, <2>1
<1>4. [Called(row) EXCEPT !.status = q] = History!Made(row, q) BY <1>1, <1>2, MadeRow
<1>5. History!Made(row, q).status = q
  <2>1. q \in {"running", "succeeded", "failed"} OBVIOUS
  <2>2. [row EXCEPT !.status = q, !.calls = row.calls + 1].status = q BY <2>1, MadeRow
  <2>. QED BY <1>2, <2>2
<1>6. History!RowStep(row, History!Made(row, q)) BY DEF History!RowStep
<1>. QED BY <1>3, <1>4, <1>5, <1>6 DEF CalledRow, SettledRow
-----------------------------------------------------------------------------
\* The relations on the rows of a run, when those that are stored move on.
LEMMA HistoryRelations ==
  ASSUME NEW s \in Rows, NEW t \in Rows, NEW u \in Rows
  PROVE  /\ Recalls(s, s) /\ Recalls(t, <<>>) /\ Settled(<<>>, t)
         /\ Idle(s) => Settled(s, s)
         /\ /\ Recalls(t, s) /\ Len(s) <= Len(t)
            /\ \A i \in 1 .. Len(t) : History!RowStep(t[i], u[i])
            => Recalls(u, s)
         /\ Len(s) <= Len(t) /\ Appends(u, t) /\ Settled(s, t) => Settled(s, u)
         /\ Len(s) <= Len(t) /\ Appends(u, t) /\ InCall(s, t) => InCall(s, u)
<1>1. Len(s) \in Nat /\ Len(t) \in Nat /\ Len(u) \in Nat BY DEF Rows
<1>2. Recalls(s, s) /\ Recalls(t, <<>>) /\ Settled(<<>>, t) BY DEF Recalls, Settled
<1>3. ASSUME Idle(s) PROVE Settled(s, s)
  <2>1. SUFFICES ASSUME NEW i \in 1 .. Len(s) PROVE SettledRow(s[i], s[i]) BY DEF Settled
  <2>2. s[i] \in RunAttempt BY RowType
  <2>3. History!RowStep(s[i], s[i]) BY <2>2, RowSteps
  <2>. QED BY <1>3, <2>3 DEF Idle, SettledRow
<1>4. ASSUME Recalls(t, s), Len(s) <= Len(t),
             \A i \in 1 .. Len(t) : History!RowStep(t[i], u[i])
      PROVE  Recalls(u, s)
  <2>1. SUFFICES ASSUME NEW i \in 1 .. Len(s)
                 PROVE  /\ u[i].replicate_index = s[i].replicate_index
                        /\ s[i].status \in Terminal => u[i].status \in Terminal
    BY DEF Recalls
  <2>2. i \in 1 .. Len(t) BY <1>1, <1>4
  <2>3. t[i] \in RunAttempt /\ History!RowStep(t[i], u[i]) BY <1>4, <2>2, RowType
  <2>4. /\ u[i].replicate_index = t[i].replicate_index
        /\ t[i].status \in Terminal => u[i].status \in Terminal
    BY <2>3, RowSteps
  <2>. QED BY <1>4, <2>4 DEF Recalls
<1>5. ASSUME Len(s) <= Len(t), Appends(u, t) PROVE \A i \in 1 .. Len(s) : u[i] = t[i]
  BY <1>1, <1>5 DEF Appends
<1>6. Len(s) <= Len(t) /\ Appends(u, t) /\ Settled(s, t) => Settled(s, u)
  BY <1>5 DEF Settled
<1>7. Len(s) <= Len(t) /\ Appends(u, t) /\ InCall(s, t) => InCall(s, u)
  BY <1>5 DEF InCall
<1>. QED BY <1>2, <1>3, <1>4, <1>6, <1>7

\* What a step leaves to the other sessions.
OthersFrame(s) ==
  /\ \A x \in Sessions \ {s} : pc'[x] = pc[x] /\ view'[x] = view[x]
  /\ \A x \in Clients \ {s} : op'[x] = op[x] /\ arg'[x] = arg[x]
  /\ \A x \in Workers \ {s} : cur'[x] = cur[x] /\ (lock = x => touched' = touched)

\* A commit of session s is a step of the history.
Commits(d, s) == d \in Db /\ Step(d, s) /\ (Recorded(d) \/ Replaced(d))

\* Nothing that is committed is being called, after a commit either.
LEMMA StaysQuiet ==
  ASSUME db \in Db, Quiet(db), NEW d \in Db, Recorded(d) \/ Replaced(d)
  PROVE  Quiet(d)
<1>1. CASE Replaced(d)
  <2>1. d.att = NewRows BY <1>1, HistoryNames DEF Replaced
  <2>2. SUFFICES ASSUME NEW r \in Runs, NEW i \in 1 .. Len(d.att[r])
                 PROVE  d.att[r][i].status # "running"
    BY DEF Quiet, Idle
  <2>3. d.att[r] = <<ReplicateRow(1)>> BY <2>1 DEF NewRows
  <2>4. i = 1 /\ d.att[r][1] = ReplicateRow(1) BY <2>2, <2>3
  <2>. QED BY <2>4 DEF ReplicateRow
<1>2. CASE Recorded(d)
  <2>1. SUFFICES ASSUME NEW r \in Runs, NEW i \in 1 .. Len(d.att[r])
                 PROVE  d.att[r][i].status # "running"
    BY DEF Quiet, Idle
  <2>2. History!Continues(db.att[r], d.att[r]) BY <1>2 DEF Recorded
  <2>3. db.att[r] \in Rows /\ d.att[r] \in Rows BY DbFields
  <2>4. Len(db.att[r]) \in Nat /\ Len(d.att[r]) \in Nat BY <2>3 DEF Rows
  <2>5. CASE i \in 1 .. Len(db.att[r])
    <3>1. History!RowStep(db.att[r][i], d.att[r][i]) BY <2>2, <2>5 DEF History!Continues
    <3>2. db.att[r][i] \in RunAttempt BY <2>3, <2>5, RowType
    <3>3. db.att[r][i].status # "running" BY <2>5 DEF Quiet, Idle
    <3>. QED BY <3>1, <3>2, <3>3, RowSteps
  <2>6. CASE i \in Len(db.att[r]) + 1 .. Len(d.att[r])
    <3>1. History!RetryOf(d.att[r], i) BY <2>2, <2>6 DEF History!Continues
    <3>2. \E p, due : d.att[r][i] = RetryRow(d.att[r], p, due)
      BY <3>1, HistoryNames DEF History!RetryOf
    <3>3. \A z, p, due : RetryRow(z, p, due).status = "queued"
      BY DEF RetryRow, ReplicateRow
    <3>. QED BY <3>2, <3>3
  <2>. QED BY <2>4, <2>5, <2>6
<1>. QED BY <1>1, <1>2

\* A commit of session s leaves what the others have as the history says.
LEMMA OthersKeepHistory ==
  ASSUME IInv, HistInv, NEW s \in Sessions, OthersFrame(s), Commits(db', s)
  PROVE  /\ \A x \in Clients \ {s} : ClientHas(pc[x], view[x], op[x], arg[x], db)'
         /\ \A x \in Workers \ {s} : WorkerHas(pc[x], view[x], cur[x], touched, db)'
<1>1. /\ db \in Db /\ db' \in Db /\ db.gen \in Nat /\ db'.gen \in Nat
      /\ \A r \in Runs : db.att[r] \in Rows /\ db'.att[r] \in Rows
  BY Types, DbFields DEF IInv, Commits
<1>2. \A x \in Sessions : view[x] \in View BY Types DEF IInv
<1>3. Clients \subseteq Sessions /\ Workers \subseteq Sessions BY DEF Sessions
<1>4. ASSUME NEW x \in Clients \ {s} PROVE ClientHas(pc[x], view[x], op[x], arg[x], db)'
  <2>1. /\ pc'[x] = pc[x] /\ view'[x] = view[x] /\ op'[x] = op[x] /\ arg'[x] = arg[x]
    BY <1>3 DEF OthersFrame
  <2>2. ClientHas(pc[x], view[x], op[x], arg[x], db) BY DEF HistInv
  <2>3. view[x] \in View /\ view[x].gen \in Nat /\ view[x].gen <= db.gen
    BY <1>2, <1>3, ViewFields DEF IInv, ReadInv, SessionOK
  <2>4. ASSUME view[x].gen = db'.gen, NEW r \in Runs
        PROVE  Recalls(db'.att[r], view[x].att[r])
    <3>1. Recorded(db') /\ db'.gen = db.gen
      BY <1>1, <2>3, <2>4 DEF Commits, Recorded, Replaced
    <3>2. History!Continues(db.att[r], db'.att[r]) BY <3>1 DEF Recorded
    <3>3. \A i \in 1 .. Len(db.att[r]) : History!RowStep(db.att[r][i], db'.att[r][i])
      BY <3>2 DEF History!Continues
    <3>4. Recalls(db.att[r], view[x].att[r]) BY <2>2, <2>4, <3>1 DEF ClientHas
    <3>5. ClientOK(pc[x], view[x], op[x], arg[x], db) BY DEF IInv, ReadInv
    <3>6. Len(view[x].att[r]) <= Len(db.att[r])
      BY <2>4, <3>1, <3>5 DEF ClientOK, Prolongs
    <3>7. view[x].att[r] \in Rows BY <2>3, ViewFields
    <3>. QED BY <1>1, <3>3, <3>4, <3>6, <3>7, HistoryRelations
  <2>5. ClientHas(pc[x], view[x], op[x], arg[x], db') BY <2>2, <2>4 DEF ClientHas
  <2>. QED BY <2>1, <2>5
<1>5. ASSUME NEW x \in Workers \ {s} PROVE WorkerHas(pc[x], view[x], cur[x], touched, db)'
  <2>1. /\ pc'[x] = pc[x] /\ view'[x] = view[x] /\ cur'[x] = cur[x]
        /\ pc[x] \in Locked => touched' = touched
    BY <1>3 DEF OthersFrame, IInv, LockInv
  <2>2. WorkerHas(pc[x], view[x], cur[x], touched, db) BY DEF HistInv
  <2>3. ASSUME pc[x] \in Locked, NEW r \in touched
        PROVE  IF pc[x] = "call" /\ r = cur[x] THEN InCall(view[x].att[r], db'.att[r])
               ELSE Settled(view[x].att[r], db'.att[r])
    <3>. DEFINE n == view[x].att[r]
    <3>1. r \in Runs /\ n \in Rows BY <1>2, <1>3, <2>3, Types, ViewFields DEF IInv
    <3>2. lock = x /\ lock # NoOne
      BY <2>3, SessionsAssumption DEF IInv, LockInv, Sessions
    <3>3. Respects(db', s) BY <3>2 DEF Commits, Step, Edits
    <3>4. WorkerOK(pc[x], view[x], touched, db) BY DEF IInv, ReadInv
    <3>5. Works(n, db.att[r]) BY <2>3, <3>1, <3>4 DEF WorkerOK
    <3>6. Len(n) <= Len(db.att[r]) BY <3>5 DEF Works, Prolongs
    <3>7. IF pc[x] = "call" /\ r = cur[x] THEN InCall(n, db.att[r])
          ELSE Settled(n, db.att[r])
      BY <2>2, <2>3 DEF WorkerHas
    <3>. HIDE DEF n
    <3>8. Appends(db'.att[r], db.att[r]) BY <2>3, <3>3 DEF Respects
    <3>9. Settled(n, db.att[r]) => Settled(n, db'.att[r])
      BY <1>1, <3>1, <3>6, <3>8, HistoryRelations
    <3>10. InCall(n, db.att[r]) => InCall(n, db'.att[r])
      BY <1>1, <3>1, <3>6, <3>8, HistoryRelations
    <3>. QED BY <3>7, <3>9, <3>10 DEF n
  <2>4. WorkerHas(pc[x], view[x], cur[x], touched, db') BY <2>3 DEF WorkerHas
  <2>. QED BY <2>1, <2>4 DEF WorkerHas
<1>. QED BY <1>4, <1>5
-----------------------------------------------------------------------------
\* A step that commits nothing, or is the commit of a step of the history, and
\* what it leaves the session itself with.
LEMMA ChainsRetryOnce ==
  ASSUME NEW s, Chained(s)
  PROVE  History!RetriedOnce(s)
BY DEF Chained, History!RetriedOnce

LEMMA NoCommit ==
  ASSUME IInv, NEW s \in Sessions
  PROVE  Commits(db, s)
<1>1. db \in Db /\ Step(db, s) BY NoStep, Types DEF IInv
<1>2. ASSUME NEW r \in Runs PROVE History!Continues(db.att[r], db.att[r])
  <2>1. db.att[r] \in Rows BY <1>1, DbFields
  <2>2. \A i \in 1 .. Len(db.att[r]) : History!RowStep(db.att[r][i], db.att[r][i])
    BY <2>1, RowType, RowSteps
  <2>3. History!RetriedOnce(db.att[r]) BY ChainsRetryOnce DEF IInv, Stored
  <2>4. Len(db.att[r]) \in Nat BY <2>1 DEF Rows
  <2>. QED BY <2>2, <2>3, <2>4 DEF History!Continues
<1>. QED BY <1>1, <1>2 DEF Commits, Recorded

LEMMA ClientHistory ==
  ASSUME IInv, HistInv, NEW c \in Clients, OthersFrame(c), Commits(db', c),
         ClientHas(pc[c], view[c], op[c], arg[c], db)'
  PROVE  HistInv'
<1>1. c \in Sessions /\ c \notin Workers BY SessionsAssumption DEF Sessions
<1>2. Quiet(db')
  <2>1. db \in Db BY Types DEF IInv
  <2>. QED BY <2>1, StaysQuiet DEF HistInv, Commits
<1>3. \A x \in Clients \ {c} : ClientHas(pc[x], view[x], op[x], arg[x], db)'
  BY <1>1, OthersKeepHistory
<1>4. \A x \in Workers \ {c} : WorkerHas(pc[x], view[x], cur[x], touched, db)'
  BY <1>1, OthersKeepHistory
<1>. QED BY <1>1, <1>2, <1>3, <1>4 DEF HistInv

LEMMA WorkerHistory ==
  ASSUME IInv, HistInv, NEW w \in Workers, OthersFrame(w), Commits(db', w),
         WorkerHas(pc[w], view[w], cur[w], touched, db)'
  PROVE  HistInv'
<1>1. w \in Sessions /\ w \notin Clients BY SessionsAssumption DEF Sessions
<1>2. Quiet(db')
  <2>1. db \in Db BY Types DEF IInv
  <2>. QED BY <2>1, StaysQuiet DEF HistInv, Commits
<1>3. \A x \in Clients \ {w} : ClientHas(pc[x], view[x], op[x], arg[x], db)'
  BY <1>1, OthersKeepHistory
<1>4. \A x \in Workers \ {w} : WorkerHas(pc[x], view[x], cur[x], touched, db)'
  BY <1>1, OthersKeepHistory
<1>. QED BY <1>1, <1>2, <1>3, <1>4 DEF HistInv

\* A session that has read no attempts.
LEMMA UnreadHas ==
  ASSUME IInv', NEW s \in Sessions, pc'[s] \in Unread
  PROVE  /\ s \in Clients => ClientHas(pc[s], view[s], op[s], arg[s], db)'
         /\ s \in Workers => WorkerHas(pc[s], view[s], cur[s], touched, db)'
<1>1. db' \in Db BY DEF IInv, TypeOK, Db, Rows
<1>2. view'[s].att = [r \in Runs |-> <<>>] BY DEF IInv, ReadInv, SessionOK
<1>3. <<>> \in Rows BY DEF Rows
<1>4. \A r \in Runs : Recalls(db'.att[r], <<>>) /\ Settled(<<>>, db'.att[r])
  BY <1>1, <1>3, DbFields, HistoryRelations
<1>5. pc'[s] \notin {"experiment", "write", "call"} /\ touched' \subseteq Runs
  BY DEF Unread, IInv, TypeOK
<1>6. ClientHas(pc[s], view[s], op[s], arg[s], db)' BY <1>2, <1>4, <1>5 DEF ClientHas
<1>7. WorkerHas(pc[s], view[s], cur[s], touched, db)' BY <1>2, <1>4, <1>5 DEF WorkerHas
<1>. QED BY <1>6, <1>7

\* A session moves by its own steps only, and changes nothing of the others.
LEMMA ClientFrame ==
  ASSUME TypeOK, NEW c \in Clients, Request(c) \/ Answer(c)
  PROVE  OthersFrame(c)
<1>1. /\ pc \in [Sessions -> Labels] /\ view \in [Sessions -> View] /\ c \in Sessions
      /\ op \in [Clients -> {"none", "cancel_experiment", "cancel_run",
                             "retry", "queue", "edit"}]
      /\ arg \in [Clients -> Runs]
  BY Types DEF Sessions
<1>2. ASSUME EndRequest(c), UNCHANGED <<cur, locks>> PROVE OthersFrame(c)
  BY <1>1, <1>2 DEF EndRequest, End, Goto, OthersFrame, locks
<1>3. ASSUME UNCHANGED <<cur, locks>>, NEW l, Goto(c, l), NEW v, view' = [view EXCEPT ![c] = v],
             NEW o, op' = [op EXCEPT ![c] = o], NEW a, arg' = [arg EXCEPT ![c] = a]
      PROVE  OthersFrame(c)
  BY <1>1, <1>3 DEF Goto, OthersFrame, locks
<1>4. /\ op = [op EXCEPT ![c] = op[c]] /\ arg = [arg EXCEPT ![c] = arg[c]]
      /\ view = [view EXCEPT ![c] = view[c]]
  BY <1>1
<1>5. CASE Request(c)
  <2>1. CASE AskCancelExperiment(c) BY <1>3, <1>4, <2>1 DEF AskCancelExperiment
  <2>2. CASE AskQueue(c) BY <1>3, <1>4, <2>2 DEF AskQueue
  <2>3. CASE AskEdit(c) BY <1>3, <1>4, <2>3 DEF AskEdit
  <2>4. ASSUME NEW r \in Runs, AskCancelRun(c, r) PROVE OthersFrame(c)
    BY <1>1, <2>4 DEF AskCancelRun, Goto, OthersFrame, locks
  <2>5. ASSUME NEW r \in Runs, AskRetry(c, r) PROVE OthersFrame(c)
    BY <1>1, <2>5 DEF AskRetry, Goto, OthersFrame, locks
  <2>. QED BY <1>5, <2>1, <2>2, <2>3, <2>4, <2>5 DEF Request
<1>6. CASE Answer(c)
  <2>1. CASE ReadRuns(c) BY <1>1, <2>1 DEF ReadRuns, Goto, client, OthersFrame, locks
  <2>2. CASE ReadAttempts(c) BY <1>3, <1>4, <2>2 DEF ReadAttempts, client
  <2>3. CASE ReadRetried(c) BY <1>2, <1>3, <1>4, <2>3 DEF ReadRetried, client
  <2>4. CASE ReadRetriedExperiment(c) BY <1>3, <1>4, <2>4 DEF ReadRetriedExperiment, client
  <2>5. CASE Enqueue(c) BY <1>2, <1>3, <1>4, <2>5 DEF Enqueue, client
  <2>6. CASE \/ CommitCancelExperiment(c) \/ CommitCancelRun(c) \/ CommitRetry(c)
             \/ CommitQueue(c) \/ CommitEdit(c) \/ RequestTimeout(c)
    <3>1. EndRequest(c) /\ UNCHANGED <<cur, locks>>
      BY <2>6 DEF CommitCancelExperiment, CommitCancelRun, CommitRetry, CommitQueue,
                  CommitEdit, RequestTimeout
    <3>. QED BY <1>2, <3>1
  <2>. QED BY <1>6, <2>1, <2>2, <2>3, <2>4, <2>5, <2>6 DEF Answer
<1>. QED BY <1>5, <1>6

LEMMA WorkerFrame ==
  ASSUME IInv, NEW w \in Workers, Job(w) \/ Die(w)
  PROVE  OthersFrame(w)
<1>1. /\ pc \in [Sessions -> Labels] /\ view \in [Sessions -> View] /\ w \in Sessions
      /\ cur \in [Workers -> 0 .. NRuns + 1] /\ w \notin Clients
  BY Types, SessionsAssumption DEF Sessions, IInv
<1>2. ASSUME UNCHANGED client, lock = w \/ UNCHANGED locks, NEW l, Goto(w, l),
             NEW v, view' = [view EXCEPT ![w] = v], NEW k, cur' = [cur EXCEPT ![w] = k]
      PROVE  OthersFrame(w)
  BY <1>1, <1>2 DEF Goto, OthersFrame, client, locks
<1>3. view = [view EXCEPT ![w] = view[w]] /\ cur = [cur EXCEPT ![w] = cur[w]] BY <1>1
<1>4. ASSUME UNCHANGED client, lock = w \/ UNCHANGED locks, NEW l, Goto(w, l), NEW v, NEW u,
             view' = [view EXCEPT ![w].run = v] \/ view' = [view EXCEPT ![w].att = v]
               \/ view' = [view EXCEPT ![w].exp = v]
               \/ view' = [view EXCEPT ![w].att = v, ![w].run = u],
             NEW k, cur' = [cur EXCEPT ![w] = k]
      PROVE  OthersFrame(w)
  BY <1>1, <1>4 DEF Goto, OthersFrame, client, locks
<1>5. CASE TakeJob(w) BY <1>2, <1>3, <1>5 DEF TakeJob
<1>6. CASE GetExperiment(w) BY <1>1, <1>6 DEF GetExperiment, Goto, OthersFrame, client, locks
<1>7. CASE ReadCanceled(w) BY <1>1, <1>7 DEF ReadCanceled, Goto, OthersFrame, client, locks
<1>8. CASE CommitCanceled(w) \/ JobTimeout(w)
  BY <1>2, <1>3, <1>8 DEF CommitCanceled, JobTimeout, End
<1>9. CASE Begin(w) BY <1>1, <1>9 DEF Begin, Goto, OthersFrame, client
<1>10. CASE LoadRuns(w) BY <1>4, <1>10 DEF LoadRuns
<1>11. CASE SkipCanceledRun(w)
  BY <1>1, <1>11 DEF SkipCanceledRun, NextRun, Goto, OthersFrame, client, locks
<1>12. CASE BeginRun(w)
  <2>1. lock = w BY <1>12 DEF BeginRun, IInv, LockInv, Locked
  <2>. QED BY <1>1, <1>12, <2>1 DEF BeginRun, Goto, OthersFrame, client
<1>13. CASE LoadAttempts(w) BY <1>1, <1>13 DEF LoadAttempts, Goto, OthersFrame, client, locks
<1>14. CASE StartCall(w) BY <1>1, <1>14 DEF StartCall, Goto, OthersFrame, client, locks
<1>15. CASE CallSucceeds(w) BY <1>1, <1>15 DEF CallSucceeds, Goto, OthersFrame, client, locks
<1>16. CASE CallFails(w) \/ NothingQueued(w)
  BY <1>1, <1>16 DEF CallFails, NothingQueued, Settle, NextRun, Goto, OthersFrame, client, locks
<1>17. CASE Finish(w) \/ Die(w)
  <2>1. lock = w \/ UNCHANGED locks
    BY <1>17 DEF Finish, Ends, Die, IInv, LockInv, Locked
  <2>. QED BY <1>2, <1>17, <2>1 DEF Finish, Die, End
<1>. QED BY <1>5, <1>6, <1>7, <1>8, <1>9, <1>10, <1>11, <1>12, <1>13, <1>14, <1>15, <1>16,
            <1>17 DEF Job
-----------------------------------------------------------------------------
\* The requests that read, and the end of one that writes nothing.
LEMMA ReadHistory ==
  ASSUME IInv, IInv', HistInv, NEW c \in Clients,
         \/ Request(c) \/ ReadRuns(c) \/ ReadAttempts(c) \/ ReadRetried(c)
         \/ ReadRetriedExperiment(c) \/ Enqueue(c) \/ RequestTimeout(c)
  PROVE  HistInv'
<1>1. /\ pc \in [Sessions -> Labels] /\ view \in [Sessions -> View] /\ c \in Sessions
      /\ op \in [Clients -> {"none", "cancel_experiment", "cancel_run",
                             "retry", "queue", "edit"}]
      /\ arg \in [Clients -> Runs] /\ db \in Db /\ view[c] \in View /\ arg[c] \in Runs
      /\ \A r \in Runs : db.att[r] \in Rows
  BY Types, DbFields DEF IInv, Sessions
<1>2. OthersFrame(c) BY ClientFrame DEF IInv, Answer
<1>3. db' = db
  BY DEF Request, AskCancelExperiment, AskQueue, AskEdit, AskCancelRun, AskRetry, ReadRuns,
         ReadAttempts, ReadRetried, ReadRetriedExperiment, Enqueue, RequestTimeout
<1>4. Commits(db', c) BY <1>1, <1>3, NoCommit
<1>5. SUFFICES ClientHas(pc[c], view[c], op[c], arg[c], db)'
  BY <1>2, <1>4, ClientHistory
<1>6. ClientHas(pc[c], view[c], op[c], arg[c], db) BY DEF HistInv
\* A step that reads no attempts.
<1>7. ASSUME view'[c].att = view[c].att, view'[c].gen = view[c].gen,
             op'[c] = "retry" /\ pc'[c] \in {"experiment", "write"} =>
               op[c] = "retry" /\ arg'[c] = arg[c] /\ pc[c] \in {"experiment", "write"}
      PROVE  ClientHas(pc[c], view[c], op[c], arg[c], db)'
  BY <1>3, <1>6, <1>7 DEF ClientHas
<1>8. ASSUME pc'[c] \in Unread PROVE ClientHas(pc[c], view[c], op[c], arg[c], db)'
  BY <1>1, <1>8, UnreadHas
<1>9. ASSUME EndRequest(c) PROVE pc'[c] \in Unread
  BY <1>1, <1>9 DEF EndRequest, End, Goto, Unread
<1>10. ASSUME NEW e
       PROVE  /\ [view EXCEPT ![c].exp = e][c].att = view[c].att
              /\ [view EXCEPT ![c].exp = e][c].gen = view[c].gen
  BY <1>1 DEF View
<1>11. ASSUME NEW f
       PROVE  /\ [view EXCEPT ![c].att = f][c].att = f
              /\ [view EXCEPT ![c].att = f][c].gen = view[c].gen
  BY <1>1 DEF View
<1>20. CASE AskCancelExperiment(c) \/ AskEdit(c) \/ ReadRuns(c)
  BY <1>1, <1>8, <1>20 DEF AskCancelExperiment, AskEdit, ReadRuns, Goto, Unread
<1>21. ASSUME NEW r \in Runs, AskCancelRun(c, r) \/ AskRetry(c, r)
       PROVE  ClientHas(pc[c], view[c], op[c], arg[c], db)'
  BY <1>1, <1>8, <1>21 DEF AskCancelRun, AskRetry, Goto, Unread
<1>22. CASE AskQueue(c)
  <2>1. op'[c] = "queue" /\ view' = [view EXCEPT ![c].exp = db.exp] BY <1>1, <1>22 DEF AskQueue
  <2>. QED BY <1>7, <1>10, <2>1
<1>23. CASE ReadAttempts(c) \/ (ReadRetried(c) /\ Retryable(RowsRead(c)[arg[c]]))
  <2>1. /\ view' = [view EXCEPT ![c].att = RowsRead(c)] /\ op'[c] = op[c] /\ arg'[c] = arg[c]
    BY <1>23 DEF ReadAttempts, ReadRetried, client
  <2>2. view'[c].att = RowsRead(c) /\ view'[c].gen = view[c].gen BY <1>11, <2>1
  <2>3. ASSUME view'[c].gen = db'.gen, NEW r \in Runs
        PROVE  Recalls(db'.att[r], view'[c].att[r])
    <3>1. view'[c].att = db.att BY <1>3, <2>2, <2>3 DEF RowsRead
    <3>. QED BY <1>1, <1>3, <3>1, HistoryRelations
  <2>4. ASSUME op'[c] = "retry"
        PROVE  view'[c].att[arg'[c]][Len(view'[c].att[arg'[c]])].status = "failed"
    <3>1. Retryable(RowsRead(c)[arg[c]]) BY <1>23, <2>1, <2>4 DEF ReadAttempts
    <3>2. RowsRead(c)[arg[c]][Len(RowsRead(c)[arg[c]])].status = "failed"
      BY <3>1 DEF Retryable
    <3>. QED BY <2>1, <2>2, <3>2
  <2>. QED BY <2>3, <2>4 DEF ClientHas
<1>24. CASE ReadRetried(c) /\ ~Retryable(RowsRead(c)[arg[c]])
  BY <1>8, <1>9, <1>24 DEF ReadRetried
<1>25. CASE ReadRetriedExperiment(c)
  <2>1. /\ op'[c] = op[c] /\ arg'[c] = arg[c] /\ pc[c] = "experiment"
        /\ view' = [view EXCEPT ![c].exp = db.exp]
    BY <1>25 DEF ReadRetriedExperiment, client
  <2>. QED BY <1>7, <1>10, <2>1
<1>26. CASE Enqueue(c)
  <2>1. op[c] = "queue"
    <3>1. ClientOK(pc[c], view[c], op[c], arg[c], db) BY DEF IInv, ReadInv
    <3>. QED BY <1>26, <3>1 DEF Enqueue, ClientOK
  <2>2. CASE EndRequest(c) BY <1>8, <1>9, <2>2
  <2>3. CASE UNCHANGED <<view, client>>
    <3>1. op'[c] = op[c] /\ view' = view BY <2>3 DEF client
    <3>. QED BY <1>7, <2>1, <3>1
  <2>. QED BY <1>26, <2>2, <2>3 DEF Enqueue
<1>27. CASE RequestTimeout(c) BY <1>8, <1>9, <1>27 DEF RequestTimeout
<1>. QED BY <1>20, <1>21, <1>22, <1>23, <1>24, <1>25, <1>26, <1>27 DEF Request
-----------------------------------------------------------------------------
\* What each commit is in the history.  A cancellation:
LEMMA CancelRecorded ==
  ASSUME db \in Db, NEW v \in View, NEW R \in SUBSET Runs, NEW d \in Db, Stored(d),
         d.att = CanceledRuns(v, R).att, d.gen = db.gen
  PROVE  Recorded(d)
<1>1. ASSUME NEW r \in Runs PROVE History!Continues(db.att[r], d.att[r])
  <2>. DEFINE s == db.att[r]
              t == d.att[r]
  <2>1. s \in Rows /\ t \in Rows /\ v.att[r] \in Rows BY DbFields, ViewFields
  <2>2. t = s \/ t = CancelStored(v.att[r], s) BY CanceledFields
  <2>. HIDE DEF s, t
  <2>3. DOMAIN s = 1 .. Len(s) /\ Len(s) \in Nat /\ Len(t) = Len(s)
    BY <2>1, <2>2, CancelStoredKeeps DEF Rows
  <2>4. ASSUME NEW i \in 1 .. Len(s) PROVE History!RowStep(s[i], t[i])
    <3>1. s[i] \in RunAttempt BY <2>1, RowType
    <3>2. t[i] = s[i] \/ t[i] = [s[i] EXCEPT !.status = "canceled"]
      BY <2>2, <2>3 DEF CancelStored
    <3>. QED BY <3>1, <3>2, RowSteps
  <2>5. History!RetriedOnce(t) BY ChainsRetryOnce DEF Stored, t
  <2>6. History!Continues(s, t) BY <2>3, <2>4, <2>5 DEF History!Continues
  <2>. QED BY <2>6 DEF s, t
<1>. QED BY <1>1 DEF Recorded

\* A commit that writes no attempts.
LEMMA SameRecorded ==
  ASSUME IInv, NEW d, d.att = db.att, d.gen = db.gen
  PROVE  Recorded(d)
<1>1. 1 \in Runs BY SessionsAssumption DEF Runs
<1>2. ASSUME NEW r \in Runs PROVE History!Continues(db.att[r], db.att[r])
  <2>1. db.att[r] \in Rows BY Types, DbFields DEF IInv
  <2>2. \A i \in 1 .. Len(db.att[r]) : History!RowStep(db.att[r][i], db.att[r][i])
    BY <2>1, RowType, RowSteps
  <2>3. History!RetriedOnce(db.att[r]) BY ChainsRetryOnce DEF IInv, Stored
  <2>4. Len(db.att[r]) \in Nat BY <2>1 DEF Rows
  <2>. QED BY <2>2, <2>3, <2>4 DEF History!Continues
<1>. QED BY <1>2 DEF Recorded

\* The retry of a row that a request has seen fail: it is settled still.
LEMMA RetryContinues ==
  ASSUME NEW s \in Rows, NEW t \in Rows, s # <<>>, s[Len(s)].status = "failed",
         Prolongs(t, s), Recalls(t, s),
         NEW u \in Rows, u = Append(t, RetryRow(s, Len(s), TRUE)), Chained(u)
  PROVE  History!Continues(t, u)
<1>. DEFINE n == Len(s)
<1>1. n \in 1 .. Len(s) /\ n \in 1 .. Len(t) /\ Len(t) \in Nat BY DEF Rows, Prolongs
<1>2. /\ t[n].replicate_index = s[n].replicate_index
      /\ t[n].attempt_number = s[n].attempt_number /\ t[n].status \in Terminal
  BY <1>1 DEF Recalls, Prolongs, Terminal
<1>. DEFINE row == RetryRow(s, n, TRUE)
<1>3. Len(u) = Len(t) + 1 /\ u[Len(t) + 1] = row /\ \A i \in 1 .. Len(t) : u[i] = t[i]
  <2>1. row \in RunAttempt BY <1>1, NewRowType, TRUE \in BOOLEAN, 0 \in Nat
  <2>. HIDE DEF row, n
  <2>2. u = Append(t, row) BY DEF row, n
  <2>3. ASSUME NEW z \in Rows, NEW one \in RunAttempt
        PROVE  /\ Len(Append(z, one)) = Len(z) + 1 /\ Append(z, one)[Len(z) + 1] = one
               /\ \A i \in 1 .. Len(z) : Append(z, one)[i] = z[i]
    BY DEF Rows
  <2>4. /\ Len(Append(t, row)) = Len(t) + 1 /\ Append(t, row)[Len(t) + 1] = row
        /\ \A i \in 1 .. Len(t) : Append(t, row)[i] = t[i]
    BY <2>1, <2>3
  <2>. QED BY <2>2, <2>4
<1>4. RetryRow(u, n, TRUE) = row
  <2>1. u[n] = t[n] BY <1>1, <1>3
  <2>. QED BY <1>2, <2>1 DEF RetryRow
<1>. HIDE DEF row, n
<1>5. ASSUME NEW i \in Len(t) + 1 .. Len(u) PROVE History!RetryOf(u, i)
  <2>1. i = Len(t) + 1 BY <1>1, <1>3
  <2>2. n \in 1 .. i - 1 BY <1>1, <2>1 DEF n
  <2>3. u[n] = t[n] BY <1>1, <1>3
  <2>4. u[n].status \in Terminal /\ u[i] = RetryRow(u, n, TRUE)
    BY <1>2, <1>3, <1>4, <2>1, <2>3
  <2>5. TRUE \in BOOLEAN OBVIOUS
  <2>. QED BY <2>2, <2>4, <2>5, HistoryNames DEF History!RetryOf
<1>6. ASSUME NEW i \in 1 .. Len(t) PROVE History!RowStep(t[i], u[i])
  <2>1. t[i] \in RunAttempt /\ u[i] = t[i] BY <1>3, RowType
  <2>. QED BY <2>1, RowSteps
<1>7. Len(t) <= Len(u) BY <1>1, <1>3
<1>8. History!RetriedOnce(u) BY ChainsRetryOnce
<1>. QED BY <1>5, <1>6, <1>7, <1>8 DEF History!Continues

\* The commits of the requests.
LEMMA CommitsRecorded ==
  ASSUME IInv, HistInv, NEW c \in Clients, db' \in Db, Stored(db'),
         \/ CommitCancelExperiment(c) \/ CommitCancelRun(c) \/ CommitRetry(c)
         \/ CommitQueue(c) \/ CommitEdit(c)
  PROVE  Recorded(db') \/ Replaced(db')
<1>1. db \in Db /\ view[c] \in View /\ c \in Sessions /\ arg[c] \in Runs
  BY Types DEF IInv, Sessions
<1>2. /\ db.att \in [Runs -> Rows] /\ view[c].att \in [Runs -> Rows]
      /\ \A r \in Runs : db.att[r] \in Rows /\ view[c].att[r] \in Rows /\ db'.att[r] \in Rows
  BY <1>1, DbFields, ViewFields
<1>3. Recorded(db) BY SameRecorded
<1>. DEFINE v == view[c]
<1>4. CASE CommitCancelExperiment(c)
  <2>. DEFINE d == CanceledRuns(v, Runs)
              e == [d EXCEPT !.exp = Column(v.exp, "canceled", d.exp)]
  <2>1. db' = db \/ db' = e BY <1>4 DEF CommitCancelExperiment
  <2>2. d \in Db /\ d.gen = db.gen BY <1>1, CanceledFields
  <2>3. e.att = d.att /\ e.gen = db.gen
    <3>. HIDE DEF d
    <3>. QED BY <2>2 DEF Db
  <2>. HIDE DEF e
  <2>4. Runs \in SUBSET Runs OBVIOUS
  <2>5. CASE db' = e
    <3>1. db'.att = CanceledRuns(v, Runs).att /\ db'.gen = db.gen BY <2>3, <2>5
    <3>. QED BY <1>1, <2>4, <3>1, CancelRecorded
  <2>. QED BY <1>3, <2>1, <2>5
<1>5. CASE CommitCancelRun(c)
  <2>. DEFINE R == {arg[c]}
              d == CanceledRuns(v, R)
              e == [d EXCEPT !.audited = d.audited \cup R]
  <2>1. db' = db \/ db' = e BY <1>5 DEF CommitCancelRun
  <2>2. d \in Db /\ d.gen = db.gen BY <1>1, CanceledFields
  <2>3. e.att = d.att /\ e.gen = db.gen
    <3>. HIDE DEF d, R
    <3>. QED BY <2>2 DEF Db
  <2>. HIDE DEF e
  <2>4. R \in SUBSET Runs BY <1>1
  <2>. HIDE DEF R
  <2>5. CASE db' = e
    <3>1. db'.att = CanceledRuns(v, R).att /\ db'.gen = db.gen BY <2>3, <2>5
    <3>. QED BY <1>1, <2>4, <3>1, CancelRecorded
  <2>. QED BY <1>3, <2>1, <2>5
<1>6. CASE CommitRetry(c)
  <2>. DEFINE r   == arg[c]
              s   == v.att[r]
              row == RetryRow(s, Len(s), TRUE)
              u   == Append(db.att[r], row)
              att == [db.att EXCEPT ![r] = u]
  <2>1. \/ db' = db
        \/ v.gen = db.gen /\ db'.gen = db.gen /\ db'.att = att
    <3>. HIDE DEF row
    <3>1. pc[c] = "write" /\ op[c] = "retry" BY <1>6 DEF CommitRetry, Writes
    <3>2. \/ db' = db
          \/ /\ v.gen = db.gen
             /\ db' = [db EXCEPT
                         !.att[r] = Append(@, row),
                         !.run[r] = Column(v.run[r], "pending", @),
                         !.exp = IF v.exp = "canceled" THEN @ ELSE Column(v.exp, "queued", @),
                         !.audited = @ \cup {r}]
      BY <1>6 DEF CommitRetry, row
    <3>. QED BY <1>1, <3>2 DEF Db
  <2>2. pc[c] = "write" /\ op[c] = "retry" BY <1>6 DEF CommitRetry, Writes
  <2>3. CASE v.gen = db.gen /\ db'.gen = db.gen /\ db'.att = att
    <3>1. ClientOK(pc[c], view[c], op[c], arg[c], db) BY DEF IInv, ReadInv
    <3>2. s # <<>> /\ Prolongs(db.att[r], s) BY <1>1, <2>2, <2>3, <3>1 DEF ClientOK
    <3>3. ClientHas(pc[c], view[c], op[c], arg[c], db) BY DEF HistInv
    <3>4. Recalls(db.att[r], s) /\ s[Len(s)].status = "failed"
      BY <1>1, <2>2, <2>3, <3>3 DEF ClientHas
    <3>. HIDE DEF u, row
    <3>5. \A x \in Runs : att[x] = IF x = r THEN u ELSE db.att[x] BY <1>2
    <3>6. \A x \in Runs : db'.att[x] = IF x = r THEN u ELSE db.att[x] BY <2>3, <3>5
    <3>7. History!Continues(db.att[r], u)
      <4>1. u \in Rows /\ Chained(u) BY <1>1, <1>2, <3>6 DEF Stored
      <4>2. u = Append(db.att[r], RetryRow(s, Len(s), TRUE)) BY DEF u, row
      <4>3. s \in Rows /\ db.att[r] \in Rows BY <1>1, <1>2
      <4>. HIDE DEF s
      <4>. QED BY <3>2, <3>4, <4>1, <4>2, <4>3, RetryContinues
    <3>8. \A x \in Runs : History!Continues(db.att[x], db'.att[x])
      BY <1>3, <3>6, <3>7 DEF Recorded
    <3>. QED BY <2>3, <3>8 DEF Recorded
  <2>. QED BY <1>3, <2>1, <2>3
<1>7. CASE CommitQueue(c)
  <2>1. db'.att = db.att /\ db'.gen = db.gen BY <1>1, <1>7 DEF CommitQueue, Db
  <2>. QED BY <2>1, SameRecorded
<1>8. CASE CommitEdit(c)
  <2>1. CASE db' = db BY <1>3, <2>1
  <2>2. CASE db' # db
    <3>1. db.audited = {} BY <1>8, <2>2 DEF CommitEdit, Deletable
    <3>2. db' = [db EXCEPT !.run = [r \in Runs |-> "pending"], !.att = NewRows, !.gen = @ + 1]
      BY <1>8, <2>2 DEF CommitEdit
    <3>3. db'.att = NewRows /\ db'.gen = db.gen + 1 BY <1>1, <3>2 DEF Db
    <3>4. \A r \in Runs : \A i \in 1 .. Len(db.att[r]) : db.att[r][i].calls = 0
      BY <3>1 DEF IInv, Stored, Audited
    <3>. QED BY <3>3, <3>4, HistoryNames DEF Replaced
  <2>. QED BY <2>1, <2>2
<1>. QED BY <1>4, <1>5, <1>6, <1>7, <1>8

LEMMA CommitHistory ==
  ASSUME IInv, IInv', HistInv, NEW c \in Clients,
         \/ CommitCancelExperiment(c) \/ CommitCancelRun(c) \/ CommitRetry(c)
         \/ CommitQueue(c) \/ CommitEdit(c)
  PROVE  HistInv' /\ (Recorded(db') \/ Replaced(db'))
<1>1. OthersFrame(c) BY ClientFrame DEF IInv, Answer
<1>2. db' \in Db /\ Step(db', c) /\ Stored(db') BY CommitActs DEF IInv
<1>3. Recorded(db') \/ Replaced(db') BY <1>2, CommitsRecorded
<1>4. Commits(db', c) BY <1>2, <1>3 DEF Commits
<1>5. c \in Sessions /\ pc \in [Sessions -> Labels] BY Types DEF IInv, Sessions
<1>6. EndRequest(c)
  BY DEF CommitCancelExperiment, CommitCancelRun, CommitRetry, CommitQueue, CommitEdit
<1>7. pc'[c] \in Unread BY <1>5, <1>6 DEF EndRequest, End, Goto, Unread
<1>8. ClientHas(pc[c], view[c], op[c], arg[c], db)' BY <1>5, <1>7, UnreadHas
<1>. QED BY <1>1, <1>3, <1>4, <1>8, ClientHistory
-----------------------------------------------------------------------------
\* One of a worker's rows is called, or settled.
LEMMA RowTakes ==
  ASSUME NEW s \in Rows, NEW t, NEW i \in 1 .. Len(s), NEW row, [s EXCEPT ![i] = row] \in Rows,
         \A j \in 1 .. Len(s) : j # i => SettledRow(s[j], t[j])
  PROVE  /\ SettledRow(row, t[i]) => Settled([s EXCEPT ![i] = row], t)
         /\ CalledRow(row, t[i]) => InCall([s EXCEPT ![i] = row], t)
<1>. DEFINE n == [s EXCEPT ![i] = row]
<1>1. DOMAIN s = 1 .. Len(s) /\ DOMAIN n = 1 .. Len(n) /\ Len(s) \in Nat /\ Len(n) \in Nat
  BY DEF Rows
<1>2. Len(n) = Len(s)
  <2>1. DOMAIN n = DOMAIN s OBVIOUS
  <2>. HIDE DEF n
  <2>2. 1 .. Len(n) = 1 .. Len(s) BY <1>1, <2>1
  <2>3. i \in 1 .. Len(n) BY <2>2
  <2>4. Len(s) \in 1 .. Len(s) /\ Len(n) \in 1 .. Len(n) BY <1>1, <2>3
  <2>5. Len(s) \in 1 .. Len(n) /\ Len(n) \in 1 .. Len(s) BY <2>2, <2>4
  <2>6. \A a, b \in Nat : a \in 1 .. b /\ b \in 1 .. a => b = a OBVIOUS
  <2>. QED BY <1>1, <2>5, <2>6, Zenon
<1>3. \A j \in 1 .. Len(s) : n[j] = IF j = i THEN row ELSE s[j] BY <1>1
<1>. HIDE DEF n
<1>4. SettledRow(row, t[i]) => Settled(n, t) BY <1>2, <1>3 DEF Settled
<1>5. CalledRow(row, t[i]) => InCall(n, t) BY <1>2, <1>3 DEF InCall
<1>. QED BY <1>4, <1>5 DEF n

\* The next queued row is queued in the database: it can be called.
LEMMA StartsCall ==
  ASSUME NEW s \in Rows, NEW t \in Rows, Works(s, t), Settled(s, t), NextQueued(s) # 0
  PROVE  InCall([s EXCEPT ![NextQueued(s)] = Called(s[NextQueued(s)])], t)
<1>. DEFINE k == NextQueued(s)
<1>1. k \in 1 .. Len(s) /\ s[k].status = "queued" BY NextQueuedSelects
<1>2. k \in 1 .. Len(t) BY <1>1 DEF Works, Prolongs, Rows
<1>. HIDE DEF k
<1>3. SettledRow(s[k], t[k]) /\ t[k] \in RunAttempt BY <1>1, <1>2, RowType DEF Settled
<1>4. s[k] = t[k] BY <1>1, <1>3, RowSteps DEF SettledRow
<1>5. t[k].status = "queued" BY <1>1, <1>4
<1>6. CalledRow(Called(s[k]), t[k])
  <2>1. CalledRow(Called(t[k]), t[k]) BY <1>3, <1>5, "failed" \in {"succeeded", "failed"}, CallSettles
  <2>. QED BY <1>4, <2>1
<1>7. [s EXCEPT ![k] = Called(s[k])] \in Rows
  BY "failed" \in {"succeeded", "failed"}, CallWorks
<1>8. \A j \in 1 .. Len(s) : j # k => SettledRow(s[j], t[j]) BY DEF Settled
<1>9. InCall([s EXCEPT ![k] = Called(s[k])], t) BY <1>1, <1>6, <1>7, <1>8, RowTakes
<1>. QED BY <1>9 DEF k

\* The row that is running is the one that was called.
LEMMA EndsCall ==
  ASSUME NEW s \in Rows, NEW t \in Rows, Works(s, t), InCall(s, t),
         NEW q \in {"succeeded", "failed"}
  PROVE  Settled([s EXCEPT ![CHOOSE i \in DOMAIN s : s[i].status = "running"].status = q], t)
<1>. DEFINE k == CHOOSE i \in DOMAIN s : s[i].status = "running"
<1>1. PICK i \in 1 .. Len(s) : /\ CalledRow(s[i], t[i])
                               /\ \A j \in 1 .. Len(s) : j # i => SettledRow(s[j], t[j])
  BY DEF InCall
<1>2. i \in 1 .. Len(t) /\ DOMAIN s = 1 .. Len(s) BY <1>1 DEF Works, Prolongs, Rows
<1>3. t[i] \in RunAttempt /\ t[i].status = "queued" /\ s[i] = Called(t[i])
  BY <1>1, <1>2, RowType DEF CalledRow
<1>4. s[i].status = "running" /\ SettledRow([s[i] EXCEPT !.status = q], t[i])
  BY <1>3, CallSettles
<1>5. k = i
  <2>1. k \in DOMAIN s /\ s[k].status = "running" BY <1>2, <1>4
  <2>. HIDE DEF k
  <2>. QED BY <1>1, <1>2, <2>1 DEF SettledRow
<1>. HIDE DEF k
<1>6. [s EXCEPT ![i].status = q] \in Rows BY CallWorks
<1>7. [s EXCEPT ![i].status = q] = [s EXCEPT ![i] = [s[i] EXCEPT !.status = q]] OBVIOUS
<1>8. Settled([s EXCEPT ![i] = [s[i] EXCEPT !.status = q]], t)
  BY <1>1, <1>4, <1>6, <1>7, RowTakes
<1>9. Settled([s EXCEPT ![k].status = q], t) BY <1>5, <1>7, <1>8
<1>. QED BY <1>9 DEF k

\* Of a run that was passed, what was open when it was read is canceled.
LEMMA CanceledContinues ==
  ASSUME NEW read \in Rows, NEW s \in Rows, Chained(CancelStored(read, s))
  PROVE  History!Continues(s, CancelStored(read, s))
<1>. DEFINE t == CancelStored(read, s)
<1>1. DOMAIN s = 1 .. Len(s) /\ Len(s) \in Nat /\ Len(t) = Len(s)
  BY CancelStoredKeeps DEF Rows
<1>2. ASSUME NEW i \in 1 .. Len(s) PROVE History!RowStep(s[i], t[i])
  <2>1. s[i] \in RunAttempt BY RowType
  <2>2. t[i] = s[i] \/ t[i] = [s[i] EXCEPT !.status = "canceled"] BY <1>1 DEF CancelStored
  <2>. QED BY <2>1, <2>2, RowSteps
<1>3. History!RetriedOnce(t) BY ChainsRetryOnce
<1>. HIDE DEF t
<1>4. History!Continues(s, t) BY <1>1, <1>2, <1>3 DEF History!Continues
<1>. QED BY <1>4 DEF t

\* The commit of an execution: the rows it settled, and those inserted meanwhile.
LEMMA MergedContinues ==
  ASSUME NEW s \in Rows, NEW t \in Rows, Works(s, t), Settled(s, t), Chained(Merged(s, t))
  PROVE  History!Continues(t, Merged(s, t))
<1>. DEFINE u == Merged(s, t)
<1>1. /\ Len(u) = Len(t)
      /\ \A i \in 1 .. Len(t) : i <= Len(s) => u[i] = s[i]
      /\ \A i \in 1 .. Len(t) : i > Len(s) => u[i] = t[i]
  BY MergedKeeps
<1>2. Len(t) \in Nat /\ Len(s) \in Nat BY DEF Rows
<1>. HIDE DEF u
<1>3. ASSUME NEW i \in 1 .. Len(t) PROVE History!RowStep(t[i], u[i])
  <2>1. CASE i <= Len(s)
    <3>1. i \in 1 .. Len(s) /\ u[i] = s[i] BY <1>1, <1>2, <2>1
    <3>. QED BY <3>1 DEF Settled, SettledRow
  <2>2. CASE i > Len(s)
    <3>1. u[i] = t[i] /\ t[i] \in RunAttempt BY <1>1, <2>2, RowType
    <3>. QED BY <3>1, RowSteps
  <2>. QED BY <1>2, <2>1, <2>2
<1>4. History!RetriedOnce(u) BY ChainsRetryOnce DEF u
<1>5. History!Continues(t, u) BY <1>1, <1>2, <1>3, <1>4 DEF History!Continues
<1>. QED BY <1>5 DEF u

\* The worker that waits for the lock, or ends.
LEMMA EndHistory ==
  ASSUME IInv, IInv', HistInv, NEW w \in Workers,
         \/ TakeJob(w) \/ GetExperiment(w) \/ ReadCanceled(w) \/ CommitCanceled(w)
         \/ JobTimeout(w) \/ Begin(w) \/ Finish(w) \/ Die(w)
  PROVE  HistInv' /\ Recorded(db')
<1>1. /\ db \in Db /\ view[w] \in View /\ w \in Sessions /\ pc \in [Sessions -> Labels]
      /\ \A r \in Runs : db.att[r] \in Rows /\ view[w].att[r] \in Rows
  BY Types, DbFields, ViewFields DEF IInv, Sessions
<1>2. OthersFrame(w) BY WorkerFrame DEF Job
<1>3. db' \in Db /\ Step(db', w) /\ Stored(db')
  <2>1. CASE Begin(w)
    <3>1. db' = db BY <2>1 DEF Begin
    <3>. QED BY <1>1, <3>1, NoStep DEF IInv
  <2>2. CASE Finish(w) \/ Die(w) BY <2>2, EndActs DEF IInv
  <2>. QED BY <2>1, <2>2, WaitActs DEF IInv
<1>4. Recorded(db')
  <2>1. CASE \/ TakeJob(w) \/ GetExperiment(w) \/ ReadCanceled(w) \/ JobTimeout(w)
             \/ Begin(w) \/ Die(w)
    <3>1. db' = db
      BY <2>1 DEF TakeJob, GetExperiment, ReadCanceled, JobTimeout, Begin, Die
    <3>. QED BY <3>1, SameRecorded
  <2>2. CASE CommitCanceled(w)
    <3>1. db' = db \/ db' = CanceledRuns(view[w], Runs) BY <2>2 DEF CommitCanceled
    <3>2. Runs \in SUBSET Runs OBVIOUS
    <3>3. CanceledRuns(view[w], Runs).gen = db.gen BY <1>1, <3>2, CanceledFields
    <3>4. CASE db' = CanceledRuns(view[w], Runs)
      <4>1. db'.att = CanceledRuns(view[w], Runs).att /\ db'.gen = db.gen BY <3>3, <3>4
      <4>. QED BY <1>1, <1>3, <3>2, <4>1, CancelRecorded
    <3>. QED BY <3>1, <3>4, SameRecorded
  <2>3. CASE Finish(w)
    <3>1. /\ db'.gen = db.gen
          /\ db'.att = [r \in Runs |-> IF r \in touched THEN Merged(view[w].att[r], db.att[r])
                                       ELSE CancelStored(view[w].att[r], db.att[r])]
      BY <1>1, <2>3 DEF Finish, Executed, Db
    <3>2. pc[w] = "run" BY <2>3 DEF Finish, Ends
    <3>3. ASSUME NEW r \in Runs PROVE History!Continues(db.att[r], db'.att[r])
      <4>1. CASE r \in touched
        <5>1. db'.att[r] = Merged(view[w].att[r], db.att[r]) BY <3>1, <4>1
        <5>2. /\ WorkerOK(pc[w], view[w], touched, db)
              /\ WorkerHas(pc[w], view[w], cur[w], touched, db)
          BY DEF IInv, ReadInv, HistInv
        <5>3. Works(view[w].att[r], db.att[r]) /\ Settled(view[w].att[r], db.att[r])
          BY <3>2, <4>1, <5>2 DEF WorkerOK, WorkerHas, Locked
        <5>4. Chained(Merged(view[w].att[r], db.att[r])) BY <1>3, <5>1 DEF Stored
        <5>5. History!Continues(db.att[r], Merged(view[w].att[r], db.att[r]))
          BY <1>1, <5>3, <5>4, MergedContinues
        <5>. QED BY <5>1, <5>5
      <4>2. CASE r \notin touched
        <5>1. db'.att[r] = CancelStored(view[w].att[r], db.att[r]) BY <3>1, <4>2
        <5>2. Chained(CancelStored(view[w].att[r], db.att[r])) BY <1>3, <5>1 DEF Stored
        <5>3. History!Continues(db.att[r], CancelStored(view[w].att[r], db.att[r]))
          BY <1>1, <5>2, CanceledContinues
        <5>. QED BY <5>1, <5>3
      <4>. QED BY <4>1, <4>2
    <3>. QED BY <3>1, <3>3 DEF Recorded
  <2>. QED BY <2>1, <2>2, <2>3
<1>5. Commits(db', w) BY <1>3, <1>4 DEF Commits
<1>6. WorkerHas(pc[w], view[w], cur[w], touched, db)'
  <2>1. CASE Begin(w)
    <3>1. pc'[w] \in Unread BY <1>1, <2>1 DEF Begin, Goto, Unread
    <3>. QED BY <1>1, <3>1, UnreadHas
  <2>2. CASE ~Begin(w)
    <3>1. pc'[w] \notin Locked
      BY <1>1, <2>2 DEF TakeJob, GetExperiment, ReadCanceled, CommitCanceled, JobTimeout,
                        Finish, Die, End, Goto, Locked
    <3>. QED BY <3>1 DEF WorkerHas
  <2>. QED BY <2>1, <2>2
<1>. QED BY <1>2, <1>4, <1>5, <1>6, WorkerHistory
\* The worker at work.
LEMMA WorkHistory ==
  ASSUME IInv, IInv', HistInv, NEW w \in Workers,
         \/ LoadRuns(w) \/ SkipCanceledRun(w) \/ BeginRun(w) \/ LoadAttempts(w)
         \/ StartCall(w) \/ CallSucceeds(w) \/ CallFails(w) \/ NothingQueued(w)
  PROVE  HistInv' /\ db' = db
<1>. DEFINE r == cur[w]
            s == view[w].att[r]
            t == db.att[r]
<1>1. /\ db \in Db /\ view[w] \in View /\ w \in Sessions /\ pc \in [Sessions -> Labels]
      /\ view \in [Sessions -> View] /\ cur \in [Workers -> 0 .. NRuns + 1]
      /\ view[w].att \in [Runs -> Rows] /\ touched \subseteq Runs
      /\ \A x \in Runs : db.att[x] \in Rows /\ view[w].att[x] \in Rows
  BY Types, DbFields, ViewFields DEF IInv, Sessions
<1>2. OthersFrame(w) BY WorkerFrame DEF Job
<1>3. db' = db
  BY DEF LoadRuns, SkipCanceledRun, BeginRun, LoadAttempts, StartCall, CallSucceeds,
         CallFails, NothingQueued
<1>4. Commits(db', w) BY <1>1, <1>3, NoCommit
<1>5. SUFFICES WorkerHas(pc[w], view[w], cur[w], touched, db)'
  BY <1>2, <1>3, <1>4, WorkerHistory
<1>6. pc[w] \in Locked
  BY DEF LoadRuns, SkipCanceledRun, BeginRun, LoadAttempts, StartCall, CallSucceeds,
         CallFails, NothingQueued, Locked
<1>7. \A x \in touched : IF pc[w] = "call" /\ x = r THEN InCall(view[w].att[x], db.att[x])
                         ELSE Settled(view[w].att[x], db.att[x])
  <2>1. WorkerHas(pc[w], view[w], cur[w], touched, db) BY DEF HistInv
  <2>. QED BY <1>6, <2>1 DEF WorkerHas
<1>8. \A x \in touched : Works(view[w].att[x], db.att[x])
  <2>1. WorkerOK(pc[w], view[w], touched, db) BY DEF IInv, ReadInv
  <2>. QED BY <1>1, <1>6, <2>1 DEF WorkerOK
<1>9. pc[w] \in AtRun => r \in Runs /\ r \in touched BY DEF IInv, LockInv
\* A step that takes no rows, and one that takes the rows n of a run.
<1>10. ASSUME view'[w].att = view[w].att, pc[w] # "call", pc'[w] # "call",
              \A x \in touched' : x \in touched \/ view[w].att[x] = <<>>
       PROVE  WorkerHas(pc[w], view[w], cur[w], touched, db)'
  <2>1. \A t1 : Settled(<<>>, t1) BY DEF Settled
  <2>. QED BY <1>3, <1>7, <1>10, <2>1 DEF WorkerHas
<1>11. ASSUME r \in Runs, NEW n, touched' = touched,
              \A x \in Runs : view'[w].att[x] = IF x = r THEN n ELSE view[w].att[x],
              \/ pc'[w] # "call" /\ Settled(n, t)
              \/ cur'[w] = r /\ InCall(n, t) /\ pc'[w] = "call"
       PROVE  WorkerHas(pc[w], view[w], cur[w], touched, db)'
  <2>1. SUFFICES ASSUME NEW x \in touched
                 PROVE  IF pc'[w] = "call" /\ x = cur'[w]
                        THEN InCall(view'[w].att[x], db.att[x])
                        ELSE Settled(view'[w].att[x], db.att[x])
    BY <1>3, <1>11 DEF WorkerHas
  <2>2. x \in Runs BY <1>1
  <2>3. CASE x = r BY <1>11, <2>2, <2>3
  <2>4. CASE x # r
    <3>1. Settled(view[w].att[x], db.att[x]) BY <1>7, <2>4
    <3>. QED BY <1>11, <2>2, <2>4, <3>1
  <2>. QED BY <2>3, <2>4
<1>12. ASSUME NEW n, NEW q, r \in Runs,
              \/ view' = [view EXCEPT ![w].att[r] = n]
              \/ view' = [view EXCEPT ![w].att[r] = n, ![w].run[r] = q]
       PROVE  \A x \in Runs : view'[w].att[x] = IF x = r THEN n ELSE view[w].att[x]
  <2>1. view'[w].att = [view[w].att EXCEPT ![r] = n] BY <1>1, <1>12 DEF View
  <2>. QED BY <1>1, <2>1
<1>20. CASE LoadRuns(w)
  <2>1. /\ pc[w] = "load_runs" /\ pc'[w] = "run" /\ view'[w].att = view[w].att
        /\ touched' = touched
    BY <1>1, <1>20 DEF LoadRuns, Goto, View, locks
  <2>. QED BY <1>10, <2>1
<1>21. CASE SkipCanceledRun(w)
  <2>1. /\ r \in Runs /\ pc'[w] = "run" /\ view' = [view EXCEPT ![w].att[r] = t]
        /\ touched' = touched
    BY <1>1, <1>21 DEF SkipCanceledRun, NextRun, Goto, locks
  <2>2. Settled(t, t) BY <1>1, <2>1, HistoryRelations DEF HistInv, Quiet
  <2>3. \A x \in Runs : view'[w].att[x] = IF x = r THEN t ELSE view[w].att[x]
    BY <1>12, <2>1
  <2>. QED BY <1>11, <2>1, <2>2, <2>3
<1>22. CASE BeginRun(w)
  <2>1. /\ pc[w] = "run" /\ pc'[w] = "load" /\ view' = [view EXCEPT ![w].run[r] = "running"]
        /\ touched' = touched \cup {r} /\ r \in Runs /\ view[w].run[r] # "canceled"
    BY <1>1, <1>22 DEF BeginRun, Goto
  <2>2. view'[w].att = view[w].att BY <1>1, <2>1 DEF View
  <2>3. r \in touched \/ view[w].att[r] = <<>>
    <3>1. WorkerOK(pc[w], view[w], touched, db) BY DEF IInv, ReadInv
    <3>. QED BY <1>6, <2>1, <3>1 DEF WorkerOK
  <2>4. \A x \in touched' : x \in touched \/ view[w].att[x] = <<>> BY <2>1, <2>3
  <2>. QED BY <1>10, <2>1, <2>2, <2>4
<1>23. CASE LoadAttempts(w)
  <2>1. /\ pc[w] = "load" /\ pc'[w] = "select" /\ view' = [view EXCEPT ![w].att[r] = t]
        /\ touched' = touched
    BY <1>1, <1>23 DEF LoadAttempts, Goto, locks
  <2>2. r \in Runs /\ r \in touched BY <1>9, <2>1 DEF AtRun
  <2>3. Settled(t, t) BY <1>1, <2>2, HistoryRelations DEF HistInv, Quiet
  <2>4. \A x \in Runs : view'[w].att[x] = IF x = r THEN t ELSE view[w].att[x]
    BY <1>12, <2>1, <2>2
  <2>. QED BY <1>11, <2>1, <2>2, <2>3, <2>4
<1>24. CASE StartCall(w)
  <2>. DEFINE n == [s EXCEPT ![NextQueued(s)] = Called(s[NextQueued(s)])]
  <2>1. /\ pc[w] = "select" /\ pc'[w] = "call" /\ cur'[w] = r /\ NextQueued(s) # 0
        /\ view' = [view EXCEPT ![w].att[r] = n] /\ touched' = touched
    BY <1>1, <1>24 DEF StartCall, Selected, Goto, locks
  <2>2. r \in Runs /\ r \in touched BY <1>9, <2>1 DEF AtRun
  <2>3. s \in Rows /\ t \in Rows /\ Works(s, t) /\ Settled(s, t) BY <1>1, <1>7, <1>8, <2>1, <2>2
  <2>4. InCall(n, t)
    <3>. HIDE DEF s, t
    <3>. QED BY <2>1, <2>3, StartsCall
  <2>. HIDE DEF n
  <2>5. \A x \in Runs : view'[w].att[x] = IF x = r THEN n ELSE view[w].att[x]
    BY <1>12, <2>1, <2>2
  <2>. QED BY <1>11, <2>1, <2>2, <2>4, <2>5
<1>25. CASE CallSucceeds(w) \/ CallFails(w)
  <2>. DEFINE n(q) == [s EXCEPT ![CHOOSE i \in DOMAIN s : s[i].status = "running"].status = q]
  <2>1. pc[w] = "call" /\ touched' = touched BY <1>25 DEF CallSucceeds, CallFails, locks
  <2>2. r \in Runs /\ r \in touched BY <1>9, <2>1 DEF AtRun
  <2>3. s \in Rows /\ t \in Rows /\ Works(s, t) /\ InCall(s, t) BY <1>1, <1>7, <1>8, <2>1, <2>2
  <2>4. ASSUME NEW q \in {"succeeded", "failed"} PROVE Settled(n(q), t) /\ Ended(w, q) = n(q)
    <3>1. Ended(w, q) = n(q) BY DEF Ended, Calling
    <3>2. Settled(n(q), t)
      <4>. HIDE DEF s, t
      <4>. QED BY <2>3, EndsCall
    <3>. QED BY <3>1, <3>2
  <2>. HIDE DEF n
  <2>5. ASSUME NEW q \in {"succeeded", "failed"}, pc'[w] # "call", NEW p,
               \/ view' = [view EXCEPT ![w].att[r] = Ended(w, q)]
               \/ view' = [view EXCEPT ![w].att[r] = Ended(w, q), ![w].run[r] = p]
        PROVE  WorkerHas(pc[w], view[w], cur[w], touched, db)'
    <3>1. Settled(n(q), t) /\ Ended(w, q) = n(q) BY <2>4
    <3>2. \/ view' = [view EXCEPT ![w].att[r] = n(q)]
          \/ view' = [view EXCEPT ![w].att[r] = n(q), ![w].run[r] = p]
      BY <2>5, <3>1
    <3>3. \A x \in Runs : view'[w].att[x] = IF x = r THEN n(q) ELSE view[w].att[x]
      BY <1>12, <2>2, <3>2
    <3>. QED BY <1>11, <2>1, <2>2, <2>5, <3>1, <3>3
  <2>6. CASE CallSucceeds(w)
    <3>1. view' = [view EXCEPT ![w].att[r] = Ended(w, "succeeded")] /\ pc'[w] = "select"
      BY <1>1, <2>6 DEF CallSucceeds, Goto
    <3>. QED BY <2>5, <3>1
  <2>7. CASE CallFails(w)
    <3>1. /\ pc'[w] = "run"
          /\ view' = [view EXCEPT ![w].att[r] = Ended(w, "failed"),
                                  ![w].run[r] = StatusFromAttempts(Ended(w, "failed"))]
      BY <1>1, <2>7 DEF CallFails, Settle, NextRun, Goto
    <3>. QED BY <2>5, <3>1
  <2>. QED BY <1>25, <2>6, <2>7
<1>26. CASE NothingQueued(w)
  <2>1. /\ pc[w] = "select" /\ pc'[w] = "run"
        /\ view' = [view EXCEPT ![w].att[r] = s, ![w].run[r] = StatusFromAttempts(s)]
        /\ touched' = touched
    BY <1>1, <1>26 DEF NothingQueued, Settle, NextRun, Goto, locks
  <2>2. r \in Runs /\ r \in touched BY <1>9, <2>1 DEF AtRun
  <2>3. Settled(s, t) BY <1>7, <2>1, <2>2
  <2>4. \A x \in Runs : view'[w].att[x] = IF x = r THEN s ELSE view[w].att[x]
    BY <1>12, <2>1, <2>2
  <2>. QED BY <1>11, <2>1, <2>2, <2>3, <2>4
<1>. QED BY <1>20, <1>21, <1>22, <1>23, <1>24, <1>25, <1>26
-----------------------------------------------------------------------------
LEMMA InitHistory == Init => HistInv
<1>. SUFFICES ASSUME Init PROVE HistInv OBVIOUS
<1>1. IInv BY InitInv
<1>2. db.att = NewRows /\ \A x \in Sessions : pc[x] = "idle" /\ view[x] = Blank BY DEF Init
<1>3. Quiet(db)
  <2>1. SUFFICES ASSUME NEW r \in Runs, NEW i \in 1 .. Len(db.att[r])
                 PROVE  db.att[r][i].status # "running"
    BY DEF Quiet, Idle
  <2>2. db.att[r] = <<ReplicateRow(1)>> BY <1>2 DEF NewRows
  <2>3. i = 1 /\ db.att[r][1] = ReplicateRow(1) BY <2>1, <2>2
  <2>. QED BY <2>3 DEF ReplicateRow
<1>4. ASSUME NEW c \in Clients PROVE ClientHas(pc[c], view[c], op[c], arg[c], db)
  <2>1. view[c].att = [r \in Runs |-> <<>>] /\ pc[c] = "idle" BY <1>2 DEF Sessions, Blank
  <2>2. \A r \in Runs : Recalls(db.att[r], <<>>) BY DEF Recalls
  <2>. QED BY <2>1, <2>2 DEF ClientHas
<1>5. ASSUME NEW w \in Workers PROVE WorkerHas(pc[w], view[w], cur[w], touched, db)
  BY <1>2 DEF Sessions, WorkerHas, Locked
<1>. QED BY <1>3, <1>4, <1>5 DEF HistInv

LEMMA NextHistory ==
  ASSUME IInv, HistInv, [Next]_vars
  PROVE  HistInv' /\ (Recorded(db') \/ Replaced(db'))
<1>1. IInv' BY NextInv
<1>2. Recorded(db) BY SameRecorded
<1>3. CASE UNCHANGED vars
  <2>1. HistInv' BY <1>3 DEF HistInv, vars, client, locks
  <2>2. db' = db BY <1>3 DEF vars
  <2>. QED BY <1>2, <2>1, <2>2
<1>4. ASSUME NEW c \in Clients, Request(c) \/ Answer(c)
      PROVE  HistInv' /\ (Recorded(db') \/ Replaced(db'))
  <2>1. CASE \/ Request(c) \/ ReadRuns(c) \/ ReadAttempts(c) \/ ReadRetried(c)
             \/ ReadRetriedExperiment(c) \/ Enqueue(c) \/ RequestTimeout(c)
    <3>1. db' = db
      BY <2>1 DEF Request, AskCancelExperiment, AskQueue, AskEdit, AskCancelRun, AskRetry,
                  ReadRuns, ReadAttempts, ReadRetried, ReadRetriedExperiment, Enqueue,
                  RequestTimeout
    <3>. QED BY <1>1, <1>2, <2>1, <3>1, ReadHistory
  <2>2. CASE \/ CommitCancelExperiment(c) \/ CommitCancelRun(c) \/ CommitRetry(c)
             \/ CommitQueue(c) \/ CommitEdit(c)
    BY <1>1, <2>2, CommitHistory
  <2>. QED BY <1>4, <2>1, <2>2 DEF Answer
<1>5. ASSUME NEW w \in Workers, Job(w) \/ Die(w)
      PROVE  HistInv' /\ (Recorded(db') \/ Replaced(db'))
  <2>1. CASE \/ TakeJob(w) \/ GetExperiment(w) \/ ReadCanceled(w) \/ CommitCanceled(w)
             \/ JobTimeout(w) \/ Begin(w) \/ Finish(w) \/ Die(w)
    BY <1>1, <2>1, EndHistory
  <2>2. CASE \/ LoadRuns(w) \/ SkipCanceledRun(w) \/ BeginRun(w) \/ LoadAttempts(w)
             \/ StartCall(w) \/ CallSucceeds(w) \/ CallFails(w) \/ NothingQueued(w)
    <3>1. HistInv' /\ db' = db BY <1>1, <2>2, WorkHistory
    <3>. QED BY <1>2, <3>1
  <2>. QED BY <1>5, <2>1, <2>2 DEF Job
<1>. QED BY <1>3, <1>4, <1>5 DEF Next

\* The commits of all the requests and jobs together are a history: each keeps
\* the attempts, makes only those that were queued, cancels some, and adds
\* retries of settled ones, never two of one attempt.  An edit starts it again
\* only while no provider was called.
THEOREM SessionsKeepHistory == Spec => HistorySpec
<1>1. Init => History!Init BY HistoryNames DEF Init, History!Init
<1>2. IInv /\ HistInv /\ [Next]_vars => [History!Next]_<<db.att, db.gen>>
  <2>. SUFFICES ASSUME IInv, HistInv, [Next]_vars PROVE History!Next OBVIOUS
  <2>1. Recorded(db') \/ Replaced(db') BY NextHistory
  <2>2. CASE Recorded(db')
    <3>1. IInv' BY NextInv
    <3>2. db'.att \in [Runs -> Seq(RunAttempt)] BY <3>1 DEF IInv, TypeOK
    <3>3. /\ db'.gen = db.gen /\ \A r \in Runs : History!Continues(db.att[r], db'.att[r])
      BY <2>2 DEF Recorded
    <3>. QED BY <3>2, <3>3, HistoryNames DEF History!Next, History!Record
  <2>3. CASE Replaced(db')
    BY <2>3, HistoryNames DEF Replaced, History!Next, History!Replace
  <2>. QED BY <2>1, <2>2, <2>3
<1>3. IInv /\ HistInv /\ [Next]_vars => HistInv' BY NextHistory
<1>. QED BY <1>1, <1>2, <1>3, InitHistory, SessionsInvariant, PTL
     DEF Spec, HistorySpec, History!Spec
=============================================================================
