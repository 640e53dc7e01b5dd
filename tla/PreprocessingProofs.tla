------------------------ MODULE PreprocessingProofs ------------------------
(***************************************************************************)
(* Theorems of Library about preprocessing: it is all or nothing, its      *)
(* files are whole, and what experiments are shown of it is bound to its   *)
(* source.  They rest on what a session that preprocesses knows: its       *)
(* record is not in the table, the ids of the rows it made are nobody's,   *)
(* and their files are stored.                                             *)
(*                                                                         *)
(* And about experiments: their runs are those of their manifests, and of  *)
(* the members of the suite that was run.  They rest on what was taken up  *)
(* with a manifest: each of its rows is still to be looked up, or pinned.  *)
(***************************************************************************)
EXTENDS LibraryProofs

Preprocessing == {"parse", "part", "file", "open", "close", "row", "fail"}

\* What no request changes of an artifact.
Ident(a) == <<a.id, a.file, a.source, a.record, a.from, a.bound>>
Idents   == {Ident(a) : a \in artifacts}
Stored   == whole \cup mistaken

RowsOK ==
  /\ nextId \in Nat \ {0}
  /\ \A x \in artifacts : /\ DOMAIN x = ArtifactColumns
                          /\ x.id \in Nat \ {0} /\ x.id < nextId /\ x.record \in Nat
                          /\ x.record = NoRow => Len(x.file) = 1
  /\ \A x, y \in artifacts : x.id = y.id => x = y
  /\ \A rec \in records : rec.id \in Nat \ {0} /\ rec.id < nextId
  /\ \A f \in partial : Len(f) = 4

\* The rows a session has made and not committed.
OutOK(s) ==
  /\ \A x \in view[s].out : /\ DOMAIN x = ArtifactColumns
                            /\ x.id \in Nat \ {0} /\ x.id < nextId
                            /\ \A y \in artifacts : y.id # x.id
                            /\ x.record = view[s].record /\ x.from = view[s].from
                            /\ x.file \in Stored
  /\ \A x, y \in view[s].out : x.id = y.id => x = y
  /\ pc[s] \in {"parse", "fail"} => view[s].out = {}
  /\ pc[s] = "part" => view[s].out # {} \/ view[s].parts > 0
  /\ pc[s] \notin {"parse", "fail"} => view[s].parts \in Nat

\* Its source.
SourceOK(s, a) ==
  /\ view[s].row = {a} /\ Ident(a) \in Idents
  /\ pc[s] = "parse" => a.file \in whole \cup partial
  /\ pc[s] \notin {"parse", "fail"} => view[s].from \/ a.file \in mistaken
  /\ pc[s] = "row" => DerivedFile(s, a) \in Stored
  /\ \A x \in view[s].out : x.source = a.id

RecordOK(s) ==
  /\ Request(s).op = "preprocess"
  /\ view[s].record \in Nat \ {0} /\ view[s].record < nextId
  /\ \A rec \in records : rec.id # view[s].record
  /\ \A x \in artifacts : x.record # view[s].record

SessionOK(s) ==
  IF pc[s] \in Preprocessing
  THEN RecordOK(s) /\ OutOK(s) /\ \E a : SourceOK(s, a)
  ELSE view[s].out = {}

\* No two make the same record or the same row.
Apart(s, t) ==
  pc[s] \in Preprocessing /\ pc[t] \in Preprocessing =>
    /\ view[s].record # view[t].record
    /\ \A x \in view[s].out, y \in view[t].out : x.id # y.id

StoreInv ==
  /\ RowsOK /\ PreprocessingIsWhole /\ FilesAreWhole
  /\ \A s \in Sessions : SessionOK(s)
  /\ \A s, t \in Sessions : s # t => Apart(s, t)

\* Rows keep their identity, and files that are stored stay so; what is new is
\* of the session that makes the step, or has the next id.
Grows(s) ==
  /\ nextId' \in Nat \ {0} /\ nextId <= nextId'
  /\ Idents \subseteq Idents' /\ mistaken \subseteq mistaken'
  /\ Stored \subseteq Stored' /\ whole \cup partial \subseteq whole' \cup partial'
  /\ \A rec \in records' : \/ rec \in records
                           \/ pc[s] \in Preprocessing /\ rec.id = view[s].record
  /\ \A x \in artifacts' : \/ Ident(x) \in Idents
                           \/ pc[s] \in Preprocessing /\ x \in view[s].out
                           \/ x.id = nextId /\ x.record = NoRow

\* What a session adds to its view is new.
Fresh(s) ==
  pc'[s] \in Preprocessing =>
    \/ /\ pc[s] \in Preprocessing /\ view'[s].record = view[s].record
       /\ \A x \in view'[s].out : x \in view[s].out \/ x.id = nextId
    \/ view'[s].record = nextId /\ view'[s].out = {}

LEMMA OthersStayOK ==
  ASSUME Shape, StoreInv, NEW s \in Sessions, NEW t \in Sessions \ {s}, Moves(s), Grows(s)
  PROVE  SessionOK(t)'
<1>1. pc'[t] = pc[t] /\ view'[t] = view[t] /\ todo'[t] = todo[t]
  BY DEF Moves
<1>2. CASE pc[t] \notin Preprocessing
  BY <1>1, <1>2 DEF StoreInv, SessionOK
<1>3. CASE pc[t] \in Preprocessing
  <2>1. RecordOK(t) /\ OutOK(t) /\ Apart(s, t)
    BY <1>3 DEF StoreInv, SessionOK
  <2>. PICK a : SourceOK(t, a)
    BY <1>3 DEF StoreInv, SessionOK
  <2>2. \A x \in artifacts' : x.record # view[t].record
    <3>. SUFFICES ASSUME NEW x \in artifacts' PROVE x.record # view[t].record
      OBVIOUS
    <3>1. CASE Ident(x) \in Idents
      BY <2>1, <3>1 DEF Ident, Idents, RecordOK
    <3>2. CASE pc[s] \in Preprocessing /\ x \in view[s].out
      <4>1. x.record = view[s].record
        BY <3>2 DEF StoreInv, SessionOK, OutOK
      <4>. QED
        BY <1>3, <2>1, <3>2, <4>1 DEF Apart
    <3>3. CASE x.id = nextId /\ x.record = NoRow
      BY <2>1, <3>3 DEF RecordOK, NoRow
    <3>. QED
      BY <3>1, <3>2, <3>3 DEF Grows
  <2>3. \A rec \in records' : rec.id # view[t].record
    BY <1>3, <2>1 DEF RecordOK, Apart, Grows
  <2>4. RecordOK(t)'
    BY <1>1, <2>1, <2>2, <2>3 DEF RecordOK, Request, Grows, StoreInv, RowsOK
  <2>5. ASSUME NEW x \in view[t].out, NEW y \in artifacts' PROVE y.id # x.id
    <3>1. CASE Ident(y) \in Idents
      BY <2>1, <3>1 DEF Ident, Idents, OutOK
    <3>2. CASE pc[s] \in Preprocessing /\ y \in view[s].out
      BY <1>3, <2>1, <3>2 DEF Apart
    <3>3. CASE y.id = nextId
      BY <2>1, <3>3 DEF OutOK, StoreInv, RowsOK
    <3>. QED
      BY <3>1, <3>2, <3>3 DEF Grows
  <2>6. OutOK(t)'
    <3>1. \A x \in view[t].out : x.id < nextId'
      BY <2>1 DEF OutOK, Grows, StoreInv, RowsOK
    <3>. QED
      BY <1>1, <2>1, <2>5, <3>1 DEF OutOK, Grows
  <2>7. DerivedFile(t, a)' = DerivedFile(t, a)
    BY <1>1 DEF DerivedFile, Request
  <2>8. SourceOK(t, a)'
    BY <1>1, <2>7 DEF SourceOK, Grows
  <2>. QED
    BY <1>1, <1>3, <2>4, <2>6, <2>8 DEF SessionOK
<1>. QED
  BY <1>2, <1>3

LEMMA StayApart ==
  ASSUME Shape, StoreInv, NEW s \in Sessions, NEW t \in Sessions \ {s}, Moves(s), Fresh(s)
  PROVE  Apart(s, t)' /\ Apart(t, s)'
<1>1. pc'[t] = pc[t] /\ view'[t] = view[t]
  BY DEF Moves
<1>. SUFFICES ASSUME pc'[s] \in Preprocessing, pc[t] \in Preprocessing
              PROVE  /\ view'[s].record # view[t].record
                     /\ \A x \in view'[s].out, y \in view[t].out : x.id # y.id
  BY <1>1 DEF Apart
<1>2. RecordOK(t) /\ OutOK(t) /\ Apart(s, t)
  BY DEF StoreInv, SessionOK
<1>3. view[t].record < nextId /\ view[t].record \in Nat /\ nextId \in Nat
  BY <1>2 DEF RecordOK, StoreInv, RowsOK
<1>4. \A y \in view[t].out : y.id < nextId /\ y.id \in Nat
  BY <1>2 DEF OutOK
<1>. QED
  BY <1>2, <1>3, <1>4 DEF Apart, Fresh

LEMMA StoreStep ==
  ASSUME Shape, StoreInv, NEW s \in Sessions, Moves(s), Grows(s), Fresh(s),
         RowsOK', PreprocessingIsWhole', FilesAreWhole', SessionOK(s)'
  PROVE  StoreInv'
<1>1. \A t \in Sessions : SessionOK(t)'
  BY OthersStayOK
<1>2. ASSUME NEW t \in Sessions, NEW u \in Sessions, t # u PROVE Apart(t, u)'
  <2>1. CASE t = s \/ u = s
    BY <1>2, <2>1, StayApart
  <2>2. CASE t # s /\ u # s
    <3>1. pc'[t] = pc[t] /\ view'[t] = view[t] /\ pc'[u] = pc[u] /\ view'[u] = view[u]
      BY <2>2 DEF Moves
    <3>2. Apart(t, u)
      BY <1>2 DEF StoreInv
    <3>. QED
      BY <3>1, <3>2 DEF Apart
  <2>. QED
    BY <2>1, <2>2
<1>. QED
  BY <1>1, <1>2 DEF StoreInv
-----------------------------------------------------------------------------
\* Requests that preprocess nothing.

Calm(s) ==
  /\ UNCHANGED <<artifacts, records, files, mistaken>>
  /\ nextId' \in {nextId, nextId + 1}
  /\ pc'[s] \notin Preprocessing /\ view'[s].out = {}

LEMMA CalmKeepsStore ==
  ASSUME Shape, StoreInv, NEW s \in Sessions, Moves(s), Calm(s)
  PROVE  StoreInv'
<1>0. nextId \in Nat \ {0} /\ nextId' \in Nat \ {0} /\ nextId <= nextId'
  BY DEF Calm, StoreInv, RowsOK
<1>1. /\ artifacts' = artifacts /\ records' = records /\ whole' = whole /\ partial' = partial
      /\ mistaken' = mistaken /\ Idents' = Idents /\ Stored' = Stored
  BY DEF Calm, files, Idents, Ident, Stored
<1>2. Grows(s)
  BY <1>0, <1>1 DEF Grows, Idents
<1>3. Fresh(s) /\ SessionOK(s)'
  BY DEF Calm, Fresh, SessionOK
<1>4. RowsOK'
  BY <1>0, <1>1 DEF RowsOK, StoreInv
<1>5. PreprocessingIsWhole' /\ FilesAreWhole'
  BY <1>1 DEF StoreInv, PreprocessingIsWhole, FilesAreWhole
<1>. QED
  BY <1>2, <1>3, <1>4, <1>5, StoreStep

LEMMA CalmActions ==
  ASSUME Shape, StoreInv, NEW s \in Sessions, Moves(s),
         \/ StartCreate(s) \/ InsertSuite(s) \/ Resolve(s) \/ CommitItem(s) \/ Archive(s)
         \/ StartDraft(s) \/ StartEdit(s) \/ StartRun(s) \/ LookForExperiment(s)
         \/ ReadInput(s) \/ DeriveInput(s) \/ CommitDraft(s) \/ ReadRuns(s) \/ CommitEdit(s)
         \/ InsertExperiment(s) \/ Execute(s) \/ CommitRun(s) \/ Die(s)
  PROVE  Calm(s)
<1>0. DOMAIN view[s] = Fields /\ NoView.out = {} /\ "idle" \notin Preprocessing
  BY DEF Shape, NoView, Preprocessing
<1>1. UNCHANGED <<artifacts, records, files, mistaken>> /\ nextId' \in {nextId, nextId + 1}
  BY DEF StartCreate, InsertSuite, Resolve, CommitItem, Archive, StartDraft, StartEdit, StartRun,
     LookForExperiment, ReadInput, DeriveInput, CommitDraft, ReadRuns, CommitEdit,
     InsertExperiment, Execute, CommitRun, Die, rows, history
<1>3. CASE End(s)
  BY <1>0, <1>1, <1>3, EndView DEF Calm
<1>4. ASSUME NEW l \in Labels \ Preprocessing, NEW v, Goto(s, l, v), v.out = {} PROVE Calm(s)
  BY <1>1, <1>4, GotoView DEF Calm
<1>5. {"insert", "resolve", "derive", "lookup", "execute", "write", "running"} \subseteq
        Labels \ Preprocessing
  BY DEF Labels, Preprocessing
<1>6. CASE StartCreate(s)
  <2>1. CASE \E l \in {"insert", "resolve"} : \E n, m :
               Goto(s, l, [NoView EXCEPT !.version = n, !.refs = m])
    <3>. PICK l \in {"insert", "resolve"} :
               \E n, m : Goto(s, l, [NoView EXCEPT !.version = n, !.refs = m])
      BY <2>1
    <3>. PICK n, m : Goto(s, l, [NoView EXCEPT !.version = n, !.refs = m])
      OBVIOUS
    <3>1. [NoView EXCEPT !.version = n, !.refs = m].out = {}
      BY DEF NoView
    <3>. QED
      BY <1>4, <1>5, <3>1
  <2>. QED
    BY <1>3, <1>6, <2>1 DEF StartCreate
<1>7. CASE InsertSuite(s) \/ Execute(s)
  <2>0. view[s].out = {}
    BY <1>7 DEF InsertSuite, Execute, At, StoreInv, SessionOK, Preprocessing
  <2>. QED
    BY <1>3, <1>4, <1>5, <1>7, <2>0 DEF InsertSuite, Execute
<1>8. CASE Resolve(s)
  <2>0. view[s].out = {}
    BY <1>8 DEF Resolve, StoreInv, SessionOK, Preprocessing
  <2>1. CASE \E ref, x : Goto(s, "resolve", [view[s] EXCEPT !.refs = @ \ {ref},
                                                          !.pins = @ \cup {x}])
    <3>. PICK ref, x : Goto(s, "resolve", [view[s] EXCEPT !.refs = @ \ {ref},
                                                         !.pins = @ \cup {x}])
      BY <2>1
    <3>1. [view[s] EXCEPT !.refs = @ \ {ref}, !.pins = @ \cup {x}].out = view[s].out
      BY <1>0 DEF Fields
    <3>. QED
      BY <1>4, <1>5, <2>0, <3>1
  <2>. QED
    BY <1>3, <1>8, <2>1 DEF Resolve
<1>9. CASE CommitItem(s) \/ Archive(s) \/ CommitDraft(s) \/ CommitEdit(s) \/ CommitRun(s)
  BY <1>3, <1>9 DEF CommitItem, Archive, CommitDraft, CommitEdit, CommitRun
<1>10. CASE StartDraft(s) \/ StartEdit(s) \/ StartRun(s)
  <2>0. view[s].out = {}
    BY <1>0, <1>10 DEF StartDraft, StartEdit, StartRun, At, Shape
  <2>1. CASE \E l \in {"resolve", "lookup"} : \E m : Goto(s, l, Snapshots(s, m))
    <3>. PICK l, m : l \in {"resolve", "lookup"} /\ Goto(s, l, Snapshots(s, m))
      BY <2>1
    <3>1. Snapshots(s, m).out = view[s].out
      BY <1>0 DEF Fields, Snapshots
    <3>. QED
      BY <1>4, <1>5, <2>0, <3>1
  <2>2. CASE \E m, R : Goto(s, "resolve", [Snapshots(s, m) EXCEPT !.read = R])
    <3>. PICK m, R : Goto(s, "resolve", [Snapshots(s, m) EXCEPT !.read = R])
      BY <2>2
    <3>1. [Snapshots(s, m) EXCEPT !.read = R].out = view[s].out
      BY <1>0 DEF Fields, Snapshots
    <3>. QED
      BY <1>4, <1>5, <2>0, <3>1
  <2>. QED
    BY <1>3, <1>10, <2>1, <2>2, Zenon DEF StartDraft, StartEdit, StartRun
<1>11. CASE LookForExperiment(s) \/ ReadRuns(s)
  <2>0. view[s].out = {}
    BY <1>11 DEF LookForExperiment, ReadRuns, Ready, StoreInv, SessionOK, Preprocessing
  <2>1. CASE \E l \in {"execute", "write"} : \E R : Goto(s, l, [view[s] EXCEPT !.read = R])
    <3>. PICK l \in {"execute", "write"} : \E R : Goto(s, l, [view[s] EXCEPT !.read = R])
      BY <2>1
    <3>. PICK R : Goto(s, l, [view[s] EXCEPT !.read = R])
      OBVIOUS
    <3>1. [view[s] EXCEPT !.read = R].out = view[s].out
      BY <1>0 DEF Fields
    <3>. QED
      BY <1>4, <1>5, <2>0, <3>1
  <2>2. CASE Goto(s, "resolve", view[s])
    BY <1>4, <1>5, <2>0, <2>2
  <2>3. ReadRuns(s) => \E R : Goto(s, "write", [view[s] EXCEPT !.read = R])
    BY DEF ReadRuns
  <2>. QED
    BY <1>3, <1>11, <2>1, <2>2, <2>3 DEF LookForExperiment
<1>12. CASE ReadInput(s)
  <2>0. view[s].out = {}
    BY <1>12 DEF ReadInput, StoreInv, SessionOK, Preprocessing
  <2>1. CASE \E want, a, mode : Goto(s, "derive", [view[s] EXCEPT !.wants = @ \ {want},
                                                    !.row = {a}, !.mode = mode])
    <3>. PICK want, a, mode : Goto(s, "derive", [view[s] EXCEPT !.wants = @ \ {want},
                                                 !.row = {a}, !.mode = mode])
      BY <2>1
    <3>1. [view[s] EXCEPT !.wants = @ \ {want}, !.row = {a}, !.mode = mode].out = view[s].out
      BY <1>0 DEF Fields
    <3>. QED
      BY <1>4, <1>5, <2>0, <3>1
  <2>2. CASE \E want, i : Goto(s, "resolve", [view[s] EXCEPT !.wants = @ \ {want},
                                                             !.inputs = @ \cup {i}])
    <3>. PICK want, i : Goto(s, "resolve", [view[s] EXCEPT !.wants = @ \ {want},
                                                           !.inputs = @ \cup {i}])
      BY <2>2
    <3>1. [view[s] EXCEPT !.wants = @ \ {want}, !.inputs = @ \cup {i}].out = view[s].out
      BY <1>0 DEF Fields
    <3>. QED
      BY <1>4, <1>5, <2>0, <3>1
  <2>. QED
    BY <1>3, <1>12, <2>1, <2>2 DEF ReadInput
<1>13. CASE DeriveInput(s)
  <2>0. view[s].out = {}
    BY <1>13 DEF DeriveInput, StoreInv, SessionOK, Preprocessing
  <2>1. CASE \E i : Goto(s, "resolve", [view[s] EXCEPT !.inputs = @ \cup {i}])
    <3>. PICK i : Goto(s, "resolve", [view[s] EXCEPT !.inputs = @ \cup {i}])
      BY <2>1
    <3>1. [view[s] EXCEPT !.inputs = @ \cup {i}].out = view[s].out
      BY <1>0 DEF Fields
    <3>. QED
      BY <1>4, <1>5, <2>0, <3>1
  <2>. QED
    BY <1>3, <1>13, <2>1 DEF DeriveInput
<1>14. CASE InsertExperiment(s)
  <2>0. view[s].out = {}
    BY <1>14 DEF InsertExperiment, Ready, StoreInv, SessionOK, Preprocessing
  <2>1. CASE \E m : Goto(s, "running", [view[s] EXCEPT !.read = {NewExperiment(s, m, "running")}])
    <3>. PICK m : Goto(s, "running", [view[s] EXCEPT !.read = {NewExperiment(s, m, "running")}])
      BY <2>1
    <3>1. [view[s] EXCEPT !.read = {NewExperiment(s, m, "running")}].out = view[s].out
      BY <1>0 DEF Fields
    <3>. QED
      BY <1>4, <1>5, <2>0, <3>1
  <2>. QED
    BY <1>3, <1>14, <2>1 DEF InsertExperiment
<1>15. CASE Die(s)
  <2>1. view'[s] = NoView /\ pc'[s] = "idle"
    BY <1>15 DEF Shape, Die
  <2>. QED
    BY <1>0, <1>1, <2>1 DEF Calm
<1>. QED
  BY <1>6, <1>7, <1>8, <1>9, <1>10, <1>11, <1>12, <1>13, <1>14, <1>15
-----------------------------------------------------------------------------
\* Requests about artifacts.

LEMMA RequestIs ==
  ASSUME Shape, NEW s \in Sessions, todo[s] # <<>>
  PROVE  Request(s) \in Requests
BY DEF Shape, Request

LEMMA DeclareKeepsStore ==
  ASSUME Shape, StoreInv, NEW s \in Sessions, Moves(s), Declare(s)
  PROVE  StoreInv'
<1>1. pc'[s] = "idle" /\ view'[s] = NoView
  BY EndView DEF Declare
<1>2. SessionOK(s)' /\ Fresh(s)
  BY <1>1 DEF SessionOK, Fresh, Preprocessing, NoView
<1>3. records' = records /\ whole' = whole /\ partial' = partial /\ mistaken' = mistaken
      /\ Stored' = Stored
  BY DEF Declare, files, history, Stored
<1>4. CASE artifacts' = artifacts /\ nextId' = nextId
  <2>1. Calm(s)
    BY <1>1, <1>3, <1>4 DEF Calm, files, Preprocessing, NoView
  <2>. QED
    BY <2>1, CalmKeepsStore
<1>5. CASE \E slug, version, file :
             /\ Len(file) = 1 /\ nextId' = nextId + 1
             /\ artifacts' = artifacts \cup
                  {ArtifactRow(slug, version, "direct_file", file, NoRow, NoRow, TRUE)}
  <2>. PICK slug, version, file :
             /\ Len(file) = 1 /\ nextId' = nextId + 1
             /\ artifacts' = artifacts \cup
                  {ArtifactRow(slug, version, "direct_file", file, NoRow, NoRow, TRUE)}
    BY <1>5
  <2>. DEFINE new == ArtifactRow(slug, version, "direct_file", file, NoRow, NoRow, TRUE)
  <2>1. /\ DOMAIN new = ArtifactColumns /\ new.id = nextId /\ new.record = NoRow
        /\ new.file = file
    BY DEF ArtifactRow, ArtifactColumns
  <2>2. artifacts' = artifacts \cup {new}
    OBVIOUS
  <2>. HIDE DEF new
  <2>3. nextId \in Nat \ {0} /\ nextId' = nextId + 1
    BY DEF StoreInv, RowsOK
  <2>4. Idents \subseteq Idents'
    BY <2>2 DEF Idents, Ident
  <2>a. \A x \in artifacts' : Ident(x) \in Idents \/ (x.id = nextId /\ x.record = NoRow)
    BY <2>1, <2>2 DEF Idents
  <2>b. nextId' \in Nat \ {0} /\ nextId <= nextId'
    BY <2>3
  <2>5. Grows(s)
    BY <1>3, <2>4, <2>a, <2>b DEF Grows
  <2>c. RowsOK
    BY DEF StoreInv
  <2>d. \A x \in artifacts' : /\ DOMAIN x = ArtifactColumns
                              /\ x.id \in Nat \ {0} /\ x.id < nextId' /\ x.record \in Nat
                              /\ x.record = NoRow => Len(x.file) = 1
    <3>. SUFFICES ASSUME NEW x \in artifacts'
                  PROVE  /\ DOMAIN x = ArtifactColumns
                         /\ x.id \in Nat \ {0} /\ x.id < nextId' /\ x.record \in Nat
                         /\ x.record = NoRow => Len(x.file) = 1
      OBVIOUS
    <3>1. CASE x \in artifacts
      BY <2>3, <2>c, <3>1 DEF RowsOK
    <3>2. CASE x = new
      <4>1. Len(x.file) = 1
        BY <2>1, <3>2
      <4>. QED
        BY <2>1, <2>3, <3>2, <4>1 DEF NoRow
    <3>. QED
      BY <2>2, <3>1, <3>2
  <2>e. \A x, y \in artifacts' : x.id = y.id => x = y
    <3>1. \A x \in artifacts : x.id # new.id
      BY <2>1, <2>3, <2>c DEF RowsOK
    <3>. QED
      BY <2>2, <2>c, <3>1 DEF RowsOK
  <2>6. RowsOK'
    <3>1. \A rec \in records : rec.id \in Nat \ {0} /\ rec.id < nextId'
      BY <2>3, <2>c DEF RowsOK
    <3>. QED
      BY <1>3, <2>b, <2>c, <2>d, <2>e, <3>1 DEF RowsOK
  <2>7. \A rec \in records : new.record # rec.id /\ new.id \notin rec.derived
    <3>1. \A rec \in records : rec.derived \subseteq {x.id : x \in artifacts}
      BY DEF StoreInv, PreprocessingIsWhole
    <3>2. \A x \in artifacts : x.id # new.id
      BY <2>1, <2>3 DEF StoreInv, RowsOK
    <3>. QED
      BY <2>1, <3>1, <3>2 DEF StoreInv, RowsOK, NoRow
  <2>8. PreprocessingIsWhole'
    <3>1. PreprocessingIsWhole
      BY DEF StoreInv
    <3>2. \A rec \in records : {x \in artifacts' : x.record = rec.id}
                              = {x \in artifacts' : x.id \in rec.derived}
      <4>. TAKE rec \in records
      <4>1. {x \in artifacts : x.record = rec.id} = {x \in artifacts : x.id \in rec.derived}
        BY <3>1 DEF PreprocessingIsWhole
      <4>. QED
        BY <2>2, <2>7, <4>1
    <3>3. {x.id : x \in artifacts} \subseteq {x.id : x \in artifacts'}
      BY <2>2
    <3>4. \A x \in artifacts' : x.record # NoRow =>
            \E rec \in records : rec.id = x.record /\ rec.source = x.source
      BY <2>1, <2>2, <3>1 DEF PreprocessingIsWhole
    <3>. QED
      BY <1>3, <3>1, <3>2, <3>3, <3>4 DEF PreprocessingIsWhole
  <2>9. FilesAreWhole'
    BY <1>3, <2>1, <2>2 DEF StoreInv, FilesAreWhole
  <2>. QED
    BY <1>2, <2>5, <2>6, <2>8, <2>9, StoreStep
<1>. QED
  <2>1. Request(s).op = "declare" /\ Request(s) \in Requests
    BY RequestIs DEF Declare, At
  <2>2. Len(Request(s).file) = 1
    BY <2>1, LibraryAssumption
  <2>. QED
    BY <1>4, <1>5, <2>2 DEF Declare

\* An artifact that is given another mode is the same artifact.
LEMMA SetModeKeepsStore ==
  ASSUME Shape, StoreInv, NEW s \in Sessions, Moves(s), SetMode(s)
  PROVE  StoreInv'
<1>. DEFINE A(a) == IF a \in BySlug(artifacts, Request(s).artifact, Newest)
                    THEN [a EXCEPT !.mode = Request(s).mode] ELSE a
<1>1. artifacts' = {A(a) : a \in artifacts}
  BY DEF SetMode
<1>2. \A a \in artifacts : DOMAIN a = ArtifactColumns
  BY DEF StoreInv, RowsOK
<1>3. \A a \in artifacts :
        /\ DOMAIN A(a) = ArtifactColumns
        /\ A(a).id = a.id /\ A(a).file = a.file /\ A(a).source = a.source
        /\ A(a).record = a.record /\ A(a).from = a.from /\ A(a).bound = a.bound
  BY <1>2 DEF ArtifactColumns
<1>. HIDE DEF A
<1>4. /\ records' = records /\ whole' = whole /\ partial' = partial /\ mistaken' = mistaken
      /\ Stored' = Stored /\ nextId' = nextId
  BY DEF SetMode, files, history, Stored
<1>5. \A a \in artifacts : Ident(A(a)) = Ident(a)
  BY <1>3 DEF Ident
<1>6. Idents' = Idents
  <2>1. Idents' = {Ident(x) : x \in artifacts'}
    BY DEF Idents, Ident
  <2>. QED
    BY <1>1, <1>5, <2>1 DEF Idents
<1>7. \A x \in artifacts' : Ident(x) \in Idents
  BY <1>1, <1>5 DEF Idents
<1>8. Grows(s)
  BY <1>4, <1>6, <1>7 DEF Grows, StoreInv, RowsOK
<1>9. SessionOK(s)' /\ Fresh(s)
  BY EndView DEF SetMode, SessionOK, Fresh, Preprocessing, NoView
<1>10. RowsOK'
  BY <1>1, <1>3, <1>4 DEF RowsOK, StoreInv
<1>11. PreprocessingIsWhole'
  <2>1. ASSUME NEW rec \in records
        PROVE  {x \in artifacts' : x.record = rec.id} = {x \in artifacts' : x.id \in rec.derived}
    BY <1>1, <1>3 DEF StoreInv, PreprocessingIsWhole
  <2>2. {x.id : x \in artifacts'} = {x.id : x \in artifacts}
    BY <1>1, <1>3
  <2>3. \A x \in artifacts' : x.record # NoRow =>
          \E rec \in records : rec.id = x.record /\ rec.source = x.source
    BY <1>1, <1>3 DEF StoreInv, PreprocessingIsWhole
  <2>. QED
    BY <1>4, <2>1, <2>2, <2>3 DEF StoreInv, PreprocessingIsWhole
<1>12. FilesAreWhole'
  <2>1. ASSUME NEW x \in artifacts', x.record # NoRow
        PROVE  /\ x.file \in Stored
               /\ x.from \/ \E a \in artifacts' : a.id = x.source /\ a.file \in mistaken
    <3>. PICK y \in artifacts : x = A(y)
      BY <1>1
    <3>1. /\ y.file \in Stored
          /\ y.from \/ \E a \in artifacts : a.id = y.source /\ a.file \in mistaken
      BY <1>3, <2>1 DEF StoreInv, FilesAreWhole, Stored
    <3>. QED
      BY <1>1, <1>3, <3>1
  <2>. QED
    BY <1>4, <2>1 DEF FilesAreWhole, Stored
<1>. QED
  BY <1>8, <1>9, <1>10, <1>11, <1>12, StoreStep
-----------------------------------------------------------------------------
\* The steps of preprocessing.

LEMMA FilesGrow ==
  ASSUME Shape, StoreInv, NEW s \in Sessions,
         UNCHANGED <<artifacts, records>>, nextId' \in {nextId, nextId + 1},
         mistaken \subseteq mistaken', Stored \subseteq Stored',
         whole \cup partial \subseteq whole' \cup partial', \A f \in partial' : Len(f) = 4
  PROVE  Grows(s) /\ RowsOK' /\ PreprocessingIsWhole' /\ FilesAreWhole'
<1>1. nextId \in Nat \ {0} /\ nextId' \in Nat \ {0} /\ nextId <= nextId'
  BY DEF StoreInv, RowsOK
<1>2. Idents' = Idents /\ \A x \in artifacts : Ident(x) \in Idents
  BY DEF Idents, Ident
<1>3. Grows(s)
  BY <1>1, <1>2 DEF Grows
<1>4. RowsOK'
  BY <1>1 DEF StoreInv, RowsOK
<1>5. PreprocessingIsWhole'
  BY DEF StoreInv, PreprocessingIsWhole
<1>6. FilesAreWhole'
  BY DEF StoreInv, FilesAreWhole, Stored
<1>. QED
  BY <1>3, <1>4, <1>5, <1>6

LEMMA SessionFacts ==
  ASSUME Shape, StoreInv, NEW s \in Sessions, pc[s] \in Preprocessing
  PROVE  /\ RecordOK(s) /\ OutOK(s) /\ \E a : SourceOK(s, a)
         /\ DOMAIN view[s] = Fields /\ todo[s] # <<>> /\ nextId \in Nat \ {0}
BY DEF Shape, StoreInv, SessionOK, RowsOK, Preprocessing

LEMMA StartPreprocessingKeepsStore ==
  ASSUME Shape, StoreInv, NEW s \in Sessions, Moves(s), StartPreprocessing(s)
  PROVE  StoreInv'
<1>1. /\ UNCHANGED <<artifacts, records, files, mistaken>> /\ nextId \in Nat \ {0}
      /\ nextId' \in {nextId, nextId + 1}
  BY DEF StartPreprocessing, rows, history, StoreInv, RowsOK
<1>2. CASE End(s)
  <2>1. Calm(s)
    BY <1>1, <1>2, EndView DEF Calm, Preprocessing, NoView
  <2>. QED
    BY <2>1, CalmKeepsStore
<1>3. CASE ~End(s)
  <2>. PICK a \in artifacts :
         /\ nextId' = nextId + 1
         /\ Goto(s, IF a.file \in whole \cup partial THEN "parse" ELSE "fail",
                 [NoView EXCEPT !.row = {a}, !.record = nextId])
    BY <1>3 DEF StartPreprocessing, BySlug
  <2>. DEFINE v == [NoView EXCEPT !.row = {a}, !.record = nextId]
  <2>1. v.row = {a} /\ v.record = nextId /\ v.out = {}
    BY DEF NoView
  <2>2. /\ pc'[s] = IF a.file \in whole \cup partial THEN "parse" ELSE "fail"
        /\ view'[s] = v /\ todo' = todo
    BY GotoView
  <2>. HIDE DEF v
  <2>3. RowsOK' /\ PreprocessingIsWhole' /\ FilesAreWhole' /\ Grows(s)
    <3>1. Stored' = Stored /\ \A f \in partial : Len(f) = 4
      BY <1>1 DEF files, Stored, StoreInv, RowsOK
    <3>. QED
      BY <1>1, <3>1, FilesGrow DEF files
  <2>4. RecordOK(s)'
    <3>1. Request(s)'.op = "preprocess"
      BY <2>2 DEF StartPreprocessing, At, Request
    <3>2. \A x \in artifacts : x.record # nextId
      BY <1>1 DEF StoreInv, PreprocessingIsWhole, RowsOK, NoRow
    <3>3. \A rec \in records : rec.id # nextId
      BY <1>1 DEF StoreInv, RowsOK
    <3>. QED
      BY <1>1, <2>1, <2>2, <3>1, <3>2, <3>3 DEF RecordOK
  <2>5. OutOK(s)'
    BY <2>1, <2>2 DEF OutOK
  <2>6. SourceOK(s, a)'
    BY <1>1, <2>1, <2>2 DEF SourceOK, Idents, Ident, files
  <2>7. SessionOK(s)'
    BY <2>2, <2>4, <2>5, <2>6 DEF SessionOK, Preprocessing
  <2>8. Fresh(s)
    BY <2>1, <2>2 DEF Fresh
  <2>. QED
    BY <2>3, <2>7, <2>8, StoreStep
<1>. QED
  BY <1>2, <1>3

\* A source that is not whole is a derived file that was mistaken: the files
\* that clients declare are not written here.
LEMMA ParseKeepsStore ==
  ASSUME Shape, StoreInv, NEW s \in Sessions, Moves(s), Parse(s)
  PROVE  StoreInv'
<1>. pc[s] = "parse" /\ pc[s] \in Preprocessing
  BY DEF Parse, Preprocessing
<1>1. UNCHANGED <<artifacts, records, files, mistaken, nextId>>
  BY DEF Parse, rows, history
<1>2. RowsOK' /\ PreprocessingIsWhole' /\ FilesAreWhole' /\ Grows(s)
  <2>1. Stored' = Stored /\ \A f \in partial : Len(f) = 4
    BY <1>1 DEF files, Stored, StoreInv, RowsOK
  <2>. QED
    BY <1>1, <2>1, FilesGrow DEF files
<1>. PICK a : SourceOK(s, a)
  BY SessionFacts
<1>3. RecordOK(s) /\ OutOK(s) /\ DOMAIN view[s] = Fields /\ todo[s] # <<>>
  BY SessionFacts
<1>4. view[s].row = {a} /\ view[s].out = {}
  BY <1>3 DEF SourceOK, OutOK
<1>5. a.file \in whole \/ a.file \in mistaken
  <2>. PICK b \in artifacts : Ident(b) = Ident(a)
    BY DEF SourceOK, Idents
  <2>1. b.file = a.file
    BY DEF Ident
  <2>2. CASE b.record = NoRow
    BY <2>1, <2>2 DEF StoreInv, RowsOK, SourceOK
  <2>3. CASE b.record # NoRow
    BY <2>1, <2>3 DEF StoreInv, FilesAreWhole
  <2>. QED
    BY <2>2, <2>3
<1>. PICK l, v :
       /\ l \in {"fail", "part"}
       /\ Goto(s, l, v)
       /\ \/ l = "fail" /\ v = view[s]
          \/ /\ l = "part"
             /\ v = [view[s] EXCEPT !.parts = Request(s).parts, !.from = a.file \in whole]
  BY <1>4 DEF Parse
<1>6. pc'[s] = l /\ view'[s] = v /\ todo' = todo
  BY GotoView
<1>7. /\ v.row = {a} /\ v.record = view[s].record /\ v.out = {}
      /\ l = "part" => v.parts = Request(s).parts /\ v.from = (a.file \in whole)
  BY <1>3, <1>4 DEF Fields
<1>8. Request(s).parts \in Nat \ {0}
  BY <1>3, RequestIs, LibraryAssumption DEF RecordOK
<1>9. RecordOK(s)'
  BY <1>1, <1>3, <1>6, <1>7 DEF RecordOK, Request
<1>10. OutOK(s)'
  <2>1. l = "part" => v.parts \in Nat /\ v.parts > 0
    BY <1>7, <1>8
  <2>. QED
    BY <1>6, <1>7, <2>1 DEF OutOK
<1>11. SourceOK(s, a)'
  <2>1. Ident(a)' = Ident(a) /\ Idents' = Idents
    BY <1>1 DEF Ident, Idents
  <2>2. l = "part" => v.from \/ a.file \in mistaken
    BY <1>5, <1>7
  <2>. QED
    BY <1>1, <1>6, <1>7, <2>1, <2>2 DEF SourceOK
<1>12. SessionOK(s)' /\ Fresh(s)
  BY <1>6, <1>7, <1>9, <1>10, <1>11 DEF SessionOK, Preprocessing, Fresh
<1>. QED
  BY <1>2, <1>12, StoreStep

LEMMA PartKeepsStore ==
  ASSUME Shape, StoreInv, NEW s \in Sessions, Moves(s), NextPart(s) \/ RenderFails(s)
  PROVE  StoreInv'
<1>. pc[s] = "part" /\ pc[s] \in Preprocessing
  BY DEF NextPart, RenderFails, Preprocessing
<1>1. UNCHANGED <<artifacts, records, files, mistaken, nextId>>
  BY DEF NextPart, RenderFails, rows, history
<1>2. RowsOK' /\ PreprocessingIsWhole' /\ FilesAreWhole' /\ Grows(s)
  <2>1. Stored' = Stored /\ \A f \in partial : Len(f) = 4
    BY <1>1 DEF files, Stored, StoreInv, RowsOK
  <2>. QED
    BY <1>1, <2>1, FilesGrow DEF files
<1>. PICK a : SourceOK(s, a)
  BY SessionFacts
<1>3. RecordOK(s) /\ OutOK(s) /\ DOMAIN view[s] = Fields
  BY SessionFacts
<1>. PICK l, v :
       /\ l \in {"fail", "file"} /\ Goto(s, l, v)
       /\ v.row = view[s].row /\ v.record = view[s].record /\ v.from = view[s].from
       /\ \/ l = "fail" /\ v.out = {}
          \/ /\ l = "file" /\ v.out = view[s].out
             /\ view[s].parts > 0 /\ v.parts = view[s].parts - 1
  <2>1. CASE NextPart(s)
    <3>. PICK modes : /\ view[s].parts > 0
                      /\ Goto(s, "file", [view[s] EXCEPT !.parts = @ - 1, !.modes = modes])
      BY <2>1 DEF NextPart
    <3>. DEFINE w == [view[s] EXCEPT !.parts = @ - 1, !.modes = modes]
    <3>1. /\ w.row = view[s].row /\ w.record = view[s].record /\ w.from = view[s].from
          /\ w.out = view[s].out /\ w.parts = view[s].parts - 1 /\ Goto(s, "file", w)
      BY <1>3 DEF Fields
    <3>. HIDE DEF w
    <3>. QED
      BY <3>1
  <2>2. CASE RenderFails(s)
    <3>. DEFINE w == [view[s] EXCEPT !.out = RowsAfterFailure(s)]
    <3>1. /\ w.row = view[s].row /\ w.record = view[s].record /\ w.from = view[s].from
          /\ w.out = {} /\ Goto(s, "fail", w)
      BY <1>3, <2>2 DEF RenderFails, RowsAfterFailure, Fields
    <3>. HIDE DEF w
    <3>. QED
      BY <3>1
  <2>. QED
    BY <2>1, <2>2
<1>4. pc'[s] = l /\ view'[s] = v /\ todo' = todo
  BY GotoView
<1>5. /\ v.row = view[s].row /\ v.record = view[s].record /\ v.from = view[s].from
      /\ \/ l = "fail" /\ v.out = {}
         \/ l = "file" /\ v.out = view[s].out /\ v.parts = view[s].parts - 1
  OBVIOUS
<1>6. RecordOK(s)'
  BY <1>1, <1>3, <1>4, <1>5 DEF RecordOK, Request
<1>7. OutOK(s)'
  <2>1. l = "file" => v.parts \in Nat
    <3>1. view[s].parts \in Nat
      BY <1>3 DEF OutOK
    <3>. QED
      BY <1>5, <3>1
  <2>. QED
    BY <1>1, <1>3, <1>4, <1>5, <2>1 DEF OutOK, Stored, files
<1>8. SourceOK(s, a)'
  <2>1. Ident(a)' = Ident(a) /\ Idents' = Idents
    BY <1>1 DEF Ident, Idents
  <2>. QED
    BY <1>1, <1>4, <1>5, <2>1 DEF SourceOK
<1>9. SessionOK(s)' /\ Fresh(s)
  BY <1>4, <1>5, <1>6, <1>7, <1>8 DEF SessionOK, Preprocessing, Fresh
<1>. QED
  BY <1>2, <1>9, StoreStep

\* A file is found, opened and closed; one that two writers meet is mistaken.
LEMMA FileKeepsStore ==
  ASSUME Shape, StoreInv, NEW s \in Sessions, Moves(s),
         LookForFile(s) \/ OpenFile(s) \/ CloseFile(s)
  PROVE  StoreInv'
<1>. pc[s] \in {"file", "open", "close"} /\ pc[s] \in Preprocessing
  BY DEF LookForFile, OpenFile, CloseFile, Preprocessing
<1>1. UNCHANGED <<artifacts, records, nextId>>
  BY DEF LookForFile, OpenFile, CloseFile, rows
<1>. PICK a : SourceOK(s, a)
  BY SessionFacts
<1>2. RecordOK(s) /\ OutOK(s) /\ DOMAIN view[s] = Fields /\ view[s].row = {a}
  BY SessionFacts DEF SourceOK
<1>. PICK l \in {"row", "open", "close"} : Goto(s, l, view[s])
  BY DEF LookForFile, OpenFile, CloseFile, AfterLookup
<1>3. pc'[s] = l /\ view'[s] = view[s] /\ todo' = todo
  BY GotoView
<1>. DEFINE f == DerivedFile(s, a)
<1>4. DerivedFile(s, a)' = f
  BY <1>3 DEF DerivedFile, Request
<1>5. Len(f) = 4
  BY DEF DerivedFile
<1>. HIDE DEF f
<1>6. /\ mistaken \subseteq mistaken' /\ Stored \subseteq Stored'
      /\ whole \cup partial \subseteq whole' \cup partial'
      /\ partial' \subseteq partial \cup {f}
      /\ l = "row" => f \in Stored'
  <2>1. CASE LookForFile(s)
    <3>1. /\ UNCHANGED files
          /\ mistaken' = IF f \in partial THEN mistaken \cup {f} ELSE mistaken
          /\ Goto(s, AfterLookup(s, f), view[s])
      BY <1>2, <2>1 DEF LookForFile, f
    <3>2. l = AfterLookup(s, f)
      BY <1>3, <3>1, GotoView
    <3>. QED
      BY <3>1, <3>2 DEF AfterLookup, Stored, files
  <2>2. CASE OpenFile(s)
    <3>1. /\ mistaken' = IF f \in whole \cup partial THEN mistaken \cup {f} ELSE mistaken
          /\ whole' = whole \ {f} /\ partial' = partial \cup {f}
          /\ Goto(s, "close", view[s])
      BY <1>2, <2>2 DEF OpenFile, f
    <3>2. l = "close"
      BY <1>3, <3>1, GotoView
    <3>. QED
      BY <3>1, <3>2 DEF Stored
  <2>3. CASE CloseFile(s)
    <3>1. whole' = whole \cup {f} /\ partial' = partial \ {f} /\ mistaken' = mistaken
      BY <1>2, <2>3 DEF CloseFile, f, history
    <3>. QED
      BY <3>1 DEF Stored
  <2>. QED
    BY <2>1, <2>2, <2>3
<1>7. RowsOK' /\ PreprocessingIsWhole' /\ FilesAreWhole' /\ Grows(s)
  <2>1. \A g \in partial' : Len(g) = 4
    BY <1>5, <1>6 DEF StoreInv, RowsOK
  <2>. QED
    BY <1>1, <1>6, <2>1, FilesGrow
<1>8. RecordOK(s)'
  BY <1>1, <1>2, <1>3 DEF RecordOK, Request
<1>9. OutOK(s)'
  BY <1>1, <1>2, <1>3, <1>6 DEF OutOK
<1>10. SourceOK(s, a)'
  <2>1. Ident(a)' = Ident(a) /\ Idents' = Idents
    BY <1>1 DEF Ident, Idents
  <2>. QED
    BY <1>3, <1>4, <1>6, <2>1 DEF SourceOK
<1>11. SessionOK(s)' /\ Fresh(s)
  BY <1>3, <1>8, <1>9, <1>10 DEF SessionOK, Preprocessing, Fresh
<1>. QED
  BY <1>7, <1>11, StoreStep

LEMMA SaveRowKeepsStore ==
  ASSUME Shape, StoreInv, NEW s \in Sessions, Moves(s), SaveRow(s)
  PROVE  StoreInv'
<1>. pc[s] = "row" /\ pc[s] \in Preprocessing
  BY DEF SaveRow, Preprocessing
<1>1. UNCHANGED <<artifacts, records, whole, partial, mistaken>> /\ nextId' = nextId + 1
  BY DEF SaveRow, rows, history, files
<1>2. RowsOK' /\ PreprocessingIsWhole' /\ FilesAreWhole' /\ Grows(s)
  <2>1. Stored' = Stored /\ \A f \in partial : Len(f) = 4
    BY <1>1 DEF Stored, StoreInv, RowsOK
  <2>. QED
    BY <1>1, <2>1, FilesGrow
<1>. PICK a : SourceOK(s, a)
  BY SessionFacts
<1>3. RecordOK(s) /\ OutOK(s) /\ DOMAIN view[s] = Fields /\ nextId \in Nat \ {0}
  BY SessionFacts
<1>4. view[s].row = {a} /\ DerivedFile(s, a) \in Stored
  BY DEF SourceOK
<1>. DEFINE n    == Cardinality(view[s].out) + 1
            slug == <<a.slug, Request(s).parser, view[s].record, n>>
            mode == Head(view[s].modes)
            l    == IF Len(view[s].modes) = 1 THEN "part" ELSE "file"
<1>a. /\ l \in {"part", "file"}
      /\ Goto(s, l, [view[s] EXCEPT !.modes = Tail(@), !.out = @ \cup
              {ArtifactRow(slug, 1, mode, DerivedFile(s, a), a.id, view[s].record,
                           view[s].from)}])
  <2>1. l \in {"part", "file"}
    OBVIOUS
  <2>. QED
    BY <1>4, <2>1, Zenon DEF SaveRow
<1>. HIDE DEF slug, mode, l
<1>. DEFINE new == ArtifactRow(slug, 1, mode, DerivedFile(s, a), a.id, view[s].record,
                               view[s].from)
            v   == [view[s] EXCEPT !.modes = Tail(@), !.out = @ \cup {new}]
<1>5. /\ DOMAIN new = ArtifactColumns /\ new.id = nextId /\ new.record = view[s].record
      /\ new.file = DerivedFile(s, a) /\ new.source = a.id /\ new.from = view[s].from
  BY DEF ArtifactRow, ArtifactColumns
<1>6. /\ v.row = view[s].row /\ v.record = view[s].record /\ v.from = view[s].from
      /\ v.out = view[s].out \cup {new} /\ v.parts = view[s].parts
  BY <1>3 DEF Fields
<1>7. pc'[s] = l /\ view'[s] = v /\ todo' = todo
  BY <1>a, GotoView
<1>. HIDE DEF new, v
<1>8. RecordOK(s)'
  BY <1>1, <1>3, <1>6, <1>7 DEF RecordOK, Request
<1>9. OutOK(s)'
  <2>1. \A x \in view[s].out : x.id # new.id /\ x.id < nextId'
    BY <1>1, <1>3, <1>5 DEF OutOK
  <2>2. /\ new.id \in Nat \ {0} /\ new.id < nextId' /\ new.file \in Stored'
        /\ \A y \in artifacts' : y.id # new.id
    BY <1>1, <1>3, <1>4, <1>5 DEF StoreInv, RowsOK, Stored
  <2>3. \A x \in v.out : /\ DOMAIN x = ArtifactColumns
                         /\ x.id \in Nat \ {0} /\ x.id < nextId'
                         /\ \A y \in artifacts' : y.id # x.id
                         /\ x.record = v.record /\ x.from = v.from
                         /\ x.file \in Stored'
    <3>. SUFFICES ASSUME NEW x \in v.out
                  PROVE  /\ DOMAIN x = ArtifactColumns
                         /\ x.id \in Nat \ {0} /\ x.id < nextId'
                         /\ \A y \in artifacts' : y.id # x.id
                         /\ x.record = v.record /\ x.from = v.from
                         /\ x.file \in Stored'
      OBVIOUS
    <3>1. CASE x = new
      BY <1>5, <1>6, <2>2, <3>1
    <3>2. CASE x \in view[s].out
      BY <1>1, <1>3, <1>6, <2>1, <3>2 DEF OutOK, Stored
    <3>. QED
      BY <1>6, <3>1, <3>2
  <2>4. \A x, y \in v.out : x.id = y.id => x = y
    BY <1>3, <1>6, <2>1 DEF OutOK
  <2>5. v.out # {} /\ v.parts \in Nat
    BY <1>3, <1>6 DEF OutOK
  <2>. QED
    BY <1>a, <1>7, <2>3, <2>4, <2>5 DEF OutOK
<1>10. SourceOK(s, a)'
  <2>1. Ident(a)' = Ident(a) /\ Idents' = Idents
    BY <1>1 DEF Ident, Idents
  <2>. QED
    BY <1>a, <1>1, <1>5, <1>6, <1>7, <2>1 DEF SourceOK
<1>11. SessionOK(s)'
  BY <1>a, <1>7, <1>8, <1>9, <1>10 DEF SessionOK, Preprocessing
<1>12. Fresh(s)
  BY <1>5, <1>6, <1>7 DEF Fresh
<1>. QED
  BY <1>2, <1>11, <1>12, StoreStep

LEMMA CommitRecordKeepsStore ==
  ASSUME Shape, StoreInv, NEW s \in Sessions, Moves(s), CommitRecord(s)
  PROVE  StoreInv'
<1>. pc[s] \in Preprocessing /\ (pc[s] = "fail" \/ (pc[s] = "part" /\ view[s].parts = 0))
  BY DEF CommitRecord, Preprocessing
<1>. PICK a : SourceOK(s, a)
  BY SessionFacts
<1>1. RecordOK(s) /\ OutOK(s) /\ view[s].row = {a}
  BY SessionFacts DEF SourceOK
<1>. DEFINE out == view[s].out
            new == [id |-> view[s].record, source |-> a.id,
                    status |-> IF pc[s] = "fail" THEN "failed" ELSE "completed",
                    derived |-> IF pc[s] = "fail" THEN {} ELSE {x.id : x \in out}]
<1>2. /\ records' = records \cup {new} /\ artifacts' = artifacts \cup out
      /\ UNCHANGED <<whole, partial, mistaken, nextId>> /\ Stored' = Stored
  BY <1>1 DEF CommitRecord, files, history, Stored
<1>3. /\ new.id = view[s].record /\ new.source = a.id
      /\ new.derived = {x.id : x \in out}
      /\ IF new.status = "completed" THEN new.derived # {} ELSE new.derived = {}
  <2>1. CASE pc[s] = "fail"
    BY <1>1, <2>1 DEF OutOK
  <2>2. CASE pc[s] = "part" /\ view[s].parts = 0
    BY <1>1, <2>2 DEF OutOK
  <2>. QED
    BY <2>1, <2>2
<1>. HIDE DEF new
<1>4. \A x \in out : /\ DOMAIN x = ArtifactColumns /\ x.id \in Nat \ {0} /\ x.id < nextId
                     /\ x.record = new.id /\ x.source = new.source /\ x.file \in Stored
                     /\ x.from \/ a.file \in mistaken
                     /\ \A y \in artifacts : y.id # x.id
  <2>1. \A x \in out : x.from \/ a.file \in mistaken
    BY <1>1 DEF OutOK, SourceOK
  <2>. QED
    BY <1>1, <1>3, <2>1 DEF OutOK, SourceOK
<1>5. new.id \in Nat \ {0} /\ new.id < nextId
  BY <1>1, <1>3 DEF RecordOK
<1>6. \A x \in artifacts : x.record # new.id
  BY <1>1, <1>3 DEF RecordOK
<1>7. \A x, y \in out : x.id = y.id => x = y
  BY <1>1 DEF OutOK
<1>. HIDE DEF out
<1>8. Grows(s)
  <2>1. Idents \subseteq Idents'
    BY <1>2 DEF Idents, Ident
  <2>2. \A x \in artifacts' : Ident(x) \in Idents \/ x \in out
    BY <1>2 DEF Idents
  <2>3. nextId \in Nat \ {0}
    BY DEF StoreInv, RowsOK
  <2>. QED
    BY <1>2, <1>3, <2>1, <2>2, <2>3 DEF Grows, out
<1>9. RowsOK'
  <2>1. RowsOK
    BY DEF StoreInv
  <2>2. \A x \in artifacts' :
          /\ DOMAIN x = ArtifactColumns
          /\ x.id \in Nat \ {0} /\ x.id < nextId /\ x.record \in Nat
          /\ x.record = NoRow => Len(x.file) = 1
    <3>1. ASSUME NEW x \in out PROVE x.record \in Nat /\ x.record # NoRow
      BY <1>4, <1>5 DEF NoRow
    <3>. QED
      BY <1>2, <1>4, <2>1, <3>1 DEF RowsOK
  <2>3. \A x, y \in artifacts' : x.id = y.id => x = y
    BY <1>2, <1>4, <1>7, <2>1 DEF RowsOK
  <2>. QED
    BY <1>2, <1>5, <2>1, <2>2, <2>3 DEF RowsOK
<1>10. PreprocessingIsWhole'
  <2>. PreprocessingIsWhole
    BY DEF StoreInv
  <2>1. \A rec \in records : rec.derived \subseteq {x.id : x \in artifacts} /\ rec.id # new.id
    BY <1>1, <1>3 DEF PreprocessingIsWhole, RecordOK
  <2>2. ASSUME NEW rec \in records
        PROVE  {x \in artifacts' : x.record = rec.id} = {x \in artifacts' : x.id \in rec.derived}
    <3>1. {x \in artifacts : x.record = rec.id} = {x \in artifacts : x.id \in rec.derived}
      BY DEF PreprocessingIsWhole
    <3>2. \A x \in out : x.record # rec.id /\ x.id \notin rec.derived
      BY <1>4, <2>1
    <3>. QED
      BY <1>2, <3>1, <3>2
  <2>3. {x \in artifacts' : x.record = new.id} = {x \in artifacts' : x.id \in new.derived}
    <3>1. ASSUME NEW x \in artifacts PROVE x.record # new.id /\ x.id \notin new.derived
      BY <1>3, <1>4, <1>6
    <3>2. ASSUME NEW x \in out PROVE x.record = new.id /\ x.id \in new.derived
      BY <1>3, <1>4
    <3>. QED
      BY <1>2, <3>1, <3>2
  <2>4. \A rec \in records' : rec.derived \subseteq {x.id : x \in artifacts'}
    BY <1>2, <1>3, <2>1
  <2>5. \A rec \in records' : IF rec.status = "completed"
                             THEN rec.derived # {} ELSE rec.derived = {}
    BY <1>2, <1>3 DEF PreprocessingIsWhole
  <2>6. \A x \in artifacts' : x.record # NoRow =>
          \E rec \in records' : rec.id = x.record /\ rec.source = x.source
    <3>. SUFFICES ASSUME NEW x \in artifacts', x.record # NoRow
                  PROVE  \E rec \in records' : rec.id = x.record /\ rec.source = x.source
      OBVIOUS
    <3>1. CASE x \in artifacts
      BY <1>2, <3>1 DEF PreprocessingIsWhole
    <3>2. CASE x \in out
      BY <1>2, <1>4, <3>2
    <3>. QED
      BY <1>2, <3>1, <3>2
  <2>. QED
    BY <1>2, <2>2, <2>3, <2>4, <2>5, <2>6 DEF PreprocessingIsWhole
<1>11. FilesAreWhole'
  <2>. SUFFICES ASSUME NEW x \in artifacts', x.record # NoRow
                PROVE  /\ x.file \in Stored
                       /\ x.from \/ \E b \in artifacts' : b.id = x.source /\ b.file \in mistaken
    BY <1>2, Zenon DEF FilesAreWhole, Stored
  <2>1. CASE x \in artifacts
    BY <1>2, <2>1 DEF StoreInv, FilesAreWhole, Stored
  <2>2. CASE x \in out
    <3>. PICK b \in artifacts : b.id = a.id /\ b.file = a.file
      BY DEF SourceOK, Idents, Ident
    <3>. QED
      BY <1>2, <1>3, <1>4, <2>2
  <2>. QED
    BY <1>2, <2>1, <2>2
<1>12. SessionOK(s)' /\ Fresh(s)
  BY EndView DEF CommitRecord, SessionOK, Fresh, Preprocessing, NoView
<1>. QED
  BY <1>8, <1>9, <1>10, <1>11, <1>12, StoreStep
-----------------------------------------------------------------------------
LEMMA InitStore == Init => StoreInv
<1>. SUFFICES ASSUME Init PROVE StoreInv
  OBVIOUS
<1>1. /\ artifacts = Artifacts0 /\ records = {} /\ partial = {} /\ nextId = 10
      /\ \A s \in Sessions : pc[s] = "idle" /\ view[s] = NoView
  BY DEF Init
<1>2. \A a \in Artifacts0 : /\ DOMAIN a = ArtifactColumns /\ a.id \in 1 .. 9
                            /\ a.record = NoRow /\ Len(a.file) = 1
  BY LibraryAssumption
<1>3. \A x, y \in Artifacts0 : x.id = y.id => x = y
  BY LibraryAssumption
<1>4. RowsOK
  BY <1>1, <1>2, <1>3 DEF RowsOK, NoRow
<1>5. PreprocessingIsWhole /\ FilesAreWhole
  BY <1>1, <1>2 DEF PreprocessingIsWhole, FilesAreWhole
<1>6. \A s \in Sessions : pc[s] \notin Preprocessing /\ view[s].out = {}
  BY <1>1 DEF Preprocessing, NoView
<1>. QED
  BY <1>4, <1>5, <1>6 DEF StoreInv, SessionOK, Apart

LEMMA NextStore == Shape /\ StoreInv /\ [Next]_vars => StoreInv'
<1>. SUFFICES ASSUME Shape, StoreInv, [Next]_vars PROVE StoreInv'
  OBVIOUS
<1>1. CASE UNCHANGED vars
  <2>1. UNCHANGED <<artifacts, records, whole, partial, mistaken, nextId, todo, pc, view>>
    BY <1>1 DEF vars, rows, files, sessions, history
  <2>2. Idents' = Idents /\ Stored' = Stored
    BY <2>1 DEF Idents, Ident, Stored
  <2>3. RowsOK' /\ PreprocessingIsWhole' /\ FilesAreWhole'
    BY <2>1 DEF StoreInv, RowsOK, PreprocessingIsWhole, FilesAreWhole
  <2>4. ASSUME NEW s \in Sessions PROVE SessionOK(s)'
    <3>1. SessionOK(s)
      BY DEF StoreInv
    <3>2. CASE pc[s] \in Preprocessing
      <4>1. RecordOK(s)' /\ OutOK(s)'
        BY <2>1, <2>2, <3>1, <3>2 DEF SessionOK, RecordOK, OutOK, Request
      <4>. PICK a : SourceOK(s, a)
        BY <3>1, <3>2 DEF SessionOK
      <4>2. SourceOK(s, a)'
        BY <2>1, <2>2 DEF SourceOK, DerivedFile, Request
      <4>. QED
        BY <2>1, <3>2, <4>1, <4>2 DEF SessionOK
    <3>. QED
      BY <2>1, <3>1, <3>2 DEF SessionOK
  <2>5. \A s, t \in Sessions : s # t => Apart(s, t)'
    BY <2>1 DEF StoreInv, Apart
  <2>. QED
    BY <2>3, <2>4, <2>5 DEF StoreInv
<1>2. ASSUME NEW s \in Sessions, Step(s) PROVE StoreInv'
  <2>1. Moves(s)
    BY <1>2, ActionsMove
  <2>. QED
    BY <1>2, <2>1, CalmActions, CalmKeepsStore, DeclareKeepsStore, SetModeKeepsStore,
       StartPreprocessingKeepsStore, ParseKeepsStore, PartKeepsStore, FileKeepsStore,
       SaveRowKeepsStore, CommitRecordKeepsStore DEF Step
<1>. QED
  BY <1>1, <1>2 DEF Next

LEMMA SpecStore == Spec => [](Shape /\ StoreInv)
<1>1. Shape /\ StoreInv /\ [Next]_vars => Shape' /\ StoreInv'
  <2>1. ASSUME Shape, UNCHANGED vars PROVE Shape'
    BY <2>1 DEF Shape, vars, sessions
  <2>2. ASSUME Shape, NEW s \in Sessions, Step(s) PROVE Shape'
    BY <2>2, ActionsMove DEF Moves
  <2>. QED
    BY <2>1, <2>2, NextStore DEF Next
<1>. QED
  BY <1>1, InitShape, InitStore, PTL DEF Spec

\* All that preprocessing made of a source is there, or nothing is: whatever
\* sessions do at the same time, and wherever they die (PreprocessingIsWhole).
THEOREM PreprocessingIsAllOrNothing == Spec => []PreprocessingIsWhole
<1>1. StoreInv => PreprocessingIsWhole
  BY DEF StoreInv
<1>. QED
  BY <1>1, SpecStore, PTL

\* A derived artifact has its whole file, of a whole source, but for files that
\* two sessions met at (FilesAreWhole).
THEOREM DerivedFilesAreWhole == Spec => []FilesAreWhole
<1>1. StoreInv => FilesAreWhole
  BY DEF StoreInv
<1>. QED
  BY <1>1, SpecStore, PTL
-----------------------------------------------------------------------------
\* Inputs.

Bound(i) ==
  i.mode \in DerivedModes =>
    \E x \in artifacts :
      /\ x.id = i.row
      /\ \/ i.row = i.source /\ x.bound
         \/ \E rec \in records : /\ rec.id = x.record /\ rec.source = i.source
                                 /\ rec.status = "completed"

\* What is bound stays so, and sessions take no other inputs.
InputsInv ==
  /\ \A e \in experiments : DOMAIN e = ExperimentColumns /\ \A i \in e.inputs : Bound(i)
  /\ \A s \in Sessions :
       /\ \A i \in view[s].inputs : Bound(i)
       /\ \A e \in view[s].read : DOMAIN e = ExperimentColumns /\ \A i \in e.inputs : Bound(i)

LEMMA RowsStay ==
  ASSUME Shape, StoreInv, NEW s \in Sessions, Step(s)
  PROVE  Idents \subseteq Idents' /\ records \subseteq records'
<1>1. CASE artifacts \subseteq artifacts' /\ records \subseteq records'
  BY <1>1 DEF Idents, Ident
<1>2. CASE SetMode(s)
  <2>. DEFINE A(a) == IF a \in BySlug(artifacts, Request(s).artifact, Newest)
                      THEN [a EXCEPT !.mode = Request(s).mode] ELSE a
  <2>1. artifacts' = {A(a) : a \in artifacts} /\ records' = records
    BY <1>2 DEF SetMode
  <2>2. \A a \in artifacts : DOMAIN a = ArtifactColumns
    BY DEF StoreInv, RowsOK
  <2>3. \A a \in artifacts :
          /\ A(a).id = a.id /\ A(a).file = a.file /\ A(a).source = a.source
          /\ A(a).record = a.record /\ A(a).from = a.from /\ A(a).bound = a.bound
    BY <2>2 DEF ArtifactColumns
  <2>. HIDE DEF A
  <2>4. \A a \in artifacts : Ident(A(a)) = Ident(a)
    BY <2>3 DEF Ident
  <2>5. Idents' = {Ident(x) : x \in artifacts'}
    BY DEF Idents, Ident
  <2>. QED
    BY <2>1, <2>4, <2>5 DEF Idents
<1>3. CASE Declare(s) \/ CommitRecord(s)
  BY <1>1, <1>3 DEF Declare, CommitRecord
<1>4. CASE ~(SetMode(s) \/ Declare(s) \/ CommitRecord(s))
  <2>1. artifacts' = artifacts /\ records' = records
    BY <1>4 DEF Step, StartCreate, InsertSuite, Resolve, CommitItem, Archive,
       StartPreprocessing, Parse, NextPart, RenderFails, LookForFile, OpenFile, CloseFile,
       SaveRow, StartDraft, StartEdit, StartRun, LookForExperiment, ReadInput, DeriveInput,
       CommitDraft, ReadRuns, CommitEdit, InsertExperiment, Execute, CommitRun, Die, rows
  <2>. QED
    BY <1>1, <2>1
<1>. QED
  BY <1>2, <1>3, <1>4

LEMMA BoundStays ==
  ASSUME Shape, StoreInv, NEW s \in Sessions, Step(s), NEW i, Bound(i)
  PROVE  Bound(i)'
<1>. SUFFICES ASSUME i.mode \in DerivedModes
              PROVE  \E x \in artifacts' :
                       /\ x.id = i.row
                       /\ \/ i.row = i.source /\ x.bound
                          \/ \E rec \in records' : /\ rec.id = x.record
                                                   /\ rec.source = i.source
                                                   /\ rec.status = "completed"
  BY DEF Bound
<1>. PICK x \in artifacts :
       /\ x.id = i.row
       /\ \/ i.row = i.source /\ x.bound
          \/ \E rec \in records : /\ rec.id = x.record /\ rec.source = i.source
                                  /\ rec.status = "completed"
  BY DEF Bound
<1>. PICK y \in artifacts' : Ident(y) = Ident(x)
  BY RowsStay DEF Idents, Ident
<1>1. y.id = x.id /\ y.record = x.record /\ y.bound = x.bound
  BY DEF Ident
<1>. QED
  BY <1>1, RowsStay

LEMMA InputsStep ==
  ASSUME Shape, StoreInv, InputsInv, NEW s \in Sessions, Moves(s), Step(s),
         \A e \in experiments' : \/ e \in experiments
                                 \/ DOMAIN e = ExperimentColumns /\ \A i \in e.inputs : Bound(i),
         \A i \in view'[s].inputs : Bound(i),
         \A e \in view'[s].read : DOMAIN e = ExperimentColumns /\ \A i \in e.inputs : Bound(i)
  PROVE  InputsInv'
<1>1. \A t \in Sessions \ {s} : view'[t] = view[t]
  BY DEF Moves
<1>2. ASSUME NEW e, DOMAIN e = ExperimentColumns, \A i \in e.inputs : Bound(i)
      PROVE  \A i \in e.inputs : Bound(i)'
  BY <1>2, BoundStays
<1>3. \A e \in experiments' : DOMAIN e = ExperimentColumns /\ \A i \in e.inputs : Bound(i)'
  BY <1>2 DEF InputsInv
<1>4. ASSUME NEW t \in Sessions
      PROVE  /\ \A i \in view'[t].inputs : Bound(i)'
             /\ \A e \in view'[t].read :
                  DOMAIN e = ExperimentColumns /\ \A i \in e.inputs : Bound(i)'
  <2>1. /\ \A i \in view'[t].inputs : Bound(i)
        /\ \A e \in view'[t].read :
             DOMAIN e = ExperimentColumns /\ \A i \in e.inputs : Bound(i)
    BY <1>1 DEF InputsInv
  <2>. QED
    BY <1>2, <2>1, BoundStays
<1>. QED
  BY <1>3, <1>4 DEF InputsInv

\* A session asks for no input that is not bound.
LEMMA InputsAreBound ==
  ASSUME Shape, StoreInv, InputsInv, NEW s \in Sessions, Moves(s),
         ReadInput(s) \/ DeriveInput(s)
  PROVE  (\A i \in view'[s].inputs : Bound(i)) /\ view'[s].read \subseteq view[s].read
<1>0. DOMAIN view[s] = Fields /\ \A i \in view[s].inputs : Bound(i)
  BY DEF Shape, InputsInv
<1>1. CASE End(s)
  BY <1>1, EndView DEF NoView
<1>2. CASE ~End(s) /\ ReadInput(s)
  <2>. PICK want \in view[s].wants : \E a \in BySlug(artifacts, want[1], want[2]) :
         LET mode == TargetMode(want, a) IN
           IF mode \in DerivedModes /\ ~a.bound
           THEN Goto(s, "derive", [view[s] EXCEPT !.wants = @ \ {want}, !.row = {a},
                                                  !.mode = mode])
           ELSE Goto(s, "resolve", [view[s] EXCEPT !.wants = @ \ {want},
                                                   !.inputs = @ \cup {Input(a, a, mode)}])
    BY <1>2 DEF ReadInput
  <2>. PICK a, mode :
         \/ Goto(s, "derive", [view[s] EXCEPT !.wants = @ \ {want}, !.row = {a}, !.mode = mode])
         \/ /\ a \in artifacts /\ ~(mode \in DerivedModes /\ ~a.bound)
            /\ Goto(s, "resolve", [view[s] EXCEPT !.wants = @ \ {want},
                                                  !.inputs = @ \cup {Input(a, a, mode)}])
    BY DEF BySlug
  <2>1. CASE Goto(s, "derive", [view[s] EXCEPT !.wants = @ \ {want}, !.row = {a},
                                               !.mode = mode])
    <3>1. view'[s] = [view[s] EXCEPT !.wants = @ \ {want}, !.row = {a}, !.mode = mode]
      BY <2>1, GotoView
    <3>. QED
      BY <1>0, <3>1 DEF Fields
  <2>2. CASE /\ a \in artifacts /\ ~(mode \in DerivedModes /\ ~a.bound)
             /\ Goto(s, "resolve", [view[s] EXCEPT !.wants = @ \ {want},
                                                   !.inputs = @ \cup {Input(a, a, mode)}])
    <3>1. view'[s] = [view[s] EXCEPT !.wants = @ \ {want},
                                     !.inputs = @ \cup {Input(a, a, mode)}]
      BY <2>2, GotoView
    <3>2. /\ view'[s].inputs = view[s].inputs \cup {Input(a, a, mode)}
          /\ view'[s].read = view[s].read
      BY <1>0, <3>1 DEF Fields
    <3>3. Bound(Input(a, a, mode))
      BY <2>2 DEF Bound, Input
    <3>. QED
      BY <1>0, <3>2, <3>3
  <2>. QED
    BY <2>1, <2>2
<1>3. CASE ~End(s) /\ DeriveInput(s)
  <2>. PICK a \in view[s].row : \E x \in DerivedFrom(a, view[s].mode) :
         Goto(s, "resolve", [view[s] EXCEPT !.inputs = @ \cup {Input(a, x, view[s].mode)}])
    BY <1>3 DEF DeriveInput
  <2>. PICK x \in DerivedFrom(a, view[s].mode) :
         Goto(s, "resolve", [view[s] EXCEPT !.inputs = @ \cup {Input(a, x, view[s].mode)}])
    OBVIOUS
  <2>. DEFINE i == Input(a, x, view[s].mode)
  <2>1. view'[s] = [view[s] EXCEPT !.inputs = @ \cup {i}]
    BY GotoView
  <2>2. view'[s].inputs = view[s].inputs \cup {i} /\ view'[s].read = view[s].read
    BY <1>0, <2>1 DEF Fields
  <2>3. Bound(i)
    <3>. PICK rec \in records :
           rec.status = "completed" /\ rec.source = a.id /\ x.id \in rec.derived
      BY DEF DerivedFrom
    <3>1. x \in artifacts
      BY DEF DerivedFrom
    <3>2. x.record = rec.id
      BY <3>1 DEF StoreInv, PreprocessingIsWhole
    <3>3. i.row = x.id /\ i.source = a.id
      BY DEF Input
    <3>. QED
      BY <3>1, <3>2, <3>3 DEF Bound
  <2>. QED
    BY <1>0, <2>2, <2>3
<1>. QED
  BY <1>1, <1>2, <1>3

\* The inputs of an experiment that is written are the session's, or were there.
LEMMA ExperimentsKeepInputs ==
  ASSUME Shape, StoreInv, InputsInv, NEW s \in Sessions, Moves(s), Step(s),
         CommitDraft(s) \/ CommitEdit(s) \/ InsertExperiment(s) \/ CommitRun(s)
  PROVE  InputsInv'
<1>. DEFINE OK(e) == DOMAIN e = ExperimentColumns /\ \A i \in e.inputs : Bound(i)
<1>0. /\ DOMAIN view[s] = Fields /\ \A i \in view[s].inputs : Bound(i)
      /\ \A e \in view[s].read : OK(e)
      /\ \A e \in experiments : OK(e)
  BY DEF Shape, InputsInv
<1>1. ASSUME NEW m, NEW status
      PROVE  LET e == NewExperiment(s, m, status)
             IN  DOMAIN e = ExperimentColumns /\ e.inputs = view[s].inputs
  BY DEF NewExperiment, ExperimentColumns
<1>2. CASE End(s) /\ \A e \in experiments' : e \in experiments \/ OK(e)
  <2>1. view'[s].inputs = {} /\ view'[s].read = {}
    BY <1>2, EndView DEF NoView
  <2>. QED
    BY <1>2, <2>1, InputsStep
<1>3. CASE CommitDraft(s)
  BY <1>0, <1>1, <1>2, <1>3 DEF CommitDraft
<1>4. CASE CommitEdit(s)
  <2>1. CASE experiments' = experiments
    BY <1>2, <1>4, <2>1 DEF CommitEdit
  <2>2. CASE \E m, old, r : \E e \in experiments :
               experiments' = (experiments \ {e}) \cup
                 {[Flushed(old, NewExperiment(s, m, "draft"), e) EXCEPT !.runs = r]}
    <3>. PICK m, old, r : \E e \in experiments :
               experiments' = (experiments \ {e}) \cup
                 {[Flushed(old, NewExperiment(s, m, "draft"), e) EXCEPT !.runs = r]}
      BY <2>2
    <3>. PICK e \in experiments :
               experiments' = (experiments \ {e}) \cup
                 {[Flushed(old, NewExperiment(s, m, "draft"), e) EXCEPT !.runs = r]}
      OBVIOUS
    <3>. DEFINE new == [Flushed(old, NewExperiment(s, m, "draft"), e) EXCEPT !.runs = r]
    <3>1. DOMAIN new = ExperimentColumns /\ new.inputs \in {view[s].inputs, e.inputs}
      BY <1>0, <1>1 DEF ExperimentColumns, Flushed, Column
    <3>. HIDE DEF new
    <3>2. experiments' = (experiments \ {e}) \cup {new}
      BY DEF new
    <3>. QED
      BY <1>0, <1>2, <1>4, <3>1, <3>2 DEF CommitEdit
  <2>3. \/ experiments' = experiments
        \/ \E m, old, r : \E e \in experiments :
             experiments' = (experiments \ {e}) \cup
               {[Flushed(old, NewExperiment(s, m, "draft"), e) EXCEPT !.runs = r]}
    <3>. PICK old \in view[s].read, m \in view[s].manifest, e \in experiments :
           LET new == NewExperiment(s, m, "draft")
           IN  IF Mixed(view[s].inputs) \/ EditConflicts(old, new, e)
               THEN UNCHANGED <<experiments, overlapped>>
               ELSE experiments' = (experiments \ {e}) \cup
                      {[Flushed(old, new, e) EXCEPT
                          !.runs = RunsAfterEdit(s, m, e.runs \ old.runs)]}
      BY <1>4, Zenon DEF CommitEdit
    <3>. QED
      BY Zenon
  <2>. QED
    BY <2>1, <2>2, <2>3
<1>5. CASE InsertExperiment(s)
  <2>0. experiments' = experiments
    BY <1>5 DEF InsertExperiment, rows
  <2>1. CASE End(s)
    BY <1>2, <2>0, <2>1
  <2>2. CASE \E m : Goto(s, "running", [view[s] EXCEPT !.read = {NewExperiment(s, m, "running")}])
    <3>. PICK m : Goto(s, "running", [view[s] EXCEPT !.read = {NewExperiment(s, m, "running")}])
      BY <2>2
    <3>1. view'[s] = [view[s] EXCEPT !.read = {NewExperiment(s, m, "running")}]
      BY GotoView
    <3>2. /\ view'[s].inputs = view[s].inputs
          /\ view'[s].read = {NewExperiment(s, m, "running")}
      BY <1>0, <3>1 DEF Fields
    <3>. QED
      BY <1>0, <1>1, <2>0, <3>2, InputsStep
  <2>. QED
    BY <1>5, <2>1, <2>2 DEF InsertExperiment
<1>6. CASE CommitRun(s)
  <2>. PICK read \in view[s].read :
       LET e == IF RowsOf(read.id) = {} THEN read ELSE CHOOSE x \in RowsOf(read.id) : TRUE
       IN  experiments' = (experiments \ {e}) \cup
             {[e EXCEPT !.local_only = Restored(s, e, read), !.status = "complete"]}
    BY <1>6 DEF CommitRun
  <2>. PICK e : /\ e = read \/ e \in experiments
                /\ experiments' = (experiments \ {e}) \cup
                     {[e EXCEPT !.local_only = Restored(s, e, read), !.status = "complete"]}
    BY DEF RowsOf
  <2>. DEFINE new == [e EXCEPT !.local_only = Restored(s, e, read), !.status = "complete"]
  <2>1. OK(e)
    BY <1>0
  <2>2. DOMAIN new = ExperimentColumns /\ new.inputs = e.inputs
    BY <2>1 DEF ExperimentColumns
  <2>. HIDE DEF new
  <2>3. experiments' = (experiments \ {e}) \cup {new}
    BY DEF new
  <2>. QED
    BY <1>2, <1>6, <2>1, <2>2, <2>3 DEF CommitRun
<1>. QED
  BY <1>3, <1>4, <1>5, <1>6

\* The other steps ask for nothing, and write no experiment.
LEMMA OtherActionsAsk ==
  ASSUME Shape, NEW s \in Sessions, Moves(s), Step(s),
         ~(\/ ReadInput(s) \/ DeriveInput(s)
           \/ CommitDraft(s) \/ CommitEdit(s) \/ InsertExperiment(s) \/ CommitRun(s))
  PROVE  /\ experiments' = experiments /\ view'[s].inputs \subseteq view[s].inputs
         /\ \A e \in view'[s].read : \/ e \in view[s].read \cup experiments
                                     \/ \E R : \E x \in view[s].read : e = [x EXCEPT !.runs = R]
<1>. DEFINE Asks == /\ view'[s].inputs \subseteq view[s].inputs
                    /\ \A e \in view'[s].read :
                         \/ e \in view[s].read \cup experiments
                         \/ \E R : \E x \in view[s].read : e = [x EXCEPT !.runs = R]
<1>0. DOMAIN view[s] = Fields /\ NoView.inputs = {} /\ NoView.read = {}
  BY DEF Shape, NoView
<1>1. experiments' = experiments
  BY DEF Step, StartCreate, InsertSuite, Resolve, CommitItem, Archive, Declare, SetMode,
     StartPreprocessing, Parse, NextPart, RenderFails, LookForFile, OpenFile, CloseFile,
     SaveRow, CommitRecord, StartDraft, StartEdit, StartRun, LookForExperiment, ReadRuns,
     Execute, Die, rows
<1>. SUFFICES Asks
  BY <1>1
<1>2. CASE End(s)
  BY <1>0, <1>2, EndView
<1>3. ASSUME NEW l, NEW v, Goto(s, l, v), v.inputs \subseteq view[s].inputs,
             v.read \subseteq view[s].read \cup experiments
      PROVE  Asks
  BY <1>3, GotoView
<1>4. CASE InsertSuite(s) \/ CommitItem(s) \/ Archive(s) \/ Declare(s) \/ SetMode(s)
           \/ CommitRecord(s)
  BY <1>2, <1>3, <1>4
     DEF InsertSuite, CommitItem, Archive, Declare, SetMode, CommitRecord
<1>5. CASE LookForFile(s) \/ OpenFile(s) \/ CloseFile(s) \/ Execute(s)
  BY <1>3, <1>5 DEF LookForFile, OpenFile, CloseFile, Execute
<1>6. CASE StartCreate(s) \/ StartPreprocessing(s)
  <2>1. CASE \E l, n, m : Goto(s, l, [NoView EXCEPT !.version = n, !.refs = m])
    <3>. PICK l, n, m : Goto(s, l, [NoView EXCEPT !.version = n, !.refs = m])
      BY <2>1
    <3>1. view'[s] = [NoView EXCEPT !.version = n, !.refs = m]
      BY GotoView
    <3>2. view'[s].inputs = {} /\ view'[s].read = {}
      BY <3>1 DEF NoView
    <3>. QED
      BY <3>2
  <2>2. CASE \E l, a, n : Goto(s, l, [NoView EXCEPT !.row = a, !.record = n])
    <3>. PICK l, a, n : Goto(s, l, [NoView EXCEPT !.row = a, !.record = n])
      BY <2>2
    <3>1. view'[s] = [NoView EXCEPT !.row = a, !.record = n]
      BY GotoView
    <3>2. view'[s].inputs = {} /\ view'[s].read = {}
      BY <3>1 DEF NoView
    <3>. QED
      BY <3>2
  <2>. QED
    BY <1>2, <1>6, <2>1, <2>2 DEF StartCreate, StartPreprocessing
<1>7. CASE Resolve(s)
  <2>1. CASE \E ref, x : Goto(s, "resolve", [view[s] EXCEPT !.refs = @ \ {ref},
                                                          !.pins = @ \cup {x}])
    <3>. PICK ref, x : Goto(s, "resolve", [view[s] EXCEPT !.refs = @ \ {ref},
                                                         !.pins = @ \cup {x}])
      BY <2>1
    <3>1. view'[s] = [view[s] EXCEPT !.refs = @ \ {ref}, !.pins = @ \cup {x}]
      BY GotoView
    <3>. QED
      BY <1>0, <3>1 DEF Fields
  <2>. QED
    BY <1>2, <1>7, <2>1 DEF Resolve
<1>8. CASE Parse(s)
  <2>. PICK n, b : \/ Goto(s, "fail", view[s])
                   \/ Goto(s, "part", [view[s] EXCEPT !.parts = n, !.from = b])
    BY <1>8 DEF Parse
  <2>1. view'[s] = view[s] \/ view'[s] = [view[s] EXCEPT !.parts = n, !.from = b]
    BY GotoView
  <2>. QED
    BY <1>0, <2>1 DEF Fields
<1>9. CASE NextPart(s)
  <2>. PICK modes : Goto(s, "file", [view[s] EXCEPT !.parts = @ - 1, !.modes = modes])
    BY <1>9 DEF NextPart
  <2>1. view'[s] = [view[s] EXCEPT !.parts = @ - 1, !.modes = modes]
    BY GotoView
  <2>. QED
    BY <1>0, <2>1 DEF Fields
<1>10. CASE RenderFails(s)
  <2>1. view'[s] = [view[s] EXCEPT !.out = RowsAfterFailure(s)]
    BY <1>10, GotoView DEF RenderFails
  <2>. QED
    BY <1>0, <2>1 DEF Fields
<1>11. CASE SaveRow(s)
  <2>. PICK l, new : Goto(s, l, [view[s] EXCEPT !.modes = Tail(@), !.out = @ \cup {new}])
    BY <1>11 DEF SaveRow
  <2>1. view'[s] = [view[s] EXCEPT !.modes = Tail(@), !.out = @ \cup {new}]
    BY GotoView
  <2>. QED
    BY <1>0, <2>1 DEF Fields
<1>12. CASE StartDraft(s) \/ StartEdit(s) \/ StartRun(s)
  <2>1. CASE \E l, m : Goto(s, l, Snapshots(s, m))
    <3>. PICK l, m : Goto(s, l, Snapshots(s, m))
      BY <2>1
    <3>1. view'[s] = Snapshots(s, m)
      BY GotoView
    <3>. QED
      BY <1>0, <3>1 DEF Fields, Snapshots
  <2>2. CASE \E m, i : Goto(s, "resolve", [Snapshots(s, m) EXCEPT !.read = RowsOf(i)])
    <3>. PICK m, i : Goto(s, "resolve", [Snapshots(s, m) EXCEPT !.read = RowsOf(i)])
      BY <2>2
    <3>1. view'[s] = [Snapshots(s, m) EXCEPT !.read = RowsOf(i)]
      BY GotoView
    <3>. QED
      BY <1>0, <3>1 DEF Fields, Snapshots, RowsOf
  <2>. QED
    BY <1>2, <1>12, <2>1, <2>2, Zenon DEF StartDraft, StartEdit, StartRun
<1>13. CASE LookForExperiment(s)
  <2>1. CASE \E l, m : Goto(s, l, [view[s] EXCEPT !.read = RowsOf(m)])
    <3>. PICK l, m : Goto(s, l, [view[s] EXCEPT !.read = RowsOf(m)])
      BY <2>1
    <3>1. view'[s] = [view[s] EXCEPT !.read = RowsOf(m)]
      BY GotoView
    <3>. QED
      BY <1>0, <3>1 DEF RowsOf, Fields
  <2>. QED
    BY <1>2, <1>3, <1>13, <2>1 DEF LookForExperiment
<1>15. CASE ReadRuns(s)
  <2>. PICK e : Goto(s, "write", [view[s] EXCEPT !.read = {[x EXCEPT !.runs = e.runs] : x \in @}])
    BY <1>15 DEF ReadRuns
  <2>1. view'[s] = [view[s] EXCEPT !.read = {[x EXCEPT !.runs = e.runs] : x \in @}]
    BY GotoView
  <2>2. /\ view'[s].inputs = view[s].inputs
        /\ view'[s].read = {[x EXCEPT !.runs = e.runs] : x \in view[s].read}
    BY <1>0, <2>1 DEF Fields
  <2>. QED
    BY <2>2
<1>14. CASE Die(s)
  <2>1. view'[s] = NoView
    BY <1>14 DEF Shape, Die
  <2>. QED
    BY <1>0, <2>1
<1>. QED
  BY <1>4, <1>5, <1>6, <1>7, <1>8, <1>9, <1>10, <1>11, <1>12, <1>13, <1>14, <1>15 DEF Step

LEMMA NextInputs ==
  ASSUME Shape, StoreInv, InputsInv, [Next]_vars PROVE InputsInv'
<1>1. CASE UNCHANGED vars
  <2>1. UNCHANGED <<artifacts, records, experiments, view>>
    BY <1>1 DEF vars, rows, sessions
  <2>. QED
    BY <2>1 DEF InputsInv, Bound
<1>2. ASSUME NEW s \in Sessions, Step(s) PROVE InputsInv'
  <2>0. Moves(s)
    BY <1>2, ActionsMove
  <2>1. CASE CommitDraft(s) \/ CommitEdit(s) \/ InsertExperiment(s) \/ CommitRun(s)
    BY <1>2, <2>0, <2>1, ExperimentsKeepInputs
  <2>2. CASE ReadInput(s) \/ DeriveInput(s)
    <3>1. experiments' = experiments
      BY <2>2 DEF ReadInput, DeriveInput, rows
    <3>2. \A e \in view'[s].read : DOMAIN e = ExperimentColumns /\ \A i \in e.inputs : Bound(i)
      BY <2>0, <2>2, InputsAreBound DEF InputsInv
    <3>. QED
      BY <1>2, <2>0, <2>2, <3>1, <3>2, InputsAreBound, InputsStep
  <2>3. CASE ~(\/ ReadInput(s) \/ DeriveInput(s)
               \/ CommitDraft(s) \/ CommitEdit(s) \/ InsertExperiment(s) \/ CommitRun(s))
    <3>1. /\ experiments' = experiments /\ view'[s].inputs \subseteq view[s].inputs
          /\ \A e \in view'[s].read :
               \/ e \in view[s].read \cup experiments
               \/ \E R : \E x \in view[s].read : e = [x EXCEPT !.runs = R]
      BY <1>2, <2>0, <2>3, OtherActionsAsk
    <3>2. /\ \A i \in view'[s].inputs : Bound(i)
          /\ \A e \in view'[s].read : /\ DOMAIN e = ExperimentColumns
                                      /\ \A i \in e.inputs : Bound(i)
      <4>1. ASSUME NEW x \in view[s].read, NEW R
            PROVE  LET y == [x EXCEPT !.runs = R]
                   IN  DOMAIN y = ExperimentColumns /\ \A i \in y.inputs : Bound(i)
        <5>1. DOMAIN x = ExperimentColumns /\ \A i \in x.inputs : Bound(i)
          BY DEF InputsInv
        <5>. QED
          BY <5>1 DEF ExperimentColumns
      <4>. QED
        BY <3>1, <4>1 DEF InputsInv
    <3>. QED
      BY <1>2, <2>0, <3>1, <3>2, InputsStep
  <2>. QED
    BY <2>1, <2>2, <2>3
<1>. QED
  BY <1>1, <1>2 DEF Next

LEMMA InitInputs == Init => InputsInv
<1>. SUFFICES ASSUME Init PROVE InputsInv
  OBVIOUS
<1>1. experiments = Experiments0 /\ \A s \in Sessions : view[s] = NoView
  BY DEF Init
<1>2. \A e \in Experiments0 : DOMAIN e = ExperimentColumns /\ e.inputs = {}
  BY LibraryAssumption
<1>. QED
  BY <1>1, <1>2 DEF InputsInv, NoView

\* Every derived input that an experiment shows a model is what completed
\* preprocessing made of the source it names, or a bound row it named itself
\* (DerivedInputsAreBound).
THEOREM InputsAreOfTheirSource == Spec => []DerivedInputsAreBound
<1>1. Shape /\ StoreInv /\ InputsInv /\ [Next]_vars => InputsInv'
  BY NextInputs
<1>2. InputsInv => DerivedInputsAreBound
  BY DEF InputsInv, Bound, DerivedInputsAreBound
<1>. QED
  BY <1>1, <1>2, InitInputs, SpecStore, PTL DEF Spec
-----------------------------------------------------------------------------
(***************************************************************************)
(* Experiments and suites.  What a step does to the session that makes it  *)
(* is stated once: it ends the request, leaves what was pinned as it was,  *)
(* or is one of the few that read or pin.                                  *)
(***************************************************************************)

Ends(s) == pc'[s] = "idle" /\ view'[s] = NoView

Stays(s) ==
  /\ todo' = todo /\ pc[s] \notin {"idle", "write"} /\ pc'[s] \notin {"idle", "write"}
  /\ view'[s].manifest = view[s].manifest /\ view'[s].refs = view[s].refs
  /\ view'[s].pins = view[s].pins /\ view'[s].version = view[s].version
  /\ view'[s].read = view[s].read

Reads(s) ==
  \/ StartCreate(s) \/ StartPreprocessing(s) \/ Resolve(s) \/ StartDraft(s) \/ StartEdit(s)
  \/ StartRun(s) \/ LookForExperiment(s) \/ ReadRuns(s) \/ InsertExperiment(s)

LEMMA StepIs ==
  ASSUME Shape, NEW s \in Sessions, Step(s)
  PROVE  Ends(s) \/ Stays(s) \/ Reads(s)
<1>0. DOMAIN view[s] = Fields
  BY DEF Shape
<1>2. CASE End(s)
  BY <1>2, EndView DEF Ends
<1>3. ASSUME NEW l, NEW v, Goto(s, l, v),
             pc[s] \notin {"idle", "write"}, l \notin {"idle", "write"},
             v.manifest = view[s].manifest, v.refs = view[s].refs, v.pins = view[s].pins,
             v.version = view[s].version, v.read = view[s].read
      PROVE  Stays(s)
  BY <1>3, GotoView DEF Stays
<1>4. CASE CommitItem(s) \/ Archive(s) \/ Declare(s) \/ SetMode(s) \/ CommitRecord(s)
           \/ CommitDraft(s) \/ CommitEdit(s) \/ CommitRun(s)
  BY <1>2, <1>4
     DEF CommitItem, Archive, Declare, SetMode, CommitRecord, CommitDraft, CommitEdit, CommitRun
<1>5. CASE InsertSuite(s) \/ LookForFile(s) \/ OpenFile(s) \/ CloseFile(s) \/ Execute(s)
  <2>1. pc[s] \notin {"idle", "write"}
    BY <1>5 DEF InsertSuite, LookForFile, OpenFile, CloseFile, Execute, At
  <2>2. End(s) \/ \E l \in {"resolve", "open", "row", "close", "running"} : Goto(s, l, view[s])
    BY <1>5 DEF InsertSuite, LookForFile, AfterLookup, OpenFile, CloseFile, Execute
  <2>. QED
    BY <1>2, <1>3, <2>1, <2>2
<1>8. CASE Parse(s)
  <2>. PICK n, b : \/ Goto(s, "fail", view[s])
                   \/ Goto(s, "part", [view[s] EXCEPT !.parts = n, !.from = b])
    BY <1>8 DEF Parse
  <2>. DEFINE v == [view[s] EXCEPT !.parts = n, !.from = b]
  <2>1. /\ v.manifest = view[s].manifest /\ v.refs = view[s].refs /\ v.pins = view[s].pins
        /\ v.version = view[s].version /\ v.read = view[s].read
    BY <1>0 DEF Fields
  <2>2. Goto(s, "fail", view[s]) \/ Goto(s, "part", v)
    OBVIOUS
  <2>. HIDE DEF v
  <2>3. pc[s] \notin {"idle", "write"}
    BY <1>8 DEF Parse
  <2>. QED
    BY <1>3, <2>1, <2>2, <2>3
<1>9. CASE NextPart(s)
  <2>. PICK modes : Goto(s, "file", [view[s] EXCEPT !.parts = @ - 1, !.modes = modes])
    BY <1>9 DEF NextPart
  <2>. DEFINE v == [view[s] EXCEPT !.parts = @ - 1, !.modes = modes]
  <2>1. /\ v.manifest = view[s].manifest /\ v.refs = view[s].refs /\ v.pins = view[s].pins
        /\ v.version = view[s].version /\ v.read = view[s].read
    BY <1>0 DEF Fields
  <2>2. Goto(s, "file", v) /\ pc[s] \notin {"idle", "write"}
    BY <1>9 DEF NextPart
  <2>. HIDE DEF v
  <2>. QED
    BY <1>3, <2>1, <2>2
<1>10. CASE RenderFails(s)
  <2>. DEFINE v == [view[s] EXCEPT !.out = RowsAfterFailure(s)]
  <2>1. /\ v.manifest = view[s].manifest /\ v.refs = view[s].refs /\ v.pins = view[s].pins
        /\ v.version = view[s].version /\ v.read = view[s].read
    BY <1>0 DEF Fields
  <2>2. Goto(s, "fail", v) /\ pc[s] \notin {"idle", "write"}
    BY <1>10 DEF RenderFails
  <2>. HIDE DEF v
  <2>. QED
    BY <1>3, <2>1, <2>2
<1>11. CASE SaveRow(s)
  <2>. PICK new : Goto(s, IF Len(view[s].modes) = 1 THEN "part" ELSE "file",
                       [view[s] EXCEPT !.modes = Tail(@), !.out = @ \cup {new}])
    BY <1>11 DEF SaveRow
  <2>. DEFINE v == [view[s] EXCEPT !.modes = Tail(@), !.out = @ \cup {new}]
  <2>1. /\ v.manifest = view[s].manifest /\ v.refs = view[s].refs /\ v.pins = view[s].pins
        /\ v.version = view[s].version /\ v.read = view[s].read
    BY <1>0 DEF Fields
  <2>2. pc[s] \notin {"idle", "write"} /\ Goto(s, IF Len(view[s].modes) = 1 THEN "part" ELSE "file", v)
    BY <1>11 DEF SaveRow
  <2>. HIDE DEF v
  <2>. QED
    BY <1>3, <2>1, <2>2
<1>12. CASE ReadInput(s)
  <2>. PICK want, a, mode :
         \/ End(s)
         \/ Goto(s, "derive", [view[s] EXCEPT !.wants = @ \ {want}, !.row = {a}, !.mode = mode])
         \/ Goto(s, "resolve", [view[s] EXCEPT !.wants = @ \ {want},
                                               !.inputs = @ \cup {Input(a, a, mode)}])
    BY <1>12 DEF ReadInput
  <2>. DEFINE v == [view[s] EXCEPT !.wants = @ \ {want}, !.row = {a}, !.mode = mode]
              u == [view[s] EXCEPT !.wants = @ \ {want}, !.inputs = @ \cup {Input(a, a, mode)}]
  <2>1. /\ v.manifest = view[s].manifest /\ v.refs = view[s].refs /\ v.pins = view[s].pins
        /\ v.version = view[s].version /\ v.read = view[s].read
    BY <1>0 DEF Fields
  <2>2. /\ u.manifest = view[s].manifest /\ u.refs = view[s].refs /\ u.pins = view[s].pins
        /\ u.version = view[s].version /\ u.read = view[s].read
    BY <1>0 DEF Fields
  <2>3. /\ pc[s] \notin {"idle", "write"}
        /\ End(s) \/ Goto(s, "derive", v) \/ Goto(s, "resolve", u)
    BY <1>12 DEF ReadInput
  <2>. HIDE DEF u, v
  <2>. QED
    BY <1>2, <1>3, <2>1, <2>2, <2>3
<1>13. CASE DeriveInput(s)
  <2>. PICK i : End(s) \/ Goto(s, "resolve", [view[s] EXCEPT !.inputs = @ \cup {i}])
    BY <1>13 DEF DeriveInput
  <2>. DEFINE v == [view[s] EXCEPT !.inputs = @ \cup {i}]
  <2>1. /\ v.manifest = view[s].manifest /\ v.refs = view[s].refs /\ v.pins = view[s].pins
        /\ v.version = view[s].version /\ v.read = view[s].read
    BY <1>0 DEF Fields
  <2>2. pc[s] \notin {"idle", "write"} /\ (End(s) \/ Goto(s, "resolve", v))
    BY <1>13 DEF DeriveInput
  <2>. HIDE DEF v
  <2>. QED
    BY <1>2, <1>3, <2>1, <2>2
<1>14. CASE Die(s)
  BY <1>14 DEF Shape, Die, Ends
<1>. QED
  BY <1>4, <1>5, <1>8, <1>9, <1>10, <1>11, <1>12, <1>13, <1>14 DEF Step, Reads

\* The tables a step may write.
LEMMA TablesAre ==
  ASSUME Shape, NEW s \in Sessions, Step(s)
  PROVE  /\ CommitItem(s) \/ Archive(s) \/ items' = items
         /\ CommitDraft(s) \/ CommitEdit(s) \/ CommitRun(s) \/ experiments' = experiments
         /\ CommitRun(s) \/ ran' = ran
         /\ overlapped \subseteq overlapped' /\ nextId' \in {nextId, nextId + 1}
<1>1. CASE \/ StartCreate(s) \/ InsertSuite(s) \/ Resolve(s) \/ CommitItem(s) \/ Archive(s)
           \/ Declare(s) \/ SetMode(s)
  BY <1>1 DEF StartCreate, InsertSuite, Resolve, CommitItem, Archive, Declare, SetMode,
     rows, files, history
<1>2. CASE \/ StartPreprocessing(s) \/ Parse(s) \/ NextPart(s) \/ RenderFails(s)
           \/ LookForFile(s) \/ OpenFile(s) \/ CloseFile(s) \/ SaveRow(s) \/ CommitRecord(s)
  BY <1>2 DEF StartPreprocessing, Parse, NextPart, RenderFails, LookForFile, OpenFile,
     CloseFile, SaveRow, CommitRecord, rows, files, history
<1>3. CASE \/ StartDraft(s) \/ StartEdit(s) \/ StartRun(s) \/ LookForExperiment(s)
           \/ ReadInput(s) \/ DeriveInput(s) \/ ReadRuns(s)
           \/ InsertExperiment(s) \/ Execute(s) \/ Die(s)
  BY <1>3 DEF StartDraft, StartEdit, StartRun, LookForExperiment, ReadInput, DeriveInput,
     ReadRuns, InsertExperiment, Execute, Die, rows, files, history
<1>4. CASE CommitDraft(s) \/ CommitEdit(s)
  BY <1>4 DEF CommitDraft, CommitEdit, history
<1>5. CASE CommitRun(s)
  BY <1>5 DEF CommitRun
<1>. QED
  BY <1>1, <1>2, <1>3, <1>4, <1>5 DEF Step

\* What those that read put into their view.
Creates(s) ==
  /\ StartCreate(s) /\ Request(s).op = "create" /\ pc'[s] \in {"insert", "resolve"}
  /\ view'[s].version \in NextVersion(Request(s)) /\ view'[s].refs = Request(s).members
  /\ view'[s].pins = {} /\ view'[s].manifest = {} /\ view'[s].read = {}

Preprocesses(s) ==
  /\ StartPreprocessing(s) /\ Request(s).op = "preprocess" /\ pc'[s] \in {"parse", "fail"}
  /\ view'[s].manifest = {} /\ view'[s].read = {}

Pinned(s, ref, r) ==
  /\ Resolve(s) /\ ref \in view[s].refs /\ r \in Found(ref)
  /\ pc[s] = "resolve" /\ pc'[s] = "resolve"
  /\ view'[s].refs = view[s].refs \ {ref} /\ view'[s].pins = view[s].pins \cup {ItemKey(r)}
  /\ view'[s].manifest = view[s].manifest /\ view'[s].read = view[s].read
  /\ view'[s].version = view[s].version

\* The manifest that a session takes up.
Named(s, m) ==
  IF Request(s).op = "run_suite"
  THEN \E x \in BySlug(OfKind("suite"), Request(s).slug, Newest) :
         m = SuiteManifest(x, Request(s).split)
  ELSE m = Request(s).manifest

TakesUp(s, m) ==
  /\ Request(s).op \in {"draft", "edit", "run_suite", "run_manifest"}
  /\ StartDraft(s) \/ StartEdit(s) \/ StartRun(s)
  /\ Valid(m) /\ Named(s, m) /\ pc'[s] \in {"resolve", "lookup"}
  /\ view'[s].manifest = {m} /\ view'[s].refs = m.cases \cup m.models
  /\ view'[s].pins = {} /\ view'[s].read \subseteq RowsOf(m.id)

\* What was pinned stays, and rows are read or made.
Loads(s, m, R) ==
  /\ m \in view[s].manifest /\ pc[s] # "idle" /\ pc'[s] \in {"execute", "write", "running"}
  /\ pc'[s] = "write" => view[s].refs = {} /\ Request(s).op = "edit"
  /\ view'[s].manifest = view[s].manifest /\ view'[s].refs = view[s].refs
  /\ view'[s].pins = view[s].pins /\ view'[s].version = view[s].version
  /\ view'[s].read = R

\* The rows that were read, with the runs of e.
WithRuns(s, e) == {[x EXCEPT !.runs = e.runs] : x \in view[s].read}

Reloads(s, m) == \E e \in RowsOf(m.id) : pc'[s] = "write" /\ Loads(s, m, WithRuns(s, e))

Inserted(s, m) ==
  /\ InsertExperiment(s) /\ view[s].refs = {} /\ nextId' = nextId + 1 /\ todo' = todo
  /\ Loads(s, m, {NewExperiment(s, m, "running")})

LEMMA ReadsAre ==
  ASSUME Shape, NEW s \in Sessions, Reads(s), ~Ends(s), ~Stays(s)
  PROVE  /\ todo' = todo
         /\ \/ Creates(s) \/ Preprocesses(s)
            \/ \E ref, r : Pinned(s, ref, r)
            \/ \E m : TakesUp(s, m)
            \/ \E m : pc'[s] = "execute" /\ Loads(s, m, RowsOf(m.id))
            \/ \E m : Reloads(s, m)
            \/ \E m : Inserted(s, m)
<1>0. DOMAIN view[s] = Fields
  BY DEF Shape
<1>a. ~End(s)
  BY EndView DEF Ends
<1>1. CASE StartCreate(s)
  <2>. PICK n \in NextVersion(Request(s)) :
         Goto(s, IF Request(s).kind = "suite" THEN "insert" ELSE "resolve",
              [NoView EXCEPT !.version = n, !.refs = Request(s).members])
    BY <1>a, <1>1 DEF StartCreate
  <2>1. view'[s] = [NoView EXCEPT !.version = n, !.refs = Request(s).members]
    BY GotoView
  <2>2. /\ view'[s].version = n /\ view'[s].refs = Request(s).members /\ view'[s].pins = {}
        /\ view'[s].manifest = {} /\ view'[s].read = {}
    BY <2>1 DEF NoView
  <2>3. pc'[s] \in {"insert", "resolve"} /\ todo' = todo
    BY GotoView
  <2>4. Request(s).op = "create"
    BY <1>1 DEF StartCreate, At
  <2>. QED
    BY <1>1, <2>2, <2>3, <2>4 DEF Creates
<1>2. CASE StartPreprocessing(s)
  <2>. PICK a : Goto(s, IF a.file \in whole \cup partial THEN "parse" ELSE "fail",
                     [NoView EXCEPT !.row = {a}, !.record = nextId])
    BY <1>a, <1>2 DEF StartPreprocessing
  <2>. DEFINE l == IF a.file \in whole \cup partial THEN "parse" ELSE "fail"
  <2>1. view'[s] = [NoView EXCEPT !.row = {a}, !.record = nextId] /\ pc'[s] = l /\ todo' = todo
    BY GotoView
  <2>2. view'[s].manifest = {} /\ view'[s].read = {}
    BY <2>1 DEF NoView
  <2>3. Request(s).op = "preprocess"
    BY <1>2 DEF StartPreprocessing, At
  <2>. QED
    BY <1>2, <2>1, <2>2, <2>3 DEF Preprocesses
<1>3. CASE Resolve(s)
  <2>. PICK ref \in view[s].refs : \E r \in Found(ref) :
         Goto(s, "resolve", [view[s] EXCEPT !.refs = @ \ {ref}, !.pins = @ \cup {ItemKey(r)}])
    BY <1>a, <1>3 DEF Resolve
  <2>. PICK r \in Found(ref) :
         Goto(s, "resolve", [view[s] EXCEPT !.refs = @ \ {ref}, !.pins = @ \cup {ItemKey(r)}])
    OBVIOUS
  <2>1. /\ view'[s] = [view[s] EXCEPT !.refs = @ \ {ref}, !.pins = @ \cup {ItemKey(r)}]
        /\ pc'[s] = "resolve" /\ todo' = todo /\ pc[s] = "resolve"
    BY <1>3, GotoView DEF Resolve
  <2>2. /\ view'[s].refs = view[s].refs \ {ref}
        /\ view'[s].pins = view[s].pins \cup {ItemKey(r)}
        /\ view'[s].manifest = view[s].manifest /\ view'[s].read = view[s].read
        /\ view'[s].version = view[s].version
    BY <1>0, <2>1 DEF Fields
  <2>. QED
    BY <1>3, <2>1, <2>2 DEF Pinned
<1>4. CASE StartDraft(s) \/ StartEdit(s) \/ StartRun(s)
  <2>0. pc[s] = "idle" /\ view[s] = NoView
    BY <1>4 DEF StartDraft, StartEdit, StartRun, At, Shape
  <2>1. \E m, l, v :
          /\ l \in {"resolve", "lookup"} /\ Valid(m) /\ Goto(s, l, v)
          /\ Request(s).op \in {"draft", "edit", "run_suite", "run_manifest"}
          /\ Named(s, m)
          /\ v = Snapshots(s, m) \/ v = [Snapshots(s, m) EXCEPT !.read = RowsOf(m.id)]
    <3>1. CASE StartDraft(s)
      BY <1>a, <3>1 DEF StartDraft, At, Named
    <3>2. CASE StartEdit(s)
      BY <1>a, <3>2 DEF StartEdit, At, Editable, Named
    <3>3. CASE StartRun(s)
      <4>1. Request(s).op \in {"run_suite", "run_manifest"}
        BY <3>3 DEF StartRun, At
      <4>. PICK m : Valid(m) /\ Named(s, m) /\ Goto(s, "lookup", Snapshots(s, m))
        BY <1>a, <3>3, <4>1 DEF StartRun, Named
      <4>. QED
        BY <4>1
    <3>. QED
      BY <1>4, <3>1, <3>2, <3>3
  <2>. PICK m, l, v :
          /\ l \in {"resolve", "lookup"} /\ Valid(m) /\ Goto(s, l, v)
          /\ Request(s).op \in {"draft", "edit", "run_suite", "run_manifest"}
          /\ Named(s, m)
          /\ v = Snapshots(s, m) \/ v = [Snapshots(s, m) EXCEPT !.read = RowsOf(m.id)]
    BY <2>1
  <2>2. view'[s] = v /\ pc'[s] = l /\ todo' = todo
    BY GotoView
  <2>3. /\ v.manifest = {m} /\ v.refs = m.cases \cup m.models
        /\ v.pins = {} /\ v.read \subseteq RowsOf(m.id)
    <3>1. CASE v = Snapshots(s, m)
      BY <2>0, <3>1 DEF Snapshots, NoView
    <3>2. CASE v = [Snapshots(s, m) EXCEPT !.read = RowsOf(m.id)]
      BY <2>0, <3>2 DEF Snapshots, NoView
    <3>. QED
      BY <3>1, <3>2
  <2>. QED
    BY <1>4, <2>1, <2>2, <2>3 DEF TakesUp
<1>5. CASE LookForExperiment(s)
  <2>0. pc[s] # "idle" /\ ~Goto(s, "resolve", view[s])
    BY <1>5, GotoView DEF LookForExperiment, Stays
  <2>. PICK m \in view[s].manifest : Goto(s, "execute", [view[s] EXCEPT !.read = RowsOf(m.id)])
    BY <1>a, <1>5, <2>0 DEF LookForExperiment
  <2>1. /\ view'[s] = [view[s] EXCEPT !.read = RowsOf(m.id)]
        /\ pc'[s] = "execute" /\ todo' = todo
    BY GotoView
  <2>2. /\ view'[s].manifest = view[s].manifest /\ view'[s].refs = view[s].refs
        /\ view'[s].pins = view[s].pins /\ view'[s].version = view[s].version
        /\ view'[s].read = RowsOf(m.id)
    BY <1>0, <2>1 DEF Fields
  <2>3. Loads(s, m, RowsOf(m.id))
    BY <2>0, <2>1, <2>2 DEF Loads
  <2>. QED
    BY <2>1, <2>3
<1>6. CASE ReadRuns(s)
  <2>0. pc[s] # "idle" /\ view[s].refs = {} /\ Request(s).op = "edit"
    BY <1>6 DEF ReadRuns, Ready
  <2>. PICK m \in view[s].manifest : \E e \in RowsOf(m.id) :
         Goto(s, "write", [view[s] EXCEPT !.read = {[x EXCEPT !.runs = e.runs] : x \in @}])
    BY <1>6, Zenon DEF ReadRuns
  <2>. PICK e \in RowsOf(m.id) :
         Goto(s, "write", [view[s] EXCEPT !.read = {[x EXCEPT !.runs = e.runs] : x \in @}])
    OBVIOUS
  <2>1. /\ view'[s] = [view[s] EXCEPT !.read = {[x EXCEPT !.runs = e.runs] : x \in @}]
        /\ pc'[s] = "write" /\ todo' = todo
    BY GotoView
  <2>2. /\ view'[s].manifest = view[s].manifest /\ view'[s].refs = view[s].refs
        /\ view'[s].pins = view[s].pins /\ view'[s].version = view[s].version
        /\ view'[s].read = WithRuns(s, e)
    BY <1>0, <2>1 DEF Fields, WithRuns
  <2>3. Loads(s, m, WithRuns(s, e))
    BY <2>0, <2>1, <2>2 DEF Loads
  <2>. QED
    BY <2>1, <2>3 DEF Reloads
<1>7. CASE InsertExperiment(s)
  <2>. PICK m \in view[s].manifest :
         /\ nextId' = nextId + 1
         /\ Goto(s, "running", [view[s] EXCEPT !.read = {NewExperiment(s, m, "running")}])
    BY <1>a, <1>7 DEF InsertExperiment
  <2>. DEFINE e == NewExperiment(s, m, "running")
  <2>1. view'[s] = [view[s] EXCEPT !.read = {e}] /\ pc'[s] = "running" /\ todo' = todo
    BY GotoView
  <2>. HIDE DEF e
  <2>2. /\ view'[s].manifest = view[s].manifest /\ view'[s].refs = view[s].refs
        /\ view'[s].pins = view[s].pins /\ view'[s].version = view[s].version
        /\ view'[s].read = {e}
    BY <1>0, <2>1 DEF Fields
  <2>3. view[s].refs = {} /\ pc[s] # "idle"
    BY <1>7 DEF InsertExperiment, Ready
  <2>4. Loads(s, m, {e})
    BY <2>1, <2>2, <2>3 DEF Loads
  <2>5. Inserted(s, m)
    BY <1>7, <2>1, <2>3, <2>4 DEF Inserted, e
  <2>. QED
    BY <2>1, <2>5
<1>. QED
  BY <1>1, <1>2, <1>3, <1>4, <1>5, <1>6, <1>7 DEF Reads
-----------------------------------------------------------------------------
\* Versions count from one, and suites have the members their clients may name.
ItemOK(r) == r.version \in Nat \ {0} /\ r.archived \in BOOLEAN /\ KeepsKinds(r.kind, r.pins)

CreateOK(s) ==
  pc[s] # "idle" /\ Request(s).op = "create" =>
    /\ view[s].version \in Nat \ {0}
    /\ KeepsKinds(Request(s).kind, view[s].refs \cup view[s].pins)

VersionInv == (\A r \in items : ItemOK(r)) /\ \A s \in Sessions : CreateOK(s)

LEMMA FoundIs ==
  ASSUME NEW ref, NEW r \in Found(ref)
  PROVE  /\ r \in items /\ r.kind = ref[1] /\ r.slug = ref[2]
         /\ ref[3] # Newest => r.version = ref[3]
         /\ ItemKey(r) = <<ref[1], ref[2], r.version>>
BY DEF Found, BySlug, OfKind, ItemKey, Newest

LEMMA VersionsStep ==
  ASSUME Shape, PinsInv, VersionInv, NEW s \in Sessions, Moves(s), Step(s)
  PROVE  VersionInv'
<1>1. ASSUME NEW t \in Sessions \ {s} PROVE CreateOK(t)'
  <2>1. pc'[t] = pc[t] /\ view'[t] = view[t] /\ todo'[t] = todo[t] /\ CreateOK(t)
    BY DEF Moves, VersionInv
  <2>. QED
    BY <2>1 DEF CreateOK, Request
<1>2. \A r \in items' : ItemOK(r)
  <2>1. CASE CommitItem(s)
    <3>. DEFINE new == [kind |-> Request(s).kind, slug |-> Request(s).slug,
                        version |-> view[s].version, split |-> Request(s).split,
                        pins |-> view[s].pins, archived |-> Request(s).archived]
    <3>1. items' \subseteq items \cup {new}
      BY <2>1 DEF CommitItem
    <3>2. CreateOK(s) /\ pc[s] = "resolve" /\ Request(s).op = "create"
      BY <2>1 DEF CommitItem, At, VersionInv
    <3>3. Request(s).archived \in BOOLEAN
      <4>1. Request(s) \in Requests
        BY <2>1, RequestIs DEF CommitItem, At, Shape, Request
      <4>. QED
        BY <3>2, <4>1, LibraryAssumption
    <3>4. ItemOK(new)
      BY <3>2, <3>3 DEF ItemOK, CreateOK, KeepsKinds
    <3>. HIDE DEF new
    <3>. QED
      BY <3>1, <3>4 DEF VersionInv
  <2>2. CASE Archive(s)
    <3>. DEFINE A(r) == IF ItemKey(r) = Request(s).key THEN [r EXCEPT !.archived = TRUE] ELSE r
    <3>1. items' = {A(r) : r \in items}
      BY <2>2 DEF Archive
    <3>2. ASSUME NEW r \in items PROVE ItemOK(A(r))
      <4>1. DOMAIN r = ItemColumns /\ ItemOK(r)
        BY PinsFacts DEF VersionInv
      <4>2. /\ A(r).version = r.version /\ A(r).kind = r.kind /\ A(r).pins = r.pins
            /\ A(r).archived \in BOOLEAN
        BY <4>1 DEF ItemColumns, ItemOK
      <4>. HIDE DEF A
      <4>. QED
        BY <4>1, <4>2 DEF ItemOK
    <3>. HIDE DEF A
    <3>. QED
      BY <3>1, <3>2
  <2>3. CASE items' = items
    BY <2>3 DEF VersionInv
  <2>. QED
    BY <2>1, <2>2, <2>3, TablesAre
<1>3. CreateOK(s)'
  <2>1. CASE Ends(s)
    BY <2>1 DEF Ends, CreateOK
  <2>2. CASE Stays(s)
    <3>1. Request(s)' = Request(s) /\ CreateOK(s)
      BY <2>2 DEF Stays, Request, VersionInv
    <3>. QED
      BY <2>2, <3>1 DEF Stays, CreateOK
  <2>3. CASE Creates(s) /\ todo' = todo
    <3>1. Request(s)' = Request(s) /\ Request(s) \in Requests
      BY <2>3, RequestIs DEF Request, StartCreate, At, Shape, Creates
    <3>2. /\ Request(s).version \in Nat /\ KeepsKinds(Request(s).kind, Request(s).members)
      BY <2>3, <3>1, LibraryAssumption DEF Creates
    <3>3. view'[s].version \in Nat \ {0}
      BY <2>3, <3>2 DEF Creates, NextVersion, Newest, BySlug, OfKind, VersionInv, ItemOK
    <3>. QED
      BY <2>3, <3>1, <3>2, <3>3 DEF Creates, CreateOK
  <2>4. ASSUME NEW ref, NEW r, Pinned(s, ref, r), todo' = todo PROVE CreateOK(s)'
    <3>1. Request(s)' = Request(s) /\ CreateOK(s)
      BY <2>4 DEF Request, VersionInv
    <3>2. ItemKey(r)[1] = ref[1]
      BY <2>4, FoundIs DEF Pinned
    <3>. QED
      BY <2>4, <3>1, <3>2 DEF CreateOK, KeepsKinds, Pinned
  <2>5. CASE Request(s).op # "create" /\ todo' = todo
    BY <2>5 DEF CreateOK, Request
  <2>6. ASSUME NEW m, NEW R, Loads(s, m, R), todo' = todo PROVE CreateOK(s)'
    <3>1. Request(s)' = Request(s) /\ CreateOK(s)
      BY <2>6 DEF Request, VersionInv
    <3>. QED
      BY <2>6, <3>1 DEF CreateOK, Loads
  <2>7. Preprocesses(s) \/ (\E m : TakesUp(s, m)) => Request(s).op # "create"
    BY DEF Preprocesses, TakesUp
  <2>. QED
    BY <2>1, <2>2, <2>3, <2>4, <2>5, <2>6, <2>7, StepIs, ReadsAre DEF Inserted, Reloads
<1>. QED
  BY <1>1, <1>2, <1>3 DEF VersionInv

LEMMA InitVersions == Init => VersionInv
<1>. SUFFICES ASSUME Init PROVE VersionInv
  OBVIOUS
<1>1. \A r \in items : ItemOK(r)
  BY LibraryAssumption DEF Init, ItemOK
<1>2. \A s \in Sessions : pc[s] = "idle"
  BY DEF Init
<1>. QED
  BY <1>1, <1>2 DEF VersionInv, CreateOK
-----------------------------------------------------------------------------
\* The rows of experiments that a step writes.
Drafted(s, e, m) ==
  /\ m \in view[s].manifest /\ view[s].refs = {} /\ nextId' = nextId + 1
  /\ pc[s] # "idle" /\ Request(s).op = "draft" /\ e = NewExperiment(s, m, "draft")

Edited(s, e, m, old, kept) ==
  /\ m \in view[s].manifest /\ old \in experiments /\ old.id = m.id /\ nextId' = nextId + 1
  /\ pc[s] = "write" /\ e.id = m.id /\ e.status = old.status
  /\ kept \subseteq old.runs /\ e.runs = kept \cup NewRuns(s, m)
  /\ m.id \notin overlapped' => kept = {} /\ e.manifest = m /\ e.local_only = m.local_only

Ran(s, e, old, read) ==
  /\ read \in view[s].read /\ (old = read \/ old \in RowsOf(read.id))
  /\ pc[s] = "running"
  /\ e.id = old.id /\ e.manifest = old.manifest /\ e.runs = old.runs
  /\ e.local_only = Restored(s, old, read) /\ e.status = "complete"
  /\ old.manifest = read.manifest \/ read.id \in overlapped'
  /\ IF Request(s).op = "run_suite"
     THEN ran' = ran \cup {[id |-> read.id, pins |-> PinsOfRuns(old.runs)]}
     ELSE ran' = ran

LEMMA RunIs ==
  ASSUME Shape, PinsInv, NEW s \in Sessions, CommitRun(s)
  PROVE  \E e, old, read : Ran(s, e, old, read) /\ experiments' = (experiments \ {old}) \cup {e}
<1>. PICK read \in view[s].read :
       LET e == IF RowsOf(read.id) = {} THEN read ELSE CHOOSE x \in RowsOf(read.id) : TRUE
       IN  /\ experiments' = (experiments \ {e}) \cup
                {[e EXCEPT !.local_only = Restored(s, e, read), !.status = "complete"]}
           /\ overlapped' = IF e.manifest = read.manifest THEN overlapped
                            ELSE overlapped \cup {read.id}
           /\ ran' = IF Request(s).op # "run_suite" THEN ran
                     ELSE ran \cup {[id |-> read.id, pins |-> PinsOfRuns(e.runs)]}
  BY DEF CommitRun
<1>. DEFINE old == IF RowsOf(read.id) = {} THEN read ELSE CHOOSE x \in RowsOf(read.id) : TRUE
            e == [old EXCEPT !.local_only = Restored(s, old, read), !.status = "complete"]
<1>1. old = read \/ old \in RowsOf(read.id)
  OBVIOUS
<1>2. /\ experiments' = (experiments \ {old}) \cup {e}
      /\ overlapped' = IF old.manifest = read.manifest THEN overlapped
                       ELSE overlapped \cup {read.id}
      /\ ran' = IF Request(s).op # "run_suite" THEN ran
                ELSE ran \cup {[id |-> read.id, pins |-> PinsOfRuns(old.runs)]}
  OBVIOUS
<1>. HIDE DEF old
<1>3. DOMAIN old = ExperimentColumns
  BY <1>1, PinsFacts DEF PinsInv, ViewPins, RowsOf
<1>4. /\ e.id = old.id /\ e.manifest = old.manifest /\ e.runs = old.runs
      /\ e.local_only = Restored(s, old, read) /\ e.status = "complete"
  BY <1>3 DEF ExperimentColumns
<1>. HIDE DEF e
<1>5. pc[s] = "running"
  BY DEF CommitRun
<1>6. Ran(s, e, old, read)
  BY <1>1, <1>2, <1>4, <1>5 DEF Ran
<1>. QED
  BY <1>2, <1>6

\* Where the loaded columns are the stored ones, what is flushed is the edit.
LEMMA EditIs ==
  ASSUME Shape, PinsInv, NEW s \in Sessions, CommitEdit(s)
  PROVE  \/ experiments' = experiments
         \/ \E m, old, e : \E read \in view[s].read :
              /\ Edited(s, e, m, old, old.runs \ read.runs)
              /\ experiments' = (experiments \ {old}) \cup {e}
<1>. PICK read \in view[s].read, m \in view[s].manifest, old \in experiments :
       LET new == NewExperiment(s, m, "draft")
       IN  /\ old.id = m.id
           /\ IF Mixed(view[s].inputs) \/ EditConflicts(read, new, old)
              THEN UNCHANGED <<experiments, overlapped>>
              ELSE /\ experiments' = (experiments \ {old}) \cup
                        {[Flushed(read, new, old) EXCEPT
                            !.runs = RunsAfterEdit(s, m, old.runs \ read.runs)]}
                   /\ overlapped' = IF Current(read, old) THEN overlapped
                                    ELSE overlapped \cup {m.id}
  BY Zenon DEF CommitEdit
<1>. SUFFICES ASSUME experiments' # experiments
              PROVE  \E e : /\ Edited(s, e, m, old, old.runs \ read.runs)
                            /\ experiments' = (experiments \ {old}) \cup {e}
  BY Zenon
<1>. DEFINE new == NewExperiment(s, m, "draft")
            kept == old.runs \ read.runs
            e == [Flushed(read, new, old) EXCEPT !.runs = RunsAfterEdit(s, m, kept)]
<1>1. /\ old.id = m.id /\ experiments' = (experiments \ {old}) \cup {e}
      /\ overlapped' = IF Current(read, old) THEN overlapped ELSE overlapped \cup {m.id}
  BY Zenon
<1>2. DOMAIN old = ExperimentColumns /\ new.manifest = m /\ new.local_only = m.local_only
  BY PinsFacts DEF NewExperiment
<1>. HIDE DEF new
<1>3. /\ e.id = old.id /\ e.status = old.status /\ e.runs = kept \cup NewRuns(s, m)
      /\ e.manifest = Column(read.manifest, m, old.manifest)
      /\ e.local_only = Column(read.local_only, m.local_only, old.local_only)
  BY <1>2 DEF ExperimentColumns, Flushed, RunsAfterEdit
<1>. HIDE DEF e
<1>4. ASSUME m.id \notin overlapped'
      PROVE  kept = {} /\ e.manifest = m /\ e.local_only = m.local_only
  <2>1. Current(read, old)
    BY <1>1, <1>4
  <2>. QED
    BY <1>3, <2>1 DEF Current, Column
<1>5. kept \subseteq old.runs
  OBVIOUS
<1>6. pc[s] = "write" /\ nextId' = nextId + 1
  BY DEF CommitEdit
<1>. HIDE DEF kept
<1>7. Edited(s, e, m, old, kept)
  BY <1>1, <1>3, <1>4, <1>5, <1>6 DEF Edited
<1>. QED
  BY <1>1, <1>7 DEF kept

LEMMA WritesAre ==
  ASSUME Shape, PinsInv, NEW s \in Sessions, Step(s), NEW e \in experiments'
  PROVE  \/ e \in experiments
         \/ \E m : Drafted(s, e, m)
         \/ \E m, old, kept : Edited(s, e, m, old, kept)
         \/ \E old, read : Ran(s, e, old, read)
<1>1. CASE CommitDraft(s)
  BY <1>1 DEF CommitDraft, Ready, Drafted
<1>2. CASE CommitEdit(s)
  <2>1. CASE experiments' = experiments
    BY <2>1
  <2>2. ASSUME NEW m, NEW old, NEW x, NEW read, Edited(s, x, m, old, old.runs \ read.runs),
               experiments' = (experiments \ {old}) \cup {x}
        PROVE  e \in experiments \/ \E kept : Edited(s, e, m, old, kept)
    BY <2>2
  <2>. QED
    BY <1>2, <2>1, <2>2, EditIs
<1>3. CASE CommitRun(s)
  BY <1>3, RunIs
<1>. QED
  BY <1>1, <1>2, <1>3, TablesAre
-----------------------------------------------------------------------------
(***************************************************************************)
(* What a manifest names is still to be looked up or pinned under the same *)
(* slug, so that the runs that are made are its expansion.                 *)
(***************************************************************************)
Fits(e, O) ==
  e.id \notin O => /\ {RunOf(r) : r \in e.runs} = Expansion(e.manifest)
                   /\ e.local_only = e.manifest.local_only

Sound(m) ==
  /\ \A x \in m.cases : x[1] = "case"
  /\ \A x \in m.models : x[1] = "model"
  /\ SelectsKnown(m.cases, m.only_cases) /\ SelectsKnown(m.models, m.only_models)

Answered(v, m) ==
  \A x \in m.cases \cup m.models :
    x \in v.refs \/ \E pin \in v.pins : pin[1] = x[1] /\ pin[2] = x[2]

SnapOK(v, l) ==
  /\ \A m \in v.manifest : Sound(m) /\ Answered(v, m)
  /\ l = "write" => v.refs = {}

ManifestInv ==
  /\ \A e \in experiments : Fits(e, overlapped)
  /\ \A s \in Sessions : /\ SnapOK(view[s], pc[s])
                         /\ pc[s] # "write" => \A e \in view[s].read : Fits(e, overlapped)

\* Each selected id was pinned.
LEMMA SelectedArePinned ==
  ASSUME NEW refs, NEW only, NEW kind, NEW s \in Sessions, SelectsKnown(refs, only),
         \A x \in refs : x[1] = kind,
         \A x \in refs : \E pin \in view[s].pins : pin[1] = x[1] /\ pin[2] = x[2]
  PROVE  Ids(PinsOf(s, kind, SelectedIds(refs, only))) = SelectedIds(refs, only)
<1>1. SelectedIds(refs, only) \subseteq Ids(refs)
  BY DEF SelectedIds, SelectsKnown
<1>2. ASSUME NEW i \in SelectedIds(refs, only)
      PROVE  i \in Ids(PinsOf(s, kind, SelectedIds(refs, only)))
  <2>. PICK x \in refs : x[2] = i
    BY <1>1, <1>2 DEF Ids
  <2>. PICK pin \in view[s].pins : pin[1] = x[1] /\ pin[2] = x[2]
    OBVIOUS
  <2>. QED
    BY <1>2 DEF Ids, PinsOf
<1>. QED
  BY <1>2 DEF Ids, PinsOf

LEMMA NewRunsAre ==
  ASSUME NEW s \in Sessions, NEW m, Sound(m), Answered(view[s], m), view[s].refs = {}
  PROVE  {RunOf(r) : r \in NewRuns(s, m)} = Expansion(m)
<1>. DEFINE C == PinsOf(s, "case", SelectedIds(m.cases, m.only_cases))
            D == PinsOf(s, "model", SelectedIds(m.models, m.only_models))
            Row(c, d) == [by |-> nextId, case |-> c, model |-> d, attempts |-> m.replicates]
<1>1. Ids(C) = SelectedIds(m.cases, m.only_cases)
  BY SelectedArePinned DEF Sound, Answered
<1>2. Ids(D) = SelectedIds(m.models, m.only_models)
  BY SelectedArePinned DEF Sound, Answered
<1>3. NewRuns(s, m) = {Row(c, d) : c \in C, d \in D}
  BY DEF NewRuns
<1>4. ASSUME NEW c, NEW d PROVE RunOf(Row(c, d)) = <<c[2], d[2], m.replicates>>
  BY DEF RunOf
<1>5. Expansion(m) = Ids(C) \X Ids(D) \X {m.replicates}
  BY <1>1, <1>2 DEF Expansion
<1>. HIDE DEF C, D, Row
<1>6. {RunOf(r) : r \in NewRuns(s, m)} \subseteq Expansion(m)
  BY <1>3, <1>4, <1>5 DEF Ids
<1>7. ASSUME NEW t \in Expansion(m) PROVE t \in {RunOf(r) : r \in NewRuns(s, m)}
  <2>. PICK c \in C, d \in D : t = <<c[2], d[2], m.replicates>>
    BY <1>5 DEF Ids
  <2>1. Row(c, d) \in NewRuns(s, m) /\ RunOf(Row(c, d)) = t
    BY <1>3, <1>4
  <2>. QED
    BY <2>1
<1>. QED
  BY <1>6, <1>7

LEMMA FitsOn ==
  ASSUME NEW e, NEW O, NEW P, Fits(e, O), O \subseteq P
  PROVE  Fits(e, P)
BY DEF Fits

LEMMA NewFits ==
  ASSUME NEW s \in Sessions, NEW m, NEW status, Sound(m), Answered(view[s], m), view[s].refs = {},
         NEW O
  PROVE  Fits(NewExperiment(s, m, status), O)
<1>. DEFINE e == NewExperiment(s, m, status)
<1>1. e.manifest = m /\ e.runs = NewRuns(s, m) /\ e.local_only = m.local_only
  BY DEF NewExperiment
<1>. HIDE DEF e
<1>. QED
  BY <1>1, NewRunsAre DEF Fits, e

\* A manifest that was taken up is sound: a client's as clients write them, a
\* suite's because its members are selected by their kinds.
LEMMA TakenUpIsSound ==
  ASSUME Shape, NEW s \in Sessions, NEW m, TakesUp(s, m) PROVE Sound(m)
<1>1. SelectsKnown(m.cases, m.only_cases) /\ SelectsKnown(m.models, m.only_models)
  BY DEF TakesUp, Valid
<1>2. CASE Request(s).op = "run_suite"
  <2>. PICK x : m = SuiteManifest(x, Request(s).split)
    BY <1>2 DEF TakesUp, Named
  <2>1. m.cases = OfSuite(x, Request(s).split, "case")
        /\ m.models = OfSuite(x, Request(s).split, "model")
    BY DEF SuiteManifest
  <2>. QED
    BY <1>1, <2>1 DEF Sound, OfSuite
<1>3. CASE Request(s).op # "run_suite"
  <2>1. Request(s) \in Requests
    BY RequestIs DEF TakesUp, StartDraft, StartEdit, StartRun, At, Shape, Request
  <2>2. Written(m)
    BY <1>3, <2>1, LibraryAssumption DEF TakesUp, Named
  <2>. QED
    BY <1>1, <2>2 DEF Written, Sound
<1>. QED
  BY <1>2, <1>3

LEMMA SnapsStep ==
  ASSUME Shape, ManifestInv, NEW s \in Sessions, Moves(s), Step(s)
  PROVE  /\ SnapOK(view'[s], pc'[s])
         /\ pc'[s] # "write" => \A e \in view'[s].read : Fits(e, overlapped')
<1>0. /\ SnapOK(view[s], pc[s]) /\ overlapped \subseteq overlapped'
      /\ \A e \in experiments : Fits(e, overlapped')
      /\ pc[s] # "write" => \A e \in view[s].read : Fits(e, overlapped')
  BY FitsOn, TablesAre DEF ManifestInv
<1>1. CASE Ends(s)
  BY <1>1 DEF Ends, NoView, SnapOK
<1>2. CASE Stays(s)
  BY <1>0, <1>2 DEF Stays, SnapOK, Answered
<1>3. ASSUME Creates(s) \/ Preprocesses(s) PROVE SnapOK(view'[s], pc'[s]) /\ view'[s].read = {}
  BY <1>3 DEF Creates, Preprocesses, SnapOK
<1>4. ASSUME NEW ref, NEW r, Pinned(s, ref, r)
      PROVE  SnapOK(view'[s], pc'[s]) /\ view'[s].read = view[s].read /\ pc[s] # "write"
  <2>1. /\ view'[s].refs = view[s].refs \ {ref}
        /\ view'[s].pins = view[s].pins \cup {ItemKey(r)}
        /\ view'[s].manifest = view[s].manifest /\ view'[s].read = view[s].read
        /\ pc'[s] = "resolve" /\ pc[s] = "resolve"
    BY <1>4 DEF Pinned
  <2>2. ItemKey(r)[1] = ref[1] /\ ItemKey(r)[2] = ref[2]
    BY <1>4, FoundIs DEF Pinned
  <2>3. ASSUME NEW m \in view[s].manifest PROVE Answered(view'[s], m)
    <3>1. Answered(view[s], m)
      BY <1>0 DEF SnapOK
    <3>. QED
      BY <2>1, <2>2, <3>1 DEF Answered
  <2>. QED
    BY <1>0, <2>1, <2>3 DEF SnapOK
<1>5. ASSUME NEW m, TakesUp(s, m)
      PROVE  SnapOK(view'[s], pc'[s]) /\ \A e \in view'[s].read : Fits(e, overlapped')
  <2>1. SnapOK(view'[s], pc'[s])
    BY <1>5, TakenUpIsSound DEF TakesUp, SnapOK, Answered
  <2>. QED
    BY <1>0, <1>5, <2>1 DEF TakesUp, RowsOf
<1>6. ASSUME NEW m, NEW R, Loads(s, m, R) PROVE SnapOK(view'[s], pc'[s]) /\ view'[s].read = R
  BY <1>0, <1>6 DEF Loads, SnapOK, Answered
<1>7. ASSUME NEW m, Inserted(s, m)
      PROVE  SnapOK(view'[s], pc'[s]) /\ \A e \in view'[s].read : Fits(e, overlapped')
  <2>1. Loads(s, m, {NewExperiment(s, m, "running")})
    BY <1>7 DEF Inserted
  <2>2. Fits(NewExperiment(s, m, "running"), overlapped')
    BY <1>0, <1>7, <2>1, NewFits DEF Inserted, Loads, SnapOK
  <2>. QED
    BY <1>6, <2>1, <2>2
<1>8. ASSUME NEW m, Loads(s, m, RowsOf(m.id))
      PROVE  SnapOK(view'[s], pc'[s]) /\ \A e \in view'[s].read : Fits(e, overlapped')
  <2>1. \A e \in RowsOf(m.id) : Fits(e, overlapped')
    BY <1>0 DEF RowsOf
  <2>. QED
    BY <1>6, <1>8, <2>1
<1>9. CASE ~Ends(s) /\ ~Stays(s)
  <2>1. \/ Creates(s) \/ Preprocesses(s)
        \/ \E ref, r : Pinned(s, ref, r)
        \/ \E m : TakesUp(s, m)
        \/ \E m : Loads(s, m, RowsOf(m.id))
        \/ \E m : Reloads(s, m)
        \/ \E m : Inserted(s, m)
    BY <1>9, StepIs, ReadsAre
  <2>2. ASSUME NEW m, Reloads(s, m) PROVE SnapOK(view'[s], pc'[s]) /\ pc'[s] = "write"
    BY <1>6, <2>2 DEF Reloads
  <2>. QED
    BY <1>0, <1>3, <1>4, <1>5, <1>7, <1>8, <2>1, <2>2
<1>. QED
  BY <1>0, <1>1, <1>2, <1>9 DEF Ends, Stays, NoView

LEMMA WrittenFits ==
  ASSUME Shape, PinsInv, ManifestInv, NEW s \in Sessions, Step(s), NEW e \in experiments'
  PROVE  Fits(e, overlapped')
<1>0. overlapped \subseteq overlapped'
  BY TablesAre
<1>1. CASE e \in experiments
  BY <1>0, <1>1, FitsOn DEF ManifestInv
<1>2. ASSUME NEW m, Drafted(s, e, m) PROVE Fits(e, overlapped')
  BY <1>2, NewFits DEF Drafted, ManifestInv, SnapOK
<1>3. ASSUME NEW m, NEW old, NEW kept, Edited(s, e, m, old, kept) PROVE Fits(e, overlapped')
  <2>1. Sound(m) /\ Answered(view[s], m) /\ view[s].refs = {}
    BY <1>3 DEF Edited, ManifestInv, SnapOK
  <2>2. {RunOf(r) : r \in NewRuns(s, m)} = Expansion(m)
    BY <2>1, NewRunsAre
  <2>3. /\ e.id = m.id /\ e.runs = kept \cup NewRuns(s, m)
        /\ m.id \notin overlapped' =>
             kept = {} /\ e.manifest = m /\ e.local_only = m.local_only
    BY <1>3 DEF Edited
  <2>. QED
    BY <2>2, <2>3 DEF Fits
<1>4. ASSUME NEW old, NEW read, Ran(s, e, old, read) PROVE Fits(e, overlapped')
  <2>1. Fits(old, overlapped') /\ Fits(read, overlapped') /\ old.id = read.id
    BY <1>0, <1>4, FitsOn DEF Ran, ManifestInv, RowsOf
  <2>2. /\ e.id = old.id /\ e.manifest = old.manifest /\ e.runs = old.runs
        /\ e.local_only \in {old.local_only, read.local_only}
        /\ old.manifest = read.manifest \/ read.id \in overlapped'
    BY <1>4 DEF Ran, Restored
  <2>. QED
    BY <2>1, <2>2 DEF Fits
<1>. QED
  BY <1>1, <1>2, <1>3, <1>4, WritesAre

LEMMA ManifestsStep ==
  ASSUME Shape, PinsInv, ManifestInv, NEW s \in Sessions, Moves(s), Step(s)
  PROVE  ManifestInv'
<1>1. ASSUME NEW t \in Sessions \ {s}
      PROVE  /\ SnapOK(view'[t], pc'[t])
             /\ pc'[t] # "write" => \A e \in view'[t].read : Fits(e, overlapped')
  <2>1. view'[t] = view[t] /\ pc'[t] = pc[t] /\ overlapped \subseteq overlapped'
    BY TablesAre DEF Moves
  <2>. QED
    BY <2>1, FitsOn DEF ManifestInv
<1>. QED
  BY <1>1, SnapsStep, WrittenFits DEF ManifestInv

LEMMA InitManifests == Init => ManifestInv
<1>. SUFFICES ASSUME Init PROVE ManifestInv
  OBVIOUS
<1>1. \A e \in experiments : Fits(e, overlapped)
  BY LibraryAssumption DEF Init, Fits
<1>2. \A s \in Sessions : view[s] = NoView /\ pc[s] = "idle"
  BY DEF Init
<1>. QED
  BY <1>1, <1>2 DEF ManifestInv, SnapOK, NoView
-----------------------------------------------------------------------------
(***************************************************************************)
(* A suite's run names the members that are in the split, in the versions  *)
(* that are pinned; whatever is committed later, they stay the members.    *)
(***************************************************************************)
RunsMembers(id, pins) ==
  \E suite \in OfKind("suite") :
    /\ suite.slug = id[1] /\ suite.version = id[2]
    /\ pins = {pin \in suite.pins : Included(pin, id[3])}

SuiteRow(e) == Len(e.id) = 3 => RunsMembers(e.id, PinsOfRuns(e.runs))

NamesMembers(m, v) ==
  /\ Len(m.id) = 3 /\ RunsMembers(m.id, m.cases \cup m.models)
  /\ m.only_cases = {} /\ m.only_models = {} /\ m.cases # {} /\ m.models # {}
  /\ v.refs \cup v.pins = m.cases \cup m.models

RunOK(s) ==
  pc[s] # "idle" =>
    /\ pc[s] = "write" => Request(s).op = "edit"
    /\ \A m \in view[s].manifest :
         IF Request(s).op = "run_suite" THEN NamesMembers(m, view[s]) ELSE Len(m.id) = 1
    /\ \A e \in view[s].read :
         SuiteRow(e) /\ Len(e.id) = IF Request(s).op = "run_suite" THEN 3 ELSE 1

SuiteInv ==
  /\ \A e \in experiments : SuiteRow(e)
  /\ \A s \in Sessions : RunOK(s)
  /\ \A entry \in ran : RunsMembers(entry.id, entry.pins)

\* Rows keep what they are told apart by, their split and their members.
LEMMA ItemsStay ==
  ASSUME Shape, PinsInv, NEW s \in Sessions, Step(s), NEW r \in items
  PROVE  \E x \in items' :
           /\ ItemKey(x) = ItemKey(r) /\ x.split = r.split /\ x.pins = r.pins
           /\ r.kind = "case" => x.archived = r.archived
<1>1. CASE Archive(s)
  <2>. DEFINE A(x) == IF ItemKey(x) = Request(s).key THEN [x EXCEPT !.archived = TRUE] ELSE x
  <2>1. items' = {A(x) : x \in items}
    BY <1>1 DEF Archive
  <2>2. DOMAIN r = ItemColumns
    BY PinsFacts
  <2>3. ItemKey(A(r)) = ItemKey(r) /\ A(r).split = r.split /\ A(r).pins = r.pins
    BY <2>2 DEF ItemColumns, ItemKey
  <2>4. Request(s).key[1] \in {"judge", "suite"}
    <3>1. Request(s) \in Requests /\ Request(s).op = "archive"
      BY <1>1, RequestIs DEF Archive, At, Shape, Request
    <3>. QED
      BY <3>1, LibraryAssumption
  <2>5. ASSUME r.kind = "case" PROVE A(r).archived = r.archived
    <3>1. ItemKey(r)[1] = "case"
      BY <2>5 DEF ItemKey
    <3>. QED
      BY <2>4, <3>1
  <2>. HIDE DEF A
  <2>. QED
    BY <2>1, <2>3, <2>5
<1>2. CASE r \in items'
  BY <1>2
<1>3. CASE CommitItem(s)
  BY <1>3 DEF CommitItem
<1>. QED
  BY <1>1, <1>2, <1>3, TablesAre

LEMMA IncludedStays ==
  ASSUME Shape, PinsInv, PinsInv', NEW s \in Sessions, Step(s), NEW pin \in Keys, NEW split
  PROVE  Included(pin, split)' <=> Included(pin, split)
<1>. PICK r \in items : ItemKey(r) = pin
  BY DEF Keys
<1>. PICK x \in items' :
       ItemKey(x) = pin /\ x.split = r.split /\ (r.kind = "case" => x.archived = r.archived)
  BY ItemsStay
<1>1. \A y \in items : ItemKey(y) = pin => y = r
  BY PinsFacts
<1>2. \A y \in items' : ItemKey(y) = pin => y = x
  BY DEF PinsInv, PinsResolve, ItemKey
<1>3. Included(pin, split) <=>
        (pin[1] = "case" => ~r.archived /\ r.split # "archived" /\ split \in {"all", r.split})
  BY <1>1 DEF Included
<1>4. Included(pin, split)' <=>
        (pin[1] = "case" => ~x.archived /\ x.split # "archived" /\ split \in {"all", x.split})
  BY <1>2 DEF Included, ItemKey
<1>5. pin[1] = r.kind
  BY DEF ItemKey
<1>. QED
  BY <1>3, <1>4, <1>5

LEMMA MembersStay ==
  ASSUME Shape, PinsInv, PinsInv', NEW s \in Sessions, Step(s), NEW id, NEW pins,
         RunsMembers(id, pins)
  PROVE  RunsMembers(id, pins)'
<1>. PICK suite \in OfKind("suite") :
       /\ suite.slug = id[1] /\ suite.version = id[2]
       /\ pins = {pin \in suite.pins : Included(pin, id[3])}
  BY DEF RunsMembers
<1>1. suite \in items /\ suite.kind = "suite" /\ suite.pins \subseteq Keys
  BY PinsFacts DEF OfKind
<1>. PICK x \in items' : ItemKey(x) = ItemKey(suite) /\ x.pins = suite.pins
  BY <1>1, ItemsStay
<1>2. x.kind = "suite" /\ x.slug = id[1] /\ x.version = id[2]
  BY <1>1 DEF ItemKey
<1>3. \A pin \in suite.pins : Included(pin, id[3])' <=> Included(pin, id[3])
  BY <1>1, IncludedStays
<1>4. x \in OfKind("suite")'
  BY <1>2 DEF OfKind
<1>5. pins = {pin \in x.pins : Included(pin, id[3])'}
  BY <1>3
<1>. QED
  BY <1>2, <1>4, <1>5 DEF RunsMembers

LEMMA SuiteRowStays ==
  ASSUME Shape, PinsInv, PinsInv', NEW s \in Sessions, Step(s), NEW e, SuiteRow(e)
  PROVE  SuiteRow(e)'
BY MembersStay DEF SuiteRow

\* What a suite that is run names, when it is taken up.
LEMMA SuiteIsTakenUp ==
  ASSUME Shape, PinsInv, VersionInv, NEW s \in Sessions, NEW m, TakesUp(s, m),
         Request(s).op = "run_suite"
  PROVE  NamesMembers(m, view'[s])
<1>. PICK x \in BySlug(OfKind("suite"), Request(s).slug, Newest) :
       m = SuiteManifest(x, Request(s).split)
  BY DEF TakesUp, Named
<1>. DEFINE split == Request(s).split
<1>1. x \in OfKind("suite") /\ x \in items /\ x.kind = "suite"
  BY DEF BySlug, OfKind
<1>2. /\ m.id = <<x.slug, x.version, split>>
      /\ m.cases = OfSuite(x, split, "case") /\ m.models = OfSuite(x, split, "model")
      /\ m.only_cases = {} /\ m.only_models = {}
  BY DEF SuiteManifest
<1>3. m.cases # {} /\ m.models # {} /\ view'[s].refs \cup view'[s].pins = m.cases \cup m.models
  BY DEF TakesUp, Valid
<1>4. \A pin \in x.pins : pin[1] \in {"case", "model"}
  BY <1>1 DEF VersionInv, ItemOK, KeepsKinds
<1>5. m.cases \cup m.models = {pin \in x.pins : Included(pin, split)}
  BY <1>2, <1>4 DEF OfSuite
<1>6. Len(m.id) = 3 /\ m.id[1] = x.slug /\ m.id[2] = x.version /\ m.id[3] = split
  BY <1>2
<1>7. RunsMembers(m.id, m.cases \cup m.models)
  BY <1>1, <1>5, <1>6 DEF RunsMembers
<1>. QED
  BY <1>2, <1>3, <1>6, <1>7 DEF NamesMembers

\* A member is named by its version, so that the row found is the member.
LEMMA MemberIsPinned ==
  ASSUME Shape, PinsInv, VersionInv, NEW s \in Sessions, NEW m, NamesMembers(m, view[s]),
         NEW ref \in view[s].refs, NEW r \in Found(ref)
  PROVE  ItemKey(r) = ref
<1>1. ref \in Keys
  <2>. PICK suite \in items : m.cases \cup m.models \subseteq suite.pins
    BY DEF NamesMembers, RunsMembers, OfKind
  <2>. QED
    BY PinsFacts DEF NamesMembers
<1>. PICK x \in items : ItemKey(x) = ref
  BY <1>1 DEF Keys
<1>2. ref = <<x.kind, x.slug, x.version>> /\ x.version # Newest
  BY DEF ItemKey, VersionInv, ItemOK, Newest
<1>. QED
  BY <1>2, FoundIs

LEMMA NewRunsOfMembers ==
  ASSUME NEW s \in Sessions, NEW m, NamesMembers(m, view[s]), Sound(m), view[s].refs = {}
  PROVE  PinsOfRuns(NewRuns(s, m)) = m.cases \cup m.models
<1>. DEFINE C == PinsOf(s, "case", SelectedIds(m.cases, m.only_cases))
            D == PinsOf(s, "model", SelectedIds(m.models, m.only_models))
            Row(c, d) == [by |-> nextId, case |-> c, model |-> d, attempts |-> m.replicates]
<1>1. C = m.cases
  BY DEF NamesMembers, Sound, PinsOf, SelectedIds, Ids
<1>2. D = m.models
  BY DEF NamesMembers, Sound, PinsOf, SelectedIds, Ids
<1>3. NewRuns(s, m) = {Row(c, d) : c \in C, d \in D}
  BY DEF NewRuns
<1>4. \A c, d : Row(c, d).case = c /\ Row(c, d).model = d
  OBVIOUS
<1>. HIDE DEF C, D, Row
<1>5. {r.case : r \in NewRuns(s, m)} = C /\ {r.model : r \in NewRuns(s, m)} = D
  BY <1>1, <1>2, <1>3, <1>4 DEF NamesMembers
<1>. QED
  BY <1>1, <1>2, <1>5 DEF PinsOfRuns

LEMMA RunsStep ==
  ASSUME Shape, PinsInv, PinsInv', VersionInv, ManifestInv, SuiteInv,
         NEW s \in Sessions, Moves(s), Step(s)
  PROVE  RunOK(s)'
<1>0. /\ RunOK(s) /\ \A e \in experiments : SuiteRow(e)
      /\ \A e : SuiteRow(e) => SuiteRow(e)'
      /\ \A m \in view[s].manifest : Sound(m)
  BY SuiteRowStays DEF SuiteInv, ManifestInv, SnapOK
<1>1. CASE Ends(s)
  BY <1>1 DEF Ends, RunOK
<1>2. ASSUME NEW m, NamesMembers(m, view[s]),
             view'[s].refs \cup view'[s].pins = view[s].refs \cup view[s].pins
      PROVE  NamesMembers(m, view[s])'
  BY <1>2, MembersStay DEF NamesMembers
<1>3. CASE Stays(s)
  <2>1. Request(s)' = Request(s)
    BY <1>3 DEF Stays, Request
  <2>. QED
    BY <1>0, <1>2, <1>3, <2>1 DEF Stays, RunOK
<1>4. CASE Creates(s) \/ Preprocesses(s)
  BY <1>4 DEF Creates, Preprocesses, RunOK
<1>5. ASSUME NEW ref, NEW r, Pinned(s, ref, r), todo' = todo PROVE RunOK(s)'
  <2>0. Request(s)' = Request(s) /\ pc'[s] = "resolve"
    BY <1>5 DEF Pinned, Request
  <2>1. ASSUME NEW m \in view[s].manifest, Request(s).op = "run_suite"
        PROVE  NamesMembers(m, view[s])'
    <3>1. NamesMembers(m, view[s])
      BY <1>0, <1>5, <2>1 DEF RunOK, Pinned
    <3>2. ItemKey(r) = ref
      BY <1>5, <3>1, MemberIsPinned DEF Pinned
    <3>. QED
      BY <1>2, <1>5, <3>1, <3>2 DEF Pinned
  <2>2. /\ view'[s].manifest = view[s].manifest /\ view'[s].read = view[s].read
        /\ pc[s] # "idle"
    BY <1>5 DEF Pinned
  <2>. QED
    BY <1>0, <2>0, <2>1, <2>2 DEF RunOK
<1>6. ASSUME NEW m, TakesUp(s, m), todo' = todo PROVE RunOK(s)'
  <2>0. Request(s)' = Request(s)
    BY <1>6 DEF Request
  <2>1. CASE Request(s).op = "run_suite"
    <3>1. NamesMembers(m, view'[s])
      BY <1>6, <2>1, SuiteIsTakenUp
    <3>2. NamesMembers(m, view[s])'
      BY <3>1, MembersStay DEF NamesMembers
    <3>3. \A e \in view'[s].read : SuiteRow(e)' /\ Len(e.id) = 3
      BY <1>0, <1>6, <3>1 DEF TakesUp, RowsOf, NamesMembers
    <3>. QED
      BY <1>6, <2>0, <2>1, <3>2, <3>3 DEF TakesUp, RunOK
  <2>2. CASE Request(s).op # "run_suite"
    <3>1. Request(s) \in Requests
      BY <1>6, RequestIs DEF TakesUp, StartDraft, StartEdit, StartRun, At, Shape, Request
    <3>2. Len(m.id) = 1
      BY <1>6, <2>2, <3>1, LibraryAssumption DEF TakesUp, Named, Written
    <3>3. \A e \in view'[s].read : SuiteRow(e)' /\ Len(e.id) = 1
      BY <1>0, <1>6, <3>2 DEF TakesUp, RowsOf
    <3>. QED
      BY <1>6, <2>0, <2>2, <3>2, <3>3 DEF TakesUp, RunOK
  <2>. QED
    BY <2>1, <2>2
<1>7. ASSUME NEW m, NEW R, Loads(s, m, R), todo' = todo,
             \A e \in R : SuiteRow(e)' /\ Len(e.id) = IF Request(s).op = "run_suite" THEN 3 ELSE 1
      PROVE  RunOK(s)'
  <2>0. Request(s)' = Request(s)
    BY <1>7 DEF Request
  <2>1. ASSUME NEW x \in view[s].manifest, Request(s).op = "run_suite"
        PROVE  NamesMembers(x, view[s])'
    BY <1>0, <1>2, <1>7, <2>1 DEF RunOK, Loads
  <2>. QED
    BY <1>0, <1>7, <2>0, <2>1 DEF Loads, RunOK
<1>8. ASSUME NEW m, Loads(s, m, RowsOf(m.id)), todo' = todo PROVE RunOK(s)'
  <2>1. Len(m.id) = IF Request(s).op = "run_suite" THEN 3 ELSE 1
    BY <1>0, <1>8 DEF Loads, RunOK, NamesMembers
  <2>2. \A e \in RowsOf(m.id) :
          SuiteRow(e)' /\ Len(e.id) = IF Request(s).op = "run_suite" THEN 3 ELSE 1
    BY <1>0, <2>1 DEF RowsOf
  <2>. QED
    BY <1>7, <1>8, <2>2
<1>9. ASSUME NEW m, Inserted(s, m) PROVE RunOK(s)'
  <2>. DEFINE e == NewExperiment(s, m, "running")
  <2>1. Loads(s, m, {e}) /\ todo' = todo /\ view[s].refs = {}
    BY <1>9 DEF Inserted
  <2>2. e.id = m.id /\ e.runs = NewRuns(s, m)
    BY DEF NewExperiment
  <2>. HIDE DEF e
  <2>3. m \in view[s].manifest /\ pc[s] # "idle"
    BY <2>1 DEF Loads
  <2>4. CASE Request(s).op = "run_suite"
    <3>1. NamesMembers(m, view[s])
      BY <1>0, <2>3, <2>4 DEF RunOK
    <3>2. PinsOfRuns(e.runs) = m.cases \cup m.models
      BY <1>0, <2>1, <2>2, <2>3, <3>1, NewRunsOfMembers
    <3>3. SuiteRow(e) /\ Len(e.id) = 3
      BY <2>2, <3>1, <3>2 DEF NamesMembers, SuiteRow
    <3>. QED
      BY <1>0, <1>7, <2>1, <2>4, <3>3
  <2>5. CASE Request(s).op # "run_suite"
    <3>0. Len(e.id) = 1
      BY <1>0, <2>2, <2>3, <2>5 DEF RunOK
    <3>1. SuiteRow(e)
      BY <3>0 DEF SuiteRow
    <3>. QED
      BY <1>0, <1>7, <2>1, <2>5, <3>0, <3>1
  <2>. QED
    BY <2>4, <2>5
<1>12. ASSUME NEW m, Reloads(s, m), todo' = todo PROVE RunOK(s)'
  <2>. PICK e \in RowsOf(m.id) : pc'[s] = "write" /\ Loads(s, m, WithRuns(s, e))
    BY <1>12 DEF Reloads
  <2>1. Request(s).op = "edit" /\ pc[s] # "idle"
    BY DEF Loads
  <2>2. ASSUME NEW y \in WithRuns(s, e)
        PROVE  SuiteRow(y)' /\ Len(y.id) = IF Request(s).op = "run_suite" THEN 3 ELSE 1
    <3>. PICK x \in view[s].read : y = [x EXCEPT !.runs = e.runs]
      BY DEF WithRuns
    <3>1. DOMAIN x = ExperimentColumns /\ Len(x.id) = 1
      BY <1>0, <2>1 DEF RunOK, PinsInv, ViewPins
    <3>2. Len(y.id) = 1
      BY <3>1 DEF ExperimentColumns
    <3>. QED
      BY <2>1, <3>2 DEF SuiteRow
  <2>. QED
    BY <1>7, <1>12, <2>2
<1>10. CASE ~Ends(s) /\ ~Stays(s)
  <2>1. /\ todo' = todo
        /\ \/ Creates(s) \/ Preprocesses(s)
           \/ \E ref, r : Pinned(s, ref, r)
           \/ \E m : TakesUp(s, m)
           \/ \E m : Loads(s, m, RowsOf(m.id))
           \/ \E m : Reloads(s, m)
           \/ \E m : Inserted(s, m)
    BY <1>10, StepIs, ReadsAre
  <2>. QED
    BY <1>4, <1>5, <1>6, <1>8, <1>9, <1>12, <2>1
<1>. QED
  BY <1>1, <1>3, <1>10

LEMMA WrittenSuites ==
  ASSUME Shape, PinsInv, PinsInv', SuiteInv, NEW s \in Sessions, Step(s),
         NEW e \in experiments'
  PROVE  SuiteRow(e)'
<1>0. RunOK(s) /\ \A x \in experiments : SuiteRow(x)
  BY DEF SuiteInv
<1>1. CASE e \in experiments
  BY <1>0, <1>1, SuiteRowStays
<1>2. ASSUME NEW m, Drafted(s, e, m) PROVE SuiteRow(e)
  <2>1. e.id = m.id /\ Len(m.id) = 1
    BY <1>0, <1>2 DEF Drafted, RunOK, NewExperiment
  <2>. QED
    BY <2>1 DEF SuiteRow
<1>3. ASSUME NEW m, NEW old, NEW kept, Edited(s, e, m, old, kept) PROVE SuiteRow(e)
  <2>1. e.id = m.id /\ Len(m.id) = 1
    BY <1>0, <1>3 DEF Edited, RunOK
  <2>. QED
    BY <2>1 DEF SuiteRow
<1>4. ASSUME NEW old, NEW read, Ran(s, e, old, read) PROVE SuiteRow(e)
  <2>1. SuiteRow(old) /\ e.id = old.id /\ e.runs = old.runs
    BY <1>0, <1>4 DEF Ran, RunOK, RowsOf
  <2>. QED
    BY <2>1 DEF SuiteRow
<1>. QED
  BY <1>1, <1>2, <1>3, <1>4, WritesAre, SuiteRowStays

LEMMA SuitesStep ==
  ASSUME Shape, PinsInv, PinsInv', VersionInv, ManifestInv, SuiteInv,
         NEW s \in Sessions, Moves(s), Step(s)
  PROVE  SuiteInv'
<1>1. ASSUME NEW t \in Sessions \ {s} PROVE RunOK(t)'
  <2>1. view'[t] = view[t] /\ pc'[t] = pc[t] /\ Request(t)' = Request(t) /\ RunOK(t)
    BY DEF Moves, SuiteInv, Request
  <2>2. \A m : NamesMembers(m, view[t]) => NamesMembers(m, view[t])'
    BY <2>1, MembersStay DEF NamesMembers
  <2>. QED
    BY <2>1, <2>2, SuiteRowStays DEF RunOK
<1>2. ASSUME NEW entry \in ran' PROVE RunsMembers(entry.id, entry.pins)'
  <2>1. CASE entry \in ran
    BY <2>1, MembersStay DEF SuiteInv
  <2>2. CASE entry \notin ran
    <3>1. CommitRun(s)
      BY <2>2, TablesAre
    <3>. PICK e, old, read : Ran(s, e, old, read)
      BY <3>1, RunIs
    <3>2. /\ Request(s).op = "run_suite" /\ entry.id = read.id
          /\ entry.pins = PinsOfRuns(old.runs)
      BY <2>2 DEF Ran
    <3>3. SuiteRow(old) /\ old.id = read.id /\ Len(read.id) = 3
      BY <3>2 DEF Ran, SuiteInv, RunOK, RowsOf
    <3>4. RunsMembers(entry.id, entry.pins)
      BY <3>2, <3>3 DEF SuiteRow
    <3>. QED
      BY <3>4, MembersStay
  <2>. QED
    BY <2>1, <2>2
<1>. QED
  BY <1>1, <1>2, RunsStep, WrittenSuites DEF SuiteInv

LEMMA InitSuites == Init => SuiteInv
<1>. SUFFICES ASSUME Init PROVE SuiteInv
  OBVIOUS
<1>1. \A e \in experiments : Len(e.id) = 1
  BY LibraryAssumption DEF Init, Written
<1>. QED
  BY <1>1 DEF Init, SuiteInv, SuiteRow, RunOK
-----------------------------------------------------------------------------
\* The rows of runs are of a request that took a number, and experiments have
\* one of the statuses.
RowOK(e, n) ==
  /\ e.status \in {"draft", "running", "complete"}
  /\ \A r \in e.runs : r.by \in Nat /\ r.by < n

StatusInv ==
  /\ \A e \in experiments : RowOK(e, nextId)
  /\ \A s \in Sessions : \A e \in view[s].read : RowOK(e, nextId)
  /\ whole \cap partial = {}

LEMMA RowStays ==
  ASSUME NEW e, NEW m \in Nat, NEW n \in Nat, m <= n, RowOK(e, m)
  PROVE  RowOK(e, n)
BY DEF RowOK

LEMMA NewRowOK ==
  ASSUME nextId \in Nat, nextId' = nextId + 1, NEW s \in Sessions, NEW m
  PROVE  \A r \in NewRuns(s, m) : r.by \in Nat /\ r.by < nextId'
<1>1. \A r \in NewRuns(s, m) : r.by = nextId
  BY DEF NewRuns
<1>. QED
  BY <1>1

LEMMA StatusStep ==
  ASSUME Shape, PinsInv, StoreInv, StatusInv, NEW s \in Sessions, Moves(s), Step(s)
  PROVE  StatusInv'
<1>0. nextId \in Nat /\ nextId' \in Nat /\ nextId <= nextId'
  BY TablesAre DEF StoreInv, RowsOK
<1>1. /\ \A e \in experiments : RowOK(e, nextId')
      /\ \A t \in Sessions : \A e \in view[t].read : RowOK(e, nextId')
  BY <1>0, RowStays DEF StatusInv
<1>2. ASSUME NEW e \in experiments' PROVE RowOK(e, nextId')
  <2>1. ASSUME NEW m, Drafted(s, e, m) PROVE RowOK(e, nextId')
    <3>1. e.status = "draft" /\ e.runs = NewRuns(s, m)
      BY <2>1 DEF Drafted, NewExperiment
    <3>. QED
      BY <1>0, <2>1, <3>1, NewRowOK DEF Drafted, RowOK
  <2>2. ASSUME NEW m, NEW old, NEW kept, Edited(s, e, m, old, kept) PROVE RowOK(e, nextId')
    <3>1. RowOK(old, nextId') /\ e.status = old.status /\ e.runs = kept \cup NewRuns(s, m)
          /\ kept \subseteq old.runs /\ nextId' = nextId + 1
      BY <1>1, <2>2 DEF Edited
    <3>. QED
      BY <1>0, <3>1, NewRowOK DEF RowOK
  <2>3. ASSUME NEW old, NEW read, Ran(s, e, old, read) PROVE RowOK(e, nextId')
    BY <1>1, <2>3 DEF Ran, RowsOf, RowOK
  <2>. QED
    BY <1>1, <2>1, <2>2, <2>3, WritesAre
<1>3. ASSUME NEW e \in view'[s].read PROVE RowOK(e, nextId')
  <2>1. CASE e \in experiments \cup view[s].read
    BY <1>1, <2>1
  <2>2. ASSUME NEW m, Inserted(s, m) PROVE RowOK(e, nextId')
    <3>1. e = NewExperiment(s, m, "running") /\ nextId' = nextId + 1
      BY <2>2 DEF Inserted, Loads
    <3>2. e.status = "running" /\ e.runs = NewRuns(s, m)
      BY <3>1 DEF NewExperiment
    <3>. QED
      BY <1>0, <3>1, <3>2, NewRowOK DEF RowOK
  <2>3. CASE Ends(s) \/ Stays(s)
    BY <1>1, <2>3 DEF Ends, Stays, NoView
  <2>5. ASSUME NEW m, Reloads(s, m) PROVE RowOK(e, nextId')
    <3>. PICK f \in experiments : \E x \in view[s].read : e = [x EXCEPT !.runs = f.runs]
      BY <2>5 DEF Reloads, Loads, WithRuns, RowsOf
    <3>. PICK x \in view[s].read : e = [x EXCEPT !.runs = f.runs]
      OBVIOUS
    <3>1. DOMAIN x = ExperimentColumns
      BY DEF PinsInv, ViewPins
    <3>2. e.status = x.status /\ e.runs = f.runs
      BY <3>1 DEF ExperimentColumns
    <3>. QED
      BY <1>1, <3>2 DEF RowOK
  <2>4. CASE ~Ends(s) /\ ~Stays(s)
    <3>1. \/ Creates(s) \/ Preprocesses(s)
          \/ \E ref, r : Pinned(s, ref, r)
          \/ \E m : TakesUp(s, m)
          \/ \E m : Loads(s, m, RowsOf(m.id))
          \/ \E m : Reloads(s, m)
          \/ \E m : Inserted(s, m)
      BY <2>4, StepIs, ReadsAre
    <3>. QED
      BY <2>1, <2>2, <2>5, <3>1 DEF Creates, Preprocesses, Pinned, TakesUp, Loads, RowsOf
  <2>. QED
    BY <2>3, <2>4
<1>4. (whole \cap partial = {})'
  BY DEF StatusInv, Step, StartCreate, InsertSuite, Resolve, CommitItem, Archive, Declare, SetMode,
     StartPreprocessing, Parse, NextPart, RenderFails, LookForFile, OpenFile, CloseFile,
     SaveRow, CommitRecord, StartDraft, StartEdit, StartRun, LookForExperiment, ReadInput,
     DeriveInput, CommitDraft, ReadRuns, CommitEdit, InsertExperiment, Execute, CommitRun, Die,
     files
<1>5. ASSUME NEW t \in Sessions \ {s} PROVE \A e \in view'[t].read : RowOK(e, nextId')
  BY <1>1 DEF Moves
<1>. QED
  BY <1>2, <1>3, <1>4, <1>5 DEF StatusInv

LEMMA InitStatus == Init => StatusInv
<1>. SUFFICES ASSUME Init PROVE StatusInv
  OBVIOUS
<1>1. \A e \in experiments : RowOK(e, nextId)
  <2>. SUFFICES ASSUME NEW e \in Experiments0 PROVE RowOK(e, 10)
    BY DEF Init
  <2>1. e.status = "draft" /\ \A r \in e.runs : r.by \in 1 .. 9
    BY LibraryAssumption
  <2>. QED
    BY <2>1 DEF RowOK
<1>. QED
  BY <1>1 DEF Init, StatusInv, NoView
-----------------------------------------------------------------------------
(***************************************************************************)
(* The runs of one request stay together: two sets of runs, of an          *)
(* experiment as it is or as it was loaded, that have a run of the same    *)
(* request have all of its runs, so that an edit deletes all of them or    *)
(* none.                                                                   *)
(***************************************************************************)
RunSets ==
  {{}} \cup {e.runs : e \in experiments} \cup
  UNION {{e.runs : e \in view[s].read} : s \in Sessions}

Agree(R, Q) == \A r \in R, q \in Q : r.by = q.by => r \in Q /\ q \in R

BatchInv ==
  /\ \A R \in RunSets : BatchesAreWhole(R)
  /\ \A R, Q \in RunSets : Agree(R, Q)

\* What a step makes: what is left of a set when another is taken away, with the
\* runs of the request.
Made(s, N) ==
  \/ N \in RunSets
  \/ /\ nextId' = nextId + 1
     /\ \E R, Q \in RunSets : \E m : N = (R \ Q) \cup NewRuns(s, m)

LEMMA NewRunsAreWhole ==
  ASSUME NEW s \in Sessions, NEW m
  PROVE  BatchesAreWhole(NewRuns(s, m)) /\ \A r \in NewRuns(s, m) : r.by = nextId
<1>. DEFINE C == PinsOf(s, "case", SelectedIds(m.cases, m.only_cases))
            D == PinsOf(s, "model", SelectedIds(m.models, m.only_models))
            Row(c, d) == [by |-> nextId, case |-> c, model |-> d, attempts |-> m.replicates]
<1>1. NewRuns(s, m) = {Row(c, d) : c \in C, d \in D}
  BY DEF NewRuns
<1>2. \A c, d : Row(c, d).by = nextId /\ Row(c, d).case = c /\ Row(c, d).model = d
  OBVIOUS
<1>. HIDE DEF C, D, Row
<1>3. ASSUME NEW r \in NewRuns(s, m), NEW q \in NewRuns(s, m)
      PROVE  \E x \in NewRuns(s, m) : x.by = r.by /\ x.case = r.case /\ x.model = q.model
  <2>. PICK c \in C, d \in D : r = Row(c, d)
    BY <1>1
  <2>. PICK a \in C, b \in D : q = Row(a, b)
    BY <1>1
  <2>1. Row(c, b) \in NewRuns(s, m)
    BY <1>1
  <2>. QED
    BY <1>2, <2>1
<1>. QED
  BY <1>1, <1>2, <1>3 DEF BatchesAreWhole

LEMMA RestIsWhole ==
  ASSUME NEW R, NEW Q, BatchesAreWhole(R), Agree(R, Q)
  PROVE  BatchesAreWhole(R \ Q)
<1>. SUFFICES ASSUME NEW r \in R \ Q, NEW q \in R \ Q, r.by = q.by
              PROVE  \E x \in R \ Q : x.by = r.by /\ x.case = r.case /\ x.model = q.model
  BY DEF BatchesAreWhole
<1>. PICK x \in R : x.by = r.by /\ x.case = r.case /\ x.model = q.model
  BY DEF BatchesAreWhole
<1>1. x \notin Q
  BY DEF Agree
<1>. QED
  BY <1>1

\* The numbers of the requests before are smaller.
LEMMA MadeAgrees ==
  ASSUME StoreInv, StatusInv, BatchInv, NEW s \in Sessions, NEW N, Made(s, N)
  PROVE  /\ BatchesAreWhole(N)
         /\ \A A \in RunSets : Agree(N, A) /\ Agree(A, N)
<1>1. CASE N \in RunSets
  BY <1>1 DEF BatchInv
<1>2. CASE \E R, Q \in RunSets : \E m : N = (R \ Q) \cup NewRuns(s, m)
  <2>. PICK R \in RunSets, Q \in RunSets : \E m : N = (R \ Q) \cup NewRuns(s, m)
    BY <1>2
  <2>. PICK m : N = (R \ Q) \cup NewRuns(s, m)
    OBVIOUS
  <2>. DEFINE new == NewRuns(s, m)
  <2>0. /\ nextId \in Nat
        /\ \A A \in RunSets : \A r \in A : r.by \in Nat /\ r.by < nextId
    BY DEF StoreInv, RowsOK, StatusInv, RowOK, RunSets
  <2>1. BatchesAreWhole(new) /\ \A r \in new : r.by = nextId
    BY NewRunsAreWhole
  <2>2. Agree(R, Q) /\ BatchesAreWhole(R \ Q)
    BY RestIsWhole DEF BatchInv
  <2>3. \A A \in RunSets : \A r \in A, q \in new : r.by # q.by
    BY <2>0, <2>1
  <2>. HIDE DEF new
  <2>4. N = (R \ Q) \cup new
    BY DEF new
  <2>5. BatchesAreWhole(N)
    <3>. SUFFICES ASSUME NEW r \in N, NEW q \in N, r.by = q.by
                  PROVE  \E x \in N : x.by = r.by /\ x.case = r.case /\ x.model = q.model
      BY DEF BatchesAreWhole
    <3>1. r \in R /\ q \in new => r.by # q.by
      BY <2>3
    <3>2. q \in R /\ r \in new => q.by # r.by
      BY <2>3
    <3>3. CASE r \in R \ Q /\ q \in R \ Q
      BY <2>2, <2>4, <3>3 DEF BatchesAreWhole
    <3>4. CASE r \in new /\ q \in new
      BY <2>1, <2>4, <3>4 DEF BatchesAreWhole
    <3>. QED
      BY <2>4, <3>1, <3>2, <3>3, <3>4
  <2>6. ASSUME NEW A \in RunSets, NEW r \in N, NEW q \in A, r.by = q.by
        PROVE  r \in A /\ q \in N
    <3>1. r \in R \ Q
      BY <2>3, <2>4, <2>6
    <3>2. r \in A /\ q \in R
      BY <2>6, <3>1 DEF BatchInv, Agree
    <3>3. q \notin Q
      BY <2>2, <2>6, <3>1 DEF Agree
    <3>. QED
      BY <2>4, <3>2, <3>3
  <2>7. \A A \in RunSets : Agree(N, A) /\ Agree(A, N)
    BY <2>6 DEF Agree
  <2>. QED
    BY <2>5, <2>7
<1>. QED
  BY <1>1, <1>2 DEF Made

\* What a session has loaded after a step.
LEMMA LoadedSets ==
  ASSUME Shape, PinsInv, NEW s \in Sessions, Step(s), ~InsertExperiment(s)
  PROVE  \A e \in view'[s].read : e.runs \in RunSets
<1>. SUFFICES ASSUME NEW e \in view'[s].read PROVE e.runs \in RunSets
  OBVIOUS
<1>1. CASE e \in experiments \cup view[s].read
  BY <1>1 DEF RunSets
<1>2. ASSUME NEW m, Reloads(s, m) PROVE e.runs \in RunSets
  <2>. PICK f \in experiments : \E x \in view[s].read : e = [x EXCEPT !.runs = f.runs]
    BY <1>2 DEF Reloads, Loads, WithRuns, RowsOf
  <2>. PICK x \in view[s].read : e = [x EXCEPT !.runs = f.runs]
    OBVIOUS
  <2>1. DOMAIN x = ExperimentColumns
    BY DEF PinsInv, ViewPins
  <2>2. e.runs = f.runs
    BY <2>1 DEF ExperimentColumns
  <2>. QED
    BY <2>2 DEF RunSets
<1>3. CASE Ends(s) \/ Stays(s)
  BY <1>1, <1>3 DEF Ends, Stays, NoView
<1>4. CASE ~Ends(s) /\ ~Stays(s)
  <2>1. \/ Creates(s) \/ Preprocesses(s)
        \/ \E ref, r : Pinned(s, ref, r)
        \/ \E m : TakesUp(s, m)
        \/ \E m : Loads(s, m, RowsOf(m.id))
        \/ \E m : Reloads(s, m)
        \/ \E m : Inserted(s, m)
    BY <1>4, StepIs, ReadsAre
  <2>. QED
    BY <1>1, <1>2, <2>1 DEF Creates, Preprocesses, Pinned, TakesUp, Loads, RowsOf, Inserted
<1>. QED
  BY <1>3, <1>4

\* A step makes one set of runs at most.
LEMMA SetsMade ==
  ASSUME Shape, PinsInv, NEW s \in Sessions, Moves(s), Step(s)
  PROVE  \E N : Made(s, N) /\ RunSets' \subseteq RunSets \cup {N}
<1>0. \A t \in Sessions \ {s} : view'[t] = view[t]
  BY DEF Moves
<1>1. ASSUME NEW N, Made(s, N),
             \A e \in experiments' : e \in experiments \/ e.runs = N,
             \A e \in view'[s].read : e.runs \in RunSets \cup {N}
      PROVE  RunSets' \subseteq RunSets \cup {N}
  <2>1. \A e \in experiments' : e.runs \in RunSets \cup {N}
    BY <1>1 DEF RunSets
  <2>2. ASSUME NEW t \in Sessions PROVE \A e \in view'[t].read : e.runs \in RunSets \cup {N}
    BY <1>0, <1>1 DEF RunSets
  <2>. QED
    BY <2>1, <2>2 DEF RunSets
<1>2. Made(s, {}) /\ {} \in RunSets
  BY DEF Made, RunSets
<1>3. ASSUME NEW m, nextId' = nextId + 1 PROVE Made(s, NewRuns(s, m))
  BY <1>2, <1>3 DEF Made
<1>4. CASE CommitDraft(s)
  <2>0. view'[s].read = {}
    <3>1. End(s)
      BY <1>4 DEF CommitDraft
    <3>. QED
      BY <3>1, EndView DEF NoView
  <2>1. CASE experiments' = experiments
    BY <1>1, <1>2, <2>0, <2>1
  <2>2. CASE experiments' # experiments
    <3>. PICK m : /\ experiments' = experiments \cup {NewExperiment(s, m, "draft")}
                  /\ nextId' = nextId + 1
      BY <1>4, <2>2 DEF CommitDraft
    <3>1. NewExperiment(s, m, "draft").runs = NewRuns(s, m)
      BY DEF NewExperiment
    <3>. QED
      BY <1>1, <1>3, <2>0, <3>1
  <2>. QED
    BY <2>1, <2>2
<1>5. CASE CommitEdit(s)
  <2>0. view'[s].read = {}
    <3>1. End(s)
      BY <1>5 DEF CommitEdit
    <3>. QED
      BY <3>1, EndView DEF NoView
  <2>1. CASE experiments' = experiments
    BY <1>1, <1>2, <2>0, <2>1
  <2>2. CASE experiments' # experiments
    <3>. PICK m, old, e : \E read \in view[s].read :
           /\ Edited(s, e, m, old, old.runs \ read.runs)
           /\ experiments' = (experiments \ {old}) \cup {e}
      BY <1>5, <2>2, EditIs
    <3>. PICK read \in view[s].read :
           /\ Edited(s, e, m, old, old.runs \ read.runs)
           /\ experiments' = (experiments \ {old}) \cup {e}
      OBVIOUS
    <3>1. /\ e.runs = (old.runs \ read.runs) \cup NewRuns(s, m)
          /\ nextId' = nextId + 1 /\ old.runs \in RunSets /\ read.runs \in RunSets
      BY DEF Edited, RunSets
    <3>2. Made(s, e.runs)
      BY <3>1 DEF Made
    <3>. QED
      BY <1>1, <2>0, <3>2
  <2>. QED
    BY <2>1, <2>2
<1>6. CASE CommitRun(s)
  <2>0. view'[s].read = {}
    <3>1. End(s)
      BY <1>6 DEF CommitRun
    <3>. QED
      BY <3>1, EndView DEF NoView
  <2>. PICK e, old, read : Ran(s, e, old, read) /\ experiments' = (experiments \ {old}) \cup {e}
    BY <1>6, RunIs
  <2>1. e.runs = old.runs /\ old.runs \in RunSets
    BY DEF Ran, RowsOf, RunSets
  <2>2. Made(s, e.runs)
    BY <2>1 DEF Made
  <2>. QED
    BY <1>1, <2>0, <2>2
<1>7. CASE InsertExperiment(s)
  <2>0. experiments' = experiments
    BY <1>7 DEF InsertExperiment, rows
  <2>1. CASE End(s)
    <3>1. view'[s].read = {}
      BY <2>1, EndView DEF NoView
    <3>. QED
      BY <1>1, <1>2, <2>0, <3>1
  <2>2. CASE ~End(s)
    <3>. PICK m : /\ nextId' = nextId + 1
                  /\ Goto(s, "running", [view[s] EXCEPT !.read = {NewExperiment(s, m, "running")}])
      BY <1>7, <2>2 DEF InsertExperiment
    <3>1. view'[s] = [view[s] EXCEPT !.read = {NewExperiment(s, m, "running")}]
      BY GotoView
    <3>2. view'[s].read = {NewExperiment(s, m, "running")}
      BY <3>1 DEF Shape, Fields
    <3>3. NewExperiment(s, m, "running").runs = NewRuns(s, m)
      BY DEF NewExperiment
    <3>. QED
      BY <1>1, <1>3, <2>0, <3>2, <3>3
  <2>. QED
    BY <2>1, <2>2
<1>8. CASE ~(CommitDraft(s) \/ CommitEdit(s) \/ CommitRun(s) \/ InsertExperiment(s))
  <2>1. experiments' = experiments
    BY <1>8, TablesAre
  <2>. QED
    BY <1>1, <1>2, <1>8, <2>1, LoadedSets
<1>. QED
  BY <1>4, <1>5, <1>6, <1>7, <1>8

LEMMA BatchesStep ==
  ASSUME Shape, StoreInv, PinsInv, StatusInv, BatchInv, NEW s \in Sessions, Moves(s), Step(s)
  PROVE  BatchInv'
<1>. PICK N : Made(s, N) /\ RunSets' \subseteq RunSets \cup {N}
  BY SetsMade
<1>1. /\ BatchesAreWhole(N)
      /\ \A A \in RunSets : Agree(N, A) /\ Agree(A, N)
  BY MadeAgrees
<1>2. Agree(N, N)
  BY DEF Agree
<1>3. \A R \in RunSets' : BatchesAreWhole(R)
  BY <1>1 DEF BatchInv
<1>4. \A R, Q \in RunSets' : Agree(R, Q)
  BY <1>1, <1>2 DEF BatchInv
<1>. QED
  BY <1>3, <1>4 DEF BatchInv

LEMMA InitBatches == Init => BatchInv
<1>. SUFFICES ASSUME Init PROVE BatchInv
  OBVIOUS
<1>1. RunSets = {{}} \cup {e.runs : e \in Experiments0}
  BY DEF Init, RunSets, NoView
<1>2. ASSUME NEW e \in Experiments0, NEW f \in Experiments0 PROVE Agree(e.runs, f.runs)
  <2>1. (\E r \in e.runs, q \in f.runs : r.by = q.by) => e = f
    BY LibraryAssumption
  <2>. QED
    BY <2>1 DEF Agree
<1>3. \A e \in Experiments0 : BatchesAreWhole(e.runs)
  BY LibraryAssumption
<1>4. \A R : BatchesAreWhole({}) /\ Agree({}, R) /\ Agree(R, {})
  BY DEF BatchesAreWhole, Agree
<1>5. \A R \in RunSets : BatchesAreWhole(R)
  BY <1>1, <1>3, <1>4
<1>6. \A R, Q \in RunSets : Agree(R, Q)
  BY <1>1, <1>2, <1>4
<1>. QED
  BY <1>5, <1>6 DEF BatchInv
-----------------------------------------------------------------------------
LibraryInv == PinsInv /\ VersionInv /\ ManifestInv /\ SuiteInv /\ StatusInv /\ BatchInv

LEMMA LibraryStep ==
  ASSUME Shape, StoreInv, LibraryInv, [Next]_vars
  PROVE  LibraryInv'
<1>1. CASE UNCHANGED vars
  <2>0. UNCHANGED <<items, experiments, nextId, todo, pc, view, overlapped, ran, whole, partial>>
    BY <1>1 DEF vars, rows, files, sessions, history
  <2>1. PinsInv'
    BY <1>1, PinsStutter DEF LibraryInv
  <2>2. VersionInv'
    BY <2>0 DEF LibraryInv, VersionInv, CreateOK, Request
  <2>3. ManifestInv'
    BY <2>0 DEF LibraryInv, ManifestInv, Fits
  <2>4. SuiteInv'
    <3>0. \A id, pins : RunsMembers(id, pins)' <=> RunsMembers(id, pins)
      BY <2>0 DEF RunsMembers, OfKind, Included
    <3>1. /\ \A e : SuiteRow(e)' <=> SuiteRow(e)
          /\ \A m, s : NamesMembers(m, view[s])' <=> NamesMembers(m, view[s])
      BY <2>0, <3>0 DEF SuiteRow, NamesMembers
    <3>2. \A s \in Sessions : RunOK(s)' <=> RunOK(s)
      BY <2>0, <3>1 DEF RunOK, Request
    <3>. QED
      BY <2>0, <3>0, <3>1, <3>2 DEF LibraryInv, SuiteInv
  <2>5. StatusInv'
    BY <2>0 DEF LibraryInv, StatusInv
  <2>6. BatchInv'
    BY <2>0 DEF LibraryInv, BatchInv, RunSets
  <2>. QED
    BY <2>1, <2>2, <2>3, <2>4, <2>5, <2>6 DEF LibraryInv
<1>2. ASSUME NEW s \in Sessions, Step(s) PROVE LibraryInv'
  <2>1. Moves(s)
    BY <1>2, ActionsMove
  <2>2. PinsInv'
    BY <1>2, <2>1, PinsStep DEF LibraryInv
  <2>. QED
    BY <1>2, <2>1, <2>2, VersionsStep, ManifestsStep, SuitesStep, StatusStep, BatchesStep
       DEF LibraryInv
<1>. QED
  BY <1>1, <1>2 DEF Next

LEMMA SpecLibrary == Spec => [](Shape /\ StoreInv /\ LibraryInv)
<1>1. Init => LibraryInv
  BY InitPins, InitVersions, InitManifests, InitSuites, InitStatus, InitBatches DEF LibraryInv
<1>2. Shape /\ StoreInv /\ LibraryInv /\ [Next]_vars => LibraryInv'
  BY LibraryStep
<1>. QED
  BY <1>1, <1>2, SpecStore, PTL DEF Spec

\* Every experiment has the runs its stored manifest expands to and its
\* controls, whatever columns the edits found unchanged and did not write, but
\* where a session wrote over a row that had changed since it was loaded; and
\* even there it has all of the runs of a request or none
\* (ExperimentIsItsManifest).
THEOREM ExperimentsAreTheirManifests == Spec => []ExperimentIsItsManifest
<1>1. LibraryInv => ExperimentIsItsManifest
  <2>. SUFFICES ASSUME LibraryInv, NEW e \in experiments
                PROVE  Fits(e, overlapped) /\ BatchesAreWhole(e.runs)
    BY DEF Fits, ExperimentIsItsManifest
  <2>1. e.runs \in RunSets
    BY DEF RunSets
  <2>. QED
    BY <2>1 DEF LibraryInv, ManifestInv, BatchInv
<1>. QED
  BY <1>1, SpecLibrary, PTL

\* Every suite run that was committed ran the suite's pinned members that are
\* in its split and not archived, and still does, whatever the library became
\* (SuiteRunsItsMembership).
THEOREM SuitesRunTheirMembers == Spec => []SuiteRunsItsMembership
<1>1. ASSUME PinsInv, VersionInv, NEW suite \in OfKind("suite"), NEW split
      PROVE  LET active == {r \in OfKind("case") : ~r.archived /\ r.split # "archived"
                                                    /\ (split # "all" => r.split = split)}
             IN  {pin \in suite.pins : Included(pin, split)} =
                 {pin \in suite.pins : \/ pin[1] = "model"
                                       \/ pin \in {ItemKey(r) : r \in active}}
  <2>. DEFINE active == {r \in OfKind("case") : ~r.archived /\ r.split # "archived"
                                                /\ (split # "all" => r.split = split)}
  <2>1. \A pin \in suite.pins : pin[1] \in {"case", "model"}
    BY <1>1 DEF OfKind, VersionInv, ItemOK, KeepsKinds
  <2>2. \A r \in items : ItemKey(r)[1] = r.kind
    BY DEF ItemKey
  <2>3. ASSUME NEW pin \in suite.pins
        PROVE  Included(pin, split) <=>
                 pin[1] = "model" \/ pin \in {ItemKey(r) : r \in active}
    <3>1. CASE pin[1] = "model"
      BY <3>1 DEF Included
    <3>2. CASE pin[1] = "case"
      BY <2>2, <3>2 DEF Included, OfKind
    <3>. QED
      BY <2>1, <3>1, <3>2
  <2>. QED
    BY <2>3
<1>2. LibraryInv => SuiteRunsItsMembership
  <2>. SUFFICES ASSUME LibraryInv, NEW entry \in ran
                PROVE  \E suite \in OfKind("suite") :
                         LET split  == entry.id[3]
                             active == {r \in OfKind("case") :
                                          ~r.archived /\ r.split # "archived"
                                          /\ (split # "all" => r.split = split)}
                         IN  /\ suite.slug = entry.id[1] /\ suite.version = entry.id[2]
                             /\ entry.pins =
                                  {pin \in suite.pins :
                                     \/ pin[1] = "model"
                                     \/ pin \in {ItemKey(r) : r \in active}}
    BY Zenon DEF SuiteRunsItsMembership
  <2>. PICK suite \in OfKind("suite") :
         /\ suite.slug = entry.id[1] /\ suite.version = entry.id[2]
         /\ entry.pins = {pin \in suite.pins : Included(pin, entry.id[3])}
    BY DEF LibraryInv, SuiteInv, RunsMembers
  <2>. QED
    BY <1>1 DEF LibraryInv
<1>. QED
  BY <1>2, SpecLibrary, PTL

\* The tables and the sessions keep their types (TypeOK).
THEOREM LibraryTypeOK == Spec => []TypeOK
<1>1. Shape /\ StoreInv /\ LibraryInv => TypeOK
  <2>. SUFFICES ASSUME Shape, StoreInv, LibraryInv PROVE TypeOK
    OBVIOUS
  <2>1. \A r \in items : r.version \in Nat \ {0} /\ r.archived \in BOOLEAN
    BY DEF LibraryInv, VersionInv, ItemOK
  <2>2. /\ nextId \in Nat /\ \A x \in artifacts \cup records : x.id < nextId
        /\ \A x, y \in artifacts : x.id = y.id => x = y
    BY DEF StoreInv, RowsOK
  <2>3. \A e \in experiments : /\ e.status \in {"draft", "running", "complete"}
                               /\ \A r \in e.runs : r.by < nextId
    BY DEF LibraryInv, StatusInv, RowOK
  <2>4. whole \cap partial = {}
    BY DEF LibraryInv, StatusInv
  <2>. QED
    BY <2>1, <2>2, <2>3, <2>4 DEF Shape, TypeOK
<1>. QED
  BY <1>1, SpecLibrary, PTL
=============================================================================
