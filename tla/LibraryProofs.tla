--------------------------- MODULE LibraryProofs ---------------------------
(***************************************************************************)
(* Theorems of Library, for any sessions, requests and initial library.    *)
(*                                                                         *)
(* The invariant has two halves: what the committed rows are, and what a   *)
(* session in the middle of a request knows of them.  The second holds of  *)
(* the other sessions after a step because committed rows only get more:   *)
(* their keys, ids and files stay.                                         *)
(***************************************************************************)
EXTENDS Library, TLAPS

Fields ==
  {"version", "refs", "pins", "wants", "inputs", "manifest", "read", "row", "mode", "record",
   "parts", "modes", "from", "out"}

\* Sessions are functions, rows and views are records.
Shape ==
  /\ todo \in [Sessions -> Seq(Requests)]
  /\ pc \in [Sessions -> Labels]
  /\ view = [s \in Sessions |-> view[s]] /\ held = [s \in Sessions |-> held[s]]
  /\ \A s \in Sessions : DOMAIN view[s] = Fields
  /\ \A s \in Sessions : pc[s] = "idle" => held[s] = {} /\ view[s] = NoView
  /\ \A s \in Sessions : pc[s] # "idle" => todo[s] # <<>>

\* A step of one session.
Moves(s) ==
  /\ Shape'
  /\ \A t \in Sessions \ {s} : todo'[t] = todo[t] /\ pc'[t] = pc[t] /\ view'[t] = view[t]

-----------------------------------------------------------------------------
LEMMA NoViewFields == DOMAIN NoView = Fields
BY DEF NoView, Fields

LEMMA GotoMoves ==
  ASSUME Shape, NEW s \in Sessions, NEW l \in Labels, NEW v,
         l # "idle", DOMAIN v = Fields, todo[s] # <<>>, Goto(s, l, v),
         held' = held \/ \E key : Hold(s, key)
  PROVE  Moves(s) /\ pc'[s] = l /\ view'[s] = v /\ todo' = todo
BY DEF Shape, Moves, Goto, Hold

LEMMA GotoView ==
  ASSUME Shape, NEW s \in Sessions, NEW l, NEW v, Goto(s, l, v)
  PROVE  pc'[s] = l /\ view'[s] = v /\ todo' = todo
BY DEF Shape, Goto

LEMMA EndView ==
  ASSUME Shape, NEW s \in Sessions, End(s)
  PROVE  pc'[s] = "idle" /\ view'[s] = NoView
BY DEF Shape, End

LEMMA EndMoves ==
  ASSUME Shape, NEW s \in Sessions, todo[s] # <<>>, End(s)
  PROVE  Moves(s) /\ pc'[s] = "idle" /\ view'[s] = NoView
<1>1. Tail(todo[s]) \in Seq(Requests)
  BY DEF Shape
<1>2. todo' \in [Sessions -> Seq(Requests)]
  BY <1>1 DEF Shape, End
<1>. QED
  BY <1>2, NoViewFields DEF Shape, Moves, End, Labels

\* What a request reads first, and what it changes of its view later, is a view.
LEMMA ViewFields ==
  ASSUME Shape, NEW s \in Sessions
  PROVE  /\ \A m : DOMAIN Snapshots(s, m) = Fields
         /\ DOMAIN view[s] = Fields /\ DOMAIN NoView = Fields
BY NoViewFields DEF Shape, Snapshots

LEMMA ActionsMove ==
  ASSUME Shape, NEW s \in Sessions,
         Step(s)
  PROVE  Moves(s)
<1>0. todo[s] # <<>>
  BY DEF Shape, StartCreate, InsertSuite, Resolve, CommitItem, Archive, Declare, SetMode,
     StartPreprocessing, Parse, NextPart, RenderFails, LookForFile, OpenFile, CloseFile,
     SaveRow, CommitRecord, StartDraft, StartEdit, StartRun, LookForExperiment, ReadInput,
     DeriveInput, CommitDraft, ReadRuns, CommitEdit, InsertExperiment, Execute, CommitRun, Die,
     At, Ready, Step
<1>a. CASE End(s)
  BY <1>a, <1>0, EndMoves
<1>1. CASE StartCreate(s)
  <2>1. CASE \E n \in NextVersion(Request(s)) :
                Goto(s, IF Request(s).kind = "suite" THEN "insert" ELSE "resolve",
                     [NoView EXCEPT !.version = n, !.refs = Request(s).members])
    <3>. PICK n : Goto(s, IF Request(s).kind = "suite" THEN "insert" ELSE "resolve",
                       [NoView EXCEPT !.version = n, !.refs = Request(s).members])
      BY <2>1
    <3>1. DOMAIN [NoView EXCEPT !.version = n, !.refs = Request(s).members] = Fields
      BY ViewFields
    <3>2. held' = held \/ End(s)
      BY <1>1 DEF StartCreate
    <3>. QED
      BY <3>1, <3>2, <1>a, <1>0, GotoMoves DEF Labels
  <2>. QED
    BY <1>1, <1>a, <2>1 DEF StartCreate
<1>2. CASE InsertSuite(s)
  BY <1>2, <1>a, <1>0, GotoMoves, ViewFields DEF InsertSuite, At, Labels
<1>3. CASE Resolve(s)
  <2>. PICK ref \in view[s].refs :
          \/ End(s)
          \/ \E r : /\ Goto(s, "resolve", [view[s] EXCEPT !.refs = @ \ {ref},
                                                         !.pins = @ \cup {ItemKey(r)}])
                   /\ UNCHANGED held
    BY <1>3 DEF Resolve
  <2>1. ASSUME NEW r PROVE DOMAIN [view[s] EXCEPT !.refs = @ \ {ref},
                                                  !.pins = @ \cup {ItemKey(r)}] = Fields
    BY ViewFields
  <2>. QED
    BY <2>1, <1>a, <1>0, GotoMoves DEF Labels
<1>4. CASE CommitItem(s) \/ Archive(s) \/ Declare(s) \/ SetMode(s)
  BY <1>4, <1>a DEF CommitItem, Archive, Declare, SetMode
<1>5. CASE StartPreprocessing(s)
  <2>1. ASSUME NEW a PROVE DOMAIN [NoView EXCEPT !.row = {a}, !.record = nextId] = Fields
    BY ViewFields
  <2>. QED
    BY <2>1, <1>5, <1>a, <1>0, GotoMoves DEF StartPreprocessing, Labels
<1>6. CASE Parse(s)
  <2>. PICK n, b : \/ Goto(s, "fail", view[s])
                   \/ Goto(s, "part", [view[s] EXCEPT !.parts = n, !.from = b])
    BY <1>6 DEF Parse
  <2>1. DOMAIN [view[s] EXCEPT !.parts = n, !.from = b] = Fields
    BY ViewFields
  <2>2. held' = held
    BY <1>6 DEF Parse
  <2>. QED
    BY <2>1, <2>2, <1>0, GotoMoves, ViewFields DEF Labels
<1>7. CASE NextPart(s)
  <2>. PICK modes : Goto(s, "file", [view[s] EXCEPT !.parts = @ - 1, !.modes = modes])
    BY <1>7 DEF NextPart
  <2>1. DOMAIN [view[s] EXCEPT !.parts = @ - 1, !.modes = modes] = Fields
    BY ViewFields
  <2>2. held' = held
    BY <1>7 DEF NextPart
  <2>. QED
    BY <2>1, <2>2, <1>0, GotoMoves DEF Labels
<1>8. CASE RenderFails(s)
  BY <1>8, <1>0, GotoMoves, ViewFields DEF RenderFails, Labels
<1>9. CASE LookForFile(s)
  BY <1>9, <1>0, GotoMoves, ViewFields DEF LookForFile, AfterLookup, Labels
<1>10. CASE OpenFile(s)
  BY <1>10, <1>0, GotoMoves, ViewFields DEF OpenFile, Labels
<1>11. CASE CloseFile(s)
  BY <1>11, <1>0, GotoMoves, ViewFields DEF CloseFile, Labels
<1>12. CASE SaveRow(s)
  <2>. PICK new : Goto(s, IF Len(view[s].modes) = 1 THEN "part" ELSE "file",
                       [view[s] EXCEPT !.modes = Tail(@), !.out = @ \cup {new}])
    BY <1>12 DEF SaveRow
  <2>1. DOMAIN [view[s] EXCEPT !.modes = Tail(@), !.out = @ \cup {new}] = Fields
    BY ViewFields
  <2>2. held' = held
    BY <1>12 DEF SaveRow
  <2>. QED
    BY <2>1, <2>2, <1>0, GotoMoves DEF Labels
<1>13. CASE CommitRecord(s) \/ CommitDraft(s) \/ CommitEdit(s) \/ CommitRun(s)
  BY <1>13, <1>a DEF CommitRecord, CommitDraft, CommitEdit, CommitRun
<1>14. CASE StartDraft(s)
  BY <1>14, <1>a, <1>0, GotoMoves, ViewFields DEF StartDraft, At, Labels
<1>15. CASE StartEdit(s)
  BY <1>15, <1>a, <1>0, GotoMoves, ViewFields DEF StartEdit, At, Labels
<1>16. CASE StartRun(s)
  BY <1>16, <1>a, <1>0, GotoMoves, ViewFields DEF StartRun, At, Labels
<1>17. CASE LookForExperiment(s)
  BY <1>17, <1>a, <1>0, GotoMoves, ViewFields DEF LookForExperiment, Labels
<1>18. CASE ReadInput(s)
  <2>. PICK want \in view[s].wants :
          \/ End(s)
          \/ \E a, mode : /\ UNCHANGED held
                          /\ \/ Goto(s, "derive", [view[s] EXCEPT !.wants = @ \ {want},
                                              !.row = {a}, !.mode = mode])
                             \/ Goto(s, "resolve", [view[s] EXCEPT !.wants = @ \ {want},
                                              !.inputs = @ \cup {Input(a, a, mode)}])
    BY <1>18 DEF ReadInput
  <2>1. ASSUME NEW a, NEW mode
        PROVE  /\ DOMAIN [view[s] EXCEPT !.wants = @ \ {want}, !.row = {a}, !.mode = mode] = Fields
               /\ DOMAIN [view[s] EXCEPT !.wants = @ \ {want},
                                         !.inputs = @ \cup {Input(a, a, mode)}] = Fields
    BY ViewFields
  <2>. QED
    BY <2>1, <1>a, <1>0, GotoMoves DEF Labels
<1>19. CASE DeriveInput(s)
  <2>1. \/ End(s)
        \/ \E i : /\ UNCHANGED held
                 /\ Goto(s, "resolve", [view[s] EXCEPT !.inputs = @ \cup {i}])
    BY <1>19 DEF DeriveInput
  <2>2. ASSUME NEW i PROVE DOMAIN [view[s] EXCEPT !.inputs = @ \cup {i}] = Fields
    BY ViewFields
  <2>. QED
    BY <2>1, <2>2, <1>a, <1>0, GotoMoves DEF Labels
<1>20. CASE ReadRuns(s)
  BY <1>20, <1>0, GotoMoves, ViewFields DEF ReadRuns, Ready, Labels
<1>21. CASE InsertExperiment(s)
  BY <1>21, <1>a, <1>0, GotoMoves, ViewFields DEF InsertExperiment, Ready, Labels
<1>22. CASE Execute(s)
  BY <1>22, <1>0, GotoMoves, ViewFields DEF Execute, Labels
<1>23. CASE Die(s)
  <2>1. todo' \in [Sessions -> Seq(Requests)]
    BY <1>23 DEF Shape, Die
  <2>. QED
    BY <1>23, <2>1, NoViewFields DEF Shape, Moves, Die, Labels
<1>. QED
  BY <1>1, <1>2, <1>3, <1>4, <1>5, <1>6, <1>7, <1>8, <1>9, <1>10, <1>11, <1>12, <1>13, <1>14,
     <1>15, <1>16, <1>17, <1>18, <1>19, <1>20, <1>21, <1>22, <1>23 DEF Step
-----------------------------------------------------------------------------
\* Pins.

Keys == {ItemKey(r) : r \in items}

\* What a session has pinned, or read in a run, is committed.
ViewPins(v) ==
  /\ v.pins \subseteq Keys
  /\ \A e \in v.read : DOMAIN e = ExperimentColumns /\ PinsOfRuns(e.runs) \subseteq Keys

PinsInv ==
  /\ PinsResolve
  /\ \A r \in items : DOMAIN r = ItemColumns
  /\ \A e \in experiments : DOMAIN e = ExperimentColumns
  /\ \A s \in Sessions : ViewPins(view[s])

PinsKept == /\ \A r \in items : r.pins \subseteq Keys
            /\ \A e \in experiments : PinsOfRuns(e.runs) \subseteq Keys

LEMMA PinsAre == (Pins \subseteq Keys <=> PinsKept) /\ (Pins \subseteq Keys <=> PinsKept)'
<1>. DEFINE Mine(r) == r.pins
            Theirs(e) == PinsOfRuns(e.runs)
<1>1. ASSUME NEW I, NEW E, NEW K
      PROVE  (UNION {Mine(r) : r \in I}) \cup (UNION {Theirs(e) : e \in E}) \subseteq K
             <=> (\A r \in I : Mine(r) \subseteq K) /\ (\A e \in E : Theirs(e) \subseteq K)
  <2>. HIDE DEF Mine, Theirs
  <2>. QED OBVIOUS
<1>2. Pins \subseteq Keys <=> PinsKept
  <2>1. Pins = (UNION {Mine(r) : r \in items}) \cup (UNION {Theirs(e) : e \in experiments})
    BY Zenon DEF Pins
  <2>2. PinsKept <=> /\ \A r \in items : Mine(r) \subseteq Keys
                     /\ \A e \in experiments : Theirs(e) \subseteq Keys
    BY Zenon DEF PinsKept
  <2>. HIDE DEF Mine, Theirs
  <2>. QED
    BY <1>1, <2>1, <2>2
<1>3. (Pins \subseteq Keys <=> PinsKept)'
  <2>1. Pins' = (UNION {Mine(r) : r \in items'}) \cup (UNION {Theirs(e) : e \in experiments'})
    BY Zenon DEF Pins
  <2>2. PinsKept' <=> /\ \A r \in items' : Mine(r) \subseteq Keys'
                      /\ \A e \in experiments' : Theirs(e) \subseteq Keys'
    BY Zenon DEF PinsKept
  <2>. HIDE DEF Mine, Theirs
  <2>. QED
    BY <1>1, <2>1, <2>2
<1>. QED
  BY <1>2, <1>3

LEMMA PinsFacts ==
  ASSUME PinsInv
  PROVE  /\ \A r \in items : DOMAIN r = ItemColumns /\ r.pins \subseteq Keys
         /\ \A e \in experiments : DOMAIN e = ExperimentColumns
                                 /\ PinsOfRuns(e.runs) \subseteq Keys
         /\ \A x, y \in items : ItemKey(x) = ItemKey(y) => x = y
BY PinsAre DEF PinsInv, PinsResolve, PinsKept, Keys

\* Rows are told apart as before, and none is gone.
LEMMA MorePins ==
  ASSUME Shape, PinsInv, NEW s \in Sessions, Moves(s),
         Keys \subseteq Keys', ViewPins(view[s])',
         \A x, y \in items' : ItemKey(x) = ItemKey(y) => x = y,
         \A r \in items' : DOMAIN r = ItemColumns /\ r.pins \subseteq Keys',
         \A e \in experiments' : DOMAIN e = ExperimentColumns /\ PinsOfRuns(e.runs) \subseteq Keys'
  PROVE  PinsInv'
<1>1. ASSUME NEW t \in Sessions \ {s} PROVE ViewPins(view[t])'
  <2>1. view'[t] = view[t]
    BY DEF Moves
  <2>2. ViewPins(view[t])
    BY DEF PinsInv
  <2>. QED
    BY <2>1, <2>2 DEF ViewPins
<1>2. PinsResolve'
  BY PinsAre DEF PinsResolve, PinsKept, Keys
<1>. QED
  BY <1>1, <1>2 DEF PinsInv

\* Most steps change neither table and read no pins.
Quiet(s) ==
  /\ Moves(s) /\ UNCHANGED <<items, experiments>>
  /\ view'[s].pins \subseteq view[s].pins /\ view'[s].read \subseteq view[s].read

LEMMA PinsQuiet ==
  ASSUME Shape, PinsInv, NEW s \in Sessions, Quiet(s)
  PROVE  PinsInv'
<1>1. Keys' = Keys
  BY DEF Quiet, Keys
<1>2. ViewPins(view[s])'
  BY <1>1 DEF Quiet, PinsInv, ViewPins
<1>. QED
  BY <1>1, <1>2, PinsFacts, MorePins DEF Quiet

LEMMA QuietActions ==
  ASSUME Shape, NEW s \in Sessions, Moves(s),
         \/ StartCreate(s) \/ InsertSuite(s) \/ Declare(s) \/ SetMode(s)
         \/ StartPreprocessing(s) \/ Parse(s) \/ NextPart(s) \/ RenderFails(s)
         \/ LookForFile(s) \/ OpenFile(s) \/ CloseFile(s) \/ SaveRow(s) \/ CommitRecord(s)
         \/ StartDraft(s) \/ StartRun(s)
         \/ ReadInput(s) \/ DeriveInput(s) \/ Execute(s) \/ Die(s)
  PROVE  Quiet(s)
<1>0. DOMAIN view[s] = Fields /\ NoView.pins = {} /\ NoView.read = {}
  BY DEF Shape, NoView
<1>1. UNCHANGED <<items, experiments>>
  BY DEF StartCreate, InsertSuite, Declare, SetMode, StartPreprocessing, Parse, NextPart,
     RenderFails, LookForFile, OpenFile, CloseFile, SaveRow, CommitRecord, StartDraft,
     StartRun, ReadInput, DeriveInput, Execute, Die, rows
<1>2. CASE End(s)
  BY <1>0, <1>1, <1>2, EndView DEF Quiet
<1>3. CASE view'[s] = view[s]
  BY <1>0, <1>1, <1>3 DEF Quiet
<1>4. CASE InsertSuite(s) \/ Declare(s) \/ SetMode(s) \/ CommitRecord(s)
  BY <1>2, <1>3, <1>4, GotoView DEF InsertSuite, Declare, SetMode, CommitRecord
<1>5. CASE LookForFile(s) \/ OpenFile(s) \/ CloseFile(s) \/ Execute(s)
  BY <1>3, <1>5, GotoView DEF LookForFile, OpenFile, CloseFile, Execute
<1>6. CASE StartCreate(s)
  <2>1. CASE \E l, n, m : Goto(s, l, [NoView EXCEPT !.version = n, !.refs = m])
    <3>. PICK l, n, m : Goto(s, l, [NoView EXCEPT !.version = n, !.refs = m])
      BY <2>1
    <3>1. view'[s] = [NoView EXCEPT !.version = n, !.refs = m]
      BY GotoView
    <3>. QED
      BY <1>0, <1>1, <3>1 DEF NoView, Quiet
  <2>. QED
    BY <1>2, <1>6, <2>1 DEF StartCreate
<1>7. CASE StartPreprocessing(s)
  <2>1. CASE \E l, a, n : Goto(s, l, [NoView EXCEPT !.row = a, !.record = n])
    <3>. PICK l, a, n : Goto(s, l, [NoView EXCEPT !.row = a, !.record = n])
      BY <2>1
    <3>1. view'[s] = [NoView EXCEPT !.row = a, !.record = n]
      BY GotoView
    <3>. QED
      BY <1>0, <1>1, <3>1 DEF NoView, Quiet
  <2>. QED
    BY <1>2, <1>7, <2>1 DEF StartPreprocessing
<1>8. CASE Parse(s)
  <2>. PICK n, b : \/ Goto(s, "fail", view[s])
                   \/ Goto(s, "part", [view[s] EXCEPT !.parts = n, !.from = b])
    BY <1>8 DEF Parse
  <2>1. view'[s] = view[s] \/ view'[s] = [view[s] EXCEPT !.parts = n, !.from = b]
    BY GotoView
  <2>. QED
    BY <1>0, <1>1, <2>1 DEF Fields, Quiet
<1>9. CASE NextPart(s)
  <2>. PICK modes : Goto(s, "file", [view[s] EXCEPT !.parts = @ - 1, !.modes = modes])
    BY <1>9 DEF NextPart
  <2>1. view'[s] = [view[s] EXCEPT !.parts = @ - 1, !.modes = modes]
    BY GotoView
  <2>. QED
    BY <1>0, <1>1, <2>1 DEF Fields, Quiet
<1>10. CASE RenderFails(s)
  <2>1. view'[s] = [view[s] EXCEPT !.out = RowsAfterFailure(s)]
    BY <1>10, GotoView DEF RenderFails
  <2>. QED
    BY <1>0, <1>1, <2>1 DEF Fields, Quiet
<1>11. CASE SaveRow(s)
  <2>. PICK l, new : Goto(s, l, [view[s] EXCEPT !.modes = Tail(@), !.out = @ \cup {new}])
    BY <1>11 DEF SaveRow
  <2>1. view'[s] = [view[s] EXCEPT !.modes = Tail(@), !.out = @ \cup {new}]
    BY GotoView
  <2>. QED
    BY <1>0, <1>1, <2>1 DEF Fields, Quiet
<1>12. CASE StartDraft(s) \/ StartRun(s)
  <2>1. CASE \E l, m : Goto(s, l, Snapshots(s, m))
    <3>. PICK l, m : Goto(s, l, Snapshots(s, m))
      BY <2>1
    <3>1. view'[s] = Snapshots(s, m)
      BY GotoView
    <3>. QED
      BY <1>0, <1>1, <3>1 DEF Fields, Snapshots, Quiet
  <2>. QED
    BY <1>2, <1>12, <2>1 DEF StartDraft, StartRun
<1>13. CASE ReadInput(s)
  <2>1. CASE \E want, a, mode : Goto(s, "derive", [view[s] EXCEPT !.wants = @ \ {want},
                                                    !.row = {a}, !.mode = mode])
    <3>. PICK want, a, mode : Goto(s, "derive", [view[s] EXCEPT !.wants = @ \ {want},
                                                 !.row = {a}, !.mode = mode])
      BY <2>1
    <3>1. view'[s] = [view[s] EXCEPT !.wants = @ \ {want}, !.row = {a}, !.mode = mode]
      BY GotoView
    <3>. QED
      BY <1>0, <1>1, <3>1 DEF Fields, Quiet
  <2>2. CASE \E want, i : Goto(s, "resolve", [view[s] EXCEPT !.wants = @ \ {want},
                                                             !.inputs = @ \cup {i}])
    <3>. PICK want, i : Goto(s, "resolve", [view[s] EXCEPT !.wants = @ \ {want},
                                                           !.inputs = @ \cup {i}])
      BY <2>2
    <3>1. view'[s] = [view[s] EXCEPT !.wants = @ \ {want}, !.inputs = @ \cup {i}]
      BY GotoView
    <3>. QED
      BY <1>0, <1>1, <3>1 DEF Fields, Quiet
  <2>. QED
    BY <1>2, <1>13, <2>1, <2>2 DEF ReadInput
<1>14. CASE DeriveInput(s)
  <2>1. CASE \E i : Goto(s, "resolve", [view[s] EXCEPT !.inputs = @ \cup {i}])
    <3>. PICK i : Goto(s, "resolve", [view[s] EXCEPT !.inputs = @ \cup {i}])
      BY <2>1
    <3>1. view'[s] = [view[s] EXCEPT !.inputs = @ \cup {i}]
      BY GotoView
    <3>. QED
      BY <1>0, <1>1, <3>1 DEF Fields, Quiet
  <2>. QED
    BY <1>2, <1>14, <2>1 DEF DeriveInput
<1>15. CASE Die(s)
  <2>1. view'[s] = NoView
    BY <1>15 DEF Shape, Die
  <2>. QED
    BY <1>0, <1>1, <2>1 DEF Quiet
<1>. QED
  BY <1>4, <1>5, <1>6, <1>7, <1>8, <1>9, <1>10, <1>11, <1>12, <1>13, <1>14, <1>15

\* A row that is inserted has a key that is not taken, and its pins were looked
\* up; what an archived row is told apart by stays.
LEMMA ItemsKeepPins ==
  ASSUME Shape, PinsInv, NEW s \in Sessions, Moves(s), CommitItem(s) \/ Archive(s)
  PROVE  PinsInv'
<1>0. view'[s] = NoView /\ experiments' = experiments /\ NoView.pins = {} /\ NoView.read = {}
  BY EndView DEF CommitItem, Archive, NoView
<1>1. ViewPins(view[s])'
  BY <1>0 DEF ViewPins
<1>2. /\ \A r \in items : DOMAIN r = ItemColumns /\ r.pins \subseteq Keys
      /\ \A e \in experiments : DOMAIN e = ExperimentColumns /\ PinsOfRuns(e.runs) \subseteq Keys
      /\ \A x, y \in items : ItemKey(x) = ItemKey(y) => x = y
      /\ view[s].pins \subseteq Keys
  BY PinsFacts DEF PinsInv, ViewPins
<1>3. CASE CommitItem(s)
  <2>. DEFINE new == [kind |-> Request(s).kind, slug |-> Request(s).slug,
                      version |-> view[s].version, split |-> Request(s).split,
                      pins |-> view[s].pins, archived |-> Request(s).archived]
  <2>1. CASE items' = items
    <3>1. Keys' = Keys
      BY <2>1 DEF Keys
    <3>. QED
      BY <1>0, <1>1, <1>2, <2>1, <3>1, MorePins
  <2>2. CASE items' = items \cup {new} /\ ~Taken(NewKey(s))
    <3>1. DOMAIN new = ItemColumns /\ new.pins = view[s].pins /\ ItemKey(new) = NewKey(s)
      BY DEF ItemColumns, ItemKey, NewKey
    <3>2. \A x \in items : ItemKey(x) # ItemKey(new)
      BY <2>2, <3>1 DEF Taken
    <3>. HIDE DEF new
    <3>3. Keys \subseteq Keys'
      BY <2>2 DEF Keys
    <3>4. /\ \A x, y \in items' : ItemKey(x) = ItemKey(y) => x = y
          /\ \A r \in items' : DOMAIN r = ItemColumns /\ r.pins \subseteq Keys'
      BY <1>2, <2>2, <3>1, <3>2, <3>3
    <3>. QED
      BY <1>0, <1>1, <1>2, <3>3, <3>4, MorePins
  <2>. QED
    BY <1>3, <2>1, <2>2 DEF CommitItem
<1>4. CASE Archive(s)
  <2>. DEFINE A(r) == IF ItemKey(r) = Request(s).key THEN [r EXCEPT !.archived = TRUE] ELSE r
  <2>1. items' = {A(r) : r \in items}
    BY <1>4 DEF Archive
  <2>2. \A r \in items : /\ DOMAIN A(r) = ItemColumns /\ A(r).pins = r.pins
                        /\ ItemKey(A(r)) = ItemKey(r)
    BY <1>2 DEF ItemColumns, ItemKey
  <2>. HIDE DEF A
  <2>3. Keys' = Keys
    <3>1. Keys' = {ItemKey(r) : r \in items'}
      BY DEF Keys, ItemKey
    <3>. QED
      BY <2>1, <2>2, <3>1 DEF Keys
  <2>4. /\ \A x, y \in items' : ItemKey(x) = ItemKey(y) => x = y
        /\ \A r \in items' : DOMAIN r = ItemColumns /\ r.pins \subseteq Keys'
    BY <1>2, <2>1, <2>2, <2>3
  <2>. QED
    BY <1>0, <1>1, <1>2, <2>3, <2>4, MorePins
<1>. QED
  BY <1>3, <1>4

\* A session pins what it finds.
LEMMA ResolvePins ==
  ASSUME Shape, PinsInv, NEW s \in Sessions, Moves(s), Resolve(s)
  PROVE  PinsInv'
<1>1. CASE End(s)
  <2>1. Quiet(s)
    <3>1. UNCHANGED <<items, experiments>>
      BY DEF Resolve, rows
    <3>2. view'[s] = NoView /\ NoView.pins = {} /\ NoView.read = {}
      BY <1>1, EndView DEF NoView
    <3>. QED
      BY <3>1, <3>2 DEF Quiet
  <2>. QED
    BY <2>1, PinsQuiet
<1>2. CASE \E ref \in view[s].refs : \E x \in Found(ref) :
             Goto(s, "resolve", [view[s] EXCEPT !.refs = @ \ {ref},
                                                !.pins = @ \cup {ItemKey(x)}])
  <2>. PICK ref \in view[s].refs : \E x \in Found(ref) :
            Goto(s, "resolve", [view[s] EXCEPT !.refs = @ \ {ref},
                                               !.pins = @ \cup {ItemKey(x)}])
    BY <1>2
  <2>. PICK x \in Found(ref) :
            Goto(s, "resolve", [view[s] EXCEPT !.refs = @ \ {ref},
                                               !.pins = @ \cup {ItemKey(x)}])
    OBVIOUS
  <2>1. view'[s] = [view[s] EXCEPT !.refs = @ \ {ref}, !.pins = @ \cup {ItemKey(x)}]
    BY GotoView
  <2>2. view'[s].pins = view[s].pins \cup {ItemKey(x)} /\ view'[s].read = view[s].read
    BY <2>1 DEF Shape, Fields
  <2>3. x \in items
    BY DEF Found, BySlug, OfKind
  <2>4. items' = items /\ experiments' = experiments
    BY DEF Resolve, rows
  <2>5. Keys' = Keys
    BY <2>4 DEF Keys
  <2>6. ViewPins(view[s])'
    BY <2>2, <2>3, <2>5 DEF PinsInv, ViewPins, Keys
  <2>. QED
    BY <2>4, <2>5, <2>6, PinsFacts, MorePins
<1>. QED
  BY <1>1, <1>2 DEF Resolve

\* What a session reads of an experiment, its columns first and its runs later,
\* was committed.
LEMMA ReadPins ==
  ASSUME Shape, PinsInv, NEW s \in Sessions, Moves(s),
         StartEdit(s) \/ LookForExperiment(s) \/ ReadRuns(s)
  PROVE  PinsInv'
<1>0. DOMAIN view[s] = Fields /\ NoView.pins = {} /\ NoView.read = {}
  BY DEF Shape, NoView
<1>1. UNCHANGED <<items, experiments>>
  BY DEF StartEdit, LookForExperiment, ReadRuns, rows
<1>2. CASE /\ view'[s].pins = view[s].pins
           /\ \A e \in view'[s].read : /\ DOMAIN e = ExperimentColumns
                                       /\ PinsOfRuns(e.runs) \subseteq Keys
  <2>1. Keys' = Keys
    BY <1>1 DEF Keys
  <2>2. ViewPins(view[s])'
    BY <1>2, <2>1 DEF PinsInv, ViewPins
  <2>. QED
    BY <1>1, <2>1, <2>2, PinsFacts, MorePins
<1>3. CASE End(s) \/ Goto(s, "resolve", view[s])
  <2>1. Quiet(s)
    BY <1>0, <1>1, <1>3, EndView, GotoView DEF Quiet
  <2>. QED
    BY <2>1, PinsQuiet
<1>4. CASE StartEdit(s) /\ ~End(s)
  <2>. DEFINE m == Request(s).manifest
  <2>1. view'[s] = [Snapshots(s, m) EXCEPT !.read = RowsOf(m.id)]
    BY <1>4, GotoView DEF StartEdit
  <2>2. view'[s].pins = view[s].pins /\ view'[s].read = RowsOf(m.id)
    BY <1>0, <2>1 DEF Snapshots, Fields
  <2>. QED
    BY <1>2, <2>2, PinsFacts DEF RowsOf
<1>5. CASE \E m : Goto(s, "execute", [view[s] EXCEPT !.read = RowsOf(m)])
  <2>. PICK m : Goto(s, "execute", [view[s] EXCEPT !.read = RowsOf(m)])
    BY <1>5
  <2>1. view'[s] = [view[s] EXCEPT !.read = RowsOf(m)]
    BY GotoView
  <2>2. view'[s].pins = view[s].pins /\ view'[s].read = RowsOf(m)
    BY <1>0, <2>1 DEF Fields
  <2>. QED
    BY <1>2, <2>2, PinsFacts DEF RowsOf
<1>6. CASE ReadRuns(s)
  <2>. PICK e \in experiments :
         Goto(s, "write", [view[s] EXCEPT !.read = {[x EXCEPT !.runs = e.runs] : x \in @}])
    BY <1>6 DEF ReadRuns, RowsOf
  <2>1. view'[s] = [view[s] EXCEPT !.read = {[x EXCEPT !.runs = e.runs] : x \in @}]
    BY GotoView
  <2>2. /\ view'[s].pins = view[s].pins
        /\ view'[s].read = {[x EXCEPT !.runs = e.runs] : x \in view[s].read}
    BY <1>0, <2>1 DEF Fields
  <2>3. ASSUME NEW x \in view[s].read
        PROVE  LET y == [x EXCEPT !.runs = e.runs]
               IN  DOMAIN y = ExperimentColumns /\ PinsOfRuns(y.runs) \subseteq Keys
    <3>1. DOMAIN x = ExperimentColumns /\ PinsOfRuns(e.runs) \subseteq Keys
      BY PinsFacts DEF PinsInv, ViewPins
    <3>. QED
      BY <3>1 DEF ExperimentColumns
  <2>. QED
    BY <1>2, <2>2, <2>3
<1>. QED
  BY <1>3, <1>4, <1>5, <1>6 DEF LookForExperiment

LEMMA NewRunsPins ==
  ASSUME NEW s \in Sessions, NEW m
  PROVE  PinsOfRuns(NewRuns(s, m)) \subseteq view[s].pins
BY DEF PinsOfRuns, NewRuns, PinsOf

LEMMA PinsOfMore ==
  ASSUME NEW R, NEW S, NEW K, NEW kept,
         PinsOfRuns(R) \subseteq K, PinsOfRuns(S) \subseteq K, kept \subseteq R
  PROVE  PinsOfRuns(kept \cup S) \subseteq K
BY DEF PinsOfRuns

\* The rows of an experiment that is written have pins of the session's or of
\* the row they were in.
LEMMA ExperimentsKeepPins ==
  ASSUME Shape, PinsInv, NEW s \in Sessions, Moves(s),
         CommitDraft(s) \/ CommitEdit(s) \/ InsertExperiment(s) \/ CommitRun(s)
  PROVE  PinsInv'
<1>0. items' = items /\ Keys' = Keys
  BY DEF CommitDraft, CommitEdit, InsertExperiment, CommitRun, Keys, rows
<1>1. view[s].pins \subseteq Keys
  BY DEF PinsInv, ViewPins
<1>2. NoView.pins = {} /\ NoView.read = {}
  BY DEF NoView
<1>3. ASSUME NEW m, NEW status
      PROVE  LET e == NewExperiment(s, m, status)
             IN  /\ DOMAIN e = ExperimentColumns /\ e.runs = NewRuns(s, m)
                 /\ PinsOfRuns(e.runs) \subseteq Keys
  BY <1>1, NewRunsPins DEF NewExperiment, ExperimentColumns
<1>4. CASE CommitDraft(s)
  <2>1. ViewPins(view[s])'
    BY <1>2, <1>4, EndView DEF CommitDraft, ViewPins
  <2>2. \A e \in experiments' : /\ DOMAIN e = ExperimentColumns
                                /\ PinsOfRuns(e.runs) \subseteq Keys'
    BY <1>0, <1>3, <1>4, PinsFacts DEF CommitDraft
  <2>. QED
    BY <1>0, <2>1, <2>2, PinsFacts, MorePins
<1>5. CASE CommitEdit(s)
  <2>1. ViewPins(view[s])'
    BY <1>2, <1>5, EndView DEF CommitEdit, ViewPins
  <2>2. CASE experiments' = experiments
    BY <1>0, <2>1, <2>2, PinsFacts, MorePins
  <2>3. CASE \E m, old, e, kept :
               /\ e \in experiments /\ kept \subseteq e.runs
               /\ experiments' = (experiments \ {e}) \cup
                    {[Flushed(old, NewExperiment(s, m, "draft"), e) EXCEPT
                        !.runs = RunsAfterEdit(s, m, kept)]}
    <3>. PICK m, old, e, kept :
               /\ e \in experiments /\ kept \subseteq e.runs
               /\ experiments' = (experiments \ {e}) \cup
                    {[Flushed(old, NewExperiment(s, m, "draft"), e) EXCEPT
                        !.runs = RunsAfterEdit(s, m, kept)]}
      BY <2>3
    <3>. DEFINE new == [Flushed(old, NewExperiment(s, m, "draft"), e) EXCEPT
                          !.runs = RunsAfterEdit(s, m, kept)]
    <3>0. DOMAIN e = ExperimentColumns
      BY PinsFacts
    <3>1. DOMAIN new = ExperimentColumns /\ new.runs = kept \cup NewRuns(s, m)
      BY <3>0 DEF ExperimentColumns, Flushed, RunsAfterEdit
    <3>2. PinsOfRuns(new.runs) \subseteq Keys
      <4>1. PinsOfRuns(e.runs) \subseteq Keys /\ PinsOfRuns(NewRuns(s, m)) \subseteq Keys
        BY <1>1, NewRunsPins, PinsFacts
      <4>. QED
        BY <3>1, <4>1, PinsOfMore
    <3>. HIDE DEF new
    <3>3. \A x \in experiments' : /\ DOMAIN x = ExperimentColumns
                                  /\ PinsOfRuns(x.runs) \subseteq Keys'
      BY <1>0, <3>1, <3>2, PinsFacts DEF new
    <3>. QED
      BY <1>0, <2>1, <3>3, PinsFacts, MorePins
  <2>4. \E m, old, e, kept :
           /\ e \in experiments /\ kept \subseteq e.runs
           /\ \/ experiments' = experiments
              \/ experiments' = (experiments \ {e}) \cup
                   {[Flushed(old, NewExperiment(s, m, "draft"), e) EXCEPT
                       !.runs = RunsAfterEdit(s, m, kept)]}
    <3>. PICK old \in view[s].read, m \in view[s].manifest, e \in experiments :
           LET new == NewExperiment(s, m, "draft")
           IN  IF Mixed(view[s].inputs) \/ EditConflicts(old, new, e)
               THEN UNCHANGED <<experiments, overlapped>>
               ELSE /\ experiments' = (experiments \ {e}) \cup
                         {[Flushed(old, new, e) EXCEPT
                             !.runs = RunsAfterEdit(s, m, e.runs \ old.runs)]}
                    /\ overlapped' = IF Current(old, e) THEN overlapped
                                     ELSE overlapped \cup {m.id}
      BY <1>5, Zenon DEF CommitEdit
    <3>1. e.runs \ old.runs \subseteq e.runs
      OBVIOUS
    <3>. QED
      BY <3>1, Zenon
  <2>. QED
    BY <2>2, <2>3, <2>4
<1>6. CASE InsertExperiment(s)
  <2>1. CASE End(s)
    <3>1. Quiet(s)
      BY <1>0, <1>2, <1>6, <2>1, EndView DEF InsertExperiment, rows, Quiet
    <3>. QED
      BY <3>1, PinsQuiet
  <2>2. CASE \E m : Goto(s, "running", [view[s] EXCEPT !.read = {NewExperiment(s, m, "running")}])
    <3>. PICK m : Goto(s, "running", [view[s] EXCEPT !.read = {NewExperiment(s, m, "running")}])
      BY <2>2
    <3>1. view'[s] = [view[s] EXCEPT !.read = {NewExperiment(s, m, "running")}]
      BY GotoView
    <3>2. ViewPins(view[s])'
      BY <1>0, <1>1, <1>3, <3>1 DEF Shape, Fields, ViewPins
    <3>3. experiments' = experiments
      BY <1>6 DEF InsertExperiment, rows
    <3>. QED
      BY <1>0, <3>2, <3>3, PinsFacts, MorePins
  <2>. QED
    BY <1>6, <2>1, <2>2 DEF InsertExperiment
<1>7. CASE CommitRun(s)
  <2>1. ViewPins(view[s])'
    BY <1>2, <1>7, EndView DEF CommitRun, ViewPins
  <2>. PICK read \in view[s].read :
       LET e == IF RowsOf(read.id) = {} THEN read ELSE CHOOSE x \in RowsOf(read.id) : TRUE
       IN  experiments' = (experiments \ {e}) \cup
             {[e EXCEPT !.local_only = Restored(s, e, read), !.status = "complete"]}
    BY <1>7 DEF CommitRun
  <2>. PICK e : /\ e = read \/ e \in experiments
                /\ experiments' = (experiments \ {e}) \cup
                     {[e EXCEPT !.local_only = Restored(s, e, read), !.status = "complete"]}
    BY DEF RowsOf
  <2>2. DOMAIN e = ExperimentColumns /\ PinsOfRuns(e.runs) \subseteq Keys
    BY PinsFacts DEF PinsInv, ViewPins
  <2>. DEFINE new == [e EXCEPT !.local_only = Restored(s, e, read), !.status = "complete"]
  <2>3. DOMAIN new = ExperimentColumns /\ new.runs = e.runs
    BY <2>2 DEF ExperimentColumns
  <2>. HIDE DEF new
  <2>4. \A x \in experiments' : /\ DOMAIN x = ExperimentColumns
                                /\ PinsOfRuns(x.runs) \subseteq Keys'
    BY <1>0, <2>2, <2>3, PinsFacts DEF new
  <2>. QED
    BY <1>0, <2>1, <2>4, PinsFacts, MorePins
<1>. QED
  BY <1>4, <1>5, <1>6, <1>7

LEMMA PinsStep ==
  ASSUME Shape, PinsInv, NEW s \in Sessions, Moves(s),
         Step(s)
  PROVE  PinsInv'
BY QuietActions, PinsQuiet, ItemsKeepPins, ResolvePins, ReadPins, ExperimentsKeepPins DEF Step

LEMMA InitShape == Init => Shape
<1>. SUFFICES ASSUME Init PROVE Shape
  OBVIOUS
<1>1. todo \in [Sessions -> Seq(Requests)]
  BY LibraryAssumption DEF Init
<1>. QED
  BY <1>1, NoViewFields DEF Init, Shape, Labels

LEMMA InitPins == Init => PinsInv
<1>. SUFFICES ASSUME Init PROVE PinsInv
  OBVIOUS
<1>1. items = Items0 /\ experiments = Experiments0
  BY DEF Init
<1>2. \A r \in items : r.pins \subseteq Keys
  BY <1>1, LibraryAssumption DEF Keys, ItemKey
<1>3. \A e \in experiments : PinsOfRuns(e.runs) \subseteq Keys
  <2>1. ASSUME NEW e \in experiments, NEW r \in e.runs PROVE r.case \in Keys /\ r.model \in Keys
    BY <1>1, LibraryAssumption DEF Keys, ItemKey
  <2>. QED
    BY <2>1 DEF PinsOfRuns
<1>4. PinsResolve
  <2>1. \A x, y \in items : ItemKey(x) = ItemKey(y) => x = y
    BY <1>1, LibraryAssumption DEF ItemKey
  <2>. QED
    BY <1>2, <1>3, <2>1, PinsAre DEF PinsKept, PinsResolve, Keys
<1>5. \A s \in Sessions : ViewPins(view[s])
  BY DEF Init, NoView, ViewPins
<1>. QED
  BY <1>1, <1>4, <1>5, LibraryAssumption DEF PinsInv

LEMMA PinsStutter == Shape /\ PinsInv /\ UNCHANGED vars => Shape' /\ PinsInv'
<1>. SUFFICES ASSUME Shape, PinsInv, UNCHANGED vars PROVE Shape' /\ PinsInv'
  OBVIOUS
<1>1. Shape'
  BY DEF Shape, vars, sessions
<1>2. items' = items /\ experiments' = experiments /\ view' = view
  BY DEF vars, sessions, rows
<1>3. Keys' = Keys /\ PinsResolve'
  BY <1>2 DEF PinsInv, PinsResolve, Pins, Keys
<1>. QED
  BY <1>1, <1>2, <1>3 DEF PinsInv, ViewPins

\* Whatever a row or a run pins is one committed row, in every library and for
\* all requests (PinsResolve).
THEOREM PinsAlwaysResolve == Spec => []PinsResolve
<1>1. Shape /\ PinsInv /\ [Next]_vars => Shape' /\ PinsInv'
  <2>1. ASSUME Shape, PinsInv, Next PROVE Shape' /\ PinsInv'
    <3>. PICK s \in Sessions : Step(s)
      BY <2>1 DEF Next
    <3>1. Moves(s)
      BY <2>1, ActionsMove
    <3>. QED
      BY <2>1, <3>1, PinsStep DEF Moves
  <2>. QED
    BY <2>1, PinsStutter
<1>2. PinsInv => PinsResolve
  BY DEF PinsInv
<1>. QED
  BY <1>1, <1>2, InitShape, InitPins, PTL DEF Spec
=============================================================================
