------------------------------ MODULE Library ------------------------------
(***************************************************************************)
(* The project's library (versioned rows, artifacts and what preprocessing *)
(* derives from them) and the experiments that are made of it, under       *)
(* concurrent sessions.                                                    *)
(*                                                                         *)
(* items, artifacts, records and experiments are the committed rows.  A    *)
(* session does the requests of its script one after the other; it reads   *)
(* committed rows one statement at a time and keeps what it read in view.  *)
(* What it has flushed but not committed is in view too, and held names    *)
(* the unique keys and the rows that this locks.  The files of the         *)
(* artifact storage belong to no transaction.                              *)
(*                                                                         *)
(* Prompts, warmers and evaluators are pinned in the same way as cases and *)
(* models, the two dimensions of a design that are here.  Items given      *)
(* inline in a manifest are left out, as are binding keys in the metadata  *)
(* a client declares.                                                      *)
(***************************************************************************)
EXTENDS Naturals, Sequences, FiniteSets

CONSTANTS
  Sessions,
  Mortal,      \* the sessions that may die in the middle of a request
  Scripts,     \* the requests the sessions may come to make
  Items0,      \* the library to begin with
  Artifacts0,  \* its artifacts, whose files an operator put into the storage
  Experiments0

NoRow == 0

\* What is written in the model's place of a version when the latest is meant.
Newest == 0

DerivedModes ==
  {"pdf_text", "pdf_page_screenshots", "ocr_text", "selected_figures",
   "table_extraction", "retrieval_chunks", "paper_cards"}

\* A manifest: the rows it refers to by kind, slug and version, the cases and
\* models its design selects ({} for all, {ids} for some) and its controls.
Ids(refs) == {r[2] : r \in refs}

\* _selected_ids
SelectedIds(refs, only) == IF only = {} THEN Ids(refs) ELSE UNION only

\* _validate_duplicate_ids
UniqueIds(m) ==
  /\ \A x, y \in m.cases \cup m.models : x[1] = y[1] /\ x[2] = y[2] => x = y
  /\ \A x, y \in m.artifacts : x[1] = y[1] => x = y

\* _validate_design_references
SelectsKnown(refs, only) == \A ids \in only : ids # {} /\ ids \subseteq Ids(refs)

\* validate_manifest_payload
Valid(m) ==
  /\ m.cases # {} /\ m.models # {} /\ m.replicates >= 1 /\ UniqueIds(m)
  /\ SelectsKnown(m.cases, m.only_cases) /\ SelectsKnown(m.models, m.only_models)

\* expand_manifest: the full factorial, with the number of attempts of each run.
Expansion(m) ==
  SelectedIds(m.cases, m.only_cases) \X SelectedIds(m.models, m.only_models) \X {m.replicates}

\* What a run is of; case and model name it (run_id is their hash).
RunOf(r)  == <<r.case[2], r.model[2], r.attempts>>
RunIds(R) == {<<r.case[2], r.model[2]>> : r \in R}

\* The runs that one request made are all there: each of its cases with each of
\* its models.
BatchesAreWhole(R) ==
  \A r, q \in R : r.by = q.by =>
    \E x \in R : x.by = r.by /\ x.case = r.case /\ x.model = q.model

\* The columns of the tables.
ItemColumns       == {"kind", "slug", "version", "split", "pins", "archived"}
ArtifactColumns   == {"id", "slug", "version", "mode", "file", "source", "record", "from", "bound"}
ExperimentColumns == {"id", "manifest", "inputs", "runs", "local_only", "status"}

\* What clients write: manifests, which are not named as the runs of suites, and
\* the members of suites.
Written(m) ==
  /\ Len(m.id) = 1
  /\ \A x \in m.cases : x[1] = "case"
  /\ \A x \in m.models : x[1] = "model"

KeepsKinds(kind, members) == kind = "suite" => \A x \in members : x[1] \in {"case", "model"}

Requests ==
  UNION {UNION {{script[s][i] : i \in DOMAIN script[s]} : s \in Sessions} : script \in Scripts}

\* Versions count from one, and rows are told apart by their unique keys.  Judge
\* configs and suites alone can be archived once they are there.  The files that
\* clients know are not named as those that preprocessing makes.  The runs of an
\* experiment were made at once, and by no request that made another's.
ASSUME LibraryAssumption ==
  /\ Mortal \subseteq Sessions
  /\ Scripts \subseteq [Sessions -> Seq(Requests)]
  /\ \A r \in Requests : /\ r.op = "create" => r.version \in Nat
                         /\ r.op = "create" => KeepsKinds(r.kind, r.members)
                         /\ r.op = "create" => r.archived \in BOOLEAN
                         /\ r.op = "archive" => r.key[1] \in {"judge", "suite"}
                         /\ r.op \in {"draft", "edit", "run_manifest"} => Written(r.manifest)
                         /\ r.op = "preprocess" => r.parts \in Nat \ {0}
                         /\ r.op = "declare" => Len(r.file) = 1
  /\ \A r \in Items0 : /\ DOMAIN r = ItemColumns
                       /\ r.version \in Nat \ {0} /\ r.archived \in BOOLEAN
                       /\ KeepsKinds(r.kind, r.pins)
  /\ \A x, y \in Items0 :
       x.kind = y.kind /\ x.slug = y.slug /\ x.version = y.version => x = y
  /\ \A r \in Items0 : \A pin \in r.pins :
       \E x \in Items0 : pin = <<x.kind, x.slug, x.version>>
  /\ \A a \in Artifacts0 : /\ DOMAIN a = ArtifactColumns
                           /\ a.id \in 1 .. 9 /\ a.source = NoRow /\ a.record = NoRow
                           /\ ~a.bound /\ Len(a.file) = 1
  /\ \A x, y \in Artifacts0 : x.id = y.id => x = y
  /\ \A e \in Experiments0 : /\ DOMAIN e = ExperimentColumns
                             /\ e.status = "draft" /\ e.inputs = {}
                             /\ e.id = e.manifest.id /\ Written(e.manifest)
                             /\ e.local_only = e.manifest.local_only
                             /\ {RunOf(r) : r \in e.runs} = Expansion(e.manifest)
                             /\ BatchesAreWhole(e.runs)
                             /\ \A r \in e.runs :
                                  /\ r.by \in 1 .. 9
                                  /\ \A pin \in {r.case, r.model} :
                                       \E x \in Items0 : pin = <<x.kind, x.slug, x.version>>
  /\ \A e, f \in Experiments0 : (\E r \in e.runs, q \in f.runs : r.by = q.by) => e = f

VARIABLES
  items,        \* library rows: a kind, a slug, a version and what it pins
  artifacts,    \* artifacts rows
  records,      \* artifact_preprocessing_runs rows, in a terminal status
  experiments,  \* experiments rows with their runs
  whole,        \* the files of the artifact storage that are complete
  partial,      \* those that are being written, or were when their writer died
  nextId,       \* the ids are handed out in order, even to rows rolled back
  todo,         \* the requests each session still has to do
  pc, view, held,
  mistaken,     \* history: files taken for stored, or opened, at a wrong time
  overlapped,   \* history: experiments written by a session that read old rows
  ran           \* history: the suite runs that were committed

rows     == <<items, artifacts, records, experiments>>
files    == <<whole, partial>>
history  == <<mistaken, overlapped, ran>>
sessions == <<todo, pc, view, held>>
vars     == <<rows, files, nextId, sessions, history>>

NoView ==
  [version |-> 0, refs |-> {}, pins |-> {}, wants |-> {}, inputs |-> {}, manifest |-> {},
   read |-> {}, row |-> {}, mode |-> "none", record |-> NoRow, parts |-> 0,
   modes |-> <<>>, from |-> TRUE, out |-> {}]

Init ==
  /\ items = Items0 /\ artifacts = Artifacts0 /\ records = {} /\ experiments = Experiments0
  /\ whole = {a.file : a \in Artifacts0} /\ partial = {}
  /\ nextId = 10
  /\ todo \in Scripts
  /\ pc = [s \in Sessions |-> "idle"] /\ view = [s \in Sessions |-> NoView]
  /\ held = [s \in Sessions |-> {}]
  /\ mistaken = {} /\ overlapped = {} /\ ran = {}

Request(s) == Head(todo[s])
At(s, label, ops) == todo[s] # <<>> /\ pc[s] = label /\ Request(s).op \in ops

Goto(s, label, v) ==
  /\ pc' = [pc EXCEPT ![s] = label] /\ view' = [view EXCEPT ![s] = v] /\ UNCHANGED todo

\* The end of a request, whatever its status: the session is closed.
End(s) ==
  /\ todo' = [todo EXCEPT ![s] = Tail(@)] /\ pc' = [pc EXCEPT ![s] = "idle"]
  /\ view' = [view EXCEPT ![s] = NoView] /\ held' = [held EXCEPT ![s] = {}]

\* Unique keys.  An insert waits while another session has flushed the key.
ItemKey(r)        == <<r.kind, r.slug, r.version>>
ExperimentKey(id) == <<"experiment", id, 0>>
RowLock(id)       == <<"row", id, 0>>

Free(s, key) == \A t \in Sessions \ {s} : key \notin held[t]
Hold(s, key) == held' = [held EXCEPT ![s] = @ \cup {key}]

\* Mutant: there is no unique constraint.
NeverTaken(key) == FALSE

Taken(key) == \/ \E r \in items : ItemKey(r) = key
              \/ \E e \in experiments : ExperimentKey(e.id) = key

\* _by_slug: the newest unless a version is asked for; any, if there are several.
BySlug(table, slug, version) ==
  {r \in table : /\ r.slug = slug
                 /\ \/ version # Newest /\ r.version = version
                    \/ /\ version = Newest
                       /\ \A x \in table : x.slug = slug => x.version <= r.version}

OfKind(kind) == {r \in items : r.kind = kind}
Found(ref)   == BySlug(OfKind(ref[1]), ref[2], ref[3])
-----------------------------------------------------------------------------
\* Library rows.

\* Mutant: the number of the rows there are.
CountedVersion(r) == {IF r.version # Newest THEN r.version
                      ELSE Cardinality({x \in OfKind(r.kind) : x.slug = r.slug})}

\* The version of the row to create: the client's, or the latest plus one.  A
\* suite may have none yet.
NextVersion(r) ==
  LET old == BySlug(OfKind(r.kind), r.slug, Newest)
  IN  IF r.version # Newest THEN {r.version}
      ELSE IF old = {} /\ r.kind = "suite" THEN {1} ELSE {x.version + 1 : x \in old}

\* A suite is inserted before its members are looked up, any other row after.
StartCreate(s) ==
  /\ At(s, "idle", {"create"})
  /\ LET r == Request(s) IN
       \/ /\ NextVersion(r) = {} /\ End(s)
       \/ /\ \E n \in NextVersion(r) :
               Goto(s, IF r.kind = "suite" THEN "insert" ELSE "resolve",
                    [NoView EXCEPT !.version = n, !.refs = r.members])
          /\ UNCHANGED held
  /\ UNCHANGED <<rows, files, nextId, history>>

NewKey(s) == <<Request(s).kind, Request(s).slug, view[s].version>>

InsertSuite(s) ==
  /\ At(s, "insert", {"create"}) /\ Free(s, NewKey(s))
  /\ \/ Taken(NewKey(s)) /\ End(s)
     \/ ~Taken(NewKey(s)) /\ Hold(s, NewKey(s)) /\ Goto(s, "resolve", view[s])
  /\ UNCHANGED <<rows, files, nextId, history>>

\* A row that is referred to is pinned by its slug and version.
Resolve(s) ==
  /\ pc[s] = "resolve"
  /\ \E ref \in view[s].refs :
       \/ /\ Found(ref) = {} /\ End(s)
       \/ /\ \E r \in Found(ref) :
               Goto(s, "resolve", [view[s] EXCEPT !.refs = @ \ {ref},
                                                  !.pins = @ \cup {ItemKey(r)}])
          /\ UNCHANGED held
  /\ UNCHANGED <<rows, files, nextId, history>>

\* _commit_or_conflict
CommitItem(s) ==
  /\ At(s, "resolve", {"create"}) /\ view[s].refs = {} /\ Free(s, NewKey(s))
  /\ items' = IF Taken(NewKey(s)) THEN items
              ELSE items \cup {[kind |-> Request(s).kind, slug |-> Request(s).slug,
                                version |-> view[s].version, split |-> Request(s).split,
                                pins |-> view[s].pins, archived |-> Request(s).archived]}
  /\ End(s)
  /\ UNCHANGED <<artifacts, records, experiments, files, nextId, history>>

\* archive_*_by_id, of a judge config or a suite.
Archive(s) ==
  /\ At(s, "idle", {"archive"})
  /\ items' = {IF ItemKey(r) = Request(s).key THEN [r EXCEPT !.archived = TRUE] ELSE r :
                r \in items}
  /\ End(s)
  /\ UNCHANGED <<artifacts, records, experiments, files, nextId, history>>
-----------------------------------------------------------------------------
\* Artifacts and preprocessing.

ArtifactRow(slug, version, mode, file, source, record, from) ==
  [id |-> nextId, slug |-> slug, version |-> version, mode |-> mode, file |-> file,
   source |-> source, record |-> record, from |-> from,
   bound |-> source # NoRow /\ mode # "image_direct"]

\* create_library_artifact
Declare(s) ==
  /\ At(s, "idle", {"declare"})
  /\ LET r == Request(s) IN
       IF \E a \in artifacts : a.slug = r.artifact /\ a.version = r.version
       THEN UNCHANGED <<artifacts, nextId>>
       ELSE /\ artifacts' = artifacts \cup
                 {ArtifactRow(r.artifact, r.version, "direct_file", r.file, NoRow, NoRow, TRUE)}
            /\ nextId' = nextId + 1
  /\ End(s)
  /\ UNCHANGED <<items, records, experiments, files, history>>

\* update_library_artifact_input_mode, of the newest version.
SetMode(s) ==
  /\ At(s, "idle", {"mode"})
  /\ artifacts' = {IF a \in BySlug(artifacts, Request(s).artifact, Newest)
                   THEN [a EXCEPT !.mode = Request(s).mode] ELSE a : a \in artifacts}
  /\ End(s)
  /\ UNCHANGED <<items, records, experiments, files, nextId, history>>

\* create_preprocessing_run_for_artifact: a source that is not in the storage
\* makes a failed record.
StartPreprocessing(s) ==
  /\ At(s, "idle", {"preprocess"})
  /\ LET source == BySlug(artifacts, Request(s).artifact, Newest) IN
       \/ source = {} /\ End(s) /\ UNCHANGED nextId
       \/ /\ source # {} /\ nextId' = nextId + 1
          /\ \E a \in source :
               Goto(s, IF a.file \in whole \cup partial THEN "parse" ELSE "fail",
                    [NoView EXCEPT !.row = {a}, !.record = nextId])
          /\ UNCHANGED held
  /\ UNCHANGED <<rows, files, history>>

\* The source is read, and what the client sent is checked against it.
Parse(s) ==
  /\ pc[s] = "parse"
  /\ \/ Goto(s, "fail", view[s])
     \/ \E a \in view[s].row :
          Goto(s, "part", [view[s] EXCEPT !.parts = Request(s).parts, !.from = a.file \in whole])
  /\ UNCHANGED <<rows, files, nextId, held, history>>

\* The artifacts that a parser makes of one part: a page, an image or a chunk
\* may yield text besides.
PdfText         == {<<"pdf_text">>}
PdfVisual       == {<<"pdf_page_screenshots">>, <<"pdf_page_screenshots", "ocr_text">>}
ImageVisual     == {<<"image_direct">>, <<"image_direct", "ocr_text">>}
SelectedFigure  == {<<"selected_figures">>}
TableExtraction == {<<"table_extraction">>}
RetrievalChunks == {<<"retrieval_chunks">>}
PaperCard       == {<<"paper_cards">>}

Outputs(parser) ==
  CASE parser = "pdf_text"         -> PdfText
    [] parser = "pdf_visual"       -> PdfVisual
    [] parser = "image_visual"     -> ImageVisual
    [] parser = "selected_figure"  -> SelectedFigure
    [] parser = "table_extraction" -> TableExtraction
    [] parser = "retrieval_chunks" -> RetrievalChunks
    [] parser = "paper_card"       -> PaperCard

NextPart(s) ==
  /\ pc[s] = "part" /\ view[s].parts > 0
  /\ \E modes \in Outputs(Request(s).parser) :
       Goto(s, "file", [view[s] EXCEPT !.parts = @ - 1, !.modes = modes])
  /\ UNCHANGED <<rows, files, nextId, held, history>>

\* Mutant: the pages that were rendered are kept.
PagesKept(s) == view[s].out

\* render_pdf_page_images fails at a page: the rows of the pages before it are
\* deleted, their files stay.
RowsAfterFailure(s) == {}

RenderFails(s) ==
  /\ pc[s] = "part" /\ Request(s).parser = "pdf_visual"
  /\ Goto(s, "fail", [view[s] EXCEPT !.out = RowsAfterFailure(s)])
  /\ UNCHANGED <<rows, files, nextId, held, history>>

\* The content of a file is what names it: the part of a source that it holds.
DerivedFile(s, a) == <<a.file, Request(s).parser, Cardinality(view[s].out) + 1, view[s].from>>

\* Mutant: the row comes before the file.
RowFirst(s, f) == "row"

\* write_bytes_to_storage: a file that exists is left alone.
AfterLookup(s, f) == IF f \in whole \cup partial THEN "row" ELSE "open"

LookForFile(s) ==
  /\ pc[s] = "file"
  /\ \E a \in view[s].row : LET f == DerivedFile(s, a) IN
       /\ Goto(s, AfterLookup(s, f), view[s])
       /\ mistaken' = IF f \in partial THEN mistaken \cup {f} ELSE mistaken
  /\ UNCHANGED <<rows, files, nextId, held, overlapped, ran>>

\* Opened for writing, a file is empty.
OpenFile(s) ==
  /\ pc[s] = "open"
  /\ \E a \in view[s].row : LET f == DerivedFile(s, a) IN
       /\ mistaken' = IF f \in whole \cup partial THEN mistaken \cup {f} ELSE mistaken
       /\ whole' = whole \ {f} /\ partial' = partial \cup {f}
  /\ Goto(s, "close", view[s])
  /\ UNCHANGED <<rows, nextId, held, overlapped, ran>>

CloseFile(s) ==
  /\ pc[s] = "close"
  /\ \E a \in view[s].row : LET f == DerivedFile(s, a) IN
       whole' = whole \cup {f} /\ partial' = partial \ {f}
  /\ Goto(s, "row", view[s])
  /\ UNCHANGED <<rows, nextId, held, history>>

\* create_artifact and the flush that gives it its id, to which it is bound.
SaveRow(s) ==
  /\ pc[s] = "row" /\ nextId' = nextId + 1
  /\ \E a \in view[s].row :
       LET n    == Cardinality(view[s].out) + 1
           slug == <<a.slug, Request(s).parser, view[s].record, n>>
           new  == ArtifactRow(slug, 1, Head(view[s].modes), DerivedFile(s, a), a.id,
                               view[s].record, view[s].from)
       IN  Goto(s, IF Len(view[s].modes) = 1 THEN "part" ELSE "file",
                [view[s] EXCEPT !.modes = Tail(@), !.out = @ \cup {new}])
  /\ UNCHANGED <<rows, files, held, history>>

\* complete_ and fail_artifact_preprocessing_run, and the commit.
CommitRecord(s) ==
  /\ pc[s] = "fail" \/ (pc[s] = "part" /\ view[s].parts = 0)
  /\ \E a \in view[s].row :
       records' = records \cup
         {[id |-> view[s].record, source |-> a.id,
           status |-> IF pc[s] = "fail" THEN "failed" ELSE "completed",
           derived |-> IF pc[s] = "fail" THEN {} ELSE {x.id : x \in view[s].out}]}
  /\ artifacts' = artifacts \cup view[s].out
  /\ End(s)
  /\ UNCHANGED <<items, experiments, files, nextId, history>>
-----------------------------------------------------------------------------
\* Experiments: the snapshots of a manifest.

RowsOf(id) == {e \in experiments : e.id = id}

Snapshots(s, m) ==
  [view[s] EXCEPT !.manifest = {m}, !.refs = m.cases \cup m.models, !.wants = m.artifacts]

StartDraft(s) ==
  /\ At(s, "idle", {"draft"})
  /\ LET m == Request(s).manifest IN
       \/ Valid(m) /\ Goto(s, "resolve", Snapshots(s, m)) /\ UNCHANGED held
       \/ ~Valid(m) /\ End(s)
  /\ UNCHANGED <<rows, files, nextId, history>>

\* Only a draft is edited; its row is loaded here, without its runs.
Editable(m) == Valid(m) /\ \E e \in RowsOf(m.id) : e.status = "draft"

StartEdit(s) ==
  /\ At(s, "idle", {"edit"})
  /\ LET m == Request(s).manifest IN
       \/ /\ Editable(m) /\ UNCHANGED held
          /\ Goto(s, "resolve", [Snapshots(s, m) EXCEPT !.read = RowsOf(m.id)])
       \/ ~Editable(m) /\ End(s)
  /\ UNCHANGED <<rows, files, nextId, history>>

\* Mutant: only the split is looked at.
IncludedBySplit(pin, split) ==
  pin[1] = "case" => \E r \in items : /\ ItemKey(r) = pin /\ r.split # "archived"
                                      /\ split \in {"all", r.split}

\* _include_case_suite_item; the row of a case never changes after its snapshot.
Included(pin, split) ==
  pin[1] = "case" => \E r \in items : /\ ItemKey(r) = pin
                                      /\ ~r.archived /\ r.split # "archived"
                                      /\ split \in {"all", r.split}

OfSuite(suite, split, kind) == {pin \in suite.pins : pin[1] = kind /\ Included(pin, split)}

\* Mutant: the members are named without their versions.
SuiteManifestUnpinned(suite, split) ==
  [id |-> <<suite.slug, suite.version, split>>,
   cases |-> {<<pin[1], pin[2], Newest>> : pin \in OfSuite(suite, split, "case")},
   models |-> OfSuite(suite, split, "model"), only_cases |-> {}, only_models |-> {},
   replicates |-> 1, artifacts |-> {}, local_only |-> FALSE]

\* benchmark_suite_manifest
SuiteManifest(suite, split) ==
  [id |-> <<suite.slug, suite.version, split>>, cases |-> OfSuite(suite, split, "case"),
   models |-> OfSuite(suite, split, "model"), only_cases |-> {}, only_models |-> {},
   replicates |-> 1, artifacts |-> {}, local_only |-> FALSE]

\* run_benchmark_suite and run_manifest: what there is to run.
StartRun(s) ==
  /\ At(s, "idle", {"run_suite", "run_manifest"})
  /\ LET r  == Request(s)
         ms == IF r.op = "run_manifest" THEN {r.manifest}
               ELSE {SuiteManifest(x, r.split) : x \in BySlug(OfKind("suite"), r.slug, Newest)}
     IN  \/ \E m \in ms : Valid(m) /\ Goto(s, "lookup", Snapshots(s, m)) /\ UNCHANGED held
         \/ ~(\E m \in ms : Valid(m)) /\ End(s)
  /\ UNCHANGED <<rows, files, nextId, history>>

\* An experiment of the same id is run again, if its manifest is the same.
LookForExperiment(s) ==
  /\ pc[s] = "lookup"
  /\ \E m \in view[s].manifest : LET old == RowsOf(m.id) IN
       \/ old = {} /\ Goto(s, "resolve", view[s]) /\ UNCHANGED held
       \/ /\ \E e \in old : e.manifest = m
          /\ Goto(s, "execute", [view[s] EXCEPT !.read = old]) /\ UNCHANGED held
       \/ (\E e \in old : e.manifest # m) /\ End(s)
  /\ UNCHANGED <<rows, files, nextId, history>>

\* _artifact_snapshot_from_manifest: a derived mode needs an artifact bound to
\* what it was derived from.
TargetMode(want, a) == IF want[3] = "default" THEN a.mode ELSE want[3]
Input(source, a, mode) == [source |-> source.id, row |-> a.id, mode |-> mode]

ReadInput(s) ==
  /\ pc[s] = "resolve"
  /\ \E want \in view[s].wants : LET found == BySlug(artifacts, want[1], want[2]) IN
       \/ found = {} /\ End(s)
       \/ /\ \E a \in found : LET mode == TargetMode(want, a) IN
               IF mode \in DerivedModes /\ ~a.bound
               THEN Goto(s, "derive", [view[s] EXCEPT !.wants = @ \ {want}, !.row = {a},
                                                      !.mode = mode])
               ELSE Goto(s, "resolve", [view[s] EXCEPT !.wants = @ \ {want},
                                                       !.inputs = @ \cup {Input(a, a, mode)}])
          /\ UNCHANGED held
  /\ UNCHANGED <<rows, files, nextId, history>>

\* Mutant: whatever is in that mode.
AnyDerived(a, mode) == {x \in artifacts : x.mode = mode}

\* The artifacts derived from a by completed preprocessing that are in a mode.
DerivedFrom(a, mode) ==
  {x \in artifacts : x.mode = mode /\ \E rec \in records :
     rec.status = "completed" /\ rec.source = a.id /\ x.id \in rec.derived}

\* _latest_derived_artifact_for_input_mode: ids rise with the records.
DeriveInput(s) ==
  /\ pc[s] = "derive"
  /\ \E a \in view[s].row : LET derived == DerivedFrom(a, view[s].mode) IN
       \/ derived = {} /\ End(s)
       \/ /\ \E x \in derived :
               /\ \A y \in derived : \/ y.record < x.record
                                     \/ y.record = x.record /\ y.id <= x.id
               /\ Goto(s, "resolve",
                       [view[s] EXCEPT !.inputs = @ \cup {Input(a, x, view[s].mode)}])
          /\ UNCHANGED held
  /\ UNCHANGED <<rows, files, nextId, history>>

\* _run_artifact_input_mode: direct and derived inputs do not mix.
Mixed(inputs) ==
  LET modes == {i.mode : i \in inputs}
  IN  Cardinality(modes) > 1 /\ ~(modes \subseteq DerivedModes)

Ready(s) == pc[s] = "resolve" /\ view[s].refs = {} /\ view[s].wants = {}

PinsOf(s, kind, ids) == {pin \in view[s].pins : pin[1] = kind /\ pin[2] \in ids}

\* _create_runs_from_preview: the expansion of what was pinned, in rows of their
\* own.
NewRuns(s, m) ==
  {[by |-> nextId, case |-> c, model |-> d, attempts |-> m.replicates] :
     c \in PinsOf(s, "case", SelectedIds(m.cases, m.only_cases)),
     d \in PinsOf(s, "model", SelectedIds(m.models, m.only_models))}

NewExperiment(s, m, status) ==
  [id |-> m.id, manifest |-> m, inputs |-> view[s].inputs, runs |-> NewRuns(s, m),
   local_only |-> m.local_only, status |-> status]

\* create_experiment_draft
CommitDraft(s) ==
  /\ Ready(s) /\ Request(s).op = "draft"
  /\ \E m \in view[s].manifest :
       /\ Free(s, ExperimentKey(m.id))
       /\ IF Mixed(view[s].inputs) \/ Taken(ExperimentKey(m.id))
          THEN UNCHANGED <<experiments, nextId>>
          ELSE /\ experiments' = experiments \cup {NewExperiment(s, m, "draft")}
               /\ nextId' = nextId + 1
  /\ End(s)
  /\ UNCHANGED <<items, artifacts, records, files, history>>

\* experiment.runs.clear() loads the runs that it deletes, and no columns.
ReadRuns(s) ==
  /\ Ready(s) /\ Request(s).op = "edit"
  /\ \E m \in view[s].manifest : \E e \in RowsOf(m.id) :
       Goto(s, "write", [view[s] EXCEPT !.read = {[x EXCEPT !.runs = e.runs] : x \in @}])
  /\ UNCHANGED <<rows, files, nextId, held, history>>

\* Mutant: runs that are already there are not made again.
RunsOfEdit(s, m, kept) == kept \cup {r \in NewRuns(s, m) : RunIds({r}) \cap
  UNION {RunIds(e.runs) : e \in view[s].read} = {}}

\* The flush: the runs that were read are deleted, the new ones inserted.
RunsAfterEdit(s, m, kept) == kept \cup NewRuns(s, m)

\* The flush writes a column if its value is not the one that was loaded.
Column(loaded, value, stored) == IF value # loaded THEN value ELSE stored

Flushed(old, new, e) ==
  [e EXCEPT !.manifest   = Column(old.manifest, new.manifest, @),
            !.inputs     = Column(old.inputs, new.inputs, @),
            !.local_only = Column(old.local_only, new.local_only, @)]

\* A run_id that is still there makes a conflict, and so does the audit trail of
\* runs that were executed.
EditConflicts(old, new, e) ==
  \/ RunIds(e.runs \ old.runs) \cap RunIds(new.runs) # {}
  \/ e.status = "complete" /\ e.runs \cap old.runs # {}

\* What was loaded is what is stored.
Current(old, e) ==
  /\ old.manifest = e.manifest /\ old.local_only = e.local_only
  /\ e.runs \subseteq old.runs

\* update_experiment_draft.  An edit that changes no column does not wait for the
\* row lock.
CommitEdit(s) ==
  /\ pc[s] = "write"
  /\ \E old \in view[s].read, m \in view[s].manifest, e \in experiments :
       LET new == NewExperiment(s, m, "draft")
       IN  /\ e.id = m.id
           /\ Free(s, RowLock(m.id)) \/ Flushed(old, new, e) = e
           /\ IF Mixed(view[s].inputs) \/ EditConflicts(old, new, e)
              THEN UNCHANGED <<experiments, overlapped>>
              ELSE /\ experiments' = (experiments \ {e}) \cup
                        {[Flushed(old, new, e) EXCEPT
                            !.runs = RunsAfterEdit(s, m, e.runs \ old.runs)]}
                   /\ overlapped' = IF Current(old, e) THEN overlapped
                                    ELSE overlapped \cup {m.id}
  /\ nextId' = nextId + 1 /\ End(s)
  /\ UNCHANGED <<items, artifacts, records, files, mistaken, ran>>

\* create_experiment_from_manifest in a run: flushed, and committed at its end.
InsertExperiment(s) ==
  /\ Ready(s) /\ Request(s).op \in {"run_suite", "run_manifest"}
  /\ \E m \in view[s].manifest : LET key == ExperimentKey(m.id) IN
       /\ Free(s, key)
       /\ \/ (Mixed(view[s].inputs) \/ Taken(key)) /\ End(s) /\ UNCHANGED nextId
          \/ /\ ~Mixed(view[s].inputs) /\ ~Taken(key)
             /\ Hold(s, key) /\ nextId' = nextId + 1
             /\ Goto(s, "running", [view[s] EXCEPT !.read = {NewExperiment(s, m, "running")}])
  /\ UNCHANGED <<rows, files, history>>

\* execute_experiment: its first flush locks the row, under which the controls
\* are overridden.
Execute(s) ==
  /\ pc[s] = "execute"
  /\ \E m \in view[s].manifest : Free(s, RowLock(m.id)) /\ Hold(s, RowLock(m.id))
  /\ Goto(s, "running", view[s])
  /\ UNCHANGED <<rows, files, nextId, history>>

PinsOfRuns(R) == {r.case : r \in R} \cup {r.model : r \in R}

\* Mutant: what was overridden is kept.
Overridden(s, e, read) ==
  IF Request(s).op = "run_manifest" THEN Request(s).local_only ELSE e.local_only

\* The end of the execution: run_manifest puts back the controls it read if it
\* had overridden them.
Restored(s, e, read) ==
  IF Request(s).op = "run_manifest" /\ Request(s).local_only # read.local_only
  THEN read.local_only ELSE e.local_only

CommitRun(s) ==
  /\ pc[s] = "running"
  /\ \E read \in view[s].read :
       LET e == IF RowsOf(read.id) = {} THEN read ELSE CHOOSE x \in RowsOf(read.id) : TRUE
       IN  /\ experiments' = (experiments \ {e}) \cup
                {[e EXCEPT !.local_only = Restored(s, e, read), !.status = "complete"]}
           /\ overlapped' = IF e.manifest = read.manifest THEN overlapped
                            ELSE overlapped \cup {read.id}
           /\ ran' = IF Request(s).op # "run_suite" THEN ran
                     ELSE ran \cup {[id |-> read.id, pins |-> PinsOfRuns(e.runs)]}
  /\ End(s)
  /\ UNCHANGED <<items, artifacts, records, files, nextId, mistaken>>
-----------------------------------------------------------------------------
\* Specification.

\* A process dies: what it did not commit is rolled back, its files stay.
Die(s) ==
  /\ s \in Mortal /\ todo[s] # <<>> /\ pc[s] # "idle"
  /\ todo' = [todo EXCEPT ![s] = <<>>] /\ pc' = [pc EXCEPT ![s] = "idle"]
  /\ view' = [view EXCEPT ![s] = NoView] /\ held' = [held EXCEPT ![s] = {}]
  /\ UNCHANGED <<rows, files, nextId, history>>

Step(s) ==
  \/ StartCreate(s) \/ InsertSuite(s) \/ Resolve(s) \/ CommitItem(s) \/ Archive(s)
  \/ Declare(s) \/ SetMode(s)
  \/ StartPreprocessing(s) \/ Parse(s) \/ NextPart(s) \/ RenderFails(s)
  \/ LookForFile(s) \/ OpenFile(s) \/ CloseFile(s) \/ SaveRow(s) \/ CommitRecord(s)
  \/ StartDraft(s) \/ StartEdit(s) \/ StartRun(s) \/ LookForExperiment(s)
  \/ ReadInput(s) \/ DeriveInput(s) \/ CommitDraft(s) \/ ReadRuns(s) \/ CommitEdit(s)
  \/ InsertExperiment(s) \/ Execute(s) \/ CommitRun(s) \/ Die(s)

Next == \E s \in Sessions : Step(s)

Spec == Init /\ [][Next]_vars
-----------------------------------------------------------------------------
\* Properties.

Labels ==
  {"idle", "insert", "resolve", "parse", "part", "file", "open", "close", "row", "fail",
   "derive", "lookup", "execute", "write", "running"}

\* The variables keep their types: versions count from one, ids are handed out
\* once, and only a session that is at work holds anything.
TypeOK ==
  /\ \A r \in items : r.version \in Nat \ {0} /\ r.archived \in BOOLEAN
  /\ nextId \in Nat
  /\ \A x \in artifacts \cup records : x.id < nextId
  /\ \A x, y \in artifacts : x.id = y.id => x = y
  /\ \A e \in experiments : /\ e.status \in {"draft", "running", "complete"}
                            /\ \A r \in e.runs : r.by < nextId
  /\ whole \cap partial = {}
  /\ pc \in [Sessions -> Labels]
  /\ \A s \in Sessions : pc[s] = "idle" => held[s] = {} /\ view[s] = NoView

Pins == (UNION {r.pins : r \in items}) \cup
        (UNION {PinsOfRuns(e.runs) : e \in experiments})

\* Whatever a judge config, a suite or a run pins is one committed row: the
\* requests that compute the same next version, insert before they look up or
\* die half way leave no two rows of one version and no pin on a row that was
\* rolled back.
PinsResolve ==
  /\ \A x, y \in items : ItemKey(x) = ItemKey(y) => x = y
  /\ Pins \subseteq {ItemKey(r) : r \in items}

\* Preprocessing is all or nothing: each derived row is of one completed record
\* and of its source, and a record that failed, even at its last page, has none.
PreprocessingIsWhole ==
  /\ \A rec \in records :
       {x \in artifacts : x.record = rec.id} = {x \in artifacts : x.id \in rec.derived}
  /\ \A rec \in records : IF rec.status = "completed"
                          THEN rec.derived # {} /\ rec.derived \subseteq {x.id : x \in artifacts}
                          ELSE rec.derived = {}
  /\ \A x \in artifacts : x.record # NoRow =>
       \E rec \in records : rec.id = x.record /\ rec.source = x.source

\* A derived artifact that is in the library has its whole file in the storage,
\* made of a whole source.  The exceptions are files that a session found while
\* another, or a dead one, was writing them: those are taken as they are.
FilesAreWhole ==
  \A x \in artifacts : x.record # NoRow =>
    /\ x.file \in whole \cup mistaken
    /\ x.from \/ \E a \in artifacts : a.id = x.source /\ a.file \in mistaken

\* An experiment that shows a model a derived input shows what completed
\* preprocessing made of the very source row the manifest named, or a bound row
\* that it named itself; new versions and other records in between do not mix.
\* (A normalized image whose mode a client changed to a derived one counts as
\* derived, too, though it never had all the keys of a binding.)
DerivedInputsAreBound ==
  \A e \in experiments : \A i \in e.inputs : i.mode \in DerivedModes =>
    \E x \in artifacts :
      /\ x.id = i.row
      /\ \/ i.row = i.source /\ x.bound
         \/ \E rec \in records : /\ rec.id = x.record /\ rec.source = i.source
                                 /\ rec.status = "completed"

\* A suite that ran, ran its own members in the versions that it pinned: all of
\* its models and those of its cases that are in the split, neither archived as
\* rows nor put into the archived split, and nothing else, whatever became of the
\* library since.
SuiteRunsItsMembership ==
  \A entry \in ran : \E suite \in OfKind("suite") :
    LET split  == entry.id[3]
        active == {r \in OfKind("case") : ~r.archived /\ r.split # "archived"
                                         /\ (split # "all" => r.split = split)}
    IN  /\ suite.slug = entry.id[1] /\ suite.version = entry.id[2]
        /\ entry.pins = {pin \in suite.pins : \/ pin[1] = "model"
                                              \/ pin \in {ItemKey(r) : r \in active}}

\* An experiment has the runs that its stored manifest expands to, with as many
\* attempts, and the controls that the manifest states.  Where a session wrote
\* over a row that had changed since it was loaded, columns and runs of both may
\* be mixed; but the runs that one request made are there whole or not at all.
ExperimentIsItsManifest ==
  \A e \in experiments :
    /\ e.id \notin overlapped => /\ {RunOf(r) : r \in e.runs} = Expansion(e.manifest)
                                 /\ e.local_only = e.manifest.local_only
    /\ BatchesAreWhole(e.runs)
=============================================================================
