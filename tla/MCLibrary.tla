----------------------------- MODULE MCLibrary -----------------------------
(***************************************************************************)
(* TLC instance of Library: two sessions that may die, each with a few      *)
(* requests that meet those of the other.                                  *)
(***************************************************************************)
EXTENDS Library

\* The requests.
Create(kind, slug, version, members) ==
  [op |-> "create", kind |-> kind, slug |-> slug, version |-> version, members |-> members,
   split |-> "dev", archived |-> FALSE]
CreateArchived(kind, slug, version) ==
  [Create(kind, slug, version, {}) EXCEPT !.archived = TRUE]
ArchiveRow(key)           == [op |-> "archive", key |-> key]
DeclareArtifact(slug, version, file) ==
  [op |-> "declare", artifact |-> slug, version |-> version, file |-> file]
PatchMode(slug, mode)     == [op |-> "mode", artifact |-> slug, mode |-> mode]
Preprocess(slug, parser, parts) ==
  [op |-> "preprocess", artifact |-> slug, parser |-> parser, parts |-> parts]
Draft(m)                  == [op |-> "draft", manifest |-> m]
Edit(m)                   == [op |-> "edit", manifest |-> m]
RunSuite(slug, split)     == [op |-> "run_suite", slug |-> slug, split |-> split]
RunManifest(m, local)     == [op |-> "run_manifest", manifest |-> m, local_only |-> local]

Manifest(id, cases, wants, local) ==
  [id |-> <<id>>, cases |-> {<<"case", c, Newest>> : c \in cases},
   models |-> {<<"model", "m", Newest>>}, only_cases |-> {}, only_models |-> {},
   replicates |-> 1, artifacts |-> wants, local_only |-> local]

\* The library: three cases, of which one is in the archived split, and two models.
Row(kind, slug, split) ==
  [kind |-> kind, slug |-> slug, version |-> 1, split |-> split, pins |-> {},
   archived |-> FALSE]
MCItems ==
  {Row("case", "c1", "dev"), Row("case", "c2", "dev"), Row("case", "c3", "archived"),
   Row("model", "m", "dev"), Row("model", "n", "dev")}

A == <<"a">>
B == <<"b">>
MCArtifacts ==
  {[id |-> 1, slug |-> A, version |-> 1, mode |-> "direct_file", file |-> <<"f">>,
    source |-> NoRow, record |-> NoRow, from |-> TRUE, bound |-> FALSE]}

Drafted(m) ==
  [id |-> m.id, manifest |-> m, inputs |-> {}, local_only |-> m.local_only, status |-> "draft",
   runs |-> {[by |-> 1, case |-> <<"case", c[2], 1>>, model |-> <<"model", "m", 1>>,
              attempts |-> 1] : c \in m.cases}]
Old == Manifest("old", {"c1"}, {}, TRUE)

\* Two models, of which the design selects one, and one of two cases twice.
Selective ==
  [Manifest("old", {"c1", "c2"}, {}, TRUE) EXCEPT
     !.models = {<<"model", "m", Newest>>, <<"model", "n", 1>>},
     !.only_cases = {{"c2"}}, !.only_models = {{"n"}}, !.replicates = 2]
Twice == [Manifest("old", {"c1"}, {}, TRUE) EXCEPT !.replicates = 2,
            !.models = {<<"model", "m", Newest>>, <<"model", "n", Newest>>}]
Unknown == [Manifest("old", {"c1"}, {}, TRUE) EXCEPT !.only_cases = {{"c2"}}]
MCExperiments == {Drafted(Old)}

Members == {<<"case", "c1", Newest>>, <<"case", "c2", Newest>>, <<"case", "c3", Newest>>,
            <<"model", "m", Newest>>}
Text == Manifest("text", {"c1"}, {<<A, Newest, "pdf_text">>}, TRUE)
Shots == Manifest("shots", {"c1"},
                  {<<A, Newest, "pdf_page_screenshots">>, <<B, Newest, "default">>}, TRUE)
Chunks == Manifest("chunks", {"c1"}, {<<A, Newest, "retrieval_chunks">>}, TRUE)

Both == Manifest("both", {"c2"}, {<<A, Newest, "pdf_text">>,
                                  <<<<A, "pdf_text", 10, 1>>, Newest, "default">>}, TRUE)
Again == Manifest("again", {"c2"}, {<<<<A, "pdf_text", 10, 1>>, Newest, "retrieval_chunks">>}, TRUE)
Version(n) == Manifest("version", {"c1"}, {<<A, n, "pdf_text">>}, TRUE)

Makes(parser, mode) ==
  [s \in Sessions |->
     IF s = "s1" THEN << Preprocess(A, parser, 1) >>
     ELSE << Draft(Manifest(mode, {"c1"}, {<<A, Newest, mode>>}, TRUE)) >>]

MCScripts ==
  { \* two requests for the next version, beside one that names it
    [s1 |-> << Create("judge", "j", 1, {<<"model", "m", Newest>>}),
               Create("judge", "j", Newest, {<<"model", "m", Newest>>}) >>,
     s2 |-> << Create("judge", "k", 1, {<<"model", "o", Newest>>}),
               Create("model", "m", 2, {}), Create("judge", "j", Newest, {<<"model", "m", 1>>}),
               Create("judge", "j", 2, {<<"model", "m", Newest>>}) >>],
    \* two creations of a suite, a run of it and a new version of a member
    [s1 |-> << Create("suite", "s", Newest, Members), RunSuite("s", "dev") >>,
     s2 |-> << Create("suite", "s", Newest, {<<"case", "c1", Newest>>, <<"model", "n", Newest>>}),
               Create("case", "c1", 2, {}), RunSuite("s", "dev"), RunSuite("s", "archived"),
               ArchiveRow(<<"suite", "s", 1>>) >>],
    \* a member that was archived from the start
    [s1 |-> << CreateArchived("case", "c4", 1), RunSuite("s", "all"), RunSuite("s", "dev") >>,
     s2 |-> << Create("suite", "s", Newest, Members \cup {<<"case", "c4", Newest>>}),
               Create("case", "c4", Newest, {}) >>],
    \* the same preprocessing twice, and a draft that uses it
    [s1 |-> << Preprocess(A, "pdf_text", 1), Draft(Text) >>,
     s2 |-> << Preprocess(A, "pdf_text", 1), Draft(Text) >>],
    \* pages and their text, while the artifact changes
    [s1 |-> << Preprocess(A, "pdf_visual", 2), DeclareArtifact(B, 1, <<"f">>) >>,
     s2 |-> << PatchMode(A, "pdf_page_screenshots"), DeclareArtifact(B, 1, <<"g">>),
               Preprocess(B, "table_extraction", 1), Draft(Shots) >>],
    [s1 |-> << Preprocess(A, "pdf_visual", 1), Draft(Shots) >>,
     s2 |-> << DeclareArtifact(B, 1, <<"f">>), DeclareArtifact(A, 2, <<"f">>), Draft(Shots) >>],
    \* what is derived from a derived artifact
    [s1 |-> << Preprocess(A, "pdf_text", 1),
               Preprocess(<<A, "pdf_text", 10, 1>>, "retrieval_chunks", 1) >>,
     s2 |-> << Draft(Chunks), Draft(Both), Draft(Again) >>],
    \* a file that a dead session left is taken, and a file is derived from it
    [s1 |-> << Preprocess(A, "pdf_text", 1) >>,
     s2 |-> << Preprocess(A, "pdf_text", 1),
               Preprocess(<<A, "pdf_text", 11, 1>>, "retrieval_chunks", 1) >>],
    \* two versions of a source
    [s1 |-> << Preprocess(A, "pdf_text", 1), Preprocess(A, "pdf_text", 1) >>,
     s2 |-> << DeclareArtifact(A, 2, <<"f">>), Draft(Version(2)), Draft(Version(1)) >>],
    \* edits of a draft, of the same cases and of others, and a death
    [s1 |-> << Edit(Manifest("old", {"c1", "c2"}, {}, FALSE)) >>,
     s2 |-> << Edit(Manifest("old", {"c3"}, {}, TRUE)),
               Edit(Manifest("old", {"c2"}, {}, TRUE)) >>],
    \* edits of the design, one of them invalid
    [s1 |-> << Edit(Selective), Edit(Twice) >>, s2 |-> << Draft(Unknown), Edit(Twice) >>],
    \* a run from the command line beside an edit and a run of the same manifest
    [s1 |-> << RunManifest(Old, FALSE), Edit(Manifest("old", {"c2"}, {}, FALSE)) >>,
     s2 |-> << Edit(Manifest("old", {"c2"}, {}, FALSE)), RunManifest(Old, TRUE) >>],
    [s1 |-> << RunManifest(Old, FALSE) >>, s2 |-> << Edit(Old), Edit(Old) >>],
    [s1 |-> << RunManifest(Manifest("new", {"c1"}, {}, TRUE), FALSE) >>,
     s2 |-> << Draft(Manifest("new", {"c1"}, {}, TRUE)),
               RunManifest(Manifest("new", {"c1"}, {}, TRUE), TRUE) >>],
    \* a normalized image that is given a derived mode
    [s1 |-> << Preprocess(A, "image_visual", 1) >>,
     s2 |-> << PatchMode(<<A, "image_visual", 10, 1>>, "ocr_text"),
               Draft(Manifest("ocr", {"c1"}, {<<A, Newest, "ocr_text">>}, TRUE)) >>],
    Makes("image_visual", "ocr_text"), Makes("selected_figure", "selected_figures"),
    Makes("table_extraction", "table_extraction"), Makes("paper_card", "paper_cards") }
=============================================================================
