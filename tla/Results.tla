------------------------------ MODULE Results ------------------------------
(***************************************************************************)
(* The report on one experiment (aggregate_experiment_results) beside the  *)
(* evidence it is computed from: attempts that end, reviews that are       *)
(* submitted, a judge's scores, stored divergences and the scores of the   *)
(* demo.  The report is computed from the rows whenever it is asked for,   *)
(* so that it is an operator of the state, and every step of the evidence  *)
(* meets every report.                                                     *)
(*                                                                         *)
(* Suite and split belong to the experiment and tell no two of its rows    *)
(* apart; they are left out.  A rate is a fraction n/d, known when d > 0,  *)
(* and rates are compared by cross multiplication.  A cost or a latency is *)
(* a set of at most one number.  Text is a set of terms.  Sort orders,     *)
(* labels and warnings of rows are left out, and so are dry runs, which a  *)
(* judge passes over.                                                      *)
(***************************************************************************)
EXTENDS Naturals, FiniteSets

CONSTANTS
  Ledgers,      \* the attempt rows there may come to be, each a sequence
  Filters,      \* the filters reports are asked with
  Reviewers, Judges,
  Swaps,        \* the swap indices a judge may be asked to compare in
  Decisions,    \* what a reviewer may submit about two answers
  Verdicts,     \* what a judge may say about two answers
  WarmerTerms,  \* the terms of each warmer's text
  MaxReviews    \* bound: decisions are submitted while fewer were

Any        == "any"
NoWarmer   == "none"
NoRow      == 0
Signals    == {"claim", "conclusion"}
Dimensions == {"case", "model", "prompt", "warmer"}
Statuses   == {"succeeded", "failed", "canceled"}  \* TERMINAL_ATTEMPT_STATUSES
Audits     == {"reused", "ignored", "overfit", "unknown"}  \* CARRYOVER_STATUSES

\* The rows of a ledger are in id order.  A replicate has one row that expansion
\* made, of kind replicate; each other is the retry of an earlier one that failed.
\* A row the cost cap has refused is a failed one.  No slug is the filter that asks for any.  Who
\* reviews may choose neither answer; a confidence is one of three.
ASSUME ResultsAssumption ==
  /\ MaxReviews \in Nat
  /\ \A f \in Filters : DOMAIN f = Dimensions \cup {"source", "reviewer"}
  /\ Swaps \subseteq SUBSET {0, 1}
  /\ \A d \in Decisions : d.winner \in {"first", "second", "tie", "cannot_judge"}
  /\ \A d \in Verdicts : /\ d.winner \in {"first", "second"} /\ d.confidence \in 0 .. 2
                         /\ d.signals \subseteq Signals
  /\ \A l \in Ledgers :
       /\ IsFiniteSet(DOMAIN l) /\ DOMAIN l = 1 .. Cardinality(DOMAIN l)
       /\ \A i \in DOMAIN l :
            /\ l[i].status \in Statuses
            /\ \A dim \in Dimensions : l[i][dim] # Any
            /\ l[i].attempt_kind \in {"replicate", "retry"}
            /\ l[i].attempt_kind = "replicate" => l[i].parent = NoRow /\ l[i].attempt_number = 1
            /\ l[i].attempt_kind = "retry" =>
                 \E j \in 1 .. i - 1 :
                   /\ l[i].parent = j /\ l[j].status = "failed"
                   /\ l[i].attempt_number = l[j].attempt_number + 1
                   /\ l[i].replicate_index = l[j].replicate_index
                   /\ \A dim \in Dimensions : l[i][dim] = l[j][dim]
            /\ l[i].attempt_number \in Nat \ {0}
            /\ l[i].refused => l[i].status = "failed"
            /\ l[i].cost \subseteq Nat /\ IsFiniteSet(l[i].cost)
            /\ l[i].latency \subseteq Nat /\ IsFiniteSet(l[i].latency)
       /\ \A i, j \in DOMAIN l :
            /\ i < j /\ l[i].replicate_index = l[j].replicate_index
            /\ \A dim \in Dimensions : l[i][dim] = l[j][dim]
            => /\ l[i].status = "failed" /\ l[i].attempt_number < l[j].attempt_number
               /\ l[j].attempt_kind = "retry"

VARIABLES
  ledger,    \* the rows there may come to be
  terminal,  \* those that are committed in a terminal status
  assigned,  \* review_assignments: two answers and a reviewer
  submitted, \* the assignments that are submitted, with their decisions
  scores     \* score rows

vars == <<ledger, terminal, assigned, submitted, scores>>

Rows     == DOMAIN ledger
Cell(i)  == <<ledger[i].case, ledger[i].model, ledger[i].prompt, ledger[i].warmer>>
Group(i) == <<ledger[i].case, ledger[i].model, ledger[i].prompt>>
SameReplicate(i, j) == ledger[i].replicate_index = ledger[j].replicate_index
Succeeded(i) == ledger[i].status = "succeeded"

\* A score row.  of has the attempts that its comparison_id or review_item_id
\* stands for, swap is the judge's swap_index; signals are those its rubric
\* dimension, structured what its structured output is about.
NoScore == [attempt |-> NoRow, type |-> "none", by |-> "none", who |-> "none", of |-> {},
            swap |-> 0, outcome |-> "none", tags |-> {}, signals |-> {},
            structured |-> {}, confidence |-> 0, baseline |-> NoRow]

Init ==
  /\ ledger \in Ledgers
  /\ terminal = {} /\ assigned = {} /\ submitted = {} /\ scores = {}
-----------------------------------------------------------------------------
\* The evidence.

\* An attempt ends.  The rows of a run are executed in order.
EndAttempt(i) ==
  /\ i \in Rows \ terminal
  /\ \A j \in Rows : Cell(j) = Cell(i) /\ j < i => j \in terminal
  /\ terminal' = terminal \cup {i}
  /\ UNCHANGED <<ledger, assigned, submitted, scores>>

\* The experiment may be complete: the last row of each run has succeeded, or the
\* run is skipped, the cost cap having refused the last row of it that has ended.
Complete ==
  \A i \in Rows : \E j \in terminal :
    /\ Cell(j) = Cell(i)
    /\ \/ Succeeded(j) /\ \A k \in Rows : Cell(k) = Cell(i) => k <= j
       \/ ledger[j].refused /\ \A k \in terminal : Cell(k) = Cell(i) => k <= j

Comparable(i, j) ==
  /\ i < j /\ SameReplicate(i, j) /\ ledger[i].model # ledger[j].model
  /\ \A dim \in Dimensions \ {"model"} : ledger[i][dim] = ledger[j][dim]

\* Mutant: attempts are taken before they have ended.
OpenPairs ==
  {p \in Rows \X Rows : Succeeded(p[1]) /\ Succeeded(p[2]) /\ Comparable(p[1], p[2])}

\* _pairwise_attempt_groups: a replicate has one succeeded row, its last.
ReviewPairs ==
  {p \in terminal \X terminal : Succeeded(p[1]) /\ Succeeded(p[2]) /\ Comparable(p[1], p[2])}

\* _succeeded_attempts: of each run the one of the highest attempt number.
JudgedPairs ==
  {p \in ReviewPairs : \A k \in {1, 2} : ~\E j \in terminal :
     /\ Cell(j) = Cell(p[k]) /\ Succeeded(j)
     /\ \/ ledger[j].attempt_number > ledger[p[k]].attempt_number
        \/ ledger[j].attempt_number = ledger[p[k]].attempt_number /\ j > p[k]}

\* A review set with an assignment for every item and reviewer.
Assign ==
  /\ assigned = {} /\ ReviewPairs # {}
  /\ assigned' = ReviewPairs \X Reviewers
  /\ UNCHANGED <<ledger, terminal, submitted, scores>>

Side(p, i) == IF i = p[1] THEN "first" ELSE "second"

\* _pairwise_outcome
Outcome(p, i, winner) ==
  IF winner \notin {"first", "second"} THEN winner
  ELSE IF winner = Side(p, i) THEN "winner" ELSE "loser"

\* The scores a decision leaves on the two answers; a grade is optional.
Preferences(p, d, base) ==
  {[base EXCEPT !.attempt = p[k], !.type = "pairwise_preference",
                !.outcome = Outcome(p, p[k], d.winner)] : k \in {1, 2}}
Grades(p, d, base) ==
  {[base EXCEPT !.attempt = i, !.type = "pass_fail",
                !.outcome = IF Side(p, i) \in d.passed THEN "passed" ELSE "failed"] :
     i \in {j \in {p[1], p[2]} : Side(p, j) \in d.passed \cup d.failed}}
TagScores(p, d, base) ==
  {[base EXCEPT !.attempt = i, !.type = "failure_tags", !.tags = d.tags] :
     i \in {j \in {p[1], p[2]} : Side(p, j) \in d.failed /\ d.tags # {}}}
RubricScores(p, d, base) ==
  {[base EXCEPT !.attempt = p[k], !.type = "rubric_score", !.signals = {sig}] :
     k \in {1, 2}, sig \in d.signals}

\* The submission of an assignment.
Submit(a, d) ==
  /\ a \in assigned /\ Cardinality(submitted) < MaxReviews
  /\ ~\E s \in submitted : s.assignment = a
  /\ submitted' = submitted \cup {[assignment |-> a, decision |-> d]}
  /\ LET base == [NoScore EXCEPT !.by = "human", !.who = a[2], !.of = {a[1][1], a[1][2]},
                                 !.confidence = 2]
     IN  scores' = scores \cup Preferences(a[1], d, base) \cup Grades(a[1], d, base)
                          \cup TagScores(a[1], d, base)
  /\ UNCHANGED <<ledger, terminal, assigned>>

\* _record_pairwise_scores, of a judge that was asked in one position.
JudgeScores(e, p, k, d) ==
  LET base == [NoScore EXCEPT !.by = "llm_judge", !.who = e, !.of = {p[1], p[2]},
                 !.swap = k, !.structured = d.structured, !.confidence = d.confidence]
  IN  Preferences(p, d, base) \cup Grades(p, d, base) \cup RubricScores(p, d, base)

\* run_llm_judge, once per judge: every pair, in both positions if it swaps.
Judge(e, swaps, says) ==
  /\ Complete /\ JudgedPairs # {} /\ ~\E s \in scores : s.who \in {e, "demo"}
  /\ scores' = scores \cup
       UNION {JudgeScores(e, q[1], q[2], says[q[1]]) : q \in JudgedPairs \X swaps}
  /\ UNCHANGED <<ledger, terminal, assigned, submitted>>

\* The scores of the demo.  Its rubric scores name as their comparison the
\* answers of one replicate to every warmer.
DemoScores(p, d) ==
  LET base == [NoScore EXCEPT !.by = "llm_judge", !.who = "demo", !.of = {p[1], p[2]},
                 !.confidence = d.confidence]
  IN  Preferences(p, d, base) \cup Grades(p, d, base) \cup
      {[base EXCEPT !.attempt = p[k], !.type = "rubric_score", !.signals = Signals,
          !.of = {j \in Rows : Group(j) = Group(p[k]) /\ SameReplicate(j, p[k])}] :
         k \in {1, 2}}

\* _record_synthetic_judge_scores of the demo, which runs no judge.
RecordDemoScores(d) ==
  /\ Complete /\ assigned # {} /\ ~\E s \in scores : s.by = "llm_judge"
  /\ scores' = scores \cup UNION {DemoScores(a[1], d) : a \in assigned}
  /\ UNCHANGED <<ledger, terminal, assigned, submitted>>

\* The newest row of the replicate without a warmer, one with text if there is.
StoredBaseline(i) ==
  LET same == {j \in terminal : /\ Group(j) = Group(i) /\ ledger[j].warmer = NoWarmer
                                /\ SameReplicate(i, j)}
      best == IF \E j \in same : Succeeded(j) THEN {j \in same : Succeeded(j)} ELSE same
  IN  IF best = {} THEN NoRow ELSE CHOOSE j \in best : \A k \in best : k <= j

\* record_deterministic_divergence_scores, by the evaluator job; nothing is
\* stored twice.
RecordDivergences ==
  /\ Complete
  /\ scores' = scores \cup
       {[NoScore EXCEPT !.attempt = i, !.type = "divergence", !.by = "code",
                        !.baseline = StoredBaseline(i)] :
          i \in {j \in terminal : /\ ledger[j].warmer # NoWarmer
                                  /\ ~\E s \in scores : s.type = "divergence" /\ s.attempt = j}}
  /\ scores' # scores
  /\ UNCHANGED <<ledger, terminal, assigned, submitted>>
-----------------------------------------------------------------------------
\* Rates and totals.

Rate(n, d)    == [n |-> n, d |-> d]
Known(r)      == r.d # 0
AtMost(r, q)  == r.n * q.d <= q.n * r.d
Below(r, q)   == r.n * q.d < q.n * r.d

\* The sum of an optional number over rows, counted in units.
Units(A, value(_)) == UNION {{i} \X UNION {1 .. v : v \in value(i)} : i \in A}
Average(A, value(_)) ==
  Rate(Cardinality(Units(A, value)), Cardinality({i \in A : value(i) # {}}))

-----------------------------------------------------------------------------
\* The rows and scores a report is about.

\* _filter_attempt_metrics
Selected(f) == {i \in terminal : \A dim \in Dimensions : f[dim] \in {Any, ledger[i][dim]}}

\* _score_matches_filters
Matches(s, f) ==
  /\ f.source \in {Any, s.by}
  /\ s.by = "human" => f.reviewer \in {Any, s.who}

Evidence(f, A) == {s \in scores : s.attempt \in A /\ Matches(s, f)}

\* The human pairwise scores, and the grades, which are a judge's if the filter
\* asks for judges.
Won(f, A, outcome) ==
  {s \in Evidence(f, A) : /\ s.type = "pairwise_preference" /\ s.by = "human"
                          /\ s.outcome = outcome}
Graded(f, A, outcome) ==
  {s \in Evidence(f, A) : /\ s.type = "pass_fail" /\ s.outcome = outcome
                          /\ \/ s.by = "human"
                             \/ s.by = "llm_judge" /\ f.source = "llm_judge"}

FailureTags(f, A) ==
  UNION {s.tags : s \in {x \in Evidence(f, A) : x.type = "failure_tags" /\ x.by = "human"}}

RateOf(S, T) == Rate(Cardinality(S), Cardinality(S \cup T))

\* AggregateBucket
Bucket(f, A) ==
  [attempt_count |-> Cardinality(A),
   failure_rate  |-> Rate(Cardinality({i \in A : ledger[i].status = "failed"}), Cardinality(A)),
   pass_rate     |-> RateOf(Graded(f, A, "passed"), Graded(f, A, "failed")),
   win_rate      |-> RateOf(Won(f, A, "winner"), Won(f, A, "loser")),
   cost          |-> Average(A, LAMBDA i : ledger[i].cost),
   latency       |-> Average(A, LAMBDA i : ledger[i].latency),
   failure_tags  |-> FailureTags(f, A)]

\* _quality_metric
Metric(b) == IF Known(b.pass_rate) THEN "pass_rate"
             ELSE IF Known(b.win_rate) THEN "win_rate" ELSE "none"
Quality(b) == IF Known(b.pass_rate) THEN b.pass_rate ELSE b.win_rate

\* _quality_by_case_model_prompt_warmer: the bucket of each cell that has rows.
QualityByCell(f) ==
  [c \in {Cell(i) : i \in Selected(f)} |-> Bucket(f, {i \in Selected(f) : Cell(i) = c})]
-----------------------------------------------------------------------------
\* The cost-quality frontier of a table of cells.

\* _frontier_missing_status
MissingStatus(b) ==
  CASE Metric(b) = "none" -> "missing_quality"
    [] Metric(b) # "none" /\ ~Known(b.cost) -> "missing_cost"
    [] Metric(b) # "none" /\ Known(b.cost) /\ ~Known(b.latency) -> "missing_latency"
    [] OTHER -> "candidate"

Candidates(table) == {c \in DOMAIN table : MissingStatus(table[c]) = "candidate"}

NoWorse(x, y) ==
  /\ AtMost(Quality(y), Quality(x)) /\ AtMost(x.cost, y.cost) /\ AtMost(x.latency, y.latency)
Better(x, y) ==
  Below(Quality(y), Quality(x)) \/ Below(x.cost, y.cost) \/ Below(x.latency, y.latency)

\* Mutant: a row that is better in nothing dominates.
DominatesTies(table, c, d) ==
  /\ c[1] = d[1] /\ Metric(table[c]) = Metric(table[d])
  /\ NoWorse(table[c], table[d])

\* Mutant: rows of different cases are compared.
DominatesAnyCase(table, c, d) ==
  /\ Metric(table[c]) = Metric(table[d])
  /\ NoWorse(table[c], table[d]) /\ Better(table[c], table[d])

\* _frontier_dominates, of two candidates.
Dominates(table, c, d) ==
  /\ c[1] = d[1] /\ Metric(table[c]) = Metric(table[d])
  /\ NoWorse(table[c], table[d]) /\ Better(table[c], table[d])

\* _mark_frontier_rows: which dominator a row names depends on the sort order.
Dominators(table, c) == {d \in Candidates(table) \ {c} : Dominates(table, d, c)}

DominanceStatus(table, c) ==
  IF c \notin Candidates(table) THEN MissingStatus(table[c])
  ELSE IF Dominators(table, c) = {} THEN "frontier" ELSE "dominated"
-----------------------------------------------------------------------------
\* Warmers: lift, sensitivity, divergence, carryover.

\* The cell without a warmer; it also names the group of its warmers.
BaselineCell(c) == <<c[1], c[2], c[3], NoWarmer>>

\* _warmer_lift_rows: lift is missing unless both cells have one metric.
Lift(table, c) ==
  LET base == BaselineCell(c)
      both == /\ base \in DOMAIN table /\ Metric(table[c]) = Metric(table[base])
              /\ Metric(table[c]) # "none"
  IN  [cell |-> c, baseline_missing |-> base \notin DOMAIN table,
       lift |-> IF both THEN <<Quality(table[base]), Quality(table[c])>> ELSE <<>>]

LiftRows(table) == {Lift(table, c) : c \in {d \in DOMAIN table : d[4] # NoWarmer}}

\* _comparable_scored_warmers
ScoredWarmers(table, g) ==
  LET scored == {c \in DOMAIN table : BaselineCell(c) = g /\ Metric(table[c]) # "none"}
  IN  IF Cardinality({Metric(table[c]) : c \in scored}) = 1 THEN scored ELSE {}

\* _context_sensitivity_rows: the least and the greatest rates of the warmers.
\* _divergence_rows: whether their failure tags differ.
ContextRow(table, g) ==
  LET rates == {Quality(table[c]) : c \in ScoredWarmers(table, g)}
  IN  [group |-> g,
       worst |-> {r \in rates : \A q \in rates : AtMost(r, q)},
       best  |-> {r \in rates : \A q \in rates : AtMost(q, r)},
       failure_tag_spread |-> Cardinality({table[c].failure_tags :
                                c \in {d \in DOMAIN table : BaselineCell(d) = g}}) > 1]

ContextRows(table) == {ContextRow(table, BaselineCell(c)) : c \in DOMAIN table}

Warmed(f) == {i \in Selected(f) : ledger[i].warmer # NoWarmer}

Baselines(f, i) ==
  {j \in Selected(f) : Group(j) = Group(i) /\ ledger[j].warmer = NoWarmer}

\* _matching_baseline_metrics
MatchingBaseline(f, i) ==
  LET same == {j \in Baselines(f, i) : SameReplicate(i, j)}
  IN  IF same = {} THEN NoRow ELSE CHOOSE j \in same : \A k \in same : k <= j

\* A divergence row; from is the evidence, known whether it has a value.
DivergenceRow(i, criterion, source, baseline, known, from) ==
  [attempt |-> i, criterion |-> criterion, source |-> source, baseline |-> baseline,
   known |-> known, from |-> from]

StoredRows(f) ==
  {DivergenceRow(s.attempt, "stored", "deterministic", s.baseline,
                 s.baseline # NoRow /\ Succeeded(s.attempt) /\ Succeeded(s.baseline), {}) :
     s \in {x \in Evidence(f, Selected(f)) : x.type = "divergence" /\ x.by = "code"}}

\* _failure_mode_spread_rows: tags are needed on both sides.
SpreadRow(f, i) ==
  LET b == MatchingBaseline(f, i)
  IN  DivergenceRow(i, "failure_mode", "human", b,
                    b # NoRow /\ FailureTags(f, {b}) # {} /\ FailureTags(f, {i}) # {}, {})

\* _judge_signal_evidence_candidates: rubric scores of the signal and structured
\* outputs that have it.
JudgeEvidence(f, i, signal) ==
  {[source |-> "rubric", score |-> s] :
     s \in {x \in Evidence(f, {i}) : /\ x.by = "llm_judge" /\ x.type = "rubric_score"
                                     /\ signal \in x.signals}} \cup
  {[source |-> "structured", score |-> s] :
     s \in {x \in Evidence(f, {i}) : x.by = "llm_judge" /\ signal \in x.structured}}

\* Mutant: what was compared is not looked at.
SameJudge(x, y) ==
  /\ x.source = y.source
  /\ x.source = "rubric" => x.score.signals = y.score.signals
  /\ x.score.who = y.score.who

\* _compatible_judge_evidence
CompatibleEvidence(x, y) ==
  /\ x.source = y.source
  /\ x.source = "rubric" => x.score.signals = y.score.signals
  /\ x.score.who = y.score.who
  /\ x.score.of = y.score.of /\ x.score.swap = y.score.swap

MatchedEvidence(f, b, i, signal) ==
  {m \in JudgeEvidence(f, b, signal) \X JudgeEvidence(f, i, signal) :
     CompatibleEvidence(m[1], m[2])}

\* _claim_conclusion_divergence_row: from the most confident matched evidence,
\* else from the terms of both texts.
ClaimRow(f, i, signal) ==
  LET b       == MatchingBaseline(f, i)
      matched == IF b = NoRow THEN {} ELSE MatchedEvidence(f, b, i, signal)
      most    == {m \in matched : \A n \in matched :
                    \/ n[1].score.confidence < m[1].score.confidence
                    \/ /\ n[1].score.confidence = m[1].score.confidence
                       /\ n[2].score.confidence <= m[2].score.confidence}
  IN  IF matched # {} THEN DivergenceRow(i, signal, "llm_judge", b, TRUE, most)
      ELSE DivergenceRow(i, signal, "deterministic_fallback", b,
                         /\ b # NoRow /\ Succeeded(b) /\ Succeeded(i)
                         /\ ledger[b].terms[signal] # {} /\ ledger[i].terms[signal] # {}, {})

\* _divergence_metric_rows
DivergenceRows(f) ==
  StoredRows(f) \cup {SpreadRow(f, i) : i \in Warmed(f)}
  \cup {ClaimRow(f, i, signal) : i \in Warmed(f), signal \in Signals}

\* _local_carryover_audit_row: which of the warmer's terms the output has.
LocalCarryover(i) ==
  LET warmer  == WarmerTerms[ledger[i].warmer]
      output  == IF Succeeded(i) THEN ledger[i].terms.output ELSE {}
      matched == warmer \cap output
  IN  IF warmer = {} \/ output = {} THEN "unknown"
      ELSE IF matched = {} THEN "ignored"
      ELSE IF /\ Cardinality(matched) >= 1
              /\ Cardinality(matched) + 1 >= Cardinality(warmer)
              /\ Cardinality(output) <= Cardinality(matched) + 1
           THEN "overfit" ELSE "reused"

\* _structured_carryover_evidence: the most confident structured output.
StructuredCarryover(f, i) ==
  LET all == {s \in Evidence(f, {i}) : s.by = "llm_judge" /\ s.structured \cap Audits # {}}
  IN  UNION {s.structured \cap Audits :
               s \in {x \in all : \A y \in all : y.confidence <= x.confidence}}

\* _carryover_audit_rows
CarryoverRow(f, i) ==
  IF StructuredCarryover(f, i) # {}
  THEN [attempt |-> i, source |-> "structured_judge_output", status |-> StructuredCarryover(f, i)]
  ELSE [attempt |-> i, source |-> "local_warmer_overlap", status |-> {LocalCarryover(i)}]

CarryoverRows(f) == {CarryoverRow(f, i) : i \in Warmed(f)}
-----------------------------------------------------------------------------
\* Reliability, labels, reviewers and judges.

\* Mutant: retries are samples too.
AnyAttempt(i) == TRUE

\* is_reliability_sample
IsReliabilitySample(i) == ledger[i].attempt_kind = "replicate" /\ ledger[i].parent = NoRow

\* _dimension_uncertainty_rows: what the intervals of one value are drawn from.
UncertaintyRow(f, dim, value) ==
  Bucket(f, {i \in Selected(f) : ledger[i][dim] = value /\ IsReliabilitySample(i)})

\* _score_matches_calibration_filters
Calibrates(s, f) ==
  /\ f.source \in {Any, "human", "llm_judge"}
  /\ s.by \in {"human", "llm_judge"}
  /\ s.by = "human" => f.reviewer \in {Any, s.who}

\* Mutant: a tie is an outcome like any other.
AnyOutcome(s) == TRUE

Decided(s) == s.outcome \in {"winner", "loser", "passed", "failed"}

\* _judge_calibration_rows: every score of the judge with every score of a
\* person of the same type on the same attempt.
CalibrationPairs(f, e, type) ==
  LET counted == {s \in scores : /\ s.attempt \in Selected(f) /\ Calibrates(s, f)
                                 /\ s.type = type /\ Decided(s)}
  IN  {p \in counted \X counted : /\ p[1].by = "llm_judge" /\ p[1].who = e
                                  /\ p[2].by = "human" /\ p[1].attempt = p[2].attempt}

Disagreements(f, e, type) == {p \in CalibrationPairs(f, e, type) : p[1].outcome # p[2].outcome}

\* _assignment_matches_dimensions: one of the item's answers does.
AssignmentMatches(a, f) ==
  /\ f.reviewer \in {Any, a[2]}
  /\ \A dim \in Dimensions : \E k \in {1, 2} : f[dim] \in {Any, ledger[a[1][k]][dim]}

\* _reviewer_disagreement_rows: the items of which the submitted decisions name
\* different winners.
PairwiseDisagreements(f) ==
  {p \in {a[1] : a \in assigned} :
     Cardinality({s.decision.winner : s \in {x \in submitted :
       x.assignment[1] = p /\ AssignmentMatches(x.assignment, f)}}) > 1}
-----------------------------------------------------------------------------
\* Specification.

Next ==
  \/ \E i \in Rows : EndAttempt(i)
  \/ Assign
  \/ \E a \in assigned, d \in Decisions : Submit(a, d)
  \/ \E e \in Judges, swaps \in Swaps, says \in [JudgedPairs -> Verdicts] :
       Judge(e, swaps, says)
  \/ \E d \in Verdicts : RecordDemoScores(d)
  \/ RecordDivergences

Spec == Init /\ [][Next]_vars
-----------------------------------------------------------------------------
\* Properties.

\* Every variable of the evidence keeps its type; scores are on rows that have
\* ended.
TypeOK ==
  /\ ledger \in Ledgers /\ terminal \subseteq Rows
  /\ assigned \subseteq (terminal \X terminal) \X Reviewers
  /\ \A s \in submitted : s.assignment \in assigned
  /\ IsFiniteSet(scores)
  /\ \A s \in scores : /\ s.attempt \in terminal /\ s.confidence \in 0 .. 2 /\ s.swap \in 0 .. 1
                       /\ s.baseline \in terminal \cup {NoRow}

\* _mark_frontier_rows compares every row with every other in one pass: still,
\* a row that is called dominated is dominated by a row that is on the frontier,
\* of the same case and quality metric, whatever was filtered and however rows
\* tie.  A reader who drops the dominated rows loses no best choice.
FrontierIsSound ==
  \A f \in Filters : LET table == QualityByCell(f) IN
    \A c \in DOMAIN table : DominanceStatus(table, c) = "dominated" =>
      \E d \in DOMAIN table : /\ DominanceStatus(table, d) = "frontier"
                              /\ Dominates(table, d, c)

StatusRows(table) == {<<c, DominanceStatus(table, c)>> : c \in DOMAIN table}

\* A filter by case, model or system prompt shows the rows of the unfiltered
\* report and no others, with the same lifts, spreads, baselines and evidence; a
\* filter by case leaves the frontier as it was, too.  (A filter by warmer hides
\* the baselines and one by model the rows that dominate.)
FiltersOnlyRestrict ==
  \A f \in Filters, k \in 1 .. 3 :
    LET dim == <<"case", "model", "prompt">>[k] IN
    f[dim] = Any => \A value \in {ledger[i][dim] : i \in Rows} :
      LET g    == [f EXCEPT ![dim] = value]
          all  == QualityByCell(f)
          some == QualityByCell(g)
      IN  /\ LiftRows(some) = {r \in LiftRows(all) : r.cell[k] = value}
          /\ ContextRows(some) = {r \in ContextRows(all) : r.group[k] = value}
          /\ DivergenceRows(g) = {r \in DivergenceRows(f) : ledger[r.attempt][dim] = value}
          /\ CarryoverRows(g) = {r \in CarryoverRows(f) : ledger[r.attempt][dim] = value}
          /\ dim = "case" => StatusRows(some) = {r \in StatusRows(all) : r[1][1] = value}

\* All divergences with a value that one report states of an answer, stored by
\* the evaluator job or computed from tags, judges and text, are from one
\* baseline, an answer of the same replicate without a warmer; and a judge is
\* quoted only when it scored both in one comparison.
DivergencesAgree ==
  \A f \in Filters : LET rows == DivergenceRows(f) IN \A x \in rows : x.known =>
    /\ Group(x.baseline) = Group(x.attempt) /\ SameReplicate(x.baseline, x.attempt)
    /\ \A y \in rows :
         y.known /\ y.attempt = x.attempt => y.baseline = x.baseline
    /\ \A m \in x.from : /\ m[1].score.who = m[2].score.who
                         /\ {x.baseline, x.attempt} \subseteq m[1].score.of \cap m[2].score.of

OneComparison(f, e) ==
  \A s, t \in scores :
    /\ s.attempt \in Selected(f) /\ t.attempt = s.attempt
    /\ s.type = "pairwise_preference" /\ t.type = "pairwise_preference"
    /\ \A x \in {s, t} : Calibrates(x, f) /\ x.who \in Reviewers \cup {e}
    => s.of = t.of

\* Where each answer met one other, a judge disagrees with people on a
\* comparison only if a person preferred the answer the judge did not.  (Where
\* an answer met several, the calibration also holds a win in one comparison
\* against a loss in another.)  And the reviewers who disagree on an item, by
\* their submissions, are those whose scores of its answers differ.
DisagreementIsReal ==
  \A f \in Filters :
    /\ \A e \in Judges \cup {"demo"} : OneComparison(f, e) =>
         \A p \in Disagreements(f, e, "pairwise_preference") :
           \E s \in submitted :
             LET pair == s.assignment[1]
             IN  /\ {pair[1], pair[2]} = p[1].of /\ s.assignment[2] = p[2].who
                 /\ s.decision.winner \in {"first", "second"}
                 /\ p[1].outcome # Outcome(pair, p[1].attempt, s.decision.winner)
    /\ f.source \in {Any, "human"} =>
         PairwiseDisagreements(f) =
           {p \in {a[1] : a \in assigned} : \E i \in {p[1], p[2]} \cap Selected(f) :
              Cardinality({s.outcome : s \in {x \in Evidence(f, {i}) :
                x.by = "human" /\ x.type = "pairwise_preference"
                /\ x.of = {p[1], p[2]}}}) > 1}

Replicates(S) == {<<Cell(i), ledger[i].replicate_index>> : i \in S}

\* The intervals of a model, case, prompt or warmer count every replicate that has
\* ended once, whatever retries it had and has still to come, and as failed exactly
\* if an attempt at it failed: a retry neither inflates the confidence, nor does
\* its success hide the failure it recovered from.
SamplesAreReplicates ==
  \A f \in Filters, dim \in Dimensions : \A value \in {ledger[i][dim] : i \in Rows} :
    LET ended  == {i \in Selected(f) : ledger[i][dim] = value}
        failed == {i \in ended : ledger[i].status = "failed"}
        row    == UncertaintyRow(f, dim, value)
    IN  /\ row.attempt_count = Cardinality(Replicates(ended))
        /\ row.failure_rate = Rate(Cardinality(Replicates(failed)), Cardinality(Replicates(ended)))
=============================================================================
