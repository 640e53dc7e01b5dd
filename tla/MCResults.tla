----------------------------- MODULE MCResults -----------------------------
(***************************************************************************)
(* TLC instance of Results.  The ledgers: two models in two cases; a       *)
(* baseline that is retried beside a warmed answer, of two models; three   *)
(* models, two of which tie; a replicate that stays failed; an answer of   *)
(* unknown cost and one of unknown latency; a replicate that the cost cap  *)
(* refused beside one that it did not.                                     *)
(***************************************************************************)
EXTENDS Results, Sequences

Attempt(case, model, warmer, k, status, cost, latency, terms) ==
  [case |-> case, model |-> model, prompt |-> "p", warmer |-> warmer, replicate_index |-> k,
   attempt_kind |-> "replicate", parent |-> NoRow, attempt_number |-> 1, refused |-> FALSE,
   status |-> status, cost |-> cost, latency |-> latency,
   terms |-> [output |-> terms, claim |-> terms, conclusion |-> {}]]

Good(case, model, warmer, k, cost, latency) ==
  Attempt(case, model, warmer, k, "succeeded", {cost}, {latency}, {"x"})
Bad(case, model, warmer, k) == Attempt(case, model, warmer, k, "failed", {}, {1}, {})
Refused(case, model, warmer, k) == [Bad(case, model, warmer, k) EXCEPT !.refused = TRUE]
RetryOf(i, n, row) ==
  [row EXCEPT !.attempt_kind = "retry", !.parent = i, !.attempt_number = n]

MCLedgers ==
  { << Good("c1", "a", "none", 0, 1, 2), Good("c1", "b", "none", 0, 2, 1),
       Good("c2", "a", "none", 0, 1, 1), Good("c2", "b", "none", 0, 2, 2) >>,
    << Bad("c1", "a", "none", 0), Good("c1", "a", "w", 0, 1, 1),
       RetryOf(1, 2, Good("c1", "a", "none", 0, 1, 1)), Good("c1", "b", "none", 0, 1, 1),
       Good("c1", "b", "w", 0, 2, 1) >>,
    << Good("c1", "a", "none", 0, 1, 1), Good("c1", "b", "none", 0, 1, 1),
       Good("c1", "c", "none", 0, 1, 2) >>,
    << Bad("c1", "a", "none", 0), Good("c1", "a", "none", 1, 1, 1),
       Good("c1", "a", "w", 0, 1, 1), Good("c1", "a", "w", 1, 1, 1) >>,
    << Attempt("c1", "a", "none", 0, "succeeded", {}, {1}, {"x", "y"}),
       Attempt("c1", "b", "none", 0, "succeeded", {1}, {}, {"x"}),
       Attempt("c1", "a", "w", 0, "canceled", {}, {}, {}) >>,
    << Good("c1", "a", "none", 0, 1, 1), Refused("c1", "a", "none", 1),
       Good("c1", "b", "none", 0, 1, 1) >> }

Filter(field, value) ==
  [[case |-> Any, model |-> Any, prompt |-> Any, warmer |-> Any, source |-> Any,
    reviewer |-> Any] EXCEPT ![field] = value]

MCFilters ==
  { Filter("case", Any), Filter("source", "llm_judge"),
    Filter("reviewer", "r1"), Filter("warmer", "none"), Filter("model", "a") }

MCDecisions ==
  { [winner |-> "first", passed |-> {"first"}, failed |-> {"second"}, tags |-> {"vague"}],
    [winner |-> "second", passed |-> {}, failed |-> {}, tags |-> {}],
    [winner |-> "tie", passed |-> {"second"}, failed |-> {"first"}, tags |-> {"wrong"}] }

MCVerdicts ==
  { [winner |-> "first", passed |-> {"first"}, failed |-> {"second"}, confidence |-> 2,
     signals |-> {"claim"}, structured |-> {}],
    [winner |-> "second", passed |-> {}, failed |-> {}, confidence |-> 1,
     signals |-> {}, structured |-> {"claim", "reused"}] }

MCWarmerTerms == [w \in {"none", "w"} |-> IF w = "w" THEN {"x", "z"} ELSE {}]
=============================================================================
