----------------------------- MODULE MCScoring -----------------------------
(***************************************************************************)
(* TLC instance of Scoring.  The ledgers: two replicates that succeed at   *)
(* once; two of which one is retried; a no-warmer row that is retried      *)
(* beside a warmed one; three models without replicates; a run that fails; *)
(* a skipped baseline that is retried; a skipped model that is; a skipped  *)
(* run with a replicate left.                                              *)
(***************************************************************************)
EXTENDS Scoring, TLC

CONSTANTS s1, s2

Attempt(model, warmer, k, n, outcome) ==
  [model |-> model, warmer |-> warmer, replicate_index |-> k, attempt_number |-> n,
   status |-> outcome]

Good(model, warmer, k) == Attempt(model, warmer, k, 1, "succeeded")
Bad(model, warmer, k)  == Attempt(model, warmer, k, 1, "failed")
Over(model, warmer, k) == Attempt(model, warmer, k, 1, "blocked")

MCLedgers ==
  { << Good("a", "none", 0), Good("a", "none", 1), Good("b", "none", 0),
       Good("b", "none", 1) >>,
    << Bad("a", "none", 0), Good("a", "none", 1), Good("b", "none", 0),
       Good("b", "none", 1), Attempt("a", "none", 0, 2, "succeeded") >>,
    << Bad("a", "none", 0), Good("a", "warm", 0), Attempt("a", "none", 0, 2, "succeeded") >>,
    << Good("a", "none", 0), Good("b", "none", 0), Good("c", "none", 0) >>,
    << Good("a", "none", 0), Bad("a", "warm", 0) >>,
    << Good("a", "warm", 0), Over("a", "none", 0), Attempt("a", "none", 0, 2, "succeeded") >>,
    << Good("b", "none", 0), Over("a", "none", 0), Attempt("a", "none", 0, 2, "succeeded") >>,
    << Good("b", "none", 0), Good("b", "none", 1), Over("a", "none", 0), Good("a", "none", 1) >> }

Symmetry == Permutations(Sessions)
=============================================================================
