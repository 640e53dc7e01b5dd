--------------------------- MODULE MCReviewQueue ---------------------------
(***************************************************************************)
(* TLC instance of ReviewQueue: a group of three models, whose three pairs *)
(* share attempts.                                                         *)
(***************************************************************************)
EXTENDS ReviewQueue, TLC

CONSTANTS s1, s2

MCAnswers == << {1, 2}, {1, 3}, {2, 3} >>

Symmetry == Permutations(Sessions)
=============================================================================
