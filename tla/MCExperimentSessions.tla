------------------------ MODULE MCExperimentSessions ------------------------
(***************************************************************************)
(* TLC instances of ExperimentSessions.                                    *)
(***************************************************************************)
EXTENDS ExperimentSessions, TLC

CONSTANTS w1, w2, c1, c2

\* Workers are interchangeable, and so are clients.
Symmetry == Permutations(Workers) \cup Permutations(Clients)
=============================================================================
