--------------------------- MODULE MCGenerationJob ---------------------------
(***************************************************************************)
(* Model values of GenerationJob: a plan of two nodes that depend on one   *)
(* another's, and a second thought that leaves one of them out.            *)
(***************************************************************************)
EXTENDS GenerationJob, TLC

CONSTANTS p, q

OneLink == {<<p, q>>}
TwoPlans == {{p, q}, {q}}

Symmetry == Permutations(Runners)
=============================================================================
