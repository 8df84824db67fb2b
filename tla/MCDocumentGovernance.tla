------------------------ MODULE MCDocumentGovernance ------------------------
(***************************************************************************)
(* Model values of DocumentGovernance: two architects, who have every      *)
(* capability the module asks for, so that any two of its calls can race.  *)
(***************************************************************************)
EXTENDS DocumentGovernance, TLC

AllArchitects == [a \in Actors |-> "ARCHITECT"]

Symmetry == Permutations(Actors) \cup Permutations(Texts)
=============================================================================
