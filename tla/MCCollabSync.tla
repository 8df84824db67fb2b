---------------------------- MODULE MCCollabSync ----------------------------
(***************************************************************************)
(* Model values of CollabSync: clients are interchangeable.                *)
(***************************************************************************)
EXTENDS CollabSync, TLC

Symmetry == Permutations(Clients)
=============================================================================
