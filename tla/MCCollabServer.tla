--------------------------- MODULE MCCollabServer ---------------------------
(***************************************************************************)
(* Model values of CollabServer: updates, rooms and sockets are            *)
(* interchangeable, so the safety runs use their permutations.             *)
(***************************************************************************)
EXTENDS CollabServer, TLC

Symmetry == Permutations(Updates) \cup Permutations(Rooms) \cup Permutations(Sockets)
=============================================================================
