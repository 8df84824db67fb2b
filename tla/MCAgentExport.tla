--------------------------- MODULE MCAgentExport ---------------------------
(***************************************************************************)
(* Model values of AgentExport: in Web a document depends on two others,   *)
(* and these and a fourth on one another; Pair has one dependency.         *)
(***************************************************************************)
EXTENDS AgentExport

CONSTANTS d1, d2, d3, d4    \* documents
Web == {<<d1, d2>>, <<d1, d3>>, <<d2, d4>>, <<d3, d4>>, <<d4, d2>>, <<d4, d3>>}
Pair == {<<d1, d2>>}
=============================================================================
