--------------------------- MODULE CollabDocument ---------------------------
(***************************************************************************)
(* What the collaboration server promises about one document, whatever     *)
(* rooms, logs and folds it uses: an edit is first unsaved, then durable,  *)
(* and an unsaved edit may be lost.  Durable edits stay, until two writers *)
(* overlap on the store; from then on nothing is promised.                 *)
(***************************************************************************)
CONSTANT Updates

VARIABLES
    durable,    \* the edits a load rebuilds
    unsaved,    \* edits made, not durable yet
    overlapped  \* have two writers overlapped?

vars == <<durable, unsaved, overlapped>>

Init ==
    /\ durable = {}
    /\ unsaved = {}
    /\ overlapped = FALSE

Edit(u) ==
    /\ u \notin durable \cup unsaved
    /\ unsaved' = unsaved \cup {u}
    /\ UNCHANGED <<durable, overlapped>>

Save(S) ==
    /\ durable' = durable \cup S
    /\ unsaved' = unsaved \ S
    /\ UNCHANGED overlapped

Lose(S) ==
    /\ unsaved' = unsaved \ S
    /\ UNCHANGED <<durable, overlapped>>

\* Writers overlap: every step from here on is allowed.
Overlap ==
    /\ overlapped' = TRUE
    /\ durable' \in SUBSET Updates
    /\ unsaved' \in SUBSET Updates

Next ==
    \/ \E u \in Updates : Edit(u)
    \/ \E S \in SUBSET unsaved : Save(S) \/ Lose(S)
    \/ Overlap

Spec == Init /\ [][Next]_vars
=============================================================================
