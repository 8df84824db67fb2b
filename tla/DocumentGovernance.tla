------------------------- MODULE DocumentGovernance -------------------------
(***************************************************************************)
(* The governed life of one document (apps/web/src/lib/actions/            *)
(* documents.ts, reviews.ts, versions.ts; packages/core/src/documents and  *)
(* versioning): its status, the reviews of its versions, and the snapshots *)
(* that make up its history, under concurrent Server Actions.              *)
(*                                                                         *)
(* A Server Action is a call of one actor.  Each of its queries outside a  *)
(* transaction is a step.  A transaction that first updates the document's *)
(* row (status change, restore, save) holds the row's lock and is one      *)
(* step; the snapshot transaction reads the row before it writes anything, *)
(* in two steps, and the unique index on (documentId, versionNum) makes    *)
(* the later of two such transactions fail.  Any transaction may fail.     *)
(*                                                                         *)
(* What is abstracted.  A body is a member of Texts; rev counts its        *)
(* writes, whoever makes them: the REST save, the fold of a collaboration  *)
(* room, a restore.  The activity log, notifications and the AI changelog  *)
(* written after a snapshot are left out.                                  *)
(***************************************************************************)
EXTENDS Naturals

CONSTANTS
    Actors,     \* the users
    Role,       \* the effective role of each
    Texts,      \* bodies
    MaxCalls,   \* bound: Server Actions begun
    MaxRev,     \* bound: writes of the body
    Absent      \* no value: not read yet, or no row

Statuses == {"DRAFT", "REVIEW", "APPROVED", "IMPLEMENTING", "IMPLEMENTED", "DEPRECATED"}
Roles == {"OWNER", "ARCHITECT", "ENGINEER", "REVIEWER", "VIEWER"}

ASSUME ConstantsAssumption ==
    /\ Role \in [Actors -> Roles]
    /\ MaxCalls \in Nat /\ MaxRev \in Nat
    /\ Texts # {} /\ Absent \notin Texts \cup Statuses

VARIABLES
    status,     \* Document.status
    version,    \* Document.currentVersion
    text,       \* Document.contentText and contentJSON
    rev,        \* history: the writes of the body so far
    versions,   \* the DocumentVersion rows, [num, text, rev]
    reviews,    \* the Review rows, [decision, num, rev]
    call,       \* per actor: the Server Action that is running
    calls       \* the Server Actions begun

body == <<text, rev>>
history == <<version, versions>>
vars == <<status, history, body, reviews, call, calls>>

-----------------------------------------------------------------------------
Decisions == {"APPROVE", "REQUEST_CHANGES", "COMMENT"}

\* STATUS_TRANSITIONS
Transitions ==
    [s \in Statuses |->
        CASE s = "DRAFT" -> {"REVIEW", "DEPRECATED"}
          [] s = "REVIEW" -> {"DRAFT", "APPROVED", "DEPRECATED"}
          [] s = "APPROVED" -> {"REVIEW", "IMPLEMENTING", "DEPRECATED"}
          [] s = "IMPLEMENTING" -> {"IMPLEMENTED", "APPROVED", "DEPRECATED"}
          [] s = "IMPLEMENTED" -> {"DEPRECATED"}
          [] s = "DEPRECATED" -> {"DRAFT"}]

RequiresApprovingReview(from, to) == from = "REVIEW" /\ to = "APPROVED"

\* ROLE_CAPABILITIES and TRANSITION_MIN_ROLE, as far as this module asks.
MayChangeStatus(a, to) == Role[a] \in {"OWNER", "ARCHITECT"}
MayEdit(a) == Role[a] \in {"OWNER", "ARCHITECT", "ENGINEER"}
MayReview(a) == Role[a] \in {"OWNER", "ARCHITECT", "REVIEWER"}

\* pin -> count: the approving-review gate; look: hasChangesSinceLastVersion and,
\* for a status change, its transaction; read: the snapshot's row was read;
\* review: the version to review was read.
Stages == {"idle", "pin", "count", "look", "snap", "read", "review"}
Calls == [stage : Stages,
          to : Statuses \cup {Absent},      \* the status asked for; Absent: a snapshot
          from : Statuses \cup {Absent},    \* the status read
          num : Nat,                        \* the version read
          text : Texts \cup {Absent},       \* the body read
          latest : Texts \cup {Absent},     \* the last snapshot's body read
          saw : BOOLEAN,                    \* was the last snapshot read?
          rev : Nat]                        \* history: rev when the body or version was read

Idle == [stage |-> "idle", to |-> Absent, from |-> Absent, num |-> 0,
         text |-> Absent, latest |-> Absent, saw |-> FALSE, rev |-> 0]

Versions == [num : Nat, text : Texts, rev : Nat]
Reviews == [decision : Decisions, num : Nat, rev : Nat]

TypeOK ==
    /\ status \in Statuses
    /\ version \in Nat
    /\ text \in Texts
    /\ rev \in Nat
    /\ versions \in SUBSET Versions
    /\ reviews \in SUBSET Reviews
    /\ call \in [Actors -> Calls]
    /\ calls \in Nat

Init ==
    /\ status = "DRAFT"
    /\ version = 0
    /\ text \in Texts
    /\ rev = 0
    /\ versions = {}
    /\ reviews = {}
    /\ call = [a \in Actors |-> Idle]
    /\ calls = 0

-----------------------------------------------------------------------------
Begin(a, c) ==
    /\ call[a].stage = "idle"
    /\ calls < MaxCalls
    /\ calls' = calls + 1
    /\ call' = [call EXCEPT ![a] = c]

Return(a) == call' = [call EXCEPT ![a] = Idle] /\ UNCHANGED calls

Continue(a, c) == call' = [call EXCEPT ![a] = c] /\ UNCHANGED calls

\* The snapshot with the highest number.
Latest == {v \in versions : \A w \in versions : w.num <= v.num}

\* createVersion in a transaction that holds the row's lock: number, body and
\* counter are those of the row.
CreateVersion(t, r) ==
    /\ version' = version + 1
    /\ versions' = versions \cup {[num |-> version + 1, text |-> t, rev |-> r]}

-----------------------------------------------------------------------------
(***************************************************************************)
(* changeDocumentStatus.                                                   *)
(***************************************************************************)

\* The status is read; the transition and the role are asserted at once, but for
\* the approving reviews, which are still to be counted.
AskStatus(a, to) ==
    /\ MayChangeStatus(a, to)
    /\ to \in Transitions[status]
    /\ Begin(a, [Idle EXCEPT
            !.stage = IF RequiresApprovingReview(status, to) THEN "pin" ELSE "look",
            !.to = to, !.from = status])
    /\ UNCHANGED <<status, history, body, reviews>>

\* countApprovingReviews reads the current version ...
PinVersion(a) ==
    /\ call[a].stage = "pin"
    /\ Continue(a, [call[a] EXCEPT !.stage = "count", !.num = version])
    /\ UNCHANGED <<status, history, body, reviews>>

Approvals(n) == {r \in reviews : r.decision = "APPROVE" /\ r.num = n}

\* Fault: reviews are counted whatever they decided.
CountAnyReview(a) ==
    /\ call[a].stage = "count"
    /\ \/ /\ \E r \in reviews : r.num = call[a].num
          /\ Continue(a, [call[a] EXCEPT !.stage = "look"])
       \/ /\ \A r \in reviews : r.num # call[a].num
          /\ Return(a)
    /\ UNCHANGED <<status, history, body, reviews>>

\* ... and then counts its approvals; none rejects the call.
CountApprovals(a) ==
    /\ call[a].stage = "count"
    /\ \/ /\ Approvals(call[a].num) # {}
          /\ Continue(a, [call[a] EXCEPT !.stage = "look"])
       \/ /\ Approvals(call[a].num) = {}
          /\ Return(a)
    /\ UNCHANGED <<status, history, body, reviews>>

\* hasChangesSinceLastVersion: two queries, side by side.
SeeText(a) ==
    /\ call[a].stage = "look" /\ call[a].text = Absent
    /\ Continue(a, [call[a] EXCEPT !.text = text])
    /\ UNCHANGED <<status, history, body, reviews>>

SeeLatest(a) ==
    /\ call[a].stage = "look" /\ ~call[a].saw
    /\ \/ /\ versions = {}
          /\ Continue(a, [call[a] EXCEPT !.saw = TRUE])
       \/ \E v \in Latest :
             Continue(a, [call[a] EXCEPT !.saw = TRUE, !.latest = v.text])
    /\ UNCHANGED <<status, history, body, reviews>>

Looked(a) == call[a].stage = "look" /\ call[a].text # Absent /\ call[a].saw
Changed(a) == call[a].text # call[a].latest

\* The transaction: the status is written as asked, whatever it is by now, and
\* the body of the row is snapshot if it was seen to have changed.
CommitStatus(a) ==
    /\ Looked(a) /\ call[a].to # Absent
    /\ status' = call[a].to
    /\ \/ Changed(a) /\ CreateVersion(text, rev)
       \/ ~Changed(a) /\ UNCHANGED history
    /\ Return(a)
    /\ UNCHANGED <<body, reviews>>

-----------------------------------------------------------------------------
(***************************************************************************)
(* snapshotDocumentVersion.                                                *)
(***************************************************************************)

\* A label is always honoured; without one, changes are looked for first.
AskSnapshot(a, labelled) ==
    /\ MayEdit(a)
    /\ Begin(a, [Idle EXCEPT !.stage = IF labelled THEN "snap" ELSE "look"])
    /\ UNCHANGED <<status, history, body, reviews>>

SkipSnapshot(a) ==
    /\ Looked(a) /\ call[a].to = Absent /\ ~Changed(a)
    /\ Return(a)
    /\ UNCHANGED <<status, history, body, reviews>>

\* createVersion reads the row without locking it.
ReadRow(a) ==
    /\ \/ call[a].stage = "snap"
       \/ Looked(a) /\ call[a].to = Absent /\ Changed(a)
    /\ Continue(a, [Idle EXCEPT !.stage = "read",
                        !.num = version, !.text = text, !.rev = rev])
    /\ UNCHANGED <<status, history, body, reviews>>

\* Fault: the number is read again at the end.
CommitSnapshotRenumbered(a) ==
    /\ call[a].stage = "read"
    /\ CreateVersion(call[a].text, call[a].rev)
    /\ Return(a)
    /\ UNCHANGED <<status, body, reviews>>

\* The number is one more than the one read: it must be free.
CommitSnapshot(a) ==
    /\ call[a].stage = "read"
    /\ \A v \in versions : v.num # call[a].num + 1
    /\ version' = call[a].num + 1
    /\ versions' = versions \cup
          {[num |-> call[a].num + 1, text |-> call[a].text, rev |-> call[a].rev]}
    /\ Return(a)
    /\ UNCHANGED <<status, body, reviews>>

\* A transaction that meets the index, a deadlock or a lost connection.
TransactionFails(a) ==
    /\ \/ Looked(a) /\ call[a].to # Absent
       \/ call[a].stage \in {"read", "review"}
    /\ Return(a)
    /\ UNCHANGED <<status, history, body, reviews>>

-----------------------------------------------------------------------------
(***************************************************************************)
(* submitReview, and the actions that are one transaction.                 *)
(***************************************************************************)

\* The current version is read: the reviewer has the body before him.
AskReview(a) ==
    /\ MayReview(a)
    /\ Begin(a, [Idle EXCEPT !.stage = "review", !.num = version, !.rev = rev])
    /\ UNCHANGED <<status, history, body, reviews>>

CommitReview(a, decision) ==
    /\ call[a].stage = "review"
    /\ reviews' = reviews \cup
          {[decision |-> decision, num |-> call[a].num, rev |-> call[a].rev]}
    /\ Return(a)
    /\ UNCHANGED <<status, history, body>>

\* saveDocumentContent, or a fold of the collaboration room: a body is written;
\* neither the version nor the status follows.
SaveContent(t) ==
    /\ rev < MaxRev
    /\ t # text
    /\ text' = t
    /\ rev' = rev + 1
    /\ UNCHANGED <<status, history, reviews, call, calls>>

\* restoreVersion, fork-forward: the body of the target becomes the document's
\* and that of a new version.
RestoreVersion(a, v) ==
    /\ MayEdit(a)
    /\ rev < MaxRev
    /\ Begin(a, Idle)
    /\ text' = v.text
    /\ rev' = rev + 1
    /\ CreateVersion(v.text, rev + 1)
    /\ UNCHANGED <<status, reviews>>

\* The ingest deprecates a document whose source file is gone, from any status.
MarkIngestDocumentDeprecated(a) ==
    /\ MayChangeStatus(a, "DEPRECATED")
    /\ Begin(a, Idle)
    /\ status' = "DEPRECATED"
    /\ UNCHANGED <<history, body, reviews>>

-----------------------------------------------------------------------------
ChangeStatus(a) ==
    \/ \E to \in Statuses : AskStatus(a, to)
    \/ PinVersion(a) \/ CountApprovals(a)
    \/ SeeText(a) \/ SeeLatest(a)
    \/ CommitStatus(a)

Snapshot(a) ==
    \/ \E labelled \in BOOLEAN : AskSnapshot(a, labelled)
    \/ SkipSnapshot(a) \/ ReadRow(a) \/ CommitSnapshot(a)

Next ==
    \/ \E a \in Actors :
          \/ ChangeStatus(a)
          \/ Snapshot(a)
          \/ AskReview(a)
          \/ \E d \in Decisions : CommitReview(a, d)
          \/ \E v \in versions : RestoreVersion(a, v)
          \/ MarkIngestDocumentDeprecated(a)
          \/ TransactionFails(a)
    \/ \E t \in Texts : SaveContent(t)

Spec == Init /\ [][Next]_vars

-----------------------------------------------------------------------------
(***************************************************************************)
(* Properties.                                                             *)
(***************************************************************************)

\* The history has the versions 1 .. currentVersion, each once, however snapshots,
\* status changes and restores overlap or fail (snapshot.ts:58-59: counter and
\* rows "in lockstep").
VersionsDense ==
    /\ \A v \in versions : v.num \in 1 .. version
    /\ \A n \in 1 .. version : \E v \in versions : v.num = n
    /\ \A v, w \in versions : v.num = w.num => v = w

\* The history runs forward: a later version never has an earlier body of the
\* document, although a snapshot reads the body before it gets its number.
VersionsInOrder ==
    \A v, w \in versions : v.num < w.num => v.rev <= w.rev

\* The statuses behind the approving-review gate.
Sanctioned == {"APPROVED", "IMPLEMENTING", "IMPLEMENTED"}

\* Nothing is approved, being implemented or implemented that nobody approved,
\* also when calls act on a status and on reviews that are stale by the time
\* they commit (status-machine.ts:117-119).
NothingApprovedUnreviewed ==
    status \in Sanctioned => \E r \in reviews : r.decision = "APPROVE"

\* The history of a document, whatever calls overlap.
HistoryHolds ==
    /\ TypeOK
    /\ VersionsDense
    /\ VersionsInOrder

(***************************************************************************)
(* What the documentation says and the code does not do.                   *)
(***************************************************************************)

\* "Reviews pin to the version they were recorded on, so editing the doc after a
\* review invalidates the approval (the doc moves back to REVIEW automatically)"
\* (docs/guide/reviews-and-status.md:35): an approved document is as it was
\* when it was approved by a review.
ApprovedAsReviewed ==
    status = "APPROVED" => \E r \in reviews : r.decision = "APPROVE" /\ r.rev = rev
=============================================================================
