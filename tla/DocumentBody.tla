---------------------------- MODULE DocumentBody ----------------------------
(***************************************************************************)
(* The three copies of a document's body: contentJSON, which pages,        *)
(* snapshots and exports read; the rows of the Block table, which search   *)
(* reads; and the Yjs state, which the editor shows.  Server Actions write *)
(* the first two (apps/web/src/lib/actions/documents.ts, templates.ts),    *)
(* the editor the third, and the collaboration room folds it over the      *)
(* others (apps/collab/src/persistence.ts).                                *)
(*                                                                         *)
(* What is abstracted.  A body is a text, whether it has formatting, and   *)
(* whether its blocks have identifiers of their own; without, projectBlocks *)
(* numbers them b0, b1, ... in every document alike.  The Yjs state is     *)
(* base and log together, as CollabRoom shows them to be; one editor per   *)
(* document stands for all, as CollabSync has them converge.               *)
(***************************************************************************)
EXTENDS Naturals, FiniteSets

CONSTANTS
    Docs,           \* documents
    BodyTexts,          \* what a body may say
    MaxWrites,      \* bound: writes of bodies
    NoBody          \* {} in contentJSON, no rows, no Yjs state

ASSUME BodyAssumption == MaxWrites \in Nat

Body == [text : BodyTexts, marks : BOOLEAN, ids : BOOLEAN]

ASSUME NoBodyAssumption == NoBody \notin Body

VARIABLES
    made,       \* the documents there are
    json,       \* Document.contentJSON
    rows,       \* the body whose projection is in the Block table
    ydoc,       \* yDocState with the log
    unfolded,   \* are there rows in the log?
    counter,    \* does an open room know that there are?
    tab,        \* the editor: its stage, and the contentJSON its page was rendered with
    snapshots,  \* DocumentVersion.contentJSON
    stash,      \* the restored body in the session storage of a tab
    past,       \* history: documents written past their Yjs state
    rejected,   \* history: did a transaction meet the primary key of Block?
    writes      \* bodies written so far

stored == <<made, json, rows>>
live == <<ydoc, unfolded, counter>>
histories == <<past, rejected>>
bodyVars == <<stored, live, tab, snapshots, stash, histories, writes>>

-----------------------------------------------------------------------------
Maybe == Body \cup {NoBody}

\* Templates and generated bodies: no identifiers.  Ingested ones have their own.
Templated == {b \in Body : ~b.ids /\ ~b.marks}
Ingested == {b \in Body : b.ids /\ ~b.marks}

\* yDocToBlockNote keeps identifiers and drops formatting.
Projected(b) == [b EXCEPT !.marks = FALSE]

\* A body put into the editor: blocks without identifiers are given some.
Adopted(b) == [b EXCEPT !.ids = TRUE]

EditorStages == {"closed", "sync", "seeded", "ready"}

BodyTypeOK ==
    /\ made \subseteq Docs
    /\ json \in [Docs -> Maybe]
    /\ rows \in [Docs -> Maybe]
    /\ ydoc \in [Docs -> {b \in Body : b.ids} \cup {NoBody}]
    /\ unfolded \in [Docs -> BOOLEAN] /\ counter \in [Docs -> BOOLEAN]
    /\ tab \in [Docs -> [stage : EditorStages, initial : Maybe]]
    /\ snapshots \in [Docs -> SUBSET Maybe]
    /\ stash \in [Docs -> Maybe]
    /\ past \subseteq Docs /\ rejected \in BOOLEAN /\ writes \in Nat

Closed == [stage |-> "closed", initial |-> NoBody]

BodyInit ==
    /\ made = {}
    /\ json = [d \in Docs |-> NoBody] /\ rows = json /\ ydoc = json /\ stash = json
    /\ unfolded = [d \in Docs |-> FALSE] /\ counter = unfolded
    /\ tab = [d \in Docs |-> Closed]
    /\ snapshots = [d \in Docs |-> {}]
    /\ past = {} /\ rejected = FALSE /\ writes = 0

Write == writes < MaxWrites /\ writes' = writes + 1

-----------------------------------------------------------------------------
(***************************************************************************)
(* Server Actions.                                                         *)
(***************************************************************************)

\* The rows of the Block table once the documents in D have the body b: the
\* identifier of a block is the table's primary key.
WithRows(D, b) == [d \in Docs |-> IF d \in D THEN b ELSE rows[d]]
KeysUnique(table) ==
    Cardinality({d \in Docs : table[d] # NoBody /\ ~table[d].ids}) <= 1

\* The transaction that writes a body and replaces its rows; it fails as a whole.
Project(D, b) ==
    \/ /\ KeysUnique(WithRows(D, b))
       /\ json' = [d \in Docs |-> IF d \in D THEN b ELSE json[d]]
       /\ rows' = WithRows(D, b)
       /\ past' = past \cup {d \in D : ydoc[d] # NoBody}
       /\ made' = made \cup D
       /\ UNCHANGED rejected
    \/ /\ ~KeysUnique(WithRows(D, b))
       /\ rejected' = TRUE
       /\ UNCHANGED <<stored, past>>

\* A document that never was, and has no tab.
New(d) == d \notin made /\ tab[d] = Closed /\ stash[d] = NoBody

CreateDocument(d) ==
    /\ New(d)
    /\ made' = made \cup {d}
    /\ UNCHANGED <<json, rows, live, tab, snapshots, stash, histories, writes>>

\* saveDocumentContent: a generated body for a document just created, or the
\* current state of a source file for one that may be in use.
SaveDocumentContent(d) ==
    /\ d \in made
    /\ Write
    /\ \/ json[d] = NoBody /\ \E b \in Templated : Project({d}, b)
       \/ \E b \in Ingested : Project({d}, b)
    /\ UNCHANGED <<live, tab, snapshots, stash>>

\* applyTemplate: documents are created with their bodies, in one transaction.
ApplyTemplate(D) ==
    /\ D # {} /\ \A d \in D : New(d)
    /\ Write
    /\ \E b \in Templated : Project(D, b)
    /\ UNCHANGED <<live, tab, snapshots, stash>>

\* duplicateFromTemplate writes no rows.
DuplicateFromTemplate(d) ==
    /\ New(d)
    /\ Write
    /\ made' = made \cup {d}
    /\ \E b \in Templated : json' = [json EXCEPT ![d] = b]
    /\ UNCHANGED <<rows, live, tab, snapshots, stash, histories>>

\* The rows of the document, its log and its versions go with it; its editor stays.
DeleteDocument(d) ==
    /\ d \in made
    /\ made' = made \ {d}
    /\ json' = [json EXCEPT ![d] = NoBody] /\ rows' = [rows EXCEPT ![d] = NoBody]
    /\ ydoc' = [ydoc EXCEPT ![d] = NoBody]
    /\ unfolded' = [unfolded EXCEPT ![d] = FALSE]
    /\ snapshots' = [snapshots EXCEPT ![d] = {}]
    /\ past' = past \ {d}
    /\ UNCHANGED <<counter, tab, stash, rejected, writes>>

CreateVersion(d) ==
    /\ d \in made
    /\ snapshots' = [snapshots EXCEPT ![d] = @ \cup {json[d]}]
    /\ UNCHANGED <<stored, live, tab, stash, histories, writes>>

\* restoreVersion writes contentJSON only; the tab it was called from keeps the
\* body for the editor.
RestoreVersion(d) ==
    /\ tab[d] = Closed
    /\ Write
    /\ \E v \in snapshots[d] :
          /\ json' = [json EXCEPT ![d] = v]
          /\ stash' = [stash EXCEPT ![d] = v]
    /\ past' = past \cup {e \in {d} : ydoc[e] # NoBody}
    /\ UNCHANGED <<made, rows, live, tab, snapshots, rejected>>

-----------------------------------------------------------------------------
(***************************************************************************)
(* The editor and its room.                                                *)
(***************************************************************************)

OpenTab(d) ==
    /\ d \in made /\ tab[d] = Closed
    /\ tab' = [tab EXCEPT ![d] = [stage |-> "sync", initial |-> json[d]]]
    /\ UNCHANGED <<stored, live, snapshots, stash, histories, writes>>

\* The editor's document changes, and the room hears of it.  Without the document's
\* row the log refuses the update, an unhandled rejection that ends the process.
Edited(d, b) ==
    \/ /\ d \in made
       /\ ydoc' = [ydoc EXCEPT ![d] = b]
       /\ unfolded' = [unfolded EXCEPT ![d] = TRUE]
       /\ counter' = [counter EXCEPT ![d] = TRUE]
    \/ /\ d \notin made
       /\ counter' = [e \in Docs |-> FALSE]
       /\ UNCHANGED <<ydoc, unfolded>>

\* Fault: the seed does not look at what has come from the room.
SeedAnyhow(d) ==
    /\ tab[d].stage = "sync"
    /\ IF tab[d].initial # NoBody THEN Edited(d, Adopted(tab[d].initial)) ELSE UNCHANGED live
    /\ tab' = [tab EXCEPT ![d].stage = "seeded"]
    /\ UNCHANGED <<stored, snapshots, stash, histories, writes>>

\* After 400 ms a document without Yjs state is seeded with the page's body.
SeedEditor(d) ==
    /\ tab[d].stage = "sync"
    /\ IF ydoc[d] = NoBody /\ tab[d].initial # NoBody
       THEN Edited(d, Adopted(tab[d].initial)) ELSE UNCHANGED live
    /\ tab' = [tab EXCEPT ![d].stage = "seeded"]
    /\ UNCHANGED <<stored, snapshots, stash, histories, writes>>

\* After 600 ms a restored body is put in its place; {} is not, and is gone.
ApplyStash(d) ==
    /\ tab[d].stage = "seeded"
    /\ IF stash[d] # NoBody THEN Edited(d, Adopted(stash[d])) ELSE UNCHANGED live
    /\ stash' = [stash EXCEPT ![d] = NoBody]
    /\ past' = IF stash[d] # NoBody THEN past \ {d} ELSE past
    /\ tab' = [tab EXCEPT ![d].stage = "ready"]
    /\ UNCHANGED <<stored, snapshots, rejected, writes>>

Type(d) ==
    /\ tab[d].stage # "closed"
    /\ Write
    /\ \E b \in Body : b.ids /\ b # ydoc[d] /\ Edited(d, b)
    /\ UNCHANGED <<stored, tab, snapshots, stash, histories>>

\* compact; there is nothing to update once the document is deleted.
Folded(d) ==
    /\ counter' = [counter EXCEPT ![d] = FALSE]
    /\ \/ /\ d \in made
          /\ json' = [json EXCEPT ![d] = Projected(ydoc[d])]
          /\ rows' = [rows EXCEPT ![d] = Projected(ydoc[d])]
          /\ unfolded' = [unfolded EXCEPT ![d] = FALSE]
          /\ past' = past \ {d}
       \/ d \notin made /\ UNCHANGED <<json, rows, unfolded, past>>
    /\ UNCHANGED made

Fold(d) ==
    /\ counter[d]
    /\ Folded(d)
    /\ UNCHANGED <<ydoc, tab, snapshots, stash, rejected, writes>>

\* The last editor leaves, and the room makes its final fold.
CloseTab(d) ==
    /\ tab[d].stage # "closed"
    /\ IF counter[d] THEN Folded(d) ELSE UNCHANGED <<stored, unfolded, counter, past>>
    /\ tab' = [tab EXCEPT ![d] = Closed]
    /\ UNCHANGED <<ydoc, snapshots, stash, rejected, writes>>

\* The process dies: the log is kept, a room that replays it counts from zero.
CrashRoom(d) ==
    /\ counter[d]
    /\ counter' = [counter EXCEPT ![d] = FALSE]
    /\ UNCHANGED <<stored, ydoc, unfolded, tab, snapshots, stash, histories, writes>>

\* The tab that made a restore is closed before it returns to the document.
LoseStash(d) ==
    /\ stash[d] # NoBody
    /\ stash' = [stash EXCEPT ![d] = NoBody]
    /\ UNCHANGED <<stored, live, tab, snapshots, histories, writes>>

BodyNext ==
    \/ \E D \in SUBSET Docs : ApplyTemplate(D)
    \/ \E d \in Docs :
          \/ CreateDocument(d) \/ DeleteDocument(d)
          \/ SaveDocumentContent(d) \/ DuplicateFromTemplate(d)
          \/ CreateVersion(d) \/ RestoreVersion(d)
          \/ OpenTab(d) \/ SeedEditor(d) \/ ApplyStash(d) \/ Type(d) \/ CloseTab(d)
          \/ Fold(d) \/ CrashRoom(d) \/ LoseStash(d)

BodySpec == BodyInit /\ [][BodyNext]_bodyVars

-----------------------------------------------------------------------------
(***************************************************************************)
(* Properties.                                                             *)
(***************************************************************************)

\* The editor's body, what pages read and what search reads are one once the log is
\* folded, through crashes, restores, templates and generated bodies; only a body
\* written past the Yjs state stands apart, until the next fold (persistence.ts:
\* 116-144).
CopiesAgree ==
    \A d \in Docs : ydoc[d] # NoBody /\ ~unfolded[d] /\ d \notin past =>
        json[d] = Projected(ydoc[d]) /\ rows[d] = json[d]

\* What is in the editor is replaced by typing and by a restored body, never by the
\* seed (ForgeEditor.tsx:141-143: never on top of arriving remote state).
SeedNeverOverwrites ==
    [][\A d \in made' : ydoc[d] # NoBody /\ ydoc'[d] # ydoc[d] =>
          writes' # writes \/ stash[d] # NoBody]_bodyVars

\* Of all documents at most one has blocks that are numbered and not identified, so
\* that a document someone has edited never stands in the way of another's body
\* (schema.prisma:430-431, block-content.ts:92-98).
EditedNeverInTheWay ==
    \A d \in Docs : rows[d] # NoBody /\ ~rows[d].ids =>
        ydoc[d] = NoBody \/ unfolded[d] \/ d \in past

\* The three copies of a body through every way it is written.
BodiesHoldTogether ==
    /\ [](BodyTypeOK /\ CopiesAgree /\ EditedNeverInTheWay)
    /\ SeedNeverOverwrites
=============================================================================
