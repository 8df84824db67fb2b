------------------------------ MODULE Drafting ------------------------------
(***************************************************************************)
(* Documents the model drafts.  An RFC from a prompt: the dialog           *)
(* (apps/web/src/features/generate/generate-rfc-dialog.tsx) reads a stream *)
(* while the route (app/api/ai/generate-rfc/route.ts) saves what was       *)
(* generated into a document it made empty.  Tasks, epics and the like     *)
(* from a document: the agent-mode menu (features/generate/agent-mode-     *)
(* menu.tsx) waits for a route (app/api/ai/agent-mode/route.ts) that       *)
(* generates first and makes the document then.                            *)
(*                                                                         *)
(* What is abstracted.  Texts; a document is known by the request that     *)
(* made it.  The dialog is closed and opened again at will, and what it    *)
(* has sent goes on.                                                       *)
(***************************************************************************)
EXTENDS Naturals, FiniteSets

CONSTANTS
    Drafts,         \* requests
    MaxOpens        \* bound: times the dialog is opened

ASSUME DraftAssumption == MaxOpens \in Nat /\ "elsewhere" \notin Drafts

VARIABLES
    dialog,         \* the RFC dialog
    menu,           \* the agent-mode menu: is it busy?
    draft,          \* the client's end of each request, and the opening it came from
    server,         \* the server's end
    draftDoc,       \* the document of each request
    page,           \* the request whose document the user was taken to last
    opens,
    overlap         \* history: was a request sent while one of an earlier opening went on?

draftVars == <<dialog, menu, draft, server, draftDoc, page, opens, overlap>>

-----------------------------------------------------------------------------
DraftTypeOK ==
    /\ dialog \in [open : BOOLEAN, busy : BOOLEAN, error : BOOLEAN]
    /\ menu \in [busy : BOOLEAN, error : BOOLEAN]
    /\ draft \in [Drafts -> [at : {"none", "asked", "reading", "ended"},
                             by : {"none", "rfc", "agent"}, opening : 0..MaxOpens]]
    /\ server \in [Drafts -> {"none", "generating", "generated", "creating", "created",
                              "saved", "ended", "failed"}]
    /\ draftDoc \in [Drafts -> {"none", "empty", "body", "titled"}]
    /\ (menu.busy <=> \E r \in Drafts : draft[r].at = "asked" /\ draft[r].by = "agent")
    /\ page \in Drafts \cup {"elsewhere"} /\ opens \in 0..MaxOpens /\ overlap \in BOOLEAN

DraftInit ==
    /\ dialog = [open |-> FALSE, busy |-> FALSE, error |-> FALSE]
    /\ menu = [busy |-> FALSE, error |-> FALSE]
    /\ draft = [r \in Drafts |-> [at |-> "none", by |-> "none", opening |-> 0]]
    /\ server = [r \in Drafts |-> "none"] /\ draftDoc = [r \in Drafts |-> "none"]
    /\ page = "elsewhere" /\ opens = 0 /\ overlap = FALSE

UnderWay(r) == draft[r].at \in {"asked", "reading"}
Becomes(r, at) == draft' = [draft EXCEPT ![r].at = at]
Serves(r, at) == server' = [server EXCEPT ![r] = at]

-----------------------------------------------------------------------------
OpenDialog ==
    /\ ~dialog.open /\ opens < MaxOpens /\ opens' = opens + 1
    /\ dialog' = [dialog EXCEPT !.open = TRUE]
    /\ UNCHANGED <<menu, draft, server, draftDoc, page, overlap>>

\* Cancel is disabled while busy, but Escape and the cross are not; what is closed is
\* cleared.
CloseDialog ==
    /\ dialog.open
    /\ dialog' = [open |-> FALSE, busy |-> FALSE, error |-> FALSE]
    /\ UNCHANGED <<menu, draft, server, draftDoc, page, opens, overlap>>

Generate(r) ==
    /\ dialog.open /\ ~dialog.busy /\ draft[r].at = "none"
    /\ draft' = [draft EXCEPT ![r] = [at |-> "asked", by |-> "rfc", opening |-> opens]]
    /\ dialog' = [dialog EXCEPT !.busy = TRUE, !.error = FALSE]
    /\ overlap' = (overlap \/ \E q \in Drafts : UnderWay(q) /\ draft[q].by = "rfc")
    /\ UNCHANGED <<menu, server, draftDoc, page, opens>>

\* Not signed in, over the limit, no key, no prompt, forbidden: an answer in JSON.  That
\* createDocument failed is not told: the dialog takes the error page for a stream.
RfcRefused(r) ==
    /\ draft[r].at = "asked" /\ draft[r].by = "rfc" /\ server[r] = "none"
    /\ Becomes(r, "ended")
    /\ \E told \in BOOLEAN :
          dialog' = [dialog EXCEPT !.error = dialog.open /\ (@ \/ told), !.busy = FALSE]
    /\ UNCHANGED <<menu, server, draftDoc, page, opens, overlap>>

\* The document is made before the model is asked.
PostRfc(r) ==
    /\ draft[r].at = "asked" /\ draft[r].by = "rfc" /\ server[r] = "none"
    /\ draftDoc' = [draftDoc EXCEPT ![r] = "empty"]
    /\ Serves(r, "generating") /\ Becomes(r, "reading")
    /\ UNCHANGED <<dialog, menu, page, opens, overlap>>

\* The model's object is whole, or it is not what the schema asks for, or the model fails.
RfcGenerated(r) ==
    /\ server[r] = "generating" /\ draft[r].by = "rfc"
    /\ \E at \in {"generated", "failed"} : Serves(r, at)
    /\ UNCHANGED <<dialog, menu, draft, draftDoc, page, opens, overlap>>

\* saveDocumentContent with the RFC's blocks; the title follows.  Whatever fails is logged.
SaveRfc(r) ==
    /\ server[r] = "generated" /\ draft[r].by = "rfc"
    /\ \/ Serves(r, "saved") /\ draftDoc' = [draftDoc EXCEPT ![r] = "body"]
       \/ Serves(r, "failed") /\ UNCHANGED draftDoc
    /\ UNCHANGED <<dialog, menu, draft, page, opens, overlap>>

\* Fault: the title is set whatever became of the body.
TitleUnsaved(r) ==
    /\ server[r] \in {"saved", "failed"} /\ draft[r].by = "rfc"
    /\ Serves(r, "ended") /\ draftDoc' = [draftDoc EXCEPT ![r] = "titled"]
    /\ UNCHANGED <<dialog, menu, draft, page, opens, overlap>>

TitleRfc(r) ==
    /\ server[r] = "saved" /\ draft[r].by = "rfc"
    /\ \/ Serves(r, "ended") /\ draftDoc' = [draftDoc EXCEPT ![r] = "titled"]
       \/ Serves(r, "failed") /\ UNCHANGED draftDoc
    /\ UNCHANGED <<dialog, menu, draft, page, opens, overlap>>

\* The stream ends, in failure too, before or after the server has saved: the dialog that
\* is open by now is closed, and the user taken to the document.
ReadEnds(r) ==
    /\ draft[r].at = "reading" /\ draft[r].by = "rfc" /\ server[r] # "generating"
    /\ Becomes(r, "ended")
    /\ dialog' = [open |-> FALSE, busy |-> FALSE, error |-> FALSE]
    /\ page' = r
    /\ UNCHANGED <<menu, server, draftDoc, opens, overlap>>

ReadBreaks(r) ==
    /\ draft[r].at = "reading" /\ draft[r].by = "rfc"
    /\ Becomes(r, "ended")
    /\ dialog' = [dialog EXCEPT !.error = dialog.open, !.busy = FALSE]
    /\ UNCHANGED <<menu, server, draftDoc, page, opens, overlap>>

-----------------------------------------------------------------------------
RunAgent(r) ==
    /\ ~menu.busy /\ draft[r].at = "none"
    /\ draft' = [draft EXCEPT ![r] = [at |-> "asked", by |-> "agent", opening |-> 0]]
    /\ menu' = [busy |-> TRUE, error |-> FALSE]
    /\ UNCHANGED <<dialog, server, draftDoc, page, opens, overlap>>

\* The mode and its source are there, and the model is asked.
PostAgent(r) ==
    /\ draft[r].at = "asked" /\ draft[r].by = "agent" /\ server[r] = "none"
    /\ Serves(r, "generating")
    /\ UNCHANGED <<dialog, menu, draft, draftDoc, page, opens, overlap>>

AgentGenerated(r) ==
    /\ server[r] = "generating" /\ draft[r].by = "agent"
    /\ Serves(r, "creating")
    /\ UNCHANGED <<dialog, menu, draft, draftDoc, page, opens, overlap>>

\* createDocument, then saveDocumentContent.
CreateAgentDoc(r) ==
    /\ server[r] = "creating"
    /\ Serves(r, "created") /\ draftDoc' = [draftDoc EXCEPT ![r] = "empty"]
    /\ UNCHANGED <<dialog, menu, draft, page, opens, overlap>>

SaveAgentDoc(r) ==
    /\ server[r] = "created"
    /\ Serves(r, "ended") /\ draftDoc' = [draftDoc EXCEPT ![r] = "body"]
    /\ UNCHANGED <<dialog, menu, draft, page, opens, overlap>>

\* Any of these steps fails, or the request is refused: an answer with an error.
AgentFails(r) ==
    /\ draft[r].at = "asked" /\ draft[r].by = "agent"
    /\ server[r] \in {"none", "generating", "creating", "created"}
    /\ Serves(r, "failed") /\ Becomes(r, "ended")
    /\ menu' = [busy |-> FALSE, error |-> TRUE]
    /\ UNCHANGED <<dialog, draftDoc, page, opens, overlap>>

\* The answer is lost; the server goes on.
AgentLost(r) ==
    /\ draft[r].at = "asked" /\ draft[r].by = "agent"
    /\ Becomes(r, "ended")
    /\ menu' = [busy |-> FALSE, error |-> TRUE]
    /\ UNCHANGED <<dialog, server, draftDoc, page, opens, overlap>>

AgentAnswered(r) ==
    /\ draft[r].at = "asked" /\ draft[r].by = "agent" /\ server[r] = "ended"
    /\ Becomes(r, "ended")
    /\ menu' = [menu EXCEPT !.busy = FALSE] /\ page' = r
    /\ UNCHANGED <<dialog, server, draftDoc, opens, overlap>>

DraftNext ==
    \/ OpenDialog \/ CloseDialog
    \/ \E r \in Drafts :
          \/ Generate(r) \/ RfcRefused(r) \/ PostRfc(r) \/ RfcGenerated(r) \/ SaveRfc(r)
          \/ TitleRfc(r) \/ ReadEnds(r) \/ ReadBreaks(r)
          \/ RunAgent(r) \/ PostAgent(r) \/ AgentGenerated(r) \/ CreateAgentDoc(r)
          \/ SaveAgentDoc(r) \/ AgentFails(r) \/ AgentLost(r) \/ AgentAnswered(r)

DraftSpec == DraftInit /\ [][DraftNext]_draftVars

-----------------------------------------------------------------------------
(***************************************************************************)
(* Properties.                                                             *)
(***************************************************************************)

\* An open dialog is busy exactly while its own request goes on, as long as no request was
\* sent while an earlier one went on (generate-rfc-dialog.tsx:39-47, 99).
BusyWithItsOwn ==
    (dialog.open /\ ~overlap) =>
        (dialog.busy <=> \E r \in Drafts : UnderWay(r) /\ draft[r].by = "rfc"
                                           /\ draft[r].opening = opens)

\* A document with the title of what was generated has its body too (generate-rfc/
\* route.ts:113-127).
TitledHasBody ==
    [][\A r \in Drafts : draftDoc'[r] = "titled" => draftDoc[r] \in {"body", "titled"}]_draftVars

\* A document of the agent mode is left without a body only by a step that failed: the
\* user is taken to a whole one (agent-mode/route.ts:89-126).
AgentDocIsWhole ==
    \A r \in Drafts : draft[r].by = "agent" =>
        /\ page = r => draftDoc[r] = "body"
        /\ draftDoc[r] = "empty" => server[r] \in {"created", "failed"}

\* Documents a model drafts, and the dialogs they are asked for in.
DraftsAreWhole ==
    /\ [](DraftTypeOK /\ BusyWithItsOwn /\ AgentDocIsWhole)
    /\ TitledHasBody
=============================================================================
