---------------------------- MODULE AssistantChat ----------------------------
(***************************************************************************)
(* The assistant's side panel (apps/web/src/features/ai/chat-panel.tsx),   *)
(* the route it talks to and the model's tools (packages/ai/src/flows/     *)
(* chat.ts).  The model reads documents through tools, and proposes edits  *)
(* and actions; each proposal is a card that the user accepts or           *)
(* dismisses, and only then a server action runs.                          *)
(*                                                                         *)
(* What is abstracted.  Texts and prompts, and which documents the tools   *)
(* return.  The conversation is kept while the panel is closed, but its    *)
(* cards are unmounted and lose what they know.                            *)
(***************************************************************************)
EXTENDS Naturals

CONSTANTS
    Cards,          \* the proposals the model makes
    MaxSteps,       \* stepCountIs: steps of the model before it has to stop
    MaxTurns,       \* bound: messages sent
    MaxMoves        \* bound: navigations, openings and closings of the panel

ASSUME ChatAssumption == MaxSteps \in Nat \ {0} /\ MaxTurns \in Nat /\ MaxMoves \in Nat

VARIABLES
    panel,          \* is it open; is there a project or document to act on (scope)?
    turn,           \* the request under way
    part,           \* per card: the tool part in the conversation
    card,           \* per card: what its component knows
    running,        \* per card: server actions under way
    carried,        \* per card: how often its action was carried out
    moves,
    reopened        \* history: cards that were mounted anew while their action ran

chatVars == <<panel, turn, part, card, running, carried, moves, reopened>>

-----------------------------------------------------------------------------
ChatTypeOK ==
    /\ panel \in [open : BOOLEAN, scope : BOOLEAN]
    /\ turn \in [at : {"ready", "submitted", "streaming", "error"},
                 steps : 0..MaxSteps, sent : 0..MaxTurns]
    /\ part \in [Cards -> {"none", "proposed", "answered"}]
    /\ card \in [Cards -> [done : {"open", "done", "dismissed", "error"}, busy : BOOLEAN]]
    /\ running \in [Cards -> Nat] /\ carried \in [Cards -> Nat]
    /\ \A c \in Cards : part[c] = "none" => running[c] + carried[c] = 0
    /\ moves \in 0..MaxMoves /\ reopened \subseteq Cards

ChatInit ==
    /\ panel = [open |-> TRUE, scope |-> FALSE]
    /\ turn = [at |-> "ready", steps |-> 0, sent |-> 0]
    /\ part = [c \in Cards |-> "none"]
    /\ card = [c \in Cards |-> [done |-> "open", busy |-> FALSE]]
    /\ running = [c \in Cards |-> 0] /\ carried = [c \in Cards |-> 0]
    /\ moves = 0 /\ reopened = {}

cardVars == <<part, card, running, carried, reopened>>

-----------------------------------------------------------------------------
\* onSubmit: a message may be sent while an earlier one waits, but not while it streams.
SendMessage ==
    /\ panel.open /\ turn.at # "streaming" /\ turn.sent < MaxTurns
    /\ turn' = [at |-> "submitted", steps |-> 0, sent |-> turn.sent + 1]
    /\ UNCHANGED <<panel, cardVars, moves>>

\* The route answers: refused, over the limit or without a key, or with a stream.
ChatRoute ==
    /\ turn.at = "submitted"
    /\ \E at \in {"streaming", "error"} : turn' = [turn EXCEPT !.at = at]
    /\ UNCHANGED <<panel, cardVars, moves>>

\* A step of the model ends in a call of searchSpecs, getDocument, getDependencies or
\* getOnboardingState, which the server executes; after MaxSteps the model stops.
ModelStep ==
    /\ turn.at = "streaming" /\ turn.steps < MaxSteps
    /\ turn' = [turn EXCEPT !.steps = @ + 1]
    /\ UNCHANGED <<panel, cardVars, moves>>

\* proposeEdit, proposeAction: tools without an execute, which the panel shows as a card.
Propose(c) ==
    /\ turn.at = "streaming" /\ turn.steps < MaxSteps /\ part[c] = "none"
    /\ part' = [part EXCEPT ![c] = "proposed"]
    /\ turn' = [turn EXCEPT !.steps = @ + 1]
    /\ UNCHANGED <<panel, card, running, carried, moves, reopened>>

EndTurn ==
    /\ turn.at = "streaming"
    /\ \E at \in {"ready", "error"} : turn' = [turn EXCEPT !.at = at]
    /\ UNCHANGED <<panel, cardVars, moves>>

-----------------------------------------------------------------------------
Shown(c) == panel.open /\ part[c] # "none" /\ card[c].done = "open"

\* confirm, execute: the server action is called, with the scope that is open by now.
\* The buttons are disabled until it answers.
Accept(c) ==
    /\ Shown(c) /\ ~card[c].busy /\ panel.scope
    /\ card' = [card EXCEPT ![c].busy = TRUE]
    /\ running' = [running EXCEPT ![c] = @ + 1]
    /\ UNCHANGED <<panel, turn, part, carried, moves, reopened>>

\* An edit without a document or a scope is refused as it is confirmed.
RefuseEdit(c) ==
    /\ Shown(c) /\ ~card[c].busy /\ ~panel.scope
    /\ card' = [card EXCEPT ![c].done = "error"]
    /\ part' = [part EXCEPT ![c] = "answered"]
    /\ UNCHANGED <<panel, turn, running, carried, moves, reopened>>

\* proposeEditSuggestion, runAction: what is carried out, or the error, becomes the
\* output of the part; the card shows it, if it is still there.
ActionAnswers(c, ok) ==
    /\ running[c] > 0
    /\ running' = [running EXCEPT ![c] = @ - 1]
    /\ carried' = IF ok THEN [carried EXCEPT ![c] = @ + 1] ELSE carried
    /\ part' = [part EXCEPT ![c] = "answered"]
    /\ card' = IF panel.open /\ c \notin reopened
               THEN [card EXCEPT ![c] = [done |-> IF ok THEN "done" ELSE "error", busy |-> FALSE]]
               ELSE card
    /\ UNCHANGED <<panel, turn, moves, reopened>>

\* Fault: a dismissal is not told to the conversation.
DismissQuietly(c) ==
    /\ Shown(c) /\ ~card[c].busy
    /\ card' = [card EXCEPT ![c].done = "dismissed"]
    /\ UNCHANGED <<panel, turn, part, running, carried, moves, reopened>>

Dismiss(c) ==
    /\ Shown(c) /\ ~card[c].busy
    /\ card' = [card EXCEPT ![c].done = "dismissed"]
    /\ part' = [part EXCEPT ![c] = "answered"]
    /\ UNCHANGED <<panel, turn, running, carried, moves, reopened>>

\* The panel is closed, and opened again: cards mount anew and know only whether their
\* part has an output.
TogglePanel ==
    /\ moves < MaxMoves /\ moves' = moves + 1
    /\ panel' = [panel EXCEPT !.open = ~@]
    /\ IF panel.open THEN UNCHANGED <<card, reopened>>
       ELSE /\ card' = [c \in Cards |->
                  [done |-> IF part[c] = "answered" THEN "done" ELSE "open", busy |-> FALSE]]
            /\ reopened' = reopened \cup {c \in Cards : running[c] > 0}
    /\ UNCHANGED <<turn, part, running, carried>>

\* AiContextSync, the editor: the user moves to where there is a scope, or none.
Navigate ==
    /\ moves < MaxMoves /\ moves' = moves + 1
    /\ panel' = [panel EXCEPT !.scope = ~@]
    /\ UNCHANGED <<turn, cardVars>>

ChatNext ==
    \/ SendMessage \/ ChatRoute \/ ModelStep \/ EndTurn \/ TogglePanel \/ Navigate
    \/ \E c \in Cards :
          \/ Propose(c) \/ Accept(c) \/ RefuseEdit(c) \/ Dismiss(c)
          \/ \E ok \in BOOLEAN : ActionAnswers(c, ok)

ChatSpec == ChatInit /\ [][ChatNext]_chatVars

-----------------------------------------------------------------------------
(***************************************************************************)
(* Properties.                                                             *)
(***************************************************************************)

\* A proposal is carried out once at most, however often the panel is closed and opened,
\* unless its card was mounted anew while the action ran (chat-panel.tsx:349, 493).
CarriedOutOnce ==
    \A c \in Cards : c \notin reopened => running[c] + carried[c] <= 1

\* What the user has turned down is never carried out afterwards: the answer in the
\* conversation outlives the card that knew of it (chat-panel.tsx:346-349, 489-492).
DismissedStaysSo ==
    [][\A c \in Cards : card[c].done = "dismissed" =>
            card'[c].done # "open" /\ running'[c] <= running[c]]_chatVars

\* Proposals of the assistant and what became of them.
ProposalsRunOnce ==
    /\ [](ChatTypeOK /\ CarriedOutOnce)
    /\ DismissedStaysSo
=============================================================================
