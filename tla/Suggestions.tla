---------------------------- MODULE Suggestions ----------------------------
(***************************************************************************)
(* Suggested edits of a document: proposed against the body in the         *)
(* author's editor, resolved by a reviewer against the body in his         *)
(* (apps/web/src/features/collaboration/suggestions-panel.tsx,             *)
(* apps/web/src/lib/actions/suggestions.ts,                                *)
(* packages/core/src/documents/suggestion-patch.ts).                       *)
(*                                                                         *)
(* What is abstracted.  Editors show one body (CollabSync has them         *)
(* converge).  A block is its identifier and the first run of its text,    *)
(* which is what a proposal replaces; the patch is positional: it names    *)
(* the index of the block, not its identifier.                             *)
(***************************************************************************)
EXTENDS Naturals, Sequences, SequencesExt

CONSTANTS
    Proposals,      \* suggestions there may be
    Reviewers,      \* whose role lets them resolve
    MaxBlocks,      \* bound: blocks there may be, and their identifiers
    Words,          \* what a block may say
    Draft,          \* what all say at first
    MaxEdits        \* bound: edits of the body

ASSUME SuggestionsAssumption ==
    MaxBlocks \in Nat \ {0} /\ MaxEdits \in Nat /\ Draft \in Words

VARIABLES
    page,       \* the document in the editors
    proposal,   \* the Suggestion rows
    verdict,    \* per reviewer: his call of resolveSuggestion
    decisions,  \* history: per suggestion, the decisions written, in order
    edits       \* edits so far

suggestionVars == <<page, proposal, verdict, decisions, edits>>

-----------------------------------------------------------------------------
BlockIds == 1..MaxBlocks
Block == [id : BlockIds, text : Words]
Verdicts == {"ACCEPTED", "REJECTED"}
NoProposal == [status |-> "none", at |-> 0, block |-> "none", text |-> "none"]
NoVerdict == [stage |-> "idle", of |-> "none", decision |-> "none", live |-> <<>>,
              applied |-> <<>>, known |-> 0]

Suggestion == [status : {"PENDING"} \cup Verdicts, at : Nat \ {0}, block : BlockIds,
               text : Words]
Verdict == [stage : {"sent", "checked", "answered"}, of : Proposals, decision : Verdicts,
            live : Seq(Block), applied : Seq(Block), known : Nat]

\* The status of a suggestion is the last decision, if there is one.
SuggestionsTypeOK ==
    /\ page \in Seq(Block) /\ IsInjective([i \in DOMAIN page |-> page[i].id])
    /\ proposal \in [Proposals -> Suggestion \cup {NoProposal}]
    /\ decisions \in [Proposals -> Seq(Verdicts)]
    /\ \A p \in Proposals :
          IF decisions[p] = <<>> THEN proposal[p].status \in {"none", "PENDING"}
          ELSE proposal[p].status = Last(decisions[p])
    /\ verdict \in [Reviewers -> Verdict \cup {NoVerdict}]
    /\ edits \in Nat

SuggestionsInit ==
    /\ page = [i \in 1..(MaxBlocks - 1) |-> [id |-> i, text |-> Draft]]
    /\ proposal = [p \in Proposals |-> NoProposal]
    /\ verdict = [r \in Reviewers |-> NoVerdict]
    /\ decisions = [p \in Proposals |-> <<>>]
    /\ edits = 0

-----------------------------------------------------------------------------
Replaced(doc, i, w) == [doc EXCEPT ![i].text = w]

\* applySuggestion: whatever block is at that index by now; with none there it throws.
Applies(doc, s) == s.at \in DOMAIN doc

Applied(doc, s) == Replaced(doc, s.at, s.text)

\* Someone types, inserts a block on top, or removes one.
Edit ==
    /\ edits < MaxEdits /\ edits' = edits + 1
    /\ \/ \E i \in DOMAIN page : \E w \in Words \ {page[i].text} : page' = Replaced(page, i, w)
       \/ \E b \in Block :
             /\ \A i \in DOMAIN page : page[i].id # b.id
             /\ page' = <<b>> \o page
       \/ \E i \in DOMAIN page : page' = RemoveAt(page, i)
    /\ UNCHANGED <<proposal, verdict, decisions>>

\* The composer replaces the text of the selected block; no change is no suggestion.
CreateSuggestion(p) ==
    /\ proposal[p] = NoProposal
    /\ \E i \in DOMAIN page : \E w \in Words \ {page[i].text} :
          proposal' = [proposal EXCEPT ![p] =
              [status |-> "PENDING", at |-> i, block |-> page[i].id, text |-> w]]
    /\ UNCHANGED <<page, verdict, decisions, edits>>

\* The buttons are there while the list shows the suggestion as pending, which may
\* be some time after it was decided; one call at a time.
AskToResolve(r, p, d) ==
    /\ verdict[r] = NoVerdict
    /\ proposal[p] # NoProposal
    /\ verdict' = [verdict EXCEPT ![r] = [stage |-> "sent", of |-> p, decision |-> d,
                      live |-> page, applied |-> <<>>, known |-> Len(decisions[p])]]
    /\ UNCHANGED <<page, proposal, decisions, edits>>

\* Fault: the status is not looked at.
CheckPatchOnly(r) ==
    /\ verdict[r].stage = "sent"
    /\ LET v == verdict[r]
           s == proposal[v.of]
       IN IF v.decision = "REJECTED" \/ Applies(v.live, s)
          THEN verdict' = [verdict EXCEPT ![r].stage = "checked",
                  ![r].applied = IF v.decision = "ACCEPTED" THEN Applied(v.live, s) ELSE <<>>]
          ELSE verdict' = [verdict EXCEPT ![r] = NoVerdict]
    /\ UNCHANGED <<page, proposal, decisions, edits>>

\* resolveSuggestion reads the status, and tries the patch on the body it was sent.
CheckSuggestion(r) ==
    /\ verdict[r].stage = "sent"
    /\ LET v == verdict[r]
           s == proposal[v.of]
       IN IF s.status = "PENDING" /\ (v.decision = "ACCEPTED" => Applies(v.live, s))
          THEN verdict' = [verdict EXCEPT ![r].stage = "checked",
                  ![r].applied = IF v.decision = "ACCEPTED" THEN Applied(v.live, s) ELSE <<>>]
          ELSE verdict' = [verdict EXCEPT ![r] = NoVerdict]
    /\ UNCHANGED <<page, proposal, decisions, edits>>

\* The transaction writes the status by the suggestion's id, and tells its author.
CommitDecision(r) ==
    /\ verdict[r].stage = "checked"
    /\ LET v == verdict[r] IN
       /\ proposal' = [proposal EXCEPT ![v.of].status = v.decision]
       /\ decisions' = [decisions EXCEPT ![v.of] = Append(@, v.decision)]
    /\ verdict' = [verdict EXCEPT ![r].stage = "answered"]
    /\ UNCHANGED <<page, edits>>

\* The reviewer's editor replaces all its blocks by those of the answer.
ApplyAnswer(r) ==
    /\ verdict[r].stage = "answered"
    /\ page' = IF verdict[r].decision = "ACCEPTED" THEN verdict[r].applied ELSE page
    /\ verdict' = [verdict EXCEPT ![r] = NoVerdict]
    /\ UNCHANGED <<proposal, decisions, edits>>

\* The tab is closed, or the connection lost: the call goes on, its answer is lost.
LoseAnswer(r) ==
    /\ verdict[r].stage = "answered"
    /\ verdict' = [verdict EXCEPT ![r] = NoVerdict]
    /\ UNCHANGED <<page, proposal, decisions, edits>>

SuggestionsNext ==
    \/ Edit
    \/ \E p \in Proposals : CreateSuggestion(p)
    \/ \E r \in Reviewers :
          \/ \E p \in Proposals, d \in Verdicts : AskToResolve(r, p, d)
          \/ CheckSuggestion(r) \/ CommitDecision(r) \/ ApplyAnswer(r) \/ LoseAnswer(r)

SuggestionsSpec == SuggestionsInit /\ [][SuggestionsNext]_suggestionVars

-----------------------------------------------------------------------------
(***************************************************************************)
(* Properties.                                                             *)
(***************************************************************************)

\* A decision is final for whoever asks after it: only a call that had begun before
\* another was decided writes over it (suggestions.ts:128-130).
DecisionIsFinal ==
    [][\A p \in Proposals : decisions[p] # <<>> /\ decisions'[p] # decisions[p] =>
          \E r \in Reviewers : verdict[r].of = p /\ verdict[r].known = 0]_suggestionVars

\* The body changes by editing and by suggestions that were accepted: a rejected one
\* is applied only where two reviewers crossed.
RejectedIsNotApplied ==
    [][page' # page /\ edits' = edits =>
          \E p \in Proposals :
             proposal[p].status = "ACCEPTED" \/ Len(decisions[p]) > 1]_suggestionVars

\* An accepted suggestion changes the text of its block and nothing else, if the
\* document is the one the reviewer saw and the block still stands where it stood
\* (suggestions-panel.tsx:53-61).
AcceptTouchesItsBlock ==
    [][\A r \in Reviewers :
          LET s == proposal[verdict[r].of] IN
          /\ verdict[r].stage = "answered" /\ page' # page /\ edits' = edits
          /\ verdict[r].live = page /\ verdict'[r] = NoVerdict
          /\ s.at \in DOMAIN page /\ page[s.at].id = s.block
          => page' = [i \in DOMAIN page |->
                IF page[i].id = s.block THEN [page[i] EXCEPT !.text = s.text] ELSE page[i]]
       ]_suggestionVars

\* Suggestions through reviewers who cross and a body that is edited meanwhile.
DecisionsStand ==
    /\ []SuggestionsTypeOK
    /\ DecisionIsFinal
    /\ RejectedIsNotApplied
    /\ AcceptTouchesItsBlock
=============================================================================
