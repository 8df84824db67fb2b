--------------------------- MODULE SelectionRefine ---------------------------
(***************************************************************************)
(* Refining a selected passage: the editor's toolbar (apps/web/src/        *)
(* features/ai/selection-toolbar.tsx), the route that streams the revised  *)
(* text (app/api/ai/refine/route.ts) and the suggestion it is made into    *)
(* (lib/actions/ai.ts).                                                    *)
(*                                                                         *)
(* What is abstracted.  A text is known by the run that wrote it and the   *)
(* passage it was written for, and by whether its stream came to its end;  *)
(* refine and expand differ only in what the model is told.                *)
(***************************************************************************)
EXTENDS Naturals, FiniteSets

CONSTANTS
    Passages,       \* blocks that are selected from
    MaxRefines,     \* bound: texts asked for
    MaxSelects,     \* bound: changes of the selection
    MaxSuggested,   \* bound: suggestions that are made
    NoPassage

ASSUME RefineAssumption == MaxRefines \in Nat /\ MaxSelects \in Nat /\ MaxSuggested \in Nat
                           /\ NoPassage \notin Passages

VARIABLES
    selected,       \* selText and selBlockId, as of the last tick
    toolbar,        \* open, streaming, saving, saved, error
    asking,         \* the passage that is being revised, and the run's number
    preview,        \* result: whose text it is, and how much of it
    creating,       \* calls of proposeEditSuggestion under way
    suggested,      \* rows: what was suggested, per call
    unheard,        \* history: runs of which an answer to a suggestion was lost
    selects, moved, \* history: has the selection moved since the last run began?
    raced           \* history: did a run begin while a suggestion was being made?

refineVars ==
    <<selected, toolbar, asking, preview, creating, suggested, unheard, selects, moved,
      raced>>

-----------------------------------------------------------------------------
NoResult == [run |-> 0, of |-> NoPassage, whole |-> FALSE]
RefinedText == [run : 0..MaxRefines, of : Passages \cup {NoPassage}, whole : BOOLEAN]
Proposal == [call : Nat, text : RefinedText, block : Passages, warned : BOOLEAN,
             moved : BOOLEAN]

RefineTypeOK ==
    /\ selected \in Passages \cup {NoPassage} /\ selects \in 0..MaxSelects
    /\ toolbar \in [open : BOOLEAN, streaming : BOOLEAN, saving : BOOLEAN, saved : BOOLEAN,
                    error : BOOLEAN]
    /\ asking \in [run : 0..MaxRefines, of : Passages \cup {NoPassage}]
    /\ preview \in RefinedText /\ preview.run \in {0, asking.run}
    /\ Cardinality(creating) <= 1 /\ (toolbar.saving <=> creating # {})
    /\ creating \subseteq Proposal /\ suggested \subseteq Proposal
    /\ unheard \subseteq 1..MaxRefines /\ moved \in BOOLEAN /\ raced \in BOOLEAN

RefineInit ==
    /\ selected = NoPassage /\ selects = 0 /\ moved = FALSE /\ raced = FALSE
    /\ toolbar = [open |-> FALSE, streaming |-> FALSE, saving |-> FALSE, saved |-> FALSE,
                  error |-> FALSE]
    /\ asking = [run |-> 0, of |-> NoPassage] /\ preview = NoResult
    /\ creating = {} /\ suggested = {} /\ unheard = {}

suggestions == <<creating, suggested, unheard>>

-----------------------------------------------------------------------------
\* A tick finds the selection of the editor (getSelection of its bridge) in another block,
\* or none.
ReadSelection(b) ==
    /\ b # selected /\ selects < MaxSelects /\ selects' = selects + 1
    /\ selected' = b /\ moved' = TRUE
    /\ UNCHANGED <<toolbar, asking, preview, suggestions, raced>>

\* Fault: the result of the last run stays.
RunOver ==
    /\ selected # NoPassage /\ ~toolbar.streaming /\ asking.run < MaxRefines
    /\ asking' = [run |-> asking.run + 1, of |-> selected]
    /\ toolbar' = [toolbar EXCEPT !.open = TRUE, !.streaming = TRUE,
                                  !.saved = FALSE, !.error = FALSE]
    /\ moved' = FALSE /\ raced' = (raced \/ toolbar.saving)
    /\ UNCHANGED <<selected, preview, suggestions, selects>>

\* run: refine or expand the selection.
Run ==
    /\ selected # NoPassage /\ ~toolbar.streaming /\ asking.run < MaxRefines
    /\ asking' = [run |-> asking.run + 1, of |-> selected]
    /\ toolbar' = [toolbar EXCEPT !.open = TRUE, !.streaming = TRUE,
                                  !.saved = FALSE, !.error = FALSE]
    /\ preview' = NoResult
    /\ moved' = FALSE /\ raced' = (raced \/ toolbar.saving)
    /\ UNCHANGED <<selected, suggestions, selects>>

\* The route refuses, has no key, or fails; or the stream breaks off: the text so far stays.
RunFails ==
    /\ toolbar.streaming
    /\ toolbar' = [toolbar EXCEPT !.streaming = FALSE, !.error = TRUE]
    /\ UNCHANGED <<selected, asking, preview, suggestions, selects, moved, raced>>

\* runRefine: a piece of the text arrives, and later its end, closed panel or not.
RefineStreams ==
    /\ toolbar.streaming
    /\ preview' = [run |-> asking.run, of |-> asking.of, whole |-> FALSE]
    /\ UNCHANGED <<selected, toolbar, asking, suggestions, selects, moved, raced>>

RefineEnds ==
    /\ toolbar.streaming
    /\ preview' = [run |-> asking.run, of |-> asking.of, whole |-> TRUE]
    /\ toolbar' = [toolbar EXCEPT !.streaming = FALSE]
    /\ UNCHANGED <<selected, asking, suggestions, selects, moved, raced>>

\* createSuggestion: the text, for the block that is selected by now.
Suggest ==
    /\ toolbar.open /\ ~toolbar.saved /\ ~toolbar.streaming /\ ~toolbar.saving
    /\ preview # NoResult /\ selected # NoPassage /\ Cardinality(suggested) < MaxSuggested
    /\ toolbar' = [toolbar EXCEPT !.saving = TRUE, !.error = FALSE]
    /\ creating' = creating \cup {[call |-> Cardinality(suggested), text |-> preview,
                                   block |-> selected, warned |-> toolbar.error,
                                   moved |-> moved]}
    /\ UNCHANGED <<selected, asking, preview, suggested, unheard, selects, moved, raced>>

\* proposeEditSuggestion: the document with the block's text replaced becomes a suggestion.
ProposeEditSuggestion(p) ==
    /\ p \in creating
    /\ creating' = {} /\ suggested' = suggested \cup {p}
    /\ toolbar' = [toolbar EXCEPT !.saving = FALSE, !.saved = TRUE]
    /\ UNCHANGED <<selected, asking, preview, unheard, selects, moved, raced>>

\* It fails, or it is done and the answer is lost.
SuggestionFails(p, carried) ==
    /\ p \in creating
    /\ creating' = {} /\ suggested' = IF carried THEN suggested \cup {p} ELSE suggested
    /\ unheard' = IF carried THEN unheard \cup {p.text.run} ELSE unheard
    /\ toolbar' = [toolbar EXCEPT !.saving = FALSE, !.error = TRUE]
    /\ UNCHANGED <<selected, asking, preview, selects, moved, raced>>

Close ==
    /\ toolbar.open
    /\ toolbar' = [toolbar EXCEPT !.open = FALSE, !.error = FALSE, !.saved = FALSE]
    /\ preview' = NoResult
    /\ UNCHANGED <<selected, asking, suggestions, selects, moved, raced>>

RefineNext ==
    \/ Run \/ RunFails \/ RefineStreams \/ RefineEnds \/ Suggest \/ Close
    \/ \E b \in Passages \cup {NoPassage} : ReadSelection(b)
    \/ \E p \in creating : \/ ProposeEditSuggestion(p)
                           \/ \E carried \in BOOLEAN : SuggestionFails(p, carried)

RefineSpec == RefineInit /\ [][RefineNext]_refineVars

-----------------------------------------------------------------------------
(***************************************************************************)
(* Properties.                                                             *)
(***************************************************************************)

\* A text is suggested for the passage it was written for, as long as the selection has not
\* moved since it was asked for (selection-toolbar.tsx:112-122: the block is read when the
\* suggestion is made).
SuggestsItsPassage ==
    \A p \in creating \cup suggested : p.text.of = p.block \/ p.moved

\* A text is suggested once, unless an answer was lost (selection-toolbar.tsx:112, 194).
SuggestedOnce ==
    \A n \in (1..MaxRefines) \ unheard :
        Cardinality({p \in creating \cup suggested : p.text.run = n}) <= 1

\* A text that broke off is suggested only from under an error message.
HalfATextIsWarnedOf ==
    \A p \in creating \cup suggested : p.text.whole \/ p.warned

\* What the toolbar says is suggested is, unless a run began while another text was being
\* suggested (selection-toolbar.tsx:60-67, 124).
SavedIsSuggested ==
    (toolbar.saved /\ toolbar.open /\ ~raced) =>
        \E p \in suggested : p.text.run = asking.run

\* What the toolbar suggests for a selection.
RefinementsFit ==
    /\ RefineTypeOK
    /\ SuggestsItsPassage
    /\ SuggestedOnce
    /\ HalfATextIsWarnedOf
    /\ SavedIsSuggested
=============================================================================
