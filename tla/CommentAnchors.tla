--------------------------- MODULE CommentAnchors ---------------------------
(***************************************************************************)
(* Where a comment is attached: a range of the text of a block, kept as    *)
(* two positions of the shared document                                    *)
(* (packages/core/src/documents/comment-anchor.ts, used by                 *)
(* apps/web/src/features/collaboration/comments-panel.tsx).  The author    *)
(* of the comment anchors it in the document as it is, a reader resolves   *)
(* it in a copy that may know less.                                        *)
(*                                                                         *)
(* What is abstracted.  Of Yjs there is that the characters of a text have *)
(* one order in all copies and that a deleted one keeps its place; a       *)
(* character may be put anywhere between two that are seen.  There is one  *)
(* block, and the nesting of blocks is left out.                           *)
(***************************************************************************)
EXTENDS Naturals, Sequences, FiniteSets

CONSTANTS
    MaxChars,       \* bound: characters of the block, deleted ones included
    MaxRetypes      \* bound: times the text of the block is made anew

ASSUME AnchorAssumption == MaxChars \in Nat /\ MaxChars >= 2 /\ MaxRetypes \in Nat

CharIds == 1..MaxChars
NoChar == 0

VARIABLES
    block,      \* the block: whether it is there, its text and the order of its characters
    erased,     \* the characters that were deleted
    anchor,     \* the comment's anchor
    picked,     \* history: the characters that were selected
    reader      \* what the reader's copy knows

anchorVars == <<block, erased, anchor, picked, reader>>

NoAnchor == [kind |-> "none", first |-> NoChar, last |-> NoChar, text |-> 0]
Chars(line) == {line[n] : n \in 1..Len(line)}
PlaceOf(c) == CHOOSE n \in 1..Len(block.line) : block.line[n] = c
Seen(n) == block.line[n] \notin erased

AnchorTypeOK ==
    /\ block.there \in BOOLEAN /\ block.text \in 0..MaxRetypes
    /\ Cardinality(Chars(block.line)) = Len(block.line) /\ erased \subseteq CharIds
    /\ reader.known \cup reader.erased \subseteq CharIds /\ reader.text <= block.text
    /\ block.there => reader.there
    /\ anchor.kind = "range" => /\ anchor.first # NoChar /\ anchor.last # NoChar
                                /\ {anchor.first, anchor.last} \subseteq picked

AnchorInit ==
    /\ block = [there |-> TRUE, text |-> 0, line |-> <<1, 2>>, next |-> 3]
    /\ erased = {} /\ anchor = NoAnchor /\ picked = {}
    /\ reader = [known |-> {1, 2}, erased |-> {}, there |-> TRUE, text |-> 0]

-----------------------------------------------------------------------------
\* The characters of the block that are seen, in their order.
SeenPlaces == {n \in 1..Len(block.line) : Seen(n)}
NthSeen(k) == CHOOSE n \in SeenPlaces : Cardinality({m \in SeenPlaces : m <= n}) = k

\* Fault: the end of the range holds on to what comes after it.
RangeOpenEnd(lo, hi) ==
    [kind |-> "range", text |-> block.text, first |-> block.line[NthSeen(lo + 1)],
     last |-> IF hi < Cardinality(SeenPlaces) THEN block.line[NthSeen(hi + 1)]
              ELSE block.line[NthSeen(hi)]]

\* createCommentAnchor, of a selection: its start holds on to the character after it, its
\* end to the one before.
RangeOf(lo, hi) ==
    [kind |-> "range", text |-> block.text, first |-> block.line[NthSeen(lo + 1)],
     last |-> block.line[NthSeen(hi)]]

\* startThread: with nothing selected the anchor is the block.
StartThread ==
    /\ anchor.kind = "none" /\ block.there
    /\ \E lo, hi \in 0..Cardinality(SeenPlaces) :
          /\ lo <= hi
          /\ IF lo = hi
             THEN anchor' = [NoAnchor EXCEPT !.kind = "block"] /\ picked' = {}
             ELSE /\ anchor' = RangeOf(lo, hi)
                  /\ picked' = {block.line[NthSeen(k)] : k \in (lo + 1)..hi}
    /\ UNCHANGED <<block, erased, reader>>

-----------------------------------------------------------------------------
\* What anybody does to the block.
InsertChar(at) ==
    /\ block.there /\ block.next <= MaxChars
    /\ block' = [block EXCEPT !.next = @ + 1,
                              !.line = SubSeq(@, 1, at) \o <<block.next>>
                                       \o SubSeq(@, at + 1, Len(@))]
    /\ UNCHANGED <<erased, anchor, picked, reader>>

DeleteChar(c) ==
    /\ block.there /\ c \in Chars(block.line) \ erased
    /\ erased' = erased \cup {c} /\ UNCHANGED <<block, anchor, picked, reader>>

RemoveBlock ==
    /\ block.there /\ block' = [block EXCEPT !.there = FALSE]
    /\ UNCHANGED <<erased, anchor, picked, reader>>

\* The text of the block is another one, as when the block becomes a heading.
RetypeBlock ==
    /\ block.there /\ block.text < MaxRetypes
    /\ block' = [block EXCEPT !.text = @ + 1]
    /\ UNCHANGED <<erased, anchor, picked, reader>>

\* The reader's copy hears of something.
HearChar(c) ==
    /\ c \in Chars(block.line) \ reader.known
    /\ reader' = [reader EXCEPT !.known = @ \cup {c}]
    /\ UNCHANGED <<block, erased, anchor, picked>>

HearErased(c) ==
    /\ c \in (erased \cap reader.known) \ reader.erased
    /\ reader' = [reader EXCEPT !.erased = @ \cup {c}]
    /\ UNCHANGED <<block, erased, anchor, picked>>

HearOfBlock ==
    /\ reader.there # block.there \/ reader.text # block.text
    /\ reader' = [reader EXCEPT !.there = block.there, !.text = block.text]
    /\ UNCHANGED <<block, erased, anchor, picked>>

AnchorNext ==
    \/ StartThread \/ RemoveBlock \/ RetypeBlock \/ HearOfBlock
    \/ \E at \in 0..Len(block.line) : InsertChar(at)
    \/ \E c \in CharIds : DeleteChar(c) \/ HearChar(c) \/ HearErased(c)

AnchorSpec == AnchorInit /\ [][AnchorNext]_anchorVars

-----------------------------------------------------------------------------
\* How many characters the reader sees before a place.
SeenBefore(n) ==
    Cardinality({m \in 1..(n - 1) : block.line[m] \in reader.known \ reader.erased})

Orphaned == [kind |-> "orphaned", start |-> 0, end |-> 0]

\* resolveCommentAnchor: there is no range when the block is gone, when its text is not
\* the one of the positions, or when the copy does not know the characters they hold on to.
Resolve ==
    IF ~reader.there THEN Orphaned
    ELSE IF anchor.kind = "block" THEN [Orphaned EXCEPT !.kind = "block"]
    ELSE IF anchor.text # reader.text THEN Orphaned
    ELSE IF ~{anchor.first, anchor.last} \subseteq reader.known THEN Orphaned
    ELSE [kind |-> "range", start |-> SeenBefore(PlaceOf(anchor.first)),
          end |-> SeenBefore(PlaceOf(anchor.last)) +
                  (IF anchor.last \in reader.erased THEN 0 ELSE 1)]

\* The places of the characters in the range the reader is shown.
Covered ==
    {n \in 1..Len(block.line) : /\ block.line[n] \in reader.known \ reader.erased
                                /\ SeenBefore(n) >= Resolve.start
                                /\ SeenBefore(n) < Resolve.end}

\* Whatever is typed and deleted meanwhile, and however little of it the reader's copy
\* knows, the range of a comment is what is left of the words it was about with what was
\* put between them, and nothing that was put before or after.
AnchorHoldsItsWords ==
    anchor.kind = "range" /\ Resolve.kind = "range" =>
        /\ \A c \in (picked \cap reader.known) \ reader.erased : PlaceOf(c) \in Covered
        /\ \A n \in Covered : \E c, e \in picked : PlaceOf(c) <= n /\ n <= PlaceOf(e)

\* A comment is drawn only in the text it was written about: once the block is gone, or
\* has another text, its threads are orphans to all who know.
OrphansAreNotDrawn ==
    anchor.kind # "none" /\ (~reader.there \/
                             (anchor.kind = "range" /\ reader.text # anchor.text)) =>
        Resolve.kind = "orphaned"

\* An anchor through what is done to the text it was put on.
AnchorsHold ==
    /\ AnchorTypeOK
    /\ AnchorHoldsItsWords
    /\ OrphansAreNotDrawn
=============================================================================
