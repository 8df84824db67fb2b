---------------------------- MODULE VersionDiff ----------------------------
(***************************************************************************)
(* What is shown between two versions of a document: diffDocuments         *)
(* (packages/core/src/versioning/diff.ts, for lib/actions/versions.ts and  *)
(* the history pages).  Blocks are told apart by their ids, or by their    *)
(* place when they have none.  The words that differ within a block are    *)
(* left out, and so are the children of a block: their text counts as its  *)
(* own.                                                                    *)
(***************************************************************************)
EXTENDS Naturals, Sequences, FiniteSets

CONSTANTS
    BlockIds, NoId,
    Wordings,       \* the texts a block may have
    MaxOfVersion    \* bound: blocks of a version

ASSUME DiffAssumption == NoId \notin BlockIds /\ MaxOfVersion \in Nat

BlockOf == [id : BlockIds \cup {NoId}, text : Wordings]

\* An id is given to one block of a version.
Version(s) ==
    \A i, j \in 1..Len(s) : i # j => s[i].id = NoId \/ s[i].id # s[j].id

VARIABLES
    compared,   \* the two versions
    shown       \* the hunks between them, and the statistics

diffVars == <<compared, shown>>

NotCompared == [done |-> FALSE, hunks |-> <<>>, stats |-> [op \in {} |-> 0]]
BlockLists == {s \in UNION {[1..n -> BlockOf] : n \in 0..MaxOfVersion} : Version(s)}

DiffInit == compared \in [a : BlockLists, b : BlockLists] /\ shown = NotCompared

-----------------------------------------------------------------------------
\* blockId: the key of a block, its place if it has no id.
BlockKey(s, i) == IF s[i].id = NoId THEN <<NoId, i>> ELSE <<s[i].id, 0>>

\* aById, bById: the place of a key.  0 if there is none.
PlaceIn(s, key) ==
    IF \E i \in 1..Len(s) : BlockKey(s, i) = key
    THEN CHOOSE i \in 1..Len(s) : BlockKey(s, i) = key ELSE 0

Removed(a, i) == [op |-> "removed", from |-> i, to |-> 0, before |-> a[i].text]
Gone(a, b) == {i \in 1..Len(a) : PlaceIn(b, BlockKey(a, i)) = 0}

\* The removed blocks of a set of places, in their order.
RemovedAt(a, places) ==
    LET rank(i) == Cardinality({j \in places : j <= i})
    IN [n \in 1..Cardinality(places) |-> Removed(a, CHOOSE i \in places : rank(i) = n)]

\* emitRemovedBefore: what was removed at or before this place and is not out yet.
RemovedBefore(a, b, j) == RemovedAt(a, {i \in Gone(a, b) : i = j})

\* Fault: a block that has moved is not compared.
MovedFirst(a, b, j) ==
    LET i == PlaceIn(a, BlockKey(b, j)) IN
    [op |-> IF i = 0 THEN "added" ELSE IF i # j THEN "moved"
            ELSE IF a[i].text # b[j].text THEN "changed" ELSE "unchanged",
     from |-> i, to |-> j, before |-> IF i = 0 THEN "" ELSE a[i].text]

\* The hunk of a block of the later version.
HunkOf(a, b, j) ==
    LET i == PlaceIn(a, BlockKey(b, j)) IN
    [op |-> IF i = 0 THEN "added" ELSE IF a[i].text # b[j].text THEN "changed"
            ELSE IF i # j THEN "moved" ELSE "unchanged",
     from |-> i, to |-> j, before |-> IF i = 0 THEN "" ELSE a[i].text]

\* The hunks: along the later version, and then what was removed beyond its end.
Hunks(a, b) ==
    LET Along[j \in 0..Len(b)] ==
          IF j = 0 THEN <<>>
          ELSE Along[j - 1] \o RemovedBefore(a, b, j) \o <<HunkOf(a, b, j)>>
    IN Along[Len(b)] \o RemovedAt(a, {i \in Gone(a, b) : i > Len(b)})

CompareVersions ==
    /\ ~shown.done
    /\ LET hunks == Hunks(compared.a, compared.b) IN
       shown' = [done |-> TRUE, hunks |-> hunks,
                 stats |-> [op \in {"added", "removed", "moved", "changed", "unchanged"} |->
                     Cardinality({n \in 1..Len(hunks) : hunks[n].op = op})]]
    /\ UNCHANGED compared

DiffNext == CompareVersions
DiffSpec == DiffInit /\ [][DiffNext]_diffVars

-----------------------------------------------------------------------------
\* Both versions can be read off what is shown: without what was removed it is the later
\* version, every block of the earlier one is there once, and a block that is not said to
\* have changed has the text it had.
DiffTellsBoth ==
    shown.done =>
        LET a == compared.a   b == compared.b   hunks == shown.hunks
            later == {n \in 1..Len(hunks) : hunks[n].op # "removed"}
        IN /\ {hunks[n].to : n \in later} = 1..Len(b)
           /\ \A m, n \in later : m < n => hunks[m].to < hunks[n].to
           /\ \A i \in 1..Len(a) : Cardinality({n \in 1..Len(hunks) : hunks[n].from = i}) = 1
           /\ \A n \in 1..Len(hunks) :
                 hunks[n].op \in {"unchanged", "moved"} =>
                    b[hunks[n].to].text = a[hunks[n].from].text
           /\ (\A op \in {"added", "removed", "moved", "changed"} : shown.stats[op] = 0)
                 <=> [i \in 1..Len(a) |-> a[i].text] = [j \in 1..Len(b) |-> b[j].text]
                     /\ [i \in 1..Len(a) |-> a[i].id] = [j \in 1..Len(b) |-> b[j].id]

\* What was removed is shown where it stood: after the blocks that are now before that
\* place and before those that are now at it or after it.
RemovedStandWhereTheyStood ==
    shown.done =>
        \A m, n \in 1..Len(shown.hunks) :
            LET gone == shown.hunks[m]   kept == shown.hunks[n] IN
            gone.op = "removed" /\ kept.op # "removed" => (m < n <=> gone.from <= kept.to)
=============================================================================
