-------------------------- MODULE ContextAssembly --------------------------
(***************************************************************************)
(* What a model is told of the document a user asks about: the document,   *)
(* its neighbours in the graph, passages found by a search and comments,   *)
(* read at once and packed into a budget of tokens                         *)
(* (packages/ai/src/context/assemble.ts and retrieve.ts, for the routes    *)
(* api/ai/chat and api/ai/generate-rfc).                                   *)
(*                                                                         *)
(* What is abstracted.  Of a text there is the number of its tokens; a     *)
(* heading costs the same for all, and so does a passage or a comment.     *)
(* What a search finds is one order of documents.  Identities of items     *)
(* never collide here, so they are not compared.                           *)
(***************************************************************************)
EXTENDS DependencyGraph

CONSTANTS
    Papers,         \* documents
    Refers,         \* the dependencies there may be
    Bulks,          \* how long a document may be, in tokens
    Passage,        \* how long a passage of a search or a comment is
    HitOrder,       \* the documents a search finds, nearest first
    Hops,           \* how far the graph is followed (2)
    Budget,         \* tokens for the context, those kept for the answer taken off
    PerItem,        \* tokens of one item at most
    Overhead,       \* tokens of a heading
    Clipped,        \* tokens of the mark that an item was cut
    MaxNotes,       \* bound: comments
    MaxRewrites     \* bound: changes while the context is read

ASSUME ContextAssumption ==
    /\ IsFiniteSet(Papers) /\ Refers \subseteq Papers \X Papers
    /\ HitOrder \in Seq(Papers)
    /\ Bulks \subseteq Nat /\ {Passage, Budget, PerItem, Overhead, Clipped} \subseteq Nat
    /\ Passage <= PerItem /\ Hops \in Nat \ {0} /\ {MaxNotes, MaxRewrites} \subseteq Nat

VARIABLES
    papers,     \* the documents: those there are, their length, who refers to whom, and
                \* the comments on the one that is asked about
    gather,     \* the assembly under way
    rewrites

contextVars == <<papers, gather, rewrites>>

Legs == {"current", "outgoing", "incoming", "dependencies", "hits", "semantic", "comments"}
Item(d, tier, depth, bulk) == [doc |-> d, tier |-> tier, depth |-> depth, bulk |-> bulk]
NoGather == [stage |-> "none", focus |-> CHOOSE d \in Papers : TRUE, sought |-> FALSE,
             allowed |-> {}, read |-> {}, out |-> {}, in |-> {}, current |-> <<>>,
             dependencies |-> <<>>, hits |-> <<>>, semantic |-> <<>>, comments |-> <<>>,
             items |-> <<>>, dropped |-> <<>>]

\* An assembly that reads has nothing packed, and one that was packed has read all it asks for.
ContextTypeOK ==
    /\ papers.there \subseteq Papers /\ papers.notes \in 0..MaxNotes
    /\ \A e \in papers.deps : {e[1], e[2]} \subseteq papers.there
    /\ gather.stage \in {"none", "reading", "packed", "failed"}
    /\ gather.read \subseteq Legs
    /\ gather.stage = "packed" => gather.read = Legs
    /\ "dependencies" \in gather.read => {"outgoing", "incoming"} \subseteq gather.read
    /\ gather.stage # "packed" => gather.items = <<>> /\ gather.dropped = <<>>

ContextInit ==
    /\ papers \in [there : {Papers}, bulk : [Papers -> Bulks], deps : SUBSET Refers,
                   mine : {Papers}, notes : {MaxNotes}]
    /\ gather = NoGather /\ rewrites = 0

-----------------------------------------------------------------------------
\* The routes: the documents the user may read are listed, and the one asked about must be
\* one of them; a passage that is selected is searched for.
Gather(d) ==
    /\ gather.stage = "none"
    /\ LET allowed == papers.mine \cap papers.there IN
       /\ d \in allowed
       /\ \E sought \in BOOLEAN :
             gather' = [NoGather EXCEPT !.stage = "reading", !.focus = d, !.sought = sought,
                                        !.allowed = allowed]
    /\ UNCHANGED <<papers, rewrites>>

Reads(leg) ==
    /\ gather.stage = "reading" /\ leg \notin gather.read /\ UNCHANGED <<papers, rewrites>>
Has(leg, value) == [gather EXCEPT !.read = @ \cup {leg}, ![leg] = value]

\* current
ReadCurrent ==
    /\ Reads("current")
    /\ gather' = Has("current", IF gather.focus \notin papers.there THEN <<>>
                                ELSE <<Item(gather.focus, 1, 0, papers.bulk[gather.focus])>>)

\* dependencies: the two closures, asked for at once.
ReadOutgoing ==
    /\ Reads("outgoing")
    /\ gather' = [gather EXCEPT !.read = @ \cup {"outgoing"},
                                !.out = Closure(papers.deps, gather.focus, "outgoing", Hops)]
ReadIncoming ==
    /\ Reads("incoming")
    /\ gather' = [gather EXCEPT !.read = @ \cup {"incoming"},
                                !.in = Closure(papers.deps, gather.focus, "incoming", Hops)]

\* sorted: nearer neighbours come before those further away.
NearerFirst(s, rows) ==
    \A i \in 1..(Len(s) - 1) : Shallowest(rows, s[i]) <= Shallowest(rows, s[i + 1])

\* The neighbours that are still there, in the order of their distance.
ReadNeighbours ==
    /\ Reads("dependencies") /\ {"outgoing", "incoming"} \subseteq gather.read
    /\ LET rows == gather.out \cup gather.in
           met == ((ReachableDocIds(rows) \cap gather.allowed) \ {gather.focus})
                     \cap papers.there
       IN \E s \in Orderings(met) :
             /\ NearerFirst(s, rows)
             /\ gather' = Has("dependencies",
                    [n \in 1..Len(s) |-> Item(s[n], 2, Shallowest(rows, s[n]),
                                              papers.bulk[s[n]])])

\* semantic: nothing without a passage or when it cannot be embedded; a document that is
\* gone has no chunks, and the one asked about is there already.
ReadHits ==
    /\ Reads("hits")
    /\ \E found \in {<<>>, Only(HitOrder, (gather.allowed \cap papers.there) \ {gather.focus})} :
          /\ ~gather.sought => found = <<>>
          /\ gather' = Has("hits", found)

\* The titles of the documents that were found.
ReadHitTitles ==
    /\ Reads("semantic") /\ "hits" \in gather.read
    /\ LET kept == Only(gather.hits, papers.there) IN
       gather' = Has("semantic", [n \in 1..Len(kept) |-> Item(kept[n], 3, 0, Passage)])

\* comments
ReadComments ==
    /\ Reads("comments")
    /\ gather' = Has("comments", IF gather.focus \notin papers.there THEN <<>>
                                 ELSE [n \in 1..papers.notes |-> Item(gather.focus, 4, 0, Passage)])

\* A query fails, and with it the assembly: the chat goes on without a context.
QueryFails ==
    /\ gather.stage = "reading" /\ gather.read # Legs
    /\ gather' = [NoGather EXCEPT !.stage = "failed"] /\ UNCHANGED <<papers, rewrites>>

-----------------------------------------------------------------------------
\* truncateToTokens, and what an item costs with its heading.
Cost(item) ==
    (IF item.bulk <= PerItem THEN item.bulk ELSE PerItem + Clipped) + Overhead

\* packItems: in their order, each item that still fits.
PackItems(all) ==
    LET Packed[n \in 0..Len(all)] ==
          IF n = 0 THEN [used |-> 0, items |-> <<>>, dropped |-> <<>>]
          ELSE LET so == Packed[n - 1] IN
               IF so.used + Cost(all[n]) > Budget
               THEN [so EXCEPT !.dropped = Append(@, all[n])]
               ELSE [so EXCEPT !.used = @ + Cost(all[n]), !.items = Append(@, all[n])]
    IN Packed[Len(all)]

\* assembleContext: when all is read, by tiers.
Assemble ==
    /\ gather.stage = "reading" /\ gather.read = Legs
    /\ LET packed == PackItems(gather.current \o gather.dependencies \o
                               gather.semantic \o gather.comments)
       IN gather' = [gather EXCEPT !.stage = "packed", !.items = packed.items,
                                   !.dropped = packed.dropped]
    /\ UNCHANGED <<papers, rewrites>>

-----------------------------------------------------------------------------
Rewrite == rewrites < MaxRewrites /\ rewrites' = rewrites + 1 /\ UNCHANGED gather

\* What others do to the documents meanwhile.
Lengthen(d, b) ==
    /\ Rewrite /\ d \in papers.there /\ b # papers.bulk[d]
    /\ papers' = [papers EXCEPT !.bulk[d] = b]
RemovePaper(d) ==
    /\ Rewrite /\ d \in papers.there
    /\ papers' = [papers EXCEPT !.there = @ \ {d}, !.deps = {e \in @ : d \notin {e[1], e[2]}}]
Refer(e) ==
    /\ Rewrite /\ e \notin papers.deps /\ {e[1], e[2]} \subseteq papers.there
    /\ papers' = [papers EXCEPT !.deps = @ \cup {e}]
ResolveNote ==
    /\ Rewrite /\ papers.notes > 0
    /\ papers' = [papers EXCEPT !.notes = @ - 1]

ContextNext ==
    \/ ReadCurrent \/ ReadOutgoing \/ ReadIncoming \/ ReadNeighbours \/ ReadHits
    \/ ReadHitTitles \/ ReadComments \/ QueryFails \/ Assemble \/ ResolveNote
    \/ \E d \in Papers : Gather(d) \/ RemovePaper(d) \/ \E b \in Bulks : Lengthen(d, b)
    \/ \E e \in Refers : Refer(e)

ContextSpec == ContextInit /\ [][ContextNext]_contextVars

-----------------------------------------------------------------------------
\* What an item of the context costs in the prompt, from what is written there.
Spent(s) == LET Sum[n \in 0..Len(s)] == IF n = 0 THEN 0 ELSE Sum[n - 1] + Cost(s[n])
            IN Sum[Len(s)]

\* The context never takes the tokens that are kept for the answer, headings and marks
\* of what was cut included, and of the document asked about one item is there unless
\* the budget has no room for a whole item.
ContextFits ==
    gather.stage = "packed" =>
        /\ Spent(gather.items) <= Budget
        /\ (gather.current # <<>> /\ PerItem + Clipped + Overhead <= Budget) =>
              gather.items # <<>> /\ gather.items[1] = gather.current[1]

\* What was left out would not have fitted, even had nothing less important been taken.
LeftOutDidNotFit ==
    gather.stage = "packed" =>
        \A i \in 1..Len(gather.dropped) :
            LET left == gather.dropped[i]
                before == {j \in 1..Len(gather.items) :
                             \/ gather.items[j].tier < left.tier
                             \/ /\ gather.items[j].tier = left.tier
                                /\ gather.items[j].depth <= left.depth}
            IN Spent(SubSeq(gather.items, 1, Cardinality(before))) + Cost(left) > Budget

\* A neighbour that is two steps away never takes the place of one that is a step away,
\* though the two directions are read at different times: if the nearer one was left out
\* it costs more than what was taken of those further away.
NeighboursByDistance ==
    gather.stage = "packed" =>
        \A i \in 1..Len(gather.dropped), j \in 1..Len(gather.items) :
            LET near == gather.dropped[i]   far == gather.items[j] IN
            near.tier = 2 /\ far.tier = 2 /\ near.depth < far.depth => Cost(far) < Cost(near)
=============================================================================
