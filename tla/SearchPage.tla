----------------------------- MODULE SearchPage -----------------------------
(***************************************************************************)
(* The search page (apps/web/src/components/search/search-results.tsx,     *)
(* lib/query/use-search.ts) and the requests it makes                      *)
(* (app/api/search/route.ts).  What is typed settles after a while and,    *)
(* with the mode, is the key of an answer; answers to several keys may be  *)
(* under way at once, and the last answer stays on the page until the      *)
(* next is there.  A request reads which documents may be read, then asks  *)
(* one leg and the other, fuses what they found by reciprocal rank         *)
(* (packages/core/src/search/fusion.ts, hybrid.ts), and then reads it.     *)
(*                                                                         *)
(* What is abstracted.  How a query ranks the documents is Postgres' and   *)
(* the model's: one order of documents and one of chunks per query.  The   *)
(* filters by project and type, snippets and the address bar are left out. *)
(* The cache of answers is the query library's.                            *)
(***************************************************************************)
EXTENDS Naturals, Sequences, FiniteSets

CONSTANTS
    Specs,          \* documents
    Queries,        \* what may be typed
    Blank,          \* nothing typed
    TextOrder,      \* per query: the documents its words find
    ChunkOrder,     \* per query: the documents of the chunks nearest to it
    MaxMoves,       \* bound: what the user types and chooses
    MaxTurns,       \* bound: documents removed, memberships changed, answers grown stale
    NoAnswer,
    Damping,        \* the k of the fusion: 60
    TextLimit,      \* rows the full-text query returns: 40
    ChunkLimit,     \* chunks the semantic query returns: 60
    ResultLimit     \* documents an answer has: 20

ASSUME SearchAssumption ==
    /\ Blank \notin Queries /\ MaxMoves \in Nat /\ MaxTurns \in Nat
    /\ TextOrder \in [Queries -> Seq(Specs)] /\ ChunkOrder \in [Queries -> Seq(Specs)]

\* The limits the search route passes are short enough for the damping.
ASSUME RankAssumption ==
    /\ Damping \in Nat \ {0} /\ TextLimit \in Nat \ {0} /\ ChunkLimit \in Nat \ {0}
    /\ ResultLimit \in Nat
    /\ (TextLimit - 1) * (ChunkLimit - 1) < Damping * Damping

Modes == {"all", "text", "semantic"}
Keys == Queries \X Modes

\* What an answer lists, and an answer with the key and the documents it was asked for.
Hits == [doc : Specs, matchedText : BOOLEAN, matchedSemantic : BOOLEAN]
Answers == [of : Keys, hits : Seq(Hits), allowed : SUBSET Specs]

ASSUME NoAnswerAssumption == NoAnswer \notin Answers

VARIABLES
    library,    \* the documents there are, and those the user may read
    searched,   \* the page: what is typed, what has settled, and the mode
    answers,    \* per key: the cached answer
    stale,      \* keys whose answer has grown old
    failed,     \* keys whose last request failed, with no answer
    asked,      \* per key: the request under way
    lastKey,    \* the key whose answer was last on the page
    moves, turns

searchVars ==
    <<library, searched, answers, stale, failed, asked, lastKey, moves, turns>>

-----------------------------------------------------------------------------
(***************************************************************************)
(* Reciprocal rank fusion of two ranked lists of documents: a document     *)
(* scores 1 / (Damping + rank) in each list it is in, and the sums are     *)
(* ranked.  Scores are fractions, compared by cross-multiplying.           *)
(***************************************************************************)

\* The members of a list at some of its places, in their order.
Picked(list, places) ==
    LET rank(i) == Cardinality({j \in places : j <= i})
    IN [n \in 1..Cardinality(places) |-> list[CHOOSE i \in places : rank(i) = n]]

\* The score of a rank, and the sum of two, as a numerator over a denominator.
OneScore(i) == <<1, Damping + i>>
BothScore(i, j) == <<(Damping + i) + (Damping + j), (Damping + i) * (Damping + j)>>

Above(s, t) == s[1] * t[2] > t[1] * s[2]

Holds(list, d) == \E i \in 1..Len(list) : list[i] = d
RankOf(list, d) == (CHOOSE i \in 1..Len(list) : list[i] = d) - 1

\* The best chunk of a document is its first: later ones are dropped.
BestChunks(chunks) ==
    Picked(chunks, {i \in 1..Len(chunks) : \A j \in 1..(i - 1) : chunks[j] # chunks[i]})

Score(words, best, d) ==
    IF Holds(words, d) /\ Holds(best, d)
    THEN BothScore(RankOf(words, d), RankOf(best, d))
    ELSE IF Holds(words, d) THEN OneScore(RankOf(words, d)) ELSE OneScore(RankOf(best, d))

\* First seen: the order of the list of words, then that of the chunks.
SeenAt(words, best, d) ==
    IF Holds(words, d) THEN RankOf(words, d) ELSE Len(words) + RankOf(best, d)

\* A stable sort by score.
Precedes(words, best, d, e) ==
    LET s == Score(words, best, d)
        t == Score(words, best, e) IN
    \/ Above(s, t)
    \/ ~Above(t, s) /\ SeenAt(words, best, d) < SeenAt(words, best, e)

\* fuseSearchResults: the best of what was found, with the lists a document was found in.
Fuse(words, chunks) ==
    LET best == BestChunks(chunks)
        found == {words[i] : i \in 1..Len(words)} \cup {best[i] : i \in 1..Len(best)}
        place(d) == Cardinality({e \in found : Precedes(words, best, e, d)}) + 1
    IN [n \in {m \in 1..Cardinality(found) : m <= ResultLimit} |->
           LET d == CHOOSE e \in found : place(e) = n
           IN [doc |-> d, matchedText |-> Holds(words, d), matchedSemantic |-> Holds(best, d)]]

-----------------------------------------------------------------------------
NotAsked == [stage |-> "none", allowed |-> {}, words |-> <<>>, found |-> <<>>]
Listed(hits) == {hits[i].doc : i \in 1..Len(hits)}
Key == <<searched.settled, searched.mode>>
Enabled(page) == page.settled # Blank

\* What is fetched is fetched for a key, once at a time.
SearchTypeOK ==
    /\ library.there \subseteq Specs /\ library.read \subseteq Specs
    /\ searched \in [typed : Queries \cup {Blank}, settled : Queries \cup {Blank},
                     mode : Modes]
    /\ stale \subseteq {k \in Keys : answers[k] # NoAnswer}
    /\ failed \cap {k \in Keys : answers[k] # NoAnswer \/ asked[k].stage # "none"} = {}
    /\ \A k \in Keys :
          /\ asked[k].stage \in {"none", "session", "text", "semantic", "hydrate", "sent"}
          /\ asked[k].stage = "semantic" => k[2] # "text"
          /\ k[2] = "semantic" => asked[k].words = <<>>
    /\ lastKey = NoAnswer \/ answers[lastKey] # NoAnswer

SearchInit ==
    /\ library = [there |-> Specs, read |-> Specs]
    /\ searched = [typed |-> Blank, settled |-> Blank, mode |-> "all"]
    /\ answers = [k \in Keys |-> NoAnswer] /\ asked = [k \in Keys |-> NotAsked]
    /\ stale = {} /\ failed = {} /\ lastKey = NoAnswer /\ moves = 0 /\ turns = 0

-----------------------------------------------------------------------------
\* useSearch: a key that is new to the page is asked for unless its answer is fresh or
\* on its way; other requests go on.
Observe(page) ==
    LET k == <<page.settled, page.mode>> IN
    /\ searched' = page
    /\ IF Enabled(page) /\ asked[k].stage = "none" /\ (answers[k] = NoAnswer \/ k \in stale)
       THEN /\ asked' = [asked EXCEPT ![k] = [@ EXCEPT !.stage = "session"]]
            /\ failed' = failed \ {k}
       ELSE UNCHANGED <<asked, failed>>
    /\ lastKey' = IF Enabled(page) /\ answers[k] # NoAnswer THEN k ELSE lastKey

TypeQuery(q) ==
    /\ moves < MaxMoves /\ moves' = moves + 1 /\ q # searched.typed
    /\ searched' = [searched EXCEPT !.typed = q]
    /\ UNCHANGED <<library, answers, stale, failed, asked, lastKey, turns>>

\* useDebounced: nothing was typed for a while.
Debounced ==
    /\ searched.settled # searched.typed
    /\ Observe([searched EXCEPT !.settled = searched.typed])
    /\ UNCHANGED <<library, answers, stale, moves, turns>>

ChooseMode(m) ==
    /\ moves < MaxMoves /\ moves' = moves + 1 /\ m # searched.mode
    /\ Observe([searched EXCEPT !.mode = m])
    /\ UNCHANGED <<library, answers, stale, turns>>

-----------------------------------------------------------------------------
Step(k, stage, words, found) ==
    /\ asked' = [asked EXCEPT ![k] =
          [@ EXCEPT !.stage = stage, !.words = words, !.found = found]]
    /\ UNCHANGED <<library, searched, answers, stale, failed, lastKey, moves, turns>>

\* A query's order of the documents of a set, up to its limit.
Inside(ranked, set, limit) ==
    LET Those(n) == {i \in 1..n : ranked[i] \in set} IN
    Picked(ranked, {i \in Those(Len(ranked)) : Cardinality(Those(i)) <= limit})

\* readableDocumentIds; with none to read the answer is empty.
Allow(k) ==
    /\ asked[k].stage = "session"
    /\ LET allowed == library.there \cap library.read IN
          asked' = [asked EXCEPT ![k] = [@ EXCEPT !.allowed = allowed, !.stage =
             IF allowed = {} THEN "sent" ELSE IF k[2] = "semantic" THEN "semantic" ELSE "text"]]
    /\ UNCHANGED <<library, searched, answers, stale, failed, lastKey, moves, turns>>

Fused(k, words, chunks) ==
    LET found == Fuse(words, chunks)
    IN Step(k, IF found = <<>> THEN "sent" ELSE "hydrate", words, found)

\* fullTextSearch; without a key, and in the mode for text, it is the only leg.
FullText(k) ==
    /\ asked[k].stage = "text"
    /\ LET words == Inside(TextOrder[k[1]], asked[k].allowed \cap library.there, TextLimit)
       IN
          \/ k[2] # "text" /\ Step(k, "semantic", words, <<>>)
          \/ Fused(k, words, <<>>)

\* embedQuery and semanticSearch; what fails there finds nothing.
Semantic(k) ==
    /\ asked[k].stage = "semantic"
    /\ \/ Fused(k, asked[k].words,
                Inside(ChunkOrder[k[1]], asked[k].allowed \cap library.there, ChunkLimit))
       \/ Fused(k, asked[k].words, <<>>)

\* The documents that were found are read; one that has gone since is left out.
Hydrate(k) ==
    /\ asked[k].stage = "hydrate"
    /\ LET found == asked[k].found IN
          Step(k, "sent", asked[k].words,
               Picked(found, {i \in 1..Len(found) : found[i].doc \in library.there}))

Finish(k, key) ==
    /\ asked' = [asked EXCEPT ![k] = NotAsked]
    /\ answers' = [answers EXCEPT ![key] =
          [of |-> k, hits |-> asked[k].found, allowed |-> asked[k].allowed]]
    /\ stale' = stale \ {key} /\ failed' = failed \ {key}
    /\ lastKey' = IF Enabled(searched) /\ key = Key THEN key ELSE lastKey
    /\ UNCHANGED <<library, searched, moves, turns>>

\* Fault: an answer is taken for one to what the page asks now.
ReceiveForPage(k) == asked[k].stage = "sent" /\ Finish(k, IF Enabled(searched) THEN Key ELSE k)

\* An answer is cached under the key it was asked for, whatever the page asks by now.
Receive(k) == asked[k].stage = "sent" /\ Finish(k, k)

\* The request, or its last retry, fails.
FailSearch(k) ==
    /\ asked[k].stage # "none" /\ turns < MaxTurns /\ turns' = turns + 1
    /\ asked' = [asked EXCEPT ![k] = NotAsked]
    /\ failed' = IF answers[k] = NoAnswer THEN failed \cup {k} ELSE failed
    /\ UNCHANGED <<library, searched, answers, stale, lastKey, moves>>

\* Documents are removed; memberships come and go; an answer is half a minute old.
Turn ==
    /\ turns < MaxTurns /\ turns' = turns + 1
    /\ \/ /\ \E d \in Specs :
                \/ d \in library.there /\ library' = [library EXCEPT !.there = @ \ {d}]
                \/ d \in library.read /\ library' = [library EXCEPT !.read = @ \ {d}]
                \/ d \notin library.read /\ library' = [library EXCEPT !.read = @ \cup {d}]
          /\ UNCHANGED stale
       \/ /\ \E k \in Keys : answers[k] # NoAnswer /\ k \notin stale /\ stale' = stale \cup {k}
          /\ UNCHANGED library
    /\ UNCHANGED <<searched, answers, failed, asked, lastKey, moves>>

SearchNext ==
    \/ \E q \in Queries \cup {Blank} : TypeQuery(q)
    \/ Debounced
    \/ \E m \in Modes : ChooseMode(m)
    \/ \E k \in Keys : \/ Allow(k) \/ FullText(k) \/ Semantic(k) \/ Hydrate(k)
                       \/ Receive(k) \/ FailSearch(k)
    \/ Turn

SearchSpec == SearchInit /\ [][SearchNext]_searchVars

-----------------------------------------------------------------------------
(***************************************************************************)
(* Properties.                                                             *)
(***************************************************************************)

\* When what was typed has settled, nothing is under way for it and it has not failed,
\* the page shows the answer to it, not one to an earlier query that came back late or
\* that stays on the page meanwhile (use-search.ts:56-75).
SettledShowsItsAnswer ==
    (Enabled(searched) /\ asked[Key].stage = "none" /\ Key \notin failed) =>
        answers[Key] # NoAnswer /\ answers[Key].of = Key

\* What an answer lists could be read by the user when it was asked for, though the
\* two legs and the reading of what they found come later (scope.ts, route.ts:79-86).
HitsWereReadable ==
    \A k \in Keys : answers[k] # NoAnswer => Listed(answers[k].hits) \subseteq answers[k].allowed

\* What both legs find comes before what one finds: no rank in one list makes up for
\* being absent from the other (fusion.ts:7-14, with the limits of route.ts:94-113).
AgreedComeFirst ==
    \A k \in Keys : answers[k] # NoAnswer =>
        LET hits == answers[k].hits IN
        \A i, j \in 1..Len(hits) :
            hits[i].matchedText /\ hits[i].matchedSemantic
                /\ ~(hits[j].matchedText /\ hits[j].matchedSemantic) => i < j
=============================================================================
