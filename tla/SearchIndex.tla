---------------------------- MODULE SearchIndex ----------------------------
(***************************************************************************)
(* The embeddings of one document, which semantic search reads: asked for  *)
(* at each save and fold (packages/jobs/src/queues.ts), by a queue with    *)
(* one worker or, without Redis, at once; and written by a pipeline that   *)
(* reads the blocks, compares hashes with the rows there are, calls the    *)
(* model, and then drops and inserts rows                                  *)
(* (packages/ai/src/embeddings/pipeline.ts).                               *)
(*                                                                         *)
(* What is abstracted.  A chunk is one block, and its hash is its text;    *)
(* blocks are numbered in the order they have in the document.             *)
(***************************************************************************)
EXTENDS Naturals, FiniteSets

CONSTANTS
    MaxBlocks,      \* bound: blocks of the document
    Phrases,        \* what a block may say
    EmbedRuns,      \* runs of the pipeline at a time
    MaxSaves,       \* bound: saves and folds
    NoText          \* no such block

ASSUME SearchIndexAssumption ==
    MaxBlocks \in Nat \ {0} /\ MaxSaves \in Nat /\ NoText \notin Phrases

VARIABLES
    queued,     \* is there a Redis?
    text,       \* the Block rows
    indexRows,       \* the Embedding rows
    next,       \* the identifier of the next one
    embedJob,        \* the job with the document's identifier
    embed,      \* the runs of the pipeline
    saves,      \* saves so far
    trouble     \* history: what has come in the way of the last save

indexVars == <<queued, text, indexRows, next, embedJob, embed, saves, trouble>>

-----------------------------------------------------------------------------
Blocks == 1..MaxBlocks
NoBlock == 0

EmbedIdle == [stage |-> "idle", wanted |-> [b \in Blocks |-> NoText], stale |-> {},
              new |-> {}, inQueue |-> FALSE]

\* A save is ignored for a job that is being done or kept; crosses a run; or a run fails.
Troubles == {"ignored", "crossed", "failed"}

Hashes(t) == {t[b] : b \in Blocks} \ {NoText}
Indexed == {r.hash : r \in indexRows}

\* chunkBlocks: the index of a chunk among those of the document.
ChunkIndex(t, b) == Cardinality({c \in 1..(b - 1) : t[c] # NoText})

SlotOf(r) == <<r.block, r.index>>

\* No two rows of a block and index: the unique key, in which no block is like no other.
SearchIndexTypeOK ==
    /\ queued \in BOOLEAN
    /\ text \in [Blocks -> Phrases \cup {NoText}]
    /\ \A r \in indexRows : r.id \in 1..(next - 1) /\ r.hash \in Phrases
                       /\ r.block \in {NoBlock} \cup {b \in Blocks : text[b] # NoText}
    /\ \A r, s \in indexRows :
          (r.id = s.id \/ (SlotOf(r) = SlotOf(s) /\ r.block # NoBlock)) => r = s
    /\ next \in Nat \ {0}
    /\ embedJob \in {"none", "waiting", "active", "kept"}
    /\ \A x \in EmbedRuns : embed[x].stage \in {"idle", "load", "compare", "call", "write"}
    /\ embedJob = "active" <=> \E x \in EmbedRuns : embed[x].inQueue
    /\ saves \in Nat /\ trouble \subseteq Troubles

SearchIndexInit ==
    /\ queued \in BOOLEAN
    /\ text = [b \in Blocks |-> NoText] /\ indexRows = {} /\ next = 1
    /\ embedJob = "none" /\ embed = [x \in EmbedRuns |-> EmbedIdle]
    /\ saves = 0 /\ trouble = {}

-----------------------------------------------------------------------------
Underway == {x \in EmbedRuns : embed[x].stage # "idle"}

StartRun(x, inQueue) ==
    /\ embed[x] = EmbedIdle
    /\ embed' = [embed EXCEPT ![x] =
          [EmbedIdle EXCEPT !.stage = "load", !.inQueue = inQueue]]

\* A save while nothing runs starts afresh.
Crossing == IF Underway = {} THEN {} ELSE trouble \cup {"crossed"}

\* A job with the identifier of one there is, also of one that has been done and is
\* kept, is not added.
AddJob ==
    /\ embedJob' = IF embedJob = "none" THEN "waiting" ELSE embedJob
    /\ trouble' = Crossing \cup IF embedJob \in {"active", "kept"} THEN {"ignored"} ELSE {}
    /\ UNCHANGED embed

\* enqueueEmbedDocument: queued, or run at once where there is no queue or it does
\* not answer.
EnqueueEmbedDocument ==
    \/ queued /\ AddJob
    \/ \E x \in EmbedRuns : StartRun(x, FALSE) /\ trouble' = Crossing /\ UNCHANGED embedJob

Unlinked(r) == [r EXCEPT !.block = NoBlock]

\* The projection deletes the rows of the blocks and inserts new ones: embeddings
\* stay, without their block.
Save ==
    /\ saves < MaxSaves /\ saves' = saves + 1
    /\ text' \in [Blocks -> Phrases \cup {NoText}] /\ text' # text
    /\ indexRows' = {Unlinked(r) : r \in indexRows}
    /\ EnqueueEmbedDocument
    /\ UNCHANGED <<queued, next>>

Take(x) ==
    /\ embedJob = "waiting"
    /\ StartRun(x, TRUE)
    /\ embedJob' = "active"
    /\ trouble' = IF Underway = {} THEN trouble ELSE trouble \cup {"crossed"}
    /\ UNCHANGED <<queued, text, indexRows, next, saves>>

\* Jobs that are done are kept until enough others are.
Evict ==
    /\ embedJob = "kept" /\ embedJob' = "none"
    /\ UNCHANGED <<queued, text, indexRows, next, embed, saves, trouble>>

\* Whatever comes of a run, its job is done: the pipeline swallows its errors.
EndRun(x) ==
    /\ embed' = [embed EXCEPT ![x] = EmbedIdle]
    /\ embedJob' = IF embed[x].inQueue THEN "kept" ELSE embedJob

Load(x) ==
    /\ embed[x].stage = "load"
    /\ embed' = [embed EXCEPT ![x] = [@ EXCEPT !.stage = "compare", !.wanted = text]]
    /\ UNCHANGED <<queued, text, indexRows, next, embedJob, saves, trouble>>

\* Rows whose hash is not wanted are stale, hashes that no row has are new.
Compare(x) ==
    /\ embed[x].stage = "compare"
    /\ LET wanted == Hashes(embed[x].wanted)
           stale == {r.id : r \in {s \in indexRows : s.hash \notin wanted}}
           new == wanted \ Indexed
       IN IF stale \cup new = {} THEN EndRun(x)
          ELSE /\ embed' = [embed EXCEPT ![x] =
                      [@ EXCEPT !.stage = IF new = {} THEN "write" ELSE "call",
                                !.stale = stale, !.new = new]]
               /\ UNCHANGED embedJob
    /\ UNCHANGED <<queued, text, indexRows, next, saves, trouble>>

\* embedTexts, which may fail, or find that there is no key.
CallModel(x) ==
    /\ embed[x].stage = "call"
    /\ \/ /\ embed' = [embed EXCEPT ![x] = [@ EXCEPT !.stage = "write"]]
          /\ UNCHANGED <<embedJob, trouble>>
       \/ EndRun(x) /\ trouble' = trouble \cup {"failed"}
    /\ UNCHANGED <<queued, text, indexRows, next, saves>>

\* The blocks new chunks are of.
NewBlocks(x) == {b \in Blocks : embed[x].wanted[b] \in embed[x].new}

Rehashed(r, hash) == [r EXCEPT !.hash = hash]

\* Row by row: the row of that block and index if there is one by now, or another one.
Inserted(x, kept) ==
    LET new == NewBlocks(x)
        t == embed[x].wanted
        slot == [b \in new |-> <<b, ChunkIndex(t, b)>>]
        had == {b \in new : \E r \in kept : SlotOf(r) = slot[b]}
        ids == CHOOSE f \in [new -> next..(next + Cardinality(new))] :
                  \A b, c \in new : b # c => f[b] # f[c]
    IN {r \in kept : \A b \in new : SlotOf(r) # slot[b]}
       \cup {Rehashed(r, t[r.block]) : r \in {s \in kept : \E b \in had : SlotOf(s) = slot[b]}}
       \cup {[id |-> ids[b], block |-> b, index |-> slot[b][2], hash |-> t[b]] :
                b \in new \ had}

\* One transaction; a block that has gone fails it as a whole.
WriteRows(x) ==
    /\ embed[x].stage = "write"
    /\ \/ /\ \A b \in NewBlocks(x) : text[b] # NoText
          /\ indexRows' = Inserted(x, {r \in indexRows : r.id \notin embed[x].stale})
          /\ next' = next + Cardinality(NewBlocks(x)) + 1
          /\ UNCHANGED trouble
       \/ /\ \E b \in NewBlocks(x) : text[b] = NoText
          /\ trouble' = trouble \cup {"failed"}
          /\ UNCHANGED <<indexRows, next>>
    /\ EndRun(x)
    /\ UNCHANGED <<queued, text, saves>>

\* The worker dies: its job, found stalled, is run again.
RestartWorker(x) ==
    /\ embed[x].stage # "idle" /\ embed[x].inQueue
    /\ embed' = [embed EXCEPT ![x] = EmbedIdle] /\ embedJob' = "waiting"
    /\ UNCHANGED <<queued, text, indexRows, next, saves, trouble>>

SearchIndexNext ==
    \/ Save \/ Evict
    \/ \E x \in EmbedRuns : \/ Take(x) \/ Load(x) \/ Compare(x) \/ CallModel(x) \/ WriteRows(x)
                       \/ RestartWorker(x)

SearchIndexSpec == SearchIndexInit /\ [][SearchIndexNext]_indexVars

-----------------------------------------------------------------------------
(***************************************************************************)
(* Properties.                                                             *)
(***************************************************************************)

IndexAtRest == Underway = {} /\ embedJob \notin {"waiting", "active"}

\* At rest search finds what the document says and nothing it no longer says, through
\* changes that swap, repeat and restore the text of blocks, deaths of the worker, and
\* whatever went wrong before the last save; unless that save crossed a run (whose
\* rows may stand at the wrong block and be written over), its run failed, or its
\* request was ignored (pipeline.ts:66-97, 115-152).
IndexIsCurrent == IndexAtRest /\ trouble = {} => Indexed = Hashes(text)
=============================================================================
