----------------------------- MODULE RepoIngest -----------------------------
(***************************************************************************)
(* Importing a repository into a project                                   *)
(* (apps/web/src/lib/ingest/runner.ts): a snapshot is fetched and walked,  *)
(* a manifest of its files is kept with a summary of each, every document  *)
(* of it becomes a document of the project, found again by its slug, and   *)
(* documents whose file has gone are deprecated, those that the call lets: *)
(* it asks for a right of its own, which a member who may import need not  *)
(* have, and what it refuses is logged and passed over.  Runs of one       *)
(* project, and one that is repeated after a crash, share the rows and the *)
(* directory.                                                              *)
(*                                                                         *)
(* What is abstracted.  Files are numbered in the order of their paths; a  *)
(* text is the version of its file.  The documents the model writes from   *)
(* the summaries have slugs and no source of their own, and nothing here   *)
(* depends on them.                                                        *)
(***************************************************************************)
EXTENDS Naturals, FiniteSets, FiniteSetsExt

CONSTANTS
    MaxFiles,       \* files there may be in the repository
    Markdown,       \* those that are documents; the others are code
    SlugOf,         \* slugForSourcePath, slugs numbered as a file that has them
    MaxIngests,     \* bound: jobs
    MaxPushes,      \* bound: changes of the repository
    MaxCrashes,     \* bound: crashes
    Nothing         \* no row, no version

Files == 1..MaxFiles
Ingests == 1..MaxIngests

ASSUME IngestAssumption ==
    /\ MaxFiles \in Nat /\ MaxIngests \in Nat /\ MaxPushes \in Nat /\ MaxCrashes \in Nat
    /\ Markdown \subseteq Files /\ SlugOf \in [Markdown -> Markdown]

VARIABLES
    tree,           \* the repository: the version of each file
    repoFile,       \* the RepoFile rows
    imported,       \* the Document rows, by slug
    ingest,         \* per job: the run
    pushes, crashes,
    crossed,        \* history: has a run overlapped another, or a change of what it reads?
    vanished,       \* history: files that have been removed
    result          \* history: what the last run saw and spared, if nothing disturbed it

ingestVars ==
    <<tree, repoFile, imported, ingest, pushes, crashes, crossed, vanished, result>>

-----------------------------------------------------------------------------
Versions == 1..(MaxPushes + 1)
Slugs == {SlugOf[f] : f \in Markdown}
Snapshot == [Files -> Versions \cup {Nothing}]
Failed == 0
Summary == Versions \cup {Failed, Nothing}
ManifestRow == [sha : Versions, summary : Summary]
Manifest == [Files -> ManifestRow \cup {Nothing}]
ImportedRow == [source : Markdown, body : Versions \cup {Nothing}, deprecated : BOOLEAN]
Outcome == [seen : Snapshot, spared : SUBSET Slugs]

ASSUME NothingAssumption == Nothing \notin Nat \cup ManifestRow \cup ImportedRow \cup Outcome

Paths(s) == {f \in Files : s[f] # Nothing}
NoSnapshot == [f \in Files |-> Nothing]

IngestStages == {"new", "fetch", "download", "walk", "verbatim", "save",
                 "summarize", "ask", "finalize", "deprecate", "ended"}

IngestRun == [stage : IngestStages, local : BOOLEAN, seen : Snapshot, left : Snapshot,
              todo : SUBSET Files, body : Versions \cup {Nothing}, spared : SUBSET Slugs,
              alone : BOOLEAN]
NotBegun == [stage |-> "new", local |-> FALSE, seen |-> NoSnapshot, left |-> NoSnapshot,
             todo |-> {}, body |-> Nothing, spared |-> {}, alone |-> TRUE]

IngestTypeOK ==
    /\ tree \in Snapshot /\ repoFile \in Manifest
    /\ imported \in [Slugs -> ImportedRow \cup {Nothing}]
    /\ ingest \in [Ingests -> IngestRun]
    /\ \A j \in Ingests : ingest[j].stage \in {"save", "ask"} => ingest[j].body \in Versions
    /\ pushes \in Nat /\ crashes \in Nat /\ crossed \in BOOLEAN
    /\ vanished \subseteq Files /\ result \in Outcome \cup {Nothing}

IngestInit ==
    /\ tree = [f \in Files |-> 1]
    /\ repoFile = NoSnapshot
    /\ imported = [s \in Slugs |-> Nothing]
    /\ ingest = [j \in Ingests |-> NotBegun]
    /\ pushes = 0 /\ crashes = 0 /\ crossed = FALSE
    /\ vanished = {} /\ result = Nothing

-----------------------------------------------------------------------------
IngestRuns(j) == ingest[j].stage \notin {"new", "ended"}

\* A run of a local path is not alone where files change, and none is beside another.
Disturbed(run) == [run EXCEPT !.alone = @ /\ ~run.local]
Joined(run) == [run EXCEPT !.alone = FALSE]

\* A file is written, or some are removed.  A run of a local path reads the files
\* themselves.
Push ==
    /\ pushes < MaxPushes /\ pushes' = pushes + 1
    /\ \/ /\ \E f \in Files : tree' = [tree EXCEPT ![f] = pushes + 2]
          /\ UNCHANGED vanished
       \/ \E F \in SUBSET Paths(tree) \ {{}} :
             /\ tree' = [f \in Files |-> IF f \in F THEN Nothing ELSE tree[f]]
             /\ vanished' = vanished \cup F
    /\ ingest' = [j \in Ingests |-> Disturbed(ingest[j])]
    /\ crossed' = (crossed \/ \E j \in Ingests : IngestRuns(j) /\ ingest[j].local)
    /\ UNCHANGED <<repoFile, imported, crashes, result>>

\* A path on the server is read where it is.
FirstStage(local) == IF local THEN "walk" ELSE "fetch"
Begun(local, alone) ==
    [NotBegun EXCEPT !.stage = FirstStage(local), !.local = local, !.alone = alone]

\* startRepoIngest, and the worker takes the job.
StartRepoIngest(j, local) ==
    /\ ingest[j] = NotBegun /\ \A i \in 1..(j - 1) : ingest[i] # NotBegun
    /\ LET others == {i \in Ingests : IngestRuns(i)} IN
          /\ ingest' = [i \in Ingests |->
                CASE i = j -> Begun(local, others = {})
                  [] i \in others -> Joined(ingest[i])
                  [] OTHER -> ingest[i]]
          /\ crossed' = (crossed \/ others # {})
    /\ result' = Nothing
    /\ UNCHANGED <<tree, repoFile, imported, pushes, crashes, vanished>>

RunTo(j, r) == ingest' = [ingest EXCEPT ![j] = r]
ingestRows == <<repoFile, imported>>
ingestWorld == <<tree, pushes, crashes, crossed, vanished, result>>

\* The tree of the branch is listed.
ListTree(j) ==
    /\ ingest[j].stage = "fetch"
    /\ RunTo(j, [ingest[j] EXCEPT !.stage = "download", !.seen = tree])
    /\ UNCHANGED <<ingestRows, ingestWorld>>

\* Blobs are asked for by branch and path: what they say by now, over what the
\* directory holds from before a crash.
Fetched(run) ==
    [f \in Files |-> IF run.seen[f] # Nothing THEN tree[f] ELSE run.left[f]]

FetchGithubRepo(j) ==
    /\ ingest[j].stage = "download"
    /\ \A f \in Paths(ingest[j].seen) : tree[f] # Nothing
    /\ RunTo(j, [ingest[j] EXCEPT !.stage = "walk", !.seen = Fetched(ingest[j])])
    /\ UNCHANGED <<ingestRows, ingestWorld>>

\* A summary is kept as long as the file is the same.
KeptSummary(row, sha) == IF row # Nothing /\ row.sha = sha THEN row.summary ELSE Nothing
WalkedRow(row, sha) == [sha |-> sha, summary |-> KeptSummary(row, sha)]

WalkRepo(j) ==
    /\ ingest[j].stage = "walk"
    /\ LET seen == IF ingest[j].local THEN tree ELSE ingest[j].seen IN
          /\ repoFile' = [f \in Files |->
                IF seen[f] = Nothing THEN repoFile[f]
                ELSE WalkedRow(repoFile[f], seen[f])]
          /\ RunTo(j, [ingest[j] EXCEPT !.stage = "verbatim", !.seen = seen,
                          !.todo = Paths(seen) \cap Markdown])
    /\ UNCHANGED <<imported, ingestWorld>>

-----------------------------------------------------------------------------
\* readSnapshotFile: what the file says now, or an error.
ReadFile(j, f) == IF ingest[j].local THEN tree[f] ELSE ingest[j].seen[f]
Due(j) == Min(ingest[j].todo)

\* The document of a file, found or made.
FoundOrMade(row, f) ==
    IF row = Nothing THEN [source |-> f, body |-> Nothing, deprecated |-> FALSE]
    ELSE [row EXCEPT !.source = f]

\* A file that cannot be read is skipped; of the others the document is looked for by
\* slug, and made or updated.
UpsertIngestDocument(j) ==
    /\ ingest[j].stage = "verbatim" /\ ingest[j].todo # {}
    /\ LET f == Due(j)
           s == SlugOf[f] IN
          \/ /\ RunTo(j, [ingest[j] EXCEPT !.todo = @ \ {f}, !.alone = FALSE])
             /\ UNCHANGED imported
          \/ /\ ReadFile(j, f) # Nothing
             /\ imported' = [imported EXCEPT ![s] = FoundOrMade(@, f)]
             /\ RunTo(j, [ingest[j] EXCEPT !.stage = "save", !.body = ReadFile(j, f)])
    /\ UNCHANGED <<repoFile, ingestWorld>>

SaveVerbatim(j) ==
    /\ ingest[j].stage = "save"
    /\ imported' = [imported EXCEPT ![SlugOf[Due(j)]].body = ingest[j].body]
    /\ RunTo(j, [ingest[j] EXCEPT !.stage = "verbatim", !.todo = @ \ {Due(j)}])
    /\ UNCHANGED <<repoFile, ingestWorld>>

\* Without a key there are no summaries.
BeginSummaries(j) ==
    /\ ingest[j].stage = "verbatim" /\ ingest[j].todo = {}
    /\ \/ RunTo(j, [ingest[j] EXCEPT !.stage = "summarize",
                                     !.todo = Paths(ingest[j].seen) \ Markdown])
       \/ RunTo(j, [ingest[j] EXCEPT !.stage = "finalize"])
    /\ UNCHANGED <<ingestRows, ingestWorld>>

\* A file that has a summary, or cannot be read, is done.
AskForSummary(j) ==
    /\ ingest[j].stage = "summarize" /\ ingest[j].todo # {}
    /\ LET f == Due(j) IN
          IF repoFile[f].summary # Nothing \/ ReadFile(j, f) = Nothing
          THEN RunTo(j, [ingest[j] EXCEPT !.todo = @ \ {f}])
          ELSE RunTo(j, [ingest[j] EXCEPT !.stage = "ask", !.body = ReadFile(j, f)])
    /\ UNCHANGED <<ingestRows, ingestWorld>>

\* The model's summary, or that there is none, is written beside whatever sha the row
\* has by now.
WriteSummary(j) ==
    /\ ingest[j].stage = "ask"
    /\ \E s \in {ingest[j].body, Failed} :
          repoFile' = [repoFile EXCEPT ![Due(j)].summary = s]
    /\ RunTo(j, [ingest[j] EXCEPT !.stage = "summarize", !.todo = @ \ {Due(j)}])
    /\ UNCHANGED <<imported, ingestWorld>>

-----------------------------------------------------------------------------
\* Fault: documents that were not written in this run.
Unwritten(j) ==
    {s \in Slugs : imported[s] # Nothing /\ imported[s].body # ingest[j].seen[imported[s].source]}

\* Documents whose file the walk has not seen.
Unseen(j) ==
    {s \in Slugs : /\ imported[s] # Nothing /\ ~imported[s].deprecated
                   /\ ingest[j].seen[imported[s].source] = Nothing}

ListIngested(j) ==
    /\ \/ ingest[j].stage = "finalize"
       \/ ingest[j].stage = "summarize" /\ ingest[j].todo = {}
    /\ RunTo(j, [ingest[j] EXCEPT !.stage = "deprecate", !.todo = Unseen(j), !.spared = {}])
    /\ UNCHANGED <<ingestRows, ingestWorld>>

\* The call asks for doc.changeStatus, and the run was started with doc.create: it is
\* refused where only that was given, and may fail where it was not.  The run goes on to
\* the next one and is completed all the same.
MarkIngestDocumentDeprecated(j) ==
    /\ ingest[j].stage = "deprecate" /\ ingest[j].todo # {}
    /\ \E s \in ingest[j].todo :
          \/ /\ imported' = [imported EXCEPT ![s].deprecated = TRUE]
             /\ RunTo(j, [ingest[j] EXCEPT !.todo = @ \ {s}])
          \/ /\ RunTo(j, [ingest[j] EXCEPT !.todo = @ \ {s}, !.spared = @ \cup {s}])
             /\ UNCHANGED imported
    /\ UNCHANGED <<repoFile, ingestWorld>>

IngestEnds(j) == RunTo(j, [NotBegun EXCEPT !.stage = "ended"])

CompleteIngest(j) ==
    /\ ingest[j].stage = "deprecate" /\ ingest[j].todo = {}
    /\ IngestEnds(j)
    /\ result' = IF ingest[j].alone
                 THEN [seen |-> ingest[j].seen, spared |-> ingest[j].spared] ELSE Nothing
    /\ UNCHANGED <<ingestRows, tree, pushes, crashes, crossed, vanished>>

\* Any stage may throw; the job has failed, and what it has written stays.
FailIngest(j) ==
    /\ IngestRuns(j)
    /\ IngestEnds(j)
    /\ UNCHANGED <<ingestRows, ingestWorld>>

\* The process dies.  The job is taken up again, from the first stage, and finds the
\* directory it had fetched into.
CrashIngest(j) ==
    /\ IngestRuns(j) /\ crashes < MaxCrashes /\ crashes' = crashes + 1
    /\ RunTo(j, [Begun(ingest[j].local, ingest[j].alone) EXCEPT
                    !.left = IF ingest[j].local \/ ingest[j].stage = "download"
                             THEN ingest[j].left ELSE ingest[j].seen])
    /\ UNCHANGED <<ingestRows, tree, pushes, crossed, vanished, result>>

IngestNext ==
    \/ Push
    \/ \E j \in Ingests :
          \/ \E local \in BOOLEAN : StartRepoIngest(j, local)
          \/ ListTree(j) \/ FetchGithubRepo(j) \/ WalkRepo(j)
          \/ UpsertIngestDocument(j) \/ SaveVerbatim(j)
          \/ BeginSummaries(j) \/ AskForSummary(j) \/ WriteSummary(j)
          \/ ListIngested(j) \/ MarkIngestDocumentDeprecated(j)
          \/ CompleteIngest(j) \/ FailIngest(j) \/ CrashIngest(j)

IngestSpec == IngestInit /\ [][IngestNext]_ingestVars

-----------------------------------------------------------------------------
(***************************************************************************)
(* Properties.                                                             *)
(***************************************************************************)

\* After a run that had the project to itself and could read all files, each document
\* of the repository is one of the project and says what its file says, of files with
\* the same slug the last one, whatever runs before left half done; and documents of no
\* file are deprecated, those apart whose deprecation failed in that very run
\* (runner.ts:33-44, 391-409).
ImportIsExact ==
    result # Nothing =>
        /\ \A s \in Slugs :
              LET F == {f \in Paths(result.seen) \cap Markdown : SlugOf[f] = s} IN
              F # {} => /\ imported[s] # Nothing
                        /\ imported[s].source = Max(F)
                        /\ imported[s].body = result.seen[Max(F)]
        /\ \A s \in Slugs :
              imported[s] # Nothing /\ result.seen[imported[s].source] = Nothing =>
                  imported[s].deprecated \/ s \in result.spared

\* A document is deprecated only when a file of its slug did go away: files that cannot be
\* read, runs that fail, overlap or are repeated do not count as removals (documents.ts:
\* 747-771).
DeprecatedHasVanished ==
    \A s \in Slugs :
        imported[s] # Nothing /\ imported[s].deprecated => \E f \in vanished : SlugOf[f] = s

\* A summary that is kept is of the file whose sha it is kept with, over failed runs,
\* crashes and changes of the repository, as long as runs do not overlap (runner.ts:
\* 157-195).
SummaryIsOfItsFile ==
    ~crossed => \A f \in Files \ Markdown : repoFile[f] # Nothing =>
        repoFile[f].summary \in {repoFile[f].sha, Failed, Nothing}

\* What a project holds of a repository.
ImportHolds ==
    /\ IngestTypeOK
    /\ ImportIsExact
    /\ DeprecatedHasVanished
    /\ SummaryIsOfItsFile
=============================================================================
