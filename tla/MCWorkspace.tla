----------------------------- MODULE MCWorkspace -----------------------------
(***************************************************************************)
(* The documents of a workspace as they are edited, ordered, shown, found, *)
(* compared and given out, with the page of a job and the keys of a page,  *)
(* each part with model values of its own. The parts share no variable, so *)
(* one of them moves in a behaviour and the others stay as they start: the *)
(* run has the sum of their states and not the product. Three documents    *)
(* refer to one another in a ring; in the web of four, one depends on two, *)
(* and these and the fourth on one another. The words of one query find    *)
(* the documents in one order and its meaning in another. Among the edges  *)
(* of an architecture one is there twice and one is a loop.                *)
(***************************************************************************)
EXTENDS DocumentBody, CommentAnchors, DocumentTree, TreeCache, Backplane,
        SearchIndex, SearchPage, AgentExport, ContextAssembly, JobWatch,
        KeyboardShortcuts, ArchitecturePlan, VersionDiff

CONSTANTS
    d1, d2, d3, d4,     \* documents
    q1, q2,             \* queries
    n1, n2, n3          \* nodes of an architecture

Web == {<<d1, d2>>, <<d1, d3>>, <<d2, d4>>, <<d3, d4>>, <<d4, d2>>, <<d4, d3>>}
Ring == {<<d1, d2>>, <<d2, d3>>, <<d3, d1>>}
Found == <<d3, d2>>
WordsFind == [q \in Queries |-> IF q = q1 THEN <<d1, d2, d3>> ELSE <<d2>>]
ChunksFind == [q \in Queries |-> IF q = q1 THEN <<d3, d3, d2>> ELSE <<d1, d2, d1>>]
SomeEdges == <<<<n1, n2>>, <<n2, n3>>, <<n1, n2>>, <<n3, n3>>>>

VARIABLE scene      \* the component that moves

WorkspaceInit ==
    /\ scene \in {"body", "anchors", "tree", "cache", "replicas", "index",
                  "search", "export", "context", "watch", "keys", "plan",
                  "diff"}
    /\ BodyInit /\ AnchorInit /\ TreeInit /\ TreeCacheInit /\ BackplaneInit
    /\ queued = TRUE
    /\ SearchIndexInit /\ SearchInit
    /\ scene # "export" =>
           binder = [there |-> Sheets, read |-> {}, named |-> {}, deps |-> {},
                     status |-> [d \in Sheets |-> "DRAFT"], stored |-> [d \in Sheets |-> NoStatus]]
    /\ ExportInit
    /\ scene = "export" =>
           binder.read = Sheets /\ Cardinality(binder.named) = 2 /\ Cardinality(binder.deps) >= 5
    /\ scene # "context" =>
           papers = [there |-> Papers, bulk |-> [d \in Papers |-> 1], deps |-> {}, mine |-> Papers,
                     notes |-> MaxNotes]
    /\ ContextInit
    /\ scene = "context" => {<<d1, d2>>, <<d2, d3>>} \subseteq papers.deps
    /\ scene # "watch" => flow = "wizard"
    /\ WatchInit
    /\ scene # "keys" => place = "spec"
    /\ KeyInit
    /\ scene # "plan" => given = <<>>
    /\ PlanInit
    /\ scene # "diff" => compared = [a |-> <<>>, b |-> <<>>]
    /\ DiffInit
    /\ Len(compared.a) + Len(compared.b) <= 5

WorkspaceNext ==
    \/ /\ scene = "body" /\ BodyNext
       /\ UNCHANGED <<scene, anchorVars, treeVars, cacheVars, planeVars,
                      indexVars, searchVars, exportVars, contextVars,
                      watchVars, keyVars, planVars, diffVars>>
    \/ /\ scene = "anchors" /\ AnchorNext
       /\ UNCHANGED <<scene, bodyVars, treeVars, cacheVars, planeVars,
                      indexVars, searchVars, exportVars, contextVars,
                      watchVars, keyVars, planVars, diffVars>>
    \/ /\ scene = "tree" /\ TreeNext
       /\ UNCHANGED <<scene, bodyVars, anchorVars, cacheVars, planeVars,
                      indexVars, searchVars, exportVars, contextVars,
                      watchVars, keyVars, planVars, diffVars>>
    \/ /\ scene = "cache" /\ TreeCacheNext
       /\ UNCHANGED <<scene, bodyVars, anchorVars, treeVars, planeVars,
                      indexVars, searchVars, exportVars, contextVars,
                      watchVars, keyVars, planVars, diffVars>>
    \/ /\ scene = "replicas" /\ BackplaneNext
       /\ UNCHANGED <<scene, bodyVars, anchorVars, treeVars, cacheVars,
                      indexVars, searchVars, exportVars, contextVars,
                      watchVars, keyVars, planVars, diffVars>>
    \/ /\ scene = "index" /\ SearchIndexNext
       /\ UNCHANGED <<scene, bodyVars, anchorVars, treeVars, cacheVars,
                      planeVars, searchVars, exportVars, contextVars,
                      watchVars, keyVars, planVars, diffVars>>
    \/ /\ scene = "search" /\ SearchNext
       /\ UNCHANGED <<scene, bodyVars, anchorVars, treeVars, cacheVars,
                      planeVars, indexVars, exportVars, contextVars,
                      watchVars, keyVars, planVars, diffVars>>
    \/ /\ scene = "export" /\ ExportNext
       /\ UNCHANGED <<scene, bodyVars, anchorVars, treeVars, cacheVars,
                      planeVars, indexVars, searchVars, contextVars,
                      watchVars, keyVars, planVars, diffVars>>
    \/ /\ scene = "context" /\ ContextNext
       /\ UNCHANGED <<scene, bodyVars, anchorVars, treeVars, cacheVars,
                      planeVars, indexVars, searchVars, exportVars,
                      watchVars, keyVars, planVars, diffVars>>
    \/ /\ scene = "watch" /\ WatchNext
       /\ UNCHANGED <<scene, bodyVars, anchorVars, treeVars, cacheVars,
                      planeVars, indexVars, searchVars, exportVars,
                      contextVars, keyVars, planVars, diffVars>>
    \/ /\ scene = "keys" /\ KeyNext
       /\ UNCHANGED <<scene, bodyVars, anchorVars, treeVars, cacheVars,
                      planeVars, indexVars, searchVars, exportVars,
                      contextVars, watchVars, planVars, diffVars>>
    \/ /\ scene = "plan" /\ PlanNext
       /\ UNCHANGED <<scene, bodyVars, anchorVars, treeVars, cacheVars,
                      planeVars, indexVars, searchVars, exportVars,
                      contextVars, watchVars, keyVars, diffVars>>
    \/ /\ scene = "diff" /\ DiffNext
       /\ UNCHANGED <<scene, bodyVars, anchorVars, treeVars, cacheVars,
                      planeVars, indexVars, searchVars, exportVars,
                      contextVars, watchVars, keyVars, planVars>>

workspaceVars == <<scene, bodyVars, anchorVars, treeVars, cacheVars,
    planeVars, indexVars, searchVars, exportVars, contextVars, watchVars,
    keyVars, planVars, diffVars>>

WorkspaceSpec == WorkspaceInit /\ [][WorkspaceNext]_workspaceVars

-----------------------------------------------------------------------------
(***************************************************************************)
(* Properties of components that answer one question together.             *)
(***************************************************************************)

\* What a page shows is what there is: a tab at rest has the last answer for what was
\* done in it, and the page of a job shows the job it watches, is quiet when that is
\* over and finds it again when it is loaded anew.
ShownIsCurrent ==
    /\ TreeCacheTypeOK /\ TabAtRestIsCurrent
    /\ WatchTypeOK /\ ShownIsWatched /\ QuietWhenOver /\ RefreshFindsJob

\* What is found is what there is: the index follows the text through everything that
\* goes wrong before its last save, and a search at rest shows the answer to its own
\* query, of readable documents, those first that words and meaning both find.
FoundIsCurrent ==
    /\ SearchIndexTypeOK /\ IndexIsCurrent
    /\ SearchTypeOK /\ SettledShowsItsAnswer /\ HitsWereReadable /\ AgreedComeFirst

\* What an agent or a model is given is whole: a bundle is closed under the links it
\* shows and reads downwards, graphs show distances, and a context fits its budget,
\* leaves out only what did not fit and has its neighbours nearest first.
GivenOutIsWhole ==
    /\ ExportTypeOK /\ BundleIsClosed /\ BundleReadsDown /\ GraphsShowDistances
    /\ ContextTypeOK /\ ContextFits /\ LeftOutDidNotFit /\ NeighboursByDistance

\* What is computed from data meets its definition: a plan makes each node once and
\* parents first, and a comparison of versions shows either one of them in full, with
\* what was removed where it stood.
DerivedIsExact ==
    /\ EachOnce /\ ParentsFirst
    /\ DiffTellsBoth /\ RemovedStandWhereTheyStood
=============================================================================
