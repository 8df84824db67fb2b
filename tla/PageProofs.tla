----------------------------- MODULE PageProofs -----------------------------
(***************************************************************************)
(* Proofs about what the pages of a workspace show and find.               *)
(*                                                                         *)
(* TreeCache, for any entries, values and mutations: a tab at rest has the *)
(* tree the server has, but for what others changed since it was read.     *)
(*                                                                         *)
(* JobWatch, for any number of jobs, polls and effects: the page shows the *)
(* job it watches, is quiet when that is over and finds it when it is      *)
(* loaded anew.                                                            *)
(*                                                                         *)
(* SearchIndex, for any blocks, phrases and number of runs of the pipeline *)
(* at a time: at rest, with nothing in the way of the last save, the index *)
(* has the hashes of the text.                                             *)
(*                                                                         *)
(* SearchPage, for any documents, queries and orders in which a query      *)
(* finds documents, and all limits and dampings that keep a document found *)
(* by both legs above one found by one: a settled search shows the answer  *)
(* to itself, of documents that could be read, those both legs found first.*)
(*                                                                         *)
(* The run checks the four together, as two invariants of MCWorkspace, and *)
(* as two others what GivenOutProofs is about; the last section carries    *)
(* the theorems over to its specification.                                 *)
(***************************************************************************)
EXTENDS MCWorkspace, GivenOutProofs, FiniteSetTheorems, FunctionTheorems, TLAPS

-----------------------------------------------------------------------------
(***************************************************************************)
(* TreeCache.                                                              *)
(***************************************************************************)

Change == [stage : {"sent", "done", "failed"}, of : Entries,
           to : Values \cup {NoEntry}, prev : Tree]

\* An answer on its way has what the server has, but for what others changed since it was
\* read, or a mutation has been carried out that will have the list fetched again.
AnswerIsTrue ==
    fetch.stage = "answered" =>
        \/ \A e \in Entries \ coming : fetch.tree[e] = truth[e]
        \/ \E t \in Tickets : mutation[t].stage = "done"

\* The inductive invariant.
TreeCacheInv ==
    /\ TreeCacheTypeOK /\ mutation \in [Tickets -> {NoMutation} \cup Change]
    /\ AnswerIsTrue
    /\ TabAtRestIsCurrent

LEMMA TreeCacheStarts == TreeCacheInit => TreeCacheInv
<1> SUFFICES ASSUME TreeCacheInit PROVE TreeCacheInv
  OBVIOUS
<1>1. TreeCacheTypeOK
  BY TreeCacheAssumption DEF TreeCacheInit, TreeCacheTypeOK, Tree
<1>2. QED
  BY <1>1 DEF TreeCacheInit, TreeCacheInv, AnswerIsTrue, TabAtRestIsCurrent, NotFetching

\* A change of the list at the tab, or at the server, keeps it a list.
LEMMA TreeChanged ==
    ASSUME NEW f \in Tree, NEW e \in Entries, NEW w \in Values \cup {NoEntry}
    PROVE  [f EXCEPT ![e] = w] \in Tree
  BY DEF Tree

LEMMA TreeCacheSteps == TreeCacheInv /\ [TreeCacheNext]_cacheVars => TreeCacheInv'
<1> SUFFICES ASSUME TreeCacheInv, [TreeCacheNext]_cacheVars PROVE TreeCacheInv'
  OBVIOUS
<1> USE DEF TreeCacheInv
<1>c. ASSUME Count PROVE mutations' \in 0..MaxMutations
  BY <1>c, TreeCacheAssumption DEF Count, TreeCacheTypeOK
<1>m. \A s \in Tickets : mutation[s] = NoMutation \/ mutation[s] \in Change
  BY DEF TreeCacheTypeOK
<1>1. ASSUME NEW t \in Tickets, NEW e \in Entries, NEW v \in Values \cup {NoEntry},
             OnMutate(t, e, v)
      PROVE  TreeCacheInv'
  <2>1. cache' \in Tree
    BY <1>1, TreeChanged DEF OnMutate, TreeCacheTypeOK
  <2>2. [stage |-> "sent", of |-> e, to |-> v, prev |-> cache] \in Change
    BY DEF Change, TreeCacheTypeOK
  <2>3. mutation' \in [Tickets -> {NoMutation} \cup Change] /\ mutation'[t] \in Change
    BY <1>1, <2>2 DEF OnMutate
  <2>4. TreeCacheTypeOK'
    BY <1>1, <1>c, <2>1, <2>3 DEF OnMutate, TreeCacheTypeOK, Change
  <2>5. mutation'[t] # NoMutation
    BY <2>3 DEF NoMutation, Change
  <2>6. QED
    BY <1>1, <2>3, <2>4, <2>5 DEF OnMutate, AnswerIsTrue, TabAtRestIsCurrent, NotFetching
<1>2. ASSUME NEW t \in Tickets, Serve(t) PROVE TreeCacheInv'
  <2>1. mutation[t] \in Change /\ mutation[t].stage = "sent"
    BY <1>2, <1>m DEF Serve, NoMutation
  <2>2. ASSUME NEW s \in {"done", "failed"}, mutation' = [mutation EXCEPT ![t].stage = s]
        PROVE  /\ mutation' \in [Tickets -> {NoMutation} \cup Change] /\ mutation'[t] \in Change
               /\ mutation'[t].stage = s /\ \A x \in Tickets \ {t} : mutation'[x] = mutation[x]
    <3> DEFINE m == [mutation[t] EXCEPT !.stage = s]
    <3>1. m \in Change /\ m.stage = s
      BY <2>1 DEF Change
    <3>2. mutation' = [mutation EXCEPT ![t] = m]
      BY <2>2
    <3> HIDE DEF m
    <3>3. QED
      BY <3>1, <3>2
  <2>3. truth' \in Tree
    BY <1>2, <2>1, TreeChanged DEF Serve, TreeCacheTypeOK, Change
  <2>4. PICK s \in {"done", "failed"} :
           mutation' = [mutation EXCEPT ![t].stage = s] /\ (s = "failed" => truth' = truth)
    BY <1>2 DEF Serve
  <2>5. TreeCacheTypeOK'
    BY <1>2, <2>2, <2>3, <2>4 DEF Serve, TreeCacheTypeOK, Change
  <2>6. AnswerIsTrue'
    BY <1>2, <2>1, <2>2, <2>4 DEF Serve, AnswerIsTrue
  <2>7. mutation'[t] # NoMutation
    BY <2>2, <2>4 DEF NoMutation, Change
  <2>8. QED
    BY <2>2, <2>4, <2>5, <2>6, <2>7 DEF TabAtRestIsCurrent
<1>3. ASSUME NEW t \in Tickets, Settle(t) PROVE TreeCacheInv'
  <2>1. mutation[t] \in Change
    BY <1>3, <1>m DEF Settle, NoMutation
  <2>2. cache' \in Tree
    BY <1>3, <2>1 DEF Settle, TreeCacheTypeOK, Change
  <2>3. mutation' \in [Tickets -> {NoMutation} \cup Change]
    BY <1>3 DEF Settle
  <2>4. TreeCacheTypeOK'
    BY <1>3, <2>2, <2>3 DEF Settle, TreeCacheTypeOK, Change
  <2>5. QED
    BY <1>3, <2>3, <2>4 DEF Settle, AnswerIsTrue, TabAtRestIsCurrent, NotFetching
<1>4. ASSUME NEW e \in Entries, NEW v \in Values \cup {NoEntry}, Elsewhere(e, v)
      PROVE  TreeCacheInv'
  <2>1. truth' \in Tree /\ \A d \in Entries \ {e} : truth'[d] = truth[d]
    BY <1>4, TreeChanged DEF Elsewhere, TreeCacheTypeOK, Tree
  <2>2. TreeCacheTypeOK'
    BY <1>4, <1>c, <2>1 DEF Elsewhere, TreeCacheTypeOK
  <2>3. QED
    BY <1>4, <2>1, <2>2 DEF Elsewhere, AnswerIsTrue, TabAtRestIsCurrent
<1>5. CASE Revisit
  BY <1>5 DEF Revisit, TreeCacheTypeOK, AnswerIsTrue, TabAtRestIsCurrent, NotFetching
<1>6. CASE AnswerFetch
  <2>1. fetch'.stage = "answered" /\ fetch'.tree = truth /\ fetch' # NotFetching
    BY <1>6 DEF AnswerFetch, NotFetching
  <2>2. fetch' \in [stage : {"answered"}, tree : Tree]
    BY <1>6 DEF AnswerFetch, TreeCacheTypeOK
  <2>3. QED
    BY <1>6, <2>1, <2>2 DEF AnswerFetch, TreeCacheTypeOK, AnswerIsTrue, TabAtRestIsCurrent
<1>7. CASE ShowTree
  <2>1. fetch.tree \in Tree
    BY <1>7 DEF ShowTree, TreeCacheTypeOK, NotFetching
  <2>2. TreeCacheTypeOK'
    BY <1>7, <2>1 DEF ShowTree, TreeCacheTypeOK
  <2>3. TabAtRestIsCurrent'
    BY <1>7 DEF ShowTree, AnswerIsTrue, TabAtRestIsCurrent, NoMutation
  <2>4. QED
    BY <1>7, <2>2, <2>3 DEF ShowTree, AnswerIsTrue, NotFetching
<1>8. CASE UNCHANGED cacheVars
  BY <1>8 DEF cacheVars, TreeCacheTypeOK, AnswerIsTrue, TabAtRestIsCurrent
<1>9. QED
  BY <1>1, <1>2, <1>3, <1>4, <1>5, <1>6, <1>7, <1>8 DEF TreeCacheNext

\* For any documents, mutations and changes by others: a tab at rest shows what the server
\* has of every document that others have not changed since it last asked.
THEOREM TabsAtRestAreCurrent == TreeCacheSpec => [](TreeCacheTypeOK /\ TabAtRestIsCurrent)
<1>1. TreeCacheInv => TreeCacheTypeOK /\ TabAtRestIsCurrent
  BY DEF TreeCacheInv
<1>2. QED
  BY <1>1, TreeCacheStarts, TreeCacheSteps, PTL DEF TreeCacheSpec

-----------------------------------------------------------------------------
(***************************************************************************)
(* JobWatch.                                                               *)
(***************************************************************************)

Watches == [job : JobIds \cup {NoJob}, of : JobIds \cup {NoJob}, shown : Status,
            polling : BOOLEAN, stopped : BOOLEAN, effect : 0..MaxEffects]
Looks == [effect : 0..MaxEffects, job : JobIds, says : Status]

\* A job that is known to the tab was made.
KnownWereMade ==
    /\ \A j \in posts : jobs[j] # "none"
    /\ kept # NoJob => jobs[kept] # "none"
    /\ watch.job # NoJob => jobs[watch.job] # "none"

\* One start at a time, unless two were made; who has not begun to watch has seen nothing.
OneStart ==
    ~doubled =>
        /\ \A i, j \in posts : i = j
        /\ starting <= 1 /\ (starting = 1 => posts = {})
        /\ watch.job = NoJob => watch.shown = "none"

\* A poll of the effect at work is one of the job at work; what it says of an end is true,
\* unless the job was resumed.
PollsAreTrue ==
    \A p \in polls :
        /\ p.effect = watch.effect => p.job = watch.job /\ watch.polling
        /\ (p.says \in Final /\ p.job \notin revived) => jobs[p.job] = p.says

\* The inductive invariant.
JobWatchInv ==
    /\ WatchTypeOK /\ watch \in Watches /\ polls \subseteq Looks
    /\ KnownWereMade /\ OneStart /\ PollsAreTrue
    /\ ShownIsWatched /\ QuietWhenOver /\ RefreshFindsJob

LEMMA JobWatchStarts == WatchInit => JobWatchInv
<1> SUFFICES ASSUME WatchInit PROVE JobWatchInv
  OBVIOUS
<1>1. watch \in Watches
  BY WatchAssumption DEF WatchInit, NotWatching, Watches, Status
<1>a. watch.job = NoJob /\ watch.polling = FALSE /\ watch.shown = "none"
  BY DEF WatchInit, NotWatching
<1>2. WatchTypeOK
  <2>1. flow \in {"wizard", "ingest"} /\ starting \in 0..MaxJobs /\ posts \subseteq JobIds
        /\ kept \in JobIds \cup {NoJob}
    BY WatchAssumption DEF WatchInit
  <2>2. jobs \in [JobIds -> Status]
    BY DEF WatchInit, Status
  <2>3. /\ watch.job \in JobIds \cup {NoJob} /\ watch.of \in JobIds \cup {NoJob}
        /\ watch.shown \in Status /\ watch.effect \in 0..MaxEffects
    BY <1>1 DEF Watches
  <2>4. resumes \subseteq JobIds /\ revived \subseteq JobIds /\ doubled \in BOOLEAN
    BY DEF WatchInit
  <2>5. \A p \in polls : p.effect <= watch.effect /\ jobs[p.job] # "none"
    BY DEF WatchInit
  <2>6. ((starting > 0 \/ posts # {}) /\ ~doubled) => watch.job = NoJob
    BY <1>a
  <2>7. QED
    BY <1>a, <2>1, <2>2, <2>3, <2>4, <2>5, <2>6 DEF WatchTypeOK
<1>3. QED
  BY <1>1, <1>2, <1>a DEF WatchInit, JobWatchInv, KnownWereMade, OneStart, PollsAreTrue,
     ShownIsWatched, QuietWhenOver, RefreshFindsJob, NoJob

\* What begins to be watched: an effect that is not the one at work is a new one.
LEMMA WatchMoves ==
    ASSUME NEW w \in Watches, watch \in Watches, w.effect = watch.effect, Watching(w)
    PROVE  /\ watch' \in Watches
           /\ watch'.job = w.job /\ watch'.of = w.of /\ watch'.shown = w.shown
           /\ watch'.polling = w.polling /\ watch'.stopped = w.stopped
           /\ watch'.effect \in {watch.effect, watch.effect + 1}
           /\ watch'.effect = watch.effect =>
                 w.job = watch.job /\ w.polling = watch.polling
<1>1. CASE <<w.job, w.polling>> = <<watch.job, watch.polling>>
  BY <1>1, WatchAssumption DEF Watching, Watches
<1>2. CASE <<w.job, w.polling>> # <<watch.job, watch.polling>>
  BY <1>2, WatchAssumption DEF Watching, Watches
<1>3. QED
  BY <1>1, <1>2

\* Polls follow the effect they were sent by.
LEMMA PollsFollow ==
    ASSUME JobWatchInv, NEW w \in Watches, w.effect = watch.effect, Watching(w),
           UNCHANGED <<jobs, revived>>, polls' \subseteq polls
    PROVE  /\ PollsAreTrue' /\ polls' \subseteq Looks
           /\ \A p \in polls' : p.effect <= watch'.effect /\ jobs'[p.job] # "none"
<1>1. watch'.effect \in {watch.effect, watch.effect + 1} /\ watch.effect \in Nat
      /\ watch'.job = w.job /\ watch'.polling = w.polling
      /\ (watch'.effect = watch.effect => w.job = watch.job /\ w.polling = watch.polling)
  BY WatchMoves DEF JobWatchInv, Watches
<1>2. \A p \in polls : p.effect \in Nat /\ p.effect <= watch.effect /\ jobs[p.job] # "none"
  BY WatchAssumption DEF JobWatchInv, WatchTypeOK, Looks
<1>3. \A p \in polls : p.effect = watch'.effect => watch'.effect = watch.effect
  BY <1>1, <1>2
<1>4. PollsAreTrue'
  BY <1>1, <1>3 DEF JobWatchInv, PollsAreTrue
<1>5. \A p \in polls' : p.effect <= watch'.effect
  BY <1>1, <1>2
<1>6. QED
  BY <1>2, <1>4, <1>5 DEF JobWatchInv
\* What all parts of the invariant say of the tab when it and its polls stay as they are, and
\* only what jobs there are, and how they stand, may change: a job once made stays made, and
\* one that has ended stays as it ended unless it is resumed.
LEMMA TabStays ==
    ASSUME JobWatchInv, UNCHANGED <<flow, kept, watch, polls, doubled>>,
           jobs' \in [JobIds -> Status], revived' \subseteq JobIds, revived \subseteq revived',
           resumes' \subseteq JobIds, posts' \subseteq JobIds, starting' \in 0..MaxJobs,
           \A j \in JobIds : jobs[j] # "none" => jobs'[j] # "none",
           \A j \in JobIds : (jobs[j] \in Final /\ j \notin revived') => jobs'[j] = jobs[j],
           \A j \in JobIds : (jobs'[j] = "running" /\ j \notin revived' /\ jobs[j] # "none")
                                => jobs[j] = "running",
           \A j \in posts' : jobs'[j] # "none",
           OneStart',
           (~doubled /\ (starting' > 0 \/ posts' # {})) => watch.job = NoJob
    PROVE  JobWatchInv'
<1> USE DEF JobWatchInv
<1>1. \A p \in polls : p.job \in JobIds
  BY DEF Looks
<1>2. watch.job \in JobIds \cup {NoJob} /\ kept \in JobIds \cup {NoJob}
  BY DEF WatchTypeOK
<1>3. WatchTypeOK'
  BY <1>1 DEF WatchTypeOK
<1>4. KnownWereMade'
  BY <1>2 DEF KnownWereMade
<1>5. PollsAreTrue'
  <2> SUFFICES ASSUME NEW p \in polls
               PROVE  /\ p.effect = watch.effect => p.job = watch.job /\ watch.polling
                      /\ (p.says \in Final /\ p.job \notin revived') => jobs'[p.job] = p.says
    BY DEF PollsAreTrue
  <2>1. p.effect = watch.effect => p.job = watch.job /\ watch.polling
    BY DEF PollsAreTrue
  <2>2. ASSUME p.says \in Final, p.job \notin revived' PROVE jobs'[p.job] = p.says
    <3>1. jobs[p.job] = p.says
      BY <2>2 DEF PollsAreTrue
    <3>2. QED
      BY <1>1, <2>2, <3>1
  <2>3. QED
    BY <2>1, <2>2
<1>6. QuietWhenOver'
  <2> SUFFICES ASSUME watch.job # NoJob, ~watch.polling, ~watch.stopped
               PROVE  /\ watch.shown \in Final
                      /\ (~doubled /\ watch.job \notin revived') => jobs'[watch.job] = watch.shown
    BY DEF QuietWhenOver
  <2>1. watch.shown \in Final
        /\ ((~doubled /\ watch.job \notin revived) => jobs[watch.job] = watch.shown)
    BY DEF QuietWhenOver
  <2>2. QED
    BY <1>2, <2>1
<1>7. RefreshFindsJob'
  BY <1>2 DEF RefreshFindsJob, KnownWereMade
<1>8. ShownIsWatched'
  BY DEF ShownIsWatched
<1>9. QED
  BY <1>3, <1>4, <1>5, <1>6, <1>7, <1>8

LEMMA StartSteps == ASSUME JobWatchInv, Start PROVE JobWatchInv'
<1> USE DEF JobWatchInv
<1>1. starting' \in 0..MaxJobs
  <2>1. IsFiniteSet(JobIds)
    BY FS_Interval, WatchAssumption DEF JobIds
  <2>2. Cardinality({j \in JobIds : jobs[j] # "none"}) \in Nat
    BY <2>1, FS_Subset, FS_CardinalityType
  <2>3. starting \in Nat
    BY WatchAssumption DEF WatchTypeOK
  <2>4. QED
    BY <2>2, <2>3, WatchAssumption DEF Start
<1>2. watch.job = NoJob
  BY DEF Start, WizardForm, SourceForm
<1>3. doubled' \in BOOLEAN /\ (~doubled' => ~doubled /\ ~(starting > 0) /\ posts = {})
  BY DEF Start, WatchTypeOK
<1>4. OneStart'
  <2>1. starting \in Nat
    BY WatchAssumption DEF WatchTypeOK
  <2>2. ~(starting > 0) => starting' = 1
    BY <2>1 DEF Start
  <2>3. QED
    BY <1>3, <2>2 DEF Start, OneStart
<1>5. WatchTypeOK'
  BY <1>1, <1>2, <1>3 DEF Start, WatchTypeOK
<1>6. ShownIsWatched' /\ QuietWhenOver' /\ RefreshFindsJob'
  BY <1>2, <1>3 DEF Start, ShownIsWatched, QuietWhenOver, RefreshFindsJob
<1>7. QED
  BY <1>4, <1>5, <1>6 DEF Start, KnownWereMade, PollsAreTrue

LEMMA StartIsServed ==
    ASSUME JobWatchInv,
           PostRefused \/ \E j \in JobIds : PostStart(j) \/ StartFails(j) \/ FinishJob(j)
                                                \/ ResumeArchitectureGeneration(j)
    PROVE  JobWatchInv'
<1> USE DEF JobWatchInv
<1>0. /\ starting \in Nat /\ jobs \in [JobIds -> Status] /\ posts \subseteq JobIds
      /\ revived \subseteq JobIds /\ resumes \subseteq JobIds /\ starting \in 0..MaxJobs
  BY WatchAssumption DEF WatchTypeOK
<1>s. "running" \in Status /\ Final \subseteq Status /\ "running" \notin Final
      /\ "none" \notin Final
  BY DEF Status, Final
<1>1. CASE PostRefused
  <2>1. starting' = starting - 1 /\ starting > 0 /\ starting' \in 0..MaxJobs
        /\ (starting <= 1 => starting' <= 1 /\ starting' # 1)
    BY <1>0, <1>1, WatchAssumption DEF PostRefused
  <2>2. OneStart'
    BY <1>1, <2>1 DEF PostRefused, OneStart
  <2>3. QED
    BY <1>0, <1>1, <2>1, <2>2, TabStays DEF PostRefused, WatchTypeOK, KnownWereMade
<1>2. ASSUME NEW j \in JobIds, PostStart(j) PROVE JobWatchInv'
  <2>1. starting' = starting - 1 /\ starting > 0 /\ starting' \in 0..MaxJobs
        /\ (starting <= 1 => starting' <= 1 /\ starting' # 1 /\ starting = 1)
    BY <1>0, <1>2, WatchAssumption DEF PostStart
  <2>2. OneStart'
    BY <1>2, <2>1 DEF PostStart, OneStart
  <2>3. jobs' \in [JobIds -> Status] /\ jobs'[j] = "running" /\ jobs[j] = "none"
        /\ \A i \in JobIds \ {j} : jobs'[i] = jobs[i]
    BY <1>0, <1>2, <1>s DEF PostStart
  <2>4. posts' \subseteq JobIds /\ \A i \in posts' : jobs'[i] # "none"
    BY <1>0, <1>2, <2>3 DEF PostStart, KnownWereMade
  <2>5. ~doubled => watch.job = NoJob
    BY <2>1 DEF WatchTypeOK
  <2>6. QED
    BY <1>0, <1>2, <1>s, <2>1, <2>2, <2>3, <2>4, <2>5, TabStays DEF PostStart
<1>3. ASSUME NEW j \in JobIds, StartFails(j) PROVE JobWatchInv'
  <2>1. OneStart'
    BY <1>3 DEF StartFails, OneStart
  <2>2. QED
    BY <1>0, <1>3, <2>1, TabStays DEF StartFails, WatchTypeOK, KnownWereMade
<1>4. ASSUME NEW j \in JobIds, FinishJob(j) PROVE JobWatchInv'
  <2>1. OneStart'
    BY <1>4 DEF FinishJob, OneStart
  <2>2. /\ jobs' \in [JobIds -> Status] /\ jobs'[j] \in Final /\ jobs[j] = "running"
        /\ \A i \in JobIds \ {j} : jobs'[i] = jobs[i]
    BY <1>0, <1>4, <1>s DEF FinishJob
  <2>3. \A i \in posts : jobs'[i] # "none"
    BY <1>0, <1>s, <2>2 DEF KnownWereMade
  <2>4. (~doubled /\ (starting > 0 \/ posts # {})) => watch.job = NoJob
    BY DEF WatchTypeOK
  <2>5. QED
    BY <1>0, <1>4, <1>s, <2>1, <2>2, <2>3, <2>4, TabStays DEF FinishJob
<1>5. ASSUME NEW j \in JobIds, ResumeArchitectureGeneration(j) PROVE JobWatchInv'
  <2>1. OneStart'
    BY <1>5 DEF ResumeArchitectureGeneration, OneStart
  <2>2. (~doubled /\ (starting > 0 \/ posts # {})) => watch.job = NoJob
    BY DEF WatchTypeOK
  <2>3. \A i \in posts : jobs[i] # "none"
    BY DEF KnownWereMade
  <2>4. CASE jobs[j] = "failed"
    <3>1. /\ jobs' \in [JobIds -> Status] /\ jobs'[j] = "running"
          /\ \A i \in JobIds \ {j} : jobs'[i] = jobs[i]
          /\ revived' = revived \cup {j}
      BY <1>0, <1>5, <1>s, <2>4 DEF ResumeArchitectureGeneration
    <3>2. \A i \in posts : jobs'[i] # "none"
      BY <1>0, <2>3, <3>1
    <3>3. resumes' \subseteq JobIds /\ revived' \subseteq JobIds /\ revived \subseteq revived'
      BY <1>0, <1>5, <3>1 DEF ResumeArchitectureGeneration
    <3>4. UNCHANGED <<flow, kept, watch, polls, doubled, posts, starting>>
      BY <1>5 DEF ResumeArchitectureGeneration
    <3>5. QED
      BY <1>0, <1>s, <2>1, <2>2, <3>1, <3>2, <3>3, <3>4, TabStays
  <2>5. CASE jobs[j] # "failed"
    BY <1>0, <1>5, <2>1, <2>2, <2>3, <2>5, TabStays DEF ResumeArchitectureGeneration
  <2>6. QED
    BY <2>4, <2>5
<1>6. QED
  BY <1>1, <1>2, <1>3, <1>4, <1>5

LEMMA PollSteps == ASSUME JobWatchInv, Poll PROVE JobWatchInv'
<1> USE DEF JobWatchInv
<1> DEFINE q == [effect |-> watch.effect, job |-> watch.job, says |-> jobs[watch.job]]
<1>1. watch.job \in JobIds /\ watch.effect \in 0..MaxEffects /\ jobs[watch.job] \in Status
      /\ jobs[watch.job] # "none" /\ watch.polling
  BY DEF Poll, WatchTypeOK, KnownWereMade
<1>2. q \in Looks /\ q.effect = watch.effect /\ q.job = watch.job /\ q.says = jobs[watch.job]
  BY <1>1 DEF Looks
<1>3. polls' = polls \cup {q}
  BY DEF Poll
<1> HIDE DEF q
<1>4. watch.effect <= watch.effect
  BY <1>1, WatchAssumption
<1>5. WatchTypeOK'
  BY <1>1, <1>2, <1>3, <1>4 DEF Poll, WatchTypeOK
<1>6. PollsAreTrue'
  BY <1>1, <1>2, <1>3 DEF Poll, PollsAreTrue
<1>7. polls' \subseteq Looks
  BY <1>2, <1>3
<1>8. QED
  BY <1>5, <1>6, <1>7 DEF Poll, KnownWereMade, OneStart, ShownIsWatched, QuietWhenOver,
     RefreshFindsJob

LEMMA AnswerSteps == ASSUME JobWatchInv, NEW j \in JobIds, StartAnswered(j) PROVE JobWatchInv'
<1> USE DEF JobWatchInv
<1> DEFINE w == [watch EXCEPT !.job = j, !.polling = TRUE, !.stopped = FALSE]
<1>1. w \in Watches /\ w.effect = watch.effect /\ w.job = j /\ w.polling /\ ~w.stopped
      /\ w.of = watch.of /\ w.shown = watch.shown
  BY DEF Watches
<1>2. Watching(w)
  BY DEF StartAnswered
<1> HIDE DEF w
<1>3. /\ watch' \in Watches /\ watch'.job = j /\ watch'.of = watch.of
      /\ watch'.shown = watch.shown /\ watch'.polling
  BY <1>1, <1>2, WatchMoves
<1>4. PollsAreTrue' /\ polls' \subseteq Looks
      /\ \A p \in polls' : p.effect <= watch'.effect /\ jobs'[p.job] # "none"
  BY <1>1, <1>2, PollsFollow DEF StartAnswered
<1>5. j \in posts /\ jobs[j] # "none" /\ j # NoJob
  BY DEF StartAnswered, KnownWereMade, JobIds, NoJob
<1>6. ~doubled => starting = 0 /\ posts' = {} /\ watch.shown = "none"
  <2> SUFFICES ASSUME ~doubled PROVE starting = 0 /\ posts' = {} /\ watch.shown = "none"
    OBVIOUS
  <2>1. starting \in Nat /\ starting <= 1 /\ starting # 1
    BY <1>5, WatchAssumption DEF OneStart, WatchTypeOK
  <2>2. watch.job = NoJob
    BY <1>5 DEF WatchTypeOK
  <2>3. QED
    BY <1>5, <2>1, <2>2 DEF StartAnswered, OneStart
<1>7. WatchTypeOK'
  <2>1. /\ watch'.job \in JobIds \cup {NoJob} /\ watch'.of \in JobIds \cup {NoJob}
        /\ watch'.shown \in Status /\ watch'.effect \in 0..MaxEffects
    BY <1>3 DEF Watches
  <2>2. ((starting' > 0 \/ posts' # {}) /\ ~doubled') => watch'.job = NoJob
    BY <1>6 DEF StartAnswered
  <2>3. QED
    BY <1>3, <1>4, <1>5, <2>1, <2>2 DEF StartAnswered, WatchTypeOK
<1>8. OneStart'
  BY <1>3, <1>5, <1>6 DEF StartAnswered, OneStart
<1>9. ShownIsWatched' /\ QuietWhenOver' /\ RefreshFindsJob'
  BY <1>3, <1>6 DEF StartAnswered, ShownIsWatched, QuietWhenOver, RefreshFindsJob
<1>10. KnownWereMade'
  BY <1>3, <1>5 DEF StartAnswered, KnownWereMade
<1>11. QED
  BY <1>3, <1>4, <1>7, <1>8, <1>9, <1>10

LEMMA HeardSteps == ASSUME JobWatchInv, NEW p \in polls, PollAnswered(p) PROVE JobWatchInv'
<1> USE DEF JobWatchInv
<1>1. polls' \subseteq polls
  BY DEF PollAnswered
<1>2. CASE UNCHANGED <<kept, watch>>
  <2>1. WatchTypeOK'
    BY <1>1, <1>2 DEF PollAnswered, WatchTypeOK
  <2>2. PollsAreTrue'
    BY <1>1, <1>2 DEF PollAnswered, PollsAreTrue
  <2>3. QED
    BY <1>1, <1>2, <2>1, <2>2 DEF PollAnswered, KnownWereMade, OneStart, ShownIsWatched,
       QuietWhenOver, RefreshFindsJob
<1>3. CASE ~UNCHANGED <<kept, watch>>
  <2> DEFINE w == [watch EXCEPT !.of = p.job, !.shown = p.says,
                                !.polling = watch.polling /\ p.says \notin Final]
  <2>1. /\ p.effect = watch.effect /\ Watching(w)
        /\ kept' = IF p.says \in Final THEN NoJob ELSE kept
    BY <1>3 DEF PollAnswered, Heard
  <2>2. p.job = watch.job /\ watch.polling /\ p.says \in Status /\ p.job \in JobIds
    BY <2>1 DEF PollsAreTrue, Looks
  <2>3. w \in Watches /\ w.effect = watch.effect /\ w.job = watch.job /\ w.of = p.job
        /\ w.shown = p.says /\ (w.polling <=> p.says \notin Final) /\ w.stopped = watch.stopped
    BY <2>2 DEF Watches
  <2> HIDE DEF w
  <2>4. /\ watch' \in Watches /\ watch'.job = watch.job /\ watch'.of = watch.job
        /\ watch'.shown = p.says /\ (watch'.polling <=> p.says \notin Final)
        /\ watch'.stopped = watch.stopped
    BY <2>1, <2>2, <2>3, WatchMoves
  <2>5. PollsAreTrue' /\ polls' \subseteq Looks
        /\ \A x \in polls' : x.effect <= watch'.effect /\ jobs'[x.job] # "none"
    BY <1>1, <2>1, <2>3, PollsFollow DEF PollAnswered
  <2>6. watch.job # NoJob
    BY <2>2 DEF WatchTypeOK
  <2>7. WatchTypeOK'
    <3>1. /\ watch'.job \in JobIds \cup {NoJob} /\ watch'.of \in JobIds \cup {NoJob}
          /\ watch'.shown \in Status /\ watch'.effect \in 0..MaxEffects
      BY <2>4 DEF Watches
    <3>2. kept' \in JobIds \cup {NoJob}
      BY <2>1 DEF WatchTypeOK
    <3>3. QED
      BY <2>4, <2>5, <2>6, <3>1, <3>2 DEF PollAnswered, WatchTypeOK
  <2>8. KnownWereMade'
    BY <2>1, <2>4 DEF PollAnswered, KnownWereMade
  <2>9. OneStart'
    BY <2>4, <2>6 DEF PollAnswered, OneStart
  <2>10. ShownIsWatched'
    BY <2>4 DEF ShownIsWatched
  <2>11. (p.says \in Final /\ watch.job \notin revived) => jobs[watch.job] = p.says
    BY <2>2 DEF PollsAreTrue
  <2>12. QuietWhenOver'
    BY <2>4, <2>11 DEF PollAnswered, QuietWhenOver
  <2>13. RefreshFindsJob'
    <3>1. "running" \notin Final
      BY DEF Final
    <3>2. QED
      BY <2>1, <2>4, <2>11, <3>1 DEF PollAnswered, RefreshFindsJob
  <2>14. QED
    BY <2>4, <2>5, <2>7, <2>8, <2>9, <2>10, <2>12, <2>13
<1>4. QED
  BY <1>2, <1>3

LEMMA ButtonSteps == ASSUME JobWatchInv, Stop \/ Resume PROVE JobWatchInv'
<1> USE DEF JobWatchInv
<1> DEFINE w(b) == [watch EXCEPT !.polling = b, !.stopped = ~b]
<1>1. PICK b \in BOOLEAN : Watching(w(b)) /\ (b \/ Stop) /\ (~b \/ Resume)
  <2>1. Stop => Watching(w(FALSE))
    BY DEF Stop
  <2>2. Resume => Watching(w(TRUE))
    BY DEF Resume
  <2>3. QED
    BY <2>1, <2>2
<1>2. /\ w(b) \in Watches /\ w(b).effect = watch.effect /\ w(b).job = watch.job
      /\ w(b).of = watch.of /\ w(b).shown = watch.shown
      /\ w(b).polling = b /\ w(b).stopped = ~b
  BY DEF Watches
<1> HIDE DEF w
<1>3. /\ watch' \in Watches /\ watch'.job = watch.job /\ watch'.of = watch.of
      /\ watch'.shown = watch.shown /\ watch'.polling = b /\ watch'.stopped = ~b
  BY <1>1, <1>2, WatchMoves
<1>4. UNCHANGED <<flow, jobs, starting, posts, kept, polls, doubled, revived>>
      /\ resumes' \subseteq JobIds /\ watch.job # NoJob
  BY DEF Stop, Resume, Running, Paused, WatchTypeOK
<1>5. PollsAreTrue' /\ polls' \subseteq Looks
      /\ \A x \in polls' : x.effect <= watch'.effect /\ jobs'[x.job] # "none"
  BY <1>1, <1>2, <1>4, PollsFollow
<1>6. WatchTypeOK'
  <2>1. /\ watch'.job \in JobIds \cup {NoJob} /\ watch'.of \in JobIds \cup {NoJob}
        /\ watch'.shown \in Status /\ watch'.effect \in 0..MaxEffects
    BY <1>3 DEF Watches
  <2>2. QED
    BY <1>3, <1>4, <1>5, <2>1 DEF WatchTypeOK
<1>7. KnownWereMade' /\ OneStart' /\ ShownIsWatched' /\ RefreshFindsJob'
  BY <1>3, <1>4 DEF KnownWereMade, OneStart, ShownIsWatched, RefreshFindsJob
<1>8. QuietWhenOver'
  BY <1>3 DEF QuietWhenOver
<1>9. QED
  BY <1>3, <1>5, <1>6, <1>7, <1>8

LEMMA LeaveSteps == ASSUME JobWatchInv, Reset \/ Refresh PROVE JobWatchInv'
<1> USE DEF JobWatchInv
<1>0. kept \in JobIds \cup {NoJob} /\ watch.effect \in 0..MaxEffects
  BY DEF WatchTypeOK
<1>1. PICK j \in {kept, NoJob}, w \in Watches :
        /\ Watching(w) /\ kept' = j /\ (Reset => j = NoJob)
        /\ w.effect = watch.effect /\ w.job = j /\ w.shown = "none" /\ (w.polling <=> j # NoJob)
  <2>1. CASE Reset
    <3> DEFINE w == NotWatching(watch.effect)
    <3>1. /\ w \in Watches /\ w.effect = watch.effect /\ w.job = NoJob /\ w.shown = "none"
          /\ ~w.polling
      BY <1>0 DEF Watches, NotWatching, Status
    <3>2. Watching(w) /\ kept' = NoJob
      BY <2>1 DEF Reset
    <3> HIDE DEF w
    <3>3. QED
      BY <3>1, <3>2
  <2>2. CASE Refresh /\ ~Reset
    <3> DEFINE w == [NotWatching(watch.effect) EXCEPT !.job = kept, !.polling = kept # NoJob]
    <3>1. /\ w \in Watches /\ w.effect = watch.effect /\ w.job = kept /\ w.shown = "none"
          /\ (w.polling <=> kept # NoJob)
      BY <1>0 DEF Watches, NotWatching, Status
    <3>2. Watching(w) /\ kept' = kept
      BY <2>2 DEF Refresh
    <3> HIDE DEF w
    <3>3. QED
      BY <2>2, <3>1, <3>2
  <2>3. QED
    BY <2>1, <2>2
<1>3. /\ watch' \in Watches /\ watch'.job = j /\ watch'.shown = "none"
      /\ (watch'.polling <=> j # NoJob)
  BY <1>1, WatchMoves
<1>4. UNCHANGED <<flow, jobs, doubled, revived, resumes>> /\ polls' \subseteq polls
  BY DEF Reset, Refresh
<1>5. PollsAreTrue' /\ polls' \subseteq Looks
      /\ \A x \in polls' : x.effect <= watch'.effect /\ jobs'[x.job] # "none"
  BY <1>1, <1>4, PollsFollow
<1>6. (starting' = 0 /\ posts' = {}) \/ (UNCHANGED <<starting, posts>> /\ j = NoJob)
  BY <1>1 DEF Reset, Refresh
<1>7. WatchTypeOK'
  <2>1. /\ watch'.job \in JobIds \cup {NoJob} /\ watch'.of \in JobIds \cup {NoJob}
        /\ watch'.shown \in Status /\ watch'.effect \in 0..MaxEffects
    BY <1>3 DEF Watches
  <2>2. starting' \in 0..MaxJobs /\ posts' \subseteq JobIds
    BY <1>6, WatchAssumption DEF WatchTypeOK
  <2>3. ((starting' > 0 \/ posts' # {}) /\ ~doubled') => watch'.job = NoJob
    BY <1>3, <1>6
  <2>4. QED
    BY <1>0, <1>1, <1>3, <1>4, <1>5, <2>1, <2>2, <2>3 DEF WatchTypeOK
<1>8. OneStart'
  BY <1>3, <1>4, <1>6 DEF OneStart
<1>9. KnownWereMade'
  BY <1>1, <1>3, <1>4, <1>6 DEF KnownWereMade
<1>10. ShownIsWatched' /\ QuietWhenOver' /\ RefreshFindsJob'
  BY <1>1, <1>3 DEF ShownIsWatched, QuietWhenOver, RefreshFindsJob
<1>11. QED
  BY <1>3, <1>5, <1>7, <1>8, <1>9, <1>10

LEMMA JobWatchSteps == JobWatchInv /\ [WatchNext]_watchVars => JobWatchInv'
<1> SUFFICES ASSUME JobWatchInv, [WatchNext]_watchVars PROVE JobWatchInv'
  OBVIOUS
<1>1. CASE UNCHANGED watchVars
  BY <1>1 DEF watchVars, JobWatchInv, WatchTypeOK, KnownWereMade, OneStart, PollsAreTrue,
     ShownIsWatched, QuietWhenOver, RefreshFindsJob
<1>2. CASE WatchNext
  BY <1>2, StartSteps, StartIsServed, PollSteps, AnswerSteps, HeardSteps, ButtonSteps,
     LeaveSteps DEF WatchNext
<1>3. QED
  BY <1>1, <1>2

\* For any number of jobs, polls and effects: the page of a job shows the job it watches, is
\* quiet only when that is over or it was told to be, and finds it again when it is loaded
\* anew, but for a job that was resumed and for two that were started at once.
THEOREM JobPageIsCurrent ==
    WatchSpec => [](WatchTypeOK /\ ShownIsWatched /\ QuietWhenOver /\ RefreshFindsJob)
<1>1. JobWatchInv => WatchTypeOK /\ ShownIsWatched /\ QuietWhenOver /\ RefreshFindsJob
  BY DEF JobWatchInv
<1>2. QED
  BY <1>1, JobWatchStarts, JobWatchSteps, PTL DEF WatchSpec

-----------------------------------------------------------------------------
(***************************************************************************)
(* SearchIndex.                                                            *)
(***************************************************************************)

IndexRows ==
    [id : Nat \ {0}, block : Blocks \cup {NoBlock}, index : Nat, hash : Phrases]
Runs == [stage : {"idle", "load", "compare", "call", "write"},
         wanted : [Blocks -> Phrases \cup {NoText}], stale : SUBSET Nat, new : SUBSET Phrases,
         inQueue : BOOLEAN]

\* What a run that nothing has crossed knows is so: the text it wants is the text there is,
\* and what it found to be stale and new is that still.
RunKnows(x) ==
    /\ embed[x].stage \in {"compare", "call", "write"} => embed[x].wanted = text
    /\ embed[x].stage \in {"call", "write"} =>
          /\ embed[x].stale = {r.id : r \in {s \in indexRows : s.hash \notin Hashes(text)}}
          /\ embed[x].new = Hashes(text) \ Indexed

\* After a save that nothing has come in the way of, one run at most is under way; until a
\* run has written, no row stands at a block; and a run is under way or to come unless the
\* index is current.
Untroubled ==
    trouble = {} =>
        /\ \A x, y \in Underway : x = y
        /\ \A x \in Underway : RunKnows(x)
        /\ (\E r \in indexRows : r.block # NoBlock) => Indexed = Hashes(text)
        /\ Indexed = Hashes(text) \/ Underway # {} \/ embedJob \in {"waiting", "active"}

\* The inductive invariant.
SearchIndexInv ==
    /\ SearchIndexTypeOK
    /\ indexRows \subseteq IndexRows /\ embed \in [EmbedRuns -> Runs]
    /\ \A x \in EmbedRuns : embed[x].stage = "idle" => ~embed[x].inQueue
    /\ \A x, y \in EmbedRuns : (embed[x].inQueue /\ embed[y].inQueue) => x = y
    /\ Untroubled

LEMMA IdleIsRun == /\ EmbedIdle \in Runs /\ EmbedIdle.stage = "idle" /\ ~EmbedIdle.inQueue
  BY DEF EmbedIdle, Runs

LEMMA SearchIndexStarts == SearchIndexInit => SearchIndexInv
<1> SUFFICES ASSUME SearchIndexInit PROVE SearchIndexInv
  OBVIOUS
<1>1. embed \in [EmbedRuns -> Runs] /\ \A x \in EmbedRuns : embed[x] = EmbedIdle
  BY IdleIsRun DEF SearchIndexInit
<1>2. Underway = {} /\ \A x \in EmbedRuns : ~embed[x].inQueue /\ embed[x].stage = "idle"
  BY <1>1, IdleIsRun DEF Underway
<1>3. SearchIndexTypeOK
  BY <1>1, <1>2 DEF SearchIndexInit, SearchIndexTypeOK
<1>4. Indexed = {} /\ Hashes(text) = {}
  BY DEF SearchIndexInit, Indexed, Hashes
<1>5. QED
  BY <1>1, <1>2, <1>3, <1>4 DEF SearchIndexInit, SearchIndexInv, Untroubled

\* What a row is when its block is taken from it, or its hash is written over.
LEMMA RowChanges ==
    ASSUME NEW r \in IndexRows, NEW h \in Phrases
    PROVE  /\ Unlinked(r) \in IndexRows /\ Unlinked(r).id = r.id /\ Unlinked(r).hash = r.hash
           /\ Unlinked(r).block = NoBlock /\ Unlinked(r).index = r.index
           /\ Rehashed(r, h) \in IndexRows /\ Rehashed(r, h).id = r.id
           /\ Rehashed(r, h).hash = h /\ Rehashed(r, h).block = r.block
           /\ Rehashed(r, h).index = r.index
  BY DEF IndexRows, Unlinked, Rehashed

\* A run that has ended is the idle one, and no other has changed.
LEMMA EndedRun ==
    ASSUME embed \in [EmbedRuns -> Runs], NEW x \in EmbedRuns, EndRun(x)
    PROVE  /\ embed' \in [EmbedRuns -> Runs] /\ embed'[x] = EmbedIdle
           /\ \A y \in EmbedRuns \ {x} : embed'[y] = embed[y]
           /\ Underway' = Underway \ {x}
           /\ embedJob' = IF embed[x].inQueue THEN "kept" ELSE embedJob
<1>1. /\ embed' \in [EmbedRuns -> Runs] /\ embed'[x] = EmbedIdle
      /\ \A y \in EmbedRuns \ {x} : embed'[y] = embed[y]
  BY IdleIsRun DEF EndRun
<1>2. Underway' = Underway \ {x}
  BY <1>1, IdleIsRun DEF Underway
<1>3. QED
  BY <1>1, <1>2 DEF EndRun

\* The queue's job is active exactly while a run is in the queue, when a run of it ends.
LEMMA QueueFollows ==
    ASSUME SearchIndexInv, NEW x \in EmbedRuns, EndRun(x)
    PROVE  /\ embedJob' \in {"none", "waiting", "active", "kept"}
           /\ (embedJob' = "active") <=> \E y \in EmbedRuns : embed'[y].inQueue
           /\ \A y \in EmbedRuns : embed'[y].stage = "idle" => ~embed'[y].inQueue
           /\ \A y, z \in EmbedRuns : (embed'[y].inQueue /\ embed'[z].inQueue) => y = z
           /\ \A y \in EmbedRuns :
                 embed'[y].stage \in {"idle", "load", "compare", "call", "write"}
<1>1. /\ embed' \in [EmbedRuns -> Runs] /\ embed'[x] = EmbedIdle
      /\ \A y \in EmbedRuns \ {x} : embed'[y] = embed[y]
      /\ embedJob' = IF embed[x].inQueue THEN "kept" ELSE embedJob
  BY EndedRun DEF SearchIndexInv
<1>2. \A y, z \in EmbedRuns : (embed'[y].inQueue /\ embed'[z].inQueue) => y = z
  BY <1>1, IdleIsRun DEF SearchIndexInv
<1>3. (embedJob' = "active") <=> \E y \in EmbedRuns : embed'[y].inQueue
  <2>1. CASE embed[x].inQueue
    BY <1>1, <2>1, IdleIsRun DEF SearchIndexInv
  <2>2. CASE ~embed[x].inQueue
    BY <1>1, <2>2, IdleIsRun DEF SearchIndexInv, SearchIndexTypeOK
  <2>3. QED
    BY <2>1, <2>2
<1>4. QED
  BY <1>1, <1>2, <1>3, IdleIsRun DEF SearchIndexInv, SearchIndexTypeOK, Runs

\* A change of the stage of one run leaves it where it is, and the others as they are.
LEMMA RunGoesOn ==
    ASSUME SearchIndexInv, NEW x \in EmbedRuns, NEW m \in Runs,
           embed' = [embed EXCEPT ![x] = m], embed[x].stage # "idle", m.stage # "idle",
           m.inQueue = embed[x].inQueue, UNCHANGED embedJob
    PROVE  /\ embed' \in [EmbedRuns -> Runs] /\ embed'[x] = m
           /\ \A y \in EmbedRuns \ {x} : embed'[y] = embed[y]
           /\ Underway' = Underway
           /\ (embedJob' = "active") <=> \E y \in EmbedRuns : embed'[y].inQueue
           /\ \A y \in EmbedRuns : embed'[y].stage = "idle" => ~embed'[y].inQueue
           /\ \A y, z \in EmbedRuns : (embed'[y].inQueue /\ embed'[z].inQueue) => y = z
           /\ \A y \in EmbedRuns :
                 embed'[y].stage \in {"idle", "load", "compare", "call", "write"}
<1>1. /\ embed' \in [EmbedRuns -> Runs] /\ embed'[x] = m
      /\ \A y \in EmbedRuns \ {x} : embed'[y] = embed[y]
  BY DEF SearchIndexInv
<1>2. Underway' = Underway
  BY <1>1 DEF Underway
<1>3. \A y \in EmbedRuns : embed'[y].inQueue = embed[y].inQueue
  BY <1>1
<1>4. QED
  BY <1>1, <1>2, <1>3 DEF SearchIndexInv, SearchIndexTypeOK, Runs

LEMMA SaveSteps == ASSUME SearchIndexInv, Save PROVE SearchIndexInv'
<1> USE DEF SearchIndexInv
<1>1. text' \in [Blocks -> Phrases \cup {NoText}] /\ saves' \in Nat /\ next' = next
  BY DEF Save, SearchIndexTypeOK
<1>2. \A r \in indexRows : r \in IndexRows
  OBVIOUS
<1>3. \A s \in indexRows' : \E r \in indexRows :
         /\ s = Unlinked(r) /\ s \in IndexRows /\ s.id = r.id /\ s.hash = r.hash /\ s.block = NoBlock
         /\ r \in IndexRows
  <2> SUFFICES ASSUME NEW s \in indexRows'
               PROVE  \E r \in indexRows :
                         /\ s = Unlinked(r) /\ s \in IndexRows /\ s.id = r.id /\ s.hash = r.hash
                         /\ s.block = NoBlock /\ r \in IndexRows
    OBVIOUS
  <2>1. PICK r \in indexRows : s = Unlinked(r)
    BY DEF Save
  <2>2. r \in IndexRows /\ r.hash \in Phrases
    BY <1>2 DEF IndexRows
  <2>3. QED
    BY <2>1, <2>2, RowChanges
<1>4. \A r, s \in indexRows' :
         (r.id = s.id \/ (SlotOf(r) = SlotOf(s) /\ r.block # NoBlock)) => r = s
  BY <1>3 DEF SearchIndexTypeOK
<1>5. \A r \in indexRows' : r.id \in 1..(next - 1) /\ r.hash \in Phrases /\ r.block = NoBlock
  BY <1>3 DEF SearchIndexTypeOK
<1>6. CASE AddJob
  <2>1. embed' = embed /\ embedJob' = IF embedJob = "none" THEN "waiting" ELSE embedJob
    BY <1>6 DEF AddJob
  <2>2. Underway' = Underway
    BY <2>1 DEF Underway
  <2>3. SearchIndexTypeOK'
    <3>1. trouble' \subseteq Troubles
      BY <1>6 DEF AddJob, Crossing, Troubles, SearchIndexTypeOK
    <3>2. embedJob' \in {"none", "waiting", "active", "kept"}
          /\ ((embedJob' = "active") <=> \E x \in EmbedRuns : embed'[x].inQueue)
      BY <2>1 DEF SearchIndexTypeOK
    <3>3. queued' \in BOOLEAN /\ next' \in Nat \ {0}
      BY DEF Save, SearchIndexTypeOK
    <3>4. \A x \in EmbedRuns :
             embed'[x].stage \in {"idle", "load", "compare", "call", "write"}
      BY <2>1 DEF SearchIndexTypeOK
    <3>5. QED
      BY <1>1, <1>4, <1>5, <3>1, <3>2, <3>3, <3>4 DEF SearchIndexTypeOK
  <2>4. Untroubled'
    <3> SUFFICES ASSUME trouble' = {} PROVE Untroubled'
      BY DEF Untroubled
    <3>1. Underway = {} /\ embedJob \notin {"active", "kept"}
      BY <1>6 DEF AddJob, Crossing
    <3>2. embedJob' = "waiting"
      BY <2>1, <3>1 DEF SearchIndexTypeOK
    <3>3. QED
      BY <1>5, <2>2, <3>1, <3>2 DEF Untroubled
  <2>5. QED
    BY <1>3, <2>1, <2>3, <2>4
<1>7. ASSUME NEW x \in EmbedRuns, StartRun(x, FALSE), trouble' = Crossing, UNCHANGED embedJob
      PROVE  SearchIndexInv'
  <2> DEFINE m == [EmbedIdle EXCEPT !.stage = "load", !.inQueue = FALSE]
  <2>1. m \in Runs /\ m.stage = "load" /\ ~m.inQueue /\ embed' = [embed EXCEPT ![x] = m]
    BY <1>7 DEF StartRun, EmbedIdle, Runs
  <2> HIDE DEF m
  <2>2. /\ embed' \in [EmbedRuns -> Runs] /\ embed'[x] = m
        /\ \A y \in EmbedRuns \ {x} : embed'[y] = embed[y]
    BY <2>1
  <2>3. ~embed[x].inQueue
    BY <1>7, IdleIsRun DEF StartRun
  <2>4. /\ ((embedJob' = "active") <=> \E y \in EmbedRuns : embed'[y].inQueue)
        /\ \A y \in EmbedRuns : embed'[y].stage = "idle" => ~embed'[y].inQueue
        /\ \A y, z \in EmbedRuns : (embed'[y].inQueue /\ embed'[z].inQueue) => y = z
    BY <1>7, <2>1, <2>2, <2>3 DEF SearchIndexTypeOK
  <2>5. SearchIndexTypeOK'
    <3>1. trouble' \subseteq Troubles
      BY <1>7 DEF Crossing, Troubles, SearchIndexTypeOK
    <3>2. queued' \in BOOLEAN /\ next' \in Nat \ {0}
          /\ embedJob' \in {"none", "waiting", "active", "kept"}
      BY <1>7 DEF Save, SearchIndexTypeOK
    <3>3. \A y \in EmbedRuns :
             embed'[y].stage \in {"idle", "load", "compare", "call", "write"}
      BY <2>2 DEF Runs
    <3>4. QED
      BY <1>1, <1>4, <1>5, <2>4, <3>1, <3>2, <3>3 DEF SearchIndexTypeOK
  <2>6. Untroubled'
    <3> SUFFICES ASSUME trouble' = {} PROVE Untroubled'
      BY DEF Untroubled
    <3>1. Underway = {}
      BY <1>7 DEF Crossing
    <3>2. Underway' = {x}
      BY <2>1, <2>2, <3>1 DEF Underway
    <3>3. embed'[x].stage = "load"
      BY <2>1, <2>2
    <3>4. \A y \in Underway' : RunKnows(y)'
      BY <3>2, <3>3 DEF RunKnows
    <3>5. QED
      BY <1>5, <3>2, <3>4 DEF Untroubled
  <2>7. QED
    BY <1>3, <2>2, <2>4, <2>5, <2>6
<1>8. QED
  BY <1>6, <1>7 DEF Save, EnqueueEmbedDocument

LEMMA TakeSteps == ASSUME SearchIndexInv, NEW x \in EmbedRuns, Take(x) PROVE SearchIndexInv'
<1> USE DEF SearchIndexInv
<1> DEFINE m == [EmbedIdle EXCEPT !.stage = "load", !.inQueue = TRUE]
<1>1. m \in Runs /\ m.stage = "load" /\ m.inQueue /\ embed' = [embed EXCEPT ![x] = m]
  BY DEF Take, StartRun, EmbedIdle, Runs
<1> HIDE DEF m
<1>2. /\ embed' \in [EmbedRuns -> Runs] /\ embed'[x] = m
      /\ \A y \in EmbedRuns \ {x} : embed'[y] = embed[y]
  BY <1>1
<1>3. \A y \in EmbedRuns : ~embed[y].inQueue
  BY DEF Take, SearchIndexTypeOK
<1>4. /\ ((embedJob' = "active") <=> \E y \in EmbedRuns : embed'[y].inQueue)
      /\ \A y \in EmbedRuns : embed'[y].stage = "idle" => ~embed'[y].inQueue
      /\ \A y, z \in EmbedRuns : (embed'[y].inQueue /\ embed'[z].inQueue) => y = z
  <2>1. \A y \in EmbedRuns : embed'[y].inQueue => y = x
    BY <1>2, <1>3
  <2>2. QED
    BY <1>1, <1>2, <2>1 DEF Take
<1>5. trouble' \subseteq Troubles
  BY DEF Take, Troubles, SearchIndexTypeOK
<1>6. SearchIndexTypeOK'
  <2>1. \A y \in EmbedRuns :
           embed'[y].stage \in {"idle", "load", "compare", "call", "write"}
    BY <1>2 DEF Runs
  <2>2. QED
    BY <1>4, <1>5, <2>1 DEF Take, SearchIndexTypeOK
<1>7. Untroubled'
  <2> SUFFICES ASSUME trouble' = {} PROVE Untroubled'
    BY DEF Untroubled
  <2>1. Underway = {} /\ trouble = {}
    BY DEF Take
  <2>2. Underway' = {x}
    BY <1>1, <1>2, <2>1 DEF Underway
  <2>3. \A y \in Underway' : RunKnows(y)'
    BY <1>1, <1>2, <2>2 DEF RunKnows
  <2>4. Indexed' = Indexed /\ Hashes(text)' = Hashes(text)
    BY DEF Take, Indexed, Hashes
  <2>5. QED
    BY <2>1, <2>2, <2>3, <2>4 DEF Take, Untroubled
<1>8. QED
  BY <1>2, <1>4, <1>6, <1>7 DEF Take

LEMMA EvictSteps == ASSUME SearchIndexInv, Evict PROVE SearchIndexInv'
<1> USE DEF SearchIndexInv
<1>1. SearchIndexTypeOK'
  BY DEF Evict, SearchIndexTypeOK
<1>2. Underway' = Underway /\ Indexed' = Indexed /\ \A x \in Underway : RunKnows(x)' <=> RunKnows(x)
  BY DEF Evict, Underway, Indexed, RunKnows, Hashes
<1>3. Untroubled'
  BY <1>2 DEF Evict, Untroubled
<1>4. QED
  BY <1>1, <1>3 DEF Evict

LEMMA RestartSteps ==
    ASSUME SearchIndexInv, NEW x \in EmbedRuns, RestartWorker(x) PROVE SearchIndexInv'
<1> USE DEF SearchIndexInv
<1>1. /\ embed' \in [EmbedRuns -> Runs] /\ embed'[x] = EmbedIdle
      /\ \A y \in EmbedRuns \ {x} : embed'[y] = embed[y]
  BY IdleIsRun DEF RestartWorker
<1>2. \A y \in EmbedRuns : ~embed'[y].inQueue
  BY <1>1, IdleIsRun DEF RestartWorker
<1>3. Underway' = Underway \ {x}
  BY <1>1, IdleIsRun DEF Underway
<1>4. SearchIndexTypeOK'
  <2>1. \A y \in EmbedRuns :
           embed'[y].stage \in {"idle", "load", "compare", "call", "write"}
    BY <1>1 DEF Runs
  <2>2. QED
    BY <1>2, <2>1 DEF RestartWorker, SearchIndexTypeOK
<1>5. Untroubled'
  <2> SUFFICES ASSUME trouble = {} PROVE Untroubled'
    BY DEF Untroubled, RestartWorker
  <2>1. Indexed' = Indexed /\ Hashes(text)' = Hashes(text)
    BY DEF RestartWorker, Indexed, Hashes
  <2>2. \A y \in Underway' : RunKnows(y)'
    BY <1>1, <1>3, <2>1 DEF RestartWorker, Untroubled, RunKnows, Underway
  <2>3. QED
    BY <1>3, <2>1, <2>2 DEF RestartWorker, Untroubled
<1>6. QED
  BY <1>1, <1>2, <1>4, <1>5 DEF RestartWorker

\* A run that goes on without a row, a text or the job being touched.
LEMMA RunMoves ==
    ASSUME SearchIndexInv, NEW x \in EmbedRuns, NEW m \in Runs,
           embed' = [embed EXCEPT ![x] = m], embed[x].stage # "idle", m.stage # "idle",
           m.inQueue = embed[x].inQueue,
           UNCHANGED <<queued, text, indexRows, next, embedJob, saves, trouble>>,
           trouble = {} => RunKnows(x)'
    PROVE  SearchIndexInv'
<1> USE DEF SearchIndexInv
<1>1. /\ embed' \in [EmbedRuns -> Runs] /\ embed'[x] = m
      /\ \A y \in EmbedRuns \ {x} : embed'[y] = embed[y]
      /\ Underway' = Underway
      /\ ((embedJob' = "active") <=> \E y \in EmbedRuns : embed'[y].inQueue)
      /\ \A y \in EmbedRuns : embed'[y].stage = "idle" => ~embed'[y].inQueue
      /\ \A y, z \in EmbedRuns : (embed'[y].inQueue /\ embed'[z].inQueue) => y = z
      /\ \A y \in EmbedRuns :
            embed'[y].stage \in {"idle", "load", "compare", "call", "write"}
  BY RunGoesOn
<1>2. SearchIndexTypeOK'
  BY <1>1 DEF SearchIndexTypeOK
<1>3. Untroubled'
  <2> SUFFICES ASSUME trouble = {} PROVE Untroubled'
    BY DEF Untroubled
  <2>1. Indexed' = Indexed /\ Hashes(text)' = Hashes(text)
    BY DEF Indexed, Hashes
  <2>2. \A y \in Underway' : y = x
    BY <1>1 DEF Untroubled, Underway
  <2>3. \A y \in Underway' : RunKnows(y)'
    BY <2>2
  <2>4. QED
    BY <1>1, <2>1, <2>2, <2>3 DEF Untroubled
<1>4. QED
  BY <1>1, <1>2, <1>3

LEMMA LoadSteps == ASSUME SearchIndexInv, NEW x \in EmbedRuns, Load(x) PROVE SearchIndexInv'
<1> USE DEF SearchIndexInv
<1> DEFINE m == [embed[x] EXCEPT !.stage = "compare", !.wanted = text]
<1>1. embed[x] \in Runs /\ text \in [Blocks -> Phrases \cup {NoText}]
  BY DEF SearchIndexTypeOK
<1>2. m \in Runs /\ m.stage = "compare" /\ m.wanted = text /\ m.inQueue = embed[x].inQueue
  BY <1>1 DEF Runs
<1>3. embed' = [embed EXCEPT ![x] = m] /\ embed[x].stage = "load"
  BY DEF Load
<1> HIDE DEF m
<1>4. embed'[x] = m
  BY <1>3
<1>5. RunKnows(x)'
  BY <1>2, <1>4 DEF Load, RunKnows
<1>6. QED
  BY <1>2, <1>3, <1>5, RunMoves DEF Load

\* A run ends: what its end leaves is so, if what it wrote is, and the index is current
\* unless something went wrong.
LEMMA RunEnds ==
    ASSUME SearchIndexInv, NEW x \in EmbedRuns, EndRun(x),
           UNCHANGED <<queued, text, saves>>, trouble' \subseteq Troubles,
           trouble' = {} => trouble = {} /\ Indexed' = Hashes(text),
           next' \in Nat \ {0}, indexRows' \subseteq IndexRows, embed[x].stage # "idle",
           \A r \in indexRows' : /\ r.id \in 1..(next' - 1) /\ r.hash \in Phrases
                                 /\ r.block \in {NoBlock} \cup {b \in Blocks : text[b] # NoText},
           \A r, s \in indexRows' :
              (r.id = s.id \/ (SlotOf(r) = SlotOf(s) /\ r.block # NoBlock)) => r = s
    PROVE  SearchIndexInv'
<1> USE DEF SearchIndexInv
<1>1. /\ embed' \in [EmbedRuns -> Runs] /\ Underway' = Underway \ {x}
      /\ \A y \in EmbedRuns \ {x} : embed'[y] = embed[y]
  BY EndedRun
<1>2. /\ embedJob' \in {"none", "waiting", "active", "kept"}
      /\ ((embedJob' = "active") <=> \E y \in EmbedRuns : embed'[y].inQueue)
      /\ \A y \in EmbedRuns : embed'[y].stage = "idle" => ~embed'[y].inQueue
      /\ \A y, z \in EmbedRuns : (embed'[y].inQueue /\ embed'[z].inQueue) => y = z
      /\ \A y \in EmbedRuns :
            embed'[y].stage \in {"idle", "load", "compare", "call", "write"}
  BY QueueFollows
<1>3. SearchIndexTypeOK'
  BY <1>2 DEF SearchIndexTypeOK
<1>4. Untroubled'
  <2> SUFFICES ASSUME trouble' = {} PROVE Untroubled'
    BY DEF Untroubled
  <2>1. Indexed' = Hashes(text) /\ Hashes(text)' = Hashes(text) /\ trouble = {}
    BY DEF Hashes
  <2>2. x \in Underway
    BY DEF Underway
  <2>3. Underway' = {}
    BY <1>1, <2>1, <2>2 DEF Untroubled
  <2>4. QED
    BY <2>1, <2>3 DEF Untroubled
<1>5. QED
  BY <1>1, <1>2, <1>3, <1>4

LEMMA CompareSteps ==
    ASSUME SearchIndexInv, NEW x \in EmbedRuns, Compare(x) PROVE SearchIndexInv'
<1> USE DEF SearchIndexInv
<1> DEFINE want == Hashes(embed[x].wanted)
           old == {r.id : r \in {s \in indexRows : s.hash \notin want}}
           fresh == want \ Indexed
<1>1. embed[x] \in Runs /\ embed[x].stage = "compare"
  BY DEF Compare
<1>2. trouble = {} => want = Hashes(text)
  <2> SUFFICES ASSUME trouble = {} PROVE embed[x].wanted = text
    OBVIOUS
  <2>1. x \in Underway
    BY <1>1 DEF Underway
  <2>2. QED
    BY <1>1, <2>1 DEF Untroubled, RunKnows
<1>3. fresh \subseteq Phrases /\ old \subseteq Nat
  <2>1. want \subseteq Phrases
    BY <1>1 DEF Runs, Hashes
  <2>2. \A r \in indexRows : r.id \in Nat
    BY DEF IndexRows
  <2>3. QED
    BY <2>1, <2>2
<1>4. CASE old \cup fresh = {}
  <2>1. EndRun(x)
    BY <1>4 DEF Compare
  <2>2. Indexed = want
    <3>1. \A r \in indexRows : r.hash \in want
      BY <1>4
    <3>2. Indexed \subseteq want
      BY <3>1 DEF Indexed
    <3>3. QED
      BY <1>4, <3>2
  <2>3. Indexed' = Indexed
    BY DEF Compare, Indexed
  <2>4. UNCHANGED <<queued, text, indexRows, next, saves, trouble>>
    BY DEF Compare
  <2> HIDE DEF want
  <2>5. QED
    BY <1>1, <1>2, <2>1, <2>2, <2>3, <2>4, RunEnds DEF SearchIndexTypeOK
<1>5. CASE old \cup fresh # {}
  <2> DEFINE m == [embed[x] EXCEPT !.stage = IF fresh = {} THEN "write" ELSE "call",
                                   !.stale = old, !.new = fresh]
  <2>1. embed' = [embed EXCEPT ![x] = m]
        /\ UNCHANGED <<queued, text, indexRows, next, embedJob, saves, trouble>>
    BY <1>5 DEF Compare
  <2> HIDE DEF want, old, fresh
  <2>2. m \in Runs /\ m.stage # "idle" /\ m.inQueue = embed[x].inQueue
        /\ m.wanted = embed[x].wanted /\ m.stale = old /\ m.new = fresh
    BY <1>1, <1>3 DEF Runs
  <2> HIDE DEF m
  <2>3. embed'[x] = m
    BY <2>1
  <2>4. trouble = {} => RunKnows(x)'
    <3> SUFFICES ASSUME trouble = {} PROVE RunKnows(x)'
      OBVIOUS
    <3>1. want = Hashes(text) /\ embed[x].wanted = text
      <4>1. x \in Underway
        BY <1>1 DEF Underway
      <4>2. QED
        BY <1>1, <1>2, <4>1 DEF Untroubled, RunKnows
    <3>2. Hashes(text)' = Hashes(text) /\ Indexed' = Indexed
      BY <2>1 DEF Hashes, Indexed
    <3>3. old = {r.id : r \in {s \in indexRows' : s.hash \notin Hashes(text)'}}
      BY <2>1, <3>1, <3>2 DEF old
    <3>4. fresh = Hashes(text)' \ Indexed'
      BY <3>1, <3>2 DEF fresh
    <3>5. embed'[x].wanted = text'
      BY <2>1, <2>2, <2>3, <3>1
    <3>6. QED
      BY <2>2, <2>3, <3>3, <3>4, <3>5 DEF RunKnows
  <2>5. QED
    BY <1>1, <2>1, <2>2, <2>4, RunMoves
<1>6. QED
  BY <1>4, <1>5

LEMMA CallSteps == ASSUME SearchIndexInv, NEW x \in EmbedRuns, CallModel(x) PROVE SearchIndexInv'
<1> USE DEF SearchIndexInv
<1> DEFINE m == [embed[x] EXCEPT !.stage = "write"]
<1>1. embed[x] \in Runs /\ embed[x].stage = "call"
  BY DEF CallModel
<1>2. CASE embed' = [embed EXCEPT ![x] = m] /\ UNCHANGED <<embedJob, trouble>>
  <2>1. m \in Runs /\ m.stage = "write" /\ m.inQueue = embed[x].inQueue
        /\ m.wanted = embed[x].wanted /\ m.stale = embed[x].stale /\ m.new = embed[x].new
    BY <1>1 DEF Runs
  <2>2. embed' = [embed EXCEPT ![x] = m] /\ UNCHANGED <<embedJob, trouble>>
        /\ UNCHANGED <<queued, text, indexRows, next, saves>>
    BY <1>2 DEF CallModel
  <2> HIDE DEF m
  <2>3. embed'[x] = m
    BY <2>2
  <2>4. trouble = {} => RunKnows(x)'
    <3> SUFFICES ASSUME trouble = {} PROVE RunKnows(x)'
      OBVIOUS
    <3>1. RunKnows(x)
      BY <1>1 DEF Untroubled, Underway
    <3>2. Hashes(text)' = Hashes(text) /\ Indexed' = Indexed
      BY <2>2 DEF Hashes, Indexed
    <3>3. QED
      BY <1>1, <2>1, <2>2, <2>3, <3>1, <3>2 DEF RunKnows
  <2>5. QED
    BY <1>1, <2>1, <2>2, <2>4, RunMoves
<1>3. CASE EndRun(x) /\ trouble' = trouble \cup {"failed"}
  <2>1. trouble' \subseteq Troubles /\ trouble' # {}
    BY <1>3 DEF Troubles, SearchIndexTypeOK
  <2>2. UNCHANGED <<queued, text, indexRows, next, saves>>
    BY DEF CallModel
  <2>3. QED
    BY <1>1, <1>3, <2>1, <2>2, RunEnds DEF SearchIndexTypeOK
<1>4. QED
  BY <1>2, <1>3 DEF CallModel

\* The blocks new chunks are of are finitely many, and there are as many identifiers for them
\* as it takes.
LEMMA FreshIds ==
    ASSUME next \in Nat \ {0}, NEW x \in EmbedRuns
    PROVE  /\ Cardinality(NewBlocks(x)) \in Nat
           /\ \E f \in [NewBlocks(x) -> next..(next + Cardinality(NewBlocks(x)))] :
                 \A b, c \in NewBlocks(x) : b # c => f[b] # f[c]
<1> DEFINE B == NewBlocks(x)
<1>1. IsFiniteSet(B)
  <2>1. IsFiniteSet(1..MaxBlocks)
    BY SearchIndexAssumption, FS_Interval
  <2>2. B \subseteq 1..MaxBlocks
    BY DEF NewBlocks, Blocks
  <2>3. QED
    BY <2>1, <2>2, FS_Subset
<1> DEFINE n == Cardinality(B)
<1>2. n \in Nat /\ ExistsBijection(1..n, B)
  BY <1>1, FS_CardinalityType
<1> HIDE DEF B, n
<1>3. PICK g \in Bijection(B, 1..n) : TRUE
  BY <1>2, Fun_ExistsBijSymmetric, Fun_ExistsBij
<1>4. g \in [B -> 1..n] /\ \A b, c \in B : b # c => g[b] # g[c]
  BY <1>3 DEF Bijection, Injection, Surjection, IsInjective
<1> DEFINE f == [b \in B |-> next + g[b]]
<1>5. f \in [B -> next..(next + n)]
  <2>1. \A b \in B : next + g[b] \in next..(next + n)
    BY <1>2, <1>4
  <2>2. QED
    BY <2>1
<1>6. \A b, c \in B : b # c => f[b] # f[c]
  <2> SUFFICES ASSUME NEW b \in B, NEW c \in B, b # c PROVE next + g[b] # next + g[c]
    OBVIOUS
  <2>1. g[b] \in Nat /\ g[c] \in Nat /\ g[b] # g[c]
    BY <1>2, <1>4
  <2>2. QED
    BY <2>1
<1>7. QED
  BY <1>2, <1>5, <1>6 DEF B, n

LEMMA ChunkIndexIsNat == ASSUME NEW t, NEW b \in Blocks PROVE ChunkIndex(t, b) \in Nat
<1>1. b - 1 \in Int
  BY SearchIndexAssumption DEF Blocks
<1>2. IsFiniteSet(1..(b - 1))
  BY <1>1, FS_Interval
<1>3. IsFiniteSet({c \in 1..(b - 1) : t[c] # NoText})
  BY <1>2, FS_Subset
<1>4. QED
  BY <1>3, FS_CardinalityType DEF ChunkIndex

\* What Inserted is made of: a row left, that stands at none of the new slots; a row left
\* that did, with its hash written over; or a new row, under an identifier of its own.
LEMMA InsertedRows ==
    ASSUME SearchIndexInv, NEW x \in EmbedRuns, NEW left \in SUBSET indexRows,
           \A b \in NewBlocks(x) : text[b] # NoText
    PROVE  LET new == NewBlocks(x)
               t == embed[x].wanted
               at(r, b) == SlotOf(r) = <<b, ChunkIndex(t, b)>>
           IN \E ids \in [new -> next..(next + Cardinality(new))] :
                /\ \A b, c \in new : b # c => ids[b] # ids[c]
                /\ \A s \in Inserted(x, left) :
                      \/ s \in left /\ \A b \in new : ~at(s, b)
                      \/ \E r \in left, b \in new :
                            /\ at(r, b) /\ s = Rehashed(r, t[r.block])
                      \/ \E b \in new :
                            /\ \A r \in left : ~at(r, b)
                            /\ s = [id |-> ids[b], block |-> b, index |-> ChunkIndex(t, b),
                                    hash |-> t[b]]
                /\ \A r \in left : (\A b \in new : ~at(r, b)) => r \in Inserted(x, left)
                /\ \A b \in new : (\A r \in left : ~at(r, b)) =>
                      [id |-> ids[b], block |-> b, index |-> ChunkIndex(t, b), hash |-> t[b]]
                         \in Inserted(x, left)
<1> DEFINE new == NewBlocks(x)
           t == embed[x].wanted
           slot == [b \in new |-> <<b, ChunkIndex(t, b)>>]
           had == {b \in new : \E r \in left : SlotOf(r) = slot[b]}
           ids == CHOOSE f \in [new -> next..(next + Cardinality(new))] :
                     \A b, c \in new : b # c => f[b] # f[c]
           stay == {r \in left : \A b \in new : SlotOf(r) # slot[b]}
           over == {s \in left : \E b \in had : SlotOf(s) = slot[b]}
<1>1. next \in Nat \ {0}
  BY DEF SearchIndexInv, SearchIndexTypeOK
<1>2. ids \in [new -> next..(next + Cardinality(new))]
      /\ \A b, c \in new : b # c => ids[b] # ids[c]
  BY <1>1, FreshIds
<1>3. Inserted(x, left) = stay \cup {Rehashed(r, t[r.block]) : r \in over}
         \cup {[id |-> ids[b], block |-> b, index |-> slot[b][2], hash |-> t[b]] : b \in new \ had}
  BY DEF Inserted
<1>4. \A b \in new : slot[b] = <<b, ChunkIndex(t, b)>> /\ slot[b][2] = ChunkIndex(t, b)
  OBVIOUS
<1> HIDE DEF ids, slot, t
<1>5. ASSUME NEW s \in Inserted(x, left)
      PROVE  \/ s \in left /\ \A b \in new : SlotOf(s) # <<b, ChunkIndex(t, b)>>
             \/ \E r \in left, b \in new :
                   SlotOf(r) = <<b, ChunkIndex(t, b)>> /\ s = Rehashed(r, t[r.block])
             \/ \E b \in new :
                   /\ \A r \in left : SlotOf(r) # <<b, ChunkIndex(t, b)>>
                   /\ s = [id |-> ids[b], block |-> b, index |-> ChunkIndex(t, b), hash |-> t[b]]
  <2>1. CASE s \in stay
    BY <1>4, <2>1
  <2>2. ASSUME NEW r \in over, s = Rehashed(r, t[r.block])
        PROVE  \E q \in left, b \in new :
                  SlotOf(q) = <<b, ChunkIndex(t, b)>> /\ s = Rehashed(q, t[q.block])
    <3>1. PICK b \in had : SlotOf(r) = slot[b]
      OBVIOUS
    <3>2. QED
      BY <1>4, <2>2, <3>1
  <2>3. ASSUME NEW b \in new \ had,
               s = [id |-> ids[b], block |-> b, index |-> slot[b][2], hash |-> t[b]]
        PROVE  /\ \A r \in left : SlotOf(r) # <<b, ChunkIndex(t, b)>>
               /\ s = [id |-> ids[b], block |-> b, index |-> ChunkIndex(t, b), hash |-> t[b]]
    BY <1>4, <2>3
  <2>4. QED
    BY <1>3, <2>1, <2>2, <2>3
<1>6. \A r \in left : (\A b \in new : SlotOf(r) # <<b, ChunkIndex(t, b)>>) => r \in Inserted(x, left)
  BY <1>3, <1>4
<1>7. ASSUME NEW b \in new, \A r \in left : SlotOf(r) # <<b, ChunkIndex(t, b)>>
      PROVE  [id |-> ids[b], block |-> b, index |-> ChunkIndex(t, b), hash |-> t[b]]
                \in Inserted(x, left)
  <2>1. b \in new \ had /\ slot[b][2] = ChunkIndex(t, b)
    BY <1>4, <1>7
  <2>2. QED
    BY <1>3, <2>1
<1>8. QED
  BY <1>2, <1>5, <1>6, <1>7 DEF t

\* Rows inserted keep to the keys of the table.
LEMMA RowsStayApart ==
    ASSUME SearchIndexInv, NEW x \in EmbedRuns, NEW left \in SUBSET indexRows,
           \A b \in NewBlocks(x) : text[b] # NoText, embed[x].new \subseteq Phrases
    PROVE  LET last == next + Cardinality(NewBlocks(x))
               ins == Inserted(x, left)
           IN /\ ins \subseteq IndexRows
              /\ \A r \in ins : /\ r.id \in 1..last /\ r.hash \in Phrases
                                /\ r.block \in {NoBlock} \cup {b \in Blocks : text[b] # NoText}
              /\ \A r, s \in ins :
                    (r.id = s.id \/ (SlotOf(r) = SlotOf(s) /\ r.block # NoBlock)) => r = s
<1> DEFINE new == NewBlocks(x)
           t == embed[x].wanted
           last == next + Cardinality(new)
           at(r, b) == SlotOf(r) = <<b, ChunkIndex(t, b)>>
           row(i, b) == [id |-> i, block |-> b, index |-> ChunkIndex(t, b), hash |-> t[b]]
           fine(r) == /\ r \in IndexRows /\ r.id \in 1..last /\ r.hash \in Phrases
                      /\ r.block \in {NoBlock} \cup {b \in Blocks : text[b] # NoText}
<1>1. PICK ids \in [new -> next..last] :
        /\ \A b, c \in new : b # c => ids[b] # ids[c]
        /\ \A s \in Inserted(x, left) :
              \/ s \in left /\ \A b \in new : ~at(s, b)
              \/ \E r \in left, b \in new : at(r, b) /\ s = Rehashed(r, t[r.block])
              \/ \E b \in new : (\A r \in left : ~at(r, b)) /\ s = row(ids[b], b)
  BY InsertedRows
<1>2. next \in Nat \ {0} /\ last \in Nat /\ next <= last
  <2>1. next \in Nat \ {0}
    BY DEF SearchIndexInv, SearchIndexTypeOK
  <2>2. Cardinality(new) \in Nat
    BY <2>1, FreshIds
  <2>3. QED
    BY <2>1, <2>2
<1>3. \A b \in new : b \in Blocks /\ t[b] \in Phrases /\ text[b] # NoText
  BY DEF NewBlocks
<1>4. \A r \in left : fine(r) /\ r.id < next
  BY <1>2 DEF SearchIndexInv, SearchIndexTypeOK
<1>5. \A r, s \in left :
         (r.id = s.id \/ (SlotOf(r) = SlotOf(s) /\ r.block # NoBlock)) => r = s
  BY DEF SearchIndexInv, SearchIndexTypeOK
<1> HIDE DEF last
<1>6. ASSUME NEW r \in left, NEW b \in new, at(r, b)
      PROVE  /\ Rehashed(r, t[r.block]) \in IndexRows /\ Rehashed(r, t[r.block]).id = r.id
             /\ Rehashed(r, t[r.block]).hash = t[b] /\ Rehashed(r, t[r.block]).block = r.block
             /\ Rehashed(r, t[r.block]).index = r.index /\ r.block = b
             /\ SlotOf(Rehashed(r, t[r.block])) = SlotOf(r)
  <2>1. r.block = b
    BY <1>6 DEF SlotOf
  <2>2. t[r.block] \in Phrases /\ r \in IndexRows
    BY <1>3, <1>4, <2>1
  <2>3. QED
    BY <2>1, <2>2, RowChanges DEF SlotOf
<1>7. ASSUME NEW b \in new
      PROVE  /\ row(ids[b], b) \in IndexRows /\ row(ids[b], b).id = ids[b]
             /\ row(ids[b], b).hash = t[b] /\ row(ids[b], b).block = b
             /\ SlotOf(row(ids[b], b)) = <<b, ChunkIndex(t, b)>> /\ b # NoBlock
             /\ ids[b] \in 1..last /\ ids[b] >= next
  <2>1. ids[b] \in 1..last /\ ids[b] >= next /\ ids[b] \in Nat \ {0}
    BY <1>1, <1>2
  <2>2. ChunkIndex(t, b) \in Nat
    BY <1>3, ChunkIndexIsNat
  <2>3. b # NoBlock
    BY <1>3, SearchIndexAssumption DEF Blocks, NoBlock
  <2>4. QED
    BY <1>3, <2>1, <2>2, <2>3 DEF IndexRows, SlotOf
<1> HIDE DEF row, t
<1>8. ASSUME NEW s \in Inserted(x, left) PROVE fine(s)
  <2>1. CASE s \in left
    BY <1>4, <2>1
  <2>2. ASSUME NEW r \in left, NEW b \in new, at(r, b), s = Rehashed(r, t[r.block])
        PROVE  fine(s)
    BY <1>3, <1>4, <1>6, <2>2
  <2>3. ASSUME NEW b \in new, s = row(ids[b], b) PROVE fine(s)
    BY <1>3, <1>7, <2>3
  <2>4. QED
    BY <1>1, <2>1, <2>2, <2>3
<1>9. ASSUME NEW s \in Inserted(x, left)
      PROVE  \/ s \in left /\ \A b \in new : ~at(s, b)
             \/ \E r \in left, b \in new : /\ at(r, b) /\ s = Rehashed(r, t[r.block])
                                           /\ s.id = r.id /\ SlotOf(s) = SlotOf(r)
                                           /\ s.block = r.block /\ s.id < next
             \/ \E b \in new : /\ (\A r \in left : ~at(r, b)) /\ s = row(ids[b], b)
                               /\ SlotOf(s) = <<b, ChunkIndex(t, b)>>
                               /\ s.id = ids[b] /\ s.id >= next
  BY <1>1, <1>4, <1>6, <1>7
<1>10. ASSUME NEW r \in Inserted(x, left), NEW s \in Inserted(x, left),
              r.id = s.id \/ (SlotOf(r) = SlotOf(s) /\ r.block # NoBlock)
       PROVE  r = s
  <2>1. r.id \in Nat /\ s.id \in Nat /\ next \in Nat
    BY <1>2, <1>8 DEF IndexRows
  <2>2. CASE r \in left /\ \A b \in new : ~at(r, b)
    <3>1. CASE s \in left /\ \A b \in new : ~at(s, b)
      BY <1>5, <1>10, <2>2, <3>1
    <3>2. ASSUME NEW q \in left, NEW b \in new, at(q, b), s.id = q.id, SlotOf(s) = SlotOf(q),
                 s.block = q.block
          PROVE  FALSE
      <4>1. r = q
        BY <1>5, <1>10, <2>2, <3>2
      <4>2. QED
        BY <2>2, <3>2, <4>1
    <3>3. ASSUME NEW b \in new, SlotOf(s) = <<b, ChunkIndex(t, b)>>, s.id >= next PROVE FALSE
      BY <1>4, <1>10, <2>1, <2>2, <3>3
    <3>4. QED
      BY <1>9, <3>1, <3>2, <3>3
  <2>3. ASSUME NEW q \in left, NEW b \in new, at(q, b), r = Rehashed(q, t[q.block]),
               r.id = q.id, SlotOf(r) = SlotOf(q), r.block = q.block, r.id < next
        PROVE  r = s
    <3>1. CASE s \in left /\ \A c \in new : ~at(s, c)
      <4>1. s = q
        BY <1>5, <1>10, <2>3, <3>1
      <4>2. QED
        BY <2>3, <3>1, <4>1
    <3>2. ASSUME NEW p \in left, NEW c \in new, at(p, c), s = Rehashed(p, t[p.block]),
                 s.id = p.id, SlotOf(s) = SlotOf(p), s.block = p.block
          PROVE  r = s
      <4>1. q = p
        BY <1>5, <1>10, <2>3, <3>2
      <4>2. QED
        BY <2>3, <3>2, <4>1
    <3>3. ASSUME NEW c \in new, \A p \in left : ~at(p, c),
                 SlotOf(s) = <<c, ChunkIndex(t, c)>>, s.id >= next
          PROVE  FALSE
      BY <1>10, <2>1, <2>3, <3>3
    <3>4. QED
      BY <1>9, <3>1, <3>2, <3>3
  <2>4. ASSUME NEW b \in new, \A q \in left : ~at(q, b), r = row(ids[b], b),
               SlotOf(r) = <<b, ChunkIndex(t, b)>>, r.id = ids[b], r.id >= next
        PROVE  r = s
    <3>1. CASE s \in left /\ \A c \in new : ~at(s, c)
      BY <1>4, <1>10, <2>1, <2>4, <3>1
    <3>2. ASSUME NEW p \in left, NEW c \in new, SlotOf(s) = SlotOf(p), s.id < next, at(p, c)
          PROVE  FALSE
      BY <1>10, <2>1, <2>4, <3>2
    <3>3. ASSUME NEW c \in new, s = row(ids[c], c), SlotOf(s) = <<c, ChunkIndex(t, c)>>,
                 s.id = ids[c]
          PROVE  r = s
      <4>1. b = c
        BY <1>1, <1>10, <2>4, <3>3
      <4>2. QED
        BY <2>4, <3>3, <4>1
    <3>4. QED
      BY <1>9, <3>1, <3>2, <3>3
  <2>5. QED
    BY <1>9, <2>2, <2>3, <2>4
<1>11. QED
  BY <1>8, <1>10 DEF last

\* A run that nothing has crossed writes what the text says, and drops what it does not.
LEMMA WrittenIsCurrent ==
    ASSUME SearchIndexInv, NEW x \in EmbedRuns, embed[x].stage = "write", trouble = {},
           \A b \in NewBlocks(x) : text[b] # NoText,
           indexRows' = Inserted(x, {r \in indexRows : r.id \notin embed[x].stale})
    PROVE  Indexed' = Hashes(text)
<1> DEFINE new == NewBlocks(x)
           t == embed[x].wanted
           left == {r \in indexRows : r.id \notin embed[x].stale}
           row(i, b) == [id |-> i, block |-> b, index |-> ChunkIndex(t, b), hash |-> t[b]]
           at(r, b) == SlotOf(r) = <<b, ChunkIndex(t, b)>>
<1>1. /\ t = text /\ embed[x].new = Hashes(text) \ Indexed
      /\ embed[x].stale = {r.id : r \in {s \in indexRows : s.hash \notin Hashes(text)}}
  <2>1. x \in Underway
    BY DEF Underway
  <2>2. RunKnows(x)
    BY <2>1 DEF SearchIndexInv, Untroubled
  <2>3. QED
    BY <2>2 DEF RunKnows
<1>2. left \in SUBSET indexRows
  OBVIOUS
<1>3. \A r \in indexRows : r \in left <=> r.hash \in Hashes(text)
  <2>1. \A r, s \in indexRows : r.id = s.id => r = s
    BY DEF SearchIndexInv, SearchIndexTypeOK
  <2>2. QED
    BY <1>1, <2>1
<1>4. \A b \in Blocks : b \in new <=> t[b] \in Hashes(text) \ Indexed
  BY <1>1 DEF NewBlocks
<1>5. \A b \in new : b \in Blocks /\ b # NoBlock
  BY SearchIndexAssumption DEF NewBlocks, Blocks, NoBlock
<1>6. \A r \in left, b \in new : ~at(r, b)
  <2> SUFFICES ASSUME NEW r \in left, NEW b \in new PROVE r.block # b
    BY DEF SlotOf
  <2>1. Hashes(text) # Indexed
    BY <1>4, <1>5
  <2>2. r.block = NoBlock
    BY <2>1 DEF SearchIndexInv, Untroubled
  <2>3. QED
    BY <1>5, <2>2
<1> HIDE DEF left, new
<1>7. PICK ids \in [new -> next..(next + Cardinality(new))] :
        /\ \A s \in Inserted(x, left) :
              \/ s \in left /\ \A b \in new : ~at(s, b)
              \/ \E r \in left, b \in new : at(r, b) /\ s = Rehashed(r, t[r.block])
              \/ \E b \in new : s = row(ids[b], b)
        /\ \A r \in left : (\A b \in new : ~at(r, b)) => r \in Inserted(x, left)
        /\ \A b \in new : (\A r \in left : ~at(r, b)) => row(ids[b], b) \in Inserted(x, left)
  BY <1>2, InsertedRows DEF new
<1>8. indexRows' = Inserted(x, left)
  BY DEF left
<1>9. \A s \in indexRows' : s \in left \/ \E b \in new : s = row(ids[b], b)
  BY <1>6, <1>7, <1>8
<1>10. (\A r \in left : r \in indexRows') /\ \A b \in new : row(ids[b], b) \in indexRows'
  BY <1>6, <1>7, <1>8
<1>11. \A b \in new : row(ids[b], b).hash = t[b]
  OBVIOUS
<1> HIDE DEF row
<1>12. \A h : h \in Indexed' => h \in Hashes(text)
  <2> SUFFICES ASSUME NEW s \in indexRows' PROVE s.hash \in Hashes(text)
    BY DEF Indexed
  <2>1. CASE s \in left
    BY <1>2, <1>3, <2>1
  <2>2. ASSUME NEW b \in new, s = row(ids[b], b) PROVE s.hash \in Hashes(text)
    BY <1>4, <1>5, <1>11, <2>2
  <2>3. QED
    BY <1>9, <2>1, <2>2
<1>13. \A h : h \in Hashes(text) => h \in Indexed'
  <2> SUFFICES ASSUME NEW h \in Hashes(text) PROVE \E s \in indexRows' : s.hash = h
    BY DEF Indexed
  <2>1. CASE h \in Indexed
    BY <1>3, <1>10, <2>1 DEF Indexed
  <2>2. CASE h \notin Indexed
    <3>1. PICK b \in Blocks : t[b] = h
      BY <1>1 DEF Hashes
    <3>2. b \in new
      BY <1>4, <2>2, <3>1
    <3>3. QED
      BY <1>10, <1>11, <3>1, <3>2
  <2>3. QED
    BY <2>1, <2>2
<1>14. QED
  BY <1>12, <1>13

LEMMA WriteSteps == ASSUME SearchIndexInv, NEW x \in EmbedRuns, WriteRows(x) PROVE SearchIndexInv'
<1>1. /\ embed[x].stage = "write" /\ EndRun(x) /\ UNCHANGED <<queued, text, saves>>
  BY DEF WriteRows
<1>2. embed[x].new \subseteq Phrases
  BY DEF SearchIndexInv, Runs
<1>3. CASE /\ \A b \in NewBlocks(x) : text[b] # NoText
           /\ indexRows' = Inserted(x, {r \in indexRows : r.id \notin embed[x].stale})
           /\ next' = next + Cardinality(NewBlocks(x)) + 1
           /\ UNCHANGED trouble
  <2> DEFINE left == {r \in indexRows : r.id \notin embed[x].stale}
             last == next + Cardinality(NewBlocks(x))
  <2>1. /\ Inserted(x, left) \subseteq IndexRows
        /\ \A r \in Inserted(x, left) :
              /\ r.id \in 1..last /\ r.hash \in Phrases
              /\ r.block \in {NoBlock} \cup {b \in Blocks : text[b] # NoText}
        /\ \A r, s \in Inserted(x, left) :
              (r.id = s.id \/ (SlotOf(r) = SlotOf(s) /\ r.block # NoBlock)) => r = s
    <3>1. left \in SUBSET indexRows
      OBVIOUS
    <3> HIDE DEF left
    <3>2. QED
      BY <1>2, <1>3, <3>1, RowsStayApart
  <2>2. next \in Nat \ {0} /\ Cardinality(NewBlocks(x)) \in Nat
    BY FreshIds DEF SearchIndexInv, SearchIndexTypeOK
  <2>3. next' \in Nat \ {0} /\ next' - 1 = last
    BY <1>3, <2>2
  <2>4. trouble' = {} => trouble = {} /\ Indexed' = Hashes(text)
    BY <1>1, <1>3, WrittenIsCurrent
  <2>5. trouble' \subseteq Troubles
    BY <1>3 DEF SearchIndexInv, SearchIndexTypeOK
  <2>6. indexRows' = Inserted(x, left)
    BY <1>3
  <2> HIDE DEF left, last
  <2>7. QED
    BY <1>1, <2>1, <2>3, <2>4, <2>5, <2>6, RunEnds
<1>4. CASE /\ trouble' = trouble \cup {"failed"}
           /\ UNCHANGED <<indexRows, next>>
  <2>1. trouble' \subseteq Troubles /\ trouble' # {}
    BY <1>4 DEF SearchIndexInv, SearchIndexTypeOK, Troubles
  <2>2. QED
    BY <1>1, <1>4, <2>1, RunEnds DEF SearchIndexInv, SearchIndexTypeOK
<1>5. QED
  BY <1>3, <1>4 DEF WriteRows

LEMMA SearchIndexSteps == SearchIndexInv /\ [SearchIndexNext]_indexVars => SearchIndexInv'
<1> SUFFICES ASSUME SearchIndexInv, [SearchIndexNext]_indexVars PROVE SearchIndexInv'
  OBVIOUS
<1>1. CASE SearchIndexNext
  BY <1>1, SaveSteps, EvictSteps, TakeSteps, LoadSteps, CompareSteps, CallSteps, WriteSteps,
     RestartSteps DEF SearchIndexNext
<1>2. CASE UNCHANGED indexVars
  BY <1>2 DEF indexVars, SearchIndexInv, SearchIndexTypeOK, Untroubled, RunKnows, Underway,
              Indexed, Hashes, SlotOf
<1>3. QED
  BY <1>1, <1>2

LEMMA IndexInvIsEnough == SearchIndexInv => SearchIndexTypeOK /\ IndexIsCurrent
  BY DEF SearchIndexInv, Untroubled, IndexIsCurrent, IndexAtRest

\* At rest, and with nothing in the way of the last save, the rows of a document say what its
\* text says (pipeline.ts:66-97, 115-152): the projection leaves no row at a block, so a run
\* that no save crosses writes over none, and at the end of it the hashes are those wanted.
THEOREM IndexIsCurrentAtRest == SearchIndexSpec => [](SearchIndexTypeOK /\ IndexIsCurrent)
  BY IndexInvIsEnough, SearchIndexStarts, SearchIndexSteps, PTL DEF SearchIndexSpec

-----------------------------------------------------------------------------
(***************************************************************************)
(* SearchPage: what the scores are for.                                    *)
(***************************************************************************)

\* Products grow with their factors.
LEMMA ProductGrows ==
    ASSUME NEW a \in Nat, NEW b \in Nat, NEW c \in Nat, a <= b
    PROVE  a * c <= b * c
<1>1. b = a + (b - a) /\ (b - a) \in Nat
  OBVIOUS
<1>2. (b - a) * c \in Nat
  BY <1>1
<1>3. b * c = a * c + (b - a) * c
  BY <1>1
<1>4. QED
  BY <1>2, <1>3

\* A document that both legs found, at the ends of their lists even, scores above every
\* document that one leg found, for every damping and limits within the assumption: the
\* fact of arithmetic that SearchPage!AgreedComeFirst rests on (fusion.ts:7-14).
THEOREM BothLegsOutrankOne ==
    ASSUME NEW i \in 0..(TextLimit - 1), NEW j \in 0..(ChunkLimit - 1), NEW r \in Nat
    PROVE  Above(BothScore(i, j), OneScore(r))
<1> DEFINE D == Damping
<1>t. /\ D \in Nat /\ i \in Nat /\ j \in Nat /\ TextLimit - 1 \in Nat /\ ChunkLimit - 1 \in Nat
      /\ i <= TextLimit - 1 /\ j <= ChunkLimit - 1
  BY RankAssumption
<1>1. i * j < D * D
  <2>1. i * j <= (TextLimit - 1) * j
    BY <1>t, ProductGrows
  <2>2. j * (TextLimit - 1) <= (ChunkLimit - 1) * (TextLimit - 1)
    BY <1>t, ProductGrows
  <2>3. QED
    BY <1>t, <2>1, <2>2, RankAssumption
<1>2. (D + i) * (D + j) = D * D + D * i + D * j + i * j
  BY <1>t
<1>3. ((D + i) + (D + j)) * (D + r)
          = D * D + D * D + D * i + D * j + ((D + i) + (D + j)) * r
  BY <1>t
<1>4. ((D + i) + (D + j)) * r \in Nat
  BY <1>t
<1>5. ((D + i) + (D + j)) * (D + r) > (D + i) * (D + j)
  <2>1. ASSUME NEW dd \in Nat, NEW di \in Nat, NEW dj \in Nat, NEW ij \in Nat, NEW x \in Nat,
               ij < dd
        PROVE  dd + dd + di + dj + x > dd + di + dj + ij
    BY <2>1
  <2>2. D * D \in Nat /\ D * i \in Nat /\ D * j \in Nat /\ i * j \in Nat
    BY <1>t
  <2>3. D * D + D * D + D * i + D * j + ((D + i) + (D + j)) * r
            > D * D + D * i + D * j + i * j
    BY <2>1, <2>2, <1>1, <1>4
  <2>4. QED
    BY <1>2, <1>3, <2>3, Zenon
<1>6. (D + i) * (D + j) \in Nat /\ 1 * ((D + i) * (D + j)) = (D + i) * (D + j)
  BY <1>t
<1>7. ASSUME NEW m, NEW n, NEW p, NEW q PROVE Above(<<m, n>>, <<p, q>>) <=> m * q > p * n
  BY DEF Above
<1>8. QED
  BY <1>5, <1>6, <1>7, Zenon DEF BothScore, OneScore

\* What is no greater after multiplying was none before.
LEMMA ProductCancels ==
    ASSUME NEW a \in Nat, NEW b \in Nat, NEW c \in Nat, c # 0, a * c <= b * c
    PROVE  a <= b
<1> SUFFICES ASSUME b < a PROVE FALSE
  OBVIOUS
<1>1. b + 1 <= a /\ b + 1 \in Nat
  OBVIOUS
<1>2. (b + 1) * c <= a * c
  BY <1>1, ProductGrows
<1>3. (b + 1) * c = b * c + c
  OBVIOUS
<1>4. b * c \in Nat /\ a * c \in Nat
  OBVIOUS
<1>5. QED
  BY <1>2, <1>3, <1>4

\* Cross-multiplying compares fractions: not being above goes from one to the next.
LEMMA FractionsCompare ==
    ASSUME NEW a \in Nat, NEW b \in Nat, NEW c \in Nat, NEW d \in Nat, NEW e \in Nat,
           NEW f \in Nat, d # 0, a * d <= c * b, c * f <= e * d
    PROVE  a * f <= e * b
<1>1. /\ a * d \in Nat /\ c * b \in Nat /\ c * f \in Nat /\ e * d \in Nat
      /\ a * f \in Nat /\ e * b \in Nat
  OBVIOUS
<1>2. (a * d) * f <= (c * b) * f
  BY <1>1, ProductGrows
<1>3. (c * f) * b <= (e * d) * b
  BY <1>1, ProductGrows
<1>4. (a * d) * f = (a * f) * d /\ (c * b) * f = (c * f) * b /\ (e * d) * b = (e * b) * d
  OBVIOUS
<1>5. (a * f) * d \in Nat /\ (c * f) * b \in Nat /\ (e * b) * d \in Nat
  BY <1>1
<1>6. (a * f) * d <= (e * b) * d
  BY <1>2, <1>3, <1>4, <1>5
<1>7. QED
  BY <1>1, <1>6, ProductCancels

\* A query finds documents of the set, as many as its limit allows at most.
LEMMA InsideIsInside ==
    ASSUME NEW ranked \in Seq(Specs), NEW set, NEW limit \in Nat
    PROVE  /\ Inside(ranked, set, limit) \in Seq(Specs)
           /\ Len(Inside(ranked, set, limit)) <= limit
           /\ \A n \in 1..Len(Inside(ranked, set, limit)) : Inside(ranked, set, limit)[n] \in set
<1> DEFINE P == {i \in 1..Len(ranked) : ranked[i] \in set}
           rank(i) == Cardinality({j \in P : j <= i})
           Q == {i \in P : rank(i) <= limit}
<1>1. Len(ranked) \in Nat /\ P \in SUBSET (1..Len(ranked)) /\ Q \in SUBSET (1..Len(ranked))
  OBVIOUS
<1>2. /\ \A i \in P : rank(i) \in 1..Cardinality(P)
      /\ \A i, j \in P : i < j => rank(i) < rank(j)
      /\ Cardinality(P) \in Nat
  <2> HIDE DEF P
  <2>1. QED
    BY <1>1, PlacesCount
<1>3. Inside(ranked, set, limit) = Picked(ranked, Q)
  <2>1. \A i \in P : {j \in 1..i : ranked[j] \in set} = {j \in P : j <= i}
    BY <1>1
  <2>2. Q = {i \in P : Cardinality({j \in 1..i : ranked[j] \in set}) <= limit}
    BY <2>1
  <2>3. QED
    BY <2>2 DEF Inside
<1> HIDE DEF P, rank
<1>4. Cardinality(Q) <= limit
  <2> DEFINE f == [i \in Q |-> rank(i)]
  <2>1. \A i \in Q : i \in P /\ i \in Nat /\ rank(i) \in 1..limit
    BY <1>1, <1>2
  <2>2. \A i, j \in Q : rank(i) = rank(j) => i = j
    BY <1>2, <2>1
  <2> HIDE DEF Q
  <2>3. f \in Injection(Q, 1..limit)
    BY <2>1, <2>2 DEF Injection, IsInjective
  <2>4. IsFiniteSet(1..limit) /\ Cardinality(1..limit) = limit
    BY FS_Interval
  <2> HIDE DEF f
  <2>5. QED
    BY <2>3, <2>4, FS_Injection
<1>5. \A i \in Q : ranked[i] \in set
  BY DEF P
<1> HIDE DEF Q
<1>6. PICK at \in [1..Cardinality(Q) -> Q] : PickedAt(ranked, Q, at)
  BY <1>1, PickedIsInOrder
<1>7. /\ Picked(ranked, Q) \in Seq(Specs) /\ Len(Picked(ranked, Q)) = Cardinality(Q)
  BY <1>1, PickedIsInOrder
<1>8. \A n \in 1..Cardinality(Q) : Picked(ranked, Q)[n] = ranked[at[n]]
  BY <1>6 DEF PickedAt
<1>9. QED
  BY <1>3, <1>4, <1>5, <1>7, <1>8

\* The best chunks are some of the chunks.
LEMMA BestAreChunks ==
    ASSUME NEW chunks \in Seq(Specs)
    PROVE  /\ BestChunks(chunks) \in Seq(Specs) /\ Len(BestChunks(chunks)) <= Len(chunks)
           /\ \A n \in 1..Len(BestChunks(chunks)) :
                 \E i \in 1..Len(chunks) : BestChunks(chunks)[n] = chunks[i]
<1> DEFINE P == {i \in 1..Len(chunks) : \A j \in 1..(i - 1) : chunks[j] # chunks[i]}
<1>1. P \in SUBSET (1..Len(chunks)) /\ BestChunks(chunks) = Picked(chunks, P)
  BY DEF BestChunks
<1> HIDE DEF P
<1>0. PICK at \in [1..Cardinality(P) -> P] : PickedAt(chunks, P, at)
  BY <1>1, PickedIsInOrder
<1>2. \A n \in 1..Cardinality(P) : Picked(chunks, P)[n] = chunks[at[n]]
  BY <1>0 DEF PickedAt
<1>3. /\ Picked(chunks, P) \in Seq(Specs) /\ Len(Picked(chunks, P)) = Cardinality(P)
      /\ Cardinality(P) <= Len(chunks)
  BY <1>1, PickedIsInOrder
<1>4. \A n \in 1..Cardinality(P) : at[n] \in 1..Len(chunks)
  BY <1>1
<1>5. QED
  BY <1>1, <1>2, <1>3, <1>4

\* Where a document stands that a list holds.
LEMMA RankIsPlace ==
    ASSUME NEW list \in Seq(Specs), NEW d, Holds(list, d)
    PROVE  /\ RankOf(list, d) \in Nat /\ RankOf(list, d) + 1 \in 1..Len(list)
           /\ list[RankOf(list, d) + 1] = d
<1> DEFINE i == CHOOSE n \in 1..Len(list) : list[n] = d
<1>1. i \in 1..Len(list) /\ list[i] = d
  BY DEF Holds
<1>2. RankOf(list, d) = i - 1
  BY DEF RankOf
<1> HIDE DEF i
<1>3. i \in Nat /\ i >= 1
  BY <1>1
<1>4. (i - 1) + 1 = i /\ i - 1 \in Nat
  BY <1>3
<1>5. QED
  BY <1>1, <1>2, <1>4
-----------------------------------------------------------------------------
\* A score is a fraction.
LEMMA ScoreIsFraction ==
    ASSUME NEW words \in Seq(Specs), NEW best \in Seq(Specs), NEW d,
           Holds(words, d) \/ Holds(best, d)
    PROVE  Score(words, best, d) \in (Nat \ {0}) \X (Nat \ {0})
<1> DEFINE N == Nat \ {0}
<1>1. ASSUME NEW i \in Nat PROVE Damping + i \in N
  BY RankAssumption
<1>2. ASSUME NEW i \in N, NEW j \in N PROVE i + j \in N /\ i * j \in N
  <2>1. i * 1 <= i * j
    <3>1. 1 <= j /\ 1 * i <= j * i
      BY ProductGrows
    <3>2. QED
      BY <3>1
  <2>2. QED
    BY <2>1
<1>3. ASSUME NEW i \in Nat PROVE OneScore(i) \in N \X N
  <2>1. 1 \in N /\ Damping + i \in N
    BY <1>1
  <2> HIDE DEF N
  <2>2. QED
    BY <2>1 DEF OneScore
<1>4. ASSUME NEW i \in Nat, NEW j \in Nat PROVE BothScore(i, j) \in N \X N
  <2>1. Damping + i \in N /\ Damping + j \in N
    BY <1>1
  <2>2. (Damping + i) + (Damping + j) \in N /\ (Damping + i) * (Damping + j) \in N
    BY <1>2, <2>1
  <2>3. QED
    BY <2>2 DEF BothScore
<1> HIDE DEF N
<1>5. Score(words, best, d) \in N \X N
  <2>1. CASE Holds(words, d) /\ Holds(best, d)
    BY <1>4, <2>1, RankIsPlace DEF Score
  <2>2. CASE Holds(words, d) /\ ~Holds(best, d)
    BY <1>3, <2>2, RankIsPlace DEF Score
  <2>3. CASE ~Holds(words, d) /\ Holds(best, d)
    BY <1>3, <2>3, RankIsPlace DEF Score
  <2>4. QED
    BY <2>1, <2>2, <2>3
<1>6. QED
  BY <1>5 DEF N

\* Being above is of one of two, and what is not above goes from one to the next.
LEMMA AboveIsOrder ==
    ASSUME NEW s \in (Nat \ {0}) \X (Nat \ {0}), NEW t \in (Nat \ {0}) \X (Nat \ {0}),
           NEW u \in (Nat \ {0}) \X (Nat \ {0})
    PROVE  /\ ~(Above(s, t) /\ Above(t, s))
           /\ ~Above(s, t) /\ ~Above(t, u) => ~Above(s, u)
<1>1. /\ s[1] \in Nat /\ s[2] \in Nat /\ t[1] \in Nat /\ t[2] \in Nat /\ t[2] # 0
      /\ u[1] \in Nat /\ u[2] \in Nat
  OBVIOUS
<1>2. ~(Above(s, t) /\ Above(t, s))
  <2>1. s[1] * t[2] \in Nat /\ t[1] * s[2] \in Nat
    BY <1>1
  <2>2. QED
    BY <2>1 DEF Above
<1>3. ASSUME ~Above(s, t), ~Above(t, u) PROVE ~Above(s, u)
  <2> DEFINE a == s[1]
             b == s[2]
             c == t[1]
             d == t[2]
             e == u[1]
             f == u[2]
  <2>1. /\ a \in Nat /\ b \in Nat /\ c \in Nat /\ d \in Nat /\ d # 0
        /\ e \in Nat /\ f \in Nat
    BY <1>1
  <2>2. ~(a * d > c * b) /\ ~(c * f > e * d) /\ (Above(s, u) <=> a * f > e * b)
    BY <1>3 DEF Above
  <2> HIDE DEF a, b, c, d, e, f
  <2>3. /\ a * d \in Nat /\ c * b \in Nat /\ c * f \in Nat /\ e * d \in Nat
        /\ a * f \in Nat /\ e * b \in Nat
    BY <2>1
  <2>4. a * d <= c * b /\ c * f <= e * d
    BY <2>2, <2>3
  <2>5. a * f <= e * b
    BY <2>1, <2>4, FractionsCompare
  <2>6. QED
    BY <2>2, <2>3, <2>5
<1>4. QED
  BY <1>2, <1>3

\* Documents are seen each at a place of its own.
LEMMA SeenApart ==
    ASSUME NEW words \in Seq(Specs), NEW best \in Seq(Specs), NEW d, NEW e,
           Holds(words, d) \/ Holds(best, d), Holds(words, e) \/ Holds(best, e)
    PROVE  /\ SeenAt(words, best, d) \in Nat
           /\ SeenAt(words, best, d) = SeenAt(words, best, e) => d = e
<1>1. Len(words) \in Nat
  OBVIOUS
<1>2. ASSUME NEW b, Holds(words, b) \/ Holds(best, b)
      PROVE  \/ /\ Holds(words, b) /\ SeenAt(words, best, b) \in Nat
                /\ SeenAt(words, best, b) < Len(words)
                /\ words[SeenAt(words, best, b) + 1] = b
             \/ /\ ~Holds(words, b) /\ SeenAt(words, best, b) \in Nat
                /\ SeenAt(words, best, b) >= Len(words)
                /\ best[SeenAt(words, best, b) - Len(words) + 1] = b
  <2>1. CASE Holds(words, b)
    <3>1. RankOf(words, b) \in Nat /\ RankOf(words, b) + 1 \in 1..Len(words)
          /\ words[RankOf(words, b) + 1] = b
      BY <2>1, RankIsPlace
    <3>2. SeenAt(words, best, b) = RankOf(words, b)
      BY <2>1 DEF SeenAt
    <3>3. QED
      BY <1>1, <2>1, <3>1, <3>2
  <2>2. CASE ~Holds(words, b)
    <3>1. RankOf(best, b) \in Nat /\ best[RankOf(best, b) + 1] = b
      BY <1>2, <2>2, RankIsPlace
    <3>2. SeenAt(words, best, b) = Len(words) + RankOf(best, b)
      BY <2>2 DEF SeenAt
    <3>3. SeenAt(words, best, b) - Len(words) = RankOf(best, b)
          /\ SeenAt(words, best, b) \in Nat /\ SeenAt(words, best, b) >= Len(words)
      BY <1>1, <3>1, <3>2
    <3>4. QED
      BY <2>2, <3>1, <3>3
  <2>3. QED
    BY <2>1, <2>2
<1>3. QED
  BY <1>1, <1>2

\* The order of what was found is a strict one, of every two documents.
LEMMA PrecedesIsOrder ==
    ASSUME NEW words \in Seq(Specs), NEW best \in Seq(Specs), NEW d, NEW e, NEW f,
           Holds(words, d) \/ Holds(best, d), Holds(words, e) \/ Holds(best, e),
           Holds(words, f) \/ Holds(best, f)
    PROVE  /\ ~Precedes(words, best, d, d)
           /\ Precedes(words, best, d, e) /\ Precedes(words, best, e, f)
                 => Precedes(words, best, d, f)
           /\ d = e \/ Precedes(words, best, d, e) \/ Precedes(words, best, e, d)
<1> DEFINE score(b) == Score(words, best, b)
           seen(b) == SeenAt(words, best, b)
<1>1. /\ score(d) \in (Nat \ {0}) \X (Nat \ {0}) /\ score(e) \in (Nat \ {0}) \X (Nat \ {0})
      /\ score(f) \in (Nat \ {0}) \X (Nat \ {0})
  BY ScoreIsFraction
<1>2. /\ seen(d) \in Nat /\ seen(e) \in Nat /\ seen(f) \in Nat
      /\ seen(d) = seen(e) => d = e
  BY SeenApart
<1>3. \A a, b : Precedes(words, best, a, b) <=>
         \/ Above(score(a), score(b))
         \/ ~Above(score(b), score(a)) /\ seen(a) < seen(b)
  BY DEF Precedes
<1>4. \A s, t, u \in {d, e, f} :
         /\ ~(Above(score(s), score(t)) /\ Above(score(t), score(s)))
         /\ ~Above(score(s), score(t)) /\ ~Above(score(t), score(u)) => ~Above(score(s), score(u))
  <2> SUFFICES ASSUME NEW s \in {d, e, f}, NEW t \in {d, e, f}, NEW u \in {d, e, f}
               PROVE  /\ ~(Above(score(s), score(t)) /\ Above(score(t), score(s)))
                      /\ ~Above(score(s), score(t)) /\ ~Above(score(t), score(u))
                            => ~Above(score(s), score(u))
    OBVIOUS
  <2>1. /\ score(s) \in (Nat \ {0}) \X (Nat \ {0}) /\ score(t) \in (Nat \ {0}) \X (Nat \ {0})
        /\ score(u) \in (Nat \ {0}) \X (Nat \ {0})
    BY <1>1
  <2> HIDE DEF score
  <2>2. QED
    BY <2>1, AboveIsOrder
<1> HIDE DEF score, seen
<1>5. ~Precedes(words, best, d, d)
  BY <1>2, <1>3, <1>4
<1>6. ASSUME Precedes(words, best, d, e), Precedes(words, best, e, f)
      PROVE  Precedes(words, best, d, f)
  <2>1. CASE Above(score(d), score(f))
    BY <1>3, <2>1
  <2>2. CASE ~Above(score(d), score(f))
    <3>1. ~Above(score(e), score(d)) /\ ~Above(score(f), score(e))
      BY <1>3, <1>4, <1>6
    <3>2. ~Above(score(d), score(e)) /\ ~Above(score(e), score(f))
      BY <1>4, <2>2, <3>1
    <3>3. seen(d) < seen(e) /\ seen(e) < seen(f)
      BY <1>3, <1>6, <3>2
    <3>4. ~Above(score(f), score(d))
      BY <1>4, <3>1
    <3>5. seen(d) < seen(f)
      BY <1>2, <3>3
    <3>6. QED
      BY <1>3, <3>4, <3>5
  <2>3. QED
    BY <2>1, <2>2
<1>7. d = e \/ Precedes(words, best, d, e) \/ Precedes(words, best, e, d)
  BY <1>2, <1>3, <1>4
<1>8. QED
  BY <1>5, <1>6, <1>7

\* What a fused list says of the documents in it, and their order.
LEMMA FusedIsInOrder ==
    ASSUME NEW words \in Seq(Specs), NEW chunks \in Seq(Specs)
    PROVE  LET best == BestChunks(chunks)
               hits == Fuse(words, chunks)
           IN /\ hits \in Seq(Hits)
              /\ \A n \in 1..Len(hits) :
                    /\ Holds(words, hits[n].doc) \/ Holds(best, hits[n].doc)
                    /\ hits[n].matchedText <=> Holds(words, hits[n].doc)
                    /\ hits[n].matchedSemantic <=> Holds(best, hits[n].doc)
              /\ \A m, n \in 1..Len(hits) :
                    Precedes(words, best, hits[m].doc, hits[n].doc) => m < n
<1> DEFINE best == BestChunks(chunks)
           found == {words[i] : i \in 1..Len(words)} \cup {best[i] : i \in 1..Len(best)}
           before(d) == {e \in found : Precedes(words, best, e, d)}
           spot(d) == Cardinality(before(d)) + 1
           c == Cardinality(found)
           here == {m \in 1..c : m <= ResultLimit}
           at == [n \in here |-> CHOOSE e \in found : spot(e) = n]
           hit(d) == [doc |-> d, matchedText |-> Holds(words, d), matchedSemantic |-> Holds(best, d)]
<1>1. best \in Seq(Specs)
  BY BestAreChunks
<1> HIDE DEF best
<1>2. /\ \A d \in found : d \in Specs /\ (Holds(words, d) \/ Holds(best, d))
      /\ IsFiniteSet(found) /\ c \in Nat
  <2>1. /\ IsFiniteSet({words[i] : i \in 1..Len(words)})
        /\ IsFiniteSet({best[i] : i \in 1..Len(best)})
    <3>1. ASSUME NEW s \in Seq(Specs) PROVE IsFiniteSet({s[i] : i \in 1..Len(s)})
      <4> DEFINE all == {s[i] : i \in 1..Len(s)}
      <4>1. s \in [1..Len(s) -> all] /\ \A d \in all : \E i \in 1..Len(s) : s[i] = d
        OBVIOUS
      <4>2. IsFiniteSet(1..Len(s))
        BY FS_Interval
      <4> HIDE DEF all
      <4>3. s \in Surjection(1..Len(s), all)
        BY <4>1 DEF Surjection
      <4>4. IsFiniteSet(all)
        BY <4>2, <4>3, FS_Surjection
      <4>5. QED
        BY <4>4 DEF all
    <3>2. QED
      BY <1>1, <3>1
  <2>2. IsFiniteSet(found)
    BY <2>1, FS_Union
  <2>3. \A d \in found : d \in Specs /\ (Holds(words, d) \/ Holds(best, d))
    BY <1>1 DEF Holds
  <2> HIDE DEF found
  <2>4. QED
    BY <2>2, <2>3, FS_CardinalityType
<1> HIDE DEF found
<1>3. \A d, e, f \in found :
         /\ ~Precedes(words, best, d, d)
         /\ Precedes(words, best, d, e) /\ Precedes(words, best, e, f)
               => Precedes(words, best, d, f)
         /\ d = e \/ Precedes(words, best, d, e) \/ Precedes(words, best, e, d)
  BY <1>1, <1>2, PrecedesIsOrder
<1>4. \A d \in found : IsFiniteSet(before(d)) /\ spot(d) \in 1..c
  <2> SUFFICES ASSUME NEW d \in found PROVE IsFiniteSet(before(d)) /\ spot(d) \in 1..c
    OBVIOUS
  <2>1. before(d) \in SUBSET found /\ before(d) # found
    BY <1>3
  <2> HIDE DEF before
  <2>2. /\ IsFiniteSet(before(d)) /\ Cardinality(before(d)) \in Nat
        /\ Cardinality(before(d)) <= c /\ Cardinality(before(d)) # c
    BY <1>2, <2>1, FS_Subset, FS_CardinalityType
  <2>3. QED
    BY <1>2, <2>2
<1>5. \A d, e \in found : Precedes(words, best, d, e) => spot(d) < spot(e)
  <2> SUFFICES ASSUME NEW d \in found, NEW e \in found, Precedes(words, best, d, e)
               PROVE  spot(d) < spot(e)
    OBVIOUS
  <2>1. before(d) \in SUBSET before(e)
    BY <1>3
  <2>2. before(d) # before(e)
    BY <1>3
  <2>3. IsFiniteSet(before(d)) /\ IsFiniteSet(before(e))
    BY <1>4
  <2> HIDE DEF before
  <2>4. /\ Cardinality(before(d)) \in Nat /\ Cardinality(before(e)) \in Nat
        /\ Cardinality(before(d)) <= Cardinality(before(e))
        /\ Cardinality(before(d)) # Cardinality(before(e))
    BY <2>1, <2>2, <2>3, FS_Subset, FS_CardinalityType
  <2>5. QED
    BY <2>4
<1> HIDE DEF spot
<1>6. \A n \in 1..c : \E d \in found : spot(d) = n
  <2> DEFINE f == [d \in found |-> spot(d)]
  <2>1. \A d, e \in found : spot(d) = spot(e) => d = e
    <3> SUFFICES ASSUME NEW d \in found, NEW e \in found, d # e PROVE spot(d) # spot(e)
      OBVIOUS
    <3>1. spot(d) \in Nat /\ spot(e) \in Nat
      <4>1. 1..c \subseteq Nat
        BY <1>2
      <4> HIDE DEF c
      <4>2. QED
        BY <1>4, <4>1
    <3>2. spot(d) < spot(e) \/ spot(e) < spot(d)
      BY <1>3, <1>5
    <3>3. QED
      BY <3>1, <3>2
  <2>2. f \in Injection(found, 1..c)
    BY <1>4, <2>1 DEF Injection, IsInjective
  <2>3. IsFiniteSet(1..c) /\ Cardinality(1..c) = c
    BY <1>2, FS_Interval
  <2> HIDE DEF f
  <2>4. f \in Surjection(found, 1..c)
    BY <2>2, <2>3, FS_Injection
  <2>5. QED
    BY <2>4 DEF Surjection, f
<1>7. \A n \in here : at[n] \in found /\ spot(at[n]) = n
  BY <1>6
<1>8. Fuse(words, chunks) = [n \in here |-> hit(at[n])]
  BY DEF Fuse, spot, found, best
<1> HIDE DEF at, c
<1>9. \E k \in Nat : here = 1..k
  <2>1. ResultLimit \in Nat
    BY RankAssumption
  <2>2. CASE c <= ResultLimit
    BY <1>2, <2>1, <2>2
  <2>3. CASE ~(c <= ResultLimit)
    <3>1. here = 1..ResultLimit
      BY <1>2, <2>1, <2>3
    <3>2. QED
      BY <2>1, <3>1
  <2>4. QED
    BY <2>2, <2>3
<1> HIDE DEF here
<1>10. PICK k \in Nat : here = 1..k
  BY <1>9
<1>11. \A n \in 1..k : /\ hit(at[n]) \in Hits /\ hit(at[n]).doc = at[n]
                       /\ hit(at[n]).matchedText = Holds(words, at[n])
                       /\ hit(at[n]).matchedSemantic = Holds(best, at[n])
  <2> SUFFICES ASSUME NEW n \in 1..k PROVE hit(at[n]) \in Hits
    OBVIOUS
  <2>1. at[n] \in Specs
    BY <1>2, <1>7, <1>10
  <2>2. QED
    BY <2>1 DEF Hits, Holds
<1> HIDE DEF hit
<1>12. /\ Fuse(words, chunks) \in Seq(Hits) /\ Len(Fuse(words, chunks)) = k
       /\ \A n \in 1..k : Fuse(words, chunks)[n] = hit(at[n])
  BY <1>8, <1>10, <1>11
<1>13. \A n \in 1..k : /\ Holds(words, at[n]) \/ Holds(best, at[n])
                       /\ at[n] \in found /\ spot(at[n]) = n /\ n \in Nat
  BY <1>2, <1>7, <1>10
<1>14. \A m, n \in 1..k : Precedes(words, best, at[m], at[n]) => m < n
  BY <1>5, <1>13
<1>15. QED
  BY <1>11, <1>12, <1>13, <1>14 DEF best

\* The order AgreedComeFirst asks for, of one list.
AgreedFirst(hits) ==
    \A i, j \in 1..Len(hits) :
        hits[i].matchedText /\ hits[i].matchedSemantic
            /\ ~(hits[j].matchedText /\ hits[j].matchedSemantic) => i < j

\* What both legs find is fused before what one finds.
LEMMA FusedIsAgreed ==
    ASSUME NEW words \in Seq(Specs), NEW chunks \in Seq(Specs),
           Len(words) <= TextLimit, Len(chunks) <= ChunkLimit
    PROVE  AgreedFirst(Fuse(words, chunks))
<1> DEFINE best == BestChunks(chunks)
           hits == Fuse(words, chunks)
<1>1. best \in Seq(Specs) /\ Len(best) <= ChunkLimit
  BY BestAreChunks, RankAssumption
<1>2. /\ \A n \in 1..Len(hits) :
            /\ Holds(words, hits[n].doc) \/ Holds(best, hits[n].doc)
            /\ hits[n].matchedText <=> Holds(words, hits[n].doc)
            /\ hits[n].matchedSemantic <=> Holds(best, hits[n].doc)
      /\ \A m, n \in 1..Len(hits) : Precedes(words, best, hits[m].doc, hits[n].doc) => m < n
  BY FusedIsInOrder
<1> HIDE DEF best, hits
<1>3. ASSUME NEW d, NEW e, Holds(words, d), Holds(best, d), Holds(words, e) \/ Holds(best, e),
             ~(Holds(words, e) /\ Holds(best, e))
      PROVE  Precedes(words, best, d, e)
  <2>1. /\ RankOf(words, d) \in Nat /\ RankOf(words, d) + 1 \in 1..Len(words)
        /\ RankOf(best, d) \in Nat /\ RankOf(best, d) + 1 \in 1..Len(best)
    BY <1>1, <1>3, RankIsPlace
  <2>2. RankOf(words, d) \in 0..(TextLimit - 1) /\ RankOf(best, d) \in 0..(ChunkLimit - 1)
    <3>1. TextLimit \in Nat /\ ChunkLimit \in Nat /\ Len(words) \in Nat /\ Len(best) \in Nat
      BY <1>1, RankAssumption
    <3>2. RankOf(words, d) + 1 <= TextLimit /\ RankOf(best, d) + 1 <= ChunkLimit
      BY <1>1, <2>1, <3>1
    <3>3. QED
      BY <2>1, <3>1, <3>2
  <2>3. Score(words, best, d) = BothScore(RankOf(words, d), RankOf(best, d))
    BY <1>3 DEF Score
  <2>4. \E r \in Nat : Score(words, best, e) = OneScore(r)
    <3>1. CASE Holds(words, e)
      BY <1>3, <3>1, RankIsPlace DEF Score
    <3>2. CASE ~Holds(words, e)
      BY <1>1, <1>3, <3>2, RankIsPlace DEF Score
    <3>3. QED
      BY <3>1, <3>2
  <2>5. Above(Score(words, best, d), Score(words, best, e))
    BY <2>2, <2>3, <2>4, BothLegsOutrankOne
  <2>6. QED
    BY <2>5 DEF Precedes
<1>4. QED
  BY <1>2, <1>3 DEF AgreedFirst, hits

\* Some of an agreed list, in its order, are agreed.
LEMMA PickedIsAgreed ==
    ASSUME NEW S, NEW list \in Seq(S), NEW P \in SUBSET (1..Len(list)), AgreedFirst(list)
    PROVE  AgreedFirst(Picked(list, P))
<1>0. PICK at \in [1..Cardinality(P) -> P] : PickedAt(list, P, at)
  BY PickedIsInOrder
<1>1. /\ \A n \in 1..Cardinality(P) : Picked(list, P)[n] = list[at[n]]
      /\ \A m, n \in 1..Cardinality(P) : m < n => at[m] < at[n]
  BY <1>0 DEF PickedAt
<1>2. Len(Picked(list, P)) = Cardinality(P) /\ Cardinality(P) \in Nat
  BY PickedIsInOrder, PlacesCount
<1>3. \A n \in 1..Cardinality(P) : at[n] \in 1..Len(list) /\ at[n] \in Nat
  <2>1. \A i \in P : i \in 1..Len(list) /\ i \in Nat
    OBVIOUS
  <2>2. QED
    BY <2>1
<1> HIDE DEF Picked
<1>4. SUFFICES ASSUME NEW i \in 1..Cardinality(P), NEW j \in 1..Cardinality(P), at[i] < at[j]
               PROVE  i < j
  BY <1>1, <1>2, <1>3 DEF AgreedFirst
<1>5. CASE i = j
  BY <1>3, <1>4, <1>5
<1>6. CASE j < i
  <2>1. at[j] < at[i] /\ at[i] \in Nat /\ at[j] \in Nat
    BY <1>1, <1>3, <1>6
  <2>2. QED
    BY <1>4, <2>1
<1>7. QED
  BY <1>2, <1>5, <1>6
-----------------------------------------------------------------------------
AskStages == {"none", "session", "text", "semantic", "hydrate", "sent"}
Asks == [stage : AskStages, allowed : SUBSET Specs, words : Seq(Specs), found : Seq(Hits)]

\* What a request has read is of the documents it may read, and agreed.
AskIsSound(ask) ==
    /\ \A i \in 1..Len(ask.words) : ask.words[i] \in ask.allowed
    /\ Len(ask.words) <= TextLimit
    /\ Listed(ask.found) \subseteq ask.allowed
    /\ AgreedFirst(ask.found)

\* The inductive invariant.
SearchInv ==
    /\ SearchTypeOK
    /\ library \in [there : SUBSET Specs, read : SUBSET Specs]
    /\ answers \in [Keys -> Answers \cup {NoAnswer}] /\ asked \in [Keys -> Asks]
    /\ failed \subseteq Keys /\ lastKey \in Keys \cup {NoAnswer}
    /\ \A k \in Keys :
          /\ AskIsSound(asked[k])
          /\ asked[k].stage = "text" => k[2] # "semantic"
          /\ asked[k].stage \in {"none", "session"} => asked[k].words = <<>> /\ asked[k].found = <<>>
          /\ answers[k] # NoAnswer =>
                /\ answers[k].of = k /\ AgreedFirst(answers[k].hits)
                /\ Listed(answers[k].hits) \subseteq answers[k].allowed
    /\ Enabled(searched) /\ asked[Key].stage = "none" /\ Key \notin failed => answers[Key] # NoAnswer

LEMMA NothingAsked ==
    /\ NotAsked \in Asks /\ NotAsked.stage = "none" /\ NotAsked.words = <<>>
    /\ NotAsked.found = <<>> /\ AskIsSound(NotAsked)
<1>1. /\ NotAsked \in Asks /\ NotAsked.stage = "none" /\ NotAsked.words = <<>>
      /\ NotAsked.found = <<>> /\ NotAsked.allowed = {}
  BY DEF NotAsked, Asks, AskStages
<1>2. TextLimit \in Nat
  BY RankAssumption
<1>3. AskIsSound(NotAsked)
  BY <1>1, <1>2 DEF AskIsSound, Listed, AgreedFirst
<1>4. QED
  BY <1>1, <1>3

LEMMA SearchStarts == SearchInit => SearchInv
<1> SUFFICES ASSUME SearchInit PROVE SearchInv
  OBVIOUS
<1>1. /\ library.there = Specs /\ library.read = Specs
      /\ library \in [there : SUBSET Specs, read : SUBSET Specs]
      /\ searched.settled = Blank
      /\ searched \in [typed : Queries \cup {Blank}, settled : Queries \cup {Blank}, mode : Modes]
      /\ stale = {} /\ failed = {} /\ lastKey = NoAnswer
  BY DEF SearchInit, Modes
<1>2. \A k \in Keys : asked[k] = NotAsked /\ answers[k] = NoAnswer
  BY DEF SearchInit
<1>3. SearchTypeOK
  BY <1>1, <1>2, NothingAsked DEF SearchTypeOK
<1>4. asked \in [Keys -> Asks] /\ answers \in [Keys -> Answers \cup {NoAnswer}]
  BY NothingAsked DEF SearchInit
<1>5. ~Enabled(searched)
  BY <1>1 DEF Enabled
<1>6. QED
  BY <1>1, <1>2, <1>3, <1>4, <1>5, NothingAsked DEF SearchInv

\* A step of the request for a key, which neither begins nor ends it.
LEMMA AskGoesOn ==
    ASSUME SearchInv, NEW k \in Keys, NEW a \in Asks, asked' = [asked EXCEPT ![k] = a],
           UNCHANGED <<library, searched, answers, stale, failed, lastKey, moves, turns>>,
           asked[k].stage # "none", a.stage \notin {"none", "session"}, AskIsSound(a),
           a.stage = "semantic" => k[2] # "text", a.stage = "text" => k[2] # "semantic",
           k[2] = "semantic" => a.words = <<>>
    PROVE  SearchInv'
<1> USE DEF SearchInv
<1>1. /\ asked' \in [Keys -> Asks] /\ asked'[k] = a
      /\ \A m \in Keys \ {k} : asked'[m] = asked[m]
  OBVIOUS
<1>2. \A m \in Keys : asked'[m].stage = "none" <=> asked[m].stage = "none"
  BY <1>1
<1>3. SearchTypeOK'
  <2>1. \A m \in Keys :
          /\ asked'[m].stage \in AskStages
          /\ asked'[m].stage = "semantic" => m[2] # "text"
          /\ m[2] = "semantic" => asked'[m].words = <<>>
    BY <1>1 DEF SearchTypeOK, Asks
  <2>2. failed' \cap {m \in Keys : answers'[m] # NoAnswer \/ asked'[m].stage # "none"} = {}
    BY <1>2 DEF SearchTypeOK
  <2>3. QED
    BY <2>1, <2>2 DEF SearchTypeOK, AskStages
<1>4. \A m \in Keys :
        /\ AskIsSound(asked[m])'
        /\ asked'[m].stage = "text" => m[2] # "semantic"
        /\ asked'[m].stage \in {"none", "session"} => asked'[m].words = <<>> /\ asked'[m].found = <<>>
  <2> SUFFICES ASSUME NEW m \in Keys
               PROVE  /\ AskIsSound(asked'[m])
                      /\ asked'[m].stage = "text" => m[2] # "semantic"
                      /\ asked'[m].stage \in {"none", "session"}
                            => asked'[m].words = <<>> /\ asked'[m].found = <<>>
    BY DEF AskIsSound, Listed, AgreedFirst
  <2>1. CASE m = k
    BY <1>1, <2>1
  <2>2. CASE m # k
    BY <1>1, <2>2
  <2>3. QED
    BY <2>1, <2>2
<1>5. Enabled(searched)' /\ asked'[Key'].stage = "none" /\ Key' \notin failed'
         => answers'[Key'] # NoAnswer
  <2> SUFFICES ASSUME Enabled(searched), asked'[Key].stage = "none", Key \notin failed
               PROVE  answers[Key] # NoAnswer
    BY DEF Enabled, Key
  <2>1. Key \in Keys
    BY DEF Enabled, Key, Keys, SearchTypeOK
  <2>2. QED
    BY <1>2, <2>1
<1>6. QED
  BY <1>1, <1>3, <1>4, <1>5 DEF Listed, AgreedFirst

\* What a step of a request writes of it.
LEMMA StepWrites ==
    ASSUME SearchInv, NEW k \in Keys, NEW stage \in {"semantic", "hydrate", "sent"},
           NEW words \in Seq(Specs), NEW got \in Seq(Hits), Step(k, stage, words, got),
           asked[k].stage # "none", stage = "semantic" => k[2] # "text",
           k[2] = "semantic" => words = <<>>,
           \A i \in 1..Len(words) : words[i] \in asked[k].allowed, Len(words) <= TextLimit,
           Listed(got) \subseteq asked[k].allowed, AgreedFirst(got)
    PROVE  SearchInv'
<1> DEFINE a == [asked[k] EXCEPT !.stage = stage, !.words = words, !.found = got]
<1>1. asked[k] \in Asks
  BY DEF SearchInv
<1>2. /\ a \in Asks /\ a.stage = stage /\ a.words = words /\ a.found = got
      /\ a.allowed = asked[k].allowed
  BY <1>1 DEF Asks, AskStages
<1>3. /\ asked' = [asked EXCEPT ![k] = a]
      /\ UNCHANGED <<library, searched, answers, stale, failed, lastKey, moves, turns>>
  BY DEF Step
<1> HIDE DEF a
<1>4. AskIsSound(a)
  BY <1>2 DEF AskIsSound
<1>5. QED
  BY <1>2, <1>3, <1>4, AskGoesOn

LEMMA AllowSteps == ASSUME SearchInv, NEW k \in Keys, Allow(k) PROVE SearchInv'
<1> DEFINE may == library.there \cap library.read
           stage == IF may = {} THEN "sent" ELSE IF k[2] = "semantic" THEN "semantic" ELSE "text"
           a == [asked[k] EXCEPT !.allowed = may, !.stage = stage]
<1>1. asked[k] \in Asks /\ asked[k].words = <<>> /\ asked[k].found = <<>> /\ asked[k].stage = "session"
  BY DEF SearchInv, Allow
<1>2. may \in SUBSET Specs /\ stage \in {"sent", "semantic", "text"}
  BY DEF SearchInv
<1>3. /\ asked' = [asked EXCEPT ![k] = a]
      /\ UNCHANGED <<library, searched, answers, stale, failed, lastKey, moves, turns>>
  BY DEF Allow
<1>4. (stage = "semantic" => k[2] # "text") /\ (stage = "text" => k[2] # "semantic")
  OBVIOUS
<1> HIDE DEF may, stage
<1>5. /\ a \in Asks /\ a.stage = stage /\ a.words = <<>> /\ a.found = <<>>
  BY <1>1, <1>2 DEF Asks, AskStages
<1> HIDE DEF a
<1>6. AskIsSound(a)
  <2>1. TextLimit \in Nat
    BY RankAssumption
  <2>2. QED
    BY <1>5, <2>1 DEF AskIsSound, Listed, AgreedFirst
<1>7. QED
  BY <1>1, <1>2, <1>3, <1>4, <1>5, <1>6, AskGoesOn

\* What both legs found is fused: of the documents they were asked among, and agreed.
LEMMA FusedSteps ==
    ASSUME SearchInv, NEW k \in Keys, NEW words \in Seq(Specs), NEW chunks \in Seq(Specs),
           Fused(k, words, chunks), asked[k].stage # "none", k[2] = "semantic" => words = <<>>,
           Len(words) <= TextLimit, Len(chunks) <= ChunkLimit,
           \A i \in 1..Len(words) : words[i] \in asked[k].allowed,
           \A i \in 1..Len(chunks) : chunks[i] \in asked[k].allowed
    PROVE  SearchInv'
<1> DEFINE got == Fuse(words, chunks)
           stage == IF got = <<>> THEN "sent" ELSE "hydrate"
<1>1. Step(k, stage, words, got)
  BY DEF Fused
<1>2. /\ got \in Seq(Hits)
      /\ \A n \in 1..Len(got) : Holds(words, got[n].doc) \/ Holds(BestChunks(chunks), got[n].doc)
  BY FusedIsInOrder
<1>3. AgreedFirst(got)
  BY FusedIsAgreed
<1>4. \A d : Holds(words, d) \/ Holds(BestChunks(chunks), d) => d \in asked[k].allowed
  BY BestAreChunks DEF Holds
<1> HIDE DEF got
<1>5. Listed(got) \subseteq asked[k].allowed
  BY <1>2, <1>4 DEF Listed
<1>6. QED
  BY <1>1, <1>2, <1>3, <1>5, StepWrites

LEMMA EmptyIsSeq == ASSUME NEW S PROVE <<>> \in Seq(S) /\ Len(<<>>) = 0
  OBVIOUS

LEMMA FullTextSteps == ASSUME SearchInv, NEW k \in Keys, FullText(k) PROVE SearchInv'
<1> DEFINE words == Inside(TextOrder[k[1]], asked[k].allowed \cap library.there, TextLimit)
<1>1. TextOrder[k[1]] \in Seq(Specs) /\ TextLimit \in Nat /\ ChunkLimit \in Nat
  BY SearchAssumption, RankAssumption DEF Keys
<1>2. /\ words \in Seq(Specs) /\ Len(words) <= TextLimit
      /\ \A n \in 1..Len(words) : words[n] \in asked[k].allowed
  BY <1>1, InsideIsInside
<1>3. asked[k].stage = "text" /\ k[2] # "semantic"
  BY DEF FullText, SearchInv
<1>4. \/ k[2] # "text" /\ Step(k, "semantic", words, <<>>)
      \/ Fused(k, words, <<>>)
  BY DEF FullText
<1> HIDE DEF words
<1>5. CASE k[2] # "text" /\ Step(k, "semantic", words, <<>>)
  <2>1. <<>> \in Seq(Hits) /\ Listed(<<>>) = {} /\ AgreedFirst(<<>>)
    BY DEF Listed, AgreedFirst
  <2>2. QED
    BY <1>2, <1>3, <1>5, <2>1, StepWrites
<1>6. CASE Fused(k, words, <<>>)
  <2>1. <<>> \in Seq(Specs) /\ Len(<<>>) <= ChunkLimit /\ \A i \in 1..Len(<<>>) : FALSE
    BY <1>1, EmptyIsSeq
  <2>2. QED
    BY <1>2, <1>3, <1>6, <2>1, FusedSteps
<1>7. QED
  BY <1>4, <1>5, <1>6

LEMMA SemanticSteps == ASSUME SearchInv, NEW k \in Keys, Semantic(k) PROVE SearchInv'
<1> DEFINE chunks == Inside(ChunkOrder[k[1]], asked[k].allowed \cap library.there, ChunkLimit)
<1>1. ChunkOrder[k[1]] \in Seq(Specs) /\ ChunkLimit \in Nat
  BY SearchAssumption, RankAssumption DEF Keys
<1>2. /\ chunks \in Seq(Specs) /\ Len(chunks) <= ChunkLimit
      /\ \A n \in 1..Len(chunks) : chunks[n] \in asked[k].allowed
  BY <1>1, InsideIsInside
<1>3. /\ asked[k].stage = "semantic" /\ asked[k].words \in Seq(Specs)
      /\ k[2] = "semantic" => asked[k].words = <<>>
      /\ \A i \in 1..Len(asked[k].words) : asked[k].words[i] \in asked[k].allowed
      /\ Len(asked[k].words) <= TextLimit
  BY DEF Semantic, SearchInv, SearchTypeOK, Asks, AskIsSound
<1>4. Fused(k, asked[k].words, chunks) \/ Fused(k, asked[k].words, <<>>)
  BY DEF Semantic
<1> HIDE DEF chunks
<1>5. CASE Fused(k, asked[k].words, chunks)
  BY <1>2, <1>3, <1>5, FusedSteps
<1>6. CASE Fused(k, asked[k].words, <<>>)
  <2>1. <<>> \in Seq(Specs) /\ Len(<<>>) <= ChunkLimit /\ \A i \in 1..Len(<<>>) : FALSE
    BY <1>1, EmptyIsSeq
  <2>2. QED
    BY <1>3, <1>6, <2>1, FusedSteps
<1>7. QED
  BY <1>4, <1>5, <1>6

LEMMA HydrateSteps == ASSUME SearchInv, NEW k \in Keys, Hydrate(k) PROVE SearchInv'
<1> DEFINE P == {i \in 1..Len(asked[k].found) : asked[k].found[i].doc \in library.there}
           got == Picked(asked[k].found, P)
<1>1. /\ asked[k].stage = "hydrate" /\ asked[k].words \in Seq(Specs) /\ asked[k].found \in Seq(Hits)
      /\ k[2] = "semantic" => asked[k].words = <<>>
      /\ AskIsSound(asked[k])
  BY DEF Hydrate, SearchInv, SearchTypeOK, Asks
<1>2. P \in SUBSET (1..Len(asked[k].found)) /\ Step(k, "sent", asked[k].words, got)
  BY DEF Hydrate
<1> HIDE DEF P
<1>0. PICK at \in [1..Cardinality(P) -> P] : PickedAt(asked[k].found, P, at)
  BY <1>1, <1>2, PickedIsInOrder
<1>3. \A n \in 1..Cardinality(P) : got[n] = asked[k].found[at[n]]
  BY <1>0 DEF PickedAt
<1>4. got \in Seq(Hits) /\ Len(got) = Cardinality(P)
  BY <1>1, <1>2, PickedIsInOrder
<1>5. AgreedFirst(got)
  BY <1>1, <1>2, PickedIsAgreed DEF AskIsSound
<1> HIDE DEF got
<1>6. Listed(got) \subseteq asked[k].allowed
  <2> SUFFICES ASSUME NEW n \in 1..Cardinality(P) PROVE got[n].doc \in asked[k].allowed
    BY <1>4 DEF Listed
  <2>1. at[n] \in 1..Len(asked[k].found)
    BY <1>2
  <2>2. asked[k].found[at[n]].doc \in asked[k].allowed
    BY <1>1, <2>1 DEF AskIsSound, Listed
  <2>3. QED
    BY <1>3, <2>2
<1>7. QED
  BY <1>1, <1>2, <1>4, <1>5, <1>6, StepWrites DEF AskIsSound

\* The request for a key ends, and the others go on.
LEMMA AskEnds ==
    ASSUME SearchInv, NEW k \in Keys, asked' = [asked EXCEPT ![k] = NotAsked]
    PROVE  /\ asked' \in [Keys -> Asks] /\ asked'[k] = NotAsked
           /\ \A m \in Keys \ {k} : asked'[m] = asked[m]
           /\ \A m \in Keys :
                 /\ AskIsSound(asked[m])'
                 /\ asked'[m].stage = "text" => m[2] # "semantic"
                 /\ asked'[m].stage \in {"none", "session"}
                       => asked'[m].words = <<>> /\ asked'[m].found = <<>>
                 /\ asked'[m].stage \in AskStages
                 /\ asked'[m].stage = "semantic" => m[2] # "text"
                 /\ m[2] = "semantic" => asked'[m].words = <<>>
<1>1. /\ asked' \in [Keys -> Asks] /\ asked'[k] = NotAsked
      /\ \A m \in Keys \ {k} : asked'[m] = asked[m]
  BY NothingAsked DEF SearchInv
<1>2. ASSUME NEW m \in Keys
      PROVE  /\ AskIsSound(asked'[m])
             /\ asked'[m].stage = "text" => m[2] # "semantic"
             /\ asked'[m].stage \in {"none", "session"}
                   => asked'[m].words = <<>> /\ asked'[m].found = <<>>
             /\ asked'[m].stage \in AskStages
             /\ asked'[m].stage = "semantic" => m[2] # "text"
             /\ m[2] = "semantic" => asked'[m].words = <<>>
  <2>1. CASE m = k
    BY <1>1, <2>1, NothingAsked DEF AskStages
  <2>2. CASE m # k
    BY <1>1, <2>2 DEF SearchInv, SearchTypeOK, AskStages
  <2>3. QED
    BY <2>1, <2>2
<1>3. QED
  BY <1>1, <1>2 DEF AskIsSound, Listed, AgreedFirst

LEMMA PageKey == ASSUME SearchTypeOK, Enabled(searched) PROVE Key \in Keys
  BY DEF Enabled, Key, Keys, SearchTypeOK

LEMMA ReceiveSteps == ASSUME SearchInv, NEW k \in Keys, Receive(k) PROVE SearchInv'
<1> USE DEF SearchInv
<1> DEFINE a == [of |-> k, hits |-> asked[k].found, allowed |-> asked[k].allowed]
<1>1. /\ a \in Answers /\ a.of = k /\ a.hits = asked[k].found /\ a.allowed = asked[k].allowed
      /\ AskIsSound(asked[k])
  BY DEF Answers, Asks
<1>2. /\ asked' = [asked EXCEPT ![k] = NotAsked] /\ answers' = [answers EXCEPT ![k] = a]
      /\ stale' = stale \ {k} /\ failed' = failed \ {k}
      /\ lastKey' = IF Enabled(searched) /\ k = Key THEN k ELSE lastKey
      /\ UNCHANGED <<library, searched, moves, turns>>
  BY DEF Receive, Finish
<1> HIDE DEF a
<1>3. a # NoAnswer
  BY <1>1, NoAnswerAssumption
<1>4. /\ answers' \in [Keys -> Answers \cup {NoAnswer}] /\ answers'[k] = a
      /\ \A m \in Keys \ {k} : answers'[m] = answers[m]
  BY <1>1, <1>2
<1>5. /\ asked' \in [Keys -> Asks] /\ asked'[k] = NotAsked
      /\ \A m \in Keys \ {k} : asked'[m] = asked[m]
  BY <1>2, AskEnds
<1>6. \A m \in Keys :
         /\ AskIsSound(asked[m])'
         /\ asked'[m].stage = "text" => m[2] # "semantic"
         /\ asked'[m].stage \in {"none", "session"}
               => asked'[m].words = <<>> /\ asked'[m].found = <<>>
         /\ asked'[m].stage \in AskStages
         /\ asked'[m].stage = "semantic" => m[2] # "text"
         /\ m[2] = "semantic" => asked'[m].words = <<>>
  BY <1>2, AskEnds
<1>7. SearchTypeOK'
  <2>1. lastKey' = NoAnswer \/ answers'[lastKey'] # NoAnswer
    BY <1>2, <1>3, <1>4 DEF SearchTypeOK
  <2>2. stale' \subseteq {m \in Keys : answers'[m] # NoAnswer}
    BY <1>2, <1>3, <1>4 DEF SearchTypeOK
  <2>3. failed' \cap {m \in Keys : answers'[m] # NoAnswer \/ asked'[m].stage # "none"} = {}
    BY <1>2, <1>4, <1>5 DEF SearchTypeOK
  <2>4. /\ library'.there \subseteq Specs /\ library'.read \subseteq Specs
        /\ searched' \in [typed : Queries \cup {Blank}, settled : Queries \cup {Blank}, mode : Modes]
    BY <1>2 DEF SearchTypeOK
  <2>5. QED
    BY <1>6, <2>1, <2>2, <2>3, <2>4 DEF SearchTypeOK, AskStages
<1>8. \A m \in Keys : answers'[m] # NoAnswer =>
         /\ answers'[m].of = m /\ AgreedFirst(answers'[m].hits)
         /\ Listed(answers'[m].hits) \subseteq answers'[m].allowed
  <2> SUFFICES ASSUME NEW m \in Keys, answers'[m] # NoAnswer
               PROVE  /\ answers'[m].of = m /\ AgreedFirst(answers'[m].hits)
                      /\ Listed(answers'[m].hits) \subseteq answers'[m].allowed
    OBVIOUS
  <2>1. CASE m = k
    BY <1>1, <1>4, <2>1 DEF AskIsSound
  <2>2. CASE m # k
    BY <1>4, <2>2
  <2>3. QED
    BY <2>1, <2>2
<1>9. Enabled(searched)' /\ asked'[Key'].stage = "none" /\ Key' \notin failed'
         => answers'[Key'] # NoAnswer
  <2> SUFFICES ASSUME Enabled(searched), asked'[Key].stage = "none", Key \notin failed'
               PROVE  answers'[Key] # NoAnswer
    BY <1>2 DEF Enabled, Key
  <2>1. Key \in Keys
    BY PageKey
  <2>2. CASE Key = k
    BY <1>3, <1>4, <2>2
  <2>3. CASE Key # k
    BY <1>2, <1>4, <1>5, <2>1, <2>3
  <2>4. QED
    BY <2>2, <2>3
<1>10. /\ library' \in [there : SUBSET Specs, read : SUBSET Specs]
       /\ failed' \subseteq Keys /\ lastKey' \in Keys \cup {NoAnswer}
  BY <1>2
<1>11. \A m \in Keys : answers'[m] # NoAnswer =>
          AgreedFirst(answers[m].hits)' /\ Listed(answers[m].hits)' = Listed(answers'[m].hits)
  BY <1>8 DEF AgreedFirst, Listed
<1>12. QED
  BY <1>4, <1>5, <1>6, <1>7, <1>8, <1>9, <1>10, <1>11

LEMMA FailSteps == ASSUME SearchInv, NEW k \in Keys, FailSearch(k) PROVE SearchInv'
<1> USE DEF SearchInv
<1>1. /\ asked[k].stage # "none" /\ asked' = [asked EXCEPT ![k] = NotAsked]
      /\ failed' = IF answers[k] = NoAnswer THEN failed \cup {k} ELSE failed
      /\ UNCHANGED <<library, searched, answers, stale, lastKey, moves>>
  BY DEF FailSearch
<1>2. /\ asked' \in [Keys -> Asks] /\ asked'[k] = NotAsked
      /\ \A m \in Keys \ {k} : asked'[m] = asked[m]
      /\ \A m \in Keys :
            /\ AskIsSound(asked[m])'
            /\ asked'[m].stage = "text" => m[2] # "semantic"
            /\ asked'[m].stage \in {"none", "session"}
                  => asked'[m].words = <<>> /\ asked'[m].found = <<>>
            /\ asked'[m].stage \in AskStages
            /\ asked'[m].stage = "semantic" => m[2] # "text"
            /\ m[2] = "semantic" => asked'[m].words = <<>>
  BY <1>1, AskEnds
<1>3. SearchTypeOK'
  <2>1. failed' \cap {m \in Keys : answers'[m] # NoAnswer \/ asked'[m].stage # "none"} = {}
    BY <1>1, <1>2, NothingAsked DEF SearchTypeOK
  <2>2. QED
    BY <1>1, <1>2, <2>1 DEF SearchTypeOK, AskStages
<1>4. Enabled(searched)' /\ asked'[Key'].stage = "none" /\ Key' \notin failed'
         => answers'[Key'] # NoAnswer
  <2> SUFFICES ASSUME Enabled(searched), asked'[Key].stage = "none", Key \notin failed'
               PROVE  answers[Key] # NoAnswer
    BY <1>1 DEF Enabled, Key
  <2>1. Key \in Keys
    BY PageKey
  <2>2. QED
    BY <1>1, <1>2, <2>1
<1>5. failed' \subseteq Keys
  BY <1>1
<1>6. QED
  BY <1>1, <1>2, <1>3, <1>4, <1>5 DEF AgreedFirst, Listed

LEMMA TypeQuerySteps ==
    ASSUME SearchInv, NEW q \in Queries \cup {Blank}, TypeQuery(q) PROVE SearchInv'
<1> USE DEF SearchInv
<1>1. /\ searched' = [searched EXCEPT !.typed = q]
      /\ UNCHANGED <<library, answers, stale, failed, asked, lastKey, turns>>
  BY DEF TypeQuery
<1>2. /\ searched' \in [typed : Queries \cup {Blank}, settled : Queries \cup {Blank}, mode : Modes]
      /\ searched'.settled = searched.settled /\ searched'.mode = searched.mode
  BY <1>1 DEF SearchTypeOK
<1>3. SearchTypeOK'
  BY <1>1, <1>2 DEF SearchTypeOK
<1>4. (Enabled(searched)' <=> Enabled(searched)) /\ Key' = Key
  BY <1>2 DEF Enabled, Key
<1>5. QED
  BY <1>1, <1>3, <1>4 DEF AgreedFirst, Listed, AskIsSound

LEMMA ObserveSteps ==
    ASSUME SearchInv, NEW page, Observe(page), UNCHANGED <<library, answers, stale>>,
           page \in [typed : Queries \cup {Blank}, settled : Queries \cup {Blank}, mode : Modes]
    PROVE  SearchInv'
<1> USE DEF SearchInv
<1> DEFINE k == <<page.settled, page.mode>>
           asks == Enabled(page) /\ asked[k].stage = "none" /\ (answers[k] = NoAnswer \/ k \in stale)
           a == [asked[k] EXCEPT !.stage = "session"]
<1>1. /\ searched' = page
      /\ asks => asked' = [asked EXCEPT ![k] = a] /\ failed' = failed \ {k}
      /\ ~asks => UNCHANGED <<asked, failed>>
      /\ lastKey' = IF Enabled(page) /\ answers[k] # NoAnswer THEN k ELSE lastKey
  BY DEF Observe
<1>2. Enabled(page) => k \in Keys
  BY DEF Enabled, Keys
<1>3. (Enabled(searched)' <=> Enabled(page)) /\ Key' = k
  BY <1>1 DEF Enabled, Key
<1> HIDE DEF k
<1>4. asks => /\ a \in Asks /\ a.stage = "session" /\ a.words = <<>> /\ a.found = <<>>
              /\ a.allowed = asked[k].allowed /\ AskIsSound(a)
  <2> SUFFICES ASSUME asks
               PROVE  /\ a \in Asks /\ a.stage = "session" /\ a.words = <<>> /\ a.found = <<>>
                      /\ a.allowed = asked[k].allowed /\ AskIsSound(a)
    OBVIOUS
  <2>1. /\ asked[k] \in Asks /\ asked[k].words = <<>> /\ asked[k].found = <<>>
        /\ AskIsSound(asked[k])
    BY <1>2
  <2>2. /\ a \in Asks /\ a.stage = "session" /\ a.words = <<>> /\ a.found = <<>>
        /\ a.allowed = asked[k].allowed
    BY <2>1 DEF Asks, AskStages
  <2>3. AskIsSound(a)
    BY <2>1, <2>2 DEF AskIsSound
  <2>4. QED
    BY <2>2, <2>3
<1> HIDE DEF a
<1>5. /\ asked' \in [Keys -> Asks]
      /\ asks => asked'[k] = a /\ k \in Keys
      /\ \A m \in Keys : asked'[m] = asked[m] \/ (asks /\ m = k)
  BY <1>1, <1>2, <1>4
<1>6. ASSUME NEW m \in Keys
      PROVE  /\ AskIsSound(asked'[m])
             /\ asked'[m].stage = "text" => m[2] # "semantic"
             /\ asked'[m].stage \in {"none", "session"}
                   => asked'[m].words = <<>> /\ asked'[m].found = <<>>
             /\ asked'[m].stage \in AskStages
             /\ asked'[m].stage = "semantic" => m[2] # "text"
             /\ m[2] = "semantic" => asked'[m].words = <<>>
  <2>1. CASE asks /\ m = k
    BY <1>4, <1>5, <2>1 DEF AskStages
  <2>2. CASE asked'[m] = asked[m]
    BY <2>2 DEF SearchTypeOK, AskStages
  <2>3. QED
    BY <1>5, <2>1, <2>2
<1>7. SearchTypeOK'
  <2>1. lastKey' = NoAnswer \/ answers'[lastKey'] # NoAnswer
    BY <1>1 DEF SearchTypeOK
  <2>2. failed' \cap {m \in Keys : answers'[m] # NoAnswer \/ asked'[m].stage # "none"} = {}
    <3>1. CASE asks
      BY <1>1, <1>5, <3>1 DEF SearchTypeOK
    <3>2. CASE ~asks
      BY <1>1, <3>2 DEF SearchTypeOK
    <3>3. QED
      BY <3>1, <3>2
  <2>3. /\ library'.there \subseteq Specs /\ library'.read \subseteq Specs
        /\ stale' \subseteq {m \in Keys : answers'[m] # NoAnswer}
    BY DEF SearchTypeOK
  <2>4. searched' \in [typed : Queries \cup {Blank}, settled : Queries \cup {Blank}, mode : Modes]
    BY <1>1
  <2>5. QED
    BY <1>6, <2>1, <2>2, <2>3, <2>4 DEF SearchTypeOK, AskStages
<1>8. Enabled(searched)' /\ asked'[Key'].stage = "none" /\ Key' \notin failed'
         => answers'[Key'] # NoAnswer
  <2> SUFFICES ASSUME Enabled(page), asked'[k].stage = "none"
               PROVE  answers[k] # NoAnswer
    BY <1>3
  <2>1. CASE asks
    BY <1>4, <1>5, <2>1
  <2>2. CASE ~asks
    BY <1>1, <2>2
  <2>3. QED
    BY <2>1, <2>2
<1>9. failed' \subseteq Keys /\ lastKey' \in Keys \cup {NoAnswer}
  BY <1>1, <1>2
<1>10. \A m \in Keys : AskIsSound(asked[m])'
  BY <1>6 DEF AskIsSound, Listed, AgreedFirst
<1>11. \A m \in Keys : answers'[m] # NoAnswer =>
         /\ answers'[m].of = m /\ AgreedFirst(answers[m].hits)'
         /\ Listed(answers[m].hits)' \subseteq answers'[m].allowed
  BY DEF AgreedFirst, Listed
<1>12. QED
  BY <1>5, <1>6, <1>7, <1>8, <1>9, <1>10, <1>11

LEMMA DebouncedSteps == ASSUME SearchInv, Debounced PROVE SearchInv'
<1> DEFINE page == [searched EXCEPT !.settled = searched.typed]
<1>1. page \in [typed : Queries \cup {Blank}, settled : Queries \cup {Blank}, mode : Modes]
  BY DEF SearchInv, SearchTypeOK
<1>2. Observe(page) /\ UNCHANGED <<library, answers, stale>>
  BY DEF Debounced
<1> HIDE DEF page
<1>3. QED
  BY <1>1, <1>2, ObserveSteps

LEMMA ChooseModeSteps == ASSUME SearchInv, NEW m \in Modes, ChooseMode(m) PROVE SearchInv'
<1> DEFINE page == [searched EXCEPT !.mode = m]
<1>1. page \in [typed : Queries \cup {Blank}, settled : Queries \cup {Blank}, mode : Modes]
  BY DEF SearchInv, SearchTypeOK
<1>2. Observe(page) /\ UNCHANGED <<library, answers, stale>>
  BY DEF ChooseMode
<1> HIDE DEF page
<1>3. QED
  BY <1>1, <1>2, ObserveSteps

LEMMA TurnSteps == ASSUME SearchInv, Turn PROVE SearchInv'
<1> USE DEF SearchInv
<1>1. UNCHANGED <<searched, answers, failed, asked, lastKey>>
  BY DEF Turn
<1>2. /\ library' \in [there : SUBSET Specs, read : SUBSET Specs]
      /\ library'.there \subseteq Specs /\ library'.read \subseteq Specs
  <2>1. CASE UNCHANGED library
    BY <2>1
  <2>2. ASSUME NEW d \in Specs,
               \/ library' = [library EXCEPT !.there = @ \ {d}]
               \/ library' = [library EXCEPT !.read = @ \ {d}]
               \/ library' = [library EXCEPT !.read = @ \cup {d}]
        PROVE  library' \in [there : SUBSET Specs, read : SUBSET Specs]
    BY <2>2
  <2>3. library' \in [there : SUBSET Specs, read : SUBSET Specs]
    BY <2>1, <2>2 DEF Turn
  <2>4. QED
    BY <2>3
<1>3. stale' \subseteq {m \in Keys : answers[m] # NoAnswer}
  BY DEF Turn, SearchTypeOK
<1>4. SearchTypeOK'
  BY <1>1, <1>2, <1>3 DEF SearchTypeOK
<1>5. QED
  BY <1>1, <1>2, <1>4 DEF Enabled, Key, AgreedFirst, Listed, AskIsSound

LEMMA SearchSteps == SearchInv /\ [SearchNext]_searchVars => SearchInv'
<1> SUFFICES ASSUME SearchInv, [SearchNext]_searchVars PROVE SearchInv'
  OBVIOUS
<1>1. CASE SearchNext
  BY <1>1, TypeQuerySteps, DebouncedSteps, ChooseModeSteps, AllowSteps, FullTextSteps,
     SemanticSteps, HydrateSteps, ReceiveSteps, FailSteps, TurnSteps DEF SearchNext
<1>2. CASE UNCHANGED searchVars
  BY <1>2 DEF searchVars, SearchInv, SearchTypeOK, Enabled, Key, AgreedFirst, Listed, AskIsSound
<1>3. QED
  BY <1>1, <1>2

LEMMA SearchInvIsEnough ==
    SearchInv => SearchTypeOK /\ SettledShowsItsAnswer /\ HitsWereReadable /\ AgreedComeFirst
<1> SUFFICES ASSUME SearchInv
             PROVE  SearchTypeOK /\ SettledShowsItsAnswer /\ HitsWereReadable /\ AgreedComeFirst
  OBVIOUS
<1>1. SearchTypeOK
  BY DEF SearchInv
<1>2. SettledShowsItsAnswer
  BY PageKey DEF SearchInv, SettledShowsItsAnswer
<1>3. HitsWereReadable /\ AgreedComeFirst
  BY DEF SearchInv, HitsWereReadable, AgreedComeFirst, AgreedFirst
<1>4. QED
  BY <1>1, <1>2, <1>3

\* A settled search at rest shows the answer to its own query and mode, of documents the user
\* could read when it was asked, and what words and meaning both found before what one of them
\* did (use-search.ts:56-75, route.ts:79-113, fusion.ts:7-14): an answer is cached under the
\* key it was asked for, both legs look inside the documents that were allowed, and no rank in
\* one list outweighs one in the other.
THEOREM SearchShowsItsAnswer ==
    SearchSpec => [](SearchTypeOK /\ SettledShowsItsAnswer /\ HitsWereReadable /\ AgreedComeFirst)
  BY SearchInvIsEnough, SearchStarts, SearchSteps, PTL DEF SearchSpec

-----------------------------------------------------------------------------
(***************************************************************************)
(* The workspace.                                                          *)
(***************************************************************************)

\* A step of the workspace is one of a component, and the others stay as they are.
LEMMA WorkspaceMoves ==
    [WorkspaceNext]_workspaceVars =>
        /\ [TreeCacheNext]_cacheVars /\ [WatchNext]_watchVars
        /\ [SearchIndexNext]_indexVars /\ [SearchNext]_searchVars
        /\ [ExportNext]_exportVars /\ [ContextNext]_contextVars
        /\ [PlanNext]_planVars /\ [DiffNext]_diffVars
<1> SUFFICES ASSUME [WorkspaceNext]_workspaceVars
             PROVE  /\ [TreeCacheNext]_cacheVars /\ [WatchNext]_watchVars
                    /\ [SearchIndexNext]_indexVars /\ [SearchNext]_searchVars
                    /\ [ExportNext]_exportVars /\ [ContextNext]_contextVars
                    /\ [PlanNext]_planVars /\ [DiffNext]_diffVars
  OBVIOUS
<1>1. TreeCacheNext \/ UNCHANGED cacheVars
  BY DEF WorkspaceNext, workspaceVars
<1>2. WatchNext \/ UNCHANGED watchVars
  BY DEF WorkspaceNext, workspaceVars
<1>3. SearchIndexNext \/ UNCHANGED indexVars
  BY DEF WorkspaceNext, workspaceVars
<1>4. SearchNext \/ UNCHANGED searchVars
  BY DEF WorkspaceNext, workspaceVars
<1>5. ExportNext \/ UNCHANGED exportVars
  BY DEF WorkspaceNext, workspaceVars
<1>6. ContextNext \/ UNCHANGED contextVars
  BY DEF WorkspaceNext, workspaceVars
<1>7. PlanNext \/ UNCHANGED planVars
  BY DEF WorkspaceNext, workspaceVars
<1>8. DiffNext \/ UNCHANGED diffVars
  BY DEF WorkspaceNext, workspaceVars
<1>9. QED
  BY <1>1, <1>2, <1>3, <1>4, <1>5, <1>6, <1>7, <1>8

LEMMA WorkspaceStarts ==
    WorkspaceInit =>
        /\ TreeCacheInit /\ WatchInit /\ SearchIndexInit /\ SearchInit
        /\ ExportInit /\ ContextInit /\ PlanInit /\ DiffInit
  BY DEF WorkspaceInit

\* What the page of the tree and the page of a job show is what there is, in the run's
\* specification and for every value of its constants (use-documents.ts,
\* generate-architecture-wizard.tsx).
THEOREM ShownStaysCurrent == WorkspaceSpec => []ShownIsCurrent
<1>1. TreeCacheInv /\ JobWatchInv => ShownIsCurrent
  BY DEF TreeCacheInv, JobWatchInv, ShownIsCurrent
<1>2. WorkspaceInit => TreeCacheInv /\ JobWatchInv
  BY WorkspaceStarts, TreeCacheStarts, JobWatchStarts
<1>3. TreeCacheInv /\ JobWatchInv /\ [WorkspaceNext]_workspaceVars => (TreeCacheInv /\ JobWatchInv)'
  BY WorkspaceMoves, TreeCacheSteps, JobWatchSteps
<1>4. QED
  BY <1>1, <1>2, <1>3, PTL DEF WorkspaceSpec

\* What is found is what there is: the index follows the text and a search shows the answer to
\* itself, in the run's specification and for every value of its constants (pipeline.ts:66-152,
\* route.ts:79-113, use-search.ts:56-75).
THEOREM FoundStaysCurrent == WorkspaceSpec => []FoundIsCurrent
<1>1. SearchIndexInv /\ SearchInv => FoundIsCurrent
  <2> SUFFICES ASSUME SearchIndexInv, SearchInv PROVE FoundIsCurrent
    OBVIOUS
  <2>1. SearchIndexTypeOK /\ IndexIsCurrent
    BY IndexInvIsEnough
  <2>2. SearchTypeOK /\ SettledShowsItsAnswer /\ HitsWereReadable /\ AgreedComeFirst
    BY SearchInvIsEnough
  <2>3. QED
    BY <2>1, <2>2 DEF FoundIsCurrent
<1>2. WorkspaceInit => SearchIndexInv /\ SearchInv
  BY WorkspaceStarts, SearchIndexStarts, SearchStarts
<1>3. SearchIndexInv /\ SearchInv /\ [WorkspaceNext]_workspaceVars => (SearchIndexInv /\ SearchInv)'
  BY WorkspaceMoves, SearchIndexSteps, SearchSteps
<1>4. QED
  BY <1>1, <1>2, <1>3, PTL DEF WorkspaceSpec

\* What an agent or a model is given is whole, in the run's specification and for every value
\* of its constants (lib/data/export.ts, crossref.ts, graph-model.ts, context/assemble.ts).
THEOREM GivenStaysWhole == WorkspaceSpec => []GivenOutIsWhole
<1>1. ExportInv /\ ContextInv => GivenOutIsWhole
  <2> SUFFICES ASSUME ExportInv, ContextInv PROVE GivenOutIsWhole
    OBVIOUS
  <2>1. ExportTypeOK /\ BundleIsClosed /\ BundleReadsDown /\ GraphsShowDistances
    BY AnswersAreClosed, AnswersReadDown, GraphsAreRight DEF ExportInv
  <2>2. ContextTypeOK /\ ContextFits /\ LeftOutDidNotFit /\ NeighboursByDistance
    BY PacksFit, PacksLeaveOutRightly, PacksNearestFirst DEF ContextInv
  <2>3. QED
    BY <2>1, <2>2 DEF GivenOutIsWhole
<1>2. WorkspaceInit => ExportInv /\ ContextInv
  BY WorkspaceStarts, ExportStarts, ContextStarts
<1>3. ExportInv /\ ContextInv /\ [WorkspaceNext]_workspaceVars => (ExportInv /\ ContextInv)'
  BY WorkspaceMoves, ExportSteps, ContextSteps
<1>4. QED
  BY <1>1, <1>2, <1>3, PTL DEF WorkspaceSpec

\* What is computed from data meets its definition, in the run's specification and for every
\* value of its constants: a plan makes each node once and parents first, and a comparison
\* shows both versions (materialize-plan.ts:121-181, diff.ts:121-245).
THEOREM DerivedStaysExact == WorkspaceSpec => []DerivedIsExact
<1>1. PlanInv /\ DiffInv => DerivedIsExact
  BY PlansAreOnce, ParentsComeFirst, DiffTells DEF DerivedIsExact
<1>2. WorkspaceInit => PlanInv /\ DiffInv
  BY WorkspaceStarts, PlanStarts, DiffStarts
<1>3. PlanInv /\ DiffInv /\ [WorkspaceNext]_workspaceVars => (PlanInv /\ DiffInv)'
  BY WorkspaceMoves, PlanSteps, DiffSteps
<1>4. QED
  BY <1>1, <1>2, <1>3, PTL DEF WorkspaceSpec
=============================================================================
