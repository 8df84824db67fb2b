-------------------------- MODULE GenerationProofs --------------------------
(***************************************************************************)
(* Proofs about what models make.                                          *)
(*                                                                         *)
(* GenerationJob, for every set of references, links and plans, any number *)
(* of runs, attempts and failures: what a job has on record is there, and  *)
(* stays on record as long as runs do not overlap.                         *)
(*                                                                         *)
(* AssistantChat, for every set of proposals and any numbers of steps,     *)
(* messages and moves: a proposal is carried out once at most, and one     *)
(* that was turned down never.                                             *)
(*                                                                         *)
(* RepoIngest, for every repository, table of slugs, and any numbers of    *)
(* runs, changes and crashes: what is imported is what the last            *)
(* undisturbed run saw, and only what went away is deprecated.             *)
(*                                                                         *)
(* SelectionRefine, for any passages and any numbers of texts, selections  *)
(* and suggestions: what is suggested is what was written for the passage, *)
(* once.                                                                   *)
(*                                                                         *)
(* Drafting, for any requests and any number of openings of the dialog:    *)
(* documents are whole, and a dialog is busy with its own request.         *)
(***************************************************************************)
EXTENDS GenerationJob, AssistantChat, RepoIngest, SelectionRefine, Drafting,
        FiniteSetTheorems, WellFoundedInduction, TLAPS

-----------------------------------------------------------------------------
(***************************************************************************)
(* GenerationJob.                                                          *)
(***************************************************************************)

\* What the state of a job may say when there are the documents ds and the dependencies
\* es: a document that is named was written for its reference, one that is done is named,
\* and an edge joins two documents that are named.
Sound(s, ds, es) ==
    /\ \A r \in Refs :
          /\ s.docs[r].doc # 0 => /\ s.docs[r].doc \in 1 .. Len(ds)
                                  /\ ds[s.docs[r].doc] = [ref |-> r, written |-> TRUE]
          /\ s.docs[r].status \in {"none", "pending"} => s.docs[r].doc = 0
          /\ s.docs[r].status = "done" => s.docs[r].doc # 0
    /\ \A e \in s.edges : /\ s.docs[e[1]].doc # 0 /\ s.docs[e[2]].doc # 0
                          /\ <<s.docs[e[1]].doc, s.docs[e[2]].doc>> \in es

AtDocument == {"create", "save", "done", "error"}
AtEdges == {"edges", "edged"}
BeforePlan == {"idle", "generate", "load", "started", "plan"}

\* What a run knows at each of its stages: the document in hand is one it made for the
\* reference it is at, which has none on its copy; references to be made have none, edges
\* to be made have both their ends; and of its plan, nothing is pending that it is past.
RunKnows(x, ds) ==
    /\ x.stage \in AtDocument => x.ref \in Refs /\ x.ref \notin x.todo
    /\ x.stage \notin {"save", "done", "error"} => x.doc = 0
    /\ x.stage \in {"save", "done"} => x.doc \in 1 .. Len(ds) /\ ds[x.doc].ref = x.ref
    /\ x.stage = "done" => ds[x.doc].written
    /\ x.stage \in {"create", "save", "done"} => x.state.docs[x.ref].doc = 0
    /\ x.stage = "error" => x.doc \in {0, x.state.docs[x.ref].doc}
    /\ x.stage \in BeforePlan \cup AtEdges => x.todo = {}
    /\ x.stage \notin AtEdges => x.edges = {}
    /\ \A r \in x.todo : x.state.docs[r].doc = 0
    /\ \A e \in x.edges : x.state.docs[e[1]].doc # 0 /\ x.state.docs[e[2]].doc # 0
    /\ x.stage \notin BeforePlan =>
          /\ x.state.wanted = x.plan
          /\ \A r \in x.plan :
                /\ x.state.docs[r].status # "none"
                /\ x.state.docs[r].status = "pending" =>
                      r \in x.todo \/ (x.stage \in AtDocument /\ r = x.ref)

\* A run that is alone keeps the record: the row names the documents its copy names,
\* until it has given up on the one it is at.
Keeps(x, progress) ==
    x.stage \notin {"idle", "generate", "load"} =>
        \A r \in Refs :
            \/ progress.docs[r].doc = x.state.docs[r].doc
            \/ x.stage = "error" /\ r = x.ref /\ progress.docs[r].doc = 0

RecordIsSound == Sound(row.progress, documents, deps) /\ CompletedIsComplete
RunsKnow ==
    \A i \in Runners : Sound(run[i].state, documents, deps) /\ RunKnows(run[i], documents)
OneRun ==
    ~overlapped => \A i, k \in Runners : run[i].stage # "idle" /\ run[k].stage # "idle" => i = k
RecordIsKept == ~overlapped => \A i \in Runners : Keeps(run[i], row.progress)

\* Every document is on record, or in the hands of a run.
NoneForgotten ==
    ~overlapped /\ ~orphaned =>
        \A d \in 1 .. Len(documents) :
            \/ row.progress.docs[documents[d].ref].doc = d
            \/ \E i \in Runners : run[i].doc = d /\ run[i].ref = documents[d].ref

\* The inductive invariant.
JobInv ==
    /\ TypeOK
    /\ RecordIsSound
    /\ RunsKnow
    /\ OneRun
    /\ RecordIsKept
    /\ NoneForgotten

-----------------------------------------------------------------------------
(***************************************************************************)
(* The reductions of events.                                               *)
(***************************************************************************)
LEMMA PlanFacts ==
    ASSUME NEW s \in States, NEW plan \in SUBSET Refs
    PROVE  /\ PlanEvent(s, plan) \in States
           /\ PlanEvent(s, plan).wanted = plan /\ PlanEvent(s, plan).edges = s.edges
           /\ \A r \in Refs : PlanEvent(s, plan).docs[r] =
                 IF r \in plan /\ s.docs[r].status = "none"
                 THEN [status |-> "pending", doc |-> 0] ELSE s.docs[r]
<1> DEFINE ps == [r \in Refs |-> IF r \in plan /\ s.docs[r].status = "none"
                                 THEN [status |-> "pending", doc |-> 0] ELSE s.docs[r]]
<1>1. ps \in [Refs -> Progress]
  BY DEF States, Progress
<1>a. PlanEvent(s, plan) = [s EXCEPT !.docs = ps, !.wanted = plan]
  BY DEF PlanEvent
<1>b. \A r \in Refs : ps[r] = IF r \in plan /\ s.docs[r].status = "none"
                              THEN [status |-> "pending", doc |-> 0] ELSE s.docs[r]
  OBVIOUS
<1> HIDE DEF ps
<1>2. PlanEvent(s, plan) = [docs |-> ps, wanted |-> plan, edges |-> s.edges]
  BY <1>a DEF States
<1>3. QED
  BY <1>1, <1>b, <1>2 DEF States

LEMMA DoneFacts ==
    ASSUME NEW s \in States, NEW r \in Refs, NEW d \in Nat
    PROVE  /\ DocDone(s, r, d) \in States
           /\ DocDone(s, r, d).wanted = s.wanted /\ DocDone(s, r, d).edges = s.edges
           /\ \A q \in Refs : q # r => DocDone(s, r, d).docs[q] = s.docs[q]
           /\ s.docs[r].status = "done" => DocDone(s, r, d) = s
           /\ s.docs[r].status # "done" =>
                 DocDone(s, r, d).docs[r] = [status |-> "done", doc |-> d]
<1> DEFINE p == [status |-> "done", doc |-> d]
           t == [s EXCEPT !.docs[r] = p]
<1>1. p \in Progress
  BY DEF Progress
<1>2. t = [docs |-> [s.docs EXCEPT ![r] = p], wanted |-> s.wanted, edges |-> s.edges]
  BY DEF States
<1>3. /\ [s.docs EXCEPT ![r] = p] \in [Refs -> Progress]
      /\ [s.docs EXCEPT ![r] = p][r] = p
      /\ \A q \in Refs : q # r => [s.docs EXCEPT ![r] = p][q] = s.docs[q]
  BY <1>1 DEF States
<1>4. t \in States /\ t.wanted = s.wanted /\ t.edges = s.edges /\ t.docs[r] = p
      /\ \A q \in Refs : q # r => t.docs[q] = s.docs[q]
  BY <1>2, <1>3 DEF States
<1>5. QED
  BY <1>4 DEF DocDone

LEMMA ErrorFacts ==
    ASSUME NEW s \in States, NEW r \in Refs
    PROVE  /\ DocError(s, r) \in States
           /\ DocError(s, r).wanted = s.wanted /\ DocError(s, r).edges = s.edges
           /\ \A q \in Refs : q # r => DocError(s, r).docs[q] = s.docs[q]
           /\ DocError(s, r).docs[r] = [status |-> "error", doc |-> s.docs[r].doc]
<1> DEFINE p == [status |-> "error", doc |-> s.docs[r].doc]
<1>1. s.docs[r] \in Progress /\ p \in Progress
  BY DEF Progress, States
<1>2. DocError(s, r) =
        [docs |-> [s.docs EXCEPT ![r] = p], wanted |-> s.wanted, edges |-> s.edges]
  BY <1>1 DEF States, DocError, Progress
<1>3. /\ [s.docs EXCEPT ![r] = p] \in [Refs -> Progress]
      /\ [s.docs EXCEPT ![r] = p][r] = p
      /\ \A q \in Refs : q # r => [s.docs EXCEPT ![r] = p][q] = s.docs[q]
  BY <1>1 DEF States
<1>4. QED
  BY <1>2, <1>3 DEF States

LEMMA EdgeFacts ==
    ASSUME NEW s \in States, NEW e \in Links
    PROVE  /\ EdgeDone(s, e) \in States
           /\ EdgeDone(s, e).wanted = s.wanted /\ EdgeDone(s, e).docs = s.docs
           /\ EdgeDone(s, e).edges = s.edges \cup {e}
BY DEF EdgeDone, States

\* A link joins two references.
LEMMA Ends == ASSUME NEW e \in Links PROVE e[1] \in Refs /\ e[2] \in Refs
BY ConstantsAssumption

-----------------------------------------------------------------------------
\* The tables grow: no document is taken away or unwritten, and no dependency removed.
Grown(ds, es, ds2, es2) ==
    /\ Len(ds) <= Len(ds2) /\ es \subseteq es2
    /\ \A d \in 1 .. Len(ds) : /\ ds2[d].ref = ds[d].ref
                               /\ ds[d].written => ds2[d] = ds[d]

MadeDocument == [ref : Refs, written : BOOLEAN]
Tables == Seq(MadeDocument)

LEMMA InTable ==
    ASSUME NEW ds \in Tables, NEW d \in 1 .. Len(ds)
    PROVE  ds[d] \in MadeDocument /\ ds[d].ref \in Refs /\ ds[d].written \in BOOLEAN
<1>1. ds[d] \in MadeDocument
  BY DEF Tables
<1>2. QED
  BY <1>1 DEF MadeDocument

LEMMA NotGrown ==
    ASSUME NEW ds \in Tables, NEW es PROVE Grown(ds, es, ds, es)
BY DEF Grown, Tables

LEMMA SoundGrows ==
    ASSUME NEW s \in States, NEW ds \in Tables, NEW es, NEW ds2 \in Tables, NEW es2,
           Sound(s, ds, es), Grown(ds, es, ds2, es2)
    PROVE  Sound(s, ds2, es2)
<1>1. ASSUME NEW r \in Refs, s.docs[r].doc # 0
      PROVE  s.docs[r].doc \in 1 .. Len(ds2) /\ ds2[s.docs[r].doc] = [ref |-> r, written |-> TRUE]
  <2>1. s.docs[r].doc \in 1 .. Len(ds) /\ ds[s.docs[r].doc] = [ref |-> r, written |-> TRUE]
    BY <1>1 DEF Sound
  <2>2. ds[s.docs[r].doc].written /\ Len(ds) \in Nat /\ Len(ds2) \in Nat
    BY <2>1 DEF Tables
  <2>3. QED
    BY <2>1, <2>2 DEF Grown
<1>2. QED
  BY <1>1 DEF Sound, Grown

LEMMA RunKnowsGrows ==
    ASSUME NEW x \in Runs, NEW ds \in Tables, NEW es, NEW ds2 \in Tables, NEW es2,
           RunKnows(x, ds), Grown(ds, es, ds2, es2)
    PROVE  RunKnows(x, ds2)
<1>1. Len(ds) \in Nat /\ Len(ds2) \in Nat
  BY DEF Tables
<1>2. x.stage \in {"save", "done"} => x.doc \in 1 .. Len(ds2) /\ ds2[x.doc].ref = x.ref
  BY <1>1 DEF RunKnows, Grown
<1>3. x.stage = "done" => ds2[x.doc].written
  BY <1>1 DEF RunKnows, Grown
<1>4. QED
  BY <1>2, <1>3 DEF RunKnows

\* A plan leaves what is named.
LEMMA SoundPlan ==
    ASSUME NEW s \in States, NEW plan \in SUBSET Refs, NEW ds, NEW es, Sound(s, ds, es)
    PROVE  Sound(PlanEvent(s, plan), ds, es)
<1> DEFINE t == PlanEvent(s, plan)
<1>1. ASSUME NEW r \in Refs
      PROVE  /\ t.docs[r].doc = s.docs[r].doc
             /\ t.docs[r].status = s.docs[r].status
                \/ (t.docs[r].status = "pending" /\ s.docs[r].doc = 0)
  <2>1. t.docs[r] = IF r \in plan /\ s.docs[r].status = "none"
                    THEN [status |-> "pending", doc |-> 0] ELSE s.docs[r]
    BY PlanFacts
  <2>2. s.docs[r].status = "none" => s.docs[r].doc = 0
    BY DEF Sound
  <2>3. QED
    BY <2>1, <2>2
<1>2. t.edges = s.edges /\ \A e \in s.edges : e[1] \in Refs /\ e[2] \in Refs
  BY PlanFacts, Ends DEF States
<1>3. QED
  BY <1>1, <1>2 DEF Sound

\* A document that was made for a reference that had none, and written.
LEMMA SoundDone ==
    ASSUME NEW s \in States, NEW r \in Refs, NEW ds \in Tables, NEW es, Sound(s, ds, es),
           NEW d \in 1 .. Len(ds), ds[d] = [ref |-> r, written |-> TRUE], s.docs[r].doc = 0
    PROVE  Sound(DocDone(s, r, d), ds, es)
<1> DEFINE t == DocDone(s, r, d)
<1>0. d \in Nat /\ d # 0
  BY DEF Tables
<1>1. s.docs[r].status # "done"
  BY DEF Sound
<1>2. /\ t.docs[r].doc = d /\ t.docs[r].status = "done"
      /\ \A q \in Refs : q # r => t.docs[q] = s.docs[q]
      /\ t.edges = s.edges
  <2>1. t.docs[r] = [status |-> "done", doc |-> d]
    BY <1>0, <1>1, DoneFacts
  <2>2. QED
    BY <1>0, <2>1, DoneFacts
<1>3. \A q \in Refs :
          /\ t.docs[q].doc # 0 => /\ t.docs[q].doc \in 1 .. Len(ds)
                                  /\ ds[t.docs[q].doc] = [ref |-> q, written |-> TRUE]
          /\ t.docs[q].status \in {"none", "pending"} => t.docs[q].doc = 0
          /\ t.docs[q].status = "done" => t.docs[q].doc # 0
  BY <1>0, <1>2 DEF Sound
<1>4. ASSUME NEW e \in s.edges
      PROVE  e[1] \in Refs /\ e[2] \in Refs /\ t.docs[e[1]] = s.docs[e[1]]
             /\ t.docs[e[2]] = s.docs[e[2]]
  BY <1>2, Ends DEF States, Sound
<1>5. QED
  BY <1>2, <1>3, <1>4 DEF Sound

LEMMA SoundError ==
    ASSUME NEW s \in States, NEW r \in Refs, NEW ds, NEW es, Sound(s, ds, es)
    PROVE  Sound(DocError(s, r), ds, es)
<1> DEFINE t == DocError(s, r)
<1>1. ASSUME NEW q \in Refs
      PROVE  /\ t.docs[q].doc = s.docs[q].doc
             /\ t.docs[q].status = s.docs[q].status \/ t.docs[q].status = "error"
  <2>1. t.docs[r] = [status |-> "error", doc |-> s.docs[r].doc]
        /\ (q # r => t.docs[q] = s.docs[q])
    BY ErrorFacts
  <2>2. QED
    BY <2>1
<1>2. t.edges = s.edges /\ \A e \in s.edges : e[1] \in Refs /\ e[2] \in Refs
  BY ErrorFacts, Ends DEF States
<1>3. QED
  BY <1>1, <1>2 DEF Sound

LEMMA SoundEdge ==
    ASSUME NEW s \in States, NEW e \in Links, NEW ds, NEW es, Sound(s, ds, es),
           s.docs[e[1]].doc # 0, s.docs[e[2]].doc # 0,
           <<s.docs[e[1]].doc, s.docs[e[2]].doc>> \in es
    PROVE  Sound(EdgeDone(s, e), ds, es)
BY EdgeFacts DEF Sound

-----------------------------------------------------------------------------
(***************************************************************************)
(* What a step of a run has to show.                                       *)
(***************************************************************************)

LEMMA RunFacts ==
    ASSUME JobInv, NEW i \in Runners
    PROVE  /\ run[i] \in Runs /\ run[i].state \in States /\ run[i].plan \in SUBSET Refs
           /\ run[i].stage \in Stages /\ run[i].doc \in Nat /\ run[i].todo \subseteq Refs
           /\ run[i].edges \subseteq Links /\ run[i].queued \in BOOLEAN
           /\ row.progress \in States /\ row.status \in RowStatuses
           /\ documents \in Tables /\ Len(documents) \in Nat
           /\ Sound(run[i].state, documents, deps) /\ RunKnows(run[i], documents)
           /\ Sound(row.progress, documents, deps)
<1>1. run[i] \in Runs /\ documents \in Tables /\ row \in [status : RowStatuses, progress : States]
  BY DEF JobInv, TypeOK, Tables, MadeDocument
<1>2. Len(documents) \in Nat
  BY <1>1 DEF Tables
<1>3. QED
  BY <1>1, <1>2 DEF JobInv, RecordIsSound, RunsKnow, Runs

LEMMA NoRunKnows ==
    /\ NoRun \in Runs /\ NoRun.stage = "idle" /\ NoRun.doc = 0 /\ NoRun.state \in States
    /\ \A ds, es : Sound(NoRun.state, ds, es) /\ RunKnows(NoRun, ds)
    /\ \A progress : Keeps(NoRun, progress)
<1>1. /\ InitialState \in States /\ InitialState.edges = {}
      /\ \A r \in Refs : InitialState.docs[r] = [status |-> "none", doc |-> 0]
  BY DEF InitialState, States, Progress
<1>2. /\ NoRun \in Runs /\ NoRun.stage = "idle" /\ NoRun.doc = 0 /\ NoRun.state = InitialState
      /\ NoRun.todo = {} /\ NoRun.edges = {}
  BY <1>1 DEF NoRun, Runs, Stages
<1>3. \A ds, es : Sound(InitialState, ds, es)
  BY <1>1 DEF Sound
<1>4. \A ds : RunKnows(NoRun, ds)
  BY <1>2 DEF RunKnows, BeforePlan, AtDocument, AtEdges
<1>5. \A progress : Keeps(NoRun, progress)
  BY <1>2 DEF Keeps
<1>6. QED
  BY <1>1, <1>2, <1>3, <1>4, <1>5

\* Where runs do not overlap, a document that is not on record is in the hands of the one
\* that is active.
LEMMA InHand ==
    ASSUME JobInv, NEW i \in Runners, run[i].stage # "idle", ~overlapped, ~orphaned,
           NEW d \in 1 .. Len(documents)
    PROVE  \/ row.progress.docs[documents[d].ref].doc = d
           \/ run[i].doc = d /\ run[i].ref = documents[d].ref
<1>1. CASE row.progress.docs[documents[d].ref].doc = d
  BY <1>1
<1>2. ASSUME NEW k \in Runners, run[k].doc = d, run[k].ref = documents[d].ref
      PROVE  run[i].doc = d /\ run[i].ref = documents[d].ref
  <2>1. d # 0
    BY RunFacts
  <2>2. run[k].stage # "idle"
    BY <1>2, <2>1, RunFacts DEF RunKnows
  <2>3. k = i
    BY <2>2 DEF JobInv, OneRun
  <2>4. QED
    BY <1>2, <2>3
<1>3. QED
  BY <1>1, <1>2 DEF JobInv, NoneForgotten

\* A step of run i, which becomes x: the others are where they were, or, where runs do not
\* overlap, there are none.
LEMMA RunMoves ==
    ASSUME JobInv, NEW i \in Runners, NEW x \in Runs, run[i].stage # "idle", Goes(i, x),
           TypeOK', Grown(documents, deps, documents', deps'), RecordIsSound',
           Sound(x.state, documents', deps'), RunKnows(x, documents'),
           overlapped' = overlapped,
           ~overlapped => Keeps(x, row'.progress),
           ~overlapped /\ ~orphaned' =>
               \A d \in 1 .. Len(documents') :
                   \/ row'.progress.docs[documents'[d].ref].doc = d
                   \/ x.doc = d /\ x.ref = documents'[d].ref
    PROVE  JobInv'
<1>1. run'[i] = x /\ \A k \in Runners : k # i => run'[k] = run[k]
  BY DEF Goes, JobInv, TypeOK
<1>2. documents' \in Tables
  BY DEF TypeOK, Tables, MadeDocument
<1>3. RunsKnow'
  <2> SUFFICES ASSUME NEW k \in Runners
               PROVE  Sound(run'[k].state, documents', deps') /\ RunKnows(run'[k], documents')
    BY DEF RunsKnow
  <2>1. CASE k = i
    BY <1>1, <2>1
  <2>2. CASE k # i
    <3>1. Sound(run[k].state, documents', deps')
      BY <1>2, RunFacts, SoundGrows
    <3>2. RunKnows(run[k], documents')
      BY <1>2, RunFacts, RunKnowsGrows
    <3>3. QED
      BY <1>1, <2>2, <3>1, <3>2
  <2>3. QED
    BY <2>1, <2>2
<1>4. ~overlapped => \A k \in Runners : k # i => run'[k].stage = "idle"
  BY <1>1 DEF JobInv, OneRun
<1>5. OneRun'
  BY <1>4 DEF OneRun
<1>6. RecordIsKept'
  BY <1>1, <1>4 DEF RecordIsKept, Keeps
<1>7. NoneForgotten'
  BY <1>1 DEF NoneForgotten
<1>8. QED
  BY <1>3, <1>5, <1>6, <1>7 DEF JobInv

\* A step of a run that leaves the row and the documents as they are, and lets go of the
\* document it has in hand, if at all, where that is on record, or counts as forgotten.
LEMMA RunMovesQuietly ==
    ASSUME JobInv, NEW i \in Runners, NEW x \in Runs, run[i].stage # "idle", Goes(i, x),
           TypeOK', UNCHANGED <<documents, overlapped>>, deps \subseteq deps',
           row' = row \/ (row'.progress = row.progress /\ row'.status # "COMPLETED"),
           Sound(x.state, documents, deps'), RunKnows(x, documents),
           ~overlapped => Keeps(x, row.progress),
           ~overlapped /\ ~orphaned' =>
               /\ ~orphaned
               /\ \/ run[i].doc = 0 \/ (x.doc = run[i].doc /\ x.ref = run[i].ref)
                  \/ row.progress.docs[run[i].ref].doc = run[i].doc
    PROVE  JobInv'
<1>1. Grown(documents, deps, documents', deps')
  BY RunFacts DEF Grown
<1>2. RecordIsSound'
  <2>1. Sound(row.progress, documents, deps')
    BY RunFacts, SoundGrows, <1>1
  <2>2. QED
    BY <2>1 DEF RecordIsSound, JobInv, CompletedIsComplete
<1>3. ASSUME ~overlapped, ~orphaned', NEW d \in 1 .. Len(documents)
      PROVE  \/ row.progress.docs[documents[d].ref].doc = d
             \/ x.doc = d /\ x.ref = documents[d].ref
  <2>1. d # 0
    BY RunFacts
  <2>2. QED
    BY <1>3, <2>1, InHand
<1>4. QED
  BY <1>1, <1>2, <1>3, RunMoves

\* A step that writes a state onto the row, with the document the run has in hand.
LEMMA RunWrites ==
    ASSUME JobInv, NEW i \in Runners, NEW x \in Runs, NEW s \in States,
           run[i].stage # "idle", Goes(i, x), x.state = s \/ x = NoRun,
           TypeOK', UNCHANGED <<tables, past>>, row'.progress = s, CompletedIsComplete',
           Sound(s, documents, deps), RunKnows(x, documents),
           ~overlapped => \A r \in Refs :
               row.progress.docs[r].doc # 0 => s.docs[r].doc = row.progress.docs[r].doc,
           ~overlapped /\ run[i].doc # 0 =>
               run[i].ref \in Refs /\ s.docs[run[i].ref].doc = run[i].doc
    PROVE  JobInv'
<1>1. Grown(documents, deps, documents', deps')
  BY RunFacts, NotGrown DEF tables
<1>2. RecordIsSound' /\ Sound(x.state, documents, deps)
  BY NoRunKnows DEF RecordIsSound, tables
<1>3. Keeps(x, row'.progress)
  BY NoRunKnows DEF Keeps
<1>4. ASSUME ~overlapped, ~orphaned, NEW d \in 1 .. Len(documents)
      PROVE  row'.progress.docs[documents[d].ref].doc = d
  <2>2. d # 0 /\ documents[d].ref \in Refs
    BY RunFacts, InTable
  <2>3. QED
    BY <1>4, <2>2, InHand
<1>5. QED
  BY <1>1, <1>2, <1>3, <1>4, RunMoves DEF tables, past

\* What a run that is alone has on its copy, while it has one.
LEMMA RecordOnCopy ==
    ASSUME JobInv, NEW i \in Runners, run[i].stage \notin {"idle", "generate", "load"},
           ~overlapped, NEW r \in Refs, row.progress.docs[r].doc # 0
    PROVE  run[i].state.docs[r].doc = row.progress.docs[r].doc
BY DEF JobInv, RecordIsKept, Keeps

-----------------------------------------------------------------------------
(***************************************************************************)
(* The steps of a run, up to its plan.                                     *)
(***************************************************************************)
LEMMA GeneratedInv ==
    ASSUME JobInv, NEW i \in Runners, Generated(i) PROVE JobInv'
<1>1. PICK p \in Plans : Goes(i, [run[i] EXCEPT !.stage = "load", !.plan = p])
  BY DEF Generated
<1> DEFINE x == [run[i] EXCEPT !.stage = "load", !.plan = p]
<1>2. /\ x \in Runs /\ x.stage = "load" /\ x.state = run[i].state /\ x.doc = run[i].doc
      /\ x.todo = run[i].todo /\ x.edges = run[i].edges /\ x.ref = run[i].ref
  <2>1. p \in SUBSET Refs
    BY ConstantsAssumption
  <2>2. QED
    BY <2>1, RunFacts DEF Runs, Stages
<1>3. TypeOK'
  BY <1>1, <1>2 DEF JobInv, TypeOK, Generated, Goes, tables, calls, past
<1>4. RunKnows(x, documents)
  BY <1>2, RunFacts DEF RunKnows, BeforePlan, AtDocument, AtEdges, Generated
<1>5. Keeps(x, row.progress)
  BY <1>2 DEF Keeps
<1>6. QED
  BY <1>1, <1>2, <1>3, <1>4, <1>5, RunFacts, RunMovesQuietly DEF Generated, tables, past

LEMMA GenerationFailsInv ==
    ASSUME JobInv, NEW i \in Runners, GenerationFails(i) PROVE JobInv'
<1>1. Goes(i, NoRun) /\ job' \in [place : JobPlaces, attempts : 0 .. Attempts]
  BY DEF GenerationFails, Returns, JobInv, TypeOK, JobPlaces
<1>2. row' \in [status : RowStatuses, progress : States] /\ row'.progress = row.progress
      /\ row'.status # "COMPLETED"
  BY DEF GenerationFails, JobInv, TypeOK, RowStatuses
<1>3. TypeOK'
  BY <1>1, <1>2, NoRunKnows DEF JobInv, TypeOK, GenerationFails, Goes, Trouble, tables, calls, past
<1>4. run[i].doc = 0 /\ run[i].stage # "idle"
  BY RunFacts DEF RunKnows, GenerationFails
<1>5. QED
  BY <1>1, <1>2, <1>3, <1>4, NoRunKnows, RunMovesQuietly DEF GenerationFails, tables, past

LEMMA LoadJobStateInv ==
    ASSUME JobInv, NEW i \in Runners, LoadJobState(i) PROVE JobInv'
<1> DEFINE x == [run[i] EXCEPT !.stage = "started", !.state = row.progress]
<1>1. Goes(i, x) /\ UNCHANGED <<row, documents, deps, past>>
  BY DEF LoadJobState, tables
<1>2. /\ x \in Runs /\ x.stage = "started" /\ x.state = row.progress /\ x.doc = run[i].doc
      /\ x.todo = run[i].todo /\ x.edges = run[i].edges /\ x.ref = run[i].ref
  BY RunFacts DEF Runs, Stages
<1>3. TypeOK'
  BY <1>1, <1>2 DEF JobInv, TypeOK, LoadJobState, Goes, tables, calls, past
<1>4. RunKnows(x, documents)
  BY <1>2, RunFacts DEF RunKnows, BeforePlan, AtDocument, AtEdges, LoadJobState
<1>5. Keeps(x, row.progress)
  BY <1>2 DEF Keeps
<1>6. Sound(x.state, documents, deps') /\ run[i].stage # "idle"
  BY <1>1, <1>2, RunFacts DEF LoadJobState
<1> HIDE DEF x
<1>7. QED
  BY <1>1, <1>2, <1>3, <1>4, <1>5, <1>6, RunMovesQuietly DEF LoadJobState, past

LEMMA ApplyStartedInv ==
    ASSUME JobInv, NEW i \in Runners, ApplyStarted(i) PROVE JobInv'
<1> DEFINE x == [run[i] EXCEPT !.stage = "plan"]
<1>1. /\ Goes(i, x) /\ UNCHANGED <<redis, job, tables, calls, troubles, past>>
      /\ row' = [status |-> "RUNNING", progress |-> run[i].state]
  BY DEF ApplyStarted, Persist
<1>2. /\ x \in Runs /\ x.stage = "plan" /\ x.state = run[i].state /\ x.doc = run[i].doc
      /\ x.todo = run[i].todo /\ x.edges = run[i].edges /\ x.ref = run[i].ref
  BY RunFacts DEF Runs, Stages
<1>3. TypeOK' /\ CompletedIsComplete' /\ row'.progress = run[i].state
  BY <1>1, <1>2, RunFacts
     DEF JobInv, TypeOK, RowStatuses, Goes, tables, calls, past, CompletedIsComplete
<1>4. RunKnows(x, documents) /\ run[i].doc = 0
  BY <1>2, RunFacts DEF RunKnows, BeforePlan, AtDocument, AtEdges, ApplyStarted
<1>5. QED
  BY <1>1, <1>2, <1>3, <1>4, RunFacts, RecordOnCopy, RunWrites DEF ApplyStarted

\* The plan is on the copy and on the row; what it asks for is pending, or was made before.
LEMMA ApplyPlanInv ==
    ASSUME JobInv, NEW i \in Runners, ApplyPlan(i) PROVE JobInv'
<1> DEFINE s == PlanEvent(run[i].state, run[i].plan)
           x == [run[i] EXCEPT !.stage = "docs", !.state = s, !.todo = Todo(s, run[i].plan)]
<1>1. /\ Goes(i, x) /\ UNCHANGED <<redis, job, tables, calls, troubles, past>>
      /\ row' = [status |-> "RUNNING", progress |-> s]
  BY DEF ApplyPlan, Persist
<1>2. /\ s \in States /\ s.wanted = run[i].plan
      /\ \A r \in Refs : s.docs[r] = IF r \in run[i].plan /\ run[i].state.docs[r].status = "none"
                                     THEN [status |-> "pending", doc |-> 0]
                                     ELSE run[i].state.docs[r]
      /\ Sound(s, documents, deps)
  BY RunFacts, PlanFacts, SoundPlan
<1> HIDE DEF s
<1>3. \A r \in Refs : s.docs[r].doc = run[i].state.docs[r].doc
  <2>1. \A r \in Refs : run[i].state.docs[r].status = "none" => run[i].state.docs[r].doc = 0
    <3>1. Sound(run[i].state, documents, deps)
      BY RunFacts
    <3>2. QED
      BY <3>1 DEF Sound
  <2>2. ASSUME NEW r \in Refs PROVE s.docs[r].doc = run[i].state.docs[r].doc
    <3>1. s.docs[r] = IF r \in run[i].plan /\ run[i].state.docs[r].status = "none"
                      THEN [status |-> "pending", doc |-> 0] ELSE run[i].state.docs[r]
      BY <1>2
    <3>2. QED
      BY <2>1, <3>1
  <2>3. QED
    BY <2>2
<1>4. Todo(s, run[i].plan) \subseteq Refs
  BY RunFacts DEF Todo
<1>5. /\ x \in Runs /\ x.stage = "docs" /\ x.state = s /\ x.doc = run[i].doc /\ x.plan = run[i].plan
      /\ x.todo = Todo(s, run[i].plan) /\ x.edges = run[i].edges /\ x.ref = run[i].ref
  BY <1>2, <1>4, RunFacts DEF Runs, Stages
<1>6. TypeOK' /\ CompletedIsComplete' /\ row'.progress = s
  BY <1>1, <1>2, <1>5
     DEF JobInv, TypeOK, RowStatuses, Goes, tables, calls, past, CompletedIsComplete
<1>7. run[i].doc = 0 /\ run[i].edges = {} /\ run[i].stage = "plan"
  BY RunFacts DEF RunKnows, AtEdges, ApplyPlan
<1>8. RunKnows(x, documents)
  <2>1. \A r \in run[i].plan :
           /\ s.docs[r].status # "none"
           /\ s.docs[r].status = "pending" => r \in Todo(s, run[i].plan)
    <3>1. ASSUME NEW r \in run[i].plan PROVE r \in Refs /\ s.docs[r].status # "none"
      <4>1. r \in Refs
        BY RunFacts
      <4>2. QED
        BY <1>2, <4>1
    <3>2. \A r \in Refs : s.docs[r].status = "pending" => s.docs[r].doc = 0
      BY <1>2 DEF Sound
    <3>3. QED
      BY <3>1, <3>2 DEF Todo
  <2>2. \A r \in Todo(s, run[i].plan) : s.docs[r].doc = 0
    BY DEF Todo
  <2>3. QED
    BY <1>2, <1>5, <1>7, <2>1, <2>2 DEF RunKnows, BeforePlan, AtDocument, AtEdges
<1> HIDE DEF x
<1>9. QED
  BY <1>1, <1>2, <1>3, <1>5, <1>6, <1>7, <1>8, RecordOnCopy, RunWrites

-----------------------------------------------------------------------------
(***************************************************************************)
(* The documents of a plan.                                                *)
(***************************************************************************)
LEMMA ApplyDocStartedInv ==
    ASSUME JobInv, NEW i \in Runners, ApplyDocStarted(i) PROVE JobInv'
<1>1. PICK r \in run[i].todo : Goes(i, [run[i] EXCEPT !.stage = "create", !.ref = r, !.doc = 0,
                                                      !.todo = @ \ {r}])
  BY DEF ApplyDocStarted
<1> DEFINE x == [run[i] EXCEPT !.stage = "create", !.ref = r, !.doc = 0, !.todo = @ \ {r}]
<1>2. /\ UNCHANGED <<redis, job, tables, calls, troubles, past>> /\ run[i].stage = "docs"
      /\ row' = [status |-> "RUNNING", progress |-> run[i].state]
  BY DEF ApplyDocStarted, Persist
<1>3. r \in Refs /\ Goes(i, x)
  BY <1>1, RunFacts
<1>4. /\ x \in Runs /\ x.stage = "create" /\ x.state = run[i].state /\ x.doc = 0
      /\ x.plan = run[i].plan /\ x.todo = run[i].todo \ {r} /\ x.edges = run[i].edges /\ x.ref = r
  BY <1>3, RunFacts DEF Runs, Stages
<1> HIDE DEF x
<1>5. TypeOK' /\ CompletedIsComplete' /\ row'.progress = run[i].state
  BY <1>2, <1>3, <1>4, RunFacts
     DEF JobInv, TypeOK, RowStatuses, Goes, tables, calls, past, CompletedIsComplete
<1>6. RunKnows(x, documents) /\ run[i].doc = 0
  BY <1>2, <1>3, <1>4, RunFacts DEF RunKnows, BeforePlan, AtDocument, AtEdges
<1>7. QED
  BY <1>2, <1>3, <1>4, <1>5, <1>6, RunFacts, RecordOnCopy, RunWrites

\* A document is made: it is in the hands of the run, which has none of its reference.
LEMMA CreateDocumentInv ==
    ASSUME JobInv, NEW i \in Runners, CreateDocument(i) PROVE JobInv'
<1> DEFINE new == [ref |-> run[i].ref, written |-> FALSE]
           n == Len(documents) + 1
           x == [run[i] EXCEPT !.stage = "save", !.doc = n]
<1>1. /\ documents' = Append(documents, new) /\ Goes(i, x) /\ run[i].stage = "create"
      /\ UNCHANGED <<redis, job, row, deps, calls, troubles, past>>
  BY DEF CreateDocument
<1>2. run[i].ref \in Refs /\ run[i].doc = 0 /\ n \in Nat
  BY <1>1, RunFacts DEF RunKnows, AtDocument
<1>3. /\ x \in Runs /\ x.stage = "save" /\ x.state = run[i].state /\ x.doc = n
      /\ x.plan = run[i].plan /\ x.todo = run[i].todo /\ x.edges = run[i].edges
      /\ x.ref = run[i].ref
  BY <1>2, RunFacts DEF Runs, Stages
<1> HIDE DEF x
<1>4. /\ documents' \in Tables /\ Len(documents') = n /\ documents'[n] = new
      /\ new.ref = run[i].ref
      /\ \A d \in 1 .. Len(documents) : documents'[d] = documents[d]
  <2>1. new \in MadeDocument /\ new.ref = run[i].ref /\ documents \in Tables
    BY <1>2, RunFacts DEF MadeDocument
  <2> HIDE DEF new
  <2>2. QED
    BY <1>1, <2>1 DEF Tables
<1>5. Grown(documents, deps, documents', deps')
  BY <1>1, <1>4, RunFacts DEF Grown
<1>6. TypeOK'
  <2>1. deps' \subseteq (1 .. Len(documents')) \X (1 .. Len(documents'))
    BY <1>1, <1>4, RunFacts DEF JobInv, TypeOK
  <2>2. QED
    BY <1>1, <1>3, <1>4, <2>1 DEF JobInv, TypeOK, Tables, MadeDocument, Goes, calls, past
<1>7. Sound(x.state, documents', deps') /\ Sound(row.progress, documents', deps')
  BY <1>3, <1>4, <1>5, RunFacts, SoundGrows
<1>8. RecordIsSound'
  BY <1>1, <1>7 DEF JobInv, RecordIsSound, CompletedIsComplete
<1>9. RunKnows(x, documents')
  <2>1. n \in 1 .. Len(documents')
    BY <1>2, <1>4, RunFacts
  <2>2. QED
    BY <1>1, <1>2, <1>3, <1>4, <2>1, RunFacts DEF RunKnows, BeforePlan, AtDocument, AtEdges
<1>10. ~overlapped => Keeps(x, row'.progress)
  BY <1>1, <1>3 DEF JobInv, RecordIsKept, Keeps
<1>11. ASSUME ~overlapped, ~orphaned', NEW d \in 1 .. Len(documents')
       PROVE  \/ row'.progress.docs[documents'[d].ref].doc = d
              \/ x.doc = d /\ x.ref = documents'[d].ref
  <2>1. CASE d = n
    BY <1>3, <1>4, <2>1
  <2>2. CASE d # n
    <3>1. d \in 1 .. Len(documents) /\ d # 0
      BY <1>4, <2>2, RunFacts
    <3>2. QED
      BY <1>1, <1>2, <1>4, <1>11, <3>1, InHand DEF past
  <2>3. QED
    BY <2>1, <2>2
<1>12. QED
  BY <1>1, <1>3, <1>5, <1>6, <1>7, <1>8, <1>9, <1>10, <1>11, RunMoves DEF past

LEMMA SaveDocumentContentInv ==
    ASSUME JobInv, NEW i \in Runners, SaveDocumentContent(i) PROVE JobInv'
<1> DEFINE n == run[i].doc
           x == [run[i] EXCEPT !.stage = "done"]
<1>1. /\ documents' = [documents EXCEPT ![n].written = TRUE] /\ Goes(i, x)
      /\ run[i].stage = "save"
      /\ UNCHANGED <<redis, job, row, deps, calls, troubles, past>>
  BY DEF SaveDocumentContent
<1>2. run[i].ref \in Refs /\ n \in 1 .. Len(documents) /\ documents[n].ref = run[i].ref
  BY <1>1, RunFacts DEF RunKnows, AtDocument
<1>3. /\ x \in Runs /\ x.stage = "done" /\ x.state = run[i].state /\ x.doc = n
      /\ x.plan = run[i].plan /\ x.todo = run[i].todo /\ x.edges = run[i].edges
      /\ x.ref = run[i].ref
  BY <1>2, RunFacts DEF Runs, Stages
<1> HIDE DEF x
<1>4. /\ documents' \in Tables /\ Len(documents') = Len(documents)
      /\ documents'[n].ref = documents[n].ref /\ documents'[n].written
      /\ documents[n].written => documents'[n] = documents[n]
      /\ \A d \in 1 .. Len(documents) : d # n => documents'[d] = documents[d]
  <2>1. documents \in Tables
    BY RunFacts
  <2>2. documents[n] \in MadeDocument
    BY <1>2, <2>1, InTable
  <2> DEFINE new == [documents[n] EXCEPT !.written = TRUE]
  <2>3. /\ new \in MadeDocument /\ new.ref = documents[n].ref /\ new.written
        /\ (documents[n].written => new = documents[n])
    BY <2>2 DEF MadeDocument
  <2>4. documents' = [documents EXCEPT ![n] = new]
    BY <1>1
  <2> HIDE DEF new
  <2>5. /\ documents' \in Tables /\ Len(documents') = Len(documents) /\ documents'[n] = new
        /\ \A d \in 1 .. Len(documents) : d # n => documents'[d] = documents[d]
    BY <1>2, <2>1, <2>3, <2>4 DEF Tables
  <2>6. QED
    BY <2>3, <2>5
<1>5. Grown(documents, deps, documents', deps')
  BY <1>1, <1>4, RunFacts DEF Grown
<1>6. TypeOK'
  BY <1>1, <1>3, <1>4 DEF JobInv, TypeOK, Tables, MadeDocument, Goes, calls, past
<1>7. Sound(x.state, documents', deps') /\ Sound(row.progress, documents', deps')
  BY <1>3, <1>4, <1>5, RunFacts, SoundGrows
<1>8. RecordIsSound'
  BY <1>1, <1>7 DEF JobInv, RecordIsSound, CompletedIsComplete
<1>9. RunKnows(x, documents')
  <2>1. /\ x.doc \in 1 .. Len(documents') /\ documents'[x.doc].ref = x.ref
        /\ documents'[x.doc].written
    BY <1>2, <1>3, <1>4
  <2>2. /\ run[i].ref \notin run[i].todo /\ run[i].edges = {}
        /\ run[i].state.docs[run[i].ref].doc = 0
        /\ \A r \in run[i].todo : run[i].state.docs[r].doc = 0
        /\ run[i].state.wanted = run[i].plan
        /\ \A r \in run[i].plan :
              /\ run[i].state.docs[r].status # "none"
              /\ run[i].state.docs[r].status = "pending" => r \in run[i].todo \/ r = run[i].ref
    BY <1>1, RunFacts DEF RunKnows, BeforePlan, AtDocument, AtEdges
  <2>3. QED
    BY <1>2, <1>3, <2>1, <2>2 DEF RunKnows, BeforePlan, AtDocument, AtEdges
<1>10. ~overlapped => Keeps(x, row'.progress)
  BY <1>1, <1>3 DEF JobInv, RecordIsKept, Keeps
<1>11. ASSUME ~overlapped, ~orphaned', NEW d \in 1 .. Len(documents')
       PROVE  \/ row'.progress.docs[documents'[d].ref].doc = d
              \/ x.doc = d /\ x.ref = documents'[d].ref
  <2>1. d \in 1 .. Len(documents) /\ documents'[d].ref = documents[d].ref
    BY <1>4
  <2>2. QED
    BY <1>1, <1>3, <1>11, <2>1, InHand DEF past
<1>12. QED
  BY <1>1, <1>3, <1>5, <1>6, <1>7, <1>8, <1>9, <1>10, <1>11, RunMoves DEF past

\* The run lets go of the document it may have made: it counts as forgotten.
LEMMA DocumentFailsInv ==
    ASSUME JobInv, NEW i \in Runners, DocumentFails(i) PROVE JobInv'
<1> DEFINE x == [run[i] EXCEPT !.stage = "error", !.doc = 0]
<1>1. /\ Goes(i, x) /\ run[i].stage \in {"create", "save"}
      /\ orphaned' = (orphaned \/ run[i].doc # 0)
      /\ UNCHANGED <<redis, job, row, tables, calls, overlapped>> /\ troubles' = troubles + 1
  BY DEF DocumentFails, Trouble
<1>2. /\ x \in Runs /\ x.stage = "error" /\ x.state = run[i].state /\ x.doc = 0
      /\ x.plan = run[i].plan /\ x.todo = run[i].todo /\ x.edges = run[i].edges
      /\ x.ref = run[i].ref
  BY RunFacts DEF Runs, Stages
<1> HIDE DEF x
<1>3. TypeOK'
  BY <1>1, <1>2 DEF JobInv, TypeOK, Goes, tables, calls
<1>4. RunKnows(x, documents)
  BY <1>1, <1>2, RunFacts DEF RunKnows, BeforePlan, AtDocument, AtEdges
<1>5. ~overlapped => Keeps(x, row.progress)
  BY <1>1, <1>2 DEF JobInv, RecordIsKept, Keeps
<1>6. Sound(x.state, documents, deps') /\ UNCHANGED <<documents, deps>>
  BY <1>1, <1>2, RunFacts DEF tables
<1>7. ~orphaned' => ~orphaned /\ run[i].doc = 0
  BY <1>1 DEF JobInv, TypeOK
<1>8. QED
  BY <1>1, <1>2, <1>3, <1>4, <1>5, <1>6, <1>7, RunMovesQuietly

\* DocDone on the copy of a run that has written the document in its hands.
DoneOnCopy(i, s) ==
    /\ s \in States /\ s.wanted = run[i].plan /\ Sound(s, documents, deps)
    /\ run[i].ref \in Refs /\ run[i].ref \notin run[i].todo /\ run[i].edges = {}
    /\ run[i].state.docs[run[i].ref].doc = 0
    /\ s.docs[run[i].ref].doc = run[i].doc
    /\ \A r \in Refs : r # run[i].ref => s.docs[r].doc = run[i].state.docs[r].doc
    /\ \A r \in run[i].todo : s.docs[r].doc = 0
    /\ \A r \in run[i].plan : /\ s.docs[r].status # "none"
                              /\ s.docs[r].status = "pending" => r \in run[i].todo

LEMMA DoneIsOnCopy ==
    ASSUME JobInv, NEW i \in Runners, run[i].stage = "done"
    PROVE  DoneOnCopy(i, DocDone(run[i].state, run[i].ref, run[i].doc))
<1> DEFINE n == run[i].doc
           s == DocDone(run[i].state, run[i].ref, n)
<1>1. /\ run[i].ref \in Refs /\ run[i].ref \notin run[i].todo /\ run[i].edges = {}
      /\ n \in 1 .. Len(documents) /\ documents[n].ref = run[i].ref /\ documents[n].written
      /\ run[i].state.docs[run[i].ref].doc = 0
      /\ \A r \in run[i].todo : run[i].state.docs[r].doc = 0
      /\ run[i].state.wanted = run[i].plan
      /\ \A r \in run[i].plan :
            /\ run[i].state.docs[r].status # "none"
            /\ run[i].state.docs[r].status = "pending" => r \in run[i].todo \/ r = run[i].ref
  BY RunFacts DEF RunKnows, BeforePlan, AtDocument, AtEdges
<1>2. documents[n] = [ref |-> run[i].ref, written |-> TRUE]
  <2>1. documents[n] \in MadeDocument
    BY <1>1, RunFacts, InTable
  <2>2. QED
    BY <1>1, <2>1 DEF MadeDocument
<1>3. /\ run[i].state \in States /\ documents \in Tables /\ n \in Nat
      /\ Sound(run[i].state, documents, deps)
      /\ run[i].todo \subseteq Refs /\ run[i].plan \subseteq Refs
  BY RunFacts
<1>4. s \in States /\ s.wanted = run[i].plan /\ Sound(s, documents, deps)
  BY <1>1, <1>2, <1>3, DoneFacts, SoundDone
<1>5. run[i].state.docs[run[i].ref].status # "done"
  BY <1>1, <1>3 DEF Sound
<1>6. /\ s.docs[run[i].ref] = [status |-> "done", doc |-> n]
      /\ \A r \in Refs : r # run[i].ref => s.docs[r] = run[i].state.docs[r]
  BY <1>1, <1>3, <1>5, DoneFacts
<1> HIDE DEF s
<1>7. ASSUME NEW r \in run[i].plan
      PROVE  s.docs[r].status # "none" /\ (s.docs[r].status = "pending" => r \in run[i].todo)
  BY <1>1, <1>3, <1>6
<1>8. \A r \in run[i].todo : s.docs[r].doc = 0
  BY <1>1, <1>3, <1>6
<1>9. s.docs[run[i].ref].doc = n
      /\ \A r \in Refs : r # run[i].ref => s.docs[r].doc = run[i].state.docs[r].doc
  BY <1>6
<1>10. DoneOnCopy(i, s)
  BY <1>1, <1>4, <1>7, <1>8, <1>9 DEF DoneOnCopy
<1>11. QED
  BY <1>10 DEF s

\* The document is on the copy and on the row.
LEMMA ApplyDocDoneInv ==
    ASSUME JobInv, NEW i \in Runners, ApplyDocDone(i) PROVE JobInv'
<1> DEFINE n == run[i].doc
           s == DocDone(run[i].state, run[i].ref, n)
           x == [run[i] EXCEPT !.stage = "docs", !.state = s, !.ref = None, !.doc = 0]
<1>1. /\ Goes(i, x) /\ UNCHANGED <<redis, job, tables, calls, troubles, past>>
      /\ row' = [status |-> "RUNNING", progress |-> s] /\ run[i].stage = "done"
  BY DEF ApplyDocDone, Persist
<1>2. DoneOnCopy(i, s)
  BY <1>1, DoneIsOnCopy
<1> HIDE DEF s
<1>3. /\ x \in Runs /\ x.stage = "docs" /\ x.state = s /\ x.doc = 0 /\ x.plan = run[i].plan
      /\ x.todo = run[i].todo /\ x.edges = run[i].edges /\ x.ref = None
  BY <1>2, RunFacts DEF Runs, Stages, DoneOnCopy
<1> HIDE DEF x
<1>4. TypeOK' /\ CompletedIsComplete' /\ row'.progress = s
  BY <1>1, <1>2, <1>3
     DEF JobInv, TypeOK, RowStatuses, Goes, tables, calls, past, CompletedIsComplete, DoneOnCopy
<1>5. RunKnows(x, documents)
  BY <1>2, <1>3, RunFacts DEF RunKnows, BeforePlan, AtDocument, AtEdges, DoneOnCopy
<1>6. ~overlapped => \A r \in Refs :
          row.progress.docs[r].doc # 0 => s.docs[r].doc = row.progress.docs[r].doc
  BY <1>1, <1>2, RecordOnCopy DEF DoneOnCopy
<1>7. QED
  BY <1>1, <1>2, <1>3, <1>4, <1>5, <1>6, RunWrites DEF DoneOnCopy

\* It is on the copy, and the write fails: the run goes on to the error.
LEMMA ApplyDocDoneFailsInv ==
    ASSUME JobInv, NEW i \in Runners, ApplyDocDoneFails(i) PROVE JobInv'
<1> DEFINE n == run[i].doc
           s == DocDone(run[i].state, run[i].ref, n)
           x == [run[i] EXCEPT !.stage = "error", !.state = s]
<1>1. /\ Goes(i, x) /\ UNCHANGED <<redis, job, row, tables, calls, past>>
      /\ troubles' = troubles + 1 /\ run[i].stage = "done"
  <2>1. [run[i] EXCEPT !.stage = "error", !.state = DocDone(@, run[i].ref, run[i].doc)] = x
    OBVIOUS
  <2>2. QED
    BY <2>1 DEF ApplyDocDoneFails, Trouble
<1>2. DoneOnCopy(i, s)
  BY <1>1, DoneIsOnCopy
<1> HIDE DEF s
<1>3. /\ x \in Runs /\ x.stage = "error" /\ x.state = s /\ x.doc = n /\ x.plan = run[i].plan
      /\ x.todo = run[i].todo /\ x.edges = run[i].edges /\ x.ref = run[i].ref
  BY <1>2, RunFacts DEF Runs, Stages, DoneOnCopy
<1> HIDE DEF x
<1>4. TypeOK'
  BY <1>1, <1>3 DEF JobInv, TypeOK, Goes, tables, calls, past
<1>5. RunKnows(x, documents)
  BY <1>2, <1>3, RunFacts DEF RunKnows, BeforePlan, AtDocument, AtEdges, DoneOnCopy
<1>6. ASSUME ~overlapped PROVE Keeps(x, row.progress)
  <2>1. \A r \in Refs : row.progress.docs[r].doc = run[i].state.docs[r].doc
    BY <1>1, <1>6 DEF JobInv, RecordIsKept, Keeps
  <2>2. \A r \in Refs : r # run[i].ref => s.docs[r].doc = run[i].state.docs[r].doc
    BY <1>2 DEF DoneOnCopy
  <2>3. row.progress.docs[run[i].ref].doc = 0
    BY <1>2, <2>1 DEF DoneOnCopy
  <2>4. QED
    BY <1>3, <2>1, <2>2, <2>3 DEF Keeps
<1>7. Sound(x.state, documents, deps') /\ UNCHANGED <<documents, deps, overlapped, orphaned>>
  BY <1>1, <1>2, <1>3 DEF tables, past, DoneOnCopy
<1>8. QED
  BY <1>1, <1>3, <1>4, <1>5, <1>6, <1>7, RunMovesQuietly

\* The error is written, with the document if there is one.
LEMMA ApplyDocErrorInv ==
    ASSUME JobInv, NEW i \in Runners, ApplyDocError(i) PROVE JobInv'
<1> DEFINE s == DocError(run[i].state, run[i].ref)
           x == [run[i] EXCEPT !.stage = "docs", !.state = s, !.ref = None, !.doc = 0]
<1>1. /\ Goes(i, x) /\ UNCHANGED <<redis, job, tables, calls, troubles, past>>
      /\ row' = [status |-> "RUNNING", progress |-> s] /\ run[i].stage = "error"
  BY DEF ApplyDocError, Persist
<1>2. /\ run[i].ref \in Refs /\ run[i].ref \notin run[i].todo /\ run[i].edges = {}
      /\ run[i].doc \in {0, run[i].state.docs[run[i].ref].doc}
      /\ \A r \in run[i].todo : run[i].state.docs[r].doc = 0
      /\ run[i].state.wanted = run[i].plan
      /\ \A r \in run[i].plan :
            /\ run[i].state.docs[r].status # "none"
            /\ run[i].state.docs[r].status = "pending" => r \in run[i].todo \/ r = run[i].ref
  BY <1>1, RunFacts DEF RunKnows, BeforePlan, AtDocument, AtEdges
<1>3. s \in States /\ s.wanted = run[i].state.wanted /\ Sound(s, documents, deps)
  BY <1>2, RunFacts, ErrorFacts, SoundError
<1>4. /\ s.docs[run[i].ref] = [status |-> "error", doc |-> run[i].state.docs[run[i].ref].doc]
      /\ \A r \in Refs : r # run[i].ref => s.docs[r] = run[i].state.docs[r]
  BY <1>2, RunFacts, ErrorFacts
<1> HIDE DEF s
<1>5. ASSUME NEW r \in Refs PROVE s.docs[r].doc = run[i].state.docs[r].doc
  <2>1. CASE r = run[i].ref
    BY <1>4, <2>1
  <2>2. CASE r # run[i].ref
    BY <1>4, <2>2
  <2>3. QED
    BY <2>1, <2>2
<1>6. /\ x \in Runs /\ x.stage = "docs" /\ x.state = s /\ x.doc = 0 /\ x.plan = run[i].plan
      /\ x.todo = run[i].todo /\ x.edges = run[i].edges /\ x.ref = None
  BY <1>3, RunFacts DEF Runs, Stages
<1> HIDE DEF x
<1>7. TypeOK' /\ CompletedIsComplete' /\ row'.progress = s
  BY <1>1, <1>3, <1>6
     DEF JobInv, TypeOK, RowStatuses, Goes, tables, calls, past, CompletedIsComplete
<1>8. RunKnows(x, documents)
  <2>1. run[i].todo \subseteq Refs /\ run[i].plan \subseteq Refs
    BY RunFacts
  <2>2. ASSUME NEW r \in run[i].plan
        PROVE  s.docs[r].status # "none" /\ (s.docs[r].status = "pending" => r \in run[i].todo)
    BY <1>2, <1>4, <2>1
  <2>3. QED
    BY <1>2, <1>3, <1>5, <1>6, <2>1, <2>2 DEF RunKnows, BeforePlan, AtDocument, AtEdges
<1>9. ~overlapped => \A r \in Refs :
          row.progress.docs[r].doc # 0 => s.docs[r].doc = row.progress.docs[r].doc
  BY <1>1, <1>5, RecordOnCopy
<1>10. run[i].doc # 0 => s.docs[run[i].ref].doc = run[i].doc
  BY <1>2, <1>5
<1>11. QED
  BY <1>1, <1>2, <1>3, <1>6, <1>7, <1>8, <1>9, <1>10, RunWrites

-----------------------------------------------------------------------------
(***************************************************************************)
(* The edges of a plan, and its end.                                       *)
(***************************************************************************)
LEMMA BeginEdgesInv ==
    ASSUME JobInv, NEW i \in Runners, BeginEdges(i) PROVE JobInv'
<1> DEFINE left == EdgesLeft(run[i].state, run[i].plan)
           x == [run[i] EXCEPT !.stage = "edges", !.edges = left]
<1>1. /\ Goes(i, x) /\ UNCHANGED <<redis, job, row, tables, calls, troubles, past>>
      /\ run[i].stage = "docs" /\ run[i].todo = {}
  BY DEF BeginEdges
<1>2. left \subseteq Links /\ \A e \in left : /\ run[i].state.docs[e[1]].doc # 0
                                              /\ run[i].state.docs[e[2]].doc # 0
  BY DEF EdgesLeft
<1> HIDE DEF left
<1>3. /\ x \in Runs /\ x.stage = "edges" /\ x.state = run[i].state /\ x.doc = run[i].doc
      /\ x.plan = run[i].plan /\ x.todo = {} /\ x.edges = left /\ x.ref = run[i].ref
  BY <1>1, <1>2, RunFacts DEF Runs, Stages
<1> HIDE DEF x
<1>4. TypeOK'
  BY <1>1, <1>3 DEF JobInv, TypeOK, Goes, tables, calls, past
<1>5. RunKnows(x, documents)
  BY <1>1, <1>2, <1>3, RunFacts DEF RunKnows, BeforePlan, AtDocument, AtEdges
<1>6. ~overlapped => Keeps(x, row.progress)
  BY <1>1, <1>3 DEF JobInv, RecordIsKept, Keeps
<1>7. Sound(x.state, documents, deps') /\ UNCHANGED <<documents, deps, overlapped, orphaned>>
  BY <1>1, <1>3, RunFacts DEF tables, past
<1>8. QED
  BY <1>1, <1>3, <1>4, <1>5, <1>6, <1>7, RunMovesQuietly

\* What a run at its edges knows.
LEMMA AtItsEdges ==
    ASSUME JobInv, NEW i \in Runners, run[i].stage \in AtEdges
    PROVE  /\ run[i].todo = {} /\ run[i].doc = 0 /\ run[i].state.wanted = run[i].plan
           /\ \A r \in run[i].plan : run[i].state.docs[r].status \notin {"none", "pending"}
           /\ \A e \in run[i].edges : /\ run[i].state.docs[e[1]].doc # 0
                                      /\ run[i].state.docs[e[2]].doc # 0
BY RunFacts DEF RunKnows, BeforePlan, AtDocument, AtEdges

\* A dependency that is there joins documents that are there.
LEMMA CreateDependencyInv ==
    ASSUME JobInv, NEW i \in Runners, NEW e \in Links, CreateDependency(i, e) PROVE JobInv'
<1> DEFINE pair == <<run[i].state.docs[e[1]].doc, run[i].state.docs[e[2]].doc>>
           s == EdgeDone(run[i].state, e)
           x == [run[i] EXCEPT !.stage = "edged", !.edges = @ \ {e}, !.state = EdgeDone(@, e)]
           y == [run[i] EXCEPT !.edges = @ \ {e}]
<1>1. /\ run[i].stage = "edges" /\ e \in run[i].edges
      /\ UNCHANGED <<redis, job, row, documents, calls, past>>
      /\ \/ deps' = deps \cup {pair} /\ Goes(i, x) /\ UNCHANGED troubles
         \/ troubles' = troubles + 1 /\ Goes(i, y) /\ UNCHANGED deps
  BY DEF CreateDependency, Trouble
<1>2. /\ run[i].todo = {} /\ run[i].doc = 0 /\ run[i].state.wanted = run[i].plan
      /\ \A r \in run[i].plan : run[i].state.docs[r].status \notin {"none", "pending"}
      /\ \A f \in run[i].edges : /\ run[i].state.docs[f[1]].doc # 0
                                 /\ run[i].state.docs[f[2]].doc # 0
  BY <1>1, AtItsEdges DEF AtEdges
<1>3. CASE deps' = deps \cup {pair} /\ Goes(i, x) /\ UNCHANGED troubles
  <2>1. s \in States /\ s.wanted = run[i].state.wanted /\ s.docs = run[i].state.docs
    BY RunFacts, EdgeFacts
  <2>2. x = [run[i] EXCEPT !.stage = "edged", !.edges = @ \ {e}, !.state = s]
    OBVIOUS
  <2>3. Grown(documents, deps, documents', deps')
    <3>1. documents' = documents /\ deps \subseteq deps' /\ Len(documents) \in Nat
      BY <1>1, <1>3, RunFacts
    <3>2. QED
      BY <3>1 DEF Grown
  <2>4. Sound(run[i].state, documents, deps')
    BY <1>1, <2>3, RunFacts, SoundGrows
  <2>5. Sound(s, documents, deps')
    BY <1>1, <1>2, <1>3, <2>4, RunFacts, SoundEdge
  <2> HIDE DEF s
  <2>6. /\ x \in Runs /\ x.stage = "edged" /\ x.state = s /\ x.doc = 0 /\ x.plan = run[i].plan
        /\ x.todo = {} /\ x.edges = run[i].edges \ {e} /\ x.ref = run[i].ref
    BY <1>2, <2>1, <2>2, RunFacts DEF Runs, Stages
  <2> HIDE DEF x
  <2>7. TypeOK'
    <3>1. e[1] \in Refs /\ e[2] \in Refs
      BY Ends
    <3>2. pair \in (1 .. Len(documents)) \X (1 .. Len(documents))
      BY <1>1, <1>2, <3>1, RunFacts DEF Sound
    <3> HIDE DEF pair
    <3>3. QED
      BY <1>1, <1>3, <2>6, <3>2 DEF JobInv, TypeOK, Goes, calls, past
  <2>8. RunKnows(x, documents)
    BY <1>2, <2>1, <2>6 DEF RunKnows, BeforePlan, AtDocument, AtEdges
  <2>9. ~overlapped => Keeps(x, row.progress)
    BY <1>1, <2>1, <2>6 DEF JobInv, RecordIsKept, Keeps
  <2>10. QED
    BY <1>1, <1>2, <1>3, <2>3, <2>5, <2>6, <2>7, <2>8, <2>9, RunMovesQuietly DEF past, Grown
<1>4. CASE troubles' = troubles + 1 /\ Goes(i, y) /\ UNCHANGED deps
  <2>1. /\ y \in Runs /\ y.stage = "edges" /\ y.state = run[i].state /\ y.doc = 0
        /\ y.plan = run[i].plan /\ y.todo = {} /\ y.edges = run[i].edges \ {e}
        /\ y.ref = run[i].ref
    BY <1>1, <1>2, RunFacts DEF Runs, Stages
  <2> HIDE DEF y
  <2>2. TypeOK'
    BY <1>1, <1>4, <2>1 DEF JobInv, TypeOK, Goes, calls, past
  <2>3. RunKnows(y, documents)
    BY <1>2, <2>1 DEF RunKnows, BeforePlan, AtDocument, AtEdges
  <2>4. ~overlapped => Keeps(y, row.progress)
    BY <1>1, <2>1 DEF JobInv, RecordIsKept, Keeps
  <2>5. Sound(y.state, documents, deps')
    BY <1>4, <2>1, RunFacts
  <2>6. QED
    BY <1>1, <1>2, <1>4, <2>1, <2>2, <2>3, <2>4, <2>5, RunMovesQuietly DEF past
<1>5. QED
  BY <1>1, <1>3, <1>4

LEMMA ApplyEdgeDoneInv ==
    ASSUME JobInv, NEW i \in Runners, ApplyEdgeDone(i) PROVE JobInv'
<1> DEFINE x == [run[i] EXCEPT !.stage = "edges"]
<1>1. /\ Goes(i, x) /\ UNCHANGED <<redis, job, tables, calls, past>> /\ run[i].stage = "edged"
      /\ \/ row' = [status |-> "RUNNING", progress |-> run[i].state] /\ UNCHANGED troubles
         \/ troubles' = troubles + 1 /\ UNCHANGED row
  BY DEF ApplyEdgeDone, Persist, Trouble
<1>2. /\ x \in Runs /\ x.stage = "edges" /\ x.state = run[i].state /\ x.doc = run[i].doc
      /\ x.plan = run[i].plan /\ x.todo = run[i].todo /\ x.edges = run[i].edges
      /\ x.ref = run[i].ref
  BY RunFacts DEF Runs, Stages
<1> HIDE DEF x
<1>3. RunKnows(x, documents) /\ run[i].doc = 0
  BY <1>1, <1>2, RunFacts DEF RunKnows, BeforePlan, AtDocument, AtEdges
<1>4. CASE row' = [status |-> "RUNNING", progress |-> run[i].state] /\ UNCHANGED troubles
  <2>1. TypeOK' /\ CompletedIsComplete' /\ row'.progress = run[i].state
    BY <1>1, <1>2, <1>4, RunFacts
       DEF JobInv, TypeOK, RowStatuses, Goes, tables, calls, past, CompletedIsComplete
  <2>2. QED
    BY <1>1, <1>2, <1>3, <2>1, RunFacts, RecordOnCopy, RunWrites
<1>5. CASE troubles' = troubles + 1 /\ UNCHANGED row
  <2>1. TypeOK'
    BY <1>1, <1>2, <1>5 DEF JobInv, TypeOK, Goes, tables, calls, past
  <2>2. ~overlapped => Keeps(x, row.progress)
    BY <1>1, <1>2 DEF JobInv, RecordIsKept, Keeps
  <2>3. Sound(x.state, documents, deps') /\ UNCHANGED <<documents, deps, overlapped, orphaned>>
    BY <1>1, <1>2, RunFacts DEF tables, past
  <2>4. QED
    BY <1>1, <1>2, <1>3, <1>5, <2>1, <2>2, <2>3, RunMovesQuietly
<1>6. QED
  BY <1>1, <1>4, <1>5

\* A run that ends without an error has a document of every reference of its plan.
LEMMA FinishInv ==
    ASSUME JobInv, NEW i \in Runners, Finish(i) PROVE JobInv'
<1> DEFINE s == run[i].state
<1>1. /\ Goes(i, NoRun) /\ UNCHANGED <<redis, tables, calls, troubles, past>>
      /\ run[i].stage = "edges"
      /\ row' = [status |-> IF HadError(s) THEN "FAILED" ELSE "COMPLETED", progress |-> s]
      /\ job' \in [place : JobPlaces, attempts : 0 .. Attempts]
  BY DEF Finish, Persist, Returns, JobInv, TypeOK, JobPlaces
<1>2. TypeOK' /\ row'.progress = s
  BY <1>1, NoRunKnows, RunFacts DEF JobInv, TypeOK, RowStatuses, Goes, tables, calls, past
<1>3. CompletedIsComplete'
  <2> SUFFICES ASSUME ~HadError(s)
               PROVE  (\A r \in s.wanted : s.docs[r].status = "done") /\ ~HadError(s)
    BY <1>1 DEF CompletedIsComplete, HadError
  <2>1. s.wanted = run[i].plan /\ run[i].plan \subseteq Refs
        /\ \A r \in run[i].plan : s.docs[r].status \notin {"none", "pending"}
    BY <1>1, RunFacts, AtItsEdges DEF AtEdges
  <2>2. \A r \in Refs : s.docs[r].status \in {"none", "pending", "done", "error"}
    BY RunFacts DEF States, Progress
  <2>3. QED
    BY <2>1, <2>2 DEF HadError
<1>4. run[i].doc = 0
  BY <1>1, AtItsEdges DEF AtEdges
<1>5. QED
  BY <1>1, <1>2, <1>3, <1>4, NoRunKnows, RunFacts, RecordOnCopy, RunWrites

\* A run that throws forgets the document in its hands, which counts unless it is on record.
LEMMA PersistFailsInv ==
    ASSUME JobInv, NEW i \in Runners, PersistFails(i) PROVE JobInv'
<1>1. /\ Goes(i, NoRun) /\ UNCHANGED <<redis, row, tables, calls, overlapped>>
      /\ troubles' = troubles + 1 /\ run[i].stage # "idle"
      /\ orphaned' = (orphaned \/ Unrecorded(i))
      /\ job' \in [place : JobPlaces, attempts : 0 .. Attempts]
  BY DEF PersistFails, Throws, Trouble, Retry, JobInv, TypeOK, JobPlaces
<1>2. TypeOK'
  BY <1>1, NoRunKnows DEF JobInv, TypeOK, Goes, tables, calls, Unrecorded
<1>3. ~orphaned' => /\ ~orphaned
                    /\ run[i].doc = 0 \/ row.progress.docs[run[i].ref].doc = run[i].doc
  BY <1>1 DEF JobInv, TypeOK, Unrecorded
<1>4. QED
  BY <1>1, <1>2, <1>3, NoRunKnows, RunMovesQuietly DEF tables

-----------------------------------------------------------------------------
(***************************************************************************)
(* The steps that begin runs, and the end of the process.                  *)
(***************************************************************************)

\* A run begins: where another is active they overlap, and nothing is promised of both.
LEMMA BeginsInv ==
    ASSUME JobInv, NEW i \in Runners, NEW queued \in BOOLEAN, Begins(i, queued),
           TypeOK', UNCHANGED <<row, tables>>
    PROVE  JobInv'
<1> DEFINE x == [NoRun EXCEPT !.stage = "generate", !.queued = queued]
<1>1. /\ run' = [run EXCEPT ![i] = x] /\ run[i].stage = "idle" /\ orphaned' = orphaned
      /\ overlapped' = (overlapped \/ \E k \in Runners : run[k].stage # "idle")
  BY DEF Begins, Goes
<1>2. /\ x \in Runs /\ x.stage = "generate" /\ x.state = NoRun.state /\ x.doc = 0
      /\ x.todo = {} /\ x.edges = {}
  BY NoRunKnows DEF NoRun, Runs, Stages
<1> HIDE DEF x
<1>3. run'[i] = x /\ \A k \in Runners : k # i => run'[k] = run[k]
  BY <1>1 DEF JobInv, TypeOK
<1>4. UNCHANGED <<documents, deps, row>>
  BY DEF tables
<1>5. Sound(x.state, documents, deps) /\ RunKnows(x, documents)
  BY <1>2, NoRunKnows DEF RunKnows, BeforePlan, AtDocument, AtEdges
<1>6. RunsKnow'
  BY <1>3, <1>4, <1>5 DEF JobInv, RunsKnow
<1>7. ~overlapped' => ~overlapped /\ \A k \in Runners : run[k].stage = "idle"
  BY <1>1 DEF JobInv, TypeOK
<1>8. OneRun'
  BY <1>3, <1>7 DEF OneRun
<1>9. RecordIsKept'
  BY <1>2, <1>3, <1>4, <1>7 DEF RecordIsKept, Keeps
<1>10. NoneForgotten'
  <2> SUFFICES ASSUME ~overlapped', ~orphaned, NEW d \in 1 .. Len(documents)
               PROVE  row.progress.docs[documents[d].ref].doc = d
    BY <1>1, <1>4 DEF NoneForgotten
  <2>1. \A k \in Runners : run[k].doc # d
    <3>1. d # 0
      BY RunFacts
    <3>2. QED
      BY <1>7, <3>1, RunFacts DEF RunKnows
  <2>2. QED
    BY <1>7, <2>1 DEF JobInv, NoneForgotten
<1>11. QED
  BY <1>4, <1>6, <1>8, <1>9, <1>10 DEF JobInv, RecordIsSound, CompletedIsComplete

\* All runs end at once.
LEMMA CrashInv ==
    ASSUME JobInv, Crash PROVE JobInv'
<1>1. /\ run' = [i \in Runners |-> NoRun] /\ UNCHANGED <<redis, row, documents, deps, overlapped>>
      /\ orphaned' = (orphaned \/ \E i \in Runners : Unrecorded(i))
      /\ asked' = 0 /\ troubles' = troubles + 1 /\ UNCHANGED runs
      /\ job' \in [place : JobPlaces, attempts : 0 .. Attempts]
  BY DEF Crash, Trouble, Retry, JobInv, TypeOK, JobPlaces, tables
<1>2. TypeOK'
  BY <1>1, NoRunKnows DEF JobInv, TypeOK, Unrecorded
<1>3. \A i \in Runners : run'[i] = NoRun
  BY <1>1
<1>4. RunsKnow' /\ OneRun' /\ RecordIsKept'
  BY <1>1, <1>3, NoRunKnows DEF RunsKnow, OneRun, RecordIsKept
<1>5. NoneForgotten'
  <2> SUFFICES ASSUME ~overlapped, ~orphaned', NEW d \in 1 .. Len(documents)
               PROVE  row.progress.docs[documents[d].ref].doc = d
    BY <1>1 DEF NoneForgotten
  <2>1. ~orphaned /\ \A i \in Runners : ~Unrecorded(i)
    BY <1>1 DEF JobInv, TypeOK
  <2>2. d # 0
    BY DEF JobInv, TypeOK
  <2>3. ASSUME NEW i \in Runners, run[i].doc = d, run[i].ref = documents[d].ref
        PROVE  row.progress.docs[documents[d].ref].doc = d
    BY <2>1, <2>2, <2>3 DEF Unrecorded
  <2>4. QED
    BY <2>1, <2>3 DEF JobInv, NoneForgotten
<1>6. QED
  BY <1>1, <1>2, <1>4, <1>5 DEF JobInv, RecordIsSound, CompletedIsComplete

\* Steps that leave the row, the documents and the runs alone.
LEMMA StillInv ==
    ASSUME JobInv, TypeOK', UNCHANGED <<row, tables, run, past>> PROVE JobInv'
BY DEF JobInv, RecordIsSound, CompletedIsComplete, RunsKnow, OneRun, RecordIsKept, NoneForgotten,
       tables, past

LEMMA StartInv ==
    ASSUME JobInv,
           Ask \/ Enqueue \/ \E i \in Runners : RunInline(i) \/ WorkerTakes(i)
    PROVE  JobInv'
<1>1. CASE Ask
  <2>1. TypeOK'
    BY <1>1 DEF Ask, JobInv, TypeOK, tables, past
  <2>2. QED
    BY <1>1, <2>1, StillInv DEF Ask
<1>2. CASE Enqueue
  <2>1. TypeOK'
    <3>1. job' \in [place : JobPlaces, attempts : 0 .. Attempts]
      BY <1>2, ConstantsAssumption DEF Enqueue, JobInv, TypeOK, JobPlaces
    <3>2. asked' \in Nat /\ UNCHANGED <<redis, row, documents, deps, run, runs, troubles, past>>
      BY <1>2 DEF Enqueue, Asked, JobInv, TypeOK, tables
    <3>3. QED
      BY <3>1, <3>2 DEF JobInv, TypeOK, past
  <2>2. QED
    BY <1>2, <2>1, StillInv DEF Enqueue
<1>3. ASSUME NEW i \in Runners, NEW queued \in BOOLEAN, Begins(i, queued)
      PROVE  run' \in [Runners -> Runs] /\ overlapped' \in BOOLEAN /\ orphaned' = orphaned
  <2>1. [NoRun EXCEPT !.stage = "generate", !.queued = queued] \in Runs
    BY NoRunKnows DEF Runs, Stages
  <2>2. QED
    BY <1>3, <2>1 DEF Begins, Goes, JobInv, TypeOK
<1>4. ASSUME NEW i \in Runners, RunInline(i) PROVE JobInv'
  <2>1. Begins(i, FALSE)
    BY <1>4 DEF RunInline
  <2>2. TypeOK'
    <3>1. run' \in [Runners -> Runs] /\ overlapped' \in BOOLEAN /\ orphaned' = orphaned
      BY <1>3, <2>1
    <3>2. asked' \in Nat /\ runs' \in Nat /\ troubles' \in Nat
      BY <1>4 DEF RunInline, Asked, Trouble, JobInv, TypeOK
    <3>3. UNCHANGED <<redis, job, row, documents, deps>>
      BY <1>4 DEF RunInline, tables
    <3>4. QED
      BY <3>1, <3>2, <3>3 DEF JobInv, TypeOK
  <2>3. QED
    BY <1>4, <2>1, <2>2, BeginsInv DEF RunInline
<1>5. ASSUME NEW i \in Runners, WorkerTakes(i) PROVE JobInv'
  <2>1. Begins(i, TRUE)
    BY <1>5 DEF WorkerTakes
  <2>2. job' \in [place : JobPlaces, attempts : 0 .. Attempts]
    BY <1>5, ConstantsAssumption DEF WorkerTakes, JobInv, TypeOK, JobPlaces
  <2>3. TypeOK'
    <3>1. run' \in [Runners -> Runs] /\ overlapped' \in BOOLEAN /\ orphaned' = orphaned
      BY <1>3, <2>1
    <3>2. UNCHANGED <<redis, row, documents, deps, asked, runs, troubles>>
      BY <1>5 DEF WorkerTakes, tables, calls
    <3>3. QED
      BY <2>2, <3>1, <3>2 DEF JobInv, TypeOK
  <2>4. QED
    BY <1>5, <2>1, <2>3, BeginsInv DEF WorkerTakes
<1>6. QED
  BY <1>1, <1>2, <1>4, <1>5

LEMMA JobInitInv == Init => JobInv
<1> SUFFICES ASSUME Init PROVE JobInv
  OBVIOUS
<1>1. InitialState \in States /\ InitialState.wanted = {}
  BY DEF InitialState, States, Progress
<1>2. /\ row.status = "PENDING" /\ row.progress = InitialState
      /\ documents = <<>> /\ deps = {} /\ \A i \in Runners : run[i] = NoRun
  BY DEF Init
<1>3. TypeOK
  <2>1. documents \in Seq([ref : Refs, written : BOOLEAN]) /\ Len(documents) = 0
    BY <1>2
  <2>2. row \in [status : RowStatuses, progress : States]
    BY <1>1 DEF Init, RowStatuses
  <2>3. job \in [place : JobPlaces, attempts : 0 .. Attempts]
    BY ConstantsAssumption DEF Init, JobPlaces
  <2>4. run \in [Runners -> Runs]
    BY NoRunKnows DEF Init
  <2>5. QED
    BY <1>2, <2>1, <2>2, <2>3, <2>4 DEF Init, TypeOK
<1>4. RecordIsSound
  <2>1. Sound(InitialState, documents, deps)
    BY DEF InitialState, Sound
  <2>2. QED
    BY <1>2, <2>1 DEF RecordIsSound, CompletedIsComplete
<1>5. RunsKnow /\ OneRun /\ RecordIsKept
  BY <1>2, NoRunKnows DEF RunsKnow, OneRun, RecordIsKept
<1>6. NoneForgotten
  BY <1>2 DEF NoneForgotten
<1>7. QED
  BY <1>3, <1>4, <1>5, <1>6 DEF JobInv

LEMMA JobStepInv == JobInv /\ [Next]_vars => JobInv'
<1> SUFFICES ASSUME JobInv, [Next]_vars PROVE JobInv'
  OBVIOUS
<1>1. CASE UNCHANGED vars
  <2>1. TypeOK'
    BY <1>1 DEF vars, tables, calls, past, JobInv, TypeOK
  <2>2. QED
    BY <1>1, <2>1, StillInv DEF vars
<1>2. ASSUME NEW i \in Runners, Generated(i) \/ GenerationFails(i) PROVE JobInv'
  BY <1>2, GeneratedInv, GenerationFailsInv
<1>3. ASSUME NEW i \in Runners, Materialize(i) PROVE JobInv'
  BY <1>3, LoadJobStateInv, ApplyStartedInv, ApplyPlanInv, ApplyDocStartedInv,
     CreateDocumentInv, SaveDocumentContentInv, DocumentFailsInv, ApplyDocDoneInv,
     ApplyDocDoneFailsInv, ApplyDocErrorInv, BeginEdgesInv, CreateDependencyInv,
     ApplyEdgeDoneInv, FinishInv, PersistFailsInv DEF Materialize
<1>4. QED
  BY <1>1, <1>2, <1>3, StartInv, CrashInv DEF Next

LEMMA JobInvariance == Spec => []JobInv
BY JobInitInv, JobStepInv, PTL DEF Spec

-----------------------------------------------------------------------------
(***************************************************************************)
(* What follows.                                                           *)
(***************************************************************************)

\* Whatever runs, retries, crashes and overlaps a job goes through: a document on record is
\* there and written, an edge on record joins the documents on record, a completed job has
\* all of its last plan, and a reference has a second document only where runs overlapped,
\* or one gave up on a document that was not on record yet (materialize.ts:115-163).
THEOREM RecordIsAlwaysTrue == Spec => []RecordIsTrue
<1>1. JobInv => RecordIsTrue
  <2> SUFFICES ASSUME JobInv PROVE RecordIsTrue
    OBVIOUS
  <2>1. RecordedIsWritten /\ CompletedIsComplete /\ TypeOK
    BY DEF JobInv, RecordIsSound, Sound, RecordedIsWritten
  <2>2. RecordedEdgesExist
    BY DEF JobInv, RecordIsSound, Sound, RecordedEdgesExist
  <2>3. DuplicatesNeedTrouble
    <3> SUFFICES ASSUME ~overlapped, ~orphaned, NEW r \in Refs, NEW d \in Made(r), NEW e \in Made(r)
                 PROVE  d = e
      BY DEF DuplicatesNeedTrouble
    <3>1. /\ d \in 1 .. Len(documents) /\ documents[d].ref = r /\ d # 0
          /\ e \in 1 .. Len(documents) /\ documents[e].ref = r /\ e # 0
      BY DEF Made, JobInv, TypeOK
    <3>2. \A n \in {d, e} :
             \/ row.progress.docs[r].doc = n
             \/ \E i \in Runners : run[i].doc = n /\ run[i].ref = r
      BY <3>1 DEF JobInv, NoneForgotten
    <3>3. ASSUME NEW n \in {d, e}, NEW i \in Runners, run[i].doc = n, run[i].ref = r
          PROVE  /\ run[i].stage # "idle"
                 /\ row.progress.docs[r].doc \in {0, n}
      <4>1. run[i].stage \in {"save", "done", "error"}
        BY <3>1, <3>3, RunFacts DEF RunKnows
      <4>2. \/ row.progress.docs[r].doc = run[i].state.docs[r].doc
            \/ row.progress.docs[r].doc = 0
        BY <4>1 DEF JobInv, RecordIsKept, Keeps
      <4>3. run[i].state.docs[r].doc \in {0, n}
        BY <3>1, <3>3, <4>1, RunFacts DEF RunKnows
      <4>4. QED
        BY <4>1, <4>2, <4>3
    <3>4. CASE row.progress.docs[r].doc # 0
      BY <3>1, <3>2, <3>3, <3>4
    <3>5. CASE row.progress.docs[r].doc = 0
      <4>1. PICK i \in Runners : run[i].doc = d /\ run[i].ref = r
        BY <3>1, <3>2, <3>5
      <4>2. PICK k \in Runners : run[k].doc = e /\ run[k].ref = r
        BY <3>1, <3>2, <3>5
      <4>3. i = k
        BY <3>3, <4>1, <4>2 DEF JobInv, OneRun
      <4>4. QED
        BY <4>1, <4>2, <4>3
    <3>6. QED
      BY <3>4, <3>5
  <2>4. QED
    BY <2>1, <2>2, <2>3 DEF RecordIsTrue
<1>2. QED
  BY <1>1, JobInvariance, PTL

\* What is on record of a reference stays, through any number of failures, crashes, retries
\* and new plans, as long as runs do not overlap (job-state.ts:80-85).
THEOREM RecordsAlwaysStay == Spec => RecordsStay
<1>1. ASSUME JobInv, [Next]_vars, NEW r \in Refs, row.progress.docs[r].doc # 0, ~overlapped
      PROVE  row'.progress.docs[r].doc = row.progress.docs[r].doc
  <2>1. CASE UNCHANGED row.progress
    BY <2>1
  <2>2. ASSUME NEW i \in Runners, NEW s \in States, row'.progress = s,
               run[i].stage \notin {"idle", "generate", "load"},
               s.docs[r].doc = run[i].state.docs[r].doc
        PROVE  row'.progress.docs[r].doc = row.progress.docs[r].doc
    BY <1>1, <2>2, RecordOnCopy
  <2>3. ASSUME NEW i \in Runners, Persist("RUNNING", run[i].state) \/ Finish(i),
               run[i].stage \notin {"idle", "generate", "load"}
        PROVE  row'.progress.docs[r].doc = row.progress.docs[r].doc
    <3>1. row'.progress = run[i].state
      BY <2>3 DEF Persist, Finish
    <3>2. QED
      BY <1>1, <2>2, <2>3, <3>1, RunFacts
  <2>4. ASSUME NEW i \in Runners, ApplyPlan(i)
        PROVE  row'.progress.docs[r].doc = row.progress.docs[r].doc
    <3> DEFINE s == PlanEvent(run[i].state, run[i].plan)
    <3>1. row'.progress = s /\ run[i].stage = "plan"
      BY <2>4 DEF ApplyPlan, Persist
    <3>2. /\ s \in States
          /\ s.docs[r] = IF r \in run[i].plan /\ run[i].state.docs[r].status = "none"
                         THEN [status |-> "pending", doc |-> 0] ELSE run[i].state.docs[r]
      BY <1>1, RunFacts, PlanFacts
    <3>3. run[i].state.docs[r].status = "none" => run[i].state.docs[r].doc = 0
      BY <1>1, RunFacts DEF Sound
    <3> HIDE DEF s
    <3>4. s.docs[r].doc = run[i].state.docs[r].doc
      BY <3>2, <3>3
    <3>5. QED
      BY <2>2, <3>1, <3>2, <3>4
  <2>5. ASSUME NEW i \in Runners, ApplyDocDone(i)
        PROVE  row'.progress.docs[r].doc = row.progress.docs[r].doc
    <3> DEFINE s == DocDone(run[i].state, run[i].ref, run[i].doc)
    <3>1. row'.progress = s /\ run[i].stage = "done"
      BY <2>5 DEF ApplyDocDone, Persist
    <3>2. DoneOnCopy(i, s) /\ run[i].state.docs[r].doc = row.progress.docs[r].doc
      BY <1>1, <3>1, DoneIsOnCopy, RecordOnCopy
    <3> HIDE DEF s
    <3>3. s \in States /\ s.docs[r].doc = run[i].state.docs[r].doc
      BY <1>1, <3>2 DEF DoneOnCopy
    <3>4. QED
      BY <2>2, <3>1, <3>3
  <2>6. ASSUME NEW i \in Runners, ApplyDocError(i)
        PROVE  row'.progress.docs[r].doc = row.progress.docs[r].doc
    <3> DEFINE s == DocError(run[i].state, run[i].ref)
    <3>1. row'.progress = s /\ run[i].stage = "error"
      BY <2>6 DEF ApplyDocError, Persist
    <3>2. run[i].ref \in Refs
      BY <1>1, <3>1, RunFacts DEF RunKnows, AtDocument
    <3>3. /\ s \in States
          /\ s.docs[run[i].ref] = [status |-> "error", doc |-> run[i].state.docs[run[i].ref].doc]
          /\ r # run[i].ref => s.docs[r] = run[i].state.docs[r]
      BY <1>1, <3>2, RunFacts, ErrorFacts
    <3> HIDE DEF s
    <3>4. s.docs[r].doc = run[i].state.docs[r].doc
      BY <3>3
    <3>5. QED
      BY <2>2, <3>1, <3>3, <3>4
  <2>7. ASSUME NEW i \in Runners, Materialize(i)
        PROVE  row'.progress.docs[r].doc = row.progress.docs[r].doc
    <3>1. CASE \/ LoadJobState(i) \/ CreateDocument(i) \/ SaveDocumentContent(i)
               \/ DocumentFails(i) \/ ApplyDocDoneFails(i) \/ BeginEdges(i)
               \/ (\E e \in Links : CreateDependency(i, e)) \/ PersistFails(i)
      BY <2>1, <3>1 DEF LoadJobState, CreateDocument, SaveDocumentContent, DocumentFails,
                        ApplyDocDoneFails, BeginEdges, CreateDependency, PersistFails
    <3>2. CASE ApplyStarted(i) \/ ApplyDocStarted(i) \/ ApplyEdgeDone(i) \/ Finish(i)
      BY <2>1, <2>3, <3>2 DEF ApplyStarted, ApplyDocStarted, ApplyEdgeDone, Finish
    <3>3. QED
      BY <2>4, <2>5, <2>6, <2>7, <3>1, <3>2 DEF Materialize
  <2>8. CASE UNCHANGED vars
    BY <2>1, <2>8 DEF vars
  <2>9. CASE \/ Ask \/ Enqueue \/ Crash
             \/ \E i \in Runners : RunInline(i) \/ WorkerTakes(i) \/ Generated(i)
    BY <2>1, <2>9 DEF Ask, Enqueue, Crash, RunInline, WorkerTakes, Generated
  <2>10. ASSUME NEW i \in Runners, GenerationFails(i)
         PROVE  row'.progress.docs[r].doc = row.progress.docs[r].doc
    BY <1>1, <2>1, <2>10 DEF GenerationFails, JobInv, TypeOK
  <2>11. QED
    BY <1>1, <2>7, <2>8, <2>9, <2>10 DEF Next
<1>2. JobInv /\ [Next]_vars =>
        [\A r \in Refs : LET d == row.progress.docs[r].doc IN
            d # 0 /\ ~overlapped => row'.progress.docs[r].doc = d]_vars
  BY <1>1
<1>3. QED
  BY <1>2, JobInvariance, PTL DEF Spec, RecordsStay

-----------------------------------------------------------------------------
(***************************************************************************)
(* AssistantChat.                                                          *)
(***************************************************************************)

\* What a card that was not mounted anew knows of its action: while it runs, the card is
\* open with its buttons disabled; once it was carried out, the conversation has the
\* answer, and a card that is shown is not open.
CardKnows(c) ==
    /\ running[c] + carried[c] <= 1
    /\ running[c] > 0 => card[c].done = "open" /\ card[c].busy
    /\ carried[c] > 0 => part[c] = "answered"
    /\ carried[c] > 0 /\ panel.open => card[c].done # "open"

\* The inductive invariant.  The last part is what a card that mounts anew relies on.
ChatInv ==
    /\ ChatTypeOK
    /\ \A c \in Cards : c \notin reopened => CardKnows(c)
    /\ \A c \in Cards : card[c].done = "dismissed" => part[c] = "answered"

-----------------------------------------------------------------------------
\* The steps that are not about a card.
TurnStep == SendMessage \/ ChatRoute \/ ModelStep \/ EndTurn \/ Navigate

\* The steps of one card.
CardStep(c) ==
    \/ Propose(c) \/ Accept(c) \/ RefuseEdit(c) \/ Dismiss(c)
    \/ \E ok \in BOOLEAN : ActionAnswers(c, ok)

LEMMA ChatSplit ==
    ChatNext <=> TurnStep \/ TogglePanel \/ \E c \in Cards : CardStep(c)
BY DEF ChatNext, TurnStep, CardStep

\* A step of one card leaves the other cards, the panel and the history alone.
LEMMA OneCardMoves ==
    ASSUME ChatTypeOK, NEW c \in Cards, CardStep(c)
    PROVE  /\ panel' = panel /\ reopened' = reopened /\ moves' = moves
           /\ \A d \in Cards \ {c} :
                 /\ part'[d] = part[d] /\ card'[d] = card[d]
                 /\ running'[d] = running[d] /\ carried'[d] = carried[d]
<1>1. CASE Propose(c)
  BY <1>1 DEF Propose, ChatTypeOK
<1>2. CASE Accept(c)
  BY <1>2 DEF Accept, ChatTypeOK
<1>3. CASE RefuseEdit(c) \/ Dismiss(c)
  BY <1>3 DEF RefuseEdit, Dismiss, ChatTypeOK
<1>4. ASSUME NEW ok \in BOOLEAN, ActionAnswers(c, ok)
      PROVE  /\ panel' = panel /\ reopened' = reopened /\ moves' = moves
             /\ \A d \in Cards \ {c} :
                   /\ part'[d] = part[d] /\ card'[d] = card[d]
                   /\ running'[d] = running[d] /\ carried'[d] = carried[d]
  BY <1>4 DEF ActionAnswers, ChatTypeOK
<1>5. QED
  BY <1>1, <1>2, <1>3, <1>4 DEF CardStep

\* Initially no proposal was made.
LEMMA ChatInitInv == ChatInit => ChatInv
BY ChatAssumption DEF ChatInit, ChatInv, ChatTypeOK, CardKnows

\* Messages, steps of the model and navigations.
LEMMA TurnStepInv == ChatInv /\ TurnStep => ChatInv'
<1> SUFFICES ASSUME ChatInv, TurnStep PROVE ChatInv'
  OBVIOUS
<1>1. UNCHANGED <<part, card, running, carried, reopened>> /\ panel'.open = panel.open
      /\ panel' \in [open : BOOLEAN, scope : BOOLEAN]
  BY DEF TurnStep, SendMessage, ChatRoute, ModelStep, EndTurn, Navigate, cardVars,
         ChatInv, ChatTypeOK
<1>2. /\ turn' \in [at : {"ready", "submitted", "streaming", "error"},
                    steps : 0..MaxSteps, sent : 0..MaxTurns]
      /\ moves' \in 0..MaxMoves
  BY ChatAssumption
  DEF TurnStep, SendMessage, ChatRoute, ModelStep, EndTurn, Navigate, ChatInv, ChatTypeOK
<1>3. QED
  BY <1>1, <1>2 DEF ChatInv, ChatTypeOK, CardKnows

\* Closing keeps what cards know; opening mounts them anew, and those whose action runs
\* are no longer spoken of.
LEMMA ToggleInv == ChatInv /\ TogglePanel => ChatInv'
<1> SUFFICES ASSUME ChatInv, TogglePanel PROVE ChatInv'
  OBVIOUS
<1>1. /\ panel' \in [open : BOOLEAN, scope : BOOLEAN] /\ moves' \in 0..MaxMoves
      /\ UNCHANGED <<turn, part, running, carried>>
  <2>1. moves' \in 0..MaxMoves /\ UNCHANGED <<turn, part, running, carried>>
    BY ChatAssumption DEF TogglePanel, ChatInv, ChatTypeOK
  <2>2. panel \in [open : BOOLEAN, scope : BOOLEAN] /\ panel' = [panel EXCEPT !.open = ~@]
    BY DEF TogglePanel, ChatInv, ChatTypeOK
  <2>3. panel' \in [open : BOOLEAN, scope : BOOLEAN]
    BY <2>2, Zenon
  <2>4. QED
    BY <2>1, <2>3
<1>2. CASE panel.open
  BY <1>1, <1>2 DEF TogglePanel, ChatInv, ChatTypeOK, CardKnows
<1>3. CASE ~panel.open
  <2>1. /\ card' = [c \in Cards |->
               [done |-> IF part[c] = "answered" THEN "done" ELSE "open", busy |-> FALSE]]
        /\ reopened' = reopened \cup {c \in Cards : running[c] > 0}
    BY <1>3 DEF TogglePanel
  <2>2. ChatTypeOK'
    BY <1>1, <2>1 DEF ChatInv, ChatTypeOK
  <2>3. \A c \in Cards : c \notin reopened' => CardKnows(c)'
    BY <1>1, <2>1 DEF ChatInv, ChatTypeOK, CardKnows
  <2>4. \A c \in Cards : card'[c].done # "dismissed"
    BY <2>1
  <2>5. QED
    BY <2>2, <2>3, <2>4 DEF ChatInv
<1>4. QED
  BY <1>2, <1>3 DEF ChatInv, ChatTypeOK

\* What a step of a card does to its own card.
LEMMA CardStepOwn ==
    ASSUME ChatInv, NEW c \in Cards, CardStep(c)
    PROVE  /\ ChatTypeOK'
           /\ c \notin reopened => CardKnows(c)'
           /\ card'[c].done = "dismissed" => part'[c] = "answered"
<1> USE DEF ChatInv, ChatTypeOK
<1>1. CASE Propose(c)
  BY <1>1, ChatAssumption DEF Propose, CardKnows
<1>2. CASE Accept(c)
  <2>1. /\ card' = [card EXCEPT ![c].busy = TRUE] /\ running' = [running EXCEPT ![c] = @ + 1]
        /\ UNCHANGED <<panel, turn, part, carried, moves, reopened>>
        /\ part[c] # "none" /\ card[c].done = "open" /\ panel.open /\ ~card[c].busy
    BY <1>2 DEF Accept, Shown
  <2>2. card' \in [Cards -> [done : {"open", "done", "dismissed", "error"}, busy : BOOLEAN]]
        /\ card'[c].done = "open" /\ card'[c].busy
    BY <2>1
  <2>3. ChatTypeOK'
    BY <2>1, <2>2
  <2>4. c \notin reopened => CardKnows(c)'
    BY <2>1, <2>2 DEF CardKnows
  <2>5. QED
    BY <2>2, <2>3, <2>4
<1>3. CASE RefuseEdit(c)
  BY <1>3 DEF RefuseEdit, Shown, CardKnows
<1>4. CASE Dismiss(c)
  BY <1>4 DEF Dismiss, Shown, CardKnows
<1>5. ASSUME NEW ok \in BOOLEAN, ActionAnswers(c, ok)
      PROVE  /\ ChatTypeOK'
             /\ c \notin reopened => CardKnows(c)'
             /\ card'[c].done = "dismissed" => part'[c] = "answered"
  BY <1>5 DEF ActionAnswers, CardKnows
<1>6. QED
  BY <1>1, <1>2, <1>3, <1>4, <1>5 DEF CardStep

LEMMA CardStepInv == ASSUME ChatInv, NEW c \in Cards, CardStep(c) PROVE ChatInv'
<1>1. ChatTypeOK
  BY DEF ChatInv
<1>2. ASSUME NEW d \in Cards
      PROVE  /\ d \notin reopened' => CardKnows(d)'
             /\ card'[d].done = "dismissed" => part'[d] = "answered"
  <2>1. CASE d = c
    BY <2>1, <1>1, CardStepOwn, OneCardMoves
  <2>2. CASE d # c
    BY <2>2, <1>1, OneCardMoves DEF ChatInv, CardKnows
  <2>3. QED
    BY <2>1, <2>2
<1>3. QED
  BY <1>2, CardStepOwn DEF ChatInv

\* Every step keeps the invariant.
LEMMA ChatStepInv == ChatInv /\ [ChatNext]_chatVars => ChatInv'
<1> SUFFICES ASSUME ChatInv, [ChatNext]_chatVars PROVE ChatInv'
  OBVIOUS
<1>1. CASE ChatNext
  BY <1>1, ChatSplit, TurnStepInv, ToggleInv, CardStepInv
<1>2. CASE UNCHANGED chatVars
  BY <1>2 DEF chatVars, ChatInv, ChatTypeOK, CardKnows
<1>3. QED
  BY <1>1, <1>2

\* From the invariant, no step reopens a card the user has turned down, nor starts its
\* action.
LEMMA DismissedStep ==
    ChatInv /\ [ChatNext]_chatVars
        => \A c \in Cards : card[c].done = "dismissed" =>
              card'[c].done # "open" /\ running'[c] <= running[c]
<1> SUFFICES ASSUME ChatInv, [ChatNext]_chatVars,
                    NEW c \in Cards, card[c].done = "dismissed"
             PROVE  card'[c].done # "open" /\ running'[c] <= running[c]
  OBVIOUS
<1>1. ChatTypeOK /\ part[c] = "answered" /\ running[c] \in Nat
  BY DEF ChatInv, ChatTypeOK
<1>2. CASE TurnStep \/ UNCHANGED chatVars
  BY <1>1, <1>2 DEF TurnStep, SendMessage, ChatRoute, ModelStep, EndTurn, Navigate,
                    cardVars, chatVars
<1>3. CASE TogglePanel
  BY <1>1, <1>3 DEF TogglePanel, ChatTypeOK
<1>4. ASSUME NEW d \in Cards, CardStep(d), d # c
      PROVE  card'[c].done # "open" /\ running'[c] <= running[c]
  BY <1>1, <1>4, OneCardMoves
<1>5. CASE CardStep(c)
  <2>1. CASE Propose(c) \/ Accept(c) \/ RefuseEdit(c) \/ Dismiss(c)
    BY <1>1, <2>1 DEF Propose, Accept, RefuseEdit, Dismiss, Shown
  <2>2. ASSUME NEW ok \in BOOLEAN, ActionAnswers(c, ok)
        PROVE  card'[c].done # "open" /\ running'[c] <= running[c]
    BY <1>1, <2>2 DEF ActionAnswers, ChatTypeOK
  <2>3. QED
    BY <1>5, <2>1, <2>2 DEF CardStep
<1>6. QED
  BY <1>2, <1>3, <1>4, <1>5, ChatSplit

\* A proposal is carried out once at most while its card is not mounted anew under a running
\* action, and one that was turned down is never carried out (chat-panel.tsx:346-349,
\* 489-493), for any number of proposals, messages and moves.
THEOREM EveryProposalRunsOnce == ChatSpec => ProposalsRunOnce
<1>1. ChatInv => ChatTypeOK /\ CarriedOutOnce
  BY DEF ChatInv, CardKnows, CarriedOutOnce
<1>2. QED
  BY <1>1, ChatInitInv, ChatStepInv, DismissedStep, PTL
  DEF ChatSpec, ProposalsRunOnce, DismissedStaysSo


\* The order of the natural numbers, as a relation.
Before == {p \in Nat \X Nat : p[1] < p[2]}

\* A set of natural numbers has a least member.
LEMMA LeastExists ==
    ASSUME NEW S \in SUBSET Nat, S # {}
    PROVE  \E x \in S : \A y \in S : x <= y
<1>1. IsWellFoundedOn(Before, Nat)
  BY NatLessThanWellFounded DEF OpToRel, Before
<1>2. PICK x \in S : \A y \in S : ~ (<<y, x>> \in Before)
  BY <1>1, WFMin
<1>3. ASSUME NEW y \in S PROVE x <= y
  <2>1. <<y, x>> \in Nat \X Nat /\ <<y, x>> \notin Before
    BY <1>2
  <2>2. ~(y < x)
    BY <2>1 DEF Before
  <2>3. QED
    BY <2>2
<1>4. QED
  BY <1>3

\* A set of them that has a bound has a greatest.
LEMMA GreatestExists ==
    ASSUME NEW N \in Nat, NEW S \in SUBSET (0..N), S # {}
    PROVE  \E x \in S : \A y \in S : x >= y
<1> DEFINE T == {n \in Nat : N - n \in S}
<1>1. \A y \in S : N - y \in T /\ N - (N - y) = y
  OBVIOUS
<1>2. T \in SUBSET Nat /\ T # {}
  BY <1>1
<1>3. PICK n \in T : \A m \in T : n <= m
  BY <1>2, LeastExists
<1>4. n \in Nat /\ N - n \in S
  BY <1>3
<1>5. ASSUME NEW y \in S PROVE N - n >= y
  <2>1. n <= N - y
    BY <1>1, <1>3
  <2>2. QED
    BY <1>4, <2>1
<1>6. QED
  BY <1>4, <1>5

-----------------------------------------------------------------------------
(***************************************************************************)
(* RepoIngest, for any repository, slugs, runs, changes and crashes: what  *)
(* is imported is what the last undisturbed run saw.                       *)
(***************************************************************************)

\* Has a run listed the repository, or walked what it has of it?
WalkedThrough(j) ==
    ingest[j].stage \in {"verbatim", "save", "summarize", "ask", "finalize", "deprecate"}
HasListed(j) ==
    \/ WalkedThrough(j)
    \/ ingest[j].stage = "download" \/ (ingest[j].stage = "walk" /\ ~ingest[j].local)

\* What a run works at, whoever else is at work: what it has not seen was removed, and what
\* it is to write has a row.
RunFits(j) ==
    /\ HasListed(j) => \A f \in Files : ingest[j].seen[f] = Nothing => f \in vanished
    /\ WalkedThrough(j) => \A f \in Paths(ingest[j].seen) : repoFile[f] # Nothing
    /\ ingest[j].stage \in {"verbatim", "save"} =>
          ingest[j].todo \subseteq Paths(ingest[j].seen) \cap Markdown
    /\ ingest[j].stage \in {"summarize", "ask"} =>
          ingest[j].todo \subseteq Paths(ingest[j].seen) \ Markdown
    /\ ingest[j].stage \in {"save", "ask"} => ingest[j].todo # {}
    /\ ingest[j].stage = "save" => imported[SlugOf[Due(j)]] # Nothing
    /\ ingest[j].stage = "deprecate" =>
          \A s \in ingest[j].todo : /\ s \in Slugs /\ imported[s] # Nothing
                                    /\ \E f \in vanished : SlugOf[f] = s

\* The documents that a run has been through.
ImportedBy(j) ==
    (Paths(ingest[j].seen) \cap Markdown)
        \ (IF ingest[j].stage \in {"verbatim", "save"} THEN ingest[j].todo ELSE {})

\* What a run that is alone has imported: of files with one slug the last, and what is
\* being written is not whole yet.
ImportsSoFar(j) ==
    /\ ingest[j].stage \in {"verbatim", "save"} =>
          \A f \in ImportedBy(j), g \in ingest[j].todo : f < g
    /\ ingest[j].stage = "save" =>
          /\ ingest[j].body = ingest[j].seen[Due(j)]
          /\ imported[SlugOf[Due(j)]].source = Due(j)
    /\ \A f \in ImportedBy(j) :
          \/ ingest[j].stage = "save" /\ SlugOf[f] = SlugOf[Due(j)]
          \/ /\ imported[SlugOf[f]] # Nothing
             /\ imported[SlugOf[f]].source \in ImportedBy(j)
             /\ imported[SlugOf[f]].source >= f
             /\ imported[SlugOf[f]].body = ingest[j].seen[imported[SlugOf[f]].source]
    /\ ingest[j].stage = "deprecate" =>
          \A s \in Slugs : imported[s] # Nothing /\ ingest[j].seen[imported[s].source] = Nothing =>
             imported[s].deprecated \/ s \in ingest[j].todo \cup ingest[j].spared

\* What is known of a run that nothing disturbs.
RunKnowsFiles(j) ==
    WalkedThrough(j) =>
        /\ ingest[j].local /\ (ingest[j].alone \/ ~crossed) => ingest[j].seen = tree
        /\ ~crossed => /\ \A f \in Paths(ingest[j].seen) : repoFile[f].sha = ingest[j].seen[f]
                       /\ ingest[j].stage = "ask" => ingest[j].body = ingest[j].seen[Due(j)]
        /\ ingest[j].alone => ImportsSoFar(j)

\* A run beside another is not alone.
OneRunOrCrossed ==
    \A i, j \in Ingests :
        i # j /\ IngestRuns(i) /\ IngestRuns(j) => crossed /\ ~ingest[i].alone

SourcesFit == \A s \in Slugs : imported[s] # Nothing => SlugOf[imported[s].source] = s

\* The inductive invariant.
IngestInv ==
    /\ IngestTypeOK
    /\ \A f \in Files : tree[f] = Nothing => f \in vanished
    /\ SourcesFit /\ DeprecatedHasVanished /\ SummaryIsOfItsFile
    /\ OneRunOrCrossed
    /\ \A j \in Ingests : RunFits(j) /\ RunKnowsFiles(j)
    /\ result # Nothing => \A j \in Ingests : ~IngestRuns(j)
    /\ ImportIsExact

LEMMA IngestFacts ==
    ASSUME IngestTypeOK
    PROVE  /\ Files \subseteq Nat /\ Markdown \subseteq Files /\ Nothing \notin Versions
           /\ Slugs \subseteq Markdown /\ (\A f \in Markdown : SlugOf[f] \in Slugs)
           /\ \A f \in Files : /\ tree[f] \in Versions \cup {Nothing}
                               /\ repoFile[f] \in ManifestRow \cup {Nothing}
           /\ \A s \in Slugs : imported[s] \in ImportedRow \cup {Nothing}
           /\ \A s \in Slugs : imported[s] # Nothing => imported[s].source \in Markdown
           /\ \A j \in Ingests :
                 /\ ingest[j] \in IngestRun
                 /\ ingest[j].seen \in Snapshot /\ ingest[j].left \in Snapshot
                 /\ ingest[j].todo \in SUBSET Files /\ ingest[j].local \in BOOLEAN
                 /\ ingest[j].spared \in SUBSET Slugs /\ ingest[j].alone \in BOOLEAN
                 /\ ingest[j].stage \in IngestStages
                 /\ ingest[j].body \in Versions \cup {Nothing}
                 /\ \A f \in Files : ingest[j].seen[f] \in Versions \cup {Nothing}
<1>1. Files \subseteq Nat /\ Markdown \subseteq Files /\ Nothing \notin Versions
  BY IngestAssumption, NothingAssumption DEF Files, Versions
<1>2. Slugs \subseteq Markdown /\ (\A f \in Markdown : SlugOf[f] \in Slugs)
  BY IngestAssumption DEF Slugs
<1>3. \A f \in Files : /\ tree[f] \in Versions \cup {Nothing}
                       /\ repoFile[f] \in ManifestRow \cup {Nothing}
  BY DEF IngestTypeOK, Snapshot, Manifest
<1>4. \A s \in Slugs : imported[s] \in ImportedRow \cup {Nothing}
  BY DEF IngestTypeOK
<1>5. \A s \in Slugs : imported[s] # Nothing => imported[s].source \in Markdown
  BY <1>4 DEF ImportedRow
<1>6. ASSUME NEW j \in Ingests
      PROVE  /\ ingest[j] \in IngestRun
             /\ ingest[j].seen \in Snapshot /\ ingest[j].left \in Snapshot
             /\ ingest[j].todo \in SUBSET Files /\ ingest[j].local \in BOOLEAN
             /\ ingest[j].spared \in SUBSET Slugs /\ ingest[j].alone \in BOOLEAN
             /\ ingest[j].stage \in IngestStages
             /\ ingest[j].body \in Versions \cup {Nothing}
             /\ \A f \in Files : ingest[j].seen[f] \in Versions \cup {Nothing}
  <2>1. ingest[j] \in IngestRun
    BY DEF IngestTypeOK
  <2>2. ingest[j].seen \in Snapshot
    BY <2>1 DEF IngestRun
  <2>3. QED
    BY <2>1, <2>2 DEF IngestRun, Snapshot
<1>7. QED
  BY <1>1, <1>2, <1>3, <1>4, <1>5, <1>6

\* The file a run is at comes first of those it has to do.
LEMMA DueIsFirst ==
    ASSUME IngestTypeOK, NEW j \in Ingests, ingest[j].todo # {}
    PROVE  /\ Due(j) \in ingest[j].todo /\ Due(j) \in Files /\ Due(j) \in Nat
           /\ \A f \in ingest[j].todo : Due(j) <= f
<1> DEFINE S == ingest[j].todo
<1>1. S \in SUBSET Nat /\ S \in SUBSET Files
  BY IngestFacts
<1>2. \E x \in S : \A y \in S : x <= y
  BY <1>1, LeastExists
<1> HIDE DEF S
<1>3. Min(S) \in S /\ \A y \in S : Min(S) <= y
  BY <1>2 DEF Min
<1>4. QED
  BY <1>1, <1>3 DEF Due, S

LEMMA MaxIsGreatest ==
    ASSUME NEW S \in SUBSET Nat, NEW x \in S, \A y \in S : x >= y
    PROVE  Max(S) = x
<1>1. Max(S) \in S /\ \A y \in S : Max(S) >= y
  BY DEF Max
<1>2. Max(S) \in Nat /\ x \in Nat /\ Max(S) >= x /\ x >= Max(S)
  BY <1>1
<1>3. QED
  BY <1>2

LEMMA RunToFacts ==
    ASSUME IngestTypeOK, NEW j \in Ingests, NEW r \in IngestRun, RunTo(j, r)
    PROVE  /\ ingest' \in [Ingests -> IngestRun] /\ ingest'[j] = r
           /\ \A i \in Ingests : i # j => ingest'[i] = ingest[i]
BY DEF IngestTypeOK, RunTo

LEMMA IngestInitInv == IngestInit => IngestInv
<1> SUFFICES ASSUME IngestInit PROVE IngestInv
  OBVIOUS
<1>1. NoSnapshot \in Snapshot /\ NoSnapshot \in Manifest /\ tree \in Snapshot
  <2>1. 1 \in Versions
    BY IngestAssumption DEF Versions
  <2>2. QED
    BY <2>1 DEF NoSnapshot, Snapshot, Manifest, IngestInit
<1>2. NotBegun \in IngestRun /\ NotBegun.stage = "new"
  BY <1>1 DEF NotBegun, IngestRun, IngestStages
<1>3. \A j \in Ingests : ingest[j] = NotBegun /\ ingest[j].stage = "new"
  BY <1>2 DEF IngestInit
<1>4. IngestTypeOK
  BY <1>1, <1>2, <1>3 DEF IngestInit, IngestTypeOK
<1>5. \A f \in Files : tree[f] # Nothing /\ repoFile[f] = Nothing
  BY IngestAssumption, NothingAssumption DEF IngestInit, NoSnapshot
<1>6. SourcesFit /\ DeprecatedHasVanished /\ SummaryIsOfItsFile
  BY <1>5, IngestAssumption DEF IngestInit, SourcesFit, DeprecatedHasVanished, SummaryIsOfItsFile
<1>7. OneRunOrCrossed /\ \A j \in Ingests : RunFits(j) /\ RunKnowsFiles(j)
  BY <1>3 DEF OneRunOrCrossed, IngestRuns, RunFits, RunKnowsFiles, WalkedThrough, HasListed
<1>8. result = Nothing
  BY DEF IngestInit
<1>9. QED
  BY <1>4, <1>5, <1>6, <1>7, <1>8 DEF IngestInv, ImportIsExact

-----------------------------------------------------------------------------
\* A run does something: what others are to write stays where it is, and those who know
\* nothing of it are not alone.
LEMMA IngestMoves ==
    ASSUME IngestInv, NEW j \in Ingests, IngestRuns(j), NEW r \in IngestRun, RunTo(j, r),
           r.stage \in {"save", "ask"} => r.body \in Versions,
           r.alone /\ r.stage # "ended" => ingest[j].alone,
           UNCHANGED <<tree, pushes, crossed, vanished>>, crashes' \in Nat,
           repoFile' \in Manifest,
           \A f \in Files : repoFile[f] # Nothing => repoFile'[f] # Nothing,
           imported' \in [Slugs -> ImportedRow \cup {Nothing}],
           \A s \in Slugs : imported[s] # Nothing => imported'[s] # Nothing,
           SourcesFit', DeprecatedHasVanished', SummaryIsOfItsFile',
           RunFits(j)', RunKnowsFiles(j)',
           \/ UNCHANGED result
           \/ /\ result' \in Outcome /\ r.stage = "ended" /\ ingest[j].alone
              /\ ImportIsExact'
    PROVE  IngestInv'
<1>a. IngestTypeOK /\ OneRunOrCrossed
  BY DEF IngestInv
<1>1. /\ ingest' \in [Ingests -> IngestRun] /\ ingest'[j] = r
      /\ \A i \in Ingests : i # j => ingest'[i] = ingest[i]
  BY <1>a, RunToFacts
<1>2. result = Nothing
  BY DEF IngestInv
<1>3. IngestTypeOK'
  <2>1. result' \in Outcome \cup {Nothing}
    BY <1>a DEF IngestTypeOK
  <2>2. \A i \in Ingests : ingest'[i].stage \in {"save", "ask"} => ingest'[i].body \in Versions
    BY <1>1, <1>a DEF IngestTypeOK
  <2>3. QED
    BY <1>1, <1>a, <2>1, <2>2 DEF IngestTypeOK
<1>4. \A i \in Ingests : IngestRuns(i)' => IngestRuns(i)
  BY <1>1 DEF IngestRuns
<1>5. OneRunOrCrossed'
  <2> SUFFICES ASSUME NEW i \in Ingests, NEW h \in Ingests, i # h, IngestRuns(i)', IngestRuns(h)'
               PROVE  crossed' /\ ~ingest'[i].alone
    BY DEF OneRunOrCrossed
  <2>1. crossed /\ ~ingest[i].alone
    BY <1>a, <1>4 DEF OneRunOrCrossed
  <2>2. ~ingest'[i].alone
    <3>1. CASE i = j
      <4>1. r.stage # "ended"
        BY <3>1, <1>1 DEF IngestRuns
      <4>2. QED
        BY <3>1, <4>1, <2>1, <1>1
    <3>2. CASE i # j
      BY <3>2, <2>1, <1>1
    <3>3. QED
      BY <3>1, <3>2
  <2>3. QED
    BY <2>1, <2>2
<1>6. ASSUME NEW i \in Ingests PROVE RunFits(i)' /\ RunKnowsFiles(i)'
  <2>1. CASE i = j
    BY <2>1
  <2>2. CASE i # j
    <3>1. ingest'[i] = ingest[i]
      BY <2>2, <1>1
    <3>2. WalkedThrough(i)' = WalkedThrough(i) /\ HasListed(i)' = HasListed(i) /\ Due(i)' = Due(i)
      BY <3>1 DEF WalkedThrough, HasListed, Due
    <3>3. ingest[i].stage = "save" => SlugOf[Due(i)] \in Slugs
      <4>1. SUFFICES ASSUME ingest[i].stage = "save" PROVE Due(i) \in Markdown
        BY <1>a, IngestFacts
      <4>2. ingest[i].todo # {} /\ ingest[i].todo \subseteq Markdown
        BY <4>1 DEF IngestInv, RunFits
      <4>3. QED
        BY <4>2, <1>a, DueIsFirst
    <3>4. Paths(ingest[i].seen) \subseteq Files
      BY DEF Paths
    <3>5. RunFits(i)'
      BY <3>1, <3>2, <3>3, <3>4 DEF IngestInv, RunFits
    <3>6. WalkedThrough(i) => IngestRuns(i)
      BY DEF WalkedThrough, IngestRuns
    <3>7. WalkedThrough(i) => crossed /\ ~ingest[i].alone
      BY <3>6, <2>2, <1>a DEF OneRunOrCrossed
    <3>8. RunKnowsFiles(i)'
      BY <3>1, <3>2, <3>7 DEF RunKnowsFiles
    <3>9. QED
      BY <3>5, <3>8
  <2>3. QED
    BY <2>1, <2>2
<1>7. ImportIsExact' /\ (result' # Nothing => \A i \in Ingests : ~IngestRuns(i)')
  <2>1. CASE UNCHANGED result
    BY <2>1, <1>2 DEF ImportIsExact
  <2>2. CASE r.stage = "ended" /\ ingest[j].alone /\ ImportIsExact'
    <3>1. \A i \in Ingests : i # j => ~IngestRuns(i)
      BY <2>2, <1>a DEF OneRunOrCrossed
    <3>2. ~IngestRuns(j)'
      BY <2>2, <1>1 DEF IngestRuns
    <3>3. \A i \in Ingests : ~IngestRuns(i)'
      BY <3>1, <3>2, <1>4
    <3>4. QED
      BY <2>2, <3>3
  <2>3. QED
    BY <2>1, <2>2
<1>8. \A f \in Files : tree'[f] = Nothing => f \in vanished'
  BY DEF IngestInv
<1>9. QED
  BY <1>3, <1>5, <1>6, <1>7, <1>8 DEF IngestInv

\* A run goes on, and leaves the rows as they are.
LEMMA IngestLooks ==
    ASSUME IngestInv, NEW j \in Ingests, IngestRuns(j), NEW r \in IngestRun, RunTo(j, r),
           r.stage \in {"save", "ask"} => r.body \in Versions,
           r.alone /\ r.stage # "ended" => ingest[j].alone,
           UNCHANGED <<ingestRows, tree, pushes, crossed, vanished, result>>, crashes' \in Nat,
           RunFits(j)', RunKnowsFiles(j)'
    PROVE  IngestInv'
<1>1. /\ repoFile' = repoFile /\ imported' = imported
      /\ UNCHANGED <<tree, pushes, crossed, vanished, result>>
  BY DEF ingestRows
<1>2. SourcesFit' /\ DeprecatedHasVanished' /\ SummaryIsOfItsFile'
  BY <1>1 DEF IngestInv, SourcesFit, DeprecatedHasVanished, SummaryIsOfItsFile
<1>3. repoFile' \in Manifest /\ imported' \in [Slugs -> ImportedRow \cup {Nothing}]
  BY <1>1 DEF IngestInv, IngestTypeOK
<1>4. QED
  BY <1>1, <1>2, <1>3, IngestMoves

\* The tree is listed: what is not there was removed at some time.
LEMMA ListTreeInv ==
    ASSUME IngestInv, NEW j \in Ingests, ListTree(j)
    PROVE  IngestInv'
<1>1. IngestTypeOK /\ IngestRuns(j) /\ crashes' \in Nat /\ tree \in Snapshot
      /\ UNCHANGED <<ingestRows, tree, pushes, crossed, vanished, result>>
  BY DEF IngestInv, IngestTypeOK, ListTree, IngestRuns, ingestWorld
<1>2. PICK r \in IngestRun :
        /\ RunTo(j, r) /\ r.stage = "download" /\ r.seen = tree /\ r.alone = ingest[j].alone
  <2> DEFINE r == [ingest[j] EXCEPT !.stage = "download", !.seen = tree]
  <2>1. /\ r \in IngestRun /\ r.stage = "download" /\ r.seen = tree
        /\ r.alone = ingest[j].alone
    BY <1>1, IngestFacts DEF IngestRun, IngestStages
  <2>2. RunTo(j, r)
    BY DEF ListTree
  <2> HIDE DEF r
  <2>3. QED
    BY <2>1, <2>2
<1>3. ingest'[j] = r
  BY <1>1, <1>2, RunToFacts
<1>4. RunFits(j)'
  BY <1>1, <1>2, <1>3 DEF IngestInv, RunFits, WalkedThrough, HasListed
<1>5. RunKnowsFiles(j)'
  BY <1>2, <1>3 DEF RunKnowsFiles, WalkedThrough
<1>6. QED
  BY <1>1, <1>2, <1>4, <1>5, IngestLooks

\* The blobs are fetched, of all that was listed.
LEMMA FetchGithubRepoInv ==
    ASSUME IngestInv, NEW j \in Ingests, FetchGithubRepo(j)
    PROVE  IngestInv'
<1>1. IngestTypeOK /\ IngestRuns(j) /\ crashes' \in Nat /\ ingest[j].stage = "download"
      /\ UNCHANGED <<ingestRows, tree, pushes, crossed, vanished, result>>
  BY DEF IngestInv, IngestTypeOK, FetchGithubRepo, IngestRuns, ingestWorld
<1> DEFINE seen == Fetched(ingest[j])
<1>2. seen \in Snapshot /\ \A f \in Files : seen[f] = Nothing => ingest[j].seen[f] = Nothing
  <2>1. \A f \in Files : ingest[j].seen[f] # Nothing => tree[f] # Nothing
    BY DEF FetchGithubRepo, Paths
  <2>2. \A f \in Files : ingest[j].left[f] \in Versions \cup {Nothing}
    BY <1>1, IngestFacts DEF Snapshot
  <2>3. QED
    BY <2>1, <2>2, <1>1, IngestFacts DEF Fetched, Snapshot
<1>3. RunTo(j, [ingest[j] EXCEPT !.stage = "walk", !.seen = seen])
  BY DEF FetchGithubRepo
<1> HIDE DEF seen
<1>4. PICK r \in IngestRun :
        /\ RunTo(j, r) /\ r.stage = "walk" /\ r.seen = seen /\ r.alone = ingest[j].alone
  <2> DEFINE r == [ingest[j] EXCEPT !.stage = "walk", !.seen = seen]
  <2>1. /\ r \in IngestRun /\ r.stage = "walk" /\ r.seen = seen
        /\ r.alone = ingest[j].alone
    BY <1>1, <1>2, IngestFacts DEF IngestRun, IngestStages
  <2>2. RunTo(j, r)
    BY <1>3
  <2> HIDE DEF r
  <2>3. QED
    BY <2>1, <2>2
<1>5. ingest'[j] = r
  BY <1>1, <1>4, RunToFacts
<1>6. RunFits(j)'
  <2>1. \A f \in Files : ingest[j].seen[f] = Nothing => f \in vanished
    BY <1>1 DEF IngestInv, RunFits, HasListed
  <2>2. QED
    BY <1>1, <1>2, <1>4, <1>5, <2>1 DEF RunFits, WalkedThrough, HasListed
<1>7. RunKnowsFiles(j)'
  BY <1>4, <1>5 DEF RunKnowsFiles, WalkedThrough
<1>8. QED
  BY <1>1, <1>4, <1>6, <1>7, IngestLooks

\* The walk keeps a summary only of a file that is the same, and nothing is imported yet.
LEMMA WalkRepoInv ==
    ASSUME IngestInv, NEW j \in Ingests, WalkRepo(j)
    PROVE  IngestInv'
<1>1. IngestTypeOK /\ IngestRuns(j) /\ crashes' \in Nat /\ ingest[j].stage = "walk"
      /\ UNCHANGED <<imported, tree, pushes, crossed, vanished, result>>
  BY DEF IngestInv, IngestTypeOK, WalkRepo, IngestRuns, ingestWorld
<1> DEFINE seen == IF ingest[j].local THEN tree ELSE ingest[j].seen
           todo == Paths(seen) \cap Markdown
<1>2. /\ seen \in Snapshot /\ (\A f \in Files : seen[f] \in Versions \cup {Nothing})
      /\ Paths(seen) \subseteq Files /\ todo \in SUBSET Files
      /\ \A f \in Files : seen[f] = Nothing => f \in vanished
  <2>1. seen \in Snapshot
    BY <1>1, IngestFacts DEF IngestTypeOK
  <2>2. \A f \in Files : seen[f] \in Versions \cup {Nothing}
    BY <2>1 DEF Snapshot
  <2>3. \A f \in Files : seen[f] = Nothing => f \in vanished
    BY <1>1 DEF IngestInv, RunFits, HasListed
  <2>4. Paths(seen) \subseteq Files
    BY DEF Paths
  <2>5. QED
    BY <2>1, <2>2, <2>3, <2>4
<1>3. /\ repoFile' = [f \in Files |-> IF seen[f] = Nothing THEN repoFile[f]
                                      ELSE WalkedRow(repoFile[f], seen[f])]
      /\ RunTo(j, [ingest[j] EXCEPT !.stage = "verbatim", !.seen = seen, !.todo = todo])
  BY DEF WalkRepo
<1>4. seen = IF ingest[j].local THEN tree ELSE ingest[j].seen
  OBVIOUS
<1>5. todo = Paths(seen) \cap Markdown
  OBVIOUS
<1> HIDE DEF seen, todo
<1>6. PICK r \in IngestRun :
        /\ RunTo(j, r) /\ r.stage = "verbatim" /\ r.seen = seen /\ r.todo = todo
        /\ r.alone = ingest[j].alone /\ r.local = ingest[j].local
  <2> DEFINE r == [ingest[j] EXCEPT !.stage = "verbatim", !.seen = seen, !.todo = todo]
  <2>1. /\ r \in IngestRun /\ r.stage = "verbatim" /\ r.seen = seen /\ r.todo = todo
        /\ r.alone = ingest[j].alone /\ r.local = ingest[j].local
    BY <1>1, <1>2, IngestFacts DEF IngestRun, IngestStages
  <2>2. RunTo(j, r)
    BY <1>3
  <2> HIDE DEF r
  <2>3. QED
    BY <2>1, <2>2
<1>7. ingest'[j] = r
  BY <1>1, <1>6, RunToFacts
<1>8. ASSUME NEW f \in Files, seen[f] # Nothing
      PROVE  /\ repoFile'[f] \in ManifestRow /\ repoFile'[f].sha = seen[f]
             /\ repoFile'[f] # Nothing
             /\ \/ repoFile'[f].summary = Nothing
                \/ /\ repoFile[f] # Nothing /\ repoFile[f].sha = seen[f]
                   /\ repoFile'[f].summary = repoFile[f].summary
  <2>1. repoFile'[f] = WalkedRow(repoFile[f], seen[f])
    BY <1>3, <1>8
  <2>2. repoFile[f] \in ManifestRow \cup {Nothing} /\ seen[f] \in Versions
    BY <1>1, <1>2, <1>8, IngestFacts
  <2>3. /\ KeptSummary(repoFile[f], seen[f]) \in Summary
        /\ \/ KeptSummary(repoFile[f], seen[f]) = Nothing
           \/ /\ repoFile[f] # Nothing /\ repoFile[f].sha = seen[f]
              /\ KeptSummary(repoFile[f], seen[f]) = repoFile[f].summary
    BY <2>2 DEF KeptSummary, ManifestRow, Summary
  <2>4. repoFile'[f] \in ManifestRow
    BY <2>1, <2>2, <2>3 DEF WalkedRow, ManifestRow
  <2>5. QED
    BY <2>1, <2>3, <2>4, NothingAssumption DEF WalkedRow
<1>9. \A f \in Files : seen[f] = Nothing => repoFile'[f] = repoFile[f]
  BY <1>3
<1>10. /\ repoFile' \in Manifest
       /\ \A f \in Files : repoFile[f] # Nothing => repoFile'[f] # Nothing
  <2>1. \A f \in Files : repoFile'[f] \in ManifestRow \cup {Nothing}
    BY <1>1, <1>8, <1>9, IngestFacts
  <2>2. QED
    BY <2>1, <1>3, <1>8, <1>9 DEF Manifest
<1>11. SummaryIsOfItsFile'
  <2> SUFFICES ASSUME ~crossed, NEW f \in Files \ Markdown, repoFile'[f] # Nothing
               PROVE  repoFile'[f].summary \in {repoFile'[f].sha, Failed, Nothing}
    BY <1>1 DEF SummaryIsOfItsFile
  <2>1. repoFile[f] # Nothing => repoFile[f].summary \in {repoFile[f].sha, Failed, Nothing}
    BY DEF IngestInv, SummaryIsOfItsFile
  <2>2. QED
    BY <2>1, <1>8, <1>9
<1>12. SourcesFit' /\ DeprecatedHasVanished'
  BY <1>1 DEF IngestInv, SourcesFit, DeprecatedHasVanished
<1>13. \A f \in Paths(seen) : f \in Files /\ seen[f] # Nothing
  BY DEF Paths
<1>14. RunFits(j)'
  BY <1>1, <1>2, <1>5, <1>6, <1>7, <1>8, <1>13 DEF RunFits, WalkedThrough, HasListed
<1>15. RunKnowsFiles(j)'
  <2>1. ingest'[j].local => ingest'[j].seen = tree'
    BY <1>1, <1>4, <1>6, <1>7
  <2>2. \A f \in Paths(ingest'[j].seen) : repoFile'[f].sha = ingest'[j].seen[f]
    BY <1>6, <1>7, <1>8, <1>13
  <2>3. ImportedBy(j)' = {}
    BY <1>5, <1>6, <1>7 DEF ImportedBy
  <2>4. ImportsSoFar(j)'
    BY <2>3, <1>6, <1>7 DEF ImportsSoFar
  <2>5. QED
    BY <2>1, <2>2, <2>4, <1>6, <1>7 DEF RunKnowsFiles
<1>16. imported' \in [Slugs -> ImportedRow \cup {Nothing}]
  BY <1>1 DEF IngestTypeOK
<1>17. QED
  BY <1>1, <1>6, <1>10, <1>11, <1>12, <1>14, <1>15, <1>16, IngestMoves

\* A row of the documents that is rewritten has the slug it had.
LEMMA RowIsRewritten ==
    ASSUME IngestInv, NEW s \in Slugs, NEW entry \in ImportedRow,
           imported' = [imported EXCEPT ![s] = entry], SlugOf[entry.source] = s,
           vanished' = vanished, entry.deprecated => \E f \in vanished : SlugOf[f] = s
    PROVE  /\ imported' \in [Slugs -> ImportedRow \cup {Nothing}]
           /\ imported'[s] = entry /\ entry # Nothing
           /\ \A t \in Slugs : t # s => imported'[t] = imported[t]
           /\ \A t \in Slugs : imported[t] # Nothing => imported'[t] # Nothing
           /\ SourcesFit' /\ DeprecatedHasVanished'
<1>1. imported \in [Slugs -> ImportedRow \cup {Nothing}]
  BY DEF IngestInv, IngestTypeOK
<1>2. /\ imported' \in [Slugs -> ImportedRow \cup {Nothing}]
      /\ imported'[s] = entry /\ entry # Nothing
      /\ \A t \in Slugs : t # s => imported'[t] = imported[t]
  BY <1>1, NothingAssumption
<1>3. SourcesFit'
  BY <1>2 DEF IngestInv, SourcesFit
<1>4. DeprecatedHasVanished'
  BY <1>2 DEF IngestInv, DeprecatedHasVanished
<1>5. QED
  BY <1>2, <1>3, <1>4

\* The file at hand is skipped, or its document found or made.
LEMMA UpsertIngestDocumentInv ==
    ASSUME IngestInv, NEW j \in Ingests, UpsertIngestDocument(j)
    PROVE  IngestInv'
<1>1. IngestTypeOK /\ IngestRuns(j) /\ crashes' \in Nat /\ ingest[j].stage = "verbatim"
      /\ ingest[j].todo # {} /\ UNCHANGED <<repoFile, tree, pushes, crossed, vanished, result>>
  BY DEF IngestInv, IngestTypeOK, UpsertIngestDocument, IngestRuns, ingestWorld
<1>2. RunFits(j) /\ RunKnowsFiles(j) /\ WalkedThrough(j) /\ HasListed(j)
  BY <1>1 DEF IngestInv, WalkedThrough, HasListed
<1> DEFINE d == Due(j)
           s == SlugOf[d]
<1>3. /\ d \in ingest[j].todo /\ d \in Markdown /\ s \in Slugs
      /\ ingest[j].seen[d] # Nothing
  <2>1. d \in ingest[j].todo
    BY <1>1, DueIsFirst
  <2>2. d \in Paths(ingest[j].seen) \cap Markdown
    BY <2>1, <1>1, <1>2 DEF RunFits
  <2>3. QED
    BY <2>1, <2>2, <1>1, IngestFacts DEF Paths
<1>4. Paths(ingest[j].seen) \subseteq Files
  BY DEF Paths
<1>5. CASE /\ RunTo(j, [ingest[j] EXCEPT !.todo = @ \ {d}, !.alone = FALSE])
           /\ UNCHANGED imported
  <2>1. PICK r \in IngestRun :
          /\ RunTo(j, r) /\ r.stage = "verbatim" /\ r.seen = ingest[j].seen
          /\ r.todo = ingest[j].todo \ {d} /\ r.alone = FALSE /\ r.local = ingest[j].local
    <3> DEFINE r == [ingest[j] EXCEPT !.todo = @ \ {d}, !.alone = FALSE]
    <3>1. /\ r \in IngestRun /\ r.stage = "verbatim" /\ r.seen = ingest[j].seen
          /\ r.todo = ingest[j].todo \ {d} /\ r.alone = FALSE /\ r.local = ingest[j].local
      BY <1>1, IngestFacts DEF IngestRun
    <3>2. RunTo(j, r)
      BY <1>5
    <3> HIDE DEF r
    <3>3. QED
      BY <3>1, <3>2
  <2>2. ingest'[j] = r
    BY <1>1, <2>1, RunToFacts
  <2>3. UNCHANGED <<ingestRows, tree, pushes, crossed, vanished, result>>
    BY <1>1, <1>5 DEF ingestRows
  <2>4. RunFits(j)'
    BY <1>1, <1>2, <1>4, <2>1, <2>2, <2>3 DEF RunFits, WalkedThrough, HasListed, ingestRows
  <2>5. RunKnowsFiles(j)'
    BY <1>1, <1>2, <1>4, <2>1, <2>2, <2>3 DEF RunKnowsFiles, WalkedThrough, ingestRows
  <2>6. QED
    BY <1>1, <2>1, <2>3, <2>4, <2>5, IngestLooks
<1>6. CASE /\ ReadFile(j, d) # Nothing
           /\ imported' = [imported EXCEPT ![s] = FoundOrMade(@, d)]
           /\ RunTo(j, [ingest[j] EXCEPT !.stage = "save", !.body = ReadFile(j, d)])
  <2>1. ReadFile(j, d) \in Versions
    BY <1>1, <1>3, <1>6, IngestFacts DEF ReadFile
  <2>2. PICK r \in IngestRun :
          /\ RunTo(j, r) /\ r.stage = "save" /\ r.seen = ingest[j].seen
          /\ r.todo = ingest[j].todo /\ r.alone = ingest[j].alone /\ r.local = ingest[j].local
          /\ r.body = ReadFile(j, d)
    <3> DEFINE r == [ingest[j] EXCEPT !.stage = "save", !.body = ReadFile(j, d)]
    <3>1. /\ r \in IngestRun /\ r.stage = "save" /\ r.seen = ingest[j].seen
          /\ r.todo = ingest[j].todo /\ r.alone = ingest[j].alone /\ r.local = ingest[j].local
          /\ r.body = ReadFile(j, d)
      BY <1>1, <2>1, IngestFacts DEF IngestRun, IngestStages
    <3>2. RunTo(j, r)
      BY <1>6
    <3> HIDE DEF r
    <3>3. QED
      BY <3>1, <3>2
  <2>3. ingest'[j] = r
    BY <1>1, <2>2, RunToFacts
  <2>4. Due(j)' = d
    BY <2>2, <2>3 DEF Due
  <2>5. PICK entry : entry = FoundOrMade(imported[s], d)
    OBVIOUS
  <2>6. /\ entry \in ImportedRow /\ entry.source = d
        /\ entry.deprecated => imported[s] # Nothing /\ imported[s].deprecated
    BY <1>1, <1>3, <2>5, IngestFacts DEF FoundOrMade, ImportedRow
  <2>7. imported' = [imported EXCEPT ![s] = entry]
    BY <1>6, <2>5
  <2>8. entry.deprecated => \E f \in vanished : SlugOf[f] = s
    BY <2>6, <1>3 DEF IngestInv, DeprecatedHasVanished
  <2>9. /\ imported' \in [Slugs -> ImportedRow \cup {Nothing}]
        /\ imported'[s] = entry /\ entry # Nothing
        /\ \A t \in Slugs : t # s => imported'[t] = imported[t]
        /\ \A t \in Slugs : imported[t] # Nothing => imported'[t] # Nothing
        /\ SourcesFit' /\ DeprecatedHasVanished'
    BY <1>1, <1>3, <2>6, <2>7, <2>8, RowIsRewritten
  <2>10. WalkedThrough(j)' /\ HasListed(j)'
    BY <2>2, <2>3 DEF WalkedThrough, HasListed
  <2>11. RunFits(j)'
    BY <1>1, <1>2, <1>4, <2>2, <2>3, <2>4, <2>9, <2>10 DEF RunFits
  <2>12. ASSUME ingest[j].alone PROVE ImportsSoFar(j)'
    <3>1. ImportsSoFar(j)
      BY <2>12, <1>2 DEF RunKnowsFiles
    <3>2. ReadFile(j, d) = ingest[j].seen[d]
      BY <2>12, <1>2 DEF RunKnowsFiles, ReadFile
    <3>3. ImportedBy(j)' = ImportedBy(j)
      BY <1>1, <2>2, <2>3 DEF ImportedBy
    <3>4. \A f \in ImportedBy(j) : SlugOf[f] \in Slugs
      BY <1>1, IngestFacts DEF ImportedBy
    <3>5. \A f \in ImportedBy(j), g \in ingest[j].todo : f < g
      BY <1>1, <3>1 DEF ImportsSoFar
    <3>6. ASSUME NEW f \in ImportedBy(j), SlugOf[f] # s
          PROVE  /\ imported'[SlugOf[f]] # Nothing
                 /\ imported'[SlugOf[f]].source \in ImportedBy(j)
                 /\ imported'[SlugOf[f]].source >= f
                 /\ imported'[SlugOf[f]].body = ingest[j].seen[imported'[SlugOf[f]].source]
      BY <3>1, <3>4, <3>6, <2>9, <1>1 DEF ImportsSoFar
    <3> HIDE DEF d
    <3>7. QED
      BY <2>2, <2>3, <2>4, <2>6, <2>9, <3>2, <3>3, <3>5, <3>6 DEF ImportsSoFar
  <2>13. RunKnowsFiles(j)'
    BY <1>1, <1>2, <1>4, <2>2, <2>3, <2>12 DEF RunKnowsFiles
  <2>14. SummaryIsOfItsFile' /\ repoFile' \in Manifest
    BY <1>1 DEF IngestInv, IngestTypeOK, SummaryIsOfItsFile
  <2>15. QED
    BY <1>1, <2>1, <2>2, <2>9, <2>11, <2>13, <2>14, IngestMoves
<1>7. QED
  BY <1>5, <1>6 DEF UpsertIngestDocument

\* What the file says is written to the document.
LEMMA SaveVerbatimInv ==
    ASSUME IngestInv, NEW j \in Ingests, SaveVerbatim(j)
    PROVE  IngestInv'
<1>1. IngestTypeOK /\ IngestRuns(j) /\ crashes' \in Nat /\ ingest[j].stage = "save"
      /\ UNCHANGED <<repoFile, tree, pushes, crossed, vanished, result>>
  BY DEF IngestInv, IngestTypeOK, SaveVerbatim, IngestRuns, ingestWorld
<1>2. /\ RunFits(j) /\ RunKnowsFiles(j) /\ WalkedThrough(j) /\ HasListed(j)
      /\ ingest[j].body \in Versions
  BY <1>1 DEF IngestInv, IngestTypeOK, WalkedThrough, HasListed
<1> DEFINE d == Due(j)
           s == SlugOf[d]
           entry == [imported[s] EXCEPT !.body = ingest[j].body]
<1>3. /\ d \in ingest[j].todo /\ d \in Markdown /\ s \in Slugs /\ d \in Nat
      /\ \A f \in ingest[j].todo : d <= f
      /\ d \in Paths(ingest[j].seen) \cap Markdown
      /\ ingest[j].todo \subseteq Paths(ingest[j].seen) \cap Markdown
  <2>1. ingest[j].todo # {} /\ ingest[j].todo \subseteq Paths(ingest[j].seen) \cap Markdown
    BY <1>1, <1>2 DEF RunFits
  <2>2. QED
    BY <2>1, <1>1, IngestFacts, DueIsFirst
<1>4. Paths(ingest[j].seen) \subseteq Files
  BY DEF Paths
<1>5. imported[s] \in ImportedRow /\ SlugOf[imported[s].source] = s
  <2>1. imported[s] # Nothing
    BY <1>1, <1>2 DEF RunFits
  <2>2. QED
    BY <2>1, <1>1, <1>3, IngestFacts DEF IngestInv, SourcesFit
<1>6. /\ entry \in ImportedRow /\ entry.source = imported[s].source
      /\ entry.body = ingest[j].body /\ entry.deprecated = imported[s].deprecated
  BY <1>2, <1>5 DEF ImportedRow
<1>7. imported' = [imported EXCEPT ![s] = entry]
  BY DEF SaveVerbatim
<1>8. entry.deprecated => \E f \in vanished : SlugOf[f] = s
  BY <1>3, <1>5, <1>6, NothingAssumption DEF IngestInv, DeprecatedHasVanished
<1> HIDE DEF entry
<1>9. /\ imported' \in [Slugs -> ImportedRow \cup {Nothing}]
      /\ imported'[s] = entry /\ entry # Nothing
      /\ \A t \in Slugs : t # s => imported'[t] = imported[t]
      /\ \A t \in Slugs : imported[t] # Nothing => imported'[t] # Nothing
      /\ SourcesFit' /\ DeprecatedHasVanished'
  BY <1>1, <1>3, <1>5, <1>6, <1>7, <1>8, RowIsRewritten
<1>10. PICK r \in IngestRun :
        /\ RunTo(j, r) /\ r.stage = "verbatim" /\ r.seen = ingest[j].seen
        /\ r.todo = ingest[j].todo \ {d} /\ r.alone = ingest[j].alone
        /\ r.local = ingest[j].local
  <2> DEFINE r == [ingest[j] EXCEPT !.stage = "verbatim", !.todo = @ \ {d}]
  <2>1. /\ r \in IngestRun /\ r.stage = "verbatim" /\ r.seen = ingest[j].seen
        /\ r.todo = ingest[j].todo \ {d} /\ r.alone = ingest[j].alone
        /\ r.local = ingest[j].local
    BY <1>1, IngestFacts DEF IngestRun, IngestStages
  <2>2. RunTo(j, r)
    BY DEF SaveVerbatim
  <2> HIDE DEF r
  <2>3. QED
    BY <2>1, <2>2
<1>11. ingest'[j] = r
  BY <1>1, <1>10, RunToFacts
<1>12. RunFits(j)'
  BY <1>1, <1>2, <1>4, <1>10, <1>11 DEF RunFits, WalkedThrough, HasListed
<1>13. ASSUME ingest[j].alone PROVE ImportsSoFar(j)'
  <2>1. ImportsSoFar(j)
    BY <1>13, <1>2 DEF RunKnowsFiles
  <2>2. /\ ingest[j].body = ingest[j].seen[d] /\ imported[s].source = d
        /\ \A f \in ImportedBy(j), g \in ingest[j].todo : f < g
    BY <1>1, <2>1 DEF ImportsSoFar
  <2>3. ImportedBy(j)' = ImportedBy(j) \cup {d}
    BY <1>1, <1>3, <1>10, <1>11 DEF ImportedBy
  <2>4. ImportedBy(j) \subseteq Markdown /\ Markdown \subseteq Nat
    BY <1>1, IngestFacts DEF ImportedBy
  <2> HIDE DEF d, s
  <2>5. ASSUME NEW f \in ImportedBy(j) \cup {d}, NEW g \in ingest[j].todo \ {d}
        PROVE  f < g
    <3>1. g \in Nat /\ d <= g
      BY <1>3, <1>1, IngestFacts
    <3>2. QED
      BY <3>1, <2>2, <2>5, <1>3
  <2>6. ASSUME NEW f \in ImportedBy(j) \cup {d}
        PROVE  /\ imported'[SlugOf[f]] # Nothing
               /\ imported'[SlugOf[f]].source \in ImportedBy(j) \cup {d}
               /\ imported'[SlugOf[f]].source >= f
               /\ imported'[SlugOf[f]].body = ingest[j].seen[imported'[SlugOf[f]].source]
    <3>1. CASE SlugOf[f] = s
      <4>1. imported'[SlugOf[f]] = entry /\ entry.source = d /\ entry.body = ingest[j].seen[d]
        BY <3>1, <1>6, <1>9, <2>2
      <4>2. d >= f
        <5>1. f \in ImportedBy(j) => f < d
          BY <2>2, <1>3
        <5>2. f \in Nat /\ d \in Nat
          BY <2>4, <1>3
        <5>3. QED
          BY <5>1, <5>2
      <4>3. QED
        BY <4>1, <4>2, <1>9
    <3>2. CASE SlugOf[f] # s
      <4>1. f \in ImportedBy(j) /\ SlugOf[f] \in Slugs
        BY <3>2, <2>4, <1>1, IngestFacts DEF s
      <4>2. imported'[SlugOf[f]] = imported[SlugOf[f]]
        BY <4>1, <3>2, <1>9
      <4>3. QED
        BY <4>1, <4>2, <3>2, <2>1, <1>1 DEF ImportsSoFar, s, d
    <3>3. QED
      BY <3>1, <3>2
  <2>7. QED
    BY <1>10, <1>11, <2>3, <2>5, <2>6 DEF ImportsSoFar
<1>14. RunKnowsFiles(j)'
  BY <1>1, <1>2, <1>4, <1>10, <1>11, <1>13 DEF RunKnowsFiles, WalkedThrough
<1>15. SummaryIsOfItsFile' /\ repoFile' \in Manifest
  BY <1>1 DEF IngestInv, IngestTypeOK, SummaryIsOfItsFile
<1>16. QED
  BY <1>1, <1>9, <1>10, <1>12, <1>14, <1>15, IngestMoves

\* Once all documents are written they stand while files are summarized.
LEMMA ImportsStand ==
    ASSUME NEW j \in Ingests, ImportsSoFar(j), imported' = imported,
           ingest'[j].seen = ingest[j].seen,
           ingest[j].stage \in {"verbatim", "summarize", "ask", "finalize"},
           ingest[j].stage = "verbatim" => ingest[j].todo = {},
           ingest'[j].stage \in {"summarize", "ask", "finalize"}
    PROVE  ImportsSoFar(j)'
<1>1. ImportedBy(j)' = ImportedBy(j)
  BY DEF ImportedBy
<1>2. \A f \in ImportedBy(j) :
         /\ imported[SlugOf[f]] # Nothing
         /\ imported[SlugOf[f]].source \in ImportedBy(j)
         /\ imported[SlugOf[f]].source >= f
         /\ imported[SlugOf[f]].body = ingest[j].seen[imported[SlugOf[f]].source]
  BY DEF ImportsSoFar
<1>3. QED
  BY <1>1, <1>2 DEF ImportsSoFar

\* All documents are written.
LEMMA BeginSummariesInv ==
    ASSUME IngestInv, NEW j \in Ingests, BeginSummaries(j)
    PROVE  IngestInv'
<1>1. IngestTypeOK /\ IngestRuns(j) /\ crashes' \in Nat /\ ingest[j].stage = "verbatim"
      /\ ingest[j].todo = {}
      /\ UNCHANGED <<ingestRows, tree, pushes, crossed, vanished, result>>
  BY DEF IngestInv, IngestTypeOK, BeginSummaries, IngestRuns, ingestWorld
<1>2. RunFits(j) /\ RunKnowsFiles(j) /\ WalkedThrough(j) /\ HasListed(j)
  BY <1>1 DEF IngestInv, WalkedThrough, HasListed
<1>3. Paths(ingest[j].seen) \subseteq Files
  BY DEF Paths
<1>4. PICK r \in IngestRun :
        /\ RunTo(j, r) /\ r.seen = ingest[j].seen /\ r.alone = ingest[j].alone
        /\ r.local = ingest[j].local
        /\ \/ r.stage = "summarize" /\ r.todo = Paths(ingest[j].seen) \ Markdown
           \/ r.stage = "finalize"
  <2>1. CASE RunTo(j, [ingest[j] EXCEPT !.stage = "summarize",
                                        !.todo = Paths(ingest[j].seen) \ Markdown])
    <3> DEFINE r == [ingest[j] EXCEPT !.stage = "summarize",
                                      !.todo = Paths(ingest[j].seen) \ Markdown]
    <3>1. /\ r \in IngestRun /\ r.seen = ingest[j].seen /\ r.alone = ingest[j].alone
          /\ r.local = ingest[j].local
          /\ r.stage = "summarize" /\ r.todo = Paths(ingest[j].seen) \ Markdown
      BY <1>1, <1>3, IngestFacts DEF IngestRun, IngestStages
    <3>2. RunTo(j, r)
      BY <2>1
    <3> HIDE DEF r
    <3>3. QED
      BY <3>1, <3>2
  <2>2. CASE RunTo(j, [ingest[j] EXCEPT !.stage = "finalize"])
    <3> DEFINE r == [ingest[j] EXCEPT !.stage = "finalize"]
    <3>1. /\ r \in IngestRun /\ r.seen = ingest[j].seen /\ r.alone = ingest[j].alone
          /\ r.local = ingest[j].local /\ r.stage = "finalize"
      BY <1>1, IngestFacts DEF IngestRun, IngestStages
    <3>2. RunTo(j, r)
      BY <2>2
    <3> HIDE DEF r
    <3>3. QED
      BY <3>1, <3>2
  <2>3. QED
    BY <2>1, <2>2 DEF BeginSummaries
<1>5. ingest'[j] = r
  BY <1>1, <1>4, RunToFacts
<1>6. repoFile' = repoFile /\ imported' = imported /\ tree' = tree /\ crossed' = crossed
      /\ vanished' = vanished
  BY <1>1 DEF ingestRows
<1>7. RunFits(j)'
  BY <1>1, <1>2, <1>3, <1>4, <1>5, <1>6 DEF RunFits, WalkedThrough, HasListed
<1>8. ingest[j].alone => ImportsSoFar(j)'
  BY <1>1, <1>2, <1>4, <1>5, <1>6, ImportsStand DEF RunKnowsFiles
<1>9. RunKnowsFiles(j)'
  BY <1>1, <1>2, <1>3, <1>4, <1>5, <1>6, <1>8 DEF RunKnowsFiles
<1>10. QED
  BY <1>1, <1>4, <1>7, <1>9, IngestLooks

\* A file is passed over, or its summary asked for.
LEMMA AskForSummaryInv ==
    ASSUME IngestInv, NEW j \in Ingests, AskForSummary(j)
    PROVE  IngestInv'
<1>1. IngestTypeOK /\ IngestRuns(j) /\ crashes' \in Nat /\ ingest[j].stage = "summarize"
      /\ ingest[j].todo # {}
      /\ UNCHANGED <<ingestRows, tree, pushes, crossed, vanished, result>>
  BY DEF IngestInv, IngestTypeOK, AskForSummary, IngestRuns, ingestWorld
<1>2. RunFits(j) /\ RunKnowsFiles(j) /\ WalkedThrough(j) /\ HasListed(j)
  BY <1>1 DEF IngestInv, WalkedThrough, HasListed
<1>3. Paths(ingest[j].seen) \subseteq Files
  BY DEF Paths
<1> DEFINE d == Due(j)
<1>4. d \in ingest[j].todo /\ d \in Files
  BY <1>1, DueIsFirst
<1>5. PICK r \in IngestRun :
        /\ RunTo(j, r) /\ r.seen = ingest[j].seen /\ r.alone = ingest[j].alone
        /\ r.local = ingest[j].local
        /\ \/ r.stage = "summarize" /\ r.todo = ingest[j].todo \ {d}
           \/ /\ r.stage = "ask" /\ r.todo = ingest[j].todo
              /\ r.body = ReadFile(j, d) /\ r.body \in Versions
  <2>1. CASE RunTo(j, [ingest[j] EXCEPT !.todo = @ \ {d}])
    <3> DEFINE r == [ingest[j] EXCEPT !.todo = @ \ {d}]
    <3>1. /\ r \in IngestRun /\ r.seen = ingest[j].seen /\ r.alone = ingest[j].alone
          /\ r.local = ingest[j].local
          /\ r.stage = "summarize" /\ r.todo = ingest[j].todo \ {d}
      BY <1>1, IngestFacts DEF IngestRun, IngestStages
    <3>2. RunTo(j, r)
      BY <2>1
    <3> HIDE DEF r
    <3>3. QED
      BY <3>1, <3>2
  <2>2. CASE /\ ReadFile(j, d) # Nothing
             /\ RunTo(j, [ingest[j] EXCEPT !.stage = "ask", !.body = ReadFile(j, d)])
    <3> DEFINE r == [ingest[j] EXCEPT !.stage = "ask", !.body = ReadFile(j, d)]
    <3>1. ReadFile(j, d) \in Versions
      BY <1>1, <1>4, <2>2, IngestFacts DEF ReadFile
    <3>2. /\ r \in IngestRun /\ r.seen = ingest[j].seen /\ r.alone = ingest[j].alone
          /\ r.local = ingest[j].local
          /\ r.stage = "ask" /\ r.todo = ingest[j].todo /\ r.body = ReadFile(j, d)
      BY <1>1, <3>1, IngestFacts DEF IngestRun, IngestStages
    <3>3. RunTo(j, r)
      BY <2>2
    <3> HIDE DEF r
    <3>4. QED
      BY <3>1, <3>2, <3>3
  <2>3. QED
    BY <2>1, <2>2 DEF AskForSummary
<1>6. ingest'[j] = r
  BY <1>1, <1>5, RunToFacts
<1>7. repoFile' = repoFile /\ imported' = imported /\ tree' = tree /\ crossed' = crossed
      /\ vanished' = vanished
  BY <1>1 DEF ingestRows
<1>8. RunFits(j)'
  BY <1>1, <1>2, <1>3, <1>5, <1>6, <1>7 DEF RunFits, WalkedThrough, HasListed
<1>9. ingest[j].alone => ImportsSoFar(j)'
  BY <1>1, <1>2, <1>5, <1>6, <1>7, ImportsStand DEF RunKnowsFiles
<1>10. r.stage = "ask" /\ ~crossed => r.body = r.seen[Due(j)']
  <2>1. r.stage = "ask" => Due(j)' = d
    BY <1>5, <1>6 DEF Due
  <2>2. ~crossed => ReadFile(j, d) = ingest[j].seen[d]
    BY <1>2 DEF RunKnowsFiles, ReadFile
  <2>3. QED
    BY <2>1, <2>2, <1>5
<1> HIDE DEF d
<1>11. RunKnowsFiles(j)'
  BY <1>1, <1>2, <1>3, <1>5, <1>6, <1>7, <1>9, <1>10 DEF RunKnowsFiles
<1>12. QED
  BY <1>1, <1>5, <1>8, <1>11, IngestLooks

\* A summary is written to the row of its file.
LEMMA WriteSummaryInv ==
    ASSUME IngestInv, NEW j \in Ingests, WriteSummary(j)
    PROVE  IngestInv'
<1>1. IngestTypeOK /\ IngestRuns(j) /\ crashes' \in Nat /\ ingest[j].stage = "ask"
      /\ UNCHANGED <<imported, tree, pushes, crossed, vanished, result>>
  BY DEF IngestInv, IngestTypeOK, WriteSummary, IngestRuns, ingestWorld
<1>2. /\ RunFits(j) /\ RunKnowsFiles(j) /\ WalkedThrough(j) /\ HasListed(j)
      /\ ingest[j].body \in Versions
  BY <1>1 DEF IngestInv, IngestTypeOK, WalkedThrough, HasListed
<1>3. Paths(ingest[j].seen) \subseteq Files
  BY DEF Paths
<1> DEFINE d == Due(j)
<1>4. /\ d \in Files /\ d \in Paths(ingest[j].seen)
      /\ repoFile[d] # Nothing /\ repoFile[d] \in ManifestRow
  <2>1. ingest[j].todo # {} /\ ingest[j].todo \subseteq Paths(ingest[j].seen) \ Markdown
    BY <1>1, <1>2 DEF RunFits
  <2>2. d \in Files /\ d \in Paths(ingest[j].seen)
    BY <2>1, <1>1, DueIsFirst
  <2>3. QED
    BY <2>2, <1>1, <1>2, IngestFacts DEF RunFits
<1>5. PICK s \in {ingest[j].body, Failed} : repoFile' = [repoFile EXCEPT ![d].summary = s]
  BY DEF WriteSummary
<1> DEFINE entry == [repoFile[d] EXCEPT !.summary = s]
<1>6. entry \in ManifestRow /\ entry.sha = repoFile[d].sha /\ entry.summary = s
  BY <1>2, <1>4, <1>5 DEF ManifestRow, Summary, Failed
<1>7. repoFile' = [repoFile EXCEPT ![d] = entry]
  BY <1>5
<1> HIDE DEF entry
<1>8. /\ repoFile' \in Manifest /\ repoFile'[d] = entry /\ entry # Nothing
      /\ \A f \in Files : f # d => repoFile'[f] = repoFile[f]
  <2>1. repoFile \in Manifest
    BY <1>1 DEF IngestTypeOK
  <2>2. QED
    BY <2>1, <1>4, <1>6, <1>7, NothingAssumption DEF Manifest
<1>9. PICK r \in IngestRun :
        /\ RunTo(j, r) /\ r.stage = "summarize" /\ r.seen = ingest[j].seen
        /\ r.todo = ingest[j].todo \ {d} /\ r.alone = ingest[j].alone
        /\ r.local = ingest[j].local
  <2> DEFINE r == [ingest[j] EXCEPT !.stage = "summarize", !.todo = @ \ {d}]
  <2>1. /\ r \in IngestRun /\ r.stage = "summarize" /\ r.seen = ingest[j].seen
        /\ r.todo = ingest[j].todo \ {d} /\ r.alone = ingest[j].alone
        /\ r.local = ingest[j].local
    BY <1>1, IngestFacts DEF IngestRun, IngestStages
  <2>2. RunTo(j, r)
    BY DEF WriteSummary
  <2> HIDE DEF r
  <2>3. QED
    BY <2>1, <2>2
<1>10. ingest'[j] = r
  BY <1>1, <1>9, RunToFacts
<1>11. SummaryIsOfItsFile'
  <2> SUFFICES ASSUME ~crossed, NEW f \in Files \ Markdown, repoFile'[f] # Nothing
               PROVE  repoFile'[f].summary \in {repoFile'[f].sha, Failed, Nothing}
    BY <1>1 DEF SummaryIsOfItsFile
  <2>1. CASE f = d
    <3>1. repoFile[d].sha = ingest[j].seen[d] /\ ingest[j].body = ingest[j].seen[d]
      BY <1>1, <1>2, <1>4 DEF RunKnowsFiles
    <3>2. QED
      BY <2>1, <3>1, <1>5, <1>6, <1>8
  <2>2. CASE f # d
    <3>1. repoFile'[f] = repoFile[f]
      BY <2>2, <1>8
    <3>2. QED
      BY <3>1 DEF IngestInv, SummaryIsOfItsFile
  <2>3. QED
    BY <2>1, <2>2
<1> HIDE DEF d
<1>12. \A f \in Files : repoFile[f] # Nothing => repoFile'[f] # Nothing
  BY <1>8
<1>13. RunFits(j)'
  BY <1>1, <1>2, <1>3, <1>9, <1>10, <1>12 DEF RunFits, WalkedThrough, HasListed
<1>14. ingest[j].alone => ImportsSoFar(j)'
  BY <1>1, <1>2, <1>9, <1>10, ImportsStand DEF RunKnowsFiles
<1>15. \A f \in Files : repoFile'[f].sha = repoFile[f].sha
  BY <1>6, <1>8
<1>16. RunKnowsFiles(j)'
  BY <1>1, <1>2, <1>3, <1>9, <1>10, <1>14, <1>15 DEF RunKnowsFiles
<1>17. SourcesFit' /\ DeprecatedHasVanished'
  BY <1>1 DEF IngestInv, SourcesFit, DeprecatedHasVanished
<1>18. imported' \in [Slugs -> ImportedRow \cup {Nothing}]
  BY <1>1 DEF IngestTypeOK
<1>19. QED
  BY <1>1, <1>8, <1>9, <1>11, <1>12, <1>13, <1>16, <1>17, <1>18, IngestMoves

\* The documents whose file was not seen are listed: their file was removed at some time.
LEMMA ListIngestedInv ==
    ASSUME IngestInv, NEW j \in Ingests, ListIngested(j)
    PROVE  IngestInv'
<1>1. IngestTypeOK /\ IngestRuns(j) /\ crashes' \in Nat
      /\ ingest[j].stage \in {"summarize", "finalize"}
      /\ UNCHANGED <<ingestRows, tree, pushes, crossed, vanished, result>>
  BY DEF IngestInv, IngestTypeOK, ListIngested, IngestRuns, ingestWorld
<1>2. RunFits(j) /\ RunKnowsFiles(j) /\ WalkedThrough(j) /\ HasListed(j)
  BY <1>1 DEF IngestInv, WalkedThrough, HasListed
<1>3. Paths(ingest[j].seen) \subseteq Files
  BY DEF Paths
<1> DEFINE gone == Unseen(j)
<1>4. gone \in SUBSET Files
  BY <1>1, IngestFacts DEF Unseen
<1>5. PICK r \in IngestRun :
        /\ RunTo(j, r) /\ r.stage = "deprecate" /\ r.seen = ingest[j].seen
        /\ r.todo = gone /\ r.alone = ingest[j].alone /\ r.local = ingest[j].local
  <2> DEFINE r == [ingest[j] EXCEPT !.stage = "deprecate", !.todo = gone, !.spared = {}]
  <2>1. /\ r \in IngestRun /\ r.stage = "deprecate" /\ r.seen = ingest[j].seen
        /\ r.todo = gone /\ r.alone = ingest[j].alone /\ r.local = ingest[j].local
    BY <1>1, <1>4, IngestFacts DEF IngestRun, IngestStages
  <2>2. RunTo(j, r)
    BY DEF ListIngested
  <2> HIDE DEF r
  <2>3. QED
    BY <2>1, <2>2
<1>6. ingest'[j] = r
  BY <1>1, <1>5, RunToFacts
<1>7. repoFile' = repoFile /\ imported' = imported /\ tree' = tree /\ crossed' = crossed
      /\ vanished' = vanished
  BY <1>1 DEF ingestRows
<1>8. \A s \in gone : /\ s \in Slugs /\ imported[s] # Nothing
                      /\ \E f \in vanished : SlugOf[f] = s
  <2> SUFFICES ASSUME NEW s \in gone
               PROVE  /\ s \in Slugs /\ imported[s] # Nothing
                      /\ \E f \in vanished : SlugOf[f] = s
    OBVIOUS
  <2>1. s \in Slugs /\ imported[s] # Nothing /\ ingest[j].seen[imported[s].source] = Nothing
    BY DEF Unseen
  <2>2. imported[s].source \in Files
    BY <2>1, <1>1, IngestFacts
  <2>3. imported[s].source \in vanished /\ SlugOf[imported[s].source] = s
    BY <2>1, <2>2, <1>2 DEF RunFits, IngestInv, SourcesFit
  <2>4. QED
    BY <2>1, <2>3
<1>9. RunFits(j)'
  BY <1>1, <1>2, <1>3, <1>5, <1>6, <1>7, <1>8 DEF RunFits, WalkedThrough, HasListed
<1>10. ASSUME ingest[j].alone PROVE ImportsSoFar(j)'
  <2>1. ImportsSoFar(j)
    BY <1>2, <1>10 DEF RunKnowsFiles
  <2>2. ImportedBy(j)' = ImportedBy(j)
    BY <1>1, <1>5, <1>6 DEF ImportedBy
  <2>3. \A f \in ImportedBy(j) :
           /\ imported[SlugOf[f]] # Nothing
           /\ imported[SlugOf[f]].source \in ImportedBy(j)
           /\ imported[SlugOf[f]].source >= f
           /\ imported[SlugOf[f]].body = ingest[j].seen[imported[SlugOf[f]].source]
    BY <2>1, <1>1 DEF ImportsSoFar
  <2>4. \A s \in Slugs : imported[s] # Nothing /\ ingest[j].seen[imported[s].source] = Nothing =>
           imported[s].deprecated \/ s \in gone
    BY DEF Unseen
  <2> HIDE DEF gone
  <2>5. QED
    BY <1>5, <1>6, <1>7, <2>2, <2>3, <2>4 DEF ImportsSoFar
<1>11. RunKnowsFiles(j)'
  BY <1>1, <1>2, <1>3, <1>5, <1>6, <1>7, <1>10 DEF RunKnowsFiles
<1>12. QED
  BY <1>1, <1>5, <1>9, <1>11, IngestLooks

\* One of them is deprecated.
LEMMA DeprecationDoneInv ==
    ASSUME IngestInv, NEW j \in Ingests, MarkIngestDocumentDeprecated(j),
           NEW s \in ingest[j].todo,
           imported' = [imported EXCEPT ![s].deprecated = TRUE],
           RunTo(j, [ingest[j] EXCEPT !.todo = @ \ {s}])
    PROVE  IngestInv'
<1>1. IngestTypeOK /\ IngestRuns(j) /\ crashes' \in Nat /\ ingest[j].stage = "deprecate"
      /\ UNCHANGED <<repoFile, tree, pushes, crossed, vanished, result>>
  BY DEF IngestInv, IngestTypeOK, MarkIngestDocumentDeprecated, IngestRuns, ingestWorld
<1>2. RunFits(j) /\ RunKnowsFiles(j) /\ WalkedThrough(j) /\ HasListed(j)
  BY <1>1 DEF IngestInv, WalkedThrough, HasListed
<1>3. /\ imported' = [imported EXCEPT ![s].deprecated = TRUE]
      /\ RunTo(j, [ingest[j] EXCEPT !.todo = @ \ {s}])
  OBVIOUS
<1>4. /\ s \in Slugs /\ imported[s] # Nothing /\ imported[s] \in ImportedRow
      /\ SlugOf[imported[s].source] = s /\ \E f \in vanished : SlugOf[f] = s
  <2>1. s \in Slugs /\ imported[s] # Nothing /\ \E f \in vanished : SlugOf[f] = s
    BY <1>1, <1>2, <1>3 DEF RunFits
  <2>2. QED
    BY <2>1, <1>1, IngestFacts DEF IngestInv, SourcesFit
<1> DEFINE entry == [imported[s] EXCEPT !.deprecated = TRUE]
<1>5. /\ entry \in ImportedRow /\ entry.source = imported[s].source
      /\ entry.body = imported[s].body /\ entry.deprecated = TRUE
  BY <1>4 DEF ImportedRow
<1>6. imported' = [imported EXCEPT ![s] = entry]
  BY <1>3
<1> HIDE DEF entry
<1>a. SlugOf[entry.source] = s /\ vanished' = vanished /\ \E f \in vanished : SlugOf[f] = s
  BY <1>1, <1>4, <1>5
<1>7. /\ imported' \in [Slugs -> ImportedRow \cup {Nothing}]
      /\ imported'[s] = entry /\ entry # Nothing
      /\ \A t \in Slugs : t # s => imported'[t] = imported[t]
      /\ \A t \in Slugs : imported[t] # Nothing => imported'[t] # Nothing
      /\ SourcesFit' /\ DeprecatedHasVanished'
  BY <1>4, <1>5, <1>6, <1>a, RowIsRewritten, Zenon
<1>8. PICK r \in IngestRun :
        /\ RunTo(j, r) /\ r.stage = "deprecate" /\ r.seen = ingest[j].seen
        /\ r.todo = ingest[j].todo \ {s} /\ r.alone = ingest[j].alone
        /\ r.spared = ingest[j].spared
        /\ r.local = ingest[j].local
  <2> DEFINE r == [ingest[j] EXCEPT !.todo = @ \ {s}]
  <2>1. /\ r \in IngestRun /\ r.stage = "deprecate" /\ r.seen = ingest[j].seen
        /\ r.todo = ingest[j].todo \ {s} /\ r.alone = ingest[j].alone
        /\ r.spared = ingest[j].spared
        /\ r.local = ingest[j].local
    BY <1>1, IngestFacts DEF IngestRun, IngestStages
  <2>2. RunTo(j, r)
    BY <1>3
  <2> HIDE DEF r
  <2>3. QED
    BY <2>1, <2>2
<1>9. ingest'[j] = r
  BY <1>1, <1>8, RunToFacts
<1>10. Paths(ingest[j].seen) \subseteq Files
  BY DEF Paths
<1>11. RunFits(j)'
  BY <1>1, <1>2, <1>7, <1>8, <1>9, <1>10 DEF RunFits, WalkedThrough, HasListed
<1>12. ASSUME ingest[j].alone PROVE ImportsSoFar(j)'
  <2>1. ImportsSoFar(j)
    BY <1>2, <1>12 DEF RunKnowsFiles
  <2>2. ImportedBy(j)' = ImportedBy(j)
    BY <1>1, <1>8, <1>9 DEF ImportedBy
  <2>3. ASSUME NEW t \in Slugs, imported[t] # Nothing
        PROVE  /\ imported'[t] # Nothing /\ imported'[t].source = imported[t].source
               /\ imported'[t].body = imported[t].body
               /\ imported[t].deprecated => imported'[t].deprecated
               /\ t = s => imported'[t].deprecated
    BY <2>3, <1>5, <1>7
  <2>4. ASSUME NEW f \in ImportedBy(j)
        PROVE  /\ imported'[SlugOf[f]] # Nothing
               /\ imported'[SlugOf[f]].source \in ImportedBy(j)
               /\ imported'[SlugOf[f]].source >= f
               /\ imported'[SlugOf[f]].body = ingest[j].seen[imported'[SlugOf[f]].source]
    <3>1. SlugOf[f] \in Slugs
      BY <1>1, IngestFacts DEF ImportedBy
    <3>2. /\ imported[SlugOf[f]] # Nothing
          /\ imported[SlugOf[f]].source \in ImportedBy(j)
          /\ imported[SlugOf[f]].source >= f
          /\ imported[SlugOf[f]].body = ingest[j].seen[imported[SlugOf[f]].source]
      BY <2>1, <1>1 DEF ImportsSoFar
    <3>3. QED
      BY <3>1, <3>2, <2>3
  <2>5. ASSUME NEW t \in Slugs, imported'[t] # Nothing,
               ingest[j].seen[imported'[t].source] = Nothing
        PROVE  imported'[t].deprecated \/ t \in (ingest[j].todo \ {s}) \cup ingest[j].spared
    <3>1. imported[t] # Nothing
      BY <2>5, <1>4, <1>7
    <3>2. imported[t].deprecated \/ t \in ingest[j].todo \cup ingest[j].spared
      BY <3>1, <2>1, <2>3, <2>5, <1>1 DEF ImportsSoFar
    <3>3. QED
      BY <3>1, <3>2, <2>3
  <2>6. QED
    BY <1>8, <1>9, <2>2, <2>4, <2>5 DEF ImportsSoFar
<1>13. RunKnowsFiles(j)'
  BY <1>1, <1>2, <1>8, <1>9, <1>10, <1>12 DEF RunKnowsFiles, WalkedThrough
<1>14. SummaryIsOfItsFile' /\ repoFile' \in Manifest
  BY <1>1 DEF IngestInv, IngestTypeOK, SummaryIsOfItsFile
<1>15. QED
  BY <1>1, <1>7, <1>8, <1>11, <1>13, <1>14, IngestMoves

\* The deprecation of one fails, and the run goes on without it.
LEMMA DeprecationRefusedInv ==
    ASSUME IngestInv, NEW j \in Ingests, MarkIngestDocumentDeprecated(j),
           NEW s \in ingest[j].todo, imported' = imported,
           RunTo(j, [ingest[j] EXCEPT !.todo = @ \ {s}, !.spared = @ \cup {s}])
    PROVE  IngestInv'
<1>1. IngestTypeOK /\ IngestRuns(j) /\ crashes' \in Nat /\ ingest[j].stage = "deprecate"
      /\ repoFile' = repoFile /\ UNCHANGED <<tree, pushes, crossed, vanished, result>>
  BY DEF IngestInv, IngestTypeOK, MarkIngestDocumentDeprecated, IngestRuns, ingestWorld
<1>2. RunFits(j) /\ RunKnowsFiles(j) /\ WalkedThrough(j) /\ HasListed(j)
  BY <1>1 DEF IngestInv, WalkedThrough, HasListed
<1>3. s \in Slugs
  BY <1>1, <1>2 DEF RunFits
<1>4. PICK r \in IngestRun :
        /\ RunTo(j, r) /\ r.stage = "deprecate" /\ r.seen = ingest[j].seen
        /\ r.todo = ingest[j].todo \ {s} /\ r.spared = ingest[j].spared \cup {s}
        /\ r.alone = ingest[j].alone /\ r.local = ingest[j].local
  <2> DEFINE r == [ingest[j] EXCEPT !.todo = @ \ {s}, !.spared = @ \cup {s}]
  <2>1. /\ r \in IngestRun /\ r.stage = "deprecate" /\ r.seen = ingest[j].seen
        /\ r.todo = ingest[j].todo \ {s} /\ r.spared = ingest[j].spared \cup {s}
        /\ r.alone = ingest[j].alone /\ r.local = ingest[j].local
    BY <1>1, <1>3, IngestFacts DEF IngestRun
  <2>2. RunTo(j, r)
    OBVIOUS
  <2> HIDE DEF r
  <2>3. QED
    BY <2>1, <2>2
<1>5. ingest'[j] = r
  BY <1>1, <1>4, RunToFacts
<1>6. Paths(ingest[j].seen) \subseteq Files
  BY DEF Paths
<1>7. RunFits(j)'
  BY <1>1, <1>2, <1>4, <1>5, <1>6 DEF RunFits, WalkedThrough, HasListed
<1>8. ASSUME ingest[j].alone PROVE ImportsSoFar(j)'
  <2>1. ImportsSoFar(j)
    BY <1>2, <1>8 DEF RunKnowsFiles
  <2>2. ImportedBy(j)' = ImportedBy(j)
    BY <1>1, <1>4, <1>5 DEF ImportedBy
  <2>3. \A f \in ImportedBy(j) :
           /\ imported[SlugOf[f]] # Nothing
           /\ imported[SlugOf[f]].source \in ImportedBy(j)
           /\ imported[SlugOf[f]].source >= f
           /\ imported[SlugOf[f]].body = ingest[j].seen[imported[SlugOf[f]].source]
    BY <2>1, <1>1 DEF ImportsSoFar
  <2>4. \A t \in Slugs : imported[t] # Nothing /\ ingest[j].seen[imported[t].source] = Nothing =>
           imported[t].deprecated \/ t \in r.todo \cup r.spared
    BY <2>1, <1>1, <1>4 DEF ImportsSoFar
  <2>5. QED
    BY <1>4, <1>5, <2>2, <2>3, <2>4 DEF ImportsSoFar
<1>9. RunKnowsFiles(j)'
  BY <1>1, <1>2, <1>4, <1>5, <1>6, <1>8 DEF RunKnowsFiles, WalkedThrough
<1>10. UNCHANGED ingestRows
  BY <1>1 DEF ingestRows
<1>11. QED
  BY <1>1, <1>4, <1>7, <1>9, <1>10, IngestLooks

LEMMA MarkIngestDocumentDeprecatedInv ==
    ASSUME IngestInv, NEW j \in Ingests, MarkIngestDocumentDeprecated(j)
    PROVE  IngestInv'
<1>1. PICK s \in ingest[j].todo :
        \/ /\ imported' = [imported EXCEPT ![s].deprecated = TRUE]
           /\ RunTo(j, [ingest[j] EXCEPT !.todo = @ \ {s}])
        \/ /\ RunTo(j, [ingest[j] EXCEPT !.todo = @ \ {s}, !.spared = @ \cup {s}])
           /\ UNCHANGED imported
  BY DEF MarkIngestDocumentDeprecated
<1>2. CASE /\ imported' = [imported EXCEPT ![s].deprecated = TRUE]
           /\ RunTo(j, [ingest[j] EXCEPT !.todo = @ \ {s}])
  BY <1>2, DeprecationDoneInv
<1>3. CASE /\ RunTo(j, [ingest[j] EXCEPT !.todo = @ \ {s}, !.spared = @ \cup {s}])
           /\ UNCHANGED imported
  BY <1>3, DeprecationRefusedInv
<1>4. QED
  BY <1>1, <1>2, <1>3

\* Of a run that has not begun, or has ended, there is nothing to know.
LEMMA RunIsQuiet ==
    ASSUME NEW j \in Ingests,
           \/ ingest'[j].stage \in {"new", "fetch", "ended"}
           \/ ingest'[j].stage = "walk" /\ ingest'[j].local
    PROVE  RunFits(j)' /\ RunKnowsFiles(j)'
BY DEF RunFits, RunKnowsFiles, WalkedThrough, HasListed

LEMMA EndedRun ==
    ASSUME NEW new \in IngestRun, new = [NotBegun EXCEPT !.stage = "ended"]
    PROVE  new.stage = "ended"
BY DEF NotBegun

LEMMA BegunRun ==
    ASSUME NEW local \in BOOLEAN, NEW alone \in BOOLEAN, NEW left \in Snapshot
    PROVE  /\ NotBegun \in IngestRun /\ NotBegun.stage = "new"
           /\ Begun(local, alone) \in IngestRun
           /\ Begun(local, alone).stage = (IF local THEN "walk" ELSE "fetch")
           /\ Begun(local, alone).local = local /\ Begun(local, alone).alone = alone
           /\ [NotBegun EXCEPT !.stage = "ended"] \in IngestRun
<1>1. NoSnapshot \in Snapshot
  BY DEF NoSnapshot, Snapshot
<1>2. NotBegun \in IngestRun /\ NotBegun.stage = "new"
  BY <1>1 DEF NotBegun, IngestRun, IngestStages
<1>3. [NotBegun EXCEPT !.stage = "ended"] \in IngestRun
  BY <1>1 DEF NotBegun, IngestRun, IngestStages
<1>4. /\ FirstStage(local) \in IngestStages
      /\ FirstStage(local) = (IF local THEN "walk" ELSE "fetch")
  BY DEF FirstStage, IngestStages
<1>5. PICK new : new = Begun(local, alone)
  OBVIOUS
<1>6. /\ new \in IngestRun /\ new.stage = FirstStage(local)
      /\ new.local = local /\ new.alone = alone
  BY <1>1, <1>4, <1>5 DEF Begun, NotBegun, IngestRun
<1>7. QED
  BY <1>2, <1>3, <1>4, <1>5, <1>6

\* An undisturbed run is through: the documents are what it saw.
LEMMA CompleteIngestInv ==
    ASSUME IngestInv, NEW j \in Ingests, CompleteIngest(j)
    PROVE  IngestInv'
<1>1. IngestTypeOK /\ IngestRuns(j) /\ crashes' \in Nat /\ ingest[j].stage = "deprecate"
      /\ ingest[j].todo = {} /\ repoFile' = repoFile /\ imported' = imported
      /\ UNCHANGED <<tree, pushes, crossed, vanished>>
  BY DEF IngestInv, IngestTypeOK, CompleteIngest, IngestRuns, ingestRows
<1>2. RunKnowsFiles(j) /\ WalkedThrough(j)
  BY <1>1 DEF IngestInv, WalkedThrough
<1>3. PICK r \in IngestRun : RunTo(j, r) /\ r.stage = "ended"
  <2> DEFINE r == [NotBegun EXCEPT !.stage = "ended"]
  <2>1. r \in IngestRun
    BY <1>1, IngestFacts, BegunRun
  <2>2. r.stage = "ended"
    BY <2>1, EndedRun
  <2>3. RunTo(j, r)
    BY DEF CompleteIngest, IngestEnds
  <2> HIDE DEF r
  <2>4. QED
    BY <2>1, <2>2, <2>3
<1>4. ingest'[j] = r
  BY <1>1, <1>3, RunToFacts
<1>5. RunFits(j)' /\ RunKnowsFiles(j)'
  BY <1>3, <1>4, RunIsQuiet
<1>6. /\ ~ingest[j].alone => result' = Nothing
      /\ ingest[j].alone => result' = [seen |-> ingest[j].seen, spared |-> ingest[j].spared]
  BY DEF CompleteIngest
<1>7. \/ UNCHANGED result
      \/ /\ result' \in Outcome /\ r.stage = "ended" /\ ingest[j].alone
         /\ ImportIsExact'
  <2>1. CASE ~ingest[j].alone
    BY <2>1, <1>1, <1>6 DEF IngestInv
  <2>2. CASE ingest[j].alone
    <3>1. /\ result' \in Outcome /\ result'.seen = ingest[j].seen
          /\ result'.spared = ingest[j].spared /\ ImportsSoFar(j)
      BY <2>2, <1>1, <1>2, <1>6, IngestFacts DEF RunKnowsFiles, Outcome
    <3>2. ImportedBy(j) = Paths(result'.seen) \cap Markdown
      BY <3>1, <1>1 DEF ImportedBy
    <3>3. ASSUME NEW s \in Slugs, NEW F, F # {},
                 F = {f \in Paths(result'.seen) \cap Markdown : SlugOf[f] = s}
          PROVE  /\ imported[s] # Nothing
                 /\ imported[s].source = Max(F)
                 /\ imported[s].body = result'.seen[Max(F)]
      <4>1. ASSUME NEW f \in F
            PROVE  /\ imported[s] # Nothing /\ imported[s].source \in ImportedBy(j)
                   /\ imported[s].source >= f
                   /\ imported[s].body = ingest[j].seen[imported[s].source]
        <5>1. f \in ImportedBy(j) /\ SlugOf[f] = s
          BY <3>2, <3>3
        <5>2. QED
          BY <5>1, <3>1, <1>1 DEF ImportsSoFar
      <4>2. /\ imported[s] # Nothing /\ imported[s].source \in ImportedBy(j)
            /\ imported[s].body = ingest[j].seen[imported[s].source]
        BY <4>1, <3>3
      <4>3. SlugOf[imported[s].source] = s
        BY <4>2 DEF IngestInv, SourcesFit
      <4>4. imported[s].source \in F /\ \A f \in F : imported[s].source >= f
        BY <4>1, <4>2, <4>3, <3>2, <3>3
      <4>5. F \in SUBSET Nat
        BY <1>1, <3>3, IngestFacts
      <4>6. Max(F) = imported[s].source
        BY <4>4, <4>5, MaxIsGreatest
      <4>7. QED
        BY <4>2, <4>6, <3>1
    <3>4. \A s \in Slugs : imported[s] # Nothing /\ result'.seen[imported[s].source] = Nothing =>
             imported[s].deprecated \/ s \in result'.spared
      BY <3>1, <1>1 DEF ImportsSoFar
    <3>5. ImportIsExact'
      BY <3>3, <3>4, <1>1 DEF ImportIsExact
    <3>6. QED
      BY <2>2, <3>1, <3>5, <1>1, <1>3, IngestFacts
  <2>3. QED
    BY <2>1, <2>2
<1>8. SourcesFit' /\ DeprecatedHasVanished' /\ SummaryIsOfItsFile'
  BY <1>1 DEF IngestInv, SourcesFit, DeprecatedHasVanished, SummaryIsOfItsFile
<1>9. repoFile' \in Manifest /\ imported' \in [Slugs -> ImportedRow \cup {Nothing}]
  BY <1>1 DEF IngestTypeOK
<1>10. r.stage \notin {"save", "ask"}
  BY <1>3
<1>11. QED
  BY <1>1, <1>3, <1>5, <1>7, <1>8, <1>9, <1>10, IngestMoves

LEMMA FailIngestInv ==
    ASSUME IngestInv, NEW j \in Ingests, FailIngest(j)
    PROVE  IngestInv'
<1>1. IngestTypeOK /\ IngestRuns(j) /\ crashes' \in Nat
      /\ UNCHANGED <<ingestRows, tree, pushes, crossed, vanished, result>>
  BY DEF IngestInv, IngestTypeOK, FailIngest, ingestWorld
<1>2. PICK r \in IngestRun : RunTo(j, r) /\ r.stage = "ended"
  <2> DEFINE r == [NotBegun EXCEPT !.stage = "ended"]
  <2>1. r \in IngestRun
    BY <1>1, IngestFacts, BegunRun
  <2>2. r.stage = "ended"
    BY <2>1, EndedRun
  <2>3. RunTo(j, r)
    BY DEF FailIngest, IngestEnds
  <2> HIDE DEF r
  <2>4. QED
    BY <2>1, <2>2, <2>3
<1>3. ingest'[j] = r
  BY <1>1, <1>2, RunToFacts
<1>4. RunFits(j)' /\ RunKnowsFiles(j)'
  BY <1>2, <1>3, RunIsQuiet
<1>5. QED
  BY <1>1, <1>2, <1>4, IngestLooks

\* The job begins again, in the directory it had fetched into.
LEMMA CrashIngestInv ==
    ASSUME IngestInv, NEW j \in Ingests, CrashIngest(j)
    PROVE  IngestInv'
<1>1. IngestTypeOK /\ IngestRuns(j) /\ crashes' \in Nat
      /\ UNCHANGED <<ingestRows, tree, pushes, crossed, vanished, result>>
  BY DEF IngestInv, IngestTypeOK, CrashIngest
<1> DEFINE begun == Begun(ingest[j].local, ingest[j].alone)
           left == IF ingest[j].local \/ ingest[j].stage = "download"
                   THEN ingest[j].left ELSE ingest[j].seen
<1>2. left \in Snapshot /\ ingest[j].local \in BOOLEAN /\ ingest[j].alone \in BOOLEAN
  BY <1>1, IngestFacts
<1>3. /\ begun \in IngestRun /\ begun.stage = (IF ingest[j].local THEN "walk" ELSE "fetch")
      /\ begun.local = ingest[j].local /\ begun.alone = ingest[j].alone
  BY <1>2, BegunRun
<1>4. RunTo(j, [begun EXCEPT !.left = left])
  BY DEF CrashIngest
<1> HIDE DEF begun, left
<1>5. PICK r \in IngestRun :
        /\ RunTo(j, r) /\ r.stage = (IF ingest[j].local THEN "walk" ELSE "fetch")
        /\ r.local = ingest[j].local /\ r.alone = ingest[j].alone
  <2> DEFINE r == [begun EXCEPT !.left = left]
  <2>1. /\ r \in IngestRun /\ r.stage = (IF ingest[j].local THEN "walk" ELSE "fetch")
        /\ r.local = ingest[j].local /\ r.alone = ingest[j].alone
    BY <1>2, <1>3 DEF IngestRun
  <2>2. RunTo(j, r)
    BY <1>4
  <2> HIDE DEF r
  <2>3. QED
    BY <2>1, <2>2
<1>6. ingest'[j] = r
  BY <1>1, <1>5, RunToFacts
<1>7. RunFits(j)' /\ RunKnowsFiles(j)'
  BY <1>2, <1>5, <1>6, RunIsQuiet
<1>8. QED
  BY <1>1, <1>5, <1>7, IngestLooks

-----------------------------------------------------------------------------
\* What a run has seen, whoever joins it and whatever changes.
SameRun(old, new) ==
    /\ new.stage = old.stage /\ new.local = old.local /\ new.seen = old.seen
    /\ new.todo = old.todo /\ new.body = old.body /\ new.spared = old.spared

LEMMA RunStays ==
    ASSUME IngestInv, NEW j \in Ingests, SameRun(ingest[j], ingest'[j]),
           repoFile' = repoFile, imported' = imported, vanished \subseteq vanished',
           ingest'[j].alone => ingest[j].alone, ~crossed' => ~crossed,
           WalkedThrough(j) /\ ingest[j].local /\ (ingest'[j].alone \/ ~crossed') =>
              tree' = tree
    PROVE  RunFits(j)' /\ RunKnowsFiles(j)'
<1>1. /\ WalkedThrough(j)' = WalkedThrough(j) /\ HasListed(j)' = HasListed(j)
      /\ Due(j)' = Due(j) /\ ImportedBy(j)' = ImportedBy(j)
  BY DEF SameRun, WalkedThrough, HasListed, Due, ImportedBy
<1>2. RunFits(j) /\ RunKnowsFiles(j)
  BY DEF IngestInv
<1>3. RunFits(j)'
  BY <1>1, <1>2 DEF RunFits, SameRun
<1>4. ImportsSoFar(j) => ImportsSoFar(j)'
  BY <1>1 DEF ImportsSoFar, SameRun
<1>5. RunKnowsFiles(j)'
  BY <1>1, <1>2, <1>4 DEF RunKnowsFiles, SameRun
<1>6. QED
  BY <1>3, <1>5

\* A run that begins beside others is not alone, and they are not any more.
LEMMA StartRepoIngestInv ==
    ASSUME IngestInv, NEW j \in Ingests, NEW local \in BOOLEAN, StartRepoIngest(j, local)
    PROVE  IngestInv'
<1> DEFINE others == {i \in Ingests : IngestRuns(i)}
           begun == Begun(local, others = {})
<1>1. IngestTypeOK /\ UNCHANGED <<tree, repoFile, imported, pushes, crashes, vanished>>
      /\ ingest[j] = NotBegun /\ result' = Nothing
      /\ crossed' = (crossed \/ others # {})
  BY DEF IngestInv, StartRepoIngest
<1>2. ingest' = [i \in Ingests |-> CASE i = j -> begun
                                     [] i \in others -> Joined(ingest[i])
                                     [] OTHER -> ingest[i]]
  BY DEF StartRepoIngest
<1>3. (others = {}) \in BOOLEAN
  OBVIOUS
<1>4. /\ begun \in IngestRun /\ begun.stage = (IF local THEN "walk" ELSE "fetch")
      /\ begun.local = local /\ begun.alone = (others = {})
  BY <1>1, <1>3, IngestFacts, BegunRun
<1>5. j \notin others
  <2>1. ingest[j].stage = "new"
    BY <1>1, <1>3, IngestFacts, BegunRun
  <2>2. QED
    BY <2>1 DEF IngestRuns
<1>6. \A i \in others : i \in Ingests
  OBVIOUS
<1>7. \A i \in Ingests : i \in others <=> IngestRuns(i)
  OBVIOUS
<1> HIDE DEF others, begun
<1>8. /\ ingest'[j] = begun
      /\ \A i \in Ingests : i # j => ingest'[i] = IF i \in others THEN Joined(ingest[i])
                                                  ELSE ingest[i]
  <2>1. ingest'[j] = begun
    BY <1>2, <1>5
  <2>2. ASSUME NEW i \in Ingests, i # j, i \in others PROVE ingest'[i] = Joined(ingest[i])
    BY <2>2, <1>2
  <2>3. ASSUME NEW i \in Ingests, i # j, i \notin others PROVE ingest'[i] = ingest[i]
    BY <2>3, <1>2
  <2>4. QED
    BY <2>1, <2>2, <2>3
<1>9. ASSUME NEW i \in Ingests, i # j
      PROVE  /\ ingest'[i] \in IngestRun /\ SameRun(ingest[i], ingest'[i])
             /\ i \in others => ~ingest'[i].alone
             /\ i \notin others => ingest'[i] = ingest[i]
             /\ ingest'[i].alone => ingest[i].alone
  <2>1. ingest[i] \in IngestRun
    BY <1>1, IngestFacts
  <2>2. CASE i \in others
    <3>1. ingest'[i] = Joined(ingest[i])
      BY <2>2, <1>8, <1>9
    <3>2. QED
      BY <2>1, <2>2, <3>1 DEF Joined, IngestRun, SameRun
  <2>3. CASE i \notin others
    <3>1. ingest'[i] = ingest[i]
      BY <2>3, <1>8, <1>9
    <3>2. QED
      BY <2>1, <2>3, <3>1 DEF SameRun
  <2>4. QED
    BY <2>2, <2>3
<1>10. IngestTypeOK'
  <2>1. \A i \in Ingests : ingest'[i] \in IngestRun
    BY <1>4, <1>8, <1>9
  <2>2. ingest' \in [Ingests -> IngestRun]
    BY <2>1, <1>2
  <2>3. \A i \in Ingests : ingest'[i].stage \in {"save", "ask"} => ingest'[i].body \in Versions
    <3> SUFFICES ASSUME NEW i \in Ingests, ingest'[i].stage \in {"save", "ask"}
                 PROVE  ingest'[i].body \in Versions
      OBVIOUS
    <3>1. i # j
      BY <1>4, <1>8
    <3>2. QED
      BY <3>1, <1>1, <1>9 DEF SameRun, IngestTypeOK
  <2>4. result' \in Outcome \cup {Nothing} /\ crossed' \in BOOLEAN
    BY <1>1 DEF IngestTypeOK
  <2>5. QED
    BY <2>2, <2>3, <2>4, <1>1 DEF IngestTypeOK
<1>11. ASSUME NEW i \in Ingests PROVE RunFits(i)' /\ RunKnowsFiles(i)'
  <2>1. CASE i = j
    BY <2>1, <1>4, <1>8, RunIsQuiet
  <2>2. CASE i # j
    BY <2>2, <1>1, <1>9, RunStays
  <2>3. QED
    BY <2>1, <2>2
<1>12. OneRunOrCrossed'
  <2> SUFFICES ASSUME NEW i \in Ingests, NEW h \in Ingests, i # h, IngestRuns(i)', IngestRuns(h)'
               PROVE  crossed' /\ ~ingest'[i].alone
    BY DEF OneRunOrCrossed
  <2>1. ASSUME NEW k \in Ingests, k # j, IngestRuns(k)' PROVE k \in others
    BY <2>1, <1>7, <1>9 DEF IngestRuns, SameRun
  <2>2. others # {}
    BY <2>1
  <2>3. ~ingest'[i].alone
    <3>1. CASE i = j
      BY <3>1, <2>2, <1>4, <1>8
    <3>2. CASE i # j
      BY <3>2, <2>1, <1>9
    <3>3. QED
      BY <3>1, <3>2
  <2>4. QED
    BY <2>2, <2>3, <1>1
<1>13. SourcesFit' /\ DeprecatedHasVanished' /\ SummaryIsOfItsFile'
  BY <1>1 DEF IngestInv, SourcesFit, DeprecatedHasVanished, SummaryIsOfItsFile
<1>14. \A f \in Files : tree'[f] = Nothing => f \in vanished'
  BY <1>1 DEF IngestInv
<1>15. QED
  BY <1>1, <1>10, <1>11, <1>12, <1>13, <1>14 DEF IngestInv, ImportIsExact

\* Files change under a run that reads them where they are; the others do not notice.
LEMMA PushInv ==
    ASSUME IngestInv, Push
    PROVE  IngestInv'
<1>1. /\ IngestTypeOK /\ pushes < MaxPushes /\ pushes' = pushes + 1
      /\ ingest' = [j \in Ingests |-> Disturbed(ingest[j])]
      /\ crossed' = (crossed \/ \E j \in Ingests : IngestRuns(j) /\ ingest[j].local)
      /\ UNCHANGED <<repoFile, imported, crashes, result>>
  BY DEF IngestInv, Push
<1>2. /\ tree' \in Snapshot /\ vanished \subseteq vanished' /\ vanished' \subseteq Files
      /\ \A f \in Files : tree'[f] = Nothing => f \in vanished'
  <2>1. /\ tree \in Snapshot /\ pushes + 2 \in Versions /\ vanished \subseteq Files
        /\ \A f \in Files : tree[f] = Nothing => f \in vanished
    BY <1>1, IngestAssumption DEF IngestInv, IngestTypeOK, Versions
  <2>2. pushes + 2 # Nothing
    BY <2>1, <1>1, IngestFacts
  <2>3. CASE /\ \E f \in Files : tree' = [tree EXCEPT ![f] = pushes + 2]
             /\ UNCHANGED vanished
    <3>1. PICK f \in Files : tree' = [tree EXCEPT ![f] = pushes + 2]
      BY <2>3
    <3>2. QED
      BY <3>1, <2>1, <2>2, <2>3 DEF Snapshot
  <2>4. CASE \E F \in SUBSET Paths(tree) \ {{}} :
                /\ tree' = [f \in Files |-> IF f \in F THEN Nothing ELSE tree[f]]
                /\ vanished' = vanished \cup F
    <3>1. PICK F \in SUBSET Paths(tree) :
             /\ tree' = [f \in Files |-> IF f \in F THEN Nothing ELSE tree[f]]
             /\ vanished' = vanished \cup F
      BY <2>4
    <3>2. F \subseteq Files
      BY DEF Paths
    <3>3. QED
      BY <3>1, <3>2, <2>1 DEF Snapshot
  <2>5. QED
    BY <2>3, <2>4 DEF Push
<1>3. ASSUME NEW j \in Ingests
      PROVE  /\ ingest'[j] \in IngestRun /\ SameRun(ingest[j], ingest'[j])
             /\ ingest'[j].alone => ingest[j].alone /\ ~ingest[j].local
  <2>1. ingest[j] \in IngestRun /\ ingest'[j] = Disturbed(ingest[j])
    BY <1>1, IngestFacts
  <2>2. QED
    BY <2>1 DEF Disturbed, IngestRun, SameRun
<1>4. IngestTypeOK'
  <2>1. ingest' \in [Ingests -> IngestRun]
    BY <1>1, <1>3
  <2>2. \A j \in Ingests : ingest'[j].stage \in {"save", "ask"} => ingest'[j].body \in Versions
    BY <1>1, <1>3 DEF SameRun, IngestTypeOK
  <2>3. QED
    BY <2>1, <2>2, <1>1, <1>2 DEF IngestTypeOK
<1>5. ASSUME NEW j \in Ingests PROVE RunFits(j)' /\ RunKnowsFiles(j)'
  <2>1. WalkedThrough(j) => IngestRuns(j)
    BY DEF WalkedThrough, IngestRuns
  <2>2. WalkedThrough(j) /\ ingest[j].local => crossed' /\ ~ingest'[j].alone
    BY <2>1, <1>1, <1>3
  <2>3. QED
    BY <2>2, <1>1, <1>2, <1>3, RunStays
<1>6. \A j \in Ingests : IngestRuns(j)' = IngestRuns(j)
  BY <1>3 DEF IngestRuns, SameRun
<1>7. OneRunOrCrossed'
  BY <1>1, <1>3, <1>6 DEF IngestInv, OneRunOrCrossed
<1>8. SourcesFit' /\ DeprecatedHasVanished' /\ SummaryIsOfItsFile'
  BY <1>1, <1>2 DEF IngestInv, SourcesFit, DeprecatedHasVanished, SummaryIsOfItsFile
<1>9. ImportIsExact' /\ (result' # Nothing => \A j \in Ingests : ~IngestRuns(j)')
  BY <1>1, <1>6 DEF IngestInv, ImportIsExact
<1>10. QED
  BY <1>2, <1>4, <1>5, <1>7, <1>8, <1>9 DEF IngestInv

LEMMA IngestStepInv == IngestInv /\ [IngestNext]_ingestVars => IngestInv'
<1> SUFFICES ASSUME IngestInv, [IngestNext]_ingestVars PROVE IngestInv'
  OBVIOUS
<1>1. CASE UNCHANGED ingestVars
  <2>1. UNCHANGED <<tree, repoFile, imported, ingest, pushes, crashes, crossed, vanished, result>>
    BY <1>1 DEF ingestVars
  <2>2. \A j \in Ingests : RunFits(j)' /\ RunKnowsFiles(j)'
    BY <2>1, RunStays DEF SameRun
  <2>3. IngestTypeOK' /\ OneRunOrCrossed' /\ \A j \in Ingests : IngestRuns(j)' = IngestRuns(j)
    BY <2>1 DEF IngestInv, IngestTypeOK, OneRunOrCrossed, IngestRuns
  <2>4. SourcesFit' /\ DeprecatedHasVanished' /\ SummaryIsOfItsFile' /\ ImportIsExact'
    BY <2>1 DEF IngestInv, SourcesFit, DeprecatedHasVanished, SummaryIsOfItsFile, ImportIsExact
  <2>5. QED
    BY <2>1, <2>2, <2>3, <2>4 DEF IngestInv
<1>2. CASE Push
  BY <1>2, PushInv
<1>3. CASE \E j \in Ingests, local \in BOOLEAN : StartRepoIngest(j, local)
  BY <1>3, StartRepoIngestInv
<1>4. ASSUME NEW j \in Ingests,
             ListTree(j) \/ FetchGithubRepo(j) \/ WalkRepo(j)
      PROVE  IngestInv'
  BY <1>4, ListTreeInv, FetchGithubRepoInv, WalkRepoInv
<1>5. ASSUME NEW j \in Ingests, UpsertIngestDocument(j) \/ SaveVerbatim(j)
      PROVE  IngestInv'
  BY <1>5, UpsertIngestDocumentInv, SaveVerbatimInv
<1>6. ASSUME NEW j \in Ingests, BeginSummaries(j) \/ AskForSummary(j) \/ WriteSummary(j)
      PROVE  IngestInv'
  BY <1>6, BeginSummariesInv, AskForSummaryInv, WriteSummaryInv
<1>7. ASSUME NEW j \in Ingests, ListIngested(j) \/ MarkIngestDocumentDeprecated(j)
      PROVE  IngestInv'
  BY <1>7, ListIngestedInv, MarkIngestDocumentDeprecatedInv
<1>8. ASSUME NEW j \in Ingests, CompleteIngest(j) \/ FailIngest(j) \/ CrashIngest(j)
      PROVE  IngestInv'
  BY <1>8, CompleteIngestInv, FailIngestInv, CrashIngestInv
<1>9. QED
  BY <1>1, <1>2, <1>3, <1>4, <1>5, <1>6, <1>7, <1>8 DEF IngestNext

\* Whatever is pushed, and whichever runs overlap, fail or are repeated: after a run that had
\* the project to itself the documents are what it saw, only what vanished is deprecated, and
\* a summary is of the file it is kept with (runner.ts:33-44, 155-195, 391-409).
THEOREM ImportAlwaysHolds == IngestSpec => []ImportHolds
<1>1. IngestInv => ImportHolds
  BY DEF IngestInv, ImportHolds
<1>2. QED
  BY <1>1, IngestInitInv, IngestStepInv, PTL DEF IngestSpec

-----------------------------------------------------------------------------
(***************************************************************************)
(* SelectionRefine, for any passages and any numbers of texts, selections  *)
(* and suggestions: what is suggested is what was written for the passage, *)
(* once.                                                                   *)
(***************************************************************************)

AllProposed == creating \cup suggested

\* The inductive invariant.  A result is of the last run, and of the passage that is
\* selected unless the selection has moved; it is whole, or there is something beside it
\* that tells.  Of the last run nothing is suggested before its stream is over, and once
\* something is the toolbar knows.
PreviewFits ==
    /\ preview = NoResult \/ /\ preview.run = asking.run /\ preview.of = asking.of
                             /\ asking.run # 0
    /\ moved \/ asking.run = 0 \/ selected = asking.of
    /\ preview # NoResult /\ ~toolbar.streaming =>
          preview.whole \/ toolbar.error \/ toolbar.saving \/ toolbar.saved
    /\ toolbar.streaming => asking.run # 0

ProposalsFit ==
    /\ \A p \in AllProposed :
          /\ p.text.run \in 1..asking.run
          /\ p.text.of = p.block \/ p.moved
          /\ p.text.whole \/ p.warned
          /\ p.text.run = asking.run => ~toolbar.streaming
    /\ \A p, o \in AllProposed :
          p.text.run = o.text.run /\ p.text.run \notin unheard => p = o
    /\ \A p \in suggested :
          p.text.run = asking.run /\ p.text.run \notin unheard =>
             preview = NoResult \/ toolbar.saved
    /\ ~raced => \A p \in creating : p.text.run = asking.run
    /\ ~raced /\ toolbar.saved => \E p \in suggested : p.text.run = asking.run

RefineInv ==
    /\ RefineTypeOK /\ IsFiniteSet(creating) /\ IsFiniteSet(suggested)
    /\ \A p, o \in creating : p = o
    /\ PreviewFits /\ ProposalsFit

ToolbarRow == [open : BOOLEAN, streaming : BOOLEAN, saving : BOOLEAN, saved : BOOLEAN,
               error : BOOLEAN]

LEMMA OneAtMost ==
    ASSUME NEW S, \A p, o \in S : p = o
    PROVE  IsFiniteSet(S) /\ Cardinality(S) <= 1
<1>1. CASE S = {}
  BY <1>1, FS_EmptySet
<1>2. CASE S # {}
  <2>1. PICK p \in S : TRUE
    BY <1>2
  <2>2. S = {p}
    BY <2>1
  <2>3. IsFiniteSet({p}) /\ Cardinality({p}) = 1
    BY FS_Singleton
  <2>4. QED
    BY <2>2, <2>3
<1>3. QED
  BY <1>1, <1>2

LEMMA RefineFacts ==
    ASSUME RefineInv
    PROVE  /\ toolbar \in ToolbarRow /\ asking.run \in 0..MaxRefines /\ asking.run \in Nat
           /\ asking.of \in Passages \cup {NoPassage} /\ preview \in RefinedText
           /\ selected \in Passages \cup {NoPassage} /\ MaxRefines \in Nat
           /\ (toolbar.saving <=> creating # {}) /\ NoPassage \notin Passages
           /\ asking \in [run : 0..MaxRefines, of : Passages \cup {NoPassage}]
           /\ Cardinality(suggested) \in Nat /\ moved \in BOOLEAN
           /\ toolbar.error \in BOOLEAN /\ NoResult \in RefinedText
<1>1. Cardinality(suggested) \in Nat
  BY FS_CardinalityType DEF RefineInv
<1>2. NoResult \in RefinedText
  BY RefineAssumption DEF NoResult, RefinedText
<1>3. QED
  BY <1>1, <1>2, RefineAssumption DEF RefineInv, RefineTypeOK, ToolbarRow

LEMMA RefineInitInv == RefineInit => RefineInv
<1> SUFFICES ASSUME RefineInit PROVE RefineInv
  OBVIOUS
<1>1. IsFiniteSet({}) /\ Cardinality({}) = 0
  BY FS_EmptySet
<1>2. NoResult \in RefinedText /\ NoResult.run = 0
  BY RefineAssumption DEF NoResult, RefinedText
<1>3. RefineTypeOK
  <2>1. /\ asking \in [run : 0..MaxRefines, of : Passages \cup {NoPassage}]
        /\ preview \in RefinedText /\ preview.run \in {0, asking.run}
    BY <1>2, RefineAssumption DEF RefineInit
  <2>2. /\ toolbar \in ToolbarRow /\ ~toolbar.saving /\ creating = {}
    BY DEF RefineInit, ToolbarRow
  <2>3. Cardinality(creating) = 0
    BY <1>1 DEF RefineInit
  <2>4. /\ selected \in Passages \cup {NoPassage} /\ selects \in 0..MaxSelects
    BY RefineAssumption DEF RefineInit
  <2>5. creating = {} /\ suggested = {} /\ unheard = {}
    BY DEF RefineInit
  <2>6. moved \in BOOLEAN /\ raced \in BOOLEAN
    BY DEF RefineInit
  <2>7. QED
    BY <2>1, <2>2, <2>3, <2>4, <2>5, <2>6 DEF RefineTypeOK, ToolbarRow
<1>4. PreviewFits /\ ProposalsFit
  BY DEF RefineInit, PreviewFits, ProposalsFit, AllProposed
<1>5. QED
  BY <1>1, <1>3, <1>4 DEF RefineInit, RefineInv

\* A step of the toolbar that leaves the suggestions alone.
LEMMA ToolbarMoves ==
    ASSUME RefineInv, UNCHANGED suggestions,
           selected' \in Passages \cup {NoPassage}, selects' \in 0..MaxSelects,
           toolbar' \in ToolbarRow, toolbar'.saving = toolbar.saving,
           asking' = asking, preview' \in RefinedText, moved' \in BOOLEAN, raced' = raced,
           preview' = NoResult \/ preview' = preview \/ toolbar.streaming,
           toolbar'.saved = toolbar.saved \/ (~toolbar'.saved /\ preview' = NoResult),
           toolbar'.streaming => toolbar.streaming,
           PreviewFits'
    PROVE  RefineInv'
<1>1. /\ creating' = creating /\ suggested' = suggested /\ unheard' = unheard
      /\ AllProposed' = AllProposed
  BY DEF suggestions, AllProposed
<1>2. preview'.run \in {0, asking'.run}
  BY DEF PreviewFits, NoResult
<1>3. RefineTypeOK'
  BY <1>1, <1>2 DEF RefineInv, RefineTypeOK, ToolbarRow
<1>4. ProposalsFit'
  <2>1. \A p \in AllProposed :
          /\ p.text.run \in 1..asking.run
          /\ p.text.of = p.block \/ p.moved
          /\ p.text.whole \/ p.warned
          /\ p.text.run = asking.run => ~toolbar'.streaming
    BY DEF RefineInv, ProposalsFit
  <2>2. ASSUME NEW p \in suggested, p.text.run = asking.run, p.text.run \notin unheard
        PROVE  preview' = NoResult \/ toolbar'.saved
    <3>1. ~toolbar.streaming /\ (preview = NoResult \/ toolbar.saved)
      BY <2>2 DEF RefineInv, ProposalsFit, AllProposed
    <3>2. QED
      BY <3>1
  <2>3. QED
    BY <1>1, <2>1, <2>2 DEF RefineInv, ProposalsFit
<1>5. QED
  BY <1>1, <1>3, <1>4 DEF RefineInv

LEMMA ReadSelectionInv ==
    ASSUME RefineInv, NEW b \in Passages \cup {NoPassage}, ReadSelection(b)
    PROVE  RefineInv'
<1>1. PreviewFits'
  BY DEF ReadSelection, RefineInv, PreviewFits
<1>2. selects' \in 0..MaxSelects
  BY RefineAssumption DEF ReadSelection, RefineInv, RefineTypeOK
<1>3. QED
  BY <1>1, <1>2, RefineFacts, ToolbarMoves DEF ReadSelection

LEMMA RunFailsInv ==
    ASSUME RefineInv, RunFails
    PROVE  RefineInv'
<1>1. /\ toolbar' \in ToolbarRow /\ toolbar'.saving = toolbar.saving
      /\ toolbar'.saved = toolbar.saved /\ toolbar'.error = TRUE /\ ~toolbar'.streaming
  BY RefineFacts DEF RunFails, ToolbarRow
<1>2. PreviewFits'
  BY <1>1 DEF RunFails, RefineInv, PreviewFits
<1>3. QED
  BY <1>1, <1>2, RefineFacts, ToolbarMoves DEF RunFails, RefineInv, RefineTypeOK

LEMMA RefineStreamsInv ==
    ASSUME RefineInv, RefineStreams \/ RefineEnds
    PROVE  RefineInv'
<1>1. /\ preview' \in RefinedText /\ preview'.run = asking.run /\ preview'.of = asking.of
      /\ RefineEnds => preview'.whole
  <2>1. asking.run \in 0..MaxRefines /\ asking.of \in Passages \cup {NoPassage}
    BY RefineFacts
  <2>2. CASE RefineStreams
    <3>1. preview' = [run |-> asking.run, of |-> asking.of, whole |-> FALSE]
      BY <2>2 DEF RefineStreams
    <3>2. ~RefineEnds
      BY <3>1 DEF RefineEnds
    <3>3. QED
      BY <2>1, <3>1, <3>2 DEF RefinedText
  <2>3. CASE RefineEnds
    <3>1. preview' = [run |-> asking.run, of |-> asking.of, whole |-> TRUE]
      BY <2>3 DEF RefineEnds
    <3>2. QED
      BY <2>1, <3>1 DEF RefinedText
  <2>4. QED
    BY <2>2, <2>3
<1>2. /\ toolbar' \in ToolbarRow /\ toolbar'.saving = toolbar.saving
      /\ toolbar'.saved = toolbar.saved
      /\ RefineStreams => toolbar'.streaming
      /\ toolbar.streaming
  <2>1. CASE RefineStreams
    BY <2>1, RefineFacts DEF RefineStreams, RefineEnds
  <2>2. CASE RefineEnds /\ ~RefineStreams
    BY <2>2, RefineFacts DEF RefineEnds, ToolbarRow
  <2>3. QED
    BY <2>1, <2>2
<1>3. UNCHANGED <<selected, asking, suggestions, selects, moved, raced>>
  BY DEF RefineStreams, RefineEnds
<1>4. PreviewFits'
  BY <1>1, <1>2, <1>3 DEF RefineInv, PreviewFits
<1>5. QED
  BY <1>1, <1>2, <1>3, <1>4, RefineFacts, ToolbarMoves DEF RefineInv, RefineTypeOK

LEMMA CloseInv ==
    ASSUME RefineInv, Close
    PROVE  RefineInv'
<1>1. /\ toolbar' \in ToolbarRow /\ toolbar'.saving = toolbar.saving
      /\ ~toolbar'.saved /\ toolbar'.streaming = toolbar.streaming
  BY RefineFacts DEF Close, ToolbarRow
<1>2. PreviewFits'
  BY <1>1 DEF Close, RefineInv, PreviewFits
<1>3. QED
  BY <1>1, <1>2, RefineFacts, ToolbarMoves DEF Close, RefineInv, RefineTypeOK

\* A run begins: nothing of it is suggested yet.
LEMMA RunInv ==
    ASSUME RefineInv, Run
    PROVE  RefineInv'
<1>1. /\ toolbar' \in ToolbarRow /\ toolbar'.saving = toolbar.saving
      /\ ~toolbar'.saved /\ toolbar'.streaming
  BY RefineFacts DEF Run, ToolbarRow
<1>2. /\ asking' \in [run : 0..MaxRefines, of : Passages \cup {NoPassage}]
      /\ asking'.run = asking.run + 1 /\ asking'.of = selected
  BY RefineFacts DEF Run
<1>3. /\ creating' = creating /\ suggested' = suggested /\ unheard' = unheard
      /\ AllProposed' = AllProposed /\ selected' = selected /\ preview' = NoResult
      /\ raced' = (raced \/ toolbar.saving) /\ selects' = selects /\ moved' = FALSE
  BY DEF Run, suggestions, AllProposed
<1>4. RefineTypeOK'
  <2>1. preview'.run = 0
    BY <1>3 DEF NoResult
  <2>2. raced' \in BOOLEAN
    BY <1>3
  <2>3. QED
    BY <1>1, <1>2, <1>3, <2>1, <2>2, RefineFacts DEF RefineInv, RefineTypeOK, ToolbarRow
<1>5. PreviewFits'
  BY <1>1, <1>2, <1>3, RefineFacts DEF PreviewFits
<1>6. ProposalsFit'
  <2>1. ASSUME NEW p \in AllProposed
        PROVE  p.text.run \in 1..asking'.run /\ p.text.run # asking'.run
    <3>1. p.text.run \in 1..asking.run
      BY DEF RefineInv, ProposalsFit
    <3>2. QED
      BY <3>1, <1>2, RefineFacts
  <2>2. suggested \subseteq AllProposed /\ creating \subseteq AllProposed
    BY DEF AllProposed
  <2>3. ~raced' => creating = {}
    BY <1>3, RefineFacts
  <2>4. QED
    BY <1>1, <1>3, <2>1, <2>2, <2>3 DEF RefineInv, ProposalsFit
<1>7. QED
  BY <1>3, <1>4, <1>5, <1>6 DEF RefineInv

\* A text is to be suggested: the first of its run, unless an answer was lost.
LEMMA SuggestInv ==
    ASSUME RefineInv, Suggest
    PROVE  RefineInv'
<1>1. /\ toolbar' \in ToolbarRow /\ toolbar'.saving /\ toolbar'.saved = toolbar.saved
      /\ toolbar'.streaming = toolbar.streaming
      /\ ~toolbar.saved /\ ~toolbar.streaming /\ ~toolbar.saving
  BY RefineFacts DEF Suggest, ToolbarRow
<1> DEFINE p == [call |-> Cardinality(suggested), text |-> preview, block |-> selected,
                 warned |-> toolbar.error, moved |-> moved]
<1>2. /\ p \in Proposal /\ p.text = preview /\ p.block = selected
      /\ p.warned = toolbar.error /\ p.moved = moved
  BY RefineFacts DEF Suggest, Proposal
<1>3. creating = {} /\ creating' = {p}
  BY <1>1, RefineFacts DEF Suggest
<1> HIDE DEF p
<1>4. /\ UNCHANGED <<selected, asking, preview, suggested, unheard, selects, moved, raced>>
      /\ preview # NoResult
  BY DEF Suggest
<1>5. IsFiniteSet({p}) /\ Cardinality({p}) = 1
  BY FS_Singleton
<1>6. RefineTypeOK'
  BY <1>1, <1>2, <1>3, <1>4, <1>5 DEF RefineInv, RefineTypeOK, ToolbarRow
<1>7. PreviewFits'
  BY <1>1, <1>4 DEF RefineInv, PreviewFits
<1>8. ProposalsFit'
  <2>1. /\ p.text.run = asking.run /\ p.text.of = asking.of /\ asking.run \in 1..asking.run
        /\ p.text.of = p.block \/ p.moved
        /\ p.text.whole \/ p.warned
    BY <1>1, <1>2, <1>4, RefineFacts DEF RefineInv, PreviewFits
  <2>2. AllProposed' = suggested \cup {p} /\ AllProposed = suggested
    BY <1>3, <1>4 DEF AllProposed
  <2>3. \A o \in suggested : o.text.run = asking.run => o.text.run \in unheard
    BY <1>1, <1>4 DEF RefineInv, ProposalsFit
  <2>4. \A o \in suggested : /\ o.text.run \in 1..asking.run
                             /\ o.text.of = o.block \/ o.moved
                             /\ o.text.whole \/ o.warned
    BY <2>2 DEF RefineInv, ProposalsFit
  <2>5. \A o, q \in suggested : o.text.run = q.text.run /\ o.text.run \notin unheard => o = q
    BY <2>2 DEF RefineInv, ProposalsFit
  <2>6. \A o, q \in suggested \cup {p} :
           o.text.run = q.text.run /\ o.text.run \notin unheard => o = q
    BY <2>1, <2>3, <2>5
  <2>7. ~raced /\ toolbar'.saved => FALSE
    BY <1>1
  <2>8. QED
    BY <1>1, <1>3, <1>4, <2>1, <2>2, <2>3, <2>4, <2>6, <2>7 DEF ProposalsFit
<1>9. QED
  BY <1>3, <1>4, <1>5, <1>6, <1>7, <1>8 DEF RefineInv

\* It is made, or fails, or is made and the answer is lost.
LEMMA SuggestionEndsInv ==
    ASSUME RefineInv, NEW p \in creating,
           ProposeEditSuggestion(p) \/ \E made \in BOOLEAN : SuggestionFails(p, made)
    PROVE  RefineInv'
<1>1. /\ toolbar' \in ToolbarRow /\ ~toolbar'.saving
      /\ toolbar'.streaming = toolbar.streaming
      /\ creating' = {} /\ (toolbar'.saved \/ toolbar'.error)
      /\ UNCHANGED <<selected, asking, preview, selects, moved, raced>>
      /\ \/ /\ suggested' = suggested \cup {p} /\ unheard' = unheard /\ toolbar'.saved
         \/ /\ suggested' = suggested \cup {p} /\ unheard' = unheard \cup {p.text.run}
            /\ toolbar'.saved = toolbar.saved
         \/ /\ suggested' = suggested /\ unheard' = unheard
            /\ toolbar'.saved = toolbar.saved
  <2>1. CASE ProposeEditSuggestion(p)
    BY <2>1, RefineFacts DEF ProposeEditSuggestion, ToolbarRow
  <2>2. ASSUME NEW made \in BOOLEAN, SuggestionFails(p, made)
        PROVE  /\ toolbar' \in ToolbarRow /\ ~toolbar'.saving
               /\ toolbar'.streaming = toolbar.streaming
               /\ creating' = {} /\ toolbar'.error /\ toolbar'.saved = toolbar.saved
               /\ UNCHANGED <<selected, asking, preview, selects, moved, raced>>
               /\ \/ suggested' = suggested \cup {p} /\ unheard' = unheard \cup {p.text.run}
                  \/ suggested' = suggested /\ unheard' = unheard
    BY <2>2, RefineFacts DEF SuggestionFails, ToolbarRow
  <2>3. QED
    BY <2>1, <2>2
<1>2. /\ p \in Proposal /\ p.text.run \in 1..asking.run /\ 1..asking.run \subseteq 1..MaxRefines
      /\ AllProposed' \subseteq AllProposed /\ unheard \subseteq unheard'
      /\ p \in AllProposed /\ suggested \subseteq suggested'
      /\ suggested' \subseteq suggested \cup {p}
  <2>1. p \in Proposal /\ p.text.run \in 1..asking.run /\ p \in AllProposed
    BY DEF RefineInv, RefineTypeOK, ProposalsFit, AllProposed
  <2>2. 1..asking.run \subseteq 1..MaxRefines
    BY RefineFacts
  <2>3. AllProposed' \subseteq AllProposed
    BY <1>1 DEF AllProposed
  <2>4. QED
    BY <1>1, <2>1, <2>2, <2>3
<1>3. /\ IsFiniteSet({}) /\ Cardinality({}) = 0 /\ IsFiniteSet(suggested')
  <2>1. IsFiniteSet(suggested \cup {p})
    BY FS_AddElement DEF RefineInv
  <2>2. QED
    BY <1>1, <2>1, FS_EmptySet DEF RefineInv
<1>4. RefineTypeOK'
  BY <1>1, <1>2, <1>3 DEF RefineInv, RefineTypeOK, ToolbarRow
<1>5. PreviewFits'
  BY <1>1 DEF RefineInv, PreviewFits
<1>6. ProposalsFit'
  <2>1. \A o \in AllProposed' :
          /\ o.text.run \in 1..asking.run
          /\ o.text.of = o.block \/ o.moved
          /\ o.text.whole \/ o.warned
          /\ o.text.run = asking.run => ~toolbar.streaming
    BY <1>2 DEF RefineInv, ProposalsFit
  <2>2. \A o, q \in AllProposed' :
          o.text.run = q.text.run /\ o.text.run \notin unheard' => o = q
    BY <1>2 DEF RefineInv, ProposalsFit
  <2>3. ASSUME NEW o \in suggested', o.text.run = asking.run, o.text.run \notin unheard'
        PROVE  preview = NoResult \/ toolbar'.saved
    <3>1. CASE o \in suggested
      <4>1. preview = NoResult \/ toolbar.saved
        BY <3>1, <2>3, <1>2 DEF RefineInv, ProposalsFit
      <4>2. QED
        BY <4>1, <1>1
    <3>2. CASE o \notin suggested
      BY <3>2, <2>3, <1>1
    <3>3. QED
      BY <3>1, <3>2
  <2>4. ASSUME ~raced, toolbar'.saved PROVE \E o \in suggested' : o.text.run = asking.run
    <3>1. CASE toolbar'.saved = toolbar.saved
      BY <3>1, <2>4, <1>2 DEF RefineInv, ProposalsFit
    <3>2. CASE suggested' = suggested \cup {p}
      BY <3>2, <2>4 DEF RefineInv, ProposalsFit
    <3>3. QED
      BY <3>1, <3>2, <1>1
  <2>5. QED
    BY <1>1, <2>1, <2>2, <2>3, <2>4 DEF ProposalsFit
<1>7. QED
  BY <1>1, <1>3, <1>4, <1>5, <1>6 DEF RefineInv

LEMMA RefineStepInv == RefineInv /\ [RefineNext]_refineVars => RefineInv'
<1> SUFFICES ASSUME RefineInv, [RefineNext]_refineVars PROVE RefineInv'
  OBVIOUS
<1>1. CASE UNCHANGED refineVars
  BY <1>1 DEF refineVars, RefineInv, RefineTypeOK, PreviewFits, ProposalsFit, AllProposed
<1>2. CASE RefineNext
  BY <1>2, RunInv, RunFailsInv, RefineStreamsInv, SuggestInv, CloseInv, ReadSelectionInv,
     SuggestionEndsInv DEF RefineNext
<1>3. QED
  BY <1>1, <1>2

\* Whatever is selected, asked for, broken off, closed or lost: a text is suggested for the
\* passage it was written for and once, half a text from under a warning only, and what the
\* toolbar says is saved is (selection-toolbar.tsx:60-67, 112-124, 194).
THEOREM RefinementsAlwaysFit == RefineSpec => []RefinementsFit
<1>1. RefineInv => RefinementsFit
  <2> SUFFICES ASSUME RefineInv PROVE RefinementsFit
    OBVIOUS
  <2>1. SuggestsItsPassage /\ HalfATextIsWarnedOf
    BY DEF RefineInv, ProposalsFit, AllProposed, SuggestsItsPassage, HalfATextIsWarnedOf
  <2>2. SuggestedOnce
    <3> SUFFICES ASSUME NEW n \in (1..MaxRefines) \ unheard
                 PROVE  Cardinality({p \in creating \cup suggested : p.text.run = n}) <= 1
      BY DEF SuggestedOnce
    <3> DEFINE S == {p \in creating \cup suggested : p.text.run = n}
    <3>1. \A p, o \in S : p = o
      BY DEF RefineInv, ProposalsFit, AllProposed
    <3> HIDE DEF S
    <3>2. Cardinality(S) <= 1
      BY <3>1, OneAtMost
    <3>3. QED
      BY <3>2 DEF S
  <2>3. SavedIsSuggested
    BY DEF RefineInv, ProposalsFit, SavedIsSuggested
  <2>4. QED
    BY <2>1, <2>2, <2>3 DEF RefineInv, RefinementsFit
<1>2. QED
  BY <1>1, RefineInitInv, RefineStepInv, PTL DEF RefineSpec

-----------------------------------------------------------------------------
(***************************************************************************)
(* Drafting, for any requests and any number of openings of the dialog:    *)
(* documents are whole, and a dialog is busy with its own request.         *)
(***************************************************************************)

DraftRow == [at : {"none", "asked", "reading", "ended"}, by : {"none", "rfc", "agent"},
             opening : 0..MaxOpens]
ServerStages == {"none", "generating", "generated", "creating", "created", "saved", "ended",
                 "failed"}
DocStages == {"none", "empty", "body", "titled"}

RfcGoesOn(r) == UnderWay(r) /\ draft[r].by = "rfc"
AgentAsked(r) == draft[r].at = "asked" /\ draft[r].by = "agent"

\* How far the two ends of a request and its document are from each other: a body was
\* saved before the title is set, and a document of the agent mode has its body when the
\* server is done.
EndsFit(req, at, doc) ==
    /\ req.at = "none" <=> req.by = "none"
    /\ req.by = "none" => at = "none" /\ doc = "none"
    /\ at = "none" => doc = "none"
    /\ req.by = "rfc" => /\ at \notin {"creating", "created"}
                         /\ at = "saved" => doc = "body"
    /\ req.by = "agent" => /\ req.at # "reading"
                           /\ at \notin {"generated", "saved"}
                           /\ doc = "body" <=> at = "ended"
                           /\ doc = "empty" => at \in {"created", "failed"}

\* The inductive invariant.  One request of the menu waits at most, and while nothing
\* overlaps one of the dialog.
DraftInv ==
    /\ DraftTypeOK
    /\ \A r \in Drafts : EndsFit(draft[r], server[r], draftDoc[r])
                         /\ draft[r].opening <= opens
    /\ \A r \in Drafts : page = r /\ draft[r].by = "agent" => server[r] = "ended"
    /\ \A r \in Drafts : page = r => draft[r].at = "ended"
    /\ \A p, r \in Drafts : AgentAsked(p) /\ AgentAsked(r) => p = r
    /\ ~overlap => \A p, r \in Drafts : RfcGoesOn(p) /\ RfcGoesOn(r) => p = r
    /\ ~dialog.open => ~dialog.busy
    /\ BusyWithItsOwn

DialogRow == [open : BOOLEAN, busy : BOOLEAN, error : BOOLEAN]
MenuRow == [busy : BOOLEAN, error : BOOLEAN]

LEMMA DraftFacts ==
    ASSUME DraftInv
    PROVE  /\ dialog \in DialogRow /\ dialog.open \in BOOLEAN /\ dialog.busy \in BOOLEAN
           /\ menu \in MenuRow /\ menu.busy \in BOOLEAN
           /\ opens \in Nat /\ opens \in 0..MaxOpens /\ overlap \in BOOLEAN
           /\ DOMAIN draft = Drafts /\ DOMAIN server = Drafts /\ DOMAIN draftDoc = Drafts
           /\ \A r \in Drafts : /\ draft[r] \in DraftRow /\ draft[r].opening <= opens
                                /\ server[r] \in ServerStages /\ draftDoc[r] \in DocStages
                                /\ EndsFit(draft[r], server[r], draftDoc[r])
                                /\ draft = [draft EXCEPT ![r] = draft[r]]
                                /\ server = [server EXCEPT ![r] = server[r]]
                                /\ draftDoc = [draftDoc EXCEPT ![r] = draftDoc[r]]
<1>1. /\ dialog \in DialogRow /\ menu \in MenuRow
      /\ draft \in [Drafts -> DraftRow] /\ server \in [Drafts -> ServerStages]
      /\ draftDoc \in [Drafts -> DocStages]
      /\ opens \in 0..MaxOpens /\ overlap \in BOOLEAN
  BY DEF DraftInv, DraftTypeOK, DialogRow, MenuRow, DraftRow, ServerStages, DocStages
<1>2. dialog.open \in BOOLEAN /\ dialog.busy \in BOOLEAN /\ menu.busy \in BOOLEAN
  BY <1>1 DEF DialogRow, MenuRow
<1>3. \A r \in Drafts : /\ EndsFit(draft[r], server[r], draftDoc[r])
                        /\ draft[r].opening <= opens
  BY DEF DraftInv
<1>4. QED
  BY <1>1, <1>2, <1>3, DraftAssumption

RowGoesOn(req) == req.at \in {"asked", "reading"} /\ req.by = "rfc"
RowAsked(req) == req.at = "asked" /\ req.by = "agent"

\* One request moves, at either end or both: what the invariant says of it and of all is
\* kept, if it fits and the menu and the history hear of it.
LEMMA RequestMoves ==
    ASSUME DraftInv, NEW r \in Drafts, NEW req \in DraftRow, NEW at \in ServerStages,
           NEW doc \in DocStages,
           draft' = [draft EXCEPT ![r] = req],
           server' = [server EXCEPT ![r] = at],
           draftDoc' = [draftDoc EXCEPT ![r] = doc],
           EndsFit(req, at, doc), req.opening <= opens, opens' = opens,
           dialog' \in DialogRow, ~dialog'.open => ~dialog'.busy,
           menu' \in MenuRow,
           menu'.busy <=> RowAsked(req) \/ (menu.busy /\ ~AgentAsked(r)),
           RowAsked(req) => AgentAsked(r) \/ ~menu.busy,
           overlap' \in BOOLEAN, overlap => overlap',
           RowGoesOn(req) /\ ~RfcGoesOn(r) /\ ~overlap' => \A q \in Drafts : ~RfcGoesOn(q),
           page' \in {page, r},
           page' = r => req.at = "ended" /\ (req.by = "agent" => at = "ended"),
           BusyWithItsOwn'
    PROVE  DraftInv'
<1>1. /\ draft' \in [Drafts -> DraftRow] /\ server' \in [Drafts -> ServerStages]
      /\ draftDoc' \in [Drafts -> DocStages] /\ page' \in Drafts \cup {"elsewhere"}
  BY DEF DraftInv, DraftTypeOK, DraftRow, ServerStages, DocStages
<1>2. /\ draft'[r] = req /\ server'[r] = at /\ draftDoc'[r] = doc
      /\ \A q \in Drafts \ {r} : /\ draft'[q] = draft[q] /\ server'[q] = server[q]
                                 /\ draftDoc'[q] = draftDoc[q]
  BY DraftFacts
<1>3. /\ ((AgentAsked(r))' <=> RowAsked(req)) /\ ((RfcGoesOn(r))' <=> RowGoesOn(req))
      /\ \A q \in Drafts \ {r} : /\ (AgentAsked(q))' <=> AgentAsked(q)
                                 /\ (RfcGoesOn(q))' <=> RfcGoesOn(q)
  BY <1>2 DEF AgentAsked, RowAsked, RfcGoesOn, RowGoesOn, UnderWay
<1>4. /\ menu.busy <=> \E q \in Drafts : AgentAsked(q)
      /\ \A p, q \in Drafts : AgentAsked(p) /\ AgentAsked(q) => p = q
  BY DEF DraftInv, DraftTypeOK, AgentAsked
<1>5. menu'.busy <=> \E q \in Drafts : (AgentAsked(q))'
  <2>1. CASE RowAsked(req)
    BY <1>3, <2>1
  <2>2. CASE ~RowAsked(req) /\ AgentAsked(r)
    <3>1. ~menu'.busy
      BY <2>2
    <3>2. \A q \in Drafts : ~(AgentAsked(q))'
      BY <1>3, <1>4, <2>2
    <3>3. QED
      BY <3>1, <3>2
  <2>3. CASE ~RowAsked(req) /\ ~AgentAsked(r)
    <3>1. menu'.busy <=> menu.busy
      BY <2>3
    <3>2. \A q \in Drafts : (AgentAsked(q))' <=> AgentAsked(q)
      BY <1>3, <2>3
    <3>3. QED
      BY <1>4, <3>1, <3>2
  <2>4. QED
    BY <2>1, <2>2, <2>3
<1>6. ASSUME NEW p \in Drafts, NEW q \in Drafts, (AgentAsked(p))', (AgentAsked(q))'
      PROVE  p = q
  BY <1>3, <1>4, <1>6, DraftFacts
<1>7. ASSUME NEW p \in Drafts, NEW q \in Drafts, ~overlap', (RfcGoesOn(p))', (RfcGoesOn(q))'
      PROVE  p = q
  <2>1. \A s, t \in Drafts : RfcGoesOn(s) /\ RfcGoesOn(t) => s = t
    BY <1>7 DEF DraftInv
  <2>2. QED
    BY <1>3, <1>7, <2>1
<1>8. DraftTypeOK'
  BY <1>1, <1>5, DraftFacts
     DEF DraftTypeOK, AgentAsked, DialogRow, MenuRow, DraftRow, ServerStages, DocStages
<1>9. \A q \in Drafts : /\ EndsFit(draft'[q], server'[q], draftDoc'[q])
                        /\ draft'[q].opening <= opens'
  BY <1>2, DraftFacts
<1>10. ASSUME NEW q \in Drafts, page' = q
       PROVE  draft'[q].at = "ended" /\ (draft'[q].by = "agent" => server'[q] = "ended")
  BY <1>2, <1>10, DraftAssumption DEF DraftInv
<1>11. QED
  BY <1>6, <1>7, <1>8, <1>9, <1>10 DEF DraftInv

\* The dialog is as busy as it was when the same requests go on ...
LEMMA StaysBusy ==
    ASSUME DraftInv, opens' = opens, overlap' = overlap, dialog' = dialog,
           NEW r \in Drafts, NEW req \in DraftRow, draft' = [draft EXCEPT ![r] = req],
           RowGoesOn(req) <=> RfcGoesOn(r), RowGoesOn(req) => req.opening = draft[r].opening
    PROVE  BusyWithItsOwn'
<1>1. draft'[r] = req /\ \A q \in Drafts \ {r} : draft'[q] = draft[q]
  BY DraftFacts
<1>2. \A q \in Drafts : RowGoesOn(draft[q]) <=> RfcGoesOn(q)
  BY DEF RowGoesOn, RfcGoesOn, UnderWay
<1>3. (dialog.open /\ ~overlap) =>
        (dialog.busy <=> \E q \in Drafts : RowGoesOn(draft[q]) /\ draft[q].opening = opens)
  BY DEF DraftInv, BusyWithItsOwn, RowGoesOn, UnderWay
<1>4. \A q \in Drafts : (RowGoesOn(draft'[q]) /\ draft'[q].opening = opens)
                           <=> (RowGoesOn(draft[q]) /\ draft[q].opening = opens)
  BY <1>1, <1>2
<1>5. (dialog.open /\ ~overlap) =>
        (dialog.busy <=> \E q \in Drafts : RowGoesOn(draft'[q]) /\ draft'[q].opening = opens)
  BY <1>3, <1>4
<1>6. QED
  BY <1>5 DEF BusyWithItsOwn, RowGoesOn, UnderWay

\* ... and idle when the one that went on is over.
LEMMA LeavesNone ==
    ASSUME DraftInv, overlap' = overlap, ~dialog'.busy,
           NEW r \in Drafts, NEW req \in DraftRow, draft' = [draft EXCEPT ![r] = req],
           RfcGoesOn(r), ~RowGoesOn(req)
    PROVE  BusyWithItsOwn'
<1>1. draft'[r] = req /\ \A q \in Drafts \ {r} : draft'[q] = draft[q]
  BY DraftFacts
<1>2. ~overlap => \A q \in Drafts : RfcGoesOn(q) => q = r
  BY DEF DraftInv
<1>3. ~overlap => \A q \in Drafts : ~RowGoesOn(draft'[q])
  BY <1>1, <1>2 DEF RowGoesOn, RfcGoesOn, UnderWay
<1>4. QED
  BY <1>3 DEF BusyWithItsOwn, RowGoesOn, UnderWay

\* The server's steps, by themselves.
LEMMA ServerMoves ==
    ASSUME DraftInv, NEW r \in Drafts,
           \/ RfcGenerated(r) \/ SaveRfc(r) \/ TitleRfc(r) \/ PostAgent(r)
           \/ AgentGenerated(r) \/ CreateAgentDoc(r) \/ SaveAgentDoc(r)
    PROVE  DraftInv'
<1> DEFINE Row == draft[r]
<1>1. /\ UNCHANGED <<dialog, menu, draft, page, opens, overlap>>
      /\ page = r => Row.at = "ended" /\ Row.by # "agent"
  BY DEF RfcGenerated, SaveRfc, TitleRfc, PostAgent, AgentGenerated, CreateAgentDoc,
         SaveAgentDoc, DraftInv
<1>2. EndsFit(Row, server[r], draftDoc[r]) /\ server[r] \in ServerStages
      /\ draftDoc[r] \in DocStages /\ Row \in DraftRow /\ Row.opening <= opens
  BY DraftFacts
<1>3. PICK at \in ServerStages, doc \in DocStages :
         /\ server' = [server EXCEPT ![r] = at] /\ draftDoc' = [draftDoc EXCEPT ![r] = doc]
         /\ EndsFit(Row, at, doc)
  <2>1. draftDoc' = draftDoc => draftDoc' = [draftDoc EXCEPT ![r] = draftDoc[r]]
    BY DraftFacts
  <2>2. CASE RfcGenerated(r)
    <3>1. PICK at \in {"generated", "failed"} : server' = [server EXCEPT ![r] = at]
      BY <2>2 DEF RfcGenerated, Serves
    <3>2. at \in ServerStages /\ EndsFit(Row, at, draftDoc[r])
      BY <1>2, <2>2, <3>1 DEF RfcGenerated, EndsFit, ServerStages
    <3>3. QED
      BY <1>2, <2>1, <2>2, <3>1, <3>2 DEF RfcGenerated
  <2>3. CASE SaveRfc(r)
    <3>1. EndsFit(Row, "saved", "body") /\ EndsFit(Row, "failed", draftDoc[r])
      BY <1>2, <2>3 DEF SaveRfc, EndsFit
    <3>2. QED
      BY <1>2, <2>1, <2>3, <3>1 DEF SaveRfc, Serves, ServerStages, DocStages
  <2>4. CASE TitleRfc(r)
    <3>1. EndsFit(Row, "ended", "titled") /\ EndsFit(Row, "failed", draftDoc[r])
      BY <1>2, <2>4 DEF TitleRfc, EndsFit
    <3>2. QED
      BY <1>2, <2>1, <2>4, <3>1 DEF TitleRfc, Serves, ServerStages, DocStages
  <2>5. CASE PostAgent(r)
    <3>1. EndsFit(Row, "generating", draftDoc[r])
      BY <1>2, <2>5 DEF PostAgent, EndsFit
    <3>2. QED
      BY <1>2, <2>1, <2>5, <3>1 DEF PostAgent, Serves, ServerStages
  <2>6. CASE AgentGenerated(r)
    <3>1. EndsFit(Row, "creating", draftDoc[r])
      BY <1>2, <2>6 DEF AgentGenerated, EndsFit
    <3>2. QED
      BY <1>2, <2>1, <2>6, <3>1 DEF AgentGenerated, Serves, ServerStages
  <2>7. CASE CreateAgentDoc(r)
    <3>1. EndsFit(Row, "created", "empty")
      BY <1>2, <2>7 DEF CreateAgentDoc, EndsFit, DraftRow
    <3>2. QED
      BY <2>7, <3>1 DEF CreateAgentDoc, Serves, ServerStages, DocStages
  <2>8. CASE SaveAgentDoc(r)
    <3>1. EndsFit(Row, "ended", "body")
      BY <1>2, <2>8 DEF SaveAgentDoc, EndsFit, DraftRow
    <3>2. QED
      BY <2>8, <3>1 DEF SaveAgentDoc, Serves, ServerStages, DocStages
  <2>9. QED
    BY <2>2, <2>3, <2>4, <2>5, <2>6, <2>7, <2>8
<1>4. /\ RowAsked(Row) <=> AgentAsked(r)
      /\ RowGoesOn(Row) <=> RfcGoesOn(r)
  BY DEF RowAsked, AgentAsked, RowGoesOn, RfcGoesOn, UnderWay
<1>5. /\ AgentAsked(r) => menu.busy
      /\ ~dialog.open => ~dialog.busy
      /\ draft = [draft EXCEPT ![r] = Row]
  BY DraftFacts DEF DraftInv, DraftTypeOK, AgentAsked
<1> HIDE DEF Row
<1>6. BusyWithItsOwn'
  BY <1>1, <1>2, <1>4, <1>5, StaysBusy DEF Row
<1>7. QED
  BY <1>1, <1>2, <1>3, <1>4, <1>5, <1>6, RequestMoves, DraftFacts

LEMMA DraftInitInv == DraftInit => DraftInv
<1> SUFFICES ASSUME DraftInit PROVE DraftInv
  OBVIOUS
<1>1. [at |-> "none", by |-> "none", opening |-> 0] \in DraftRow
  BY DraftAssumption DEF DraftRow
<1>2. \A r \in Drafts : /\ draft[r] = [at |-> "none", by |-> "none", opening |-> 0]
                        /\ server[r] = "none" /\ draftDoc[r] = "none"
  BY DEF DraftInit
<1>3. DraftTypeOK
  BY <1>1, <1>2, DraftAssumption DEF DraftInit, DraftTypeOK, DraftRow
<1>4. \A r \in Drafts : /\ EndsFit(draft[r], server[r], draftDoc[r])
                        /\ draft[r].opening <= opens /\ page # r
  BY <1>2, DraftAssumption DEF DraftInit, EndsFit
<1>5. \A r \in Drafts : ~AgentAsked(r) /\ ~RfcGoesOn(r)
  BY <1>2 DEF AgentAsked, RfcGoesOn, UnderWay
<1>6. BusyWithItsOwn
  BY DEF DraftInit, BusyWithItsOwn
<1>7. ~dialog.busy
  BY DEF DraftInit
<1>8. QED
  BY <1>3, <1>4, <1>5, <1>6, <1>7 DEF DraftInv

\* A dialog that opens is new, and none of the requests is its own.
LEMMA DialogInv ==
    ASSUME DraftInv, OpenDialog \/ CloseDialog
    PROVE  DraftInv'
<1>1. UNCHANGED <<menu, draft, server, draftDoc, page, overlap>>
  BY DEF OpenDialog, CloseDialog
<1>2. /\ dialog' \in DialogRow /\ ~dialog'.busy
      /\ opens' \in 0..MaxOpens /\ opens <= opens'
      /\ dialog'.open => opens' = opens + 1
  <2>1. CASE OpenDialog
    <3>1. ~dialog.busy /\ dialog' = [dialog EXCEPT !.open = TRUE]
      BY <2>1 DEF OpenDialog, DraftInv
    <3>2. opens' = opens + 1 /\ opens < MaxOpens
      BY <2>1 DEF OpenDialog
    <3>3. dialog' \in DialogRow /\ dialog'.busy = dialog.busy
      BY <3>1, DraftFacts DEF DialogRow
    <3>4. QED
      BY <3>1, <3>2, <3>3, DraftFacts, DraftAssumption
  <2>2. CASE CloseDialog
    BY <2>2, DraftFacts DEF CloseDialog, DialogRow
  <2>3. QED
    BY <2>1, <2>2
<1>3. DraftTypeOK'
  BY <1>1, <1>2 DEF DraftInv, DraftTypeOK, DialogRow
<1>4. \A r \in Drafts : draft'[r].opening <= opens'
  <2>1. \A r \in Drafts : draft[r].opening \in Nat /\ draft[r].opening <= opens
    BY DraftFacts, DraftAssumption DEF DraftRow
  <2>2. QED
    BY <1>1, <1>2, <2>1, DraftFacts
<1>5. BusyWithItsOwn'
  <2>1. \A r \in Drafts : draft[r].opening \in Nat /\ draft[r].opening <= opens
    BY DraftFacts, DraftAssumption DEF DraftRow
  <2>2. dialog'.open => \A r \in Drafts : draft'[r].opening # opens'
    BY <1>1, <1>2, <2>1, DraftFacts
  <2>3. QED
    BY <1>2, <2>2 DEF BusyWithItsOwn
<1>6. QED
  BY <1>1, <1>2, <1>3, <1>4, <1>5 DEF DraftInv, AgentAsked, RfcGoesOn, UnderWay

LEMMA GenerateInv ==
    ASSUME DraftInv, NEW r \in Drafts, Generate(r)
    PROVE  DraftInv'
<1> DEFINE Row == [at |-> "asked", by |-> "rfc", opening |-> opens]
<1>1. /\ draft' = [draft EXCEPT ![r] = Row] /\ UNCHANGED <<menu, server, draftDoc, page, opens>>
      /\ dialog.open /\ ~dialog.busy /\ draft[r].at = "none"
      /\ dialog' = [dialog EXCEPT !.busy = TRUE, !.error = FALSE]
  BY DEF Generate
<1>2. dialog' \in DialogRow /\ dialog'.open = dialog.open /\ dialog'.busy = TRUE
  BY <1>1, DraftFacts DEF DialogRow
<1>3. draft[r].by = "none" /\ server[r] = "none" /\ draftDoc[r] = "none"
  BY <1>1, DraftFacts DEF EndsFit
<1>4. /\ Row \in DraftRow /\ Row.opening = opens /\ EndsFit(Row, server[r], draftDoc[r])
      /\ RowGoesOn(Row) /\ ~RowAsked(Row) /\ ~AgentAsked(r)
  BY <1>1, <1>3, DraftFacts DEF DraftRow, EndsFit, RowGoesOn, RowAsked, AgentAsked
<1>5. /\ overlap' \in BOOLEAN /\ (overlap => overlap')
      /\ ~overlap' => \A q \in Drafts : ~RfcGoesOn(q)
  BY DraftFacts DEF Generate, RfcGoesOn
<1>6. page' = page /\ page # r
  BY <1>1 DEF DraftInv
<1>7. RowGoesOn(draft'[r]) /\ draft'[r].opening = opens'
  BY <1>1, <1>4, DraftFacts
<1>8. BusyWithItsOwn'
  BY <1>2, <1>7 DEF BusyWithItsOwn, RowGoesOn, UnderWay
<1> HIDE DEF Row
<1>9. /\ draft' = [draft EXCEPT ![r] = Row] /\ UNCHANGED <<menu, server, draftDoc, opens>>
      /\ dialog.open
  BY <1>1
<1>10. dialog'.open /\ page' \in {page, r} /\ page' # r
  BY <1>2, <1>6, <1>9
<1>11. /\ server' = [server EXCEPT ![r] = server[r]]
       /\ draftDoc' = [draftDoc EXCEPT ![r] = draftDoc[r]]
       /\ menu' \in MenuRow /\ (menu'.busy <=> menu.busy) /\ Row.opening <= opens
  BY <1>4, <1>9, DraftFacts
<1>12. QED
  BY <1>2, <1>4, <1>5, <1>8, <1>9, <1>10, <1>11, RequestMoves, DraftFacts

\* A request of the dialog is over, for its client.
LEMMA RfcEndsInv ==
    ASSUME DraftInv, NEW r \in Drafts, RfcRefused(r) \/ ReadEnds(r) \/ ReadBreaks(r)
    PROVE  DraftInv'
<1> DEFINE Row == [draft[r] EXCEPT !.at = "ended"]
<1>1. /\ draft' = [draft EXCEPT ![r] = Row]
      /\ UNCHANGED <<menu, server, draftDoc, opens, overlap>>
      /\ page' = page \/ page' = r
      /\ RfcGoesOn(r) /\ draft[r].by = "rfc"
  BY DEF RfcRefused, ReadEnds, ReadBreaks, Becomes, RfcGoesOn, UnderWay
<1>2. dialog' \in DialogRow /\ ~dialog'.busy
  <2>1. CASE RfcRefused(r)
    <3>1. PICK told \in BOOLEAN :
             dialog' = [dialog EXCEPT !.error = dialog.open /\ (dialog.error \/ told),
                                      !.busy = FALSE]
      BY <2>1 DEF RfcRefused
    <3>2. (dialog.open /\ (dialog.error \/ told)) \in BOOLEAN
      OBVIOUS
    <3>3. QED
      BY <3>1, <3>2, DraftFacts DEF DialogRow
  <2>2. CASE ReadEnds(r)
    BY <2>2 DEF ReadEnds, DialogRow
  <2>3. CASE ReadBreaks(r)
    BY <2>3, DraftFacts DEF ReadBreaks, DialogRow
  <2>4. QED
    BY <2>1, <2>2, <2>3
<1>3. /\ Row \in DraftRow /\ Row.opening = draft[r].opening /\ Row.at = "ended"
      /\ Row.by = "rfc" /\ ~RowGoesOn(Row) /\ ~RowAsked(Row) /\ ~AgentAsked(r)
  BY <1>1, DraftFacts DEF DraftRow, RowGoesOn, RowAsked, AgentAsked
<1>4. EndsFit(Row, server[r], draftDoc[r])
  BY <1>1, <1>3, DraftFacts DEF EndsFit
<1> HIDE DEF Row
<1>5. BusyWithItsOwn'
  BY <1>1, <1>2, <1>3, LeavesNone
<1>6. QED
  BY <1>1, <1>2, <1>3, <1>4, <1>5, RequestMoves, DraftFacts

LEMMA PostRfcInv ==
    ASSUME DraftInv, NEW r \in Drafts, PostRfc(r)
    PROVE  DraftInv'
<1> DEFINE Row == [draft[r] EXCEPT !.at = "reading"]
<1>1. /\ draft' = [draft EXCEPT ![r] = Row]
      /\ server' = [server EXCEPT ![r] = "generating"]
      /\ draftDoc' = [draftDoc EXCEPT ![r] = "empty"]
      /\ UNCHANGED <<dialog, menu, page, opens, overlap>>
      /\ draft[r].at = "asked" /\ draft[r].by = "rfc"
  BY DEF PostRfc, Becomes, Serves
<1>2. /\ Row \in DraftRow /\ Row.opening = draft[r].opening
      /\ Row.at = "reading" /\ Row.by = "rfc"
  BY <1>1, DraftFacts DEF DraftRow
<1>3. /\ RowGoesOn(Row) /\ RfcGoesOn(r) /\ ~RowAsked(Row) /\ ~AgentAsked(r)
      /\ EndsFit(Row, "generating", "empty")
  BY <1>1, <1>2 DEF RowGoesOn, RowAsked, AgentAsked, RfcGoesOn, UnderWay, EndsFit
<1>4. page # r /\ (~dialog.open => ~dialog.busy)
  BY <1>1 DEF DraftInv
<1>5. "generating" \in ServerStages /\ "empty" \in DocStages
  BY DEF ServerStages, DocStages
<1> HIDE DEF Row
<1>6. BusyWithItsOwn'
  BY <1>1, <1>2, <1>3, StaysBusy
<1>7. QED
  BY <1>1, <1>2, <1>3, <1>4, <1>5, <1>6, RequestMoves, DraftFacts

LEMMA RunAgentInv ==
    ASSUME DraftInv, NEW r \in Drafts, RunAgent(r)
    PROVE  DraftInv'
<1> DEFINE Row == [at |-> "asked", by |-> "agent", opening |-> 0]
<1>1. /\ draft' = [draft EXCEPT ![r] = Row] /\ draft[r].at = "none" /\ ~menu.busy
      /\ menu' = [busy |-> TRUE, error |-> FALSE]
      /\ UNCHANGED <<dialog, server, draftDoc, page, opens, overlap>>
  BY DEF RunAgent
<1>2. draft[r].by = "none" /\ server[r] = "none" /\ draftDoc[r] = "none"
  BY <1>1, DraftFacts DEF EndsFit
<1>3. /\ Row \in DraftRow /\ Row.opening <= opens /\ EndsFit(Row, server[r], draftDoc[r])
      /\ ~RowGoesOn(Row) /\ RowAsked(Row) /\ ~RfcGoesOn(r)
  BY <1>1, <1>2, DraftFacts, DraftAssumption
     DEF DraftRow, EndsFit, RowGoesOn, RowAsked, RfcGoesOn, UnderWay
<1>4. page # r /\ (~dialog.open => ~dialog.busy)
  BY <1>1 DEF DraftInv
<1>5. menu' \in MenuRow /\ menu'.busy
  BY <1>1 DEF MenuRow
<1> HIDE DEF Row
<1>6. BusyWithItsOwn'
  BY <1>1, <1>3, StaysBusy
<1>7. QED
  BY <1>1, <1>3, <1>4, <1>5, <1>6, RequestMoves, DraftFacts

\* A request of the menu is over, for its client.
LEMMA AgentEndsInv ==
    ASSUME DraftInv, NEW r \in Drafts, AgentFails(r) \/ AgentLost(r) \/ AgentAnswered(r)
    PROVE  DraftInv'
<1> DEFINE Row == [draft[r] EXCEPT !.at = "ended"]
<1>1. /\ draft' = [draft EXCEPT ![r] = Row]
      /\ UNCHANGED <<dialog, draftDoc, opens, overlap>>
      /\ draft[r].at = "asked" /\ draft[r].by = "agent" /\ AgentAsked(r)
  BY DEF AgentFails, AgentLost, AgentAnswered, Becomes, AgentAsked
<1>2. menu' \in MenuRow /\ ~menu'.busy
  <2>1. CASE AgentFails(r) \/ AgentLost(r)
    <3>1. menu' = [busy |-> FALSE, error |-> TRUE]
      BY <2>1 DEF AgentFails, AgentLost
    <3>2. QED
      BY <3>1 DEF MenuRow
  <2>2. CASE AgentAnswered(r)
    BY <2>2, DraftFacts DEF AgentAnswered, MenuRow
  <2>3. QED
    BY <2>1, <2>2
<1>3. /\ Row \in DraftRow /\ Row.opening = draft[r].opening /\ Row.at = "ended"
      /\ Row.by = "agent" /\ ~RowGoesOn(Row) /\ ~RowAsked(Row) /\ ~RfcGoesOn(r)
  BY <1>1, DraftFacts DEF DraftRow, RowGoesOn, RowAsked, RfcGoesOn
<1>4. page # r /\ (~dialog.open => ~dialog.busy)
  BY <1>1 DEF DraftInv
<1> HIDE DEF Row
<1>5. PICK at \in ServerStages : /\ server' = [server EXCEPT ![r] = at]
                                 /\ EndsFit(Row, at, draftDoc[r])
                                 /\ page' = page \/ (page' = r /\ at = "ended")
  <2>1. EndsFit(draft[r], server[r], draftDoc[r])
    BY DraftFacts
  <2>2. CASE AgentFails(r)
    <3>1. EndsFit(Row, "failed", draftDoc[r])
      BY <1>1, <1>3, <2>1, <2>2 DEF AgentFails, EndsFit
    <3>2. QED
      BY <2>2, <3>1 DEF AgentFails, Serves, ServerStages
  <2>3. CASE AgentLost(r) \/ AgentAnswered(r)
    <3>1. EndsFit(Row, server[r], draftDoc[r])
      BY <1>1, <1>3, <2>1 DEF EndsFit
    <3>2. /\ server' = [server EXCEPT ![r] = server[r]]
          /\ page' = page \/ (page' = r /\ server[r] = "ended")
      BY <2>3, DraftFacts DEF AgentLost, AgentAnswered
    <3>3. QED
      BY <3>1, <3>2, DraftFacts
  <2>4. QED
    BY <2>2, <2>3
<1>6. BusyWithItsOwn'
  BY <1>1, <1>3, StaysBusy, DraftFacts DEF AgentFails, AgentLost, AgentAnswered
<1>7. QED
  BY <1>1, <1>2, <1>3, <1>4, <1>5, <1>6, RequestMoves, DraftFacts

LEMMA DraftStepInv == DraftInv /\ [DraftNext]_draftVars => DraftInv'
<1> SUFFICES ASSUME DraftInv, [DraftNext]_draftVars PROVE DraftInv'
  OBVIOUS
<1>1. CASE UNCHANGED draftVars
  BY <1>1 DEF draftVars, DraftInv, DraftTypeOK, BusyWithItsOwn, AgentAsked, RfcGoesOn, UnderWay
<1>2. CASE OpenDialog \/ CloseDialog
  BY <1>2, DialogInv
<1>3. ASSUME NEW r \in Drafts,
             \/ Generate(r) \/ RfcRefused(r) \/ PostRfc(r) \/ RfcGenerated(r) \/ SaveRfc(r)
             \/ TitleRfc(r) \/ ReadEnds(r) \/ ReadBreaks(r)
             \/ RunAgent(r) \/ PostAgent(r) \/ AgentGenerated(r) \/ CreateAgentDoc(r)
             \/ SaveAgentDoc(r) \/ AgentFails(r) \/ AgentLost(r) \/ AgentAnswered(r)
      PROVE  DraftInv'
  BY <1>3, GenerateInv, RfcEndsInv, PostRfcInv, ServerMoves, RunAgentInv, AgentEndsInv
<1>4. QED
  BY <1>1, <1>2, <1>3 DEF DraftNext

\* The property's own step: a title is set on a body.
TitledOnABody ==
    \A r \in Drafts : draftDoc'[r] = "titled" => draftDoc[r] \in {"body", "titled"}

LEMMA TitleAfterBody == DraftInv /\ [DraftNext]_draftVars => TitledOnABody
<1> SUFFICES ASSUME DraftInv, [DraftNext]_draftVars,
                    NEW r \in Drafts, draftDoc'[r] = "titled", draftDoc[r] # "titled"
             PROVE  draftDoc[r] = "body"
  BY DEF TitledOnABody
<1>1. draftDoc' # draftDoc
  OBVIOUS
<1>2. PICK q \in Drafts : PostRfc(q) \/ SaveRfc(q) \/ TitleRfc(q) \/ CreateAgentDoc(q)
                          \/ SaveAgentDoc(q)
  BY <1>1 DEF DraftNext, draftVars, OpenDialog, CloseDialog, Generate, RfcRefused,
     RfcGenerated, ReadEnds, ReadBreaks, RunAgent, PostAgent, AgentGenerated, AgentFails,
     AgentLost, AgentAnswered
<1>3. TitleRfc(q) /\ q = r
  BY <1>1, <1>2, DraftFacts DEF PostRfc, SaveRfc, TitleRfc, CreateAgentDoc, SaveAgentDoc
<1>4. QED
  BY <1>3, DraftFacts DEF TitleRfc, EndsFit

\* Through dialogs that are closed and opened again, answers that are lost and steps that
\* fail: a dialog is busy with its own request, a title is set on a body, and the user is
\* taken to a document of the agent mode that is whole (generate-rfc-dialog.tsx:39-47,
\* generate-rfc/route.ts:113-127, agent-mode/route.ts:89-126).
THEOREM DraftsAreAlwaysWhole == DraftSpec => DraftsAreWhole
<1>1. DraftInv => DraftTypeOK /\ BusyWithItsOwn /\ AgentDocIsWhole
  <2> SUFFICES ASSUME DraftInv, NEW r \in Drafts, draft[r].by = "agent"
               PROVE  /\ page = r => draftDoc[r] = "body"
                      /\ draftDoc[r] = "empty" => server[r] \in {"created", "failed"}
    BY DEF DraftInv, AgentDocIsWhole
  <2>1. page = r => server[r] = "ended"
    BY DEF DraftInv
  <2>2. QED
    BY <2>1, DraftFacts DEF EndsFit
<1>2. DraftSpec => [](DraftTypeOK /\ BusyWithItsOwn /\ AgentDocIsWhole)
  BY <1>1, DraftInitInv, DraftStepInv, PTL DEF DraftSpec
<1>3. DraftInv /\ [DraftNext]_draftVars => [TitledOnABody]_draftVars
  BY TitleAfterBody
<1>4. DraftSpec => [][TitledOnABody]_draftVars
  BY <1>3, DraftInitInv, DraftStepInv, PTL DEF DraftSpec
<1>5. QED
  BY <1>2, <1>4 DEF DraftsAreWhole, TitledHasBody, TitledOnABody
=============================================================================
