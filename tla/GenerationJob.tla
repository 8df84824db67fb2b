---------------------------- MODULE GenerationJob ----------------------------
(***************************************************************************)
(* One architecture generation job: its row, the queue that runs it        *)
(* (packages/jobs/src/generation-queue.ts, worker.ts), and the runs that   *)
(* turn the generated plan into documents and dependencies (apps/web/src/  *)
(* lib/generation, lib/actions/generation.ts, packages/core/src/generation *)
(* /job-state.ts).                                                         *)
(*                                                                         *)
(* A run keeps its own copy of the job's state, reduces events onto it and *)
(* writes the whole of it to the row after each.  Every write and every    *)
(* call of a document action is a step, and may fail; the process may die  *)
(* between any two.  Runs of one job overlap when it is resumed while it   *)
(* runs and there is no Redis to tell.                                     *)
(*                                                                         *)
(* What is abstracted.  A plan is the set of its references, whatever      *)
(* their order, titles and bodies, none empty; each run asks the model for *)
(* a plan of its own.  Error messages, the callback to the UI and the      *)
(* other kinds of job are left out.                                        *)
(***************************************************************************)
EXTENDS Naturals, Sequences

CONSTANTS
    Refs,           \* references of nodes
    Links,          \* the dependencies a plan asks for between two of its nodes
    Plans,          \* the plans the model may come up with
    Runners,        \* the runs that may go on at a time
    Attempts,       \* attempts BullMQ makes at a job
    MaxRuns,        \* bound: calls that start or resume the job
    MaxTroubles,    \* bound: failures and crashes
    None            \* no reference

ASSUME ConstantsAssumption ==
    /\ Links \subseteq Refs \X Refs
    /\ Plans \subseteq SUBSET Refs
    /\ Attempts \in Nat /\ MaxRuns \in Nat /\ MaxTroubles \in Nat
    /\ None \notin Refs

VARIABLES
    redis,          \* is there a queue?
    job,            \* the job in the queue: where it is, attempts made
    row,            \* GenerationJob: status and progress
    documents,      \* the documents made, in order: whose they are, are they written
    deps,           \* Dependency rows between documents
    run,            \* the runs
    asked,          \* calls that have seen a job to run, and are to enqueue it
    runs,           \* those calls so far
    troubles,       \* failures and crashes so far
    overlapped,     \* history: did two runs overlap?
    orphaned        \* history: did a run end, or give up, on a document not on record?

tables == <<documents, deps>>
calls == <<asked, runs>>
past == <<overlapped, orphaned>>
vars == <<redis, job, row, tables, run, calls, troubles, past>>

-----------------------------------------------------------------------------
(***************************************************************************)
(* The job's state, and the events reduced onto it (reduceJobState).       *)
(***************************************************************************)
Progress == [status : {"none", "pending", "done", "error"}, doc : Nat]
States == [docs : [Refs -> Progress],
           wanted : SUBSET Refs,            \* the plan totalDocs counts
           edges : SUBSET Links]

InitialState == [docs |-> [r \in Refs |-> [status |-> "none", doc |-> 0]],
                 wanted |-> {}, edges |-> {}]

\* Fault: a plan starts the job over.
PlanEventResets(s, plan) ==
    [InitialState EXCEPT
        !.docs = [r \in Refs |-> [status |-> IF r \in plan THEN "pending" ELSE "none",
                                  doc |-> 0]],
        !.wanted = plan]

\* The references that are new are pending, the others stay as they are.
PlanEvent(s, plan) ==
    [s EXCEPT
        !.docs = [r \in Refs |-> IF r \in plan /\ s.docs[r].status = "none"
                                 THEN [status |-> "pending", doc |-> 0]
                                 ELSE s.docs[r]],
        !.wanted = plan]

DocDone(s, r, d) ==
    IF s.docs[r].status = "done" THEN s
    ELSE [s EXCEPT !.docs[r] = [status |-> "done", doc |-> d]]

\* The id of a document made before the error stays.
DocError(s, r) == [s EXCEPT !.docs[r].status = "error"]

EdgeDone(s, e) == [s EXCEPT !.edges = @ \cup {e}]

\* Fault: a resumed run makes every document of its plan.
EveryRef(s, plan) == plan

\* The references a run has no document of.
Todo(s, plan) == {r \in plan : s.docs[r].doc = 0}

\* The edges whose ends are both made, and that are not.
EdgesLeft(s, plan) ==
    {e \in Links : /\ e[1] \in plan /\ e[2] \in plan /\ e \notin s.edges
                   /\ s.docs[e[1]].doc # 0 /\ s.docs[e[2]].doc # 0}

HadError(s) == \E r \in Refs : s.docs[r].status = "error"

-----------------------------------------------------------------------------
JobPlaces == {"none", "waiting", "active", "completed", "failed"}
RowStatuses == {"PENDING", "RUNNING", "COMPLETED", "FAILED"}
Stages == {"idle", "generate", "load", "started", "plan", "docs", "create", "save",
           "done", "error", "edges", "edged"}

Runs == [stage : Stages,
         queued : BOOLEAN,              \* taken from the queue, or run inline
         plan : SUBSET Refs,
         state : States,                \* its copy of the job's state
         todo : SUBSET Refs,            \* references still to be made
         ref : Refs \cup {None},        \* the one it is at
         doc : Nat,                     \* the document made for it
         edges : SUBSET Links]          \* edges still to be made

NoRun == [stage |-> "idle", queued |-> FALSE, plan |-> {}, state |-> InitialState,
          todo |-> {}, ref |-> None, doc |-> 0, edges |-> {}]

TypeOK ==
    /\ redis \in BOOLEAN
    /\ job \in [place : JobPlaces, attempts : 0 .. Attempts]
    /\ row \in [status : RowStatuses, progress : States]
    /\ documents \in Seq([ref : Refs, written : BOOLEAN])
    /\ deps \subseteq (1 .. Len(documents)) \X (1 .. Len(documents))
    /\ run \in [Runners -> Runs]
    /\ asked \in Nat /\ runs \in Nat /\ troubles \in Nat
    /\ overlapped \in BOOLEAN /\ orphaned \in BOOLEAN

Init ==
    /\ redis \in BOOLEAN
    /\ job = [place |-> "none", attempts |-> 0]
    /\ row = [status |-> "PENDING", progress |-> InitialState]
    /\ documents = <<>> /\ deps = {}
    /\ run = [i \in Runners |-> NoRun]
    /\ asked = 0 /\ runs = 0 /\ troubles = 0
    /\ overlapped = FALSE /\ orphaned = FALSE

-----------------------------------------------------------------------------
Persist(status, s) == row' = [status |-> status, progress |-> s]

Trouble == troubles < MaxTroubles /\ troubles' = troubles + 1

\* The document a run has made is not on record.
Unrecorded(i) ==
    run[i].doc # 0 /\ row.progress.docs[run[i].ref].doc # run[i].doc

\* The run goes on.
Goes(i, s) == run' = [run EXCEPT ![i] = s]

-----------------------------------------------------------------------------
(***************************************************************************)
(* Starting a run: startArchitectureGeneration, resumeArchitectureGenera-  *)
(* tion, enqueueGeneration, startGenerationWorker.                         *)
(***************************************************************************)

Begins(i, queued) ==
    /\ run[i].stage = "idle"
    /\ Goes(i, [NoRun EXCEPT !.stage = "generate", !.queued = queued])
    /\ overlapped' = (overlapped \/ \E k \in Runners : run[k].stage # "idle")
    /\ UNCHANGED orphaned

\* The job is new, or read and found not completed ...
Ask ==
    /\ row.status # "COMPLETED"
    /\ runs < MaxRuns /\ runs' = runs + 1
    /\ asked' = asked + 1
    /\ UNCHANGED <<redis, job, row, tables, run, troubles, past>>

Asked == asked > 0 /\ asked' = asked - 1 /\ UNCHANGED runs

\* ... and then enqueued, whatever it is by now.  BullMQ ignores an id it still
\* has, also one of a job that has ended and is retained.
Enqueue ==
    /\ redis
    /\ Asked
    /\ job' = IF job.place = "none" THEN [place |-> "waiting", attempts |-> 0] ELSE job
    /\ UNCHANGED <<redis, row, tables, run, troubles, past>>

\* Without Redis, or when it does not answer, the runner is called.
RunInline(i) ==
    /\ Asked
    /\ \/ ~redis /\ UNCHANGED troubles
       \/ redis /\ Trouble
    /\ Begins(i, FALSE)
    /\ UNCHANGED <<redis, job, row, tables>>

WorkerTakes(i) ==
    /\ job.place = "waiting"
    /\ job.attempts < Attempts
    /\ job' = [place |-> "active", attempts |-> job.attempts + 1]
    /\ Begins(i, TRUE)
    /\ UNCHANGED <<redis, row, tables, calls, troubles>>

\* An attempt that failed, or stalled, is made again if there is one left.
Retry == [job EXCEPT !.place = IF job.attempts < Attempts THEN "waiting" ELSE "failed"]

Returns(i) ==
    /\ Goes(i, NoRun)
    /\ job' = IF run[i].queued THEN [job EXCEPT !.place = "completed"] ELSE job

\* The run is left with an exception.
Throws(i) ==
    /\ Goes(i, NoRun)
    /\ job' = IF run[i].queued THEN Retry ELSE job
    /\ orphaned' = (orphaned \/ Unrecorded(i))
    /\ UNCHANGED overlapped

-----------------------------------------------------------------------------
(***************************************************************************)
(* A run: runGenerationJob and materializeArchitecture.                    *)
(***************************************************************************)

Generated(i) ==
    /\ run[i].stage = "generate"
    /\ \E p \in Plans : Goes(i, [run[i] EXCEPT !.stage = "load", !.plan = p])
    /\ UNCHANGED <<redis, job, row, tables, calls, troubles, past>>

\* No key, no project, or the model fails: the job is marked and the run returns.
GenerationFails(i) ==
    /\ run[i].stage = "generate"
    /\ Trouble
    /\ row' = [row EXCEPT !.status = "FAILED"]
    /\ Returns(i)
    /\ UNCHANGED <<redis, tables, calls, past>>

LoadJobState(i) ==
    /\ run[i].stage = "load"
    /\ Goes(i, [run[i] EXCEPT !.stage = "started", !.state = row.progress])
    /\ UNCHANGED <<redis, job, row, tables, calls, troubles, past>>

ApplyStarted(i) ==
    /\ run[i].stage = "started"
    /\ Persist("RUNNING", run[i].state)
    /\ Goes(i, [run[i] EXCEPT !.stage = "plan"])
    /\ UNCHANGED <<redis, job, tables, calls, troubles, past>>

ApplyPlan(i) ==
    /\ run[i].stage = "plan"
    /\ LET s == PlanEvent(run[i].state, run[i].plan) IN
       /\ Persist("RUNNING", s)
       /\ Goes(i, [run[i] EXCEPT !.stage = "docs", !.state = s,
                                 !.todo = Todo(s, run[i].plan)])
    /\ UNCHANGED <<redis, job, tables, calls, troubles, past>>

ApplyDocStarted(i) ==
    /\ run[i].stage = "docs"
    /\ Persist("RUNNING", run[i].state)
    /\ \E r \in run[i].todo :
          Goes(i, [run[i] EXCEPT !.stage = "create", !.ref = r, !.doc = 0,
                                 !.todo = @ \ {r}])
    /\ UNCHANGED <<redis, job, tables, calls, troubles, past>>

CreateDocument(i) ==
    /\ run[i].stage = "create"
    /\ documents' = Append(documents, [ref |-> run[i].ref, written |-> FALSE])
    /\ Goes(i, [run[i] EXCEPT !.stage = "save", !.doc = Len(documents) + 1])
    /\ UNCHANGED <<redis, job, row, deps, calls, troubles, past>>

SaveDocumentContent(i) ==
    /\ run[i].stage = "save"
    /\ documents' = [documents EXCEPT ![run[i].doc].written = TRUE]
    /\ Goes(i, [run[i] EXCEPT !.stage = "done"])
    /\ UNCHANGED <<redis, job, row, deps, calls, troubles, past>>

\* Either action fails; the document that was made, if it was, is forgotten.
DocumentFails(i) ==
    /\ run[i].stage \in {"create", "save"}
    /\ Trouble
    /\ Goes(i, [run[i] EXCEPT !.stage = "error", !.doc = 0])
    /\ orphaned' = (orphaned \/ run[i].doc # 0)
    /\ UNCHANGED <<redis, job, row, tables, calls, overlapped>>

ApplyDocDone(i) ==
    /\ run[i].stage = "done"
    /\ LET s == DocDone(run[i].state, run[i].ref, run[i].doc) IN
       /\ Persist("RUNNING", s)
       /\ Goes(i, [run[i] EXCEPT !.stage = "docs", !.state = s, !.ref = None, !.doc = 0])
    /\ UNCHANGED <<redis, job, tables, calls, troubles, past>>

\* The write is inside the try: the event is reduced, and then an error on top.
ApplyDocDoneFails(i) ==
    /\ run[i].stage = "done"
    /\ Trouble
    /\ Goes(i, [run[i] EXCEPT !.stage = "error",
                              !.state = DocDone(@, run[i].ref, run[i].doc)])
    /\ UNCHANGED <<redis, job, row, tables, calls, past>>

ApplyDocError(i) ==
    /\ run[i].stage = "error"
    /\ LET s == DocError(run[i].state, run[i].ref) IN
       /\ Persist("RUNNING", s)
       /\ Goes(i, [run[i] EXCEPT !.stage = "docs", !.state = s, !.ref = None, !.doc = 0])
    /\ UNCHANGED <<redis, job, tables, calls, troubles, past>>

BeginEdges(i) ==
    /\ run[i].stage = "docs"
    /\ run[i].todo = {}
    /\ Goes(i, [run[i] EXCEPT !.stage = "edges",
                              !.edges = EdgesLeft(run[i].state, run[i].plan)])
    /\ UNCHANGED <<redis, job, row, tables, calls, troubles, past>>

\* createDependency does nothing about an edge that exists; a failure is ignored.
\* The event is reduced with the step: only its write is another.
CreateDependency(i, e) ==
    /\ run[i].stage = "edges" /\ e \in run[i].edges
    /\ \/ /\ deps' = deps \cup {<<run[i].state.docs[e[1]].doc, run[i].state.docs[e[2]].doc>>}
          /\ Goes(i, [run[i] EXCEPT !.stage = "edged", !.edges = @ \ {e},
                                    !.state = EdgeDone(@, e)])
          /\ UNCHANGED troubles
       \/ /\ Trouble
          /\ Goes(i, [run[i] EXCEPT !.edges = @ \ {e}])
          /\ UNCHANGED deps
    /\ UNCHANGED <<redis, job, row, documents, calls, past>>

\* A failure of this write is ignored, too.
ApplyEdgeDone(i) ==
    /\ run[i].stage = "edged"
    /\ \/ Persist("RUNNING", run[i].state) /\ UNCHANGED troubles
       \/ Trouble /\ UNCHANGED row
    /\ Goes(i, [run[i] EXCEPT !.stage = "edges"])
    /\ UNCHANGED <<redis, job, tables, calls, past>>

Finish(i) ==
    /\ run[i].stage = "edges" /\ run[i].edges = {}
    /\ Persist(IF HadError(run[i].state) THEN "FAILED" ELSE "COMPLETED", run[i].state)
    /\ Returns(i)
    /\ UNCHANGED <<redis, tables, calls, troubles, past>>

\* A read or a write outside the try blocks fails.
PersistFails(i) ==
    /\ \/ run[i].stage \in {"load", "started", "plan", "error"}
       \/ run[i].stage = "docs" /\ run[i].todo # {}
       \/ run[i].stage = "edges" /\ run[i].edges = {}
    /\ Trouble
    /\ Throws(i)
    /\ UNCHANGED <<redis, row, tables, calls>>

\* The process dies with all its runs and calls; BullMQ finds the job stalled.
Crash ==
    /\ asked > 0 \/ \E i \in Runners : run[i].stage # "idle"
    /\ Trouble
    /\ run' = [i \in Runners |-> NoRun]
    /\ asked' = 0 /\ UNCHANGED runs
    /\ job' = IF job.place = "active" THEN Retry ELSE job
    /\ orphaned' = (orphaned \/ \E i \in Runners : Unrecorded(i))
    /\ UNCHANGED <<redis, row, tables, overlapped>>

-----------------------------------------------------------------------------
Materialize(i) ==
    \/ LoadJobState(i) \/ ApplyStarted(i) \/ ApplyPlan(i)
    \/ ApplyDocStarted(i) \/ CreateDocument(i) \/ SaveDocumentContent(i)
    \/ DocumentFails(i) \/ ApplyDocDone(i) \/ ApplyDocDoneFails(i) \/ ApplyDocError(i)
    \/ BeginEdges(i) \/ \E e \in Links : CreateDependency(i, e)
    \/ ApplyEdgeDone(i) \/ Finish(i) \/ PersistFails(i)

Next ==
    \/ Ask \/ Enqueue
    \/ Crash
    \/ \E i \in Runners :
          \/ RunInline(i) \/ WorkerTakes(i)
          \/ Generated(i) \/ GenerationFails(i)
          \/ Materialize(i)

Spec == Init /\ [][Next]_vars

-----------------------------------------------------------------------------
(***************************************************************************)
(* Properties.                                                             *)
(***************************************************************************)

\* What the job has on record exists: the document made for that reference, with
\* its content, whichever of several runs wrote the record last
\* (materialize.ts:115-136).
RecordedIsWritten ==
    \A r \in Refs : LET d == row.progress.docs[r].doc IN
        d # 0 => /\ d \in 1 .. Len(documents)
                 /\ documents[d] = [ref |-> r, written |-> TRUE]

\* An edge on record joins the documents on record: a resumed run that skips it
\* misses nothing (materialize.ts:139-156).
RecordedEdgesExist ==
    \A e \in row.progress.edges :
        <<row.progress.docs[e[1]].doc, row.progress.docs[e[2]].doc>> \in deps

\* A job is completed with every document of its last plan, also one that failed
\* before, and with no document in error (materialize.ts:158-163).
CompletedIsComplete ==
    row.status = "COMPLETED" =>
        /\ \A r \in row.progress.wanted : row.progress.docs[r].status = "done"
        /\ ~HadError(row.progress)

\* Runs that do not overlap never lose a document from the record, through any
\* number of failures, crashes, retries and new plans (job-state.ts:80-85).
RecordsStay ==
    [][\A r \in Refs :
          LET d == row.progress.docs[r].doc IN
          d # 0 /\ ~overlapped => row'.progress.docs[r].doc = d]_vars

Made(r) == {d \in 1 .. Len(documents) : documents[d].ref = r}

\* A reference gets a second document only where runs overlapped, or one gave up
\* on a document between making it and putting it on record.
DuplicatesNeedTrouble ==
    ~overlapped /\ ~orphaned => \A r \in Refs : \A d, e \in Made(r) : d = e

\* What is on record of a job against what its runs made.
RecordIsTrue ==
    /\ TypeOK
    /\ RecordedIsWritten
    /\ RecordedEdgesExist
    /\ CompletedIsComplete
    /\ DuplicatesNeedTrouble

(***************************************************************************)
(* What comments say and the code does not do.                             *)
(***************************************************************************)

\* "... so a refresh/disconnect/crash can resume without duplicating work"
\* (job-state.ts:4-6): a reference gets one document, whatever happens.
OneDocumentPerRef == \A r \in Refs : \A d, e \in Made(r) : d = e
=============================================================================
