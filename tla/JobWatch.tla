------------------------------ MODULE JobWatch ------------------------------
(***************************************************************************)
(* The tab that starts a long-running job and watches it: the architecture *)
(* wizard (apps/web/src/features/generate/generate-architecture-wizard.    *)
(* tsx) and the ingest flow (features/ingest/ingest-flow.tsx), which poll  *)
(* the job's row and keep its id in sessionStorage over a refresh, and the *)
(* actions they call (lib/actions/generation.ts, ingest.ts).               *)
(*                                                                         *)
(* What is abstracted.  The form and the progress bar; a job's progress is *)
(* its status, as GenerationJob and RepoIngest have the rest.  An effect   *)
(* is known by its number: its cleanup cancels the polls it has sent.      *)
(***************************************************************************)
EXTENDS Naturals, FiniteSets

CONSTANTS
    MaxJobs,        \* bound: jobs that are started
    MaxPolls,       \* bound: polls in flight
    MaxEffects      \* bound: times the polling effect runs

ASSUME WatchAssumption == MaxJobs \in Nat /\ MaxPolls \in Nat /\ MaxEffects \in Nat

JobIds == 1..MaxJobs
NoJob == 0

VARIABLES
    flow,           \* which of the two components it is
    jobs,           \* the server: the status of each job
    starting,       \* requests that start a job and wait for the route
    posts,          \* jobs that were started, the answer on its way
    kept,           \* sessionStorage
    watch,          \* the component: jobId, job, polling, and its effect
    polls,          \* polls in flight
    resumes,        \* resumeArchitectureGeneration under way
    doubled,        \* history: was a job started while another start was under way?
    revived         \* history: jobs resumed from this tab

watchVars == <<flow, jobs, starting, posts, kept, watch, polls, resumes, doubled, revived>>

-----------------------------------------------------------------------------
Final == {"completed", "failed"}
Status == {"none", "running"} \cup Final
NotWatching(effect) == [job |-> NoJob, of |-> NoJob, shown |-> "none", polling |-> FALSE,
                        stopped |-> FALSE, effect |-> effect]

WatchTypeOK ==
    /\ flow \in {"wizard", "ingest"} /\ starting \in 0..MaxJobs
    /\ jobs \in [JobIds -> Status] /\ posts \subseteq JobIds
    /\ (starting > 0 \/ posts # {}) /\ ~doubled => watch.job = NoJob
    /\ kept \in JobIds \cup {NoJob}
    /\ watch.job \in JobIds \cup {NoJob} /\ watch.of \in JobIds \cup {NoJob}
    /\ watch.shown \in Status /\ watch.effect \in 0..MaxEffects
    /\ watch.polling => watch.job # NoJob
    /\ \A p \in polls : p.effect <= watch.effect /\ jobs[p.job] # "none"
    /\ resumes \subseteq JobIds /\ revived \subseteq JobIds /\ doubled \in BOOLEAN

WatchInit ==
    /\ flow \in {"wizard", "ingest"}
    /\ jobs = [j \in JobIds |-> "none"] /\ starting = 0 /\ posts = {} /\ kept = NoJob
    /\ watch = NotWatching(0)
    /\ polls = {} /\ resumes = {} /\ doubled = FALSE /\ revived = {}

\* A change of jobId or polling ends an effect, which cancels its polls, and begins one.
Watching(w) ==
    /\ watch' = [w EXCEPT !.effect = IF <<w.job, w.polling>> = <<watch.job, watch.polling>>
                                     THEN @ ELSE @ + 1]
    /\ watch'.effect <= MaxEffects

-----------------------------------------------------------------------------
\* The forms are shown while no job is watched: the wizard's four steps, of which the
\* first has to be filled in, and the ingest flow's choice of a source.
WizardForm == flow = "wizard" /\ watch.job = NoJob
SourceForm == flow = "ingest" /\ watch.job = NoJob

\* The live views: the wizard's, with its buttons, and the ingest flow's.
Running == flow = "wizard" /\ watch.polling /\ watch.shown # "completed"
Paused == /\ flow = "wizard" /\ watch.job # NoJob
          /\ ~watch.polling /\ watch.shown # "completed"
Ended == flow = "wizard" /\ watch.job # NoJob /\ watch.shown = "completed"
Ingesting == flow = "ingest" /\ watch.job # NoJob

\* start: the button stays enabled until the answer is there.
Start ==
    /\ WizardForm \/ SourceForm
    /\ starting + Cardinality({j \in JobIds : jobs[j] # "none"}) < MaxJobs
    /\ starting' = starting + 1
    /\ doubled' = (doubled \/ starting > 0 \/ posts # {})
    /\ UNCHANGED <<flow, jobs, posts, kept, watch, polls, resumes, revived>>

\* POST /api/ai/generate-arch, /api/ingest: a job is made and its run begun.
PostStart(j) ==
    /\ starting > 0 /\ jobs[j] = "none" /\ \A i \in 1..(j - 1) : jobs[i] # "none"
    /\ starting' = starting - 1
    /\ jobs' = [jobs EXCEPT ![j] = "running"]
    /\ posts' = posts \cup {j}
    /\ UNCHANGED <<flow, kept, watch, polls, resumes, doubled, revived>>

\* Not signed in, over the limit, not allowed, no key, or an input that is wanting.
PostRefused ==
    /\ starting > 0
    /\ starting' = starting - 1
    /\ UNCHANGED <<flow, jobs, posts, kept, watch, polls, resumes, doubled, revived>>

StartAnswered(j) ==
    /\ j \in posts
    /\ posts' = posts \ {j}
    /\ kept' = j
    /\ Watching([watch EXCEPT !.job = j, !.polling = TRUE, !.stopped = FALSE])
    /\ UNCHANGED <<flow, jobs, starting, polls, resumes, doubled, revived>>

\* The request, or its answer, is lost; the job may run all the same.
StartFails(j) ==
    /\ j \in posts
    /\ posts' = posts \ {j}
    /\ UNCHANGED <<flow, jobs, starting, kept, watch, polls, resumes, doubled, revived>>

FinishJob(j) ==
    /\ jobs[j] = "running"
    /\ \E s \in Final : jobs' = [jobs EXCEPT ![j] = s]
    /\ UNCHANGED <<flow, starting, posts, kept, watch, polls, resumes, doubled, revived>>

\* A tick reads the row; ticks do not wait for one another.
Poll ==
    /\ watch.job # NoJob /\ watch.polling /\ Cardinality(polls) < MaxPolls
    /\ polls' = polls \cup
          {[effect |-> watch.effect, job |-> watch.job, says |-> jobs[watch.job]]}
    /\ UNCHANGED <<flow, jobs, starting, posts, kept, watch, resumes, doubled, revived>>

\* Fault: answers to polls of an earlier effect are taken.
HeardLate(p) == TRUE

\* cancelled is set by the cleanup of the effect that sent the poll.
Heard(p) == p.effect = watch.effect

\* A final status ends the polling and forgets the job; a poll that fails, or comes too
\* late, changes nothing.
PollAnswered(p) ==
    /\ p \in polls
    /\ polls' = polls \ {p}
    /\ IF ~Heard(p) THEN UNCHANGED <<kept, watch>>
       ELSE \/ UNCHANGED <<kept, watch>>
            \/ /\ Watching([watch EXCEPT !.of = p.job, !.shown = p.says,
                                         !.polling = @ /\ p.says \notin Final])
               /\ kept' = IF p.says \in Final THEN NoJob ELSE kept
    /\ UNCHANGED <<flow, jobs, starting, posts, resumes, doubled, revived>>

\* stop: the job goes on, and is looked at again on resume or after a refresh.
Stop ==
    /\ Running
    /\ Watching([watch EXCEPT !.polling = FALSE, !.stopped = TRUE])
    /\ UNCHANGED <<flow, jobs, starting, posts, kept, polls, resumes, doubled, revived>>

\* resume: polling begins before the job has been put on the queue again.
Resume ==
    /\ Paused
    /\ Watching([watch EXCEPT !.polling = TRUE, !.stopped = FALSE])
    /\ resumes' = resumes \cup {watch.job}
    /\ UNCHANGED <<flow, jobs, starting, posts, kept, polls, doubled, revived>>

ResumeArchitectureGeneration(j) ==
    /\ j \in resumes
    /\ resumes' = resumes \ {j}
    /\ IF jobs[j] = "failed"
       THEN /\ jobs' = [jobs EXCEPT ![j] = "running"] /\ revived' = revived \cup {j}
       ELSE UNCHANGED <<jobs, revived>>
    /\ UNCHANGED <<flow, starting, posts, kept, watch, polls, doubled>>

\* reset: back to the form.
Reset ==
    /\ Running \/ Paused \/ Ended \/ Ingesting
    /\ kept' = NoJob
    /\ Watching(NotWatching(watch.effect))
    /\ UNCHANGED <<flow, jobs, starting, posts, polls, resumes, doubled, revived>>

\* The page is loaded anew: what it had sent is answered to nobody, and the job is found
\* in sessionStorage.
Refresh ==
    /\ starting' = 0 /\ posts' = {} /\ polls' = {}
    /\ Watching([NotWatching(watch.effect) EXCEPT !.job = kept, !.polling = kept # NoJob])
    /\ UNCHANGED <<flow, jobs, kept, resumes, doubled, revived>>

WatchNext ==
    \/ Start \/ PostRefused \/ Poll \/ Stop \/ Resume \/ Reset \/ Refresh
    \/ \E j \in JobIds : \/ PostStart(j) \/ StartAnswered(j) \/ StartFails(j) \/ FinishJob(j)
                         \/ ResumeArchitectureGeneration(j)
    \/ \E p \in polls : PollAnswered(p)

WatchSpec == WatchInit /\ [][WatchNext]_watchVars

-----------------------------------------------------------------------------
(***************************************************************************)
(* Properties.                                                             *)
(***************************************************************************)

\* A status that is shown is one of the job that is watched, whatever polls of earlier
\* jobs are still to be answered, unless two jobs were started at once (generate-
\* architecture-wizard.tsx:101, ingest-flow.tsx:97).
ShownIsWatched ==
    (~doubled /\ watch.shown # "none") => watch.of = watch.job

\* A tab that has stopped polling, and was not told to, has seen how its job ended, or
\* how it ended before it was resumed.
QuietWhenOver ==
    (watch.job # NoJob /\ ~watch.polling /\ ~watch.stopped) =>
        /\ watch.shown \in Final
        /\ ~doubled /\ watch.job \notin revived => jobs[watch.job] = watch.shown

\* A refresh finds the running job that the tab watches, stopped or not, unless it was
\* resumed (generate-architecture-wizard.tsx:29-33).
RefreshFindsJob ==
    (~doubled /\ watch.job # NoJob /\ watch.job \notin revived /\ jobs[watch.job] = "running") =>
        kept = watch.job
=============================================================================
