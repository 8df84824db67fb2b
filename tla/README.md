# Forge Specs: verification project

TLA+ modules, TLC runs and TLAPS proofs about the Forge Specs repository: a
documentation workspace whose documents are edited together in real time, kept
in Postgres, reviewed, versioned, commented, searched, generated by AI jobs,
ingested from repositories and given out to coding agents.

Paths below are relative to `src/`; `collab/` stands for `apps/collab/src/`,
`lib/`, `features/` and `app/` for those of `apps/web/src/`, and `core/`, `ai/` and
`jobs/` for `packages/.../src/`.

## 1. Inventory of the system

| Part | State it keeps | Operations | Interacts with | What makes it correct |
|---|---|---|---|---|
| Collaboration room (`collab/room.ts`, `persistence.ts`) | Y.Doc, watermark, dirty count, idle timer, two flags; in Postgres `Document.yDocState` and the `YjsUpdate` log | load, persist an update, schedule and run a compaction, destroy | Postgres; embedding queue | a committed edit is never lost; a live room has all that is stored; folds are retried |
| Collaboration server (`collab/server.ts`, `auth.ts`, `index.ts`) | maps `rooms` and `loading`, the sockets of each room | connect, load, join, message, close, shutdown | rooms, RBAC, backplane | one room per document; nobody is attached to a dropped room |
| Sync protocol (`collab/protocol.ts`, `features/editor/collab/`) | documents at both ends, messages under way | initial sync, update, broadcast, reconnect | server, editor | nothing is left behind between the ends |
| Backplane (`collab/backplane.ts`) | Redis subscriptions, messages under way | add/remove room, publish, receive | other replicas, the store | replicas converge; one replica persists an edit |
| Document body (`lib/actions/documents.ts`, `templates.ts`, the fold, `ForgeEditor.tsx`) | `contentJSON`, `Block` rows, `yDocState` | save, restore, ingest, template, seed, fold | room, editor, search | three copies of one body agree |
| Document tree (`lib/actions/documents.ts`, `lib/query/use-documents.ts`) | rows, slugs, frontmatter, dependencies; a tab's cached list | create, copy a template, apply a template, ingest, rename, annotate, reorder, delete; optimistic mutations | every page | no key of the frontmatter is lost; documents created one after the other stay in order; a tab at rest is current |
| Governance (`lib/actions/documents.ts`, `reviews.ts`, `core/versioning/`) | status, `currentVersion`, versions, reviews | change status, review, snapshot, restore | activity log, notifications | nothing is approved that nobody approved; version numbers are dense |
| Suggestions, comments, anchors (`lib/actions/suggestions.ts`, `comments.ts`, `core/documents/`) | suggestion rows, threads, relative positions | propose, resolve, reply, delete, anchor | body, editor | a decision is final; a thread is whole; an anchor keeps to its words |
| Members and RBAC (`lib/actions/members.ts`, `core/rbac/`) | memberships and roles | change role, remove, admit a socket | every action | a workspace keeps an owner |
| Architecture generation (`core/generation/`, `lib/generation/`, `lib/actions/generation.ts`) | `GenerationJob` with plan and per-document state | plan, start, run, resume, cancel | BullMQ, Anthropic API, documents | what is recorded is written; one document per reference |
| Repository ingest (`lib/ingest/`, `lib/actions/ingest.ts`) | job, file rows, documents by source path | fetch, walk, upsert, deprecate, fail | git, AI, documents | documents are those of the repository |
| Pages of jobs (`features/generate/`, `features/ingest/`) | watched job, polls, session storage | start, poll, stop, resume, refresh | job rows | what is shown is of the watched job |
| Embeddings (`jobs/queues.ts`, `ai/embeddings/`) | queue, chunk rows with hashes | request, embed, replace | OpenAI API, Postgres | the index follows the text |
| Search (`app/api/search`, `core/search`, `lib/query/use-search.ts`) | cached answers per key | type, ask, fuse, hydrate | RBAC, index | the page shows the answer to its query, of readable documents |
| Rate limiter (`lib/ratelimit`, `core/ratelimit`) | token buckets in memory or Redis | consume, expire | Redis | no more than the budget; Retry-After is enough |
| Pull-request links (`app/api/webhooks/github`, `lib/actions/pr-links.ts`, `core/github`) | state per link | link, unlink, deliver | GitHub | the link shows the last state |
| Notifications (`core/notifications`, `app/api/notifications/stream`) | rows, stream cursors, the list | notify, mark, probe, refetch | actions | the list is current |
| Dependency graph, export, AI context (`core/graph`, `core/export`, `lib/data/export.ts`, `ai/context`) | none of their own; several queries each | walk, bundle, pack | documents | what is given out is whole and fits |
| Chat, refinement, drafting (`features/ai`, `features/generate`, `app/api/ai`) | conversation, cards, toolbar, dialogs | propose, accept, refine, suggest, draft | models, suggestions, documents | a proposal runs once; a text goes to its passage |
| Keyboard (`lib/keyboard`) | key buffer, timer, palette | stroke, expire, open, run | pages | keys reach the command they spell |
| Comparison of versions (`core/versioning/diff.ts`) | none | compare | history pages | shows both versions |
| ERD/OpenAPI schemas, template texts, prompts, authentication, database schema | - | - | - | - |

Three patterns make this code hard. In the collaboration server one Node process
interleaves sockets, timers and database answers at every `await`, the store gives
ids in one order and commits in another, and a crash leaves requests behind. The
Server Actions read outside the transaction that writes, so that two callers cross.
And the pages hold requests whose answers come after the user has moved on.

## 2. Modules

Core, each with runs of its own:

| Module | Models | Builds on |
|---|---|---|
| `CollabDocument` | abstract specification: what a client may rely on about the edits of a document (unsaved, durable, lost only with the process) | - |
| `CollabRoom` | `room.ts`, `persistence.ts` over the append log and the folded base | `INSTANCE CollabDocument WITH ...`: shown to implement it |
| `CollabServer` | `server.ts`: registry, loads in flight, sockets | `EXTENDS CollabRoom`: its steps conjoin a room's step with the registry's |
| `CollabSync` | `protocol.ts`, broadcasts, `use-collab-provider.ts`, the seeding of `ForgeEditor.tsx` | the store of CollabRoom as one variable |
| `DocumentGovernance` | status machine, approval gate, reviews, snapshots, restores | - |
| `GenerationJob` | job row, queue, overlapping runs, the documents and links they make | - |

Around them, one module per component:

| Module | Models |
|---|---|
| `DocumentBody` | the three copies of a body, for two documents, through every way one is written |
| `DocumentTree`, `TreeCache` | the documents of a project as actions change them; a tab's cached list of them |
| `CommentAnchors`, `Comments`, `Suggestions` | where a comment is attached; threads; suggested edits and their reviewers |
| `Backplane` | replicas of the collaboration server over Redis |
| `SearchIndex`, `SearchPage` | the embedding queue and pipeline; the page, its route and the fusion of two rankings |
| `DependencyGraph`, `AgentExport`, `ContextAssembly` | questions asked of the dependencies (pure); bundles for an agent; what a model is told |
| `ArchitecturePlan`, `VersionDiff` | a plan from what a model answered; the comparison of versions (pure, over all short inputs) |
| `JobWatch`, `KeyboardShortcuts` | the pages that start and watch jobs; key sequences and the palette |
| `Membership`, `Inbox`, `PullRequests`, `RateLimiter` | roles and the last owner; notifications and their stream; links and deliveries; token buckets |
| `RepoIngest` | runs of an import over a repository that changes |
| `AssistantChat`, `SelectionRefine`, `Drafting` | proposals and their cards; revising a selection; documents a model drafts |

| Module | Role |
|---|---|
| `CollabRoomProofs`, `CollabServerProofs`, `CollabSyncProofs` | theorems about the module they extend; `CollabServerProofs` also about Backplane |
| `WorkspaceProofs`, `ReviewProofs`, `GenerationProofs` | theorems about DocumentGovernance, Membership, PullRequests, RateLimiter, Inbox and KeyboardShortcuts; Comments, Suggestions, DocumentTree, DocumentBody and CommentAnchors; GenerationJob, AssistantChat, RepoIngest, SelectionRefine and Drafting |
| `GivenOutProofs` | theorems about DependencyGraph, AgentExport, ContextAssembly, VersionDiff and ArchitecturePlan |
| `PageProofs` | theorems about TreeCache, JobWatch, SearchIndex and SearchPage, and with these and `GivenOutProofs` of `MCWorkspace`, which it extends |
| `MCCollabServer`, `MCCollabSync`, `MCDocumentGovernance`, `MCGenerationJob`, `MCAgentExport` | model values for one component |
| `MCWorkspace`, `MCGovernance`, `MCGeneration` | several components in one run, see section 4 |

A definition introduced by "Fault:" is one plausible mistake of the code, stated
beside the definition it spoils. No specification uses it: put in place of that
definition it must break the property it is aimed at, which shows that the property
speaks of the code.

Each component states its type invariant and the named parts of what it promises, and
then one definition that conjoins them (`TreeHolds`, `ThreadsStayWhole`,
`BudgetHolds`, ...): that is what the runs check and the theorems state.

## 3. State and actions against the code

### CollabRoom

| Model | Code |
|---|---|
| `base` | `Document.yDocState` with the projection written in the same transaction |
| `log`, `nextId` | rows of `YjsUpdate`, its sequence |
| `phase[r]` | `Room.load` (two queries), `closed`, `destroy` |
| `doc`, `watermark`, `dirty`, `timer` | fields of `Room`; a document is the set of its updates |
| `insert[r][u]` | one `appendUpdate`: sent, numbered by the sequence, committed, answered |
| `fold[r][c]` | one `compact`, called by `runCompaction` ("run") or `destroy` ("final"), with the state and boundary captured when it was sent |
| `Edit`, `AppendAnswered` | `persistUpdate` before and after its `await`, with `scheduleCompaction` in the second part |
| `IdleTimerFires`, `RunAnswered`, `RunFails` | the timer callback, and `runCompaction` after its `await` |
| `Destroy`, `DestroyReturns` | `destroy` before and after its `await` |
| `Crash` | the process ends at any point (`index.ts`); requests it had sent may still be carried out |
| `contended` | history: a room was loaded, or a final fold sent, while another writer's request was still under way |

`contended` is not in the code. It separates two regimes: while it is FALSE the
room keeps all its promises; the code lets it become TRUE (a client that
reconnects while the room it left is being folded; a final fold that does not
wait for the running one), and then it does not. `OverlapOnlyFromTeardown`, in
CollabServer, says how it can become TRUE. Other modules use such history variables
in the same way (`overtook`, `crossed`, `gap`, `trouble`, `torn`, ...): each is set
at the step where two calls cross, and its property says what holds outside of that.

### CollabServer

`registry` and `loading` are the two maps, `socket[s]` a connection that is away,
waits for `getRoom`, or is in `room.conns`. A load that settles resumes all its
waiters before any other event: promise continuations with no I/O between them
are one step. `CloseUnheard` is a socket that closes before its close handler is
attached; it then becomes a member like the others (`server.ts:202-236`).

### CollabSync

`sdoc` and `cdoc[c]` are the documents at the two ends, `up[c]` and `down[c]` the
messages under way. A connection sends `SyncStep1` both ways; messages that
reach the server before the room is live are dropped, as the handler is attached
only then (`MessageUnheard`). The provider is outside the repository
(y-websocket, y-protocols, yjs): `ClientReceives`, `LocalUpdate`, `Integrated`
and the framing are modelled from how the code uses them.

### DocumentGovernance

A Server Action is a call in stages, one per query outside a transaction. A
transaction that begins by updating the document's row holds its lock and is one
step; `snapshotDocumentVersion` reads first and is two, and the unique index on
(document, version number) turns the later of two into a failure. `rev` is a
history variable: how many times the body has been written.

### GenerationJob

`row` is the job's row (status and progress), `run[i]` a run with its own copy of
the state, `job` the entry of the queue. Each `apply(event)` reduces the event
onto the copy and writes the whole of it: one step. `Ask` is the check of
`resumeArchitectureGeneration`, `Enqueue` and `RunInline` the two ways of
`enqueueGeneration`. BullMQ is modelled from its use: it ignores an id it still
retains, tries a job again once after an exception or a stall. The history
variables `overlapped` and `orphaned` say whether two runs overlapped, and
whether a run ended, or gave up, on a document that is on no record.

### The components around them

| Module | State | Steps |
|---|---|---|
| `DocumentBody` | `json`, `rows`, `ydoc` with its log, the editor `tab`, `snapshots`, `stash` in session storage | saves, templates and generated bodies write two copies; typing and the seed write the third; the fold projects it over the others; a restore passes through the session storage |
| `DocumentTree` | `doc`, `depends`, a caller's `treeCall` with what it has read | each action reads, then writes. Documents are made by `createDocument` (`ReadSlugs`, `ReadNewest`, `CreateRow`), `duplicateFromTemplate` (`ReadSlugs`, `CopyTemplate`), `applyTemplate` (`ReserveSlugs`, `InsertTemplate`: several at once, with edges) and the ingest (`FindIngested`, `UpsertIngested`, `CreateIngested`); the unique key refuses any of them (`RefuseRows`). Frontmatter is read, merged and written |
| `TreeCache` | `truth`, `cache`, mutations with their rollback, the `fetch` under way | `onMutate`, the call, `onError`, `onSettled` of each mutation, overlapping |
| `CommentAnchors` | the characters of a block in their common order, those erased, two positions | typing between any two characters, deleting, anchoring, resolving in a copy that knows less |
| `Suggestions`, `Comments` | rows; per reviewer or member the call he makes and what he has read | proposals, resolutions, the patch in the editor; threads, replies, resolutions, cascading deletions |
| `Backplane` | `database`, rooms, per replica its registry and subscriptions, Redis `commands` and the `channel` | join, subscribe, publish, deliver, lose, fold, destroy |
| `SearchIndex` | `text`, `indexRows`, `embedJob`, runs of the pipeline | save, request (coalesced by document), start, read, embed, drop and insert, fail |
| `SearchPage` | what is typed and settled, `answers` and `asked` per key | the stages of the route, answers in any order, ageing |
| `AgentExport`, `ContextAssembly` | the documents, and the export or assembly under way | one step per query, with changes of documents, roles and links in between |
| `JobWatch` | jobs, `kept` in session storage, the component with its effect, polls in flight | start, poll, answer, stop, resume, refresh |
| `KeyboardShortcuts` | the buffer, its timer, the palette, the place | stroke, expiry, navigation, opening and running |
| `Membership` | `role` per user and level; per user a `change` in stages | ask, find, count, commit, each a query of its own; admit and drop a socket |
| `Inbox` | notifications, the stream, its `probe` and cursor, the list | commit in any order, two queries of a tick, mark, refetch, reconnect |
| `PullRequests` | the pull request, deliveries, handlers with the links still to write | change, deliver, lose, repeat, link, unlink |
| `RateLimiter` | clocks, one bucket of one store, requests that have read a clock | the script, the fallback, expiry, restart |
| `RepoIngest` | the repository, file rows, documents by slug, runs | list, fetch, walk, summarise, upsert, deprecate or fail to, crash and repeat |
| `AssistantChat` | conversation parts, the cards' own state, actions under way | stream, propose, accept, dismiss, close and reopen the panel, navigate |
| `SelectionRefine` | the selection, the toolbar, the text so far, suggestions being made | select, run, stream, break off, suggest, lose an answer |
| `Drafting` | the dialog, requests at both ends, their documents | ask, stream, save step by step, fail, close and open |

`DependencyGraph`, `ArchitecturePlan` and `VersionDiff` are operators: the first is used
by the components above, the others are run over every input within their bounds and
compared with a reference definition, and proved to meet it for every input.

## 4. Runs

All runs set `CHECK_DEADLOCK FALSE`: the systems stop when clients have no more
edits or calls to make, which the bounds bring about.

| Run | Question | Bounds | Answer |
|---|---|---|---|
| `collab_safety` | Does a room lose a committed edit, or fail to have one, while writers do not overlap; do racing connections share a room, and do members always have a live one? | 2 sockets, 2 edits, 2 rooms, folds after 2 | all ten properties hold: the inductive invariant, the promises of room and server, and refinement of `CollabDocument` |
| `room_durability_claim` | Is a committed edit ever lost at all? | 1 socket, 2 edits, 1 room, folds after 1 | yes, see findings |
| `collab_liveness` | Do connections, edits and folds come to an end under fairness? | 2 sockets, 3 edits, 1 room, folds after 3 | yes |
| `sync_safety` | Is anything left behind between two ends, whatever is dropped; before a restart, does an editor that was heard miss anything, or hear himself? The inductive invariant of the proofs is checked too | 2 editors, 2 edits each, 3 connections, 1 restart | no |
| `sync_converge_claim`, `sync_seed_claim` | Do attached ends converge; is a document seeded once? | 2 editors, 1 edit, 2 connections | no, see findings |
| `workspace` | Do copies of bodies agree, anchors and the tree hold, replicas converge; is what is shown, found, given out and computed what there is? | below | yes |
| `governance` | Is history dense, the gate never passed, and do owners, decisions, threads, the inbox, links and budgets hold? | 2 architects, 2 bodies, 4 calls, 2 writes; below | yes |
| `governance_approval_claim` | Is what is approved what was reviewed? | 2 architects, 2 bodies | no, see findings |
| `generation` | Is what is on record written, linked, complete, kept; do imports, proposals, refinements and drafts hold? | 2 nodes, 1 link, 2 plans, 2 runs, 2 attempts, 2 calls, 2 troubles; below | yes |
| `generation_resume_claim` | Does a node get one document? | the same | no, see findings |
| `export_status_claim` | Does an export show the status of the document? | 2 documents, 2 changes | no, see findings |

### Scenes

`MCWorkspace`, `MCGovernance` and `MCGeneration` extend several components whose
variables are disjoint. The variable `scene`, chosen initially, says which of them
moves; the others stay as they start, with one value where they start with several.
A behaviour of the run is a behaviour of one component, so the run explores the sum of
their state spaces and not the product. Nothing is lost by this: no definition of one
refers to a variable of another. Of the initial states of a component the run takes all,
but for four: the index has its queue; an export reads all documents, two of them
named, with five links at least; the dependencies of a context hold a chain of three;
and two versions have five blocks together at most.
Components that do interact are in one specification: CollabServer with
CollabRoom, AgentExport with DependencyGraph.

### Why the bounds are enough to be of interest

Two rooms are a reload or a restart, and the smallest number at which writers
overlap; two edits are enough for ids and commits to differ in order and for one
edit to be captured by a fold and one not; `CompactAfter` is 2 in the safety run, so
that both the count and the timer start folds, and 3 in the liveness run, so that
the timer alone may. With two sockets one joins while the other leaves. In
CollabSync two edits of one editor can arrive out of order, three connections let
both editors connect and one come back, also after the restart. In
DocumentGovernance four calls are a review, a status change and two that race with
it. In GenerationJob two troubles are a failure and a failure of its retry.

Elsewhere two callers, reviewers, tabs, replicas, runs or requests are what a
crossing takes, and the counts are such that a third step comes after it:
`DocumentBody` has two documents (numbered block ids clash only between two) and two
writes; `DocumentTree` three documents and four calls, so that a gap in the slugs is
left and filled, and templates of up to two documents, which may want one slug; `TreeCache` two mutations at a time and four in all; `Backplane` two
replicas, a third room after a reload, one lost publication; `SearchIndex` two blocks
whose texts swap, two saves, two runs; `Membership` three users, two of them
owners, and three calls; `Comments` three rows, so that a root is deleted with a reply
while another is asked for; `RateLimiter` one replica whose clock is ahead by the skew, a bucket of
two requests, and time for it to expire; `RepoIngest` two files with one slug and one
of code, a push and a crash; `AgentExport` a web of four documents with cycles and
two ways to one of them, over three hops; `ContextAssembly` a budget that not all items
fit, and a ring of documents;
`ArchitecturePlan` all answers of up to three nodes, with doubled references, absent
parents and circles; `VersionDiff` all pairs of versions of up to three blocks, five together;
`KeyboardShortcuts` five keys, and a clock that passes the pause twice.
`SearchPage` takes the damping and limits of the code (60, 40, 60).

Every bound on a counter is a constant with a guard that uses it, called `Max...`; in
CollabRoom an edit is made once and a room is opened once, so that `Updates` and
`Rooms` are the bounds, and likewise for the edits of `Backplane` and the requests of
`Drafting`.

Symmetry is declared for sets whose members no definition tells apart, and never
in the run with liveness properties.

### What the properties say

Room and server:

* `LiveRoomHoldsStore`, a live room has all that is stored, so that its fold may
  overwrite the base. `FoldCoversTruncation`, a fold has captured what it will
  delete, although row ids and commits are not in the same order.
  `CleanRoomIsFolded`, a room whose counter says there is nothing to fold has nothing
  to fold, through failures and retries. `CommittedEditsSurvive` and
  `ImplementsDocument`, no step takes an edit out of the store.
* `OneRoomAtATime`, `MembersAreServed`, `OverlapOnlyFromTeardown`; under fairness
  `WaitingEnds`, `EditsReachStore`, `IdleRoomsFold`.
* `NothingLeftBehind`, what an attached editor has is at the server or under way to
  it, or the server's `SyncStep1`, whose answer will carry it, still is;
  `GreetedMissNothing`, before the server restarts an editor whose state vector was
  heard has, or will get, all of the server's document; `NoEcho`, no answer to a state
  vector, and before a restart no broadcast, brings somebody his own updates. What
  happens after a restart is in section 8.

Documents (`workspace`):

* `BodiesHoldTogether`: once the log is folded, editor, pages and search have one body,
  unless it was written past the Yjs state; the seed never replaces what is there; of
  numbered blocks there is one document at most, so nothing that was edited stands in
  another's way. `AnchorsHold`: an anchor covers the characters that were picked and
  are still there, and what was typed between them. `TreeHolds`: the
  frontmatter of a document has what every action wrote in it, unless that document was
  written over what nobody had read; a slug is refused only if it was taken after the
  call had looked, with no exception; and order follows creation as long as all is made
  by `createDocument`, two calls did not count one order, and nothing was reordered. It
  does not hold further, which section 8 takes up.
* `ReplicasConverge`: only the origin persists an edit; rooms that are served have one
  document when no message is on its way, unless an edit missed one.
* `ShownIsCurrent`, `FoundIsCurrent`, `GivenOutIsWhole`, `DerivedIsExact`: of a page,
  of search, of a bundle or context, of a pure computation; `KeysReachTheirCommand`.

Governance (`governance`):

* `HistoryHolds`: versions are 1 to the current one, each once, never running
  backwards. `NothingApprovedUnreviewed`.
* `OwnersRemain`: changes of roles leave an owner, unless a call writes over what has
  changed since it looked. `DecisionsStand`, `ThreadsStayWhole`, `InboxIsCurrent`,
  `LinksFollowPulls`, `BudgetHolds`.

Models and jobs (`generation`):

* `RecordIsTrue`: a document on record is written, an edge on record is there, a
  completed job has all of its last plan, a second document takes an overlap or an
  interruption. `RecordsStay`: what is on record stays through runs that do not
  overlap.
* `ImportHolds`: documents are what the last undisturbed run saw, what went away is
  deprecated unless that very call was refused or failed (the run goes on and is
  completed all the same, `runner.ts:404-408`), and nothing else is.
  `ProposalsRunOnce`, `RefinementsFit`, `DraftsAreWhole`.

## 5. Fairness

Only `FairServerSpec` has fairness. Weak: the store carries out the queries and
inserts it is sent, a settled promise resumes the function that awaits it, and an
armed timer fires; this is Node's event loop and a database that answers. Strong,
for the commit of a compaction and its answer: it may fail, but not every time
it is tried. Nothing obliges a client to edit, a socket to close, a load to
succeed rather than fail, or a process to die. The room's fairness is stated with
the server because its steps are steps of the server. The other modules state
safety: what they would promise to happen eventually depends on users, models and
services that the code does not oblige to answer, and those promises are stated for
states at rest instead (`TabAtRestIsCurrent`, `IndexIsCurrent`, `LinksFollow`).

## 6. What is proved

For every value of the constants under the named assumptions of their modules. Most say
that bounds are natural numbers and that a value that stands for "none" is none of the
values it is told apart from. The others: `CompactAfter` and `ChordTimeout` are positive;
roles are roles, and there is a body; there are finitely many users and at least one
founder; there is a replica; the links of a plan join references; the slug of a document
of a repository is that of one; a block has room for its first two characters; a bucket
holds one request at least, and clocks are ahead by at most `Skew`; the search limits
are short enough for the damping, which the run checks for 60, 40 and 60; a block of a
document has a number, and no phrase is the absence of one; no answer of a search is the absence of one;
and the documents of an export and of a context are finitely many, as the rows of a table are.

Each inductive invariant was given to TLC before it was proved: `collab_safety` and
`sync_safety` keep theirs, for the other modules the run has the property alone.

### CollabRoomProofs

`TypeCorrect`, `Invariance` (`Spec => []IInv`) and its consequences:
`LiveRoomHoldsStoreAlways`, `FoldCoversTruncationAlways`, `CleanRoomIsFoldedAlways`,
`CommittedEditsAlwaysSurvive`, and `RoomsImplementDocument`, the refinement of
`CollabDocument`.

None of these is inductive. That a fold covers what it deletes depends on what the room
held when it was sent, hence on `LiveRoomHoldsStore`; and this depends on nobody else
writing. `IInv` adds: ids are below the sequence (`IdsBelowNext`), so that a row
numbered after a fold was sent is beyond its boundary; requests are sent in order of a
room's phases (`PhasesInOrder`); and, while not `contended`, there is one writer, at
most one fold is in flight (`SingleWriter`), and what it read or sent is the present of
the store and of the document (`WriterIsCurrent`). Each action preserves each conjunct;
the lemmas are one per conjunct, with a case per action.

For `CleanRoomIsFolded` the invariant has that `dirtyCount` is honest (`CountIsHonest`):
where a room counts nothing, each append it was told of is folded, or captured by the
fold in flight. This takes that the fold carries the appends it took off the count
(`FoldCarriesCount`), that the watermark covers what was answered (`AppendsKnown`), and
that no two rows of a room have one id (`IdsApart`).

In the refinement `Edit` is `Edit`; the commits of a row and of a fold are `Save`; a step
that lets go of a document or a request (a crash, a failed insert, a room that closes)
is `Lose`, of the edits nobody else holds, or of none; and every step while `contended`
is `Overlap`, after which `CollabDocument` promises nothing of what is durable.

### CollabServerProofs

`ServerDrivesRooms` (`ServerSpec => Spec`): each step of the server is a step of
CollabRoom or leaves the rooms alone, so that every theorem about rooms is one about the
server (`ServerKeepsCommittedEdits`, `ServerImplementsDocument`). It needs
`ServerInvariance`: the registry holds the one live room, `loading` the one that is being
loaded or whose load was rejected, never both (`RegistryInOrder`), and sockets wait for
the latter or belong to the former (`SocketsInOrder`). `OneRoomAlways` and
`MembersAreAlwaysServed` follow. `OverlapsComeFromTeardown` goes through the steps that
can set `contended`: each of them has a room that is closing, closed or dead, with a
request under way, since there is one room in the two maps.

`ReplicasAlwaysConverge` proves `ReplicasConverge` of Backplane. The backplane lists the
live room of its replica or none, that room was not left, and a replica loads a room only
while it has none (`RegistryFits`, `ReadingIsLoading`, `LoadingIsReading`); an unsubscribe
on its way is for a room that was left (`CommandsFit`). Then, until an edit misses a room
(`gap`), every edit made is in the base or the log, a room that is being loaded has read
it or finds it in the log, and a live room has it or is listed while it is on its way to
the replica (`NothingMissed`). Stored rows are of edits made, under numbers already given
(`OnlyTyped`), which is why an edit is stored once.

### CollabSyncProofs

`SyncInvariance` and four consequences, one per property of `sync_safety`. A message is
a set of updates of its sender's document; updates are never taken out of an editor's
document (`SentFromDocs`, `AuthorsHaveTheirs`), and a state vector names all of its
sender's updates that anybody else knows (`VectorsNameOwn`), hence `NoEcho`'s answers.
`NothingLeftBehind` is proved of the updates set aside as well (`NothingHeldBack`): a
queue is first in, first out, and an editor asks once, before it sends anything else
(`AsksFirst`), so a dropped state vector is one whose answer is still to be asked for by
the server.

The hard part is `GreetedMissNothing`. A broadcast leaves out the socket an update came
from, but integrating it may integrate others that were set aside, which were announced
when they came. The editor misses one only if another editor fills a gap in what the
server has of him. Before a restart nobody can: before each update the server had and
lost there is one that only its author has (`AuthorsFillGaps`), because an author's
messages leave none behind that was lost (`AnswersAreWhole`). After a restart both are
false, and so is the property; see section 8.

### WorkspaceProofs

`TypeCorrect` of DocumentGovernance needs that a call that has read its row has a body in hand.
`HistoryIsSound` proves `HistoryHolds`. The argument is in
`CommitSnapshotIsCreateVersion`: the number a snapshot read is at most the current
one, and the history has all numbers up to that; if the next number is free, the
row has not moved on, and the body read is at least as young as every other
version's. `GateHolds` proves `NothingApprovedUnreviewed`: a call that is to
sanction the document has counted an approval or has read a sanctioned status,
and reviews are never withdrawn, so that it does not matter that the status is
stale when it is written.

`AnOwnerIsLeft` proves `OwnersRemain` of Membership. The invariant adds what a call
knows at each of its stages: one that counts is for an owner of the workspace, and one
that goes on from there has counted two at least. A write that finds the row and the
count as it had read them is then for one of two owners, or for somebody who is none
(`WriteLeavesOwner`); every other write sets `overtook`.

`LinksCatchUp` proves `LinksFollowPulls` of PullRequests. That the links are right at
rest says nothing of how they got there: the invariant follows the state of the pull
request on its way. While nothing went `astray`, the delivery about the present state is
under way or is the last that was received (`LastComesLast`), and each link that is older
than that state is still to be written by its handler, which knows it, or shows it
(`WillShow`); a handler writes only rows that are there (`RowsAreThere`).

`BudgetAlwaysHolds` proves `BudgetHolds` of RateLimiter. What is left in the bucket is at
most what the client has not used, and the key lapses only when what came in since it was
written would have filled it, up to the skew of the clocks (`BucketIsCovered`). The
account is closed (`disorder`) when times run back or a call is later than the headroom
allows; what a client that was refused was told holds in either case.

`InboxIsAlwaysCurrent` proves `InboxIsCurrent` of Inbox. The stream's cursor is two
numbers, the latest notification and the count of unread ones, and it stands for the
whole list: while nothing came late and the cursor was read in one piece, the same latest
one means that only marks were made since, and each takes one off the count, so the same
count means that none was made (`CursorKnows`). What a tick has read of it so far is
told apart from that (`ProbeKnows`). That the latest and the count exist, and how a step
changes them, is by the least counterexample (`LeastExists`, `GreatestExists`).

`KeysAlwaysReachTheirCommand` proves `KeysReachTheirCommand` of KeyboardShortcuts. Either
the buffer is empty, no timer is set, and what was typed before is over; or it has one
key, and the one timer there is was set when that key was typed (`BufferIsTimed`). No
shortcut has more than two keys (`ShortcutsAreShort`), so nothing else begins one.

### ReviewProofs

`EveryCommentIsShown` proves `ThreadsStayWhole`. Threads are two levels deep only as
long as replies are to roots, and a call is for a root that it found earlier: the
invariant says that this root, if it is still there, is still a root (identifiers are
not used again while a call knows them), and that the parent of a reply is a root. A
deletion takes the replies along, so none is left without its root; what was resolved
is a root, so no reply is marked.

`DecisionsAlwaysStand` proves `DecisionsStand` of Suggestions, three action properties.
What a call knows (`CallKnows`) carries them: one that passed the check had seen no
decision, so that what it writes over was written after; one that is answered has its
decision on record, so that a text that is applied was accepted by this call, whatever
the status says by now; and what it applies is the body the reviewer saw with one text
replaced. That it is one text takes that no two blocks of a body have one identifier.

`TheTreeAlwaysHolds` proves `TreeHolds` of DocumentTree, for templates of any size. The
invariant says what a call knows (`TreeCallKnows`): its slugs differ, and none of the
documents there were when it looked has one of them, which stays true because documents
keep their slugs and new ones get new numbers; the order it counted comes after all there
are, as long as none was made since; and what it read of a document has the order that
this has, as long as nothing was moved. That `UniqueSlug` finds a free slug is by
counting: it tries one number more than slugs are taken; for a template the slugs before
it count as taken (`ReservedAreFree`). So a call that is refused finds its slug on a
document of a later number, and frontmatter written over what still stands is what the
call wanted.

`BodiesAlwaysHoldTogether` proves `BodiesHoldTogether` of DocumentBody, two invariants
and an action property. `CopiesAgree` is nearly inductive: a fold writes what it read of
a document that has a Yjs state, and that it has one takes that a document that is not
there has none, that a room that counts has an editor, and that what is counted was
written (`BodyInv`). The seed looks at the document in the same step as it fills it. And
numbered blocks are never in the way of an edited document because the rows of one that
is folded say what the editor does (`CopiesAgree`), where all blocks are identified.

`AnchorsAlwaysHold` proves `AnchorsHold` of CommentAnchors. The anchor's ends are the
first and the last of what was selected, wherever they are by now (`AnchorFits`): a
character that comes between two moves those after it, and none past another
(`InsertedLine`, `InsertCharInv`). That there is an n-th character that is seen is by the
least place up to which there are n (`NthSeenFacts`). What the reader sees before a place
grows with the place (`SeenBeforeGrows`), so counting and comparing counts, as the code
does, is comparing places, also when the last character is one that was deleted.

### GenerationProofs

`RecordIsAlwaysTrue` proves `RecordIsTrue` and `RecordsAlwaysStay` proves `RecordsStay`
of GenerationJob. The tables a record speaks of only grow, so a copy of the record that
was sound when a run read it stays so (`Sound`), and everything a run writes over the row
is sound. What a run knows at each stage (`RunKnows`) gives the rest: which references
of its plan are still to do, that the document in its hands is written once it is to be
recorded, and that after the last of them nothing is pending, so that a job without an
error is complete. Until two runs overlap, one run at most is active (`OneRun`), and the
row names the documents that its copy names (`Keeps`), so no write loses one; and until
one is `orphaned` every document is on the row or in the hands of a run
(`NoneForgotten`), so none is made twice.

`EveryProposalRunsOnce` proves `ProposalsRunOnce`, an invariant and an action
property. The invariant (`CardKnows`) says how much a card knows of its action while
it is mounted, and that what was carried out or turned down has an answer in the
conversation, which is what a card that mounts anew goes by.

`ImportAlwaysHolds` proves `ImportHolds` of RepoIngest. Some of it holds of any run,
however many overlap (`RunFits`): what a run has not seen was removed at some time, so
whatever it deprecates did go away, and what it is to write has a row. The rest takes
that nothing disturbs a run (`RunKnowsFiles`): rows of files have the hashes it saw until
two runs cross, so a summary is written beside the hash of the text it is of; and of a
run that is alone, each document it has been through has the text and the source of the
last file of its slug so far (`ImportsSoFar`), since files are taken in the order of
their paths, and what is unseen is deprecated, still to be, or among those whose
deprecation did not succeed. Two runs at a time are
noted by both (`OneRunOrCrossed`), so whoever writes knows whether another may.

`RefinementsAlwaysFit` proves `RefinementsFit` of SelectionRefine. The text in the toolbar
is of the last run, and of the passage selected unless the selection has moved
(`PreviewFits`); what was suggested of a run is suggested by one call, and of a run whose
stream is not over nothing is (`ProposalsFit`). That a text is suggested once takes that
the toolbar knows of it: its button is disabled while a call is under way, and gone once
one was answered, until the next run.

`DraftsAreAlwaysWhole` proves `DraftsAreWhole` of Drafting. How far the client's end of a
request, the server's end and the document may be apart is `EndsFit`: a body was saved
before the server goes on to the title, and a request of the agent mode whose server is
done has a document with its body. While nothing overlaps one request of the dialog goes
on, so the dialog that was not closed meanwhile is its own.

### GivenOutProofs

The closure of a document is given by the paths that the recursive query walks, which meet
no document twice (`PathsArePaths`); what is promised of it, by what lies within so many
steps. The two agree because a path of `n` steps stays within `n` (`PathStaysWithin`), and
what lies within `n` steps and not fewer is at the end of a path each of whose documents is
one step further away, so that none comes twice (`LayersLead`, `LayeredIsPath`). So what a
closure reaches is what lies within its hops, and the least depth in it is the distance
(`ReachIsWithin`, `AtIsDistance`). That the recursive functions by which both are defined
exist is by the least number at which they would not (`BallExists`, `GrownExists`).

`ExportIsWhole`, of AgentExport. Closures of several roots are read at several moments.
The invariant follows the depths that are gathered: each one that is set is the distance
from some root whose closure has been read, in the dependencies that closure saw, and no
root that has been read is nearer (`DepthIsNearest`); what an answer has is what it was
asked for and those, in the order of their depths, without what was removed or hidden
before its rows were read (`AnswerIsWhole`).

`ContextIsWhole`, of ContextAssembly. Each leg adds items of its tier after those of the
legs before, and neighbours by their distance, so that the list that is packed is in order
whatever changed between the queries. Packing is a recursion over that list (`CourseExists`), and its invariant
(`PackedUpto`) is of the items it has been through: what is taken fits, and an item that
was left out did not fit after those that were taken and are no later (`DidNotFit`). Hence
`NeighboursByDistance`: a neighbour that is taken while a nearer one is left out costs less.

`DiffIsExact`, of VersionDiff. Every hunk has a slot: a removed block at place `i` twice
that, a block at place `j` of the later version one more than twice that, so that what was
removed stands before what is at its place now. Up to each block of the later version the
hunks are those of the blocks up to it, and their slots rise (`HunksAre`, `HunksGoOn`): so
none is there twice, and how two of them stand is how their places do (`RemovedInPlace`).
That each block of the earlier version is in one hunk rests on keys, which tell the blocks
of a version apart because an id is given once (`KeysTell`); the statistics are zero only
for the same ids and texts since places that map to themselves leave no room for another
block (`NothingTold`).

`PlanIsExact`, of ArchitecturePlan. What is visited is a line of nodes, each after its
parent, whose first one has no parent, or one that is out, or one in the line (`IsLine`,
`Stops`); it ends because no node is in it twice (`LineIsShort`). So a node that is in the
plan has no parent, or follows it, or begins a circle that follows it without a gap
(`Rooted`), and all this stays when nodes are added after it (`RootedStays`). Hence of the
documents that come before their parents each is above itself, through its circle, and no
other one is, since all others of the circle follow theirs (`ParentsComeFirst`).

### PageProofs

Each component has its theorem, and the run's specification the conjunctions that the run
checks: a step of `MCWorkspace` is one of a component or leaves its variables alone
(`WorkspaceMoves`), so `ShownStaysCurrent` proves `ShownIsCurrent`, `FoundStaysCurrent`
`FoundIsCurrent`, `GivenStaysWhole` `GivenOutIsWhole` and `DerivedStaysExact`
`DerivedIsExact`, from the invariants of two components each, those of the last two in
`GivenOutProofs`.

`TabsAtRestAreCurrent`, of TreeCache: an answer on its way has what the server has, but for
what others changed since it was read, or some mutation has been carried out that will have
the list fetched again (`AnswerIsTrue`). Nothing is said of what the tab shows while
mutations are under way, which is the point of a rollback to what one of them had seen.

`JobPageIsCurrent`, of JobWatch: that a late answer is not taken for one about another job
is by the number of the effect, whose cleanup cancels its polls, so polls that are heard
are of the effect that runs and of the job it watches.

`IndexIsCurrentAtRest`, of SearchIndex: while nothing has come in the way of the last save
(`Untroubled`), one run at most is under way and knows the text there is and the hashes
there are (`RunKnows`); and as the projection of the save took the block from every row,
no row stands in the way of one that is inserted, until the run has written. So the rows
are those whose hash is wanted and one per block that is new (`WrittenIsCurrent`). That a
run inserts rows with identifiers and slots of their own, whatever crosses it, is
`RowsStayApart`, over any number of blocks by way of a bijection (`FreshIds`).

`SearchShowsItsAnswer`, of SearchPage. What a request has read is of the documents it was
allowed, and in order (`AskIsSound`), and an answer is cached under the key it was asked
for; a key that the page shows has an answer, a request or a failure. The order takes the
fusion: scores are fractions, and "not above" goes from one to the next, by
cross-multiplying (`FractionsCompare`), so with the place at which a document was first
seen they order any two documents (`PrecedesIsOrder`); how many come before a document is
then a place of its own, and each place up to their number is taken (`FusedIsInOrder`).
`BothLegsOutrankOne` is the arithmetic: (2D + i + j)(D + r) > (D + i)(D + j) when
ij < D * D, so no place in one list makes up for being absent from the other; and i and j
are within the limits since a query returns no more than it was asked for
(`InsideIsInside`). Leaving out what has gone since keeps the order (`PickedIsAgreed`).

## 7. What is only model-checked

Liveness (`WaitingEnds`, `EditsReachStore`, `IdleRoomsFold`), which the prover does not
do. Every invariant and every action property of a run is stated by a theorem.

Induction over data is out of reach as a rule of the library, and where a recursion over a
list or a set is proved about (paths, packing, plans, hunks) it is by the least number at
which the claim would fail. The definitions are written for that: a plan's recursive visit
is a climb that is repeated as often as there are nodes, which changes nothing once it
stops, and what is above a document is in every set that has its parent and is closed
under parents.

## 8. Findings

Each is a run that TLC refutes, with the line it contradicts in `PROJECT.json`.

1. `room.ts:119`: `destroy` sends its final fold while a compaction is in flight.
   If the older transaction commits last, the base goes back to the older state
   after the newer one has deleted the rows: a committed edit is gone. The comment
   in `persistence.ts:11-12` says that none ever is.
2. `server.ts:218`: a client's `SyncStep1` that arrives while the room loads is
   dropped; the client is not sent the document until it reconnects, whereas
   `protocol.ts:47-49` has both sides converge.
3. `ForgeEditor.tsx:133`: two editors, each looking at its own copy, both seed the
   empty document, whereas the comment at 114-115 says only one does.
4. `documents.ts:299`: an edit after a review does not invalidate the approval,
   whereas `docs/guide/reviews-and-status.md:35` says it does.
5. `materialize.ts:115`: a crash, a failed save, or a second run makes a second
   document for one reference of a plan, whereas `job-state.ts:4-6` says a resume
   duplicates nothing.
6. `core/export/serialize.ts:294`: a `status` that a user wrote into the frontmatter
   wins over the row's in the Markdown, whereas the comment at 291-292 has the row
   authoritative. (The JSON and YAML envelope has both: the row's at its top level,
   line 278, and the stored one in its frontmatter.)

The models also show behaviour that no run is spent on:

* an editor can be left without an update that others see. A server that was restarted
  has lost an update and set aside one that follows it; another editor that hands the
  first one back makes it integrate both, and the broadcast leaves out the socket it came
  from (`server.ts:88`), whereas `protocol.ts:47-49` has "both sides" converge. Two
  editors, two edits each, four connections and one restart show it: `GreetedMissNothing`
  without its hypothesis. What is handed back is announced to its author too, so a
  broadcast then brings him his own update. Both came up as proofs that failed;
* a load that failed stays in `loading` and later connections are refused until a
  restart; a socket that closes while its room loads stays in `conns` for ever; a room
  that is full when its fold fails schedules no retry until its next edit;
* a fold of a replica that missed a message deletes rows it never applied;
* with Redis, a job that has failed cannot be resumed while BullMQ retains its id; a
  document whose `doc_done` could not be written is skipped and in error for ever;
  an embedding request made while a job of the document runs is ignored, and the save
  that made it is not indexed until the next;
* two owners who demote each other at once leave a workspace without one
  (`members.ts:39-51`, "lockout protection"), and two reviewers who cross write two
  decisions of one suggestion (`suggestions.ts:128`);
* `materialize-plan.ts:111` speaks of nodes in a circle as "treated as roots"; they come
  last and keep the reference to their parent;
* `comment-anchor.ts:202-203` has null for an anchor whose content was removed; while
  its block is there, it resolves to an empty range;
* `documents.ts:82` has new documents "append to the end of their type group", but
  `createDocument` counts on from the document created last, and that one has the order
  0 if it was ingested (line 710), 1 if it copies a template (374) and 0, 1, ... if an
  applied template made it (`templates.ts:90`): the next document then comes before
  older ones, with nothing reordered and nothing overlapping. Two documents, one of a
  template and another document, in turn, have the orders 1, 2, 0 and 1;
* an import deprecates the documents of files that went away with `doc.changeStatus`
  (`documents.ts:749`) while it is started with `doc.create` (`ingest.ts:43`): run inline
  by an engineer (`permissions.ts:70-79`) it deprecates none of them and is completed all
  the same. "Mark vanished docs DEPRECATED" (`runner.ts:47`) is so only where the call
  succeeds, and `ImportHolds` records where it did not (`spared`);
* two documents whose bodies have numbered block ids (a template, a generated body)
  cannot both be stored until one has been edited;
* a card of the assistant that is mounted anew while its action runs offers it again.

## 9. What is not modelled

The table of components in `PROJECT.json` names what each module leaves out. Whole
parts: ERD and OpenAPI schema documents and the texts of templates (pure functions and
constants of one input, with tests of their own), pages without state, authentication
(configuration of a library) and the database schema, whose constraints appear in the
modules that meet them. Within parts: awareness messages, editors that may only read,
and what Redis does when its connection is lost; the AI changelog, agent runs that a
mention starts beyond the queueing, module summaries of an import; invitations,
mentions and API keys; chunking of long blocks, ranking inside Postgres and the length
limit of hits; prompts, streams of words, and what is drawn. The palette's `when()` is
evaluated when a shortcut is registered, and "?" is matched without its shift: layout
of a keyboard is not modelled. A room's append that is rejected ends the process by an
unhandled rejection: the model has both events but does not tie them. Row locks and
isolation of Postgres are modelled by which transactions are one step, as said in each
module's header.
