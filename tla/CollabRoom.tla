----------------------------- MODULE CollabRoom -----------------------------
(***************************************************************************)
(* The collaboration server's Room (apps/collab/src/room.ts) over its      *)
(* Postgres store (apps/collab/src/persistence.ts), for one document.      *)
(*                                                                         *)
(* A room loads the document (base state, then the log of rows appended    *)
(* since), applies the edits its sockets send, appends every edit to the   *)
(* log and, after CompactAfter edits or when it has been idle, folds its   *)
(* document into the base and truncates the log.  When its last socket     *)
(* leaves, a final fold runs and the room is dropped.                      *)
(*                                                                         *)
(* What is abstracted.  A Yjs document is the set of the updates applied   *)
(* to it: applying is set union (commutative, idempotent), and             *)
(* encodeStateAsUpdate is the whole set.  The null watermark is 0, row ids *)
(* start at 1.  compact() writes yDocState and the read projection in one  *)
(* transaction, so base stands for both.                                   *)
(*                                                                         *)
(* Every await is a step boundary.  An INSERT is sent, is given its id by  *)
(* the sequence, commits, and is answered, in four steps: ids may commit   *)
(* out of order.  A fold's transaction is atomic, and its commit and its   *)
(* answer are two steps.  A process crash leaves the requests it had sent  *)
(* with the store, which may still carry them out.                         *)
(***************************************************************************)
EXTENDS Naturals

CONSTANTS
    Updates,        \* the edits clients make (Yjs updates)
    Rooms,          \* the Room objects that are ever created for the document
    CompactAfter    \* COLLAB_COMPACTION_UPDATE_COUNT

ASSUME CompactAfterAssumption == CompactAfter \in Nat \ {0}

VARIABLES
    base,       \* Document.yDocState: the updates folded so far
    log,        \* the YjsUpdate rows, [id, update]
    nextId,     \* the sequence behind YjsUpdate.id
    phase,      \* per room: how far its life has gone
    doc,        \* per room: the updates applied to room.doc
    watermark,  \* per room: highest row id known to be folded or persisted
    dirty,      \* per room: dirtyCount
    timer,      \* per room: is the idle timer armed?
    insert,     \* per room and update: the appendUpdate call
    fold,       \* per room and caller: the compact call
    contended   \* history: did two writers ever overlap on the store?

roomVars  == <<phase, doc, watermark, dirty, timer>>
storeVars == <<base, log, nextId>>
vars == <<storeVars, roomVars, insert, fold, contended>>

(***************************************************************************)
(* unborn -> opening (load called) -> base (yDocState read) -> live (log   *)
(* replayed) -> closing (destroy called) -> closed; dead after a crash or  *)
(* a load that threw.                                                      *)
(***************************************************************************)
Phases == {"unborn", "opening", "base", "live", "closing", "closed", "dead"}

InsertStages == {"none", "sent", "numbered", "committed", "answered"}
Inserts == [stage : InsertStages, id : Nat]

\* compact is called by runCompaction and by destroy.
Callers == {"run", "final"}
FoldStages == {"none", "sent", "committed"}
Folds == [stage : FoldStages, state : SUBSET Updates, boundary : Nat, pending : Nat]

NoInsert == [stage |-> "none", id |-> 0]
NoFold == [stage |-> "none", state |-> {}, boundary |-> 0, pending |-> 0]

TypeOK ==
    /\ base \in SUBSET Updates
    /\ log \in SUBSET [id : Nat, update : Updates]
    /\ nextId \in Nat
    /\ phase \in [Rooms -> Phases]
    /\ doc \in [Rooms -> SUBSET Updates]
    /\ watermark \in [Rooms -> Nat]
    /\ dirty \in [Rooms -> Nat]
    /\ timer \in [Rooms -> BOOLEAN]
    /\ insert \in [Rooms -> [Updates -> Inserts]]
    /\ fold \in [Rooms -> [Callers -> Folds]]
    /\ contended \in BOOLEAN

Init ==
    /\ base = {}
    /\ log = {}
    /\ nextId = 1
    /\ phase = [r \in Rooms |-> "unborn"]
    /\ doc = [r \in Rooms |-> {}]
    /\ watermark = [r \in Rooms |-> 0]
    /\ dirty = [r \in Rooms |-> 0]
    /\ timer = [r \in Rooms |-> FALSE]
    /\ insert = [r \in Rooms |-> [u \in Updates |-> NoInsert]]
    /\ fold = [r \in Rooms |-> [c \in Callers |-> NoFold]]
    /\ contended = FALSE

-----------------------------------------------------------------------------
\* What the next load would rebuild from the store.
Logged == {row.update : row \in log}
Stored == base \cup Logged

Alive(r) == phase[r] \notin {"unborn", "dead"}
Closed(r) == phase[r] \in {"closing", "closed"}
Compacting(r) == fold[r]["run"].stage # "none"

\* The store still holds a request of this room that it has not settled.
Unsettled(r) ==
    \/ \E u \in Updates : insert[r][u].stage \in {"sent", "numbered"}
    \/ \E c \in Callers : fold[r][c].stage = "sent"

\* The room is using the store: it has begun to read it or may yet write it.
Writer(r) == phase[r] \in {"base", "live"} \/ Unsettled(r)

-----------------------------------------------------------------------------
(***************************************************************************)
(* Loading.  loadDoc makes two queries outside any transaction.            *)
(***************************************************************************)
Open(r) ==
    /\ phase[r] = "unborn"
    /\ phase' = [phase EXCEPT ![r] = "opening"]
    /\ UNCHANGED <<storeVars, doc, watermark, dirty, timer, insert, fold, contended>>

ReadBase(r) ==
    /\ phase[r] = "opening"
    /\ phase' = [phase EXCEPT ![r] = "base"]
    /\ doc' = [doc EXCEPT ![r] = base]
    /\ contended' = (contended \/ \E q \in Rooms \ {r} : Writer(q))
    /\ UNCHANGED <<storeVars, watermark, dirty, timer, insert, fold>>

\* Fault: the replayed rows take the place of the base.
ReadLogReplacesBase(r) ==
    /\ phase[r] = "base"
    /\ phase' = [phase EXCEPT ![r] = "live"]
    /\ doc' = [doc EXCEPT ![r] = IF log = {} THEN @ ELSE Logged]
    /\ \E last \in {0} \cup {row.id : row \in log} :
           /\ \A row \in log : row.id <= last
           /\ watermark' = [watermark EXCEPT ![r] = last]
    /\ UNCHANGED <<storeVars, dirty, timer, insert, fold, contended>>

\* The log is replayed in id order; the watermark is the last id, if any.
ReadLog(r) ==
    /\ phase[r] = "base"
    /\ phase' = [phase EXCEPT ![r] = "live"]
    /\ doc' = [doc EXCEPT ![r] = @ \cup Logged]
    /\ \E last \in {0} \cup {row.id : row \in log} :
           /\ \A row \in log : row.id <= last
           /\ watermark' = [watermark EXCEPT ![r] = last]
    /\ UNCHANGED <<storeVars, dirty, timer, insert, fold, contended>>

LoadFails(r) ==
    /\ phase[r] \in {"opening", "base"}
    /\ phase' = [phase EXCEPT ![r] = "dead"]
    /\ doc' = [doc EXCEPT ![r] = {}]
    /\ UNCHANGED <<storeVars, watermark, dirty, timer, insert, fold, contended>>

-----------------------------------------------------------------------------
(***************************************************************************)
(* Editing.  A socket's update is applied to the document, which fires the *)
(* observer that calls persistUpdate: the INSERT is sent in the same turn. *)
(***************************************************************************)
Edit(r, u) ==
    /\ phase[r] = "live"
    /\ u \notin doc[r]
    /\ doc' = [doc EXCEPT ![r] = @ \cup {u}]
    /\ insert' = [insert EXCEPT ![r][u] = [stage |-> "sent", id |-> 0]]
    /\ UNCHANGED <<storeVars, phase, watermark, dirty, timer, fold, contended>>

\* The store takes the row's id from the sequence ...
NumberRow(r, u) ==
    /\ insert[r][u].stage = "sent"
    /\ insert' = [insert EXCEPT ![r][u] = [stage |-> "numbered", id |-> nextId]]
    /\ nextId' = nextId + 1
    /\ UNCHANGED <<base, log, roomVars, fold, contended>>

\* Fault: closing the room cancels its unfinished appends.
CommitRowOfLiveRoom(r, u) ==
    /\ phase[r] = "live"
    /\ insert[r][u].stage = "numbered"
    /\ log' = log \cup {[id |-> insert[r][u].id, update |-> u]}
    /\ insert' = [insert EXCEPT ![r][u].stage = "committed"]
    /\ UNCHANGED <<base, nextId, roomVars, fold, contended>>

\* ... and commits the INSERT, perhaps after rows with a higher id.
CommitRow(r, u) ==
    /\ insert[r][u].stage = "numbered"
    /\ log' = log \cup {[id |-> insert[r][u].id, update |-> u]}
    /\ insert' = [insert EXCEPT ![r][u].stage = "committed"]
    /\ UNCHANGED <<base, nextId, roomVars, fold, contended>>

-----------------------------------------------------------------------------
(***************************************************************************)
(* Compaction.                                                             *)
(***************************************************************************)

\* Fault: rows up to the one after the watermark are truncated.
CompactOneTooMany(r, caller, boundary, pending) ==
    fold' = [fold EXCEPT ![r][caller] =
                [stage |-> "sent", state |-> doc[r],
                 boundary |-> boundary + 1, pending |-> pending]]

\* compact: the document is encoded before the first await.
Compact(r, caller, boundary, pending) ==
    fold' = [fold EXCEPT ![r][caller] =
                [stage |-> "sent", state |-> doc[r],
                 boundary |-> boundary, pending |-> pending]]

\* runCompaction, called with watermark w and dirtyCount d.
RunCompaction(r, w, d) ==
    \/ /\ Compacting(r) \/ d = 0
       /\ dirty' = [dirty EXCEPT ![r] = d]
       /\ UNCHANGED fold
    \/ /\ ~Compacting(r) /\ d > 0
       /\ dirty' = [dirty EXCEPT ![r] = 0]
       /\ Compact(r, "run", w, d)

\* Fault: a closed room still arms its timer.
ScheduleWhenClosed(r, w, d) ==
    \/ /\ d >= CompactAfter
       /\ timer' = [timer EXCEPT ![r] = FALSE]
       /\ RunCompaction(r, w, d)
    \/ /\ d < CompactAfter
       /\ timer' = [timer EXCEPT ![r] = TRUE]
       /\ dirty' = [dirty EXCEPT ![r] = d]
       /\ UNCHANGED fold

\* scheduleCompaction, called with watermark w and dirtyCount d.
ScheduleCompaction(r, w, d) ==
    \/ /\ Closed(r)
       /\ dirty' = [dirty EXCEPT ![r] = d]
       /\ UNCHANGED <<timer, fold>>
    \/ /\ ~Closed(r) /\ d >= CompactAfter
       /\ timer' = [timer EXCEPT ![r] = FALSE]
       /\ RunCompaction(r, w, d)
    \/ /\ ~Closed(r) /\ d < CompactAfter
       /\ timer' = [timer EXCEPT ![r] = TRUE]
       /\ dirty' = [dirty EXCEPT ![r] = d]
       /\ UNCHANGED fold

\* persistUpdate resumes with the id of its row.
AppendAnswered(r, u) ==
    /\ Alive(r)
    /\ insert[r][u].stage = "committed"
    /\ insert' = [insert EXCEPT ![r][u].stage = "answered"]
    /\ LET id == insert[r][u].id
           w  == IF id > watermark[r] THEN id ELSE watermark[r]
       IN  /\ watermark' = [watermark EXCEPT ![r] = w]
           /\ ScheduleCompaction(r, w, dirty[r] + 1)
    /\ UNCHANGED <<storeVars, phase, doc, contended>>

IdleTimerFires(r) ==
    /\ timer[r]
    /\ timer' = [timer EXCEPT ![r] = FALSE]
    /\ RunCompaction(r, watermark[r], dirty[r])
    /\ UNCHANGED <<storeVars, phase, doc, watermark, insert, contended>>

\* Faults: the whole log of the document is truncated; the log is truncated
\* though the base was not written.
CommitFoldTruncatesAll(r, c) ==
    /\ fold[r][c].stage = "sent"
    /\ base' = fold[r][c].state
    /\ log' = {}
    /\ fold' = [fold EXCEPT ![r][c].stage = "committed"]
    /\ UNCHANGED <<nextId, roomVars, insert, contended>>

CommitFoldKeepsBase(r, c) ==
    /\ fold[r][c].stage = "sent"
    /\ log' = {row \in log : row.id > fold[r][c].boundary}
    /\ fold' = [fold EXCEPT ![r][c].stage = "committed"]
    /\ UNCHANGED <<base, nextId, roomVars, insert, contended>>

\* The transaction of compact: overwrite the base, truncate the log.
CommitFold(r, c) ==
    /\ fold[r][c].stage = "sent"
    /\ base' = fold[r][c].state
    /\ log' = {row \in log : row.id > fold[r][c].boundary}
    /\ fold' = [fold EXCEPT ![r][c].stage = "committed"]
    /\ UNCHANGED <<nextId, roomVars, insert, contended>>

RunAnswered(r) ==
    /\ Alive(r)
    /\ fold[r]["run"].stage = "committed"
    /\ fold' = [fold EXCEPT ![r]["run"] = NoFold]
    /\ UNCHANGED <<storeVars, roomVars, insert, contended>>

\* Faults: a failed fold subtracts the count it should restore; it restores
\* nothing; it restores the count but schedules no retry.
RunFailsSubtracts(r) ==
    /\ Alive(r)
    /\ Compacting(r)
    /\ dirty' = [dirty EXCEPT ![r] = @ - fold[r]["run"].pending]
    /\ fold' = [fold EXCEPT ![r]["run"] = NoFold]
    /\ UNCHANGED <<storeVars, phase, doc, watermark, timer, insert, contended>>

RunFailsForgets(r) ==
    /\ Alive(r)
    /\ Compacting(r)
    /\ fold' = [fold EXCEPT ![r]["run"] = NoFold]
    /\ UNCHANGED <<storeVars, roomVars, insert, contended>>

RunFailsSilently(r) ==
    /\ Alive(r)
    /\ Compacting(r)
    /\ dirty' = [dirty EXCEPT ![r] = @ + fold[r]["run"].pending]
    /\ timer' = [timer EXCEPT ![r] = FALSE]
    /\ fold' = [fold EXCEPT ![r]["run"] = NoFold]
    /\ UNCHANGED <<storeVars, phase, doc, watermark, insert, contended>>

\* The transaction was rolled back, or its answer was lost.  compacting is
\* still true when the handler calls scheduleCompaction, so that a full room
\* clears its timer and its nested runCompaction returns at once.
RunFails(r) ==
    /\ Alive(r)
    /\ Compacting(r)
    /\ LET d == dirty[r] + fold[r]["run"].pending
       IN  /\ dirty' = [dirty EXCEPT ![r] = d]
           /\ timer' = [timer EXCEPT ![r] = ~Closed(r) /\ d < CompactAfter]
    /\ fold' = [fold EXCEPT ![r]["run"] = NoFold]
    /\ UNCHANGED <<storeVars, phase, doc, watermark, insert, contended>>

-----------------------------------------------------------------------------
(***************************************************************************)
(* Teardown and crashes.                                                   *)
(***************************************************************************)

\* destroy, up to its await: the final fold does not wait for a running one.
Destroy(r) ==
    /\ phase[r] = "live"
    /\ timer' = [timer EXCEPT ![r] = FALSE]
    /\ \/ /\ dirty[r] = 0
          /\ phase' = [phase EXCEPT ![r] = "closed"]
          /\ UNCHANGED <<fold, contended>>
       \/ /\ dirty[r] > 0
          /\ phase' = [phase EXCEPT ![r] = "closing"]
          /\ Compact(r, "final", watermark[r], 0)
          /\ contended' = (contended \/ fold[r]["run"].stage = "sent")
    /\ UNCHANGED <<storeVars, doc, watermark, dirty, insert>>

\* The final fold has been answered, or has failed and is only logged.
DestroyReturns(r) ==
    /\ phase[r] = "closing"
    /\ phase' = [phase EXCEPT ![r] = "closed"]
    /\ fold' = [fold EXCEPT ![r]["final"] = NoFold]
    /\ UNCHANGED <<storeVars, doc, watermark, dirty, timer, insert, contended>>

\* The process dies: killed, or because an append was rejected (persistUpdate
\* is called with void, and an unhandled rejection ends the process).
Crash ==
    /\ \E r \in Rooms : Alive(r)
    /\ phase' = [r \in Rooms |-> IF Alive(r) THEN "dead" ELSE phase[r]]
    /\ doc' = [r \in Rooms |-> {}]
    /\ watermark' = [r \in Rooms |-> 0]
    /\ dirty' = [r \in Rooms |-> 0]
    /\ timer' = [r \in Rooms |-> FALSE]
    /\ UNCHANGED <<storeVars, insert, fold, contended>>

\* The store gives up a request whose client is gone.
DropInsert(r, u) ==
    /\ phase[r] = "dead"
    /\ insert[r][u].stage \in {"sent", "numbered"}
    /\ insert' = [insert EXCEPT ![r][u] = NoInsert]
    /\ UNCHANGED <<storeVars, roomVars, fold, contended>>

DropFold(r, c) ==
    /\ phase[r] = "dead"
    /\ fold[r][c].stage = "sent"
    /\ fold' = [fold EXCEPT ![r][c] = NoFold]
    /\ UNCHANGED <<storeVars, roomVars, insert, contended>>

-----------------------------------------------------------------------------
RoomStep(r) ==
    \/ Open(r) \/ ReadBase(r) \/ ReadLog(r) \/ LoadFails(r)
    \/ \E u \in Updates : Edit(r, u) \/ AppendAnswered(r, u)
    \/ IdleTimerFires(r) \/ RunAnswered(r) \/ RunFails(r)
    \/ Destroy(r) \/ DestroyReturns(r)

StoreStep(r) ==
    \/ \E u \in Updates : NumberRow(r, u) \/ CommitRow(r, u) \/ DropInsert(r, u)
    \/ \E c \in Callers : CommitFold(r, c) \/ DropFold(r, c)

Next == Crash \/ \E r \in Rooms : RoomStep(r) \/ StoreStep(r)

Spec == Init /\ [][Next]_vars

-----------------------------------------------------------------------------
(***************************************************************************)
(* Safety.                                                                 *)
(***************************************************************************)

\* As long as writers have not overlapped on the store, what a load would
\* rebuild never loses an edit: no fold, crash or late answer removes one
\* (persistence.ts:11-12).
CommittedEditsSurvive == [][~contended' => Stored \subseteq Stored']_vars

\* A live room never lags behind its store: it has replayed all that was
\* committed before it went live, and everything committed since came from it.
LiveRoomHoldsStore ==
    ~contended => \A r \in Rooms : phase[r] = "live" => Stored \subseteq doc[r]

\* The rows a fold in flight will delete, and the base it will overwrite, are in
\* the state it captured, also the rows below its boundary still to commit
\* (persistence.ts:104-106).
FoldCoversTruncation ==
    ~contended =>
        \A r \in Rooms, c \in Callers : fold[r][c].stage = "sent" =>
            /\ base \subseteq fold[r][c].state
            /\ \A row \in log :
                   row.id <= fold[r][c].boundary => row.update \in fold[r][c].state
            /\ \A q \in Rooms, u \in Updates :
                   /\ insert[q][u].stage = "numbered"
                   /\ insert[q][u].id <= fold[r][c].boundary
                   => u \in fold[r][c].state

\* dirtyCount loses no append across folds that overlap appends, fail, or lose
\* their answer: a room that counts nothing has every row it appended folded.
CleanRoomIsFolded ==
    ~contended =>
        \A r \in Rooms : (phase[r] = "live" /\ dirty[r] = 0 /\ ~Compacting(r)) =>
            \A u \in Updates : insert[r][u].stage = "answered" =>
                /\ u \in base
                /\ insert[r][u].id \notin {row.id : row \in log}

-----------------------------------------------------------------------------
(***************************************************************************)
(* The inductive invariant behind the safety properties.                   *)
(***************************************************************************)

\* Every id the store gave out, and every copy of one, is below the sequence.
IdsBelowNext ==
    /\ \A row \in log : row.id < nextId
    /\ \A r \in Rooms :
           /\ watermark[r] < nextId
           /\ \A u \in Updates : insert[r][u].id < nextId
           /\ \A c \in Callers : fold[r][c].boundary < nextId

\* A room sends nothing before it is live and its final fold after; only a
\* live room has a timer.
PhasesInOrder ==
    \A r \in Rooms :
        /\ phase[r] \in {"unborn", "opening", "base"} =>
               /\ \A u \in Updates : insert[r][u].stage = "none"
               /\ fold[r]["run"].stage = "none"
        /\ phase[r] \in {"unborn", "opening", "base", "live"} =>
               fold[r]["final"].stage = "none"
        /\ timer[r] => phase[r] = "live"

SingleWriter ==
    /\ \A q, r \in Rooms : Writer(q) /\ Writer(r) => q = r
    /\ \A r \in Rooms :
           ~(fold[r]["run"].stage = "sent" /\ fold[r]["final"].stage = "sent")

\* What a writer has read or sent is the store's present and the document's.
WriterIsCurrent ==
    \A r \in Rooms :
        /\ phase[r] = "base" => doc[r] = base
        /\ phase[r] = "live" =>
               /\ \A u \in Updates :
                      insert[r][u].stage \in {"sent", "numbered"} => u \in doc[r]
               /\ \A c \in Callers :
                      fold[r][c].stage = "sent" => fold[r][c].state \subseteq doc[r]

\* No two rows of a room have one id.
IdsApart ==
    \A r \in Rooms : \A u, v \in Updates :
        /\ u # v
        /\ insert[r][u].stage \notin {"none", "sent"}
        /\ insert[r][v].stage \notin {"none", "sent"}
        => insert[r][u].id # insert[r][v].id

\* A live room has every edit it appended, and its watermark covers those that
\* were answered.
AppendsKnown ==
    \A r \in Rooms : phase[r] = "live" => \A u \in Updates :
        /\ insert[r][u].stage # "none" => u \in doc[r]
        /\ insert[r][u].stage = "answered" => insert[r][u].id <= watermark[r]

\* A fold in flight carries the appends it took off dirtyCount.
FoldCarriesCount ==
    \A r \in Rooms : Compacting(r) => fold[r]["run"].pending > 0

\* The row of u is in the base and out of the log; the fold in flight will do that.
Folded(r, u) == u \in base /\ insert[r][u].id \notin {row.id : row \in log}
Captured(r, u) ==
    u \in fold[r]["run"].state /\ insert[r][u].id <= fold[r]["run"].boundary

\* A room that counts nothing has nothing left to fold but what is in flight.
CountIsHonest ==
    ~contended =>
        \A r \in Rooms, u \in Updates :
            /\ phase[r] = "live" /\ dirty[r] = 0
            /\ insert[r][u].stage = "answered"
            => IF fold[r]["run"].stage = "sent" THEN Captured(r, u) ELSE Folded(r, u)

\* What a fold that has committed captured stays stored.
FoldsKept ==
    \A r \in Rooms, c \in Callers :
        /\ fold[r][c].stage = "none" => fold[r][c].state = {}
        /\ ~contended /\ fold[r][c].stage = "committed" => fold[r][c].state \subseteq Stored

IInv ==
    /\ TypeOK
    /\ IdsBelowNext
    /\ PhasesInOrder
    /\ ~contended => SingleWriter /\ WriterIsCurrent
    /\ LiveRoomHoldsStore
    /\ FoldCoversTruncation
    /\ IdsApart
    /\ AppendsKnown
    /\ FoldCarriesCount
    /\ CountIsHonest
    /\ FoldsKept

-----------------------------------------------------------------------------
(***************************************************************************)
(* Liveness.                                                               *)
(***************************************************************************)

\* An edit that a room has applied reaches the store, even when the room is
\* closed meanwhile; only the death of the process can prevent it.
EditsReachStore ==
    \A r \in Rooms, u \in Updates :
        insert[r][u].stage = "sent" ~> (u \in Stored \/ phase[r] = "dead")

\* Once the idle timer runs and no fold is in flight, what was appended is folded
\* in the end, however many attempts fail - unless the room fills up meanwhile:
\* a full room whose fold fails waits for its next edit.
IdleRoomsFold ==
    \A r \in Rooms, u \in Updates :
        (/\ phase[r] = "live" /\ timer[r] /\ ~Compacting(r)
         /\ insert[r][u].stage = "answered")
            ~> (u \in base \/ dirty[r] >= CompactAfter \/ phase[r] # "live")

-----------------------------------------------------------------------------
(***************************************************************************)
(* What comments of the code say and the code does not do.                 *)
(***************************************************************************)

\* "no committed edit is ever lost - the next load replays the log on top of
\* whatever base survived" (persistence.ts:11-12), with no exception.
NoCommittedEditIsEverLost == [][Stored \subseteq Stored']_vars

-----------------------------------------------------------------------------
(***************************************************************************)
(* The document this component implements.                                 *)
(***************************************************************************)

\* Edits that are not in the store but may still reach it.
Pending ==
    {u \in Updates : \E r \in Rooms :
        \/ phase[r] = "live" /\ u \in doc[r]
        \/ insert[r][u].stage \in {"sent", "numbered"}
        \/ \E c \in Callers : u \in fold[r][c].state}

Document == INSTANCE CollabDocument WITH
    durable <- Stored,
    unsaved <- Pending \ Stored,
    overlapped <- contended

\* Room and store implement the document: an edit is made once, becomes durable
\* or is lost with the process, and stays durable until writers overlap.
ImplementsDocument == Document!Spec
=============================================================================
