-------------------------- MODULE CollabRoomProofs --------------------------
(***************************************************************************)
(* Proofs about CollabRoom, for every set of updates and of rooms and every *)
(* compaction threshold.                                                   *)
(***************************************************************************)
EXTENDS CollabRoom, TLAPS

(***************************************************************************)
(* Type correctness.                                                       *)
(***************************************************************************)

\* A compact call started by a live room is a Fold, whoever calls it.
LEMMA CompactType ==
    ASSUME TypeOK, NEW r \in Rooms, NEW c \in Callers,
           NEW w \in Nat, NEW d \in Nat, Compact(r, c, w, d)
    PROVE  fold' \in [Rooms -> [Callers -> Folds]]
<1>1. [stage |-> "sent", state |-> doc[r], boundary |-> w, pending |-> d] \in Folds
  BY DEF TypeOK, Folds, FoldStages
<1>2. QED
  BY <1>1 DEF TypeOK, Compact

\* runCompaction keeps the types of the two variables it sets.
LEMMA RunCompactionType ==
    ASSUME TypeOK, NEW r \in Rooms, NEW w \in Nat, NEW d \in Nat,
           RunCompaction(r, w, d)
    PROVE  /\ fold' \in [Rooms -> [Callers -> Folds]]
           /\ dirty' \in [Rooms -> Nat]
<1>1. CASE Compact(r, "run", w, d) /\ dirty' = [dirty EXCEPT ![r] = 0]
  BY <1>1, CompactType DEF Callers, TypeOK
<1>2. CASE UNCHANGED fold /\ dirty' = [dirty EXCEPT ![r] = d]
  BY <1>2 DEF TypeOK
<1>3. QED
  BY <1>1, <1>2 DEF RunCompaction

\* Moving one append, or one fold, to another stage keeps its type.
LEMMA InsertStageType ==
    ASSUME TypeOK, NEW r \in Rooms, NEW u \in Updates, NEW st \in InsertStages,
           insert' = [insert EXCEPT ![r][u].stage = st]
    PROVE  insert' \in [Rooms -> [Updates -> Inserts]]
<1>1. insert[r][u] \in Inserts
  BY DEF TypeOK
<1>2. [insert[r][u] EXCEPT !.stage = st] \in Inserts
  BY <1>1 DEF Inserts
<1>3. QED
  BY <1>2 DEF TypeOK

\* The same for a fold.
LEMMA FoldStageType ==
    ASSUME TypeOK, NEW r \in Rooms, NEW c \in Callers, NEW st \in FoldStages,
           fold' = [fold EXCEPT ![r][c].stage = st]
    PROVE  fold' \in [Rooms -> [Callers -> Folds]]
<1>1. fold[r][c] \in Folds
  BY DEF TypeOK
<1>2. [fold[r][c] EXCEPT !.stage = st] \in Folds
  BY <1>1 DEF Folds
<1>3. QED
  BY <1>2 DEF TypeOK

\* Every variable keeps its type under every step of the rooms and the store.
LEMMA TypeStep == TypeOK /\ [Next]_vars => TypeOK'
<1> SUFFICES ASSUME TypeOK, [Next]_vars PROVE TypeOK'
  OBVIOUS
<1> USE DEF storeVars, roomVars
<1>a. NoFold \in Folds /\ NoInsert \in Inserts
  BY DEF NoFold, NoInsert, FoldStages, InsertStages, Folds, Inserts
<1>1. CASE Crash
  BY <1>1 DEF Crash, Phases, TypeOK
<1>2. ASSUME NEW r \in Rooms, RoomStep(r) PROVE TypeOK'
  <2>1. CASE Open(r)
    BY <2>1 DEF Open, Phases, TypeOK
  <2>2. CASE ReadBase(r)
    BY <2>2 DEF ReadBase, Phases, TypeOK
  <2>3. CASE ReadLog(r)
    BY <2>3 DEF ReadLog, Phases, Logged, TypeOK
  <2>4. CASE LoadFails(r)
    BY <2>4 DEF LoadFails, Phases, TypeOK
  <2>5. ASSUME NEW u \in Updates, Edit(r, u) PROVE TypeOK'
    <3>1. [stage |-> "sent", id |-> 0] \in Inserts
      BY DEF Inserts, InsertStages
    <3>2. QED
      BY <2>5, <3>1 DEF Edit, TypeOK
  <2>6. ASSUME NEW u \in Updates, AppendAnswered(r, u) PROVE TypeOK'
    <3> DEFINE id == insert[r][u].id
               w  == IF id > watermark[r] THEN id ELSE watermark[r]
    <3>1. w \in Nat /\ dirty[r] + 1 \in Nat
      BY DEF TypeOK, Inserts
    <3>2. insert' \in [Rooms -> [Updates -> Inserts]]
      BY <2>6, InsertStageType DEF AppendAnswered, InsertStages
    <3>3. watermark' \in [Rooms -> Nat]
      BY <2>6, <3>1 DEF AppendAnswered, TypeOK
    <3>4. ScheduleCompaction(r, w, dirty[r] + 1)
      BY <2>6 DEF AppendAnswered
    <3> HIDE DEF w
    <3>5. /\ timer' \in [Rooms -> BOOLEAN]
          /\ dirty' \in [Rooms -> Nat]
          /\ fold' \in [Rooms -> [Callers -> Folds]]
      BY <3>1, <3>4, RunCompactionType DEF ScheduleCompaction, TypeOK
    <3>6. QED
      BY <2>6, <3>2, <3>3, <3>5 DEF AppendAnswered, TypeOK
  <2>7. CASE IdleTimerFires(r)
    <3>1. watermark[r] \in Nat /\ dirty[r] \in Nat
      BY DEF TypeOK
    <3>2. QED
      BY <2>7, <3>1, RunCompactionType DEF IdleTimerFires, TypeOK
  <2>8. CASE RunAnswered(r)
    BY <2>8, <1>a DEF RunAnswered, TypeOK
  <2>9. CASE RunFails(r)
    <3>1. dirty[r] + fold[r]["run"].pending \in Nat
      BY DEF TypeOK, Callers, Folds
    <3>2. QED
      BY <2>9, <1>a, <3>1 DEF RunFails, TypeOK
  <2>10. CASE Destroy(r)
    <3>1. watermark[r] \in Nat
      BY DEF TypeOK
    <3>2. fold' \in [Rooms -> [Callers -> Folds]]
      BY <2>10, <3>1, CompactType DEF Destroy, Callers, TypeOK
    <3>3. QED
      BY <2>10, <3>2 DEF Destroy, Phases, TypeOK
  <2>11. CASE DestroyReturns(r)
    BY <2>11, <1>a DEF DestroyReturns, Phases, TypeOK
  <2>12. QED
    BY <1>2, <2>1, <2>2, <2>3, <2>4, <2>5, <2>6, <2>7, <2>8, <2>9, <2>10, <2>11
       DEF RoomStep
<1>3. ASSUME NEW r \in Rooms, StoreStep(r) PROVE TypeOK'
  <2>1. ASSUME NEW u \in Updates, NumberRow(r, u) PROVE TypeOK'
    <3>1. [stage |-> "numbered", id |-> nextId] \in Inserts
      BY DEF Inserts, InsertStages, TypeOK
    <3>2. QED
      BY <2>1, <3>1 DEF NumberRow, TypeOK
  <2>2. ASSUME NEW u \in Updates, CommitRow(r, u) PROVE TypeOK'
    <3>1. insert[r][u].id \in Nat
      BY DEF TypeOK, Inserts
    <3>2. insert' \in [Rooms -> [Updates -> Inserts]]
      BY <2>2, InsertStageType DEF CommitRow, InsertStages
    <3>3. QED
      BY <2>2, <3>1, <3>2 DEF CommitRow, TypeOK
  <2>3. ASSUME NEW u \in Updates, DropInsert(r, u) PROVE TypeOK'
    BY <2>3, <1>a DEF DropInsert, TypeOK
  <2>4. ASSUME NEW c \in Callers, CommitFold(r, c) PROVE TypeOK'
    <3>1. fold[r][c].state \in SUBSET Updates
      BY DEF TypeOK, Folds
    <3>2. fold' \in [Rooms -> [Callers -> Folds]]
      BY <2>4, FoldStageType DEF CommitFold, FoldStages
    <3>3. QED
      BY <2>4, <3>1, <3>2 DEF CommitFold, TypeOK
  <2>5. ASSUME NEW c \in Callers, DropFold(r, c) PROVE TypeOK'
    BY <2>5, <1>a DEF DropFold, TypeOK
  <2>6. QED
    BY <1>3, <2>1, <2>2, <2>3, <2>4, <2>5 DEF StoreStep
<1>4. CASE UNCHANGED vars
  BY <1>4 DEF vars, TypeOK
<1>5. QED
  BY <1>1, <1>2, <1>3, <1>4 DEF Next

\* The initial states are typed.
LEMMA InitType == Init => TypeOK
<1>1. NoFold \in Folds /\ NoInsert \in Inserts
  BY DEF NoFold, NoInsert, FoldStages, InsertStages, Folds, Inserts
<1>2. SUFFICES ASSUME Init PROVE TypeOK
  OBVIOUS
<1>3. fold \in [Rooms -> [Callers -> Folds]]
  BY <1>1, <1>2 DEF Init
<1>4. insert \in [Rooms -> [Updates -> Inserts]]
  BY <1>1, <1>2 DEF Init
<1>5. /\ base \in SUBSET Updates
      /\ log \in SUBSET [id : Nat, update : Updates]
      /\ nextId \in Nat /\ contended \in BOOLEAN
  BY <1>2 DEF Init
<1>6. /\ phase \in [Rooms -> Phases] /\ timer \in [Rooms -> BOOLEAN]
      /\ doc \in [Rooms -> SUBSET Updates]
      /\ watermark \in [Rooms -> Nat] /\ dirty \in [Rooms -> Nat]
  BY <1>2 DEF Init, Phases
<1>7. QED
  BY <1>3, <1>4, <1>5, <1>6 DEF TypeOK

\* TypeOK holds in every reachable state.
THEOREM TypeCorrect == Spec => []TypeOK
BY InitType, TypeStep, PTL DEF Spec

-----------------------------------------------------------------------------
(***************************************************************************)
(* The inductive invariant, part by part.                                  *)
(***************************************************************************)

\* scheduleCompaction either leaves the folds alone or starts a run fold of a
\* room that is not closed, with the watermark it was given as boundary.
LEMMA ScheduleStartsRunFold ==
    ASSUME NEW r \in Rooms, NEW w \in Nat, NEW d \in Nat,
           ScheduleCompaction(r, w, d)
    PROVE  \/ fold' = fold
           \/ ~Closed(r) /\ ~Compacting(r) /\ Compact(r, "run", w, d)
BY DEF ScheduleCompaction, RunCompaction

\* A compact call changes no boundary but that of its own fold.
LEMMA CompactBoundary ==
    ASSUME TypeOK, IdsBelowNext, nextId' = nextId,
           NEW r \in Rooms, NEW k \in Callers, NEW w \in Nat, NEW d \in Nat,
           w < nextId, fold' = fold \/ Compact(r, k, w, d)
    PROVE  \A q \in Rooms, c \in Callers : fold'[q][c].boundary < nextId'
<1>1. CASE fold' = fold
  BY <1>1 DEF IdsBelowNext
<1>2. CASE Compact(r, k, w, d)
  <2> DEFINE new == [stage |-> "sent", state |-> doc[r], boundary |-> w, pending |-> d]
  <2>1. fold' = [fold EXCEPT ![r][k] = new]
    BY <1>2 DEF Compact
  <2>2. new.boundary < nextId
    OBVIOUS
  <2> HIDE DEF new
  <2>3. QED
    BY <2>1, <2>2 DEF TypeOK, IdsBelowNext
<1>3. QED
  BY <1>1, <1>2

\* A change of stage leaves the ids of all appends as they are.
LEMMA InsertIdsKept ==
    ASSUME TypeOK, IdsBelowNext, nextId' = nextId,
           NEW r \in Rooms, NEW u \in Updates, NEW st \in InsertStages,
           insert' = [insert EXCEPT ![r][u].stage = st]
    PROVE  \A q \in Rooms, v \in Updates : insert'[q][v].id < nextId'
<1>1. insert[r][u] \in [stage : InsertStages, id : Nat]
  BY DEF TypeOK, Inserts
<1>2. [insert[r][u] EXCEPT !.stage = st].id = insert[r][u].id
  BY <1>1
<1>3. QED
  BY <1>2 DEF TypeOK, IdsBelowNext

\* An answered append raises the watermark to its id, if that is higher, and
\* schedules a compaction with it.
LEMMA AnsweredSchedules ==
    ASSUME TypeOK, NEW r \in Rooms, NEW u \in Updates, AppendAnswered(r, u)
    PROVE  \E w \in Nat, d \in Nat :
               /\ w \in {watermark[r], insert[r][u].id}
               /\ watermark' = [watermark EXCEPT ![r] = w]
               /\ ScheduleCompaction(r, w, d)
<1> DEFINE id == insert[r][u].id
           w  == IF id > watermark[r] THEN id ELSE watermark[r]
<1>1. w \in Nat /\ w \in {watermark[r], id} /\ dirty[r] + 1 \in Nat
  BY DEF TypeOK, Inserts
<1>2. /\ watermark' = [watermark EXCEPT ![r] = w]
      /\ ScheduleCompaction(r, w, dirty[r] + 1)
  BY DEF AppendAnswered
<1> HIDE DEF w
<1>3. QED
  BY <1>1, <1>2

\* Ids in memory and in the log stay below the sequence under every step.
LEMMA IdsStep ==
    ASSUME TypeOK, TypeOK', IdsBelowNext, [Next]_vars
    PROVE  IdsBelowNext'
<1> USE DEF IdsBelowNext, storeVars, roomVars
<1>a. ASSUME nextId' = nextId, log' \subseteq log, watermark' = watermark,
             insert' = insert, fold' = fold
      PROVE  IdsBelowNext'
  BY <1>a
<1>1. CASE Crash
  BY <1>1 DEF Crash, TypeOK
<1>2. ASSUME NEW r \in Rooms, RoomStep(r) PROVE IdsBelowNext'
  <2>1. CASE Open(r) \/ ReadBase(r) \/ LoadFails(r)
    BY <2>1, <1>a DEF Open, ReadBase, LoadFails
  <2>2. CASE ReadLog(r)
    BY <2>2 DEF ReadLog, TypeOK
  <2>3. ASSUME NEW u \in Updates, Edit(r, u) PROVE IdsBelowNext'
    BY <2>3 DEF Edit, TypeOK
  <2>4. ASSUME NEW u \in Updates, AppendAnswered(r, u) PROVE IdsBelowNext'
    <3>1. PICK w \in Nat, d \in Nat :
            /\ w \in {watermark[r], insert[r][u].id}
            /\ watermark' = [watermark EXCEPT ![r] = w]
            /\ ScheduleCompaction(r, w, d)
      BY <2>4, AnsweredSchedules
    <3>2. /\ insert' = [insert EXCEPT ![r][u].stage = "answered"]
          /\ nextId' = nextId /\ log' = log /\ w < nextId
      BY <2>4, <3>1 DEF AppendAnswered
    <3>3. \A q \in Rooms : watermark'[q] < nextId'
      BY <3>1, <3>2 DEF TypeOK
    <3>4. \A q \in Rooms, v \in Updates : insert'[q][v].id < nextId'
      BY <3>2, InsertIdsKept DEF InsertStages
    <3>5. \A q \in Rooms, c \in Callers : fold'[q][c].boundary < nextId'
      BY <3>1, <3>2, ScheduleStartsRunFold, CompactBoundary DEF Callers
    <3>6. QED
      BY <3>2, <3>3, <3>4, <3>5
  <2>5. CASE IdleTimerFires(r)
    <3>1. watermark[r] \in Nat /\ dirty[r] \in Nat /\ nextId' = nextId /\ log' = log
      BY <2>5 DEF IdleTimerFires, TypeOK
    <3>2. fold' = fold \/ Compact(r, "run", watermark[r], dirty[r])
      BY <2>5 DEF IdleTimerFires, RunCompaction
    <3>3. \A q \in Rooms, c \in Callers : fold'[q][c].boundary < nextId'
      BY <3>1, <3>2, CompactBoundary DEF Callers
    <3>4. QED
      BY <2>5, <3>1, <3>3 DEF IdleTimerFires
  <2>6. CASE RunAnswered(r) \/ RunFails(r) \/ DestroyReturns(r)
    <3>1. \E c \in Callers : fold' = [fold EXCEPT ![r][c] = NoFold]
      BY <2>6 DEF RunAnswered, RunFails, DestroyReturns, Callers
    <3>2. nextId' = nextId /\ log' = log /\ insert' = insert /\ watermark' = watermark
      BY <2>6 DEF RunAnswered, RunFails, DestroyReturns
    <3>3. nextId > 0
      BY DEF TypeOK
    <3>4. \A q \in Rooms, c \in Callers : fold'[q][c].boundary < nextId'
      BY <3>1, <3>2, <3>3 DEF NoFold, TypeOK
    <3>5. QED
      BY <3>2, <3>4
  <2>7. CASE Destroy(r)
    BY <2>7 DEF Destroy, Compact, TypeOK
  <2>8. QED
    BY <1>2, <2>1, <2>2, <2>3, <2>4, <2>5, <2>6, <2>7 DEF RoomStep
<1>3. ASSUME NEW r \in Rooms, StoreStep(r) PROVE IdsBelowNext'
  <2>1. ASSUME NEW u \in Updates, NumberRow(r, u) PROVE IdsBelowNext'
    <3>1. /\ nextId' = nextId + 1 /\ log' = log /\ watermark' = watermark /\ fold' = fold
          /\ insert' = [insert EXCEPT ![r][u] = [stage |-> "numbered", id |-> nextId]]
      BY <2>1 DEF NumberRow
    <3>2. /\ nextId \in Nat
          /\ \A row \in log : row.id \in Nat
          /\ \A q \in Rooms : watermark[q] \in Nat
          /\ \A q \in Rooms, v \in Updates : insert[q][v].id \in Nat
          /\ \A q \in Rooms, c \in Callers : fold[q][c].boundary \in Nat
      BY DEF TypeOK, Inserts, Folds
    <3>3. \A q \in Rooms, v \in Updates : insert'[q][v].id < nextId'
      BY <3>1, <3>2 DEF TypeOK
    <3>4. QED
      BY <3>1, <3>2, <3>3
  <2>2. ASSUME NEW u \in Updates, CommitRow(r, u) PROVE IdsBelowNext'
    BY <2>2 DEF CommitRow, TypeOK
  <2>3. ASSUME NEW u \in Updates, DropInsert(r, u) PROVE IdsBelowNext'
    BY <2>3 DEF DropInsert, NoInsert, TypeOK
  <2>4. ASSUME NEW c \in Callers, CommitFold(r, c) PROVE IdsBelowNext'
    BY <2>4 DEF CommitFold, TypeOK
  <2>5. ASSUME NEW c \in Callers, DropFold(r, c) PROVE IdsBelowNext'
    BY <2>5 DEF DropFold, NoFold, TypeOK
  <2>6. QED
    BY <1>3, <2>1, <2>2, <2>3, <2>4, <2>5 DEF StoreStep
<1>4. CASE UNCHANGED vars
  BY <1>4, <1>a DEF vars
<1>5. QED
  BY <1>1, <1>2, <1>3, <1>4 DEF Next

\* What a compact call, a fold that settles, and an append that moves on
\* change, and that they change nothing else.
LEMMA CompactEffect ==
    ASSUME TypeOK, NEW r \in Rooms, NEW k \in Callers, NEW w, NEW d, Compact(r, k, w, d)
    PROVE  /\ fold'[r][k].stage = "sent"
           /\ fold'[r][k].state = doc[r]
           /\ fold'[r][k].boundary = w
           /\ \A c \in Callers \ {k} : fold'[r][c] = fold[r][c]
           /\ \A q \in Rooms \ {r} : fold'[q] = fold[q]
<1> DEFINE new == [stage |-> "sent", state |-> doc[r], boundary |-> w, pending |-> d]
<1>1. fold' = [fold EXCEPT ![r][k] = new]
  BY DEF Compact
<1>2. new.stage = "sent" /\ new.state = doc[r] /\ new.boundary = w
  OBVIOUS
<1> HIDE DEF new
<1>3. QED
  BY <1>1, <1>2 DEF TypeOK

\* A fold that is answered leaves the others, and their boundaries, as they are.
LEMMA FoldCleared ==
    ASSUME TypeOK, NEW r \in Rooms, NEW k \in Callers,
           fold' = [fold EXCEPT ![r][k] = NoFold]
    PROVE  /\ fold'[r][k].stage = "none"
           /\ \A c \in Callers \ {k} : fold'[r][c] = fold[r][c]
           /\ \A q \in Rooms \ {r} : fold'[q] = fold[q]
<1>1. NoFold.stage = "none"
  BY DEF NoFold
<1>2. QED
  BY <1>1 DEF TypeOK

\* A fold that moves on gets its stage, and the others stay as they are.
LEMMA FoldMoved ==
    ASSUME TypeOK, NEW r \in Rooms, NEW k \in Callers, NEW st \in FoldStages,
           fold' = [fold EXCEPT ![r][k].stage = st]
    PROVE  /\ fold'[r][k].stage = st
           /\ \A c \in Callers \ {k} : fold'[r][c] = fold[r][c]
           /\ \A q \in Rooms \ {r} : fold'[q] = fold[q]
           /\ \A q \in Rooms, c \in Callers :
                  (q # r \/ c # k) => fold'[q][c] = fold[q][c]
<1>1. fold[r][k] \in Folds
  BY DEF TypeOK
<1>2. [fold[r][k] EXCEPT !.stage = st].stage = st
  BY <1>1 DEF Folds
<1>3. QED
  BY <1>2 DEF TypeOK

\* An append that moves on keeps its id, and the others stay as they are.
LEMMA InsertMoved ==
    ASSUME TypeOK, NEW r \in Rooms, NEW u \in Updates, NEW st \in InsertStages,
           insert' = [insert EXCEPT ![r][u].stage = st]
    PROVE  /\ insert'[r][u].stage = st
           /\ insert'[r][u].id = insert[r][u].id
           /\ \A v \in Updates \ {u} : insert'[r][v] = insert[r][v]
           /\ \A q \in Rooms \ {r} : insert'[q] = insert[q]
           /\ \A q \in Rooms, v \in Updates :
                  (q # r \/ v # u) => insert'[q][v] = insert[q][v]
<1>1. insert[r][u] \in Inserts
  BY DEF TypeOK
<1>2. /\ [insert[r][u] EXCEPT !.stage = st].stage = st
      /\ [insert[r][u] EXCEPT !.stage = st].id = insert[r][u].id
  BY <1>1 DEF Inserts
<1>3. QED
  BY <1>2 DEF TypeOK

\* An append that is set changes no other.
LEMMA InsertSet ==
    ASSUME TypeOK, NEW r \in Rooms, NEW u \in Updates, NEW st, NEW id,
           insert' = [insert EXCEPT ![r][u] = [stage |-> st, id |-> id]]
    PROVE  /\ insert'[r][u].stage = st
           /\ insert'[r][u].id = id
           /\ \A v \in Updates \ {u} : insert'[r][v] = insert[r][v]
           /\ \A q \in Rooms \ {r} : insert'[q] = insert[q]
           /\ \A q \in Rooms, v \in Updates :
                  (q # r \/ v # u) => insert'[q][v] = insert[q][v]
BY DEF TypeOK

\* Nothing is sent before a room is live, nor a final fold before it closes.
LEMMA PhasesStep ==
    ASSUME TypeOK, TypeOK', PhasesInOrder, [Next]_vars
    PROVE  PhasesInOrder'
<1> USE DEF PhasesInOrder, storeVars, roomVars
<1>1. CASE Crash
  BY <1>1 DEF Crash, Alive, TypeOK
<1>2. ASSUME NEW r \in Rooms, RoomStep(r) PROVE PhasesInOrder'
  <2>1. CASE Open(r) \/ ReadBase(r) \/ LoadFails(r) \/ ReadLog(r)
    BY <2>1 DEF Open, ReadBase, LoadFails, ReadLog, TypeOK
  <2>3. ASSUME NEW u \in Updates, Edit(r, u) PROVE PhasesInOrder'
    BY <2>3, InsertSet DEF Edit, TypeOK
  <2>4. ASSUME NEW u \in Updates, AppendAnswered(r, u) PROVE PhasesInOrder'
    <3>1. phase[r] \in {"live", "closing", "closed"} /\ phase' = phase
      BY <2>4 DEF AppendAnswered, Alive, TypeOK, Phases
    <3>2. PICK w \in Nat, d \in Nat : ScheduleCompaction(r, w, d)
      BY <2>4, AnsweredSchedules
    <3>3. fold' = fold \/ Compact(r, "run", w, d)
      BY <3>2, ScheduleStartsRunFold
    <3>4. timer'[r] => phase[r] = "live"
      BY <3>1, <3>2 DEF ScheduleCompaction, Closed, TypeOK
    <3>5. \A q \in Rooms \ {r} : timer'[q] = timer[q]
      BY <3>2 DEF ScheduleCompaction, TypeOK
    <3>6. /\ \A q \in Rooms \ {r} : fold'[q] = fold[q] /\ insert'[q] = insert[q]
          /\ fold'[r]["final"] = fold[r]["final"]
      BY <2>4, <3>3, CompactEffect, InsertMoved DEF InsertStages, AppendAnswered, Callers
    <3>7. QED
      BY <3>1, <3>4, <3>5, <3>6
  <2>5. CASE IdleTimerFires(r)
    <3>1. fold' = fold \/ Compact(r, "run", watermark[r], dirty[r])
      BY <2>5 DEF IdleTimerFires, RunCompaction
    <3>2. /\ \A q \in Rooms \ {r} : fold'[q] = fold[q]
          /\ fold'[r]["final"] = fold[r]["final"]
      BY <3>1, CompactEffect DEF Callers
    <3>3. QED
      BY <2>5, <3>2 DEF IdleTimerFires, TypeOK
  <2>6. CASE RunAnswered(r)
    BY <2>6, FoldCleared DEF RunAnswered, Callers
  <2>7. CASE RunFails(r)
    <3>1. phase[r] = "live" \/ Closed(r)
      BY <2>7 DEF RunFails, Alive, Compacting, Closed, TypeOK, Phases
    <3>2. QED
      BY <2>7, <3>1, FoldCleared DEF RunFails, Callers, Closed, TypeOK
  <2>8. CASE DestroyReturns(r)
    BY <2>8, FoldCleared DEF DestroyReturns, Callers, TypeOK
  <2>9. CASE Destroy(r)
    <3>1. fold' = fold \/ Compact(r, "final", watermark[r], 0)
      BY <2>9 DEF Destroy
    <3>2. \A q \in Rooms \ {r} : fold'[q] = fold[q]
      BY <3>1, CompactEffect DEF Callers
    <3>3. QED
      BY <2>9, <3>2 DEF Destroy, TypeOK
  <2>10. QED
    BY <1>2, <2>1, <2>3, <2>4, <2>5, <2>6, <2>7, <2>8, <2>9 DEF RoomStep
<1>3. ASSUME NEW r \in Rooms, StoreStep(r) PROVE PhasesInOrder'
  <2>1. ASSUME NEW u \in Updates, NumberRow(r, u) PROVE PhasesInOrder'
    BY <2>1, InsertSet DEF NumberRow
  <2>2. ASSUME NEW u \in Updates, CommitRow(r, u) PROVE PhasesInOrder'
    BY <2>2, InsertMoved DEF InsertStages, CommitRow
  <2>3. ASSUME NEW u \in Updates, DropInsert(r, u) PROVE PhasesInOrder'
    BY <2>3, InsertSet DEF DropInsert, NoInsert
  <2>4. ASSUME NEW c \in Callers, CommitFold(r, c) PROVE PhasesInOrder'
    BY <2>4, FoldMoved DEF FoldStages, CommitFold, Callers
  <2>5. ASSUME NEW c \in Callers, DropFold(r, c) PROVE PhasesInOrder'
    BY <2>5, FoldCleared DEF DropFold, Callers
  <2>6. QED
    BY <1>3, <2>1, <2>2, <2>3, <2>4, <2>5 DEF StoreStep
<1>4. CASE UNCHANGED vars
  BY <1>4 DEF vars
<1>5. QED
  BY <1>1, <1>2, <1>3, <1>4 DEF Next

-----------------------------------------------------------------------------
(***************************************************************************)
(* One writer at a time.  The four facts below need each other: the live   *)
(* room holds the store because nobody else writes it, and a fold covers   *)
(* what it truncates because the live room held the store when it began.   *)
(***************************************************************************)
Coherent ==
    /\ SingleWriter
    /\ WriterIsCurrent
    /\ \A r \in Rooms : phase[r] = "live" => Stored \subseteq doc[r]
    /\ \A r \in Rooms, c \in Callers : fold[r][c].stage = "sent" =>
           /\ base \subseteq fold[r][c].state
           /\ \A row \in log :
                  row.id <= fold[r][c].boundary => row.update \in fold[r][c].state
           /\ \A q \in Rooms, u \in Updates :
                  /\ insert[q][u].stage = "numbered"
                  /\ insert[q][u].id <= fold[r][c].boundary
                  => u \in fold[r][c].state

\* A compact call of the one live room leaves the state coherent, provided its
\* other fold is not still on its way.
LEMMA CompactCoherent ==
    ASSUME TypeOK, PhasesInOrder, Coherent,
           NEW r \in Rooms, phase[r] = "live",
           NEW k \in Callers, NEW w, NEW d, Compact(r, k, w, d),
           \A c \in Callers \ {k} : fold[r][c].stage # "sent",
           base' = base, log' = log, doc' = doc,
           phase' = phase \/ phase' = [phase EXCEPT ![r] = "closing"],
           \A q \in Rooms, u \in Updates :
               /\ insert'[q][u].id = insert[q][u].id
               /\ insert'[q][u].stage \in {"sent", "numbered"} =>
                      insert'[q][u].stage = insert[q][u].stage
    PROVE  Coherent'
<1>1. \A q \in Rooms : Writer(q)' => Writer(q)
  <2>1. Writer(r)
    BY DEF Writer
  <2>2. ASSUME NEW q \in Rooms \ {r}, Writer(q)' PROVE Writer(q)
    <3>1. phase'[q] = phase[q]
      BY DEF TypeOK
    <3>2. fold'[q] = fold[q]
      BY CompactEffect
    <3>3. CASE \E u \in Updates : insert'[q][u].stage \in {"sent", "numbered"}
      BY <3>3 DEF Writer, Unsettled
    <3>4. CASE \E c \in Callers : fold'[q][c].stage = "sent"
      BY <3>2, <3>4 DEF Writer, Unsettled
    <3>5. QED
      BY <2>2, <3>1, <3>3, <3>4 DEF Writer, Unsettled
  <2>3. QED
    BY <2>1, <2>2
<1>2. \A q \in Rooms : Writer(q) => q = r
  BY DEF Coherent, SingleWriter, Writer
<1>3. SingleWriter'
  <2>1. \A q \in Rooms : ~(fold'[q]["run"].stage = "sent" /\ fold'[q]["final"].stage = "sent")
    BY CompactEffect DEF Coherent, SingleWriter, Callers
  <2>2. QED
    BY <1>1, <1>2, <2>1 DEF SingleWriter
<1>4. WriterIsCurrent'
  <2>1. ASSUME NEW q \in Rooms, phase'[q] = "base" PROVE doc'[q] = base'
    BY <2>1 DEF Coherent, WriterIsCurrent, TypeOK
  <2>2. ASSUME NEW q \in Rooms, phase'[q] = "live"
        PROVE  /\ phase[q] = "live"
               /\ \A u \in Updates : insert'[q][u].stage \in {"sent", "numbered"} => u \in doc'[q]
    <3>1. phase[q] = "live"
      BY <2>2 DEF TypeOK
    <3>2. QED
      BY <3>1 DEF Coherent, WriterIsCurrent
  <2>3. ASSUME NEW q \in Rooms, phase'[q] = "live", NEW c \in Callers, fold'[q][c].stage = "sent"
        PROVE  fold'[q][c].state \subseteq doc'[q]
    <3>1. q = r
      BY <1>2, <2>2, <2>3 DEF Writer
    <3>2. c = k
      BY <2>3, <3>1, CompactEffect
    <3>3. QED
      BY <3>1, <3>2, CompactEffect
  <2>4. QED
    BY <2>1, <2>2, <2>3 DEF WriterIsCurrent
<1>5. \A q \in Rooms : phase'[q] = "live" => Stored' \subseteq doc'[q]
  BY DEF Coherent, Stored, Logged, TypeOK
<1>6. ASSUME NEW q \in Rooms, NEW c \in Callers, fold'[q][c].stage = "sent"
      PROVE  /\ base' \subseteq fold'[q][c].state
             /\ \A row \in log' :
                    row.id <= fold'[q][c].boundary => row.update \in fold'[q][c].state
             /\ \A p \in Rooms, u \in Updates :
                    /\ insert'[p][u].stage = "numbered"
                    /\ insert'[p][u].id <= fold'[q][c].boundary
                    => u \in fold'[q][c].state
  <2>1. q = r /\ c = k
    <3>1. Writer(q)
      BY <1>1, <1>6 DEF Writer, Unsettled
    <3>2. q = r
      BY <1>2, <3>1
    <3>3. QED
      BY <1>6, <3>2, CompactEffect
  <2>2. fold'[r][k].state = doc[r] /\ Stored \subseteq doc[r]
    BY CompactEffect DEF Coherent
  <2>3. \A p \in Rooms, u \in Updates :
            insert'[p][u].stage = "numbered" => u \in doc[r]
    <3>1. ASSUME NEW p \in Rooms, NEW u \in Updates, insert'[p][u].stage = "numbered"
          PROVE  u \in doc[r]
      <4>1. insert[p][u].stage = "numbered"
        BY <3>1
      <4>2. p = r
        BY <1>2, <4>1 DEF Writer, Unsettled
      <4>3. QED
        BY <4>1, <4>2 DEF Coherent, WriterIsCurrent
    <3>2. QED
      BY <3>1
  <2>4. QED
    BY <2>1, <2>2, <2>3 DEF Stored, Logged
<1>7. QED
  BY <1>3, <1>4, <1>5, <1>6 DEF Coherent

\* A step that leaves the store alone and only drops writers, appends and folds
\* keeps the state coherent.
LEMMA QuietCoherent ==
    ASSUME Coherent, base' = base, log' = log,
           \A q \in Rooms : phase'[q] \in {"base", "live"} =>
               phase'[q] = phase[q] /\ doc'[q] = doc[q],
           \A q \in Rooms, u \in Updates :
               insert'[q][u].stage \in {"sent", "numbered"} => insert'[q][u] = insert[q][u],
           \A q \in Rooms, c \in Callers :
               fold'[q][c].stage = "sent" => fold'[q][c] = fold[q][c]
    PROVE  Coherent'
<1>1. \A q \in Rooms : Writer(q)' => Writer(q)
  <2>1. ASSUME NEW q \in Rooms, Writer(q)' PROVE Writer(q)
    <3>1. CASE phase'[q] \in {"base", "live"}
      BY <3>1 DEF Writer
    <3>2. CASE \E u \in Updates : insert'[q][u].stage \in {"sent", "numbered"}
      BY <3>2 DEF Writer, Unsettled
    <3>3. CASE \E c \in Callers : fold'[q][c].stage = "sent"
      BY <3>3 DEF Writer, Unsettled
    <3>4. QED
      BY <2>1, <3>1, <3>2, <3>3 DEF Writer, Unsettled
  <2>2. QED
    BY <2>1
<1>2. SingleWriter'
  BY <1>1 DEF Coherent, SingleWriter, Callers
<1>3. WriterIsCurrent'
  BY DEF Coherent, WriterIsCurrent
<1>4. QED
  BY <1>2, <1>3 DEF Coherent, Stored, Logged

\* While nobody else writes, a room that begins to load is the only writer.
LEMMA ReadBaseCoherent ==
    ASSUME TypeOK, PhasesInOrder, Coherent, NEW r \in Rooms, ReadBase(r), ~contended'
    PROVE  Coherent'
<1> USE DEF ReadBase, storeVars
<1>1. \A q \in Rooms \ {r} : ~Writer(q) /\ phase'[q] = phase[q]
  BY DEF TypeOK
<1>2. \A q \in Rooms : ~Unsettled(q)
  BY <1>1 DEF Writer, PhasesInOrder, Unsettled, Callers
<1>3. \A q \in Rooms : ~Unsettled(q)'
  BY <1>2 DEF Unsettled
<1>4. \A q \in Rooms \ {r} : ~Writer(q)'
  BY <1>1, <1>3 DEF Writer
<1>5. phase'[r] = "base" /\ doc'[r] = base'
  BY DEF TypeOK
<1>6. SingleWriter'
  BY <1>4, <1>3 DEF SingleWriter, Unsettled, Callers
<1>7. WriterIsCurrent'
  BY <1>3, <1>4, <1>5 DEF WriterIsCurrent, Writer, Unsettled
<1>8. \A q \in Rooms : phase'[q] # "live"
  BY <1>4, <1>5 DEF Writer
<1>9. QED
  BY <1>3, <1>6, <1>7, <1>8 DEF Coherent, Unsettled

\* The room that replays the log still has the present base: it ends up with
\* all that is stored.
LEMMA ReadLogCoherent ==
    ASSUME TypeOK, PhasesInOrder, Coherent, NEW r \in Rooms, ReadLog(r)
    PROVE  Coherent'
<1> USE DEF ReadLog, storeVars
<1>1. phase'[r] = "live" /\ doc'[r] = Stored'
  BY DEF TypeOK, Coherent, WriterIsCurrent, Stored, Logged
<1>2. \A q \in Rooms \ {r} : phase'[q] = phase[q] /\ doc'[q] = doc[q]
  BY DEF TypeOK
<1>3. ~Unsettled(r) /\ ~Unsettled(r)'
  BY DEF PhasesInOrder, Unsettled, Callers
<1>4. \A q \in Rooms \ {r} : ~Writer(q) /\ ~Writer(q)'
  <2>1. \A q \in Rooms \ {r} : ~Writer(q)
    BY DEF Coherent, SingleWriter, Writer
  <2>2. QED
    BY <1>2, <2>1 DEF Writer, Unsettled
<1>5. \A q \in Rooms : ~Unsettled(q)'
  BY <1>3, <1>4 DEF Writer
<1>6. SingleWriter'
  BY <1>4, <1>5 DEF SingleWriter, Unsettled, Callers
<1>7. WriterIsCurrent'
  BY <1>1, <1>4, <1>5 DEF WriterIsCurrent, Writer, Unsettled
<1>8. \A q \in Rooms : phase'[q] = "live" => Stored' \subseteq doc'[q]
  BY <1>1, <1>4 DEF Writer
<1>9. QED
  BY <1>5, <1>6, <1>7, <1>8 DEF Coherent, Unsettled

\* An edit grows only its room's document, and its append is in that document.
LEMMA EditCoherent ==
    ASSUME TypeOK, PhasesInOrder, Coherent, NEW r \in Rooms, NEW u \in Updates, Edit(r, u)
    PROVE  Coherent'
<1>1. /\ phase' = phase /\ fold' = fold /\ base' = base /\ log' = log
      /\ insert'[r][u].stage = "sent"
      /\ \A q \in Rooms, v \in Updates :
             q # r \/ v # u => insert'[q][v] = insert[q][v]
  <2>1. insert' = [insert EXCEPT ![r][u] = [stage |-> "sent", id |-> 0]]
    BY DEF Edit
  <2>2. phase' = phase /\ fold' = fold /\ base' = base /\ log' = log
    BY DEF Edit, storeVars
  <2>3. QED
    BY <2>1, <2>2 DEF TypeOK
<1>2. phase[r] = "live" /\ doc'[r] = doc[r] \cup {u} /\ \A q \in Rooms \ {r} : doc'[q] = doc[q]
  BY DEF Edit, TypeOK
<1>3. \A q \in Rooms : Writer(q)' => Writer(q)
  <2>1. ASSUME NEW q \in Rooms \ {r} PROVE Writer(q)' => Writer(q)
    BY <1>1 DEF Writer, Unsettled
  <2>2. Writer(r)
    BY <1>2 DEF Writer
  <2>3. QED
    BY <2>1, <2>2
<1>4. SingleWriter'
  BY <1>1, <1>3 DEF Coherent, SingleWriter
<1>5. WriterIsCurrent'
  BY <1>1, <1>2 DEF Coherent, WriterIsCurrent
<1>6. \A q \in Rooms : phase'[q] = "live" => Stored' \subseteq doc'[q]
  BY <1>1, <1>2 DEF Coherent, Stored, Logged
<1>7. QED
  BY <1>1, <1>4, <1>5, <1>6 DEF Coherent

\* A new row id is above the boundary of every fold in flight.
LEMMA NumberRowCoherent ==
    ASSUME TypeOK, IdsBelowNext, Coherent,
           NEW r \in Rooms, NEW u \in Updates, NumberRow(r, u)
    PROVE  Coherent'
<1>1. /\ phase' = phase /\ fold' = fold /\ base' = base /\ log' = log /\ doc' = doc
      /\ insert[r][u].stage = "sent"
      /\ insert'[r][u].stage = "numbered" /\ insert'[r][u].id = nextId
      /\ \A q \in Rooms, v \in Updates :
             q # r \/ v # u => insert'[q][v] = insert[q][v]
  <2>1. insert' = [insert EXCEPT ![r][u] = [stage |-> "numbered", id |-> nextId]]
    BY DEF NumberRow
  <2>2. /\ phase' = phase /\ fold' = fold /\ base' = base /\ log' = log /\ doc' = doc
        /\ insert[r][u].stage = "sent"
    BY DEF NumberRow, roomVars
  <2>3. QED
    BY <2>1, <2>2 DEF TypeOK
<1>2. \A q \in Rooms : Writer(q)' => Writer(q)
  <2>1. ASSUME NEW q \in Rooms \ {r} PROVE Writer(q)' => Writer(q)
    BY <1>1 DEF Writer, Unsettled
  <2>2. Writer(r)
    BY <1>1 DEF Writer, Unsettled
  <2>3. QED
    BY <2>1, <2>2
<1>3. SingleWriter'
  BY <1>1, <1>2 DEF Coherent, SingleWriter
<1>4. WriterIsCurrent'
  BY <1>1 DEF Coherent, WriterIsCurrent
<1>5. \A q \in Rooms : phase'[q] = "live" => Stored' \subseteq doc'[q]
  BY <1>1 DEF Coherent, Stored, Logged
<1>6. ASSUME NEW q \in Rooms, NEW c \in Callers, fold'[q][c].stage = "sent",
             NEW p \in Rooms, NEW v \in Updates,
             insert'[p][v].stage = "numbered",
             insert'[p][v].id <= fold'[q][c].boundary
      PROVE  v \in fold'[q][c].state
  <2>1. nextId \in Nat /\ fold[q][c].boundary \in Nat /\ fold[q][c].boundary < nextId
    BY DEF TypeOK, Folds, IdsBelowNext
  <2>2. p # r \/ v # u
    BY <1>1, <1>6, <2>1
  <2>3. QED
    BY <1>1, <1>6, <2>2 DEF Coherent
<1>7. QED
  BY <1>1, <1>3, <1>4, <1>5, <1>6 DEF Coherent

\* The committed row is in the live document and in every fold that would
\* delete it.
LEMMA CommitRowCoherent ==
    ASSUME TypeOK, Coherent, NEW r \in Rooms, NEW u \in Updates, CommitRow(r, u)
    PROVE  Coherent'
<1>1. /\ phase' = phase /\ fold' = fold /\ base' = base /\ doc' = doc
      /\ insert[r][u].stage = "numbered" /\ insert'[r][u].stage = "committed"
      /\ \A q \in Rooms, v \in Updates :
             q # r \/ v # u => insert'[q][v] = insert[q][v]
  <2>1. insert' = [insert EXCEPT ![r][u].stage = "committed"]
    BY DEF CommitRow
  <2>2. /\ phase' = phase /\ fold' = fold /\ base' = base /\ doc' = doc
        /\ insert[r][u].stage = "numbered"
    BY DEF CommitRow, roomVars
  <2>3. /\ insert'[r][u].stage = "committed"
        /\ \A v \in Updates \ {u} : insert'[r][v] = insert[r][v]
        /\ \A q \in Rooms \ {r} : insert'[q] = insert[q]
    BY <2>1, InsertMoved DEF InsertStages
  <2>4. QED
    BY <2>2, <2>3
<1>2. ASSUME NEW row \in log', row \notin log
      PROVE  row.id = insert[r][u].id /\ row.update = u
  <2>1. row = [id |-> insert[r][u].id, update |-> u]
    BY <1>2 DEF CommitRow
  <2>2. QED
    BY <2>1
<1>3. Writer(r)
  BY <1>1 DEF Writer, Unsettled
<1>4. \A q \in Rooms : Writer(q)' => Writer(q)
  <2>1. ASSUME NEW q \in Rooms \ {r} PROVE Writer(q)' => Writer(q)
    BY <1>1 DEF Writer, Unsettled
  <2>2. QED
    BY <1>3, <2>1
<1>5. SingleWriter'
  BY <1>1, <1>4 DEF Coherent, SingleWriter
<1>6. WriterIsCurrent'
  BY <1>1 DEF Coherent, WriterIsCurrent
<1>7. ASSUME NEW q \in Rooms, phase'[q] = "live" PROVE Stored' \subseteq doc'[q]
  <2>1. q = r
    BY <1>1, <1>3, <1>7 DEF Coherent, SingleWriter, Writer
  <2>2. u \in doc[q] /\ Stored \subseteq doc[q]
    BY <1>1, <1>7, <2>1 DEF Coherent, WriterIsCurrent
  <2>3. QED
    BY <1>1, <1>2, <2>2 DEF Stored, Logged
<1>8. QED
  BY <1>1, <1>2, <1>5, <1>6, <1>7 DEF Coherent

\* The one fold in flight commits: what it captured is below the live document,
\* and no other fold is left to overwrite it.
LEMMA CommitFoldCoherent ==
    ASSUME TypeOK, PhasesInOrder, Coherent,
           NEW r \in Rooms, NEW k \in Callers, CommitFold(r, k)
    PROVE  Coherent' /\ Stored \subseteq Stored'
<1>1. /\ phase' = phase /\ doc' = doc /\ insert' = insert
      /\ fold[r][k].stage = "sent" /\ base' = fold[r][k].state
      /\ fold'[r][k].stage = "committed"
      /\ \A q \in Rooms, c \in Callers :
             q # r \/ c # k => fold'[q][c] = fold[q][c]
  <2>1. fold' = [fold EXCEPT ![r][k].stage = "committed"]
    BY DEF CommitFold
  <2>2. /\ phase' = phase /\ doc' = doc /\ insert' = insert
        /\ fold[r][k].stage = "sent" /\ base' = fold[r][k].state
    BY DEF CommitFold, roomVars
  <2>3. /\ fold'[r][k].stage = "committed"
        /\ \A c \in Callers \ {k} : fold'[r][c] = fold[r][c]
        /\ \A q \in Rooms \ {r} : fold'[q] = fold[q]
    BY <2>1, FoldMoved DEF FoldStages
  <2>4. QED
    BY <2>2, <2>3
<1>2. Writer(r)
  BY <1>1 DEF Writer, Unsettled
<1>3. \A q \in Rooms : Writer(q)' => Writer(q)
  <2>1. ASSUME NEW q \in Rooms \ {r} PROVE Writer(q)' => Writer(q)
    BY <1>1 DEF Writer, Unsettled
  <2>2. QED
    BY <1>2, <2>1
<1>4. \A q \in Rooms, c \in Callers : fold'[q][c].stage # "sent"
  <2>1. ASSUME NEW q \in Rooms, NEW c \in Callers, fold'[q][c].stage = "sent" PROVE FALSE
    <3>1. Writer(q)'
      BY <2>1 DEF Writer, Unsettled
    <3>2. q = r
      BY <1>2, <1>3, <3>1 DEF Coherent, SingleWriter
    <3>3. c # k /\ fold[r][c].stage = "sent"
      BY <1>1, <2>1, <3>2
    <3>4. QED
      BY <1>1, <3>3 DEF Coherent, SingleWriter, Callers
  <2>2. QED
    BY <2>1
<1>5. SingleWriter'
  BY <1>3, <1>4 DEF Coherent, SingleWriter, Callers
<1>6. \A q \in Rooms : phase[q] # "base"
  <2>1. ASSUME NEW q \in Rooms, phase[q] = "base" PROVE FALSE
    <3>1. q = r
      BY <1>2, <2>1 DEF Coherent, SingleWriter, Writer
    <3>2. QED
      BY <1>1, <2>1, <3>1 DEF PhasesInOrder, Callers
  <2>2. QED
    BY <2>1
<1>7. WriterIsCurrent'
  BY <1>1, <1>4, <1>6 DEF Coherent, WriterIsCurrent
<1>8. Stored \subseteq Stored'
  <2>1. base \subseteq base'
    BY <1>1 DEF Coherent
  <2>2. ASSUME NEW row \in log PROVE row.update \in Stored'
    <3>1. CASE row.id <= fold[r][k].boundary
      BY <1>1, <3>1 DEF Coherent, Stored
    <3>2. CASE row.id > fold[r][k].boundary
      BY <3>2 DEF CommitFold, Stored, Logged
    <3>3. row.id \in Nat /\ fold[r][k].boundary \in Nat
      BY DEF TypeOK, Folds
    <3>4. QED
      BY <3>1, <3>2, <3>3
  <2>3. QED
    BY <2>1, <2>2 DEF Stored, Logged
<1>9. ASSUME NEW q \in Rooms, phase'[q] = "live" PROVE Stored' \subseteq doc'[q]
  <2>1. q = r
    BY <1>1, <1>2, <1>9 DEF Coherent, SingleWriter, Writer
  <2>2. fold[r][k].state \subseteq doc[r] /\ Stored \subseteq doc[r]
    BY <1>1, <1>9, <2>1 DEF Coherent, WriterIsCurrent
  <2>3. QED
    BY <1>1, <2>1, <2>2 DEF CommitFold, Stored, Logged
<1>10. QED
  BY <1>4, <1>5, <1>7, <1>8, <1>9 DEF Coherent

\* No step without overlap breaks the coherence of the writer with the store, nor
\* takes an edit out of the store.
LEMMA CoherentStep ==
    ASSUME TypeOK, TypeOK', IdsBelowNext, PhasesInOrder, Coherent,
           [Next]_vars, ~contended'
    PROVE  Coherent' /\ Stored \subseteq Stored'
<1> USE DEF storeVars, roomVars
<1>a. ASSUME base' = base, log' = log PROVE Stored \subseteq Stored'
  BY <1>a DEF Stored, Logged
<1>1. CASE Crash
  <2>1. \A q \in Rooms : phase'[q] \notin {"base", "live"}
    BY <1>1 DEF Crash, Alive
  <2>2. QED
    BY <1>1, <1>a, <2>1, QuietCoherent DEF Crash
<1>2. ASSUME NEW r \in Rooms, RoomStep(r) PROVE Coherent' /\ Stored \subseteq Stored'
  <2>1. CASE Open(r) \/ LoadFails(r)
    <3>1. /\ phase'[r] \notin {"base", "live"}
          /\ \A q \in Rooms \ {r} : phase'[q] = phase[q] /\ doc'[q] = doc[q]
      BY <2>1 DEF Open, LoadFails, TypeOK
    <3>2. base' = base /\ log' = log /\ insert' = insert /\ fold' = fold
      BY <2>1 DEF Open, LoadFails
    <3>3. QED
      BY <1>a, <3>1, <3>2, QuietCoherent
  <2>2. CASE ReadBase(r)
    BY <2>2, <1>a, ReadBaseCoherent DEF ReadBase
  <2>3. CASE ReadLog(r)
    BY <2>3, <1>a, ReadLogCoherent DEF ReadLog
  <2>4. ASSUME NEW u \in Updates, Edit(r, u) PROVE Coherent' /\ Stored \subseteq Stored'
    BY <2>4, <1>a, EditCoherent DEF Edit
  <2>5. ASSUME NEW u \in Updates, AppendAnswered(r, u) PROVE Coherent' /\ Stored \subseteq Stored'
    <3>1. /\ phase' = phase /\ doc' = doc /\ base' = base /\ log' = log
          /\ phase[r] \in {"live", "closing", "closed"}
      BY <2>5 DEF AppendAnswered, Alive, PhasesInOrder, TypeOK, Phases
    <3>2. /\ insert'[r][u].stage = "answered" /\ insert'[r][u].id = insert[r][u].id
          /\ \A q \in Rooms, v \in Updates : (q # r \/ v # u) => insert'[q][v] = insert[q][v]
      <4>1. insert' = [insert EXCEPT ![r][u].stage = "answered"]
        BY <2>5 DEF AppendAnswered
      <4>2. "answered" \in InsertStages
        BY DEF InsertStages
      <4>3. insert'[r][u].stage = "answered"
        BY <4>1 DEF TypeOK, Inserts
      <4>4. insert'[r][u].id = insert[r][u].id
        BY <4>1, <4>2, InsertMoved
      <4>5. \A v \in Updates \ {u} : insert'[r][v] = insert[r][v]
        BY <4>1, <4>2, InsertMoved
      <4>6. \A q \in Rooms \ {r} : insert'[q] = insert[q]
        BY <4>1, <4>2, InsertMoved
      <4>7. QED
        BY <4>3, <4>4, <4>5, <4>6
    <3>3. \A q \in Rooms, v \in Updates :
             /\ insert'[q][v].id = insert[q][v].id
             /\ insert'[q][v].stage \in {"sent", "numbered"} => insert'[q][v] = insert[q][v]
      BY <3>2
    <3>4. PICK w \in Nat, d \in Nat : ScheduleCompaction(r, w, d)
      BY <2>5, AnsweredSchedules
    <3>5. CASE fold' = fold
      BY <1>a, <3>1, <3>3, <3>5, QuietCoherent
    <3>6. CASE ~Closed(r) /\ ~Compacting(r) /\ Compact(r, "run", w, d)
      <4>1. phase[r] = "live"
        BY <3>1, <3>6 DEF Closed
      <4>2. \A c \in Callers \ {"run"} : fold[r][c].stage # "sent"
        BY <4>1 DEF Callers, PhasesInOrder
      <4>3. Coherent'
        BY <3>1, <3>3, <3>6, <4>1, <4>2, CompactCoherent DEF Callers
      <4>4. QED
        BY <1>a, <3>1, <4>3
    <3>7. QED
      BY <3>4, <3>5, <3>6, ScheduleStartsRunFold
  <2>6. CASE IdleTimerFires(r)
    <3>1. /\ phase' = phase /\ doc' = doc /\ base' = base /\ log' = log /\ insert' = insert
          /\ phase[r] = "live"
      BY <2>6 DEF IdleTimerFires, PhasesInOrder
    <3>2. CASE fold' = fold
      BY <1>a, <3>1, <3>2, QuietCoherent
    <3>3. CASE Compact(r, "run", watermark[r], dirty[r])
      <4>1. \A c \in Callers \ {"run"} : fold[r][c].stage # "sent"
        BY <3>1 DEF Callers, PhasesInOrder
      <4>2. Coherent'
        BY <3>1, <3>3, <4>1, CompactCoherent DEF Callers
      <4>3. QED
        BY <1>a, <3>1, <4>2
    <3>4. QED
      BY <2>6, <3>2, <3>3 DEF IdleTimerFires, RunCompaction
  <2>7. CASE RunAnswered(r) \/ RunFails(r) \/ DestroyReturns(r)
    <3>1. \E c \in Callers : fold' = [fold EXCEPT ![r][c] = NoFold]
      BY <2>7 DEF RunAnswered, RunFails, DestroyReturns, Callers
    <3>2. \A q \in Rooms, c \in Callers :
              fold'[q][c].stage = "sent" => fold'[q][c] = fold[q][c]
      BY <3>1, FoldCleared
    <3>3. /\ base' = base /\ log' = log /\ insert' = insert /\ doc' = doc
          /\ \A q \in Rooms : phase'[q] \in {"base", "live"} => phase'[q] = phase[q]
      BY <2>7 DEF RunAnswered, RunFails, DestroyReturns, TypeOK
    <3>4. QED
      BY <1>a, <3>2, <3>3, QuietCoherent
  <2>8. CASE Destroy(r)
    <3>1. /\ base' = base /\ log' = log /\ insert' = insert /\ doc' = doc
          /\ phase[r] = "live"
      BY <2>8 DEF Destroy
    <3>2. CASE phase' = [phase EXCEPT ![r] = "closed"] /\ fold' = fold
      <4>1. \A q \in Rooms : phase'[q] \in {"base", "live"} => phase'[q] = phase[q]
        BY <3>2 DEF TypeOK
      <4>2. QED
        BY <1>a, <3>1, <3>2, <4>1, QuietCoherent
    <3>3. CASE /\ phase' = [phase EXCEPT ![r] = "closing"]
               /\ Compact(r, "final", watermark[r], 0)
               /\ contended' = (contended \/ fold[r]["run"].stage = "sent")
      <4>1. \A c \in Callers \ {"final"} : fold[r][c].stage # "sent"
        BY <3>3 DEF Callers
      <4>2. Coherent'
        BY <3>1, <3>3, <4>1, CompactCoherent DEF Callers
      <4>3. QED
        BY <1>a, <3>1, <4>2
    <3>4. QED
      BY <2>8, <3>2, <3>3 DEF Destroy
  <2>9. QED
    BY <1>2, <2>1, <2>2, <2>3, <2>4, <2>5, <2>6, <2>7, <2>8 DEF RoomStep
<1>3. ASSUME NEW r \in Rooms, StoreStep(r) PROVE Coherent' /\ Stored \subseteq Stored'
  <2>1. ASSUME NEW u \in Updates, NumberRow(r, u) PROVE Coherent' /\ Stored \subseteq Stored'
    BY <2>1, <1>a, NumberRowCoherent DEF NumberRow
  <2>2. ASSUME NEW u \in Updates, CommitRow(r, u) PROVE Coherent' /\ Stored \subseteq Stored'
    BY <2>2, CommitRowCoherent DEF CommitRow, Stored, Logged
  <2>3. ASSUME NEW u \in Updates, DropInsert(r, u) PROVE Coherent' /\ Stored \subseteq Stored'
    <3>1. insert' = [insert EXCEPT ![r][u] = NoInsert] /\ NoInsert.stage = "none"
      BY <2>3 DEF DropInsert, NoInsert
    <3>2. \A q \in Rooms, v \in Updates :
              insert'[q][v].stage \in {"sent", "numbered"} => insert'[q][v] = insert[q][v]
      BY <3>1 DEF TypeOK
    <3>3. QED
      BY <1>a, <2>3, <3>2, QuietCoherent DEF DropInsert
  <2>4. ASSUME NEW c \in Callers, CommitFold(r, c) PROVE Coherent' /\ Stored \subseteq Stored'
    BY <2>4, CommitFoldCoherent
  <2>5. ASSUME NEW c \in Callers, DropFold(r, c) PROVE Coherent' /\ Stored \subseteq Stored'
    <3>1. \A q \in Rooms, k \in Callers :
              fold'[q][k].stage = "sent" => fold'[q][k] = fold[q][k]
      <4>1. fold' = [fold EXCEPT ![r][c] = NoFold]
        BY <2>5 DEF DropFold
      <4>2. /\ fold'[r][c].stage = "none"
            /\ \A k \in Callers \ {c} : fold'[r][k] = fold[r][k]
            /\ \A q \in Rooms \ {r} : fold'[q] = fold[q]
        BY <4>1, FoldCleared
      <4>3. QED
        BY <4>2
    <3>2. QED
      BY <1>a, <2>5, <3>1, QuietCoherent DEF DropFold
  <2>6. QED
    BY <1>3, <2>1, <2>2, <2>3, <2>4, <2>5 DEF StoreStep
<1>4. CASE UNCHANGED vars
  BY <1>4, <1>a, QuietCoherent DEF vars
<1>5. QED
  BY <1>1, <1>2, <1>3, <1>4 DEF Next

-----------------------------------------------------------------------------
(***************************************************************************)
(* The count of a room: rows with ids of their own, folds that carry what  *)
(* they took off dirtyCount, and what a room that counts nothing has folded. *)
(***************************************************************************)

\* The pending count of a compact call is the count it was given.
LEMMA CompactPending ==
    ASSUME TypeOK, NEW r \in Rooms, NEW k \in Callers, NEW w, NEW d, Compact(r, k, w, d)
    PROVE  fold'[r][k].pending = d
<1> DEFINE new == [stage |-> "sent", state |-> doc[r], boundary |-> w, pending |-> d]
<1>1. fold' = [fold EXCEPT ![r][k] = new] /\ new.pending = d
  BY DEF Compact
<1> HIDE DEF new
<1>2. QED
  BY <1>1 DEF TypeOK

\* scheduleCompaction and runCompaction either keep the count or hand all of it
\* to the fold they start.
LEMMA CountKeptOrHanded ==
    ASSUME NEW r \in Rooms, NEW w \in Nat, NEW d \in Nat,
           ScheduleCompaction(r, w, d) \/ RunCompaction(r, w, d)
    PROVE  \/ fold' = fold /\ dirty' = [dirty EXCEPT ![r] = d]
           \/ /\ ~Compacting(r) /\ d > 0
              /\ dirty' = [dirty EXCEPT ![r] = 0]
              /\ Compact(r, "run", w, d)
              /\ ScheduleCompaction(r, w, d) => ~Closed(r)
BY DEF ScheduleCompaction, RunCompaction

\* An answered append counts one more row and schedules a compaction with it;
\* the watermark it leaves covers its row and all it covered before.
LEMMA AnsweredCounts ==
    ASSUME TypeOK, NEW r \in Rooms, NEW u \in Updates, AppendAnswered(r, u)
    PROVE  \E w \in Nat, d \in Nat :
               /\ insert[r][u].id <= w /\ watermark[r] <= w
               /\ watermark' = [watermark EXCEPT ![r] = w]
               /\ d > 0
               /\ ScheduleCompaction(r, w, d)
<1> DEFINE id == insert[r][u].id
           w  == IF id > watermark[r] THEN id ELSE watermark[r]
           d  == dirty[r] + 1
<1>1. /\ id \in Nat /\ watermark[r] \in Nat
      /\ w \in Nat /\ id <= w /\ watermark[r] <= w
      /\ d \in Nat /\ d > 0
  BY DEF TypeOK, Inserts
<1>2. watermark' = [watermark EXCEPT ![r] = w] /\ ScheduleCompaction(r, w, d)
  BY DEF AppendAnswered
<1> HIDE DEF w, d
<1>3. QED
  BY <1>1, <1>2

\* An append whose stage is not yet answered, or is, has the id it was given.
LEMMA RowIds ==
    ASSUME TypeOK, NEW r \in Rooms, NEW u \in Updates
    PROVE  insert[r][u].id \in Nat /\ insert[r][u].stage \in InsertStages
BY DEF TypeOK, Inserts

\* Ids are given out once: the rows of a room stay apart under every step.
LEMMA IdsApartStep ==
    ASSUME TypeOK, TypeOK', IdsBelowNext, IdsApart, [Next]_vars
    PROVE  IdsApart'
<1> USE DEF storeVars, roomVars
<1>a. ASSUME \A q \in Rooms, v \in Updates :
                 insert'[q][v].stage \notin {"none", "sent"} =>
                     /\ insert[q][v].stage \notin {"none", "sent"}
                     /\ insert'[q][v].id = insert[q][v].id
      PROVE  IdsApart'
  BY <1>a DEF IdsApart
<1>b. ASSUME insert' = insert PROVE IdsApart'
  BY <1>b DEF IdsApart
<1>1. CASE Crash
  BY <1>1, <1>b DEF Crash
<1>2. ASSUME NEW r \in Rooms, RoomStep(r) PROVE IdsApart'
  <2>1. ASSUME NEW u \in Updates, Edit(r, u) PROVE IdsApart'
    <3>1. insert' = [insert EXCEPT ![r][u] = [stage |-> "sent", id |-> 0]]
      BY <2>1 DEF Edit
    <3>2. /\ insert'[r][u].stage = "sent"
          /\ \A q \in Rooms, v \in Updates : (q # r \/ v # u) => insert'[q][v] = insert[q][v]
      BY <3>1 DEF TypeOK
    <3>3. QED
      BY <3>2, <1>a
  <2>2. ASSUME NEW u \in Updates, AppendAnswered(r, u) PROVE IdsApart'
    <3>1. /\ insert' = [insert EXCEPT ![r][u].stage = "answered"]
          /\ insert[r][u].stage = "committed"
      BY <2>2 DEF AppendAnswered
    <3>2. /\ insert'[r][u].id = insert[r][u].id
          /\ \A q \in Rooms, v \in Updates : (q # r \/ v # u) => insert'[q][v] = insert[q][v]
      BY <3>1, InsertMoved DEF InsertStages
    <3>3. QED
      BY <3>1, <3>2, <1>a
  <2>3. CASE \/ Open(r) \/ ReadBase(r) \/ ReadLog(r) \/ LoadFails(r) \/ IdleTimerFires(r)
             \/ RunAnswered(r) \/ RunFails(r) \/ Destroy(r) \/ DestroyReturns(r)
    BY <2>3, <1>b DEF Open, ReadBase, ReadLog, LoadFails, IdleTimerFires, RunAnswered,
                      RunFails, Destroy, DestroyReturns
  <2>4. QED
    BY <1>2, <2>1, <2>2, <2>3 DEF RoomStep
<1>3. ASSUME NEW r \in Rooms, StoreStep(r) PROVE IdsApart'
  <2>1. ASSUME NEW u \in Updates, NumberRow(r, u) PROVE IdsApart'
    <3>1. insert' = [insert EXCEPT ![r][u] = [stage |-> "numbered", id |-> nextId]]
      BY <2>1 DEF NumberRow
    <3>2. /\ insert'[r][u].id = nextId
          /\ \A q \in Rooms, v \in Updates : (q # r \/ v # u) => insert'[q][v] = insert[q][v]
      BY <3>1 DEF TypeOK
    <3>3. \A q \in Rooms, v \in Updates : insert[q][v].id # nextId
      BY RowIds DEF IdsBelowNext, TypeOK
    <3>4. QED
      BY <3>2, <3>3 DEF IdsApart
  <2>2. ASSUME NEW u \in Updates, CommitRow(r, u) PROVE IdsApart'
    <3>1. /\ insert' = [insert EXCEPT ![r][u].stage = "committed"]
          /\ insert[r][u].stage = "numbered"
      BY <2>2 DEF CommitRow
    <3>2. /\ insert'[r][u].id = insert[r][u].id
          /\ \A q \in Rooms, v \in Updates : (q # r \/ v # u) => insert'[q][v] = insert[q][v]
      BY <3>1, InsertMoved DEF InsertStages
    <3>3. QED
      BY <3>1, <3>2, <1>a
  <2>3. ASSUME NEW u \in Updates, DropInsert(r, u) PROVE IdsApart'
    <3>1. insert' = [insert EXCEPT ![r][u] = NoInsert] /\ NoInsert.stage = "none"
      BY <2>3 DEF DropInsert, NoInsert
    <3>2. \A q \in Rooms, v \in Updates :
              insert'[q][v].stage # "none" => insert'[q][v] = insert[q][v]
      BY <3>1 DEF TypeOK
    <3>3. QED
      BY <3>2, <1>a
  <2>4. ASSUME NEW c \in Callers, CommitFold(r, c) \/ DropFold(r, c) PROVE IdsApart'
    BY <2>4, <1>b DEF CommitFold, DropFold
  <2>5. QED
    BY <1>3, <2>1, <2>2, <2>3, <2>4 DEF StoreStep
<1>4. CASE UNCHANGED vars
  BY <1>4, <1>b DEF vars
<1>5. QED
  BY <1>1, <1>2, <1>3, <1>4 DEF Next

\* A live room keeps the edits it appended and the ids it was answered.
LEMMA AppendsKnownStep ==
    ASSUME TypeOK, TypeOK', PhasesInOrder, AppendsKnown, [Next]_vars
    PROVE  AppendsKnown'
<1> USE DEF storeVars, roomVars
<1>a. ASSUME \A q \in Rooms : phase'[q] = "live" =>
                 /\ phase[q] = "live" /\ doc[q] \subseteq doc'[q]
                 /\ watermark'[q] = watermark[q]
                 /\ \A v \in Updates :
                        /\ insert'[q][v].stage # "none" => insert[q][v].stage # "none"
                        /\ insert'[q][v].stage = "answered" => insert'[q][v] = insert[q][v]
      PROVE  AppendsKnown'
  BY <1>a DEF AppendsKnown
<1>1. CASE Crash
  BY <1>1, <1>a DEF Crash, Alive, TypeOK
<1>2. ASSUME NEW r \in Rooms, RoomStep(r) PROVE AppendsKnown'
  <2>1. CASE Open(r) \/ ReadBase(r) \/ LoadFails(r) \/ Destroy(r) \/ DestroyReturns(r)
    BY <2>1, <1>a DEF Open, ReadBase, LoadFails, Destroy, DestroyReturns, TypeOK
  <2>2. CASE ReadLog(r)
    <3>1. \A v \in Updates : insert'[r][v].stage = "none"
      BY <2>2 DEF ReadLog, PhasesInOrder
    <3>2. /\ insert' = insert
          /\ \A q \in Rooms \ {r} : /\ phase'[q] = phase[q] /\ doc'[q] = doc[q]
                                    /\ watermark'[q] = watermark[q]
      BY <2>2 DEF ReadLog, TypeOK
    <3>3. QED
      BY <3>1, <3>2 DEF AppendsKnown
  <2>3. ASSUME NEW u \in Updates, Edit(r, u) PROVE AppendsKnown'
    <3>1. /\ insert' = [insert EXCEPT ![r][u] = [stage |-> "sent", id |-> 0]]
          /\ phase' = phase /\ watermark' = watermark
      BY <2>3 DEF Edit
    <3>2. /\ insert'[r][u].stage = "sent"
          /\ \A q \in Rooms, v \in Updates : (q # r \/ v # u) => insert'[q][v] = insert[q][v]
      BY <3>1 DEF TypeOK
    <3>3. \A q \in Rooms : doc[q] \subseteq doc'[q] /\ u \in doc'[r]
      BY <2>3 DEF Edit, TypeOK
    <3>4. QED
      BY <3>1, <3>2, <3>3 DEF AppendsKnown
  <2>4. ASSUME NEW u \in Updates, AppendAnswered(r, u) PROVE AppendsKnown'
    <3>1. PICK w \in Nat : /\ insert[r][u].id <= w /\ watermark[r] <= w
                           /\ watermark' = [watermark EXCEPT ![r] = w]
      BY <2>4, AnsweredCounts
    <3>2. /\ insert' = [insert EXCEPT ![r][u].stage = "answered"]
          /\ insert[r][u].stage = "committed"
          /\ phase' = phase /\ doc' = doc
      BY <2>4 DEF AppendAnswered
    <3>3. /\ insert'[r][u].id = insert[r][u].id
          /\ \A q \in Rooms, v \in Updates : (q # r \/ v # u) => insert'[q][v] = insert[q][v]
      BY <3>2, InsertMoved DEF InsertStages
    <3>4. /\ watermark'[r] = w /\ \A q \in Rooms \ {r} : watermark'[q] = watermark[q]
          /\ watermark[r] \in Nat
      BY <3>1 DEF TypeOK
    <3>5. ASSUME NEW q \in Rooms, NEW v \in Updates, phase'[q] = "live"
          PROVE  /\ insert'[q][v].stage # "none" => v \in doc'[q]
                 /\ insert'[q][v].stage = "answered" => insert'[q][v].id <= watermark'[q]
      <4>1. CASE q = r /\ v = u
        BY <3>1, <3>2, <3>3, <3>4, <3>5, <4>1 DEF AppendsKnown
      <4>2. CASE q = r /\ v # u
        <5>1. insert[q][v].id \in Nat
          BY RowIds
        <5>2. insert'[q][v] = insert[q][v] /\ phase[q] = "live"
          BY <3>2, <3>3, <3>5, <4>2
        <5>3. QED
          BY <3>1, <3>2, <3>4, <4>2, <5>1, <5>2 DEF AppendsKnown
      <4>3. CASE q # r
        BY <3>2, <3>3, <3>4, <3>5, <4>3 DEF AppendsKnown
      <4>4. QED
        BY <4>1, <4>2, <4>3
    <3>6. QED
      BY <3>5 DEF AppendsKnown
  <2>5. CASE IdleTimerFires(r) \/ RunAnswered(r) \/ RunFails(r)
    BY <2>5, <1>a DEF IdleTimerFires, RunAnswered, RunFails
  <2>6. QED
    BY <1>2, <2>1, <2>2, <2>3, <2>4, <2>5 DEF RoomStep
<1>3. ASSUME NEW r \in Rooms, StoreStep(r) PROVE AppendsKnown'
  <2>1. ASSUME NEW u \in Updates, NumberRow(r, u) \/ CommitRow(r, u) \/ DropInsert(r, u)
        PROVE  AppendsKnown'
    <3>1. phase' = phase /\ doc' = doc /\ watermark' = watermark
      BY <2>1 DEF NumberRow, CommitRow, DropInsert
    <3>2. /\ insert'[r][u].stage \in {"numbered", "committed", "none"}
          /\ insert[r][u].stage # "none"
          /\ \A q \in Rooms, v \in Updates : (q # r \/ v # u) => insert'[q][v] = insert[q][v]
      <4>1. CASE NumberRow(r, u)
        BY <4>1 DEF NumberRow, TypeOK
      <4>2. CASE CommitRow(r, u)
        BY <4>2, InsertMoved DEF CommitRow, InsertStages
      <4>3. CASE DropInsert(r, u)
        BY <4>3 DEF DropInsert, NoInsert, TypeOK
      <4>4. QED
        BY <2>1, <4>1, <4>2, <4>3
    <3>3. QED
      BY <3>1, <3>2, <1>a
  <2>2. ASSUME NEW c \in Callers, CommitFold(r, c) \/ DropFold(r, c) PROVE AppendsKnown'
    BY <2>2, <1>a DEF CommitFold, DropFold
  <2>3. QED
    BY <1>3, <2>1, <2>2 DEF StoreStep
<1>4. CASE UNCHANGED vars
  BY <1>4, <1>a DEF vars
<1>5. QED
  BY <1>1, <1>2, <1>3, <1>4 DEF Next

\* What becomes of a fold in one step: it stays, is cleared, is sent, or commits.
LEMMA FoldMoves ==
    ASSUME TypeOK, [Next]_vars, NEW q \in Rooms, NEW c \in Callers
    PROVE  \/ fold'[q][c] = fold[q][c]
           \/ fold'[q][c] = NoFold
           \/ fold'[q][c].stage = "sent"
           \/ /\ fold[q][c].stage = "sent" /\ fold'[q][c].stage = "committed"
              /\ fold'[q][c].state = fold[q][c].state
              /\ fold'[q][c].pending = fold[q][c].pending
              /\ base' = fold[q][c].state
<1> USE DEF storeVars, roomVars
<1>a. CASE fold' = fold
  BY <1>a
<1>b. ASSUME NEW r \in Rooms, NEW k \in Callers, NEW w, NEW d, Compact(r, k, w, d)
      PROVE  fold'[q][c] = fold[q][c] \/ fold'[q][c].stage = "sent"
  BY <1>b, CompactEffect
<1>c. ASSUME NEW r \in Rooms, NEW k \in Callers, fold' = [fold EXCEPT ![r][k] = NoFold]
      PROVE  fold'[q][c] = fold[q][c] \/ fold'[q][c] = NoFold
  BY <1>c DEF TypeOK
<1>1. CASE Crash
  BY <1>1, <1>a DEF Crash
<1>2. ASSUME NEW r \in Rooms, RoomStep(r)
      PROVE  \/ fold'[q][c] = fold[q][c] \/ fold'[q][c] = NoFold
             \/ fold'[q][c].stage = "sent"
  <2>1. CASE Open(r) \/ ReadBase(r) \/ ReadLog(r) \/ LoadFails(r) \/ \E u \in Updates : Edit(r, u)
    BY <2>1 DEF Open, ReadBase, ReadLog, LoadFails, Edit
  <2>2. ASSUME NEW u \in Updates, AppendAnswered(r, u)
        PROVE  fold'[q][c] = fold[q][c] \/ fold'[q][c].stage = "sent"
    <3>1. PICK w \in Nat, d \in Nat : ScheduleCompaction(r, w, d)
      BY <2>2, AnsweredSchedules
    <3>2. QED
      BY <3>1, <1>b, ScheduleStartsRunFold DEF Callers
  <2>3. CASE IdleTimerFires(r)
    <3>1. fold' = fold \/ Compact(r, "run", watermark[r], dirty[r])
      BY <2>3 DEF IdleTimerFires, RunCompaction
    <3>2. QED
      BY <3>1, <1>b DEF Callers
  <2>4. CASE RunAnswered(r) \/ RunFails(r) \/ DestroyReturns(r)
    <3>1. \E k \in Callers : fold' = [fold EXCEPT ![r][k] = NoFold]
      BY <2>4 DEF RunAnswered, RunFails, DestroyReturns, Callers
    <3>2. QED
      BY <3>1, <1>c
  <2>5. CASE Destroy(r)
    <3>1. fold' = fold \/ Compact(r, "final", watermark[r], 0)
      BY <2>5 DEF Destroy
    <3>2. QED
      BY <3>1, <1>b DEF Callers
  <2>6. QED
    BY <1>2, <2>1, <2>2, <2>3, <2>4, <2>5 DEF RoomStep
<1>3. ASSUME NEW r \in Rooms, NEW u \in Updates,
             NumberRow(r, u) \/ CommitRow(r, u) \/ DropInsert(r, u)
      PROVE  fold' = fold
  BY <1>3 DEF NumberRow, CommitRow, DropInsert
<1>4. ASSUME NEW r \in Rooms, NEW k \in Callers, DropFold(r, k)
      PROVE  fold'[q][c] = fold[q][c] \/ fold'[q][c] = NoFold
  BY <1>4, <1>c DEF DropFold
<1>5. ASSUME NEW r \in Rooms, NEW k \in Callers, CommitFold(r, k)
      PROVE  \/ fold'[q][c] = fold[q][c]
             \/ /\ fold[q][c].stage = "sent" /\ fold'[q][c].stage = "committed"
                /\ fold'[q][c].state = fold[q][c].state
                /\ fold'[q][c].pending = fold[q][c].pending
                /\ base' = fold[q][c].state
  <2>1. /\ fold' = [fold EXCEPT ![r][k].stage = "committed"]
        /\ fold[r][k].stage = "sent" /\ base' = fold[r][k].state
    BY <1>5 DEF CommitFold
  <2>2. CASE q = r /\ c = k
    <3>1. fold[r][k] \in Folds
      BY DEF TypeOK
    <3>2. fold'[r][k] = [fold[r][k] EXCEPT !.stage = "committed"]
      BY <2>1 DEF TypeOK
    <3>3. QED
      BY <2>1, <2>2, <3>1, <3>2 DEF Folds
  <2>3. CASE ~(q = r /\ c = k)
    BY <2>1, <2>3 DEF TypeOK
  <2>4. QED
    BY <2>2, <2>3
<1>6. CASE UNCHANGED vars
  BY <1>6, <1>a DEF vars
<1>7. QED
  BY <1>1, <1>2, <1>3, <1>4, <1>5, <1>6 DEF Next, StoreStep

\* A run fold is only started with a count to carry, and keeps it.
LEMMA FoldCarriesCountStep ==
    ASSUME TypeOK, TypeOK', PhasesInOrder, FoldCarriesCount, [Next]_vars
    PROVE  FoldCarriesCount'
<1> USE DEF storeVars, roomVars
<1> SUFFICES ASSUME NEW q \in Rooms, fold'[q]["run"].stage # "none"
             PROVE  fold'[q]["run"].pending > 0
  BY DEF FoldCarriesCount, Compacting
<1>a. CASE fold'[q]["run"].stage = "sent" /\ fold'[q]["run"] # fold[q]["run"]
  <2>a. ASSUME NEW r \in Rooms, NEW w \in Nat, NEW d \in Nat, d > 0, Compact(r, "run", w, d)
        PROVE  fold'[q]["run"].pending > 0
    <3>1. fold'[r]["run"].pending = d /\ \A p \in Rooms \ {r} : fold'[p] = fold[p]
      BY <2>a, CompactPending, CompactEffect DEF Callers
    <3>2. QED
      BY <1>a, <2>a, <3>1
  <2>b. ASSUME NEW r \in Rooms, NEW k \in Callers, fold' = [fold EXCEPT ![r][k] = NoFold]
        PROVE  FALSE
    BY <1>a, <2>b DEF TypeOK, NoFold, Callers
  <2>1. CASE Crash \/ UNCHANGED vars
    BY <1>a, <2>1 DEF Crash, vars
  <2>2. ASSUME NEW r \in Rooms, RoomStep(r) PROVE fold'[q]["run"].pending > 0
    <3>1. CASE Open(r) \/ ReadBase(r) \/ ReadLog(r) \/ LoadFails(r) \/ \E u \in Updates : Edit(r, u)
      BY <1>a, <3>1 DEF Open, ReadBase, ReadLog, LoadFails, Edit
    <3>2. ASSUME NEW u \in Updates, AppendAnswered(r, u) PROVE fold'[q]["run"].pending > 0
      BY <1>a, <2>a, <3>2, AnsweredCounts, CountKeptOrHanded
    <3>3. CASE IdleTimerFires(r)
      <4>1. watermark[r] \in Nat /\ dirty[r] \in Nat /\ RunCompaction(r, watermark[r], dirty[r])
        BY <3>3 DEF IdleTimerFires, TypeOK
      <4>2. QED
        BY <1>a, <2>a, <4>1, CountKeptOrHanded
    <3>4. CASE RunAnswered(r) \/ RunFails(r) \/ DestroyReturns(r)
      BY <2>b, <3>4 DEF RunAnswered, RunFails, DestroyReturns, Callers
    <3>5. CASE Destroy(r)
      <4>1. fold' = fold \/ Compact(r, "final", watermark[r], 0)
        BY <3>5 DEF Destroy
      <4>2. "run" \in Callers \ {"final"} /\ "final" \in Callers
        BY DEF Callers
      <4>3. fold'[q]["run"] = fold[q]["run"]
        BY <4>1, <4>2, CompactEffect
      <4>4. QED
        BY <1>a, <4>3
    <3>6. QED
      BY <2>2, <3>1, <3>2, <3>3, <3>4, <3>5 DEF RoomStep
  <2>3. ASSUME NEW r \in Rooms, StoreStep(r) PROVE FALSE
    <3>1. ASSUME NEW u \in Updates, NumberRow(r, u) \/ CommitRow(r, u) \/ DropInsert(r, u)
          PROVE  FALSE
      BY <1>a, <3>1 DEF NumberRow, CommitRow, DropInsert
    <3>2. ASSUME NEW k \in Callers, DropFold(r, k) PROVE FALSE
      BY <2>b, <3>2 DEF DropFold
    <3>3. ASSUME NEW k \in Callers, CommitFold(r, k) PROVE FALSE
      <4>1. fold' = [fold EXCEPT ![r][k].stage = "committed"]
        BY <3>3 DEF CommitFold
      <4>2. "committed" \in FoldStages
        BY DEF FoldStages
      <4>3. fold'[r][k].stage = "committed"
        BY <4>1 DEF TypeOK, Folds
      <4>4. \A p \in Rooms, c \in Callers : (p # r \/ c # k) => fold'[p][c] = fold[p][c]
        BY <4>1, <4>2, FoldMoved
      <4>5. QED
        BY <1>a, <4>3, <4>4 DEF Callers
    <3>4. QED
      BY <2>3, <3>1, <3>2, <3>3 DEF StoreStep
  <2>4. QED
    BY <2>1, <2>2, <2>3 DEF Next
<1>b. CASE fold'[q]["run"] = fold[q]["run"]
  BY <1>b DEF FoldCarriesCount, Compacting
<1>c. CASE fold'[q]["run"] = NoFold
  BY <1>c DEF NoFold
<1>d. CASE /\ fold[q]["run"].stage = "sent" /\ fold'[q]["run"].stage = "committed"
           /\ fold'[q]["run"].pending = fold[q]["run"].pending
  BY <1>d DEF FoldCarriesCount, Compacting
<1>e. QED
  BY <1>a, <1>b, <1>c, <1>d, FoldMoves DEF Callers

\* CountIsHonest without its hypothesis.
Counted ==
    \A r \in Rooms, u \in Updates :
        /\ phase[r] = "live" /\ dirty[r] = 0
        /\ insert[r][u].stage = "answered"
        => IF fold[r]["run"].stage = "sent" THEN Captured(r, u) ELSE Folded(r, u)

\* A step that leaves the store alone and neither answers an append nor sends or
\* commits the fold of a room that counts nothing keeps Counted.
LEMMA QuietCounted ==
    ASSUME Counted, base' = base, log' = log,
           \A q \in Rooms, v \in Updates :
               /\ phase'[q] = "live" /\ dirty'[q] = 0
               /\ insert'[q][v].stage = "answered"
               => /\ phase[q] = "live" /\ dirty[q] = 0
                  /\ insert[q][v].stage = "answered"
                  /\ insert'[q][v].id = insert[q][v].id
                  /\ \/ fold'[q]["run"] = fold[q]["run"]
                     \/ fold[q]["run"].stage # "sent" /\ fold'[q]["run"].stage # "sent"
    PROVE  Counted'
<1> SUFFICES ASSUME NEW q \in Rooms, NEW v \in Updates,
                    phase'[q] = "live", dirty'[q] = 0, insert'[q][v].stage = "answered"
             PROVE  IF fold'[q]["run"].stage = "sent" THEN Captured(q, v)' ELSE Folded(q, v)'
  BY DEF Counted
<1>1. IF fold[q]["run"].stage = "sent" THEN Captured(q, v) ELSE Folded(q, v)
  BY DEF Counted
<1>2. insert'[q][v].id = insert[q][v].id
  OBVIOUS
<1>3. CASE fold'[q]["run"] = fold[q]["run"]
  BY <1>1, <1>2, <1>3 DEF Captured, Folded
<1>4. CASE fold[q]["run"].stage # "sent" /\ fold'[q]["run"].stage # "sent"
  BY <1>1, <1>2, <1>4 DEF Folded
<1>5. QED
  BY <1>3, <1>4

\* The fold that a room starts has captured every append it was answered.
LEMMA CompactCounted ==
    ASSUME TypeOK, Counted, base' = base, log' = log, phase' = phase,
           NEW r \in Rooms, NEW w \in Nat, NEW d, Compact(r, "run", w, d),
           \A q \in Rooms \ {r} : dirty'[q] = dirty[q],
           \A q \in Rooms \ {r} : insert'[q] = insert[q],
           \A v \in Updates : insert'[r][v].stage = "answered" =>
               v \in doc[r] /\ insert'[r][v].id <= w
    PROVE  Counted'
<1>1. /\ fold'[r]["run"].stage = "sent" /\ fold'[r]["run"].state = doc[r]
      /\ fold'[r]["run"].boundary = w
      /\ \A q \in Rooms \ {r} : fold'[q] = fold[q]
  BY CompactEffect DEF Callers
<1>2. ASSUME NEW v \in Updates, insert'[r][v].stage = "answered" PROVE Captured(r, v)'
  BY <1>1, <1>2 DEF Captured
<1>3. ASSUME NEW q \in Rooms \ {r}, NEW v \in Updates,
             phase'[q] = "live", dirty'[q] = 0, insert'[q][v].stage = "answered"
      PROVE  IF fold'[q]["run"].stage = "sent" THEN Captured(q, v)' ELSE Folded(q, v)'
  <2>1. IF fold[q]["run"].stage = "sent" THEN Captured(q, v) ELSE Folded(q, v)
    BY <1>3 DEF Counted
  <2>2. insert'[q] = insert[q] /\ fold'[q] = fold[q]
    BY <1>1
  <2>3. QED
    BY <2>1, <2>2 DEF Captured, Folded
<1>4. QED
  BY <1>1, <1>2, <1>3 DEF Counted

\* A live room that counts nothing keeps its promise under every step: an answer
\* is counted or handed to a fold, and only its own folds touch the store.
LEMMA CountedStep ==
    ASSUME TypeOK, TypeOK', PhasesInOrder, Coherent, IdsApart, AppendsKnown,
           FoldCarriesCount, Counted, [Next]_vars
    PROVE  Counted'
<1> USE DEF storeVars, roomVars
<1>a. CASE UNCHANGED vars
  BY <1>a, QuietCounted DEF vars
<1>1. CASE Crash
  <2>1. \A q \in Rooms : phase'[q] # "live"
    BY <1>1 DEF Crash, Alive
  <2>2. QED
    BY <2>1 DEF Counted
<1>2. ASSUME NEW r \in Rooms, RoomStep(r) PROVE Counted'
  <2>1. CASE Open(r) \/ ReadBase(r) \/ LoadFails(r)
    <3>1. /\ base' = base /\ log' = log /\ dirty' = dirty /\ insert' = insert /\ fold' = fold
          /\ \A q \in Rooms : phase'[q] = "live" => phase[q] = "live"
      BY <2>1 DEF Open, ReadBase, LoadFails, TypeOK
    <3>2. QED
      BY <3>1, QuietCounted
  <2>2. CASE ReadLog(r)
    <3>1. /\ base' = base /\ log' = log /\ dirty' = dirty /\ insert' = insert /\ fold' = fold
          /\ \A q \in Rooms \ {r} : phase'[q] = phase[q]
          /\ \A v \in Updates : insert[r][v].stage = "none"
      BY <2>2 DEF ReadLog, TypeOK, PhasesInOrder
    <3>2. \A q \in Rooms, v \in Updates :
              phase'[q] = "live" /\ insert'[q][v].stage = "answered" => phase[q] = "live"
      BY <3>1
    <3>3. QED
      BY <3>1, <3>2, QuietCounted
  <2>3. ASSUME NEW u \in Updates, Edit(r, u) PROVE Counted'
    <3>1. /\ base' = base /\ log' = log /\ dirty' = dirty /\ phase' = phase /\ fold' = fold
          /\ insert' = [insert EXCEPT ![r][u] = [stage |-> "sent", id |-> 0]]
      BY <2>3 DEF Edit
    <3>2. \A q \in Rooms, v \in Updates :
              insert'[q][v].stage = "answered" => insert'[q][v] = insert[q][v]
      BY <3>1 DEF TypeOK
    <3>3. QED
      BY <3>1, <3>2, QuietCounted
  <2>4. ASSUME NEW u \in Updates, AppendAnswered(r, u) PROVE Counted'
    <3>1. PICK w \in Nat, d \in Nat :
              /\ insert[r][u].id <= w /\ watermark[r] <= w
              /\ d > 0 /\ ScheduleCompaction(r, w, d)
      BY <2>4, AnsweredCounts
    <3>2. /\ base' = base /\ log' = log /\ phase' = phase
          /\ insert' = [insert EXCEPT ![r][u].stage = "answered"]
          /\ insert[r][u].stage = "committed" /\ Alive(r)
      BY <2>4 DEF AppendAnswered
    <3>3. /\ insert'[r][u].id = insert[r][u].id
          /\ \A q \in Rooms, v \in Updates : (q # r \/ v # u) => insert'[q][v] = insert[q][v]
          /\ \A q \in Rooms \ {r} : insert'[q] = insert[q]
      BY <3>2, InsertMoved DEF InsertStages
    <3>4. CASE fold' = fold /\ dirty' = [dirty EXCEPT ![r] = d]
      <4>1. dirty'[r] # 0 /\ \A q \in Rooms \ {r} : dirty'[q] = dirty[q]
        BY <3>1, <3>4 DEF TypeOK
      <4>2. QED
        BY <3>2, <3>3, <3>4, <4>1, QuietCounted
    <3>5. CASE /\ dirty' = [dirty EXCEPT ![r] = 0]
               /\ Compact(r, "run", w, d)
               /\ ~Closed(r)
      <4>1. phase[r] = "live"
        BY <3>2, <3>5 DEF Alive, Closed, PhasesInOrder, TypeOK, Phases
      <4>2. ASSUME NEW v \in Updates, insert'[r][v].stage = "answered"
            PROVE  v \in doc[r] /\ insert'[r][v].id <= w
        <5>1. CASE v = u
          BY <3>1, <3>2, <3>3, <4>1, <5>1 DEF AppendsKnown
        <5>2. CASE v # u
          <6>1. insert'[r][v] = insert[r][v]
            BY <3>3, <5>2
          <6>2. v \in doc[r] /\ insert[r][v].id <= watermark[r]
            BY <4>1, <4>2, <6>1 DEF AppendsKnown
          <6>3. insert[r][v].id \in Nat /\ watermark[r] \in Nat
            BY RowIds DEF TypeOK
          <6>4. QED
            BY <3>1, <6>1, <6>2, <6>3
        <5>3. QED
          BY <5>1, <5>2
      <4>3. \A q \in Rooms \ {r} : dirty'[q] = dirty[q]
        BY <3>5 DEF TypeOK
      <4>4. QED
        BY <3>2, <3>3, <3>5, <4>2, <4>3, CompactCounted
    <3>6. QED
      BY <3>1, <3>4, <3>5, CountKeptOrHanded
  <2>5. CASE IdleTimerFires(r)
    <3>1. /\ base' = base /\ log' = log /\ phase' = phase /\ insert' = insert
          /\ RunCompaction(r, watermark[r], dirty[r])
          /\ watermark[r] \in Nat /\ dirty[r] \in Nat /\ phase[r] = "live"
      BY <2>5 DEF IdleTimerFires, TypeOK, PhasesInOrder
    <3>2. CASE fold' = fold /\ dirty' = [dirty EXCEPT ![r] = dirty[r]]
      <4>1. dirty' = dirty
        BY <3>2 DEF TypeOK
      <4>2. QED
        BY <3>1, <3>2, <4>1, QuietCounted
    <3>3. CASE dirty' = [dirty EXCEPT ![r] = 0] /\ Compact(r, "run", watermark[r], dirty[r])
      <4>1. \A v \in Updates : insert'[r][v].stage = "answered" =>
                v \in doc[r] /\ insert'[r][v].id <= watermark[r]
        BY <3>1 DEF AppendsKnown
      <4>2. \A q \in Rooms \ {r} : dirty'[q] = dirty[q]
        BY <3>3 DEF TypeOK
      <4>3. QED
        BY <3>1, <3>3, <4>1, <4>2, CompactCounted
    <3>4. QED
      BY <3>1, <3>2, <3>3, CountKeptOrHanded
  <2>6. CASE RunAnswered(r)
    <3>1. /\ base' = base /\ log' = log /\ phase' = phase /\ insert' = insert /\ dirty' = dirty
          /\ fold' = [fold EXCEPT ![r]["run"] = NoFold] /\ fold[r]["run"].stage = "committed"
      BY <2>6 DEF RunAnswered
    <3>2. /\ fold'[r]["run"].stage = "none"
          /\ \A q \in Rooms \ {r} : fold'[q] = fold[q]
      BY <3>1, FoldCleared DEF Callers
    <3>3. QED
      BY <3>1, <3>2, QuietCounted
  <2>7. CASE RunFails(r)
    <3>1. /\ base' = base /\ log' = log /\ phase' = phase /\ insert' = insert
          /\ fold' = [fold EXCEPT ![r]["run"] = NoFold] /\ Compacting(r)
          /\ dirty' = [dirty EXCEPT ![r] = dirty[r] + fold[r]["run"].pending]
      BY <2>7 DEF RunFails
    <3>2. dirty[r] \in Nat /\ fold[r]["run"].pending \in Nat /\ fold[r]["run"].pending > 0
      BY <3>1 DEF FoldCarriesCount, TypeOK, Callers, Folds
    <3>3. dirty'[r] # 0 /\ \A q \in Rooms \ {r} : dirty'[q] = dirty[q]
      BY <3>1, <3>2 DEF TypeOK
    <3>4. \A q \in Rooms \ {r} : fold'[q] = fold[q]
      BY <3>1, FoldCleared DEF Callers
    <3>5. QED
      BY <3>1, <3>3, <3>4, QuietCounted
  <2>8. CASE Destroy(r)
    <3>1. /\ base' = base /\ log' = log /\ insert' = insert /\ dirty' = dirty
          /\ phase'[r] # "live" /\ \A q \in Rooms \ {r} : phase'[q] = phase[q]
      BY <2>8 DEF Destroy, TypeOK
    <3>2. \A q \in Rooms \ {r} : fold'[q] = fold[q]
      BY <2>8, CompactEffect DEF Destroy, Callers
    <3>3. QED
      BY <3>1, <3>2, QuietCounted
  <2>9. CASE DestroyReturns(r)
    <3>1. /\ base' = base /\ log' = log /\ insert' = insert /\ dirty' = dirty
          /\ phase'[r] # "live" /\ \A q \in Rooms \ {r} : phase'[q] = phase[q]
          /\ fold' = [fold EXCEPT ![r]["final"] = NoFold]
      BY <2>9 DEF DestroyReturns, TypeOK
    <3>2. \A q \in Rooms \ {r} : fold'[q] = fold[q]
      BY <3>1, FoldCleared DEF Callers
    <3>3. QED
      BY <3>1, <3>2, QuietCounted
  <2>10. QED
    BY <1>2, <2>1, <2>2, <2>3, <2>4, <2>5, <2>6, <2>7, <2>8, <2>9 DEF RoomStep
<1>3. ASSUME NEW r \in Rooms, StoreStep(r) PROVE Counted'
  <2>1. ASSUME NEW u \in Updates, NumberRow(r, u) \/ DropInsert(r, u) PROVE Counted'
    <3>1. /\ base' = base /\ log' = log /\ dirty' = dirty /\ phase' = phase /\ fold' = fold
      BY <2>1 DEF NumberRow, DropInsert
    <3>2. \A q \in Rooms, v \in Updates :
              insert'[q][v].stage = "answered" => insert'[q][v] = insert[q][v]
      <4>1. CASE NumberRow(r, u)
        BY <4>1 DEF NumberRow, TypeOK
      <4>2. CASE DropInsert(r, u)
        BY <4>2 DEF DropInsert, NoInsert, TypeOK
      <4>3. QED
        BY <2>1, <4>1, <4>2
    <3>3. QED
      BY <3>1, <3>2, QuietCounted
  <2>2. ASSUME NEW u \in Updates, CommitRow(r, u) PROVE Counted'
    <3>1. /\ base' = base /\ dirty' = dirty /\ phase' = phase /\ fold' = fold
          /\ log' = log \cup {[id |-> insert[r][u].id, update |-> u]}
          /\ insert' = [insert EXCEPT ![r][u].stage = "committed"]
          /\ insert[r][u].stage = "numbered"
      BY <2>2 DEF CommitRow
    <3>2. /\ insert'[r][u].stage = "committed"
          /\ \A q \in Rooms, v \in Updates : (q # r \/ v # u) => insert'[q][v] = insert[q][v]
      BY <3>1, InsertMoved DEF InsertStages
    <3>3. ASSUME NEW q \in Rooms, NEW v \in Updates,
                 phase'[q] = "live", dirty'[q] = 0, insert'[q][v].stage = "answered"
          PROVE  IF fold'[q]["run"].stage = "sent" THEN Captured(q, v)' ELSE Folded(q, v)'
      <4>1. insert'[q][v] = insert[q][v] /\ (q # r \/ v # u)
        BY <3>2, <3>3
      <4>2. IF fold[q]["run"].stage = "sent" THEN Captured(q, v) ELSE Folded(q, v)
        BY <3>1, <3>3, <4>1 DEF Counted
      <4>3. q = r
        BY <3>1, <3>3 DEF Coherent, SingleWriter, Writer, Unsettled
      <4>4. insert[q][v].id # insert[r][u].id
        BY <3>1, <3>3, <4>1, <4>3 DEF IdsApart
      <4>5. QED
        BY <3>1, <4>1, <4>2, <4>4 DEF Captured, Folded
    <3>4. QED
      BY <3>3 DEF Counted
  <2>3. ASSUME NEW c \in Callers, CommitFold(r, c) PROVE Counted'
    <3>1. /\ base' = fold[r][c].state /\ log' = {row \in log : row.id > fold[r][c].boundary}
          /\ insert' = insert /\ dirty' = dirty /\ phase' = phase
          /\ fold[r][c].stage = "sent"
          /\ fold' = [fold EXCEPT ![r][c].stage = "committed"]
      BY <2>3 DEF CommitFold
    <3>2. ASSUME NEW q \in Rooms, NEW v \in Updates,
                 phase'[q] = "live", dirty'[q] = 0, insert'[q][v].stage = "answered"
          PROVE  IF fold'[q]["run"].stage = "sent" THEN Captured(q, v)' ELSE Folded(q, v)'
      <4>1. q = r
        BY <3>1, <3>2 DEF Coherent, SingleWriter, Writer, Unsettled
      <4>2. c = "run"
        BY <3>1, <3>2, <4>1 DEF PhasesInOrder, Callers
      <4>3. Captured(q, v)
        BY <3>1, <3>2, <4>1, <4>2 DEF Counted
      <4>4. fold'[q]["run"].stage = "committed"
        BY <3>1, <4>1, <4>2, FoldMoved DEF FoldStages
      <4>5. /\ insert[q][v].id \in Nat /\ fold[q]["run"].boundary \in Nat
            /\ \A row \in log : row.id \in Nat
        BY RowIds DEF TypeOK, Folds, Callers
      <4>6. Folded(q, v)'
        BY <3>1, <4>1, <4>2, <4>3, <4>5 DEF Captured, Folded
      <4>7. QED
        BY <4>4, <4>6
    <3>3. QED
      BY <3>2 DEF Counted
  <2>4. ASSUME NEW c \in Callers, DropFold(r, c) PROVE Counted'
    <3>1. /\ base' = base /\ log' = log /\ insert' = insert /\ dirty' = dirty /\ phase' = phase
          /\ phase[r] = "dead" /\ fold' = [fold EXCEPT ![r][c] = NoFold]
      BY <2>4 DEF DropFold
    <3>2. \A q \in Rooms \ {r} : fold'[q] = fold[q]
      BY <3>1, FoldCleared
    <3>3. QED
      BY <3>1, <3>2, QuietCounted
  <2>5. QED
    BY <1>3, <2>1, <2>2, <2>3, <2>4 DEF StoreStep
<1>4. QED
  BY <1>1, <1>2, <1>3, <1>a DEF Next

\* contended is a history variable: it is never reset.
LEMMA ContendedIsKept == ASSUME contended, contended \in BOOLEAN, [Next]_vars PROVE contended'
BY DEF Next, vars, Crash, RoomStep, StoreStep, Open, ReadBase, ReadLog, LoadFails, Edit,
       AppendAnswered, IdleTimerFires, RunAnswered, RunFails, Destroy, DestroyReturns,
       NumberRow, CommitRow, DropInsert, CommitFold, DropFold

\* What folds captured stays stored for as long as nothing leaves the store.
LEMMA FoldsKeptStep ==
    ASSUME TypeOK, TypeOK', FoldsKept, [Next]_vars,
           ~contended' => ~contended /\ Stored \subseteq Stored'
    PROVE  FoldsKept'
<1> SUFFICES ASSUME NEW q \in Rooms, NEW c \in Callers
             PROVE  /\ fold'[q][c].stage = "none" => fold'[q][c].state = {}
                    /\ ~contended' /\ fold'[q][c].stage = "committed" =>
                           fold'[q][c].state \subseteq Stored'
  BY DEF FoldsKept
<1>1. CASE fold'[q][c] = fold[q][c]
  BY <1>1 DEF FoldsKept
<1>2. CASE fold'[q][c] = NoFold
  BY <1>2 DEF NoFold
<1>3. CASE fold'[q][c].stage = "committed" /\ fold'[q][c].state = base'
  BY <1>3 DEF Stored
<1>4. CASE fold'[q][c].stage = "sent"
  BY <1>4
<1>5. QED
  BY <1>1, <1>2, <1>3, <1>4, FoldMoves

\* Without a second writer the inductive invariant is coherence and a true count.
LEMMA IInvIsCoherent == IInv /\ ~contended => Coherent /\ Counted
BY DEF IInv, LiveRoomHoldsStore, FoldCoversTruncation, CountIsHonest, Coherent, Counted

\* The initial states satisfy the inductive invariant.
LEMMA IInvInit == Init => IInv
<1> SUFFICES ASSUME Init PROVE IInv
  OBVIOUS
<1>1. TypeOK
  BY InitType
<1>2. /\ \A r \in Rooms : phase[r] = "unborn" /\ timer[r] = FALSE /\ watermark[r] = 0
      /\ \A r \in Rooms, u \in Updates : insert[r][u].stage = "none" /\ insert[r][u].id = 0
      /\ \A r \in Rooms, c \in Callers : fold[r][c].stage = "none" /\ fold[r][c].boundary = 0
      /\ log = {} /\ nextId = 1
  BY DEF Init, NoInsert, NoFold
<1>3. IdsBelowNext /\ PhasesInOrder
  BY <1>2 DEF IdsBelowNext, PhasesInOrder, Callers
<1>4. SingleWriter /\ WriterIsCurrent
  BY <1>2 DEF SingleWriter, WriterIsCurrent, Writer, Unsettled, Callers
<1>5. LiveRoomHoldsStore /\ FoldCoversTruncation
  BY <1>2 DEF LiveRoomHoldsStore, FoldCoversTruncation
<1>6. IdsApart /\ AppendsKnown /\ FoldCarriesCount /\ CountIsHonest
  BY <1>2 DEF IdsApart, AppendsKnown, FoldCarriesCount, CountIsHonest, Compacting, Callers
<1>7. FoldsKept
  BY <1>2 DEF FoldsKept, Init, NoFold
<1>8. QED
  BY <1>1, <1>3, <1>4, <1>5, <1>6, <1>7 DEF IInv

\* The step of the induction, and what it says of the store.
LEMMA IInvStep ==
    ASSUME IInv, [Next]_vars
    PROVE  IInv' /\ (~contended' => Stored \subseteq Stored')
<1>1. /\ TypeOK /\ IdsBelowNext /\ PhasesInOrder
      /\ IdsApart /\ AppendsKnown /\ FoldCarriesCount /\ FoldsKept
  BY DEF IInv
<1>2. TypeOK'
  BY <1>1, TypeStep
<1>3. IdsBelowNext' /\ PhasesInOrder'
  BY <1>1, <1>2, IdsStep, PhasesStep
<1>4. IdsApart' /\ AppendsKnown' /\ FoldCarriesCount'
  BY <1>1, <1>2, IdsApartStep, AppendsKnownStep, FoldCarriesCountStep
<1>5. ~contended' => ~contended
  BY <1>1, ContendedIsKept DEF TypeOK
<1>6. ~contended' => Coherent' /\ Counted' /\ Stored \subseteq Stored'
  BY <1>1, <1>2, <1>5, IInvIsCoherent, CoherentStep, CountedStep
<1>7. FoldsKept'
  BY <1>1, <1>2, <1>5, <1>6, FoldsKeptStep
<1>8. /\ (~contended => SingleWriter /\ WriterIsCurrent)'
      /\ LiveRoomHoldsStore' /\ FoldCoversTruncation' /\ CountIsHonest'
  BY <1>6 DEF Coherent, Counted, LiveRoomHoldsStore, FoldCoversTruncation, CountIsHonest
<1>9. QED
  BY <1>2, <1>3, <1>4, <1>6, <1>7, <1>8 DEF IInv

-----------------------------------------------------------------------------
(***************************************************************************)
(* Refinement: every step of rooms and store is an edit, a save, a loss, an *)
(* overlap or a stutter of CollabDocument.                                 *)
(***************************************************************************)

\* Only edits are stored or pending, before and after a step.
LEMMA DocumentType ==
    /\ TypeOK => Stored \in SUBSET Updates /\ Pending \in SUBSET Updates
    /\ TypeOK' => Stored' \in SUBSET Updates /\ Pending' \in SUBSET Updates
BY DEF TypeOK, Stored, Logged, Pending

\* Once writers have overlapped, any step is allowed.
LEMMA OverlapMaps == ASSUME TypeOK', contended' PROVE Document!Next
<1>1. Stored' \in SUBSET Updates /\ (Pending \ Stored)' \in SUBSET Updates
  BY DocumentType
<1>2. contended' = TRUE
  BY Zenon DEF TypeOK
<1>3. Document!Overlap
  BY <1>1, <1>2 DEF Document!Overlap
<1>4. QED
  BY <1>3 DEF Document!Next

\* A step that stores nothing and adds nothing to what is pending loses edits.
LEMMA LossMaps ==
    ASSUME contended' = contended, Stored' = Stored, Pending' \subseteq Pending \cup Stored
    PROVE  Document!Next
<1> DEFINE lost == (Pending \ Stored) \ (Pending \ Stored)'
<1>1. lost \in SUBSET (Pending \ Stored)
  OBVIOUS
<1>2. (Pending \ Stored)' = (Pending \ Stored) \ lost
  OBVIOUS
<1>3. Document!Lose(lost)
  BY <1>2 DEF Document!Lose
<1>4. QED
  BY <1>1, <1>3 DEF Document!Next

\* A step that stores only what was pending, and keeps the rest pending, saves.
LEMMA SaveMaps ==
    ASSUME contended' = contended, Stored \subseteq Stored', Stored' \subseteq Stored \cup Pending,
           Pending \subseteq Pending' \cup Stored', Pending' \subseteq Pending \cup Stored'
    PROVE  Document!Next
<1> DEFINE saved == Stored' \ Stored
<1>1. saved \in SUBSET (Pending \ Stored)
  OBVIOUS
<1>2. Stored' = Stored \cup saved /\ (Pending \ Stored)' = (Pending \ Stored) \ saved
  OBVIOUS
<1>3. Document!Save(saved)
  BY <1>2 DEF Document!Save
<1>4. QED
  BY <1>1, <1>3 DEF Document!Next

\* What adds nothing to the pending edits: documents that go live hold what is
\* stored or was pending, no append is sent, and folds capture what was pending.
LEMMA NothingAdded ==
    ASSUME TypeOK, TypeOK',
           \A q \in Rooms : phase'[q] = "live" => doc'[q] \subseteq Pending \cup Stored,
           \A q \in Rooms, v \in Updates :
               insert'[q][v].stage \in {"sent", "numbered"} =>
                   insert[q][v].stage \in {"sent", "numbered"},
           \A q \in Rooms, c \in Callers : fold'[q][c].state \subseteq Pending \cup Stored
    PROVE  Pending' \subseteq Pending \cup Stored
<1> SUFFICES ASSUME NEW u \in Pending' PROVE u \in Pending \cup Stored
  OBVIOUS
<1>1. PICK q \in Rooms :
          \/ phase'[q] = "live" /\ u \in doc'[q]
          \/ insert'[q][u].stage \in {"sent", "numbered"}
          \/ \E c \in Callers : u \in fold'[q][c].state
  BY DEF Pending
<1>2. CASE insert'[q][u].stage \in {"sent", "numbered"}
  BY <1>2 DEF Pending
<1>3. QED
  BY <1>1, <1>2

\* Documents that are live, and states that folds captured, are pending.
LEMMA PendingHolds ==
    ASSUME TypeOK
    PROVE  /\ \A q \in Rooms : phase[q] = "live" => doc[q] \subseteq Pending
           /\ \A q \in Rooms, c \in Callers : fold[q][c].state \subseteq Pending
BY DEF Pending, TypeOK, Folds

\* An edit is new to the document: neither stored nor pending anywhere.
LEMMA EditMaps ==
    ASSUME IInv, TypeOK', ~contended, NEW r \in Rooms, NEW u \in Updates, Edit(r, u)
    PROVE  Document!Next
<1>1. /\ TypeOK /\ PhasesInOrder /\ FoldsKept /\ SingleWriter /\ WriterIsCurrent
      /\ Stored \subseteq doc[r]
  BY DEF IInv, LiveRoomHoldsStore, Edit
<1>2. /\ phase[r] = "live" /\ u \notin doc[r]
      /\ phase' = phase /\ fold' = fold /\ contended' = contended
      /\ insert' = [insert EXCEPT ![r][u] = [stage |-> "sent", id |-> 0]]
      /\ doc' = [doc EXCEPT ![r] = @ \cup {u}]
      /\ Stored' = Stored
  BY DEF Edit, storeVars, Stored, Logged
<1>3. \A q \in Rooms : Writer(q) => q = r
  BY <1>1, <1>2 DEF SingleWriter, Writer
<1>4. u \notin Pending
  <2>1. ~ \E q \in Rooms : phase[q] = "live" /\ u \in doc[q]
    BY <1>2, <1>3 DEF Writer
  <2>2. ~ \E q \in Rooms : insert[q][u].stage \in {"sent", "numbered"}
    BY <1>1, <1>2, <1>3 DEF Writer, Unsettled, WriterIsCurrent
  <2>3. ASSUME NEW q \in Rooms, NEW c \in Callers, u \in fold[q][c].state PROVE FALSE
    <3>1. fold[q][c].stage \in {"none", "sent", "committed"}
      BY <1>1 DEF TypeOK, Folds, FoldStages
    <3>2. CASE fold[q][c].stage = "none"
      BY <1>1, <2>3, <3>2 DEF FoldsKept
    <3>3. CASE fold[q][c].stage = "sent"
      BY <1>1, <1>2, <1>3, <2>3, <3>3 DEF Writer, Unsettled, WriterIsCurrent
    <3>4. CASE fold[q][c].stage = "committed"
      BY <1>1, <1>2, <2>3, <3>4 DEF FoldsKept
    <3>5. QED
      BY <3>1, <3>2, <3>3, <3>4
  <2>4. QED
    BY <2>1, <2>2, <2>3 DEF Pending
<1>5. Pending' = Pending \cup {u}
  <2>1. /\ insert'[r][u].stage = "sent"
        /\ \A q \in Rooms, v \in Updates : (q # r \/ v # u) => insert'[q][v] = insert[q][v]
    BY <1>1, <1>2 DEF TypeOK
  <2>2. \A q \in Rooms : doc[q] \subseteq doc'[q] /\ doc'[q] \subseteq doc[q] \cup {u}
    BY <1>1, <1>2 DEF TypeOK
  <2>3. ASSUME NEW v PROVE v \in Pending' <=> v \in Pending \cup {u}
    BY <1>2, <2>1, <2>2 DEF Pending
  <2>4. QED
    BY <2>3
<1>6. (Pending \ Stored)' = (Pending \ Stored) \cup {u}
  BY <1>1, <1>2, <1>5
<1>7. Document!Edit(u)
  BY <1>1, <1>2, <1>4, <1>6 DEF Document!Edit
<1>8. QED
  BY <1>7 DEF Document!Next

\* A row that commits was pending as an append.
LEMMA CommitRowMaps ==
    ASSUME IInv, TypeOK', NEW r \in Rooms, NEW u \in Updates, CommitRow(r, u)
    PROVE  Document!Next
<1>1. TypeOK
  BY DEF IInv
<1>2. /\ phase' = phase /\ doc' = doc /\ fold' = fold /\ contended' = contended
      /\ insert[r][u].stage = "numbered"
      /\ insert' = [insert EXCEPT ![r][u].stage = "committed"]
  BY DEF CommitRow, roomVars
<1>3. /\ insert'[r][u].stage = "committed"
      /\ \A q \in Rooms, v \in Updates : (q # r \/ v # u) => insert'[q][v] = insert[q][v]
  BY <1>1, <1>2, InsertMoved DEF InsertStages
<1>4. Stored' = Stored \cup {u}
  <2> DEFINE row == [id |-> insert[r][u].id, update |-> u]
  <2>1. base' = base /\ log' = log \cup {row} /\ row.update = u
    BY DEF CommitRow
  <2> HIDE DEF row
  <2>2. Logged' = Logged \cup {u}
    BY <2>1 DEF Logged
  <2>3. QED
    BY <2>1, <2>2 DEF Stored
<1>5. u \in Pending
  BY <1>2 DEF Pending
<1>6. ASSUME NEW v, v # u PROVE v \in Pending' <=> v \in Pending
  BY <1>2, <1>3, <1>6 DEF Pending
<1>7. QED
  BY <1>2, <1>4, <1>5, <1>6, SaveMaps

\* A fold that commits stores what it captured, which was pending.
LEMMA CommitFoldMaps ==
    ASSUME IInv, TypeOK', Stored \subseteq Stored',
           NEW r \in Rooms, NEW k \in Callers, CommitFold(r, k)
    PROVE  Document!Next
<1>1. TypeOK
  BY DEF IInv
<1>2. /\ phase' = phase /\ doc' = doc /\ insert' = insert /\ contended' = contended
      /\ fold' = [fold EXCEPT ![r][k].stage = "committed"]
  BY DEF CommitFold, roomVars
<1>3. \A q \in Rooms, c \in Callers : fold'[q][c].state = fold[q][c].state
  BY <1>1, <1>2 DEF TypeOK, Folds
<1>4. Stored' \subseteq Stored \cup Pending
  <2>1. fold[r][k].state \subseteq Pending
    BY <1>1, PendingHolds
  <2>2. QED
    BY <2>1 DEF CommitFold, Stored, Logged
<1>5. ASSUME NEW v PROVE v \in Pending' <=> v \in Pending
  BY <1>2, <1>3 DEF Pending
<1>6. QED
  BY <1>2, <1>4, <1>5, SaveMaps

\* The steps that neither make nor store an edit.
LEMMA QuietMaps ==
    ASSUME IInv, TypeOK', ~contended, contended' = contended, base' = base, log' = log,
           \A q \in Rooms : phase'[q] = "live" =>
               (phase[q] = "live" /\ doc'[q] = doc[q]) \/ doc'[q] \subseteq Stored,
           \A q \in Rooms, v \in Updates :
               insert'[q][v].stage \in {"sent", "numbered"} =>
                   insert[q][v].stage \in {"sent", "numbered"},
           \A q \in Rooms, c \in Callers :
               \/ fold'[q][c] = fold[q][c]
               \/ fold'[q][c] = NoFold
               \/ phase[q] = "live" /\ fold'[q][c].state = doc[q]
    PROVE  Document!Next
<1>1. TypeOK /\ Stored' = Stored
  BY DEF IInv, Stored, Logged
<1>2. \A q \in Rooms : phase'[q] = "live" => doc'[q] \subseteq Pending \cup Stored
  BY <1>1, PendingHolds
<1>3. \A q \in Rooms, c \in Callers : fold'[q][c].state \subseteq Pending \cup Stored
  BY <1>1, PendingHolds DEF NoFold
<1>4. Pending' \subseteq Pending \cup Stored
  BY <1>1, <1>2, <1>3, NothingAdded
<1>5. QED
  BY <1>1, <1>4, LossMaps

\* Every step of rooms and store is a step of the document.
LEMMA StepMaps ==
    ASSUME IInv, TypeOK', ~contended, ~contended', Stored \subseteq Stored', Next
    PROVE  Document!Next
<1> USE DEF storeVars, roomVars
<1>a. TypeOK /\ PhasesInOrder
  BY DEF IInv
<1>b. contended' = contended
  BY <1>a, Zenon DEF TypeOK
<1>1. CASE Crash
  <2>1. \A q \in Rooms : phase'[q] # "live"
    BY <1>1 DEF Crash, Alive
  <2>2. QED
    BY <1>1, <1>b, <2>1, QuietMaps DEF Crash
<1>2. ASSUME NEW r \in Rooms, RoomStep(r) PROVE Document!Next
  <2>1. CASE Open(r) \/ ReadBase(r) \/ LoadFails(r)
    <3>1. /\ base' = base /\ log' = log /\ insert' = insert /\ fold' = fold
          /\ \A q \in Rooms : phase'[q] = "live" => phase[q] = "live" /\ doc'[q] = doc[q]
      BY <1>a, <2>1 DEF Open, ReadBase, LoadFails, TypeOK
    <3>2. QED
      BY <1>b, <3>1, QuietMaps
  <2>2. CASE ReadLog(r)
    <3>1. /\ base' = base /\ log' = log /\ insert' = insert /\ fold' = fold
          /\ \A q \in Rooms \ {r} : phase'[q] = phase[q] /\ doc'[q] = doc[q]
          /\ doc'[r] = doc[r] \cup Logged /\ phase[r] = "base"
      BY <1>a, <2>2 DEF ReadLog, TypeOK
    <3>2. doc'[r] = Stored
      BY <3>1 DEF IInv, WriterIsCurrent, Stored
    <3>3. QED
      BY <1>b, <3>1, <3>2, QuietMaps
  <2>3. ASSUME NEW u \in Updates, Edit(r, u) PROVE Document!Next
    BY <2>3, EditMaps
  <2>4. ASSUME NEW u \in Updates, AppendAnswered(r, u) PROVE Document!Next
    <3>1. /\ base' = base /\ log' = log /\ phase' = phase /\ doc' = doc /\ Alive(r)
          /\ insert' = [insert EXCEPT ![r][u].stage = "answered"]
          /\ insert[r][u].stage = "committed"
      BY <2>4 DEF AppendAnswered
    <3>2. /\ insert'[r][u].stage = "answered"
          /\ \A q \in Rooms, v \in Updates : (q # r \/ v # u) => insert'[q][v] = insert[q][v]
      BY <1>a, <3>1, InsertMoved DEF InsertStages
    <3>3. \A q \in Rooms, v \in Updates :
              insert'[q][v].stage \in {"sent", "numbered"} =>
                  insert[q][v].stage \in {"sent", "numbered"}
      BY <3>2
    <3>4. PICK w \in Nat, d \in Nat : ScheduleCompaction(r, w, d)
      BY <1>a, <2>4, AnsweredSchedules
    <3>5. CASE fold' = fold
      BY <1>b, <3>1, <3>3, <3>5, QuietMaps
    <3>6. CASE ~Closed(r) /\ Compact(r, "run", w, d)
      <4>1. phase[r] = "live"
        BY <1>a, <3>1, <3>6 DEF Alive, Closed, PhasesInOrder, TypeOK, Phases
      <4>2. \A q \in Rooms, c \in Callers :
                fold'[q][c] = fold[q][c] \/ (phase[q] = "live" /\ fold'[q][c].state = doc[q])
        BY <1>a, <3>6, <4>1, CompactEffect DEF Callers
      <4>3. QED
        BY <1>b, <3>1, <3>3, <4>2, QuietMaps
    <3>7. QED
      BY <3>4, <3>5, <3>6, ScheduleStartsRunFold
  <2>5. CASE IdleTimerFires(r)
    <3>1. /\ base' = base /\ log' = log /\ phase' = phase /\ doc' = doc /\ insert' = insert
          /\ phase[r] = "live"
          /\ fold' = fold \/ Compact(r, "run", watermark[r], dirty[r])
      BY <1>a, <2>5 DEF IdleTimerFires, PhasesInOrder, RunCompaction
    <3>2. \A q \in Rooms, c \in Callers :
              fold'[q][c] = fold[q][c] \/ (phase[q] = "live" /\ fold'[q][c].state = doc[q])
      BY <1>a, <3>1, CompactEffect DEF Callers
    <3>3. QED
      BY <1>b, <3>1, <3>2, QuietMaps
  <2>6. CASE RunAnswered(r) \/ RunFails(r) \/ DestroyReturns(r)
    <3>1. /\ base' = base /\ log' = log /\ doc' = doc /\ insert' = insert
          /\ \A q \in Rooms : phase'[q] = "live" => phase[q] = "live"
          /\ \E k \in Callers : fold' = [fold EXCEPT ![r][k] = NoFold]
      BY <1>a, <2>6 DEF RunAnswered, RunFails, DestroyReturns, TypeOK, Callers
    <3>2. \A q \in Rooms, c \in Callers : fold'[q][c] = fold[q][c] \/ fold'[q][c] = NoFold
      BY <1>a, <3>1 DEF TypeOK
    <3>3. QED
      BY <1>b, <3>1, <3>2, QuietMaps
  <2>7. CASE Destroy(r)
    <3>1. /\ base' = base /\ log' = log /\ doc' = doc /\ insert' = insert /\ phase[r] = "live"
          /\ \A q \in Rooms : phase'[q] = "live" => phase[q] = "live"
          /\ fold' = fold \/ Compact(r, "final", watermark[r], 0)
      BY <1>a, <2>7 DEF Destroy, TypeOK
    <3>2. \A q \in Rooms, c \in Callers :
              fold'[q][c] = fold[q][c] \/ (phase[q] = "live" /\ fold'[q][c].state = doc[q])
      BY <1>a, <3>1, CompactEffect DEF Callers
    <3>3. QED
      BY <1>b, <3>1, <3>2, QuietMaps
  <2>8. QED
    BY <1>2, <2>1, <2>2, <2>3, <2>4, <2>5, <2>6, <2>7 DEF RoomStep
<1>3. ASSUME NEW r \in Rooms, StoreStep(r) PROVE Document!Next
  <2>1. ASSUME NEW u \in Updates, NumberRow(r, u) \/ DropInsert(r, u) PROVE Document!Next
    <3>1. base' = base /\ log' = log /\ phase' = phase /\ doc' = doc /\ fold' = fold
      BY <2>1 DEF NumberRow, DropInsert
    <3>2. \A q \in Rooms, v \in Updates :
              insert'[q][v].stage \in {"sent", "numbered"} =>
                  insert[q][v].stage \in {"sent", "numbered"}
      <4>1. CASE NumberRow(r, u)
        BY <1>a, <4>1 DEF NumberRow, TypeOK
      <4>2. CASE DropInsert(r, u)
        BY <1>a, <4>2 DEF DropInsert, NoInsert, TypeOK
      <4>3. QED
        BY <2>1, <4>1, <4>2
    <3>3. QED
      BY <1>b, <3>1, <3>2, QuietMaps
  <2>2. ASSUME NEW u \in Updates, CommitRow(r, u) PROVE Document!Next
    BY <2>2, CommitRowMaps
  <2>3. ASSUME NEW c \in Callers, CommitFold(r, c) PROVE Document!Next
    BY <2>3, CommitFoldMaps
  <2>4. ASSUME NEW c \in Callers, DropFold(r, c) PROVE Document!Next
    <3>1. /\ base' = base /\ log' = log /\ doc' = doc /\ insert' = insert /\ phase' = phase
          /\ fold' = [fold EXCEPT ![r][c] = NoFold]
      BY <2>4 DEF DropFold
    <3>2. \A q \in Rooms, k \in Callers : fold'[q][k] = fold[q][k] \/ fold'[q][k] = NoFold
      BY <1>a, <3>1 DEF TypeOK
    <3>3. QED
      BY <1>b, <3>1, <3>2, QuietMaps
  <2>5. QED
    BY <1>3, <2>1, <2>2, <2>3, <2>4 DEF StoreStep
<1>4. QED
  BY <1>1, <1>2, <1>3 DEF Next

\* The initial states of rooms and store are initial states of the document.
LEMMA InitMaps == Init => Document!Init
<1> SUFFICES ASSUME Init PROVE Document!Init
  OBVIOUS
<1>1. Stored = {} /\ contended = FALSE
  BY DEF Init, Stored, Logged
<1>2. Pending = {}
  BY DEF Init, Pending, NoInsert, NoFold, Callers
<1>3. QED
  BY <1>1, <1>2 DEF Document!Init

-----------------------------------------------------------------------------
(***************************************************************************)
(* The theorems.                                                           *)
(***************************************************************************)

\* The inductive invariant holds in every reachable state.
THEOREM Invariance == Spec => []IInv
<1>1. IInv /\ [Next]_vars => IInv'
  BY IInvStep
<1>2. QED
  BY <1>1, IInvInit, PTL DEF Spec

\* A live room never lags behind its store (loadDoc, persistUpdate, compact).
THEOREM LiveRoomHoldsStoreAlways == Spec => []LiveRoomHoldsStore
<1>1. IInv => LiveRoomHoldsStore
  BY DEF IInv
<1>2. QED
  BY <1>1, Invariance, PTL

\* No fold deletes a row, or overwrites a base, that it has not captured (compact).
THEOREM FoldCoversTruncationAlways == Spec => []FoldCoversTruncation
<1>1. IInv => FoldCoversTruncation
  BY DEF IInv
<1>2. QED
  BY <1>1, Invariance, PTL

\* dirtyCount loses no append across folds that overlap appends, fail or lose
\* their answer (runCompaction, scheduleCompaction).
THEOREM CleanRoomIsFoldedAlways == Spec => []CleanRoomIsFolded
<1>1. IInv => CleanRoomIsFolded
  <2> SUFFICES ASSUME IInv, ~contended,
                      NEW r \in Rooms, phase[r] = "live", dirty[r] = 0, ~Compacting(r),
                      NEW u \in Updates, insert[r][u].stage = "answered"
               PROVE  u \in base /\ insert[r][u].id \notin {row.id : row \in log}
    BY DEF CleanRoomIsFolded
  <2>1. fold[r]["run"].stage # "sent"
    BY DEF Compacting
  <2>2. QED
    BY <2>1 DEF IInv, CountIsHonest, Folded
<1>2. QED
  BY <1>1, Invariance, PTL

\* As long as writers do not overlap, no step - append, fold, crash or late
\* answer - takes a committed edit out of what the next load rebuilds.
THEOREM CommittedEditsAlwaysSurvive == Spec => CommittedEditsSurvive
<1>1. IInv /\ [Next]_vars => [~contended' => Stored \subseteq Stored']_vars
  BY IInvStep
<1>2. QED
  BY <1>1, Invariance, PTL DEF Spec, CommittedEditsSurvive

\* Rooms, store and process deaths implement the document: an edit is made once,
\* becomes durable or is lost unsaved, and once durable stays so until writers
\* overlap (room.ts and persistence.ts together).
THEOREM RoomsImplementDocument == Spec => ImplementsDocument
<1>1. IInv /\ IInv' /\ [Next]_vars => [Document!Next]_(Document!vars)
  <2> SUFFICES ASSUME IInv, IInv', [Next]_vars PROVE [Document!Next]_(Document!vars)
    OBVIOUS
  <2>1. TypeOK /\ TypeOK' /\ (~contended' => Stored \subseteq Stored')
    BY IInvStep DEF IInv
  <2>2. CASE contended'
    BY <2>1, <2>2, OverlapMaps
  <2>3. CASE ~contended' /\ Next
    BY <2>1, <2>3, ContendedIsKept, StepMaps DEF TypeOK
  <2>4. CASE UNCHANGED vars
    BY <2>4 DEF vars, storeVars, roomVars, Document!vars, Stored, Logged, Pending
  <2>5. QED
    BY <2>2, <2>3, <2>4
<1>2. QED
  BY <1>1, InitMaps, Invariance, PTL DEF Spec, ImplementsDocument, Document!Spec
=============================================================================
