-------------------------- MODULE CollabServerProofs --------------------------
(***************************************************************************)
(* Proofs about CollabServer, for every set of updates, rooms and sockets:  *)
(* the server drives its rooms only by steps of CollabRoom, so what is      *)
(* proved of rooms holds of the server; racing connections share one room;  *)
(* members are served; overlaps come from teardown alone.  And about         *)
(* Backplane, for every set of replicas and updates: replicas converge.     *)
(***************************************************************************)
EXTENDS CollabServer, CollabRoomProofs, Backplane, FiniteSetTheorems, WellFoundedInduction,
        SequenceTheorems

(***************************************************************************)
(* What the steps of a room do to its phase, and to no other.              *)
(***************************************************************************)

\* A step of one room or of the store other than a load or a teardown keeps
\* every phase; of the phases that count, only closing changes.
LEMMA BackgroundPhases ==
    ASSUME TypeOK, NEW r \in Rooms,
           \/ \E u \in Updates : AppendAnswered(r, u) \/ Edit(r, u)
           \/ IdleTimerFires(r) \/ RunAnswered(r) \/ RunFails(r) \/ StoreStep(r)
    PROVE  phase' = phase
BY DEF AppendAnswered, Edit, IdleTimerFires, RunAnswered, RunFails, StoreStep, NumberRow,
       CommitRow, DropInsert, CommitFold, DropFold, roomVars

\* Closing a room changes its phase alone.
LEMMA DestroyPhases ==
    ASSUME TypeOK, NEW r \in Rooms, Destroy(r)
    PROVE  /\ phase[r] = "live" /\ phase'[r] \in {"closing", "closed"}
           /\ \A q \in Rooms \ {r} : phase'[q] = phase[q]
BY DEF Destroy, TypeOK

\* Every step of the server that touches its room touches a room that exists,
\* and is a step of CollabRoom; the others leave rooms and store alone.
LEMMA ServerStepIsRoomStep ==
    ASSUME ServerTypeOK, SocketsInOrder, [ServerNext]_allVars
    PROVE  [Next]_vars
<1>1. ASSUME NEW s \in Sockets, JoinLive(s) \/ AwaitLoad(s) \/ CloseUnheard(s)
      PROVE  UNCHANGED vars
  BY <1>1 DEF JoinLive, AwaitLoad, CloseUnheard
<1>2. ASSUME NEW s \in Sockets, NEW r \in Rooms, StartLoad(s, r) PROVE Next
  BY <1>2 DEF StartLoad, Next, RoomStep
<1>3. ASSUME NEW s \in Sockets, socket[s].at = "joined" PROVE socket[s].room \in Rooms
  BY <1>3 DEF SocketsInOrder, ServerTypeOK
<1>4. ASSUME NEW s \in Sockets, CloseSocket(s) PROVE [Next]_vars
  <2>1. socket[s].room \in Rooms
    BY <1>3, <1>4 DEF CloseSocket
  <2>2. UNCHANGED vars \/ Destroy(socket[s].room)
    BY <1>4 DEF CloseSocket
  <2>3. QED
    BY <2>1, <2>2 DEF Next, RoomStep
<1>5. ASSUME NEW s \in Sockets, NEW u \in Updates, SocketEdits(s, u) PROVE Next
  <2>1. socket[s].room \in Rooms /\ Edit(socket[s].room, u)
    BY <1>3, <1>5 DEF SocketEdits
  <2>2. QED
    BY <2>1 DEF Next, RoomStep
<1>6. ASSUME NEW r \in Rooms, LoadResolves(r) \/ LoadRejects(r) \/ Background(r) PROVE Next
  BY <1>6 DEF LoadResolves, LoadRejects, Background, Next, RoomStep
<1>7. CASE ServerCrash
  BY <1>7 DEF ServerCrash, Next
<1>8. CASE UNCHANGED allVars
  BY <1>8 DEF allVars
<1>9. QED
  BY <1>1, <1>2, <1>4, <1>5, <1>6, <1>7, <1>8 DEF ServerNext

-----------------------------------------------------------------------------
(***************************************************************************)
(* The registry and its sockets.                                           *)
(***************************************************************************)

\* The initial states satisfy the inductive invariant.
LEMMA ServerIInvInit == ServerInit => ServerIInv
<1> SUFFICES ASSUME ServerInit PROVE ServerIInv
  OBVIOUS
<1>1. TypeOK
  BY InitType DEF ServerInit
<1>2. Away \in SocketStates /\ Away.at = "away"
  BY DEF Away, SocketStates
<1>3. socket \in [Sockets -> SocketStates] /\ \A s \in Sockets : socket[s].at = "away"
  BY <1>2 DEF ServerInit
<1>4. registry = NoRoom /\ loading = NoRoom /\ \A r \in Rooms : phase[r] = "unborn"
  BY DEF ServerInit, Init
<1>5. QED
  BY <1>1, <1>3, <1>4 DEF ServerIInv, ServerTypeOK, RegistryInOrder, SocketsInOrder

\* The registry's variables keep their types.
LEMMA ServerTypeStep ==
    ASSUME ServerTypeOK, SocketsInOrder, [ServerNext]_allVars
    PROVE  ServerTypeOK'
<1> USE DEF serverVars
<1>a. TypeOK'
  BY ServerStepIsRoomStep, TypeStep DEF ServerTypeOK
<1>b. \A s \in Sockets : socket[s] \in SocketStates
  BY DEF ServerTypeOK
<1>c. Away \in SocketStates
  BY DEF Away, SocketStates
<1>d. \A r \in Rooms \cup {NoRoom}, at \in {"waiting", "joined"} :
          [at |-> at, room |-> r, open |-> TRUE] \in SocketStates
  BY DEF SocketStates
<1>e. \A x \in SocketStates : [x EXCEPT !.at = "joined"] \in SocketStates
                           /\ [x EXCEPT !.open = FALSE] \in SocketStates
  BY DEF SocketStates
<1> SUFFICES /\ registry' \in Rooms \cup {NoRoom} /\ loading' \in Rooms \cup {NoRoom}
             /\ socket' \in [Sockets -> SocketStates]
  BY <1>a DEF ServerTypeOK
<1>1. ASSUME NEW s \in Sockets, JoinLive(s) \/ AwaitLoad(s)
      PROVE  /\ registry' = registry /\ loading' = loading
             /\ socket' \in [Sockets -> SocketStates]
  BY <1>1, <1>d DEF JoinLive, AwaitLoad, ServerTypeOK
<1>2. ASSUME NEW s \in Sockets, CloseUnheard(s)
      PROVE  /\ registry' = registry /\ loading' = loading
             /\ socket' \in [Sockets -> SocketStates]
  BY <1>2, <1>e DEF CloseUnheard, ServerTypeOK
<1>3. ASSUME NEW s \in Sockets, NEW r \in Rooms, StartLoad(s, r)
      PROVE  /\ registry' = registry /\ loading' = r
             /\ socket' \in [Sockets -> SocketStates]
  BY <1>3, <1>d DEF StartLoad, ServerTypeOK
<1>4. ASSUME NEW s \in Sockets, CloseSocket(s)
      PROVE  /\ registry' \in {registry, NoRoom} /\ loading' = loading
             /\ socket' \in [Sockets -> SocketStates]
  BY <1>4, <1>c DEF CloseSocket, ServerTypeOK
<1>5. ASSUME NEW s \in Sockets, NEW u \in Updates, SocketEdits(s, u)
      PROVE  UNCHANGED serverVars
  BY <1>5 DEF SocketEdits
<1>6. ASSUME NEW r \in Rooms, LoadResolves(r)
      PROVE  /\ registry' = r /\ loading' = NoRoom
             /\ socket' \in [Sockets -> SocketStates]
  BY <1>6, <1>b, <1>e DEF LoadResolves, ServerTypeOK
<1>7. ASSUME NEW r \in Rooms, LoadRejects(r)
      PROVE  /\ registry' = registry /\ loading' = loading
             /\ socket' \in [Sockets -> SocketStates]
  BY <1>7, <1>b, <1>c DEF LoadRejects, ServerTypeOK
<1>8. ASSUME NEW r \in Rooms, Background(r) PROVE UNCHANGED serverVars
  BY <1>8 DEF Background
<1>9. CASE ServerCrash
  BY <1>9, <1>c DEF ServerCrash
<1>10. CASE UNCHANGED allVars
  BY <1>10 DEF allVars, ServerTypeOK
<1>11. QED
  BY <1>1, <1>2, <1>3, <1>4, <1>5, <1>6, <1>7, <1>8, <1>9, <1>10 DEF ServerNext, ServerTypeOK

\* Steps that change no phase and no entry of the registry keep both parts.
LEMMA QuietServer ==
    ASSUME RegistryInOrder, SocketsInOrder, registry' = registry, loading' = loading,
           \A r \in Rooms : phase'[r] \in {"opening", "base", "live"} => phase'[r] = phase[r],
           registry # NoRoom => phase'[registry] = phase[registry],
           loading # NoRoom => phase'[loading] = phase[loading],
           \A s \in Sockets : \/ socket'[s].at = "away"
                              \/ socket'[s].at = socket[s].at /\ socket'[s].room = socket[s].room
    PROVE  RegistryInOrder' /\ SocketsInOrder'
<1>1. RegistryInOrder'
  BY DEF RegistryInOrder
<1>2. SocketsInOrder'
  BY DEF SocketsInOrder
<1>3. QED
  BY <1>1, <1>2

\* Opening, going live, closing and dying move a room and its sockets together.
LEMMA ServerStepInOrder ==
    ASSUME ServerIInv, ServerTypeOK', [ServerNext]_allVars
    PROVE  RegistryInOrder' /\ SocketsInOrder'
<1> USE DEF serverVars
<1>a. TypeOK /\ ServerTypeOK /\ RegistryInOrder /\ SocketsInOrder
  BY DEF ServerIInv, ServerTypeOK
<1>b. Away.at = "away"
  BY DEF Away
<1>c. phase \in [Rooms -> Phases] /\ registry \in Rooms \cup {NoRoom}
      /\ loading \in Rooms \cup {NoRoom} /\ socket \in [Sockets -> SocketStates]
  BY <1>a DEF TypeOK, ServerTypeOK
<1>1. ASSUME NEW s \in Sockets, JoinLive(s) PROVE RegistryInOrder' /\ SocketsInOrder'
  <2>1. /\ registry' = registry /\ loading' = loading /\ phase' = phase /\ registry # NoRoom
        /\ socket' = [socket EXCEPT ![s] = [at |-> "joined", room |-> registry, open |-> TRUE]]
    BY <1>1 DEF JoinLive, vars, roomVars
  <2>2. /\ socket'[s].at = "joined" /\ socket'[s].room = registry
        /\ \A t \in Sockets \ {s} : socket'[t] = socket[t]
    BY <1>c, <2>1
  <2>3. QED
    BY <1>a, <2>1, <2>2 DEF RegistryInOrder, SocketsInOrder
<1>2. ASSUME NEW s \in Sockets, AwaitLoad(s) PROVE RegistryInOrder' /\ SocketsInOrder'
  <2>1. /\ registry' = registry /\ loading' = loading /\ phase' = phase /\ loading # NoRoom
        /\ phase[loading] # "dead"
        /\ socket' = [socket EXCEPT ![s] = [at |-> "waiting", room |-> loading, open |-> TRUE]]
    BY <1>2 DEF AwaitLoad, vars, roomVars
  <2>2. /\ socket'[s].at = "waiting" /\ socket'[s].room = loading
        /\ \A t \in Sockets \ {s} : socket'[t] = socket[t]
    BY <1>c, <2>1
  <2>3. QED
    BY <1>a, <2>1, <2>2 DEF RegistryInOrder, SocketsInOrder
<1>3. ASSUME NEW s \in Sockets, CloseUnheard(s) PROVE RegistryInOrder' /\ SocketsInOrder'
  <2>1. /\ registry' = registry /\ loading' = loading /\ phase' = phase
        /\ socket' = [socket EXCEPT ![s].open = FALSE]
    BY <1>3 DEF CloseUnheard, vars, roomVars
  <2>2. \A t \in Sockets : socket'[t].at = socket[t].at /\ socket'[t].room = socket[t].room
    BY <1>c, <2>1 DEF SocketStates
  <2>3. QED
    BY <1>a, <2>1, <2>2, QuietServer
<1>4. ASSUME NEW s \in Sockets, NEW r \in Rooms, StartLoad(s, r)
      PROVE  RegistryInOrder' /\ SocketsInOrder'
  <2>1. /\ registry = NoRoom /\ loading = NoRoom /\ registry' = registry /\ loading' = r
        /\ phase' = [phase EXCEPT ![r] = "opening"]
        /\ socket' = [socket EXCEPT ![s] = [at |-> "waiting", room |-> r, open |-> TRUE]]
    BY <1>4 DEF StartLoad, Open
  <2>2. /\ socket'[s].at = "waiting" /\ socket'[s].room = r
        /\ \A t \in Sockets \ {s} : socket'[t] = socket[t]
    BY <1>c, <2>1
  <2>3. phase'[r] = "opening" /\ \A q \in Rooms \ {r} : phase'[q] = phase[q]
    BY <1>c, <2>1
  <2>4. \A q \in Rooms : phase[q] \notin {"opening", "base", "live"}
    BY <1>a, <2>1, NoRoomAssumption DEF RegistryInOrder
  <2>5. RegistryInOrder'
    BY <2>1, <2>3, <2>4 DEF RegistryInOrder
  <2>6. SocketsInOrder'
    BY <1>a, <2>1, <2>2, <2>3, NoRoomAssumption DEF SocketsInOrder
  <2>7. QED
    BY <2>5, <2>6
<1>5. ASSUME NEW s \in Sockets, CloseSocket(s) PROVE RegistryInOrder' /\ SocketsInOrder'
  <2> DEFINE r == socket[s].room
  <2>1. /\ socket[s].at = "joined" /\ loading' = loading
        /\ socket' = [socket EXCEPT ![s] = Away]
        /\ \/ Conns(r) # {s} /\ UNCHANGED <<vars, registry>>
           \/ Conns(r) = {s} /\ registry' = NoRoom /\ Destroy(r)
    BY <1>5 DEF CloseSocket
  <2>2. /\ r = registry /\ registry # NoRoom /\ r \in Rooms
    BY <1>a, <1>c, <2>1 DEF SocketsInOrder
  <2>3. socket'[s].at = "away" /\ \A t \in Sockets \ {s} : socket'[t] = socket[t]
    BY <1>b, <1>c, <2>1
  <2>4. CASE UNCHANGED <<vars, registry>>
    BY <1>a, <2>1, <2>3, <2>4, QuietServer DEF vars, roomVars
  <2>5. CASE Conns(r) = {s} /\ registry' = NoRoom /\ Destroy(r)
    <3>1. /\ phase[r] = "live" /\ phase'[r] \in {"closing", "closed"}
          /\ \A q \in Rooms \ {r} : phase'[q] = phase[q]
      BY <1>a, <2>2, <2>5, DestroyPhases
    <3>2. loading = NoRoom
      BY <1>a, <2>2 DEF RegistryInOrder
    <3>3. RegistryInOrder'
      BY <1>a, <2>1, <2>2, <2>5, <3>1, <3>2 DEF RegistryInOrder
    <3>4. \A t \in Sockets \ {s} : socket[t].at \notin {"waiting", "joined"}
      BY <1>a, <2>2, <2>5, <3>2 DEF Conns, SocketsInOrder
    <3>5. SocketsInOrder'
      BY <2>3, <3>4 DEF SocketsInOrder
    <3>6. QED
      BY <3>3, <3>5
  <2>6. QED
    BY <2>1, <2>4, <2>5
<1>6. ASSUME NEW s \in Sockets, NEW u \in Updates, SocketEdits(s, u)
      PROVE  RegistryInOrder' /\ SocketsInOrder'
  <2>1. phase' = phase /\ UNCHANGED serverVars
    BY <1>6 DEF SocketEdits, Edit
  <2>2. QED
    BY <1>a, <2>1, QuietServer
<1>7. ASSUME NEW r \in Rooms, LoadResolves(r) PROVE RegistryInOrder' /\ SocketsInOrder'
  <2>1. /\ phase[r] = "base" /\ phase' = [phase EXCEPT ![r] = "live"]
        /\ registry' = r /\ loading' = NoRoom
    BY <1>7 DEF LoadResolves, ReadLog
  <2>2. phase'[r] = "live" /\ \A q \in Rooms \ {r} : phase'[q] = phase[q]
    BY <1>c, <2>1
  <2>3. r = loading /\ registry = NoRoom /\ r # NoRoom
    BY <1>a, <2>1, NoRoomAssumption DEF RegistryInOrder
  <2>4. RegistryInOrder'
    <3>1. \A q \in Rooms \ {r} : phase[q] \notin {"opening", "base", "live"}
      BY <1>a, <2>3, NoRoomAssumption DEF RegistryInOrder
    <3>2. QED
      BY <2>1, <2>2, <2>3, <3>1 DEF RegistryInOrder
  <2>5. ASSUME NEW s \in Sockets
        PROVE  /\ socket[s].at # "joined"
               /\ socket[s].at = "waiting" =>
                      socket'[s].at = "joined" /\ socket'[s].room = r
               /\ socket[s].at # "waiting" => socket'[s] = socket[s]
    <3>1. socket[s].at # "joined" /\ (socket[s].at = "waiting" => socket[s].room = r)
      BY <1>a, <2>3 DEF SocketsInOrder
    <3>2. socket[s] \in SocketStates
      BY <1>c
    <3>3. [socket[s] EXCEPT !.at = "joined"].at = "joined"
          /\ [socket[s] EXCEPT !.at = "joined"].room = socket[s].room
      BY <3>2 DEF SocketStates
    <3>4. socket'[s] = IF socket[s].at = "waiting" /\ socket[s].room = r
                       THEN [socket[s] EXCEPT !.at = "joined"] ELSE socket[s]
      BY <1>7 DEF LoadResolves
    <3>5. QED
      BY <3>1, <3>3, <3>4
  <2>6. SocketsInOrder'
    BY <2>1, <2>3, <2>5 DEF SocketsInOrder
  <2>7. QED
    BY <2>4, <2>6
<1>8. ASSUME NEW r \in Rooms, LoadRejects(r) PROVE RegistryInOrder' /\ SocketsInOrder'
  <2>1. /\ phase[r] \in {"opening", "base"} /\ phase' = [phase EXCEPT ![r] = "dead"]
        /\ registry' = registry /\ loading' = loading
    BY <1>8 DEF LoadRejects, LoadFails
  <2>2. phase'[r] = "dead" /\ \A q \in Rooms \ {r} : phase'[q] = phase[q]
    BY <1>c, <2>1
  <2>3. r = loading /\ registry = NoRoom
    BY <1>a, <2>1, NoRoomAssumption DEF RegistryInOrder
  <2>4. RegistryInOrder'
    BY <1>a, <2>1, <2>2, <2>3 DEF RegistryInOrder
  <2>5. ASSUME NEW s \in Sockets
        PROVE  socket'[s].at \notin {"waiting", "joined"}
    <3>1. socket[s].at # "joined" /\ (socket[s].at = "waiting" => socket[s].room = r)
      BY <1>a, <2>3 DEF SocketsInOrder
    <3>2. socket'[s] = IF socket[s].at = "waiting" /\ socket[s].room = r
                       THEN Away ELSE socket[s]
      BY <1>8 DEF LoadRejects
    <3>3. QED
      BY <1>b, <3>1, <3>2
  <2>6. SocketsInOrder'
    BY <2>5 DEF SocketsInOrder
  <2>7. QED
    BY <2>4, <2>6
<1>9. ASSUME NEW r \in Rooms, Background(r) PROVE RegistryInOrder' /\ SocketsInOrder'
  <2>1. UNCHANGED serverVars
    BY <1>9 DEF Background
  <2>2. CASE ReadBase(r)
    <3>1. /\ phase[r] = "opening" /\ phase'[r] = "base"
          /\ \A q \in Rooms \ {r} : phase'[q] = phase[q]
      BY <1>c, <2>2 DEF ReadBase
    <3>2. r = loading /\ registry = NoRoom /\ loading # NoRoom
      BY <1>a, <3>1, NoRoomAssumption DEF RegistryInOrder
    <3>3. QED
      BY <1>a, <2>1, <3>1, <3>2 DEF RegistryInOrder, SocketsInOrder
  <2>3. CASE DestroyReturns(r)
    <3>1. /\ phase[r] = "closing" /\ phase'[r] = "closed"
          /\ \A q \in Rooms \ {r} : phase'[q] = phase[q]
      BY <1>c, <2>3 DEF DestroyReturns
    <3>2. r # registry /\ r # loading
      BY <1>a, <3>1, NoRoomAssumption DEF RegistryInOrder
    <3>3. QED
      BY <1>a, <1>c, <2>1, <3>1, <3>2, QuietServer
  <2>4. CASE phase' = phase
    BY <1>a, <2>1, <2>4, QuietServer
  <2>5. QED
    BY <1>9, <1>a, <2>2, <2>3, <2>4, BackgroundPhases DEF Background
<1>10. CASE ServerCrash
  <2>1. /\ registry' = NoRoom /\ loading' = NoRoom
        /\ \A q \in Rooms : phase'[q] \in {"unborn", "dead"}
        /\ \A s \in Sockets : socket'[s].at = "away"
    BY <1>10, <1>b, <1>c DEF ServerCrash, Crash, Alive, Phases
  <2>2. QED
    BY <2>1 DEF RegistryInOrder, SocketsInOrder
<1>11. CASE UNCHANGED allVars
  BY <1>11, <1>a, QuietServer DEF allVars, vars, roomVars
<1>12. QED
  BY <1>1, <1>2, <1>3, <1>4, <1>5, <1>6, <1>7, <1>8, <1>9, <1>10, <1>11 DEF ServerNext

\* The step of the induction.
LEMMA ServerIInvStep ==
    ASSUME ServerIInv, [ServerNext]_allVars
    PROVE  ServerIInv' /\ [Next]_vars
<1>1. ServerTypeOK /\ SocketsInOrder
  BY DEF ServerIInv
<1>2. [Next]_vars /\ ServerTypeOK'
  BY <1>1, ServerStepIsRoomStep, ServerTypeStep
<1>3. QED
  BY <1>2, ServerStepInOrder DEF ServerIInv

-----------------------------------------------------------------------------
(***************************************************************************)
(* The theorems.                                                           *)
(***************************************************************************)

\* The registry, the loads and the sockets are in order in every reachable state.
THEOREM ServerInvariance == ServerSpec => []ServerIInv
<1>1. ServerIInv /\ [ServerNext]_allVars => ServerIInv'
  BY ServerIInvStep
<1>2. QED
  BY <1>1, ServerIInvInit, PTL DEF ServerSpec

\* All variables keep their types (getRoom, onConnection and their maps).
THEOREM ServerTypeCorrect == ServerSpec => []ServerTypeOK
<1>1. ServerIInv => ServerTypeOK
  BY DEF ServerIInv
<1>2. QED
  BY <1>1, ServerInvariance, PTL

\* The server drives its rooms as rooms are driven: every theorem about CollabRoom
\* is one about the server (server.ts calls room.ts, and nothing else touches it).
THEOREM ServerDrivesRooms == ServerSpec => Spec
<1>1. ServerInit => Init
  BY DEF ServerInit
<1>2. ServerIInv /\ [ServerNext]_allVars => [Next]_vars
  BY ServerIInvStep
<1>3. QED
  BY <1>1, <1>2, ServerInvariance, PTL DEF ServerSpec, Spec

\* Connections that race for a document are given one room (getRoom).
THEOREM OneRoomAlways == ServerSpec => []OneRoomAtATime
<1>1. ServerIInv => OneRoomAtATime
  BY NoRoomAssumption DEF ServerIInv, RegistryInOrder, OneRoomAtATime
<1>2. QED
  BY <1>1, ServerInvariance, PTL

\* No socket belongs to a room that is closed or replaced (onConnection, onClose).
THEOREM MembersAreAlwaysServed == ServerSpec => []MembersAreServed
<1>1. ServerIInv => MembersAreServed
  BY DEF ServerIInv, RegistryInOrder, SocketsInOrder, MembersAreServed
<1>2. QED
  BY <1>1, ServerInvariance, PTL

\* Under the server no durable edit is lost while writers do not overlap, however
\* sockets come and go (persistence.ts:11-12).
THEOREM ServerKeepsCommittedEdits == ServerSpec => CommittedEditsSurvive
BY ServerDrivesRooms, CommittedEditsAlwaysSurvive, PTL

\* The server as a whole implements the document: what its clients edit becomes
\* durable or is lost unsaved, and stays durable until writers overlap.
THEOREM ServerImplementsDocument == ServerSpec => ImplementsDocument
BY ServerDrivesRooms, RoomsImplementDocument, PTL

\* Writers begin to overlap only when one of them is a room that no longer serves
\* sockets: a closing room's fold, or requests a closed or dead room left behind.
THEOREM OverlapsComeFromTeardown == ServerSpec => OverlapOnlyFromTeardown
<1> DEFINE Cause == \E r \in Rooms : /\ Unsettled(r)
                                     /\ phase'[r] \in {"closing", "closed", "dead"}
<1>1. ASSUME ServerIInv, IInv, [ServerNext]_allVars, contended', ~contended
      PROVE  Cause
  <2> USE DEF serverVars
  <2>a. TypeOK /\ PhasesInOrder /\ RegistryInOrder /\ SocketsInOrder /\ [Next]_vars
    BY <1>1, ServerIInvStep DEF IInv, ServerIInv
  <2>1. ASSUME NEW r \in Rooms, ReadBase(r) PROVE Cause
    <3>1. /\ phase[r] = "opening" /\ \A q \in Rooms \ {r} : phase'[q] = phase[q]
          /\ contended' = (contended \/ \E q \in Rooms \ {r} : Writer(q))
      BY <2>1, <2>a DEF ReadBase, TypeOK
    <3>2. PICK q \in Rooms \ {r} : Writer(q)
      BY <1>1, <3>1
    <3>3. phase[q] \notin {"opening", "base", "live"}
      BY <2>a, <3>1, NoRoomAssumption DEF RegistryInOrder
    <3>4. Unsettled(q)
      BY <3>2, <3>3 DEF Writer
    <3>5. phase[q] # "unborn"
      BY <2>a, <3>4 DEF Unsettled, PhasesInOrder, Callers
    <3>6. phase'[q] \in {"closing", "closed", "dead"}
      BY <2>a, <3>1, <3>3, <3>5 DEF TypeOK, Phases
    <3>7. QED
      BY <3>4, <3>6
  <2>2. ASSUME NEW r \in Rooms, Destroy(r) PROVE Cause
    <3>1. fold[r]["run"].stage = "sent"
      BY <1>1, <2>2 DEF Destroy
    <3>2. QED
      BY <2>2, <2>a, <3>1, DestroyPhases DEF Unsettled, Callers
  <2>3. CASE Crash \/ UNCHANGED vars
    BY <1>1, <2>3 DEF Crash, vars
  <2>4. ASSUME NEW r \in Rooms,
               \/ Open(r) \/ ReadLog(r) \/ LoadFails(r) \/ IdleTimerFires(r)
               \/ \E u \in Updates : Edit(r, u) \/ AppendAnswered(r, u)
               \/ RunAnswered(r) \/ RunFails(r) \/ DestroyReturns(r) \/ StoreStep(r)
        PROVE  contended' = contended
    BY <2>4 DEF Open, ReadLog, LoadFails, IdleTimerFires, Edit, AppendAnswered, RunAnswered,
                RunFails, DestroyReturns, StoreStep, NumberRow, CommitRow, DropInsert,
                CommitFold, DropFold
  <2>5. QED
    BY <1>1, <2>a, <2>1, <2>2, <2>3, <2>4 DEF Next, RoomStep
<1>2. ServerIInv /\ IInv /\ [ServerNext]_allVars => [contended' /\ ~contended => Cause]_allVars
  BY <1>1
<1>3. QED
  BY <1>2, ServerInvariance, ServerDrivesRooms, Invariance, PTL
     DEF ServerSpec, OverlapOnlyFromTeardown

-----------------------------------------------------------------------------
(***************************************************************************)
(* Backplane, for one replica or more and any number of sockets, edits and *)
(* lost publications: rooms that are served have the same document once no *)
(* message is on its way, until an edit misses one or a fold drops it.     *)
(***************************************************************************)

\* The order of the natural numbers, as a relation.
Before == {p \in Nat \X Nat : p[1] < p[2]}

\* A set of natural numbers has a least member.
LEMMA LeastExists ==
    ASSUME NEW S \in SUBSET Nat, S # {}
    PROVE  \E x \in S : \A y \in S : x <= y
<1>1. IsWellFoundedOn(Before, Nat)
  BY NatLessThanWellFounded DEF OpToRel, Before
<1>2. PICK x \in S : \A y \in S : ~ (<<y, x>> \in Before)
  BY <1>1, WFMin
<1>3. ASSUME NEW y \in S PROVE x <= y
  <2>1. <<y, x>> \in Nat \X Nat /\ <<y, x>> \notin Before
    BY <1>2
  <2>2. ~(y < x)
    BY <2>1 DEF Before
  <2>3. QED
    BY <2>2
<1>4. QED
  BY <1>3

\* A set of them that has a bound has a greatest.
LEMMA GreatestExists ==
    ASSUME NEW N \in Nat, NEW S \in SUBSET (0..N), S # {}
    PROVE  \E x \in S : \A y \in S : x >= y
<1> DEFINE T == {n \in Nat : N - n \in S}
<1>1. \A y \in S : N - y \in T /\ N - (N - y) = y
  OBVIOUS
<1>2. T \in SUBSET Nat /\ T # {}
  BY <1>1
<1>3. PICK n \in T : \A m \in T : n <= m
  BY <1>2, LeastExists
<1>4. n \in Nat /\ N - n \in S
  BY <1>3
<1>5. ASSUME NEW y \in S PROVE N - n >= y
  <2>1. n <= N - y
    BY <1>1, <1>3
  <2>2. QED
    BY <1>4, <2>1
<1>6. QED
  BY <1>4, <1>5

\* The messages on their way to a replica.
OnTheirWay(k) == {channel[k][i] : i \in 1..Len(channel[k])}

\* The backplane lists the live room or none; the live room is of its replica and was not
\* left; and a replica loads a room only while it has none.
RegistryFits ==
    \A k \in Servers :
        /\ replica[k].listed \in {None0, replica[k].live}
        /\ replica[k].live # None0 => /\ shared[replica[k].live].home = k
                                      /\ shared[replica[k].live].stage \in {"joining", "open"}
                                      /\ replica[k].loading = None0
ReadingIsLoading ==
    \A n \in RoomIds : shared[n].stage = "reading" => replica[shared[n].home].loading = n
LoadingIsReading ==
    \A k \in Servers : replica[k].loading # None0 =>
        /\ shared[replica[k].loading].stage = "reading"
        /\ shared[replica[k].loading].home = k

\* A replica subscribes for rooms that were read, and unsubscribes for those that were left.
CommandsFit ==
    \A k \in Servers : \A i \in 1..Len(commands[k]) :
        /\ shared[commands[k][i].room].stage \notin {"unused", "reading"}
        /\ commands[k][i].kind = "unsubscribe" =>
              shared[commands[k][i].room].stage \in {"leaving", "closed"}

\* What is stored or shown was typed, and rows are numbered in turn.
OnlyTyped ==
    /\ database.base \subseteq typed /\ InLog \subseteq typed
    /\ \A x \in database.log : x.id < database.next
    /\ \A n \in RoomIds : shared[n].doc \subseteq typed

\* Until an edit misses a room, all are stored, a load will have read them all, and a live
\* room has them or is listed while they are on their way.
NothingMissed ==
    ~gap =>
        /\ typed \subseteq database.base \cup InLog
        /\ \A n \in RoomIds :
              shared[n].stage = "reading" => typed \subseteq shared[n].doc \cup InLog
        /\ \A k \in Servers : replica[k].live # None0 =>
              \A e \in typed : \/ e \in shared[replica[k].live].doc
                               \/ replica[k].listed # None0 /\ e \in OnTheirWay(k)

\* The inductive invariant.
PlaneInv ==
    /\ BackplaneTypeOK
    /\ RegistryFits /\ ReadingIsLoading /\ LoadingIsReading
    /\ CommandsFit
    /\ OnlyTyped /\ OriginPersists
    /\ NothingMissed

\* The registry and the rooms it names.
Registered == RegistryFits /\ ReadingIsLoading /\ LoadingIsReading

LEMMA PlaneFacts ==
    ASSUME BackplaneTypeOK
    PROVE  /\ None0 \notin RoomIds /\ RoomIds \subseteq Nat
           /\ \A n \in RoomIds : /\ shared[n] \in SharedRoom /\ shared[n].home \in Servers
                                 /\ shared[n].stage \in RoomStages
                                 /\ shared[n].doc \in SUBSET Edits
                                 /\ shared[n].mark \in Nat /\ shared[n].dirty \in Nat
                                 /\ shared[n].publishes \in BOOLEAN
           /\ \A k \in Servers : /\ replica[k] \in Replica
                                 /\ replica[k].live \in RoomIds \cup {None0}
                                 /\ replica[k].loading \in RoomIds \cup {None0}
                                 /\ replica[k].listed \in RoomIds \cup {None0}
                                 /\ replica[k].wired \in RoomIds \cup {None0}
                                 /\ commands[k] \in Seq(Command) /\ channel[k] \in Seq(Edits)
           /\ \A s \in Clients : client[s] \in Socket
           /\ database.next \in Nat /\ database.base \in SUBSET Edits
           /\ database.log \in SUBSET [id : Nat, edit : Edits]
           /\ InLog \in SUBSET Edits
<1>1. None0 \notin RoomIds /\ RoomIds \subseteq Nat
  BY BackplaneAssumption DEF None0, RoomIds
<1>2. database \in [base : SUBSET Edits, log : SUBSET [id : Nat, edit : Edits], next : Nat]
  BY DEF BackplaneTypeOK
<1>3. InLog \in SUBSET Edits
  BY <1>2 DEF InLog
<1>4. QED
  BY <1>1, <1>2, <1>3 DEF BackplaneTypeOK, SharedRoom, Replica

LEMMA CommandFacts ==
    ASSUME BackplaneTypeOK, NEW k \in Servers, NEW i \in 1..Len(commands[k])
    PROVE  commands[k][i] \in Command /\ commands[k][i].room \in RoomIds
<1>1. commands[k] \in Seq(Command)
  BY PlaneFacts
<1>2. commands[k][i] \in Command
  BY <1>1
<1>3. QED
  BY <1>2 DEF Command

LEMMA NewRoomFacts ==
    /\ NewRoom \in SharedRoom /\ NewRoom.doc = {} /\ NewRoom.mark = 0
    /\ NewRoom.stage = "unused"
<1>1. (CHOOSE k \in Servers : TRUE) \in Servers
  BY BackplaneAssumption
<1>2. QED
  BY <1>1 DEF NewRoom, SharedRoom, RoomStages

LEMMA PlaneInitInv == BackplaneInit => PlaneInv
<1> SUFFICES ASSUME BackplaneInit PROVE PlaneInv
  OBVIOUS
<1>1. /\ database = [base |-> {}, log |-> {}, next |-> 1]
      /\ InLog = {} /\ typed = {} /\ gap = FALSE /\ lost = 0
  BY DEF BackplaneInit, InLog
<1>2. /\ shared \in [RoomIds -> SharedRoom]
      /\ \A n \in RoomIds : shared[n].doc = {} /\ shared[n].mark = 0 /\ shared[n].stage = "unused"
  BY NewRoomFacts DEF BackplaneInit
<1>3. /\ replica \in [Servers -> Replica]
      /\ \A k \in Servers : /\ replica[k].live = None0 /\ replica[k].loading = None0
                            /\ replica[k].listed = None0
  BY DEF BackplaneInit, Replica
<1>4. /\ commands \in [Servers -> Seq(Command)] /\ channel \in [Servers -> Seq(Edits)]
      /\ \A k \in Servers : Len(commands[k]) = 0 /\ Len(channel[k]) = 0
  BY DEF BackplaneInit
<1>5. /\ client \in [Clients -> Socket]
      /\ \A s \in Clients : client[s].at = "away"
  BY DEF BackplaneInit, NoSocket, Socket
<1>6. BackplaneTypeOK
  <2>1. database \in [base : SUBSET Edits, log : SUBSET [id : Nat, edit : Edits], next : Nat]
    BY <1>1
  <2>2. \A n \in RoomIds : shared[n].mark < database.next
    BY <1>1, <1>2
  <2>3. typed \subseteq Edits /\ lost \in Nat /\ gap \in BOOLEAN
    BY <1>1
  <2>4. QED
    BY <1>2, <1>3, <1>4, <1>5, <2>1, <2>2, <2>3 DEF BackplaneTypeOK
<1>7. RegistryFits /\ ReadingIsLoading /\ LoadingIsReading /\ CommandsFit
  BY <1>2, <1>3, <1>4 DEF RegistryFits, ReadingIsLoading, LoadingIsReading, CommandsFit
<1>8. OnlyTyped /\ OriginPersists /\ NothingMissed
  BY <1>1, <1>2, <1>3 DEF OnlyTyped, OriginPersists, NothingMissed
<1>9. QED
  BY <1>6, <1>7, <1>8 DEF PlaneInv

-----------------------------------------------------------------------------
\* A client connects: the rooms keep what they have, and a room that is to be loaded has
\* the base, whose rows are in the log.
LEMMA ConnectClientInv ==
    ASSUME PlaneInv, NEW s \in Clients, NEW k \in Servers, ConnectClient(s, k)
    PROVE  PlaneInv'
<1>a. BackplaneTypeOK /\ RegistryFits /\ ReadingIsLoading /\ LoadingIsReading
  BY DEF PlaneInv
<1>b. UNCHANGED <<database, commands, channel, lost, typed, gap>> /\ client[s] = NoSocket
  BY DEF ConnectClient
<1>c. InLog' = InLog /\ \A j \in Servers : OnTheirWay(j)' = OnTheirWay(j)
  BY <1>b DEF InLog, OnTheirWay
<1>1. CASE UNCHANGED <<shared, replica>>
  <2>1. \E n \in RoomIds : /\ \/ shared[n].stage \notin {"unused", "reading"} /\ client' = [client EXCEPT ![s] =
                                      [at |-> "joined", room |-> n]]
                              \/ client' = [client EXCEPT ![s] = [at |-> "waiting", room |-> n]]
    <3>1. CASE replica[k].live # None0
      <4>1. /\ client' = [client EXCEPT ![s] = [at |-> "joined", room |-> replica[k].live]]
            /\ replica[k].live \in RoomIds
            /\ shared[replica[k].live].stage \in {"joining", "open"}
        BY <1>a, <3>1, PlaneFacts DEF ConnectClient, Joinable, RegistryFits
      <4>2. QED
        BY <4>1
    <3>2. CASE replica[k].live = None0 /\ replica[k].loading # None0
      BY <1>a, <3>2, PlaneFacts DEF ConnectClient, Joinable
    <3>3. CASE replica[k].live = None0 /\ replica[k].loading = None0
      <4>1. PICK n \in Nat : n \in RoomIds /\ shared[n].stage = "unused"
                         /\ replica' = [replica EXCEPT ![k].loading = n]
        <5> DEFINE U == {n \in RoomIds : shared[n].stage = "unused"}
        <5>1. U # {} /\ replica' = [replica EXCEPT ![k].loading = Min(U)]
          BY <3>3 DEF ConnectClient, Joinable
        <5>2. U \in SUBSET Nat
          BY <1>a, PlaneFacts
        <5>3. Min(U) \in U
          BY <5>1, <5>2, LeastExists DEF Min
        <5>4. QED
          BY <5>1, <5>2, <5>3
      <4>2. replica'[k].loading = n
        BY <4>1, <1>a DEF BackplaneTypeOK, Replica
      <4>3. QED
        BY <4>1, <4>2, <3>3, <1>1, <1>a, PlaneFacts
    <3>4. QED
      BY <3>1, <3>2, <3>3
  <2>2. BackplaneTypeOK'
    <3>1. PICK n \in RoomIds, a \in {"waiting", "joined"} :
              /\ a = "joined" => shared[n].stage \notin {"unused", "reading"}
              /\ client' = [client EXCEPT ![s] = [at |-> a, room |-> n]]
      BY <2>1
    <3>2. [at |-> a, room |-> n] \in Socket
      BY DEF Socket
    <3>3. /\ client' \in [Clients -> Socket] /\ client'[s] = [at |-> a, room |-> n]
          /\ \A t \in Clients : t # s => client'[t] = client[t]
      BY <3>1, <3>2, <1>a DEF BackplaneTypeOK
    <3>4. ASSUME NEW t \in Clients
          PROVE  /\ client'[t].at \in {"waiting", "joined"} => client'[t].room # None0
                 /\ client'[t].at = "joined" =>
                       shared'[client'[t].room].stage \notin {"unused", "reading"}
      BY <1>a, <1>1, <3>1, <3>3, PlaneFacts DEF BackplaneTypeOK
    <3>5. QED
      BY <1>a, <1>b, <1>1, <3>3, <3>4 DEF BackplaneTypeOK
  <2>3. QED
    BY <2>2, <1>b, <1>c, <1>1 DEF PlaneInv, RegistryFits, ReadingIsLoading, LoadingIsReading,
       CommandsFit, OnlyTyped, OriginPersists, NothingMissed
<1>2. CASE ~UNCHANGED <<shared, replica>>
  <2> DEFINE U == {n \in RoomIds : shared[n].stage = "unused"}
             new == [NewRoom EXCEPT !.home = k, !.stage = "reading", !.doc = database.base]
  <2>1. /\ replica[k].live = None0 /\ replica[k].loading = None0 /\ U # {}
        /\ shared' = [shared EXCEPT ![Min(U)] = new]
        /\ replica' = [replica EXCEPT ![k].loading = Min(U)]
        /\ client' = [client EXCEPT ![s] = [at |-> "waiting", room |-> Min(U)]]
    BY <1>2 DEF ConnectClient, Joinable
  <2>2. PICK n \in U : n = Min(U)
    <3>1. U \in SUBSET Nat
      BY <1>a, PlaneFacts
    <3>2. Min(U) \in U
      BY <2>1, <3>1, LeastExists DEF Min
    <3>3. QED
      BY <3>2
  <2>3. /\ new \in SharedRoom /\ new.home = k /\ new.stage = "reading"
        /\ new.doc = database.base /\ new.mark = 0
    BY <1>a, NewRoomFacts, PlaneFacts DEF SharedRoom, RoomStages
  <2> HIDE DEF new
  <2>4. /\ n \in RoomIds /\ shared[n].stage = "unused" /\ n # None0
        /\ shared' \in [RoomIds -> SharedRoom] /\ shared'[n] = new
        /\ \A m \in RoomIds : m # n => shared'[m] = shared[m]
    BY <2>1, <2>2, <2>3, <1>a, PlaneFacts DEF BackplaneTypeOK
  <2>5. /\ replica' \in [Servers -> Replica]
        /\ replica'[k].loading = n /\ replica'[k].live = None0
        /\ replica'[k].listed = replica[k].listed
        /\ \A j \in Servers : j # k => replica'[j] = replica[j]
    <3>1. replica[k] \in Replica /\ replica \in [Servers -> Replica]
      BY <1>a DEF BackplaneTypeOK
    <3>2. [replica[k] EXCEPT !.loading = n] \in Replica
      BY <3>1, <2>4 DEF Replica
    <3>3. replica' = [replica EXCEPT ![k] = [replica[k] EXCEPT !.loading = n]]
      BY <2>1, <2>2
    <3>4. QED
      BY <2>1, <3>1, <3>2, <3>3 DEF Replica
  <2>6. /\ client' \in [Clients -> Socket] /\ client'[s] = [at |-> "waiting", room |-> n]
        /\ \A t \in Clients : t # s => client'[t] = client[t]
    BY <2>1, <2>2, <2>4, <1>a DEF BackplaneTypeOK, Socket
  <2>7. BackplaneTypeOK'
    <3>1. ASSUME NEW t \in Clients
          PROVE  /\ client'[t].at \in {"waiting", "joined"} => client'[t].room # None0
                 /\ client'[t].at = "joined" =>
                       shared'[client'[t].room].stage \notin {"unused", "reading"}
      <4>1. CASE t = s
        BY <4>1, <2>6, <2>4
      <4>2. CASE t # s
        <5>1. client[t].at = "joined" => client[t].room \in RoomIds
          BY <1>a DEF BackplaneTypeOK, Socket
        <5>2. QED
          BY <4>2, <5>1, <1>a, <2>6, <2>4 DEF BackplaneTypeOK
      <4>3. QED
        BY <4>1, <4>2
    <3>2. \A m \in RoomIds : shared'[m].mark < database.next
      <4>1. 0 < database.next
        <5>1. shared[n].mark < database.next /\ shared[n].mark \in Nat /\ database.next \in Nat
          BY <1>a, <2>4, PlaneFacts DEF BackplaneTypeOK
        <5>2. QED
          BY <5>1
      <4>2. QED
        BY <4>1, <2>3, <2>4, <1>a DEF BackplaneTypeOK
    <3>3. QED
      BY <1>a, <1>b, <2>4, <2>5, <2>6, <3>1, <3>2 DEF BackplaneTypeOK
  <2>8. RegistryFits' /\ ReadingIsLoading' /\ LoadingIsReading'
    <3>1. ASSUME NEW j \in Servers
          PROVE  /\ replica'[j].listed \in {None0, replica'[j].live}
                 /\ replica'[j].live # None0 =>
                       /\ shared'[replica'[j].live].home = j
                       /\ shared'[replica'[j].live].stage \in {"joining", "open"}
                       /\ replica'[j].loading = None0
                 /\ replica'[j].loading # None0 =>
                       /\ shared'[replica'[j].loading].stage = "reading"
                       /\ shared'[replica'[j].loading].home = j
      BY <1>a, <2>1, <2>3, <2>4, <2>5, PlaneFacts DEF RegistryFits, LoadingIsReading
    <3>2. ASSUME NEW m \in RoomIds, shared'[m].stage = "reading"
          PROVE  replica'[shared'[m].home].loading = m
      <4>1. CASE m = n
        BY <4>1, <2>3, <2>4, <2>5
      <4>2. CASE m # n
        <5>1. shared[m].home \in Servers /\ replica[shared[m].home].loading = m
          BY <4>2, <3>2, <2>4, <1>a, PlaneFacts DEF ReadingIsLoading
        <5>2. shared[m].home # k
          BY <5>1, <2>1, <1>a, PlaneFacts
        <5>3. QED
          BY <4>2, <5>1, <5>2, <2>4, <2>5
      <4>3. QED
        BY <4>1, <4>2
    <3>3. QED
      BY <3>1, <3>2 DEF RegistryFits, ReadingIsLoading, LoadingIsReading
  <2>9. CommandsFit'
    <3>1. ASSUME NEW j \in Servers, NEW i \in 1..Len(commands[j])
          PROVE  commands[j][i].room \in RoomIds
      BY <1>a, CommandFacts
    <3>2. QED
      BY <3>1, <1>b, <2>4 DEF PlaneInv, CommandsFit
  <2>10. OnlyTyped' /\ OriginPersists'
    BY <1>b, <1>c, <2>3, <2>4 DEF PlaneInv, OnlyTyped, OriginPersists
  <2>11. NothingMissed'
    <3> SUFFICES ASSUME ~gap PROVE NothingMissed'
      BY <1>b DEF NothingMissed
    <3>1. ASSUME NEW m \in RoomIds, shared'[m].stage = "reading"
          PROVE  typed \subseteq shared'[m].doc \cup InLog
      <4>1. CASE m = n
        BY <4>1, <2>3, <2>4 DEF PlaneInv, NothingMissed
      <4>2. CASE m # n
        BY <4>2, <3>1, <2>4 DEF PlaneInv, NothingMissed
      <4>3. QED
        BY <4>1, <4>2
    <3>2. ASSUME NEW j \in Servers, replica'[j].live # None0, NEW e \in typed
          PROVE  \/ e \in shared'[replica'[j].live].doc
                 \/ replica'[j].listed # None0 /\ e \in OnTheirWay(j)
      <4>1. j # k /\ replica'[j] = replica[j]
        BY <3>2, <2>5
      <4>2. replica[j].live \in RoomIds /\ shared'[replica[j].live] = shared[replica[j].live]
        BY <4>1, <3>2, <1>a, <2>4, PlaneFacts DEF RegistryFits
      <4>3. QED
        BY <4>1, <4>2, <3>2 DEF PlaneInv, NothingMissed
    <3>3. QED
      BY <1>b, <1>c, <3>1, <3>2 DEF PlaneInv, NothingMissed
  <2>12. QED
    BY <2>7, <2>8, <2>9, <2>10, <2>11 DEF PlaneInv
<1>3. QED
  BY <1>1, <1>2

LEMMA MaxIsMember ==
    ASSUME NEW S, \E x \in S : \A y \in S : x >= y
    PROVE  Max(S) \in S
BY DEF Max

\* A room is registered, having read the log: it has all that is stored, and is the live
\* room of its replica, which had none.
LEMMA RegisterRoomInv ==
    ASSUME PlaneInv, NEW n \in RoomIds, RegisterRoom(n)
    PROVE  PlaneInv'
<1> DEFINE k == shared[n].home
           mark == Max({0} \cup {row.id : row \in database.log})
           room(stage) == [[shared[n] EXCEPT !.doc = @ \cup InLog, !.mark = mark]
                               EXCEPT !.stage = stage]
           known(listed) == [[replica[k] EXCEPT !.live = n, !.loading = None0]
                                 EXCEPT !.listed = listed]
<1>a. BackplaneTypeOK /\ RegistryFits /\ ReadingIsLoading /\ LoadingIsReading
  BY DEF PlaneInv
<1>b. /\ UNCHANGED <<database, channel, lost, typed, gap>>
      /\ shared[n].stage = "reading"
  BY DEF RegisterRoom
<1>c. InLog' = InLog /\ \A j \in Servers : OnTheirWay(j)' = OnTheirWay(j)
  BY <1>b DEF InLog, OnTheirWay
<1>d. /\ k \in Servers /\ replica[k].loading = n /\ n # None0
      /\ replica[k].live = None0 /\ replica[k].listed = None0
  BY <1>a, <1>b, PlaneFacts DEF RegistryFits, ReadingIsLoading
<1>e. mark \in Nat /\ mark < database.next
  <2> DEFINE ids == {0} \cup {row.id : row \in database.log}
  <2>1. shared[n].mark < database.next /\ shared[n].mark \in Nat /\ database.next \in Nat
    BY <1>a, PlaneFacts DEF BackplaneTypeOK
  <2>2. ASSUME NEW x \in database.log PROVE x.id \in 0..(database.next - 1)
    <3>1. x \in [id : Nat, edit : Edits] /\ x.id < database.next
      BY <1>a, PlaneFacts DEF PlaneInv, OnlyTyped
    <3>2. QED
      BY <2>1, <3>1
  <2>3. ids \in SUBSET (0..(database.next - 1)) /\ ids # {} /\ database.next - 1 \in Nat
    BY <2>1, <2>2
  <2>4. \E x \in ids : \A y \in ids : x >= y
    BY <2>3, GreatestExists
  <2> HIDE DEF ids
  <2>5. Max(ids) \in ids
    BY <2>4, MaxIsMember
  <2>6. Max(ids) \in Nat /\ Max(ids) < database.next
    <3>1. \A x \in 0..(database.next - 1) : x \in Nat /\ x < database.next
      BY <2>1
    <3>2. Max(ids) \in 0..(database.next - 1)
      BY <2>3, <2>5
    <3>3. QED
      BY <3>1, <3>2
  <2>7. QED
    BY <2>6 DEF ids
<1>f. PICK stage \in {"joining", "open"}, listed \in {None0, n} :
          /\ shared' = [shared EXCEPT ![n] = room(stage)]
          /\ replica' = [replica EXCEPT ![k] = known(listed)]
          /\ \/ /\ client' = Admitted(n) /\ UNCHANGED commands
             \/ /\ UNCHANGED client
                /\ commands' = [commands EXCEPT ![k] =
                                   Append(@, [kind |-> "subscribe", room |-> n])]
  <2>1. CASE replica[k].wired # None0
    <3>1. /\ shared' = [shared EXCEPT ![n] = room("open")]
          /\ replica' = [replica EXCEPT ![k] = [replica[k] EXCEPT !.live = n, !.loading = None0]]
          /\ client' = Admitted(n) /\ UNCHANGED commands
      BY <2>1 DEF RegisterRoom
    <3>2. [replica[k] EXCEPT !.live = n, !.loading = None0] = known(None0)
      <4>1. replica[k] \in Replica /\ replica[k].listed = None0
        BY <1>a, <1>d, PlaneFacts
      <4>2. QED
        BY <4>1 DEF Replica
    <3>3. QED
      BY <3>1, <3>2
  <2>2. CASE replica[k].wired = None0
    BY <2>2 DEF RegisterRoom
  <2>3. QED
    BY <2>1, <2>2
<1>1. /\ room(stage) \in SharedRoom /\ room(stage).home = k /\ room(stage).stage = stage
      /\ room(stage).doc = shared[n].doc \cup InLog /\ room(stage).mark = mark
  BY <1>a, <1>e, PlaneFacts DEF SharedRoom, RoomStages
<1>2. /\ known(listed) \in Replica /\ known(listed).live = n /\ known(listed).loading = None0
      /\ known(listed).listed = listed
  BY <1>a, <1>d, PlaneFacts DEF Replica
<1> HIDE DEF room, known, mark
<1>3. /\ shared' \in [RoomIds -> SharedRoom] /\ shared'[n] = room(stage)
      /\ \A m \in RoomIds : m # n => shared'[m] = shared[m]
  BY <1>f, <1>1, <1>a DEF BackplaneTypeOK
<1>4. /\ replica' \in [Servers -> Replica] /\ replica'[k] = known(listed)
      /\ \A j \in Servers : j # k => replica'[j] = replica[j]
  BY <1>f, <1>2, <1>d, <1>a DEF BackplaneTypeOK
<1>5. /\ commands' \in [Servers -> Seq(Command)]
      /\ \A j \in Servers : \A i \in 1..Len(commands'[j]) :
            \/ i \in 1..Len(commands[j]) /\ commands'[j][i] = commands[j][i]
            \/ commands'[j][i] = [kind |-> "subscribe", room |-> n]
  <2>1. CASE UNCHANGED commands
    BY <2>1, <1>a DEF BackplaneTypeOK
  <2>2. CASE commands' = [commands EXCEPT ![k] = Append(@, [kind |-> "subscribe", room |-> n])]
    <3>1. [kind |-> "subscribe", room |-> n] \in Command
      BY DEF Command
    <3>2. QED
      BY <2>2, <3>1, <1>a, <1>d, PlaneFacts DEF BackplaneTypeOK
  <2>3. QED
    BY <2>1, <2>2, <1>f
<1>6. /\ client' \in [Clients -> Socket]
      /\ \A s \in Clients : \/ client'[s] = client[s]
                            \/ client'[s] = [at |-> "joined", room |-> n]
  <2>1. CASE UNCHANGED client
    BY <2>1, <1>a DEF BackplaneTypeOK
  <2>2. CASE client' = Admitted(n)
    BY <2>2, <1>a DEF BackplaneTypeOK, Admitted, Socket
  <2>3. QED
    BY <2>1, <2>2, <1>f
<1>7. BackplaneTypeOK'
  <2>1. ASSUME NEW s \in Clients
        PROVE  /\ client'[s].at \in {"waiting", "joined"} => client'[s].room # None0
               /\ client'[s].at = "joined" =>
                     shared'[client'[s].room].stage \notin {"unused", "reading"}
    <3>1. CASE client'[s] = [at |-> "joined", room |-> n]
      BY <3>1, <1>3, <1>1, <1>d
    <3>2. CASE client'[s] = client[s]
      <4>1. client[s].at = "joined" => client[s].room \in RoomIds
        BY <1>a DEF BackplaneTypeOK, Socket
      <4>2. QED
        BY <3>2, <4>1, <1>a, <1>1, <1>3 DEF BackplaneTypeOK
    <3>3. QED
      BY <3>1, <3>2, <1>6
  <2>2. \A m \in RoomIds : shared'[m].mark < database.next
    BY <1>1, <1>3, <1>e, <1>a DEF BackplaneTypeOK
  <2>3. QED
    BY <1>a, <1>b, <1>3, <1>4, <1>5, <1>6, <2>1, <2>2 DEF BackplaneTypeOK
<1>8. RegistryFits' /\ ReadingIsLoading' /\ LoadingIsReading'
  <2>1. ASSUME NEW j \in Servers
        PROVE  /\ replica'[j].listed \in {None0, replica'[j].live}
               /\ replica'[j].live # None0 =>
                     /\ shared'[replica'[j].live].home = j
                     /\ shared'[replica'[j].live].stage \in {"joining", "open"}
                     /\ replica'[j].loading = None0
               /\ replica'[j].loading # None0 =>
                     /\ shared'[replica'[j].loading].stage = "reading"
                     /\ shared'[replica'[j].loading].home = j
    <3>1. CASE j = k
      BY <3>1, <1>1, <1>2, <1>3, <1>4
    <3>2. CASE j # k
      <4>1. replica[j].live # n /\ replica[j].loading # n
        BY <3>2, <1>a, <1>b, <1>d DEF RegistryFits, LoadingIsReading
      <4>2. replica'[j] = replica[j]
        BY <3>2, <1>4
      <4>3. QED
        BY <4>1, <4>2, <1>a, <1>3, PlaneFacts DEF RegistryFits, LoadingIsReading
    <3>3. QED
      BY <3>1, <3>2
  <2>2. ASSUME NEW m \in RoomIds, shared'[m].stage = "reading"
        PROVE  replica'[shared'[m].home].loading = m
    <3>1. m # n /\ shared'[m] = shared[m]
      BY <2>2, <1>1, <1>3
    <3>2. shared[m].home \in Servers /\ replica[shared[m].home].loading = m
      BY <2>2, <3>1, <1>a, PlaneFacts DEF ReadingIsLoading
    <3>3. shared[m].home # k
      BY <3>1, <3>2, <1>d
    <3>4. QED
      BY <3>1, <3>2, <3>3, <1>4
  <2>3. QED
    BY <2>1, <2>2 DEF RegistryFits, ReadingIsLoading, LoadingIsReading
<1>9. CommandsFit'
  <2>1. ASSUME NEW j \in Servers, NEW i \in 1..Len(commands'[j])
        PROVE  /\ shared'[commands'[j][i].room].stage \notin {"unused", "reading"}
               /\ commands'[j][i].kind = "unsubscribe" =>
                     shared'[commands'[j][i].room].stage \in {"leaving", "closed"}
    <3>1. CASE commands'[j][i] = [kind |-> "subscribe", room |-> n]
      BY <3>1, <1>1, <1>3
    <3>2. CASE i \in 1..Len(commands[j]) /\ commands'[j][i] = commands[j][i]
      <4>1. commands[j][i].room \in RoomIds
        BY <3>2, <1>a, CommandFacts
      <4>2. /\ shared[commands[j][i].room].stage \notin {"unused", "reading"}
            /\ commands[j][i].kind = "unsubscribe" =>
                  shared[commands[j][i].room].stage \in {"leaving", "closed"}
        BY <3>2 DEF PlaneInv, CommandsFit
      <4>3. commands[j][i].room # n
        BY <4>2, <1>b
      <4>4. QED
        BY <3>2, <4>1, <4>2, <4>3, <1>3
    <3>3. QED
      BY <3>1, <3>2, <1>5
  <2>2. QED
    BY <2>1 DEF CommandsFit
<1>10. OnlyTyped' /\ OriginPersists'
  BY <1>b, <1>c, <1>1, <1>3 DEF PlaneInv, OnlyTyped, OriginPersists
<1>11. NothingMissed'
  <2> SUFFICES ASSUME ~gap PROVE NothingMissed'
    BY <1>b DEF NothingMissed
  <2>1. ASSUME NEW m \in RoomIds, shared'[m].stage = "reading"
        PROVE  typed \subseteq shared'[m].doc \cup InLog
    BY <2>1, <1>1, <1>3 DEF PlaneInv, NothingMissed
  <2>2. ASSUME NEW j \in Servers, replica'[j].live # None0, NEW e \in typed
        PROVE  \/ e \in shared'[replica'[j].live].doc
               \/ replica'[j].listed # None0 /\ e \in OnTheirWay(j)
    <3>1. CASE j = k
      BY <3>1, <1>1, <1>2, <1>3, <1>4, <1>b DEF PlaneInv, NothingMissed
    <3>2. CASE j # k
      <4>1. replica'[j] = replica[j]
        BY <3>2, <1>4
      <4>2. /\ replica[j].live \in RoomIds /\ replica[j].live # n
            /\ shared'[replica[j].live] = shared[replica[j].live]
        BY <4>1, <2>2, <1>a, <1>b, <1>3, PlaneFacts DEF RegistryFits
      <4>3. QED
        BY <4>1, <4>2, <2>2 DEF PlaneInv, NothingMissed
    <3>3. QED
      BY <3>1, <3>2
  <2>3. QED
    BY <1>b, <1>c, <2>1, <2>2 DEF PlaneInv, NothingMissed
<1>12. QED
  BY <1>7, <1>8, <1>9, <1>10, <1>11 DEF PlaneInv

\* Redis has subscribed a replica: no document changes, and the live room stays so.
LEMMA SubscribedInv ==
    ASSUME PlaneInv, NEW k \in Servers, Subscribed(k)
    PROVE  PlaneInv'
<1>a. BackplaneTypeOK /\ RegistryFits /\ ReadingIsLoading /\ LoadingIsReading
  BY DEF PlaneInv
<1>b. /\ UNCHANGED <<database, channel, lost, typed, gap>>
      /\ commands[k] # <<>> /\ commands[k] \in Seq(Command)
  BY <1>a, PlaneFacts DEF Subscribed
<1>c. InLog' = InLog /\ \A j \in Servers : OnTheirWay(j)' = OnTheirWay(j)
  BY <1>b DEF InLog, OnTheirWay
<1>d. PICK n \in RoomIds :
        /\ n = Head(commands[k]).room /\ shared[n].stage \notin {"unused", "reading"}
  <2>1. Head(commands[k]) = commands[k][1] /\ 1 \in 1..Len(commands[k])
    BY <1>b
  <2>2. QED
    BY <2>1, <1>a, CommandFacts DEF PlaneInv, CommandsFit
<1> DEFINE room == [shared[n] EXCEPT !.publishes = TRUE,
                                     !.stage = IF @ = "joining" THEN "open" ELSE @]
           known == [replica[k] EXCEPT !.subscribed = TRUE, !.wired = n]
<1>e. /\ shared' = [shared EXCEPT ![n] = room]
      /\ replica' = [replica EXCEPT ![k] = known]
      /\ client' = Admitted(n)
      /\ commands' = [commands EXCEPT ![k] = Tail(@)]
  <2>1. LET x == Head(commands[k]).room IN
          /\ replica' = [replica EXCEPT ![k].subscribed = TRUE, ![k].wired = x]
          /\ shared' = [shared EXCEPT ![x].publishes = TRUE,
                                      ![x].stage = IF @ = "joining" THEN "open" ELSE @]
          /\ client' = Admitted(x)
    BY DEF Subscribed
  <2>2. /\ replica' = [replica EXCEPT ![k].subscribed = TRUE, ![k].wired = n]
        /\ shared' = [shared EXCEPT ![n].publishes = TRUE,
                                    ![n].stage = IF @ = "joining" THEN "open" ELSE @]
        /\ client' = Admitted(n)
    BY <2>1, <1>d
  <2>3. replica' = [replica EXCEPT ![k] = known]
    BY <2>2, <1>a DEF BackplaneTypeOK, Replica
  <2>4. shared' = [shared EXCEPT ![n] = room]
    BY <2>2, <1>a DEF BackplaneTypeOK, SharedRoom
  <2>5. QED
    BY <2>2, <2>3, <2>4 DEF Subscribed
<1>1. /\ room \in SharedRoom /\ room.home = shared[n].home /\ room.doc = shared[n].doc
      /\ room.mark = shared[n].mark
      /\ room.stage = IF shared[n].stage = "joining" THEN "open" ELSE shared[n].stage
  BY <1>a, PlaneFacts DEF SharedRoom, RoomStages
<1>2. /\ known \in Replica /\ known.live = replica[k].live /\ known.loading = replica[k].loading
      /\ known.listed = replica[k].listed
  BY <1>a, PlaneFacts DEF Replica
<1> HIDE DEF room, known
<1>3. /\ shared' \in [RoomIds -> SharedRoom]
      /\ \A m \in RoomIds :
            /\ shared'[m].home = shared[m].home /\ shared'[m].doc = shared[m].doc
            /\ shared'[m].mark = shared[m].mark
            /\ \/ shared'[m].stage = shared[m].stage
               \/ shared[m].stage = "joining" /\ shared'[m].stage = "open"
  <2>1. /\ shared' \in [RoomIds -> SharedRoom] /\ shared'[n] = room
        /\ \A m \in RoomIds : m # n => shared'[m] = shared[m]
    BY <1>e, <1>1, <1>a DEF BackplaneTypeOK
  <2>2. QED
    BY <2>1, <1>1
<1>4. /\ replica' \in [Servers -> Replica]
      /\ \A j \in Servers :
            /\ replica'[j].live = replica[j].live /\ replica'[j].loading = replica[j].loading
            /\ replica'[j].listed = replica[j].listed
  BY <1>e, <1>2, <1>a DEF BackplaneTypeOK
<1>5. /\ commands' \in [Servers -> Seq(Command)]
      /\ \A j \in Servers : \A i \in 1..Len(commands'[j]) :
            \E h \in 1..Len(commands[j]) : commands'[j][i] = commands[j][h]
  <2>1. /\ Tail(commands[k]) \in Seq(Command)
        /\ \A i \in 1..Len(Tail(commands[k])) :
              i + 1 \in 1..Len(commands[k]) /\ Tail(commands[k])[i] = commands[k][i + 1]
    BY <1>b
  <2>2. QED
    BY <2>1, <1>e, <1>a DEF BackplaneTypeOK
<1>6. /\ client' \in [Clients -> Socket]
      /\ \A s \in Clients : \/ client'[s] = client[s]
                            \/ client'[s] = [at |-> "joined", room |-> n]
  BY <1>e, <1>a DEF BackplaneTypeOK, Admitted, Socket
<1>7. BackplaneTypeOK'
  <2>1. ASSUME NEW s \in Clients
        PROVE  /\ client'[s].at \in {"waiting", "joined"} => client'[s].room # None0
               /\ client'[s].at = "joined" =>
                     shared'[client'[s].room].stage \notin {"unused", "reading"}
    <3>1. CASE client'[s] = [at |-> "joined", room |-> n]
      <4>1. shared'[n].stage \notin {"unused", "reading"} /\ n # None0
        BY <1>d, <1>3, <1>a, PlaneFacts
      <4>2. QED
        BY <3>1, <4>1
    <3>2. CASE client'[s] = client[s]
      <4>1. client[s].at = "joined" => client[s].room \in RoomIds
        BY <1>a DEF BackplaneTypeOK, Socket
      <4>2. QED
        BY <3>2, <4>1, <1>a, <1>3 DEF BackplaneTypeOK
    <3>3. QED
      BY <3>1, <3>2, <1>6
  <2>2. \A m \in RoomIds : shared'[m].mark < database.next
    BY <1>3, <1>a DEF BackplaneTypeOK
  <2>3. QED
    BY <1>a, <1>b, <1>3, <1>4, <1>5, <1>6, <2>1, <2>2 DEF BackplaneTypeOK
<1>8. RegistryFits' /\ ReadingIsLoading' /\ LoadingIsReading'
  <2>1. RegistryFits'
    BY <1>a, <1>3, <1>4, PlaneFacts DEF RegistryFits
  <2>2. ReadingIsLoading'
    <3>1. \A m \in RoomIds : shared[m].home \in Servers
      BY <1>a, PlaneFacts
    <3>2. \A m \in RoomIds : shared'[m].stage = "reading" =>
              shared[m].stage = "reading" /\ shared'[m].home = shared[m].home
      BY <1>3
    <3>3. QED
      BY <3>1, <3>2, <1>a, <1>4 DEF ReadingIsLoading
  <2>3. LoadingIsReading'
    <3>1. \A j \in Servers : replica[j].loading # None0 => replica[j].loading \in RoomIds
      BY <1>a, PlaneFacts
    <3>2. \A m \in RoomIds : shared[m].stage = "reading" =>
              shared'[m].stage = "reading" /\ shared'[m].home = shared[m].home
      BY <1>3
    <3>3. QED
      BY <3>1, <3>2, <1>a, <1>4 DEF LoadingIsReading
  <2>4. QED
    BY <2>1, <2>2, <2>3
<1>9. CommandsFit'
  <2>1. ASSUME NEW j \in Servers, NEW i \in 1..Len(commands'[j])
        PROVE  /\ shared'[commands'[j][i].room].stage \notin {"unused", "reading"}
               /\ commands'[j][i].kind = "unsubscribe" =>
                     shared'[commands'[j][i].room].stage \in {"leaving", "closed"}
    <3>1. PICK h \in 1..Len(commands[j]) : commands'[j][i] = commands[j][h]
      BY <1>5
    <3>2. commands[j][h].room \in RoomIds
      BY <1>a, CommandFacts
    <3>3. QED
      BY <3>1, <3>2, <1>3 DEF PlaneInv, CommandsFit
  <2>2. QED
    BY <2>1 DEF CommandsFit
<1>10. OnlyTyped' /\ OriginPersists'
  BY <1>b, <1>c, <1>3 DEF PlaneInv, OnlyTyped, OriginPersists
<1>11. NothingMissed'
  <2>1. ASSUME NEW m \in RoomIds, shared'[m].stage = "reading"
        PROVE  shared[m].stage = "reading"
    BY <2>1, <1>3
  <2>2. \A j \in Servers : replica[j].live # None0 =>
            shared'[replica[j].live].doc = shared[replica[j].live].doc
    BY <1>3, <1>a, PlaneFacts
  <2>3. QED
    BY <1>b, <1>c, <2>1, <2>2, <1>3, <1>4 DEF PlaneInv, NothingMissed
<1>12. QED
  BY <1>7, <1>8, <1>9, <1>10, <1>11 DEF PlaneInv

\* What is appended to a sequence comes last, and the rest stays.
LEMMA AppendFacts ==
    ASSUME NEW S, NEW q \in Seq(S), NEW x \in S
    PROVE  /\ Append(q, x) \in Seq(S) /\ Len(Append(q, x)) = Len(q) + 1 /\ Len(q) \in Nat
           /\ Append(q, x)[Len(q) + 1] = x
           /\ \A i \in 1..Len(q) : Append(q, x)[i] = q[i]
OBVIOUS

\* An edit: where it is kept, and every room in use is listed by a replica that hears of it,
\* none misses it.  No room that reads the log is listed, so one that does misses it.
LEMMA EditSharedInv ==
    ASSUME PlaneInv, NEW s \in Clients, NEW e \in Edits, NEW published \in BOOLEAN,
           EditShared(s, e, published)
    PROVE  PlaneInv'
<1> DEFINE n == client[s].room
           k == shared[n].home
           kept == shared[n].stage \in {"joining", "open"}
           heard == {i \in Servers \ {k} :
                        published /\ shared[n].publishes /\ replica[i].subscribed}
           room == IF kept THEN CountedAppend(Taking(shared[n], e)) ELSE Taking(shared[n], e)
<1>a. BackplaneTypeOK /\ RegistryFits /\ ReadingIsLoading /\ LoadingIsReading
  BY DEF PlaneInv
<1>b. /\ UNCHANGED <<replica, commands, client>> /\ typed' = typed \cup {e} /\ e \notin typed
      /\ n \in RoomIds /\ shared[n].stage \notin {"unused", "reading"} /\ k \in Servers
  <2>1. client[s].at = "joined" /\ client[s] \in Socket
    BY <1>a DEF EditShared, BackplaneTypeOK
  <2>2. n \in RoomIds
    BY <2>1, <1>a DEF BackplaneTypeOK, Socket
  <2>3. QED
    BY <2>1, <2>2, <1>a, PlaneFacts DEF EditShared, BackplaneTypeOK
<1>c. /\ lost' = IF published THEN lost ELSE lost + 1
      /\ shared' = [shared EXCEPT ![n] = room]
      /\ database' = IF kept THEN AppendRow(e) ELSE database
      /\ channel' = [i \in Servers |-> IF i \in heard THEN Append(channel[i], e) ELSE channel[i]]
      /\ gap' = (gap \/ ~kept \/ \E m \in Holding \ {n} :
                           \/ shared[m].home \notin heard
                           \/ replica[shared[m].home].listed # m)
  <2>1. shared' = [shared EXCEPT ![n] = room]
    BY DEF EditShared
  <2>2. database' = IF kept THEN AppendRow(e) ELSE database
    BY DEF EditShared
  <2>3. lost' = IF published THEN lost ELSE lost + 1
    BY DEF EditShared
  <2>4. channel' = [i \in Servers |-> IF i \in heard THEN Append(channel[i], e) ELSE channel[i]]
    BY Zenon DEF EditShared
  <2>5. gap' = (gap \/ ~kept \/ \E m \in Holding \ {n} :
                           \/ shared[m].home \notin heard
                           \/ replica[shared[m].home].listed # m)
    BY Zenon DEF EditShared
  <2>6. QED
    BY <2>1, <2>2, <2>3, <2>4, <2>5
<1>1. /\ room \in SharedRoom /\ room.home = k /\ room.stage = shared[n].stage
      /\ room.doc = shared[n].doc \cup {e}
      /\ room.mark = IF kept THEN database.next ELSE shared[n].mark
  <2>1. shared[n] \in SharedRoom /\ shared[n].dirty + 1 \in Nat /\ database.next \in Nat
    BY <1>a, <1>b, PlaneFacts
  <2>2. QED
    BY <2>1 DEF SharedRoom, CountedAppend, Taking
<1> HIDE DEF room
<1>2. /\ shared' \in [RoomIds -> SharedRoom] /\ shared'[n] = room
      /\ \A m \in RoomIds : m # n => shared'[m] = shared[m]
      /\ \A m \in RoomIds : shared'[m].home = shared[m].home /\ shared'[m].stage = shared[m].stage
  BY <1>b, <1>c, <1>1, <1>a DEF BackplaneTypeOK
<1>3. /\ database' \in [base : SUBSET Edits, log : SUBSET [id : Nat, edit : Edits], next : Nat]
      /\ database'.base = database.base
      /\ ~kept => database' = database
      /\ kept => /\ database'.log = database.log \cup {[id |-> database.next, edit |-> e]}
                 /\ database'.next = database.next + 1
  <2>1. CASE kept
    <3>1. database' = [database EXCEPT !.log = @ \cup {[id |-> database.next, edit |-> e]},
                                       !.next = @ + 1]
      BY <2>1, <1>c DEF AppendRow
    <3>2. /\ [id |-> database.next, edit |-> e] \in [id : Nat, edit : Edits]
          /\ database.next + 1 \in Nat
      BY <1>a, PlaneFacts
    <3>3. QED
      BY <2>1, <3>1, <3>2, <1>a DEF BackplaneTypeOK
  <2>2. CASE ~kept
    BY <2>2, <1>c, <1>a DEF BackplaneTypeOK
  <2>3. QED
    BY <2>1, <2>2
<1>4. InLog' = IF kept THEN InLog \cup {e} ELSE InLog
  <2>1. CASE kept
    <3> DEFINE new == [id |-> database.next, edit |-> e]
    <3>1. database'.log = database.log \cup {new} /\ new.edit = e
      BY <2>1, <1>3
    <3> HIDE DEF new
    <3>2. InLog' = {row.edit : row \in database.log} \cup {new.edit}
      BY <3>1 DEF InLog
    <3>3. QED
      BY <2>1, <3>1, <3>2 DEF InLog
  <2>2. CASE ~kept
    BY <2>2, <1>3 DEF InLog
  <2>3. QED
    BY <2>1, <2>2
<1>5. /\ channel' \in [Servers -> Seq(Edits)]
      /\ \A j \in Servers : /\ OnTheirWay(j) \subseteq OnTheirWay(j)'
                            /\ OnTheirWay(j)' \subseteq OnTheirWay(j) \cup {e}
                            /\ j \in heard => e \in OnTheirWay(j)'
  <2>1. ASSUME NEW j \in Servers
        PROVE  /\ channel'[j] \in Seq(Edits)
               /\ OnTheirWay(j) \subseteq OnTheirWay(j)'
               /\ OnTheirWay(j)' \subseteq OnTheirWay(j) \cup {e}
               /\ j \in heard => e \in OnTheirWay(j)'
    <3>1. CASE j \in heard
      <4>1. channel[j] \in Seq(Edits) /\ channel'[j] = Append(channel[j], e)
        BY <3>1, <1>c, <1>a, PlaneFacts
      <4>2. /\ channel'[j] \in Seq(Edits) /\ Len(channel'[j]) = Len(channel[j]) + 1
            /\ Len(channel[j]) \in Nat
            /\ channel'[j][Len(channel[j]) + 1] = e
            /\ \A i \in 1..Len(channel[j]) : channel'[j][i] = channel[j][i]
        BY <4>1, AppendFacts
      <4>3. ASSUME NEW f PROVE f \in OnTheirWay(j)' <=> f \in OnTheirWay(j) \/ f = e
        <5> DEFINE before == channel[j]
                   after == channel'[j]
        <5>1. f \in OnTheirWay(j)' <=> \E i \in 1..Len(after) : f = after[i]
          BY DEF OnTheirWay
        <5>2. f \in OnTheirWay(j) <=> \E i \in 1..Len(before) : f = before[i]
          BY DEF OnTheirWay
        <5> HIDE DEF before, after
        <5>3. /\ Len(before) \in Nat /\ Len(after) = Len(before) + 1
              /\ after[Len(before) + 1] = e
              /\ \A i \in 1..Len(before) : after[i] = before[i]
          BY <4>2 DEF before, after
        <5>4. \A i : i \in 1..Len(after) <=> i \in 1..Len(before) \/ i = Len(before) + 1
          BY <5>3
        <5>5. QED
          BY <5>1, <5>2, <5>3, <5>4
      <4>4. QED
        BY <4>2, <4>3
    <3>2. CASE j \notin heard
      <4>1. channel'[j] = channel[j]
        BY <3>2, <1>c
      <4>2. QED
        BY <4>1, <3>2, <1>a, PlaneFacts DEF OnTheirWay
    <3>3. QED
      BY <3>1, <3>2
  <2>2. channel' \in [Servers -> Seq(Edits)]
    BY <2>1, <1>c
  <2>3. QED
    BY <2>1, <2>2
<1> HIDE DEF heard
<1>6. BackplaneTypeOK'
  <2>1. ASSUME NEW t \in Clients
        PROVE  /\ client'[t].at \in {"waiting", "joined"} => client'[t].room # None0
               /\ client'[t].at = "joined" =>
                     shared'[client'[t].room].stage \notin {"unused", "reading"}
    <3>1. client[t].at = "joined" => client[t].room \in RoomIds
      BY <1>a DEF BackplaneTypeOK, Socket
    <3>2. QED
      BY <3>1, <1>a, <1>b, <1>2 DEF BackplaneTypeOK
  <2>2. ASSUME NEW m \in RoomIds PROVE shared'[m].mark < database'.next
    <3>1. shared[m].mark < database.next /\ shared[m].mark \in Nat /\ database.next \in Nat
      BY <1>a, PlaneFacts DEF BackplaneTypeOK
    <3>2. database'.next = IF kept THEN database.next + 1 ELSE database.next
      BY <1>3
    <3>3. shared'[m].mark = IF m = n /\ kept THEN database.next ELSE shared[m].mark
      BY <1>1, <1>2
    <3>4. QED
      BY <3>1, <3>2, <3>3
  <2>3. \A j \in Servers : \A i \in 1..Len(channel'[j]) : channel'[j][i] \in typed'
    <3>1. \A j \in Servers : OnTheirWay(j) \subseteq typed
      BY <1>a DEF BackplaneTypeOK, OnTheirWay
    <3>2. \A j \in Servers : OnTheirWay(j)' \subseteq typed'
      BY <3>1, <1>5, <1>b
    <3>3. QED
      BY <3>2 DEF OnTheirWay
  <2>4. lost' \in Nat /\ gap' \in BOOLEAN
    <3>1. lost \in Nat
      BY <1>a DEF BackplaneTypeOK
    <3>2. lost' \in Nat
      BY <3>1, <1>c
    <3>3. gap' \in BOOLEAN
      BY <1>c, <1>a DEF BackplaneTypeOK
    <3>4. QED
      BY <3>2, <3>3
  <2>5. QED
    BY <1>a, <1>b, <1>2, <1>3, <1>5, <2>1, <2>2, <2>3, <2>4 DEF BackplaneTypeOK
<1>7. RegistryFits' /\ ReadingIsLoading' /\ LoadingIsReading'
  BY <1>a, <1>b, <1>2, PlaneFacts DEF RegistryFits, ReadingIsLoading, LoadingIsReading
<1>8. CommandsFit'
  <2>1. \A j \in Servers : \A i \in 1..Len(commands[j]) : commands[j][i].room \in RoomIds
    BY <1>a, CommandFacts
  <2>2. QED
    BY <2>1, <1>b, <1>2 DEF PlaneInv, CommandsFit
<1>9. OnlyTyped'
  <2>1. database'.base \subseteq typed' /\ InLog' \subseteq typed'
    BY <1>3, <1>4, <1>b DEF PlaneInv, OnlyTyped
  <2>2. ASSUME NEW x \in database'.log PROVE x.id < database'.next
    <3>1. database.next \in Nat /\ \A y \in database.log : y.id \in Nat /\ y.id < database.next
      BY <1>a, PlaneFacts DEF PlaneInv, OnlyTyped
    <3>2. QED
      BY <3>1, <1>3
  <2>3. \A m \in RoomIds : shared'[m].doc \subseteq typed'
    BY <1>1, <1>2, <1>b DEF PlaneInv, OnlyTyped
  <2>4. QED
    BY <2>1, <2>2, <2>3 DEF OnlyTyped
<1>10. OriginPersists'
  <2>1. \A y \in database.log : y.edit # e
    BY <1>b DEF PlaneInv, OnlyTyped, InLog
  <2>2. QED
    BY <2>1, <1>3 DEF PlaneInv, OriginPersists
<1>11. NothingMissed'
  <2> SUFFICES ASSUME ~gap' PROVE NothingMissed'
    BY DEF NothingMissed
  <2>1. /\ ~gap /\ kept
        /\ \A m \in Holding \ {n} :
              shared[m].home \in heard /\ replica[shared[m].home].listed = m
    BY <1>c
  <2>2. typed' \subseteq database'.base \cup InLog'
    BY <2>1, <1>3, <1>4, <1>b DEF PlaneInv, NothingMissed
  <2>3. ASSUME NEW m \in RoomIds, shared'[m].stage = "reading" PROVE FALSE
    <3>1. m \in Holding /\ m # n /\ shared[m].stage = "reading" /\ shared[m].home \in Servers
      BY <2>3, <1>2, <1>b, <1>a, PlaneFacts DEF Holding
    <3>2. replica[shared[m].home].listed = m /\ m # None0
      BY <2>1, <3>1, <1>a, PlaneFacts
    <3>3. shared[m].stage \in {"joining", "open"}
      BY <3>1, <3>2, <1>a DEF RegistryFits
    <3>4. QED
      BY <3>1, <3>3
  <2>4. ASSUME NEW j \in Servers, replica'[j].live # None0, NEW f \in typed'
        PROVE  \/ f \in shared'[replica'[j].live].doc
               \/ replica'[j].listed # None0 /\ f \in OnTheirWay(j)'
    <3> DEFINE m == replica[j].live
    <3>1. /\ m \in RoomIds /\ shared[m].home = j /\ shared[m].stage \in {"joining", "open"}
          /\ replica'[j] = replica[j] /\ m # None0
      BY <2>4, <1>b, <1>a, PlaneFacts DEF RegistryFits
    <3>2. CASE f = e
      <4>1. CASE m = n
        BY <3>1, <3>2, <4>1, <1>1, <1>2
      <4>2. CASE m # n
        <5>1. m \in Holding \ {n}
          BY <3>1, <4>2 DEF Holding
        <5>2. j \in heard /\ replica[j].listed = m
          BY <5>1, <2>1, <3>1
        <5>3. QED
          BY <5>2, <3>1, <3>2, <1>5
      <4>3. QED
        BY <4>1, <4>2
    <3>3. CASE f \in typed
      <4>1. \/ f \in shared[m].doc
            \/ replica[j].listed # None0 /\ f \in OnTheirWay(j)
        BY <3>1, <3>3, <2>1 DEF PlaneInv, NothingMissed
      <4>2. shared[m].doc \subseteq shared'[m].doc
        BY <3>1, <1>1, <1>2
      <4>3. QED
        BY <4>1, <4>2, <3>1, <1>5
    <3>4. QED
      BY <3>2, <3>3, <2>4, <1>b
  <2>5. QED
    BY <2>2, <2>3, <2>4 DEF NothingMissed
<1>12. QED
  BY <1>6, <1>7, <1>8, <1>9, <1>10, <1>11 DEF PlaneInv

\* A message reaches the room that is listed, which is the live one.
LEMMA DeliverInv ==
    ASSUME PlaneInv, NEW k \in Servers, Deliver(k)
    PROVE  PlaneInv'
<1> DEFINE n == replica[k].listed
           e == Head(channel[k])
<1>a. BackplaneTypeOK /\ RegistryFits /\ ReadingIsLoading /\ LoadingIsReading
  BY DEF PlaneInv
<1>b. /\ UNCHANGED <<database, replica, commands, client, lost, typed, gap>>
      /\ channel[k] # <<>> /\ channel[k] \in Seq(Edits)
      /\ channel' = [channel EXCEPT ![k] = Tail(@)]
      /\ shared' = IF n = None0 THEN shared ELSE [shared EXCEPT ![n] = Taking(@, e)]
  BY <1>a, PlaneFacts DEF Deliver
<1>c. InLog' = InLog
  BY <1>b DEF InLog
<1>d. e \in typed /\ e \in Edits
  <2>1. e = channel[k][1] /\ 1 \in 1..Len(channel[k])
    BY <1>b
  <2>2. QED
    BY <2>1, <1>a DEF BackplaneTypeOK
<1>1. /\ channel' \in [Servers -> Seq(Edits)]
      /\ \A j \in Servers : OnTheirWay(j)' \subseteq OnTheirWay(j)
      /\ \A j \in Servers \ {k} : OnTheirWay(j)' = OnTheirWay(j)
      /\ OnTheirWay(k) \subseteq OnTheirWay(k)' \cup {e}
  <2>1. /\ Tail(channel[k]) \in Seq(Edits) /\ Len(Tail(channel[k])) = Len(channel[k]) - 1
        /\ \A i \in 1..Len(Tail(channel[k])) :
              i + 1 \in 1..Len(channel[k]) /\ Tail(channel[k])[i] = channel[k][i + 1]
        /\ e = channel[k][1] /\ Len(channel[k]) \in Nat
    BY <1>b
  <2>2. channel'[k] = Tail(channel[k]) /\ \A j \in Servers \ {k} : channel'[j] = channel[j]
    BY <1>b, <1>a DEF BackplaneTypeOK
  <2>3. OnTheirWay(k)' \subseteq OnTheirWay(k)
    BY <2>1, <2>2 DEF OnTheirWay
  <2>4. ASSUME NEW i \in 1..Len(channel[k]) PROVE channel[k][i] \in OnTheirWay(k)' \cup {e}
    <3>1. CASE i = 1
      BY <3>1, <2>1
    <3>2. CASE i # 1
      <4>1. i - 1 \in 1..Len(Tail(channel[k])) /\ Tail(channel[k])[i - 1] = channel[k][i]
        BY <3>2, <2>1
      <4>2. QED
        BY <4>1, <2>2 DEF OnTheirWay
    <3>3. QED
      BY <3>1, <3>2
  <2>5. QED
    BY <2>1, <2>2, <2>3, <2>4, <1>b, <1>a DEF OnTheirWay, BackplaneTypeOK
<1>2. /\ shared' \in [RoomIds -> SharedRoom]
      /\ \A m \in RoomIds :
            /\ shared'[m].home = shared[m].home /\ shared'[m].stage = shared[m].stage
            /\ shared'[m].mark = shared[m].mark
            /\ shared[m].doc \subseteq shared'[m].doc /\ shared'[m].doc \subseteq shared[m].doc \cup {e}
            /\ m = n => e \in shared'[m].doc
  <2>1. CASE n = None0
    BY <2>1, <1>a, <1>b, PlaneFacts DEF BackplaneTypeOK
  <2>2. CASE n # None0
    <3>1. n \in RoomIds /\ shared[n] \in SharedRoom
      BY <2>2, <1>a, PlaneFacts
    <3> DEFINE room == Taking(shared[n], e)
    <3>2. /\ room \in SharedRoom /\ room.home = shared[n].home /\ room.stage = shared[n].stage
          /\ room.mark = shared[n].mark /\ room.doc = shared[n].doc \cup {e}
      BY <3>1, <1>d DEF SharedRoom, Taking
    <3> HIDE DEF room
    <3>3. shared' = [shared EXCEPT ![n] = room]
      BY <2>2, <1>b DEF room
    <3>4. /\ shared' \in [RoomIds -> SharedRoom] /\ shared'[n] = room
          /\ \A m \in RoomIds : m # n => shared'[m] = shared[m]
      BY <3>1, <3>2, <3>3, <1>a DEF BackplaneTypeOK
    <3>5. QED
      BY <3>2, <3>4
  <2>3. QED
    BY <2>1, <2>2
<1>3. BackplaneTypeOK'
  <2>1. \A j \in Servers : OnTheirWay(j)' \subseteq typed
    <3>1. \A j \in Servers : OnTheirWay(j) \subseteq typed
      BY <1>a DEF BackplaneTypeOK, OnTheirWay
    <3>2. QED
      BY <3>1, <1>1
  <2>2. \A j \in Servers : \A i \in 1..Len(channel'[j]) : channel'[j][i] \in typed
    BY <2>1 DEF OnTheirWay
  <2>3. ASSUME NEW t \in Clients, client[t].at = "joined" PROVE client[t].room \in RoomIds
    BY <2>3, <1>a DEF BackplaneTypeOK, Socket
  <2>4. QED
    BY <1>a, <1>b, <1>1, <1>2, <2>2, <2>3 DEF BackplaneTypeOK
<1>4. RegistryFits' /\ ReadingIsLoading' /\ LoadingIsReading'
  BY <1>a, <1>b, <1>2, PlaneFacts DEF RegistryFits, ReadingIsLoading, LoadingIsReading
<1>5. CommandsFit'
  <2>1. \A j \in Servers : \A i \in 1..Len(commands[j]) : commands[j][i].room \in RoomIds
    BY <1>a, CommandFacts
  <2>2. QED
    BY <2>1, <1>b, <1>2 DEF PlaneInv, CommandsFit
<1>6. OnlyTyped' /\ OriginPersists'
  BY <1>b, <1>c, <1>d, <1>2 DEF PlaneInv, OnlyTyped, OriginPersists
<1>7. NothingMissed'
  <2> SUFFICES ASSUME ~gap PROVE NothingMissed'
    BY <1>b DEF NothingMissed
  <2>1. \A m \in RoomIds : shared'[m].stage = "reading" => typed \subseteq shared'[m].doc \cup InLog
    BY <1>2 DEF PlaneInv, NothingMissed
  <2>2. ASSUME NEW j \in Servers, replica[j].live # None0, NEW f \in typed
        PROVE  \/ f \in shared'[replica[j].live].doc
               \/ replica[j].listed # None0 /\ f \in OnTheirWay(j)'
    <3> DEFINE m == replica[j].live
    <3>1. m \in RoomIds /\ shared[m].doc \subseteq shared'[m].doc
      BY <2>2, <1>a, <1>2, PlaneFacts
    <3>2. f \in shared[m].doc \/ (replica[j].listed # None0 /\ f \in OnTheirWay(j))
      BY <2>2 DEF PlaneInv, NothingMissed
    <3>3. CASE j = k /\ f = e /\ replica[j].listed # None0
      <4>1. n = m
        BY <3>3, <1>a DEF RegistryFits
      <4>2. QED
        BY <4>1, <3>1, <3>3, <1>2
    <3>4. CASE ~(j = k /\ f = e)
      BY <3>1, <3>2, <3>4, <1>1
    <3>5. QED
      BY <3>1, <3>2, <3>3, <3>4
  <2>3. QED
    BY <1>b, <1>c, <2>1, <2>2 DEF PlaneInv, NothingMissed
<1>8. QED
  BY <1>3, <1>4, <1>5, <1>6, <1>7 DEF PlaneInv

\* A fold that drops nothing, while no room reads the log, keeps what is stored.
LEMMA CompactedKeeps ==
    ASSUME PlaneInv, NEW n \in RoomIds, Compacted(n)
    PROVE  /\ database' \in [base : SUBSET Edits, log : SUBSET [id : Nat, edit : Edits], next : Nat]
           /\ database'.next = database.next /\ database'.log \subseteq database.log
           /\ database'.base = shared[n].doc /\ InLog' \subseteq InLog
           /\ gap' \in BOOLEAN
           /\ ~gap' => /\ ~gap /\ \A m \in RoomIds : shared[m].stage # "reading"
                       /\ database.base \cup InLog \subseteq database'.base \cup InLog'
<1>a. BackplaneTypeOK
  BY DEF PlaneInv
<1> DEFINE rest == {row \in database.log : row.id > shared[n].mark}
<1>1. /\ database' = [database EXCEPT !.base = shared[n].doc, !.log = rest]
      /\ gap' = (gap \/ (\E row \in database.log :
                          row.id <= shared[n].mark /\ row.edit \notin shared[n].doc)
                   \/ ~(database.base \subseteq shared[n].doc)
                   \/ \E m \in RoomIds : shared[m].stage = "reading")
  BY DEF Compacted
<1>2. rest \subseteq database.log /\ \A row \in database.log : row \in rest \/ row.id <= shared[n].mark
  BY <1>a, PlaneFacts
<1> HIDE DEF rest
<1>3. /\ database' \in [base : SUBSET Edits, log : SUBSET [id : Nat, edit : Edits], next : Nat]
      /\ database'.next = database.next /\ database'.log = rest
      /\ database'.base = shared[n].doc
  BY <1>1, <1>2, <1>a, PlaneFacts DEF BackplaneTypeOK
<1>4. InLog' = {row.edit : row \in rest}
  BY <1>3 DEF InLog
<1>5. gap' \in BOOLEAN
  BY <1>1, <1>a DEF BackplaneTypeOK
<1>6. ASSUME ~gap'
      PROVE  /\ ~gap /\ \A m \in RoomIds : shared[m].stage # "reading"
             /\ database.base \cup InLog \subseteq database'.base \cup InLog'
  BY <1>1, <1>2, <1>3, <1>4, <1>6 DEF InLog
<1>7. InLog' \subseteq InLog
  BY <1>2, <1>4 DEF InLog
<1>8. QED
  BY <1>2, <1>3, <1>5, <1>6, <1>7

\* What is true of the rooms, the registry and the messages stays so over a fold.
LEMMA CompactedInv ==
    ASSUME PlaneInv, NEW n \in RoomIds, Compacted(n),
           BackplaneTypeOK', Registered', CommandsFit',
           \A m \in RoomIds : shared'[m].doc = shared[m].doc,
           \A m \in RoomIds : shared'[m].stage = "reading" => shared[m].stage = "reading",
           \A k \in Servers : /\ replica'[k].live = replica[k].live
                              /\ replica'[k].listed = replica[k].listed,
           UNCHANGED <<channel, typed>>
    PROVE  PlaneInv'
<1>a. BackplaneTypeOK
  BY DEF PlaneInv
<1>1. OnlyTyped'
  <2>1. database'.base \subseteq typed /\ InLog' \subseteq typed
    BY CompactedKeeps DEF PlaneInv, OnlyTyped
  <2>2. \A x \in database'.log : x.id < database'.next
    BY CompactedKeeps DEF PlaneInv, OnlyTyped
  <2>3. QED
    BY <2>1, <2>2 DEF PlaneInv, OnlyTyped
<1>2. OriginPersists'
  BY CompactedKeeps DEF PlaneInv, OriginPersists
<1>3. NothingMissed'
  <2> SUFFICES ASSUME ~gap' PROVE NothingMissed'
    BY DEF NothingMissed
  <2>1. /\ ~gap /\ \A m \in RoomIds : shared'[m].stage # "reading"
        /\ typed \subseteq database'.base \cup InLog'
    BY CompactedKeeps DEF PlaneInv, NothingMissed
  <2>2. \A k \in Servers : OnTheirWay(k)' = OnTheirWay(k)
    BY DEF OnTheirWay
  <2>3. ASSUME NEW k \in Servers, replica'[k].live # None0, NEW e \in typed
        PROVE  \/ e \in shared'[replica'[k].live].doc
               \/ replica'[k].listed # None0 /\ e \in OnTheirWay(k)
    <3>1. replica'[k].live = replica[k].live /\ replica[k].live \in RoomIds
      BY <2>3, <1>a, PlaneFacts
    <3>2. shared'[replica'[k].live].doc = shared[replica[k].live].doc
      BY <3>1
    <3>3. QED
      BY <3>1, <3>2, <2>1, <2>3 DEF PlaneInv, NothingMissed
  <2>4. QED
    BY <2>1, <2>2, <2>3 DEF NothingMissed
<1>4. QED
  BY <1>1, <1>2, <1>3 DEF PlaneInv, Registered

\* A room folds.
LEMMA FoldSharedInv ==
    ASSUME PlaneInv, NEW n \in RoomIds, FoldShared(n)
    PROVE  PlaneInv'
<1>a. BackplaneTypeOK /\ RegistryFits /\ ReadingIsLoading /\ LoadingIsReading
  BY DEF PlaneInv
<1>b. /\ Compacted(n) /\ UNCHANGED <<replica, commands, channel, client, lost, typed>>
      /\ shared' = [shared EXCEPT ![n].dirty = 0]
  BY DEF FoldShared
<1>1. /\ shared' \in [RoomIds -> SharedRoom]
      /\ \A m \in RoomIds :
            /\ shared'[m].home = shared[m].home /\ shared'[m].stage = shared[m].stage
            /\ shared'[m].mark = shared[m].mark /\ shared'[m].doc = shared[m].doc
  <2> DEFINE room == [shared[n] EXCEPT !.dirty = 0]
  <2>1. /\ room \in SharedRoom /\ room.home = shared[n].home /\ room.stage = shared[n].stage
        /\ room.mark = shared[n].mark /\ room.doc = shared[n].doc
    BY <1>a, PlaneFacts DEF SharedRoom
  <2>2. shared' = [shared EXCEPT ![n] = room]
    BY <1>b
  <2> HIDE DEF room
  <2>3. /\ shared' \in [RoomIds -> SharedRoom] /\ shared'[n] = room
        /\ \A m \in RoomIds : m # n => shared'[m] = shared[m]
    BY <2>1, <2>2, <1>a DEF BackplaneTypeOK
  <2>4. QED
    BY <2>1, <2>3
<1>2. BackplaneTypeOK'
  <2>1. ASSUME NEW t \in Clients, client[t].at = "joined" PROVE client[t].room \in RoomIds
    BY <2>1, <1>a DEF BackplaneTypeOK, Socket
  <2>2. QED
    BY <1>a, <1>b, <1>1, <2>1, CompactedKeeps DEF BackplaneTypeOK
<1>3. Registered'
  BY <1>a, <1>b, <1>1, PlaneFacts
  DEF Registered, RegistryFits, ReadingIsLoading, LoadingIsReading
<1>4. CommandsFit'
  <2>1. \A j \in Servers : \A i \in 1..Len(commands[j]) : commands[j][i].room \in RoomIds
    BY <1>a, CommandFacts
  <2>2. QED
    BY <2>1, <1>b, <1>1 DEF PlaneInv, CommandsFit
<1>5. QED
  BY <1>b, <1>1, <1>2, <1>3, <1>4, CompactedInv

\* The last one leaves a room: its replica has no live room any more, be it this one or
\* another, and there is nothing to promise of it.
LEMMA LeaveInv ==
    ASSUME PlaneInv, NEW s \in Clients, Leave(s)
    PROVE  PlaneInv'
<1> DEFINE n == client[s].room
           k == shared[n].home
           gone == [at |-> "left", room |-> None0]
<1>a. BackplaneTypeOK /\ RegistryFits /\ ReadingIsLoading /\ LoadingIsReading
  BY DEF PlaneInv
<1>b. /\ UNCHANGED <<database, channel, lost, typed, gap>> /\ client' = [client EXCEPT ![s] = gone]
      /\ n \in RoomIds /\ shared[n].stage \notin {"unused", "reading"} /\ k \in Servers
      /\ gone \in Socket
  <2>1. client[s].at = "joined" /\ client[s] \in Socket
    BY <1>a DEF Leave, BackplaneTypeOK
  <2>2. n \in RoomIds
    BY <2>1, <1>a DEF BackplaneTypeOK, Socket
  <2>3. [NoSocket EXCEPT !.at = "left"] = gone
    BY DEF NoSocket
  <2>4. QED
    BY <2>1, <2>2, <2>3, <1>a, PlaneFacts DEF Leave, BackplaneTypeOK, Socket
<1>c. InLog' = InLog /\ \A j \in Servers : OnTheirWay(j)' = OnTheirWay(j)
  BY <1>b DEF InLog, OnTheirWay
<1>d. /\ client' \in [Clients -> Socket] /\ client'[s] = gone
      /\ \A t \in Clients : t # s => client'[t] = client[t]
  BY <1>b, <1>a DEF BackplaneTypeOK
<1>1. /\ shared' \in [RoomIds -> SharedRoom]
      /\ \A m \in RoomIds :
            /\ shared'[m].home = shared[m].home /\ shared'[m].doc = shared[m].doc
            /\ shared'[m].mark = shared[m].mark
            /\ shared'[m].stage \in {shared[m].stage}
                  \cup (IF m = n /\ replica'[k].live = None0 THEN {"leaving"} ELSE {})
            /\ shared[m].stage = "closed" => shared'[m].stage = "closed"
      /\ UNCHANGED commands \/ shared'[n].stage \in {"leaving", "closed"}
      /\ replica' \in [Servers -> Replica]
      /\ \A j \in Servers :
            /\ replica'[j].loading = replica[j].loading
            /\ \/ replica'[j].live = replica[j].live /\ replica'[j].listed = replica[j].listed
               \/ replica'[j].live = None0 /\ replica'[j].listed = None0
      /\ \/ UNCHANGED commands
         \/ commands' = [commands EXCEPT ![k] =
                             Append(@, [kind |-> "unsubscribe", room |-> n])]
  <2>1. CASE UNCHANGED <<shared, replica, commands>>
    BY <2>1, <1>a DEF BackplaneTypeOK
  <2>2. CASE ~UNCHANGED <<shared, replica, commands>>
    <3> DEFINE room(m) == Left(shared[m], m = n, m = replica[k].wired)
               known == [replica[k] EXCEPT !.live = None0, !.listed = None0, !.wired = None0]
    <3>1. /\ shared' = [m \in RoomIds |-> room(m)]
          /\ replica' = [replica EXCEPT ![k].live = None0, ![k].listed = None0,
                                        ![k].wired = None0]
          /\ commands' = [commands EXCEPT ![k] =
                              Append(@, [kind |-> "unsubscribe", room |-> n])]
      BY <2>2 DEF Leave
    <3>2. ASSUME NEW m \in RoomIds
          PROVE  /\ room(m) \in SharedRoom
                 /\ room(m).home = shared[m].home /\ room(m).doc = shared[m].doc
                 /\ room(m).mark = shared[m].mark
                 /\ room(m).stage = IF m = n /\ shared[m].stage # "closed" THEN "leaving"
                                    ELSE shared[m].stage
      <4>1. shared[m] \in SharedRoom
        BY <1>a, PlaneFacts
      <4>2. QED
        BY <4>1 DEF SharedRoom, RoomStages, Left
    <3>3. replica' = [replica EXCEPT ![k] = known]
      BY <3>1, <1>a DEF BackplaneTypeOK, Replica
    <3>4. /\ known \in Replica /\ known.live = None0 /\ known.listed = None0
          /\ known.loading = replica[k].loading
      BY <1>a, <1>b, PlaneFacts DEF Replica
    <3> HIDE DEF room, known
    <3>5. /\ replica' \in [Servers -> Replica] /\ replica'[k] = known
          /\ \A j \in Servers : j # k => replica'[j] = replica[j]
      BY <3>3, <3>4, <1>a, <1>b DEF BackplaneTypeOK
    <3>6. /\ shared' \in [RoomIds -> SharedRoom]
          /\ \A m \in RoomIds : shared'[m] = room(m)
      BY <3>1, <3>2
    <3>7. QED
      BY <3>1, <3>2, <3>4, <3>5, <3>6, <1>b
  <2>3. QED
    BY <2>1, <2>2
<1>2. /\ commands' \in [Servers -> Seq(Command)]
      /\ \A j \in Servers : \A i \in 1..Len(commands'[j]) :
            \/ i \in 1..Len(commands[j]) /\ commands'[j][i] = commands[j][i]
            \/ /\ commands'[j][i] = [kind |-> "unsubscribe", room |-> n]
               /\ shared'[n].stage \in {"leaving", "closed"}
  <2>1. CASE UNCHANGED commands
    BY <2>1, <1>a DEF BackplaneTypeOK
  <2>2. CASE ~UNCHANGED commands
    <3>1. [kind |-> "unsubscribe", room |-> n] \in Command
      BY <1>b DEF Command
    <3>2. /\ commands' = [commands EXCEPT ![k] =
                               Append(@, [kind |-> "unsubscribe", room |-> n])]
          /\ shared'[n].stage \in {"leaving", "closed"}
      BY <2>2, <1>1
    <3>3. commands[k] \in Seq(Command) /\ commands \in [Servers -> Seq(Command)]
      BY <1>a, <1>b DEF BackplaneTypeOK
    <3>4. QED
      BY <3>1, <3>2, <3>3, <1>b
  <2>3. QED
    BY <2>1, <2>2
<1>3. \A m \in RoomIds : /\ shared'[m].stage = "reading" <=> shared[m].stage = "reading"
                         /\ shared[m].stage \notin {"unused", "reading"} =>
                               shared'[m].stage \notin {"unused", "reading"}
                         /\ shared[m].stage \in {"leaving", "closed"} =>
                               shared'[m].stage \in {"leaving", "closed"}
  BY <1>1, <1>b
<1>4. BackplaneTypeOK'
  <2>1. ASSUME NEW t \in Clients
        PROVE  /\ client'[t].at \in {"waiting", "joined"} => client'[t].room # None0
               /\ client'[t].at = "joined" =>
                     shared'[client'[t].room].stage \notin {"unused", "reading"}
    <3>1. CASE t = s
      BY <3>1, <1>d
    <3>2. CASE t # s
      <4>1. client[t].at = "joined" => client[t].room \in RoomIds
        BY <1>a DEF BackplaneTypeOK, Socket
      <4>2. QED
        BY <3>2, <4>1, <1>a, <1>d, <1>3 DEF BackplaneTypeOK
    <3>3. QED
      BY <3>1, <3>2
  <2>2. QED
    BY <1>a, <1>b, <1>1, <1>2, <1>d, <2>1 DEF BackplaneTypeOK
<1>5. RegistryFits'
  <2> SUFFICES ASSUME NEW j \in Servers
               PROVE  /\ replica'[j].listed \in {None0, replica'[j].live}
                      /\ replica'[j].live # None0 =>
                            /\ shared'[replica'[j].live].home = j
                            /\ shared'[replica'[j].live].stage \in {"joining", "open"}
                            /\ replica'[j].loading = None0
    BY DEF RegistryFits
  <2>1. replica'[j].listed \in {None0, replica'[j].live}
    BY <1>1, <1>a DEF RegistryFits
  <2>2. ASSUME replica'[j].live # None0
        PROVE  /\ shared'[replica'[j].live].home = j
               /\ shared'[replica'[j].live].stage \in {"joining", "open"}
               /\ replica'[j].loading = None0
    <3> DEFINE m == replica[j].live
    <3>1. /\ replica'[j].live = m /\ m \in RoomIds /\ shared[m].home = j
          /\ shared[m].stage \in {"joining", "open"} /\ replica[j].loading = None0
      <4>1. m = replica[j].live /\ replica'[j].live = m
        BY <2>2, <1>1
      <4>2. m \in RoomIds
        BY <2>2, <4>1, <1>a, PlaneFacts
      <4>3. QED
        BY <2>2, <4>1, <4>2, <1>a DEF RegistryFits
    <3>2. ~(m = n /\ replica'[k].live = None0)
      BY <2>2, <3>1
    <3>3. QED
      BY <3>1, <3>2, <1>1
  <2>3. QED
    BY <2>1, <2>2
<1>6. ReadingIsLoading' /\ LoadingIsReading'
  <2>1. ReadingIsLoading'
    <3>1. \A m \in RoomIds : shared[m].home \in Servers
      BY <1>a, PlaneFacts
    <3>2. \A m \in RoomIds : shared'[m].stage = "reading" =>
              shared[m].stage = "reading" /\ shared'[m].home = shared[m].home
      BY <1>1, <1>3
    <3>3. \A j \in Servers : replica'[j].loading = replica[j].loading
      BY <1>1
    <3>4. QED
      BY <3>1, <3>2, <3>3, <1>a DEF ReadingIsLoading
  <2>2. LoadingIsReading'
    <3>1. \A j \in Servers : replica[j].loading # None0 => replica[j].loading \in RoomIds
      BY <1>a, PlaneFacts
    <3>2. \A m \in RoomIds : shared[m].stage = "reading" =>
              shared'[m].stage = "reading" /\ shared'[m].home = shared[m].home
      BY <1>1, <1>3
    <3>3. \A j \in Servers : replica'[j].loading = replica[j].loading
      BY <1>1
    <3>4. QED
      BY <3>1, <3>2, <3>3, <1>a DEF LoadingIsReading
  <2>3. QED
    BY <2>1, <2>2
<1>7. CommandsFit'
  <2>1. ASSUME NEW j \in Servers, NEW i \in 1..Len(commands'[j])
        PROVE  /\ shared'[commands'[j][i].room].stage \notin {"unused", "reading"}
               /\ commands'[j][i].kind = "unsubscribe" =>
                     shared'[commands'[j][i].room].stage \in {"leaving", "closed"}
    <3>1. CASE i \in 1..Len(commands[j]) /\ commands'[j][i] = commands[j][i]
      <4>1. commands[j][i].room \in RoomIds
        BY <3>1, <1>a, CommandFacts
      <4>2. QED
        BY <3>1, <4>1, <1>3 DEF PlaneInv, CommandsFit
    <3>2. CASE /\ commands'[j][i] = [kind |-> "unsubscribe", room |-> n]
               /\ shared'[n].stage \in {"leaving", "closed"}
      BY <3>2
    <3>3. QED
      BY <3>1, <3>2, <1>2
  <2>2. QED
    BY <2>1 DEF CommandsFit
<1>8. OnlyTyped' /\ OriginPersists'
  BY <1>b, <1>c, <1>1 DEF PlaneInv, OnlyTyped, OriginPersists
<1>9. NothingMissed'
  <2> SUFFICES ASSUME ~gap PROVE NothingMissed'
    BY <1>b DEF NothingMissed
  <2>1. \A m \in RoomIds : shared'[m].stage = "reading" => typed \subseteq shared'[m].doc \cup InLog
    BY <1>1, <1>3 DEF PlaneInv, NothingMissed
  <2>2. ASSUME NEW j \in Servers, replica'[j].live # None0, NEW e \in typed
        PROVE  \/ e \in shared'[replica'[j].live].doc
               \/ replica'[j].listed # None0 /\ e \in OnTheirWay(j)
    <3>1. /\ replica'[j].live = replica[j].live /\ replica'[j].listed = replica[j].listed
          /\ replica[j].live \in RoomIds
      BY <2>2, <1>1, <1>a, PlaneFacts
    <3>2. shared'[replica'[j].live].doc = shared[replica[j].live].doc
      BY <3>1, <1>1
    <3>3. QED
      BY <2>2, <3>1, <3>2 DEF PlaneInv, NothingMissed
  <2>3. QED
    BY <1>b, <1>c, <2>1, <2>2 DEF PlaneInv, NothingMissed
<1>10. QED
  BY <1>4, <1>5, <1>6, <1>7, <1>8, <1>9 DEF PlaneInv

\* Redis has unsubscribed a replica, for a room that was left: it is no live room, and folds
\* for the last time.
LEMMA UnsubscribedInv ==
    ASSUME PlaneInv, NEW k \in Servers, Unsubscribed(k)
    PROVE  PlaneInv'
<1>a. BackplaneTypeOK /\ RegistryFits /\ ReadingIsLoading /\ LoadingIsReading
  BY DEF PlaneInv
<1>b. /\ UNCHANGED <<channel, client, lost, typed>>
      /\ commands[k] # <<>> /\ commands[k] \in Seq(Command)
      /\ commands' = [commands EXCEPT ![k] = Tail(@)]
      /\ replica' = [replica EXCEPT ![k].subscribed = FALSE]
  BY <1>a, PlaneFacts DEF Unsubscribed
<1>c. PICK n \in RoomIds :
        n = Head(commands[k]).room /\ shared[n].stage \in {"leaving", "closed"}
  <2>1. /\ Head(commands[k]) = commands[k][1] /\ 1 \in 1..Len(commands[k])
        /\ commands[k][1].kind = "unsubscribe"
    BY <1>b DEF Unsubscribed
  <2>2. QED
    BY <2>1, <1>a, CommandFacts DEF PlaneInv, CommandsFit
<1> DEFINE room == [shared[n] EXCEPT !.stage = "closed", !.dirty = 0]
           known == [replica[k] EXCEPT !.subscribed = FALSE]
<1>d. /\ shared' = [shared EXCEPT ![n].stage = "closed", ![n].dirty = 0]
      /\ Compacted(n) \/ UNCHANGED <<database, gap>>
  BY <1>c DEF Unsubscribed
<1>1. /\ room \in SharedRoom /\ room.home = shared[n].home /\ room.doc = shared[n].doc
      /\ room.mark = shared[n].mark /\ room.stage = "closed"
      /\ shared' = [shared EXCEPT ![n] = room]
  BY <1>a, <1>d, PlaneFacts DEF SharedRoom, RoomStages, BackplaneTypeOK
<1>2. /\ known \in Replica /\ known.live = replica[k].live /\ known.loading = replica[k].loading
      /\ known.listed = replica[k].listed
      /\ replica' = [replica EXCEPT ![k] = known]
  BY <1>a, <1>b, PlaneFacts DEF Replica
<1> HIDE DEF room, known
<1>3. /\ shared' \in [RoomIds -> SharedRoom] /\ shared'[n] = room
      /\ \A m \in RoomIds : m # n => shared'[m] = shared[m]
  BY <1>1, <1>a DEF BackplaneTypeOK
<1>4. \A m \in RoomIds :
          /\ shared'[m].home = shared[m].home /\ shared'[m].doc = shared[m].doc
          /\ shared'[m].mark = shared[m].mark
          /\ shared[m].stage \notin {"leaving", "closed"} => shared'[m].stage = shared[m].stage
          /\ shared[m].stage \in {"leaving", "closed"} =>
                shared'[m].stage \in {"leaving", "closed"}
  BY <1>1, <1>3, <1>c
<1>5. /\ replica' \in [Servers -> Replica]
      /\ \A j \in Servers :
            /\ replica'[j].live = replica[j].live /\ replica'[j].loading = replica[j].loading
            /\ replica'[j].listed = replica[j].listed
  BY <1>2, <1>a DEF BackplaneTypeOK
<1>6. /\ commands' \in [Servers -> Seq(Command)]
      /\ \A j \in Servers : \A i \in 1..Len(commands'[j]) :
            \E h \in 1..Len(commands[j]) : commands'[j][i] = commands[j][h]
  <2>1. /\ Tail(commands[k]) \in Seq(Command)
        /\ \A i \in 1..Len(Tail(commands[k])) :
              i + 1 \in 1..Len(commands[k]) /\ Tail(commands[k])[i] = commands[k][i + 1]
    BY <1>b
  <2>2. QED
    BY <2>1, <1>b, <1>a DEF BackplaneTypeOK
<1>7. BackplaneTypeOK'
  <2>1. ASSUME NEW t \in Clients, client[t].at = "joined"
        PROVE  shared'[client[t].room].stage \notin {"unused", "reading"}
    <3>1. client[t].room \in RoomIds /\ shared[client[t].room].stage \notin {"unused", "reading"}
      BY <2>1, <1>a DEF BackplaneTypeOK, Socket
    <3>2. QED
      BY <3>1, <1>4
  <2>2. /\ database' \in [base : SUBSET Edits, log : SUBSET [id : Nat, edit : Edits], next : Nat]
        /\ database'.next = database.next /\ gap' \in BOOLEAN
    <3>1. CASE Compacted(n)
      BY <3>1, CompactedKeeps
    <3>2. CASE UNCHANGED <<database, gap>>
      BY <3>2, <1>a DEF BackplaneTypeOK
    <3>3. QED
      BY <3>1, <3>2, <1>d
  <2>3. QED
    BY <1>a, <1>b, <1>3, <1>4, <1>5, <1>6, <2>1, <2>2 DEF BackplaneTypeOK
<1>8. Registered'
  <2>1. RegistryFits'
    <3>1. \A j \in Servers : replica[j].live # None0 => replica[j].live \in RoomIds
      BY <1>a, PlaneFacts
    <3>2. \A m \in RoomIds : shared[m].stage \in {"joining", "open"} =>
              shared'[m].stage \in {"joining", "open"} /\ shared'[m].home = shared[m].home
      BY <1>4
    <3>3. QED
      BY <3>1, <3>2, <1>a, <1>5 DEF RegistryFits
  <2>2. ReadingIsLoading'
    <3>1. \A m \in RoomIds : shared[m].home \in Servers
      BY <1>a, PlaneFacts
    <3>2. \A m \in RoomIds : shared'[m].stage = "reading" =>
              shared[m].stage = "reading" /\ shared'[m].home = shared[m].home
      BY <1>4
    <3>3. QED
      BY <3>1, <3>2, <1>a, <1>5 DEF ReadingIsLoading
  <2>3. LoadingIsReading'
    <3>1. \A j \in Servers : replica[j].loading # None0 => replica[j].loading \in RoomIds
      BY <1>a, PlaneFacts
    <3>2. \A m \in RoomIds : shared[m].stage = "reading" =>
              shared'[m].stage = "reading" /\ shared'[m].home = shared[m].home
      BY <1>4
    <3>3. QED
      BY <3>1, <3>2, <1>a, <1>5 DEF LoadingIsReading
  <2>4. QED
    BY <2>1, <2>2, <2>3 DEF Registered
<1>9. CommandsFit'
  <2>1. ASSUME NEW j \in Servers, NEW i \in 1..Len(commands'[j])
        PROVE  /\ shared'[commands'[j][i].room].stage \notin {"unused", "reading"}
               /\ commands'[j][i].kind = "unsubscribe" =>
                     shared'[commands'[j][i].room].stage \in {"leaving", "closed"}
    <3>1. PICK h \in 1..Len(commands[j]) : commands'[j][i] = commands[j][h]
      BY <1>6
    <3>2. commands[j][h].room \in RoomIds
      BY <1>a, CommandFacts
    <3>3. QED
      BY <3>1, <3>2, <1>4 DEF PlaneInv, CommandsFit
  <2>2. QED
    BY <2>1 DEF CommandsFit
<1>10. CASE Compacted(n)
  BY <1>10, <1>4, <1>5, <1>7, <1>8, <1>9, <1>b, CompactedInv
<1>11. CASE UNCHANGED <<database, gap>>
  <2>1. InLog' = InLog /\ \A j \in Servers : OnTheirWay(j)' = OnTheirWay(j)
    BY <1>11, <1>b DEF InLog, OnTheirWay
  <2>2. OnlyTyped' /\ OriginPersists'
    BY <1>11, <1>b, <1>4, <2>1 DEF PlaneInv, OnlyTyped, OriginPersists
  <2>3. NothingMissed'
    <3> SUFFICES ASSUME ~gap PROVE NothingMissed'
      BY <1>11 DEF NothingMissed
    <3>1. \A m \in RoomIds :
              shared'[m].stage = "reading" => typed \subseteq shared'[m].doc \cup InLog
      BY <1>4 DEF PlaneInv, NothingMissed
    <3>2. \A j \in Servers : replica[j].live # None0 =>
              shared'[replica[j].live].doc = shared[replica[j].live].doc
      BY <1>4, <1>a, PlaneFacts
    <3>3. QED
      BY <1>11, <1>b, <2>1, <3>1, <3>2, <1>5 DEF PlaneInv, NothingMissed
  <2>4. QED
    BY <1>7, <1>8, <1>9, <2>2, <2>3 DEF PlaneInv, Registered
<1>12. QED
  BY <1>10, <1>11, <1>d

LEMMA PlaneStepInv == PlaneInv /\ [BackplaneNext]_planeVars => PlaneInv'
<1> SUFFICES ASSUME PlaneInv, [BackplaneNext]_planeVars PROVE PlaneInv'
  OBVIOUS
<1>1. CASE UNCHANGED planeVars
  <2>1. InLog' = InLog /\ \A j \in Servers : OnTheirWay(j)' = OnTheirWay(j)
    BY <1>1 DEF planeVars, InLog, OnTheirWay
  <2>2. QED
    BY <1>1, <2>1 DEF planeVars, PlaneInv, BackplaneTypeOK, RegistryFits, ReadingIsLoading,
       LoadingIsReading, CommandsFit, OnlyTyped, OriginPersists, NothingMissed
<1>2. CASE \E s \in Clients : \/ \E k \in Servers : ConnectClient(s, k)
                              \/ \E e \in Edits, published \in BOOLEAN :
                                    EditShared(s, e, published)
                              \/ Leave(s)
  BY <1>2, ConnectClientInv, EditSharedInv, LeaveInv
<1>3. CASE \E n \in RoomIds : RegisterRoom(n) \/ FoldShared(n)
  BY <1>3, RegisterRoomInv, FoldSharedInv
<1>4. CASE \E k \in Servers : Subscribed(k) \/ Unsubscribed(k) \/ Deliver(k)
  BY <1>4, SubscribedInv, UnsubscribedInv, DeliverInv
<1>5. QED
  BY <1>1, <1>2, <1>3, <1>4 DEF BackplaneNext

\* Only the origin persists an edit, and rooms that are served have the same document once
\* no message is on its way, until an edit misses one or a fold drops it (backplane.ts:
\* 13-18, 23-25).
THEOREM ReplicasAlwaysConverge == BackplaneSpec => []ReplicasConverge
<1>1. ASSUME PlaneInv, ~gap, \A k \in Servers : channel[k] = <<>>,
             NEW k \in Servers, replica[k].live # None0
      PROVE  shared[replica[k].live].doc = typed
  <2>1. OnTheirWay(k) = {}
    BY <1>1 DEF OnTheirWay
  <2>2. replica[k].live \in RoomIds
    BY <1>1, PlaneFacts DEF PlaneInv
  <2>3. QED
    BY <1>1, <2>1, <2>2 DEF PlaneInv, NothingMissed, OnlyTyped
<1>2. PlaneInv => ReplicasConverge
  BY <1>1 DEF PlaneInv, ReplicasConverge, ReplicasAgree
<1>3. QED
  BY <1>2, PlaneInitInv, PlaneStepInv, PTL DEF BackplaneSpec
=============================================================================
