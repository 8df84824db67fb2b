---------------------------- MODULE CollabServer ----------------------------
(***************************************************************************)
(* The websocket server around the rooms (apps/collab/src/server.ts): the  *)
(* registry of live rooms, the loads in flight and the sockets, for one    *)
(* document and one replica (no Redis backplane).                          *)
(*                                                                         *)
(* A socket whose handshake was authorised waits for its room; while it    *)
(* waits, no close handler is attached to it.  Promise continuations that  *)
(* no I/O separates run in one step: a load that settles resumes every     *)
(* waiting onConnection before any other event.                            *)
(***************************************************************************)
EXTENDS CollabRoom

CONSTANTS
    Sockets,    \* the client connections
    NoRoom      \* no entry in a map

ASSUME NoRoomAssumption == NoRoom \notin Rooms

VARIABLES
    registry,   \* rooms.get(documentId)
    loading,    \* loading.get(documentId): the room being loaded by the promise
    socket      \* per socket: [at, room, open]

serverVars == <<registry, loading, socket>>
allVars == <<vars, serverVars>>

\* away -> waiting (await getRoom) -> joined (member of room.conns).
SocketStates ==
    [at : {"away", "waiting", "joined"}, room : Rooms \cup {NoRoom}, open : BOOLEAN]
Away == [at |-> "away", room |-> NoRoom, open |-> FALSE]

ServerTypeOK ==
    /\ TypeOK
    /\ registry \in Rooms \cup {NoRoom}
    /\ loading \in Rooms \cup {NoRoom}
    /\ socket \in [Sockets -> SocketStates]

ServerInit ==
    /\ Init
    /\ registry = NoRoom
    /\ loading = NoRoom
    /\ socket = [s \in Sockets |-> Away]

-----------------------------------------------------------------------------
Conns(r) == {s \in Sockets : socket[s].at = "joined" /\ socket[s].room = r}

\* onConnection for a document whose room is live: it joins at once.
JoinLive(s) ==
    /\ socket[s].at = "away"
    /\ registry # NoRoom
    /\ socket' = [socket EXCEPT ![s] = [at |-> "joined", room |-> registry, open |-> TRUE]]
    /\ UNCHANGED <<vars, registry, loading>>

\* getRoom finds a load in flight and waits for the same promise.
AwaitLoad(s) ==
    /\ socket[s].at = "away"
    /\ registry = NoRoom
    /\ loading # NoRoom /\ phase[loading] # "dead"
    /\ socket' = [socket EXCEPT ![s] = [at |-> "waiting", room |-> loading, open |-> TRUE]]
    /\ UNCHANGED <<vars, registry, loading>>

\* Faults: the load is started although another is in flight; although the room
\* is live.
StartLoadUnshared(s, r) ==
    /\ socket[s].at = "away"
    /\ registry = NoRoom
    /\ Open(r)
    /\ loading' = r
    /\ socket' = [socket EXCEPT ![s] = [at |-> "waiting", room |-> r, open |-> TRUE]]
    /\ UNCHANGED registry

StartLoadAnew(s, r) ==
    /\ socket[s].at = "away"
    /\ loading = NoRoom
    /\ Open(r)
    /\ loading' = r
    /\ socket' = [socket EXCEPT ![s] = [at |-> "waiting", room |-> r, open |-> TRUE]]
    /\ UNCHANGED registry

\* getRoom starts a load.
StartLoad(s, r) ==
    /\ socket[s].at = "away"
    /\ registry = NoRoom /\ loading = NoRoom
    /\ Open(r)
    /\ loading' = r
    /\ socket' = [socket EXCEPT ![s] = [at |-> "waiting", room |-> r, open |-> TRUE]]
    /\ UNCHANGED registry

\* Room.load resolves: observers are attached, the room is registered, and all
\* sockets that wait for it become its members, those closed meanwhile too.
LoadResolves(r) ==
    /\ ReadLog(r)
    /\ registry' = r
    /\ loading' = NoRoom
    /\ socket' = [s \in Sockets |->
                    IF socket[s].at = "waiting" /\ socket[s].room = r
                    THEN [socket[s] EXCEPT !.at = "joined"] ELSE socket[s]]

\* Fault: the sockets of a load that failed are left open.
LoadRejectsQuietly(r) ==
    /\ LoadFails(r)
    /\ UNCHANGED serverVars

\* Room.load rejects: its waiting sockets are closed with 1011.  The rejected
\* promise stays in loading, so that a later onConnection is closed at once
\* (a step that leaves this state unchanged).
LoadRejects(r) ==
    /\ LoadFails(r)
    /\ socket' = [s \in Sockets |->
                    IF socket[s].at = "waiting" /\ socket[s].room = r
                    THEN Away ELSE socket[s]]
    /\ UNCHANGED <<registry, loading>>

\* The connection ends before onConnection has attached its close handler.
CloseUnheard(s) ==
    /\ socket[s].at = "waiting" /\ socket[s].open
    /\ socket' = [socket EXCEPT ![s].open = FALSE]
    /\ UNCHANGED <<vars, registry, loading>>

\* Fault: the room is dropped whoever leaves.
CloseSocketDropsRoom(s) ==
    /\ socket[s].at = "joined" /\ socket[s].open
    /\ socket' = [socket EXCEPT ![s] = Away]
    /\ registry' = NoRoom
    /\ Destroy(socket[s].room)
    /\ UNCHANGED loading

\* onClose: the last member out drops the room and starts its teardown.
CloseSocket(s) ==
    /\ socket[s].at = "joined" /\ socket[s].open
    /\ socket' = [socket EXCEPT ![s] = Away]
    /\ LET r == socket[s].room
       IN  \/ /\ Conns(r) # {s}
              /\ UNCHANGED <<vars, registry>>
           \/ /\ Conns(r) = {s}
              /\ registry' = NoRoom
              /\ Destroy(r)
    /\ UNCHANGED loading

\* A message of an open member is applied to its room.
SocketEdits(s, u) ==
    /\ socket[s].at = "joined" /\ socket[s].open
    /\ Edit(socket[s].room, u)
    /\ UNCHANGED serverVars

ServerCrash ==
    /\ Crash
    /\ registry' = NoRoom
    /\ loading' = NoRoom
    /\ socket' = [s \in Sockets |-> Away]

\* What a room and the store do by themselves.
Background(r) ==
    /\ \/ ReadBase(r)
       \/ \E u \in Updates : AppendAnswered(r, u)
       \/ IdleTimerFires(r) \/ RunAnswered(r) \/ RunFails(r)
       \/ DestroyReturns(r)
       \/ StoreStep(r)
    /\ UNCHANGED serverVars

ServerNext ==
    \/ \E s \in Sockets : \/ JoinLive(s) \/ AwaitLoad(s)
                          \/ CloseUnheard(s) \/ CloseSocket(s)
                          \/ \E r \in Rooms : StartLoad(s, r)
                          \/ \E u \in Updates : SocketEdits(s, u)
    \/ \E r \in Rooms : LoadResolves(r) \/ LoadRejects(r) \/ Background(r)
    \/ ServerCrash

ServerSpec == ServerInit /\ [][ServerNext]_allVars

(***************************************************************************)
(* Fairness.  The store carries out what it is sent, promises that are     *)
(* settled resume their function and armed timers fire.  A fold may fail,  *)
(* but not every time it is tried: hence strong fairness for its success.  *)
(* Nothing obliges clients to edit, sockets to close or processes to die.  *)
(***************************************************************************)
ServerFairness ==
    \A r \in Rooms :
        /\ WF_allVars(ReadBase(r) /\ UNCHANGED serverVars)
        /\ WF_allVars(LoadResolves(r) \/ LoadRejects(r))
        /\ WF_allVars((IdleTimerFires(r) \/ DestroyReturns(r)) /\ UNCHANGED serverVars)
        /\ \A u \in Updates :
               WF_allVars((NumberRow(r, u) \/ CommitRow(r, u) \/ AppendAnswered(r, u))
                              /\ UNCHANGED serverVars)
        /\ SF_allVars(CommitFold(r, "run") /\ UNCHANGED serverVars)
        /\ SF_allVars(RunAnswered(r) /\ UNCHANGED serverVars)

FairServerSpec == ServerSpec /\ ServerFairness

-----------------------------------------------------------------------------
\* Connections that race to be the first share one room: two rooms are never
\* loading or live together (loading, server.ts:33-34).
OneRoomAtATime ==
    \A q, r \in Rooms :
        /\ phase[q] \in {"opening", "base", "live"}
        /\ phase[r] \in {"opening", "base", "live"}
        => q = r

\* A socket never belongs to a room that has been closed or has lost its place in
\* the registry: such a room would take its edits and persist none of them.
MembersAreServed ==
    \A s \in Sockets : socket[s].at = "joined" =>
        /\ socket[s].room = registry
        /\ phase[registry] = "live"

\* Overlaps come from teardown alone: the writer that a new room, or a final
\* fold, may meet in the store is never a room that still serves sockets.
OverlapOnlyFromTeardown ==
    [][ (contended' /\ ~contended) =>
            \E r \in Rooms : /\ Unsettled(r)
                             /\ phase'[r] \in {"closing", "closed", "dead"} ]_allVars

\* The inductive invariant behind them.  The registry holds the one live room and
\* loading the one that is being loaded, or whose load was rejected ...
RegistryInOrder ==
    /\ registry # NoRoom => phase[registry] = "live"
    /\ loading # NoRoom =>
           /\ registry = NoRoom
           /\ phase[loading] \in {"opening", "base", "dead"}
    /\ \A r \in Rooms :
           /\ phase[r] \in {"opening", "base"} => r = loading
           /\ phase[r] = "live" => r = registry

\* ... and sockets wait for the latter or belong to the former.
SocketsInOrder ==
    \A s \in Sockets :
        /\ socket[s].at = "waiting" =>
               /\ loading # NoRoom /\ socket[s].room = loading
               /\ phase[loading] \in {"opening", "base"}
        /\ socket[s].at = "joined" =>
               registry # NoRoom /\ socket[s].room = registry

ServerIInv == ServerTypeOK /\ RegistryInOrder /\ SocketsInOrder

\* A socket that waits is joined or sent away: no connection hangs.
WaitingEnds ==
    \A s \in Sockets : socket[s].at = "waiting" ~> socket[s].at # "waiting"
=============================================================================
