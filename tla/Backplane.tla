------------------------------ MODULE Backplane ------------------------------
(***************************************************************************)
(* Replicas of the collaboration server that share one document over a     *)
(* Redis channel (apps/collab/src/backplane.ts, and the places in          *)
(* server.ts that call it).  The replica a client edits at appends the     *)
(* edit to the log and publishes it; a replica that hears of an edit only  *)
(* applies it.                                                             *)
(*                                                                         *)
(* What is abstracted.  An append, and a fold with its commit, is one step *)
(* here: CollabRoom has their stages, and CollabServer the loads that      *)
(* fail.  Awareness goes the way of edits and is left out.  Redis keeps    *)
(* the order of the commands of a connection and delivers a message to     *)
(* those who are subscribed as it is published.                            *)
(***************************************************************************)
EXTENDS Naturals, Sequences, FiniteSets, FiniteSetsExt

CONSTANTS
    Servers,        \* the replicas
    Clients,        \* sockets: each connects once, to any replica
    Edits,          \* what the clients type
    MaxRooms,       \* bound: Room objects
    MaxLost         \* bound: publications that fail

ASSUME BackplaneAssumption == Servers # {} /\ MaxRooms \in Nat /\ MaxLost \in Nat

RoomIds == 1..MaxRooms
None0 == 0          \* no room in a map

VARIABLES
    database,         \* Document.yDocState and the YjsUpdate rows
    shared,         \* per room: the Room and its observers
    replica,        \* per server: its registry, its loads, and its CollabBackplane
    commands,       \* per server: what it has sent on its subscriber connection
    channel,        \* per server: messages on their way to it
    client,         \* per client: its socket
    lost,           \* publications that failed
    typed,          \* history: the edits made
    gap             \* history: has an edit missed a room that should have it?

planeVars ==
    <<database, shared, replica, commands, channel, client, lost, typed, gap>>

-----------------------------------------------------------------------------
RoomStages == {"unused", "reading", "joining", "open", "leaving", "closed"}
NewRoom == [home |-> CHOOSE k \in Servers : TRUE, stage |-> "unused", doc |-> {},
            mark |-> 0, dirty |-> 0, publishes |-> FALSE]
NoSocket == [at |-> "away", room |-> None0]

SharedRoom == [home : Servers, stage : RoomStages, doc : SUBSET Edits, mark : Nat,
               dirty : Nat, publishes : BOOLEAN]
Replica == [live : RoomIds \cup {None0}, loading : RoomIds \cup {None0},
            listed : RoomIds \cup {None0}, wired : RoomIds \cup {None0},
            subscribed : BOOLEAN]
Command == [kind : {"subscribe", "unsubscribe"}, room : RoomIds]
Socket == [at : {"away", "waiting", "joined", "left"}, room : RoomIds \cup {None0}]

\* A socket joins a room that was read.
BackplaneTypeOK ==
    /\ database \in [base : SUBSET Edits, log : SUBSET [id : Nat, edit : Edits], next : Nat]
    /\ shared \in [RoomIds -> SharedRoom]
    /\ \A n \in RoomIds : shared[n].mark < database.next
    /\ replica \in [Servers -> Replica]
    /\ commands \in [Servers -> Seq(Command)]
    /\ channel \in [Servers -> Seq(Edits)]
    /\ \A k \in Servers : \A i \in 1..Len(channel[k]) : channel[k][i] \in typed
    /\ client \in [Clients -> Socket]
    /\ \A s \in Clients :
          /\ client[s].at \in {"waiting", "joined"} => client[s].room # None0
          /\ client[s].at = "joined" =>
                shared[client[s].room].stage \notin {"unused", "reading"}
    /\ typed \subseteq Edits /\ lost \in Nat /\ gap \in BOOLEAN

BackplaneInit ==
    /\ database = [base |-> {}, log |-> {}, next |-> 1]
    /\ shared = [n \in RoomIds |-> NewRoom]
    /\ replica = [k \in Servers |-> [live |-> None0, loading |-> None0, listed |-> None0,
                                     wired |-> None0, subscribed |-> FALSE]]
    /\ commands = [k \in Servers |-> <<>>] /\ channel = [k \in Servers |-> <<>>]
    /\ client = [s \in Clients |-> NoSocket]
    /\ lost = 0 /\ typed = {} /\ gap = FALSE

InLog == {row.edit : row \in database.log}
InRoom(n) == {s \in Clients : client[s] = [at |-> "joined", room |-> n]}
Holding == {n \in RoomIds : shared[n].stage \in {"reading", "joining", "open"}}

-----------------------------------------------------------------------------
\* The room that getRoom returns without waiting.
Joinable(k) == replica[k].live

\* getRoom and onConnection: the live room is joined, a load in flight is shared, or a
\* load is started, which reads the base first.
ConnectClient(s, k) ==
    /\ client[s] = NoSocket
    /\ IF Joinable(k) # None0
       THEN /\ client' = [client EXCEPT ![s] = [at |-> "joined", room |-> Joinable(k)]]
            /\ UNCHANGED <<shared, replica>>
       ELSE IF replica[k].loading # None0
       THEN /\ client' = [client EXCEPT ![s] =
                  [at |-> "waiting", room |-> replica[k].loading]]
            /\ UNCHANGED <<shared, replica>>
       ELSE LET unused == {n \in RoomIds : shared[n].stage = "unused"} IN
            /\ unused # {}
            /\ shared' = [shared EXCEPT ![Min(unused)] =
                  [NewRoom EXCEPT !.home = k, !.stage = "reading", !.doc = database.base]]
            /\ replica' = [replica EXCEPT ![k].loading = Min(unused)]
            /\ client' = [client EXCEPT ![s] = [at |-> "waiting", room |-> Min(unused)]]
    /\ UNCHANGED <<database, commands, channel, lost, typed, gap>>

Admitted(n) ==
    [s \in Clients |-> IF client[s] = [at |-> "waiting", room |-> n]
                       THEN [at |-> "joined", room |-> n] ELSE client[s]]

\* The log is replayed and the room registered.  addRoom subscribes, unless a room of
\* the document has observers.
RegisterRoom(n) ==
    /\ shared[n].stage = "reading"
    /\ LET k == shared[n].home
           loaded == [shared[n] EXCEPT !.doc = @ \cup InLog,
                         !.mark = Max({0} \cup {row.id : row \in database.log})]
           known == [replica[k] EXCEPT !.live = n, !.loading = None0] IN
          IF replica[k].wired # None0
          THEN /\ shared' = [shared EXCEPT ![n] = [loaded EXCEPT !.stage = "open"]]
               /\ replica' = [replica EXCEPT ![k] = known]
               /\ client' = Admitted(n)
               /\ UNCHANGED commands
          ELSE /\ shared' = [shared EXCEPT ![n] = [loaded EXCEPT !.stage = "joining"]]
               /\ replica' = [replica EXCEPT ![k] = [known EXCEPT !.listed = n]]
               /\ commands' = [commands EXCEPT ![k] =
                     Append(@, [kind |-> "subscribe", room |-> n])]
               /\ UNCHANGED client
    /\ UNCHANGED <<database, channel, lost, typed, gap>>

\* Redis has subscribed the replica: observers are attached to the room, and those who
\* wait for it join it, whatever has become of it.
Subscribed(k) ==
    /\ commands[k] # <<>> /\ Head(commands[k]).kind = "subscribe"
    /\ LET n == Head(commands[k]).room IN
          /\ replica' = [replica EXCEPT ![k].subscribed = TRUE, ![k].wired = n]
          /\ shared' = [shared EXCEPT ![n].publishes = TRUE,
                                      ![n].stage = IF @ = "joining" THEN "open" ELSE @]
          /\ client' = Admitted(n)
    /\ commands' = [commands EXCEPT ![k] = Tail(@)]
    /\ UNCHANGED <<database, channel, lost, typed, gap>>

\* appendUpdate: a row of the log.
AppendRow(e) == [database EXCEPT !.log = @ \cup {[id |-> database.next, edit |-> e]},
                                  !.next = @ + 1]

\* A room whose document takes an edit, and one that counts the row just appended.
Taking(room, e) == [room EXCEPT !.doc = @ \cup {e}]
CountedAppend(room) == [room EXCEPT !.mark = database.next, !.dirty = @ + 1]

\* A socket's edit is applied; the observers of the server append it, unless they have
\* been taken off the room, and those of the backplane publish it.
EditShared(s, e, published) ==
    /\ client[s].at = "joined" /\ e \notin typed
    /\ LET n == client[s].room
           k == shared[n].home
           kept == shared[n].stage \in {"joining", "open"}
           heard == {i \in Servers \ {k} :
                        published /\ shared[n].publishes /\ replica[i].subscribed} IN
          /\ published \/ (shared[n].publishes /\ lost < MaxLost)
          /\ lost' = IF published THEN lost ELSE lost + 1
          /\ shared' = [shared EXCEPT ![n] =
                IF kept THEN CountedAppend(Taking(@, e)) ELSE Taking(@, e)]
          /\ database' = IF kept THEN AppendRow(e) ELSE database
          /\ channel' = [i \in Servers |->
                IF i \in heard THEN Append(channel[i], e) ELSE channel[i]]
          /\ gap' = (gap \/ ~kept \/ \E m \in Holding \ {n} :
                               \/ shared[m].home \notin heard
                               \/ replica[shared[m].home].listed # m)
    /\ typed' = typed \cup {e}
    /\ UNCHANGED <<replica, commands, client>>

\* Fault: a room that has edits to fold does not take those of others.
DeliverIfClean(k) ==
    /\ channel[k] # <<>>
    /\ channel' = [channel EXCEPT ![k] = Tail(@)]
    /\ LET n == replica[k].listed IN
          shared' = IF n = None0 \/ shared[n].dirty > 0 THEN shared
                    ELSE [shared EXCEPT ![n] = Taking(@, Head(channel[k]))]
    /\ UNCHANGED <<database, replica, commands, client, lost, typed, gap>>

\* onMessage: applied to the room that is listed, neither persisted nor published again.
Deliver(k) ==
    /\ channel[k] # <<>>
    /\ channel' = [channel EXCEPT ![k] = Tail(@)]
    /\ LET n == replica[k].listed IN
          shared' = IF n = None0 THEN shared
                    ELSE [shared EXCEPT ![n] = Taking(@, Head(channel[k]))]
    /\ UNCHANGED <<database, replica, commands, client, lost, typed, gap>>

Compacted(n) ==
    /\ database' = [database EXCEPT !.base = shared[n].doc,
                                !.log = {row \in @ : row.id > shared[n].mark}]
    /\ gap' = (gap \/ (\E row \in database.log :
                          row.id <= shared[n].mark /\ row.edit \notin shared[n].doc)
                   \/ ~(database.base \subseteq shared[n].doc)
                   \/ \E m \in RoomIds : shared[m].stage = "reading")

\* runCompaction of a room that has not been destroyed.
FoldShared(n) ==
    /\ shared[n].stage \in {"joining", "open", "leaving"} /\ shared[n].dirty > 0
    /\ Compacted(n)
    /\ shared' = [shared EXCEPT ![n].dirty = 0]
    /\ UNCHANGED <<replica, commands, channel, client, lost, typed>>

\* What becomes of a room when the last one is out: was he in it, is it the one observed?
Left(room, empty, observed) ==
    [room EXCEPT !.stage = IF empty /\ @ # "closed" THEN "leaving" ELSE @,
                 !.publishes = @ /\ ~observed]

\* onClose: the last one out takes the document's room from the registry and from the
\* backplane, whichever room that is by now.
Leave(s) ==
    /\ client[s].at = "joined"
    /\ client' = [client EXCEPT ![s] = [NoSocket EXCEPT !.at = "left"]]
    /\ LET n == client[s].room
           k == shared[n].home IN
          IF InRoom(n) # {s} THEN UNCHANGED <<shared, replica, commands>>
          ELSE /\ shared' = [m \in RoomIds |-> Left(shared[m], m = n, m = replica[k].wired)]
               /\ replica' = [replica EXCEPT ![k].live = None0, ![k].listed = None0,
                                             ![k].wired = None0]
               /\ commands' = [commands EXCEPT ![k] =
                     Append(@, [kind |-> "unsubscribe", room |-> n])]
    /\ UNCHANGED <<database, channel, lost, typed, gap>>

\* Redis has unsubscribed the replica: the room is destroyed, with a final fold.
Unsubscribed(k) ==
    /\ commands[k] # <<>> /\ Head(commands[k]).kind = "unsubscribe"
    /\ commands' = [commands EXCEPT ![k] = Tail(@)]
    /\ replica' = [replica EXCEPT ![k].subscribed = FALSE]
    /\ LET n == Head(commands[k]).room IN
          /\ shared' = [shared EXCEPT ![n].stage = "closed", ![n].dirty = 0]
          /\ IF shared[n].dirty > 0 THEN Compacted(n) ELSE UNCHANGED <<database, gap>>
    /\ UNCHANGED <<channel, client, lost, typed>>

BackplaneNext ==
    \/ \E s \in Clients :
          \/ \E k \in Servers : ConnectClient(s, k)
          \/ \E e \in Edits, published \in BOOLEAN : EditShared(s, e, published)
          \/ Leave(s)
    \/ \E n \in RoomIds : RegisterRoom(n) \/ FoldShared(n)
    \/ \E k \in Servers : Subscribed(k) \/ Unsubscribed(k) \/ Deliver(k)

BackplaneSpec == BackplaneInit /\ [][BackplaneNext]_planeVars

-----------------------------------------------------------------------------
(***************************************************************************)
(* Properties.                                                             *)
(***************************************************************************)

\* The replica a client edits at persists the edit, and no other does: there is one
\* row at most, however often the edit travels (backplane.ts:23-25).
OriginPersists ==
    \A x, y \in database.log : x.edit = y.edit => x = y

\* Rooms that are served have the same document when no message is on its way, unless
\* an edit missed one of them or a fold dropped it (backplane.ts:13-18).
ReplicasAgree ==
    (~gap /\ \A k \in Servers : channel[k] = <<>>) =>
        \A j, k \in Servers :
            LET m == replica[j].live
                n == replica[k].live IN
            m # None0 /\ n # None0 => shared[m].doc = shared[n].doc

\* The replicas of a room and what the store has of their edits.
ReplicasConverge ==
    /\ BackplaneTypeOK
    /\ OriginPersists
    /\ ReplicasAgree
=============================================================================
