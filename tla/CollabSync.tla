----------------------------- MODULE CollabSync -----------------------------
(***************************************************************************)
(* The sync protocol between the editors and the collaboration server      *)
(* (apps/collab/src/protocol.ts, server.ts), for one document.  Each       *)
(* editor keeps a Y.Doc of its own and a y-websocket provider, which is    *)
(* outside this repository and modelled from its use in                    *)
(* features/editor/collab/use-collab-provider.ts.                          *)
(*                                                                         *)
(* What is abstracted.  An update is <<client, n>>, the n-th edit of a     *)
(* client, and a Y.Doc is the set of the updates it was given.  Yjs        *)
(* integrates the updates of a client in order and sets aside those that   *)
(* arrive before their predecessors: a state vector names the integrated   *)
(* ones, the update event announces what became integrated, and            *)
(* encodeStateAsUpdate includes those set aside.  A socket is a FIFO queue *)
(* in each direction; what is under way is lost with it.  The store keeps  *)
(* the server's document between two rooms (CollabRoom has the details),   *)
(* and every load succeeds (CollabServer has those that fail).             *)
(***************************************************************************)
EXTENDS Naturals, Sequences, FiniteSets, SequencesExt

CONSTANTS
    Clients,        \* the editors
    MaxEdits,       \* bound: edits of one client
    MaxConnects,    \* bound: connections made in all
    MaxRestarts     \* bound: restarts of the server

ASSUME BoundsAssumption ==
    MaxEdits \in Nat /\ MaxConnects \in Nat /\ MaxRestarts \in Nat

VARIABLES
    sdoc,       \* the server's document: of the room, or stored
    room,       \* is the room absent, loading or live?
    held,       \* does room.conns hold a socket that closed while it loaded?
    cdoc,       \* per client: its Y.Doc
    tried,      \* per client: seededRef, its seeding is over
    link,       \* per client: its socket
    up, down,   \* per client: the messages under way to, and from, the server
    greeted,    \* history, per client: has the server answered its SyncStep1?
    seeds,      \* history: the updates that insert the initial content
    connects, restarts

serverVars == <<sdoc, room, held>>
clientVars == <<cdoc, tried, seeds>>
linkVars == <<link, up, down, greeted>>
bounds == <<connects, restarts>>
vars == <<serverVars, clientVars, linkVars, bounds>>

Updates == Clients \X (1 .. MaxEdits)
RoomStates == {"absent", "loading", "live"}
LinkStates == {"down", "open", "attached"}
\* messageYjsSyncStep1 carries a state vector, the other two carry updates.
Messages == [type : {"step1", "step2", "update"}, body : SUBSET Updates]

TypeOK ==
    /\ sdoc \in SUBSET Updates
    /\ room \in RoomStates
    /\ held \in BOOLEAN
    /\ cdoc \in [Clients -> SUBSET Updates]
    /\ tried \in [Clients -> BOOLEAN]
    /\ link \in [Clients -> LinkStates]
    /\ up \in [Clients -> Seq(Messages)]
    /\ down \in [Clients -> Seq(Messages)]
    /\ greeted \in [Clients -> BOOLEAN]
    /\ seeds \in SUBSET Updates
    /\ connects \in 0 .. MaxConnects
    /\ restarts \in 0 .. MaxRestarts

Init ==
    /\ sdoc = {}
    /\ room = "absent"
    /\ held = FALSE
    /\ cdoc = [c \in Clients |-> {}]
    /\ tried = [c \in Clients |-> FALSE]
    /\ link = [c \in Clients |-> "down"]
    /\ up = [c \in Clients |-> <<>>]
    /\ down = [c \in Clients |-> <<>>]
    /\ greeted = [c \in Clients |-> FALSE]
    /\ seeds = {}
    /\ connects = 0
    /\ restarts = 0

-----------------------------------------------------------------------------
\* What Yjs shows of a document that was given the updates D.
Integrated(D) == {u \in D : \A n \in 1 .. u[2] : <<u[1], n>> \in D}

Message(type, body) == [type |-> type, body |-> body]
Step1(D) == Message("step1", Integrated(D))

Attached == {c \in Clients : link[c] = "attached"}

-----------------------------------------------------------------------------
(***************************************************************************)
(* The room.                                                               *)
(***************************************************************************)

\* onConnection; the provider sends its SyncStep1 as soon as the socket is
\* open.  A live room greets at once (sendInitialSync).
Connect(c) ==
    /\ link[c] = "down"
    /\ connects < MaxConnects
    /\ connects' = connects + 1
    /\ up' = [up EXCEPT ![c] = <<Step1(cdoc[c])>>]
    /\ \/ /\ room = "live"
          /\ link' = [link EXCEPT ![c] = "attached"]
          /\ down' = [down EXCEPT ![c] = <<Step1(sdoc)>>]
          /\ UNCHANGED room
       \/ /\ room # "live"
          /\ link' = [link EXCEPT ![c] = "open"]
          /\ room' = "loading"
          /\ UNCHANGED down
    /\ greeted' = [greeted EXCEPT ![c] = FALSE]
    /\ UNCHANGED <<sdoc, held, clientVars, restarts>>

\* Fault: the sockets that waited are not greeted.
RoomLoadsSilently ==
    /\ room = "loading"
    /\ room' = "live"
    /\ link' = [c \in Clients |-> IF link[c] = "open" THEN "attached" ELSE link[c]]
    /\ UNCHANGED <<sdoc, held, clientVars, up, down, greeted, bounds>>

\* getRoom resolves for all the sockets that wait: each gets its handlers and
\* the server's SyncStep1.
RoomLoads ==
    /\ room = "loading"
    /\ room' = "live"
    /\ link' = [c \in Clients |-> IF link[c] = "open" THEN "attached" ELSE link[c]]
    /\ down' = [c \in Clients |-> IF link[c] = "open" THEN <<Step1(sdoc)>> ELSE down[c]]
    /\ UNCHANGED <<sdoc, held, clientVars, up, greeted, bounds>>

\* A message that arrives while the room loads finds no handler.
MessageUnheard(c) ==
    /\ link[c] = "open"
    /\ up[c] # <<>>
    /\ up' = [up EXCEPT ![c] = Tail(@)]
    /\ UNCHANGED <<serverVars, clientVars, link, down, greeted, bounds>>

-----------------------------------------------------------------------------
(***************************************************************************)
(* Messages.                                                               *)
(***************************************************************************)

\* Faults: the update goes to its sender as well; it is framed as a message of
\* another kind; only what the message itself carries is broadcast.
BroadcastToAll(c, updates) ==
    LET new == Integrated(sdoc \cup updates) \ Integrated(sdoc)
    IN  down' = [d \in Clients |->
            IF d \in Attached /\ new # {}
            THEN Append(down[d], Message("update", new)) ELSE down[d]]

BroadcastMisframed(c, updates) ==
    LET new == Integrated(sdoc \cup updates) \ Integrated(sdoc)
    IN  down' = [d \in Clients |->
            IF d \in Attached \ {c} /\ new # {}
            THEN Append(down[d], Message("sync", new)) ELSE down[d]]

BroadcastMessageOnly(c, updates) ==
    LET new == (updates \cap Integrated(sdoc \cup updates)) \ sdoc
    IN  down' = [d \in Clients |->
            IF d \in Attached \ {c} /\ new # {}
            THEN Append(down[d], Message("update", new)) ELSE down[d]]

\* onUpdate, for the updates of a message of c: what became integrated goes to
\* every other socket.
Broadcast(c, updates) ==
    LET new == Integrated(sdoc \cup updates) \ Integrated(sdoc)
    IN  down' = [d \in Clients |->
            IF d \in Attached \ {c} /\ new # {}
            THEN Append(down[d], Message("update", new)) ELSE down[d]]

\* handleMessage: a SyncStep1 is answered with what the client lacks; an update
\* (or SyncStep2) is applied, persisted and broadcast.
ServerReceives(c) ==
    /\ link[c] = "attached"
    /\ up[c] # <<>>
    /\ up' = [up EXCEPT ![c] = Tail(@)]
    /\ LET m == Head(up[c])
       IN  \/ /\ m.type = "step1"
              /\ down' = [down EXCEPT ![c] = Append(@, Message("step2", sdoc \ m.body))]
              /\ greeted' = [greeted EXCEPT ![c] = TRUE]
              /\ UNCHANGED sdoc
           \/ /\ m.type # "step1"
              /\ sdoc' = sdoc \cup m.body
              /\ Broadcast(c, m.body)
              /\ UNCHANGED greeted
    /\ UNCHANGED <<room, held, clientVars, link, bounds>>

\* The provider: a SyncStep1 is answered with what the server lacks; updates are
\* applied and, their origin being the provider, not sent back.
ClientReceives(c) ==
    /\ down[c] # <<>>
    /\ down' = [down EXCEPT ![c] = Tail(@)]
    /\ LET m == Head(down[c])
       IN  \/ /\ m.type = "step1"
              /\ up' = [up EXCEPT ![c] = Append(@, Message("step2", cdoc[c] \ m.body))]
              /\ UNCHANGED cdoc
           \/ /\ m.type # "step1"
              /\ cdoc' = [cdoc EXCEPT ![c] = @ \cup m.body]
              /\ UNCHANGED up
    /\ UNCHANGED <<serverVars, tried, seeds, link, greeted, bounds>>

-----------------------------------------------------------------------------
(***************************************************************************)
(* The editor.                                                             *)
(***************************************************************************)

\* A change of the local document, sent if the socket is open.
LocalUpdate(c, u) ==
    /\ u \in Updates \ cdoc[c]
    /\ u[1] = c
    /\ \A n \in 1 .. u[2] - 1 : <<c, n>> \in cdoc[c]
    /\ cdoc' = [cdoc EXCEPT ![c] = @ \cup {u}]
    /\ up' = IF link[c] = "down" THEN up
             ELSE [up EXCEPT ![c] = Append(@, Message("update", {u}))]
    /\ UNCHANGED <<serverVars, link, down, greeted, bounds>>

Edit(c) ==
    /\ \E u \in Updates : LocalUpdate(c, u)
    /\ UNCHANGED <<tried, seeds>>

\* trySeed, 400 ms after the editor was mounted with a document that has
\* content: a document that looks empty gets it.  The flag meta.seeded is set
\* by the same update, so it is there exactly when a seed is.
TrySeed(c) ==
    /\ ~tried[c]
    /\ tried' = [tried EXCEPT ![c] = TRUE]
    /\ \/ /\ Integrated(cdoc[c]) # {}
          /\ UNCHANGED <<serverVars, cdoc, seeds, linkVars, bounds>>
       \/ /\ Integrated(cdoc[c]) = {}
          /\ \E u \in Updates : LocalUpdate(c, u) /\ seeds' = seeds \cup {u}

-----------------------------------------------------------------------------
(***************************************************************************)
(* Failures.                                                               *)
(***************************************************************************)

\* The socket closes.  onClose drops the room with its last socket; updates that
\* were set aside outlast it only if its final fold runs.  A socket that closes
\* before its handlers are attached stays in room.conns.
Disconnect(c) ==
    /\ link[c] # "down"
    /\ link' = [link EXCEPT ![c] = "down"]
    /\ up' = [up EXCEPT ![c] = <<>>]
    /\ down' = [down EXCEPT ![c] = <<>>]
    /\ held' = (held \/ link[c] = "open")
    /\ \/ /\ Attached = {c} /\ ~held
          /\ room' = "absent"
          /\ sdoc' \in {sdoc, Integrated(sdoc)}
       \/ /\ Attached # {c} \/ held
          /\ UNCHANGED <<room, sdoc>>
    /\ UNCHANGED <<clientVars, greeted, bounds>>

\* The process dies and comes back: appends that were not committed are lost.
Restart ==
    /\ restarts < MaxRestarts
    /\ restarts' = restarts + 1
    /\ sdoc' \in SUBSET sdoc
    /\ room' = "absent"
    /\ held' = FALSE
    /\ link' = [c \in Clients |-> "down"]
    /\ up' = [c \in Clients |-> <<>>]
    /\ down' = [c \in Clients |-> <<>>]
    /\ UNCHANGED <<clientVars, greeted, connects>>

Next ==
    \/ \E c \in Clients :
          \/ Connect(c) \/ MessageUnheard(c) \/ Disconnect(c)
          \/ ServerReceives(c) \/ ClientReceives(c)
          \/ Edit(c) \/ TrySeed(c)
    \/ RoomLoads
    \/ Restart

Spec == Init /\ [][Next]_vars

-----------------------------------------------------------------------------
(***************************************************************************)
(* Properties.                                                             *)
(***************************************************************************)
Carried(queue) == UNION {m.body : m \in {x \in ToSet(queue) : x.type # "step1"}}
Asked(queue) == \E m \in ToSet(queue) : m.type = "step1"

\* Nothing an attached editor has is ever left behind: the server has it, or it
\* is under way, or the server's own SyncStep1 is, whose answer will carry it.
\* So it is for edits made offline, and for those dropped while the room loaded
\* or lost by a restart (use-collab-provider.ts:45-46, "edits made offline
\* converge").
NothingLeftBehind ==
    \A c \in Attached :
        Asked(down[c]) \/ Integrated(cdoc[c]) \subseteq sdoc \cup Carried(up[c])

\* An editor whose SyncStep1 was heard misses nothing: what the server shows is in
\* the editor or under way to it.  A restart ends this: when the editor hands back
\* an update that the server lost, and the server had set aside one that follows
\* it, what gets integrated is announced to everybody else only
\* (server.ts: onUpdate), and nothing brings it to the editor later.
GreetedMissNothing ==
    restarts = 0 =>
        \A c \in Attached :
            greeted[c] =>
                Integrated(sdoc) \subseteq Integrated(cdoc[c] \cup Carried(down[c]))

\* No echo: the server never sends an editor its own updates back, neither in
\* answer to a state vector, also of a reconnection or after a restart, nor, before
\* a restart, by a broadcast (the origin of the transaction, protocol.ts:96-98).
\* After one, what was lost may come from another editor first, and is announced to
\* its author too.
NoEcho ==
    \A c \in Clients : \A m \in ToSet(down[c]) :
        m.type = "step2" \/ (m.type = "update" /\ restarts = 0) =>
            \A u \in m.body : u[1] # c

(***************************************************************************)
(* The inductive invariant.  An update of c is known when somebody else    *)
(* has it, and lost when the server is not among them: a room dropped with *)
(* updates set aside, or a restart, loses some.                            *)
(***************************************************************************)
Known(c) ==
    {u \in Updates :
        u[1] = c /\ (u \in sdoc \/ \E d \in Clients \ {c} : u \in cdoc[d])}

Lost(c) == Known(c) \ sdoc

BodiesIn(queue, D) == \A i \in 1 .. Len(queue) : queue[i].body \subseteq D

\* A socket has handlers only in a live room, and waits only for one that loads.
LinksFollowRoom ==
    \A c \in Clients :
        /\ link[c] = "attached" => room = "live"
        /\ link[c] = "open" => room = "loading" /\ ~greeted[c]
        /\ link[c] = "down" => up[c] = <<>>
        /\ link[c] # "attached" => down[c] = <<>>

\* An editor asks once, before it sends anything else.
AsksFirst ==
    \A c \in Clients : \A i \in 2 .. Len(up[c]) : up[c][i].type # "step1"

\* What is under way comes from the document of its sender, which still has it.
SentFromDocs ==
    \A c \in Clients : BodiesIn(up[c], cdoc[c]) /\ BodiesIn(down[c], sdoc)

\* An author has all of his updates, without gaps.
AuthorsHaveTheirs ==
    \A c \in Clients :
        /\ Known(c) \subseteq cdoc[c]
        /\ \A u \in cdoc[c] : u[1] = c => \A n \in 1 .. u[2] : <<c, n>> \in cdoc[c]

\* A state vector on its way names all the updates of its sender that are known:
\* what follows it on the socket is not at the server yet.
VectorsNameOwn ==
    \A c \in Clients : \A i \in 1 .. Len(up[c]) :
        up[c][i].type = "step1" => Known(c) \subseteq up[c][i].body

\* NothingLeftBehind, of the updates set aside as well.
NothingHeldBack ==
    \A c \in Attached : Asked(down[c]) \/ cdoc[c] \subseteq sdoc \cup Carried(up[c])

\* Without a restart, before every lost update there is one that only its author
\* has, so that no other editor can complete what the server has of him ...
AuthorsFillGaps ==
    \A c \in Clients : \A u \in Lost(c) :
        \E n \in 1 .. u[2] : <<c, n>> \notin Known(c)

\* ... and the author's own messages leave no lost update behind them: an edit comes
\* after all of them, and an answer holds all that the server lacks up to them.
AnswersAreWhole ==
    \A c \in Clients : \A i \in 1 .. Len(up[c]) :
        /\ up[c][i].type = "update" =>
              \A u \in up[c][i].body : u[1] = c /\ \A v \in Lost(c) : v[2] < u[2]
        /\ up[c][i].type = "step2" =>
              \A u \in Known(c) \cup UNION {up[c][j].body : j \in 1 .. i - 1} :
                  u[1] = c =>
                      \A n \in 1 .. u[2] : <<c, n>> \in sdoc \cup up[c][i].body

IInv ==
    /\ TypeOK
    /\ LinksFollowRoom
    /\ AsksFirst
    /\ SentFromDocs
    /\ AuthorsHaveTheirs
    /\ VectorsNameOwn
    /\ NothingHeldBack
    /\ NoEcho
    /\ restarts = 0 => AuthorsFillGaps /\ AnswersAreWhole
    /\ GreetedMissNothing

(***************************************************************************)
(* What comments of the code say and the code does not do.                 *)
(***************************************************************************)

\* "The client replies with its own SyncStep1 and any missing updates, converging
\* both sides" (protocol.ts:47-49): when nothing is under way, an attached editor
\* shows what the server shows.
AttachedConverge ==
    \A c \in Attached :
        (up[c] = <<>> /\ down[c] = <<>>) => Integrated(cdoc[c]) = Integrated(sdoc)

\* "idempotent across concurrent joiners: only the client that wins the flag write
\* performs the insert" (ForgeEditor.tsx:114-115): the content is there once.
SeededOnce == Cardinality(seeds \cap Integrated(sdoc)) <= 1
=============================================================================
