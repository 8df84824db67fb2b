-------------------------- MODULE CollabSyncProofs --------------------------
(***************************************************************************)
(* Proofs about CollabSync, for every set of editors and every bound:      *)
(* nothing is left behind, an editor that was heard misses nothing before  *)
(* a restart, and nobody is sent his own updates.                          *)
(***************************************************************************)
EXTENDS CollabSync, TLAPS

(***************************************************************************)
(* Queues.                                                                 *)
(***************************************************************************)

\* The messages of a queue after one more, after one less, and of a new queue.
LEMMA AppendIndex ==
    ASSUME NEW S, NEW s \in Seq(S), NEW m \in S
    PROVE  /\ Append(s, m) \in Seq(S)
           /\ Len(Append(s, m)) = Len(s) + 1
           /\ \A i \in 1 .. Len(s) : Append(s, m)[i] = s[i]
           /\ Append(s, m)[Len(s) + 1] = m
OBVIOUS

LEMMA TailIndex ==
    ASSUME NEW S, NEW s \in Seq(S), s # <<>>
    PROVE  /\ Head(s) \in S
           /\ Head(s) = s[1]
           /\ Tail(s) \in Seq(S)
           /\ Len(Tail(s)) = Len(s) - 1
           /\ Len(s) \in Nat \ {0}
           /\ \A i \in 1 .. Len(Tail(s)) : Tail(s)[i] = s[i + 1]
OBVIOUS

LEMMA SingleIndex ==
    ASSUME NEW S, NEW m \in S
    PROVE  /\ <<m>> \in Seq(S)
           /\ Len(<<m>>) = 1
           /\ <<m>>[1] = m
OBVIOUS

\* What a queue carries, and whether it asks, by its places.
LEMMA CarriedByPlace ==
    ASSUME NEW s \in Seq(Messages)
    PROVE  /\ \A u : u \in Carried(s) <=>
                  \E i \in 1 .. Len(s) : s[i].type # "step1" /\ u \in s[i].body
           /\ Asked(s) <=> \E i \in 1 .. Len(s) : s[i].type = "step1"
<1>1. DOMAIN s = 1 .. Len(s)
  OBVIOUS
<1>2. \A m : m \in ToSet(s) <=> \E i \in 1 .. Len(s) : m = s[i]
  BY <1>1 DEF ToSet
<1>3. QED
  BY <1>2 DEF Carried, Asked

LEMMA CarriedEmpty == Carried(<<>>) = {} /\ ~Asked(<<>>)
<1>1. <<>> \in Seq(Messages) /\ Len(<<>>) = 0
  OBVIOUS
<1>2. 1 .. Len(<<>>) = {}
  BY <1>1
<1>3. \A u : u \notin Carried(<<>>)
  BY <1>1, <1>2, CarriedByPlace
<1>4. ~Asked(<<>>)
  BY <1>1, <1>2, CarriedByPlace
<1>5. QED
  BY <1>3, <1>4

LEMMA CarriedAppend ==
    ASSUME NEW s \in Seq(Messages), NEW m \in Messages
    PROVE  /\ Carried(s) \subseteq Carried(Append(s, m))
           /\ m.type # "step1" => Carried(Append(s, m)) = Carried(s) \cup m.body
           /\ m.type = "step1" => Carried(Append(s, m)) = Carried(s)
           /\ Asked(Append(s, m)) <=> Asked(s) \/ m.type = "step1"
<1> DEFINE t == Append(s, m)
<1>1. /\ t \in Seq(Messages) /\ Len(t) = Len(s) + 1 /\ Len(s) \in Nat
      /\ \A i \in 1 .. Len(s) : t[i] = s[i]
      /\ t[Len(s) + 1] = m
  BY AppendIndex
<1>2. \A i \in 1 .. Len(t) : i \in 1 .. Len(s) \/ i = Len(s) + 1
  BY <1>1
<1>3. \A i \in 1 .. Len(s) : i \in 1 .. Len(t)
  BY <1>1
<1>4. Len(s) + 1 \in 1 .. Len(t)
  BY <1>1
<1> HIDE DEF t
<1>5. \A u : u \in Carried(t) <=> u \in Carried(s) \/ (m.type # "step1" /\ u \in m.body)
  BY <1>1, <1>2, <1>3, <1>4, CarriedByPlace
<1>6. Asked(t) <=> Asked(s) \/ m.type = "step1"
  BY <1>1, <1>2, <1>3, <1>4, CarriedByPlace
<1>7. QED
  BY <1>5, <1>6 DEF t

LEMMA CarriedTail ==
    ASSUME NEW s \in Seq(Messages), s # <<>>
    PROVE  /\ Head(s).type # "step1" => Carried(s) = Carried(Tail(s)) \cup Head(s).body
           /\ Head(s).type # "step1" => (Asked(s) <=> Asked(Tail(s)))
           /\ Head(s).type = "step1" => Carried(s) = Carried(Tail(s))
           /\ Asked(Tail(s)) => Asked(s)
<1> DEFINE t == Tail(s)
<1>1. /\ t \in Seq(Messages) /\ Len(t) = Len(s) - 1 /\ Len(s) \in Nat \ {0}
      /\ \A i \in 1 .. Len(t) : t[i] = s[i + 1]
      /\ Head(s) = s[1]
  BY TailIndex
<1>2. \A i \in 1 .. Len(s) : i = 1 \/ (i - 1 \in 1 .. Len(t) /\ s[i] = t[i - 1])
  BY <1>1
<1>3. \A i \in 1 .. Len(t) : i + 1 \in 1 .. Len(s)
  BY <1>1
<1>4. 1 \in 1 .. Len(s)
  BY <1>1
<1> HIDE DEF t
<1>5. \A u : u \in Carried(s) =>
          u \in Carried(t) \/ (Head(s).type # "step1" /\ u \in Head(s).body)
  <2> SUFFICES ASSUME NEW u, NEW i \in 1 .. Len(s), s[i].type # "step1", u \in s[i].body
               PROVE  u \in Carried(t) \/ (Head(s).type # "step1" /\ u \in Head(s).body)
    BY CarriedByPlace
  <2>1. CASE i = 1
    BY <1>1, <2>1
  <2>2. CASE i - 1 \in 1 .. Len(t) /\ s[i] = t[i - 1]
    BY <1>1, <2>2, CarriedByPlace
  <2>3. QED
    BY <1>2, <2>1, <2>2
<1>6. \A u : u \in Carried(t) => u \in Carried(s)
  <2> SUFFICES ASSUME NEW u, NEW i \in 1 .. Len(t), t[i].type # "step1", u \in t[i].body
               PROVE  u \in Carried(s)
    BY <1>1, CarriedByPlace
  <2>1. i + 1 \in 1 .. Len(s) /\ s[i + 1] = t[i]
    BY <1>1, <1>3
  <2>2. QED
    BY <2>1, CarriedByPlace
<1>7. Head(s).type # "step1" => \A u \in Head(s).body : u \in Carried(s)
  BY <1>1, <1>4, CarriedByPlace
<1>8. Asked(s) <=> Asked(t) \/ Head(s).type = "step1"
  BY <1>1, <1>2, <1>3, <1>4, CarriedByPlace
<1>9. QED
  BY <1>5, <1>6, <1>7, <1>8 DEF t

-----------------------------------------------------------------------------
(***************************************************************************)
(* Updates.                                                                *)
(***************************************************************************)

\* An update is of a client and has a positive number.
LEMMA UpdateParts ==
    /\ \A u \in Updates : u[1] \in Clients /\ u[2] \in 1 .. MaxEdits /\ u = <<u[1], u[2]>>
    /\ MaxEdits \in Nat
BY BoundsAssumption DEF Updates

\* What is shown is part of the document, and a part without gaps.
LEMMA IntegratedIsWhole ==
    ASSUME NEW D, D \subseteq Updates
    PROVE  /\ Integrated(D) \subseteq D
           /\ \A u \in Integrated(D) : \A n \in 1 .. u[2] : <<u[1], n>> \in Integrated(D)
<1>1. \A u \in Integrated(D) : \A n \in 1 .. u[2] :
          <<u[1], n>> \in D /\ \A k \in 1 .. n : k \in 1 .. u[2]
  BY UpdateParts DEF Integrated
<1>2. QED
  BY <1>1 DEF Integrated

\* More updates show more.
LEMMA IntegratedGrows ==
    ASSUME NEW D, NEW E, D \subseteq E
    PROVE  Integrated(D) \subseteq Integrated(E)
BY DEF Integrated

\* What is shown of one document is shown of every other that has it.
LEMMA IntegratedCarries ==
    ASSUME NEW D, D \subseteq Updates, NEW E, Integrated(D) \subseteq E
    PROVE  Integrated(D) \subseteq Integrated(E)
<1>1. \A u \in Integrated(D) : u \in E /\ \A n \in 1 .. u[2] : <<u[1], n>> \in E
  BY IntegratedIsWhole
<1>2. QED
  BY <1>1 DEF Integrated

\* The messages that the code makes are messages.
LEMMA MessageTypes ==
    ASSUME NEW D, D \subseteq Updates
    PROVE  /\ \A t \in {"step1", "step2", "update"} :
                 /\ Message(t, D) \in Messages
                 /\ Message(t, D).type = t
                 /\ Message(t, D).body = D
           /\ Step1(D) \in Messages
           /\ Step1(D).type = "step1"
           /\ Step1(D).body = Integrated(D)
<1>1. Integrated(D) \subseteq Updates
  BY DEF Integrated
<1>2. QED
  BY <1>1 DEF Message, Step1, Messages

-----------------------------------------------------------------------------
(***************************************************************************)
(* Types.                                                                  *)
(***************************************************************************)

\* The queues and documents have messages and updates.
LEMMA QueueTypes ==
    ASSUME TypeOK, NEW c \in Clients
    PROVE  /\ up[c] \in Seq(Messages) /\ down[c] \in Seq(Messages)
           /\ cdoc[c] \subseteq Updates
           /\ up[c] # <<>> => /\ Head(up[c]) \in Messages
                              /\ Head(up[c]).body \subseteq Updates
                              /\ Tail(up[c]) \in Seq(Messages)
           /\ down[c] # <<>> => /\ Head(down[c]) \in Messages
                                /\ Head(down[c]).body \subseteq Updates
                                /\ Tail(down[c]) \in Seq(Messages)
<1>1. up[c] \in Seq(Messages) /\ down[c] \in Seq(Messages) /\ cdoc[c] \subseteq Updates
  BY DEF TypeOK
<1>2. \A m \in Messages : m.body \subseteq Updates
  BY DEF Messages
<1>3. QED
  BY <1>1, <1>2, TailIndex

LEMMA InitType == Init => TypeOK
<1>1. <<>> \in Seq(Messages)
  OBVIOUS
<1>2. 0 \in 0 .. MaxConnects /\ 0 \in 0 .. MaxRestarts
  BY BoundsAssumption
<1>3. QED
  BY <1>1, <1>2 DEF Init, TypeOK, RoomStates, LinkStates

\* What a message announces is a set of updates.
LEMMA BroadcastType ==
    ASSUME TypeOK, NEW c \in Clients, NEW updates, updates \subseteq Updates,
           Broadcast(c, updates)
    PROVE  down' \in [Clients -> Seq(Messages)]
<1> DEFINE new == Integrated(sdoc \cup updates) \ Integrated(sdoc)
<1>1. new \subseteq Updates
  BY DEF Integrated, TypeOK
<1>2. Message("update", new) \in Messages
  BY <1>1, MessageTypes
<1>3. \A d \in Clients : Append(down[d], Message("update", new)) \in Seq(Messages)
                       /\ down[d] \in Seq(Messages)
  BY <1>2, AppendIndex, QueueTypes
<1>4. down' = [d \in Clients |-> IF d \in Attached \ {c} /\ new # {}
                                THEN Append(down[d], Message("update", new)) ELSE down[d]]
  BY DEF Broadcast
<1> HIDE DEF new
<1>5. QED
  BY <1>3, <1>4

\* A local change adds one update to the editor's document, and to the queue of a
\* socket that is not down.
LEMMA LocalUpdateType ==
    ASSUME TypeOK, NEW c \in Clients, NEW u \in Updates, LocalUpdate(c, u)
    PROVE  /\ cdoc' \in [Clients -> SUBSET Updates]
           /\ up' \in [Clients -> Seq(Messages)]
<1>1. Message("update", {u}) \in Messages
  BY MessageTypes
<1>2. Append(up[c], Message("update", {u})) \in Seq(Messages)
  BY <1>1, AppendIndex, QueueTypes
<1>3. QED
  BY <1>2 DEF LocalUpdate, TypeOK

\* Every step keeps the types.
LEMMA TypeStep == TypeOK /\ [Next]_vars => TypeOK'
<1> SUFFICES ASSUME TypeOK, [Next]_vars PROVE TypeOK'
  OBVIOUS
<1> USE DEF serverVars, clientVars, linkVars, bounds
<1>0. /\ <<>> \in Seq(Messages)
      /\ \A D : D \subseteq Updates => <<Step1(D)>> \in Seq(Messages)
  BY MessageTypes
<1>1. ASSUME NEW c \in Clients, Connect(c) PROVE TypeOK'
  <2>1. <<Step1(cdoc[c])>> \in Seq(Messages) /\ <<Step1(sdoc)>> \in Seq(Messages)
    BY <1>0 DEF TypeOK
  <2>2. connects' \in 0 .. MaxConnects
    <3>1. connects \in 0 .. MaxConnects /\ connects < MaxConnects /\ connects' = connects + 1
      BY <1>1 DEF Connect, TypeOK
    <3>2. QED
      BY <3>1, BoundsAssumption
  <2>3. /\ room' \in RoomStates
        /\ link' \in [Clients -> LinkStates]
        /\ down' \in [Clients -> Seq(Messages)]
    BY <1>1, <2>1 DEF Connect, TypeOK, RoomStates, LinkStates
  <2>4. QED
    BY <1>1, <2>1, <2>2, <2>3 DEF Connect, TypeOK
<1>2. ASSUME NEW c \in Clients, MessageUnheard(c) PROVE TypeOK'
  <2>1. Tail(up[c]) \in Seq(Messages)
    BY <1>2, QueueTypes DEF MessageUnheard
  <2>2. QED
    BY <1>2, <2>1 DEF MessageUnheard, TypeOK
<1>3. ASSUME NEW c \in Clients, Disconnect(c) PROVE TypeOK'
  <2>1. sdoc' \subseteq Updates
    BY <1>3 DEF Disconnect, TypeOK, Integrated
  <2>2. /\ link' \in [Clients -> LinkStates]
        /\ up' \in [Clients -> Seq(Messages)]
        /\ down' \in [Clients -> Seq(Messages)]
        /\ held' \in BOOLEAN
        /\ room' \in RoomStates
    BY <1>0, <1>3 DEF Disconnect, TypeOK, LinkStates, RoomStates
  <2>3. QED
    BY <1>3, <2>1, <2>2 DEF Disconnect, TypeOK
<1>4. ASSUME NEW c \in Clients, ServerReceives(c) PROVE TypeOK'
  <2> DEFINE m == Head(up[c])
  <2>1. /\ Tail(up[c]) \in Seq(Messages)
        /\ m.body \subseteq Updates
    BY <1>4, QueueTypes DEF ServerReceives
  <2>2. up' \in [Clients -> Seq(Messages)]
    BY <1>4, <2>1 DEF ServerReceives, TypeOK
  <2>3. CASE m.type = "step1"
    <3>1. Append(down[c], Message("step2", sdoc \ m.body)) \in Seq(Messages)
      BY AppendIndex, QueueTypes, MessageTypes DEF TypeOK
    <3>2. QED
      BY <1>4, <2>2, <2>3, <3>1 DEF ServerReceives, TypeOK
  <2>4. CASE m.type # "step1"
    <3>1. down' \in [Clients -> Seq(Messages)]
      BY <1>4, <2>1, <2>4, BroadcastType DEF ServerReceives
    <3>2. QED
      BY <1>4, <2>1, <2>2, <2>4, <3>1 DEF ServerReceives, TypeOK
  <2>5. QED
    BY <2>3, <2>4
<1>5. ASSUME NEW c \in Clients, ClientReceives(c) PROVE TypeOK'
  <2> DEFINE m == Head(down[c])
  <2>1. /\ Tail(down[c]) \in Seq(Messages)
        /\ m.body \subseteq Updates
    BY <1>5, QueueTypes DEF ClientReceives
  <2>2. Append(up[c], Message("step2", cdoc[c] \ m.body)) \in Seq(Messages)
    BY AppendIndex, QueueTypes, MessageTypes
  <2>3. down' \in [Clients -> Seq(Messages)]
    BY <1>5, <2>1 DEF ClientReceives, TypeOK
  <2>4. up' \in [Clients -> Seq(Messages)] /\ cdoc' \in [Clients -> SUBSET Updates]
    BY <1>5, <2>1, <2>2 DEF ClientReceives, TypeOK
  <2>5. QED
    BY <1>5, <2>3, <2>4 DEF ClientReceives, TypeOK
<1>6. ASSUME NEW c \in Clients, Edit(c) PROVE TypeOK'
  <2>1. PICK u \in Updates : LocalUpdate(c, u)
    BY <1>6 DEF Edit
  <2>2. QED
    BY <1>6, <2>1, LocalUpdateType DEF Edit, LocalUpdate, TypeOK
<1>7. ASSUME NEW c \in Clients, TrySeed(c) PROVE TypeOK'
  <2>1. tried' \in [Clients -> BOOLEAN]
    BY <1>7 DEF TrySeed, TypeOK
  <2>2. CASE Integrated(cdoc[c]) # {}
    BY <1>7, <2>1, <2>2 DEF TrySeed, TypeOK
  <2>3. CASE Integrated(cdoc[c]) = {}
    <3>1. PICK u \in Updates : LocalUpdate(c, u) /\ seeds' = seeds \cup {u}
      BY <1>7, <2>3 DEF TrySeed
    <3>2. QED
      BY <2>1, <3>1, LocalUpdateType DEF LocalUpdate, TypeOK
  <2>4. QED
    BY <2>2, <2>3
<1>8. CASE RoomLoads
  <2>1. <<Step1(sdoc)>> \in Seq(Messages)
    BY <1>0 DEF TypeOK
  <2>2. \A c \in Clients : link[c] \in LinkStates /\ down[c] \in Seq(Messages)
    BY DEF TypeOK
  <2>3. link' \in [Clients -> LinkStates] /\ down' \in [Clients -> Seq(Messages)]
    BY <1>8, <2>1, <2>2 DEF RoomLoads, LinkStates
  <2>4. QED
    BY <1>8, <2>3 DEF RoomLoads, TypeOK, RoomStates
<1>9. CASE Restart
  <2>1. restarts' \in 0 .. MaxRestarts
    <3>1. restarts \in 0 .. MaxRestarts /\ restarts < MaxRestarts /\ restarts' = restarts + 1
      BY <1>9 DEF Restart, TypeOK
    <3>2. QED
      BY <3>1, BoundsAssumption
  <2>2. QED
    BY <1>0, <1>9, <2>1 DEF Restart, TypeOK, RoomStates, LinkStates
<1>10. CASE UNCHANGED vars
  BY <1>10 DEF vars, TypeOK
<1>11. QED
  BY <1>1, <1>2, <1>3, <1>4, <1>5, <1>6, <1>7, <1>8, <1>9, <1>10 DEF Next

-----------------------------------------------------------------------------
(***************************************************************************)
(* What a step does to documents and queues.                               *)
(***************************************************************************)

\* What steps of the editor change, if anything.
LEMMA EditorSteps ==
    ASSUME NEW c \in Clients, Edit(c) \/ TrySeed(c)
    PROVE  \/ \E u \in Updates : LocalUpdate(c, u)
           \/ UNCHANGED <<serverVars, cdoc, linkVars, bounds>>
BY DEF Edit, TrySeed

\* Where the server's document comes from.
LEMMA ServerDocSteps ==
    ASSUME [Next]_vars
    PROVE  \/ sdoc' = sdoc
           \/ \E c \in Clients : /\ ServerReceives(c) /\ Head(up[c]).type # "step1"
                                 /\ sdoc' = sdoc \cup Head(up[c]).body
           \/ \E c \in Clients : Disconnect(c) /\ Attached = {c} /\ sdoc' = Integrated(sdoc)
           \/ Restart
<1> USE DEF serverVars, clientVars, linkVars, bounds
<1>1. ASSUME NEW c \in Clients, ServerReceives(c)
      PROVE  sdoc' = sdoc \/ (Head(up[c]).type # "step1" /\ sdoc' = sdoc \cup Head(up[c]).body)
  BY <1>1 DEF ServerReceives
<1>2. ASSUME NEW c \in Clients, Disconnect(c)
      PROVE  sdoc' = sdoc \/ (Attached = {c} /\ sdoc' = Integrated(sdoc))
  BY <1>2 DEF Disconnect
<1>3. ASSUME NEW c \in Clients,
             Connect(c) \/ MessageUnheard(c) \/ ClientReceives(c) \/ Edit(c) \/ TrySeed(c)
      PROVE  sdoc' = sdoc
  BY <1>3, EditorSteps DEF Connect, MessageUnheard, ClientReceives, LocalUpdate
<1>4. RoomLoads => sdoc' = sdoc
  BY DEF RoomLoads
<1>5. UNCHANGED vars => sdoc' = sdoc
  BY DEF vars
<1>6. QED
  BY <1>1, <1>2, <1>3, <1>4, <1>5 DEF Next

\* Where an editor's document comes from; it never loses anything.
LEMMA EditorDocSteps ==
    ASSUME TypeOK, [Next]_vars, NEW c \in Clients
    PROVE  \/ cdoc'[c] = cdoc[c]
           \/ \E u \in Updates : LocalUpdate(c, u) /\ cdoc'[c] = cdoc[c] \cup {u}
           \/ /\ ClientReceives(c) /\ Head(down[c]).type # "step1"
              /\ cdoc'[c] = cdoc[c] \cup Head(down[c]).body
<1> USE DEF serverVars, clientVars, linkVars, bounds
<1>1. ASSUME NEW d \in Clients, ClientReceives(d)
      PROVE  \/ cdoc'[c] = cdoc[c]
             \/ /\ c = d /\ Head(down[c]).type # "step1"
                /\ cdoc'[c] = cdoc[c] \cup Head(down[c]).body
  BY <1>1 DEF ClientReceives, TypeOK
<1>2. ASSUME NEW d \in Clients, NEW u \in Updates, LocalUpdate(d, u)
      PROVE  cdoc'[c] = cdoc[c] \/ (c = d /\ cdoc'[c] = cdoc[c] \cup {u})
  BY <1>2 DEF LocalUpdate, TypeOK
<1>3. ASSUME NEW d \in Clients, Edit(d) \/ TrySeed(d)
      PROVE  \/ cdoc'[c] = cdoc[c]
             \/ \E u \in Updates : LocalUpdate(c, u) /\ cdoc'[c] = cdoc[c] \cup {u}
  BY <1>2, <1>3, EditorSteps
<1>4. ASSUME NEW d \in Clients,
             Connect(d) \/ MessageUnheard(d) \/ Disconnect(d) \/ ServerReceives(d)
      PROVE  cdoc' = cdoc
  BY <1>4 DEF Connect, MessageUnheard, Disconnect, ServerReceives
<1>5. RoomLoads \/ Restart \/ UNCHANGED vars => cdoc' = cdoc
  BY DEF RoomLoads, Restart, vars
<1>6. QED
  BY <1>1, <1>3, <1>4, <1>5 DEF Next

\* What becomes of an editor's messages to the server.
LEMMA UpSteps ==
    ASSUME TypeOK, [Next]_vars, NEW c \in Clients
    PROVE  \/ up'[c] = up[c] /\ ~ServerReceives(c)
           \/ up'[c] = <<>>
           \/ up[c] # <<>> /\ up'[c] = Tail(up[c])
           \/ Connect(c) /\ up'[c] = <<Step1(cdoc[c])>>
           \/ \E u \in Updates :
                 LocalUpdate(c, u) /\ up'[c] = Append(up[c], Message("update", {u}))
           \/ /\ ClientReceives(c) /\ Head(down[c]).type = "step1"
              /\ up'[c] = Append(up[c], Message("step2", cdoc[c] \ Head(down[c]).body))
<1> USE DEF serverVars, clientVars, linkVars, bounds
<1>0. up \in [Clients -> Seq(Messages)]
  BY DEF TypeOK
<1>1. ASSUME ServerReceives(c)
      PROVE  up[c] # <<>> /\ up'[c] = Tail(up[c])
  BY <1>0, <1>1 DEF ServerReceives
<1>2. ASSUME NEW d \in Clients, d # c, ServerReceives(d)
      PROVE  up'[c] = up[c]
  BY <1>0, <1>2 DEF ServerReceives
<1>3. ASSUME NEW d \in Clients, ClientReceives(d)
      PROVE  \/ up'[c] = up[c]
             \/ /\ c = d /\ Head(down[c]).type = "step1"
                /\ up'[c] = Append(up[c], Message("step2", cdoc[c] \ Head(down[c]).body))
  BY <1>0, <1>3 DEF ClientReceives
<1>4. ASSUME NEW d \in Clients, NEW u \in Updates, LocalUpdate(d, u)
      PROVE  \/ up'[c] = up[c]
             \/ c = d /\ up'[c] = Append(up[c], Message("update", {u}))
  BY <1>0, <1>4 DEF LocalUpdate
<1>5. ASSUME NEW d \in Clients, Edit(d) \/ TrySeed(d)
      PROVE  \/ up'[c] = up[c]
             \/ \E u \in Updates :
                   LocalUpdate(c, u) /\ up'[c] = Append(up[c], Message("update", {u}))
  BY <1>4, <1>5, EditorSteps
<1>6. ASSUME NEW d \in Clients, Connect(d)
      PROVE  up'[c] = up[c] \/ (c = d /\ up'[c] = <<Step1(cdoc[c])>>)
  BY <1>0, <1>6 DEF Connect
<1>7. ASSUME NEW d \in Clients, MessageUnheard(d)
      PROVE  up'[c] = up[c] \/ (up[c] # <<>> /\ up'[c] = Tail(up[c]))
  BY <1>0, <1>7 DEF MessageUnheard
<1>8. ASSUME NEW d \in Clients, Disconnect(d)
      PROVE  up'[c] = up[c] \/ up'[c] = <<>>
  BY <1>0, <1>8 DEF Disconnect
<1>9. RoomLoads \/ Restart \/ UNCHANGED vars => up'[c] = up[c] \/ up'[c] = <<>>
  BY <1>0 DEF RoomLoads, Restart, vars
<1>10. QED
  BY <1>1, <1>2, <1>3, <1>5, <1>6, <1>7, <1>8, <1>9 DEF Next

\* What a message of d makes the server announce to c.
New(d) == Integrated(sdoc \cup Head(up[d]).body) \ Integrated(sdoc)

\* What becomes of the server's messages to an editor.
LEMMA DownSteps ==
    ASSUME TypeOK, [Next]_vars, NEW c \in Clients
    PROVE  \/ down'[c] = down[c]
           \/ down'[c] = <<>>
           \/ link[c] # "attached" /\ sdoc' = sdoc /\ down'[c] = <<Step1(sdoc)>>
           \/ ClientReceives(c) /\ down[c] # <<>> /\ down'[c] = Tail(down[c])
           \/ /\ ServerReceives(c) /\ Head(up[c]).type = "step1" /\ sdoc' = sdoc
              /\ down'[c] = Append(down[c], Message("step2", sdoc \ Head(up[c]).body))
           \/ \E d \in Clients \ {c} :
                 /\ ServerReceives(d) /\ Head(up[d]).type # "step1"
                 /\ sdoc' = sdoc \cup Head(up[d]).body
                 /\ link[c] = "attached"
                 /\ down'[c] = Append(down[c], Message("update", New(d)))
<1> USE DEF serverVars, clientVars, linkVars, bounds
<1>0. down \in [Clients -> Seq(Messages)]
  BY DEF TypeOK
<1>1. ASSUME NEW d \in Clients, ServerReceives(d), Head(up[d]).type = "step1"
      PROVE  \/ down'[c] = down[c]
             \/ /\ c = d /\ sdoc' = sdoc
                /\ down'[c] = Append(down[c], Message("step2", sdoc \ Head(up[c]).body))
  BY <1>0, <1>1 DEF ServerReceives
<1>2. ASSUME NEW d \in Clients, ServerReceives(d), Head(up[d]).type # "step1"
      PROVE  \/ down'[c] = down[c]
             \/ /\ c # d /\ sdoc' = sdoc \cup Head(up[d]).body
                /\ link[c] = "attached"
                /\ down'[c] = Append(down[c], Message("update", New(d)))
  <2>1. sdoc' = sdoc \cup Head(up[d]).body /\ Broadcast(d, Head(up[d]).body)
    BY <1>2 DEF ServerReceives
  <2>2. down'[c] = IF c \in Attached \ {d} /\ New(d) # {}
                   THEN Append(down[c], Message("update", New(d))) ELSE down[c]
    BY <2>1 DEF Broadcast, New
  <2>3. QED
    BY <2>1, <2>2 DEF Attached
<1>3. ASSUME NEW d \in Clients, ClientReceives(d)
      PROVE  down'[c] = down[c] \/ (c = d /\ down[c] # <<>> /\ down'[c] = Tail(down[c]))
  BY <1>0, <1>3 DEF ClientReceives
<1>4. ASSUME NEW d \in Clients, Edit(d) \/ TrySeed(d)
      PROVE  down'[c] = down[c]
  BY <1>4, EditorSteps DEF LocalUpdate
<1>5. ASSUME NEW d \in Clients, Connect(d)
      PROVE  \/ down'[c] = down[c]
             \/ link[c] # "attached" /\ sdoc' = sdoc /\ down'[c] = <<Step1(sdoc)>>
  BY <1>0, <1>5 DEF Connect
<1>6. ASSUME NEW d \in Clients, MessageUnheard(d) PROVE down'[c] = down[c]
  BY <1>6 DEF MessageUnheard
<1>7. ASSUME NEW d \in Clients, Disconnect(d)
      PROVE  down'[c] = down[c] \/ down'[c] = <<>>
  BY <1>0, <1>7 DEF Disconnect
<1>8. RoomLoads => \/ down'[c] = down[c]
                   \/ link[c] # "attached" /\ sdoc' = sdoc /\ down'[c] = <<Step1(sdoc)>>
  BY DEF RoomLoads
<1>9. Restart \/ UNCHANGED vars => down'[c] = down[c] \/ down'[c] = <<>>
  BY <1>0 DEF Restart, vars
<1>10. QED
  BY <1>1, <1>2, <1>3, <1>4, <1>5, <1>6, <1>7, <1>8, <1>9 DEF Next

-----------------------------------------------------------------------------
(***************************************************************************)
(* Sockets and rooms.                                                      *)
(***************************************************************************)

\* When the last attached socket of a room closes, nobody else has a socket.
LEMMA LastSocket ==
    ASSUME LinksFollowRoom, TypeOK, NEW c \in Clients, link[c] # "down", Attached = {c}
    PROVE  \A d \in Clients \ {c} : link[d] = "down"
<1>1. link[c] = "attached" /\ room = "live"
  BY DEF Attached, LinksFollowRoom
<1>2. \A d \in Clients \ {c} : link[d] # "attached" /\ link[d] # "open"
  BY <1>1 DEF Attached, LinksFollowRoom
<1>3. QED
  BY <1>2 DEF TypeOK, LinkStates

LEMMA LinksStep ==
    ASSUME TypeOK, LinksFollowRoom, [Next]_vars
    PROVE  LinksFollowRoom'
<1> USE DEF serverVars, clientVars, linkVars, bounds
<1>0. \A d \in Clients : /\ link[d] = "attached" => room = "live"
                         /\ link[d] = "open" => room = "loading" /\ ~greeted[d]
                         /\ link[d] = "down" => up[d] = <<>>
                         /\ link[d] # "attached" => down[d] = <<>>
                         /\ link[d] \in {"down", "open", "attached"}
  BY DEF LinksFollowRoom, TypeOK, LinkStates
<1>1. ASSUME NEW c \in Clients, Connect(c) PROVE LinksFollowRoom'
  <2> SUFFICES ASSUME NEW d \in Clients
               PROVE  /\ link'[d] = "attached" => room' = "live"
                      /\ link'[d] = "open" => room' = "loading" /\ ~greeted'[d]
                      /\ link'[d] = "down" => up'[d] = <<>>
                      /\ link'[d] # "attached" => down'[d] = <<>>
    BY DEF LinksFollowRoom
  <2>1. CASE d = c
    BY <1>0, <1>1, <2>1 DEF Connect, TypeOK
  <2>2. CASE d # c
    BY <1>0, <1>1, <2>2 DEF Connect, TypeOK
  <2>3. QED
    BY <2>1, <2>2
<1>2. ASSUME NEW c \in Clients, MessageUnheard(c) PROVE LinksFollowRoom'
  BY <1>0, <1>2 DEF MessageUnheard, TypeOK, LinksFollowRoom
<1>3. ASSUME NEW c \in Clients, Disconnect(c) PROVE LinksFollowRoom'
  <2>1. link'[c] = "down" /\ up'[c] = <<>> /\ down'[c] = <<>>
    BY <1>3 DEF Disconnect, TypeOK
  <2>2. \A d \in Clients \ {c} : link'[d] = link[d] /\ up'[d] = up[d] /\ down'[d] = down[d]
    BY <1>3 DEF Disconnect, TypeOK
  <2>3. room' = room \/ \A d \in Clients \ {c} : link[d] = "down"
    BY <1>3, LastSocket DEF Disconnect
  <2>4. greeted' = greeted
    BY <1>3 DEF Disconnect
  <2>5. QED
    BY <1>0, <2>1, <2>2, <2>3, <2>4 DEF LinksFollowRoom
<1>4. ASSUME NEW c \in Clients, ServerReceives(c) PROVE LinksFollowRoom'
  <2>1. link[c] = "attached" /\ link' = link /\ room' = room
    BY <1>4 DEF ServerReceives
  <2>2. \A d \in Clients : d # c => up'[d] = up[d] /\ greeted'[d] = greeted[d]
    BY <1>4 DEF ServerReceives, TypeOK
  <2>3. \A d \in Clients : link[d] # "attached" => down'[d] = down[d]
    BY <1>4 DEF ServerReceives, Broadcast, Attached, TypeOK
  <2>4. QED
    BY <1>0, <2>1, <2>2, <2>3 DEF LinksFollowRoom
<1>5. ASSUME NEW c \in Clients, ClientReceives(c) PROVE LinksFollowRoom'
  <2>1. link[c] = "attached" /\ link' = link /\ room' = room /\ greeted' = greeted
    BY <1>0, <1>5 DEF ClientReceives
  <2>2. \A d \in Clients : d # c => up'[d] = up[d] /\ down'[d] = down[d]
    BY <1>5 DEF ClientReceives, TypeOK
  <2>3. QED
    BY <1>0, <2>1, <2>2 DEF LinksFollowRoom
<1>6. ASSUME NEW c \in Clients, NEW u \in Updates, LocalUpdate(c, u) PROVE LinksFollowRoom'
  <2>1. /\ link' = link /\ room' = room /\ greeted' = greeted /\ down' = down
        /\ \A d \in Clients : link[d] = "down" => up'[d] = up[d]
    BY <1>6 DEF LocalUpdate, TypeOK
  <2>2. QED
    BY <1>0, <2>1 DEF LinksFollowRoom
<1>7. ASSUME UNCHANGED <<serverVars, cdoc, linkVars, bounds>> PROVE LinksFollowRoom'
  BY <1>0, <1>7 DEF LinksFollowRoom
<1>8. ASSUME NEW c \in Clients, Edit(c) \/ TrySeed(c) PROVE LinksFollowRoom'
  BY <1>6, <1>7, <1>8, EditorSteps
<1>9. CASE RoomLoads
  BY <1>0, <1>9 DEF RoomLoads, LinksFollowRoom
<1>10. CASE Restart
  BY <1>10 DEF Restart, LinksFollowRoom
<1>11. CASE UNCHANGED vars
  BY <1>7, <1>11 DEF vars
<1>12. QED
  BY <1>1, <1>2, <1>3, <1>4, <1>5, <1>8, <1>9, <1>10, <1>11 DEF Next

\* While a socket lasts, the server's document only grows.
LEMMA DocKeptForSockets ==
    ASSUME TypeOK, LinksFollowRoom, [Next]_vars, NEW c \in Clients, link'[c] # "down"
    PROVE  sdoc \subseteq sdoc'
<1>1. ASSUME NEW d \in Clients, Disconnect(d), Attached = {d} PROVE FALSE
  <2>1. link[d] # "down" /\ link' = [link EXCEPT ![d] = "down"]
    BY <1>1 DEF Disconnect
  <2>2. \A e \in Clients \ {d} : link[e] = "down"
    BY <1>1, <2>1, LastSocket
  <2>3. link'[c] = "down"
    BY <2>1, <2>2 DEF TypeOK
  <2>4. QED
    BY <2>3
<1>2. ~Restart
  BY DEF Restart
<1>3. QED
  BY <1>1, <1>2, ServerDocSteps

\* A socket goes down with its messages, and all go down with the server.
LEMMA DownAreEmpty ==
    ASSUME LinksFollowRoom, NEW c \in Clients, up[c] # <<>> \/ down[c] # <<>>
    PROVE  link[c] # "down"
BY DEF LinksFollowRoom

-----------------------------------------------------------------------------
(***************************************************************************)
(* Messages under way.                                                     *)
(***************************************************************************)

\* A state vector is the first message of its socket.
LEMMA AsksFirstStep ==
    ASSUME TypeOK, AsksFirst, LinksFollowRoom, [Next]_vars
    PROVE  AsksFirst'
<1> SUFFICES ASSUME NEW c \in Clients
             PROVE  \A i \in 2 .. Len(up'[c]) : up'[c][i].type # "step1"
  BY DEF AsksFirst
<1>0. /\ up[c] \in Seq(Messages) /\ Len(up[c]) \in Nat
      /\ \A i \in 2 .. Len(up[c]) : up[c][i].type # "step1"
  BY DEF AsksFirst, TypeOK
<1>1. CASE up'[c] = up[c]
  BY <1>0, <1>1
<1>2. CASE up'[c] = <<>>
  BY <1>2
<1>3. CASE up[c] # <<>> /\ up'[c] = Tail(up[c])
  <2> SUFFICES ASSUME NEW i \in 2 .. Len(up'[c]) PROVE up'[c][i].type # "step1"
    OBVIOUS
  <2>1. /\ Len(up'[c]) = Len(up[c]) - 1
        /\ \A j \in 1 .. Len(up'[c]) : up'[c][j] = up[c][j + 1]
    BY <1>0, <1>3, TailIndex
  <2>2. i \in 1 .. Len(up'[c]) /\ i + 1 \in 2 .. Len(up[c])
    BY <1>0, <2>1
  <2>3. QED
    BY <1>0, <2>1, <2>2
<1>4. CASE Connect(c) /\ up'[c] = <<Step1(cdoc[c])>>
  <2>1. Len(up'[c]) = 1
    BY <1>4
  <2>2. QED
    BY <2>1
<1>5. ASSUME NEW m \in Messages, m.type # "step1", up'[c] = Append(up[c], m)
      PROVE  \A i \in 2 .. Len(up'[c]) : up'[c][i].type # "step1"
  <2> SUFFICES ASSUME NEW i \in 2 .. Len(up'[c]) PROVE up'[c][i].type # "step1"
    OBVIOUS
  <2>1. /\ Len(up'[c]) = Len(up[c]) + 1
        /\ \A j \in 1 .. Len(up[c]) : up'[c][j] = up[c][j]
        /\ up'[c][Len(up[c]) + 1] = m
    BY <1>0, <1>5, AppendIndex
  <2>2. i = Len(up[c]) + 1 \/ (i \in 1 .. Len(up[c]) /\ i \in 2 .. Len(up[c]))
    BY <1>0, <2>1
  <2>3. QED
    BY <1>0, <1>5, <2>1, <2>2
<1>6. ASSUME NEW u \in Updates, up'[c] = Append(up[c], Message("update", {u}))
      PROVE  \A i \in 2 .. Len(up'[c]) : up'[c][i].type # "step1"
  BY <1>5, <1>6, MessageTypes
<1>7. ASSUME up'[c] = Append(up[c], Message("step2", cdoc[c] \ Head(down[c]).body))
      PROVE  \A i \in 2 .. Len(up'[c]) : up'[c][i].type # "step1"
  <2>1. cdoc[c] \ Head(down[c]).body \subseteq Updates
    BY DEF TypeOK
  <2>2. QED
    BY <1>5, <1>7, <2>1, MessageTypes
<1>8. QED
  BY <1>1, <1>2, <1>3, <1>4, <1>6, <1>7, UpSteps

\* Bodies within a document, after one more message, one less, and in a larger
\* document.
LEMMA BodiesInSteps ==
    ASSUME NEW s \in Seq(Messages), NEW D, BodiesIn(s, D), NEW E, D \subseteq E
    PROVE  /\ BodiesIn(s, E)
           /\ s # <<>> => BodiesIn(Tail(s), E) /\ Head(s).body \subseteq D
           /\ \A m \in Messages : m.body \subseteq E => BodiesIn(Append(s, m), E)
<1>1. BodiesIn(s, E)
  BY DEF BodiesIn
<1>2. ASSUME s # <<>> PROVE BodiesIn(Tail(s), E) /\ Head(s).body \subseteq D
  <2>1. /\ Head(s) = s[1] /\ Len(s) \in Nat \ {0} /\ Len(Tail(s)) = Len(s) - 1
        /\ \A i \in 1 .. Len(Tail(s)) : Tail(s)[i] = s[i + 1]
    BY <1>2, TailIndex
  <2>2. 1 \in 1 .. Len(s) /\ \A i \in 1 .. Len(Tail(s)) : i + 1 \in 1 .. Len(s)
    BY <2>1
  <2>3. QED
    BY <2>1, <2>2 DEF BodiesIn
<1>3. ASSUME NEW m \in Messages, m.body \subseteq E PROVE BodiesIn(Append(s, m), E)
  <2>1. /\ Len(Append(s, m)) = Len(s) + 1 /\ Len(s) \in Nat
        /\ \A i \in 1 .. Len(s) : Append(s, m)[i] = s[i]
        /\ Append(s, m)[Len(s) + 1] = m
    BY AppendIndex
  <2>2. \A i \in 1 .. Len(Append(s, m)) : i \in 1 .. Len(s) \/ i = Len(s) + 1
    BY <2>1
  <2>3. QED
    BY <1>3, <2>1, <2>2 DEF BodiesIn
<1>4. QED
  BY <1>1, <1>2, <1>3

LEMMA BodiesInSingle ==
    ASSUME NEW D
    PROVE  /\ BodiesIn(<<>>, D)
           /\ \A m \in Messages : m.body \subseteq D => BodiesIn(<<m>>, D)
BY DEF BodiesIn

\* What is under way is part of its sender's document.
LEMMA SentFromDocsStep ==
    ASSUME TypeOK, SentFromDocs, LinksFollowRoom, [Next]_vars
    PROVE  SentFromDocs'
<1>1. LinksFollowRoom' /\ TypeOK'
  BY LinksStep, TypeStep
<1> SUFFICES ASSUME NEW c \in Clients
             PROVE  BodiesIn(up'[c], cdoc'[c]) /\ BodiesIn(down'[c], sdoc')
  BY DEF SentFromDocs
<1>2. /\ up[c] \in Seq(Messages) /\ down[c] \in Seq(Messages)
      /\ cdoc[c] \subseteq Updates /\ sdoc \subseteq Updates
      /\ BodiesIn(up[c], cdoc[c]) /\ BodiesIn(down[c], sdoc)
  BY DEF TypeOK, SentFromDocs
<1>3. cdoc[c] \subseteq cdoc'[c]
  BY EditorDocSteps
<1>4. BodiesIn(up'[c], cdoc'[c])
  <2>0. \A m \in Messages : m.body \subseteq cdoc'[c] => BodiesIn(Append(up[c], m), cdoc'[c])
    BY <1>2, <1>3, BodiesInSteps
  <2>1. CASE up'[c] \in {up[c], <<>>} \/ (up[c] # <<>> /\ up'[c] = Tail(up[c]))
    BY <1>2, <1>3, <2>1, BodiesInSteps, BodiesInSingle
  <2>2. CASE up'[c] = <<Step1(cdoc[c])>>
    <3>1. Step1(cdoc[c]) \in Messages /\ Step1(cdoc[c]).body \subseteq cdoc'[c]
      BY <1>2, <1>3, MessageTypes, IntegratedIsWhole
    <3>2. QED
      BY <2>2, <3>1, BodiesInSingle
  <2>3. ASSUME NEW u \in Updates, LocalUpdate(c, u),
               up'[c] = Append(up[c], Message("update", {u}))
        PROVE  BodiesIn(up'[c], cdoc'[c])
    <3>1. u \in cdoc'[c]
      BY <2>3 DEF LocalUpdate, TypeOK
    <3>2. Message("update", {u}) \in Messages /\ Message("update", {u}).body \subseteq cdoc'[c]
      BY <3>1, MessageTypes
    <3>3. QED
      BY <2>0, <2>3, <3>2
  <2>4. ASSUME up'[c] = Append(up[c], Message("step2", cdoc[c] \ Head(down[c]).body))
        PROVE  BodiesIn(up'[c], cdoc'[c])
    <3> DEFINE m == Message("step2", cdoc[c] \ Head(down[c]).body)
    <3>1. m \in Messages /\ m.body \subseteq cdoc'[c]
      BY <1>2, <1>3, MessageTypes
    <3>2. QED
      BY <2>0, <2>4, <3>1
  <2>5. QED
    BY <2>1, <2>2, <2>3, <2>4, UpSteps
<1>5. BodiesIn(down'[c], sdoc')
  <2>1. CASE down'[c] = <<>>
    BY <2>1, BodiesInSingle
  <2> SUFFICES ASSUME down'[c] # <<>> PROVE BodiesIn(down'[c], sdoc')
    BY <2>1
  <2>2. sdoc \subseteq sdoc'
    <3>1. link'[c] # "down"
      BY <1>1 DEF LinksFollowRoom
    <3>2. QED
      BY <3>1, DocKeptForSockets
  <2>0. \A m \in Messages : m.body \subseteq sdoc' => BodiesIn(Append(down[c], m), sdoc')
    BY <1>2, <2>2, BodiesInSteps
  <2>3. CASE down'[c] = down[c] \/ (down[c] # <<>> /\ down'[c] = Tail(down[c]))
    BY <1>2, <2>2, <2>3, BodiesInSteps
  <2>4. CASE down'[c] = <<Step1(sdoc)>>
    <3>1. Step1(sdoc) \in Messages /\ Step1(sdoc).body \subseteq sdoc'
      BY <1>2, <2>2, MessageTypes, IntegratedIsWhole
    <3>2. QED
      BY <2>4, <3>1, BodiesInSingle
  <2>5. CASE down'[c] = Append(down[c], Message("step2", sdoc \ Head(up[c]).body))
    <3> DEFINE m == Message("step2", sdoc \ Head(up[c]).body)
    <3>1. m \in Messages /\ m.body \subseteq sdoc'
      BY <1>2, <2>2, MessageTypes
    <3>2. QED
      BY <2>0, <2>5, <3>1
  <2>6. ASSUME NEW d \in Clients, sdoc' = sdoc \cup Head(up[d]).body,
               down'[c] = Append(down[c], Message("update", New(d)))
        PROVE  BodiesIn(down'[c], sdoc')
    <3>1. New(d) \subseteq sdoc' /\ sdoc' \subseteq Updates
      BY <1>1, <2>6 DEF New, Integrated, TypeOK
    <3>2. /\ Message("update", New(d)) \in Messages
          /\ Message("update", New(d)).body \subseteq sdoc'
      BY <3>1, MessageTypes
    <3>3. QED
      BY <2>0, <2>6, <3>2
  <2>7. QED
    BY <2>3, <2>4, <2>5, <2>6, DownSteps
<1>6. QED
  BY <1>4, <1>5

-----------------------------------------------------------------------------
(***************************************************************************)
(* What is known of an author.                                             *)
(***************************************************************************)

\* The bodies of a queue's first message and of its messages at any place.
LEMMA HeadBody ==
    ASSUME TypeOK, SentFromDocs, NEW c \in Clients
    PROVE  /\ up[c] # <<>> => Head(up[c]).body \subseteq cdoc[c]
           /\ down[c] # <<>> => Head(down[c]).body \subseteq sdoc
BY BodiesInSteps DEF TypeOK, SentFromDocs

\* Only a message of an author makes more of his updates known.
LEMMA KnownSteps ==
    ASSUME TypeOK, SentFromDocs, [Next]_vars, NEW c \in Clients
    PROVE  \/ Known(c)' \subseteq Known(c)
           \/ /\ ServerReceives(c) /\ Head(up[c]).type # "step1"
              /\ sdoc' = sdoc \cup Head(up[c]).body
              /\ Known(c)' \subseteq Known(c) \cup Head(up[c]).body
<1>1. \A d \in Clients \ {c} : \A u \in cdoc'[d] :
          u[1] = c => u \in cdoc[d] \/ u \in sdoc
  <2> SUFFICES ASSUME NEW d \in Clients \ {c}, NEW u \in cdoc'[d], u[1] = c, u \notin cdoc[d]
               PROVE  u \in sdoc
    OBVIOUS
  <2>1. ASSUME NEW v \in Updates, LocalUpdate(d, v), cdoc'[d] = cdoc[d] \cup {v}
        PROVE  FALSE
    BY <2>1 DEF LocalUpdate
  <2>2. ASSUME ClientReceives(d), cdoc'[d] = cdoc[d] \cup Head(down[d]).body
        PROVE  u \in sdoc
    BY <2>2, HeadBody DEF ClientReceives
  <2>3. QED
    BY <2>1, <2>2, EditorDocSteps
<1>2. CASE sdoc' \subseteq sdoc
  BY <1>1, <1>2 DEF Known
<1>3. ASSUME NEW d \in Clients \ {c}, ServerReceives(d), sdoc' = sdoc \cup Head(up[d]).body
      PROVE  Known(c)' \subseteq Known(c)
  <2>1. Head(up[d]).body \subseteq cdoc[d]
    BY <1>3, HeadBody DEF ServerReceives
  <2>2. QED
    BY <1>1, <1>3, <2>1 DEF Known
<1>4. ASSUME ServerReceives(c), sdoc' = sdoc \cup Head(up[c]).body
      PROVE  Known(c)' \subseteq Known(c) \cup Head(up[c]).body
  BY <1>1, <1>4 DEF Known
<1>5. Integrated(sdoc) \subseteq sdoc /\ (Restart => sdoc' \subseteq sdoc)
  BY IntegratedIsWhole DEF Restart, TypeOK
<1>6. QED
  BY <1>2, <1>3, <1>4, <1>5, ServerDocSteps

\* An author keeps all of his updates.
LEMMA AuthorsStep ==
    ASSUME TypeOK, SentFromDocs, AuthorsHaveTheirs, [Next]_vars
    PROVE  AuthorsHaveTheirs'
<1> SUFFICES ASSUME NEW c \in Clients
             PROVE  /\ Known(c)' \subseteq cdoc'[c]
                    /\ \A u \in cdoc'[c] :
                          u[1] = c => \A n \in 1 .. u[2] : <<c, n>> \in cdoc'[c]
  BY DEF AuthorsHaveTheirs
<1>1. cdoc[c] \subseteq cdoc'[c]
  BY EditorDocSteps
<1>2. Known(c)' \subseteq cdoc'[c]
  <2>1. Known(c) \subseteq cdoc[c]
    BY DEF AuthorsHaveTheirs
  <2>2. ServerReceives(c) => Head(up[c]).body \subseteq cdoc[c]
    BY HeadBody DEF ServerReceives
  <2>3. QED
    BY <1>1, <2>1, <2>2, KnownSteps
<1>3. ASSUME NEW u \in cdoc'[c], u[1] = c, NEW n \in 1 .. u[2]
      PROVE  <<c, n>> \in cdoc'[c]
  <2>1. CASE u \in cdoc[c]
    BY <1>1, <1>3, <2>1 DEF AuthorsHaveTheirs
  <2>2. ASSUME NEW v \in Updates, LocalUpdate(c, v), cdoc'[c] = cdoc[c] \cup {v}, u \notin cdoc[c]
        PROVE  <<c, n>> \in cdoc'[c]
    <3>1. u = v /\ u = <<c, u[2]>> /\ u[2] \in Nat
      BY <1>3, <2>2, UpdateParts
    <3>2. \A k \in 1 .. u[2] - 1 : <<c, k>> \in cdoc[c]
      BY <2>2, <3>1 DEF LocalUpdate
    <3>3. n = u[2] \/ n \in 1 .. u[2] - 1
      BY <3>1
    <3>4. QED
      BY <1>1, <1>3, <3>1, <3>2, <3>3
  <2>3. ASSUME ClientReceives(c), cdoc'[c] = cdoc[c] \cup Head(down[c]).body, u \notin cdoc[c]
        PROVE  FALSE
    <3>1. u \in sdoc
      BY <1>3, <2>3, HeadBody DEF ClientReceives
    <3>2. u \in Known(c)
      BY <1>3, <3>1 DEF Known, TypeOK
    <3>3. QED
      BY <2>3, <3>2 DEF AuthorsHaveTheirs
  <2>4. QED
    BY <2>1, <2>2, <2>3, EditorDocSteps
<1>4. QED
  BY <1>2, <1>3

\* An author shows all of his updates.
LEMMA AuthorsShowTheirs ==
    ASSUME TypeOK, AuthorsHaveTheirs, NEW c \in Clients
    PROVE  Known(c) \subseteq Integrated(cdoc[c])
<1> SUFFICES ASSUME NEW u \in Known(c) PROVE u \in Integrated(cdoc[c])
  OBVIOUS
<1>1. u[1] = c /\ u \in cdoc[c]
  BY DEF Known, AuthorsHaveTheirs
<1>2. \A n \in 1 .. u[2] : <<u[1], n>> \in cdoc[c]
  BY <1>1 DEF AuthorsHaveTheirs
<1>3. QED
  BY <1>1, <1>2 DEF Integrated

\* A state vector under way names the known updates of its sender.
LEMMA VectorsStep ==
    ASSUME TypeOK, SentFromDocs, AuthorsHaveTheirs, AsksFirst, VectorsNameOwn, [Next]_vars
    PROVE  VectorsNameOwn'
<1> SUFFICES ASSUME NEW c \in Clients, NEW i \in 1 .. Len(up'[c]), up'[c][i].type = "step1"
             PROVE  Known(c)' \subseteq up'[c][i].body
  BY DEF VectorsNameOwn
<1>0. /\ up[c] \in Seq(Messages) /\ Len(up[c]) \in Nat
      /\ cdoc[c] \subseteq Updates
  BY DEF TypeOK
<1>1. CASE up'[c] = <<>>
  BY <1>1
<1>2. CASE up[c] # <<>> /\ up'[c] = Tail(up[c])
  <2>1. i + 1 \in 2 .. Len(up[c]) /\ up'[c][i] = up[c][i + 1]
    BY <1>0, <1>2, TailIndex
  <2>2. QED
    BY <2>1 DEF AsksFirst
<1>3. ASSUME i \in 1 .. Len(up[c]), up'[c][i] = up[c][i], ~ServerReceives(c)
      PROVE  Known(c)' \subseteq up'[c][i].body
  BY <1>3, KnownSteps DEF VectorsNameOwn
<1>4. CASE Connect(c) /\ up'[c] = <<Step1(cdoc[c])>>
  <2>1. up'[c][i].body = Integrated(cdoc[c])
    BY <1>0, <1>4, MessageTypes
  <2>2. ~ServerReceives(c)
    BY <1>4 DEF Connect, ServerReceives
  <2>3. QED
    BY <2>1, <2>2, KnownSteps, AuthorsShowTheirs
<1>5. ASSUME NEW m \in Messages, m.type # "step1", up'[c] = Append(up[c], m)
      PROVE  i \in 1 .. Len(up[c]) /\ up'[c][i] = up[c][i]
  <2>1. /\ Len(up'[c]) = Len(up[c]) + 1
        /\ \A j \in 1 .. Len(up[c]) : up'[c][j] = up[c][j]
        /\ up'[c][Len(up[c]) + 1] = m
    BY <1>0, <1>5, AppendIndex
  <2>2. QED
    BY <1>0, <1>5, <2>1
<1>6. ASSUME NEW u \in Updates, LocalUpdate(c, u),
             up'[c] = Append(up[c], Message("update", {u}))
      PROVE  Known(c)' \subseteq up'[c][i].body
  <2>1. i \in 1 .. Len(up[c]) /\ up'[c][i] = up[c][i]
    BY <1>5, <1>6, MessageTypes
  <2>2. sdoc' = sdoc
    BY <1>6 DEF LocalUpdate, serverVars
  <2>3. Known(c)' \subseteq Known(c)
    BY <1>6, <2>2, KnownSteps DEF LocalUpdate, TypeOK, Known
  <2>4. QED
    BY <2>1, <2>3 DEF VectorsNameOwn
<1>7. ASSUME ClientReceives(c),
             up'[c] = Append(up[c], Message("step2", cdoc[c] \ Head(down[c]).body))
      PROVE  Known(c)' \subseteq up'[c][i].body
  <2> DEFINE m == Message("step2", cdoc[c] \ Head(down[c]).body)
  <2>1. m \in Messages /\ m.type # "step1"
    BY <1>0, MessageTypes
  <2>2. i \in 1 .. Len(up[c]) /\ up'[c][i] = up[c][i]
    BY <1>5, <1>7, <2>1
  <2>3. sdoc' = sdoc /\ \A d \in Clients \ {c} : cdoc'[d] = cdoc[d]
    BY <1>7 DEF ClientReceives, serverVars, TypeOK
  <2>4. Known(c)' \subseteq Known(c)
    BY <2>3 DEF Known
  <2>5. QED
    BY <2>2, <2>4 DEF VectorsNameOwn
<1>8. QED
  BY <1>1, <1>2, <1>3, <1>4, <1>6, <1>7, UpSteps

-----------------------------------------------------------------------------
(***************************************************************************)
(* Nothing is left behind.                                                 *)
(***************************************************************************)

LEMMA GreetingAsks ==
    ASSUME NEW D, D \subseteq Updates
    PROVE  Asked(<<Step1(D)>>) /\ Carried(<<Step1(D)>>) = {}
<1> DEFINE s == <<Step1(D)>>
<1>1. s \in Seq(Messages) /\ Len(s) = 1 /\ s[1] = Step1(D) /\ Step1(D).type = "step1"
  BY MessageTypes
<1>2. 1 .. Len(s) = {1}
  BY <1>1
<1> HIDE DEF s
<1>3. Asked(s)
  BY <1>1, <1>2, CarriedByPlace
<1>4. \A u : u \notin Carried(s)
  BY <1>1, <1>2, CarriedByPlace
<1>5. QED
  BY <1>3, <1>4 DEF s

\* What an attached editor has is at the server or under way, or is asked for.
LEMMA HeldBackStep ==
    ASSUME TypeOK, LinksFollowRoom, SentFromDocs, NothingHeldBack, [Next]_vars
    PROVE  NothingHeldBack'
<1> USE DEF serverVars, clientVars, linkVars, bounds
<1> DEFINE Fine(c) == Asked(down'[c]) \/ cdoc'[c] \subseteq sdoc' \cup Carried(up'[c])
<1> SUFFICES ASSUME NEW c \in Clients, link'[c] = "attached" PROVE Fine(c)
  BY DEF NothingHeldBack, Attached
<1>0. /\ up[c] \in Seq(Messages) /\ down[c] \in Seq(Messages)
      /\ cdoc[c] \subseteq Updates /\ sdoc \subseteq Updates
      /\ link[c] = "attached" => Asked(down[c]) \/ cdoc[c] \subseteq sdoc \cup Carried(up[c])
  BY DEF TypeOK, NothingHeldBack, Attached
<1>1. ASSUME link[c] = "attached", sdoc \subseteq sdoc', cdoc'[c] = cdoc[c],
             up'[c] = up[c],
             down'[c] = down[c] \/ \E m \in Messages : down'[c] = Append(down[c], m)
      PROVE  Fine(c)
  <2>1. Asked(down[c]) => Asked(down'[c])
    BY <1>0, <1>1, CarriedAppend
  <2>2. QED
    BY <1>0, <1>1, <2>1
<1>2. ASSUME NEW d \in Clients, Connect(d) PROVE Fine(c)
  <2>1. CASE d = c
    <3>1. down'[c] = <<Step1(sdoc)>>
      BY <1>2, <2>1 DEF Connect, TypeOK
    <3>2. QED
      BY <1>0, <3>1, GreetingAsks
  <2>2. CASE d # c
    BY <1>1, <1>2, <2>2 DEF Connect, TypeOK
  <2>3. QED
    BY <2>1, <2>2
<1>3. ASSUME NEW d \in Clients, MessageUnheard(d) PROVE Fine(c)
  <2>1. d # c
    BY <1>3 DEF MessageUnheard
  <2>2. QED
    BY <1>1, <1>3, <2>1 DEF MessageUnheard, TypeOK
<1>4. ASSUME NEW d \in Clients, Disconnect(d) PROVE Fine(c)
  <2>1. d # c /\ link[c] = "attached"
    BY <1>4 DEF Disconnect, TypeOK
  <2>2. sdoc \subseteq sdoc'
    BY DocKeptForSockets
  <2>3. up'[c] = up[c] /\ down'[c] = down[c] /\ cdoc' = cdoc
    BY <1>4, <2>1 DEF Disconnect, TypeOK
  <2>4. QED
    BY <1>1, <2>1, <2>2, <2>3
<1>5. ASSUME ServerReceives(c) PROVE Fine(c)
  <2> DEFINE m == Head(up[c])
  <2>1. /\ link[c] = "attached" /\ up[c] # <<>> /\ cdoc' = cdoc
        /\ up'[c] = Tail(up[c])
    BY <1>0, <1>5 DEF ServerReceives, TypeOK
  <2>2. CASE m.type = "step1"
    <3>1. sdoc' = sdoc /\ down'[c] = Append(down[c], Message("step2", sdoc \ m.body))
      BY <1>5, <2>2 DEF ServerReceives, TypeOK
    <3>2. Message("step2", sdoc \ m.body) \in Messages
      BY <1>0, MessageTypes
    <3>3. Asked(down[c]) => Asked(down'[c])
      BY <1>0, <3>1, <3>2, CarriedAppend
    <3>4. Carried(up'[c]) = Carried(up[c])
      BY <1>0, <2>1, <2>2, CarriedTail
    <3>5. QED
      BY <1>0, <2>1, <3>1, <3>3, <3>4
  <2>3. CASE m.type # "step1"
    <3>1. sdoc' = sdoc \cup m.body
      BY <1>5, <2>3 DEF ServerReceives
    <3>2. down'[c] = down[c]
      BY <1>5, <2>3 DEF ServerReceives, Broadcast, TypeOK
    <3>3. Carried(up[c]) = Carried(up'[c]) \cup m.body
      BY <1>0, <2>1, <2>3, CarriedTail
    <3>4. QED
      BY <1>0, <2>1, <3>1, <3>2, <3>3
  <2>4. QED
    BY <2>2, <2>3
<1>6. ASSUME NEW d \in Clients, d # c, ServerReceives(d) PROVE Fine(c)
  <2>1. link[c] = "attached" /\ cdoc' = cdoc /\ up'[c] = up[c]
    BY <1>6 DEF ServerReceives, TypeOK
  <2>2. sdoc \subseteq sdoc'
    BY DocKeptForSockets
  <2>3. down'[c] = down[c] \/ \E m \in Messages : down'[c] = Append(down[c], m)
    <3>1. CASE Head(up[d]).type = "step1"
      BY <1>6, <3>1 DEF ServerReceives, TypeOK
    <3>2. CASE Head(up[d]).type # "step1"
      <4>1. \/ down'[c] = down[c]
            \/ down'[c] = Append(down[c], Message("update", New(d)))
        BY <1>6, <3>2 DEF ServerReceives, Broadcast, New
      <4>2. New(d) \subseteq Updates
        BY <1>0, <1>6, QueueTypes DEF New, Integrated, ServerReceives
      <4>3. Message("update", New(d)) \in Messages
        BY <4>2, MessageTypes
      <4>4. QED
        BY <4>1, <4>3
    <3>3. QED
      BY <3>1, <3>2
  <2>4. QED
    BY <1>1, <2>1, <2>2, <2>3
<1>7. ASSUME ClientReceives(c) PROVE Fine(c)
  <2> DEFINE m == Head(down[c])
  <2>1. /\ link[c] = "attached" /\ down[c] # <<>> /\ sdoc' = sdoc
        /\ down'[c] = Tail(down[c])
        /\ m.body \subseteq sdoc
    BY <1>0, <1>7, HeadBody DEF ClientReceives, TypeOK
  <2>2. CASE m.type = "step1"
    <3>1. /\ cdoc' = cdoc
          /\ up'[c] = Append(up[c], Message("step2", cdoc[c] \ m.body))
      BY <1>7, <2>2 DEF ClientReceives, TypeOK
    <3>2. PICK a \in Messages : /\ up'[c] = Append(up[c], a)
                               /\ a.type # "step1" /\ a.body = cdoc[c] \ m.body
      BY <1>0, <3>1, MessageTypes
    <3>3. Carried(up'[c]) = Carried(up[c]) \cup a.body
      BY <1>0, <3>2, CarriedAppend
    <3>4. QED
      BY <2>1, <3>1, <3>2, <3>3
  <2>3. CASE m.type # "step1"
    <3>1. cdoc'[c] = cdoc[c] \cup m.body /\ up' = up
      BY <1>7, <2>3 DEF ClientReceives, TypeOK
    <3>2. Asked(down[c]) <=> Asked(down'[c])
      BY <1>0, <2>1, <2>3, CarriedTail
    <3>3. QED
      BY <1>0, <2>1, <3>1, <3>2
  <2>4. QED
    BY <2>2, <2>3
<1>8. ASSUME NEW d \in Clients, d # c, ClientReceives(d) PROVE Fine(c)
  <2>1. /\ link[c] = "attached" /\ sdoc' = sdoc /\ cdoc'[c] = cdoc[c]
        /\ up'[c] = up[c] /\ down'[c] = down[c]
    BY <1>8 DEF ClientReceives, TypeOK
  <2>2. QED
    BY <1>1, <2>1
<1>9. ASSUME NEW d \in Clients, NEW u \in Updates, LocalUpdate(d, u) PROVE Fine(c)
  <2>1. link[c] = "attached" /\ sdoc' = sdoc /\ down' = down
    BY <1>9 DEF LocalUpdate
  <2>2. CASE d = c
    <3>1. /\ cdoc'[c] = cdoc[c] \cup {u}
          /\ up'[c] = Append(up[c], Message("update", {u}))
      BY <1>9, <2>1, <2>2 DEF LocalUpdate, TypeOK
    <3>2. /\ Message("update", {u}) \in Messages
          /\ Message("update", {u}).type # "step1"
          /\ Message("update", {u}).body = {u}
      BY MessageTypes
    <3>3. Carried(up'[c]) = Carried(up[c]) \cup {u}
      BY <1>0, <3>1, <3>2, CarriedAppend
    <3>4. QED
      BY <1>0, <2>1, <3>1, <3>3
  <2>3. CASE d # c
    <3>1. cdoc'[c] = cdoc[c] /\ up'[c] = up[c]
      BY <1>9, <2>3 DEF LocalUpdate, TypeOK
    <3>2. QED
      BY <1>1, <2>1, <3>1
  <2>4. QED
    BY <2>2, <2>3
<1>10. ASSUME UNCHANGED <<serverVars, cdoc, linkVars, bounds>> PROVE Fine(c)
  BY <1>0, <1>10
<1>11. ASSUME NEW d \in Clients, Edit(d) \/ TrySeed(d) PROVE Fine(c)
  BY <1>9, <1>10, <1>11, EditorSteps
<1>12. CASE RoomLoads
  <2>1. CASE link[c] = "open"
    <3>1. down'[c] = <<Step1(sdoc)>>
      BY <1>12, <2>1 DEF RoomLoads
    <3>2. QED
      BY <1>0, <3>1, GreetingAsks
  <2>2. CASE link[c] # "open"
    <3>1. /\ link[c] = "attached" /\ sdoc' = sdoc /\ cdoc' = cdoc /\ up' = up
          /\ down'[c] = down[c]
      BY <1>12, <2>2 DEF RoomLoads
    <3>2. QED
      BY <1>1, <3>1
  <2>3. QED
    BY <2>1, <2>2
<1>13. CASE Restart
  BY <1>13 DEF Restart
<1>14. CASE UNCHANGED vars
  BY <1>10, <1>14 DEF vars
<1>15. QED
  BY <1>2, <1>3, <1>4, <1>5, <1>6, <1>7, <1>8, <1>11, <1>12, <1>13, <1>14 DEF Next

-----------------------------------------------------------------------------
(***************************************************************************)
(* Before a restart: lost updates, and who can bring them back.            *)
(***************************************************************************)

\* A message that is not a state vector is an update or an answer.
LEMMA HeadMessage ==
    ASSUME TypeOK, NEW c \in Clients, up[c] # <<>>
    PROVE  /\ Head(up[c]) = up[c][1] /\ 1 \in 1 .. Len(up[c])
           /\ Head(up[c]).type \in {"step1", "step2", "update"}
<1>1. up[c] \in Seq(Messages)
  BY DEF TypeOK
<1>2. /\ Head(up[c]) \in Messages /\ Head(up[c]) = up[c][1]
      /\ Len(up[c]) \in Nat \ {0}
  BY <1>1, TailIndex
<1>3. QED
  BY <1>2 DEF Messages

\* The message of an editor lets the server show no updates but his own: before a
\* foreign one that he could bring back there is one that he has not.
LEMMA NewsAreOwn ==
    ASSUME TypeOK, SentFromDocs, AuthorsFillGaps, NEW d \in Clients, up[d] # <<>>
    PROVE  \A u \in New(d) : u[1] = d
<1> DEFINE B == Head(up[d]).body
<1>0. B \subseteq cdoc[d] /\ cdoc[d] \subseteq Updates /\ sdoc \subseteq Updates
  BY HeadBody DEF TypeOK
<1> SUFFICES ASSUME NEW u \in New(d), u[1] # d PROVE FALSE
  OBVIOUS
<1>1. /\ u \in sdoc \cup B /\ u \notin Integrated(sdoc)
      /\ \A n \in 1 .. u[2] : <<u[1], n>> \in sdoc \cup B
  BY DEF New, Integrated
<1>2. u[1] \in Clients /\ u[2] \in Nat \ {0} /\ u = <<u[1], u[2]>> /\ u[2] \in 1 .. u[2]
  BY <1>0, <1>1, UpdateParts
<1>3. PICK k \in 1 .. u[2] : <<u[1], k>> \notin sdoc
  BY <1>1, <1>2 DEF Integrated
<1>4. \A n \in 1 .. u[2] : <<u[1], n>> \in Known(u[1])
  BY <1>0, <1>1 DEF Known
<1>5. <<u[1], k>> \in Lost(u[1])
  BY <1>3, <1>4 DEF Lost
<1>6. PICK n \in 1 .. k : <<u[1], n>> \notin Known(u[1])
  BY <1>2, <1>5 DEF AuthorsFillGaps
<1>7. n \in 1 .. u[2]
  BY <1>2
<1>8. QED
  BY <1>4, <1>6, <1>7

\* Before every lost update there is one that only its author has.
LEMMA FillGapsStep ==
    ASSUME TypeOK, LinksFollowRoom, SentFromDocs, AuthorsFillGaps, AnswersAreWhole,
           [Next]_vars, ~Restart
    PROVE  AuthorsFillGaps'
<1> SUFFICES ASSUME NEW c \in Clients, NEW u \in Lost(c)'
             PROVE  \E n \in 1 .. u[2] : <<c, n>> \notin Known(c)'
  BY DEF AuthorsFillGaps
<1>0. /\ u \in Known(c)' /\ u \notin sdoc' /\ u[1] = c
      /\ u = <<c, u[2]>> /\ u[2] \in Nat
  BY UpdateParts DEF Lost, Known
<1>1. CASE Known(c)' \subseteq Known(c)
  <2>1. CASE u \notin sdoc
    BY <1>0, <1>1, <2>1 DEF Lost, AuthorsFillGaps
  <2>2. CASE u \in sdoc
    <3>1. sdoc' = Integrated(sdoc)
      BY <1>0, <2>2, ServerDocSteps
    <3>2. PICK k \in 1 .. u[2] : <<c, k>> \notin sdoc
      BY <1>0, <2>2, <3>1 DEF Integrated
    <3>3. CASE <<c, k>> \in Known(c)
      <4>1. PICK n \in 1 .. k : <<c, n>> \notin Known(c)
        BY <3>2, <3>3 DEF Lost, AuthorsFillGaps
      <4>2. n \in 1 .. u[2]
        BY <1>0
      <4>3. QED
        BY <1>1, <4>1, <4>2
    <3>4. CASE <<c, k>> \notin Known(c)
      BY <1>1, <3>4
    <3>5. QED
      BY <3>3, <3>4
  <2>3. QED
    BY <2>1, <2>2
<1>2. ASSUME ServerReceives(c), Head(up[c]).type # "step1",
             sdoc' = sdoc \cup Head(up[c]).body,
             Known(c)' \subseteq Known(c) \cup Head(up[c]).body
      PROVE  \E n \in 1 .. u[2] : <<c, n>> \notin Known(c)'
  <2> DEFINE m == Head(up[c])
  <2>1. /\ m = up[c][1] /\ 1 \in 1 .. Len(up[c])
        /\ m.type = "update" \/ m.type = "step2"
    BY <1>2, HeadMessage DEF ServerReceives
  <2>2. u \in Lost(c) /\ u \in Known(c) /\ u \notin sdoc \cup m.body
    BY <1>0, <1>2 DEF Lost
  <2>3. PICK n \in 1 .. u[2] : <<c, n>> \notin Known(c)
    BY <2>2 DEF AuthorsFillGaps
  <2>4. CASE m.type = "update"
    <3>1. \A w \in m.body : u[2] < w[2] /\ w[2] \in Nat
      <4>1. m.body \subseteq Updates
        BY <1>2, QueueTypes DEF ServerReceives
      <4>2. QED
        BY <2>1, <2>2, <2>4, <4>1, UpdateParts DEF AnswersAreWhole
    <3>2. <<c, n>> \notin m.body
      BY <1>0, <3>1
    <3>3. QED
      BY <1>2, <2>3, <3>2
  <2>5. CASE m.type = "step2"
    <3>1. \A k \in 1 .. u[2] : <<c, k>> \in sdoc \cup m.body
      BY <1>0, <2>1, <2>2, <2>5 DEF AnswersAreWhole
    <3>2. u[2] \in 1 .. u[2]
      BY <2>3, <1>0
    <3>3. QED
      BY <1>0, <2>2, <3>1, <3>2
  <2>6. QED
    BY <2>1, <2>4, <2>5
<1>3. QED
  BY <1>1, <1>2, KnownSteps

\* While a socket lasts, no update of its editor gets lost.
LEMMA LostShrinks ==
    ASSUME TypeOK, LinksFollowRoom, SentFromDocs, [Next]_vars,
           NEW c \in Clients, link'[c] # "down"
    PROVE  Lost(c)' \subseteq Lost(c)
BY KnownSteps, DocKeptForSockets DEF Lost

\* What AnswersAreWhole says of one message.
LeavesNoneBehind(c, i) ==
    /\ up[c][i].type = "update" =>
          \A u \in up[c][i].body : u[1] = c /\ \A v \in Lost(c) : v[2] < u[2]
    /\ up[c][i].type = "step2" =>
          \A u \in Known(c) \cup UNION {up[c][j].body : j \in 1 .. i - 1} :
              u[1] = c => \A n \in 1 .. u[2] : <<c, n>> \in sdoc \cup up[c][i].body

\* An author's messages leave no lost update behind them.
LEMMA AnswersStep ==
    ASSUME TypeOK, LinksFollowRoom, SentFromDocs, AuthorsHaveTheirs, AnswersAreWhole,
           [Next]_vars
    PROVE  AnswersAreWhole'
<1> SUFFICES ASSUME NEW c \in Clients, NEW i \in 1 .. Len(up'[c])
             PROVE  LeavesNoneBehind(c, i)'
  BY DEF AnswersAreWhole, LeavesNoneBehind
<1>0. /\ up[c] \in Seq(Messages) /\ Len(up[c]) \in Nat
      /\ cdoc[c] \subseteq Updates /\ sdoc \subseteq Updates
      /\ \A j \in 1 .. Len(up[c]) : LeavesNoneBehind(c, j)
      /\ \A j \in 1 .. Len(up[c]) : up[c][j].body \subseteq cdoc[c]
  BY DEF TypeOK, AnswersAreWhole, LeavesNoneBehind, SentFromDocs, BodiesIn
<1>1. CASE up'[c] = <<>>
  BY <1>1
<1> SUFFICES ASSUME up'[c] # <<>> PROVE LeavesNoneBehind(c, i)'
  BY <1>1
<1>2. Lost(c)' \subseteq Lost(c) /\ sdoc \subseteq sdoc'
  <2>1. link'[c] # "down"
    BY LinksStep DEF LinksFollowRoom
  <2>2. QED
    BY <2>1, LostShrinks, DocKeptForSockets
<1>3. ASSUME NEW j \in 1 .. Len(up[c]), up'[c][i] = up[c][j],
             \A u \in Known(c)' : u \in Known(c) \/ \E k \in 1 .. j - 1 : u \in up[c][k].body,
             \A k \in 1 .. i - 1 : \E l \in 1 .. j - 1 : up'[c][k] = up[c][l]
      PROVE  LeavesNoneBehind(c, i)'
  <2>1. CASE up[c][j].type = "update"
    BY <1>0, <1>2, <1>3, <2>1 DEF LeavesNoneBehind
  <2>2. CASE up[c][j].type = "step2"
    <3> SUFFICES ASSUME NEW u \in Known(c)' \cup UNION {up'[c][k].body : k \in 1 .. i - 1},
                        u[1] = c, NEW n \in 1 .. u[2]
                 PROVE  <<c, n>> \in sdoc' \cup up'[c][i].body
      BY <1>3, <2>2 DEF LeavesNoneBehind
    <3>1. u \in Known(c) \/ \E k \in 1 .. j - 1 : u \in up[c][k].body
      <4>1. CASE u \in Known(c)'
        BY <1>3, <4>1
      <4>2. ASSUME NEW k \in 1 .. i - 1, u \in up'[c][k].body
            PROVE  \E l \in 1 .. j - 1 : u \in up[c][l].body
        BY <1>3, <4>2
      <4>3. QED
        BY <4>1, <4>2
    <3>2. u \in Known(c) \cup UNION {up[c][k].body : k \in 1 .. j - 1}
      BY <3>1
    <3>3. LeavesNoneBehind(c, j)
      BY <1>0
    <3>4. <<c, n>> \in sdoc \cup up[c][j].body
      BY <2>2, <3>2, <3>3 DEF LeavesNoneBehind
    <3>5. QED
      BY <1>2, <1>3, <3>4
  <2>3. QED
    BY <1>3, <2>1, <2>2 DEF LeavesNoneBehind
<1>4. CASE up'[c] = up[c] /\ ~ServerReceives(c)
  BY <1>3, <1>4, KnownSteps
<1>5. CASE up[c] # <<>> /\ up'[c] = Tail(up[c])
  <2>1. /\ Len(up'[c]) = Len(up[c]) - 1 /\ Head(up[c]) = up[c][1]
        /\ \A k \in 1 .. Len(up'[c]) : up'[c][k] = up[c][k + 1]
    BY <1>0, <1>5, TailIndex
  <2>2. i + 1 \in 1 .. Len(up[c]) /\ 1 \in 1 .. (i + 1) - 1
    BY <1>0, <2>1
  <2>3. \A k \in 1 .. i - 1 : k + 1 \in 1 .. (i + 1) - 1 /\ up'[c][k] = up[c][k + 1]
    BY <1>0, <2>1
  <2>4. \A u \in Known(c)' : u \in Known(c) \/ u \in up[c][1].body
    BY <2>1, KnownSteps
  <2>5. QED
    BY <1>3, <2>1, <2>2, <2>3, <2>4
<1>6. CASE Connect(c) /\ up'[c] = <<Step1(cdoc[c])>>
  <2>1. up'[c][i].type = "step1"
    BY <1>0, <1>6, MessageTypes
  <2>2. QED
    BY <2>1 DEF LeavesNoneBehind
<1>7. ASSUME NEW m \in Messages, up'[c] = Append(up[c], m)
      PROVE  /\ \A k \in 1 .. Len(up[c]) : up'[c][k] = up[c][k]
             /\ i \in 1 .. Len(up[c]) \/ (i = Len(up[c]) + 1 /\ up'[c][i] = m)
  <2>1. /\ Len(up'[c]) = Len(up[c]) + 1
        /\ \A j \in 1 .. Len(up[c]) : up'[c][j] = up[c][j]
        /\ up'[c][Len(up[c]) + 1] = m
    BY <1>0, <1>7, AppendIndex
  <2>2. QED
    BY <1>0, <2>1
<1>8. ASSUME NEW u \in Updates, LocalUpdate(c, u),
             up'[c] = Append(up[c], Message("update", {u}))
      PROVE  LeavesNoneBehind(c, i)'
  <2> DEFINE m == Message("update", {u})
  <2>1. m \in Messages /\ m.type = "update" /\ m.body = {u}
    BY MessageTypes
  <2>2. Known(c)' \subseteq Known(c)
    BY <1>8, KnownSteps DEF LocalUpdate, TypeOK, Known, serverVars
  <2> HIDE DEF m
  <2>3. CASE i \in 1 .. Len(up[c])
    <3>1. up'[c][i] = up[c][i] /\ \A k \in 1 .. i - 1 : up'[c][k] = up[c][k]
      BY <1>0, <1>7, <1>8, <2>1, <2>3 DEF m
    <3>2. QED
      BY <1>3, <2>2, <2>3, <3>1
  <2>4. CASE i = Len(up[c]) + 1 /\ up'[c][i] = m
    <3>1. ASSUME NEW v \in Lost(c) PROVE v[2] < u[2]
      <4>1. v \in cdoc[c] /\ v[1] = c
        BY <3>1 DEF Lost, Known, AuthorsHaveTheirs
      <4>2. \A n \in 1 .. v[2] : <<c, n>> \in cdoc[c]
        BY <4>1 DEF AuthorsHaveTheirs
      <4>3. u = <<c, u[2]>> /\ u \notin cdoc[c]
        BY <1>8, UpdateParts DEF LocalUpdate
      <4>4. u[2] \in Nat \ {0} /\ v[2] \in Nat
        BY <1>0, <4>1, UpdateParts
      <4>5. u[2] \notin 1 .. v[2]
        BY <4>2, <4>3
      <4>6. QED
        BY <4>4, <4>5
    <3>2. u[1] = c
      BY <1>8 DEF LocalUpdate
    <3>3. QED
      BY <1>2, <2>1, <2>4, <3>1, <3>2 DEF LeavesNoneBehind
  <2>5. QED
    BY <1>7, <1>8, <2>1, <2>3, <2>4 DEF m
<1>9. ASSUME ClientReceives(c), Head(down[c]).type = "step1",
             up'[c] = Append(up[c], Message("step2", cdoc[c] \ Head(down[c]).body))
      PROVE  LeavesNoneBehind(c, i)'
  <2> DEFINE m == Message("step2", cdoc[c] \ Head(down[c]).body)
  <2>1. m \in Messages /\ m.type = "step2" /\ m.body = cdoc[c] \ Head(down[c]).body
    BY <1>0, MessageTypes
  <2>2. sdoc' = sdoc /\ \A d \in Clients \ {c} : cdoc'[d] = cdoc[d]
    BY <1>9 DEF ClientReceives, serverVars, TypeOK
  <2>3. Known(c)' \subseteq Known(c)
    BY <2>2 DEF Known
  <2> HIDE DEF m
  <2>4. CASE i \in 1 .. Len(up[c])
    <3>1. up'[c][i] = up[c][i] /\ \A k \in 1 .. i - 1 : up'[c][k] = up[c][k]
      BY <1>0, <1>7, <1>9, <2>1, <2>4 DEF m
    <3>2. QED
      BY <1>3, <2>3, <2>4, <3>1
  <2>5. CASE i = Len(up[c]) + 1 /\ up'[c][i] = m
    <3> SUFFICES ASSUME NEW u \in Known(c)' \cup UNION {up'[c][k].body : k \in 1 .. i - 1},
                        u[1] = c, NEW n \in 1 .. u[2]
                 PROVE  <<c, n>> \in sdoc' \cup up'[c][i].body
      BY <2>1, <2>5 DEF LeavesNoneBehind
    <3>1. \A k \in 1 .. i - 1 : k \in 1 .. Len(up[c]) /\ up'[c][k] = up[c][k]
      BY <1>0, <1>7, <1>9, <2>1, <2>5 DEF m
    <3>2. u \in cdoc[c]
      BY <1>0, <2>3, <3>1 DEF AuthorsHaveTheirs
    <3>3. <<c, n>> \in cdoc[c]
      BY <3>2 DEF AuthorsHaveTheirs
    <3>4. Head(down[c]).body \subseteq sdoc
      BY <1>9, HeadBody DEF ClientReceives
    <3>5. QED
      BY <2>1, <2>2, <2>5, <3>3, <3>4
  <2>6. QED
    BY <1>7, <1>9, <2>1, <2>4, <2>5 DEF m
<1>10. QED
  BY <1>4, <1>5, <1>6, <1>8, <1>9, UpSteps

-----------------------------------------------------------------------------
(***************************************************************************)
(* What the server sends.                                                  *)
(***************************************************************************)

\* The messages of a queue, after one more and after one less.
LEMMA MessagesSteps ==
    ASSUME NEW s \in Seq(Messages)
    PROVE  /\ ToSet(<<>>) = {}
           /\ \A x \in Messages : ToSet(<<x>>) = {x}
           /\ s # <<>> => ToSet(Tail(s)) \subseteq ToSet(s)
           /\ \A x \in Messages : ToSet(Append(s, x)) \subseteq ToSet(s) \cup {x}
<1>1. \A t \in Seq(Messages) : \A m : m \in ToSet(t) <=> \E i \in 1 .. Len(t) : m = t[i]
  BY DEF ToSet
<1>2. ToSet(<<>>) = {}
  BY DEF ToSet
<1>3. \A x \in Messages : ToSet(<<x>>) = {x}
  <2> SUFFICES ASSUME NEW x \in Messages PROVE ToSet(<<x>>) = {x}
    OBVIOUS
  <2> DEFINE t == <<x>>
  <2>1. t \in Seq(Messages) /\ Len(t) = 1 /\ t[1] = x
    BY SingleIndex
  <2> HIDE DEF t
  <2>2. 1 .. Len(t) = {1}
    BY <2>1
  <2>3. \A m : m \in ToSet(t) <=> m = x
    BY <1>1, <2>1, <2>2
  <2>4. QED
    BY <2>3 DEF t
<1>4. ASSUME s # <<>> PROVE ToSet(Tail(s)) \subseteq ToSet(s)
  <2>1. /\ Tail(s) \in Seq(Messages) /\ Len(s) \in Nat \ {0} /\ Len(Tail(s)) = Len(s) - 1
        /\ \A i \in 1 .. Len(Tail(s)) : Tail(s)[i] = s[i + 1]
    BY <1>4, TailIndex
  <2>2. ASSUME NEW m \in ToSet(Tail(s)) PROVE m \in ToSet(s)
    <3>1. PICK i \in 1 .. Len(Tail(s)) : m = Tail(s)[i]
      BY <1>1, <2>1
    <3>2. i + 1 \in 1 .. Len(s) /\ m = s[i + 1]
      BY <2>1, <3>1
    <3>3. QED
      BY <1>1, <3>2
  <2>3. QED
    BY <2>2
<1>5. ASSUME NEW x \in Messages PROVE ToSet(Append(s, x)) \subseteq ToSet(s) \cup {x}
  <2> DEFINE t == Append(s, x)
  <2>1. /\ t \in Seq(Messages) /\ Len(t) = Len(s) + 1 /\ Len(s) \in Nat
        /\ \A i \in 1 .. Len(s) : t[i] = s[i]
        /\ t[Len(s) + 1] = x
    BY AppendIndex
  <2>2. \A i \in 1 .. Len(t) : i \in 1 .. Len(s) \/ i = Len(s) + 1
    BY <2>1
  <2> HIDE DEF t
  <2>3. \A m \in ToSet(t) : m \in ToSet(s) \/ m = x
    BY <1>1, <2>1, <2>2
  <2>4. QED
    BY <2>3 DEF t
<1>6. QED
  BY <1>2, <1>3, <1>4, <1>5

\* Only a restart counts as one.
LEMMA RestartsStep ==
    ASSUME TypeOK, [Next]_vars
    PROVE  restarts' = restarts \/ (Restart /\ restarts' # 0)
<1> USE DEF bounds, linkVars, clientVars, serverVars
<1>1. ASSUME NEW c \in Clients,
             \/ Connect(c) \/ MessageUnheard(c) \/ Disconnect(c)
             \/ ServerReceives(c) \/ ClientReceives(c) \/ Edit(c) \/ TrySeed(c)
      PROVE  restarts' = restarts
  BY <1>1, EditorSteps DEF Connect, MessageUnheard, Disconnect, ServerReceives,
                           ClientReceives, LocalUpdate
<1>2. RoomLoads \/ UNCHANGED vars => restarts' = restarts
  BY DEF RoomLoads, vars
<1>3. Restart => restarts' # 0
  BY DEF Restart, TypeOK
<1>4. QED
  BY <1>1, <1>2, <1>3 DEF Next

\* Whether a message may go to c: an answer, or before a restart an announcement,
\* holds none of his updates.
EchoFree(m, c) ==
    m.type = "step2" \/ (m.type = "update" /\ restarts = 0) => \A u \in m.body : u[1] # c

LEMMA NoEchoStep ==
    ASSUME TypeOK, SentFromDocs, VectorsNameOwn, NoEcho,
           restarts = 0 => AuthorsFillGaps, [Next]_vars
    PROVE  NoEcho'
<1> SUFFICES ASSUME NEW c \in Clients, NEW m \in ToSet(down'[c]) PROVE EchoFree(m, c)'
  BY DEF NoEcho, EchoFree
<1>0. /\ down[c] \in Seq(Messages) /\ sdoc \subseteq Updates
      /\ \A x \in ToSet(down[c]) : EchoFree(x, c)
      /\ restarts' = 0 => restarts = 0
  BY RestartsStep DEF TypeOK, NoEcho, EchoFree
<1>1. ASSUME m \in ToSet(down[c]) PROVE EchoFree(m, c)'
  BY <1>0, <1>1 DEF EchoFree
<1>2. CASE down'[c] = <<>>
  BY <1>0, <1>2, MessagesSteps
<1>3. CASE down'[c] = <<Step1(sdoc)>>
  <2>1. Step1(sdoc) \in Messages /\ Step1(sdoc).type = "step1"
    BY <1>0, MessageTypes
  <2>2. m = Step1(sdoc)
    BY <1>0, <1>3, <2>1, MessagesSteps
  <2>3. QED
    BY <2>1, <2>2 DEF EchoFree
<1>4. CASE down[c] # <<>> /\ down'[c] = Tail(down[c])
  BY <1>0, <1>1, <1>4, MessagesSteps
<1>5. ASSUME ServerReceives(c), Head(up[c]).type = "step1",
             down'[c] = Append(down[c], Message("step2", sdoc \ Head(up[c]).body))
      PROVE  EchoFree(m, c)'
  <2> DEFINE D == sdoc \ Head(up[c]).body
  <2>1. \A u \in D : u[1] # c
    <3>1. Known(c) \subseteq Head(up[c]).body
      BY <1>5, HeadMessage DEF ServerReceives, VectorsNameOwn
    <3>2. QED
      BY <1>0, <3>1 DEF Known
  <2>2. Message("step2", D) \in Messages /\ Message("step2", D).body = D
    BY <1>0, MessageTypes
  <2>3. m \in ToSet(down[c]) \/ m = Message("step2", D)
    BY <1>0, <1>5, <2>2, MessagesSteps
  <2>4. QED
    BY <1>1, <2>1, <2>2, <2>3 DEF EchoFree
<1>6. ASSUME NEW d \in Clients \ {c}, ServerReceives(d),
             down'[c] = Append(down[c], Message("update", New(d)))
      PROVE  EchoFree(m, c)'
  <2>1. New(d) \subseteq Updates
    BY <1>0, <1>6, QueueTypes DEF New, Integrated, ServerReceives
  <2>2. /\ Message("update", New(d)) \in Messages
        /\ Message("update", New(d)).type = "update"
        /\ Message("update", New(d)).body = New(d)
    BY <2>1, MessageTypes
  <2>3. m \in ToSet(down[c]) \/ m = Message("update", New(d))
    BY <1>0, <1>6, <2>2, MessagesSteps
  <2>4. restarts = 0 => \A u \in New(d) : u[1] # c
    BY <1>6, NewsAreOwn DEF ServerReceives
  <2>5. QED
    BY <1>0, <1>1, <2>2, <2>3, <2>4 DEF EchoFree
<1>7. QED
  BY <1>1, <1>2, <1>3, <1>4, <1>5, <1>6, DownSteps

-----------------------------------------------------------------------------
(***************************************************************************)
(* What an editor that was heard is told.                                  *)
(***************************************************************************)

\* What an attached editor that was heard gets covers what the server shows.
Told(c) == Integrated(sdoc) \subseteq cdoc[c] \cup Carried(down[c])

LEMMA ToldIsShown ==
    ASSUME TypeOK, NEW c \in Clients
    PROVE  Told(c) <=> Integrated(sdoc) \subseteq Integrated(cdoc[c] \cup Carried(down[c]))
<1>1. sdoc \subseteq Updates
  BY DEF TypeOK
<1>2. \A D : Integrated(D) \subseteq D
  BY DEF Integrated
<1>3. Told(c) => Integrated(sdoc) \subseteq Integrated(cdoc[c] \cup Carried(down[c]))
  BY <1>1, IntegratedCarries DEF Told
<1>4. QED
  BY <1>2, <1>3 DEF Told

\* Before a restart, every step keeps telling the editors that were heard.
LEMMA ToldStep ==
    ASSUME TypeOK, LinksFollowRoom, SentFromDocs, AuthorsHaveTheirs, AuthorsFillGaps,
           \A d \in Attached : greeted[d] => Told(d),
           [Next]_vars, NEW c \in Clients, link'[c] = "attached", greeted'[c]
    PROVE  Told(c)'
<1> USE DEF serverVars, clientVars, linkVars, bounds
<1>0. /\ up[c] \in Seq(Messages) /\ down[c] \in Seq(Messages)
      /\ cdoc[c] \subseteq Updates /\ sdoc \subseteq Updates
      /\ \A D : Integrated(D) \subseteq D
      /\ link[c] = "attached" /\ greeted[c] => Told(c)
  BY DEF TypeOK, Attached, Integrated
<1>1. ASSUME link[c] = "attached", greeted'[c] = greeted[c], sdoc' = sdoc,
             cdoc[c] \subseteq cdoc'[c], down'[c] = down[c]
      PROVE  Told(c)'
  BY <1>0, <1>1 DEF Told
<1>2. ASSUME NEW d \in Clients, Connect(d) PROVE Told(c)'
  <2>1. d # c
    BY <1>2 DEF Connect, TypeOK
  <2>2. QED
    BY <1>1, <1>2, <2>1 DEF Connect, TypeOK
<1>3. ASSUME NEW d \in Clients, MessageUnheard(d) PROVE Told(c)'
  BY <1>1, <1>3 DEF MessageUnheard
<1>4. ASSUME NEW d \in Clients, Disconnect(d) PROVE Told(c)'
  <2>1. d # c /\ link[c] = "attached" /\ c \in Attached
    BY <1>4 DEF Disconnect, TypeOK, Attached
  <2>2. sdoc' = sdoc
    BY <1>4, <2>1 DEF Disconnect
  <2>3. QED
    BY <1>1, <1>4, <2>1, <2>2 DEF Disconnect, TypeOK
<1>5. ASSUME NEW d \in Clients, ServerReceives(d), Head(up[d]).type # "step1"
      PROVE  /\ link[c] = "attached" /\ greeted'[c] = greeted[c] /\ cdoc' = cdoc
             /\ sdoc' = sdoc \cup Head(up[d]).body
             /\ Integrated(sdoc') \subseteq cdoc[c] \cup Carried(down[c]) \cup New(d)
  <2>1. /\ link[c] = "attached" /\ greeted'[c] = greeted[c] /\ cdoc' = cdoc
        /\ sdoc' = sdoc \cup Head(up[d]).body
    BY <1>5 DEF ServerReceives
  <2>2. Integrated(sdoc') \subseteq Integrated(sdoc) \cup New(d)
    BY <2>1 DEF New
  <2>3. QED
    BY <1>0, <2>1, <2>2 DEF Told
<1>6. ASSUME ServerReceives(c) PROVE Told(c)'
  <2> DEFINE m == Head(up[c])
  <2>0. up[c] # <<>> /\ m.body \subseteq cdoc[c]
    BY <1>6, HeadBody DEF ServerReceives
  <2>1. CASE m.type = "step1"
    <3>1. /\ sdoc' = sdoc /\ cdoc' = cdoc
          /\ down'[c] = Append(down[c], Message("step2", sdoc \ m.body))
      BY <1>6, <2>1 DEF ServerReceives, TypeOK
    <3>2. PICK a \in Messages : /\ down'[c] = Append(down[c], a)
                               /\ a.type # "step1" /\ a.body = sdoc \ m.body
      BY <1>0, <3>1, MessageTypes
    <3>3. Carried(down'[c]) = Carried(down[c]) \cup a.body
      BY <1>0, <3>2, CarriedAppend
    <3>4. QED
      BY <1>0, <2>0, <3>1, <3>2, <3>3 DEF Told
  <2>2. CASE m.type # "step1"
    <3>1. down'[c] = down[c]
      BY <1>6, <2>2 DEF ServerReceives, Broadcast, TypeOK
    <3>2. New(c) \subseteq cdoc[c]
      <4>1. \A u \in New(c) : u[1] = c /\ u \in sdoc \cup m.body
        BY <2>0, NewsAreOwn DEF New, Integrated
      <4>2. QED
        BY <1>0, <2>0, <4>1 DEF AuthorsHaveTheirs, Known
    <3>3. QED
      BY <1>5, <1>6, <2>2, <3>1, <3>2 DEF Told
  <2>3. QED
    BY <2>1, <2>2
<1>7. ASSUME NEW d \in Clients, d # c, ServerReceives(d) PROVE Told(c)'
  <2>1. CASE Head(up[d]).type = "step1"
    BY <1>1, <1>7, <2>1 DEF ServerReceives, TypeOK
  <2>2. CASE Head(up[d]).type # "step1"
    <3>1. IF New(d) # {} THEN down'[c] = Append(down[c], Message("update", New(d)))
                         ELSE down'[c] = down[c]
      <4>1. c \in Attached \ {d}
        BY <1>5, <1>7, <2>2 DEF Attached
      <4>2. Broadcast(d, Head(up[d]).body)
        BY <1>7, <2>2 DEF ServerReceives
      <4>3. QED
        BY <4>1, <4>2 DEF Broadcast, New
    <3>2. New(d) \subseteq Carried(down'[c]) /\ Carried(down[c]) \subseteq Carried(down'[c])
      <4>1. CASE New(d) = {}
        BY <3>1, <4>1
      <4>2. CASE New(d) # {}
        <5>1. New(d) \subseteq Updates
          BY <1>0, <1>7, QueueTypes DEF New, Integrated, ServerReceives
        <5>2. PICK a \in Messages : /\ down'[c] = Append(down[c], a)
                                   /\ a.type # "step1" /\ a.body = New(d)
          BY <3>1, <4>2, <5>1, MessageTypes
        <5>3. Carried(down'[c]) = Carried(down[c]) \cup a.body
          BY <1>0, <5>2, CarriedAppend
        <5>4. QED
          BY <5>2, <5>3
      <4>3. QED
        BY <4>1, <4>2
    <3>3. QED
      BY <1>5, <1>7, <2>2, <3>2 DEF Told
  <2>3. QED
    BY <2>1, <2>2
<1>8. ASSUME ClientReceives(c) PROVE Told(c)'
  <2> DEFINE m == Head(down[c])
  <2>1. /\ link[c] = "attached" /\ greeted[c] /\ down[c] # <<>> /\ sdoc' = sdoc
        /\ down'[c] = Tail(down[c])
    BY <1>0, <1>8 DEF ClientReceives, TypeOK
  <2>2. CASE m.type = "step1"
    <3>1. Carried(down'[c]) = Carried(down[c])
      BY <1>0, <2>1, <2>2, CarriedTail
    <3>2. cdoc' = cdoc
      BY <1>8, <2>2 DEF ClientReceives
    <3>3. QED
      BY <1>0, <2>1, <3>1, <3>2 DEF Told
  <2>3. CASE m.type # "step1"
    <3>1. Carried(down[c]) = Carried(down'[c]) \cup m.body
      BY <1>0, <2>1, <2>3, CarriedTail
    <3>2. cdoc'[c] = cdoc[c] \cup m.body
      BY <1>8, <2>3 DEF ClientReceives, TypeOK
    <3>3. QED
      BY <1>0, <2>1, <3>1, <3>2 DEF Told
  <2>4. QED
    BY <2>2, <2>3
<1>9. ASSUME NEW d \in Clients, d # c, ClientReceives(d) PROVE Told(c)'
  BY <1>1, <1>9 DEF ClientReceives, TypeOK
<1>10. ASSUME NEW d \in Clients, NEW u \in Updates, LocalUpdate(d, u) PROVE Told(c)'
  BY <1>1, <1>10 DEF LocalUpdate, TypeOK
<1>11. ASSUME UNCHANGED <<serverVars, cdoc, linkVars, bounds>> PROVE Told(c)'
  BY <1>1, <1>11
<1>12. ASSUME NEW d \in Clients, Edit(d) \/ TrySeed(d) PROVE Told(c)'
  BY <1>10, <1>11, <1>12, EditorSteps
<1>13. CASE RoomLoads
  <2>1. link[c] # "open"
    BY <1>13 DEF RoomLoads, LinksFollowRoom
  <2>2. link'[c] = link[c] /\ down'[c] = down[c]
    BY <1>13, <2>1 DEF RoomLoads, TypeOK
  <2>3. QED
    BY <1>1, <1>13, <2>2 DEF RoomLoads
<1>14. CASE Restart
  BY <1>14 DEF Restart
<1>15. CASE UNCHANGED vars
  BY <1>11, <1>15 DEF vars
<1>16. QED
  BY <1>2, <1>3, <1>4, <1>6, <1>7, <1>8, <1>9, <1>12, <1>13, <1>14, <1>15 DEF Next

LEMMA GreetedStep ==
    ASSUME TypeOK, LinksFollowRoom, SentFromDocs, AuthorsHaveTheirs,
           restarts = 0 => AuthorsFillGaps, GreetedMissNothing, [Next]_vars
    PROVE  GreetedMissNothing'
<1>1. TypeOK'
  BY TypeStep
<1>2. restarts' = 0 => restarts = 0
  BY RestartsStep
<1>3. restarts = 0 => \A d \in Attached : greeted[d] => Told(d)
  BY ToldIsShown DEF GreetedMissNothing, Attached
<1> SUFFICES ASSUME restarts' = 0, NEW c \in Clients, link'[c] = "attached", greeted'[c]
             PROVE  (Integrated(sdoc) \subseteq Integrated(cdoc[c] \cup Carried(down[c])))'
  BY DEF GreetedMissNothing, Attached
<1>4. Told(c)'
  BY <1>2, <1>3, ToldStep
<1>5. QED
  BY <1>1, <1>4, IntegratedCarries DEF Told, TypeOK

-----------------------------------------------------------------------------
(***************************************************************************)
(* The theorems.                                                           *)
(***************************************************************************)

LEMMA IInvInit == Init => IInv
<1> SUFFICES ASSUME Init PROVE IInv
  OBVIOUS
<1>1. TypeOK
  BY InitType
<1>2. /\ sdoc = {} /\ restarts = 0
      /\ \A c \in Clients : /\ cdoc[c] = {} /\ link[c] = "down"
                           /\ up[c] = <<>> /\ down[c] = <<>>
  BY DEF Init
<1>3. LinksFollowRoom /\ AsksFirst /\ SentFromDocs
  BY <1>2 DEF LinksFollowRoom, AsksFirst, SentFromDocs, BodiesIn
<1>4. \A c \in Clients : Known(c) = {} /\ Lost(c) = {}
  BY <1>2 DEF Known, Lost
<1>5. AuthorsHaveTheirs /\ VectorsNameOwn
  BY <1>2, <1>4 DEF AuthorsHaveTheirs, VectorsNameOwn
<1>6. NothingHeldBack /\ GreetedMissNothing
  BY <1>2 DEF NothingHeldBack, GreetedMissNothing, Attached
<1>7. NoEcho
  BY <1>2, MessagesSteps DEF NoEcho, ToSet
<1>8. AuthorsFillGaps /\ AnswersAreWhole
  BY <1>2, <1>4 DEF AuthorsFillGaps, AnswersAreWhole
<1>9. QED
  BY <1>1, <1>3, <1>5, <1>6, <1>7, <1>8 DEF IInv

LEMMA IInvStep == IInv /\ [Next]_vars => IInv'
<1> SUFFICES ASSUME IInv, [Next]_vars PROVE IInv'
  OBVIOUS
<1>1. /\ TypeOK /\ LinksFollowRoom /\ AsksFirst /\ SentFromDocs /\ AuthorsHaveTheirs
      /\ VectorsNameOwn /\ NothingHeldBack /\ NoEcho /\ GreetedMissNothing
      /\ restarts = 0 => AuthorsFillGaps /\ AnswersAreWhole
  BY DEF IInv
<1>2. TypeOK' /\ LinksFollowRoom' /\ AsksFirst' /\ SentFromDocs'
  BY <1>1, TypeStep, LinksStep, AsksFirstStep, SentFromDocsStep
<1>3. AuthorsHaveTheirs' /\ VectorsNameOwn' /\ NothingHeldBack'
  BY <1>1, AuthorsStep, VectorsStep, HeldBackStep
<1>4. NoEcho' /\ GreetedMissNothing'
  BY <1>1, NoEchoStep, GreetedStep
<1>5. ASSUME restarts' = 0 PROVE AuthorsFillGaps' /\ AnswersAreWhole'
  <2>1. restarts = 0 /\ ~Restart
    BY <1>1, <1>5, RestartsStep DEF Restart, TypeOK
  <2>2. AuthorsFillGaps /\ AnswersAreWhole
    BY <1>1, <2>1
  <2>3. AuthorsFillGaps'
    BY <1>1, <2>1, <2>2, FillGapsStep
  <2>4. AnswersAreWhole'
    BY <1>1, <2>2, AnswersStep
  <2>5. QED
    BY <2>3, <2>4
<1>6. QED
  BY <1>2, <1>3, <1>4, <1>5 DEF IInv

\* The invariant of the protocol (protocol.ts: handleMessage, server.ts: onUpdate,
\* onConnection, onClose) holds in every reachable state.
THEOREM SyncInvariance == Spec => []IInv
BY IInvInit, IInvStep, PTL DEF Spec

\* Documents are sets of updates and queues of messages.
THEOREM SyncTypeCorrect == Spec => []TypeOK
<1>1. IInv => TypeOK
  BY DEF IInv
<1>2. QED
  BY <1>1, SyncInvariance, PTL

\* Whatever is dropped or lost, what an attached editor has is at the server, or
\* under way to it, or is asked for (protocol.ts: sendInitialSync).
THEOREM NothingIsLeftBehind == Spec => []NothingLeftBehind
<1>1. IInv => NothingLeftBehind
  BY DEF IInv, NothingHeldBack, NothingLeftBehind, Integrated
<1>2. QED
  BY <1>1, SyncInvariance, PTL

\* Before a restart, an editor whose state vector was heard gets all that the
\* server shows (server.ts: onUpdate).
THEOREM HeardEditorsMissNothing == Spec => []GreetedMissNothing
<1>1. IInv => GreetedMissNothing
  BY DEF IInv
<1>2. QED
  BY <1>1, SyncInvariance, PTL

\* An answer to a state vector holds nothing of its sender's own, and before a
\* restart neither does a broadcast (protocol.ts:96-98).
THEOREM NobodyHearsHimself == Spec => []NoEcho
<1>1. IInv => NoEcho
  BY DEF IInv
<1>2. QED
  BY <1>1, SyncInvariance, PTL
=============================================================================
