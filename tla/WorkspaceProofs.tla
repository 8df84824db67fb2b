--------------------------- MODULE WorkspaceProofs ---------------------------
(***************************************************************************)
(* Proofs about what a workspace keeps around its documents.               *)
(*                                                                         *)
(* Membership, for every finite set of users, any founders and any number  *)
(* of calls: the count that protects the last owner does so as long as no  *)
(* call writes over what it has not looked at.                             *)
(*                                                                         *)
(* PullRequests, for every set of documents and any number of changes and  *)
(* deliveries: links come to show the last state of the pull request as    *)
(* long as deliveries arrive once, and in order.                           *)
(*                                                                         *)
(* RateLimiter, for any number of replicas and requests and any budget: a  *)
(* key is never allowed more, and who waits as told finds a token.         *)
(*                                                                         *)
(* Inbox, for any number of notifications and streams: a cursor of two     *)
(* numbers is enough to tell whether the list is current.                  *)
(*                                                                         *)
(* DocumentGovernance, for every set of actors with any roles, every set   *)
(* of bodies and any number of calls and writes: the rules that a document *)
(* moves by, its history and the gate of its reviews.                      *)
(*                                                                         *)
(* KeyboardShortcuts, for any pause and any number of keys and pages.      *)
(***************************************************************************)
EXTENDS Membership, PullRequests, RateLimiter, Inbox, DocumentGovernance, KeyboardShortcuts,
        FiniteSetTheorems, WellFoundedInduction, SequenceTheorems, TLAPS

-----------------------------------------------------------------------------
(***************************************************************************)
(* Membership.                                                             *)
(***************************************************************************)

OwnerRow(u) == change[u].level = "workspace" /\ change[u].read = "OWNER"

\* What calls know: one that counts is for an owner of the workspace, one that goes on from
\* there has counted two at least, and an owner it was for is one of those.
ChangeKnows(u) ==
    /\ change[u].stage = "count" => OwnerRow(u)
    /\ change[u].stage = "commit" /\ OwnerRow(u) => change[u].owners >= 2
    /\ change[u].stage # "idle" => change[u].whom \in Users

\* The inductive invariant.
MembershipInv ==
    /\ MembershipTypeOK
    /\ \A u \in Users : ChangeKnows(u)
    /\ OwnerLeft

LEMMA Finite == Owners \in SUBSET Users /\ IsFiniteSet(Owners) /\ Cardinality(Owners) \in Nat
BY MembershipAssumption, FS_Subset, FS_CardinalityType DEF Owners

-----------------------------------------------------------------------------
\* A call that moves on, while the rows stay.
LEMMA CallMoves ==
    ASSUME MembershipInv, NEW u \in Users, Becomes(u, change'[u]),
           change'[u] \in [stage : ChangeStages, whom : Users \cup {NoRole}, level : Levels,
                             to : Grantable \cup {NoRole}, read : MemberRoles \cup {NoRole},
                             owners : Nat],
           change'[u].stage \in {"count", "commit"} => change'[u].read # NoRole,
           ChangeKnows(u)', UNCHANGED <<role, editing, overtook>>, changes' \in Nat
    PROVE  MembershipInv'
<1>1. \A v \in Users : v # u => change'[v] = change[v]
  BY DEF Becomes, MembershipInv, MembershipTypeOK
<1>2. change' \in [Users -> [stage : ChangeStages, whom : Users \cup {NoRole}, level : Levels,
                             to : Grantable \cup {NoRole}, read : MemberRoles \cup {NoRole},
                             owners : Nat]]
  BY DEF Becomes, MembershipInv, MembershipTypeOK
<1>3. \A v \in Users : change'[v].stage \in {"count", "commit"} => change'[v].read # NoRole
  BY <1>1 DEF MembershipInv, MembershipTypeOK
<1>4. MembershipTypeOK'
  BY <1>2, <1>3 DEF MembershipInv, MembershipTypeOK
<1>5. \A v \in Users : ChangeKnows(v)'
  BY <1>1 DEF MembershipInv, ChangeKnows, OwnerRow
<1>6. OwnerLeft'
  BY DEF MembershipInv, OwnerLeft, Owners
<1>7. QED
  BY <1>4, <1>5, <1>6 DEF MembershipInv

\* A call that ends knows nothing.
LEMMA CallEnds ==
    ASSUME MembershipInv, NEW u \in Users, Done(u)
    PROVE  /\ Becomes(u, change'[u]) /\ change'[u] = NoChange
           /\ change'[u] \in [stage : ChangeStages, whom : Users \cup {NoRole}, level : Levels,
                             to : Grantable \cup {NoRole}, read : MemberRoles \cup {NoRole},
                             owners : Nat]
           /\ change'[u].stage = "idle" /\ ChangeKnows(u)'
<1>1. change' = [change EXCEPT ![u] = NoChange] /\ change'[u] = NoChange
  BY DEF Done, Becomes, MembershipInv, MembershipTypeOK
<1>2. NoChange \in [stage : ChangeStages, whom : Users \cup {NoRole}, level : Levels,
                    to : Grantable \cup {NoRole}, read : MemberRoles \cup {NoRole},
                    owners : Nat]
      /\ NoChange.stage = "idle"
  BY DEF NoChange, ChangeStages, Levels
<1>3. ChangeKnows(u)'
  BY <1>1, <1>2 DEF ChangeKnows
<1>4. QED
  BY <1>1, <1>2, <1>3 DEF Becomes

LEMMA AskInv ==
    ASSUME MembershipInv, NEW u \in Users, NEW v \in Users, NEW level \in Levels,
           NEW to \in Grantable \cup {NoRole}, AskChange(u, v, level, to)
    PROVE  MembershipInv'
<1> DEFINE c == [NoChange EXCEPT !.stage = "find", !.whom = v, !.level = level, !.to = to]
<1>1. /\ c.stage = "find" /\ c.whom = v
      /\ c \in [stage : ChangeStages, whom : Users \cup {NoRole}, level : Levels,
                to : Grantable \cup {NoRole}, read : MemberRoles \cup {NoRole},
                owners : Nat]
  BY DEF NoChange, ChangeStages
<1>2. change' = [change EXCEPT ![u] = c] /\ change'[u] = c
  BY DEF AskChange, Becomes, MembershipInv, MembershipTypeOK
<1>3. changes' \in Nat /\ UNCHANGED <<role, editing, overtook>>
  BY DEF AskChange, MembershipInv, MembershipTypeOK
<1>4. ChangeKnows(u)'
  BY <1>1, <1>2 DEF ChangeKnows, OwnerRow
<1>5. QED
  BY <1>1, <1>2, <1>3, <1>4, CallMoves DEF Becomes

LEMMA FindInv ==
    ASSUME MembershipInv, NEW u \in Users, FindMembership(u)
    PROVE  MembershipInv'
<1> DEFINE c == change[u]
           r == role[c.whom][c.level]
           d == [c EXCEPT !.read = r, !.stage = IF r = "OWNER" /\ c.level = "workspace"
                                                THEN "count" ELSE "commit"]
<1>1. UNCHANGED <<role, editing, overtook>> /\ changes' \in Nat
  BY DEF FindMembership, MembershipInv, MembershipTypeOK
<1>2. CASE r = NoRole \/ r = c.to
  <2>1. Done(u)
    BY <1>2 DEF FindMembership
  <2>2. QED
    BY <1>1, <2>1, CallEnds, CallMoves
<1>3. CASE ~(r = NoRole \/ r = c.to)
  <2>1. /\ c \in [stage : ChangeStages, whom : Users \cup {NoRole}, level : Levels,
                  to : Grantable \cup {NoRole}, read : MemberRoles \cup {NoRole},
                  owners : Nat]
        /\ c.whom \in Users
    BY DEF FindMembership, MembershipInv, MembershipTypeOK, ChangeKnows
  <2>2. r \in MemberRoles /\ r # NoRole
    BY <1>3, <2>1, MembershipAssumption DEF MembershipInv, MembershipTypeOK
  <2>3. /\ d.stage = IF r = "OWNER" /\ c.level = "workspace" THEN "count" ELSE "commit"
        /\ d.read = r /\ d.level = c.level /\ d.whom = c.whom
        /\ d \in [stage : ChangeStages, whom : Users \cup {NoRole}, level : Levels,
                  to : Grantable \cup {NoRole}, read : MemberRoles \cup {NoRole},
                  owners : Nat]
    BY <2>1, <2>2 DEF ChangeStages
  <2>4. Becomes(u, d) /\ change'[u] = d
    BY <1>3 DEF FindMembership, Becomes, MembershipInv, MembershipTypeOK
  <2>5. ChangeKnows(u)'
    BY <2>1, <2>3, <2>4 DEF ChangeKnows, OwnerRow
  <2>6. QED
    BY <1>1, <2>2, <2>3, <2>4, <2>5, CallMoves
<1>4. QED
  BY <1>2, <1>3

\* The count lets a call go on for two owners or more.
LEMMA CountInv ==
    ASSUME MembershipInv, NEW u \in Users, CountOwners(u)
    PROVE  MembershipInv'
<1> DEFINE d == [change[u] EXCEPT !.stage = "commit", !.owners = Cardinality(Owners)]
<1>1. UNCHANGED <<role, editing, overtook>> /\ changes' \in Nat
  BY DEF CountOwners, MembershipInv, MembershipTypeOK
<1>2. CASE Cardinality(Owners) <= 1
  <2>1. Done(u)
    BY <1>2 DEF CountOwners
  <2>2. QED
    BY <1>1, <2>1, CallEnds, CallMoves
<1>3. CASE ~(Cardinality(Owners) <= 1)
  <2>1. /\ change[u] \in [stage : ChangeStages, whom : Users \cup {NoRole}, level : Levels,
                  to : Grantable \cup {NoRole}, read : MemberRoles \cup {NoRole},
                  owners : Nat]
        /\ change[u].stage = "count" /\ change[u].read # NoRole /\ change[u].whom \in Users
    BY DEF CountOwners, MembershipInv, MembershipTypeOK, ChangeKnows
  <2>2. /\ d.stage = "commit" /\ d.read = change[u].read /\ d.whom = change[u].whom
        /\ d.owners = Cardinality(Owners)
        /\ d \in [stage : ChangeStages, whom : Users \cup {NoRole}, level : Levels,
                  to : Grantable \cup {NoRole}, read : MemberRoles \cup {NoRole},
                  owners : Nat]
    BY <2>1, Finite DEF ChangeStages
  <2>3. Becomes(u, d) /\ change'[u] = d
    BY <1>3 DEF CountOwners, Becomes, MembershipInv, MembershipTypeOK
  <2>4. ChangeKnows(u)'
    BY <1>3, <2>1, <2>2, <2>3, Finite DEF ChangeKnows
  <2>5. QED
    BY <1>1, <2>1, <2>2, <2>3, <2>4, CallMoves
<1>4. QED
  BY <1>2, <1>3

-----------------------------------------------------------------------------
\* What a write does to the rows: only the one it is for changes.
LEMMA RowWritten ==
    ASSUME MembershipTypeOK, NEW v \in Users, NEW level \in Levels,
           NEW to \in MemberRoles \cup {NoRole}, role' = [role EXCEPT ![v][level] = to]
    PROVE  /\ role' \in [Users -> [Levels -> MemberRoles \cup {NoRole}]]
           /\ role'[v][level] = to
           /\ \A w \in Users : \A l \in Levels :
                 w # v \/ l # level => role'[w][l] = role[w][l]
<1>1. role[v] \in [Levels -> MemberRoles \cup {NoRole}]
  BY DEF MembershipTypeOK
<1>2. role' = [role EXCEPT ![v] = [role[v] EXCEPT ![level] = to]]
  OBVIOUS
<1>3. role'[v] = [role[v] EXCEPT ![level] = to]
      /\ role'[v] \in [Levels -> MemberRoles \cup {NoRole}]
  BY <1>1, <1>2 DEF MembershipTypeOK
<1>4. QED
  BY <1>1, <1>2, <1>3 DEF MembershipTypeOK

\* A write that finds what its call had looked at leaves an owner: it was for no owner of
\* the workspace, or for one of at least two.
LEMMA WriteLeavesOwner ==
    ASSUME MembershipInv, NEW u \in Users, CommitChange(u), ~overtook'
    PROVE  Owners' # {}
<1> DEFINE c == change[u]
<1>1. /\ c.whom \in Users /\ c.level \in Levels /\ c.to \in MemberRoles \cup {NoRole}
      /\ c.owners \in Nat /\ (OwnerRow(u) => c.owners >= 2)
  BY MembershipAssumption DEF CommitChange, MembershipInv, MembershipTypeOK, ChangeKnows
<1>2. CASE role[c.whom][c.level] = NoRole
  <2>1. CASE UNCHANGED <<role, overtook>>
    BY <2>1 DEF MembershipInv, OwnerLeft, Owners
  <2>2. QED
    BY <1>2, <2>1 DEF CommitChange
<1>3. CASE role[c.whom][c.level] # NoRole
  <2>1. /\ role' = [role EXCEPT ![c.whom][c.level] = c.to]
        /\ ~overtook /\ role[c.whom][c.level] = c.read
        /\ c.owners \in {0, Cardinality(Owners)}
    BY <1>3 DEF CommitChange, MembershipInv, MembershipTypeOK
  <2>2. \A w \in Users : w # c.whom \/ c.level # "workspace"
                            => role'[w]["workspace"] = role[w]["workspace"]
    BY <1>1, <2>1, RowWritten DEF MembershipInv, Levels
  <2>3. Owners # {}
    BY <2>1 DEF MembershipInv, OwnerLeft
  <2>4. CASE ~OwnerRow(u)
    <3>1. PICK w \in Users : role[w]["workspace"] = "OWNER"
      BY <2>3 DEF Owners
    <3>2. w # c.whom \/ c.level # "workspace"
      BY <2>1, <2>4, <3>1 DEF OwnerRow
    <3>3. QED
      BY <2>2, <3>1, <3>2 DEF Owners
  <2>5. CASE OwnerRow(u)
    <3>1. Cardinality(Owners) >= 2
      BY <1>1, <2>1, <2>5
    <3>2. PICK w \in Owners : w # c.whom
      <4>1. SUFFICES ASSUME Owners \subseteq {c.whom} PROVE FALSE
        BY DEF Owners
      <4>2. Cardinality({c.whom}) = 1 /\ IsFiniteSet({c.whom})
        BY FS_Singleton
      <4>3. QED
        BY <3>1, <4>1, <4>2, Finite, FS_Subset
    <3>3. QED
      BY <2>2, <3>2 DEF Owners
  <2>6. QED
    BY <2>4, <2>5
<1>4. QED
  BY <1>2, <1>3

LEMMA CommitInv ==
    ASSUME MembershipInv, NEW u \in Users, CommitChange(u)
    PROVE  MembershipInv'
<1> DEFINE c == change[u]
<1>0. MembershipTypeOK
  BY DEF MembershipInv
<1>1. c.whom \in Users /\ c.level \in Levels /\ c.to \in MemberRoles \cup {NoRole}
  BY MembershipAssumption DEF CommitChange, MembershipInv, MembershipTypeOK, ChangeKnows
<1>2. role' \in [Users -> [Levels -> MemberRoles \cup {NoRole}]] /\ overtook' \in BOOLEAN
  <2>1. CASE UNCHANGED <<role, overtook>>
    BY <2>1, <1>0 DEF MembershipTypeOK
  <2>2. CASE /\ role' = [role EXCEPT ![c.whom][c.level] = c.to]
             /\ overtook' = (overtook \/ role[c.whom][c.level] # c.read
                             \/ c.owners \notin {0, Cardinality(Owners)})
    <3>1. role' \in [Users -> [Levels -> MemberRoles \cup {NoRole}]]
      BY <1>0, <1>1, <2>2, RowWritten
    <3>2. overtook' \in BOOLEAN
      BY <2>2
    <3>3. QED
      BY <3>1, <3>2
  <2>3. QED
    BY <2>1, <2>2 DEF CommitChange
<1>3. Done(u) /\ UNCHANGED <<editing, changes>>
  BY DEF CommitChange
<1>4. change'[u] = NoChange /\ \A v \in Users : v # u => change'[v] = change[v]
  BY <1>0, <1>3 DEF Done, Becomes, MembershipTypeOK
<1>5. change' \in [Users -> [stage : ChangeStages, whom : Users \cup {NoRole}, level : Levels,
                             to : Grantable \cup {NoRole}, read : MemberRoles \cup {NoRole},
                             owners : Nat]]
  BY <1>0, <1>3, CallEnds DEF Done, Becomes, MembershipTypeOK
<1>6. MembershipTypeOK'
  <2>1. change'[u].stage = "idle"
    BY <1>3, CallEnds
  <2>2. \A v \in Users : change'[v].stage \in {"count", "commit"} => change'[v].read # NoRole
    BY <1>0, <1>4, <2>1 DEF MembershipTypeOK
  <2>3. QED
    BY <1>0, <1>2, <1>3, <1>5, <2>2 DEF MembershipTypeOK
<1>7. \A v \in Users : ChangeKnows(v)'
  BY <1>3, <1>4, CallEnds DEF MembershipInv, ChangeKnows, OwnerRow
<1>8. OwnerLeft'
  BY WriteLeavesOwner DEF OwnerLeft
<1>9. QED
  BY <1>6, <1>7, <1>8 DEF MembershipInv

\* Initially the founders are owners, and no call is under way.
LEMMA MembershipInitInv == MembershipInit => MembershipInv
<1> SUFFICES ASSUME MembershipInit PROVE MembershipInv
  OBVIOUS
<1>1. role \in [Users -> [Levels -> MemberRoles \cup {NoRole}]]
      /\ \A u \in Founders : role[u]["workspace"] = "OWNER"
  <2>1. ASSUME NEW a \in MemberRoles, NEW b \in MemberRoles \cup {NoRole}
        PROVE  [workspace |-> a, project |-> b] \in [Levels -> MemberRoles \cup {NoRole}]
               /\ [workspace |-> a, project |-> b]["workspace"] = a
    BY DEF Levels
  <2>2. ASSUME NEW u \in Users
        PROVE  /\ role[u] \in [Levels -> MemberRoles \cup {NoRole}]
               /\ u \in Founders => role[u]["workspace"] = "OWNER"
    BY <2>1 DEF MembershipInit, MemberRoles
  <2>3. role = [u \in Users |-> role[u]]
    BY DEF MembershipInit
  <2>4. QED
    BY <2>2, <2>3, MembershipAssumption
<1>2. MembershipTypeOK /\ \A u \in Users : ChangeKnows(u)
  BY <1>1 DEF MembershipInit, MembershipTypeOK, NoChange, ChangeStages, Levels, ChangeKnows
<1>3. Owners # {}
  BY <1>1, MembershipAssumption DEF Owners
<1>4. QED
  BY <1>2, <1>3 DEF MembershipInv, OwnerLeft

LEMMA MembershipStepInv == MembershipInv /\ [MembershipNext]_memberVars => MembershipInv'
<1> SUFFICES ASSUME MembershipInv, [MembershipNext]_memberVars PROVE MembershipInv'
  OBVIOUS
<1>1. ASSUME UNCHANGED <<role, change, changes, overtook>>, editing' \subseteq Users
      PROVE  MembershipInv'
  BY <1>1 DEF MembershipInv, MembershipTypeOK, ChangeKnows, OwnerRow, OwnerLeft, Owners
<1>2. ASSUME NEW u \in Users, Admit(u) \/ DropSession(u) PROVE MembershipInv'
  BY <1>1, <1>2 DEF Admit, DropSession, MembershipInv, MembershipTypeOK
<1>3. CASE UNCHANGED memberVars
  BY <1>1, <1>3 DEF memberVars, MembershipInv, MembershipTypeOK
<1>4. QED
  BY <1>2, <1>3, AskInv, FindInv, CountInv, CommitInv DEF MembershipNext

\* Any number of changes, of each other's roles and of one's own, leave the workspace an
\* owner, unless a call wrote over a row or a count that another call had changed since it
\* looked (members.ts:39-51, 105-110).
THEOREM AnOwnerIsLeft == MembershipSpec => []OwnersRemain
<1>1. MembershipInv => OwnersRemain
  BY DEF MembershipInv, OwnersRemain
<1>2. QED
  BY <1>1, MembershipInitInv, MembershipStepInv, PTL DEF MembershipSpec

-----------------------------------------------------------------------------
(***************************************************************************)
(* PullRequests.                                                           *)
(***************************************************************************)

\* The states of the pull request that deliveries and handlers speak of.
ToldOf == sent \cup {h.pr : h \in handlers}

\* The rows a handler is still to write, and will find.
Outstanding(h) == h.todo \ h.gone

\* What is said of the pull request is of a version it has had, and of its present one it
\* is what it is; links were made at a version it has had.
ToldInOrder ==
    /\ \A e \in ToldOf : e.version \in 1 .. pull.version /\ (e.version = pull.version => e = pull)
    /\ \A d \in Linkers : link[d] # NoLink => link[d].since <= pull.version

\* A handler knows of the rows that have gone since it read them.
RowsAreThere == \A h \in handlers : \A d \in Outstanding(h) : link[d] # NoLink

\* Without trouble the last delivery of all is the last to be handled.
LastComesLast ==
    ~astray => /\ pull \in sent \/ sent = {}
               /\ (\E h \in handlers : h.pr = pull) => sent = {}

\* A link shows the pull request, and nothing under way speaks of an older state.
ShowsPull(d) ==
    /\ link[d].seen = pull.version /\ link[d].state = PrState(pull)
    /\ sent = {} /\ \A h \in handlers : h.pr = pull

\* The state of the pull request is under way to a link, or is shown by it.
WillShow(d) ==
    \/ pull \in sent
    \/ \E h \in handlers : h.pr = pull /\ d \in Outstanding(h)
    \/ ShowsPull(d)

LinksWillShow ==
    ~astray => \A d \in Linkers : link[d] # NoLink /\ link[d].since < pull.version => WillShow(d)

\* The inductive invariant.
PullsInv ==
    /\ PullRequestsTypeOK
    /\ ToldInOrder
    /\ RowsAreThere
    /\ LastComesLast
    /\ LinksWillShow

\* The fields of a row, which is not "no link".
LEMMA LinkFacts ==
    ASSUME PullRequestsTypeOK, NEW d \in Linkers, link[d] # NoLink
    PROVE  /\ link[d] \in Link /\ link[d].seen \in Nat /\ link[d].since \in Nat
           /\ link[d].seen <= pull.version
BY DEF PullRequestsTypeOK, Link

\* What the types say of the pull request, the deliveries and the handlers.
LEMMA PullFacts ==
    ASSUME PullRequestsTypeOK
    PROVE  /\ pull \in PullRequest /\ pull.version \in Nat /\ (pull.merged => ~pull.open)
           /\ \A e \in ToldOf : e \in PullRequest /\ e.version \in Nat
           /\ \A h \in handlers : /\ h.pr \in PullRequest /\ h.pr.version \in Nat
                                  /\ h.todo \subseteq Linkers /\ h.todo # {}
                                  /\ h.gone \subseteq h.todo
BY DEF PullRequestsTypeOK, PullRequest, ToldOf

LEMMA PullsInitInv == PullRequestsInit => PullsInv
<1> SUFFICES ASSUME PullRequestsInit PROVE PullsInv
  OBVIOUS
<1>1. /\ sent = {} /\ handlers = {} /\ ~astray /\ pull.version = 0
      /\ \A d \in Linkers : link[d] = NoLink
  BY DEF PullRequestsInit
<1>2. PullRequestsTypeOK
  <2>1. pull \in PullRequest /\ pull.merged = FALSE
    <3>1. PICK b \in BOOLEAN : pull = [open |-> TRUE, draft |-> b, merged |-> FALSE, version |-> 0]
      BY DEF PullRequestsInit
    <3>2. QED
      BY <3>1 DEF PullRequest
  <2>2. QED
    BY <1>1, <2>1 DEF PullRequestsInit, PullRequestsTypeOK
<1>3. QED
  BY <1>1, <1>2 DEF PullsInv, ToldInOrder, RowsAreThere, LastComesLast, LinksWillShow, ToldOf

\* The pull request changes: its delivery is under way, so that every link will show it,
\* and all that was said of it before is of a version before.
LEMMA ChangesInv ==
    ASSUME PullsInv, PullRequestChanges PROVE PullsInv'
<1>0. PullRequestsTypeOK
  BY DEF PullsInv
<1>1. /\ pull' \in PullRequest /\ pull'.version = pull.version + 1
      /\ (pull'.merged => ~pull'.open) /\ sent' = sent \cup {pull'}
      /\ UNCHANGED <<handlers, link, astray, handled>>
  <2>1. PICK pr \in [open : BOOLEAN, draft : BOOLEAN, merged : BOOLEAN,
                     version : {pull.version + 1}] :
             (pr.merged => ~pr.open) /\ pull' = pr /\ sent' = sent \cup {pr}
    BY DEF PullRequestChanges
  <2>2. pr \in PullRequest /\ pr.version = pull.version + 1
    BY <1>0, PullFacts DEF PullRequest
  <2>3. QED
    BY <2>1, <2>2 DEF PullRequestChanges
<1>2. PullRequestsTypeOK'
  <2>1. \A d \in Linkers : link[d] # NoLink => link[d].seen <= pull'.version
    BY <1>0, <1>1, LinkFacts, PullFacts
  <2>2. QED
    BY <1>0, <1>1, <2>1 DEF PullRequestsTypeOK
<1>3. ToldInOrder'
  <2>1. ToldOf' = ToldOf \cup {pull'}
    BY <1>1 DEF ToldOf
  <2>2. \A e \in ToldOf : e.version \in 1 .. pull'.version /\ e.version # pull'.version
    BY <1>0, <1>1, PullFacts DEF PullsInv, ToldInOrder
  <2>3. pull'.version \in 1 .. pull'.version
    BY <1>0, <1>1, PullFacts
  <2>4. \A d \in Linkers : link[d] # NoLink => link[d].since <= pull'.version
    BY <1>0, <1>1, LinkFacts, PullFacts DEF PullsInv, ToldInOrder
  <2>5. QED
    BY <1>1, <2>1, <2>2, <2>3, <2>4 DEF ToldInOrder
<1>4. RowsAreThere'
  BY <1>1 DEF PullsInv, RowsAreThere, Outstanding
<1>5. LastComesLast'
  <2>1. \A h \in handlers : h.pr # pull'
    BY <1>0, <1>1, PullFacts DEF PullsInv, ToldInOrder, ToldOf
  <2>2. QED
    BY <1>1, <2>1 DEF LastComesLast
<1>6. LinksWillShow'
  BY <1>1 DEF LinksWillShow, WillShow
<1>7. QED
  BY <1>2, <1>3, <1>4, <1>5, <1>6 DEF PullsInv

\* A delivery is lost: from there on nothing is promised but the types.
LEMMA LoseInv ==
    ASSUME PullsInv, NEW e \in sent, LoseDelivery(e) PROVE PullsInv'
<1>1. /\ sent' \subseteq sent /\ astray' = TRUE
      /\ UNCHANGED <<pull, handlers, link, handled>>
  BY DEF LoseDelivery
<1>2. PullRequestsTypeOK'
  BY <1>1 DEF PullsInv, PullRequestsTypeOK
<1>3. ToldInOrder'
  BY <1>1 DEF PullsInv, ToldInOrder, ToldOf
<1>4. QED
  BY <1>1, <1>2, <1>3 DEF PullsInv, RowsAreThere, Outstanding, LastComesLast, LinksWillShow

\* A new link will show the next change of the pull request, not the last one.
LEMMA LinkInv ==
    ASSUME PullsInv, NEW d \in Linkers, LinkPullRequest(d) PROVE PullsInv'
<1> DEFINE new == [state |-> "OPEN", seen |-> 0, since |-> pull.version]
<1>0. PullRequestsTypeOK
  BY DEF PullsInv
<1>1. /\ link[d] = NoLink /\ link' = [link EXCEPT ![d] = new]
      /\ UNCHANGED <<pull, sent, handlers, astray, handled>>
  BY DEF LinkPullRequest
<1>2. new \in Link /\ new.seen = 0 /\ new.since = pull.version /\ new # NoLink
  <2>1. pull.version \in Nat
    BY <1>0, PullFacts
  <2>2. new \in Link
    BY <2>1 DEF Link
  <2>3. QED
    BY <2>2, PullRequestsAssumption
<1>3. /\ link'[d] = new
      /\ \A c \in Linkers : c # d => link'[c] = link[c]
      /\ link' \in [Linkers -> {NoLink} \cup Link]
  BY <1>0, <1>1, <1>2 DEF PullRequestsTypeOK
<1>4. 0 <= pull.version /\ pull.version <= pull.version /\ ~(pull.version < pull.version)
  BY <1>0, PullFacts
<1>5. PullRequestsTypeOK'
  <2>1. \A c \in Linkers : link'[c] # NoLink => link'[c].seen <= pull.version
    BY <1>0, <1>2, <1>3, <1>4 DEF PullRequestsTypeOK
  <2>2. QED
    BY <1>0, <1>1, <1>3, <2>1 DEF PullRequestsTypeOK
<1>6. ToldInOrder'
  <2>1. \A c \in Linkers : link'[c] # NoLink => link'[c].since <= pull.version
    BY <1>2, <1>3, <1>4 DEF PullsInv, ToldInOrder
  <2>2. QED
    BY <1>1, <2>1 DEF PullsInv, ToldInOrder, ToldOf
<1>7. RowsAreThere'
  <2>1. \A h \in handlers : Outstanding(h) \subseteq Linkers
    BY <1>0, PullFacts DEF Outstanding
  <2>2. QED
    BY <1>1, <1>2, <1>3, <2>1 DEF PullsInv, RowsAreThere, Outstanding
<1>8. LastComesLast'
  BY <1>1 DEF PullsInv, LastComesLast
<1>9. LinksWillShow'
  <2> SUFFICES ASSUME ~astray, NEW c \in Linkers, link'[c] # NoLink,
                      link'[c].since < pull.version
               PROVE  WillShow(c)'
    BY <1>1 DEF LinksWillShow
  <2>1. c # d
    BY <1>2, <1>3, <1>4
  <2>2. WillShow(c) /\ link'[c] = link[c]
    BY <1>3, <2>1 DEF PullsInv, LinksWillShow
  <2>3. QED
    BY <1>1, <2>2 DEF WillShow, ShowsPull, Outstanding
<1>10. QED
  BY <1>5, <1>6, <1>7, <1>8, <1>9 DEF PullsInv

\* A row goes, and the handlers that had read it will not find it; the others have their
\* rows still.
LEMMA UnlinkInv ==
    ASSUME PullsInv, NEW d \in Linkers, UnlinkPullRequest(d) PROVE PullsInv'
<1> DEFINE F(h) == [h EXCEPT !.gone = @ \cup ({d} \cap h.todo)]
<1>0. PullRequestsTypeOK
  BY DEF PullsInv
<1>1. /\ link' = [link EXCEPT ![d] = NoLink] /\ handlers' = {F(h) : h \in handlers}
      /\ UNCHANGED <<pull, sent, astray, handled>>
  BY DEF UnlinkPullRequest
<1>2. /\ link'[d] = NoLink
      /\ \A c \in Linkers : c # d => link'[c] = link[c]
      /\ link' \in [Linkers -> {NoLink} \cup Link]
  BY <1>0, <1>1 DEF PullRequestsTypeOK
<1>3. ASSUME NEW h \in handlers
      PROVE  /\ F(h) \in handlers'
             /\ F(h) \in [pr : PullRequest, todo : SUBSET Linkers, gone : SUBSET Linkers]
             /\ F(h).pr = h.pr /\ F(h).todo = h.todo /\ F(h).gone = h.gone \cup ({d} \cap h.todo)
             /\ F(h).todo # {} /\ F(h).gone \subseteq F(h).todo
             /\ Outstanding(F(h)) = Outstanding(h) \ {d}
  <2>1. h \in [pr : PullRequest, todo : SUBSET Linkers, gone : SUBSET Linkers]
        /\ h.todo # {} /\ h.gone \subseteq h.todo
    BY <1>0 DEF PullRequestsTypeOK
  <2>2. F(h).pr = h.pr /\ F(h).todo = h.todo /\ F(h).gone = h.gone \cup ({d} \cap h.todo)
        /\ F(h) \in [pr : PullRequest, todo : SUBSET Linkers, gone : SUBSET Linkers]
    BY <2>1
  <2>3. QED
    BY <1>1, <2>1, <2>2 DEF Outstanding
<1>4. \A g \in handlers' : \E h \in handlers : g = F(h)
  BY <1>1
<1>5. PullRequestsTypeOK'
  <2>1. \A c \in Linkers : link'[c] # NoLink => link'[c].seen <= pull.version
    BY <1>0, <1>2 DEF PullRequestsTypeOK
  <2>2. /\ handlers' \subseteq [pr : PullRequest, todo : SUBSET Linkers, gone : SUBSET Linkers]
        /\ \A g \in handlers' : g.todo # {} /\ g.gone \subseteq g.todo
    BY <1>3, <1>4
  <2>3. QED
    BY <1>0, <1>1, <1>2, <2>1, <2>2 DEF PullRequestsTypeOK
<1>6. ToldInOrder'
  <2>1. ToldOf' \subseteq ToldOf
    BY <1>1, <1>3, <1>4 DEF ToldOf
  <2>2. \A c \in Linkers : link'[c] # NoLink => link'[c].since <= pull.version
    BY <1>2 DEF PullsInv, ToldInOrder
  <2>3. QED
    BY <1>1, <2>1, <2>2 DEF PullsInv, ToldInOrder
<1>7. RowsAreThere'
  <2> SUFFICES ASSUME NEW g \in handlers', NEW c \in Outstanding(g) PROVE link'[c] # NoLink
    BY DEF RowsAreThere, Outstanding
  <2>1. PICK h \in handlers : g = F(h)
    BY <1>4
  <2>2. c \in Outstanding(h) /\ c # d /\ c \in Linkers
    BY <1>0, <1>3, <2>1, PullFacts DEF Outstanding
  <2>3. QED
    BY <1>2, <2>2 DEF PullsInv, RowsAreThere
<1>8. LastComesLast'
  BY <1>1, <1>3, <1>4 DEF PullsInv, LastComesLast
<1>9. LinksWillShow'
  <2> SUFFICES ASSUME ~astray, NEW c \in Linkers, link'[c] # NoLink,
                      link'[c].since < pull.version
               PROVE  WillShow(c)'
    BY <1>1 DEF LinksWillShow
  <2>1. c # d /\ link'[c] = link[c] /\ WillShow(c)
    BY <1>2 DEF PullsInv, LinksWillShow
  <2>2. CASE pull \in sent
    BY <1>1, <2>2 DEF WillShow
  <2>3. ASSUME NEW h \in handlers, h.pr = pull, c \in Outstanding(h) PROVE WillShow(c)'
    <3>1. F(h) \in handlers' /\ F(h).pr = pull /\ c \in Outstanding(F(h))
      BY <1>3, <2>1, <2>3
    <3>2. QED
      BY <1>1, <3>1 DEF WillShow, Outstanding
  <2>4. CASE ShowsPull(c)
    BY <1>1, <1>3, <1>4, <2>1, <2>4 DEF WillShow, ShowsPull
  <2>5. QED
    BY <2>1, <2>2, <2>3, <2>4 DEF WillShow
<1>10. QED
  BY <1>5, <1>6, <1>7, <1>8, <1>9 DEF PullsInv

\* A delivery is received.  If it is the last, and nothing older is on its way, the links
\* there are now are the ones its handler has to write.
LEMMA ReceiveInv ==
    ASSUME PullsInv, NEW e \in sent, Receive(e) PROVE PullsInv'
<1> DEFINE links == {d \in Linkers : link[d] # NoLink}
           new == [pr |-> e, todo |-> links, gone |-> {}]
<1>0. PullRequestsTypeOK
  BY DEF PullsInv
<1>1. /\ handlers' = IF links = {} THEN handlers ELSE handlers \cup {new}
      /\ handled' = handled + 1
      /\ \/ sent' = sent \ {e} /\ astray' = (astray \/ \E f \in sent : f.version < e.version)
         \/ sent' = sent /\ astray' = TRUE
      /\ UNCHANGED <<pull, link>>
  BY DEF Receive
<1>2. /\ new \in [pr : PullRequest, todo : SUBSET Linkers, gone : SUBSET Linkers]
      /\ new.pr = e /\ new.todo = links /\ new.gone = {} /\ Outstanding(new) = links
  BY <1>0 DEF PullRequestsTypeOK, Outstanding
<1>3. /\ handlers \subseteq handlers' /\ \A g \in handlers' : g \in handlers \/ g = new
      /\ (links # {} => new \in handlers')
  BY <1>1
<1>4. sent' \subseteq sent /\ astray' \in BOOLEAN
  BY <1>0, <1>1 DEF PullRequestsTypeOK
<1>5. PullRequestsTypeOK'
  <2>1. /\ handlers' \subseteq [pr : PullRequest, todo : SUBSET Linkers, gone : SUBSET Linkers]
        /\ \A g \in handlers' : g.todo # {} /\ g.gone \subseteq g.todo
    <3>1. CASE links = {}
      BY <1>0, <1>1, <3>1 DEF PullRequestsTypeOK
    <3>2. CASE links # {}
      BY <1>0, <1>2, <1>3, <3>2 DEF PullRequestsTypeOK
    <3>3. QED
      BY <3>1, <3>2
  <2>2. handled' \in Nat
    BY <1>0, <1>1 DEF PullRequestsTypeOK
  <2>3. QED
    BY <1>0, <1>1, <1>4, <2>1, <2>2 DEF PullRequestsTypeOK
<1>6. ToldInOrder'
  <2>1. ToldOf' \subseteq ToldOf
    BY <1>2, <1>3, <1>4 DEF ToldOf
  <2>2. QED
    BY <1>1, <2>1 DEF PullsInv, ToldInOrder
<1>7. RowsAreThere'
  BY <1>1, <1>2, <1>3 DEF PullsInv, RowsAreThere, Outstanding
<1>8. ASSUME ~astray' PROVE ~astray /\ sent' = sent \ {e} /\ (e = pull => sent' = {})
  <2>1. ~astray /\ sent' = sent \ {e} /\ ~\E f \in sent : f.version < e.version
    BY <1>0, <1>1, <1>8 DEF PullRequestsTypeOK
  <2>2. ASSUME e = pull, NEW f \in sent PROVE f = e
    <3>1. f.version <= pull.version /\ f.version \in Nat /\ pull.version \in Nat
          /\ (f.version = pull.version => f = pull)
      BY <1>0, PullFacts DEF PullsInv, ToldInOrder, ToldOf
    <3>2. ~(f.version < pull.version)
      BY <2>1, <2>2
    <3>3. QED
      BY <2>2, <3>1, <3>2
  <2>3. QED
    BY <2>1, <2>2
<1>9. LastComesLast'
  <2> SUFFICES ASSUME ~astray'
               PROVE  /\ pull \in sent' \/ sent' = {}
                      /\ (\E h \in handlers' : h.pr = pull) => sent' = {}
    BY <1>1 DEF LastComesLast
  <2>1. pull \in sent' \/ sent' = {}
    BY <1>8 DEF PullsInv, LastComesLast
  <2>2. ASSUME NEW h \in handlers', h.pr = pull PROVE sent' = {}
    BY <1>2, <1>3, <1>4, <1>8, <2>2 DEF PullsInv, LastComesLast
  <2>3. QED
    BY <2>1, <2>2
<1>10. LinksWillShow'
  <2> SUFFICES ASSUME ~astray', NEW c \in Linkers, link[c] # NoLink,
                      link[c].since < pull.version
               PROVE  WillShow(c)'
    BY <1>1 DEF LinksWillShow
  <2>1. WillShow(c) /\ sent' = sent \ {e}
    BY <1>8 DEF PullsInv, LinksWillShow
  <2>2. CASE pull \in sent /\ e # pull
    BY <1>1, <2>1, <2>2 DEF WillShow
  <2>3. CASE e = pull
    <3>1. new \in handlers' /\ new.pr = pull /\ c \in Outstanding(new)
      BY <1>2, <1>3, <2>3
    <3>2. QED
      BY <1>1, <3>1 DEF WillShow, Outstanding
  <2>4. ASSUME NEW h \in handlers, h.pr = pull, c \in Outstanding(h) PROVE WillShow(c)'
    BY <1>1, <1>3, <2>4 DEF WillShow, Outstanding
  <2>5. QED
    BY <2>1, <2>2, <2>3, <2>4 DEF WillShow, ShowsPull
<1>11. QED
  BY <1>5, <1>6, <1>7, <1>9, <1>10 DEF PullsInv

\* A handler writes a row, or stops at one that has gone.
LEMMA ReflectGone ==
    ASSUME PullsInv, NEW h \in handlers, handlers' = handlers \ {h}, astray' = TRUE,
           UNCHANGED <<pull, sent, handled, link>>
    PROVE  PullsInv'
<1>1. PullRequestsTypeOK'
  BY DEF PullsInv, PullRequestsTypeOK
<1>2. ToldInOrder'
  BY DEF PullsInv, ToldInOrder, ToldOf
<1>3. QED
  BY <1>1, <1>2 DEF PullsInv, RowsAreThere, Outstanding, LastComesLast, LinksWillShow

\* If what it writes is of the last version, so is what all others will write; if it is
\* of an older one, the last is still to come.
LEMMA ReflectRow ==
    ASSUME PullsInv, NEW h \in handlers, NEW d \in Linkers, d \in Outstanding(h),
           link' = [link EXCEPT ![d].state = PrState(h.pr), ![d].seen = h.pr.version],
           handlers' = (handlers \ {h}) \cup
                          IF h.todo = {d} THEN {} ELSE {[h EXCEPT !.todo = @ \ {d}]},
           astray' = (astray \/ \E g \in handlers : g.pr.version < h.pr.version),
           UNCHANGED <<pull, sent, handled>>
    PROVE  PullsInv'
<1> DEFINE rest == [h EXCEPT !.todo = @ \ {d}]
<1>0. PullRequestsTypeOK
  BY DEF PullsInv
<1>1. /\ h \in [pr : PullRequest, todo : SUBSET Linkers, gone : SUBSET Linkers]
      /\ h.gone \subseteq h.todo /\ d \in h.todo /\ d \notin h.gone
  BY <1>0 DEF PullRequestsTypeOK, Outstanding
<1>2. /\ rest \in [pr : PullRequest, todo : SUBSET Linkers, gone : SUBSET Linkers]
      /\ rest.pr = h.pr /\ rest.todo = h.todo \ {d} /\ rest.gone = h.gone
      /\ rest.gone \subseteq rest.todo /\ Outstanding(rest) = Outstanding(h) \ {d}
  <2>1. /\ rest \in [pr : PullRequest, todo : SUBSET Linkers, gone : SUBSET Linkers]
        /\ rest.pr = h.pr /\ rest.todo = h.todo \ {d} /\ rest.gone = h.gone
    BY <1>1
  <2>2. QED
    BY <1>1, <2>1 DEF Outstanding
<1>3. /\ \A g \in handlers : g # h => g \in handlers'
      /\ \A g \in handlers' : g \in handlers \/ (g = rest /\ g.todo # {})
      /\ (h.todo # {d} => rest \in handlers')
  BY <1>1, <1>2
<1>4. h.pr.version \in Nat /\ h.pr.version <= pull.version /\ pull.version \in Nat
      /\ (h.pr.version = pull.version => h.pr = pull)
  BY <1>0, PullFacts DEF PullsInv, ToldInOrder, ToldOf
<1>5. PrState(h.pr) \in {"OPEN", "CLOSED", "MERGED", "DRAFT"}
  BY DEF PrState
<1>6. link[d] # NoLink /\ link[d] \in Link
  BY <1>0, LinkFacts DEF PullsInv, RowsAreThere
<1>7. /\ link' \in [Linkers -> {NoLink} \cup Link]
      /\ link'[d].state = PrState(h.pr) /\ link'[d].seen = h.pr.version
      /\ link'[d].since = link[d].since /\ link'[d] # NoLink
      /\ \A c \in Linkers : c # d => link'[c] = link[c]
  <2> DEFINE r == [[link[d] EXCEPT !.state = PrState(h.pr)] EXCEPT !.seen = h.pr.version]
  <2>1. r \in Link /\ r.state = PrState(h.pr) /\ r.seen = h.pr.version /\ r.since = link[d].since
    BY <1>4, <1>5, <1>6 DEF Link
  <2>2. r # NoLink
    BY <2>1, PullRequestsAssumption
  <2>3. /\ link' = [link EXCEPT ![d] = r] /\ link'[d] = r
        /\ \A c \in Linkers : c # d => link'[c] = link[c]
    BY <1>0 DEF PullRequestsTypeOK
  <2>4. link' \in [Linkers -> {NoLink} \cup Link]
    BY <1>0, <2>1, <2>3 DEF PullRequestsTypeOK
  <2>5. QED
    BY <2>1, <2>2, <2>3, <2>4
<1>8. PullRequestsTypeOK'
  <2>1. /\ handlers' \subseteq [pr : PullRequest, todo : SUBSET Linkers, gone : SUBSET Linkers]
        /\ \A g \in handlers' : g.todo # {} /\ g.gone \subseteq g.todo
    BY <1>0, <1>2, <1>3 DEF PullRequestsTypeOK
  <2>2. \A c \in Linkers : link'[c] # NoLink => link'[c].seen <= pull.version
    BY <1>0, <1>4, <1>7 DEF PullRequestsTypeOK
  <2>3. astray' \in BOOLEAN
    BY <1>0 DEF PullRequestsTypeOK
  <2>4. QED
    BY <1>0, <1>7, <2>1, <2>2, <2>3 DEF PullRequestsTypeOK
<1>9. ToldInOrder'
  <2>1. ToldOf' \subseteq ToldOf
    BY <1>2, <1>3 DEF ToldOf
  <2>2. \A c \in Linkers : link'[c] # NoLink => link'[c].since <= pull.version
    BY <1>6, <1>7 DEF PullsInv, ToldInOrder
  <2>3. QED
    BY <2>1, <2>2 DEF PullsInv, ToldInOrder
<1>10. RowsAreThere'
  <2> SUFFICES ASSUME NEW g \in handlers', NEW c \in Outstanding(g) PROVE link'[c] # NoLink
    BY DEF RowsAreThere, Outstanding
  <2>1. c \in Linkers /\ link[c] # NoLink
    BY <1>0, <1>2, <1>3, PullFacts DEF PullsInv, RowsAreThere, Outstanding
  <2>2. QED
    BY <1>7, <2>1
<1>11. ASSUME ~astray' PROVE ~astray /\ \A g \in handlers : ~(g.pr.version < h.pr.version)
  BY <1>0, <1>11 DEF PullRequestsTypeOK
<1>12. LastComesLast'
  BY <1>2, <1>3, <1>11 DEF PullsInv, LastComesLast
<1>13. LinksWillShow'
  <2> SUFFICES ASSUME ~astray', NEW c \in Linkers, link'[c] # NoLink,
                      link'[c].since < pull.version
               PROVE  WillShow(c)'
    BY DEF LinksWillShow
  <2>1. link[c] # NoLink /\ link[c].since < pull.version /\ WillShow(c)
    <3>1. link[c] # NoLink /\ link[c].since = link'[c].since
      BY <1>6, <1>7
    <3>2. QED
      BY <1>11, <3>1 DEF PullsInv, LinksWillShow
  <2>2. CASE h.pr = pull
    <3>1. \A g \in handlers : g.pr = pull
      <4> SUFFICES ASSUME NEW g \in handlers PROVE g.pr = pull
        OBVIOUS
      <4>1. g.pr.version \in Nat /\ g.pr.version <= pull.version
            /\ (g.pr.version = pull.version => g.pr = pull)
        BY <1>0, PullFacts DEF PullsInv, ToldInOrder, ToldOf
      <4>2. ~(g.pr.version < pull.version)
        BY <1>11, <2>2
      <4>3. QED
        BY <1>4, <4>1, <4>2
    <3>2. sent = {} /\ \A g \in handlers' : g.pr = pull
      BY <1>2, <1>3, <1>11, <2>2, <3>1 DEF PullsInv, LastComesLast
    <3>3. CASE c = d
      BY <1>7, <2>2, <3>2, <3>3 DEF WillShow, ShowsPull
    <3>4. CASE c # d
      <4>1. pull \notin sent /\ link'[c] = link[c]
        BY <1>7, <3>2, <3>4
      <4>2. ASSUME NEW g \in handlers, c \in Outstanding(g) PROVE WillShow(c)'
        <5>1. CASE g # h
          BY <1>3, <3>1, <4>2, <5>1 DEF WillShow, Outstanding
        <5>2. CASE g = h
          <6>1. c \in Outstanding(rest) /\ rest \in handlers'
            BY <1>2, <1>3, <3>4, <4>2, <5>2 DEF Outstanding
          <6>2. QED
            BY <1>2, <2>2, <6>1 DEF WillShow, Outstanding
        <5>3. QED
          BY <5>1, <5>2
      <4>3. CASE ShowsPull(c)
        BY <3>2, <4>1, <4>3 DEF WillShow, ShowsPull
      <4>4. QED
        BY <2>1, <4>1, <4>2, <4>3 DEF WillShow
    <3>5. QED
      BY <3>3, <3>4
  <2>3. CASE h.pr # pull
    <3>1. CASE pull \in sent
      BY <3>1 DEF WillShow
    <3>2. ASSUME NEW g \in handlers, g.pr = pull, c \in Outstanding(g) PROVE WillShow(c)'
      <4>1. g \in handlers'
        BY <1>3, <2>3, <3>2
      <4>2. QED
        BY <3>2, <4>1 DEF WillShow, Outstanding
    <3>3. ~ShowsPull(c)
      BY <2>3 DEF ShowsPull
    <3>4. QED
      BY <2>1, <3>1, <3>2, <3>3 DEF WillShow
  <2>4. QED
    BY <2>2, <2>3
<1>14. QED
  BY <1>8, <1>9, <1>10, <1>12, <1>13 DEF PullsInv

LEMMA ReflectInv ==
    ASSUME PullsInv, NEW h \in handlers, NEW d \in Linkers, Reflect(h, d) PROVE PullsInv'
BY ReflectRow, ReflectGone DEF Reflect, Outstanding

LEMMA PullsStepInv == PullsInv /\ [PullRequestsNext]_prVars => PullsInv'
<1> SUFFICES ASSUME PullsInv, [PullRequestsNext]_prVars PROVE PullsInv'
  OBVIOUS
<1>1. CASE UNCHANGED prVars
  BY <1>1 DEF prVars, PullsInv, PullRequestsTypeOK, ToldInOrder, ToldOf, RowsAreThere,
              Outstanding, LastComesLast, LinksWillShow, WillShow, ShowsPull
<1>2. CASE PullRequestsNext
  BY <1>2, ChangesInv, LoseInv, LinkInv, UnlinkInv, ReceiveInv, ReflectInv DEF PullRequestsNext
<1>3. QED
  BY <1>1, <1>2

\* Once every delivery was handled, every link that was there before the last change of the
\* pull request shows it, whatever links come and go while handlers are at work, unless a
\* delivery was lost, overtaken or repeated, or met a link that was being removed
\* (route.ts:12-17, 83-116).
THEOREM LinksCatchUp == PullRequestsSpec => []LinksFollowPulls
<1>1. PullsInv => LinksFollowPulls
  <2> SUFFICES ASSUME PullsInv, sent = {}, handlers = {}, ~astray, NEW d \in Linkers,
                      link[d] # NoLink, link[d].since < pull.version
               PROVE  link[d].seen = pull.version /\ (link[d].state = "MERGED") = pull.merged
    BY DEF PullsInv, LinksFollowPulls, LinksFollow
  <2>1. ShowsPull(d)
    BY DEF PullsInv, LinksWillShow, WillShow
  <2>2. pull.merged \in BOOLEAN
    BY DEF PullsInv, PullRequestsTypeOK, PullRequest
  <2>3. CASE pull.merged
    BY <2>1, <2>3 DEF ShowsPull, PrState
  <2>4. CASE ~pull.merged
    BY <2>1, <2>2, <2>4 DEF ShowsPull, PrState
  <2>5. QED
    BY <2>3, <2>4
<1>2. QED
  BY <1>1, PullsInitInv, PullsStepInv, PTL DEF PullRequestsSpec

-----------------------------------------------------------------------------
(***************************************************************************)
(* RateLimiter.                                                            *)
(***************************************************************************)

\* What is left in the bucket, the client has not used; and the key lapses only when what
\* came in since it was last asked for would have filled the bucket.
BucketIsCovered ==
    account # Nobody =>
        /\ account.credit >= 0
        /\ bucket # Nobody =>
              /\ bucket.tokens <= account.credit /\ bucket.ts = account.last
              /\ store = "redis" => account.last + quiet <= clock + Skew
        /\ bucket = Nobody =>
              store = "redis" /\ account.last + Capacity + Headroom <= clock + Skew

\* The inductive invariant: an account is kept only while times come in order, and times
\* are of clocks that are ahead by the skew at most.
RateInv ==
    /\ RateTypeOK
    /\ disorder => account = Nobody
    /\ \A q \in Requests :
          request[q] # Nobody => request[q].now <= clock + Ahead[request[q].at]
    /\ BucketIsCovered
    /\ RetryAfterIsEnough

\* Minimum and maximum of two numbers.
LEMMA MinOfTwo ==
    ASSUME NEW a \in Int, NEW b \in Int
    PROVE  Min({a, b}) = IF a <= b THEN a ELSE b
<1>1. \E x \in {a, b} : \A y \in {a, b} : x =< y
  OBVIOUS
<1>2. /\ Min({a, b}) \in {a, b}
      /\ \A y \in {a, b} : Min({a, b}) =< y
  BY <1>1 DEF Min
<1>3. QED
  BY <1>2

LEMMA MaxOfTwo ==
    ASSUME NEW a \in Int, NEW b \in Int
    PROVE  Max({a, b}) = IF a >= b THEN a ELSE b
<1>1. \E x \in {a, b} : \A y \in {a, b} : x >= y
  OBVIOUS
<1>2. /\ Max({a, b}) \in {a, b}
      /\ \A y \in {a, b} : Max({a, b}) >= y
  BY <1>1 DEF Max
<1>3. QED
  BY <1>2

\* A refilled bucket: what was in it and what has come since, to the brim.
LEMMA RefillFacts ==
    ASSUME NEW b \in [tokens : 0..Capacity, ts : Nat], NEW now \in Nat
    PROVE  LET come == IF now >= b.ts THEN now - b.ts ELSE 0 IN
           Refill(b, now) = [tokens |-> IF Capacity <= b.tokens + come THEN Capacity
                                        ELSE b.tokens + come,
                             ts |-> now]
<1> DEFINE come == IF now >= b.ts THEN now - b.ts ELSE 0
<1>1. b.tokens \in 0..Capacity /\ b.ts \in Nat /\ Capacity \in Nat
  BY RateAssumption
<1>2. Max({0, now - b.ts}) = come
  BY <1>1, MaxOfTwo
<1> HIDE DEF come
<1>3. come \in Nat
  BY <1>1 DEF come
<1>4. Min({Capacity, b.tokens + come})
      = IF Capacity <= b.tokens + come THEN Capacity ELSE b.tokens + come
  BY <1>1, <1>3, MinOfTwo
<1>5. QED
  BY <1>2, <1>4 DEF Refill, come

\* Seconds that are rounded up are long enough.
LEMMA RoundedUp ==
    ASSUME NEW tokens \in Nat, tokens < Cost
    PROVE  /\ RetryAfter(tokens) \in Nat
           /\ RetryAfter(tokens) * TicksPerSecond \in Nat
           /\ tokens + RetryAfter(tokens) * TicksPerSecond >= Cost
<1> DEFINE t == TicksPerSecond
           x == Cost - tokens + t - 1
<1>1. t \in Nat \ {0} /\ Cost \in Nat \ {0} /\ x \in Nat
  BY RateAssumption
<1>2. RetryAfter(tokens) = x \div t
  BY DEF RetryAfter
<1>5. x = Cost - tokens + t - 1
  OBVIOUS
<1> HIDE DEF t, x
<1>3. x \div t \in Nat /\ x % t \in 0..(t - 1)
  BY <1>1
<1>4. x = (t * (x \div t)) + (x % t)
  BY <1>1
<1> DEFINE d == x \div t
           m == x % t
           y == t * d
<1> HIDE DEF d, m
<1>6. t * d \in Nat /\ d * t = t * d
  BY <1>1, <1>3 DEF d
<1> HIDE DEF y
<1>7. y = x - m /\ m \in 0..(t - 1) /\ y \in Nat
  BY <1>1, <1>3, <1>4, <1>6 DEF d, m, y
<1>8. tokens + y >= Cost
  BY <1>1, <1>5, <1>7
<1>9. QED
  BY <1>2, <1>3, <1>6, <1>8 DEF y, d, t

LEMMA RateNobody ==
    /\ \A x \in Bucket \cup {Nobody} : x # Nobody <=> x \in Bucket
    /\ \A x \in Request \cup {Nobody} : x # Nobody <=> x \in Request
    /\ \A x \in Account \cup {Nobody} : x # Nobody <=> x \in Account
BY NobodyAssumption

\* What there is when nobody has asked is a full bucket.
LEMMA RefilledFacts ==
    ASSUME NEW b \in Bucket \cup {Nobody}, NEW now \in Nat
    PROVE  LET full == IF b = Nobody THEN [tokens |-> Capacity, ts |-> now] ELSE b
               come == IF now >= full.ts THEN now - full.ts ELSE 0
           IN /\ full \in [tokens : 0..Capacity, ts : Nat]
              /\ Refill(full, now) =
                    [tokens |-> IF Capacity <= full.tokens + come THEN Capacity
                                ELSE full.tokens + come,
                     ts |-> now]
<1> DEFINE full == IF b = Nobody THEN [tokens |-> Capacity, ts |-> now] ELSE b
<1>1. full \in [tokens : 0..Capacity, ts : Nat]
  <2>1. CASE b = Nobody
    BY <2>1, RateAssumption
  <2>2. CASE b # Nobody
    <3>1. b \in Bucket
      BY <2>2
    <3>2. b \in [tokens : 0..Capacity, ts : Nat]
      BY <3>1, RateAssumption DEF Bucket, Times
    <3>3. QED
      BY <2>2, <3>2
  <2>3. QED
    BY <2>1, <2>2
<1> HIDE DEF full
<1>2. QED
  BY <1>1, RefillFacts DEF full

\* A client that waits until told finds its token: what is there and what comes is enough.
LEMMA EnoughMeans ==
    ASSUME NEW b \in Bucket, NEW t \in Nat
    PROVE  Refill(b, t).tokens >= Cost
           <=> b.tokens + (IF t >= b.ts THEN t - b.ts ELSE 0) >= Cost
<1>1. b \in [tokens : 0..Capacity, ts : Nat]
  BY RateAssumption DEF Bucket, Times
<1> DEFINE come == IF t >= b.ts THEN t - b.ts ELSE 0
<1>2. Refill(b, t) = [tokens |-> IF Capacity <= b.tokens + come THEN Capacity
                                ELSE b.tokens + come,
                     ts |-> t]
  BY <1>1, RefillFacts
<1>3. b.tokens \in Nat /\ come \in Nat /\ Capacity >= Cost /\ Capacity \in Nat
      /\ Cost \in Nat
  BY <1>1, RateAssumption
<1> HIDE DEF come
<1>4. Refill(b, t).tokens >= Cost <=> b.tokens + come >= Cost
  BY <1>2, <1>3
<1>5. QED
  BY <1>4 DEF come

LEMMA NoBucketIsEnough ==
    ASSUME bucket = Nobody, NEW t \in Nat
    PROVE  Refilled(t).tokens >= Cost
<1>1. [tokens |-> Capacity, ts |-> t] \in [tokens : 0..Capacity, ts : Nat]
  BY RateAssumption
<1>2. Refill([tokens |-> Capacity, ts |-> t], t).tokens = Capacity
  BY <1>1, RefillFacts, RateAssumption
<1>3. QED
  BY <1>2, RateAssumption DEF Refilled

-----------------------------------------------------------------------------
\* A store answers a request.  Times are in order, and if the key had lapsed enough time
\* had gone by to fill the bucket, or the account is given up.
LEMMA ConsumeKeeps ==
    ASSUME RateInv, NEW now \in Times, Consume(now), disorder' \in BOOLEAN,
           disorder => disorder',
           ~disorder' /\ account # Nobody => now >= account.last,
           ~disorder' /\ account # Nobody /\ bucket = Nobody =>
              now >= account.last + Capacity
    PROVE  /\ bucket' \in Bucket /\ told' \in Nat
           /\ account' \in Account \cup {Nobody}
           /\ disorder' => account' = Nobody
           /\ account' # Nobody =>
                 /\ account'.credit >= 0 /\ bucket'.tokens <= account'.credit
                 /\ bucket'.ts = now /\ account'.last = now
           /\ RetryAfterIsEnough'
<1> DEFINE full == IF bucket = Nobody THEN [tokens |-> Capacity, ts |-> now] ELSE bucket
           come == IF now >= full.ts THEN now - full.ts ELSE 0
           n == IF Capacity <= full.tokens + come THEN Capacity ELSE full.tokens + come
           left == IF n >= Cost THEN n - Cost ELSE n
           spent == IF n >= Cost THEN Cost ELSE 0
           was == IF account = Nobody THEN [credit |-> Capacity, last |-> now] ELSE account
           credit == was.credit + now - was.last - spent
<1>1. /\ now \in Nat /\ Capacity \in Nat /\ Cost \in Nat \ {0} /\ Capacity >= Cost
      /\ told \in Nat
  BY RateAssumption DEF Times, RateInv, RateTypeOK
<1>2. full \in [tokens : 0..Capacity, ts : Nat] /\ Refilled(now) = [tokens |-> n, ts |-> now]
  BY <1>1, RefilledFacts DEF RateInv, RateTypeOK, Refilled
<1>3. full.tokens \in 0..Capacity /\ full.ts \in Nat /\ come \in Nat
  BY <1>1, <1>2
<1>4. n \in 0..Capacity /\ left \in 0..Capacity /\ spent \in Nat /\ n = left + spent
      /\ (n >= Cost <=> left # n)
  <2> HIDE DEF full, come
  <2>1. QED
    BY <1>1, <1>3
<1>5. Refilled(now).tokens = n
  BY <1>2
<1>6. bucket' = [tokens |-> left, ts |-> now]
  <2>1. bucket' = [Refilled(now) EXCEPT !.tokens = IF Refilled(now).tokens >= Cost
                                                  THEN @ - Cost ELSE @]
    BY DEF Consume
  <2> HIDE DEF n
  <2>2. QED
    BY <1>2, <2>1
<1>7. account' = IF disorder' THEN Nobody ELSE [credit |-> credit, last |-> now]
  <2>1. account' = IF disorder' THEN Nobody
                   ELSE [credit |-> was.credit + now - was.last
                                    - (IF Refilled(now).tokens >= Cost THEN Cost ELSE 0),
                         last |-> now]
    BY DEF Consume
  <2> HIDE DEF n, was
  <2>2. QED
    BY <1>5, <2>1
<1>8. told' = IF n >= Cost THEN 0
              ELSE IF told # 0 THEN told
              ELSE now + RetryAfter(n) * TicksPerSecond
  <2>1. told' = IF Refilled(now).tokens >= Cost THEN 0
                ELSE IF told # 0 THEN told
                ELSE now + RetryAfter(Refilled(now).tokens) * TicksPerSecond
    BY DEF Consume
  <2> HIDE DEF n
  <2>2. QED
    BY <1>5, <2>1
<1>9. was.credit \in Int /\ was.last \in Nat
  <2>1. CASE account = Nobody
    BY <1>1, <2>1
  <2>2. CASE account # Nobody
    <3>1. account \in Account
      BY <2>2 DEF RateInv, RateTypeOK
    <3>2. account.credit \in Int /\ account.last \in Nat
      BY <3>1, RateAssumption DEF Account, Times
    <3>3. QED
      BY <2>2, <3>2
  <2>3. QED
    BY <2>1, <2>2
\* The account had what the bucket has now.
<1>10. ~disorder' => was.credit + now - was.last >= n
  <2> SUFFICES ASSUME ~disorder' PROVE was.credit + now - was.last >= n
    OBVIOUS
  <2>1. CASE account = Nobody
    <3>1. was.credit = Capacity /\ was.last = now
      BY <2>1
    <3> HIDE DEF was, n
    <3>2. QED
      BY <1>1, <1>4, <3>1
  <2>2. CASE account # Nobody /\ bucket = Nobody
    <3>1. was.credit >= 0 /\ now >= was.last + Capacity
      BY <2>2 DEF RateInv, BucketIsCovered
    <3> HIDE DEF was, n
    <3>2. QED
      BY <1>1, <1>4, <1>9, <3>1
  <2>3. CASE account # Nobody /\ bucket # Nobody
    <3>1. /\ full = bucket /\ was = account /\ bucket.tokens <= account.credit
          /\ bucket.ts = account.last /\ now >= account.last
      BY <2>3 DEF RateInv, BucketIsCovered
    <3>2. come = now - was.last /\ full.tokens <= was.credit
      BY <3>1
    <3> HIDE DEF full, come, was
    <3>3. QED
      BY <1>1, <1>3, <1>9, <3>2
  <2>4. QED
    BY <2>1, <2>2, <2>3
<1> HIDE DEF was
<1>11. credit \in Int /\ (~disorder' => credit >= left)
  <2> HIDE DEF n, left, spent
  <2>1. QED
    BY <1>1, <1>4, <1>9, <1>10
<1>12. told' \in Nat
  <2>1. n < Cost => RetryAfter(n) * TicksPerSecond \in Nat
    BY <1>4, RoundedUp
  <2> HIDE DEF n
  <2>2. QED
    BY <1>1, <1>4, <1>8, <2>1
<1>13. bucket' \in Bucket
  BY <1>4, <1>6 DEF Bucket
<1>14. RetryAfterIsEnough'
  <2> SUFFICES ASSUME told' # 0 PROVE Refilled(told)'.tokens >= Cost
    BY DEF RetryAfterIsEnough
  <2>1. n < Cost /\ left = n
    BY <1>1, <1>4, <1>8
  <2>2. bucket'.tokens = n /\ bucket'.ts = now
    BY <1>6, <2>1
  <2>3. bucket' # Nobody
    BY <1>13, NobodyAssumption
  <2>4. Refilled(told)' = Refill(bucket', told')
    BY <2>3 DEF Refilled
  <2>5. n + (IF told' >= now THEN told' - now ELSE 0) >= Cost
    <3>1. CASE told = 0
      <4>1. told' = now + RetryAfter(n) * TicksPerSecond
        BY <1>8, <2>1, <3>1
      <4>2. /\ RetryAfter(n) * TicksPerSecond \in Nat
            /\ n + RetryAfter(n) * TicksPerSecond >= Cost
        BY <1>4, <2>1, RoundedUp
      <4> HIDE DEF n
      <4>3. QED
        BY <1>1, <1>4, <4>1, <4>2
    <3>2. CASE told # 0
      <4>1. told' = told /\ Refilled(told).tokens >= Cost
        BY <1>8, <2>1, <3>2 DEF RateInv, RetryAfterIsEnough
      <4>2. bucket # Nobody
        <5>1. bucket = Nobody => n = Capacity
          BY <1>1
        <5> HIDE DEF n
        <5>2. QED
          BY <1>1, <1>4, <2>1, <5>1
      <4>3. full = bucket /\ bucket \in Bucket
        BY <4>2 DEF RateInv, RateTypeOK
      <4>4. full.tokens + (IF told >= full.ts THEN told - full.ts ELSE 0) >= Cost
        BY <1>1, <4>1, <4>2, <4>3, EnoughMeans DEF Refilled
      <4> HIDE DEF full
      <4>5. n = full.tokens + come
        BY <1>1, <1>3, <2>1
      <4> HIDE DEF n
      <4>6. QED
        BY <1>1, <1>3, <1>4, <2>1, <4>1, <4>4, <4>5
    <3>3. QED
      BY <3>1, <3>2
  <2> HIDE DEF n
  <2>6. Refill(bucket', told').tokens >= Cost
    BY <1>12, <1>13, <2>2, <2>5, EnoughMeans
  <2>7. QED
    BY <2>4, <2>6
<1>15. account' \in Account \cup {Nobody} /\ (disorder' => account' = Nobody)
  <2> HIDE DEF credit
  <2>1. QED
    BY <1>7, <1>11 DEF Account
<1>16. account' # Nobody => /\ account'.credit = credit /\ account'.last = now
                           /\ ~disorder'
  <2> HIDE DEF credit
  <2>1. QED
    BY <1>7
<1>17. bucket'.tokens = left /\ bucket'.ts = now
  BY <1>6
<1> HIDE DEF credit, left
<1>18. QED
  BY <1>4, <1>11, <1>12, <1>13, <1>14, <1>15, <1>16, <1>17, RateAssumption

\* What is known of a request that is under way.
LEMMA RequestFacts ==
    ASSUME RateInv, NEW q \in Requests, request[q] # Nobody
    PROVE  /\ request[q].at \in Replicas /\ request[q].now \in Times
           /\ request[q].now <= clock + Ahead[request[q].at]
           /\ Ahead[request[q].at] \in 0..Skew
<1>1. request[q] \in Request
  BY DEF RateInv, RateTypeOK
<1>2. request[q].at \in Replicas /\ request[q].now \in Times
  BY <1>1 DEF Request
<1>3. QED
  BY <1>2, RateAssumption DEF RateInv

\* An answer ends a request, and the other requests stay.
LEMMA RequestsStay ==
    ASSUME RateInv, NEW q \in Requests, LimitAnswered(q), clock' = clock
    PROVE  /\ request' \in [Requests -> Request \cup {Nobody}]
           /\ \A p \in Requests :
                 request'[p] # Nobody => request'[p].now <= clock' + Ahead[request'[p].at]
<1>1. \A p \in Requests : request'[p] = Nobody \/ request'[p] = request[p]
  BY DEF LimitAnswered, RateInv, RateTypeOK
<1>2. request' \in [Requests -> Request \cup {Nobody}]
  BY DEF LimitAnswered, RateInv, RateTypeOK
<1>3. QED
  BY <1>1, <1>2 DEF RateInv

\* The store is not asked: nothing the invariant speaks of changes but the requests.
LEMMA OthersAnswer ==
    ASSUME RateInv, NEW q \in Requests, LimitAnswered(q),
           UNCHANGED <<clock, store, bucket, quiet, account, told, disorder>>
    PROVE  RateInv'
<1>1. RateTypeOK'
  BY RequestsStay DEF RateInv, RateTypeOK
<1>2. BucketIsCovered' /\ RetryAfterIsEnough'
  BY DEF RateInv, BucketIsCovered, RetryAfterIsEnough, Refilled
<1>3. QED
  BY <1>1, <1>2, RequestsStay DEF RateInv

LEMMA RedisStep ==
    ASSUME RateInv, NEW q \in Requests, LimitInRedis(q)
    PROVE  RateInv'
<1> DEFINE now == request[q].now
           at == request[q].at
<1>1. now \in Times /\ now <= clock + Ahead[at] /\ Ahead[at] \in 0..Skew
      /\ request[q] # Nobody /\ LimitAnswered(q) /\ UNCHANGED <<clock, store>>
  BY RequestFacts DEF LimitInRedis
<1>2. clock \in Nat /\ Skew \in Nat /\ Headroom \in Nat /\ Capacity \in Nat /\ now \in Nat
  BY <1>1, RateAssumption DEF RateInv, RateTypeOK, Times
<1>3. CASE store # "redis"
  BY <1>1, <1>3, OthersAnswer DEF LimitInRedis
<1>4. CASE store = "redis"
  <2>1. /\ disorder' = (disorder \/ OlderThanSeen(now) \/ Late(request[q]))
        /\ Consume(now) /\ quiet' = 0
    BY <1>4 DEF LimitInRedis
  <2>2. account # Nobody => account.last \in Nat
    BY RateNobody, RateAssumption DEF RateInv, RateTypeOK, Account, Times
  <2>3. ~disorder' /\ account # Nobody => now >= account.last
    <3>1. ~disorder' => ~OlderThanSeen(now)
      BY <2>1, Zenon
    <3> HIDE DEF now
    <3>2. QED
      BY <1>2, <2>2, <3>1 DEF OlderThanSeen
  <2>4. ~disorder' /\ account # Nobody /\ bucket = Nobody => now >= account.last + Capacity
    <3> SUFFICES ASSUME ~disorder', account # Nobody, bucket = Nobody
                 PROVE  now >= account.last + Capacity
      OBVIOUS
    <3>1. ~(clock - (now - Ahead[at]) + Skew > Headroom)
      BY <2>1 DEF Late
    <3>2. account.last + Capacity + Headroom <= clock + Skew
      BY DEF RateInv, BucketIsCovered
    <3> HIDE DEF now, at
    <3>3. QED
      BY <1>1, <1>2, <2>2, <3>1, <3>2
  <2>5. disorder \in BOOLEAN /\ disorder' \in BOOLEAN /\ (disorder => disorder')
    BY <2>1 DEF RateInv, RateTypeOK, OlderThanSeen, Late
  <2> HIDE DEF now, at
  <2>6. /\ bucket' \in Bucket /\ told' \in Nat /\ account' \in Account \cup {Nobody}
        /\ disorder' => account' = Nobody
        /\ account' # Nobody =>
              /\ account'.credit >= 0 /\ bucket'.tokens <= account'.credit
              /\ bucket'.ts = now /\ account'.last = now
        /\ RetryAfterIsEnough'
    BY <1>1, <2>1, <2>3, <2>4, <2>5, ConsumeKeeps
  <2>7. bucket' # Nobody
    BY <2>6, NobodyAssumption
  <2>8. account' # Nobody => account'.last + quiet' <= clock' + Skew
    BY <1>1, <1>2, <2>1, <2>6
  <2>9. BucketIsCovered'
    BY <2>6, <2>7, <2>8 DEF BucketIsCovered
  <2>10. RateTypeOK'
    BY <1>1, <2>1, <2>5, <2>6, RequestsStay DEF RateInv, RateTypeOK
  <2>11. QED
    BY <1>1, <2>6, <2>9, <2>10, RequestsStay DEF RateInv
<1>5. QED
  BY <1>3, <1>4

LEMMA MemoryStep ==
    ASSUME RateInv, NEW q \in Requests, LimitInMemory(q)
    PROVE  RateInv'
<1> DEFINE now == request[q].now
<1>1. now \in Times /\ request[q].at \in Replicas /\ LimitAnswered(q)
      /\ UNCHANGED <<clock, store, quiet>>
  BY RequestFacts DEF LimitInMemory
<1>2. CASE store # request[q].at
  BY <1>1, <1>2, OthersAnswer DEF LimitInMemory
<1>3. CASE store = request[q].at
  <2>1. disorder' = (disorder \/ OlderThanSeen(now)) /\ Consume(now)
    BY <1>3 DEF LimitInMemory
  <2>2. store # "redis"
    BY <1>1, <1>3, RateAssumption
  <2>3. account # Nobody => account.last \in Nat
    BY RateNobody, RateAssumption DEF RateInv, RateTypeOK, Account, Times
  <2>4. now \in Nat
    BY <1>1, RateAssumption DEF Times
  <2>5. ~disorder' /\ account # Nobody => now >= account.last
    <3>1. ~disorder' => ~OlderThanSeen(now)
      BY <2>1, Zenon
    <3> HIDE DEF now
    <3>2. QED
      BY <2>3, <2>4, <3>1 DEF OlderThanSeen
  <2>6. account # Nobody => bucket # Nobody
    BY <2>2 DEF RateInv, BucketIsCovered
  <2>7. disorder \in BOOLEAN /\ disorder' \in BOOLEAN /\ (disorder => disorder')
    BY <2>1 DEF RateInv, RateTypeOK, OlderThanSeen
  <2> HIDE DEF now
  <2>8. /\ bucket' \in Bucket /\ told' \in Nat /\ account' \in Account \cup {Nobody}
        /\ disorder' => account' = Nobody
        /\ account' # Nobody =>
              /\ account'.credit >= 0 /\ bucket'.tokens <= account'.credit
              /\ bucket'.ts = now /\ account'.last = now
        /\ RetryAfterIsEnough'
    BY <1>1, <2>1, <2>5, <2>6, <2>7, ConsumeKeeps
  <2>9. bucket' # Nobody
    BY <2>8, NobodyAssumption
  <2>10. BucketIsCovered'
    BY <1>1, <2>2, <2>8, <2>9 DEF BucketIsCovered
  <2>11. RateTypeOK'
    BY <1>1, <2>7, <2>8, RequestsStay DEF RateInv, RateTypeOK
  <2>12. QED
    BY <1>1, <2>8, <2>10, <2>11, RequestsStay DEF RateInv
<1>4. QED
  BY <1>2, <1>3

LEMMA AskLimitStep ==
    ASSUME RateInv, NEW q \in Requests, NEW r \in Replicas, AskLimit(q, r)
    PROVE  RateInv'
<1> DEFINE c == [at |-> r, now |-> clock + Ahead[r]]
<1>1. clock \in 0..MaxTime /\ Ahead[r] \in 0..Skew /\ MaxTime \in Nat /\ Skew \in Nat
  BY RateAssumption DEF RateInv, RateTypeOK
<1>2. c \in Request /\ c.now <= clock + Ahead[c.at]
  BY <1>1 DEF Request, Times
<1>3. request' = [request EXCEPT ![q] = c]
      /\ UNCHANGED <<clock, store, bucket, quiet, account, told, disorder>>
  BY DEF AskLimit
<1> HIDE DEF c
<1>4. /\ request' \in [Requests -> Request \cup {Nobody}]
      /\ \A p \in Requests : request'[p] = IF p = q THEN c ELSE request[p]
  BY <1>2, <1>3 DEF RateInv, RateTypeOK
<1>5. RateTypeOK'
  BY <1>3, <1>4 DEF RateInv, RateTypeOK
<1>6. \A p \in Requests :
         request'[p] # Nobody => request'[p].now <= clock' + Ahead[request'[p].at]
  BY <1>2, <1>3, <1>4 DEF RateInv
<1>7. BucketIsCovered' /\ RetryAfterIsEnough'
  BY <1>3 DEF RateInv, BucketIsCovered, RetryAfterIsEnough, Refilled
<1>8. QED
  BY <1>3, <1>5, <1>6, <1>7 DEF RateInv

\* The key of a bucket in Redis lapses when it would have been full for as long as the
\* headroom; a bucket in memory does not lapse.
LEMMA TimePassesStep ==
    ASSUME RateInv, TimePasses
    PROVE  RateInv'
<1>1. /\ clock \in Nat /\ clock < MaxTime /\ clock' = clock + 1 /\ MaxTime \in Nat
      /\ quiet \in Nat /\ Skew \in Nat /\ Capacity \in Nat /\ Headroom \in Nat
      /\ Capacity > 0 /\ UNCHANGED <<store, request, account, told, disorder>>
  BY RateAssumption DEF RateInv, RateTypeOK, TimePasses
<1>2. /\ quiet' = IF store = "redis" /\ bucket # Nobody THEN quiet + 1 ELSE 0
      /\ bucket' = IF quiet' >= Capacity + Headroom THEN Nobody ELSE bucket
  BY DEF TimePasses, Ttl
<1>3. account # Nobody => account.last \in Nat /\ account.credit >= 0
  BY RateNobody, RateAssumption DEF RateInv, RateTypeOK, Account, Times, BucketIsCovered
<1>4. RateTypeOK'
  BY <1>1, <1>2 DEF RateInv, RateTypeOK
<1>5. \A p \in Requests :
         request'[p] # Nobody => request'[p].now <= clock' + Ahead[request'[p].at]
  <2> SUFFICES ASSUME NEW p \in Requests, request'[p] # Nobody
               PROVE  request'[p].now <= clock' + Ahead[request'[p].at]
    OBVIOUS
  <2>1. /\ request[p].now \in Times /\ request[p].now <= clock + Ahead[request[p].at]
        /\ Ahead[request[p].at] \in 0..Skew
    BY <1>1, RequestFacts
  <2>2. QED
    BY <1>1, <2>1, RateAssumption DEF Times
<1>6. BucketIsCovered'
  <2> SUFFICES ASSUME account # Nobody PROVE BucketIsCovered'
    BY <1>1 DEF BucketIsCovered
  <2>1. CASE bucket = Nobody
    <3>1. bucket' = Nobody /\ store = "redis"
          /\ account.last + Capacity + Headroom <= clock + Skew
      BY <1>2, <2>1 DEF RateInv, BucketIsCovered
    <3>2. QED
      BY <1>1, <1>3, <3>1 DEF BucketIsCovered
  <2>2. CASE bucket # Nobody /\ store # "redis"
    <3>1. bucket' = bucket
      BY <1>1, <1>2, <2>2
    <3>2. QED
      BY <1>1, <1>3, <2>2, <3>1 DEF RateInv, BucketIsCovered
  <2>3. CASE bucket # Nobody /\ store = "redis"
    <3>1. /\ quiet' = quiet + 1 /\ account.last + quiet <= clock + Skew
          /\ bucket.tokens <= account.credit /\ bucket.ts = account.last
      BY <1>2, <2>3 DEF RateInv, BucketIsCovered
    <3>2. account.last + quiet' <= clock' + Skew
      BY <1>1, <1>3, <3>1
    <3>3. bucket' = Nobody => account.last + Capacity + Headroom <= clock' + Skew
      BY <1>1, <1>2, <1>3, <2>3, <3>1, <3>2
    <3>4. bucket' = Nobody \/ bucket' = bucket
      BY <1>2
    <3>5. QED
      BY <1>1, <1>3, <2>3, <3>1, <3>2, <3>3, <3>4 DEF BucketIsCovered
  <2>4. QED
    BY <2>1, <2>2, <2>3
<1>7. RetryAfterIsEnough'
  <2>1. told \in Nat /\ told' = told
    BY <1>1 DEF RateInv, RateTypeOK
  <2>2. CASE bucket' = bucket
    BY <2>1, <2>2 DEF RateInv, RetryAfterIsEnough, Refilled
  <2>3. CASE bucket' = Nobody
    <3>1. [tokens |-> Capacity, ts |-> told] \in [tokens : 0..Capacity, ts : Nat]
      BY <1>1, <2>1
    <3>2. Refill([tokens |-> Capacity, ts |-> told], told).tokens = Capacity
      BY <2>1, <3>1, RefillFacts, RateAssumption
    <3>3. QED
      BY <2>1, <2>3, <3>2, RateAssumption DEF Refilled, RetryAfterIsEnough
  <2>4. QED
    BY <1>2, <2>2, <2>3
<1>8. QED
  BY <1>1, <1>4, <1>5, <1>6, <1>7 DEF RateInv

LEMMA RestartReplicaStep ==
    ASSUME RateInv, NEW r \in Replicas, RestartReplica(r)
    PROVE  RateInv'
<1>1. /\ \A q \in Requests : request'[q] = Nobody \/ request'[q] = request[q]
      /\ request' \in [Requests -> Request \cup {Nobody}]
      /\ UNCHANGED <<clock, store, quiet>>
  BY DEF RestartReplica, RateInv, RateTypeOK
<1>2. \A p \in Requests :
         request'[p] # Nobody => request'[p].now <= clock' + Ahead[request'[p].at]
  BY <1>1 DEF RateInv
<1>3. CASE store = r
  <2>1. bucket' = Nobody /\ account' = Nobody /\ told' = 0 /\ disorder' = FALSE
    BY <1>3 DEF RestartReplica
  <2>2. QED
    BY <1>1, <1>2, <2>1 DEF RateInv, RateTypeOK, BucketIsCovered, RetryAfterIsEnough
<1>4. CASE store # r
  <2>1. UNCHANGED <<bucket, account, told, disorder>>
    BY <1>4 DEF RestartReplica
  <2>2. QED
    BY <1>1, <1>2, <2>1
    DEF RateInv, RateTypeOK, BucketIsCovered, RetryAfterIsEnough, Refilled
<1>5. QED
  BY <1>3, <1>4

LEMMA RateInitInv == RateInit => RateInv
<1> SUFFICES ASSUME RateInit PROVE RateInv
  OBVIOUS
<1>1. RateTypeOK
  <2>1. clock \in 0..MaxTime /\ quiet \in Nat /\ store \in Stores /\ told \in Nat
    BY RateAssumption DEF RateInit
  <2>2. disorder \in BOOLEAN
    BY DEF RateInit
  <2>3. bucket \in Bucket \cup {Nobody} /\ account \in Account \cup {Nobody}
        /\ request \in [Requests -> Request \cup {Nobody}]
    BY DEF RateInit
  <2>4. QED
    BY <2>1, <2>2, <2>3 DEF RateTypeOK
<1>2. account = Nobody /\ told = 0 /\ \A q \in Requests : request[q] = Nobody
  BY DEF RateInit
<1>3. QED
  BY <1>1, <1>2 DEF RateInv, BucketIsCovered, RetryAfterIsEnough

LEMMA RateStepInv == RateInv /\ [RateNext]_rateVars => RateInv'
<1> SUFFICES ASSUME RateInv, [RateNext]_rateVars PROVE RateInv'
  OBVIOUS
<1>1. CASE UNCHANGED rateVars
  BY <1>1 DEF rateVars, RateInv, RateTypeOK, BucketIsCovered, RetryAfterIsEnough, Refilled
<1>2. ASSUME NEW q \in Requests, NEW r \in Replicas, AskLimit(q, r) PROVE RateInv'
  BY <1>2, AskLimitStep
<1>3. ASSUME NEW q \in Requests, LimitInRedis(q) \/ LimitInMemory(q) PROVE RateInv'
  BY <1>3, RedisStep, MemoryStep
<1>4. CASE TimePasses
  BY <1>4, TimePassesStep
<1>5. ASSUME NEW r \in Replicas, RestartReplica(r) PROVE RateInv'
  BY <1>5, RestartReplicaStep
<1>6. QED
  BY <1>1, <1>2, <1>3, <1>4, <1>5 DEF RateNext

\* A store gives out no more than its budget, however long the key is left alone and
\* whichever replicas ask, and Retry-After is long enough (limiter.ts:88-91, 108-109;
\* token-bucket.ts:8-11, 86-93).
THEOREM BudgetAlwaysHolds == RateSpec => []BudgetHolds
<1>1. RateInv => BudgetHolds
  BY DEF RateInv, BudgetHolds, BudgetKept, BucketIsCovered
<1>2. QED
  BY <1>1, RateInitInv, RateStepInv, PTL DEF RateSpec

-----------------------------------------------------------------------------
(***************************************************************************)
(* Inbox.                                                                  *)
(***************************************************************************)

\* The order of the natural numbers, as a relation.
Before == {p \in Nat \X Nat : p[1] < p[2]}

\* A set of natural numbers has a least member.
LEMMA LeastExists ==
    ASSUME NEW S \in SUBSET Nat, S # {}
    PROVE  \E x \in S : \A y \in S : x <= y
<1>1. IsWellFoundedOn(Before, Nat)
  BY NatLessThanWellFounded DEF OpToRel, Before
<1>2. PICK x \in S : \A y \in S : ~ (<<y, x>> \in Before)
  BY <1>1, WFMin
<1>3. ASSUME NEW y \in S PROVE x <= y
  <2>1. <<y, x>> \in Nat \X Nat /\ <<y, x>> \notin Before
    BY <1>2
  <2>2. ~(y < x)
    BY <2>1 DEF Before
  <2>3. QED
    BY <2>2
<1>4. QED
  BY <1>3

\* A set of them that has a bound has a greatest.
LEMMA GreatestExists ==
    ASSUME NEW N \in Nat, NEW S \in SUBSET (0..N), S # {}
    PROVE  \E x \in S : \A y \in S : x >= y
<1> DEFINE T == {n \in Nat : N - n \in S}
<1>1. \A y \in S : N - y \in T /\ N - (N - y) = y
  OBVIOUS
<1>2. T \in SUBSET Nat /\ T # {}
  BY <1>1
<1>3. PICK n \in T : \A m \in T : n <= m
  BY <1>2, LeastExists
<1>4. n \in Nat /\ N - n \in S
  BY <1>3
<1>5. ASSUME NEW y \in S PROVE N - n >= y
  <2>1. n <= N - y
    BY <1>1, <1>3
  <2>2. QED
    BY <1>4, <2>1
<1>6. QED
  BY <1>4, <1>5

\* The latest notification.
LEMMA LatestFacts ==
    ASSUME NEW rows
    PROVE  /\ LatestItem(rows) \in 0..MaxItems
           /\ LatestItem(rows) \in {0} \cup Visible(rows)
           /\ \A n \in Visible(rows) : n <= LatestItem(rows)
<1> DEFINE S == {0} \cup Visible(rows)
<1>1. MaxItems \in Nat /\ S \in SUBSET (0..MaxItems) /\ S # {}
  BY InboxAssumption DEF Visible, Items
<1>2. \E x \in S : \A y \in S : x >= y
  BY <1>1, GreatestExists
<1>3. Max(S) \in S /\ \A y \in S : Max(S) >= y
  BY <1>2 DEF Max
<1>4. QED
  BY <1>1, <1>3 DEF LatestItem

UnreadOnes(rows) == {n \in Items : rows[n] = "unread"}

LEMMA UnreadFacts ==
    ASSUME NEW rows
    PROVE  /\ IsFiniteSet(UnreadOnes(rows)) /\ Unread(rows) = Cardinality(UnreadOnes(rows))
           /\ Unread(rows) \in 0..MaxItems
<1>1. IsFiniteSet(Items) /\ Cardinality(Items) = MaxItems
  BY InboxAssumption, FS_Interval DEF Items
<1>2. UnreadOnes(rows) \in SUBSET Items
  BY DEF UnreadOnes
<1>3. IsFiniteSet(UnreadOnes(rows)) /\ Cardinality(UnreadOnes(rows)) <= MaxItems
      /\ Cardinality(UnreadOnes(rows)) \in Nat
  BY <1>1, <1>2, FS_Subset, FS_CardinalityType
<1>4. QED
  BY <1>3, InboxAssumption DEF Unread, UnreadOnes

\* What a tick has read: each half is current as long as nothing has changed since it was
\* begun; a cursor that is not torn was the cursor of the rows, which only marks have
\* changed since if nothing newer has come.
ProbeKnows ==
    /\ probe.latest # NotRead => probe.latest <= LatestItem(item)
    /\ ~Begun => ~probe.old /\ ~probe.torn
    /\ Halfway /\ probe.old => probe.torn
    /\ ~probe.old => /\ probe.latest # NotRead => probe.latest = LatestItem(item)
                     /\ probe.unread # NotRead => probe.unread = Unread(item)
    /\ ~late /\ ~probe.torn /\ probe.latest = LatestItem(item) /\ probe.unread # NotRead =>
          probe.unread >= Unread(item)

\* The same of the cursor that was sent; if it is the cursor of the rows now, nothing has
\* changed since, and the list was fetched after it was sent.
CursorKnows ==
    ~late /\ ~torn /\ last.unread # NotRead =>
        /\ last.latest <= LatestItem(item)
        /\ last.latest = LatestItem(item) =>
              /\ last.unread >= Unread(item)
              /\ ~due /\ last.unread = Unread(item) => list = Listed(item)

FreshIsSent == fresh => last.latest = LatestItem(item) /\ last.unread = Unread(item)

\* The inductive invariant.
InboxInv == InboxTypeOK /\ ProbeKnows /\ CursorKnows /\ FreshIsSent

LEMMA InboxNumbers ==
    /\ MaxItems \in Nat /\ MaxStreams \in Nat /\ NotRead = -1
    /\ LatestItem(item) \in 0..MaxItems /\ Unread(item) \in 0..MaxItems
    /\ LatestItem(item') \in 0..MaxItems /\ Unread(item') \in 0..MaxItems
BY InboxAssumption, LatestFacts, UnreadFacts DEF NotRead

LEMMA InboxFacts ==
    ASSUME InboxTypeOK
    PROVE  /\ probe.latest \in {NotRead} \cup 0..MaxItems
           /\ probe.unread \in {NotRead} \cup 0..MaxItems
           /\ probe.torn \in BOOLEAN /\ probe.old \in BOOLEAN
           /\ last.latest \in 0..MaxItems /\ last.unread \in {NotRead} \cup 0..MaxItems
BY DEF InboxTypeOK

-----------------------------------------------------------------------------
\* Rows that are not shown make no difference.
LEMMA StillShown ==
    ASSUME \A n \in Items : \/ item'[n] = item[n]
                            \/ {item[n], item'[n]} \cap {"unread", "read"} = {}
    PROVE  /\ Visible(item') = Visible(item) /\ LatestItem(item') = LatestItem(item)
           /\ Unread(item') = Unread(item) /\ Listed(item') = Listed(item)
<1>1. Visible(item') = Visible(item)
  BY DEF Visible
<1>2. UnreadOnes(item') = UnreadOnes(item)
  BY DEF UnreadOnes
<1>3. \A n \in Visible(item) : item'[n] = item[n]
  BY DEF Visible
<1>4. Listed(item') = Listed(item)
  BY <1>1, <1>3 DEF Listed
<1>5. LatestItem(item') = LatestItem(item)
  BY <1>1 DEF LatestItem
<1>6. Unread(item') = Unread(item)
  BY <1>2, UnreadFacts
<1>7. QED
  BY <1>1, <1>4, <1>5, <1>6

\* A commit adds a row to those that are shown.
LEMMA CommitShows ==
    ASSUME NEW n \in Items, item[n] = "writing", item' = [item EXCEPT ![n] = "unread"],
           DOMAIN item = Items
    PROVE  /\ LatestItem(item) <= LatestItem(item')
           /\ n < LatestItem(item) \/ LatestItem(item) < LatestItem(item')
<1>1. item'[n] = "unread" /\ \A m \in Items \ {n} : item'[m] = item[m]
  OBVIOUS
<1>2. Visible(item') = Visible(item) \cup {n} /\ n \notin Visible(item)
  BY <1>1 DEF Visible
<1>3. \A m \in Visible(item') : m <= LatestItem(item')
  BY LatestFacts
<1>4. LatestItem(item) \in {0} \cup Visible(item)
  BY LatestFacts
<1>5. n \in Nat \ {0} /\ LatestItem(item) \in Nat /\ LatestItem(item') \in Nat
  BY InboxNumbers DEF Items
<1>6. n <= LatestItem(item') /\ LatestItem(item) # n
  BY <1>2, <1>3, <1>4, <1>5
<1>7. LatestItem(item) = 0 \/ LatestItem(item) <= LatestItem(item')
  BY <1>2, <1>3, <1>4
<1>8. QED
  BY <1>5, <1>6, <1>7

\* Marks take from those that are unread, and no row from the list.
LEMMA MarksCount ==
    ASSUME NEW S \in SUBSET Items, S # {}, \A n \in S : item[n] = "unread",
           item' = [n \in Items |-> IF n \in S THEN "read" ELSE item[n]]
    PROVE  LatestItem(item') = LatestItem(item) /\ Unread(item') < Unread(item)
<1>1. Visible(item') = Visible(item)
  BY DEF Visible
<1>2. /\ UnreadOnes(item') \subseteq UnreadOnes(item)
      /\ UnreadOnes(item') # UnreadOnes(item)
  BY DEF UnreadOnes
<1>3. Unread(item') <= Unread(item) /\ Unread(item') # Unread(item)
  BY <1>2, UnreadFacts, FS_Subset
<1>4. QED
  BY <1>1, <1>3, InboxNumbers DEF LatestItem

\* The rows change under a tick.
LEMMA RowsMove ==
    ASSUME InboxInv, Disturbed, InboxTypeOK', due' \in {due, TRUE}, late => late',
           LatestItem(item) <= LatestItem(item'),
           ~late' /\ LatestItem(item') = LatestItem(item) => Unread(item') < Unread(item),
           UNCHANGED <<stream, last, torn, streams, list>>
    PROVE  InboxInv'
<1>1. /\ probe'.latest = probe.latest /\ probe'.unread = probe.unread
      /\ probe'.torn <=> probe.torn \/ Halfway
      /\ probe'.old <=> probe.old \/ Begun
  <2>1. probe' = [probe EXCEPT !.torn = probe.torn \/ Halfway, !.old = probe.old \/ Begun]
    BY DEF Disturbed
  <2>2. \A f \in {"latest", "unread", "torn", "old"} : f \in DOMAIN probe
    BY DEF InboxInv, InboxTypeOK
  <2>3. probe'.latest = probe.latest /\ probe'.unread = probe.unread
    BY <2>1, <2>2, Zenon
  <2>4. probe'.torn = (probe.torn \/ Halfway)
    BY <2>1, <2>2, Zenon
  <2>5. probe'.old = (probe.old \/ Begun)
    BY <2>1, <2>2, Zenon
  <2>6. QED
    BY <2>3, <2>4, <2>5
<1>2. /\ Begun' <=> Begun
      /\ Halfway' <=> Halfway
  BY <1>1 DEF Begun, Halfway
<1>3. Halfway => Begun
  BY DEF Begun, Halfway
<1>4. ~Halfway /\ probe.unread # NotRead => probe.latest # NotRead
  BY DEF Halfway
<1>5. ProbeKnows'
  <2>1. probe'.latest # NotRead => probe'.latest <= LatestItem(item')
    BY <1>1, InboxFacts, InboxNumbers DEF InboxInv, ProbeKnows
  <2>2. ~Begun' => ~probe'.old /\ ~probe'.torn
    BY <1>1, <1>2, <1>3 DEF InboxInv, ProbeKnows
  <2>3. Halfway' /\ probe'.old => probe'.torn
    BY <1>1, <1>2
  <2>4. ~probe'.old => probe'.latest = NotRead /\ probe'.unread = NotRead
    BY <1>1 DEF Begun
  <2>5. ~late' /\ ~probe'.torn /\ probe'.latest = LatestItem(item')
        /\ probe'.unread # NotRead => probe'.unread >= Unread(item')
    <3> SUFFICES ASSUME ~late', ~probe'.torn, probe'.latest = LatestItem(item'),
                        probe'.unread # NotRead
                 PROVE  probe'.unread >= Unread(item')
      OBVIOUS
    <3>1. ~late /\ ~probe.torn /\ probe.latest # NotRead /\ probe.unread # NotRead
      BY <1>1, <1>4
    <3>2. LatestItem(item') = LatestItem(item) /\ probe.latest = LatestItem(item)
      BY <1>1, <3>1, InboxNumbers DEF InboxInv, ProbeKnows
    <3>3. probe.unread >= Unread(item)
      BY <3>1, <3>2 DEF InboxInv, ProbeKnows
    <3>4. QED
      BY <1>1, <3>2, <3>3, InboxFacts, InboxNumbers DEF InboxInv
  <2>6. QED
    BY <2>1, <2>2, <2>3, <2>4, <2>5 DEF ProbeKnows, NotRead
<1>6. CursorKnows'
  <2> SUFFICES ASSUME ~late', ~torn, last.unread # NotRead
               PROVE  /\ last.latest <= LatestItem(item')
                      /\ last.latest = LatestItem(item') => last.unread > Unread(item')
    BY InboxFacts, InboxNumbers DEF CursorKnows, InboxInv
  <2>1. /\ last.latest <= LatestItem(item)
        /\ last.latest = LatestItem(item) => last.unread >= Unread(item)
    BY DEF InboxInv, CursorKnows
  <2>2. QED
    BY <2>1, InboxFacts, InboxNumbers DEF InboxInv
<1>7. FreshIsSent'
  BY DEF Disturbed, FreshIsSent
<1>8. QED
  BY <1>5, <1>6, <1>7 DEF InboxInv

\* Rows that are not shown move.
LEMMA QuietRows ==
    ASSUME InboxInv, InboxTypeOK', UNCHANGED <<streamVars, tabVars, fresh, late>>,
           \A n \in Items : \/ item'[n] = item[n]
                            \/ {item[n], item'[n]} \cap {"unread", "read"} = {}
    PROVE  InboxInv'
<1>1. /\ LatestItem(item') = LatestItem(item) /\ Unread(item') = Unread(item)
      /\ Listed(item') = Listed(item)
  BY StillShown
<1>2. QED
  BY <1>1 DEF InboxInv, ProbeKnows, CursorKnows, FreshIsSent, Begun, Halfway, streamVars, tabVars

LEMMA CreateNotificationStep ==
    ASSUME InboxInv, CreateNotification
    PROVE  InboxInv'
<1>1. /\ created \in 0..MaxItems /\ created < MaxItems /\ created' = created + 1
      /\ item' = [item EXCEPT ![created + 1] = "writing"] /\ created + 1 \in Items
      /\ UNCHANGED <<streamVars, tabVars, fresh, late>>
  BY InboxAssumption DEF InboxInv, InboxTypeOK, CreateNotification, Items
<1>2. /\ item' \in [Items -> {"none", "writing", "undone", "unread", "read"}]
      /\ \A n \in Items : item'[n] = IF n = created + 1 THEN "writing" ELSE item[n]
      /\ item[created + 1] = "none"
  BY <1>1, InboxAssumption DEF InboxInv, InboxTypeOK, Items
<1>3. \A n \in Items : item'[n] = "none" <=> n > created'
  BY <1>1, <1>2, InboxAssumption DEF InboxInv, InboxTypeOK, Items
<1>4. InboxTypeOK'
  BY <1>1, <1>2, <1>3, InboxAssumption DEF InboxInv, InboxTypeOK, streamVars, tabVars
<1>5. QED
  BY <1>1, <1>2, <1>4, QuietRows

\* A row goes from one state to another, after it was created.
LEMMA RowMoves ==
    ASSUME InboxTypeOK, NEW n \in Items, item[n] = "writing", NEW to \in {"unread", "undone"},
           item' = [item EXCEPT ![n] = to], created' = created
    PROVE  /\ item' \in [Items -> {"none", "writing", "undone", "unread", "read"}]
           /\ \A m \in Items : item'[m] = "none" <=> m > created'
BY DEF InboxTypeOK

LEMMA RollbackStep ==
    ASSUME InboxInv, NEW n \in Items, Rollback(n)
    PROVE  InboxInv'
<1>1. /\ item[n] = "writing" /\ item' = [item EXCEPT ![n] = "undone"]
      /\ UNCHANGED <<created, streamVars, tabVars, fresh, late>>
  BY DEF Rollback
<1>2. /\ item' \in [Items -> {"none", "writing", "undone", "unread", "read"}]
      /\ \A m \in Items : item'[m] = "none" <=> m > created'
  BY <1>1, RowMoves DEF InboxInv
<1>3. InboxTypeOK'
  BY <1>1, <1>2 DEF InboxInv, InboxTypeOK, streamVars, tabVars
<1>4. item'[n] = "undone" /\ \A m \in Items \ {n} : item'[m] = item[m]
  BY <1>1 DEF InboxInv, InboxTypeOK
<1>5. QED
  BY <1>1, <1>3, <1>4, QuietRows

\* Disturbing a tick keeps its type; there is none while the stream is down.
LEMMA DisturbedType ==
    ASSUME InboxTypeOK, Disturbed, UNCHANGED stream
    PROVE  /\ probe' \in [latest : {NotRead} \cup 0..MaxItems, unread : {NotRead} \cup 0..MaxItems,
                         torn : BOOLEAN, old : BOOLEAN]
           /\ stream' = "down" => probe' = NoProbe
           /\ fresh' \in BOOLEAN
<1>1. Halfway \in BOOLEAN /\ Begun \in BOOLEAN
  BY DEF Halfway, Begun
<1>2. fresh' = FALSE
        /\ probe' = [probe EXCEPT !.torn = probe.torn \/ Halfway, !.old = probe.old \/ Begun]
  BY DEF Disturbed
<1>3. (probe.torn \/ Halfway) \in BOOLEAN /\ (probe.old \/ Begun) \in BOOLEAN
  OBVIOUS
<1>4. probe' \in [latest : {NotRead} \cup 0..MaxItems, unread : {NotRead} \cup 0..MaxItems,
                         torn : BOOLEAN, old : BOOLEAN]
  BY <1>2, <1>3 DEF InboxTypeOK
<1>5. stream = "down" => probe' = NoProbe
  <2> SUFFICES ASSUME stream = "down" PROVE probe' = NoProbe
    OBVIOUS
  <2>1. probe = NoProbe
    BY DEF InboxTypeOK
  <2>2. ~Halfway /\ ~Begun
    BY <2>1 DEF Halfway, Begun, NoProbe
  <2>3. (probe.torn \/ Halfway) = FALSE /\ (probe.old \/ Begun) = FALSE
    BY <2>1, <2>2 DEF NoProbe
  <2>4. probe' = [NoProbe EXCEPT !.torn = FALSE, !.old = FALSE]
    BY <1>2, <2>1, <2>3
  <2>5. QED
    BY <2>4 DEF NoProbe
<1>6. QED
  BY <1>2, <1>4, <1>5

LEMMA CommitStep ==
    ASSUME InboxInv, NEW n \in Items, Commit(n)
    PROVE  InboxInv'
<1>1. /\ item[n] = "writing" /\ item' = [item EXCEPT ![n] = "unread"] /\ Disturbed
      /\ UNCHANGED <<created, stream, last, torn, streams, list, due>>
  BY DEF Commit, tabVars
<1>2. late' = (late \/ n < LatestItem(item))
  BY DEF Commit
<1>3. late' \in BOOLEAN /\ (late => late') /\ (~late' => ~(n < LatestItem(item)))
  BY <1>2 DEF InboxInv, InboxTypeOK
<1>4. /\ item' \in [Items -> {"none", "writing", "undone", "unread", "read"}]
      /\ \A m \in Items : item'[m] = "none" <=> m > created'
  BY <1>1, RowMoves DEF InboxInv
<1>5. InboxTypeOK'
  BY <1>1, <1>3, <1>4, DisturbedType DEF InboxInv, InboxTypeOK
<1>6. /\ LatestItem(item) <= LatestItem(item')
      /\ n < LatestItem(item) \/ LatestItem(item) < LatestItem(item')
  BY <1>1, CommitShows DEF InboxInv, InboxTypeOK
<1>7. ~late' => LatestItem(item') # LatestItem(item)
  BY <1>3, <1>6, InboxNumbers
<1>8. QED
  BY <1>1, <1>3, <1>5, <1>6, <1>7, RowsMove

LEMMA MarkReadStep ==
    ASSUME InboxInv, NEW S \in SUBSET Items, MarkRead(S)
    PROVE  InboxInv'
<1>1. /\ S # {} /\ \A n \in S : item[n] = "unread"
      /\ item' = [n \in Items |-> IF n \in S THEN "read" ELSE item[n]] /\ Disturbed
      /\ due' \in {due, TRUE} /\ UNCHANGED <<created, stream, last, torn, streams, list, late>>
  BY DEF MarkRead
<1>2. /\ item' \in [Items -> {"none", "writing", "undone", "unread", "read"}]
      /\ \A m \in Items : item'[m] = "none" <=> m > created'
  BY <1>1 DEF InboxInv, InboxTypeOK
<1>3. due' \in BOOLEAN
  BY <1>1 DEF InboxInv, InboxTypeOK
<1>4. InboxTypeOK'
  BY <1>1, <1>2, <1>3, DisturbedType DEF InboxInv, InboxTypeOK
<1>5. LatestItem(item') = LatestItem(item) /\ Unread(item') < Unread(item)
  BY <1>1, MarksCount
<1>6. LatestItem(item) <= LatestItem(item') /\ (late => late')
  BY <1>1, <1>5, InboxNumbers
<1>7. QED
  BY <1>1, <1>4, <1>5, <1>6, RowsMove

-----------------------------------------------------------------------------
LEMMA NoProbeKnows ==
    ASSUME probe' = NoProbe
    PROVE  ProbeKnows'
<1>1. /\ probe'.latest = NotRead /\ probe'.unread = NotRead /\ ~probe'.torn /\ ~probe'.old
  BY DEF NoProbe
<1>2. QED
  BY <1>1 DEF ProbeKnows, Halfway, Begun, NotRead

LEMMA StreamStep ==
    ASSUME InboxInv, Connect \/ Disconnect \/ ProbeFails
    PROVE  InboxInv'
<1>1. UNCHANGED <<item, created, list, due>>
  BY DEF Connect, Disconnect, ProbeFails, inboxRows, tabVars
<1>2. probe' = NoProbe
  BY DEF Connect, Disconnect, ProbeFails, InboxInv, InboxTypeOK
<1>3. CASE Connect
  <2>1. stream' = "asking" /\ last' = NothingSent /\ late' = FALSE /\ torn' = FALSE
        /\ fresh' = FALSE /\ streams' \in 0..MaxStreams
    BY <1>3, InboxAssumption DEF Connect, InboxInv, InboxTypeOK
  <2>2. NothingSent \in [latest : 0..MaxItems, unread : {NotRead} \cup 0..MaxItems]
        /\ NothingSent.unread = NotRead
    BY InboxAssumption DEF NothingSent
  <2>3. probe' = probe /\ stream' # "down"
    BY <1>3, <2>1 DEF Connect
  <2>4. late' \in BOOLEAN /\ torn' \in BOOLEAN /\ fresh' \in BOOLEAN
    BY <2>1
  <2>5. last' \in [latest : 0..MaxItems, unread : {NotRead} \cup 0..MaxItems]
    BY <2>1, <2>2
  <2>6. InboxTypeOK'
    BY <1>1, <2>1, <2>3, <2>4, <2>5 DEF InboxInv, InboxTypeOK
  <2>7. CursorKnows' /\ FreshIsSent'
    BY <2>1, <2>2 DEF CursorKnows, FreshIsSent
  <2>8. QED
    BY <1>2, <2>6, <2>7, NoProbeKnows DEF InboxInv
<1>4. CASE Disconnect \/ ProbeFails
  <2>1. /\ stream' \in {"down", "open"} /\ UNCHANGED <<last, torn, streams, fresh, late>>
    BY <1>4 DEF Disconnect, ProbeFails
  <2>2. NoProbe \in [latest : {NotRead} \cup 0..MaxItems, unread : {NotRead} \cup 0..MaxItems,
                      torn : BOOLEAN, old : BOOLEAN]
    BY DEF NoProbe
  <2>3. InboxTypeOK'
    BY <1>1, <1>2, <2>1, <2>2 DEF InboxInv, InboxTypeOK
  <2>4. CursorKnows' /\ FreshIsSent'
    BY <1>1, <2>1 DEF InboxInv, CursorKnows, FreshIsSent
  <2>5. QED
    BY <1>2, <2>3, <2>4, NoProbeKnows DEF InboxInv
<1>5. QED
  BY <1>3, <1>4

\* A tick reads the other half of its cursor, or the first.
LEMMA ReadStep ==
    ASSUME InboxInv, ReadLatest \/ ReadUnread
    PROVE  InboxInv'
<1>1. UNCHANGED <<item, created, stream, last, torn, streams, list, due, fresh, late>>
      /\ stream # "down"
  BY DEF ReadLatest, ReadUnread, inboxRows, tabVars
<1>2. \/ /\ probe.latest = NotRead /\ probe'.latest = LatestItem(item)
         /\ probe'.unread = probe.unread
      \/ /\ probe.unread = NotRead /\ probe'.unread = Unread(item)
         /\ probe'.latest = probe.latest
  <2>1. \A f \in {"latest", "unread"} : f \in DOMAIN probe
    BY DEF InboxInv, InboxTypeOK
  <2>2. QED
    BY <2>1 DEF ReadLatest, ReadUnread
<1>3. probe'.torn = probe.torn /\ probe'.old = probe.old
  BY Zenon DEF ReadLatest, ReadUnread, InboxInv, InboxTypeOK
<1>4. probe' \in [latest : {NotRead} \cup 0..MaxItems, unread : {NotRead} \cup 0..MaxItems,
                 torn : BOOLEAN, old : BOOLEAN]
  BY InboxNumbers DEF ReadLatest, ReadUnread, InboxInv, InboxTypeOK
<1>5. InboxTypeOK'
  BY <1>1, <1>4 DEF InboxInv, InboxTypeOK
<1>6. CursorKnows' /\ FreshIsSent'
  BY <1>1 DEF InboxInv, CursorKnows, FreshIsSent
<1>7. ProbeKnows'
  <2>1. probe'.latest # NotRead => probe'.latest <= LatestItem(item')
    BY <1>1, <1>2, InboxNumbers DEF InboxInv, ProbeKnows
  <2>2. ~Begun' => ~probe'.old /\ ~probe'.torn
    BY <1>1, <1>2, <1>3, InboxNumbers DEF InboxInv, ProbeKnows, Begun
  <2>3. Halfway' /\ probe'.old => probe'.torn
    <3>1. Halfway' => ~Begun
      BY <1>1, <1>2, InboxNumbers DEF Halfway, Begun
    <3>2. QED
      BY <1>3, <3>1 DEF InboxInv, ProbeKnows
  <2>4. ~probe'.old => /\ probe'.latest # NotRead => probe'.latest = LatestItem(item')
                       /\ probe'.unread # NotRead => probe'.unread = Unread(item')
    BY <1>1, <1>2, <1>3 DEF InboxInv, ProbeKnows
  <2>5. ~late' /\ ~probe'.torn /\ probe'.latest = LatestItem(item')
        /\ probe'.unread # NotRead => probe'.unread >= Unread(item')
    <3> SUFFICES ASSUME ~late', ~probe'.torn, probe'.latest = LatestItem(item'),
                        probe'.unread # NotRead
                 PROVE  probe'.unread >= Unread(item')
      OBVIOUS
    <3>1. CASE probe'.unread = Unread(item)
      BY <1>1, <3>1, InboxNumbers
    <3>2. CASE probe'.unread # Unread(item)
      <4>1. probe.latest = NotRead /\ probe.unread = probe'.unread
        BY <1>2, <3>2
      <4>2. Halfway
        BY <4>1 DEF Halfway
      <4>3. ~probe.old
        BY <1>3, <4>2 DEF InboxInv, ProbeKnows
      <4>4. QED
        BY <3>2, <4>1, <4>3 DEF InboxInv, ProbeKnows
    <3>3. QED
      BY <3>1, <3>2
  <2>6. QED
    BY <2>1, <2>2, <2>3, <2>4, <2>5 DEF ProbeKnows
<1>8. QED
  BY <1>5, <1>6, <1>7 DEF InboxInv

\* The cursor is sent, and the tab asks again, if it is not the one that was sent last.
LEMMA TickStep ==
    ASSUME InboxInv, Tick
    PROVE  InboxInv'
<1>1. /\ probe.latest # NotRead /\ probe.unread # NotRead /\ stream # "down"
      /\ probe' = NoProbe /\ stream' = "open" /\ fresh' = ~probe.old
      /\ UNCHANGED <<item, created, streams, list, late>>
  BY DEF Tick, ProbeDone, inboxRows
<1>2. \/ /\ last' = [latest |-> probe.latest, unread |-> probe.unread]
         /\ torn' = probe.torn /\ due' = TRUE
      \/ /\ UNCHANGED <<last, torn, due>>
         /\ probe.latest = last.latest /\ probe.unread = last.unread
  BY DEF Tick
<1>3. last'.latest = probe.latest /\ last'.unread = probe.unread
  BY <1>2
<1>4. probe.latest \in 0..MaxItems /\ probe.unread \in 0..MaxItems
  BY <1>1, InboxFacts DEF InboxInv
<1>5. InboxTypeOK'
  <2>1. last' \in [latest : 0..MaxItems, unread : {NotRead} \cup 0..MaxItems]
    BY <1>2, <1>4 DEF InboxInv, InboxTypeOK
  <2>2. torn' \in BOOLEAN /\ due' \in BOOLEAN /\ fresh' \in BOOLEAN
    BY <1>1, <1>2, InboxFacts DEF InboxInv, InboxTypeOK
  <2>3. NoProbe \in [latest : {NotRead} \cup 0..MaxItems, unread : {NotRead} \cup 0..MaxItems,
                      torn : BOOLEAN, old : BOOLEAN]
    BY DEF NoProbe
  <2>4. QED
    BY <1>1, <2>1, <2>2, <2>3 DEF InboxInv, InboxTypeOK
<1>6. CursorKnows'
  <2>1. CASE UNCHANGED <<last, torn, due>>
    BY <1>1, <2>1 DEF InboxInv, CursorKnows
  <2>2. CASE ~UNCHANGED <<last, torn, due>>
    <3>1. torn' = probe.torn /\ due' = TRUE
      BY <1>2, <2>2
    <3>2. QED
      BY <1>1, <1>3, <1>4, <3>1 DEF InboxInv, ProbeKnows, CursorKnows
  <2>3. QED
    BY <2>1, <2>2
<1>7. FreshIsSent'
  <2>1. fresh' => ~probe.old
    BY <1>1
  <2>2. QED
    BY <1>1, <1>3, <2>1 DEF InboxInv, ProbeKnows, FreshIsSent
<1>8. QED
  BY <1>1, <1>5, <1>6, <1>7, NoProbeKnows DEF InboxInv

LEMMA RefetchStep ==
    ASSUME InboxInv, Refetch
    PROVE  InboxInv'
<1>1. list' = Listed(item) /\ due' = FALSE
      /\ UNCHANGED <<item, created, stream, probe, last, torn, streams, fresh, late>>
  BY DEF Refetch, inboxRows, streamVars
<1>2. Listed(item) \in [Items -> {"none", "unread", "read"}]
  BY DEF Listed, Visible
<1>3. InboxTypeOK'
  <2>1. due' \in BOOLEAN /\ list' \in [Items -> {"none", "unread", "read"}]
    BY <1>1, <1>2
  <2>2. QED
    BY <1>1, <2>1 DEF InboxInv, InboxTypeOK
<1>4. ProbeKnows' /\ FreshIsSent'
  BY <1>1 DEF InboxInv, ProbeKnows, FreshIsSent, Begun, Halfway
<1>5. CursorKnows'
  BY <1>1 DEF InboxInv, CursorKnows
<1>6. QED
  BY <1>3, <1>4, <1>5 DEF InboxInv

LEMMA InboxInitInv == InboxInit => InboxInv
<1> SUFFICES ASSUME InboxInit PROVE InboxInv
  OBVIOUS
<1>1. InboxTypeOK
  <2>1. item \in [Items -> {"none", "writing", "undone", "unread", "read"}]
        /\ created \in 0..MaxItems /\ streams \in 0..MaxStreams
        /\ list \in [Items -> {"none", "unread", "read"}]
    BY InboxAssumption DEF InboxInit
  <2>2. \A n \in Items : item[n] = "none" <=> n > created
    BY InboxAssumption DEF InboxInit, Items
  <2>3. due \in BOOLEAN /\ fresh \in BOOLEAN /\ late \in BOOLEAN /\ torn \in BOOLEAN
    BY DEF InboxInit
  <2>4. probe \in [latest : {NotRead} \cup 0..MaxItems, unread : {NotRead} \cup 0..MaxItems,
                  torn : BOOLEAN, old : BOOLEAN] /\ probe = NoProbe
    BY DEF InboxInit, NoProbe
  <2>5. last \in [latest : 0..MaxItems, unread : {NotRead} \cup 0..MaxItems]
    BY InboxAssumption DEF InboxInit, NothingSent
  <2>6. stream = "down"
    BY DEF InboxInit
  <2>7. QED
    BY <2>1, <2>2, <2>3, <2>4, <2>5, <2>6 DEF InboxTypeOK
<1>2. ProbeKnows
  BY DEF InboxInit, ProbeKnows, NoProbe, Begun, Halfway, NotRead
<1>3. last.unread = NotRead /\ ~fresh
  BY DEF InboxInit, NothingSent
<1>4. QED
  BY <1>1, <1>2, <1>3 DEF InboxInv, CursorKnows, FreshIsSent

LEMMA InboxStepInv == InboxInv /\ [InboxNext]_inboxVars => InboxInv'
<1> SUFFICES ASSUME InboxInv, [InboxNext]_inboxVars PROVE InboxInv'
  OBVIOUS
<1>1. CASE UNCHANGED inboxVars
  BY <1>1 DEF inboxVars, inboxRows, streamVars, tabVars, InboxInv, InboxTypeOK, ProbeKnows,
              CursorKnows, FreshIsSent, Begun, Halfway
<1>2. CASE CreateNotification
  BY <1>2, CreateNotificationStep
<1>3. ASSUME NEW n \in Items, Commit(n) \/ Rollback(n) PROVE InboxInv'
  BY <1>3, CommitStep, RollbackStep
<1>4. ASSUME NEW S \in SUBSET Items, MarkRead(S) PROVE InboxInv'
  BY <1>4, MarkReadStep
<1>5. CASE Connect \/ Disconnect \/ ProbeFails
  BY <1>5, StreamStep
<1>6. CASE ReadLatest \/ ReadUnread
  BY <1>6, ReadStep
<1>7. CASE Tick
  BY <1>7, TickStep
<1>8. CASE Refetch
  BY <1>8, RefetchStep
<1>9. QED
  BY <1>1, <1>2, <1>3, <1>4, <1>5, <1>6, <1>7, <1>8 DEF InboxNext

\* A tab that has asked since the last event shows the notifications as they are, once a
\* tick has read the rows as they are, unless one came after a newer one or a cursor was
\* torn (route.ts:11-18, notify.ts:92-96).
THEOREM InboxIsAlwaysCurrent == InboxSpec => []InboxIsCurrent
<1>1. ASSUME InboxInv, fresh, ~due, ~late, ~torn PROVE list = Listed(item)
  <2>1. last.latest = LatestItem(item) /\ last.unread = Unread(item)
    BY <1>1 DEF InboxInv, FreshIsSent
  <2>2. last.unread # NotRead
    BY <2>1, InboxNumbers
  <2>3. QED
    BY <1>1, <2>1, <2>2 DEF InboxInv, CursorKnows
<1>2. InboxInv => InboxIsCurrent
  BY <1>1 DEF InboxInv, InboxIsCurrent, ListIsCurrent
<1>3. QED
  BY <1>2, InboxInitInv, InboxStepInv, PTL DEF InboxSpec

-----------------------------------------------------------------------------
(***************************************************************************)
(* DocumentGovernance: type correctness.                                   *)
(***************************************************************************)

\* A call that moves on keeps the type of the calls.
LEMMA CallType ==
    ASSUME TypeOK, NEW a \in Actors, NEW c \in Calls,
           call' = [call EXCEPT ![a] = c]
    PROVE  call' \in [Actors -> Calls]
BY DEF TypeOK

\* An actor without a call is one of the calls' values.
LEMMA IdleType == Idle \in Calls
BY DEF Idle, Calls, Stages

\* A call that begins keeps the types of the two variables it sets.
LEMMA BeginType ==
    ASSUME TypeOK, NEW a \in Actors, NEW c \in Calls, Begin(a, c)
    PROVE  call' \in [Actors -> Calls] /\ calls' \in Nat
BY CallType DEF Begin, TypeOK

\* So does a call that continues ...
LEMMA ContinueType ==
    ASSUME TypeOK, NEW a \in Actors, NEW c \in Calls, Continue(a, c)
    PROVE  call' \in [Actors -> Calls] /\ calls' \in Nat
BY CallType DEF Continue, TypeOK

\* ... and one that returns.
LEMMA ReturnType ==
    ASSUME TypeOK, NEW a \in Actors, Return(a)
    PROVE  call' \in [Actors -> Calls] /\ calls' \in Nat
BY CallType, IdleType DEF Return, TypeOK

\* A version made from the row is a version.
LEMMA CreateVersionType ==
    ASSUME TypeOK, NEW t \in Texts, NEW r \in Nat, CreateVersion(t, r)
    PROVE  version' \in Nat /\ versions' \in SUBSET Versions
<1>1. [num |-> version + 1, text |-> t, rev |-> r] \in Versions
  BY DEF Versions, TypeOK
<1>2. QED
  BY <1>1 DEF CreateVersion, TypeOK

\* What one actor's call may do.
ActorStep(a) ==
    \/ ChangeStatus(a)
    \/ Snapshot(a)
    \/ AskReview(a)
    \/ \E d \in Decisions : CommitReview(a, d)
    \/ \E v \in versions : RestoreVersion(a, v)
    \/ MarkIngestDocumentDeprecated(a)
    \/ TransactionFails(a)

\* Next is a step of one actor's call, or a write of the body.
LEMMA NextSplit ==
    Next <=> \/ \E a \in Actors : ActorStep(a)
             \/ \E t \in Texts : SaveContent(t)
BY DEF Next, ActorStep

\* A step of an actor's call leaves the other calls alone, and only ReadRow makes
\* a call one that has read its row.
LEMMA OneCallMoves ==
    ASSUME TypeOK, NEW a \in Actors, ActorStep(a)
    PROVE  /\ \A b \in Actors \ {a} : call'[b] = call[b]
           /\ call'[a].stage = "read" => ReadRow(a)
<1>c. call \in [Actors -> Calls] /\ call[a] \in Calls
  BY DEF TypeOK
<1>i. Idle \in Calls /\ Idle.stage # "read"
  BY IdleType DEF Idle
<1> USE DEF Begin, Continue, Return
<1>1. CASE \E to \in Statuses : AskStatus(a, to)
  BY <1>1, <1>c, <1>i DEF AskStatus, Calls
<1>2. CASE PinVersion(a) \/ CountApprovals(a)
  BY <1>2, <1>c, <1>i DEF PinVersion, CountApprovals, Calls
<1>3. CASE SeeText(a) \/ SeeLatest(a)
  <2>1. [call[a] EXCEPT !.text = text].stage = call[a].stage
        /\ [call[a] EXCEPT !.saw = TRUE].stage = call[a].stage
    BY <1>c DEF Calls
  <2>2. ASSUME NEW t
        PROVE  [call[a] EXCEPT !.saw = TRUE, !.latest = t].stage = call[a].stage
    BY <1>c DEF Calls
  <2>a. ASSUME NEW c, call' = [call EXCEPT ![a] = c], c.stage = call[a].stage,
               call[a].stage = "look"
        PROVE  /\ \A b \in Actors \ {a} : call'[b] = call[b]
               /\ call'[a].stage = "read" => ReadRow(a)
    BY <2>a, <1>c
  <2>3. CASE SeeText(a)
    BY <2>1, <2>3, <2>a DEF SeeText
  <2>4. CASE SeeLatest(a)
    BY <2>1, <2>2, <2>4, <2>a DEF SeeLatest
  <2>5. QED
    BY <1>3, <2>3, <2>4
<1>4. CASE CommitStatus(a) \/ SkipSnapshot(a) \/ CommitSnapshot(a) \/ TransactionFails(a)
  BY <1>4, <1>c, <1>i DEF CommitStatus, SkipSnapshot, CommitSnapshot, TransactionFails
<1>5. CASE \E l \in BOOLEAN : AskSnapshot(a, l)
  BY <1>5, <1>c, <1>i DEF AskSnapshot, Calls
<1>6. CASE ReadRow(a)
  BY <1>6, <1>c DEF ReadRow
<1>7. CASE AskReview(a)
  BY <1>7, <1>c, <1>i DEF AskReview, Calls
<1>8. CASE \E d \in Decisions : CommitReview(a, d)
  BY <1>8, <1>c, <1>i DEF CommitReview
<1>9. CASE (\E v \in versions : RestoreVersion(a, v)) \/ MarkIngestDocumentDeprecated(a)
  BY <1>9, <1>c, <1>i DEF RestoreVersion, MarkIngestDocumentDeprecated
<1>10. QED
  BY <1>1, <1>2, <1>3, <1>4, <1>5, <1>6, <1>7, <1>8, <1>9
  DEF ActorStep, ChangeStatus, Snapshot

\* A call that has read its row has a body in hand: what makes TypeOK inductive,
\* for a snapshot stores the body it read.
ReadsHaveText == \A a \in Actors : call[a].stage = "read" => call[a].text \in Texts

\* Every step keeps a body in hand where the row was read.
LEMMA ReadsStep == TypeOK /\ ReadsHaveText /\ [Next]_vars => ReadsHaveText'
<1> SUFFICES ASSUME TypeOK, ReadsHaveText, [Next]_vars PROVE ReadsHaveText'
  OBVIOUS
<1>1. ASSUME NEW a \in Actors, ActorStep(a) PROVE ReadsHaveText'
  <2>1. CASE ReadRow(a)
    <3>1. call' = [call EXCEPT ![a] = [Idle EXCEPT !.stage = "read",
                        !.num = version, !.text = text, !.rev = rev]]
      BY <2>1 DEF ReadRow, Continue
    <3>2. call'[a].text = text
      BY <3>1 DEF TypeOK, Idle
    <3>3. QED
      BY <1>1, <3>2, OneCallMoves DEF ReadsHaveText, TypeOK
  <2>2. CASE ~ReadRow(a)
    BY <1>1, <2>2, OneCallMoves DEF ReadsHaveText
  <2>3. QED
    BY <2>1, <2>2
<1>2. ASSUME NEW t \in Texts, SaveContent(t) PROVE ReadsHaveText'
  BY <1>2 DEF SaveContent, ReadsHaveText
<1>3. CASE UNCHANGED vars
  BY <1>3 DEF vars, ReadsHaveText
<1>4. QED
  BY <1>1, <1>2, <1>3, NextSplit

\* Every variable keeps its type under every step.
LEMMA TypeStep == TypeOK /\ ReadsHaveText /\ [Next]_vars => TypeOK'
<1> SUFFICES ASSUME TypeOK, ReadsHaveText, [Next]_vars PROVE TypeOK'
  OBVIOUS
<1> USE DEF body, history
<1>1. ASSUME NEW a \in Actors, ActorStep(a) PROVE TypeOK'
  <2>c. /\ call[a] \in Calls
        /\ call[a].num \in Nat /\ call[a].rev \in Nat
        /\ call[a].text \in Texts \cup {Absent}
    BY DEF TypeOK, Calls
  <2>1. ASSUME NEW to \in Statuses, AskStatus(a, to) PROVE TypeOK'
    <3>1. ASSUME NEW st \in Stages
          PROVE  [Idle EXCEPT !.stage = st, !.to = to, !.from = status] \in Calls
      BY DEF Idle, Calls, TypeOK
    <3>2. QED
      BY <2>1, <3>1, BeginType DEF AskStatus, Stages, TypeOK
  <2>2. CASE PinVersion(a)
    <3>1. [call[a] EXCEPT !.stage = "count", !.num = version] \in Calls
      BY <2>c DEF Calls, Stages, TypeOK
    <3>2. QED
      BY <2>2, <3>1, ContinueType DEF PinVersion, TypeOK
  <2>3. CASE CountApprovals(a)
    <3>1. [call[a] EXCEPT !.stage = "look"] \in Calls
      BY <2>c DEF Calls, Stages
    <3>2. QED
      BY <2>3, <3>1, ContinueType, ReturnType DEF CountApprovals, TypeOK
  <2>4. CASE SeeText(a)
    <3>1. [call[a] EXCEPT !.text = text] \in Calls
      BY <2>c DEF Calls, TypeOK
    <3>2. QED
      BY <2>4, <3>1, ContinueType DEF SeeText, TypeOK
  <2>5. CASE SeeLatest(a)
    <3>1. [call[a] EXCEPT !.saw = TRUE] \in Calls
      BY <2>c DEF Calls
    <3>2. ASSUME NEW v \in Latest
          PROVE  [call[a] EXCEPT !.saw = TRUE, !.latest = v.text] \in Calls
      <4>1. v.text \in Texts
        BY DEF Latest, Versions, TypeOK
      <4>2. QED
        BY <2>c, <4>1 DEF Calls
    <3>3. QED
      BY <2>5, <3>1, <3>2, ContinueType DEF SeeLatest, TypeOK
  <2>6. CASE CommitStatus(a)
    <3>1. status' \in Statuses
      BY <2>6, <2>c DEF CommitStatus, Calls
    <3>2. version' \in Nat /\ versions' \in SUBSET Versions
      BY <2>6, CreateVersionType DEF CommitStatus, TypeOK
    <3>3. QED
      BY <2>6, <3>1, <3>2, ReturnType DEF CommitStatus, TypeOK
  <2>7. ASSUME NEW l \in BOOLEAN, AskSnapshot(a, l) PROVE TypeOK'
    <3>1. ASSUME NEW st \in Stages PROVE [Idle EXCEPT !.stage = st] \in Calls
      BY IdleType DEF Calls
    <3>2. QED
      BY <2>7, <3>1, BeginType DEF AskSnapshot, Stages, TypeOK
  <2>8. CASE SkipSnapshot(a)
    BY <2>8, ReturnType DEF SkipSnapshot, TypeOK
  <2>9. CASE ReadRow(a)
    <3>1. [Idle EXCEPT !.stage = "read", !.num = version, !.text = text, !.rev = rev]
              \in Calls
      BY IdleType DEF Calls, Stages, TypeOK
    <3>2. QED
      BY <2>9, <3>1, ContinueType DEF ReadRow, TypeOK
  <2>10. CASE CommitSnapshot(a)
    <3>1. [num |-> call[a].num + 1, text |-> call[a].text, rev |-> call[a].rev] \in Versions
      BY <2>10, <2>c DEF CommitSnapshot, ReadsHaveText, Versions
    <3>2. QED
      BY <2>10, <2>c, <3>1, ReturnType DEF CommitSnapshot, TypeOK
  <2>11. CASE AskReview(a)
    <3>1. [Idle EXCEPT !.stage = "review", !.num = version, !.rev = rev] \in Calls
      BY IdleType DEF Calls, Stages, TypeOK
    <3>2. QED
      BY <2>11, <3>1, BeginType DEF AskReview, TypeOK
  <2>12. ASSUME NEW d \in Decisions, CommitReview(a, d) PROVE TypeOK'
    <3>1. [decision |-> d, num |-> call[a].num, rev |-> call[a].rev] \in Reviews
      BY <2>c DEF Reviews
    <3>2. QED
      BY <2>12, <3>1, ReturnType DEF CommitReview, TypeOK
  <2>13. ASSUME NEW v \in versions, RestoreVersion(a, v) PROVE TypeOK'
    <3>1. v.text \in Texts /\ rev + 1 \in Nat
      BY DEF Versions, TypeOK
    <3>2. version' \in Nat /\ versions' \in SUBSET Versions
      BY <2>13, <3>1, CreateVersionType DEF RestoreVersion
    <3>3. QED
      BY <2>13, <3>1, <3>2, BeginType, IdleType DEF RestoreVersion, TypeOK
  <2>14. CASE MarkIngestDocumentDeprecated(a)
    BY <2>14, BeginType, IdleType DEF MarkIngestDocumentDeprecated, Statuses, TypeOK
  <2>15. CASE TransactionFails(a)
    BY <2>15, ReturnType DEF TransactionFails, TypeOK
  <2>16. QED
    BY <1>1, <2>1, <2>2, <2>3, <2>4, <2>5, <2>6, <2>7, <2>8, <2>9, <2>10,
       <2>11, <2>12, <2>13, <2>14, <2>15
    DEF ActorStep, ChangeStatus, Snapshot
<1>2. ASSUME NEW t \in Texts, SaveContent(t) PROVE TypeOK'
  BY <1>2 DEF SaveContent, TypeOK
<1>3. CASE UNCHANGED vars
  BY <1>3 DEF vars, TypeOK
<1>4. QED
  BY <1>1, <1>2, <1>3, NextSplit

\* The initial states are typed, and nobody has read anything.
LEMMA TypeInit == Init => TypeOK /\ ReadsHaveText
<1> SUFFICES ASSUME Init PROVE TypeOK /\ ReadsHaveText
  OBVIOUS
<1>1. ReadsHaveText
  BY DEF Init, ReadsHaveText, Idle
<1>2. TypeOK
  BY IdleType DEF Init, TypeOK, Statuses
<1>3. QED
  BY <1>1, <1>2

\* Every variable has its type in every reachable state.
THEOREM TypeCorrect == Spec => [](TypeOK /\ ReadsHaveText)
<1>1. (TypeOK /\ ReadsHaveText) /\ [Next]_vars => (TypeOK /\ ReadsHaveText)'
  BY TypeStep, ReadsStep
<1>2. QED
  BY <1>1, TypeInit, PTL DEF Spec

(***************************************************************************)
(* The version history.                                                    *)
(***************************************************************************)

\* No snapshot has a body younger than the document's, and a call that has read
\* its row knows a version that exists and a body at least as young as those of
\* the versions up to it.
RowsRead ==
    /\ \A v \in versions : v.rev <= rev
    /\ \A a \in Actors : call[a].stage = "read" =>
          /\ call[a].num <= version
          /\ call[a].rev <= rev
          /\ \A v \in versions : v.num <= call[a].num => v.rev <= call[a].rev

HistoryInv == VersionsDense /\ VersionsInOrder /\ RowsRead

\* One version more, with the next number and a body no older than any other's,
\* keeps the history dense and in order.
LEMMA CreateVersionKeeps ==
    ASSUME TypeOK, VersionsDense, VersionsInOrder, NEW t \in Texts, NEW r \in Nat,
           \A v \in versions : v.rev <= r,
           CreateVersion(t, r)
    PROVE  VersionsDense' /\ VersionsInOrder'
<1> DEFINE new == [num |-> version + 1, text |-> t, rev |-> r]
<1>1. /\ version \in Nat /\ version' = version + 1
      /\ versions' = versions \cup {new}
      /\ new.num = version + 1 /\ new.rev = r
  BY DEF CreateVersion, TypeOK
<1>2. \A v \in versions : v.num \in Nat /\ v.rev \in Nat /\ v.num \in 1 .. version
  BY DEF TypeOK, Versions, VersionsDense
<1> HIDE DEF new
<1>3. \A v \in versions' : v.num \in 1 .. version'
  BY <1>1, <1>2
<1>4. \A n \in 1 .. version' : \E v \in versions' : v.num = n
  <2>1. ASSUME NEW n \in 1 .. version', n # version + 1
        PROVE  \E v \in versions' : v.num = n
    <3>1. n \in 1 .. version
      BY <1>1, <2>1
    <3>2. QED
      BY <1>1, <3>1 DEF VersionsDense
  <2>2. QED
    BY <1>1, <2>1
<1>5. \A v, w \in versions' : v.num = w.num => v = w
  BY <1>1, <1>2 DEF VersionsDense
<1>6. VersionsInOrder'
  BY <1>1, <1>2 DEF VersionsInOrder
<1>7. QED
  BY <1>3, <1>4, <1>5, <1>6 DEF VersionsDense

\* The unique index makes a snapshot one whose row has not moved on: its number is
\* the next one, and its body no older than those of the versions there are.
LEMMA CommitSnapshotIsCreateVersion ==
    ASSUME TypeOK, HistoryInv, NEW a \in Actors, CommitSnapshot(a)
    PROVE  /\ CreateVersion(call[a].text, call[a].rev)
           /\ \A v \in versions : v.rev <= call[a].rev
<1>1. call[a].num \in Nat /\ call[a].num <= version /\ version \in Nat
  BY DEF CommitSnapshot, TypeOK, Calls, HistoryInv, RowsRead
<1>2. call[a].num + 1 \notin 1 .. version
  BY <1>1 DEF CommitSnapshot, HistoryInv, VersionsDense
<1>3. call[a].num = version
  BY <1>1, <1>2
<1>4. \A v \in versions : v.num <= call[a].num
  BY <1>3, <1>1 DEF HistoryInv, VersionsDense
<1>5. QED
  BY <1>3, <1>4 DEF CommitSnapshot, CreateVersion, HistoryInv, RowsRead

\* HistoryInv is inductive: an actor's step.
LEMMA HistoryActorStep ==
    ASSUME TypeOK, ReadsHaveText, HistoryInv, NEW a \in Actors, ActorStep(a)
    PROVE  HistoryInv'
<1> USE DEF body, history
<1>t. /\ version \in Nat /\ rev \in Nat
      /\ \A v \in versions : v.num \in Nat /\ v.rev \in Nat /\ v.num <= version
      /\ \A b \in Actors : call[b].num \in Nat /\ call[b].rev \in Nat
  BY DEF TypeOK, Versions, Calls, HistoryInv, VersionsDense
<1>1. CASE UNCHANGED <<version, versions, rev>> /\ ~ReadRow(a)
  <2>1. \A b \in Actors : call'[b].stage = "read" => call'[b] = call[b]
    BY <1>1, OneCallMoves
  <2>2. QED
    BY <1>1, <2>1 DEF HistoryInv, VersionsDense, VersionsInOrder, RowsRead
<1>2. CASE ReadRow(a)
  <2>1. UNCHANGED <<version, versions, rev>>
    BY <1>2 DEF ReadRow
  <2>2. call' = [call EXCEPT ![a] = [Idle EXCEPT !.stage = "read",
                      !.num = version, !.text = text, !.rev = rev]]
    BY <1>2 DEF ReadRow, Continue
  <2>3. call'[a].num = version /\ call'[a].rev = rev
    BY <2>2 DEF TypeOK, Idle
  <2>4. \A b \in Actors \ {a} : call'[b] = call[b]
    BY OneCallMoves
  <2>5. RowsRead'
    BY <2>1, <2>3, <2>4, <1>t DEF HistoryInv, RowsRead
  <2>6. QED
    BY <2>1, <2>5 DEF HistoryInv, VersionsDense, VersionsInOrder
<1>3. ASSUME NEW t \in Texts, NEW r \in Nat, CreateVersion(t, r), ~ReadRow(a),
             \A v \in versions : v.rev <= r,
             r <= rev', rev \in Nat, rev' \in Nat, rev <= rev'
      PROVE  HistoryInv'
  <2> DEFINE new == [num |-> version + 1, text |-> t, rev |-> r]
  <2>1. VersionsDense' /\ VersionsInOrder'
    BY <1>3, CreateVersionKeeps DEF HistoryInv
  <2>2. /\ version' = version + 1 /\ versions' = versions \cup {new}
        /\ new.num = version + 1 /\ new.rev = r
    BY <1>3 DEF CreateVersion
  <2> HIDE DEF new
  <2>3. \A b \in Actors : call'[b].stage = "read" => call'[b] = call[b]
    BY <1>3, OneCallMoves
  <2>4. \A v \in versions' : v.rev <= rev'
    BY <2>2, <1>3, <1>t DEF HistoryInv, RowsRead
  <2>5. ASSUME NEW b \in Actors, call'[b].stage = "read"
        PROVE  /\ call'[b].num <= version'
               /\ call'[b].rev <= rev'
               /\ \A v \in versions' : v.num <= call'[b].num => v.rev <= call'[b].rev
    <3>1. call'[b] = call[b] /\ call[b].num <= version /\ call[b].rev <= rev
      BY <2>3, <2>5 DEF HistoryInv, RowsRead
    <3>2. \A v \in versions : v.num <= call[b].num => v.rev <= call[b].rev
      BY <2>3, <2>5 DEF HistoryInv, RowsRead
    <3>3. ~(new.num <= call[b].num)
      BY <3>1, <2>2, <1>t
    <3>4. QED
      BY <3>1, <3>2, <3>3, <2>2, <1>3, <1>t
  <2>6. QED
    BY <2>1, <2>4, <2>5 DEF HistoryInv, RowsRead
<1>4. CASE CommitStatus(a) /\ ~ReadRow(a)
  <2>1. CASE CreateVersion(text, rev)
    BY <1>4, <2>1, <1>3, <1>t DEF CommitStatus, TypeOK, HistoryInv, RowsRead
  <2>2. CASE UNCHANGED history
    BY <1>4, <2>2, <1>1 DEF CommitStatus
  <2>3. QED
    BY <1>4, <2>1, <2>2 DEF CommitStatus
<1>5. CASE CommitSnapshot(a) /\ ~ReadRow(a)
  <2>1. /\ CreateVersion(call[a].text, call[a].rev)
        /\ \A v \in versions : v.rev <= call[a].rev
    BY <1>5, CommitSnapshotIsCreateVersion
  <2>2. call[a].text \in Texts /\ call[a].rev \in Nat /\ call[a].rev <= rev /\ rev' = rev
    BY <1>5, <1>t DEF CommitSnapshot, ReadsHaveText, HistoryInv, RowsRead
  <2>3. QED
    BY <1>5, <2>1, <2>2, <1>3, <1>t
<1>6. ASSUME NEW v \in versions, RestoreVersion(a, v), ~ReadRow(a) PROVE HistoryInv'
  <2>1. CreateVersion(v.text, rev + 1) /\ rev' = rev + 1
    BY <1>6 DEF RestoreVersion
  <2>2. v.text \in Texts /\ \A w \in versions : w.rev <= rev + 1
    BY <1>t DEF TypeOK, Versions, HistoryInv, RowsRead
  <2>3. QED
    BY <1>6, <2>1, <2>2, <1>3, <1>t
<1>7. CASE \/ \E to \in Statuses : AskStatus(a, to)
           \/ \E l \in BOOLEAN : AskSnapshot(a, l)
           \/ PinVersion(a) \/ CountApprovals(a) \/ SeeText(a) \/ SeeLatest(a)
           \/ SkipSnapshot(a) \/ AskReview(a)
           \/ (\E d \in Decisions : CommitReview(a, d))
           \/ MarkIngestDocumentDeprecated(a) \/ TransactionFails(a)
  <2>1. UNCHANGED <<version, versions, rev>>
    BY <1>7 DEF AskStatus, AskSnapshot, PinVersion, CountApprovals, SeeText, SeeLatest,
       SkipSnapshot, AskReview, CommitReview, MarkIngestDocumentDeprecated,
       TransactionFails
  <2>2. QED
    BY <2>1, <1>1, <1>2
<1>8. QED
  BY <1>2, <1>4, <1>5, <1>6, <1>7 DEF ActorStep, ChangeStatus, Snapshot

\* HistoryInv is inductive.
LEMMA HistoryStep == TypeOK /\ ReadsHaveText /\ HistoryInv /\ [Next]_vars => HistoryInv'
<1> SUFFICES ASSUME TypeOK, ReadsHaveText, HistoryInv, [Next]_vars PROVE HistoryInv'
  OBVIOUS
<1>1. ASSUME NEW t \in Texts, SaveContent(t) PROVE HistoryInv'
  <2>1. rev \in Nat /\ rev' = rev + 1 /\ UNCHANGED <<version, versions, call>>
    BY <1>1 DEF SaveContent, TypeOK, history
  <2>2. /\ \A v \in versions : v.rev \in Nat
        /\ \A a \in Actors : call[a].rev \in Nat
    BY DEF TypeOK, Versions, Calls
  <2>3. RowsRead'
    BY <2>1, <2>2 DEF HistoryInv, RowsRead
  <2>4. QED
    BY <2>1, <2>3 DEF HistoryInv, VersionsDense, VersionsInOrder
<1>2. CASE UNCHANGED vars
  BY <1>2 DEF vars, history, body, HistoryInv, VersionsDense, VersionsInOrder, RowsRead
<1>3. QED
  BY <1>1, <1>2, HistoryActorStep, NextSplit

\* A new document has no history.
LEMMA HistoryInit == Init => HistoryInv
BY DEF Init, HistoryInv, VersionsDense, VersionsInOrder, RowsRead, Idle

\* However snapshots, status changes and restores of a document overlap or fail,
\* its history has the versions 1 .. currentVersion, each once, and runs forward.
THEOREM HistoryIsSound == Spec => []HistoryHolds
<1>1. (TypeOK /\ ReadsHaveText /\ HistoryInv) /\ [Next]_vars
        => (TypeOK /\ ReadsHaveText /\ HistoryInv)'
  BY TypeStep, ReadsStep, HistoryStep
<1>2. Init => TypeOK /\ ReadsHaveText /\ HistoryInv
  BY TypeInit, HistoryInit
<1>3. TypeOK /\ HistoryInv => HistoryHolds
  BY DEF HistoryInv, HistoryHolds
<1>4. QED
  BY <1>1, <1>2, <1>3, PTL DEF Spec

(***************************************************************************)
(* The approving-review gate.                                              *)
(***************************************************************************)

HasApproval == \E r \in reviews : r.decision = "APPROVE"

\* A call past the gate that is about to sanction the document acts on a review
\* that stays, or on a status that was sanctioned: the status it read may have
\* changed since, but reviews are never withdrawn.
GatePassed ==
    \A a \in Actors : call[a].stage = "look" /\ call[a].to \in Sanctioned => HasApproval

GateInv == NothingApprovedUnreviewed /\ GatePassed

\* Reviews are never withdrawn.
LEMMA ReviewsStay == [Next]_vars => reviews \subseteq reviews'
BY DEF Next, vars, ChangeStatus, Snapshot, AskStatus, PinVersion, CountApprovals,
   SeeText, SeeLatest, CommitStatus, AskSnapshot, SkipSnapshot, ReadRow, CommitSnapshot,
   AskReview, CommitReview, RestoreVersion, MarkIngestDocumentDeprecated,
   TransactionFails, SaveContent

\* A transition to a status behind the gate starts behind the gate, or is the one
\* the approving reviews are counted for.
LEMMA SanctionedFrom ==
    ASSUME NEW s \in Statuses, NEW to \in Transitions[s], to \in Sanctioned,
           ~RequiresApprovingReview(s, to)
    PROVE  s \in Sanctioned
BY DEF Statuses, Transitions, Sanctioned, RequiresApprovingReview

\* GateInv is inductive: an actor's step.
LEMMA GateActorStep ==
    ASSUME TypeOK, GateInv, NEW a \in Actors, ActorStep(a)
    PROVE  GateInv'
<1>s. HasApproval => HasApproval'
  <2>1. reviews \subseteq reviews'
    BY ReviewsStay, NextSplit
  <2>2. QED
    BY <2>1 DEF HasApproval
<1>c. call \in [Actors -> Calls] /\ call[a] \in Calls
  BY DEF TypeOK
<1>o. \A b \in Actors \ {a} : call'[b] = call[b]
  BY OneCallMoves
\* What is left to show of a step: where its status and its call come from.
<1>g. ASSUME status' \in Sanctioned => status \in Sanctioned \/ HasApproval,
             call'[a].stage = "look" /\ call'[a].to \in Sanctioned => HasApproval'
      PROVE  GateInv'
  BY <1>g, <1>s, <1>o DEF GateInv, GatePassed, NothingApprovedUnreviewed, HasApproval
<1>1. ASSUME NEW to \in Statuses, AskStatus(a, to) PROVE GateInv'
  <2> DEFINE st == IF RequiresApprovingReview(status, to) THEN "pin" ELSE "look"
             c == [Idle EXCEPT !.stage = st, !.to = to, !.from = status]
  <2>1. call'[a] = c
    BY <1>1, <1>c DEF AskStatus, Begin
  <2>2. c.stage = st /\ c.to = to
    BY DEF Idle
  <2>3. status' = status /\ to \in Transitions[status] /\ status \in Statuses
    BY <1>1 DEF AskStatus, TypeOK
  <2>4. st = "look" => ~RequiresApprovingReview(status, to)
    OBVIOUS
  <2> HIDE DEF c, st
  <2>5. c.stage = "look" /\ c.to \in Sanctioned => status \in Sanctioned
    BY <2>2, <2>3, <2>4, SanctionedFrom
  <2>6. status \in Sanctioned => HasApproval
    BY DEF GateInv, NothingApprovedUnreviewed, HasApproval
  <2>7. QED
    BY <2>1, <2>3, <2>5, <2>6, <1>s, <1>g
<1>2. CASE CountApprovals(a)
  <2>1. status' = status
    BY <1>2 DEF CountApprovals
  <2>2. CASE Approvals(call[a].num) # {}
    <3>1. HasApproval
      BY <2>2 DEF Approvals, HasApproval
    <3>2. QED
      BY <3>1, <2>1, <1>s, <1>g
  <2>3. CASE Return(a)
    <3>1. call'[a].stage = "idle"
      BY <2>3, <1>c DEF Return, Idle
    <3>2. QED
      BY <3>1, <2>1, <1>g
  <2>4. QED
    BY <1>2, <2>2, <2>3 DEF CountApprovals
<1>3. CASE SeeText(a) \/ SeeLatest(a)
  <2>1. status' = status /\ call[a].stage = "look"
    BY <1>3 DEF SeeText, SeeLatest
  <2>2. call'[a].to = call[a].to
    <3>1. ASSUME NEW c, call' = [call EXCEPT ![a] = c], c.to = call[a].to
          PROVE  call'[a].to = call[a].to
      BY <3>1, <1>c
    <3>2. /\ [call[a] EXCEPT !.text = text].to = call[a].to
          /\ [call[a] EXCEPT !.saw = TRUE].to = call[a].to
      BY <1>c DEF Calls
    <3>3. ASSUME NEW t
          PROVE  [call[a] EXCEPT !.saw = TRUE, !.latest = t].to = call[a].to
      BY <1>c DEF Calls
    <3>4. CASE SeeText(a)
      BY <3>1, <3>2, <3>4 DEF SeeText, Continue
    <3>5. CASE SeeLatest(a)
      BY <3>1, <3>2, <3>3, <3>5 DEF SeeLatest, Continue
    <3>6. QED
      BY <1>3, <3>4, <3>5
  <2>3. call[a].to \in Sanctioned => HasApproval
    BY <2>1 DEF GateInv, GatePassed
  <2>4. QED
    BY <2>1, <2>2, <2>3, <1>s, <1>g
<1>4. CASE CommitStatus(a)
  <2>1. /\ call[a].stage = "look" /\ status' = call[a].to
        /\ call'[a].stage = "idle"
    BY <1>4, <1>c DEF CommitStatus, Looked, Return, Idle
  <2>2. QED
    BY <2>1, <1>g DEF GateInv, GatePassed
<1>5. ASSUME NEW l \in BOOLEAN, AskSnapshot(a, l) PROVE GateInv'
  <2> DEFINE st == IF l THEN "snap" ELSE "look"
  <2>1. call'[a] = [Idle EXCEPT !.stage = st] /\ status' = status
    BY <1>5, <1>c DEF AskSnapshot, Begin
  <2>2. [Idle EXCEPT !.stage = st].to = Absent
    BY DEF Idle
  <2>3. Absent \notin Sanctioned
    BY ConstantsAssumption DEF Sanctioned, Statuses
  <2>4. QED
    BY <2>1, <2>2, <2>3, <1>g
<1>6. CASE \/ PinVersion(a) \/ ReadRow(a) \/ AskReview(a)
  <2>1. [call[a] EXCEPT !.stage = "count", !.num = version].stage = "count"
    BY <1>c DEF Calls
  <2>2. [Idle EXCEPT !.stage = "read", !.num = version, !.text = text, !.rev = rev].stage
            = "read"
    BY DEF Idle
  <2>3. [Idle EXCEPT !.stage = "review", !.num = version, !.rev = rev].stage = "review"
    BY DEF Idle
  <2>4. ASSUME NEW c, call' = [call EXCEPT ![a] = c], c.stage # "look"
        PROVE  call'[a].stage # "look"
    BY <2>4, <1>c
  <2>5. call'[a].stage # "look" /\ status' = status
    BY <1>6, <2>1, <2>2, <2>3, <2>4
    DEF PinVersion, ReadRow, AskReview, Begin, Continue
  <2>6. QED
    BY <2>5, <1>g
<1>7. CASE \/ SkipSnapshot(a) \/ CommitSnapshot(a) \/ TransactionFails(a)
           \/ \E d \in Decisions : CommitReview(a, d)
  <2>1. call'[a] = Idle /\ status' = status
    BY <1>7, <1>c DEF SkipSnapshot, CommitSnapshot, TransactionFails, CommitReview, Return
  <2>2. QED
    BY <2>1, <1>g DEF Idle
<1>8. CASE \E v \in versions : RestoreVersion(a, v)
  <2>1. call'[a] = Idle /\ status' = status
    BY <1>8, <1>c DEF RestoreVersion, Begin
  <2>2. QED
    BY <2>1, <1>g DEF Idle
<1>9. CASE MarkIngestDocumentDeprecated(a)
  <2>1. call'[a] = Idle /\ status' = "DEPRECATED"
    BY <1>9, <1>c DEF MarkIngestDocumentDeprecated, Begin
  <2>2. QED
    BY <2>1, <1>g DEF Idle, Sanctioned
<1>10. QED
  BY <1>1, <1>2, <1>3, <1>4, <1>5, <1>6, <1>7, <1>8, <1>9
  DEF ActorStep, ChangeStatus, Snapshot

\* GateInv is inductive.
LEMMA GateStep == TypeOK /\ GateInv /\ [Next]_vars => GateInv'
<1> SUFFICES ASSUME TypeOK, GateInv, [Next]_vars PROVE GateInv'
  OBVIOUS
<1>1. ASSUME NEW t \in Texts, SaveContent(t) PROVE GateInv'
  BY <1>1 DEF SaveContent, GateInv, GatePassed, HasApproval, NothingApprovedUnreviewed
<1>2. CASE UNCHANGED vars
  BY <1>2 DEF vars, GateInv, GatePassed, HasApproval, NothingApprovedUnreviewed
<1>3. QED
  BY <1>1, <1>2, GateActorStep, NextSplit

\* Nobody is past the gate at first, and a new document is a draft.
LEMMA GateInit == Init => GateInv
BY DEF Init, GateInv, GatePassed, NothingApprovedUnreviewed, Sanctioned, Idle

\* No race of status changes, reviews, snapshots, restores and ingests gets a
\* document approved, being implemented or implemented that nobody approved.
THEOREM GateHolds == Spec => []NothingApprovedUnreviewed
<1>1. (TypeOK /\ ReadsHaveText /\ GateInv) /\ [Next]_vars
        => (TypeOK /\ ReadsHaveText /\ GateInv)'
  BY TypeStep, ReadsStep, GateStep
<1>2. Init => TypeOK /\ ReadsHaveText /\ GateInv
  BY TypeInit, GateInit
<1>3. GateInv => NothingApprovedUnreviewed
  BY DEF GateInv
<1>4. QED
  BY <1>1, <1>2, <1>3, PTL DEF Spec

-----------------------------------------------------------------------------
(***************************************************************************)
(* KeyboardShortcuts, for any pause and any number of keys, steps of time  *)
(* and pages: keys are neither lost nor kept beyond the pause.             *)
(***************************************************************************)

BoardRow == [mounted : BOOLEAN, buffer : Seq(Keys0), timer : Nat, next : Nat \ {0}]
PaletteRow == [open : BOOLEAN, waiting : Ids \cup {NoCommand}, offered : SUBSET Ids]
Timer(id, at) == [id |-> id, due |-> at]

\* The inductive invariant.  What is in the buffer was typed within the pause, and there is
\* one timer, for the last key; with an empty buffer there is none, and what was typed
\* before is over.
BufferIsTimed ==
    \/ /\ board.buffer = <<>> /\ board.timer = 0 /\ timers = {}
       /\ strokes = <<>> \/ struck + ChordTimeout <= time
    \/ /\ board.mounted /\ Len(board.buffer) = 1 /\ strokes = board.buffer
       /\ board.timer # 0 /\ timers = {Timer(board.timer, struck + ChordTimeout)}

KeysInv ==
    /\ board \in BoardRow /\ palette \in PaletteRow
    /\ time \in Nat /\ struck \in Nat /\ struck <= time
    /\ place \in {"spec", "elsewhere"} /\ visited # "elsewhere"
    /\ BufferIsTimed

LEMMA KeyFacts ==
    ASSUME KeysInv
    PROVE  /\ board.mounted \in BOOLEAN /\ board.buffer \in Seq(Keys0) /\ Len(board.buffer) \in Nat
           /\ board.timer \in Nat /\ board.next \in Nat \ {0}
           /\ palette.waiting \in Ids \cup {NoCommand} /\ palette.offered \subseteq Ids
           /\ ChordTimeout \in Nat \ {0} /\ <<>> \in Seq(Keys0)
  BY KeyboardAssumption DEF KeysInv, BoardRow, PaletteRow

\* No shortcut is of more than two keys.
LEMMA ShortcutsAreShort ==
    /\ Len(Shortcuts) = 4
    /\ \A n \in 1..Len(Shortcuts) : Len(Shortcuts[n].keys) <= 2 /\ Len(Shortcuts[n].keys) \in Nat
<1>1. Len(Shortcuts) = 4
  BY DEF Shortcuts
<1>2. \A n \in 1..4 : n = 1 \/ n = 2 \/ n = 3 \/ n = 4
  OBVIOUS
<1>3. /\ Shortcuts[1].keys = <<"$mod+k">> /\ Shortcuts[2].keys = <<"g", "d">>
      /\ Shortcuts[3].keys = <<"g", "g">> /\ Shortcuts[4].keys = <<"g", "h">>
  BY DEF Shortcuts
<1>4. /\ Len(<<"$mod+k">>) = 1 /\ Len(<<"g", "d">>) = 2
      /\ Len(<<"g", "g">>) = 2 /\ Len(<<"g", "h">>) = 2
  OBVIOUS
<1>5. /\ Len(Shortcuts[1].keys) = 1 /\ Len(Shortcuts[2].keys) = 2
      /\ Len(Shortcuts[3].keys) = 2 /\ Len(Shortcuts[4].keys) = 2
  BY <1>3, <1>4
<1>6. ASSUME NEW n \in 1..4
      PROVE  Len(Shortcuts[n].keys) <= 2 /\ Len(Shortcuts[n].keys) \in Nat
  <2>1. Len(Shortcuts[n].keys) = 1 \/ Len(Shortcuts[n].keys) = 2
    BY <1>2, <1>5
  <2>2. \A k : k = 1 \/ k = 2 => k <= 2 /\ k \in Nat
    OBVIOUS
  <2>3. QED
    BY <2>1, <2>2, Zenon
<1>7. QED
  BY <1>1, <1>6

LEMMA HandleKeeps ==
    ASSUME KeysInv, NEW id, Handle(id)
    PROVE  place' \in {"spec", "elsewhere"} /\ visited' # "elsewhere"
  BY DEF KeysInv, Handle

LEMMA EmptiesBuffer ==
    ASSUME KeysInv,
           board' \in BoardRow, board'.buffer = <<>>, board'.timer = 0,
           timers' \subseteq {t \in timers : t.id # board.timer}
    PROVE  timers' = {}
  BY DEF KeysInv, BufferIsTimed, Timer

LEMMA ResetsBuffer ==
    ASSUME KeysInv, ResetBuffer
    PROVE  /\ board' \in BoardRow /\ timers' = {}
           /\ board'.buffer = <<>> /\ board'.timer = 0
<1>1. board' \in BoardRow /\ board'.buffer = <<>> /\ board'.timer = 0
  BY KeyFacts DEF ResetBuffer, KeysInv, BoardRow
<1>2. QED
  BY <1>1, EmptiesBuffer DEF ResetBuffer

LEMMA KeyInitInv == KeyInit => KeysInv
<1> SUFFICES ASSUME KeyInit PROVE KeysInv
  OBVIOUS
<1>1. board \in BoardRow
  BY DEF KeyInit, BoardRow
<1>2. Offered \subseteq Ids
  BY DEF Offered
<1>3. palette \in PaletteRow
  BY <1>2 DEF KeyInit, PaletteRow
<1>4. board.buffer = <<>> /\ board.timer = 0
  BY DEF KeyInit
<1>5. QED
  BY <1>1, <1>3, <1>4 DEF KeyInit, KeysInv, BufferIsTimed, NoCommand

\* A key that runs a shortcut, or is none's, empties the buffer; one that begins a
\* sequence is in it, as the first.
LEMMA PressInv ==
    ASSUME KeysInv, NEW c \in Keys0, NEW editable \in BOOLEAN, Press(c, editable)
    PROVE  KeysInv'
<1> DEFINE Unheard == editable /\ c # "$mod+k"
           sequence == Append(board.buffer, c)
           typed == Append(IF time - struck >= ChordTimeout /\ board.buffer = <<>>
                           THEN <<>> ELSE strokes, c)
<1>1. time' = time
  BY DEF Press
<1>2. CASE Unheard
  BY <1>1, <1>2 DEF Press, KeysInv, BufferIsTimed
<1>3. CASE ~Unheard
  <2>1. struck' = time
    BY <1>3 DEF Press
  <2>2. \/ \E id : /\ Handle(id) /\ ResetBuffer /\ strokes' = <<>>
                   /\ palette' = palette \/ palette' = [palette EXCEPT !.open = ~palette.open]
        \/ /\ UNCHANGED <<place, visited, palette>>
           /\ \/ /\ \E n \in 1..Len(Shortcuts) : Len(Shortcuts[n].keys) > Len(sequence)
                 /\ strokes' = typed
                 /\ board' = [board EXCEPT !.buffer = sequence, !.timer = board.next,
                                           !.next = @ + 1]
                 /\ timers' = {t \in timers : t.id # board.timer} \cup
                              {[id |-> board.next, due |-> time + ChordTimeout]}
              \/ ResetBuffer /\ strokes' = <<>>
    BY <1>3 DEF Press
  <2>3. CASE /\ board' \in BoardRow /\ timers' = {} /\ strokes' = <<>>
             /\ board'.buffer = <<>> /\ board'.timer = 0
             /\ palette' \in PaletteRow
             /\ place' \in {"spec", "elsewhere"} /\ visited' # "elsewhere"
    BY <1>1, <2>1, <2>3 DEF KeysInv, BufferIsTimed
  <2>4. ASSUME NEW id, Handle(id), ResetBuffer, strokes' = <<>>,
               palette' = palette \/ palette' = [palette EXCEPT !.open = ~palette.open]
        PROVE  KeysInv'
    <3>1. palette' \in PaletteRow
      BY <2>4 DEF KeysInv, PaletteRow
    <3>2. QED
      BY <2>3, <2>4, <3>1, HandleKeeps, ResetsBuffer
  <2>5. CASE UNCHANGED <<place, visited, palette>> /\ ResetBuffer /\ strokes' = <<>>
    BY <2>3, <2>5, ResetsBuffer DEF KeysInv
  <2>6. CASE /\ UNCHANGED <<place, visited, palette>>
             /\ \E n \in 1..Len(Shortcuts) : Len(Shortcuts[n].keys) > Len(sequence)
             /\ strokes' = typed
             /\ board' = [board EXCEPT !.buffer = sequence, !.timer = board.next, !.next = @ + 1]
             /\ timers' = {t \in timers : t.id # board.timer} \cup
                          {[id |-> board.next, due |-> time + ChordTimeout]}
    <3>1. Len(sequence) = Len(board.buffer) + 1 /\ sequence \in Seq(Keys0)
      BY KeyFacts
    <3>2. Len(sequence) < 2
      <4>1. PICK n \in 1..Len(Shortcuts) : Len(Shortcuts[n].keys) > Len(sequence)
        BY <2>6
      <4>2. Len(Shortcuts[n].keys) <= 2 /\ Len(Shortcuts[n].keys) \in Nat
        BY ShortcutsAreShort
      <4>3. QED
        BY <3>1, <4>1, <4>2, KeyFacts
    <3>3. board.buffer = <<>> /\ Len(sequence) = 1
      BY <3>1, <3>2, KeyFacts DEF KeysInv, BufferIsTimed
    <3>4. timers = {} /\ (strokes = <<>> \/ struck + ChordTimeout <= time)
      BY <3>3 DEF KeysInv, BufferIsTimed
    <3>5. typed = sequence
      <4>1. struck + ChordTimeout <= time => time - struck >= ChordTimeout
        BY KeyFacts DEF KeysInv
      <4>2. (IF time - struck >= ChordTimeout /\ board.buffer = <<>> THEN <<>> ELSE strokes)
               = board.buffer
        BY <3>3, <3>4, <4>1
      <4>3. QED
        BY <4>2
    <3>6. /\ board' \in BoardRow /\ board'.buffer = sequence /\ board'.timer = board.next
          /\ board'.mounted = board.mounted
      <4>1. board \in BoardRow /\ board.next + 1 \in Nat \ {0} /\ board.next \in Nat
        BY KeyFacts DEF KeysInv
      <4>2. board' = [board EXCEPT !.buffer = sequence, !.timer = board.next,
                                   !.next = board.next + 1]
        BY <2>6
      <4> HIDE DEF sequence
      <4>3. QED
        BY <3>1, <4>1, <4>2 DEF BoardRow
    <3>7. timers' = {Timer(board'.timer, struck' + ChordTimeout)}
      BY <2>1, <2>6, <3>4, <3>6 DEF Timer
    <3>8. board.mounted
      BY DEF Press
    <3>9. BufferIsTimed'
      BY <2>6, <3>3, <3>5, <3>6, <3>7, <3>8, KeyFacts DEF BufferIsTimed
    <3>10. QED
      BY <1>1, <2>1, <2>6, <3>6, <3>9 DEF KeysInv
  <2>7. QED
    BY <2>2, <2>4, <2>5, <2>6
<1>4. QED
  BY <1>2, <1>3

LEMMA OtherKeysInv ==
    ASSUME KeysInv,
           \/ Tick0 \/ Travel \/ Unmount \/ Mount \/ Frame
           \/ \E t \in timers : TimerFires(t)
           \/ \E id \in Ids : RunCommand(id)
    PROVE  KeysInv'
<1>1. CASE Tick0
  <2>1. time' = time + 1 /\ UNCHANGED <<board, timers, place, palette, visited, strokes, struck>>
    BY <1>1 DEF Tick0
  <2>2. BufferIsTimed'
    BY <2>1, KeyFacts DEF KeysInv, BufferIsTimed, Timer
  <2>3. QED
    BY <2>1, <2>2 DEF KeysInv
<1>2. CASE Travel
  BY <1>2 DEF Travel, KeysInv, BufferIsTimed
<1>3. CASE Unmount
  <2>1. board' \in BoardRow /\ board'.buffer = <<>> /\ board'.timer = 0
    BY <1>3, KeyFacts DEF Unmount, KeysInv, BoardRow
  <2>2. timers' = {}
    BY <1>3, <2>1, EmptiesBuffer DEF Unmount
  <2>3. palette' \in PaletteRow
    BY <1>3, KeyFacts DEF Unmount, KeysInv, PaletteRow
  <2>4. strokes' = <<>> /\ UNCHANGED <<time, place, visited, struck>>
    BY <1>3 DEF Unmount
  <2>5. QED
    BY <2>1, <2>2, <2>3, <2>4 DEF KeysInv, BufferIsTimed
<1>4. CASE Mount
  <2>1. board.buffer = <<>> /\ board.timer = 0 /\ timers = {}
        /\ (strokes = <<>> \/ struck + ChordTimeout <= time)
    BY <1>4 DEF Mount, KeysInv, BufferIsTimed
  <2>2. board' \in BoardRow /\ board'.buffer = board.buffer /\ board'.timer = board.timer
    BY <1>4, KeyFacts DEF Mount, KeysInv, BoardRow
  <2>3. Offered' \subseteq Ids
    BY DEF Offered
  <2>4. palette' \in PaletteRow
    BY <1>4, <2>3, KeyFacts DEF Mount, KeysInv, PaletteRow
  <2>5. /\ UNCHANGED <<timers, time, visited, strokes, struck>>
        /\ place' \in {"spec", "elsewhere"}
    BY <1>4 DEF Mount
  <2>6. QED
    BY <2>1, <2>2, <2>4, <2>5 DEF KeysInv, BufferIsTimed
<1>5. CASE Frame
  <2>1. palette' \in PaletteRow
    BY <1>5, KeyFacts DEF Frame, KeysInv, PaletteRow
  <2>2. place' \in {"spec", "elsewhere"} /\ visited' # "elsewhere"
    BY <1>5, HandleKeeps DEF Frame
  <2>3. QED
    BY <1>5, <2>1, <2>2 DEF Frame, KeysInv, BufferIsTimed
<1>6. ASSUME NEW t \in timers, TimerFires(t) PROVE KeysInv'
  <2>1. timers = {Timer(board.timer, struck + ChordTimeout)}
    BY <1>6 DEF KeysInv, BufferIsTimed
  <2>2. t.due = struck + ChordTimeout /\ t.id = board.timer
    BY <1>6, <2>1 DEF Timer
  <2>3. struck + ChordTimeout <= time
    BY <1>6, <2>2 DEF TimerFires
  <2>4. board' \in BoardRow /\ board'.buffer = <<>> /\ board'.timer = 0
    BY <1>6, KeyFacts DEF TimerFires, KeysInv, BoardRow
  <2>5. timers' = {}
    BY <1>6, <2>1 DEF TimerFires
  <2>6. UNCHANGED <<time, place, palette, visited, strokes, struck>>
    BY <1>6 DEF TimerFires
  <2>7. QED
    BY <2>3, <2>4, <2>5, <2>6 DEF KeysInv, BufferIsTimed
<1>7. ASSUME NEW id \in Ids, RunCommand(id) PROVE KeysInv'
  <2>1. palette' \in PaletteRow
    BY <1>7, KeyFacts DEF RunCommand, KeysInv, PaletteRow
  <2>2. QED
    BY <1>7, <2>1 DEF RunCommand, KeysInv, BufferIsTimed
<1>8. QED
  BY <1>1, <1>2, <1>3, <1>4, <1>5, <1>6, <1>7

\* Whatever timers, pages and palettes come between: no key of a sequence is lost before
\* the pause is over, none is kept beyond it, and a command that was left over does nothing
\* elsewhere (listener.tsx, use-global-shortcuts.ts).
THEOREM KeysAlwaysReachTheirCommand == KeySpec => []KeysReachTheirCommand
<1>1. KeysInv /\ [KeyNext]_keyVars => KeysInv'
  <2> SUFFICES ASSUME KeysInv, [KeyNext]_keyVars PROVE KeysInv'
    OBVIOUS
  <2>1. CASE UNCHANGED keyVars
    BY <2>1 DEF keyVars, KeysInv, BufferIsTimed
  <2>2. CASE KeyNext
    BY <2>2, PressInv, OtherKeysInv DEF KeyNext
  <2>3. QED
    BY <2>1, <2>2
<1>2. KeysInv => KeysReachTheirCommand
  <2> SUFFICES ASSUME KeysInv PROVE KeysReachTheirCommand
    OBVIOUS
  <2>1. /\ Cardinality(timers) <= 1
        /\ \A t \in timers : t.due <= time + ChordTimeout
        /\ board.timer # 0 => board.mounted /\ \E t \in timers : t.id = board.timer
    <3>1. CASE timers = {} /\ board.timer = 0
      BY <3>1, FS_EmptySet
    <3>2. CASE board.mounted /\ timers = {Timer(board.timer, struck + ChordTimeout)}
      <4> DEFINE t == Timer(board.timer, struck + ChordTimeout)
      <4>1. t.id = board.timer /\ t.due = struck + ChordTimeout
        BY DEF Timer
      <4>2. struck + ChordTimeout <= time + ChordTimeout
        BY KeyFacts DEF KeysInv
      <4>3. Cardinality({t}) = 1
        BY FS_Singleton
      <4> HIDE DEF t
      <4>4. QED
        BY <3>2, <4>1, <4>2, <4>3 DEF t
    <3>3. QED
      BY <3>1, <3>2 DEF KeysInv, BufferIsTimed
  <2>4. Len(board.buffer) < 2
    <3>1. board.buffer = <<>> => Len(board.buffer) = 0
      OBVIOUS
    <3>2. \A k : k = 0 \/ k = 1 => k < 2
      OBVIOUS
    <3>3. QED
      BY <3>1, <3>2, Zenon DEF KeysInv, BufferIsTimed
  <2>5. KeysTypeOK
    BY <2>1, <2>4, KeyFacts DEF KeysTypeOK
  <2>6. NoKeyIsLost
    BY KeyFacts DEF NoKeyIsLost, KeysInv, BufferIsTimed
  <2>7. QED
    BY <2>5, <2>6 DEF KeysReachTheirCommand, StaleCommandsRest, KeysInv
<1>3. QED
  BY KeyInitInv, <1>1, <1>2, PTL DEF KeySpec
=============================================================================
