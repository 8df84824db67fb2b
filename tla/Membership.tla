----------------------------- MODULE Membership -----------------------------
(***************************************************************************)
(* The members of a workspace, their roles there and in one project        *)
(* (apps/web/src/lib/actions/members.ts), and what a role permits          *)
(* (packages/core/src/rbac): the decision every Server Action and the      *)
(* handshake of the collaboration server ask for.                          *)
(*                                                                         *)
(* A call checks the permission, reads the membership, counts the owners   *)
(* where the change would take one away, and writes: four steps, none of   *)
(* which holds off another call.                                           *)
(***************************************************************************)
EXTENDS Naturals, FiniteSets

CONSTANTS
    Users,          \* who may ever be a member
    Grantable,      \* the roles calls ask for
    Founders,       \* owners at first: the creator and those he made owners
    MaxChanges,     \* bound: calls begun
    NoRole          \* no membership

MemberRoles == {"OWNER", "ARCHITECT", "ENGINEER", "REVIEWER", "VIEWER"}

ASSUME MembershipAssumption ==
    /\ Grantable \subseteq MemberRoles
    /\ IsFiniteSet(Users)
    /\ Founders \subseteq Users /\ Founders # {}
    /\ MaxChanges \in Nat
    /\ NoRole \notin MemberRoles

VARIABLES
    role,       \* the Membership rows: per user, in the workspace and in the project
    change,     \* per user: the call he makes
    editing,    \* users with a socket to the project's document
    changes,    \* calls so far
    overtook       \* history: did a call write what it had not looked at?

memberVars == <<role, change, editing, changes, overtook>>

-----------------------------------------------------------------------------
Levels == {"workspace", "project"}

\* ROLE_CAPABILITIES, as far as documents, members and projects go.
Capabilities ==
    [r \in MemberRoles |->
        CASE r = "OWNER" -> {"members.manage", "project.create", "doc.edit", "doc.read"}
          [] r = "ARCHITECT" -> {"project.create", "doc.edit", "doc.read"}
          [] r = "ENGINEER" -> {"doc.edit", "doc.read"}
          [] r \in {"REVIEWER", "VIEWER"} -> {"doc.read"}]

\* resolveEffectiveRole: a role in the project overrides, also downwards.
EffectiveRole(u, level) ==
    IF level = "project" /\ role[u].project # NoRole
    THEN role[u].project ELSE role[u].workspace

\* requirePermission.
Permitted(u, level, permission) ==
    /\ EffectiveRole(u, level) # NoRole
    /\ permission \in Capabilities[EffectiveRole(u, level)]

Owners == {u \in Users : role[u].workspace = "OWNER"}

ChangeStages == {"idle", "find", "count", "commit"}
NoChange == [stage |-> "idle", whom |-> NoRole, level |-> "workspace", to |-> NoRole,
          read |-> NoRole, owners |-> 0]

MembershipTypeOK ==
    /\ role \in [Users -> [Levels -> MemberRoles \cup {NoRole}]]
    /\ change \in [Users -> [stage : ChangeStages, whom : Users \cup {NoRole}, level : Levels,
                             to : Grantable \cup {NoRole}, read : MemberRoles \cup {NoRole},
                             owners : Nat]]
    /\ \A u \in Users : change[u].stage \in {"count", "commit"} => change[u].read # NoRole
    /\ editing \subseteq Users
    /\ changes \in Nat /\ overtook \in BOOLEAN

\* createWorkspace makes its creator an owner; others came with roles of their own.
MembershipInit ==
    /\ role = [u \in Users |-> [workspace |-> IF u \in Founders THEN "OWNER" ELSE "ENGINEER",
                                project |-> IF u \in Founders THEN "VIEWER" ELSE NoRole]]
    /\ change = [u \in Users |-> NoChange]
    /\ editing = {} /\ changes = 0 /\ overtook = FALSE

-----------------------------------------------------------------------------
(***************************************************************************)
(* changeMemberRole and removeMember, which asks for no role.              *)
(***************************************************************************)

Becomes(u, c) == change' = [change EXCEPT ![u] = c]
Done(u) == Becomes(u, NoChange)

AskChange(u, v, level, to) ==
    /\ change[u].stage = "idle"
    /\ changes < MaxChanges /\ changes' = changes + 1
    /\ Permitted(u, "workspace", "members.manage")
    /\ Becomes(u, [NoChange EXCEPT !.stage = "find", !.whom = v, !.level = level, !.to = to])
    /\ UNCHANGED <<role, editing, overtook>>

\* The row there is; a role that takes no owner away is not guarded, and one that
\* the member has is not written.
FindMembership(u) ==
    /\ change[u].stage = "find"
    /\ LET c == change[u]
           r == role[c.whom][c.level]
       IN IF r = NoRole \/ r = c.to THEN Done(u)
          ELSE Becomes(u, [c EXCEPT !.read = r,
                  !.stage = IF r = "OWNER" /\ c.level = "workspace"
                            THEN "count" ELSE "commit"])
    /\ UNCHANGED <<role, editing, changes, overtook>>

\* Fault: the count is of the owners that would be left.
CountOwnersLeft(u) ==
    /\ change[u].stage = "count"
    /\ IF Cardinality(Owners) < 1 THEN Done(u)
       ELSE Becomes(u, [change[u] EXCEPT !.stage = "commit", !.owners = Cardinality(Owners)])
    /\ UNCHANGED <<role, editing, changes, overtook>>

\* The last owner is neither demoted nor removed.
CountOwners(u) ==
    /\ change[u].stage = "count"
    /\ IF Cardinality(Owners) <= 1 THEN Done(u)
       ELSE Becomes(u, [change[u] EXCEPT !.stage = "commit", !.owners = Cardinality(Owners)])
    /\ UNCHANGED <<role, editing, changes, overtook>>

\* The row is written by its id, whatever it says by now; one that is gone is an error.
CommitChange(u) ==
    /\ change[u].stage = "commit"
    /\ LET c == change[u] IN
       \/ /\ role[c.whom][c.level] # NoRole
          /\ role' = [role EXCEPT ![c.whom][c.level] = c.to]
          /\ overtook' = (overtook \/ role[c.whom][c.level] # c.read
                             \/ c.owners \notin {0, Cardinality(Owners)})
       \/ /\ role[c.whom][c.level] = NoRole
          /\ UNCHANGED <<role, overtook>>
    /\ Done(u)
    /\ UNCHANGED <<editing, changes>>

\* authorizeHandshake: asked once per connection, for the role in the project.
Admit(u) ==
    /\ u \notin editing
    /\ Permitted(u, "project", "doc.edit")
    /\ editing' = editing \cup {u}
    /\ UNCHANGED <<role, change, changes, overtook>>

DropSession(u) ==
    /\ u \in editing
    /\ editing' = editing \ {u}
    /\ UNCHANGED <<role, change, changes, overtook>>

MembershipNext ==
    \E u \in Users :
        \/ \E v \in Users, level \in Levels, to \in Grantable \cup {NoRole} :
              AskChange(u, v, level, to)
        \/ FindMembership(u) \/ CountOwners(u) \/ CommitChange(u)
        \/ Admit(u) \/ DropSession(u)

MembershipSpec == MembershipInit /\ [][MembershipNext]_memberVars

-----------------------------------------------------------------------------
(***************************************************************************)
(* Properties.                                                             *)
(***************************************************************************)

\* Any number of changes, of each other's roles and of one's own, leave an owner,
\* as long as no call writes over what another has changed since it looked
\* (members.ts:39-51, 105-110).
OwnerLeft == Owners = {} => overtook

\* A workspace through changes of its roles.
OwnersRemain ==
    /\ MembershipTypeOK
    /\ OwnerLeft
=============================================================================
