------------------------------ MODULE GroupRoles ------------------------------
(***************************************************************************)
(* Who belongs to a group and with which rights                            *)
(* (core/services/group_service.py and its routes in group_routes.py, for  *)
(* a node without peers; one group).                                       *)
(* A member has a row of his own and one row for each agent he brought in, *)
(* all with his user id.  Rights are read from groups.owner_id and from    *)
(* the role of the first row found, which is his own.                      *)
(*                                                                         *)
(* Routes are coroutines without an await, so each runs to its end; a      *)
(* crash can only fall between two of its transactions.  leave_group is no *)
(* step: its route does not pass the user id the function requires, so it  *)
(* fails before it changes anything.                                       *)
(***************************************************************************)
EXTENDS Naturals, FiniteSets

CONSTANTS
  Users,       \* rows of users
  Agents,      \* rows of model_configs
  AgentOwner,  \* model_configs.user_id
  Invites,     \* ids of group_invite_pending, handed out in order
  NoUser       \* groups has no row

ASSUME GroupRolesAssumption ==
  /\ IsFiniteSet(Users) /\ Users # {} /\ IsFiniteSet(Agents) /\ Invites \subseteq Nat
  /\ AgentOwner \in [Agents -> Users] /\ NoUser \notin Users

VARIABLES
  owner,    \* groups.owner_id
  own,      \* the role in a user's own row of group_members
  agentRow, \* the role in an agent's row
  confirm,  \* features['invite_confirm']
  pending,  \* group_invite_pending
  answer    \* the last request that was answered: its operation, user and outcome

gvars == << owner, own, agentRow, confirm, pending, answer >>

-----------------------------------------------------------------------------
(* Data *)

Roles == {"owner", "admin", "member", "agent"}
Pending == [status: {"absent", "pending", "approved", "rejected"}, invitee: Users]

SomeUser == CHOOSE u \in Users : TRUE
NoInvite == [status |-> "absent", invitee |-> SomeUser]

Says(op, u, outcome) == answer' = [op |-> op, by |-> u, outcome |-> outcome]

Live == owner # NoUser
IsMember(u) == own[u] # "none"
AgentsOf(u) == {a \in Agents : agentRow[a] # "none" /\ AgentOwner[a] = u}

\* Every row with the id of u, as UPDATE ... WHERE user_id = ? meets them
AllRowsOf(u, role) ==
  /\ own' = IF IsMember(u) THEN [own EXCEPT ![u] = role] ELSE own
  /\ agentRow' = [a \in Agents |-> IF a \in AgentsOf(u) THEN role ELSE agentRow[a]]

IsOwner(u) == owner = u
IsOwnerOrAdmin(u) == Live /\ (owner = u \/ own[u] = "admin")

-----------------------------------------------------------------------------
(* Services *)

CreateGroup(u) ==
  /\ ~Live
  /\ owner' = u
  /\ own' = [own EXCEPT ![u] = "owner"]
  /\ Says("create", u, "ok")
  /\ UNCHANGED << agentRow, confirm, pending >>

\* Mutant of AwaitsApproval: nobody has to be asked.
AwaitsApprovalNever(u) == FALSE

AwaitsApproval(u) == confirm /\ ~IsOwnerOrAdmin(u)

\* The row of a user who is asked in by a member.
Admits(u, v) == Live /\ IsMember(u) /\ ~IsMember(v)

InviteUser(u, v) ==
  /\ Admits(u, v)
  /\ IF AwaitsApproval(u)
     THEN \E i \in Invites :
            /\ pending[i].status = "absent"
            /\ \A j \in Invites : pending[j].status = "absent" => i <= j
            /\ pending' = [pending EXCEPT ![i] = [status |-> "pending", invitee |-> v]]
            /\ UNCHANGED own
     ELSE own' = [own EXCEPT ![v] = "member"] /\ UNCHANGED pending
  /\ Says("invite", u, "ok")
  /\ UNCHANGED << owner, agentRow, confirm >>

InviteAgent(u, a) ==
  /\ Live /\ IsMember(u) /\ AgentOwner[a] = u /\ agentRow[a] = "none"
  /\ agentRow' = [agentRow EXCEPT ![a] = "agent"]
  /\ Says("invite_agent", u, "ok")
  /\ UNCHANGED << owner, own, confirm, pending >>

MayApprove(u) == IsOwnerOrAdmin(u)

\* The invitation and its status are two transactions: a crash leaves a member
\* whose invitation still waits.
ApproveInvite(u, i) ==
  /\ MayApprove(u) /\ pending[i].status = "pending"
  /\ Admits(u, pending[i].invitee) /\ ~AwaitsApproval(u)
  /\ own' = [own EXCEPT ![pending[i].invitee] = "member"]
  /\ \/ pending' = [pending EXCEPT ![i].status = "approved"] /\ Says("approve", u, "ok")
     \/ UNCHANGED pending /\ Says("approve", u, "crash")
  /\ UNCHANGED << owner, agentRow, confirm >>

RejectInvite(u, i) ==
  /\ IsOwnerOrAdmin(u) /\ pending[i].status = "pending"
  /\ pending' = [pending EXCEPT ![i].status = "rejected"]
  /\ Says("reject", u, "ok")
  /\ UNCHANGED << owner, own, agentRow, confirm >>

SetInviteConfirm(u, on) ==
  /\ IsOwnerOrAdmin(u)
  /\ confirm' = on
  /\ Says("confirm", u, "ok")
  /\ UNCHANGED << owner, own, agentRow, pending >>

\* Mutant of SetMemberRole: an admin appoints admins, and anybody may be changed.
SetMemberRoleFreely(u, v, role) ==
  /\ IsOwnerOrAdmin(u) /\ IsMember(v)
  /\ AllRowsOf(v, role)
  /\ Says("role", u, "ok")
  /\ UNCHANGED << owner, confirm, pending >>

SetMemberRole(u, v, role) ==
  /\ IsOwnerOrAdmin(u) /\ (role = "admin" => IsOwner(u))
  /\ IsMember(v) /\ own[v] # "owner"
  /\ AllRowsOf(v, role)
  /\ Says("role", u, "ok")
  /\ UNCHANGED << owner, confirm, pending >>

\* Mutant of TransferOwner: the old owner keeps his row.
TransferOwnerKept(u, v) ==
  /\ IsOwner(u) /\ u # v /\ IsMember(v)
  /\ owner' = v
  /\ AllRowsOf(v, "owner")
  /\ Says("transfer", u, "ok")
  /\ UNCHANGED << confirm, pending >>

TransferOwner(u, v) ==
  /\ IsOwner(u) /\ u # v /\ IsMember(v)
  /\ owner' = v
  /\ own' = [w \in Users |-> CASE w = v -> "owner"
                               [] w = u /\ IsMember(u) -> "admin"
                               [] OTHER -> own[w]]
  /\ agentRow' = [a \in Agents |-> CASE a \in AgentsOf(v) -> "owner"
                                     [] a \in AgentsOf(u) -> "admin"
                                     [] OTHER -> agentRow[a]]
  /\ Says("transfer", u, "ok")
  /\ UNCHANGED << confirm, pending >>

\* The query finds every row of the user.  Only its first row is fetched; while
\* more wait, the connection keeps its lock and the DELETE on the second
\* connection fails.  Nothing keeps an owner from removing himself.
RemoveUser(u, v) ==
  /\ IsOwner(u) /\ IsMember(v)
  /\ IF AgentsOf(v) = {}
     THEN own' = [own EXCEPT ![v] = "none"] /\ Says("remove", u, "ok")
     ELSE UNCHANGED own /\ Says("remove", u, "locked")
  /\ UNCHANGED << owner, agentRow, confirm, pending >>

RemoveAgent(u, a) ==
  /\ IsOwner(u) /\ agentRow[a] # "none"
  /\ agentRow' = [agentRow EXCEPT ![a] = "none"]
  /\ Says("remove", u, "ok")
  /\ UNCHANGED << owner, own, confirm, pending >>

\* The route asks for no user.  A group with tasks or stakes cannot be
\* dismissed (foreign keys): that is GroupTreasury's.
DismissGroup ==
  /\ Live
  /\ owner' = NoUser
  /\ own' = [u \in Users |-> "none"]
  /\ agentRow' = [a \in Agents |-> "none"]
  /\ confirm' = FALSE
  /\ Says("dismiss", NoUser, "ok")
  /\ UNCHANGED pending

-----------------------------------------------------------------------------
Init ==
  /\ owner = NoUser
  /\ own = [u \in Users |-> "none"]
  /\ agentRow = [a \in Agents |-> "none"]
  /\ confirm = FALSE
  /\ pending = [i \in Invites |-> NoInvite]
  /\ answer = [op |-> "none", by |-> NoUser, outcome |-> "ok"]

\* One group: its id is never given to another (AUTOINCREMENT).
PostCreate == answer.op = "none" /\ \E u \in Users : CreateGroup(u)
PostInvite == \E u \in Users : \/ \E v \in Users : InviteUser(u, v)
                               \/ \E a \in Agents : InviteAgent(u, a)
PostApprove == \E u \in Users, i \in Invites : ApproveInvite(u, i)
PostReject == \E u \in Users, i \in Invites : RejectInvite(u, i)
PostConfirm == \E u \in Users, on \in BOOLEAN : SetInviteConfirm(u, on)
PostRole == \E u, v \in Users, role \in {"admin", "member"} : SetMemberRole(u, v, role)
PostTransfer == \E u, v \in Users : TransferOwner(u, v)
PostRemove == \E u \in Users : \/ \E v \in Users : RemoveUser(u, v)
                               \/ \E a \in Agents : RemoveAgent(u, a)

Next == PostCreate \/ PostInvite \/ PostApprove \/ PostReject \/ PostConfirm
        \/ PostRole \/ PostTransfer \/ PostRemove \/ DismissGroup

Spec == Init /\ [][Next]_gvars

-----------------------------------------------------------------------------
(* Properties *)

\* Every row has a role the code writes.
GroupRolesTypeOK ==
  /\ owner \in Users \cup {NoUser}
  /\ own \in [Users -> {"none", "owner", "admin", "member"}]
  /\ agentRow \in [Agents -> Roles \cup {"none"}]
  /\ confirm \in BOOLEAN
  /\ pending \in [Invites -> Pending]

\* group_members and groups agree on the owner through transfers, self-removal
\* and readmission: no row but the owner's says owner, agents' rows included.  And
\* an agent is never left in a group its owner was removed from: its row would be
\* read as its owner's role (_is_owner_or_admin takes any row of the user).
OneOwner ==
  /\ \A u \in Users : own[u] = "owner" => owner = u
  /\ \A a \in Agents : /\ agentRow[a] = "owner" => owner = AgentOwner[a]
                       /\ agentRow[a] # "none" => IsMember(AgentOwner[a])

\* While invitations need approval (features['invite_confirm']), nobody enters
\* but by an act of the owner or an admin, however the invitation came about.
EntryIsApproved ==
  [][\A u \in Users : Live /\ confirm /\ ~IsMember(u) /\ IsMember(u)'
       => IsOwnerOrAdmin(answer'.by)]_gvars

\* '只有群主可以任命管理员': a right to administer appears only by the owner's
\* appointment, or by his handing the group over.
OwnerAppoints ==
  [][\A u \in Users : Live /\ ~IsOwnerOrAdmin(u) /\ IsOwnerOrAdmin(u)'
       => answer'.by = owner]_gvars

===============================================================================
