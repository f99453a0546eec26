----------------------------- MODULE GroupProofs -----------------------------
(***************************************************************************)
(* Who owns a group and who may administer it, what becomes of the credits *)
(* of all groups, what is said and asked in one, and what other nodes know *)
(* of it, for any number of users, agents, invitations, groups and nodes.  *)
(*                                                                         *)
(* OneOwner is inductive together with the type of the state: a request    *)
(* that writes "owner" into a row also writes groups.owner_id, and         *)
(* set_member_role, which changes all rows of a user, is refused for the   *)
(* row that says owner.                                                    *)
(*                                                                         *)
(* The books of the treasury hold one another up: what withdraw_stake pays *)
(* leaves the group exactly because its active stakes are covered; that    *)
(* the airdrop books a day once needs that what the thread has worked out  *)
(* is for a day without a drop; and that the job sends a second packet     *)
(* only after a failure needs the date to be read against today's packets, *)
(* those of later days being none.                                         *)
(*                                                                         *)
(* A quota is kept because a call that enters a model had one use left, as *)
(* did all that are with the model already; the highest limit is one there *)
(* was when it was checked (MostIsMost).  A question is answered by a      *)
(* document about it because documents are about questions that exist.     *)
(* A result follows a choice because it was true when it was posted, and   *)
(* what was chosen stays chosen, however late the post is taken.           *)
(***************************************************************************)
EXTENDS GroupParts, Sequences, SumLemmas, SequenceTheorems, TLAPS

Inv == GroupRolesTypeOK /\ OneOwner

-----------------------------------------------------------------------------
(* The rows of a user *)

LEMMA SomeUserIsUser == SomeUser \in Users
BY GroupRolesAssumption DEF SomeUser

\* The agents of a user are those with his id and a row.
LEMMA AgentsOfOwner ==
  ASSUME NEW u \in Users, NEW a \in AgentsOf(u)
  PROVE  a \in Agents /\ AgentOwner[a] = u /\ agentRow[a] # "none"
BY DEF AgentsOf

-----------------------------------------------------------------------------
(* The invariant *)

LEMMA InvStarts == Init => Inv
<1> SUFFICES ASSUME Init PROVE Inv
  OBVIOUS
<1>1. NoInvite \in Pending
  BY SomeUserIsUser DEF NoInvite, Pending
<1>2. pending \in [Invites -> Pending]
  BY <1>1 DEF Init
<1>3. owner = NoUser /\ own = [u \in Users |-> "none"] /\ agentRow = [a \in Agents |-> "none"] /\ confirm = FALSE
  BY DEF Init
<1>4. GroupRolesTypeOK
  BY <1>2, <1>3 DEF GroupRolesTypeOK, Roles
<1>5. OneOwner
  BY <1>3, GroupRolesAssumption DEF OneOwner, IsMember
<1> QED  BY <1>4, <1>5 DEF Inv

LEMMA CreateKeeps ==
  ASSUME Inv, NEW u \in Users, CreateGroup(u)
  PROVE  Inv'
BY GroupRolesAssumption DEF Inv, GroupRolesTypeOK, OneOwner, CreateGroup, Live, IsMember, Roles, Pending, Says

LEMMA InviteUserKeeps ==
  ASSUME Inv, NEW u \in Users, NEW v \in Users, InviteUser(u, v)
  PROVE  Inv'
<1> USE DEF Inv, GroupRolesTypeOK, OneOwner, IsMember
<1>1. CASE AwaitsApproval(u)
  <2>1. PICK i \in Invites : /\ pending' = [pending EXCEPT ![i] = [status |-> "pending", invitee |-> v]]
                             /\ UNCHANGED own
    BY <1>1 DEF InviteUser
  <2>2. pending' \in [Invites -> Pending]
    BY <2>1 DEF Pending
  <2> QED  BY <2>1, <2>2 DEF InviteUser
<1>2. CASE ~AwaitsApproval(u)
  <2>1. own' = [own EXCEPT ![v] = "member"] /\ UNCHANGED << owner, agentRow, confirm, pending >>
    BY <1>2 DEF InviteUser
  <2> QED  BY <2>1, GroupRolesAssumption DEF Roles
<1> QED  BY <1>1, <1>2

LEMMA InviteAgentKeeps ==
  ASSUME Inv, NEW u \in Users, NEW a \in Agents, InviteAgent(u, a)
  PROVE  Inv'
BY GroupRolesAssumption DEF Inv, GroupRolesTypeOK, OneOwner, InviteAgent, IsMember, Roles, Pending

LEMMA ApproveKeeps ==
  ASSUME Inv, NEW u \in Users, NEW i \in Invites, ApproveInvite(u, i)
  PROVE  Inv'
<1> USE DEF Inv, GroupRolesTypeOK, OneOwner, IsMember
<1>1. own' = [own EXCEPT ![pending[i].invitee] = "member"] /\ UNCHANGED << owner, agentRow, confirm >>
  BY DEF ApproveInvite
<1>2. pending[i].invitee \in Users
  BY DEF Pending
<1>3. pending' \in [Invites -> Pending]
  BY DEF ApproveInvite, Pending
<1> QED  BY <1>1, <1>2, <1>3, GroupRolesAssumption DEF Roles

LEMMA RejectKeeps ==
  ASSUME Inv, NEW u \in Users, NEW i \in Invites, RejectInvite(u, i)
  PROVE  Inv'
BY DEF Inv, GroupRolesTypeOK, OneOwner, RejectInvite, IsMember, Pending

LEMMA ConfirmKeeps ==
  ASSUME Inv, NEW u \in Users, NEW on \in BOOLEAN, SetInviteConfirm(u, on)
  PROVE  Inv'
BY DEF Inv, GroupRolesTypeOK, OneOwner, SetInviteConfirm, IsMember

LEMMA RoleKeeps ==
  ASSUME Inv, NEW u \in Users, NEW v \in Users, NEW role \in {"admin", "member"}, SetMemberRole(u, v, role)
  PROVE  Inv'
<1> USE DEF Inv, GroupRolesTypeOK, OneOwner, IsMember
<1>1. /\ own' = [own EXCEPT ![v] = role]
      /\ agentRow' = [a \in Agents |-> IF a \in AgentsOf(v) THEN role ELSE agentRow[a]]
      /\ UNCHANGED << owner, confirm, pending >>
  BY DEF SetMemberRole, AllRowsOf
<1>2. own' \in [Users -> {"none", "owner", "admin", "member"}]
  BY <1>1
<1>3. agentRow' \in [Agents -> Roles \cup {"none"}]
  BY <1>1 DEF Roles
<1>4. \A w \in Users : own'[w] = "owner" => owner' = w
  BY <1>1
<1>5. \A a \in Agents : agentRow'[a] = "owner" => owner' = AgentOwner[a]
  BY <1>1
<1>6. \A a \in Agents : agentRow'[a] # "none" => own'[AgentOwner[a]] # "none"
  BY <1>1, GroupRolesAssumption DEF AgentsOf
<1> QED  BY <1>1, <1>2, <1>3, <1>4, <1>5, <1>6

LEMMA TransferKeeps ==
  ASSUME Inv, NEW u \in Users, NEW v \in Users, TransferOwner(u, v)
  PROVE  Inv'
<1> USE DEF Inv, GroupRolesTypeOK, OneOwner, IsMember
<1>1. owner = u /\ u # v /\ own[v] # "none" /\ owner' = v /\ UNCHANGED << confirm, pending >>
  BY DEF TransferOwner, IsOwner
<1>2. own' = [w \in Users |-> CASE w = v -> "owner"
                                [] w = u /\ own[u] # "none" -> "admin"
                                [] OTHER -> own[w]]
  BY DEF TransferOwner
<1>3. agentRow' = [a \in Agents |-> CASE a \in AgentsOf(v) -> "owner"
                                      [] a \in AgentsOf(u) -> "admin"
                                      [] OTHER -> agentRow[a]]
  BY DEF TransferOwner
<1>4. own' \in [Users -> {"none", "owner", "admin", "member"}]
  BY <1>2
<1>5. agentRow' \in [Agents -> Roles \cup {"none"}]
  BY <1>3 DEF Roles
<1>6. \A w \in Users : own'[w] = "owner" => owner' = w
  BY <1>1, <1>2
<1>7. \A w \in Users : own[w] # "none" => own'[w] # "none"
  BY <1>2
<1>8. ASSUME NEW a \in Agents
      PROVE  /\ agentRow'[a] = "owner" => owner' = AgentOwner[a]
             /\ agentRow'[a] # "none" => own'[AgentOwner[a]] # "none"
  <2>1. CASE a \in AgentsOf(v)
    BY <1>1, <1>3, <1>7, <2>1 DEF AgentsOf
  <2>2. CASE a \notin AgentsOf(v) /\ a \in AgentsOf(u)
    BY <1>1, <1>3, <1>7, <2>2 DEF AgentsOf
  <2>3. CASE a \notin AgentsOf(v) /\ a \notin AgentsOf(u)
    BY <1>1, <1>3, <1>7, <2>3, GroupRolesAssumption DEF AgentsOf
  <2> QED  BY <2>1, <2>2, <2>3
<1> QED  BY <1>1, <1>4, <1>5, <1>6, <1>8

\* A user whose agents have rows keeps his own; so an agent never stays behind.
LEMMA RemoveUserKeeps ==
  ASSUME Inv, NEW u \in Users, NEW v \in Users, RemoveUser(u, v)
  PROVE  Inv'
<1> USE DEF Inv, GroupRolesTypeOK, OneOwner, IsMember
<1>1. CASE AgentsOf(v) = {}
  <2>1. own' = [own EXCEPT ![v] = "none"] /\ UNCHANGED << owner, agentRow, confirm, pending >>
    BY <1>1 DEF RemoveUser
  <2>2. \A a \in Agents : agentRow[a] # "none" => AgentOwner[a] # v
    BY <1>1 DEF AgentsOf
  <2> QED  BY <2>1, <2>2, GroupRolesAssumption
<1>2. CASE AgentsOf(v) # {}
  BY <1>2 DEF RemoveUser
<1> QED  BY <1>1, <1>2

LEMMA RemoveAgentKeeps ==
  ASSUME Inv, NEW u \in Users, NEW a \in Agents, RemoveAgent(u, a)
  PROVE  Inv'
BY DEF Inv, GroupRolesTypeOK, OneOwner, RemoveAgent, IsMember, Roles

LEMMA DismissKeeps ==
  ASSUME Inv, DismissGroup
  PROVE  Inv'
BY DEF Inv, GroupRolesTypeOK, OneOwner, DismissGroup, IsMember, Roles

LEMMA InvStep == Inv /\ [Next]_gvars => Inv'
<1> SUFFICES ASSUME Inv, [Next]_gvars PROVE Inv'
  OBVIOUS
<1>1. CASE PostCreate
  BY <1>1, CreateKeeps DEF PostCreate
<1>2. CASE PostInvite
  BY <1>2, InviteUserKeeps, InviteAgentKeeps DEF PostInvite
<1>3. CASE PostApprove
  BY <1>3, ApproveKeeps DEF PostApprove
<1>4. CASE PostReject
  BY <1>4, RejectKeeps DEF PostReject
<1>5. CASE PostConfirm
  BY <1>5, ConfirmKeeps DEF PostConfirm
<1>6. CASE PostRole
  BY <1>6, RoleKeeps DEF PostRole
<1>7. CASE PostTransfer
  BY <1>7, TransferKeeps DEF PostTransfer
<1>8. CASE PostRemove
  BY <1>8, RemoveUserKeeps, RemoveAgentKeeps DEF PostRemove
<1>9. CASE DismissGroup
  BY <1>9, DismissKeeps
<1>10. CASE UNCHANGED gvars
  BY <1>10 DEF Inv, GroupRolesTypeOK, OneOwner, IsMember, gvars
<1> QED  BY <1>1, <1>2, <1>3, <1>4, <1>5, <1>6, <1>7, <1>8, <1>9, <1>10 DEF Next

LEMMA InvHolds == Spec => []Inv
<1>1. Init => Inv
  BY InvStarts
<1>2. Inv /\ [Next]_gvars => Inv'
  BY InvStep
<1> QED  BY <1>1, <1>2, PTL DEF Spec

-----------------------------------------------------------------------------
(* What one request may change *)

\* A user who enters a group that asks for approval: the request was its owner's or
\* an admin's.
LEMMA EntryStep ==
  ASSUME Inv, Next, NEW w \in Users, Live, confirm, ~IsMember(w), IsMember(w)'
  PROVE  IsOwnerOrAdmin(answer'.by)
<1> USE DEF Inv, GroupRolesTypeOK, IsMember, Says
<1>1. CASE PostCreate
  BY <1>1 DEF PostCreate, CreateGroup
<1>2. ASSUME NEW u \in Users, NEW v \in Users, InviteUser(u, v)
      PROVE  IsOwnerOrAdmin(answer'.by)
  <2>1. answer'.by = u
    BY <1>2 DEF InviteUser
  <2>2. ~AwaitsApproval(u)
    BY <1>2 DEF InviteUser
  <2> QED  BY <2>1, <2>2 DEF AwaitsApproval
<1>3. ASSUME NEW u \in Users, NEW a \in Agents, InviteAgent(u, a)
      PROVE  FALSE
  BY <1>3 DEF InviteAgent
<1>4. ASSUME NEW u \in Users, NEW i \in Invites, ApproveInvite(u, i)
      PROVE  IsOwnerOrAdmin(answer'.by)
  <2>1. answer'.by = u
    BY <1>4 DEF ApproveInvite
  <2> QED  BY <1>4, <2>1 DEF ApproveInvite, MayApprove
<1>5. CASE PostReject
  BY <1>5 DEF PostReject, RejectInvite
<1>6. CASE PostConfirm
  BY <1>6 DEF PostConfirm, SetInviteConfirm
<1>7. CASE PostRole
  BY <1>7 DEF PostRole, SetMemberRole, AllRowsOf
<1>8. ASSUME NEW u \in Users, NEW v \in Users, TransferOwner(u, v)
      PROVE  FALSE
  <2>1. own' = [x \in Users |-> CASE x = v -> "owner"
                                 [] x = u /\ own[u] # "none" -> "admin"
                                 [] OTHER -> own[x]]
    BY <1>8 DEF TransferOwner
  <2>2. own[v] # "none"
    BY <1>8 DEF TransferOwner
  <2> QED  BY <2>1, <2>2
<1>9. CASE PostRemove
  BY <1>9 DEF PostRemove, RemoveUser, RemoveAgent
<1>10. CASE DismissGroup
  BY <1>10 DEF DismissGroup
<1> QED
  BY <1>1, <1>2, <1>3, <1>4, <1>5, <1>6, <1>7, <1>8, <1>9, <1>10
     DEF Next, PostInvite, PostApprove, PostTransfer

\* A user who gains a right to administer: the request was the owner's.
LEMMA AppointStep ==
  ASSUME Inv, Next, NEW w \in Users, Live, ~IsOwnerOrAdmin(w), IsOwnerOrAdmin(w)'
  PROVE  answer'.by = owner
<1> USE DEF Inv, GroupRolesTypeOK, IsMember, Says, IsOwnerOrAdmin, Live
<1>1. CASE PostCreate
  BY <1>1 DEF PostCreate, CreateGroup
<1>2. CASE PostInvite
  BY <1>2 DEF PostInvite, InviteUser, InviteAgent
<1>3. CASE PostApprove
  BY <1>3 DEF PostApprove, ApproveInvite
<1>4. CASE PostReject
  BY <1>4 DEF PostReject, RejectInvite
<1>5. CASE PostConfirm
  BY <1>5 DEF PostConfirm, SetInviteConfirm
<1>6. ASSUME NEW u \in Users, NEW v \in Users, NEW role \in {"admin", "member"}, SetMemberRole(u, v, role)
      PROVE  answer'.by = owner
  <2>1. own' = [own EXCEPT ![v] = role] /\ owner' = owner /\ answer'.by = u
    BY <1>6 DEF SetMemberRole, AllRowsOf
  <2>2. role = "admin"
    BY <2>1
  <2> QED  BY <1>6, <2>1, <2>2 DEF SetMemberRole, IsOwner
<1>7. CASE PostTransfer
  BY <1>7 DEF PostTransfer, TransferOwner, IsOwner
<1>8. CASE PostRemove
  BY <1>8 DEF PostRemove, RemoveUser, RemoveAgent
<1>9. CASE DismissGroup
  BY <1>9 DEF DismissGroup
<1> QED
  BY <1>1, <1>2, <1>3, <1>4, <1>5, <1>6, <1>7, <1>8, <1>9 DEF Next, PostRole

-----------------------------------------------------------------------------
(* Theorems *)

\* Whatever the requests and whenever the process dies, the rows hold known roles, a
\* live group has a known owner, and the last answer is that of a known request.
THEOREM RolesTypeCorrect == Spec => []GroupRolesTypeOK
<1>1. Inv => GroupRolesTypeOK
  BY DEF Inv
<1> QED  BY <1>1, InvHolds, PTL

\* However a group is created, handed over, left by its owner, re-entered and
\* dismissed, no row but that of groups.owner_id says owner, and no agent stays
\* without its user (transfer_owner, set_member_role, remove_member_from_group).
THEOREM OwnerIsUnique == Spec => []OneOwner
<1>1. Inv => OneOwner
  BY DEF Inv
<1> QED  BY <1>1, InvHolds, PTL


\* With features['invite_confirm'] set, a user enters only by an act of the owner or an
\* admin, whatever invitations waited before (invite_member, approve_pending_invite).
THEOREM NobodyEntersAlone == Spec => EntryIsApproved
<1>1. Inv /\ [Next]_gvars =>
        [\A u \in Users : Live /\ confirm /\ ~IsMember(u) /\ IsMember(u)'
           => IsOwnerOrAdmin(answer'.by)]_gvars
  BY EntryStep
<1> QED  BY <1>1, InvHolds, PTL DEF Spec, EntryIsApproved

\* Whatever roles are set, handed over or lost, a right to administer a group appears
\* only by its owner's request (set_member_role, transfer_owner).
THEOREM OnlyOwnerAppoints == Spec => OwnerAppoints
<1>1. Inv /\ [Next]_gvars =>
        [\A u \in Users : Live /\ ~IsOwnerOrAdmin(u) /\ IsOwnerOrAdmin(u)'
           => answer'.by = owner]_gvars
  BY AppointStep
<1> QED  BY <1>1, InvHolds, PTL DEF Spec, OwnerAppoints

-----------------------------------------------------------------------------
(* The credits of groups *)

Days == Treasury!Days

\* The constants of airdrop_service (10000, 10, 500, 3000); amounts in whole units.
TreasuryConstants ==
  /\ IsFiniteSet(Groups) /\ Amounts \subseteq Int /\ MinStake \in Nat /\ Activities \subseteq Nat
  /\ DailyPool \in Nat /\ TopN \in Nat /\ TopAmount \in Nat /\ TopN * TopAmount <= DailyPool
  /\ GroupCap \in Nat /\ Hours \in Nat \ {0} /\ MaxTime \in Nat
  /\ InitCredits \in Int /\ InitPool \in Int

GroupRow == [live: BOOLEAN, pool: Int, staked: Int, hour: Int, date: Int]
StakeRow == [status: {"active", "withdrawn"}, group: Groups, user: Members, amount: Nat, old: BOOLEAN]

TreasuryType ==
  /\ credits \in [Members -> Int] /\ group \in [Groups -> GroupRow] /\ stake \in Seq(StakeRow)
  /\ DOMAIN drop \subseteq Groups /\ \A g \in DOMAIN drop : drop[g] \in Nat
  /\ now \in 0 .. MaxTime /\ faults \in Nat
  /\ spent \in [packets: Int, lost: Int, drops: [Days -> Int]]
  /\ welfare \in [Groups -> [Days -> Nat]]

\* What the thread has worked out is for a day nothing was dropped on, and within the pool.
DropFits ==
  /\ drop # << >> => spent.drops[Treasury!Today] = -1
  /\ SumFunctionOnSet(drop, DOMAIN drop) <= DailyPool + Cardinality(Groups)
  /\ \A d \in Days : spent.drops[d] <= DailyPool + Cardinality(Groups)

\* A packet of today that left no date followed a failed write; none is of a day to come.
WelfareDated ==
  \A g \in Groups : /\ group[g].date # Treasury!Today => welfare[g][Treasury!Today] <= faults
                    /\ \A d \in Days : d > Treasury!Today => welfare[g][d] = 0

MoneyKept ==
  SumFunctionOnSet(credits, Members) + SumFunctionOnSet(Treasury!Worths, Groups) + spent.packets + spent.lost
    = InitCredits * Cardinality(Members) + InitPool * Cardinality(Groups)
        + SumFunctionOnSet(Treasury!Airdrops, Days)

Covered == \A g \in Groups : group[g].staked >= SumFunctionOnSet(Treasury!Staked, Treasury!ActiveIn(g))

TreasuryInv ==
  /\ TreasuryType /\ DropFits /\ MoneyKept /\ Covered
  /\ WelfareDated /\ Treasury!WelfareOnceADay

\* The sum of the treasury's module is the sum of the lemmas.
LEMMA SumOfTreasury ==
  ASSUME NEW f, NEW S
  PROVE  Treasury!SumFunctionOnSet(f, S) = SumFunctionOnSet(f, S)
  BY SumUnfold DEF Solves, Treasury!SumFunctionOnSet, Treasury!FoldFunctionOnSet,
     Treasury!MapThenFoldSet, Term, First

LEMMA CardinalityOfTreasury ==
  ASSUME NEW S
  PROVE  Treasury!Cardinality(S) = Cardinality(S)
  BY DEF Treasury!Cardinality, Cardinality

-----------------------------------------------------------------------------
(* Days *)

LEMMA DayMoves ==
  ASSUME NEW n \in Nat, NEW h \in Nat \ {0}
  PROVE  /\ (n + 1) \div h \in {n \div h, (n \div h) + 1} /\ n \div h \in Nat
         /\ \A m \in Nat : n <= m => n \div h <= m \div h
OBVIOUS

LEMMA TodayIsDay ==
  ASSUME TreasuryConstants, TreasuryType
  PROVE  Treasury!Today \in Days /\ Treasury!Today \in Nat
<1>1. now \in Nat /\ now <= MaxTime /\ MaxTime \in Nat /\ Hours \in Nat \ {0}
  BY DEF TreasuryType, TreasuryConstants
<1>2. now \div Hours \in Nat /\ MaxTime \div Hours \in Nat /\ now \div Hours <= MaxTime \div Hours
  BY <1>1, DayMoves
<1> QED  BY <1>2 DEF Treasury!Today, Treasury!Days, Days

LEMMA DaysFinite ==
  ASSUME TreasuryConstants
  PROVE  IsFiniteSet(Days) /\ Days \subseteq Nat
<1>1. MaxTime \div Hours \in Nat
  BY DayMoves DEF TreasuryConstants
<1>2. IsFiniteSet(0 .. (MaxTime \div Hours))
  BY <1>1, FS_Interval
<1> QED  BY <1>1, <1>2 DEF Days, Treasury!Days

-----------------------------------------------------------------------------
(* The parts of the books *)

LEMMA MaxOfTwo ==
  ASSUME NEW a \in Int, NEW b \in Int
  PROVE  Treasury!Max({a, b}) = IF a >= b THEN a ELSE b
BY DEF Treasury!Max

LEMMA MinOfTwo ==
  ASSUME NEW a \in Int, NEW b \in Int
  PROVE  Treasury!Min({a, b}) = IF a <= b THEN a ELSE b
BY DEF Treasury!Min

LEMMA GroupFields ==
  ASSUME TreasuryType, NEW g \in Groups
  PROVE  /\ group[g] \in GroupRow /\ group[g].live \in BOOLEAN /\ group[g].pool \in Int
         /\ group[g].staked \in Int /\ group[g].hour \in Int /\ group[g].date \in Int
         /\ Treasury!Worth(g) = group[g].pool + group[g].staked /\ Treasury!Worth(g) \in Int
BY DEF TreasuryType, GroupRow, Treasury!Worth

LEMMA StakeFields ==
  ASSUME TreasuryType
  PROVE  /\ Len(stake) \in Nat /\ DOMAIN stake = 1 .. Len(stake) /\ IsFiniteSet(DOMAIN stake)
         /\ \A s \in DOMAIN stake : stake[s] \in StakeRow /\ Treasury!Staked[s] = stake[s].amount
                                    /\ stake[s].amount \in Nat
         /\ \A g \in Groups : Treasury!ActiveIn(g) \subseteq DOMAIN stake /\ IsFiniteSet(Treasury!ActiveIn(g))
<1>1. Len(stake) \in Nat /\ DOMAIN stake = 1 .. Len(stake) /\ \A s \in DOMAIN stake : stake[s] \in StakeRow
  BY DEF TreasuryType
<1>2. IsFiniteSet(DOMAIN stake)
  BY <1>1, FS_Interval
<1>3. \A g \in Groups : Treasury!ActiveIn(g) \subseteq DOMAIN stake
  BY DEF Treasury!ActiveIn
<1> QED  BY <1>1, <1>2, <1>3, FS_Subset DEF StakeRow, Treasury!Staked

LEMMA BooksAreInt ==
  ASSUME TreasuryConstants, TreasuryType
  PROVE  /\ SumFunctionOnSet(credits, Members) \in Int
         /\ SumFunctionOnSet(Treasury!Worths, Groups) \in Int
         /\ spent.packets \in Int /\ spent.lost \in Int
         /\ SumFunctionOnSet(Treasury!Airdrops, Days) \in Int
         /\ \A d \in Days : spent.drops[d] \in Int
         /\ \A d \in Days : Treasury!Airdrops[d] = IF spent.drops[d] >= 0 THEN spent.drops[d] ELSE 0
         /\ \A d \in Days : Treasury!Airdrops[d] \in Int
<1>1. SumFunctionOnSet(credits, Members) \in Int
  BY SumType, MembersAssumption DEF TreasuryType
<1>2. IsFiniteSet(Groups) /\ \A g \in Groups : Treasury!Worths[g] \in Int
  BY GroupFields DEF Treasury!Worths, TreasuryConstants
<1>3. SumFunctionOnSet(Treasury!Worths, Groups) \in Int
  BY <1>2, SumType
<1>4. spent.packets \in Int /\ spent.lost \in Int /\ \A d \in Days : spent.drops[d] \in Int
  BY DEF TreasuryType
<1>5. \A d \in Days : Treasury!Airdrops[d] = IF spent.drops[d] >= 0 THEN spent.drops[d] ELSE 0
  BY <1>4, MaxOfTwo DEF Treasury!Airdrops, Days
<1>6. \A d \in Days : Treasury!Airdrops[d] \in Int
  BY <1>4, <1>5
<1>7. SumFunctionOnSet(Treasury!Airdrops, Days) \in Int
  BY <1>6, DaysFinite, SumType
<1> QED  BY <1>1, <1>3, <1>4, <1>5, <1>6, <1>7

\* One group changes: the worth of all changes by as much.
LEMMA WorthMoves ==
  ASSUME TreasuryConstants, TreasuryType, TreasuryType', NEW g \in Groups,
         \A h \in Groups : h # g => group'[h] = group[h]
  PROVE  SumFunctionOnSet(Treasury!Worths', Groups)
           = SumFunctionOnSet(Treasury!Worths, Groups)
               + (group'[g].pool + group'[g].staked) - (group[g].pool + group[g].staked)
<1>1. \A h \in Groups : /\ Treasury!Worths[h] = group[h].pool + group[h].staked /\ Treasury!Worths[h] \in Int
                        /\ Treasury!Worths'[h] = group'[h].pool + group'[h].staked /\ Treasury!Worths'[h] \in Int
  <2>1. \A h \in Groups : group[h] \in GroupRow /\ group'[h] \in GroupRow
    BY DEF TreasuryType
  <2> QED  BY <2>1 DEF Treasury!Worths, Treasury!Worth, GroupRow
<1>2. \A h \in Groups : h # g => Treasury!Worths'[h] = Treasury!Worths[h]
  BY <1>1
<1>3. IsFiniteSet(Groups)
  BY DEF TreasuryConstants
<1> QED  BY <1>1, <1>2, <1>3, SumChangesBy

\* The credits of one user change.
LEMMA CreditsMove ==
  ASSUME TreasuryType, TreasuryType', NEW u \in Members,
         \A v \in Members : v # u => credits'[v] = credits[v]
  PROVE  SumFunctionOnSet(credits', Members)
           = SumFunctionOnSet(credits, Members) + credits'[u] - credits[u]
<1>1. \A v \in Members : credits[v] \in Int /\ credits'[v] \in Int
  BY DEF TreasuryType
<1>2. IsFiniteSet(Members)
  BY MembersAssumption
<1> QED  BY <1>1, <1>2, SumChangesBy

-----------------------------------------------------------------------------
(* What leaves a part of the books as it is *)

\* The drops are the same: so is what was airdropped.
LEMMA AirdropsStay ==
  ASSUME spent'.drops = spent.drops
  PROVE  Treasury!Airdrops' = Treasury!Airdrops
BY DEF Treasury!Airdrops

\* No stake changes, and no group holds fewer than before.
LEMMA CoveredStays ==
  ASSUME TreasuryType, Covered, UNCHANGED stake,
         \A g \in Groups : group'[g].staked \in Int /\ group'[g].staked >= group[g].staked
  PROVE  Covered'
<1>1. Treasury!Staked' = Treasury!Staked /\ \A g \in Groups : Treasury!ActiveIn(g)' = Treasury!ActiveIn(g)
  BY DEF Treasury!Staked, Treasury!ActiveIn
<1>2. ASSUME NEW g \in Groups
      PROVE  group'[g].staked >= SumFunctionOnSet(Treasury!Staked', Treasury!ActiveIn(g)')
  <2>1. SumFunctionOnSet(Treasury!Staked, Treasury!ActiveIn(g)) \in Int
    BY StakeFields, SumType
  <2>2. group[g].staked >= SumFunctionOnSet(Treasury!Staked, Treasury!ActiveIn(g)) /\ group[g].staked \in Int
    BY GroupFields DEF Covered
  <2> QED  BY <1>1, <2>1, <2>2
<1> QED  BY <1>2 DEF Covered

\* No day passes, no date is taken back and no packet is sent.
LEMMA WelfareStays ==
  ASSUME TreasuryConstants, TreasuryType, TreasuryType', WelfareDated, Treasury!WelfareOnceADay,
         UNCHANGED << now, welfare >>, faults' >= faults,
         \A g \in Groups : group'[g].date \in {group[g].date, Treasury!Today}
  PROVE  WelfareDated' /\ Treasury!WelfareOnceADay'
<1>1. Treasury!Today' = Treasury!Today /\ welfare' = welfare /\ faults \in Nat /\ faults' \in Nat
  BY DEF Treasury!Today, TreasuryType
<1>2. \A g \in Groups, d \in Days : welfare[g][d] \in Nat
  BY DEF TreasuryType
<1>3. WelfareDated'
  <2>1. ASSUME NEW g \in Groups, group'[g].date # Treasury!Today
        PROVE  welfare[g][Treasury!Today] <= faults'
    <3>1. welfare[g][Treasury!Today] <= faults
      BY <2>1 DEF WelfareDated
    <3>2. welfare[g][Treasury!Today] \in Nat
      BY <1>2, TodayIsDay
    <3> QED  BY <1>1, <3>1, <3>2
  <2> QED  BY <1>1, <2>1 DEF WelfareDated
<1>4. Treasury!WelfareOnceADay'
  BY <1>1, <1>2 DEF Treasury!WelfareOnceADay, Days
<1> QED  BY <1>3, <1>4

\* Nothing is worked out and nothing dropped on the same day.
LEMMA DropStays ==
  ASSUME DropFits, UNCHANGED << drop, now >>, spent'.drops = spent.drops
  PROVE  DropFits'
BY DEF DropFits, Treasury!Today

\* Members and groups exchange credits, groups give them into packets or lose them.
LEMMA MoneyStays ==
  ASSUME TreasuryConstants, TreasuryType, TreasuryType', MoneyKept, spent'.drops = spent.drops,
         SumFunctionOnSet(credits', Members) + SumFunctionOnSet(Treasury!Worths', Groups)
             + spent'.packets + spent'.lost
           = SumFunctionOnSet(credits, Members) + SumFunctionOnSet(Treasury!Worths, Groups)
               + spent.packets + spent.lost
  PROVE  MoneyKept'
<1>1. Treasury!Airdrops' = Treasury!Airdrops
  BY AirdropsStay
<1> QED  BY <1>1 DEF MoneyKept

LEMMA WorthsStay ==
  ASSUME \A g \in Groups : group'[g].pool = group[g].pool /\ group'[g].staked = group[g].staked
  PROVE  Treasury!Worths' = Treasury!Worths
BY DEF Treasury!Worths, Treasury!Worth

-----------------------------------------------------------------------------
(* Stakes *)

LEMMA StakeKeeps ==
  ASSUME TreasuryConstants, TreasuryInv, NEW g \in Groups, NEW u \in Members, NEW x \in Amounts,
         Treasury!Stake(g, u, x)
  PROVE  TreasuryInv'
<1> DEFINE new == [status |-> "active", group |-> g, user |-> u, amount |-> x, old |-> FALSE]
<1>1. /\ TreasuryType /\ DropFits /\ MoneyKept /\ Covered /\ WelfareDated /\ Treasury!WelfareOnceADay
  BY DEF TreasuryInv
<1>2. x \in Nat
  BY DEF Treasury!Stake, TreasuryConstants
<1>3. /\ credits' = [credits EXCEPT ![u] = @ - x]
      /\ group' = [group EXCEPT ![g].staked = @ + x]
      /\ stake' = Append(stake, new)
      /\ drop' = drop /\ now' = now /\ spent' = spent /\ welfare' = welfare /\ faults' = faults
  BY DEF Treasury!Stake
<1>4. new \in StakeRow
  BY <1>2 DEF StakeRow
<1> HIDE DEF new
<1>5. /\ group'[g] = [group[g] EXCEPT !.staked = @ + x]
      /\ \A h \in Groups : h # g => group'[h] = group[h]
      /\ group[g] \in GroupRow /\ group'[g] \in GroupRow
      /\ group'[g].staked = group[g].staked + x /\ group'[g].pool = group[g].pool
      /\ group'[g].date = group[g].date
  <2>1. group \in [Groups -> GroupRow] /\ group[g] \in GroupRow
    BY <1>1 DEF TreasuryType
  <2>2. /\ group'[g] = [group[g] EXCEPT !.staked = @ + x]
        /\ \A h \in Groups : h # g => group'[h] = group[h]
    BY <1>3, <2>1
  <2> QED  BY <1>2, <2>1, <2>2 DEF GroupRow
<1>6. TreasuryType'
  <2>1. credits' \in [Members -> Int]
    BY <1>1, <1>2, <1>3 DEF TreasuryType
  <2>2. group' \in [Groups -> GroupRow]
    BY <1>1, <1>3, <1>5 DEF TreasuryType
  <2>3. stake' \in Seq(StakeRow)
    BY <1>1, <1>3, <1>4, AppendProperties DEF TreasuryType
  <2> QED  BY <1>1, <1>3, <2>1, <2>2, <2>3 DEF TreasuryType
<1>7. DropFits'
  BY <1>1, <1>3, DropStays
<1>8. MoneyKept'
  <2>1. SumFunctionOnSet(Treasury!Worths', Groups) = SumFunctionOnSet(Treasury!Worths, Groups) + x
    <3>1. SumFunctionOnSet(Treasury!Worths', Groups)
            = SumFunctionOnSet(Treasury!Worths, Groups)
                + (group'[g].pool + group'[g].staked) - (group[g].pool + group[g].staked)
      BY <1>1, <1>5, <1>6, WorthMoves
    <3> QED  BY <1>1, <1>2, <1>5, <3>1, BooksAreInt, GroupFields
  <2>2. SumFunctionOnSet(credits', Members) = SumFunctionOnSet(credits, Members) - x
    <3>1. /\ credits[u] \in Int /\ credits'[u] = credits[u] - x
          /\ \A v \in Members : v # u => credits'[v] = credits[v]
      BY <1>1, <1>3 DEF TreasuryType
    <3>2. SumFunctionOnSet(credits', Members) = SumFunctionOnSet(credits, Members) + credits'[u] - credits[u]
      BY <1>1, <1>6, <3>1, CreditsMove
    <3> QED  BY <1>1, <1>2, <3>1, <3>2, BooksAreInt
  <2> QED  BY <1>1, <1>2, <1>3, <1>6, <2>1, <2>2, BooksAreInt, MoneyStays
<1>9. Covered'
  <2> DEFINE n == Len(stake) + 1
  <2>1. /\ DOMAIN stake' = DOMAIN stake \cup {n} /\ n \notin DOMAIN stake
        /\ stake'[n] = new /\ \A s \in DOMAIN stake : stake'[s] = stake[s]
    BY <1>1, <1>3, <1>4, StakeFields, AppendProperties DEF TreasuryType
  <2>2. Treasury!ActiveIn(g)' = Treasury!ActiveIn(g) \cup {n} /\ n \notin Treasury!ActiveIn(g)
    BY <2>1 DEF Treasury!ActiveIn, new
  <2>3. \A h \in Groups : h # g => Treasury!ActiveIn(h)' = Treasury!ActiveIn(h)
    BY <2>1 DEF Treasury!ActiveIn, new
  <2>4. /\ \A s \in DOMAIN stake : Treasury!Staked'[s] = Treasury!Staked[s] /\ Treasury!Staked[s] \in Nat
        /\ Treasury!Staked'[n] = x
    BY <1>1, <2>1, StakeFields DEF Treasury!Staked, new
  <2> HIDE DEF n
  <2>5. ASSUME NEW h \in Groups
        PROVE  SumFunctionOnSet(Treasury!Staked', Treasury!ActiveIn(h))
                 = SumFunctionOnSet(Treasury!Staked, Treasury!ActiveIn(h))
    BY <1>1, <2>4, StakeFields, SumExtensional
  <2>6. SumFunctionOnSet(Treasury!Staked', Treasury!ActiveIn(g)')
          = x + SumFunctionOnSet(Treasury!Staked', Treasury!ActiveIn(g))
    <3> DEFINE W == Treasury!ActiveIn(g) \cup {n}
    <3>1. IsFiniteSet(Treasury!ActiveIn(g)) /\ \A s \in Treasury!ActiveIn(g) \cup {n} : Treasury!Staked'[s] \in Int
      BY <1>1, <1>2, <2>4, StakeFields
    <3>2. SumFunctionOnSet(Treasury!Staked', W) = x + SumFunctionOnSet(Treasury!Staked', Treasury!ActiveIn(g))
      BY <2>2, <2>4, <3>1, SumWith
    <3>3. W = Treasury!ActiveIn(g)'
      BY <2>2
    <3> HIDE DEF W
    <3> QED  BY ONLY <3>2, <3>3
  <2>7. ASSUME NEW h \in Groups
        PROVE  /\ group[h].staked >= SumFunctionOnSet(Treasury!Staked, Treasury!ActiveIn(h))
               /\ group[h].staked \in Int
               /\ SumFunctionOnSet(Treasury!Staked, Treasury!ActiveIn(h)) \in Int
    BY <1>1, StakeFields, GroupFields, SumType DEF Covered
  <2>8. \A h \in Groups : h # g =>
          group'[h].staked >= SumFunctionOnSet(Treasury!Staked', Treasury!ActiveIn(h)')
    BY <1>5, <2>3, <2>5, <2>7
  <2>9. group'[g].staked >= SumFunctionOnSet(Treasury!Staked', Treasury!ActiveIn(g)')
    BY <1>2, <1>5, <2>5, <2>6, <2>7
  <2> QED  BY <2>8, <2>9 DEF Covered
<1>10. WelfareDated' /\ Treasury!WelfareOnceADay'
  <2>1. \A h \in Groups : group'[h].date \in {group[h].date, Treasury!Today}
    BY <1>5
  <2>2. faults' >= faults
    BY <1>1, <1>3 DEF TreasuryType
  <2> QED  BY <1>1, <1>3, <1>6, <2>1, <2>2, WelfareStays
<1> QED  BY <1>6, <1>7, <1>8, <1>9, <1>10 DEF TreasuryInv

\* What is paid had been staked, and what stays active is still there.
LEMMA WithdrawKeeps ==
  ASSUME TreasuryConstants, TreasuryInv, NEW g \in Groups, NEW u \in Members, Treasury!Withdraw(g, u)
  PROVE  TreasuryInv'
<1> DEFINE A == Treasury!ActiveIn(g)
           B == Treasury!StakesOf(g, u)
           C == {s \in B : stake[s].old}
           total == SumFunctionOnSet(Treasury!Staked, C)
<1>1. /\ TreasuryType /\ DropFits /\ MoneyKept /\ Covered /\ WelfareDated /\ Treasury!WelfareOnceADay
  BY DEF TreasuryInv
<1>2. /\ credits' = [credits EXCEPT ![u] = @ + total]
      /\ group' = [group EXCEPT ![g].staked = IF @ >= total THEN @ - total ELSE 0]
      /\ stake' = [s \in DOMAIN stake |-> IF s \in B THEN [stake[s] EXCEPT !.status = "withdrawn"] ELSE stake[s]]
      /\ drop' = drop /\ now' = now /\ spent' = spent /\ welfare' = welfare /\ faults' = faults
  BY SumOfTreasury DEF Treasury!Withdraw, Treasury!Withdrawn, Treasury!SumOf
<1>3. C \subseteq B /\ B \subseteq A /\ A \subseteq DOMAIN stake /\ IsFiniteSet(A) /\ IsFiniteSet(B)
  <2>1. C \subseteq B /\ B \subseteq A
    BY DEF Treasury!StakesOf
  <2>2. A \subseteq DOMAIN stake /\ IsFiniteSet(A)
    BY <1>1, StakeFields
  <2> QED  BY <2>1, <2>2, FS_Subset
<1>4. \A s \in A : Treasury!Staked[s] \in Nat
  BY <1>1, <1>3, StakeFields
<1>5. \A s \in DOMAIN stake : s \in B => stake[s].group = g
  BY DEF Treasury!StakesOf, Treasury!ActiveIn
<1>6. /\ DOMAIN stake' = DOMAIN stake
      /\ \A s \in DOMAIN stake : /\ stake'[s] \in StakeRow /\ stake'[s].amount = stake[s].amount
                                 /\ stake'[s].group = stake[s].group
                                 /\ stake'[s].status = IF s \in B THEN "withdrawn" ELSE stake[s].status
  <2>1. \A s \in DOMAIN stake : stake[s] \in StakeRow
    BY <1>1, StakeFields
  <2> HIDE DEF B
  <2> QED  BY <1>2, <2>1 DEF StakeRow
<1>7. Treasury!ActiveIn(g)' = A \ B /\ \A h \in Groups : h # g => Treasury!ActiveIn(h)' = Treasury!ActiveIn(h)
  <2> HIDE DEF B
  <2> QED  BY <1>5, <1>6 DEF Treasury!ActiveIn
<1> HIDE DEF C
<1>8. total \in Nat /\ total <= SumFunctionOnSet(Treasury!Staked, B)
      /\ SumFunctionOnSet(Treasury!Staked, A) = SumFunctionOnSet(Treasury!Staked, A \ B) + SumFunctionOnSet(Treasury!Staked, B)
      /\ SumFunctionOnSet(Treasury!Staked, A \ B) \in Nat /\ SumFunctionOnSet(Treasury!Staked, B) \in Nat
      /\ SumFunctionOnSet(Treasury!Staked, A) \in Nat
  <2> HIDE DEF A, B
  <2>1. IsFiniteSet(C) /\ IsFiniteSet(A \ B)
    BY <1>3, FS_Subset
  <2>2. total \in Nat /\ SumFunctionOnSet(Treasury!Staked, B) \in Nat
        /\ SumFunctionOnSet(Treasury!Staked, A \ B) \in Nat /\ SumFunctionOnSet(Treasury!Staked, A) \in Nat
    BY <1>3, <1>4, <2>1, SumTypeNat
  <2>3. total <= SumFunctionOnSet(Treasury!Staked, B)
    BY <1>3, <1>4, SumOfPart
  <2> DEFINE W == (A \ B) \cup B
  <2>4. SumFunctionOnSet(Treasury!Staked, W)
          = SumFunctionOnSet(Treasury!Staked, A \ B) + SumFunctionOnSet(Treasury!Staked, B)
    <3>1. (A \ B) \cap B = {} /\ \A s \in W : Treasury!Staked[s] \in Int
      BY <1>3, <1>4
    <3> QED  BY <1>3, <2>1, <3>1, SumOfUnion
  <2>5. W = A
    BY <1>3
  <2> HIDE DEF W
  <2>6. SumFunctionOnSet(Treasury!Staked, W) = SumFunctionOnSet(Treasury!Staked, A)
    BY ONLY <2>5
  <2> QED  BY <2>2, <2>3, <2>4, <2>6
<1> HIDE DEF total
<1>9. group[g].staked \in Int /\ group[g].staked >= total /\ group[g].staked >= SumFunctionOnSet(Treasury!Staked, A)
  <2>1. group[g].staked \in Int /\ group[g].staked >= SumFunctionOnSet(Treasury!Staked, A)
    BY <1>1, GroupFields DEF Covered
  <2> HIDE DEF A, B
  <2> QED  BY <1>8, <2>1
<1>10. /\ \A h \in Groups : h # g => group'[h] = group[h]
       /\ group[g] \in GroupRow /\ group'[g] \in GroupRow
       /\ group'[g].staked = group[g].staked - total /\ group'[g].pool = group[g].pool
       /\ group'[g].date = group[g].date
  <2>1. group \in [Groups -> GroupRow] /\ group[g] \in GroupRow
    BY <1>1 DEF TreasuryType
  <2>2. /\ group'[g] = [group[g] EXCEPT !.staked = IF @ >= total THEN @ - total ELSE 0]
        /\ \A h \in Groups : h # g => group'[h] = group[h]
    BY <1>2, <2>1
  <2> QED  BY <1>8, <1>9, <2>1, <2>2 DEF GroupRow
<1>11. TreasuryType'
  <2>1. credits' \in [Members -> Int]
    BY <1>1, <1>2, <1>8 DEF TreasuryType
  <2>2. group' \in [Groups -> GroupRow]
    BY <1>1, <1>2, <1>10 DEF TreasuryType
  <2>3. stake' \in Seq(StakeRow)
    <3>1. Len(stake) \in Nat /\ DOMAIN stake = 1 .. Len(stake)
      BY <1>1, StakeFields
    <3>2. stake' \in [1 .. Len(stake) -> StakeRow]
      <4> HIDE DEF B
      <4> QED  BY <1>2, <1>6, <3>1
    <3> QED  BY <3>1, <3>2
  <2> QED  BY <1>1, <1>2, <2>1, <2>2, <2>3 DEF TreasuryType
<1>12. DropFits'
  BY <1>1, <1>2, DropStays
<1>13. MoneyKept'
  <2>1. SumFunctionOnSet(Treasury!Worths', Groups) = SumFunctionOnSet(Treasury!Worths, Groups) - total
    <3>1. SumFunctionOnSet(Treasury!Worths', Groups)
            = SumFunctionOnSet(Treasury!Worths, Groups)
                + (group'[g].pool + group'[g].staked) - (group[g].pool + group[g].staked)
      BY <1>1, <1>10, <1>11, WorthMoves
    <3> QED  BY <1>1, <1>8, <1>10, <3>1, BooksAreInt, GroupFields
  <2>2. SumFunctionOnSet(credits', Members) = SumFunctionOnSet(credits, Members) + total
    <3>1. /\ credits[u] \in Int /\ credits'[u] = credits[u] + total
          /\ \A v \in Members : v # u => credits'[v] = credits[v]
      BY <1>1, <1>2 DEF TreasuryType
    <3>2. SumFunctionOnSet(credits', Members) = SumFunctionOnSet(credits, Members) + credits'[u] - credits[u]
      BY <1>1, <1>11, <3>1, CreditsMove
    <3> QED  BY <1>1, <1>8, <3>1, <3>2, BooksAreInt
  <2> QED  BY <1>1, <1>2, <1>8, <1>11, <2>1, <2>2, BooksAreInt, MoneyStays
<1>14. Covered'
  <2>1. \A s \in DOMAIN stake : Treasury!Staked'[s] = Treasury!Staked[s]
    BY <1>6 DEF Treasury!Staked
  <2>2. ASSUME NEW h \in Groups
        PROVE  SumFunctionOnSet(Treasury!Staked', Treasury!ActiveIn(h))
                 = SumFunctionOnSet(Treasury!Staked, Treasury!ActiveIn(h))
    BY <1>1, <2>1, StakeFields, SumExtensional
  <2>3. SumFunctionOnSet(Treasury!Staked', A \ B) = SumFunctionOnSet(Treasury!Staked, A \ B)
    <3>1. IsFiniteSet(A \ B) /\ A \ B \subseteq DOMAIN stake
      BY <1>3, FS_Subset
    <3> HIDE DEF A, B
    <3> QED  BY <2>1, <3>1, SumExtensional
  <2>4. ASSUME NEW h \in Groups
        PROVE  /\ group[h].staked >= SumFunctionOnSet(Treasury!Staked, Treasury!ActiveIn(h))
               /\ group[h].staked \in Int
               /\ SumFunctionOnSet(Treasury!Staked, Treasury!ActiveIn(h)) \in Int
    BY <1>1, StakeFields, GroupFields, SumType DEF Covered
  <2>5. \A h \in Groups : h # g =>
          group'[h].staked >= SumFunctionOnSet(Treasury!Staked', Treasury!ActiveIn(h)')
    BY <1>7, <1>10, <2>2, <2>4
  <2>6. SumFunctionOnSet(Treasury!Staked', Treasury!ActiveIn(g)') = SumFunctionOnSet(Treasury!Staked, A \ B)
    BY <1>7, <2>3
  <2> HIDE DEF A, B
  <2>7. group'[g].staked >= SumFunctionOnSet(Treasury!Staked', Treasury!ActiveIn(g)')
    BY <1>8, <1>9, <1>10, <2>6
  <2> QED  BY <2>5, <2>7 DEF Covered
<1>15. WelfareDated' /\ Treasury!WelfareOnceADay'
  <2>1. \A h \in Groups : group'[h].date \in {group[h].date, Treasury!Today}
    BY <1>10
  <2>2. faults' >= faults
    BY <1>1, <1>2 DEF TreasuryType
  <2> QED  BY <1>1, <1>2, <1>11, <2>1, <2>2, WelfareStays
<1> QED  BY <1>11, <1>12, <1>13, <1>14, <1>15 DEF TreasuryInv

-----------------------------------------------------------------------------
(* Welfare *)

LEMMA WelfareType ==
  ASSUME TreasuryType, NEW g \in Groups
  PROVE  Treasury!Welfare(g) \in Int
<1>1. group[g].pool \in Int
  BY GroupFields
<1>2. Treasury!Nearest(group[g].pool, 10) \in Int
  BY <1>1 DEF Treasury!Nearest
<1>3. Treasury!Max({Treasury!Nearest(group[g].pool, 10), 1}) \in Int
  BY <1>2, MaxOfTwo
<1> QED  BY <1>1, <1>3, MinOfTwo DEF Treasury!Welfare

\* A packet is taken from the pool; its date is written, or one more transaction has failed.
LEMMA GiveEffect ==
  ASSUME TreasuryConstants, TreasuryType, NEW g \in Groups, Treasury!Give(g)
  PROVE  /\ group' \in [Groups -> GroupRow]
         /\ \A h \in Groups : h # g => group'[h] = group[h]
         /\ group'[g].pool = group[g].pool - Treasury!Welfare(g) /\ group'[g].staked = group[g].staked
         /\ faults \in Nat /\ faults' \in Nat
         /\ \/ group'[g].date = Treasury!Today /\ faults' = faults
            \/ group'[g].date = group[g].date /\ faults' = faults + 1
<1> DEFINE w == Treasury!Welfare(g)
           today == Treasury!Today
<1>1. group \in [Groups -> GroupRow] /\ group[g] \in GroupRow /\ faults \in Nat
  BY DEF TreasuryType
<1>2. w \in Int /\ today \in Int
  BY WelfareType, TodayIsDay
<1>3. \/ group' = [group EXCEPT ![g].pool = @ - w, ![g].date = today] /\ faults' = faults
      \/ group' = [group EXCEPT ![g].pool = @ - w] /\ faults' = faults + 1
  BY DEF Treasury!Give
<1> HIDE DEF w, today
<1>4. CASE group' = [group EXCEPT ![g].pool = @ - w, ![g].date = today] /\ faults' = faults
  <2>1. /\ group'[g] = [group[g] EXCEPT !.pool = @ - w, !.date = today]
        /\ \A h \in Groups : h # g => group'[h] = group[h]
        /\ DOMAIN group' = Groups
    BY <1>1, <1>4
  <2>2. /\ group'[g] \in GroupRow /\ group'[g].pool = group[g].pool - w
        /\ group'[g].staked = group[g].staked /\ group'[g].date = today
    <3>1. /\ DOMAIN group[g] = {"live", "pool", "staked", "hour", "date"}
          /\ group[g].live \in BOOLEAN /\ group[g].pool \in Int /\ group[g].staked \in Int
          /\ group[g].hour \in Int
      BY <1>1 DEF GroupRow
    <3>2. /\ group'[g].pool = group[g].pool - w /\ group'[g].date = today
          /\ group'[g].live = group[g].live /\ group'[g].staked = group[g].staked
          /\ group'[g].hour = group[g].hour
      BY <2>1, <3>1
    <3>3. group'[g] = [live |-> group'[g].live, pool |-> group'[g].pool, staked |-> group'[g].staked,
                       hour |-> group'[g].hour, date |-> group'[g].date]
      BY <1>1, <2>1 DEF GroupRow
    <3>4. group'[g] \in GroupRow
      BY <1>2, <3>1, <3>2, <3>3 DEF GroupRow
    <3> QED  BY <3>2, <3>4
  <2>3. group' \in [Groups -> GroupRow]
    BY <1>1, <1>4, <2>1, <2>2
  <2> QED  BY <1>1, <1>4, <2>1, <2>2, <2>3 DEF w, today
<1>5. CASE group' = [group EXCEPT ![g].pool = @ - w] /\ faults' = faults + 1
  <2>1. /\ group'[g] = [group[g] EXCEPT !.pool = @ - w]
        /\ \A h \in Groups : h # g => group'[h] = group[h]
        /\ DOMAIN group' = Groups
    BY <1>1, <1>5
  <2>2. /\ group'[g] \in GroupRow /\ group'[g].pool = group[g].pool - w
        /\ group'[g].staked = group[g].staked /\ group'[g].date = group[g].date
    BY <1>1, <1>2, <2>1 DEF GroupRow
  <2>3. group' \in [Groups -> GroupRow]
    BY <1>1, <1>5, <2>1, <2>2
  <2> QED  BY <1>1, <1>5, <2>1, <2>2, <2>3 DEF w, today
<1> QED  BY <1>3, <1>4, <1>5

\* What a packet of the pool does to the books, whoever asked for it
LEMMA GiveKeeps ==
  ASSUME TreasuryConstants, TreasuryInv, NEW g \in Groups, Treasury!Give(g),
         spent' = [spent EXCEPT !.packets = @ + Treasury!Welfare(g)],
         UNCHANGED << credits, stake, drop, now >>,
         welfare' \in [Groups -> [Days -> Nat]]
  PROVE  TreasuryType' /\ DropFits' /\ MoneyKept' /\ Covered'
<1> DEFINE w == Treasury!Welfare(g)
<1>1. /\ TreasuryType /\ DropFits /\ MoneyKept /\ Covered
  BY DEF TreasuryInv
<1>2. /\ group' \in [Groups -> GroupRow]
      /\ \A h \in Groups : h # g => group'[h] = group[h]
      /\ group'[g].pool = group[g].pool - w /\ group'[g].staked = group[g].staked
      /\ faults' \in Nat
  BY <1>1, GiveEffect
<1>3. w \in Int
  BY <1>1, WelfareType
<1> HIDE DEF w
<1>4. /\ spent' \in [packets: Int, lost: Int, drops: [Days -> Int]]
      /\ spent'.packets = spent.packets + w /\ spent'.lost = spent.lost /\ spent'.drops = spent.drops
  <2>1. spent \in [packets: Int, lost: Int, drops: [Days -> Int]]
    BY <1>1 DEF TreasuryType
  <2> QED  BY <1>3, <2>1 DEF w
<1>5. TreasuryType'
  BY <1>1, <1>2, <1>4 DEF TreasuryType
<1>6. DropFits'
  BY <1>1, <1>4, DropStays
<1>7. MoneyKept'
  <2>1. SumFunctionOnSet(Treasury!Worths', Groups)
          = SumFunctionOnSet(Treasury!Worths, Groups)
              + (group'[g].pool + group'[g].staked) - (group[g].pool + group[g].staked)
    BY <1>1, <1>2, <1>5, WorthMoves
  <2>2. SumFunctionOnSet(Treasury!Worths', Groups) = SumFunctionOnSet(Treasury!Worths, Groups) - w
    BY <1>1, <1>2, <1>3, <2>1, BooksAreInt, GroupFields
  <2>3. SumFunctionOnSet(credits', Members) = SumFunctionOnSet(credits, Members)
    OBVIOUS
  <2> QED  BY <1>1, <1>3, <1>4, <1>5, <2>2, <2>3, BooksAreInt, MoneyStays
<1>8. Covered'
  <2>1. \A h \in Groups : group'[h].staked \in Int /\ group'[h].staked >= group[h].staked
    <3>1. \A h \in Groups : group[h].staked \in Int
      BY <1>1, GroupFields
    <3> QED  BY <1>2, <3>1
  <2> QED  BY <1>1, <2>1, CoveredStays
<1> QED  BY <1>5, <1>6, <1>7, <1>8

LEMMA DistributeKeeps ==
  ASSUME TreasuryConstants, TreasuryInv, NEW g \in Groups, Treasury!Distribute(g)
  PROVE  TreasuryInv'
<1>1. TreasuryType /\ WelfareDated /\ Treasury!WelfareOnceADay
  BY DEF TreasuryInv
<1>2. /\ Treasury!Give(g) /\ spent' = [spent EXCEPT !.packets = @ + Treasury!Welfare(g)]
      /\ UNCHANGED << credits, stake, drop, now, welfare >>
  BY DEF Treasury!Distribute
<1>3. TreasuryType' /\ DropFits' /\ MoneyKept' /\ Covered'
  <2>1. welfare' \in [Groups -> [Days -> Nat]]
    BY <1>1, <1>2 DEF TreasuryType
  <2> QED  BY <1>2, <2>1, GiveKeeps
<1>4. WelfareDated' /\ Treasury!WelfareOnceADay'
  <2>1. /\ faults' >= faults
        /\ \A h \in Groups : group'[h].date \in {group[h].date, Treasury!Today}
    BY <1>1, <1>2, GiveEffect
  <2> QED  BY <1>1, <1>2, <1>3, <2>1, WelfareStays
<1> QED  BY <1>3, <1>4 DEF TreasuryInv

\* The job finds a group only while its date is not today's.
LEMMA DailyWelfareKeeps ==
  ASSUME TreasuryConstants, TreasuryInv, NEW g \in Groups, Treasury!DailyWelfare(g)
  PROVE  TreasuryInv'
<1> DEFINE today == Treasury!Today
<1>1. TreasuryType /\ WelfareDated /\ Treasury!WelfareOnceADay
  BY DEF TreasuryInv
<1>2. /\ Treasury!Give(g) /\ spent' = [spent EXCEPT !.packets = @ + Treasury!Welfare(g)]
      /\ UNCHANGED << credits, stake, drop, now >> /\ group[g].date # today
      /\ welfare' = [welfare EXCEPT ![g][today] = @ + 1]
  BY DEF Treasury!DailyWelfare, Treasury!IsDue
<1>3. today \in Days /\ today \in Nat /\ today' = today /\ Days \subseteq Nat
  BY <1>1, <1>2, TodayIsDay, DaysFinite DEF Treasury!Today
<1> HIDE DEF today
<1>4. /\ welfare \in [Groups -> [Days -> Nat]] /\ welfare' \in [Groups -> [Days -> Nat]]
      /\ welfare'[g][today] = welfare[g][today] + 1
      /\ \A d \in Days : d # today => welfare'[g][d] = welfare[g][d]
      /\ \A h \in Groups : h # g => welfare'[h] = welfare[h]
  BY <1>1, <1>2, <1>3 DEF TreasuryType
<1>5. TreasuryType' /\ DropFits' /\ MoneyKept' /\ Covered'
  BY <1>2, <1>4, GiveKeeps
<1>6. /\ faults \in Nat /\ faults' \in Nat /\ faults' >= faults
      /\ \/ group'[g].date = today /\ faults' = faults
         \/ group'[g].date = group[g].date /\ faults' = faults + 1
      /\ \A h \in Groups : h # g => group'[h] = group[h]
  BY <1>1, <1>2, GiveEffect DEF today
<1>7. welfare[g][today] <= faults
  BY <1>1, <1>2 DEF WelfareDated, today
<1>8. WelfareDated'
  <2>1. ASSUME NEW h \in Groups, group'[h].date # today
        PROVE  welfare'[h][today] <= faults'
    <3>1. CASE h = g
      BY <1>3, <1>4, <1>6, <1>7, <2>1, <3>1
    <3>2. CASE h # g
      <4>1. welfare[h][today] <= faults /\ welfare[h][today] \in Nat
        BY <1>1, <1>3, <1>4, <1>6, <2>1, <3>2 DEF WelfareDated, today
      <4> QED  BY <1>4, <1>6, <3>2, <4>1
    <3> QED  BY <3>1, <3>2
  <2>2. ASSUME NEW h \in Groups, NEW d \in Days, d > today
        PROVE  welfare'[h][d] = 0
    <3>1. welfare[h][d] = 0 /\ d # today
      BY <1>1, <1>3, <2>2 DEF WelfareDated, today
    <3> QED  BY <1>4, <3>1
  <2> QED  BY <1>3, <2>1, <2>2 DEF WelfareDated, today
<1>9. Treasury!WelfareOnceADay'
  <2>1. ASSUME NEW h \in Groups, NEW d \in Days
        PROVE  welfare'[h][d] <= 1 + faults'
    <3>1. welfare[h][d] <= 1 + faults /\ welfare[h][d] \in Nat
      BY <1>1, <1>4 DEF Treasury!WelfareOnceADay, Days
    <3>2. CASE h = g /\ d = today
      BY <1>3, <1>4, <1>6, <1>7, <3>2
    <3>3. CASE ~(h = g /\ d = today)
      <4>1. welfare'[h][d] = welfare[h][d]
        BY <1>4, <3>3
      <4> QED  BY <1>6, <3>1, <4>1
    <3> QED  BY <3>2, <3>3
  <2> QED  BY <2>1 DEF Treasury!WelfareOnceADay, Days
<1> QED  BY <1>5, <1>8, <1>9 DEF TreasuryInv

LEMMA ConfigureKeeps ==
  ASSUME TreasuryConstants, TreasuryInv, NEW g \in Groups, NEW hour \in Int, Treasury!Configure(g, hour)
  PROVE  TreasuryInv'
<1>1. TreasuryType /\ DropFits /\ MoneyKept /\ Covered /\ WelfareDated /\ Treasury!WelfareOnceADay
  BY DEF TreasuryInv
<1>2. /\ group' = [group EXCEPT ![g].hour = hour]
      /\ UNCHANGED << credits, stake, drop, now, spent, welfare, faults >>
  BY DEF Treasury!Configure
<1>3. /\ group' \in [Groups -> GroupRow]
      /\ \A h \in Groups : /\ group'[h].pool = group[h].pool /\ group'[h].staked = group[h].staked
                           /\ group'[h].date = group[h].date
  <2>1. group \in [Groups -> GroupRow] /\ \A h \in Groups : group[h] \in GroupRow
    BY <1>1 DEF TreasuryType
  <2>2. group'[g] \in GroupRow /\ group'[g] = [group[g] EXCEPT !.hour = hour]
    BY <1>2, <2>1 DEF GroupRow
  <2> QED  BY <1>2, <2>1, <2>2 DEF GroupRow
<1>4. TreasuryType'
  BY <1>1, <1>2, <1>3 DEF TreasuryType
<1>5. DropFits'
  BY <1>1, <1>2, DropStays
<1>6. MoneyKept'
  <2>1. Treasury!Worths' = Treasury!Worths
    BY <1>3, WorthsStay
  <2> QED  BY <1>1, <1>2, <1>4, <2>1, MoneyStays
<1>7. Covered'
  <2>1. \A h \in Groups : group[h].staked \in Int
    BY <1>1, GroupFields
  <2> QED  BY <1>1, <1>2, <1>3, <2>1, CoveredStays
<1>8. WelfareDated' /\ Treasury!WelfareOnceADay'
  <2>1. faults' >= faults
    BY <1>1, <1>2 DEF TreasuryType
  <2> QED  BY <1>1, <1>2, <1>3, <1>4, <2>1, WelfareStays
<1> QED  BY <1>4, <1>5, <1>6, <1>7, <1>8 DEF TreasuryInv

-----------------------------------------------------------------------------
(* The airdrop *)

LEMMA NearestBelow ==
  ASSUME NEW a \in Nat, NEW b \in Nat \ {0}
  PROVE  /\ Treasury!Nearest(a, b) \in Nat
         /\ 2 * b * Treasury!Nearest(a, b) <= 2 * a + b
BY DEF Treasury!Nearest

LEMMA ShareStep ==
  ASSUME NEW A \in Int, NEW s \in Int, NEW X \in Int, NEW x \in Int, NEW t \in Int, NEW r \in Int, NEW n \in Int,
         2 * t * A <= 2 * r * X + t * n, 2 * t * s <= 2 * (r * x) + t
  PROVE  2 * t * (A + s) <= 2 * r * (X + x) + t * (n + 1)
OBVIOUS

LEMMA Cancelled ==
  ASSUME NEW a \in Int, NEW b \in Int, NEW c \in Nat \ {0}, c * a <= c * b
  PROVE  a <= b
OBVIOUS

\* Shares by activity, each rounded, exceed what is shared by less than a unit each.
LEMMA SharesFit ==
  ASSUME NEW S, IsFiniteSet(S), NEW act, NEW f, NEW rest \in Nat, NEW total \in Nat \ {0},
         total = SumFunctionOnSet(act, S),
         \A g \in S : act[g] \in Nat /\ f[g] \in Nat /\ 2 * total * f[g] <= 2 * (rest * act[g]) + total
  PROVE  SumFunctionOnSet(f, S) <= rest + Cardinality(S)
<1> DEFINE Good == {s \in SUBSET S :
              2 * total * SumFunctionOnSet(f, s)
                <= 2 * rest * SumFunctionOnSet(act, s) + total * Cardinality(s)}
<1>1. ASSUME NEW T \in SUBSET S, \A U \in SUBSET T : U # T => U \in Good
      PROVE  T \in Good
  <2>1. IsFiniteSet(T)
    BY FS_Subset
  <2>2. CASE T = {}
    <3>1. SumFunctionOnSet(f, T) = 0 /\ SumFunctionOnSet(act, T) = 0 /\ Cardinality(T) = 0
      BY <2>2, SumOfNone, FS_EmptySet
    <3> QED  BY <3>1
  <2>3. CASE T # {}
    <3>1. PICK x \in T : TRUE
      BY <2>3
    <3> DEFINE U == T \ {x}
    <3>2. U \in Good /\ IsFiniteSet(U)
      BY <1>1, <2>1, <3>1, FS_Subset
    <3>3. /\ SumFunctionOnSet(f, T) = f[x] + SumFunctionOnSet(f, U)
          /\ SumFunctionOnSet(act, T) = act[x] + SumFunctionOnSet(act, U)
      BY <2>1, <3>1, SumWithout
    <3>4. Cardinality(U) \in Nat /\ Cardinality(T) = Cardinality(U) + 1
      <4>1. Cardinality(U) = Cardinality(T) - 1 /\ Cardinality(T) \in Nat
        BY <2>1, <3>1, FS_RemoveElement, FS_CardinalityType
      <4>2. Cardinality(U) \in Nat
        BY <3>2, FS_CardinalityType
      <4> HIDE DEF U
      <4> QED  BY <4>1, <4>2
    <3>5. SumFunctionOnSet(f, U) \in Int /\ SumFunctionOnSet(act, U) \in Int
      BY <3>1, <3>2, SumType
    <3>6. 2 * total * SumFunctionOnSet(f, U) <= 2 * rest * SumFunctionOnSet(act, U) + total * Cardinality(U)
      BY <3>2
    <3>7. f[x] \in Nat /\ act[x] \in Nat /\ 2 * total * f[x] <= 2 * (rest * act[x]) + total
      BY <3>1
    <3> HIDE DEF U, Good
    <3>8. 2 * total * (SumFunctionOnSet(f, U) + f[x])
            <= 2 * rest * (SumFunctionOnSet(act, U) + act[x]) + total * (Cardinality(U) + 1)
      BY <3>4, <3>5, <3>6, <3>7, ShareStep
    <3>9. /\ SumFunctionOnSet(f, T) = SumFunctionOnSet(f, U) + f[x]
          /\ SumFunctionOnSet(act, T) = SumFunctionOnSet(act, U) + act[x]
      BY <3>3, <3>5, <3>7
    <3>10. 2 * total * SumFunctionOnSet(f, T) <= 2 * rest * SumFunctionOnSet(act, T) + total * Cardinality(T)
      BY ONLY <3>4, <3>8, <3>9
    <3> QED  BY <3>10 DEF Good
  <2> QED  BY <2>2, <2>3
<1>2. SUBSET S \subseteq Good
  <2> HIDE DEF Good
  <2> QED  BY <1>1, SubsetInduction
<1>3. 2 * total * SumFunctionOnSet(f, S) <= 2 * rest * total + total * Cardinality(S)
  BY <1>2
<1>4. SumFunctionOnSet(f, S) \in Int /\ Cardinality(S) \in Nat
  BY SumType, FS_CardinalityType
<1>5. total * (2 * SumFunctionOnSet(f, S)) <= total * (2 * rest + Cardinality(S))
  BY <1>3, <1>4
<1>6. 2 * SumFunctionOnSet(f, S) <= 2 * rest + Cardinality(S)
  BY <1>4, <1>5, Cancelled
<1> QED  BY <1>4, <1>6

\* An airdrop gives no more than the pool of the day, but for rounding.
LEMMA DroppedFits ==
  ASSUME TreasuryConstants, NEW D \in SUBSET Groups, NEW act \in [D -> Activities],
         NEW top \in SUBSET D, Cardinality(top) <= TopN
  PROVE  /\ DOMAIN Treasury!Dropped(act, top) = D
         /\ \A g \in D : Treasury!Dropped(act, top)[g] \in Nat
         /\ SumFunctionOnSet(Treasury!Dropped(act, top), D) <= DailyPool + Cardinality(Groups)
<1> DEFINE f == Treasury!Dropped(act, top)
           others == D \ top
           k == Cardinality(top)
           rest == DailyPool - TopAmount * k
           total == SumFunctionOnSet(act, others)
           share(g) == IF total > 0 /\ rest > 0 THEN Treasury!Nearest(rest * act[g], total) ELSE 0
<1>1. /\ IsFiniteSet(Groups) /\ GroupCap \in Nat /\ TopAmount \in Nat /\ TopN \in Nat /\ DailyPool \in Nat
      /\ TopN * TopAmount <= DailyPool /\ \A g \in D : act[g] \in Nat
  BY DEF TreasuryConstants
<1>2. IsFiniteSet(D) /\ IsFiniteSet(top) /\ IsFiniteSet(others)
  BY <1>1, FS_Subset
<1>3. /\ k \in Nat /\ Cardinality(others) \in Nat /\ Cardinality(Groups) \in Nat
      /\ Cardinality(others) <= Cardinality(Groups)
  BY <1>1, <1>2, FS_CardinalityType, FS_Subset
<1>4. TopAmount * k \in Nat /\ TopAmount * k <= TopN * TopAmount
  BY <1>1, <1>3
<1>5. rest \in Nat
  BY <1>1, <1>4
<1>6. total \in Nat
  BY <1>1, <1>2, SumTypeNat
<1>7. /\ DOMAIN f = D
      /\ \A g \in top : f[g] = Treasury!Min({GroupCap, TopAmount})
      /\ \A g \in others : f[g] = Treasury!Min({GroupCap, share(g)})
  <2>1. /\ DOMAIN act = D /\ Treasury!SumFunctionOnSet(act, D \ top) = SumFunctionOnSet(act, D \ top)
        /\ Treasury!Cardinality(top) = Cardinality(top)
    BY SumOfTreasury, CardinalityOfTreasury
  <2>2. f = [g \in D |-> Treasury!Min({GroupCap, IF g \in top THEN TopAmount ELSE share(g)})]
    BY <2>1, Zenon DEF Treasury!Dropped
  <2> HIDE DEF f, share
  <2> QED  BY <2>2
<1> HIDE DEF f, k
<1>8. \A g \in top : f[g] \in Nat /\ f[g] = Treasury!Min({GroupCap, TopAmount})
  BY <1>1, <1>7, MinOfTwo
<1>9. SumFunctionOnSet(f, top) <= TopAmount * k /\ SumFunctionOnSet(f, top) \in Int
  <2> DEFINE c == Treasury!Min({GroupCap, TopAmount})
  <2>1. c \in Nat /\ c <= TopAmount
    BY <1>1, MinOfTwo
  <2>2. \A g \in top : f[g] = c
    BY <1>8
  <2> HIDE DEF c
  <2>3. SumFunctionOnSet(f, top) = k * c
    BY <1>2, <2>1, <2>2, SumOfConstant DEF k
  <2> QED  BY <1>1, <1>3, <2>1, <2>3
<1>10. ASSUME NEW g \in others
       PROVE  /\ share(g) \in Nat /\ f[g] \in Nat /\ f[g] <= share(g)
              /\ total > 0 /\ rest > 0 => 2 * total * f[g] <= 2 * (rest * act[g]) + total
              /\ ~(total > 0 /\ rest > 0) => f[g] = 0
  <2> HIDE DEF rest, total
  <2>1. act[g] \in Nat /\ rest * act[g] \in Nat
    BY <1>1, <1>5
  <2>2. CASE total > 0 /\ rest > 0
    <3> DEFINE s == Treasury!Nearest(rest * act[g], total)
    <3>1. s \in Nat /\ 2 * total * s <= 2 * (rest * act[g]) + total
      BY <1>6, <2>1, <2>2, NearestBelow
    <3> HIDE DEF s
    <3>2. share(g) = s /\ f[g] = Treasury!Min({GroupCap, s})
      BY <1>7, <2>2 DEF s
    <3>3. f[g] \in Nat /\ f[g] <= s
      BY <1>1, <3>1, <3>2, MinOfTwo
    <3>4. 2 * total * f[g] <= 2 * total * s
      BY <1>6, <3>1, <3>3
    <3>5. 2 * total * f[g] \in Int /\ 2 * total * s \in Int /\ 2 * (rest * act[g]) + total \in Int
      BY <1>6, <2>1, <3>1, <3>3
    <3>6. 2 * total * f[g] <= 2 * (rest * act[g]) + total
      BY ONLY <3>1, <3>4, <3>5
    <3> QED  BY <2>2, <3>1, <3>2, <3>3, <3>6
  <2>3. CASE ~(total > 0 /\ rest > 0)
    <3>1. share(g) = 0 /\ f[g] = Treasury!Min({GroupCap, 0})
      BY <1>7, <2>3
    <3>2. f[g] = 0
      BY <1>1, <3>1, MinOfTwo
    <3> QED  BY <2>3, <3>1, <3>2
  <2> QED  BY <2>2, <2>3
<1>11. SumFunctionOnSet(f, others) <= rest + Cardinality(others) /\ SumFunctionOnSet(f, others) \in Int
  <2>1. SumFunctionOnSet(f, others) \in Int
    BY <1>2, <1>10, SumType
  <2>2. CASE total > 0 /\ rest > 0
    <3>1. \A g \in others : act[g] \in Nat /\ f[g] \in Nat /\ 2 * total * f[g] <= 2 * (rest * act[g]) + total
      BY <1>1, <1>10, <2>2
    <3>2. total \in Nat \ {0} /\ total = SumFunctionOnSet(act, others)
      BY <1>6, <2>2
    <3> HIDE DEF total, rest, others
    <3>3. SumFunctionOnSet(f, others) <= rest + Cardinality(others)
      BY <1>2, <1>5, <3>1, <3>2, SharesFit
    <3> QED  BY <2>1, <3>3
  <2>3. CASE ~(total > 0 /\ rest > 0)
    <3>1. \A g \in others : f[g] = 0
      BY <1>10, <2>3
    <3>2. 0 \in Int
      OBVIOUS
    <3>3. SumFunctionOnSet(f, others) = Cardinality(others) * 0
      BY <1>2, <3>1, <3>2, SumOfConstant
    <3> HIDE DEF total, rest, others
    <3> QED  BY <1>3, <1>5, <2>1, <3>3
  <2> QED  BY <2>2, <2>3
<1>12. SumFunctionOnSet(f, D) = SumFunctionOnSet(f, top) + SumFunctionOnSet(f, others)
  <2> DEFINE W == top \cup others
  <2>1. W = D /\ top \cap others = {} /\ \A g \in W : f[g] \in Int
    BY <1>8, <1>10
  <2>2. SumFunctionOnSet(f, W) = SumFunctionOnSet(f, top) + SumFunctionOnSet(f, others)
    BY <1>2, <2>1, SumOfUnion
  <2> HIDE DEF W, others
  <2> QED  BY ONLY <2>1, <2>2
<1>13. SumFunctionOnSet(f, D) <= DailyPool + Cardinality(Groups)
  <2> HIDE DEF others
  <2> QED  BY <1>1, <1>3, <1>4, <1>9, <1>11, <1>12
<1>14. \A g \in D : f[g] \in Nat
  BY <1>8, <1>10
<1> QED  BY <1>7, <1>13, <1>14 DEF f

LEMMA AirdropReadKeeps ==
  ASSUME TreasuryConstants, TreasuryInv, Treasury!AirdropRead
  PROVE  TreasuryInv'
<1> DEFINE D == Treasury!Eligible
<1>1. /\ TreasuryType /\ DropFits /\ MoneyKept /\ Covered /\ WelfareDated /\ Treasury!WelfareOnceADay
  BY DEF TreasuryInv
<1>2. /\ UNCHANGED << credits, group, stake, now, spent, welfare, faults >>
      /\ spent.drops[Treasury!Today] = -1 /\ Treasury!Today' = Treasury!Today
  BY DEF Treasury!AirdropRead, Treasury!Today
<1>3. D \subseteq Groups
  BY DEF Treasury!Eligible
<1> HIDE DEF D
<1>4. PICK act \in [D -> Activities], top \in SUBSET D : Treasury!Ranked(act, top) /\ drop' = Treasury!Dropped(act, top)
  BY DEF Treasury!AirdropRead, D
<1>5. Cardinality(top) <= TopN
  <2>1. Cardinality(top) = Treasury!Min({TopN, Cardinality(D)})
    BY <1>4, CardinalityOfTreasury DEF Treasury!Ranked
  <2>2. TopN \in Nat /\ Cardinality(D) \in Nat
    <3>1. IsFiniteSet(D)
      BY <1>3, FS_Subset DEF TreasuryConstants
    <3> QED  BY <3>1, FS_CardinalityType DEF TreasuryConstants
  <2> QED  BY <2>1, <2>2, MinOfTwo
<1>6. /\ DOMAIN drop' = D /\ \A g \in D : drop'[g] \in Nat
      /\ SumFunctionOnSet(drop', D) <= DailyPool + Cardinality(Groups)
  BY <1>3, <1>4, <1>5, DroppedFits
<1>7. TreasuryType'
  BY <1>1, <1>2, <1>3, <1>6 DEF TreasuryType
<1>8. DropFits'
  <2>1. SumFunctionOnSet(drop', DOMAIN drop') <= DailyPool + Cardinality(Groups)
    BY <1>6
  <2> QED  BY <1>1, <1>2, <2>1 DEF DropFits
<1>9. MoneyKept'
  <2>1. Treasury!Worths' = Treasury!Worths
    BY <1>2, WorthsStay
  <2> QED  BY <1>1, <1>2, <1>7, <2>1, MoneyStays
<1>10. Covered'
  <2>1. \A h \in Groups : group[h].staked \in Int
    BY <1>1, GroupFields
  <2> QED  BY <1>1, <1>2, <2>1, CoveredStays
<1>11. WelfareDated' /\ Treasury!WelfareOnceADay'
  <2>1. faults' >= faults
    BY <1>1, <1>2 DEF TreasuryType
  <2> QED  BY <1>1, <1>2, <1>7, <2>1, WelfareStays
<1> QED  BY <1>7, <1>8, <1>9, <1>10, <1>11 DEF TreasuryInv

\* What a group dismissed meanwhile does not get is lost, not paid to another.
LEMMA AirdropWriteKeeps ==
  ASSUME TreasuryConstants, TreasuryInv, Treasury!AirdropWrite
  PROVE  TreasuryInv'
<1> DEFINE P == {g \in DOMAIN drop : group[g].live}
           M == {g \in DOMAIN drop : ~group[g].live}
           total == SumFunctionOnSet(drop, DOMAIN drop)
           missed == SumFunctionOnSet(drop, M)
           today == Treasury!Today
<1>1. /\ TreasuryType /\ DropFits /\ MoneyKept /\ Covered /\ WelfareDated /\ Treasury!WelfareOnceADay
  BY DEF TreasuryInv
<1>2. /\ group' = [g \in Groups |-> IF g \in DOMAIN drop /\ group[g].live
                                    THEN [group[g] EXCEPT !.pool = @ + drop[g]] ELSE group[g]]
      /\ spent' = [spent EXCEPT !.drops[today] = total, !.lost = @ + missed]
      /\ drop # << >> /\ drop' = << >>
      /\ UNCHANGED << credits, stake, now, welfare, faults >>
  BY SumOfTreasury DEF Treasury!AirdropWrite
<1>3. /\ IsFiniteSet(Groups) /\ DOMAIN drop \subseteq Groups /\ IsFiniteSet(DOMAIN drop)
      /\ P \subseteq DOMAIN drop /\ M \subseteq DOMAIN drop /\ P \cap M = {} /\ P \cup M = DOMAIN drop
      /\ IsFiniteSet(P) /\ IsFiniteSet(M)
      /\ \A g \in DOMAIN drop : drop[g] \in Nat
  BY <1>1, FS_Subset DEF TreasuryType, TreasuryConstants
<1>4. /\ total \in Nat /\ missed \in Nat /\ SumFunctionOnSet(drop, P) \in Nat
      /\ total = SumFunctionOnSet(drop, P) + missed
  <2>1. total \in Nat /\ missed \in Nat /\ SumFunctionOnSet(drop, P) \in Nat
    BY <1>3, SumTypeNat
  <2> DEFINE W == P \cup M
  <2>2. W = DOMAIN drop /\ \A g \in W : drop[g] \in Int
    BY <1>3
  <2>3. SumFunctionOnSet(drop, W) = SumFunctionOnSet(drop, P) + SumFunctionOnSet(drop, M)
    BY <1>3, <2>2, SumOfUnion
  <2> HIDE DEF W, P, M
  <2>4. SumFunctionOnSet(drop, W) = total
    BY ONLY <2>2
  <2> QED  BY <2>1, <2>3, <2>4
<1>5. today \in Days /\ today' = today
  BY <1>1, <1>2, TodayIsDay DEF Treasury!Today
<1>6. \A g \in Groups : /\ group[g] \in GroupRow /\ group'[g] \in GroupRow
                        /\ group'[g].staked = group[g].staked /\ group'[g].date = group[g].date
                        /\ group'[g].pool = group[g].pool + (IF g \in P THEN drop[g] ELSE 0)
  <2>1. ASSUME NEW g \in Groups
        PROVE  /\ group[g] \in GroupRow /\ group'[g] \in GroupRow
               /\ group'[g].staked = group[g].staked /\ group'[g].date = group[g].date
               /\ group'[g].pool = group[g].pool + (IF g \in P THEN drop[g] ELSE 0)
    <3>1. group[g] \in GroupRow
      BY <1>1, GroupFields
    <3>2. CASE g \in P
      <4>1. group'[g] = [group[g] EXCEPT !.pool = @ + drop[g]] /\ drop[g] \in Nat
        BY <1>2, <1>3, <3>2
      <4> QED  BY <3>1, <3>2, <4>1 DEF GroupRow
    <3>3. CASE g \notin P
      <4>1. group'[g] = group[g]
        BY <1>2, <3>3
      <4> QED  BY <3>1, <3>3, <4>1 DEF GroupRow
    <3> QED  BY <3>2, <3>3
  <2> QED  BY <2>1
<1>7. group' \in [Groups -> GroupRow]
  BY <1>2, <1>6
<1> HIDE DEF P, M, total, missed, today
<1>8. /\ spent' \in [packets: Int, lost: Int, drops: [Days -> Int]]
      /\ spent'.packets = spent.packets /\ spent'.lost = spent.lost + missed
      /\ spent'.drops = [spent.drops EXCEPT ![today] = total]
      /\ spent.drops \in [Days -> Int]
  <2>1. /\ spent \in [packets: Int, lost: Int, drops: [Days -> Int]]
        /\ spent.packets \in Int /\ spent.lost \in Int /\ spent.drops \in [Days -> Int]
    BY <1>1 DEF TreasuryType
  <2>2. /\ spent'.packets = spent.packets /\ spent'.lost = spent.lost + missed
        /\ spent'.drops = [spent.drops EXCEPT ![today] = total]
        /\ spent' = [packets |-> spent'.packets, lost |-> spent'.lost, drops |-> spent'.drops]
    BY <1>2, <2>1
  <2>3. spent'.drops \in [Days -> Int]
    BY <1>4, <1>5, <2>1, <2>2
  <2> QED  BY <1>4, <2>1, <2>2, <2>3
<1>9. DOMAIN drop' = {}
  BY <1>2
<1>10. TreasuryType'
  BY <1>1, <1>2, <1>7, <1>8, <1>9 DEF TreasuryType
<1>11. spent.drops[today] = -1 /\ spent'.drops[today] = total
       /\ \A d \in Days : d # today => spent'.drops[d] = spent.drops[d]
  BY <1>1, <1>2, <1>5, <1>8 DEF DropFits, today
<1>12. DropFits'
  <2>1. \A d \in Days : spent'.drops[d] <= DailyPool + Cardinality(Groups)
    BY <1>1, <1>11 DEF DropFits, total
  <2>2. SumFunctionOnSet(drop', DOMAIN drop') = 0
    BY <1>9, SumOfNone
  <2>3. 0 <= DailyPool + Cardinality(Groups)
    BY <1>3, FS_CardinalityType DEF TreasuryConstants
  <2> QED  BY <1>2, <2>1, <2>2, <2>3 DEF DropFits
<1>13. MoneyKept'
  <2>1. SumFunctionOnSet(Treasury!Worths', Groups)
          = SumFunctionOnSet(Treasury!Worths, Groups) + SumFunctionOnSet(drop, P)
    <3> DEFINE paid == [g \in Groups |-> IF g \in P THEN drop[g] ELSE 0]
    <3>1. \A g \in Groups : /\ Treasury!Worths[g] = group[g].pool + group[g].staked
                            /\ Treasury!Worths'[g] = group'[g].pool + group'[g].staked
      BY DEF Treasury!Worths, Treasury!Worth
    <3>2. \A g \in Groups : paid[g] \in Int
      BY <1>3 DEF P
    <3>3. \A g \in Groups : /\ Treasury!Worths[g] \in Int
                            /\ Treasury!Worths'[g] = Treasury!Worths[g] + paid[g]
      BY <1>6, <3>1, <3>2 DEF GroupRow
    <3>4. P \subseteq Groups /\ \A g \in P : drop[g] \in Int /\ paid[g] = drop[g]
      BY <1>3
    <3>5. \A g \in Groups \ P : paid[g] = 0
      OBVIOUS
    <3> HIDE DEF paid
    <3>6. SumFunctionOnSet(paid, Groups) = SumFunctionOnSet(drop, P)
      BY <1>3, <3>4, <3>5, SumWhere
    <3>7. SumFunctionOnSet(Treasury!Worths', Groups)
            = SumFunctionOnSet(Treasury!Worths, Groups) + SumFunctionOnSet(paid, Groups)
      BY <1>3, <3>2, <3>3, SumOfSums
    <3> QED  BY <3>6, <3>7
  <2>2. SumFunctionOnSet(Treasury!Airdrops', Days) = SumFunctionOnSet(Treasury!Airdrops, Days) + total
    <3>1. \A d \in Days : /\ Treasury!Airdrops[d] = Treasury!Max({spent.drops[d], 0})
                          /\ Treasury!Airdrops'[d] = Treasury!Max({spent'.drops[d], 0})
      BY DEF Treasury!Airdrops, Days
    <3>2. \A d \in Days : spent.drops[d] \in Int /\ spent'.drops[d] \in Int
      BY <1>4, <1>8, <1>11
    <3>3. ASSUME NEW d \in Days
          PROVE  /\ Treasury!Airdrops[d] = IF spent.drops[d] >= 0 THEN spent.drops[d] ELSE 0
                 /\ Treasury!Airdrops'[d] = IF spent'.drops[d] >= 0 THEN spent'.drops[d] ELSE 0
      <4>1. /\ Treasury!Max({spent.drops[d], 0}) = IF spent.drops[d] >= 0 THEN spent.drops[d] ELSE 0
            /\ Treasury!Max({spent'.drops[d], 0}) = IF spent'.drops[d] >= 0 THEN spent'.drops[d] ELSE 0
        BY <3>2, MaxOfTwo
      <4> QED  BY <3>1, <4>1
    <3>4. \A d \in Days : Treasury!Airdrops[d] \in Int /\ Treasury!Airdrops'[d] \in Int
      BY <3>2, <3>3
    <3>5. Treasury!Airdrops[today] = 0 /\ Treasury!Airdrops'[today] = total
      BY <1>4, <1>5, <1>11, <3>3
    <3>6. \A d \in Days : d # today => Treasury!Airdrops'[d] = Treasury!Airdrops[d]
      BY <1>11, <3>1
    <3>7. SumFunctionOnSet(Treasury!Airdrops', Days)
            = SumFunctionOnSet(Treasury!Airdrops, Days) + Treasury!Airdrops'[today] - Treasury!Airdrops[today]
      BY <1>5, <3>4, <3>6, DaysFinite, SumChangesBy
    <3> QED  BY <1>1, <1>4, <3>5, <3>7, BooksAreInt
  <2>3. SumFunctionOnSet(credits', Members) = SumFunctionOnSet(credits, Members)
    BY <1>2
  <2>4. InitCredits * Cardinality(Members) + InitPool * Cardinality(Groups) \in Int
    BY <1>3, MembersAssumption, FS_CardinalityType DEF TreasuryConstants
  <2>5. SumFunctionOnSet(Treasury!Worths', Groups) + spent'.lost
          = SumFunctionOnSet(Treasury!Worths, Groups) + spent.lost + total
    BY <1>1, <1>4, <1>8, <2>1, BooksAreInt
  <2> QED  BY <1>1, <1>4, <1>8, <2>1, <2>2, <2>3, <2>4, <2>5, BooksAreInt DEF MoneyKept
<1>14. Covered'
  <2>1. \A h \in Groups : group[h].staked \in Int
    BY <1>1, GroupFields
  <2> QED  BY <1>1, <1>2, <1>6, <2>1, CoveredStays
<1>15. WelfareDated' /\ Treasury!WelfareOnceADay'
  <2>1. faults' >= faults
    BY <1>1, <1>2 DEF TreasuryType
  <2> QED  BY <1>1, <1>2, <1>6, <1>10, <2>1, WelfareStays
<1> QED  BY <1>10, <1>12, <1>13, <1>14, <1>15 DEF TreasuryInv

-----------------------------------------------------------------------------
(* Dismissal, and time *)

\* A group that is dismissed has no stakes left.
LEMMA DismissalKeeps ==
  ASSUME TreasuryConstants, TreasuryInv, NEW g \in Groups, Treasury!Dismiss(g)
  PROVE  TreasuryInv'
<1> DEFINE worth == group[g].pool + group[g].staked
<1>1. /\ TreasuryType /\ DropFits /\ MoneyKept /\ Covered /\ WelfareDated /\ Treasury!WelfareOnceADay
  BY DEF TreasuryInv
<1>2. /\ group' = [group EXCEPT ![g].live = FALSE, ![g].pool = 0, ![g].staked = 0]
      /\ spent' = [spent EXCEPT !.lost = @ + worth]
      /\ \A s \in DOMAIN stake : stake[s].group # g
      /\ UNCHANGED << credits, stake, drop, now, welfare, faults >>
  BY DEF Treasury!Dismiss, Treasury!Worth
<1>3. worth \in Int
  BY <1>1, GroupFields
<1>4. /\ group' \in [Groups -> GroupRow]
      /\ \A h \in Groups : h # g => group'[h] = group[h]
      /\ group'[g].pool = 0 /\ group'[g].staked = 0 /\ group'[g].date = group[g].date
  <2>1. group \in [Groups -> GroupRow] /\ group[g] \in GroupRow
    BY <1>1 DEF TreasuryType
  <2>2. /\ group'[g] = [group[g] EXCEPT !.live = FALSE, !.pool = 0, !.staked = 0]
        /\ \A h \in Groups : h # g => group'[h] = group[h]
        /\ DOMAIN group' = Groups
    BY <1>2, <2>1
  <2>3. /\ group'[g] \in GroupRow /\ group'[g].pool = 0 /\ group'[g].staked = 0
        /\ group'[g].date = group[g].date
    <3>1. /\ DOMAIN group[g] = {"live", "pool", "staked", "hour", "date"}
          /\ group[g].hour \in Int /\ group[g].date \in Int
      BY <2>1 DEF GroupRow
    <3>2. /\ group'[g].live = FALSE /\ group'[g].pool = 0 /\ group'[g].staked = 0
          /\ group'[g].hour = group[g].hour /\ group'[g].date = group[g].date
      BY <2>2, <3>1
    <3>3. group'[g] = [live |-> group'[g].live, pool |-> group'[g].pool, staked |-> group'[g].staked,
                       hour |-> group'[g].hour, date |-> group'[g].date]
      BY <2>1, <2>2 DEF GroupRow
    <3>4. group'[g] \in GroupRow
      <4>1. [live |-> FALSE, pool |-> 0, staked |-> 0, hour |-> group[g].hour, date |-> group[g].date]
              \in GroupRow
        BY <3>1 DEF GroupRow
      <4> QED  BY ONLY <3>2, <3>3, <4>1
    <3> QED  BY <3>2, <3>4
  <2>4. group' \in [Groups -> GroupRow]
    BY <1>2, <2>1, <2>2, <2>3
  <2> QED  BY <2>2, <2>3, <2>4
<1> HIDE DEF worth
<1>5. /\ spent' \in [packets: Int, lost: Int, drops: [Days -> Int]]
      /\ spent'.packets = spent.packets /\ spent'.lost = spent.lost + worth /\ spent'.drops = spent.drops
  <2>1. spent \in [packets: Int, lost: Int, drops: [Days -> Int]]
    BY <1>1 DEF TreasuryType
  <2> QED  BY <1>2, <1>3, <2>1
<1>6. TreasuryType'
  BY <1>1, <1>2, <1>4, <1>5 DEF TreasuryType
<1>7. DropFits'
  BY <1>1, <1>2, <1>5, DropStays
<1>8. MoneyKept'
  <2>1. SumFunctionOnSet(Treasury!Worths', Groups)
          = SumFunctionOnSet(Treasury!Worths, Groups)
              + (group'[g].pool + group'[g].staked) - (group[g].pool + group[g].staked)
    BY <1>1, <1>4, <1>6, WorthMoves
  <2>2. SumFunctionOnSet(Treasury!Worths', Groups) = SumFunctionOnSet(Treasury!Worths, Groups) - worth
    BY <1>1, <1>3, <1>4, <2>1, BooksAreInt, GroupFields DEF worth
  <2>3. SumFunctionOnSet(credits', Members) = SumFunctionOnSet(credits, Members)
    BY <1>2
  <2> QED  BY <1>1, <1>3, <1>5, <1>6, <2>2, <2>3, BooksAreInt, MoneyStays
<1>9. Covered'
  <2>1. Treasury!Staked' = Treasury!Staked /\ \A h \in Groups : Treasury!ActiveIn(h)' = Treasury!ActiveIn(h)
    BY <1>2 DEF Treasury!Staked, Treasury!ActiveIn
  <2>2. Treasury!ActiveIn(g) = {}
    BY <1>2 DEF Treasury!ActiveIn
  <2>3. group'[g].staked >= SumFunctionOnSet(Treasury!Staked', Treasury!ActiveIn(g)')
    <3>1. SumFunctionOnSet(Treasury!Staked', Treasury!ActiveIn(g)') = 0
      BY <2>1, <2>2, SumOfNone
    <3> QED  BY <1>4, <3>1
  <2>4. \A h \in Groups : h # g =>
          group'[h].staked >= SumFunctionOnSet(Treasury!Staked', Treasury!ActiveIn(h)')
    BY <1>1, <1>4, <2>1 DEF Covered
  <2> QED  BY <2>3, <2>4 DEF Covered
<1>10. WelfareDated' /\ Treasury!WelfareOnceADay'
  <2>1. /\ faults' >= faults
        /\ \A h \in Groups : group'[h].date \in {group[h].date, Treasury!Today}
    BY <1>1, <1>2, <1>4 DEF TreasuryType
  <2> QED  BY <1>1, <1>2, <1>6, <2>1, WelfareStays
<1> QED  BY <1>6, <1>7, <1>8, <1>9, <1>10 DEF TreasuryInv

LEMMA MatureKeeps ==
  ASSUME TreasuryConstants, TreasuryInv, NEW s \in DOMAIN stake, Treasury!Mature(s)
  PROVE  TreasuryInv'
<1>1. /\ TreasuryType /\ DropFits /\ MoneyKept /\ Covered /\ WelfareDated /\ Treasury!WelfareOnceADay
  BY DEF TreasuryInv
<1>2. /\ stake' = [stake EXCEPT ![s].old = TRUE]
      /\ UNCHANGED << credits, group, drop, now, spent, welfare, faults >>
  BY DEF Treasury!Mature
<1>3. /\ DOMAIN stake' = DOMAIN stake /\ stake' \in Seq(StakeRow)
      /\ \A r \in DOMAIN stake : /\ stake'[r].amount = stake[r].amount /\ stake'[r].group = stake[r].group
                                 /\ stake'[r].status = stake[r].status
  <2>1. Len(stake) \in Nat /\ DOMAIN stake = 1 .. Len(stake) /\ \A r \in DOMAIN stake : stake[r] \in StakeRow
    BY <1>1, StakeFields
  <2>2. /\ DOMAIN stake' = DOMAIN stake /\ stake'[s] = [stake[s] EXCEPT !.old = TRUE]
        /\ \A r \in DOMAIN stake : r # s => stake'[r] = stake[r]
    BY <1>2
  <2>3. /\ stake'[s] \in StakeRow /\ stake'[s].amount = stake[s].amount /\ stake'[s].group = stake[s].group
        /\ stake'[s].status = stake[s].status
    BY <2>1, <2>2 DEF StakeRow
  <2>4. stake' \in [1 .. Len(stake) -> StakeRow]
    BY <1>2, <2>1, <2>2, <2>3
  <2>5. stake' \in Seq(StakeRow)
    BY <2>1, <2>4
  <2> QED  BY <2>2, <2>3, <2>5
<1>4. TreasuryType'
  BY <1>1, <1>2, <1>3 DEF TreasuryType
<1>5. DropFits'
  BY <1>1, <1>2, DropStays
<1>6. MoneyKept'
  <2>1. Treasury!Worths' = Treasury!Worths
    BY <1>2, WorthsStay
  <2> QED  BY <1>1, <1>2, <1>4, <2>1, MoneyStays
<1>7. Covered'
  <2>1. /\ Treasury!Staked' = Treasury!Staked
        /\ \A h \in Groups : Treasury!ActiveIn(h)' = Treasury!ActiveIn(h)
    BY <1>3 DEF Treasury!Staked, Treasury!ActiveIn
  <2> QED  BY <1>1, <1>2, <2>1 DEF Covered
<1>8. WelfareDated' /\ Treasury!WelfareOnceADay'
  <2>1. faults' >= faults
    BY <1>1, <1>2 DEF TreasuryType
  <2> QED  BY <1>1, <1>2, <1>4, <2>1, WelfareStays
<1> QED  BY <1>4, <1>5, <1>6, <1>7, <1>8 DEF TreasuryInv

\* A new day finds no packet of its own; the airdrop thread is not overtaken by it.
LEMMA TickKeeps ==
  ASSUME TreasuryConstants, TreasuryInv, Treasury!Tick
  PROVE  TreasuryInv'
<1> DEFINE today == Treasury!Today
<1>1. /\ TreasuryType /\ DropFits /\ MoneyKept /\ Covered /\ WelfareDated /\ Treasury!WelfareOnceADay
  BY DEF TreasuryInv
<1>2. /\ now < MaxTime /\ now' = now + 1 /\ (drop # << >> => today' = today)
      /\ UNCHANGED << credits, group, stake, drop, spent, welfare, faults >>
  BY DEF Treasury!Tick, Treasury!Today
<1>3. now \in Nat /\ now' \in 0 .. MaxTime /\ MaxTime \in Nat /\ Hours \in Nat \ {0}
  BY <1>1, <1>2 DEF TreasuryType, TreasuryConstants
<1>4. TreasuryType'
  BY <1>1, <1>2, <1>3 DEF TreasuryType
<1>5. /\ today \in Nat /\ today' \in {today, today + 1} /\ today' \in Days /\ today' \in Nat
  <2>1. /\ (now + 1) \div Hours \in {now \div Hours, (now \div Hours) + 1} /\ now \div Hours \in Nat
    BY <1>3, DayMoves
  <2>2. (now + 1) \div Hours <= MaxTime \div Hours /\ MaxTime \div Hours \in Nat
    BY <1>2, <1>3, DayMoves
  <2> QED  BY <1>2, <2>1, <2>2 DEF Treasury!Today, Days, Treasury!Days
<1>6. DropFits'
  BY <1>1, <1>2 DEF DropFits
<1>7. MoneyKept'
  <2>1. Treasury!Worths' = Treasury!Worths
    BY <1>2, WorthsStay
  <2> QED  BY <1>1, <1>2, <1>4, <2>1, MoneyStays
<1>8. Covered'
  <2>1. \A h \in Groups : group[h].staked \in Int
    BY <1>1, GroupFields
  <2> QED  BY <1>1, <1>2, <2>1, CoveredStays
<1> HIDE DEF today
<1>9. WelfareDated'
  <2>1. ASSUME NEW h \in Groups, group'[h].date # today'
        PROVE  welfare'[h][today'] <= faults'
    <3>1. CASE today' = today
      <4>1. group[h].date # today => welfare[h][today] <= faults
        BY <1>1 DEF WelfareDated, today
      <4> QED  BY <1>2, <2>1, <3>1, <4>1
    <3>2. CASE today' = today + 1
      <4>1. welfare[h][today'] = 0
        <5>1. today' > today
          BY <1>5, <3>2
        <5> QED  BY <1>1, <1>5, <5>1 DEF WelfareDated, today
      <4>2. faults \in Nat
        BY <1>1 DEF TreasuryType
      <4> QED  BY <1>2, <4>1, <4>2
    <3> QED  BY <1>5, <3>1, <3>2
  <2>2. ASSUME NEW h \in Groups, NEW d \in Days, d > today'
        PROVE  welfare'[h][d] = 0
    <3>1. d > today
      BY <1>5, <2>2, DaysFinite
    <3> QED  BY <1>1, <1>2, <3>1 DEF WelfareDated, today
  <2> QED  BY <2>1, <2>2 DEF WelfareDated, today
<1>10. Treasury!WelfareOnceADay'
  BY <1>1, <1>2 DEF Treasury!WelfareOnceADay
<1> QED  BY <1>4, <1>6, <1>7, <1>8, <1>9, <1>10 DEF TreasuryInv

-----------------------------------------------------------------------------
(* The invariant of the treasury *)

LEMMA TreasuryOpens ==
  ASSUME TreasuryConstants, Treasury!Init
  PROVE  TreasuryInv
<1>1. /\ credits = [u \in Members |-> InitCredits]
      /\ group = [g \in Groups |-> [live |-> TRUE, pool |-> InitPool, staked |-> 0, hour |-> Hours - 1, date |-> -1]]
      /\ stake = << >> /\ drop = << >> /\ now = 0 /\ faults = 0
      /\ spent = [packets |-> 0, lost |-> 0, drops |-> [d \in Days |-> -1]]
      /\ welfare = [g \in Groups |-> [d \in Days |-> 0]]
  BY DEF Treasury!Init, Days
<1>2. /\ IsFiniteSet(Groups) /\ IsFiniteSet(Members) /\ InitCredits \in Int /\ InitPool \in Int
      /\ Hours \in Nat \ {0} /\ MaxTime \in Nat /\ DailyPool \in Nat
      /\ Cardinality(Groups) \in Nat /\ Cardinality(Members) \in Nat
  BY MembersAssumption, FS_CardinalityType DEF TreasuryConstants
<1>3. DOMAIN drop = {} /\ DOMAIN stake = {}
  BY <1>1
<1>4. TreasuryType
  <2>1. group \in [Groups -> GroupRow]
    BY <1>1, <1>2 DEF GroupRow
  <2>2. spent \in [packets: Int, lost: Int, drops: [Days -> Int]] /\ welfare \in [Groups -> [Days -> Nat]]
    BY <1>1
  <2>3. stake \in Seq(StakeRow) /\ now \in 0 .. MaxTime /\ faults \in Nat /\ credits \in [Members -> Int]
    BY <1>1, <1>2
  <2> QED  BY <1>3, <2>1, <2>2, <2>3 DEF TreasuryType
<1>5. DropFits
  <2>1. SumFunctionOnSet(drop, DOMAIN drop) = 0
    BY <1>3, SumOfNone
  <2> QED  BY <1>1, <1>2, <2>1 DEF DropFits
<1>6. MoneyKept
  <2>1. SumFunctionOnSet(credits, Members) = Cardinality(Members) * InitCredits
    <3>1. \A u \in Members : credits[u] = InitCredits
      BY <1>1
    <3> QED  BY <1>2, <3>1, SumOfConstant
  <2>2. SumFunctionOnSet(Treasury!Worths, Groups) = Cardinality(Groups) * InitPool
    <3>1. \A g \in Groups : Treasury!Worths[g] = InitPool
      BY <1>1, <1>2 DEF Treasury!Worths, Treasury!Worth
    <3> QED  BY <1>2, <3>1, SumOfConstant
  <2>3. SumFunctionOnSet(Treasury!Airdrops, Days) = 0
    <3>1. \A d \in Days : Treasury!Airdrops[d] = 0
      <4>1. \A d \in Days : spent.drops[d] = -1
        BY <1>1
      <4> QED  BY <1>4, <4>1, BooksAreInt
    <3>2. 0 \in Int
      OBVIOUS
    <3>3. SumFunctionOnSet(Treasury!Airdrops, Days) = Cardinality(Days) * 0
      BY <3>1, <3>2, DaysFinite, SumOfConstant
    <3> QED  BY <3>3, DaysFinite, FS_CardinalityType
  <2>4. spent.packets = 0 /\ spent.lost = 0
    BY <1>1
  <2>5. /\ Cardinality(Members) * InitCredits = InitCredits * Cardinality(Members)
        /\ Cardinality(Groups) * InitPool = InitPool * Cardinality(Groups)
        /\ InitCredits * Cardinality(Members) \in Int /\ InitPool * Cardinality(Groups) \in Int
    BY <1>2
  <2> QED  BY <2>1, <2>2, <2>3, <2>4, <2>5 DEF MoneyKept
<1>7. Covered
  <2>1. \A g \in Groups : Treasury!ActiveIn(g) = {} /\ group[g].staked = 0
    BY <1>1 DEF Treasury!ActiveIn
  <2>2. ASSUME NEW g \in Groups
        PROVE  SumFunctionOnSet(Treasury!Staked, Treasury!ActiveIn(g)) = 0
    BY <2>1, SumOfNone
  <2> QED  BY <2>1, <2>2 DEF Covered
<1>8. WelfareDated /\ Treasury!WelfareOnceADay
  <2>1. \A g \in Groups, d \in Days : welfare[g][d] = 0
    BY <1>1
  <2>2. Treasury!Today \in Days
    BY <1>4, TodayIsDay
  <2> QED  BY <1>1, <2>1, <2>2 DEF WelfareDated, Treasury!WelfareOnceADay, Days
<1> QED  BY <1>4, <1>5, <1>6, <1>7, <1>8 DEF TreasuryInv

LEMMA TreasuryStep ==
  ASSUME TreasuryConstants, TreasuryInv, [Treasury!Next]_(Treasury!tvars)
  PROVE  TreasuryInv'
<1>1. ASSUME NEW g \in Groups, NEW u \in Members, Treasury!StakeRequest(g, u)
      PROVE  TreasuryInv'
  BY <1>1, StakeKeeps, WithdrawKeeps DEF Treasury!StakeRequest
<1>2. ASSUME NEW g \in Groups, Treasury!WelfareRequest(g)
      PROVE  TreasuryInv'
  <2>1. \A h \in 0 .. Hours - 1 : h \in Int
    OBVIOUS
  <2> QED  BY <1>2, <2>1, DistributeKeeps, ConfigureKeeps DEF Treasury!WelfareRequest
<1>3. ASSUME NEW g \in Groups, Treasury!DailyWelfare(g)
      PROVE  TreasuryInv'
  BY <1>3, DailyWelfareKeeps
<1>4. ASSUME NEW g \in Groups, Treasury!Dismiss(g)
      PROVE  TreasuryInv'
  BY <1>4, DismissalKeeps
<1>5. CASE Treasury!AirdropRead
  BY <1>5, AirdropReadKeeps
<1>6. CASE Treasury!AirdropWrite
  BY <1>6, AirdropWriteKeeps
<1>7. CASE Treasury!Tick
  BY <1>7, TickKeeps
<1>8. ASSUME NEW s \in DOMAIN stake, Treasury!Mature(s)
      PROVE  TreasuryInv'
  BY <1>8, MatureKeeps
<1>9. CASE UNCHANGED Treasury!tvars
  <2>1. UNCHANGED << credits, group, stake, drop, now, spent, welfare, faults >>
    BY <1>9 DEF Treasury!tvars
  <2>2. /\ Treasury!Today' = Treasury!Today /\ Treasury!Worths' = Treasury!Worths
        /\ Treasury!Airdrops' = Treasury!Airdrops /\ Treasury!Staked' = Treasury!Staked
        /\ \A g \in Groups : Treasury!ActiveIn(g)' = Treasury!ActiveIn(g)
    BY <2>1 DEF Treasury!Today, Treasury!Worths, Treasury!Worth, Treasury!Airdrops, Treasury!Staked,
                Treasury!ActiveIn
  <2> QED  BY <2>1, <2>2 DEF TreasuryInv, TreasuryType, DropFits, MoneyKept, Covered, WelfareDated,
                             Treasury!WelfareOnceADay
<1> QED
  BY <1>1, <1>2, <1>3, <1>4, <1>5, <1>6, <1>7, <1>8, <1>9 DEF Treasury!Next

\* However stakes, withdrawals, packets, airdrops, dismissals and failing writes
\* interleave: no credit of a group appears or vanishes and an airdrop keeps to the pool
\* of the day (airdrop_service.py); the active stakes of a group are covered
\* (withdraw_stake); and the daily job sends a group a second packet only after a failed
\* write (periodic_group_red_packet).
THEOREM GroupBooksBalance ==
  TreasuryConstants =>
    (Treasury!Spec => []GroupBooks)
<1> SUFFICES ASSUME TreasuryConstants
             PROVE  Treasury!Spec => []GroupBooks
  OBVIOUS
<1>1. Treasury!Init => TreasuryInv
  BY TreasuryOpens
<1>2. TreasuryInv /\ [Treasury!Next]_(Treasury!tvars) => TreasuryInv'
  BY TreasuryStep
<1>3. TreasuryInv => GroupBooks
  <2> SUFFICES ASSUME TreasuryInv
               PROVE  GroupBooks
    OBVIOUS
  <2>1. Treasury!NoCreditAppears
    <3>1. /\ Treasury!SumFunctionOnSet(credits, Members) = SumFunctionOnSet(credits, Members)
          /\ Treasury!SumFunctionOnSet(Treasury!Worths, Groups) = SumFunctionOnSet(Treasury!Worths, Groups)
          /\ Treasury!SumFunctionOnSet(Treasury!Airdrops, Days) = SumFunctionOnSet(Treasury!Airdrops, Days)
          /\ Treasury!Cardinality(Members) = Cardinality(Members)
          /\ Treasury!Cardinality(Groups) = Cardinality(Groups)
      BY SumOfTreasury, CardinalityOfTreasury
    <3> QED  BY <3>1 DEF TreasuryInv, MoneyKept, DropFits, Days, Treasury!NoCreditAppears
  <2>2. Treasury!StakesCovered
    BY SumOfTreasury DEF TreasuryInv, Covered, Treasury!StakesCovered, Treasury!SumOf
  <2> QED  BY <2>1, <2>2 DEF TreasuryInv, GroupBooks
<1> QED  BY <1>1, <1>2, <1>3, PTL DEF Treasury!Spec


-----------------------------------------------------------------------------
(* What is said and asked in a group *)

\* Calls are finitely many; a limit asked for is a number, 0 standing for the default.
ChatConstants == IsFiniteSet(Calls) /\ Limits \subseteq Nat /\ DefaultLimit \in Nat

Limit(a) == IF pool[a] = 0 THEN DefaultLimit ELSE pool[a]
CallRow == [at: {"mention", "model"}, user: Members, agent: Agents, re: Nat]

ChatType ==
  /\ pool \in [Agents -> Int] /\ most \in [Agents -> Nat]
  /\ uses \in [Members -> [Agents -> Nat]]
  /\ call \in [Calls -> {Chat!Idle} \cup CallRow]
  /\ msgs \in Seq([user: Members, agent: Agents \cup {NoUser}, re: Nat])

\* The limit of the moment is no higher than the highest.
MostIsMost == \A a \in Agents : pool[a] # -1 => Limit(a) <= most[a]

QuotaInv == ChatType /\ MostIsMost /\ Chat!QuotaByDay

LEMMA CardinalityOfChat ==
  ASSUME NEW S
  PROVE  Chat!Cardinality(S) = Cardinality(S)
  BY DEF Chat!Cardinality, Cardinality

\* The calls of a user at an agent's model
LEMMA AtModelType ==
  ASSUME ChatConstants, NEW u, NEW a
  PROVE  /\ Chat!AtModel(u, a) \subseteq Calls /\ IsFiniteSet(Chat!AtModel(u, a))
         /\ Cardinality(Chat!AtModel(u, a)) \in Nat /\ Cardinality(Calls) \in Nat
         /\ Cardinality(Chat!AtModel(u, a)) <= Cardinality(Calls)
<1>1. Chat!AtModel(u, a) \subseteq Calls /\ IsFiniteSet(Calls)
  BY DEF Chat!AtModel, ChatConstants
<1> QED  BY <1>1, FS_Subset, FS_CardinalityType

\* What QuotaByDay says of a user and an agent
Within(u, a) ==
  \/ uses[u][a] + Cardinality(Chat!AtModel(u, a)) <= most[a] - 1 + Cardinality(Calls)
  \/ uses[u][a] = 0 /\ Chat!AtModel(u, a) = {}

LEMMA QuotaIsWithin == Chat!QuotaByDay <=> \A u \in Members, a \in Agents : Within(u, a)
BY CardinalityOfChat DEF Chat!QuotaByDay, Within

\* Uses and calls are no more than before, and the highest limit no lower.
LEMMA WithinStays ==
  ASSUME ChatConstants, ChatType, ChatType', NEW u \in Members, NEW a \in Agents, Within(u, a),
         uses'[u][a] <= uses[u][a], most'[a] >= most[a],
         Chat!AtModel(u, a)' = Chat!AtModel(u, a)
  PROVE  Within(u, a)'
<1>1. /\ uses[u][a] \in Nat /\ uses'[u][a] \in Nat /\ most[a] \in Nat /\ most'[a] \in Nat
  BY DEF ChatType
<1>2. Cardinality(Chat!AtModel(u, a)) \in Nat /\ Cardinality(Calls) \in Nat
  BY AtModelType
<1>3. Cardinality(Chat!AtModel(u, a)') = Cardinality(Chat!AtModel(u, a))
  OBVIOUS
<1>4. CASE uses[u][a] + Cardinality(Chat!AtModel(u, a)) <= most[a] - 1 + Cardinality(Calls)
  BY <1>1, <1>2, <1>3, <1>4 DEF Within
<1>5. CASE uses[u][a] = 0 /\ Chat!AtModel(u, a) = {}
  BY <1>1, <1>5 DEF Within
<1> QED  BY <1>4, <1>5 DEF Within

\* A call that passed the quota goes to the model: with it all calls are at most those
\* that can be at work at once.
LEMMA EntersModel ==
  ASSUME ChatConstants, QuotaInv, ChatType', NEW u \in Members, NEW a \in Agents, NEW c \in Calls,
         pool[a] # -1, uses[u][a] < Limit(a), UNCHANGED << pool, uses, most >>,
         c \notin Chat!AtModel(u, a), call[c].at # "model" \/ call[c] = Chat!Idle,
         call'[c] \in CallRow, call'[c].at = "model", call'[c].user = u, call'[c].agent = a,
         \A b \in Calls : b # c => call'[b] = call[b]
  PROVE  QuotaInv'
<1>1. ChatType /\ MostIsMost /\ \A v \in Members, b \in Agents : Within(v, b)
  BY QuotaIsWithin DEF QuotaInv
<1>2. MostIsMost'
  BY <1>1 DEF MostIsMost, Limit
<1>3. /\ uses[u][a] \in Nat /\ most[a] \in Nat /\ Limit(a) \in Int
  BY <1>1 DEF ChatType, Limit, ChatConstants
<1>4. Within(u, a)'
  <2>1. Chat!AtModel(u, a)' \subseteq Calls /\ IsFiniteSet(Calls)
    BY DEF Chat!AtModel, ChatConstants
  <2>2. /\ Cardinality(Chat!AtModel(u, a)') \in Nat /\ Cardinality(Calls) \in Nat
        /\ Cardinality(Chat!AtModel(u, a)') <= Cardinality(Calls)
    BY <2>1, FS_Subset, FS_CardinalityType
  <2>3. Limit(a) <= most[a]
    BY <1>1 DEF MostIsMost
  <2> QED  BY <1>3, <2>2, <2>3 DEF Within
<1>5. ASSUME NEW v \in Members, NEW b \in Agents, ~(v = u /\ b = a)
      PROVE  Within(v, b)'
  <2>1. call[c].at # "model"
    BY DEF Chat!Idle
  <2>2. Chat!AtModel(v, b)' = Chat!AtModel(v, b)
    BY <1>5, <2>1 DEF Chat!AtModel
  <2>3. uses'[v][b] <= uses[v][b] /\ most'[b] >= most[b]
    BY <1>1 DEF ChatType
  <2> QED  BY <1>1, <2>2, <2>3, WithinStays
<1>6. Chat!QuotaByDay'
  <2>1. \A v \in Members, b \in Agents : Within(v, b)'
    BY <1>4, <1>5
  <2> QED  BY <2>1, CardinalityOfChat DEF Chat!QuotaByDay, Within
<1> QED  BY <1>2, <1>6 DEF QuotaInv

\* No call enters the model or leaves it.
LEMMA QuotaStays ==
  ASSUME ChatConstants, QuotaInv, ChatType', MostIsMost',
         \A a \in Agents : most'[a] >= most[a],
         \A u \in Members, a \in Agents : /\ uses'[u][a] <= uses[u][a]
                                        /\ Chat!AtModel(u, a)' = Chat!AtModel(u, a)
  PROVE  QuotaInv'
<1>1. ChatType /\ \A u \in Members, a \in Agents : Within(u, a)
  BY QuotaIsWithin DEF QuotaInv
<1>2. \A u \in Members, a \in Agents : Within(u, a)'
  BY <1>1, WithinStays
<1> QED  BY <1>2, CardinalityOfChat DEF QuotaInv, Chat!QuotaByDay, Within

\* The quota when nothing of it changes
LEMMA QuotaUntouched ==
  ASSUME ChatConstants, QuotaInv, UNCHANGED << pool, call, uses, most >>,
         msgs' \in Seq([user: Members, agent: Agents \cup {NoUser}, re: Nat])
  PROVE  QuotaInv'
<1>1. ChatType'
  BY DEF QuotaInv, ChatType
<1>2. MostIsMost'
  BY DEF QuotaInv, MostIsMost, Limit
<1>3. /\ \A a \in Agents : most'[a] >= most[a]
      /\ \A u \in Members, a \in Agents : uses'[u][a] <= uses[u][a]
  BY DEF QuotaInv, ChatType
<1>4. \A u \in Members, a \in Agents : Chat!AtModel(u, a)' = Chat!AtModel(u, a)
  BY DEF Chat!AtModel
<1> QED  BY <1>1, <1>2, <1>3, <1>4, QuotaStays

\* A message more
LEMMA SayType ==
  ASSUME ChatType, NEW u \in Members, NEW a \in Agents \cup {NoUser}, NEW re \in Nat, Chat!Say(u, a, re)
  PROVE  msgs' \in Seq([user: Members, agent: Agents \cup {NoUser}, re: Nat])
<1> DEFINE M == [user: Members, agent: Agents \cup {NoUser}, re: Nat]
           m == [user |-> u, agent |-> a, re |-> re]
<1>1. m \in M /\ msgs \in Seq(M) /\ msgs' = Append(msgs, m)
  BY DEF ChatType, Chat!Say
<1> HIDE DEF M, m
<1>2. Append(msgs, m) \in Seq(M)
  BY <1>1, AppendProperties
<1>3. msgs' \in Seq(M)
  BY <1>1, <1>2
<1> QED  BY <1>3 DEF M

\* A call at work is that of a user and an agent.
LEMMA CallAtWork ==
  ASSUME ChatType, NEW c \in Calls, call[c].at \in {"mention", "model"}
  PROVE  call[c] \in CallRow /\ call[c].user \in Members /\ call[c].agent \in Agents /\ call[c].re \in Nat
<1>1. call[c] # Chat!Idle
  BY DEF Chat!Idle
<1> QED  BY <1>1 DEF ChatType, CallRow

\* A call begins or ends before it came to the model.
LEMMA OutsideModel ==
  ASSUME ChatConstants, QuotaInv, UNCHANGED << pool, uses, most >>,
         msgs' \in Seq([user: Members, agent: Agents \cup {NoUser}, re: Nat]),
         NEW c \in Calls, NEW r \in {Chat!Idle} \cup CallRow,
         r.at # "model", call[c].at # "model", call' = [call EXCEPT ![c] = r]
  PROVE  QuotaInv'
<1>1. ChatType'
  BY DEF QuotaInv, ChatType
<1>2. MostIsMost'
  BY DEF QuotaInv, MostIsMost, Limit
<1>3. /\ \A a \in Agents : most'[a] >= most[a]
      /\ \A u \in Members, a \in Agents : uses'[u][a] <= uses[u][a]
  BY DEF QuotaInv, ChatType
<1>4. call'[c] = r /\ \A b \in Calls : b # c => call'[b] = call[b]
  BY DEF QuotaInv, ChatType
<1>5. \A u \in Members, a \in Agents : Chat!AtModel(u, a)' = Chat!AtModel(u, a)
  BY <1>4 DEF Chat!AtModel
<1> QED  BY <1>1, <1>2, <1>3, <1>5, QuotaStays

LEMMA QuotaOpens ==
  ASSUME ChatConstants, Chat!Init
  PROVE  QuotaInv
<1> USE DEF Chat!Init
<1>1. ChatType
  BY DEF ChatType
<1>2. MostIsMost
  BY DEF MostIsMost
<1>3. \A u \in Members, a \in Agents : Within(u, a)
  BY DEF Within, Chat!AtModel, Chat!Idle
<1> QED  BY <1>1, <1>2, <1>3, QuotaIsWithin DEF QuotaInv

LEMMA QuotaBind ==
  ASSUME ChatConstants, QuotaInv, NEW u \in Members, NEW a \in Agents, NEW l \in Limits,
         Chat!BindAgentModel(u, a, l)
  PROVE  QuotaInv'
<1> DEFINE n == IF l = 0 THEN DefaultLimit ELSE l
<1>1. n \in Nat /\ l \in Nat /\ ChatType /\ MostIsMost
  BY DEF ChatConstants, QuotaInv
<1>2. /\ pool' = [pool EXCEPT ![a] = l] /\ UNCHANGED << call, uses, msgs >>
      /\ most' = [most EXCEPT ![a] = IF n > most[a] THEN n ELSE most[a]]
  BY DEF Chat!BindAgentModel
<1>3. /\ pool'[a] = l /\ most'[a] = (IF n > most[a] THEN n ELSE most[a])
      /\ \A b \in Agents : b # a => pool'[b] = pool[b] /\ most'[b] = most[b]
  BY <1>1, <1>2 DEF ChatType
<1>4. \A b \in Agents : most[b] \in Nat
  BY <1>1 DEF ChatType
<1>5. Limit(a)' = n /\ \A b \in Agents : b # a => Limit(b)' = Limit(b)
  BY <1>3 DEF Limit
<1> HIDE DEF n
<1>6. ChatType'
  BY <1>1, <1>2 DEF ChatType
<1>7. most'[a] >= most[a] /\ most'[a] >= n
  BY <1>1, <1>3, <1>4
<1>8. \A b \in Agents : most'[b] >= most[b]
  BY <1>3, <1>4, <1>7
<1>9. MostIsMost'
  <2> SUFFICES ASSUME NEW b \in Agents, pool'[b] # -1
               PROVE  Limit(b)' <= most'[b]
    BY DEF MostIsMost
  <2>1. CASE b = a
    BY <1>1, <1>5, <1>7, <1>6, <2>1 DEF ChatType
  <2>2. CASE b # a
    BY <1>1, <1>3, <1>5, <2>2 DEF MostIsMost
  <2> QED  BY <2>1, <2>2
<1>10. \A v \in Members, b \in Agents : uses'[v][b] <= uses[v][b]
  BY <1>1, <1>2 DEF ChatType
<1>11. \A v \in Members, b \in Agents : Chat!AtModel(v, b)' = Chat!AtModel(v, b)
  BY <1>2 DEF Chat!AtModel
<1> QED  BY <1>6, <1>8, <1>9, <1>10, <1>11, QuotaStays

LEMMA QuotaUnbind ==
  ASSUME ChatConstants, QuotaInv, NEW u \in Members, NEW a \in Agents, Chat!UnbindAgent(u, a)
  PROVE  QuotaInv'
<1>1. pool' = [pool EXCEPT ![a] = -1] /\ UNCHANGED << call, uses, msgs, most >>
  BY DEF Chat!UnbindAgent
<1>2. ChatType'
  BY <1>1 DEF QuotaInv, ChatType
<1>3. pool'[a] = -1 /\ \A b \in Agents : b # a => pool'[b] = pool[b]
  BY <1>1 DEF QuotaInv, ChatType
<1>4. MostIsMost'
  BY <1>1, <1>3 DEF QuotaInv, MostIsMost, Limit
<1>5. /\ \A b \in Agents : most'[b] >= most[b]
      /\ \A v \in Members, b \in Agents : uses'[v][b] <= uses[v][b]
  BY <1>1 DEF QuotaInv, ChatType
<1>6. \A v \in Members, b \in Agents : Chat!AtModel(v, b)' = Chat!AtModel(v, b)
  BY <1>1 DEF Chat!AtModel
<1> QED  BY <1>2, <1>4, <1>5, <1>6, QuotaStays

LEMMA QuotaNewDay ==
  ASSUME ChatConstants, QuotaInv, Chat!NewDay
  PROVE  QuotaInv'
<1>1. /\ uses' = [u \in Members |-> [a \in Agents |-> 0]]
      /\ UNCHANGED << pool, call, msgs, most >>
  BY DEF Chat!NewDay
<1>2. ChatType'
  BY <1>1 DEF QuotaInv, ChatType
<1>3. MostIsMost'
  BY <1>1 DEF QuotaInv, MostIsMost, Limit
<1>4. /\ \A b \in Agents : most'[b] >= most[b]
      /\ \A v \in Members, b \in Agents : uses'[v][b] <= uses[v][b]
  BY <1>1 DEF QuotaInv, ChatType
<1>5. \A v \in Members, b \in Agents : Chat!AtModel(v, b)' = Chat!AtModel(v, b)
  BY <1>1 DEF Chat!AtModel
<1> QED  BY <1>2, <1>3, <1>4, <1>5, QuotaStays

LEMMA QuotaSend ==
  ASSUME ChatConstants, QuotaInv, NEW u \in Members, Chat!SendGroupMessage(u)
  PROVE  QuotaInv'
<1> DEFINE M == [user: Members, agent: Agents \cup {NoUser}, re: Nat]
<1>1. ChatType /\ UNCHANGED << pool, uses, most >>
  BY DEF QuotaInv, Chat!SendGroupMessage
<1>2. Len(msgs) + 1 \in Nat
  BY <1>1 DEF ChatType
<1>3. msgs' \in Seq(M)
  BY <1>1, SayType DEF Chat!SendGroupMessage
<1>4. CASE UNCHANGED call
  BY <1>1, <1>3, <1>4, QuotaUntouched
<1>5. CASE \E c \in Calls, a \in Agents :
             /\ call[c] = Chat!Idle
             /\ call' = [call EXCEPT ![c] = [at |-> "mention", user |-> u, agent |-> a, re |-> Len(msgs) + 1]]
  <2>1. PICK c \in Calls, a \in Agents :
             /\ call[c] = Chat!Idle
             /\ call' = [call EXCEPT ![c] = [at |-> "mention", user |-> u, agent |-> a, re |-> Len(msgs) + 1]]
    BY <1>5
  <2> DEFINE r == [at |-> "mention", user |-> u, agent |-> a, re |-> Len(msgs) + 1]
  <2>2. r \in CallRow /\ r.at # "model" /\ call[c].at # "model"
    BY <1>2, <2>1 DEF CallRow, Chat!Idle
  <2>3. call' = [call EXCEPT ![c] = r]
    BY <2>1
  <2> HIDE DEF r
  <2> QED  BY <1>1, <1>3, <2>2, <2>3, OutsideModel
<1> QED  BY <1>4, <1>5 DEF Chat!SendGroupMessage

LEMMA QuotaMentioned ==
  ASSUME ChatConstants, QuotaInv, NEW c \in Calls, Chat!Mentioned(c)
  PROVE  QuotaInv'
<1> DEFINE M == [user: Members, agent: Agents \cup {NoUser}, re: Nat]
           u == call[c].user
           a == call[c].agent
<1>1. ChatType /\ UNCHANGED << pool, uses, most >> /\ call[c].at = "mention"
  BY DEF QuotaInv, Chat!Mentioned
<1>2. call[c] \in CallRow /\ u \in Members /\ a \in Agents /\ call[c].re \in Nat
  BY <1>1, CallAtWork
<1>3. msgs' \in Seq(M)
  BY <1>1, <1>2, SayType DEF Chat!Mentioned, ChatType
<1>4. CASE call' = [call EXCEPT ![c] = Chat!Idle]
  <2>1. Chat!Idle.at # "model"
    BY DEF Chat!Idle
  <2> QED  BY <1>1, <1>3, <1>4, <2>1, OutsideModel
<1>5. CASE /\ Chat!Shared(a) /\ Chat!WithinQuota(u, a)
           /\ call' = [call EXCEPT ![c].at = "model"]
  <2>1. pool[a] # -1 /\ uses[u][a] < Limit(a)
    BY <1>5 DEF Chat!Shared, Chat!WithinQuota, Limit
  <2>2. /\ call'[c] = [call[c] EXCEPT !.at = "model"]
        /\ \A b \in Calls : b # c => call'[b] = call[b]
    BY <1>1, <1>5 DEF ChatType
  <2>3. /\ call'[c] \in CallRow /\ call'[c].at = "model"
        /\ call'[c].user = u /\ call'[c].agent = a
    BY <1>2, <2>2 DEF CallRow
  <2>4. ChatType'
    <3>1. call' \in [Calls -> {Chat!Idle} \cup CallRow]
      <4>1. call' = [b \in Calls |-> call'[b]]
        BY <1>1, <1>5 DEF ChatType
      <4>2. \A b \in Calls : call'[b] \in {Chat!Idle} \cup CallRow
        BY <1>1, <2>2, <2>3 DEF ChatType
      <4> QED  BY <4>1, <4>2
    <3> QED  BY <1>1, <1>3, <3>1 DEF ChatType, Chat!Idle, CallRow
  <2>5. c \notin Chat!AtModel(u, a) /\ call[c].at # "model"
    BY <1>1 DEF Chat!AtModel
  <2> HIDE DEF u, a
  <2> QED  BY <1>1, <1>2, <2>1, <2>2, <2>3, <2>4, <2>5, EntersModel
<1> QED  BY <1>4, <1>5 DEF Chat!Mentioned

LEMMA QuotaSuggest ==
  ASSUME ChatConstants, QuotaInv, NEW u \in Members, NEW a \in Agents, NEW c \in Calls,
         Chat!AiSuggest(u, a, c)
  PROVE  QuotaInv'
<1> DEFINE r == [at |-> "model", user |-> u, agent |-> a, re |-> 0]
<1>1. /\ ChatType /\ UNCHANGED << pool, uses, most, msgs >>
      /\ call[c] = Chat!Idle /\ call' = [call EXCEPT ![c] = r]
  BY DEF QuotaInv, Chat!AiSuggest
<1>2. pool[a] # -1 /\ uses[u][a] < Limit(a)
  BY DEF Chat!AiSuggest, Chat!Shared, Chat!WithinQuota, Limit
<1>3. r \in CallRow /\ r.at = "model" /\ r.user = u /\ r.agent = a
  BY DEF CallRow
<1> HIDE DEF r
<1>4. call'[c] = r /\ \A b \in Calls : b # c => call'[b] = call[b]
  BY <1>1 DEF ChatType
<1>5. ChatType'
  BY <1>1, <1>3 DEF ChatType
<1>6. c \notin Chat!AtModel(u, a)
  BY <1>1 DEF Chat!AtModel, Chat!Idle
<1> QED  BY <1>1, <1>2, <1>3, <1>4, <1>5, <1>6, EntersModel

\* A call leaves the model: what it may use up makes room for it.
LEMMA QuotaAnswered ==
  ASSUME ChatConstants, QuotaInv, NEW c \in Calls, Chat!Answered(c)
  PROVE  QuotaInv'
<1> DEFINE M == [user: Members, agent: Agents \cup {NoUser}, re: Nat]
<1>0. PICK u \in Members, a \in Agents : u = call[c].user /\ a = call[c].agent
  BY CallAtWork DEF QuotaInv, Chat!Answered
<1>1. /\ ChatType /\ MostIsMost /\ UNCHANGED << pool, most >> /\ call[c].at = "model"
      /\ call' = [call EXCEPT ![c] = Chat!Idle]
      /\ uses' = [uses EXCEPT ![u][a] = @ + 1] \/ uses' = uses
  BY <1>0 DEF QuotaInv, Chat!Answered, Chat!RecordUsage
<1>2. u \in Members /\ a \in Agents /\ call[c].re \in Nat
  BY <1>1, CallAtWork
<1>3. msgs' \in Seq(M)
  BY <1>0, <1>1, <1>2, SayType DEF Chat!Answered, ChatType
<1>4. /\ uses' \in [Members -> [Agents -> Nat]]
      /\ uses'[u][a] \in {uses[u][a], uses[u][a] + 1}
      /\ \A v \in Members, b \in Agents : ~(v = u /\ b = a) => uses'[v][b] = uses[v][b]
  <2> DEFINE row == [uses[u] EXCEPT ![a] = @ + 1]
  <2>1. uses \in [Members -> [Agents -> Nat]] /\ uses[u] \in [Agents -> Nat] /\ uses[u][a] \in Nat
    BY <1>1, <1>2 DEF ChatType
  <2>2. row \in [Agents -> Nat] /\ row[a] = uses[u][a] + 1 /\ \A b \in Agents : b # a => row[b] = uses[u][b]
    BY <1>2, <2>1
  <2>3. CASE uses' = [uses EXCEPT ![u] = row]
    <3> HIDE DEF row
    <3> QED  BY <1>2, <2>1, <2>2, <2>3
  <2>4. CASE uses' = uses
    BY <2>1, <2>4
  <2> QED  BY <1>1, <2>3, <2>4
<1>5. call'[c] = Chat!Idle /\ \A b \in Calls : b # c => call'[b] = call[b]
  BY <1>1 DEF ChatType
<1>6. ChatType'
  BY <1>1, <1>3, <1>4 DEF ChatType
<1>7. MostIsMost'
  BY <1>1 DEF MostIsMost, Limit
<1>8. \A v \in Members, b \in Agents : Within(v, b)
  BY QuotaIsWithin DEF QuotaInv
<1>9. Within(u, a)'
  <2> DEFINE A == Chat!AtModel(u, a)
             B == {d \in Calls : call'[d].at = "model" /\ call'[d].user = u /\ call'[d].agent = a}
  <2>1. c \in A /\ IsFiniteSet(A) /\ Cardinality(A) \in Nat /\ Cardinality(Calls) \in Nat
    <3>1. c \in A
      BY <1>0, <1>1 DEF Chat!AtModel
    <3> QED  BY <3>1, AtModelType
  <2>2. B = A \ {c}
    BY <1>5 DEF Chat!AtModel, Chat!Idle
  <2>3. Cardinality(A \ {c}) = Cardinality(A) - 1
    BY <2>1, FS_RemoveElement
  <2>4. Cardinality(B) = Cardinality(A) - 1
    BY <2>2, <2>3
  <2>5. uses[u][a] + Cardinality(A) <= most[a] - 1 + Cardinality(Calls)
    BY <1>2, <1>8, <2>1 DEF Within
  <2>6. uses[u][a] \in Nat /\ most[a] \in Nat /\ most'[a] = most[a]
    BY <1>1, <1>2 DEF ChatType
  <2>7. uses'[u][a] + Cardinality(B) <= most'[a] - 1 + Cardinality(Calls)
    BY ONLY <1>4, <2>1, <2>4, <2>5, <2>6
  <2>8. B = Chat!AtModel(u, a)'
    BY DEF Chat!AtModel
  <2> HIDE DEF B
  <2>9. Cardinality(B) = Cardinality(Chat!AtModel(u, a)')
    BY <2>8
  <2>10. uses'[u][a] + Cardinality(Chat!AtModel(u, a)') <= most'[a] - 1 + Cardinality(Calls)
    BY <2>7, <2>9
  <2> QED  BY <2>10 DEF Within
<1>10. ASSUME NEW v \in Members, NEW b \in Agents, ~(v = u /\ b = a)
       PROVE  Within(v, b)'
  <2>1. call'[c].at # "model" /\ ~(call[c].user = v /\ call[c].agent = b)
    BY <1>0, <1>5, <1>10 DEF Chat!Idle
  <2>2. Chat!AtModel(v, b)' = Chat!AtModel(v, b)
    BY <1>5, <2>1 DEF Chat!AtModel
  <2>3. uses'[v][b] <= uses[v][b] /\ most'[b] >= most[b]
    BY <1>1, <1>4, <1>10 DEF ChatType
  <2> QED  BY <1>1, <1>6, <1>8, <2>2, <2>3, WithinStays
<1>11. Chat!QuotaByDay'
  <2>1. \A v \in Members, b \in Agents : Within(v, b)'
    BY <1>9, <1>10
  <2> QED  BY <2>1, CardinalityOfChat DEF Chat!QuotaByDay, Within
<1> QED  BY <1>6, <1>7, <1>11 DEF QuotaInv

LEMMA QuotaStep ==
  ASSUME ChatConstants, QuotaInv, [Chat!Next]_(Chat!cvars)
  PROVE  QuotaInv'
<1>1. ChatType
  BY DEF QuotaInv
<1>2. ASSUME NEW u \in Members, Chat!RoleChanges(u) \/ Chat!KnowledgeRequest(u)
      PROVE  QuotaInv'
  <2>1. UNCHANGED << pool, call, uses, most, msgs >>
    BY <1>2 DEF Chat!RoleChanges, Chat!KnowledgeRequest, Chat!PostKnowledge, Chat!AddToReportQueue,
                Chat!DeleteDoc, Chat!ResolveReport, Chat!IgnoreReport
  <2> QED  BY <1>1, <2>1, QuotaUntouched DEF ChatType
<1>3. ASSUME NEW u \in Members, NEW a \in Agents, Chat!PoolRequest(u, a)
      PROVE  QuotaInv'
  BY <1>3, QuotaBind, QuotaUnbind DEF Chat!PoolRequest
<1>4. CASE Chat!NewDay
  BY <1>4, QuotaNewDay
<1>5. CASE UNCHANGED Chat!cvars
  <2>1. UNCHANGED << pool, call, uses, most, msgs >>
    BY <1>5 DEF Chat!cvars
  <2> QED  BY <1>1, <2>1, QuotaUntouched DEF ChatType
<1>6. CASE Chat!KnowledgeNext
  BY <1>2, <1>6 DEF Chat!KnowledgeNext
<1>7. CASE Chat!TalkNext
  BY <1>2, <1>3, <1>4, <1>7, QuotaSend, QuotaMentioned, QuotaSuggest, QuotaAnswered DEF Chat!TalkNext
<1> QED  BY <1>5, <1>6, <1>7 DEF Chat!Next

\* However checks before a model, records after it, new days, and agents shared anew
\* interleave (group_resource_service.py, check_quota and record_usage): a user exceeds
\* the highest limit by less than the number of calls that can be at work at once.
LEMMA QuotaHolds == ChatConstants => (Chat!Spec => []Chat!QuotaByDay)
<1> SUFFICES ASSUME ChatConstants
             PROVE  Chat!Spec => []Chat!QuotaByDay
  OBVIOUS
<1>1. Chat!Init => QuotaInv
  BY QuotaOpens
<1>2. QuotaInv /\ [Chat!Next]_(Chat!cvars) => QuotaInv'
  BY QuotaStep
<1>3. QuotaInv => Chat!QuotaByDay
  BY DEF QuotaInv
<1> QED  BY <1>1, <1>2, <1>3, PTL DEF Chat!Spec

-----------------------------------------------------------------------------
(* Questions and the documents that answer them *)

Question == [status: {"pending", "resolved", "ignored"}, doc: Nat]
Doc == [by: Members, about: Nat, kept: BOOLEAN]

\* A document was written for a question that was there.
AnswersInv ==
  /\ report \in Seq(Question) /\ docs \in Seq(Doc) /\ cfaults \in Nat
  /\ \A x \in DOMAIN docs : docs[x].about <= Len(report)
  /\ Chat!AnswersFitQuestions

\* What AnswersFitQuestions says of a question
Fits(r) ==
  /\ report[r].status = "resolved" => report[r].doc \in DOMAIN docs /\ docs[report[r].doc].about = r
  /\ cfaults = 0 => \A x \in DOMAIN docs : docs[x].about = r => x <= report[r].doc

LEMMA AnswersFit == Chat!AnswersFitQuestions <=> \A r \in DOMAIN report : Fits(r)
BY DEF Chat!AnswersFitQuestions, Fits

LEMMA AnswersFitNext == (\A r \in DOMAIN report' : Fits(r)') => Chat!AnswersFitQuestions'
BY DEF Chat!AnswersFitQuestions, Fits

\* Nothing is written or answered.
LEMMA AnswersUntouched ==
  ASSUME AnswersInv, UNCHANGED << report, docs, cfaults >>
  PROVE  AnswersInv'
<1>1. \A r \in DOMAIN report' : Fits(r)'
  BY AnswersFit DEF AnswersInv, Fits
<1> QED  BY <1>1, AnswersFitNext DEF AnswersInv

\* A document more
LEMMA DocWritten ==
  ASSUME AnswersInv, NEW u \in Members, NEW about \in 0 .. Len(report), Chat!CreateDoc(u, about)
  PROVE  /\ docs' \in Seq(Doc) /\ Len(docs') = Len(docs) + 1
         /\ docs'[Len(docs) + 1].about = about
         /\ \A x \in 1 .. Len(docs) : docs'[x] = docs[x]
         /\ DOMAIN docs = 1 .. Len(docs) /\ DOMAIN docs' = 1 .. Len(docs) + 1
         /\ Len(docs) \in Nat /\ Len(report) \in Nat
         /\ \A x \in DOMAIN docs' : docs'[x].about <= Len(report)
<1> DEFINE d == [by |-> u, about |-> about, kept |-> TRUE]
<1>1. docs \in Seq(Doc) /\ report \in Seq(Question) /\ docs' = Append(docs, d)
  BY DEF AnswersInv, Chat!CreateDoc
<1>2. Len(docs) \in Nat /\ Len(report) \in Nat /\ DOMAIN docs = 1 .. Len(docs)
  BY <1>1
<1>3. d \in Doc /\ d.about = about /\ about <= Len(report)
  BY <1>2 DEF Doc
<1> HIDE DEF d
<1>4. /\ docs' \in Seq(Doc) /\ Len(docs') = Len(docs) + 1 /\ docs'[Len(docs) + 1] = d
      /\ \A x \in 1 .. Len(docs) : docs'[x] = docs[x]
  BY <1>1, <1>3, AppendProperties
<1>5. DOMAIN docs' = 1 .. Len(docs) + 1
  BY <1>2, <1>4
<1>6. \A x \in 1 .. Len(docs) : docs'[x].about <= Len(report)
  BY <1>2, <1>4 DEF AnswersInv
<1> QED  BY <1>2, <1>3, <1>4, <1>5, <1>6

LEMMA AnswersPost ==
  ASSUME AnswersInv, NEW u \in Members, Chat!PostKnowledge(u)
  PROVE  AnswersInv'
<1>1. Chat!CreateDoc(u, 0) /\ UNCHANGED << report, cfaults >>
  BY DEF Chat!PostKnowledge
<1>2. 0 \in 0 .. Len(report)
  BY DEF AnswersInv
<1>3. /\ docs' \in Seq(Doc) /\ docs'[Len(docs) + 1].about = 0
      /\ \A x \in 1 .. Len(docs) : docs'[x] = docs[x]
      /\ DOMAIN docs = 1 .. Len(docs) /\ DOMAIN docs' = 1 .. Len(docs) + 1
      /\ Len(docs) \in Nat /\ \A x \in DOMAIN docs' : docs'[x].about <= Len(report)
  BY <1>1, <1>2, DocWritten
<1>4. report \in Seq(Question) /\ DOMAIN report = 1 .. Len(report) /\ Len(report) \in Nat
  BY DEF AnswersInv
<1>5. ASSUME NEW r \in DOMAIN report
      PROVE  Fits(r)'
  <2>1. Fits(r) /\ r \in Nat \ {0}
    BY <1>4, AnswersFit DEF AnswersInv
  <2> QED  BY <1>1, <1>3, <2>1 DEF Fits
<1>6. \A r \in DOMAIN report' : Fits(r)'
  BY <1>1, <1>5
<1> QED  BY <1>1, <1>3, <1>6, AnswersFitNext DEF AnswersInv

LEMMA AnswersDelete ==
  ASSUME AnswersInv, NEW u \in Members, NEW d \in DOMAIN docs, Chat!DeleteDoc(u, d)
  PROVE  AnswersInv'
<1>1. docs' = [docs EXCEPT ![d].kept = FALSE] /\ UNCHANGED << report, cfaults >>
  BY DEF Chat!DeleteDoc
<1>2. docs \in Seq(Doc) /\ docs[d] \in Doc
  BY DEF AnswersInv
<1> DEFINE e == [docs[d] EXCEPT !.kept = FALSE]
<1>3. e \in Doc /\ e.about = docs[d].about
  BY <1>2 DEF Doc
<1>4. docs' = [docs EXCEPT ![d] = e]
  BY <1>1
<1> HIDE DEF e
<1>5. /\ docs' \in Seq(Doc) /\ DOMAIN docs' = DOMAIN docs
      /\ \A x \in DOMAIN docs : docs'[x].about = docs[x].about
  BY <1>2, <1>3, <1>4
<1>6. \A r \in DOMAIN report' : Fits(r)'
  BY <1>1, <1>5, AnswersFit DEF AnswersInv, Fits
<1> QED  BY <1>1, <1>5, <1>6, AnswersFitNext DEF AnswersInv

LEMMA AnswersAsk ==
  ASSUME AnswersInv, NEW u \in Members, Chat!AddToReportQueue(u)
  PROVE  AnswersInv'
<1> DEFINE q == [status |-> "pending", doc |-> 0]
<1>1. report' = Append(report, q) /\ UNCHANGED << docs, cfaults >>
  BY DEF Chat!AddToReportQueue
<1>2. report \in Seq(Question) /\ DOMAIN report = 1 .. Len(report) /\ Len(report) \in Nat
  BY DEF AnswersInv
<1>3. q \in Question /\ q.status # "resolved"
  BY DEF Question
<1> HIDE DEF q
<1>4. /\ report' \in Seq(Question) /\ Len(report') = Len(report) + 1
      /\ report'[Len(report) + 1] = q /\ \A r \in 1 .. Len(report) : report'[r] = report[r]
  BY <1>1, <1>2, <1>3, AppendProperties
<1>5. DOMAIN report' = 1 .. Len(report) + 1
  BY <1>2, <1>4
<1>6. \A x \in DOMAIN docs : docs[x].about \in Nat /\ docs[x].about <= Len(report)
  <2>1. \A x \in DOMAIN docs : docs[x] \in Doc
    BY DEF AnswersInv
  <2>2. \A x \in DOMAIN docs : docs[x].about \in Nat
    BY <2>1 DEF Doc
  <2> QED  BY <2>2 DEF AnswersInv
<1>7. ASSUME NEW r \in 1 .. Len(report) + 1
      PROVE  Fits(r)'
  <2>1. CASE r \in 1 .. Len(report)
    BY <1>1, <1>2, <1>4, <2>1, AnswersFit DEF AnswersInv, Fits
  <2>2. CASE r = Len(report) + 1
    <3>1. \A x \in DOMAIN docs : docs[x].about # r
      BY <1>2, <1>6, <2>2
    <3>2. report'[r].status # "resolved"
      BY <1>3, <1>4, <2>2
    <3> QED  BY <1>1, <3>1, <3>2 DEF Fits
  <2> QED  BY <1>2, <2>1, <2>2
<1>8. \A x \in DOMAIN docs' : docs'[x].about <= Len(report')
  BY <1>1, <1>2, <1>4, <1>6
<1>9. docs' \in Seq(Doc) /\ cfaults' \in Nat
  BY <1>1 DEF AnswersInv
<1> QED  BY <1>4, <1>5, <1>7, <1>8, <1>9, AnswersFitNext DEF AnswersInv

\* The newest document is the question's answer; where the second write fails, the
\* question keeps the answer it had.
LEMMA AnswersResolve ==
  ASSUME AnswersInv, NEW u \in Members, NEW q \in DOMAIN report, Chat!ResolveReport(u, q)
  PROVE  AnswersInv'
<1> DEFINE w == [status |-> "resolved", doc |-> Len(docs) + 1]
<1>1. report \in Seq(Question) /\ DOMAIN report = 1 .. Len(report) /\ Len(report) \in Nat /\ cfaults \in Nat
  BY DEF AnswersInv
<1>2. Chat!CreateDoc(u, q) /\ q \in 0 .. Len(report)
  BY <1>1 DEF Chat!ResolveReport
<1>3. /\ docs' \in Seq(Doc) /\ docs'[Len(docs) + 1].about = q
      /\ \A x \in 1 .. Len(docs) : docs'[x] = docs[x]
      /\ DOMAIN docs = 1 .. Len(docs) /\ DOMAIN docs' = 1 .. Len(docs) + 1
      /\ Len(docs) \in Nat /\ \A x \in DOMAIN docs' : docs'[x].about <= Len(report)
  BY <1>2, DocWritten
<1>4. \A r \in DOMAIN report : Fits(r)
  BY AnswersFit DEF AnswersInv
<1>5. CASE report' = Chat!Resolved(q) /\ cfaults' = cfaults
  <2>1. w \in Question /\ w.status = "resolved" /\ w.doc = Len(docs) + 1
    BY <1>3 DEF Question
  <2>2. report' = [report EXCEPT ![q] = w]
    BY <1>5 DEF Chat!Resolved
  <2> HIDE DEF w
  <2>3. /\ report' \in Seq(Question) /\ DOMAIN report' = DOMAIN report /\ Len(report') = Len(report)
        /\ report'[q] = w /\ \A r \in DOMAIN report : r # q => report'[r] = report[r]
    BY <1>1, <2>1, <2>2
  <2>4. Fits(q)'
    BY <1>3, <2>1, <2>3 DEF Fits
  <2>5. ASSUME NEW r \in DOMAIN report, r # q
        PROVE  Fits(r)'
    BY <1>3, <1>4, <1>5, <2>3, <2>5 DEF Fits
  <2>6. \A r \in DOMAIN report' : Fits(r)'
    BY <2>3, <2>4, <2>5
  <2> QED  BY <1>1, <1>3, <1>5, <2>3, <2>6, AnswersFitNext DEF AnswersInv
<1>6. CASE cfaults' = cfaults + 1 /\ report' = report
  <2>1. cfaults' # 0 /\ cfaults' \in Nat
    BY <1>1, <1>6
  <2>2. ASSUME NEW r \in DOMAIN report
        PROVE  Fits(r)'
    BY <1>3, <1>4, <1>6, <2>1 DEF Fits
  <2> QED  BY <1>1, <1>3, <1>6, <2>1, <2>2, AnswersFitNext DEF AnswersInv
<1> QED  BY <1>5, <1>6 DEF Chat!ResolveReport

LEMMA AnswersIgnore ==
  ASSUME AnswersInv, NEW u \in Members, NEW q \in DOMAIN report, Chat!IgnoreReport(u, q)
  PROVE  AnswersInv'
<1>1. report' = [report EXCEPT ![q].status = "ignored"] /\ UNCHANGED << docs, cfaults >>
  BY DEF Chat!IgnoreReport
<1>2. report \in Seq(Question) /\ report[q] \in Question
  BY DEF AnswersInv
<1> DEFINE w == [report[q] EXCEPT !.status = "ignored"]
<1>3. w \in Question /\ w.status # "resolved" /\ w.doc = report[q].doc
  BY <1>2 DEF Question
<1>4. report' = [report EXCEPT ![q] = w]
  BY <1>1
<1> HIDE DEF w
<1>5. /\ report' \in Seq(Question) /\ DOMAIN report' = DOMAIN report /\ Len(report') = Len(report)
      /\ report'[q] = w /\ \A r \in DOMAIN report : r # q => report'[r] = report[r]
  BY <1>2, <1>3, <1>4
<1>6. ASSUME NEW r \in DOMAIN report
      PROVE  Fits(r)'
  BY <1>1, <1>3, <1>5, AnswersFit DEF AnswersInv, Fits
<1>7. \A r \in DOMAIN report' : Fits(r)'
  BY <1>5, <1>6
<1>8. /\ docs' \in Seq(Doc) /\ cfaults' \in Nat
      /\ \A x \in DOMAIN docs' : docs'[x].about <= Len(report')
  BY <1>1, <1>5 DEF AnswersInv
<1> QED  BY <1>5, <1>7, <1>8, AnswersFitNext DEF AnswersInv

LEMMA AnswersStep ==
  ASSUME AnswersInv, [Chat!Next]_(Chat!cvars)
  PROVE  AnswersInv'
<1>1. ASSUME NEW u \in Members, Chat!RoleChanges(u)
      PROVE  AnswersInv'
  BY <1>1, AnswersUntouched DEF Chat!RoleChanges
<1>2. ASSUME NEW u \in Members, Chat!KnowledgeRequest(u)
      PROVE  AnswersInv'
  BY <1>2, AnswersPost, AnswersAsk, AnswersDelete, AnswersResolve, AnswersIgnore DEF Chat!KnowledgeRequest
<1>3. CASE UNCHANGED Chat!cvars
  BY <1>3, AnswersUntouched DEF Chat!cvars
<1>4. CASE Chat!KnowledgeNext
  BY <1>1, <1>2, <1>4 DEF Chat!KnowledgeNext
<1>5. CASE Chat!TalkNext
  <2>1. CASE \E u \in Members : Chat!RoleChanges(u)
    BY <1>1, <2>1
  <2>2. CASE UNCHANGED << report, docs, cfaults >>
    BY <2>2, AnswersUntouched
  <2> QED
    BY <1>5, <2>1, <2>2
    DEF Chat!TalkNext, Chat!SendGroupMessage, Chat!PoolRequest, Chat!BindAgentModel, Chat!UnbindAgent,
        Chat!AiSuggest, Chat!Mentioned, Chat!Answered, Chat!NewDay
<1> QED  BY <1>3, <1>4, <1>5 DEF Chat!Next

\* However often a question is answered, ignored or half answered, also where the write
\* of the queue fails after that of the document (group_knowledge_service.py,
\* resolve_report): a resolved question names a document written for it, the last one
\* unless a write failed.
LEMMA AnswersFitTheirQuestions == Chat!Spec => []Chat!AnswersFitQuestions
<1>1. Chat!Init => AnswersInv
  BY DEF Chat!Init, AnswersInv, Chat!AnswersFitQuestions
<1>2. AnswersInv /\ [Chat!Next]_(Chat!cvars) => AnswersInv'
  BY AnswersStep
<1>3. AnswersInv => Chat!AnswersFitQuestions
  BY DEF AnswersInv
<1> QED  BY <1>1, <1>2, <1>3, PTL DEF Chat!Spec

\* Both hold of whatever is said and asked in a group.
THEOREM GroupAnswersHold == ChatConstants => (Chat!Spec => []GroupAnswers)
BY QuotaHolds, AnswersFitTheirQuestions, PTL DEF GroupAnswers

-----------------------------------------------------------------------------
(* Groups of other nodes *)

\* A winner was chosen wherever a result says so.
Told(note) == note.kind = "task-result" => \A t \in Tasks : note.id = t => chosen[t] > 0

\* The task of a submission about to be written is there.
Grounded(r) ==
  r.at = "write" /\ r.note.kind = "submission" =>
    \A n \in Nodes, t \in Tasks : r.to = n /\ r.note.id = t => task[n][t] # "none"

Post == {"no", "from", "to", "note", "at"}

HiveType ==
  /\ task \in [Nodes -> [Tasks -> {"none", "open", "done", "rejected"}]]
  /\ subs \in [Nodes -> [Tasks -> SUBSET {"here", "elsewhere"}]]
  /\ chosen \in [Tasks -> Nat]
  /\ \A r \in net : r = [x \in Post |-> r[x]]

FollowInv ==
  /\ HiveType /\ Hive!ResultsFollow
  /\ \A r \in net : Told(r.note) /\ Grounded(r)

LEMMA MovedPost ==
  ASSUME NEW r, r = [x \in Post |-> r[x]], NEW p
  PROVE  LET q == [r EXCEPT !.at = p]
         IN  q = [x \in Post |-> q[x]] /\ q.note = r.note /\ q.to = r.to /\ q.at = p
BY DEF Post

LEMMA NewPost ==
  ASSUME NEW a, NEW b, NEW c, NEW d, NEW p
  PROVE  LET q == [no |-> a, from |-> b, to |-> c, note |-> d, at |-> p]
         IN  q = [x \in Post |-> q[x]] /\ q.note = d /\ q.to = c /\ q.at = p
BY DEF Post

\* Chosen winners stay chosen, known tasks stay known, and new posts say what is true.
LEMMA FollowsOn ==
  ASSUME FollowInv, Hive!ResultsFollow',
         task' \in [Nodes -> [Tasks -> {"none", "open", "done", "rejected"}]],
         subs' \in [Nodes -> [Tasks -> SUBSET {"here", "elsewhere"}]],
         chosen' \in [Tasks -> Nat],
         \A t \in Tasks : chosen[t] > 0 => chosen'[t] > 0,
         \A n \in Nodes, t \in Tasks : task[n][t] # "none" => task'[n][t] # "none",
         \A q \in net' : \/ q \in net
                         \/ q = [x \in Post |-> q[x]] /\ Told(q.note)' /\ Grounded(q)'
  PROVE  FollowInv'
<1>1. \A q \in net' : q = [x \in Post |-> q[x]]
  BY DEF FollowInv, HiveType
<1>2. HiveType'
  BY <1>1 DEF HiveType
<1>3. \A q \in net' : Told(q.note)' /\ Grounded(q)'
  <2> SUFFICES ASSUME NEW q \in net, q \in net'
               PROVE  Told(q.note)' /\ Grounded(q)'
    OBVIOUS
  <2>1. Told(q.note) /\ Grounded(q)
    BY DEF FollowInv
  <2>2. Told(q.note)'
    BY <2>1 DEF Told
  <2>3. Grounded(q)'
    BY <2>1 DEF Grounded
  <2> QED  BY <2>2, <2>3
<1> QED  BY <1>2, <1>3 DEF FollowInv

\* A post more
LEMMA PostNextAdds ==
  ASSUME NEW n, NEW note, NEW left, NEW others, Hive!PostNext(n, note, left, others)
  PROVE  \A q \in net' : \/ q \in others
                         \/ q = [x \in Post |-> q[x]] /\ q.note = note /\ q.at = "wire"
<1>1. CASE left = << >>
  BY <1>1 DEF Hive!PostNext
<1>2. CASE left # << >>
  <2> DEFINE q == [no |-> posts + 1, from |-> n, to |-> Head(left), note |-> note, at |-> "wire"]
  <2>1. net' = others \cup {q}
    BY <1>2 DEF Hive!PostNext
  <2>2. q = [x \in Post |-> q[x]] /\ q.note = note /\ q.at = "wire"
    BY NewPost
  <2> HIDE DEF q
  <2> QED  BY <2>1, <2>2
<1> QED  BY <1>1, <1>2

LEMMA MovedOn ==
  ASSUME HiveType, NEW r \in net, NEW place, Hive!Moved(r, place)
  PROVE  \A q \in net' : \/ q \in net
                         \/ /\ q = [x \in Post |-> q[x]] /\ q.note = r.note
                            /\ q.to = r.to /\ q.at = place
<1> DEFINE m == [r EXCEPT !.at = place]
<1>1. net' = (net \ {r}) \cup {m}
  BY DEF Hive!Moved
<1>2. m = [x \in Post |-> m[x]] /\ m.note = r.note /\ m.to = r.to /\ m.at = place
  BY MovedPost DEF HiveType
<1> HIDE DEF m
<1> QED  BY <1>1, <1>2

\* Tasks and submissions stay as they are.
LEMMA FollowsElsewhere ==
  ASSUME FollowInv, UNCHANGED << task, subs, chosen >>,
         \A q \in net' : \/ q \in net
                         \/ q = [x \in Post |-> q[x]] /\ Told(q.note) /\ Grounded(q)
  PROVE  FollowInv'
<1>1. Hive!ResultsFollow'
  BY DEF FollowInv, Hive!ResultsFollow
<1>2. \A q \in net' : q \in net \/ (q = [x \in Post |-> q[x]] /\ Told(q.note)' /\ Grounded(q)')
  BY DEF Told, Grounded
<1> QED  BY <1>1, <1>2, FollowsOn DEF FollowInv, HiveType

\* A post that says nothing of a winner
LEMMA PlainPost ==
  ASSUME FollowInv, UNCHANGED << task, subs, chosen >>, NEW n, NEW note, NEW left,
         NEW others, others \subseteq net, Told(note), Hive!PostNext(n, note, left, others)
  PROVE  FollowInv'
<1>1. \A q \in net' : \/ q \in others
                      \/ q = [x \in Post |-> q[x]] /\ q.note = note /\ q.at = "wire"
  BY PostNextAdds
<1>2. \A q \in net' : q \in net \/ (q = [x \in Post |-> q[x]] /\ Told(q.note) /\ Grounded(q))
  BY <1>1 DEF Grounded
<1> QED  BY <1>2, FollowsElsewhere

LEMMA FollowChanges ==
  ASSUME FollowInv, NEW n \in Nodes, Hive!Changes(n)
  PROVE  FollowInv'
<1>1. HiveType /\ Hive!ResultsFollow
  BY DEF FollowInv
<1>2. CASE Hive!CreateGroup(n)
  <2>1. Told([kind |-> "group"])
    BY DEF Told
  <2> QED  BY <1>2, <2>1, PlainPost DEF Hive!CreateGroup, Hive!Broadcast
<1>3. ASSUME NEW u \in Members, Hive!InviteToGroup(n, u) \/ Hive!RemoveMember(n, u)
      PROVE  FollowInv'
  <2>1. Told([kind |-> "member", user |-> u]) /\ Told([kind |-> "member-remove", user |-> u])
    BY DEF Told
  <2> QED  BY <1>3, <2>1, PlainPost DEF Hive!InviteToGroup, Hive!RemoveMember, Hive!Broadcast
<1>4. ASSUME NEW m \in Messages, Hive!SendGroupMessage(n, m)
      PROVE  FollowInv'
  <2>1. Told([kind |-> "message", id |-> m])
    BY DEF Told
  <2> QED  BY <1>4, <2>1, PlainPost DEF Hive!SendGroupMessage, Hive!Broadcast
<1>5. ASSUME NEW t \in Tasks, Hive!PublishTask(n, t)
      PROVE  FollowInv'
  <2> DEFINE note == [kind |-> "task", id |-> t]
  <2>1. /\ task' = [task EXCEPT ![n][t] = "open"] /\ UNCHANGED << subs, chosen >>
        /\ Hive!PostNext(n, note, Peers[n], net)
    BY <1>5 DEF Hive!PublishTask, Hive!Broadcast
  <2>2. /\ task' \in [Nodes -> [Tasks -> {"none", "open", "done", "rejected"}]]
        /\ \A k \in Nodes, s \in Tasks : task'[k][s] = IF k = n /\ s = t THEN "open" ELSE task[k][s]
    BY <1>1, <2>1 DEF HiveType
  <2>3. Hive!ResultsFollow'
    BY <1>1, <2>1, <2>2 DEF Hive!ResultsFollow
  <2>4. note.kind = "task"
    OBVIOUS
  <2> HIDE DEF note
  <2>5. \A q \in net' : q \in net \/ (q = [x \in Post |-> q[x]] /\ Told(q.note)' /\ Grounded(q)')
    BY <2>1, <2>4, PostNextAdds DEF Told, Grounded
  <2> QED  BY <1>1, <2>1, <2>2, <2>3, <2>5, FollowsOn DEF HiveType
<1>6. ASSUME NEW t \in Tasks, Hive!SubmitSolution(n, t)
      PROVE  FollowInv'
  <2> DEFINE note == [kind |-> "submission", id |-> t]
  <2>1. /\ subs' = [subs EXCEPT ![n][t] = @ \cup {"here"}] /\ UNCHANGED << task, chosen >>
        /\ task[n][t] = "open" /\ Hive!PostNext(n, note, Peers[n], net)
    BY <1>6 DEF Hive!SubmitSolution, Hive!Broadcast
  <2>2. /\ subs' \in [Nodes -> [Tasks -> SUBSET {"here", "elsewhere"}]]
        /\ \A k \in Nodes, s \in Tasks : ~(k = n /\ s = t) => subs'[k][s] = subs[k][s]
    BY <1>1, <2>1 DEF HiveType
  <2>3. Hive!ResultsFollow'
    BY <1>1, <2>1, <2>2 DEF Hive!ResultsFollow
  <2>4. note.kind = "submission"
    OBVIOUS
  <2> HIDE DEF note
  <2>5. \A q \in net' : q \in net \/ (q = [x \in Post |-> q[x]] /\ Told(q.note)' /\ Grounded(q)')
    BY <2>1, <2>4, PostNextAdds DEF Told, Grounded
  <2> QED  BY <1>1, <2>1, <2>2, <2>3, <2>5, FollowsOn DEF HiveType
<1>7. ASSUME NEW t \in Tasks, Hive!SelectWinner(n, t)
      PROVE  FollowInv'
  <2> DEFINE note == [kind |-> "task-result", id |-> t]
  <2>1. /\ task' = [task EXCEPT ![n][t] = "done"] /\ chosen' = [chosen EXCEPT ![t] = @ + 1]
        /\ UNCHANGED subs /\ Hive!PostNext(n, note, Peers[n], net)
    BY <1>7 DEF Hive!SelectWinner, Hive!Broadcast
  <2>2. /\ task' \in [Nodes -> [Tasks -> {"none", "open", "done", "rejected"}]]
        /\ \A k \in Nodes, s \in Tasks : task'[k][s] = IF k = n /\ s = t THEN "done" ELSE task[k][s]
        /\ chosen' \in [Tasks -> Nat] /\ chosen'[t] > 0
        /\ \A s \in Tasks : chosen'[s] >= chosen[s] /\ chosen[s] \in Nat /\ chosen'[s] \in Nat
    BY <1>1, <2>1 DEF HiveType
  <2>3. Hive!ResultsFollow'
    BY <1>1, <2>1, <2>2 DEF Hive!ResultsFollow
  <2>4. note.kind = "task-result" /\ note.id = t
    OBVIOUS
  <2> HIDE DEF note
  <2>5. Told(note)'
    BY <2>2, <2>4 DEF Told
  <2>6. \A q \in net' : q \in net \/ (q = [x \in Post |-> q[x]] /\ q.note = note /\ Grounded(q)')
    BY <2>1, PostNextAdds DEF Grounded
  <2>7. \A q \in net' : q \in net \/ (q = [x \in Post |-> q[x]] /\ Told(q.note)' /\ Grounded(q)')
    BY <2>5, <2>6
  <2>8. \A s \in Tasks : chosen[s] > 0 => chosen'[s] > 0
    BY <2>2
  <2> QED  BY <1>1, <2>1, <2>2, <2>3, <2>7, <2>8, FollowsOn DEF HiveType
<1>8. ASSUME NEW t \in Tasks, Hive!RejectAll(n, t)
      PROVE  FollowInv'
  <2>1. task' = [task EXCEPT ![n][t] = "rejected"] /\ UNCHANGED << subs, chosen, net >>
    BY <1>8 DEF Hive!RejectAll
  <2>2. /\ task' \in [Nodes -> [Tasks -> {"none", "open", "done", "rejected"}]]
        /\ \A k \in Nodes, s \in Tasks : task'[k][s] = IF k = n /\ s = t THEN "rejected" ELSE task[k][s]
    BY <1>1, <2>1 DEF HiveType
  <2>3. Hive!ResultsFollow'
    BY <1>1, <2>1, <2>2 DEF Hive!ResultsFollow
  <2> QED  BY <1>1, <2>1, <2>2, <2>3, FollowsOn DEF HiveType
<1> QED  BY <1>2, <1>3, <1>4, <1>5, <1>6, <1>7, <1>8 DEF Hive!Changes

LEMMA FollowWrite ==
  ASSUME FollowInv, NEW r \in net, Hive!Write(r)
  PROVE  FollowInv'
<1>1. /\ HiveType /\ Hive!ResultsFollow /\ Told(r.note) /\ Grounded(r)
      /\ r.at = "write" /\ UNCHANGED chosen /\ Hive!Moved(r, "answered")
  BY DEF FollowInv, Hive!Write
<1>2. \A q \in net' : q \in net \/ (q = [x \in Post |-> q[x]] /\ q.note = r.note /\ q.at = "answered")
  BY <1>1, MovedOn
<1>3. \A q \in net' : q \in net \/ (q = [x \in Post |-> q[x]] /\ Told(q.note)' /\ Grounded(q)')
  BY <1>1, <1>2 DEF Told, Grounded
<1>4. CASE UNCHANGED << task, subs >>
  <2>1. Hive!ResultsFollow'
    BY <1>1, <1>4 DEF Hive!ResultsFollow
  <2> QED  BY <1>1, <1>3, <1>4, <2>1, FollowsOn DEF HiveType
<1>5. ASSUME NEW s \in {"open", "done"}, task' = [task EXCEPT ![r.to][r.note.id] = s],
             UNCHANGED subs, s = "done" => r.note.kind = "task-result"
      PROVE  FollowInv'
  <2>1. task' \in [Nodes -> [Tasks -> {"none", "open", "done", "rejected"}]]
    BY <1>1, <1>5 DEF HiveType
  <2>2. \A k \in Nodes, t \in Tasks :
          task'[k][t] = IF k = r.to /\ t = r.note.id THEN s ELSE task[k][t]
    BY <1>1, <1>5 DEF HiveType
  <2>3. Hive!ResultsFollow'
    BY <1>1, <1>5, <2>2 DEF Hive!ResultsFollow, Told
  <2> QED  BY <1>1, <1>3, <1>5, <2>1, <2>2, <2>3, FollowsOn DEF HiveType
<1>6. CASE Hive!SyncSubmission(r)
  <2>1. /\ subs' = [subs EXCEPT ![r.to][r.note.id] = @ \cup {"elsewhere"}] /\ UNCHANGED task
        /\ r.note.kind = "submission"
    BY <1>6 DEF Hive!SyncSubmission
  <2>2. /\ subs' \in [Nodes -> [Tasks -> SUBSET {"here", "elsewhere"}]]
        /\ \A k \in Nodes, t \in Tasks : ~(k = r.to /\ t = r.note.id) => subs'[k][t] = subs[k][t]
    <3> DEFINE row == [subs[r.to] EXCEPT ![r.note.id] = @ \cup {"elsewhere"}]
    <3>1. subs \in [Nodes -> [Tasks -> SUBSET {"here", "elsewhere"}]] /\ subs' = [subs EXCEPT ![r.to] = row]
      BY <1>1, <2>1 DEF HiveType
    <3>2. r.to \in Nodes => /\ row \in [Tasks -> SUBSET {"here", "elsewhere"}]
                            /\ \A t \in Tasks : t # r.note.id => row[t] = subs[r.to][t]
      <4> SUFFICES ASSUME r.to \in Nodes
                   PROVE  /\ row \in [Tasks -> SUBSET {"here", "elsewhere"}]
                          /\ \A t \in Tasks : t # r.note.id => row[t] = subs[r.to][t]
        OBVIOUS
      <4> DEFINE e == subs[r.to][r.note.id] \cup {"elsewhere"}
      <4>1. subs[r.to] \in [Tasks -> SUBSET {"here", "elsewhere"}] /\ row = [subs[r.to] EXCEPT ![r.note.id] = e]
        BY <3>1
      <4>2. r.note.id \in Tasks => e \in SUBSET {"here", "elsewhere"}
        BY <4>1
      <4> HIDE DEF e, row
      <4> QED  BY <4>1, <4>2
    <3> HIDE DEF row
    <3> QED  BY <3>1, <3>2
  <2>3. \A k \in Nodes, t \in Tasks : k = r.to /\ t = r.note.id => task[k][t] # "none"
    BY <1>1, <2>1 DEF Grounded
  <2>4. Hive!ResultsFollow'
    BY <1>1, <2>1, <2>2, <2>3 DEF Hive!ResultsFollow
  <2> QED  BY <1>1, <1>3, <2>1, <2>2, <2>4, FollowsOn DEF HiveType
<1>7. CASE Hive!SyncTask(r)
  BY <1>5, <1>7 DEF Hive!SyncTask
<1>8. CASE Hive!SyncTaskResult(r)
  BY <1>5, <1>8 DEF Hive!SyncTaskResult
<1> QED
  BY <1>4, <1>6, <1>7, <1>8
  DEF Hive!Write, Hive!SyncGroup, Hive!SyncMember, Hive!SyncMemberRemove

LEMMA FollowPosts ==
  ASSUME FollowInv, NEW r \in net,
         \/ Hive!SyncMessage(r) \/ Hive!Accept(r) \/ Hive!Look(r) \/ Hive!Answered(r) \/ Hive!GiveUp(r)
  PROVE  FollowInv'
<1>1. HiveType /\ Told(r.note) /\ Grounded(r)
  BY DEF FollowInv
<1>2. UNCHANGED << task, subs, chosen >>
  BY DEF Hive!SyncMessage, Hive!Accept, Hive!Look, Hive!Answered, Hive!GiveUp
<1>3. CASE Hive!SyncMessage(r) \/ Hive!Accept(r)
  <2>1. PICK place \in {"answered", "thread"} : Hive!Moved(r, place)
    BY <1>3 DEF Hive!SyncMessage, Hive!Accept
  <2>2. \A q \in net' : q \in net \/ (q = [x \in Post |-> q[x]] /\ q.note = r.note /\ q.at = place)
    BY <1>1, <2>1, MovedOn
  <2>3. \A q \in net' : q \in net \/ (q = [x \in Post |-> q[x]] /\ Told(q.note) /\ Grounded(q))
    BY <1>1, <2>2 DEF Grounded
  <2> QED  BY <1>2, <2>3, FollowsElsewhere
<1>4. CASE Hive!Look(r)
  <2>1. PICK place \in {"answered", "write"} :
          Hive!Moved(r, place) /\ (place = "write" => Hive!Wanted(r.to, r.note))
    BY <1>4 DEF Hive!Look
  <2>2. \A q \in net' : \/ q \in net
                        \/ /\ q = [x \in Post |-> q[x]] /\ q.note = r.note
                           /\ q.to = r.to /\ q.at = place
    BY <1>1, <2>1, MovedOn
  <2>3. place = "write" /\ r.note.kind = "submission" => task[r.to][r.note.id] # "none"
    BY <2>1 DEF Hive!Wanted
  <2>4. \A q \in net' : q \in net \/ (q = [x \in Post |-> q[x]] /\ Told(q.note) /\ Grounded(q))
    BY <1>1, <2>2, <2>3 DEF Grounded
  <2> QED  BY <1>2, <2>4, FollowsElsewhere
<1>5. CASE Hive!Answered(r)
  <2>1. CASE Hive!Waits(r.from, r)
    <3>1. Hive!PostNext(r.from, r.note, job[r.from].left, net \ {r})
      BY <1>5, <2>1 DEF Hive!Answered
    <3>2. net \ {r} \subseteq net
      OBVIOUS
    <3> QED  BY <1>1, <1>2, <3>1, <3>2, PlainPost
  <2>2. CASE ~Hive!Waits(r.from, r)
    <3>1. net' = net \ {r}
      BY <1>5, <2>2 DEF Hive!Answered
    <3> QED  BY <1>2, <3>1, FollowsElsewhere
  <2> QED  BY <2>1, <2>2
<1>6. CASE Hive!GiveUp(r)
  <2>1. PICK others \in {net} \cup (IF r.at = "wire" THEN {net \ {r}} ELSE {}) :
          Hive!PostNext(r.from, r.note, job[r.from].left, others)
    BY <1>6 DEF Hive!GiveUp
  <2>2. others \subseteq net
    OBVIOUS
  <2> QED  BY <1>1, <1>2, <2>1, <2>2, PlainPost
<1> QED  BY <1>3, <1>4, <1>5, <1>6

\* On any number of nodes with any peers, whatever is late, lost or taken out of order
\* (hive_task_routes.py): a task is done on a node only after its publisher chose a
\* winner on some node, and a submission is known only where the task is.
THEOREM ResultsFollowChoices == Hive!Spec => []Hive!ResultsFollow
<1>1. Hive!Init => FollowInv
  BY DEF Hive!Init, FollowInv, HiveType, Hive!ResultsFollow
<1>2. FollowInv /\ [Hive!Next]_(Hive!hvars) => FollowInv'
  <2> SUFFICES ASSUME FollowInv, [Hive!Next]_(Hive!hvars)
               PROVE  FollowInv'
    OBVIOUS
  <2>1. CASE UNCHANGED Hive!hvars
    BY <2>1, FollowsElsewhere DEF Hive!hvars
  <2> QED  BY <2>1, FollowChanges, FollowWrite, FollowPosts DEF Hive!Next
<1>3. FollowInv => Hive!ResultsFollow
  BY DEF FollowInv
<1> QED  BY <1>1, <1>2, <1>3, PTL DEF Hive!Spec
=============================================================================
