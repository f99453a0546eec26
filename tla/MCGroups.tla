------------------------------- MODULE MCGroups -------------------------------
(* What happens in a group: membership, its credits, what is said and asked,   *)
(* its shadow on another node.  The initial state chooses which part moves.    *)
EXTENDS GroupParts, TLC

CONSTANTS u1, u2, u3, a1, g1, g2

VARIABLE part

\* Three users and an agent, two invitations
ThreeUsers == {u1, u2, u3}
OwnerOfAgent == a1 :> u1
TwoInvites == 1 .. 2

\* The credits are those of one of the users and of two groups, one of which is in the
\* airdrop's first ranks: two stakes, two days of two hours.  In the talk he is appointed
\* and deposed by an owner elsewhere; the agent is shared with quotas of two or by
\* default one, two calls at once on each of two days.
\* Two nodes know of each other: five posts, of which one is late or lost.
TwoPeers == "north" :> << "south" >> @@ "south" :> << "north" >>

GroupSymmetry == Permutations({g1, g2})

PartsInit ==
  /\ part \in {"roles", "treasury", "talk", "knowledge", "hive"}
  /\ Init /\ Treasury!Init /\ Chat!Init /\ Hive!Init
  /\ part # "talk" => seated = {}

PartsNext ==
  \/ part = "roles" /\ Next /\ UNCHANGED << part, treasuryVars, chatVars, hiveVars >>
  \/ part = "treasury" /\ Treasury!Next /\ UNCHANGED << part, gvars, chatVars, hiveVars >>
  \/ part = "talk" /\ Chat!TalkNext /\ UNCHANGED << part, gvars, treasuryVars, hiveVars >>
  \/ part = "knowledge" /\ Chat!KnowledgeNext /\ UNCHANGED << part, gvars, treasuryVars, hiveVars >>
  \/ part = "hive" /\ Hive!Next /\ UNCHANGED << part, gvars, treasuryVars, chatVars >>

PartsSpec == PartsInit /\ [][PartsNext]_<< part, gvars, treasuryVars, chatVars, hiveVars >>
=============================================================================
