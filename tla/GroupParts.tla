------------------------------ MODULE GroupParts ------------------------------
(***************************************************************************)
(* A group by its parts: who is in it (GroupRoles), its credits, what is   *)
(* said and asked in it, and its shadows on other nodes.  The parts share  *)
(* no state but the ids of agents.  Members are whoever has credits in it, *)
(* talks in it and posts to it.                                            *)
(***************************************************************************)
EXTENDS GroupRoles

CONSTANTS
  Members, MaxFaults,
  Groups, Amounts, MinStake, MinWelfare, MinDrop, Activities, DailyPool, TopN, TopAmount,
  GroupCap, Hours, InitCredits, InitPool, MaxStakes, MaxTime,                    \* GroupTreasury
  Owner, Calls, Limits, DefaultLimit, MaxMessages, MaxReports, MaxDocs, MaxDays, \* GroupChat
  Nodes, Peers, Founder, Messages, Tasks, MaxPosts, MaxLate                      \* HiveSync

VARIABLES
  credits, group, stake, drop, now, spent, welfare, faults,                   \* GroupTreasury
  crole, seated, pool, msgs, call, uses, report, docs, most, days, cfaults,   \* GroupChat
  shadow, rows, texts, task, subs, home, chosen, job, net, posts, late        \* HiveSync

treasuryVars == << credits, group, stake, drop, now, spent, welfare, faults >>
chatVars == << crole, seated, pool, msgs, call, uses, report, docs, most, days, cfaults >>
hiveVars == << shadow, rows, texts, task, subs, home, chosen, job, net, posts, late >>

ASSUME MembersAssumption == IsFiniteSet(Members)

Treasury == INSTANCE GroupTreasury WITH Users <- Members

Chat == INSTANCE GroupChat WITH Users <- Members, NoAgent <- NoUser, role <- crole, faults <- cfaults

Hive == INSTANCE HiveSync WITH Users <- Members, group <- shadow, msgs <- texts

-----------------------------------------------------------------------------
(* Properties *)

\* No credit of a group appears or vanishes, its active stakes are covered, and the
\* daily job gives it one packet a day.
GroupBooks == Treasury!NoCreditAppears /\ Treasury!StakesCovered /\ Treasury!WelfareOnceADay

\* A user exceeds the quota of a shared agent by less than the number of calls at
\* work at once, and a resolved question names a document written for it.
GroupAnswers == Chat!QuotaByDay /\ Chat!AnswersFitQuestions

\* While no post is late or lost the nodes agree whenever nothing is under way; a task
\* is done only after a winner was chosen on one of them.
InStep == Hive!InStep /\ Hive!ResultsFollow
=============================================================================
