------------------------------ MODULE GroupChat ------------------------------
(***************************************************************************)
(* What is said and asked in one group (core/services/group_service.py,    *)
(* group_resource_service.py, group_knowledge_service.py and their routes):*)
(* messages, agents the group shares with a quota per user and day, the    *)
(* group's documents and its queue of open questions.                      *)
(*                                                                         *)
(* A request runs to its end, except where it awaits the model: a quota is *)
(* looked at before that wait, the use recorded after it.  The answer to a *)
(* mention is a task of its own on the event loop.  Who belongs to the     *)
(* group and who may configure it changes at any time (GroupRoles).        *)
(***************************************************************************)
EXTENDS Integers, Sequences, FiniteSets

CONSTANTS
  Users, Owner,      \* users, and the one groups.owner_id names
  Agents,            \* ids of model configurations
  NoAgent,           \* NULL
  Calls,             \* mentions and suggestions at work
  Limits,            \* daily limits asked for, perhaps 0
  DefaultLimit,      \* what 0 stands for
  MaxMessages, MaxReports, MaxDocs, MaxDays, MaxFaults   \* bounds

VARIABLES
  role,      \* rows of users in group_members: their role, or "none"
  seated,    \* agents that are members themselves
  pool,      \* group_resource_pool: daily limit of each shared agent, or -1
  msgs,      \* group_messages
  call,      \* mentions and suggestions at work
  uses,      \* rows of group_resource_usage of today
  report,    \* group_report_queue
  docs,      \* knowledge_docs of the group
  most,      \* history: the highest limit an agent was ever shared with
  days, faults

cvars == << role, seated, pool, msgs, call, uses, report, docs, most, days, faults >>

-----------------------------------------------------------------------------
(* Members *)

IsMember(u) == role[u] # "none"

\* _check_owner, _check_admin: the owner needs no row.
MayConfigure(u) == u = Owner \/ role[u] = "admin"

RoleChanges(u) ==
  /\ \E r \in {"none", "member", "admin"} : r # role[u] /\ role' = [role EXCEPT ![u] = r]
  /\ UNCHANGED << seated, pool, msgs, call, uses, report, docs, most, days, faults >>

-----------------------------------------------------------------------------
(* Shared agents *)

Idle == [at |-> "idle"]
Shared(a) == pool[a] # -1

BindAgentModel(u, a, limit) ==
  /\ MayConfigure(u) /\ pool[a] # limit
  /\ pool' = [pool EXCEPT ![a] = limit]
  /\ most' = LET l == IF limit = 0 THEN DefaultLimit ELSE limit
             IN  [most EXCEPT ![a] = IF l > @ THEN l ELSE @]
  /\ UNCHANGED << role, seated, msgs, call, uses, report, docs, days, faults >>

UnbindAgent(u, a) ==
  /\ MayConfigure(u) /\ Shared(a) /\ pool' = [pool EXCEPT ![a] = -1]
  /\ UNCHANGED << role, seated, msgs, call, uses, report, docs, most, days, faults >>

\* Mutant of WithinQuota: the last use is granted twice.
WithinQuotaOnceMore(u, a) == uses[u][a] <= (IF pool[a] = 0 THEN DefaultLimit ELSE pool[a])

\* check_quota
WithinQuota(u, a) == uses[u][a] < (IF pool[a] = 0 THEN DefaultLimit ELSE pool[a])

\* record_usage: after the answer, on the day of the answer
RecordUsage(u, a) == uses' = [uses EXCEPT ![u][a] = @ + 1]

-----------------------------------------------------------------------------
(* Messages *)

Say(u, a, re) ==
  /\ Len(msgs) < MaxMessages
  /\ msgs' = Append(msgs, [user |-> u, agent |-> a, re |-> re])

\* send_group_message and its route.  As himself a member speaks, and whom he
\* mentions is looked up later; with an agent that is seated or shared anybody
\* speaks.
SendGroupMessage(u) ==
  /\ \/ /\ IsMember(u) /\ Say(u, NoAgent, 0)
        /\ \/ UNCHANGED call
           \/ \E c \in Calls, a \in Agents :
                /\ call[c] = Idle
                /\ call' = [call EXCEPT ![c] = [at |-> "mention", user |-> u, agent |-> a, re |-> Len(msgs) + 1]]
     \/ \E a \in Agents : (a \in seated \/ Shared(a)) /\ Say(u, a, 0) /\ UNCHANGED call
  /\ UNCHANGED << role, seated, pool, uses, report, docs, most, days, faults >>

\* _handle_at_agent, up to the model: a mention of what is not shared stays without an
\* answer, one beyond the quota is told so.
Mentioned(c) ==
  LET u == call[c].user
      a == call[c].agent
  IN  /\ call[c].at = "mention"
      /\ \/ ~Shared(a) /\ call' = [call EXCEPT ![c] = Idle] /\ UNCHANGED msgs
         \/ /\ Shared(a) /\ ~WithinQuota(u, a) /\ Say(u, a, call[c].re)
            /\ call' = [call EXCEPT ![c] = Idle]
         \/ /\ Shared(a) /\ WithinQuota(u, a)
            /\ call' = [call EXCEPT ![c].at = "model"] /\ UNCHANGED msgs
      /\ UNCHANGED << role, seated, pool, uses, report, docs, most, days, faults >>

\* api_group_ai_suggest, up to the model; its answer goes to the one who asked.
AiSuggest(u, a, c) ==
  /\ call[c] = Idle /\ IsMember(u) /\ Shared(a) /\ WithinQuota(u, a)
  /\ call' = [call EXCEPT ![c] = [at |-> "model", user |-> u, agent |-> a, re |-> 0]]
  /\ UNCHANGED << role, seated, pool, msgs, uses, report, docs, most, days, faults >>

\* The rest of call_agent_with_group_resource, and insert_agent_message for a mention.
\* A model that fails uses nothing, but its failure is said.
Answered(c) ==
  LET u == call[c].user
      a == call[c].agent
  IN  /\ call[c].at = "model"
      /\ RecordUsage(u, a) \/ UNCHANGED uses
      /\ IF call[c].re > 0 THEN Say(u, a, call[c].re) ELSE UNCHANGED msgs
      /\ call' = [call EXCEPT ![c] = Idle]
      /\ UNCHANGED << role, seated, pool, report, docs, most, days, faults >>

-----------------------------------------------------------------------------
(* Documents and open questions *)

\* create_doc; about is the question it answers, or 0.
CreateDoc(u, about) ==
  /\ MayConfigure(u) /\ Len(docs) < MaxDocs
  /\ docs' = Append(docs, [by |-> u, about |-> about, kept |-> TRUE])

PostKnowledge(u) ==
  /\ CreateDoc(u, 0)
  /\ UNCHANGED << role, seated, pool, msgs, call, uses, report, most, days, faults >>

DeleteDoc(u, d) ==
  /\ docs[d].kept /\ (MayConfigure(u) \/ docs[d].by = u)
  /\ docs' = [docs EXCEPT ![d].kept = FALSE]
  /\ UNCHANGED << role, seated, pool, msgs, call, uses, report, most, days, faults >>

\* add_to_report_queue: anybody may ask.
AddToReportQueue(u) ==
  /\ Len(report) < MaxReports
  /\ report' = Append(report, [status |-> "pending", doc |-> 0])
  /\ UNCHANGED << role, seated, pool, msgs, call, uses, docs, most, days, faults >>

Resolved(r) == [report EXCEPT ![r] = [status |-> "resolved", doc |-> Len(docs) + 1]]

\* resolve_report, whatever the status: each answer is one more document.  The
\* document is committed before the queue is.
ResolveReport(u, r) ==
  /\ CreateDoc(u, r)
  /\ \/ report' = Resolved(r) /\ UNCHANGED faults
     \/ faults < MaxFaults /\ faults' = faults + 1 /\ UNCHANGED report
  /\ UNCHANGED << role, seated, pool, msgs, call, uses, most, days >>

IgnoreReport(u, r) ==
  /\ MayConfigure(u) /\ report[r].status # "ignored"
  /\ report' = [report EXCEPT ![r].status = "ignored"]
  /\ UNCHANGED << role, seated, pool, msgs, call, uses, docs, most, days, faults >>

NewDay ==
  /\ days < MaxDays /\ days' = days + 1
  /\ uses' = [u \in Users |-> [a \in Agents |-> 0]]
  /\ UNCHANGED << role, seated, pool, msgs, call, report, docs, most, faults >>

-----------------------------------------------------------------------------
Init ==
  /\ role = [u \in Users |-> IF u = Owner THEN "member" ELSE "none"]
  /\ seated \in SUBSET Agents
  /\ pool = [a \in Agents |-> -1] /\ most = [a \in Agents |-> 0]
  /\ msgs = << >> /\ report = << >> /\ docs = << >>
  /\ call = [c \in Calls |-> Idle]
  /\ uses = [u \in Users |-> [a \in Agents |-> 0]]
  /\ days = 0 /\ faults = 0

\* What the routes of a group let a user ask for
PoolRequest(u, a) == UnbindAgent(u, a) \/ \E l \in Limits : BindAgentModel(u, a, l)

KnowledgeRequest(u) ==
  \/ PostKnowledge(u) \/ AddToReportQueue(u)
  \/ \E d \in DOMAIN docs : DeleteDoc(u, d)
  \/ \E r \in DOMAIN report : ResolveReport(u, r) \/ IgnoreReport(u, r)

TalkNext ==
  \/ \E u \in Users : RoleChanges(u) \/ SendGroupMessage(u)
  \/ \E u \in Users, a \in Agents : PoolRequest(u, a) \/ \E c \in Calls : AiSuggest(u, a, c)
  \/ \E c \in Calls : Mentioned(c) \/ Answered(c)
  \/ NewDay

KnowledgeNext == \E u \in Users : RoleChanges(u) \/ KnowledgeRequest(u)

Next == TalkNext \/ KnowledgeNext

Spec == Init /\ [][Next]_cvars

-----------------------------------------------------------------------------
(* Properties *)

AtModel(u, a) == {c \in Calls : call[c].at = "model" /\ call[c].user = u /\ call[c].agent = a}

\* Though quotas are checked before the model is awaited and used up after it, and
\* agents are shared anew meanwhile, a user exceeds the highest limit by less than
\* the number of calls that can be at work at once.
QuotaByDay ==
  \A u \in Users, a \in Agents :
    \/ uses[u][a] + Cardinality(AtModel(u, a)) <= most[a] - 1 + Cardinality(Calls)
    \/ uses[u][a] = 0 /\ AtModel(u, a) = {}

\* However often it is answered, ignored or half answered, a resolved question names a
\* document that was written for it, the last one unless a failure came between.
AnswersFitQuestions ==
  \A r \in DOMAIN report :
    LET d == report[r].doc
        about == {x \in DOMAIN docs : docs[x].about = r}
    IN  /\ report[r].status = "resolved" => d \in about
        /\ faults = 0 => \A x \in about : x <= d
=============================================================================
