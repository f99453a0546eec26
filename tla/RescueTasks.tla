----------------------------- MODULE RescueTasks -----------------------------
(***************************************************************************)
(* The tasks of the pet campaign and their solutions                       *)
(* (core/services/yunchong_service.py, rescue_service.py and their routes, *)
(* and what they need of knowledge_service.py): a user takes a task, lets  *)
(* an agent find a solution and has it verified; a solution that passes    *)
(* pays a pet and goes into the knowledge base.                            *)
(*                                                                         *)
(* Analysis and verification each wait for a model.  While they do, the    *)
(* same task may be analysed again, verified again, abandoned or refreshed,*)
(* and a thread gives old tasks of the former kind back.  Both write with  *)
(* what they read before the wait.                                         *)
(***************************************************************************)
EXTENDS CreditLedger, Sequences

CONSTANTS
  Calls,            \* requests that wait for a model
  Solutions,        \* what agents answer
  Guarantee,        \* the solution of _guaranteed_success
  NoSolution,       \* NULL
  GuaranteeAfter,   \* GUARANTEE_FAIL_COUNT
  FreeDaily,        \* OFFICIAL_AGENT_FREE_DAILY
  OfficialCost,     \* OFFICIAL_AGENT_COST_PER_USE
  Costs,            \* energy a new task asks for
  MaxTasks          \* bound on the rows of yunchong_tasks

VARIABLES
  task,     \* yunchong_tasks, after the rows left of rescue_tasks
  call,     \* requests at work: what they are about and what they read
  kb,       \* knowledge_base
  used,     \* yunchong_official_agent_usage: today's uses
  passed,   \* history: << task, solution >> that passed a verification
  given,    \* pets and comfort rewards
  bills     \* history: uses of the assistant that were free, compute paid for others

rvars == << task, call, kb, used, passed, given, bills >>

-----------------------------------------------------------------------------
(* Rows and requests *)

Idle == [at |-> "idle"]

\* What a request reads of its task and keeps while it waits
Waiting(kind, u, t) ==
  [at |-> kind, user |-> u, task |-> t, solution |-> task[t].solution, reused |-> task[t].reused]

NewTask(u, source, cost) ==
  [source |-> source, owner |-> u, status |-> "available", attempts |-> 0,
   solution |-> NoSolution, reused |-> FALSE, cost |-> cost]

\* The yunchong routes look at the owner; those of rescue_tasks do not.
MayWork(u, t) == task[t].source = "rescue" \/ task[t].owner = u

Free(c) == call[c] = Idle

-----------------------------------------------------------------------------
(* yunchong_service *)

\* Available tasks expire, new ones come.
Refresh(u) ==
  /\ Request /\ Len(task) < MaxTasks
  /\ \E cost \in Costs :
       task' = Append([t \in DOMAIN task |->
                         IF task[t].source = "yunchong" /\ task[t].owner = u /\ task[t].status = "available"
                         THEN [task[t] EXCEPT !.status = "expired"] ELSE task[t]],
                      NewTask(u, "yunchong", cost))
  /\ UNCHANGED << credits, today, compute, pool, recent, past, days, faults, call, kb, used, passed, given, bills >>

\* The energy is deducted in one transaction, the task taken in another.  A radar
\* makes near tasks free.
Accept(u, t) ==
  /\ Request
  /\ task[t].source = "yunchong" /\ task[t].owner = u /\ task[t].status = "available"
  /\ \E cost \in {0, task[t].cost} :
       /\ credits[u] >= cost
       /\ credits' = [credits EXCEPT ![u] = @ - cost]
       /\ past' = [past EXCEPT ![u].deducted = @ + cost]
  /\ \/ /\ task' = [task EXCEPT ![t].status = "in_progress", ![t].attempts = @ + 1]
        /\ UNCHANGED faults
     \/ Fails /\ UNCHANGED task
  /\ UNCHANGED << today, compute, pool, recent, days, call, kb, used, passed, given, bills >>

Abandon(u, t) ==
  /\ Request
  /\ task[t].source = "yunchong" /\ task[t].owner = u /\ task[t].status = "in_progress"
  /\ task' = [task EXCEPT ![t].status = "available"]
  /\ UNCHANGED << credits, today, compute, pool, recent, past, days, faults, call, kb, used, passed, given, bills >>

\* Mutant of IsFree: one use too many.
IsFreeStill(u) == used[u] <= FreeDaily

IsFree(u) == used[u] < FreeDaily

\* consume_official_agent: a use that is not free is paid in compute, in a transaction
\* before the one that counts it.
ConsumeOfficial(u) ==
  /\ used' = [used EXCEPT ![u] = @ + 1]
  /\ \/ IsFree(u) /\ bills' = [bills EXCEPT ![u].free = @ + 1] /\ UNCHANGED compute
     \/ /\ ~IsFree(u) /\ Consumed(u, OfficialCost)
        /\ bills' = [bills EXCEPT ![u].paid = @ + OfficialCost]

-----------------------------------------------------------------------------
(* rescue_service *)

\* add_to_knowledge_base keeps what resembles nothing it has.
Remembered(t, solution, u, score) ==
  \/ kb' = Append(kb, [task |-> t, solution |-> solution, by |-> u, score |-> score])
  \/ kb # << >> /\ UNCHANGED kb

\* create_pet and _grant_rewards
Rewarded(u) == given' = [given EXCEPT ![u].pets = @ + 1]

\* _guaranteed_success: also for a task that was rescued before
GuaranteedSuccess(u, t) ==
  /\ task[t].attempts >= GuaranteeAfter
  /\ task' = [task EXCEPT ![t].status = "rescued", ![t].solution = Guarantee]
  /\ Remembered(t, Guarantee, u, 40)
  /\ UNCHANGED << credits, today, past, call >>

\* Analysis begins whatever the status: a rescued or expired task is in progress again.
Begun(t) == [task[t] EXCEPT !.status = "in_progress", !.attempts = @ + 1]

\* A similar task has a solution: its contributor is rewarded, up to a limit a day.
Reuse(t) ==
  /\ task[t].attempts < GuaranteeAfter
  /\ \E i \in DOMAIN kb :
       LET by == kb[i].by
       IN  /\ task' = [task EXCEPT ![t] = [Begun(t) EXCEPT !.solution = kb[i].solution, !.reused = TRUE]]
           /\ AddCredit(by, Granted(PassiveReward, PassiveLimit, Points(by, "passive")), "passive")
  /\ UNCHANGED << call, kb >>

AskAgent(c, u, t) ==
  /\ task[t].attempts < GuaranteeAfter
  /\ task' = [task EXCEPT ![t] = Begun(t)]
  /\ call' = [call EXCEPT ![c] = Waiting("analyze", u, t)]
  /\ UNCHANGED << credits, today, past, kb >>

\* The route of yunchong pays the official assistant before anything is looked up, if
\* no agent of the user is named.
PostAnalyze(c, u, t) ==
  /\ Request /\ Free(c) /\ MayWork(u, t)
  /\ \/ task[t].source = "yunchong" /\ ConsumeOfficial(u)
     \/ UNCHANGED << used, compute, bills >>
  /\ \/ GuaranteedSuccess(u, t) /\ Rewarded(u)
     \/ (Reuse(t) \/ AskAgent(c, u, t)) /\ UNCHANGED given
  /\ UNCHANGED << pool, recent, days, faults, passed >>

\* The agent fails, its answer is risky, or it becomes the solution, whatever the
\* task has become.
AnalyzeAnswered(c) ==
  /\ call[c].at = "analyze"
  /\ call' = [call EXCEPT ![c] = Idle]
  /\ \/ UNCHANGED task
     \/ \E s \in Solutions : task' = [task EXCEPT ![call[c].task].solution = s]
  /\ UNCHANGED << lvars, kb, used, passed, given, bills >>

\* verify_and_complete, up to the model
PostVerify(c, u, t) ==
  /\ Request /\ Free(c) /\ MayWork(u, t)
  /\ task[t].status = "in_progress" /\ task[t].solution # NoSolution
  /\ call' = [call EXCEPT ![c] = Waiting("verify", u, t)]
  /\ UNCHANGED << credits, today, compute, pool, recent, past, days, faults, task, kb, used, passed, given, bills >>

\* Mutant of Verified: the row is read again after the wait.
VerifiedNow(c) == task[call[c].task].solution

\* What was verified is what was read before the wait.
Verified(c) == call[c].solution

\* It failed: the case is recorded, the user comforted.
VerifyFailed(c) ==
  /\ call[c].at = "verify"
  /\ call' = [call EXCEPT ![c] = Idle]
  /\ given' = [given EXCEPT ![call[c].user].comfort = @ + 1]
  /\ UNCHANGED << lvars, task, kb, used, passed, bills >>

\* It passed: the task is rescued whatever it has become meanwhile; what came from
\* the knowledge base does not go back into it.
VerifyPassed(c) ==
  LET t == call[c].task
      u == call[c].user
  IN  /\ call[c].at = "verify"
      /\ call' = [call EXCEPT ![c] = Idle]
      /\ task' = [task EXCEPT ![t].status = "rescued"]
      /\ passed' = passed \cup {<< t, call[c].solution >>}
      /\ IF call[c].reused THEN UNCHANGED kb ELSE Remembered(t, Verified(c), u, 60)
      /\ Rewarded(u)
      /\ UNCHANGED << lvars, used, bills >>

\* reclaim_expired_tasks, in a thread: rows of rescue_tasks only, by their age
Reclaim(t) ==
  /\ task[t].source = "rescue" /\ task[t].status = "in_progress"
  /\ task' = [task EXCEPT ![t].status = "available", ![t].solution = NoSolution, ![t].attempts = 0]
  /\ UNCHANGED << lvars, call, kb, used, passed, given, bills >>

\* Uses of yesterday are forgotten with its date.
NextDay == NewDay /\ used' = [u \in Users |-> 0] /\ UNCHANGED << task, call, kb, passed, given, bills >>

BuyCompute(u, x) == Recharge(u, x) /\ UNCHANGED rvars

-----------------------------------------------------------------------------
RescueInit ==
  /\ Init
  /\ \E u \in Users : task = << NewTask(u, "rescue", 0) >>
  /\ call = [c \in Calls |-> Idle]
  /\ kb = << >> /\ passed = {}
  /\ used = [u \in Users |-> 0]
  /\ given = [u \in Users |-> [pets |-> 0, comfort |-> 0]]
  /\ bills = [u \in Users |-> [free |-> 0, paid |-> 0]]

RescueNext ==
  \/ \E u \in Users : Refresh(u) \/ \E x \in Charges : BuyCompute(u, x)
  \/ \E u \in Users, t \in DOMAIN task : Accept(u, t) \/ Abandon(u, t)
  \/ \E c \in Calls, u \in Users, t \in DOMAIN task : PostAnalyze(c, u, t) \/ PostVerify(c, u, t)
  \/ \E c \in Calls : AnalyzeAnswered(c) \/ VerifyFailed(c) \/ VerifyPassed(c)
  \/ \E t \in DOMAIN task : Reclaim(t)
  \/ NextDay

RescueSpec == RescueInit /\ [][RescueNext]_<< lvars, rvars >>

-----------------------------------------------------------------------------
(* Properties *)

\* Whatever is analysed, abandoned or reclaimed while a verification waits: what the
\* knowledge base holds of a task is the very solution that was verified for it, or
\* the guaranteed one with its low score.
KnowledgeIsVerified ==
  \A i \in DOMAIN kb :
    \/ kb[i].solution = Guarantee /\ kb[i].score < 60
    \/ << kb[i].task, kb[i].solution >> \in passed

\* Reuse and the official assistant are limited by the day: contributors earn no more
\* than the daily limit, free uses stay within the daily number, and every further
\* use was paid in compute.
RationedByDay ==
  \A u \in Users :
    /\ past[u].passive <= PassiveLimit * (days + 1)
    /\ bills[u].free <= FreeDaily * (days + 1)
    /\ compute[u] = past[u].bought - bills[u].paid /\ compute[u] >= 0
=============================================================================
