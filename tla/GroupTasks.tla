----------------------------- MODULE GroupTasks -----------------------------
(***************************************************************************)
(* Tasks of a group (core/services/group_task_service.py and its routes):  *)
(* a member puts up a reward, others submit solutions, the publisher pays  *)
(* one of them or rejects them all, and a card that announces the task is  *)
(* posted again while nobody is paid.                                      *)
(*                                                                         *)
(* A route runs from its first read to its last write without an await.    *)
(* Publication commits the escrow and then the card, so that a failure in  *)
(* between leaves a task without a card.  The cards are posted again by a  *)
(* thread (asyncio.to_thread, bootstrap.py) that reads the open tasks in   *)
(* one connection and writes each card in another.                         *)
(*                                                                         *)
(* expire_overdue_tasks is not a step of the system: nothing calls it.     *)
(* The copy of a paid solution in the knowledge base and the broadcast to  *)
(* other nodes are left out here (HiveSync has the broadcast).             *)
(*                                                                         *)
(* Amounts are whole cents.  The clock counts units of Day to a day.       *)
(***************************************************************************)
EXTENDS Integers, FiniteSets

CONSTANTS
  Users,        \* members of the group
  Pool,         \* the account groups.credits
  Tasks,        \* ids of group_tasks, handed out in order
  Rewards,      \* rewards asked for, some too small
  MinReward,    \* publish_task: at least 10.00
  InitCredits,  \* users.credits at the start
  Day,          \* units of time in a day
  Patience,     \* repush_pending_tasks: the 12 hours, in units
  PublishBy,    \* bound: tasks are published in the first units
  MaxClock,     \* bound on the clock
  MaxFaults     \* bound: failing card inserts and crashes

VARIABLES
  credits,   \* users.credits and groups.credits
  task,      \* group_tasks
  subs,      \* group_task_submissions: who submitted to which task
  cards,     \* tasks with a card among group_messages
  repush,    \* rows the thread has read and not dealt with
  clock,     \* now
  faults     \* failing card inserts and crashes so far

gvars == << credits, task, subs, cards, repush, clock, faults >>

-----------------------------------------------------------------------------
(* Data *)

Accounts == Users \cup {Pool}
Task == [status: {"absent", "open", "done"}, creator: Users, reward: Nat,
         created: Nat, last: Int]

SomeUser == CHOOSE u \in Users : TRUE
NewTask(u, r) == [status |-> "open", creator |-> u, reward |-> r, created |-> clock, last |-> -1]
NoTask == [status |-> "absent", creator |-> SomeUser, reward |-> 0, created |-> 0, last |-> -1]

IsNextTask(t) ==
  task[t].status = "absent" /\ \A s \in Tasks : task[s].status = "absent" => t <= s

\* round(a / b) of two floats: what a half becomes depends on how they are stored
Nearest(a, b) == {(2 * a + b) \div (2 * b), (2 * a + b - 1) \div (2 * b)}

Pay(b, a, x) == [b EXCEPT ![a] = @ + x]

Old(t) == task[t].last # -1 /\ task[t].last < clock - Patience

\* created_at is CURRENT_TIMESTAMP, "2026-01-01 09:00:00"; the threshold is
\* isoformat(), "2026-01-01T21:00:00".  Compared as texts, the same date is
\* earlier whatever the time of day.
CreatedBefore(t, threshold) == task[t].created \div Day <= threshold \div Day

-----------------------------------------------------------------------------
(* publish_task *)

Publishable(u, r) == r >= MinReward /\ credits[u] >= r

\* The insertion of the card is a transaction of its own, after the escrow.
Publish(u, r) ==
  \E t \in Tasks :
    /\ IsNextTask(t) /\ clock <= PublishBy
    /\ Publishable(u, r)
    /\ credits' = Pay(credits, u, -r)
    /\ task' = [task EXCEPT ![t] = NewTask(u, r)]
    /\ \/ cards' = cards \cup {t} /\ UNCHANGED faults
       \/ faults < MaxFaults /\ faults' = faults + 1 /\ UNCHANGED cards
    /\ UNCHANGED << subs, repush, clock >>

-----------------------------------------------------------------------------
(* submit_solution, select_winner, reject_all *)

Submit(t, u) ==
  /\ task[t].status = "open" /\ task[t].creator # u
  /\ u \notin subs[t]
  /\ subs' = [subs EXCEPT ![t] = @ \cup {u}]
  /\ UNCHANGED << credits, task, cards, repush, clock, faults >>

\* Mutant of Judgeable: the status of the task is not looked at.
JudgeableAgain(t, u) == task[t].status # "absent" /\ task[t].creator = u

\* The publisher judges a task that is open.
Judgeable(t, u) == task[t].status = "open" /\ task[t].creator = u

\* 95% to the winner and 5% to the pool, each rounded on its own
SelectWinner(t, u, w) ==
  /\ Judgeable(t, u) /\ w \in subs[t] /\ w # u
  /\ \E x \in Nearest(95 * task[t].reward, 100), y \in Nearest(5 * task[t].reward, 100) :
       credits' = Pay(Pay(credits, w, x), Pool, y)
  /\ task' = [task EXCEPT ![t].status = "done"]
  /\ UNCHANGED << subs, cards, repush, clock, faults >>

\* Half to the publisher and half to the pool, rounded alike
RejectAll(t, u) ==
  /\ Judgeable(t, u)
  /\ \E x \in Nearest(task[t].reward, 2) : credits' = Pay(Pay(credits, u, x), Pool, x)
  /\ task' = [task EXCEPT ![t].status = "done"]
  /\ UNCHANGED << subs, cards, repush, clock, faults >>

-----------------------------------------------------------------------------
(* repush_pending_tasks *)

\* Mutant of Pending: a task whose card was never posted again is not looked at.
PendingSeen(t) == task[t].status = "open" /\ Old(t)

Pending(t) ==
  /\ task[t].status = "open"
  /\ IF task[t].last = -1 THEN clock >= Patience /\ CreatedBefore(t, clock - Patience) ELSE Old(t)

RepushRead ==
  /\ repush = {} /\ \E t \in Tasks : Pending(t)
  /\ repush' = {t \in Tasks : Pending(t)}
  /\ UNCHANGED << credits, task, subs, cards, clock, faults >>

\* The card and the time of the row, in one transaction and whatever the row's state
RepushWrite(t) ==
  /\ t \in repush
  /\ repush' = repush \ {t}
  /\ cards' = cards \cup {t}
  /\ task' = [task EXCEPT ![t].last = clock]
  /\ UNCHANGED << credits, subs, clock, faults >>

\* A card that cannot be written is skipped.
RepushFails(t) ==
  /\ t \in repush /\ faults < MaxFaults
  /\ repush' = repush \ {t} /\ faults' = faults + 1
  /\ UNCHANGED << credits, task, subs, cards, clock >>

\* A restart: the rows the thread had read are forgotten.
Restart ==
  /\ repush # {} /\ faults < MaxFaults
  /\ repush' = {} /\ faults' = faults + 1
  /\ UNCHANGED << credits, task, subs, cards, clock >>

Tick ==
  /\ clock < MaxClock /\ clock' = clock + 1
  /\ UNCHANGED << credits, task, subs, cards, repush, faults >>

-----------------------------------------------------------------------------

Init ==
  /\ credits = [a \in Accounts |-> IF a = Pool THEN 0 ELSE InitCredits]
  /\ task = [t \in Tasks |-> NoTask]
  /\ subs = [t \in Tasks |-> {}]
  /\ cards = {} /\ repush = {}
  /\ clock = 0 /\ faults = 0

\* What the routes let a user ask for
PublishRequest(u) == \E r \in Rewards : Publish(u, r)
TaskRequest(t, u) == Submit(t, u) \/ RejectAll(t, u) \/ \E w \in Users : SelectWinner(t, u, w)

Next ==
  \/ \E u \in Users : PublishRequest(u) \/ \E t \in Tasks : TaskRequest(t, u)
  \/ RepushRead
  \/ \E t \in Tasks : RepushWrite(t) \/ RepushFails(t)
  \/ Restart
  \/ Tick

Spec == Init /\ [][Next]_gvars

\* Time passes and the hourly job runs; no user has to do anything.
Fairness ==
  /\ WF_gvars(Tick) /\ WF_gvars(RepushRead)
  /\ \A t \in Tasks : WF_gvars(RepushWrite(t))

FairSpec == Spec /\ Fairness

-----------------------------------------------------------------------------
(* Properties *)

\* Rows are tasks of members; only published tasks have solutions and cards.
GroupTasksTypeOK ==
  /\ credits \in [Accounts -> Int]
  /\ task \in [Tasks -> Task]
  /\ subs \in [Tasks -> SUBSET Users]
  /\ repush \subseteq Tasks /\ clock \in Nat /\ faults \in 0 .. MaxFaults
  /\ \A t \in Tasks : task[t].status = "absent" => subs[t] = {} /\ t \notin cards \cup repush

\* No member ever owes the system, and neither does the pool.
NobodyOwes == \A a \in Accounts : credits[a] >= 0

Parts(r) == {0, r} \cup Nearest(95 * r, 100) \cup Nearest(5 * r, 100) \cup Nearest(r, 2)

Held(t) ==
  [status |-> CASE task[t].status = "absent" -> "absent"
                [] task[t].status = "open" -> "held"
                [] OTHER -> "settled",
   amount |-> task[t].reward]

Deposits == [t \in Tasks |-> Held(t)]
PartsOfRewards == UNION {Parts(r) : r \in Rewards}

Books == INSTANCE Escrow WITH
  Deposits <- Tasks, Amounts <- PartsOfRewards, Slack <- 1, balance <- credits, deposit <- Deposits

\* A reward is frozen at publication and leaves the escrow once, to a cent, to
\* the winner and the pool or to the publisher and the pool, though the
\* publisher may select and reject in any order and again.
RewardsAreEscrowed == Books!Spec

\* A task whose first card was lost is announced by the hourly job, unless it
\* has been judged by then.
LostCardsAreReposted ==
  \A t \in Tasks : task[t].status = "open" ~> t \in cards \/ task[t].status = "done"

=============================================================================
