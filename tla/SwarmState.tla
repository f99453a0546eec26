----------------------------- MODULE SwarmState -----------------------------
(***************************************************************************)
(* The shared state of the SASES swarm: the dictionary _pending of the     *)
(* server process (swarm/memory_cache.py), the table swarm_pending_tasks   *)
(* behind it (swarm/persistence.py), the table supervisor_runs             *)
(* (supervisor/runs.py), and the coroutines that work on them.             *)
(*                                                                         *)
(* The server is one asyncio event loop: a handler runs without            *)
(* interruption from one await to the next.  Every action of the swarm     *)
(* modules is such a segment, and the program counter of a frame names the *)
(* await at which the coroutine is parked.                                 *)
(*                                                                         *)
(* A task's results list is abstracted to what the code asks of it: what   *)
(* its results count as (res) and whether it holds none, one or more       *)
(* (nres).  The outcome of one step is the set of what its result counts   *)
(* as: an answer with an error keyword in it is {"answer", "fail"}.        *)
(*   ok        success of a tool that is none of the following             *)
(*   answer    success of the answer tool                                  *)
(*   patch     success of file_patch, run_python or verify_patch, not core *)
(*   core      success of file_patch on a file under core/                 *)
(*   corefail  failure of file_patch on a file under core/                 *)
(*   fail      any other reason for which the reviewer answers with retry  *)
(*   blocked   a command a client executor refused                         *)
(***************************************************************************)
EXTENDS Integers, Sequences, FiniteSets

CONSTANTS
  Tasks,            \* task ids; an id is free again once nothing refers to it
  Convs,            \* conversations
  Runs,             \* supervisor run ids, numbers handed out in order
  Requests,         \* slots for user requests parked in plan_task
  Clients,          \* slots for [STEP_DONE] messages of client executors
  Plans,            \* step lists a planner may produce: sequences of step ids
  WorkerOutcomes,   \* outcomes the background executor reports
  ClientOutcomes,   \* outcomes a client executor reports
  NoRun,            \* supervisor_run_id of an unsupervised task
  MaxRetry,         \* executor_callback.py: retry_count < 2
  MaxConcurrent,    \* executor_service.MAX_CONCURRENT_TASKS
  MaxRounds,        \* constants.MAX_ROUNDS
  CreditsPerRound,  \* constants.CREDITS_PER_ROUND
  BudgetStop,       \* the literal 16 of check_and_continue
  LoopWindow,       \* the literal 3 of check_and_continue
  NoProgressWindow, \* the literal 5 of check_and_continue
  InitBalance,      \* credits of the user at the start
  StorageFaults,    \* may record_round fail on a locked database
  RoundCap,         \* bound: round counters stop counting here
  MaxRestarts       \* bound: crashes and unasked-for restarts

Kinds == {"ok", "answer", "patch", "core", "corefail", "fail", "blocked"}

ASSUME IdsAssumption ==
  /\ Tasks # {} /\ Convs # {}
  /\ Runs \subseteq Nat /\ IsFiniteSet(Runs) /\ NoRun \notin Runs
  /\ Tasks \cap Clients = {}

ASSUME PlansAssumption ==
  /\ Plans \subseteq Seq(Nat) /\ << >> \notin Plans
  /\ WorkerOutcomes \subseteq SUBSET (Kinds \ {"blocked"})
  /\ ClientOutcomes \subseteq SUBSET Kinds

ASSUME LimitsAssumption ==
  /\ MaxRetry \in Nat /\ MaxConcurrent \in Nat \ {0} /\ MaxRounds \in Nat
  /\ CreditsPerRound \in Nat /\ BudgetStop \in Nat \ {0} /\ InitBalance \in Nat
  /\ LoopWindow \in Nat /\ NoProgressWindow \in Nat
  /\ RoundCap \in Nat /\ MaxRestarts \in Nat /\ StorageFaults \in BOOLEAN

VARIABLES
  pend,     \* keys of _pending
  obj,      \* the task object a key or a handler refers to (Blank: nobody does)
  row,      \* rows of swarm_pending_tasks
  run,      \* rows of supervisor_runs
  balance,  \* users.credits of the user
  signals,  \* places where a restart_signal.txt lies
  frame,    \* coroutines of handle_step_done: one worker per task, and clients
  request,  \* coroutines of requests parked in plan_task
  boot,     \* the coroutine resume_restart_pending_runs
  restarts, \* crashes and unasked-for restarts so far
  replans   \* history: [RETRY_TASK] messages sent for a task since its creation

vars == << pend, obj, row, run, balance, signals, frame, request, boot,
           restarts, replans >>

-----------------------------------------------------------------------------
(* Data *)

StepIds(plan) == {plan[i] : i \in DOMAIN plan}

AllSteps == UNION {StepIds(p) : p \in Plans}

Task == [conv: Convs, run: Runs \cup {NoRun}, plan: Plans \cup {<< >>},
         done: SUBSET AllSteps, res: SUBSET Kinds, nres: 0..2,
         cancelled: BOOLEAN, draft: BOOLEAN, noplan: BOOLEAN, retry: 0..MaxRetry]

TaskStatus == {"pending", "running", "completed", "draft", "cancelled",
               "no_plan", "interrupted"}

Row == [task: Task, status: TaskStatus \cup {"absent"}]

RunStatus == {"proposed", "running", "rejected", "cancelled", "completed",
              "error", "timeout", "interrupted", "restart_pending",
              "running_resumed", "loop_detected", "no_progress",
              "budget_exceeded", "insufficient_credits"}

StopReason == {"none", "loop_detected", "no_progress", "rounds",
               "budget_exceeded", "insufficient_credits"}

\* stop is history: why check_and_continue last refused a round
Run == [status: RunStatus \cup {"unused"}, conv: Convs, round: 0..RoundCap,
        last: {"none", "null", "yes", "no"}, used: Nat, stop: StopReason]

Handlers == Tasks \cup Clients

Awaits == {"replan", "sum", "sumFail", "ansReview", "review", "decide", "plan"}

\* A worker holds a snapshot of its task's steps and the positions still to do
Frame == {f \in [pc: {"idle", "queued", "exec"} \cup Awaits, task: Tasks,
                  plan: Plans \cup {<< >>}, left: SUBSET Nat] : f.left \subseteq DOMAIN f.plan}

Request == [pc: {"idle", "start", "llm"}, conv: Convs, run: Runs \cup {NoRun},
            draft: BOOLEAN]

\* The resumption of parked runs: those left to do, and those achieved, as they were read
Boot == {b \in [pc: {"off", "wait", "next", "llm"}, left: SUBSET Runs,
                achieved: SUBSET Runs, run: Runs \cup {NoRun}] :
           b.pc = "llm" => b.run \in Runs}

SomeConv == CHOOSE c \in Convs : TRUE
SomeTask == CHOOSE t \in Tasks : TRUE

PlannedTask(c, r, plan, draft) ==
  [conv |-> c, run |-> r, plan |-> plan, done |-> {}, res |-> {}, nres |-> 0,
   cancelled |-> FALSE, draft |-> draft, noplan |-> FALSE, retry |-> 0]

\* What plan_task stores when the model's answer holds no steps.
NoPlanTask(c) ==
  [PlannedTask(c, NoRun, << >>, FALSE) EXCEPT !.cancelled = TRUE, !.noplan = TRUE]

\* What plan_task may store: a task for one of the plans, or the no-plan task
NewTasks(c, r, draft) == {PlannedTask(c, r, p, draft) : p \in Plans} \cup {NoPlanTask(c)}

Blank == PlannedTask(SomeConv, NoRun, << >>, FALSE)
NoRow == [task |-> Blank, status |-> "absent"]
NewRun(c, status) ==
  [status |-> status, conv |-> c, round |-> 0, last |-> "none", used |-> 0,
   stop |-> "none"]

IdleFrame(h) == [pc |-> "idle", task |-> IF h \in Tasks THEN h ELSE SomeTask,
                 plan |-> << >>, left |-> {}]
IdleRequest == [pc |-> "idle", conv |-> SomeConv, run |-> NoRun, draft |-> FALSE]
BootOff == [pc |-> "off", left |-> {}, achieved |-> {}, run |-> NoRun]

-----------------------------------------------------------------------------
(* persistence.py *)

\* len(done) >= len(steps), with the duplicates of the step list counted
Finished(o) == Cardinality(o.done) >= Len(o.plan)

DeriveStatus(o) ==
  IF o.cancelled THEN "cancelled"
  ELSE IF o.noplan THEN "no_plan"
  ELSE IF o.draft THEN "draft"
  ELSE IF Finished(o) THEN "completed"
  ELSE IF o.done # {} THEN "running" ELSE "pending"

\* Mutants of Saved: an upsert that forgets a column
SavedNoCancel(o) == [task |-> [o EXCEPT !.cancelled = FALSE], status |-> DeriveStatus(o)]
SavedNoResults(o) == [task |-> [o EXCEPT !.res = {}], status |-> DeriveStatus(o)]

\* _save_pending: the upsert writes every column from the object in memory
Saved(o) == [task |-> o, status |-> DeriveStatus(o)]

Present(t) == row[t].status # "absent"

HasActiveTask(c) ==
  \/ \E t \in pend : /\ obj[t].conv = c
                     /\ ~obj[t].cancelled /\ ~obj[t].noplan /\ ~obj[t].draft
                     /\ ~Finished(obj[t])
  \/ \E t \in Tasks : row[t].task.conv = c /\ row[t].status \in {"pending", "running"}

\* An object nobody refers to is garbage: p the keys, f the frames, o the objects.
Live(o, p, f) ==
  [t \in Tasks |->
     IF t \in p \/ \E h \in Handlers : f[h].task = t /\ f[h].pc \in Awaits
     THEN o[t] ELSE Blank]

\* int(time.time() * 1000) as a task id: unused by any live reference
FreshTasks ==
  {t \in Tasks : /\ t \notin pend /\ ~Present(t)
                 /\ \A h \in Handlers : frame[h].task = t => frame[h].pc = "idle"}

-----------------------------------------------------------------------------
(* runs.py and the verdict of check_and_continue in continuation.py *)

\* finish_run: an unguarded UPDATE; run id None matches no row
FinishRun(r, status) ==
  [x \in Runs |-> IF x = r THEN [run[x] EXCEPT !.status = status] ELSE run[x]]

RecordRound(rec, review) ==
  [rec EXCEPT !.round = IF @ < RoundCap THEN @ + 1 ELSE @, !.last = review]

\* Mutants of GoesOn and OverBudget: no look at the status, a limit that is off by one
GoesOnAlways(rec) == TRUE
OverBudgetLate(rec) == rec.used > BudgetStop

\* Mutant of PurseEmpty: the last credits are spent.
PurseSpent == balance <= 0

\* check_and_continue goes on only with a run that is still running
GoesOn(rec) == rec.status = "running"

RoundsUsedUp(rec) == rec.round >= MaxRounds

OverBudget(rec) == rec.used >= BudgetStop

PurseEmpty == balance < CreditsPerRound

Refuse(rec, reason) ==
  [go |-> FALSE, rec |-> [rec EXCEPT !.status = reason, !.stop = reason], paid |-> 0]

(* Every answer check_and_continue may give for a run record.  Similarity of *)
(* the last plans is the environment's choice once the history is long       *)
(* enough; the round is then recorded and the limits and the purse decide.   *)
Verdicts(rec, review) ==
  LET noted == RecordRound(rec, review)
      limit == IF RoundsUsedUp(noted)
               THEN [go |-> FALSE, rec |-> [noted EXCEPT !.stop = "rounds"], paid |-> 0]
               ELSE IF OverBudget(noted) THEN Refuse(noted, "budget_exceeded")
               ELSE IF PurseEmpty THEN Refuse(noted, "insufficient_credits")
               ELSE [go |-> TRUE, rec |-> [noted EXCEPT !.used = @ + CreditsPerRound],
                     paid |-> CreditsPerRound]
  IN  IF ~GoesOn(rec) THEN {[go |-> FALSE, rec |-> rec, paid |-> 0]}
      ELSE {limit}
           \cup (IF rec.round >= LoopWindow THEN {Refuse(rec, "loop_detected")} ELSE {})
           \cup (IF rec.round >= NoProgressWindow THEN {Refuse(rec, "no_progress")} ELSE {})
=============================================================================
