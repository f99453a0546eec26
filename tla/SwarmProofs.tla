---------------------------- MODULE SwarmProofs -----------------------------
(***************************************************************************)
(* Proofs about the swarm for every number of tasks, runs, requests and    *)
(* clients, every set of plans and every value of the limits, in three     *)
(* parts.                                                                  *)
(*                                                                         *)
(* 1. Every state is type correct (TypeCorrect).                           *)
(*                                                                         *)
(* 2. Runs.  No work without the user's word: OnlyConfirmedRunsWork is     *)
(* inductive together with TypeOK; the argument has two halves: no step    *)
(* takes an admitted run back to a proposal or a rejection, and every step *)
(* takes the runs of its tasks, rows and requests from admitted ones.      *)
(* Then money: the run a handler reviews is one of Runs (RunsKnown), a     *)
(* step charges at most that run, while it is running, below its limit and *)
(* with the purse full enough (NextCharges), and takes as much out of the  *)
(* purse (OnlyRunningRunsPay, RoundsPaid).                                 *)
(*                                                                         *)
(* 3. Tasks.  Memory and row agree, nobody works on a draft, a task is     *)
(* planned anew at most MaxRetry times, and none of its steps starts after *)
(* it was cancelled.  The invariant TaskInv(t) speaks of one task: its     *)
(* key, object and row, and the coroutines that hold it.  A step touches   *)
(* one task; for all others it is Quiet.  So the proof of preservation has *)
(* one lemma for quiet tasks and one for each way in which a task is       *)
(* touched: created, recorded, planned anew, forgotten, saved again,       *)
(* changed in its row.                                                     *)
(***************************************************************************)
EXTENDS SwarmProperties, SumLemmas

-----------------------------------------------------------------------------
(* Types of the values the actions build *)

\* The positions of a plan are numbers, its steps are among all steps.
LEMMA PlanType ==
  ASSUME NEW p \in Plans \cup {<< >>}
  PROVE  /\ DOMAIN p \subseteq Nat
         /\ \A i \in DOMAIN p : p[i] \in AllSteps
<1>1. CASE p = << >>
  BY <1>1
<1>2. CASE p \in Plans
  <2>1. p \in Seq(Nat)
    BY <1>2, PlansAssumption
  <2>2. \A i \in DOMAIN p : p[i] \in StepIds(p)
    BY DEF StepIds
  <2>3. StepIds(p) \subseteq AllSteps
    BY <1>2 DEF AllSteps
  <2> QED
    BY <2>1, <2>2, <2>3
<1> QED
  BY <1>1, <1>2

\* A fresh task, and the no-plan task, are tasks.
LEMMA NewTaskType ==
  ASSUME NEW c \in Convs, NEW r \in Runs \cup {NoRun}, NEW p \in Plans \cup {<< >>},
         NEW d \in BOOLEAN
  PROVE  PlannedTask(c, r, p, d) \in Task
BY LimitsAssumption DEF PlannedTask, Task

LEMMA NoPlanTaskType ==
  ASSUME NEW c \in Convs
  PROVE  NoPlanTask(c) \in Task
<1>1. PlannedTask(c, NoRun, << >>, FALSE) \in Task
  BY NewTaskType
<1> QED
  BY <1>1 DEF NoPlanTask, Task

LEMMA NewTasksType ==
  ASSUME NEW c \in Convs, NEW r \in Runs \cup {NoRun}, NEW d \in BOOLEAN
  PROVE  NewTasks(c, r, d) \subseteq Task
BY NewTaskType, NoPlanTaskType DEF NewTasks

LEMMA BlankType == Blank \in Task /\ NoRow \in Row
<1>1. SomeConv \in Convs
  BY IdsAssumption DEF SomeConv
<1>2. Blank \in Task
  BY <1>1, NewTaskType DEF Blank
<1> QED
  BY <1>2 DEF NoRow, Row

\* The row a save writes is a row.
LEMMA SavedType ==
  ASSUME NEW o \in Task
  PROVE  Saved(o) \in Row
BY DEF Saved, DeriveStatus, Row, TaskStatus

\* Objects stay tasks when the garbage among them is cleared.
LEMMA LiveType ==
  ASSUME NEW o \in [Tasks -> Task], NEW p, NEW f
  PROVE  Live(o, p, f) \in [Tasks -> Task]
BY BlankType DEF Live

\* A result that is recorded leaves a task.
LEMMA WithResultType ==
  ASSUME NEW o \in Task, NEW s \in AllSteps, NEW outcome \in SUBSET Kinds
  PROVE  WithResult(o, s, outcome) \in Task
<1>1. (IF o.nres < 2 THEN o.nres + 1 ELSE o.nres) \in 0..2
  BY DEF Task
<1>2. o.done \cup {s} \in SUBSET AllSteps /\ o.res \cup outcome \in SUBSET Kinds
  BY DEF Task
<1> QED
  BY <1>1, <1>2 DEF WithResult, Task

LEMMA IdleFrameType ==
  ASSUME NEW h \in Handlers
  PROVE  IdleFrame(h) \in Frame
<1>1. SomeTask \in Tasks
  BY IdsAssumption DEF SomeTask
<1> QED
  BY <1>1 DEF IdleFrame, Frame

\* The three ways in which a handler leaves the loop or waits in it.
LEMMA HandlerFrameType ==
  ASSUME TypeOK, NEW h \in Handlers,
         Return(h) \/ Abort(h) \/ (\E pc \in Awaits : Await(h, pc))
  PROVE  frame' \in [Handlers -> Frame]
<1> USE DEF TypeOK
<1>1. IdleFrame(h) \in Frame
  BY IdleFrameType
<1>2. CASE Abort(h)
  BY <1>1, <1>2 DEF Abort
<1>3. CASE \E pc \in Awaits : Await(h, pc)
  <2>1. \A pc \in Awaits : [frame[h] EXCEPT !.pc = pc] \in Frame
    BY DEF Frame
  <2> QED
    BY <1>3, <2>1 DEF Await
<1>4. CASE Return(h)
  <2>1. ASSUME h \in Tasks
        PROVE  NextStep(h, AfterFirst(frame[h].left)) \in Frame
    <3>1. AfterFirst(frame[h].left) \subseteq frame[h].left
      BY DEF AfterFirst
    <3> QED
      BY <1>1, <3>1 DEF NextStep, Frame
  <2> QED
    BY <1>1, <1>4, <2>1 DEF Return
<1> QED
  BY <1>2, <1>3, <1>4

-----------------------------------------------------------------------------
(* Runs *)

LEMMA FinishRunType ==
  ASSUME TypeOK, NEW r, NEW s \in RunStatus
  PROVE  FinishRun(r, s) \in [Runs -> Run]
BY DEF FinishRun, TypeOK, Run

LEMMA RecordRoundType ==
  ASSUME NEW rec \in Run, NEW review \in {"null", "yes", "no"}
  PROVE  RecordRound(rec, review) \in Run
<1>1. (IF rec.round < RoundCap THEN rec.round + 1 ELSE rec.round) \in 0..RoundCap
  BY LimitsAssumption DEF Run
<1> QED
  BY <1>1 DEF RecordRound, Run

LEMMA RequestRestartType ==
  ASSUME TypeOK, NEW r, RequestRestart(r)
  PROVE  run' \in [Runs -> Run] /\ signals' \subseteq {"core", "root"}
<1>1. \A rec \in Run : [rec EXCEPT !.status = "restart_pending"] \in Run
  BY DEF Run, RunStatus
<1>2. \A x \in Runs : RecordRound(run[x], "yes") \in Run
  BY RecordRoundType DEF TypeOK
<1>3. signals' \subseteq {"core", "root"}
  BY DEF RequestRestart, TypeOK
<1>4. PICK noted \in {TRUE, ~StorageFaults} :
        run' = IF r = NoRun THEN run
               ELSE LET rec == IF noted THEN RecordRound(run[r], "yes") ELSE run[r]
                    IN  [run EXCEPT ![r] = [rec EXCEPT !.status = "restart_pending"]]
  BY DEF RequestRestart
<1>5. CASE r \in Runs
  <2>1. (IF noted THEN RecordRound(run[r], "yes") ELSE run[r]) \in Run
    BY <1>2, <1>5 DEF TypeOK
  <2> QED
    BY <1>1, <1>3, <1>4, <2>1 DEF TypeOK
<1>6. CASE r \notin Runs
  BY <1>3, <1>4, <1>6 DEF TypeOK
<1> QED
  BY <1>5, <1>6

\* Whatever check_and_continue answers, it leaves a run and a price.
LEMMA VerdictType ==
  ASSUME NEW rec \in Run, NEW review \in {"null", "yes", "no"}, NEW v \in Verdicts(rec, review)
  PROVE  v.rec \in Run /\ v.paid \in Nat
<1> DEFINE noted == RecordRound(rec, review)
<1>1. noted \in Run
  BY RecordRoundType
<1>2. \A x \in Run, reason \in StopReason \ {"none", "rounds"} :
        Refuse(x, reason).rec \in Run /\ Refuse(x, reason).paid \in Nat
  BY DEF Refuse, Run, RunStatus, StopReason
<1>3. [noted EXCEPT !.stop = "rounds"] \in Run
  BY <1>1 DEF Run, StopReason
<1>4. [noted EXCEPT !.used = @ + CreditsPerRound] \in Run
  BY <1>1, LimitsAssumption DEF Run
<1> QED
  BY <1>1, <1>2, <1>3, <1>4, LimitsAssumption DEF Verdicts, StopReason

-----------------------------------------------------------------------------
(* The executor's and the handler's steps keep the types *)

LEMMA ObjectsType ==
  ASSUME NEW o \in [Tasks -> Task], Sweep(o)
  PROVE  obj' \in [Tasks -> Task]
BY LiveType DEF Sweep

LEMMA CreateType ==
  ASSUME TypeOK, NEW t \in Tasks, NEW task \in Task, Create(t, task)
  PROVE  pend' \subseteq Tasks /\ row' \in [Tasks -> Row] /\ replans' \in [Tasks -> Nat]
BY SavedType DEF Create, TypeOK

LEMMA ScanType ==
  ASSUME TypeOK, Scan
  PROVE  TypeOK'
<1>1. \A h \in Tasks : [pc |-> "queued", task |-> h, plan |-> row[h].task.plan,
                        left |-> Undone(h)] \in Frame
  <2> SUFFICES ASSUME NEW h \in Tasks
               PROVE  [pc |-> "queued", task |-> h, plan |-> row[h].task.plan,
                       left |-> Undone(h)] \in Frame
    OBVIOUS
  <2>1. row[h].task.plan \in Plans \cup {<< >>}
    BY DEF TypeOK, Row, Task
  <2>2. Undone(h) \subseteq DOMAIN row[h].task.plan
    BY DEF Undone
  <2> QED
    BY <2>1, <2>2, PlanType DEF Frame
<1>2. frame' \in [Handlers -> Frame]
  BY <1>1 DEF Scan, TypeOK
<1> QED
  BY <1>2 DEF Scan, TypeOK

LEMMA StartType ==
  ASSUME TypeOK, NEW t \in Tasks, Start(t)
  PROVE  TypeOK'
<1>1. row' \in [Tasks -> Row]
  <2>1. [row[t] EXCEPT !.status = "completed"] \in Row
    BY DEF TypeOK, Row, TaskStatus
  <2> QED
    BY <2>1 DEF Start, TypeOK
<1>2. t \in Handlers
  BY DEF Handlers
<1>3. NextStep(t, frame[t].left) \in Frame
  BY <1>2, IdleFrameType DEF NextStep, TypeOK, Frame
<1>4. frame' \in [Handlers -> Frame]
  BY <1>2, <1>3 DEF Start, TypeOK
<1> QED
  BY <1>1, <1>4 DEF Start, TypeOK

\* What handle_step_done does with a result, whoever reports it
LEMMA HandleStepDoneType ==
  ASSUME TypeOK, NEW h \in Handlers, NEW t \in Tasks, NEW s \in AllSteps,
         NEW outcome \in SUBSET Kinds, HandleStepDone(h, t, s, outcome),
         UNCHANGED << balance, request, boot, restarts >>
  PROVE  TypeOK'
<1>1. CASE ResultDropped(h, t)
  BY <1>1, HandlerFrameType DEF ResultDropped, TypeOK
<1>2. CASE ResultOfCancelled(h, t)
  <2>1. obj' \in [Tasks -> Task]
    BY <1>2, ObjectsType DEF ResultOfCancelled, TypeOK
  <2>2. frame' \in [Handlers -> Frame]
    BY <1>2, HandlerFrameType DEF ResultOfCancelled
  <2>3. row' \in [Tasks -> Row] /\ pend' \subseteq Tasks
    BY <1>2, BlankType DEF ResultOfCancelled, TypeOK
  <2> QED
    BY <1>2, <2>1, <2>2, <2>3 DEF ResultOfCancelled, TypeOK
<1>3. CASE ResultRecorded(h, t, s, outcome)
  <2> DEFINE new == WithResult(Current(t), s, outcome)
             retry == [new EXCEPT !.retry = @ + 1]
  <2>1. Current(t) \in Task
    BY DEF Current, TypeOK, Row
  <2>2. new \in Task
    BY <2>1, WithResultType
  <2>3. RetryAllowed(new) => retry \in Task
    <3>1. new.retry < MaxRetry => new.retry + 1 \in 0..MaxRetry
      BY <2>2, LimitsAssumption DEF Task
    <3> QED
      BY <2>2, <3>1 DEF RetryAllowed, Task
  <2>4. pend' \subseteq Tasks /\ row' \in [Tasks -> Row] /\ replans' \in [Tasks -> Nat]
    BY <1>3, <2>2, SavedType DEF ResultRecorded, TypeOK
  <2> HIDE DEF new, retry
  <2>5. ASSUME NEW o \in Task, Sweep([obj EXCEPT ![t] = o])
        PROVE  obj' \in [Tasks -> Task]
    BY <2>5, ObjectsType DEF TypeOK
  <2>6. ASSUME NEW pc \in Awaits, frame' = [frame EXCEPT ![h].pc = pc, ![h].task = t]
        PROVE  frame' \in [Handlers -> Frame]
    <3>1. [frame[h] EXCEPT !.pc = pc] \in Frame
      BY DEF TypeOK, Frame
    <3>2. [[frame[h] EXCEPT !.pc = pc] EXCEPT !.task = t] \in Frame
      BY <3>1 DEF Frame
    <3> QED
      BY <2>6, <3>2 DEF TypeOK
  <2> QED
    BY <1>3, <2>2, <2>3, <2>4, <2>5, <2>6, HandlerFrameType, RequestRestartType
    DEF ResultRecorded, TypeOK, new, retry, Awaits
<1> QED
  BY <1>1, <1>2, <1>3 DEF HandleStepDone

LEMMA StepDoneType ==
  ASSUME TypeOK, NEW t \in Tasks, StepDone(t)
  PROVE  TypeOK'
<1>1. PICK i \in frame[t].left, outcome \in WorkerOutcomes :
        HandleStepDone(t, t, frame[t].plan[i], outcome)
  BY DEF StepDone
<1>2. t \in Handlers
  BY DEF Handlers
<1>3. frame[t].plan[i] \in AllSteps
  <2>1. frame[t] \in Frame
    BY <1>2 DEF TypeOK
  <2>2. frame[t].plan \in Plans \cup {<< >>} /\ i \in DOMAIN frame[t].plan
    BY <1>1, <2>1 DEF Frame
  <2> QED
    BY <2>2, PlanType
<1>4. outcome \in SUBSET Kinds
  BY PlansAssumption
<1> QED
  BY <1>1, <1>2, <1>3, <1>4, HandleStepDoneType DEF StepDone

LEMMA ClientReportType ==
  ASSUME TypeOK, NEW c \in Clients, NEW t \in Tasks, ClientReport(c, t)
  PROVE  TypeOK'
<1>1. PICK s \in StepIds(Current(t).plan), outcome \in ClientOutcomes :
        HandleStepDone(c, t, s, outcome)
  BY DEF ClientReport
<1>2. c \in Handlers /\ outcome \in SUBSET Kinds
  BY PlansAssumption DEF Handlers
<1>3. Current(t).plan \in Plans \cup {<< >>}
  BY DEF Current, TypeOK, Row, Task
<1>4. s \in AllSteps
  BY <1>3, PlanType DEF StepIds
<1> QED
  BY <1>1, <1>2, <1>4, HandleStepDoneType DEF ClientReport

LEMMA ReplannedType ==
  ASSUME TypeOK, NEW h \in Handlers, Replanned(h)
  PROVE  TypeOK'
<1> DEFINE t == frame[h].task
<1>1. t \in Tasks
  BY DEF TypeOK, Frame
<1>2. CASE Await(h, "sumFail") /\ UNCHANGED << obj, row, replans >>
  BY <1>2, HandlerFrameType DEF Replanned, TypeOK, Awaits
<1>3. ASSUME NEW p \in Plans,
             row' = [row EXCEPT ![t] =
                       Saved([obj[t] EXCEPT !.plan = p, !.done = {}, !.res = {}, !.nres = 0])],
             replans' = [replans EXCEPT ![t] = @ + 1],
             Return(h),
             Sweep([obj EXCEPT ![t] =
                      [obj[t] EXCEPT !.plan = p, !.done = {}, !.res = {}, !.nres = 0]])
      PROVE  TypeOK'
  <2> DEFINE new == [obj[t] EXCEPT !.plan = p, !.done = {}, !.res = {}, !.nres = 0]
  <2>1. new \in Task
    <3>1. obj[t] \in Task /\ 0 \in 0..2
      BY <1>1 DEF TypeOK
    <3> QED
      BY <3>1 DEF Task
  <2>2. Saved(new) \in Row
    BY <2>1, SavedType
  <2> HIDE DEF new
  <2>3. row' \in [Tasks -> Row] /\ replans' \in [Tasks -> Nat]
    <3>1. row' = [row EXCEPT ![t] = Saved(new)]
      BY <1>3 DEF new
    <3>2. row' \in [Tasks -> Row]
      BY <2>2, <3>1 DEF TypeOK
    <3>3. replans' \in [Tasks -> Nat]
      BY <1>1, <1>3 DEF TypeOK
    <3> QED
      BY <3>2, <3>3
  <2>4. [obj EXCEPT ![t] = new] \in [Tasks -> Task]
    BY <2>1 DEF TypeOK
  <2>5. obj' \in [Tasks -> Task]
    BY <1>3, <2>4, ObjectsType DEF new
  <2>6. frame' \in [Handlers -> Frame]
    BY <1>3, HandlerFrameType
  <2> QED
    BY <2>3, <2>5, <2>6 DEF Replanned, TypeOK
<1> QED
  BY <1>2, <1>3 DEF Replanned

LEMMA FailureSummedType ==
  ASSUME TypeOK, NEW h \in Handlers, FailureSummed(h)
  PROVE  TypeOK'
<1>1. pend' \subseteq Tasks /\ row' \in [Tasks -> Row]
  BY BlankType DEF FailureSummed, TypeOK
<1>2. frame' \in [Handlers -> Frame]
  BY HandlerFrameType DEF FailureSummed
<1>3. obj' \in [Tasks -> Task]
  BY ObjectsType DEF FailureSummed, TypeOK
<1> QED
  BY <1>1, <1>2, <1>3 DEF FailureSummed, TypeOK

LEMMA CloseRoundType ==
  ASSUME TypeOK, NEW h \in Handlers, CloseRound(h)
  PROVE  /\ run' \in [Runs -> Run] /\ signals' \subseteq {"core", "root"}
         /\ frame' \in [Handlers -> Frame]
<1>1. frame' \in [Handlers -> Frame]
  BY HandlerFrameType DEF CloseRound, Awaits
<1>2. \A r : FinishRun(r, "completed") \in [Runs -> Run]
  BY FinishRunType DEF RunStatus
<1>3. run' \in [Runs -> Run] /\ signals' \subseteq {"core", "root"}
  BY <1>2, RequestRestartType DEF CloseRound, TypeOK
<1> QED
  BY <1>1, <1>3

LEMMA SummedType ==
  ASSUME TypeOK, NEW h \in Handlers, Summed(h)
  PROVE  TypeOK'
<1>1. pend' \subseteq Tasks /\ row' \in [Tasks -> Row]
  BY BlankType DEF Summed, TypeOK
<1>2. obj' \in [Tasks -> Task]
  BY ObjectsType DEF Summed, TypeOK
<1>3. /\ run' \in [Runs -> Run] /\ signals' \subseteq {"core", "root"}
      /\ frame' \in [Handlers -> Frame]
  BY HandlerFrameType, CloseRoundType DEF Summed, TypeOK, Awaits
<1> QED
  BY <1>1, <1>2, <1>3 DEF Summed, TypeOK

LEMMA AnswerReviewedType ==
  ASSUME TypeOK, NEW h \in Handlers, AnswerReviewed(h)
  PROVE  TypeOK'
<1>1. obj' \in [Tasks -> Task]
  BY ObjectsType DEF AnswerReviewed, TypeOK
<1>2. ASSUME NEW review \in {"yes", "null", "error"},
             run' = IF RunOf(h) = NoRun THEN run
                    ELSE LET rec == IF review = "error" THEN run[RunOf(h)]
                                    ELSE RecordRound(run[RunOf(h)], review)
                         IN  [run EXCEPT ![RunOf(h)] = [rec EXCEPT !.status = "completed"]]
      PROVE  run' \in [Runs -> Run]
  <2>1. CASE RunOf(h) \in Runs
    <3> DEFINE rec == IF review = "error" THEN run[RunOf(h)]
                      ELSE RecordRound(run[RunOf(h)], review)
    <3>1. rec \in Run
      BY <2>1, RecordRoundType DEF TypeOK
    <3>2. [rec EXCEPT !.status = "completed"] \in Run
      BY <3>1 DEF Run, RunStatus
    <3> HIDE DEF rec
    <3> QED
      BY <1>2, <2>1, <3>2 DEF TypeOK, rec
  <2>2. CASE RunOf(h) \notin Runs
    BY <1>2, <2>2 DEF TypeOK
  <2> QED
    BY <2>1, <2>2
<1>3. /\ run' \in [Runs -> Run] /\ signals' \subseteq {"core", "root"}
      /\ frame' \in [Handlers -> Frame]
  BY <1>2, HandlerFrameType, CloseRoundType DEF AnswerReviewed, TypeOK
<1> QED
  BY <1>1, <1>3 DEF AnswerReviewed, TypeOK

LEMMA EnterPlanType ==
  ASSUME TypeOK, NEW h \in Handlers, EnterPlan(h)
  PROVE  frame' \in [Handlers -> Frame]
BY HandlerFrameType DEF EnterPlan, Awaits

LEMMA ReviewedType ==
  ASSUME TypeOK, NEW h \in Handlers, Reviewed(h)
  PROVE  TypeOK'
<1> DEFINE r == RunOf(h)
           Rec(review, noted) == IF review # "null" /\ noted
                                 THEN RecordRound(run[r], review) ELSE run[r]
<1>1. obj' \in [Tasks -> Task]
  BY ObjectsType DEF Reviewed, TypeOK
<1>2. frame' \in [Handlers -> Frame]
  BY HandlerFrameType, EnterPlanType DEF Reviewed, Awaits
<1>3. ASSUME NEW review \in {"yes", "no", "null"}, NEW noted \in BOOLEAN
      PROVE  r \in Runs => Rec(review, noted) \in Run
  BY RecordRoundType DEF TypeOK
<1>4. ASSUME NEW review \in {"yes", "no", "null"}, NEW noted \in BOOLEAN,
             NEW v \in Verdicts(Rec(review, noted), review),
             balance' = balance - v.paid,
             \/ run' = [run EXCEPT ![r] = [v.rec EXCEPT !.status = "completed"]]
             \/ run' = [run EXCEPT ![r] = v.rec]
      PROVE  run' \in [Runs -> Run] /\ balance' \in Int
  <2>1. CASE r \in Runs
    <3>1. v.rec \in Run /\ v.paid \in Nat
      BY <1>3, <2>1, VerdictType
    <3>2. [v.rec EXCEPT !.status = "completed"] \in Run
      BY <3>1 DEF Run, RunStatus
    <3> QED
      BY <1>4, <3>1, <3>2 DEF TypeOK
  <2>2. CASE r \notin Runs
    <3>1. v.paid \in Nat
      BY LimitsAssumption DEF Verdicts, Refuse
    <3> QED
      BY <1>4, <2>2, <3>1 DEF TypeOK
  <2> QED
    BY <2>1, <2>2
<1>5. ASSUME NEW rec \in {run[r]} \cup {RecordRound(run[r], review) : review \in {"yes", "no"}},
             run' = [run EXCEPT ![r] = [rec EXCEPT !.status = "error"]]
      PROVE  run' \in [Runs -> Run]
  <2>1. CASE r \in Runs
    <3>1. rec \in Run
      BY <1>5, <2>1, RecordRoundType DEF TypeOK
    <3>2. [rec EXCEPT !.status = "error"] \in Run
      BY <3>1 DEF Run, RunStatus
    <3> QED
      BY <1>5, <3>2 DEF TypeOK
  <2>2. CASE r \notin Runs
    BY <1>5, <2>2 DEF TypeOK
  <2> QED
    BY <2>1, <2>2
<1>6. run' \in [Runs -> Run] /\ balance' \in Int
  BY <1>4, <1>5, LimitsAssumption DEF Reviewed, TypeOK
<1> QED
  BY <1>1, <1>2, <1>6 DEF Reviewed, TypeOK

LEMMA DecidedType ==
  ASSUME TypeOK, NEW h \in Handlers, Decided(h)
  PROVE  TypeOK'
<1>1. obj' \in [Tasks -> Task]
  BY ObjectsType DEF Decided, TypeOK
<1>2. frame' \in [Handlers -> Frame]
  BY HandlerFrameType, EnterPlanType DEF Decided
<1>3. run' \in [Runs -> Run]
  BY FinishRunType DEF Decided, TypeOK, RunStatus
<1> QED
  BY <1>1, <1>2, <1>3 DEF Decided, TypeOK

LEMMA RoundPlannedType ==
  ASSUME TypeOK, NEW h \in Handlers, RoundPlanned(h)
  PROVE  TypeOK'
<1> DEFINE o == obj[frame[h].task]
<1>1. frame[h].task \in Tasks
  BY DEF TypeOK, Frame
<1>2. o.conv \in Convs /\ o.run \in Runs \cup {NoRun}
  BY <1>1 DEF TypeOK, Task
<1>3. frame' \in [Handlers -> Frame]
  BY HandlerFrameType DEF RoundPlanned
<1>4. CASE PlanFails /\ Sweep(obj)
           /\ run' \in {run, FinishRun(o.run, "completed"), FinishRun(o.run, "error")}
  <2>1. run' \in [Runs -> Run]
    BY <1>4, FinishRunType DEF RunStatus, TypeOK
  <2>2. obj' \in [Tasks -> Task]
    BY <1>4, ObjectsType DEF TypeOK
  <2> QED
    BY <1>3, <1>4, <2>1, <2>2 DEF RoundPlanned, PlanFails, TypeOK
<1>5. ASSUME NEW t \in FreshTasks, NEW task \in NewTasks(o.conv, o.run, FALSE),
             Create(t, task), Sweep([obj EXCEPT ![t] = task]), UNCHANGED run
      PROVE  TypeOK'
  <2>1. t \in Tasks /\ task \in Task
    BY <1>2, NewTasksType DEF FreshTasks
  <2>2. pend' \subseteq Tasks /\ row' \in [Tasks -> Row] /\ replans' \in [Tasks -> Nat]
    BY <1>5, <2>1, CreateType
  <2>3. obj' \in [Tasks -> Task]
    BY <1>5, <2>1, ObjectsType DEF TypeOK
  <2> QED
    BY <1>3, <1>5, <2>2, <2>3 DEF RoundPlanned, TypeOK
<1> QED
  BY <1>4, <1>5 DEF RoundPlanned

-----------------------------------------------------------------------------
(* The requests and the restarts keep the types *)

LEMMA EnterType ==
  ASSUME TypeOK, NEW q \in Requests, NEW c \in Convs, NEW r \in Runs \cup {NoRun},
         NEW draft \in BOOLEAN, Enter(q, c, r, draft)
  PROVE  request' \in [Requests -> Request]
<1>1. IdleRequest \in Request
  BY IdsAssumption DEF IdleRequest, Request, SomeConv
<1> QED
  BY <1>1 DEF Enter, TypeOK, Request

LEMMA PlanRequestType ==
  ASSUME TypeOK, NEW q \in Requests, NEW c \in Convs, PlanRequest(q, c)
  PROVE  TypeOK'
<1>1. request' \in [Requests -> Request]
  BY EnterType DEF PlanRequest
<1> QED
  BY <1>1 DEF PlanRequest, TypeOK

LEMMA NewRunType ==
  ASSUME NEW c \in Convs, NEW s \in RunStatus
  PROVE  NewRun(c, s) \in Run
BY LimitsAssumption DEF NewRun, Run, StopReason

LEMMA AutoRunType ==
  ASSUME TypeOK, NEW q \in Requests, NEW c \in Convs, AutoRun(q, c)
  PROVE  TypeOK'
<1>1. PICK new \in Runs :
        /\ run' = [r \in Runs |-> IF r = new THEN NewRun(c, "running")
                                  ELSE IF IsNewest(r, Active)
                                  THEN [run[r] EXCEPT !.status = "timeout"]
                                  ELSE run[r]]
        /\ Enter(q, c, new, FALSE)
  BY DEF AutoRun
<1>2. NewRun(c, "running") \in Run
  BY NewRunType DEF RunStatus
<1>3. \A r \in Runs : [run[r] EXCEPT !.status = "timeout"] \in Run
  BY DEF TypeOK, Run, RunStatus
<1>4. run' \in [Runs -> Run]
  BY <1>1, <1>2, <1>3 DEF TypeOK
<1>5. request' \in [Requests -> Request]
  BY <1>1, EnterType
<1> QED
  BY <1>4, <1>5 DEF AutoRun, TypeOK

LEMMA ProposeType ==
  ASSUME TypeOK, NEW c \in Convs, Propose(c)
  PROVE  TypeOK'
<1>1. NewRun(c, "proposed") \in Run
  BY NewRunType DEF RunStatus
<1>2. run' \in [Runs -> Run]
  BY <1>1 DEF Propose, TypeOK
<1> QED
  BY <1>2 DEF Propose, TypeOK

LEMMA ConfirmType ==
  ASSUME TypeOK, NEW q \in Requests, NEW r \in Runs, Confirm(q, r)
  PROVE  TypeOK'
<1>1. run' \in [Runs -> Run]
  BY FinishRunType DEF Confirm, ConfirmRun, RunStatus
<1>2. run[r].conv \in Convs
  BY DEF TypeOK, Run
<1>3. request' \in [Requests -> Request]
  BY <1>2 DEF Confirm, TypeOK, Request
<1> QED
  BY <1>1, <1>3 DEF Confirm, TypeOK

LEMMA StartPlanType ==
  ASSUME TypeOK, NEW q \in Requests, StartPlan(q)
  PROVE  TypeOK'
<1>1. request[q].conv \in Convs /\ request[q].run \in Runs \cup {NoRun}
  BY DEF TypeOK, Request
<1>2. request' \in [Requests -> Request]
  BY <1>1, EnterType DEF StartPlan
<1> QED
  BY <1>2 DEF StartPlan, TypeOK

\* A model's answer outside a handler: a task is created, or nothing is.
LEMMA PlanAnswerType ==
  ASSUME TypeOK, NEW c \in Convs, NEW r \in Runs \cup {NoRun}, NEW draft \in BOOLEAN,
         \/ \E t \in FreshTasks : \E task \in NewTasks(c, r, draft) :
              Create(t, task) /\ Sweep([obj EXCEPT ![t] = task])
         \/ PlanFails /\ Sweep(obj)
  PROVE  /\ pend' \subseteq Tasks /\ row' \in [Tasks -> Row]
         /\ replans' \in [Tasks -> Nat] /\ obj' \in [Tasks -> Task]
<1>1. CASE PlanFails /\ Sweep(obj)
  BY <1>1, ObjectsType DEF PlanFails, TypeOK
<1>2. ASSUME NEW t \in FreshTasks, NEW task \in NewTasks(c, r, draft),
             Create(t, task), Sweep([obj EXCEPT ![t] = task])
      PROVE  /\ pend' \subseteq Tasks /\ row' \in [Tasks -> Row]
             /\ replans' \in [Tasks -> Nat] /\ obj' \in [Tasks -> Task]
  <2>1. t \in Tasks /\ task \in Task
    BY NewTasksType DEF FreshTasks
  <2> QED
    BY <1>2, <2>1, CreateType, ObjectsType DEF TypeOK
<1> QED
  BY <1>1, <1>2

LEMMA PlannedType ==
  ASSUME TypeOK, NEW q \in Requests, Planned(q)
  PROVE  TypeOK'
<1>1. /\ request[q].conv \in Convs /\ request[q].run \in Runs \cup {NoRun}
      /\ request[q].draft \in BOOLEAN
  BY DEF TypeOK, Request
<1>2. /\ pend' \subseteq Tasks /\ row' \in [Tasks -> Row]
      /\ replans' \in [Tasks -> Nat] /\ obj' \in [Tasks -> Task]
  BY <1>1, PlanAnswerType DEF Planned
<1>3. request' \in [Requests -> Request]
  BY IdsAssumption DEF Planned, TypeOK, IdleRequest, Request, SomeConv
<1> QED
  BY <1>2, <1>3 DEF Planned, TypeOK

LEMMA ConfirmDraftType ==
  ASSUME TypeOK, NEW t \in Tasks, ConfirmDraft(t)
  PROVE  TypeOK'
<1>1. PICK p \in Plans :
        /\ obj' = [obj EXCEPT ![t] = [obj[t] EXCEPT !.plan = p, !.draft = FALSE]]
        /\ row' = [row EXCEPT ![t] = Saved([obj[t] EXCEPT !.plan = p, !.draft = FALSE])]
  BY DEF ConfirmDraft
<1>2. [obj[t] EXCEPT !.plan = p, !.draft = FALSE] \in Task
  <2>1. obj[t] \in Task
    BY DEF TypeOK
  <2> QED
    BY <2>1 DEF Task
<1>3. Saved([obj[t] EXCEPT !.plan = p, !.draft = FALSE]) \in Row
  BY <1>2, SavedType
<1> QED
  BY <1>1, <1>2, <1>3 DEF ConfirmDraft, TypeOK

LEMMA CancelTaskType ==
  ASSUME TypeOK, NEW t \in Tasks, CancelTask(t)
  PROVE  TypeOK'
<1>1. CASE obj[t].noplan
  <2>1. obj' \in [Tasks -> Task]
    BY <1>1, ObjectsType DEF CancelTask, TypeOK
  <2> QED
    BY <1>1, <2>1, BlankType DEF CancelTask, TypeOK
<1>2. CASE ~obj[t].noplan
  <2>1. [obj[t] EXCEPT !.cancelled = TRUE] \in Task
    BY DEF TypeOK, Task
  <2>2. Saved([obj[t] EXCEPT !.cancelled = TRUE]) \in Row
    BY <2>1, SavedType
  <2> QED
    BY <1>2, <2>1, <2>2 DEF CancelTask, TypeOK
<1> QED
  BY <1>1, <1>2

LEMMA FeedbackType ==
  ASSUME TypeOK, NEW t \in Tasks, Feedback(t)
  PROVE  TypeOK'
<1>1. [obj EXCEPT ![t].cancelled = TRUE] \in [Tasks -> Task]
  BY DEF TypeOK, Task
<1>2. obj' \in [Tasks -> Task]
  BY <1>1, ObjectsType DEF Feedback
<1> QED
  BY <1>2, BlankType DEF Feedback, TypeOK

LEMMA RejectType ==
  ASSUME TypeOK, NEW r \in Runs, Reject(r)
  PROVE  TypeOK'
<1>1. run' \in [Runs -> Run]
  BY FinishRunType DEF Reject, RejectRun, RunStatus
<1> QED
  BY <1>1 DEF Reject, TypeOK

LEMMA CancelRunType ==
  ASSUME TypeOK, NEW r \in Runs, CancelRun(r)
  PROVE  TypeOK'
<1>1. run' \in [Runs -> Run]
  BY FinishRunType DEF CancelRun, TypeOK, RunStatus
<1>2. \A t \in Tasks : [task |-> [row[t].task EXCEPT !.cancelled = TRUE],
                        status |-> "cancelled"] \in Row
  <2>1. \A o \in Task : [o EXCEPT !.cancelled = TRUE] \in Task
    BY DEF Task
  <2>2. \A t \in Tasks : row[t].task \in Task
    BY DEF TypeOK, Row
  <2> QED
    BY <2>1, <2>2 DEF Row, TaskStatus
<1>3. row' \in [Tasks -> Row]
  BY <1>2 DEF CancelRun, TypeOK
<1> QED
  BY <1>1, <1>3 DEF CancelRun, TypeOK

LEMMA CleanupType ==
  ASSUME TypeOK, NEW t \in Tasks, Cleanup(t)
  PROVE  TypeOK'
BY BlankType DEF Cleanup, TypeOK

LEMMA RestartType ==
  ASSUME TypeOK, Restart
  PROVE  TypeOK'
<1>1. \A r \in Runs : [run[r] EXCEPT !.status = "interrupted"] \in Run
  BY DEF TypeOK, Run, RunStatus
<1>2. run' \in [Runs -> Run]
  BY <1>1 DEF Restart, TypeOK
<1>3. \A t \in Tasks : [row[t] EXCEPT !.status = "interrupted"] \in Row
  BY DEF TypeOK, Row, TaskStatus
<1>4. row' \in [Tasks -> Row]
  BY <1>3 DEF Restart, TypeOK
<1>5. obj' \in [Tasks -> Task]
  BY BlankType DEF Restart, TypeOK, Row
<1>6. frame' \in [Handlers -> Frame]
  BY IdleFrameType DEF Restart
<1>7. request' \in [Requests -> Request]
  BY IdsAssumption DEF Restart, IdleRequest, Request, SomeConv
<1>8. boot' \in Boot
  BY DEF Restart, BootOff, Boot
<1>9. restarts' \in Nat /\ signals' \subseteq {"core", "root"} /\ pend' \subseteq Tasks
  BY DEF Restart, TypeOK
<1> QED
  BY <1>2, <1>4, <1>5, <1>6, <1>7, <1>8, <1>9 DEF Restart, TypeOK

LEMMA ResumeReadType ==
  ASSUME TypeOK, ResumeRead
  PROVE  TypeOK'
BY DEF ResumeRead, BootOff, TypeOK, Boot

LEMMA ResumeNextType ==
  ASSUME TypeOK, ResumeNext
  PROVE  TypeOK'
<1>1. CASE boot' = BootOff /\ UNCHANGED run
  <2>1. boot' \in Boot
    BY <1>1 DEF BootOff, Boot
  <2> QED
    BY <1>1, <2>1 DEF ResumeNext, TypeOK
<1>2. ASSUME NEW r \in boot.left,
             \/ run' = FinishRun(r, "completed")
             \/ run' = FinishRun(r, "running_resumed"),
             \/ boot' = [boot EXCEPT !.left = @ \ {r}]
             \/ boot' = [[boot EXCEPT !.left = @ \ {r}] EXCEPT !.pc = "llm", !.run = r]
      PROVE  TypeOK'
  <2>1. run' \in [Runs -> Run]
    BY <1>2, FinishRunType DEF RunStatus
  <2>2. boot \in Boot /\ r \in Runs
    BY DEF TypeOK, Boot
  <2>3. boot.left \ {r} \in SUBSET Runs
    BY <2>2 DEF Boot
  <2>4. boot' \in Boot
    BY <1>2, <2>2, <2>3 DEF Boot
  <2> QED
    BY <2>1, <2>4 DEF ResumeNext, TypeOK
<1> QED
  BY <1>1, <1>2 DEF ResumeNext

LEMMA ResumePlannedType ==
  ASSUME TypeOK, ResumePlanned
  PROVE  TypeOK'
<1>1. boot' \in Boot
  BY DEF ResumePlanned, TypeOK, Boot
<1>2. CASE PlanFails /\ Sweep(obj)
  <2>1. obj' \in [Tasks -> Task]
    BY <1>2, ObjectsType DEF TypeOK
  <2> QED
    BY <1>1, <1>2, <2>1 DEF ResumePlanned, PlanFails, TypeOK
<1>3. ASSUME NEW t \in FreshTasks, NEW task \in NewTasks(run[boot.run].conv, boot.run, FALSE),
             Create(t, task), Sweep([obj EXCEPT ![t] = task])
      PROVE  TypeOK'
  <2>1. boot.run \in Runs
    BY DEF ResumePlanned, TypeOK, Boot
  <2>2. run[boot.run].conv \in Convs
    BY <2>1 DEF TypeOK, Run
  <2>3. t \in Tasks /\ task \in Task
    BY <2>1, <2>2, NewTasksType DEF FreshTasks
  <2>4. pend' \subseteq Tasks /\ row' \in [Tasks -> Row] /\ replans' \in [Tasks -> Nat]
    BY <1>3, <2>3, CreateType
  <2>5. obj' \in [Tasks -> Task]
    BY <1>3, <2>3, ObjectsType DEF TypeOK
  <2> QED
    BY <1>1, <2>4, <2>5 DEF ResumePlanned, TypeOK
<1> QED
  BY <1>2, <1>3 DEF ResumePlanned

-----------------------------------------------------------------------------
(* Type correctness *)

LEMMA InitType == Init => TypeOK
<1> SUFFICES ASSUME Init PROVE TypeOK
  OBVIOUS
<1>1. SomeConv \in Convs
  BY IdsAssumption DEF SomeConv
<1>2. run \in [Runs -> Run]
  <2>1. [status |-> "unused", conv |-> SomeConv, round |-> 0, last |-> "none",
         used |-> 0, stop |-> "none"] \in Run
    BY <1>1, LimitsAssumption DEF Run, StopReason
  <2> QED
    BY <2>1 DEF Init, NewRun
<1>3. IdleRequest \in Request /\ BootOff \in Boot
  BY <1>1 DEF IdleRequest, Request, BootOff, Boot
<1> QED
  BY <1>2, <1>3, BlankType, IdleFrameType, LimitsAssumption DEF Init, TypeOK

LEMMA NextType == TypeOK /\ [Next]_vars => TypeOK'
<1> SUFFICES ASSUME TypeOK, [Next]_vars
             PROVE  TypeOK'
  OBVIOUS
<1>1. CASE UNCHANGED vars
  BY <1>1 DEF vars, TypeOK
<1>2. CASE Executor
  BY <1>2, ScanType, StartType, StepDoneType DEF Executor
<1>3. CASE Callback
  BY <1>3, ReplannedType, FailureSummedType, SummedType, AnswerReviewedType,
     ReviewedType, DecidedType, RoundPlannedType DEF Callback
<1>4. CASE UserRequest
  BY <1>4, PlanRequestType, AutoRunType, ConfirmType, ProposeType, RejectType,
     CancelRunType, ConfirmDraftType, CancelTaskType, FeedbackType, ClientReportType
  DEF UserRequest
<1>5. CASE Server
  BY <1>5, StartPlanType, PlannedType, ResumeReadType, ResumeNextType,
     ResumePlannedType, CleanupType, RestartType DEF Server
<1> QED
  BY <1>1, <1>2, <1>3, <1>4, <1>5 DEF Next

\* Every reachable state of the swarm is well typed, for every value of the
\* constants: no counter leaves its range and no reference dangles.
THEOREM TypeCorrect == Spec => []TypeOK
BY InitType, NextType, PTL DEF Spec


-----------------------------------------------------------------------------
(* An admitted run stays admitted *)

AdmittedNext(r) == r = NoRun \/ run'[r].status \notin {"unused", "proposed", "rejected"}

StayAdmitted == \A r \in Runs : Admitted(r) => AdmittedNext(r)

LEMMA FinishRunAdmits ==
  ASSUME TypeOK, NEW r, NEW s \in RunStatus \ {"proposed", "rejected"},
         run' = FinishRun(r, s)
  PROVE  StayAdmitted /\ (r \in Runs => AdmittedNext(r))
<1>1. \A x \in Runs : run[x] \in Run
  BY DEF TypeOK
<1>2. \A x \in Runs : x = r => run'[x].status = s
  BY <1>1 DEF FinishRun, Run
<1>3. \A x \in Runs : x # r => run'[x] = run[x]
  BY DEF FinishRun
<1>4. s # "unused"
  BY DEF RunStatus
<1> QED
  BY <1>2, <1>3, <1>4 DEF StayAdmitted, Admitted, AdmittedNext

\* A record of an unmatched or a replaced status
LEMMA RecordAdmits ==
  ASSUME TypeOK, NEW r, NEW rec,
         r \in Runs => rec \in Run /\ rec.status \notin {"unused", "proposed", "rejected"},
         run' = [run EXCEPT ![r] = rec]
  PROVE  StayAdmitted
<1>1. \A x \in Runs : run'[x] = IF x = r THEN rec ELSE run[x]
  BY DEF TypeOK
<1> QED
  BY <1>1 DEF StayAdmitted, Admitted, AdmittedNext

LEMMA UnchangedAdmits == UNCHANGED run => StayAdmitted
BY DEF StayAdmitted, Admitted, AdmittedNext

LEMMA RequestRestartAdmits ==
  ASSUME TypeOK, NEW r, RequestRestart(r)
  PROVE  StayAdmitted
<1>1. PICK noted \in {TRUE, ~StorageFaults} :
        run' = IF r = NoRun THEN run
               ELSE LET rec == IF noted THEN RecordRound(run[r], "yes") ELSE run[r]
                    IN  [run EXCEPT ![r] = [rec EXCEPT !.status = "restart_pending"]]
  BY DEF RequestRestart
<1> DEFINE rec == IF noted THEN RecordRound(run[r], "yes") ELSE run[r]
           parked == [rec EXCEPT !.status = "restart_pending"]
<1>2. CASE r = NoRun
  BY <1>1, <1>2, UnchangedAdmits
<1>3. CASE r # NoRun
  <2>1. r \in Runs => rec \in Run
    BY RecordRoundType DEF TypeOK
  <2>2. r \in Runs => parked \in Run /\ parked.status = "restart_pending"
    BY <2>1 DEF Run, RunStatus
  <2>3. run' = [run EXCEPT ![r] = parked]
    BY <1>1, <1>3
  <2> HIDE DEF parked
  <2> QED
    BY <2>2, <2>3, RecordAdmits
<1> QED
  BY <1>2, <1>3

LEMMA CloseRoundAdmits ==
  ASSUME TypeOK, NEW h \in Handlers, CloseRound(h)
  PROVE  StayAdmitted
BY UnchangedAdmits, RequestRestartAdmits, FinishRunAdmits DEF CloseRound, RunStatus

LEMMA HandleStepDoneAdmits ==
  ASSUME TypeOK, NEW h, NEW t, NEW s, NEW outcome, HandleStepDone(h, t, s, outcome)
  PROVE  StayAdmitted
<1>1. CASE ResultDropped(h, t)
  BY <1>1, UnchangedAdmits DEF ResultDropped
<1>2. CASE ResultOfCancelled(h, t)
  BY <1>2, UnchangedAdmits DEF ResultOfCancelled
<1>3. CASE ResultRecorded(h, t, s, outcome)
  BY <1>3, UnchangedAdmits, RequestRestartAdmits DEF ResultRecorded
<1> QED
  BY <1>1, <1>2, <1>3 DEF HandleStepDone

LEMMA AnswerReviewedAdmits ==
  ASSUME TypeOK, NEW h \in Handlers, AnswerReviewed(h)
  PROVE  StayAdmitted
<1>1. ASSUME NEW review \in {"yes", "null", "error"},
             run' = IF RunOf(h) = NoRun THEN run
                    ELSE LET rec == IF review = "error" THEN run[RunOf(h)]
                                    ELSE RecordRound(run[RunOf(h)], review)
                         IN  [run EXCEPT ![RunOf(h)] = [rec EXCEPT !.status = "completed"]]
      PROVE  StayAdmitted
  <2> DEFINE r == RunOf(h)
             rec == IF review = "error" THEN run[r] ELSE RecordRound(run[r], review)
             over == [rec EXCEPT !.status = "completed"]
  <2>1. r \in Runs => rec \in Run
    BY RecordRoundType DEF TypeOK
  <2>2. r \in Runs => over \in Run /\ over.status = "completed"
    BY <2>1 DEF Run, RunStatus
  <2>3. UNCHANGED run \/ run' = [run EXCEPT ![r] = over]
    BY <1>1
  <2> HIDE DEF r, over
  <2> QED
    BY <2>2, <2>3, UnchangedAdmits, RecordAdmits
<1> QED
  BY <1>1, CloseRoundAdmits DEF AnswerReviewed

\* A round that check_and_continue lets go on leaves the run running.
LEMMA VerdictGoes ==
  ASSUME NEW rec \in Run, NEW review \in {"null", "yes", "no"},
         NEW v \in Verdicts(rec, review), v.go
  PROVE  v.rec.status = "running"
<1> DEFINE noted == RecordRound(rec, review)
           next  == [noted EXCEPT !.used = @ + CreditsPerRound]
<1>1. noted \in Run /\ noted.status = rec.status
  <2>1. noted \in Run
    BY RecordRoundType
  <2> QED
    BY <2>1 DEF RecordRound, Run
<1>2. next.status = rec.status
  BY <1>1 DEF Run
<1>3. rec.status = "running" /\ v.rec = next
  <2>1. \A x, reason : ~Refuse(x, reason).go
    BY DEF Refuse
  <2> HIDE DEF noted
  <2> QED
    BY <2>1 DEF Verdicts, GoesOn, noted
<1> QED
  BY <1>2, <1>3

LEMMA ReviewedAdmits ==
  ASSUME TypeOK, NEW h \in Handlers, Reviewed(h)
  PROVE  StayAdmitted
<1> DEFINE r == RunOf(h)
<1>1. ASSUME NEW review \in {"yes", "no", "null"}, NEW noted \in BOOLEAN,
             NEW v \in Verdicts(IF review # "null" /\ noted
                                THEN RecordRound(run[r], review) ELSE run[r], review),
             \/ run' = [run EXCEPT ![r] = [v.rec EXCEPT !.status = "completed"]]
             \/ v.go /\ run' = [run EXCEPT ![r] = v.rec]
      PROVE  StayAdmitted
  <2> DEFINE over == [v.rec EXCEPT !.status = "completed"]
  <2>1. r \in Runs => v.rec \in Run /\ (v.go => v.rec.status = "running")
    <3>1. SUFFICES ASSUME r \in Runs
                   PROVE  v.rec \in Run /\ (v.go => v.rec.status = "running")
      OBVIOUS
    <3>2. (IF review # "null" /\ noted THEN RecordRound(run[r], review) ELSE run[r]) \in Run
      BY <3>1, RecordRoundType DEF TypeOK
    <3> QED
      BY <3>2, VerdictType, VerdictGoes
  <2>2. r \in Runs => over \in Run /\ over.status = "completed"
    BY <2>1 DEF Run, RunStatus
  <2>3. \/ run' = [run EXCEPT ![r] = over]
        \/ v.go /\ run' = [run EXCEPT ![r] = v.rec]
    BY <1>1
  <2> HIDE DEF r, over
  <2> QED
    BY <2>1, <2>2, <2>3, RecordAdmits
<1>2. ASSUME NEW rec \in {run[r]} \cup {RecordRound(run[r], review) : review \in {"yes", "no"}},
             run' = [run EXCEPT ![r] = [rec EXCEPT !.status = "error"]]
      PROVE  StayAdmitted
  <2> DEFINE over == [rec EXCEPT !.status = "error"]
  <2>1. r \in Runs => rec \in Run
    BY RecordRoundType DEF TypeOK
  <2>2. r \in Runs => over \in Run /\ over.status = "error"
    BY <2>1 DEF Run, RunStatus
  <2>3. run' = [run EXCEPT ![r] = over]
    BY <1>2
  <2> HIDE DEF r, over
  <2> QED
    BY <2>2, <2>3, RecordAdmits
<1> QED
  BY <1>1, <1>2, LimitsAssumption DEF Reviewed

\* Every step keeps the runs that are admitted.
LEMMA NextAdmits == TypeOK /\ [Next]_vars => StayAdmitted
<1> SUFFICES ASSUME TypeOK, [Next]_vars
             PROVE  StayAdmitted
  OBVIOUS
<1>1. CASE UNCHANGED vars
  BY <1>1, UnchangedAdmits DEF vars
<1>2. CASE Executor
  BY <1>2, UnchangedAdmits, HandleStepDoneAdmits DEF Executor, Scan, Start, StepDone
<1>3. CASE Callback
  <2> SUFFICES ASSUME NEW h \in Handlers,
                      \/ Replanned(h) \/ FailureSummed(h) \/ Summed(h) \/ AnswerReviewed(h)
                      \/ Reviewed(h) \/ Decided(h) \/ RoundPlanned(h)
               PROVE  StayAdmitted
    BY <1>3 DEF Callback
  <2>1. CASE Replanned(h) \/ FailureSummed(h)
    BY <2>1, UnchangedAdmits DEF Replanned, FailureSummed
  <2>2. CASE Summed(h)
    BY <2>2, UnchangedAdmits, CloseRoundAdmits DEF Summed
  <2>3. CASE Decided(h)
    BY <2>3, UnchangedAdmits, FinishRunAdmits DEF Decided, RunStatus
  <2>4. CASE RoundPlanned(h)
    BY <2>4, UnchangedAdmits, FinishRunAdmits DEF RoundPlanned, RunStatus
  <2> QED
    BY <2>1, <2>2, <2>3, <2>4, AnswerReviewedAdmits, ReviewedAdmits
<1>4. CASE UserRequest
  <2>1. ASSUME NEW q \in Requests, NEW c \in Convs, AutoRun(q, c)
        PROVE  StayAdmitted
    <3>1. PICK new \in Runs :
            /\ IsNextRun(new)
            /\ run' = [r \in Runs |-> IF r = new THEN NewRun(c, "running")
                                      ELSE IF IsNewest(r, Active)
                                      THEN [run[r] EXCEPT !.status = "timeout"]
                                      ELSE run[r]]
      BY <2>1 DEF AutoRun
    <3>2. \A r \in Runs : [run[r] EXCEPT !.status = "timeout"].status = "timeout"
      BY DEF TypeOK, Run
    <3>3. ASSUME NEW r \in Runs
          PROVE  run'[r] = run[r] \/ run'[r].status \in {"running", "timeout"}
      BY <3>1, <3>2 DEF NewRun
    <3> QED
      BY <3>3 DEF StayAdmitted, Admitted, AdmittedNext
  <2>2. ASSUME NEW c \in Convs, Propose(c)
        PROVE  StayAdmitted
    <3>1. PICK new \in Runs : IsNextRun(new) /\ run' = [run EXCEPT ![new] = NewRun(c, "proposed")]
      BY <2>2 DEF Propose
    <3>2. ~Admitted(new)
      BY <3>1, IdsAssumption DEF IsNextRun, IsFirst, Admitted
    <3> QED
      BY <3>1, <3>2 DEF StayAdmitted, Admitted, AdmittedNext, TypeOK
  <2>3. ASSUME NEW r \in Runs, Reject(r)
        PROVE  StayAdmitted
    <3>1. \A x \in Runs : x # r => run'[x] = run[x]
      BY <2>3 DEF Reject, RejectRun, FinishRun
    <3>2. ~Admitted(r)
      BY <2>3, IdsAssumption DEF Reject, RejectRun, Admitted
    <3> QED
      BY <3>1, <3>2 DEF StayAdmitted, Admitted, AdmittedNext
  <2>4. ASSUME NEW q \in Requests, NEW r \in Runs, Confirm(q, r)
        PROVE  StayAdmitted
    BY <2>4, FinishRunAdmits DEF Confirm, ConfirmRun, RunStatus
  <2>5. ASSUME NEW r \in Runs, CancelRun(r)
        PROVE  StayAdmitted
    BY <2>5, UnchangedAdmits, FinishRunAdmits DEF CancelRun, RunStatus
  <2>6. ASSUME NEW c \in Clients, NEW t \in Tasks, ClientReport(c, t)
        PROVE  StayAdmitted
    BY <2>6, HandleStepDoneAdmits DEF ClientReport
  <2>7. CASE UNCHANGED run
    BY <2>7, UnchangedAdmits
  <2> QED
    BY <1>4, <2>1, <2>2, <2>3, <2>4, <2>5, <2>6, <2>7
    DEF UserRequest, PlanRequest, ConfirmDraft, CancelTask, Feedback
<1>5. CASE Server
  <2>1. CASE Restart
    <3>1. \A r \in Runs : [run[r] EXCEPT !.status = "interrupted"].status = "interrupted"
      BY DEF TypeOK, Run
    <3>2. \A r \in Runs : run'[r] = run[r] \/ run'[r].status = "interrupted"
      BY <2>1, <3>1 DEF Restart
    <3> QED
      BY <3>2 DEF StayAdmitted, Admitted, AdmittedNext
  <2>2. CASE ResumeNext
    BY <2>2, UnchangedAdmits, FinishRunAdmits DEF ResumeNext, RunStatus
  <2>3. CASE UNCHANGED run
    BY <2>3, UnchangedAdmits
  <2> QED
    BY <1>5, <2>1, <2>2, <2>3 DEF Server, StartPlan, Planned, ResumeRead, ResumePlanned, Cleanup
<1> QED
  BY <1>1, <1>2, <1>3, <1>4, <1>5 DEF Next

-----------------------------------------------------------------------------
(* Tasks, rows and requests take their runs from admitted ones *)

Held == {r \in Runs \cup {NoRun} : Admitted(r)}

TasksHeld == \A t \in Tasks : obj[t].run \in Held /\ row[t].task.run \in Held

TasksKept == \A t \in Tasks : obj'[t].run \in Held /\ row'[t].task.run \in Held

LEMMA TasksHeldNow == TypeOK /\ OnlyConfirmedRunsWork => TasksHeld
BY DEF TypeOK, OnlyConfirmedRunsWork, TasksHeld, Held, Task, Row

LEMMA BlankHeld == Blank.run \in Held /\ NoRow.task.run \in Held
BY DEF Blank, NoRow, PlannedTask, Held, Admitted

\* Objects after a sweep hold no run but those of the objects before it.
LEMMA SweepHeld ==
  ASSUME NEW o, \A t \in Tasks : o[t].run \in Held, Sweep(o)
  PROVE  \A t \in Tasks : obj'[t].run \in Held
BY BlankHeld DEF Sweep, Live

LEMMA CreateHeld ==
  ASSUME TypeOK, TasksHeld, NEW t \in Tasks, NEW task, task.run \in Held, Create(t, task),
         Sweep([obj EXCEPT ![t] = task])
  PROVE  TasksKept
<1>1. \A x \in Tasks : [obj EXCEPT ![t] = task][x].run \in Held
  BY DEF TypeOK, TasksHeld
<1>2. \A x \in Tasks : obj'[x].run \in Held
  BY <1>1, SweepHeld
<1>3. \A x \in Tasks : row'[x].task.run \in Held
  BY DEF Create, Saved, TypeOK, TasksHeld
<1> QED
  BY <1>2, <1>3 DEF TasksKept

\* A planned task belongs to the run it was planned for, or to none.
LEMMA NewTasksRun ==
  ASSUME NEW c \in Convs, NEW r, NEW draft, NEW task \in NewTasks(c, r, draft)
  PROVE  task.run \in {r, NoRun}
<1>1. \A p \in Plans : PlannedTask(c, r, p, draft).run = r
  BY DEF PlannedTask
<1>2. NoPlanTask(c).run = NoRun
  <2> DEFINE o == PlannedTask(c, NoRun, << >>, FALSE)
  <2>1. o \in Task /\ o.run = NoRun
    BY NewTaskType DEF PlannedTask
  <2>2. NoPlanTask(c) = [o EXCEPT !.cancelled = TRUE, !.noplan = TRUE]
    BY DEF NoPlanTask
  <2> HIDE DEF o
  <2> QED
    BY <2>1, <2>2 DEF Task
<1> QED
  BY <1>1, <1>2 DEF NewTasks

LEMMA PlanAnswerHeld ==
  ASSUME TypeOK, TasksHeld, NEW c \in Convs, NEW r \in Held, NEW draft,
         \/ \E t \in FreshTasks : \E task \in NewTasks(c, r, draft) :
              Create(t, task) /\ Sweep([obj EXCEPT ![t] = task])
         \/ PlanFails /\ Sweep(obj)
  PROVE  TasksKept
<1>1. CASE PlanFails /\ Sweep(obj)
  BY <1>1, SweepHeld DEF PlanFails, TasksHeld, TasksKept
<1>2. NoRun \in Held
  BY DEF Held, Admitted
<1>3. ASSUME NEW t \in FreshTasks, NEW task \in NewTasks(c, r, draft),
             Create(t, task), Sweep([obj EXCEPT ![t] = task])
      PROVE  TasksKept
  BY <1>2, <1>3, NewTasksRun, CreateHeld DEF FreshTasks
<1> QED
  BY <1>1, <1>3

LEMMA HandleStepDoneHeld ==
  ASSUME TypeOK, TasksHeld, NEW h, NEW t \in Tasks, NEW s, NEW outcome,
         HandleStepDone(h, t, s, outcome)
  PROVE  TasksKept
<1>1. CASE ResultDropped(h, t)
  BY <1>1 DEF ResultDropped, TasksHeld, TasksKept
<1>2. CASE ResultOfCancelled(h, t)
  BY <1>2, SweepHeld, BlankHeld DEF ResultOfCancelled, TasksHeld, TasksKept, TypeOK
<1>3. CASE ResultRecorded(h, t, s, outcome)
  <2> DEFINE new == WithResult(Current(t), s, outcome)
             retry == [new EXCEPT !.retry = @ + 1]
  <2>1. Current(t) \in Task /\ Current(t).run \in Held
    BY DEF Current, TypeOK, Row, TasksHeld
  <2>2. new.run \in Held /\ retry.run \in Held
    BY <2>1 DEF WithResult, Task
  <2>3. \A x \in Tasks : row'[x].task.run \in Held
    BY <1>3, <2>2 DEF ResultRecorded, Saved, TypeOK, TasksHeld
  <2>4. ASSUME NEW o, o.run \in Held, Sweep([obj EXCEPT ![t] = o])
        PROVE  \A x \in Tasks : obj'[x].run \in Held
    <3>1. \A x \in Tasks : [obj EXCEPT ![t] = o][x].run \in Held
      BY <2>4 DEF TypeOK, TasksHeld
    <3> QED
      BY <2>4, <3>1, SweepHeld
  <2>5. Sweep([obj EXCEPT ![t] = new]) \/ Sweep([obj EXCEPT ![t] = retry])
    BY <1>3 DEF ResultRecorded
  <2> HIDE DEF new, retry
  <2> QED
    BY <2>2, <2>3, <2>4, <2>5 DEF TasksKept
<1> QED
  BY <1>1, <1>2, <1>3 DEF HandleStepDone

\* Every handler step after an await
LEMMA CallbackHeld ==
  ASSUME TypeOK, TasksHeld, NEW h \in Handlers,
         \/ Replanned(h) \/ FailureSummed(h) \/ Summed(h) \/ AnswerReviewed(h)
         \/ Reviewed(h) \/ Decided(h) \/ RoundPlanned(h)
  PROVE  TasksKept
<1> DEFINE t == frame[h].task
<1>1. t \in Tasks
  BY DEF TypeOK, Frame
<1>2. ASSUME Sweep(obj), row' = row \/ row' = [row EXCEPT ![t] = NoRow]
      PROVE  TasksKept
  BY <1>2, SweepHeld, BlankHeld DEF TasksHeld, TasksKept, TypeOK
<1>3. CASE Replanned(h)
  <2>1. CASE UNCHANGED << obj, row >>
    BY <2>1 DEF TasksHeld, TasksKept
  <2>2. ASSUME NEW p \in Plans,
               row' = [row EXCEPT ![t] =
                         Saved([obj[t] EXCEPT !.plan = p, !.done = {}, !.res = {}, !.nres = 0])],
               Sweep([obj EXCEPT ![t] =
                        [obj[t] EXCEPT !.plan = p, !.done = {}, !.res = {}, !.nres = 0]])
        PROVE  TasksKept
    <3> DEFINE new == [obj[t] EXCEPT !.plan = p, !.done = {}, !.res = {}, !.nres = 0]
    <3>1. new.run \in Held
      BY <1>1 DEF TypeOK, Task, TasksHeld
    <3> HIDE DEF new
    <3>2. \A x \in Tasks : [obj EXCEPT ![t] = new][x].run \in Held
      BY <3>1 DEF TypeOK, TasksHeld
    <3>3. \A x \in Tasks : obj'[x].run \in Held
      BY <2>2, <3>2, SweepHeld DEF new
    <3>4. row' = [row EXCEPT ![t] = Saved(new)]
      BY <2>2 DEF new
    <3>5. \A x \in Tasks : row'[x].task.run \in Held
      BY <3>1, <3>4 DEF Saved, TypeOK, TasksHeld
    <3> QED
      BY <3>3, <3>5 DEF TasksKept
  <2> QED
    BY <1>3, <2>1, <2>2 DEF Replanned
<1>4. CASE FailureSummed(h) \/ Summed(h) \/ AnswerReviewed(h) \/ Reviewed(h) \/ Decided(h)
  BY <1>2, <1>4 DEF FailureSummed, Summed, AnswerReviewed, Reviewed, Decided
<1>5. CASE RoundPlanned(h)
  <2>1. obj[t].run \in Held /\ obj[t].conv \in Convs
    BY <1>1 DEF TasksHeld, TypeOK, Task
  <2> QED
    BY <1>5, <2>1, PlanAnswerHeld DEF RoundPlanned
<1> QED
  BY <1>3, <1>4, <1>5

\* What users do to tasks and rows
LEMMA UsersHeld ==
  ASSUME TypeOK, TasksHeld, UserRequest
  PROVE  TasksKept
<1>1. ASSUME NEW t \in Tasks, ConfirmDraft(t)
      PROVE  TasksKept
  <2>1. PICK p \in Plans :
          /\ obj' = [obj EXCEPT ![t] = [obj[t] EXCEPT !.plan = p, !.draft = FALSE]]
          /\ row' = [row EXCEPT ![t] = Saved([obj[t] EXCEPT !.plan = p, !.draft = FALSE])]
    BY <1>1 DEF ConfirmDraft
  <2> DEFINE new == [obj[t] EXCEPT !.plan = p, !.draft = FALSE]
  <2>2. new.run \in Held
    BY DEF TypeOK, Task, TasksHeld
  <2>3. obj' = [obj EXCEPT ![t] = new] /\ row' = [row EXCEPT ![t] = Saved(new)]
    BY <2>1
  <2> HIDE DEF new
  <2> QED
    BY <2>2, <2>3 DEF Saved, TypeOK, TasksHeld, TasksKept
<1>2. ASSUME NEW t \in Tasks, CancelTask(t)
      PROVE  TasksKept
  <2> DEFINE new == [obj[t] EXCEPT !.cancelled = TRUE]
  <2>1. new.run \in Held
    BY DEF TypeOK, Task, TasksHeld
  <2>2. CASE obj[t].noplan
    BY <1>2, <2>2, SweepHeld, BlankHeld DEF CancelTask, TypeOK, TasksHeld, TasksKept
  <2>3. CASE ~obj[t].noplan
    <3>1. obj' = [obj EXCEPT ![t] = new] /\ row' = [row EXCEPT ![t] = Saved(new)]
      BY <1>2, <2>3 DEF CancelTask
    <3> HIDE DEF new
    <3> QED
      BY <2>1, <3>1 DEF Saved, TypeOK, TasksHeld, TasksKept
  <2> QED
    BY <2>2, <2>3
<1>3. ASSUME NEW t \in Tasks, Feedback(t)
      PROVE  TasksKept
  <2>1. \A x \in Tasks : [obj EXCEPT ![t].cancelled = TRUE][x].run \in Held
    BY DEF TypeOK, Task, TasksHeld
  <2>2. \A x \in Tasks : obj'[x].run \in Held
    BY <1>3, <2>1, SweepHeld DEF Feedback
  <2> QED
    BY <1>3, <2>2, BlankHeld DEF Feedback, TypeOK, TasksHeld, TasksKept
<1>4. ASSUME NEW r \in Runs, CancelRun(r)
      PROVE  TasksKept
  <2>1. \A t \in Tasks : [row[t].task EXCEPT !.cancelled = TRUE].run \in Held
    BY DEF TypeOK, Row, Task, TasksHeld
  <2>2. \A t \in Tasks : \/ row'[t] = row[t]
                         \/ row'[t].task = [row[t].task EXCEPT !.cancelled = TRUE]
    BY <1>4 DEF CancelRun
  <2> QED
    BY <1>4, <2>1, <2>2 DEF CancelRun, TasksHeld, TasksKept
<1>5. ASSUME NEW c \in Clients, NEW t \in Tasks, ClientReport(c, t)
      PROVE  TasksKept
  BY <1>5, HandleStepDoneHeld DEF ClientReport
<1>6. CASE UNCHANGED << obj, row >>
  BY <1>6 DEF TasksHeld, TasksKept
<1> QED
  BY <1>1, <1>2, <1>3, <1>4, <1>5, <1>6
  DEF UserRequest, PlanRequest, AutoRun, Confirm, Propose, Reject

\* What the server does on its own
LEMMA ServerHeld ==
  ASSUME TypeOK, OnlyConfirmedRunsWork, TasksHeld, Executor \/ Server
  PROVE  TasksKept
<1>1. ASSUME NEW t \in Tasks, Start(t)
      PROVE  TasksKept
  <2>1. [row[t] EXCEPT !.status = "completed"].task = row[t].task
    BY DEF TypeOK, Row
  <2> QED
    BY <1>1, <2>1 DEF Start, TypeOK, TasksHeld, TasksKept
<1>2. ASSUME NEW t \in Tasks, StepDone(t)
      PROVE  TasksKept
  BY <1>2, HandleStepDoneHeld DEF StepDone
<1>3. ASSUME NEW q \in Requests, Planned(q)
      PROVE  TasksKept
  <2>1. request[q].run \in Held /\ request[q].conv \in Convs
    BY DEF TypeOK, Request, OnlyConfirmedRunsWork, Held
  <2> QED
    BY <1>3, <2>1, PlanAnswerHeld DEF Planned
<1>4. CASE ResumePlanned
  <2>1. boot.run \in Runs /\ boot.run \in Held
    BY <1>4 DEF ResumePlanned, TypeOK, Boot, OnlyConfirmedRunsWork, Held
  <2>2. run[boot.run].conv \in Convs
    BY <2>1 DEF TypeOK, Run
  <2> QED
    BY <1>4, <2>1, <2>2, PlanAnswerHeld DEF ResumePlanned
<1>5. ASSUME NEW t \in Tasks, Cleanup(t)
      PROVE  TasksKept
  BY <1>5, BlankHeld DEF Cleanup, TypeOK, TasksHeld, TasksKept
<1>6. CASE Restart
  <2>1. \A t \in Tasks : [row[t] EXCEPT !.status = "interrupted"].task = row[t].task
    BY DEF TypeOK, Row
  <2>2. \A t \in Tasks : row'[t].task = row[t].task
    BY <1>6, <2>1 DEF Restart
  <2> QED
    BY <1>6, <2>2, BlankHeld DEF Restart, TasksHeld, TasksKept
<1>7. CASE UNCHANGED << obj, row >>
  BY <1>7 DEF TasksHeld, TasksKept
<1> QED
  BY <1>1, <1>2, <1>3, <1>4, <1>5, <1>6, <1>7
  DEF Executor, Server, Scan, StartPlan, ResumeRead, ResumeNext

LEMMA NextHeld ==
  ASSUME TypeOK, OnlyConfirmedRunsWork, [Next]_vars
  PROVE  TasksKept
<1>1. TasksHeld
  BY TasksHeldNow
<1>2. CASE UNCHANGED vars
  BY <1>1, <1>2 DEF vars, TasksHeld, TasksKept
<1> QED
  BY <1>1, <1>2, CallbackHeld, UsersHeld, ServerHeld DEF Next, Callback

-----------------------------------------------------------------------------
(* The invariant *)

\* Requests and the resume wait for admitted runs.
WaitersAdmitted ==
  /\ \A q \in Requests : Admitted(request[q].run)
  /\ \A r \in boot.left \cup {boot.run} : Admitted(r)

WaitersNext ==
  /\ \A q \in Requests : AdmittedNext(request'[q].run)
  /\ \A r \in boot'.left \cup {boot'.run} : AdmittedNext(r)

\* An admitted run, or none, stays so.
LEMMA AdmittedStays ==
  ASSUME StayAdmitted, NEW r \in Runs \cup {NoRun}, Admitted(r)
  PROVE  AdmittedNext(r)
BY IdsAssumption DEF StayAdmitted, Admitted, AdmittedNext

LEMMA EnterAdmitted ==
  ASSUME TypeOK, StayAdmitted, WaitersAdmitted, NEW q \in Requests, NEW c,
         NEW r \in Runs \cup {NoRun}, AdmittedNext(r), NEW draft, Enter(q, c, r, draft)
  PROVE  \A x \in Requests : AdmittedNext(request'[x].run)
<1>1. \A x \in Requests : request[x].run \in Runs \cup {NoRun}
  BY DEF TypeOK, Request
<1>2. \A x \in Requests : request'[x].run \in {request[x].run, r, NoRun}
  BY DEF Enter, TypeOK, IdleRequest
<1>3. AdmittedNext(NoRun)
  BY DEF Admitted, AdmittedNext
<1> QED
  BY <1>1, <1>2, <1>3, AdmittedStays DEF WaitersAdmitted, Enter, TypeOK, IdleRequest

LEMMA NextWaiters ==
  ASSUME TypeOK, WaitersAdmitted, StayAdmitted, [Next]_vars
  PROVE  WaitersNext
<1>1. AdmittedNext(NoRun) /\ Admitted(NoRun)
  BY DEF Admitted, AdmittedNext
<1>2. \A q \in Requests : request[q].run \in Runs \cup {NoRun}
  BY DEF TypeOK, Request
<1>3. boot.left \subseteq Runs /\ boot.run \in Runs \cup {NoRun}
  BY DEF TypeOK, Boot
<1>4. UNCHANGED request => \A q \in Requests : AdmittedNext(request'[q].run)
  BY <1>2, AdmittedStays DEF WaitersAdmitted, WaitersNext
<1>5. UNCHANGED boot => \A r \in boot'.left \cup {boot'.run} : AdmittedNext(r)
  BY <1>3, AdmittedStays DEF WaitersAdmitted, WaitersNext
<1>6. CASE UNCHANGED << request, boot >>
  BY <1>4, <1>5, <1>6 DEF WaitersAdmitted, WaitersNext
<1>7. ASSUME NEW q \in Requests, NEW c \in Convs, PlanRequest(q, c)
      PROVE  WaitersNext
  BY <1>1, <1>5, <1>7, EnterAdmitted DEF PlanRequest, WaitersAdmitted, WaitersNext
<1>8. ASSUME NEW q \in Requests, NEW c \in Convs, AutoRun(q, c)
      PROVE  WaitersNext
  <2>1. PICK new \in Runs :
          /\ run' = [r \in Runs |-> IF r = new THEN NewRun(c, "running")
                                    ELSE IF IsNewest(r, Active)
                                    THEN [run[r] EXCEPT !.status = "timeout"]
                                    ELSE run[r]]
          /\ Enter(q, c, new, FALSE)
    BY <1>8 DEF AutoRun
  <2>2. AdmittedNext(new)
    BY <2>1 DEF Admitted, AdmittedNext, NewRun
  <2>3. \A x \in Requests : AdmittedNext(request'[x].run)
    BY <2>1, <2>2, EnterAdmitted
  <2> QED
    BY <1>5, <1>8, <2>3 DEF AutoRun, WaitersAdmitted, WaitersNext
<1>9. ASSUME NEW q \in Requests, NEW r \in Runs, Confirm(q, r)
      PROVE  WaitersNext
  <2>1. AdmittedNext(r)
    BY <1>9, FinishRunAdmits DEF Confirm, ConfirmRun, RunStatus
  <2>2. \A x \in Requests : request'[x].run \in {request[x].run, r}
    BY <1>9 DEF Confirm, TypeOK
  <2>3. \A x \in Requests : x # q => request'[x].run = request[x].run
    BY <1>9 DEF Confirm, TypeOK
  <2>4. request'[q].run = r
    BY <1>9 DEF Confirm, TypeOK
  <2>5. \A x \in Requests : AdmittedNext(request'[x].run)
    BY <1>2, <2>1, <2>3, <2>4, AdmittedStays DEF WaitersAdmitted, WaitersNext
  <2> QED
    BY <1>5, <1>9, <2>5 DEF Confirm, WaitersAdmitted, WaitersNext
<1>10. ASSUME NEW q \in Requests, StartPlan(q)
       PROVE  WaitersNext
  BY <1>2, <1>5, <1>10, AdmittedStays, EnterAdmitted DEF StartPlan, WaitersAdmitted, WaitersNext
<1>11. ASSUME NEW q \in Requests, Planned(q)
       PROVE  WaitersNext
  <2>1. \A x \in Requests : request'[x].run \in {request[x].run, NoRun}
    BY <1>11 DEF Planned, TypeOK, IdleRequest
  <2>2. \A x \in Requests : AdmittedNext(request'[x].run)
    BY <1>1, <1>2, <2>1, AdmittedStays DEF WaitersAdmitted, WaitersNext
  <2> QED
    BY <1>5, <1>11, <2>2 DEF Planned, WaitersAdmitted, WaitersNext
<1>12. CASE ResumeRead
  <2>1. \A r \in boot'.left \cup {boot'.run} : r \in Runs \cup {NoRun} /\ Admitted(r)
    BY <1>1, <1>12 DEF ResumeRead, BootOff, Admitted, AdmittedNext
  <2>2. \A r \in boot'.left \cup {boot'.run} : AdmittedNext(r)
    BY <2>1, AdmittedStays
  <2> QED
    BY <1>4, <1>12, <2>2 DEF ResumeRead, WaitersAdmitted, WaitersNext
<1>13. CASE ResumeNext
  <2>1. boot'.left \subseteq boot.left /\ boot'.run \in boot.left \cup {boot.run, NoRun}
    <3>1. CASE boot' = BootOff
      BY <3>1 DEF BootOff
    <3>2. ASSUME NEW r \in boot.left,
                 \/ boot' = [boot EXCEPT !.left = @ \ {r}]
                 \/ boot' = [[boot EXCEPT !.left = @ \ {r}] EXCEPT !.pc = "llm", !.run = r]
          PROVE  boot'.left \subseteq boot.left /\ boot'.run \in boot.left \cup {boot.run, NoRun}
      <4>1. boot \in [pc: {"off", "wait", "next", "llm"}, left: SUBSET Runs,
                      achieved: SUBSET Runs, run: Runs \cup {NoRun}]
        BY DEF TypeOK, Boot
      <4> QED
        BY <3>2, <4>1
    <3> QED
      BY <1>13, <3>1, <3>2 DEF ResumeNext
  <2>2. \A r \in boot'.left \cup {boot'.run} : AdmittedNext(r)
    BY <1>1, <1>3, <2>1, AdmittedStays DEF WaitersAdmitted, WaitersNext
  <2> QED
    BY <1>4, <1>13, <2>2 DEF ResumeNext, WaitersAdmitted, WaitersNext
<1>14. CASE ResumePlanned
  <2>1. boot'.left = boot.left /\ boot'.run = NoRun
    BY <1>14 DEF ResumePlanned, TypeOK, Boot
  <2>2. \A r \in boot'.left \cup {boot'.run} : AdmittedNext(r)
    BY <1>1, <1>3, <2>1, AdmittedStays DEF WaitersAdmitted, WaitersNext
  <2> QED
    BY <1>4, <1>14, <2>2 DEF ResumePlanned, WaitersAdmitted, WaitersNext
<1>15. CASE Restart
  BY <1>1, <1>15 DEF Restart, IdleRequest, BootOff, WaitersAdmitted, WaitersNext
<1>16. Executor => UNCHANGED << request, boot >>
  BY DEF Executor, Scan, Start, StepDone
<1>17. Callback => UNCHANGED << request, boot >>
  BY DEF Callback, Replanned, FailureSummed, Summed, AnswerReviewed, Reviewed, Decided,
         RoundPlanned
<1>18. UserRequest => \/ UNCHANGED << request, boot >>
                      \/ \E q \in Requests, c \in Convs : PlanRequest(q, c) \/ AutoRun(q, c)
                      \/ \E q \in Requests, r \in Runs : Confirm(q, r)
  BY DEF UserRequest, Propose, Reject, CancelRun, ConfirmDraft, CancelTask, Feedback, ClientReport
<1>19. \A t \in Tasks : Cleanup(t) => UNCHANGED << request, boot >>
  BY DEF Cleanup
<1>20. CASE UNCHANGED vars
  BY <1>6, <1>20 DEF vars
<1> QED
  BY <1>6, <1>7, <1>8, <1>9, <1>10, <1>11, <1>12, <1>13, <1>14, <1>15, <1>16, <1>17,
     <1>18, <1>19, <1>20 DEF Next, Server

LEMMA InitConfirmed == Init => OnlyConfirmedRunsWork
BY BlankHeld DEF Init, OnlyConfirmedRunsWork, Admitted, IdleRequest, BootOff, NoRow, Blank,
                 PlannedTask

LEMMA NextConfirmed == TypeOK /\ OnlyConfirmedRunsWork /\ [Next]_vars => OnlyConfirmedRunsWork'
<1> SUFFICES ASSUME TypeOK, OnlyConfirmedRunsWork, [Next]_vars
             PROVE  OnlyConfirmedRunsWork'
  OBVIOUS
<1>1. StayAdmitted
  BY NextAdmits
<1>2. \A t \in Tasks : AdmittedNext(obj'[t].run) /\ AdmittedNext(row'[t].task.run)
  BY <1>1, NextHeld, AdmittedStays DEF TasksKept, Held
<1>3. WaitersNext
  BY <1>1, NextWaiters DEF OnlyConfirmedRunsWork, WaitersAdmitted
<1> QED
  BY <1>2, <1>3 DEF OnlyConfirmedRunsWork, WaitersNext, Admitted, AdmittedNext

\* In every reachable state, whatever the interleaving of handlers, requests and
\* restarts, no task, row or parked request belongs to a run that waits for its
\* user's word or was rejected.
THEOREM OnlyConfirmed == Spec => []OnlyConfirmedRunsWork
BY TypeCorrect, InitConfirmed, NextConfirmed, PTL DEF Spec

-----------------------------------------------------------------------------
(* The run a handler reviews *)

Awaited(h, t) == frame[h].task = t /\ frame[h].pc \in Awaits

\* Somebody refers to the object of the task.
Referred(t) == t \in pend \/ \E h \in Handlers : Awaited(h, t)

Reviewing(h, t) == frame[h].task = t /\ frame[h].pc = "review"

\* Memory and row of a task name one run, and only rounds of a run are reviewed.
RunKnown(t) ==
  /\ Referred(t) /\ Present(t) => row[t].task.run = obj[t].run
  /\ \A h \in Handlers : Reviewing(h, t) => obj[t].run # NoRun

RunsKnown == \A t \in Tasks : RunKnown(t)

\* No handler comes to hold the task, and a review of it is one of a round.
FramesKnown(t) ==
  \A h \in Handlers :
    /\ Awaited(h, t)' => Awaited(h, t)
    /\ Reviewing(h, t)' => Reviewing(h, t) \/ (Awaited(h, t) /\ obj[t].run # NoRun)

\* The step takes the run of the task from its object or its row.
RunTaken(t) ==
  /\ Referred(t)' => \/ Referred(t) /\ obj'[t].run = obj[t].run
                     \/ Present(t) /\ obj'[t].run = row[t].task.run
  /\ Present(t)' => \/ Present(t) /\ row'[t].task.run = row[t].task.run
                    \/ Referred(t) /\ row'[t].task.run = obj[t].run
  /\ \A h \in Handlers :
       Reviewing(h, t)' => Reviewing(h, t) \/ (Referred(t) /\ obj[t].run # NoRun)

\* The step creates the task.
RunGiven(t) ==
  /\ obj'[t].run = row'[t].task.run
  /\ \A h \in Handlers : ~Reviewing(h, t)'

LEMMA KnownRunKept ==
  ASSUME NEW t, RunKnown(t), RunTaken(t) \/ RunGiven(t)
  PROVE  RunKnown(t)'
<1>1. \A h \in Handlers : /\ Reviewing(h, t) => Referred(t)
                          /\ Reviewing(h, t)' => Referred(t)'
  BY DEF Reviewing, Referred, Awaited, Awaits
<1> QED
  BY <1>1 DEF RunKnown, RunTaken, RunGiven

\* After a sweep, whoever is referred to has its object.
LEMMA SweptObjects ==
  ASSUME NEW o \in [Tasks -> Task], Sweep(o)
  PROVE  \A t \in Tasks : Referred(t)' => obj'[t] = o[t]
BY DEF Sweep, Live, Referred, Awaited

\* A handler that returns or raises waits for nothing.
LEMMA ReturnKnown ==
  ASSUME TypeOK, NEW h \in Handlers, Return(h) \/ Abort(h)
  PROVE  \A t \in Tasks : FramesKnown(t)
<1>1. \A x \in Handlers : x # h => frame'[x] = frame[x]
  BY DEF Return, Abort, TypeOK
<1>2. frame'[h].pc \in {"idle", "exec"}
  <2>1. [frame[h] EXCEPT !.pc = "exec", !.left = AfterFirst(frame[h].left)].pc = "exec"
    BY DEF TypeOK, Frame
  <2>2. NextStep(h, AfterFirst(frame[h].left)).pc \in {"idle", "exec"}
    BY <2>1 DEF NextStep, IdleFrame
  <2>3. IdleFrame(h).pc = "idle"
    BY DEF IdleFrame
  <2> QED
    BY <2>2, <2>3 DEF Return, Abort, TypeOK
<1> QED
  BY <1>1, <1>2 DEF FramesKnown, Awaited, Reviewing, Awaits

\* A handler that waits on waits for its task, and for a review only of a round.
LEMMA AwaitKnown ==
  ASSUME TypeOK, NEW h \in Handlers, frame[h].pc \in Awaits, NEW pc \in Awaits, Await(h, pc),
         pc = "review" => RunOf(h) # NoRun
  PROVE  \A t \in Tasks : FramesKnown(t)
<1>1. \A x \in Handlers : x # h => frame'[x] = frame[x]
  BY DEF Await, TypeOK
<1>2. frame'[h].pc = pc /\ frame'[h].task = frame[h].task
  BY DEF Await, TypeOK, Frame
<1> QED
  BY <1>1, <1>2 DEF FramesKnown, Awaited, Reviewing, RunOf

LEMMA CloseRoundKnown ==
  ASSUME TypeOK, NEW h \in Handlers, frame[h].pc \in Awaits, CloseRound(h)
  PROVE  \A t \in Tasks : FramesKnown(t)
BY ReturnKnown, AwaitKnown DEF CloseRound, RunOf, Awaits

LEMMA SameFramesKnown == UNCHANGED frame => \A t \in Tasks : FramesKnown(t)
BY DEF FramesKnown, Awaited, Reviewing

\* The step changes one object or its row at most.
LEMMA OneTaskTaken ==
  ASSUME TypeOK, \A t \in Tasks : FramesKnown(t), NEW u \in Tasks, NEW o \in Task,
         (Referred(u) /\ o.run = obj[u].run) \/ o = obj[u],
         pend' \subseteq pend,
         obj' = [obj EXCEPT ![u] = o] \/ Sweep([obj EXCEPT ![u] = o]),
         \/ UNCHANGED row \/ row' = [row EXCEPT ![u] = NoRow]
         \/ Referred(u) /\ row' = [row EXCEPT ![u] = Saved(o)]
  PROVE  \A t \in Tasks : RunTaken(t)
<1> SUFFICES ASSUME NEW t \in Tasks
             PROVE  RunTaken(t)
  OBVIOUS
<1>1. Referred(t)' => Referred(t)
  BY DEF Referred, FramesKnown
<1>2. [obj EXCEPT ![u] = o] \in [Tasks -> Task]
  BY DEF TypeOK
<1>3. Referred(t)' => obj'[t] = IF t = u THEN o ELSE obj[t]
  BY <1>2, SweptObjects DEF TypeOK
<1>4. Referred(t)' => obj'[t].run = obj[t].run
  BY <1>3
<1>5. Present(t)' => \/ Present(t) /\ row'[t].task.run = row[t].task.run
                     \/ Referred(t) /\ row'[t].task.run = obj[t].run
  <2>1. CASE t = u
    <3>1. NoRow.status = "absent" /\ Saved(o).task = o
      BY DEF NoRow, Saved
    <3> QED
      BY <2>1, <3>1 DEF Present, TypeOK
  <2>2. CASE t # u
    BY <2>2 DEF Present, TypeOK
  <2> QED
    BY <2>1, <2>2
<1>6. \A h \in Handlers :
        Reviewing(h, t)' => Reviewing(h, t) \/ (Referred(t) /\ obj[t].run # NoRun)
  BY DEF FramesKnown, Referred
<1> QED
  BY <1>1, <1>4, <1>5, <1>6 DEF RunTaken

\* Handlers move, and perhaps forget a task.
LEMMA MovesTaken ==
  ASSUME TypeOK, \A t \in Tasks : FramesKnown(t), pend' \subseteq pend,
         UNCHANGED obj \/ Sweep(obj), NEW u \in Tasks,
         UNCHANGED row \/ row' = [row EXCEPT ![u] = NoRow]
  PROVE  \A t \in Tasks : RunTaken(t)
<1>1. [obj EXCEPT ![u] = obj[u]] = obj /\ obj[u] \in Task
  BY DEF TypeOK
<1> QED
  BY <1>1, OneTaskTaken

\* Only rows change, and they keep their runs.
LEMMA RowsTaken ==
  ASSUME UNCHANGED obj, pend' = pend, \A t \in Tasks : FramesKnown(t),
         \A t \in Tasks : Present(t)' => Present(t) /\ row'[t].task.run = row[t].task.run
  PROVE  \A t \in Tasks : RunTaken(t)
BY DEF RunTaken, Referred, FramesKnown

LEMMA CreateTaken ==
  ASSUME TypeOK, \A t \in Tasks : FramesKnown(t), NEW u \in FreshTasks, NEW task \in Task,
         Create(u, task), Sweep([obj EXCEPT ![u] = task])
  PROVE  \A t \in Tasks : RunTaken(t) \/ RunGiven(t)
<1>1. u \in Tasks /\ \A h \in Handlers : ~Awaited(h, u)
  BY DEF FreshTasks, Awaited, Awaits
<1>2. [obj EXCEPT ![u] = task] \in [Tasks -> Task]
  BY DEF TypeOK
<1>3. \A t \in Tasks : Referred(t)' => obj'[t] = IF t = u THEN task ELSE obj[t]
  BY <1>2, SweptObjects DEF TypeOK
<1>4. RunGiven(u)
  <2>1. obj'[u] = task
    BY <1>1, <1>3 DEF Create, Referred
  <2>2. row'[u].task = task
    BY <1>1 DEF Create, Saved, TypeOK
  <2>3. \A h \in Handlers : Reviewing(h, u)' => Awaited(h, u)'
    BY DEF Reviewing, Awaited, Awaits
  <2> QED
    BY <1>1, <2>1, <2>2, <2>3 DEF RunGiven, FramesKnown
<1>5. ASSUME NEW t \in Tasks, t # u
      PROVE  RunTaken(t)
  <2>1. row'[t] = row[t]
    BY <1>5 DEF Create, TypeOK
  <2>2. Referred(t)' => Referred(t)
    BY <1>5 DEF Create, Referred, FramesKnown
  <2> QED
    BY <1>3, <1>5, <2>1, <2>2 DEF RunTaken, Referred, FramesKnown, Present
<1> QED
  BY <1>4, <1>5

LEMMA PlanAnswerTaken ==
  ASSUME TypeOK, \A t \in Tasks : FramesKnown(t),
         NEW c \in Convs, NEW r \in Runs \cup {NoRun}, NEW draft \in BOOLEAN,
         \/ \E t \in FreshTasks : \E task \in NewTasks(c, r, draft) :
              Create(t, task) /\ Sweep([obj EXCEPT ![t] = task])
         \/ PlanFails /\ Sweep(obj)
  PROVE  \A t \in Tasks : RunTaken(t) \/ RunGiven(t)
BY NewTasksType, CreateTaken, MovesTaken DEF PlanFails

\* What a result does to the run of its task: nothing
LEMMA HandleStepDoneTaken ==
  ASSUME TypeOK, NEW h \in Handlers, NEW u \in Tasks, NEW s \in AllSteps,
         NEW outcome \in SUBSET Kinds, frame[h].pc \notin Awaits, HandleStepDone(h, u, s, outcome)
  PROVE  \A t \in Tasks : RunTaken(t)
<1>1. CASE ResultDropped(h, u)
  BY <1>1, ReturnKnown, MovesTaken DEF ResultDropped
<1>2. CASE ResultOfCancelled(h, u)
  BY <1>2, ReturnKnown, MovesTaken DEF ResultOfCancelled
<1>3. CASE ResultRecorded(h, u, s, outcome)
  <2> DEFINE new == WithResult(Current(u), s, outcome)
             retry == [new EXCEPT !.retry = @ + 1]
  <2>1. Current(u) \in Task /\ (u \in pend \/ Present(u))
    BY <1>3 DEF ResultRecorded, Current, TypeOK, Row
  <2>2. new.run = Current(u).run /\ retry.run = Current(u).run
    BY <2>1 DEF WithResult, Task
  <2>3. PICK m \in {new, retry} : Sweep([obj EXCEPT ![u] = m])
    BY <1>3 DEF ResultRecorded
  <2>4. pend' = pend \cup {u} /\ row' = [row EXCEPT ![u] = Saved(new)]
    BY <1>3 DEF ResultRecorded
  <2>5. Return(h) \/ \E pc \in {"sum", "replan", "sumFail"} :
                       frame' = [frame EXCEPT ![h].pc = pc, ![h].task = u]
    BY <1>3 DEF ResultRecorded
  <2>6. m.run = Current(u).run
    BY <2>2, <2>3
  <2>7. row'[u].task.run = Current(u).run /\ \A t \in Tasks : t # u => row'[t] = row[t]
    <3> HIDE DEF new, retry
    <3> QED
      BY <2>2, <2>4 DEF Saved, TypeOK
  <2> HIDE DEF new, retry
  <2>8. \A t \in Tasks : /\ t # u => FramesKnown(t)
                         /\ \A x \in Handlers : Reviewing(x, t)' => Reviewing(x, t)
    <3>1. CASE Return(h)
      <4>1. \A t \in Tasks : FramesKnown(t)
        BY <3>1, ReturnKnown
      <4>2. \A t \in Tasks, x \in Handlers : Reviewing(x, t)' => Reviewing(x, t)
        <5>1. \A x \in Handlers : x # h => frame'[x] = frame[x]
          BY <3>1 DEF Return, TypeOK
        <5>2. \A t \in Tasks : Awaited(h, t)' => Awaited(h, t)
          BY <4>1 DEF FramesKnown
        <5>3. \A t \in Tasks : Reviewing(h, t)' => Awaited(h, t)'
          BY DEF Reviewing, Awaited, Awaits
        <5> QED
          BY <5>1, <5>2, <5>3 DEF Reviewing, Awaited
      <4> QED
        BY <4>1, <4>2
    <3>2. ASSUME NEW pc \in {"sum", "replan", "sumFail"},
                 frame' = [frame EXCEPT ![h].pc = pc, ![h].task = u]
          PROVE  \A t \in Tasks : /\ t # u => FramesKnown(t)
                                  /\ \A x \in Handlers : Reviewing(x, t)' => Reviewing(x, t)
      <4>1. \A x \in Handlers : x # h => frame'[x] = frame[x]
        BY <3>2 DEF TypeOK
      <4>2. frame'[h].pc = pc /\ frame'[h].task = u
        BY <3>2 DEF TypeOK, Frame
      <4> QED
        BY <4>1, <4>2 DEF FramesKnown, Awaited, Reviewing
    <3> QED
      BY <2>5, <3>1, <3>2
  <2>9. [obj EXCEPT ![u] = m][u] = m /\ \A t \in Tasks : t # u => [obj EXCEPT ![u] = m][t] = obj[t]
    BY DEF TypeOK
  <2>10. Referred(u)' /\ \A t \in Tasks : Referred(t)' => obj'[t] = [obj EXCEPT ![u] = m][t]
    BY <2>3, <2>4 DEF Sweep, Live, Referred, Awaited
  <2>11. RunTaken(u)
    <3>1. u \in pend \/ Present(u)
      BY <2>1
    <3>2. obj'[u].run = Current(u).run /\ row'[u].task.run = Current(u).run
      BY <2>6, <2>7, <2>9, <2>10
    <3>3. /\ u \in pend => Referred(u) /\ Current(u) = obj[u]
          /\ u \notin pend => Present(u) /\ Current(u) = row[u].task
      BY <3>1 DEF Referred, Current
    <3> QED
      BY <2>8, <3>2, <3>3 DEF RunTaken
  <2>12. ASSUME NEW t \in Tasks, t # u
         PROVE  RunTaken(t)
    <3>1. Referred(t)' => Referred(t)
      BY <2>4, <2>8, <2>12 DEF Referred, FramesKnown
    <3>2. Referred(t)' => obj'[t] = obj[t]
      BY <2>9, <2>10, <2>12
    <3> QED
      BY <2>7, <2>8, <2>12, <3>1, <3>2 DEF RunTaken, Present
  <2> QED
    BY <2>11, <2>12
<1> QED
  BY <1>1, <1>2, <1>3 DEF HandleStepDone

LEMMA CallbackTaken ==
  ASSUME TypeOK, NEW h \in Handlers,
         \/ Replanned(h) \/ FailureSummed(h) \/ Summed(h) \/ AnswerReviewed(h)
         \/ Reviewed(h) \/ Decided(h) \/ RoundPlanned(h)
  PROVE  \A t \in Tasks : RunTaken(t) \/ RunGiven(t)
<1>1. frame[h].pc \in Awaits
  BY DEF Replanned, FailureSummed, Summed, AnswerReviewed, Reviewed, Decided, RoundPlanned, Awaits
<1>2. PICK u \in Tasks : frame[h].task = u
  BY DEF TypeOK, Frame
<1>3. CASE Replanned(h)
  <2>1. CASE Await(h, "sumFail") /\ UNCHANGED << obj, row, replans >>
    BY <1>1, <1>2, <1>3, <2>1, AwaitKnown, MovesTaken DEF Replanned, Awaits
  <2>2. ASSUME NEW p \in Plans, Return(h),
               NEW new, new = [obj[u] EXCEPT !.plan = p, !.done = {}, !.res = {}, !.nres = 0],
               row' = [row EXCEPT ![u] = Saved(new)], Sweep([obj EXCEPT ![u] = new])
        PROVE  \A t \in Tasks : RunTaken(t)
    <3>1. new \in Task /\ new.run = obj[u].run
      <4>1. obj[u] \in Task /\ 0 \in 0..2
        BY DEF TypeOK
      <4> QED
        BY <2>2, <4>1 DEF Task
    <3>2. Referred(u) /\ pend' \subseteq pend
      BY <1>1, <1>2, <1>3 DEF Referred, Awaited, Replanned
    <3> QED
      BY <2>2, <3>1, <3>2, ReturnKnown, OneTaskTaken
  <2> QED
    BY <1>2, <1>3, <2>1, <2>2 DEF Replanned
<1>4. CASE FailureSummed(h) \/ Summed(h)
  <2>1. Return(h) \/ Abort(h) \/ Await(h, "ansReview") \/ CloseRound(h)
    BY <1>4 DEF FailureSummed, Summed
  <2>2. \A t \in Tasks : FramesKnown(t)
    BY <1>1, <2>1, ReturnKnown, AwaitKnown, CloseRoundKnown DEF Awaits
  <2>3. pend' \subseteq pend /\ (UNCHANGED row \/ row' = [row EXCEPT ![u] = NoRow]) /\ Sweep(obj)
    BY <1>2, <1>4 DEF FailureSummed, Summed
  <2> QED
    BY <2>2, <2>3, MovesTaken
<1>5. CASE AnswerReviewed(h) \/ Reviewed(h) \/ Decided(h)
  <2>1. Return(h) \/ Await(h, "plan") \/ Await(h, "decide") \/ CloseRound(h)
    BY <1>5 DEF AnswerReviewed, Reviewed, Decided, EnterPlan
  <2>2. \A t \in Tasks : FramesKnown(t)
    BY <1>1, <2>1, ReturnKnown, AwaitKnown, CloseRoundKnown DEF Awaits
  <2>3. pend' \subseteq pend /\ UNCHANGED row /\ Sweep(obj)
    BY <1>5 DEF AnswerReviewed, Reviewed, Decided
  <2> QED
    BY <2>2, <2>3, MovesTaken
<1>6. CASE RoundPlanned(h)
  <2>1. obj[u].conv \in Convs /\ obj[u].run \in Runs \cup {NoRun}
    BY DEF TypeOK, Task
  <2>2. \A t \in Tasks : FramesKnown(t)
    BY <1>6, ReturnKnown DEF RoundPlanned
  <2> QED
    BY <1>2, <1>6, <2>1, <2>2, PlanAnswerTaken DEF RoundPlanned
<1> QED
  BY <1>3, <1>4, <1>5, <1>6

LEMMA UserRequestTaken ==
  ASSUME TypeOK, UserRequest
  PROVE  \A t \in Tasks : RunTaken(t)
<1>1. UNCHANGED frame => \A t \in Tasks : FramesKnown(t)
  BY SameFramesKnown
<1>2. ASSUME NEW u \in Tasks, ConfirmDraft(u)
      PROVE  \A t \in Tasks : RunTaken(t)
  <2>1. PICK p \in Plans :
          /\ obj' = [obj EXCEPT ![u] = [obj[u] EXCEPT !.plan = p, !.draft = FALSE]]
          /\ row' = [row EXCEPT ![u] = Saved([obj[u] EXCEPT !.plan = p, !.draft = FALSE])]
    BY <1>2 DEF ConfirmDraft
  <2> DEFINE new == [obj[u] EXCEPT !.plan = p, !.draft = FALSE]
  <2>2. new \in Task /\ new.run = obj[u].run
    BY DEF TypeOK, Task
  <2>3. obj' = [obj EXCEPT ![u] = new] /\ row' = [row EXCEPT ![u] = Saved(new)]
    BY <2>1
  <2>4. Referred(u) /\ pend' \subseteq pend /\ UNCHANGED frame
    BY <1>2 DEF ConfirmDraft, Referred
  <2> HIDE DEF new
  <2> QED
    BY <1>1, <2>2, <2>3, <2>4, OneTaskTaken
<1>3. ASSUME NEW u \in Tasks, CancelTask(u)
      PROVE  \A t \in Tasks : RunTaken(t)
  <2> DEFINE new == [obj[u] EXCEPT !.cancelled = TRUE]
  <2>1. new \in Task /\ new.run = obj[u].run
    BY DEF TypeOK, Task
  <2>2. Referred(u) /\ pend' \subseteq pend /\ UNCHANGED frame
    BY <1>3 DEF CancelTask, Referred
  <2>3. \/ Sweep(obj) /\ row' = [row EXCEPT ![u] = NoRow]
        \/ obj' = [obj EXCEPT ![u] = new] /\ row' = [row EXCEPT ![u] = Saved(new)]
    BY <1>3 DEF CancelTask
  <2> HIDE DEF new
  <2> QED
    BY <1>1, <2>1, <2>2, <2>3, OneTaskTaken, MovesTaken
<1>4. ASSUME NEW u \in Tasks, Feedback(u)
      PROVE  \A t \in Tasks : RunTaken(t)
  <2> DEFINE new == [obj[u] EXCEPT !.cancelled = TRUE]
  <2>1. new \in Task /\ new.run = obj[u].run
    BY DEF TypeOK, Task
  <2>2. Sweep([obj EXCEPT ![u] = new])
    BY <1>4 DEF Feedback
  <2>3. /\ Referred(u) /\ pend' \subseteq pend /\ UNCHANGED frame
        /\ row' = [row EXCEPT ![u] = NoRow]
    BY <1>4 DEF Feedback, Referred
  <2> HIDE DEF new
  <2> QED
    BY <1>1, <2>1, <2>2, <2>3, OneTaskTaken
<1>5. ASSUME NEW r \in Runs, CancelRun(r)
      PROVE  \A t \in Tasks : RunTaken(t)
  <2>1. \A t \in Tasks : [row[t].task EXCEPT !.cancelled = TRUE].run = row[t].task.run
    BY DEF TypeOK, Row, Task
  <2>2. \A t \in Tasks : Present(t)' => Present(t) /\ row'[t].task.run = row[t].task.run
    BY <1>5, <2>1 DEF CancelRun, Present
  <2> QED
    BY <1>1, <1>5, <2>2, RowsTaken DEF CancelRun
<1>6. ASSUME NEW c \in Clients, NEW u \in Tasks, ClientReport(c, u)
      PROVE  \A t \in Tasks : RunTaken(t)
  <2>1. PICK s \in StepIds(Current(u).plan), outcome \in ClientOutcomes :
          HandleStepDone(c, u, s, outcome)
    BY <1>6 DEF ClientReport
  <2>2. c \in Handlers /\ frame[c].pc \notin Awaits /\ outcome \in SUBSET Kinds
    BY <1>6, PlansAssumption DEF ClientReport, Handlers, Awaits
  <2>3. s \in AllSteps
    <3>1. Current(u).plan \in Plans \cup {<< >>}
      BY DEF Current, TypeOK, Row, Task
    <3> QED
      BY <3>1, PlanType DEF StepIds
  <2> QED
    BY <2>1, <2>2, <2>3, HandleStepDoneTaken
<1>7. CASE UNCHANGED << pend, obj, row, frame >>
  BY <1>1, <1>7, RowsTaken DEF Present
<1> QED
  BY <1>2, <1>3, <1>4, <1>5, <1>6, <1>7
  DEF UserRequest, PlanRequest, AutoRun, Confirm, Propose, Reject

LEMMA ExecutorTaken ==
  ASSUME TypeOK, Executor
  PROVE  \A t \in Tasks : RunTaken(t)
<1>1. CASE Scan
  <2>1. \A h \in Handlers : \/ frame'[h] = frame[h]
                            \/ frame'[h].pc = "queued"
    BY <1>1 DEF Scan
  <2>2. \A t \in Tasks : FramesKnown(t)
    BY <2>1 DEF FramesKnown, Awaited, Reviewing, Awaits
  <2> QED
    BY <1>1, <2>2, RowsTaken DEF Scan, Present
<1>2. ASSUME NEW u \in Tasks, Start(u)
      PROVE  \A t \in Tasks : RunTaken(t)
  <2>1. u \in Handlers
    BY DEF Handlers
  <2>2. /\ \A x \in Handlers : x # u => frame'[x] = frame[x]
        /\ frame'[u].pc \in {"idle", "exec"}
    <3>1. [frame[u] EXCEPT !.pc = "exec", !.left = frame[u].left].pc = "exec"
      BY <2>1 DEF TypeOK, Frame
    <3>2. frame'[u] = NextStep(u, frame[u].left)
      BY <1>2, <2>1 DEF Start, TypeOK
    <3> QED
      BY <1>2, <2>1, <3>1, <3>2 DEF Start, NextStep, IdleFrame, TypeOK
  <2>3. \A t \in Tasks : FramesKnown(t)
    BY <2>2 DEF FramesKnown, Awaited, Reviewing, Awaits
  <2>4. \A t \in Tasks : row'[t].task = row[t].task /\ (Present(t)' => Present(t))
    <3>1. [row[u] EXCEPT !.status = "completed"].task = row[u].task
      BY DEF TypeOK, Row
    <3> QED
      BY <1>2, <3>1 DEF Start, TypeOK, Present
  <2> QED
    BY <1>2, <2>3, <2>4, RowsTaken DEF Start
<1>3. ASSUME NEW u \in Tasks, StepDone(u)
      PROVE  \A t \in Tasks : RunTaken(t)
  <2>1. PICK i \in frame[u].left, outcome \in WorkerOutcomes :
          HandleStepDone(u, u, frame[u].plan[i], outcome)
    BY <1>3 DEF StepDone
  <2>2. u \in Handlers /\ frame[u].pc \notin Awaits /\ outcome \in SUBSET Kinds
    BY <1>3, PlansAssumption DEF StepDone, Handlers, Awaits
  <2>3. frame[u].plan[i] \in AllSteps
    <3>1. frame[u].plan \in Plans \cup {<< >>} /\ i \in DOMAIN frame[u].plan
      BY <2>1, <2>2 DEF TypeOK, Frame
    <3> QED
      BY <3>1, PlanType
  <2> QED
    BY <2>1, <2>2, <2>3, HandleStepDoneTaken
<1> QED
  BY <1>1, <1>2, <1>3 DEF Executor

LEMMA ServerTaken ==
  ASSUME TypeOK, Server
  PROVE  \A t \in Tasks : RunTaken(t) \/ RunGiven(t)
<1>1. UNCHANGED frame => \A t \in Tasks : FramesKnown(t)
  BY SameFramesKnown
<1>2. ASSUME NEW q \in Requests, Planned(q)
      PROVE  \A t \in Tasks : RunTaken(t) \/ RunGiven(t)
  <2>1. /\ request[q].conv \in Convs /\ request[q].run \in Runs \cup {NoRun}
        /\ request[q].draft \in BOOLEAN
    BY DEF TypeOK, Request
  <2> QED
    BY <1>1, <1>2, <2>1, PlanAnswerTaken DEF Planned
<1>3. CASE ResumePlanned
  <2>1. boot.run \in Runs
    BY <1>3 DEF ResumePlanned, TypeOK, Boot
  <2>2. run[boot.run].conv \in Convs
    BY <2>1 DEF TypeOK, Run
  <2> QED
    BY <1>1, <1>3, <2>1, <2>2, PlanAnswerTaken DEF ResumePlanned
<1>4. ASSUME NEW u \in Tasks, Cleanup(u)
      PROVE  \A t \in Tasks : RunTaken(t)
  <2>1. pend' \subseteq pend /\ UNCHANGED << obj, frame >> /\ row' = [row EXCEPT ![u] = NoRow]
    BY <1>4 DEF Cleanup
  <2> QED
    BY <1>1, <2>1, MovesTaken
<1>5. CASE Restart
  <2> SUFFICES ASSUME NEW t \in Tasks
               PROVE  RunTaken(t)
    OBVIOUS
  <2>1. row'[t].task = row[t].task /\ (Present(t)' => Present(t))
    <3>1. [row[t] EXCEPT !.status = "interrupted"].task = row[t].task
      BY DEF TypeOK, Row
    <3> QED
      BY <1>5, <3>1 DEF Restart, Present
  <2>2. \A h \in Handlers : ~Awaited(h, t)' /\ ~Reviewing(h, t)'
    BY <1>5 DEF Restart, IdleFrame, Awaited, Awaits, Reviewing
  <2>3. Referred(t)' => Present(t)' /\ obj'[t] = row[t].task
    BY <1>5, <2>2 DEF Restart, Referred, Present
  <2> QED
    BY <2>1, <2>2, <2>3 DEF RunTaken
<1>6. CASE UNCHANGED << pend, obj, row, frame >>
  BY <1>1, <1>6, RowsTaken DEF Present
<1> QED
  BY <1>2, <1>3, <1>4, <1>5, <1>6 DEF Server, StartPlan, ResumeRead, ResumeNext

LEMMA InitKnown == Init => RunsKnown
<1> SUFFICES ASSUME Init, NEW t \in Tasks
             PROVE  RunKnown(t)
  BY DEF RunsKnown
<1>1. ~Present(t) /\ \A h \in Handlers : frame[h].pc = "idle"
  BY DEF Init, Present, NoRow, IdleFrame
<1> QED
  BY <1>1 DEF RunKnown, Reviewing

LEMMA NextKnown == TypeOK /\ RunsKnown /\ [Next]_vars => RunsKnown'
<1> SUFFICES ASSUME TypeOK, RunsKnown, [Next]_vars
             PROVE  \A t \in Tasks : RunTaken(t) \/ RunGiven(t)
  BY KnownRunKept DEF RunsKnown
<1>1. CASE UNCHANGED vars
  BY <1>1, SameFramesKnown, RowsTaken DEF vars, Present
<1> QED
  BY <1>1, ExecutorTaken, CallbackTaken, UserRequestTaken, ServerTaken DEF Next, Callback

-----------------------------------------------------------------------------
(* What a run is charged *)

\* Ids not handed out yet have no charges: what AutoRun and Propose overwrite is 0.
Unpaid == \A r \in Runs : run[r].status = "unused" => run[r].used = 0

\* The step charges no run and takes no id back.
Free ==
  \A r \in Runs :
    /\ run'[r].used = run[r].used
    /\ run'[r].status = "unused" => run[r].status = "unused"

\* The step charges a round to a run that is running, is below its limit and can pay.
Pays(r) ==
  /\ run[r].status = "running" /\ run'[r].status # "unused"
  /\ run[r].used < BudgetStop /\ run'[r].used = run[r].used + CreditsPerRound
  /\ balance >= CreditsPerRound /\ balance' = balance - CreditsPerRound
  /\ \A x \in Runs \ {r} : run'[x] = run[x]

Charges == (Free /\ UNCHANGED balance) \/ \E r \in Runs : Pays(r)

LEMMA UnchangedFree == UNCHANGED run => Free
BY DEF Free

\* A record that replaces that of its run
LEMMA RecordFree ==
  ASSUME TypeOK, NEW r, NEW rec,
         r \in Runs => rec.status # "unused" /\ rec.used = run[r].used,
         run' = [run EXCEPT ![r] = rec]
  PROVE  Free
<1>1. \A x \in Runs : run'[x] = IF x = r THEN rec ELSE run[x]
  BY DEF TypeOK
<1> QED
  BY <1>1 DEF Free

LEMMA FinishRunFree ==
  ASSUME TypeOK, NEW r, NEW s \in RunStatus, run' = FinishRun(r, s)
  PROVE  Free
<1>1. \A x \in Runs : run[x] \in Run
  BY DEF TypeOK
<1>2. \A x \in Runs : x = r => run'[x].status = s /\ run'[x].used = run[x].used
  BY <1>1 DEF FinishRun, Run
<1>3. \A x \in Runs : x # r => run'[x] = run[x]
  BY DEF FinishRun
<1>4. s # "unused"
  BY DEF RunStatus
<1> QED
  BY <1>2, <1>3, <1>4 DEF Free

\* Recording a round charges nothing.
LEMMA RecordRoundFree ==
  ASSUME NEW rec \in Run, NEW review
  PROVE  RecordRound(rec, review).used = rec.used /\ RecordRound(rec, review).status = rec.status
BY DEF RecordRound, Run

LEMMA RequestRestartFree ==
  ASSUME TypeOK, NEW r, RequestRestart(r)
  PROVE  Free
<1>1. PICK noted \in {TRUE, ~StorageFaults} :
        run' = IF r = NoRun THEN run
               ELSE LET rec == IF noted THEN RecordRound(run[r], "yes") ELSE run[r]
                    IN  [run EXCEPT ![r] = [rec EXCEPT !.status = "restart_pending"]]
  BY DEF RequestRestart
<1> DEFINE rec == IF noted THEN RecordRound(run[r], "yes") ELSE run[r]
           parked == [rec EXCEPT !.status = "restart_pending"]
<1>2. CASE r = NoRun
  BY <1>1, <1>2, UnchangedFree
<1>3. CASE r # NoRun
  <2>1. r \in Runs => rec \in Run /\ rec.used = run[r].used
    BY RecordRoundType, RecordRoundFree DEF TypeOK
  <2>2. r \in Runs => parked.status = "restart_pending" /\ parked.used = run[r].used
    BY <2>1 DEF Run
  <2>3. run' = [run EXCEPT ![r] = parked]
    BY <1>1, <1>3
  <2> HIDE DEF parked
  <2> QED
    BY <2>2, <2>3, RecordFree
<1> QED
  BY <1>2, <1>3

LEMMA CloseRoundFree ==
  ASSUME TypeOK, NEW h \in Handlers, CloseRound(h)
  PROVE  Free
BY UnchangedFree, RequestRestartFree, FinishRunFree DEF CloseRound, RunStatus

LEMMA HandleStepDoneFree ==
  ASSUME TypeOK, NEW h, NEW t, NEW s, NEW outcome, HandleStepDone(h, t, s, outcome)
  PROVE  Free
<1>1. CASE ResultDropped(h, t)
  BY <1>1, UnchangedFree DEF ResultDropped
<1>2. CASE ResultOfCancelled(h, t)
  BY <1>2, UnchangedFree DEF ResultOfCancelled
<1>3. CASE ResultRecorded(h, t, s, outcome)
  BY <1>3, UnchangedFree, RequestRestartFree DEF ResultRecorded
<1> QED
  BY <1>1, <1>2, <1>3 DEF HandleStepDone

LEMMA AnswerReviewedFree ==
  ASSUME TypeOK, NEW h \in Handlers, AnswerReviewed(h)
  PROVE  Free
<1>1. ASSUME NEW review \in {"yes", "null", "error"},
             run' = IF RunOf(h) = NoRun THEN run
                    ELSE LET rec == IF review = "error" THEN run[RunOf(h)]
                                    ELSE RecordRound(run[RunOf(h)], review)
                         IN  [run EXCEPT ![RunOf(h)] = [rec EXCEPT !.status = "completed"]]
      PROVE  Free
  <2> DEFINE r == RunOf(h)
             rec == IF review = "error" THEN run[r] ELSE RecordRound(run[r], review)
             over == [rec EXCEPT !.status = "completed"]
  <2>1. r \in Runs => rec \in Run /\ rec.used = run[r].used
    BY RecordRoundType, RecordRoundFree DEF TypeOK
  <2>2. r \in Runs => over.status = "completed" /\ over.used = run[r].used
    BY <2>1 DEF Run
  <2>3. UNCHANGED run \/ run' = [run EXCEPT ![r] = over]
    BY <1>1
  <2> HIDE DEF r, over
  <2> QED
    BY <2>2, <2>3, UnchangedFree, RecordFree
<1> QED
  BY <1>1, CloseRoundFree DEF AnswerReviewed

\* check_and_continue charges a run only if its second look finds it running, below its
\* limit, and the purse full enough.
LEMMA VerdictCharges ==
  ASSUME TypeOK,
         NEW rec \in Run, NEW review \in {"null", "yes", "no"}, NEW v \in Verdicts(rec, review)
  PROVE  \/ v.rec.used = rec.used /\ v.paid = 0
         \/ /\ rec.status = "running" /\ rec.used < BudgetStop /\ balance >= CreditsPerRound
            /\ v.rec.used = rec.used + CreditsPerRound /\ v.paid = CreditsPerRound
<1> DEFINE noted == RecordRound(rec, review)
           next  == [noted EXCEPT !.used = @ + CreditsPerRound]
<1>1. noted \in Run /\ noted.used = rec.used
  BY RecordRoundType, RecordRoundFree
<1>2. next.used = rec.used + CreditsPerRound /\ [noted EXCEPT !.stop = "rounds"].used = rec.used
  BY <1>1 DEF Run
<1>3. \A x \in Run : \A reason : Refuse(x, reason).rec.used = x.used /\ Refuse(x, reason).paid = 0
  BY DEF Refuse, Run
<1> HIDE DEF noted, next
<1>4. \/ v \in {[go |-> FALSE, rec |-> rec, paid |-> 0],
                [go |-> FALSE, rec |-> [noted EXCEPT !.stop = "rounds"], paid |-> 0]}
      \/ \E x \in {rec, noted} : \E reason : v = Refuse(x, reason)
      \/ /\ v = [go |-> TRUE, rec |-> next, paid |-> CreditsPerRound]
         /\ GoesOn(rec) /\ ~OverBudget(noted) /\ ~PurseEmpty
  BY DEF Verdicts, noted, next
<1>5. CASE \E x \in {rec, noted} : \E reason : v = Refuse(x, reason)
  BY <1>1, <1>3, <1>5
<1>6. CASE /\ v = [go |-> TRUE, rec |-> next, paid |-> CreditsPerRound]
           /\ GoesOn(rec) /\ ~OverBudget(noted) /\ ~PurseEmpty
  <2>1. rec.used \in Nat /\ balance \in Int /\ BudgetStop \in Nat /\ CreditsPerRound \in Nat
    BY LimitsAssumption DEF Run, TypeOK
  <2>2. rec.used < BudgetStop
    BY <1>1, <1>6, <2>1 DEF OverBudget
  <2>3. balance >= CreditsPerRound
    BY <1>6, <2>1 DEF PurseEmpty
  <2>4. rec.status = "running"
    BY <1>6 DEF GoesOn
  <2> QED
    BY <1>2, <1>6, <2>2, <2>3, <2>4
<1>7. CASE v \in {[go |-> FALSE, rec |-> rec, paid |-> 0],
                 [go |-> FALSE, rec |-> [noted EXCEPT !.stop = "rounds"], paid |-> 0]}
  <2>1. v.paid = 0 /\ v.rec \in {rec, [noted EXCEPT !.stop = "rounds"]}
    BY <1>7
  <2> QED
    BY <1>2, <2>1
<1> QED
  BY <1>4, <1>5, <1>6, <1>7

LEMMA ReviewedCharges ==
  ASSUME TypeOK, RunsKnown, NEW h \in Handlers, Reviewed(h)
  PROVE  Charges
<1> DEFINE r == RunOf(h)
<1>0. r \in Runs
  <2>1. frame[h].task \in Tasks /\ Reviewing(h, frame[h].task)
    BY DEF Reviewed, Reviewing, TypeOK, Frame
  <2>2. obj[frame[h].task].run \in Runs \cup {NoRun}
    BY <2>1 DEF TypeOK, Task
  <2> QED
    BY <2>1, <2>2 DEF RunsKnown, RunKnown, RunOf
<1> HIDE DEF r
<1>1. ASSUME NEW review \in {"yes", "no", "null"}, NEW noted \in BOOLEAN,
             NEW v \in Verdicts(IF review # "null" /\ noted
                                THEN RecordRound(run[r], review) ELSE run[r], review),
             \/ run' = [run EXCEPT ![r] = [v.rec EXCEPT !.status = "completed"]]
             \/ v.go /\ run' = [run EXCEPT ![r] = v.rec],
             balance' = balance - v.paid
      PROVE  Charges
  <2> DEFINE rec  == IF review # "null" /\ noted THEN RecordRound(run[r], review) ELSE run[r]
             over == [v.rec EXCEPT !.status = "completed"]
  <2>1. rec \in Run /\ rec.used = run[r].used /\ rec.status = run[r].status
    BY <1>0, RecordRoundType, RecordRoundFree DEF TypeOK
  <2>2. v.rec \in Run /\ (v.go => v.rec.status = "running")
    BY <2>1, VerdictType, VerdictGoes
  <2>3. \/ v.rec.used = run[r].used /\ v.paid = 0
        \/ /\ run[r].status = "running" /\ run[r].used < BudgetStop /\ balance >= CreditsPerRound
           /\ v.rec.used = run[r].used + CreditsPerRound /\ v.paid = CreditsPerRound
    <3> HIDE DEF rec
    <3>1. v \in Verdicts(rec, review)
      BY DEF rec
    <3> QED
      BY <2>1, <3>1, VerdictCharges
  <2>4. over.used = v.rec.used /\ over.status = "completed"
    BY <2>2 DEF Run
  <2> HIDE DEF rec, over
  <2>5. PICK final \in {over, v.rec} : /\ run' = [run EXCEPT ![r] = final]
                                       /\ final.status # "unused" /\ final.used = v.rec.used
    BY <1>1, <2>2, <2>4 DEF over
  <2>6. run'[r] = final /\ \A x \in Runs \ {r} : run'[x] = run[x]
    BY <1>0, <2>5 DEF TypeOK
  <2>7. CASE v.rec.used = run[r].used /\ v.paid = 0
    <3>1. UNCHANGED balance
      BY <1>1, <2>7 DEF TypeOK
    <3> QED
      BY <2>5, <2>6, <2>7, <3>1 DEF Charges, Free
  <2>8. CASE /\ run[r].status = "running" /\ run[r].used < BudgetStop
             /\ balance >= CreditsPerRound
             /\ v.rec.used = run[r].used + CreditsPerRound /\ v.paid = CreditsPerRound
    <3>1. Pays(r)
      BY <1>1, <2>5, <2>6, <2>8 DEF Pays
    <3> QED
      BY <1>0, <3>1 DEF Charges
  <2> QED
    BY <2>3, <2>7, <2>8
<1>2. ASSUME NEW rec \in {run[r]} \cup {RecordRound(run[r], review) : review \in {"yes", "no"}},
             run' = [run EXCEPT ![r] = [rec EXCEPT !.status = "error"]], UNCHANGED balance
      PROVE  Charges
  <2> DEFINE over == [rec EXCEPT !.status = "error"]
  <2>1. rec \in Run /\ rec.used = run[r].used
    BY <1>0, RecordRoundType, RecordRoundFree DEF TypeOK
  <2>2. over.status = "error" /\ over.used = run[r].used
    BY <2>1 DEF Run
  <2>3. run' = [run EXCEPT ![r] = over]
    BY <1>2
  <2> HIDE DEF over
  <2> QED
    BY <1>2, <2>2, <2>3, RecordFree DEF Charges
<1> QED
  BY <1>1, <1>2, LimitsAssumption DEF Reviewed, r

\* A step charges one run that can pay, or none.
LEMMA NextCharges == TypeOK /\ RunsKnown /\ Unpaid /\ [Next]_vars => Charges
<1> SUFFICES ASSUME TypeOK, RunsKnown, Unpaid, [Next]_vars
             PROVE  Charges
  OBVIOUS
<1>1. CASE UNCHANGED vars
  BY <1>1, UnchangedFree DEF vars, Charges
<1>2. CASE Executor
  BY <1>2, UnchangedFree, HandleStepDoneFree DEF Executor, Scan, Start, StepDone, Charges
<1>3. CASE Callback
  <2> SUFFICES ASSUME NEW h \in Handlers,
                      \/ Replanned(h) \/ FailureSummed(h) \/ Summed(h) \/ AnswerReviewed(h)
                      \/ Reviewed(h) \/ Decided(h) \/ RoundPlanned(h)
               PROVE  Charges
    BY <1>3 DEF Callback
  <2>1. CASE Replanned(h) \/ FailureSummed(h)
    BY <2>1, UnchangedFree DEF Replanned, FailureSummed, Charges
  <2>2. CASE Summed(h)
    BY <2>2, UnchangedFree, CloseRoundFree DEF Summed, Charges
  <2>3. CASE Decided(h)
    BY <2>3, UnchangedFree, FinishRunFree DEF Decided, RunStatus, Charges
  <2>4. CASE RoundPlanned(h)
    BY <2>4, UnchangedFree, FinishRunFree DEF RoundPlanned, RunStatus, Charges
  <2>5. CASE AnswerReviewed(h)
    BY <2>5, AnswerReviewedFree DEF AnswerReviewed, Charges
  <2> QED
    BY <2>1, <2>2, <2>3, <2>4, <2>5, ReviewedCharges
<1>4. CASE UserRequest
  <2>1. ASSUME NEW q \in Requests, NEW c \in Convs, AutoRun(q, c)
        PROVE  Free /\ UNCHANGED balance
    <3>1. PICK new \in Runs :
            /\ IsNextRun(new)
            /\ run' = [r \in Runs |-> IF r = new THEN NewRun(c, "running")
                                      ELSE IF IsNewest(r, Active)
                                      THEN [run[r] EXCEPT !.status = "timeout"]
                                      ELSE run[r]]
      BY <2>1 DEF AutoRun
    <3>2. \A r \in Runs : LET late == [run[r] EXCEPT !.status = "timeout"]
                         IN  late.status = "timeout" /\ late.used = run[r].used
      BY DEF TypeOK, Run
    <3>3. NewRun(c, "running").used = 0 /\ NewRun(c, "running").status = "running"
      BY DEF NewRun
    <3>4. run[new].used = 0
      BY <3>1 DEF Unpaid, IsNextRun, IsFirst
    <3> QED
      BY <2>1, <3>1, <3>2, <3>3, <3>4 DEF Free, AutoRun
  <2>2. ASSUME NEW c \in Convs, Propose(c)
        PROVE  Free /\ UNCHANGED balance
    <3>1. PICK new \in Runs : IsNextRun(new) /\ run' = [run EXCEPT ![new] = NewRun(c, "proposed")]
      BY <2>2 DEF Propose
    <3>2. NewRun(c, "proposed").used = 0 /\ NewRun(c, "proposed").status = "proposed"
      BY DEF NewRun
    <3>3. run[new].used = 0
      BY <3>1 DEF Unpaid, IsNextRun, IsFirst
    <3> QED
      BY <2>2, <3>1, <3>2, <3>3, RecordFree DEF Propose
  <2>3. ASSUME NEW r \in Runs, Reject(r) \/ CancelRun(r)
        PROVE  Free /\ UNCHANGED balance
    BY <2>3, UnchangedFree, FinishRunFree DEF Reject, RejectRun, CancelRun, RunStatus
  <2>4. ASSUME NEW q \in Requests, NEW r \in Runs, Confirm(q, r)
        PROVE  Free /\ UNCHANGED balance
    BY <2>4, FinishRunFree DEF Confirm, ConfirmRun, RunStatus
  <2>5. ASSUME NEW c \in Clients, NEW t \in Tasks, ClientReport(c, t)
        PROVE  Free /\ UNCHANGED balance
    BY <2>5, HandleStepDoneFree DEF ClientReport
  <2>6. CASE UNCHANGED << run, balance >>
    BY <2>6, UnchangedFree DEF Charges
  <2> QED
    BY <1>4, <2>1, <2>2, <2>3, <2>4, <2>5, <2>6
    DEF Charges, UserRequest, PlanRequest, ConfirmDraft, CancelTask, Feedback
<1>5. CASE Server
  <2>1. CASE Restart
    <3>1. \A r \in Runs : LET late == [run[r] EXCEPT !.status = "interrupted"]
                         IN  late.status = "interrupted" /\ late.used = run[r].used
      BY DEF TypeOK, Run
    <3>2. \A r \in Runs : \/ run'[r] = run[r]
                          \/ run'[r].status = "interrupted" /\ run'[r].used = run[r].used
      BY <2>1, <3>1 DEF Restart
    <3> QED
      BY <2>1, <3>2 DEF Restart, Free, Charges
  <2>2. CASE ResumeNext
    BY <2>2, UnchangedFree, FinishRunFree DEF ResumeNext, RunStatus, Charges
  <2>3. CASE UNCHANGED << run, balance >>
    BY <2>3, UnchangedFree DEF Charges
  <2> QED
    BY <1>5, <2>1, <2>2, <2>3 DEF Server, StartPlan, Planned, ResumeRead, ResumePlanned, Cleanup
<1> QED
  BY <1>1, <1>2, <1>3, <1>4, <1>5 DEF Next

LEMMA RunsStayKnown == Spec => [](TypeOK /\ RunsKnown /\ Unpaid)
<1>1. Init => Unpaid
  BY DEF Init, Unpaid, NewRun
<1>2. TypeOK /\ RunsKnown /\ Unpaid /\ [Next]_vars => Unpaid'
  BY NextCharges DEF Charges, Free, Pays, Unpaid
<1> QED
  BY TypeCorrect, InitKnown, NextKnown, <1>1, <1>2, PTL DEF Spec

\* A run that is not running is never charged (check_and_continue reads the run
\* again after the model's review; RunStore.charge comes after that look).
THEOREM OnlyRunningCharged == Spec => OnlyRunningRunsPay
<1>1. TypeOK /\ RunsKnown /\ Unpaid /\ [Next]_vars => RunningRunsPay
  BY NextCharges DEF Charges, Free, Pays, RunningRunsPay
<1> QED
  BY RunsStayKnown, <1>1, PTL DEF Spec, OnlyRunningRunsPay

-----------------------------------------------------------------------------
(* The purse *)

LEMMA ChargedType ==
  ASSUME TypeOK
  PROVE  /\ \A r \in Runs : Charged[r] \in Int
         /\ SumFunctionOnSet(Charged, Runs) \in Int
<1>1. \A r \in Runs : Charged[r] \in Int
  BY DEF Charged, TypeOK, Run
<1> QED
  BY <1>1, SumType, IdsAssumption

LEMMA InitPaid == Init => RoundsPaid
<1> SUFFICES ASSUME Init PROVE RoundsPaid
  OBVIOUS
<1>1. \A r \in Runs : run[r].used = 0 /\ Charged[r] = 0
  BY DEF Init, NewRun, Charged
<1>2. SumFunctionOnSet(Charged, Runs) = 0
  <2>1. \A r \in Runs : Charged[r] = 0
    BY <1>1
  <2>2. 0 \in Int /\ IsFiniteSet(Runs)
    BY IdsAssumption
  <2>3. SumFunctionOnSet(Charged, Runs) = Cardinality(Runs) * 0
    BY <2>1, <2>2, SumOfConstant
  <2> QED
    BY <2>2, <2>3, FS_CardinalityType
<1> QED
  BY <1>1, <1>2, LimitsAssumption DEF Init, RoundsPaid

\* What a run is charged leaves the purse.
LEMMA ChargeKeeps ==
  ASSUME TypeOK, TypeOK', RoundsPaid, Charges
  PROVE  RoundsPaid'
<1>1. SumFunctionOnSet(Charged, Runs) \in Int /\ \A r \in Runs : Charged[r] \in Int /\ Charged'[r] \in Int
  BY ChargedType DEF Charged, TypeOK, Run
<1>2. CASE Free /\ UNCHANGED balance
  <2>1. \A r \in Runs : Charged'[r] = Charged[r]
    BY <1>2 DEF Free, Charged
  <2>2. SumFunctionOnSet(Charged', Runs) = SumFunctionOnSet(Charged, Runs)
    BY <2>1, SumExtensional, IdsAssumption
  <2> QED
    BY <1>2, <2>2 DEF Free, RoundsPaid
<1>3. ASSUME NEW r \in Runs, Pays(r)
      PROVE  RoundsPaid'
  <2>1. /\ Charged'[r] = Charged[r] + CreditsPerRound
        /\ \A x \in Runs : x # r => Charged'[x] = Charged[x]
    BY <1>3 DEF Pays, Charged
  <2>2. SumFunctionOnSet(Charged', Runs)
          = SumFunctionOnSet(Charged, Runs) + Charged'[r] - Charged[r]
    BY <1>1, <2>1, SumChangesBy, IdsAssumption
  <2>3. balance \in Int /\ CreditsPerRound \in Nat /\ BudgetStop \in Nat /\ InitBalance \in Nat
    BY LimitsAssumption DEF TypeOK
  <2>4. SumFunctionOnSet(Charged', Runs) = SumFunctionOnSet(Charged, Runs) + CreditsPerRound
    BY <1>1, <2>1, <2>2, <2>3
  <2>5. balance' >= 0 /\ balance' + SumFunctionOnSet(Charged', Runs) = InitBalance
    BY <1>1, <1>3, <2>3, <2>4 DEF Pays, RoundsPaid
  <2>6. \A x \in Runs : run'[x].used < BudgetStop + CreditsPerRound
    <3>1. run[r].used \in Nat
      BY DEF TypeOK, Run
    <3>2. run'[r].used < BudgetStop + CreditsPerRound
      BY <1>3, <2>3, <3>1 DEF Pays
    <3> QED
      BY <1>3, <3>2 DEF Pays, RoundsPaid
  <2> QED
    BY <2>5, <2>6 DEF RoundsPaid
<1> QED
  BY <1>2, <1>3 DEF Charges

\* Whatever users, handlers and restarts do, the rounds of all runs together have cost
\* what is missing from the purse, which is never overdrawn, and no run has cost more
\* than its limit and one round (the checks of check_and_continue before the charge).
THEOREM RoundsArePaid == Spec => []RoundsPaid
<1>1. TypeOK /\ RunsKnown /\ Unpaid /\ RoundsPaid /\ [Next]_vars => RoundsPaid'
  <2> SUFFICES ASSUME TypeOK, RunsKnown, Unpaid, RoundsPaid, [Next]_vars
               PROVE  RoundsPaid'
    OBVIOUS
  <2> QED
    BY NextType, NextCharges, ChargeKeeps
<1> QED
  BY RunsStayKnown, InitPaid, <1>1, PTL DEF Spec

-----------------------------------------------------------------------------
(* The invariant of a task *)

\* The handlers that wait for a new plan of the task
Replanning(t) == {h \in Handlers : frame[h].task = t /\ frame[h].pc = "replan"}

\* The worker of a task holds that task.
OwnWorker(t) == frame[t].task = t

RowAgrees(t) == t \in pend /\ Present(t) => Agree(obj[t], row[t].task)

\* No worker is on a draft, before or after a restart, and no handler holds one.
DraftRests(t) ==
  /\ frame[t].pc # "idle" => ~(t \in pend /\ obj[t].draft) /\ ~row[t].task.draft
  /\ \A h \in Handlers : Awaited(h, t) => ~obj[t].draft

\* Every [RETRY_TASK] sent, and every one that may still be sent by a handler that
\* waits, is in the retry counter of the object; those sent are in the row's, which
\* counts for the waiting ones too once the key is gone from memory.
Granted(t) ==
  /\ IsFiniteSet(Replanning(t))
  /\ replans[t] <= MaxRetry
  /\ t \in pend \/ Replanning(t) # {} =>
       replans[t] + Cardinality(Replanning(t)) <= obj[t].retry
  /\ Present(t) => replans[t] <= row[t].task.retry
  /\ Present(t) /\ t \notin pend =>
       replans[t] + Cardinality(Replanning(t)) <= row[t].task.retry

TaskInv(t) == OwnWorker(t) /\ RowAgrees(t) /\ DraftRests(t) /\ Granted(t)

TasksInv == \A t \in Tasks : TaskInv(t)

-----------------------------------------------------------------------------
(* Steps that leave a task alone *)

\* No handler comes to hold the task, and no worker starts on it.
FramesQuiet(t) ==
  /\ frame'[t].task = t
  /\ frame'[t].pc # "idle" => frame[t].pc # "idle"
  /\ \A h \in Handlers : Awaited(h, t)' => Awaited(h, t)
  /\ Replanning(t)' \subseteq Replanning(t)

Quiet(t) ==
  /\ FramesQuiet(t)
  /\ (t \in pend') = (t \in pend)
  /\ row'[t] = row[t] /\ replans'[t] = replans[t]
  /\ Referred(t)' => obj'[t] = obj[t]

LEMMA ReplanningAwaits ==
  ASSUME NEW t
  PROVE  /\ \A h \in Replanning(t) : h \in Handlers /\ Awaited(h, t)
         /\ Replanning(t) # {} => Referred(t)
BY DEF Replanning, Awaited, Awaits, Referred

LEMMA ReplanningAwaitsNext ==
  ASSUME NEW t
  PROVE  /\ \A h \in Replanning(t)' : h \in Handlers /\ Awaited(h, t)'
         /\ Replanning(t)' # {} => Referred(t)'
BY DEF Replanning, Awaited, Awaits, Referred

LEMMA FewerReplanning ==
  ASSUME NEW t, IsFiniteSet(Replanning(t)), Replanning(t)' \subseteq Replanning(t)
  PROVE  /\ IsFiniteSet(Replanning(t)')
         /\ Cardinality(Replanning(t)) \in Nat /\ Cardinality(Replanning(t)') \in Nat
         /\ Cardinality(Replanning(t)') <= Cardinality(Replanning(t))
BY FS_Subset, FS_CardinalityType

LEMMA QuietKeeps ==
  ASSUME TypeOK, TypeOK', NEW t \in Tasks, TaskInv(t), Quiet(t)
  PROVE  TaskInv(t)'
<1>1. OwnWorker(t)'
  BY DEF Quiet, FramesQuiet, OwnWorker
<1>2. RowAgrees(t)'
  BY DEF Quiet, TaskInv, RowAgrees, Present, Referred
<1>3. DraftRests(t)'
  BY DEF Quiet, FramesQuiet, TaskInv, DraftRests, Referred
<1>4. Granted(t)'
  <2>1. /\ IsFiniteSet(Replanning(t)')
        /\ Cardinality(Replanning(t)) \in Nat /\ Cardinality(Replanning(t)') \in Nat
        /\ Cardinality(Replanning(t)') <= Cardinality(Replanning(t))
    BY FewerReplanning DEF Quiet, FramesQuiet, TaskInv, Granted
  <2>2. replans[t] \in Nat /\ obj[t].retry \in Int /\ row[t].task.retry \in Int
    BY LimitsAssumption DEF TypeOK, Task, Row
  <2>3. t \in pend' \/ Replanning(t)' # {} => t \in pend \/ Replanning(t) # {}
    BY DEF Quiet, FramesQuiet
  <2>4. t \in pend' \/ Replanning(t)' # {} => obj'[t] = obj[t]
    BY ReplanningAwaitsNext DEF Quiet, Referred
  <2> QED
    BY <2>1, <2>2, <2>3, <2>4 DEF Quiet, TaskInv, Granted, Present
<1> QED
  BY <1>1, <1>2, <1>3, <1>4 DEF TaskInv

-----------------------------------------------------------------------------
(* Ways to touch a task *)

\* It is created: nothing referred to its id.
LEMMA CreatedKeeps ==
  ASSUME TypeOK, TypeOK', NEW t \in Tasks, FramesQuiet(t), NEW task \in Task,
         \A h \in Handlers : frame[h].task = t => frame[h].pc = "idle",
         OwnWorker(t), t \in pend', row'[t] = Saved(task), obj'[t] = task, replans'[t] = 0
  PROVE  TaskInv(t)'
<1>1. \A h \in Handlers : ~Awaited(h, t)
  BY DEF Awaited, Awaits
<1>2. OwnWorker(t)' /\ frame'[t].pc = "idle"
  BY DEF FramesQuiet, OwnWorker, Handlers
<1>3. \A h \in Handlers : ~Awaited(h, t)'
  BY <1>1 DEF FramesQuiet
<1>4. Replanning(t)' = {}
  BY <1>3, ReplanningAwaitsNext
<1>5. row'[t].task = task
  BY DEF Saved
<1>6. Granted(t)'
  BY <1>4, <1>5, FS_EmptySet, LimitsAssumption DEF Granted, Task
<1>7. RowAgrees(t)' /\ DraftRests(t)'
  BY <1>2, <1>3, <1>5 DEF RowAgrees, Agree, DraftRests
<1> QED
  BY <1>2, <1>6, <1>7 DEF TaskInv

\* It is forgotten: the key and the row go, handlers may keep the object.
LEMMA ForgottenKeeps ==
  ASSUME TypeOK, TypeOK', NEW t \in Tasks, TaskInv(t), FramesQuiet(t),
         t \notin pend', row'[t] = NoRow, replans'[t] = replans[t],
         Referred(t)' => /\ obj'[t].draft = obj[t].draft
                         /\ obj'[t].retry = obj[t].retry
  PROVE  TaskInv(t)'
<1>1. OwnWorker(t)'
  BY DEF FramesQuiet, OwnWorker
<1>2. ~Present(t)' /\ ~row'[t].task.draft
  BY DEF Present, NoRow, Blank, PlannedTask
<1>3. DraftRests(t)'
  BY <1>2 DEF FramesQuiet, TaskInv, DraftRests, Referred
<1>4. Granted(t)'
  <2>1. /\ IsFiniteSet(Replanning(t)')
        /\ Cardinality(Replanning(t)) \in Nat /\ Cardinality(Replanning(t)') \in Nat
        /\ Cardinality(Replanning(t)') <= Cardinality(Replanning(t))
    BY FewerReplanning DEF FramesQuiet, TaskInv, Granted
  <2>2. replans[t] \in Nat /\ obj[t].retry \in Int
    BY LimitsAssumption DEF TypeOK, Task
  <2>3. Replanning(t)' # {} => Replanning(t) # {} /\ obj'[t].retry = obj[t].retry
    BY ReplanningAwaitsNext DEF FramesQuiet
  <2> QED
    BY <1>2, <2>1, <2>2, <2>3 DEF TaskInv, Granted
<1> QED
  BY <1>1, <1>2, <1>3, <1>4 DEF TaskInv, RowAgrees

\* Its object is changed by its user, and saved.
LEMMA SavedKeeps ==
  ASSUME TypeOK, TypeOK', NEW t \in Tasks, TaskInv(t), UNCHANGED << frame, pend, replans >>,
         t \in pend, NEW new \in Task, row'[t] = Saved(new), obj'[t] = new,
         new.retry = obj[t].retry, new.draft => obj[t].draft
  PROVE  TaskInv(t)'
<1>1. row'[t].task = new
  BY DEF Saved
<1>2. Replanning(t)' = Replanning(t)
  BY DEF Replanning
<1>3. Granted(t)'
  <2>1. Cardinality(Replanning(t)) \in Nat
    BY FS_CardinalityType DEF TaskInv, Granted
  <2>2. replans[t] \in Nat /\ obj[t].retry \in Int
    BY LimitsAssumption DEF TypeOK, Task
  <2> QED
    BY <1>1, <1>2, <2>1, <2>2 DEF TaskInv, Granted
<1>4. DraftRests(t)'
  BY <1>1 DEF TaskInv, DraftRests, Awaited
<1>5. RowAgrees(t)' /\ OwnWorker(t)'
  BY <1>1 DEF TaskInv, RowAgrees, Agree, OwnWorker
<1> QED
  BY <1>3, <1>4, <1>5 DEF TaskInv

\* Only its row changes: the task in it is flagged as cancelled, or the row goes.
RowChange(t) ==
  /\ row'[t].task.draft => row[t].task.draft
  /\ Present(t)' => /\ Present(t)
                    /\ row'[t].task \in {row[t].task, [row[t].task EXCEPT !.cancelled = TRUE]}

LEMMA RowChangeKeeps ==
  ASSUME TypeOK, TypeOK', NEW t \in Tasks, TaskInv(t), FramesQuiet(t),
         UNCHANGED << pend, obj, replans >>, RowChange(t)
  PROVE  TaskInv(t)'
<1>1. OwnWorker(t)'
  BY DEF FramesQuiet, OwnWorker
<1>2. DraftRests(t)'
  BY DEF FramesQuiet, TaskInv, DraftRests, RowChange
<1>3. row[t].task \in Task
  BY DEF TypeOK, Row
<1>4. Present(t)' => row'[t].task.retry = row[t].task.retry
  BY <1>3 DEF RowChange, Task
<1>5. RowAgrees(t)'
  BY <1>3 DEF TaskInv, RowAgrees, Agree, Task, RowChange
<1>6. Granted(t)'
  <2>1. /\ IsFiniteSet(Replanning(t)')
        /\ Cardinality(Replanning(t)) \in Nat /\ Cardinality(Replanning(t)') \in Nat
        /\ Cardinality(Replanning(t)') <= Cardinality(Replanning(t))
    BY FewerReplanning DEF FramesQuiet, TaskInv, Granted
  <2>2. replans[t] \in Nat /\ obj[t].retry \in Int /\ row[t].task.retry \in Int
    BY <1>3, LimitsAssumption DEF TypeOK, Task
  <2>3. Replanning(t)' # {} => Replanning(t) # {}
    BY DEF FramesQuiet
  <2> QED
    BY <1>4, <2>1, <2>2, <2>3 DEF TaskInv, Granted, RowChange
<1> QED
  BY <1>1, <1>2, <1>5, <1>6 DEF TaskInv

-----------------------------------------------------------------------------
(* Where coroutines go *)

\* A handler that returns or raises waits no more; a worker keeps to its task.
LEMMA ReturnMoves ==
  ASSUME TypeOK, NEW h \in Handlers, Return(h) \/ Abort(h), h \in Tasks => OwnWorker(h)
  PROVE  /\ \A x \in Handlers : x # h => frame'[x] = frame[x]
         /\ frame'[h].pc \in {"idle", "exec"}
         /\ h \in Tasks => frame'[h].task = h
<1>1. IdleFrame(h).pc = "idle" /\ (h \in Tasks => IdleFrame(h).task = h)
  BY DEF IdleFrame
<1>2. ASSUME h \in Tasks
      PROVE  /\ NextStep(h, AfterFirst(frame[h].left)).pc \in {"idle", "exec"}
             /\ NextStep(h, AfterFirst(frame[h].left)).task = h
  <2>1. frame[h].task = h
    BY <1>2 DEF OwnWorker
  <2>2. [frame[h] EXCEPT !.pc = "exec", !.left = AfterFirst(frame[h].left)].pc = "exec"
    BY DEF TypeOK, Frame
  <2>3. [frame[h] EXCEPT !.pc = "exec", !.left = AfterFirst(frame[h].left)].task = h
    BY <2>1 DEF TypeOK, Frame
  <2> QED
    BY <1>1, <1>2, <2>2, <2>3 DEF NextStep
<1> QED
  BY <1>1, <1>2 DEF Return, Abort, TypeOK

\* So tasks are quiet under it, but for what the step does to their rows.
LEMMA ReturnQuiet ==
  ASSUME TypeOK, NEW h \in Handlers, Return(h) \/ Abort(h), TasksInv,
         h \in Tasks => frame[h].pc # "idle"
  PROVE  \A t \in Tasks : FramesQuiet(t) /\ (h \in Replanning(t) => Replanning(t)' = Replanning(t) \ {h})
<1>1. /\ \A x \in Handlers : x # h => frame'[x] = frame[x]
      /\ frame'[h].pc \in {"idle", "exec"}
      /\ h \in Tasks => frame'[h].task = h
  BY ReturnMoves DEF TasksInv, TaskInv
<1>2. \A t \in Tasks : t \in Handlers /\ frame[t].task = t
  BY DEF Handlers, TasksInv, TaskInv, OwnWorker
<1> QED
  BY <1>1, <1>2 DEF FramesQuiet, Awaited, Awaits, Replanning

\* A handler that waits on keeps its task; new plans are not asked for again.
LEMMA AwaitQuiet ==
  ASSUME TypeOK, NEW h \in Handlers, NEW pc \in Awaits \ {"replan"}, Await(h, pc), TasksInv,
         frame[h].pc \in Awaits
  PROVE  \A t \in Tasks : FramesQuiet(t)
<1>1. \A x \in Handlers : x # h => frame'[x] = frame[x]
  BY DEF Await, TypeOK
<1>2. frame'[h].pc = pc /\ frame'[h].task = frame[h].task
  BY DEF Await, TypeOK, Frame
<1>3. \A t \in Tasks : t \in Handlers /\ frame[t].task = t
  BY DEF Handlers, TasksInv, TaskInv, OwnWorker
<1> QED
  BY <1>1, <1>2, <1>3 DEF FramesQuiet, Awaited, Awaits, Replanning

LEMMA SameFramesQuiet ==
  ASSUME TasksInv, UNCHANGED frame
  PROVE  \A t \in Tasks : FramesQuiet(t)
BY DEF TasksInv, TaskInv, OwnWorker, FramesQuiet, Awaited, Replanning

\* A step that only moves handlers, and perhaps clears garbage
LEMMA MovesKeep ==
  ASSUME TypeOK, TypeOK', TasksInv, \A t \in Tasks : FramesQuiet(t),
         UNCHANGED << pend, row, replans >>, UNCHANGED obj \/ Sweep(obj)
  PROVE  TasksInv'
<1>1. \A t \in Tasks : Referred(t)' => obj'[t] = obj[t]
  BY SweptObjects DEF TypeOK
<1>2. \A t \in Tasks : Quiet(t)
  BY <1>1 DEF Quiet
<1> QED
  BY <1>2, QuietKeeps DEF TasksInv

-----------------------------------------------------------------------------
(* The result of a step *)

\* Who reports a result: the task's worker, or a client sent a task that is no draft.
Reporter(h, t) ==
  \/ h = t /\ frame[h].pc = "exec"
  \/ h \in Clients /\ frame[h].pc = "idle" /\ ~Current(t).draft

\* The task a result is recorded in: no draft, and its retry counter stands for every
\* new plan that was asked for.
LEMMA CurrentGranted ==
  ASSUME TypeOK, NEW t \in Tasks, TaskInv(t), t \in pend \/ Present(t)
  PROVE  /\ Current(t) \in Task
         /\ Cardinality(Replanning(t)) \in Nat
         /\ replans[t] + Cardinality(Replanning(t)) <= Current(t).retry
BY FS_CardinalityType DEF Current, TypeOK, Row, TaskInv, Granted

LEMMA ReporterHolds ==
  ASSUME TypeOK, NEW h \in Handlers, NEW t \in Tasks, Reporter(h, t), TasksInv,
         t \in pend \/ Present(t)
  PROVE  /\ ~Current(t).draft
         /\ frame[h].pc \notin Awaits
         /\ h \in Tasks => h = t /\ frame[h].pc # "idle"
BY IdsAssumption DEF Reporter, Current, TasksInv, TaskInv, DraftRests, Awaits

LEMMA ResultFields ==
  ASSUME NEW o \in Task, NEW s \in AllSteps, NEW outcome \in SUBSET Kinds,
         NEW new, new = WithResult(o, s, outcome),
         NEW retry, retry = [new EXCEPT !.retry = @ + 1]
  PROVE  /\ new \in Task /\ new.retry = o.retry /\ new.draft = o.draft
         /\ retry.retry = o.retry + 1 /\ retry.draft = o.draft
         /\ Agree(new, new) /\ Agree(retry, new)
<1>1. new \in Task
  BY WithResultType
<1>2. new.retry = o.retry /\ new.draft = o.draft
  BY DEF WithResult, Task
<1> QED
  BY <1>1, <1>2, LimitsAssumption DEF Agree, Task

LEMMA RecordedKeeps ==
  ASSUME TypeOK, TypeOK', TasksInv, NEW h \in Handlers, NEW t \in Tasks, NEW s \in AllSteps,
         NEW outcome \in SUBSET Kinds, Reporter(h, t), ResultRecorded(h, t, s, outcome)
  PROVE  TasksInv'
<1> DEFINE o == Current(t)
           new == WithResult(o, s, outcome)
           retry == [new EXCEPT !.retry = @ + 1]
           stays == Return(h)
           waits(pc) == frame' = [frame EXCEPT ![h].pc = pc, ![h].task = t]
<1>1. (t \in pend \/ Present(t)) /\ t \in pend'
  BY DEF ResultRecorded
<1>2. /\ o \in Task /\ ~o.draft
      /\ Cardinality(Replanning(t)) \in Nat
      /\ replans[t] + Cardinality(Replanning(t)) <= o.retry
      /\ frame[h].pc \notin Awaits
      /\ h \in Tasks => h = t /\ frame[h].pc # "idle"
  BY <1>1, CurrentGranted, ReporterHolds DEF TasksInv
<1> HIDE DEF o
<1>3. /\ new \in Task /\ new.retry = o.retry /\ ~new.draft
      /\ retry.retry = o.retry + 1 /\ ~retry.draft
      /\ Agree(new, new) /\ Agree(retry, new)
  BY <1>2, ResultFields
<1>4. PICK m \in {new, retry} :
        /\ Sweep([obj EXCEPT ![t] = m])
        /\ \/ stays
           \/ waits("sum") \/ waits("sumFail")
           \/ waits("replan") /\ m = retry
        /\ m = retry => new.retry < MaxRetry
  <2>1. \/ Sweep([obj EXCEPT ![t] = new]) /\ (stays \/ waits("sum"))
        \/ /\ Sweep([obj EXCEPT ![t] = retry]) /\ new.retry < MaxRetry
           /\ stays \/ waits("replan") \/ waits("sumFail")
    BY DEF ResultRecorded, RetryAllowed, o
  <2>2. new # retry
    BY <1>3 DEF Task
  <2> HIDE DEF new, retry
  <2> QED
    BY <2>1, <2>2
<1>5. row' = [row EXCEPT ![t] = Saved(new)] /\ pend' = pend \cup {t} /\ UNCHANGED replans
  BY DEF ResultRecorded, o
<1>6. m \in Task
  <2>1. new.retry < MaxRetry => new.retry + 1 \in 0..MaxRetry
    BY <1>3, LimitsAssumption DEF Task
  <2> QED
    BY <1>3, <1>4, <2>1 DEF Task
<1> HIDE DEF new, retry
<1>7. obj'[t] = m /\ \A x \in Tasks : x # t /\ Referred(x)' => obj'[x] = obj[x]
  <2>1. [obj EXCEPT ![t] = m] \in [Tasks -> Task]
    BY <1>6 DEF TypeOK
  <2>2. \A x \in Tasks : Referred(x)' => obj'[x] = [obj EXCEPT ![t] = m][x]
    BY <1>4, <2>1, SweptObjects
  <2>3. Referred(t)'
    BY <1>1 DEF Referred
  <2> QED
    BY <2>2, <2>3 DEF TypeOK
<1>8. stays => \A x \in Tasks : FramesQuiet(x)
  BY <1>2, ReturnQuiet
<1>9. ASSUME NEW pc \in Awaits, waits(pc)
      PROVE  /\ \A x \in Tasks \ {t} : FramesQuiet(x)
             /\ OwnWorker(t)'
             /\ Replanning(t)' = IF pc = "replan" THEN Replanning(t) \cup {h} ELSE Replanning(t)
  <2>1. \A x \in Handlers : x # h => frame'[x] = frame[x]
    BY <1>9 DEF TypeOK
  <2>2. frame'[h].pc = pc /\ frame'[h].task = t
    BY <1>9 DEF TypeOK, Frame
  <2>3. \A x \in Tasks : x \in Handlers /\ frame[x].task = x
    BY DEF Handlers, TasksInv, TaskInv, OwnWorker
  <2> QED
    BY <1>2, <2>1, <2>2, <2>3 DEF FramesQuiet, Awaited, Awaits, Replanning, OwnWorker
<1>10. ASSUME NEW x \in Tasks, x # t
       PROVE  TaskInv(x)'
  <2>1. FramesQuiet(x)
    BY <1>4, <1>8, <1>9, <1>10 DEF Awaits
  <2>2. Quiet(x)
    BY <1>5, <1>7, <1>10, <2>1 DEF Quiet, TypeOK
  <2> QED
    BY <2>2, QuietKeeps DEF TasksInv
<1>11. row'[t].task = new
  BY <1>5 DEF Saved, TypeOK
<1>12. OwnWorker(t)' /\ RowAgrees(t)' /\ DraftRests(t)'
  BY <1>3, <1>4, <1>7, <1>8, <1>9, <1>11
  DEF OwnWorker, FramesQuiet, RowAgrees, DraftRests, Awaits
<1>13. Granted(t)'
  <2>1. IsFiniteSet(Replanning(t))
    BY DEF TasksInv, TaskInv, Granted
  <2>2. /\ IsFiniteSet(Replanning(t)') /\ Cardinality(Replanning(t)') \in Nat
        /\ \/ Cardinality(Replanning(t)') <= Cardinality(Replanning(t))
           \/ m = retry /\ Cardinality(Replanning(t)') <= Cardinality(Replanning(t)) + 1
    <3>1. CASE Replanning(t)' \subseteq Replanning(t)
      BY <2>1, <3>1, FewerReplanning
    <3>2. CASE Replanning(t)' = Replanning(t) \cup {h} /\ m = retry
      <4>1. /\ IsFiniteSet(Replanning(t) \cup {h})
            /\ Cardinality(Replanning(t) \cup {h})
                 = IF h \in Replanning(t) THEN Cardinality(Replanning(t))
                   ELSE Cardinality(Replanning(t)) + 1
        BY <2>1, FS_AddElement
      <4> QED
        BY <1>2, <3>2, <4>1
    <3> QED
      BY <1>4, <1>8, <1>9, <3>1, <3>2 DEF FramesQuiet, Awaits
  <2>3. replans'[t] = replans[t] /\ replans[t] \in Nat /\ replans[t] <= MaxRetry
    BY <1>5 DEF TypeOK, TasksInv, TaskInv, Granted
  <2>4. replans[t] + Cardinality(Replanning(t)') <= m.retry
    BY <1>2, <1>3, <1>4, <2>2, <2>3 DEF Task
  <2>5. replans[t] <= new.retry
    BY <1>2, <1>3, <2>3 DEF Task
  <2> QED
    BY <1>1, <1>7, <1>11, <2>2, <2>3, <2>4, <2>5 DEF Granted
<1> QED
  BY <1>10, <1>12, <1>13 DEF TasksInv, TaskInv

\* A task that a handler or a user forgets, whatever the others are doing
LEMMA ForgetKeeps ==
  ASSUME TypeOK, TypeOK', TasksInv, NEW t \in Tasks, \A x \in Tasks : FramesQuiet(x),
         NEW o \in Task, o.draft = obj[t].draft, o.retry = obj[t].retry,
         pend' = pend \ {t}, row' = [row EXCEPT ![t] = NoRow], UNCHANGED replans,
         Sweep([obj EXCEPT ![t] = o])
  PROVE  TasksInv'
<1>1. [obj EXCEPT ![t] = o] \in [Tasks -> Task]
  BY DEF TypeOK
<1>2. \A x \in Tasks : Referred(x)' => obj'[x] = [obj EXCEPT ![t] = o][x]
  BY <1>1, SweptObjects
<1>3. TaskInv(t)'
  <2>1. /\ t \notin pend' /\ row'[t] = NoRow /\ replans'[t] = replans[t]
        /\ Referred(t)' => obj'[t] = o
    BY <1>2 DEF TypeOK
  <2> QED
    BY <2>1, ForgottenKeeps DEF TasksInv
<1>4. ASSUME NEW x \in Tasks, x # t
      PROVE  TaskInv(x)'
  <2>1. Quiet(x)
    BY <1>2, <1>4 DEF Quiet, TypeOK
  <2> QED
    BY <2>1, QuietKeeps DEF TasksInv
<1> QED
  BY <1>3, <1>4 DEF TasksInv

LEMMA SameObject ==
  ASSUME TypeOK, NEW t \in Tasks, Sweep(obj)
  PROVE  obj[t] \in Task /\ Sweep([obj EXCEPT ![t] = obj[t]])
<1>1. [obj EXCEPT ![t] = obj[t]] = obj
  BY DEF TypeOK
<1> QED
  BY <1>1 DEF TypeOK

LEMMA HandleStepDoneKeeps ==
  ASSUME TypeOK, TypeOK', TasksInv, NEW h \in Handlers, NEW t \in Tasks, NEW s \in AllSteps,
         NEW outcome \in SUBSET Kinds, Reporter(h, t), HandleStepDone(h, t, s, outcome)
  PROVE  TasksInv'
<1>1. h \in Tasks => frame[h].pc # "idle"
  BY IdsAssumption DEF Reporter
<1>2. CASE ResultDropped(h, t)
  BY <1>1, <1>2, ReturnQuiet, MovesKeep DEF ResultDropped
<1>3. CASE ResultOfCancelled(h, t)
  BY <1>1, <1>3, ReturnQuiet, SameObject, ForgetKeeps DEF ResultOfCancelled
<1>4. CASE ResultRecorded(h, t, s, outcome)
  BY <1>4, RecordedKeeps
<1> QED
  BY <1>2, <1>3, <1>4 DEF HandleStepDone

-----------------------------------------------------------------------------
(* The handler after its awaits *)

\* A waiting handler holds its task.
LEMMA WaitingHolds ==
  ASSUME TypeOK, NEW h \in Handlers, frame[h].pc \in Awaits
  PROVE  /\ frame[h].task \in Tasks /\ Awaited(h, frame[h].task)
         /\ frame[h].pc # "idle"
BY DEF TypeOK, Frame, Awaited, Awaits

\* A new plan arrives: the counter of the task has stood for it since it was asked for.
LEMMA NewPlanKeeps ==
  ASSUME TypeOK, TypeOK', TasksInv, NEW h \in Handlers, NEW t \in Tasks,
         frame[h].task = t, frame[h].pc = "replan", Return(h), UNCHANGED pend,
         replans' = [replans EXCEPT ![t] = @ + 1],
         NEW new \in Task, new.retry = obj[t].retry, new.draft = obj[t].draft,
         row' = [row EXCEPT ![t] = Saved(new)], Sweep([obj EXCEPT ![t] = new])
  PROVE  TasksInv'
<1>1. Awaited(h, t) /\ h \in Replanning(t) /\ frame[h].pc # "idle"
  BY DEF Awaited, Awaits, Replanning
<1>2. /\ \A x \in Tasks : FramesQuiet(x)
      /\ Replanning(t)' = Replanning(t) \ {h}
  BY <1>1, ReturnQuiet
<1>3. \A x \in Tasks : Referred(x)' => obj'[x] = [obj EXCEPT ![t] = new][x]
  <2>1. [obj EXCEPT ![t] = new] \in [Tasks -> Task]
    BY DEF TypeOK
  <2> QED
    BY <2>1, SweptObjects
<1>4. ASSUME NEW x \in Tasks, x # t
      PROVE  TaskInv(x)'
  <2>1. Quiet(x)
    BY <1>2, <1>3, <1>4 DEF Quiet, TypeOK
  <2> QED
    BY <2>1, QuietKeeps DEF TasksInv
<1>5. row'[t].task = new /\ replans'[t] = replans[t] + 1 /\ (Referred(t)' => obj'[t] = new)
  BY <1>3 DEF Saved, TypeOK
<1>6. ~new.draft
  BY <1>1 DEF TasksInv, TaskInv, DraftRests
<1>7. OwnWorker(t)' /\ RowAgrees(t)' /\ DraftRests(t)'
  BY <1>2, <1>5, <1>6 DEF FramesQuiet, OwnWorker, RowAgrees, Agree, DraftRests, Referred
<1>8. Granted(t)'
  <2>1. IsFiniteSet(Replanning(t))
    BY DEF TasksInv, TaskInv, Granted
  <2>2. /\ IsFiniteSet(Replanning(t)')
        /\ Cardinality(Replanning(t)') = Cardinality(Replanning(t)) - 1
    BY <1>1, <1>2, <2>1, FS_RemoveElement
  <2>3. Cardinality(Replanning(t)) \in Nat /\ Cardinality(Replanning(t)') \in Nat
    BY <2>1, <2>2, FS_CardinalityType
  <2>4. replans[t] \in Nat /\ replans[t] + Cardinality(Replanning(t)) <= obj[t].retry
    BY <1>1 DEF TasksInv, TaskInv, Granted, TypeOK
  <2>5. new.retry \in 0 .. MaxRetry
    BY DEF Task
  <2>6. /\ replans'[t] + Cardinality(Replanning(t)') <= new.retry
        /\ replans'[t] <= new.retry /\ replans'[t] <= MaxRetry
    BY <1>5, <2>2, <2>3, <2>4, <2>5, LimitsAssumption
  <2>7. t \in pend' \/ Replanning(t)' # {} => obj'[t] = new
    BY <1>5, ReplanningAwaitsNext DEF Referred
  <2> QED
    BY <1>5, <2>2, <2>6, <2>7 DEF Granted
<1> QED
  BY <1>4, <1>7, <1>8 DEF TasksInv, TaskInv

LEMMA ReplannedKeeps ==
  ASSUME TypeOK, TypeOK', TasksInv, NEW h \in Handlers, Replanned(h)
  PROVE  TasksInv'
<1>1. PICK t \in Tasks : frame[h].task = t /\ frame[h].pc = "replan"
  BY WaitingHolds DEF Replanned, Awaits
<1>2. CASE Await(h, "sumFail") /\ UNCHANGED << obj, row, replans >>
  BY <1>1, <1>2, AwaitQuiet, MovesKeep DEF Replanned, Awaits
<1>3. ASSUME NEW p \in Plans, Return(h), replans' = [replans EXCEPT ![t] = @ + 1],
             NEW new, new = [obj[t] EXCEPT !.plan = p, !.done = {}, !.res = {}, !.nres = 0],
             row' = [row EXCEPT ![t] = Saved(new)], Sweep([obj EXCEPT ![t] = new])
      PROVE  TasksInv'
  <2>1. new \in Task /\ new.retry = obj[t].retry /\ new.draft = obj[t].draft
    <3>1. obj[t] \in Task /\ 0 \in 0..2
      BY DEF TypeOK
    <3> QED
      BY <1>3, <3>1 DEF Task
  <2> QED
    BY <1>1, <1>3, <2>1, NewPlanKeeps DEF Replanned
<1> QED
  BY <1>1, <1>2, <1>3 DEF Replanned

LEMMA CloseRoundQuiet ==
  ASSUME TypeOK, TasksInv, NEW h \in Handlers, frame[h].pc \in Awaits, CloseRound(h)
  PROVE  \A t \in Tasks : FramesQuiet(t)
<1>1. Return(h) \/ Await(h, "review")
  BY DEF CloseRound
<1>2. frame[h].pc # "idle"
  BY DEF Awaits
<1> QED
  BY <1>1, <1>2, ReturnQuiet, AwaitQuiet DEF Awaits

LEMMA SummariesKeep ==
  ASSUME TypeOK, TypeOK', TasksInv, NEW h \in Handlers, FailureSummed(h) \/ Summed(h)
  PROVE  TasksInv'
<1>1. frame[h].pc \in {"sum", "sumFail"} /\ frame[h].pc \in Awaits
  BY DEF FailureSummed, Summed, Awaits
<1>2. PICK t \in Tasks : frame[h].task = t
  BY <1>1, WaitingHolds
<1>3. \A x \in Tasks : FramesQuiet(x)
  <2>1. Return(h) \/ Abort(h) \/ Await(h, "ansReview") \/ CloseRound(h)
    BY DEF FailureSummed, Summed
  <2>2. frame[h].pc # "idle"
    BY <1>1
  <2> QED
    BY <1>1, <2>1, <2>2, ReturnQuiet, AwaitQuiet, CloseRoundQuiet DEF Awaits
<1>4. Sweep(obj) /\ UNCHANGED replans
  BY DEF FailureSummed, Summed
<1>5. CASE UNCHANGED << pend, row >>
  BY <1>3, <1>4, <1>5, MovesKeep
<1>6. CASE pend' = pend \ {t} /\ row' = [row EXCEPT ![t] = NoRow]
  BY <1>3, <1>4, <1>6, SameObject, ForgetKeeps
<1> QED
  BY <1>2, <1>5, <1>6 DEF FailureSummed, Summed

LEMMA ReviewsKeep ==
  ASSUME TypeOK, TypeOK', TasksInv, NEW h \in Handlers,
         AnswerReviewed(h) \/ Reviewed(h) \/ Decided(h)
  PROVE  TasksInv'
<1>1. frame[h].pc \in Awaits /\ frame[h].pc # "idle"
  BY DEF AnswerReviewed, Reviewed, Decided, Awaits
<1>2. Return(h) \/ Await(h, "plan") \/ Await(h, "decide") \/ CloseRound(h)
  BY DEF AnswerReviewed, Reviewed, Decided, EnterPlan
<1>3. \A x \in Tasks : FramesQuiet(x)
  BY <1>1, <1>2, ReturnQuiet, AwaitQuiet, CloseRoundQuiet DEF Awaits
<1> QED
  BY <1>3, MovesKeep DEF AnswerReviewed, Reviewed, Decided

\* plan_task stores a task under an id nothing refers to.
LEMMA CreateKeeps ==
  ASSUME TypeOK, TypeOK', TasksInv, \A x \in Tasks : FramesQuiet(x), NEW t \in FreshTasks,
         NEW task \in Task, Create(t, task), Sweep([obj EXCEPT ![t] = task])
  PROVE  TasksInv'
<1>1. t \in Tasks /\ \A h \in Handlers : frame[h].task = t => frame[h].pc = "idle"
  BY DEF FreshTasks
<1>2. \A x \in Tasks : Referred(x)' => obj'[x] = [obj EXCEPT ![t] = task][x]
  <2>1. [obj EXCEPT ![t] = task] \in [Tasks -> Task]
    BY DEF TypeOK
  <2> QED
    BY <2>1, SweptObjects
<1>3. t \in pend' /\ row'[t] = Saved(task) /\ obj'[t] = task /\ replans'[t] = 0
  BY <1>1, <1>2 DEF Create, TypeOK, Referred
<1>4. ASSUME NEW x \in Tasks, x # t
      PROVE  TaskInv(x)'
  <2>1. Quiet(x)
    BY <1>2, <1>4 DEF Quiet, Create, TypeOK
  <2> QED
    BY <2>1, QuietKeeps DEF TasksInv
<1>5. TaskInv(t)'
  BY <1>1, <1>3, CreatedKeeps DEF TasksInv, TaskInv
<1> QED
  BY <1>4, <1>5 DEF TasksInv

LEMMA PlanAnswerKeeps ==
  ASSUME TypeOK, TypeOK', TasksInv, \A x \in Tasks : FramesQuiet(x),
         NEW c \in Convs, NEW r \in Runs \cup {NoRun}, NEW draft \in BOOLEAN,
         \/ \E t \in FreshTasks : \E task \in NewTasks(c, r, draft) :
              Create(t, task) /\ Sweep([obj EXCEPT ![t] = task])
         \/ PlanFails /\ Sweep(obj)
  PROVE  TasksInv'
BY NewTasksType, CreateKeeps, MovesKeep DEF PlanFails

LEMMA RoundPlannedKeeps ==
  ASSUME TypeOK, TypeOK', TasksInv, NEW h \in Handlers, RoundPlanned(h)
  PROVE  TasksInv'
<1>1. frame[h].pc \in Awaits /\ frame[h].pc # "idle" /\ frame[h].task \in Tasks
  BY WaitingHolds DEF RoundPlanned, Awaits
<1>2. \A x \in Tasks : FramesQuiet(x)
  BY <1>1, ReturnQuiet DEF RoundPlanned
<1>3. obj[frame[h].task].conv \in Convs /\ obj[frame[h].task].run \in Runs \cup {NoRun}
  BY <1>1 DEF TypeOK, Task
<1> QED
  BY <1>2, <1>3, PlanAnswerKeeps DEF RoundPlanned

LEMMA CallbackKeeps == TypeOK /\ TypeOK' /\ TasksInv /\ Callback => TasksInv'
BY ReplannedKeeps, SummariesKeep, ReviewsKeep, RoundPlannedKeeps DEF Callback

-----------------------------------------------------------------------------
(* The executor, users and the server *)

LEMMA ScanKeeps == TypeOK /\ TypeOK' /\ TasksInv /\ Scan => TasksInv'
<1> SUFFICES ASSUME TypeOK, TypeOK', TasksInv, Scan, NEW t \in Tasks
             PROVE  TaskInv(t)'
  BY DEF TasksInv
<1> DEFINE found == {x \in Tasks : Executable(x) /\ frame[x].pc = "idle"}
<1>1. \A h \in Handlers : \/ frame'[h] = frame[h]
                          \/ h \in found /\ frame'[h].pc = "queued" /\ frame'[h].task = h
  BY DEF Scan
<1>2. t \in Handlers /\ TaskInv(t)
  BY DEF Handlers, TasksInv
<1>3. \A h \in Handlers : Awaited(h, t)' => Awaited(h, t)
  BY <1>1 DEF Awaited, Awaits
<1>4. Replanning(t)' = Replanning(t)
  BY <1>1 DEF Replanning
<1>5. UNCHANGED << pend, obj, row, replans >>
  BY DEF Scan
<1>6. OwnWorker(t)'
  BY <1>1, <1>2 DEF TaskInv, OwnWorker
<1>7. DraftRests(t)'
  <2>1. t \in found => ~row[t].task.draft /\ (t \in pend => ~obj[t].draft)
    BY <1>2 DEF Executable, TaskInv, RowAgrees, Agree, Present
  <2> QED
    BY <1>1, <1>2, <1>3, <1>5, <2>1 DEF TaskInv, DraftRests
<1>8. RowAgrees(t)' /\ Granted(t)'
  BY <1>2, <1>4, <1>5 DEF TaskInv, RowAgrees, Granted, Present
<1> QED
  BY <1>6, <1>7, <1>8 DEF TaskInv

LEMMA StartKeeps ==
  ASSUME TypeOK, TypeOK', TasksInv, NEW t \in Tasks, Start(t)
  PROVE  TasksInv'
<1>1. \A x \in Tasks : x \in Handlers /\ frame[x].task = x
  BY DEF Handlers, TasksInv, TaskInv, OwnWorker
<1>2. /\ \A x \in Handlers : x # t => frame'[x] = frame[x]
      /\ frame'[t].pc \in {"idle", "exec"} /\ frame'[t].task = t
  <2>1. [frame[t] EXCEPT !.pc = "exec", !.left = frame[t].left].pc = "exec"
    BY <1>1 DEF TypeOK, Frame
  <2>2. [frame[t] EXCEPT !.pc = "exec", !.left = frame[t].left].task = t
    BY <1>1 DEF TypeOK, Frame
  <2>3. frame'[t] = NextStep(t, frame[t].left)
    BY <1>1 DEF Start, TypeOK
  <2> QED
    BY <1>1, <2>1, <2>2, <2>3 DEF Start, NextStep, IdleFrame, TypeOK
<1>3. \A x \in Tasks : FramesQuiet(x)
  BY <1>1, <1>2 DEF Start, FramesQuiet, Awaited, Awaits, Replanning
<1>4. \A x \in Tasks : row'[x].task = row[x].task /\ (Present(x)' => Present(x))
  <2>1. [row[t] EXCEPT !.status = "completed"].task = row[t].task
    BY DEF TypeOK, Row
  <2> QED
    BY <2>1 DEF Start, TypeOK, Present
<1> QED
  BY <1>3, <1>4, RowChangeKeeps DEF Start, TasksInv, RowChange

LEMMA ExecutorKeeps == TypeOK /\ TypeOK' /\ TasksInv /\ Executor => TasksInv'
<1> SUFFICES ASSUME TypeOK, TypeOK', TasksInv, NEW t \in Tasks, StepDone(t)
             PROVE  TasksInv'
  BY ScanKeeps, StartKeeps DEF Executor
<1>1. PICK i \in frame[t].left, outcome \in WorkerOutcomes :
        HandleStepDone(t, t, frame[t].plan[i], outcome)
  BY DEF StepDone
<1>2. t \in Handlers /\ Reporter(t, t)
  BY DEF StepDone, Reporter, Handlers
<1>3. frame[t].plan[i] \in AllSteps
  <2>1. frame[t].plan \in Plans \cup {<< >>} /\ i \in DOMAIN frame[t].plan
    BY <1>1, <1>2 DEF TypeOK, Frame
  <2> QED
    BY <2>1, PlanType
<1>4. outcome \in SUBSET Kinds
  BY PlansAssumption
<1> QED
  BY <1>1, <1>2, <1>3, <1>4, HandleStepDoneKeeps

\* Rows of any number of tasks are flagged or go.
LEMMA RowsChangeKeeps ==
  ASSUME TypeOK, TypeOK', TasksInv, UNCHANGED << pend, obj, frame, replans >>,
         \A t \in Tasks : RowChange(t)
  PROVE  TasksInv'
BY SameFramesQuiet, RowChangeKeeps DEF TasksInv

\* What a user does to a task in memory is saved with it.
LEMMA UserSavesKeep ==
  ASSUME TypeOK, TypeOK', TasksInv, NEW t \in Tasks, t \in pend, UNCHANGED << pend, frame, replans >>,
         NEW new \in Task, new.retry = obj[t].retry, new.draft => obj[t].draft,
         obj' = [obj EXCEPT ![t] = new], row' = [row EXCEPT ![t] = Saved(new)]
  PROVE  TasksInv'
<1>1. TaskInv(t)'
  BY SavedKeeps DEF TasksInv, TypeOK
<1>2. ASSUME NEW x \in Tasks, x # t
      PROVE  TaskInv(x)'
  <2>1. Quiet(x)
    BY <1>2, SameFramesQuiet DEF Quiet, TypeOK
  <2> QED
    BY <2>1, QuietKeeps DEF TasksInv
<1> QED
  BY <1>1, <1>2 DEF TasksInv

LEMMA UserRequestsKeep == TypeOK /\ TypeOK' /\ TasksInv /\ UserRequest => TasksInv'
<1> SUFFICES ASSUME TypeOK, TypeOK', TasksInv, UserRequest
             PROVE  TasksInv'
  OBVIOUS
<1>1. CASE UNCHANGED << pend, obj, row, frame, replans >>
  BY <1>1, SameFramesQuiet, MovesKeep
<1>2. ASSUME NEW t \in Tasks, ConfirmDraft(t)
      PROVE  TasksInv'
  <2>1. PICK p \in Plans :
          /\ obj' = [obj EXCEPT ![t] = [obj[t] EXCEPT !.plan = p, !.draft = FALSE]]
          /\ row' = [row EXCEPT ![t] = Saved([obj[t] EXCEPT !.plan = p, !.draft = FALSE])]
    BY <1>2 DEF ConfirmDraft
  <2> DEFINE new == [obj[t] EXCEPT !.plan = p, !.draft = FALSE]
  <2>2. new \in Task /\ new.retry = obj[t].retry /\ ~new.draft
    <3>1. obj[t] \in Task
      BY DEF TypeOK
    <3> QED
      BY <3>1 DEF Task
  <2>3. obj' = [obj EXCEPT ![t] = new] /\ row' = [row EXCEPT ![t] = Saved(new)]
    BY <2>1
  <2> HIDE DEF new
  <2> QED
    BY <1>2, <2>2, <2>3, UserSavesKeep DEF ConfirmDraft
<1>3. ASSUME NEW t \in Tasks, CancelTask(t)
      PROVE  TasksInv'
  <2> DEFINE new == [obj[t] EXCEPT !.cancelled = TRUE]
  <2>1. new \in Task /\ new.retry = obj[t].retry /\ new.draft = obj[t].draft
    <3>1. obj[t] \in Task
      BY DEF TypeOK
    <3> QED
      BY <3>1 DEF Task
  <2>2. CASE obj[t].noplan
    <3>1. \A x \in Tasks : FramesQuiet(x)
      BY <1>3, SameFramesQuiet DEF CancelTask
    <3> QED
      BY <1>3, <2>2, <3>1, SameObject, ForgetKeeps DEF CancelTask
  <2>3. CASE ~obj[t].noplan
    <3>1. obj' = [obj EXCEPT ![t] = new] /\ row' = [row EXCEPT ![t] = Saved(new)]
      BY <1>3, <2>3 DEF CancelTask
    <3> HIDE DEF new
    <3> QED
      BY <1>3, <2>1, <2>3, <3>1, UserSavesKeep DEF CancelTask
  <2> QED
    BY <2>2, <2>3
<1>4. ASSUME NEW t \in Tasks, Feedback(t)
      PROVE  TasksInv'
  <2> DEFINE new == [obj[t] EXCEPT !.cancelled = TRUE]
  <2>1. new \in Task /\ new.retry = obj[t].retry /\ new.draft = obj[t].draft
    <3>1. obj[t] \in Task
      BY DEF TypeOK
    <3> QED
      BY <3>1 DEF Task
  <2>2. Sweep([obj EXCEPT ![t] = new])
    BY <1>4 DEF Feedback
  <2>3. \A x \in Tasks : FramesQuiet(x)
    BY <1>4, SameFramesQuiet DEF Feedback
  <2> HIDE DEF new
  <2> QED
    BY <1>4, <2>1, <2>2, <2>3, ForgetKeeps DEF Feedback
<1>5. ASSUME NEW r \in Runs, CancelRun(r)
      PROVE  TasksInv'
  <2>1. \A t \in Tasks : row[t].task \in Task
    BY DEF TypeOK, Row
  <2>2. \A t \in Tasks :
          \/ row'[t] = row[t]
          \/ /\ row[t].status \in {"pending", "running"}
             /\ row'[t].task = [row[t].task EXCEPT !.cancelled = TRUE]
    BY <1>5 DEF CancelRun
  <2>3. \A t \in Tasks : [row[t].task EXCEPT !.cancelled = TRUE].draft = row[t].task.draft
    BY <2>1 DEF Task
  <2> QED
    BY <1>5, <2>2, <2>3, RowsChangeKeeps DEF CancelRun, Present, RowChange
<1>6. ASSUME NEW c \in Clients, NEW t \in Tasks, ClientReport(c, t)
      PROVE  TasksInv'
  <2>1. PICK s \in StepIds(Current(t).plan), outcome \in ClientOutcomes :
          HandleStepDone(c, t, s, outcome)
    BY <1>6 DEF ClientReport
  <2>2. c \in Handlers /\ Reporter(c, t) /\ outcome \in SUBSET Kinds
    BY <1>6, PlansAssumption DEF ClientReport, Reporter, Handlers
  <2>3. s \in AllSteps
    <3>1. Current(t).plan \in Plans \cup {<< >>}
      BY DEF Current, TypeOK, Row, Task
    <3> QED
      BY <3>1, PlanType DEF StepIds
  <2> QED
    BY <2>1, <2>2, <2>3, HandleStepDoneKeeps
<1> QED
  BY <1>1, <1>2, <1>3, <1>4, <1>5, <1>6
  DEF UserRequest, PlanRequest, AutoRun, Confirm, Propose, Reject

\* The server comes up with the tasks of its rows and nobody at work on them.
LEMMA RestartKeeps == TypeOK /\ TypeOK' /\ TasksInv /\ Restart => TasksInv'
<1> SUFFICES ASSUME TypeOK, TypeOK', TasksInv, Restart, NEW t \in Tasks
             PROVE  TaskInv(t)'
  BY DEF TasksInv
<1>1. \A h \in Handlers : frame'[h].pc = "idle"
  BY DEF Restart, IdleFrame
<1>2. OwnWorker(t)'
  BY DEF Restart, IdleFrame, Handlers, OwnWorker
<1>3. (\A h \in Handlers : ~Awaited(h, t)') /\ Replanning(t)' = {}
  BY <1>1 DEF Awaited, Awaits, Replanning
<1>4. DraftRests(t)'
  BY <1>1, <1>3 DEF DraftRests, Handlers
<1>5. row'[t].task = row[t].task /\ (Present(t)' => Present(t))
  <2>1. [row[t] EXCEPT !.status = "interrupted"].task = row[t].task
    BY DEF TypeOK, Row
  <2> QED
    BY <2>1 DEF Restart, Present
<1>6. t \in pend' => Present(t)' /\ obj'[t] = row[t].task
  BY DEF Restart, Present
<1>7. RowAgrees(t)'
  BY <1>5, <1>6 DEF RowAgrees, Agree
<1>8. Granted(t)'
  <2>1. replans'[t] = replans[t] /\ replans[t] \in Nat /\ replans[t] <= MaxRetry
    BY DEF Restart, TypeOK, TasksInv, TaskInv, Granted
  <2>2. Present(t) => replans[t] <= row[t].task.retry
    BY DEF TasksInv, TaskInv, Granted
  <2> QED
    BY <1>3, <1>5, <1>6, <2>1, <2>2, FS_EmptySet DEF Granted
<1> QED
  BY <1>2, <1>4, <1>7, <1>8 DEF TaskInv

LEMMA ServerKeeps == TypeOK /\ TypeOK' /\ TasksInv /\ Server => TasksInv'
<1> SUFFICES ASSUME TypeOK, TypeOK', TasksInv, Server
             PROVE  TasksInv'
  OBVIOUS
<1>1. CASE UNCHANGED << pend, obj, row, frame, replans >>
  BY <1>1, SameFramesQuiet, MovesKeep
<1>2. ASSUME NEW q \in Requests, Planned(q)
      PROVE  TasksInv'
  <2>1. /\ request[q].conv \in Convs /\ request[q].run \in Runs \cup {NoRun}
        /\ request[q].draft \in BOOLEAN
    BY DEF TypeOK, Request
  <2>2. \A x \in Tasks : FramesQuiet(x)
    BY <1>2, SameFramesQuiet DEF Planned
  <2> QED
    BY <1>2, <2>1, <2>2, PlanAnswerKeeps DEF Planned
<1>3. CASE ResumePlanned
  <2>1. boot.run \in Runs
    BY <1>3 DEF ResumePlanned, TypeOK, Boot
  <2>2. run[boot.run].conv \in Convs
    BY <2>1 DEF TypeOK, Run
  <2>3. \A x \in Tasks : FramesQuiet(x)
    BY <1>3, SameFramesQuiet DEF ResumePlanned
  <2> QED
    BY <1>3, <2>1, <2>2, <2>3, PlanAnswerKeeps DEF ResumePlanned
<1>4. ASSUME NEW t \in Tasks, Cleanup(t)
      PROVE  TasksInv'
  <2>1. \A x \in Tasks : row'[x] = IF x = t THEN NoRow ELSE row[x]
    BY <1>4 DEF Cleanup, TypeOK
  <2>2. ~NoRow.task.draft /\ NoRow.status = "absent"
    BY DEF NoRow, Blank, PlannedTask
  <2> QED
    BY <1>4, <2>1, <2>2, RowsChangeKeeps DEF Cleanup, Present, RowChange
<1> QED
  BY <1>1, <1>2, <1>3, <1>4, RestartKeeps DEF Server, StartPlan, ResumeRead, ResumeNext

-----------------------------------------------------------------------------
(* After a cancellation *)

\* A worker goes on to a step only while the row is there and not cancelled.
OpenRow(t) == Present(t)' /\ ~row'[t].task.cancelled

LEMMA ReturnStarts ==
  ASSUME TypeOK, NEW h \in Handlers, NEW t \in Tasks, Starts(t),
         Return(h) \/ Abort(h) \/ (\E pc \in Awaits : Await(h, pc))
  PROVE  OpenRow(t)
<1>1. t \in Handlers /\ t \notin Clients
  BY IdsAssumption DEF Handlers
<1>2. \A pc \in Awaits : [frame[h] EXCEPT !.pc = pc].pc # "exec"
  BY DEF TypeOK, Frame, Awaits
<1>3. h = t /\ frame'[t].pc = "exec" /\ frame'[t] # frame[t]
  BY <1>1 DEF Starts, Return, Abort, Await, TypeOK
<1>4. IdleFrame(h).pc # "exec"
  BY DEF IdleFrame
<1>5. frame'[t] = NextStep(t, AfterFirst(frame[t].left)) /\ frame'[t] # IdleFrame(t)
  BY <1>1, <1>2, <1>3, <1>4 DEF Return, Abort, Await, TypeOK
<1> QED
  BY <1>5 DEF NextStep, OpenRow, Present

LEMMA NextStarts ==
  ASSUME TypeOK, Next, NEW t \in Tasks, Starts(t)
  PROVE  OpenRow(t)
<1>1. ASSUME UNCHANGED frame
      PROVE  FALSE
  BY <1>1 DEF Starts
<1>2. ASSUME NEW h \in Handlers, NEW u, NEW s, NEW outcome, HandleStepDone(h, u, s, outcome)
      PROVE  OpenRow(t)
  <2>1. ASSUME NEW pc \in Awaits, frame' = [frame EXCEPT ![h].pc = pc, ![h].task = u]
        PROVE  FALSE
    <3>1. frame'[h].pc = pc /\ \A x \in Handlers : x # h => frame'[x] = frame[x]
      BY <2>1 DEF TypeOK, Frame
    <3> QED
      BY <3>1 DEF Starts, Handlers, Awaits
  <2>2. Return(h) \/ \E pc \in Awaits : frame' = [frame EXCEPT ![h].pc = pc, ![h].task = u]
    BY <1>2 DEF HandleStepDone, ResultDropped, ResultOfCancelled, ResultRecorded, Awaits
  <2> QED
    BY <2>1, <2>2, ReturnStarts
<1>3. CASE Scan
  <2>1. frame'[t] = frame[t] \/ frame'[t].pc = "queued"
    BY <1>3 DEF Scan, Handlers
  <2> QED
    BY <2>1 DEF Starts
<1>4. ASSUME NEW u \in Tasks, Start(u)
      PROVE  OpenRow(t)
  <2>1. t \in Handlers /\ u \in Handlers
    BY DEF Handlers
  <2>2. u = t /\ frame'[t] = NextStep(t, frame[t].left) /\ frame'[t].pc = "exec"
    BY <1>4, <2>1 DEF Start, Starts, TypeOK
  <2> QED
    BY <2>2 DEF NextStep, IdleFrame, OpenRow, Present
<1>5. CASE Restart
  BY <1>5 DEF Restart, IdleFrame, Starts, Handlers
<1>6. CASE Callback
  <2> SUFFICES ASSUME NEW h \in Handlers,
                      \/ Replanned(h) \/ FailureSummed(h) \/ Summed(h) \/ AnswerReviewed(h)
                      \/ Reviewed(h) \/ Decided(h) \/ RoundPlanned(h)
               PROVE  OpenRow(t)
    BY <1>6 DEF Callback
  <2>1. Return(h) \/ Abort(h) \/ \E pc \in Awaits : Await(h, pc)
    BY DEF Replanned, FailureSummed, Summed, AnswerReviewed, Reviewed, Decided, RoundPlanned,
           CloseRound, EnterPlan, Awaits
  <2> QED
    BY <2>1, ReturnStarts
<1>7. CASE Executor
  <2>1. ASSUME NEW u \in Tasks, StepDone(u)
        PROVE  OpenRow(t)
    BY <1>2, <2>1 DEF StepDone, Handlers
  <2> QED
    BY <1>3, <1>4, <1>7, <2>1 DEF Executor
<1>8. CASE UserRequest
  <2>1. ASSUME NEW c \in Clients, NEW u \in Tasks, ClientReport(c, u)
        PROVE  OpenRow(t)
    BY <1>2, <2>1 DEF ClientReport, Handlers
  <2> QED
    BY <1>1, <1>8, <2>1
    DEF UserRequest, PlanRequest, AutoRun, Confirm, Propose, Reject, CancelRun, ConfirmDraft, CancelTask,
        Feedback
<1>9. CASE Server
  BY <1>1, <1>5, <1>9
  DEF Server, StartPlan, Planned, ResumeRead, ResumeNext, ResumePlanned, Cleanup
<1> QED
  BY <1>6, <1>7, <1>8, <1>9 DEF Next

\* No step takes a cancellation back: the row of a task that is cancelled in memory
\* says so or is gone.
LEMMA CancellationStays ==
  ASSUME TypeOK, TasksInv, Next, NEW t \in Tasks, t \in pend, obj[t].cancelled
  PROVE  ~OpenRow(t)
<1>1. Present(t) => row[t].task.cancelled
  BY DEF TasksInv, TaskInv, RowAgrees, Agree
<1>2. ASSUME row'[t] = row[t]
      PROVE  ~OpenRow(t)
  BY <1>1, <1>2 DEF OpenRow, Present
<1>3. ASSUME row'[t] = NoRow
      PROVE  ~OpenRow(t)
  BY <1>3 DEF OpenRow, Present, NoRow
<1>4. ASSUME NEW h, NEW u \in Tasks, NEW s, NEW outcome, HandleStepDone(h, u, s, outcome)
      PROVE  ~OpenRow(t)
  <2>1. CASE ResultDropped(h, u)
    BY <1>2, <2>1 DEF ResultDropped
  <2>2. CASE ResultOfCancelled(h, u)
    BY <1>2, <1>3, <2>2 DEF ResultOfCancelled, TypeOK
  <2>3. CASE ResultRecorded(h, u, s, outcome)
    <3>1. u # t
      BY <2>3 DEF ResultRecorded, Current
    <3> QED
      BY <1>2, <2>3, <3>1 DEF ResultRecorded, TypeOK
  <2> QED
    BY <1>4, <2>1, <2>2, <2>3 DEF HandleStepDone
<1>5. ASSUME NEW u \in FreshTasks, NEW task, Create(u, task)
      PROVE  ~OpenRow(t)
  <2>1. u # t
    BY DEF FreshTasks
  <2> QED
    BY <1>2, <1>5, <2>1 DEF Create, TypeOK
<1>6. ASSUME NEW new, new.cancelled, row'[t] = Saved(new)
      PROVE  ~OpenRow(t)
  BY <1>6 DEF OpenRow, Saved
<1>7. CASE Executor
  <2>1. ASSUME NEW u \in Tasks, Start(u)
        PROVE  ~OpenRow(t)
    <3>1. [row[u] EXCEPT !.status = "completed"].task = row[u].task
      BY DEF TypeOK, Row
    <3>2. \/ row'[t] = row[t]
          \/ Present(u) /\ u = t /\ row'[t] = [row[u] EXCEPT !.status = "completed"]
      BY <2>1 DEF Start, TypeOK
    <3>3. row'[t] = row[t] \/ (Present(t) /\ row'[t].task = row[t].task)
      BY <3>1, <3>2
    <3> QED
      BY <1>1, <1>2, <3>3 DEF OpenRow
  <2> QED
    BY <1>2, <1>4, <1>7, <2>1 DEF Executor, Scan, StepDone
<1>8. CASE Callback
  <2>1. PICK h \in Handlers :
          \/ Replanned(h) \/ FailureSummed(h) \/ Summed(h) \/ AnswerReviewed(h)
          \/ Reviewed(h) \/ Decided(h) \/ RoundPlanned(h)
    BY <1>8 DEF Callback
  <2>2. PICK u \in Tasks : frame[h].task = u
    BY DEF TypeOK, Frame
  <2>3. CASE Replanned(h)
    <3>1. ASSUME NEW p \in Plans, NEW new,
                 new = [obj[u] EXCEPT !.plan = p, !.done = {}, !.res = {}, !.nres = 0],
                 row' = [row EXCEPT ![u] = Saved(new)]
          PROVE  ~OpenRow(t)
      <4>1. new.cancelled = obj[u].cancelled
        BY <3>1 DEF TypeOK, Task
      <4> QED
        BY <1>2, <1>6, <3>1, <4>1 DEF TypeOK
    <3> QED
      BY <1>2, <2>2, <2>3, <3>1 DEF Replanned
  <2>4. CASE FailureSummed(h) \/ Summed(h)
    BY <1>2, <1>3, <2>2, <2>4 DEF FailureSummed, Summed, TypeOK
  <2>5. CASE AnswerReviewed(h) \/ Reviewed(h) \/ Decided(h)
    BY <1>2, <2>5 DEF AnswerReviewed, Reviewed, Decided
  <2>6. CASE RoundPlanned(h)
    BY <1>2, <1>5, <2>6 DEF RoundPlanned, PlanFails
  <2> QED
    BY <2>1, <2>3, <2>4, <2>5, <2>6
<1>9. CASE UserRequest
  <2>1. ASSUME NEW u \in Tasks, ConfirmDraft(u)
        PROVE  ~OpenRow(t)
    <3>1. PICK p \in Plans :
            row' = [row EXCEPT ![u] = Saved([obj[u] EXCEPT !.plan = p, !.draft = FALSE])]
      BY <2>1 DEF ConfirmDraft
    <3>2. [obj[u] EXCEPT !.plan = p, !.draft = FALSE].cancelled = obj[u].cancelled
      BY DEF TypeOK, Task
    <3> QED
      BY <1>2, <1>6, <3>1, <3>2 DEF TypeOK
  <2>2. ASSUME NEW u \in Tasks, CancelTask(u)
        PROVE  ~OpenRow(t)
    <3>1. [obj[u] EXCEPT !.cancelled = TRUE].cancelled = TRUE
      BY DEF TypeOK, Task
    <3>2. \/ row' = [row EXCEPT ![u] = NoRow]
          \/ row' = [row EXCEPT ![u] = Saved([obj[u] EXCEPT !.cancelled = TRUE])]
      BY <2>2 DEF CancelTask
    <3> QED
      BY <1>2, <1>3, <1>6, <3>1, <3>2 DEF TypeOK
  <2>3. ASSUME NEW u \in Tasks, Feedback(u)
        PROVE  ~OpenRow(t)
    BY <1>2, <1>3, <2>3 DEF Feedback, TypeOK
  <2>4. ASSUME NEW r \in Runs, CancelRun(r)
        PROVE  ~OpenRow(t)
    <3>1. row'[t] = row[t] \/ row'[t].task = [row[t].task EXCEPT !.cancelled = TRUE]
      BY <2>4 DEF CancelRun
    <3>2. [row[t].task EXCEPT !.cancelled = TRUE].cancelled
      BY DEF TypeOK, Row, Task
    <3> QED
      BY <1>2, <3>1, <3>2 DEF OpenRow
  <2>5. ASSUME NEW c \in Clients, NEW u \in Tasks, ClientReport(c, u)
        PROVE  ~OpenRow(t)
    BY <1>4, <2>5 DEF ClientReport
  <2> QED
    BY <1>2, <1>9, <2>1, <2>2, <2>3, <2>4, <2>5
    DEF UserRequest, PlanRequest, AutoRun, Confirm, Propose, Reject
<1>10. CASE Server
  <2>1. CASE Restart
    <3>1. [row[t] EXCEPT !.status = "interrupted"].task = row[t].task
      BY DEF TypeOK, Row
    <3>2. row'[t].task = row[t].task /\ (Present(t)' => Present(t))
      BY <2>1, <3>1 DEF Restart, Present
    <3> QED
      BY <1>1, <3>2 DEF OpenRow
  <2>2. ASSUME NEW u \in Tasks, Cleanup(u)
        PROVE  ~OpenRow(t)
    BY <1>2, <1>3, <2>2 DEF Cleanup, TypeOK
  <2> QED
    BY <1>2, <1>5, <1>10, <2>1, <2>2
    DEF Server, StartPlan, Planned, PlanFails, ResumeRead, ResumeNext, ResumePlanned
<1> QED
  BY <1>7, <1>8, <1>9, <1>10 DEF Next

-----------------------------------------------------------------------------
(* The theorems *)

LEMMA InitTasks == Init => TasksInv
<1> SUFFICES ASSUME Init, NEW t \in Tasks
             PROVE  TaskInv(t)
  BY DEF TasksInv
<1>1. \A h \in Handlers : frame[h].pc = "idle"
  BY DEF Init, IdleFrame
<1>2. (\A h \in Handlers : ~Awaited(h, t)) /\ Replanning(t) = {}
  BY <1>1 DEF Awaited, Awaits, Replanning
<1>3. ~Present(t) /\ t \notin pend /\ replans[t] = 0
  BY DEF Init, Present, NoRow
<1>4. OwnWorker(t) /\ DraftRests(t)
  BY <1>1, <1>2 DEF Init, IdleFrame, Handlers, OwnWorker, DraftRests
<1>5. Granted(t)
  BY <1>2, <1>3, FS_EmptySet, LimitsAssumption DEF Granted
<1> QED
  BY <1>3, <1>4, <1>5 DEF TaskInv, RowAgrees

LEMMA NextTasks == TypeOK /\ TasksInv /\ [Next]_vars => TasksInv'
<1> SUFFICES ASSUME TypeOK, TasksInv, [Next]_vars
             PROVE  TasksInv'
  OBVIOUS
<1>1. TypeOK'
  BY NextType
<1>2. CASE UNCHANGED vars
  BY <1>1, <1>2, SameFramesQuiet, MovesKeep DEF vars
<1> QED
  BY <1>1, <1>2, ExecutorKeeps, CallbackKeeps, UserRequestsKeep, ServerKeeps DEF Next

LEMMA TasksHold == Spec => [](TypeOK /\ TasksInv)
BY InitType, NextType, InitTasks, NextTasks, PTL DEF Spec

\* A restart continues from what memory held: whatever handlers, users, clients and
\* the clean-up do, the row of a task in memory says what memory says.
THEOREM RowsFollowMemory == Spec => []StoreMatchesMemory
<1>1. TypeOK /\ TasksInv => StoreMatchesMemory
  BY DEF TasksInv, TaskInv, RowAgrees, StoreMatchesMemory, TypeOK
<1> QED
  BY <1>1, TasksHold, PTL

\* No task is planned anew more often than the callback allows, though several
\* handlers may wait for its new plan and restarts come in between, and no worker
\* is on a draft.
THEOREM RetriesAndDraftsHeldBack == Spec => []TasksHeldBack
<1>1. TypeOK /\ TasksInv => ReplanLimit
  BY DEF TasksInv, TaskInv, Granted, ReplanLimit
<1>2. TypeOK /\ TasksInv => DraftsWait
  BY DEF TypeOK, TasksInv, TaskInv, DraftRests, DraftsWait
<1> QED
  BY <1>1, <1>2, TasksHold, PTL DEF TasksHeldBack

\* Once cancel_task has flagged a task, no further step of it is started, whatever
\* replans, client reports and restarts come in between.
THEOREM CancelledTasksStop == Spec => CancelStopsTask
<1>1. TypeOK /\ TasksInv /\ [Next]_vars => [NoStepAfterCancel]_vars
  BY NextStarts, CancellationStays DEF NoStepAfterCancel
<1> QED
  BY <1>1, TasksHold, PTL DEF Spec, CancelStopsTask
=============================================================================
