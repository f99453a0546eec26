--------------------------- MODULE SwarmCallback ----------------------------
(***************************************************************************)
(* The background executor (executor_service.py) and the handler that      *)
(* every step result goes through (swarm/executor_callback.py), with the   *)
(* rounds of a supervised run that the handler drives                      *)
(* (supervisor/continuation.py).                                           *)
(***************************************************************************)
EXTENDS SwarmState

-----------------------------------------------------------------------------
(* Ways for a coroutine of handle_step_done to stop running *)

Await(h, pc) == frame' = [frame EXCEPT ![h].pc = pc]

\* Mutant of NextStep: the row is not asked for a cancellation.
NextStepAnyway(h, left) ==
  IF left # {} THEN [frame[h] EXCEPT !.pc = "exec", !.left = left] ELSE IdleFrame(h)

\* The body of the executor's loop up to the next await: the row decides
\* whether the next step of the snapshot is started.
NextStep(h, left) ==
  IF left # {} /\ row'[h].status # "absent" /\ ~row'[h].task.cancelled
  THEN [frame[h] EXCEPT !.pc = "exec", !.left = left]
  ELSE IdleFrame(h)

IsFirst(i, S) == i \in S /\ \A j \in S : i <= j
AfterFirst(S) == {j \in S : \E i \in S : i < j}

\* handle_step_done returns: a worker goes on with its snapshot, a client is done.
Return(h) ==
  frame' = [frame EXCEPT ![h] = IF h \in Tasks THEN NextStep(h, AfterFirst(@.left))
                                ELSE IdleFrame(h)]

\* handle_step_done raises: the executor gives the task up until the next scan.
Abort(h) == frame' = [frame EXCEPT ![h] = IdleFrame(h)]

\* The objects after a step that leaves o in memory
Sweep(o) == obj' = Live(o, pend', frame')

RunOf(h) == obj[frame[h].task].run

\* A round recorded as achieved, then the run parked for a restart:
\* record_round, finish_run and signal_restart.  A failing record_round is
\* caught and skipped; without a run only the signal file is written.
RequestRestart(r) ==
  /\ signals' = signals \cup {"core"}
  /\ \E noted \in {TRUE, ~StorageFaults} :
       run' = IF r = NoRun THEN run
              ELSE LET rec == IF noted THEN RecordRound(run[r], "yes") ELSE run[r]
                   IN  [run EXCEPT ![r] = [rec EXCEPT !.status = "restart_pending"]]

-----------------------------------------------------------------------------
(* plan_task after the model has answered: a task is stored, or nothing is *)
(* (an empty answer, a format error, [DONE], an exception)                 *)

Create(t, task) ==
  /\ pend' = pend \cup {t}
  /\ row' = [row EXCEPT ![t] = Saved(task)]
  /\ replans' = [replans EXCEPT ![t] = 0]

PlanFails == UNCHANGED << pend, row, replans >>

-----------------------------------------------------------------------------
(* executor_service.py *)

\* Mutant of Executable: tasks in progress are not picked up
ExecutableOnlyNew(t) ==
  row[t].status = "pending" /\ ~row[t].task.cancelled /\ ~row[t].task.draft

\* Mutant of Executable: drafts are picked up as well
ExecutableDrafts(t) ==
  /\ row[t].status \in {"pending", "running", "draft"}
  /\ ~row[t].task.cancelled /\ ~row[t].task.noplan

\* The scan's WHERE clause
Executable(t) ==
  /\ row[t].status \in {"pending", "running"}
  /\ ~row[t].task.cancelled /\ ~row[t].task.draft /\ ~row[t].task.noplan

\* Mutant of Undone: finished steps are not left out.
WholePlan(t) == DOMAIN row[t].task.plan

\* Mutant of Undone: positions are counted from 0.
UndoneFromZero(t) ==
  {i - 1 : i \in {j \in DOMAIN row[t].task.plan : row[t].task.plan[j] \notin row[t].task.done}}

\* The positions of the steps a worker will go through
Undone(t) == {i \in DOMAIN row[t].task.plan : row[t].task.plan[i] \notin row[t].task.done}

\* _scan_and_execute: the rows without a worker get one, holding a snapshot of
\* the steps that are not done; it queues on the semaphore.
Scan ==
  LET found == {t \in Tasks : Executable(t) /\ frame[t].pc = "idle"}
  IN  /\ found # {}
      /\ frame' = [h \in Handlers |->
                     IF h \in found
                     THEN [pc |-> "queued", task |-> h, plan |-> row[h].task.plan,
                           left |-> Undone(h)]
                     ELSE frame[h]]
      /\ UNCHANGED << pend, obj, row, run, balance, signals, request, boot,
                      restarts, replans >>

Busy == {t \in Tasks : frame[t].pc \notin {"idle", "queued"}}

\* The semaphore is taken and _execute_task runs to its first await.  A task
\* with no step left (duplicate step ids, then a restart) is marked completed.
Start(t) ==
  /\ frame[t].pc = "queued"
  /\ Cardinality(Busy) < MaxConcurrent
  /\ row' = IF frame[t].left = {} /\ Present(t)
            THEN [row EXCEPT ![t].status = "completed"] ELSE row
  /\ frame' = [frame EXCEPT ![t] = NextStep(t, @.left)]
  /\ UNCHANGED << pend, obj, run, balance, signals, request, boot, restarts, replans >>

-----------------------------------------------------------------------------
(* handle_step_done up to its first await *)

\* The task in memory, loaded from its row when the dictionary lost it
Current(t) == IF t \in pend THEN obj[t] ELSE row[t].task

\* The object after the result of step s: done, results, and the saved row
WithResult(o, s, outcome) ==
  [o EXCEPT !.done = @ \cup {s}, !.res = @ \cup outcome,
            !.nres = IF @ < 2 THEN @ + 1 ELSE @]

\* Mutant of AllDone: one step too early
AlmostDone(o) == Cardinality(o.done) + 1 >= Cardinality(StepIds(o.plan))

\* Every step id of the plan has a result, duplicates counted once.
AllDone(o) == Cardinality(o.done) >= Cardinality(StepIds(o.plan))

Failed(o) == o.res \cap {"fail", "corefail", "blocked"} # {}

\* Mutant of RetryAllowed: off by one
RetryOnceMore(o) == o.retry <= MaxRetry

\* retry_count < 2
RetryAllowed(o) == o.retry < MaxRetry

\* Neither in memory nor in the table: the result is dropped.
ResultDropped(h, t) ==
  /\ t \notin pend /\ ~Present(t)
  /\ UNCHANGED << pend, obj, row, run, signals, replans >>
  /\ Return(h)

\* The task was cancelled: the result is dropped and the task forgotten.
ResultOfCancelled(h, t) ==
  /\ t \in pend \/ Present(t)
  /\ Current(t).cancelled
  /\ pend' = pend \ {t}
  /\ row' = [row EXCEPT ![t] = NoRow]
  /\ Return(h)
  /\ Sweep(obj)
  /\ UNCHANGED << run, signals, replans >>

\* The result is recorded and saved; when it was the last one, the task goes to
\* its summary, to a new plan for its failed steps, or asks for a restart.
ResultRecorded(h, t, s, outcome) ==
  LET new   == WithResult(Current(t), s, outcome)
      retry == [new EXCEPT !.retry = @ + 1]
      Keep(o) == Sweep([obj EXCEPT ![t] = o])
  IN
  /\ t \in pend \/ Present(t)
  /\ ~Current(t).cancelled
  /\ pend' = pend \cup {t}
  /\ row' = [row EXCEPT ![t] = Saved(new)]
  /\ UNCHANGED replans
  /\ \/ /\ ~AllDone(new)
        /\ Return(h) /\ Keep(new)
        /\ UNCHANGED << run, signals >>
     \/ /\ AllDone(new)
        /\ "blocked" \in new.res \/ ~Failed(new) \/ ~RetryAllowed(new)
        /\ frame' = [frame EXCEPT ![h].pc = "sum", ![h].task = t] /\ Keep(new)
        /\ UNCHANGED << run, signals >>
     \/ /\ AllDone(new) /\ "blocked" \notin new.res
        /\ Failed(new) /\ RetryAllowed(new)
        /\ IF "core" \in new.res
           THEN Return(h) /\ Keep(retry) /\ RequestRestart(new.run)
           ELSE /\ \E pc \in {"replan", "sumFail"} :
                     frame' = [frame EXCEPT ![h].pc = pc, ![h].task = t]
                /\ Keep(retry)
                /\ UNCHANGED << run, signals >>

HandleStepDone(h, t, s, outcome) ==
  \/ ResultDropped(h, t)
  \/ ResultOfCancelled(h, t)
  \/ ResultRecorded(h, t, s, outcome)

\* The worker's tool returns and its result is reported (_report_step_done).
StepDone(t) ==
  /\ frame[t].pc = "exec"
  /\ \E i \in frame[t].left, outcome \in WorkerOutcomes :
       IsFirst(i, frame[t].left) /\ HandleStepDone(t, t, frame[t].plan[i], outcome)
  /\ UNCHANGED << balance, request, boot, restarts >>

\* A client executor posts [STEP_DONE] for a step of a task it was sent
\* ([TASK] and [RETRY_TASK] messages, not [TASK_DRAFT]).
ClientReport(c, t) ==
  /\ frame[c].pc = "idle"
  /\ t \in pend \/ Present(t)
  /\ ~Current(t).draft
  /\ \E s \in StepIds(Current(t).plan), outcome \in ClientOutcomes :
       HandleStepDone(c, t, s, outcome)
  /\ UNCHANGED << balance, request, boot, restarts >>

-----------------------------------------------------------------------------
(* handle_step_done after its awaits; t is the task of handler h *)

\* replan_failed_steps answers with new steps: results and done are cleared and
\* the object saved, or with nothing: the task is summarised as failed.
Replanned(h) ==
  LET t == frame[h].task IN
  /\ frame[h].pc = "replan"
  /\ UNCHANGED << pend, run, balance, signals, request, boot, restarts >>
  /\ \/ \E p \in Plans :
          LET new == [obj[t] EXCEPT !.plan = p, !.done = {}, !.res = {}, !.nres = 0] IN
          /\ row' = [row EXCEPT ![t] = Saved(new)]
          /\ replans' = [replans EXCEPT ![t] = @ + 1]
          /\ Return(h)
          /\ Sweep([obj EXCEPT ![t] = new])
     \/ /\ Await(h, "sumFail")
        /\ UNCHANGED << obj, row, replans >>

\* The summary of a failed task is posted and the task forgotten; its run is
\* left as it is.
FailureSummed(h) ==
  LET t == frame[h].task IN
  /\ frame[h].pc = "sumFail"
  /\ IF t \in pend
     THEN pend' = pend \ {t} /\ row' = [row EXCEPT ![t] = NoRow] /\ Return(h)
     ELSE UNCHANGED << pend, row >> /\ Abort(h)
  /\ Sweep(obj)
  /\ UNCHANGED << run, balance, signals, request, boot, restarts, replans >>

\* What follows the summary of a supervised task, up to the next await.
CloseRound(h) ==
  LET o == obj[frame[h].task]
      r == o.run
      resumed == run[r].status = "running_resumed"
      simple  == Len(o.plan) = 1 /\ o.nres = 1 /\ o.res \subseteq {"patch", "core"}
  IN  \/ /\ r = NoRun
         /\ Return(h)
         /\ UNCHANGED << run, signals >>
      \/ /\ r # NoRun
         /\ ~resumed /\ o.res \cap {"core", "corefail"} # {}
         /\ RequestRestart(r)
         /\ Return(h)
      \/ /\ r # NoRun /\ simple
         /\ "core" \in o.res => resumed
         /\ run' = FinishRun(r, "completed")
         /\ Return(h)
         /\ UNCHANGED signals
      \/ /\ r # NoRun /\ ~simple
         /\ resumed \/ o.res \cap {"core", "corefail"} = {}
         /\ Await(h, "review")
         /\ UNCHANGED << run, signals >>

\* The summary of a task is posted; the KeyError of a task that has been
\* forgotten meanwhile ends the handler.
Summed(h) ==
  LET t == frame[h].task IN
  /\ frame[h].pc = "sum"
  /\ \/ /\ t \notin pend
        /\ Abort(h)
        /\ UNCHANGED << pend, row, run, signals >>
     \/ /\ t \in pend
        /\ pend' = pend \ {t}
        /\ row' = [row EXCEPT ![t] = NoRow]
        /\ IF "answer" \in obj[t].res
           THEN Await(h, "ansReview") /\ UNCHANGED << run, signals >>
           ELSE CloseRound(h)
  /\ Sweep(obj)
  /\ UNCHANGED << balance, request, boot, restarts, replans >>

\* task_summarizer on a task that produced an answer: accepted (also when the
\* review is empty or fails), or sent on to another round.
AnswerReviewed(h) ==
  LET r == RunOf(h) IN
  /\ frame[h].pc = "ansReview"
  /\ UNCHANGED << pend, row, balance, request, boot, restarts, replans >>
  /\ \/ CloseRound(h)
     \/ \E review \in {"yes", "null", "error"} :
          /\ run' = IF r = NoRun THEN run
                    ELSE LET rec == IF review = "error" THEN run[r]
                                    ELSE RecordRound(run[r], review)
                         IN  [run EXCEPT ![r] = [rec EXCEPT !.status = "completed"]]
          /\ Return(h)
          /\ UNCHANGED signals
  /\ Sweep(obj)

\* plan_task is entered for the next round; a busy conversation answers at once.
EnterPlan(h) ==
  IF HasActiveTask(obj[frame[h].task].conv) THEN Return(h) ELSE Await(h, "plan")

\* task_summarizer on a round: its review is recorded, check_and_continue
\* decides, and a refusal of whatever kind ends as finish_run('completed').
Reviewed(h) ==
  LET r == RunOf(h) IN
  /\ frame[h].pc = "review"
  /\ UNCHANGED << pend, row, signals, request, boot, restarts, replans >>
  /\ \/ \E review \in {"yes", "no", "null"}, noted \in {TRUE, ~StorageFaults} :
          LET rec == IF review # "null" /\ noted THEN RecordRound(run[r], review) ELSE run[r] IN
          \E v \in Verdicts(rec, review) :
            /\ balance' = balance - v.paid
            /\ IF ~v.go \/ review = "yes"
               THEN run' = [run EXCEPT ![r] = [v.rec EXCEPT !.status = "completed"]] /\ Return(h)
               ELSE /\ run' = [run EXCEPT ![r] = v.rec]
                    /\ IF review = "no" THEN EnterPlan(h) ELSE Await(h, "decide")
     \/ /\ \E rec \in {run[r]} \cup {RecordRound(run[r], review) : review \in {"yes", "no"}} :
             run' = [run EXCEPT ![r] = [rec EXCEPT !.status = "error"]]
        /\ Return(h)
        /\ UNCHANGED balance
  /\ Sweep(obj)

\* decide_next_step, asked when the round had no review
Decided(h) ==
  /\ frame[h].pc = "decide"
  /\ UNCHANGED << pend, row, balance, signals, request, boot, restarts, replans >>
  /\ \/ EnterPlan(h) /\ UNCHANGED run
     \/ Return(h) /\ \E s \in {"completed", "error"} : run' = FinishRun(RunOf(h), s)
  /\ Sweep(obj)

\* plan_task of the next round: the run ends only on [DONE] or an exception.
RoundPlanned(h) ==
  LET o == obj[frame[h].task] IN
  /\ frame[h].pc = "plan"
  /\ UNCHANGED << balance, signals, request, boot, restarts >>
  /\ \/ \E t \in FreshTasks : \E task \in NewTasks(o.conv, o.run, FALSE) :
          /\ Create(t, task)
          /\ Return(h)
          /\ Sweep([obj EXCEPT ![t] = task])
          /\ UNCHANGED run
     \/ /\ PlanFails
        /\ Return(h)
        /\ Sweep(obj)
        /\ run' \in {run, FinishRun(o.run, "completed"), FinishRun(o.run, "error")}
=============================================================================
