-------------------------- MODULE SwarmProperties ---------------------------
(***************************************************************************)
(* What the swarm and its supervisor promise, and the fairness their       *)
(* scheduling justifies.                                                   *)
(***************************************************************************)
EXTENDS SwarmSupervisor, Functions

\* Every variable holds a value of its kind: keys and rows of known tasks, runs
\* with known states, coroutines parked at known awaits.
TypeOK ==
  /\ pend \subseteq Tasks
  /\ obj \in [Tasks -> Task]
  /\ row \in [Tasks -> Row]
  /\ run \in [Runs -> Run]
  /\ balance \in Int
  /\ signals \subseteq {"core", "root"}
  /\ frame \in [Handlers -> Frame]
  /\ request \in [Requests -> Request]
  /\ boot \in Boot
  /\ restarts \in Nat
  /\ replans \in [Tasks -> Nat]

-----------------------------------------------------------------------------
(* Safety *)

\* The row's task d is the task m in memory; the callback raises the retry counter
\* after its save.
Agree(m, d) ==
  /\ << d.conv, d.run, d.plan, d.draft, d.noplan >>
       = << m.conv, m.run, m.plan, m.draft, m.noplan >>
  /\ d.done = m.done /\ d.res = m.res /\ d.nres = m.nres
  /\ m.cancelled => d.cancelled
  /\ d.retry \in {m.retry, m.retry - 1}

\* A restart continues from exactly what memory held: for every task in
\* _pending that has a row, steps, finished steps, results and draft flag of the
\* row are those in memory, and a cancellation in memory is in the row.
\* (_save_pending after every change of executor_callback.py and commander.py)
StoreMatchesMemory == \A t \in pend : Present(t) => Agree(obj[t], row[t].task)

\* A task is planned anew for its failed steps at most MaxRetry times in its
\* life, restarts of the server included (retry_count of executor_callback.py).
ReplanLimit == \A t \in Tasks : replans[t] <= MaxRetry

\* A run its user has confirmed, or that #4 started
Admitted(r) == r = NoRun \/ run[r].status \notin {"unused", "proposed", "rejected"}

\* No work is done for a supervised run its user has not confirmed: a task in
\* memory or in a coroutine's hands, a row, a request parked in plan_task and the
\* resume after a restart never belong to a run that is still a proposal or was
\* rejected (the compare-and-sets of runs.py).
OnlyConfirmedRunsWork ==
  /\ \A t \in Tasks : Admitted(obj[t].run) /\ Admitted(row[t].task.run)
  /\ \A q \in Requests : Admitted(request[q].run)
  /\ \A r \in boot.left \cup {boot.run} : Admitted(r)

\* A draft is not executed before its user confirms it: no worker is on it,
\* neither before nor after a restart (is_draft in the scan of the executor).
DraftsWait ==
  \A t \in pend : obj[t].draft => frame[t].pc = "idle"

\* What the callback and the executor hold back: retries beyond the limit, and drafts
TasksHeldBack == ReplanLimit /\ DraftsWait

\* What the rounds of each run have cost so far
Charged == [r \in Runs |-> run[r].used]

\* The rounds of all runs are paid for, once, and never beyond the purse or the
\* limit of a run.
RoundsPaid ==
  /\ balance >= 0
  /\ balance + SumFunctionOnSet(Charged, Runs) = InitBalance
  /\ \A r \in Runs : run[r].used < BudgetStop + CreditsPerRound

\* Without a restart the rounds on record exceed the limit by no more than the review
\* that is recorded before check_and_continue records the round again.
RoundsEnd == \A r \in Runs : run[r].round <= MaxRounds + 1

\* The step of OnlyRunningRunsPay
RunningRunsPay ==
  \A r \in Runs : run[r].status # "running" => run'[r].used = run[r].used

\* A run that is not running is not charged, whoever ended it while its round was
\* under review (check_and_continue reads the run again after the await).
OnlyRunningRunsPay == [][RunningRunsPay]_vars

\* A worker's next step starts
Starts(t) == frame'[t].pc = "exec" /\ frame'[t] # frame[t]

\* The step of CancelStopsTask
NoStepAfterCancel ==
  \A t \in Tasks : Starts(t) => ~(t \in pend /\ obj[t].cancelled)

\* After cancel_task no further step of the task is started: the step in flight
\* is the last one, also when a replan or a restart comes in between.
CancelStopsTask == [][NoStepAfterCancel]_vars

\* The step of NoStepTwice
NoStepAgain ==
  \A t \in Tasks : Starts(t) =>
     \A i \in frame'[t].left :
       IsFirst(i, frame'[t].left) => frame'[t].plan[i] \notin row'[t].task.done

\* A step whose result is recorded is not executed again under the same plan,
\* not even by the worker that takes the task over after a restart.
NoStepTwice == [][NoStepAgain]_vars

\* The step of NothingLost
RowsGoWhenDone ==
  \A t \in Tasks :
     Present(t) /\ row'[t].status = "absent"
       => \/ StepIds(row[t].task.plan) \subseteq row[t].task.done
          \/ row[t].task.cancelled
          \/ Feedback(t)

\* An unfinished task is never lost: its row goes away only once all its steps
\* have a result, it was cancelled, or its user reports it as a false positive.
NothingLost == [][RowsGoWhenDone]_vars

-----------------------------------------------------------------------------
(* Liveness.  The event loop runs every ready coroutine, tools and models      *)
(* answer or time out, and the semaphore hands its slots out in turn; users,   *)
(* clients, the cleanup and crashes are under no obligation.  The watcher of   *)
(* lifespan does look at its signal file every three seconds.                *)

WatcherExit == "root" \in signals /\ Restart

Fairness ==
  /\ WF_vars(Scan)
  /\ \A t \in Tasks : SF_vars(Start(t)) /\ WF_vars(StepDone(t))
  /\ \A h \in Handlers :
       /\ WF_vars(Replanned(h)) /\ WF_vars(FailureSummed(h)) /\ WF_vars(Summed(h))
       /\ WF_vars(AnswerReviewed(h)) /\ WF_vars(Reviewed(h)) /\ WF_vars(Decided(h))
       /\ WF_vars(RoundPlanned(h))
  /\ \A q \in Requests : WF_vars(StartPlan(q)) /\ WF_vars(Planned(q))
  /\ WF_vars(WatcherExit)
  /\ WF_vars(ResumeRead) /\ WF_vars(ResumeNext) /\ WF_vars(ResumePlanned)

FairSpec == Spec /\ Fairness

\* A task in progress does not stay so, with or without a restart: it is
\* completed, cancelled, interrupted or forgotten, whatever its steps return.
Open(t) == row[t].status \in {"pending", "running"}

TasksSettle == \A t \in Tasks : Open(t) ~> ~Open(t)

-----------------------------------------------------------------------------
(* What the documents, messages and comments of the repository say, and the    *)
(* code does not keep                                                          *)

\* cancel_run cancels the tasks of the run with it: once the run is cancelled,
\* no further step of its tasks is started.
CancelledRunStops ==
  [][\A t \in Tasks : Starts(t) /\ row'[t].task.run # NoRun
                        => run[row'[t].task.run].status # "cancelled"]_vars

\* A conversation has one task in progress at a time (the busy answer of
\* plan_task): two tasks of one conversation are never both executable.
OneTaskPerConversation ==
  \A t, u \in Tasks : t # u /\ Executable(t) /\ Executable(u)
                         => row[t].task.conv # row[u].task.conv

\* A run parked for a restart gets its restart: signal_restart leaves a file the
\* watcher sees, the server comes up again and takes the run on.
ParkedRunsGoOn ==
  \A r \in Runs : run[r].status = "restart_pending" ~> run[r].status # "restart_pending"

\* A run that check_and_continue stopped shows the reason it was stopped for.
StopReasonKept ==
  \A r \in Runs : run[r].stop \notin {"none", "rounds"} => run[r].status = run[r].stop

\* A run is stopped as a loop only after LoopWindow rounds with similar plans: all
\* rounds but the last one were paid for ("3 rounds" in check_and_continue).
LoopNeedsItsRounds ==
  \A r \in Runs : run[r].stop = "loop_detected"
                    => run[r].used >= (LoopWindow - 1) * CreditsPerRound
=============================================================================
