-------------------------- MODULE SwarmSupervisor ---------------------------
(***************************************************************************)
(* The swarm and its supervisor: requests that plan, confirm, cancel and   *)
(* reject (swarm/commander.py, api_routes/swarm_routes.py,                 *)
(* api_routes/supervisor_routes.py, message/send.py), the run table        *)
(* (supervisor/runs.py), and the server's restarts (bootstrap.py,          *)
(* scripts/run_forever.py, supervisor/continuation.py).                    *)
(***************************************************************************)
EXTENDS SwarmCallback

Init ==
  /\ pend = {}
  /\ obj = [t \in Tasks |-> Blank]
  /\ row = [t \in Tasks |-> NoRow]
  /\ run = [r \in Runs |-> NewRun(SomeConv, "unused")]
  /\ balance = InitBalance
  /\ signals = {}
  /\ frame = [h \in Handlers |-> IdleFrame(h)]
  /\ request = [q \in Requests |-> IdleRequest]
  /\ boot = BootOff
  /\ restarts = 0
  /\ replans = [t \in Tasks |-> 0]

-----------------------------------------------------------------------------
(* Requests that plan *)

\* plan_task is entered; a busy conversation is refused at once.
Enter(q, c, r, draft) ==
  request' = [request EXCEPT ![q] =
                IF HasActiveTask(c) THEN IdleRequest
                ELSE [pc |-> "llm", conv |-> c, run |-> r, draft |-> draft]]

\* POST /swarm/plan, and messages routed to the swarm
PlanRequest(q, c) ==
  /\ request[q].pc = "idle"
  /\ ~HasActiveTask(c)
  /\ \E draft \in BOOLEAN : Enter(q, c, NoRun, draft)
  /\ UNCHANGED << pend, obj, row, run, balance, signals, frame, boot, restarts, replans >>

\* The runs get_active_run looks at; it picks the newest (ORDER BY id DESC).
Active == {r \in Runs : run[r].status \in {"running", "proposed"}}
IsNewest(r, S) == r \in S /\ \A x \in S : x <= r

\* AUTOINCREMENT: the next id
IsNextRun(r) == IsFirst(r, {x \in Runs : run[x].status = "unused"})

\* #4: without an active run, or after the newest one turned out to be more
\* than 30 minutes idle, a run is created and its goal planned.
AutoRun(q, c) ==
  /\ request[q].pc = "idle"
  /\ \E new \in Runs :
       /\ IsNextRun(new)
       /\ \A r \in Runs : IsNewest(r, Active) => run[r].status = "running"
       /\ run' = [r \in Runs |-> IF r = new THEN NewRun(c, "running")
                                 ELSE IF IsNewest(r, Active)
                                 THEN [run[r] EXCEPT !.status = "timeout"]
                                 ELSE run[r]]
       /\ Enter(q, c, new, FALSE)
  /\ UNCHANGED << pend, obj, row, balance, signals, frame, boot, restarts, replans >>

\* POST /supervisor/propose, and proposals of the dispatcher
Propose(c) ==
  /\ \E new \in Runs : /\ IsNextRun(new)
                      /\ run' = [run EXCEPT ![new] = NewRun(c, "proposed")]
  /\ UNCHANGED << pend, obj, row, balance, signals, frame, request, boot, restarts, replans >>

\* confirm_run: the compare-and-set that admits a proposal
ConfirmRun(r) ==
  /\ run[r].status = "proposed"
  /\ run' = FinishRun(r, "running")

\* POST /supervisor/confirm: plan_task becomes a task of its own.
Confirm(q, r) ==
  /\ request[q].pc = "idle"
  /\ ConfirmRun(r)
  /\ request' = [request EXCEPT ![q] = [pc |-> "start", conv |-> run[r].conv,
                                        run |-> r, draft |-> FALSE]]
  /\ UNCHANGED << pend, obj, row, balance, signals, frame, boot, restarts, replans >>

StartPlan(q) ==
  /\ request[q].pc = "start"
  /\ Enter(q, request[q].conv, request[q].run, FALSE)
  /\ UNCHANGED << pend, obj, row, run, balance, signals, frame, boot, restarts, replans >>

\* The model answers a request: whatever the answer, the run is left as it is.
Planned(q) ==
  /\ request[q].pc = "llm"
  /\ request' = [request EXCEPT ![q] = IdleRequest]
  /\ UNCHANGED << run, balance, signals, frame, boot, restarts >>
  /\ \/ \E t \in FreshTasks :
          \E task \in NewTasks(request[q].conv, request[q].run, request[q].draft) :
            Create(t, task) /\ Sweep([obj EXCEPT ![t] = task])
     \/ PlanFails /\ Sweep(obj)

-----------------------------------------------------------------------------
(* Requests that confirm, cancel and reject *)

\* confirm_task: the draft, possibly with edited steps, is released.
ConfirmDraft(t) ==
  /\ t \in pend /\ obj[t].draft
  /\ \E p \in Plans :
       LET new == [obj[t] EXCEPT !.plan = p, !.draft = FALSE] IN
       /\ obj' = [obj EXCEPT ![t] = new]
       /\ row' = [row EXCEPT ![t] = Saved(new)]
  /\ UNCHANGED << pend, run, balance, signals, frame, request, boot, restarts, replans >>

\* cancel_task: a no-plan task is forgotten, any other is flagged and saved.
CancelTask(t) ==
  /\ t \in pend
  /\ UNCHANGED << run, balance, signals, frame, request, boot, restarts, replans >>
  /\ IF obj[t].noplan
     THEN /\ pend' = pend \ {t}
          /\ row' = [row EXCEPT ![t] = NoRow]
          /\ Sweep(obj)
     ELSE LET new == [obj[t] EXCEPT !.cancelled = TRUE] IN
          /\ obj' = [obj EXCEPT ![t] = new]
          /\ row' = [row EXCEPT ![t] = Saved(new)]
          /\ UNCHANGED pend

\* submit_feedback: the task is flagged and forgotten, whoever still holds it.
Feedback(t) ==
  /\ t \in pend
  /\ pend' = pend \ {t}
  /\ row' = [row EXCEPT ![t] = NoRow]
  /\ UNCHANGED << run, balance, signals, frame, request, boot, restarts, replans >>
  /\ Sweep([obj EXCEPT ![t].cancelled = TRUE])

\* Mutant of RejectRun: a run in progress can be rejected too.
RejectAnyRun(r) ==
  /\ run[r].status \in {"proposed", "running"}
  /\ run' = FinishRun(r, "rejected")

\* reject_run: only a proposal can be rejected.
RejectRun(r) ==
  /\ run[r].status = "proposed"
  /\ run' = FinishRun(r, "rejected")

Reject(r) ==
  /\ RejectRun(r)
  /\ UNCHANGED << pend, obj, row, balance, signals, frame, request, boot, restarts, replans >>

\* cancel_run: the run, if it is running or proposed, and the rows of its tasks;
\* the objects in memory are not touched.
CancelRun(r) ==
  LET hit == {t \in Tasks : row[t].task.run = r /\ row[t].status \in {"pending", "running"}} IN
  /\ run[r].status # "unused"
  /\ run' = IF run[r].status \in {"running", "proposed"} THEN FinishRun(r, "cancelled") ELSE run
  /\ row' = [t \in Tasks |->
               IF t \in hit
               THEN [task |-> [row[t].task EXCEPT !.cancelled = TRUE], status |-> "cancelled"]
               ELSE row[t]]
  /\ UNCHANGED << pend, obj, balance, signals, frame, request, boot, restarts, replans >>

\* cleanup_finished_swarm_tasks: rows untouched for seven days, so nobody's
\* coroutine is still at work on them.
Cleanup(t) ==
  /\ row[t].status \in {"completed", "cancelled", "no_plan"}
  /\ \A h \in Handlers : frame[h].task = t => frame[h].pc = "idle"
  /\ row' = [row EXCEPT ![t] = NoRow]
  /\ UNCHANGED << pend, obj, run, balance, signals, frame, request, boot, restarts, replans >>

-----------------------------------------------------------------------------
(* The server goes down and comes up *)

\* The root's signal file is the one the watcher and the wrapper look at; other
\* restarts (a crash, the wrapper's 12 hours) come unasked.  lifespan marks what
\* is more than 30 minutes old as interrupted, and restore_pending_tasks reads
\* the open rows back into memory.
Restart ==
  /\ "root" \notin signals => restarts < MaxRestarts
  /\ restarts' = IF "root" \in signals THEN restarts ELSE restarts + 1
  /\ \E oldRuns \in SUBSET {r \in Runs : run[r].status = "running"},
        oldRows \in SUBSET {t \in Tasks : row[t].status \in {"pending", "running"}} :
       /\ run' = [r \in Runs |-> IF r \in oldRuns THEN [run[r] EXCEPT !.status = "interrupted"]
                                 ELSE run[r]]
       /\ row' = [t \in Tasks |-> IF t \in oldRows THEN [row[t] EXCEPT !.status = "interrupted"]
                                  ELSE row[t]]
  /\ pend' = {t \in Tasks : row'[t].status \in {"pending", "running", "draft"}}
  /\ obj' = [t \in Tasks |-> IF t \in pend' THEN row[t].task ELSE Blank]
  /\ frame' = [h \in Handlers |-> IdleFrame(h)]
  /\ request' = [q \in Requests |-> IdleRequest]
  /\ boot' = [BootOff EXCEPT !.pc = "wait"]
  /\ signals' = signals \ {"root"}
  /\ UNCHANGED << balance, replans >>

\* resume_restart_pending_runs: ten seconds after the start the parked runs are read.
ResumeRead ==
  /\ boot.pc = "wait"
  /\ LET parked == {r \in Runs : run[r].status = "restart_pending"}
     IN  boot' = [BootOff EXCEPT !.pc = "next", !.left = parked,
                                 !.achieved = {r \in parked : run[r].last = "yes"}]
  /\ UNCHANGED << pend, obj, row, run, balance, signals, frame, request, restarts, replans >>

\* The next of them: those it found achieved are completed, others planned again.
ResumeNext ==
  /\ boot.pc = "next"
  /\ UNCHANGED << pend, obj, row, balance, signals, frame, request, restarts, replans >>
  /\ \/ /\ boot.left = {}
        /\ boot' = BootOff
        /\ UNCHANGED run
     \/ \E r \in boot.left :
        /\ IsNewest(r, boot.left)
        /\ LET rest == [boot EXCEPT !.left = @ \ {r}]
           IN  IF r \in boot.achieved
               THEN run' = FinishRun(r, "completed") /\ boot' = rest
               ELSE /\ run' = FinishRun(r, "running_resumed")
                    /\ boot' = IF HasActiveTask(run[r].conv) THEN rest
                               ELSE [rest EXCEPT !.pc = "llm", !.run = r]

ResumePlanned ==
  /\ boot.pc = "llm"
  /\ boot' = [boot EXCEPT !.pc = "next", !.run = NoRun]
  /\ UNCHANGED << run, balance, signals, frame, request, restarts >>
  /\ \/ \E t \in FreshTasks : \E task \in NewTasks(run[boot.run].conv, boot.run, FALSE) :
          Create(t, task) /\ Sweep([obj EXCEPT ![t] = task])
     \/ PlanFails /\ Sweep(obj)

-----------------------------------------------------------------------------

Executor ==
  \/ Scan
  \/ \E t \in Tasks : Start(t) \/ StepDone(t)

Callback ==
  \E h \in Handlers :
    \/ Replanned(h) \/ FailureSummed(h) \/ Summed(h) \/ AnswerReviewed(h)
    \/ Reviewed(h) \/ Decided(h) \/ RoundPlanned(h)

UserRequest ==
  \/ \E q \in Requests, c \in Convs : PlanRequest(q, c) \/ AutoRun(q, c)
  \/ \E q \in Requests, r \in Runs : Confirm(q, r)
  \/ \E c \in Convs : Propose(c)
  \/ \E r \in Runs : Reject(r) \/ CancelRun(r)
  \/ \E t \in Tasks : ConfirmDraft(t) \/ CancelTask(t) \/ Feedback(t)
  \/ \E c \in Clients, t \in Tasks : ClientReport(c, t)

Server ==
  \/ \E q \in Requests : StartPlan(q) \/ Planned(q)
  \/ ResumeRead \/ ResumeNext \/ ResumePlanned
  \/ \E t \in Tasks : Cleanup(t)
  \/ Restart

Next == Executor \/ Callback \/ UserRequest \/ Server

Spec == Init /\ [][Next]_vars
=============================================================================
