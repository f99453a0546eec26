---------------------------- MODULE MCSwarmParts ----------------------------
(* Three instances of the swarm in one run: the initial state chooses which of  *)
(* them moves.  The supervised run that meets restarts has variables of its    *)
(* own; the others share the second set.                                       *)
EXTENDS SwarmProperties, TLC

CONSTANTS t1, t2, c1, q1

VARIABLES
  part,
  pend2, obj2, row2, run2, balance2, signals2, frame2, request2, boot2, restarts2, replans2

vars2 == << pend2, obj2, row2, run2, balance2, signals2, frame2, request2, boot2,
            restarts2, replans2 >>

OneStep == {<< 1 >>}
TwoSteps == {<< 1 >>, << 1, 2 >>}
SomeOutcomes == {{"ok"}, {"core"}}

\* Two unsupervised tasks, failing steps and a restart
E == INSTANCE SwarmProperties WITH
  Runs <- {}, Plans <- TwoSteps, WorkerOutcomes <- {{"ok"}, {"fail"}}, MaxRetry <- 2,
  StorageFaults <- FALSE,
  pend <- pend2, obj <- obj2, row <- row2, run <- run2, balance <- balance2, signals <- signals2,
  frame <- frame2, request <- request2, boot <- boot2, restarts <- restarts2, replans <- replans2

\* A supervised run through as many rounds as it can pay for
P == INSTANCE SwarmProperties WITH
  WorkerOutcomes <- {{"ok"}, {"answer"}, {"answer", "fail"}, {"patch"}, {"core"}, {"corefail"}},
  NoProgressWindow <- 4, InitBalance <- 7, StorageFaults <- FALSE, MaxRestarts <- 0,
  pend <- pend2, obj <- obj2, row <- row2, run <- run2, balance <- balance2, signals <- signals2,
  frame <- frame2, request <- request2, boot <- boot2, restarts <- restarts2, replans <- replans2

PartsInit ==
  /\ Init
  /\ \/ part \in {"runs", "exec"} /\ E!Init
     \/ part = "rounds" /\ P!Init

PartsNext ==
  \/ part = "runs" /\ Next /\ UNCHANGED << part, vars2 >>
  \/ part = "exec" /\ E!Next /\ UNCHANGED << part, vars >>
  \/ part = "rounds" /\ P!Next /\ UNCHANGED << part, vars >>

PartsSpec == PartsInit /\ [][PartsNext]_<< part, vars, vars2 >>

TaskSymmetry == Permutations({t1, t2})

\* No step is started after its task was cancelled or once it is done, and none is lost:
\* the row of a task goes when all its steps are done.
StepsAreDoneOnce ==
  [][part = "exec" => E!NoStepAgain /\ E!RowsGoWhenDone /\ E!NoStepAfterCancel]_vars2

\* Failing steps and a restart leave tasks and rows in agreement and grant no retry beyond
\* the limit; every round of a run was paid for, and a run ends within its rounds.
FailuresAndRounds ==
  /\ part = "exec" => E!StoreMatchesMemory /\ E!TasksHeldBack
  /\ part = "rounds" => P!RoundsPaid /\ P!RoundsEnd
=============================================================================
