----------------------------- MODULE MCLiveness -----------------------------
(* What must eventually happen: cards of group tasks are posted, the tasks of  *)
(* the swarm settle, questions are answered; and the escrow of the group tasks *)
(* behind the cards.  The parts share no state; the initial state chooses      *)
(* which of them moves and whose fairness is assumed.                          *)
EXTENDS RequestParts, TLC

CONSTANTS t1, t2, c1, q1, u1, u2, u3, Bank, NoRun

VARIABLES
  part,
  pend, obj, row, run, balance, signals, frame, request, boot, restarts, replans  \* the swarm

swarmVars == << pend, obj, row, run, balance, signals, frame, request, boot, restarts, replans >>

\* Group tasks: three members, two tasks, a reward that is too small, one that halves to
\* a cent and one that does not; a day has six units, and the patience is half a day.
ThreeUsers == {u1, u2, u3}
TwoTasks == 1 .. 2
SomeRewards == {990, 1000, 1005}

\* Two tasks of the swarm, one of which has the same step twice
Swarm == INSTANCE SwarmProperties WITH
  Tasks <- {t1, t2}, Convs <- {c1}, Runs <- {}, Requests <- {q1}, Clients <- {},
  Plans <- {<< 1 >>, << 1, 1 >>}, WorkerOutcomes <- {{"ok"}}, ClientOutcomes <- {}, MaxRetry <- 0,
  MaxConcurrent <- 1, MaxRounds <- 4, CreditsPerRound <- 2, BudgetStop <- 4, LoopWindow <- 3,
  NoProgressWindow <- 5, InitBalance <- 3, StorageFaults <- FALSE, RoundCap <- 6, MaxRestarts <- 1

\* Every form of message, in every mode, to every kind of agent under every identity
EveryForm ==
  {"#5", "#1", "#2", "#3", "#4", "draft", "file", "lost file", "image import", "*1",
   "inline import", "file import", "[STEP_DONE]", "greeting", "operation", "harness",
   "path", "plain"}

PartsInit ==
  /\ part \in {"rewards", "cards", "swarm", "routing"}
  /\ Init /\ Swarm!Init /\ Routing!Init
  /\ part # "routing" => msg = CHOOSE m \in Routing!Message : TRUE

\* Of the group tasks, both are judged while the clock stands, or one of 1000 cents has
\* cards and at most one other member takes part.
OneTask == /\ task'[2] = task[2] /\ task'[1].reward \in {0, 1000}
           /\ task'[1].creator # u3 /\ u3 \notin subs'[1]

PartsNext ==
  \/ part = "rewards" /\ Next /\ UNCHANGED << part, clock, faults, swarmVars, msgVars >>
  \/ part = "cards" /\ Next /\ OneTask /\ UNCHANGED << part, swarmVars, msgVars >>
  \/ part = "swarm" /\ Swarm!Next /\ UNCHANGED << part, gvars, msgVars >>
  \/ part = "routing" /\ Routing!Next /\ UNCHANGED << part, gvars, swarmVars >>

PartsSpec ==
  /\ PartsInit /\ [][PartsNext]_<< part, gvars, swarmVars, msgVars >>
  /\ \/ part = "rewards"
     \/ part = "cards" /\ Fairness
     \/ part = "swarm" /\ Swarm!Fairness
     \/ part = "routing" /\ Routing!Fairness

\* A task in progress does not stay so, with or without a restart.
TasksSettle == Swarm!TasksSettle

\* Every question a model was asked gets its stored reply unless its conversation
\* is deleted.
QuestionIsAnswered == Routing!QuestionIsAnswered
=============================================================================
