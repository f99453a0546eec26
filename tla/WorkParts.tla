------------------------------- MODULE WorkParts ------------------------------
(***************************************************************************)
(* Commands and tasks of the work mode (WorkMode) twice: a few requests in *)
(* several conversations, and commands over several days, of which the     *)
(* first are free.  part says which of the two moves, or which part of the *)
(* services they pay (CreditParts).                                        *)
(***************************************************************************)
EXTENDS CreditParts

CONSTANTS
  Requests, Convs, Plans, UtcLead, MaxTime, FreeTasks,
  FeeRequests, FeeConvs, FeePlans, FeeLead, FeeTime, FeesFrom   \* the same of commands over days

\* Ids of conversations count from 1; a plan has steps of two kinds; a time zone is at
\* most half a day (rounded) from UTC; time and free commands are counted.
WorkConstants ==
  /\ Convs \subseteq Nat \ {0} /\ Plans \subseteq Seq({"command", "harness"})
  /\ FeesFrom \in Nat /\ FeeTime \in Nat \ {0} /\ FeeLead \in {-1, 0, 1}

ASSUME WorkAssumption == WorkConstants

VARIABLES window, stored, exists, gone, logs, fees, time, req

workVars == << window, stored, exists, gone, logs, fees, time, req >>

Work == INSTANCE WorkMode WITH rows <- stored

Fees == INSTANCE WorkMode WITH
  Requests <- FeeRequests, Convs <- FeeConvs, Plans <- FeePlans,
  UtcLead <- FeeLead, MaxTime <- FeeTime, FreeTasks <- FeesFrom, rows <- stored

WorkInit == IF part = "fees" THEN Fees!Init ELSE Work!Init
WorkPart == part = "work" /\ Work!Next /\ UNCHANGED part
FeesPart == part = "fees" /\ Fees!Next /\ UNCHANGED part

WorkSpec == WorkInit /\ [][WorkPart \/ FeesPart]_<< part, workVars >>

-----------------------------------------------------------------------------
(* Properties *)

\* Every command is followed by its own log in its own conversation, the rows of a
\* task are in the conversation it was given or spread one command each, and a task
\* stops at the first step that is blocked or fails to run; nobody pays for one of
\* the free commands of a day.
CommandsAnswered ==
  /\ part = "work" => Work!WorkTypeOK /\ Work!CommandsAnswered /\ Work!TaskRowsInPlace /\ Work!StopsAtError
  /\ part = "fees" => Fees!FreeFirst
=============================================================================
