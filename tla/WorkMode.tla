------------------------------- MODULE WorkMode -------------------------------
(***************************************************************************)
(* Commands (work_service), tasks a commander splits into commands         *)
(* (commander_service) and the window they are typed in (chat_work.js).    *)
(*                                                                         *)
(* A request runs in its conversation while the window may move on, the    *)
(* conversation be deleted and midnight pass.  Time is counted in half     *)
(* days: the server's clock gives the local day, CURRENT_TIMESTAMP the     *)
(* day in UTC.                                                             *)
(***************************************************************************)
EXTENDS Integers, Sequences, FiniteSets, Functions

CONSTANTS
  Requests,  \* requests that may be sent
  Convs,     \* ids of conversations, handed out in order
  Plans,     \* what the model may answer: sequences of "command" and "harness"
  UtcLead,   \* half days by which UTC is ahead of the server's zone
  MaxTime,   \* bound on the half days that pass
  FreeTasks  \* FREE_DAILY_TASKS

VARIABLES
  window,  \* chatState.conversationId; 0: none yet
  rows,    \* the messages of each conversation
  exists,  \* the conversations there are
  gone,    \* those that were deleted
  logs,    \* work_logs: how many of which day in UTC, local day and outcome
  fees,    \* contribution_log: how many commands were charged on a day
  time,
  req      \* the requests

wvars == << window, rows, exists, gone, logs, fees, time, req >>

Unsent == [kind |-> "command", stage |-> "unsent", given |-> 0, conv |-> 0, plan |-> << >>, results |-> << >>]

-----------------------------------------------------------------------------
(* The day a row belongs to *)

Today == time \div 2
UtcDay == (time + UtcLead) \div 2

\* created_at is CURRENT_TIMESTAMP, 'd HH:MM:SS' in UTC, and is compared with the
\* text 'dT00:00:00': a blank sorts before the T, so a row counts as today's only
\* when its UTC day is a later one.
CountsToday(log, day) == log.utc > day

Log == [utc : 0 .. MaxTime, day : 0 .. MaxTime, ran : BOOLEAN]
Total(all, Counts(_)) == FoldFunctionOnSet(+, 0, all, {l \in Log : Counts(l)})

\* get_today_work_count, which finds the log of the command itself already there
Fee(status, all) ==
  /\ status = "ran"
  /\ Total(all, LAMBDA l : CountsToday(l, Today)) > FreeTasks

-----------------------------------------------------------------------------
(* work_service *)

NewConv == CHOOSE c \in Convs \ (exists \cup gone) : \A d \in Convs \ (exists \cup gone) : c <= d
CanCreate == Convs \ (exists \cup gone) # {}

\* create_conversation_if_needed and insert_user_message: the command is stored
\* before anything is known about it; a deleted conversation refuses the row.
Accept(r, c) ==
  /\ exists' = exists \cup {c}
  /\ rows' = [rows EXCEPT ![c] = Append(@, [from |-> r, what |-> "command"])]

\* write_work_log, the fee and the reply of one command.  Log and fee are
\* committed before the reply, which the foreign key may refuse.
Record(status) ==
  /\ logs' = [logs EXCEPT ![[utc |-> UtcDay, day |-> Today, ran |-> status = "ran"]] = @ + 1]
  /\ fees' = IF Fee(status, logs') THEN [fees EXCEPT ![Today] = @ + 1] ELSE fees

\* Mutant of Answer: the reply goes to the conversation that is open now.
AnswerInWindow(r, c, what) ==
  IF window \in exists THEN rows' = [rows EXCEPT ![window] = Append(@, [from |-> r, what |-> what])]
                       ELSE UNCHANGED rows

Answer(r, c, what) ==
  IF c \in exists THEN rows' = [rows EXCEPT ![c] = Append(@, [from |-> r, what |-> what])]
                  ELSE UNCHANGED rows

\* is_command_allowed and analyze_risk block before the command runs; the rest is
\* the operating system's.  A command that ran may have succeeded or failed.
Outcomes == {"blocked", "ran", "timeout", "error"}

-----------------------------------------------------------------------------
(* The window *)

SendWorkCommand(r) ==
  LET c == IF window = 0 THEN NewConv ELSE window
  IN  /\ req[r].stage = "unsent" /\ (window = 0 => CanCreate)
      /\ IF window = 0 \/ window \in exists
         THEN /\ Accept(r, c)
              /\ req' = [req EXCEPT ![r] = [@ EXCEPT !.stage = "running", !.given = window, !.conv = c]]
         ELSE /\ req' = [req EXCEPT ![r] = [@ EXCEPT !.stage = "failed", !.given = window]]
              /\ UNCHANGED << rows, exists >>
      /\ UNCHANGED << window, gone, logs, fees, time >>

SendCommanderTask(r) ==
  /\ req[r].stage = "unsent"
  /\ req' = [req EXCEPT ![r] = [@ EXCEPT !.kind = "task", !.stage = "planning", !.given = window]]
  /\ UNCHANGED << window, rows, exists, gone, logs, fees, time >>

\* The answer of a command names its conversation, that of a task does not.
Shown(r) ==
  /\ req[r].stage = "answered"
  /\ window' = IF req[r].kind = "command" THEN req[r].conv ELSE window
  /\ req' = [req EXCEPT ![r].stage = "shown"]
  /\ UNCHANGED << rows, exists, gone, logs, fees, time >>

OpenOther == window' \in exists \cup {0} /\ UNCHANGED << rows, exists, gone, logs, fees, time, req >>

-----------------------------------------------------------------------------
(* execute_work_command after its await *)

CommandDone(r) ==
  LET c == req[r].conv
  IN  /\ req[r].stage = "running" /\ req[r].kind = "command"
      /\ \E status \in Outcomes :
           /\ Record(status)
           /\ Answer(r, c, "log")
           /\ req' = [req EXCEPT ![r].stage = IF c \in exists THEN "answered" ELSE "failed"]
      /\ UNCHANGED << window, exists, gone, time >>

\* A client that ran the command itself reports it: no await, and never a fee.
ReportWorkResult(r) ==
  /\ req[r].stage = "unsent"
  /\ \E given \in exists \cup {0}, ran \in BOOLEAN :
       LET c == IF given = 0 THEN NewConv ELSE given
       IN  /\ given = 0 => CanCreate
           /\ exists' = exists \cup {c}
           /\ rows' = [rows EXCEPT ![c] = @ \o << [from |-> r, what |-> "command"], [from |-> r, what |-> "log"] >>]
           /\ logs' = [logs EXCEPT ![[utc |-> UtcDay, day |-> Today, ran |-> ran]] = @ + 1]
           /\ req' = [req EXCEPT ![r] = [@ EXCEPT !.stage = "answered", !.given = given, !.conv = c]]
  /\ UNCHANGED << window, gone, fees, time >>

-----------------------------------------------------------------------------
(* commander_service.execute_commander_task *)

\* What follows a step: a blocked step and an error end the task, and so does the
\* last one; its summary goes to the conversation that was given.
GoesOn(results, plan) ==
  /\ Len(results) < Len(plan)
  /\ results = << >> \/ results[Len(results)] \notin {"blocked", "error"}

NextKind(r, results) == req[r].plan[Len(results) + 1]

ConvOfStep(r) == IF req[r].given # 0 THEN req[r].given ELSE NewConv

\* The step after `results`: a command is stored in its conversation, a harness has
\* no rows.
BeginStep(r, plan, results, base, there) ==
  LET c == ConvOfStep(r)
      entry == [req[r] EXCEPT !.plan = plan, !.results = results]
  IN  IF plan[Len(results) + 1] = "harness"
      THEN /\ req' = [req EXCEPT ![r] = [entry EXCEPT !.stage = "running"]]
           /\ rows' = base /\ exists' = there
      ELSE IF req[r].given # 0 /\ c \notin there
      THEN req' = [req EXCEPT ![r] = [entry EXCEPT !.stage = "failed"]] /\ rows' = base /\ exists' = there
      ELSE /\ req[r].given = 0 => CanCreate
           /\ req' = [req EXCEPT ![r] = [entry EXCEPT !.stage = "running", !.conv = c]]
           /\ rows' = [base EXCEPT ![c] = Append(@, [from |-> r, what |-> "command"])]
           /\ exists' = there \cup {c}

\* The hint for an empty plan names executor_service, which the module does not
\* import: the NameError comes before the hint is stored.
PlanMade(r) ==
  /\ req[r].stage = "planning"
  /\ \E plan \in Plans :
       IF plan = << >>
       THEN req' = [req EXCEPT ![r].stage = "failed", ![r].plan = plan] /\ UNCHANGED << rows, exists >>
       ELSE BeginStep(r, plan, << >>, rows, exists)
  /\ UNCHANGED << window, gone, logs, fees, time >>

EndTask(r, results, base) ==
  LET c == req[r].given
  IN  /\ rows' = IF c \in exists THEN [base EXCEPT ![c] = Append(@, [from |-> r, what |-> "summary"])] ELSE base
      /\ req' = [req EXCEPT ![r].results = results,
                            ![r].stage = IF c # 0 /\ c \notin exists THEN "failed" ELSE "answered"]
      /\ UNCHANGED exists

StepDone(r) ==
  LET harness == NextKind(r, req[r].results) = "harness"
      c == req[r].conv
      answered == IF harness \/ c \notin exists THEN rows
                  ELSE [rows EXCEPT ![c] = Append(@, [from |-> r, what |-> "log"])]
  IN  /\ \E status \in IF harness THEN {"harness_success", "error"} ELSE Outcomes :
           LET results == Append(req[r].results, status)
           IN  /\ IF harness THEN UNCHANGED << logs, fees >> ELSE Record(status)
               /\ IF ~harness /\ c \notin exists
                  THEN req' = [req EXCEPT ![r].stage = "failed"] /\ UNCHANGED << rows, exists >>
                  ELSE IF GoesOn(results, req[r].plan)
                  THEN BeginStep(r, req[r].plan, results, answered, exists)
                  ELSE EndTask(r, results, answered)
      /\ UNCHANGED << window, gone, time >>

TaskStep(r) == req[r].stage = "running" /\ req[r].kind = "task" /\ StepDone(r)

-----------------------------------------------------------------------------
(* Around them *)

DeleteConversation(c) ==
  /\ c \in exists
  /\ exists' = exists \ {c} /\ gone' = gone \cup {c}
  /\ rows' = [rows EXCEPT ![c] = << >>]
  /\ UNCHANGED << window, logs, fees, time, req >>

Tick == time < MaxTime /\ time' = time + 1 /\ UNCHANGED << window, rows, exists, gone, logs, fees, req >>

Init ==
  /\ window = 0 /\ rows = [c \in Convs |-> << >>] /\ exists = {} /\ gone = {}
  /\ logs = [l \in Log |-> 0] /\ fees = [d \in 0 .. MaxTime |-> 0] /\ time = 1
  /\ req = [r \in Requests |-> Unsent]

Serve(r) == CommandDone(r) \/ PlanMade(r) \/ TaskStep(r)

Next ==
  \/ \E r \in Requests : SendWorkCommand(r) \/ SendCommanderTask(r) \/ ReportWorkResult(r) \/ Shown(r) \/ Serve(r)
  \/ \E c \in Convs : DeleteConversation(c)
  \/ OpenOther \/ Tick

Spec == Init /\ [][Next]_wvars

-----------------------------------------------------------------------------
(* Properties *)

\* The records of the model.
WorkTypeOK ==
  /\ window \in Convs \cup {0} /\ exists \subseteq Convs /\ gone \subseteq Convs \ exists
  /\ rows \in [Convs -> Seq([from : Requests, what : {"command", "log", "summary"}])]
  /\ \A c \in Convs \ exists : rows[c] = << >>
  /\ \A r \in Requests : req[r].stage \in {"unsent", "planning", "running", "answered", "shown", "failed"}

\* A task stops at the first step that is blocked or fails to run: no command of
\* it is logged after one (commander_service.py:72).
StopsAtError ==
  \A r \in Requests : \A i \in 1 .. Len(req[r].results) - 1 : req[r].results[i] \notin {"blocked", "error"}

\* In a conversation that still exists every command is followed by its own log,
\* unless it is running, however the requests of several windows interleave.
CommandsAnswered ==
  \A c \in exists : \A r \in Requests :
    LET mine(what) == Cardinality({i \in 1 .. Len(rows[c]) : rows[c][i] = [from |-> r, what |-> what]})
    IN  mine("command") =
          mine("log") + (IF req[r].stage = "running" /\ req[r].conv = c
                            /\ (req[r].kind = "task" => NextKind(r, req[r].results) = "command")
                         THEN 1 ELSE 0)

\* The rows of a task sent from a conversation are all in that conversation, and
\* the ones of a task without one are spread: each command has its own.
TaskRowsInPlace ==
  \A r \in Requests : \A c \in exists :
    LET mine == {i \in 1 .. Len(rows[c]) : rows[c][i].from = r}
    IN  req[r].kind = "task" /\ mine # {} =>
          \/ req[r].given = c
          \/ req[r].given = 0 /\ Cardinality(mine) <= 2

\* Nobody pays for one of the first commands of a day (FREE_DAILY_TASKS): on every
\* day the charged commands come on top of the free ones.
FreeFirst ==
  \A d \in 0 .. MaxTime : fees[d] > 0 => fees[d] + FreeTasks <= Total(logs, LAMBDA l : l.day = d)

===============================================================================
