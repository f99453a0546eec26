---------------------------- MODULE MessageRouting ----------------------------
(***************************************************************************)
(* What send_message makes of a message (core/services/message/send.py):   *)
(* the order in which its branches take it, the rows each branch stores    *)
(* and the points where it awaits, while the conversation may be deleted.  *)
(*                                                                         *)
(* A message is what the branches tell apart: its form, the mode, the      *)
(* conversation's agent and the identity it is sent under.  What models    *)
(* and searches answer is a choice.                                        *)
(***************************************************************************)
EXTENDS Naturals, Sequences, FiniteSets

CONSTANTS
  Forms,     \* a set of forms, below
  Modes,     \* of {"normal", "free", "swarm"}
  Peers,     \* conversations.agent_id: of {"sases", "own", "none"}
  Identities \* sender_agent_id: of {"none", "sases", "other"}

VARIABLES
  stage,  \* of the request: "new", "judging", "asking", "planning", "reporting", "done", "failed"
  msg,    \* the request
  route,  \* the branch that took it
  draft,  \* require_confirmation
  rows,   \* the rows it stored: "user", "reply" or "receipt"
  live    \* the conversation exists

rvars == << stage, msg, route, draft, rows, live >>

-----------------------------------------------------------------------------
(* What the branches read off a message *)

AllForms ==
  {"#5", "#1", "#2", "#3", "#4", "draft",    \* numbered and draft prefixes
   "file", "lost file",                      \* an attachment, and one that cannot be read
   "image import", "*1", "inline import", "file import",
   "[STEP_DONE]", "greeting", "operation", "harness", "path", "plain"}

Message == [form : Forms, mode : Modes, peer : Peers, as : Identities]

\* The default assistant answers under its own name when no identity is chosen.
Sender(m) == IF m.as = "none" /\ m.peer = "sases" THEN "sases" ELSE m.as
IsSases(m) == (IF Sender(m) # "none" THEN Sender(m) ELSE m.peer) = "sases"
Numbered(m) == m.form \in {"#1", "#2", "#3", "#4"}
IsOperation(m) == m.form \in {"operation", "harness"}
Imports(m) == m.form \in {"image import", "*1", "inline import", "file import"}

\* '执行：' is left to the branch for commands, '[' to the one for reports; an
\* attachment that was read starts with '[' too.
\* Mutant of Dispatched: the form is not looked at.
DispatchedAlways(m) == m.mode \in {"normal", "free"}

Dispatched(m) ==
  /\ m.mode \in {"normal", "free"}
  /\ m.form \notin {"#1", "[STEP_DONE]", "file"}

\* The quick answer needs the row of the conversation's own agent as well.
MayAnswerFromBase(m) ==
  /\ IsSases(m) /\ m.peer # "none"
  /\ ~IsOperation(m) /\ ~Numbered(m) /\ ~Imports(m)
  /\ m.form \notin {"greeting", "lost file"}

\* is_task_intent: rules first, a model for what lies between.  #3 is forced,
\* the url of an attachment looks like a path.
TaskAnswers(m) ==
  CASE m.form \in {"#3", "path", "lost file"} -> {TRUE}
    [] m.form = "greeting" -> {FALSE}
    [] OTHER -> BOOLEAN

\* The imports, in their order; "none" when none takes the message.
ImportRoute(m) ==
  IF m.form = "*1" \/ (m.form \in {"image import", "inline import"} /\ IsSases(m)) THEN m.form
  ELSE IF Imports(m) /\ Sender(m) # "none" THEN "file import"
  ELSE "none"

MayChat(m, task) == Sender(m) # "none" /\ ~task /\ ~IsOperation(m) /\ m.form # "greeting"
MayPropose(m) == Sender(m) # "none" /\ m.form # "harness"

\* What is left when no branch of the intent block has returned
Remaining(m) ==
  IF m.form = "[STEP_DONE]" /\ Sender(m) # "none" THEN "step"
  ELSE IF m.form = "#1" /\ m.mode = "free" THEN "exec"
  ELSE IF m.mode = "swarm" THEN "refused"
  ELSE "normal"

-----------------------------------------------------------------------------
(* Steps of the request; what lies between two awaits is one step *)

\* messages.conversation_id is a foreign key: rows of a deleted conversation are refused.
Store(new) == live /\ rows' = rows \o new

Answer(r, new) == Store(new) /\ route' = r /\ stage' = "done"
Await(r, new, s) == Store(new) /\ route' = r /\ stage' = s

\* An attachment is stored as it was sent before anything else.
RawRow == IF msg.form \in {"file", "lost file"} THEN << "user" >> ELSE << >>

\* From Remaining on.  Nothing imports work_service in this module: the command
\* of '执行：' is never run, its NameError is the reply, and nothing is stored.
Finish(first) ==
  CASE Remaining(msg) = "step" -> Await("step", first \o << "reply" >>, "reporting")
    [] Remaining(msg) = "exec" -> Answer("exec", first)
    [] Remaining(msg) = "refused" -> Answer("refused", first)
    [] OTHER -> IF msg.peer = "none" THEN Answer("normal", first \o << "user", "reply" >>)
                ELSE Await("normal", first \o << "user" >>, "asking")

ClearLock ==
  /\ stage = "new" /\ msg.form = "#5"
  /\ Answer("clear", << "reply" >>)
  /\ UNCHANGED << msg, draft, live >>

\* An active run refuses; otherwise a run is created and its first plan awaited.
StartAuto ==
  /\ stage = "new" /\ msg.form = "#4"
  /\ Answer("busy", << >>) \/ Await("auto", << "user" >>, "planning")
  /\ UNCHANGED << msg, draft, live >>

Receive ==
  /\ stage = "new" /\ msg.form \notin {"#5", "#4"}
  /\ draft' = (msg.form \in {"#3", "draft"})
  /\ \/ Dispatched(msg) /\ MayAnswerFromBase(msg) /\ Await("kb", << "user" >>, "asking")
     \/ Dispatched(msg) /\ Await("none", RawRow, "judging")
     \/ ~Dispatched(msg) /\ Finish(RawRow)
  /\ UNCHANGED << msg, live >>

\* The propose branch returns without planning; otherwise a receipt comes before
\* the plan, whose first act is to store the question.
Judged(task) ==
  /\ stage = "judging" /\ task \in TaskAnswers(msg)
  /\ CASE ImportRoute(msg) # "none" -> Answer(ImportRoute(msg), << "reply" >>)
       [] ImportRoute(msg) = "none" /\ task ->
            \/ MayPropose(msg) /\ Answer("propose", << "reply" >>)
            \/ Await("plan", (IF Sender(msg) # "none" THEN << "receipt" >> ELSE << >>) \o << "user" >>,
                     "planning")
       [] OTHER -> \/ MayChat(msg, task) /\ Answer("chat", << "reply" >>)
                   \/ Finish(<< >>)
  /\ UNCHANGED << msg, draft, live >>

\* Mutant of ModelAnswered: a failing model ends the request.
ModelAnsweredOrNot ==
  /\ stage = "asking"
  /\ \/ Answer(route, << "reply" >>)
     \/ stage' = "failed" /\ UNCHANGED << route, rows >>
  /\ UNCHANGED << msg, draft, live >>

\* An error of the model is a reply like any other.
ModelAnswered ==
  /\ stage = "asking"
  /\ Answer(route, << "reply" >>)
  /\ UNCHANGED << msg, draft, live >>

PlanReturned ==
  /\ stage \in {"planning", "reporting"}
  /\ stage' = "done"
  /\ UNCHANGED << msg, route, draft, rows, live >>

\* The conversation went while the request awaited: the INSERT raises.  In the
\* intent block that is caught, and the next INSERT of a later branch raises.
ForeignKeyFails ==
  /\ stage \in {"judging", "asking"} /\ ~live
  /\ stage' = "failed"
  /\ UNCHANGED << msg, route, draft, rows, live >>

DeleteConversation ==
  /\ live /\ stage # "new"
  /\ live' = FALSE /\ rows' = << >>
  /\ UNCHANGED << stage, msg, route, draft >>

-----------------------------------------------------------------------------
Init ==
  /\ stage = "new" /\ msg \in Message
  /\ route = "none" /\ draft = FALSE /\ rows = << >> /\ live = TRUE

Resume == (\E task \in BOOLEAN : Judged(task)) \/ ModelAnswered \/ PlanReturned \/ ForeignKeyFails

Next == ClearLock \/ StartAuto \/ Receive \/ Resume \/ DeleteConversation

\* A model answers or times out, and the event loop resumes the request.
Fairness == WF_rvars(Resume)

Spec == Init /\ [][Next]_rvars /\ Fairness

-----------------------------------------------------------------------------
(* Properties *)

Times(who) == Cardinality({i \in 1 .. Len(rows) : rows[i] = who})

\* Every variable has its type; whichever branches it fell through, a request
\* stores its message once (an attachment twice: as sent and as read) and at
\* most one reply.
RoutingTypeOK ==
  /\ stage \in {"new", "judging", "asking", "planning", "reporting", "done", "failed"}
  /\ msg \in Message /\ draft \in BOOLEAN /\ live \in BOOLEAN
  /\ Times("reply") <= 1 /\ Times("receipt") <= 1
  /\ Times("user") <= IF msg.form \in {"file", "lost file"} THEN 2 ELSE 1

\* The report of an executor reaches handle_step_done in every mode: no branch
\* that looks at the text (knowledge base, intent, chat) takes it.
StepsReachCallback ==
  msg.form = "[STEP_DONE]" /\ Sender(msg) # "none" /\ stage # "new" => route = "step"

\* '#3' asks for a draft: no earlier branch may answer it from the knowledge
\* base or as chat, and what is planned waits for confirmation.
DraftIsPlanned ==
  msg.form = "#3" /\ msg.mode # "swarm" /\ stage \notin {"new", "judging", "failed"}
    => route \in {"propose", "plan"} /\ draft

\* Across the await, every question that a model was asked gets its stored
\* reply unless its conversation is deleted; a failing model does not lose it.
QuestionIsAnswered ==
  stage = "asking" ~> (~live \/ Times("reply") = 1)

===============================================================================
