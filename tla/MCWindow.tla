------------------------------ MODULE MCWindow ------------------------------
(* Requests of users that overtake each other while they wait: chats, work      *)
(* mode, the pet campaign and what it earns.  The parts share no state; the     *)
(* initial state chooses which one moves.                                       *)
EXTENDS WorkParts, ChatParts, TLC

CONSTANTS a1, a2, q1, q2, q3, u1

MCSymmetry == Permutations({q1, q2, q3})

\* Two agents with a conversation each, pages of one row and two rows; an older
\* page may fail, and the user may leave a window while a conversation is looked up.
TwoAgents == {a1, a2}

\* One conversation of three rows, paged back row by row
Paging == INSTANCE ChatClient WITH
  Agents <- {a1}, Convs <- {1}, Slots <- 1 .. 2, PageSize <- 1, MaxRows <- 3, MaxShown <- 1,
  Leaves <- {"lookup"}, Fails <- {}, rows <- texts, shown <- bubbles, calls <- asks

\* One conversation, any requests of which fail while the websocket drops
Failing == INSTANCE ChatClient WITH
  Agents <- {a1}, Convs <- {1}, Slots <- 1 .. 2, PageSize <- 1, MaxRows <- 2, MaxShown <- 1,
  Leaves <- {"lookup"}, Fails <- {"check", "lookup", "page", "more", "send", "ws"},
  rows <- texts, shown <- bubbles, calls <- asks

\* Two requests, commands or tasks of up to two steps, on one day; and three commands
\* over several half days, west of Greenwich
TwoSteps == {<< >>, << "command", "command" >>, << "harness", "command" >>}

\* The campaign: one user, five requests over two days, each limit reached after two of
\* them; two requests that wait for a model, two tasks, two solutions.
OneUser == {u1}

PartsInit ==
  /\ part \in {"chat", "paging", "failing", "work", "fees", "ledger", "campaign"}
  /\ RescueInit
  /\ CASE part = "chat" -> Talk!Init
       [] part \in {"paging", "failing"} -> Paging!Init
       [] OTHER -> Paging!Init /\ peer = [c \in {1} |-> NoAgent]
  /\ WorkInit

PartsNext ==
  \/ part = "chat" /\ Talk!Next /\ UNCHANGED << part, lvars, rvars, workVars >>
  \/ part = "paging" /\ Paging!Next /\ UNCHANGED << part, lvars, rvars, workVars >>
  \/ part = "failing" /\ Failing!Next /\ UNCHANGED << part, lvars, rvars, workVars >>
  \/ WorkPart /\ UNCHANGED << lvars, rvars, chatVars >>
  \/ FeesPart /\ UNCHANGED << lvars, rvars, chatVars >>
  \/ LedgerPart /\ UNCHANGED << chatVars, workVars >>
  \/ CampaignPart /\ UNCHANGED << chatVars, workVars >>

PartsSpec == PartsInit /\ [][PartsNext]_<< part, lvars, rvars, chatVars, workVars >>
=============================================================================
