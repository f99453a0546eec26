------------------------------- MODULE HiveSync -------------------------------
(***************************************************************************)
(* How nodes of a hive keep shadows of each other's groups                 *)
(* (api_routes/hive_routes.py, hive_task_routes.py and the broadcasts of   *)
(* group_service.py and group_task_service.py), for one group.             *)
(*                                                                         *)
(* A change is made locally and then posted to one peer after the other by *)
(* a call that blocks the event loop of the node until the peer answers or *)
(* three seconds pass.  A node whose loop is blocked neither accepts nor   *)
(* answers; what it was sent waits, also when its sender has given up.     *)
(* Messages are taken in one step, everything else in a thread that looks  *)
(* in one transaction and writes in another.                               *)
(*                                                                         *)
(* Rejections, entries by approval and dismissals are not told to peers;   *)
(* the latter two are left out, as are nicknames and the texts.            *)
(***************************************************************************)
EXTENDS Naturals, Sequences, FiniteSets

CONSTANTS
  Nodes,
  Peers,      \* HIVE_PEERS of each node, in order
  Founder,    \* the node the group is created on
  Users, Messages, Tasks,
  MaxPosts, MaxLate   \* bounds

VARIABLES
  group,      \* the group or its shadow exists
  rows,       \* rows of each user in group_members
  msgs,       \* group_messages
  task,       \* status of each task, "none" without a row; "rejected" is done without a winner
  subs,       \* where its submissions were made: "here", "elsewhere"
  home,       \* the node a task was published on
  chosen,     \* history: how often a winner was paid
  job,        \* what the event loop is blocked in: peers left, and the post it waits for
  net,        \* posts on their way, at work or answered
  posts,      \* number of posts so far
  late        \* posts that were given up or lost

hvars == << group, rows, msgs, task, subs, home, chosen, job, net, posts, late >>

-----------------------------------------------------------------------------
(* Posts *)

Idle == [left |-> << >>, note |-> [kind |-> "none"], waits |-> 0]
Free(n) == job[n] = Idle

\* The next peer is posted to; after the last one the loop goes on.
PostNext(n, note, left, others) ==
  IF left = << >>
    THEN /\ job' = [job EXCEPT ![n] = Idle] /\ net' = others /\ UNCHANGED posts
    ELSE /\ posts < MaxPosts /\ posts' = posts + 1
         /\ job' = [job EXCEPT ![n] = [left |-> Tail(left), note |-> note, waits |-> posts + 1]]
         /\ net' = others \cup {[no |-> posts + 1, from |-> n, to |-> Head(left), note |-> note, at |-> "wire"]}

\* Mutant of Broadcast: the loop does not wait for answers.
BroadcastOnly(n, note) ==
  /\ posts < MaxPosts /\ posts' = posts + 1 /\ UNCHANGED job
  /\ net' = net \cup {[no |-> posts + 1, from |-> n, to |-> Head(Peers[n]), note |-> note, at |-> "wire"]}

Broadcast(n, note) == PostNext(n, note, Peers[n], net)

Waits(n, r) == job[n].waits = r.no

\* An answer leaves by the loop of the node that was asked.
Answered(r) ==
  /\ r.at = "answered" /\ Free(r.to)
  /\ IF Waits(r.from, r)
       THEN PostNext(r.from, r.note, job[r.from].left, net \ {r})
       ELSE net' = net \ {r} /\ UNCHANGED << job, posts >>
  /\ UNCHANGED << group, rows, msgs, task, subs, home, chosen, late >>

\* The sender gives up after its timeout; what is on the wire arrives later or never.
GiveUp(r) ==
  /\ Waits(r.from, r) /\ late < MaxLate /\ late' = late + 1
  /\ \E others \in {net} \cup (IF r.at = "wire" THEN {net \ {r}} ELSE {}) :
       PostNext(r.from, r.note, job[r.from].left, others)
  /\ UNCHANGED << group, rows, msgs, task, subs, home, chosen >>

-----------------------------------------------------------------------------
(* Changes of a node *)

CreateGroup(n) ==
  /\ n = Founder /\ ~group[n] /\ group' = [group EXCEPT ![n] = TRUE]
  /\ Broadcast(n, [kind |-> "group"])
  /\ UNCHANGED << rows, msgs, task, subs, home, chosen, late >>

InviteToGroup(n, u) ==
  /\ group[n] /\ rows[n][u] = 0 /\ rows' = [rows EXCEPT ![n][u] = 1]
  /\ Broadcast(n, [kind |-> "member", user |-> u])
  /\ UNCHANGED << group, msgs, task, subs, home, chosen, late >>

\* One row goes, and the peers are told to remove all.
RemoveMember(n, u) ==
  /\ rows[n][u] > 0 /\ rows' = [rows EXCEPT ![n][u] = @ - 1]
  /\ Broadcast(n, [kind |-> "member-remove", user |-> u])
  /\ UNCHANGED << group, msgs, task, subs, home, chosen, late >>

SendGroupMessage(n, m) ==
  /\ group[n] /\ \A k \in Nodes : m \notin msgs[k]
  /\ msgs' = [msgs EXCEPT ![n] = @ \cup {m}]
  /\ Broadcast(n, [kind |-> "message", id |-> m])
  /\ UNCHANGED << group, rows, task, subs, home, chosen, late >>

PublishTask(n, t) ==
  /\ group[n] /\ home[t] = {} /\ home' = [home EXCEPT ![t] = {n}]
  /\ task' = [task EXCEPT ![n][t] = "open"]
  /\ Broadcast(n, [kind |-> "task", id |-> t])
  /\ UNCHANGED << group, rows, msgs, subs, chosen, late >>

SubmitSolution(n, t) ==
  /\ task[n][t] = "open" /\ "here" \notin subs[n][t]
  /\ subs' = [subs EXCEPT ![n][t] = @ \cup {"here"}]
  /\ Broadcast(n, [kind |-> "submission", id |-> t])
  /\ UNCHANGED << group, rows, msgs, task, home, chosen, late >>

\* The publisher chooses; on a shadow that is user 1, who counts as the author of what
\* was submitted elsewhere and may not choose that.
Judges(n, t) == task[n][t] = "open"
Choosable(n, t) == "here" \in subs[n][t] \/ (subs[n][t] # {} /\ n \in home[t])

SelectWinner(n, t) ==
  /\ Judges(n, t) /\ Choosable(n, t)
  /\ task' = [task EXCEPT ![n][t] = "done"] /\ chosen' = [chosen EXCEPT ![t] = @ + 1]
  /\ Broadcast(n, [kind |-> "task-result", id |-> t])
  /\ UNCHANGED << group, rows, msgs, subs, home, late >>

RejectAll(n, t) ==
  /\ Judges(n, t) /\ task' = [task EXCEPT ![n][t] = "rejected"]
  /\ UNCHANGED << group, rows, msgs, subs, home, chosen, job, net, posts, late >>

-----------------------------------------------------------------------------
(* What a node makes of a post *)

Moved(r, place) == net' = (net \ {r}) \cup {[r EXCEPT !.at = place]}

\* sync_message
SyncMessage(r) ==
  /\ r.note.kind = "message" /\ r.at = "wire" /\ Free(r.to)
  /\ msgs' = IF group[r.to] THEN [msgs EXCEPT ![r.to] = @ \cup {r.note.id}] ELSE msgs
  /\ Moved(r, "answered")
  /\ UNCHANGED << group, rows, task, subs, home, chosen, job, posts, late >>

\* The other routes are given to a thread,
Accept(r) ==
  /\ r.note.kind # "message" /\ r.at = "wire" /\ Free(r.to)
  /\ Moved(r, "thread")
  /\ UNCHANGED << group, rows, msgs, task, subs, home, chosen, job, posts, late >>

\* which looks whether there is something to write,
Wanted(n, note) ==
  CASE note.kind = "group" -> ~group[n]
    [] note.kind = "member" -> group[n] /\ rows[n][note.user] = 0
    [] note.kind = "member-remove" -> group[n]
    [] note.kind = "task" -> group[n] /\ task[n][note.id] = "none"
    [] note.kind = "submission" -> group[n] /\ task[n][note.id] # "none"
    [] note.kind = "task-result" -> group[n] /\ task[n][note.id] # "none"

Look(r) ==
  /\ r.at = "thread"
  /\ Moved(r, IF Wanted(r.to, r.note) THEN "write" ELSE "answered")
  /\ UNCHANGED << group, rows, msgs, task, subs, home, chosen, job, posts, late >>

\* and writes.
SyncGroup(r) ==
  /\ r.note.kind = "group" /\ group' = [group EXCEPT ![r.to] = TRUE]
  /\ UNCHANGED << rows, task, subs >>

SyncMember(r) ==
  /\ r.note.kind = "member" /\ rows' = [rows EXCEPT ![r.to][r.note.user] = @ + 1]
  /\ UNCHANGED << group, task, subs >>

SyncMemberRemove(r) ==
  /\ r.note.kind = "member-remove" /\ rows' = [rows EXCEPT ![r.to][r.note.user] = 0]
  /\ UNCHANGED << group, task, subs >>

SyncTask(r) ==
  /\ r.note.kind = "task" /\ task' = [task EXCEPT ![r.to][r.note.id] = "open"]
  /\ UNCHANGED << group, rows, subs >>

SyncSubmission(r) ==
  /\ r.note.kind = "submission" /\ subs' = [subs EXCEPT ![r.to][r.note.id] = @ \cup {"elsewhere"}]
  /\ UNCHANGED << group, rows, task >>

SyncTaskResult(r) ==
  /\ r.note.kind = "task-result" /\ task' = [task EXCEPT ![r.to][r.note.id] = "done"]
  /\ UNCHANGED << group, rows, subs >>

Write(r) ==
  /\ r.at = "write"
  /\ \/ SyncGroup(r) \/ SyncMember(r) \/ SyncMemberRemove(r)
     \/ SyncTask(r) \/ SyncSubmission(r) \/ SyncTaskResult(r)
  /\ Moved(r, "answered")
  /\ UNCHANGED << msgs, home, chosen, job, posts, late >>

-----------------------------------------------------------------------------
Init ==
  /\ group = [n \in Nodes |-> FALSE]
  /\ rows = [n \in Nodes |-> [u \in Users |-> 0]]
  /\ msgs = [n \in Nodes |-> {}]
  /\ task = [n \in Nodes |-> [t \in Tasks |-> "none"]]
  /\ subs = [n \in Nodes |-> [t \in Tasks |-> {}]]
  /\ home = [t \in Tasks |-> {}] /\ chosen = [t \in Tasks |-> 0]
  /\ job = [n \in Nodes |-> Idle] /\ net = {} /\ posts = 0 /\ late = 0

Changes(n) ==
  \/ CreateGroup(n)
  \/ \E u \in Users : InviteToGroup(n, u) \/ RemoveMember(n, u)
  \/ \E m \in Messages : SendGroupMessage(n, m)
  \/ \E t \in Tasks : PublishTask(n, t) \/ SubmitSolution(n, t) \/ SelectWinner(n, t) \/ RejectAll(n, t)

Next ==
  \/ \E n \in Nodes : Free(n) /\ Changes(n)
  \/ \E r \in net : SyncMessage(r) \/ Accept(r) \/ Look(r) \/ Write(r) \/ Answered(r) \/ GiveUp(r)

Spec == Init /\ [][Next]_hvars

-----------------------------------------------------------------------------
(* Properties *)

Quiet == net = {} /\ \A n \in Nodes : Free(n)

\* Of two nodes, though changes are made on both and nothing orders them, as long as no
\* post is late or lost: whenever nothing is under way they agree, and a task had one
\* winner, wherever he was chosen.  Changes that cross block each other.
InStep ==
  late = 0 /\ Quiet =>
    \A n, k \in Nodes :
      /\ group[n] = group[k] /\ rows[n] = rows[k] /\ msgs[n] = msgs[k]
      /\ \A t \in Tasks : /\ task[n][t] = "done" <=> task[k][t] = "done"
                          /\ task[n][t] = "none" <=> task[k][t] = "none"
                          /\ chosen[t] <= 1

\* Late or not, a task is done on a node only after a winner was chosen on some node,
\* and a submission is known only where the task is.
ResultsFollow ==
  \A n \in Nodes, t \in Tasks :
    /\ task[n][t] = "done" => chosen[t] > 0
    /\ subs[n][t] # {} => task[n][t] # "none"
=============================================================================
