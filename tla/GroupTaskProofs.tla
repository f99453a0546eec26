--------------------------- MODULE GroupTaskProofs ---------------------------
(***************************************************************************)
(* The rewards of group tasks keep the promise of Escrow, for any number   *)
(* of members and tasks and all rewards: publish_task freezes what the     *)
(* publisher has, select_winner and reject_all pay it out once and to a    *)
(* cent, and neither the cards nor a restart touch the books.              *)
(*                                                                         *)
(* The type of the rows is not enough for the refinement: a task that is   *)
(* not published must read as an absent deposit, and the job that posts    *)
(* cards again writes the rows it has read, whatever they have become, so  *)
(* that none of them may be absent.  RewardsFit says both.                 *)
(*                                                                         *)
(* And the branches of send_message: for every mode, agent and identity    *)
(* the prefix of a message decides which branch takes it.  RouteInv counts *)
(* the rows stored so far by where the request is; a message that is       *)
(* judged got past the check of its form.                                  *)
(*                                                                         *)
(* And the page of a group in the browser, for any number of groups,       *)
(* texts, requests and connections: PageInv follows each text from the     *)
(* moment it is said.  One that waits to be sent is on no server and in no *)
(* answer, and at most once on the page, so that no load brings it twice;  *)
(* one that is due has been pushed and nothing that is loading drops it.   *)
(*                                                                         *)
(* And the chat window: ChatInv ties every request to the window it was    *)
(* made for, LoadInv what is loaded to the rows there are.  The rows from  *)
(* the oldest on the page up are never fewer than the offset, so that the  *)
(* page asked for with it, whatever was added since, ends inside or right  *)
(* below them.                                                             *)
(***************************************************************************)
EXTENDS RequestParts, PageParts, ChatParts, SumLemmas, SequenceTheorems, TLAPS

\* What the proofs assume of the constants.
Sensible == Users # {} /\ Rewards \subseteq Nat /\ InitCredits \in Nat

RewardsFit ==
  \A t \in Tasks : /\ task[t].status = "absent" => task[t].reward = 0 /\ t \notin repush
                   /\ task[t].status # "absent" => task[t].reward \in Rewards

RInv ==
  /\ credits \in [Accounts -> Int] /\ clock \in Nat
  /\ task \in [Tasks -> Task]
  /\ NobodyOwes /\ RewardsFit

-----------------------------------------------------------------------------
(* Halves and rounding *)

\* 95 and 5 parts of a hundred, each to the nearest cent, miss the whole by at most one.
LEMMA ShareBounds ==
  ASSUME NEW r \in Nat,
         NEW x \in Nearest(95 * r, 100), NEW y \in Nearest(5 * r, 100)
  PROVE  x \in Nat /\ y \in Nat /\ x + y - r \in -1 .. 1
BY SMT DEF Nearest

LEMMA HalfBounds ==
  ASSUME NEW r \in Nat, NEW x \in Nearest(r, 2)
  PROVE  x \in Nat /\ x + x - r \in -1 .. 1
BY SMT DEF Nearest

LEMMA PartsPaid ==
  ASSUME NEW r \in Rewards, NEW x \in Parts(r)
  PROVE  x \in PartsOfRewards
BY DEF PartsOfRewards

LEMMA PayType ==
  ASSUME NEW b \in [Accounts -> Int], NEW a \in Accounts, NEW x \in Int
  PROVE  /\ Pay(b, a, x) \in [Accounts -> Int]
         /\ Pay(b, a, x)[a] = b[a] + x
         /\ \A c \in Accounts \ {a} : Pay(b, a, x)[c] = b[c]
BY DEF Pay

\* Two payments leave nobody owing who did not owe.
LEMMA PayTwice ==
  ASSUME NEW b \in [Accounts -> Int], \A c \in Accounts : b[c] >= 0,
         NEW a \in Accounts, NEW d \in Accounts, NEW x \in Nat, NEW y \in Nat
  PROVE  /\ Pay(Pay(b, a, x), d, y) \in [Accounts -> Int]
         /\ \A c \in Accounts : Pay(Pay(b, a, x), d, y)[c] >= 0
<1> DEFINE p == Pay(b, a, x)
           q == Pay(p, d, y)
<1>1. p \in [Accounts -> Int] /\ p[a] = b[a] + x /\ \A c \in Accounts \ {a} : p[c] = b[c]
  BY PayType
<1>2. \A c \in Accounts : p[c] >= 0
  <2> TAKE c \in Accounts
  <2>1. b[c] \in Int /\ b[c] >= 0
    OBVIOUS
  <2> HIDE DEF p
  <2> QED  BY <1>1, <2>1
<1>3. q \in [Accounts -> Int] /\ q[d] = p[d] + y /\ \A c \in Accounts \ {d} : q[c] = p[c]
  <2>1. p \in [Accounts -> Int] /\ d \in Accounts /\ y \in Int
    BY <1>1
  <2> HIDE DEF p
  <2> QED  BY <2>1, PayType
<1>4. \A c \in Accounts : q[c] >= 0
  <2> HIDE DEF p, q
  <2> TAKE c \in Accounts
  <2>1. p[c] \in Int /\ p[c] >= 0
    BY <1>1, <1>2
  <2> QED  BY <1>3, <2>1
<1> QED  BY <1>3, <1>4

-----------------------------------------------------------------------------
(* The steps, as the books see them *)

\* A task that is published: its row is new and its reward is taken from its publisher.
LEMMA PublishHolds ==
  ASSUME Sensible, RInv, NEW u \in Users, PublishRequest(u)
  PROVE  RInv' /\ Books!Next
<1> USE DEF RInv
<1>1. PICK r \in Rewards : Publish(u, r)
  BY DEF PublishRequest
<1>2. PICK t \in Tasks :
        /\ IsNextTask(t) /\ Publishable(u, r)
        /\ credits' = Pay(credits, u, -r)
        /\ task' = [task EXCEPT ![t] = NewTask(u, r)]
        /\ UNCHANGED << repush, clock >>
  BY <1>1 DEF Publish
<1>3. r \in Nat /\ -r \in Int /\ u \in Accounts /\ credits[u] \in Int /\ r <= credits[u]
  BY <1>2 DEF Sensible, Accounts, Publishable
<1>4. NewTask(u, r) \in Task
  BY <1>3 DEF NewTask, Task
<1>5. /\ credits' \in [Accounts -> Int]
      /\ credits'[u] = credits[u] + (-r)
      /\ \A c \in Accounts \ {u} : credits'[c] = credits[c]
  BY <1>2, <1>3, PayType
<1>6. NobodyOwes'
  BY <1>3, <1>5 DEF NobodyOwes
<1>7. task[t].status = "absent" /\ task[t].reward = 0
  BY <1>2 DEF IsNextTask, RewardsFit
<1>8. /\ task'[t].status = "open" /\ task'[t].reward = r
      /\ \A s \in Tasks \ {t} : task'[s] = task[s]
  BY <1>2 DEF NewTask
<1>9. RewardsFit'
  BY <1>2, <1>8 DEF RewardsFit
<1>10. RInv'
  BY <1>2, <1>4, <1>5, <1>6, <1>9
<1>11. Deposits[t].status = "absent"
  BY <1>7 DEF Deposits, Held
<1>12. Deposits' = [Deposits EXCEPT ![t] = [status |-> "held", amount |-> r]]
  <2>1. Deposits'[t] = [status |-> "held", amount |-> r]
    BY <1>8 DEF Deposits, Held
  <2>2. \A s \in Tasks \ {t} : Deposits'[s] = Deposits[s]
    BY <1>8 DEF Deposits, Held
  <2> QED  BY <2>1, <2>2 DEF Deposits
<1>13. Books!Hold(t, u, r)
  BY <1>2, <1>3, <1>11, <1>12 DEF Books!Hold, Books!Paid, Pay, Deposits
<1>14. r \in PartsOfRewards
  BY PartsPaid DEF Parts
<1> QED  BY <1>3, <1>10, <1>13, <1>14 DEF Books!Next

\* What a verdict does, if its two parts make up the reward to a cent: the reward leaves
\* the escrow, and the task is done.
LEMMA VerdictSettles ==
  ASSUME Sensible, RInv, NEW t \in Tasks, NEW a \in Accounts, NEW b \in Accounts,
         task[t].status = "open",
         NEW x \in Nat, NEW y \in Nat, x \in PartsOfRewards, y \in PartsOfRewards,
         x + y - task[t].reward \in -1 .. 1,
         credits' = Pay(Pay(credits, a, x), b, y),
         task' = [task EXCEPT ![t].status = "done"],
         UNCHANGED << repush, clock >>
  PROVE  RInv' /\ Books!Next
<1> USE DEF RInv
<1>1. credits' \in [Accounts -> Int] /\ NobodyOwes'
  BY PayTwice DEF NobodyOwes
<1>2. /\ task'[t].status = "done" /\ task'[t].reward = task[t].reward
      /\ \A s \in Tasks \ {t} : task'[s] = task[s]
  BY DEF Task
<1>3. task' \in [Tasks -> Task]
  BY DEF Task
<1>4. RewardsFit'
  BY <1>2 DEF RewardsFit
<1>5. Deposits[t] = [status |-> "held", amount |-> task[t].reward]
  BY DEF Deposits, Held
<1>6. Deposits' = [Deposits EXCEPT ![t].status = "settled"]
  <2>1. Deposits'[t] = [status |-> "settled", amount |-> task[t].reward]
    BY <1>2 DEF Deposits, Held
  <2>2. \A s \in Tasks \ {t} : Deposits'[s] = Deposits[s]
    BY <1>2 DEF Deposits, Held
  <2>3. [Deposits[t] EXCEPT !.status = "settled"] = [status |-> "settled", amount |-> task[t].reward]
    BY <1>5
  <2> QED  BY <2>1, <2>2, <2>3 DEF Deposits
<1>7. Books!Settle(t, a, b, x, y)
  BY <1>5, <1>6 DEF Books!Settle, Books!Paid, Pay, Deposits
<1> QED  BY <1>1, <1>3, <1>4, <1>7 DEF Books!Next

LEMMA WinnerSettles ==
  ASSUME Sensible, RInv, NEW t \in Tasks, NEW u \in Users, NEW w \in Users, SelectWinner(t, u, w)
  PROVE  RInv' /\ Books!Next
<1> DEFINE r == task[t].reward
<1>1. PICK x \in Nearest(95 * r, 100), y \in Nearest(5 * r, 100) :
        credits' = Pay(Pay(credits, w, x), Pool, y)
  BY DEF SelectWinner
<1>2. task[t].status = "open" /\ r \in Rewards /\ r \in Nat
  BY DEF SelectWinner, Judgeable, RInv, RewardsFit, Sensible
<1>3. x \in Nat /\ y \in Nat /\ x + y - r \in -1 .. 1
  BY <1>2, ShareBounds
<1>4. x \in PartsOfRewards /\ y \in PartsOfRewards
  BY <1>2, PartsPaid DEF Parts
<1>5. w \in Accounts /\ Pool \in Accounts
  BY DEF Accounts
<1>6. task' = [task EXCEPT ![t].status = "done"] /\ UNCHANGED << repush, clock >>
  BY DEF SelectWinner
<1> QED  BY <1>1, <1>2, <1>3, <1>4, <1>5, <1>6, VerdictSettles

LEMMA RejectionSettles ==
  ASSUME Sensible, RInv, NEW t \in Tasks, NEW u \in Users, RejectAll(t, u)
  PROVE  RInv' /\ Books!Next
<1> DEFINE r == task[t].reward
<1>1. PICK x \in Nearest(r, 2) : credits' = Pay(Pay(credits, u, x), Pool, x)
  BY DEF RejectAll
<1>2. task[t].status = "open" /\ r \in Rewards /\ r \in Nat
  BY DEF RejectAll, Judgeable, RInv, RewardsFit, Sensible
<1>3. x \in Nat /\ x + x - r \in -1 .. 1
  BY <1>2, HalfBounds
<1>4. x \in PartsOfRewards
  BY <1>2, PartsPaid DEF Parts
<1>5. u \in Accounts /\ Pool \in Accounts
  BY DEF Accounts
<1>6. task' = [task EXCEPT ![t].status = "done"] /\ UNCHANGED << repush, clock >>
  BY DEF RejectAll
<1> QED  BY <1>1, <1>2, <1>3, <1>4, <1>5, <1>6, VerdictSettles

\* A card that is posted again changes a time, of a row that is published.
LEMMA RepushStutters ==
  ASSUME RInv, NEW t \in Tasks, RepushWrite(t)
  PROVE  RInv' /\ UNCHANGED Books!evars
<1> USE DEF RInv
<1>1. /\ task' = [task EXCEPT ![t].last = clock] /\ repush' = repush \ {t} /\ t \in repush
      /\ UNCHANGED << credits, clock >>
  BY DEF RepushWrite
<1>2. \A s \in Tasks : task'[s].status = task[s].status /\ task'[s].reward = task[s].reward
  BY <1>1 DEF Task
<1>3. task' \in [Tasks -> Task]
  BY <1>1 DEF Task
<1>4. RewardsFit' /\ NobodyOwes'
  BY <1>1, <1>2 DEF RewardsFit, NobodyOwes
<1>5. \A s \in Tasks : Held(s)' = Held(s)
  BY <1>2 DEF Held
<1> QED  BY <1>1, <1>3, <1>4, <1>5 DEF Books!evars, Deposits

\* No other step touches credits or rows.
LEMMA OthersStutter ==
  ASSUME RInv, clock' \in Nat, UNCHANGED << credits, task >>,
         \/ repush' \subseteq repush
         \/ repush' = {t \in Tasks : Pending(t)}
  PROVE  RInv' /\ UNCHANGED Books!evars
<1> USE DEF RInv
<1>1. \A t \in Tasks : task[t].status = "absent" => t \notin repush'
  BY DEF RewardsFit, Pending
<1>2. RewardsFit' /\ NobodyOwes'
  BY <1>1 DEF RewardsFit, NobodyOwes
<1> QED  BY <1>2 DEF Books!evars, Deposits, Held

-----------------------------------------------------------------------------
(* The invariant and the refinement *)

LEMMA RInvStarts == Sensible /\ Init => RInv /\ Books!Init
<1> SUFFICES ASSUME Sensible, Init PROVE RInv /\ Books!Init
  OBVIOUS
<1>1. /\ credits = [a \in Accounts |-> IF a = Pool THEN 0 ELSE InitCredits]
      /\ task = [t \in Tasks |-> NoTask] /\ repush = {} /\ clock = 0
  BY DEF Init
<1>2. NoTask \in Task
  <2>1. SomeUser \in Users
    BY DEF SomeUser, Sensible
  <2> QED  BY <2>1 DEF NoTask, Task
<1>3. credits \in [Accounts -> Nat]
  BY <1>1 DEF Sensible
<1>4. RInv
  BY <1>1, <1>2, <1>3 DEF RInv, NobodyOwes, RewardsFit, NoTask
<1>5. Deposits = [t \in Tasks |-> [status |-> "absent", amount |-> 0]]
  BY <1>1 DEF Deposits, Held, NoTask
<1> QED  BY <1>3, <1>4, <1>5 DEF Books!Init, Books!Absent, Deposits

LEMMA RInvStep ==
  ASSUME Sensible, RInv, [Next]_gvars
  PROVE  RInv' /\ [Books!Next]_(Books!evars)
<1>1. CASE UNCHANGED gvars
  <2>1. clock' \in Nat /\ UNCHANGED << credits, task, repush >>
    BY <1>1 DEF gvars, RInv
  <2> QED  BY <2>1, OthersStutter
<1>2. ASSUME NEW u \in Users, PublishRequest(u)
      PROVE  RInv' /\ [Books!Next]_(Books!evars)
  BY <1>2, PublishHolds
<1>3. ASSUME NEW u \in Users, NEW t \in Tasks, TaskRequest(t, u)
      PROVE  RInv' /\ [Books!Next]_(Books!evars)
  <2>1. CASE Submit(t, u)
    <3>1. clock' \in Nat /\ UNCHANGED << credits, task, repush >>
      BY <2>1 DEF Submit, RInv
    <3> QED  BY <3>1, OthersStutter
  <2>2. CASE RejectAll(t, u)
    BY <2>2, RejectionSettles
  <2>3. CASE \E w \in Users : SelectWinner(t, u, w)
    BY <2>3, WinnerSettles
  <2> QED  BY <1>3, <2>1, <2>2, <2>3 DEF TaskRequest
<1>4. CASE RepushRead
  <2>1. clock' \in Nat /\ UNCHANGED << credits, task >> /\ repush' = {t \in Tasks : Pending(t)}
    BY <1>4 DEF RepushRead, RInv
  <2> QED  BY <2>1, OthersStutter
<1>5. ASSUME NEW t \in Tasks, RepushWrite(t) \/ RepushFails(t)
      PROVE  RInv' /\ [Books!Next]_(Books!evars)
  <2>1. CASE RepushWrite(t)
    BY <2>1, RepushStutters
  <2>2. CASE RepushFails(t)
    <3>1. clock' \in Nat /\ UNCHANGED << credits, task >> /\ repush' \subseteq repush
      BY <2>2 DEF RepushFails, RInv
    <3> QED  BY <3>1, OthersStutter
  <2> QED  BY <1>5, <2>1, <2>2
<1>6. CASE Restart
  <2>1. clock' \in Nat /\ UNCHANGED << credits, task >> /\ repush' \subseteq repush
    BY <1>6 DEF Restart, RInv
  <2> QED  BY <2>1, OthersStutter
<1>7. CASE Tick
  <2>1. clock' \in Nat /\ UNCHANGED << credits, task, repush >>
    BY <1>7 DEF Tick, RInv
  <2> QED  BY <2>1, OthersStutter
<1> QED  BY <1>1, <1>2, <1>3, <1>4, <1>5, <1>6, <1>7 DEF Next

-----------------------------------------------------------------------------
(* Theorems *)

\* The check of publish_task keeps every balance from going below zero, whatever is
\* published, selected, rejected and rounded in between.
THEOREM PublishersStaySolvent ==
  ASSUME Sensible
  PROVE  Spec => []NobodyOwes
<1>1. Init => RInv
  BY RInvStarts
<1>2. RInv /\ [Next]_gvars => RInv'
  BY RInvStep
<1>3. RInv => NobodyOwes
  BY DEF RInv
<1> QED  BY <1>1, <1>2, <1>3, PTL DEF Spec

\* group_task_service.py implements the escrow: a reward is frozen out of what its
\* publisher has and leaves once, to a cent, to two accounts.
THEOREM RewardsKeptInEscrow ==
  ASSUME Sensible
  PROVE  Spec => RewardsAreEscrowed
<1>1. Init => RInv /\ Books!Init
  BY RInvStarts
<1>2. RInv /\ [Next]_gvars => RInv'
  BY RInvStep
<1>3. RInv /\ [Next]_gvars => [Books!Next]_(Books!evars)
  BY RInvStep
<1> QED  BY <1>1, <1>2, <1>3, PTL DEF Spec, RewardsAreEscrowed, Books!Spec

-----------------------------------------------------------------------------
(* Message routing: the rows of a message *)

Stored == {"user", "reply", "receipt"}
Places(s, w) == {i \in 1 .. Len(s) : s[i] = w}
Count(s, w) == Cardinality(Places(s, w))

LEMMA RowsType ==
  ASSUME NEW s \in Seq(Stored), NEW w
  PROVE  Count(s, w) \in Nat
<1>1. Len(s) \in Nat /\ Places(s, w) \in SUBSET (1 .. Len(s))
  BY DEF Places
<1> QED  BY <1>1, PlacesGrow DEF Count

LEMMA RowAdds ==
  ASSUME NEW s \in Seq(Stored), NEW e \in Stored, NEW w
  PROVE  /\ Append(s, e) \in Seq(Stored)
         /\ Count(Append(s, e), w) = Count(s, w) + (IF e = w THEN 1 ELSE 0)
<1> DEFINE t == Append(s, e)
           n == Len(s)
<1>1. /\ t \in Seq(Stored) /\ n \in Nat /\ Len(t) = n + 1 /\ t[n + 1] = e
      /\ \A i \in 1 .. n : t[i] = s[i]
  BY AppendProperties
<1> HIDE DEF t
<1>2. Places(t, w) = IF e = w THEN Places(s, w) \cup {n + 1} ELSE Places(s, w)
  <2>1. \A i \in 1 .. n + 1 : i \in 1 .. n \/ i = n + 1
    BY <1>1
  <2> QED  BY <1>1, <2>1 DEF Places
<1>3. Places(s, w) \in SUBSET (1 .. n) /\ n + 1 \notin Places(s, w)
  BY <1>1 DEF Places
<1>4. Cardinality(Places(t, w)) = Cardinality(Places(s, w)) + (IF Places(t, w) # Places(s, w) THEN 1 ELSE 0)
  BY <1>1, <1>2, <1>3, PlacesGrow
<1> QED  BY <1>1, <1>2, <1>3, <1>4 DEF Count, t

LEMMA NoRowsCount == ASSUME NEW w PROVE Count(<< >>, w) = 0
<1>1. Places(<< >>, w) = {}
  BY DEF Places
<1> QED  BY <1>1, FS_EmptySet DEF Count

\* Up to three rows are added at once: how many of each kind there are then
Has(s, u, p, c) == s \in Seq(Stored) /\ Count(s, "user") = u /\ Count(s, "reply") = p /\ Count(s, "receipt") = c

LEMMA HasMore ==
  ASSUME NEW s, NEW u \in Nat, NEW p \in Nat, NEW c \in Nat, Has(s, u, p, c)
  PROVE  /\ Has(s \o << >>, u, p, c)
         /\ Has(s \o << "user" >>, u + 1, p, c)
         /\ Has(s \o << "reply" >>, u, p + 1, c)
         /\ Has(s \o << "user", "reply" >>, u + 1, p + 1, c)
         /\ Has(s \o << "receipt", "user" >>, u + 1, p, c + 1)
         /\ Has(s \o << "user", "user" >>, u + 2, p, c)
         /\ Has(s \o << "user", "user", "reply" >>, u + 2, p + 1, c)
<1>1. s \in Seq(Stored) /\ "user" \in Stored /\ "reply" \in Stored /\ "receipt" \in Stored
  BY DEF Has, Stored
<1> DEFINE U == Append(s, "user")
           P == Append(s, "reply")
           C == Append(s, "receipt")
<1>2. Has(U, u + 1, p, c)
  BY <1>1, RowAdds DEF Has
<1>3. Has(P, u, p + 1, c)
  BY <1>1, RowAdds DEF Has
<1>4. Has(C, u, p, c + 1)
  BY <1>1, RowAdds DEF Has
<1>5. U \in Seq(Stored) /\ P \in Seq(Stored) /\ C \in Seq(Stored)
  BY <1>1, RowAdds
<1> HIDE DEF U, P, C
<1>6. Has(Append(U, "reply"), u + 1, p + 1, c) /\ Has(Append(U, "user"), u + 2, p, c) /\ Append(U, "user") \in Seq(Stored)
  BY <1>1, <1>2, <1>5, RowAdds DEF Has
<1>7. Has(Append(C, "user"), u + 1, p, c + 1)
  BY <1>1, <1>4, <1>5, RowAdds DEF Has
<1>8. Has(Append(Append(U, "user"), "reply"), u + 2, p + 1, c)
  <2> DEFINE V == Append(U, "user")
  <2>1. V \in Seq(Stored) /\ Has(V, u + 2, p, c)
    BY <1>6
  <2> HIDE DEF V
  <2>2. Has(Append(V, "reply"), u + 2, p + 1, c)
    BY <1>1, <2>1, RowAdds DEF Has
  <2> QED  BY <2>2 DEF V
<1>9. /\ s \o << >> = s /\ s \o << "user" >> = U /\ s \o << "reply" >> = P
      /\ s \o << "user", "reply" >> = Append(U, "reply") /\ s \o << "user", "user" >> = Append(U, "user")
      /\ s \o << "receipt", "user" >> = Append(C, "user")
      /\ s \o << "user", "user", "reply" >> = Append(Append(U, "user"), "reply")
  BY <1>1 DEF U, P, C
<1> QED  BY <1>2, <1>3, <1>6, <1>7, <1>8, <1>9

LEMMA JoinTwo == ASSUME NEW a \in Stored, NEW b \in Stored PROVE << a >> \o << b >> = << a, b >>
<1> DEFINE s == << a >> \o << b >>
<1>1. s \in Seq(Stored) /\ Len(s) = 2 /\ s[1] = a /\ s[2] = b
  <2>1. << a >> \in Seq(Stored) /\ << b >> \in Seq(Stored) /\ Len(<< a >>) = 1 /\ Len(<< b >>) = 1
    OBVIOUS
  <2> QED  BY <2>1, ConcatProperties
<1> HIDE DEF s
<1>2. << a, b >> \in Seq(Stored) /\ Len(<< a, b >>) = 2 /\ << a, b >>[1] = a /\ << a, b >>[2] = b
  OBVIOUS
<1>3. \A i \in 1 .. 2 : i = 1 \/ i = 2
  OBVIOUS
<1>4. s = << a, b >>
  BY <1>1, <1>2, <1>3, SeqEqual
<1> QED  BY <1>4 DEF s

LEMMA JoinThree ==
  ASSUME NEW a \in Stored, NEW b \in Stored, NEW c \in Stored
  PROVE  << a >> \o << b, c >> = << a, b, c >>
<1> DEFINE s == << a >> \o << b, c >>
<1>1. s \in Seq(Stored) /\ Len(s) = 3 /\ s[1] = a /\ s[2] = b /\ s[3] = c
  <2>1. << a >> \in Seq(Stored) /\ << b, c >> \in Seq(Stored) /\ Len(<< a >>) = 1 /\ Len(<< b, c >>) = 2
    OBVIOUS
  <2> QED  BY <2>1, ConcatProperties
<1> HIDE DEF s
<1>2. /\ << a, b, c >> \in Seq(Stored) /\ Len(<< a, b, c >>) = 3
      /\ << a, b, c >>[1] = a /\ << a, b, c >>[2] = b /\ << a, b, c >>[3] = c
  OBVIOUS
<1>3. \A i \in 1 .. 3 : i = 1 \/ i = 2 \/ i = 3
  OBVIOUS
<1>4. s = << a, b, c >>
  BY <1>1, <1>2, <1>3, SeqEqual
<1> QED  BY <1>4 DEF s

LEMMA JoinNone == ASSUME NEW s \in Seq(Stored) PROVE << >> \o s = s
BY ConcatEmptySeq

LEMMA Joined ==
  /\ << >> \o << "user" >> = << "user" >> /\ << >> \o << "user", "reply" >> = << "user", "reply" >>
  /\ << "user" >> \o << "user" >> = << "user", "user" >>
  /\ << "user" >> \o << "user", "reply" >> = << "user", "user", "reply" >>
  /\ << "receipt" >> \o << "user" >> = << "receipt", "user" >>
<1>1. << "user" >> \in Seq(Stored) /\ << "user", "reply" >> \in Seq(Stored)
      /\ "user" \in Stored /\ "reply" \in Stored /\ "receipt" \in Stored
  BY DEF Stored
<1> QED  BY <1>1, JoinTwo, JoinThree, JoinNone

-----------------------------------------------------------------------------
(* The invariant of message routing *)

\* An attachment is stored as it was sent.
Raw == IF msg.form \in {"file", "lost file"} THEN 1 ELSE 0

\* How many rows a request may have stored where it is
Bounded(u, p, c) ==
  /\ u <= Raw + 1 /\ p <= 1 /\ c <= 1
  /\ stage \in {"new", "judging", "asking"} => p = 0 /\ c = 0
  /\ stage \in {"new", "judging"} => u <= Raw
  /\ stage = "new" => u = 0

RowsKept == \E u \in Nat, p \in Nat, c \in Nat : Has(rows, u, p, c) /\ Bounded(u, p, c)

\* Only a message whose form was looked at is judged, and a draft is known to be one.
JudgedRightly == stage = "judging" => Routing!Dispatched(msg) /\ (msg.form = "#3" => draft)

RoutingType ==
  /\ stage \in {"new", "judging", "asking", "planning", "reporting", "done", "failed"}
  /\ msg \in Routing!Message /\ draft \in BOOLEAN /\ live \in BOOLEAN

RouteInv == RoutingType /\ RowsKept /\ JudgedRightly /\ Routing!StepsReachCallback /\ Routing!DraftIsPlanned

LEMMA RoutingClaims == RouteInv => PrefixDecides
<1> SUFFICES ASSUME RouteInv PROVE PrefixDecides
  OBVIOUS
<1>1. PICK u \in Nat, p \in Nat, c \in Nat : Has(rows, u, p, c) /\ Bounded(u, p, c)
  BY DEF RouteInv, RowsKept
<1>2. ASSUME NEW S PROVE Routing!Cardinality(S) = Cardinality(S)
  BY DEF Routing!Cardinality, Cardinality
<1>3. Routing!Times("user") = u /\ Routing!Times("reply") = p /\ Routing!Times("receipt") = c
  BY <1>1, <1>2 DEF Has, Count, Places, Routing!Times
<1>4. Routing!RoutingTypeOK
  <2>1. u <= IF msg.form \in {"file", "lost file"} THEN 2 ELSE 1
    <3>1. u <= Raw + 1 /\ u \in Nat
      BY <1>1 DEF Bounded
    <3>2. CASE msg.form \in {"file", "lost file"}
      <4>0. (IF msg.form \in {"file", "lost file"} THEN 2 ELSE 1) = 2
        BY <3>2
      <4>1. Raw = 1
        BY <3>2 DEF Raw
      <4>2. u <= 2
        BY <3>1, <4>1
      <4> QED  BY <4>0, <4>2
    <3>3. CASE msg.form \notin {"file", "lost file"}
      <4>0. (IF msg.form \in {"file", "lost file"} THEN 2 ELSE 1) = 1
        BY <3>3
      <4>1. Raw = 0
        BY <3>3 DEF Raw
      <4>2. u <= 1
        BY <3>1, <4>1
      <4> QED  BY <4>0, <4>2
    <3> QED  BY <3>2, <3>3
  <2> QED  BY <1>1, <1>3, <2>1 DEF RouteInv, RoutingType, Routing!RoutingTypeOK, Bounded
<1> QED  BY <1>4 DEF RouteInv, PrefixDecides

-----------------------------------------------------------------------------
(* Its steps: what each branch stores, and that the prefix decided *)

\* A first step, of which nothing was stored before
LEMMA FirstRows ==
  ASSUME RouteInv, stage = "new", NEW new, rows' = rows \o new, msg' = msg,
         stage' \in {"judging", "asking", "planning", "reporting", "done"},
         stage' = "judging" => new = << >> \/ (new = << "user" >> /\ Raw = 1),
         stage' = "asking" => new = << "user" >> \/ (new = << "user", "user" >> /\ Raw = 1),
         stage' \notin {"judging", "asking"} =>
           \/ new \in {<< >>, << "user" >>, << "reply" >>, << "user", "reply" >>}
           \/ new = << "user", "user", "reply" >> /\ Raw = 1
  PROVE  RowsKept'
<1>1. Has(rows, 0, 0, 0)
  BY DEF RouteInv, RowsKept, Bounded
<1>2. /\ Has(rows \o << >>, 0, 0, 0) /\ Has(rows \o << "user" >>, 1, 0, 0) /\ Has(rows \o << "reply" >>, 0, 1, 0)
      /\ Has(rows \o << "user", "reply" >>, 1, 1, 0) /\ Has(rows \o << "user", "user" >>, 2, 0, 0)
      /\ Has(rows \o << "user", "user", "reply" >>, 2, 1, 0)
  BY <1>1, HasMore
<1>3. Raw' = Raw /\ Raw \in {0, 1}
  BY DEF Raw
<1>4. ASSUME NEW x \in Nat, NEW y \in Nat, NEW z \in Nat, Has(rows', x, y, z), Bounded(x, y, z)'
      PROVE  RowsKept'
  BY <1>4 DEF RowsKept, Has
<1>5. CASE stage' = "judging"
  <2>1. Bounded(0, 0, 0)' /\ (Raw = 1 => Bounded(1, 0, 0)')
    BY <1>3, <1>5 DEF Bounded
  <2> QED  BY <1>2, <1>4, <1>5, <2>1
<1>6. CASE stage' = "asking"
  <2>1. Bounded(1, 0, 0)' /\ (Raw = 1 => Bounded(2, 0, 0)')
    BY <1>3, <1>6 DEF Bounded
  <2> QED  BY <1>2, <1>4, <1>6, <2>1
<1>7. CASE stage' \in {"planning", "reporting", "done"}
  <2>1. Bounded(0, 0, 0)' /\ Bounded(1, 0, 0)' /\ Bounded(0, 1, 0)' /\ Bounded(1, 1, 0)' /\ (Raw = 1 => Bounded(2, 1, 0)')
    BY <1>3, <1>7 DEF Bounded
  <2> QED  BY <1>2, <1>4, <1>7, <2>1
<1> QED  BY <1>5, <1>6, <1>7

\* A step after the intent was judged
LEMMA LaterRows ==
  ASSUME RouteInv, stage = "judging", NEW new, rows' = rows \o new, msg' = msg,
         stage' \in {"asking", "planning", "reporting", "done"},
         new \in {<< >>, << "user" >>, << "reply" >>, << "user", "reply" >>, << "receipt", "user" >>},
         stage' = "asking" => new \in {<< >>, << "user" >>}
  PROVE  RowsKept'
<1>1. PICK u \in Nat : Has(rows, u, 0, 0) /\ u <= Raw
  BY DEF RouteInv, RowsKept, Bounded
<1>0. PICK v \in Nat : v = u + 1
  BY <1>1
<1>2. /\ Has(rows \o << >>, u, 0, 0) /\ Has(rows \o << "user" >>, v, 0, 0) /\ Has(rows \o << "reply" >>, u, 1, 0)
      /\ Has(rows \o << "user", "reply" >>, v, 1, 0) /\ Has(rows \o << "receipt", "user" >>, v, 0, 1)
  BY <1>0, <1>1, HasMore
<1>3. Raw' = Raw /\ Raw \in {0, 1}
  BY DEF Raw
<1>4. ASSUME NEW x \in Nat, NEW y \in Nat, NEW z \in Nat, Has(rows', x, y, z), Bounded(x, y, z)'
      PROVE  RowsKept'
  BY <1>4 DEF RowsKept, Has
<1>5. CASE stage' = "asking"
  <2>1. Bounded(u, 0, 0)' /\ Bounded(v, 0, 0)'
    BY <1>0, <1>1, <1>3, <1>5 DEF Bounded
  <2> QED  BY <1>0, <1>1, <1>2, <1>4, <1>5, <2>1
<1>6. CASE stage' \in {"planning", "reporting", "done"}
  <2>1. Bounded(u, 0, 0)' /\ Bounded(v, 0, 0)' /\ Bounded(u, 1, 0)' /\ Bounded(v, 1, 0)' /\ Bounded(v, 0, 1)'
    BY <1>0, <1>1, <1>3, <1>6 DEF Bounded
  <2> QED  BY <1>0, <1>1, <1>2, <1>4, <1>6, <2>1
<1> QED  BY <1>5, <1>6

LEMMA AnswerRows ==
  ASSUME RouteInv, stage = "asking", rows' = rows \o << "reply" >>, msg' = msg, stage' = "done"
  PROVE  RowsKept'
<1>1. PICK u \in Nat : Has(rows, u, 0, 0) /\ u <= Raw + 1
  BY DEF RouteInv, RowsKept, Bounded
<1>2. Has(rows \o << "reply" >>, u, 1, 0)
  BY <1>1, HasMore
<1>3. Raw' = Raw
  BY DEF Raw
<1> QED  BY <1>1, <1>2, <1>3 DEF RowsKept, Bounded

\* What Remaining says of the text of a message: the report of an executor is a step.
LEMMA FinishSteps ==
  ASSUME RouteInv, NEW first \in {<< >>, << "user" >>}, first = << "user" >> => Raw = 1, Routing!Finish(first)
  PROVE  \E new : /\ rows' = rows \o new
                  /\ \/ route' = "step" /\ stage' = "reporting" /\ new = << "reply" >>
                     \/ /\ ~(msg.form = "[STEP_DONE]" /\ Routing!Sender(msg) # "none")
                        /\ \/ stage' = "done" /\ new \in {first, first \o << "user", "reply" >>}
                           \/ stage' = "asking" /\ new = first \o << "user" >>
<1>1. msg.form = "[STEP_DONE]" => first = << >>
  BY DEF Raw
<1>2. << >> \o << "reply" >> = << "reply" >>
  OBVIOUS
<1>3. CASE Routing!Remaining(msg) = "step"
  <2>1. first = << >>
    BY <1>1, <1>3 DEF Routing!Remaining
  <2>2. rows' = rows \o << "reply" >> /\ route' = "step" /\ stage' = "reporting"
    BY <1>2, <1>3, <2>1 DEF Routing!Finish, Routing!Await, Routing!Store
  <2> QED  BY <2>2
<1>4. CASE Routing!Remaining(msg) # "step"
  <2>1. ~(msg.form = "[STEP_DONE]" /\ Routing!Sender(msg) # "none")
    BY <1>4 DEF Routing!Remaining
  <2>2. \/ rows' = rows \o first /\ stage' = "done"
        \/ rows' = rows \o (first \o << "user", "reply" >>) /\ stage' = "done"
        \/ rows' = rows \o (first \o << "user" >>) /\ stage' = "asking"
    BY <1>4 DEF Routing!Finish, Routing!Answer, Routing!Await, Routing!Store
  <2> QED  BY <2>1, <2>2
<1> QED  BY <1>3, <1>4

\* The messages whose branch is asked for: a report that an identity sends, and '#3'
Report(m) == m.form = "[STEP_DONE]" /\ Routing!Sender(m) # "none"

LEMMA OpenKeeps ==
  ASSUME RouteInv, Routing!ClearLock \/ Routing!StartAuto
  PROVE  RouteInv'
<1>1. /\ stage = "new" /\ UNCHANGED << msg, draft, live >> /\ stage' \in {"done", "planning"}
      /\ msg.form \notin {"[STEP_DONE]", "#3"}
  BY DEF Routing!ClearLock, Routing!StartAuto, Routing!Answer, Routing!Await
<1>2. rows' = rows \o << "reply" >> \/ rows' = rows \o << >> \/ rows' = rows \o << "user" >>
  BY DEF Routing!ClearLock, Routing!StartAuto, Routing!Answer, Routing!Await, Routing!Store
<1>3. RowsKept'
  BY <1>1, <1>2, FirstRows
<1> QED  BY <1>1, <1>3 DEF RouteInv, RoutingType, JudgedRightly, Routing!StepsReachCallback, Routing!DraftIsPlanned

LEMMA ReceiveKeeps ==
  ASSUME RouteInv, Routing!Receive
  PROVE  RouteInv'
<1>1. /\ stage = "new" /\ UNCHANGED << msg, live >> /\ draft' = (msg.form \in {"#3", "draft"})
  BY DEF Routing!Receive
<1>2. Routing!RawRow \in {<< >>, << "user" >>} /\ (Routing!RawRow = << "user" >> => Raw = 1)
  BY DEF Routing!RawRow, Raw
<1>3. CASE Routing!Dispatched(msg) /\ Routing!MayAnswerFromBase(msg) /\ Routing!Await("kb", << "user" >>, "asking")
  <2>1. rows' = rows \o << "user" >> /\ stage' = "asking" /\ msg.form \notin {"[STEP_DONE]", "#3"}
    BY <1>3 DEF Routing!Await, Routing!Store, Routing!Dispatched, Routing!MayAnswerFromBase, Routing!Numbered
  <2>2. RowsKept'
    BY <1>1, <2>1, FirstRows
  <2> QED  BY <1>1, <2>1, <2>2 DEF RouteInv, RoutingType, JudgedRightly, Routing!StepsReachCallback, Routing!DraftIsPlanned
<1>4. CASE Routing!Dispatched(msg) /\ Routing!Await("none", Routing!RawRow, "judging")
  <2>1. rows' = rows \o Routing!RawRow /\ stage' = "judging" /\ msg.form # "[STEP_DONE]"
    BY <1>4 DEF Routing!Await, Routing!Store, Routing!Dispatched
  <2>2. RowsKept'
    BY <1>1, <1>2, <2>1, FirstRows
  <2>3. JudgedRightly'
    BY <1>1, <1>4 DEF JudgedRightly, Routing!Dispatched
  <2> QED  BY <1>1, <2>1, <2>2, <2>3 DEF RouteInv, RoutingType, Routing!StepsReachCallback, Routing!DraftIsPlanned
<1>5. CASE ~Routing!Dispatched(msg) /\ Routing!Finish(Routing!RawRow)
  <2>0. PICK first \in {<< >>, << "user" >>} : first = Routing!RawRow
    BY <1>2
  <2>1. Routing!Finish(first)
    BY <1>5, <2>0 DEF Routing!Finish
  <2>2. PICK new : /\ rows' = rows \o new
                   /\ \/ route' = "step" /\ stage' = "reporting" /\ new = << "reply" >>
                      \/ /\ ~(msg.form = "[STEP_DONE]" /\ Routing!Sender(msg) # "none")
                         /\ \/ stage' = "done" /\ new \in {first, first \o << "user", "reply" >>}
                            \/ stage' = "asking" /\ new = first \o << "user" >>
    BY <1>2, <2>0, <2>1, FinishSteps
  <2>3. /\ << >> \o << "user" >> = << "user" >> /\ << >> \o << "user", "reply" >> = << "user", "reply" >>
        /\ << "user" >> \o << "user" >> = << "user", "user" >>
        /\ << "user" >> \o << "user", "reply" >> = << "user", "user", "reply" >>
    BY Joined
  <2>4. RowsKept'
    BY <1>1, <1>2, <2>0, <2>2, <2>3, FirstRows
  <2>5. stage' \in {"reporting", "done", "asking"} /\ (Report(msg) => route' = "step")
    BY <2>2 DEF Report
  <2>6. Report(msg)' <=> Report(msg)
    BY <1>1 DEF Report, Routing!Sender
  <2>7. msg.form = "#3" => msg.mode = "swarm"
    BY <1>1, <1>5, RoutingAssumption DEF RouteInv, RoutingType, Routing!Message, Routing!Dispatched
  <2> QED  BY <1>1, <2>4, <2>5, <2>6, <2>7
           DEF RouteInv, RoutingType, JudgedRightly, Routing!StepsReachCallback, Routing!DraftIsPlanned, Report
<1> QED  BY <1>3, <1>4, <1>5 DEF Routing!Receive

LEMMA JudgedKeeps ==
  ASSUME RouteInv, NEW intent \in BOOLEAN, Routing!Judged(intent)
  PROVE  RouteInv'
<1>1. /\ stage = "judging" /\ UNCHANGED << msg, draft, live >> /\ intent \in Routing!TaskAnswers(msg)
      /\ Routing!Dispatched(msg) /\ msg.form # "[STEP_DONE]" /\ (msg.form = "#3" => draft)
  BY DEF Routing!Judged, RouteInv, JudgedRightly, Routing!Dispatched
<1>2. msg.form = "#3" => intent /\ Routing!ImportRoute(msg) = "none"
  BY <1>1 DEF Routing!TaskAnswers, Routing!ImportRoute, Routing!Imports
<1>3. CASE Routing!ImportRoute(msg) # "none"
  <2>1. rows' = rows \o << "reply" >> /\ stage' = "done" /\ msg.form # "#3"
    BY <1>2, <1>3 DEF Routing!Judged, Routing!Answer, Routing!Store
  <2>2. RowsKept'
    BY <1>1, <2>1, LaterRows
  <2> QED  BY <1>1, <2>1, <2>2 DEF RouteInv, RoutingType, JudgedRightly, Routing!StepsReachCallback, Routing!DraftIsPlanned
<1>4. CASE Routing!ImportRoute(msg) = "none" /\ intent
  <2>1. \/ rows' = rows \o << "reply" >> /\ stage' = "done" /\ route' = "propose"
        \/ /\ rows' = rows \o ((IF Routing!Sender(msg) # "none" THEN << "receipt" >> ELSE << >>) \o << "user" >>)
           /\ stage' = "planning" /\ route' = "plan"
    BY <1>4 DEF Routing!Judged, Routing!Answer, Routing!Await, Routing!Store
  <2>2. << "receipt" >> \o << "user" >> = << "receipt", "user" >> /\ << >> \o << "user" >> = << "user" >>
    BY Joined
  <2>3. rows' = rows \o << "reply" >> \/ rows' = rows \o << "receipt", "user" >> \/ rows' = rows \o << "user" >>
    BY <2>1, <2>2
  <2>4. RowsKept'
    BY <1>1, <2>1, <2>3, LaterRows
  <2> QED  BY <1>1, <2>1, <2>4 DEF RouteInv, RoutingType, JudgedRightly, Routing!StepsReachCallback, Routing!DraftIsPlanned
<1>5. CASE Routing!ImportRoute(msg) = "none" /\ ~intent
  <2>1. \/ Routing!MayChat(msg, intent) /\ Routing!Answer("chat", << "reply" >>)
        \/ Routing!Finish(<< >>)
    BY <1>5 DEF Routing!Judged
  <2>2. CASE Routing!Answer("chat", << "reply" >>)
    <3>1. rows' = rows \o << "reply" >> /\ stage' = "done"
      BY <2>2 DEF Routing!Answer, Routing!Store
    <3>2. RowsKept'
      BY <1>1, <3>1, LaterRows
    <3> QED  BY <1>1, <1>2, <1>5, <3>1, <3>2
             DEF RouteInv, RoutingType, JudgedRightly, Routing!StepsReachCallback, Routing!DraftIsPlanned
  <2>3. CASE Routing!Finish(<< >>)
    <3>0. PICK first \in {<< >>, << "user" >>} : first = << >>
      OBVIOUS
    <3>1. Routing!Finish(first) /\ first # << "user" >>
      BY <2>3, <3>0 DEF Routing!Finish
    <3>2. PICK new : /\ rows' = rows \o new
                     /\ \/ route' = "step" /\ stage' = "reporting" /\ new = << "reply" >>
                        \/ /\ ~(msg.form = "[STEP_DONE]" /\ Routing!Sender(msg) # "none")
                           /\ \/ stage' = "done" /\ new \in {first, first \o << "user", "reply" >>}
                              \/ stage' = "asking" /\ new = first \o << "user" >>
      BY <3>1, FinishSteps
    <3>3. << >> \o << "user" >> = << "user" >> /\ << >> \o << "user", "reply" >> = << "user", "reply" >>
      BY Joined
    <3>4. RowsKept'
      BY <1>1, <3>0, <3>2, <3>3, LaterRows
    <3>5. stage' \in {"reporting", "done", "asking"}
      BY <3>2
    <3> QED  BY <1>1, <1>2, <1>5, <3>4, <3>5
             DEF RouteInv, RoutingType, JudgedRightly, Routing!StepsReachCallback, Routing!DraftIsPlanned
  <2> QED  BY <2>1, <2>2, <2>3
<1> QED  BY <1>3, <1>4, <1>5

LEMMA AnsweredKeeps ==
  ASSUME RouteInv, Routing!ModelAnswered
  PROVE  RouteInv'
<1>1. /\ stage = "asking" /\ stage' = "done" /\ UNCHANGED << msg, draft, live, route >> /\ rows' = rows \o << "reply" >>
  BY DEF Routing!ModelAnswered, Routing!Answer, Routing!Store
<1>2. RowsKept'
  BY <1>1, AnswerRows
<1> QED  BY <1>1, <1>2 DEF RouteInv, RoutingType, JudgedRightly, Routing!StepsReachCallback, Routing!DraftIsPlanned

LEMMA EndingKeeps ==
  ASSUME RouteInv, Routing!PlanReturned \/ Routing!ForeignKeyFails
  PROVE  RouteInv'
<1>1. /\ UNCHANGED << msg, draft, live, route, rows >> /\ stage' \in {"done", "failed"}
      /\ stage' = "done" => stage \in {"planning", "reporting"}
      /\ stage \in {"planning", "reporting", "judging", "asking"}
  BY DEF Routing!PlanReturned, Routing!ForeignKeyFails
<1>2. RowsKept'
  BY <1>1 DEF RouteInv, RowsKept, Bounded, Raw
<1> QED  BY <1>1, <1>2 DEF RouteInv, RoutingType, JudgedRightly, Routing!Dispatched, Routing!Sender, Routing!StepsReachCallback, Routing!DraftIsPlanned

LEMMA GoneKeeps ==
  ASSUME RouteInv, Routing!DeleteConversation
  PROVE  RouteInv'
<1>1. UNCHANGED << stage, msg, draft, route >> /\ live' = FALSE /\ rows' = << >>
  BY DEF Routing!DeleteConversation
<1>2. Has(rows', 0, 0, 0)
  BY <1>1, NoRowsCount, EmptySeq DEF Has
<1>3. Bounded(0, 0, 0)'
  BY DEF Bounded, Raw
<1>4. RowsKept'
  BY <1>2, <1>3 DEF RowsKept
<1> QED  BY <1>1, <1>4 DEF RouteInv, RoutingType, JudgedRightly, Routing!Dispatched, Routing!StepsReachCallback, Routing!DraftIsPlanned

LEMMA StutterKeeps ==
  ASSUME RouteInv, UNCHANGED Routing!rvars
  PROVE  RouteInv'
<1>1. UNCHANGED << stage, msg, route, draft, rows, live >>
  BY DEF Routing!rvars
<1>2. RowsKept'
  BY <1>1 DEF RouteInv, RowsKept, Bounded, Raw
<1> QED  BY <1>1, <1>2 DEF RouteInv, RoutingType, JudgedRightly, Routing!Dispatched, Routing!Sender, Routing!StepsReachCallback, Routing!DraftIsPlanned

LEMMA RoutingStarts == ASSUME Routing!Init PROVE RouteInv
<1>1. Has(rows, 0, 0, 0)
  BY NoRowsCount, EmptySeq DEF Has, Routing!Init
<1>2. Bounded(0, 0, 0)
  BY DEF Bounded, Raw
<1>3. RowsKept
  BY <1>1, <1>2 DEF RowsKept
<1> QED  BY <1>3 DEF RouteInv, RoutingType, JudgedRightly, Routing!StepsReachCallback, Routing!DraftIsPlanned, Routing!Init

\* Whatever a message looks like, whatever models and searches answer and whenever its
\* conversation goes: a report of an executor reaches handle_step_done, '#3' becomes a
\* draft, and a message is stored once and answered at most once.
THEOREM PrefixAlwaysDecides == Routing!Spec => []PrefixDecides
<1>1. Routing!Init => RouteInv
  BY RoutingStarts
<1>2. RouteInv /\ [Routing!Next]_(Routing!rvars) => RouteInv'
  <2> SUFFICES ASSUME RouteInv, [Routing!Next]_(Routing!rvars) PROVE RouteInv'
    OBVIOUS
  <2>1. CASE Routing!ClearLock \/ Routing!StartAuto
    BY <2>1, OpenKeeps
  <2>2. CASE Routing!Receive
    BY <2>2, ReceiveKeeps
  <2>3. CASE \E intent \in BOOLEAN : Routing!Judged(intent)
    BY <2>3, JudgedKeeps
  <2>4. CASE Routing!ModelAnswered
    BY <2>4, AnsweredKeeps
  <2>5. CASE Routing!PlanReturned \/ Routing!ForeignKeyFails
    BY <2>5, EndingKeeps
  <2>6. CASE Routing!DeleteConversation
    BY <2>6, GoneKeeps
  <2>7. CASE UNCHANGED Routing!rvars
    BY <2>7, StutterKeeps
  <2> QED  BY <2>1, <2>2, <2>3, <2>4, <2>5, <2>6, <2>7 DEF Routing!Next, Routing!Resume
<1>3. RouteInv => PrefixDecides
  BY RoutingClaims
<1> QED  BY <1>1, <1>2, <1>3, PTL DEF Routing!Spec


-----------------------------------------------------------------------------
(* The page of a group *)

Who == {"me", "agent", "file", "other"}
Texts == 1 .. Len(said)

\* Requests by what they carry
Opens == [kind : {"open", "info"}, group : Groups]
Loads == [kind : {"load"}, group : Groups \cup {NoGroup}, rows : Seq(Nat), read : BOOLEAN]
Uploads == [kind : {"upload"}, text : Nat, file : BOOLEAN]
Sends == [kind : {"send"}, group : Groups, text : Nat, file : BOOLEAN]
Sents == [kind : {"sent"}, text : Nat]
Request == {Page!Idle} \cup Opens \cup Loads \cup Uploads \cup Sends \cup Sents

Carries(c) == c.kind \in {"upload", "send", "sent"}
Waits(c) == c.kind \in {"upload", "send"}

Sock == [group : Groups, open : BOOLEAN]

PageShape ==
  /\ said \in Seq(Who) /\ store \in [Groups -> Seq(Nat)] /\ lines \in Seq(Nat)
  /\ cur \in Groups \cup {NoGroup} /\ view \in BOOLEAN /\ me \in BOOLEAN /\ asAgent \in BOOLEAN
  /\ asked \in [Tabs -> Request]
  /\ socks \in Seq(Sock)
  /\ push \subseteq Nat \X Nat /\ fresh \subseteq Nat

\* What is stored, shown, loaded or pushed has been said.
OnlySaid ==
  /\ \A g \in Groups : \A k \in 1 .. Len(store[g]) : store[g][k] \in Texts
  /\ \A k \in 1 .. Len(lines) : lines[k] \in Texts
  /\ \A s \in Tabs : asked[s].kind = "load" => \A k \in 1 .. Len(asked[s].rows) : asked[s].rows[k] \in Texts
  /\ \A p \in push : p[2] \in Texts

\* No text twice
Distinct(q) == \A i, j \in 1 .. Len(q) : q[i] = q[j] => i = j
StoredOnce ==
  /\ \A g \in Groups : Distinct(store[g])
  /\ \A s \in Tabs : asked[s].kind = "load" => Distinct(asked[s].rows)

\* A text that has not been sent is nowhere but on the page.
Unsent(m, st, calls, p) ==
  /\ \A g \in Groups : \A k \in 1 .. Len(st[g]) : st[g][k] # m
  /\ \A s \in Tabs : calls[s].kind = "load" => \A k \in 1 .. Len(calls[s].rows) : calls[s].rows[k] # m
  /\ \A x \in p : x[2] # m

Once(q, m) == \A i, j \in 1 .. Len(q) : q[i] = m /\ q[j] = m => i = j

\* Texts on their way to the server
OnItsWay(s) ==
  /\ asked[s].text \in Texts /\ said[asked[s].text] # "other"
  /\ \A r \in Tabs : r # s /\ Carries(asked[r]) => asked[r].text # asked[s].text
  /\ Waits(asked[s]) => Unsent(asked[s].text, store, asked, push)
  /\ Waits(asked[s]) /\ ~asked[s].file => said[asked[s].text] # "file" /\ Once(lines, asked[s].text)
  /\ (asked[s].kind = "sent" \/ asked[s].file) => said[asked[s].text] # "me"

Underway == \A s \in Tabs : Carries(asked[s]) => OnItsWay(s)

OwnOnce == me => \A m \in Texts : said[m] = "me" => Once(lines, m)

\* What is due was said by another since the last load; then none is under way.
Due ==
  /\ \A m \in fresh : m \in Texts /\ said[m] = "other"
  /\ fresh # {} => view /\ \A s \in Tabs : asked[s].kind \notin {"open", "load"}

\* The connection the page listens to is one there has been.
LinkKnown == link \in Nat /\ (link # 0 => link \in DOMAIN socks)

PageInv == PageShape /\ OnlySaid /\ StoredOnce /\ Underway /\ OwnOnce /\ Due /\ Page!OthersAreShown

-----------------------------------------------------------------------------
LEMMA FewCounted == ASSUME NEW K, \A i, j \in K : i = j PROVE Cardinality(K) <= 1
<1>0. Cardinality({}) = 0
  BY FS_EmptySet
<1>1. CASE K = {}
  BY <1>0, <1>1
<1>2. CASE K # {}
  <2>1. PICK k \in K : TRUE
    BY <1>2
  <2>2. K = {k}
    BY <2>1
  <2>3. Cardinality({k}) = 1
    BY FS_Singleton
  <2> QED  BY <2>2, <2>3
<1> QED  BY <1>1, <1>2

LEMMA PageClaims == PageInv => GroupPage
<1> SUFFICES ASSUME PageInv PROVE Page!OwnTextOnce
  BY DEF GroupPage, PageInv
<1>0. ASSUME NEW K PROVE Page!Cardinality(K) = Cardinality(K)
  BY DEF Page!Cardinality, Cardinality
<1>1. DOMAIN lines = 1 .. Len(lines) /\ DOMAIN said = Texts
  BY DEF PageInv, PageShape, Texts
<1>2. ASSUME me, NEW m \in Texts, said[m] = "me"
      PROVE  Cardinality({k \in DOMAIN lines : lines[k] = m}) <= 1
  <2>1. Once(lines, m)
    BY <1>2 DEF PageInv, OwnOnce
  <2> QED  BY <1>1, <2>1, FewCounted DEF Once
<1> QED  BY <1>0, <1>1, <1>2 DEF Page!OwnTextOnce

LEMMA PageStarts == Page!Init => PageInv
<1> SUFFICES ASSUME Page!Init PROVE PageInv
  OBVIOUS
<1>1. PageShape
  <2>1. said \in Seq(Who) /\ lines \in Seq(Nat) /\ socks \in Seq(Sock)
    BY EmptySeq DEF Page!Init
  <2>2. store \in [Groups -> Seq(Nat)]
    BY EmptySeq DEF Page!Init
  <2>3. asked \in [Tabs -> Request]
    BY DEF Page!Init, Request
  <2> QED  BY <2>1, <2>2, <2>3 DEF PageShape, Page!Init
<1>2. \A s \in Tabs : asked[s].kind = "idle"
  BY DEF Page!Init, Page!Idle
<1>3. OnlySaid /\ StoredOnce /\ Underway /\ OwnOnce /\ Due /\ Page!OthersAreShown
  BY <1>2 DEF OnlySaid, StoredOnce, Underway, OnItsWay, OwnOnce, Due, Page!OthersAreShown, Page!Init, Carries, Distinct, Once, Texts
<1> QED  BY <1>1, <1>3 DEF PageInv
-----------------------------------------------------------------------------
(* What a request carries *)

LEMMA RequestFields ==
  ASSUME NEW c \in Request
  PROVE  /\ c.kind \in {"open", "info", "send"} => c.group \in Groups
         /\ c.kind = "load" => c.group \in Groups \cup {NoGroup} /\ c.rows \in Seq(Nat) /\ c.read \in BOOLEAN
         /\ c.kind = "load" => c \in Loads
         /\ Carries(c) => c.text \in Nat
         /\ Waits(c) => c.file \in BOOLEAN
<1>1. CASE c = Page!Idle
  BY <1>1 DEF Page!Idle, Carries, Waits
<1>2. CASE c \in Opens
  BY <1>2 DEF Opens, Carries, Waits
<1>3. CASE c \in Loads
  BY <1>3 DEF Loads, Carries, Waits
<1>4. CASE c \in Uploads
  BY <1>4 DEF Uploads, Carries, Waits
<1>5. CASE c \in Sends
  BY <1>5 DEF Sends, Carries, Waits
<1>6. CASE c \in Sents
  BY <1>6 DEF Sents, Carries, Waits
<1> QED  BY <1>1, <1>2, <1>3, <1>4, <1>5, <1>6 DEF Request

\* A connection that is closed, also one that is not there
LEMMA ClosedSocks ==
  ASSUME NEW q \in Seq(Sock), NEW i
  PROVE  [q EXCEPT ![i].open = FALSE] \in Seq(Sock)
<1> DEFINE r == [q EXCEPT ![i].open = FALSE]
<1>1. Len(q) \in Nat /\ DOMAIN q = 1 .. Len(q) /\ \A j \in 1 .. Len(q) : q[j] \in Sock
  OBVIOUS
<1>2. r = [j \in 1 .. Len(q) |-> r[j]] /\ \A j \in 1 .. Len(q) : r[j] \in Sock
  BY <1>1 DEF Sock
<1> HIDE DEF r
<1>3. r \in [1 .. Len(q) -> Sock]
  BY <1>2
<1>4. r \in Seq(Sock)
  BY <1>1, <1>3, SeqDef
<1> QED  BY <1>4 DEF r

-----------------------------------------------------------------------------
(* Steps that say and store nothing *)

\* Rows that a request may carry and that the page may take
Fresh(q) ==
  /\ Distinct(q) /\ \A k \in 1 .. Len(q) : q[k] \in Texts
  /\ \A s \in Tabs : Waits(asked[s]) => \A k \in 1 .. Len(q) : q[k] # asked[s].text

Quiet(c) == ~Carries(c) /\ (c.kind = "load" => Fresh(c.rows))

Fits(q) ==
  /\ \A k \in 1 .. Len(q) : q[k] \in Texts
  /\ \A s \in Tabs : Waits(asked[s]) /\ ~asked[s].file => Once(q, asked[s].text)

OwnIn(q) == \A m \in Texts : said[m] = "me" => Once(q, m)

LEMMA QuietStep ==
  ASSUME PageInv, said' = said, store' = store, push' \subseteq push,
         \A s \in Tabs : asked'[s] = asked[s] \/ Quiet(asked'[s]),
         Fits(lines'), me' => OwnIn(lines')
  PROVE  OnlySaid' /\ StoredOnce' /\ Underway' /\ OwnOnce'
<1>0. Texts' = Texts /\ OnlySaid /\ StoredOnce /\ Underway
  BY DEF Texts, PageInv
<1>1. OnlySaid'
  BY <1>0 DEF OnlySaid, Quiet, Fresh, Fits
<1>2. StoredOnce'
  BY <1>0 DEF StoredOnce, Quiet, Fresh
<1>3. OwnOnce'
  BY <1>0 DEF OwnOnce, OwnIn
<1>4. Underway'
  <2> SUFFICES ASSUME NEW s \in Tabs, Carries(asked'[s])
      PROVE  /\ asked'[s].text \in Texts /\ said[asked'[s].text] # "other"
             /\ \A r \in Tabs : r # s /\ Carries(asked'[r]) => asked'[r].text # asked'[s].text
             /\ Waits(asked'[s]) => Unsent(asked'[s].text, store', asked', push')
             /\ Waits(asked'[s]) /\ ~asked'[s].file => said[asked'[s].text] # "file" /\ Once(lines', asked'[s].text)
             /\ (asked'[s].kind = "sent" \/ asked'[s].file) => said[asked'[s].text] # "me"
    BY <1>0 DEF Underway, OnItsWay
  <2>1. asked'[s] = asked[s] /\ \A r \in Tabs : Carries(asked'[r]) => asked'[r] = asked[r]
    BY DEF Quiet
  <2>2. ASSUME Waits(asked[s]) PROVE Unsent(asked[s].text, store', asked', push')
    <3>1. Unsent(asked[s].text, store, asked, push)
      BY <1>0, <2>1, <2>2 DEF Underway, OnItsWay
    <3> QED  BY <2>2, <3>1 DEF Unsent, Quiet, Fresh
  <2> QED  BY <1>0, <2>1, <2>2 DEF Underway, OnItsWay, Fits
<1> QED  BY <1>1, <1>2, <1>3, <1>4

LEMMA PageAsIs == PageInv => Fits(lines) /\ (me => OwnIn(lines))
BY DEF PageInv, OnlySaid, Underway, OnItsWay, OwnOnce, OwnIn, Fits, Carries, Waits

LEMMA NothingDue == ASSUME fresh' = {} PROVE Due' /\ Page!OthersAreShown'
BY DEF Due, Page!OthersAreShown

\* What is due stays due while none of it is touched.
LEMMA StillDue ==
  ASSUME PageInv, fresh' = fresh, fresh # {} => view',
         \A m \in fresh : m \in Texts' /\ said'[m] = "other",
         \A s \in Tabs : asked'[s] = asked[s] \/ asked'[s].kind \notin {"open", "load"} \/ fresh = {},
         fresh # {} => /\ Range(lines) \subseteq Range(lines')
                     /\ push \subseteq push' /\ DOMAIN socks \subseteq DOMAIN socks'
                     /\ \A i \in DOMAIN socks : socks'[i] = socks[i]
  PROVE  Due' /\ Page!OthersAreShown'
<1>0. Range(lines) = Page!Range(lines) /\ Range(lines') = Page!Range(lines')
  BY DEF Range, Page!Range
<1>1. Due'
  BY DEF PageInv, Due
<1>2. Page!OthersAreShown'
  BY <1>0 DEF PageInv, Page!OthersAreShown
<1> QED  BY <1>1, <1>2

LEMMA OpenKeepsPage ==
  ASSUME PageInv, NEW g \in Groups, NEW s \in Tabs, Page!OpenGroup(g, s)
  PROVE  PageInv'
<1> DEFINE c == [kind |-> "open", group |-> g]
<1>1. /\ ~view /\ cur' = g /\ asked' = [asked EXCEPT ![s] = c] /\ PageShape
      /\ UNCHANGED << said, store, view, me, asAgent, lines, socks, push, fresh >>
  BY DEF Page!OpenGroup, PageInv
<1>2. c \in Request /\ c.kind = "open"
  BY DEF Request, Opens
<1> HIDE DEF c
<1>3. PageShape'
  BY <1>1, <1>2 DEF PageShape
<1>4. Quiet(asked'[s]) /\ \A r \in Tabs : asked'[r] = asked[r] \/ Quiet(asked'[r])
  BY <1>1, <1>2 DEF PageShape, Quiet, Carries
<1>5. fresh' = {}
  BY <1>1 DEF PageInv, Due
<1> QED  BY <1>1, <1>3, <1>4, <1>5, QuietStep, PageAsIs, NothingDue DEF PageInv

LEMMA OpenedKeepsPage ==
  ASSUME PageInv, NEW s \in Tabs, NEW r \in Tabs, s # r, Page!Opened(s, r)
  PROVE  PageInv'
<1> DEFINE c == [kind |-> "info", group |-> asked[s].group]
           d == [kind |-> "load", group |-> cur, rows |-> << >>, read |-> FALSE]
<1>1. /\ asked[s].kind = "open" /\ me' \in BOOLEAN /\ asAgent' \in BOOLEAN /\ view' = TRUE
      /\ socks' = IF link = 0 THEN socks ELSE [socks EXCEPT ![link].open = FALSE]
      /\ lines' = << >> /\ fresh' = {} /\ asked' = [asked EXCEPT ![s] = c, ![r] = d] /\ PageShape
      /\ UNCHANGED << said, store, cur, push >>
  BY DEF Page!Opened, PageInv
<1>2. /\ asked[s].group \in Groups
      /\ c.kind = "info" /\ d.kind = "load" /\ d.rows = << >> /\ << >> \in Seq(Nat)
  BY <1>1, EmptySeq, RequestFields DEF PageShape
<1>3. c \in Request /\ d \in Request
  BY <1>1, <1>2 DEF Request, Opens, Loads, PageShape
<1> HIDE DEF c, d
<1>4. socks' \in Seq(Sock)
  BY <1>1, ClosedSocks DEF PageShape
<1>5. PageShape'
  BY <1>1, <1>2, <1>3, <1>4 DEF PageShape
<1>6. \A x \in Tabs : asked'[x] = asked[x] \/ Quiet(asked'[x])
  BY <1>1, <1>2 DEF PageShape, Quiet, Carries, Fresh, Distinct
<1>7. Fits(lines') /\ OwnIn(lines')
  BY <1>1 DEF Fits, OwnIn, Once
<1> QED  BY <1>1, <1>5, <1>6, <1>7, QuietStep, NothingDue DEF PageInv

LEMMA InfoKeepsPage ==
  ASSUME PageInv, NEW s \in Tabs, Page!InfoAnswered(s)
  PROVE  PageInv'
<1> DEFINE c == [group |-> asked[s].group, open |-> TRUE]
<1>1. /\ asked[s].kind = "info" /\ asked' = [asked EXCEPT ![s] = Page!Idle] /\ PageShape
      /\ UNCHANGED << said, store, cur, view, me, asAgent, lines, push, fresh >>
      /\ socks' = Append(socks, c) \/ socks' = socks
  BY DEF Page!InfoAnswered, PageInv
<1>2. asked[s].group \in Groups
  BY <1>1, RequestFields DEF PageShape
<1>3. c \in Sock
  BY <1>2 DEF Sock
<1> HIDE DEF c
<1>4. /\ socks' \in Seq(Sock)
      /\ DOMAIN socks \subseteq DOMAIN socks' /\ \A i \in DOMAIN socks : socks'[i] = socks[i]
  <2>1. socks \in Seq(Sock) /\ DOMAIN socks = 1 .. Len(socks) /\ Len(socks) \in Nat
    BY <1>1 DEF PageShape
  <2>2. CASE socks' = Append(socks, c)
    <3>1. /\ socks' \in Seq(Sock) /\ Len(socks') = Len(socks) + 1
          /\ \A i \in 1 .. Len(socks) : socks'[i] = socks[i]
      BY <1>3, <2>1, <2>2, AppendProperties
    <3>2. DOMAIN socks' = 1 .. Len(socks) + 1
      BY <3>1
    <3> QED  BY <2>1, <3>1, <3>2
  <2>3. CASE socks' = socks
    BY <2>1, <2>3
  <2> QED  BY <1>1, <2>2, <2>3
<1>5. Page!Idle \in Request /\ Page!Idle.kind = "idle"
  BY DEF Request, Page!Idle
<1>6. PageShape'
  BY <1>1, <1>4, <1>5 DEF PageShape
<1>7. \A x \in Tabs : asked'[x] = asked[x] \/ (Quiet(asked'[x]) /\ asked'[x].kind = "idle")
  BY <1>1, <1>5 DEF PageShape, Quiet, Carries
<1>8. Due' /\ Page!OthersAreShown'
  BY <1>1, <1>4, <1>7, StillDue DEF PageInv, Due, Texts
<1> QED  BY <1>1, <1>6, <1>7, <1>8, QuietStep, PageAsIs DEF PageInv

LEMMA CloseKeepsPage ==
  ASSUME PageInv, Page!CloseGroup \/ (\E i \in DOMAIN socks : Page!Drop(i)) \/ Page!SwitchIdentity
  PROVE  PageInv'
<1>1. /\ UNCHANGED << said, store, lines, asked, push >> /\ me' \in {me, FALSE} /\ view' \in {view, FALSE}
      /\ cur' \in {cur, NoGroup} /\ asAgent' \in {asAgent, FALSE, ~asAgent} /\ PageShape
  BY DEF Page!CloseGroup, Page!Drop, Page!SwitchIdentity, PageInv
<1>2. socks' \in Seq(Sock)
  BY ClosedSocks DEF Page!CloseGroup, Page!Drop, Page!SwitchIdentity, PageInv, PageShape
<1>3. fresh' = {} \/ (fresh' = fresh /\ view /\ view' = view /\ socks' = socks)
  BY DEF Page!CloseGroup, Page!Drop, Page!SwitchIdentity
<1>4. PageShape'
  BY <1>1, <1>2, <1>3 DEF PageShape
<1>5. Due' /\ Page!OthersAreShown'
  BY <1>1, <1>3, StillDue, NothingDue DEF PageInv, Due, Texts
<1>6. Fits(lines') /\ (me' => OwnIn(lines'))
  <2>1. me' => me
    BY <1>1
  <2>2. lines' = lines
    BY <1>1
  <2> QED  BY <2>1, <2>2, PageAsIs
<1> QED  BY <1>1, <1>4, <1>5, <1>6, QuietStep DEF PageInv

LEMMA ReloadKeepsPage ==
  ASSUME PageInv, NEW s \in Tabs, Page!Reload(s)
  PROVE  PageInv'
<1> DEFINE c == [kind |-> "load", group |-> cur, rows |-> << >>, read |-> FALSE]
<1>1. /\ asked' = [asked EXCEPT ![s] = c] /\ fresh' = {} /\ PageShape
      /\ UNCHANGED << said, store, cur, view, me, asAgent, lines, socks, push >>
  BY DEF Page!Reload, PageInv
<1>2. c \in Request /\ c.kind = "load" /\ c.rows = << >>
  BY <1>1, EmptySeq DEF Request, Loads, PageShape
<1> HIDE DEF c
<1>3. PageShape'
  BY <1>1, <1>2 DEF PageShape
<1>4. \A x \in Tabs : asked'[x] = asked[x] \/ Quiet(asked'[x])
  BY <1>1, <1>2 DEF PageShape, Quiet, Carries, Fresh, Distinct
<1> QED  BY <1>1, <1>3, <1>4, QuietStep, PageAsIs, NothingDue DEF PageInv

\* The oldest rows of a group are rows of the group.
LEMMA OldestRows ==
  ASSUME NEW q \in Seq(Nat), PageLimit \in Nat
  PROVE  LET n == Page!Min({PageLimit, Len(q)})
             r == SubSeq(q, 1, n)
         IN  /\ r \in Seq(Nat) /\ Len(r) \in 0 .. Len(q)
             /\ \A k \in 1 .. Len(r) : r[k] = q[k]
<1> DEFINE S == {PageLimit, Len(q)}
           n == Page!Min(S)
<1>1. n \in S /\ n <= Len(q)
  <2>1. \E x \in S : \A y \in S : x <= y
    BY LenProperties
  <2> HIDE DEF S
  <2>2. n = CHOOSE x \in S : \A y \in S : x <= y
    BY DEF Page!Min
  <2>3. n \in S /\ \A y \in S : n <= y
    BY <2>1, <2>2
  <2> QED  BY <2>3 DEF S
<1>2. n \in 0 .. Len(q)
  BY <1>1, LenProperties
<1> HIDE DEF n
<1>3. \A k \in 1 .. n : q[k] \in Nat
  BY <1>2, ElementOfSeq
<1>4. /\ SubSeq(q, 1, n) \in Seq(Nat) /\ Len(SubSeq(q, 1, n)) = n
      /\ \A k \in 1 .. n : SubSeq(q, 1, n)[k] = q[k]
  BY <1>2, <1>3, SubSeqProperties
<1> QED  BY <1>2, <1>4 DEF n

LEMMA RowsKeepPage ==
  ASSUME PageInv, NEW s \in Tabs, Page!LoadServed(s)
  PROVE  PageInv'
<1>1. /\ asked[s].kind = "load" /\ asked[s].group \in Groups \cup {NoGroup} /\ PageShape
      /\ UNCHANGED << said, store, cur, view, me, asAgent, lines, socks, push, fresh >>
  BY RequestFields DEF Page!LoadServed, PageInv, PageShape
<1>2. fresh = {}
  BY <1>1 DEF PageInv, Due
<1>3. ASSUME NEW c \in Request, asked' = [asked EXCEPT ![s] = c], Quiet(c)
      PROVE  PageInv'
  <2>1. PageShape'
    BY <1>1, <1>3 DEF PageShape
  <2>2. \A x \in Tabs : asked'[x] = asked[x] \/ Quiet(asked'[x])
    BY <1>1, <1>3 DEF PageShape
  <2> QED  BY <1>1, <1>2, <2>1, <2>2, QuietStep, PageAsIs, NothingDue DEF PageInv
<1>4. CASE asked' = [asked EXCEPT ![s] = Page!Idle]
  <2>1. Page!Idle \in Request /\ Quiet(Page!Idle)
    BY DEF Request, Page!Idle, Quiet, Carries
  <2> QED  BY <1>3, <1>4, <2>1
<1>5. CASE asked[s].group # NoGroup /\ asked' # [asked EXCEPT ![s] = Page!Idle]
  <2> DEFINE q == store[asked[s].group]
             r == SubSeq(q, 1, Page!Min({PageLimit, Len(q)}))
             c == [asked[s] EXCEPT !.read = TRUE, !.rows = r]
  <2>1. asked' = [asked EXCEPT ![s] = c]
    BY <1>5 DEF Page!LoadServed
  <2>2. q \in Seq(Nat) /\ asked[s].group \in Groups
    BY <1>1, <1>5 DEF PageShape
  <2>3. r \in Seq(Nat) /\ Len(r) \in 0 .. Len(q) /\ \A k \in 1 .. Len(r) : r[k] = q[k]
    BY <2>2, OldestRows, PageAssumption
  <2>4. Fresh(r)
    <3>1. \A k \in 1 .. Len(r) : k \in 1 .. Len(q)
      BY <2>2, <2>3
    <3>2. Distinct(q) /\ \A k \in 1 .. Len(q) : q[k] \in Texts
      BY <2>2 DEF PageInv, StoredOnce, OnlySaid
    <3>3. \A x \in Tabs : Waits(asked[x]) => \A k \in 1 .. Len(q) : q[k] # asked[x].text
      BY <2>2 DEF PageInv, Underway, OnItsWay, Unsent, Carries, Waits
    <3> HIDE DEF q, r
    <3> QED  BY <2>3, <3>1, <3>2, <3>3 DEF Fresh, Distinct
  <2> HIDE DEF r
  <2>5. asked[s] \in Loads
    BY <1>1, RequestFields DEF PageShape
  <2>6. c \in Loads /\ c.kind = "load" /\ c.rows = r
    BY <2>3, <2>5 DEF Loads
  <2> HIDE DEF c
  <2>7. c \in Request /\ Quiet(c)
    BY <2>4, <2>6 DEF Request, Quiet, Carries
  <2> QED  BY <1>3, <2>1, <2>7
<1> QED  BY <1>4, <1>5 DEF Page!LoadServed

LEMMA RenderedKeepsPage ==
  ASSUME PageInv, NEW s \in Tabs, Page!LoadRendered(s)
  PROVE  PageInv'
<1>1. /\ asked[s].kind = "load" /\ lines' = asked[s].rows /\ asked[s].rows \in Seq(Nat) /\ PageShape
      /\ asked' = [asked EXCEPT ![s] = Page!Idle]
      /\ UNCHANGED << said, store, cur, view, me, asAgent, socks, push, fresh >>
  BY RequestFields DEF Page!LoadRendered, PageInv, PageShape
<1>2. fresh = {}
  BY <1>1 DEF PageInv, Due
<1>3. Page!Idle \in Request /\ Quiet(Page!Idle)
  BY DEF Request, Page!Idle, Quiet, Carries
<1>4. PageShape'
  BY <1>1, <1>3 DEF PageShape
<1>5. \A x \in Tabs : asked'[x] = asked[x] \/ Quiet(asked'[x])
  BY <1>1, <1>3 DEF PageShape
<1>6. Fits(lines') /\ OwnIn(lines')
  <2>1. /\ Distinct(lines') /\ \A k \in 1 .. Len(lines') : lines'[k] \in Texts
    BY <1>1 DEF PageInv, StoredOnce, OnlySaid
  <2>2. \A m : Once(lines', m)
    BY <2>1 DEF Distinct, Once
  <2> QED  BY <2>1, <2>2 DEF Fits, OwnIn
<1> QED  BY <1>1, <1>2, <1>4, <1>5, <1>6, QuietStep, NothingDue DEF PageInv

\* A text is put at the end of the page.
LEMMA PutOnPage ==
  ASSUME PageShape, NEW m \in Nat, lines' = Append(lines, m)
  PROVE  /\ lines' \in Seq(Nat) /\ Len(lines') = Len(lines) + 1 /\ lines'[Len(lines) + 1] = m
         /\ \A k \in 1 .. Len(lines) : lines'[k] = lines[k]
         /\ \A k \in 1 .. Len(lines') : k \in 1 .. Len(lines) \/ k = Len(lines) + 1
         /\ Range(lines') = Range(lines) \cup {m}
         /\ \A x : x # m /\ Once(lines, x) => Once(lines', x)
<1>1. lines \in Seq(Nat) /\ Len(lines) \in Nat
  BY DEF PageShape
<1>2. /\ lines' \in Seq(Nat) /\ Len(lines') = Len(lines) + 1 /\ lines'[Len(lines) + 1] = m
      /\ \A k \in 1 .. Len(lines) : lines'[k] = lines[k]
  BY <1>1, AppendProperties
<1>3. \A k \in 1 .. Len(lines') : k \in 1 .. Len(lines) \/ k = Len(lines) + 1
  BY <1>1, <1>2
<1>4. Range(lines') = Range(lines) \cup {m}
  <2>1. DOMAIN lines' = 1 .. Len(lines) + 1 /\ DOMAIN lines = 1 .. Len(lines)
    BY <1>1, <1>2
  <2>2. 1 .. Len(lines) + 1 = (1 .. Len(lines)) \cup {Len(lines) + 1}
    BY <1>1
  <2> QED  BY <1>2, <2>1, <2>2 DEF Range
<1>5. \A x : x # m /\ Once(lines, x) => Once(lines', x)
  BY <1>2, <1>3 DEF Once
<1> QED  BY <1>2, <1>3, <1>4, <1>5

LEMMA FileKeepsPage ==
  ASSUME PageInv, NEW s \in Tabs, Page!FileShown(s)
  PROVE  PageInv'
<1> DEFINE m == asked[s].text
<1>1. /\ asked[s].kind = "sent" /\ lines' = Append(lines, m) /\ PageShape /\ m \in Nat /\ Carries(asked[s])
      /\ asked' = [asked EXCEPT ![s] = Page!Idle]
      /\ UNCHANGED << said, store, cur, view, me, asAgent, socks, push, fresh >>
  BY RequestFields DEF Page!FileShown, PageInv, PageShape, Carries
<1>2. m \in Texts /\ said[m] # "me" /\ \A r \in Tabs : Waits(asked[r]) => asked[r].text # m
  BY <1>1 DEF PageInv, Underway, OnItsWay, Carries, Waits
<1> HIDE DEF m
<1>3. Page!Idle \in Request /\ Quiet(Page!Idle) /\ Page!Idle.kind = "idle"
  BY DEF Request, Page!Idle, Quiet, Carries
<1>4. PageShape'
  BY <1>1, <1>3, PutOnPage DEF PageShape
<1>5. \A x \in Tabs : asked'[x] = asked[x] \/ (Quiet(asked'[x]) /\ asked'[x].kind = "idle")
  BY <1>1, <1>3 DEF PageShape
<1>6. Fits(lines') /\ (me' => OwnIn(lines'))
  <2>1. Fits(lines')
    BY <1>1, <1>2, PutOnPage, PageAsIs DEF Fits
  <2>2. me' => OwnIn(lines')
    BY <1>1, <1>2, PutOnPage, PageAsIs DEF OwnIn
  <2> QED  BY <2>1, <2>2
<1>7. Due' /\ Page!OthersAreShown'
  BY <1>1, <1>5, StillDue, PutOnPage DEF PageInv, Due, Texts
<1> QED  BY <1>1, <1>4, <1>5, <1>6, <1>7, QuietStep DEF PageInv

LEMMA PushedKeepsPage ==
  ASSUME PageInv, NEW p \in push, Page!Pushed(p[1], p[2])
  PROVE  PageInv'
<1> DEFINE i == p[1]
           m == p[2]
<1>1. /\ push' = push \ {<< i, m >>} /\ PageShape /\ p = << i, m >> /\ i \in Nat /\ m \in Nat
      /\ lines' = IF socks[i].open /\ ~Page!Echo(m) THEN Append(lines, m) ELSE lines
      /\ UNCHANGED << said, store, cur, view, me, asAgent, asked, socks, fresh >>
  BY DEF Page!Pushed, PageInv, PageShape
<1>2. m \in Texts /\ \A r \in Tabs : Waits(asked[r]) => asked[r].text # m
  BY DEF PageInv, OnlySaid, Underway, OnItsWay, Unsent, Carries, Waits
<1> HIDE DEF i, m
<1>3. PageShape'
  BY <1>1, PutOnPage DEF PageShape
<1>4. Fits(lines') /\ (me' => OwnIn(lines'))
  <2>1. CASE lines' = lines
    BY <1>1, <2>1, PageAsIs
  <2>2. CASE lines' = Append(lines, m) /\ ~Page!Echo(m)
    <3>1. Fits(lines')
      BY <1>1, <1>2, <2>2, PutOnPage, PageAsIs DEF Fits
    <3>2. me' => OwnIn(lines')
      BY <1>1, <1>2, <2>2, PutOnPage, PageAsIs DEF OwnIn, Page!Echo
    <3> QED  BY <3>1, <3>2
  <2> QED  BY <1>1, <2>1, <2>2
<1>5. Due'
  BY <1>1 DEF PageInv, Due, Texts
<1>6. Page!OthersAreShown'
  <2>0. Range(lines) = Page!Range(lines) /\ Range(lines') = Page!Range(lines')
    BY DEF Range, Page!Range
  <2>1. SUFFICES ASSUME NEW x \in fresh
                 PROVE  \/ x \in Range(lines')
                        \/ \E j \in DOMAIN socks : socks[j].open /\ << j, x >> \in push'
    BY <1>1, <2>0 DEF Page!OthersAreShown
  <2>2. Range(lines) \subseteq Range(lines')
    BY <1>1, PutOnPage
  <2>3. CASE x \in Range(lines)
    BY <2>2, <2>3
  <2>4. CASE \E j \in DOMAIN socks : socks[j].open /\ << j, x >> \in push
    <3>1. PICK j \in DOMAIN socks : socks[j].open /\ << j, x >> \in push
      BY <2>4
    <3>2. CASE << j, x >> = << i, m >>
      <4>1. said[m] = "other"
        BY <2>1, <3>2 DEF PageInv, Due
      <4>2. lines' = Append(lines, m)
        BY <1>1, <3>1, <3>2, <4>1 DEF Page!Echo
      <4> QED  BY <1>1, <3>2, <4>2, PutOnPage
    <3>3. CASE << j, x >> # << i, m >>
      BY <1>1, <3>1, <3>3
    <3> QED  BY <3>2, <3>3
  <2> QED  BY <2>0, <2>1, <2>3, <2>4 DEF PageInv, Page!OthersAreShown
<1> QED  BY <1>1, <1>3, <1>4, <1>5, <1>6, QuietStep DEF PageInv

-----------------------------------------------------------------------------
(* Steps that say or store *)

LEMMA NewText ==
  ASSUME PageShape, NEW w \in Who, said' = Append(said, w)
  PROVE  /\ said' \in Seq(Who) /\ Page!New \in Nat /\ Page!New \notin Texts
         /\ Texts' = Texts \cup {Page!New} /\ said'[Page!New] = w
         /\ \A m \in Texts : said'[m] = said[m]
<1>1. /\ Len(said) \in Nat /\ said' \in Seq(Who) /\ Len(said') = Len(said) + 1
      /\ said'[Len(said) + 1] = w /\ \A m \in 1 .. Len(said) : said'[m] = said[m]
  BY AppendProperties DEF PageShape
<1>2. 1 .. Len(said) + 1 = (1 .. Len(said)) \cup {Len(said) + 1} /\ Len(said) + 1 \notin 1 .. Len(said)
  BY <1>1
<1> QED  BY <1>1, <1>2 DEF Texts, Page!New

\* What it means to store a text and push it
LEMMA StoredStep ==
  ASSUME PageShape, NEW g \in Groups, NEW m \in Nat, Page!Stored(g, m)
  PROVE  /\ store' \in [Groups -> Seq(Nat)] /\ push' \subseteq Nat \X Nat
         /\ \A h \in Groups : \A k \in 1 .. Len(store'[h]) :
              \/ k \in 1 .. Len(store[h]) /\ store'[h][k] = store[h][k]
              \/ h = g /\ k = Len(store[g]) + 1 /\ store'[h][k] = m
         /\ push \subseteq push' /\ \A p \in push' : p \in push \/ p[2] = m
         /\ \A i \in DOMAIN socks : socks[i].open /\ socks[i].group = g => << i, m >> \in push'
<1>1. /\ store' = [store EXCEPT ![g] = Append(store[g], m)]
      /\ push' = push \cup {<< i, m >> : i \in {j \in DOMAIN socks : socks[j].open /\ socks[j].group = g}}
  BY DEF Page!Stored, Page!Broadcast, PageShape
<1>2. DOMAIN socks \subseteq Nat /\ push \subseteq Nat \X Nat /\ store \in [Groups -> Seq(Nat)]
  BY DEF PageShape
<1>3. push' \subseteq Nat \X Nat
  BY <1>1, <1>2
<1>4. /\ \A p \in push' : p \in push \/ p[2] = m
      /\ \A i \in DOMAIN socks : socks[i].open /\ socks[i].group = g => << i, m >> \in push'
  BY <1>1
<1>5. /\ Append(store[g], m) \in Seq(Nat) /\ Len(Append(store[g], m)) = Len(store[g]) + 1 /\ Len(store[g]) \in Nat
      /\ Append(store[g], m)[Len(store[g]) + 1] = m
      /\ \A k \in 1 .. Len(store[g]) : Append(store[g], m)[k] = store[g][k]
  BY <1>2, AppendProperties, LenProperties
<1>6. \A k \in 1 .. Len(store[g]) + 1 : k \in 1 .. Len(store[g]) \/ k = Len(store[g]) + 1
  BY <1>5
<1>7. store' \in [Groups -> Seq(Nat)] /\ store'[g] = Append(store[g], m) /\ \A h \in Groups : h # g => store'[h] = store[h]
  BY <1>1, <1>2, <1>5
<1>8. \A h \in Groups : \A k \in 1 .. Len(store'[h]) :
              \/ k \in 1 .. Len(store[h]) /\ store'[h][k] = store[h][k]
              \/ h = g /\ k = Len(store[g]) + 1 /\ store'[h][k] = m
  <2> SUFFICES ASSUME NEW h \in Groups, NEW k \in 1 .. Len(store'[h])
               PROVE  \/ k \in 1 .. Len(store[h]) /\ store'[h][k] = store[h][k]
                      \/ h = g /\ k = Len(store[g]) + 1 /\ store'[h][k] = m
    OBVIOUS
  <2>1. CASE h = g
    <3>1. Len(store'[h]) = Len(store[g]) + 1
      BY <1>5, <1>7, <2>1
    <3> QED  BY <1>5, <1>6, <1>7, <2>1, <3>1
  <2>2. CASE h # g
    BY <1>7, <2>2
  <2> QED  BY <2>1, <2>2
<1> QED  BY <1>1, <1>3, <1>4, <1>7, <1>8

\* Only one row is new.
LEMMA StillDistinct ==
  ASSUME PageInv, NEW g \in Groups, NEW m \in Nat, Page!Stored(g, m), \A k \in 1 .. Len(store[g]) : store[g][k] # m
  PROVE  \A h \in Groups : Distinct(store'[h])
<1> SUFFICES ASSUME NEW h \in Groups, NEW i \in 1 .. Len(store'[h]), NEW j \in 1 .. Len(store'[h]), store'[h][i] = store'[h][j]
             PROVE  i = j
  BY DEF Distinct
<1>1. Distinct(store[h])
  BY DEF PageInv, StoredOnce
<1>2. /\ \/ i \in 1 .. Len(store[h]) /\ store'[h][i] = store[h][i]
         \/ h = g /\ i = Len(store[g]) + 1 /\ store'[h][i] = m
      /\ \/ j \in 1 .. Len(store[h]) /\ store'[h][j] = store[h][j]
         \/ h = g /\ j = Len(store[g]) + 1 /\ store'[h][j] = m
  BY StoredStep DEF PageInv
<1> QED  BY <1>1, <1>2 DEF Distinct

LEMMA StillUnsent ==
  ASSUME PageInv, NEW g \in Groups, NEW m \in Nat, Page!Stored(g, m), NEW x, x # m, Unsent(x, store, asked, push),
         \A s \in Tabs : asked'[s].kind = "load" => asked'[s] = asked[s]
  PROVE  Unsent(x, store', asked', push')
<1>1. \A h \in Groups : \A k \in 1 .. Len(store'[h]) : store'[h][k] # x
  <2>1. \A h \in Groups : \A k \in 1 .. Len(store'[h]) :
          \/ k \in 1 .. Len(store[h]) /\ store'[h][k] = store[h][k]
          \/ store'[h][k] = m
    BY StoredStep DEF PageInv
  <2>2. \A h \in Groups : \A k \in 1 .. Len(store[h]) : store[h][k] # x
    BY DEF Unsent
  <2> QED  BY <2>1, <2>2
<1>2. \A p \in push' : p[2] # x
  BY StoredStep DEF PageInv, Unsent
<1> QED  BY <1>1, <1>2 DEF Unsent

LEMMA OtherKeepsPage ==
  ASSUME PageInv, LinkKnown, NEW g \in Groups, Page!OtherSays(g)
  PROVE  PageInv'
<1> DEFINE n == Page!New
<1>1. /\ said' = Append(said, "other") /\ Page!Stored(g, n) /\ PageShape
      /\ fresh' = IF Page!Settled /\ g = cur THEN fresh \cup {n} ELSE fresh
      /\ UNCHANGED << cur, view, me, asAgent, lines, asked, socks, link >>
  BY DEF Page!OtherSays, PageInv
<1>2. /\ said' \in Seq(Who) /\ n \in Nat /\ n \notin Texts /\ Texts' = Texts \cup {n} /\ said'[n] = "other"
      /\ \A m \in Texts : said'[m] = said[m]
  BY <1>1, NewText DEF Who
<1> HIDE DEF n
<1>3. /\ store' \in [Groups -> Seq(Nat)] /\ push' \subseteq Nat \X Nat
      /\ \A h \in Groups : \A k \in 1 .. Len(store'[h]) : (k \in 1 .. Len(store[h]) /\ store'[h][k] = store[h][k]) \/ store'[h][k] = n
      /\ push \subseteq push' /\ \A p \in push' : p \in push \/ p[2] = n
      /\ \A i \in DOMAIN socks : socks[i].open /\ socks[i].group = g => << i, n >> \in push'
  <2>1. PageShape /\ Page!Stored(g, n) /\ n \in Nat
    BY <1>1, <1>2
  <2>2. \A h \in Groups : \A k \in 1 .. Len(store'[h]) :
          \/ k \in 1 .. Len(store[h]) /\ store'[h][k] = store[h][k]
          \/ h = g /\ k = Len(store[g]) + 1 /\ store'[h][k] = n
    BY <2>1, StoredStep
  <2>3. /\ store' \in [Groups -> Seq(Nat)] /\ push' \subseteq Nat \X Nat
        /\ push \subseteq push' /\ \A p \in push' : p \in push \/ p[2] = n
        /\ \A i \in DOMAIN socks : socks[i].open /\ socks[i].group = g => << i, n >> \in push'
    BY <2>1, StoredStep
  <2> QED  BY <2>2, <2>3
<1>4. PageShape'
  BY <1>1, <1>2, <1>3 DEF PageShape
<1>5. OnlySaid'
  BY <1>1, <1>2, <1>3 DEF PageInv, OnlySaid
<1>6. StoredOnce'
  <2>1. \A k \in 1 .. Len(store[g]) : store[g][k] # n
    BY <1>2 DEF PageInv, OnlySaid
  <2>2. \A h \in Groups : Distinct(store'[h])
    BY <1>1, <1>2, <2>1, StillDistinct
  <2> QED  BY <1>1, <2>2 DEF PageInv, StoredOnce
<1>7. Underway'
  <2>1. \A s \in Tabs : Waits(asked[s]) => Unsent(asked[s].text, store', asked', push')
    <3> SUFFICES ASSUME NEW s \in Tabs, Waits(asked[s]) PROVE Unsent(asked[s].text, store', asked', push')
      OBVIOUS
    <3>1. asked[s].text \in Texts /\ Unsent(asked[s].text, store, asked, push)
      BY DEF PageInv, Underway, OnItsWay, Carries, Waits
    <3> QED  BY <1>1, <1>2, <3>1, StillUnsent
  <2> QED  BY <1>1, <1>2, <2>1 DEF PageInv, Underway, OnItsWay
<1>8. OwnOnce'
  BY <1>1, <1>2 DEF PageInv, OwnOnce
<1>9. Due'
  BY <1>1, <1>2 DEF PageInv, Due, Page!Settled
<1>10. Page!OthersAreShown'
  <2>1. CASE Page!Settled /\ g = cur
    <3>1. link \in DOMAIN socks /\ socks[link].open /\ socks[link].group = g
      BY <1>1, <2>1 DEF Page!Settled, LinkKnown
    <3>2. << link, n >> \in push'
      BY <1>3, <3>1
    <3> QED  BY <1>1, <1>3, <2>1, <3>1, <3>2 DEF PageInv, Page!OthersAreShown
  <2>2. CASE ~(Page!Settled /\ g = cur)
    BY <1>1, <1>3, <2>2 DEF PageInv, Page!OthersAreShown
  <2> QED  BY <2>1, <2>2
<1> QED  BY <1>4, <1>5, <1>6, <1>7, <1>8, <1>9, <1>10 DEF PageInv

\* A text is said: it waits to be sent, and stands at the end of the page or nowhere.
LEMMA SayingKeepsPage ==
  ASSUME PageInv, NEW s \in Tabs, NEW w \in {"me", "agent", "file"}, NEW c \in Request,
         said' = Append(said, w), asked' = [asked EXCEPT ![s] = c],
         Waits(c), c.text = Page!New, c.file => w = "file", ~c.file => w # "file",
         lines' = Append(lines, Page!New) \/ lines' = lines,
         UNCHANGED << store, cur, view, me, asAgent, socks, push, fresh >>
  PROVE  PageInv'
<1> DEFINE n == Page!New
<1>1. /\ said' \in Seq(Who) /\ n \in Nat /\ n \notin Texts /\ Texts' = Texts \cup {n} /\ said'[n] = w
      /\ \A m \in Texts : said'[m] = said[m]
  BY NewText DEF Who, PageInv
<1>2. c.text = n /\ (lines' = Append(lines, n) \/ lines' = lines) /\ PageShape
  BY DEF PageInv
<1> HIDE DEF n
<1>3. /\ asked'[s] = c /\ \A x \in Tabs : x # s => asked'[x] = asked[x]
      /\ \A x \in Tabs : asked'[x].kind = "load" => asked'[x] = asked[x]
  BY <1>2 DEF PageShape, Waits
<1>4. lines' \in Seq(Nat) /\ \A k \in 1 .. Len(lines') : lines'[k] \in Texts \cup {n}
  <2>1. \A k \in 1 .. Len(lines) : lines[k] \in Texts
    BY DEF PageInv, OnlySaid
  <2>2. CASE lines' = lines
    BY <1>2, <2>1, <2>2 DEF PageShape
  <2>3. CASE lines' = Append(lines, n)
    BY <1>1, <1>2, <2>1, <2>3, PutOnPage
  <2> QED  BY <1>2, <2>2, <2>3
<1>5. PageShape'
  BY <1>1, <1>2, <1>4 DEF PageShape
<1>6. OnlySaid'
  <2>1. OnlySaid /\ store' = store /\ push' = push
    BY DEF PageInv
  <2>2. \A x \in Tabs : asked'[x].kind = "load" => \A k \in 1 .. Len(asked'[x].rows) : asked'[x].rows[k] \in Texts
    BY <1>3, <2>1 DEF OnlySaid
  <2> QED  BY <1>1, <1>4, <2>1, <2>2 DEF OnlySaid
<1>7. StoredOnce'
  BY <1>3 DEF PageInv, StoredOnce
<1>8. Once(lines', n) /\ \A m \in Texts : Once(lines, m) => Once(lines', m)
  <2>1. \A k \in 1 .. Len(lines) : lines[k] # n
    BY <1>1 DEF PageInv, OnlySaid
  <2>2. CASE lines' = lines
    BY <2>1, <2>2 DEF Once
  <2>3. CASE lines' = Append(lines, n)
    <3>1. Once(lines', n)
      BY <1>1, <1>2, <2>1, <2>3, PutOnPage DEF Once
    <3>2. \A m \in Texts : Once(lines, m) => Once(lines', m)
      BY <1>1, <1>2, <2>3, PutOnPage
    <3> QED  BY <3>1, <3>2
  <2> QED  BY <1>2, <2>2, <2>3
<1>9. Underway'
  <2>1. \A x \in Tabs : x # s /\ Carries(asked[x]) => asked[x].text \in Texts
    BY DEF PageInv, Underway, OnItsWay
  <2>2. \A m : Unsent(m, store, asked, push) => Unsent(m, store', asked', push')
    BY <1>3 DEF Unsent
  <2>3. Unsent(n, store, asked, push)
    BY <1>1 DEF PageInv, OnlySaid, Unsent
  <2>4. ASSUME NEW x \in Tabs, x # s, Carries(asked[x])
        PROVE  /\ asked[x].text \in Texts' /\ said'[asked[x].text] # "other"
               /\ \A r \in Tabs : r # x /\ Carries(asked'[r]) => asked'[r].text # asked[x].text
               /\ Waits(asked[x]) => Unsent(asked[x].text, store', asked', push')
               /\ Waits(asked[x]) /\ ~asked[x].file => said'[asked[x].text] # "file" /\ Once(lines', asked[x].text)
               /\ (asked[x].kind = "sent" \/ asked[x].file) => said'[asked[x].text] # "me"
    <3>1. /\ asked[x].text \in Texts /\ asked[x].text # n /\ said'[asked[x].text] = said[asked[x].text]
      BY <1>1, <2>1, <2>4
    <3>2. \A r \in Tabs : r # x /\ Carries(asked'[r]) => asked'[r].text # asked[x].text
      BY <1>2, <1>3, <2>4, <3>1 DEF PageInv, Underway, OnItsWay
    <3> QED  BY <1>1, <1>8, <2>2, <2>4, <3>1, <3>2 DEF PageInv, Underway, OnItsWay
  <2>5. /\ n \in Texts' /\ said'[n] # "other" /\ Unsent(n, store', asked', push') /\ Once(lines', n)
        /\ \A r \in Tabs : r # s /\ Carries(asked'[r]) => asked'[r].text # n
    BY <1>1, <1>3, <1>8, <2>1, <2>2, <2>3
  <2>6. ~c.file => said'[n] # "file"
    BY <1>1
  <2>7. c.kind # "sent" /\ (c.file => said'[n] # "me")
    BY <1>1 DEF Waits
  <2> SUFFICES ASSUME NEW x \in Tabs, Carries(asked'[x]) PROVE OnItsWay(x)'
    BY DEF Underway
  <2>8. CASE x = s
    BY <1>2, <1>3, <2>5, <2>6, <2>7, <2>8 DEF OnItsWay
  <2>9. CASE x # s
    <3>1. asked'[x] = asked[x] /\ Carries(asked[x])
      BY <1>3, <2>9
    <3> QED  BY <2>4, <2>9, <3>1 DEF OnItsWay
  <2> QED  BY <2>8, <2>9
<1>10. OwnOnce'
  BY <1>1, <1>8 DEF PageInv, OwnOnce
<1>11. Due' /\ Page!OthersAreShown'
  <2>1. \A m \in fresh : m \in Texts' /\ said'[m] = "other"
    BY <1>1 DEF PageInv, Due
  <2>2. \A x \in Tabs : asked'[x] = asked[x] \/ asked'[x].kind \notin {"open", "load"}
    BY <1>3 DEF Waits
  <2>3. Range(lines) \subseteq Range(lines')
    BY <1>1, <1>2, PutOnPage
  <2> QED  BY <2>1, <2>2, <2>3, StillDue DEF PageInv, Due
<1> QED  BY <1>5, <1>6, <1>7, <1>9, <1>10, <1>11 DEF PageInv

LEMMA SendKeepsPage ==
  ASSUME PageInv, NEW s \in Tabs, Page!SendText(s) \/ Page!SendFile(s)
  PROVE  PageInv'
<1>0. Page!New \in Nat /\ PageShape
  BY DEF Page!New, PageInv, PageShape
<1>1. CASE Page!SendText(s)
  <2> DEFINE c == [kind |-> "send", group |-> cur, text |-> Page!New, file |-> FALSE]
             d == [kind |-> "upload", text |-> Page!New, file |-> FALSE]
             w == IF asAgent THEN "agent" ELSE "me"
  <2>1. /\ cur # NoGroup /\ said' = Append(said, w) /\ lines' = Append(lines, Page!New)
        /\ asked' = [asked EXCEPT ![s] = c] \/ asked' = [asked EXCEPT ![s] = d]
        /\ UNCHANGED << store, cur, view, me, asAgent, socks, push, fresh >>
    BY <1>1 DEF Page!SendText
  <2>2. w \in {"me", "agent", "file"} /\ w # "file"
    OBVIOUS
  <2>3. c \in Request /\ Waits(c) /\ c.text = Page!New /\ ~c.file
    BY <1>0, <2>1 DEF Request, Sends, Waits, PageShape
  <2>4. d \in Request /\ Waits(d) /\ d.text = Page!New /\ ~d.file
    BY <1>0 DEF Request, Uploads, Waits
  <2> HIDE DEF c, d, w
  <2>5. CASE asked' = [asked EXCEPT ![s] = c]
    BY <2>1, <2>2, <2>3, <2>5, SayingKeepsPage
  <2>6. CASE asked' = [asked EXCEPT ![s] = d]
    BY <2>1, <2>2, <2>4, <2>6, SayingKeepsPage
  <2> QED  BY <2>1, <2>5, <2>6
<1>2. CASE Page!SendFile(s)
  <2> DEFINE c == [kind |-> "upload", text |-> Page!New, file |-> TRUE]
  <2>1. /\ said' = Append(said, "file") /\ asked' = [asked EXCEPT ![s] = c]
        /\ UNCHANGED << lines, store, cur, view, me, asAgent, socks, push, fresh >>
    BY <1>2 DEF Page!SendFile
  <2>2. c \in Request /\ Waits(c) /\ c.text = Page!New /\ c.file
    BY <1>0 DEF Request, Uploads, Waits
  <2> HIDE DEF c
  <2> QED  BY <2>1, <2>2, SayingKeepsPage
<1> QED  BY <1>1, <1>2

\* A text that was said has another sayer now.
LEMMA Retold ==
  ASSUME PageShape, NEW m \in Texts, NEW w \in Who, said' = [said EXCEPT ![m] = w]
  PROVE  said' \in Seq(Who) /\ Texts' = Texts /\ said'[m] = w /\ \A x \in Texts : x # m => said'[x] = said[x]
BY DEF PageShape, Texts

LEMMA UploadKeepsPage ==
  ASSUME PageInv, NEW s \in Tabs, Page!Uploaded(s)
  PROVE  PageInv'
<1> DEFINE m == asked[s].text
           f == asked[s].file
           c == IF cur = NoGroup THEN Page!Idle ELSE [kind |-> "send", group |-> cur, text |-> m, file |-> f]
           w == IF asAgent THEN "agent" ELSE IF f THEN "file" ELSE "me"
<1>1. /\ asked[s].kind = "upload" /\ Waits(asked[s]) /\ Carries(asked[s]) /\ PageShape
      /\ asked' = [asked EXCEPT ![s] = c] /\ said' = [said EXCEPT ![m] = w]
      /\ UNCHANGED << store, cur, view, me, asAgent, lines, socks, push, fresh >>
  BY DEF Page!Uploaded, PageInv, Waits, Carries, PageShape
<1>2. /\ m \in Texts /\ m \in Nat /\ f \in BOOLEAN /\ said[m] # "other" /\ Unsent(m, store, asked, push)
      /\ ~f => Once(lines, m)
      /\ \A x \in Tabs : x # s /\ Carries(asked[x]) => asked[x].text # m
  BY <1>1, RequestFields DEF PageInv, Underway, OnItsWay, PageShape
<1>3. w \in Who /\ w # "other" /\ (w = "me" => ~f) /\ (w = "file" => f)
  BY <1>2 DEF Who
<1>4. /\ c \in Request /\ c.kind \notin {"open", "load", "sent"}
      /\ Carries(c) => c.text = m /\ c.file = f
  <2>1. CASE cur = NoGroup
    BY <2>1 DEF Request, Page!Idle, Carries
  <2>2. CASE cur # NoGroup
    BY <1>1, <1>2, <2>2 DEF Request, Sends, Carries, PageShape
  <2> QED  BY <2>1, <2>2
<1> HIDE DEF m, f, c, w
<1>5. /\ said' \in Seq(Who) /\ Texts' = Texts /\ said'[m] = w
      /\ \A x \in Texts : x # m => said'[x] = said[x]
  BY <1>1, <1>2, <1>3, Retold
<1>6. /\ asked'[s] = c /\ \A x \in Tabs : x # s => asked'[x] = asked[x]
      /\ \A x \in Tabs : asked'[x].kind = "load" => asked'[x] = asked[x]
  BY <1>1, <1>4 DEF PageShape
<1>7. PageShape'
  BY <1>1, <1>4, <1>5 DEF PageShape
<1>8. OnlySaid' /\ StoredOnce'
  BY <1>1, <1>5, <1>6 DEF PageInv, OnlySaid, StoredOnce
<1>9. Underway'
  <2>1. \A x : Unsent(x, store, asked, push) => Unsent(x, store', asked', push')
    BY <1>1, <1>6 DEF Unsent
  <2>2. ASSUME NEW x \in Tabs, x # s, Carries(asked[x])
        PROVE  /\ asked[x].text \in Texts' /\ said'[asked[x].text] # "other"
               /\ \A r \in Tabs : r # x /\ Carries(asked'[r]) => asked'[r].text # asked[x].text
               /\ Waits(asked[x]) => Unsent(asked[x].text, store', asked', push')
               /\ Waits(asked[x]) /\ ~asked[x].file => said'[asked[x].text] # "file" /\ Once(lines', asked[x].text)
               /\ (asked[x].kind = "sent" \/ asked[x].file) => said'[asked[x].text] # "me"
    <3>1. /\ asked[x].text \in Texts /\ asked[x].text # m /\ said'[asked[x].text] = said[asked[x].text]
      BY <1>2, <1>5, <2>2 DEF PageInv, Underway, OnItsWay
    <3>2. \A r \in Tabs : r # x /\ Carries(asked'[r]) => asked'[r].text # asked[x].text
      BY <1>4, <1>6, <2>2, <3>1 DEF PageInv, Underway, OnItsWay
    <3> QED  BY <1>1, <1>5, <2>1, <2>2, <3>1, <3>2 DEF PageInv, Underway, OnItsWay
  <2>3. \A r \in Tabs : r # s /\ Carries(asked'[r]) => asked'[r].text # m
    BY <1>2, <1>6
  <2>4. Unsent(m, store', asked', push') /\ said'[m] # "other"
    BY <1>2, <1>3, <1>5, <2>1
  <2>5. ~f => said'[m] # "file" /\ Once(lines, m)
    BY <1>2, <1>3, <1>5
  <2>6. f => said'[m] # "me"
    BY <1>3, <1>5
  <2> SUFFICES ASSUME NEW x \in Tabs, Carries(asked'[x]) PROVE OnItsWay(x)'
    BY DEF Underway
  <2>8. CASE x = s
    BY <1>1, <1>2, <1>4, <1>5, <1>6, <2>3, <2>4, <2>5, <2>6, <2>8 DEF OnItsWay
  <2>9. CASE x # s
    <3>1. asked'[x] = asked[x] /\ Carries(asked[x])
      BY <1>1, <1>5, <1>6, <2>9
    <3> QED  BY <2>2, <2>9, <3>1 DEF OnItsWay
  <2> QED  BY <2>8, <2>9
<1>10. OwnOnce'
  BY <1>1, <1>2, <1>3, <1>5 DEF PageInv, OwnOnce
<1>11. Due' /\ Page!OthersAreShown'
  <2>1. \A x \in fresh : x \in Texts' /\ said'[x] = "other"
    BY <1>2, <1>5 DEF PageInv, Due
  <2>2. \A x \in Tabs : asked'[x] = asked[x] \/ asked'[x].kind \notin {"open", "load"}
    BY <1>4, <1>6
  <2> QED  BY <1>1, <2>1, <2>2, StillDue DEF PageInv, Due
<1> QED  BY <1>7, <1>8, <1>9, <1>10, <1>11 DEF PageInv

LEMMA ServedKeepsPage ==
  ASSUME PageInv, NEW s \in Tabs, Page!SendServed(s)
  PROVE  PageInv'
<1> DEFINE m == asked[s].text
           f == asked[s].file
           g == asked[s].group
           c == IF f /\ store' # store THEN [kind |-> "sent", text |-> m] ELSE Page!Idle
<1>1. /\ Waits(asked[s]) /\ Carries(asked[s]) /\ PageShape /\ g \in Groups
      /\ asked' = [asked EXCEPT ![s] = c]
      /\ Page!Stored(g, m) \/ UNCHANGED << store, push >>
      /\ UNCHANGED << said, cur, view, me, asAgent, lines, socks, fresh >>
  BY RequestFields DEF Page!SendServed, PageInv, Waits, Carries, PageShape
<1>2. /\ m \in Texts /\ m \in Nat /\ said[m] # "other" /\ Unsent(m, store, asked, push)
      /\ f => said[m] # "me"
      /\ \A x \in Tabs : x # s /\ Carries(asked[x]) => asked[x].text # m
  BY <1>1, RequestFields DEF PageInv, Underway, OnItsWay, PageShape
<1>3. /\ c \in Request /\ c.kind \in {"sent", "idle"}
      /\ c.kind = "sent" => c.text = m /\ f /\ store' # store
  BY <1>2 DEF Request, Sents, Page!Idle
<1> HIDE DEF c, f, g, m
<1>4. /\ asked'[s] = c /\ \A x \in Tabs : x # s => asked'[x] = asked[x]
      /\ \A x \in Tabs : asked'[x].kind = "load" => asked'[x] = asked[x]
      /\ \A x \in Tabs : Waits(asked'[x]) => x # s
  BY <1>1, <1>3 DEF PageShape, Waits
<1>5. /\ store' \in [Groups -> Seq(Nat)] /\ push' \subseteq Nat \X Nat /\ push \subseteq push'
      /\ \A p \in push' : p \in push \/ p[2] = m
      /\ \A h \in Groups : \A k \in 1 .. Len(store'[h]) : (k \in 1 .. Len(store[h]) /\ store'[h][k] = store[h][k]) \/ store'[h][k] = m
  <2>1. CASE Page!Stored(g, m)
    BY <1>1, <1>2, <2>1, StoredStep
  <2>2. CASE UNCHANGED << store, push >>
    BY <1>1, <2>2 DEF PageShape
  <2> QED  BY <1>1, <2>1, <2>2
<1>6. PageShape'
  BY <1>1, <1>3, <1>5 DEF PageShape
<1>7. Texts' = Texts
  BY <1>1 DEF Texts
<1>8. OnlySaid'
  <2>1. \A h \in Groups : \A k \in 1 .. Len(store'[h]) : store'[h][k] \in Texts
    BY <1>2, <1>5 DEF PageInv, OnlySaid
  <2>2. \A p \in push' : p[2] \in Texts
    BY <1>2, <1>5 DEF PageInv, OnlySaid
  <2> QED  BY <1>1, <1>4, <1>7, <2>1, <2>2 DEF PageInv, OnlySaid
<1>9. StoredOnce'
  <2>1. \A k \in 1 .. Len(store[g]) : store[g][k] # m
    BY <1>1, <1>2 DEF Unsent
  <2>2. \A h \in Groups : Distinct(store'[h])
    <3>1. CASE Page!Stored(g, m)
      BY <1>1, <1>2, <2>1, <3>1, StillDistinct
    <3>2. CASE UNCHANGED << store, push >>
      BY <3>2 DEF PageInv, StoredOnce
    <3> QED  BY <1>1, <3>1, <3>2
  <2> QED  BY <1>4, <2>2 DEF PageInv, StoredOnce
<1>10. Underway'
  <2>1. ASSUME NEW x \in Tabs, x # s, Carries(asked[x])
        PROVE  /\ asked[x].text \in Texts' /\ said'[asked[x].text] # "other"
               /\ \A r \in Tabs : r # x /\ Carries(asked'[r]) => asked'[r].text # asked[x].text
               /\ Waits(asked[x]) => Unsent(asked[x].text, store', asked', push')
               /\ Waits(asked[x]) /\ ~asked[x].file => said'[asked[x].text] # "file" /\ Once(lines', asked[x].text)
               /\ (asked[x].kind = "sent" \/ asked[x].file) => said'[asked[x].text] # "me"
    <3>1. asked[x].text \in Texts /\ asked[x].text # m
      BY <1>2, <2>1 DEF PageInv, Underway, OnItsWay
    <3>2. \A r \in Tabs : r # x /\ Carries(asked'[r]) => asked'[r].text # asked[x].text
      BY <1>3, <1>4, <2>1, <3>1 DEF PageInv, Underway, OnItsWay, Carries
    <3>3. Waits(asked[x]) => Unsent(asked[x].text, store', asked', push')
      <4> SUFFICES ASSUME Waits(asked[x]) PROVE Unsent(asked[x].text, store', asked', push')
        OBVIOUS
      <4>1. Unsent(asked[x].text, store, asked, push)
        BY <2>1 DEF PageInv, Underway, OnItsWay
      <4> QED  BY <1>4, <1>5, <3>1, <4>1 DEF Unsent
    <3> QED  BY <1>1, <1>7, <2>1, <3>1, <3>2, <3>3 DEF PageInv, Underway, OnItsWay
  <2>2. \A r \in Tabs : r # s /\ Carries(asked'[r]) => asked'[r].text # m
    BY <1>2, <1>4
  <2>3. Carries(c) => c.kind = "sent" /\ ~Waits(c) /\ c.text = m /\ said[m] # "me"
    BY <1>2, <1>3 DEF Carries, Waits
  <2> SUFFICES ASSUME NEW x \in Tabs, Carries(asked'[x]) PROVE OnItsWay(x)'
    BY DEF Underway
  <2>8. CASE x = s
    BY <1>1, <1>2, <1>4, <1>7, <2>2, <2>3, <2>8 DEF OnItsWay
  <2>9. CASE x # s
    <3>1. asked'[x] = asked[x] /\ Carries(asked[x])
      BY <1>1, <1>4, <1>7, <2>9
    <3> QED  BY <2>1, <2>9, <3>1 DEF OnItsWay
  <2> QED  BY <2>8, <2>9
<1>11. OwnOnce'
  BY <1>1, <1>7 DEF PageInv, OwnOnce
<1>12. Due' /\ Page!OthersAreShown'
  <2>1. \A x \in fresh : x \in Texts' /\ said'[x] = "other"
    BY <1>1, <1>7 DEF PageInv, Due
  <2>2. \A x \in Tabs : asked'[x] = asked[x] \/ asked'[x].kind \notin {"open", "load"}
    BY <1>3, <1>4
  <2> QED  BY <1>1, <1>5, <2>1, <2>2, StillDue DEF PageInv, Due
<1> QED  BY <1>6, <1>8, <1>9, <1>10, <1>11, <1>12 DEF PageInv

-----------------------------------------------------------------------------
LEMMA LinkStays == PageShape /\ LinkKnown /\ [Page!Next]_(Page!wvars) => LinkKnown'
<1> SUFFICES ASSUME PageShape, LinkKnown, [Page!Next]_(Page!wvars) PROVE LinkKnown'
  OBVIOUS
<1>1. CASE link' = link /\ DOMAIN socks' = DOMAIN socks
  BY <1>1 DEF LinkKnown
<1>2. CASE link' = 0
  BY <1>2 DEF LinkKnown
<1>3. CASE \E s \in Tabs : Page!InfoAnswered(s) /\ ~UNCHANGED << socks, link >>
  <2>1. PICK c : socks' = Append(socks, c) /\ link' = Len(socks) + 1 /\ socks \in Seq(Sock)
    BY <1>3 DEF Page!InfoAnswered, PageShape
  <2>2. Len(socks) \in Nat /\ DOMAIN Append(socks, c) = 1 .. Len(socks) + 1
    BY <2>1
  <2> QED  BY <2>1, <2>2 DEF LinkKnown
<1>4. CASE UNCHANGED Page!wvars
  BY <1>4 DEF LinkKnown, Page!wvars
<1>5. CASE Page!Next
  <2>1. CASE \E s, r \in Tabs : s # r /\ Page!Opened(s, r)
    BY <1>2, <2>1 DEF Page!Opened
  <2>2. CASE \E s \in Tabs : Page!InfoAnswered(s)
    <3> QED  BY <1>1, <1>3, <2>2
  <2>3. CASE \E i \in DOMAIN socks : Page!Drop(i)
    <3>1. link' = link /\ DOMAIN socks' = DOMAIN socks
      BY <2>3 DEF Page!Drop
    <3> QED  BY <1>1, <3>1
  <2>4. CASE ~(\E s, r \in Tabs : s # r /\ Page!Opened(s, r)) /\ ~(\E s \in Tabs : Page!InfoAnswered(s))
             /\ ~(\E i \in DOMAIN socks : Page!Drop(i))
    <3>1. link' = link /\ socks' = socks
      BY <1>5, <2>4 DEF Page!Next, Page!OtherSays, Page!OpenGroup, Page!Reload, Page!LoadServed, Page!LoadRendered,
         Page!SendText, Page!SendFile, Page!Uploaded, Page!SendServed, Page!FileShown, Page!CloseGroup,
         Page!SwitchIdentity, Page!Pushed
    <3> QED  BY <1>1, <3>1
  <2> QED  BY <2>1, <2>2, <2>3, <2>4
<1> QED  BY <1>4, <1>5

\* However loads, pushes and several connections overtake each other in a group window
\* (group_chat.js), a text the user said as himself is on the page at most once, and
\* what others say after it was loaded and connected is on the page or on its way.
THEOREM GroupPageHolds == Page!Spec => []GroupPage
<1>1. Page!Init => PageInv /\ LinkKnown
  BY PageStarts DEF Page!Init, LinkKnown
<1>2. PageInv /\ LinkKnown /\ [Page!Next]_(Page!wvars) => PageInv' /\ LinkKnown'
  <2> SUFFICES ASSUME PageInv, LinkKnown, [Page!Next]_(Page!wvars) PROVE PageInv'
    BY LinkStays DEF PageInv
  <2>1. ASSUME NEW g \in Groups, Page!OtherSays(g) PROVE PageInv'
    BY <2>1, OtherKeepsPage
  <2>2. ASSUME NEW g \in Groups, NEW s \in Tabs, Page!OpenGroup(g, s) PROVE PageInv'
    BY <2>2, OpenKeepsPage
  <2>3. ASSUME NEW s \in Tabs, NEW r \in Tabs, s # r, Page!Opened(s, r) PROVE PageInv'
    BY <2>3, OpenedKeepsPage
  <2>4. ASSUME NEW s \in Tabs,
               \/ Page!InfoAnswered(s) \/ Page!Reload(s) \/ Page!LoadServed(s) \/ Page!LoadRendered(s)
               \/ Page!SendText(s) \/ Page!SendFile(s) \/ Page!Uploaded(s) \/ Page!SendServed(s) \/ Page!FileShown(s)
        PROVE  PageInv'
    BY <2>4, InfoKeepsPage, ReloadKeepsPage, RowsKeepPage, RenderedKeepsPage, SendKeepsPage, UploadKeepsPage,
       ServedKeepsPage, FileKeepsPage
  <2>5. ASSUME Page!CloseGroup \/ Page!SwitchIdentity \/ (\E i \in DOMAIN socks : Page!Drop(i)) PROVE PageInv'
    BY <2>5, CloseKeepsPage
  <2>6. ASSUME NEW p \in push, Page!Pushed(p[1], p[2]) PROVE PageInv'
    BY <2>6, PushedKeepsPage
  <2>7. CASE UNCHANGED Page!wvars
    <3>1. UNCHANGED << said, store, cur, view, me, asAgent, lines, asked, socks, push, fresh >>
      BY <2>7 DEF Page!wvars
    <3>2. PageShape'
      BY <3>1 DEF PageInv, PageShape
    <3>3. Due' /\ Page!OthersAreShown'
      BY <3>1, StillDue DEF PageInv, Due, Texts
    <3>4. OnlySaid' /\ StoredOnce' /\ Underway' /\ OwnOnce'
      BY <3>1, QuietStep, PageAsIs
    <3> QED  BY <3>2, <3>3, <3>4 DEF PageInv
  <2> QED  BY <2>1, <2>2, <2>3, <2>4, <2>5, <2>6, <2>7 DEF Page!Next
<1>3. PageInv => GroupPage
  BY PageClaims
<1> QED  BY <1>1, <1>2, <1>3, PTL DEF Page!Spec

-----------------------------------------------------------------------------
(* The chat window *)

ChatAgent == Contacts \cup {NoAgent}
ChatCid == ChatIds \cup {0}
ChatText == [conv: ChatIds, sender: {"user", "assistant", "result", "missed"}]
ChatBubble == [peer: ChatAgent, how: {"page", "push", "temp", "sent", "failed", "reply"}, id: Nat]
ChatWin == [agent: ChatAgent, cid: ChatCid, offset: Nat, more: BOOLEAN, loading: BOOLEAN, last: Nat,
            seen: SUBSET Nat]
ChatAsk == [kind: {"idle", "lookup", "check", "page", "more", "send"},
            stage: {"none", "asked", "working", "answered", "failed"},
            cid: ChatCid, agent: ChatAgent, offset: Nat, ids: Seq(Nat)]

ChatShape ==
  /\ peer \in [ChatIds -> ChatAgent] /\ texts \in Seq(ChatText) /\ queue \in Seq(1 .. Len(texts))
  /\ win \in ChatWin /\ bubbles \in Seq(ChatBubble) /\ asks \in [ChatSlots -> ChatAsk]

\* The rows of a conversation
RowsOf(c) == {i \in 1 .. Len(texts) : texts[i].conv = c}

\* The ids of a page name rows of its conversation.
IdsFit(c) == \A k \in 1 .. Len(c.ids) : c.ids[k] \in 1 .. Len(texts) /\ texts[c.ids[k]].conv = c.cid

\* Who asks about a conversation is its agent, and, but for a lookup, the one of the window.
AskFits(c) ==
  /\ c.kind # "idle" => c.agent # NoAgent
  /\ c.kind # "idle" /\ c.cid # 0 => peer[c.cid] = c.agent
  /\ c.kind \in {"check", "page", "more", "send"} => c.agent = win.agent
  /\ c.kind \in {"check", "page", "more"} => c.cid # 0 /\ IdsFit(c)
  /\ c.kind = "send" /\ c.stage \in {"working", "answered"} => c.cid # 0

\* A window of a conversation is one with its agent, and rows belong to somebody.
WinFits ==
  /\ win.cid # 0 => win.agent # NoAgent /\ peer[win.cid] = win.agent
  /\ win.seen \subseteq 1 .. Len(texts)
  /\ \A i \in 1 .. Len(texts) : peer[texts[i].conv] # NoAgent

\* A bubble is somebody's, a temporary one belongs to a request of its agent.
Holding ==
  {b \in ChatBubble : /\ b.peer # NoAgent
                      /\ b.how = "temp" => b.id \in ChatSlots /\ asks[b.id].kind = "send"
                                           /\ asks[b.id].agent = b.peer}

ChatInv ==
  /\ ChatShape /\ WinFits
  /\ \A s \in ChatSlots : AskFits(asks[s])
  /\ bubbles \in Seq(Holding)

\* What OwnBubbles admits to the window after a step
Own ==
  {b \in ChatBubble : \/ b.peer = win'.agent
                      \/ win.agent = win'.agent /\ \E j \in 1 .. Len(bubbles) : bubbles[j] = b}

OwnStep == win'.cid # 0 => bubbles' \in Seq(Own)

\* A sequence of members of a set
LEMMA InSeq ==
  ASSUME NEW T, NEW q \in Seq(T), NEW G, \A i \in 1 .. Len(q) : q[i] \in G
  PROVE  q \in Seq(G)
<1>1. Len(q) \in Nat /\ q = [i \in 1 .. Len(q) |-> q[i]]
  OBVIOUS
<1>2. q \in [1 .. Len(q) -> G]
  BY <1>1
<1> QED  BY <1>1, <1>2, SeqDef

LEMMA OldIsOwn == ChatShape /\ win'.agent = win.agent => bubbles \in Seq(Own)
<1> SUFFICES ASSUME ChatShape, win'.agent = win.agent PROVE bubbles \in Seq(Own)
  OBVIOUS
<1>1. bubbles \in Seq(ChatBubble)
  BY DEF ChatShape
<1>2. \A i \in 1 .. Len(bubbles) : bubbles[i] \in Own
  BY <1>1 DEF Own
<1> QED  BY <1>1, <1>2, InSeq

\* The size of a set, as the chat window takes it
LEMMA SameSize == ASSUME NEW S PROVE Talk!Cardinality(S) = Cardinality(S)
BY DEF Talk!Cardinality, Cardinality

\* A rank that is taken is taken by one of the set.
LEMMA NthIsIn ==
  ASSUME NEW S, NEW k, NEW i \in S, Talk!Cardinality({j \in S : j < i}) = k - 1
  PROVE  /\ Talk!Nth(S, k) \in S
         /\ Talk!Cardinality({j \in S : j < Talk!Nth(S, k)}) = k - 1
<1> DEFINE Taken(x) == x \in S /\ Talk!Cardinality({j \in S : j < x}) = k - 1
<1>1. Taken(i)
  OBVIOUS
<1>2. Talk!Nth(S, k) = CHOOSE x : Taken(x)
  BY DEF Talk!Nth
<1> HIDE DEF Taken
<1>3. Taken(Talk!Nth(S, k))
  BY <1>1, <1>2
<1> QED  BY <1>3 DEF Taken

LEMMA RowsAre ==
  ASSUME texts \in Seq(ChatText), NEW c
  PROVE  /\ RowsOf(c) \in SUBSET Nat /\ RowsOf(c) \in SUBSET (1 .. Len(texts)) /\ IsFiniteSet(RowsOf(c))
         /\ Cardinality(RowsOf(c)) \in 0 .. Len(texts) /\ Len(texts) \in Nat
<1>1. Len(texts) \in Nat /\ RowsOf(c) \in SUBSET (1 .. Len(texts)) /\ 1 .. Len(texts) \in SUBSET Nat
  BY DEF RowsOf
<1>2. IsFiniteSet(1 .. Len(texts)) /\ Cardinality(1 .. Len(texts)) = Len(texts)
  <2>1. \A n \in Nat : IsFiniteSet(1 .. n) /\ Cardinality(1 .. n) = n
    BY FS_Interval
  <2> QED  BY <1>1, <2>1
<1>3. IsFiniteSet(RowsOf(c)) /\ Cardinality(RowsOf(c)) <= Len(texts)
  BY <1>1, <1>2, FS_Subset
<1>4. Cardinality(RowsOf(c)) \in Nat
  BY <1>3, FS_CardinalityType
<1> QED  BY <1>1, <1>3, <1>4

\* How many of a set of numbers come before a number
RankIn(S, i) == Cardinality({j \in S : j < i})

\* A page is the part of a set whose ranks lie between two bounds.
IsCut(page, S, last) ==
  \E first \in Nat \ {0} :
    /\ page \in Seq(S) /\ Len(page) = (IF last - first + 1 < 0 THEN 0 ELSE last - first + 1)
    /\ \A k \in 1 .. Len(page) : RankIn(S, page[k]) = first + k - 2

LEMMA PageRanks ==
  ASSUME texts \in Seq(ChatText), NEW c \in ChatIds, NEW limit \in Nat, NEW offset \in Nat
  PROVE  IsCut(Talk!Page(c, limit, offset), RowsOf(c), Cardinality(RowsOf(c)) - offset)
<1> SUFFICES ASSUME NEW own, own = RowsOf(c), NEW last, last = Cardinality(own) - offset,
                    NEW page, page = Talk!Page(c, limit, offset)
             PROVE  IsCut(page, own, last)
  OBVIOUS
<1> DEFINE first == IF last > limit THEN last - limit + 1 ELSE 1
           list == [k \in 1 .. last - first + 1 |-> Talk!Nth(own, first + k - 1)]
           Below(i) == {j \in own : j < i}
<1>1. IsFiniteSet(own) /\ own \in SUBSET Nat
  BY RowsAre
<1>2. Cardinality(own) \in Nat /\ Talk!Cardinality(own) = Cardinality(own)
  BY <1>1, FS_CardinalityType, SameSize
<1>3. last \in Int /\ first \in Nat \ {0} /\ last <= Cardinality(own) /\ last = Cardinality(own) - offset
  BY <1>2
<1>4. list = page
  <2>1. last = Talk!Cardinality(own) - offset /\ own = RowsOf(c)
    BY <1>2
  <2> QED  BY <2>1, Zenon DEF Talk!Page, RowsOf
<1>5. ASSUME NEW k \in 1 .. last - first + 1
      PROVE  list[k] \in own /\ Cardinality(Below(list[k])) = first + k - 2
  <2>1. list[k] = Talk!Nth(own, first + k - 1)
    OBVIOUS
  <2> HIDE DEF first, list
  <2> DEFINE n == first + k - 1
  <2>2. n \in Int /\ n - 1 \in 0 .. Cardinality(own) - 1 /\ n - 1 = first + k - 2 /\ k \in Int
    BY <1>2, <1>3
  <2> HIDE DEF n
  <2>3. PICK i \in own : Cardinality(Below(i)) = n - 1
    BY <1>1, <2>2, RanksTaken
  <2>4. Talk!Cardinality(Below(i)) = n - 1
    <3> HIDE DEF Below
    <3> QED  BY <2>3, SameSize
  <2>5. Talk!Nth(own, n) \in own /\ Talk!Cardinality(Below(Talk!Nth(own, n))) = n - 1
    BY <2>4, NthIsIn
  <2>6. Cardinality(Below(Talk!Nth(own, n))) = n - 1
    <3> HIDE DEF Below
    <3> QED  BY <2>5, SameSize
  <2>7. list[k] = Talk!Nth(own, n)
    BY <2>1 DEF n
  <2> HIDE DEF Below
  <2> QED  BY <2>2, <2>5, <2>6, <2>7
<1>6. last - first + 1 \in Int
  BY <1>3
<1> HIDE DEF first, Below
<1>7. list \in [1 .. last - first + 1 -> own]
  BY <1>5
<1>8. list \in Seq(own) /\ Len(list) = (IF last - first + 1 < 0 THEN 0 ELSE last - first + 1)
  <2>1. CASE last - first + 1 \in Nat
    <3> HIDE DEF list
    <3> QED  BY <1>7, <2>1, SeqDef
  <2>2. CASE last - first + 1 < 0
    <3>1. 1 .. last - first + 1 = 1 .. 0
      BY <1>6, <2>2
    <3> HIDE DEF list
    <3>2. list \in [1 .. 0 -> own]
      BY <1>7, <3>1
    <3> QED  BY <2>2, <3>2, SeqDef
  <2> HIDE DEF list
  <2> QED  BY <1>6, <2>1, <2>2
<1>9. \A k \in 1 .. Len(list) : Cardinality(Below(list[k])) = first + k - 2
  <2> SUFFICES ASSUME NEW k \in 1 .. Len(list) PROVE Cardinality(Below(list[k])) = first + k - 2
    OBVIOUS
  <2> HIDE DEF list
  <2>1. k \in 1 .. last - first + 1
    BY <1>6, <1>8
  <2> QED  BY <1>5, <2>1
<1> HIDE DEF list
<1> QED  BY <1>3, <1>4, <1>8, <1>9 DEF IsCut, Below, RankIn

\* The page of a conversation names rows of it.
LEMMA PageFits ==
  ASSUME texts \in Seq(ChatText), NEW c \in ChatIds, NEW limit \in Nat, NEW offset \in Nat
  PROVE  /\ Talk!Page(c, limit, offset) \in Seq(Nat)
         /\ \A k \in 1 .. Len(Talk!Page(c, limit, offset)) :
              LET i == Talk!Page(c, limit, offset)[k] IN i \in 1 .. Len(texts) /\ texts[i].conv = c
<1> DEFINE page == Talk!Page(c, limit, offset)
<1>1. page \in Seq(RowsOf(c))
  BY PageRanks DEF IsCut
<1> HIDE DEF page
<1>2. Len(page) \in Nat /\ \A k \in 1 .. Len(page) : page[k] \in RowsOf(c)
  BY <1>1
<1>3. page \in Seq(Nat)
  <2>1. RowsOf(c) \in SUBSET Nat
    BY RowsAre
  <2>2. \A k \in 1 .. Len(page) : page[k] \in Nat
    BY <1>2, <2>1
  <2> QED  BY <1>1, <2>2, InSeq
<1>4. \A k \in 1 .. Len(page) : page[k] \in 1 .. Len(texts) /\ texts[page[k]].conv = c
  BY <1>2 DEF RowsOf
<1> QED  BY <1>3, <1>4 DEF page

\* A slot that is free
LEMMA NextIsFree ==
  ASSUME Talk!Free # {}
  PROVE  Talk!NextSlot \in ChatSlots /\ asks[Talk!NextSlot].kind = "idle"
<1>1. Talk!Free \in SUBSET Nat
  BY ChatAssumption DEF Talk!Free
<1>2. PICK s \in Talk!Free : \A r \in Talk!Free : s <= r
  BY <1>1, LeastNumber
<1>3. Talk!NextSlot \in Talk!Free
  BY <1>2 DEF Talk!NextSlot
<1> QED  BY <1>3 DEF Talk!Free

\* What a request that is sent looks like
LEMMA AskIs ==
  ASSUME ChatShape, NEW s \in ChatSlots, NEW k \in {"lookup", "check", "page", "more", "send"},
         NEW c \in ChatCid, NEW o \in Nat, win'.agent \in ChatAgent, Talk!Ask(s, k, c, o)
  PROVE  /\ asks' \in [ChatSlots -> ChatAsk] /\ \A r \in ChatSlots \ {s} : asks'[r] = asks[r]
         /\ asks'[s].kind = k /\ asks'[s].stage = "asked" /\ asks'[s].cid = c
         /\ asks'[s].agent = win'.agent /\ asks'[s].offset = o /\ asks'[s].ids = << >>
<1> DEFINE new == [Talk!Idle EXCEPT !.kind = k, !.stage = "asked", !.cid = c, !.agent = win'.agent, !.offset = o]
<1>1. asks' = [asks EXCEPT ![s] = new]
  BY Zenon DEF Talk!Ask
<1>2. Talk!Idle \in ChatAsk /\ Talk!Idle.ids = << >>
  BY DEF Talk!Idle, ChatAsk, ChatCid, ChatAgent
<1>3. /\ new \in ChatAsk /\ new.kind = k /\ new.stage = "asked" /\ new.cid = c
      /\ new.agent = win'.agent /\ new.offset = o /\ new.ids = << >>
  BY <1>2 DEF ChatAsk
<1> HIDE DEF new
<1> QED  BY <1>1, <1>3 DEF ChatShape

LEMMA DoneIs ==
  ASSUME ChatShape, NEW s \in ChatSlots, Talk!Done(s)
  PROVE  /\ asks' \in [ChatSlots -> ChatAsk] /\ \A r \in ChatSlots \ {s} : asks'[r] = asks[r]
         /\ asks'[s].kind = "idle"
<1>1. asks' = [asks EXCEPT ![s] = Talk!Idle]
  BY DEF Talk!Done
<1>2. Talk!Idle \in ChatAsk /\ Talk!Idle.kind = "idle"
  BY DEF Talk!Idle, ChatAsk, ChatCid, ChatAgent
<1> QED  BY <1>1, <1>2 DEF ChatShape

\* Conversations keep their agent and rows their conversation.
RowsStay ==
  /\ \A c \in ChatIds : peer[c] # NoAgent => peer'[c] = peer[c]
  /\ \A i \in 1 .. Len(texts) : i \in 1 .. Len(texts') /\ texts'[i].conv = texts[i].conv

\* A step of one request leaves the others as they are.
LEMMA AsksKept ==
  ASSUME ChatInv, RowsStay, NEW s, \A r \in ChatSlots \ {s} : asks'[r] = asks[r],
         win'.agent = win.agent \/ \A r \in ChatSlots \ {s} : asks[r].kind \in {"idle", "lookup"},
         s \in ChatSlots => AskFits(asks[s])'
  PROVE  \A r \in ChatSlots : AskFits(asks[r])'
<1> SUFFICES ASSUME NEW r \in ChatSlots \ {s} PROVE AskFits(asks[r])'
  OBVIOUS
<1>1. asks'[r] = asks[r] /\ AskFits(asks[r]) /\ asks[r] \in ChatAsk
  BY DEF ChatInv, ChatShape
<1>2. asks[r].kind \in {"check", "page", "more"} => IdsFit(asks[r])'
  BY <1>1 DEF AskFits, IdsFit, RowsStay
<1>3. asks[r].kind # "idle" /\ asks[r].cid # 0 => peer'[asks[r].cid] = asks[r].agent
  BY <1>1 DEF AskFits, RowsStay, ChatAsk, ChatCid
<1>4. asks[r].kind \in {"check", "page", "more", "send"} => asks[r].agent = win'.agent
  BY <1>1 DEF AskFits
<1> QED  BY <1>1, <1>2, <1>3, <1>4 DEF AskFits

LEMMA HoldingKept ==
  ASSUME ChatInv, NEW s, \A r \in ChatSlots \ {s} : asks'[r] = asks[r],
         s \in ChatSlots /\ asks[s].kind = "send" => asks'[s].kind = "send" /\ asks'[s].agent = asks[s].agent
  PROVE  Holding \subseteq Holding' /\ bubbles \in Seq(Holding')
<1>1. Holding \subseteq Holding'
  BY DEF Holding
<1>2. bubbles \in Seq(Holding)
  BY DEF ChatInv
<1>3. \A i \in 1 .. Len(bubbles) : bubbles[i] \in Holding'
  BY <1>1, <1>2
<1> QED  BY <1>1, <1>2, <1>3, InSeq

\* Steps of a request that leave the bubbles and the agent of the window alone
LEMMA RequestStep ==
  ASSUME ChatInv, RowsStay, ChatShape', WinFits', NEW s,
         \A r \in ChatSlots \ {s} : asks'[r] = asks[r],
         s \in ChatSlots /\ asks[s].kind = "send" => asks'[s].kind = "send" /\ asks'[s].agent = asks[s].agent,
         s \in ChatSlots => AskFits(asks[s])', bubbles' = bubbles, win'.agent = win.agent
  PROVE  ChatInv' /\ OwnStep
<1>1. \A r \in ChatSlots : AskFits(asks[r])'
  BY AsksKept
<1>2. bubbles' \in Seq(Holding')
  BY HoldingKept
<1>3. bubbles \in Seq(Own)
  BY OldIsOwn DEF ChatInv
<1> QED  BY <1>1, <1>2, <1>3 DEF ChatInv, OwnStep

\* Rows that are added, and results that are marked as missed
LEMMA RowAdded ==
  ASSUME ChatShape, NEW t \in ChatText, texts' = Append(texts, t)
  PROVE  /\ texts' \in Seq(ChatText) /\ Len(texts') = Len(texts) + 1 /\ Len(texts) \in Nat
         /\ \A i \in 1 .. Len(texts) : i \in 1 .. Len(texts') /\ texts'[i] = texts[i]
         /\ queue \in Seq(1 .. Len(texts'))
<1>1. texts \in Seq(ChatText) /\ queue \in Seq(1 .. Len(texts))
  BY DEF ChatShape
<1>2. /\ texts' \in Seq(ChatText) /\ Len(texts') = Len(texts) + 1 /\ Len(texts) \in Nat
      /\ \A i \in 1 .. Len(texts) : i \in 1 .. Len(texts') /\ texts'[i] = texts[i]
  BY <1>1
<1>3. \A j \in 1 .. Len(queue) : queue[j] \in 1 .. Len(texts')
  BY <1>1, <1>2
<1> QED  BY <1>1, <1>2, <1>3, InSeq

LEMMA RowAddedFits ==
  ASSUME ChatShape, WinFits, NEW t \in ChatText, texts' = Append(texts, t), win' = win,
         \A c \in ChatIds : peer[c] # NoAgent => peer'[c] = peer[c], peer'[t.conv] # NoAgent
  PROVE  WinFits'
<1>1. win \in ChatWin /\ texts \in Seq(ChatText)
  BY DEF ChatShape
<1>2. Len(texts) \in Nat /\ Len(texts') = Len(texts) + 1 /\ texts'[Len(texts) + 1] = t
      /\ \A i \in 1 .. Len(texts) : texts'[i] = texts[i] /\ texts[i] \in ChatText
  BY <1>1
<1>3. win.cid # 0 => win.agent # NoAgent /\ peer'[win.cid] = win.agent
  BY <1>1 DEF WinFits, ChatWin, ChatCid
<1>4. win.seen \subseteq 1 .. Len(texts')
  BY <1>2 DEF WinFits
<1>5. ASSUME NEW i \in 1 .. Len(texts') PROVE peer'[texts'[i].conv] # NoAgent
  <2>1. CASE i = Len(texts) + 1
    BY <1>2, <2>1
  <2>2. CASE i # Len(texts) + 1
    <3>1. i \in 1 .. Len(texts)
      BY <1>2, <2>2
    <3> QED  BY <1>2, <3>1 DEF WinFits, ChatText
  <2> QED  BY <2>1, <2>2
<1> QED  BY <1>3, <1>4, <1>5 DEF WinFits

LEMMA ServeSendKeeps == ASSUME ChatInv, NEW s \in ChatSlots, Talk!ServeSend(s) PROVE ChatInv' /\ OwnStep
<1> DEFINE given == asks[s].cid
           c == IF given = 0 THEN Talk!NewConv ELSE given
<1>1. ChatShape /\ WinFits /\ AskFits(asks[s]) /\ asks[s] \in ChatAsk /\ asks[s].kind = "send"
  BY DEF ChatInv, ChatShape, Talk!ServeSend
<1>2. given = 0 => Talk!NewConv \in ChatIds /\ peer[Talk!NewConv] = NoAgent
  <2> SUFFICES ASSUME given = 0 PROVE Talk!NewConv \in ChatIds /\ peer[Talk!NewConv] = NoAgent
    OBVIOUS
  <2> DEFINE fresh0 == {d \in ChatIds : peer[d] = NoAgent}
  <2>1. fresh0 \in SUBSET Nat /\ fresh0 # {}
    BY ChatAssumption DEF Talk!ServeSend
  <2>2. PICK d \in fresh0 : \A e \in fresh0 : d <= e
    <3> HIDE DEF fresh0
    <3> QED  BY <2>1, LeastNumber
  <2> QED  BY <2>2 DEF Talk!NewConv
<1>3. c \in ChatIds /\ c # 0
  BY <1>1, <1>2, ChatAssumption DEF ChatAsk, ChatCid
<1>4. /\ peer' = [peer EXCEPT ![c] = IF given = 0 THEN asks[s].agent ELSE @]
      /\ texts' = Append(texts, [conv |-> c, sender |-> "user"])
      /\ asks' = [asks EXCEPT ![s].stage = "working", ![s].cid = c]
      /\ UNCHANGED << queue, linked, win, bubbles >>
  BY DEF Talk!ServeSend
<1> HIDE DEF c
<1>5. [conv |-> c, sender |-> "user"] \in ChatText
  BY <1>3 DEF ChatText
<1>6. /\ asks' \in [ChatSlots -> ChatAsk] /\ \A r \in ChatSlots \ {s} : asks'[r] = asks[r]
      /\ asks'[s].kind = "send" /\ asks'[s].agent = asks[s].agent /\ asks'[s].cid = c
  BY <1>1, <1>3, <1>4 DEF ChatShape, ChatAsk, ChatCid
<1>7. peer' \in [ChatIds -> ChatAgent] /\ peer'[c] = asks[s].agent
      /\ \A d \in ChatIds : peer[d] # NoAgent => peer'[d] = peer[d]
  <2>1. given # 0 => peer[c] = asks[s].agent
    BY <1>1 DEF AskFits, c
  <2>2. given = 0 => peer[c] = NoAgent
    BY <1>2 DEF c
  <2> QED  BY <1>1, <1>3, <1>4, <2>1, <2>2 DEF ChatShape, ChatAsk
<1>8. ChatShape' /\ RowsStay
  BY <1>1, <1>4, <1>5, <1>6, <1>7, RowAdded DEF ChatShape, RowsStay
<1>9. WinFits'
  <2>1. peer'[c] # NoAgent
    BY <1>1, <1>7 DEF AskFits
  <2> QED  BY <1>1, <1>4, <1>5, <1>7, <2>1, RowAddedFits
<1>10. AskFits(asks[s])'
  BY <1>1, <1>3, <1>4, <1>6, <1>7 DEF AskFits
<1> QED  BY <1>4, <1>6, <1>8, <1>9, <1>10, RequestStep

LEMMA AnswerSendKeeps == ASSUME ChatInv, NEW s \in ChatSlots, Talk!AnswerSend(s) PROVE ChatInv' /\ OwnStep
<1>1. /\ ChatShape /\ WinFits /\ AskFits(asks[s]) /\ asks[s] \in ChatAsk
      /\ asks[s].kind = "send" /\ asks[s].stage = "working"
      /\ texts' = Append(texts, [conv |-> asks[s].cid, sender |-> "assistant"])
      /\ asks' = [asks EXCEPT ![s].stage = "answered"]
      /\ UNCHANGED << peer, queue, linked, win, bubbles >>
  BY DEF ChatInv, ChatShape, Talk!AnswerSend
<1>2. [conv |-> asks[s].cid, sender |-> "assistant"] \in ChatText
  BY <1>1 DEF ChatText, AskFits, ChatAsk, ChatCid
<1>3. /\ asks' \in [ChatSlots -> ChatAsk] /\ \A r \in ChatSlots \ {s} : asks'[r] = asks[r]
      /\ asks'[s].kind = "send" /\ asks'[s].agent = asks[s].agent /\ asks'[s].cid = asks[s].cid
  BY <1>1 DEF ChatShape, ChatAsk
<1>4. ChatShape' /\ RowsStay
  BY <1>1, <1>2, <1>3, RowAdded DEF ChatShape, RowsStay
<1>5. WinFits'
  <2>1. peer'[asks[s].cid] # NoAgent /\ UNCHANGED << peer, win >>
    BY <1>1 DEF AskFits
  <2> QED  BY <1>1, <1>2, <2>1, RowAddedFits
<1>6. AskFits(asks[s])'
  BY <1>1, <1>3 DEF AskFits
<1> QED  BY <1>1, <1>3, <1>4, <1>5, <1>6, RequestStep

LEMMA ServeMessagesKeeps == ASSUME ChatInv, NEW s \in ChatSlots, Talk!ServeMessages(s) PROVE ChatInv' /\ OwnStep
<1> DEFINE limit == IF asks[s].kind = "check" THEN 1 ELSE ChatPage
           page == Talk!Page(asks[s].cid, limit, asks[s].offset)
<1>1. /\ ChatShape /\ WinFits /\ AskFits(asks[s]) /\ asks[s] \in ChatAsk
      /\ asks[s].kind \in {"check", "page", "more"}
      /\ asks' = [asks EXCEPT ![s].stage = "answered", ![s].ids = page]
      /\ UNCHANGED << peer, texts, queue, linked, win, bubbles >>
  BY DEF ChatInv, ChatShape, Talk!ServeMessages
<1>2. /\ page \in Seq(Nat)
      /\ \A k \in 1 .. Len(page) : page[k] \in 1 .. Len(texts) /\ texts[page[k]].conv = asks[s].cid
  <2>1. texts \in Seq(ChatText) /\ asks[s].cid \in ChatIds /\ asks[s].offset \in Nat /\ limit \in Nat
    BY <1>1, ChatAssumption DEF ChatShape, ChatAsk, ChatCid, AskFits
  <2> HIDE DEF limit
  <2> QED  BY <2>1, PageFits
<1> HIDE DEF page
<1>3. /\ asks' \in [ChatSlots -> ChatAsk] /\ \A r \in ChatSlots \ {s} : asks'[r] = asks[r]
      /\ asks'[s].kind = asks[s].kind /\ asks'[s].agent = asks[s].agent /\ asks'[s].cid = asks[s].cid
      /\ asks'[s].ids = page
  BY <1>1, <1>2 DEF ChatShape, ChatAsk
<1>4. ChatShape' /\ RowsStay /\ WinFits'
  BY <1>1, <1>3 DEF ChatShape, RowsStay, WinFits
<1>5. AskFits(asks[s])'
  BY <1>1, <1>2, <1>3 DEF AskFits, IdsFit
<1> QED  BY <1>1, <1>3, <1>4, <1>5, RequestStep

LEMMA ServeLookupKeeps == ASSUME ChatInv, NEW s \in ChatSlots, Talk!ServeLookup(s) PROVE ChatInv' /\ OwnStep
<1> DEFINE own == {c \in ChatIds : peer[c] = asks[s].agent}
<1>1. /\ ChatShape /\ WinFits /\ AskFits(asks[s]) /\ asks[s] \in ChatAsk /\ asks[s].kind = "lookup"
      /\ UNCHANGED << peer, texts, queue, linked, win, bubbles >>
  BY DEF ChatInv, ChatShape, Talk!ServeLookup
<1>2. PICK c \in (IF own = {} THEN {0} ELSE own) : asks' = [asks EXCEPT ![s].stage = "answered", ![s].cid = c]
  BY DEF Talk!ServeLookup
<1>3. c \in ChatCid /\ (c # 0 => peer[c] = asks[s].agent)
  BY <1>2 DEF ChatCid
<1>4. /\ asks' \in [ChatSlots -> ChatAsk] /\ \A r \in ChatSlots \ {s} : asks'[r] = asks[r]
      /\ asks'[s].kind = "lookup" /\ asks'[s].agent = asks[s].agent /\ asks'[s].cid = c
  BY <1>1, <1>2, <1>3 DEF ChatShape, ChatAsk
<1>5. ChatShape' /\ RowsStay /\ WinFits'
  BY <1>1, <1>4 DEF ChatShape, RowsStay, WinFits
<1>6. AskFits(asks[s])'
  BY <1>1, <1>3, <1>4 DEF AskFits
<1> QED  BY <1>1, <1>4, <1>5, <1>6, RequestStep

LEMMA FailKeeps == ASSUME ChatInv, NEW s \in ChatSlots, Talk!Fail(s) PROVE ChatInv' /\ OwnStep
<1>1. /\ ChatShape /\ WinFits /\ AskFits(asks[s]) /\ asks[s] \in ChatAsk
      /\ asks' = [asks EXCEPT ![s].stage = "failed"]
      /\ UNCHANGED << peer, texts, queue, linked, win, bubbles >>
  BY DEF ChatInv, ChatShape, Talk!Fail
<1>2. /\ asks' \in [ChatSlots -> ChatAsk] /\ \A r \in ChatSlots \ {s} : asks'[r] = asks[r]
      /\ asks'[s].kind = asks[s].kind /\ asks'[s].agent = asks[s].agent /\ asks'[s].cid = asks[s].cid
      /\ asks'[s].ids = asks[s].ids /\ asks'[s].stage = "failed"
  BY <1>1 DEF ChatShape, ChatAsk
<1>3. ChatShape' /\ RowsStay /\ WinFits'
  BY <1>1, <1>2 DEF ChatShape, RowsStay, WinFits
<1>4. AskFits(asks[s])'
  BY <1>1, <1>2 DEF AskFits, IdsFit
<1> QED  BY <1>1, <1>2, <1>3, <1>4, RequestStep

\* Steps that touch no request
LEMMA NoRequestStep ==
  ASSUME ChatInv, RowsStay, ChatShape', WinFits', asks' = asks, bubbles' = bubbles, win'.agent = win.agent
  PROVE  ChatInv' /\ OwnStep
<1>1. -1 \notin ChatSlots
  BY ChatAssumption
<1> QED  BY <1>1, RequestStep

LEMMA InsertMessageKeeps == ASSUME ChatInv, NEW c \in ChatIds, Talk!InsertMessage(c) PROVE ChatInv' /\ OwnStep
<1>1. /\ ChatShape /\ WinFits
      /\ texts' = Append(texts, [conv |-> c, sender |-> IF linked THEN "result" ELSE "missed"])
      /\ queue' = IF linked THEN Append(queue, Len(texts) + 1) ELSE queue
      /\ peer[c] # NoAgent /\ UNCHANGED << peer, win, bubbles, asks >>
  BY DEF ChatInv, Talk!InsertMessage
<1>2. [conv |-> c, sender |-> IF linked THEN "result" ELSE "missed"] \in ChatText
  BY DEF ChatText
<1>3. /\ texts' \in Seq(ChatText) /\ Len(texts') = Len(texts) + 1 /\ Len(texts) \in Nat /\ RowsStay
      /\ queue \in Seq(1 .. Len(texts'))
  BY <1>1, <1>2, RowAdded DEF RowsStay
<1>4. Len(texts) + 1 \in 1 .. Len(texts')
  BY <1>3
<1>5. queue' \in Seq(1 .. Len(texts'))
  <2> DEFINE Ids == 1 .. Len(texts')
  <2>1. queue \in Seq(Ids) /\ Len(texts) + 1 \in Ids
    BY <1>3, <1>4
  <2> HIDE DEF Ids
  <2>2. Append(queue, Len(texts) + 1) \in Seq(Ids)
    BY <2>1
  <2> QED  BY <1>1, <2>1, <2>2 DEF Ids
<1>6. ChatShape' /\ WinFits'
  BY <1>1, <1>2, <1>3, <1>5, RowAddedFits DEF ChatShape
<1> QED  BY <1>1, <1>3, <1>6, NoRequestStep

LEMMA WsCloseKeeps == ASSUME ChatInv, Talk!WsClose PROVE ChatInv' /\ OwnStep
<1> DEFINE now == [i \in 1 .. Len(texts) |-> IF \E j \in 1 .. Len(queue) : queue[j] = i
                                             THEN [texts[i] EXCEPT !.sender = "missed"] ELSE texts[i]]
<1>1. ChatShape /\ WinFits /\ texts' = now /\ queue' = << >> /\ UNCHANGED << peer, win, bubbles, asks >>
  BY DEF ChatInv, Talk!WsClose
<1>2. texts \in Seq(ChatText) /\ Len(texts) \in Nat
  BY <1>1 DEF ChatShape
<1>3. \A i \in 1 .. Len(texts) : now[i] \in ChatText /\ now[i].conv = texts[i].conv
  <2> SUFFICES ASSUME NEW i \in 1 .. Len(texts) PROVE now[i] \in ChatText /\ now[i].conv = texts[i].conv
    OBVIOUS
  <2>1. texts[i] \in ChatText
    BY <1>2
  <2>2. now[i] \in {[texts[i] EXCEPT !.sender = "missed"], texts[i]}
    OBVIOUS
  <2> HIDE DEF now
  <2> QED  BY <2>1, <2>2 DEF ChatText
<1>4. now \in Seq(ChatText) /\ Len(now) = Len(texts)
  BY <1>2, <1>3
<1> HIDE DEF now
<1>5. ChatShape' /\ RowsStay
  BY <1>1, <1>3, <1>4 DEF ChatShape, RowsStay
<1>6. WinFits'
  <2>1. win.seen \subseteq 1 .. Len(texts') /\ Len(texts') = Len(texts)
    BY <1>1, <1>4 DEF WinFits
  <2>2. \A i \in 1 .. Len(texts) : peer[texts'[i].conv] # NoAgent
    BY <1>1, <1>3 DEF WinFits
  <2> QED  BY <1>1, <2>1, <2>2 DEF WinFits
<1> QED  BY <1>1, <1>5, <1>6, NoRequestStep

LEMMA WsOpenKeeps == ASSUME ChatInv, Talk!WsOpen PROVE ChatInv' /\ OwnStep
<1>1. UNCHANGED << peer, texts, queue, win, bubbles, asks >>
  BY DEF Talk!WsOpen
<1>2. ChatShape' /\ WinFits' /\ RowsStay
  BY <1>1 DEF ChatInv, ChatShape, WinFits, RowsStay
<1> QED  BY <1>1, <1>2, NoRequestStep

-----------------------------------------------------------------------------
(* Steps of the window *)

LEMMA ClosedIs == Talk!Closed \in ChatWin /\ Talk!Closed.cid = 0 /\ Talk!Closed.seen = {}
BY DEF Talk!Closed, ChatWin, ChatAgent, ChatCid

\* Steps that change the window or its bubbles
LEMMA WindowStep ==
  ASSUME ChatInv, ChatShape', WinFits', UNCHANGED << peer, texts >>, NEW s,
         \A r \in ChatSlots \ {s} : asks'[r] = asks[r],
         win'.agent = win.agent \/ \A r \in ChatSlots \ {s} : asks[r].kind \in {"idle", "lookup"},
         s \in ChatSlots => AskFits(asks[s])', bubbles' \in Seq(Holding'), OwnStep
  PROVE  ChatInv' /\ OwnStep
<1>1. RowsStay
  BY DEF ChatInv, ChatShape, RowsStay
<1>2. \A r \in ChatSlots : AskFits(asks[r])'
  BY <1>1, AsksKept
<1> QED  BY <1>2 DEF ChatInv

\* A user who waits for all but lookups leaves no other request behind.
LEMMA Waited ==
  ASSUME ChatLeaves \subseteq {"lookup"}, Talk!MayLeave
  PROVE  \A r \in ChatSlots : asks[r].kind \in {"idle", "lookup"}
BY DEF Talk!MayLeave

LEMMA OpenChatKeeps ==
  ASSUME ChatInv, ChatLeaves \subseteq {"lookup"}, NEW a \in Contacts, NEW c \in ChatCid, c # 0 => peer[c] = a,
         Talk!OpenChatWindow(a, c)
  PROVE  ChatInv' /\ OwnStep
<1> DEFINE kind == IF c = 0 THEN "lookup" ELSE "check"
<1>1. /\ ChatShape
      /\ win' = [Talk!Closed EXCEPT !.agent = a, !.cid = c, !.last = win.last, !.seen = win.seen]
      /\ bubbles' = << >> /\ Talk!Ask(Talk!NextSlot, kind, c, 0) /\ UNCHANGED << peer, texts, queue, linked >>
      /\ Talk!Free # {} /\ \A r \in ChatSlots : asks[r].kind \in {"idle", "lookup"}
  BY Waited DEF ChatInv, Talk!OpenChatWindow
<1>2. PICK s \in ChatSlots : s = Talk!NextSlot
  BY <1>1, NextIsFree
<1>3. win' \in ChatWin /\ win'.agent = a /\ win'.cid = c /\ win'.seen = win.seen /\ a \in ChatAgent /\ a # NoAgent
  BY <1>1, ClosedIs, ChatAssumption DEF ChatShape, ChatWin, ChatAgent
<1>4. /\ asks' \in [ChatSlots -> ChatAsk] /\ \A r \in ChatSlots \ {s} : asks'[r] = asks[r]
      /\ asks'[s].kind = kind /\ asks'[s].stage = "asked" /\ asks'[s].cid = c
      /\ asks'[s].agent = a /\ asks'[s].ids = << >>
  BY <1>1, <1>2, <1>3, AskIs
<1>5. ChatShape' /\ WinFits'
  <2>1. WinFits
    BY DEF ChatInv
  <2> QED  BY <1>1, <1>3, <1>4, <2>1 DEF ChatShape, WinFits
<1>6. AskFits(asks[s])'
  <2>1. kind \in {"lookup", "check"} /\ (kind = "check" => c # 0) /\ UNCHANGED peer
    BY <1>1
  <2>2. IdsFit(asks[s])'
    BY <1>4 DEF IdsFit
  <2> HIDE DEF kind
  <2> QED  BY <1>3, <1>4, <2>1, <2>2 DEF AskFits
<1>7. bubbles' \in Seq(Holding') /\ OwnStep
  BY <1>1 DEF OwnStep
<1>8. UNCHANGED << peer, texts >> /\ \A r \in ChatSlots \ {s} : asks[r].kind \in {"idle", "lookup"}
  BY <1>1
<1> QED  BY <1>4, <1>5, <1>6, <1>7, <1>8, WindowStep

LEMMA CloseChatKeeps ==
  ASSUME ChatInv, ChatLeaves \subseteq {"lookup"}, Talk!CloseChatWindow
  PROVE  ChatInv' /\ OwnStep
<1>1. /\ ChatShape /\ win' = [Talk!Closed EXCEPT !.last = win.last, !.seen = win.seen]
      /\ UNCHANGED << peer, texts, queue, linked, bubbles, asks >>
      /\ \A r \in ChatSlots : asks[r].kind \in {"idle", "lookup"}
  BY Waited DEF ChatInv, Talk!CloseChatWindow
<1>2. win' \in ChatWin /\ win'.cid = 0 /\ win'.seen = win.seen /\ WinFits
  BY <1>1, ClosedIs DEF ChatInv, ChatShape, ChatWin
<1>3. ChatShape' /\ WinFits' /\ OwnStep
  BY <1>1, <1>2 DEF ChatShape, WinFits, OwnStep
<1>4. -1 \notin ChatSlots
  BY ChatAssumption
<1>5. bubbles' \in Seq(Holding')
  BY <1>1, <1>4, HoldingKept
<1> QED  BY <1>1, <1>3, <1>4, <1>5, WindowStep

LEMMA LookupKeeps == ASSUME ChatInv, NEW s \in ChatSlots, Talk!LookupAnswered(s) PROVE ChatInv' /\ OwnStep
<1>1. /\ ChatShape /\ WinFits /\ AskFits(asks[s]) /\ asks[s] \in ChatAsk /\ asks[s].kind = "lookup"
      /\ UNCHANGED << peer, texts, queue, linked, bubbles >>
  BY DEF ChatInv, ChatShape, Talk!LookupAnswered
<1>2. RowsStay
  BY <1>1 DEF RowsStay, ChatShape
<1>3. CASE Talk!Done(s) /\ UNCHANGED win
  <2>1. /\ asks' \in [ChatSlots -> ChatAsk] /\ \A r \in ChatSlots \ {s} : asks'[r] = asks[r]
        /\ asks'[s].kind = "idle"
    BY <1>1, <1>3, DoneIs
  <2>2. ChatShape' /\ WinFits' /\ AskFits(asks[s])'
    BY <1>1, <1>3, <2>1 DEF ChatShape, WinFits, AskFits
  <2> QED  BY <1>1, <1>2, <1>3, <2>1, <2>2, RequestStep
<1>4. CASE /\ win' = [win EXCEPT !.cid = asks[s].cid, !.offset = 0, !.more = TRUE]
           /\ Talk!Ask(s, "check", asks[s].cid, 0) /\ Talk!MayAdopt(s) /\ asks[s].cid # 0
  <2>1. /\ asks[s].cid \in ChatCid /\ peer[asks[s].cid] = asks[s].agent /\ asks[s].agent = win.agent
        /\ win.agent # NoAgent
    BY <1>1, <1>4 DEF AskFits, ChatAsk, Talk!MayAdopt
  <2>2. win' \in ChatWin /\ win'.agent = win.agent /\ win'.cid = asks[s].cid /\ win'.seen = win.seen /\ win.agent \in ChatAgent
    BY <1>1, <1>4, <2>1 DEF ChatShape, ChatWin
  <2>3. /\ asks' \in [ChatSlots -> ChatAsk] /\ \A r \in ChatSlots \ {s} : asks'[r] = asks[r]
        /\ asks'[s].kind = "check" /\ asks'[s].stage = "asked" /\ asks'[s].cid = asks[s].cid
        /\ asks'[s].agent = win.agent /\ asks'[s].ids = << >>
    BY <1>1, <1>4, <2>1, <2>2, AskIs
  <2>4. ChatShape' /\ WinFits'
    BY <1>1, <2>1, <2>2, <2>3 DEF ChatShape, WinFits
  <2>5. AskFits(asks[s])'
    BY <1>1, <1>4, <2>1, <2>2, <2>3 DEF AskFits, IdsFit
  <2> QED  BY <1>1, <1>2, <2>2, <2>3, <2>4, <2>5, RequestStep
<1> QED  BY <1>3, <1>4, Zenon DEF Talk!LookupAnswered

\* Bubbles of rows
LEMMA BubblesAre ==
  ASSUME ChatShape, WinFits, NEW ids \in Seq(Nat), \A k \in 1 .. Len(ids) : ids[k] \in 1 .. Len(texts),
         NEW how \in {"page", "push"}
  PROVE  /\ Talk!Bubbles(ids, how) \in Seq(ChatBubble) /\ Talk!Bubbles(ids, how) \in Seq(Holding')
         /\ (\A k \in 1 .. Len(ids) : peer[texts[ids[k]].conv] = win'.agent) => Talk!Bubbles(ids, how) \in Seq(Own)
<1> DEFINE q == Talk!Bubbles(ids, how)
<1>1. q = [k \in 1 .. Len(ids) |-> [peer |-> peer[texts[ids[k]].conv], how |-> how, id |-> ids[k]]] /\ Len(ids) \in Nat
  BY DEF Talk!Bubbles, Talk!Bubble
<1>2. ASSUME NEW k \in 1 .. Len(ids)
      PROVE  peer[texts[ids[k]].conv] \in ChatAgent \ {NoAgent} /\ ids[k] \in Nat
  <2>1. texts \in Seq(ChatText) /\ ids[k] \in 1 .. Len(texts)
    BY DEF ChatShape
  <2>2. texts[ids[k]] \in ChatText
    BY <2>1
  <2>3. texts[ids[k]].conv \in ChatIds
    BY <2>2 DEF ChatText
  <2> QED  BY <2>1, <2>3 DEF ChatShape, WinFits
<1> HIDE DEF q
<1>3. Len(q) = Len(ids) /\ \A k \in 1 .. Len(ids) : /\ q[k] \in ChatBubble /\ q[k].how = how /\ q[k].peer # NoAgent
                                                    /\ q[k].peer = peer[texts[ids[k]].conv]
  BY <1>1, <1>2 DEF ChatBubble
<1>4. q \in Seq(ChatBubble)
  BY <1>1, <1>3
<1>5. \A k \in 1 .. Len(q) : q[k] \in Holding'
  BY <1>3 DEF Holding
<1>6. (\A k \in 1 .. Len(ids) : peer[texts[ids[k]].conv] = win'.agent) => \A k \in 1 .. Len(q) : q[k] \in Own
  <2> SUFFICES ASSUME NEW k \in 1 .. Len(q), peer[texts[ids[k]].conv] = win'.agent PROVE q[k] \in Own
    BY <1>3
  <2>1. q[k] \in ChatBubble /\ q[k].peer = win'.agent
    BY <1>3
  <2> QED  BY <2>1 DEF Own
<1>7. q \in Seq(Holding')
  BY <1>4, <1>5, InSeq
<1>8. (\A k \in 1 .. Len(ids) : peer[texts[ids[k]].conv] = win'.agent) => q \in Seq(Own)
  BY <1>4, <1>6, InSeq
<1> QED  BY <1>4, <1>7, <1>8 DEF q

\* The rows of an answer are those of the window.
LEMMA AnswerIsOwn ==
  ASSUME ChatInv, NEW s \in ChatSlots, asks[s].kind \in {"check", "page", "more"}, win'.agent = win.agent
  PROVE  /\ Talk!Bubbles(asks[s].ids, "page") \in Seq(ChatBubble)
         /\ Talk!Bubbles(asks[s].ids, "page") \in Seq(Holding') /\ Talk!Bubbles(asks[s].ids, "page") \in Seq(Own)
<1>1. ChatShape /\ asks[s] \in ChatAsk /\ AskFits(asks[s])
  BY DEF ChatInv, ChatShape
<1>2. /\ asks[s].ids \in Seq(Nat) /\ asks[s].cid # 0 /\ peer[asks[s].cid] = win.agent
      /\ \A k \in 1 .. Len(asks[s].ids) : /\ asks[s].ids[k] \in 1 .. Len(texts)
                                          /\ texts[asks[s].ids[k]].conv = asks[s].cid
  BY <1>1 DEF AskFits, IdsFit, ChatAsk
<1> QED  BY <1>1, <1>2, BubblesAre DEF ChatInv

LEMMA CheckKeeps == ASSUME ChatInv, NEW s \in ChatSlots, Talk!CheckAnswered(s) PROVE ChatInv' /\ OwnStep
<1>1. /\ ChatShape /\ WinFits /\ AskFits(asks[s]) /\ asks[s] \in ChatAsk /\ asks[s].kind = "check"
      /\ UNCHANGED << peer, texts, queue, linked >>
  BY DEF ChatInv, ChatShape, Talk!CheckAnswered
<1>2. CASE Talk!Done(s) /\ UNCHANGED << win, bubbles >>
  <2>1. /\ asks' \in [ChatSlots -> ChatAsk] /\ \A r \in ChatSlots \ {s} : asks'[r] = asks[r]
        /\ asks'[s].kind = "idle"
    BY <1>1, <1>2, DoneIs
  <2>2. ChatShape' /\ WinFits' /\ AskFits(asks[s])' /\ RowsStay
    BY <1>1, <1>2, <2>1 DEF ChatShape, WinFits, AskFits, RowsStay
  <2> QED  BY <1>1, <1>2, <2>1, <2>2, RequestStep
<1>3. CASE /\ win' = [win EXCEPT !.last = IF asks[s].stage = "failed" THEN @ ELSE Talk!Latest(s)]
           /\ bubbles' = << >> /\ Talk!Ask(s, "page", asks[s].cid, 0)
  <2>1. (IF asks[s].stage = "failed" THEN win.last ELSE Talk!Latest(s)) \in Nat
    <3>1. asks[s].ids \in Seq(Nat) /\ win.last \in Nat
      BY <1>1 DEF ChatShape, ChatAsk, ChatWin
    <3>2. asks[s].ids # << >> => asks[s].ids[1] \in Nat
      BY <3>1
    <3> QED  BY <3>1, <3>2 DEF Talk!Latest
  <2>2. win' \in ChatWin /\ win'.agent = win.agent /\ win'.cid = win.cid /\ win.agent \in ChatAgent
    BY <1>1, <1>3, <2>1 DEF ChatShape, ChatWin
  <2>3. /\ asks' \in [ChatSlots -> ChatAsk] /\ \A r \in ChatSlots \ {s} : asks'[r] = asks[r]
        /\ asks'[s].kind = "page" /\ asks'[s].stage = "asked" /\ asks'[s].cid = asks[s].cid
        /\ asks'[s].agent = win.agent /\ asks'[s].ids = << >>
    BY <1>1, <1>3, <2>2, AskIs DEF ChatAsk
  <2>4. ChatShape' /\ WinFits' /\ OwnStep /\ bubbles' \in Seq(Holding')
    BY <1>1, <1>3, <2>2, <2>3 DEF ChatShape, WinFits, OwnStep
  <2>5. AskFits(asks[s])'
    BY <1>1, <2>2, <2>3 DEF AskFits, IdsFit
  <2> QED  BY <1>1, <2>2, <2>3, <2>4, <2>5, WindowStep
<1> QED  BY <1>2, <1>3, Zenon DEF Talk!CheckAnswered

LEMMA PageKeeps == ASSUME ChatInv, NEW s \in ChatSlots, Talk!PageAnswered(s) PROVE ChatInv' /\ OwnStep
<1> DEFINE ids == asks[s].ids
           q == Talk!Bubbles(ids, "page")
<1>1. /\ ChatShape /\ WinFits /\ asks[s] \in ChatAsk /\ asks[s].kind = "page"
      /\ UNCHANGED << peer, texts, queue, linked >> /\ Talk!Done(s)
  BY DEF ChatInv, ChatShape, Talk!PageAnswered
<1>2. /\ asks' \in [ChatSlots -> ChatAsk] /\ \A r \in ChatSlots \ {s} : asks'[r] = asks[r]
      /\ asks'[s].kind = "idle" /\ AskFits(asks[s])'
  BY <1>1, DoneIs DEF AskFits
<1>3. CASE UNCHANGED << win, bubbles >>
  <2>1. ChatShape' /\ WinFits' /\ RowsStay
    BY <1>1, <1>2, <1>3 DEF ChatShape, WinFits, RowsStay
  <2> QED  BY <1>1, <1>2, <1>3, <2>1, RequestStep
<1>4. CASE /\ win' = [win EXCEPT !.more = @ /\ Len(ids) >= ChatPage, !.offset = Len(ids),
                                 !.seen = {ids[i] : i \in 1 .. Len(ids)}]
           /\ bubbles' = bubbles \o q
  <2>1. ids \in Seq(Nat) /\ Len(ids) \in Nat /\ {ids[i] : i \in 1 .. Len(ids)} \subseteq Nat
    BY <1>1 DEF ChatAsk
  <2>2. win' \in ChatWin /\ win'.agent = win.agent /\ win'.cid = win.cid /\ win'.seen \subseteq 1 .. Len(texts)
    <3>1. \A i \in 1 .. Len(ids) : ids[i] \in 1 .. Len(texts)
      BY <1>1 DEF ChatInv, AskFits, IdsFit
    <3>2. win'.seen \subseteq 1 .. Len(texts)
      <4>1. win'.seen = {ids[i] : i \in 1 .. Len(ids)}
        BY <1>1, <1>4 DEF ChatShape, ChatWin
      <4> HIDE DEF ids
      <4> QED  BY <3>1, <4>1
    <3> QED  BY <1>1, <1>4, <2>1, <3>2 DEF ChatShape, ChatWin
  <2>3. q \in Seq(ChatBubble) /\ q \in Seq(Holding') /\ q \in Seq(Own)
    BY <1>1, <2>2, AnswerIsOwn
  <2>4. bubbles \in Seq(ChatBubble) /\ bubbles \in Seq(Holding') /\ bubbles \in Seq(Own)
    BY <1>1, <1>2, <2>2, HoldingKept, OldIsOwn DEF ChatShape
  <2> HIDE DEF q, ids
  <2>5. bubbles' \in Seq(ChatBubble) /\ bubbles' \in Seq(Holding') /\ bubbles' \in Seq(Own)
    BY <1>4, <2>3, <2>4
  <2>6. ChatShape' /\ WinFits' /\ OwnStep
    BY <1>1, <1>2, <2>2, <2>5 DEF ChatShape, WinFits, OwnStep
  <2> QED  BY <1>1, <1>2, <2>2, <2>5, <2>6, WindowStep
<1> QED  BY <1>3, <1>4, Zenon DEF Talk!PageAnswered, Talk!PageShown

LEMMA ScrollKeeps == ASSUME ChatInv, Talk!HandleScroll PROVE ChatInv' /\ OwnStep
<1>1. /\ ChatShape /\ WinFits /\ Talk!Free # {} /\ win.cid # 0
      /\ win' = [win EXCEPT !.loading = TRUE] /\ Talk!Ask(Talk!NextSlot, "more", win.cid, win.offset)
      /\ UNCHANGED << peer, texts, queue, linked, bubbles >>
  BY DEF ChatInv, Talk!HandleScroll, Talk!MayScroll
<1>2. PICK s \in ChatSlots : s = Talk!NextSlot /\ asks[s].kind = "idle"
  BY <1>1, NextIsFree
<1>3. /\ win' \in ChatWin /\ win'.agent = win.agent /\ win'.cid = win.cid
      /\ win.agent \in ChatAgent /\ win.cid \in ChatCid /\ win.offset \in Nat
  BY <1>1 DEF ChatShape, ChatWin
<1>4. /\ asks' \in [ChatSlots -> ChatAsk] /\ \A r \in ChatSlots \ {s} : asks'[r] = asks[r]
      /\ asks'[s].kind = "more" /\ asks'[s].stage = "asked" /\ asks'[s].cid = win.cid
      /\ asks'[s].agent = win.agent /\ asks'[s].ids = << >>
  BY <1>1, <1>2, <1>3, AskIs
<1>5. ChatShape' /\ WinFits' /\ RowsStay
  BY <1>1, <1>3, <1>4 DEF ChatShape, WinFits, RowsStay
<1>6. AskFits(asks[s])'
  BY <1>1, <1>3, <1>4 DEF AskFits, IdsFit, WinFits
<1> QED  BY <1>1, <1>2, <1>3, <1>4, <1>5, <1>6, RequestStep

LEMMA OlderKeeps == ASSUME ChatInv, NEW s \in ChatSlots, Talk!OlderAnswered(s) PROVE ChatInv' /\ OwnStep
<1> DEFINE ids == asks[s].ids
           q == Talk!Bubbles(ids, "page")
<1>1. /\ ChatShape /\ WinFits /\ asks[s] \in ChatAsk /\ asks[s].kind = "more"
      /\ UNCHANGED << peer, texts, queue, linked >> /\ Talk!Done(s)
      /\ win' = IF asks[s].stage = "failed" THEN [win EXCEPT !.loading = FALSE]
                ELSE [win EXCEPT !.loading = FALSE, !.more = @ /\ Len(ids) >= ChatPage, !.offset = @ + Len(ids)]
      /\ bubbles' = IF asks[s].stage = "failed" THEN bubbles ELSE q \o bubbles
  BY DEF ChatInv, ChatShape, Talk!OlderAnswered
<1>2. /\ asks' \in [ChatSlots -> ChatAsk] /\ \A r \in ChatSlots \ {s} : asks'[r] = asks[r]
      /\ asks'[s].kind = "idle" /\ AskFits(asks[s])'
  BY <1>1, DoneIs DEF AskFits
<1>3. Len(ids) \in Nat
  BY <1>1 DEF ChatAsk
<1>4. win' \in ChatWin /\ win'.agent = win.agent /\ win'.cid = win.cid
  <2>1. win \in ChatWin
    BY <1>1 DEF ChatShape
  <2> HIDE DEF ids
  <2>2. CASE asks[s].stage = "failed"
    BY <1>1, <2>1, <2>2 DEF ChatWin
  <2>3. CASE asks[s].stage # "failed"
    <3>1. win' = [win EXCEPT !.loading = FALSE, !.more = @ /\ Len(ids) >= ChatPage, !.offset = @ + Len(ids)]
      BY <1>1, <2>3
    <3>2. win.offset + Len(ids) \in Nat
      BY <1>3, <2>1 DEF ChatWin
    <3> DEFINE more == Len(ids) >= ChatPage
               next == win.offset + Len(ids)
    <3>3. win' = [win EXCEPT !.loading = FALSE, !.more = win.more /\ more, !.offset = next]
      BY <3>1
    <3> HIDE DEF more, next
    <3>4. (win.more /\ more) \in BOOLEAN
      OBVIOUS
    <3> QED  BY <2>1, <3>2, <3>3, <3>4 DEF ChatWin, next
  <2> QED  BY <2>2, <2>3
<1>5. q \in Seq(ChatBubble) /\ q \in Seq(Holding') /\ q \in Seq(Own)
  BY <1>1, <1>4, AnswerIsOwn
<1>6. bubbles \in Seq(ChatBubble) /\ bubbles \in Seq(Holding') /\ bubbles \in Seq(Own)
  BY <1>1, <1>2, <1>4, HoldingKept, OldIsOwn DEF ChatShape
<1> HIDE DEF q, ids
<1>7. bubbles' \in Seq(ChatBubble) /\ bubbles' \in Seq(Holding') /\ bubbles' \in Seq(Own)
  BY <1>1, <1>5, <1>6
<1>8. ChatShape' /\ WinFits' /\ OwnStep
  BY <1>1, <1>2, <1>4, <1>7 DEF ChatShape, WinFits, OwnStep
<1> QED  BY <1>1, <1>2, <1>4, <1>7, <1>8, WindowStep

\* A text is sent: bubbles that are still there, and a temporary one.
LEMMA TextSent ==
  ASSUME ChatInv, Talk!Free # {}, win.agent # NoAgent, UNCHANGED << peer, texts, queue, win >>,
         Talk!Ask(Talk!NextSlot, "send", win.cid, 0),
         NEW q, \A G : bubbles \in Seq(G) => q \in Seq(G),
         bubbles' = Append(q, Talk!Bubble(win.agent, "temp", Talk!NextSlot))
  PROVE  ChatInv' /\ OwnStep
<1>1. PICK s \in ChatSlots : s = Talk!NextSlot /\ asks[s].kind = "idle"
  BY NextIsFree
<1>2. ChatShape /\ WinFits /\ win \in ChatWin /\ win.agent \in ChatAgent /\ win.cid \in ChatCid
  BY DEF ChatInv, ChatShape, ChatWin
<1>3. /\ asks' \in [ChatSlots -> ChatAsk] /\ \A r \in ChatSlots \ {s} : asks'[r] = asks[r]
      /\ asks'[s].kind = "send" /\ asks'[s].stage = "asked" /\ asks'[s].cid = win.cid
      /\ asks'[s].agent = win.agent /\ asks'[s].ids = << >>
  BY <1>1, <1>2, AskIs
<1>4. bubbles \in Seq(ChatBubble) /\ bubbles \in Seq(Holding') /\ bubbles \in Seq(Own)
  BY <1>1, <1>2, <1>3, HoldingKept, OldIsOwn DEF ChatShape
<1>5. q \in Seq(ChatBubble) /\ q \in Seq(Holding') /\ q \in Seq(Own)
  BY <1>4
<1> DEFINE b == [peer |-> win.agent, how |-> "temp", id |-> s]
<1>6. b \in ChatBubble /\ b.how = "temp" /\ b.id = s /\ b.peer = win.agent /\ bubbles' = Append(q, b)
  BY <1>1, <1>2, ChatAssumption DEF ChatBubble, Talk!Bubble
<1> HIDE DEF b
<1>7. b \in Holding' /\ b \in Own
  BY <1>3, <1>6 DEF Holding, Own
<1>8. bubbles' \in Seq(ChatBubble) /\ bubbles' \in Seq(Holding') /\ bubbles' \in Seq(Own)
  BY <1>5, <1>6, <1>7
<1>9. ChatShape' /\ WinFits' /\ OwnStep
  BY <1>2, <1>3, <1>8 DEF ChatShape, WinFits, OwnStep
<1>10. AskFits(asks[s])'
  BY <1>2, <1>3 DEF AskFits, WinFits
<1> QED  BY <1>3, <1>8, <1>9, <1>10, WindowStep

LEMMA SendMessageKeeps == ASSUME ChatInv, Talk!SendMessage PROVE ChatInv' /\ OwnStep
BY TextSent DEF Talk!SendMessage

LEMMA RetryKeeps == ASSUME ChatInv, NEW i \in 1 .. Len(bubbles), Talk!RetrySend(i) PROVE ChatInv' /\ OwnStep
<1> DEFINE q == SubSeq(bubbles, 1, i - 1) \o SubSeq(bubbles, i + 1, Len(bubbles))
<1>1. ASSUME NEW G, bubbles \in Seq(G) PROVE q \in Seq(G)
  <2>1. Len(bubbles) \in Nat
    BY <1>1
  <2>2. SubSeq(bubbles, 1, i - 1) \in Seq(G)
    BY <1>1, <2>1, SubSeqProperties
  <2>3. SubSeq(bubbles, i + 1, Len(bubbles)) \in Seq(G)
    BY <1>1, <2>1, SubSeqProperties
  <2> QED  BY <2>2, <2>3
<1> HIDE DEF q
<1>2. bubbles' = Append(q, Talk!Bubble(win.agent, "temp", Talk!NextSlot))
  BY DEF Talk!RetrySend, q
<1> QED  BY <1>1, <1>2, TextSent DEF Talk!RetrySend

\* The bubble of a request that was answered
LEMMA Marked ==
  ASSUME ChatInv, NEW s \in ChatSlots, asks[s].kind = "send", \A r \in ChatSlots \ {s} : asks'[r] = asks[r],
         win'.agent = win.agent, NEW how \in {"sent", "failed"}
  PROVE  /\ Talk!Mark(s, how) \in Seq(ChatBubble) /\ Talk!Mark(s, how) \in Seq(Holding')
         /\ Talk!Mark(s, how) \in Seq(Own)
<1> DEFINE q == Talk!Mark(s, how)
<1>1. /\ ChatShape /\ bubbles \in Seq(ChatBubble) /\ bubbles \in Seq(Holding) /\ Len(bubbles) \in Nat
      /\ asks[s].agent = win.agent
  BY DEF ChatInv, ChatShape, AskFits
<1>2. q = [i \in 1 .. Len(bubbles) |-> IF bubbles[i].how = "temp" /\ bubbles[i].id = s
                                       THEN [peer |-> bubbles[i].peer, how |-> how, id |-> 0] ELSE bubbles[i]]
  BY DEF Talk!Mark, Talk!Bubble
<1> HIDE DEF q
<1>3. ASSUME NEW i \in 1 .. Len(bubbles) PROVE q[i] \in ChatBubble /\ q[i] \in Holding' /\ q[i] \in Own
  <2>1. bubbles[i] \in ChatBubble /\ bubbles[i] \in Holding
    BY <1>1
  <2>2. CASE bubbles[i].how = "temp" /\ bubbles[i].id = s
    <3>1. q[i] = [peer |-> bubbles[i].peer, how |-> how, id |-> 0]
      BY <1>2, <2>2
    <3>2. bubbles[i].peer = win'.agent /\ bubbles[i].peer \in ChatAgent /\ bubbles[i].peer # NoAgent
      BY <1>1, <2>1, <2>2 DEF Holding, ChatBubble
    <3>3. q[i] \in ChatBubble /\ q[i].peer = win'.agent /\ q[i].how # "temp" /\ q[i].peer # NoAgent
      BY <3>1, <3>2 DEF ChatBubble
    <3> QED  BY <3>3 DEF Holding, Own
  <2>3. CASE ~(bubbles[i].how = "temp" /\ bubbles[i].id = s)
    <3>1. q[i] = bubbles[i]
      BY <1>2, <2>3
    <3> QED  BY <2>1, <2>3, <3>1 DEF Holding, Own
  <2> QED  BY <2>2, <2>3
<1>4. Len(q) = Len(bubbles) /\ q \in Seq(ChatBubble)
  BY <1>1, <1>2, <1>3
<1>5. q \in Seq(Holding') /\ q \in Seq(Own)
  BY <1>3, <1>4, InSeq
<1> QED  BY <1>4, <1>5 DEF q

LEMMA SentKeeps == ASSUME ChatInv, NEW s \in ChatSlots, Talk!SendAnswered(s) PROVE ChatInv' /\ OwnStep
<1>1. /\ ChatShape /\ WinFits /\ AskFits(asks[s]) /\ asks[s] \in ChatAsk /\ asks[s].kind = "send"
      /\ UNCHANGED << peer, texts, queue, linked >> /\ Talk!Done(s)
      /\ asks[s].agent = win.agent /\ win.agent # NoAgent /\ win \in ChatWin
  BY DEF ChatInv, ChatShape, Talk!SendAnswered, AskFits
<1>2. /\ asks' \in [ChatSlots -> ChatAsk] /\ \A r \in ChatSlots \ {s} : asks'[r] = asks[r]
      /\ asks'[s].kind = "idle" /\ AskFits(asks[s])'
  BY <1>1, DoneIs DEF AskFits
<1>3. CASE bubbles' = Talk!Mark(s, "failed") /\ UNCHANGED win
  <2>1. bubbles' \in Seq(ChatBubble) /\ bubbles' \in Seq(Holding') /\ bubbles' \in Seq(Own)
    BY <1>1, <1>2, <1>3, Marked
  <2>2. ChatShape' /\ WinFits' /\ OwnStep
    BY <1>1, <1>2, <1>3, <2>1 DEF ChatShape, WinFits, OwnStep
  <2> QED  BY <1>1, <1>2, <1>3, <2>1, <2>2, WindowStep
<1>4. CASE /\ win' = [win EXCEPT !.cid = IF @ = 0 THEN asks[s].cid ELSE @]
           /\ bubbles' = Append(Talk!Mark(s, "sent"), Talk!Bubble(asks[s].agent, "reply", 0))
  <2>1. /\ win' \in ChatWin /\ win'.agent = win.agent /\ win'.cid = (IF win.cid = 0 THEN asks[s].cid ELSE win.cid)
        /\ win'.seen = win.seen
        /\ win.agent \in ChatAgent
    BY <1>1, <1>4 DEF ChatWin, ChatAsk
  <2>2. /\ Talk!Mark(s, "sent") \in Seq(ChatBubble) /\ Talk!Mark(s, "sent") \in Seq(Holding')
        /\ Talk!Mark(s, "sent") \in Seq(Own)
    BY <1>1, <1>2, <2>1, Marked
  <2> DEFINE b == [peer |-> asks[s].agent, how |-> "reply", id |-> 0]
             q == Talk!Mark(s, "sent")
  <2>3. b \in ChatBubble /\ b.how # "temp" /\ b.peer = win'.agent /\ b.peer # NoAgent /\ bubbles' = Append(q, b)
    BY <1>1, <1>4, <2>1 DEF ChatBubble, Talk!Bubble
  <2> HIDE DEF b, q
  <2>4. b \in Holding' /\ b \in Own
    BY <2>3 DEF Holding, Own
  <2>5. bubbles' \in Seq(ChatBubble) /\ bubbles' \in Seq(Holding') /\ bubbles' \in Seq(Own)
    BY <2>2, <2>3, <2>4 DEF q
  <2>6. ChatShape' /\ WinFits' /\ OwnStep
    BY <1>1, <1>2, <2>1, <2>5 DEF ChatShape, WinFits, OwnStep, AskFits
  <2> QED  BY <1>1, <1>2, <2>1, <2>5, <2>6, WindowStep
<1> QED  BY <1>3, <1>4, Zenon DEF Talk!SendAnswered

LEMMA NewMessageKeeps == ASSUME ChatInv, Talk!NewMessage PROVE ChatInv' /\ OwnStep
<1> DEFINE id == Head(queue)
           q == Talk!Bubbles(<< id >>, "push")
<1>1. /\ ChatShape /\ WinFits /\ queue # << >> /\ queue' = Tail(queue)
      /\ UNCHANGED << peer, texts, linked, asks >>
  BY DEF ChatInv, Talk!NewMessage
<1>2. queue' \in Seq(1 .. Len(texts')) /\ id \in 1 .. Len(texts) /\ id \in Nat
  <2> DEFINE Ids == 1 .. Len(texts)
  <2>1. queue \in Seq(Ids) /\ texts' = texts
    BY <1>1 DEF ChatShape
  <2>2. \A i \in Ids : i \in Nat
    BY <1>1 DEF ChatShape
  <2>3. Tail(queue) \in Seq(Ids) /\ id \in Ids
    <3> HIDE DEF Ids
    <3> QED  BY <1>1, <2>1
  <2> QED  BY <1>1, <2>1, <2>2, <2>3
<1>3. RowsStay /\ -1 \notin ChatSlots
  BY <1>1, ChatAssumption DEF RowsStay, ChatShape
<1>4. CASE UNCHANGED << win, bubbles >>
  <2>1. ChatShape' /\ WinFits'
    BY <1>1, <1>2, <1>4 DEF ChatShape, WinFits
  <2> QED  BY <1>1, <1>3, <1>4, <2>1, NoRequestStep
<1>5. CASE /\ win' = [win EXCEPT !.seen = @ \cup {id}] /\ bubbles' = bubbles \o q /\ ~Talk!IsForOther(id)
  <2>1. win' \in ChatWin /\ win'.agent = win.agent /\ win'.cid = win.cid /\ win'.seen = win.seen \cup {id}
    BY <1>1, <1>2, <1>5 DEF ChatShape, ChatWin
  <2>2. << id >> \in Seq(Nat) /\ Len(<< id >>) = 1 /\ << id >>[1] = id
    BY <1>2
  <2>3. win'.cid # 0 => \A k \in 1 .. Len(<< id >>) : peer[texts[<< id >>[k]].conv] = win'.agent
    BY <1>1, <1>5, <2>1, <2>2 DEF Talk!IsForOther, WinFits
  <2>4. q \in Seq(ChatBubble) /\ q \in Seq(Holding') /\ (win'.cid # 0 => q \in Seq(Own))
    <3> DEFINE ids == << id >>
    <3>1. ids \in Seq(Nat) /\ \A k \in 1 .. Len(ids) : ids[k] \in 1 .. Len(texts)
      BY <1>2, <2>2
    <3>2. q = Talk!Bubbles(ids, "push") /\ (win'.cid # 0 => \A k \in 1 .. Len(ids) : peer[texts[ids[k]].conv] = win'.agent)
      BY <2>3
    <3> HIDE DEF q, ids, id
    <3> QED  BY <1>1, <3>1, <3>2, BubblesAre
  <2>5. bubbles \in Seq(ChatBubble) /\ bubbles \in Seq(Holding') /\ bubbles \in Seq(Own)
    BY <1>1, <1>3, <2>1, HoldingKept, OldIsOwn DEF ChatShape
  <2> HIDE DEF q, id
  <2>6. bubbles' \in Seq(ChatBubble) /\ bubbles' \in Seq(Holding') /\ (win'.cid # 0 => bubbles' \in Seq(Own))
    BY <1>5, <2>4, <2>5
  <2>7. ChatShape' /\ WinFits' /\ OwnStep
    BY <1>1, <1>2, <2>1, <2>6 DEF ChatShape, WinFits, OwnStep
  <2> QED  BY <1>1, <1>3, <2>1, <2>6, <2>7, WindowStep
<1> QED  BY <1>4, <1>5, Zenon DEF Talk!NewMessage

-----------------------------------------------------------------------------
(* Windows keep apart *)

LEMMA ChatStarts == Talk!Init => ChatInv
<1> SUFFICES ASSUME Talk!Init PROVE ChatInv
  OBVIOUS
<1>1. /\ peer \in [ChatIds -> ChatAgent] /\ texts = << >> /\ queue = << >> /\ win = Talk!Closed
      /\ bubbles = << >> /\ asks = [s \in ChatSlots |-> Talk!Idle]
  BY DEF Talk!Init, ChatAgent
<1>2. Talk!Idle \in ChatAsk /\ Talk!Idle.kind = "idle"
  BY DEF Talk!Idle, ChatAsk, ChatCid, ChatAgent
<1>3. ChatShape /\ WinFits
  BY <1>1, <1>2, ClosedIs DEF ChatShape, WinFits
<1>4. \A s \in ChatSlots : AskFits(asks[s])
  BY <1>1, <1>2 DEF AskFits
<1> QED  BY <1>1, <1>3, <1>4 DEF ChatInv

LEMMA ChatSteps ==
  ASSUME ChatLeaves \subseteq {"lookup"}, ChatInv, Talk!Next
  PROVE  ChatInv' /\ OwnStep
<1>1. ASSUME NEW s \in ChatSlots, Talk!ServeSend(s) \/ Talk!AnswerSend(s) \/ Talk!ServeMessages(s)
                                  \/ Talk!ServeLookup(s) \/ Talk!Fail(s)
      PROVE  ChatInv' /\ OwnStep
  BY <1>1, ServeSendKeeps, AnswerSendKeeps, ServeMessagesKeeps, ServeLookupKeeps, FailKeeps
<1>2. ASSUME NEW s \in ChatSlots, Talk!Continuation(s) PROVE ChatInv' /\ OwnStep
  BY <1>2, LookupKeeps, CheckKeeps, PageKeeps, OlderKeeps, SentKeeps DEF Talk!Continuation
<1>3. ASSUME NEW c \in ChatIds, Talk!InsertMessage(c) PROVE ChatInv' /\ OwnStep
  BY <1>3, InsertMessageKeeps
<1>4. ASSUME NEW a \in Contacts, Talk!OpenChatWindow(a, 0) PROVE ChatInv' /\ OwnStep
  BY <1>4, OpenChatKeeps DEF ChatCid
<1>5. ASSUME NEW c \in ChatIds, peer[c] # NoAgent, Talk!OpenChatWindow(peer[c], c) PROVE ChatInv' /\ OwnStep
  <2>1. PICK a \in Contacts : a = peer[c]
    BY <1>5 DEF ChatInv, ChatShape, ChatAgent
  <2>2. Talk!OpenChatWindow(a, c) /\ c \in ChatCid
    BY <1>5, <2>1 DEF ChatCid
  <2> QED  BY <2>1, <2>2, OpenChatKeeps
<1>6. ASSUME Talk!WsClose \/ Talk!WsOpen \/ Talk!CloseChatWindow \/ Talk!HandleScroll \/ Talk!SendMessage
             \/ Talk!NewMessage
      PROVE  ChatInv' /\ OwnStep
  BY <1>6, WsCloseKeeps, WsOpenKeeps, CloseChatKeeps, ScrollKeeps, SendMessageKeeps, NewMessageKeeps
<1>7. ASSUME NEW i \in 1 .. Len(bubbles), Talk!RetrySend(i) PROVE ChatInv' /\ OwnStep
  BY <1>7, RetryKeeps
<1> QED  BY <1>1, <1>2, <1>3, <1>4, <1>5, <1>6, <1>7 DEF Talk!Next, Talk!Server, Talk!Network, Talk!User

\* What OwnStep says bubble by bubble
LEMMA OwnClaims == OwnStep => Talk!TakesOwn
<1> SUFFICES ASSUME OwnStep, win'.cid # 0, NEW i \in 1 .. Len(bubbles')
             PROVE  \/ bubbles'[i].peer = win'.agent
                    \/ \E j \in 1 .. Len(bubbles) : bubbles[j] = bubbles'[i] /\ win.agent = win'.agent
  BY DEF Talk!TakesOwn
<1>1. bubbles' \in Seq(Own)
  BY DEF OwnStep
<1>2. bubbles'[i] \in Own
  BY <1>1
<1> QED  BY <1>2 DEF Own

LEMMA ChatHolds ==
  ASSUME ChatLeaves \subseteq {"lookup"}
  PROVE  Talk!Spec => []ChatInv
<1>1. ChatInv /\ UNCHANGED Talk!cvars => ChatInv'
  BY DEF Talk!cvars, ChatInv, ChatShape, WinFits, AskFits, IdsFit, Holding
<1>2. ChatInv /\ [Talk!Next]_(Talk!cvars) => ChatInv'
  BY <1>1, ChatSteps
<1> QED  BY <1>2, ChatStarts, PTL DEF Talk!Spec

\* A chat window only takes up bubbles of its own agent, whatever overtakes what, for
\* a user who changes windows only while a conversation is looked up (openChatWindow,
\* loadMessages, handleScroll, sendMessage and the listener of chat.js), for any number
\* of agents, conversations and requests on their way, any of which may fail.
THEOREM WindowsKeepApart ==
  ASSUME ChatLeaves \subseteq {"lookup"}
  PROVE  Talk!Spec => OwnBubbles
<1>1. ChatInv /\ [Talk!Next]_(Talk!cvars) => [Talk!TakesOwn]_(Talk!cvars)
  BY ChatSteps, OwnClaims
<1> QED  BY <1>1, ChatHolds, PTL DEF Talk!Spec, OwnBubbles, Talk!OwnBubbles

-----------------------------------------------------------------------------
(* What is loaded *)

LoadKinds == {"check", "page", "more"}

\* The ids of some bubbles, of an answer; the rows from the first of some ids up
IdsIn(q, hows) == {q[i].id : i \in {j \in 1 .. Len(q) : q[j].how \in hows}}
IdsOf(c) == {c.ids[k] : k \in 1 .. Len(c.ids)}
From(S, I) == {x \in S : \E i \in I : i <= x}

Paged == IdsIn(bubbles, {"page"})
Shown == IdsIn(bubbles, {"page", "push"})

OwnRows == RowsOf(win.cid)
Results == {x \in OwnRows : texts[x].sender = "result"}

\* A result that is on the page or will be put there
Covered(r) == r \in Shown \/ (r \notin win.seen /\ \E j \in 1 .. Len(queue) : queue[j] = r)

\* An answer joins what is loaded, and skips no result.
AnswerFits(c) ==
  /\ win.offset + Len(c.ids) <= Cardinality(From(OwnRows, Paged \cup IdsOf(c)))
  /\ \A r \in Results : (\E i \in IdsOf(c) : i < r) => r \in IdsOf(c) \/ Covered(r)

\* A load on its way is of the window's conversation and starts at its offset.
LoadFits(s) ==
  asks[s].kind \in LoadKinds =>
    /\ asks[s].cid = win.cid /\ asks[s].offset = win.offset
    /\ asks[s].kind \in {"check", "page"} => Paged = {} /\ win.offset = 0
    /\ asks[s].kind \in {"page", "more"} /\ asks[s].stage = "answered" => AnswerFits(asks[s])

OneLoad ==
  \A r, s \in ChatSlots : asks[r].kind \in LoadKinds /\ asks[s].kind \in LoadKinds => r = s

LoadingSays == win.loading <=> \E s \in ChatSlots : asks[s].kind = "more"

\* What is loaded reaches from the newest row down to the offset at least, but for
\* results that are pushed.
NoHoles ==
  /\ win.cid # 0 => /\ win.offset <= Cardinality(From(OwnRows, Paged))
                    /\ \A r \in Results : (\E i \in Paged : i < r) => Covered(r)
  /\ win.cid = 0 => win.offset = 0 /\ (win.agent # NoAgent => Paged = {})

LoadInv ==
  /\ \A s \in ChatSlots : LoadFits(s)
  /\ OneLoad /\ LoadingSays /\ NoHoles

LEMMA IdsMember ==
  ASSUME NEW q, NEW hows, NEW x
  PROVE  x \in IdsIn(q, hows) <=> \E j \in 1 .. Len(q) : q[j].how \in hows /\ q[j].id = x
BY DEF IdsIn

LEMMA FromGrows ==
  ASSUME NEW S, NEW T, S \subseteq T, IsFiniteSet(T), NEW I, NEW J, I \subseteq J
  PROVE  /\ From(S, I) \subseteq From(T, J) /\ IsFiniteSet(From(T, J))
         /\ Cardinality(From(S, I)) \in Nat /\ Cardinality(From(T, J)) \in Nat
         /\ Cardinality(From(S, I)) <= Cardinality(From(T, J))
<1>1. From(S, I) \subseteq From(T, J) /\ From(T, J) \subseteq T
  BY DEF From
<1>2. IsFiniteSet(From(T, J))
  BY <1>1, FS_Subset
<1>3. IsFiniteSet(From(S, I)) /\ Cardinality(From(S, I)) <= Cardinality(From(T, J))
  BY <1>1, <1>2, FS_Subset
<1> QED  BY <1>1, <1>2, <1>3, FS_CardinalityType

LEMMA OwnFinite == ChatShape => IsFiniteSet(OwnRows)
BY RowsAre DEF ChatShape, OwnRows

LEMMA PagedAreIds == ChatShape => Paged \subseteq Nat
<1> SUFFICES ASSUME ChatShape, NEW i \in Paged PROVE i \in Nat
  OBVIOUS
<1>1. bubbles \in Seq(ChatBubble)
  BY DEF ChatShape
<1>2. PICK j \in 1 .. Len(bubbles) : bubbles[j].id = i
  BY IdsMember DEF Paged
<1>3. bubbles[j] \in ChatBubble
  BY <1>1
<1> QED  BY <1>2, <1>3 DEF ChatBubble

\* Steps after which as much is loaded as before
LEMMA LoadKept ==
  ASSUME LoadInv, ChatShape', Paged' = Paged, OwnRows \subseteq OwnRows',
         win'.agent = win.agent, win'.cid = win.cid, win'.offset = win.offset, win'.loading = win.loading,
         \A r \in Results' : Covered(r)' \/ (r \in Results /\ ~Covered(r)),
         NEW s, \A r \in ChatSlots \ {s} : asks'[r] = asks[r],
         s \in ChatSlots => /\ LoadFits(s)' /\ (asks'[s].kind \in LoadKinds => asks[s].kind \in LoadKinds)
                            /\ asks'[s].kind = "more" <=> asks[s].kind = "more"
  PROVE  LoadInv'
<1>1. IsFiniteSet(OwnRows')
  <2>1. (ChatShape => IsFiniteSet(OwnRows))'
    BY OwnFinite, PTL
  <2> QED  BY <2>1
<1>2. ASSUME NEW r \in ChatSlots \ {s}, asks[r].kind \in {"page", "more"}, asks[r].stage = "answered"
      PROVE  AnswerFits(asks[r])'
  <2>1. asks'[r] = asks[r] /\ AnswerFits(asks[r])
    BY <1>2 DEF LoadInv, LoadFits, LoadKinds
  <2>2. Cardinality(From(OwnRows, Paged \cup IdsOf(asks[r]))) <= Cardinality(From(OwnRows', Paged' \cup IdsOf(asks'[r])))
        /\ Cardinality(From(OwnRows, Paged \cup IdsOf(asks[r]))) \in Nat
        /\ Cardinality(From(OwnRows', Paged' \cup IdsOf(asks'[r]))) \in Nat
    BY <1>1, <2>1, FromGrows
  <2>3. win'.offset + Len(asks'[r].ids) <= Cardinality(From(OwnRows', Paged' \cup IdsOf(asks'[r])))
    <3>1. win'.offset \in Nat /\ Len(asks'[r].ids) \in Nat
      BY DEF ChatShape, ChatWin, ChatAsk
    <3>2. win'.offset + Len(asks'[r].ids) <= Cardinality(From(OwnRows, Paged \cup IdsOf(asks[r])))
      BY <2>1 DEF AnswerFits
    <3> QED  BY <2>2, <3>1, <3>2
  <2>4. \A x \in Results' : (\E i \in IdsOf(asks'[r]) : i < x) => x \in IdsOf(asks'[r]) \/ Covered(x)'
    BY <2>1 DEF AnswerFits
  <2> QED  BY <2>3, <2>4 DEF AnswerFits
<1>3. \A r \in ChatSlots : LoadFits(r)'
  BY <1>2 DEF LoadInv, LoadFits
<1>4. OneLoad'
  BY DEF LoadInv, OneLoad
<1>5. LoadingSays'
  BY DEF LoadInv, LoadingSays
<1>6. Cardinality(From(OwnRows, Paged)) <= Cardinality(From(OwnRows', Paged'))
      /\ Cardinality(From(OwnRows, Paged)) \in Nat /\ Cardinality(From(OwnRows', Paged')) \in Nat
  BY <1>1, FromGrows
<1>7. NoHoles'
  <2>1. win'.offset \in Nat
    BY DEF ChatShape, ChatWin
  <2>2. win'.cid # 0 => win'.offset <= Cardinality(From(OwnRows', Paged'))
    BY <1>6, <2>1 DEF LoadInv, NoHoles
  <2>3. win'.cid # 0 => \A x \in Results' : (\E i \in Paged' : i < x) => Covered(x)'
    BY DEF LoadInv, NoHoles
  <2>4. win'.cid = 0 => win'.offset = 0 /\ (win'.agent # NoAgent => Paged' = {})
    BY DEF LoadInv, NoHoles
  <2> QED  BY <2>2, <2>3, <2>4 DEF NoHoles
<1> QED  BY <1>3, <1>4, <1>5, <1>7 DEF LoadInv

\* Steps of a request
LEMMA RequestLoad ==
  ASSUME LoadInv, ChatShape', UNCHANGED << texts, queue, win, bubbles >>,
         NEW s, \A r \in ChatSlots \ {s} : asks'[r] = asks[r],
         s \in ChatSlots => /\ LoadFits(s)' /\ (asks'[s].kind \in LoadKinds => asks[s].kind \in LoadKinds)
                            /\ asks'[s].kind = "more" <=> asks[s].kind = "more"
  PROVE  LoadInv'
<1>1. Paged' = Paged /\ OwnRows' = OwnRows /\ Results' = Results
  BY DEF Paged, OwnRows, RowsOf, Results
<1>2. \A r \in Results' : Covered(r)' \/ (r \in Results /\ ~Covered(r))
  BY <1>1 DEF Covered, Shown
<1> QED  BY <1>1, <1>2, LoadKept

LEMMA DoneLoad ==
  ASSUME ChatInv, LoadInv, ChatShape', UNCHANGED << texts, queue, win, bubbles >>,
         NEW s \in ChatSlots, Talk!Done(s), asks[s].kind # "more"
  PROVE  LoadInv'
<1>1. asks'[s].kind = "idle" /\ \A r \in ChatSlots \ {s} : asks'[r] = asks[r]
  BY DoneIs DEF ChatInv
<1>2. LoadFits(s)' /\ asks'[s].kind \notin LoadKinds
  BY <1>1 DEF LoadFits, LoadKinds
<1> QED  BY <1>1, <1>2, RequestLoad

LEMMA ServeLookupLoad ==
  ASSUME ChatInv, LoadInv, ChatShape', NEW s \in ChatSlots, Talk!ServeLookup(s)
  PROVE  LoadInv'
<1>1. /\ UNCHANGED << texts, queue, win, bubbles >> /\ \A r \in ChatSlots \ {s} : asks'[r] = asks[r]
      /\ asks[s].kind = "lookup" /\ asks'[s].kind = "lookup"
  BY DEF ChatInv, ChatShape, ChatAsk, Talk!ServeLookup
<1>2. LoadFits(s)'
  BY <1>1 DEF LoadFits, LoadKinds
<1> QED  BY <1>1, <1>2, RequestLoad DEF LoadKinds

LEMMA FailLoad ==
  ASSUME ChatInv, LoadInv, ChatShape', NEW s \in ChatSlots, Talk!Fail(s)
  PROVE  LoadInv'
<1>1. /\ UNCHANGED << texts, queue, win, bubbles >> /\ \A r \in ChatSlots \ {s} : asks'[r] = asks[r]
      /\ asks'[s].kind = asks[s].kind /\ asks'[s].cid = asks[s].cid /\ asks'[s].offset = asks[s].offset
      /\ asks'[s].stage = "failed"
  BY DEF ChatInv, ChatShape, ChatAsk, Talk!Fail
<1>2. Paged' = Paged
  BY <1>1 DEF Paged
<1>3. LoadFits(s)'
  BY <1>1, <1>2 DEF LoadInv, LoadFits
<1> QED  BY <1>1, <1>3, RequestLoad

\* A page joins what is loaded: its rows have the ranks below those of the offset.
LEMMA ServeMessagesLoad ==
  ASSUME ChatInv, LoadInv, ChatShape', NEW s \in ChatSlots, Talk!ServeMessages(s)
  PROVE  LoadInv'
<1> DEFINE limit == IF asks[s].kind = "check" THEN 1 ELSE ChatPage
           page == Talk!Page(asks[s].cid, limit, asks[s].offset)
           Below(x) == {j \in OwnRows : j < x}
           Over(x) == {j \in OwnRows : x <= j}
<1>1. /\ ChatShape /\ AskFits(asks[s]) /\ asks[s] \in ChatAsk /\ asks[s].kind \in LoadKinds
      /\ asks' = [asks EXCEPT ![s].stage = "answered", ![s].ids = page]
      /\ UNCHANGED << texts, queue, win, bubbles >>
  BY DEF ChatInv, ChatShape, Talk!ServeMessages, LoadKinds
<1>2. /\ asks[s].cid \in ChatIds /\ asks[s].cid = win.cid /\ win.cid # 0 /\ asks[s].offset = win.offset
      /\ win.offset \in Nat /\ limit \in Nat
      /\ asks[s].kind \in {"check", "page"} => Paged = {} /\ win.offset = 0
  BY <1>1, ChatAssumption DEF LoadInv, LoadFits, AskFits, LoadKinds, ChatAsk, ChatCid, ChatShape, ChatWin
<1>3. /\ OwnRows \in SUBSET Nat /\ IsFiniteSet(OwnRows) /\ Cardinality(OwnRows) \in Nat
  BY <1>1, RowsAre, FS_CardinalityType DEF ChatShape, OwnRows
<1> DEFINE last == Cardinality(OwnRows) - win.offset
<1>4. PICK first \in Nat \ {0} :
        /\ page \in Seq(OwnRows) /\ Len(page) = (IF last - first + 1 < 0 THEN 0 ELSE last - first + 1)
        /\ \A k \in 1 .. Len(page) : Cardinality(Below(page[k])) = first + k - 2
  <2>1. texts \in Seq(ChatText)
    BY <1>1 DEF ChatShape
  <2> HIDE DEF limit
  <2>2. OwnRows = RowsOf(asks[s].cid)
    BY <1>2 DEF OwnRows
  <2> HIDE DEF Below
  <2>3. PICK first \in Nat \ {0} :
          /\ page \in Seq(OwnRows) /\ Len(page) = (IF last - first + 1 < 0 THEN 0 ELSE last - first + 1)
          /\ \A k \in 1 .. Len(page) : RankIn(OwnRows, page[k]) = first + k - 2
    <3>1. IsCut(page, RowsOf(asks[s].cid), Cardinality(RowsOf(asks[s].cid)) - asks[s].offset)
      BY <1>2, <2>1, PageRanks
    <3>2. IsCut(page, OwnRows, last)
      BY <1>2, <2>2, <3>1
    <3> QED  BY <3>2 DEF IsCut
  <2> QED  BY <2>3 DEF Below, RankIn
<1>5. /\ asks'[s].kind = asks[s].kind /\ asks'[s].cid = asks[s].cid /\ asks'[s].offset = asks[s].offset
      /\ asks'[s].ids = page /\ \A r \in ChatSlots \ {s} : asks'[r] = asks[r]
  BY <1>1 DEF ChatShape, ChatAsk
<1> HIDE DEF page, last, limit, Below, Over
<1> DEFINE ids == {page[k] : k \in 1 .. Len(page)}
<1>6. last \in Int /\ last = Cardinality(OwnRows) - win.offset /\ Len(page) \in Nat
      /\ \A k \in 1 .. Len(page) : page[k] \in OwnRows
  BY <1>2, <1>3, <1>4 DEF last
<1>7. \A x \in OwnRows : /\ Cardinality(Below(x)) \in Nat /\ Cardinality(Over(x)) \in Nat
                         /\ Cardinality(Below(x)) + Cardinality(Over(x)) = Cardinality(OwnRows)
  BY <1>3, RankSplits DEF Below, Over
<1>8. Cardinality(From(OwnRows, Paged)) \in Nat /\ win.offset <= Cardinality(From(OwnRows, Paged))
  BY <1>2, <1>3, FromGrows DEF LoadInv, NoHoles
<1>9. win.offset + Len(page) <= Cardinality(From(OwnRows, Paged \cup ids))
  <2>1. Cardinality(From(OwnRows, Paged \cup ids)) \in Nat
        /\ Cardinality(From(OwnRows, Paged)) <= Cardinality(From(OwnRows, Paged \cup ids))
    BY <1>3, FromGrows
  <2>2. CASE Len(page) = 0
    BY <1>2, <1>8, <2>1, <2>2
  <2>3. CASE Len(page) # 0
    <3>1. Len(page) = last - first + 1 /\ 1 \in 1 .. Len(page)
      BY <1>4, <1>6, <2>3
    <3>2. page[1] \in OwnRows /\ Cardinality(Below(page[1])) = first - 1
      BY <1>4, <1>6, <3>1
    <3>3. Cardinality(Over(page[1])) = win.offset + Len(page)
      <4>1. Cardinality(Below(page[1])) + Cardinality(Over(page[1])) = Cardinality(OwnRows)
            /\ Cardinality(Over(page[1])) \in Nat
        BY <1>7, <3>2
      <4>2. \A n, o, v \in Nat : (first - 1) + v = n => v = o + ((n - o) - first + 1)
        OBVIOUS
      <4>3. last = Cardinality(OwnRows) - win.offset /\ win.offset \in Nat
        BY <1>2, <1>6
      <4>4. (first - 1) + Cardinality(Over(page[1])) = Cardinality(OwnRows)
        BY <3>2, <4>1
      <4>5. Cardinality(Over(page[1])) = win.offset + ((Cardinality(OwnRows) - win.offset) - first + 1)
        BY <1>3, <4>1, <4>2, <4>3, <4>4
      <4> HIDE DEF ids
      <4> QED  BY <3>1, <4>3, <4>5
    <3>4. Over(page[1]) \subseteq From(OwnRows, Paged \cup ids)
      BY <3>1 DEF Over, From
    <3>5. IsFiniteSet(From(OwnRows, Paged \cup ids))
      BY <1>3, FromGrows
    <3> HIDE DEF ids
    <3>6. Cardinality(Over(page[1])) <= Cardinality(From(OwnRows, Paged \cup ids))
      BY <3>4, <3>5, FS_Subset
    <3> QED  BY <3>3, <3>6
  <2> QED  BY <2>2, <2>3
<1>10. ASSUME NEW r \in Results, NEW i \in ids, i < r PROVE r \in ids \/ Covered(r)
  <2>1. PICK k \in 1 .. Len(page) : page[k] = i
    OBVIOUS
  <2>2. r \in OwnRows /\ r \in Nat /\ page[k] \in OwnRows /\ page[k] < r
    BY <1>3, <1>6, <1>10, <2>1 DEF Results
  <2>3. Cardinality(Below(page[k])) < Cardinality(Below(r)) /\ Cardinality(Below(page[k])) = first + k - 2
    BY <1>3, <1>4, <2>2, RankGrows DEF Below
  <2> DEFINE rank == Cardinality(Below(r))
             m == rank - first + 2
  <2>4. rank \in Nat /\ first <= rank /\ rank + Cardinality(Over(r)) = Cardinality(OwnRows)
        /\ Cardinality(Over(r)) \in Nat
    BY <1>4, <1>7, <2>2, <2>3
  <2> HIDE DEF rank
  <2>5. CASE rank < last
    <3>1. m \in 1 .. Len(page) /\ first + m - 2 = rank
      <4>1. Len(page) = last - first + 1
        BY <1>4, <1>6, <2>4, <2>5
      <4> QED  BY <1>6, <2>4, <2>5, <4>1
    <3>2. page[m] \in OwnRows /\ Cardinality(Below(page[m])) = rank
      BY <1>4, <1>6, <3>1
    <3>3. ~(page[m] < r) /\ ~(r < page[m])
      <4>1. page[m] < r => Cardinality(Below(page[m])) < Cardinality(Below(r))
        BY <1>3, <2>2, <3>2, RankGrows DEF Below
      <4>2. r < page[m] => Cardinality(Below(r)) < Cardinality(Below(page[m]))
        BY <1>3, <2>2, <3>2, RankGrows DEF Below
      <4> QED  BY <2>4, <3>2, <4>1, <4>2 DEF rank
    <3>4. page[m] = r
      <4>1. page[m] \in Nat
        BY <1>3, <3>2
      <4> HIDE DEF m
      <4> QED  BY <2>2, <3>3, <4>1
    <3> QED  BY <3>1, <3>4
  <2>6. CASE last <= rank
    <3>1. Cardinality(Over(r)) <= win.offset
      BY <1>2, <1>3, <1>6, <2>4, <2>6
    <3>2. r \in From(OwnRows, Paged)
      <4> SUFFICES ASSUME r \notin From(OwnRows, Paged) PROVE FALSE
        OBVIOUS
      <4>1. From(OwnRows, Paged) \subseteq Over(r) /\ r \in Over(r) /\ Over(r) \subseteq OwnRows
        <5>1. ASSUME NEW x \in From(OwnRows, Paged) PROVE x \in Over(r)
          <6>1. x \in OwnRows /\ \E j \in Paged : j <= x
            BY DEF From
          <6>2. PICK j \in Paged : j <= x
            BY <6>1
          <6>3. ~(j <= r)
            BY <2>2 DEF From
          <6>4. j \in Nat
            BY <1>1, PagedAreIds
          <6>5. x \in Nat
            BY <1>3, <6>1
          <6> QED  BY <2>2, <6>1, <6>2, <6>3, <6>4, <6>5 DEF Over
        <5> QED  BY <2>2, <5>1 DEF Over
      <4>2. IsFiniteSet(Over(r)) /\ From(OwnRows, Paged) # Over(r)
        BY <1>3, <4>1, FS_Subset
      <4>3. Cardinality(From(OwnRows, Paged)) <= Cardinality(Over(r))
            /\ Cardinality(From(OwnRows, Paged)) # Cardinality(Over(r))
        BY <4>1, <4>2, FS_Subset
      <4> QED  BY <1>2, <1>8, <2>4, <3>1, <4>3
    <3>3. PICK j \in Paged : j <= r
      BY <3>2 DEF From
    <3>4. CASE j = r
      BY <3>3, <3>4, IdsMember DEF Paged, Shown, Covered
    <3>5. CASE j # r
      <4>1. j \in Nat
        BY <1>1, PagedAreIds
      <4>2. j < r
        BY <2>2, <3>3, <3>5, <4>1
      <4> QED  BY <1>2, <1>10, <4>2 DEF LoadInv, NoHoles
    <3> QED  BY <3>4, <3>5
  <2> QED  BY <1>6, <2>4, <2>5, <2>6
<1>11. AnswerFits(asks[s])'
  <2>1. OwnRows' = OwnRows /\ Paged' = Paged /\ Results' = Results /\ win' = win /\ \A r : Covered(r)' <=> Covered(r)
    BY <1>1 DEF OwnRows, RowsOf, Paged, Results, Covered, Shown
  <2>2. IdsOf(asks'[s]) = ids
    BY <1>5 DEF IdsOf
  <2> HIDE DEF ids
  <2> QED  BY <1>5, <1>9, <1>10, <2>1, <2>2 DEF AnswerFits
<1>12. LoadFits(s)'
  <2>1. Paged' = Paged /\ win' = win
    BY <1>1 DEF Paged
  <2> QED  BY <1>2, <1>5, <1>11, <2>1 DEF LoadFits
<1> QED  BY <1>1, <1>5, <1>12, RequestLoad

\* A row is added; a result is pushed.
LEMMA RowLoad ==
  ASSUME ChatInv, LoadInv, ChatShape', NEW t \in ChatText, texts' = Append(texts, t), UNCHANGED << win, bubbles >>,
         queue' = queue \/ queue' = Append(queue, Len(texts) + 1),
         t.sender = "result" => queue' = Append(queue, Len(texts) + 1),
         NEW s, \A r \in ChatSlots \ {s} : asks'[r] = asks[r],
         s \in ChatSlots => asks[s].kind = "send" /\ asks'[s].kind = "send"
  PROVE  LoadInv'
<1>1. /\ ChatShape /\ Len(texts) \in Nat /\ Len(texts') = Len(texts) + 1 /\ texts'[Len(texts) + 1] = t
      /\ \A i \in 1 .. Len(texts) : i \in 1 .. Len(texts') /\ texts'[i] = texts[i]
  BY DEF ChatInv, ChatShape
<1>2. Paged' = Paged /\ Shown' = Shown
  BY DEF Paged, Shown
<1>3. OwnRows \subseteq OwnRows'
  BY <1>1 DEF OwnRows, RowsOf
<1>4. /\ \A j \in 1 .. Len(queue) : j \in 1 .. Len(queue') /\ queue'[j] = queue[j]
      /\ queue' = Append(queue, Len(texts) + 1) => \E j \in 1 .. Len(queue') : queue'[j] = Len(texts) + 1
  <2> DEFINE n == Len(texts) + 1
  <2>1. Len(queue) \in Nat /\ queue \in Seq(1 .. Len(texts))
    BY <1>1 DEF ChatShape
  <2> HIDE DEF n
  <2>2. CASE queue' = Append(queue, n)
    <3>1. Len(queue') = Len(queue) + 1 /\ queue'[Len(queue) + 1] = n
          /\ \A j \in 1 .. Len(queue) : queue'[j] = queue[j]
      BY <2>1, <2>2
    <3> QED  BY <2>1, <3>1 DEF n
  <2>3. CASE queue' = queue /\ queue' # Append(queue, n)
    BY <2>1, <2>3 DEF n
  <2> QED  BY <2>2, <2>3 DEF n
<1>5. \A r \in Results' : Covered(r)' \/ (r \in Results /\ ~Covered(r))
  <2> SUFFICES ASSUME NEW r \in Results' PROVE Covered(r)' \/ (r \in Results /\ ~Covered(r))
    OBVIOUS
  <2>1. r \in 1 .. Len(texts') /\ texts'[r].conv = win.cid /\ texts'[r].sender = "result"
    BY DEF Results, OwnRows, RowsOf
  <2>2. CASE r = Len(texts) + 1
    <3>1. r \notin win.seen
      BY <1>1, <2>2 DEF ChatInv, WinFits
    <3>2. \E j \in 1 .. Len(queue') : queue'[j] = r
      BY <1>1, <1>4, <2>1, <2>2
    <3> QED  BY <3>1, <3>2 DEF Covered
  <2>3. CASE r # Len(texts) + 1
    <3>1. r \in 1 .. Len(texts) /\ r \in Results
      BY <1>1, <2>1, <2>3 DEF Results, OwnRows, RowsOf
    <3>2. Covered(r) => Covered(r)'
      BY <1>2, <1>4 DEF Covered
    <3> QED  BY <3>1, <3>2
  <2> QED  BY <2>2, <2>3
<1>6. s \in ChatSlots => LoadFits(s)'
  BY DEF LoadFits, LoadKinds
<1> QED  BY <1>2, <1>3, <1>5, <1>6, LoadKept DEF LoadKinds

LEMMA ServeSendLoad ==
  ASSUME ChatInv, LoadInv, ChatShape', NEW s \in ChatSlots, Talk!ServeSend(s)
  PROVE  LoadInv'
<1> DEFINE c == IF asks[s].cid = 0 THEN Talk!NewConv ELSE asks[s].cid
           t == [conv |-> c, sender |-> "user"]
<1>1. /\ texts' = Append(texts, t) /\ UNCHANGED << queue, win, bubbles >> /\ ChatShape
      /\ asks[s].kind = "send" /\ asks'[s].kind = "send" /\ \A r \in ChatSlots \ {s} : asks'[r] = asks[r]
  BY DEF ChatInv, ChatShape, ChatAsk, Talk!ServeSend
<1>2. t \in ChatText
  <2> HIDE DEF t
  <2>1. Len(texts) \in Nat /\ texts' \in Seq(ChatText) /\ Len(texts') = Len(texts) + 1 /\ texts'[Len(texts) + 1] = t
    BY <1>1 DEF ChatShape
  <2> QED  BY <2>1
<1>3. t.sender # "result"
  OBVIOUS
<1> HIDE DEF t
<1> QED  BY <1>1, <1>2, <1>3, RowLoad

LEMMA AnswerSendLoad ==
  ASSUME ChatInv, LoadInv, ChatShape', NEW s \in ChatSlots, Talk!AnswerSend(s)
  PROVE  LoadInv'
<1> DEFINE t == [conv |-> asks[s].cid, sender |-> "assistant"]
<1>1. /\ texts' = Append(texts, t) /\ UNCHANGED << queue, win, bubbles >> /\ ChatShape /\ asks[s].stage = "working"
      /\ asks[s].kind = "send" /\ asks'[s].kind = "send" /\ \A r \in ChatSlots \ {s} : asks'[r] = asks[r]
  BY DEF ChatInv, ChatShape, ChatAsk, Talk!AnswerSend
<1>2. t \in ChatText /\ t.sender # "result"
  BY <1>1 DEF ChatInv, AskFits, ChatShape, ChatAsk, ChatCid, ChatText
<1> HIDE DEF t
<1> QED  BY <1>1, <1>2, RowLoad

LEMMA InsertMessageLoad ==
  ASSUME ChatInv, LoadInv, ChatShape', NEW c \in ChatIds, Talk!InsertMessage(c)
  PROVE  LoadInv'
<1> DEFINE t == [conv |-> c, sender |-> IF linked THEN "result" ELSE "missed"]
<1>1. /\ texts' = Append(texts, t) /\ UNCHANGED << win, bubbles, asks >>
      /\ queue' = IF linked THEN Append(queue, Len(texts) + 1) ELSE queue
  BY DEF Talk!InsertMessage
<1>2. t \in ChatText /\ (t.sender = "result" => linked)
  BY DEF ChatText
<1>3. -1 \notin ChatSlots
  BY ChatAssumption
<1> HIDE DEF t
<1> QED  BY <1>1, <1>2, <1>3, RowLoad

LEMMA WsCloseLoad ==
  ASSUME ChatInv, LoadInv, ChatShape', Talk!WsClose
  PROVE  LoadInv'
<1> DEFINE lost(i) == \E j \in 1 .. Len(queue) : queue[j] = i
           now == [i \in 1 .. Len(texts) |-> IF lost(i) THEN [texts[i] EXCEPT !.sender = "missed"] ELSE texts[i]]
<1>1. ChatShape /\ texts' = now /\ queue' = << >> /\ UNCHANGED << win, bubbles, asks >>
  BY DEF ChatInv, Talk!WsClose
<1>2. texts \in Seq(ChatText) /\ Len(texts) \in Nat
  BY <1>1 DEF ChatShape
<1>3. \A i \in 1 .. Len(texts) : /\ texts[i] \in ChatText /\ now[i].conv = texts[i].conv
                                 /\ now[i].sender = IF lost(i) THEN "missed" ELSE texts[i].sender
  <2> SUFFICES ASSUME NEW i \in 1 .. Len(texts)
               PROVE  /\ texts[i] \in ChatText /\ now[i].conv = texts[i].conv
                      /\ now[i].sender = IF lost(i) THEN "missed" ELSE texts[i].sender
    OBVIOUS
  <2>1. texts[i] \in ChatText
    BY <1>2
  <2>2. now[i] = IF lost(i) THEN [texts[i] EXCEPT !.sender = "missed"] ELSE texts[i]
    OBVIOUS
  <2> HIDE DEF now, lost
  <2> QED  BY <2>1, <2>2 DEF ChatText
<1>4. Len(now) = Len(texts)
  BY <1>2
<1> HIDE DEF now, lost
<1>5. Paged' = Paged /\ Shown' = Shown
  BY <1>1 DEF Paged, Shown
<1>6. OwnRows' = OwnRows
  BY <1>1, <1>3, <1>4 DEF OwnRows, RowsOf
<1>7. \A r \in Results' : Covered(r)' \/ (r \in Results /\ ~Covered(r))
  <2> SUFFICES ASSUME NEW r \in Results' PROVE Covered(r)' \/ (r \in Results /\ ~Covered(r))
    OBVIOUS
  <2>1. r \in OwnRows /\ texts'[r].sender = "result" /\ r \in 1 .. Len(texts)
    BY <1>6 DEF Results, OwnRows, RowsOf
  <2>2. r \in Results /\ ~lost(r)
    BY <1>1, <1>3, <2>1 DEF Results
  <2> QED  BY <1>5, <2>2 DEF Covered, lost
<1>8. -1 \notin ChatSlots
  BY ChatAssumption
<1> QED  BY <1>1, <1>5, <1>6, <1>7, <1>8, LoadKept

LEMMA WsOpenLoad ==
  ASSUME ChatInv, LoadInv, ChatShape', Talk!WsOpen
  PROVE  LoadInv'
<1>1. -1 \notin ChatSlots
  BY ChatAssumption
<1> QED  BY <1>1, RequestLoad DEF Talk!WsOpen

-----------------------------------------------------------------------------
(* The ids of bubbles *)

LEMMA IdsAppend ==
  ASSUME NEW q \in Seq(ChatBubble), NEW b, NEW hows, b.how \notin hows
  PROVE  IdsIn(Append(q, b), hows) = IdsIn(q, hows)
<1> DEFINE p == Append(q, b)
<1>1. Len(q) \in Nat /\ Len(p) = Len(q) + 1 /\ p[Len(q) + 1] = b /\ \A j \in 1 .. Len(q) : p[j] = q[j]
  OBVIOUS
<1> HIDE DEF p
<1>2. \A j \in 1 .. Len(p) : p[j].how \in hows => j \in 1 .. Len(q)
  BY <1>1
<1>3. \A j \in 1 .. Len(q) : j \in 1 .. Len(p)
  BY <1>1
<1>4. ASSUME NEW x PROVE x \in IdsIn(p, hows) <=> x \in IdsIn(q, hows)
  BY <1>1, <1>2, <1>3, IdsMember
<1> QED  BY <1>4 DEF p

LEMMA IdsConcat ==
  ASSUME NEW p \in Seq(ChatBubble), NEW q \in Seq(ChatBubble), NEW hows
  PROVE  IdsIn(p \o q, hows) = IdsIn(p, hows) \cup IdsIn(q, hows)
<1> DEFINE pq == p \o q
<1>1. /\ Len(p) \in Nat /\ Len(q) \in Nat /\ Len(pq) = Len(p) + Len(q)
      /\ \A j \in 1 .. Len(p) : pq[j] = p[j]
      /\ \A j \in 1 .. Len(q) : pq[Len(p) + j] = q[j]
  OBVIOUS
<1> HIDE DEF pq
<1>2. /\ \A j \in 1 .. Len(p) : j \in 1 .. Len(pq)
      /\ \A j \in 1 .. Len(q) : Len(p) + j \in 1 .. Len(pq)
      /\ \A j \in 1 .. Len(pq) : j \in 1 .. Len(p) \/ \E k \in 1 .. Len(q) : j = Len(p) + k
  <2>1. ASSUME NEW j \in 1 .. Len(pq), j \notin 1 .. Len(p) PROVE \E k \in 1 .. Len(q) : j = Len(p) + k
    <3>1. j - Len(p) \in 1 .. Len(q) /\ j = Len(p) + (j - Len(p))
      BY <1>1, <2>1
    <3> QED  BY <3>1
  <2> QED  BY <1>1, <2>1
<1>3. ASSUME NEW x
      PROVE  x \in IdsIn(pq, hows) <=> x \in IdsIn(p, hows) \/ x \in IdsIn(q, hows)
  <2>1. x \in IdsIn(p, hows) => x \in IdsIn(pq, hows)
    BY <1>1, <1>2, IdsMember
  <2>2. x \in IdsIn(q, hows) => x \in IdsIn(pq, hows)
    <3> SUFFICES ASSUME x \in IdsIn(q, hows) PROVE x \in IdsIn(pq, hows)
      OBVIOUS
    <3>1. PICK j \in 1 .. Len(q) : q[j].how \in hows /\ q[j].id = x
      BY IdsMember
    <3>2. Len(p) + j \in 1 .. Len(pq) /\ pq[Len(p) + j] = q[j]
      BY <1>1, <1>2
    <3> QED  BY <3>1, <3>2, IdsMember
  <2>3. x \in IdsIn(pq, hows) => x \in IdsIn(p, hows) \/ x \in IdsIn(q, hows)
    <3> SUFFICES ASSUME x \in IdsIn(pq, hows) PROVE x \in IdsIn(p, hows) \/ x \in IdsIn(q, hows)
      OBVIOUS
    <3>1. PICK j \in 1 .. Len(pq) : pq[j].how \in hows /\ pq[j].id = x
      BY IdsMember
    <3>2. CASE j \in 1 .. Len(p)
      BY <1>1, <3>1, <3>2, IdsMember
    <3>3. CASE j \notin 1 .. Len(p)
      <4>1. PICK k \in 1 .. Len(q) : j = Len(p) + k
        BY <1>2, <3>3
      <4> QED  BY <1>1, <3>1, <4>1, IdsMember
    <3> QED  BY <3>2, <3>3
  <2> QED  BY <2>1, <2>2, <2>3
<1> QED  BY <1>3 DEF pq

LEMMA IdsBubbles ==
  ASSUME NEW ids \in Seq(Nat), NEW how, NEW hows
  PROVE  IdsIn(Talk!Bubbles(ids, how), hows) = IF how \in hows THEN {ids[k] : k \in 1 .. Len(ids)} ELSE {}
<1> DEFINE q == Talk!Bubbles(ids, how)
<1>1. Len(q) = Len(ids) /\ \A k \in 1 .. Len(ids) : q[k].how = how /\ q[k].id = ids[k]
  BY DEF Talk!Bubbles, Talk!Bubble
<1> HIDE DEF q
<1>2. ASSUME NEW x PROVE x \in IdsIn(q, hows) <=> how \in hows /\ \E k \in 1 .. Len(ids) : ids[k] = x
  BY <1>1, IdsMember
<1>3. how \in hows => IdsIn(q, hows) = {ids[k] : k \in 1 .. Len(ids)}
  BY <1>2
<1>4. how \notin hows => IdsIn(q, hows) = {}
  BY <1>2
<1> QED  BY <1>3, <1>4 DEF q

LEMMA IdsMarked ==
  ASSUME ChatShape, NEW s, NEW how, NEW hows, "temp" \notin hows, how \notin hows
  PROVE  IdsIn(Talk!Mark(s, how), hows) = IdsIn(bubbles, hows)
<1> DEFINE q == Talk!Mark(s, how)
<1>1. /\ Len(bubbles) \in Nat /\ Len(q) = Len(bubbles)
      /\ \A k \in 1 .. Len(bubbles) : q[k] = bubbles[k] \/ (q[k].how = how /\ bubbles[k].how = "temp")
  BY DEF ChatShape, Talk!Mark, Talk!Bubble
<1> HIDE DEF q
<1>2. ASSUME NEW x PROVE x \in IdsIn(q, hows) <=> x \in IdsIn(bubbles, hows)
  BY <1>1, IdsMember
<1> QED  BY <1>2 DEF q

LEMMA IdsRemoved ==
  ASSUME ChatShape, NEW i \in 1 .. Len(bubbles), NEW hows, bubbles[i].how \notin hows
  PROVE  IdsIn(SubSeq(bubbles, 1, i - 1) \o SubSeq(bubbles, i + 1, Len(bubbles)), hows) = IdsIn(bubbles, hows)
<1> DEFINE p == SubSeq(bubbles, 1, i - 1)
           q == SubSeq(bubbles, i + 1, Len(bubbles))
<1>1. bubbles \in Seq(ChatBubble) /\ Len(bubbles) \in Nat
  BY DEF ChatShape
<1>2. /\ p \in Seq(ChatBubble) /\ Len(p) = i - 1 /\ \A j \in 1 .. i - 1 : p[j] = bubbles[j]
  BY <1>1, SubSeqProperties
<1>3. /\ q \in Seq(ChatBubble) /\ Len(q) = Len(bubbles) - i
      /\ \A j \in 1 .. Len(bubbles) - i : q[j] = bubbles[i + j]
  BY <1>1, SubSeqProperties
<1> HIDE DEF p, q
<1>4. ASSUME NEW x PROVE x \in IdsIn(bubbles, hows) <=> x \in IdsIn(p, hows) \/ x \in IdsIn(q, hows)
  <2>1. x \in IdsIn(p, hows) => x \in IdsIn(bubbles, hows)
    <3>1. \A j \in 1 .. Len(p) : j \in 1 .. Len(bubbles) /\ p[j] = bubbles[j]
      BY <1>1, <1>2
    <3> QED  BY <3>1, IdsMember
  <2>2. x \in IdsIn(q, hows) => x \in IdsIn(bubbles, hows)
    <3>1. \A j \in 1 .. Len(q) : i + j \in 1 .. Len(bubbles) /\ q[j] = bubbles[i + j]
      BY <1>1, <1>3
    <3> QED  BY <3>1, IdsMember
  <2>3. x \in IdsIn(bubbles, hows) => x \in IdsIn(p, hows) \/ x \in IdsIn(q, hows)
    <3> SUFFICES ASSUME x \in IdsIn(bubbles, hows) PROVE x \in IdsIn(p, hows) \/ x \in IdsIn(q, hows)
      OBVIOUS
    <3>1. PICK j \in 1 .. Len(bubbles) : bubbles[j].how \in hows /\ bubbles[j].id = x
      BY IdsMember
    <3>2. CASE j < i
      <4>1. j \in 1 .. Len(p) /\ p[j] = bubbles[j]
        BY <1>1, <1>2, <3>2
      <4> QED  BY <3>1, <4>1, IdsMember
    <3>3. CASE i < j
      <4>1. j - i \in 1 .. Len(q) /\ q[j - i] = bubbles[j]
        <5>1. j - i \in 1 .. Len(bubbles) - i /\ i + (j - i) = j
          BY <1>1, <3>3
        <5> QED  BY <1>3, <5>1
      <4> QED  BY <3>1, <4>1, IdsMember
    <3> QED  BY <3>1, <3>2, <3>3
  <2> QED  BY <2>1, <2>2, <2>3
<1>5. IdsIn(p \o q, hows) = IdsIn(p, hows) \cup IdsIn(q, hows)
  BY <1>2, <1>3, IdsConcat
<1> QED  BY <1>4, <1>5 DEF p, q

-----------------------------------------------------------------------------
(* Steps of the window, and what is loaded *)

\* A window into which nothing is loaded, but for a load that begins
LEMMA LoadBegins ==
  ASSUME ChatShape', win'.loading = FALSE, win'.offset = 0,
         Paged' = {} \/ (win'.cid = 0 /\ win'.agent = NoAgent),
         NEW s, \A r \in ChatSlots \ {s} : asks'[r].kind \notin LoadKinds,
         s \in ChatSlots /\ asks'[s].kind \in LoadKinds =>
           /\ asks'[s].kind \in {"check", "page"} /\ asks'[s].stage = "asked" /\ asks'[s].cid = win'.cid
           /\ asks'[s].offset = 0 /\ Paged' = {}
  PROVE  LoadInv'
<1>1. \A r \in ChatSlots : LoadFits(r)' /\ asks'[r].kind # "more"
  BY DEF LoadFits, LoadKinds
<1>2. OneLoad' /\ LoadingSays'
  BY <1>1 DEF OneLoad, LoadingSays
<1>3. (ChatShape => IsFiniteSet(OwnRows))'
  BY OwnFinite, PTL
<1>4. Cardinality(From(OwnRows', Paged')) \in Nat
  BY <1>3, FromGrows
<1>5. NoHoles'
  BY <1>4 DEF NoHoles
<1> QED  BY <1>1, <1>2, <1>5 DEF LoadInv

LEMMA OpenChatLoad ==
  ASSUME ChatInv, LoadInv, ChatShape', ChatLeaves \subseteq {"lookup"}, NEW a \in Contacts, NEW c \in ChatCid,
         Talk!OpenChatWindow(a, c)
  PROVE  LoadInv'
<1> DEFINE kind == IF c = 0 THEN "lookup" ELSE "check"
<1>1. /\ ChatShape
      /\ win' = [Talk!Closed EXCEPT !.agent = a, !.cid = c, !.last = win.last, !.seen = win.seen]
      /\ bubbles' = << >> /\ Talk!Ask(Talk!NextSlot, kind, c, 0)
      /\ Talk!Free # {} /\ \A r \in ChatSlots : asks[r].kind \in {"idle", "lookup"}
  BY Waited DEF ChatInv, Talk!OpenChatWindow
<1>2. PICK s \in ChatSlots : s = Talk!NextSlot
  BY <1>1, NextIsFree
<1>3. win'.agent \in ChatAgent /\ win'.cid = c /\ win'.loading = FALSE /\ win'.offset = 0
  BY <1>1 DEF ChatAgent, Talk!Closed
<1>4. /\ \A r \in ChatSlots \ {s} : asks'[r] = asks[r]
      /\ asks'[s].kind = kind /\ asks'[s].stage = "asked" /\ asks'[s].cid = c /\ asks'[s].offset = 0
  BY <1>1, <1>2, <1>3, AskIs
<1>5. Paged' = {}
  BY <1>1 DEF Paged, IdsIn
<1>6. kind \in {"check", "lookup"}
  OBVIOUS
<1> HIDE DEF kind
<1>7. \A r \in ChatSlots \ {s} : asks'[r].kind \notin LoadKinds
  BY <1>1, <1>4 DEF LoadKinds
<1>8. asks'[s].kind \in LoadKinds => asks'[s].kind \in {"check", "page"}
  BY <1>4, <1>6 DEF LoadKinds
<1> QED  BY <1>3, <1>4, <1>5, <1>7, <1>8, LoadBegins

LEMMA CloseChatLoad ==
  ASSUME ChatInv, LoadInv, ChatShape', ChatLeaves \subseteq {"lookup"}, Talk!CloseChatWindow
  PROVE  LoadInv'
<1>1. /\ win' = [Talk!Closed EXCEPT !.last = win.last, !.seen = win.seen] /\ asks' = asks
      /\ \A r \in ChatSlots : asks[r].kind \in {"idle", "lookup"}
  BY Waited DEF Talk!CloseChatWindow
<1>2. win'.agent = NoAgent /\ win'.cid = 0 /\ win'.loading = FALSE /\ win'.offset = 0
  BY <1>1 DEF Talk!Closed
<1>3. -1 \notin ChatSlots
  BY ChatAssumption
<1> QED  BY <1>1, <1>2, <1>3, LoadBegins DEF LoadKinds

LEMMA NothingLoads ==
  ASSUME ChatInv, LoadInv, win.cid = 0
  PROVE  win.loading = FALSE /\ win.offset = 0 /\ (win.agent # NoAgent => Paged = {})
         /\ \A r \in ChatSlots : asks[r].kind \notin LoadKinds
<1>1. \A r \in ChatSlots : asks[r].kind \notin LoadKinds
  BY DEF ChatInv, AskFits, LoadInv, LoadFits, LoadKinds
<1>2. win.loading = FALSE
  BY <1>1 DEF ChatInv, ChatShape, ChatWin, LoadInv, LoadingSays, LoadKinds
<1> QED  BY <1>1, <1>2 DEF LoadInv, NoHoles

LEMMA LookupLoad ==
  ASSUME ChatInv, LoadInv, ChatShape', NEW s \in ChatSlots, Talk!LookupAnswered(s)
  PROVE  LoadInv'
<1>1. /\ ChatShape /\ AskFits(asks[s]) /\ asks[s] \in ChatAsk /\ asks[s].kind = "lookup"
      /\ UNCHANGED << texts, queue, bubbles >>
  BY DEF ChatInv, ChatShape, Talk!LookupAnswered
<1>2. CASE Talk!Done(s) /\ UNCHANGED win
  BY <1>1, <1>2, DoneLoad
<1>3. CASE /\ win' = [win EXCEPT !.cid = asks[s].cid, !.offset = 0, !.more = TRUE]
           /\ Talk!Ask(s, "check", asks[s].cid, 0) /\ Talk!MayAdopt(s)
  <2>1. win.cid = 0 /\ win.agent # NoAgent /\ win.agent \in ChatAgent /\ asks[s].cid \in ChatCid
    BY <1>1, <1>3 DEF AskFits, Talk!MayAdopt, ChatAsk, ChatShape, ChatWin
  <2>2. win'.agent = win.agent /\ win'.cid = asks[s].cid /\ win'.offset = 0 /\ win'.loading = win.loading
    BY <1>1, <1>3 DEF ChatShape, ChatWin
  <2>3. /\ \A r \in ChatSlots \ {s} : asks'[r] = asks[r]
        /\ asks'[s].kind = "check" /\ asks'[s].stage = "asked" /\ asks'[s].cid = asks[s].cid /\ asks'[s].offset = 0
    BY <1>1, <1>3, <2>1, <2>2, AskIs
  <2>4. Paged' = {} /\ win.loading = FALSE /\ \A r \in ChatSlots : asks[r].kind \notin LoadKinds
    BY <1>1, <2>1, NothingLoads DEF Paged
  <2> QED  BY <2>2, <2>3, <2>4, LoadBegins DEF LoadKinds
<1> QED  BY <1>2, <1>3, Zenon DEF Talk!LookupAnswered

LEMMA CheckLoad ==
  ASSUME ChatInv, LoadInv, ChatShape', NEW s \in ChatSlots, Talk!CheckAnswered(s)
  PROVE  LoadInv'
<1>1. /\ ChatShape /\ asks[s] \in ChatAsk /\ asks[s].kind = "check" /\ UNCHANGED << texts, queue >>
  BY DEF ChatInv, ChatShape, Talk!CheckAnswered
<1>2. CASE Talk!Done(s) /\ UNCHANGED << win, bubbles >>
  BY <1>1, <1>2, DoneLoad
<1>3. CASE /\ win' = [win EXCEPT !.last = IF asks[s].stage = "failed" THEN @ ELSE Talk!Latest(s)]
           /\ bubbles' = << >> /\ Talk!Ask(s, "page", asks[s].cid, 0)
  <2>1. /\ asks[s].cid = win.cid /\ win.offset = 0 /\ \A r \in ChatSlots \ {s} : asks[r].kind \notin LoadKinds
        /\ win.loading = FALSE
    <3>1. \A r \in ChatSlots : asks[r].kind \in LoadKinds => r = s
      BY <1>1 DEF LoadInv, OneLoad, LoadKinds
    <3>2. ~ \E r \in ChatSlots : asks[r].kind = "more"
      BY <1>1, <3>1 DEF LoadKinds
    <3>3. win.loading = FALSE
      BY <1>1, <3>2 DEF LoadInv, LoadingSays, ChatShape, ChatWin
    <3> QED  BY <1>1, <3>1, <3>3 DEF LoadInv, LoadFits, LoadKinds
  <2>2. win'.agent = win.agent /\ win'.cid = win.cid /\ win'.offset = 0 /\ win'.loading = FALSE
        /\ win.agent \in ChatAgent
    <3> DEFINE last == IF asks[s].stage = "failed" THEN win.last ELSE Talk!Latest(s)
    <3>1. win' = [win EXCEPT !.last = last]
      BY <1>3
    <3> HIDE DEF last
    <3> QED  BY <1>1, <2>1, <3>1 DEF ChatShape, ChatWin
  <2>3. /\ \A r \in ChatSlots \ {s} : asks'[r] = asks[r]
        /\ asks'[s].kind = "page" /\ asks'[s].stage = "asked" /\ asks'[s].cid = asks[s].cid /\ asks'[s].offset = 0
    BY <1>1, <1>3, <2>2, AskIs DEF ChatAsk
  <2>4. Paged' = {}
    BY <1>3 DEF Paged, IdsIn
  <2> QED  BY <2>1, <2>2, <2>3, <2>4, LoadBegins DEF LoadKinds
<1> QED  BY <1>2, <1>3, Zenon DEF Talk!CheckAnswered

LEMMA ScrollLoad ==
  ASSUME ChatInv, LoadInv, ChatShape', Talk!HandleScroll
  PROVE  LoadInv'
<1>1. /\ ChatShape /\ Talk!Free # {} /\ win.cid # 0 /\ ~win.loading /\ Talk!HasPage
      /\ win' = [win EXCEPT !.loading = TRUE] /\ Talk!Ask(Talk!NextSlot, "more", win.cid, win.offset)
      /\ UNCHANGED << texts, queue, bubbles >>
  BY DEF ChatInv, Talk!HandleScroll, Talk!MayScroll
<1>2. PICK s \in ChatSlots : s = Talk!NextSlot
  BY <1>1, NextIsFree
<1>3. /\ win'.agent = win.agent /\ win'.cid = win.cid /\ win'.offset = win.offset /\ win'.seen = win.seen
      /\ win'.loading = TRUE /\ win.agent \in ChatAgent /\ win.cid \in ChatCid /\ win.offset \in Nat
  BY <1>1 DEF ChatShape, ChatWin
<1>4. /\ \A r \in ChatSlots \ {s} : asks'[r] = asks[r]
      /\ asks'[s].kind = "more" /\ asks'[s].stage = "asked" /\ asks'[s].cid = win.cid
      /\ asks'[s].offset = win.offset
  BY <1>1, <1>2, <1>3, AskIs
<1>5. Paged # {}
  <2>1. PICK i \in 1 .. Len(bubbles) : bubbles[i].how = "page"
    BY <1>1 DEF Talk!HasPage
  <2>2. bubbles[i].id \in Paged
    BY <2>1, IdsMember DEF Paged
  <2> QED  BY <2>2
<1>6. \A r \in ChatSlots : asks[r].kind \notin LoadKinds
  BY <1>1, <1>5 DEF LoadInv, LoadFits, LoadingSays, LoadKinds
<1>7. \A r \in ChatSlots : LoadFits(r)'
  <2>1. LoadFits(s)'
    BY <1>3, <1>4 DEF LoadFits
  <2>2. \A r \in ChatSlots \ {s} : LoadFits(r)'
    BY <1>4, <1>6 DEF LoadFits
  <2> QED  BY <2>1, <2>2
<1>8. OneLoad' /\ LoadingSays'
  BY <1>2, <1>3, <1>4, <1>6 DEF OneLoad, LoadingSays, LoadKinds
<1>9. NoHoles'
  <2>1. Paged' = Paged /\ OwnRows' = OwnRows /\ Results' = Results
    BY <1>1, <1>3 DEF Paged, OwnRows, RowsOf, Results
  <2>2. \A r \in Results : Covered(r)' <=> Covered(r)
    BY <1>1, <1>3 DEF Covered, Shown
  <2> QED  BY <1>3, <2>1, <2>2 DEF LoadInv, NoHoles
<1> QED  BY <1>7, <1>8, <1>9 DEF LoadInv

\* A page is shown: what was loaded is what it joined.
LEMMA PageShownLoad ==
  ASSUME ChatInv, LoadInv, ChatShape', NEW s \in ChatSlots, asks[s].kind \in {"page", "more"},
         asks[s].stage = "answered", UNCHANGED << texts, queue >>, Talk!Done(s),
         win'.agent = win.agent, win'.cid = win.cid, win'.loading = FALSE,
         win'.offset = win.offset + Len(asks[s].ids),
         win'.seen \subseteq win.seen \/ win'.seen = IdsOf(asks[s]),
         \A hows \in {{"page"}, {"page", "push"}} :
           IdsIn(bubbles', hows) = IdsIn(bubbles, hows) \cup IdsOf(asks[s])
  PROVE  LoadInv'
<1>1. asks'[s].kind = "idle" /\ \A r \in ChatSlots \ {s} : asks'[r] = asks[r]
  BY DoneIs DEF ChatInv
<1>2. \A r \in ChatSlots : asks'[r].kind \notin LoadKinds
  BY <1>1 DEF LoadInv, OneLoad, LoadKinds
<1>3. Paged' = Paged \cup IdsOf(asks[s]) /\ Shown' = Shown \cup IdsOf(asks[s])
  BY DEF Paged, Shown
<1>4. OwnRows' = OwnRows /\ Results' = Results
  BY DEF OwnRows, RowsOf, Results
<1>5. AnswerFits(asks[s]) /\ win.cid # 0
  BY DEF LoadInv, LoadFits, LoadKinds, ChatInv, AskFits
<1>6. \A x \in Results : Covered(x) \/ x \in IdsOf(asks[s]) => Covered(x)'
  BY <1>3 DEF Covered
<1>7. \A x \in Results : (\E i \in Paged' : i < x) => Covered(x)'
  BY <1>3, <1>5, <1>6 DEF AnswerFits, LoadInv, NoHoles
<1>8. NoHoles'
  BY <1>3, <1>4, <1>5, <1>7 DEF NoHoles, AnswerFits
<1>9. (\A r \in ChatSlots : LoadFits(r)') /\ OneLoad' /\ LoadingSays'
  BY <1>2 DEF LoadFits, OneLoad, LoadingSays, LoadKinds
<1> QED  BY <1>8, <1>9 DEF LoadInv

LEMMA PageLoad ==
  ASSUME ChatInv, LoadInv, ChatShape', NEW s \in ChatSlots, Talk!PageAnswered(s)
  PROVE  LoadInv'
<1> DEFINE ids == asks[s].ids
           q == Talk!Bubbles(ids, "page")
<1>1. /\ ChatShape /\ asks[s] \in ChatAsk /\ asks[s].kind = "page" /\ UNCHANGED << texts, queue >> /\ Talk!Done(s)
      /\ asks[s].stage \in {"answered", "failed"}
  BY DEF ChatInv, ChatShape, Talk!PageAnswered
<1>2. CASE UNCHANGED << win, bubbles >>
  BY <1>1, <1>2, DoneLoad
<1>3. CASE /\ win' = [win EXCEPT !.more = @ /\ Len(ids) >= ChatPage, !.offset = Len(ids),
                                 !.seen = {ids[i] : i \in 1 .. Len(ids)}]
           /\ bubbles' = bubbles \o q /\ asks[s].stage # "failed"
  <2>1. ids \in Seq(Nat) /\ Len(ids) \in Nat /\ IdsOf(asks[s]) = {ids[i] : i \in 1 .. Len(ids)}
    BY <1>1 DEF ChatAsk, IdsOf
  <2>2. win.offset = 0 /\ win.loading = FALSE
    <3>1. ~ \E r \in ChatSlots : asks[r].kind = "more"
      BY <1>1 DEF LoadInv, OneLoad, LoadKinds
    <3> QED  BY <1>1, <3>1 DEF LoadInv, LoadFits, LoadKinds, LoadingSays, ChatShape, ChatWin
  <2>3. /\ win'.agent = win.agent /\ win'.cid = win.cid /\ win'.loading = FALSE
        /\ win'.offset = win.offset + Len(ids) /\ win'.seen = IdsOf(asks[s])
    <3> DEFINE more == Len(ids) >= ChatPage
               next == Len(ids)
               now == IdsOf(asks[s])
    <3>1. win' = [win EXCEPT !.more = win.more /\ more, !.offset = next, !.seen = now] /\ win \in ChatWin
      BY <1>1, <1>3, <2>1 DEF ChatShape
    <3>2. next = win.offset + Len(ids)
      BY <2>1, <2>2
    <3> HIDE DEF more, next, now, ids
    <3>3. win'.agent = win.agent /\ win'.cid = win.cid /\ win'.loading = win.loading
          /\ win'.offset = next /\ win'.seen = now
      BY <3>1 DEF ChatWin
    <3> QED  BY <2>2, <3>2, <3>3 DEF now
  <2>4. q \in Seq(ChatBubble) /\ bubbles \in Seq(ChatBubble)
    BY <1>1, <2>3, AnswerIsOwn DEF ChatShape
  <2>5. \A hows \in {{"page"}, {"page", "push"}} : IdsIn(bubbles', hows) = IdsIn(bubbles, hows) \cup IdsOf(asks[s])
    <3> SUFFICES ASSUME NEW hows \in {{"page"}, {"page", "push"}}
                 PROVE  IdsIn(bubbles', hows) = IdsIn(bubbles, hows) \cup IdsOf(asks[s])
      OBVIOUS
    <3>1. "page" \in hows
      OBVIOUS
    <3>2. IdsIn(q, hows) = IdsOf(asks[s])
      BY <2>1, <3>1, IdsBubbles
    <3> HIDE DEF q
    <3> QED  BY <1>3, <2>4, <3>2, IdsConcat
  <2> QED  BY <1>1, <1>3, <2>3, <2>5, PageShownLoad
<1> QED  BY <1>2, <1>3, Zenon DEF Talk!PageAnswered, Talk!PageShown

LEMMA OlderLoad ==
  ASSUME ChatInv, LoadInv, ChatShape', NEW s \in ChatSlots, Talk!OlderAnswered(s)
  PROVE  LoadInv'
<1> DEFINE ids == asks[s].ids
           q == Talk!Bubbles(ids, "page")
<1>1. /\ ChatShape /\ win \in ChatWin /\ asks[s] \in ChatAsk /\ asks[s].kind = "more"
      /\ UNCHANGED << texts, queue >> /\ Talk!Done(s) /\ asks[s].stage \in {"answered", "failed"}
      /\ win' = IF asks[s].stage = "failed" THEN [win EXCEPT !.loading = FALSE]
                ELSE [win EXCEPT !.loading = FALSE, !.more = @ /\ Len(ids) >= ChatPage, !.offset = @ + Len(ids)]
      /\ bubbles' = IF asks[s].stage = "failed" THEN bubbles ELSE q \o bubbles
  BY DEF ChatInv, ChatShape, Talk!OlderAnswered
<1>2. CASE asks[s].stage = "failed"
  <2>1. /\ win'.agent = win.agent /\ win'.cid = win.cid /\ win'.offset = win.offset /\ win'.seen = win.seen
        /\ win'.loading = FALSE /\ bubbles' = bubbles
    BY <1>1, <1>2 DEF ChatWin
  <2>2. asks'[s].kind = "idle" /\ \A r \in ChatSlots \ {s} : asks'[r] = asks[r]
    BY <1>1, DoneIs
  <2>3. \A r \in ChatSlots : asks'[r].kind \notin LoadKinds
    BY <1>1, <2>2 DEF LoadInv, OneLoad, LoadKinds
  <2>4. (\A r \in ChatSlots : LoadFits(r)') /\ OneLoad' /\ LoadingSays'
    BY <2>1, <2>3 DEF LoadFits, OneLoad, LoadingSays, LoadKinds
  <2>5. Paged' = Paged /\ OwnRows' = OwnRows /\ Results' = Results
    BY <1>1, <2>1 DEF Paged, OwnRows, RowsOf, Results
  <2>6. \A x \in Results : Covered(x)' <=> Covered(x)
    BY <1>1, <2>1 DEF Covered, Shown
  <2>7. NoHoles'
    BY <2>1, <2>5, <2>6 DEF LoadInv, NoHoles
  <2> QED  BY <2>4, <2>7 DEF LoadInv
<1>3. CASE asks[s].stage # "failed"
  <2>1. ids \in Seq(Nat) /\ Len(ids) \in Nat /\ IdsOf(asks[s]) = {ids[i] : i \in 1 .. Len(ids)}
    BY <1>1 DEF ChatAsk, IdsOf
  <2>2. /\ win'.agent = win.agent /\ win'.cid = win.cid /\ win'.loading = FALSE
        /\ win'.offset = win.offset + Len(ids) /\ win'.seen = win.seen
    <3> DEFINE more == Len(ids) >= ChatPage
               next == win.offset + Len(ids)
    <3>1. win' = [win EXCEPT !.loading = FALSE, !.more = win.more /\ more, !.offset = next]
      BY <1>1, <1>3
    <3> HIDE DEF more, next
    <3>2. /\ win'.agent = win.agent /\ win'.cid = win.cid /\ win'.loading = FALSE
          /\ win'.offset = next /\ win'.seen = win.seen
      BY <1>1, <3>1 DEF ChatWin
    <3> QED  BY <3>2 DEF next
  <2>3. q \in Seq(ChatBubble) /\ bubbles \in Seq(ChatBubble)
    BY <1>1, <2>2, AnswerIsOwn DEF ChatShape
  <2>4. \A hows \in {{"page"}, {"page", "push"}} : IdsIn(bubbles', hows) = IdsIn(bubbles, hows) \cup IdsOf(asks[s])
    <3> SUFFICES ASSUME NEW hows \in {{"page"}, {"page", "push"}}
                 PROVE  IdsIn(bubbles', hows) = IdsIn(bubbles, hows) \cup IdsOf(asks[s])
      OBVIOUS
    <3>1. "page" \in hows /\ bubbles' = q \o bubbles
      BY <1>1, <1>3
    <3>2. IdsIn(q, hows) = IdsOf(asks[s])
      BY <2>1, <3>1, IdsBubbles
    <3> HIDE DEF q
    <3>3. IdsIn(q \o bubbles, hows) = IdsIn(q, hows) \cup IdsIn(bubbles, hows)
      BY <2>3, IdsConcat
    <3> QED  BY <3>1, <3>2, <3>3
  <2> HIDE DEF q
  <2> QED  BY <1>1, <1>3, <2>2, <2>4, PageShownLoad
<1> QED  BY <1>2, <1>3

\* Steps that leave what is loaded and only touch other bubbles
LEMMA OtherBubbles ==
  ASSUME LoadInv, ChatShape', UNCHANGED << texts, queue, win >>,
         \A hows \in {{"page"}, {"page", "push"}} : IdsIn(bubbles', hows) = IdsIn(bubbles, hows),
         NEW s, \A r \in ChatSlots \ {s} : asks'[r] = asks[r],
         s \in ChatSlots => asks'[s].kind \in {"idle", "send"} /\ asks[s].kind \in {"idle", "send"}
  PROVE  LoadInv'
<1>1. Paged' = Paged /\ Shown' = Shown /\ OwnRows' = OwnRows /\ Results' = Results
  BY DEF Paged, Shown, OwnRows, RowsOf, Results
<1>2. \A r \in Results' : Covered(r)' \/ (r \in Results /\ ~Covered(r))
  BY <1>1 DEF Covered
<1>3. s \in ChatSlots => LoadFits(s)'
  BY DEF LoadFits, LoadKinds
<1> QED  BY <1>1, <1>2, <1>3, LoadKept DEF LoadKinds

LEMMA TextLoad ==
  ASSUME ChatInv, LoadInv, ChatShape', Talk!Free # {}, win.agent # NoAgent, UNCHANGED << texts, queue, win >>,
         Talk!Ask(Talk!NextSlot, "send", win.cid, 0), NEW q \in Seq(ChatBubble),
         \A hows \in {{"page"}, {"page", "push"}} : IdsIn(q, hows) = IdsIn(bubbles, hows),
         bubbles' = Append(q, Talk!Bubble(win.agent, "temp", Talk!NextSlot))
  PROVE  LoadInv'
<1>1. PICK s \in ChatSlots : s = Talk!NextSlot /\ asks[s].kind = "idle"
  BY NextIsFree
<1>2. ChatShape /\ win.agent \in ChatAgent /\ win.cid \in ChatCid
  BY DEF ChatInv, ChatShape, ChatWin
<1>3. asks'[s].kind = "send" /\ \A r \in ChatSlots \ {s} : asks'[r] = asks[r]
  BY <1>1, <1>2, AskIs
<1> DEFINE b == [peer |-> win.agent, how |-> "temp", id |-> s]
<1>4. b \in ChatBubble /\ b.how = "temp" /\ bubbles' = Append(q, b)
  BY <1>1, <1>2, ChatAssumption DEF ChatBubble, Talk!Bubble
<1> HIDE DEF b
<1>5. ASSUME NEW hows \in {{"page"}, {"page", "push"}} PROVE IdsIn(bubbles', hows) = IdsIn(bubbles, hows)
  <2>1. b.how \notin hows
    BY <1>4
  <2>2. IdsIn(bubbles', hows) = IdsIn(q, hows)
    BY <1>4, <2>1, IdsAppend
  <2> QED  BY <2>2
<1> QED  BY <1>1, <1>3, <1>5, OtherBubbles

LEMMA SendMessageLoad ==
  ASSUME ChatInv, LoadInv, ChatShape', Talk!SendMessage
  PROVE  LoadInv'
<1>1. bubbles \in Seq(ChatBubble)
  BY DEF ChatInv, ChatShape
<1> QED  BY <1>1, TextLoad DEF Talk!SendMessage

LEMMA RetryLoad ==
  ASSUME ChatInv, LoadInv, ChatShape', NEW i \in 1 .. Len(bubbles), Talk!RetrySend(i)
  PROVE  LoadInv'
<1> DEFINE q == SubSeq(bubbles, 1, i - 1) \o SubSeq(bubbles, i + 1, Len(bubbles))
<1>1. ChatShape /\ bubbles \in Seq(ChatBubble) /\ Len(bubbles) \in Nat /\ bubbles[i].how = "failed"
  BY DEF ChatInv, ChatShape, Talk!RetrySend
<1>2. q \in Seq(ChatBubble)
  <2>1. SubSeq(bubbles, 1, i - 1) \in Seq(ChatBubble)
    BY <1>1, SubSeqProperties
  <2>2. SubSeq(bubbles, i + 1, Len(bubbles)) \in Seq(ChatBubble)
    BY <1>1, SubSeqProperties
  <2> QED  BY <2>1, <2>2
<1>3. \A hows \in {{"page"}, {"page", "push"}} : IdsIn(q, hows) = IdsIn(bubbles, hows)
  <2> SUFFICES ASSUME NEW hows \in {{"page"}, {"page", "push"}} PROVE IdsIn(q, hows) = IdsIn(bubbles, hows)
    OBVIOUS
  <2>1. bubbles[i].how \notin hows
    BY <1>1
  <2> QED  BY <1>1, <2>1, IdsRemoved
<1> HIDE DEF q
<1>4. bubbles' = Append(q, Talk!Bubble(win.agent, "temp", Talk!NextSlot))
  BY DEF Talk!RetrySend, q
<1> QED  BY <1>2, <1>3, <1>4, TextLoad DEF Talk!RetrySend

LEMMA SentLoad ==
  ASSUME ChatInv, LoadInv, ChatShape', NEW s \in ChatSlots, Talk!SendAnswered(s)
  PROVE  LoadInv'
<1>1. /\ ChatShape /\ AskFits(asks[s]) /\ asks[s] \in ChatAsk /\ asks[s].kind = "send"
      /\ UNCHANGED << texts, queue >> /\ Talk!Done(s)
      /\ asks[s].agent = win.agent /\ win.agent # NoAgent /\ win \in ChatWin
  BY DEF ChatInv, ChatShape, Talk!SendAnswered, AskFits
<1>2. asks'[s].kind = "idle" /\ \A r \in ChatSlots \ {s} : asks'[r] = asks[r]
  BY <1>1, DoneIs
<1>3. CASE bubbles' = Talk!Mark(s, "failed") /\ UNCHANGED win
  <2>1. \A hows \in {{"page"}, {"page", "push"}} : IdsIn(bubbles', hows) = IdsIn(bubbles, hows)
    <3> SUFFICES ASSUME NEW hows \in {{"page"}, {"page", "push"}} PROVE IdsIn(bubbles', hows) = IdsIn(bubbles, hows)
      OBVIOUS
    <3>1. "temp" \notin hows /\ "failed" \notin hows
      OBVIOUS
    <3> QED  BY <1>1, <1>3, <3>1, IdsMarked
  <2> QED  BY <1>1, <1>2, <1>3, <2>1, OtherBubbles
<1>4. CASE /\ win' = [win EXCEPT !.cid = IF @ = 0 THEN asks[s].cid ELSE @]
           /\ bubbles' = Append(Talk!Mark(s, "sent"), Talk!Bubble(asks[s].agent, "reply", 0))
  <2> DEFINE b == [peer |-> asks[s].agent, how |-> "reply", id |-> 0]
             q == Talk!Mark(s, "sent")
  <2>1. b \in ChatBubble /\ b.how = "reply" /\ bubbles' = Append(q, b)
    BY <1>1, <1>4 DEF ChatBubble, Talk!Bubble, ChatAsk
  <2>2. q \in Seq(ChatBubble)
    <3>1. win'.agent = win.agent
      BY <1>1, <1>4 DEF ChatWin
    <3> QED  BY <1>1, <1>2, <3>1, Marked
  <2>3. \A hows \in {{"page"}, {"page", "push"}} : IdsIn(bubbles', hows) = IdsIn(bubbles, hows)
    <3> SUFFICES ASSUME NEW hows \in {{"page"}, {"page", "push"}} PROVE IdsIn(bubbles', hows) = IdsIn(bubbles, hows)
      OBVIOUS
    <3>1. "temp" \notin hows /\ "sent" \notin hows /\ b.how \notin hows
      BY <2>1
    <3>2. IdsIn(q, hows) = IdsIn(bubbles, hows)
      BY <1>1, <3>1, IdsMarked
    <3> HIDE DEF q, b
    <3>3. IdsIn(Append(q, b), hows) = IdsIn(q, hows)
      BY <2>1, <2>2, <3>1, IdsAppend
    <3> QED  BY <2>1, <3>2, <3>3
  <2>4. CASE win.cid # 0
    <3>1. win' = win
      BY <1>1, <1>4, <2>4 DEF ChatWin
    <3> QED  BY <1>1, <1>2, <2>3, <3>1, OtherBubbles
  <2>5. CASE win.cid = 0
    <3>1. win.loading = FALSE /\ win.offset = 0 /\ Paged = {} /\ \A r \in ChatSlots : asks[r].kind \notin LoadKinds
      BY <1>1, <2>5, NothingLoads
    <3>2. win'.loading = FALSE /\ win'.offset = 0
      BY <1>1, <1>4, <3>1 DEF ChatWin
    <3>3. Paged' = {}
      BY <2>3, <3>1 DEF Paged
    <3>4. \A r \in ChatSlots : asks'[r].kind \notin LoadKinds
      BY <1>2, <3>1 DEF LoadKinds
    <3> QED  BY <3>2, <3>3, <3>4, LoadBegins
  <2> QED  BY <2>4, <2>5
<1> QED  BY <1>3, <1>4, Zenon DEF Talk!SendAnswered

LEMMA NewMessageLoad ==
  ASSUME ChatInv, LoadInv, ChatShape', Talk!NewMessage
  PROVE  LoadInv'
<1> DEFINE id == Head(queue)
           q == Talk!Bubbles(<< id >>, "push")
<1>1. /\ ChatShape /\ queue # << >> /\ queue' = Tail(queue) /\ UNCHANGED << texts, asks >>
      /\ queue \in Seq(1 .. Len(texts)) /\ Len(texts) \in Nat
  BY DEF ChatInv, ChatShape, Talk!NewMessage
<1>2. id \in 1 .. Len(texts) /\ id \in Nat
      /\ \A r : r # id /\ (\E j \in 1 .. Len(queue) : queue[j] = r) => \E j \in 1 .. Len(queue') : queue'[j] = r
  <2> DEFINE T == 1 .. Len(texts)
  <2>1. queue \in Seq(T) /\ \A i \in T : i \in Nat
    BY <1>1
  <2> HIDE DEF T
  <2>2. /\ Len(queue) \in Nat \ {0} /\ queue[1] = id /\ id \in T /\ Len(queue') = Len(queue) - 1
        /\ \A j \in 1 .. Len(queue) - 1 : queue'[j] = queue[j + 1]
    BY <1>1, <2>1
  <2>3. ASSUME NEW r, r # id, NEW j \in 1 .. Len(queue), queue[j] = r PROVE \E k \in 1 .. Len(queue') : queue'[k] = r
    <3>1. j - 1 \in 1 .. Len(queue') /\ queue'[j - 1] = queue[j]
      <4>1. j # 1
        BY <2>2, <2>3
      <4>2. j - 1 \in 1 .. Len(queue) - 1 /\ (j - 1) + 1 = j
        BY <2>2, <4>1
      <4> QED  BY <2>2, <4>2
    <3> QED  BY <2>3, <3>1
  <2> QED  BY <2>1, <2>2, <2>3 DEF T
<1>3. -1 \notin ChatSlots
  BY ChatAssumption
<1>4. CASE (Talk!IsForOther(id) \/ id \in win.seen) /\ UNCHANGED << win, bubbles >>
  <2>1. Paged' = Paged /\ Shown' = Shown /\ OwnRows' = OwnRows /\ Results' = Results
    BY <1>1, <1>4 DEF Paged, Shown, OwnRows, RowsOf, Results
  <2>2. ASSUME NEW r \in Results, Covered(r), win.cid # 0 PROVE Covered(r)'
    <3>1. r \notin win.seen => r # id
      BY <1>4, <2>2 DEF Talk!IsForOther, Results, OwnRows, RowsOf
    <3> HIDE DEF id
    <3> QED  BY <1>2, <1>4, <2>1, <2>2, <3>1 DEF Covered
  <2>3. CASE win.cid # 0
    <3>1. \A r \in Results' : Covered(r)' \/ (r \in Results /\ ~Covered(r))
      BY <2>1, <2>2, <2>3
    <3> QED  BY <1>1, <1>3, <1>4, <2>1, <3>1, LoadKept
  <2>4. CASE win.cid = 0
    <3>1. \A r \in ChatSlots : asks[r].kind \notin LoadKinds
      BY <2>4, NothingLoads
    <3> QED  BY <1>1, <1>4, <2>1, <2>4, <3>1 DEF LoadInv, LoadFits, OneLoad, LoadingSays, NoHoles
  <2> QED  BY <2>3, <2>4
<1>5. CASE win' = [win EXCEPT !.seen = @ \cup {id}] /\ bubbles' = bubbles \o q
  <2>1. /\ win'.agent = win.agent /\ win'.cid = win.cid /\ win'.offset = win.offset /\ win'.loading = win.loading
        /\ win'.seen = win.seen \cup {id}
    BY <1>1, <1>5 DEF ChatShape, ChatWin
  <2>2. /\ bubbles \in Seq(ChatBubble) /\ q \in Seq(ChatBubble)
        /\ \A hows : IdsIn(q, hows) = IF "push" \in hows THEN {id} ELSE {}
    <3> DEFINE ids == << id >>
    <3>1. /\ ids \in Seq(Nat) /\ Len(ids) = 1 /\ \A k \in 1 .. Len(ids) : ids[k] \in 1 .. Len(texts)
          /\ {ids[k] : k \in 1 .. Len(ids)} = {id}
      BY <1>2
    <3>2. q = Talk!Bubbles(ids, "push") /\ bubbles \in Seq(ChatBubble) /\ WinFits
      BY <1>1 DEF ChatShape, ChatInv
    <3> HIDE DEF q, ids, id
    <3>3. q \in Seq(ChatBubble)
      BY <1>1, <3>1, <3>2, BubblesAre
    <3>4. \A hows : IdsIn(q, hows) = IF "push" \in hows THEN {id} ELSE {}
      BY <3>1, <3>2, IdsBubbles
    <3> QED  BY <3>2, <3>3, <3>4
  <2> HIDE DEF q, id
  <2>3. Paged' = Paged /\ Shown' = Shown \cup {id} /\ OwnRows' = OwnRows /\ Results' = Results
    <3>1. "push" \notin {"page"} /\ "push" \in {"page", "push"}
      OBVIOUS
    <3>2. /\ IdsIn(bubbles \o q, {"page"}) = IdsIn(bubbles, {"page"}) \cup IdsIn(q, {"page"})
          /\ IdsIn(bubbles \o q, {"page", "push"})
             = IdsIn(bubbles, {"page", "push"}) \cup IdsIn(q, {"page", "push"})
      BY <2>2, IdsConcat
    <3>3. IdsIn(q, {"page"}) = {} /\ IdsIn(q, {"page", "push"}) = {id}
      BY <2>2, <3>1
    <3>4. Paged' = Paged
      BY <1>5, <3>2, <3>3 DEF Paged
    <3>5. Shown' = Shown \cup {id}
      BY <1>5, <3>2, <3>3 DEF Shown
    <3> QED  BY <1>1, <2>1, <3>4, <3>5 DEF OwnRows, RowsOf, Results
  <2>4. \A r \in Results' : Covered(r)' \/ (r \in Results /\ ~Covered(r))
    <3> SUFFICES ASSUME NEW r \in Results', r \in Results, Covered(r) PROVE Covered(r)'
      BY <2>3
    <3>1. CASE r = id \/ r \in Shown
      BY <2>3, <3>1 DEF Covered
    <3>2. CASE r # id /\ r \notin Shown
      BY <1>2, <2>1, <3>2 DEF Covered
    <3> QED  BY <3>1, <3>2
  <2> QED  BY <1>1, <1>3, <2>1, <2>3, <2>4, LoadKept
<1> QED  BY <1>4, <1>5, Zenon DEF Talk!NewMessage

-----------------------------------------------------------------------------
(* Windows are true *)

LEMMA LoadStarts == ChatInv /\ Talk!Init => LoadInv
<1> SUFFICES ASSUME ChatInv, Talk!Init PROVE LoadInv
  OBVIOUS
<1>1. /\ texts = << >> /\ win = Talk!Closed /\ bubbles = << >> /\ \A s \in ChatSlots : asks[s].kind = "idle"
  BY DEF Talk!Init, Talk!Idle
<1>2. win.cid = 0 /\ win.offset = 0 /\ win.loading = FALSE /\ Paged = {}
  BY <1>1 DEF Talk!Closed, Paged, IdsIn
<1> QED  BY <1>1, <1>2 DEF LoadInv, LoadFits, OneLoad, LoadingSays, NoHoles, LoadKinds

LEMMA LoadSteps ==
  ASSUME ChatLeaves \subseteq {"lookup"}, ChatInv, LoadInv, Talk!Next, ChatInv'
  PROVE  LoadInv'
<1>1. ChatShape'
  BY DEF ChatInv
<1>2. ASSUME NEW s \in ChatSlots, Talk!ServeSend(s) \/ Talk!AnswerSend(s) \/ Talk!ServeMessages(s)
                                  \/ Talk!ServeLookup(s) \/ Talk!Fail(s)
      PROVE  LoadInv'
  BY <1>1, <1>2, ServeSendLoad, AnswerSendLoad, ServeMessagesLoad, ServeLookupLoad, FailLoad
<1>3. ASSUME NEW s \in ChatSlots, Talk!Continuation(s) PROVE LoadInv'
  BY <1>1, <1>3, LookupLoad, CheckLoad, PageLoad, OlderLoad, SentLoad DEF Talk!Continuation
<1>4. ASSUME NEW c \in ChatIds, Talk!InsertMessage(c) PROVE LoadInv'
  BY <1>1, <1>4, InsertMessageLoad
<1>5. ASSUME NEW a \in Contacts, Talk!OpenChatWindow(a, 0) PROVE LoadInv'
  BY <1>1, <1>5, OpenChatLoad DEF ChatCid
<1>6. ASSUME NEW c \in ChatIds, peer[c] # NoAgent, Talk!OpenChatWindow(peer[c], c) PROVE LoadInv'
  <2>1. PICK a \in Contacts : a = peer[c]
    BY <1>6 DEF ChatInv, ChatShape, ChatAgent
  <2>2. Talk!OpenChatWindow(a, c) /\ c \in ChatCid
    BY <1>6, <2>1 DEF ChatCid
  <2> QED  BY <1>1, <2>1, <2>2, OpenChatLoad
<1>7. ASSUME Talk!WsClose \/ Talk!WsOpen \/ Talk!CloseChatWindow \/ Talk!HandleScroll \/ Talk!SendMessage
             \/ Talk!NewMessage
      PROVE  LoadInv'
  BY <1>1, <1>7, WsCloseLoad, WsOpenLoad, CloseChatLoad, ScrollLoad, SendMessageLoad, NewMessageLoad
<1>8. ASSUME NEW i \in 1 .. Len(bubbles), Talk!RetrySend(i) PROVE LoadInv'
  BY <1>1, <1>8, RetryLoad
<1> QED  BY <1>2, <1>3, <1>4, <1>5, <1>6, <1>7, <1>8 DEF Talk!Next, Talk!Server, Talk!Network, Talk!User

LEMMA IdsShown == \A hows : Talk!Ids(hows) = IdsIn(bubbles, hows)
BY DEF Talk!Ids, IdsIn

LEMMA LoadTyped == ChatInv /\ LoadInv => Talk!ChatTypeOK
<1> SUFFICES ASSUME ChatInv, LoadInv PROVE Talk!ChatTypeOK
  OBVIOUS
<1>1. ChatShape /\ WinFits
  BY DEF ChatInv
<1>2. DOMAIN peer = ChatIds /\ \A c \in DOMAIN peer : peer[c] \in Contacts \cup {NoAgent}
  BY <1>1 DEF ChatShape, ChatAgent
<1>3. \A i \in 1 .. Len(texts) : texts[i].conv \in DOMAIN peer
  <2> SUFFICES ASSUME NEW i \in 1 .. Len(texts) PROVE texts[i].conv \in ChatIds
    BY <1>2
  <2>1. texts[i] \in ChatText
    BY <1>1 DEF ChatShape
  <2> QED  BY <2>1 DEF ChatText
<1>4. win.agent \in Contacts \cup {NoAgent} /\ win.cid \in (DOMAIN peer) \cup {0}
  BY <1>1, <1>2 DEF ChatShape, ChatWin, ChatAgent, ChatCid
<1>5. win.offset \in 0 .. Len(texts) /\ win.seen \subseteq 1 .. Len(texts)
  <2>1. /\ IsFiniteSet(OwnRows) /\ Cardinality(OwnRows) \in 0 .. Len(texts) /\ Len(texts) \in Nat
    BY <1>1, RowsAre DEF ChatShape, OwnRows
  <2>2. From(OwnRows, Paged) \subseteq OwnRows
    BY DEF From
  <2>3. Cardinality(From(OwnRows, Paged)) \in Nat /\ Cardinality(From(OwnRows, Paged)) <= Cardinality(OwnRows)
    BY <2>1, <2>2, FS_Subset, FS_CardinalityType
  <2>4. win.offset \in Nat
    BY <1>1 DEF ChatShape, ChatWin
  <2>5. win.offset <= Len(texts)
    BY <2>1, <2>3, <2>4 DEF LoadInv, NoHoles
  <2> QED  BY <1>1, <2>1, <2>4, <2>5 DEF WinFits
<1>6. \A i \in 1 .. Len(bubbles) : bubbles[i].peer \in Contacts
  <2> SUFFICES ASSUME NEW i \in 1 .. Len(bubbles) PROVE bubbles[i].peer \in Contacts
    OBVIOUS
  <2>1. bubbles \in Seq(Holding)
    BY DEF ChatInv
  <2>2. bubbles[i] \in Holding
    BY <2>1
  <2> QED  BY <2>2 DEF Holding, ChatBubble, ChatAgent
<1>7. \A s \in ChatSlots : asks[s].kind # "idle" => asks[s].agent \in Contacts \cup {NoAgent}
  BY <1>1 DEF ChatShape, ChatAsk, ChatAgent
<1>8. win.loading <=> \E s \in ChatSlots : asks[s].kind = "more"
  BY DEF LoadInv, LoadingSays
<1> QED  BY <1>2, <1>3, <1>4, <1>5, <1>6, <1>7, <1>8, Zenon DEF Talk!ChatTypeOK

LEMMA WindowClaims == ChatInv /\ LoadInv => WindowIsTrue
<1> SUFFICES ASSUME ChatInv, LoadInv PROVE WindowIsTrue
  OBVIOUS
<1>1. Talk!OwnConversation
  BY DEF ChatInv, WinFits, Talk!OwnConversation
<1>2. ASSUME win.cid # 0, NEW r \in 1 .. Len(texts), texts[r].conv = win.cid, texts[r].sender = "result",
             \E i \in Paged : i < r
      PROVE  Covered(r)
  BY <1>2 DEF LoadInv, NoHoles, Results, OwnRows, RowsOf
<1>3. Talk!Ids({"page"}) = Paged /\ Talk!Ids({"page", "push"}) = Shown
  BY IdsShown DEF Paged, Shown
<1>4. Talk!NoGap
  BY <1>2, <1>3 DEF Talk!NoGap, Covered
<1>5. Talk!NothingMissed
  BY <1>2, <1>3 DEF Talk!NothingMissed, Talk!Quiet, Covered
<1> QED  BY <1>1, <1>4, <1>5, LoadTyped DEF WindowIsTrue

\* What a chat window shows is true to the conversation it writes to, however its requests
\* overtake each other and whichever of them fail, for a user who changes windows only while a
\* conversation is looked up: the conversation is one with the agent it shows, no result that
\* was pushed while it loaded is missing, paging back by an offset skips none between two rows
\* on the page though rows are added meanwhile (loadMessages, handleScroll and the listener of
\* chat.js, get_messages), and loadingMore says whether an older page is on its way.
THEOREM WindowsAreTrue ==
  ASSUME ChatLeaves \subseteq {"lookup"}
  PROVE  Talk!Spec => []WindowIsTrue
<1> DEFINE Inv == ChatInv /\ LoadInv
<1>1. Talk!Init => Inv
  BY ChatStarts, LoadStarts
<1>2. Inv /\ [Talk!Next]_(Talk!cvars) => Inv'
  <2>1. Inv /\ Talk!Next => Inv'
    BY ChatSteps, LoadSteps
  <2>2. Inv /\ UNCHANGED Talk!cvars => Inv'
    <3> SUFFICES ASSUME Inv, UNCHANGED Talk!cvars PROVE Inv'
      OBVIOUS
    <3>1. UNCHANGED << peer, texts, queue, linked, win, bubbles, asks >>
      BY DEF Talk!cvars
    <3>2. ChatInv'
      BY <3>1 DEF ChatInv, ChatShape, WinFits, AskFits, IdsFit, Holding
    <3>3. -1 \notin ChatSlots /\ ChatShape'
      BY <3>2, ChatAssumption DEF ChatInv
    <3>4. LoadInv'
      BY <3>1, <3>3, RequestLoad
    <3> QED  BY <3>2, <3>4
  <2> QED  BY <2>1, <2>2
<1>3. Inv => WindowIsTrue
  BY WindowClaims
<1> QED  BY <1>1, <1>2, <1>3, PTL DEF Talk!Spec

=============================================================================
