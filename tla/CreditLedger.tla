---------------------------- MODULE CreditLedger ----------------------------
(***************************************************************************)
(* Credits users earn and spend outside of groups                          *)
(* (core/services/credit_service.py, pollination_service.py,               *)
(* quality_service.py, compute_service.py and their routes): rewards with  *)
(* a daily limit, the exchange of credits for compute, the pool that takes *)
(* half of what is deducted.                                               *)
(*                                                                         *)
(* A limit is kept by adding up the rows of contribution_log that were     *)
(* written today, so two services that write rows of one event type share  *)
(* a limit.  The routes have no await: a request runs to its end, in       *)
(* several transactions, and may fail between them.                        *)
(***************************************************************************)
EXTENDS Integers, FiniteSets

CONSTANTS
  Users,
  Grades,            \* what grade_input gives a text worth something
  FalsifyReward, FalsifyLimit,
  PollinationReward, PollinationLimit,
  PassiveReward, PassiveLimit,
  ExchangeLimit, CreditsPerCompute,
  Offers,            \* credits offered for compute
  Charges,           \* credits a caller deducts
  InitCredits,
  MaxEvents,         \* bound on the requests
  MaxDays,           \* bound on the days
  MaxFaults          \* bound on the failures between two transactions

VARIABLES
  credits,   \* users.credits
  today,     \* points today's rows of contribution_log and compute_transactions add up to
  compute,   \* user_compute_balance.balance
  pool,      \* halves of credits in credit_pool
  recent,    \* users whose last input was rewarded less than five minutes ago
  past,      \* history: credits by what they came from or went to
  events, days, faults

lvars == << credits, today, compute, pool, recent, past, events, days, faults >>

-----------------------------------------------------------------------------
(* credit_service *)

Kinds == {"falsify", "pollination", "passive", "input", "exchange"}
NoPoints == [k \in Kinds |-> 0]

Least(a, b) == IF a < b THEN a ELSE b

\* add_credit writes the balance and a row of kind k, in one transaction; more
\* points may have been logged before.
AddLogged(u, x, k, more) ==
  /\ credits' = [credits EXCEPT ![u] = @ + x]
  /\ today' = [today EXCEPT ![u][k] = @ + more + x]
  /\ past' = [past EXCEPT ![u][k] = @ + x]

AddCredit(u, x, k) == AddLogged(u, x, k, 0)

Request == events < MaxEvents /\ events' = events + 1
Fails == faults < MaxFaults /\ faults' = faults + 1

\* deduct_credits looks at no balance; that the pool gets its half is a second
\* transaction whose failure is swallowed.
Deduct(u, x) ==
  /\ Request
  /\ credits' = [credits EXCEPT ![u] = @ - x]
  /\ past' = [past EXCEPT ![u].deducted = @ + x]
  /\ \/ pool' = pool + x /\ UNCHANGED faults
     \/ Fails /\ UNCHANGED pool
  /\ UNCHANGED << today, compute, recent, days >>

\* /credits/exchange and /credits/stake take credits nobody has to have, and give
\* nothing for them.
Spend(u, x) ==
  /\ Request /\ x > 0
  /\ credits' = [credits EXCEPT ![u] = @ - x]
  /\ past' = [past EXCEPT ![u].spent = @ + x]
  /\ UNCHANGED << today, compute, pool, recent, days, faults >>

\* What is left of a limit when today's rows add up to points
Granted(reward, limit, points) ==
  IF points >= limit THEN 0 ELSE Least(reward, limit - points)

\* deduct_round takes a round's price from whoever has it.
DeductRound(u, x) == credits[u] >= x /\ Deduct(u, x)

-----------------------------------------------------------------------------
(* pollination_service *)

\* Mutant of Points: the query asks for a type its service does not write, as that of
\* try_pollinate_from_input does.
PointsOfOther(u, k) == IF k = "exchange" THEN today[u][k] ELSE 0

\* The reward asks for today's points of its kind.
Points(u, k) == today[u][k]

\* grade_input: chatter earns nothing.
GradeInput == Grades

\* try_pollinate_from_input reads the points of 'pollination' and writes rows of
\* 'input_pollination': rewards of inputs are held back by the cooldown alone.
\* Repeated texts are left out: they can only earn less.
TryPollinate(u) ==
  /\ u \notin recent
  /\ \E g \in GradeInput :
       LET reward == Granted(g, PollinationLimit, Points(u, "pollination"))
       IN  reward > 0 /\ AddCredit(u, reward, "input")
  /\ recent' = recent \cup {u}
  /\ Request /\ UNCHANGED << compute, pool, days, faults >>

Cooldown(u) ==
  /\ u \in recent /\ recent' = recent \ {u}
  /\ UNCHANGED << credits, today, compute, pool, past, events, days, faults >>

SubmitPollination(u) ==
  LET reward == Granted(PollinationReward, PollinationLimit, Points(u, "pollination"))
  IN  /\ reward > 0 /\ AddCredit(u, reward, "pollination")
      /\ Request /\ UNCHANGED << compute, pool, recent, days, faults >>

\* The marker row of submit_falsify also says 'falsify', but the database stamps it
\* in UTC as 'date time' where the query compares with 'dateTtime': it counts only
\* where UTC is a day ahead.
SubmitFalsify(u) ==
  \E marker \in {0, FalsifyReward} :
    LET reward == Granted(FalsifyReward, FalsifyLimit, Points(u, "falsify") + marker)
    IN  /\ reward > 0 /\ AddLogged(u, reward, "falsify", marker)
        /\ Request /\ UNCHANGED << compute, pool, recent, days, faults >>

\* submit_falsify_issue: the issue is stored first; a reward that fails is not paid.
SubmitFalsifyIssue(u) ==
  LET reward == Granted(FalsifyReward, FalsifyLimit, Points(u, "falsify"))
  IN  /\ reward > 0 /\ AddCredit(u, reward, "falsify")
      /\ Request /\ UNCHANGED << compute, pool, recent, days, faults >>

-----------------------------------------------------------------------------
(* compute_service *)

Exchanged(u) == today[u]["exchange"] * CreditsPerCompute

\* Credits go in one transaction, compute comes in another.
Exchange(u, x) ==
  /\ x > 0 /\ x % CreditsPerCompute = 0
  /\ Exchanged(u) + x <= ExchangeLimit /\ credits[u] >= x
  /\ Request
  /\ credits' = [credits EXCEPT ![u] = @ - x]
  /\ \/ /\ compute' = [compute EXCEPT ![u] = @ + x \div CreditsPerCompute]
        /\ today' = [today EXCEPT ![u]["exchange"] = @ + x \div CreditsPerCompute]
        /\ past' = [past EXCEPT ![u].exchange = @ + x \div CreditsPerCompute]
        /\ UNCHANGED faults
     \/ Fails /\ past' = [past EXCEPT ![u].lost = @ + x] /\ UNCHANGED << compute, today >>
  /\ UNCHANGED << pool, recent, days >>

\* add_compute: a payment is taken for granted.
Recharge(u, c) ==
  /\ Request /\ compute' = [compute EXCEPT ![u] = @ + c]
  /\ past' = [past EXCEPT ![u].bought = @ + c]
  /\ UNCHANGED << credits, today, pool, recent, days, faults >>

\* deduct_compute
Consumed(u, c) ==
  /\ compute[u] >= c
  /\ compute' = [compute EXCEPT ![u] = @ - c]

Consume(u, c) ==
  /\ Request /\ Consumed(u, c)
  /\ past' = [past EXCEPT ![u].consumed = @ + c]
  /\ UNCHANGED << credits, today, pool, recent, days, faults >>

\* Midnight: today's rows are yesterday's.
NewDay ==
  /\ days < MaxDays /\ days' = days + 1
  /\ today' = [u \in Users |-> NoPoints]
  /\ UNCHANGED << credits, compute, pool, recent, past, events, faults >>

NoPast == [k \in Kinds \cup {"deducted", "spent", "lost", "bought", "consumed"} |-> 0]

Init ==
  /\ credits = [u \in Users |-> InitCredits]
  /\ today = [u \in Users |-> NoPoints]
  /\ compute = [u \in Users |-> 0]
  /\ pool = 0 /\ recent = {} /\ events = 0 /\ days = 0 /\ faults = 0
  /\ past = [u \in Users |-> NoPast]

\* What the routes let a user ask for
RewardRequest(u) == SubmitPollination(u) \/ SubmitFalsify(u) \/ SubmitFalsifyIssue(u)

ComputeRequest(u) ==
  \/ \E x \in Offers : Exchange(u, x)
  \/ \E c \in Charges : Recharge(u, c) \/ Consume(u, c)

Next ==
  \/ \E u \in Users :
       \/ TryPollinate(u) \/ Cooldown(u)
       \/ RewardRequest(u) \/ ComputeRequest(u)
       \/ \E x \in Charges : DeductRound(u, x) \/ Spend(u, x)
  \/ NewDay

Spec == Init /\ [][Next]_lvars

-----------------------------------------------------------------------------
(* Properties *)

\* The limits hold over all days and services together: what a user was really
\* given for falsifying, pollinating and reuse, and what he exchanged, never
\* exceeds as many daily limits as days have begun.  (Rewards of inputs have none.)
DailyLimits ==
  \A u \in Users :
    /\ past[u].falsify <= FalsifyLimit * (days + 1)
    /\ past[u].pollination <= PollinationLimit * (days + 1)
    /\ past[u].passive <= PassiveLimit * (days + 1)
    /\ past[u].exchange * CreditsPerCompute <= ExchangeLimit * (days + 1)

\* The books agree: credits and compute are what was earned, exchanged and
\* consumed; only failures between two transactions lose any; nobody owes who did not
\* spend through /credits.
LedgerBalances ==
  \A u \in Users :
    LET p == past[u]
    IN  /\ credits[u] = InitCredits + p.falsify + p.pollination + p.passive + p.input
                          - p.deducted - p.spent - p.exchange * CreditsPerCompute - p.lost
        /\ compute[u] = p.exchange + p.bought - p.consumed
        /\ p.spent = 0 => credits[u] >= 0
        /\ compute[u] >= 0
        /\ p.lost > 0 => faults > 0
=============================================================================
