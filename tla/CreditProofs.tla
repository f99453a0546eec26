---------------------------- MODULE CreditProofs -----------------------------
(***************************************************************************)
(* Credits, compute, rewards and the commands users pay for, for any       *)
(* number of users and requests, every reward and every limit.             *)
(*                                                                         *)
(* 1. What CreditLedger says of its own steps, and what RescueTasks, whose *)
(* steps use the same rows, says of the pet campaign.                      *)
(*                                                                         *)
(* 2. The work mode: how many rows of which kind a request has in a        *)
(* conversation.  A row put at the end of one adds one to one number       *)
(* (Grew).  A request has as many logs as commands in every conversation,  *)
(* and one less where it is at a command (Settled); who waits in a         *)
(* conversation waits in one that exists or did, so that a new one, whose  *)
(* id is the least that was never used, has nobody waiting.                *)
(*                                                                         *)
(* 3. Free commands: what the query counts as today's are logs of today,   *)
(* as a day in UTC is at most one ahead of the day a log is of; so a fee   *)
(* is taken only on top of the free ones.                                  *)
(***************************************************************************)
EXTENDS WorkParts, SumLemmas, SequenceTheorems, TLAPS

\* What the proofs assume of the constants: amounts are whole and not negative, and
\* something is asked for a unit of compute.
LedgerConstants ==
  /\ Grades \subseteq Nat
  /\ FalsifyReward \in Nat /\ FalsifyLimit \in Nat
  /\ PollinationReward \in Nat /\ PollinationLimit \in Nat
  /\ PassiveReward \in Nat /\ PassiveLimit \in Nat
  /\ ExchangeLimit \in Nat /\ CreditsPerCompute \in Nat \ {0}
  /\ Offers \subseteq Int /\ Charges \subseteq Nat /\ InitCredits \in Nat

-----------------------------------------------------------------------------
(* Arithmetic *)

LEMMA WholeQuotient ==
  ASSUME NEW x \in Nat, NEW c \in Nat \ {0}, x % c = 0
  PROVE  x \div c \in Nat /\ (x \div c) * c = x
BY SMT

LEMMA OneMore ==
  ASSUME NEW a \in Nat, NEW n \in Nat
  PROVE  a * (n + 1) = a * n + a /\ a * n \in Nat
BY SMT

LEMMA Distributes ==
  ASSUME NEW a \in Nat, NEW b \in Nat, NEW c \in Nat
  PROVE  (a + b) * c = a * c + b * c /\ a * c \in Nat /\ b * c \in Nat
BY SMT

\* What is granted is no more than what is left of the limit.
LEMMA GrantedBounds ==
  ASSUME NEW reward \in Nat, NEW limit \in Nat, NEW points \in Nat
  PROVE  /\ Granted(reward, limit, points) \in Nat
         /\ Granted(reward, limit, points) > 0 => points + Granted(reward, limit, points) <= limit
BY DEF Granted, Least

-----------------------------------------------------------------------------
(* The invariant of the ledger *)

PastKinds == Kinds \cup {"deducted", "spent", "lost", "bought", "consumed"}

LedgerType ==
  /\ credits \in [Users -> Int] /\ compute \in [Users -> Nat]
  /\ today \in [Users -> [Kinds -> Nat]]
  /\ past \in [Users -> [PastKinds -> Nat]]
  /\ days \in Nat /\ faults \in Nat

Limited == {"falsify", "pollination", "passive"}
LimitOf == [k \in Limited |-> CASE k = "falsify" -> FalsifyLimit
                                [] k = "pollination" -> PollinationLimit
                                [] OTHER -> PassiveLimit]

\* Today's points are within the limit, and all there were before today are within
\* as many limits as days have ended.
Rationed ==
  \A u \in Users, k \in Limited :
    /\ today[u][k] <= LimitOf[k]
    /\ past[u][k] <= LimitOf[k] * days + today[u][k]

ExchangeRationed ==
  \A u \in Users :
    /\ Exchanged(u) <= ExchangeLimit
    /\ past[u]["exchange"] * CreditsPerCompute <= ExchangeLimit * days + Exchanged(u)

Days == LedgerType /\ Rationed /\ ExchangeRationed

LEMMA LimitType ==
  ASSUME LedgerConstants
  PROVE  /\ LimitOf \in [Limited -> Nat]
         /\ LimitOf["falsify"] = FalsifyLimit /\ LimitOf["pollination"] = PollinationLimit
         /\ LimitOf["passive"] = PassiveLimit
BY DEF LedgerConstants, LimitOf, Limited

\* The invariant gives the limits for all days that have begun.
LEMMA DaysGiveLimits ==
  ASSUME LedgerConstants, Days
  PROVE  DailyLimits
<1> SUFFICES ASSUME NEW u \in Users
             PROVE  /\ past[u].falsify <= FalsifyLimit * (days + 1)
                    /\ past[u].pollination <= PollinationLimit * (days + 1)
                    /\ past[u].passive <= PassiveLimit * (days + 1)
                    /\ past[u].exchange * CreditsPerCompute <= ExchangeLimit * (days + 1)
  BY DEF DailyLimits
<1>1. \A k \in Limited : past[u][k] <= LimitOf[k] * (days + 1)
  <2> TAKE k \in Limited
  <2>1. /\ past[u][k] \in Nat /\ today[u][k] \in Nat /\ today[u][k] <= LimitOf[k]
        /\ past[u][k] <= LimitOf[k] * days + today[u][k]
    BY DEF Days, LedgerType, Rationed, Limited, Kinds, PastKinds
  <2>2. LimitOf[k] * (days + 1) = LimitOf[k] * days + LimitOf[k] /\ LimitOf[k] * days \in Nat
        /\ LimitOf[k] \in Nat
    BY LimitType, OneMore DEF Days, LedgerType
  <2> QED  BY <2>1, <2>2
<1>2. past[u]["exchange"] * CreditsPerCompute <= ExchangeLimit * (days + 1)
  <2>1. /\ past[u]["exchange"] \in Nat /\ today[u]["exchange"] \in Nat
    BY DEF Days, LedgerType, Kinds, PastKinds
  <2>2. past[u]["exchange"] * CreditsPerCompute \in Nat /\ Exchanged(u) \in Nat
    BY <2>1, Distributes DEF LedgerConstants, Exchanged
  <2>3. /\ ExchangeLimit * (days + 1) = ExchangeLimit * days + ExchangeLimit
        /\ ExchangeLimit * days \in Nat /\ ExchangeLimit \in Nat
    BY OneMore DEF LedgerConstants, Days, LedgerType
  <2>4. /\ Exchanged(u) <= ExchangeLimit
        /\ past[u]["exchange"] * CreditsPerCompute <= ExchangeLimit * days + Exchanged(u)
    BY DEF Days, ExchangeRationed
  <2> QED  BY <2>2, <2>3, <2>4
<1> QED  BY <1>1, <1>2, LimitType DEF Limited

-----------------------------------------------------------------------------
(* Entries in the ledger *)

\* A reward raises one kind for one user.
LEMMA LoggedEntries ==
  ASSUME LedgerType, NEW u \in Users, NEW k \in Kinds, NEW x \in Nat, NEW more \in Nat,
         AddLogged(u, x, k, more)
  PROVE  /\ credits' \in [Users -> Int] /\ today' \in [Users -> [Kinds -> Nat]]
         /\ past' \in [Users -> [PastKinds -> Nat]]
         /\ credits'[u] = credits[u] + x
         /\ today'[u][k] = today[u][k] + more + x /\ past'[u][k] = past[u][k] + x
         /\ \A j \in Kinds \ {k} : today'[u][j] = today[u][j]
         /\ \A j \in PastKinds \ {k} : past'[u][j] = past[u][j]
         /\ \A v \in Users \ {u} : /\ credits'[v] = credits[v]
                                   /\ today'[v] = today[v] /\ past'[v] = past[v]
<1>1. /\ credits' = [credits EXCEPT ![u] = credits[u] + x]
      /\ today' = [today EXCEPT ![u] = [today[u] EXCEPT ![k] = today[u][k] + more + x]]
      /\ past' = [past EXCEPT ![u] = [past[u] EXCEPT ![k] = past[u][k] + x]]
  BY DEF AddLogged
<1>2. k \in PastKinds
  BY DEF PastKinds
<1>3. credits[u] \in Int /\ today[u] \in [Kinds -> Nat] /\ past[u] \in [PastKinds -> Nat]
  BY DEF LedgerType
<1>4. today[u][k] + more + x \in Nat /\ past[u][k] + x \in Nat /\ credits[u] + x \in Int
  BY <1>2, <1>3
<1> QED  BY <1>1, <1>2, <1>3, <1>4 DEF LedgerType

LEMMA RewardRationed ==
  ASSUME LedgerConstants, Days, NEW u \in Users, NEW k \in Limited \cup {"input"},
         NEW x \in Nat, NEW more \in Nat, AddLogged(u, x, k, more),
         k \in Limited => today[u][k] + more + x <= LimitOf[k],
         compute' \in [Users -> Nat], days' = days, faults' \in Nat
  PROVE  Days'
<1>1. k \in Kinds /\ LedgerType
  BY DEF Limited, Kinds, Days
<1>2. /\ credits' \in [Users -> Int] /\ today' \in [Users -> [Kinds -> Nat]]
      /\ past' \in [Users -> [PastKinds -> Nat]]
      /\ today'[u][k] = today[u][k] + more + x /\ past'[u][k] = past[u][k] + x
      /\ \A j \in Kinds \ {k} : today'[u][j] = today[u][j]
      /\ \A j \in PastKinds \ {k} : past'[u][j] = past[u][j]
      /\ \A v \in Users \ {u} : today'[v] = today[v] /\ past'[v] = past[v]
  BY <1>1, LoggedEntries
<1>3. LedgerType'
  BY <1>1, <1>2 DEF LedgerType
<1>4. Rationed'
  <2> SUFFICES ASSUME NEW v \in Users, NEW j \in Limited
               PROVE  /\ today'[v][j] <= LimitOf[j]
                      /\ past'[v][j] <= LimitOf[j] * days + today'[v][j]
    BY DEF Rationed
  <2>1. /\ today[v][j] <= LimitOf[j] /\ past[v][j] <= LimitOf[j] * days + today[v][j]
        /\ j \in Kinds /\ j \in PastKinds
    BY DEF Days, Rationed, Limited, Kinds, PastKinds
  <2>2. CASE v = u /\ j = k
    <3>1. today[u][k] \in Nat /\ past[u][k] \in Nat /\ LimitOf[k] * days \in Nat
      BY <1>1, <2>1, <2>2, LimitType, OneMore DEF LedgerType, PastKinds
    <3>2. past'[u][k] <= LimitOf[k] * days + today'[u][k]
      BY <1>2, <2>1, <2>2, <3>1
    <3> QED  BY <1>2, <2>2, <3>2
  <2>3. CASE v = u /\ j # k
    BY <1>2, <2>1, <2>3
  <2>4. CASE v # u
    BY <1>2, <2>1, <2>4
  <2> QED  BY <2>2, <2>3, <2>4
<1>5. ExchangeRationed'
  <2>1. \A v \in Users : today'[v]["exchange"] = today[v]["exchange"]
                         /\ past'[v]["exchange"] = past[v]["exchange"]
    BY <1>2 DEF Limited, Kinds, PastKinds
  <2> QED  BY <2>1 DEF Days, ExchangeRationed, Exchanged
<1> QED  BY <1>3, <1>4, <1>5 DEF Days

\* Whatever leaves points and what was given alone keeps the limits.
LEMMA OtherEntries ==
  ASSUME Days, LedgerType', today' = today, days' = days,
         \A u \in Users, k \in Limited \cup {"exchange"} : past'[u][k] = past[u][k]
  PROVE  Days'
BY DEF Days, Rationed, ExchangeRationed, Exchanged

\* An amount noted for a user under a kind of its own
Notes(u, k, x) == past' = [past EXCEPT ![u][k] = @ + x]

LEMMA Noted ==
  ASSUME LedgerType, NEW u \in Users, NEW x \in Nat,
         NEW k \in {"deducted", "spent", "lost", "bought", "consumed"},
         Notes(u, k, x)
  PROVE  /\ past' \in [Users -> [PastKinds -> Nat]]
         /\ past'[u][k] = past[u][k] + x
         /\ \A j \in PastKinds \ {k} : past'[u][j] = past[u][j]
         /\ \A v \in Users \ {u} : past'[v] = past[v]
         /\ \A v \in Users, j \in Kinds : past'[v][j] = past[v][j]
<1>1. past' = [past EXCEPT ![u] = [past[u] EXCEPT ![k] = past[u][k] + x]]
  BY DEF Notes
<1>2. k \in PastKinds /\ k \notin Kinds /\ Kinds \subseteq PastKinds
  BY DEF PastKinds, Kinds
<1>3. past[u] \in [PastKinds -> Nat] /\ past[u][k] + x \in Nat
  BY <1>2 DEF LedgerType
<1> QED  BY <1>1, <1>2, <1>3 DEF LedgerType

\* Midnight ends a day: what is past is within one limit more.
LEMMA NewDayRationed ==
  ASSUME LedgerConstants, Days, NewDay
  PROVE  Days'
<1>1. /\ today' = [u \in Users |-> NoPoints] /\ days' = days + 1
      /\ UNCHANGED << credits, compute, past, faults >>
  BY DEF NewDay
<1>2. NoPoints \in [Kinds -> Nat] /\ \A k \in Kinds : NoPoints[k] = 0
  BY DEF NoPoints
<1>3. LedgerType'
  BY <1>1, <1>2 DEF Days, LedgerType
<1>4. DailyLimits
  BY DaysGiveLimits
<1>5. days \in Nat /\ Limited \subseteq Kinds /\ "exchange" \in Kinds
  BY DEF Days, LedgerType, Limited, Kinds
<1>6. Rationed'
  <2> SUFFICES ASSUME NEW u \in Users, NEW k \in Limited
               PROVE  /\ today'[u][k] <= LimitOf[k]
                      /\ past'[u][k] <= LimitOf[k] * (days + 1) + today'[u][k]
    BY <1>1 DEF Rationed
  <2>1. today'[u][k] = 0
    BY <1>1, <1>2, <1>5
  <2>2. LimitOf[k] \in Nat /\ LimitOf[k] * (days + 1) \in Nat
    BY <1>5, LimitType, OneMore
  <2>3. past[u][k] <= LimitOf[k] * (days + 1)
    BY <1>4, LimitType DEF DailyLimits, Limited
  <2>4. past[u][k] \in Nat
    BY <1>5 DEF Days, LedgerType, PastKinds
  <2> QED  BY <1>1, <2>1, <2>2, <2>3, <2>4
<1>7. ExchangeRationed'
  <2> SUFFICES ASSUME NEW u \in Users
               PROVE  /\ Exchanged(u)' <= ExchangeLimit
                      /\ past'[u]["exchange"] * CreditsPerCompute
                           <= ExchangeLimit * (days + 1) + Exchanged(u)'
    BY <1>1 DEF ExchangeRationed
  <2>1. today'[u]["exchange"] = 0
    BY <1>1, <1>2, <1>5
  <2>2. Exchanged(u)' = 0
    BY <2>1 DEF Exchanged, LedgerConstants
  <2>3. past[u]["exchange"] * CreditsPerCompute <= ExchangeLimit * (days + 1)
    BY <1>4 DEF DailyLimits
  <2>4. /\ past[u]["exchange"] * CreditsPerCompute \in Nat /\ ExchangeLimit \in Nat
        /\ ExchangeLimit * (days + 1) \in Nat
    BY <1>5, Distributes, OneMore DEF Days, LedgerType, PastKinds, LedgerConstants
  <2> QED  BY <1>1, <2>2, <2>3, <2>4
<1> QED  BY <1>3, <1>6, <1>7 DEF Days

-----------------------------------------------------------------------------
(* The books of a user *)

Balanced(u) ==
  LET p == past[u]
  IN  /\ credits[u] = InitCredits + p.falsify + p.pollination + p.passive + p.input
                        - p.deducted - p.spent - p.exchange * CreditsPerCompute - p.lost
      /\ compute[u] = p.exchange + p.bought - p.consumed
      /\ p.spent = 0 => credits[u] >= 0
      /\ compute[u] >= 0
      /\ p.lost > 0 => faults > 0

LInv == Days /\ LedgerBalances

LEMMA BalancesByUser == LedgerBalances <=> \A u \in Users : Balanced(u)
BY DEF LedgerBalances, Balanced

LEMMA BalancesNext == LedgerBalances' <=> \A u \in Users : Balanced(u)'
BY DEF LedgerBalances, Balanced

\* Whoever a step leaves alone has balanced books after it.
LEMMA OthersBalanced ==
  ASSUME LInv, NEW v \in Users, credits'[v] = credits[v], compute'[v] = compute[v],
         past'[v] = past[v], faults' \in {faults, faults + 1}
  PROVE  Balanced(v)'
<1>1. Balanced(v)
  BY BalancesByUser DEF LInv
<1>2. faults \in Nat /\ (faults > 0 => faults' > 0)
  BY DEF LInv, Days, LedgerType
<1> QED  BY <1>1, <1>2 DEF Balanced

\* What a user was given for something is credited.
LEMMA RewardBalances ==
  ASSUME LedgerConstants, LInv, NEW u \in Users, NEW k \in Limited \cup {"input"},
         NEW x \in Nat, NEW more \in Nat, AddLogged(u, x, k, more),
         k \in Limited => today[u][k] + more + x <= LimitOf[k],
         UNCHANGED << compute, days, faults >>
  PROVE  LInv'
<1>1. LedgerType /\ k \in Kinds
  BY DEF LInv, Days, Limited, Kinds
<1>2. Days'
  BY <1>1, RewardRationed DEF LInv, LedgerType
<1>3. /\ credits'[u] = credits[u] + x /\ past'[u][k] = past[u][k] + x
      /\ \A j \in PastKinds \ {k} : past'[u][j] = past[u][j]
      /\ \A v \in Users \ {u} : credits'[v] = credits[v] /\ past'[v] = past[v]
  BY <1>1, LoggedEntries
<1>4. Balanced(u)'
  <2>1. Balanced(u) /\ credits[u] \in Int /\ \A j \in PastKinds : past[u][j] \in Nat
    BY <1>1, BalancesByUser DEF LInv, LedgerType
  <2>2. past[u]["exchange"] * CreditsPerCompute \in Nat
    BY <2>1, Distributes DEF LedgerConstants, PastKinds, Kinds
  <2>3. \A j \in PastKinds : past'[u][j] = IF j = k THEN past[u][j] + x ELSE past[u][j]
    BY <1>3
  <2>4. past'[u]["exchange"] * CreditsPerCompute = past[u]["exchange"] * CreditsPerCompute
    BY <2>3 DEF Limited, PastKinds, Kinds
  <2>5. /\ past[u].falsify \in Nat /\ past[u].pollination \in Nat /\ past[u].passive \in Nat
        /\ past[u].input \in Nat /\ past[u].deducted \in Nat /\ past[u].spent \in Nat
        /\ past[u].lost \in Nat
    BY <2>1 DEF PastKinds, Kinds
  <2>6. past'[u].falsify + past'[u].pollination + past'[u].passive + past'[u].input
          = past[u].falsify + past[u].pollination + past[u].passive + past[u].input + x
    BY <2>3, <2>5 DEF Limited, PastKinds, Kinds
  <2>7. /\ past'[u].deducted = past[u].deducted /\ past'[u].spent = past[u].spent
        /\ past'[u].lost = past[u].lost /\ past'[u].exchange = past[u].exchange
        /\ past'[u].bought = past[u].bought /\ past'[u].consumed = past[u].consumed
        /\ past'[u].falsify \in Nat /\ past'[u].pollination \in Nat /\ past'[u].passive \in Nat
        /\ past'[u].input \in Nat
    BY <2>3, <2>5 DEF Limited, PastKinds, Kinds
  <2>8. credits'[u] = InitCredits + past'[u].falsify + past'[u].pollination + past'[u].passive
                        + past'[u].input - past'[u].deducted - past'[u].spent
                        - past'[u].exchange * CreditsPerCompute - past'[u].lost
    BY <1>3, <2>1, <2>2, <2>4, <2>5, <2>6, <2>7 DEF Balanced, LedgerConstants
  <2>9. past'[u].spent = 0 => credits'[u] >= 0
    BY <1>3, <2>1, <2>7 DEF Balanced
  <2> QED  BY <2>1, <2>7, <2>8, <2>9 DEF Balanced
<1>5. \A v \in Users : Balanced(v)'
  BY <1>3, <1>4, OthersBalanced
<1> QED  BY <1>2, <1>5, BalancesNext DEF LInv

\* The terms of the books are numbers.
LEMMA Terms ==
  ASSUME LedgerConstants, LInv, NEW u \in Users
  PROVE  /\ Balanced(u) /\ credits[u] \in Int /\ compute[u] \in Nat
         /\ past[u].falsify \in Nat /\ past[u].pollination \in Nat /\ past[u].passive \in Nat
         /\ past[u].input \in Nat /\ past[u].deducted \in Nat /\ past[u].spent \in Nat
         /\ past[u].lost \in Nat /\ past[u].exchange \in Nat /\ past[u].bought \in Nat
         /\ past[u].consumed \in Nat /\ past[u].exchange * CreditsPerCompute \in Nat
         /\ faults \in Nat
<1>1. \A k \in PastKinds : past[u][k] \in Nat
  BY DEF LInv, Days, LedgerType
<1>2. past[u]["exchange"] * CreditsPerCompute \in Nat
  BY <1>1, Distributes DEF LedgerConstants, PastKinds, Kinds
<1> QED  BY <1>1, <1>2, BalancesByUser DEF LInv, Days, LedgerType, PastKinds, Kinds

\* What is taken from a user is noted by what it was for; what /credits takes may be
\* more than he has.
LEMMA TakenBalances ==
  ASSUME LedgerConstants, LInv, NEW u \in Users, NEW x \in Nat,
         NEW k \in {"deducted", "spent", "lost"},
         credits' = [credits EXCEPT ![u] = @ - x],
         Notes(u, k, x),
         k = "spent" \/ credits[u] >= x,
         k = "spent" => x > 0,
         faults' \in {faults, faults + 1}, k = "lost" => faults' = faults + 1,
         UNCHANGED << today, compute, days >>
  PROVE  LInv'
<1>1. LedgerType /\ k \in {"deducted", "spent", "lost", "bought", "consumed"}
  BY DEF LInv, Days
<1>2. /\ past' \in [Users -> [PastKinds -> Nat]]
      /\ past'[u][k] = past[u][k] + x
      /\ \A j \in PastKinds \ {k} : past'[u][j] = past[u][j]
      /\ \A v \in Users \ {u} : past'[v] = past[v]
      /\ \A v \in Users, j \in Kinds : past'[v][j] = past[v][j]
  BY <1>1, Noted
<1>3. /\ credits' \in [Users -> Int] /\ credits'[u] = credits[u] - x
      /\ \A v \in Users \ {u} : credits'[v] = credits[v]
  BY <1>1 DEF LedgerType
<1>4. faults' \in Nat /\ LedgerType'
  BY <1>1, <1>2, <1>3 DEF LedgerType
<1>5. Days'
  <2>1. Limited \cup {"exchange"} \subseteq Kinds
    BY DEF Limited, Kinds
  <2> QED  BY <1>2, <1>4, <2>1, OtherEntries DEF LInv
<1>6. Balanced(u)'
  <2>1. /\ past'[u].falsify = past[u].falsify /\ past'[u].pollination = past[u].pollination
        /\ past'[u].passive = past[u].passive /\ past'[u].input = past[u].input
        /\ past'[u].exchange = past[u].exchange
        /\ past'[u].bought = past[u].bought /\ past'[u].consumed = past[u].consumed
    BY <1>2 DEF PastKinds, Kinds
  <2>2. \A j \in {"deducted", "spent", "lost"} :
          past'[u][j] = IF j = k THEN past[u][j] + x ELSE past[u][j]
    BY <1>2 DEF PastKinds
  <2>3. compute'[u] = compute[u]
    OBVIOUS
  <2>4. CASE k = "deducted"
    BY <1>3, <2>1, <2>2, <2>3, <2>4, Terms DEF Balanced, LedgerConstants
  <2>5. CASE k = "spent"
    BY <1>3, <2>1, <2>2, <2>3, <2>5, Terms DEF Balanced, LedgerConstants
  <2>6. CASE k = "lost"
    BY <1>3, <2>1, <2>2, <2>3, <2>6, Terms DEF Balanced, LedgerConstants
  <2> QED  BY <2>4, <2>5, <2>6
<1>7. \A v \in Users : Balanced(v)'
  BY <1>2, <1>3, <1>6, OthersBalanced
<1> QED  BY <1>5, <1>7, BalancesNext DEF LInv

\* Compute that is bought or consumed leaves credits alone.
LEMMA ComputeBalances ==
  ASSUME LedgerConstants, LInv, NEW u \in Users, NEW c \in Nat, NEW k \in {"bought", "consumed"},
         compute' = [compute EXCEPT ![u] = IF k = "bought" THEN @ + c ELSE @ - c],
         k = "consumed" => compute[u] >= c,
         Notes(u, k, c),
         UNCHANGED << credits, today, days, faults >>
  PROVE  LInv'
<1>1. LedgerType /\ k \in {"deducted", "spent", "lost", "bought", "consumed"}
  BY DEF LInv, Days
<1>2. /\ past' \in [Users -> [PastKinds -> Nat]]
      /\ past'[u][k] = past[u][k] + c
      /\ \A j \in PastKinds \ {k} : past'[u][j] = past[u][j]
      /\ \A v \in Users \ {u} : past'[v] = past[v]
      /\ \A v \in Users, j \in Kinds : past'[v][j] = past[v][j]
  BY <1>1, Noted
<1>3. /\ compute' \in [Users -> Nat]
      /\ compute'[u] = IF k = "bought" THEN compute[u] + c ELSE compute[u] - c
      /\ \A v \in Users \ {u} : compute'[v] = compute[v]
  BY <1>1 DEF LedgerType
<1>4. LedgerType'
  BY <1>1, <1>2, <1>3 DEF LedgerType
<1>5. Days'
  <2>1. Limited \cup {"exchange"} \subseteq Kinds
    BY DEF Limited, Kinds
  <2> QED  BY <1>2, <1>4, <2>1, OtherEntries DEF LInv
<1>6. Balanced(u)'
  <2>1. /\ past'[u].falsify = past[u].falsify /\ past'[u].pollination = past[u].pollination
        /\ past'[u].passive = past[u].passive /\ past'[u].input = past[u].input
        /\ past'[u].exchange = past[u].exchange /\ past'[u].deducted = past[u].deducted
        /\ past'[u].spent = past[u].spent /\ past'[u].lost = past[u].lost
    BY <1>2 DEF PastKinds, Kinds
  <2>2. \A j \in {"bought", "consumed"} :
          past'[u][j] = IF j = k THEN past[u][j] + c ELSE past[u][j]
    BY <1>2 DEF PastKinds
  <2>3. credits'[u] = credits[u] /\ faults' = faults
    OBVIOUS
  <2>4. compute'[u] \in Nat /\ compute'[u] = past'[u].exchange + past'[u].bought - past'[u].consumed
    BY <1>3, <2>1, <2>2, Terms DEF Balanced
  <2> QED  BY <2>1, <2>3, <2>4, Terms DEF Balanced
<1>7. \A v \in Users : Balanced(v)'
  BY <1>2, <1>3, <1>6, OthersBalanced
<1> QED  BY <1>5, <1>7, BalancesNext DEF LInv

\* Credits that become compute: both transactions are made.
LEMMA ExchangedBalances ==
  ASSUME LedgerConstants, LInv, NEW u \in Users, NEW x \in Nat, NEW q \in Nat,
         q * CreditsPerCompute = x, Exchanged(u) + x <= ExchangeLimit, credits[u] >= x,
         credits' = [credits EXCEPT ![u] = @ - x],
         compute' = [compute EXCEPT ![u] = @ + q],
         today' = [today EXCEPT ![u]["exchange"] = @ + q],
         past' = [past EXCEPT ![u]["exchange"] = @ + q],
         UNCHANGED << days, faults >>
  PROVE  LInv'
<1>1. LedgerType /\ "exchange" \in Kinds /\ "exchange" \in PastKinds /\ Kinds \subseteq PastKinds
  BY DEF LInv, Days, Kinds, PastKinds
<1>2. /\ today[u] \in [Kinds -> Nat] /\ past[u] \in [PastKinds -> Nat]
      /\ today[u]["exchange"] \in Nat /\ past[u]["exchange"] \in Nat
      /\ credits[u] \in Int /\ compute[u] \in Nat
  BY <1>1 DEF LedgerType
<1>3. /\ today' = [today EXCEPT ![u] = [today[u] EXCEPT !["exchange"] = today[u]["exchange"] + q]]
      /\ past' = [past EXCEPT ![u] = [past[u] EXCEPT !["exchange"] = past[u]["exchange"] + q]]
  OBVIOUS
<1>4. /\ today' \in [Users -> [Kinds -> Nat]] /\ past' \in [Users -> [PastKinds -> Nat]]
      /\ today'[u]["exchange"] = today[u]["exchange"] + q
      /\ past'[u]["exchange"] = past[u]["exchange"] + q
      /\ \A j \in Kinds \ {"exchange"} : today'[u][j] = today[u][j]
      /\ \A j \in PastKinds \ {"exchange"} : past'[u][j] = past[u][j]
      /\ \A v \in Users \ {u} : today'[v] = today[v] /\ past'[v] = past[v]
  BY <1>1, <1>2, <1>3 DEF LedgerType
<1>5. /\ credits' \in [Users -> Int] /\ compute' \in [Users -> Nat]
      /\ credits'[u] = credits[u] - x /\ compute'[u] = compute[u] + q
      /\ \A v \in Users \ {u} : credits'[v] = credits[v] /\ compute'[v] = compute[v]
  BY <1>1 DEF LedgerType
<1>6. LedgerType'
  BY <1>1, <1>4, <1>5 DEF LedgerType
<1>7. /\ past'[u]["exchange"] * CreditsPerCompute = past[u]["exchange"] * CreditsPerCompute + x
      /\ today'[u]["exchange"] * CreditsPerCompute = today[u]["exchange"] * CreditsPerCompute + x
      /\ past[u]["exchange"] * CreditsPerCompute \in Nat
      /\ today[u]["exchange"] * CreditsPerCompute \in Nat
  <2>1. \A a \in Nat : (a + q) * CreditsPerCompute = a * CreditsPerCompute + x
                       /\ a * CreditsPerCompute \in Nat
    BY Distributes DEF LedgerConstants
  <2> QED  BY <1>2, <1>4, <2>1
<1>8. Rationed'
  <2>1. \A v \in Users, k \in Limited : today'[v][k] = today[v][k] /\ past'[v][k] = past[v][k]
    BY <1>1, <1>4 DEF Limited, Kinds
  <2> QED  BY <2>1 DEF LInv, Days, Rationed
<1>9. ExchangeRationed'
  <2> SUFFICES ASSUME NEW v \in Users
               PROVE  /\ Exchanged(v)' <= ExchangeLimit
                      /\ past'[v]["exchange"] * CreditsPerCompute
                           <= ExchangeLimit * days + Exchanged(v)'
    BY DEF ExchangeRationed
  <2>1. /\ Exchanged(v) <= ExchangeLimit
        /\ past[v]["exchange"] * CreditsPerCompute <= ExchangeLimit * days + Exchanged(v)
    BY DEF LInv, Days, ExchangeRationed
  <2>2. CASE v = u
    <3>1. ExchangeLimit * days \in Nat
      BY <1>1, OneMore DEF LedgerConstants, LedgerType
    <3>2. Exchanged(u)' = Exchanged(u) + x /\ Exchanged(u) \in Nat
      BY <1>7 DEF Exchanged
    <3>3. past'[u]["exchange"] * CreditsPerCompute <= ExchangeLimit * days + Exchanged(u)'
      BY <1>7, <2>1, <2>2, <3>1, <3>2
    <3> QED  BY <2>2, <3>2, <3>3
  <2>3. CASE v # u
    BY <1>4, <2>1, <2>3 DEF Exchanged
  <2> QED  BY <2>2, <2>3
<1>10. Balanced(u)'
  <2>1. /\ past'[u].falsify = past[u].falsify /\ past'[u].pollination = past[u].pollination
        /\ past'[u].passive = past[u].passive /\ past'[u].input = past[u].input
        /\ past'[u].deducted = past[u].deducted /\ past'[u].spent = past[u].spent
        /\ past'[u].lost = past[u].lost
        /\ past'[u].bought = past[u].bought /\ past'[u].consumed = past[u].consumed
        /\ past'[u].exchange = past[u].exchange + q
    BY <1>4 DEF PastKinds, Kinds
  <2>2. compute'[u] \in Nat /\ compute'[u] = past'[u].exchange + past'[u].bought - past'[u].consumed
    BY <1>5, <2>1, Terms DEF Balanced
  <2>3. credits'[u] = InitCredits + past'[u].falsify + past'[u].pollination + past'[u].passive
                        + past'[u].input - past'[u].deducted - past'[u].spent
                        - past'[u].exchange * CreditsPerCompute - past'[u].lost
    BY <1>5, <1>7, <2>1, Terms DEF Balanced, LedgerConstants
  <2> QED  BY <1>5, <2>1, <2>2, <2>3, Terms DEF Balanced
<1>11. \A v \in Users : Balanced(v)'
  BY <1>4, <1>5, <1>10, OthersBalanced
<1> QED  BY <1>6, <1>8, <1>9, <1>11, BalancesNext DEF LInv, Days

-----------------------------------------------------------------------------
(* The steps of the ledger *)

LEMMA TryPollinateKeeps ==
  ASSUME LedgerConstants, LInv, NEW u \in Users, TryPollinate(u)
  PROVE  LInv'
<1>1. PICK g \in Grades :
        LET reward == Granted(g, PollinationLimit, Points(u, "pollination"))
        IN  AddCredit(u, reward, "input")
  BY DEF TryPollinate, GradeInput
<1> DEFINE reward == Granted(g, PollinationLimit, Points(u, "pollination"))
<1>2. reward \in Nat
  <2>1. Points(u, "pollination") \in Nat
    BY DEF LInv, Days, LedgerType, Kinds, Points
  <2> QED  BY <2>1, GrantedBounds DEF LedgerConstants
<1>3. AddLogged(u, reward, "input", 0) /\ UNCHANGED << compute, days, faults >>
  BY <1>1 DEF AddCredit, TryPollinate
<1> QED  BY <1>2, <1>3, RewardBalances DEF Limited

\* A reward with a limit: what is granted with the points of the marker stays within it.
LEMMA LimitedReward ==
  ASSUME LedgerConstants, LInv, NEW u \in Users, NEW k \in Limited, NEW r \in Nat, NEW more \in Nat,
         Granted(r, LimitOf[k], Points(u, k) + more) > 0,
         AddLogged(u, Granted(r, LimitOf[k], Points(u, k) + more), k, more),
         UNCHANGED << compute, days, faults >>
  PROVE  LInv'
<1>1. today[u][k] \in Nat /\ LimitOf[k] \in Nat
  BY LimitType DEF LInv, Days, LedgerType, Limited, Kinds
<1>2. Points(u, k) + more = today[u][k] + more
  BY DEF Points
<1> DEFINE points == today[u][k] + more
           x == Granted(r, LimitOf[k], points)
<1>3. points \in Nat
  BY <1>1
<1>4. x > 0 /\ AddLogged(u, x, k, more)
  BY <1>2
<1>5. x \in Nat /\ points + x <= LimitOf[k]
  <2> HIDE DEF points
  <2> QED  BY <1>1, <1>3, <1>4, GrantedBounds
<1> HIDE DEF x
<1> QED  BY <1>4, <1>5, RewardBalances

LEMMA RewardRequestKeeps ==
  ASSUME LedgerConstants, LInv, NEW u \in Users, RewardRequest(u)
  PROVE  LInv'
<1>1. CASE SubmitPollination(u)
  <2>1. /\ Granted(PollinationReward, LimitOf["pollination"], Points(u, "pollination") + 0) > 0
        /\ AddLogged(u, Granted(PollinationReward, LimitOf["pollination"], Points(u, "pollination") + 0),
                     "pollination", 0)
        /\ UNCHANGED << compute, days, faults >>
    <3>1. Points(u, "pollination") + 0 = Points(u, "pollination")
      BY DEF LInv, Days, LedgerType, Kinds, Points
    <3> QED  BY <1>1, <3>1, LimitType DEF SubmitPollination, AddCredit
  <2> QED  BY <2>1, LimitedReward DEF LedgerConstants, Limited
<1>2. CASE SubmitFalsify(u)
  <2>1. PICK marker \in {0, FalsifyReward} :
          /\ Granted(FalsifyReward, LimitOf["falsify"], Points(u, "falsify") + marker) > 0
          /\ AddLogged(u, Granted(FalsifyReward, LimitOf["falsify"], Points(u, "falsify") + marker),
                       "falsify", marker)
          /\ UNCHANGED << compute, days, faults >>
    BY <1>2, LimitType DEF SubmitFalsify
  <2> QED  BY <2>1, LimitedReward DEF LedgerConstants, Limited
<1>3. CASE SubmitFalsifyIssue(u)
  <2>1. /\ Granted(FalsifyReward, LimitOf["falsify"], Points(u, "falsify") + 0) > 0
        /\ AddLogged(u, Granted(FalsifyReward, LimitOf["falsify"], Points(u, "falsify") + 0),
                     "falsify", 0)
        /\ UNCHANGED << compute, days, faults >>
    <3>1. Points(u, "falsify") + 0 = Points(u, "falsify")
      BY DEF LInv, Days, LedgerType, Kinds, Points
    <3> QED  BY <1>3, <3>1, LimitType DEF SubmitFalsifyIssue, AddCredit
  <2> QED  BY <2>1, LimitedReward DEF LedgerConstants, Limited
<1> QED  BY <1>1, <1>2, <1>3 DEF RewardRequest

LEMMA ExchangeKeeps ==
  ASSUME LedgerConstants, LInv, NEW u \in Users, NEW x \in Offers, Exchange(u, x)
  PROVE  LInv'
<1>1. /\ x \in Nat /\ x > 0 /\ x % CreditsPerCompute = 0
      /\ Exchanged(u) + x <= ExchangeLimit /\ credits[u] >= x
      /\ credits' = [credits EXCEPT ![u] = @ - x]
      /\ UNCHANGED << pool, recent, days >>
  BY DEF Exchange, LedgerConstants
<1> DEFINE q == x \div CreditsPerCompute
<1>2. q \in Nat /\ q * CreditsPerCompute = x
  BY <1>1, WholeQuotient DEF LedgerConstants
<1>3. CASE /\ compute' = [compute EXCEPT ![u] = @ + q]
           /\ today' = [today EXCEPT ![u]["exchange"] = @ + q]
           /\ past' = [past EXCEPT ![u].exchange = @ + q]
           /\ UNCHANGED faults
  <2> HIDE DEF q
  <2> QED  BY <1>1, <1>2, <1>3, ExchangedBalances
<1>4. CASE Fails /\ past' = [past EXCEPT ![u].lost = @ + x] /\ UNCHANGED << compute, today >>
  <2>1. Notes(u, "lost", x) /\ faults' = faults + 1
    BY <1>4 DEF Notes, Fails
  <2> QED  BY <1>1, <1>4, <2>1, TakenBalances
<1> QED  BY <1>3, <1>4 DEF Exchange

LEMMA ComputeRequestKeeps ==
  ASSUME LedgerConstants, LInv, NEW u \in Users, ComputeRequest(u)
  PROVE  LInv'
<1>1. ASSUME NEW c \in Charges, Recharge(u, c)
      PROVE  LInv'
  <2>1. Notes(u, "bought", c) /\ c \in Nat
    BY <1>1 DEF Recharge, Notes, LedgerConstants
  <2>2. /\ compute' = [compute EXCEPT ![u] = IF "bought" = "bought" THEN @ + c ELSE @ - c]
        /\ UNCHANGED << credits, today, days, faults >>
    BY <1>1 DEF Recharge
  <2> QED  BY <2>1, <2>2, ComputeBalances
<1>2. ASSUME NEW c \in Charges, Consume(u, c)
      PROVE  LInv'
  <2>1. Notes(u, "consumed", c) /\ c \in Nat /\ compute[u] >= c
    BY <1>2 DEF Consume, Consumed, Notes, LedgerConstants
  <2>2. /\ compute' = [compute EXCEPT ![u] = IF "consumed" = "bought" THEN @ + c ELSE @ - c]
        /\ UNCHANGED << credits, today, days, faults >>
    BY <1>2 DEF Consume, Consumed
  <2> QED  BY <2>1, <2>2, ComputeBalances
<1> QED  BY <1>1, <1>2, ExchangeKeeps DEF ComputeRequest

LEMMA ChargeKeeps ==
  ASSUME LedgerConstants, LInv, NEW u \in Users, NEW x \in Charges, DeductRound(u, x) \/ Spend(u, x)
  PROVE  LInv'
<1>1. CASE DeductRound(u, x)
  <2>1. /\ Notes(u, "deducted", x) /\ x \in Nat /\ credits[u] >= x
        /\ credits' = [credits EXCEPT ![u] = @ - x]
        /\ faults' \in {faults, faults + 1} /\ UNCHANGED << today, compute, days >>
    BY <1>1 DEF DeductRound, Deduct, Fails, Notes, LedgerConstants
  <2> QED  BY <2>1, TakenBalances
<1>2. CASE Spend(u, x)
  <2>1. /\ Notes(u, "spent", x) /\ x \in Nat /\ x > 0
        /\ credits' = [credits EXCEPT ![u] = @ - x]
        /\ faults' \in {faults, faults + 1} /\ UNCHANGED << today, compute, days >>
    BY <1>2 DEF Spend, Notes, LedgerConstants
  <2> QED  BY <2>1, TakenBalances
<1> QED  BY <1>1, <1>2

\* Steps that leave the books alone
LEMMA QuietKeeps ==
  ASSUME LInv, UNCHANGED << credits, today, compute, past, days, faults >>
  PROVE  LInv'
BY DEF LInv, Days, LedgerType, Rationed, ExchangeRationed, Exchanged, LedgerBalances

LEMMA NewDayKeeps ==
  ASSUME LedgerConstants, LInv, NewDay
  PROVE  LInv'
<1>1. Days'
  BY NewDayRationed DEF LInv
<1>2. \A v \in Users : Balanced(v)'
  BY OthersBalanced DEF NewDay
<1> QED  BY <1>1, <1>2, BalancesNext DEF LInv

LEMMA LInvStep ==
  ASSUME LedgerConstants, LInv, [Next]_lvars
  PROVE  LInv'
<1>1. CASE UNCHANGED lvars
  BY <1>1, QuietKeeps DEF lvars
<1>2. ASSUME NEW u \in Users, Cooldown(u)
      PROVE  LInv'
  BY <1>2, QuietKeeps DEF Cooldown
<1> QED
  BY <1>1, <1>2, TryPollinateKeeps, RewardRequestKeeps, ComputeRequestKeeps, ChargeKeeps,
     NewDayKeeps DEF Next

LEMMA DaysStart ==
  ASSUME LedgerConstants, Init
  PROVE  Days
<1>1. /\ today = [u \in Users |-> NoPoints] /\ past = [u \in Users |-> NoPast]
      /\ days = 0 /\ faults = 0
      /\ credits = [u \in Users |-> InitCredits] /\ compute = [u \in Users |-> 0]
  BY DEF Init
<1>2. /\ NoPoints \in [Kinds -> Nat] /\ \A k \in Kinds : NoPoints[k] = 0
      /\ NoPast \in [PastKinds -> Nat] /\ \A k \in PastKinds : NoPast[k] = 0
  BY DEF NoPoints, NoPast, PastKinds
<1>3. LedgerType
  BY <1>1, <1>2 DEF LedgerType, LedgerConstants
<1>4. Rationed
  <2> SUFFICES ASSUME NEW u \in Users, NEW k \in Limited
               PROVE  /\ today[u][k] <= LimitOf[k]
                      /\ past[u][k] <= LimitOf[k] * days + today[u][k]
    BY DEF Rationed
  <2>1. k \in Kinds /\ k \in PastKinds /\ LimitOf[k] \in Nat /\ LimitOf[k] * 0 = 0
    BY LimitType DEF Limited, Kinds, PastKinds
  <2> QED  BY <1>1, <1>2, <2>1
<1>5. ExchangeRationed
  <2>1. 0 * CreditsPerCompute = 0 /\ ExchangeLimit * 0 = 0 /\ ExchangeLimit \in Nat
    BY DEF LedgerConstants
  <2> QED  BY <1>1, <1>2, <2>1 DEF ExchangeRationed, Exchanged, Kinds, PastKinds
<1> QED  BY <1>3, <1>4, <1>5 DEF Days

LEMMA LInvStarts ==
  ASSUME LedgerConstants, Init
  PROVE  LInv
<1>1. /\ \A u \in Users : past[u] = NoPast /\ credits[u] = InitCredits /\ compute[u] = 0
      /\ \A k \in PastKinds : NoPast[k] = 0
  BY DEF Init, NoPast, PastKinds
<1>2. 0 * CreditsPerCompute = 0
  BY DEF LedgerConstants
<1>3. \A u \in Users : Balanced(u)
  BY <1>1, <1>2 DEF Balanced, PastKinds, Kinds, LedgerConstants
<1> QED  BY <1>3, DaysStart, BalancesByUser DEF LInv

-----------------------------------------------------------------------------
(* The invariant of the campaign *)

CampaignConstants ==
  LedgerConstants /\ FreeDaily \in Nat /\ OfficialCost \in Nat /\ Costs \subseteq Nat

Answers == Solutions \cup {Guarantee, NoSolution}
TaskRow == [source: {"rescue", "yunchong"}, owner: Users,
            status: {"available", "expired", "in_progress", "rescued"}, attempts: Nat,
            solution: Answers, reused: BOOLEAN, cost: Nat]
CallAtWork == [at: {"analyze", "verify"}, user: Users, task: Nat, solution: Answers, reused: BOOLEAN]
Entry == [task: Nat, solution: Answers, by: Users, score: Nat]

CampaignType ==
  /\ task \in Seq(TaskRow) /\ kb \in Seq(Entry)
  /\ call \in [Calls -> CallAtWork \cup {Idle}]
  /\ used \in [Users -> Nat] /\ bills \in [Users -> [free: Nat, paid: Nat]]

\* Free uses are rationed like rewards, and compute is what was bought less what was paid.
BillsAdd ==
  \A u \in Users :
    /\ bills[u].free <= FreeDaily * days + Least(used[u], FreeDaily)
    /\ compute[u] = past[u].bought - bills[u].paid

CInv == Days /\ CampaignType /\ BillsAdd /\ KnowledgeIsVerified

-----------------------------------------------------------------------------
(* Rows *)

\* A row is changed where it stands, or nowhere.
LEMMA RowChanged ==
  ASSUME task \in Seq(TaskRow), NEW t, NEW r, t \in DOMAIN task => r \in TaskRow
  PROVE  [task EXCEPT ![t] = r] \in Seq(TaskRow)
<1>1. CASE t \in DOMAIN task
  <2>1. t \in 1 .. Len(task) /\ r \in TaskRow
    BY <1>1
  <2> QED  BY <2>1, ExceptSeq
<1>2. CASE t \notin DOMAIN task
  <2>1. [task EXCEPT ![t] = r] = [i \in DOMAIN task |-> task[i]]
    BY <1>2
  <2>2. task = [i \in DOMAIN task |-> task[i]]
    OBVIOUS
  <2> QED  BY <2>1, <2>2
<1> QED  BY <1>1, <1>2

LEMMA EntryType ==
  ASSUME kb \in Seq(Entry), NEW i \in DOMAIN kb
  PROVE  kb[i] \in Entry
OBVIOUS

LEMMA RowType ==
  ASSUME task \in Seq(TaskRow), NEW t \in DOMAIN task
  PROVE  task[t] \in TaskRow /\ t \in Nat
OBVIOUS

\* What is added to the knowledge base was verified, or is the guaranteed solution.
LEMMA KnowledgeKept ==
  ASSUME kb \in Seq(Entry), KnowledgeIsVerified, passed \subseteq passed',
         \/ kb' = kb
         \/ \E e \in Entry : /\ kb' = Append(kb, e)
                             /\ \/ e.solution = Guarantee /\ e.score < 60
                                \/ << e.task, e.solution >> \in passed'
  PROVE  kb' \in Seq(Entry) /\ KnowledgeIsVerified'
<1>1. CASE kb' = kb
  BY <1>1 DEF KnowledgeIsVerified
<1>2. ASSUME NEW e \in Entry, kb' = Append(kb, e),
             \/ e.solution = Guarantee /\ e.score < 60
             \/ << e.task, e.solution >> \in passed'
      PROVE  kb' \in Seq(Entry) /\ KnowledgeIsVerified'
  <2>1. /\ kb' \in Seq(Entry) /\ Len(kb') = Len(kb) + 1
        /\ \A i \in 1 .. Len(kb) : kb'[i] = kb[i]
        /\ kb'[Len(kb) + 1] = e
    BY <1>2, AppendProperties
  <2>2. ASSUME NEW i \in DOMAIN kb'
        PROVE  \/ kb'[i].solution = Guarantee /\ kb'[i].score < 60
               \/ << kb'[i].task, kb'[i].solution >> \in passed'
    <3>1. i \in 1 .. Len(kb) \/ i = Len(kb) + 1
      BY <2>1
    <3>2. CASE i \in 1 .. Len(kb)
      BY <2>1, <3>2 DEF KnowledgeIsVerified
    <3>3. CASE i = Len(kb) + 1
      BY <1>2, <2>1, <3>3
    <3> QED  BY <3>1, <3>2, <3>3
  <2> QED  BY <2>1, <2>2 DEF KnowledgeIsVerified
<1> QED  BY <1>1, <1>2

\* Steps that touch neither days nor bills keep the bills.
LEMMA BillsKept ==
  ASSUME CInv, UNCHANGED << days, used, bills, compute >>,
         \A u \in Users : past'[u].bought = past[u].bought
  PROVE  BillsAdd'
BY DEF CInv, BillsAdd

\* A use of the assistant is free or paid.
LEMMA ConsumeOfficialBills ==
  ASSUME CampaignConstants, CInv, NEW u \in Users, ConsumeOfficial(u), days' = days,
         \A v \in Users : past'[v].bought = past[v].bought
  PROVE  /\ used' \in [Users -> Nat] /\ bills' \in [Users -> [free: Nat, paid: Nat]]
         /\ compute' \in [Users -> Nat] /\ BillsAdd'
<1>1. /\ used \in [Users -> Nat] /\ bills \in [Users -> [free: Nat, paid: Nat]]
      /\ compute \in [Users -> Nat] /\ days \in Nat /\ FreeDaily \in Nat /\ OfficialCost \in Nat
  BY DEF CInv, CampaignType, Days, LedgerType, CampaignConstants
<1>2. used' = [used EXCEPT ![u] = used[u] + 1] /\ used[u] \in Nat
  BY <1>1 DEF ConsumeOfficial
<1>3. FreeDaily * days \in Nat
  BY <1>1, OneMore
<1>4. \A v \in Users : /\ bills[v].free <= FreeDaily * days + Least(used[v], FreeDaily)
                       /\ compute[v] = past[v].bought - bills[v].paid
                       /\ bills[v].free \in Nat /\ bills[v].paid \in Nat
                       /\ compute[v] \in Nat /\ used[v] \in Nat /\ past[v].bought \in Nat
  BY <1>1 DEF CInv, BillsAdd, Days, LedgerType, PastKinds
<1>5. CASE used[u] < FreeDaily /\ bills' = [bills EXCEPT ![u].free = @ + 1] /\ compute' = compute
  <2>1. bills' = [bills EXCEPT ![u] = [free |-> bills[u].free + 1, paid |-> bills[u].paid]]
    <3>1. bills[u] \in [free: Nat, paid: Nat]
      BY <1>1
    <3>2. [bills[u] EXCEPT !.free = @ + 1] = [free |-> bills[u].free + 1, paid |-> bills[u].paid]
      BY <3>1
    <3>3. bills' = [bills EXCEPT ![u] = [bills[u] EXCEPT !.free = @ + 1]]
      BY <1>5
    <3> QED  BY <3>2, <3>3
  <2>2. bills' \in [Users -> [free: Nat, paid: Nat]]
    BY <1>1, <1>4, <2>1
  <2>3. bills'[u].free = bills[u].free + 1 /\ bills'[u].paid = bills[u].paid
    BY <1>1, <2>1
  <2>4. bills'[u].free <= FreeDaily * days + Least(used'[u], FreeDaily)
    BY <1>1, <1>2, <1>3, <1>4, <1>5, <2>3 DEF Least
  <2>5. \A v \in Users \ {u} : bills'[v] = bills[v] /\ used'[v] = used[v]
    BY <1>1, <1>2, <2>1
  <2> QED  BY <1>1, <1>2, <1>4, <1>5, <2>2, <2>3, <2>4, <2>5 DEF BillsAdd
<1>6. CASE /\ compute[u] >= OfficialCost /\ compute' = [compute EXCEPT ![u] = @ - OfficialCost]
           /\ bills' = [bills EXCEPT ![u].paid = @ + OfficialCost]
  <2>1. bills' = [bills EXCEPT ![u] = [free |-> bills[u].free, paid |-> bills[u].paid + OfficialCost]]
    <3>1. bills[u] \in [free: Nat, paid: Nat]
      BY <1>1
    <3>2. [bills[u] EXCEPT !.paid = @ + OfficialCost]
            = [free |-> bills[u].free, paid |-> bills[u].paid + OfficialCost]
      BY <3>1
    <3>3. bills' = [bills EXCEPT ![u] = [bills[u] EXCEPT !.paid = @ + OfficialCost]]
      BY <1>6
    <3> QED  BY <3>2, <3>3
  <2>2. bills' \in [Users -> [free: Nat, paid: Nat]]
    BY <1>1, <1>4, <2>1
  <2>3. bills'[u].free = bills[u].free /\ bills'[u].paid = bills[u].paid + OfficialCost
    BY <1>1, <2>1
  <2>4. bills'[u].free <= FreeDaily * days + Least(used'[u], FreeDaily)
    BY <1>1, <1>2, <1>3, <1>4, <2>3 DEF Least
  <2>5. compute'[u] = past[u].bought - bills'[u].paid /\ compute' \in [Users -> Nat]
    BY <1>1, <1>4, <1>6, <2>3
  <2>6. \A v \in Users \ {u} : bills'[v] = bills[v] /\ used'[v] = used[v] /\ compute'[v] = compute[v]
    BY <1>1, <1>2, <1>6, <2>1
  <2>7. \A v \in Users : /\ bills'[v].free <= FreeDaily * days + Least(used'[v], FreeDaily)
                         /\ compute'[v] = past[v].bought - bills'[v].paid
    BY <1>4, <2>4, <2>5, <2>6
  <2>8. used' \in [Users -> Nat]
    BY <1>1, <1>2
  <2> QED  BY <2>2, <2>5, <2>7, <2>8 DEF BillsAdd
<1> QED  BY <1>5, <1>6 DEF ConsumeOfficial, IsFree, Consumed

-----------------------------------------------------------------------------
(* The steps of the campaign *)

LEMMA CampaignTypes ==
  ASSUME CInv
  PROVE  /\ task \in Seq(TaskRow) /\ kb \in Seq(Entry)
         /\ call \in [Calls -> CallAtWork \cup {Idle}]
         /\ used \in [Users -> Nat] /\ bills \in [Users -> [free: Nat, paid: Nat]]
         /\ compute \in [Users -> Nat] /\ days \in Nat /\ faults \in Nat
         /\ LedgerType /\ KnowledgeIsVerified
BY DEF CInv, CampaignType, Days, LedgerType

\* A request that touches neither rewards nor bills, but perhaps credits
LEMMA TasksOnly ==
  ASSUME CInv, LedgerType', task' \in Seq(TaskRow), call' \in [Calls -> CallAtWork \cup {Idle}],
         UNCHANGED << today, compute, days, kb, used, passed, bills >>,
         \A u \in Users, k \in Kinds \cup {"bought"} : past'[u][k] = past[u][k]
  PROVE  CInv'
<1>1. Days'
  <2>1. Limited \cup {"exchange"} \subseteq Kinds
    BY DEF Limited, Kinds
  <2> QED  BY <2>1, OtherEntries DEF CInv
<1>2. BillsAdd'
  BY BillsKept
<1> QED  BY <1>1, <1>2 DEF CInv, CampaignType, KnowledgeIsVerified

LEMMA LedgerTypeKept ==
  ASSUME LedgerType, UNCHANGED << credits, today, compute, past, days, faults >>
  PROVE  LedgerType'
BY DEF LedgerType

LEMMA RefreshKeeps ==
  ASSUME CampaignConstants, CInv, NEW u \in Users, Refresh(u)
  PROVE  CInv'
<1>1. PICK cost \in Costs :
        task' = Append([t \in DOMAIN task |->
                          IF task[t].source = "yunchong" /\ task[t].owner = u /\ task[t].status = "available"
                          THEN [task[t] EXCEPT !.status = "expired"] ELSE task[t]],
                       NewTask(u, "yunchong", cost))
  BY DEF Refresh
<1> DEFINE old(t) == IF task[t].source = "yunchong" /\ task[t].owner = u /\ task[t].status = "available"
                     THEN [task[t] EXCEPT !.status = "expired"] ELSE task[t]
           olds == [t \in DOMAIN task |-> old(t)]
<1>2. \A t \in DOMAIN task : old(t) \in TaskRow
  <2> TAKE t \in DOMAIN task
  <2>1. task[t] \in TaskRow
    BY CampaignTypes
  <2> QED  BY <2>1 DEF TaskRow
<1>3. olds \in Seq(TaskRow)
  <2>1. task \in Seq(TaskRow) /\ DOMAIN task = 1 .. Len(task) /\ Len(task) \in Nat
    BY CampaignTypes
  <2>2. olds \in [1 .. Len(task) -> TaskRow]
    BY <1>2, <2>1
  <2> HIDE DEF olds
  <2> QED  BY <2>1, <2>2
<1>4. NewTask(u, "yunchong", cost) \in TaskRow
  BY DEF NewTask, TaskRow, Answers, CampaignConstants
<1>5. task' \in Seq(TaskRow)
  <2> HIDE DEF olds
  <2>1. Append(olds, NewTask(u, "yunchong", cost)) \in Seq(TaskRow)
    BY <1>3, <1>4, AppendProperties
  <2> QED  BY <1>1, <2>1 DEF olds
<1>6. UNCHANGED << credits, today, compute, past, days, faults, call, kb, used, passed, bills >>
  BY DEF Refresh
<1>7. LedgerType'
  BY <1>6, CampaignTypes, LedgerTypeKept
<1> QED  BY <1>5, <1>6, <1>7, CampaignTypes, TasksOnly

LEMMA AcceptKeeps ==
  ASSUME CampaignConstants, CInv, NEW u \in Users, NEW t \in DOMAIN task, Accept(u, t)
  PROVE  CInv'
<1>1. task \in Seq(TaskRow) /\ task[t] \in TaskRow /\ LedgerType
  BY CampaignTypes, RowType
<1>2. PICK cost \in {0, task[t].cost} :
        credits' = [credits EXCEPT ![u] = @ - cost] /\ Notes(u, "deducted", cost)
  BY DEF Accept, Notes
<1>3. cost \in Nat
  BY <1>1 DEF TaskRow
<1>4. /\ past' \in [Users -> [PastKinds -> Nat]]
      /\ \A j \in PastKinds \ {"deducted"} : past'[u][j] = past[u][j]
      /\ \A v \in Users \ {u} : past'[v] = past[v]
  BY <1>1, <1>2, <1>3, Noted
<1>5. \A v \in Users, k \in Kinds \cup {"bought"} : past'[v][k] = past[v][k]
  BY <1>4 DEF PastKinds, Kinds
<1>6. credits' \in [Users -> Int]
  BY <1>1, <1>2, <1>3 DEF LedgerType
<1>7. faults' \in Nat /\ UNCHANGED << today, compute, days, call, kb, used, passed, bills >>
  BY <1>1 DEF Accept, Fails, LedgerType
<1>8. task' \in Seq(TaskRow)
  <2>1. task' = task \/ task' = [task EXCEPT ![t] = [task[t] EXCEPT !.status = "in_progress",
                                                                   !.attempts = @ + 1]]
    BY DEF Accept
  <2>2. [task[t] EXCEPT !.status = "in_progress", !.attempts = @ + 1] \in TaskRow
    <3>1. task[t].attempts + 1 \in Nat
      BY <1>1 DEF TaskRow
    <3> QED  BY <1>1, <3>1 DEF TaskRow
  <2> QED  BY <1>1, <2>1, <2>2, RowChanged
<1>9. LedgerType'
  BY <1>1, <1>4, <1>6, <1>7 DEF LedgerType
<1> QED  BY <1>5, <1>7, <1>8, <1>9, CampaignTypes, TasksOnly

LEMMA AbandonKeeps ==
  ASSUME CampaignConstants, CInv, NEW u \in Users, NEW t \in DOMAIN task, Abandon(u, t)
  PROVE  CInv'
<1>1. task \in Seq(TaskRow) /\ task[t] \in TaskRow
  BY CampaignTypes, RowType
<1>2. /\ task' = [task EXCEPT ![t] = [task[t] EXCEPT !.status = "available"]]
      /\ UNCHANGED << credits, today, compute, past, days, faults, call, kb, used, passed, bills >>
  BY DEF Abandon
<1>3. [task[t] EXCEPT !.status = "available"] \in TaskRow
  BY <1>1 DEF TaskRow
<1>4. task' \in Seq(TaskRow)
  BY <1>1, <1>2, <1>3, RowChanged
<1>5. LedgerType'
  BY <1>2, CampaignTypes, LedgerTypeKept
<1> QED  BY <1>2, <1>4, <1>5, CampaignTypes, TasksOnly

LEMMA ReclaimKeeps ==
  ASSUME CampaignConstants, CInv, NEW t \in DOMAIN task, Reclaim(t)
  PROVE  CInv'
<1>1. task \in Seq(TaskRow) /\ task[t] \in TaskRow
  BY CampaignTypes, RowType
<1>2. /\ task' = [task EXCEPT ![t] = [task[t] EXCEPT !.status = "available",
                                                     !.solution = NoSolution, !.attempts = 0]]
      /\ UNCHANGED << credits, today, compute, past, days, faults, call, kb, used, passed, bills >>
  BY DEF Reclaim, lvars
<1>3. [task[t] EXCEPT !.status = "available", !.solution = NoSolution, !.attempts = 0] \in TaskRow
  BY <1>1 DEF TaskRow, Answers
<1>4. task' \in Seq(TaskRow)
  BY <1>1, <1>2, <1>3, RowChanged
<1>5. LedgerType'
  BY <1>2, CampaignTypes, LedgerTypeKept
<1> QED  BY <1>2, <1>4, <1>5, CampaignTypes, TasksOnly

LEMMA AnalyzeAnsweredKeeps ==
  ASSUME CampaignConstants, CInv, NEW c \in Calls, AnalyzeAnswered(c)
  PROVE  CInv'
<1>1. task \in Seq(TaskRow) /\ call \in [Calls -> CallAtWork \cup {Idle}]
  BY CampaignTypes
<1>2. /\ call' = [call EXCEPT ![c] = Idle]
      /\ UNCHANGED << credits, today, compute, past, days, faults, kb, used, passed, bills >>
  BY DEF AnalyzeAnswered, lvars
<1>3. ASSUME NEW s \in Solutions, task' = [task EXCEPT ![call[c].task].solution = s]
      PROVE  task' \in Seq(TaskRow)
  <2> DEFINE t == call[c].task
             r == [task[t] EXCEPT !.solution = s]
  <2>1. task' = [task EXCEPT ![t] = r]
    BY <1>3
  <2>2. ASSUME t \in DOMAIN task
        PROVE  r \in TaskRow
    <3>1. task[t] \in TaskRow
      BY <1>1, <2>2, RowType
    <3> HIDE DEF t
    <3> QED  BY <3>1 DEF TaskRow, Answers
  <2> HIDE DEF r, t
  <2> QED  BY <1>1, <2>1, <2>2, RowChanged
<1>4. task' \in Seq(TaskRow)
  BY <1>1, <1>3 DEF AnalyzeAnswered
<1>5. call' \in [Calls -> CallAtWork \cup {Idle}]
  BY <1>1, <1>2
<1>6. LedgerType'
  BY <1>2, CampaignTypes, LedgerTypeKept
<1> QED  BY <1>2, <1>4, <1>5, <1>6, TasksOnly

LEMMA PostVerifyKeeps ==
  ASSUME CampaignConstants, CInv, NEW c \in Calls, NEW u \in Users, NEW t \in DOMAIN task,
         PostVerify(c, u, t)
  PROVE  CInv'
<1>1. task[t] \in TaskRow /\ t \in Nat /\ call \in [Calls -> CallAtWork \cup {Idle}]
  BY CampaignTypes, RowType
<1>2. /\ call' = [call EXCEPT ![c] = Waiting("verify", u, t)]
      /\ UNCHANGED << credits, today, compute, past, days, faults, task, kb, used, passed, bills >>
  BY DEF PostVerify
<1>3. Waiting("verify", u, t) \in CallAtWork
  BY <1>1 DEF Waiting, CallAtWork, TaskRow
<1>4. call' \in [Calls -> CallAtWork \cup {Idle}]
  BY <1>1, <1>2, <1>3
<1>5. LedgerType'
  BY <1>2, CampaignTypes, LedgerTypeKept
<1> QED  BY <1>2, <1>4, <1>5, CampaignTypes, TasksOnly

LEMMA VerifyFailedKeeps ==
  ASSUME CampaignConstants, CInv, NEW c \in Calls, VerifyFailed(c)
  PROVE  CInv'
<1>1. call \in [Calls -> CallAtWork \cup {Idle}]
  BY CampaignTypes
<1>2. /\ call' = [call EXCEPT ![c] = Idle]
      /\ UNCHANGED << credits, today, compute, past, days, faults, task, kb, used, passed, bills >>
  BY DEF VerifyFailed, lvars
<1>3. call' \in [Calls -> CallAtWork \cup {Idle}]
  BY <1>1, <1>2
<1>4. LedgerType'
  BY <1>2, CampaignTypes, LedgerTypeKept
<1> QED  BY <1>2, <1>3, <1>4, CampaignTypes, TasksOnly

\* What passes into the knowledge base is the solution that was read before the wait,
\* and so the one that was verified.
LEMMA VerifyPassedKeeps ==
  ASSUME CampaignConstants, CInv, NEW c \in Calls, VerifyPassed(c)
  PROVE  CInv'
<1> DEFINE t == call[c].task
           r == [task[t] EXCEPT !.status = "rescued"]
           e == [task |-> t, solution |-> call[c].solution, by |-> call[c].user, score |-> 60]
<1>1. call \in [Calls -> CallAtWork \cup {Idle}] /\ task \in Seq(TaskRow) /\ kb \in Seq(Entry)
  BY CampaignTypes
<1>2. call[c] \in CallAtWork
  BY <1>1 DEF VerifyPassed, Idle
<1>3. /\ call' = [call EXCEPT ![c] = Idle] /\ task' = [task EXCEPT ![t] = r]
      /\ passed' = passed \cup {<< t, call[c].solution >>}
      /\ kb' = kb \/ kb' = Append(kb, e)
      /\ UNCHANGED << credits, today, compute, past, days, faults, used, bills >>
  BY DEF VerifyPassed, Remembered, Verified, lvars
<1>4. e \in Entry
  BY <1>2 DEF CallAtWork, Entry
<1>5. << e.task, e.solution >> \in passed'
  BY <1>3
<1>6. kb' \in Seq(Entry) /\ KnowledgeIsVerified'
  <2> HIDE DEF e
  <2>1. passed \subseteq passed'
    BY <1>3
  <2> QED  BY <1>1, <1>3, <1>4, <1>5, <2>1, CampaignTypes, KnowledgeKept
<1>7. task' \in Seq(TaskRow)
  <2>1. ASSUME t \in DOMAIN task
        PROVE  r \in TaskRow
    <3>1. task[t] \in TaskRow
      BY <1>1, <2>1, RowType
    <3> HIDE DEF t
    <3> QED  BY <3>1 DEF TaskRow
  <2> HIDE DEF r, t
  <2> QED  BY <1>1, <1>3, <2>1, RowChanged
<1>8. call' \in [Calls -> CallAtWork \cup {Idle}]
  BY <1>1, <1>3
<1>9. LedgerType'
  BY <1>3, CampaignTypes, LedgerTypeKept
<1>10. Days'
  BY <1>3, <1>9, OtherEntries DEF CInv
<1>11. BillsAdd'
  BY <1>3, BillsKept
<1> QED  BY <1>3, <1>6, <1>7, <1>8, <1>10, <1>11 DEF CInv, CampaignType

\* The rows of a task that is analysed, reused or guaranteed
LEMMA AnalysedRows ==
  ASSUME CInv, NEW c \in Calls, NEW u \in Users, NEW t \in DOMAIN task,
         GuaranteedSuccess(u, t) \/ Reuse(t) \/ AskAgent(c, u, t)
  PROVE  task' \in Seq(TaskRow) /\ call' \in [Calls -> CallAtWork \cup {Idle}]
<1>1. /\ task \in Seq(TaskRow) /\ task[t] \in TaskRow /\ t \in Nat /\ kb \in Seq(Entry)
      /\ call \in [Calls -> CallAtWork \cup {Idle}]
  BY CampaignTypes, RowType
<1>2. Begun(t) \in TaskRow
  <2>1. task[t].attempts + 1 \in Nat
    BY <1>1 DEF TaskRow
  <2> QED  BY <1>1, <2>1 DEF Begun, TaskRow
<1>3. CASE GuaranteedSuccess(u, t)
  <2>1. /\ task' = [task EXCEPT ![t] = [task[t] EXCEPT !.status = "rescued", !.solution = Guarantee]]
        /\ call' = call
    BY <1>3 DEF GuaranteedSuccess
  <2>2. [task[t] EXCEPT !.status = "rescued", !.solution = Guarantee] \in TaskRow
    BY <1>1 DEF TaskRow, Answers
  <2> QED  BY <1>1, <2>1, <2>2, RowChanged
<1>4. CASE Reuse(t)
  <2>1. PICK i \in DOMAIN kb :
          task' = [task EXCEPT ![t] = [Begun(t) EXCEPT !.solution = kb[i].solution, !.reused = TRUE]]
    BY <1>4 DEF Reuse
  <2>2. kb[i].solution \in Answers
    BY <1>1, EntryType DEF Entry
  <2>3. [Begun(t) EXCEPT !.solution = kb[i].solution, !.reused = TRUE] \in TaskRow
    BY <1>2, <2>2 DEF TaskRow
  <2>4. call' = call
    BY <1>4 DEF Reuse
  <2> QED  BY <1>1, <2>1, <2>3, <2>4, RowChanged
<1>5. CASE AskAgent(c, u, t)
  <2>1. task' = [task EXCEPT ![t] = Begun(t)] /\ call' = [call EXCEPT ![c] = Waiting("analyze", u, t)]
    BY <1>5 DEF AskAgent
  <2>2. Waiting("analyze", u, t) \in CallAtWork
    BY <1>1 DEF Waiting, CallAtWork, TaskRow
  <2> QED  BY <1>1, <1>2, <2>1, <2>2, RowChanged
<1> QED  BY <1>3, <1>4, <1>5

\* The contributor of a solution that is used again is rewarded within his limit.
LEMMA ReuseRewards ==
  ASSUME CampaignConstants, CInv, NEW t \in DOMAIN task, Reuse(t),
         compute' \in [Users -> Nat], days' = days, faults' \in Nat
  PROVE  Days' /\ \A v \in Users : past'[v].bought = past[v].bought
<1>1. kb \in Seq(Entry) /\ LedgerType /\ Days
  BY CampaignTypes DEF CInv
<1>2. PICK i \in DOMAIN kb :
        AddCredit(kb[i].by, Granted(PassiveReward, PassiveLimit, Points(kb[i].by, "passive")), "passive")
  BY DEF Reuse
<1> DEFINE by == kb[i].by
           points == today[by]["passive"]
           x == Granted(PassiveReward, PassiveLimit, points)
<1>3. by \in Users
  BY <1>1, EntryType DEF Entry
<1>4. AddLogged(by, x, "passive", 0)
  BY <1>2 DEF AddCredit, Points
<1>5. /\ points \in Nat /\ points <= PassiveLimit
      /\ LimitOf["passive"] = PassiveLimit /\ PassiveLimit \in Nat /\ PassiveReward \in Nat
      /\ LedgerConstants
  <2>1. points <= LimitOf["passive"]
    BY <1>1, <1>3 DEF Days, Rationed, Limited
  <2>2. points \in Nat
    BY <1>1, <1>3 DEF LedgerType, Kinds
  <2> QED  BY <2>1, <2>2, LimitType DEF CampaignConstants, LedgerConstants
<1>6. x \in Nat /\ points + 0 + x <= PassiveLimit
  <2> HIDE DEF points
  <2>1. x \in Nat /\ (x > 0 => points + x <= PassiveLimit)
    BY <1>5, GrantedBounds
  <2>2. CASE x = 0
    BY <1>5, <2>2
  <2>3. CASE x > 0
    <3> HIDE DEF x
    <3> QED  BY <1>5, <2>1, <2>3
  <2> QED
    <3> HIDE DEF x
    <3> QED  BY <2>1, <2>2, <2>3
<1>7. "passive" \in Limited /\ "passive" \in Kinds /\ "bought" \in PastKinds \ {"passive"}
  BY DEF Limited, Kinds, PastKinds
<1> HIDE DEF x, by
<1>8. Days'
  BY <1>1, <1>3, <1>4, <1>5, <1>6, <1>7, RewardRationed
<1>9. \A v \in Users : past'[v]["bought"] = past[v]["bought"]
  BY <1>1, <1>3, <1>4, <1>6, <1>7, LoggedEntries
<1> QED  BY <1>8, <1>9

LEMMA PostAnalyzeKeeps ==
  ASSUME CampaignConstants, CInv, NEW c \in Calls, NEW u \in Users, NEW t \in DOMAIN task,
         PostAnalyze(c, u, t)
  PROVE  CInv'
<1>1. /\ GuaranteedSuccess(u, t) \/ Reuse(t) \/ AskAgent(c, u, t)
      /\ ConsumeOfficial(u) \/ UNCHANGED << used, compute, bills >>
      /\ UNCHANGED << days, faults, passed >>
  BY DEF PostAnalyze
<1>2. task' \in Seq(TaskRow) /\ call' \in [Calls -> CallAtWork \cup {Idle}]
  BY <1>1, AnalysedRows
<1>3. LedgerType /\ compute \in [Users -> Nat] /\ faults \in Nat /\ kb \in Seq(Entry)
      /\ KnowledgeIsVerified
  BY CampaignTypes
<1>4. compute' \in [Users -> Nat]
  <2>1. CASE ConsumeOfficial(u)
    <3>1. compute' = compute \/ Consumed(u, OfficialCost)
      BY <2>1 DEF ConsumeOfficial
    <3>2. OfficialCost \in Nat
      BY DEF CampaignConstants
    <3> QED  BY <1>3, <3>1, <3>2 DEF Consumed
  <2> QED  BY <1>1, <1>3, <2>1
<1>5. Days' /\ \A v \in Users : past'[v].bought = past[v].bought
  <2>1. CASE Reuse(t)
    BY <1>1, <1>3, <1>4, <2>1, ReuseRewards
  <2>2. CASE GuaranteedSuccess(u, t) \/ AskAgent(c, u, t)
    <3>1. UNCHANGED << credits, today, past >>
      BY <2>2 DEF GuaranteedSuccess, AskAgent
    <3>2. LedgerType'
      BY <1>1, <1>3, <1>4, <3>1 DEF LedgerType
    <3> QED  BY <1>1, <3>1, <3>2, OtherEntries DEF CInv
  <2> QED  BY <1>1, <2>1, <2>2
<1>6. /\ used' \in [Users -> Nat] /\ bills' \in [Users -> [free: Nat, paid: Nat]] /\ BillsAdd'
  <2>1. CASE ConsumeOfficial(u)
    BY <1>1, <1>5, <2>1, ConsumeOfficialBills
  <2>2. CASE UNCHANGED << used, compute, bills >>
    BY <1>1, <1>5, <2>2, CampaignTypes, BillsKept
  <2> QED  BY <1>1, <2>1, <2>2
<1>7. kb' \in Seq(Entry) /\ KnowledgeIsVerified'
  <2>1. CASE GuaranteedSuccess(u, t)
    <3> DEFINE e == [task |-> t, solution |-> Guarantee, by |-> u, score |-> 40]
    <3>1. e \in Entry /\ e.solution = Guarantee /\ e.score < 60
      BY RowType, CampaignTypes DEF Entry, Answers
    <3>2. kb' = kb \/ kb' = Append(kb, e)
      BY <2>1 DEF GuaranteedSuccess, Remembered
    <3> HIDE DEF e
    <3>3. passed \subseteq passed'
      BY <1>1
    <3> QED  BY <1>3, <3>1, <3>2, <3>3, KnowledgeKept
  <2>2. CASE Reuse(t) \/ AskAgent(c, u, t)
    <3>1. kb' = kb /\ passed' = passed
      BY <1>1, <2>2 DEF Reuse, AskAgent
    <3> QED  BY <1>3, <3>1 DEF KnowledgeIsVerified
  <2> QED  BY <1>1, <2>1, <2>2
<1> QED  BY <1>2, <1>5, <1>6, <1>7 DEF CInv, CampaignType

LEMMA NextDayKeeps ==
  ASSUME CampaignConstants, CInv, NextDay
  PROVE  CInv'
<1>1. /\ days' = days + 1 /\ used' = [u \in Users |-> 0]
      /\ UNCHANGED << compute, past, task, call, kb, passed, bills >>
  BY DEF NextDay, NewDay
<1>2. Days'
  BY NewDayRationed DEF CInv, CampaignConstants, NextDay
<1>3. BillsAdd'
  <2> SUFFICES ASSUME NEW u \in Users
               PROVE  bills[u].free <= FreeDaily * (days + 1) + Least(0, FreeDaily)
    BY <1>1 DEF CInv, BillsAdd
  <2>1. /\ bills[u].free \in Nat /\ used[u] \in Nat /\ FreeDaily \in Nat /\ days \in Nat
        /\ bills[u].free <= FreeDaily * days + Least(used[u], FreeDaily)
    BY CampaignTypes DEF CampaignConstants, CInv, BillsAdd
  <2>2. FreeDaily * (days + 1) = FreeDaily * days + FreeDaily /\ FreeDaily * days \in Nat
    BY <2>1, OneMore
  <2> QED  BY <2>1, <2>2 DEF Least
<1>4. used' \in [Users -> Nat]
  BY <1>1
<1> QED  BY <1>1, <1>2, <1>3, <1>4 DEF CInv, CampaignType, KnowledgeIsVerified

LEMMA BuyComputeKeeps ==
  ASSUME CampaignConstants, CInv, NEW u \in Users, NEW x \in Charges, BuyCompute(u, x)
  PROVE  CInv'
<1>1. /\ Notes(u, "bought", x) /\ compute' = [compute EXCEPT ![u] = @ + x]
      /\ UNCHANGED << credits, today, days, faults, task, call, kb, used, passed, bills >>
  BY DEF BuyCompute, Recharge, Notes, rvars
<1>2. x \in Nat /\ LedgerType
  BY CampaignTypes DEF CampaignConstants, LedgerConstants
<1>3. /\ past' \in [Users -> [PastKinds -> Nat]]
      /\ past'[u]["bought"] = past[u]["bought"] + x
      /\ \A v \in Users \ {u} : past'[v] = past[v]
      /\ \A v \in Users, j \in Kinds : past'[v][j] = past[v][j]
  BY <1>1, <1>2, Noted
<1>4. /\ compute' \in [Users -> Nat] /\ compute'[u] = compute[u] + x
      /\ \A v \in Users \ {u} : compute'[v] = compute[v]
  BY <1>1, <1>2 DEF LedgerType
<1>5. LedgerType'
  BY <1>1, <1>2, <1>3, <1>4 DEF LedgerType
<1>6. Days'
  <2>1. Limited \cup {"exchange"} \subseteq Kinds
    BY DEF Limited, Kinds
  <2> QED  BY <1>1, <1>3, <1>5, <2>1, OtherEntries DEF CInv
<1>7. BillsAdd'
  <2>1. \A v \in Users : compute'[v] = past'[v].bought - bills[v].paid
    <3> TAKE v \in Users
    <3>1. /\ compute[v] = past[v].bought - bills[v].paid
          /\ compute[v] \in Nat /\ past[v]["bought"] \in Nat /\ bills[v].paid \in Nat
      BY <1>2, CampaignTypes DEF CInv, BillsAdd, LedgerType, PastKinds
    <3> QED  BY <1>2, <1>3, <1>4, <3>1
  <2> QED  BY <1>1, <2>1 DEF CInv, BillsAdd
<1> QED  BY <1>1, <1>6, <1>7 DEF CInv, CampaignType, KnowledgeIsVerified

LEMMA CInvStep ==
  ASSUME CampaignConstants, CInv, [RescueNext]_<< lvars, rvars >>
  PROVE  CInv'
<1>1. CASE UNCHANGED << lvars, rvars >>
  <2>1. LedgerType'
    BY <1>1, CampaignTypes, LedgerTypeKept DEF lvars
  <2> QED  BY <1>1, <2>1, CampaignTypes, TasksOnly DEF lvars, rvars
<1> QED
  BY <1>1, RefreshKeeps, BuyComputeKeeps, AcceptKeeps, AbandonKeeps, PostAnalyzeKeeps,
     PostVerifyKeeps, AnalyzeAnsweredKeeps, VerifyFailedKeeps, VerifyPassedKeeps, ReclaimKeeps,
     NextDayKeeps DEF RescueNext

LEMMA CInvStarts ==
  ASSUME CampaignConstants, RescueInit
  PROVE  CInv
<1>1. Days
  BY DaysStart DEF CampaignConstants, RescueInit
<1>2. /\ call = [c \in Calls |-> Idle] /\ kb = << >> /\ used = [u \in Users |-> 0]
      /\ bills = [u \in Users |-> [free |-> 0, paid |-> 0]]
      /\ days = 0 /\ compute = [u \in Users |-> 0] /\ past = [u \in Users |-> NoPast]
  BY DEF RescueInit, Init
<1>3. task \in Seq(TaskRow)
  <2>1. PICK u \in Users : task = << NewTask(u, "rescue", 0) >>
    BY DEF RescueInit
  <2>2. NewTask(u, "rescue", 0) \in TaskRow
    BY DEF NewTask, TaskRow, Answers
  <2> QED  BY <2>1, <2>2
<1>4. CampaignType
  BY <1>2, <1>3 DEF CampaignType
<1>5. BillsAdd
  <2>1. FreeDaily * 0 = 0 /\ FreeDaily \in Nat /\ NoPast["bought"] = 0
    BY DEF CampaignConstants, NoPast
  <2> QED  BY <1>2, <2>1 DEF BillsAdd, Least
<1>6. KnowledgeIsVerified
  BY <1>2 DEF KnowledgeIsVerified
<1> QED  BY <1>1, <1>4, <1>5, <1>6 DEF CInv

LEMMA CInvClaims ==
  ASSUME CampaignConstants, CInv
  PROVE  KnowledgeIsVerified /\ RationedByDay
<1> SUFFICES ASSUME NEW u \in Users
             PROVE  /\ past[u].passive <= PassiveLimit * (days + 1)
                    /\ bills[u].free <= FreeDaily * (days + 1)
                    /\ compute[u] = past[u].bought - bills[u].paid /\ compute[u] >= 0
  BY DEF RationedByDay, CInv
<1>1. DailyLimits
  BY DaysGiveLimits DEF CInv, CampaignConstants
<1>2. /\ bills[u].free \in Nat /\ used[u] \in Nat /\ FreeDaily \in Nat /\ days \in Nat
      /\ bills[u].free <= FreeDaily * days + Least(used[u], FreeDaily)
      /\ compute[u] \in Nat
  BY CampaignTypes DEF CampaignConstants, CInv, BillsAdd
<1>3. FreeDaily * (days + 1) = FreeDaily * days + FreeDaily /\ FreeDaily * days \in Nat
  BY <1>2, OneMore
<1>4. bills[u].free <= FreeDaily * (days + 1)
  BY <1>2, <1>3 DEF Least
<1> QED  BY <1>1, <1>2, <1>4 DEF DailyLimits, CInv, BillsAdd

-----------------------------------------------------------------------------
(* Theorems *)

\* However many services write to contribution_log, nobody is given more in a day than
\* its limit, and what a user has is what the books say he earned and spent.
THEOREM LimitsAndBooks ==
  ASSUME LedgerConstants
  PROVE  Spec => [](DailyLimits /\ LedgerBalances)
<1>1. Init => LInv
  BY LInvStarts
<1>2. LInv /\ [Next]_lvars => LInv'
  BY LInvStep
<1>3. LInv => DailyLimits /\ LedgerBalances
  BY DaysGiveLimits DEF LInv
<1> QED  BY <1>1, <1>2, <1>3, PTL DEF Spec

\* However analyses, verifications, abandonments and the reclaiming thread meet: the
\* knowledge base holds of a task what was verified for it or is guaranteed, and uses and
\* rewards are rationed by day.
THEOREM KnowledgeWasVerified ==
  ASSUME CampaignConstants
  PROVE  RescueSpec => [](KnowledgeIsVerified /\ RationedByDay)
<1>1. RescueInit => CInv
  BY CInvStarts
<1>2. CInv /\ [RescueNext]_<< lvars, rvars >> => CInv'
  BY CInvStep
<1>3. CInv => KnowledgeIsVerified /\ RationedByDay
  BY CInvClaims
<1> QED  BY <1>1, <1>2, <1>3, PTL DEF RescueSpec

\* Whichever of the two services moves, the books are those of its own requests: credits
\* and compute are what was earned and spent (credit_service.py), and the campaign keeps to
\* its daily numbers (yunchong_service.py, rescue_service.py).
THEOREM BooksAgreeByDay ==
  ASSUME CampaignConstants
  PROVE  CreditSpec => []BooksByDay
<1> DEFINE Inv == (part = "ledger" => LInv) /\ (part = "campaign" => CInv)
<1>1. RescueInit => Inv
  <2>1. RescueInit => Init
    BY DEF RescueInit
  <2> QED  BY <2>1, LInvStarts, CInvStarts DEF CampaignConstants
<1>2. Inv /\ [LedgerPart \/ CampaignPart]_<< part, lvars, rvars >> => Inv'
  <2> SUFFICES ASSUME Inv, [LedgerPart \/ CampaignPart]_<< part, lvars, rvars >>
               PROVE  Inv'
    OBVIOUS
  <2>1. part' = part
    BY DEF LedgerPart, CampaignPart
  <2>2. CASE part = "ledger"
    <3>1. [Next]_lvars
      BY <2>2 DEF LedgerPart, CampaignPart
    <3> QED  BY <2>1, <2>2, <3>1, LInvStep DEF CampaignConstants
  <2>3. CASE part = "campaign"
    <3>1. [RescueNext]_<< lvars, rvars >>
      BY <2>3 DEF LedgerPart, CampaignPart
    <3> QED  BY <2>1, <2>3, <3>1, CInvStep
  <2> QED  BY <2>1, <2>2, <2>3
<1>3. Inv => BooksByDay
  BY CInvClaims DEF LInv, BooksByDay
<1> QED  BY <1>1, <1>2, <1>3, PTL DEF CreditSpec

-----------------------------------------------------------------------------
(* Rows of a conversation *)

Kind == {"command", "log", "summary"}
MessageRow == [from: Requests, what: Kind]
PlacesOf(s, r) == {i \in 1 .. Len(s) : s[i].from = r}
PlacesAt(s, r, w) == {i \in 1 .. Len(s) : s[i] = [from |-> r, what |-> w]}
From(s, r) == Cardinality(PlacesOf(s, r))
Count(s, r, w) == Cardinality(PlacesAt(s, r, w))

LEMMA CountTypes ==
  ASSUME NEW s \in Seq(MessageRow), NEW r, NEW w
  PROVE  /\ From(s, r) \in Nat /\ Count(s, r, w) \in Nat
         /\ (From(s, r) = 0) <=> (PlacesOf(s, r) = {})
         /\ From(s, r) = 0 => Count(s, r, w) = 0
<1>1. Len(s) \in Nat /\ PlacesOf(s, r) \in SUBSET (1 .. Len(s)) /\ PlacesAt(s, r, w) \in SUBSET (1 .. Len(s))
  BY DEF PlacesOf, PlacesAt
<1>2. PlacesAt(s, r, w) \subseteq PlacesOf(s, r)
  BY DEF PlacesOf, PlacesAt
<1>3. /\ Cardinality(PlacesOf(s, r)) \in Nat /\ Cardinality(PlacesAt(s, r, w)) \in Nat
      /\ (Cardinality(PlacesOf(s, r)) = 0) <=> (PlacesOf(s, r) = {})
      /\ (Cardinality(PlacesAt(s, r, w)) = 0) <=> (PlacesAt(s, r, w) = {})
  BY <1>1, PlacesGrow
<1> QED  BY <1>2, <1>3 DEF From, Count

\* What row e of request x and kind k adds to the counts
Adds(s, t, x, k) ==
  /\ t \in Seq(MessageRow)
  /\ \A r \in Requests : From(t, r) = From(s, r) + (IF x = r THEN 1 ELSE 0)
  /\ \A r \in Requests, w \in Kind : Count(t, r, w) = Count(s, r, w) + (IF x = r /\ k = w THEN 1 ELSE 0)

LEMMA CountAppend ==
  ASSUME NEW s \in Seq(MessageRow), NEW x \in Requests, NEW k \in Kind
  PROVE  Adds(s, Append(s, [from |-> x, what |-> k]), x, k)
<1> SUFFICES ASSUME NEW r \in Requests, NEW w \in Kind
             PROVE  LET t == Append(s, [from |-> x, what |-> k]) IN
                    /\ t \in Seq(MessageRow)
                    /\ From(t, r) = From(s, r) + (IF x = r THEN 1 ELSE 0)
                    /\ Count(t, r, w) = Count(s, r, w) + (IF x = r /\ k = w THEN 1 ELSE 0)
  BY DEF Adds, Kind
<1> DEFINE e == [from |-> x, what |-> k]
<1>0. e \in MessageRow /\ e.from = x /\ ((e = [from |-> r, what |-> w]) <=> (x = r /\ k = w))
  BY DEF MessageRow
<1> HIDE DEF e
<1> DEFINE t == Append(s, e)
           n == Len(s)
<1>1. /\ t \in Seq(MessageRow) /\ n \in Nat /\ Len(t) = n + 1 /\ t[n + 1] = e
      /\ \A i \in 1 .. n : t[i] = s[i]
  BY <1>0, AppendProperties
<1> HIDE DEF t
<1>2. PlacesOf(t, r) = IF e.from = r THEN PlacesOf(s, r) \cup {n + 1} ELSE PlacesOf(s, r)
  <2>1. \A i \in 1 .. n + 1 : i \in 1 .. n \/ i = n + 1
    BY <1>1
  <2> QED  BY <1>1, <2>1 DEF PlacesOf
<1>3. PlacesAt(t, r, w) = IF e = [from |-> r, what |-> w] THEN PlacesAt(s, r, w) \cup {n + 1} ELSE PlacesAt(s, r, w)
  <2>1. \A i \in 1 .. n + 1 : i \in 1 .. n \/ i = n + 1
    BY <1>1
  <2> QED  BY <1>1, <2>1 DEF PlacesAt
<1>4. PlacesOf(s, r) \in SUBSET (1 .. n) /\ PlacesAt(s, r, w) \in SUBSET (1 .. n)
  BY DEF PlacesOf, PlacesAt
<1>5. n + 1 \notin PlacesOf(s, r) /\ n + 1 \notin PlacesAt(s, r, w)
  BY <1>1, <1>4
<1>6. /\ Cardinality(PlacesOf(t, r)) = Cardinality(PlacesOf(s, r)) + (IF PlacesOf(t, r) # PlacesOf(s, r) THEN 1 ELSE 0)
      /\ Cardinality(PlacesAt(t, r, w)) = Cardinality(PlacesAt(s, r, w)) + (IF PlacesAt(t, r, w) # PlacesAt(s, r, w) THEN 1 ELSE 0)
  BY <1>1, <1>2, <1>3, <1>4, PlacesGrow
<1> QED  BY <1>0, <1>1, <1>2, <1>3, <1>5, <1>6 DEF From, Count, t, e

LEMMA CountEmpty == ASSUME NEW r, NEW w PROVE From(<< >>, r) = 0 /\ Count(<< >>, r, w) = 0
<1>1. PlacesOf(<< >>, r) = {} /\ PlacesAt(<< >>, r, w) = {}
  BY DEF PlacesOf, PlacesAt
<1> QED  BY <1>1, FS_EmptySet DEF From, Count

\* A row of r is put at the end of a conversation.
Rows == [Convs -> Seq(MessageRow)]
Put(rw, c, r, k) == [rw EXCEPT ![c] = Append(@, [from |-> r, what |-> k])]

\* rx is rw with a row of r and kind k in conversation c.
Grew(rw, rx, c, r, k) ==
  /\ rx \in Rows
  /\ \A d \in Convs : d # c => rx[d] = rw[d]
  /\ \A d \in Convs, x \in Requests : From(rx[d], x) = From(rw[d], x) + (IF d = c /\ x = r THEN 1 ELSE 0)
  /\ \A d \in Convs, x \in Requests, w \in Kind :
       Count(rx[d], x, w) = Count(rw[d], x, w) + (IF d = c /\ x = r /\ w = k THEN 1 ELSE 0)

LEMMA PutOne ==
  ASSUME NEW rw \in Rows, NEW c \in Convs, NEW r \in Requests, NEW k \in Kind
  PROVE  Grew(rw, Put(rw, c, r, k), c, r, k)
<1> DEFINE rx == Put(rw, c, r, k)
           t == Append(rw[c], [from |-> r, what |-> k])
<1>1. rw[c] \in Seq(MessageRow)
  BY DEF Rows
<1>2. Adds(rw[c], t, r, k)
  BY <1>1, CountAppend
<1>3. rx = [rw EXCEPT ![c] = t]
  BY DEF Put
<1> HIDE DEF t, rx
<1>4. t \in Seq(MessageRow)
  BY <1>2 DEF Adds
<1>5. rx \in Rows /\ rx[c] = t /\ \A d \in Convs : d # c => rx[d] = rw[d]
  BY <1>3, <1>4 DEF Rows
<1>6. ASSUME NEW d \in Convs, NEW x \in Requests, NEW w \in Kind
      PROVE  /\ From(rx[d], x) = From(rw[d], x) + (IF d = c /\ x = r THEN 1 ELSE 0)
             /\ Count(rx[d], x, w) = Count(rw[d], x, w) + (IF d = c /\ x = r /\ w = k THEN 1 ELSE 0)
  <2>1. CASE d = c
    BY <1>2, <1>5, <2>1 DEF Adds
  <2>2. CASE d # c
    <3>1. rx[d] = rw[d] /\ From(rw[d], x) \in Nat /\ Count(rw[d], x, w) \in Nat
      BY <1>5, <2>2, CountTypes DEF Rows
    <3> QED  BY <2>2, <3>1
  <2> QED  BY <2>1, <2>2
<1>7. Kind # {}
  BY DEF Kind
<1> QED  BY <1>5, <1>6, <1>7 DEF rx, Grew

\* The rows of r and of others, as a table
LEMMA TableTypes ==
  ASSUME NEW rw \in Rows, NEW d \in Convs, NEW x, NEW w
  PROVE  /\ From(rw[d], x) \in Nat /\ Count(rw[d], x, w) \in Nat
         /\ From(rw[d], x) = 0 => Count(rw[d], x, w) = 0
         /\ rw[d] = << >> => From(rw[d], x) = 0
<1>1. rw[d] \in Seq(MessageRow)
  BY DEF Rows
<1> QED  BY <1>1, CountTypes, CountEmpty

\* A row of r changes nothing for others.
SameFor(rw, rx, r) ==
  \A d \in Convs, x \in Requests : x # r =>
     /\ From(rx[d], x) = From(rw[d], x)
     /\ \A w \in Kind : Count(rx[d], x, w) = Count(rw[d], x, w)

LEMMA GrewForOthers ==
  ASSUME NEW rw \in Rows, NEW rx, NEW c \in Convs, NEW r \in Requests, NEW k \in Kind, Grew(rw, rx, c, r, k)
  PROVE  SameFor(rw, rx, r)
<1>1. Kind # {}
  BY DEF Kind
<1> SUFFICES ASSUME NEW d \in Convs, NEW x \in Requests, x # r, NEW w \in Kind
             PROVE  From(rx[d], x) = From(rw[d], x) /\ Count(rx[d], x, w) = Count(rw[d], x, w)
  BY <1>1 DEF SameFor
<1>2. From(rw[d], x) \in Nat /\ Count(rw[d], x, w) \in Nat
  BY TableTypes
<1> QED  BY <1>2 DEF Grew

-----------------------------------------------------------------------------
(* The invariant *)

Statuses == {"blocked", "ran", "timeout", "error", "harness_success"}
Bad == {"blocked", "error"}
RequestRow ==
  [kind: {"command", "task"}, stage: {"unsent", "planning", "running", "answered", "shown", "failed"},
   given: Convs \cup {0}, conv: Convs \cup {0}, plan: Seq({"command", "harness"}), results: Seq(Statuses)]

\* A request that is at a command
Busy(q) == q.stage = "running" /\ (q.kind = "task" => q.plan[Len(q.results) + 1] = "command")
BusyIn(q, c) == Busy(q) /\ q.conv = c

\* Nothing bad came before the last of some results; if it goes on, nor was that.
FineBefore(results) == \A i \in 1 .. Len(results) - 1 : results[i] \notin Bad
GoingOn(results, plan) ==
  /\ Len(results) < Len(plan)
  /\ results = << >> \/ results[Len(results)] \notin Bad

\* What one request has told: its commands and their logs, where they are
Settled(q, r, c) ==
  /\ Count(stored[c], r, "command") = Count(stored[c], r, "log") + (IF BusyIn(q, c) THEN 1 ELSE 0)
  /\ q.kind = "task" =>
       \/ From(stored[c], r) = 0 \/ q.given = c
       \/ q.given = 0 /\ From(stored[c], r) + (IF BusyIn(q, c) THEN 1 ELSE 0) <= 2

Told(r) ==
  /\ req[r] \in RequestRow
  /\ req[r].stage \in {"unsent", "planning"} =>
       req[r].results = << >> /\ \A c \in Convs : From(stored[c], r) = 0
  /\ req[r].stage = "unsent" => req[r].kind = "command"
  /\ req[r].stage = "planning" => req[r].kind = "task"
  /\ Busy(req[r]) => req[r].conv \in exists \cup gone
  /\ req[r].kind = "task" /\ req[r].stage = "running" =>
       /\ GoingOn(req[r].results, req[r].plan)
       /\ Busy(req[r]) /\ req[r].given # 0 => req[r].conv = req[r].given
  /\ FineBefore(req[r].results)
  /\ \A c \in exists : Settled(req[r], r, c)

WShape ==
  /\ window \in Convs \cup {0} /\ exists \subseteq Convs /\ gone \subseteq Convs \ exists
  /\ stored \in Rows /\ \A c \in Convs \ exists : stored[c] = << >>
  /\ req = [r \in Requests |-> req[r]]

WInv == WShape /\ \A r \in Requests : Told(r)

LEMMA WorkClaims ==
  ASSUME WInv
  PROVE  Work!WorkTypeOK /\ Work!CommandsAnswered /\ Work!TaskRowsInPlace /\ Work!StopsAtError
<1>1. Work!WorkTypeOK
  BY DEF WInv, WShape, Told, RequestRow, Rows, MessageRow, Kind, Work!WorkTypeOK
<1>2. Work!StopsAtError
  BY DEF WInv, Told, FineBefore, Bad, Work!StopsAtError
<1>3. ASSUME NEW S PROVE Work!Cardinality(S) = Cardinality(S)
  BY DEF Work!Cardinality, Cardinality
<1>4. ASSUME NEW c \in exists, NEW r \in Requests
      PROVE  /\ Count(stored[c], r, "command") = Count(stored[c], r, "log") + (IF BusyIn(req[r], c) THEN 1 ELSE 0)
             /\ req[r].kind = "task" =>
                  \/ From(stored[c], r) = 0 \/ req[r].given = c
                  \/ req[r].given = 0 /\ From(stored[c], r) <= 2
             /\ (From(stored[c], r) = 0) <=> (PlacesOf(stored[c], r) = {})
  <2>1. stored[c] \in Seq(MessageRow)
    BY DEF WInv, WShape, Rows
  <2>2. From(stored[c], r) \in Nat /\ ((From(stored[c], r) = 0) <=> (PlacesOf(stored[c], r) = {}))
    BY <2>1, CountTypes
  <2>3. Settled(req[r], r, c)
    BY DEF WInv, Told
  <2> QED  BY <2>2, <2>3 DEF Settled
<1>5. Work!CommandsAnswered
  BY <1>3, <1>4 DEF Work!CommandsAnswered, Count, PlacesAt, BusyIn, Busy, Work!NextKind
<1>6. Work!TaskRowsInPlace
  BY <1>3, <1>4 DEF Work!TaskRowsInPlace, From, PlacesOf
<1> QED  BY <1>1, <1>2, <1>5, <1>6

LEMMA NewConvType ==
  ASSUME WorkConstants, WShape, Work!CanCreate
  PROVE  Work!NewConv \in Convs \ (exists \cup gone)
<1> DEFINE free == Convs \ (exists \cup gone)
<1>1. free # {} /\ free \in SUBSET Nat
  BY DEF Work!CanCreate, WorkConstants
<1>2. Work!NewConv = CHOOSE c \in free : \A d \in free : c <= d
  BY DEF Work!NewConv
<1> HIDE DEF free
<1>3. \E c \in free : \A d \in free : c <= d
  BY <1>1, LeastNumber
<1>4. Work!NewConv \in free
  BY <1>2, <1>3
<1> QED  BY <1>4 DEF free

\* What others do leaves a request where it is.
LEMMA OthersTold ==
  ASSUME WInv, NEW r \in Requests, req'[r] = req[r], gone' = gone,
         exists \subseteq exists', exists' \subseteq Convs,
         \A c \in exists' : c \in exists \/ c \notin gone,
         \A c \in Convs : From(stored'[c], r) = From(stored[c], r),
         \A c \in Convs, w \in Kind : Count(stored'[c], r, w) = Count(stored[c], r, w)
  PROVE  Told(r)'
<1>1. Told(r) /\ stored \in Rows /\ \A c \in Convs \ exists : stored[c] = << >>
  BY DEF WInv, WShape
<1>2. "command" \in Kind /\ "log" \in Kind
  BY DEF Kind
<1>3. ASSUME NEW c \in exists' PROVE Settled(req[r], r, c)'
  <2>1. c \in Convs
    OBVIOUS
  <2>2. CASE c \in exists
    BY <1>1, <1>2, <2>1, <2>2 DEF Told, Settled
  <2>3. CASE c \notin exists
    <3>1. From(stored[c], r) = 0 /\ Count(stored[c], r, "command") = 0 /\ Count(stored[c], r, "log") = 0
      <4>1. stored[c] = << >>
        BY <1>1, <2>1, <2>3
      <4> QED  BY <4>1, CountEmpty
    <3>2. ~BusyIn(req[r], c)
      BY <1>1, <2>3 DEF Told, BusyIn
    <3> QED  BY <1>2, <2>1, <3>1, <3>2 DEF Settled
  <2> QED  BY <2>2, <2>3
<1> QED  BY <1>1, <1>3 DEF Told

\* A request changes its own record, and rows of its own.
LEMMA OneMoves ==
  ASSUME WInv, NEW r \in Requests, NEW q, req' = [req EXCEPT ![r] = q], UNCHANGED gone,
         exists \subseteq exists', exists' \subseteq Convs, \A c \in exists' : c \in exists \/ c \notin gone,
         window' \in Convs \cup {0}, stored' \in Rows, \A c \in Convs \ exists' : stored'[c] = << >>,
         \A c \in Convs, x \in Requests : x # r =>
           /\ From(stored'[c], x) = From(stored[c], x)
           /\ \A w \in Kind : Count(stored'[c], x, w) = Count(stored[c], x, w),
         Told(r)'
  PROVE  WInv'
<1>1. req'[r] = q /\ \A x \in Requests : x # r => req'[x] = req[x]
  BY DEF WInv, WShape
<1>2. ASSUME NEW x \in Requests, x # r PROVE Told(x)'
  BY <1>1, <1>2, OthersTold
<1>3. WShape'
  <2>1. req' = [x \in Requests |-> req'[x]]
    BY DEF WInv, WShape
  <2>2. gone \subseteq Convs \ exists'
    BY DEF WInv, WShape
  <2> QED  BY <2>1, <2>2 DEF WShape
<1> QED  BY <1>2, <1>3 DEF WInv

\* A request with nothing to tell but what was there
LEMMA SameRows ==
  ASSUME WInv, NEW r \in Requests, NEW q, req' = [req EXCEPT ![r] = q],
         UNCHANGED << stored, exists, gone >>, window' \in Convs \cup {0},
         Told(r)'
  PROVE  WInv'
<1>1. /\ exists \subseteq exists' /\ exists' \subseteq Convs /\ \A c \in exists' : c \in exists \/ c \notin gone
      /\ stored' \in Rows /\ \A c \in Convs \ exists' : stored'[c] = << >>
  BY DEF WInv, WShape
<1> QED  BY <1>1, OneMoves

\* A command that a request with no rows begins
LEMMA FirstCommand ==
  ASSUME WInv, WorkConstants, NEW r \in Requests, NEW c \in Convs, NEW q \in RequestRow,
         req[r].stage \in {"unsent", "planning"},
         c \in exists \/ c \notin gone, exists' = exists \cup {c}, UNCHANGED << gone, window >>,
         stored' = Put(stored, c, r, "command"),
         req' = [req EXCEPT ![r] = q], Busy(q), q.conv = c, q.kind = "command", q.results = << >>
  PROVE  WInv'
<1>1. /\ stored \in Rows /\ Told(r) /\ \A d \in Convs \ exists : stored[d] = << >>
      /\ exists \subseteq Convs /\ gone \subseteq Convs \ exists /\ window \in Convs \cup {0}
      /\ req'[r] = q
  BY DEF WInv, WShape
<1>2. "command" \in Kind /\ "log" \in Kind
  BY DEF Kind
<1>0. Grew(stored, stored', c, r, "command")
  BY <1>1, <1>2, PutOne
<1>3. /\ stored' \in Rows
      /\ \A d \in Convs : d # c => stored'[d] = stored[d]
      /\ \A d \in Convs, x \in Requests : From(stored'[d], x) = From(stored[d], x) + (IF d = c /\ x = r THEN 1 ELSE 0)
      /\ \A d \in Convs, x \in Requests, w \in Kind :
           Count(stored'[d], x, w) = Count(stored[d], x, w) + (IF d = c /\ x = r /\ w = "command" THEN 1 ELSE 0)
  BY <1>0 DEF Grew
<1>4. SameFor(stored, stored', r)
  BY <1>1, <1>2, <1>0, GrewForOthers
<1>5. \A d \in Convs : From(stored[d], r) = 0 /\ \A w : Count(stored[d], r, w) = 0
  BY <1>1, TableTypes DEF Told
<1>6. ASSUME NEW d \in exists' PROVE Settled(req[r], r, d)'
  <2>1. d \in Convs
    BY <1>1
  <2>2. /\ Count(stored'[d], r, "command") = (IF d = c THEN 1 ELSE 0) /\ Count(stored'[d], r, "log") = 0
    <3>1. /\ Count(stored'[d], r, "command") = Count(stored[d], r, "command") + (IF d = c THEN 1 ELSE 0)
          /\ Count(stored'[d], r, "log") = Count(stored[d], r, "log") + 0
      BY <1>2, <1>3, <2>1
    <3>2. Count(stored[d], r, "command") = 0 /\ Count(stored[d], r, "log") = 0
      BY <1>5, <2>1
    <3> QED  BY <3>1, <3>2
  <2> QED  BY <1>1, <2>2 DEF Settled, BusyIn
<1>7. Told(r)'
  BY <1>1, <1>6 DEF Told, FineBefore, Busy
<1> QED  BY <1>1, <1>3, <1>4, <1>7, OneMoves DEF SameFor

LEMMA SendCommandKeeps ==
  ASSUME WInv, WorkConstants, NEW r \in Requests, Work!SendWorkCommand(r)
  PROVE  WInv'
<1>1. /\ Told(r) /\ req[r] \in RequestRow /\ req[r].stage = "unsent" /\ req[r].kind = "command" /\ req[r].results = << >>
      /\ window \in Convs \cup {0} /\ WShape
  BY DEF WInv, WShape, Told, Work!SendWorkCommand
<1>2. CASE window = 0 \/ window \in exists
  <2> DEFINE c == IF window = 0 THEN Work!NewConv ELSE window
             q == [req[r] EXCEPT !.stage = "running", !.given = window, !.conv = c]
  <2>1. c \in Convs /\ (c \in exists \/ c \notin gone)
    BY <1>1, <1>2, NewConvType DEF Work!SendWorkCommand, WShape
  <2>2. /\ exists' = exists \cup {c} /\ UNCHANGED << gone, window >>
        /\ stored' = Put(stored, c, r, "command")
        /\ req' = [req EXCEPT ![r] = q]
    BY <1>1, <1>2 DEF Work!SendWorkCommand, Work!Accept, WShape, Put
  <2>3. q \in RequestRow /\ Busy(q) /\ q.conv = c /\ q.kind = "command" /\ q.results = << >>
    BY <1>1, <2>1 DEF RequestRow, Busy
  <2> HIDE DEF c, q
  <2> QED  BY <1>1, <2>1, <2>2, <2>3, FirstCommand
<1>3. CASE ~(window = 0 \/ window \in exists)
  <2> DEFINE q == [req[r] EXCEPT !.stage = "failed", !.given = window]
  <2>1. /\ req' = [req EXCEPT ![r] = q] /\ UNCHANGED << stored, exists, gone, window >>
    BY <1>1, <1>3 DEF Work!SendWorkCommand, WShape
  <2>2. q \in RequestRow /\ ~Busy(q) /\ q.kind = "command" /\ q.results = << >> /\ q.stage = "failed" /\ ~Busy(req[r])
    BY <1>1 DEF RequestRow, Busy
  <2>3. req'[r] = q
    BY <1>1, <2>1 DEF WShape
  <2> HIDE DEF q
  <2>4. Told(r)'
    BY <1>1, <2>1, <2>2, <2>3 DEF Told, FineBefore, Settled, BusyIn
  <2> QED  BY <1>1, <2>1, <2>4, SameRows
<1> QED  BY <1>2, <1>3

LEMMA SendTaskKeeps ==
  ASSUME WInv, NEW r \in Requests, Work!SendCommanderTask(r)
  PROVE  WInv'
<1>1. /\ Told(r) /\ req[r] \in RequestRow /\ req[r].stage = "unsent" /\ req[r].kind = "command" /\ req[r].results = << >>
      /\ window \in Convs \cup {0} /\ WShape /\ \A c \in Convs : From(stored[c], r) = 0
  BY DEF WInv, WShape, Told, Work!SendCommanderTask
<1> DEFINE q == [req[r] EXCEPT !.kind = "task", !.stage = "planning", !.given = window]
<1>2. /\ req' = [req EXCEPT ![r] = q] /\ UNCHANGED << stored, exists, gone, window >>
  BY <1>1 DEF Work!SendCommanderTask, WShape
<1>3. q \in RequestRow /\ ~Busy(q) /\ q.kind = "task" /\ q.results = << >> /\ q.stage = "planning" /\ ~Busy(req[r])
  BY <1>1 DEF RequestRow, Busy
<1>4. req'[r] = q
  BY <1>1, <1>2 DEF WShape
<1> HIDE DEF q
<1>5. Told(r)'
  BY <1>1, <1>2, <1>3, <1>4 DEF Told, FineBefore, Settled, BusyIn, WShape
<1> QED  BY <1>1, <1>2, <1>5, SameRows

LEMMA ShownKeeps ==
  ASSUME WInv, NEW r \in Requests, Work!Shown(r)
  PROVE  WInv'
<1>1. /\ Told(r) /\ req[r] \in RequestRow /\ req[r].stage = "answered"
      /\ window \in Convs \cup {0} /\ WShape
  BY DEF WInv, WShape, Told, Work!Shown
<1> DEFINE q == [req[r] EXCEPT !.stage = "shown"]
<1>2. /\ req' = [req EXCEPT ![r] = q] /\ UNCHANGED << stored, exists, gone >>
      /\ window' \in Convs \cup {0}
  BY <1>1 DEF Work!Shown, WShape, RequestRow
<1>3. /\ q \in RequestRow /\ ~Busy(q) /\ q.stage = "shown" /\ ~Busy(req[r])
      /\ q.kind = req[r].kind /\ q.results = req[r].results /\ q.given = req[r].given
  BY <1>1 DEF RequestRow, Busy
<1>4. req'[r] = q
  BY <1>1, <1>2 DEF WShape
<1> HIDE DEF q
<1>5. Told(r)'
  BY <1>1, <1>2, <1>3, <1>4 DEF Told, FineBefore, Settled, BusyIn
<1> QED  BY <1>1, <1>2, <1>5, SameRows

\* The rows of r when none of its commands is open
Closed(rw, r, kind, home) ==
  \A c \in exists :
    /\ Count(rw[c], r, "command") = Count(rw[c], r, "log")
    /\ kind = "task" => From(rw[c], r) = 0 \/ home = c \/ (home = 0 /\ From(rw[c], r) <= 2)

LEMMA ClosedIsSettled ==
  ASSUME NEW r \in Requests, NEW rw \in Rows, exists \subseteq Convs, Closed(rw, r, req'[r].kind, req'[r].given), ~Busy(req'[r]),
         stored' = rw, exists' = exists
  PROVE  \A c \in exists' : Settled(req[r], r, c)'
<1> SUFFICES ASSUME NEW c \in exists PROVE Settled(req[r], r, c)'
  OBVIOUS
<1>1. Count(rw[c], r, "command") \in Nat /\ Count(rw[c], r, "log") \in Nat /\ From(rw[c], r) \in Nat
  BY TableTypes
<1> QED  BY <1>1 DEF Closed, Settled, BusyIn

LEMMA SettledIsClosed ==
  ASSUME WInv, NEW r \in Requests, ~Busy(req[r])
  PROVE  Closed(stored, r, req[r].kind, req[r].given)
<1> SUFFICES ASSUME NEW c \in exists
             PROVE  /\ Count(stored[c], r, "command") = Count(stored[c], r, "log")
                    /\ req[r].kind = "task" => From(stored[c], r) = 0 \/ req[r].given = c
                                              \/ (req[r].given = 0 /\ From(stored[c], r) <= 2)
  BY DEF Closed
<1>1. Settled(req[r], r, c) /\ ~BusyIn(req[r], c) /\ c \in Convs /\ stored \in Rows
  BY DEF WInv, WShape, Told, BusyIn
<1>2. Count(stored[c], r, "log") \in Nat /\ From(stored[c], r) \in Nat
  BY <1>1, TableTypes
<1> QED  BY <1>1, <1>2 DEF Settled

\* The log of a command that was open closes it.
LEMMA LogCloses ==
  ASSUME WInv, NEW r \in Requests, Busy(req[r]), req[r].conv \in exists, NEW rw, rw = Put(stored, req[r].conv, r, "log")
  PROVE  /\ Closed(rw, r, req[r].kind, req[r].given) /\ rw \in Rows /\ SameFor(stored, rw, r)
         /\ \A d \in Convs \ exists : rw[d] = << >>
<1> DEFINE c == req[r].conv
<1>1. c \in exists /\ exists \subseteq Convs /\ stored \in Rows /\ "log" \in Kind /\ "command" \in Kind
      /\ \A d \in Convs \ exists : stored[d] = << >>
  BY DEF WInv, WShape, Kind
<1>2. Grew(stored, rw, c, r, "log")
  BY <1>1, PutOne
<1>3. SameFor(stored, rw, r)
  BY <1>1, <1>2, GrewForOthers
<1>4. rw \in Rows /\ \A d \in Convs \ exists : rw[d] = << >>
  BY <1>1, <1>2 DEF Grew
<1>5. ASSUME NEW d \in exists
      PROVE  /\ Count(rw[d], r, "command") = Count(rw[d], r, "log")
             /\ req[r].kind = "task" => From(rw[d], r) = 0 \/ req[r].given = d
                                       \/ (req[r].given = 0 /\ From(rw[d], r) <= 2)
  <2>1. Settled(req[r], r, d) /\ (BusyIn(req[r], d) <=> d = c) /\ d \in Convs
    BY <1>1 DEF WInv, Told, BusyIn
  <2>2. Count(stored[d], r, "log") \in Nat /\ Count(stored[d], r, "command") \in Nat /\ From(stored[d], r) \in Nat
    BY <1>1, <2>1, TableTypes
  <2>3. /\ Count(rw[d], r, "command") = Count(stored[d], r, "command") + 0
        /\ Count(rw[d], r, "log") = Count(stored[d], r, "log") + (IF d = c THEN 1 ELSE 0)
        /\ From(rw[d], r) = From(stored[d], r) + (IF d = c THEN 1 ELSE 0)
    BY <1>1, <1>2, <2>1 DEF Grew
  <2> HIDE DEF c
  <2>4. CASE d = c
    <3>1. /\ Count(stored[d], r, "command") = Count(stored[d], r, "log") + 1
          /\ req[r].kind = "task" =>
               From(stored[d], r) = 0 \/ req[r].given = d \/ (req[r].given = 0 /\ From(stored[d], r) + 1 <= 2)
      <4>1. (IF BusyIn(req[r], d) THEN 1 ELSE 0) = 1
        BY <2>1, <2>4
      <4> QED  BY <2>1, <4>1 DEF Settled
    <3>2. req[r].kind = "task" /\ req[r].given # 0 => req[r].given = d
      BY <2>4 DEF WInv, Told, Busy, c
    <3> QED  BY <2>2, <2>3, <2>4, <3>1, <3>2
  <2>5. CASE d # c
    BY <2>1, <2>2, <2>3, <2>5 DEF Settled
  <2> QED  BY <2>4, <2>5
<1> QED  BY <1>3, <1>4, <1>5 DEF Closed

LEMMA CommandDoneKeeps ==
  ASSUME WInv, NEW r \in Requests, Work!CommandDone(r)
  PROVE  WInv'
<1> DEFINE c == req[r].conv
           q == [req[r] EXCEPT !.stage = IF c \in exists THEN "answered" ELSE "failed"]
<1>1. /\ Told(r) /\ req[r] \in RequestRow /\ Busy(req[r]) /\ req[r].kind = "command" /\ WShape
      /\ window \in Convs \cup {0} /\ exists \subseteq Convs /\ gone \subseteq Convs \ exists /\ c \in Convs \cup {0}
  BY DEF WInv, WShape, Told, Work!CommandDone, Busy, RequestRow
<1>2. /\ req' = [req EXCEPT ![r] = q] /\ UNCHANGED << window, exists, gone >>
      /\ stored' = IF c \in exists THEN Put(stored, c, r, "log") ELSE stored
  BY <1>1 DEF Work!CommandDone, WShape, Work!Answer, Put
<1>3. /\ q \in RequestRow /\ ~Busy(q) /\ q.stage \in {"answered", "failed"}
      /\ q.kind = "command" /\ q.results = req[r].results /\ q.given = req[r].given
  BY <1>1 DEF RequestRow, Busy
<1>4. req'[r] = q
  BY <1>1, <1>2 DEF WShape
<1> HIDE DEF q
<1>5. CASE c \in exists
  <2>1. /\ Closed(stored', r, q.kind, q.given) /\ stored' \in Rows /\ SameFor(stored, stored', r)
        /\ \A d \in Convs \ exists : stored'[d] = << >>
    BY <1>1, <1>2, <1>3, <1>5, LogCloses
  <2>2. \A d \in exists' : Settled(req[r], r, d)'
    BY <1>1, <1>2, <1>3, <1>4, <2>1, ClosedIsSettled
  <2>3. Told(r)'
    BY <1>1, <1>3, <1>4, <2>2 DEF Told
  <2> QED  BY <1>1, <1>2, <2>1, <2>3, OneMoves DEF SameFor
<1>6. CASE c \notin exists
  <2>1. \A d \in exists : ~BusyIn(req[r], d)
    BY <1>6 DEF BusyIn
  <2>2. Told(r)'
    BY <1>1, <1>2, <1>3, <1>4, <1>6, <2>1 DEF Told, FineBefore, Settled, BusyIn
  <2> QED  BY <1>1, <1>2, <1>6, <2>2, SameRows
<1> QED  BY <1>5, <1>6

LEMMA ReportKeeps ==
  ASSUME WInv, WorkConstants, NEW r \in Requests, Work!ReportWorkResult(r)
  PROVE  WInv'
<1>1. /\ Told(r) /\ req[r] \in RequestRow /\ req[r].stage = "unsent" /\ req[r].kind = "command" /\ req[r].results = << >> /\ WShape
      /\ window \in Convs \cup {0} /\ exists \subseteq Convs /\ gone \subseteq Convs \ exists
      /\ stored \in Rows /\ \A d \in Convs \ exists : stored[d] = << >>
  BY DEF WInv, WShape, Told, Work!ReportWorkResult
<1>2. PICK home \in exists \cup {0} :
        LET c == IF home = 0 THEN Work!NewConv ELSE home
        IN  /\ home = 0 => Work!CanCreate
            /\ exists' = exists \cup {c}
            /\ stored' = [stored EXCEPT ![c] = @ \o << [from |-> r, what |-> "command"], [from |-> r, what |-> "log"] >>]
            /\ req' = [req EXCEPT ![r] = [@ EXCEPT !.stage = "answered", !.given = home, !.conv = c]]
            /\ UNCHANGED << gone, window >>
  BY DEF Work!ReportWorkResult
<1> DEFINE c == IF home = 0 THEN Work!NewConv ELSE home
           q == [req[r] EXCEPT !.stage = "answered", !.given = home, !.conv = c]
           e1 == [from |-> r, what |-> "command"]
           e2 == [from |-> r, what |-> "log"]
           mid == Put(stored, c, r, "command")
           rw == Put(mid, c, r, "log")
<1>3. c \in Convs /\ (c \in exists \/ c \notin gone)
  BY <1>1, <1>2, NewConvType DEF WShape
<1>4. q \in RequestRow /\ ~Busy(q) /\ q.kind = "command" /\ q.stage = "answered" /\ q.results = << >>
  BY <1>1, <1>2, <1>3 DEF RequestRow, Busy
<1>5. req' = [req EXCEPT ![r] = q] /\ exists' = exists \cup {c} /\ UNCHANGED << gone, window >>
      /\ stored' = [stored EXCEPT ![c] = stored[c] \o << e1, e2 >>]
  BY <1>2
<1>6. req'[r] = q
  BY <1>1, <1>5 DEF WShape
<1>7. "command" \in Kind /\ "log" \in Kind
  BY DEF Kind
<1> HIDE DEF q, c
<1>8. stored[c] \in Seq(MessageRow) /\ e1 \in MessageRow /\ e2 \in MessageRow
  BY <1>1, <1>3, <1>7 DEF Rows, MessageRow
<1>9. stored[c] \o << e1, e2 >> = Append(Append(stored[c], e1), e2)
  BY <1>8
<1>10. stored' = rw
  <2>1. mid = [stored EXCEPT ![c] = Append(stored[c], e1)] /\ mid[c] = Append(stored[c], e1)
    BY <1>1, <1>3 DEF Put, Rows
  <2>2. rw = [mid EXCEPT ![c] = Append(mid[c], e2)]
    BY DEF Put
  <2>3. rw = [stored EXCEPT ![c] = Append(Append(stored[c], e1), e2)]
    BY <1>1, <2>1, <2>2 DEF Rows
  <2> QED  BY <1>5, <1>9, <2>3
<1>11. Grew(stored, mid, c, r, "command")
  BY <1>1, <1>3, <1>7, PutOne
<1>12. mid \in Rows
  BY <1>11 DEF Grew
<1> HIDE DEF mid
<1>13. Grew(mid, rw, c, r, "log")
  BY <1>3, <1>7, <1>12, PutOne
<1> HIDE DEF rw
<1>14. SameFor(stored, stored', r)
  BY <1>1, <1>3, <1>7, <1>10, <1>11, <1>12, <1>13, GrewForOthers DEF SameFor
<1>15. stored' \in Rows /\ \A d \in Convs \ exists' : stored'[d] = << >>
  BY <1>1, <1>5, <1>10, <1>11, <1>13 DEF Grew
<1>16. ASSUME NEW d \in exists' PROVE Settled(req[r], r, d)'
  <2>1. d \in Convs
    BY <1>1, <1>3, <1>5
  <2>2. From(stored[d], r) = 0 /\ Count(stored[d], r, "command") = 0 /\ Count(stored[d], r, "log") = 0
    BY <1>1, <2>1, TableTypes DEF Told
  <2>3. /\ Count(mid[d], r, "command") = Count(stored[d], r, "command") + (IF d = c THEN 1 ELSE 0)
        /\ Count(mid[d], r, "log") = Count(stored[d], r, "log") + 0
    BY <1>7, <1>11, <2>1 DEF Grew
  <2>4. /\ Count(rw[d], r, "command") = Count(mid[d], r, "command") + 0
        /\ Count(rw[d], r, "log") = Count(mid[d], r, "log") + (IF d = c THEN 1 ELSE 0)
    BY <1>7, <1>13, <2>1 DEF Grew
  <2> QED  BY <1>4, <1>6, <1>10, <2>2, <2>3, <2>4 DEF Settled, BusyIn
<1>17. Told(r)'
  BY <1>4, <1>6, <1>16 DEF Told, FineBefore
<1>18. \A d \in exists' : d \in exists \/ d \notin gone
  BY <1>3, <1>5
<1> QED  BY <1>1, <1>3, <1>5, <1>14, <1>15, <1>17, <1>18, OneMoves DEF SameFor

-----------------------------------------------------------------------------
(* Tasks *)

\* Where a task is when a step is settled: base are the rows with what it logged.
AtStep(r, base, results) ==
  /\ base \in Rows /\ SameFor(stored, base, r)
  /\ \A d \in Convs \ exists : base[d] = << >>
  /\ Closed(base, r, "task", req[r].given)
  /\ req[r].kind = "task"
  /\ results \in Seq(Statuses) /\ FineBefore(results)

LEMMA BeginKeeps ==
  ASSUME WInv, WorkConstants, NEW r \in Requests, NEW plan \in Seq({"command", "harness"}), NEW base, NEW results,
         AtStep(r, base, results), GoingOn(results, plan),
         Work!BeginStep(r, plan, results, base, exists), UNCHANGED << window, gone >>
  PROVE  WInv'
<1> DEFINE c == IF req[r].given # 0 THEN req[r].given ELSE Work!NewConv
           entry == [req[r] EXCEPT !.plan = plan, !.results = results]
<1>1. /\ req[r] \in RequestRow /\ WShape /\ base \in Rows /\ \A d \in Convs \ exists : base[d] = << >>
      /\ window \in Convs \cup {0} /\ exists \subseteq Convs /\ gone \subseteq Convs \ exists
      /\ SameFor(stored, base, r) /\ FineBefore(results) /\ Closed(base, r, "task", req[r].given)
  BY DEF WInv, WShape, Told, AtStep
<1>2. entry \in RequestRow /\ entry.kind = "task" /\ entry.given = req[r].given /\ entry.results = results /\ entry.plan = plan
  BY <1>1 DEF AtStep, RequestRow
<1> HIDE DEF entry
<1>3. CASE plan[Len(results) + 1] = "harness"
  <2> DEFINE q == [entry EXCEPT !.stage = "running"]
  <2>1. req' = [req EXCEPT ![r] = q] /\ stored' = base /\ exists' = exists
    BY <1>3 DEF Work!BeginStep, entry
  <2>2. q \in RequestRow /\ ~Busy(q) /\ q.stage = "running" /\ q.kind = "task" /\ q.given = req[r].given
        /\ q.results = results /\ q.plan = plan
    BY <1>2, <1>3 DEF RequestRow, Busy
  <2>3. req'[r] = q
    BY <1>1, <2>1 DEF WShape
  <2> HIDE DEF q
  <2>4. \A d \in exists' : Settled(req[r], r, d)'
    BY <1>1, <2>1, <2>2, <2>3, ClosedIsSettled
  <2>5. Told(r)'
    BY <1>1, <2>2, <2>3, <2>4 DEF Told
  <2> QED  BY <1>1, <2>1, <2>5, OneMoves DEF SameFor
<1>4. CASE plan[Len(results) + 1] # "harness" /\ req[r].given # 0 /\ c \notin exists
  <2> DEFINE q == [entry EXCEPT !.stage = "failed"]
  <2>1. req' = [req EXCEPT ![r] = q] /\ stored' = base /\ exists' = exists
    BY <1>4 DEF Work!BeginStep, Work!ConvOfStep, entry
  <2>2. q \in RequestRow /\ ~Busy(q) /\ q.stage = "failed" /\ q.kind = "task" /\ q.given = req[r].given
        /\ q.results = results
    BY <1>2 DEF RequestRow, Busy
  <2>3. req'[r] = q
    BY <1>1, <2>1 DEF WShape
  <2> HIDE DEF q
  <2>4. \A d \in exists' : Settled(req[r], r, d)'
    BY <1>1, <2>1, <2>2, <2>3, ClosedIsSettled
  <2>5. Told(r)'
    BY <1>1, <2>2, <2>3, <2>4 DEF Told
  <2> QED  BY <1>1, <2>1, <2>5, OneMoves DEF SameFor
<1>5. CASE plan[Len(results) + 1] # "harness" /\ ~(req[r].given # 0 /\ c \notin exists)
  <2> DEFINE q == [entry EXCEPT !.stage = "running", !.conv = c]
  <2>1. /\ req' = [req EXCEPT ![r] = q] /\ stored' = Put(base, c, r, "command") /\ exists' = exists \cup {c}
        /\ req[r].given = 0 => Work!CanCreate
    BY <1>5 DEF Work!BeginStep, Work!ConvOfStep, entry, Put
  <2>2. c \in Convs /\ (c \in exists \/ c \notin gone) /\ (req[r].given = 0 => c \notin exists)
        /\ (req[r].given # 0 => c = req[r].given)
    BY <1>1, <1>5, <2>1, NewConvType
  <2> HIDE DEF c
  <2>3. q \in RequestRow /\ q.stage = "running" /\ q.kind = "task" /\ q.given = req[r].given /\ q.conv = c
        /\ q.results = results /\ q.plan = plan
    BY <1>2, <2>2 DEF RequestRow
  <2>4. Busy(q)
    <3>1. Len(results) + 1 \in 1 .. Len(plan)
      BY DEF GoingOn, AtStep
    <3>2. plan[Len(results) + 1] \in {"command", "harness"}
      BY <3>1
    <3> QED  BY <1>5, <2>3, <3>2 DEF Busy
  <2>5. req'[r] = q
    BY <1>1, <2>1 DEF WShape
  <2> HIDE DEF q
  <2>6. "command" \in Kind /\ "log" \in Kind
    BY DEF Kind
  <2>7. Grew(base, stored', c, r, "command")
    BY <1>1, <2>1, <2>2, <2>6, PutOne
  <2>8. SameFor(stored, stored', r)
    BY <1>1, <2>2, <2>6, <2>7, GrewForOthers DEF SameFor
  <2>9. stored' \in Rows /\ \A d \in Convs \ exists' : stored'[d] = << >>
    BY <1>1, <2>1, <2>7 DEF Grew
  <2>10. ASSUME NEW d \in exists' PROVE Settled(req[r], r, d)'
    <3>1. d \in Convs
      BY <1>1, <2>1, <2>2
    <3>2. Count(base[d], r, "log") \in Nat /\ Count(base[d], r, "command") \in Nat /\ From(base[d], r) \in Nat
      BY <1>1, <3>1, TableTypes
    <3>3. /\ Count(stored'[d], r, "command") = Count(base[d], r, "command") + (IF d = c THEN 1 ELSE 0)
          /\ Count(stored'[d], r, "log") = Count(base[d], r, "log") + 0
          /\ From(stored'[d], r) = From(base[d], r) + (IF d = c THEN 1 ELSE 0)
      BY <2>6, <2>7, <3>1 DEF Grew
    <3>4. BusyIn(q, d) <=> d = c
      BY <2>3, <2>4 DEF BusyIn
    <3>5. CASE d \in exists
      <4>1. /\ Count(base[d], r, "command") = Count(base[d], r, "log")
            /\ From(base[d], r) = 0 \/ req[r].given = d \/ (req[r].given = 0 /\ From(base[d], r) <= 2)
        BY <1>1, <3>5 DEF Closed
      <4>2. CASE d = c
        BY <2>2, <2>3, <2>5, <3>2, <3>3, <3>4, <3>5, <4>1, <4>2 DEF Settled
      <4>3. CASE d # c
        BY <2>3, <2>5, <3>2, <3>3, <3>4, <4>1, <4>3 DEF Settled
      <4> QED  BY <4>2, <4>3
    <3>6. CASE d \notin exists
      <4>1. d = c /\ base[d] = << >>
        BY <1>1, <2>1, <3>1, <3>6
      <4>2. Count(base[d], r, "log") = 0 /\ Count(base[d], r, "command") = 0 /\ From(base[d], r) = 0
        BY <4>1, CountEmpty
      <4>3. req[r].given = 0 \/ req[r].given = d
        BY <2>2, <4>1
      <4> QED  BY <2>3, <2>5, <3>3, <3>4, <4>1, <4>2, <4>3 DEF Settled
    <3> QED  BY <3>5, <3>6
  <2>11. Told(r)'
    BY <1>1, <2>1, <2>2, <2>3, <2>4, <2>5, <2>10 DEF Told
  <2>12. \A d \in exists' : d \in exists \/ d \notin gone
    BY <2>1, <2>2
  <2> QED  BY <1>1, <2>1, <2>2, <2>8, <2>9, <2>11, <2>12, OneMoves DEF SameFor
<1> QED  BY <1>3, <1>4, <1>5

LEMMA EndKeeps ==
  ASSUME WInv, NEW r \in Requests, NEW base, NEW results, AtStep(r, base, results),
         Work!EndTask(r, results, base), UNCHANGED << window, gone >>
  PROVE  WInv'
<1> DEFINE c == req[r].given
           q == [req[r] EXCEPT !.results = results, !.stage = IF c # 0 /\ c \notin exists THEN "failed" ELSE "answered"]
<1>1. /\ req[r] \in RequestRow /\ WShape /\ base \in Rows /\ \A d \in Convs \ exists : base[d] = << >>
      /\ window \in Convs \cup {0} /\ exists \subseteq Convs /\ gone \subseteq Convs \ exists
      /\ SameFor(stored, base, r) /\ FineBefore(results) /\ Closed(base, r, "task", c)
  BY DEF WInv, WShape, Told, AtStep
<1>2. /\ req' = [req EXCEPT ![r] = q] /\ exists' = exists
      /\ stored' = IF c \in exists THEN Put(base, c, r, "summary") ELSE base
  BY DEF Work!EndTask, Put
<1>3. q \in RequestRow /\ ~Busy(q) /\ q.stage \in {"failed", "answered"} /\ q.kind = "task" /\ q.given = c /\ q.results = results
  BY <1>1 DEF RequestRow, Busy, AtStep
<1>4. req'[r] = q
  BY <1>1, <1>2 DEF WShape
<1> HIDE DEF q
<1>5. /\ stored' \in Rows /\ SameFor(stored, stored', r) /\ Closed(stored', r, "task", c)
      /\ \A d \in Convs \ exists : stored'[d] = << >>
  <2>1. CASE c \notin exists
    BY <1>1, <1>2, <2>1
  <2>2. CASE c \in exists
    <3>1. c \in Convs /\ "summary" \in Kind /\ "command" \in Kind /\ "log" \in Kind
      BY <1>1, <2>2 DEF Kind
    <3>2. Grew(base, stored', c, r, "summary")
      BY <1>1, <1>2, <2>2, <3>1, PutOne
    <3>3. SameFor(stored, stored', r)
      BY <1>1, <3>1, <3>2, GrewForOthers DEF SameFor
    <3>4. ASSUME NEW d \in exists
          PROVE  /\ Count(stored'[d], r, "command") = Count(stored'[d], r, "log")
                 /\ From(stored'[d], r) = 0 \/ c = d \/ (c = 0 /\ From(stored'[d], r) <= 2)
      <4>1. d \in Convs
        BY <1>1
      <4>2. /\ Count(stored'[d], r, "command") = Count(base[d], r, "command") + 0
            /\ Count(stored'[d], r, "log") = Count(base[d], r, "log") + 0
            /\ d # c => stored'[d] = base[d]
        BY <3>1, <3>2, <4>1 DEF Grew
      <4>3. /\ Count(base[d], r, "command") = Count(base[d], r, "log")
            /\ From(base[d], r) = 0 \/ c = d \/ (c = 0 /\ From(base[d], r) <= 2)
        BY <1>1 DEF Closed
      <4> QED  BY <4>2, <4>3
    <3> QED  BY <1>1, <2>2, <3>2, <3>3, <3>4 DEF Grew, Closed
  <2> QED  BY <2>1, <2>2
<1>6. \A d \in exists' : Settled(req[r], r, d)'
  BY <1>1, <1>2, <1>3, <1>4, <1>5, ClosedIsSettled
<1>7. Told(r)'
  BY <1>1, <1>3, <1>4, <1>6 DEF Told
<1> QED  BY <1>1, <1>2, <1>5, <1>7, OneMoves DEF SameFor

LEMMA PlanMadeKeeps ==
  ASSUME WInv, WorkConstants, NEW r \in Requests, Work!PlanMade(r)
  PROVE  WInv'
<1>1. /\ Told(r) /\ req[r] \in RequestRow /\ req[r].stage = "planning" /\ req[r].kind = "task" /\ WShape
      /\ req[r].results = << >> /\ ~Busy(req[r]) /\ stored \in Rows
      /\ (\A d \in Convs \ exists : stored[d] = << >>) /\ UNCHANGED << window, gone >>
      /\ window \in Convs \cup {0}
  BY DEF WInv, WShape, Told, Work!PlanMade, Busy
<1>2. PICK plan \in Plans :
        IF plan = << >>
        THEN req' = [req EXCEPT ![r].stage = "failed", ![r].plan = plan] /\ UNCHANGED << stored, exists >>
        ELSE Work!BeginStep(r, plan, << >>, stored, exists)
  BY DEF Work!PlanMade
<1>3. plan \in Seq({"command", "harness"})
  BY DEF WorkConstants
<1>4. CASE plan = << >>
  <2> DEFINE q == [req[r] EXCEPT !.stage = "failed", !.plan = plan]
  <2>1. req' = [req EXCEPT ![r] = q] /\ UNCHANGED << stored, exists, gone, window >>
    <3>1. /\ req' = [req EXCEPT ![r].stage = "failed", ![r].plan = plan] /\ UNCHANGED << stored, exists, gone, window >>
      BY <1>1, <1>2, <1>4
    <3> QED  BY <3>1
  <2>2. q \in RequestRow /\ ~Busy(q) /\ q.kind = "task" /\ q.results = << >> /\ q.stage = "failed" /\ q.given = req[r].given
    BY <1>1, <1>3 DEF RequestRow, Busy
  <2>3. req'[r] = q
    BY <1>1, <2>1 DEF WShape
  <2> HIDE DEF q
  <2>4. Told(r)'
    BY <1>1, <2>1, <2>2, <2>3 DEF Told, FineBefore, Settled, BusyIn
  <2> QED  BY <1>1, <2>1, <2>4, SameRows
<1>5. CASE plan # << >>
  <2>0. PICK base : base = stored
    OBVIOUS
  <2>1. Work!BeginStep(r, plan, << >>, base, exists)
    BY <1>2, <1>5, <2>0 DEF Work!BeginStep
  <2>2. GoingOn(<< >>, plan)
    BY <1>3, <1>5, EmptySeq DEF GoingOn
  <2>3. AtStep(r, base, << >>)
    <3>1. Closed(stored, r, "task", req[r].given)
      BY <1>1, SettledIsClosed
    <3> QED  BY <1>1, <2>0, <3>1, EmptySeq DEF AtStep, SameFor, FineBefore
  <2> QED  BY <1>1, <1>3, <2>1, <2>2, <2>3, BeginKeeps
<1> QED  BY <1>4, <1>5

LEMMA TaskStepKeeps ==
  ASSUME WInv, WorkConstants, NEW r \in Requests, Work!TaskStep(r)
  PROVE  WInv'
<1> DEFINE harness == req[r].plan[Len(req[r].results) + 1] = "harness"
           c == req[r].conv
           base == IF harness \/ c \notin exists THEN stored ELSE Put(stored, c, r, "log")
<1>1. /\ Told(r) /\ req[r] \in RequestRow /\ req[r].stage = "running" /\ req[r].kind = "task" /\ WShape
      /\ stored \in Rows /\ window \in Convs \cup {0}
      /\ (\A d \in Convs \ exists : stored[d] = << >>) /\ UNCHANGED << window, gone >>
  BY DEF WInv, WShape, Told, Work!TaskStep, Work!StepDone
<1>2. PICK status \in Statuses :
        LET results == Append(req[r].results, status)
        IN  IF ~harness /\ c \notin exists
            THEN req' = [req EXCEPT ![r].stage = "failed"] /\ UNCHANGED << stored, exists >>
            ELSE IF GoingOn(results, req[r].plan)
            THEN Work!BeginStep(r, req[r].plan, results, base, exists)
            ELSE Work!EndTask(r, results, base)
  BY DEF Work!TaskStep, Work!StepDone, Work!Outcomes, Statuses, Work!NextKind, Work!GoesOn, GoingOn, Bad, Put
<1> DEFINE results == Append(req[r].results, status)
<1>3. harness \/ Busy(req[r])
  <2>1. /\ Len(req[r].results) < Len(req[r].plan) /\ req[r].plan \in Seq({"command", "harness"})
        /\ req[r].results \in Seq(Statuses)
    BY <1>1 DEF Told, GoingOn, RequestRow
  <2>2. req[r].plan[Len(req[r].results) + 1] \in {"command", "harness"}
    <3>1. Len(req[r].results) + 1 \in 1 .. Len(req[r].plan)
      BY <2>1
    <3> QED  BY <2>1, <3>1
  <2> QED  BY <1>1, <2>2 DEF Busy
<1>4. results \in Seq(Statuses) /\ FineBefore(results)
  <2>1. /\ req[r].results \in Seq(Statuses) /\ FineBefore(req[r].results)
        /\ req[r].results = << >> \/ req[r].results[Len(req[r].results)] \notin Bad
    BY <1>1 DEF Told, GoingOn, RequestRow
  <2>2. /\ results \in Seq(Statuses) /\ Len(results) = Len(req[r].results) + 1 /\ Len(req[r].results) \in Nat
        /\ \A i \in 1 .. Len(req[r].results) : results[i] = req[r].results[i]
    BY <2>1, AppendProperties
  <2> QED  BY <2>1, <2>2 DEF FineBefore
<1>5. CASE ~harness /\ c \notin exists
  <2> DEFINE q == [req[r] EXCEPT !.stage = "failed"]
  <2>1. req' = [req EXCEPT ![r] = q] /\ UNCHANGED << stored, exists, gone, window >>
    BY <1>1, <1>2, <1>5
  <2>2. q \in RequestRow /\ ~Busy(q) /\ q.kind = "task" /\ q.results = req[r].results /\ q.stage = "failed" /\ q.given = req[r].given
    BY <1>1 DEF RequestRow, Busy
  <2>3. req'[r] = q
    BY <1>1, <2>1 DEF WShape
  <2>4. \A d \in exists : ~BusyIn(req[r], d)
    BY <1>5 DEF BusyIn
  <2> HIDE DEF q, harness, c, base
  <2>5. Told(r)'
    BY <1>1, <2>1, <2>2, <2>3, <2>4 DEF Told, Settled, BusyIn
  <2> QED  BY <1>1, <2>1, <2>5, SameRows
<1>6. CASE harness \/ c \in exists
  <2>1. AtStep(r, base, results)
    <3>1. CASE harness
      <4>1. ~Busy(req[r]) /\ base = stored
        BY <1>1, <3>1 DEF Busy
      <4>2. Closed(stored, r, "task", req[r].given)
        BY <1>1, <4>1, SettledIsClosed
      <4> HIDE DEF results, base
      <4> QED  BY <1>1, <1>4, <4>1, <4>2 DEF AtStep, SameFor
    <3>2. CASE ~harness
      <4>1. base = Put(stored, req[r].conv, r, "log") /\ Busy(req[r]) /\ req[r].conv \in exists
        BY <1>3, <1>6, <3>2
      <4> HIDE DEF results, base
      <4>2. /\ Closed(base, r, req[r].kind, req[r].given) /\ base \in Rows /\ SameFor(stored, base, r)
            /\ \A d \in Convs \ exists : base[d] = << >>
        BY <4>1, LogCloses
      <4> QED  BY <1>1, <1>4, <4>2 DEF AtStep
    <3> QED  BY <3>1, <3>2
  <2>0. PICK b, o, p : b = base /\ o = results /\ p = req[r].plan
    OBVIOUS
  <2>2. IF GoingOn(results, req[r].plan)
        THEN Work!BeginStep(r, req[r].plan, results, base, exists)
        ELSE Work!EndTask(r, results, base)
    BY <1>2, <1>6
  <2>3. req[r].plan \in Seq({"command", "harness"})
    BY <1>1 DEF RequestRow
  <2> HIDE DEF harness, c, base, results
  <2>4. CASE GoingOn(results, req[r].plan)
    <3>1. Work!BeginStep(r, p, o, b, exists)
      BY <2>0, <2>2, <2>4 DEF Work!BeginStep
    <3>2. AtStep(r, b, o) /\ GoingOn(o, p) /\ p \in Seq({"command", "harness"})
      BY <2>0, <2>1, <2>3, <2>4
    <3> QED  BY <1>1, <3>1, <3>2, BeginKeeps
  <2>5. CASE ~GoingOn(results, req[r].plan)
    <3>1. Work!EndTask(r, o, b)
      BY <2>0, <2>2, <2>5 DEF Work!EndTask
    <3>2. AtStep(r, b, o)
      BY <2>0, <2>1
    <3> QED  BY <1>1, <3>1, <3>2, EndKeeps
  <2> QED  BY <2>4, <2>5
<1> QED  BY <1>5, <1>6

-----------------------------------------------------------------------------
(* What no request does *)

LEMMA DeleteKeeps ==
  ASSUME WInv, NEW c \in Convs, Work!DeleteConversation(c)
  PROVE  WInv'
<1>1. /\ exists' = exists \ {c} /\ gone' = gone \cup {c} /\ UNCHANGED << window, req >> /\ c \in exists
      /\ stored' = [stored EXCEPT ![c] = << >>] /\ WShape /\ stored \in Rows
  BY DEF Work!DeleteConversation, WInv, WShape
<1>2. stored'[c] = << >> /\ (\A d \in Convs : d # c => stored'[d] = stored[d]) /\ << >> \in Seq(MessageRow)
  BY <1>1, EmptySeq DEF Rows
<1>3. WShape'
  BY <1>1, <1>2 DEF WShape, Rows
<1>4. ASSUME NEW r \in Requests PROVE Told(r)'
  <2>1. Told(r)
    BY DEF WInv
  <2>2. ASSUME NEW d \in Convs PROVE From(stored[d], r) = 0 => From(stored'[d], r) = 0
    BY <1>2, CountEmpty
  <2>3. ASSUME NEW d \in exists' PROVE Settled(req[r], r, d)'
    <3>1. d \in exists /\ stored'[d] = stored[d] /\ req' = req
      BY <1>1, <1>2 DEF WShape
    <3> QED  BY <2>1, <3>1 DEF Told, Settled
  <2>4. exists' \cup gone' = exists \cup gone /\ req' = req
    BY <1>1
  <2> QED  BY <2>1, <2>2, <2>3, <2>4 DEF Told
<1> QED  BY <1>3, <1>4 DEF WInv

LEMMA RestKeeps ==
  ASSUME WInv, Work!OpenOther \/ Work!Tick \/ UNCHANGED workVars
  PROVE  WInv'
<1>1. UNCHANGED << stored, exists, gone, req >> /\ window' \in Convs \cup {0}
  BY DEF Work!OpenOther, Work!Tick, workVars, WInv, WShape
<1>2. ASSUME NEW r \in Requests PROVE Told(r)'
  BY <1>1 DEF WInv, Told, Settled
<1>3. WShape'
  BY <1>1 DEF WInv, WShape
<1> QED  BY <1>2, <1>3 DEF WInv

LEMMA WorkStarts == ASSUME Work!Init PROVE WInv
<1>1. WShape
  BY EmptySeq DEF Work!Init, WShape, Rows
<1>2. ASSUME NEW r \in Requests PROVE Told(r)
  <2>1. req[r] = Work!Unsent /\ exists = {} /\ \A c \in Convs : stored[c] = << >>
    BY DEF Work!Init
  <2>2. \A c \in Convs : From(stored[c], r) = 0
    BY <2>1, CountEmpty
  <2> QED  BY <2>1, <2>2, EmptySeq DEF Told, Work!Unsent, RequestRow, Busy, FineBefore
<1> QED  BY <1>1, <1>2 DEF WInv

LEMMA WorkKeeps ==
  ASSUME WInv, WorkConstants, Work!Next
  PROVE  WInv'
<1>1. CASE \E r \in Requests : Work!SendWorkCommand(r) \/ Work!SendCommanderTask(r) \/ Work!ReportWorkResult(r)
                              \/ Work!Shown(r) \/ Work!Serve(r)
  BY <1>1, SendCommandKeeps, SendTaskKeeps, ReportKeeps, ShownKeeps, CommandDoneKeeps, PlanMadeKeeps, TaskStepKeeps
  DEF Work!Serve
<1>2. CASE \E c \in Convs : Work!DeleteConversation(c)
  BY <1>2, DeleteKeeps
<1>3. CASE Work!OpenOther \/ Work!Tick
  BY <1>3, RestKeeps
<1> QED  BY <1>1, <1>2, <1>3 DEF Work!Next

-----------------------------------------------------------------------------
(* Free commands *)

LogIn(d) == {l \in Fees!Log : l.day = d}
Counted == {l \in Fees!Log : l.utc > Fees!Today}

FeeType ==
  /\ time \in 1 .. FeeTime
  /\ logs \in [Fees!Log -> Nat]
  /\ fees \in [0 .. FeeTime -> Nat]

\* A log is of a day that has come, and its day in UTC is at most the next one.
LogsDated == \A l \in Fees!Log : logs[l] > 0 => l.day <= Fees!Today /\ l.utc <= l.day + 1

FeesFollow == \A d \in 0 .. FeeTime : fees[d] > 0 => fees[d] + FeesFrom <= SumFunctionOnSet(logs, LogIn(d))

FInv == FeeType /\ LogsDated /\ FeesFollow

LEMMA LogIsFinite ==
  ASSUME WorkConstants
  PROVE  /\ IsFiniteSet(Fees!Log) /\ IsFiniteSet(Counted)
         /\ \A d : IsFiniteSet(LogIn(d))
<1> DEFINE P == (0 .. FeeTime) \X (0 .. FeeTime)
           Q == P \X BOOLEAN
           f == [x \in Q |-> [utc |-> x[1][1], day |-> x[1][2], ran |-> x[2]]]
<1>1. IsFiniteSet(0 .. FeeTime) /\ IsFiniteSet(BOOLEAN)
  <2>1. IsFiniteSet({FALSE})
    BY FS_Singleton
  <2>2. IsFiniteSet({FALSE} \cup {TRUE})
    BY <2>1, FS_AddElement
  <2>3. BOOLEAN = {FALSE} \cup {TRUE}
    OBVIOUS
  <2>4. 0 \in Int /\ FeeTime \in Int
    BY DEF WorkConstants
  <2>5. IsFiniteSet(0 .. FeeTime)
    BY <2>4, FS_Interval
  <2> QED  BY <2>2, <2>3, <2>5
<1>2. IsFiniteSet(Q)
  BY <1>1, FS_Product
<1>3. f \in Surjection(Q, Fees!Log)
  <2>1. \A x \in Q : f[x] \in Fees!Log
    BY DEF Fees!Log
  <2>2. ASSUME NEW l \in Fees!Log PROVE \E x \in Q : f[x] = l
    <3>1. << << l.utc, l.day >>, l.ran >> \in Q
      BY DEF Fees!Log
    <3>2. f[<< << l.utc, l.day >>, l.ran >>] = l
      BY <3>1 DEF Fees!Log
    <3> QED  BY <3>1, <3>2
  <2> QED  BY <2>1, <2>2 DEF Surjection
<1>4. IsFiniteSet(Fees!Log)
  BY <1>2, <1>3, FS_Surjection
<1> QED  BY <1>4, FS_Subset DEF LogIn, Counted

\* The fold of the module is the sum of the lemmas.
LEMMA TotalIsSum ==
  ASSUME NEW f, NEW S
  PROVE  Fees!FoldFunctionOnSet(+, 0, f, S) = SumFunctionOnSet(f, S)
  BY SumUnfold DEF Solves, Fees!FoldFunctionOnSet, Fees!MapThenFoldSet, Term, First

LEMMA TotalOfDay == ASSUME NEW d, NEW f PROVE Fees!Total(f, LAMBDA l : l.day = d) = SumFunctionOnSet(f, LogIn(d))
  BY TotalIsSum DEF Fees!Total, LogIn

LEMMA TotalOfToday ==
  ASSUME NEW f PROVE Fees!Total(f, LAMBDA l : Fees!CountsToday(l, Fees!Today)) = SumFunctionOnSet(f, Counted)
  BY TotalIsSum DEF Fees!Total, Fees!CountsToday, Counted

\* One command is logged.
NewLog(ran) == [utc |-> Fees!UtcDay, day |-> Fees!Today, ran |-> ran]
Logged(ran) == [logs EXCEPT ![NewLog(ran)] = @ + 1]

LEMMA LoggedAdds ==
  ASSUME WorkConstants, FInv, NEW ran \in BOOLEAN, NEW g, g = Logged(ran)
  PROVE  /\ g \in [Fees!Log -> Nat] /\ Fees!Today \in 0 .. FeeTime
         /\ \A l \in Fees!Log : g[l] > 0 => l.day <= Fees!Today /\ l.utc <= l.day + 1
         /\ \A d \in 0 .. FeeTime : SumFunctionOnSet(g, LogIn(d)) =
              SumFunctionOnSet(logs, LogIn(d)) + (IF d = Fees!Today THEN 1 ELSE 0)
<1> DEFINE e == NewLog(ran)
<1>1. /\ time \in 1 .. FeeTime /\ FeeTime \in Nat \ {0} /\ FeeLead \in {-1, 0, 1} /\ logs \in [Fees!Log -> Nat]
  BY DEF FInv, FeeType, WorkConstants
<1>2. Fees!Today \in 0 .. FeeTime /\ Fees!UtcDay \in 0 .. FeeTime /\ Fees!UtcDay <= Fees!Today + 1
  <2>1. (time \div 2) \in 0 .. FeeTime
    BY <1>1
  <2>2. ((time + FeeLead) \div 2) \in 0 .. FeeTime /\ ((time + FeeLead) \div 2) <= (time \div 2) + 1
    BY <1>1
  <2> QED  BY <2>1, <2>2 DEF Fees!Today, Fees!UtcDay
<1>3. e \in Fees!Log /\ e.day = Fees!Today /\ e.utc = Fees!UtcDay
  BY <1>2 DEF NewLog, Fees!Log
<1>4. g = [logs EXCEPT ![e] = @ + 1]
  BY DEF Logged
<1> HIDE DEF e
<1>5. g \in [Fees!Log -> Nat] /\ g[e] = logs[e] + 1 /\ \A l \in Fees!Log : l # e => g[l] = logs[l]
  BY <1>1, <1>3, <1>4
<1>6. \A l \in Fees!Log : g[l] > 0 => l.day <= Fees!Today /\ l.utc <= l.day + 1
  BY <1>2, <1>3, <1>5 DEF FInv, LogsDated
<1>7. ASSUME NEW d \in 0 .. FeeTime
      PROVE  SumFunctionOnSet(g, LogIn(d)) = SumFunctionOnSet(logs, LogIn(d)) + (IF d = Fees!Today THEN 1 ELSE 0)
  <2>1. IsFiniteSet(LogIn(d)) /\ LogIn(d) \subseteq Fees!Log
    BY LogIsFinite DEF LogIn
  <2>2. \A l \in LogIn(d) : g[l] \in Int /\ logs[l] \in Int
    BY <1>1, <1>5, <2>1
  <2>3. SumFunctionOnSet(logs, LogIn(d)) \in Int
    BY <2>1, <2>2, SumType
  <2>4. CASE d = Fees!Today
    <3>1. e \in LogIn(d)
      BY <1>3, <2>4 DEF LogIn
    <3>2. SumFunctionOnSet(g, LogIn(d)) = SumFunctionOnSet(logs, LogIn(d)) + g[e] - logs[e]
      BY <1>5, <2>1, <2>2, <3>1, SumChangesBy
    <3>3. logs[e] \in Int
      BY <2>2, <3>1
    <3> QED  BY <1>5, <2>3, <2>4, <3>2, <3>3
  <2>5. CASE d # Fees!Today
    <3>1. \A l \in LogIn(d) : g[l] = logs[l]
      BY <1>3, <1>5, <2>1, <2>5 DEF LogIn
    <3>2. SumFunctionOnSet(g, LogIn(d)) = SumFunctionOnSet(logs, LogIn(d))
      BY <2>1, <3>1, SumExtensional
    <3> QED  BY <2>3, <2>5, <3>2
  <2> QED  BY <2>4, <2>5
<1> QED  BY <1>2, <1>5, <1>6, <1>7

\* The logs that the query counts are among those of today.
LEMMA CountedAreTodays ==
  ASSUME WorkConstants, NEW g \in [Fees!Log -> Nat], Fees!Today \in Nat,
         \A l \in Fees!Log : g[l] > 0 => l.day <= Fees!Today /\ l.utc <= l.day + 1
  PROVE  SumFunctionOnSet(g, Counted) <= SumFunctionOnSet(g, LogIn(Fees!Today))
<1> DEFINE B == LogIn(Fees!Today)
           A == Counted
<1>1. IsFiniteSet(A) /\ IsFiniteSet(B) /\ A \subseteq Fees!Log /\ B \subseteq Fees!Log
  BY LogIsFinite DEF LogIn, Counted
<1>2. \A l \in A \ B : g[l] = 0
  <2> SUFFICES ASSUME NEW l \in A, l \notin B PROVE g[l] = 0
    OBVIOUS
  <2>1. l \in Fees!Log /\ l.utc > Fees!Today /\ l.day # Fees!Today
    BY DEF LogIn, Counted
  <2>2. l.day \in Nat /\ l.utc \in Nat /\ g[l] \in Nat
    <3>1. l.day \in 0 .. FeeTime /\ l.utc \in 0 .. FeeTime
      BY <2>1 DEF Fees!Log
    <3>2. l \in Fees!Log
      BY <2>1
    <3> QED  BY <3>1, <3>2
  <2> QED  BY <2>1, <2>2
<1> HIDE DEF A, B
<1>3. A \cap B \subseteq A /\ IsFiniteSet(A \cap B)
  BY <1>1, FS_Subset
<1>4. \A l \in Fees!Log : g[l] \in Nat
  OBVIOUS
<1>5. SumFunctionOnSet(g, A) = SumFunctionOnSet(g, A \cap B)
  BY <1>1, <1>2, <1>3, <1>4, SumWhere
<1>6. SumFunctionOnSet(g, A \cap B) <= SumFunctionOnSet(g, B)
  BY <1>1, <1>4, SumOfPart
<1> QED  BY <1>5, <1>6 DEF A, B

LEMMA RecordKeeps ==
  ASSUME WorkConstants, FInv, UNCHANGED time, NEW ran \in BOOLEAN, NEW charged \in BOOLEAN,
         logs' = Logged(ran),
         charged => SumFunctionOnSet(logs', Counted) > FeesFrom,
         fees' = IF charged THEN [fees EXCEPT ![Fees!Today] = @ + 1] ELSE fees
  PROVE  FInv'
<1>1. /\ logs' \in [Fees!Log -> Nat] /\ Fees!Today \in 0 .. FeeTime
      /\ \A l \in Fees!Log : logs'[l] > 0 => l.day <= Fees!Today /\ l.utc <= l.day + 1
      /\ \A d \in 0 .. FeeTime : SumFunctionOnSet(logs', LogIn(d)) =
           SumFunctionOnSet(logs, LogIn(d)) + (IF d = Fees!Today THEN 1 ELSE 0)
  BY LoggedAdds
<1>2. fees \in [0 .. FeeTime -> Nat] /\ logs \in [Fees!Log -> Nat]
  BY DEF FInv, FeeType
<1>3. FeeType'
  BY <1>1, <1>2 DEF FInv, FeeType
<1>4. LogsDated'
  BY <1>1 DEF LogsDated, Fees!Today
<1>5. ASSUME NEW d \in 0 .. FeeTime, fees'[d] > 0
      PROVE  fees'[d] + FeesFrom <= SumFunctionOnSet(logs', LogIn(d))
  <2>1. SumFunctionOnSet(logs, LogIn(d)) \in Nat /\ FeesFrom \in Nat /\ fees[d] \in Nat
    <3>1. IsFiniteSet(LogIn(d)) /\ \A l \in LogIn(d) : logs[l] \in Nat
      BY <1>2, LogIsFinite DEF LogIn
    <3> QED  BY <1>2, <3>1, SumTypeNat DEF WorkConstants
  <2>2. fees[d] > 0 => fees[d] + FeesFrom <= SumFunctionOnSet(logs, LogIn(d))
    BY DEF FInv, FeesFollow
  <2>3. CASE charged /\ d = Fees!Today
    <3>1. SumFunctionOnSet(logs', Counted) <= SumFunctionOnSet(logs', LogIn(d))
      BY <1>1, <2>3, CountedAreTodays
    <3>2. IsFiniteSet(Counted) /\ \A l \in Counted : logs'[l] \in Nat
      BY <1>1, LogIsFinite DEF Counted
    <3>3. SumFunctionOnSet(logs', Counted) \in Nat
      BY <3>2, SumTypeNat
    <3>4. fees'[d] = fees[d] + 1
      BY <1>2, <2>3
    <3> QED  BY <1>1, <2>1, <2>2, <2>3, <3>1, <3>3, <3>4
  <2>4. CASE ~(charged /\ d = Fees!Today)
    <3>1. fees'[d] = fees[d]
      BY <1>1, <1>2, <2>4
    <3> QED  BY <1>1, <1>5, <2>1, <2>2, <3>1
  <2> QED  BY <2>3, <2>4
<1>6. FeesFollow'
  BY <1>5 DEF FeesFollow, LogIn
<1> QED  BY <1>3, <1>4, <1>6 DEF FInv

LEMMA TickKeeps ==
  ASSUME WorkConstants, FInv, Fees!Tick
  PROVE  FInv'
<1>1. /\ time < FeeTime /\ time' = time + 1 /\ UNCHANGED << logs, fees >> /\ time \in 1 .. FeeTime /\ FeeTime \in Nat
  BY DEF Fees!Tick, FInv, FeeType, WorkConstants
<1>2. FeeType' /\ FeesFollow'
  BY <1>1 DEF FInv, FeeType, FeesFollow, LogIn
<1>3. (time \div 2) <= (time' \div 2) /\ (time \div 2) \in Nat /\ (time' \div 2) \in Nat
  BY <1>1
<1>4. ASSUME NEW l \in Fees!Log, logs'[l] > 0 PROVE l.day <= (time' \div 2) /\ l.utc <= l.day + 1
  <2>1. l.day <= (time \div 2) /\ l.utc <= l.day + 1 /\ l.day \in Nat
    BY <1>1, <1>4 DEF FInv, LogsDated, Fees!Today, Fees!Log
  <2> QED  BY <1>3, <2>1
<1>5. LogsDated'
  BY <1>4 DEF LogsDated, Fees!Today
<1> QED  BY <1>2, <1>5 DEF FInv

LEMMA SameBooks == ASSUME FInv, UNCHANGED << logs, fees, time >> PROVE FInv'
  BY DEF FInv, FeeType, LogsDated, FeesFollow, Fees!Today, LogIn

LEMMA FeesKeep ==
  ASSUME WorkConstants, FInv, Fees!Next
  PROVE  FInv'
<1>1. ASSUME NEW status, Fees!Record(status), UNCHANGED time PROVE FInv'
  <2> DEFINE charged == Fees!Fee(status, logs')
             ran == status = "ran"
  <2>1. logs' = Logged(ran)
    BY <1>1 DEF Fees!Record, Logged, NewLog
  <2>2. fees' = IF charged THEN [fees EXCEPT ![Fees!Today] = @ + 1] ELSE fees
    BY <1>1 DEF Fees!Record
  <2>3. charged => SumFunctionOnSet(logs', Counted) > FeesFrom
    BY TotalOfToday DEF Fees!Fee
  <2> HIDE DEF charged
  <2> QED  BY <1>1, <2>1, <2>2, <2>3, RecordKeeps
<1>2. ASSUME NEW r, Fees!ReportWorkResult(r) PROVE FInv'
  <2>1. PICK ran \in BOOLEAN : logs' = [logs EXCEPT ![[utc |-> Fees!UtcDay, day |-> Fees!Today, ran |-> ran]] = @ + 1]
    BY <1>2 DEF Fees!ReportWorkResult
  <2>2. UNCHANGED << fees, time >> /\ logs' = Logged(ran)
    BY <1>2, <2>1 DEF Fees!ReportWorkResult, Logged, NewLog
  <2> QED  BY <2>2, RecordKeeps
<1>3. CASE \E r \in FeeRequests : Fees!SendWorkCommand(r) \/ Fees!SendCommanderTask(r) \/ Fees!Shown(r) \/ Fees!PlanMade(r)
  <2>1. UNCHANGED << logs, fees, time >>
    BY <1>3 DEF Fees!SendWorkCommand, Fees!SendCommanderTask, Fees!Shown, Fees!PlanMade
  <2> QED  BY <2>1, SameBooks
<1>4. CASE \E r \in FeeRequests : Fees!CommandDone(r) \/ Fees!TaskStep(r)
  <2>1. UNCHANGED time /\ (UNCHANGED << logs, fees >> \/ \E status : Fees!Record(status))
    BY <1>4 DEF Fees!CommandDone, Fees!TaskStep, Fees!StepDone
  <2> QED  BY <1>1, <2>1, SameBooks
<1>5. CASE (\E c \in FeeConvs : Fees!DeleteConversation(c)) \/ Fees!OpenOther
  <2>1. UNCHANGED << logs, fees, time >>
    BY <1>5 DEF Fees!DeleteConversation, Fees!OpenOther
  <2> QED  BY <2>1, SameBooks
<1> QED  BY <1>2, <1>3, <1>4, <1>5, TickKeeps DEF Fees!Next, Fees!Serve

LEMMA FeesStart == ASSUME WorkConstants, Fees!Init PROVE FInv
<1>1. FeeType
  BY DEF Fees!Init, FeeType, WorkConstants
<1>2. \A l \in Fees!Log : logs[l] = 0
  BY DEF Fees!Init
<1>3. \A d \in 0 .. FeeTime : fees[d] = 0
  BY DEF Fees!Init
<1> QED  BY <1>1, <1>2, <1>3 DEF FInv, LogsDated, FeesFollow

LEMMA FeesClaim == FInv => Fees!FreeFirst
  BY TotalOfDay DEF FInv, FeesFollow, Fees!FreeFirst

-----------------------------------------------------------------------------
(* Both *)

WorkInv ==
  /\ part = "work" => WInv
  /\ part = "fees" => FInv

\* However requests overtake each other while windows move on, conversations are
\* deleted and midnight passes: every command has its own log in its conversation,
\* a task stops at the first step that is blocked, and the first commands of a day
\* are free.
THEOREM CommandsAreAnswered == WorkSpec => []CommandsAnswered
<1>1. WorkInit => WorkInv
  BY WorkAssumption, WorkStarts, FeesStart DEF WorkInit, WorkInv
<1>2. WorkInv /\ [WorkPart \/ FeesPart]_<< part, workVars >> => WorkInv'
  <2> SUFFICES ASSUME WorkInv, [WorkPart \/ FeesPart]_<< part, workVars >> PROVE WorkInv'
    OBVIOUS
  <2>1. CASE WorkPart
    BY <2>1, WorkAssumption, WorkKeeps DEF WorkPart, WorkInv
  <2>2. CASE FeesPart
    BY <2>2, WorkAssumption, FeesKeep DEF FeesPart, WorkInv
  <2>3. CASE UNCHANGED << part, workVars >>
    <3>1. part' = part /\ UNCHANGED workVars /\ UNCHANGED << logs, fees, time >>
      BY <2>3 DEF workVars
    <3> QED  BY <3>1, RestKeeps, SameBooks DEF WorkInv
  <2> QED  BY <2>1, <2>2, <2>3
<1>3. WorkInv => CommandsAnswered
  BY WorkClaims, FeesClaim DEF WorkInv, CommandsAnswered
<1> QED  BY <1>1, <1>2, <1>3, PTL DEF WorkSpec
=============================================================================
