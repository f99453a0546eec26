---------------------------- MODULE GroupTreasury ----------------------------
(***************************************************************************)
(* The credits of groups: stakes of their members, the welfare packet the  *)
(* pool gives once a day, and the daily airdrop into the pools             *)
(* (core/services/group_service.py, airdrop_service.py and the jobs of     *)
(* bootstrap.py).                                                          *)
(*                                                                         *)
(* Routes and the job of the welfare packet run on the event loop without  *)
(* an await between their first read and last write; the airdrop runs in a *)
(* thread, which reads all groups in one connection and pays them in       *)
(* another.  A packet, its announcement and the date it is remembered by   *)
(* are three transactions.  What becomes of a packet is GroupPackets'.     *)
(***************************************************************************)
EXTENDS Integers, Sequences, FiniteSets, FiniteSetsExt, Functions

CONSTANTS
  Groups, Users,
  Amounts,      \* amounts members offer, some too small
  MinStake,     \* stake_credits: at least 10
  MinWelfare,   \* welfare needs 1000 in pool and stakes
  MinDrop,      \* MIN_TOTAL_CREDITS
  Activities,   \* what _calc_activity may return
  DailyPool, TopN, TopAmount, GroupCap,   \* constants of airdrop_service
  Hours,        \* hours in a day
  InitCredits, InitPool,
  MaxStakes,    \* bound on the rows of group_stakes
  MaxTime,      \* bound on the hours that pass
  MaxFaults     \* bound on failing transactions

VARIABLES
  credits,   \* users.credits
  group,     \* groups: credits, staked_credits, red_packet_hour, last_red_packet_date
  stake,     \* group_stakes
  drop,      \* amounts the airdrop thread has worked out and not paid; none: no group
  now,       \* hours since the start
  spent,     \* history: put into packets, lost with a dismissed group, airdropped a day
  welfare,   \* history: packets the job sent to a group on a day
  faults     \* failing transactions so far

tvars == << credits, group, stake, drop, now, spent, welfare, faults >>

-----------------------------------------------------------------------------
(* Data *)

Days == 0 .. (MaxTime \div Hours)
Today == now \div Hours

ActiveIn(g) == {s \in DOMAIN stake : stake[s].status = "active" /\ stake[s].group = g}
StakesOf(g, u) == {s \in ActiveIn(g) : stake[s].user = u}
Staked == [s \in DOMAIN stake |-> stake[s].amount]
SumOf(S) == SumFunctionOnSet(Staked, S)

Worth(g) == group[g].pool + group[g].staked

Nearest(a, b) == (2 * a + b) \div (2 * b)

-----------------------------------------------------------------------------
(* stake_credits, withdraw_stake *)

Stake(g, u, x) ==
  /\ Len(stake) < MaxStakes /\ group[g].live
  /\ x >= MinStake /\ credits[u] >= x
  /\ credits' = [credits EXCEPT ![u] = @ - x]
  /\ group' = [group EXCEPT ![g].staked = @ + x]
  /\ stake' = Append(stake, [status |-> "active", group |-> g, user |-> u, amount |-> x, old |-> FALSE])
  /\ UNCHANGED << drop, now, spent, welfare, faults >>

\* Mutant of Withdrawn: the rows stay active.
WithdrawnNever(g, u) == UNCHANGED stake

\* Every active row of the member is closed, those younger than 30 days too.
Withdrawn(g, u) ==
  stake' = [s \in DOMAIN stake |-> IF s \in StakesOf(g, u) THEN [stake[s] EXCEPT !.status = "withdrawn"] ELSE stake[s]]

\* Only what is old enough is paid.
Withdraw(g, u) ==
  LET total == SumOf({s \in StakesOf(g, u) : stake[s].old})
  IN  /\ group[g].live /\ total > 0
      /\ credits' = [credits EXCEPT ![u] = @ + total]
      /\ group' = [group EXCEPT ![g].staked = IF @ >= total THEN @ - total ELSE 0]
      /\ Withdrawn(g, u)
      /\ UNCHANGED << drop, now, spent, welfare, faults >>

-----------------------------------------------------------------------------
(* configure_red_packet, distribute_group_red_packet, periodic_group_red_packet *)

Configure(g, hour) ==
  /\ group[g].live /\ group' = [group EXCEPT ![g].hour = hour]
  /\ UNCHANGED << credits, stake, drop, now, spent, welfare, faults >>

\* A tenth of the pool, at least one credit and at most the pool
Welfare(g) == Min({Max({Nearest(group[g].pool, 10), 1}), group[g].pool})

\* create_packet takes the amount from the pool, then announces the packet; only
\* then is the date written.  A failure in between leaves the packet undated.
Give(g) ==
  \/ /\ group' = [group EXCEPT ![g].pool = @ - Welfare(g), ![g].date = Today]
     /\ UNCHANGED faults
  \/ /\ faults < MaxFaults /\ faults' = faults + 1
     /\ group' = [group EXCEPT ![g].pool = @ - Welfare(g)]

\* The owner's request looks at no date.
Distribute(g) ==
  /\ group[g].live /\ Worth(g) >= MinWelfare /\ group[g].pool > 0
  /\ Give(g)
  /\ spent' = [spent EXCEPT !.packets = @ + Welfare(g)]
  /\ UNCHANGED << credits, stake, drop, now, welfare >>

\* The query of the job, which runs every minute of the hour; create_packet refuses
\* less than a credit.
IsDue(g) ==
  /\ group[g].live /\ group[g].hour = now % Hours /\ Worth(g) >= MinWelfare
  /\ group[g].date # Today

DailyWelfare(g) ==
  /\ IsDue(g) /\ group[g].pool >= 1
  /\ Give(g)
  /\ spent' = [spent EXCEPT !.packets = @ + Welfare(g)]
  /\ welfare' = [welfare EXCEPT ![g][Today] = @ + 1]
  /\ UNCHANGED << credits, stake, drop, now >>

-----------------------------------------------------------------------------
(* run_daily_airdrop *)

Eligible == {g \in Groups : group[g].live /\ Worth(g) >= MinDrop}

\* The first TopN groups, rank being their order by activity, get a fixed amount;
\* the others share the rest by activity, up to a cap.
Dropped(act, top) ==
  LET others == DOMAIN act \ top
      rest == DailyPool - TopAmount * Cardinality(top)
      total == SumFunctionOnSet(act, others)
      share(g) == IF total > 0 /\ rest > 0 THEN Nearest(rest * act[g], total) ELSE 0
  IN  [g \in DOMAIN act |-> Min({GroupCap, IF g \in top THEN TopAmount ELSE share(g)})]

\* The groups that come first when sorted by activity; ties as the query returned them.
Ranked(act, top) ==
  /\ Cardinality(top) = Min({TopN, Cardinality(DOMAIN act)})
  /\ \A g \in top, h \in DOMAIN act \ top : act[g] >= act[h]

\* At half past midnight, for the day before; at most once a day.
AirdropRead ==
  /\ drop = << >> /\ Today > 0 /\ spent.drops[Today] = -1 /\ Eligible # {}
  /\ \E act \in [Eligible -> Activities], top \in SUBSET Eligible :
       Ranked(act, top) /\ drop' = Dropped(act, top)
  /\ UNCHANGED << credits, group, stake, now, spent, welfare, faults >>

\* One transaction; the UPDATE of a group dismissed meanwhile meets no row.
AirdropWrite ==
  /\ drop # << >>
  /\ group' = [g \in Groups |-> IF g \in DOMAIN drop /\ group[g].live
                                THEN [group[g] EXCEPT !.pool = @ + drop[g]] ELSE group[g]]
  /\ LET total == SumFunctionOnSet(drop, DOMAIN drop)
         missed == SumFunctionOnSet(drop, {g \in DOMAIN drop : ~group[g].live})
     IN  spent' = [spent EXCEPT !.drops[Today] = total, !.lost = @ + missed]
  /\ drop' = << >>
  /\ UNCHANGED << credits, stake, now, welfare, faults >>

-----------------------------------------------------------------------------
\* dismiss_group: rows of group_stakes and group_tasks refer to the group, so the
\* deletion fails while there is one, withdrawn or not.  What the pool holds is lost.
Dismiss(g) ==
  /\ group[g].live /\ \A s \in DOMAIN stake : stake[s].group # g
  /\ group' = [group EXCEPT ![g].live = FALSE, ![g].pool = 0, ![g].staked = 0]
  /\ spent' = [spent EXCEPT !.lost = @ + Worth(g)]
  /\ UNCHANGED << credits, stake, drop, now, welfare, faults >>

\* A stake turns 30 days old.
Mature(s) ==
  /\ stake[s].status = "active" /\ ~stake[s].old
  /\ stake' = [stake EXCEPT ![s].old = TRUE]
  /\ UNCHANGED << credits, group, drop, now, spent, welfare, faults >>

\* The airdrop thread is not overtaken by the next day.
Tick ==
  /\ now < MaxTime /\ now' = now + 1
  /\ drop # << >> => now' \div Hours = Today
  /\ UNCHANGED << credits, group, stake, drop, spent, welfare, faults >>

Init ==
  /\ credits = [u \in Users |-> InitCredits]
  /\ group = [g \in Groups |-> [live |-> TRUE, pool |-> InitPool, staked |-> 0, hour |-> Hours - 1, date |-> -1]]
  /\ stake = << >>
  /\ drop = << >> /\ now = 0 /\ faults = 0
  /\ spent = [packets |-> 0, lost |-> 0, drops |-> [d \in Days |-> -1]]
  /\ welfare = [g \in Groups |-> [d \in Days |-> 0]]

\* What the routes let a member and the owner ask for
StakeRequest(g, u) == Withdraw(g, u) \/ \E x \in Amounts : Stake(g, u, x)
WelfareRequest(g) == Distribute(g) \/ \E h \in 0 .. Hours - 1 : Configure(g, h)

Next ==
  \/ \E g \in Groups : \/ \E u \in Users : StakeRequest(g, u)
                       \/ WelfareRequest(g) \/ DailyWelfare(g) \/ Dismiss(g)
  \/ AirdropRead \/ AirdropWrite \/ Tick
  \/ \E s \in DOMAIN stake : Mature(s)

Spec == Init /\ [][Next]_tvars

-----------------------------------------------------------------------------
(* Properties *)

Worths == [g \in Groups |-> Worth(g)]
Airdrops == [d \in Days |-> Max({spent.drops[d], 0})]

\* No credit appears or vanishes: what members, pools and stakes hold, what went
\* into packets and what was lost with a dismissed group is what there was at the
\* start and was airdropped, whatever withdrawals, packets and airdrops interleave.
\* And an airdrop never gives more than the pool of the day, but for rounding.
NoCreditAppears ==
  /\ SumFunctionOnSet(credits, Users) + SumFunctionOnSet(Worths, Groups) + spent.packets + spent.lost
       = InitCredits * Cardinality(Users) + InitPool * Cardinality(Groups) + SumFunctionOnSet(Airdrops, Days)
  /\ \A d \in Days : spent.drops[d] <= DailyPool + Cardinality(Groups)

\* A group always has what its active stakes may claim: the floor at zero of
\* withdraw_stake never hides a payment nobody had staked.
StakesCovered == \A g \in Groups : group[g].staked >= SumOf(ActiveIn(g))

\* The daily job gives a group one packet a day ('每日群福利'), however often the owner
\* moves the hour or gives one himself; each further one follows a failed write.
WelfareOnceADay == \A g \in Groups, d \in Days : welfare[g][d] <= 1 + faults
=============================================================================
