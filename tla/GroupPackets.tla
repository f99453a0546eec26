---------------------------- MODULE GroupPackets ----------------------------
(***************************************************************************)
(* Red packets of a group (core/services/group_red_packet_service.py): a   *)
(* member or the group's pool puts credits into a packet, members draw     *)
(* shares of it, and what is left after its deadline goes back.            *)
(*                                                                         *)
(* Every service call is synchronous: a request runs on the event loop     *)
(* from its first read to its last write, and no other request comes in    *)
(* between.  The hourly sweep runs in a thread of its own                  *)
(* (asyncio.to_thread, bootstrap.py), and the same sweep is a route.       *)
(* Reads and writes are separate database connections: a read is a         *)
(* snapshot, a write one transaction that is not guarded by what was read. *)
(*                                                                         *)
(* Amounts are whole cents.  One group; all its members are Users.         *)
(***************************************************************************)
EXTENDS Integers, FiniteSets

CONSTANTS
  Packets,      \* packet ids, handed out in order
  Users,        \* members of the group
  Owner,        \* the member who may spend the group's pool
  Totals,       \* amounts of new packets
  Counts,       \* numbers of shares of new packets
  MinTotal,     \* create_packet: at least 1.00
  InitCredits,  \* users.credits at the start
  InitPool,     \* groups.credits at the start
  MaxFaults     \* bound: failing writes and crashes

ASSUME GroupAssumption ==
  /\ Packets # {} /\ Packets \subseteq Nat /\ IsFiniteSet(Packets)
  /\ IsFiniteSet(Users) /\ Owner \in Users
  /\ Totals \subseteq Nat /\ Counts \subseteq Nat
  /\ MinTotal \in Nat \ {0} /\ InitCredits \in Nat /\ InitPool \in Nat
  /\ MaxFaults \in Nat

VARIABLES
  credits,   \* users.credits
  pool,      \* groups.credits
  packet,    \* group_red_packets
  claimers,  \* group_red_packet_claims: who has a share of which packet
  due,       \* packets whose expires_at has passed
  loop,      \* the request the event loop is in the middle of
  sweep,     \* rows a sweep has read and not dealt with, with their amounts
  faults     \* failing writes and crashes so far

pvars == << credits, pool, packet, claimers, due, loop, sweep, faults >>

-----------------------------------------------------------------------------
(* Data *)

Sources == {"user", "group_pool"}
PacketTypes == {"lucky", "normal"}

\* given is history: what the claims of the packet paid out
Packet == [status: {"absent", "active", "empty", "expired"}, sender: Users,
           source: Sources, type: PacketTypes, total: Nat, count: Nat,
           claimed: Nat, left: Int, given: Int]

Present(p) == packet[p].status # "absent"

NewPacket(u, source, type, total, count) ==
  [status |-> "active", sender |-> u, source |-> source, type |-> type,
   total |-> total, count |-> count, claimed |-> 0, left |-> total, given |-> 0]

NoPacket == [NewPacket(Owner, "user", "lucky", 0, 0) EXCEPT !.status = "absent"]

\* seen is the row as the request read it (claim), or the row to be (create)
Loop == [pc: {"idle", "create", "claim"}, packet: Packets, user: Users, seen: Packet]

SomePacket == CHOOSE p \in Packets : TRUE
LoopIdle == [pc |-> "idle", packet |-> SomePacket, user |-> Owner, seen |-> NoPacket]

Sweepers == {"route", "thread"}

Sweep == [todo: SUBSET Packets, left: [Packets -> Int]]
SweepIdle == [todo |-> {}, left |-> [p \in Packets |-> 0]]

\* The event loop takes a new request only when it is not in one.
LoopFree == loop.pc = "idle" /\ sweep["route"].todo = {}

-----------------------------------------------------------------------------
(* create_packet *)

\* Mutant of Affordable: nobody's balance is looked at.
AffordableOnCredit(u, source, total, count) ==
  /\ total >= MinTotal /\ count >= 1 /\ total >= count
  /\ source = "group_pool" => u = Owner

\* The amount suffices for a cent per share, and the payer can afford it.
Affordable(u, source, total, count) ==
  /\ total >= MinTotal /\ count >= 1 /\ total >= count
  /\ IF source = "user" THEN credits[u] >= total ELSE u = Owner /\ pool >= total

CreateRead(u, source, type, total, count) ==
  /\ LoopFree /\ \E p \in Packets : ~Present(p)
  /\ Affordable(u, source, total, count)
  /\ loop' = [LoopIdle EXCEPT !.pc = "create", !.user = u,
                              !.seen = NewPacket(u, source, type, total, count)]
  /\ UNCHANGED << credits, pool, packet, claimers, due, sweep, faults >>

IsNextPacket(p) == ~Present(p) /\ \A x \in Packets : ~Present(x) => p <= x

CreateWrite(p) ==
  /\ loop.pc = "create"
  /\ IsNextPacket(p)
  /\ IF loop.seen.source = "user"
     THEN credits' = [credits EXCEPT ![loop.user] = @ - loop.seen.total] /\ UNCHANGED pool
     ELSE pool' = pool - loop.seen.total /\ UNCHANGED credits
  /\ packet' = [packet EXCEPT ![p] = loop.seen]
  /\ loop' = LoopIdle
  /\ UNCHANGED << claimers, due, sweep, faults >>

-----------------------------------------------------------------------------
(* claim_packet *)

\* Mutant of Claimable: the table of claims is not looked at.
ClaimableAgain(p, u) ==
  packet[p].status = "active" /\ p \notin due /\ packet[p].claimed < packet[p].count

Claimable(p, u) ==
  /\ packet[p].status = "active" /\ p \notin due
  /\ u \notin claimers[p]
  /\ packet[p].claimed < packet[p].count

ClaimRead(p, u) ==
  /\ LoopFree
  /\ Claimable(p, u)
  /\ loop' = [pc |-> "claim", packet |-> p, user |-> u, seen |-> packet[p]]
  /\ UNCHANGED << credits, pool, packet, claimers, due, sweep, faults >>

AtMost(a, limit) == IF a > limit THEN limit ELSE a

\* The highest that an amount drawn up to a / b is rounded to
Rounded(a, b) == (2 * a + b) \div (2 * b)

\* round(a / b) of two floats: what a half becomes depends on how they are stored
Nearest(a, b) == {(2 * a + b) \div (2 * b), (2 * a + b - 1) \div (2 * b)}

\* Mutant of Shares: nothing is kept for those who come later.
SharesUnreserved(k) ==
  LET waiting == k.count - k.claimed
  IN  IF waiting = 1 THEN {k.left}
      ELSE IF k.type = "normal" THEN {AtMost(n, k.left) : n \in Nearest(k.total, k.count)}
      ELSE {AtMost(a, k.left) : a \in 1 .. Rounded(2 * k.left, waiting)}

\* The amounts a claim may draw: the last share is all that is left, a normal
\* share the average, a lucky one at most twice the average of what is left,
\* with a cent kept for every later share.
Shares(k) ==
  LET waiting == k.count - k.claimed
  IN  IF waiting = 1 THEN {k.left}
      ELSE IF k.type = "normal" THEN {AtMost(n, k.left) : n \in Nearest(k.total, k.count)}
      ELSE {AtMost(a, k.left - (waiting - 1)) :
              a \in 1 .. Rounded(2 * k.left - waiting, waiting)}

\* Mutant of Claimed: a remainder of the wrong sum
ClaimedFromTotal(k, a) ==
  [k EXCEPT !.claimed = @ + 1, !.left = k.total - a, !.given = @ + a,
            !.status = IF k.claimed + 1 >= k.count THEN "empty" ELSE "active"]

\* The row after a share of amount a: written from the row as it was read.
Claimed(k, a) ==
  [k EXCEPT !.claimed = @ + 1, !.left = @ - a, !.given = @ + a,
            !.status = IF k.claimed + 1 >= k.count THEN "empty" ELSE "active"]

ClaimWrite ==
  LET p == loop.packet IN
  /\ loop.pc = "claim"
  /\ \E a \in Shares(loop.seen) :
       /\ credits' = [credits EXCEPT ![loop.user] = @ + a]
       /\ packet' = [packet EXCEPT ![p] = Claimed(loop.seen, a)]
  /\ claimers' = [claimers EXCEPT ![p] = @ \cup {loop.user}]
  /\ loop' = LoopIdle
  /\ UNCHANGED << pool, due, sweep, faults >>

-----------------------------------------------------------------------------
(* expire_packets *)

\* The deadline of a packet passes.
Elapse(p) ==
  /\ Present(p) /\ p \notin due
  /\ due' = due \cup {p}
  /\ UNCHANGED << credits, pool, packet, claimers, loop, sweep, faults >>

\* Mutant of Overdue: packets of the pool are left out.
OverdueOfUsers == {p \in due : packet[p].status = "active" /\ packet[p].source = "user"}

Overdue == {p \in due : packet[p].status = "active"}

SweepRead(s) ==
  /\ IF s = "route" THEN LoopFree ELSE sweep[s].todo = {}
  /\ Overdue # {}
  /\ sweep' = [sweep EXCEPT ![s] =
                 [todo |-> Overdue,
                  left |-> [p \in Packets |-> IF p \in Overdue THEN packet[p].left ELSE 0]]]
  /\ UNCHANGED << credits, pool, packet, claimers, due, loop, faults >>

\* Mutant of Refund: pool packets are closed without a refund.
RefundToUsers(p, amount) ==
  /\ credits' = IF packet[p].source = "user"
                THEN [credits EXCEPT ![packet[p].sender] = @ + amount] ELSE credits
  /\ UNCHANGED pool

Refund(p, amount) ==
  IF packet[p].source = "user"
  THEN credits' = [credits EXCEPT ![packet[p].sender] = @ + amount] /\ UNCHANGED pool
  ELSE pool' = pool + amount /\ UNCHANGED credits

\* The rows of a sweep without p
Dealt(rows, p) == [todo |-> rows.todo \ {p}, left |-> [rows.left EXCEPT ![p] = 0]]

\* One row of the sweep: what was left when it was read goes back to where it
\* came from, and the packet is expired, whatever happened to it meanwhile.
SweepWrite(s) ==
  \E p \in sweep[s].todo :
    /\ IF sweep[s].left[p] <= 0 THEN UNCHANGED << credits, pool >>
       ELSE Refund(p, sweep[s].left[p])
    /\ packet' = [packet EXCEPT ![p].status = "expired"]
    /\ sweep' = [sweep EXCEPT ![s] = Dealt(@, p)]
    /\ UNCHANGED << claimers, due, loop, faults >>

-----------------------------------------------------------------------------
(* Failures: a write transaction that finds the database locked raises, and    *)
(* the request or the rest of the sweep is given up; a crash takes both.       *)

RequestFails ==
  /\ loop.pc # "idle" /\ faults < MaxFaults
  /\ loop' = LoopIdle
  /\ faults' = faults + 1
  /\ UNCHANGED << credits, pool, packet, claimers, due, sweep >>

SweepFails(s) ==
  /\ sweep[s].todo # {} /\ faults < MaxFaults
  /\ sweep' = [sweep EXCEPT ![s] = SweepIdle]
  /\ faults' = faults + 1
  /\ UNCHANGED << credits, pool, packet, claimers, due, loop >>

Crash ==
  /\ faults < MaxFaults
  /\ loop' = LoopIdle
  /\ sweep' = [s \in Sweepers |-> SweepIdle]
  /\ faults' = faults + 1
  /\ UNCHANGED << credits, pool, packet, claimers, due >>

-----------------------------------------------------------------------------

PInit ==
  /\ credits = [u \in Users |-> InitCredits]
  /\ pool = InitPool
  /\ packet = [p \in Packets |-> NoPacket]
  /\ claimers = [p \in Packets |-> {}]
  /\ due = {}
  /\ loop = LoopIdle
  /\ sweep = [s \in Sweepers |-> SweepIdle]
  /\ faults = 0

PNext ==
  \/ \E u \in Users, source \in Sources, type \in PacketTypes,
        total \in Totals, count \in Counts : CreateRead(u, source, type, total, count)
  \/ \E p \in Packets : CreateWrite(p) \/ Elapse(p) \/ (\E u \in Users : ClaimRead(p, u))
  \/ ClaimWrite
  \/ \E s \in Sweepers : SweepRead(s) \/ SweepWrite(s) \/ SweepFails(s)
  \/ RequestFails
  \/ Crash

PSpec == PInit /\ [][PNext]_pvars
=============================================================================
