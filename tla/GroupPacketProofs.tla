-------------------------- MODULE GroupPacketProofs --------------------------
(***************************************************************************)
(* The books of a group's red packets, for every number of packets and     *)
(* members, every amount and every cut.                                    *)
(*                                                                         *)
(* A claim writes back a row it has read in an earlier connection, while a *)
(* sweep may have written to it.  What makes that harmless for the books   *)
(* is SeenIsCurrent: but for its status, the row in the request's hands is *)
(* the row of the table, because no sweep touches the other columns.       *)
(*                                                                         *)
(* A sweep, too, writes from what it has read: it gives back what was left *)
(* of a packet then, which claims may have drawn from since.  That it      *)
(* never gives back too little is SweptIsEnough: what is left of a packet  *)
(* only falls.                                                             *)
(***************************************************************************)
EXTENDS GroupPacketProperties, SumLemmas

-----------------------------------------------------------------------------
(* The inductive invariant *)

\* What the claims of a packet leave behind; absent packets have no claims
BooksKept ==
  \A p \in Packets :
    IF Present(p)
    THEN /\ packet[p].left + packet[p].given = packet[p].total
         /\ packet[p].left >= 0
         /\ packet[p].claimed = Cardinality(claimers[p])
         /\ packet[p].claimed <= packet[p].count
         /\ packet[p].claimed = packet[p].count => packet[p].left = 0
         /\ packet[p].type = "lucky"
              => packet[p].left >= packet[p].count - packet[p].claimed
    ELSE claimers[p] = {}

\* The claim in progress holds the current row, and its member has no share yet.
SeenIsCurrent ==
  loop.pc = "claim" =>
    /\ Present(loop.packet)
    /\ loop.seen = [packet[loop.packet] EXCEPT !.status = "active"]
    /\ loop.seen.claimed < loop.seen.count
    /\ loop.user \notin claimers[loop.packet]

\* The packet about to be created is new, and its payer can still afford it.
PayerIsGood ==
  loop.pc = "create" =>
    /\ loop.seen.status = "active" /\ loop.seen.claimed = 0 /\ loop.seen.given = 0
    /\ loop.seen.left = loop.seen.total
    /\ loop.seen.count >= 1 /\ loop.seen.total >= loop.seen.count
    /\ IF loop.seen.source = "user" THEN credits[loop.user] >= loop.seen.total
       ELSE pool >= loop.seen.total

SweptArePresent == \A s \in Sweepers : \A p \in sweep[s].todo : Present(p)

Books == PacketTypeOK /\ BooksKept /\ SeenIsCurrent /\ PayerIsGood /\ NobodyOverdrawn
           /\ SweptArePresent

-----------------------------------------------------------------------------
(* Shares *)

\* Both roundings of an average are amounts.
LEMMA NearestIsNat ==
  ASSUME NEW a \in Nat, NEW b \in Nat, b > 0
  PROVE  Nearest(a, b) \subseteq Nat
BY DEF Nearest

\* A share is a whole amount that is there, the last one is all there is, and a
\* lucky share leaves a cent for each of the others.
LEMMA SharesAreCovered ==
  ASSUME NEW k \in Packet, k.left >= 0, k.claimed < k.count,
         k.type = "lucky" => k.left >= k.count - k.claimed,
         NEW a \in Shares(k)
  PROVE  /\ a \in Int /\ 0 <= a /\ a <= k.left
         /\ k.claimed + 1 = k.count => a = k.left
         /\ k.type = "lucky" => k.left - a >= k.count - (k.claimed + 1)
<1> DEFINE waiting == k.count - k.claimed
<1>1. waiting \in Nat /\ waiting >= 1 /\ k.left \in Nat /\ k.total \in Nat /\ k.count \in Nat
      /\ k.count > 0 /\ k.claimed \in Nat
  BY DEF Packet
<1>2. CASE waiting = 1
  <2>1. a = k.left
    BY <1>2 DEF Shares
  <2> QED  BY <1>1, <1>2, <2>1
<1>3. CASE waiting # 1 /\ k.type = "normal"
  <2>1. PICK n \in Nearest(k.total, k.count) : a = AtMost(n, k.left)
    BY <1>3 DEF Shares
  <2>2. n \in Nat
    BY <1>1, <2>1, NearestIsNat
  <2>3. a \in Int /\ 0 <= a /\ a <= k.left
    BY <1>1, <2>1, <2>2 DEF AtMost
  <2> QED  BY <1>1, <1>3, <2>3
<1>4. CASE waiting # 1 /\ k.type # "normal"
  <2>1. k.type = "lucky"
    BY <1>4 DEF Packet, PacketTypes
  <2>2. PICK x \in 1 .. Rounded(2 * k.left - waiting, waiting) :
          a = AtMost(x, k.left - (waiting - 1))
    BY <1>4 DEF Shares
  <2>3. x \in Nat /\ x >= 1
    OBVIOUS
  <2>4. k.left >= waiting
    BY <2>1
  <2>5. a \in Int /\ 1 <= a /\ a <= k.left - (waiting - 1)
    BY <1>1, <2>2, <2>3, <2>4 DEF AtMost
  <2> QED  BY <1>1, <1>4, <2>1, <2>5
<1> QED  BY <1>2, <1>3, <1>4

-----------------------------------------------------------------------------
(* Initially *)

LEMMA IdleLoop == LoopIdle \in Loop /\ LoopIdle.pc = "idle"
<1>1. SomePacket \in Packets
  BY GroupAssumption DEF SomePacket
<1>2. NoPacket \in Packet
  BY GroupAssumption DEF NoPacket, NewPacket, Packet, Sources, PacketTypes
<1> QED  BY <1>1, <1>2, GroupAssumption DEF LoopIdle, Loop

LEMMA IdleSweep == SweepIdle \in Sweep /\ SweepIdle.todo = {}
BY DEF SweepIdle, Sweep

LEMMA BooksOpen == PInit => Books
<1> SUFFICES ASSUME PInit PROVE Books
  OBVIOUS
<1> USE DEF PInit
<1>1. NoPacket \in Packet /\ NoPacket.status = "absent"
  BY GroupAssumption DEF NoPacket, NewPacket, Packet, Sources, PacketTypes
<1>2. PacketTypeOK
  BY <1>1, IdleLoop, IdleSweep, GroupAssumption DEF PacketTypeOK
<1>3. BooksKept
  BY <1>1 DEF BooksKept, Present
<1>4. SeenIsCurrent /\ PayerIsGood
  BY IdleLoop DEF SeenIsCurrent, PayerIsGood
<1>5. NobodyOverdrawn
  BY GroupAssumption DEF NobodyOverdrawn
<1>6. SweptArePresent
  BY IdleSweep DEF SweptArePresent
<1> QED  BY <1>2, <1>3, <1>4, <1>5, <1>6 DEF Books

-----------------------------------------------------------------------------
(* A packet is created *)

LEMMA BooksCreateRead ==
  ASSUME Books, NEW u \in Users, NEW source \in Sources, NEW type \in PacketTypes,
         NEW total \in Totals, NEW count \in Counts,
         CreateRead(u, source, type, total, count)
  PROVE  Books'
<1> USE DEF CreateRead
<1> DEFINE new == NewPacket(u, source, type, total, count)
<1>1. new \in Packet
  BY GroupAssumption DEF NewPacket, Packet
<1>2. loop' \in Loop /\ loop'.pc = "create" /\ loop'.user = u /\ loop'.seen = new
  BY <1>1, IdleLoop DEF Loop
<1>3. PacketTypeOK'
  BY <1>2 DEF Books, PacketTypeOK
<1>4. BooksKept' /\ NobodyOverdrawn' /\ SweptArePresent'
  BY DEF Books, BooksKept, NobodyOverdrawn, SweptArePresent, Present
<1>5. SeenIsCurrent'
  BY <1>2 DEF SeenIsCurrent
<1>6. PayerIsGood'
  BY <1>2 DEF PayerIsGood, NewPacket, Affordable
<1> QED  BY <1>3, <1>4, <1>5, <1>6 DEF Books

LEMMA BooksCreateWrite ==
  ASSUME Books, NEW p \in Packets, CreateWrite(p)
  PROVE  Books'
<1> USE DEF CreateWrite
<1>1. /\ loop.seen \in Packet /\ loop.user \in Users /\ loop.seen.status = "active"
      /\ loop.seen.claimed = 0 /\ loop.seen.given = 0 /\ loop.seen.left = loop.seen.total
      /\ loop.seen.count \in Nat /\ loop.seen.count >= 1 /\ loop.seen.total \in Nat
      /\ loop.seen.total >= loop.seen.count
  BY DEF Books, PayerIsGood, PacketTypeOK, Loop, Packet
<1>2. packet'[p] = loop.seen /\ \A x \in Packets \ {p} : packet'[x] = packet[x]
  BY DEF Books, PacketTypeOK
<1>3. credits \in [Users -> Int] /\ pool \in Int /\ ~Present(p)
  BY DEF Books, PacketTypeOK, IsNextPacket
<1>4. credits' \in [Users -> Int] /\ pool' \in Int
  BY <1>1, <1>3
<1>5. PacketTypeOK'
  BY <1>1, <1>4, IdleLoop DEF Books, PacketTypeOK
<1>6. NobodyOverdrawn'
  BY <1>1, <1>3 DEF Books, NobodyOverdrawn, PayerIsGood
<1>7. BooksKept'
  <2> SUFFICES ASSUME NEW x \in Packets
               PROVE  BooksKept!(x)'
    BY DEF BooksKept
  <2>1. CASE x = p
    <3>1. claimers[p] = {} /\ claimers' = claimers
      BY <1>3 DEF Books, BooksKept
    <3>2. Cardinality({}) = 0
      BY FS_EmptySet
    <3> QED  BY <1>1, <1>2, <2>1, <3>1, <3>2 DEF Present
  <2>2. CASE x # p
    BY <1>2, <2>2 DEF Books, BooksKept, Present
  <2> QED  BY <2>1, <2>2
<1>8. SeenIsCurrent' /\ PayerIsGood'
  BY IdleLoop DEF SeenIsCurrent, PayerIsGood
<1>9. SweptArePresent'
  BY <1>1, <1>2 DEF Books, SweptArePresent, Present, PacketTypeOK, Sweep
<1> QED  BY <1>5, <1>6, <1>7, <1>8, <1>9 DEF Books

-----------------------------------------------------------------------------
(* A share is drawn *)

LEMMA BooksClaimRead ==
  ASSUME Books, NEW p \in Packets, NEW u \in Users, ClaimRead(p, u)
  PROVE  Books'
<1> USE DEF ClaimRead
<1>1. packet[p] \in Packet
  BY DEF Books, PacketTypeOK
<1>2. PacketTypeOK'
  BY <1>1 DEF Books, PacketTypeOK, Loop
<1>3. BooksKept' /\ NobodyOverdrawn' /\ SweptArePresent'
  BY DEF Books, BooksKept, NobodyOverdrawn, SweptArePresent, Present
<1>4. packet[p] = [packet[p] EXCEPT !.status = "active"]
  BY <1>1 DEF Claimable, Packet
<1>5. SeenIsCurrent'
  BY <1>4 DEF SeenIsCurrent, Claimable, Present
<1>6. PayerIsGood'
  BY DEF PayerIsGood
<1> QED  BY <1>2, <1>3, <1>5, <1>6 DEF Books

LEMMA BooksClaimWrite ==
  ASSUME Books, ClaimWrite
  PROVE  Books'
<1>0. PICK p \in Packets, k \in Packet : p = loop.packet /\ k = loop.seen
  BY DEF Books, PacketTypeOK, Loop
<1>1. PICK a \in Shares(k) :
        /\ credits' = [credits EXCEPT ![loop.user] = @ + a]
        /\ packet' = [packet EXCEPT ![p] = Claimed(k, a)]
  BY <1>0 DEF ClaimWrite
<1>2. /\ loop.user \in Users /\ packet[p] \in Packet
      /\ k = [packet[p] EXCEPT !.status = "active"] /\ Present(p)
      /\ k.claimed < k.count /\ loop.user \notin claimers[p]
  BY <1>0 DEF ClaimWrite, Books, PacketTypeOK, SeenIsCurrent, Loop
<1>3. /\ k.left = packet[p].left /\ k.given = packet[p].given /\ k.total = packet[p].total
      /\ k.claimed = packet[p].claimed /\ k.count = packet[p].count
      /\ k.type = packet[p].type
  BY <1>2 DEF Packet
<1>4. /\ k.left + k.given = k.total /\ k.left >= 0
      /\ k.claimed = Cardinality(claimers[p])
      /\ k.type = "lucky" => k.left >= k.count - k.claimed
  BY <1>2, <1>3 DEF Books, BooksKept
<1>5. /\ a \in Int /\ 0 <= a /\ a <= k.left
      /\ k.claimed + 1 = k.count => a = k.left
      /\ k.type = "lucky" => k.left - a >= k.count - (k.claimed + 1)
  BY <1>2, <1>4, SharesAreCovered
<1>6. /\ Claimed(k, a) \in Packet /\ Claimed(k, a).status \in {"active", "empty"}
      /\ Claimed(k, a).left = k.left - a /\ Claimed(k, a).given = k.given + a
      /\ Claimed(k, a).claimed = k.claimed + 1
      /\ Claimed(k, a).total = k.total /\ Claimed(k, a).count = k.count
      /\ Claimed(k, a).type = k.type
  <2>1. /\ k.claimed \in Nat /\ k.left \in Int /\ k.given \in Int
        /\ k.claimed + 1 \in Nat /\ k.left - a \in Int /\ k.given + a \in Int
    BY <1>5 DEF Packet
  <2>2. PICK status \in {"active", "empty"} :
          Claimed(k, a) = [k EXCEPT !.claimed = @ + 1, !.left = @ - a, !.given = @ + a,
                                    !.status = status]
    BY DEF Claimed
  <2> QED  BY <2>1, <2>2 DEF Packet
<1>7. packet'[p] = Claimed(k, a) /\ \A x \in Packets \ {p} : packet'[x] = packet[x]
  BY <1>1, <1>2 DEF Books, PacketTypeOK
<1>8. /\ claimers'[p] = claimers[p] \cup {loop.user}
      /\ \A x \in Packets \ {p} : claimers'[x] = claimers[x]
  BY <1>0, <1>2 DEF ClaimWrite, Books, PacketTypeOK
<1>9. PacketTypeOK'
  BY <1>0, <1>1, <1>2, <1>5, <1>6, IdleLoop DEF ClaimWrite, Books, PacketTypeOK
<1>10. NobodyOverdrawn'
  BY <1>1, <1>2, <1>5 DEF ClaimWrite, Books, PacketTypeOK, NobodyOverdrawn
<1>11. BooksKept'
  <2> SUFFICES ASSUME NEW x \in Packets
               PROVE  BooksKept!(x)'
    BY DEF BooksKept
  <2>1. CASE x = p
    <3>1. IsFiniteSet(claimers[p])
      BY <1>2, GroupAssumption, FS_Subset DEF Books, PacketTypeOK
    <3>2. Cardinality(claimers'[p]) = Cardinality(claimers[p]) + 1
      <4>1. Cardinality(claimers[p] \cup {loop.user}) = Cardinality(claimers[p]) + 1
        BY <1>2, <3>1, FS_AddElement
      <4> QED  BY <1>8, <4>1
    <3>3. k.claimed \in Nat /\ k.count \in Nat /\ k.left \in Int /\ k.given \in Int
      BY <1>2 DEF Packet
    <3>4. Present(p)' /\ packet'[p].claimed = Cardinality(claimers'[p])
      BY <1>4, <1>6, <1>7, <3>2 DEF Present
    <3> QED  BY <1>2, <1>4, <1>5, <1>6, <1>7, <2>1, <3>3, <3>4
  <2>2. CASE x # p
    BY <1>7, <1>8, <2>2 DEF Books, BooksKept, Present
  <2> QED  BY <2>1, <2>2
<1>12. SeenIsCurrent' /\ PayerIsGood'
  BY IdleLoop DEF ClaimWrite, SeenIsCurrent, PayerIsGood
<1>13. SweptArePresent'
  BY <1>6, <1>7 DEF ClaimWrite, Books, SweptArePresent, Present, PacketTypeOK, Sweep
<1> QED  BY <1>9, <1>10, <1>11, <1>12, <1>13 DEF Books

-----------------------------------------------------------------------------
(* Deadlines, sweeps and failures *)

LEMMA BooksElapse ==
  ASSUME Books, NEW p \in Packets, Elapse(p)
  PROVE  Books'
BY DEF Elapse, Books, PacketTypeOK, BooksKept, SeenIsCurrent, PayerIsGood,
       NobodyOverdrawn, SweptArePresent, Present

LEMMA BooksSweepRead ==
  ASSUME Books, NEW s \in Sweepers, SweepRead(s)
  PROVE  Books'
<1> DEFINE read == [todo |-> Overdue,
                    left |-> [p \in Packets |-> IF p \in Overdue THEN packet[p].left ELSE 0]]
<1>1. sweep' = [sweep EXCEPT ![s] = read]
  BY DEF SweepRead
<1>2. Overdue \subseteq Packets /\ \A p \in Overdue : Present(p)
  BY DEF Books, PacketTypeOK, Overdue, Present
<1>3. read \in Sweep
  BY <1>2 DEF Books, PacketTypeOK, Packet, Sweep
<1>4. PacketTypeOK'
  BY <1>1, <1>3 DEF SweepRead, Books, PacketTypeOK
<1>5. SweptArePresent'
  BY <1>1, <1>2 DEF SweepRead, Books, PacketTypeOK, SweptArePresent, Present
<1>6. BooksKept' /\ SeenIsCurrent' /\ PayerIsGood' /\ NobodyOverdrawn'
  BY DEF SweepRead, Books, BooksKept, SeenIsCurrent, PayerIsGood, NobodyOverdrawn, Present
<1> QED  BY <1>4, <1>5, <1>6 DEF Books

LEMMA BooksSweepWrite ==
  ASSUME Books, NEW s \in Sweepers, SweepWrite(s)
  PROVE  Books'
<1>1. PICK p \in sweep[s].todo :
        /\ IF sweep[s].left[p] <= 0 THEN UNCHANGED << credits, pool >>
           ELSE Refund(p, sweep[s].left[p])
        /\ packet' = [packet EXCEPT ![p].status = "expired"]
        /\ sweep' = [sweep EXCEPT ![s] = Dealt(@, p)]
        /\ UNCHANGED << claimers, due, loop, faults >>
  BY DEF SweepWrite
<1>2. /\ sweep[s] \in Sweep /\ p \in Packets /\ Present(p) /\ packet[p] \in Packet
      /\ sweep[s].left[p] \in Int
  BY DEF Books, PacketTypeOK, SweptArePresent, Sweep
<1>3. packet' \in [Packets -> Packet]
  BY <1>1, <1>2 DEF Books, PacketTypeOK, Packet
<1>4. sweep' \in [Sweepers -> Sweep]
  <2>1. Dealt(sweep[s], p) \in Sweep
    BY <1>2 DEF Sweep, Dealt
  <2> QED  BY <1>1, <2>1 DEF Books, PacketTypeOK
<1>5. /\ credits \in [Users -> Int] /\ pool \in Int
      /\ credits' \in [Users -> Int] /\ pool' \in Int
      /\ pool' >= pool /\ \A u \in Users : credits'[u] >= credits[u]
  <2>1. credits \in [Users -> Int] /\ pool \in Int
    BY DEF Books, PacketTypeOK
  <2>2. CASE sweep[s].left[p] <= 0
    BY <1>1, <2>1, <2>2
  <2>3. CASE sweep[s].left[p] > 0
    <3>1. Refund(p, sweep[s].left[p])
      BY <1>1, <1>2, <2>3
    <3> QED  BY <1>2, <2>1, <2>3, <3>1 DEF Refund, Packet
  <2> QED  BY <1>2, <2>2, <2>3
<1>6. PacketTypeOK'
  BY <1>1, <1>3, <1>4, <1>5 DEF Books, PacketTypeOK
<1>7. NobodyOverdrawn'
  BY <1>5 DEF Books, NobodyOverdrawn
<1>8. \A x \in Packets :
        /\ packet'[x].left = packet[x].left /\ packet'[x].given = packet[x].given
        /\ packet'[x].total = packet[x].total /\ packet'[x].count = packet[x].count
        /\ packet'[x].claimed = packet[x].claimed /\ packet'[x].type = packet[x].type
        /\ Present(x)' <=> Present(x)
  BY <1>1, <1>2 DEF Books, PacketTypeOK, Present, Packet
<1>9. BooksKept'
  BY <1>1, <1>8 DEF Books, BooksKept
<1>10. SeenIsCurrent'
  <2> SUFFICES ASSUME loop.pc = "claim" PROVE SeenIsCurrent'
    BY <1>1 DEF SeenIsCurrent
  <2>1. loop.packet \in Packets /\ packet[loop.packet] \in Packet
    BY DEF Books, PacketTypeOK, Loop
  <2>2. [packet'[loop.packet] EXCEPT !.status = "active"]
          = [packet[loop.packet] EXCEPT !.status = "active"]
    BY <1>1, <1>2, <2>1 DEF Books, PacketTypeOK, Packet
  <2> QED  BY <1>1, <1>8, <2>1, <2>2 DEF Books, SeenIsCurrent
<1>11. PayerIsGood'
  <2> SUFFICES ASSUME loop.pc = "create" PROVE PayerIsGood'
    BY <1>1 DEF PayerIsGood
  <2>1. loop.user \in Users /\ loop.seen.total \in Int
    BY DEF Books, PacketTypeOK, Loop, Packet
  <2> QED  BY <1>1, <1>5, <2>1 DEF Books, PayerIsGood
<1>12. SweptArePresent'
  BY <1>1, <1>2, <1>8 DEF Books, PacketTypeOK, SweptArePresent, Sweep, Dealt
<1> QED  BY <1>6, <1>7, <1>9, <1>10, <1>11, <1>12 DEF Books

LEMMA BooksFailure ==
  ASSUME Books, RequestFails \/ Crash \/ \E s \in Sweepers : SweepFails(s)
  PROVE  Books'
<1>1. loop' \in {loop, LoopIdle} /\ \A s \in Sweepers : sweep'[s] \in {sweep[s], SweepIdle}
  BY DEF RequestFails, Crash, SweepFails, Books, PacketTypeOK
<1>2. sweep' \in [Sweepers -> Sweep] /\ faults' \in Nat
  BY IdleSweep DEF RequestFails, Crash, SweepFails, Books, PacketTypeOK
<1>3. UNCHANGED << credits, pool, packet, claimers, due >>
  BY DEF RequestFails, Crash, SweepFails
<1>4. PacketTypeOK'
  BY <1>1, <1>2, <1>3, IdleLoop DEF Books, PacketTypeOK
<1>5. BooksKept' /\ NobodyOverdrawn'
  BY <1>3 DEF Books, BooksKept, NobodyOverdrawn, Present
<1>6. SeenIsCurrent' /\ PayerIsGood'
  BY <1>1, <1>3, IdleLoop DEF Books, SeenIsCurrent, PayerIsGood, Present
<1>7. SweptArePresent'
  BY <1>1, <1>3, IdleSweep DEF Books, SweptArePresent, Present
<1> QED  BY <1>4, <1>5, <1>6, <1>7 DEF Books

-----------------------------------------------------------------------------
(* The theorems *)

LEMMA BooksStep == Books /\ [PNext]_pvars => Books'
<1> SUFFICES ASSUME Books, [PNext]_pvars PROVE Books'
  OBVIOUS
<1>1. CASE UNCHANGED pvars
  BY <1>1 DEF pvars, Books, PacketTypeOK, BooksKept, SeenIsCurrent, PayerIsGood,
              NobodyOverdrawn, SweptArePresent, Present
<1>2. ASSUME NEW u \in Users, NEW source \in Sources, NEW type \in PacketTypes,
             NEW total \in Totals, NEW count \in Counts,
             CreateRead(u, source, type, total, count)
      PROVE  Books'
  BY <1>2, BooksCreateRead
<1>3. ASSUME NEW p \in Packets, CreateWrite(p) PROVE Books'
  BY <1>3, BooksCreateWrite
<1>4. ASSUME NEW p \in Packets, Elapse(p) PROVE Books'
  BY <1>4, BooksElapse
<1>5. ASSUME NEW p \in Packets, NEW u \in Users, ClaimRead(p, u) PROVE Books'
  BY <1>5, BooksClaimRead
<1>6. CASE ClaimWrite
  BY <1>6, BooksClaimWrite
<1>7. ASSUME NEW s \in Sweepers, SweepRead(s) PROVE Books'
  BY <1>7, BooksSweepRead
<1>8. ASSUME NEW s \in Sweepers, SweepWrite(s) PROVE Books'
  BY <1>8, BooksSweepWrite
<1>9. CASE RequestFails \/ Crash \/ \E s \in Sweepers : SweepFails(s)
  BY <1>9, BooksFailure
<1> QED  BY <1>1, <1>2, <1>3, <1>4, <1>5, <1>6, <1>7, <1>8, <1>9 DEF PNext

\* The inductive invariant holds in every state.
THEOREM BooksHold == PSpec => []Books
<1>1. PInit => Books
  BY BooksOpen
<1>2. Books /\ [PNext]_pvars => Books'
  BY BooksStep
<1> QED  BY <1>1, <1>2, PTL DEF PSpec

\* Whatever claims, sweeps, failing writes and crashes do to each other, the row of
\* a packet and the shares it paid add up to its total (claim_packet).
THEOREM PacketsAddUp == PSpec => []PacketAdds
<1>1. Books => PacketAdds
  BY DEF Books, BooksKept, PacketAdds
<1> QED  BY <1>1, BooksHold, PTL

\* A member draws at most one share of a packet, and the last share is the rest.
THEOREM SharesAreDrawnOnce == PSpec => []OneShareEach
<1>1. Books => OneShareEach
  BY DEF Books, BooksKept, OneShareEach
<1> QED  BY <1>1, BooksHold, PTL

\* A lucky packet always has a cent for every share still to be drawn.
THEOREM NobodyEmptyHanded == PSpec => []SharesLeft
<1>1. Books => SharesLeft
  BY DEF Books, BooksKept, SharesLeft, Present
<1> QED  BY <1>1, BooksHold, PTL

\* No account goes below zero: what create_packet debits is what it has checked,
\* for a sweep of another thread only ever adds.
THEOREM AccountsStaySolvent == PSpec => []NobodyOverdrawn
<1>1. Books => NobodyOverdrawn
  BY DEF Books
<1> QED  BY <1>1, BooksHold, PTL

-----------------------------------------------------------------------------
(* The money as a whole *)

\* What a sweep is going to give back covers what is left of the packet.
SweptIsEnough ==
  \A s \in Sweepers : \A p \in sweep[s].todo : packet[p].left <= sweep[s].left[p]

\* The three sums are whole amounts.
LEMMA MoneyType ==
  ASSUME Books
  PROVE  /\ \A p \in Packets : Held[p] \in Int
         /\ SumFunctionOnSet(credits, Users) \in Int /\ pool \in Int
         /\ SumFunctionOnSet(Held, Packets) \in Int
<1>1. \A p \in Packets : Held[p] \in Int
  BY DEF Books, PacketTypeOK, Packet, Held
<1>2. \A u \in Users : credits[u] \in Int
  BY DEF Books, PacketTypeOK
<1>3. pool \in Int
  BY DEF Books, PacketTypeOK
<1> QED  BY <1>1, <1>2, <1>3, SumType, GroupAssumption

\* So they are after a step.
LEMMA MoneyTypeLater ==
  ASSUME Books'
  PROVE  /\ SumFunctionOnSet(credits', Users) \in Int /\ pool' \in Int
         /\ SumFunctionOnSet(Held', Packets) \in Int
<1>1. \A p \in Packets : Held'[p] \in Int
  BY DEF Books, PacketTypeOK, Packet, Held
<1>2. \A u \in Users : credits'[u] \in Int
  BY DEF Books, PacketTypeOK
<1>3. pool' \in Int
  BY DEF Books, PacketTypeOK
<1> QED  BY <1>1, <1>2, <1>3, SumType, GroupAssumption

\* One account changes.
LEMMA CreditsChange ==
  ASSUME Books, Books', NEW u \in Users, NEW a \in Int, credits' = [credits EXCEPT ![u] = @ + a]
  PROVE  SumFunctionOnSet(credits', Users) = SumFunctionOnSet(credits, Users) + a
<1>1. \A x \in Users : credits[x] \in Int /\ credits'[x] \in Int
  BY DEF Books, PacketTypeOK
<1>2. credits'[u] = credits[u] + a /\ \A x \in Users : x # u => credits'[x] = credits[x]
  BY DEF Books, PacketTypeOK
<1>3. SumFunctionOnSet(credits', Users)
        = SumFunctionOnSet(credits, Users) + credits'[u] - credits[u]
  <2>1. IsFiniteSet(Users)
    BY GroupAssumption
  <2>2. \A x \in Users : credits[x] \in Int /\ credits'[x] \in Int
    BY <1>1
  <2>3. \A x \in Users : x # u => credits'[x] = credits[x]
    BY <1>2
  <2> QED  BY ONLY <2>1, <2>2, <2>3, SumChangesBy, u \in Users
<1> QED  BY <1>1, <1>2, <1>3, MoneyType

\* One packet changes.
LEMMA HeldChanges ==
  ASSUME Books, Books', NEW p \in Packets, \A x \in Packets \ {p} : packet'[x] = packet[x]
  PROVE  SumFunctionOnSet(Held', Packets) = SumFunctionOnSet(Held, Packets) + Held'[p] - Held[p]
<1>1. \A x \in Packets : Held[x] \in Int /\ Held'[x] \in Int
  BY DEF Books, PacketTypeOK, Packet, Held
<1>2. \A x \in Packets : x # p => Held'[x] = Held[x]
  BY DEF Held
<1>3. IsFiniteSet(Packets)
  BY GroupAssumption
<1> QED  BY <1>1, <1>2, <1>3, SumChangesBy

LEMMA MoneyAtFirst == PInit => NothingVanishes /\ SweptIsEnough
<1> SUFFICES ASSUME PInit PROVE NothingVanishes /\ SweptIsEnough
  OBVIOUS
<1>1. \A u \in Users : credits[u] = InitCredits
  BY DEF PInit
<1>2. SumFunctionOnSet(credits, Users) = Cardinality(Users) * InitCredits
  <2>1. InitCredits \in Int
    BY GroupAssumption
  <2> QED  BY <1>1, <2>1, SumOfConstant, GroupAssumption
<1>3. \A p \in Packets : Held[p] = 0
  BY DEF PInit, Held, NoPacket, NewPacket
<1>4. SumFunctionOnSet(Held, Packets) = 0
  <2>1. 0 \in Int /\ IsFiniteSet(Packets)
    BY GroupAssumption
  <2>2. SumFunctionOnSet(Held, Packets) = Cardinality(Packets) * 0
    BY <1>3, <2>1, SumOfConstant
  <2> QED  BY <2>1, <2>2, FS_CardinalityType
<1>5. NothingVanishes
  <2>1. pool = InitPool /\ InitPool \in Int
    BY GroupAssumption DEF PInit
  <2>2. Cardinality(Users) * InitCredits \in Int
    BY GroupAssumption, FS_CardinalityType
  <2> QED  BY <1>2, <1>4, <2>1, <2>2 DEF NothingVanishes, Money, InitMoney
<1>6. SweptIsEnough
  BY IdleSweep DEF PInit, SweptIsEnough
<1> QED  BY <1>5, <1>6

\* What a packet gets, its payer gives.
LEMMA MoneyCreateWrite ==
  ASSUME Books, Books', SweptIsEnough, NEW p \in Packets, CreateWrite(p)
  PROVE  Money' = Money /\ SweptIsEnough'
<1> DEFINE x == loop.seen.total
<1>1. /\ x \in Int /\ loop.user \in Users /\ loop.seen.status = "active" /\ loop.seen.left = x
      /\ -x \in Int
  BY DEF CreateWrite, Books, PacketTypeOK, PayerIsGood, Loop, Packet
<1>2. packet'[p] = loop.seen /\ (\A q \in Packets \ {p} : packet'[q] = packet[q]) /\ ~Present(p)
  BY DEF CreateWrite, IsNextPacket, Books, PacketTypeOK
<1>3. Held[p] = 0 /\ Held'[p] = x
  BY <1>1, <1>2 DEF Held, Present
<1>4. SumFunctionOnSet(Held', Packets) = SumFunctionOnSet(Held, Packets) + x
  BY <1>1, <1>2, <1>3, HeldChanges, MoneyType
<1>5. SumFunctionOnSet(credits', Users) + pool' = SumFunctionOnSet(credits, Users) + pool - x
  <2>1. CASE loop.seen.source = "user"
    <3>1. credits' = [credits EXCEPT ![loop.user] = @ + (-x)] /\ pool' = pool
      BY <1>1, <2>1 DEF CreateWrite, Books, PacketTypeOK
    <3> HIDE DEF x
    <3>2. SumFunctionOnSet(credits', Users) = SumFunctionOnSet(credits, Users) + (-x)
      BY <1>1, <3>1, CreditsChange
    <3> QED  BY <1>1, <3>1, <3>2, MoneyType
  <2>2. CASE loop.seen.source # "user"
    BY <1>1, <2>2, MoneyType DEF CreateWrite
  <2> QED  BY <2>1, <2>2
<1>6. Money' = Money
  <2> HIDE DEF x
  <2>1. SumFunctionOnSet(credits', Users) \in Int /\ pool' \in Int
    BY MoneyTypeLater
  <2> QED  BY <1>1, <1>4, <1>5, <2>1, MoneyType DEF Money
<1>7. SweptIsEnough'
  BY <1>2 DEF CreateWrite, Books, PacketTypeOK, Sweep, SweptArePresent, SweptIsEnough
<1> QED  BY <1>6, <1>7

\* A share leaves its packet for the member who draws it.  When a sweep has closed the packet
\* meanwhile, the share is paid a second time, and what is left is held a second time.
LEMMA MoneyClaimWrite ==
  ASSUME Books, Books', SweptIsEnough, ClaimWrite
  PROVE  Money' >= Money /\ SweptIsEnough'
<1>1. PICK p \in Packets, k \in Packet : p = loop.packet /\ k = loop.seen
  BY DEF Books, PacketTypeOK, Loop
<1>2. PICK a \in Shares(k) :
        /\ credits' = [credits EXCEPT ![loop.user] = @ + a]
        /\ packet' = [packet EXCEPT ![p] = Claimed(k, a)]
  BY <1>1 DEF ClaimWrite
<1>3. /\ loop.user \in Users /\ Present(p) /\ packet[p] \in Packet
      /\ k = [packet[p] EXCEPT !.status = "active"] /\ k.claimed < k.count
  BY <1>1 DEF ClaimWrite, Books, PacketTypeOK, SeenIsCurrent, Loop
<1>4. /\ k.left = packet[p].left /\ k.left >= 0 /\ k.left \in Int
      /\ k.type = "lucky" => k.left >= k.count - k.claimed
  BY <1>3 DEF Packet, Books, BooksKept
<1>5. /\ a \in Int /\ 0 <= a /\ a <= k.left
      /\ k.claimed + 1 = k.count => a = k.left
  BY <1>3, <1>4, SharesAreCovered
<1>6. /\ Claimed(k, a).left = k.left - a
      /\ Claimed(k, a).status = IF k.claimed + 1 >= k.count THEN "empty" ELSE "active"
  BY DEF Claimed, Packet
<1>7. packet'[p] = Claimed(k, a) /\ \A x \in Packets \ {p} : packet'[x] = packet[x]
  BY <1>2 DEF Books, PacketTypeOK
<1>8. Held'[p] = IF k.claimed + 1 >= k.count THEN 0 ELSE k.left - a
  BY <1>6, <1>7 DEF Held
<1>9. Held'[p] = k.left - a
  <2>1. k.claimed + 1 >= k.count => k.claimed + 1 = k.count
    BY <1>3 DEF Packet
  <2> QED  BY <1>4, <1>5, <1>8, <2>1
<1>10. Held[p] <= k.left /\ Held[p] \in Int
  BY <1>3, <1>4 DEF Held
<1>11. SumFunctionOnSet(Held', Packets) = SumFunctionOnSet(Held, Packets) + Held'[p] - Held[p]
  BY <1>7, HeldChanges
<1>12. SumFunctionOnSet(credits', Users) = SumFunctionOnSet(credits, Users) + a
  BY <1>2, <1>3, <1>5, CreditsChange
<1>13. pool' = pool
  BY DEF ClaimWrite
<1>14. Money' >= Money
  BY <1>4, <1>5, <1>9, <1>10, <1>11, <1>12, <1>13, MoneyType DEF Money
<1>15. SweptIsEnough'
  <2> SUFFICES ASSUME NEW s \in Sweepers, NEW x \in sweep[s].todo
               PROVE  packet'[x].left <= sweep[s].left[x]
    BY DEF ClaimWrite, SweptIsEnough
  <2>1. x \in Packets /\ sweep[s].left[x] \in Int /\ packet[x].left <= sweep[s].left[x]
    BY DEF Books, PacketTypeOK, Sweep, SweptIsEnough
  <2> QED  BY <1>4, <1>5, <1>6, <1>7, <2>1
<1> QED  BY <1>14, <1>15

\* A sweep gives back at least what is left of a packet.
LEMMA MoneySweepWrite ==
  ASSUME Books, Books', SweptIsEnough, NEW s \in Sweepers, SweepWrite(s)
  PROVE  Money' >= Money /\ SweptIsEnough'
<1>1. PICK p \in sweep[s].todo :
        /\ IF sweep[s].left[p] <= 0 THEN UNCHANGED << credits, pool >>
           ELSE Refund(p, sweep[s].left[p])
        /\ packet' = [packet EXCEPT ![p].status = "expired"]
        /\ sweep' = [sweep EXCEPT ![s] = Dealt(@, p)]
  BY DEF SweepWrite
<1> DEFINE x == sweep[s].left[p]
<1>2. /\ sweep[s] \in Sweep /\ p \in Packets /\ Present(p) /\ packet[p] \in Packet /\ x \in Int
      /\ packet[p].left \in Int /\ packet[p].left <= x /\ packet[p].left >= 0
  BY DEF Books, PacketTypeOK, SweptArePresent, Sweep, SweptIsEnough, Packet, BooksKept
<1>3. /\ packet'[p].status = "expired" /\ packet'[p].left = packet[p].left
      /\ \A q \in Packets \ {p} : packet'[q] = packet[q]
  BY <1>1, <1>2 DEF Books, PacketTypeOK, Packet
<1>4. Held'[p] = 0 /\ Held[p] <= x /\ Held[p] \in Int
  BY <1>2, <1>3 DEF Held
<1>5. SumFunctionOnSet(Held', Packets) = SumFunctionOnSet(Held, Packets) - Held[p]
  <2>1. SumFunctionOnSet(Held', Packets)
          = SumFunctionOnSet(Held, Packets) + Held'[p] - Held[p]
    BY <1>2, <1>3, HeldChanges
  <2> QED  BY <1>4, <2>1, MoneyType
<1>6. SumFunctionOnSet(credits', Users) + pool' = SumFunctionOnSet(credits, Users) + pool + x
  <2>1. CASE x <= 0
    <3>1. x = 0
      BY <1>2, <2>1
    <3>2. credits' = credits /\ pool' = pool
      BY <1>1, <2>1
    <3> QED  BY <3>1, <3>2, MoneyType
  <2>2. CASE ~(x <= 0) /\ packet[p].source = "user"
    <3>1. credits' = [credits EXCEPT ![packet[p].sender] = @ + x] /\ pool' = pool
      BY <1>1, <2>2 DEF Refund
    <3>2. packet[p].sender \in Users
      BY <1>2 DEF Packet
    <3> HIDE DEF x
    <3>3. SumFunctionOnSet(credits', Users) = SumFunctionOnSet(credits, Users) + x
      BY <1>2, <3>1, <3>2, CreditsChange
    <3> QED  BY <1>2, <3>1, <3>3, MoneyType
  <2>3. CASE ~(x <= 0) /\ packet[p].source # "user"
    <3>1. credits' = credits /\ pool' = pool + x
      BY <1>1, <2>3 DEF Refund
    <3> QED  BY <1>2, <3>1, MoneyType
  <2> QED  BY <2>1, <2>2, <2>3
<1>7. Money' >= Money
  <2> HIDE DEF x
  <2>1. SumFunctionOnSet(credits', Users) \in Int /\ pool' \in Int
    BY MoneyTypeLater
  <2> QED  BY <1>2, <1>4, <1>5, <1>6, <2>1, MoneyType DEF Money
<1>8. SweptIsEnough'
  <2> SUFFICES ASSUME NEW r \in Sweepers, NEW q \in sweep'[r].todo
               PROVE  packet'[q].left <= sweep'[r].left[q]
    BY DEF SweptIsEnough
  <2>1. r = s => q \in sweep[r].todo /\ q # p /\ sweep'[r].left[q] = sweep[r].left[q]
    BY <1>1, <1>2 DEF Books, PacketTypeOK, Dealt, Sweep
  <2>2. r # s => q \in sweep[r].todo /\ sweep'[r].left[q] = sweep[r].left[q]
    BY <1>1 DEF Books, PacketTypeOK
  <2>3. q \in Packets
    BY <2>1, <2>2 DEF Books, PacketTypeOK, Sweep
  <2> QED  BY <1>3, <2>1, <2>2, <2>3 DEF SweptIsEnough
<1> QED  BY <1>7, <1>8

\* A sweep reads what is left.
LEMMA MoneySweepRead ==
  ASSUME Books, SweptIsEnough, NEW s \in Sweepers, SweepRead(s)
  PROVE  SweptIsEnough'
<1>1. Overdue \subseteq Packets
  BY DEF Books, PacketTypeOK, Overdue
<1>2. \A p \in Packets : packet[p].left \in Int
  BY DEF Books, PacketTypeOK, Packet
<1> SUFFICES ASSUME NEW r \in Sweepers, NEW q \in sweep'[r].todo
             PROVE  packet'[q].left <= sweep'[r].left[q]
  BY DEF SweptIsEnough
<1>3. packet' = packet
  BY DEF SweepRead
<1>4. CASE r = s
  <2>1. q \in Overdue /\ sweep'[r].left[q] = packet[q].left
    BY <1>1, <1>4 DEF SweepRead, Books, PacketTypeOK
  <2> QED  BY <1>1, <1>2, <1>3, <2>1
<1>5. CASE r # s
  BY <1>3, <1>5 DEF SweepRead, Books, PacketTypeOK, SweptIsEnough
<1> QED  BY <1>4, <1>5

\* No other step moves money.
LEMMA MoneyStep ==
  ASSUME Books, Books', SweptIsEnough, NothingVanishes, [PNext]_pvars
  PROVE  SweptIsEnough' /\ NothingVanishes'
<1>1. Money \in Int /\ InitMoney \in Int
  BY MoneyType, GroupAssumption, FS_CardinalityType DEF Money, InitMoney
<1>2. CASE UNCHANGED << credits, pool, packet >> /\ SweptIsEnough'
  BY <1>2 DEF NothingVanishes, Money, Held
<1>3. CASE Money' >= Money /\ SweptIsEnough'
  <2>1. Money' \in Int
    BY MoneyTypeLater DEF Money
  <2> QED  BY <1>1, <1>3, <2>1 DEF NothingVanishes, InitMoney
<1>4. CASE UNCHANGED << credits, pool, packet, sweep >>
  BY <1>2, <1>4 DEF SweptIsEnough
<1>5. ASSUME NEW p \in Packets, CreateWrite(p) PROVE SweptIsEnough' /\ NothingVanishes'
  BY <1>1, <1>3, <1>5, MoneyCreateWrite
<1>6. CASE ClaimWrite
  BY <1>3, <1>6, MoneyClaimWrite
<1>7. ASSUME NEW s \in Sweepers, SweepWrite(s) PROVE SweptIsEnough' /\ NothingVanishes'
  BY <1>3, <1>7, MoneySweepWrite
<1>8. ASSUME NEW s \in Sweepers, SweepRead(s) PROVE SweptIsEnough' /\ NothingVanishes'
  BY <1>2, <1>8, MoneySweepRead DEF SweepRead
<1>9. CASE Crash \/ \E s \in Sweepers : SweepFails(s)
  <2>1. \A s \in Sweepers : sweep'[s] \in {sweep[s], SweepIdle}
    BY <1>9 DEF Crash, SweepFails, Books, PacketTypeOK
  <2>2. UNCHANGED << credits, pool, packet >>
    BY <1>9 DEF Crash, SweepFails
  <2>3. SweptIsEnough'
    BY <2>1, <2>2, IdleSweep DEF SweptIsEnough
  <2> QED  BY <1>2, <2>2, <2>3
<1> QED  BY <1>4, <1>5, <1>6, <1>7, <1>8, <1>9
         DEF PNext, pvars, CreateRead, Elapse, ClaimRead, RequestFails

\* Credits put into a packet are never lost: whatever claims, sweeps, failing writes and
\* crashes do to each other, members, pool and open packets together never hold less than
\* at the start (claim_packet, expire_packets).
THEOREM CreditsNeverVanish == PSpec => []NothingVanishes
<1>1. Books /\ Books' /\ SweptIsEnough /\ NothingVanishes /\ [PNext]_pvars
        => SweptIsEnough' /\ NothingVanishes'
  BY MoneyStep
<1> QED  BY BooksHold, MoneyAtFirst, <1>1, PTL DEF PSpec
=============================================================================
