----------------------- MODULE GroupPacketProperties ------------------------
(***************************************************************************)
(* What a group's red packets promise, and the fairness of the server that *)
(* deals with them.                                                        *)
(***************************************************************************)
EXTENDS GroupPackets, Functions

\* Every variable holds a value of its kind.
PacketTypeOK ==
  /\ credits \in [Users -> Int]
  /\ pool \in Int
  /\ packet \in [Packets -> Packet]
  /\ claimers \in [Packets -> SUBSET Users]
  /\ due \subseteq Packets
  /\ loop \in Loop
  /\ sweep \in [Sweepers -> Sweep]
  /\ faults \in Nat

-----------------------------------------------------------------------------
(* Safety *)

\* The row of a packet and the shares it paid add up to its total, and never more
\* than the total is paid out, however sweeps and claims interleave (claim_packet
\* writes back a row it has read in an earlier connection).
PacketAdds ==
  \A p \in Packets : Present(p) =>
    /\ packet[p].left + packet[p].given = packet[p].total
    /\ packet[p].left >= 0

\* A member draws one share of a packet, a packet has no more shares than it was
\* cut into, and the last one leaves nothing behind.
OneShareEach ==
  \A p \in Packets : Present(p) =>
    /\ packet[p].claimed = Cardinality(claimers[p])
    /\ packet[p].claimed <= packet[p].count
    /\ packet[p].claimed = packet[p].count => packet[p].left = 0

\* A lucky packet keeps a cent for every share that is still to be drawn: nobody
\* goes away empty-handed (the clamp of claim_packet).
SharesLeft ==
  \A p \in Packets : packet[p].status = "active" /\ packet[p].type = "lucky"
                       => packet[p].left >= packet[p].count - packet[p].claimed

\* No packet is paid from credits that are not there (create_packet checks in one
\* connection and debits in another).
NobodyOverdrawn == pool >= 0 /\ \A u \in Users : credits[u] >= 0

\* What is still in the open packets
Held == [p \in Packets |-> IF packet[p].status = "active" THEN packet[p].left ELSE 0]

\* The credits of the members, the pool and the open packets
Money == SumFunctionOnSet(credits, Users) + pool + SumFunctionOnSet(Held, Packets)

InitMoney == Cardinality(Users) * InitCredits + InitPool

\* Credits put into a packet are never lost: they are with the members, in the
\* pool or in an open packet, in every interleaving and after every failure.
NothingVanishes == Money >= InitMoney

-----------------------------------------------------------------------------
(* Liveness.  The event loop finishes the request it is in; the hourly task    *)
(* sweeps again and again, each sweep to its end unless a write fails.         *)

PFairSpec ==
  /\ PSpec
  /\ WF_pvars(ClaimWrite) /\ WF_pvars(\E p \in Packets : CreateWrite(p))
  /\ WF_pvars(SweepRead("thread"))
  /\ \A s \in Sweepers : WF_pvars(SweepWrite(s))

\* A packet past its deadline does not stay open: the hourly sweep gives back what
\* is left of it, also when a late claim has opened it again or a sweep failed.
PacketsClose ==
  \A p \in Packets : packet[p].status = "active" /\ p \in due ~> packet[p].status # "active"

-----------------------------------------------------------------------------
(* What the documents say, and the code does not keep                          *)

\* What is left of an expired packet goes back, and with it the books balance: no
\* interleaving of claims and sweeps makes credits out of nothing.
RefundedOnce == Money = InitMoney
=============================================================================
