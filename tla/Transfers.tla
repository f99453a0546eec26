------------------------------ MODULE Transfers ------------------------------
(***************************************************************************)
(* Transfers and red packets between two users                             *)
(* (core/services/transfer_service.py, core/api_routes/transfer_routes.py).*)
(* A transfer moves credits at once.  A red packet is taken from its       *)
(* sender, waits as a pending transaction, and goes to its receiver, or    *)
(* back when it is claimed too late.                                       *)
(*                                                                         *)
(* The routes are coroutines without an await: each runs to its end before *)
(* the next.  Each service call is one database transaction.  The card     *)
(* that announces a packet in a conversation is left out: it is written by *)
(* a second transaction, and a packet can be claimed without it.           *)
(*                                                                         *)
(* refund_expired_packets, complete_transfer and refund_transfer are not   *)
(* steps of the system: nothing calls them.                                *)
(***************************************************************************)
EXTENDS Integers, FiniteSets, Functions

CONSTANTS
  Users,        \* rows of users
  Txs,          \* ids of transactions, handed out in order
  Amounts,      \* amounts asked for, some not positive
  InitCredits   \* users.credits at the start

ASSUME TransferAssumption ==
  /\ IsFiniteSet(Users) /\ Users # {} /\ Amounts \subseteq Int
  /\ IsFiniteSet(Txs) /\ Txs \subseteq Nat
  /\ InitCredits \in Nat

VARIABLES
  credits,  \* users.credits
  tx,       \* transactions
  due       \* transactions whose expires_at has passed

tvars == << credits, tx, due >>

-----------------------------------------------------------------------------
(* Data *)

Types == {"transfer", "red_packet"}
Transaction == [status: {"absent", "pending", "completed", "refunded"},
                type: Types, sender: Users, receiver: Users, amount: Nat]

Row(status, type, a, b, x) ==
  [status |-> status, type |-> type, sender |-> a, receiver |-> b, amount |-> x]

SomeUser == CHOOSE u \in Users : TRUE
NoRow == Row("absent", "transfer", SomeUser, SomeUser, 0)

Present(t) == tx[t].status # "absent"
IsNextTx(t) == ~Present(t) /\ \A s \in Txs : ~Present(s) => t <= s

Plus(u, x) == [credits EXCEPT ![u] = @ + x]

-----------------------------------------------------------------------------
(* Services *)

\* create_transfer, create_red_packet: the checks on amount, parties and balance
Payable(a, b, x) == x > 0 /\ a # b /\ credits[a] >= x

CreateTransfer(t, a, b, x) ==
  /\ Payable(a, b, x)
  /\ credits' = [Plus(a, -x) EXCEPT ![b] = @ + x]
  /\ tx' = [tx EXCEPT ![t] = Row("completed", "transfer", a, b, x)]
  /\ UNCHANGED due

\* expire_hours comes with the request: not positive, and the packet is late at once
CreateRedPacket(t, a, b, x) ==
  /\ Payable(a, b, x)
  /\ credits' = Plus(a, -x)
  /\ tx' = [tx EXCEPT ![t] = Row("pending", "red_packet", a, b, x)]
  /\ \/ UNCHANGED due
     \/ due' = due \cup {t}

\* Mutant of Claimable: whoever asks gets the packet, as often as he asks.
ClaimableByType(t, u) == tx[t].type = "red_packet" /\ tx[t].receiver = u

Claimable(t, u) ==
  tx[t].type = "red_packet" /\ tx[t].receiver = u /\ tx[t].status = "pending"

\* A packet claimed too late goes back to its sender in the transaction that
\* refuses the claim.
ClaimRedPacket(t, u) ==
  /\ Claimable(t, u)
  /\ LET late == t \in due
     IN  /\ credits' = Plus(IF late THEN tx[t].sender ELSE u, tx[t].amount)
         /\ tx' = [tx EXCEPT ![t].status = IF late THEN "refunded" ELSE "completed"]
  /\ UNCHANGED due

-----------------------------------------------------------------------------
(* Routes *)

PostTransfer(a, b, x) == \E t \in Txs : IsNextTx(t) /\ CreateTransfer(t, a, b, x)

PostRedPacket(a, b, x) == \E t \in Txs : IsNextTx(t) /\ CreateRedPacket(t, a, b, x)

PostClaim(t, u) == ClaimRedPacket(t, u)

Expire(t) ==
  /\ Present(t) /\ tx[t].type = "red_packet" /\ t \notin due
  /\ due' = due \cup {t}
  /\ UNCHANGED << credits, tx >>

Init ==
  /\ credits = [u \in Users |-> InitCredits]
  /\ tx = [t \in Txs |-> NoRow]
  /\ due = {}

Next ==
  \/ \E a, b \in Users, x \in Amounts : PostTransfer(a, b, x)
  \/ \E a, b \in Users, x \in Amounts : PostRedPacket(a, b, x)
  \/ \E t \in Txs, u \in Users : PostClaim(t, u)
  \/ \E t \in Txs : Expire(t)

Spec == Init /\ [][Next]_tvars

-----------------------------------------------------------------------------
(* Properties *)

\* Every row is a transaction of two users of an amount, and only rows fall due.
TransfersTypeOK ==
  /\ credits \in [Users -> Int]
  /\ tx \in [Txs -> Transaction]
  /\ due \subseteq {t \in Txs : Present(t)}

\* Red packets are deposits: pending is held, anything later is settled.
Held(t) ==
  IF tx[t].type = "transfer" THEN [status |-> "absent", amount |-> 0]
  ELSE [status |-> IF tx[t].status = "pending" THEN "held" ELSE "settled",
        amount |-> tx[t].amount]

Books == INSTANCE Escrow WITH
  Accounts <- Users, Deposits <- Txs, Amounts <- {x \in Amounts : x > 0} \cup {0}, Slack <- 0,
  balance <- credits, deposit <- [t \in Txs |-> Held(t)]

\* The transactions implement the escrow: whatever mix of claims, late claims
\* and refunds, a packet is paid in full once, out of what its sender had.
IsEscrow == Books!Spec

\* No user ever owes the system.
NobodyOwes == \A u \in Users : credits[u] >= 0

Amount == [t \in Txs |-> tx[t].amount]

\* The transactions that took credits from u and did not give them back, and those
\* that paid u
SentBy(u) == {t \in Txs : tx[t].sender = u /\ tx[t].status \in {"pending", "completed"}}
PaidTo(u) == {t \in Txs : tx[t].receiver = u /\ tx[t].status = "completed"}

Spent(u) == SumFunctionOnSet(Amount, SentBy(u))
Received(u) == SumFunctionOnSet(Amount, PaidTo(u))

\* get_transaction_history explains every balance: what a user has is what he
\* started with, less what he sent and did not get back, plus what he was paid.
HistoryExplainsBalance ==
  \A u \in Users : credits[u] = InitCredits - Spent(u) + Received(u)

=============================================================================
