---------------------------- MODULE TransferProofs ----------------------------
(***************************************************************************)
(* Proofs about what users own: transfers, orders of the market, pets and  *)
(* the base they work in.                                                  *)
(*                                                                         *)
(* 1. Transfers and red packets keep the promise of Escrow, for any number *)
(* of users and transactions and for all amounts.  The type of the rows is *)
(* not enough for the refinement: a row that is free must read as an       *)
(* absent deposit, and a packet that is settled must have an amount the    *)
(* escrow may pay.  RowsFit says both.                                     *)
(*                                                                         *)
(* 2. The history of a user is two sums over the rows that name him.  A    *)
(* step writes one row, which joins one of these sets, or two, or leaves   *)
(* one, and the lemmas on sums say what that adds or takes.  Of orders the *)
(* sums are one over users and one over what was accepted.                 *)
(*                                                                         *)
(* 3. What a facility was paid is its time up to the last collection and   *)
(* MaxHours more for each failed write (HoursSettled).  A team stays a     *)
(* list without repetitions.  That a pet has less experience than its      *)
(* level asks for is a fact about a recursive function: growth ends, for   *)
(* what is left over falls with each level, and every set of numbers has a *)
(* least one; so the function the definition chooses exists (its value is  *)
(* what every set closed under growth contains) and its value is final.    *)
(***************************************************************************)
EXTENDS Transfers, EconomyParts, Sequences, SumLemmas, SequenceTheorems

RowsFit ==
  \A t \in Txs : /\ ~Present(t) => tx[t].type = "transfer"
                 /\ tx[t].type = "red_packet" => tx[t].amount \in Amounts /\ tx[t].amount > 0

TInv == TransfersTypeOK /\ NobodyOwes /\ RowsFit

-----------------------------------------------------------------------------
(* Rows *)

LEMMA NoRowType == NoRow \in Transaction
<1>1. SomeUser \in Users
  BY TransferAssumption DEF SomeUser
<1> QED  BY <1>1 DEF NoRow, Row, Transaction, Types

\* A payment that passed the checks is written as a row of the right shape.
LEMMA PaidRow ==
  ASSUME NEW a \in Users, NEW b \in Users, NEW x \in Amounts, Payable(a, b, x),
         NEW s \in {"pending", "completed"}, NEW k \in Types
  PROVE  Row(s, k, a, b, x) \in Transaction /\ x \in Nat
BY TransferAssumption DEF Payable, Row, Transaction

LEMMA PlusType ==
  ASSUME credits \in [Users -> Int], NEW u \in Users, NEW x \in Int
  PROVE  /\ Plus(u, x) \in [Users -> Int]
         /\ Plus(u, x)[u] = credits[u] + x
         /\ \A w \in Users \ {u} : Plus(u, x)[w] = credits[w]
BY DEF Plus

-----------------------------------------------------------------------------
(* The invariant *)

LEMMA TInvStarts == Init => TInv
<1> SUFFICES ASSUME Init PROVE TInv
  OBVIOUS
<1>1. credits = [u \in Users |-> InitCredits] /\ tx = [t \in Txs |-> NoRow] /\ due = {}
  BY DEF Init
<1>2. TransfersTypeOK
  BY <1>1, NoRowType, TransferAssumption DEF TransfersTypeOK
<1>3. NobodyOwes
  BY <1>1, TransferAssumption DEF NobodyOwes
<1>4. RowsFit
  BY <1>1 DEF RowsFit, NoRow, Row
<1> QED  BY <1>2, <1>3, <1>4 DEF TInv

LEMMA TransferKeeps ==
  ASSUME TInv, NEW a \in Users, NEW b \in Users, NEW x \in Amounts, PostTransfer(a, b, x)
  PROVE  TInv'
<1> USE DEF TInv, TransfersTypeOK
<1>1. PICK t \in Txs : IsNextTx(t) /\ CreateTransfer(t, a, b, x)
  BY DEF PostTransfer
<1>2. /\ a # b /\ credits[a] >= x /\ x \in Nat
      /\ credits' = [Plus(a, -x) EXCEPT ![b] = @ + x]
      /\ tx' = [tx EXCEPT ![t] = Row("completed", "transfer", a, b, x)]
      /\ due' = due
  BY <1>1, PaidRow DEF CreateTransfer, Payable, Types
<1>3. Row("completed", "transfer", a, b, x) \in Transaction
  BY <1>1, PaidRow DEF CreateTransfer, Types
<1>4. credits' \in [Users -> Int] /\ \A u \in Users : credits'[u] >= 0
  <2>1. -x \in Int /\ credits[a] \in Int /\ credits[b] \in Int
    BY <1>2
  <2>2. /\ Plus(a, -x) \in [Users -> Int]
        /\ Plus(a, -x)[a] = credits[a] + (-x)
        /\ \A w \in Users \ {a} : Plus(a, -x)[w] = credits[w]
    BY <2>1, PlusType
  <2>3. credits' = [Plus(a, -x) EXCEPT ![b] = credits[b] + x]
    BY <1>2, <2>2
  <2> QED  BY <1>2, <2>1, <2>2, <2>3 DEF NobodyOwes
<1>5. tx' \in [Txs -> Transaction]
  BY <1>2, <1>3
<1>6. \A s \in Txs : Present(s) => tx'[s].status # "absent"
  BY <1>2 DEF Present, Row
<1>7. due' \subseteq {s \in Txs : tx'[s].status # "absent"}
  BY <1>2, <1>6
<1>8. RowsFit'
  BY <1>2 DEF RowsFit, Present, Row
<1> QED  BY <1>4, <1>5, <1>7, <1>8 DEF NobodyOwes, Present

LEMMA RedPacketKeeps ==
  ASSUME TInv, NEW a \in Users, NEW b \in Users, NEW x \in Amounts, PostRedPacket(a, b, x)
  PROVE  TInv'
<1> USE DEF TInv, TransfersTypeOK
<1>1. PICK t \in Txs : IsNextTx(t) /\ CreateRedPacket(t, a, b, x)
  BY DEF PostRedPacket
<1>2. /\ credits[a] >= x /\ x > 0 /\ x \in Nat
      /\ credits' = Plus(a, -x)
      /\ tx' = [tx EXCEPT ![t] = Row("pending", "red_packet", a, b, x)]
      /\ due' \in {due, due \cup {t}}
  BY <1>1, PaidRow DEF CreateRedPacket, Payable, Types
<1>3. Row("pending", "red_packet", a, b, x) \in Transaction
  BY <1>1, PaidRow DEF CreateRedPacket, Types
<1>4. credits' \in [Users -> Int] /\ \A u \in Users : credits'[u] >= 0
  <2>1. -x \in Int /\ credits[a] \in Int /\ credits[b] \in Int
    BY <1>2
  <2>2. /\ Plus(a, -x) \in [Users -> Int]
        /\ Plus(a, -x)[a] = credits[a] + (-x)
        /\ \A w \in Users \ {a} : Plus(a, -x)[w] = credits[w]
    BY <2>1, PlusType
  <2> QED  BY <1>2, <2>1, <2>2 DEF NobodyOwes
<1>5. tx' \in [Txs -> Transaction]
  BY <1>2, <1>3
<1>6. \A s \in Txs : s = t \/ Present(s) => tx'[s].status # "absent"
  BY <1>2 DEF Present, Row
<1>7. due' \subseteq {s \in Txs : tx'[s].status # "absent"}
  BY <1>2, <1>6
<1>8. RowsFit'
  BY <1>2 DEF RowsFit, Present, Row
<1> QED  BY <1>4, <1>5, <1>7, <1>8 DEF NobodyOwes, Present

\* Who is paid when a packet is claimed, and what becomes of its row.
LEMMA ClaimPays ==
  ASSUME TInv, NEW t \in Txs, NEW u \in Users, PostClaim(t, u)
  PROVE  \E w \in Users, s \in {"completed", "refunded"} :
           /\ tx[t].status = "pending" /\ tx[t].type = "red_packet"
           /\ credits' = Plus(w, tx[t].amount)
           /\ tx' = [tx EXCEPT ![t].status = s]
           /\ due' = due
           /\ w = IF s = "refunded" THEN tx[t].sender ELSE tx[t].receiver
<1> USE DEF TInv, TransfersTypeOK
<1>1. tx[t].sender \in Users
  BY DEF Transaction
<1>2. CASE t \in due
  BY <1>1, <1>2 DEF PostClaim, ClaimRedPacket, Claimable
<1>3. CASE t \notin due
  BY <1>3 DEF PostClaim, ClaimRedPacket, Claimable
<1> QED  BY <1>2, <1>3

LEMMA ClaimKeeps ==
  ASSUME TInv, NEW t \in Txs, NEW u \in Users, PostClaim(t, u)
  PROVE  TInv'
<1> USE DEF TInv, TransfersTypeOK
<1>1. PICK w \in Users, s \in {"completed", "refunded"} :
           /\ tx[t].status = "pending" /\ tx[t].type = "red_packet"
           /\ credits' = Plus(w, tx[t].amount)
           /\ tx' = [tx EXCEPT ![t].status = s]
           /\ due' = due
  BY ClaimPays
<1>2. tx[t].amount \in Nat
  BY DEF Transaction
<1> DEFINE x == tx[t].amount
<1>3. credits' \in [Users -> Int] /\ \A v \in Users : credits'[v] >= 0
  <2>1. x \in Int /\ x >= 0 /\ credits[w] \in Int /\ credits[w] >= 0
    BY <1>2 DEF NobodyOwes
  <2>2. /\ Plus(w, x) \in [Users -> Int]
        /\ Plus(w, x)[w] = credits[w] + x
        /\ \A v \in Users \ {w} : Plus(w, x)[v] = credits[v]
    BY <2>1, PlusType
  <2> HIDE DEF x
  <2>3. credits' = Plus(w, x)
    BY <1>1 DEF x
  <2> QED  BY <2>1, <2>2, <2>3 DEF NobodyOwes
<1>4. tx' \in [Txs -> Transaction]
  BY <1>1 DEF Transaction
<1>5. \A r \in Txs : Present(r) => tx'[r].status # "absent"
  BY <1>1 DEF Present, Transaction
<1>6. due' \subseteq {r \in Txs : tx'[r].status # "absent"}
  BY <1>1, <1>5
<1>7. RowsFit'
  BY <1>1 DEF RowsFit, Present, Transaction
<1> QED  BY <1>3, <1>4, <1>6, <1>7 DEF NobodyOwes, Present

LEMMA ExpireKeeps ==
  ASSUME TInv, NEW t \in Txs, Expire(t)
  PROVE  TInv'
BY DEF TInv, TransfersTypeOK, NobodyOwes, RowsFit, Present, Expire

LEMMA TInvStep == TInv /\ [Next]_tvars => TInv'
<1> SUFFICES ASSUME TInv, [Next]_tvars PROVE TInv'
  OBVIOUS
<1>1. CASE UNCHANGED tvars
  BY <1>1 DEF TInv, TransfersTypeOK, NobodyOwes, RowsFit, Present, tvars
<1> QED  BY <1>1, TransferKeeps, RedPacketKeeps, ClaimKeeps, ExpireKeeps DEF Next

LEMMA TInvHolds == Spec => []TInv
<1> QED  BY TInvStarts, TInvStep, PTL DEF Spec

-----------------------------------------------------------------------------
(* The refinement *)

Deposit == [t \in Txs |-> Held(t)]

LEMMA BooksStart == Init => Books!Init
<1> SUFFICES ASSUME Init PROVE Books!Init
  OBVIOUS
<1>1. credits \in [Users -> Nat]
  BY TransferAssumption DEF Init
<1>2. Deposit = [t \in Txs |-> [status |-> "absent", amount |-> 0]]
  BY DEF Deposit, Held, Init, NoRow, Row
<1> QED  BY <1>1, <1>2 DEF Books!Init, Books!Absent, Deposit

\* A transfer is a move between two accounts; its row is no deposit.
LEMMA TransferMoves ==
  ASSUME TInv, NEW a \in Users, NEW b \in Users, NEW x \in Amounts, PostTransfer(a, b, x)
  PROVE  Books!Next
<1> USE DEF TInv, TransfersTypeOK
<1>1. PICK t \in Txs : IsNextTx(t) /\ CreateTransfer(t, a, b, x)
  BY DEF PostTransfer
<1>2. /\ x <= credits[a] /\ x > 0 /\ x \in Int
      /\ credits' = [[credits EXCEPT ![a] = @ + (-x)] EXCEPT ![b] = @ + x]
      /\ tx' = [tx EXCEPT ![t] = Row("completed", "transfer", a, b, x)]
  BY <1>1, TransferAssumption DEF CreateTransfer, Payable, Plus
<1>3. tx[t].type = "transfer"
  BY <1>1 DEF IsNextTx, RowsFit
<1>4. tx'[t].type = "transfer" /\ \A s \in Txs \ {t} : tx'[s] = tx[s]
  BY <1>2 DEF Row
<1>5. Deposit' = Deposit
  BY <1>3, <1>4 DEF Deposit, Held
<1>6. Books!Move(a, b, x)
  BY <1>2, <1>5 DEF Books!Move, Books!Paid, Deposit
<1> QED  BY <1>2, <1>6 DEF Books!Next

\* A red packet is a deposit of its sender.
LEMMA RedPacketHolds ==
  ASSUME TInv, NEW a \in Users, NEW b \in Users, NEW x \in Amounts, PostRedPacket(a, b, x)
  PROVE  Books!Next
<1> USE DEF TInv, TransfersTypeOK
<1>1. PICK t \in Txs : IsNextTx(t) /\ CreateRedPacket(t, a, b, x)
  BY DEF PostRedPacket
<1>2. /\ x <= credits[a] /\ x > 0 /\ x \in Int
      /\ credits' = [credits EXCEPT ![a] = @ + (-x)]
      /\ tx' = [tx EXCEPT ![t] = Row("pending", "red_packet", a, b, x)]
  BY <1>1, TransferAssumption DEF CreateRedPacket, Payable, Plus
<1>3. Deposit[t].status = "absent"
  BY <1>1 DEF IsNextTx, RowsFit, Deposit, Held
<1>4. tx'[t] = Row("pending", "red_packet", a, b, x) /\ \A s \in Txs \ {t} : tx'[s] = tx[s]
  BY <1>2
<1>5. Deposit' = [Deposit EXCEPT ![t] = [status |-> "held", amount |-> x]]
  <2>1. Deposit'[t] = [status |-> "held", amount |-> x]
    BY <1>4 DEF Deposit, Held, Row
  <2>2. \A s \in Txs \ {t} : Deposit'[s] = Deposit[s]
    BY <1>4 DEF Deposit, Held
  <2> QED  BY <2>1, <2>2 DEF Deposit
<1>6. Books!Hold(t, a, x)
  BY <1>2, <1>3, <1>5 DEF Books!Hold, Books!Paid, Deposit
<1> QED  BY <1>2, <1>6 DEF Books!Next

\* A claim settles the deposit in full, to the receiver or back to the sender.
LEMMA ClaimSettles ==
  ASSUME TInv, NEW t \in Txs, NEW u \in Users, PostClaim(t, u)
  PROVE  Books!Next
<1> USE DEF TInv, TransfersTypeOK
<1>1. PICK w \in Users, s \in {"completed", "refunded"} :
           /\ tx[t].status = "pending" /\ tx[t].type = "red_packet"
           /\ credits' = Plus(w, tx[t].amount)
           /\ tx' = [tx EXCEPT ![t].status = s]
           /\ due' = due
  BY ClaimPays
<1> DEFINE x == tx[t].amount
<1>2. x \in {y \in Amounts : y > 0} /\ x \in Int
  BY <1>1 DEF RowsFit, Transaction
<1>3. Deposit[t] = [status |-> "held", amount |-> x]
  BY <1>1 DEF Deposit, Held
<1>4. /\ tx'[t].type = "red_packet" /\ tx'[t].status = s /\ tx'[t].amount = x
      /\ \A r \in Txs \ {t} : tx'[r] = tx[r]
  BY <1>1 DEF Transaction
<1>5. Deposit' = [Deposit EXCEPT ![t].status = "settled"]
  <2>1. Deposit'[t] = [status |-> "settled", amount |-> x]
    BY <1>1, <1>4 DEF Deposit, Held
  <2>2. \A r \in Txs \ {t} : Deposit'[r] = Deposit[r]
    BY <1>4 DEF Deposit, Held
  <2>3. [Deposit[t] EXCEPT !.status = "settled"] = [status |-> "settled", amount |-> x]
    BY <1>3
  <2> QED  BY <2>1, <2>2, <2>3 DEF Deposit
<1>6. credits' = [[credits EXCEPT ![w] = @ + x] EXCEPT ![w] = @ + 0]
  <2>1. credits' = [credits EXCEPT ![w] = credits[w] + x] /\ credits[w] + x + 0 = credits[w] + x
    BY <1>1, <1>2 DEF Plus
  <2> QED  BY <2>1
<1>7. x + 0 - Deposit[t].amount \in -0 .. 0
  BY <1>2, <1>3
<1>8. Books!Settle(t, w, w, x, 0)
  BY <1>3, <1>5, <1>6, <1>7 DEF Books!Settle, Books!Paid, Deposit
<1> QED  BY <1>2, <1>8 DEF Books!Next

LEMMA ExpiryStutters ==
  ASSUME NEW t \in Txs, Expire(t)
  PROVE  UNCHANGED Books!evars
BY DEF Expire, Books!evars, Held

LEMMA BooksStep == TInv /\ [Next]_tvars => [Books!Next]_(Books!evars)
<1> SUFFICES ASSUME TInv, [Next]_tvars PROVE [Books!Next]_(Books!evars)
  OBVIOUS
<1>1. CASE UNCHANGED tvars
  BY <1>1 DEF tvars, Books!evars, Held
<1> QED  BY <1>1, TransferMoves, RedPacketHolds, ClaimSettles, ExpiryStutters DEF Next

-----------------------------------------------------------------------------
(* The history *)

\* A row of amount x joins those that are counted; the others keep their amounts.
LEMMA SumJoins ==
  ASSUME TransfersTypeOK, TransfersTypeOK', NEW S \in SUBSET Txs, NEW t \in Txs, t \notin S,
         \A s \in Txs \ {t} : tx'[s] = tx[s]
  PROVE  /\ SumFunctionOnSet(Amount, S) \in Int
         /\ SumFunctionOnSet(Amount', S) = SumFunctionOnSet(Amount, S)
         /\ SumFunctionOnSet(Amount', S \cup {t}) = SumFunctionOnSet(Amount, S) + tx'[t].amount
<1>1. \A s \in Txs : /\ Amount[s] \in Int /\ Amount'[s] \in Int /\ Amount'[s] = tx'[s].amount
                     /\ s # t => Amount'[s] = Amount[s]
  BY DEF Amount, TransfersTypeOK, Transaction
<1>2. IsFiniteSet(S)
  BY TransferAssumption, FS_Subset
<1>3. SumFunctionOnSet(Amount, S) \in Int /\ SumFunctionOnSet(Amount', S) \in Int
  BY <1>1, <1>2, SumType
<1>4. SumFunctionOnSet(Amount', S) = SumFunctionOnSet(Amount, S)
  <2>1. \A s \in S : Amount'[s] = Amount[s]
    BY <1>1
  <2> QED  BY <1>2, <2>1, SumExtensional
<1>5. SumFunctionOnSet(Amount', S \cup {t}) = Amount'[t] + SumFunctionOnSet(Amount', S)
  <2>1. \A s \in S \cup {t} : Amount'[s] \in Int
    BY <1>1
  <2> QED  BY <1>2, <2>1, SumWith
<1> QED  BY <1>1, <1>3, <1>4, <1>5

\* Nothing is on record before the first transaction.
LEMMA HistoryStarts == Init => HistoryExplainsBalance
<1> SUFFICES ASSUME Init, NEW u \in Users
             PROVE  credits[u] = InitCredits - Spent(u) + Received(u)
  BY DEF HistoryExplainsBalance
<1>1. SentBy(u) = {} /\ PaidTo(u) = {}
  BY DEF Init, NoRow, Row, SentBy, PaidTo
<1>2. Spent(u) = 0 /\ Received(u) = 0
  BY <1>1, SumOfNone DEF Spent, Received
<1> QED  BY <1>2, TransferAssumption DEF Init

\* A transfer is counted once for the sender and once for the receiver.
LEMMA TransferExplained ==
  ASSUME TInv, TInv', HistoryExplainsBalance,
         NEW a \in Users, NEW b \in Users, NEW x \in Amounts, PostTransfer(a, b, x)
  PROVE  HistoryExplainsBalance'
<1> USE DEF TInv, TransfersTypeOK
<1>1. PICK t \in Txs : IsNextTx(t) /\ CreateTransfer(t, a, b, x)
  BY DEF PostTransfer
<1>2. /\ a # b /\ x \in Int
      /\ credits' = [[credits EXCEPT ![a] = @ + (-x)] EXCEPT ![b] = @ + x]
      /\ tx[t].status = "absent"
      /\ tx'[t] = Row("completed", "transfer", a, b, x)
      /\ \A s \in Txs \ {t} : tx'[s] = tx[s]
  BY <1>1, TransferAssumption DEF CreateTransfer, Payable, Plus, IsNextTx, Present
<1>3. SUFFICES ASSUME NEW u \in Users
               PROVE  credits'[u] = InitCredits - Spent(u)' + Received(u)'
  BY DEF HistoryExplainsBalance
<1>4. /\ SentBy(u) \in SUBSET Txs /\ t \notin SentBy(u)
      /\ SentBy(u)' = IF u = a THEN SentBy(u) \cup {t} ELSE SentBy(u)
  BY <1>2 DEF SentBy, Row
<1>5. /\ PaidTo(u) \in SUBSET Txs /\ t \notin PaidTo(u)
      /\ PaidTo(u)' = IF u = b THEN PaidTo(u) \cup {t} ELSE PaidTo(u)
  BY <1>2 DEF PaidTo, Row
<1>6. tx'[t].amount = x /\ \A s \in Txs \ {t} : tx'[s] = tx[s]
  BY <1>2 DEF Row
<1>7. Spent(u) \in Int /\ Spent(u)' = IF u = a THEN Spent(u) + x ELSE Spent(u)
  BY <1>4, <1>6, SumJoins DEF Spent
<1>8. Received(u) \in Int /\ Received(u)' = IF u = b THEN Received(u) + x ELSE Received(u)
  BY <1>5, <1>6, SumJoins DEF Received
<1>9. credits[u] \in Int /\ credits[u] = InitCredits - Spent(u) + Received(u)
  BY DEF HistoryExplainsBalance
<1>10. credits'[u] = IF u = a THEN credits[u] - x ELSE IF u = b THEN credits[u] + x ELSE credits[u]
  BY <1>2
<1> QED  BY <1>2, <1>7, <1>8, <1>9, <1>10, TransferAssumption

\* A packet is counted as spent from the moment it is sent.
LEMMA RedPacketExplained ==
  ASSUME TInv, TInv', HistoryExplainsBalance,
         NEW a \in Users, NEW b \in Users, NEW x \in Amounts, PostRedPacket(a, b, x)
  PROVE  HistoryExplainsBalance'
<1> USE DEF TInv, TransfersTypeOK
<1>1. PICK t \in Txs : IsNextTx(t) /\ CreateRedPacket(t, a, b, x)
  BY DEF PostRedPacket
<1>2. /\ x \in Int
      /\ credits' = [credits EXCEPT ![a] = @ + (-x)]
      /\ tx[t].status = "absent"
      /\ tx'[t] = Row("pending", "red_packet", a, b, x)
      /\ \A s \in Txs \ {t} : tx'[s] = tx[s]
  BY <1>1, TransferAssumption DEF CreateRedPacket, Payable, Plus, IsNextTx, Present
<1>3. SUFFICES ASSUME NEW u \in Users
               PROVE  credits'[u] = InitCredits - Spent(u)' + Received(u)'
  BY DEF HistoryExplainsBalance
<1>4. /\ SentBy(u) \in SUBSET Txs /\ t \notin SentBy(u)
      /\ SentBy(u)' = IF u = a THEN SentBy(u) \cup {t} ELSE SentBy(u)
  BY <1>2 DEF SentBy, Row
<1>5. PaidTo(u) \in SUBSET Txs /\ t \notin PaidTo(u) /\ PaidTo(u)' = PaidTo(u)
  BY <1>2 DEF PaidTo, Row
<1>6. Spent(u) \in Int /\ Spent(u)' = IF u = a THEN Spent(u) + x ELSE Spent(u)
  BY <1>2, <1>4, SumJoins DEF Spent, Row
<1>7. Received(u) \in Int /\ Received(u)' = Received(u)
  BY <1>2, <1>5, SumJoins DEF Received
<1>8. credits[u] \in Int /\ credits[u] = InitCredits - Spent(u) + Received(u)
  BY DEF HistoryExplainsBalance
<1>9. credits'[u] = IF u = a THEN credits[u] - x ELSE credits[u]
  BY <1>2
<1> QED  BY <1>2, <1>6, <1>7, <1>8, <1>9, TransferAssumption

\* A claim in time makes the packet income of its receiver; a late one makes it as if
\* it had never been sent.
LEMMA ClaimExplained ==
  ASSUME TInv, TInv', HistoryExplainsBalance,
         NEW t \in Txs, NEW v \in Users, PostClaim(t, v)
  PROVE  HistoryExplainsBalance'
<1> USE DEF TInv, TransfersTypeOK
<1>1. PICK w \in Users, s \in {"completed", "refunded"} :
           /\ tx[t].status = "pending" /\ tx[t].type = "red_packet"
           /\ credits' = Plus(w, tx[t].amount)
           /\ tx' = [tx EXCEPT ![t].status = s]
           /\ due' = due
           /\ w = IF s = "refunded" THEN tx[t].sender ELSE tx[t].receiver
  BY ClaimPays
<1> DEFINE x == tx[t].amount
<1>2. /\ x \in Int /\ tx'[t].amount = x /\ tx'[t].status = s
      /\ tx'[t].sender = tx[t].sender /\ tx'[t].receiver = tx[t].receiver
      /\ \A r \in Txs \ {t} : tx'[r] = tx[r]
  BY <1>1 DEF Transaction
<1>3. SUFFICES ASSUME NEW u \in Users
               PROVE  credits'[u] = InitCredits - Spent(u)' + Received(u)'
  BY DEF HistoryExplainsBalance
<1>4. credits[u] \in Int /\ credits[u] = InitCredits - Spent(u) + Received(u)
  BY DEF HistoryExplainsBalance
<1>5. credits'[u] = IF u = w THEN credits[u] + x ELSE credits[u]
  BY <1>1, <1>2 DEF Plus
<1>6. Amount' = Amount
  BY <1>2 DEF Amount
<1>7. /\ PaidTo(u) \in SUBSET Txs /\ t \notin PaidTo(u)
      /\ PaidTo(u)' = IF s = "completed" /\ u = w THEN PaidTo(u) \cup {t} ELSE PaidTo(u)
  BY <1>1, <1>2 DEF PaidTo
<1>8. /\ Received(u) \in Int
      /\ Received(u)' = IF s = "completed" /\ u = w THEN Received(u) + x ELSE Received(u)
  BY <1>2, <1>7, SumJoins DEF Received
<1>9. CASE s = "refunded" /\ u = w
  <2>1. /\ SentBy(u)' \in SUBSET Txs /\ t \notin SentBy(u)'
        /\ SentBy(u) = SentBy(u)' \cup {t}
    BY <1>1, <1>2, <1>9 DEF SentBy
  <2>2. SumFunctionOnSet(Amount, SentBy(u)') \in Int
        /\ SumFunctionOnSet(Amount, SentBy(u)' \cup {t})
              = SumFunctionOnSet(Amount, SentBy(u)') + x
    BY <1>2, <1>6, <2>1, SumJoins
  <2>3. Spent(u)' \in Int /\ Spent(u) = Spent(u)' + x
    BY <1>6, <2>1, <2>2 DEF Spent
  <2> HIDE DEF x
  <2> QED  BY <1>2, <1>4, <1>5, <1>8, <1>9, <2>3, TransferAssumption
<1>10. CASE ~(s = "refunded" /\ u = w)
  <2>1. SentBy(u)' = SentBy(u)
    BY <1>1, <1>2, <1>10 DEF SentBy
  <2>2. IsFiniteSet(SentBy(u)) /\ \A r \in SentBy(u) : Amount[r] \in Int
    BY TransferAssumption, FS_Subset DEF SentBy, Amount, Transaction
  <2>3. Spent(u)' = Spent(u) /\ Spent(u) \in Int
    BY <1>6, <2>1, <2>2, SumType DEF Spent
  <2> HIDE DEF x
  <2> QED  BY <1>1, <1>2, <1>4, <1>5, <1>8, <1>10, <2>3, TransferAssumption
<1> QED  BY <1>9, <1>10

-----------------------------------------------------------------------------
(* Theorems *)

\* Rows are well-formed transactions of users, and only rows fall due.
THEOREM TransfersTypeCorrect == Spec => []TransfersTypeOK
<1>1. TInv => TransfersTypeOK
  BY DEF TInv
<1> QED  BY <1>1, TInvHolds, PTL

\* The checks of create_transfer and create_red_packet keep every balance from going
\* below zero, whatever is claimed and returned in between.
THEOREM NobodyEverOwes == Spec => []NobodyOwes
<1>1. TInv => NobodyOwes
  BY DEF TInv
<1> QED  BY <1>1, TInvHolds, PTL

\* transfer_service.py implements the escrow: a packet is paid in full once, to its
\* receiver or back, out of what its sender had.
THEOREM TransfersAreEscrow == Spec => IsEscrow
<1> QED  BY BooksStart, BooksStep, TInvHolds, PTL DEF Spec, IsEscrow, Books!Spec

\* get_transaction_history explains every balance: whatever is sent, claimed in time or
\* too late, what a user has is what he started with, less what he sent and did not
\* get back, plus what he was paid.
THEOREM HistoryIsComplete == Spec => []HistoryExplainsBalance
<1>1. TInv /\ TInv' /\ HistoryExplainsBalance /\ [Next]_tvars => HistoryExplainsBalance'
  <2> SUFFICES ASSUME TInv, TInv', HistoryExplainsBalance, [Next]_tvars
               PROVE  HistoryExplainsBalance'
    OBVIOUS
  <2>1. CASE UNCHANGED << credits, tx >>
    BY <2>1 DEF HistoryExplainsBalance, Spent, Received, SentBy, PaidTo, Amount
  <2> QED  BY <2>1, TransferExplained, RedPacketExplained, ClaimExplained
           DEF Next, Expire, tvars
<1> QED  BY HistoryStarts, <1>1, TInvHolds, PTL DEF Spec

-----------------------------------------------------------------------------
(* Orders of the market *)

Order == [by: Traders, type: {"buy_compute", "sell_compute"}, price: Nat, acceptedBy: SUBSET Traders]

MarketType ==
  /\ account \in [Traders -> Int] /\ logged \in [Traders -> Int]
  /\ orders \in Seq(Order)

\* The fee is a part of the price.
LEMMA FeeType ==
  ASSUME NEW x \in Nat
  PROVE  Orders!Fee(x) \in Nat /\ Orders!Fee(x) <= x
BY DEF Orders!Fee

\* What the sums are taken of
LEMMA FeesType ==
  ASSUME MarketType
  PROVE  /\ \A i \in DOMAIN orders : Orders!Fees[i] \in Int /\ orders[i] \in Order
         /\ IsFiniteSet(Orders!Completed) /\ Orders!Completed \subseteq DOMAIN orders
         /\ SumFunctionOnSet(Orders!Fees, Orders!Completed) \in Int
         /\ SumFunctionOnSet(logged, Traders) \in Int
<1>1. \A i \in DOMAIN orders : orders[i] \in Order
  BY DEF MarketType
<1>2. \A i \in DOMAIN orders : Orders!Fees[i] \in Int
  BY <1>1, FeeType DEF Orders!Fees, Order
<1>3. Orders!Completed \subseteq DOMAIN orders
  BY DEF Orders!Completed
<1>4. IsFiniteSet(Orders!Completed)
  <2>1. DOMAIN orders = 1 .. Len(orders) /\ Len(orders) \in Nat
    BY DEF MarketType
  <2>2. IsFiniteSet(1 .. Len(orders))
    BY <2>1, FS_Interval
  <2> QED  BY <1>3, <2>1, <2>2, FS_Subset
<1>5. SumFunctionOnSet(Orders!Fees, Orders!Completed) \in Int
  BY <1>2, <1>3, <1>4, SumType
<1>6. SumFunctionOnSet(logged, Traders) \in Int
  BY SumType, TradeAssumption DEF MarketType
<1> QED  BY <1>1, <1>2, <1>3, <1>4, <1>5, <1>6

\* The sum of the orders' module is the sum of the lemmas.
LEMMA SumOfOrders ==
  ASSUME NEW f, NEW S
  PROVE  Orders!SumFunctionOnSet(f, S) = SumFunctionOnSet(f, S)
  BY SumUnfold DEF Solves, Orders!SumFunctionOnSet, Orders!FoldFunctionOnSet, Orders!MapThenFoldSet, Term, First

LEMMA MarketOpens == Orders!Init => MarketType /\ Orders!OrdersBalance
<1> SUFFICES ASSUME Orders!Init PROVE MarketType /\ Orders!OrdersBalance
  OBVIOUS
<1>1. /\ account = [u \in Traders |-> Means] /\ Means \in Nat
      /\ orders = << >> /\ logged = [u \in Traders |-> 0]
  BY TradeAssumption DEF Orders!Init
<1>2. MarketType
  BY <1>1 DEF MarketType
<1>3. Orders!Completed = {}
  BY <1>1 DEF Orders!Completed
<1>4. SumFunctionOnSet(Orders!Fees, Orders!Completed) = 0
  BY <1>3, SumOfNone
<1>5. SumFunctionOnSet(logged, Traders) = 0
  <2>1. 0 \in Int /\ IsFiniteSet(Traders) /\ \A u \in Traders : logged[u] = 0
    BY <1>1, TradeAssumption
  <2>2. SumFunctionOnSet(logged, Traders) = Cardinality(Traders) * 0
    BY <2>1, SumOfConstant
  <2> QED  BY <2>1, <2>2, FS_CardinalityType
<1>6. Orders!SumFunctionOnSet(logged, Traders) + Orders!SumFunctionOnSet(Orders!Fees, Orders!Completed) = 0
  BY <1>4, <1>5, SumOfOrders
<1>7. \A u \in Traders : account[u] = Means + logged[u] /\ ~(account[u] < 0)
  BY <1>1
<1> QED  BY <1>2, <1>6, <1>7 DEF Orders!OrdersBalance

\* A new order moves nothing.
LEMMA CreateOrderKeeps ==
  ASSUME MarketType, Orders!OrdersBalance,
         NEW u \in Traders, NEW type \in Orders!OrderTypes, NEW x \in Prices,
         Orders!CreateOrder(u, type, x)
  PROVE  MarketType' /\ Orders!OrdersBalance'
<1> DEFINE new == [by |-> u, type |-> type, price |-> x, acceptedBy |-> {}]
<1>1. new \in Order
  BY TradeAssumption DEF Orders!CreateOrder, Orders!OrderTypes, Order
<1>2. account' = account /\ logged' = logged /\ orders' = Append(orders, new)
  BY DEF Orders!CreateOrder
<1> HIDE DEF new
<1>3. MarketType'
  BY <1>1, <1>2 DEF MarketType
<1>4. /\ DOMAIN orders' = DOMAIN orders \cup {Len(orders) + 1}
      /\ Len(orders) + 1 \notin DOMAIN orders
      /\ orders'[Len(orders) + 1] = new
      /\ \A i \in DOMAIN orders : orders'[i] = orders[i]
  BY <1>1, <1>2 DEF MarketType
<1>5. Orders!Completed' = Orders!Completed
  BY <1>4 DEF Orders!Completed, new
<1>6. SumFunctionOnSet(Orders!Fees', Orders!Completed) = SumFunctionOnSet(Orders!Fees, Orders!Completed)
  <2>1. \A i \in Orders!Completed : Orders!Fees'[i] = Orders!Fees[i]
    BY <1>4, FeesType DEF Orders!Fees
  <2> QED  BY <2>1, FeesType, SumExtensional
<1>7. Orders!SumFunctionOnSet(logged', Traders) + Orders!SumFunctionOnSet(Orders!Fees', Orders!Completed') = 0
  <2>1. SumFunctionOnSet(logged, Traders) + SumFunctionOnSet(Orders!Fees, Orders!Completed) = 0
    BY SumOfOrders DEF Orders!OrdersBalance
  <2>2. SumFunctionOnSet(logged', Traders) + SumFunctionOnSet(Orders!Fees', Orders!Completed') = 0
    BY <1>2, <1>5, <1>6, <2>1
  <2> QED  BY <2>2, SumOfOrders
<1>8. \A i \in Orders!Completed : orders'[i] = orders[i]
  BY <1>4, FeesType
<1>9. ASSUME NEW w \in Traders
      PROVE  /\ account'[w] = Means + logged'[w]
             /\ account'[w] < 0 => \E j \in Orders!Completed' :
                                      orders'[j].by = w /\ orders'[j].type = "buy_compute"
  <2>1. /\ account[w] = Means + logged[w]
        /\ account[w] < 0 => \E j \in Orders!Completed : orders[j].by = w /\ orders[j].type = "buy_compute"
    BY DEF Orders!OrdersBalance
  <2> QED  BY <1>2, <1>5, <1>8, <2>1
<1> QED  BY <1>3, <1>7, <1>9 DEF Orders!OrdersBalance

\* The price leaves the buyer, and all but the fee reaches the seller.
LEMMA AcceptOrderKeeps ==
  ASSUME MarketType, Orders!OrdersBalance, NEW i \in DOMAIN orders, NEW u \in Traders,
         Orders!AcceptOrder(i, u)
  PROVE  MarketType' /\ Orders!OrdersBalance'
<1> DEFINE o == orders[i]
           x == orders[i].price
           fee == Orders!Fee(orders[i].price)
           b == Orders!Buyer(orders[i], u)
           s == Orders!Seller(orders[i], u)
<1>1. /\ o \in Order /\ o.by \in Traders /\ o.by # u /\ o.acceptedBy = {} /\ account[u] >= o.price
      /\ o.type \in {"buy_compute", "sell_compute"}
  BY FeesType DEF Orders!AcceptOrder, Orders!Acceptable, Order
<1>2. /\ b \in Traders /\ s \in Traders /\ b # s
      /\ b = u => account[b] >= x
      /\ b # u => o.type = "buy_compute" /\ b = o.by
  BY <1>1 DEF Orders!Buyer, Orders!Seller
<1>3. x \in Nat /\ fee \in Nat /\ fee <= x
  BY <1>1, FeeType DEF Order
<1>4. /\ account' = [account EXCEPT ![b] = @ - x, ![s] = @ + x - fee]
      /\ logged' = [logged EXCEPT ![b] = @ - x, ![s] = @ + x - fee]
      /\ orders' = [orders EXCEPT ![i].acceptedBy = {u}]
  BY DEF Orders!AcceptOrder, Orders!Moved
<1>5. /\ DOMAIN orders' = DOMAIN orders /\ orders'[i].acceptedBy = {u}
      /\ orders'[i] \in Order /\ orders'[i].price = x
      /\ orders'[i].by = o.by /\ orders'[i].type = o.type
      /\ \A j \in DOMAIN orders : j # i => orders'[j] = orders[j]
  BY <1>1, <1>4 DEF Order
<1> HIDE DEF o, x, fee, b, s
<1>6. account' \in [Traders -> Int] /\ logged' \in [Traders -> Int]
  <2>1. /\ account \in [Traders -> Int] /\ logged \in [Traders -> Int]
        /\ account[b] - x \in Int /\ account[s] + x - fee \in Int
        /\ logged[b] - x \in Int /\ logged[s] + x - fee \in Int
    BY <1>2, <1>3 DEF MarketType
  <2> QED  BY ONLY <1>2, <1>4, <2>1
<1>7. orders' \in Seq(Order)
  <2>1. /\ orders \in [1 .. Len(orders) -> Order] /\ Len(orders) \in Nat
    BY DEF MarketType
  <2>2. orders' \in [1 .. Len(orders) -> Order]
    BY <1>4, <1>5, <2>1
  <2> QED  BY <2>1, <2>2, IsASeq
<1>8. MarketType'
  BY <1>6, <1>7 DEF MarketType
<1>9. /\ account'[b] = account[b] - x /\ account'[s] = account[s] + x - fee
      /\ logged'[b] = logged[b] - x /\ logged'[s] = logged[s] + x - fee
      /\ \A w \in Traders \ {b, s} : account'[w] = account[w] /\ logged'[w] = logged[w]
      /\ \A w \in Traders : account[w] \in Int /\ logged[w] \in Int
  BY <1>2, <1>4 DEF MarketType
<1>10. SumFunctionOnSet(logged', Traders) = SumFunctionOnSet(logged, Traders) - fee
  <2> DEFINE charged == [logged EXCEPT ![b] = @ - x]
  <2>1. /\ \A w \in Traders : charged[w] \in Int /\ logged'[w] \in Int
        /\ charged[b] = logged[b] - x /\ charged[s] = logged[s]
        /\ \A w \in Traders : w # b => charged[w] = logged[w]
        /\ \A w \in Traders : w # s => logged'[w] = charged[w]
    BY <1>2, <1>3, <1>6, <1>9 DEF MarketType
  <2>2. IsFiniteSet(Traders)
    BY TradeAssumption
  <2> HIDE DEF charged
  <2>3. SumFunctionOnSet(charged, Traders) = SumFunctionOnSet(logged, Traders) + charged[b] - logged[b]
    BY <1>2, <1>9, <2>1, <2>2, SumChangesBy
  <2>4. SumFunctionOnSet(logged', Traders) = SumFunctionOnSet(charged, Traders) + logged'[s] - charged[s]
    BY <1>2, <2>1, <2>2, SumChangesBy
  <2>5. SumFunctionOnSet(logged, Traders) \in Int
    BY FeesType
  <2> QED  BY <1>2, <1>3, <1>9, <2>1, <2>3, <2>4, <2>5
<1>11. i \notin Orders!Completed /\ Orders!Completed' = Orders!Completed \cup {i}
  BY <1>1, <1>5 DEF Orders!Completed, o
<1>12. SumFunctionOnSet(Orders!Fees', Orders!Completed') = fee + SumFunctionOnSet(Orders!Fees, Orders!Completed)
  <2>1. /\ \A j \in DOMAIN orders : Orders!Fees'[j] = Orders!Fees[j]
        /\ Orders!Fees[i] = fee
    BY <1>5 DEF Orders!Fees, fee, x
  <2>2. \A j \in Orders!Completed \cup {i} : Orders!Fees'[j] = Orders!Fees[j] /\ Orders!Fees[j] \in Int
    BY <2>1, FeesType
  <2>3. IsFiniteSet(Orders!Completed) /\ IsFiniteSet(Orders!Completed \cup {i})
    BY FeesType, FS_AddElement
  <2>4. SumFunctionOnSet(Orders!Fees', Orders!Completed \cup {i})
          = SumFunctionOnSet(Orders!Fees, Orders!Completed \cup {i})
    BY <2>2, <2>3, SumExtensional
  <2>5. SumFunctionOnSet(Orders!Fees, Orders!Completed \cup {i})
          = Orders!Fees[i] + SumFunctionOnSet(Orders!Fees, Orders!Completed)
    BY <1>11, <2>2, <2>3, SumWith
  <2> QED  BY <1>11, <2>1, <2>4, <2>5
<1>13. Orders!SumFunctionOnSet(logged', Traders) + Orders!SumFunctionOnSet(Orders!Fees', Orders!Completed') = 0
  <2>1. SumFunctionOnSet(logged, Traders) + SumFunctionOnSet(Orders!Fees, Orders!Completed) = 0
    BY SumOfOrders DEF Orders!OrdersBalance
  <2>2. SumFunctionOnSet(logged', Traders) + SumFunctionOnSet(Orders!Fees', Orders!Completed') = 0
    BY <1>3, <1>10, <1>12, <2>1, FeesType
  <2> QED  BY <2>2, SumOfOrders
<1>14. ASSUME NEW w \in Traders
       PROVE  /\ account'[w] = Means + logged'[w]
              /\ account'[w] < 0 => \E j \in Orders!Completed' :
                                       orders'[j].by = w /\ orders'[j].type = "buy_compute"
  <2>1. /\ account[w] = Means + logged[w]
        /\ account[w] < 0 => \E j \in Orders!Completed : orders[j].by = w /\ orders[j].type = "buy_compute"
    BY DEF Orders!OrdersBalance
  <2>2. account'[w] = Means + logged'[w]
    BY <1>2, <1>3, <1>9, <2>1, TradeAssumption
  <2>3. CASE account[w] < 0
    <3>1. PICK j \in Orders!Completed : orders[j].by = w /\ orders[j].type = "buy_compute"
      BY <2>1, <2>3
    <3>2. j \in Orders!Completed' /\ orders'[j] = orders[j]
      BY <1>5, <1>11, FeesType
    <3> QED  BY <2>2, <3>1, <3>2
  <2>4. CASE ~(account[w] < 0) /\ account'[w] < 0
    <3>1. w = b /\ w # u
      BY <1>2, <1>3, <1>9, <2>4
    <3>2. orders'[i].by = w /\ orders'[i].type = "buy_compute" /\ i \in Orders!Completed'
      BY <1>2, <1>5, <1>11, <3>1
    <3> QED  BY <2>2, <3>2
  <2> QED  BY <2>2, <2>3, <2>4
<1> QED  BY <1>8, <1>13, <1>14 DEF Orders!OrdersBalance

\* Whoever accepts what and in whatever order, the log explains every balance, nothing but
\* the fee of each accepted order is lost, and only one whose own offer to buy was
\* accepted ends below zero (market_service.py).
THEOREM OrdersAreBooked == Orders!Spec => []Orders!OrdersBalance
<1>1. MarketType /\ Orders!OrdersBalance /\ [Orders!Next]_(Orders!mvars)
        => MarketType' /\ Orders!OrdersBalance'
  <2> SUFFICES ASSUME MarketType, Orders!OrdersBalance, [Orders!Next]_(Orders!mvars)
               PROVE  MarketType' /\ Orders!OrdersBalance'
    OBVIOUS
  <2>1. CASE UNCHANGED Orders!mvars
    BY <2>1 DEF Orders!mvars, MarketType, Orders!OrdersBalance, Orders!Completed, Orders!Fees
  <2> QED  BY <2>1, CreateOrderKeeps, AcceptOrderKeeps DEF Orders!Next, Orders!MarketRequest
<1> QED  BY MarketOpens, <1>1, PTL DEF Orders!Spec

-----------------------------------------------------------------------------
(* Growth *)

\* A pet's level and experience
Growth == Nat \X Int
Stays(p) == p[2] < p[1] * ExpPerLevel
Up(p) == << p[1] + 1, p[2] - p[1] * ExpPerLevel >>
Grows(g) == g = [p \in Growth |-> IF Stays(p) THEN p ELSE g[Up(p)]]

LEMMA GrownUnfold ==
  ASSUME NEW level, NEW e
  PROVE  Camp!Grown(level, e) = (CHOOSE g : Grows(g))[<< level, e >>]
BY DEF Camp!Grown, Grows, Growth, Stays, Up

\* Where a growth ends, if it does: what every set that is closed under growth contains
Ends(p) ==
  {q \in Growth : Stays(q) /\ \A S \in SUBSET Growth :
                    p \in S /\ (\A r \in S : ~Stays(r) => Up(r) \in S) => q \in S}

LEMMA UpIsGrowth == ASSUME ExpPerLevel \in Nat, NEW p \in Growth PROVE Up(p) \in Growth
<1>1. p[1] \in Nat /\ p[2] \in Int
  BY DEF Growth
<1>2. p[1] * ExpPerLevel \in Int
  BY <1>1
<1> QED  BY <1>1, <1>2 DEF Growth, Up

LEMMA EndsOfStaying == ASSUME NEW p \in Growth, Stays(p) PROVE Ends(p) = {p}
<1>1. p \in Ends(p)
  BY DEF Ends
<1>2. ASSUME NEW q \in Ends(p) PROVE q = p
  <2>1. {p} \in SUBSET Growth /\ \A r \in {p} : ~Stays(r) => Up(r) \in {p}
    OBVIOUS
  <2> QED  BY <2>1 DEF Ends
<1> QED  BY <1>1, <1>2

LEMMA EndsGoUp == ASSUME ExpPerLevel \in Nat, NEW p \in Growth, ~Stays(p) PROVE Ends(p) = Ends(Up(p))
<1>1. Up(p) \in Growth
  BY UpIsGrowth
<1>2. ASSUME NEW q \in Ends(p) PROVE q \in Ends(Up(p))
  <2> SUFFICES ASSUME NEW S \in SUBSET Growth, Up(p) \in S, \A r \in S : ~Stays(r) => Up(r) \in S
               PROVE  q \in S
    BY DEF Ends
  <2>1. S \cup {p} \in SUBSET Growth /\ \A r \in S \cup {p} : ~Stays(r) => Up(r) \in S \cup {p}
    OBVIOUS
  <2>2. q \in S \cup {p} /\ Stays(q)
    BY <2>1 DEF Ends
  <2> QED  BY <2>2
<1>3. ASSUME NEW q \in Ends(Up(p)) PROVE q \in Ends(p)
  <2> SUFFICES ASSUME NEW S \in SUBSET Growth, p \in S, \A r \in S : ~Stays(r) => Up(r) \in S
               PROVE  q \in S
    BY <1>3 DEF Ends
  <2> QED  BY DEF Ends
<1> QED  BY <1>2, <1>3

LEMMA GrowthExists == ASSUME ExpPerLevel \in Nat PROVE \E g : Grows(g)
<1> DEFINE g == [p \in Growth |-> CHOOSE q \in Ends(p) : TRUE]
<1>1. ASSUME NEW p \in Growth PROVE g[p] = IF Stays(p) THEN p ELSE g[Up(p)]
  <2>1. CASE Stays(p)
    BY <2>1, EndsOfStaying
  <2>2. CASE ~Stays(p)
    BY <2>2, UpIsGrowth, EndsGoUp
  <2> QED  BY <2>1, <2>2
<1>2. g = [p \in Growth |-> g[p]]
  OBVIOUS
<1> HIDE DEF g
<1> QED  BY <1>1, <1>2 DEF Grows

\* From the first level on, growth stops.
LEMMA GrowthStops ==
  ASSUME ExpPerLevel \in Nat \ {0}, NEW g, Grows(g), NEW l \in Nat \ {0}, NEW x \in Int
  PROVE  g[<< l, x >>] \in (Nat \ {0}) \X Int /\ Stays(g[<< l, x >>])
<1> DEFINE Goes(n, y) == g[<< n, y >>] \in (Nat \ {0}) \X Int /\ Stays(g[<< n, y >>])
           Bad == {y \in Nat : \E n \in Nat \ {0} : ~Goes(n, y)}
<1>1. ASSUME NEW n \in Nat \ {0}, NEW y \in Int
      PROVE  /\ y < n * ExpPerLevel => Goes(n, y)
             /\ ~(y < n * ExpPerLevel) => /\ g[<< n, y >>] = g[<< n + 1, y - n * ExpPerLevel >>]
                                          /\ y - n * ExpPerLevel \in Nat /\ y \in Nat
                                          /\ y - n * ExpPerLevel < y
  <2>1. << n, y >> \in Growth /\ << n, y >> \in (Nat \ {0}) \X Int
    BY DEF Growth
  <2>2. g[<< n, y >>] = IF Stays(<< n, y >>) THEN << n, y >> ELSE g[Up(<< n, y >>)]
    BY <2>1 DEF Grows
  <2>3. Stays(<< n, y >>) <=> y < n * ExpPerLevel
    BY DEF Stays
  <2>4. n * ExpPerLevel \in Nat /\ n * ExpPerLevel > 0
    BY SMTT(30)
  <2>5. Up(<< n, y >>) = << n + 1, y - n * ExpPerLevel >>
    BY DEF Up
  <2> DEFINE need == n * ExpPerLevel
  <2> HIDE DEF need
  <2> QED  BY <2>1, <2>2, <2>3, <2>4, <2>5 DEF need
<1>2. Bad = {}
  <2> SUFFICES ASSUME Bad # {} PROVE FALSE
    OBVIOUS
  <2>1. PICK y \in Bad : \A z \in Bad : y <= z
    BY LeastNumber
  <2>2. PICK n \in Nat \ {0} : ~Goes(n, y)
    OBVIOUS
  <2>3. /\ g[<< n, y >>] = g[<< n + 1, y - n * ExpPerLevel >>]
        /\ y - n * ExpPerLevel \in Nat /\ y - n * ExpPerLevel < y
    <3>1. y \in Int
      OBVIOUS
    <3>2. /\ y < n * ExpPerLevel => Goes(n, y)
          /\ ~(y < n * ExpPerLevel) => /\ g[<< n, y >>] = g[<< n + 1, y - n * ExpPerLevel >>]
                                       /\ y - n * ExpPerLevel \in Nat /\ y \in Nat
                                       /\ y - n * ExpPerLevel < y
      BY <1>1, <3>1
    <3> HIDE DEF Goes
    <3> QED  BY <2>2, <3>2
  <2>4. PICK z : z = y - n * ExpPerLevel
    OBVIOUS
  <2>5. z \in Nat /\ z < y /\ g[<< n, y >>] = g[<< n + 1, z >>]
    BY <2>3, <2>4
  <2>6. ~Goes(n + 1, z)
    BY <2>2, <2>5
  <2>7. z \in Bad
    BY <2>5, <2>6
  <2> QED  BY <2>1, <2>5, <2>7
<1>3. CASE x \in Nat
  BY <1>2, <1>3
<1>4. CASE x \notin Nat
  BY <1>1, <1>4
<1> QED  BY <1>3, <1>4

LEMMA GrownIs ==
  ASSUME ExpPerLevel \in Nat \ {0}, NEW l \in Nat \ {0}, NEW e \in Int
  PROVE  LET g == Camp!Grown(l, e)
         IN  g[1] \in Nat \ {0} /\ g[2] \in Int /\ g[2] < g[1] * ExpPerLevel
<1> DEFINE g == CHOOSE h : Grows(h)
<1>1. Grows(g)
  BY GrowthExists
<1> HIDE DEF g
<1>2. g[<< l, e >>] \in (Nat \ {0}) \X Int /\ Stays(g[<< l, e >>])
  BY <1>1, GrowthStops
<1>3. Camp!Grown(l, e) = g[<< l, e >>]
  BY GrownUnfold DEF g
<1> QED  BY <1>2, <1>3 DEF Stays

-----------------------------------------------------------------------------
(* Teams *)

OnceEach(s) == \A i \in 1 .. Len(s), j \in 1 .. Len(s) : s[i] = s[j] => i = j
Team == {s \in Seq(Pets) : Len(s) <= MaxMembers /\ OnceEach(s)}

\* Counting the pets of a team and its places is the same.
LEMMA TeamCounted ==
  ASSUME NEW s \in Team
  PROVE  Camp!Cardinality(Camp!Range(s)) = Len(s)
<1>1. s \in Seq(Pets) /\ Len(s) \in Nat /\ DOMAIN s = 1 .. Len(s) /\ OnceEach(s)
  BY DEF Team
<1>2. Camp!Range(s) = {s[i] : i \in 1 .. Len(s)}
  BY <1>1 DEF Camp!Range
<1> DEFINE R == {s[i] : i \in 1 .. Len(s)}
           f == [i \in 1 .. Len(s) |-> s[i]]
<1>3. f \in Bijection(1 .. Len(s), R)
  BY <1>1 DEF Bijection, Injection, IsInjective, Surjection, OnceEach
<1>4. IsFiniteSet(1 .. Len(s)) /\ Cardinality(1 .. Len(s)) = Len(s)
  BY <1>1, FS_Interval
<1> HIDE DEF f, R
<1>5. Cardinality(R) = Len(s)
  BY <1>3, <1>4, FS_Bijection DEF ExistsBijection
<1>6. Camp!Cardinality(R) = Cardinality(R)
  BY DEF Camp!Cardinality, Cardinality
<1> QED  BY <1>2, <1>5, <1>6 DEF R

LEMMA TeamJoined ==
  ASSUME NEW s \in Team, NEW p \in Pets, Len(s) < MaxMembers, p \notin Camp!Range(s)
  PROVE  Append(s, p) \in Team
<1>1. s \in Seq(Pets) /\ Len(s) \in Nat /\ DOMAIN s = 1 .. Len(s) /\ OnceEach(s)
  BY DEF Team
<1> DEFINE t == Append(s, p)
<1>2. /\ t \in Seq(Pets) /\ Len(t) = Len(s) + 1 /\ t[Len(s) + 1] = p
      /\ \A i \in 1 .. Len(s) : t[i] = s[i]
  BY <1>1, AppendProperties
<1>3. \A i \in 1 .. Len(s) : s[i] # p
  BY <1>1 DEF Camp!Range
<1> HIDE DEF t
<1>4. OnceEach(t)
  <2> SUFFICES ASSUME NEW i \in 1 .. Len(s) + 1, NEW j \in 1 .. Len(s) + 1, t[i] = t[j] PROVE i = j
    BY <1>2 DEF OnceEach
  <2>1. (i \in 1 .. Len(s) \/ i = Len(s) + 1) /\ (j \in 1 .. Len(s) \/ j = Len(s) + 1)
    BY <1>1
  <2> QED  BY <1>1, <1>2, <1>3, <2>1 DEF OnceEach
<1>5. Len(t) <= MaxMembers
  BY <1>1, <1>2, CampAssumption
<1> QED  BY <1>2, <1>4, <1>5 DEF Team, t

LEMMA TeamLeft ==
  ASSUME NEW s \in Team, NEW p \in Pets
  PROVE  Camp!RemoveFirst(s, p) \in Team
<1>1. s \in Seq(Pets) /\ Len(s) \in Nat /\ DOMAIN s = 1 .. Len(s) /\ OnceEach(s) /\ Len(s) <= MaxMembers
  BY DEF Team
<1>2. CASE ~ \E i \in 1 .. Len(s) : s[i] = p
  BY <1>2 DEF Camp!RemoveFirst
<1>3. CASE \E i \in 1 .. Len(s) : s[i] = p
  <2> DEFINE I == {i \in 1 .. Len(s) : s[i] = p}
  <2>1. PICK n \in I : \A m \in I : n <= m
    <3>1. I \in SUBSET Nat /\ I # {}
      BY <1>3
    <3> HIDE DEF I
    <3> QED  BY <3>1, LeastNumber
  <2>2. PICK k \in 1 .. Len(s) : Camp!RemoveFirst(s, p) = SubSeq(s, 1, k - 1) \o SubSeq(s, k + 1, Len(s))
    <3> DEFINE k == CHOOSE x \in I : \A y \in I : x <= y
    <3>1. k \in I
      <4> HIDE DEF I
      <4> QED  BY <2>1
    <3>2. Camp!RemoveFirst(s, p) = SubSeq(s, 1, k - 1) \o SubSeq(s, k + 1, Len(s))
      BY <1>3 DEF Camp!RemoveFirst, Camp!RemoveAt, Camp!SelectInSeq, Camp!Min
    <3> HIDE DEF k
    <3> QED  BY <3>1, <3>2
  <2> DEFINE a == SubSeq(s, 1, k - 1)
             b == SubSeq(s, k + 1, Len(s))
             t == a \o b
             At(i) == IF i < k THEN i ELSE i + 1
  <2>3. a \in Seq(Pets) /\ Len(a) = k - 1 /\ \A i \in 1 .. k - 1 : a[i] = s[i]
    <3>1. 1 \in Int /\ k - 1 \in Int /\ \A i \in 1 .. k - 1 : s[i] \in Pets
      BY <1>1
    <3>2. /\ a \in Seq(Pets) /\ Len(a) = IF 1 <= k - 1 THEN k - 1 - 1 + 1 ELSE 0
          /\ \A i \in 1 .. k - 1 - 1 + 1 : a[i] = s[1 + i - 1]
      BY <3>1, SubSeqProperties
    <3> QED  BY <3>2
  <2>4. b \in Seq(Pets) /\ Len(b) = Len(s) - k /\ \A i \in 1 .. Len(s) - k : b[i] = s[i + k]
    <3>1. k + 1 \in Int /\ Len(s) \in Int /\ \A i \in k + 1 .. Len(s) : s[i] \in Pets
      BY <1>1
    <3>2. /\ b \in Seq(Pets) /\ Len(b) = IF k + 1 <= Len(s) THEN Len(s) - (k + 1) + 1 ELSE 0
          /\ \A i \in 1 .. Len(s) - (k + 1) + 1 : b[i] = s[k + 1 + i - 1]
      BY <3>1, SubSeqProperties
    <3> QED  BY <1>1, <3>2
  <2> HIDE DEF a, b
  <2>5. t \in Seq(Pets) /\ Len(t) = Len(s) - 1
    <3>1. t \in Seq(Pets) /\ Len(t) = Len(a) + Len(b)
      BY <2>3, <2>4, ConcatProperties
    <3> QED  BY <1>1, <2>3, <2>4, <3>1
  <2>6. ASSUME NEW i \in 1 .. Len(s) - 1 PROVE At(i) \in 1 .. Len(s) /\ t[i] = s[At(i)]
    <3>1. t[i] = IF i <= Len(a) THEN a[i] ELSE b[i - Len(a)]
      BY <1>1, <2>3, <2>4, ConcatProperties
    <3>2. CASE i < k
      BY <1>1, <2>3, <3>1, <3>2
    <3>3. CASE ~(i < k)
      <4>1. i - (k - 1) \in 1 .. Len(s) - k /\ i - (k - 1) + k = i + 1
        BY <1>1, <3>3
      <4> QED  BY <1>1, <2>3, <2>4, <3>1, <3>3, <4>1
    <3> QED  BY <3>2, <3>3
  <2> HIDE DEF t
  <2>7. OnceEach(t)
    <3> SUFFICES ASSUME NEW i \in 1 .. Len(s) - 1, NEW j \in 1 .. Len(s) - 1, t[i] = t[j] PROVE i = j
      BY <2>5 DEF OnceEach
    <3>1. At(i) = At(j)
      <4> HIDE DEF At
      <4> QED  BY <1>1, <2>6 DEF OnceEach
    <3> QED  BY <3>1
  <2>8. Camp!RemoveFirst(s, p) = t
    BY <2>2 DEF t, a, b
  <2>9. Len(t) <= MaxMembers
    BY <1>1, <2>5, CampAssumption
  <2> QED  BY <2>5, <2>7, <2>8, <2>9 DEF Team
<1> QED  BY <1>2, <1>3

-----------------------------------------------------------------------------
(* Pets and the base *)

AnyPet == [alive: BOOLEAN, camp: Camps, rank: 1 .. Ranks, level: Nat \ {0}, exp: Int, slots: 0 .. MaxSlots]
Pet == {p \in AnyPet : p.exp < p.level * ExpPerLevel}
Facility == [level: Nat, last: Nat, captain: Pets \cup {0}, members: Team]

CampType ==
  /\ res \in [Resources -> Nat] /\ pet \in [Pets -> Pet] /\ fac \in [Facilities -> Facility]
  /\ now \in Nat /\ failures \in Nat /\ paid \in [Facilities -> Nat]

\* What was paid of a facility is its time up to the last collection, and MaxHours more
\* for each failure.
HoursSettled == \A f \in Facilities : fac[f].last <= now /\ paid[f] <= fac[f].last + MaxHours * failures

CampInv == CampType /\ HoursSettled

LEMMA CampClaims == CampInv => Camp!HoursPaidOnce /\ Camp!TeamsInBounds
<1> SUFFICES ASSUME CampInv PROVE Camp!HoursPaidOnce /\ Camp!TeamsInBounds
  OBVIOUS
<1>1. Camp!HoursPaidOnce
  BY DEF CampInv, CampType, HoursSettled, Camp!HoursPaidOnce
<1>2. ASSUME NEW f \in Facilities
      PROVE  /\ Len(fac[f].members) <= MaxMembers
             /\ Camp!Cardinality(Camp!Range(fac[f].members)) = Len(fac[f].members)
  <2>1. fac[f].members \in Team
    BY DEF CampInv, CampType, Facility
  <2> QED  BY <2>1, TeamCounted DEF Team
<1>3. ASSUME NEW p \in Pets PROVE pet[p].slots <= MaxSlots /\ pet[p].exp < pet[p].level * ExpPerLevel
  <2>1. pet[p] \in Pet
    BY DEF CampInv, CampType
  <2> QED  BY <2>1, CampAssumption DEF Pet, AnyPet
<1> QED  BY <1>1, <1>2, <1>3 DEF Camp!TeamsInBounds

LEMMA NoPetType == Camp!NoPet \in Pet /\ Camp!NoPet.level = 1 /\ Camp!NoPet.exp = 0
<1>1. (CHOOSE c \in Camps : TRUE) \in Camps
  BY CampAssumption
<1>2. 0 < 1 * ExpPerLevel
  BY CampAssumption
<1> QED  BY <1>1, <1>2, CampAssumption DEF Camp!NoPet, Pet, AnyPet

LEMMA MoreTimes ==
  ASSUME NEW h \in Nat, NEW m \in Nat, NEW n \in Nat, m <= n
  PROVE  h * m \in Nat /\ h * n \in Nat /\ h * m <= h * n
<1>1. PICK d \in Nat : n = m + d
  <2>1. n - m \in Nat /\ n = m + (n - m)
    OBVIOUS
  <2> QED  BY <2>1
<1>2. h * (m + d) = h * m + h * d /\ h * m \in Nat /\ h * d \in Nat
  BY SMT
<1> DEFINE a == h * m
           c == h * d
<1> HIDE DEF a, c
<1>3. a \in Nat /\ c \in Nat /\ a <= a + c
  BY <1>2 DEF a, c
<1> QED  BY <1>1, <1>2, <1>3 DEF a, c

\* A change of pets moves no hour.
LEMMA PetsChange ==
  ASSUME CampInv, UNCHANGED << fac, now, paid >>, failures' \in Nat, failures <= failures',
         pet' \in [Pets -> Pet], res' \in [Resources -> Nat]
  PROVE  CampInv'
<1>1. MaxHours * failures <= MaxHours * failures' /\ MaxHours * failures \in Nat /\ MaxHours * failures' \in Nat
  <2>1. failures \in Nat /\ MaxHours \in Nat
    BY CampAssumption DEF CampInv, CampType
  <2> QED  BY <2>1, MoreTimes
<1>2. CampType'
  BY DEF CampInv, CampType
<1>3. HoursSettled'
  <2> DEFINE b == MaxHours * failures
             c == MaxHours * failures'
  <2>1. b \in Nat /\ c \in Nat /\ b <= c
    BY <1>1
  <2>2. \A f \in Facilities : fac[f].last <= now /\ paid[f] <= fac[f].last + b /\ fac[f].last \in Nat /\ paid[f] \in Nat
    BY DEF CampInv, CampType, HoursSettled, Facility
  <2> HIDE DEF b, c
  <2>3. \A f \in Facilities : fac[f].last <= now /\ paid[f] <= fac[f].last + c
    BY <2>1, <2>2
  <2> QED  BY <2>3 DEF HoursSettled, c
<1> QED  BY <1>2, <1>3 DEF CampInv

\* What is paid for is covered.
LEMMA PaysKeeps ==
  ASSUME CampInv, NEW r, NEW x \in Nat, Camp!Enough(r, x), res' = [res EXCEPT ![r] = @ - x]
  PROVE  res' \in [Resources -> Nat]
<1>1. res \in [Resources -> Nat]
  BY DEF CampInv, CampType
<1>2. CASE r \in Resources
  <2>1. res[r] \in Nat /\ res[r] >= x
    BY <1>1, <1>2 DEF Camp!Enough
  <2>2. res[r] - x \in Nat
    BY <2>1
  <2> QED  BY <1>1, <1>2, <2>2
<1>3. CASE r \notin Resources
  <2>1. res' = res
    BY <1>1, <1>3
  <2> QED  BY <1>1, <2>1
<1> QED  BY <1>2, <1>3

LEMMA FailsType ==
  ASSUME CampInv, failures' = failures \/ Camp!Fails
  PROVE  failures' \in Nat /\ failures <= failures'
BY DEF CampInv, CampType, Camp!Fails

LEMMA CreatePetKeeps ==
  ASSUME CampInv, NEW p \in Pets, NEW c \in Camps, NEW k \in 1 .. Ranks, Camp!CreatePet(p, c, k)
  PROVE  CampInv'
<1> DEFINE new == [Camp!NoPet EXCEPT !.alive = TRUE, !.camp = c, !.rank = k, !.slots = SkillSlots[k]]
<1>1. new \in Pet
  <2>1. SkillSlots[k] \in 0 .. MaxSlots
    BY CampAssumption
  <2>2. /\ new \in AnyPet /\ new.level = Camp!NoPet.level /\ new.exp = Camp!NoPet.exp
    BY <2>1, NoPetType DEF Pet, AnyPet
  <2> HIDE DEF new
  <2> QED  BY <2>2, NoPetType DEF Pet
<1>2. pet' = [pet EXCEPT ![p] = new] /\ UNCHANGED << res, fac, now, paid, failures >>
  BY DEF Camp!CreatePet
<1> HIDE DEF new
<1> QED  BY <1>1, <1>2, PetsChange DEF CampInv, CampType

LEMMA PetRequestKeeps ==
  ASSUME CampInv, NEW p \in Pets, Camp!PetRequest(p)
  PROVE  CampInv'
<1>1. /\ pet \in [Pets -> Pet] /\ res \in [Resources -> Nat] /\ pet[p] \in Pet /\ failures \in Nat
      /\ pet[p].rank \in 1 .. Ranks /\ pet[p].level \in Nat \ {0} /\ pet[p].exp \in Int
      /\ pet[p].slots \in 0 .. MaxSlots /\ pet[p].exp < pet[p].level * ExpPerLevel
  BY DEF CampInv, CampType, Pet, AnyPet
<1>2. ASSUME NEW q \in Pet, pet' = [pet EXCEPT ![p] = q]
      PROVE  pet' \in [Pets -> Pet]
  BY <1>1, <1>2
<1>3. CASE \E x \in Meals : Camp!Feed(p, x)
  <2>1. PICK x \in Meals : Camp!Feed(p, x)
    BY <1>3
  <2>2. pet[p].exp + x \in Int
    BY <1>1, CampAssumption
  <2>3. PICK g : g = Camp!Grown(pet[p].level, pet[p].exp + x)
    OBVIOUS
  <2>4. g[1] \in Nat \ {0} /\ g[2] \in Int /\ g[2] < g[1] * ExpPerLevel
    BY <1>1, <2>2, <2>3, GrownIs, CampAssumption
  <2> DEFINE q == [pet[p] EXCEPT !.level = g[1], !.exp = g[2]]
  <2>5. q \in AnyPet /\ q.level = g[1] /\ q.exp = g[2]
    BY <1>1, <2>4 DEF Pet, AnyPet
  <2>6. pet' = [pet EXCEPT ![p] = q] /\ UNCHANGED << res, fac, now, paid, failures >>
    BY <1>1, <2>1, <2>3 DEF Camp!Feed
  <2> HIDE DEF q
  <2>7. q \in Pet
    BY <2>4, <2>5 DEF Pet
  <2> QED  BY <1>1, <1>2, <2>6, <2>7, PetsChange
<1>4. CASE Camp!Evolve(p)
  <2> DEFINE next == pet[p].rank + 1
             q == [pet[p] EXCEPT !.rank = next, !.slots = SkillSlots[next]]
  <2>1. next \in 1 .. Ranks /\ SkillSlots[next] \in 0 .. MaxSlots
    BY <1>1, <1>4, CampAssumption DEF Camp!Evolve
  <2>2. q \in AnyPet /\ q.level = pet[p].level /\ q.exp = pet[p].exp
    BY <1>1, <2>1 DEF Pet, AnyPet
  <2>3. /\ pet' = pet \/ pet' = [pet EXCEPT ![p] = q]
        /\ failures' = failures \/ Camp!Fails
        /\ Camp!Enough(Stones, pet[p].rank) /\ res' = [res EXCEPT ![Stones] = @ - pet[p].rank]
        /\ UNCHANGED << fac, now, paid >>
    BY <1>1, <1>4 DEF Camp!Evolve, Camp!Pays
  <2> HIDE DEF q, next
  <2>4. q \in Pet
    BY <1>1, <2>2 DEF Pet
  <2>5. res' \in [Resources -> Nat] /\ failures' \in Nat /\ failures <= failures'
    <3>1. pet[p].rank \in Nat
      BY <1>1, CampAssumption
    <3> QED  BY <2>3, <3>1, PaysKeeps, FailsType
  <2> QED  BY <1>1, <1>2, <2>3, <2>4, <2>5, PetsChange
<1>5. CASE Camp!Strengthen(p)
  <2>1. /\ pet' = pet
        /\ failures' = failures \/ Camp!Fails
        /\ Camp!Enough(Stones, 1) /\ res' = [res EXCEPT ![Stones] = @ - 1]
        /\ UNCHANGED << fac, now, paid >>
    BY <1>5 DEF Camp!Strengthen, Camp!Pays
  <2>2. res' \in [Resources -> Nat] /\ failures' \in Nat /\ failures <= failures'
    BY <1>1, <2>1, PaysKeeps, FailsType
  <2> QED  BY <1>1, <2>1, <2>2, PetsChange
<1>6. CASE Camp!Awaken(p)
  <2> DEFINE q == [pet[p] EXCEPT !.slots = @ + 1]
  <2>0. pet[p].slots + 1 \in 0 .. MaxSlots
    BY <1>1, <1>6, CampAssumption DEF Camp!Awaken
  <2>1. q \in AnyPet /\ q.level = pet[p].level /\ q.exp = pet[p].exp
    BY <1>1, <2>0 DEF Pet, AnyPet
  <2>2. /\ pet' = pet \/ pet' = [pet EXCEPT ![p] = q]
        /\ failures' = failures \/ Camp!Fails
        /\ Camp!Enough(Stones, 1) /\ res' = [res EXCEPT ![Stones] = @ - 1]
        /\ UNCHANGED << fac, now, paid >>
    BY <1>1, <1>6 DEF Camp!Awaken, Camp!Pays
  <2> HIDE DEF q
  <2>3. q \in Pet
    BY <1>1, <2>1 DEF Pet
  <2>4. res' \in [Resources -> Nat] /\ failures' \in Nat /\ failures <= failures'
    BY <1>1, <2>2, PaysKeeps, FailsType
  <2> QED  BY <1>1, <1>2, <2>2, <2>3, <2>4, PetsChange
<1>7. CASE Camp!Release(p)
  <2> DEFINE q == [pet[p] EXCEPT !.alive = FALSE]
  <2>1. q \in AnyPet /\ q.level = pet[p].level /\ q.exp = pet[p].exp
    BY <1>1 DEF Pet, AnyPet
  <2>2. pet' = [pet EXCEPT ![p] = q] /\ UNCHANGED << res, fac, now, paid, failures >>
    BY <1>1, <1>7 DEF Camp!Release
  <2> HIDE DEF q
  <2>3. q \in Pet
    BY <1>1, <2>1 DEF Pet
  <2> QED  BY <1>1, <1>2, <2>2, <2>3, PetsChange
<1> QED  BY <1>3, <1>4, <1>5, <1>6, <1>7 DEF Camp!PetRequest

\* A request at a facility that leaves its clock alone
LEMMA SameHours ==
  ASSUME CampInv, NEW f \in Facilities, NEW q \in Facility, q.last = fac[f].last,
         fac' = [fac EXCEPT ![f] = q], UNCHANGED << res, pet, now, paid, failures >>
  PROVE  CampInv'
<1>1. fac \in [Facilities -> Facility]
  BY DEF CampInv, CampType
<1>2. CampType'
  BY <1>1 DEF CampInv, CampType
<1>3. \A h \in Facilities : fac'[h].last = fac[h].last
  BY <1>1
<1>4. HoursSettled'
  BY <1>3 DEF CampInv, HoursSettled
<1> QED  BY <1>2, <1>4 DEF CampInv

\* At most the hours since the last collection are paid, and never more than MaxHours.
LEMMA ElapsedType ==
  ASSUME CampInv, NEW f \in Facilities
  PROVE  /\ Camp!Elapsed(f) \in Nat /\ Camp!Elapsed(f) <= MaxHours
         /\ fac[f].last + Camp!Elapsed(f) <= now
<1>1. fac[f].last \in Nat /\ now \in Nat /\ fac[f].last <= now /\ MaxHours \in Nat
  BY CampAssumption DEF CampInv, CampType, HoursSettled, Facility
<1> QED  BY <1>1 DEF Camp!Elapsed

LEMMA RateType ==
  ASSUME CampInv, NEW f \in Facilities
  PROVE  Camp!Rate(f) \in Nat
<1>1. fac[f].level \in Nat /\ Len(fac[f].members) \in Nat
  BY DEF CampInv, CampType, Facility, Team
<1> DEFINE leads == fac[f].captain # 0 /\ pet[fac[f].captain].alive
                    /\ pet[fac[f].captain].camp \in CaptainCamps[f]
           head == IF leads THEN 4 ELSE 0
<1>2. PICK n \in {0, 4} : n = head
  OBVIOUS
<1>3. Camp!Rate(f) = fac[f].level * (2 + head + Len(fac[f].members))
  BY DEF Camp!Rate
<1> HIDE DEF head
<1>4. PICK m \in Nat : m = Len(fac[f].members)
  BY <1>1
<1>5. PICK size \in Nat : size = 2 + n + m
  <2>1. 2 + n + m \in Nat
    BY <1>2
  <2> QED  BY <2>1
<1>6. fac[f].level * size \in Nat
  BY <1>1, <1>5, MoreTimes
<1> QED  BY <1>2, <1>3, <1>4, <1>5, <1>6

LEMMA CollectKeeps ==
  ASSUME CampInv, NEW f \in Facilities, Camp!Collect(f)
  PROVE  CampInv'
<1> DEFINE hours == Camp!Elapsed(f)
           produced == (Camp!Rate(f) * hours) \div 2
           counted == MaxHours * failures
           owed == MaxHours * failures'
<1>1. hours \in Nat /\ hours <= MaxHours /\ fac[f].last + hours <= now
  BY ElapsedType
<1>2. /\ produced > 0
      /\ res' = [res EXCEPT ![Output[f]] = @ + produced]
      /\ paid' = [paid EXCEPT ![f] = @ + hours]
      /\ \/ fac' = [fac EXCEPT ![f].last = now] /\ failures' = failures
         \/ failures' = failures + 1 /\ fac' = fac
      /\ UNCHANGED << pet, now >>
  BY DEF Camp!Collect, Camp!Fails
<1>3. /\ res \in [Resources -> Nat] /\ pet \in [Pets -> Pet] /\ fac \in [Facilities -> Facility]
      /\ now \in Nat /\ failures \in Nat /\ paid \in [Facilities -> Nat] /\ MaxHours \in Nat
  BY CampAssumption DEF CampInv, CampType
<1>4. produced \in Nat
  <2>1. Camp!Rate(f) * hours \in Nat
    BY <1>1, RateType, MoreTimes
  <2> DEFINE n == Camp!Rate(f) * hours
  <2> HIDE DEF n, hours
  <2>2. n \div 2 \in Nat
    BY <2>1 DEF n
  <2> QED  BY <2>2 DEF n
<1> HIDE DEF hours, produced
<1>5. res' \in [Resources -> Nat]
  <2>1. Output[f] \in Resources
    BY CampAssumption
  <2>2. res[Output[f]] + produced \in Nat
    BY <1>3, <1>4, <2>1
  <2> QED  BY <1>2, <1>3, <2>1, <2>2
<1>6. fac' \in [Facilities -> Facility] /\ \A h \in Facilities : h # f => fac'[h] = fac[h]
  BY <1>2, <1>3 DEF Facility
<1>7. paid' \in [Facilities -> Nat] /\ paid'[f] = paid[f] + hours
      /\ \A h \in Facilities : h # f => paid'[h] = paid[h]
  BY <1>1, <1>2, <1>3
<1>8. failures' \in Nat /\ failures <= failures'
  BY <1>2, <1>3
<1>9. CampType'
  BY <1>2, <1>3, <1>5, <1>6, <1>7, <1>8 DEF CampType
<1>10. /\ counted \in Nat /\ owed \in Nat /\ counted <= owed
       /\ failures' = failures + 1 => owed = counted + MaxHours
  <2>1. counted \in Nat /\ owed \in Nat /\ counted <= owed
    BY <1>3, <1>8, MoreTimes
  <2>2. MaxHours * (failures + 1) = MaxHours * failures + MaxHours
    BY <1>3, SMT
  <2> QED  BY <2>1, <2>2
<1>11. \A h \in Facilities : /\ fac[h].last <= now /\ paid[h] <= fac[h].last + counted
                             /\ fac[h].last \in Nat /\ paid[h] \in Nat
  BY <1>3 DEF CampInv, HoursSettled, Facility
<1>12. \/ fac'[f].last = now /\ owed = counted
       \/ fac'[f].last = fac[f].last /\ failures' = failures + 1
  BY <1>2, <1>3 DEF Facility
<1> HIDE DEF counted, owed
<1>13. fac'[f].last <= now /\ paid'[f] <= fac'[f].last + owed
  BY <1>1, <1>3, <1>7, <1>10, <1>11, <1>12
<1>14. \A h \in Facilities : h # f => fac'[h].last <= now /\ paid'[h] <= fac'[h].last + owed
  BY <1>6, <1>7, <1>10, <1>11
<1>15. HoursSettled'
  BY <1>2, <1>13, <1>14 DEF HoursSettled, owed
<1> QED  BY <1>9, <1>15 DEF CampInv

\* An upgrade starts the clock anew; what was due is lost.
LEMMA UpgradeKeeps ==
  ASSUME CampInv, NEW f \in Facilities, Camp!Upgrade(f)
  PROVE  CampInv'
<1> DEFINE q == [fac[f] EXCEPT !.level = @ + 1, !.last = now]
           owed == MaxHours * failures'
           counted == MaxHours * failures
<1>1. /\ pet \in [Pets -> Pet] /\ fac \in [Facilities -> Facility] /\ fac[f] \in Facility
      /\ now \in Nat /\ failures \in Nat /\ paid \in [Facilities -> Nat] /\ MaxHours \in Nat
      /\ fac[f].level + 1 \in Nat
  BY CampAssumption DEF CampInv, CampType, Facility
<1>2. /\ fac' = fac \/ fac' = [fac EXCEPT ![f] = q]
      /\ failures' = failures \/ Camp!Fails
      /\ Camp!Enough(CostOf[f], fac[f].level + 1)
      /\ res' = [res EXCEPT ![CostOf[f]] = @ - (fac[f].level + 1)]
      /\ UNCHANGED << pet, now, paid >>
  BY <1>1 DEF Camp!Upgrade, Camp!Pays
<1>3. q \in Facility /\ q.last = now
  BY <1>1 DEF Facility
<1> HIDE DEF q
<1>4. res' \in [Resources -> Nat] /\ failures' \in Nat /\ failures <= failures'
  BY <1>1, <1>2, PaysKeeps, FailsType
<1>5. fac' \in [Facilities -> Facility]
  BY <1>1, <1>2, <1>3
<1>6. CampType'
  BY <1>1, <1>2, <1>4, <1>5 DEF CampType
<1>7. counted \in Nat /\ owed \in Nat /\ counted <= owed
  BY <1>1, <1>4, MoreTimes
<1>8. \A h \in Facilities : /\ fac[h].last <= now /\ paid[h] <= fac[h].last + counted
                            /\ fac[h].last \in Nat /\ paid[h] \in Nat
  BY <1>1 DEF CampInv, HoursSettled, Facility
<1>9. \A h \in Facilities : fac'[h] = fac[h] \/ fac'[h].last = now
  BY <1>1, <1>2, <1>3
<1> HIDE DEF counted, owed
<1>10. \A h \in Facilities : fac'[h].last <= now /\ paid[h] <= fac'[h].last + owed
  BY <1>1, <1>7, <1>8, <1>9
<1>11. HoursSettled'
  BY <1>2, <1>10 DEF HoursSettled, owed
<1> QED  BY <1>6, <1>11 DEF CampInv

LEMMA BaseRequestKeeps ==
  ASSUME CampInv, NEW f \in Facilities, Camp!BaseRequest(f)
  PROVE  CampInv'
<1>1. fac \in [Facilities -> Facility] /\ fac[f] \in Facility /\ fac[f].members \in Team
  BY DEF CampInv, CampType, Facility
<1>2. ASSUME NEW p \in Pets, Camp!AssignCaptain(f, p) PROVE CampInv'
  <2> DEFINE q == [fac[f] EXCEPT !.captain = p]
  <2>1. q \in Facility /\ q.last = fac[f].last
    BY <1>1 DEF Facility
  <2>2. fac' = [fac EXCEPT ![f] = q] /\ UNCHANGED << res, pet, now, paid, failures >>
    BY <1>1, <1>2 DEF Camp!AssignCaptain
  <2> HIDE DEF q
  <2> QED  BY <2>1, <2>2, SameHours
<1>3. ASSUME NEW p \in Pets, Camp!AssignMember(f, p) PROVE CampInv'
  <2> DEFINE q == [fac[f] EXCEPT !.members = Append(@, p)]
  <2>1. Append(fac[f].members, p) \in Team
    BY <1>1, <1>3, TeamJoined DEF Camp!AssignMember, Camp!Joins
  <2>2. q \in Facility /\ q.last = fac[f].last
    BY <1>1, <2>1 DEF Facility
  <2>3. fac' = [fac EXCEPT ![f] = q] /\ UNCHANGED << res, pet, now, paid, failures >>
    BY <1>1, <1>3 DEF Camp!AssignMember
  <2> HIDE DEF q
  <2> QED  BY <2>2, <2>3, SameHours
<1>4. ASSUME NEW p \in Pets, Camp!RemoveMember(f, p) PROVE CampInv'
  <2> DEFINE q == [fac[f] EXCEPT !.members = Camp!RemoveFirst(@, p)]
  <2>1. Camp!RemoveFirst(fac[f].members, p) \in Team
    BY <1>1, TeamLeft
  <2>2. q \in Facility /\ q.last = fac[f].last
    BY <1>1, <2>1 DEF Facility
  <2>3. fac' = [fac EXCEPT ![f] = q] /\ UNCHANGED << res, pet, now, paid, failures >>
    BY <1>1, <1>4 DEF Camp!RemoveMember
  <2> HIDE DEF q
  <2> QED  BY <2>2, <2>3, SameHours
<1> QED  BY <1>2, <1>3, <1>4, UpgradeKeeps, CollectKeeps DEF Camp!BaseRequest

LEMMA CampOpens == Camp!Init => CampInv
<1> SUFFICES ASSUME Camp!Init PROVE CampInv
  OBVIOUS
<1>1. << >> \in Team
  BY CampAssumption DEF Team, OnceEach
<1>2. CampType
  BY <1>1, NoPetType DEF Camp!Init, CampType, Facility
<1>3. HoursSettled
  <2>1. MaxHours * 0 = 0
    BY CampAssumption
  <2> QED  BY <2>1 DEF Camp!Init, HoursSettled
<1> QED  BY <1>2, <1>3 DEF CampInv

LEMMA CampStep == CampInv /\ [Camp!Next]_(Camp!pvars) => CampInv'
<1> SUFFICES ASSUME CampInv, [Camp!Next]_(Camp!pvars) PROVE CampInv'
  OBVIOUS
<1>1. ASSUME NEW r \in Resources, NEW x \in Rewards, Camp!AddResource(r, x) PROVE CampInv'
  <2>1. /\ res' = [res EXCEPT ![r] = @ + x] /\ UNCHANGED << pet, fac, now, paid, failures >>
    BY <1>1 DEF Camp!AddResource
  <2>2. res' \in [Resources -> Nat] /\ pet' \in [Pets -> Pet] /\ failures' \in Nat /\ failures <= failures'
    BY <2>1, CampAssumption DEF CampInv, CampType
  <2> QED  BY <2>1, <2>2, PetsChange
<1>2. CASE Camp!Tick
  <2>1. now' = now + 1 /\ UNCHANGED << res, pet, fac, paid, failures >>
    BY <1>2 DEF Camp!Tick
  <2>2. CampType'
    BY <2>1 DEF CampInv, CampType
  <2>3. HoursSettled'
    BY <2>1 DEF CampInv, CampType, HoursSettled, Facility
  <2> QED  BY <2>2, <2>3 DEF CampInv
<1>3. CASE UNCHANGED Camp!pvars
  BY <1>3 DEF Camp!pvars, CampInv, CampType, HoursSettled
<1> QED  BY <1>1, <1>2, <1>3, PetRequestKeeps, CreatePetKeeps, BaseRequestKeeps DEF Camp!Next

\* Whatever requests and failing writes interleave in a base of any size, no hour of a
\* facility is paid twice but the MaxHours a failure makes payable again, no resource is
\* overdrawn, no pet counts twice in a team (pet_service.py, base_service.py); and orders of
\* the market are booked (market_service.py).
THEOREM NothingIsPaidTwice == Camp!Spec /\ Orders!Spec => []NothingPaidTwice
<1>1. Camp!Spec => [](Camp!HoursPaidOnce /\ Camp!TeamsInBounds)
  BY CampOpens, CampStep, CampClaims, PTL DEF Camp!Spec
<1> QED  BY <1>1, OrdersAreBooked, PTL DEF NothingPaidTwice
=============================================================================
