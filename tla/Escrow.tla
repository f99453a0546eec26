------------------------------- MODULE Escrow -------------------------------
(***************************************************************************)
(* What a service that freezes credits promises: an amount is taken from   *)
(* an account, held, and paid out once, to at most two accounts.  Credits  *)
(* may also move from account to account at once.  What is paid out may    *)
(* differ from what was held by Slack, the loss or gain of rounding two    *)
(* parts on their own.                                                     *)
(*                                                                         *)
(* The services for transfers (Transfers, Slack 0) and for group tasks     *)
(* (GroupTasks, Slack 1) implement this module.                            *)
(***************************************************************************)
EXTENDS Integers

CONSTANTS
  Accounts,  \* whatever has a balance: users, the pool of a group
  Deposits,  \* identities of deposits
  Amounts,   \* what may be moved, held or paid
  Slack      \* what rounding may add or take

VARIABLES
  balance,   \* what each account holds
  deposit    \* the deposits, absent before they are made

evars == << balance, deposit >>

Absent == [status |-> "absent", amount |-> 0]

Paid(b, a, x) == [b EXCEPT ![a] = @ + x]

Init ==
  /\ balance \in [Accounts -> Nat]
  /\ deposit = [d \in Deposits |-> Absent]

Move(a, b, x) ==
  /\ x <= balance[a]
  /\ balance' = Paid(Paid(balance, a, -x), b, x)
  /\ UNCHANGED deposit

Hold(d, a, x) ==
  /\ deposit[d].status = "absent"
  /\ x <= balance[a]
  /\ balance' = Paid(balance, a, -x)
  /\ deposit' = [deposit EXCEPT ![d] = [status |-> "held", amount |-> x]]

\* x to one account and y to another, both perhaps the same
Settle(d, a, b, x, y) ==
  /\ deposit[d].status = "held"
  /\ x + y - deposit[d].amount \in -Slack .. Slack
  /\ balance' = Paid(Paid(balance, a, x), b, y)
  /\ deposit' = [deposit EXCEPT ![d].status = "settled"]

Next ==
  \/ \E a, b \in Accounts, x \in Amounts : Move(a, b, x)
  \/ \E d \in Deposits, a \in Accounts, x \in Amounts : Hold(d, a, x)
  \/ \E d \in Deposits, a, b \in Accounts, x, y \in Amounts : Settle(d, a, b, x, y)

Spec == Init /\ [][Next]_evars

=============================================================================
