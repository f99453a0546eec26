-------------------------------- MODULE Market --------------------------------
(***************************************************************************)
(* Orders for compute between users (core/services/market_service.py and   *)
(* its routes).  One who sells is paid by whoever accepts; one who buys    *)
(* pays whoever accepts, though it is the acceptor's balance that is       *)
(* looked at.  Five percent of a price are booked nowhere.  No compute     *)
(* changes hands.                                                          *)
(***************************************************************************)
EXTENDS Integers, Sequences, Functions

CONSTANTS
  Users,
  Prices,       \* asked for, in units of which 20 have no fraction in 5 percent
  InitCredits,
  MaxOrders     \* bound

VARIABLES
  credits,   \* users.credits
  orders,    \* market_orders
  logged     \* sum of the points of each user in contribution_log

mvars == << credits, orders, logged >>

-----------------------------------------------------------------------------
(* Data *)

OrderTypes == {"buy_compute", "sell_compute"}
Fee(price) == price \div 20

Seller(o, u) == IF o.type = "buy_compute" THEN u ELSE o.by
Buyer(o, u) == IF o.type = "buy_compute" THEN o.by ELSE u

-----------------------------------------------------------------------------
(* Operations *)

CreateOrder(u, type, price) ==
  /\ price > 0 /\ Len(orders) < MaxOrders
  /\ orders' = Append(orders, [by |-> u, type |-> type, price |-> price, acceptedBy |-> {}])
  /\ UNCHANGED << credits, logged >>

Acceptable(o, u) == o.acceptedBy = {} /\ o.by # u /\ credits[u] >= o.price

Moved(f, o, u) == [f EXCEPT ![Buyer(o, u)] = @ - o.price, ![Seller(o, u)] = @ + o.price - Fee(o.price)]

AcceptOrder(i, u) ==
  /\ Acceptable(orders[i], u)
  /\ credits' = Moved(credits, orders[i], u) /\ logged' = Moved(logged, orders[i], u)
  /\ orders' = [orders EXCEPT ![i].acceptedBy = {u}]

-----------------------------------------------------------------------------
Init ==
  /\ credits = [u \in Users |-> InitCredits]
  /\ orders = << >> /\ logged = [u \in Users |-> 0]

MarketRequest(u) ==
  \/ \E type \in OrderTypes, price \in Prices : CreateOrder(u, type, price)
  \/ \E i \in DOMAIN orders : AcceptOrder(i, u)

Next == \E u \in Users : MarketRequest(u)

Spec == Init /\ [][Next]_mvars

-----------------------------------------------------------------------------
(* Properties *)

Completed == {i \in DOMAIN orders : orders[i].acceptedBy # {}}
Fees == [i \in DOMAIN orders |-> Fee(orders[i].price)]

\* Whoever accepts what and in whatever order, the log explains every balance, nothing
\* but the fee of each accepted order is lost, and only one whose own offer to buy was
\* accepted ends below zero.
OrdersBalance ==
  /\ \A u \in Users : /\ credits[u] = InitCredits + logged[u]
                      /\ credits[u] < 0 =>
                           \E i \in Completed : orders[i].by = u /\ orders[i].type = "buy_compute"
  /\ SumFunctionOnSet(logged, Users) + SumFunctionOnSet(Fees, Completed) = 0
=============================================================================
