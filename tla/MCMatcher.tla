----------------------------- MODULE MCMatcher -----------------------------
(***************************************************************************)
(* Instances of Matcher for TLC.                                           *)
(***************************************************************************)
EXTENDS Matcher

MCOrder(type, price, volume, ts, client) ==
    [order_type |-> type, price |-> price, volume |-> volume,
     timestamp_exchange |-> ts, hash_client |-> client]

(* Asks at three prices, two of them at one price; bids at three prices,   *)
(* two of them with the same price and timestamp.  Prices cross and do not *)
(* cross, and volumes exhaust one side, the other or both.                 *)
MCOrders ==
    { MCOrder("Ask", 1, 3, 4, "c3"), MCOrder("Ask", 2, 1, 1, "c1"),
      MCOrder("Ask", 2, 2, 5, "c2"), MCOrder("Ask", 3, 1, 3, "c1"),
      MCOrder("Bid", 1, 2, 3, "c2"), MCOrder("Bid", 2, 1, 2, "c1"),
      MCOrder("Bid", 3, 2, 6, "c2"), MCOrder("Bid", 3, 1, 6, "c1") }

(* A small int: 2 + 2 and 3 + 1 are values of it, 3 + 3 is not. *)
MCPriceMin == -5
=============================================================================
