----------------------------- MODULE MCExchange -----------------------------
(***************************************************************************)
(* Instances of Exchange for TLC.                                          *)
(***************************************************************************)
EXTENDS Exchange

MCOrder(type, price, volume, ts, client) ==
    [order_type |-> type, price |-> price, volume |-> volume,
     timestamp_exchange |-> ts, hash_client |-> client]

(* Two prices on each side, crossing and not, and volumes that leave a     *)
(* remainder on either side or on none.                                    *)
MCOrders ==
    { MCOrder("Ask", 1, 2, 3, "c1"), MCOrder("Ask", 2, 1, 2, "c2"),
      MCOrder("Bid", 1, 1, 1, "c2"), MCOrder("Bid", 2, 2, 4, "c1") }

(* Two bids of one price, which both rest. *)
MCBids == { MCOrder("Bid", 2, 2, 4, "c1"), MCOrder("Bid", 2, 1, 5, "c1") }
=============================================================================
