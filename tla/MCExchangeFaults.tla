-------------------------- MODULE MCExchangeFaults --------------------------
(***************************************************************************)
(* Instances of ExchangeFaults for TLC.                                    *)
(***************************************************************************)
EXTENDS ExchangeFaults

MCOrder(type, price, volume, ts) ==
    [order_type |-> type, price |-> price, volume |-> volume, timestamp_exchange |-> ts]

(* An ask, and a bid that takes it twice if it comes twice. *)
MCOrders == { MCOrder("Ask", 1, 1, 1), MCOrder("Bid", 2, 2, 3) }
=============================================================================
