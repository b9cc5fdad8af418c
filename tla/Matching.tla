------------------------------ MODULE Matching ------------------------------
(***************************************************************************)
(* What the exchange's matcher promises, without price levels, maps, loops *)
(* or messages: a set of active orders, each with the volume it still has. *)
(*                                                                         *)
(* A trade is always between an ask and a bid whose prices cross; the ask  *)
(* is the cheapest and then the earliest; no bid overtakes an earlier bid  *)
(* of its own price; both give up the same volume; an order leaves exactly *)
(* when its volume is used up (description.md, "Торговая логика").         *)
(*                                                                         *)
(* The text also asks that the highest bid goes first.  The code does not  *)
(* do that, so it is not promised here.                                    *)
(***************************************************************************)
EXTENDS Integers

CONSTANT Orders

VARIABLE active

Entry(order, volume) == [order |-> order, remaining |-> volume]

(* Two orders of one side, price and timestamp have one place in the book. *)
SamePlace(o1, o2) ==
    /\ o1.order_type = o2.order_type
    /\ o1.price = o2.price
    /\ o1.timestamp_exchange = o2.timestamp_exchange

Elsewhere(order) == {e \in active : ~ SamePlace(e.order, order)}

Earlier(o1, o2) ==
    o1.price = o2.price /\ o1.timestamp_exchange < o2.timestamp_exchange

(* e is an ask that no active ask comes before. *)
NextAsk(e) ==
    /\ e.order.order_type = "Ask"
    /\ \A f \in active :
          f.order.order_type = "Ask" =>
              /\ e.order.price <= f.order.price
              /\ ~ Earlier(f.order, e.order)

(* e is a bid that no active bid of its price comes before. *)
NextBidOfItsPrice(e) ==
    /\ e.order.order_type = "Bid"
    /\ \A f \in active :
          f.order.order_type = "Bid" => ~ Earlier(f.order, e.order)

Init == active = {}

Accept(order) == active' = Elsewhere(order) \cup {Entry(order, order.volume)}

Withdraw(order) == active' = Elsewhere(order)

Trade(ask, bid) ==
    LET volume == IF ask.remaining <= bid.remaining THEN ask.remaining ELSE bid.remaining
        after  == {Entry(e.order, e.remaining - volume) : e \in {ask, bid}}
    IN  /\ NextAsk(ask) /\ NextBidOfItsPrice(bid)
        /\ ask.order.price <= bid.order.price
        /\ active' = (active \ {ask, bid}) \cup {e \in after : e.remaining > 0}

Next ==
    \/ \E order \in Orders : Accept(order) \/ Withdraw(order)
    \/ \E ask, bid \in active : Trade(ask, bid)

Spec == Init /\ [][Next]_active
=============================================================================
