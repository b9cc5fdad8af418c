-------------------------- MODULE MCStatusMachine --------------------------
(***************************************************************************)
(* Instances of StatusMachine for TLC.                                     *)
(***************************************************************************)
EXTENDS StatusMachine

(* At one price two orders of one side and one of the other; one order at  *)
(* another price.                                                          *)
MCOrders ==
    [order_type : {"Ask"}, price : {1}, volume : {1}, timestamp_exchange : {1, 2}]
    \cup [order_type : {"Bid"}, price : {1, 2}, volume : {2}, timestamp_exchange : {3}]
=============================================================================
