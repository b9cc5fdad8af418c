----------------------------- MODULE MCSessions -----------------------------
(***************************************************************************)
(* Instances of Sessions for TLC.                                          *)
(***************************************************************************)
EXTENDS Sessions

MCMaxRequests == [c \in Clients |-> IF c \in Honest THEN 3 ELSE 2]

(* A request that fills the buffer, one that may come in two parts, and    *)
(* one that deletes the Session.                                           *)
MCArrivals ==
    { Arrival("Registration", "full"), Arrival("Transaction", "head"),
      Arrival("Close", "whole") }
=============================================================================
