----------------------------- MODULE MCClients -----------------------------
(***************************************************************************)
(* Instances of Clients for TLC.                                           *)
(***************************************************************************)
EXTENDS Clients, Bitwise

(* Two strings: the clients whose name is their password share the ID 0,   *)
(* and the two whose name is the other's password share the ID 3.          *)
MCStringHash == [n \in Names |-> IF n = "n1" THEN 1 ELSE 2]

MCXor(a, b) == a ^^ b
=============================================================================
