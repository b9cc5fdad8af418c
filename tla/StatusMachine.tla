--------------------------- MODULE StatusMachine ---------------------------
(***************************************************************************)
(* machine::statusMachine: the thread that polls partition 1 of            *)
(* OrderEvents and keeps a std::set<InfoOrder> of the orders it was told   *)
(* of.  operator< compares prices only (order.hpp:108), so the set holds   *)
(* one order per price.                                                    *)
(*                                                                         *)
(* One action per key that poll() tells apart.                             *)
(***************************************************************************)
EXTENDS OrderBook, Sequences

CONSTANT MaxMessages    (* bound: messages taken from partition 1 *)

ASSUME MachineAssumption == MaxMessages \in Nat

VARIABLES
    machine,      (* "poll" | "crashed": the state of its thread           *)
    all_orders,   (* the set                                               *)
    consumed      (* cons_: what it has taken from partition 1             *)

machineVars == <<machine, all_orders, consumed>>

Event(key, order) == [key |-> key, order |-> order]

Events == [key : {"Add", "Finished", "Remove", "other"}, order : Orders]

Init == machine = "poll" /\ all_orders = {} /\ consumed = <<>>

-----------------------------------------------------------------------------

(* std::set::find with operator<: the elements that compare equivalent. *)
Equivalent(info) == {other \in all_orders : other.price = info.price}

(* check() returns a copy of its argument, not of what is stored. *)
IsKnown(info) == Equivalent(info) # {}

PollNothing ==
    /\ machine = "poll"
    /\ UNCHANGED machineVars

Receive(key, order) ==
    /\ machine = "poll"
    /\ Len(consumed) < MaxMessages
    /\ consumed' = Append(consumed, Event(key, order))

(* Mutants of PollAdd: a std::multiset; the new order takes the place of   *)
(* the old one.                                                            *)
PollAddAlways(order) ==
    /\ Receive("Add", order)
    /\ all_orders' = all_orders \cup {InfoOrder(order)}
    /\ UNCHANGED machine

PollAddReplaces(order) ==
    /\ Receive("Add", order)
    /\ all_orders' = (all_orders \ Equivalent(InfoOrder(order))) \cup {InfoOrder(order)}
    /\ UNCHANGED machine

(* insert: nothing happens if an equivalent order is there. *)
PollAdd(order) ==
    /\ Receive("Add", order)
    /\ all_orders' = IF IsKnown(InfoOrder(order)) THEN all_orders
                     ELSE all_orders \cup {InfoOrder(order)}
    /\ UNCHANGED machine

(* Mutant of PollFinished: the finished order is erased. *)
PollFinishedErases(order) ==
    /\ Receive("Finished", order)
    /\ all_orders' = all_orders \ Equivalent(InfoOrder(order))
    /\ machine' \in IF IsKnown(InfoOrder(order)) THEN {"poll"} ELSE {"poll", "crashed"}

(* FINISHED is written to the order of the message that was just parsed,   *)
(* which is then dropped.  If no order of that price is known, a nullopt   *)
(* is dereferenced: the write lands somewhere or kills the process.        *)
PollFinished(order) ==
    /\ Receive("Finished", order)
    /\ machine' \in IF IsKnown(InfoOrder(order)) THEN {"poll"} ELSE {"poll", "crashed"}
    /\ UNCHANGED all_orders

(* erase by key, that is, by price. *)
PollRemove(order) ==
    /\ Receive("Remove", order)
    /\ all_orders' = all_orders \ Equivalent(InfoOrder(order))
    /\ UNCHANGED machine

PollOtherKey(order) ==
    /\ Receive("other", order)
    /\ UNCHANGED <<machine, all_orders>>

Poll(order) ==
    \/ PollAdd(order)
    \/ PollFinished(order)
    \/ PollRemove(order)
    \/ PollOtherKey(order)

Next == PollNothing \/ \E order \in Orders : Poll(order)

Spec == Init /\ [][Next]_machineVars

-----------------------------------------------------------------------------
(* Properties *)

(* Types, and the one order per price that operator< leaves room for. *)
TypeOK ==
    /\ machine \in {"poll", "crashed"}
    /\ all_orders \subseteq InfoOrders
    /\ \A i, j \in all_orders : i.price = j.price => i = j
    /\ consumed \in Seq(Events) /\ Len(consumed) <= MaxMessages

(* Since the "Remove"s of its price, message i brought the first order. *)
BringsFirst(i) ==
    LET SamePrice(j) == consumed[j].order.price = consumed[i].order.price
    IN  /\ consumed[i].key = "Add"
        /\ \A j \in DOMAIN consumed :
              (SamePrice(j) /\ j > i) => consumed[j].key # "Remove"
        /\ \A j \in DOMAIN consumed :
              (SamePrice(j) /\ j < i /\ consumed[j].key = "Add") =>
                  \E k \in j .. i : SamePrice(k) /\ consumed[k].key = "Remove"

(* What the set stands for, told from the messages alone: of each price,   *)
(* the first order since its last "Remove"; "Finished" leaves no trace     *)
(* (status_machine.cpp:11-17, 47-55).                                      *)
HoldsFirstOfPrice ==
    all_orders = {InfoOrder(consumed[i].order) : i \in {j \in DOMAIN consumed : BringsFirst(j)}}

(* It dies of a "Finished" only, and only of one whose price has not been  *)
(* added since it was last removed (status_machine.cpp:50).                *)
DiesOfUnknownPrice ==
    machine = "crashed" =>
        LET n == Len(consumed)
        IN  /\ consumed[n].key = "Finished"
            /\ \A i \in 1 .. n :
                  consumed[i].order.price = consumed[n].order.price => ~ BringsFirst(i)
=============================================================================
