------------------------ MODULE StatusMachineProofs ------------------------
(***************************************************************************)
(* The status machine, for every set of orders and number of messages.     *)
(***************************************************************************)
EXTENDS StatusMachine, DataProofs

LEMMA InitInv == Init => TypeOK /\ HoldsFirstOfPrice /\ DiesOfUnknownPrice
BY MachineAssumption DEF Init, TypeOK, HoldsFirstOfPrice, DiesOfUnknownPrice

(* What a message does to the orders that are the first of their price.    *)
LEMMA Received ==
    ASSUME TypeOK, NEW key, NEW order \in Orders, Receive(key, order),
           NEW n \in Nat, n = Len(consumed)
    PROVE  /\ DOMAIN consumed = 1 .. n /\ DOMAIN consumed' = 1 .. n + 1
           /\ \A i \in 1 .. n : consumed'[i] = consumed[i]
           /\ consumed'[n + 1] = Event(key, order)
           /\ \A i \in 1 .. n :
                 BringsFirst(i)' <=>
                     /\ BringsFirst(i)
                     /\ key = "Remove" => consumed[i].order.price # order.price
           /\ BringsFirst(n + 1)' <=>
                 /\ key = "Add"
                 /\ \A i \in 1 .. n : BringsFirst(i) => consumed[i].order.price # order.price
<1> DEFINE same(i) == consumed[i].order.price = order.price
<1>1. /\ DOMAIN consumed = 1 .. n /\ DOMAIN consumed' = 1 .. n + 1
      /\ \A i \in 1 .. n : consumed'[i] = consumed[i]
      /\ consumed'[n + 1] = Event(key, order)
  BY DEF TypeOK, Receive
<1>2. consumed'[n + 1].key = key /\ consumed'[n + 1].order = order
  BY <1>1 DEF Event
<1>3. ASSUME NEW i \in 1 .. n
      PROVE  BringsFirst(i)' <=> BringsFirst(i) /\ (key = "Remove" => ~ same(i))
  BY <1>1, <1>2, <1>3 DEF BringsFirst
<1>4. BringsFirst(n + 1)' <=>
          /\ key = "Add"
          /\ \A j \in 1 .. n : same(j) /\ consumed[j].key = "Add" =>
                 \E k \in j .. n : same(k) /\ consumed[k].key = "Remove"
  BY <1>1, <1>2 DEF BringsFirst
<1>5. ASSUME NEW i \in 1 .. n, BringsFirst(i), same(i), key = "Add"
      PROVE  ~ BringsFirst(n + 1)'
  BY <1>1, <1>4, <1>5 DEF BringsFirst
<1>6. ASSUME \A i \in 1 .. n : BringsFirst(i) => ~ same(i), key = "Add", ~ BringsFirst(n + 1)'
      PROVE  FALSE
  <2> DEFINE adds == {j \in 1 .. n : same(j) /\ consumed[j].key = "Add"}
             removes == {j \in 1 .. n : same(j) /\ consumed[j].key = "Remove"}
  <2>1. PICK a \in adds : \A k \in removes : k < a
    BY <1>1, <1>4, <1>6
  <2>2. PICK i \in adds : /\ \A k \in removes : k < i
                      /\ \A j \in adds : j < i => \E k \in removes : j <= k
    <3>1. adds \in SUBSET (1 .. n) /\ removes \in SUBSET (1 .. n)
      OBVIOUS
    <3> HIDE DEF adds, removes
    <3> QED BY <1>1, <2>1, <3>1, FirstSinceRemoved
  <2>3. i \in 1 .. n /\ same(i) /\ consumed[i].key = "Add"
    OBVIOUS
  <2>4. \A j \in 1 .. n : same(j) <=> consumed[j].order.price = consumed[i].order.price
    BY <2>3
  <2>5. BringsFirst(i)
    BY <1>1, <2>2, <2>3, <2>4 DEF BringsFirst
  <2> QED BY <1>6, <2>3, <2>5
<1> QED BY <1>1, <1>3, <1>4, <1>5, <1>6

(* An Add brings the first order of its price if the set holds none of     *)
(* that price, and then it is inserted; otherwise nothing changes.         *)
LEMMA AddStep ==
    ASSUME TypeOK, HoldsFirstOfPrice, NEW order \in Orders, PollAdd(order)
    PROVE  HoldsFirstOfPrice'
<1>1. PICK n \in Nat : n = Len(consumed)
  BY DEF TypeOK
<1> DEFINE same(i) == consumed[i].order.price = order.price
           firsts == {i \in 1 .. n : BringsFirst(i)}
<1>2. /\ DOMAIN consumed = 1 .. n /\ DOMAIN consumed' = 1 .. n + 1
      /\ \A i \in 1 .. n : consumed'[i] = consumed[i]
      /\ consumed'[n + 1] = Event("Add", order)
      /\ \A i \in 1 .. n : BringsFirst(i)' <=> BringsFirst(i)
      /\ BringsFirst(n + 1)' <=> \A i \in 1 .. n : BringsFirst(i) => ~ same(i)
  <2>1. Receive("Add", order)
    BY DEF PollAdd
  <2> QED BY <1>1, <2>1, Received
<1>3. all_orders = {InfoOrder(consumed[i].order) : i \in firsts}
  BY <1>2 DEF HoldsFirstOfPrice
<1>4. IsKnown(InfoOrder(order)) <=> \E i \in firsts : same(i)
  <2>1. /\ InfoOrder(order).price = order.price
        /\ \A i \in firsts : InfoOrder(consumed[i].order).price = consumed[i].order.price
    BY DEF InfoOrder
  <2> QED BY <1>3, <2>1 DEF IsKnown, Equivalent
<1>5. consumed'[n + 1].order = order
  BY <1>2 DEF Event
<1>6. {j \in DOMAIN consumed' : BringsFirst(j)'} =
          firsts \cup (IF IsKnown(InfoOrder(order)) THEN {} ELSE {n + 1})
  BY <1>2, <1>4
<1>7. all_orders' = all_orders \cup
          (IF IsKnown(InfoOrder(order)) THEN {} ELSE {InfoOrder(order)})
  BY DEF PollAdd
<1>8. all_orders' = {InfoOrder(consumed'[i].order) : i \in {j \in DOMAIN consumed' : BringsFirst(j)'}}
  <2> HIDE DEF firsts
  <2>1. firsts \subseteq 1 .. n
    BY DEF firsts
  <2> QED BY <1>2, <1>3, <1>5, <1>6, <1>7, <2>1
<1> QED BY <1>8 DEF HoldsFirstOfPrice

LEMMA RemoveStep ==
    ASSUME TypeOK, HoldsFirstOfPrice, NEW order \in Orders, PollRemove(order)
    PROVE  HoldsFirstOfPrice'
<1>1. PICK n \in Nat : n = Len(consumed)
  BY DEF TypeOK
<1> DEFINE same(i) == consumed[i].order.price = order.price
           firsts == {i \in 1 .. n : BringsFirst(i)}
<1>2. /\ DOMAIN consumed = 1 .. n /\ DOMAIN consumed' = 1 .. n + 1
      /\ \A i \in 1 .. n : consumed'[i] = consumed[i]
      /\ \A i \in 1 .. n : BringsFirst(i)' <=> BringsFirst(i) /\ ~ same(i)
      /\ ~ BringsFirst(n + 1)'
  BY <1>1, Received DEF PollRemove
<1>3. all_orders = {InfoOrder(consumed[i].order) : i \in firsts}
  BY <1>2 DEF HoldsFirstOfPrice
<1>4. all_orders' = {InfoOrder(consumed[i].order) : i \in {j \in firsts : ~ same(j)}}
  <2>1. all_orders' = {info \in all_orders : info.price # order.price}
    BY DEF PollRemove, Equivalent, InfoOrder
  <2>2. \A i \in firsts : InfoOrder(consumed[i].order).price = consumed[i].order.price
    BY DEF InfoOrder
  <2> QED BY <1>3, <2>1, <2>2
<1>5. {j \in DOMAIN consumed' : BringsFirst(j)'} = {j \in firsts : ~ same(j)}
  BY <1>2
<1> QED BY <1>2, <1>4, <1>5 DEF HoldsFirstOfPrice

LEMMA OtherStep ==
    ASSUME TypeOK, HoldsFirstOfPrice, NEW order \in Orders,
           PollFinished(order) \/ PollOtherKey(order)
    PROVE  HoldsFirstOfPrice'
<1>1. PICK n \in Nat : n = Len(consumed)
  BY DEF TypeOK
<1>2. /\ DOMAIN consumed = 1 .. n /\ DOMAIN consumed' = 1 .. n + 1
      /\ \A i \in 1 .. n : consumed'[i] = consumed[i]
      /\ \A i \in 1 .. n : BringsFirst(i)' <=> BringsFirst(i)
      /\ ~ BringsFirst(n + 1)'
  <2>1. PICK key \in {"Finished", "other"} : Receive(key, order)
    BY DEF PollFinished, PollOtherKey
  <2> QED BY <1>1, <2>1, Received
<1>3. {j \in DOMAIN consumed' : BringsFirst(j)'} = {j \in DOMAIN consumed : BringsFirst(j)}
  BY <1>2
<1>4. all_orders' = all_orders
  BY DEF PollFinished, PollOtherKey
<1> QED BY <1>2, <1>3, <1>4 DEF HoldsFirstOfPrice

LEMMA TypeStep ==
    ASSUME TypeOK, NEW order \in Orders, Poll(order)
    PROVE  TypeOK'
<1>1. PICK key \in {"Add", "Finished", "Remove", "other"} : Receive(key, order)
  BY DEF Poll, PollAdd, PollFinished, PollRemove, PollOtherKey
<1>2. consumed' \in Seq(Events) /\ Len(consumed') <= MaxMessages
  BY <1>1, MachineAssumption DEF TypeOK, Receive, Event, Events
<1>3. machine' \in {"poll", "crashed"}
  BY DEF TypeOK, Poll, PollAdd, PollFinished, PollRemove, PollOtherKey
<1>4. InfoOrder(order) \in InfoOrders /\ InfoOrder(order).price = order.price
  BY OrdersAssumption DEF InfoOrder, InfoOrders, Prices
<1>5. all_orders' \subseteq InfoOrders /\ \A i, j \in all_orders' : i.price = j.price => i = j
  <2>1. CASE PollAdd(order)
    BY <1>4, <2>1 DEF TypeOK, PollAdd, IsKnown, Equivalent
  <2>2. CASE all_orders' \subseteq all_orders
    BY <2>2 DEF TypeOK
  <2> QED BY <2>1, <2>2 DEF Poll, PollFinished, PollRemove, PollOtherKey
<1> QED BY <1>2, <1>3, <1>5 DEF TypeOK

(* A Finished kills the thread only if its price is not known, that is, if *)
(* the set has no order that was the first of it.                          *)
LEMMA DeathStep ==
    ASSUME TypeOK, HoldsFirstOfPrice, NEW order \in Orders, Poll(order)
    PROVE  DiesOfUnknownPrice'
<1> SUFFICES ASSUME machine' = "crashed" PROVE DiesOfUnknownPrice'
  BY DEF DiesOfUnknownPrice
<1>1. PollFinished(order) /\ ~ IsKnown(InfoOrder(order))
  BY DEF Poll, PollAdd, PollFinished, PollRemove, PollOtherKey, Receive
<1>2. PICK n \in Nat : n = Len(consumed)
  BY DEF TypeOK
<1>3. /\ DOMAIN consumed = 1 .. n
      /\ \A i \in 1 .. n : consumed'[i] = consumed[i]
      /\ consumed'[n + 1] = Event("Finished", order)
      /\ \A i \in 1 .. n : BringsFirst(i)' <=> BringsFirst(i)
      /\ ~ BringsFirst(n + 1)'
  BY <1>1, <1>2, Received DEF PollFinished
<1>4. \A i \in 1 .. n : BringsFirst(i) => consumed[i].order.price # order.price
  <2>1. /\ InfoOrder(order).price = order.price
        /\ \A i \in 1 .. n : InfoOrder(consumed[i].order).price = consumed[i].order.price
    BY DEF InfoOrder
  <2>2. \A i \in 1 .. n : BringsFirst(i) => InfoOrder(consumed[i].order) \in all_orders
    BY <1>3 DEF HoldsFirstOfPrice
  <2> QED BY <1>1, <2>1, <2>2 DEF IsKnown, Equivalent
<1>5. Len(consumed') = n + 1
  BY <1>1, <1>2 DEF TypeOK, PollFinished, Receive
<1>6. consumed'[n + 1].key = "Finished" /\ consumed'[n + 1].order = order
  BY <1>3 DEF Event
<1> QED BY <1>3, <1>4, <1>5, <1>6 DEF DiesOfUnknownPrice

Inv == TypeOK /\ HoldsFirstOfPrice /\ DiesOfUnknownPrice

LEMMA NextInv == Inv /\ [Next]_machineVars => Inv'
<1>1. ASSUME Inv, NEW order \in Orders, Poll(order)
      PROVE  Inv'
  BY <1>1, AddStep, RemoveStep, OtherStep, TypeStep, DeathStep DEF Inv, Poll
<1>2. ASSUME Inv, UNCHANGED machineVars
      PROVE  Inv'
  BY <1>2 DEF Inv, machineVars, TypeOK, HoldsFirstOfPrice, DiesOfUnknownPrice, BringsFirst
<1> QED BY <1>1, <1>2 DEF Next, PollNothing

(* The members keep their types, and the set one order per price           *)
(* (order.hpp:108), for every set of orders and number of messages.        *)
THEOREM MachineTyped == Spec => []TypeOK
BY InitInv, NextInv, PTL DEF Spec, Inv

(* The set always holds, of each price, the first order since its last     *)
(* Remove (status_machine.cpp:11-17).                                      *)
THEOREM MachineHoldsFirst == Spec => []HoldsFirstOfPrice
BY InitInv, NextInv, PTL DEF Spec, Inv

(* The nullopt is dereferenced (status_machine.cpp:50) only for a price of *)
(* which no order came since it was last removed.                          *)
THEOREM MachineDies == Spec => []DiesOfUnknownPrice
BY InitInv, NextInv, PTL DEF Spec, Inv
=============================================================================
