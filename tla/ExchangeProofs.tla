--------------------------- MODULE ExchangeProofs ---------------------------
(***************************************************************************)
(* The whole exchange, for every set of orders and number of messages.     *)
(*                                                                         *)
(* Every step of the exchange is a step of the matcher or leaves it alone  *)
(* (MatcherStep), so that what MatcherProofs proves of the matcher holds   *)
(* of it inside the exchange.  For the status machine the invariant is     *)
(* that it knows every price that was added since it began (KnowsPrices).  *)
(***************************************************************************)
EXTENDS Exchange, MatcherProofs, SequenceTheorems

(* What the status machine has taken from partition 1 it knows by price. *)
KnowsPrices ==
    \A i \in start1 + 1 .. Position1 :
        log1[i].key = "Add" => \E known \in all_orders : known.price = log1[i].order.price

Messages == [key : {"Add", "Finished"}, order : Orders]

TopicsTyped ==
    /\ accepted \in Seq(Orders) /\ Len(accepted) <= MaxMessages
    /\ placed0 \in 0 .. Len(accepted) /\ placed1 \in 0 .. Len(accepted)
    /\ start0 \in {None} \cup Nat /\ Position0 <= placed0
    /\ start0 = None => offset = 0
    /\ announced \in 0 .. Len(events)
    /\ log1 \in Seq(Messages)
    /\ Len(log1) = placed1 + announced
    /\ start1 \in {None} \cup Nat /\ Position1 <= Len(log1)
    /\ start1 = None => read1 = 0
    /\ read1 \in 0 .. 2 * MaxMessages

MachineTyped ==
    /\ machine \in {"poll", "crashed"}
    /\ all_orders \subseteq InfoOrders
    /\ \A i, j \in all_orders : i.price = j.price => i = j

ExchangeInv ==
    /\ Inv
    /\ TopicsTyped
    /\ MachineTyped
    /\ KnowsPrices
    /\ NeverAborts
    /\ DiesOnlyOfUnreadAdd

-----------------------------------------------------------------------------
(* The matcher inside the exchange. *)

LEMMA MatcherStep ==
    ASSUME Inv, TopicsTyped, [ExchangeNext]_exchangeVars
    PROVE  /\ [Next]_vars
           /\ pc' = "aborted" => pc \in {"resolve", "aborted"}
<1>1. CASE MatcherPolls
  <2>1. accepted[Position0 + 1] \in Orders
    BY <1>1, MaxMessagesAssumption DEF MatcherPolls, TopicsTyped, Position0, Inv, TypeOK
  <2> QED BY <1>1, <2>1 DEF MatcherPolls, Next, PollAdd
<1>2. CASE MatcherResolves
  BY <1>2 DEF MatcherResolves, Next, Resolve, AskExhausted, BidExhausted, BothExhausted,
         ResolveDone, EndReadCrash
<1>3. CASE UNCHANGED vars
  BY <1>3 DEF vars
<1> QED BY <1>1, <1>2, <1>3
    DEF ExchangeNext, exchangeVars, NewOrder, Place0, Place1, PlaceFinished, Assign0, Assign1,
        MachinePolls

LEMMA MatcherInv ==
    ASSUME Inv, NeverAborts, TopicsTyped, [ExchangeNext]_exchangeVars
    PROVE  Inv' /\ NeverAborts'
<1>1. [Next]_vars
  BY MatcherStep
<1>2. Inv'
  BY <1>1, NextInv
<1>3. [pc = "resolve" => pc' # "aborted"]_vars
  BY <1>1, TurnNeverAborts
<1>4. pc' # "aborted"
  BY <1>3, MatcherStep DEF NeverAborts, vars
<1> QED BY <1>2, <1>4 DEF NeverAborts

-----------------------------------------------------------------------------
(* The partitions and their readers. *)

LEMMA TopicsStep ==
    ASSUME Inv, TopicsTyped, [ExchangeNext]_exchangeVars
    PROVE  TopicsTyped'
<1> USE MaxMessagesAssumption DEF TopicsTyped, Position0, Position1, None
<1>0. offset \in Nat /\ Len(events) \in Nat /\ Len(accepted) \in Nat /\ Len(log1) \in Nat
  BY DEF Inv, TypeOK
<1>1. ASSUME NEW order \in Orders, NewOrder(order)
      PROVE  TopicsTyped'
  BY <1>0, <1>1 DEF NewOrder, vars, machineVars, topicVars, startVars
<1>2. CASE Place0
  BY <1>0, <1>2 DEF Place0, vars, machineVars, startVars
<1>3. CASE Place1
  <2>1. accepted[placed1 + 1] \in Orders
    BY <1>3 DEF Place1
  <2>2. TheMachine!Event("Add", accepted[placed1 + 1]) \in Messages
    BY <2>1 DEF TheMachine!Event, Messages
  <2>3. /\ log1' = Append(log1, TheMachine!Event("Add", accepted[placed1 + 1]))
        /\ placed1' = placed1 + 1
        /\ UNCHANGED <<offset, events, read1, accepted, placed0, announced, start0, start1>>
    BY <1>3 DEF Place1, vars, machineVars, startVars
  <2>4. log1' \in Seq(Messages) /\ Len(log1') = Len(log1) + 1
    BY <2>2, <2>3, AppendProperties
  <2>5. placed1' \in 0 .. Len(accepted)
    BY <1>3, <2>3 DEF Place1
  <2> QED BY <1>0, <2>3, <2>4, <2>5
<1>4. CASE PlaceFinished
  <2>1. events[announced + 1] \in Orders
    BY <1>4 DEF PlaceFinished, Inv, TypeOK
  <2>2. TheMachine!Event("Finished", events[announced + 1]) \in Messages
    BY <2>1 DEF TheMachine!Event, Messages
  <2>3. /\ log1' = Append(log1, TheMachine!Event("Finished", events[announced + 1]))
        /\ announced' = announced + 1
        /\ UNCHANGED <<offset, events, read1, accepted, placed0, placed1, start0, start1>>
    BY <1>4 DEF PlaceFinished, vars, machineVars, startVars
  <2>4. log1' \in Seq(Messages) /\ Len(log1') = Len(log1) + 1
    BY <2>2, <2>3, AppendProperties
  <2>5. announced' \in 0 .. Len(events)
    BY <1>4, <2>3 DEF PlaceFinished, Inv, TypeOK
  <2> QED BY <1>0, <2>3, <2>4, <2>5
<1>5. CASE MatcherPolls \/ MatcherResolves
  <2>1. Len(events) \in Nat /\ Len(events') \in Nat /\ Len(events) <= Len(events')
    BY MatcherStep, EventsGrow
  <2>2. offset' = offset \/ (offset' = offset + 1 /\ start0 # None /\ start0 + offset < placed0)
    BY <1>5 DEF MatcherPolls, MatcherResolves, PollAdd, Receive, Resolve, AskExhausted,
           BidExhausted, BothExhausted, ResolveDone, EndReadCrash
  <2>3. UNCHANGED <<machineVars, accepted, topicVars, startVars>>
    BY <1>5 DEF MatcherPolls, MatcherResolves
  <2> QED BY <1>0, <2>1, <2>2, <2>3 DEF machineVars, topicVars, startVars
<1>6. CASE MachinePolls
  <2>1. /\ start1 \in Nat /\ read1 \in Nat /\ start1 + read1 < Len(log1)
        /\ read1' = read1 + 1
        /\ UNCHANGED <<accepted, placed0, placed1, announced, log1, start0, start1, offset, events>>
    BY <1>6 DEF MachinePolls, vars, topicVars, startVars
  <2>2. Len(SubSeq(log1, start1 + 1, start1 + read1)) = read1
    BY <1>0, <2>1
  <2>3. read1 < 2 * MaxMessages
    BY <1>6, <2>2 DEF MachinePolls, TheMachine!PollAdd, TheMachine!PollFinished, TheMachine!Receive
  <2> QED BY <1>0, <2>1, <2>3
<1>7. CASE Assign0
  BY <1>0, <1>7 DEF Assign0, vars, machineVars, topicVars
<1>8. CASE Assign1
  BY <1>0, <1>8 DEF Assign1, vars, machineVars, topicVars
<1>9. CASE UNCHANGED exchangeVars
  BY <1>9 DEF exchangeVars, vars, machineVars, topicVars, startVars
<1> QED BY <1>1, <1>2, <1>3, <1>4, <1>5, <1>6, <1>7, <1>8, <1>9 DEF ExchangeNext

(* What the status machine makes of the next message of partition 1. *)
LEMMA MachineTakes ==
    ASSUME TopicsTyped, MachinePolls
    PROVE  LET message == log1[Position1 + 1]
               known == {info \in all_orders : info.price = message.order.price}
           IN  /\ message.order \in Orders /\ Position1 + 1 \in DOMAIN log1
               /\ read1' = read1 + 1 /\ UNCHANGED <<log1, start1>>
               /\ \/ /\ message.key = "Add"
                     /\ machine' = machine /\ machine = "poll"
                     /\ all_orders' = IF known # {} THEN all_orders
                                      ELSE all_orders \cup {InfoOrder(message.order)}
                  \/ /\ message.key = "Finished"
                     /\ machine' = "crashed" => known = {}
                     /\ machine' \in {"poll", "crashed"}
                     /\ all_orders' = all_orders
<1> DEFINE message == log1[Position1 + 1]
           taken == SubSeq(log1, start1 + 1, Position1)
<1>1. /\ start1 \in Nat /\ read1 \in Nat /\ Position1 \in Nat
      /\ Position1 < Len(log1) /\ Len(log1) \in Nat
      /\ read1' = read1 + 1 /\ UNCHANGED <<log1, start1>> /\ Position1' = Position1 + 1
      /\ Position1 >= start1
  BY DEF MachinePolls, TopicsTyped, topicVars, startVars, Position1
<1>2. message \in Messages /\ message.order \in Orders
  <2>1. message \in Messages
    BY <1>1 DEF TopicsTyped
  <2> QED BY <2>1 DEF Messages
<1>3. taken' = Append(taken, message)
  <2>1. log1 \in Seq(Messages)
    BY DEF TopicsTyped
  <2>2. SubSeq(log1, start1 + 1, Position1 + 1) = Append(SubSeq(log1, start1 + 1, Position1), message)
    BY <1>1, <2>1
  <2> QED BY <1>1, <2>2
<1>4. ASSUME NEW key, taken' = Append(taken, TheMachine!Event(key, message.order))
      PROVE  message.key = key
  <2>1. TheMachine!Event(key, message.order) = message
    BY <1>1, <1>3, <1>4 DEF TopicsTyped
  <2> QED BY <2>1 DEF TheMachine!Event
<1>5. TheMachine!Equivalent(InfoOrder(message.order)) =
          {info \in all_orders : info.price = message.order.price}
  BY DEF TheMachine!Equivalent, InfoOrder
<1> HIDE DEF message
<1>6. CASE TheMachine!PollAdd(message.order)
  <2>1. message.key = "Add" /\ machine' = machine
    BY <1>4, <1>6 DEF TheMachine!PollAdd, TheMachine!Receive
  <2>2. machine = "poll"
    BY DEF MachinePolls, Alive
  <2>3. TheMachine!InfoOrder(message.order) = InfoOrder(message.order)
    BY DEF TheMachine!InfoOrder, InfoOrder
  <2> QED BY <1>1, <1>2, <1>5, <1>6, <2>1, <2>2, <2>3
         DEF TheMachine!PollAdd, TheMachine!IsKnown, message
<1>7. CASE TheMachine!PollFinished(message.order)
  <2>1. message.key = "Finished"
    BY <1>4, <1>7 DEF TheMachine!PollFinished, TheMachine!Receive
  <2>2. /\ all_orders' = all_orders
        /\ machine' \in {"poll", "crashed"}
    BY <1>7 DEF TheMachine!PollFinished, TheMachine!Receive
  <2>3. TheMachine!InfoOrder(message.order) = InfoOrder(message.order)
    BY DEF TheMachine!InfoOrder, InfoOrder
  <2>4. machine' = "crashed" =>
          {info \in all_orders : info.price = message.order.price} = {}
    BY <1>5, <1>7, <2>3
       DEF TheMachine!PollFinished, TheMachine!Receive, TheMachine!IsKnown
  <2> QED BY <1>1, <1>2, <2>1, <2>2, <2>4 DEF message
<1> QED BY <1>6, <1>7 DEF MachinePolls, message

LEMMA MachineStep ==
    ASSUME TopicsTyped, MachineTyped, KnowsPrices, DiesOnlyOfUnreadAdd, MachinePolls
    PROVE  MachineTyped' /\ KnowsPrices' /\ DiesOnlyOfUnreadAdd'
<1> DEFINE message == log1[Position1 + 1]
           known == {info \in all_orders : info.price = message.order.price}
<1>1. /\ message.order \in Orders /\ Position1 + 1 \in DOMAIN log1
      /\ read1' = read1 + 1 /\ UNCHANGED <<log1, start1>>
      /\ \/ /\ message.key = "Add"
            /\ machine' = machine /\ machine = "poll"
            /\ all_orders' = IF known # {} THEN all_orders
                             ELSE all_orders \cup {InfoOrder(message.order)}
         \/ /\ message.key = "Finished"
            /\ machine' = "crashed" => known = {}
            /\ machine' \in {"poll", "crashed"}
            /\ all_orders' = all_orders
  BY MachineTakes
<1>2. InfoOrder(message.order) \in InfoOrders /\ InfoOrder(message.order).price = message.order.price
  BY <1>1, OrdersAssumption DEF InfoOrder, InfoOrders, Prices
<1>3. MachineTyped'
  BY <1>1, <1>2 DEF MachineTyped
<1>4. all_orders \subseteq all_orders'
  BY <1>1
<1>5. start1 \in Nat /\ Position1 \in Nat /\ Position1 >= start1 /\ Position1' = Position1 + 1
  BY <1>1 DEF TopicsTyped, MachinePolls, Position1
<1>6. ASSUME NEW i \in start1 + 1 .. Position1 + 1, log1[i].key = "Add"
      PROVE  \E info \in all_orders' : info.price = log1[i].order.price
  <2>1. CASE i = Position1 + 1
    BY <1>1, <1>2, <1>6, <2>1
  <2>2. CASE i \in start1 + 1 .. Position1
    BY <1>4, <1>6, <2>2 DEF KnowsPrices
  <2> QED BY <1>5, <2>1, <2>2
<1>7. KnowsPrices'
  BY <1>1, <1>5, <1>6 DEF KnowsPrices
<1>8. ASSUME machine' = "crashed"
      PROVE  /\ log1[Position1 + 1].key = "Finished"
             /\ \A i \in start1 + 1 .. Position1 :
                   log1[i].key = "Add" => log1[i].order.price # message.order.price
  BY <1>1, <1>8 DEF KnowsPrices
<1>9. DiesOnlyOfUnreadAdd'
  <2>1. Position1' - 1 = Position1 /\ log1'[Position1'] = message /\ log1' = log1 /\ start1' = start1
    BY <1>1, <1>5
  <2> HIDE DEF message
  <2>2. SUFFICES ASSUME machine' = "crashed"
                 PROVE  /\ message.key = "Finished"
                        /\ \A i \in 1 .. Position1 :
                             (log1[i].key = "Add" /\ log1[i].order.price = message.order.price) =>
                                 i <= start1
    BY <2>1 DEF DiesOnlyOfUnreadAdd
  <2>3. ASSUME NEW i \in 1 .. Position1, ~ (i <= start1)
        PROVE  i \in start1 + 1 .. Position1
    BY <1>5, <2>3
  <2> QED BY <1>8, <2>2, <2>3 DEF message
<1> QED BY <1>3, <1>7, <1>9

(* The other threads leave the status machine and what it has read alone. *)
LEMMA MachineRests ==
    ASSUME TopicsTyped, MachineTyped, KnowsPrices, DiesOnlyOfUnreadAdd,
           [ExchangeNext]_exchangeVars, ~ MachinePolls
    PROVE  MachineTyped' /\ KnowsPrices' /\ DiesOnlyOfUnreadAdd'
<1> USE DEF None, Position1
<1>1. UNCHANGED machineVars
  BY DEF ExchangeNext, exchangeVars, NewOrder, Place0, Place1, PlaceFinished, Assign0, Assign1,
         MatcherPolls, MatcherResolves
<1>2. log1' = log1 \/ \E m : log1' = Append(log1, m)
  BY DEF ExchangeNext, exchangeVars, NewOrder, Place0, Place1, PlaceFinished, Assign0, Assign1,
         MatcherPolls, MatcherResolves, topicVars
<1>3. /\ start1 \in {None} \cup Nat /\ read1 \in Nat /\ Position1 <= Len(log1)
      /\ start1 = None => read1 = 0
      /\ log1 \in Seq(Messages)
  BY DEF TopicsTyped
<1>4. \A i \in start1 + 1 .. Position1 : log1'[i] = log1[i]
  <2>1. ASSUME NEW m, NEW i \in start1 + 1 .. Position1
        PROVE  Append(log1, m)[i] = log1[i]
    <3>1. i \in 1 .. Len(log1)
      BY <1>3
    <3> QED BY <1>3, <3>1
  <2> QED BY <1>2, <2>1
<1>5. \/ start1' = start1
      \/ start1 = None /\ start1' = Len(log1) /\ Alive
  BY DEF ExchangeNext, exchangeVars, NewOrder, Place0, Place1, PlaceFinished, Assign0, Assign1,
         MatcherPolls, MatcherResolves, startVars
<1>6. UNCHANGED <<machine, all_orders, read1>>
  BY <1>1 DEF machineVars
<1>7. MachineTyped'
  BY <1>6 DEF MachineTyped
<1>8. KnowsPrices'
  <2>1. CASE start1' = start1
    BY <1>4, <1>6, <2>1 DEF KnowsPrices
  <2>2. CASE start1 = None /\ start1' = Len(log1)
    <3>1. start1' + 1 .. start1' + read1' = {}
      BY <1>3, <1>6, <2>2
    <3> QED BY <3>1 DEF KnowsPrices
  <2> QED BY <1>5, <2>1, <2>2
<1>9. machine = "crashed" => UNCHANGED <<log1, start1>>
  BY DEF ExchangeNext, exchangeVars, NewOrder, Place0, Place1, PlaceFinished, Assign0, Assign1,
         MatcherPolls, MatcherResolves, topicVars, startVars, Alive
<1>10. DiesOnlyOfUnreadAdd'
  BY <1>6, <1>9 DEF DiesOnlyOfUnreadAdd
<1> QED BY <1>7, <1>8, <1>10

-----------------------------------------------------------------------------
(* The invariant and what it says. *)

LEMMA ExchangeInitInv == ExchangeInit => ExchangeInv
<1> SUFFICES ASSUME ExchangeInit PROVE ExchangeInv
  OBVIOUS
<1>1. Inv /\ NeverAborts
  BY InitInv DEF ExchangeInit, Init, NeverAborts
<1>2. /\ Len(accepted) = 0 /\ Len(log1) = 0 /\ Len(events) = 0
      /\ accepted \in Seq(Orders) /\ log1 \in Seq(Messages)
  BY DEF ExchangeInit, Init
<1>3. TopicsTyped
  BY <1>2, MaxMessagesAssumption
     DEF ExchangeInit, Init, TopicsTyped, Position0, Position1, None
<1>4. start1 + 1 .. Position1 = {}
  BY DEF ExchangeInit, Position1, None
<1> QED BY <1>1, <1>3, <1>4
    DEF ExchangeInit, ExchangeInv, MachineTyped, KnowsPrices, DiesOnlyOfUnreadAdd

LEMMA ExchangeNextInv == ExchangeInv /\ [ExchangeNext]_exchangeVars => ExchangeInv'
<1> SUFFICES ASSUME ExchangeInv, [ExchangeNext]_exchangeVars PROVE ExchangeInv'
  OBVIOUS
<1> USE DEF ExchangeInv
<1>1. Inv' /\ NeverAborts' /\ TopicsTyped'
  BY MatcherInv, TopicsStep
<1>2. MachineTyped' /\ KnowsPrices' /\ DiesOnlyOfUnreadAdd'
  BY MachineStep, MachineRests
<1> QED BY <1>1, <1>2

LEMMA ExchangeInvTypes == ExchangeInv => ExchangeTypeOK
<1> SUFFICES ASSUME ExchangeInv PROVE ExchangeTypeOK
  OBVIOUS
<1> DEFINE taken == SubSeq(log1, start1 + 1, Position1)
<1>1. /\ TypeOK /\ TopicsTyped /\ MachineTyped
      /\ log1 \in Seq(Messages) /\ offset \in Nat /\ read1 \in 0 .. 2 * MaxMessages
      /\ start0 \in {None} \cup Nat /\ Position0 <= placed0 /\ placed0 \in Nat
      /\ start1 \in {None} \cup Nat /\ Position1 <= Len(log1)
      /\ start1 = None => read1 = 0
  BY DEF ExchangeInv, Inv, TypeOK, TopicsTyped
<1>2. taken \in Seq(TheMachine!Events) /\ Len(taken) <= 2 * MaxMessages
  <2>1. \A i \in 1 .. Len(log1) : log1[i] \in TheMachine!Events
    <3>1. Messages \subseteq TheMachine!Events
      BY DEF Messages, TheMachine!Events
    <3>2. \A i \in 1 .. Len(log1) : log1[i] \in Messages
      BY <1>1
    <3> QED BY <3>1, <3>2
  <2>2. \A i \in start1 + 1 .. start1 + read1 : log1[i] \in TheMachine!Events
    BY <1>1, <2>1 DEF None, Position1
  <2> DEFINE from == start1 + 1
             to == Position1
  <2>3. /\ from \in Int /\ to \in Int /\ to - from + 1 = read1
        /\ \A i \in from .. to : log1[i] \in TheMachine!Events
    BY <1>1, <2>2, MaxMessagesAssumption DEF None, Position1
  <2>4. taken = SubSeq(log1, from, to)
    OBVIOUS
  <2> HIDE DEF from, to, taken
  <2>5. /\ SubSeq(log1, from, to) \in Seq(TheMachine!Events)
        /\ Len(SubSeq(log1, from, to)) = IF from <= to THEN to - from + 1 ELSE 0
    BY <2>3, SubSeqProperties
  <2> QED BY <1>1, <2>3, <2>4, <2>5, MaxMessagesAssumption
<1>3. TheMachine!InfoOrders = InfoOrders
  BY DEF TheMachine!InfoOrders, TheMachine!Prices, InfoOrders, Prices
<1>4. TheMachine!TypeOK
  <2> HIDE DEF taken
  <2> QED BY <1>1, <1>2, <1>3 DEF TheMachine!TypeOK, MachineTyped, taken
<1>5. /\ start0 \in {None} \cup 0 .. placed0 /\ start1 \in {None} \cup 0 .. Len(log1)
      /\ read1 \in Nat
  BY <1>1, MaxMessagesAssumption DEF Position0, Position1
<1> QED BY <1>1, <1>4, <1>5 DEF ExchangeTypeOK, TopicsTyped, Messages

(* The members of both threads and the contents of the partitions keep     *)
(* their types, whoever runs first.                                        *)
THEOREM ExchangeTyped == ExchangeSpec => []ExchangeTypeOK
BY ExchangeInitInv, ExchangeNextInv, ExchangeInvTypes, PTL DEF ExchangeSpec

(* No assert of remove_ (orderbook.cpp:99, 108) ends the exchange.         *)
THEOREM ExchangeNeverAborts == ExchangeSpec => []NeverAborts
<1>1. ExchangeInv => NeverAborts
  BY DEF ExchangeInv
<1> QED BY <1>1, ExchangeInitInv, ExchangeNextInv, PTL DEF ExchangeSpec

(* The status machine dies (status_machine.cpp:50) only of a Finished      *)
(* whose price it never read an Add of: each one came behind it or before  *)
(* the consumer was assigned (status_machine.hpp:24).                      *)
THEOREM ExchangeDies == ExchangeSpec => []DiesOnlyOfUnreadAdd
<1>1. ExchangeInv => DiesOnlyOfUnreadAdd
  BY DEF ExchangeInv
<1> QED BY <1>1, ExchangeInitInv, ExchangeNextInv, PTL DEF ExchangeSpec

(* The exchange as a whole is a matcher of active orders: composing the    *)
(* thread with the topics and the status machine adds no behaviour that    *)
(* Matching does not allow.                                                *)
THEOREM ExchangeRefines == ExchangeSpec => ImplementsMatching
<1>1. ExchangeInit => Abstract!Init
  BY InitRefined DEF ExchangeInit
<1>2. ExchangeInv /\ [ExchangeNext]_exchangeVars => [Abstract!Next]_Active
  BY MatcherStep, NextRefined DEF ExchangeInv
<1>3. ExchangeSpec => Abstract!Init /\ [][Abstract!Next]_Active
  BY <1>1, <1>2, ExchangeInitInv, ExchangeNextInv, PTL DEF ExchangeSpec
<1> QED BY <1>3 DEF ImplementsMatching, Abstract!Spec

-----------------------------------------------------------------------------
(* What was sold was bought. *)

(* new_order() gave no two orders the same place on the book. *)
DistinctPlaces ==
    \A i, j \in DOMAIN accepted : SamePlace(accepted[i], accepted[j]) => i = j

(* Whoever rests has come to the matcher through partition 0. *)
RestingArrived ==
    \A info \in Resting(book) : \E i \in Taken : info.full_order = accepted[i]

BalanceInv ==
    /\ FiniteBook
    /\ DistinctPlaces
    /\ RestingArrived
    /\ SoldIsBought

LEMMA TakenTyped ==
    ASSUME Inv, TopicsTyped
    PROVE  /\ IsFiniteSet(Taken) /\ Taken \subseteq 1 .. Len(accepted)
           /\ \A i \in Taken : accepted[i] \in Orders
<1>1. /\ accepted \in Seq(Orders) /\ offset \in Nat /\ Len(accepted) \in Nat
      /\ start0 \in {None} \cup Nat /\ placed0 \in 0 .. Len(accepted) /\ start0 + offset <= placed0
  BY DEF TopicsTyped, Position0, Inv, TypeOK
<1>2. Taken \subseteq 1 .. Len(accepted)
  BY <1>1 DEF Taken, Position0, None
<1>3. IsFiniteSet(1 .. Len(accepted))
  BY <1>1, FS_Interval
<1>4. IsFiniteSet(Taken)
  BY <1>2, <1>3, FS_Subset
<1>5. \A i \in 1 .. Len(accepted) : accepted[i] \in Orders
  BY <1>1
<1> QED BY <1>2, <1>4, <1>5

LEMMA TakenStep ==
    ASSUME Inv, TopicsTyped, [ExchangeNext]_exchangeVars
    PROVE  /\ ~ MatcherPolls => Taken' = Taken
           /\ MatcherPolls =>
                /\ Position0 + 1 \notin Taken /\ Position0 + 1 \in DOMAIN accepted
                /\ accepted' = accepted /\ Taken' = Taken \cup {Position0 + 1}
<1>1. /\ accepted \in Seq(Orders) /\ offset \in Nat /\ Len(accepted) \in Nat
      /\ start0 \in {None} \cup Nat /\ placed0 \in 0 .. Len(accepted)
      /\ start0 = None => offset = 0
  BY DEF TopicsTyped, Inv, TypeOK
<1>2. CASE UNCHANGED <<start0, offset>> /\ ~ MatcherPolls
  BY <1>2 DEF Taken, Position0
<1>3. CASE Assign0
  <2>1. start0 = None /\ offset = 0 /\ offset' = 0 /\ start0' = placed0 /\ placed0 \in Nat
    BY <1>1, <1>3 DEF Assign0, vars
  <2>2. Taken = {} /\ Taken' = {}
    BY <2>1 DEF Taken, Position0, None
  <2>3. ~ MatcherPolls
    BY <2>1 DEF MatcherPolls
  <2> QED BY <2>2, <2>3
<1>4. CASE MatcherPolls
  <2>1. /\ start0 \in Nat /\ start0' = start0 /\ offset' = offset + 1 /\ accepted' = accepted
        /\ start0 + offset < placed0
    BY <1>1, <1>4 DEF MatcherPolls, Position0, PollAdd, Receive, startVars
  <2>2. Taken = start0 + 1 .. start0 + offset /\ Taken' = start0 + 1 .. start0 + (offset + 1)
    BY <2>1 DEF Taken, Position0, None
  <2>3. /\ Taken' = Taken \cup {start0 + offset + 1} /\ start0 + offset + 1 \notin Taken
        /\ start0 + offset + 1 \in DOMAIN accepted
    BY <1>1, <2>1, <2>2
  <2> QED BY <1>4, <2>1, <2>3 DEF Position0
<1>5. CASE MatcherResolves
  BY <1>2, <1>5 DEF MatcherResolves, MatcherPolls, PollAdd, Receive, Resolve, AskExhausted,
         BidExhausted, BothExhausted, ResolveDone, EndReadCrash, startVars
<1>6. ~ MatcherPolls /\ ~ MatcherResolves /\ ~ Assign0 => UNCHANGED <<start0, offset>>
  BY DEF ExchangeNext, exchangeVars, NewOrder, Place0, Place1, PlaceFinished, Assign1, MachinePolls,
         vars, startVars
<1> QED BY <1>2, <1>3, <1>4, <1>5, <1>6

LEMMA BalanceInit == ExchangeInit => BalanceInv
<1> SUFFICES ASSUME ExchangeInit PROVE BalanceInv
  OBVIOUS
<1>1. FiniteBook /\ Resting(book) = {} /\ accepted = <<>> /\ Taken = {}
  <2>1. Resting(book) = {}
    BY EmptyBookIsValid DEF ExchangeInit, Init
  <2> QED BY <2>1, InitFinite DEF ExchangeInit, Init, Taken
<1>2. ASSUME NEW t
      PROVE  Executed(t) = 0
  <2>1. Taken = {} /\ RestingOn(book, t) = {}
    BY <1>1 DEF RestingOn
  <2>2. VolumeIn(accepted, Taken, t) = 0
    BY <2>1, VolumeInNone
  <2>3. VolumeOf(RestingOn(book, t)) = 0
    BY <2>1, VolumeOfNone
  <2> QED BY <2>2, <2>3 DEF Executed
<1>3. DistinctPlaces /\ RestingArrived
  BY <1>1 DEF DistinctPlaces, RestingArrived
<1> QED BY <1>1, <1>2, <1>3 DEF BalanceInv, SoldIsBought

(* An order stamped by new_order(): nothing has come to the matcher yet. *)
LEMMA NewOrderBalance ==
    ASSUME Inv, TopicsTyped, BalanceInv, NEW order \in Orders, NewOrder(order)
    PROVE  BalanceInv'
<1>1. /\ accepted \in Seq(Orders) /\ accepted' = Append(accepted, order)
      /\ UNCHANGED <<book, offset, start0>>
  BY DEF NewOrder, TopicsTyped, vars, startVars
<1>2. /\ DOMAIN accepted = 1 .. Len(accepted) /\ DOMAIN accepted' = 1 .. Len(accepted) + 1
      /\ \A i \in 1 .. Len(accepted) : accepted'[i] = accepted[i]
      /\ accepted'[Len(accepted) + 1] = order /\ Len(accepted) \in Nat
  BY <1>1
<1>3. DistinctPlaces'
  <2>1. \A i \in DOMAIN accepted :
           ~ SamePlace(accepted[i], order) /\ ~ SamePlace(order, accepted[i])
    BY DEF NewOrder, SamePlace
  <2>2. ASSUME NEW i \in DOMAIN accepted', NEW j \in DOMAIN accepted',
               SamePlace(accepted'[i], accepted'[j])
        PROVE  i = j
    <3>1. CASE i \in DOMAIN accepted /\ j \in DOMAIN accepted
      BY <1>2, <2>2, <3>1 DEF BalanceInv, DistinctPlaces
    <3>2. CASE i = Len(accepted) + 1 /\ j \in DOMAIN accepted
      BY <1>2, <2>1, <2>2, <3>2
    <3>3. CASE i \in DOMAIN accepted /\ j = Len(accepted) + 1
      BY <1>2, <2>1, <2>2, <3>3
    <3> QED BY <1>2, <3>1, <3>2, <3>3
  <2> QED BY <2>2 DEF DistinctPlaces
<1>4. Taken' = Taken /\ \A i \in Taken : accepted'[i] = accepted[i]
  BY <1>1, <1>2, TakenTyped DEF Taken, Position0
<1>5. RestingArrived'
  BY <1>1, <1>4 DEF BalanceInv, RestingArrived
<1>6. ASSUME NEW t
      PROVE  VolumeIn(accepted', Taken, t) = VolumeIn(accepted, Taken, t)
  <2>1. IsFiniteSet(Taken)
    BY TakenTyped
  <2> DEFINE places == Taken
             longer == accepted'
  <2>2. IsFiniteSet(places) /\ \A i \in places : longer[i] = accepted[i]
    BY <1>4, <2>1
  <2> HIDE DEF places, longer
  <2>3. VolumeIn(longer, places, t) = VolumeIn(accepted, places, t)
    BY <2>2, VolumeInSame
  <2> QED BY <2>3 DEF places, longer
<1> QED BY <1>1, <1>3, <1>4, <1>5, <1>6 DEF BalanceInv, FiniteBook, SoldIsBought, Executed

(* An order that the matcher takes in. *)
LEMMA PollBalance ==
    ASSUME Inv, TopicsTyped, BalanceInv, MatcherPolls
    PROVE  BalanceInv'
<1> DEFINE n == Position0 + 1
           order == accepted[n]
<1>1. /\ accepted \in Seq(Orders) /\ UNCHANGED accepted
      /\ n \in DOMAIN accepted /\ n \notin Taken /\ Taken' = Taken \cup {n}
      /\ \A i \in Taken : i \in DOMAIN accepted
      /\ order \in Orders /\ PollAdd(order) /\ ValidBook(book)
  <2>1. [ExchangeNext]_exchangeVars
    BY DEF ExchangeNext
  <2> QED BY <2>1, InvBook, TakenTyped, TakenStep DEF MatcherPolls, TopicsTyped
<1> HIDE DEF n, order
<1>2. \A i \in Resting(book) :
         ~ At(i, order.order_type, order.price, order.timestamp_exchange)
  <2> SUFFICES ASSUME NEW i \in Resting(book),
                      At(i, order.order_type, order.price, order.timestamp_exchange)
               PROVE  FALSE
    OBVIOUS
  <2>1. PICK k \in Taken : i.full_order = accepted[k]
    BY DEF BalanceInv, RestingArrived
  <2>2. i.price = i.full_order.price
    BY <1>1, RestingIsFiled
  <2>3. SamePlace(accepted[k], accepted[n])
    BY <2>1, <2>2 DEF At, SamePlace, order
  <2>4. k = n
    BY <1>1, <2>3 DEF BalanceInv, DistinctPlaces
  <2> QED BY <1>1, <2>4
<1>3. IsFiniteSet(Taken) /\ \A i \in Taken : accepted[i] \in Orders
  BY TakenTyped
<1>4. ASSUME NEW t
      PROVE  Executed(t)' = Executed(t)
  <2> DEFINE places == Taken
  <2>1. /\ IsFiniteSet(places) /\ n \notin places /\ accepted[n] = order
        /\ \A i \in places : accepted[i] \in Orders
    BY <1>1, <1>3 DEF order
  <2>2. ValidBook(book) /\ FiniteBook /\ order \in Orders /\ PollAdd(order)
    BY <1>1 DEF BalanceInv
  <2> HIDE DEF places
  <2>3. VolumeIn(accepted, places \cup {n}, t) - VolumeOf(RestingOn(book', t))
          = VolumeIn(accepted, places, t) - VolumeOf(RestingOn(book, t))
    BY <1>2, <2>1, <2>2, PollAddBalance
  <2> QED BY <1>1, <2>3 DEF Executed, places
<1>5. SoldIsBought'
  BY <1>4 DEF BalanceInv, SoldIsBought
<1>6. FiniteBook'
  <2>1. [Next]_vars
    BY <1>1 DEF Next
  <2> QED BY <2>1, NextFinite DEF BalanceInv
<1>7. RestingArrived'
  <2>1. ASSUME NEW info \in Resting(book')
        PROVE  \E i \in Taken \cup {n} : info.full_order = accepted[i]
    <3>1. info \in Resting(book) \/ info = InfoOrder(order)
      BY <1>1, PollAddStep
    <3>2. CASE info \in Resting(book)
      BY <1>1, <3>2 DEF BalanceInv, RestingArrived
    <3>3. CASE info = InfoOrder(order)
      BY <1>1, <3>3 DEF InfoOrder, order
    <3> QED BY <3>1, <3>2, <3>3
  <2> QED BY <1>1, <2>1 DEF RestingArrived
<1> QED BY <1>1, <1>5, <1>6, <1>7 DEF BalanceInv, DistinctPlaces

(* A turn of the loop, or its end. *)
LEMMA ResolveBalance ==
    ASSUME Inv, TopicsTyped, BalanceInv, MatcherResolves
    PROVE  BalanceInv'
<1>1. UNCHANGED accepted /\ Taken' = Taken
  BY DEF MatcherResolves, Resolve, AskExhausted, BidExhausted, BothExhausted, ResolveDone,
         EndReadCrash, startVars, Taken, Position0
<1>2. DistinctPlaces' /\ FiniteBook'
  <2>1. [Next]_vars
    BY DEF MatcherResolves, Next
  <2> QED BY <1>1, <2>1, NextFinite DEF BalanceInv, DistinctPlaces
<1>3. CASE UNCHANGED book
  BY <1>1, <1>2, <1>3 DEF BalanceInv, RestingArrived, SoldIsBought, Executed
<1>4. CASE AskExhausted \/ BidExhausted \/ BothExhausted
  <2>1. RestingArrived'
    BY <1>1, <1>4, TurnOrders DEF BalanceInv, RestingArrived
  <2>2. PICK v \in Nat : \A t \in OrderType :
           /\ VolumeOf(RestingOn(book, t)) \in Int
           /\ VolumeOf(RestingOn(book', t)) = VolumeOf(RestingOn(book, t)) - v
    BY <1>4, TurnBalance DEF BalanceInv
  <2>3. ASSUME NEW t \in OrderType
        PROVE  Executed(t) \in Int /\ Executed(t)' = Executed(t) + v
    <3>1. VolumeIn(accepted, Taken, t) \in Int
      BY TakenTyped, VolumeInType
    <3> QED BY <1>1, <2>2, <3>1 DEF Executed
  <2>4. SoldIsBought'
    BY <2>3 DEF BalanceInv, SoldIsBought, OrderType
  <2> QED BY <1>2, <2>1, <2>4 DEF BalanceInv
<1> QED BY <1>3, <1>4 DEF MatcherResolves, Resolve, ResolveDone, EndReadCrash

LEMMA BalanceStep ==
    ASSUME ExchangeInv, BalanceInv, [ExchangeNext]_exchangeVars
    PROVE  BalanceInv'
<1>1. CASE \E order \in Orders : NewOrder(order)
  BY <1>1, NewOrderBalance DEF ExchangeInv
<1>2. CASE MatcherPolls \/ MatcherResolves
  BY <1>2, PollBalance, ResolveBalance DEF ExchangeInv
<1>3. CASE UNCHANGED <<book, accepted>> /\ ~ MatcherPolls
  <2>1. Taken' = Taken
    BY <1>3, TakenStep DEF ExchangeInv
  <2> QED BY <1>3, <2>1
      DEF BalanceInv, FiniteBook, DistinctPlaces, RestingArrived, SoldIsBought, Executed
<1> QED BY <1>1, <1>2, <1>3
    DEF ExchangeNext, exchangeVars, vars, Place0, Place1, PlaceFinished, Assign0, Assign1, MachinePolls

(* What was sold was bought, over any number of orders and turns of the    *)
(* loop (matcher.cpp:32-53), as long as no two orders have one place.      *)
THEOREM ExchangeBalances == ExchangeSpec => []SoldIsBought
<1>1. BalanceInv => SoldIsBought
  BY DEF BalanceInv
<1> QED BY <1>1, BalanceInit, BalanceStep, ExchangeInitInv, ExchangeNextInv, PTL DEF ExchangeSpec
=============================================================================
