------------------------ MODULE ExchangeFaultsProofs ------------------------
(***************************************************************************)
(* The exchange with faults, for every set of orders and number of faults. *)
(*                                                                         *)
(* Between two starts of the process its steps are the matcher's or leave  *)
(* it alone (MatcherStep), so that MatcherProofs holds of each life.  The  *)
(* invariant says besides where everything on the book has come from       *)
(* (RestingTaken) and what the status machine knows (KnowsPrices).         *)
(***************************************************************************)
EXTENDS ExchangeFaults, MatcherProofs, SequenceTheorems

(* The producers, the partitions and the number of messages in them. *)
TopicsTyped ==
    /\ accepted \subseteq Orders /\ IsFiniteSet(accepted) /\ Cardinality(accepted) <= MaxOrders
    /\ between \subseteq accepted
    /\ queue0 \in Seq(Orders) /\ queue1 \in Seq(Orders) /\ finished \in Seq(Orders)
    /\ log0 \in Seq(Orders) /\ Len(log0) + Len(queue0) <= Cardinality(accepted) + faults
    /\ log1 \in Seq(TheMachine!Events)
    /\ faults \in 0 .. MaxFaults

(* The consumers: before assign() nothing has been taken in. *)
ConsumersTyped ==
    /\ start0 \in {None} \cup Nat /\ Position0 <= Len(log0)
    /\ start0 = None => offset = 0
    /\ start1 \in {None} \cup Nat /\ Position1 <= Len(log1)
    /\ start1 = None => consumed = <<>>
    /\ committed0 \in {None} \cup 0 .. Len(log0)
    /\ committed1 \in {None} \cup 0 .. Len(log1)

FaultsInv ==
    /\ Inv /\ FiniteBook
    /\ TopicsTyped
    /\ ConsumersTyped
    /\ TheMachine!TypeOK

(* The orders whose second message has been produced or is to be next. *)
Told == between \cup Range(queue1)
          \cup {event.order : event \in {e \in Range(log1) : e.key = "Add"}}

(* What the status machine has taken in in this life it knows by price. *)
KnowsPrices ==
    \A i \in start1 + 1 .. Position1 :
        log1[i].key = "Add" => \E known \in all_orders : known.price = log1[i].order.price

(* new_order() gives one order after the other to the producer. *)
OneBetween == \A o1, o2 \in between : o1 = o2

(* Whoever rests has come in this life. *)
RestingTaken == \A info \in Resting(book) : \E i \in Taken : info.full_order = log0[i]

HistoryTyped == delivered \in [Orders -> Nat] /\ executed \in [Orders -> Nat]

-----------------------------------------------------------------------------
(* The matcher between two starts, and a start. *)

LEMMA MatcherStep ==
    ASSUME Inv, TopicsTyped, ConsumersTyped, [FaultsNext]_faultsVars, ~ Restart
    PROVE  [Next]_vars
<1>1. CASE MatcherPolls
  <2>1. log0[Position0 + 1] \in Orders
    BY <1>1, MaxMessagesAssumption
       DEF MatcherPolls, TopicsTyped, ConsumersTyped, Position0, Inv, TypeOK
  <2> QED BY <1>1, <2>1 DEF MatcherPolls, Next, PollAdd
<1>2. CASE MatcherResolves
  BY <1>2 DEF MatcherResolves, Next, Resolve, AskExhausted, BidExhausted, BothExhausted,
         ResolveDone, EndReadCrash
<1>3. CASE UNCHANGED vars
  BY <1>3 DEF vars
<1> QED BY <1>1, <1>2, <1>3
    DEF FaultsNext, faultsVars, ProduceFirst, ProduceSecond, Send0, Send1, SendFinished, Drop0,
        Drop1, DropFinished, Dropped,
        Assign0, Assign1, Commit0, Commit1, MachinePolls

LEMMA RestartedMatcher ==
    ASSUME Restart
    PROVE  Inv' /\ FiniteBook' /\ Resting(book') = {}
<1>1. ValidBook(book') /\ Resting(book') = {}
  BY EmptyBookIsValid DEF Restart
<1>2. TypeOK' /\ BookWellFormed'
  BY <1>1, MaxMessagesAssumption, ValidBookIsWellFormed DEF Restart, TypeOK, BookWellFormed
<1> QED BY <1>1, <1>2, FS_EmptySet DEF Inv, FiniteBook

LEMMA MatcherInv ==
    ASSUME Inv, FiniteBook, TopicsTyped, ConsumersTyped, [FaultsNext]_faultsVars
    PROVE  Inv' /\ FiniteBook'
<1>1. CASE Restart
  BY <1>1, RestartedMatcher
<1>2. CASE ~ Restart
  BY <1>2, MatcherStep, NextInv, NextFinite
<1> QED BY <1>1, <1>2

-----------------------------------------------------------------------------
(* The producers and the partitions. *)

(* A message that is taken out of the middle of a queue. *)
LEMMA TakenOut ==
    ASSUME NEW S, NEW q \in Seq(S), NEW i \in DOMAIN q
    PROVE  /\ Sequence!RemoveAt(q, i) \in Seq(S) /\ Len(Sequence!RemoveAt(q, i)) = Len(q) - 1
           /\ Range(Sequence!RemoveAt(q, i)) \subseteq Range(q)
           /\ Range(q) \subseteq Range(Sequence!RemoveAt(q, i)) \cup {q[i]}
<1> DEFINE front == SubSeq(q, 1, i - 1)
           back == SubSeq(q, i + 1, Len(q))
           rest == front \o back
<1>1. i \in Nat /\ 1 <= i /\ i <= Len(q) /\ Len(q) \in Nat /\ DOMAIN q = 1 .. Len(q)
  OBVIOUS
<1>2. /\ front \in Seq(S) /\ Len(front) = i - 1
      /\ \A k \in 1 .. i - 1 : front[k] = q[k]
  BY <1>1
<1>3. /\ back \in Seq(S) /\ Len(back) = Len(q) - i
      /\ \A k \in 1 .. Len(q) - i : back[k] = q[i + k]
  BY <1>1
<1>4. Sequence!RemoveAt(q, i) = rest
  BY DEF Sequence!RemoveAt
<1> HIDE DEF front, back
<1>5. rest \in Seq(S) /\ Len(rest) = Len(q) - 1 /\ DOMAIN rest = 1 .. Len(q) - 1
  <2>1. rest \in Seq(S) /\ Len(rest) = Len(front) + Len(back)
    BY <1>2, <1>3, ConcatProperties
  <2>2. Len(rest) = Len(q) - 1
    BY <1>1, <1>2, <1>3, <2>1
  <2> HIDE DEF rest
  <2>3. DOMAIN rest = 1 .. Len(rest)
    BY <2>1
  <2> QED BY <2>1, <2>2, <2>3
<1>6. /\ \A k \in 1 .. i - 1 : rest[k] = q[k]
      /\ \A k \in i .. Len(q) - 1 : rest[k] = q[k + 1]
  <2>1. ASSUME NEW k \in 1 .. i - 1
        PROVE  rest[k] = q[k]
    BY <1>1, <1>2, <1>3
  <2>2. ASSUME NEW k \in i .. Len(q) - 1
        PROVE  rest[k] = q[k + 1]
    <3>1. rest[k] = back[k - (i - 1)]
      BY <1>1, <1>2, <1>3
    <3>2. back[k - (i - 1)] = q[i + (k - (i - 1))] /\ i + (k - (i - 1)) = k + 1
      BY <1>1, <1>3
    <3> QED BY <3>1, <3>2
  <2> QED BY <2>1, <2>2
<1> HIDE DEF rest
<1>7. Range(rest) \subseteq Range(q)
  <2>1. ASSUME NEW k \in 1 .. Len(q) - 1
        PROVE  \E j \in 1 .. Len(q) : rest[k] = q[j]
    <3>1. CASE k <= i - 1
      BY <1>1, <1>6, <3>1
    <3>2. CASE k >= i
      BY <1>1, <1>6, <3>2
    <3> QED BY <1>1, <3>1, <3>2
  <2> QED BY <1>1, <1>5, <2>1 DEF Range
<1>8. Range(q) \subseteq Range(rest) \cup {q[i]}
  <2>1. ASSUME NEW j \in 1 .. Len(q), j # i
        PROVE  \E k \in 1 .. Len(q) - 1 : q[j] = rest[k]
    <3>1. CASE j <= i - 1
      BY <1>1, <1>6, <3>1
    <3>2. CASE j >= i + 1
      <4>1. j - 1 \in i .. Len(q) - 1 /\ (j - 1) + 1 = j
        BY <1>1, <3>2
      <4> QED BY <1>1, <1>6, <4>1
    <3> QED BY <1>1, <2>1, <3>1, <3>2
  <2> QED BY <1>1, <1>5, <2>1 DEF Range
<1> QED BY <1>4, <1>5, <1>7, <1>8

LEMMA PutBehind ==
    ASSUME NEW S, NEW q \in Seq(S), NEW x \in S
    PROVE  Append(q, x) \in Seq(S) /\ Range(Append(q, x)) = Range(q) \cup {x}
<1>1. /\ Append(q, x) \in Seq(S) /\ Len(q) \in Nat
      /\ DOMAIN Append(q, x) = 1 .. Len(q) + 1 /\ Append(q, x)[Len(q) + 1] = x
      /\ \A i \in 1 .. Len(q) : Append(q, x)[i] = q[i]
  OBVIOUS
<1>2. 1 .. Len(q) + 1 = DOMAIN q \cup {Len(q) + 1}
  BY <1>1
<1> QED BY <1>1, <1>2 DEF Range

(* Whether or not a message that is sent is kept to be sent again. *)
LEMMA LeftInQueue ==
    ASSUME NEW q \in Seq(Orders), NEW i \in DOMAIN q, NEW again \in BOOLEAN
    PROVE  /\ LeftIn(q, i, again) \in Seq(Orders)
           /\ Len(LeftIn(q, i, again)) <= Len(q)
           /\ ~ again => Len(LeftIn(q, i, again)) = Len(q) - 1
           /\ Range(LeftIn(q, i, again)) \subseteq Range(q)
           /\ Range(q) \subseteq Range(LeftIn(q, i, again)) \cup {q[i]}
<1>1. CASE again
  BY <1>1 DEF LeftIn
<1>2. CASE ~ again
  BY <1>2, TakenOut DEF LeftIn
<1> QED BY <1>1, <1>2

LEMMA TopicsStep ==
    ASSUME FaultsInv, [FaultsNext]_faultsVars
    PROVE  TopicsTyped'
<1> USE FaultsAssumption DEF FaultsInv, TopicsTyped
<1>0. Cardinality(accepted) \in Nat
  BY FS_CardinalityType
<1>1. ASSUME NEW order \in Orders, ProduceFirst(order)
      PROVE  TopicsTyped'
  <2>1. /\ IsFiniteSet(accepted') /\ Cardinality(accepted') = Cardinality(accepted) + 1
        /\ Cardinality(accepted) \in Nat
    BY <1>1, FS_AddElement, FS_CardinalityType DEF ProduceFirst
  <2>2. queue0' \in Seq(Orders) /\ Len(queue0') = Len(queue0) + 1
    BY <1>1 DEF ProduceFirst
  <2>3. Cardinality(accepted') <= MaxOrders
    BY <1>1, <2>1 DEF ProduceFirst
  <2>4. /\ UNCHANGED <<queue1, finished, log0, log1, faults>>
        /\ accepted' \subseteq Orders /\ between' \subseteq accepted'
    BY <1>1 DEF ProduceFirst, topicVars, vars
  <2> QED BY <2>1, <2>2, <2>3, <2>4
<1>2. ASSUME NEW order \in Orders, ProduceSecond(order)
      PROVE  TopicsTyped'
  BY <1>2 DEF ProduceSecond, topicVars, historyVars, vars
<1>3. ASSUME NEW q \in Seq(Orders), NEW i \in DOMAIN q, NEW again \in BOOLEAN, Sent(q, i, again)
      PROVE  /\ faults' \in 0 .. MaxFaults /\ faults <= faults'
             /\ again => faults + 1 <= faults'
             /\ q[i] \in Orders
  <2>1. i = 1 \/ i # 1
    OBVIOUS
  <2> QED BY <1>3, <2>1 DEF Sent
<1>4. ASSUME NEW i \in DOMAIN queue0, NEW again \in BOOLEAN, Send0(i, again)
      PROVE  TopicsTyped'
  <2>1. /\ queue0' \in Seq(Orders) /\ queue0[i] \in Orders
        /\ Len(queue0') <= Len(queue0)
        /\ ~ again => Len(queue0') = Len(queue0) - 1
        /\ faults' \in 0 .. MaxFaults /\ faults <= faults'
        /\ again => faults + 1 <= faults'
    BY <1>3, <1>4, LeftInQueue DEF Send0
  <2>2. log0' \in Seq(Orders) /\ Len(log0') = Len(log0) + 1
    BY <1>4, <2>1 DEF Send0
  <2>3. UNCHANGED <<accepted, between, queue1, finished, log1>>
    BY <1>4 DEF Send0, historyVars
  <2>4. Len(log0') + Len(queue0') <= Cardinality(accepted) + faults'
    <3>1. /\ Len(log0) + Len(queue0) <= Cardinality(accepted) + faults
          /\ Len(log0) \in Nat /\ Len(queue0) \in Nat /\ Len(queue0') \in Nat
          /\ faults \in Nat /\ faults' \in Nat
      BY <2>1
    <3>2. CASE again
      BY <1>0, <2>1, <2>2, <3>1, <3>2
    <3>3. CASE ~ again
      BY <1>0, <2>1, <2>2, <3>1, <3>3
    <3> QED BY <3>2, <3>3
  <2> QED BY <2>1, <2>2, <2>3, <2>4
<1>5. ASSUME NEW i \in DOMAIN queue1, NEW again \in BOOLEAN, Send1(i, again)
      PROVE  TopicsTyped'
  <2>1. /\ queue1' \in Seq(Orders) /\ queue1[i] \in Orders
        /\ faults' \in 0 .. MaxFaults /\ faults <= faults'
    BY <1>3, <1>5, LeftInQueue DEF Send1
  <2>2. TheMachine!Event("Add", queue1[i]) \in TheMachine!Events
    BY <2>1 DEF TheMachine!Event, TheMachine!Events
  <2>3. log1' \in Seq(TheMachine!Events)
    BY <1>5, <2>2 DEF Send1
  <2>4. UNCHANGED <<accepted, between, queue0, finished, log0>>
    BY <1>5 DEF Send1, historyVars
  <2> QED BY <1>0, <2>1, <2>3, <2>4
<1>6. ASSUME NEW i \in DOMAIN finished, NEW again \in BOOLEAN, SendFinished(i, again)
      PROVE  TopicsTyped'
  <2>1. /\ finished' \in Seq(Orders) /\ finished[i] \in Orders
        /\ faults' \in 0 .. MaxFaults /\ faults <= faults'
    BY <1>3, <1>6, LeftInQueue DEF SendFinished
  <2>2. TheMachine!Event("Finished", finished[i]) \in TheMachine!Events
    BY <2>1 DEF TheMachine!Event, TheMachine!Events
  <2>3. log1' \in Seq(TheMachine!Events)
    BY <1>6, <2>2 DEF SendFinished
  <2>4. UNCHANGED <<accepted, between, queue0, queue1, log0>>
    BY <1>6 DEF SendFinished, historyVars
  <2> QED BY <1>0, <2>1, <2>3, <2>4
<1>7. ASSUME NEW q \in Seq(Orders), NEW i \in DOMAIN q, Dropped(q, i)
      PROVE  /\ UNCHANGED <<accepted, between, log0, log1>>
             /\ faults' \in 0 .. MaxFaults /\ faults <= faults'
             /\ Sequence!RemoveAt(q, i) \in Seq(Orders) /\ Len(Sequence!RemoveAt(q, i)) = Len(q) - 1
  BY <1>7, TakenOut DEF Dropped, topicVars, historyVars
<1>8. ASSUME \/ \E i \in DOMAIN queue0 : Drop0(i)
             \/ \E i \in DOMAIN queue1 : Drop1(i)
             \/ \E i \in DOMAIN finished : DropFinished(i)
      PROVE  TopicsTyped'
  <2>1. CASE \E i \in DOMAIN queue0 : Drop0(i)
    BY <1>0, <1>7, <2>1 DEF Drop0
  <2>2. CASE \E i \in DOMAIN queue1 : Drop1(i)
    BY <1>0, <1>7, <2>2 DEF Drop1
  <2>3. CASE \E i \in DOMAIN finished : DropFinished(i)
    BY <1>0, <1>7, <2>3 DEF DropFinished
  <2> QED BY <1>8, <2>1, <2>2, <2>3
<1>9. CASE MatcherPolls
  BY <1>9 DEF MatcherPolls, producerVars, topicVars
<1>10. CASE MatcherResolves
  <2>1. ~ Restart
    BY <1>10 DEF MatcherResolves, Restart
  <2>2. events \in Seq(Orders) /\ events' \in Seq(Orders)
    BY MatcherInv DEF Inv, TypeOK
  <2>3. SubSeq(events', Len(events) + 1, Len(events')) \in Seq(Orders)
    BY <2>2
  <2>4. finished' \in Seq(Orders)
    BY <1>10, <2>3 DEF MatcherResolves
  <2> QED BY <1>10, <2>4 DEF MatcherResolves, topicVars
<1>11. CASE Assign0 \/ Assign1 \/ Commit0 \/ Commit1 \/ MachinePolls \/ UNCHANGED faultsVars
  BY <1>11 DEF Assign0, Assign1, Commit0, Commit1, MachinePolls, faultsVars, producerVars,
         topicVars, historyVars, vars
<1>12. CASE Restart
  <2>1. /\ UNCHANGED <<accepted, log0, log1>>
        /\ queue0' = <<>> /\ queue1' = <<>> /\ finished' = <<>>
        /\ between' = {} /\ faults' = faults + 1 /\ faults < MaxFaults
    BY <1>12 DEF Restart, topicVars, historyVars
  <2>2. Len(<<>>) = 0 /\ Len(queue0) \in Nat /\ Len(log0) \in Nat
    OBVIOUS
  <2> QED BY <1>0, <2>1, <2>2
<1> QED BY <1>1, <1>2, <1>4, <1>5, <1>6, <1>8, <1>9, <1>10, <1>11, <1>12 DEF FaultsNext

-----------------------------------------------------------------------------
(* The consumers and the status machine. *)

LEMMA LogsGrow ==
    ASSUME FaultsInv, [FaultsNext]_faultsVars
    PROVE  /\ Len(log0) \in Nat /\ Len(log0') \in Nat /\ Len(log0) <= Len(log0')
           /\ \A i \in 1 .. Len(log0) : log0'[i] = log0[i]
           /\ Len(log1) \in Nat /\ Len(log1') \in Nat /\ Len(log1) <= Len(log1')
           /\ \A i \in 1 .. Len(log1) : log1'[i] = log1[i]
<1>1. /\ log0 \in Seq(Orders) /\ log0' \in Seq(Orders)
      /\ log1 \in Seq(TheMachine!Events) /\ log1' \in Seq(TheMachine!Events)
  BY TopicsStep DEF FaultsInv, TopicsTyped
<1>2. /\ log0' = log0 \/ \E o : log0' = Append(log0, o)
      /\ log1' = log1 \/ \E m : log1' = Append(log1, m)
  BY DEF FaultsNext, faultsVars, ProduceFirst, ProduceSecond, Send0, Send1, SendFinished, Drop0,
         Drop1, DropFinished, Dropped,
         Assign0, Assign1, Commit0, Commit1, MatcherPolls, MatcherResolves, MachinePolls,
         Restart, topicVars
<1>3. /\ Len(log0) <= Len(log0') /\ \A i \in 1 .. Len(log0) : log0'[i] = log0[i]
  BY <1>1, <1>2
<1>4. /\ Len(log1) <= Len(log1') /\ \A i \in 1 .. Len(log1) : log1'[i] = log1[i]
  BY <1>1, <1>2
<1> QED BY <1>1, <1>3, <1>4

LEMMA ConsumersStep ==
    ASSUME FaultsInv, [FaultsNext]_faultsVars
    PROVE  ConsumersTyped'
<1> USE DEF ConsumersTyped, Position0, Position1, None
<1>1. ConsumersTyped /\ offset \in Nat /\ offset' \in Nat
  BY MatcherInv, MaxMessagesAssumption DEF FaultsInv, Inv, TypeOK
<1>2. consumed \in Seq(TheMachine!Events) /\ Len(consumed) \in Nat
  BY DEF FaultsInv, TheMachine!TypeOK
<1>3. Len(log0) <= Len(log0') /\ Len(log1) <= Len(log1')
      /\ Len(log0) \in Nat /\ Len(log0') \in Nat /\ Len(log1) \in Nat /\ Len(log1') \in Nat
  BY LogsGrow
<1>4. CASE UNCHANGED <<offset, consumed, consumerVars>>
  BY <1>1, <1>2, <1>3, <1>4 DEF consumerVars
<1>5. CASE Assign0
  <2>1. /\ UNCHANGED <<offset, consumed, log0, log1, start1, committed0, committed1>>
        /\ offset = 0 /\ start0' \in 0 .. Len(log0)
    BY <1>1, <1>3, <1>5 DEF Assign0, StartingAt, vars, machineVars, topicVars
  <2> QED BY <1>1, <1>2, <1>3, <2>1
<1>6. CASE Assign1
  <2>1. /\ UNCHANGED <<offset, consumed, log0, log1, start0, committed0, committed1>>
        /\ consumed = <<>> /\ start1' \in 0 .. Len(log1)
    BY <1>1, <1>3, <1>6 DEF Assign1, StartingAt, vars, machineVars, topicVars
  <2>2. Len(consumed) = 0
    BY <2>1
  <2> QED BY <1>1, <1>2, <1>3, <2>1, <2>2
<1>7. CASE Commit0
  <2>1. /\ UNCHANGED <<offset, consumed, log0, log1, start0, start1, committed1>>
        /\ committed0' = start0 + offset /\ offset > 0
    BY <1>7 DEF Commit0, vars, machineVars, topicVars
  <2> QED BY <1>1, <1>2, <1>3, <2>1
<1>8. CASE Commit1
  <2>1. /\ UNCHANGED <<offset, consumed, log0, log1, start0, start1, committed0>>
        /\ committed1' = start1 + Len(consumed) /\ consumed # <<>>
    BY <1>8 DEF Commit1, vars, machineVars, topicVars
  <2> QED BY <1>1, <1>2, <1>3, <2>1
<1>9. CASE MatcherPolls
  <2>1. /\ UNCHANGED <<consumed, log0, log1, consumerVars>>
        /\ offset' = offset + 1 /\ start0 # None /\ start0 + offset < Len(log0)
    BY <1>9 DEF MatcherPolls, PollAdd, Receive, machineVars, topicVars
  <2> QED BY <1>1, <1>2, <1>3, <2>1 DEF consumerVars
<1>10. CASE MachinePolls
  <2>1. /\ UNCHANGED <<offset, log0, log1, consumerVars>>
        /\ start1 # None /\ start1 + Len(consumed) < Len(log1)
        /\ \E m : consumed' = Append(consumed, m)
    BY <1>10 DEF MachinePolls, TheMachine!PollAdd, TheMachine!PollFinished, TheMachine!Receive,
           vars, topicVars
  <2>2. Len(consumed') = Len(consumed) + 1
    BY <1>2, <2>1
  <2> QED BY <1>1, <1>2, <1>3, <2>1, <2>2 DEF consumerVars
<1>11. CASE Restart
  <2>1. /\ UNCHANGED <<log0, log1, committed0, committed1>>
        /\ offset' = 0 /\ consumed' = <<>> /\ start0' = None /\ start1' = None
    BY <1>11 DEF Restart, topicVars
  <2>2. Len(<<>>) = 0
    OBVIOUS
  <2> QED BY <1>1, <1>3, <2>1, <2>2
<1>12. CASE MatcherResolves
  BY <1>4, <1>12 DEF MatcherResolves, Resolve, AskExhausted, BidExhausted, BothExhausted,
         ResolveDone, EndReadCrash, machineVars
<1> QED BY <1>4, <1>5, <1>6, <1>7, <1>8, <1>9, <1>10, <1>11, <1>12
    DEF FaultsNext, faultsVars, ProduceFirst, ProduceSecond, Send0, Send1, SendFinished,
        Drop0, Drop1, DropFinished, Dropped, vars, machineVars

LEMMA MachineStep ==
    ASSUME FaultsInv, [FaultsNext]_faultsVars
    PROVE  TheMachine!TypeOK'
<1> USE DEF TheMachine!TypeOK
<1>1. TheMachine!TypeOK
  BY DEF FaultsInv
<1>2. CASE UNCHANGED machineVars
  BY <1>1, <1>2 DEF machineVars
<1>3. CASE MachinePolls
  <2> DEFINE order == log1[Position1 + 1].order
             key == log1[Position1 + 1].key
  <2>1. log1[Position1 + 1] \in TheMachine!Events
    <3>1. Position1 + 1 \in DOMAIN log1
      BY <1>1, <1>3
         DEF FaultsInv, ConsumersTyped, TopicsTyped, MachinePolls, Position1, None
    <3> QED BY <3>1 DEF FaultsInv, TopicsTyped
  <2>2. order \in Orders /\ TheMachine!Event(key, order) \in TheMachine!Events
    BY <2>1 DEF TheMachine!Events, TheMachine!Event
  <2>3. TheMachine!Event("Add", order) \in TheMachine!Events
        /\ TheMachine!Event("Finished", order) \in TheMachine!Events
    BY <2>2 DEF TheMachine!Events, TheMachine!Event
  <2> HIDE DEF order
  <2>4. /\ TheMachine!InfoOrder(order) \in TheMachine!InfoOrders
        /\ TheMachine!InfoOrder(order).price = order.price
    BY <2>2, OrdersAssumption
       DEF TheMachine!InfoOrder, TheMachine!InfoOrders, TheMachine!Prices
  <2>5. \/ TheMachine!PollAdd(order)
        \/ TheMachine!PollFinished(order)
    BY <1>3 DEF MachinePolls, order
  <2>6. ASSUME NEW e \in TheMachine!Events, consumed' = Append(consumed, e),
               Len(consumed) < MaxLog1
        PROVE  consumed' \in Seq(TheMachine!Events) /\ Len(consumed') <= MaxLog1
    <3>1. MaxLog1 \in Nat
      BY FaultsAssumption, MaxMessagesAssumption DEF MaxLog1
    <3> QED BY <1>1, <2>6, <3>1
  <2>7. consumed' \in Seq(TheMachine!Events) /\ Len(consumed') <= MaxLog1
    BY <2>3, <2>5, <2>6 DEF TheMachine!PollAdd, TheMachine!PollFinished, TheMachine!Receive
  <2>8. machine' \in {"poll", "crashed"}
    BY <1>1, <2>5 DEF TheMachine!PollAdd, TheMachine!PollFinished
  <2>9. \/ all_orders' = all_orders
        \/ /\ all_orders' = all_orders \cup {TheMachine!InfoOrder(order)}
           /\ \A info \in all_orders : info.price # order.price
    BY <2>4, <2>5 DEF TheMachine!PollAdd, TheMachine!PollFinished, TheMachine!IsKnown,
           TheMachine!Equivalent
  <2> QED BY <1>1, <2>4, <2>7, <2>8, <2>9
<1>4. CASE Restart
  <2>1. MaxLog1 \in Nat
    BY FaultsAssumption, MaxMessagesAssumption DEF MaxLog1
  <2> QED BY <1>4, <2>1 DEF Restart
<1> QED BY <1>2, <1>3, <1>4
    DEF FaultsNext, faultsVars, ProduceFirst, ProduceSecond, Send0, Send1, SendFinished, Drop0,
        Drop1, DropFinished, Dropped,
        Assign0, Assign1, Commit0, Commit1, MatcherPolls, MatcherResolves

LEMMA FaultsInitInv == FaultsInit => FaultsInv
<1> SUFFICES ASSUME FaultsInit PROVE FaultsInv
  OBVIOUS
<1>1. Inv /\ FiniteBook
  BY InitInv, InitFinite DEF FaultsInit
<1>2. Len(<<>>) = 0 /\ \A S : <<>> \in Seq(S)
  OBVIOUS
<1>3. IsFiniteSet({}) /\ Cardinality({}) = 0
  BY FS_EmptySet
<1>4. TopicsTyped
  BY <1>2, <1>3, FaultsAssumption DEF FaultsInit, Init, TopicsTyped
<1>5. ConsumersTyped
  BY <1>2 DEF FaultsInit, Init, TheMachine!Init, ConsumersTyped, Position0, Position1, None
<1>6. TheMachine!TypeOK
  <2>1. MaxLog1 \in Nat
    BY FaultsAssumption, MaxMessagesAssumption DEF MaxLog1
  <2> QED BY <1>2, <2>1 DEF FaultsInit, TheMachine!Init, TheMachine!TypeOK
<1> QED BY <1>1, <1>4, <1>5, <1>6 DEF FaultsInv

LEMMA FaultsNextInv == FaultsInv /\ [FaultsNext]_faultsVars => FaultsInv'
<1> SUFFICES ASSUME FaultsInv, [FaultsNext]_faultsVars PROVE FaultsInv'
  OBVIOUS
<1>1. Inv' /\ FiniteBook'
  BY MatcherInv DEF FaultsInv
<1> QED BY <1>1, TopicsStep, ConsumersStep, MachineStep DEF FaultsInv

(* Each life of the process is a matcher of active orders, wherever in the *)
(* partition it begins and whatever comes again (matcher.cpp:8-98).        *)
THEOREM LivesRefine == FaultsSpec => EachLifeMatches
<1>1. FaultsInit => Abstract!Init
  BY InitRefined DEF FaultsInit
<1>2. FaultsInv /\ [FaultsNext]_faultsVars => [Abstract!Next \/ Restart]_Active
  <2> SUFFICES ASSUME FaultsInv, [FaultsNext]_faultsVars, ~ Restart
               PROVE  [Abstract!Next]_Active
    OBVIOUS
  <2>1. Inv /\ [Next]_vars
    BY MatcherStep DEF FaultsInv
  <2> QED BY <2>1, NextRefined
<1>3. FaultsSpec => Abstract!Init /\ [][Abstract!Next \/ Restart]_Active
  BY <1>1, <1>2, FaultsInitInv, FaultsNextInv, PTL DEF FaultsSpec
<1> QED BY <1>3 DEF EachLifeMatches

-----------------------------------------------------------------------------
(* An order goes to both partitions. *)

(* Whom the status machine has been told of, or will be, it stays told of  *)
(* until the process ends or the message is dropped.                       *)
LEMMA ToldGrows ==
    ASSUME FaultsInv, OneBetween, [FaultsNext]_faultsVars, ~ Restart,
           \A i \in DOMAIN queue1 : ~ Drop1(i)
    PROVE  Told \subseteq Told'
<1>1. queue1 \in Seq(Orders) /\ log1 \in Seq(TheMachine!Events)
  BY DEF FaultsInv, TopicsTyped
<1>2. Range(log1) \subseteq Range(log1')
  BY <1>1, LogsGrow DEF Range
<1>3. CASE between \subseteq between' /\ UNCHANGED queue1
  BY <1>2, <1>3 DEF Told
<1>4. ASSUME NEW order \in Orders, ProduceSecond(order)
      PROVE  Told \subseteq Told'
  <2>1. /\ queue1' = Append(queue1, order) /\ order \in between
        /\ \A o \in between : o = order
    BY <1>4 DEF ProduceSecond, OneBetween
  <2>2. Range(queue1') = Range(queue1) \cup {order}
    BY <1>1, <2>1, PutBehind
  <2> QED BY <1>2, <2>1, <2>2 DEF Told
<1>5. ASSUME NEW i \in DOMAIN queue1, NEW again \in BOOLEAN, Send1(i, again)
      PROVE  Told \subseteq Told'
  <2> DEFINE event == TheMachine!Event("Add", queue1[i])
  <2>1. log1' = Append(log1, event) /\ queue1' = LeftIn(queue1, i, again) /\ UNCHANGED between
    BY <1>5 DEF Send1
  <2>2. queue1[i] \in Orders
    BY <1>1
  <2>3. event \in TheMachine!Events /\ event.key = "Add" /\ event.order = queue1[i]
    BY <2>2 DEF TheMachine!Event, TheMachine!Events
  <2> HIDE DEF event
  <2>4. Range(log1') = Range(log1) \cup {event}
    BY <1>1, <2>1, <2>3, PutBehind
  <2>5. Range(queue1) \subseteq Range(queue1') \cup {queue1[i]}
    BY <1>1, <2>1, LeftInQueue
  <2> QED BY <1>2, <2>1, <2>3, <2>4, <2>5 DEF Told
<1> QED BY <1>3, <1>4, <1>5
    DEF FaultsNext, faultsVars, ProduceFirst, Send0, SendFinished, Drop0, DropFinished, Dropped,
        Assign0, Assign1, Commit0, Commit1, MatcherPolls, MatcherResolves, MachinePolls, producerVars

LEMMA OneBetweenStep ==
    ASSUME OneBetween, [FaultsNext]_faultsVars
    PROVE  OneBetween'
BY DEF OneBetween, FaultsNext, faultsVars, ProduceFirst, ProduceSecond, Send0, Send1, SendFinished,
       Drop0, Drop1, DropFinished, Dropped, Assign0, Assign1, Commit0, Commit1, MatcherPolls,
       MatcherResolves, MachinePolls, Restart, producerVars

LEMMA HalfLostStep ==
    FaultsInv /\ OneBetween /\ [FaultsNext]_faultsVars =>
        [HalfLost' \subseteq HalfLost \/ Restart \/ \E i \in DOMAIN queue1 : Drop1(i)]_faultsVars
<1> SUFFICES ASSUME FaultsInv, OneBetween, [FaultsNext]_faultsVars, ~ Restart,
                    \A i \in DOMAIN queue1 : ~ Drop1(i)
             PROVE  HalfLost' \subseteq HalfLost
  OBVIOUS
<1> DEFINE OnTheWay == Range(queue0) \cup Range(log0)
<1>1. Told \subseteq Told'
  BY ToldGrows
<1>2. HalfLost = OnTheWay \ Told /\ HalfLost' = OnTheWay' \ Told'
  BY DEF HalfLost, Told
<1>3. queue0 \in Seq(Orders) /\ log0 \in Seq(Orders)
  BY DEF FaultsInv, TopicsTyped
<1>4. OnTheWay' \subseteq OnTheWay \cup Told'
  <2>1. ASSUME NEW order \in Orders, ProduceFirst(order)
        PROVE  OnTheWay' \subseteq OnTheWay \cup Told'
    <3>1. queue0' = Append(queue0, order) /\ log0' = log0 /\ order \in Told'
      BY <2>1 DEF ProduceFirst, topicVars, Told
    <3>2. Range(queue0') = Range(queue0) \cup {order}
      BY <1>3, <3>1, PutBehind
    <3> QED BY <3>1, <3>2
  <2>2. ASSUME NEW i \in DOMAIN queue0, NEW again \in BOOLEAN, Send0(i, again)
        PROVE  OnTheWay' \subseteq OnTheWay
    <3>1. log0' = Append(log0, queue0[i]) /\ queue0' = LeftIn(queue0, i, again)
      BY <2>2 DEF Send0
    <3>2. queue0[i] \in Orders /\ queue0[i] \in Range(queue0)
      BY <1>3 DEF Range
    <3>3. Range(log0') = Range(log0) \cup {queue0[i]} /\ Range(queue0') \subseteq Range(queue0)
      BY <1>3, <3>1, <3>2, PutBehind, LeftInQueue
    <3> QED BY <3>2, <3>3
  <2>3. ASSUME NEW i \in DOMAIN queue0, Drop0(i)
        PROVE  OnTheWay' \subseteq OnTheWay
    BY <1>3, <2>3, TakenOut DEF Drop0, Dropped, topicVars
  <2>4. CASE UNCHANGED <<queue0, log0>>
    BY <2>4
  <2> QED BY <2>1, <2>2, <2>3, <2>4
      DEF FaultsNext, faultsVars, ProduceSecond, Send1, SendFinished, DropFinished, Dropped,
          Assign0, Assign1, Commit0, Commit1, MatcherPolls, MatcherResolves, MachinePolls,
          producerVars, topicVars
<1> QED BY <1>1, <1>2, <1>4

(* An order is half lost only when the process ends before both of its     *)
(* messages were sent, or when the second one is given up                  *)
(* (server_connector.cpp:29-30).                                           *)
THEOREM HalvesAreNotLostOtherwise == FaultsSpec => OnlyEndOrTimeoutLosesHalf
<1>1. FaultsInit => OneBetween
  BY DEF FaultsInit, OneBetween
<1> QED BY <1>1, FaultsInitInv, FaultsNextInv, OneBetweenStep, HalfLostStep, PTL
        DEF FaultsSpec, OnlyEndOrTimeoutLosesHalf

-----------------------------------------------------------------------------
(* What the status machine dies of. *)

LEMMA PositionTyped ==
    ASSUME FaultsInv
    PROVE  /\ start1 \in Int /\ Len(consumed) \in Nat /\ Position1 \in Int /\ start1 <= Position1
           /\ Position1 <= Len(log1) /\ Len(log1) \in Nat
           /\ start1 # None => start1 \in Nat
           /\ start1 = None => consumed = <<>> /\ Position1 = start1
<1>1. /\ Len(consumed) \in Nat /\ Len(log1) \in Nat
      /\ start1 \in {None} \cup Nat /\ Position1 <= Len(log1)
      /\ start1 = None => consumed = <<>>
  BY DEF FaultsInv, ConsumersTyped, TopicsTyped, TheMachine!TypeOK
<1>2. Len(<<>>) = 0
  OBVIOUS
<1> QED BY <1>1, <1>2 DEF Position1, None

(* The next message of partition 1. *)
LEMMA KnowsWhatItTakes ==
    ASSUME FaultsInv, KnowsPrices, MachinePolls
    PROVE  KnowsPrices' /\ DiesOnlyOfUnreadAdd'
<1> DEFINE message == log1[Position1 + 1]
           known == {info \in all_orders : info.price = message.order.price}
<1>1. /\ start1 \in Nat /\ Position1 \in Nat /\ start1 <= Position1
      /\ UNCHANGED <<log1, start1>>
  BY PositionTyped DEF MachinePolls, topicVars, consumerVars
<1>2. Position1' = Position1 + 1
  <2>1. consumed \in Seq(TheMachine!Events) /\ \E m : consumed' = Append(consumed, m)
    BY DEF FaultsInv, TheMachine!TypeOK, MachinePolls, TheMachine!PollAdd, TheMachine!PollFinished,
           TheMachine!Receive
  <2>2. Len(consumed') = Len(consumed) + 1
    BY <2>1
  <2> QED BY <1>1, <2>2, PositionTyped DEF Position1
<1>3. TheMachine!Equivalent(TheMachine!InfoOrder(message.order)) = known
  BY DEF TheMachine!Equivalent, TheMachine!InfoOrder
<1>4. TheMachine!InfoOrder(message.order).price = message.order.price
  BY DEF TheMachine!InfoOrder
<1>5. \/ /\ message.key = "Add" /\ machine' = "poll"
         /\ all_orders' = IF known # {} THEN all_orders
                          ELSE all_orders \cup {TheMachine!InfoOrder(message.order)}
      \/ /\ message.key = "Finished" /\ all_orders' = all_orders
         /\ machine' = "crashed" => known = {}
  BY <1>3 DEF MachinePolls, Alive, TheMachine!PollAdd, TheMachine!PollFinished, TheMachine!IsKnown
<1> HIDE DEF message
<1>6. ASSUME NEW i \in start1 + 1 .. Position1 + 1, log1[i].key = "Add"
      PROVE  \E info \in all_orders' : info.price = log1[i].order.price
  <2>1. CASE i = Position1 + 1
    BY <1>4, <1>5, <1>6, <2>1 DEF message
  <2>2. CASE i \in start1 + 1 .. Position1
    BY <1>5, <1>6, <2>2 DEF KnowsPrices
  <2> QED BY <1>1, <2>1, <2>2
<1>7. KnowsPrices'
  BY <1>1, <1>2, <1>6 DEF KnowsPrices
<1>8. ASSUME machine' = "crashed"
      PROVE  /\ message.key = "Finished"
             /\ \A i \in start1 + 1 .. Position1 :
                   log1[i].key = "Add" => log1[i].order.price # message.order.price
  BY <1>5, <1>8 DEF KnowsPrices
<1>9. DiesOnlyOfUnreadAdd'
  <2>1. Position1' - 1 = Position1 /\ log1'[Position1'] = message /\ log1' = log1 /\ start1' = start1
    BY <1>1, <1>2 DEF message
  <2>2. SUFFICES ASSUME machine' = "crashed"
                 PROVE  /\ message.key = "Finished"
                        /\ \A i \in 1 .. Position1 :
                             (log1[i].key = "Add" /\ log1[i].order.price = message.order.price) =>
                                 i <= start1
    BY <2>1 DEF DiesOnlyOfUnreadAdd
  <2>3. ASSUME NEW i \in 1 .. Position1, ~ (i <= start1)
        PROVE  i \in start1 + 1 .. Position1
    BY <1>1, <2>3
  <2> QED BY <1>8, <2>2, <2>3
<1> QED BY <1>7, <1>9

LEMMA KnowsStep ==
    ASSUME FaultsInv, KnowsPrices, DiesOnlyOfUnreadAdd, [FaultsNext]_faultsVars
    PROVE  KnowsPrices' /\ DiesOnlyOfUnreadAdd'
<1>1. CASE MachinePolls
  BY <1>1, KnowsWhatItTakes
<1>2. CASE UNCHANGED <<machineVars, start1>> /\ (Alive \/ UNCHANGED log1)
  <2>1. Position1' = Position1
    BY <1>2 DEF Position1, machineVars
  <2>2. \A i \in start1 + 1 .. Position1 : log1'[i] = log1[i]
    <3>1. \A i \in start1 + 1 .. Position1 : i \in 1 .. Len(log1)
      BY PositionTyped DEF None
    <3> QED BY <3>1, LogsGrow
  <2>3. KnowsPrices'
    BY <1>2, <2>1, <2>2 DEF KnowsPrices, machineVars
  <2>4. machine = "crashed" => log1' = log1
    BY <1>2 DEF Alive
  <2>5. machine' = machine /\ start1' = start1
    BY <1>2 DEF machineVars
  <2> QED BY <2>1, <2>3, <2>4, <2>5 DEF DiesOnlyOfUnreadAdd
<1>3. CASE Assign1
  <2>1. machine' = "poll" /\ start1' \in Int /\ consumed' = <<>>
    BY <1>3, PositionTyped, LogsGrow
       DEF Assign1, Alive, StartingAt, machineVars, FaultsInv, ConsumersTyped, None
  <2>2. start1' + 1 .. Position1' = {}
    <3>1. start1' \in Int /\ Len(consumed') = 0
      BY <2>1
    <3>2. \A n \in Int : n + 1 .. n + 0 = {}
      OBVIOUS
    <3>3. Position1' = start1' + Len(consumed')
      BY DEF Position1
    <3> QED BY <3>1, <3>2, <3>3
  <2> QED BY <2>1, <2>2 DEF KnowsPrices, DiesOnlyOfUnreadAdd
<1>4. CASE Restart
  <2>1. machine' = "poll" /\ start1' \in Int /\ consumed' = <<>>
    BY <1>4 DEF Restart, None
  <2>2. start1' + 1 .. Position1' = {}
    <3>1. start1' \in Int /\ Len(consumed') = 0
      BY <2>1
    <3>2. \A n \in Int : n + 1 .. n + 0 = {}
      OBVIOUS
    <3>3. Position1' = start1' + Len(consumed')
      BY DEF Position1
    <3> QED BY <3>1, <3>2, <3>3
  <2> QED BY <2>1, <2>2 DEF KnowsPrices, DiesOnlyOfUnreadAdd
<1>5. CASE UNCHANGED faultsVars
  BY <1>2, <1>5 DEF faultsVars, consumerVars, topicVars
<1>6. ASSUME FaultsNext, ~ MachinePolls, ~ Assign1, ~ Restart
      PROVE  UNCHANGED <<machineVars, start1>> /\ Alive
  BY <1>6 DEF FaultsNext, ProduceFirst, ProduceSecond, Send0, Send1, SendFinished, Sent, Drop0,
         Drop1, DropFinished, Dropped, Assign0, Commit0, Commit1, MatcherPolls, MatcherResolves,
         consumerVars
<1> QED BY <1>1, <1>2, <1>3, <1>4, <1>5, <1>6

LEMMA KnowsInit == FaultsInit => KnowsPrices /\ DiesOnlyOfUnreadAdd
<1> SUFFICES ASSUME FaultsInit PROVE KnowsPrices /\ DiesOnlyOfUnreadAdd
  OBVIOUS
<1>1. machine = "poll" /\ start1 = -1 /\ Len(consumed) = 0
  BY DEF FaultsInit, TheMachine!Init, None
<1>2. start1 + 1 .. Position1 = {}
  BY <1>1 DEF Position1
<1> QED BY <1>1, <1>2 DEF KnowsPrices, DiesOnlyOfUnreadAdd

(* The status machine dies (status_machine.cpp:50) of a Finished only when *)
(* it has read no Add of that price since it was last started, with        *)
(* whatever committed offset and however often the Finished has come.      *)
THEOREM LivesDie == FaultsSpec => []DiesOnlyOfUnreadAdd
BY FaultsInitInv, FaultsNextInv, KnowsInit, KnowsStep, PTL DEF FaultsSpec

-----------------------------------------------------------------------------
(* What was sold in a life was bought in it. *)

(* What has been taken in is a part of the partition that stays as it is,  *)
(* and a message taken in is one place more of it.                         *)
LEMMA TakenTyped ==
    ASSUME FaultsInv
    PROVE  /\ IsFiniteSet(Taken) /\ Taken \subseteq 1 .. Len(log0)
           /\ \A i \in Taken : log0[i] \in Orders
<1>1. /\ log0 \in Seq(Orders) /\ offset \in Nat /\ ConsumersTyped
      /\ Len(log0) \in Nat
  BY MaxMessagesAssumption DEF FaultsInv, TopicsTyped, Inv, TypeOK
<1>2. Taken \subseteq 1 .. Len(log0)
  BY <1>1 DEF Taken, ConsumersTyped, Position0, None
<1>3. IsFiniteSet(1 .. Len(log0))
  BY <1>1, FS_Interval
<1>4. IsFiniteSet(Taken)
  BY <1>2, <1>3, FS_Subset
<1>5. \A i \in 1 .. Len(log0) : log0[i] \in Orders
  BY <1>1
<1> QED BY <1>2, <1>4, <1>5

LEMMA TakenStep ==
    ASSUME FaultsInv, [FaultsNext]_faultsVars
    PROVE  /\ \A i \in Taken : log0'[i] = log0[i]
           /\ (~ MatcherPolls /\ ~ Restart) => Taken' = Taken
           /\ Restart => Taken' = {}
           /\ MatcherPolls =>
                /\ Position0 + 1 \notin Taken /\ Position0 + 1 \in DOMAIN log0
                /\ log0' = log0 /\ Taken' = Taken \cup {Position0 + 1}
<1>1. \A i \in 1 .. Len(log0) : log0'[i] = log0[i]
  BY LogsGrow
<1>2. \A i \in Taken : log0'[i] = log0[i]
  BY <1>1, TakenTyped
<1>3. offset \in Nat /\ ConsumersTyped /\ Len(log0) \in Nat
  BY MaxMessagesAssumption DEF FaultsInv, TopicsTyped, Inv, TypeOK
<1>4. CASE UNCHANGED <<start0, offset>> /\ ~ MatcherPolls /\ ~ Restart
  BY <1>2, <1>4 DEF Taken, Position0
<1>5. CASE Assign0
  <2>1. start0 = None /\ offset = 0 /\ offset' = 0 /\ start0' \in Nat
    BY <1>3, <1>5 DEF Assign0, ConsumersTyped, StartingAt, vars, None
  <2>2. Taken = {} /\ Taken' = {}
    BY <2>1 DEF Taken, Position0, None
  <2>3. ~ MatcherPolls /\ ~ Restart
    BY <2>1 DEF MatcherPolls, Restart, None
  <2> QED BY <2>2, <2>3
<1>6. CASE MatcherPolls
  <2>1. /\ start0 \in Nat /\ start0' = start0 /\ offset' = offset + 1 /\ log0' = log0
        /\ start0 + offset < Len(log0)
    BY <1>3, <1>6 DEF MatcherPolls, ConsumersTyped, Position0, PollAdd, Receive, consumerVars,
           topicVars
  <2>2. Taken = start0 + 1 .. start0 + offset /\ Taken' = start0 + 1 .. start0 + (offset + 1)
    BY <2>1 DEF Taken, Position0, None
  <2>3. /\ Taken' = Taken \cup {start0 + offset + 1} /\ start0 + offset + 1 \notin Taken
        /\ start0 + offset + 1 \in DOMAIN log0
    BY <1>3, <2>1, <2>2 DEF FaultsInv, TopicsTyped
  <2>4. ~ Restart
    BY <2>1 DEF Restart, None
  <2> QED BY <1>2, <1>6, <2>1, <2>3, <2>4 DEF Position0
<1>7. CASE Restart
  <2>1. start0' = None /\ ~ MatcherPolls
    BY <1>3, <1>7 DEF Restart, MatcherPolls, PollAdd, Receive
  <2> QED BY <1>2, <1>7, <2>1 DEF Taken
<1> QED BY <1>4, <1>5, <1>6, <1>7
    DEF FaultsNext, faultsVars, ProduceFirst, ProduceSecond, Send0, Send1, SendFinished, Drop0,
        Drop1, DropFinished, Dropped,
        Assign1, Commit0, Commit1, MatcherResolves, MachinePolls, Resolve, AskExhausted,
        BidExhausted, BothExhausted, ResolveDone, EndReadCrash, vars, consumerVars

LEMMA RestingTakenStep ==
    ASSUME FaultsInv, RestingTaken, [FaultsNext]_faultsVars
    PROVE  RestingTaken'
<1>1. ValidBook(book)
  BY InvBook DEF FaultsInv
<1>2. CASE Restart
  BY <1>2, RestartedMatcher DEF RestingTaken
<1>3. CASE MatcherPolls
  <2> DEFINE order == log0[Position0 + 1]
  <2>1. /\ Position0 + 1 \in DOMAIN log0 /\ log0' = log0 /\ Taken' = Taken \cup {Position0 + 1}
        /\ order \in Orders /\ PollAdd(order)
    BY <1>3, TakenStep DEF FaultsInv, TopicsTyped, MatcherPolls
  <2> HIDE DEF order
  <2>2. ASSUME NEW info \in Resting(book')
        PROVE  \E i \in Taken' : info.full_order = log0[i]
    <3>1. info \in Resting(book) \/ info = InfoOrder(order)
      BY <1>1, <2>1, PollAddStep
    <3>2. CASE info \in Resting(book)
      BY <2>1, <3>2 DEF RestingTaken
    <3>3. CASE info = InfoOrder(order)
      BY <2>1, <3>3 DEF InfoOrder, order
    <3> QED BY <3>1, <3>2, <3>3
  <2> QED BY <2>1, <2>2 DEF RestingTaken
<1>4. CASE MatcherResolves
  <2>1. Taken' = Taken /\ \A i \in Taken : log0'[i] = log0[i]
    <3>1. ~ Restart /\ ~ MatcherPolls
      BY <1>4, MaxMessagesAssumption
         DEF MatcherResolves, Restart, MatcherPolls, PollAdd, Receive, FaultsInv, Inv, TypeOK,
             Resolve, AskExhausted, BidExhausted, BothExhausted, ResolveDone, EndReadCrash,
             TopicsTyped
    <3> QED BY <3>1, TakenStep
  <2>2. \A i \in Resting(book') : \E j \in Resting(book) : i.full_order = j.full_order
    <3>1. CASE AskExhausted \/ BidExhausted \/ BothExhausted
      BY <3>1, TurnOrders DEF FaultsInv
    <3>2. CASE ResolveDone \/ EndReadCrash
      BY <3>2 DEF ResolveDone, EndReadCrash
    <3> QED BY <1>4, <3>1, <3>2 DEF MatcherResolves, Resolve
  <2> QED BY <2>1, <2>2 DEF RestingTaken
<1>5. CASE UNCHANGED book /\ ~ MatcherPolls /\ ~ Restart
  BY <1>5, TakenStep DEF RestingTaken
<1> QED BY <1>2, <1>3, <1>4, <1>5
    DEF FaultsNext, faultsVars, ProduceFirst, ProduceSecond, Send0, Send1, SendFinished, Drop0,
        Drop1, DropFinished, Dropped,
        Assign0, Assign1, Commit0, Commit1, MachinePolls, vars

LEMMA BalancedStep ==
    ASSUME FaultsInv, RestingTaken, BalancedInThisLife, [FaultsNext]_faultsVars
    PROVE  BalancedInThisLife'
<1> DEFINE Once == \A i, j \in Taken : log0[i] = log0[j] => i = j
<1>1. ValidBook(book) /\ FiniteBook /\ Inv
  BY InvBook DEF FaultsInv
<1>2. IsFiniteSet(Taken) /\ \A i \in Taken : log0[i] \in Orders
  BY TakenTyped
<1>3. \A i \in Taken : log0'[i] = log0[i]
  BY TakenStep
<1>4. \A t \in OrderType :
         VolumeIn(log0, Taken, t) \in Int /\ VolumeOf(RestingOn(book, t)) \in Int
  BY <1>1, <1>2, VolumeInType, SideVolumeType
<1>5. ASSUME Taken' = Taken, Once'
      PROVE  Once /\ \A t : VolumeIn(log0, Taken, t)' = VolumeIn(log0, Taken, t)
  <2> DEFINE longer == log0'
             places == Taken
  <2>1. IsFiniteSet(places) /\ \A i \in places : longer[i] = log0[i]
    BY <1>2, <1>3
  <2>2. Once
    BY <1>3, <1>5
  <2> HIDE DEF longer, places
  <2>3. \A t : VolumeIn(longer, places, t) = VolumeIn(log0, places, t)
    BY <2>1, VolumeInSame
  <2> QED BY <1>5, <2>2, <2>3 DEF longer, places
<1>6. CASE Restart
  <2>1. Taken' = {} /\ RestingOn(book, "Ask")' = {} /\ RestingOn(book, "Bid")' = {}
    BY <1>6, TakenStep, RestartedMatcher DEF RestingOn
  <2>2. \A t : VolumeIn(log0, Taken, t)' = 0
    BY <2>1, VolumeInNone
  <2> QED BY <2>1, <2>2, VolumeOfNone DEF BalancedInThisLife, TakenAndGone
<1>7. CASE MatcherPolls
  <2> DEFINE n == Position0 + 1
             order == log0[n]
  <2>1. /\ n \notin Taken /\ n \in DOMAIN log0 /\ log0' = log0 /\ Taken' = Taken \cup {n}
        /\ order \in Orders /\ PollAdd(order)
    BY <1>7, TakenStep DEF FaultsInv, TopicsTyped, MatcherPolls
  <2> SUFFICES ASSUME Once'
               PROVE  TakenAndGone("Ask")' = TakenAndGone("Bid")'
    BY DEF BalancedInThisLife
  <2>2. Once /\ \A i \in Taken : log0[i] # order
    BY <2>1
  <2>3. ASSUME NEW info \in Resting(book),
               At(info, order.order_type, order.price, order.timestamp_exchange)
        PROVE  FALSE
    <3>1. PICK i \in Taken : info.full_order = log0[i]
      BY DEF RestingTaken
    <3>2. info.price = info.full_order.price
      BY <1>1, RestingIsFiled
    <3>3. /\ log0[i] \in Orders
          /\ log0[i].order_type = order.order_type /\ log0[i].price = order.price
          /\ log0[i].timestamp_exchange = order.timestamp_exchange
      BY <1>2, <2>3, <3>1, <3>2 DEF At
    <3> HIDE DEF order
    <3>4. log0[i] = order
      BY <2>1, <3>3, OrdersAreNew
    <3> QED BY <2>2, <3>4
  <2>4. ASSUME NEW t
        PROVE  TakenAndGone(t)' = TakenAndGone(t)
    <3> DEFINE places == Taken
    <3>1. IsFiniteSet(places) /\ (\A i \in places : log0[i] \in Orders) /\ n \notin places
          /\ log0[n] = order
      BY <1>2, <2>1
    <3> HIDE DEF places, n, order
    <3>2. VolumeIn(log0, places \cup {n}, t) - VolumeOf(RestingOn(book', t)) =
            VolumeIn(log0, places, t) - VolumeOf(RestingOn(book, t))
      BY <1>1, <2>1, <2>3, <3>1, PollAddBalance
    <3> QED BY <2>1, <3>2 DEF TakenAndGone, places
  <2> QED BY <2>2, <2>4 DEF BalancedInThisLife
<1>8. CASE UNCHANGED book /\ ~ MatcherPolls /\ ~ Restart
  <2>1. Taken' = Taken
    BY <1>8, TakenStep
  <2> SUFFICES ASSUME Once'
               PROVE  TakenAndGone("Ask")' = TakenAndGone("Bid")'
    BY DEF BalancedInThisLife
  <2>2. Once /\ \A t : VolumeIn(log0, Taken, t)' = VolumeIn(log0, Taken, t)
    BY <1>5, <2>1
  <2>3. \A t : TakenAndGone(t)' = TakenAndGone(t)
    BY <1>8, <2>2 DEF TakenAndGone
  <2> QED BY <2>2, <2>3 DEF BalancedInThisLife
<1>9. CASE AskExhausted \/ BidExhausted \/ BothExhausted
  <2>1. ~ Restart /\ ~ MatcherPolls
    BY <1>1, <1>9, MaxMessagesAssumption
       DEF Restart, MatcherPolls, PollAdd, Receive, Inv, TypeOK,
           AskExhausted, BidExhausted, BothExhausted
  <2>2. Taken' = Taken
    BY <2>1, TakenStep
  <2> SUFFICES ASSUME Once'
               PROVE  TakenAndGone("Ask")' = TakenAndGone("Bid")'
    BY DEF BalancedInThisLife
  <2>3. Once /\ \A t : VolumeIn(log0, Taken, t)' = VolumeIn(log0, Taken, t)
    BY <1>5, <2>2
  <2>4. PICK v \in Nat : \A t \in OrderType :
           /\ VolumeOf(RestingOn(book, t)) \in Int
           /\ VolumeOf(RestingOn(book', t)) = VolumeOf(RestingOn(book, t)) - v
    BY <1>1, <1>9, TurnBalance
  <2>5. \A t \in OrderType : TakenAndGone(t) \in Int /\ TakenAndGone(t)' = TakenAndGone(t) + v
    BY <1>4, <2>3, <2>4 DEF TakenAndGone
  <2> QED BY <2>3, <2>5 DEF BalancedInThisLife, OrderType
<1> QED BY <1>6, <1>7, <1>8, <1>9
    DEF FaultsNext, faultsVars, ProduceFirst, ProduceSecond, Send0, Send1, SendFinished, Drop0,
        Drop1, DropFinished, Dropped,
        Assign0, Assign1, Commit0, Commit1, MachinePolls, vars, MatcherResolves, Resolve,
        ResolveDone, EndReadCrash, MatcherPolls, Restart

LEMMA BalancedInit == FaultsInit => RestingTaken /\ BalancedInThisLife
<1> SUFFICES ASSUME FaultsInit PROVE RestingTaken /\ BalancedInThisLife
  OBVIOUS
<1>1. Taken = {} /\ Resting(book) = {}
  BY EmptyBookIsValid DEF FaultsInit, Init, Taken
<1>2. \A t : RestingOn(book, t) = {}
  BY <1>1 DEF RestingOn
<1>3. \A t : TakenAndGone(t) = 0
  BY <1>1, <1>2, VolumeInNone, VolumeOfNone DEF TakenAndGone
<1> QED BY <1>1, <1>3 DEF RestingTaken, BalancedInThisLife

(* In every life what was sold was bought (matcher.cpp:32-53), wherever in *)
(* the partition the life began.                                           *)
THEOREM LivesBalance == FaultsSpec => []BalancedInThisLife
BY FaultsInitInv, FaultsNextInv, BalancedInit, RestingTakenStep, BalancedStep, PTL
   DEF FaultsSpec
-----------------------------------------------------------------------------
(* How much of an order is executed. *)

LEMMA OnceMore == \A n, m \in Nat : (n + 1) * m = n * m + m
BY SMT

LEMMA RestingVolumeIsFor ==
    ASSUME NEW b, NEW o
    PROVE  RestingVolume(b, o) = VolumeFor(Resting(b), {o})
<1>1. {info \in Resting(b) : info.full_order = o} = InfosOf(Resting(b), {o})
  BY DEF InfosOf
<1> QED BY <1>1 DEF RestingVolume, VolumeFor

(* Whom an order finds at its place it displaces: there is one at most.    *)
LEMMA DisplacedVolume ==
    ASSUME ValidBook(book), FiniteBook, NEW t, NEW p, NEW ts, NEW O
    PROVE  LET others == {i \in Resting(book) : ~ At(i, t, p, ts)}
           IN  VolumeFor(others, O) \in Int /\ VolumeFor(others, O) <= VolumeFor(Resting(book), O)
<1> DEFINE R == Resting(book)
           others == {i \in R : ~ At(i, t, p, ts)}
<1>1. VolumeFor(R, O) \in Nat
  BY RestingVolumeType
<1>2. CASE others = R
  BY <1>1, <1>2
<1>3. CASE others # R
  <2>1. PICK y \in R : At(y, t, p, ts)
    BY <1>3
  <2>2. \A i \in R : At(i, t, p, ts) => i = y
    BY <2>1, OneOrderPerPlace
  <2>3. others = R \ {y}
    BY <2>1, <2>2
  <2>4. IsFiniteSet(R) /\ \A info \in R : info.volume \in Nat
    BY RestingVolumes DEF FiniteBook
  <2>5. y.volume \in Nat
    BY <2>1, <2>4
  <2> HIDE DEF R, others
  <2>6. /\ VolumeFor(R \ {y}, O) \in Int
        /\ VolumeFor(R, O) =
             VolumeFor(R \ {y}, O) + (IF y.full_order \in O THEN y.volume ELSE 0)
    BY <2>1, <2>4, VolumeForLess
  <2> QED BY <2>3, <2>5, <2>6 DEF R, others
<1> QED BY <1>2, <1>3

(* A delivery brings at most the order's volume to what rests of it.       *)
LEMMA DeliveredVolume ==
    ASSUME ValidBook(book), FiniteBook, NEW order \in Orders, PollAdd(order), NEW o
    PROVE  /\ RestingVolume(book, o) \in Nat /\ RestingVolume(book', o) \in Int
           /\ RestingVolume(book', o) <=
                RestingVolume(book, o) + (IF o = order THEN order.volume ELSE 0)
<1> DEFINE O == {o}
           others == {i \in Resting(book) :
                        ~ At(i, order.order_type, order.price, order.timestamp_exchange)}
<1>1. /\ RestingVolume(book, o) = VolumeFor(Resting(book), O)
      /\ RestingVolume(book', o) = VolumeFor(Resting(book'), O)
  BY RestingVolumeIsFor
<1>2. order \in O <=> o = order
  OBVIOUS
<1>3. order.volume \in Int
  BY OrdersAssumption
<1> HIDE DEF O
<1>4. VolumeFor(Resting(book), O) \in Nat
  BY RestingVolumeType
<1>5. VolumeFor(others, O) \in Int /\ VolumeFor(others, O) <= VolumeFor(Resting(book), O)
  BY DisplacedVolume
<1>6. VolumeFor(Resting(book'), O) =
        VolumeFor(others, O) + (IF order \in O THEN order.volume ELSE 0)
  BY PollAddVolumes
<1> HIDE DEF others
<1> QED BY <1>1, <1>2, <1>3, <1>4, <1>5, <1>6

(* A turn of the loop never adds to what rests of an order.                *)
LEMMA TradedVolume ==
    ASSUME Inv, FiniteBook, Resolve, NEW o
    PROVE  /\ RestingVolume(book, o) \in Int /\ RestingVolume(book', o) \in Int
           /\ RestingVolume(book', o) <= RestingVolume(book, o)
<1> DEFINE O == {o}
<1>1. /\ RestingVolume(book, o) = VolumeFor(Resting(book), O)
      /\ RestingVolume(book', o) = VolumeFor(Resting(book'), O)
  BY RestingVolumeIsFor
<1> HIDE DEF O
<1>2. CASE AskExhausted \/ BidExhausted \/ BothExhausted
  <2> DEFINE ask == BestAsk(book).full_order
             bid == BestBid(book).full_order
  <2>1. PICK v \in Nat :
           /\ VolumeFor(Resting(book), O) \in Int
           /\ VolumeFor(Resting(book'), O) \in Int
           /\ VolumeFor(Resting(book), O) =
                VolumeFor(Resting(book'), O)
                + (IF ask \in O THEN v ELSE 0) + (IF bid \in O THEN v ELSE 0)
    BY <1>2, TurnVolumes
  <2> HIDE DEF ask, bid
  <2> QED BY <1>1, <2>1
<1>3. CASE ResolveDone \/ EndReadCrash
  <2>1. book' = book
    BY <1>3 DEF ResolveDone, EndReadCrash
  <2>2. VolumeFor(Resting(book), O) \in Nat
    BY InvBook, RestingVolumeType
  <2> QED BY <1>1, <2>1, <2>2
<1> QED BY <1>2, <1>3 DEF Resolve

LEMMA HistoryInit == FaultsInit => HistoryTyped /\ ExecutedWithinDeliveries
<1> SUFFICES ASSUME FaultsInit PROVE HistoryTyped /\ ExecutedWithinDeliveries
  OBVIOUS
<1>1. delivered = [o \in Orders |-> 0] /\ executed = [o \in Orders |-> 0]
  BY DEF FaultsInit
<1>2. Resting(book) = {}
  BY EmptyBookIsValid DEF FaultsInit, Init
<1>3. \A o : RestingVolume(book, o) = 0
  BY <1>2, VolumeOfNone DEF RestingVolume
<1>4. \A o \in Orders : o.volume \in Nat
  BY OrdersAssumption
<1> QED BY <1>1, <1>3, <1>4 DEF HistoryTyped, ExecutedWithinDeliveries

LEMMA HistoryStep ==
    ASSUME FaultsInv, HistoryTyped, ExecutedWithinDeliveries, [FaultsNext]_faultsVars
    PROVE  HistoryTyped' /\ ExecutedWithinDeliveries'
<1>1. ValidBook(book) /\ FiniteBook /\ Inv
  BY InvBook DEF FaultsInv
<1>2. \A o \in Orders : /\ o.volume \in Nat /\ delivered[o] \in Nat /\ executed[o] \in Nat
                        /\ delivered[o] * o.volume \in Nat
  BY OrdersAssumption DEF HistoryTyped
<1>3. \A o : RestingVolume(book, o) \in Nat
  BY <1>1, RestingVolumeType, RestingVolumeIsFor
<1>4. CASE Restart
  <2>1. \A o : RestingVolume(book, o)' = 0
    BY <1>4, RestartedMatcher, VolumeOfNone DEF RestingVolume
  <2>2. delivered' = delivered /\ executed' = executed
    BY <1>4 DEF Restart, historyVars
  <2> QED BY <1>2, <1>3, <2>1, <2>2 DEF HistoryTyped, ExecutedWithinDeliveries
<1>5. CASE MatcherPolls
  <2> DEFINE order == log0[Position0 + 1]
  <2>1. /\ order \in Orders /\ PollAdd(order) /\ executed' = executed
        /\ delivered' = [delivered EXCEPT ![order] = @ + 1]
    BY <1>5, TakenStep DEF FaultsInv, TopicsTyped, MatcherPolls
  <2> HIDE DEF order
  <2>2. delivered' \in [Orders -> Nat]
    BY <2>1 DEF HistoryTyped
  <2>3. ASSUME NEW o \in Orders
        PROVE  executed[o] + RestingVolume(book', o) <= delivered'[o] * o.volume
    <3>1. /\ RestingVolume(book', o) \in Int
          /\ RestingVolume(book', o) <=
               RestingVolume(book, o) + (IF o = order THEN order.volume ELSE 0)
      BY <1>1, <2>1, DeliveredVolume
    <3>2. executed[o] + RestingVolume(book, o) <= delivered[o] * o.volume
      BY DEF ExecutedWithinDeliveries
    <3>3. CASE o = order
      <4>1. delivered'[o] = delivered[o] + 1
        BY <2>1, <3>3 DEF HistoryTyped
      <4>2. (delivered[o] + 1) * o.volume = delivered[o] * o.volume + o.volume
        BY <1>2, OnceMore
      <4> QED BY <1>2, <1>3, <3>1, <3>2, <3>3, <4>1, <4>2
    <3>4. CASE o # order
      <4>1. delivered'[o] = delivered[o]
        BY <2>1, <3>4 DEF HistoryTyped
      <4> QED BY <1>2, <1>3, <3>1, <3>2, <3>4, <4>1
    <3> QED BY <3>3, <3>4
  <2> QED BY <2>1, <2>2, <2>3 DEF HistoryTyped, ExecutedWithinDeliveries
<1>6. CASE MatcherResolves
  <2>1. /\ Resolve /\ delivered' = delivered
        /\ executed' = [o \in Orders |->
                          executed[o] + RestingVolume(book, o) - RestingVolume(book', o)]
    BY <1>6 DEF MatcherResolves
  <2>2. \A o : /\ RestingVolume(book', o) \in Int
               /\ RestingVolume(book', o) <= RestingVolume(book, o)
    BY <1>1, <2>1, TradedVolume
  <2>3. \A o \in Orders :
           /\ executed'[o] = executed[o] + RestingVolume(book, o) - RestingVolume(book', o)
           /\ executed'[o] \in Nat
           /\ executed'[o] + RestingVolume(book', o) = executed[o] + RestingVolume(book, o)
    BY <1>2, <1>3, <2>1, <2>2
  <2>4. executed' \in [Orders -> Nat]
    BY <2>1, <2>3
  <2> QED BY <2>1, <2>3, <2>4 DEF HistoryTyped, ExecutedWithinDeliveries
<1>7. CASE UNCHANGED <<book, delivered, executed>>
  BY <1>7 DEF HistoryTyped, ExecutedWithinDeliveries
<1> QED BY <1>4, <1>5, <1>6, <1>7
    DEF FaultsNext, faultsVars, ProduceFirst, ProduceSecond, Send0, Send1, SendFinished, Drop0,
        Drop1, DropFinished, Dropped,
        Assign0, Assign1, Commit0, Commit1, MachinePolls, vars, historyVars

(* However often the process dies and a message comes again, no more is    *)
(* executed of an order than its volume for each time that it came         *)
(* (matcher.cpp:70-92).                                                    *)
THEOREM ExecutedBounded == FaultsSpec => []ExecutedWithinDeliveries
BY FaultsInitInv, FaultsNextInv, HistoryInit, HistoryStep, PTL DEF FaultsSpec

(* The types, and the bound on partition 0: one place for each order and   *)
(* one for each fault.                                                     *)
THEOREM FaultsTyped == FaultsSpec => []FaultsTypeOK
<1>1. FaultsInv /\ HistoryTyped => FaultsTypeOK
  <2> SUFFICES ASSUME FaultsInv, HistoryTyped PROVE FaultsTypeOK
    OBVIOUS
  <2>1. /\ TypeOK /\ offset \in Nat
    BY MaxMessagesAssumption DEF FaultsInv, Inv, TypeOK
  <2>2. Len(log0) <= MaxMessages
    <3>1. /\ Len(log0) \in Nat /\ Len(queue0) \in Nat /\ Cardinality(accepted) \in Nat
          /\ faults \in Nat /\ faults <= MaxFaults
      BY FaultsAssumption, FS_CardinalityType DEF FaultsInv, TopicsTyped
    <3>2. /\ Len(log0) + Len(queue0) <= Cardinality(accepted) + faults
          /\ Cardinality(accepted) <= MaxOrders
      BY DEF FaultsInv, TopicsTyped
    <3> QED BY <3>1, <3>2, FaultsAssumption, MaxMessagesAssumption
  <2>3. /\ start0 \in {None} \cup 0 .. Len(log0) /\ Position0 <= Len(log0)
    BY <2>1 DEF FaultsInv, TopicsTyped, ConsumersTyped, Position0
  <2>4. /\ start1 \in {None} \cup 0 .. Len(log1) /\ Position1 <= Len(log1)
    <3>1. Len(consumed) \in Nat /\ Len(log1) \in Nat
      BY DEF FaultsInv, TopicsTyped, TheMachine!TypeOK
    <3> QED BY <3>1 DEF FaultsInv, ConsumersTyped, Position1
  <2> QED BY <2>1, <2>2, <2>3, <2>4
      DEF FaultsInv, TopicsTyped, ConsumersTyped, HistoryTyped, FaultsTypeOK
<1> QED BY <1>1, FaultsInitInv, FaultsNextInv, HistoryInit, HistoryStep, PTL DEF FaultsSpec
=============================================================================
