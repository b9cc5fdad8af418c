--------------------------- MODULE ExchangeFaults ---------------------------
(***************************************************************************)
(* The exchange as in Exchange, with what can go wrong around it: the      *)
(* process ends at any moment, also between the two produce() calls of     *)
(* new_order(), of which the second may throw, and is started again with   *)
(* an empty book and an empty set; its consumers go on from what was       *)
(* committed, or from the end of the log when nothing was.  A producer     *)
(* that misses an acknowledgement sends a message again, one that retries  *)
(* sends a later message first, and a message that could not be sent in    *)
(* time is dropped without a word: nobody asks for the delivery reports.   *)
(*                                                                         *)
(* A life is the time from one start of the process to the next.           *)
(***************************************************************************)
EXTENDS Matcher

CONSTANTS
    MaxOrders,    (* bound: orders that clients send                       *)
    MaxFaults     (* bound: faults of all kinds                            *)

(* MaxMessages bounds partition 0, which holds each order once and once    *)
(* more for each fault; pc, book, offset and events are the matcher's of   *)
(* this life.                                                              *)
ASSUME FaultsAssumption ==
    /\ MaxOrders \in Nat /\ MaxFaults \in Nat
    /\ MaxOrders + MaxFaults <= MaxMessages

VARIABLES
    machine, all_orders, consumed,       (* the status machine of it       *)
    between,                (* orders produced to partition 0 only so far  *)
    queue0, queue1,         (* new_order()'s producer: what is not sent    *)
    finished,               (* the matcher's producer: what is not sent    *)
    log0, log1,             (* the two partitions                          *)
    start0, start1,         (* where their consumers began in this life    *)
    committed0, committed1, (* the committed offsets                       *)
    faults,                 (* how many there have been                    *)
    accepted,               (* all orders that were given to new_order()   *)
    delivered,              (* how often each has come to a matcher, and   *)
    executed                (* the volume traded of it, in all lives       *)

machineVars == <<machine, all_orders, consumed>>
producerVars == <<between, queue0, queue1, finished>>
topicVars == <<log0, log1>>
consumerVars == <<start0, start1, committed0, committed1>>
historyVars == <<accepted, delivered, executed>>
faultsVars ==
    <<vars, machineVars, producerVars, topicVars, consumerVars, faults, historyVars>>

(* No message more can come to be in partition 1. *)
MaxLog1 == (MaxFaults + 3) * MaxMessages

TheMachine == INSTANCE StatusMachine WITH MaxMessages <- MaxLog1

Sequence == INSTANCE SequencesExt

None == -1

ASSUME OrdersAreNew == \A o1, o2 \in Orders :
    /\ o1.order_type = o2.order_type /\ o1.price = o2.price
    /\ o1.timestamp_exchange = o2.timestamp_exchange
    => o1 = o2

Alive == pc \in {"poll", "resolve"} /\ machine = "poll"

Position0 == start0 + offset
Position1 == start1 + Len(consumed)

FaultsInit ==
    /\ Init
    /\ TheMachine!Init
    /\ between = {} /\ queue0 = <<>> /\ queue1 = <<>> /\ finished = <<>>
    /\ log0 = <<>> /\ log1 = <<>>
    /\ start0 = None /\ start1 = None
    /\ committed0 = None /\ committed1 = None
    /\ faults = 0
    /\ accepted = {}
    /\ delivered = [o \in Orders |-> 0] /\ executed = [o \in Orders |-> 0]

-----------------------------------------------------------------------------
(* new_order() and the broker *)

ProduceFirst(order) ==
    /\ Alive
    /\ between = {}
    /\ order \notin accepted /\ Cardinality(accepted) < MaxOrders
    /\ accepted' = accepted \cup {order}
    /\ queue0' = Append(queue0, order)
    /\ between' = {order}
    /\ UNCHANGED <<vars, machineVars, queue1, finished, topicVars, consumerVars,
                   faults, delivered, executed>>

(* Mutant of ProduceSecond: partition(0) in both calls.                    *)
ProduceSecondTo0(order) ==
    /\ Alive
    /\ order \in between
    /\ queue0' = Append(queue0, order)
    /\ between' = {}
    /\ UNCHANGED <<vars, machineVars, queue1, finished, topicVars, consumerVars,
                   faults, historyVars>>

ProduceSecond(order) ==
    /\ Alive
    /\ order \in between
    /\ queue1' = Append(queue1, order)
    /\ between' = {}
    /\ UNCHANGED <<vars, machineVars, queue0, finished, topicVars, consumerVars,
                   faults, historyVars>>

(* The broker takes message i of a queue in: one after the first when the  *)
(* first waits for its retry, and one that will be sent again when its     *)
(* acknowledgement is lost.  Each of both is a fault.                      *)
Sent(queue, i, again) ==
    /\ Alive
    /\ i \in DOMAIN queue
    /\ faults' = faults + (IF i = 1 THEN 0 ELSE 1) + (IF again THEN 1 ELSE 0)
    /\ faults' <= MaxFaults

LeftIn(queue, i, again) == IF again THEN queue ELSE Sequence!RemoveAt(queue, i)

Send0(i, again) ==
    /\ Sent(queue0, i, again)
    /\ log0' = Append(log0, queue0[i])
    /\ queue0' = LeftIn(queue0, i, again)
    /\ UNCHANGED <<vars, machineVars, between, queue1, finished, log1, consumerVars,
                   historyVars>>

Send1(i, again) ==
    /\ Sent(queue1, i, again)
    /\ log1' = Append(log1, TheMachine!Event("Add", queue1[i]))
    /\ queue1' = LeftIn(queue1, i, again)
    /\ UNCHANGED <<vars, machineVars, between, queue0, finished, log0, consumerVars,
                   historyVars>>

SendFinished(i, again) ==
    /\ Sent(finished, i, again)
    /\ log1' = Append(log1, TheMachine!Event("Finished", finished[i]))
    /\ finished' = LeftIn(finished, i, again)
    /\ UNCHANGED <<vars, machineVars, between, queue0, queue1, log0, consumerVars,
                   historyVars>>

(* A message is given up after its time to be delivered.                   *)
Dropped(queue, i) ==
    /\ Alive
    /\ i \in DOMAIN queue
    /\ faults < MaxFaults
    /\ faults' = faults + 1
    /\ UNCHANGED <<vars, machineVars, between, topicVars, consumerVars, historyVars>>

Drop0(i) ==
    /\ Dropped(queue0, i)
    /\ queue0' = Sequence!RemoveAt(queue0, i)
    /\ UNCHANGED <<queue1, finished>>

Drop1(i) ==
    /\ Dropped(queue1, i)
    /\ queue1' = Sequence!RemoveAt(queue1, i)
    /\ UNCHANGED <<queue0, finished>>

DropFinished(i) ==
    /\ Dropped(finished, i)
    /\ finished' = Sequence!RemoveAt(finished, i)
    /\ UNCHANGED <<queue0, queue1>>

-----------------------------------------------------------------------------
(* The consumers: assign() in the constructors, and what they commit *)

StartingAt(committed, log) == IF committed = None THEN Len(log) ELSE committed

Assign0 ==
    /\ Alive
    /\ start0 = None
    /\ start0' = StartingAt(committed0, log0)
    /\ UNCHANGED <<vars, machineVars, producerVars, topicVars, start1,
                   committed0, committed1, faults, historyVars>>

Assign1 ==
    /\ Alive
    /\ start1 = None
    /\ start1' = StartingAt(committed1, log1)
    /\ UNCHANGED <<vars, machineVars, producerVars, topicVars, start0,
                   committed0, committed1, faults, historyVars>>

Commit0 ==
    /\ Alive
    /\ offset > 0
    /\ committed0' = Position0
    /\ UNCHANGED <<vars, machineVars, producerVars, topicVars, start0, start1,
                   committed1, faults, historyVars>>

Commit1 ==
    /\ Alive
    /\ consumed # <<>>
    /\ committed1' = Position1
    /\ UNCHANGED <<vars, machineVars, producerVars, topicVars, start0, start1,
                   committed0, faults, historyVars>>

-----------------------------------------------------------------------------
(* The threads of the matcher and of the status machine *)

MatcherPolls ==
    /\ Alive
    /\ start0 # None /\ Position0 < Len(log0)
    /\ PollAdd(log0[Position0 + 1])
    /\ delivered' = [delivered EXCEPT ![log0[Position0 + 1]] = @ + 1]
    /\ UNCHANGED <<machineVars, producerVars, topicVars, consumerVars, faults, accepted, executed>>

RestingVolume(b, order) == VolumeOf({info \in Resting(b) : info.full_order = order})

(* The turn's announcements go to the matcher's producer.                  *)
MatcherResolves ==
    /\ Alive
    /\ Resolve
    /\ finished' = finished \o SubSeq(events', Len(events) + 1, Len(events'))
    /\ executed' = [o \in Orders |->
                       executed[o] + RestingVolume(book, o) - RestingVolume(book', o)]
    /\ UNCHANGED <<machineVars, between, queue0, queue1, topicVars, consumerVars, faults,
                   accepted, delivered>>

MachinePolls ==
    /\ Alive
    /\ start1 # None /\ Position1 < Len(log1)
    /\ \/ log1[Position1 + 1].key = "Add" /\ TheMachine!PollAdd(log1[Position1 + 1].order)
       \/ log1[Position1 + 1].key = "Finished" /\ TheMachine!PollFinished(log1[Position1 + 1].order)
    /\ UNCHANGED <<vars, producerVars, topicVars, consumerVars, faults, historyVars>>

(* The process has ended, because it died or was killed or because the     *)
(* second produce() threw, and is started again.                           *)
Restart ==
    /\ faults < MaxFaults
    /\ faults' = faults + 1
    /\ pc' = "poll" /\ book' = EmptyBook /\ offset' = 0 /\ events' = <<>>
    /\ machine' = "poll" /\ all_orders' = {} /\ consumed' = <<>>
    /\ between' = {} /\ queue0' = <<>> /\ queue1' = <<>> /\ finished' = <<>>
    /\ start0' = None /\ start1' = None
    /\ UNCHANGED <<topicVars, committed0, committed1, historyVars>>

FaultsNext ==
    \/ \E order \in Orders : ProduceFirst(order) \/ ProduceSecond(order)
    \/ \E i \in DOMAIN queue0 : Drop0(i) \/ \E again \in BOOLEAN : Send0(i, again)
    \/ \E i \in DOMAIN queue1 : Drop1(i) \/ \E again \in BOOLEAN : Send1(i, again)
    \/ \E i \in DOMAIN finished :
          DropFinished(i) \/ \E again \in BOOLEAN : SendFinished(i, again)
    \/ Assign0
    \/ Assign1
    \/ Commit0
    \/ Commit1
    \/ MatcherPolls
    \/ MatcherResolves
    \/ MachinePolls
    \/ Restart

(* As in Exchange: the threads loop, and the broker is up. *)
FaultsSpec ==
    /\ FaultsInit /\ [][FaultsNext]_faultsVars
    /\ WF_faultsVars(\E order \in Orders : ProduceSecond(order))
    /\ WF_faultsVars(Send0(1, FALSE)) /\ WF_faultsVars(Send1(1, FALSE))
    /\ WF_faultsVars(SendFinished(1, FALSE))
    /\ WF_faultsVars(Assign0) /\ WF_faultsVars(Assign1)
    /\ WF_faultsVars(MatcherPolls) /\ WF_faultsVars(MatcherResolves) /\ WF_faultsVars(MachinePolls)

-----------------------------------------------------------------------------
(* Properties *)

(* Types of the members, and offsets that stay within their logs. *)
FaultsTypeOK ==
    /\ TypeOK
    /\ TheMachine!TypeOK
    /\ between \subseteq accepted /\ accepted \subseteq Orders
    /\ queue0 \in Seq(Orders) /\ queue1 \in Seq(Orders) /\ finished \in Seq(Orders)
    /\ log0 \in Seq(Orders) /\ Len(log0) <= MaxMessages
    /\ log1 \in Seq(TheMachine!Events)
    /\ start0 \in {None} \cup 0 .. Len(log0) /\ Position0 <= Len(log0)
    /\ start1 \in {None} \cup 0 .. Len(log1) /\ Position1 <= Len(log1)
    /\ committed0 \in {None} \cup 0 .. Len(log0)
    /\ committed1 \in {None} \cup 0 .. Len(log1)
    /\ faults \in 0 .. MaxFaults
    /\ delivered \in [Orders -> Nat] /\ executed \in [Orders -> Nat]

(* What the matcher has taken in this life. *)
Taken == IF start0 = None THEN {} ELSE start0 + 1 .. Position0

TakenAndGone(type) == VolumeIn(log0, Taken, type) - VolumeOf(RestingOn(book, type))

(* Within a life what was sold was bought (matcher.cpp:32-53), wherever in *)
(* the partition the life began and whatever came in which order: unless   *)
(* one message came twice and put back what had been traded.               *)
BalancedInThisLife ==
    (\A i, j \in Taken : log0[i] = log0[j] => i = j) =>
        TakenAndGone("Ask") = TakenAndGone("Bid")

(* The status machine dies of a "Finished" (status_machine.cpp:50) only    *)
(* when it has read no "Add" of that price in this life: each one that was *)
(* not lost came behind it, or was there when this life's consumer began.  *)
(* So a restart, which empties the set, leaves it to die of a "Finished"   *)
(* whose "Add" an earlier life had read, but a "Finished" that comes again *)
(* does not kill it.                                                       *)
DiesOnlyOfUnreadAdd ==
    machine = "crashed" =>
        /\ log1[Position1].key = "Finished"
        /\ \A i \in 1 .. Position1 - 1 :
              (log1[i].key = "Add" /\ log1[i].order.price = log1[Position1].order.price) =>
                  i <= start1

(* Messages that come again or late, and lives that begin in the middle of *)
(* the partition, take nothing from the rules of matching: each life is    *)
(* one of Matching (matcher.cpp:8-98), and only a restart, which forgets   *)
(* all orders at rest, does what Matching does not allow.                  *)
EachLifeMatches == Abstract!Init /\ [][Abstract!Next \/ Restart]_Active

(* At least once delivery lets an order be executed again, after a restart *)
(* or a second sending, and no more than that: what has been traded of it  *)
(* in all lives and what rests of it now is at most its volume for each    *)
(* time that it came (matcher.cpp:70-92).                                  *)
ExecutedWithinDeliveries ==
    \A o \in Orders : executed[o] + RestingVolume(book, o) <= delivered[o] * o.volume

(* The orders that are on their way to the matcher or have come there, and *)
(* that the status machine never will hear of.                             *)
HalfLost ==
    (Range(queue0) \cup Range(log0))
        \ (between \cup Range(queue1)
             \cup {event.order : event \in {e \in Range(log1) : e.key = "Add"}})

(* An order is half lost only when the process ends before both of its     *)
(* messages were sent, or when the second one could not be delivered in    *)
(* time, which new_order() does not learn (server_connector.cpp:29-30):    *)
(* never by what is sent late or again.                                    *)
OnlyEndOrTimeoutLosesHalf ==
    [][HalfLost' \subseteq HalfLost \/ Restart \/ \E i \in DOMAIN queue1 : Drop1(i)]_faultsVars

Drained ==
    /\ between = {} /\ queue0 = <<>> /\ queue1 = <<>> /\ finished = <<>>
    /\ start0 # None /\ Position0 = Len(log0) /\ pc = "poll"
    /\ start1 # None /\ Position1 = Len(log1)

(* When the faults have ceased, everything that is in the partitions is    *)
(* taken in, from wherever the consumers began, unless the process is dead *)
(* and stays so.                                                           *)
KeepsUp == []<>(Drained \/ ~ Alive)
=============================================================================
