------------------------------ MODULE Exchange ------------------------------
(***************************************************************************)
(* The path of an order through the exchange process: new_order() on the   *)
(* server thread, the topic OrderEvents with its two partitions, the       *)
(* matcher thread on partition 0 and the status machine's thread on        *)
(* partition 1.                                                            *)
(*                                                                         *)
(* A produce() call only queues the message; the broker gets the messages  *)
(* that one producer sends to one partition in their order, and nothing    *)
(* orders two producers or two partitions.  partition 0 is therefore the   *)
(* first placed0 members of accepted; partition 1 mixes the first placed1  *)
(* of them with the first announced members of the matcher's events.       *)
(*                                                                         *)
(* The consumers are assigned their partitions without an offset, so with  *)
(* nothing committed each begins at what is the end of its partition then, *)
(* while the server takes orders already: what is there before is never    *)
(* read.                                                                   *)
(*                                                                         *)
(* Here the topic is new, no message is lost or duplicated, the process is *)
(* not restarted, and Timer::now() gives no two orders of one price and    *)
(* side the same time.                                                     *)
(***************************************************************************)
EXTENDS Matcher

(* MaxMessages bounds the orders that clients send; pc, book, offset and   *)
(* events are the matcher's.                                               *)

VARIABLES
    machine, all_orders,        (* the status machine, see StatusMachine   *)
    accepted,    (* the orders new_order() has stamped and produced        *)
    placed0,     (* how many of them are in partition 0                    *)
    placed1,     (* how many of them are in partition 1                    *)
    announced,   (* how many of events are in partition 1                  *)
    log1,        (* partition 1                                            *)
    start0,      (* where the matcher's cons_ began in partition 0         *)
    start1,      (* where the status machine's began in partition 1        *)
    read1        (* and how many messages it has consumed since            *)

machineVars == <<machine, all_orders, read1>>
topicVars == <<placed0, placed1, announced, log1>>
startVars == <<start0, start1>>
exchangeVars == <<vars, machineVars, accepted, topicVars, startVars>>

None == -1

Position0 == start0 + offset
Position1 == start1 + read1

(* Partition 1 has one "Add" for each order and no more "Finished" than    *)
(* there are executed orders.                                              *)
TheMachine == INSTANCE StatusMachine WITH
    MaxMessages <- 2 * MaxMessages,
    consumed <- SubSeq(log1, start1 + 1, Position1)

ExchangeInit ==
    /\ Init
    /\ machine = "poll" /\ all_orders = {}
    /\ accepted = <<>>
    /\ placed0 = 0 /\ placed1 = 0 /\ announced = 0 /\ read1 = 0
    /\ log1 = <<>>
    /\ start0 = None /\ start1 = None

(* A failed assert or a wild write ends the process, with all its threads  *)
(* and what its producers have not sent yet.                               *)
Alive == pc \in {"poll", "resolve"} /\ machine = "poll"

-----------------------------------------------------------------------------

SamePlace(o1, o2) ==
    /\ o1.order_type = o2.order_type
    /\ o1.price = o2.price
    /\ o1.timestamp_exchange = o2.timestamp_exchange

(* new_order(): stamps the order and produces it to both partitions. *)
NewOrder(order) ==
    /\ Alive
    /\ Len(accepted) < MaxMessages
    /\ \A i \in DOMAIN accepted : ~ SamePlace(accepted[i], order)
    /\ accepted' = Append(accepted, order)
    /\ UNCHANGED <<vars, machineVars, topicVars, startVars>>

Place0 ==
    /\ Alive
    /\ placed0 < Len(accepted)
    /\ placed0' = placed0 + 1
    /\ UNCHANGED <<vars, machineVars, accepted, placed1, announced, log1, startVars>>

Place1 ==
    /\ Alive
    /\ placed1 < Len(accepted)
    /\ placed1' = placed1 + 1
    /\ log1' = Append(log1, TheMachine!Event("Add", accepted[placed1 + 1]))
    /\ UNCHANGED <<vars, machineVars, accepted, placed0, announced, startVars>>

PlaceFinished ==
    /\ Alive
    /\ announced < Len(events)
    /\ announced' = announced + 1
    /\ log1' = Append(log1, TheMachine!Event("Finished", events[announced + 1]))
    /\ UNCHANGED <<vars, machineVars, accepted, placed0, placed1, startVars>>

(* assign() without an offset only asks for the end of the partition; the  *)
(* library learns it later.  The matcher's consumer asks as the process    *)
(* starts, the status machine's a second later, when inst() is first       *)
(* called.                                                                 *)
Assign0 ==
    /\ Alive
    /\ start0 = None
    /\ start0' = placed0
    /\ UNCHANGED <<vars, machineVars, accepted, topicVars, start1>>

Assign1 ==
    /\ Alive
    /\ start1 = None
    /\ start1' = Len(log1)
    /\ UNCHANGED <<vars, machineVars, accepted, topicVars, start0>>

(* The matcher thread: poll() and the turns of resolve_orders(). *)
MatcherPolls ==
    /\ Alive
    /\ start0 # None /\ Position0 < placed0
    /\ PollAdd(accepted[Position0 + 1])
    /\ UNCHANGED <<machineVars, accepted, topicVars, startVars>>

MatcherResolves ==
    /\ Alive
    /\ Resolve
    /\ UNCHANGED <<machineVars, accepted, topicVars, startVars>>

(* The status machine's thread. *)
MachinePolls ==
    /\ Alive
    /\ start1 # None /\ Position1 < Len(log1)
    /\ read1' = read1 + 1
    /\ UNCHANGED <<vars, accepted, topicVars, startVars>>
    /\ LET order == log1[Position1 + 1].order
       IN  TheMachine!PollAdd(order) \/ TheMachine!PollFinished(order)

ExchangeNext ==
    \/ \E order \in Orders : NewOrder(order)
    \/ Place0
    \/ Place1
    \/ PlaceFinished
    \/ Assign0
    \/ Assign1
    \/ MatcherPolls
    \/ MatcherResolves
    \/ MachinePolls

(* Every thread loops for as long as status() is true, which is always     *)
(* (exchange.cpp:9-25, server_connector.hpp:74), and the broker is up.     *)
ExchangeSpec ==
    /\ ExchangeInit /\ [][ExchangeNext]_exchangeVars
    /\ WF_exchangeVars(Place0)
    /\ WF_exchangeVars(Place1)
    /\ WF_exchangeVars(PlaceFinished)
    /\ WF_exchangeVars(Assign0)
    /\ WF_exchangeVars(Assign1)
    /\ WF_exchangeVars(MatcherPolls)
    /\ WF_exchangeVars(MatcherResolves)
    /\ WF_exchangeVars(MachinePolls)

-----------------------------------------------------------------------------
(* Properties *)

(* Types of the members and of the partitions' contents. *)
ExchangeTypeOK ==
    /\ TypeOK
    /\ TheMachine!TypeOK
    /\ accepted \in Seq(Orders) /\ Len(accepted) <= MaxMessages
    /\ placed0 \in 0 .. Len(accepted) /\ placed1 \in 0 .. Len(accepted)
    /\ announced \in 0 .. Len(events)
    /\ log1 \in Seq([key : {"Add", "Finished"}, order : Orders])
    /\ Len(log1) = placed1 + announced
    /\ start0 \in {None} \cup 0 .. placed0 /\ Position0 <= placed0
    /\ start1 \in {None} \cup 0 .. Len(log1) /\ Position1 <= Len(log1)
    /\ read1 \in Nat

(* What has come to the matcher: nothing that was in the partition before. *)
Taken == IF start0 = None THEN {} ELSE start0 + 1 .. Position0

(* The volume of one side that came to the matcher and is not at rest.     *)
Executed(type) == VolumeIn(accepted, Taken, type) - VolumeOf(RestingOn(book, type))

(* What was sold was bought: over any number of orders and turns of the    *)
(* loop (matcher.cpp:32-53), however the partial fills fell.               *)
SoldIsBought == Executed("Ask") = Executed("Bid") /\ Executed("Ask") >= 0

(* remove_'s asserts (orderbook.cpp:99, 108) do not end the exchange:      *)
(* only a "Remove" message could, and nothing sends one.                   *)
NeverAborts == pc # "aborted"

(* The status machine dies of a "Finished" (status_machine.cpp:50) only    *)
(* when it could not have read an "Add" of that price: each one was behind *)
(* the "Finished" in partition 1, which overtook it, or was there before   *)
(* the consumer was assigned (status_machine.hpp:24).  That an ask may be  *)
(* announced several times does not kill it.                               *)
DiesOnlyOfUnreadAdd ==
    machine = "crashed" =>
        /\ log1[Position1].key = "Finished"
        /\ \A i \in 1 .. Position1 - 1 :
              (log1[i].key = "Add" /\ log1[i].order.price = log1[Position1].order.price) =>
                  i <= start1

Drained ==
    /\ start0 # None /\ Position0 = Len(accepted) /\ pc = "poll"
    /\ announced = Len(events) /\ Len(log1) = Len(accepted) + Len(events)
    /\ start1 # None /\ Position1 = Len(log1)

(* From where the two consumers began, every order is matched, and every   *)
(* event taken in by the status machine, unless the process dies.  No more *)
(* is promised of the orders that were sent before that.                   *)
Drains == []<>(Drained \/ ~ Alive)

-----------------------------------------------------------------------------
(* What the repository's description says and the code does not do. *)

(* A client can view "all their active orders" (description.md:27): once   *)
(* everything is taken in, the status machine knows each order that rests, *)
(* if only both consumers were there in time for all of them.              *)
EveryActiveOrderIsKnown ==
    (Drained /\ Alive /\ start0 = 0 /\ start1 = 0) =>
        \A info \in Resting(book) :
            \E known \in all_orders : known.full_order = info.full_order
=============================================================================
