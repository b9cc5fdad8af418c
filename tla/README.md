# A TLA+ model of the exchange

The repository is a small exchange: clients send buy and sell orders over TCP,
the server passes them through Kafka to a matcher, and the matcher trades the
orders whose prices cross. The modules in this directory model that program,
TLC checks them on small instances, and TLAPS proves what holds for every
instance. Paths like `matcher.cpp:26` are files of the repository.

## The system

One process (`server/exchange_machine/exchange.cpp`) runs four threads, each in
an endless loop, and talks to itself through Kafka:

| part | state | operations | talks to |
|---|---|---|---|
| `Session`, `Server`, `NewIOServer` (`server_connector.cpp`) | sockets, a 2048 byte buffer per session | accept, read a request, write the reply, close | clients over TCP; `new_client`, `new_order` |
| `new_client`, `new_order` (`server_connector.cpp:6-32`) | a producer each | stamp and produce | topic UserEvents; topic OrderEvents, partitions 0 and 1 |
| `Timer` (`timer.hpp`) | none | `now()`: system clock, nanoseconds | `new_order` |
| `Matcher` (`matcher.cpp`) is an `OrderBook` (`orderbook.cpp`) | two maps price -> level, a level maps timestamp -> order; an offset | `poll`, `resolve_orders`; add, remove, best level | reads partition 0, writes "Finished" to partition 1 |
| `statusMachine` (`status_machine.cpp`) | `std::set<InfoOrder>` | `poll`; add, check, remove | reads partition 1 |
| `MapClients` (`clients.cpp`) | map hash -> client | `poll`; add, check, remove | reads UserEvents |
| client program (`client/Client.cpp`) | a socket, its ID | register, hello, ask, bid | the server |

An order's way: a session's `new_order` gives it `timestamp_exchange` and
produces it as "Add" to both partitions. The matcher's thread takes it from
partition 0, files it in the book and calls `resolve_orders`, which trades while
the best ask and the first bid cross, and produces "Finished" messages to
partition 1. The status machine's thread takes "Add" and "Finished" from there.
Nothing produces "Remove". No lock is shared between the threads: `m_mutex` is
only ever taken by the matcher's own thread.

What is hard here, and therefore what the properties are about:

- *long sequences of messages* against the book: levels that empty, partial
  fills, two orders of one key, a loop that must end and must end in time;
- *two producers and two partitions*: "Finished" can overtake "Add", and the
  matcher can run far ahead of the status machine;
- *consumers that begin late*: both are assigned their partition without an
  offset, so each begins at the end; the status machine's is built only after
  the first `status()` has slept its second, when the server takes orders
  already, so that a "Finished" can come whose "Add" was never read;
- *lookups that say less than they seem to*: the bid side is read from its low
  end and guarded by the ask side, the set compares prices only;
- *callbacks on objects that delete themselves*: a `Session` is deleted by
  whichever callback meets an error, or by a `Close`, and its address can go to
  the next one while a callback is still bound to it;
- *byte streams taken for messages*: one read is one request, one read is one
  reply, and an exception at a half request ends the whole process;
- *failures*: asserts, a dereferenced `nullopt`, exceptions that leave a
  thread, restarts that lose the book, messages delivered twice, consumers that
  begin at the end of a topic.

`PROJECT.json` lists these one by one under "hazards", each with its line.

## Modules

| module | what it is |
|---|---|
| `OrderBook` | `order.hpp`, `orderbook.cpp` as operators on values: maps, levels, sides, and every operation on them |
| `Matcher` | the matcher thread as a state machine: `poll()` and `resolve_orders()` |
| `Matching` | what a matcher promises: a set of active orders, `Accept`, `Withdraw`, `Trade` |
| `StatusMachine` | the status machine's thread as a state machine |
| `Exchange` | extends `Matcher` with new orders, the two partitions and the status machine |
| `ExchangeFaults` | the exchange with restarts, a failing produce, and messages that come twice, late or never |
| `Clients` | `new_client`, the topic UserEvents and `MapClients`, with restarts |
| `Sessions` | the server thread: `Server` and `Session`, with the client program around it |
| `JsonParser` | the parser loop of `json.hpp` that decides whether a request is JSON |
| `DataProofs` | lemmas about the data the modules share: integers, logs, sums |
| `MatcherProofs`, `StatusMachineProofs`, `ExchangeProofs`, `ExchangeFaultsProofs`, `ClientsProofs`, `SessionsProofs`, `JsonParserProofs` | the theorems about each module, with their proofs; `MatcherProofs` has those about the operators of `OrderBook` too |
| `MCMatcher`, `MCStatusMachine`, `MCExchange`, `MCExchangeFaults`, `MCClients`, `MCSessions`, `MCJsonParser` | the instances that TLC uses |

A definition marked "Mutant of X" in a comment is not part of the model: it is
X with a plausible mistake, and shows that a property would notice it.

### OrderBook

A `std::map` is a function on a finite set of integer keys, `begin()` its least
key (`First`, `Begin`). `Put` and `Drop` are `operator[]` and `erase`. A level
is keyed by `timestamp_exchange` and a side by price, so `Add` overwrites an
order with the same side, price and timestamp (`orderbook.cpp:13`), and
`SideRemove` drops a level that a removal empties (`orderbook.cpp:95`, 104).
`ReadsEnd` is the state in which `getLevel(Bid)` looks at `bid.end()`, because
it tests `ask` where `bid` is meant (`orderbook.cpp:158`).

The operations that only the tests call are here too: `LevelRemoveFirst`
(`remove(int)`, whose comparison of a `size_t` with an `int` makes a negative
argument clear the level), `LevelModify`, `LevelClear`, `LevelSize`, `IsEmpty`
and `BookPrice` (`getPrice()`, with the width of `int` taken from `PriceMin`:
`Wrap` is what the usual build makes of an overflow, `Half` rounds towards 0).

Left out of the data: `instrument`, `exchange_type`, `timestamp_user`,
`order_status` and `is_limit`, which the book never reads. Volumes are `double`
in the code and whole units here. `OrdersAssumption` says that prices and
timestamps are integers bounded below, as machine integers are, and that
volumes are positive, as those of `Client.cpp` are; the server does not check
them (`server_connector.cpp:21`).

### Matcher

| variable | code |
|---|---|
| `pc` | where the thread is: in `poll()`, in the loop of `resolve_orders()`, dead by an assert, dead by the read past the end |
| `book` | the inherited `ask` and `bid` |
| `offset` | how far `cons_` has read partition 0 |
| `events` | what was produced as "Finished" |

`PollNothing`, `PollAdd`, `PollRemove` and `PollOtherKey` are the ways through
`poll()`; `AskExhausted`, `BidExhausted` and `BothExhausted` are the three
branches of the loop, each with its announcement and its removals;
`ResolveDone` leaves the loop. `ask_level` and `bid_level` are copies that share
the book's `InfoOrder`s and are taken again at the end of each turn, so the book
stands for them. The announcement is built from `best_ask_order` in all three
branches, as in the code (`matcher.cpp:40`, 48).

The read of `bid.end()` has two outcomes. With the layout of libstdc++ it
yields a level without orders, whose `getPrice()` is `nullopt`, and
`x <= nullopt` is false: the loop is left (`ResolveDone`). With another layout
the process dies (`EndReadCrash`).

### Matching

The abstract specification knows neither maps nor a loop. A trade takes two
active orders whose prices cross; the ask must be the cheapest and then the
earliest; the bid must not overtake an earlier bid of its price; both give up
the smaller of the two volumes; an order without volume leaves. `Matcher`
implements it under

    Active == {[order |-> info.full_order, remaining |-> info.volume] : info \in Resting(book)}

### StatusMachine

`all_orders` is the set, `consumed` what has been taken from partition 1.
`Equivalent` is `std::set::find` with `operator<`, which compares prices only.
`PollFinished` changes nothing in the set: the status is written to the order
just parsed. If no order of that price is stored, the code writes through a
`nullopt`: either nothing is seen of it or the process dies.

### Exchange

`accepted` holds the orders in the sequence in which `new_order` stamped them.
The broker keeps the order of each producer in each partition and nothing more,
so partition 0 is a prefix of `accepted` (`placed0`), and partition 1 (`log1`)
is a merge of a prefix of `accepted` (`placed1`) with a prefix of the matcher's
`events` (`announced`). The module extends `Matcher`, whose variables and
actions are used as they are; the status machine's are those of `StatusMachine`,
taken with `INSTANCE`, with what it has read of partition 1 as `consumed`. When
either of them dies the whole process has died (`Alive`).

`Assign0` and `Assign1` are the constructors' `assign` without an offset
(`matcher.hpp:19`, `status_machine.hpp:24`): where nothing is committed, a
consumer begins at what is the end of its partition when the library asks for
it. That may be at any time. For the matcher it is soon after the start of the
process, for the status machine at least a second later: `inst()` is first
called in `machine_thread` after `status()` has slept (`exchange.cpp:21-25`,
`server_connector.hpp:74`), while the server accepts already. `start0` and
`start1` are where they began; orders before `start0` are never matched and
"Add"s before `start1` never heard of.

`Place0`, `Place1` and `PlaceFinished` are the work of librdkafka and of the
broker, which are not in the repository. Not in this model: two orders of one
side and price with one timestamp (the matcher's runs have those), and faults.

### ExchangeFaults

The same path with what can go wrong on it. `new_order()` is two steps,
`ProduceFirst` and `ProduceSecond`, between which the second `produce()` may
throw: nothing catches it, so it ends the process. `Restart` is the end of the
process, whatever the reason, and its next start: book, set and the producers'
queues are lost, the partitions and the committed offsets stay. `Assign0` and
`Assign1` are those of `Exchange`, but a consumer goes on from its committed
offset and begins at the end of the log only when there is none. `Commit0` and
`Commit1` happen at any time (auto commit).

`queue0` and `queue1` are what `new_order`'s producer has not sent to each
partition, `finished` what the matcher's has not. All three behave alike:
`Send0`, `Send1` and `SendFinished` may take a message in and send it again,
because its acknowledgement was lost, and may let a later message go first, while
the first waits for its retry; `Drop0`, `Drop1` and `DropFinished` give a message
up after its time to be delivered. Nobody learns of that: `produce()` has
returned, and no delivery report is asked for. `log0`, `log1` and the two
committed offsets are all that survives a life; `accepted`, `delivered` and `executed`
are kept by the model to state the properties over all lives.

### Clients

| variable | code |
|---|---|
| `registered_users` | the map of `MapClients` |
| `queued`, `told` | what `new_client` has produced, and whom it has returned an ID to |
| `log`, `position`, `committed` | UserEvents, the consumer's place, the group's offset |
| `taken` | the messages this process has taken, for the properties |

`Hash` is `client::hash`: the XOR of two `std::hash` values cut to an `int`, so
the hashes are CONSTANTS and may collide. `PollAdd`, `PollRemove` and
`PollOtherKey` are the ways through `poll()`. `Join` is the `subscribe()` that
`poll()` makes each time it is called (`clients.cpp:32`): it may make the
consumer leave its group, committing what it has read, and come back, and with
nothing committed it comes back at the end of the topic.

### Sessions

One thread runs `io_service.run()`, so a handler is one action. A `Session` is
the address it lives at; `alive` says where one is, and `pending` holds the
callbacks that were asked for, each bound to an address, whether or not its
`Session` is still there.

| variable | code |
|---|---|
| `alive`, `peer`, `smashed` | `Session` objects, the client of `socket_`, `hash_client_` overwritten by `data_[2048] = 0` |
| `pending` | `handle_accept`, `read_msg`, `send_msg` bound to a `Session` |
| `backlog`, `inbox`, `outbox` | connections not accepted, bytes not read, replies on their way |
| `client`, `sent`, `told` | where a client is in its program, what it has sent and been told |
| `process`, `culprit` | what ended the process, and whose request it was |

`HandleAccept` and `HandleAcceptError` are the branches of `handle_accept`;
`ReadMsg` is `read_msg` with the `parse_event` in it, one disjunct per outcome:
`ReadBad` (an exception leaves `run()`), `ReadAndProduce`, `ReadAndNotProduce`
(the producer's queue is full), `ReadAndCrash` (`new_client` has produced, and
then the overwritten `hash_client_` is assigned to), `ReadHello`, `ReadClose`. `ReadMsgError` and `SendMsgError`
are `delete this`. `AsyncWrite` sends what fits; the rest (`SendLater`) is read
from a string that is gone by then. `DeleteFreed`, `DeleteAnother` and
`AcceptFreed` are callbacks that come to an address whose `Session` was deleted
by a `Close`: the heap notices, nothing happens, or another `Session` that now
lives there is hit.

The environment: honest clients run `Client.cpp` (`SendRequest`, `ReadMessage`)
over the loopback interface, so that a small request arrives in one piece; the
other clients send requests whole or in two parts, of the buffer's exact length
or malformed, without waiting for replies, and connect again.

### JsonParser

`json::parse` in `read_msg` throws when the bytes are not JSON, and nothing
catches that. `sax_parse_internal` (`json.hpp:10891-11169`) is one loop over
tokens with a stack `states`; the handler that builds the value keeps another
one, `ref_stack`. One action per token and place in the loop; `expects` is the
place. `NumberOverflow` is the one place where the parser throws at a document:
`strtod` makes an infinity of a number like `1e999`, which RFC 8259 allows
(`json.hpp:10979-10984`). `Grammar` is the reference definition: for each number of tokens the
values, the comma separated values and the comma separated members of RFC 8259
(`PhrasesOf`), made of the shorter ones.

## Runs

| run | shows |
|---|---|
| `matcher` | every sequence of up to five messages over eight orders: all properties of `Matcher`, and those of the book's other operations in every book that comes about |
| `crossed_book` | violated: crossing prices are always traded (`description.md:19`) |
| `lowest_bid_first` | violated: the highest bid goes first (`description.md:38`) |
| `finished_ask` | violated: an order announced as finished has no volume left (`description.md:36`) |
| `same_timestamp` | violated: an arriving order takes no other off the book (`description.md:36`) |
| `status_machine` | every sequence of up to four messages over four orders |
| `exchange` | up to four orders through both partitions, all interleavings, both consumers beginning at any time |
| `unknown_order` | violated: the status machine holds every active order (`description.md:27`) |
| `faults` | two orders with any two faults |
| `clients` | four clients with two IDs, three messages, one restart |
| `sessions` | one client that follows `Client.cpp` and one that does not |
| `json` | every text of up to eleven tokens |

The properties of the passing runs:

- `TypeOK` (and `ExchangeTypeOK`): types and ranges.
- `BookWellFormed`: every resting order is filed under its own side, price and
  timestamp, has volume left, and there is no empty level. `getLevel`, `getBest`
  and the asserts of `remove_` rely on it.
- `Quiet`: when `poll()` has returned, all asks are dearer than one and the same
  bid. That is what the loop does achieve; `NothingLeftCrossed` is what it
  should.
- `ResolveNeverAborts`, `NeverAborts`: the asserts of `remove_` do not fail.
- `OneEventPerExecutedOrder`, `AsksAreAnnounced`: as many announcements as
  executed orders, none for an order that did not trade, none missing for an
  ask.
- `ImplementsMatching`: the refinement.
- `ResolveEnds`: the loop ends. `TurnsRunOut`: each turn leaves fewer orders at
  rest than it found, so there are never more turns in a row than orders.
- `HoldsFirstOfPrice`: the set told from the messages alone.
- `DiesOfUnknownPrice`, `DiesOnlyOfUnreadAdd`: when the dereferenced `nullopt`
  can happen, in the status machine alone and in the whole exchange. There the
  status machine dies of a "Finished" only if it could not have read an "Add" of
  that price: the "Finished" overtook it, or it was in the partition before the
  consumer began. With faults a restart is one more such beginning: the set is
  empty, and a "Finished" whose "Add" was read in an earlier life ends the
  process. Nothing is committed past it, so it can end the next lives as well.
  The property rules out the other ways: one ask announced several times, or a
  "Finished" that comes again, is harmless.
- `SoldIsBought`: over any number of orders, the volume sold is the volume
  bought.
- `Drains`: all that is behind where the two consumers began is matched and
  taken in, unless the process dies. Of orders before that the code promises
  nothing.
- `RemovesEarliest`, `ViewsAgree`: `remove(n)` takes the earliest orders, for
  every n from -1 to one more than the level has (the theorem: for every n);
  `is_empty()`, `getPrice()` and the orders at rest tell the same.
- `BalancedInThisLife`: between two starts of the process what was sold was
  bought, wherever in the partition the life began, unless a message came twice.
- `EachLifeMatches`: each life of the process is one of `Matching`, whatever
  comes again or late; only a restart, which forgets all orders, is none.
- `ExecutedWithinDeliveries`: an order that is delivered again is executed
  again, and never more than that. The code promises no more: there is no
  deduplication.
- `OnlyEndOrTimeoutLosesHalf`: an order on its way to the matcher, or with it,
  is kept from the status machine for ever only if the process ended before both
  messages were sent, or if the second one was given up.
- `KeepsUp`: after the faults everything in the partitions is taken in.
- `FirstOfItsID`: the map told from the messages alone; the first client of an
  ID keeps it.
- `ToldIsKnown`: who was told an ID is filed in the end, once the group has a
  committed offset. Without one it fails: each `subscribe()` begins at the end
  of the topic, and may do so for ever.
- `OneCallbackEach`: no `Session` is forgotten, run twice at a time or used after
  its deletion, as long as nobody sends `Close`. With a `Close` it is false,
  which is why the condition is there.
- `HonestRequestsAreWhole`, `AnswersMatchRequests`: what a client that follows
  `Client.cpp` can rely on, whatever the other clients do: its requests do not
  end the process, it is told what was done, in order and unspoilt.
- `RequestAnswered`: such a client is answered; the four ways in which it is not
  are in the property.
- `GoneClientsAreFreed`: the `Session` of a client that left is deleted.
- `AcceptsOnlyDocuments`, `NoFalseAlarm`: the parser takes nothing but documents
  of the grammar, and throws only at a number that no double can hold and at
  what no document begins with.
- `StacksAgree`: the stack of the parser and that of the handler agree after
  each token; empty containers are in one of them only.

### Bounds

`MaxMessages` bounds the messages in each run. In `MCMatcher` the asks have
three prices, two orders at one of them; the bids have three prices, and two of
them one place; the volumes 1, 2, 3 exhaust the ask, the bid or both. Five
messages are enough for two orders at one level, a partial fill that goes on
with a third order, a removal of a partly filled order and a level that empties
and comes back. Six messages (17791 states) find nothing new. In `MCExchange`
two asks and two bids at two prices cross or not, leave a remainder on either
side or none, let one ask be announced twice, and leave enough messages on both
sides of where a consumer begins. `UnknownOrder.cfg` has two bids of one price.
The violations need two or three messages. `MCPriceMin` makes `int` so small that
one sum of two prices overflows and the others do not.

`MCExchangeFaults` has an ask and a bid that takes it twice if it comes twice;
two faults are enough for a restart after a second sending, for two restarts,
for a duplicate that overtakes, and for a message given up before a restart. `MaxMessages` is 4: two orders, and one
message more for each fault.

`MCClients` has two strings, hence four clients, of which two share each ID.
Three messages are a registration, its rival and a removal; one restart shows
what a commit before it is worth.

`MCSessions` has three addresses: an honest client, another one and a `Session`
that waits for the next. `SendBuffer = 1` makes the second reply wait. The
other client's three kinds of arrival are the ones that differ: a registration
of exactly the buffer's length, a request in two parts (which, unfinished, is
the malformed one), and a `Close`. It sends two of them, enough for a `Close`
behind which another `Session` takes the address; it connects again, so that a
`Session` that waits for a client can be hit as well (`AcceptFreed`).

`JsonParser`: with eleven tokens, ten of them a document, an object can stand in
an array in an object, beside empty containers and after a first member.

### Fairness

`Matcher` assumes weak fairness of `Resolve`: the loop calls nothing that
waits, so the operating system's scheduling of the thread is enough. `Exchange`
assumes weak fairness of each thread's step, since each thread loops for as
long as `status()` is true, which it always is, of the two producers'
deliveries and of the consumers' beginning (`Assign0`, `Assign1`), that is, a
broker that is up and a library that asks it for the end of a partition. Clients
are not assumed to send anything. `ExchangeFaults` assumes the same, of sending
in order and once only, and of the second `produce()`; nothing obliges a commit,
a drop or a restart.

`Clients`: the thread polls, the broker delivers, and the first `poll()` joins
the group; later `Join`s and commits may or may not happen.

`Sessions`: `io_service.run()` dispatches every handler that is ready (weak
fairness of `Handler`, for each address), and an honest client that waits for a
reply reads it (`ReadMessage` blocks on it). Failing accepts, deletions by stale
callbacks, and all that other clients do are not fair.

## Proofs

The library's induction theorems take the induction hypothesis as an operator,
which the provers cannot instantiate. `DataProofs` therefore states induction
over sets: a set of naturals that has 0 and the successors of its members has
all naturals (`Induction`), a set of subsets that has `{}` and grows by one
element has all finite ones (`SubsetInduction`). That is enough to unfold a
recursive function: its finite tables exist and agree, so the function that
`CHOOSE` names satisfies its equation. So `Iterates` for the iteration of a
step, `SumUnfolded` for the fold behind the sums of volumes, `GrammarUnfolded`
for the grammar. `FirstSinceRemoved` tells which message is the first of its
kind in a log since the last removal, after one more message has been taken.

`MatcherProofs` begins with the book. From `OrdersAssumption` alone it proves
that a nonempty map has a first key (`FirstIsLeast`), that
`Add`, `SetVolume` and `Remove` keep a book in order (`AddOrder`,
`SetVolumeOfResting`, `RemoveOrder`) and what each of them does to the set of
resting orders, and that the best order of a side is at rest and first in price
and time (`BestIsFirst`). The argument goes through places: `At(info, side,
price, timestamp)` says where an order is filed, `PlaceOfResting` that it is
there, `OneOrderPerPlace` that nobody else is. `File` describes `Add` and
`SetVolume` at once, `FilePlaces` that it changes one place only.

The inductive invariant of the matcher is

    Inv == TypeOK /\ BookWellFormed

Types alone are not inductive: a turn of the loop subtracts volumes and removes
orders it got from `getBest`, which is type correct only because the levels are
not empty and the orders are filed where they say. `InvBook` turns it into
`ValidBook`, the form the lemmas use. `Refines` has one lemma per action of
`Matching`: `AcceptRefined`, `WithdrawRefined` and `TradeRefined`, the last from
`BestMayTrade` (the two orders may trade) and `TradeOutcome` (the volumes come
out right in all three branches). `TurnOutcome` says what a turn leaves at rest;
with the finiteness of the book, itself an invariant, `EventsCount`,
`LoopRunsOut` and `AsksAnnounced` follow from it. `EarliestRemoved` goes through the levels that
`erase(begin())` leaves one after another, of which the n-th has lost the n
earliest orders (`EarliestGone`), for every integer n and not only those of the
run (`TakesAnyNumber`); `ViewsOfBookAgree` needs that no level is
empty (`EmptyViews`) and that half of a sum, rounded towards 0 as in C++, lies
between the summands (`HalfBetween`).

`StatusMachineProofs` needs no more than its two properties together;
`DiesOfUnknownPrice` rests on `HoldsFirstOfPrice`, because the state of the set
has to be told from the messages. `ClientsProofs` has the same argument for the
map, with an ID where the set has a price.

`ExchangeProofs` shows that each step of the exchange is a step of `Matcher` or
leaves it alone, so the matcher's invariants and its refinement hold there. Its
own invariant adds `TopicsTyped` and `KnowsPrices`: the set has an order of a
price exactly when an "Add" of that price was read between `start1` and
`Position1`, because nothing sends a "Remove"; what was there before `start1` is
what `ExchangeDies` has to exempt. `ExchangeBalances` is about two sums over
`Taken`, the orders that the matcher has read since it began. A turn takes the
same volume from one ask and one bid; an arrival adds nothing, since nobody rests
who was not taken (`RestingArrived`) and no two orders have one place
(`DistinctPlaces`), so that none is displaced.

`ExchangeFaultsProofs` does the same for each life of the process: between two
starts a step is the matcher's or leaves it alone (`MatcherStep`), a start makes
the book empty, and `FaultsInv` holds through both; `LivesRefine` is then the
refinement of `MatcherProofs` in each life. The count
`Len(log0) + Len(queue0) <= Cardinality(accepted) + faults` is what keeps a
matcher that begins anywhere in the partition within its bound. `LivesBalance`
and `ExecutedBounded` add `RestingTaken` (whoever rests has been taken in this
life) and the types of the history. `LivesDie` has `KnowsPrices` for each life: a
restart empties the set and what was read of the partition together.
`HalvesAreNotLostOtherwise` needs that of the queues a sending takes away only
what it has put in the log (`LeftInQueue`, `TakenOut`, `PutBehind`), so that an
order is told as before, and that only the one order whose second message comes
next is in neither (`OneBetween`).

`SessionsProofs` strengthens the types by `Lifetimes` (a callback that reads or
writes belongs to a living `Session` with a client and is its only one, `Close`
or not), `Queue` (nobody is in the backlog twice, or there and in a `Session`),
`Authentic` (what is read was sent) and `Orderly` (without a `Close` every
`Session` waits and nothing waits for a dead one). `HonestAreWhole` adds `Served`
(between an honest client and the server there is one request or one reply) and
`Kept` (its `Session` is not smashed and has sent its replies); `AnswersMatch`
adds `Answered`: such a client has been told of all its requests but one at
most, which is on its way, is being dealt with, or is answered. `ServerSteps`
sorts the handlers' steps by kind first.

`JsonParserProofs` carries the agreement of the two stacks through each token
(`Depths`, `Innermost`). That the parser takes the documents and nothing else
is a statement about all ways in which a text can go on. The invariant is

    Foretold == \A T : Complete(T) /\ Begins(text, T) =>
        (ValueAt(T, 1, Len(T) - 1) <=> Foreseen(T, expects, ref_stack, Len(text) + 1))

(or, once the parser has thrown at a number that overflows, `Overflowed`): for
every whole text T that begins with what has been read, T is a document
exactly if the rest of it is what the parser waits for: what its place in the
loop calls for, then, for each container that is open, its end and what may
follow it in the next one (`Closes`). At "failed" no text is what is waited
for, at "accepted" only the one that is over, and so `ParserRejects` and
`ParserAccepts` follow (the latter with `Ended`: the text that is accepted is
over). A leaf of this proof compares two phrases of T that differ by a token;
to keep sequences out of it, the rules of the grammar are first told of places
in a text (`ValueRule`, `ElementsRule`, `MembersRule`: what stands from i to j).

Proved for every value of the constants:

| module | theorem | property |
|---|---|---|
| `MatcherProofs` | `Typed` | `TypeOK` |
| | `BookInOrder` | `BookWellFormed` |
| | `PollLeavesQuiet` | `Quiet` |
| | `NoAbort` | `ResolveNeverAborts` |
| | `EventsCount` | `OneEventPerExecutedOrder` |
| | `LoopRunsOut` | `TurnsRunOut` |
| | `AsksAnnounced` | `AsksAreAnnounced` |
| | `EarliestRemoved` | `RemovesEarliest` |
| | `ViewsOfBookAgree` | `ViewsAgree` |
| | `Refines` | `ImplementsMatching` |
| `StatusMachineProofs` | `MachineTyped` | `TypeOK` |
| | `MachineHoldsFirst` | `HoldsFirstOfPrice` |
| | `MachineDies` | `DiesOfUnknownPrice` |
| `ExchangeProofs` | `ExchangeTyped` | `ExchangeTypeOK` |
| | `ExchangeNeverAborts` | `NeverAborts` |
| | `ExchangeDies` | `DiesOnlyOfUnreadAdd` |
| | `ExchangeRefines` | `ImplementsMatching` |
| | `ExchangeBalances` | `SoldIsBought` |
| `ExchangeFaultsProofs` | `FaultsTyped` | `FaultsTypeOK` |
| | `LivesDie` | `DiesOnlyOfUnreadAdd` |
| | `LivesRefine` | `EachLifeMatches` |
| | `LivesBalance` | `BalancedInThisLife` |
| | `ExecutedBounded` | `ExecutedWithinDeliveries` |
| | `HalvesAreNotLostOtherwise` | `OnlyEndOrTimeoutLosesHalf` |
| `ClientsProofs` | `ClientsTyped` | `TypeOK` |
| | `IDsAreGivenOnce` | `FirstOfItsID` |
| `SessionsProofs` | `SessionsAreTyped` | `TypeOK` |
| | `OneCallback` | `OneCallbackEach` |
| | `HonestAreWhole` | `HonestRequestsAreWhole` |
| | `AnswersMatch` | `AnswersMatchRequests` |
| `JsonParserProofs` | `ParserTyped` | `TypeOK` |
| | `ParserStacksAgree` | `StacksAgree` |
| | `ParserAccepts` | `AcceptsOnlyDocuments` |
| | `ParserRejects` | `NoFalseAlarm` |

The assumptions are the named ones of the modules: `OrdersAssumption`,
`MachineAssumption`, `ClientsAssumption`, `SessionsAssumption`,
`MaxTokensAssumption`, that bounds are natural numbers, and two of
`ExchangeFaults`: `FaultsAssumption` (partition 0 may hold each order once and
once more for each fault) and `OrdersAreNew` (no two orders of one side and
price have one timestamp: left out here as it is in `Exchange`, and shown by the
run `same_timestamp`).

That is every safety property and the refinement of every passing run. Only
model-checked is liveness (`ResolveEnds`, `Drains`, `KeepsUp`, `ToldIsKnown`,
`RequestAnswered`, `GoneClientsAreFreed`), which is out of the prover's reach;
`LoopRunsOut` is the part of `ResolveEnds` that needs no fairness.
The runs that expect a violation have nothing to be proved.

## Not modelled

- The rest of `json.hpp`. It is a vendored library of 22112 of the repository's
  23414 lines of code: containers, iterators, binary formats, a serializer, a
  lexer, templates that the compiler resolves. Only the parser loop and the DOM
  handler carry a decision of this program, namely whether a request ends the
  process. The share of all lines that any model of the exchange itself can
  stand for is therefore small (about seven percent).
- Text: the JSON mapping of orders and clients, printing, formatting, CMake.
- `VolumeConverter`, floating point arithmetic that nothing calls;
  `MapClients::getClient`, which has no caller; `web_connector.hpp`, an
  interface without code; `db_connector.hpp`, which is empty.
- Zero, negative and fractional volumes and prices: the server does not check
  them, `Client.cpp` sends whole positive ones, `OrdersAssumption` says so.
- What a use of freed memory does beyond the three outcomes of `Sessions`
  (nothing, a heap error that ends the process, an effect on the `Session` that
  now has the address). Undefined behaviour may do anything else.
- Honest clients over a network that splits a request: `Client.cpp` connects to
  127.0.0.1, and the requests are shorter than one segment there.
- A broker that loses messages it has acknowledged.
- `order_status`: it is written to a parsed copy of the order and read nowhere.
- The copies of the levels as objects of their own: they share the orders with
  the book, so a volume is changed in the book itself (`SetVolume`).
- What some hazards come to is modelled and no property forbids it, since the
  code does it and no line of the repository says otherwise: a `Close` leaves
  callbacks to a freed `Session` behind, a read of the full buffer overwrites
  `hash_client_`, one failed accept is the last, an empty map after a restart.
  Their notes in `PROJECT.json` say which properties exempt them.
- `Sessions` and `Exchange` as one module: they share only the call of
  `new_order`, which produces and returns; their product is out of TLC's reach.

## Plan

What is left, in this order:

1. A clock that goes back: a property that relates priority to the order of
   arrival.
2. Volumes that are zero or negative, as the unchecked requests allow.
3. The steps that the other liveness properties rest on, as theorems about
   single steps, like `LoopRunsOut`: that a step of the exchange that loses
   nothing brings each message nearer to the matcher and the status machine.
