------------------------------ MODULE Matcher ------------------------------
(***************************************************************************)
(* The matcher thread of the exchange: server_common::Matcher, which polls *)
(* partition 0 of OrderEvents, keeps the book and, after every message,    *)
(* resolves the orders that cross, announcing executed orders as           *)
(* "Finished" on partition 1.                                              *)
(*                                                                         *)
(* One action per return path of poll() and one per branch of the loop of  *)
(* resolve_orders(); ask_level and bid_level are recomputed before every   *)
(* test of the loop and share the book's InfoOrders, so the book itself    *)
(* stands for them.                                                        *)
(***************************************************************************)
EXTENDS OrderBook, Sequences, FiniteSets

CONSTANT MaxMessages    (* bound: messages taken from partition 0 *)

ASSUME MaxMessagesAssumption == MaxMessages \in Nat

VARIABLES
    pc,       (* "poll" | "resolve" | "aborted" (an assert) | "crashed"    *)
    book,     (* the inherited OrderBook                                   *)
    offset,   (* cons_: messages consumed from partition 0                 *)
    events    (* payloads produced as "Finished" on partition 1            *)

vars == <<pc, book, offset, events>>

Init ==
    /\ pc = "poll"
    /\ book = EmptyBook
    /\ offset = 0
    /\ events = <<>>

-----------------------------------------------------------------------------
(* poll() *)

(* No message, or a message that carries an error: poll returns at once. *)
PollNothing ==
    /\ pc = "poll"
    /\ UNCHANGED vars

Receive ==
    /\ pc = "poll"
    /\ offset < MaxMessages
    /\ offset' = offset + 1

(* Mutant of PollAdd: poll returns without resolve_orders(). *)
PollAddOnly(order) ==
    /\ Receive
    /\ book' = Add(book, InfoOrder(order))
    /\ UNCHANGED <<pc, events>>

PollAdd(order) ==
    /\ Receive
    /\ book' = Add(book, InfoOrder(order))
    /\ pc' = "resolve"
    /\ UNCHANGED events

PollRemove(order) ==
    /\ Receive
    /\ book' = Remove(book, InfoOrder(order))
    /\ pc' = IF HasLevel(book, InfoOrder(order)) THEN "resolve" ELSE "aborted"
    /\ UNCHANGED events

PollOtherKey ==
    /\ Receive
    /\ pc' = "resolve"
    /\ UNCHANGED <<book, events>>

-----------------------------------------------------------------------------
(* resolve_orders() *)

(* The test of the loop. *)
Crossing ==
    /\ HasBestLevel(book["Ask"])
    /\ HasBestLevel(book["Bid"])
    /\ LevelPrice(Begin(book["Ask"])) <= LevelPrice(Begin(book["Bid"]))

(* The asserts of remove_ at the end of a branch. *)
Continue(checks) == pc' = IF checks THEN "resolve" ELSE "aborted"

(* Mutants of AskExhausted: the difference of the volumes the wrong way    *)
(* round; the bid announced instead of the ask; the ask left on the book.  *)
AskExhaustedNegative ==
    LET ask == BestAsk(book)
        bid == BestBid(book)
    IN  /\ pc = "resolve" /\ Crossing
        /\ ask.volume < bid.volume
        /\ events' = Append(events, ask.full_order)
        /\ book' = Remove(SetVolume(book, bid, ask.volume - bid.volume), ask)
        /\ Continue(HasLevel(book, ask))
        /\ UNCHANGED offset

AskExhaustedBidAnnounced ==
    LET ask == BestAsk(book)
        bid == BestBid(book)
    IN  /\ pc = "resolve" /\ Crossing
        /\ ask.volume < bid.volume
        /\ events' = Append(events, bid.full_order)
        /\ book' = Remove(SetVolume(book, bid, bid.volume - ask.volume), ask)
        /\ Continue(HasLevel(book, ask))
        /\ UNCHANGED offset

AskExhaustedKept ==
    LET ask == BestAsk(book)
        bid == BestBid(book)
    IN  /\ pc = "resolve" /\ Crossing
        /\ ask.volume < bid.volume
        /\ events' = Append(events, ask.full_order)
        /\ book' = SetVolume(book, bid, bid.volume - ask.volume)
        /\ UNCHANGED <<pc, offset>>

AskExhausted ==
    LET ask == BestAsk(book)
        bid == BestBid(book)
    IN  /\ pc = "resolve" /\ Crossing
        /\ ask.volume < bid.volume
        /\ events' = Append(events, ask.full_order)
        /\ book' = Remove(SetVolume(book, bid, bid.volume - ask.volume), ask)
        /\ Continue(HasLevel(book, ask))
        /\ UNCHANGED offset

(* Mutant of BidExhausted: the volume of the bid stays in the ask. *)
BidExhaustedForFree ==
    LET ask == BestAsk(book)
        bid == BestBid(book)
    IN  /\ pc = "resolve" /\ Crossing
        /\ ask.volume > bid.volume
        /\ events' = Append(events, ask.full_order)
        /\ book' = Remove(book, bid)
        /\ Continue(HasLevel(book, bid))
        /\ UNCHANGED offset

(* data_bid is filled from best_ask_order: the ask is announced. *)
BidExhausted ==
    LET ask == BestAsk(book)
        bid == BestBid(book)
    IN  /\ pc = "resolve" /\ Crossing
        /\ ask.volume > bid.volume
        /\ events' = Append(events, ask.full_order)
        /\ book' = Remove(SetVolume(book, ask, ask.volume - bid.volume), bid)
        /\ Continue(HasLevel(book, bid))
        /\ UNCHANGED offset

(* Mutants of BothExhausted: one announcement for two orders; the second   *)
(* remove is called with the ask again.                                    *)
BothExhaustedOneEvent ==
    LET ask == BestAsk(book)
        bid == BestBid(book)
    IN  /\ pc = "resolve" /\ Crossing
        /\ ask.volume = bid.volume
        /\ events' = Append(events, ask.full_order)
        /\ book' = Remove(Remove(book, ask), bid)
        /\ Continue(HasLevel(book, ask) /\ HasLevel(Remove(book, ask), bid))
        /\ UNCHANGED offset

BothExhaustedSameTwice ==
    LET ask == BestAsk(book)
        bid == BestBid(book)
    IN  /\ pc = "resolve" /\ Crossing
        /\ ask.volume = bid.volume
        /\ events' = events \o <<ask.full_order, ask.full_order>>
        /\ book' = Remove(Remove(book, ask), ask)
        /\ Continue(HasLevel(book, ask) /\ HasLevel(Remove(book, ask), ask))
        /\ UNCHANGED offset

(* Here too data_bid is filled from best_ask_order. *)
BothExhausted ==
    LET ask == BestAsk(book)
        bid == BestBid(book)
    IN  /\ pc = "resolve" /\ Crossing
        /\ ask.volume = bid.volume
        /\ events' = events \o <<ask.full_order, ask.full_order>>
        /\ book' = Remove(Remove(book, ask), bid)
        /\ Continue(HasLevel(book, ask) /\ HasLevel(Remove(book, ask), bid))
        /\ UNCHANGED offset

(* Mutants of ResolveDone: the loop is left although the prices are equal; *)
(* a missing level is waited for (no return at matcher.cpp:15).            *)
ResolveDoneTooEarly ==
    /\ pc = "resolve"
    /\ Crossing => LevelPrice(Begin(book["Ask"])) = LevelPrice(Begin(book["Bid"]))
    /\ pc' = "poll"
    /\ UNCHANGED <<book, offset, events>>

ResolveDoneWaiting ==
    /\ pc = "resolve"
    /\ HasBestLevel(book["Ask"]) /\ HasBestLevel(book["Bid"])
    /\ ~ Crossing
    /\ pc' = "poll"
    /\ UNCHANGED <<book, offset, events>>

(* The loop is left.  When getLevel(Bid) read past the end of an empty     *)
(* map it came back without a level, or with an empty one, whose           *)
(* getPrice() is nullopt: either way the test fails.                       *)
ResolveDone ==
    /\ pc = "resolve"
    /\ ~ Crossing
    /\ pc' = "poll"
    /\ UNCHANGED <<book, offset, events>>

(* The other outcome of that read: the bytes behind the map are no level   *)
(* that can be copied.                                                     *)
EndReadCrash ==
    /\ pc = "resolve"
    /\ ReadsEnd(book)
    /\ pc' = "crashed"
    /\ UNCHANGED <<book, offset, events>>

Resolve ==
    \/ AskExhausted
    \/ BidExhausted
    \/ BothExhausted
    \/ ResolveDone
    \/ EndReadCrash

Next ==
    \/ PollNothing
    \/ \E order \in Orders : PollAdd(order) \/ PollRemove(order)
    \/ PollOtherKey
    \/ Resolve

(* The loop calls nothing that waits, so the thread that runs it gets on. *)
Spec == Init /\ [][Next]_vars /\ WF_vars(Resolve)

-----------------------------------------------------------------------------
(* Properties *)

(* Types of the matcher's members and of its thread's place in the code. *)
TypeOK ==
    /\ pc \in {"poll", "resolve", "aborted", "crashed"}
    /\ IsBook(book)
    /\ offset \in 0 .. MaxMessages
    /\ events \in Seq(Orders)

(* getLevel, getBest and remove_ all presume that the book is in order     *)
(* (orderbook.cpp:52, 82, 149): it is, also between two turns of the loop. *)
BookWellFormed == WellFormed(book)

(* When poll() returns (matcher.cpp:98), every ask is dearer than one and  *)
(* the same bid: the loop is never left while the two levels it looks at   *)
(* cross, whatever messages came in which order.                           *)
Quiet ==
    (pc = "poll" /\ DOMAIN book["Ask"] # {} /\ DOMAIN book["Bid"] # {}) =>
        \E bid \in DOMAIN book["Bid"] : \A ask \in DOMAIN book["Ask"] : bid < ask

(* The asserts at matcher.cpp:30 and orderbook.cpp:99, 108 never fail in   *)
(* resolve_orders(); only a "Remove" message can make one fail.            *)
ResolveNeverAborts == [][pc = "resolve" => pc' # "aborted"]_vars

(* Each turn of the loop announces as many orders as it executes in full   *)
(* (matcher.cpp:36, 42, 47-50), though not the right ones.                 *)
OneEventPerExecutedOrder ==
    [][pc = "resolve" =>
          Len(events') - Len(events) =
              Cardinality(Resting(book)) - Cardinality(Resting(book'))]_vars

(* As long as the loop goes on, each turn leaves fewer orders at rest than *)
(* it found, partly filled ones included: poll() is never kept for more    *)
(* turns than there are orders (matcher.cpp:26-53).                        *)
TurnsRunOut ==
    [][pc = "resolve" /\ pc' = "resolve" =>
          Cardinality(Resting(book')) < Cardinality(Resting(book))]_vars

(* An ask that resolve_orders() takes off the book is announced in the     *)
(* same turn (matcher.cpp:34-37, 45-51), and no order is announced that    *)
(* did not trade in that turn.                                             *)
AsksAreAnnounced ==
    [][pc = "resolve" =>
          LET fullOrders(infos) == {info.full_order : info \in infos}
              traded == Resting(book) \ Resting(book')
              asks == {info \in traded : SideOf(info) = "Ask"}
              announced == {events'[i] : i \in Len(events) + 1 .. Len(events')}
          IN  /\ fullOrders(asks) \ fullOrders(Resting(book')) \subseteq announced
              /\ announced \subseteq fullOrders(traded)]_vars

(* is_empty(), getPrice() and the orders at rest tell the same             *)
(* (orderbook.cpp:113-147): a price is quoted exactly while somebody       *)
(* rests, it is the only best price there is, or it lies between the two,  *)
(* unless their sum overflows.                                             *)
ViewsAgree ==
    LET bests == {LevelPrice(Begin(book[t])) : t \in {u \in OrderType : HasBestLevel(book[u])}}
    IN  /\ IsEmpty(book) <=> Resting(book) = {}
        /\ IsEmpty(book) <=> BookPrice(book) = {}
        /\ \A price \in BookPrice(book), a, b \in bests :
              (a <= b /\ bests = {a, b} /\ Wrap(a + b) = a + b) => price \in a .. b

TakesEarliest(level, n) ==
    LET rest == LevelRemoveFirst(level, n)
        gone == DOMAIN level \ DOMAIN rest
    IN  /\ Range(rest) \subseteq Range(level)
        /\ Cardinality(gone) = IF n \in 0 .. LevelSize(level) THEN n ELSE LevelSize(level)
        /\ \A i \in gone, j \in DOMAIN rest : i < j

(* remove(n) takes the n earliest orders off a level, whatever the others  *)
(* are, and all of them when there are no more, or when n is negative      *)
(* (orderbook.cpp:20-30).                                                  *)
RemovesEarliest ==
    \A t \in OrderType : \A level \in Range(book[t]) :
        \A n \in -1 .. LevelSize(level) + 1 : TakesEarliest(level, n)

(* resolve_orders() always comes to an end, and gives the thread back to   *)
(* poll() unless the process dies (matcher.cpp:26-57).                     *)
ResolveEnds == pc = "resolve" ~> pc # "resolve"

Active ==
    {[order |-> info.full_order, remaining |-> info.volume] : info \in Resting(book)}

Abstract == INSTANCE Matching WITH active <- Active

(* The matcher implements Matching: crossing prices, price-time priority   *)
(* among asks, time priority among bids of a price, equal volumes on both  *)
(* sides, and orders that stay until their volume is used up.              *)
ImplementsMatching == Abstract!Spec

-----------------------------------------------------------------------------
(* What the repository's description says and the code does not do.  *)

(* "If the buy price and the sell price of several clients cross, deals    *)
(* must be made between them" (description.md:19): no bid and ask that     *)
(* cross are left when poll() returns.                                     *)
NothingLeftCrossed ==
    pc = "poll" =>
        \A ask \in DOMAIN book["Ask"], bid \in DOMAIN book["Bid"] : bid < ask

(* "Priority goes to the orders with the highest price among the buy       *)
(* orders" (description.md:38): a bid never trades while a higher one      *)
(* rests.                                                                  *)
HighestBidFirst ==
    [][pc = "resolve" =>
          \A info \in Resting(book) \ Resting(book') :
              SideOf(info) = "Bid" =>
                  \A p \in DOMAIN book["Bid"] : p <= info.price]_vars

(* "An order is active as long as it has active volume"                    *)
(* (description.md:36): an order is not on the book any more when it is    *)
(* announced as Finished.                                                  *)
FinishedMeansExecuted ==
    [][\A i \in Len(events) + 1 .. Len(events') :
          \A info \in Resting(book') : info.full_order # events'[i]]_vars

(* The same sentence: the arrival of an order takes no other off the book  *)
(* (orderbook.cpp:13; "fix situations with same ts_ex", tests/server/      *)
(* main.cpp:11).                                                           *)
ArrivalDisplacesNobody ==
    [][(\E order \in Orders : PollAdd(order)) =>
          Resting(book) \subseteq Resting(book')]_vars
=============================================================================
