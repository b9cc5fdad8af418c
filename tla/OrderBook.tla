----------------------------- MODULE OrderBook -----------------------------
(***************************************************************************)
(* The data structure of common/orderbook.hpp and common/src/orderbook.cpp *)
(* as operators on values.                                                 *)
(*                                                                         *)
(* std::map is a function on a finite set of integer keys; begin() is its  *)
(* least key.  A level (OrderBookLevel) maps timestamp_exchange to a       *)
(* resting InfoOrder; a side (std::map<int, OrderBookLevel>) maps a price  *)
(* to a level; a book has an "Ask" side and a "Bid" side.                  *)
(*                                                                         *)
(* Volumes are double in the code and whole units here; the JSON fields    *)
(* the book never reads (instrument, exchange_type, timestamp_user,        *)
(* order_status, is_limit) are left out.                                   *)
(***************************************************************************)
EXTENDS Integers, FiniteSets, Functions

CONSTANTS
    Orders,         (* the orders (struct Order) that can reach the book   *)
    PriceMin,       (* least value of the type of Order::price             *)
    TimestampMin    (* least value of the type of timestamp_exchange       *)

OrderType == {"Ask", "Bid"}

(***************************************************************************)
(* price and timestamp_exchange are machine integers, so they are bounded  *)
(* below.  Volumes are positive: Client.cpp only ever sends 10, and the    *)
(* server's own check is still to be written (server_connector.cpp:21).    *)
(***************************************************************************)
ASSUME OrdersAssumption ==
    /\ PriceMin \in Int
    /\ TimestampMin \in Int
    /\ \A o \in Orders :
          /\ o.order_type \in OrderType
          /\ o.price \in Int /\ PriceMin <= o.price
          /\ o.timestamp_exchange \in Int /\ TimestampMin <= o.timestamp_exchange
          /\ o.volume \in Nat \ {0}

-----------------------------------------------------------------------------
(* std::map *)

EmptyMap == [k \in {} |-> k]

Put(map, key, value) ==
    [k \in DOMAIN map \cup {key} |-> IF k = key THEN value ELSE map[k]]

Drop(map, key) == Restrict(map, DOMAIN map \ {key})

First(map) == CHOOSE k \in DOMAIN map : \A j \in DOMAIN map : k <= j

Begin(map) == map[First(map)]

-----------------------------------------------------------------------------
(* InfoOrder and OrderBookLevel *)

InfoOrder(order) ==
    [volume |-> order.volume, price |-> order.price, full_order |-> order]

LevelAdd(level, info) == Put(level, info.full_order.timestamp_exchange, info)

LevelRemove(level, info) == Drop(level, info.full_order.timestamp_exchange)

(* Mutant of GetBest: the last order of the level instead of the first. *)
GetLatest(level) ==
    level[CHOOSE k \in DOMAIN level : \A j \in DOMAIN level : j <= k]

GetBest(level) == Begin(level)

LevelPrice(level) == GetBest(level).price

-----------------------------------------------------------------------------
(* OrderBook *)

EmptyBook == [t \in OrderType |-> EmptyMap]

SideOf(info) == info.full_order.order_type

(* add_: the level of the price is made if it is missing; an order with    *)
(* the same price and timestamp is overwritten.                            *)
SideAdd(side, info) ==
    LET level == IF info.price \in DOMAIN side THEN side[info.price] ELSE EmptyMap
    IN  Put(side, info.price, LevelAdd(level, info))

Add(book, info) == [book EXCEPT ![SideOf(info)] = SideAdd(@, info)]

(* What the assert of remove_ requires: the price has a level.  The order  *)
(* itself may be missing from it.                                          *)
HasLevel(book, info) == info.price \in DOMAIN book[SideOf(info)]

(* Mutant of SideRemove: an emptied level stays in the side. *)
SideRemoveKeepingLevel(side, info) ==
    Put(side, info.price, LevelRemove(side[info.price], info))

(* remove_: a level that becomes empty leaves the side. *)
SideRemove(side, info) ==
    LET rest == LevelRemove(side[info.price], info)
    IN  IF DOMAIN rest = {} THEN Drop(side, info.price) ELSE Put(side, info.price, rest)

Remove(book, info) ==
    IF HasLevel(book, info)
    THEN [book EXCEPT ![SideOf(info)] = SideRemove(@, info)]
    ELSE book

(* A write to info.volume through the pointer that getBest returned. *)
SetVolume(book, info, volume) ==
    LET level == book[SideOf(info)][info.price]
        resting == Put(level, info.full_order.timestamp_exchange,
                       [info EXCEPT !.volume = volume])
    IN  [book EXCEPT ![SideOf(info)] = Put(@, info.price, resting)]

(* getLevel(t).has_value(), where begin() is not end(). *)
HasBestLevel(side) == DOMAIN side # {} /\ DOMAIN Begin(side) # {}

(* getLevel(Bid) tests ask.begin() where bid.begin() is meant: with asks   *)
(* and no bids it reads bid.end()->second.                                 *)
ReadsEnd(book) == DOMAIN book["Ask"] # {} /\ DOMAIN book["Bid"] = {}

BestAsk(book) == GetBest(Begin(book["Ask"]))
BestBid(book) == GetBest(Begin(book["Bid"]))

-----------------------------------------------------------------------------
(* Operations that only the tests call *)

LevelSize(level) == Cardinality(DOMAIN level)

LevelModify(level, timestamp, info) == Put(level, timestamp, info)

LevelClear == EmptyMap

(* Mutant of LevelRemoveFirst: the size is compared as an int.             *)
LevelRemoveFirstSigned(level, n) ==
    LET after[i \in Nat] == IF i = 0 THEN level ELSE Drop(after[i - 1], First(after[i - 1]))
    IN  IF LevelSize(level) <= n THEN LevelClear ELSE after[IF n < 0 THEN 0 ELSE n]

(* remove(int n): size() is unsigned, so a negative n is more than any.    *)
LevelRemoveFirst(level, n) ==
    LET after[i \in Nat] == IF i = 0 THEN level ELSE Drop(after[i - 1], First(after[i - 1]))
    IN  IF n < 0 \/ LevelSize(level) <= n THEN LevelClear ELSE after[n]

(* is_empty(): the sizes of all levels add up to 0. *)
IsEmpty(book) == \A t \in OrderType : \A p \in DOMAIN book[t] : LevelSize(book[t][p]) = 0

(* A sum of two prices wraps around: int has -2 * PriceMin values.         *)
Wrap(n) == PriceMin + ((n - PriceMin) % (-2 * PriceMin))

(* Division by 2 rounds towards 0. *)
Half(n) == IF n >= 0 THEN n \div 2 ELSE - ((- n) \div 2)

(* Mutant of BookPrice: ask + bid / 2. *)
BookPriceUnbracketed(book) ==
    LET asks == DOMAIN book["Ask"]
        bids == DOMAIN book["Bid"]
        ask  == LevelPrice(Begin(book["Ask"]))
        bid  == LevelPrice(Begin(book["Bid"]))
    IN  CASE asks = {} /\ bids = {} -> {}
          [] asks = {} /\ bids # {} -> {bid}
          [] asks # {} /\ bids = {} -> {ask}
          [] OTHER                  -> {Wrap(ask + Half(bid))}

(* getPrice(), as the set of the values returned: none for nullopt. *)
BookPrice(book) ==
    LET asks == DOMAIN book["Ask"]
        bids == DOMAIN book["Bid"]
        ask  == LevelPrice(Begin(book["Ask"]))
        bid  == LevelPrice(Begin(book["Bid"]))
    IN  CASE asks = {} /\ bids = {} -> {}
          [] asks = {} /\ bids # {} -> {bid}
          [] asks # {} /\ bids = {} -> {ask}
          [] OTHER                  -> {Half(Wrap(ask + bid))}

-----------------------------------------------------------------------------
(* The orders at rest in a book, and what every book must satisfy. *)

Resting(book) ==
    UNION {Range(level) : level \in UNION {Range(book[t]) : t \in OrderType}}

RestingOn(book, t) == {info \in Resting(book) : SideOf(info) = t}

VolumeOf(infos) == SumFunction([info \in infos |-> info.volume])

(* The volume of one side in some places of a log of orders. *)
VolumeIn(log, places, t) ==
    SumFunction([i \in {j \in places : log[j].order_type = t} |-> log[i].volume])

Prices == {o.price : o \in Orders}
Timestamps == {o.timestamp_exchange : o \in Orders}

InfoOrders == [volume : Nat, price : Prices, full_order : Orders]

IsMap(map, K) == map = [k \in DOMAIN map |-> map[k]] /\ DOMAIN map \subseteq K

IsBook(book) ==
    /\ IsMap(book, OrderType) /\ DOMAIN book = OrderType
    /\ \A t \in OrderType :
          /\ IsMap(book[t], Prices)
          /\ \A p \in DOMAIN book[t] :
                /\ IsMap(book[t][p], Timestamps)
                /\ \A ts \in DOMAIN book[t][p] : book[t][p][ts] \in InfoOrders

(* Every order at rest is filed under its own side, price and timestamp,   *)
(* has volume left, at most the volume it came with, and no side keeps an  *)
(* empty level: what getLevel and resolve_orders rely on.                  *)
WellFormed(book) ==
    \A t \in OrderType : \A p \in DOMAIN book[t] :
        /\ DOMAIN book[t][p] # {}
        /\ \A ts \in DOMAIN book[t][p] :
              LET info == book[t][p][ts]
              IN  /\ info.full_order.order_type = t
                  /\ info.price = p
                  /\ info.full_order.price = p
                  /\ info.full_order.timestamp_exchange = ts
                  /\ info.volume \in 1 .. info.full_order.volume
=============================================================================
