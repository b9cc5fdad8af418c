--------------------------- MODULE MatcherProofs ---------------------------
(***************************************************************************)
(* What holds of the matcher for every set of orders and every number of   *)
(* messages.                                                               *)
(*                                                                         *)
(* The inductive invariant is Inv: the types, and a book in order.  It     *)
(* gives every turn of the loop an ask and a bid that are really at rest   *)
(* and come first on their sides, which is what the other theorems use.    *)
(***************************************************************************)
EXTENDS Matcher, DataProofs, FiniteSetTheorems

(* begin() of a map whose keys are integers bounded below. *)
LEMMA FirstIsLeast ==
    ASSUME NEW low \in Int, NEW map, DOMAIN map \subseteq Int, DOMAIN map # {},
           \A k \in DOMAIN map : low <= k
    PROVE  /\ First(map) \in DOMAIN map
           /\ \A k \in DOMAIN map : First(map) <= k
BY LeastElement DEF First

LEMMA FirstPrice ==
    ASSUME NEW side, IsMap(side, Prices), DOMAIN side # {}
    PROVE  /\ First(side) \in DOMAIN side
           /\ \A p \in DOMAIN side : First(side) <= p
<1>1. \A p \in Prices : p \in Int /\ PriceMin <= p
  BY OrdersAssumption DEF Prices
<1> QED BY <1>1, FirstIsLeast, OrdersAssumption DEF IsMap

LEMMA FirstTimestamp ==
    ASSUME NEW level, IsMap(level, Timestamps), DOMAIN level # {}
    PROVE  /\ First(level) \in DOMAIN level
           /\ \A ts \in DOMAIN level : First(level) <= ts
<1>1. \A ts \in Timestamps : ts \in Int /\ TimestampMin <= ts
  BY OrdersAssumption DEF Timestamps
<1> QED BY <1>1, FirstIsLeast, OrdersAssumption DEF IsMap

-----------------------------------------------------------------------------
(* IsBook and WellFormed together, one level of the structure at a time. *)

Filed(info, t, p, ts) ==
    /\ info \in InfoOrders
    /\ info.full_order.order_type = t
    /\ info.price = p
    /\ info.full_order.price = p
    /\ info.full_order.timestamp_exchange = ts
    /\ info.volume \in 1 .. info.full_order.volume

ValidLevel(level, t, p) ==
    IsMap(level, Timestamps) /\ \A ts \in DOMAIN level : Filed(level[ts], t, p, ts)

ValidSide(side, t) ==
    /\ IsMap(side, Prices)
    /\ \A p \in DOMAIN side : ValidLevel(side[p], t, p) /\ DOMAIN side[p] # {}

ValidBook(b) ==
    /\ IsMap(b, OrderType) /\ DOMAIN b = OrderType
    /\ \A t \in OrderType : ValidSide(b[t], t)

LEMMA ValidBookIsWellFormed ==
    ASSUME NEW b
    PROVE  ValidBook(b) <=> IsBook(b) /\ WellFormed(b)
<1>1. ASSUME ValidBook(b)
      PROVE  IsBook(b) /\ WellFormed(b)
  BY <1>1 DEF ValidBook, ValidSide, ValidLevel, Filed, IsBook, WellFormed
<1>2. ASSUME IsBook(b), WellFormed(b)
      PROVE  ValidBook(b)
  BY <1>2 DEF ValidBook, ValidSide, ValidLevel, Filed, IsBook, WellFormed
<1> QED BY <1>1, <1>2

LEMMA PutMap ==
    ASSUME NEW K, NEW map, IsMap(map, K), NEW key \in K, NEW value
    PROVE  /\ IsMap(Put(map, key, value), K)
           /\ DOMAIN Put(map, key, value) = DOMAIN map \cup {key}
           /\ Put(map, key, value)[key] = value
           /\ \A k \in DOMAIN map : k # key => Put(map, key, value)[k] = map[k]
BY DEF IsMap, Put

LEMMA DropMap ==
    ASSUME NEW K, NEW map, IsMap(map, K), NEW key
    PROVE  /\ IsMap(Drop(map, key), K)
           /\ DOMAIN Drop(map, key) = DOMAIN map \ {key}
           /\ \A k \in DOMAIN map : k # key => Drop(map, key)[k] = map[k]
BY DEF IsMap, Drop, Restrict

LEMMA EmptyLevelIsValid ==
    ASSUME NEW t, NEW p
    PROVE  ValidLevel(EmptyMap, t, p) /\ DOMAIN EmptyMap = {}
BY DEF ValidLevel, EmptyMap, IsMap

LEMMA PutInLevel ==
    ASSUME NEW t, NEW p, NEW level, ValidLevel(level, t, p),
           NEW ts \in Timestamps, NEW info, Filed(info, t, p, ts)
    PROVE  ValidLevel(Put(level, ts, info), t, p)
<1> DEFINE new == Put(level, ts, info)
<1>1. /\ IsMap(new, Timestamps)
      /\ DOMAIN new = DOMAIN level \cup {ts}
      /\ new[ts] = info
      /\ \A k \in DOMAIN level : k # ts => new[k] = level[k]
  <2>1. IsMap(level, Timestamps)
    BY DEF ValidLevel
  <2> QED BY <2>1, PutMap
<1> HIDE DEF new
<1>2. \A k \in DOMAIN new : Filed(new[k], t, p, k)
  BY <1>1 DEF ValidLevel
<1> QED BY <1>1, <1>2 DEF ValidLevel, new

LEMMA DropFromLevel ==
    ASSUME NEW t, NEW p, NEW level, ValidLevel(level, t, p), NEW ts
    PROVE  ValidLevel(Drop(level, ts), t, p)
<1> DEFINE new == Drop(level, ts)
<1>1. /\ IsMap(new, Timestamps)
      /\ DOMAIN new = DOMAIN level \ {ts}
      /\ \A k \in DOMAIN level : k # ts => new[k] = level[k]
  BY DropMap DEF ValidLevel
<1> HIDE DEF new
<1>2. \A k \in DOMAIN new : Filed(new[k], t, p, k)
  BY <1>1 DEF ValidLevel
<1> QED BY <1>1, <1>2 DEF ValidLevel, new

LEMMA PutInSide ==
    ASSUME NEW t, NEW side, ValidSide(side, t), NEW p \in Prices,
           NEW level, ValidLevel(level, t, p), DOMAIN level # {}
    PROVE  ValidSide(Put(side, p, level), t)
<1> DEFINE new == Put(side, p, level)
<1>1. /\ IsMap(new, Prices)
      /\ DOMAIN new = DOMAIN side \cup {p}
      /\ new[p] = level
      /\ \A k \in DOMAIN side : k # p => new[k] = side[k]
  BY PutMap DEF ValidSide
<1> HIDE DEF new
<1>2. \A k \in DOMAIN new : ValidLevel(new[k], t, k) /\ DOMAIN new[k] # {}
  BY <1>1 DEF ValidSide
<1> QED BY <1>1, <1>2 DEF ValidSide, new

LEMMA DropFromSide ==
    ASSUME NEW t, NEW side, ValidSide(side, t), NEW p
    PROVE  ValidSide(Drop(side, p), t)
<1> DEFINE new == Drop(side, p)
<1>1. /\ IsMap(new, Prices)
      /\ DOMAIN new = DOMAIN side \ {p}
      /\ \A k \in DOMAIN side : k # p => new[k] = side[k]
  BY DropMap DEF ValidSide
<1> HIDE DEF new
<1>2. \A k \in DOMAIN new : ValidLevel(new[k], t, k) /\ DOMAIN new[k] # {}
  BY <1>1 DEF ValidSide
<1> QED BY <1>1, <1>2 DEF ValidSide, new

LEMMA ReplaceSide ==
    ASSUME NEW b, ValidBook(b), NEW t \in OrderType,
           NEW side, ValidSide(side, t)
    PROVE  /\ ValidBook([b EXCEPT ![t] = side])
           /\ [b EXCEPT ![t] = side][t] = side
           /\ \A s \in OrderType : s # t => [b EXCEPT ![t] = side][s] = b[s]
BY DEF ValidBook, IsMap

-----------------------------------------------------------------------------
(* The orders at rest, each at the one place it is filed under. *)

At(info, t, p, ts) ==
    /\ info.full_order.order_type = t
    /\ info.price = p
    /\ info.full_order.timestamp_exchange = ts

LEMMA RestingHasPlace ==
    ASSUME NEW b, ValidBook(b)
    PROVE  \A info :
             info \in Resting(b) <=>
               \E t \in OrderType : \E p \in DOMAIN b[t] :
                 \E ts \in DOMAIN b[t][p] : info = b[t][p][ts]
<1>1. ASSUME NEW info, info \in Resting(b)
      PROVE  \E t \in OrderType : \E p \in DOMAIN b[t] :
               \E ts \in DOMAIN b[t][p] : info = b[t][p][ts]
  <2>1. PICK level \in UNION {Range(b[t]) : t \in OrderType} : info \in Range(level)
    BY <1>1 DEF Resting
  <2>2. PICK t \in OrderType : level \in Range(b[t])
    BY <2>1
  <2>3. PICK p \in DOMAIN b[t] : level = b[t][p]
    BY <2>2 DEF Range
  <2> QED BY <2>1, <2>2, <2>3 DEF Range
<1>2. ASSUME NEW t \in OrderType, NEW p \in DOMAIN b[t], NEW ts \in DOMAIN b[t][p]
      PROVE  b[t][p][ts] \in Resting(b)
  <2>1. b[t][p] \in Range(b[t]) /\ b[t][p][ts] \in Range(b[t][p])
    BY DEF Range
  <2> QED BY <2>1 DEF Resting
<1> QED BY <1>1, <1>2

LEMMA PlaceOfResting ==
    ASSUME NEW b, ValidBook(b), NEW info \in Resting(b),
           NEW t, NEW p, NEW ts, At(info, t, p, ts)
    PROVE  /\ t \in OrderType /\ p \in Prices /\ ts \in Timestamps
           /\ p \in DOMAIN b[t] /\ ts \in DOMAIN b[t][p]
           /\ info = b[t][p][ts]
           /\ Filed(info, t, p, ts)
<1>1. PICK t1 \in OrderType : \E p1 \in DOMAIN b[t1] :
               \E ts1 \in DOMAIN b[t1][p1] : info = b[t1][p1][ts1]
  BY RestingHasPlace
<1>2. PICK p1 \in DOMAIN b[t1] : \E ts1 \in DOMAIN b[t1][p1] : info = b[t1][p1][ts1]
  BY <1>1
<1>3. PICK ts1 \in DOMAIN b[t1][p1] : info = b[t1][p1][ts1]
  BY <1>2
<1>4. /\ Filed(info, t1, p1, ts1)
      /\ p1 \in Prices /\ ts1 \in Timestamps
  BY <1>3 DEF ValidBook, ValidSide, ValidLevel, IsMap
<1>5. t1 = t /\ p1 = p /\ ts1 = ts
  BY <1>4 DEF Filed, At
<1> QED BY <1>3, <1>4, <1>5

(* Two orders at rest at one place are one order. *)
LEMMA OneOrderPerPlace ==
    ASSUME NEW b, ValidBook(b),
           NEW i \in Resting(b), NEW j \in Resting(b),
           NEW t, NEW p, NEW ts, At(i, t, p, ts), At(j, t, p, ts)
    PROVE  i = j
BY PlaceOfResting

-----------------------------------------------------------------------------
(* Filing an order, what add_ and a change of volume do. *)

LevelAt(side, p) == IF p \in DOMAIN side THEN side[p] ELSE EmptyMap

File(b, t, p, ts, info) ==
    [b EXCEPT ![t] = Put(b[t], p, Put(LevelAt(b[t], p), ts, info))]

LEMMA LevelAtIsValid ==
    ASSUME NEW b, ValidBook(b), NEW t \in OrderType, NEW p
    PROVE  ValidLevel(LevelAt(b[t], p), t, p)
BY EmptyLevelIsValid DEF LevelAt, ValidBook, ValidSide

LEMMA FileIsValid ==
    ASSUME NEW b, ValidBook(b), NEW t \in OrderType, NEW p \in Prices,
           NEW ts \in Timestamps, NEW info, Filed(info, t, p, ts)
    PROVE  ValidBook(File(b, t, p, ts, info))
<1> DEFINE level == Put(LevelAt(b[t], p), ts, info)
           side == Put(b[t], p, level)
<1>1. ValidLevel(level, t, p) /\ DOMAIN level # {}
  <2>1. DOMAIN level # {}
    BY DEF Put
  <2> QED BY <2>1, LevelAtIsValid, PutInLevel
<1>2. ValidSide(side, t)
  <2> HIDE DEF level
  <2>1. ValidSide(b[t], t)
    BY DEF ValidBook
  <2> QED BY <1>1, <2>1, PutInSide
<1>3. ValidBook([b EXCEPT ![t] = side])
  <2> HIDE DEF side
  <2> QED BY <1>2, ReplaceSide
<1> QED BY <1>3 DEF File

(* After filing, every place but one is as before. *)
LEMMA FilePlaces ==
    ASSUME NEW b, ValidBook(b), NEW t \in OrderType, NEW p \in Prices,
           NEW ts \in Timestamps, NEW info,
           NEW s \in OrderType, NEW q, NEW us
    PROVE  LET new == File(b, t, p, ts, info)
               old == q \in DOMAIN b[s] /\ us \in DOMAIN b[s][q]
               here == s = t /\ q = p /\ us = ts
           IN  /\ (q \in DOMAIN new[s] /\ us \in DOMAIN new[s][q]) <=> (old \/ here)
               /\ here => new[s][q][us] = info
               /\ (old /\ ~ here) => new[s][q][us] = b[s][q][us]
<1> DEFINE new == File(b, t, p, ts, info)
           level == Put(LevelAt(b[t], p), ts, info)
           side == Put(b[t], p, level)
<1>1. /\ new[t] = side
      /\ s # t => new[s] = b[s]
  <2> HIDE DEF side
  <2>1. new = [b EXCEPT ![t] = side]
    BY DEF File, side
  <2>2. t \in DOMAIN b /\ s \in DOMAIN b
    BY DEF ValidBook
  <2> QED BY <2>1, <2>2
<1> HIDE DEF new
<1>2. CASE s # t
  BY <1>1, <1>2 DEF new
<1>3. CASE s = t /\ q # p
  <2>1. /\ q \in DOMAIN side <=> q \in DOMAIN b[t]
        /\ q \in DOMAIN b[t] => side[q] = b[t][q]
    <3> HIDE DEF level
    <3> QED BY <1>3 DEF Put
  <2> HIDE DEF side
  <2> QED BY <1>1, <1>3, <2>1 DEF new
<1>4. CASE s = t /\ q = p
  <2>1. p \in DOMAIN side /\ side[p] = level
    <3> HIDE DEF level
    <3> QED BY DEF Put
  <2>2. /\ us \in DOMAIN level <=> us \in DOMAIN LevelAt(b[t], p) \/ us = ts
        /\ us = ts => level[us] = info
        /\ (us \in DOMAIN LevelAt(b[t], p) /\ us # ts)
             => level[us] = LevelAt(b[t], p)[us]
    BY DEF Put
  <2>3. us \in DOMAIN LevelAt(b[t], p) <=> p \in DOMAIN b[t] /\ us \in DOMAIN b[t][p]
    BY EmptyLevelIsValid DEF LevelAt
  <2>4. p \in DOMAIN b[t] => LevelAt(b[t], p) = b[t][p]
    BY DEF LevelAt
  <2> HIDE DEF side, level
  <2>5. p \in DOMAIN new[t] /\ new[t][p] = level
    BY <1>1, <2>1
  <2> QED BY <1>4, <2>2, <2>3, <2>4, <2>5 DEF new
<1> QED BY <1>2, <1>3, <1>4

LEMMA FileResting ==
    ASSUME NEW b, ValidBook(b), NEW t \in OrderType, NEW p \in Prices,
           NEW ts \in Timestamps, NEW info, Filed(info, t, p, ts)
    PROVE  Resting(File(b, t, p, ts, info)) =
             {i \in Resting(b) : ~ At(i, t, p, ts)} \cup {info}
<1> DEFINE new == File(b, t, p, ts, info)
<1>0. ValidBook(new)
  BY FileIsValid
<1>1. ASSUME NEW i \in Resting(new)
      PROVE  i = info \/ (i \in Resting(b) /\ ~ At(i, t, p, ts))
  <2> DEFINE s == i.full_order.order_type
             q == i.price
             us == i.full_order.timestamp_exchange
  <2>1. At(i, s, q, us)
    BY DEF At
  <2> HIDE DEF s, q, us, new
  <2>2. /\ s \in OrderType /\ q \in DOMAIN new[s] /\ us \in DOMAIN new[s][q]
        /\ i = new[s][q][us]
    BY <1>0, <2>1, PlaceOfResting
  <2>3. CASE s = t /\ q = p /\ us = ts
    BY <2>2, <2>3, FilePlaces DEF new
  <2>4. CASE ~ (s = t /\ q = p /\ us = ts)
    <3>1. q \in DOMAIN b[s] /\ us \in DOMAIN b[s][q] /\ i = b[s][q][us]
      BY <2>2, <2>4, FilePlaces DEF new
    <3>2. i \in Resting(b)
      BY <2>2, <3>1, RestingHasPlace
    <3> QED BY <2>1, <2>4, <3>2 DEF At
  <2> QED BY <2>3, <2>4
<1>2. ASSUME NEW i \in Resting(b), ~ At(i, t, p, ts)
      PROVE  i \in Resting(new)
  <2> DEFINE s == i.full_order.order_type
             q == i.price
             us == i.full_order.timestamp_exchange
  <2>1. At(i, s, q, us)
    BY DEF At
  <2>2. ~ (s = t /\ q = p /\ us = ts)
    BY <1>2 DEF At
  <2> HIDE DEF s, q, us, new
  <2>3. /\ s \in OrderType /\ q \in DOMAIN b[s] /\ us \in DOMAIN b[s][q]
        /\ i = b[s][q][us]
    BY <2>1, PlaceOfResting
  <2>4. q \in DOMAIN new[s] /\ us \in DOMAIN new[s][q] /\ i = new[s][q][us]
    BY <2>2, <2>3, FilePlaces DEF new
  <2> QED BY <1>0, <2>3, <2>4, RestingHasPlace
<1>3. info \in Resting(new)
  <2>1. p \in DOMAIN new[t] /\ ts \in DOMAIN new[t][p] /\ info = new[t][p][ts]
    BY FilePlaces
  <2> HIDE DEF new
  <2> QED BY <1>0, <2>1, RestingHasPlace
<1> QED BY <1>1, <1>2, <1>3

-----------------------------------------------------------------------------
(* The operations on the book: add_, a change of volume, remove_. *)

(* What an order from a message gets filed under.                          *)
LEMMA InfoOrderIsFiled ==
    ASSUME NEW order \in Orders
    PROVE  /\ Filed(InfoOrder(order), order.order_type, order.price,
                    order.timestamp_exchange)
           /\ order.order_type \in OrderType
           /\ order.price \in Prices
           /\ order.timestamp_exchange \in Timestamps
BY OrdersAssumption DEF Filed, InfoOrder, InfoOrders, Prices, Timestamps

(* add_ puts the order in its place and whoever was there is gone          *)
(* (orderbook.cpp:65, 13).                                                 *)
LEMMA AddOrder ==
    ASSUME NEW b, ValidBook(b), NEW order \in Orders
    PROVE  LET info == InfoOrder(order)
               new == Add(b, info)
           IN  /\ ValidBook(new)
               /\ Resting(new) =
                    {i \in Resting(b) :
                       ~ At(i, order.order_type, order.price, order.timestamp_exchange)}
                    \cup {info}
<1> DEFINE info == InfoOrder(order)
           t == order.order_type
           p == order.price
           ts == order.timestamp_exchange
<1>1. Add(b, info) = File(b, t, p, ts, info)
  BY DEF Add, SideAdd, SideOf, LevelAdd, InfoOrder, File, LevelAt
<1>2. /\ Filed(info, t, p, ts)
      /\ t \in OrderType /\ p \in Prices /\ ts \in Timestamps
  BY InfoOrderIsFiled
<1> HIDE DEF info, t, p, ts
<1>3. ValidBook(File(b, t, p, ts, info))
  BY <1>2, FileIsValid
<1>4. Resting(File(b, t, p, ts, info)) =
        {i \in Resting(b) : ~ At(i, t, p, ts)} \cup {info}
  BY <1>2, FileResting
<1> QED BY <1>1, <1>3, <1>4 DEF info, t, p, ts

(* A write to the volume of an order at rest changes that order only       *)
(* (matcher.cpp:33, 39).                                                   *)
LEMMA SetVolumeOfResting ==
    ASSUME NEW b, ValidBook(b), NEW info \in Resting(b),
           NEW v \in 1 .. info.full_order.volume
    PROVE  LET new == SetVolume(b, info, v)
               reduced == [info EXCEPT !.volume = v]
           IN  /\ ValidBook(new)
               /\ Resting(new) = (Resting(b) \ {info}) \cup {reduced}
<1> DEFINE t == info.full_order.order_type
           p == info.price
           ts == info.full_order.timestamp_exchange
           reduced == [info EXCEPT !.volume = v]
           new == SetVolume(b, info, v)
<1>1. At(info, t, p, ts)
  BY DEF At
<1>2. /\ t \in OrderType /\ p \in Prices /\ ts \in Timestamps
      /\ p \in DOMAIN b[t] /\ Filed(info, t, p, ts)
  <2> HIDE DEF t, p, ts
  <2> QED BY <1>1, PlaceOfResting
<1>3. Filed(reduced, t, p, ts)
  <2>1. /\ info \in InfoOrders
        /\ info.full_order.price = p
    BY <1>2 DEF Filed
  <2>2. v \in Nat
    BY <2>1, OrdersAssumption DEF InfoOrders
  <2>3. /\ reduced \in InfoOrders
        /\ reduced.volume = v
        /\ reduced.price = info.price
        /\ reduced.full_order = info.full_order
    BY <2>1, <2>2 DEF InfoOrders
  <2> HIDE DEF reduced
  <2> QED BY <2>1, <2>3 DEF Filed
<1>4. new = File(b, t, p, ts, reduced)
  BY <1>2 DEF SetVolume, SideOf, File, LevelAt
<1>5. \A i \in Resting(b) : At(i, t, p, ts) <=> i = info
  <2> HIDE DEF t, p, ts
  <2> QED BY <1>1, OneOrderPerPlace
<1>6. /\ ValidBook(File(b, t, p, ts, reduced))
      /\ Resting(File(b, t, p, ts, reduced)) =
           {i \in Resting(b) : ~ At(i, t, p, ts)} \cup {reduced}
  <2> HIDE DEF t, p, ts, reduced
  <2> QED BY <1>2, <1>3, FileIsValid, FileResting
<1>7. {i \in Resting(b) : ~ At(i, t, p, ts)} = Resting(b) \ {info}
  <2> HIDE DEF t, p, ts
  <2> QED BY <1>5
<1> HIDE DEF t, p, ts, reduced, new
<1>8. ValidBook(new) /\ Resting(new) = (Resting(b) \ {info}) \cup {reduced}
  BY <1>4, <1>6, <1>7
<1> QED BY <1>8 DEF new, reduced

(* After remove_ of a place in a level, every other place is as before, and *)
(* a level that the removal emptied is gone (orderbook.cpp:82).            *)
LEMMA SideRemovePlaces ==
    ASSUME NEW t, NEW side, ValidSide(side, t), NEW info,
           info.price \in DOMAIN side
    PROVE  LET new == SideRemove(side, info)
           IN  /\ ValidSide(new, t)
               /\ \A q, us :
                    /\ (q \in DOMAIN new /\ us \in DOMAIN new[q]) <=>
                         /\ q \in DOMAIN side /\ us \in DOMAIN side[q]
                         /\ ~ (q = info.price /\ us = info.full_order.timestamp_exchange)
                    /\ (q \in DOMAIN new /\ us \in DOMAIN new[q])
                         => new[q][us] = side[q][us]
<1> DEFINE p == info.price
           ts == info.full_order.timestamp_exchange
           rest == Drop(side[p], ts)
           new == SideRemove(side, info)
<1>1. ValidLevel(side[p], t, p) /\ p \in Prices
  BY DEF ValidSide, IsMap
<1>2. /\ ValidLevel(rest, t, p)
      /\ DOMAIN rest = DOMAIN side[p] \ {ts}
      /\ \A us \in DOMAIN rest : rest[us] = side[p][us]
  <2>1. IsMap(side[p], Timestamps)
    BY <1>1 DEF ValidLevel
  <2> HIDE DEF p, ts
  <2>2. /\ DOMAIN rest = DOMAIN side[p] \ {ts}
        /\ \A us \in DOMAIN side[p] : us # ts => rest[us] = side[p][us]
    <3> DEFINE level == side[p]
    <3> HIDE DEF level
    <3>1. IsMap(level, Timestamps)
      BY <2>1 DEF level
    <3>2. /\ DOMAIN Drop(level, ts) = DOMAIN level \ {ts}
          /\ \A us \in DOMAIN level : us # ts => Drop(level, ts)[us] = level[us]
      BY <3>1, DropMap
    <3> QED BY <3>2 DEF level
  <2>3. ValidLevel(rest, t, p)
    BY <1>1, DropFromLevel
  <2> QED BY <2>2, <2>3
<1>3. new = IF DOMAIN rest = {} THEN Drop(side, p) ELSE Put(side, p, rest)
  BY DEF SideRemove, LevelRemove
<1> HIDE DEF p, ts, rest, new
<1>4. CASE DOMAIN rest = {}
  <2>1. ValidSide(new, t)
    BY <1>3, <1>4, DropFromSide
  <2>2. /\ DOMAIN new = DOMAIN side \ {p}
        /\ \A k \in DOMAIN side : k # p => new[k] = side[k]
    <3>1. IsMap(side, Prices)
      BY DEF ValidSide
    <3>2. new = Drop(side, p)
      BY <1>3, <1>4
    <3> QED BY <3>1, <3>2, DropMap
  <2>3. \A us : us \in DOMAIN side[p] => us = ts
    BY <1>2, <1>4
  <2> QED BY <2>1, <2>2, <2>3 DEF new, p, ts
<1>5. CASE DOMAIN rest # {}
  <2>1. ValidSide(new, t)
    BY <1>1, <1>2, <1>3, <1>5, PutInSide
  <2>2. /\ DOMAIN new = DOMAIN side \cup {p}
        /\ new[p] = rest
        /\ \A k \in DOMAIN side : k # p => new[k] = side[k]
    <3>1. new = Put(side, p, rest)
      BY <1>3, <1>5
    <3>2. /\ DOMAIN Put(side, p, rest) = DOMAIN side \cup {p}
          /\ Put(side, p, rest)[p] = rest
          /\ \A k \in DOMAIN side : k # p => Put(side, p, rest)[k] = side[k]
      BY DEF Put
    <3> QED BY <3>1, <3>2
  <2>3. p \in DOMAIN side
    BY DEF p
  <2> QED BY <1>2, <2>1, <2>2, <2>3 DEF new, p, ts
<1> QED BY <1>4, <1>5

(* remove_ empties the place of the order, whoever is there, and touches   *)
(* nothing else.                                                           *)
LEMMA RemoveOrder ==
    ASSUME NEW b, ValidBook(b), NEW info, SideOf(info) \in OrderType
    PROVE  LET new == Remove(b, info)
           IN  /\ ValidBook(new)
               /\ Resting(new) =
                    {i \in Resting(b) :
                       ~ At(i, SideOf(info), info.price, info.full_order.timestamp_exchange)}
<1> DEFINE t == SideOf(info)
           p == info.price
           ts == info.full_order.timestamp_exchange
           new == Remove(b, info)
<1>1. CASE ~ HasLevel(b, info)
  <2>1. new = b
    BY <1>1 DEF Remove
  <2>2. ASSUME NEW i \in Resting(b), At(i, t, p, ts)
        PROVE  FALSE
    <3>1. p \in DOMAIN b[t]
      <4> HIDE DEF t, p, ts
      <4> QED BY <2>2, PlaceOfResting
    <3> QED BY <1>1, <3>1 DEF HasLevel
  <2> QED BY <2>1, <2>2
<1>2. CASE HasLevel(b, info)
  <2> DEFINE side == SideRemove(b[t], info)
  <2>1. ValidSide(b[t], t) /\ p \in DOMAIN b[t]
    BY <1>2 DEF ValidBook, HasLevel
  <2>2. /\ ValidSide(side, t)
        /\ \A q, us :
             /\ (q \in DOMAIN side /\ us \in DOMAIN side[q]) <=>
                  /\ q \in DOMAIN b[t] /\ us \in DOMAIN b[t][q]
                  /\ ~ (q = p /\ us = ts)
             /\ (q \in DOMAIN side /\ us \in DOMAIN side[q])
                  => side[q][us] = b[t][q][us]
    <3> HIDE DEF t
    <3> QED BY <2>1, SideRemovePlaces
  <2>3. new = [b EXCEPT ![t] = side]
    BY <1>2 DEF Remove
  <2> HIDE DEF t, p, ts, side, new
  <2>4. t \in OrderType
    BY DEF t
  <2>5. /\ ValidBook(new)
        /\ new[t] = side
        /\ \A s \in OrderType : s # t => new[s] = b[s]
    <3>1. ValidSide(side, t)
      BY <2>2
    <3>2. /\ ValidBook([b EXCEPT ![t] = side])
          /\ [b EXCEPT ![t] = side][t] = side
          /\ \A s \in OrderType : s # t => [b EXCEPT ![t] = side][s] = b[s]
      BY <2>4, <3>1, ReplaceSide
    <3> QED BY <2>3, <3>2
  <2>6. ASSUME NEW i \in Resting(new)
        PROVE  i \in Resting(b) /\ ~ At(i, t, p, ts)
    <3> DEFINE s == i.full_order.order_type
               q == i.price
               us == i.full_order.timestamp_exchange
    <3>1. At(i, s, q, us)
      BY DEF At
    <3> HIDE DEF s, q, us
    <3>2. /\ s \in OrderType /\ q \in DOMAIN new[s] /\ us \in DOMAIN new[s][q]
          /\ i = new[s][q][us]
      BY <2>5, <3>1, PlaceOfResting
    <3>3. /\ q \in DOMAIN b[s] /\ us \in DOMAIN b[s][q] /\ i = b[s][q][us]
          /\ ~ (s = t /\ q = p /\ us = ts)
      BY <2>2, <2>5, <3>2
    <3> QED BY <3>1, <3>2, <3>3, RestingHasPlace DEF At
  <2>7. ASSUME NEW i \in Resting(b), ~ At(i, t, p, ts)
        PROVE  i \in Resting(new)
    <3> DEFINE s == i.full_order.order_type
               q == i.price
               us == i.full_order.timestamp_exchange
    <3>1. At(i, s, q, us) /\ ~ (s = t /\ q = p /\ us = ts)
      BY <2>7 DEF At
    <3> HIDE DEF s, q, us
    <3>2. /\ s \in OrderType /\ q \in DOMAIN b[s] /\ us \in DOMAIN b[s][q]
          /\ i = b[s][q][us]
      BY <3>1, PlaceOfResting
    <3>3. q \in DOMAIN new[s] /\ us \in DOMAIN new[s][q] /\ i = new[s][q][us]
      BY <2>2, <2>5, <3>1, <3>2
    <3> QED BY <2>5, <3>2, <3>3, RestingHasPlace
  <2> QED BY <2>5, <2>6, <2>7 DEF new, t, p, ts
<1> QED BY <1>1, <1>2

-----------------------------------------------------------------------------
(* What getBest() of the first level returns: an order at rest that no     *)
(* other of its side precedes in (price, timestamp) order                  *)
(* (orderbook.cpp:52, 149).                                                *)
LEMMA BestIsFirst ==
    ASSUME NEW b, ValidBook(b), NEW t \in OrderType, DOMAIN b[t] # {}
    PROVE  LET best == GetBest(Begin(b[t]))
           IN  /\ best \in Resting(b) /\ SideOf(best) = t
               /\ best.price = First(b[t])
               /\ HasBestLevel(b[t])
               /\ LevelPrice(Begin(b[t])) = First(b[t])
               /\ \A i \in Resting(b) :
                    SideOf(i) = t =>
                      /\ best.price <= i.price
                      /\ i.price = best.price =>
                           best.full_order.timestamp_exchange
                             <= i.full_order.timestamp_exchange
<1> DEFINE p == First(b[t])
           ts == First(b[t][p])
           best == b[t][p][ts]
<1>1. /\ IsMap(b[t], Prices)
      /\ p \in DOMAIN b[t]
      /\ \A q \in DOMAIN b[t] : p <= q
  <2>1. IsMap(b[t], Prices)
    BY DEF ValidBook, ValidSide
  <2> QED BY <2>1, FirstPrice
<1>2. /\ ts \in DOMAIN b[t][p]
      /\ \A us \in DOMAIN b[t][p] : ts <= us
  <2> HIDE DEF p
  <2>1. IsMap(b[t][p], Timestamps) /\ DOMAIN b[t][p] # {}
    BY <1>1 DEF ValidBook, ValidSide, ValidLevel
  <2> DEFINE level == b[t][p]
  <2>2. IsMap(level, Timestamps) /\ DOMAIN level # {}
    BY <2>1
  <2> HIDE DEF level
  <2>3. First(level) \in DOMAIN level /\ \A us \in DOMAIN level : First(level) <= us
    BY <2>2, FirstTimestamp
  <2> QED BY <2>3 DEF level
<1>3. best = GetBest(Begin(b[t])) /\ Begin(b[t]) = b[t][p]
  BY DEF GetBest, Begin
<1> HIDE DEF p, ts, best
<1>4. Filed(best, t, p, ts) /\ best \in Resting(b)
  <2>1. Filed(best, t, p, ts)
    BY <1>1, <1>2 DEF best, ValidBook, ValidSide, ValidLevel
  <2> QED BY <1>1, <1>2, <2>1, RestingHasPlace DEF best
<1>5. ASSUME NEW i \in Resting(b), SideOf(i) = t
      PROVE  /\ best.price <= i.price
             /\ i.price = best.price =>
                  best.full_order.timestamp_exchange <= i.full_order.timestamp_exchange
  <2> DEFINE q == i.price
             us == i.full_order.timestamp_exchange
  <2>1. At(i, t, q, us)
    BY <1>5 DEF At, SideOf
  <2> HIDE DEF q, us
  <2>2. q \in DOMAIN b[t] /\ us \in DOMAIN b[t][q]
    BY <2>1, PlaceOfResting
  <2>3. p <= q /\ (q = p => ts <= us)
    BY <1>1, <1>2, <2>2
  <2> QED BY <1>4, <2>3 DEF Filed, q, us
<1>6. HasBestLevel(b[t])
  BY <1>1, <1>2, <1>3 DEF HasBestLevel
<1>7. LevelPrice(Begin(b[t])) = p /\ best.price = p /\ SideOf(best) = t
  BY <1>3, <1>4 DEF LevelPrice, Filed, SideOf
<1> QED BY <1>3, <1>4, <1>5, <1>6, <1>7 DEF p

-----------------------------------------------------------------------------
(* The invariant, and what the loop finds on the book. *)

Inv == TypeOK /\ BookWellFormed

LEMMA InvBook == Inv <=> TypeOK /\ ValidBook(book)
BY ValidBookIsWellFormed DEF Inv, TypeOK, BookWellFormed

(* The ask and the bid that a turn of the loop looks at (matcher.cpp:28).  *)
LEMMA BestOrders ==
    ASSUME ValidBook(book), Crossing
    PROVE  /\ BestAsk(book) \in Resting(book) /\ SideOf(BestAsk(book)) = "Ask"
           /\ BestBid(book) \in Resting(book) /\ SideOf(BestBid(book)) = "Bid"
           /\ BestAsk(book).price <= BestBid(book).price
           /\ \A i \in Resting(book) :
                SideOf(i) = "Ask" =>
                  /\ BestAsk(book).price <= i.price
                  /\ i.price = BestAsk(book).price =>
                       BestAsk(book).full_order.timestamp_exchange
                         <= i.full_order.timestamp_exchange
           /\ \A i \in Resting(book) :
                SideOf(i) = "Bid" =>
                  /\ BestBid(book).price <= i.price
                  /\ i.price = BestBid(book).price =>
                       BestBid(book).full_order.timestamp_exchange
                         <= i.full_order.timestamp_exchange
<1>1. /\ "Ask" \in OrderType /\ "Bid" \in OrderType
      /\ DOMAIN book["Ask"] # {} /\ DOMAIN book["Bid"] # {}
  BY DEF OrderType, Crossing, HasBestLevel
<1>2. First(book["Ask"]) <= First(book["Bid"])
  BY <1>1, BestIsFirst DEF Crossing
<1> QED BY <1>1, <1>2, BestIsFirst DEF BestAsk, BestBid

-----------------------------------------------------------------------------
(* One turn of the loop, for an ask and a bid at rest. *)

(* What can be said of one order at rest. *)
LEMMA RestingIsFiled ==
    ASSUME NEW b, ValidBook(b), NEW i \in Resting(b)
    PROVE  /\ i \in InfoOrders
           /\ SideOf(i) \in OrderType /\ SideOf(i) = i.full_order.order_type
           /\ i.full_order \in Orders /\ i.full_order.volume \in Nat
           /\ i.price = i.full_order.price
           /\ i.volume \in 1 .. i.full_order.volume
           /\ At(i, SideOf(i), i.price, i.full_order.timestamp_exchange)
           /\ HasLevel(b, i)
<1> DEFINE t == SideOf(i)
           p == i.price
           ts == i.full_order.timestamp_exchange
<1>1. At(i, t, p, ts)
  BY DEF At, SideOf
<1>2. Filed(i, t, p, ts) /\ t \in OrderType /\ p \in DOMAIN b[t]
  <2> HIDE DEF t, p, ts
  <2> QED BY <1>1, PlaceOfResting
<1>3. i \in InfoOrders /\ i.full_order \in Orders
  BY <1>2 DEF Filed, InfoOrders
<1>4. i.full_order.volume \in Nat
  BY <1>3, OrdersAssumption
<1> QED BY <1>1, <1>2, <1>3, <1>4 DEF Filed, HasLevel, SideOf

(* remove_ of an order at rest takes that order only. *)
LEMMA RemoveResting ==
    ASSUME NEW b, ValidBook(b), NEW i \in Resting(b)
    PROVE  /\ ValidBook(Remove(b, i))
           /\ Resting(Remove(b, i)) = Resting(b) \ {i}
<1> DEFINE t == SideOf(i)
           p == i.price
           ts == i.full_order.timestamp_exchange
<1>1. At(i, t, p, ts) /\ t \in OrderType
  BY RestingIsFiled
<1>2. /\ ValidBook(Remove(b, i))
      /\ Resting(Remove(b, i)) = {j \in Resting(b) : ~ At(j, t, p, ts)}
  BY <1>1, RemoveOrder
<1> HIDE DEF t, p, ts
<1>3. \A j \in Resting(b) : At(j, t, p, ts) <=> j = i
  BY <1>1, OneOrderPerPlace
<1> QED BY <1>2, <1>3

(* A partly filled order, and the other one gone (matcher.cpp:32-43).      *)
LEMMA PartialTrade ==
    ASSUME NEW b, ValidBook(b), NEW kept \in Resting(b), NEW gone \in Resting(b),
           SideOf(kept) # SideOf(gone), gone.volume < kept.volume
    PROVE  LET new == Remove(SetVolume(b, kept, kept.volume - gone.volume), gone)
               reduced == [kept EXCEPT !.volume = kept.volume - gone.volume]
           IN  /\ ValidBook(new)
               /\ Resting(new) = (Resting(b) \ {kept, gone}) \cup {reduced}
               /\ reduced.full_order = kept.full_order
               /\ reduced.volume = kept.volume - gone.volume
<1> DEFINE v == kept.volume - gone.volume
           middle == SetVolume(b, kept, v)
           reduced == [kept EXCEPT !.volume = v]
<1>1. v \in 1 .. kept.full_order.volume
  <2>1. /\ kept.volume \in 1 .. kept.full_order.volume /\ kept.full_order.volume \in Nat
        /\ gone.volume \in 1 .. gone.full_order.volume /\ gone.full_order.volume \in Nat
    BY RestingIsFiled
  <2> QED BY <2>1
<1>2. /\ reduced.full_order = kept.full_order
      /\ reduced.volume = v
      /\ SideOf(reduced) = SideOf(kept)
  <2>1. kept \in InfoOrders
    BY RestingIsFiled
  <2> QED BY <2>1 DEF InfoOrders, SideOf
<1> HIDE DEF v
<1>3. ValidBook(middle) /\ Resting(middle) = (Resting(b) \ {kept}) \cup {reduced}
  BY <1>1, SetVolumeOfResting
<1>4. gone \in Resting(middle) /\ gone # kept
  BY <1>3
<1> HIDE DEF middle
<1>5. ValidBook(Remove(middle, gone)) /\ Resting(Remove(middle, gone)) = Resting(middle) \ {gone}
  BY <1>3, <1>4, RemoveResting
<1>6. reduced # gone
  BY <1>2
<1> HIDE DEF reduced
<1>7. Resting(Remove(middle, gone)) = (Resting(b) \ {kept, gone}) \cup {reduced}
  BY <1>3, <1>5, <1>6
<1> QED BY <1>2, <1>5, <1>7 DEF v, middle, reduced

(* Two orders of equal volume, both gone (matcher.cpp:44-53).              *)
LEMMA FullTrade ==
    ASSUME NEW b, ValidBook(b), NEW ask \in Resting(b), NEW bid \in Resting(b),
           SideOf(ask) # SideOf(bid)
    PROVE  LET new == Remove(Remove(b, ask), bid)
           IN  /\ ValidBook(new)
               /\ Resting(new) = Resting(b) \ {ask, bid}
               /\ HasLevel(Remove(b, ask), bid)
<1> DEFINE middle == Remove(b, ask)
<1>1. ValidBook(middle) /\ Resting(middle) = Resting(b) \ {ask}
  BY RemoveResting
<1>2. bid \in Resting(middle)
  BY <1>1
<1> HIDE DEF middle
<1>3. /\ ValidBook(Remove(middle, bid))
      /\ Resting(Remove(middle, bid)) = Resting(middle) \ {bid}
  BY <1>1, <1>2, RemoveResting
<1>4. HasLevel(middle, bid)
  BY <1>1, <1>2, RestingIsFiled
<1> QED BY <1>1, <1>3, <1>4 DEF middle

-----------------------------------------------------------------------------
(* What each action does to the orders at rest. *)

LEMMA PollAddStep ==
    ASSUME ValidBook(book), NEW order \in Orders, PollAdd(order)
    PROVE  /\ ValidBook(book')
           /\ Resting(book') =
                {i \in Resting(book) :
                   ~ At(i, order.order_type, order.price, order.timestamp_exchange)}
                \cup {InfoOrder(order)}
BY AddOrder DEF PollAdd

LEMMA PollRemoveStep ==
    ASSUME ValidBook(book), NEW order \in Orders, PollRemove(order)
    PROVE  /\ ValidBook(book')
           /\ Resting(book') =
                {i \in Resting(book) :
                   ~ At(i, order.order_type, order.price, order.timestamp_exchange)}
<1> DEFINE info == InfoOrder(order)
<1>1. /\ SideOf(info) = order.order_type /\ info.price = order.price
      /\ info.full_order.timestamp_exchange = order.timestamp_exchange
      /\ SideOf(info) \in OrderType
  BY InfoOrderIsFiled DEF InfoOrder, SideOf
<1>2. book' = Remove(book, info)
  BY DEF PollRemove
<1> HIDE DEF info
<1> QED BY <1>1, <1>2, RemoveOrder

LEMMA AskExhaustedStep ==
    ASSUME ValidBook(book), AskExhausted
    PROVE  LET ask == BestAsk(book)
               bid == BestBid(book)
               reduced == [bid EXCEPT !.volume = bid.volume - ask.volume]
           IN  /\ ValidBook(book')
               /\ Resting(book') = (Resting(book) \ {bid, ask}) \cup {reduced}
               /\ reduced.full_order = bid.full_order
               /\ reduced.volume = bid.volume - ask.volume
               /\ pc' = "resolve"
<1> DEFINE ask == BestAsk(book)
           bid == BestBid(book)
<1>1. /\ ask \in Resting(book) /\ bid \in Resting(book)
      /\ SideOf(ask) # SideOf(bid) /\ ask.volume < bid.volume
  BY BestOrders DEF AskExhausted
<1>2. /\ book' = Remove(SetVolume(book, bid, bid.volume - ask.volume), ask)
      /\ pc' = IF HasLevel(book, ask) THEN "resolve" ELSE "aborted"
  BY DEF AskExhausted, Continue
<1> HIDE DEF ask, bid
<1>3. HasLevel(book, ask)
  BY <1>1, RestingIsFiled
<1> QED BY <1>1, <1>2, <1>3, PartialTrade DEF ask, bid

LEMMA BidExhaustedStep ==
    ASSUME ValidBook(book), BidExhausted
    PROVE  LET ask == BestAsk(book)
               bid == BestBid(book)
               reduced == [ask EXCEPT !.volume = ask.volume - bid.volume]
           IN  /\ ValidBook(book')
               /\ Resting(book') = (Resting(book) \ {ask, bid}) \cup {reduced}
               /\ reduced.full_order = ask.full_order
               /\ reduced.volume = ask.volume - bid.volume
               /\ pc' = "resolve"
<1> DEFINE ask == BestAsk(book)
           bid == BestBid(book)
<1>1. /\ ask \in Resting(book) /\ bid \in Resting(book)
      /\ SideOf(ask) # SideOf(bid) /\ ask.volume > bid.volume
  BY BestOrders DEF BidExhausted
<1>2. bid.volume < ask.volume
  <2>1. /\ ask.volume \in 1 .. ask.full_order.volume /\ ask.full_order.volume \in Nat
        /\ bid.volume \in 1 .. bid.full_order.volume /\ bid.full_order.volume \in Nat
    BY <1>1, RestingIsFiled
  <2> QED BY <1>1, <2>1
<1>3. /\ book' = Remove(SetVolume(book, ask, ask.volume - bid.volume), bid)
      /\ pc' = IF HasLevel(book, bid) THEN "resolve" ELSE "aborted"
  BY DEF BidExhausted, Continue
<1> HIDE DEF ask, bid
<1>4. HasLevel(book, bid)
  BY <1>1, RestingIsFiled
<1> QED BY <1>1, <1>2, <1>3, <1>4, PartialTrade DEF ask, bid

LEMMA BothExhaustedStep ==
    ASSUME ValidBook(book), BothExhausted
    PROVE  /\ ValidBook(book')
           /\ Resting(book') = Resting(book) \ {BestAsk(book), BestBid(book)}
           /\ pc' = "resolve"
<1> DEFINE ask == BestAsk(book)
           bid == BestBid(book)
<1>1. /\ ask \in Resting(book) /\ bid \in Resting(book)
      /\ SideOf(ask) # SideOf(bid)
  BY BestOrders DEF BothExhausted
<1>2. /\ book' = Remove(Remove(book, ask), bid)
      /\ pc' = IF HasLevel(book, ask) /\ HasLevel(Remove(book, ask), bid)
              THEN "resolve" ELSE "aborted"
  BY DEF BothExhausted, Continue
<1> HIDE DEF ask, bid
<1>3. HasLevel(book, ask)
  BY <1>1, RestingIsFiled
<1> QED BY <1>1, <1>2, <1>3, FullTrade DEF ask, bid

-----------------------------------------------------------------------------
(* The invariant. *)

LEMMA EmptyBookIsValid == ValidBook(EmptyBook) /\ Resting(EmptyBook) = {}
<1>1. /\ EmptyBook = [t \in OrderType |-> EmptyMap]
      /\ DOMAIN EmptyMap = {} /\ IsMap(EmptyMap, Prices)
  BY DEF EmptyBook, EmptyMap, IsMap
<1>2. ValidBook(EmptyBook)
  BY <1>1 DEF ValidBook, ValidSide, IsMap
<1>3. Resting(EmptyBook) = {}
  BY <1>1, <1>2, RestingHasPlace DEF OrderType
<1> QED BY <1>2, <1>3

LEMMA InitInv == Init => Inv
<1> SUFFICES ASSUME Init PROVE Inv
  OBVIOUS
<1>1. ValidBook(book)
  BY EmptyBookIsValid DEF Init
<1>2. pc = "poll" /\ offset \in 0 .. MaxMessages /\ events \in Seq(Orders)
  BY MaxMessagesAssumption DEF Init
<1> QED BY <1>1, <1>2, ValidBookIsWellFormed DEF Inv, TypeOK, BookWellFormed

LEMMA BookStep ==
    ASSUME ValidBook(book), [Next]_vars
    PROVE  ValidBook(book')
<1>1. CASE \E order \in Orders : PollAdd(order)
  BY <1>1, PollAddStep
<1>2. CASE \E order \in Orders : PollRemove(order)
  BY <1>2, PollRemoveStep
<1>3. CASE AskExhausted
  BY <1>3, AskExhaustedStep
<1>4. CASE BidExhausted
  BY <1>4, BidExhaustedStep
<1>5. CASE BothExhausted
  BY <1>5, BothExhaustedStep
<1>6. CASE UNCHANGED book
  BY <1>6
<1> QED BY <1>1, <1>2, <1>3, <1>4, <1>5, <1>6
    DEF Next, Resolve, PollNothing, PollOtherKey, ResolveDone, EndReadCrash, vars

LEMMA TypeStep ==
    ASSUME TypeOK, ValidBook(book), [Next]_vars
    PROVE  /\ pc' \in {"poll", "resolve", "aborted", "crashed"}
           /\ offset' \in 0 .. MaxMessages
           /\ events' \in Seq(Orders)
<1> USE MaxMessagesAssumption DEF TypeOK
<1>1. ASSUME NEW order \in Orders, PollAdd(order) \/ PollRemove(order)
      PROVE  /\ pc' \in {"poll", "resolve", "aborted", "crashed"}
             /\ offset' \in 0 .. MaxMessages
             /\ events' \in Seq(Orders)
  BY <1>1 DEF PollAdd, PollRemove, Receive
<1>2. CASE PollNothing \/ PollOtherKey \/ ResolveDone \/ EndReadCrash \/ UNCHANGED vars
  BY <1>2 DEF PollNothing, PollOtherKey, Receive, ResolveDone, EndReadCrash, vars
<1>3. ASSUME AskExhausted \/ BidExhausted \/ BothExhausted
      PROVE  /\ BestAsk(book).full_order \in Orders
             /\ pc' \in {"poll", "resolve", "aborted", "crashed"}
             /\ offset' \in 0 .. MaxMessages
  <2>1. BestAsk(book).full_order \in Orders
    BY <1>3, BestOrders, RestingIsFiled DEF AskExhausted, BidExhausted, BothExhausted
  <2> QED BY <1>3, <2>1 DEF AskExhausted, BidExhausted, BothExhausted, Continue
<1>4. CASE AskExhausted \/ BidExhausted
  BY <1>3, <1>4 DEF AskExhausted, BidExhausted
<1>5. CASE BothExhausted
  BY <1>3, <1>5 DEF BothExhausted
<1> QED BY <1>1, <1>2, <1>3, <1>4, <1>5 DEF Next, Resolve

LEMMA NextInv == Inv /\ [Next]_vars => Inv'
<1> SUFFICES ASSUME Inv, [Next]_vars PROVE Inv'
  OBVIOUS
<1>1. TypeOK /\ ValidBook(book)
  BY InvBook
<1>2. ValidBook(book')
  BY <1>1, BookStep
<1>3. IsBook(book') /\ WellFormed(book')
  BY <1>2, ValidBookIsWellFormed
<1> QED BY <1>1, <1>3, TypeStep DEF Inv, TypeOK, BookWellFormed

(* The members of the matcher keep their types. *)
THEOREM Typed == Spec => []TypeOK
<1>1. Inv => TypeOK
  BY DEF Inv
<1> QED BY <1>1, InitInv, NextInv, PTL DEF Spec

(* Whatever messages come, the book is in order before every poll and      *)
(* every turn of the loop.                                                 *)
THEOREM BookInOrder == Spec => []BookWellFormed
<1>1. Inv => BookWellFormed
  BY DEF Inv
<1> QED BY <1>1, InitInv, NextInv, PTL DEF Spec

-----------------------------------------------------------------------------
(* The loop and poll(). *)

LEMMA InitQuiet == Init => Quiet
BY DEF Init, Quiet, EmptyBook, EmptyMap, OrderType

LEMMA NextQuiet == Inv /\ Quiet /\ [Next]_vars => Quiet'
<1> SUFFICES ASSUME Inv, Quiet, [Next]_vars PROVE Quiet'
  OBVIOUS
<1>1. CASE ResolveDone
  <2> SUFFICES ASSUME DOMAIN book["Ask"] # {}, DOMAIN book["Bid"] # {}
               PROVE  \E bid \in DOMAIN book["Bid"] : \A ask \in DOMAIN book["Ask"] : bid < ask
    BY <1>1 DEF ResolveDone, Quiet
  <2> DEFINE asks == book["Ask"]
             bids == book["Bid"]
  <2>1. ValidBook(book) /\ "Ask" \in OrderType /\ "Bid" \in OrderType
    BY InvBook DEF OrderType
  <2>2. /\ IsMap(asks, Prices) /\ DOMAIN asks # {}
        /\ IsMap(bids, Prices) /\ DOMAIN bids # {}
    BY <2>1 DEF ValidBook, ValidSide
  <2>3. ~ (First(asks) <= First(bids))
    <3>1. /\ HasBestLevel(asks) /\ LevelPrice(Begin(asks)) = First(asks)
          /\ HasBestLevel(bids) /\ LevelPrice(Begin(bids)) = First(bids)
      BY <2>1, BestIsFirst
    <3>2. ~ Crossing
      BY <1>1 DEF ResolveDone
    <3> QED BY <3>1, <3>2 DEF Crossing
  <2> HIDE DEF asks, bids
  <2>4. /\ First(asks) \in DOMAIN asks /\ \A p \in DOMAIN asks : First(asks) <= p
        /\ First(bids) \in DOMAIN bids
    BY <2>2, FirstPrice
  <2>5. DOMAIN asks \subseteq Int /\ DOMAIN bids \subseteq Int
    BY <2>2, OrdersAssumption DEF IsMap, Prices
  <2>6. \A ask \in DOMAIN asks : First(bids) < ask
    BY <2>3, <2>4, <2>5
  <2> QED BY <2>4, <2>6 DEF asks, bids
<1>2. CASE PollNothing \/ UNCHANGED vars
  BY <1>2 DEF PollNothing, vars, Quiet
<1>3. CASE \/ \E order \in Orders : PollAdd(order) \/ PollRemove(order)
           \/ PollOtherKey \/ EndReadCrash
  BY <1>3 DEF PollAdd, PollRemove, PollOtherKey, EndReadCrash, Quiet
<1>4. CASE AskExhausted \/ BidExhausted \/ BothExhausted
  <2>1. pc' = "resolve"
    BY <1>4, InvBook, AskExhaustedStep, BidExhaustedStep, BothExhaustedStep
  <2> QED BY <2>1 DEF Quiet
<1> QED BY <1>1, <1>2, <1>3, <1>4 DEF Next, Resolve

(* When poll() returns, all asks are dearer than the bid that              *)
(* resolve_orders() compared them with.                                    *)
THEOREM PollLeavesQuiet == Spec => []Quiet
BY InitInv, NextInv, InitQuiet, NextQuiet, PTL DEF Spec

LEMMA TurnNeverAborts == Inv /\ [Next]_vars => [pc = "resolve" => pc' # "aborted"]_vars
<1> SUFFICES ASSUME Inv, Next, pc = "resolve"
             PROVE  pc' # "aborted"
  OBVIOUS
<1>1. CASE AskExhausted \/ BidExhausted \/ BothExhausted
  BY <1>1, InvBook, AskExhaustedStep, BidExhaustedStep, BothExhaustedStep
<1>2. CASE ResolveDone \/ EndReadCrash
  BY <1>2 DEF ResolveDone, EndReadCrash
<1> QED BY <1>1, <1>2
    DEF Next, Resolve, PollNothing, PollAdd, PollRemove, PollOtherKey, Receive

(* No assert fails in resolve_orders(): remove_ always finds the level.    *)
THEOREM NoAbort == Spec => ResolveNeverAborts
BY InitInv, NextInv, TurnNeverAborts, PTL DEF Spec, ResolveNeverAborts

-----------------------------------------------------------------------------
(* What a turn of the loop takes off the book and what it announces. *)

(* An order is at rest once at most.                                       *)
LEMMA SameOrderSameInfo ==
    ASSUME NEW b, ValidBook(b), NEW i \in Resting(b), NEW j \in Resting(b),
           i.full_order = j.full_order
    PROVE  i = j
<1> DEFINE o == i.full_order
<1>1. /\ At(i, o.order_type, o.price, o.timestamp_exchange)
      /\ At(j, o.order_type, o.price, o.timestamp_exchange)
  BY RestingIsFiled DEF SideOf
<1> HIDE DEF o
<1> QED BY <1>1, OneOrderPerPlace

(* Both orders of a turn leave the set of those at rest; of the one that   *)
(* is only partly filled, what remains of it comes in.                     *)
LEMMA TurnOutcome ==
    ASSUME Inv, AskExhausted \/ BidExhausted \/ BothExhausted
    PROVE  LET ask == BestAsk(book)
               bid == BestBid(book)
               R == Resting(book)
           IN  /\ ask \in R /\ bid \in R
               /\ SideOf(ask) = "Ask" /\ SideOf(bid) = "Bid"
               /\ \/ /\ events' = Append(events, ask.full_order)
                     /\ \E reduced : reduced \notin R
                                  /\ Resting(book') = (R \ {ask, bid}) \cup {reduced}
                  \/ /\ events' = events \o <<ask.full_order, ask.full_order>>
                     /\ Resting(book') = R \ {ask, bid}
<1> DEFINE ask == BestAsk(book)
           bid == BestBid(book)
           R == Resting(book)
<1>1. ValidBook(book) /\ Crossing
  BY InvBook DEF AskExhausted, BidExhausted, BothExhausted
<1>2. ask \in R /\ bid \in R /\ SideOf(ask) = "Ask" /\ SideOf(bid) = "Bid"
  BY <1>1, BestOrders
<1>3. /\ ask.volume \in Int /\ ask.volume > 0
      /\ bid.volume \in Int /\ bid.volume > 0
  <2>1. /\ ask.volume \in 1 .. ask.full_order.volume /\ ask.full_order.volume \in Nat
        /\ bid.volume \in 1 .. bid.full_order.volume /\ bid.full_order.volume \in Nat
    BY <1>1, <1>2, RestingIsFiled
  <2> QED BY <2>1
<1>4. ASSUME NEW kept \in R, NEW reduced, reduced.full_order = kept.full_order,
             reduced.volume # kept.volume
      PROVE  reduced \notin R
  BY <1>1, <1>4, SameOrderSameInfo
<1>5. CASE AskExhausted
  <2> DEFINE reduced == [bid EXCEPT !.volume = bid.volume - ask.volume]
  <2>1. /\ Resting(book') = (R \ {bid, ask}) \cup {reduced}
        /\ reduced.full_order = bid.full_order
        /\ reduced.volume = bid.volume - ask.volume
    BY <1>1, <1>5, AskExhaustedStep
  <2>2. events' = Append(events, ask.full_order)
    BY <1>5 DEF AskExhausted
  <2> HIDE DEF reduced, ask, bid
  <2>3. reduced \notin R
    BY <1>2, <1>3, <1>4, <2>1
  <2> QED BY <1>2, <2>1, <2>2, <2>3 DEF ask, bid
<1>6. CASE BidExhausted
  <2> DEFINE reduced == [ask EXCEPT !.volume = ask.volume - bid.volume]
  <2>1. /\ Resting(book') = (R \ {ask, bid}) \cup {reduced}
        /\ reduced.full_order = ask.full_order
        /\ reduced.volume = ask.volume - bid.volume
    BY <1>1, <1>6, BidExhaustedStep
  <2>2. events' = Append(events, ask.full_order)
    BY <1>6 DEF BidExhausted
  <2> HIDE DEF reduced, ask, bid
  <2>3. reduced \notin R
    BY <1>2, <1>3, <1>4, <2>1
  <2> QED BY <1>2, <2>1, <2>2, <2>3 DEF ask, bid
<1>7. CASE BothExhausted
  <2>1. Resting(book') = R \ {ask, bid}
    BY <1>1, <1>7, BothExhaustedStep
  <2>2. events' = events \o <<ask.full_order, ask.full_order>>
    BY <1>7 DEF BothExhausted
  <2> QED BY <1>2, <2>1, <2>2
<1> QED BY <1>5, <1>6, <1>7

FiniteBook == IsFiniteSet(Resting(book))

LEMMA InitFinite == Init => FiniteBook
<1>1. Init => Resting(book) = {}
  BY EmptyBookIsValid DEF Init
<1> QED BY <1>1, FS_EmptySet DEF FiniteBook

LEMMA NextFinite == Inv /\ FiniteBook /\ [Next]_vars => FiniteBook'
<1> SUFFICES ASSUME Inv, FiniteBook, [Next]_vars PROVE FiniteBook'
  OBVIOUS
<1> USE DEF FiniteBook
<1>1. ASSUME NEW x, Resting(book') \subseteq Resting(book) \cup {x}
      PROVE  FiniteBook'
  BY <1>1, FS_AddElement, FS_Subset
<1>2. ASSUME NEW order \in Orders, PollAdd(order) \/ PollRemove(order)
      PROVE  FiniteBook'
  BY <1>1, <1>2, InvBook, PollAddStep, PollRemoveStep
<1>3. CASE AskExhausted \/ BidExhausted \/ BothExhausted
  BY <1>1, <1>3, TurnOutcome
<1>4. CASE UNCHANGED book
  BY <1>4
<1> QED BY <1>2, <1>3, <1>4
    DEF Next, Resolve, PollNothing, PollOtherKey, ResolveDone, EndReadCrash, vars

(* The matcher's steps only add to what it has announced. *)
LEMMA EventsGrow ==
    ASSUME Inv, [Next]_vars
    PROVE  Len(events) \in Nat /\ Len(events') \in Nat /\ Len(events) <= Len(events')
<1>1. events \in Seq(Orders) /\ events' \in Seq(Orders)
  BY NextInv DEF Inv, TypeOK
<1>2. \/ events' = events
      \/ \E o \in Orders : events' = Append(events, o)
      \/ \E o \in Orders : events' = events \o <<o, o>>
  <2>1. CASE AskExhausted \/ BidExhausted
    <3>1. BestAsk(book).full_order \in Orders
      BY <2>1, InvBook, BestOrders, RestingIsFiled DEF AskExhausted, BidExhausted
    <3> QED BY <2>1, <3>1 DEF AskExhausted, BidExhausted
  <2>2. CASE BothExhausted
    <3>1. BestAsk(book).full_order \in Orders
      BY <2>2, InvBook, BestOrders, RestingIsFiled DEF BothExhausted
    <3> QED BY <2>2, <3>1 DEF BothExhausted
  <2> QED BY <2>1, <2>2 DEF Next, Resolve, PollNothing, PollAdd, PollRemove, PollOtherKey,
             ResolveDone, EndReadCrash, vars
<1>3. ASSUME NEW o \in Orders
      PROVE  /\ Len(Append(events, o)) = Len(events) + 1
             /\ Len(events \o <<o, o>>) = Len(events) + 2
  BY <1>1
<1>4. Len(events) \in Nat /\ Len(events') \in Nat
  BY <1>1
<1>5. \/ Len(events') = Len(events)
      \/ Len(events') = Len(events) + 1
      \/ Len(events') = Len(events) + 2
  BY <1>2, <1>3
<1> QED BY <1>4, <1>5

LEMMA TurnCounts ==
    ASSUME Inv, FiniteBook, AskExhausted \/ BidExhausted \/ BothExhausted
    PROVE  Len(events') - Len(events) =
               Cardinality(Resting(book)) - Cardinality(Resting(book'))
<1> DEFINE R == Resting(book)
           rest == R \ {BestAsk(book), BestBid(book)}
<1>1. PICK ask, bid :
        /\ ask = BestAsk(book) /\ bid = BestBid(book)
        /\ ask \in R /\ bid \in R /\ ask # bid /\ ask.full_order \in Orders
  BY TurnOutcome, InvBook, RestingIsFiled
<1>2. /\ IsFiniteSet(rest) /\ Cardinality(R) \in Nat
      /\ Cardinality(rest) = Cardinality(R) - 2
  <2>1. IsFiniteSet(R \ {ask}) /\ Cardinality(R \ {ask}) = Cardinality(R) - 1
    BY <1>1, FS_RemoveElement DEF FiniteBook
  <2>2. /\ IsFiniteSet((R \ {ask}) \ {bid})
        /\ Cardinality((R \ {ask}) \ {bid}) = Cardinality(R \ {ask}) - 1
    BY <1>1, <2>1, FS_RemoveElement
  <2>3. rest = (R \ {ask}) \ {bid}
    BY <1>1
  <2>4. Cardinality(R) \in Nat
    BY FS_CardinalityType DEF FiniteBook
  <2> HIDE DEF R, rest
  <2> QED BY <2>1, <2>2, <2>3, <2>4
<1>3. /\ Len(events) \in Nat
      /\ Len(Append(events, ask.full_order)) = Len(events) + 1
      /\ Len(events \o <<ask.full_order, ask.full_order>>) = Len(events) + 2
  BY <1>1 DEF Inv, TypeOK
<1>4. ASSUME NEW reduced, reduced \notin R, Resting(book') = rest \cup {reduced}
      PROVE  Cardinality(Resting(book')) = Cardinality(R) - 1
  BY <1>2, <1>4, FS_AddElement
<1>5. \/ /\ events' = Append(events, ask.full_order)
         /\ Cardinality(Resting(book')) = Cardinality(R) - 1
      \/ /\ events' = events \o <<ask.full_order, ask.full_order>>
         /\ Cardinality(Resting(book')) = Cardinality(R) - 2
  <2> HIDE DEF R
  <2> QED BY <1>1, <1>2, <1>4, TurnOutcome DEF R
<1> HIDE DEF R, rest
<1> QED BY <1>2, <1>3, <1>5 DEF R

(* As many announcements as orders that are executed in full, in every     *)
(* turn of the loop (matcher.cpp:36, 42, 47-50).                           *)
THEOREM EventsCount == Spec => OneEventPerExecutedOrder
<1>1. Inv /\ FiniteBook /\ [Next]_vars =>
        [pc = "resolve" =>
           Len(events') - Len(events) =
               Cardinality(Resting(book)) - Cardinality(Resting(book'))]_vars
  <2> SUFFICES ASSUME Inv, FiniteBook, Next, pc = "resolve"
               PROVE  Len(events') - Len(events) =
                         Cardinality(Resting(book)) - Cardinality(Resting(book'))
    OBVIOUS
  <2>1. CASE AskExhausted \/ BidExhausted \/ BothExhausted
    BY <2>1, TurnCounts
  <2>2. CASE ResolveDone \/ EndReadCrash
    <3>1. events' = events /\ book' = book
      BY <2>2 DEF ResolveDone, EndReadCrash
    <3>2. Cardinality(Resting(book)) \in Nat /\ Len(events) \in Nat
      BY FS_CardinalityType DEF FiniteBook, Inv, TypeOK
    <3> QED BY <3>1, <3>2
  <2> QED BY <2>1, <2>2
      DEF Next, Resolve, PollNothing, PollAdd, PollRemove, PollOtherKey, Receive
<1> QED BY <1>1, InitInv, NextInv, InitFinite, NextFinite, PTL DEF Spec, OneEventPerExecutedOrder

(* A turn of the loop leaves fewer orders at rest than it found: there are *)
(* never more turns in a row than orders (matcher.cpp:26-53).              *)
THEOREM LoopRunsOut == Spec => TurnsRunOut
<1>1. ASSUME Inv, FiniteBook, Next, pc = "resolve" /\ pc' = "resolve"
      PROVE  Cardinality(Resting(book')) < Cardinality(Resting(book))
  <2>1. AskExhausted \/ BidExhausted \/ BothExhausted
    BY <1>1 DEF Next, Resolve, PollNothing, PollAdd, PollRemove, PollOtherKey, Receive,
                ResolveDone, EndReadCrash
  <2>2. Len(events') - Len(events) = Cardinality(Resting(book)) - Cardinality(Resting(book'))
    BY <1>1, <2>1, TurnCounts
  <2>3. Cardinality(Resting(book)) \in Nat /\ Cardinality(Resting(book')) \in Nat
    BY <1>1, NextFinite, FS_CardinalityType DEF FiniteBook
  <2>4. Len(events) \in Nat /\ Len(events') > Len(events)
    <3>1. BestAsk(book).full_order \in Orders
      BY <1>1, <2>1, TurnOutcome, InvBook, RestingIsFiled
    <3>2. events \in Seq(Orders)
      BY <1>1 DEF Inv, TypeOK
    <3> QED BY <2>1, <3>1, <3>2 DEF AskExhausted, BidExhausted, BothExhausted
  <2> QED BY <2>2, <2>3, <2>4
<1>2. Inv /\ FiniteBook /\ [Next]_vars =>
        [pc = "resolve" /\ pc' = "resolve" =>
           Cardinality(Resting(book')) < Cardinality(Resting(book))]_vars
  BY <1>1
<1> QED BY <1>2, InitInv, NextInv, InitFinite, NextFinite, PTL DEF Spec, TurnsRunOut

LEMMA TurnAnnounces ==
    ASSUME Inv, AskExhausted \/ BidExhausted \/ BothExhausted
    PROVE  LET fullOrders(infos) == {info.full_order : info \in infos}
               traded == Resting(book) \ Resting(book')
               asks == {info \in traded : SideOf(info) = "Ask"}
               announced == {events'[i] : i \in Len(events) + 1 .. Len(events')}
           IN  /\ fullOrders(asks) \ fullOrders(Resting(book')) \subseteq announced
               /\ announced \subseteq fullOrders(traded)
<1>1. PICK ask, bid :
        /\ ask = BestAsk(book) /\ ask \in Resting(book) /\ ask.full_order \in Orders
        /\ SideOf(ask) = "Ask" /\ SideOf(bid) = "Bid"
        /\ Resting(book) \ Resting(book') \subseteq {ask, bid}
        /\ ask \notin Resting(book')
  BY TurnOutcome, InvBook, RestingIsFiled
<1>2. {events'[i] : i \in Len(events) + 1 .. Len(events')} = {ask.full_order}
  <2>1. \/ events' = Append(events, ask.full_order)
        \/ events' = events \o <<ask.full_order, ask.full_order>>
    BY <1>1, TurnOutcome
  <2>2. events \in Seq(Orders) /\ Len(events) \in Nat
    BY DEF Inv, TypeOK
  <2>3. CASE events' = Append(events, ask.full_order)
    <3>1. Len(events') = Len(events) + 1 /\ events'[Len(events) + 1] = ask.full_order
      BY <1>1, <2>2, <2>3
    <3> QED BY <2>2, <3>1
  <2>4. CASE events' = events \o <<ask.full_order, ask.full_order>>
    <3>1. /\ Len(events') = Len(events) + 2
          /\ events'[Len(events) + 1] = ask.full_order
          /\ events'[Len(events) + 2] = ask.full_order
      BY <1>1, <2>2, <2>4
    <3> QED BY <2>2, <3>1
  <2> QED BY <2>1, <2>3, <2>4
<1> QED BY <1>1, <1>2

(* Every ask that leaves the book is announced in the same turn, and       *)
(* nothing is announced that did not trade in it (matcher.cpp:34-51).      *)
THEOREM AsksAnnounced == Spec => AsksAreAnnounced
<1> DEFINE fullOrders(infos) == {info.full_order : info \in infos}
           traded == Resting(book) \ Resting(book')
           asks == {info \in traded : SideOf(info) = "Ask"}
           announced == {events'[i] : i \in Len(events) + 1 .. Len(events')}
           Announces == /\ fullOrders(asks) \ fullOrders(Resting(book')) \subseteq announced
                        /\ announced \subseteq fullOrders(traded)
<1>1. Inv /\ [Next]_vars => [pc = "resolve" => Announces]_vars
  <2> SUFFICES ASSUME Inv, Next, pc = "resolve" PROVE Announces
    OBVIOUS
  <2>1. CASE AskExhausted \/ BidExhausted \/ BothExhausted
    BY <2>1, TurnAnnounces
  <2>2. CASE ResolveDone \/ EndReadCrash
    <3>1. events' = events /\ book' = book
      BY <2>2 DEF ResolveDone, EndReadCrash
    <3>2. Len(events) \in Nat
      BY DEF Inv, TypeOK
    <3>3. traded = {} /\ announced = {}
      BY <3>1, <3>2
    <3> QED BY <3>3
  <2> QED BY <2>1, <2>2
      DEF Next, Resolve, PollNothing, PollAdd, PollRemove, PollOtherKey, Receive
<1> QED BY <1>1, InitInv, NextInv, PTL DEF Spec, AsksAreAnnounced

-----------------------------------------------------------------------------
(* What only the tests call: remove(n) of a level. *)

(* A level holds finitely many orders. *)
LEMMA LevelFinite ==
    ASSUME ValidBook(book), FiniteBook, NEW t \in OrderType, NEW p \in DOMAIN book[t]
    PROVE  /\ ValidLevel(book[t][p], t, p) /\ IsFiniteSet(DOMAIN book[t][p])
           /\ DOMAIN book[t][p] # {}
<1> DEFINE level == book[t][p]
           D == DOMAIN level
           R == Resting(book)
           f == [ts \in D |-> level[ts]]
<1>1. ValidLevel(level, t, p) /\ D # {}
  BY DEF ValidBook, ValidSide
<1>2. \A ts \in D : f[ts] \in R /\ f[ts].full_order.timestamp_exchange = ts
  BY <1>1, RestingHasPlace DEF ValidLevel, Filed
<1>3. f \in Injection(D, R)
  <2>1. f \in [D -> R]
    BY <1>2
  <2>2. \A a, b \in D : f[a] = f[b] => a = b
    <3> HIDE DEF f
    <3> QED BY <1>2
  <2> HIDE DEF f, D, R
  <2> QED BY <2>1, <2>2 DEF Injection, IsInjective
<1>4. IsFiniteSet(R)
  BY DEF FiniteBook
<1>5. IsFiniteSet(D)
  <2> HIDE DEF f, D, R
  <2> QED BY <1>3, <1>4, FS_Injection
<1> QED BY <1>1, <1>5

(* erase(begin()), again and again.                                        *)
AreRests(level, g) ==
    g = [i \in Nat |-> IF i = 0 THEN level ELSE Drop(g[i - 1], First(g[i - 1]))]

LEMMA RestsExist ==
    ASSUME NEW level, IsMap(level, Timestamps)
    PROVE  \E g : AreRests(level, g)
<1> DEFINE L == {Restrict(level, T) : T \in SUBSET DOMAIN level}
           step == [m \in L |-> Drop(m, First(m))]
<1>1. level \in L
  BY DEF IsMap, Restrict
<1>2. ASSUME NEW m \in L PROVE Drop(m, First(m)) \in L
  <2>1. PICK T \in SUBSET DOMAIN level : m = Restrict(level, T)
    OBVIOUS
  <2> DEFINE first == First(m)
             rest == T \ {first}
  <2> HIDE DEF first
  <2>2. Drop(m, first) = Restrict(level, rest) /\ rest \in SUBSET DOMAIN level
    BY <2>1 DEF Drop, Restrict
  <2> QED BY <2>2 DEF first
<1>3. step \in [L -> L]
  BY <1>2
<1>4. PICK g \in [Nat -> L] : g = [n \in Nat |-> IF n = 0 THEN level ELSE step[g[n - 1]]]
  <2> HIDE DEF L, step
  <2> QED BY <1>1, <1>3, Iterates
<1>5. \A n \in Nat : g[n] = IF n = 0 THEN level ELSE Drop(g[n - 1], First(g[n - 1]))
  <2> SUFFICES ASSUME NEW n \in Nat, n # 0 PROVE g[n] = Drop(g[n - 1], First(g[n - 1]))
    BY <1>4
  <2>1. n - 1 \in Nat /\ g[n - 1] \in L
    OBVIOUS
  <2>2. g[n] = step[g[n - 1]]
    BY <1>4
  <2> HIDE DEF L
  <2> QED BY <2>1, <2>2
<1>6. g = [n \in Nat |-> g[n]]
  OBVIOUS
<1> HIDE DEF L, step
<1>7. AreRests(level, g)
  BY <1>5, <1>6 DEF AreRests
<1> QED BY <1>7

(* After n of them the n earliest orders are gone. *)
EarliestGone(level, rest, n) ==
    LET gone == DOMAIN level \ DOMAIN rest
    IN  /\ IsMap(rest, Timestamps)
        /\ DOMAIN rest \subseteq DOMAIN level
        /\ \A ts \in DOMAIN rest : rest[ts] = level[ts]
        /\ Cardinality(gone) = n
        /\ \A i \in gone, j \in DOMAIN rest : i < j

LEMMA EarliestGo ==
    ASSUME NEW level, IsMap(level, Timestamps), IsFiniteSet(DOMAIN level),
           NEW g, AreRests(level, g),
           NEW n \in Nat, n <= Cardinality(DOMAIN level)
    PROVE  EarliestGone(level, g[n], n)
<1> DEFINE D == DOMAIN level
           S == {k \in Nat : k <= Cardinality(D) => EarliestGone(level, g[k], k)}
<1>1. 0 \in S
  <2>1. g[0] = level
    BY DEF AreRests
  <2>2. D \ D = {} /\ Cardinality({}) = 0
    BY FS_EmptySet
  <2> QED BY <2>1, <2>2 DEF EarliestGone
<1>2. ASSUME NEW k \in Nat, k \in S PROVE k + 1 \in S
  <2> SUFFICES ASSUME k + 1 <= Cardinality(D)
               PROVE  EarliestGone(level, g[k + 1], k + 1)
    OBVIOUS
  <2> DEFINE m == g[k]
             gone == D \ DOMAIN m
             first == First(m)
  <2>1. Cardinality(D) \in Nat /\ k <= Cardinality(D)
    BY FS_CardinalityType
  <2>2. EarliestGone(level, m, k)
    BY <1>2, <2>1
  <2>3. g[k + 1] = Drop(m, First(m))
    <3>1. k + 1 \in Nat /\ k + 1 # 0 /\ (k + 1) - 1 = k
      OBVIOUS
    <3> HIDE DEF S, D
    <3>2. g[k + 1] = Drop(g[(k + 1) - 1], First(g[(k + 1) - 1]))
      BY <3>1 DEF AreRests
    <3> QED BY <3>1, <3>2
  <2>4. DOMAIN m # {}
    <3> SUFFICES ASSUME DOMAIN m = {} PROVE FALSE
      OBVIOUS
    <3>1. gone = D
      OBVIOUS
    <3>2. Cardinality(gone) = k
      BY <2>2 DEF EarliestGone
    <3> HIDE DEF m, D
    <3> QED BY <2>1, <3>1, <3>2
  <2> HIDE DEF m
  <2>5. IsMap(m, Timestamps) /\ DOMAIN m \subseteq D /\ \A ts \in DOMAIN m : m[ts] = level[ts]
    BY <2>2 DEF EarliestGone
  <2>6. first \in DOMAIN m /\ \A ts \in DOMAIN m : first <= ts
    BY <2>4, <2>5, FirstTimestamp
  <2>7. \A ts \in D : ts \in Int
    BY OrdersAssumption DEF IsMap, Timestamps
  <2> HIDE DEF first
  <2> DEFINE rest == Drop(m, first)
  <2>8. /\ IsMap(rest, Timestamps) /\ DOMAIN rest = DOMAIN m \ {first}
        /\ \A ts \in DOMAIN rest : rest[ts] = level[ts]
    <3>1. /\ IsMap(rest, Timestamps) /\ DOMAIN rest = DOMAIN m \ {first}
          /\ \A ts \in DOMAIN m : ts # first => rest[ts] = m[ts]
      <4> HIDE DEF S, D
      <4>1. IsMap(m, Timestamps)
        BY <2>5
      <4> QED BY <4>1, DropMap, Zenon
    <3> HIDE DEF rest, D
    <3> QED BY <2>5, <3>1
  <2> HIDE DEF rest
  <2>9. D \ DOMAIN rest = gone \cup {first} /\ first \notin gone
    BY <2>5, <2>6, <2>8
  <2>10. Cardinality(D \ DOMAIN rest) = k + 1
    <3>1. IsFiniteSet(gone) /\ Cardinality(gone) = k
      BY <2>2, FS_Subset DEF EarliestGone
    <3> HIDE DEF gone
    <3> QED BY <2>9, <3>1, FS_AddElement
  <2>11. \A i \in D \ DOMAIN rest, j \in DOMAIN rest : i < j
    <3>1. \A i \in gone, j \in DOMAIN m : i < j
      BY <2>2 DEF EarliestGone
    <3>2. \A j \in DOMAIN rest : j \in DOMAIN m /\ first < j
      BY <2>5, <2>6, <2>7, <2>8
    <3> HIDE DEF gone
    <3> QED BY <2>9, <3>1, <3>2
  <2>12. EarliestGone(level, rest, k + 1)
    BY <2>5, <2>8, <2>10, <2>11 DEF EarliestGone
  <2> QED BY <2>3, <2>12 DEF rest, first
<1>3. Nat \subseteq S
  <2> HIDE DEF S
  <2> QED BY <1>1, <1>2, Induction
<1>4. n \in S
  BY <1>3
<1> QED BY <1>4

LEMMA RemoveFirst ==
    ASSUME NEW level, IsMap(level, Timestamps), IsFiniteSet(DOMAIN level), NEW n \in Int
    PROVE  LET rest == LevelRemoveFirst(level, n)
               gone == DOMAIN level \ DOMAIN rest
           IN  /\ Range(rest) \subseteq Range(level)
               /\ Cardinality(gone) = IF n \in 0 .. LevelSize(level) THEN n ELSE LevelSize(level)
               /\ \A i \in gone, j \in DOMAIN rest : i < j
<1> DEFINE rest == LevelRemoveFirst(level, n)
           g == CHOOSE h : AreRests(level, h)
           size == LevelSize(level)
<1>1. size = Cardinality(DOMAIN level) /\ size \in Nat
  BY FS_CardinalityType DEF LevelSize
<1>2. CASE n < 0 \/ size <= n
  <2>1. rest = LevelClear
    BY <1>2 DEF LevelRemoveFirst
  <2>2. DOMAIN rest = {} /\ DOMAIN level \ DOMAIN rest = DOMAIN level
    BY <2>1 DEF LevelClear, EmptyMap
  <2> HIDE DEF rest, size
  <2>3. Range(rest) = {}
    BY <2>2 DEF Range
  <2>4. (IF n \in 0 .. size THEN n ELSE size) = size
    BY <1>1, <1>2
  <2> QED BY <1>1, <2>2, <2>3, <2>4 DEF rest, size
<1>3. CASE ~ (n < 0 \/ size <= n)
  <2>1. AreRests(level, g)
    BY RestsExist
  <2>2. rest = g[n]
    BY <1>3 DEF LevelRemoveFirst, AreRests
  <2> HIDE DEF g, rest, size
  <2>3. n \in Nat /\ n \in 0 .. size /\ n <= Cardinality(DOMAIN level)
    BY <1>1, <1>3
  <2>4. EarliestGone(level, rest, n)
    BY <2>1, <2>2, <2>3, EarliestGo
  <2>5. Range(rest) \subseteq Range(level)
    BY <2>4 DEF EarliestGone, Range
  <2> QED BY <2>3, <2>4, <2>5 DEF EarliestGone, rest, size
<1> QED BY <1>2, <1>3

TakesAnyNumber ==
    \A t \in OrderType : \A level \in Range(book[t]) : \A n \in Int : TakesEarliest(level, n)

(* remove(n) takes the n earliest orders of a level away, and all of them  *)
(* when there are no more or n is negative (orderbook.cpp:20-30): from     *)
(* every level that rests in the book, and for every n.                    *)
THEOREM EarliestRemoved == Spec => [](RemovesEarliest /\ TakesAnyNumber)
<1>1. Inv /\ FiniteBook => TakesAnyNumber
  <2> SUFFICES ASSUME Inv, FiniteBook,
                      NEW t \in OrderType, NEW level \in Range(book[t]), NEW n \in Int
               PROVE  TakesEarliest(level, n)
    BY DEF TakesAnyNumber
  <2>1. PICK p \in DOMAIN book[t] : level = book[t][p]
    BY DEF Range
  <2>2. IsMap(level, Timestamps) /\ IsFiniteSet(DOMAIN level)
    BY <2>1, InvBook, LevelFinite DEF ValidLevel
  <2> QED BY <2>2, RemoveFirst, Zenon DEF TakesEarliest
<1>2. TakesAnyNumber => RemovesEarliest
  <2>1. \A a, b : \A n \in a .. b : n \in Int
    OBVIOUS
  <2> QED BY <2>1, Zenon DEF TakesAnyNumber, RemovesEarliest
<1>3. Inv /\ FiniteBook => RemovesEarliest /\ TakesAnyNumber
  BY <1>1, <1>2
<1> QED BY <1>3, InitInv, NextInv, InitFinite, NextFinite, PTL DEF Spec

-----------------------------------------------------------------------------
(* What only the tests call: is_empty() and getPrice(). *)

LEMMA EmptyViews ==
    ASSUME ValidBook(book), FiniteBook
    PROVE  /\ IsEmpty(book) <=> \A t \in OrderType : DOMAIN book[t] = {}
           /\ Resting(book) = {} <=> \A t \in OrderType : DOMAIN book[t] = {}
<1>1. ASSUME NEW t \in OrderType, NEW p \in DOMAIN book[t]
      PROVE  LevelSize(book[t][p]) # 0 /\ \E ts : ts \in DOMAIN book[t][p]
  <2> DEFINE D == DOMAIN book[t][p]
  <2>1. IsFiniteSet(D) /\ D # {}
    BY LevelFinite
  <2> HIDE DEF D
  <2>2. Cardinality(D) # 0
    BY <2>1, FS_EmptySet
  <2> QED BY <2>1, <2>2 DEF LevelSize, D
<1>2. IsEmpty(book) <=> \A t \in OrderType : DOMAIN book[t] = {}
  BY <1>1, Zenon DEF IsEmpty
<1>3. Resting(book) = {} <=> \A t \in OrderType : DOMAIN book[t] = {}
  <2>1. ASSUME \A t \in OrderType : DOMAIN book[t] = {}
        PROVE  Resting(book) = {}
    BY <2>1, RestingHasPlace
  <2>2. ASSUME NEW t \in OrderType, DOMAIN book[t] # {}
        PROVE  Resting(book) # {}
    <3>1. PICK p \in DOMAIN book[t] : TRUE
      BY <2>2
    <3>2. PICK ts : ts \in DOMAIN book[t][p]
      BY <1>1
    <3>3. book[t][p][ts] \in Resting(book)
      BY <3>2, RestingHasPlace
    <3> QED BY <3>3
  <2> QED BY <2>1, <2>2
<1> QED BY <1>2, <1>3

(* Half of a sum lies between the summands. *)
LEMMA HalfBetween ==
    ASSUME NEW a \in Int, NEW b \in Int, a <= b
    PROVE  Half(a + b) \in a .. b
<1>1. CASE a + b >= 0
  <2>1. Half(a + b) = (a + b) \div 2
    BY <1>1 DEF Half
  <2>2. (a + b) \div 2 \in Int /\ a <= (a + b) \div 2 /\ (a + b) \div 2 <= b
    BY SMT
  <2> QED BY <2>1, <2>2
<1>2. CASE a + b < 0
  <2> DEFINE n == - (a + b)
  <2>1. Half(a + b) = - (n \div 2)
    BY <1>2 DEF Half
  <2>2. n \in Int /\ n \div 2 \in Int /\ - b <= n \div 2 /\ n \div 2 <= - a
    BY SMT
  <2> HIDE DEF n
  <2> QED BY <2>1, <2>2
<1> QED BY <1>1, <1>2

(* A price is quoted exactly while somebody rests, and lies between the    *)
(* best ones of the two sides unless their sum overflows                   *)
(* (orderbook.cpp:113-147).                                                *)
THEOREM ViewsOfBookAgree == Spec => []ViewsAgree
<1> DEFINE asks == DOMAIN book["Ask"]
           bids == DOMAIN book["Bid"]
           ask == LevelPrice(Begin(book["Ask"]))
           bid == LevelPrice(Begin(book["Bid"]))
           bests == {LevelPrice(Begin(book[t])) :
                       t \in {u \in OrderType : HasBestLevel(book[u])}}
           Between == \A price \in BookPrice(book), a, b \in bests :
               (a <= b /\ bests = {a, b} /\ Wrap(a + b) = a + b) => price \in a .. b
<1>1. ASSUME Inv, FiniteBook
      PROVE  ViewsAgree
  <2>1. ValidBook(book)
    BY <1>1, InvBook
  <2>2. IsEmpty(book) <=> asks = {} /\ bids = {}
    BY <1>1, <2>1, EmptyViews DEF OrderType
  <2>3. IsEmpty(book) <=> Resting(book) = {}
    BY <1>1, <2>1, EmptyViews
  <2>4. /\ asks # {} => HasBestLevel(book["Ask"]) /\ ask \in Int
        /\ bids # {} => HasBestLevel(book["Bid"]) /\ bid \in Int
    <3>1. ASSUME NEW t \in OrderType, DOMAIN book[t] # {}
          PROVE  HasBestLevel(book[t]) /\ LevelPrice(Begin(book[t])) \in Int
      <4>1. LevelPrice(Begin(book[t])) = First(book[t]) /\ HasBestLevel(book[t])
        BY <2>1, <3>1, BestIsFirst
      <4>2. First(book[t]) \in Prices
        BY <2>1, <3>1, FirstPrice DEF ValidBook, ValidSide, IsMap
      <4> QED BY <4>1, <4>2, OrdersAssumption DEF Prices
    <3> QED BY <3>1 DEF OrderType
  <2>5. /\ asks = {} => ~ HasBestLevel(book["Ask"])
        /\ bids = {} => ~ HasBestLevel(book["Bid"])
    BY DEF HasBestLevel
  <2>6. /\ asks = {} /\ bids = {} => BookPrice(book) = {}
        /\ asks = {} /\ bids # {} => BookPrice(book) = {bid}
        /\ asks # {} /\ bids = {} => BookPrice(book) = {ask}
        /\ asks # {} /\ bids # {} => BookPrice(book) = {Half(Wrap(ask + bid))}
    BY DEF BookPrice
  <2>7. /\ asks = {} /\ bids # {} => bests = {bid}
        /\ asks # {} /\ bids = {} => bests = {ask}
        /\ asks # {} /\ bids # {} => bests = {ask, bid}
    BY <2>4, <2>5 DEF OrderType
  <2> HIDE DEF asks, bids, ask, bid, bests
  <2>8. IsEmpty(book) <=> BookPrice(book) = {}
    BY <2>2, <2>6
  <2>9. ASSUME NEW price \in BookPrice(book), NEW a \in bests, NEW b \in bests,
               a <= b, bests = {a, b}, Wrap(a + b) = a + b
        PROVE  price \in a .. b
    <3>1. CASE asks = {} \/ bids = {}
      <4>1. price = a /\ price = b /\ price \in Int
        BY <2>4, <2>6, <2>7, <2>9, <3>1
      <4> QED BY <4>1
    <3>2. CASE asks # {} /\ bids # {}
      <4>1. /\ ask \in Int /\ bid \in Int /\ {a, b} = {ask, bid}
            /\ price = Half(Wrap(ask + bid))
        BY <2>4, <2>6, <2>7, <2>9, <3>2
      <4>2. a \in Int /\ b \in Int /\ a + b = ask + bid
        <5>1. (a = ask /\ b = bid) \/ (a = bid /\ b = ask)
          <6>1. a \in {ask, bid} /\ b \in {ask, bid} /\ ask \in {a, b} /\ bid \in {a, b}
            BY <4>1
          <6> QED BY <6>1
        <5> QED BY <4>1, <5>1
      <4>3. price = Half(a + b)
        BY <2>9, <4>1, <4>2
      <4> QED BY <2>9, <4>2, <4>3, HalfBetween
    <3> QED BY <3>1, <3>2
  <2>10. Between
    BY <2>9
  <2> HIDE DEF Between
  <2>11. ViewsAgree <=>
           /\ IsEmpty(book) <=> Resting(book) = {}
           /\ IsEmpty(book) <=> BookPrice(book) = {}
           /\ Between
    BY DEF ViewsAgree, Between, bests
  <2> QED BY <2>3, <2>8, <2>10, <2>11
<1> QED BY <1>1, InitInv, NextInv, InitFinite, NextFinite, PTL DEF Spec

-----------------------------------------------------------------------------
(* Sums of volumes over what rests and over a log. *)

(* The volume in infos of the orders in O. *)
InfosOf(infos, O) == {info \in infos : info.full_order \in O}
VolumeFor(infos, O) == VolumeOf(InfosOf(infos, O))

LEMMA VolumeIsSum ==
    ASSUME NEW infos
    PROVE  VolumeOf(infos) = SumFunctionOnSet([info \in infos |-> info.volume], infos)
BY DEF VolumeOf, SumFunction

LEMMA VolumeWith ==
    ASSUME NEW infos, IsFiniteSet(infos), NEW y, y \notin infos,
           \A info \in infos \cup {y} : info.volume \in Int
    PROVE  /\ VolumeOf(infos) \in Int
           /\ VolumeOf(infos \cup {y}) = VolumeOf(infos) + y.volume
<1> DEFINE f == [info \in infos |-> info.volume]
           e == [info \in infos \cup {y} |-> info.volume]
<1>1. \A x \in infos : f[x] = e[x] /\ f[x] \in Int
  OBVIOUS
<1>2. \A x \in infos \cup {y} : e[x] \in Int
  OBVIOUS
<1>3. e[y] = y.volume
  OBVIOUS
<1>4. /\ VolumeOf(infos) = SumFunctionOnSet(f, infos)
      /\ VolumeOf(infos \cup {y}) = SumFunctionOnSet(e, infos \cup {y})
  BY VolumeIsSum
<1> HIDE DEF f, e
<1>5. SumFunctionOnSet(e, infos \cup {y}) = SumFunctionOnSet(f, infos) + e[y]
  BY <1>1, <1>2, SumWith
<1>6. SumFunctionOnSet(f, infos) \in Int
  BY <1>1, SumType
<1> QED BY <1>3, <1>4, <1>5, <1>6

(* One order more at rest. *)
LEMMA VolumeForMore ==
    ASSUME NEW infos, IsFiniteSet(infos), NEW y, y \notin infos,
           \A info \in infos \cup {y} : info.volume \in Int, NEW O
    PROVE  /\ VolumeFor(infos, O) \in Int
           /\ VolumeFor(infos \cup {y}, O) =
                VolumeFor(infos, O) + (IF y.full_order \in O THEN y.volume ELSE 0)
<1> DEFINE S == InfosOf(infos, O)
<1>1. IsFiniteSet(S) /\ y \notin S /\ \A info \in S \cup {y} : info.volume \in Int
  BY FS_Subset DEF InfosOf
<1>2. VolumeOf(S) \in Int /\ VolumeOf(S \cup {y}) = VolumeOf(S) + y.volume
  <2> HIDE DEF S
  <2> QED BY <1>1, VolumeWith
<1>3. CASE y.full_order \in O
  <2>1. InfosOf(infos \cup {y}, O) = S \cup {y}
    BY <1>3 DEF InfosOf
  <2> QED BY <1>2, <1>3, <2>1 DEF VolumeFor
<1>4. CASE y.full_order \notin O
  <2>1. InfosOf(infos \cup {y}, O) = S
    BY <1>4 DEF InfosOf
  <2> QED BY <1>2, <1>4, <2>1 DEF VolumeFor
<1> QED BY <1>3, <1>4

(* One order less. *)
LEMMA VolumeForLess ==
    ASSUME NEW infos, IsFiniteSet(infos), \A info \in infos : info.volume \in Int,
           NEW y \in infos, NEW O
    PROVE  /\ VolumeFor(infos, O) \in Int
           /\ VolumeFor(infos \ {y}, O) \in Int
           /\ VolumeFor(infos, O) =
                VolumeFor(infos \ {y}, O) + (IF y.full_order \in O THEN y.volume ELSE 0)
<1> DEFINE rest == infos \ {y}
<1>1. /\ IsFiniteSet(rest) /\ y \notin rest /\ rest \cup {y} = infos
      /\ \A info \in rest \cup {y} : info.volume \in Int
  BY FS_RemoveElement
<1>2. y.volume \in Int
  BY <1>1
<1> HIDE DEF rest
<1>3. /\ VolumeFor(rest, O) \in Int
      /\ VolumeFor(rest \cup {y}, O) =
           VolumeFor(rest, O) + (IF y.full_order \in O THEN y.volume ELSE 0)
  BY <1>1, VolumeForMore
<1> QED BY <1>1, <1>2, <1>3 DEF rest

(* One place more of a log. *)
LEMMA VolumeInWith ==
    ASSUME NEW log, NEW places, IsFiniteSet(places), NEW n, n \notin places,
           \A i \in places \cup {n} : log[i].volume \in Int,
           NEW order, log[n] = order, NEW t
    PROVE  /\ VolumeIn(log, places, t) \in Int
           /\ VolumeIn(log, places \cup {n}, t) =
                VolumeIn(log, places, t)
                + (IF order.order_type = t THEN order.volume ELSE 0)
<1> DEFINE S == {j \in places : log[j].order_type = t}
           T == {j \in places \cup {n} : log[j].order_type = t}
           f == [i \in S |-> log[i].volume]
           e == [i \in T |-> log[i].volume]
<1>1. /\ VolumeIn(log, places, t) = SumFunctionOnSet(f, S)
      /\ VolumeIn(log, places \cup {n}, t) = SumFunctionOnSet(e, T)
  BY DEF VolumeIn, SumFunction
<1>2. IsFiniteSet(S) /\ n \notin S
  BY FS_Subset
<1>3. \A x \in S : x \in T /\ f[x] = e[x] /\ f[x] \in Int /\ e[x] \in Int
  OBVIOUS
<1>4. SumFunctionOnSet(f, S) \in Int
  <2> HIDE DEF f, S
  <2> QED BY <1>2, <1>3, SumType
<1>5. CASE log[n].order_type = t
  <2>1. T = S \cup {n} /\ e[n] = log[n].volume /\ e[n] \in Int
    BY <1>5
  <2>2. SumFunctionOnSet(e, S \cup {n}) = SumFunctionOnSet(f, S) + e[n]
    <3> HIDE DEF f, e, S, T
    <3> QED BY <1>2, <1>3, <2>1, SumWith
  <2> HIDE DEF f, e, S, T
  <2> QED BY <1>1, <1>4, <1>5, <2>1, <2>2
<1>6. CASE log[n].order_type # t
  <2>1. T = S
    BY <1>6
  <2>2. SumFunctionOnSet(e, T) = SumFunctionOnSet(f, S)
    <3> HIDE DEF f, e, S, T
    <3> QED BY <1>2, <1>3, <2>1, SumOfSame
  <2> HIDE DEF f, e, S, T
  <2> QED BY <1>1, <1>4, <1>6, <2>2
<1> QED BY <1>5, <1>6

LEMMA VolumeInType ==
    ASSUME NEW log, NEW places, IsFiniteSet(places), \A i \in places : log[i] \in Orders, NEW t
    PROVE  VolumeIn(log, places, t) \in Int
<1> DEFINE S == {j \in places : log[j].order_type = t}
           f == [i \in S |-> log[i].volume]
<1>1. VolumeIn(log, places, t) = SumFunctionOnSet(f, S)
  BY DEF VolumeIn, SumFunction
<1>2. IsFiniteSet(S)
  BY FS_Subset
<1>3. \A x \in S : f[x] \in Int
  BY OrdersAssumption
<1> HIDE DEF f, S
<1> QED BY <1>1, <1>2, <1>3, SumType

LEMMA VolumeInNone ==
    ASSUME NEW log, NEW t
    PROVE  VolumeIn(log, {}, t) = 0
<1>1. DOMAIN [i \in {j \in {} : log[j].order_type = t} |-> log[i].volume] = {}
  OBVIOUS
<1> QED BY <1>1, SumOfNone DEF VolumeIn, SumFunction

LEMMA VolumeOfNone == VolumeOf({}) = 0
BY VolumeIsSum, SumOfNone

LEMMA RestingVolumes ==
    ASSUME ValidBook(book)
    PROVE  \A info \in Resting(book) : info.volume \in Nat \ {0}
<1> SUFFICES ASSUME NEW info \in Resting(book) PROVE info.volume \in Nat \ {0}
  OBVIOUS
<1>1. info.volume \in 1 .. info.full_order.volume /\ info.full_order.volume \in Nat
  BY RestingIsFiled
<1> QED BY <1>1

(* What an arrival does to the volumes at rest: the order's place is its   *)
(* own now.                                                                *)
LEMMA PollAddVolumes ==
    ASSUME ValidBook(book), FiniteBook, NEW order \in Orders, PollAdd(order), NEW O
    PROVE  LET others == {i \in Resting(book) :
                            ~ At(i, order.order_type, order.price, order.timestamp_exchange)}
           IN  /\ VolumeFor(others, O) \in Int
               /\ VolumeFor(Resting(book'), O) =
                    VolumeFor(others, O) + (IF order \in O THEN order.volume ELSE 0)
<1> DEFINE others == {i \in Resting(book) :
                        ~ At(i, order.order_type, order.price, order.timestamp_exchange)}
           new == InfoOrder(order)
<1>1. Resting(book') = others \cup {new}
  BY PollAddStep
<1>2. IsFiniteSet(others)
  BY FS_Subset DEF FiniteBook
<1>3. new \notin others
  BY OrdersAssumption DEF At, InfoOrder
<1>4. new.volume = order.volume /\ new.full_order = order /\ order.volume \in Int
  BY OrdersAssumption DEF InfoOrder
<1>5. \A info \in others \cup {new} : info.volume \in Int
  BY <1>4, RestingVolumes
<1> HIDE DEF others, new
<1>6. /\ VolumeFor(others, O) \in Int
      /\ VolumeFor(others \cup {new}, O) =
           VolumeFor(others, O) + (IF new.full_order \in O THEN new.volume ELSE 0)
  BY <1>2, <1>3, <1>5, VolumeForMore
<1> QED BY <1>1, <1>4, <1>6 DEF others

(* What a turn of the loop does to them: the ask and the bid lose the same *)
(* volume, and nobody else loses any (matcher.cpp:32-53).                  *)
LEMMA TurnVolumes ==
    ASSUME Inv, FiniteBook, AskExhausted \/ BidExhausted \/ BothExhausted
    PROVE  LET ask == BestAsk(book).full_order
               bid == BestBid(book).full_order
           IN  /\ ask.order_type = "Ask" /\ ask \in Orders
               /\ bid.order_type = "Bid" /\ bid \in Orders
               /\ \E v \in Nat : \A O :
                    /\ VolumeFor(Resting(book), O) \in Int
                    /\ VolumeFor(Resting(book'), O) \in Int
                    /\ VolumeFor(Resting(book), O) =
                         VolumeFor(Resting(book'), O)
                         + (IF ask \in O THEN v ELSE 0) + (IF bid \in O THEN v ELSE 0)
<1> DEFINE ask == BestAsk(book)
           bid == BestBid(book)
           R == Resting(book)
           rest == (R \ {ask}) \ {bid}
           Loses(info, O, v) == IF info.full_order \in O THEN v ELSE 0
<1>1. ValidBook(book) /\ Crossing
  BY InvBook DEF AskExhausted, BidExhausted, BothExhausted
<1>2. ask \in R /\ bid \in R /\ SideOf(ask) = "Ask" /\ SideOf(bid) = "Bid" /\ ask # bid
  BY <1>1, BestOrders
<1>3. /\ ask.full_order \in Orders /\ ask.full_order.order_type = "Ask"
      /\ bid.full_order \in Orders /\ bid.full_order.order_type = "Bid"
  BY <1>1, <1>2, RestingIsFiled
<1>4. \A info \in R : info.volume \in Nat \ {0}
  BY <1>1, RestingVolumes
<1>5. ASSUME NEW O
      PROVE  /\ VolumeFor(R, O) \in Int /\ VolumeFor(rest, O) \in Int
             /\ VolumeFor(R, O) = VolumeFor(rest, O)
                                  + Loses(ask, O, ask.volume) + Loses(bid, O, bid.volume)
  <2>1. IsFiniteSet(R) /\ IsFiniteSet(R \ {ask}) /\ bid \in R \ {ask}
    BY <1>2, FS_RemoveElement DEF FiniteBook
  <2>2. \A info \in R : info.volume \in Int
    BY <1>4
  <2> HIDE DEF R, ask, bid
  <2>3. /\ VolumeFor(R, O) \in Int /\ VolumeFor(R \ {ask}, O) \in Int
        /\ VolumeFor(R, O) = VolumeFor(R \ {ask}, O) + Loses(ask, O, ask.volume)
    BY <1>2, <2>1, <2>2, VolumeForLess
  <2>4. /\ VolumeFor(rest, O) \in Int
        /\ VolumeFor(R \ {ask}, O) = VolumeFor(rest, O) + Loses(bid, O, bid.volume)
    BY <2>1, <2>2, VolumeForLess
  <2>5. ask.volume \in Int /\ bid.volume \in Int
    BY <1>2, <2>2
  <2> HIDE DEF rest
  <2> QED BY <2>3, <2>4, <2>5
<1>6. ASSUME NEW reduced, reduced \notin R, reduced.volume \in Int,
             Resting(book') = rest \cup {reduced}, NEW O
      PROVE  /\ VolumeFor(Resting(book'), O) \in Int
             /\ VolumeFor(Resting(book'), O) =
                  VolumeFor(rest, O) + Loses(reduced, O, reduced.volume)
  <2>1. IsFiniteSet(rest) /\ reduced \notin rest /\ \A info \in rest : info.volume \in Int
    BY <1>4, <1>6, FS_Subset DEF FiniteBook
  <2> HIDE DEF rest
  <2>2. /\ VolumeFor(rest, O) \in Int
        /\ VolumeFor(rest \cup {reduced}, O) =
             VolumeFor(rest, O) + Loses(reduced, O, reduced.volume)
    BY <1>6, <2>1, VolumeForMore
  <2> QED BY <1>6, <2>2
<1>7. ask.volume \in Nat \ {0} /\ bid.volume \in Nat \ {0}
  BY <1>2, <1>4
<1>8. ASSUME NEW kept \in R, NEW reduced, reduced.full_order = kept.full_order,
             reduced.volume # kept.volume
      PROVE  reduced \notin R
  BY <1>1, <1>8, SameOrderSameInfo
<1> DEFINE Settles(v) == \A O :
             /\ VolumeFor(R, O) \in Int /\ VolumeFor(Resting(book'), O) \in Int
             /\ VolumeFor(R, O) = VolumeFor(Resting(book'), O) + Loses(ask, O, v) + Loses(bid, O, v)
<1>9. ASSUME AskExhausted PROVE \E v \in Nat : Settles(v)
  <2> DEFINE reduced == [bid EXCEPT !.volume = bid.volume - ask.volume]
  <2>1. /\ Resting(book') = (R \ {bid, ask}) \cup {reduced}
        /\ reduced.full_order = bid.full_order
        /\ reduced.volume = bid.volume - ask.volume
    BY <1>1, <1>9, AskExhaustedStep
  <2> HIDE DEF reduced, ask, bid, R
  <2>2. reduced \notin R /\ Resting(book') = rest \cup {reduced} /\ reduced.volume \in Int
    BY <1>2, <1>7, <1>8, <2>1
  <2>3. Settles(ask.volume)
    <3> SUFFICES ASSUME NEW O
                 PROVE  /\ VolumeFor(R, O) \in Int /\ VolumeFor(Resting(book'), O) \in Int
                        /\ VolumeFor(R, O) = VolumeFor(Resting(book'), O)
                             + Loses(ask, O, ask.volume) + Loses(bid, O, ask.volume)
      OBVIOUS
    <3>1. /\ VolumeFor(R, O) \in Int /\ VolumeFor(rest, O) \in Int
          /\ VolumeFor(R, O) = VolumeFor(rest, O)
                               + Loses(ask, O, ask.volume) + Loses(bid, O, bid.volume)
      BY <1>5
    <3>2. /\ VolumeFor(Resting(book'), O) \in Int
          /\ VolumeFor(Resting(book'), O) =
               VolumeFor(rest, O) + Loses(reduced, O, reduced.volume)
      BY <1>6, <2>2
    <3> HIDE DEF rest
    <3> QED BY <1>7, <2>1, <3>1, <3>2
  <2> HIDE DEF Settles
  <2> QED BY <1>7, <2>3
<1>10. ASSUME BidExhausted PROVE \E v \in Nat : Settles(v)
  <2> DEFINE reduced == [ask EXCEPT !.volume = ask.volume - bid.volume]
  <2>1. /\ Resting(book') = (R \ {ask, bid}) \cup {reduced}
        /\ reduced.full_order = ask.full_order
        /\ reduced.volume = ask.volume - bid.volume
    BY <1>1, <1>10, BidExhaustedStep
  <2> HIDE DEF reduced, ask, bid, R
  <2>2. reduced \notin R /\ Resting(book') = rest \cup {reduced} /\ reduced.volume \in Int
    BY <1>2, <1>7, <1>8, <2>1
  <2>3. Settles(bid.volume)
    <3> SUFFICES ASSUME NEW O
                 PROVE  /\ VolumeFor(R, O) \in Int /\ VolumeFor(Resting(book'), O) \in Int
                        /\ VolumeFor(R, O) = VolumeFor(Resting(book'), O)
                             + Loses(ask, O, bid.volume) + Loses(bid, O, bid.volume)
      OBVIOUS
    <3>1. /\ VolumeFor(R, O) \in Int /\ VolumeFor(rest, O) \in Int
          /\ VolumeFor(R, O) = VolumeFor(rest, O)
                               + Loses(ask, O, ask.volume) + Loses(bid, O, bid.volume)
      BY <1>5
    <3>2. /\ VolumeFor(Resting(book'), O) \in Int
          /\ VolumeFor(Resting(book'), O) =
               VolumeFor(rest, O) + Loses(reduced, O, reduced.volume)
      BY <1>6, <2>2
    <3> HIDE DEF rest
    <3> QED BY <1>7, <2>1, <3>1, <3>2
  <2> HIDE DEF Settles
  <2> QED BY <1>7, <2>3
<1>11. ASSUME BothExhausted PROVE \E v \in Nat : Settles(v)
  <2>1. Resting(book') = R \ {ask, bid} /\ ask.volume = bid.volume
    BY <1>1, <1>11, BothExhaustedStep DEF BothExhausted
  <2>2. Resting(book') = rest
    BY <2>1
  <2> HIDE DEF ask, bid, R, rest
  <2>3. Settles(ask.volume)
    BY <1>5, <2>1, <2>2
  <2> HIDE DEF Settles
  <2> QED BY <1>7, <2>3
<1>12. \E v \in Nat : Settles(v)
  BY <1>9, <1>10, <1>11
<1> QED BY <1>3, <1>12

LEMMA VolumeInSame ==
    ASSUME NEW log, NEW places, IsFiniteSet(places), NEW longer,
           \A i \in places : longer[i] = log[i], NEW t
    PROVE  VolumeIn(longer, places, t) = VolumeIn(log, places, t)
<1> DEFINE S == {j \in places : log[j].order_type = t}
           f == [i \in S |-> log[i].volume]
           e == [i \in S |-> longer[i].volume]
<1>1. S = {j \in places : longer[j].order_type = t}
  OBVIOUS
<1>2. e = f
  OBVIOUS
<1> QED BY <1>1, <1>2 DEF VolumeIn

(* The volume at rest on a side, as the volume of the orders of that type. *)
LEMMA RestingOnSide ==
    ASSUME NEW b, ValidBook(b), NEW t
    PROVE  VolumeOf(RestingOn(b, t)) = VolumeFor(Resting(b), {o \in Orders : o.order_type = t})
<1>1. RestingOn(b, t) = InfosOf(Resting(b), {o \in Orders : o.order_type = t})
  BY RestingIsFiled DEF RestingOn, InfosOf
<1> QED BY <1>1 DEF VolumeFor

LEMMA RestingVolumeType ==
    ASSUME ValidBook(book), FiniteBook, NEW O
    PROVE  VolumeFor(Resting(book), O) \in Nat
<1> DEFINE S == InfosOf(Resting(book), O)
           f == [info \in S |-> info.volume]
<1>1. VolumeFor(Resting(book), O) = SumFunctionOnSet(f, S)
  BY VolumeIsSum DEF VolumeFor
<1>2. IsFiniteSet(S)
  BY FS_Subset DEF InfosOf, FiniteBook
<1>3. \A x \in S : f[x] \in Nat
  BY RestingVolumes DEF InfosOf
<1> HIDE DEF f, S
<1> QED BY <1>1, <1>2, <1>3, SumOfNaturals

LEMMA SideVolumeType ==
    ASSUME ValidBook(book), FiniteBook, NEW t
    PROVE  VolumeOf(RestingOn(book, t)) \in Int
<1> DEFINE O == {o \in Orders : o.order_type = t}
<1>1. VolumeOf(RestingOn(book, t)) = VolumeFor(Resting(book), O)
  BY RestingOnSide
<1> HIDE DEF O
<1> QED BY <1>1, RestingVolumeType

(* An order that finds its place free adds to what came and to what rests. *)
LEMMA PollAddBalance ==
    ASSUME ValidBook(book), FiniteBook, NEW order \in Orders, PollAdd(order),
           \A i \in Resting(book) :
              ~ At(i, order.order_type, order.price, order.timestamp_exchange),
           NEW log, NEW places, IsFiniteSet(places), NEW n, n \notin places,
           \A i \in places : log[i] \in Orders, log[n] = order, NEW t
    PROVE  VolumeIn(log, places \cup {n}, t) - VolumeOf(RestingOn(book', t)) =
             VolumeIn(log, places, t) - VolumeOf(RestingOn(book, t))
<1> DEFINE O == {o \in Orders : o.order_type = t}
           more == IF order.order_type = t THEN order.volume ELSE 0
<1>1. order.volume \in Int /\ more = IF order \in O THEN order.volume ELSE 0
  BY OrdersAssumption
<1>2. /\ VolumeIn(log, places, t) \in Int
      /\ VolumeIn(log, places \cup {n}, t) = VolumeIn(log, places, t) + more
  <2>1. \A i \in places \cup {n} : log[i].volume \in Int
    BY OrdersAssumption
  <2> HIDE DEF more
  <2>2. VolumeIn(log, places, t) \in Int
    BY <2>1, VolumeInWith
  <2>3. VolumeIn(log, places \cup {n}, t) =
          VolumeIn(log, places, t) + (IF order.order_type = t THEN order.volume ELSE 0)
    BY <1>1, <2>1, VolumeInWith
  <2> QED BY <2>2, <2>3 DEF more
<1>3. /\ VolumeFor(Resting(book), O) \in Int
      /\ VolumeFor(Resting(book'), O) = VolumeFor(Resting(book), O) + more
  <2> DEFINE others == {i \in Resting(book) :
                          ~ At(i, order.order_type, order.price, order.timestamp_exchange)}
  <2>1. others = Resting(book)
    OBVIOUS
  <2>2. /\ VolumeFor(others, O) \in Int
        /\ VolumeFor(Resting(book'), O) =
             VolumeFor(others, O) + (IF order \in O THEN order.volume ELSE 0)
    <3> HIDE DEF O
    <3> QED BY PollAddVolumes
  <2> HIDE DEF others, O, more
  <2> QED BY <1>1, <2>1, <2>2
<1>4. /\ VolumeOf(RestingOn(book, t)) = VolumeFor(Resting(book), O)
      /\ VolumeOf(RestingOn(book', t)) = VolumeFor(Resting(book'), O)
  BY PollAddStep, RestingOnSide
<1> HIDE DEF O
<1> QED BY <1>1, <1>2, <1>3, <1>4

LEMMA TurnBalance ==
    ASSUME Inv, FiniteBook, AskExhausted \/ BidExhausted \/ BothExhausted
    PROVE  \E v \in Nat : \A t \in OrderType :
              /\ VolumeOf(RestingOn(book, t)) \in Int
              /\ VolumeOf(RestingOn(book', t)) = VolumeOf(RestingOn(book, t)) - v
<1> DEFINE ask == BestAsk(book).full_order
           bid == BestBid(book).full_order
           O(t) == {o \in Orders : o.order_type = t}
<1>1. /\ ask.order_type = "Ask" /\ ask \in Orders
      /\ bid.order_type = "Bid" /\ bid \in Orders
  BY TurnVolumes
<1>2. PICK v \in Nat : \A P :
         /\ VolumeFor(Resting(book), P) \in Int
         /\ VolumeFor(Resting(book'), P) \in Int
         /\ VolumeFor(Resting(book), P) =
              VolumeFor(Resting(book'), P)
              + (IF ask \in P THEN v ELSE 0) + (IF bid \in P THEN v ELSE 0)
  BY TurnVolumes
<1>3. ASSUME NEW t \in OrderType
      PROVE  /\ VolumeOf(RestingOn(book, t)) \in Int
             /\ VolumeOf(RestingOn(book', t)) = VolumeOf(RestingOn(book, t)) - v
  <2>1. ValidBook(book) /\ ValidBook(book')
    BY InvBook, AskExhaustedStep, BidExhaustedStep, BothExhaustedStep
  <2>2. /\ VolumeOf(RestingOn(book, t)) = VolumeFor(Resting(book), O(t))
        /\ VolumeOf(RestingOn(book', t)) = VolumeFor(Resting(book'), O(t))
    BY <2>1, RestingOnSide
  <2>3. ask \in O(t) <=> t = "Ask"
    BY <1>1
  <2>4. bid \in O(t) <=> t = "Bid"
    BY <1>1
  <2>5. t = "Ask" \/ t = "Bid"
    BY DEF OrderType
  <2> HIDE DEF ask, bid, O
  <2>6. /\ VolumeFor(Resting(book), O(t)) \in Int
        /\ VolumeFor(Resting(book'), O(t)) \in Int
        /\ VolumeFor(Resting(book), O(t)) =
             VolumeFor(Resting(book'), O(t))
             + (IF ask \in O(t) THEN v ELSE 0) + (IF bid \in O(t) THEN v ELSE 0)
    BY <1>2
  <2> QED BY <2>2, <2>3, <2>4, <2>5, <2>6
<1> QED BY <1>3

(* A turn brings no order to the book. *)
LEMMA TurnOrders ==
    ASSUME Inv, AskExhausted \/ BidExhausted \/ BothExhausted
    PROVE  \A i \in Resting(book') : \E j \in Resting(book) : i.full_order = j.full_order
<1>1. ValidBook(book) /\ Crossing
  BY InvBook DEF AskExhausted, BidExhausted, BothExhausted
<1>2. BestAsk(book) \in Resting(book) /\ BestBid(book) \in Resting(book)
  BY <1>1, BestOrders
<1>3. CASE AskExhausted
  BY <1>1, <1>2, <1>3, AskExhaustedStep
<1>4. CASE BidExhausted
  BY <1>1, <1>2, <1>4, BidExhaustedStep
<1>5. CASE BothExhausted
  BY <1>1, <1>2, <1>5, BothExhaustedStep
<1> QED BY <1>3, <1>4, <1>5

-----------------------------------------------------------------------------
(* The matcher implements Matching. *)

Entries(R) == {[order |-> info.full_order, remaining |-> info.volume] : info \in R}

LEMMA ActiveEntries == Active = Entries(Resting(book))
BY DEF Active, Entries

(* The abstract entry of an order at rest stands for that order only. *)
LEMMA EntriesWithout ==
    ASSUME NEW b, ValidBook(b), NEW i \in Resting(b), NEW j \in Resting(b)
    PROVE  LET entry(info) == [order |-> info.full_order, remaining |-> info.volume]
           IN  Entries(Resting(b) \ {i, j}) = Entries(Resting(b)) \ {entry(i), entry(j)}
<1> DEFINE entry(info) == [order |-> info.full_order, remaining |-> info.volume]
<1>1. ASSUME NEW x \in Resting(b), NEW y \in Resting(b), entry(x) = entry(y)
      PROVE  x = y
  <2>1. x.full_order = y.full_order /\ x.volume = y.volume
    BY <1>1
  <2>2. /\ x \in InfoOrders /\ x.price = x.full_order.price
        /\ y \in InfoOrders /\ y.price = y.full_order.price
    BY RestingIsFiled
  <2> QED BY <2>1, <2>2 DEF InfoOrders
<1>2. \A R : Entries(R) = {entry(x) : x \in R}
  BY DEF Entries
<1> HIDE DEF entry
<1> QED BY <1>1, <1>2 DEF entry

LEMMA AcceptRefined ==
    ASSUME ValidBook(book), NEW order \in Orders, PollAdd(order)
    PROVE  Abstract!Accept(order)
<1> DEFINE entry(info) == [order |-> info.full_order, remaining |-> info.volume]
           Away(i) == ~ At(i, order.order_type, order.price, order.timestamp_exchange)
<1>1. /\ Active = {entry(i) : i \in Resting(book)}
      /\ Active' = {entry(i) : i \in Resting(book')}
  BY DEF Active
<1>2. Resting(book') = {i \in Resting(book) : Away(i)} \cup {InfoOrder(order)}
  BY PollAddStep
<1>3. entry(InfoOrder(order)) = [order |-> order, remaining |-> order.volume]
  BY DEF InfoOrder
<1>4. ASSUME NEW i \in Resting(book)
      PROVE  Away(i) <=> ~ Abstract!SamePlace(entry(i).order, order)
  BY RestingIsFiled DEF At, Abstract!SamePlace
<1> HIDE DEF entry, Away
<1>5. Active' = {e \in Active : ~ Abstract!SamePlace(e.order, order)}
                \cup {[order |-> order, remaining |-> order.volume]}
  BY <1>1, <1>2, <1>3, <1>4
<1> QED BY <1>5 DEF Abstract!Accept, Abstract!Elsewhere, Abstract!Entry

LEMMA WithdrawRefined ==
    ASSUME ValidBook(book), NEW order \in Orders, PollRemove(order)
    PROVE  Abstract!Withdraw(order)
<1> DEFINE entry(info) == [order |-> info.full_order, remaining |-> info.volume]
           Away(i) == ~ At(i, order.order_type, order.price, order.timestamp_exchange)
<1>1. /\ Active = {entry(i) : i \in Resting(book)}
      /\ Active' = {entry(i) : i \in Resting(book')}
  BY DEF Active
<1>2. Resting(book') = {i \in Resting(book) : Away(i)}
  BY PollRemoveStep
<1>3. ASSUME NEW i \in Resting(book)
      PROVE  Away(i) <=> ~ Abstract!SamePlace(entry(i).order, order)
  BY RestingIsFiled DEF At, Abstract!SamePlace
<1> HIDE DEF entry, Away
<1>4. Active' = {e \in Active : ~ Abstract!SamePlace(e.order, order)}
  BY <1>1, <1>2, <1>3
<1> QED BY <1>4 DEF Abstract!Withdraw, Abstract!Elsewhere

(* The entries of the ask and the bid of a turn may trade.                 *)
LEMMA BestMayTrade ==
    ASSUME ValidBook(book), Crossing
    PROVE  LET entry(info) == [order |-> info.full_order, remaining |-> info.volume]
               ask == BestAsk(book)
               bid == BestBid(book)
           IN  /\ entry(ask) \in Active /\ entry(bid) \in Active
               /\ Abstract!NextAsk(entry(ask))
               /\ Abstract!NextBidOfItsPrice(entry(bid))
               /\ entry(ask).order.price <= entry(bid).order.price
<1> DEFINE entry(info) == [order |-> info.full_order, remaining |-> info.volume]
           ask == BestAsk(book)
           bid == BestBid(book)
<1>1. /\ ask \in Resting(book) /\ SideOf(ask) = "Ask"
      /\ bid \in Resting(book) /\ SideOf(bid) = "Bid"
      /\ ask.price <= bid.price
      /\ \A i \in Resting(book) :
           SideOf(i) = "Ask" =>
             /\ ask.price <= i.price
             /\ i.price = ask.price =>
                  ask.full_order.timestamp_exchange <= i.full_order.timestamp_exchange
      /\ \A i \in Resting(book) :
           SideOf(i) = "Bid" =>
             /\ bid.price <= i.price
             /\ i.price = bid.price =>
                  bid.full_order.timestamp_exchange <= i.full_order.timestamp_exchange
  BY BestOrders
<1>2. ASSUME NEW i \in Resting(book)
      PROVE  /\ SideOf(i) = i.full_order.order_type
             /\ i.price = i.full_order.price
             /\ i.full_order.timestamp_exchange \in Int
  BY RestingIsFiled, OrdersAssumption
<1>3. Active = {entry(i) : i \in Resting(book)}
  BY DEF Active
<1>4. \A i : entry(i).order = i.full_order
  OBVIOUS
<1> HIDE DEF ask, bid, entry
<1>5. Abstract!NextAsk(entry(ask))
  <2>1. ASSUME NEW i \in Resting(book), i.full_order.order_type = "Ask"
        PROVE  /\ ask.full_order.price <= i.full_order.price
               /\ ~ Abstract!Earlier(i.full_order, ask.full_order)
    BY <1>1, <1>2, <2>1 DEF Abstract!Earlier
  <2> QED BY <1>1, <1>2, <1>3, <1>4, <2>1 DEF Abstract!NextAsk
<1>6. Abstract!NextBidOfItsPrice(entry(bid))
  <2>1. ASSUME NEW i \in Resting(book), i.full_order.order_type = "Bid"
        PROVE  ~ Abstract!Earlier(i.full_order, bid.full_order)
    BY <1>1, <1>2, <2>1 DEF Abstract!Earlier
  <2> QED BY <1>1, <1>2, <1>3, <1>4, <2>1 DEF Abstract!NextBidOfItsPrice
<1>7. /\ entry(ask) \in Active /\ entry(bid) \in Active
      /\ entry(ask).order.price <= entry(bid).order.price
  BY <1>1, <1>2, <1>3, <1>4
<1> QED BY <1>5, <1>6, <1>7 DEF ask, bid, entry

(* Abstract!Trade when the ask, the bid or both are used up.               *)
LEMMA TradeOutcome ==
    ASSUME ValidBook(book), Crossing, NEW R,
           LET ask == BestAsk(book)
               bid == BestBid(book)
           IN  \/ /\ ask.volume < bid.volume
                  /\ R = {[order |-> bid.full_order, remaining |-> bid.volume - ask.volume]}
               \/ /\ ask.volume > bid.volume
                  /\ R = {[order |-> ask.full_order, remaining |-> ask.volume - bid.volume]}
               \/ /\ ask.volume = bid.volume
                  /\ R = {},
           Active' = Entries(Resting(book) \ {BestAsk(book), BestBid(book)}) \cup R
    PROVE  \E ask, bid \in Active : Abstract!Trade(ask, bid)
<1> DEFINE a == BestAsk(book)
           b == BestBid(book)
           ask == [order |-> a.full_order, remaining |-> a.volume]
           bid == [order |-> b.full_order, remaining |-> b.volume]
           volume == IF ask.remaining <= bid.remaining THEN ask.remaining ELSE bid.remaining
           after == {Abstract!Entry(e.order, e.remaining - volume) : e \in {ask, bid}}
<1>1. /\ ask \in Active /\ bid \in Active
      /\ Abstract!NextAsk(ask) /\ Abstract!NextBidOfItsPrice(bid)
      /\ ask.order.price <= bid.order.price
  BY BestMayTrade
<1>2. a \in Resting(book) /\ b \in Resting(book)
  BY BestOrders
<1>3. /\ a.volume \in Nat /\ a.volume > 0
      /\ b.volume \in Nat /\ b.volume > 0
  <2> HIDE DEF a, b
  <2>1. /\ a.volume \in 1 .. a.full_order.volume /\ a.full_order.volume \in Nat
        /\ b.volume \in 1 .. b.full_order.volume /\ b.full_order.volume \in Nat
    BY <1>2, RestingIsFiled
  <2> QED BY <2>1
<1>4. Entries(Resting(book) \ {a, b}) = Active \ {ask, bid}
  BY <1>2, EntriesWithout, ActiveEntries
<1>5. {e \in after : e.remaining > 0} = R
  <2>1. after = {[order |-> a.full_order, remaining |-> a.volume - volume],
                 [order |-> b.full_order, remaining |-> b.volume - volume]}
    BY DEF Abstract!Entry
  <2>2. \/ /\ a.volume < b.volume /\ volume = a.volume
           /\ R = {[order |-> b.full_order, remaining |-> b.volume - a.volume]}
        \/ /\ a.volume > b.volume /\ volume = b.volume
           /\ R = {[order |-> a.full_order, remaining |-> a.volume - b.volume]}
        \/ /\ a.volume = b.volume /\ volume = a.volume
           /\ R = {}
    BY <1>3
  <2> HIDE DEF a, b, volume, after
  <2> QED BY <1>3, <2>1, <2>2
<1>6. Active' = (Active \ {ask, bid}) \cup {e \in after : e.remaining > 0}
  BY <1>4, <1>5
<1>7. Abstract!Trade(ask, bid)
  BY <1>1, <1>6 DEF Abstract!Trade
<1> HIDE DEF ask, bid
<1> QED BY <1>1, <1>7

LEMMA TradeRefined ==
    ASSUME ValidBook(book), AskExhausted \/ BidExhausted \/ BothExhausted
    PROVE  \E ask, bid \in Active : Abstract!Trade(ask, bid)
<1> DEFINE entry(info) == [order |-> info.full_order, remaining |-> info.volume]
           ask == BestAsk(book)
           bid == BestBid(book)
<1>1. Crossing
  BY DEF AskExhausted, BidExhausted, BothExhausted
<1>2. Active' = Entries(Resting(book'))
  BY DEF Active, Entries
<1>3. CASE AskExhausted
  <2> DEFINE reduced == [bid EXCEPT !.volume = bid.volume - ask.volume]
  <2>1. /\ Resting(book') = (Resting(book) \ {ask, bid}) \cup {reduced}
        /\ reduced.full_order = bid.full_order
        /\ reduced.volume = bid.volume - ask.volume
    BY <1>3, AskExhaustedStep
  <2>2. ask.volume < bid.volume
    BY <1>3 DEF AskExhausted
  <2> HIDE DEF reduced
  <2>3. Active' = Entries(Resting(book) \ {ask, bid})
                    \cup {[order |-> bid.full_order, remaining |-> bid.volume - ask.volume]}
    <3>1. Active' = Entries(Resting(book) \ {ask, bid}) \cup {entry(reduced)}
      <4> HIDE DEF ask, bid
      <4> QED BY <1>2, <2>1 DEF Entries
    <3> QED BY <2>1, <3>1
  <2> QED BY <1>1, <2>2, <2>3, TradeOutcome
<1>4. CASE BidExhausted
  <2> DEFINE reduced == [ask EXCEPT !.volume = ask.volume - bid.volume]
  <2>1. /\ Resting(book') = (Resting(book) \ {ask, bid}) \cup {reduced}
        /\ reduced.full_order = ask.full_order
        /\ reduced.volume = ask.volume - bid.volume
    BY <1>4, BidExhaustedStep
  <2>2. ask.volume > bid.volume
    BY <1>4 DEF BidExhausted
  <2> HIDE DEF reduced
  <2>3. Active' = Entries(Resting(book) \ {ask, bid})
                    \cup {[order |-> ask.full_order, remaining |-> ask.volume - bid.volume]}
    <3>1. Active' = Entries(Resting(book) \ {ask, bid}) \cup {entry(reduced)}
      <4> HIDE DEF ask, bid
      <4> QED BY <1>2, <2>1 DEF Entries
    <3> QED BY <2>1, <3>1
  <2> QED BY <1>1, <2>2, <2>3, TradeOutcome
<1>5. CASE BothExhausted
  <2>1. Active' = Entries(Resting(book) \ {ask, bid}) \cup {}
    BY <1>2, <1>5, BothExhaustedStep
  <2>2. ask.volume = bid.volume
    BY <1>5 DEF BothExhausted
  <2> QED BY <1>1, <2>1, <2>2, TradeOutcome
<1> QED BY <1>3, <1>4, <1>5

LEMMA InitRefined == Init => Abstract!Init
BY DEF Init, EmptyBook, EmptyMap, OrderType, Range, Resting, Active, Abstract!Init

LEMMA NextRefined == Inv /\ [Next]_vars => [Abstract!Next]_Active
<1> SUFFICES ASSUME Inv, [Next]_vars PROVE Abstract!Next \/ UNCHANGED Active
  OBVIOUS
<1>1. ValidBook(book)
  BY InvBook
<1>2. CASE \E order \in Orders : PollAdd(order) \/ PollRemove(order)
  BY <1>1, <1>2, AcceptRefined, WithdrawRefined DEF Abstract!Next
<1>3. CASE AskExhausted \/ BidExhausted \/ BothExhausted
  BY <1>1, <1>3, TradeRefined DEF Abstract!Next
<1>4. CASE UNCHANGED book
  BY <1>4 DEF Active
<1> QED BY <1>2, <1>3, <1>4
    DEF Next, Resolve, PollNothing, PollOtherKey, ResolveDone, EndReadCrash, vars

(* The matcher, with its maps and its loop, is a matcher of active orders: *)
(* only crossing prices trade, cheapest and earliest ask first, no bid     *)
(* before an earlier one of its price, volumes never made or lost.         *)
THEOREM Refines == Spec => ImplementsMatching
<1>1. Spec => Abstract!Init /\ [][Abstract!Next]_Active
  BY InitInv, NextInv, InitRefined, NextRefined, PTL DEF Spec
<1> QED BY <1>1 DEF ImplementsMatching, Abstract!Spec
=============================================================================
