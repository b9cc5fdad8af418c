--------------------------- MODULE ClientsProofs ---------------------------
(***************************************************************************)
(* The map of the clients, for every set of names and every hash function. *)
(***************************************************************************)
EXTENDS Clients, DataProofs

LEMMA HashType ==
    ASSUME NEW c \in Client
    PROVE  Hash(c) \in Int
BY ClientsAssumption DEF Client, Hash

LEMMA InitInv == Init => TypeOK /\ FirstOfItsID
BY ClientsAssumption DEF Init, Start, TypeOK, FirstOfItsID, EmptyMap, None

(* What a message does to the clients that are the first of their ID. *)
LEMMA Received ==
    ASSUME TypeOK, NEW key, Receive(key), NEW n \in Nat, n = Len(taken),
           NEW c, c = log[position + 1].client
    PROVE  /\ c \in Client
           /\ DOMAIN taken = 1 .. n /\ DOMAIN taken' = 1 .. n + 1
           /\ \A i \in 1 .. n : taken'[i] = taken[i]
           /\ taken'[n + 1].key = key /\ taken'[n + 1].client = c
           /\ \A i \in 1 .. n :
                 GivesID(i)' <=>
                     /\ GivesID(i)
                     /\ key = "Remove" => Hash(taken[i].client) # Hash(c)
           /\ GivesID(n + 1)' <=>
                 /\ key = "Add"
                 /\ \A i \in 1 .. n : GivesID(i) => Hash(taken[i].client) # Hash(c)
<1> DEFINE same(i) == Hash(taken[i].client) = Hash(c)
<1>1. /\ log[position + 1] \in Messages /\ log[position + 1].key = key
      /\ taken' = Append(taken, log[position + 1])
  BY DEF TypeOK, Receive
<1>2. /\ c \in Client
      /\ DOMAIN taken = 1 .. n /\ DOMAIN taken' = 1 .. n + 1
      /\ \A i \in 1 .. n : taken'[i] = taken[i]
      /\ taken'[n + 1].key = key /\ taken'[n + 1].client = c
  BY <1>1 DEF TypeOK, Messages
<1>3. ASSUME NEW i \in 1 .. n
      PROVE  GivesID(i)' <=> GivesID(i) /\ (key = "Remove" => ~ same(i))
  BY <1>2, <1>3 DEF GivesID
<1>4. GivesID(n + 1)' <=>
          /\ key = "Add"
          /\ \A j \in 1 .. n : same(j) /\ taken[j].key = "Add" =>
                 \E k \in j .. n : same(k) /\ taken[k].key = "Remove"
  BY <1>2 DEF GivesID
<1>5. ASSUME NEW i \in 1 .. n, GivesID(i), same(i), key = "Add"
      PROVE  ~ GivesID(n + 1)'
  BY <1>2, <1>4, <1>5 DEF GivesID
<1>6. ASSUME \A i \in 1 .. n : GivesID(i) => ~ same(i), key = "Add", ~ GivesID(n + 1)'
      PROVE  FALSE
  <2> DEFINE adds == {j \in 1 .. n : same(j) /\ taken[j].key = "Add"}
             removes == {j \in 1 .. n : same(j) /\ taken[j].key = "Remove"}
  <2>1. PICK a \in adds : \A k \in removes : k < a
    BY <1>2, <1>4, <1>6
  <2>2. PICK i \in adds : /\ \A k \in removes : k < i
                          /\ \A j \in adds : j < i => \E k \in removes : j <= k
    <3>1. adds \in SUBSET (1 .. n) /\ removes \in SUBSET (1 .. n)
      OBVIOUS
    <3> HIDE DEF adds, removes
    <3> QED BY <1>2, <2>1, <3>1, FirstSinceRemoved
  <2>3. i \in 1 .. n /\ same(i) /\ taken[i].key = "Add"
    OBVIOUS
  <2>4. \A j \in 1 .. n : same(j) <=> Hash(taken[j].client) = Hash(taken[i].client)
    BY <2>3
  <2>5. GivesID(i)
    BY <1>2, <2>2, <2>3, <2>4 DEF GivesID
  <2> QED BY <1>6, <2>3, <2>5
<1> QED BY <1>2, <1>3, <1>4, <1>5, <1>6

(* The clients as pairs with their IDs. *)
Filed == {<<id, registered_users[id]>> : id \in DOMAIN registered_users}
Named(i) == <<Hash(taken[i].client), taken[i].client>>

LEMMA AddStep ==
    ASSUME TypeOK, FirstOfItsID, PollAdd
    PROVE  FirstOfItsID'
<1>1. PICK n \in Nat : n = Len(taken)
  BY DEF TypeOK
<1>2. PICK c : c = log[position + 1].client
  OBVIOUS
<1> DEFINE firsts == {i \in 1 .. n : GivesID(i)}
<1>3. /\ c \in Client
      /\ DOMAIN taken = 1 .. n /\ DOMAIN taken' = 1 .. n + 1
      /\ \A i \in 1 .. n : taken'[i] = taken[i]
      /\ taken'[n + 1].client = c
      /\ \A i \in 1 .. n : GivesID(i)' <=> GivesID(i)
      /\ GivesID(n + 1)' <=> \A i \in 1 .. n : GivesID(i) => Hash(taken[i].client) # Hash(c)
  <2>1. Receive("Add")
    BY DEF PollAdd
  <2> QED BY <1>1, <1>2, <2>1, Received
<1>4. Filed = {Named(i) : i \in firsts}
  BY <1>3 DEF FirstOfItsID, Filed, Named
<1>5. Check(c) <=> \E i \in firsts : Hash(taken[i].client) = Hash(c)
  <2>1. Check(c) <=> \E p \in Filed : p[1] = Hash(c)
    <3>1. \A id \in DOMAIN registered_users : <<id, registered_users[id]>>[1] = id
      OBVIOUS
    <3> QED BY <3>1 DEF Filed, Check
  <2>2. (\E p \in {Named(i) : i \in firsts} : p[1] = Hash(c)) <=>
            \E i \in firsts : Named(i)[1] = Hash(c)
    OBVIOUS
  <2>3. \A i \in firsts : Named(i)[1] = Hash(taken[i].client)
    BY DEF Named
  <2> HIDE DEF firsts
  <2> QED BY <1>4, <2>1, <2>2, <2>3
<1>6. {j \in DOMAIN taken' : GivesID(j)'} = firsts \cup (IF Check(c) THEN {} ELSE {n + 1})
  BY <1>3, <1>5
<1>7. Filed' = Filed \cup (IF Check(c) THEN {} ELSE {<<Hash(c), c>>})
  BY <1>2 DEF PollAdd, Filed, Store, Check
<1>8. Filed' = {Named(j)' : j \in {i \in DOMAIN taken' : GivesID(i)'}}
  <2>1. \A i \in firsts : Named(i)' = Named(i)
    BY <1>3 DEF Named
  <2>2. Named(n + 1)' = <<Hash(c), c>>
    BY <1>3 DEF Named
  <2> HIDE DEF firsts
  <2> QED BY <1>4, <1>6, <1>7, <2>1, <2>2
<1> QED BY <1>8 DEF FirstOfItsID, Filed, Named

LEMMA RemoveStep ==
    ASSUME TypeOK, FirstOfItsID, PollRemove
    PROVE  FirstOfItsID'
<1>1. PICK n \in Nat : n = Len(taken)
  BY DEF TypeOK
<1>2. PICK c : c = log[position + 1].client
  OBVIOUS
<1> DEFINE firsts == {i \in 1 .. n : GivesID(i)}
           kept == {i \in firsts : Hash(taken[i].client) # Hash(c)}
<1>3. /\ DOMAIN taken = 1 .. n /\ DOMAIN taken' = 1 .. n + 1
      /\ \A i \in 1 .. n : taken'[i] = taken[i]
      /\ \A i \in 1 .. n : GivesID(i)' <=> GivesID(i) /\ Hash(taken[i].client) # Hash(c)
      /\ ~ GivesID(n + 1)'
  <2>1. Receive("Remove")
    BY DEF PollRemove
  <2> QED BY <1>1, <1>2, <2>1, Received
<1>4. Filed = {Named(i) : i \in firsts}
  BY <1>3 DEF FirstOfItsID, Filed, Named
<1>5. Filed' = {p \in Filed : p[1] # Hash(c)}
  <2>1. /\ DOMAIN registered_users' = DOMAIN registered_users \ {Hash(c)}
        /\ \A id \in DOMAIN registered_users' : registered_users'[id] = registered_users[id]
    BY <1>2 DEF PollRemove, Restrict
  <2> QED BY <2>1 DEF Filed
<1>6. {j \in DOMAIN taken' : GivesID(j)'} = kept
  BY <1>3
<1>7. Filed' = {Named(i)' : i \in kept}
  <2>1. \A i \in firsts : Named(i)' = Named(i) /\ Named(i)[1] = Hash(taken[i].client)
    BY <1>3 DEF Named
  <2>2. {p \in {Named(i) : i \in firsts} : p[1] # Hash(c)} = {Named(i) : i \in kept}
    BY <2>1
  <2>3. kept \subseteq firsts
    OBVIOUS
  <2> HIDE DEF kept, firsts
  <2> QED BY <1>4, <1>5, <2>1, <2>2, <2>3
<1> QED BY <1>6, <1>7 DEF FirstOfItsID, Filed, Named

LEMMA OtherStep ==
    ASSUME TypeOK, FirstOfItsID, PollOtherKey
    PROVE  FirstOfItsID'
<1>1. PICK n \in Nat : n = Len(taken)
  BY DEF TypeOK
<1>2. /\ DOMAIN taken = 1 .. n /\ DOMAIN taken' = 1 .. n + 1
      /\ \A i \in 1 .. n : taken'[i] = taken[i]
      /\ \A i \in 1 .. n : GivesID(i)' <=> GivesID(i)
      /\ ~ GivesID(n + 1)'
  <2>1. Receive("other")
    BY DEF PollOtherKey
  <2> QED BY <1>1, <2>1, Received
<1>3. {j \in DOMAIN taken' : GivesID(j)'} = {j \in DOMAIN taken : GivesID(j)}
  BY <1>2
<1>4. registered_users' = registered_users
  BY DEF PollOtherKey
<1> QED BY <1>2, <1>3, <1>4 DEF FirstOfItsID

(* A message keeps the types, and the map files everybody under their ID. *)
LEMMA PollTypes ==
    ASSUME TypeOK, Poll
    PROVE  TypeOK'
<1>1. PICK key \in {"Add", "Remove", "other"} : Receive(key)
  BY DEF Poll, PollAdd, PollRemove, PollOtherKey
<1>2. PICK n \in Nat : n = Len(taken)
  BY DEF TypeOK
<1>3. PICK c : c = log[position + 1].client
  OBVIOUS
<1>4. c \in Client
  BY <1>1, <1>2, <1>3, Received
<1>5. log[position + 1] \in Messages
  BY <1>1 DEF TypeOK, Receive
<1>6. taken' \in Seq(Messages)
  BY <1>1, <1>5 DEF TypeOK, Receive
<1>7. position' \in {None} \cup 0 .. Len(log')
  BY <1>1 DEF TypeOK, Receive
<1>8. /\ DOMAIN registered_users' \subseteq Int
      /\ \A id \in DOMAIN registered_users' :
            registered_users'[id] \in Client /\ Hash(registered_users'[id]) = id
  <2>1. CASE PollAdd /\ ~ Check(c)
    BY <1>3, <1>4, <2>1, HashType DEF TypeOK, PollAdd, Store
  <2>2. CASE PollAdd /\ Check(c)
    BY <1>3, <2>2 DEF TypeOK, PollAdd
  <2>3. CASE PollRemove
    BY <2>3 DEF TypeOK, PollRemove, Restrict
  <2>4. CASE PollOtherKey
    BY <2>4 DEF TypeOK, PollOtherKey
  <2> QED BY <2>1, <2>2, <2>3, <2>4 DEF Poll
<1> QED BY <1>1, <1>6, <1>7, <1>8 DEF TypeOK, Receive

Inv == TypeOK /\ FirstOfItsID

(* The messages on their way, and the consumer's place, keep their types. *)
LEMMA TopicTypes ==
    ASSUME TypeOK,
           \/ \E client \in Client : NewClient(client)
           \/ \E message \in Messages : SendByOther(message)
           \/ Deliver \/ Join \/ Commit \/ Restart
    PROVE  TypeOK'
<1>1. ASSUME NEW client \in Client, NewClient(client)
      PROVE  TypeOK'
  <2>1. Message("Add", client) \in Messages
    BY DEF Message, Messages
  <2>2. queued' \in Seq(Messages)
    BY <1>1, <2>1 DEF TypeOK, NewClient
  <2> QED BY <1>1, <2>2 DEF TypeOK, NewClient
<1>2. ASSUME NEW message \in Messages, log' = Append(log, message), queued' \in Seq(Messages),
             UNCHANGED <<registered_users, told, position, committed, taken, restarts>>
      PROVE  TypeOK'
  BY <1>2 DEF TypeOK
<1>3. CASE Deliver
  <2>1. Head(queued) \in Messages /\ Tail(queued) \in Seq(Messages)
    BY <1>3 DEF TypeOK, Deliver
  <2> QED BY <1>2, <1>3, <2>1 DEF Deliver
<1>4. CASE Join \/ Commit
  BY <1>4 DEF TypeOK, Join, Commit, processVars, None
<1>5. CASE Restart
  BY <1>5, ClientsAssumption DEF TypeOK, Restart, EmptyMap, None
<1>6. ASSUME NEW message \in Messages, SendByOther(message)
      PROVE  TypeOK'
  BY <1>2, <1>6 DEF SendByOther, processVars, TypeOK
<1> QED BY <1>1, <1>3, <1>4, <1>5, <1>6

LEMMA NextInv == Inv /\ [Next]_vars => Inv'
<1> SUFFICES ASSUME Inv, [Next]_vars PROVE Inv'
  OBVIOUS
<1>1. CASE Poll
  BY <1>1, PollTypes, AddStep, RemoveStep, OtherStep DEF Inv, Poll
<1>2. CASE Restart
  <2>1. FirstOfItsID'
    BY <1>2 DEF Restart, FirstOfItsID, EmptyMap
  <2> QED BY <1>2, <2>1, TopicTypes DEF Inv
<1>3. CASE UNCHANGED vars
  BY <1>3 DEF Inv, TypeOK, FirstOfItsID, GivesID, vars, processVars
<1>4. ASSUME \/ \E client \in Client : NewClient(client)
             \/ \E message \in Messages : SendByOther(message)
             \/ Deliver \/ Join \/ Commit
      PROVE  Inv'
  <2>1. UNCHANGED <<registered_users, taken>>
    BY <1>4 DEF NewClient, SendByOther, Deliver, Join, Commit, processVars
  <2>2. FirstOfItsID'
    BY <2>1 DEF Inv, FirstOfItsID, GivesID
  <2> QED BY <1>4, <2>2, TopicTypes DEF Inv
<1> QED BY <1>1, <1>2, <1>3, <1>4 DEF Next

(* Types, and a map that files everybody under their own ID, for every     *)
(* hash function (clients.cpp:7-11).                                       *)
THEOREM ClientsTyped == Spec => []TypeOK
BY InitInv, NextInv, PTL DEF Spec, Inv

(* However many clients share an ID and however often the process is       *)
(* started again, an ID belongs to the first client that this process took *)
(* it from (clients.cpp:6-14, 24-28).                                      *)
THEOREM IDsAreGivenOnce == Spec => []FirstOfItsID
BY InitInv, NextInv, PTL DEF Spec, Inv
=============================================================================
