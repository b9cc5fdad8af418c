------------------------------ MODULE Clients ------------------------------
(***************************************************************************)
(* The way of a registration: new_client() on the server thread, the topic *)
(* UserEvents, and MapClients, whose thread polls it and keeps the clients *)
(* by their IDs.  A client's ID is the XOR of two hashes, cut to an int,   *)
(* so it is a function of its name and password and not always its own.    *)
(*                                                                         *)
(* Kafka is external: the topic is a log, to which the broker adds what    *)
(* the producer has queued; the consumer of the group "user" starts at the *)
(* committed offset, or at the end of the log when there is none, and      *)
(* commits from time to time how far it has read.  poll() subscribes anew  *)
(* each time, which may make the consumer leave and join its group again.  *)
(* The process can end at any moment, and be started again.                *)
(***************************************************************************)
EXTENDS Integers, SequencesExt

CONSTANTS
    Names,          (* names, passwords being drawn from the same set      *)
    StringHash,     (* std::hash, cut to int                               *)
    BitXor(_, _),   (* operator^ on int                                    *)
    MaxMessages,    (* bound: messages in the topic                        *)
    MaxRestarts     (* bound: restarts of the process                      *)

ASSUME ClientsAssumption ==
    /\ StringHash \in [Names -> Int]
    /\ \A n, m \in Names : BitXor(StringHash[n], StringHash[m]) \in Int
    /\ MaxMessages \in Nat /\ MaxRestarts \in Nat

VARIABLES
    registered_users,    (* the map                                        *)
    told,                (* clients that this process has told their ID    *)
    queued,              (* what its producer has not sent yet             *)
    log,                 (* UserEvents                                     *)
    position,            (* the consumer's place in it, None before it has *)
                         (* joined its group                               *)
    committed,           (* the group's committed offset, or None          *)
    taken,               (* the messages this process has taken            *)
    restarts

processVars == <<registered_users, told, queued, position, taken>>
vars == <<processVars, log, committed, restarts>>

None == -1

Client == [name : Names, hash_password : Names]

(* client::hash *)
Hash(client) == BitXor(StringHash[client.name], StringHash[client.hash_password])

Message(key, client) == [key |-> key, client |-> client]

Messages == [key : {"Add", "Remove", "other"}, client : Client]

EmptyMap == [id \in {} |-> id]

Start ==
    /\ registered_users = EmptyMap
    /\ told = {} /\ queued = <<>>
    /\ position = None /\ taken = <<>>

Init ==
    /\ Start
    /\ log = <<>> /\ committed = None
    /\ restarts = 0

-----------------------------------------------------------------------------
(* new_client() and the broker *)

(* Queues the registration and returns the ID. *)
NewClient(client) ==
    /\ Len(queued) + Len(log) < MaxMessages
    /\ queued' = Append(queued, Message("Add", client))
    /\ told' = told \cup {client}
    /\ UNCHANGED <<registered_users, log, position, committed, taken, restarts>>

Deliver ==
    /\ queued # <<>>
    /\ log' = Append(log, Head(queued))
    /\ queued' = Tail(queued)
    /\ UNCHANGED <<registered_users, told, position, committed, taken, restarts>>

(* Another producer: the keys that poll() knows and nothing here sends. *)
SendByOther(message) ==
    /\ message.key # "Add"
    /\ Len(queued) + Len(log) < MaxMessages
    /\ log' = Append(log, message)
    /\ UNCHANGED <<processVars, committed, restarts>>

-----------------------------------------------------------------------------
(* MapClients *)

(* Mutant of Join: the end of the log although an offset is committed.     *)
JoinAtEnd ==
    /\ position' = Len(log)
    /\ UNCHANGED <<registered_users, told, queued, log, committed, taken, restarts>>

(* subscribe(), the first time or again: a consumer that leaves its group  *)
(* commits what it has read, and one that joins it goes on from there.     *)
(* auto.offset.reset is "latest".                                          *)
Join ==
    LET saved == IF taken # <<>> THEN position ELSE committed
    IN  /\ committed' = saved
        /\ position' = IF saved = None THEN Len(log) ELSE saved
        /\ UNCHANGED <<registered_users, told, queued, log, taken, restarts>>

(* enable.auto.commit is on by default. *)
Commit ==
    /\ taken # <<>>
    /\ committed' = position
    /\ UNCHANGED <<processVars, log, restarts>>

Receive(key) ==
    /\ position \in 0 .. Len(log) - 1
    /\ log[position + 1].key = key
    /\ position' = position + 1
    /\ taken' = Append(taken, log[position + 1])
    /\ UNCHANGED <<told, queued, log, committed, restarts>>

Store(id, client) ==
    registered_users' =
        [i \in DOMAIN registered_users \cup {id} |->
            IF i = id THEN client ELSE registered_users[i]]

Check(client) == Hash(client) \in DOMAIN registered_users

(* Mutants of PollAdd: no check(); the ID of an empty InfoClient is kept.  *)
PollAddOverwrites ==
    /\ Receive("Add")
    /\ LET client == log[position + 1].client IN Store(Hash(client), client)

PollAddDefaultID ==
    /\ Receive("Add")
    /\ LET client == log[position + 1].client
       IN  IF Check(client) THEN UNCHANGED registered_users ELSE Store(-1, client)

PollAdd ==
    /\ Receive("Add")
    /\ LET client == log[position + 1].client
       IN  IF Check(client)
           THEN UNCHANGED registered_users
           ELSE Store(Hash(client), client)

PollRemove ==
    /\ Receive("Remove")
    /\ registered_users' =
           Restrict(registered_users,
                    DOMAIN registered_users \ {Hash(log[position + 1].client)})

PollOtherKey == Receive("other") /\ UNCHANGED registered_users

(* The process ends, whatever ends it, and is started again: what its      *)
(* producer has queued and what it holds in memory is lost.                *)
Restart ==
    /\ restarts < MaxRestarts
    /\ restarts' = restarts + 1
    /\ registered_users' = EmptyMap
    /\ told' = {} /\ queued' = <<>>
    /\ position' = None /\ taken' = <<>>
    /\ UNCHANGED <<log, committed>>

Poll == PollAdd \/ PollRemove \/ PollOtherKey

Next ==
    \/ \E client \in Client : NewClient(client)
    \/ \E message \in Messages : SendByOther(message)
    \/ Deliver
    \/ Join
    \/ Commit
    \/ Poll
    \/ Restart

(* The thread of MapClients polls for as long as the process runs, the     *)
(* first poll() joins the group, and the broker is up.                     *)
Spec ==
    /\ Init /\ [][Next]_vars
    /\ WF_vars(Deliver) /\ WF_vars(Poll)
    /\ WF_vars(Join /\ position = None)

-----------------------------------------------------------------------------
(* Properties *)

(* Types of the members, and a map that files everybody under their ID. *)
TypeOK ==
    /\ DOMAIN registered_users \subseteq Int
    /\ \A id \in DOMAIN registered_users :
          registered_users[id] \in Client /\ Hash(registered_users[id]) = id
    /\ told \subseteq Client
    /\ queued \in Seq(Messages) /\ log \in Seq(Messages)
    /\ position \in {None} \cup 0 .. Len(log)
    /\ committed \in {None} \cup 0 .. Len(log)
    /\ taken \in Seq(Messages)
    /\ restarts \in 0 .. MaxRestarts

(* Message i is the one that an ID has its client from: the first Add of   *)
(* that ID since its last Remove.                                          *)
GivesID(i) ==
    LET SameID(j) == Hash(taken[j].client) = Hash(taken[i].client)
    IN  /\ taken[i].key = "Add"
        /\ \A j \in DOMAIN taken :
              SameID(j) /\ j > i => taken[j].key # "Remove"
        /\ \A j \in DOMAIN taken :
              SameID(j) /\ j < i /\ taken[j].key = "Add" =>
                  \E k \in j .. i : SameID(k) /\ taken[k].key = "Remove"

(* The map told from the messages that this process has taken: an ID       *)
(* belongs to the first client that came with it, and neither another one  *)
(* of the same ID nor a message that comes again takes it away; a Remove   *)
(* of either frees it (clients.cpp:6-14, 24-28).                           *)
FirstOfItsID ==
    {<<id, registered_users[id]>> : id \in DOMAIN registered_users} =
        {<<Hash(taken[i].client), taken[i].client>> : i \in {j \in DOMAIN taken : GivesID(j)}}

(* Who is told an ID (server_connector.cpp:14-17) is in the map sooner or  *)
(* later, or another client of that ID is, unless the process ends: but    *)
(* only once the group has an offset to come back to.  Until then every    *)
(* new subscribe() (clients.cpp:32) starts at the end of the topic.        *)
ToldIsKnown ==
    \A client \in Client :
        (Message("Add", client) \in Range(queued) /\ (taken # <<>> \/ committed # None)) ~>
            (Check(client) \/ client \notin told)
=============================================================================
