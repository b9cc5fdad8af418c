------------------------------ MODULE Sessions ------------------------------
(***************************************************************************)
(* The server thread of the exchange: Server and Session of                *)
(* server_connector.cpp, with the client program as their environment.     *)
(*                                                                         *)
(* One thread runs io_service.run(), so a handler is one atomic action.  A *)
(* Session is an object on the heap, named by its address; it deletes      *)
(* itself, and its address may then be given to the next Session.  An      *)
(* asynchronous operation is a callback that the address waits for.        *)
(*                                                                         *)
(* Boost.Asio and TCP are external.  Client.cpp connects to 127.0.0.1 and  *)
(* sends a request with one write, so an honest client's request arrives   *)
(* in one piece, and so does the reply to it.  Every other client sends    *)
(* what it likes, in pieces or not, without waiting for replies.           *)
(***************************************************************************)
EXTENDS Integers, SequencesExt

CONSTANTS
    Clients,
    Honest,        (* the clients that run Client.cpp                      *)
    Addresses,     (* where a Session can be allocated                     *)
    SendBuffer,    (* replies that fit into a socket's send buffer         *)
    Arrivals,      (* bound: what the other clients may send               *)
    MaxRequests    (* bound: requests that each client sends               *)

(* A "Bad" request is no JSON, is longer than the buffer, or lacks a field *)
(* that new_client or new_order asks for.                                  *)
Requests == {"Registration", "Transaction", "Close", "Hello", "Bad"}

(* What one arrival carries: a request, one of exactly max_length bytes,   *)
(* or a part of one.                                                       *)
Parts == {"whole", "full", "head", "tail"}

Arrival(request, part) == [request |-> request, part |-> part]

AnyArrival == [request : Requests, part : Parts]

Nobody == "nobody"

ASSUME SessionsAssumption ==
    /\ Honest \subseteq Clients /\ Nobody \notin Clients
    /\ Addresses # {}
    /\ SendBuffer \in Nat \ {0}
    /\ Arrivals \subseteq [request : Requests, part : Parts \ {"tail"}]
    /\ MaxRequests \in [Clients -> Nat]

VARIABLES
    process,    (* "up", or what ended the process                         *)
    culprit,    (* the client whose handler ended it                       *)
    alive,      (* the addresses at which a Session is                     *)
    pending,    (* the callbacks that have been asked for and not run      *)
    peer,       (* the client its socket is connected to                   *)
    smashed,    (* those whose hash_client_ was overwritten                *)
    client,     (* where each client is                                    *)
    backlog,    (* connected clients that have not been accepted           *)
    inbox,      (* what has arrived from each client and was not read      *)
    outbox,     (* the replies on their way to it                          *)
    sent,       (* the requests it has sent                                *)
    told,       (* the replies it has read                                 *)
    produced    (* what was produced to Kafka for it                       *)

processVars == <<process, culprit>>
sessionVars == <<alive, pending, peer, smashed>>
clientVars == <<client, sent, told>>
vars == <<processVars, sessionVars, clientVars, backlog, inbox, outbox, produced>>

(* A reply stands for the request that it answers; "garbage" is what was   *)
(* sent from the memory of a reply that was gone, be it still there or not. *)
Replies == {"Registration", "Transaction", "Hello", "garbage"}

(* What a Session can wait for: handle_accept, read_msg, send_msg with all *)
(* of the reply sent or with some of it left, and one of the last two with *)
(* the error of an operation on a socket that was closed under it.         *)
Callbacks == {"accept", "read", "sent", "unsent", "aborted"}

Callback(s, op) == [session |-> s, op |-> op]

AnAddress(free) == CHOOSE s \in free : TRUE

(* Server::Server: one Session, waiting for the first client. *)
Init ==
    /\ process = "up" /\ culprit = Nobody
    /\ alive = {AnAddress(Addresses)}
    /\ pending = {Callback(s, "accept") : s \in alive}
    /\ peer = [s \in Addresses |-> Nobody]
    /\ smashed = {}
    /\ client = [c \in Clients |-> "off"]
    /\ backlog = <<>>
    /\ inbox = [c \in Clients |-> <<>>] /\ outbox = [c \in Clients |-> <<>>]
    /\ sent = [c \in Clients |-> <<>>] /\ told = [c \in Clients |-> <<>>]
    /\ produced = [c \in Clients |-> <<>>]

-----------------------------------------------------------------------------
(* Client.cpp and the connections *)

Up == process = "up"

HasSession(c) == \E s \in Addresses : peer[s] = c

Connect(c) ==
    /\ Up
    /\ client[c] = "off"
    /\ client' = [client EXCEPT ![c] = "idle"]
    /\ backlog' = Append(backlog, c)
    /\ UNCHANGED <<processVars, sessionVars, inbox, outbox, sent, told, produced>>

Arrives(c, arrival) == inbox' = [inbox EXCEPT ![c] = Append(@, arrival)]

(* Mutant of SendRequest: main() does not call ReadMessage() for a Hello.  *)
SendRequestAndGoOn(c, request) ==
    /\ Up
    /\ client[c] = "idle" /\ Len(sent[c]) < MaxRequests[c]
    /\ (request = "Registration") = (sent[c] = <<>>)
    /\ Arrives(c, Arrival(request, "whole"))
    /\ sent' = [sent EXCEPT ![c] = Append(@, request)]
    /\ client' = [client EXCEPT ![c] = IF request = "Hello" THEN "idle" ELSE "waiting"]
    /\ UNCHANGED <<processVars, sessionVars, backlog, outbox, told, produced>>

(* SendMessage(): main() registers first, then the menu offers the rest. *)
SendRequest(c, request) ==
    /\ Up
    /\ client[c] = "idle" /\ Len(sent[c]) < MaxRequests[c]
    /\ (request = "Registration") = (sent[c] = <<>>)
    /\ Arrives(c, Arrival(request, "whole"))
    /\ sent' = [sent EXCEPT ![c] = Append(@, request)]
    /\ client' = [client EXCEPT ![c] = "waiting"]
    /\ UNCHANGED <<processVars, sessionVars, backlog, outbox, told, produced>>

(* ReadMessage(): the empty delimiter is found in the first bytes that     *)
(* come, and everything that has come is taken for one reply.              *)
ReadMessage(c) ==
    /\ client[c] = "waiting"
    /\ outbox[c] # <<>>
    /\ told' = [told EXCEPT ![c] = @ \o outbox[c]]
    /\ outbox' = [outbox EXCEPT ![c] = <<>>]
    /\ client' = [client EXCEPT ![c] = "idle"]
    /\ UNCHANGED <<processVars, sessionVars, backlog, inbox, sent, produced>>

(* The client exits from its menu, is killed, or its connection is lost.   *)
Leave(c) ==
    /\ Up
    /\ client[c] \in {"idle", "waiting"}
    /\ client' = [client EXCEPT ![c] = "gone"]
    /\ UNCHANGED <<processVars, sessionVars, backlog, inbox, outbox, sent, told, produced>>

(* The first part of a request has come and the rest of it has not. *)
Unfinished(c) == inbox[c] # <<>> /\ Last(inbox[c]).part = "head"

(* Any other client: a request, or the first part of one, at any time. *)
SendAnything(c, arrival) ==
    /\ Up
    /\ client[c] = "idle" /\ Len(sent[c]) < MaxRequests[c]
    /\ HasSession(c) \/ c \in Range(backlog)
    /\ ~ Unfinished(c)
    /\ Arrives(c, arrival)
    /\ sent' = [sent EXCEPT ![c] = Append(@, arrival.request)]
    /\ UNCHANGED <<processVars, sessionVars, client, backlog, outbox, told, produced>>

SendTail(c) ==
    /\ Up
    /\ client[c] = "idle"
    /\ Unfinished(c)
    /\ Arrives(c, Arrival(Last(inbox[c]).request, "tail"))
    /\ UNCHANGED <<processVars, sessionVars, clientVars, backlog, outbox, produced>>

(* It connects again when its Session has been deleted. *)
ConnectAgain(c) ==
    /\ Up
    /\ client[c] = "idle"
    /\ ~ HasSession(c) /\ c \notin Range(backlog)
    /\ backlog' = Append(backlog, c)
    /\ inbox' = [inbox EXCEPT ![c] = <<>>]
    /\ outbox' = [outbox EXCEPT ![c] = <<>>]
    /\ UNCHANGED <<processVars, sessionVars, clientVars, produced>>

TakeReply(c) ==
    /\ Up
    /\ client[c] = "idle"
    /\ outbox[c] # <<>>
    /\ outbox' = [outbox EXCEPT ![c] = Tail(@)]
    /\ UNCHANGED <<processVars, sessionVars, clientVars, backlog, inbox, produced>>

-----------------------------------------------------------------------------
(* Server *)

(* The callback runs, on the Session it was bound to. *)
Runs(s, op) == Up /\ Callback(s, op) \in pending /\ s \in alive

Then(s, op, next) == pending' = (pending \ {Callback(s, op)}) \cup {Callback(s, next)}

(* Where a new Session may be: at a freed address that a callback is still *)
(* bound to, or at another free one, and then it does not matter which.    *)
NewAddresses ==
    LET bound == {cb.session : cb \in pending} \ alive
        free  == Addresses \ (alive \cup bound)
    IN  bound \cup {s \in free : s = AnAddress(free)}

(* Mutant of HandleAccept: no new Session, the next client is accepted     *)
(* into the socket of this one.                                            *)
HandleAcceptSameSession(s) ==
    /\ Runs(s, "accept")
    /\ backlog # <<>>
    /\ pending' = pending \cup {Callback(s, "read")}
    /\ peer' = [peer EXCEPT ![s] = Head(backlog)]
    /\ backlog' = Tail(backlog)
    /\ UNCHANGED <<processVars, clientVars, alive, smashed, inbox, outbox, produced>>

(* start() and a new Session for the next client. *)
HandleAccept(s) ==
    /\ Runs(s, "accept")
    /\ backlog # <<>>
    /\ \E t \in NewAddresses :
          /\ alive' = alive \cup {t}
          /\ pending' = (pending \ {Callback(s, "accept")})
                            \cup {Callback(s, "read"), Callback(t, "accept")}
    /\ peer' = [peer EXCEPT ![s] = Head(backlog)]
    /\ backlog' = Tail(backlog)
    /\ UNCHANGED <<processVars, clientVars, smashed, inbox, outbox, produced>>

(* Mutant of Delete: the memory is freed and ~Session() is not run.        *)
DeleteWithoutDestructor(s) ==
    /\ alive' = alive \ {s}
    /\ UNCHANGED <<peer, smashed>>
    /\ UNCHANGED <<processVars, clientVars, backlog, outbox, produced>>

(* delete this, with the closing of the socket. *)
Delete(s) ==
    /\ alive' = alive \ {s}
    /\ peer' = [peer EXCEPT ![s] = Nobody]
    /\ smashed' = smashed \ {s}
    /\ UNCHANGED <<processVars, clientVars, backlog, outbox, produced>>

(* The accept fails (no descriptor is left): no further one is started. *)
HandleAcceptError(s) ==
    /\ Runs(s, "accept")
    /\ pending' = pending \ {Callback(s, "accept")}
    /\ Delete(s)
    /\ UNCHANGED inbox

-----------------------------------------------------------------------------
(* Session::read_msg, and parse_event that it calls *)

(* An exception leaves io_service.run(), or the heap is found broken: the  *)
(* process ends, with its memory and its sockets.                          *)
End(how, who) ==
    /\ process' = how /\ culprit' = who
    /\ alive' = {} /\ pending' = {} /\ smashed' = {}
    /\ peer' = [s \in Addresses |-> Nobody]
    /\ backlog' = <<>>
    /\ inbox' = [c \in Clients |-> <<>>]
    /\ UNCHANGED <<clientVars, outbox>>

(* What json::parse and the lookups make of the bytes of one read. *)
Understood(buffer) ==
    IF \/ Len(buffer) = 1 /\ buffer[1].part \in {"whole", "full"}
       \/ Len(buffer) = 2 /\ buffer[1].part = "head" /\ buffer[2].part = "tail"
    THEN buffer[1].request
    ELSE "Bad"

Buffer(s, n) == SubSeq(inbox[peer[s]], 1, n)

(* The read completes with the first n arrivals. *)
ReadCompletes(s, n) ==
    /\ Runs(s, "read")
    /\ Head(Buffer(s, n)).part = "full" => n = 1

(* data_[bytes_transferred] = 0 goes to hash_client_ when data_ is full. *)
SmashedBy(s, n) ==
    IF Head(Buffer(s, n)).part = "full" THEN smashed \cup {s} ELSE smashed

(* async_write: as much as fits is sent at once; the rest later, from the  *)
(* string reply that is gone by then.                                      *)
AsyncWrite(s, n, request) ==
    LET c == peer[s]
    IN  /\ inbox' = [inbox EXCEPT ![c] = SubSeq(@, n + 1, Len(@))]
        /\ \/ /\ client[c] = "gone" \/ Len(outbox[c]) < SendBuffer
              /\ outbox' = [outbox EXCEPT ![c] = Append(@, request)]
              /\ Then(s, "read", "sent")
           \/ /\ client[c] = "gone" \/ Len(outbox[c]) >= SendBuffer
              /\ Then(s, "read", "unsent")
              /\ UNCHANGED outbox
        /\ smashed' = SmashedBy(s, n)
        /\ UNCHANGED <<processVars, clientVars, alive, peer, backlog>>

ReadBad(s, n) ==
    /\ ReadCompletes(s, n)
    /\ Understood(Buffer(s, n)) = "Bad"
    /\ End("bad_request", peer[s])
    /\ UNCHANGED produced

(* Mutant of ReadAndProduce: what produce() throws is swallowed.           *)
ReadAndPerhapsProduce(s, n) ==
    LET request == Understood(Buffer(s, n))
    IN  /\ ReadCompletes(s, n)
        /\ request \in {"Registration", "Transaction"}
        /\ \/ produced' = [produced EXCEPT ![peer[s]] = Append(@, request)]
           \/ UNCHANGED produced
        /\ AsyncWrite(s, n, request)

(* new_client() and hash_client_ = reply; new_order(). *)
ReadAndProduce(s, n) ==
    LET request == Understood(Buffer(s, n))
    IN  /\ ReadCompletes(s, n)
        /\ request \in {"Registration", "Transaction"}
        /\ produced' = [produced EXCEPT ![peer[s]] = Append(@, request)]
        /\ AsyncWrite(s, n, request)

(* produce() throws when the producer's queue is full. *)
ReadAndNotProduce(s, n) ==
    /\ ReadCompletes(s, n)
    /\ Understood(Buffer(s, n)) \in {"Registration", "Transaction"}
    /\ End("queue_full", peer[s])
    /\ UNCHANGED produced

(* The assignment to hash_client_ after its pointer was overwritten: by    *)
(* then new_client() has produced the registration.                        *)
ReadAndCrash(s, n) ==
    /\ ReadCompletes(s, n)
    /\ Understood(Buffer(s, n)) = "Registration"
    /\ s \in SmashedBy(s, n)
    /\ produced' = [produced EXCEPT ![peer[s]] = Append(@, "Registration")]
    /\ End("heap_error", peer[s])

ReadHello(s, n) ==
    /\ ReadCompletes(s, n)
    /\ Understood(Buffer(s, n)) = "Hello"
    /\ AsyncWrite(s, n, "Hello")
    /\ UNCHANGED produced

(* stop() deletes the Session, and then async_write is called on it: the   *)
(* memory is found unusable, or the write fails on the closed socket and   *)
(* its callback stays bound to the address.                                *)
ReadClose(s, n) ==
    /\ ReadCompletes(s, n)
    /\ Understood(Buffer(s, n)) = "Close"
    /\ \/ End("heap_error", peer[s]) /\ UNCHANGED produced
       \/ /\ Delete(s)
          /\ Then(s, "read", "aborted")
          /\ inbox' = [inbox EXCEPT ![peer[s]] = SubSeq(@, n + 1, Len(@))]

ReadMsg(s) ==
    /\ peer[s] # Nobody
    /\ \E n \in DOMAIN inbox[peer[s]] :
          \/ ReadBad(s, n)
          \/ ReadAndProduce(s, n)
          \/ ReadAndNotProduce(s, n)
          \/ ReadAndCrash(s, n)
          \/ ReadHello(s, n)
          \/ ReadClose(s, n)

(* Mutant of ReadMsgError: return instead of delete this.                  *)
ReadMsgErrorReturns(s) ==
    /\ Runs(s, "read")
    /\ client[peer[s]] = "gone"
    /\ pending' = pending \ {Callback(s, "read")}
    /\ UNCHANGED <<alive, peer, smashed>>
    /\ UNCHANGED <<processVars, clientVars, backlog, inbox, outbox, produced>>

(* An error of the socket deletes the Session. *)
ReadMsgError(s) ==
    /\ Runs(s, "read")
    /\ client[peer[s]] = "gone"
    /\ pending' = pending \ {Callback(s, "read")}
    /\ Delete(s)
    /\ UNCHANGED inbox

(* hash_client_ is destroyed with it. *)
DeleteCrash(s) ==
    /\ Runs(s, "read") \/ Runs(s, "unsent")
    /\ client[peer[s]] = "gone"
    /\ s \in smashed
    /\ End("heap_error", peer[s])
    /\ UNCHANGED produced

-----------------------------------------------------------------------------
(* Session::send_msg *)

(* The rest of a reply goes out when there is room for it. *)
SendLater(s) ==
    /\ Runs(s, "unsent")
    /\ Len(outbox[peer[s]]) < SendBuffer
    /\ outbox' = [outbox EXCEPT ![peer[s]] = Append(@, "garbage")]
    /\ Then(s, "unsent", "sent")
    /\ UNCHANGED <<processVars, clientVars, alive, peer, smashed, backlog, inbox, produced>>

(* Mutant of SendMsg: the next read is not started.                        *)
SendMsgAndStop(s) ==
    /\ Runs(s, "sent")
    /\ pending' = pending \ {Callback(s, "sent")}
    /\ UNCHANGED <<processVars, clientVars, alive, peer, smashed, backlog,
                   inbox, outbox, produced>>

SendMsg(s) ==
    /\ Runs(s, "sent")
    /\ Then(s, "sent", "read")
    /\ UNCHANGED <<processVars, clientVars, alive, peer, smashed, backlog,
                   inbox, outbox, produced>>

SendMsgError(s) ==
    /\ Runs(s, "unsent")
    /\ client[peer[s]] = "gone"
    /\ pending' = pending \ {Callback(s, "unsent")}
    /\ Delete(s)
    /\ UNCHANGED inbox

-----------------------------------------------------------------------------
(* Callbacks bound to an address whose Session is gone *)

(* delete this a second time: the heap notices, or nothing comes of it. *)
DeleteFreed(s) ==
    /\ Up
    /\ Callback(s, "aborted") \in pending /\ s \notin alive
    /\ \/ End("heap_error", Nobody) /\ UNCHANGED produced
       \/ /\ pending' = pending \ {Callback(s, "aborted")}
          /\ UNCHANGED <<processVars, clientVars, alive, peer, smashed, backlog,
                         inbox, outbox, produced>>

(* The address has been given to another Session, and that one is deleted: *)
(* the operation on its socket ends with an error in its turn.             *)
DeleteAnother(s) ==
    /\ Runs(s, "aborted")
    /\ pending' = {cb \in pending : cb.session # s \/ cb.op = "accept"}
                      \cup {Callback(s, "aborted") : c \in {peer[s]} \ {Nobody}}
    /\ Delete(s)
    /\ UNCHANGED inbox

(* handle_accept starts a Session that is gone. *)
AcceptFreed(s) ==
    /\ Up
    /\ Callback(s, "accept") \in pending /\ s \notin alive
    /\ backlog # <<>>
    /\ End("heap_error", Nobody)
    /\ UNCHANGED produced

-----------------------------------------------------------------------------

Handler(s) ==
    \/ HandleAccept(s)
    \/ ReadMsg(s)
    \/ ReadMsgError(s)
    \/ DeleteCrash(s)
    \/ SendLater(s)
    \/ SendMsg(s)
    \/ SendMsgError(s)

HonestRequests == {"Registration", "Hello", "Transaction"}

Next ==
    \/ \E s \in Addresses :
          \/ Handler(s)
          \/ HandleAcceptError(s)
          \/ DeleteFreed(s)
          \/ DeleteAnother(s)
          \/ AcceptFreed(s)
    \/ \E c \in Clients : Connect(c) \/ Leave(c)
    \/ \E c \in Honest :
          ReadMessage(c) \/ \E request \in HonestRequests : SendRequest(c, request)
    \/ \E c \in Clients \ Honest :
          \/ SendTail(c)
          \/ ConnectAgain(c)
          \/ TakeReply(c)
          \/ \E arrival \in Arrivals : SendAnything(c, arrival)

(* io_service.run() dispatches every handler that is ready, and an honest  *)
(* client reads its reply.                                                 *)
Spec ==
    /\ Init /\ [][Next]_vars
    /\ \A s \in Addresses : WF_vars(Handler(s))
    /\ \A c \in Honest : WF_vars(ReadMessage(c))

-----------------------------------------------------------------------------
(* Properties *)

(* Types of the members, the sockets and what the clients remember. *)
TypeOK ==
    /\ process \in {"up", "bad_request", "queue_full", "heap_error"}
    /\ culprit \in Clients \cup {Nobody}
    /\ alive \subseteq Addresses /\ smashed \subseteq alive
    /\ pending \subseteq [session : Addresses, op : Callbacks]
    /\ peer \in [Addresses -> Clients \cup {Nobody}]
    /\ client \in [Clients -> {"off", "idle", "waiting", "gone"}]
    /\ backlog \in Seq(Clients)
    /\ inbox \in [Clients -> Seq(AnyArrival)]
    /\ outbox \in [Clients -> Seq(Replies)]
    /\ \A c \in Clients : Len(outbox[c]) <= SendBuffer \/ client[c] = "gone"
    /\ sent \in [Clients -> Seq(Requests)]
    /\ told \in [Clients -> Seq(Replies)]
    /\ produced \in [Clients -> Seq({"Registration", "Transaction"})]

NoClose == \A c \in Clients : "Close" \notin Range(sent[c])

(* read_msg and send_msg hand a Session on to each other, and who gets an  *)
(* error deletes it (server_connector.cpp:62-86): as long as nobody sends  *)
(* Close, every Session waits for exactly one callback, every callback     *)
(* finds its Session, and no client has two.                               *)
OneCallbackEach ==
    NoClose =>
        /\ \A cb \in pending : cb.session \in alive
        /\ \A s \in alive : \E op \in Callbacks \ {"aborted"} :
              /\ {cb \in pending : cb.session = s} = {Callback(s, op)}
              /\ op = "accept" <=> peer[s] = Nobody
        /\ \A s, t \in alive : peer[s] = peer[t] => s = t

(* Client.cpp sends a request only after the reply to the one before has   *)
(* come (Client.cpp:46, 95-127): no read of the server ever sees two of    *)
(* them run together, so it is never the request of such a client that     *)
(* json::parse throws at, whatever other clients send meanwhile.           *)
HonestRequestsAreWhole ==
    culprit \in Honest => process = "queue_full"

(* What of the requests is produced to Kafka. *)
ForKafka(requests) ==
    LET upto[n \in 0 .. Len(requests)] ==
          IF n = 0 THEN <<>>
          ELSE IF requests[n] = "Hello" THEN upto[n - 1]
          ELSE Append(upto[n - 1], requests[n])
    IN  upto[Len(requests)]

(* A client that follows Client.cpp reads the answers to its requests, in  *)
(* their order and unspoilt (server_connector.cpp:68-72), and what it is   *)
(* told has been done: its order or registration was produced before.      *)
AnswersMatchRequests ==
    \A c \in Honest :
        /\ IsPrefix(told[c], sent[c])
        /\ IsPrefix(ForKafka(told[c]), produced[c])
        /\ IsPrefix(produced[c], ForKafka(sent[c]))

(* A request of such a client is answered, unless the process ends, the    *)
(* accept failed before its turn came (server_connector.cpp:145), or a     *)
(* Close left a callback to a freed Session behind.                        *)
RequestAnswered ==
    \A c \in Honest :
        client[c] = "waiting" ~>
            \/ client[c] # "waiting"
            \/ ~ Up
            \/ ~ NoClose
            \/ c \in Range(backlog) /\ pending \cap {Callback(s, "accept") : s \in alive} = {}

(* The Session of a client that has left is deleted: its read or its write *)
(* fails, also when replies are still waiting to be sent.                  *)
GoneClientsAreFreed ==
    \A c \in Clients :
        client[c] = "gone" ~> (~ Up \/ \A s \in alive : peer[s] # c)
=============================================================================
