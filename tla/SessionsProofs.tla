--------------------------- MODULE SessionsProofs ---------------------------
(***************************************************************************)
(* The Sessions of the server, for every set of clients and addresses.     *)
(***************************************************************************)
EXTENDS Sessions, DataProofs, SequenceTheorems

LEMMA Rest ==
    ASSUME NEW T, NEW s \in Seq(T), NEW n \in DOMAIN s
    PROVE  SubSeq(s, n + 1, Len(s)) \in Seq(T)
<1>1. \A i \in n + 1 .. Len(s) : s[i] \in T
  OBVIOUS
<1> QED BY <1>1, SubSeqProperties

LEMMA InitTyped == Init => TypeOK
<1>1. AnAddress(Addresses) \in Addresses
  BY SessionsAssumption DEF AnAddress
<1> QED BY <1>1, SessionsAssumption DEF Init, TypeOK, Callback, Callbacks

(* What becomes of the bytes that have come from the clients. *)
InboxStep ==
    \/ inbox' = inbox /\ sent' = sent
    \/ inbox' = [c \in Clients |-> <<>>] /\ sent' = sent
    \/ \E c \in Clients : inbox' = [inbox EXCEPT ![c] = <<>>] /\ sent' = sent
    \/ \E c \in Clients : \E n \in DOMAIN inbox[c] :
          inbox' = [inbox EXCEPT ![c] = SubSeq(@, n + 1, Len(@))] /\ sent' = sent
    \/ \E c \in Clients, m \in AnyArrival :
          /\ inbox' = [inbox EXCEPT ![c] = Append(@, m)]
          /\ sent' = [sent EXCEPT ![c] = Append(@, m.request)]
    \/ \E c \in Clients, m \in AnyArrival :
          /\ inbox[c] # <<>> /\ m.request = Last(inbox[c]).request
          /\ inbox' = [inbox EXCEPT ![c] = Append(@, m)]
          /\ sent' = sent

LEMMA InboxSteps ==
    ASSUME TypeOK, [Next]_vars
    PROVE  InboxStep
<1> USE DEF InboxStep
<1>1. ASSUME NEW c \in Honest, NEW request \in HonestRequests, SendRequest(c, request)
      PROVE  InboxStep
  <2>1. Arrival(request, "whole") \in AnyArrival /\ Arrival(request, "whole").request = request
    BY DEF HonestRequests, Requests, Parts, Arrival, AnyArrival
  <2> QED BY <1>1, <2>1, SessionsAssumption DEF SendRequest, Arrives
<1>2. ASSUME NEW c \in Clients, SendTail(c)
      PROVE  InboxStep
  <2> DEFINE m == Arrival(Last(inbox[c]).request, "tail")
  <2>1. inbox[c] # <<>> /\ Last(inbox[c]) \in AnyArrival
    BY <1>2 DEF SendTail, Unfinished, Last, TypeOK
  <2>2. m \in AnyArrival /\ m.request = Last(inbox[c]).request
    BY <2>1 DEF Arrival, AnyArrival, Parts
  <2> QED BY <1>2, <2>1, <2>2 DEF SendTail, Arrives, clientVars
<1>3. ASSUME NEW c \in Clients, NEW arrival \in Arrivals, SendAnything(c, arrival)
      PROVE  InboxStep
  <2>1. arrival \in AnyArrival
    BY SessionsAssumption DEF AnyArrival
  <2> QED BY <1>3, <2>1 DEF SendAnything, Arrives
<1>4. ASSUME NEW s \in Addresses, ReadMsg(s)
      PROVE  InboxStep
  <2>1. PICK n \in DOMAIN inbox[peer[s]] :
          \/ ReadBad(s, n)
          \/ ReadAndProduce(s, n)
          \/ ReadAndNotProduce(s, n)
          \/ ReadAndCrash(s, n)
          \/ ReadHello(s, n)
          \/ ReadClose(s, n)
    BY <1>4 DEF ReadMsg
  <2>2. peer[s] \in Clients
    BY <1>4 DEF ReadMsg, TypeOK
  <2> QED BY <2>1, <2>2
      DEF ReadBad, ReadAndProduce, ReadAndNotProduce, ReadAndCrash, ReadHello, ReadClose, End,
          AsyncWrite, Delete, clientVars
<1>5. ASSUME NEW s \in Addresses,
             \/ Handler(s) /\ ~ ReadMsg(s)
             \/ HandleAcceptError(s)
             \/ DeleteFreed(s)
             \/ DeleteAnother(s)
             \/ AcceptFreed(s)
      PROVE  InboxStep
  BY <1>5
     DEF Handler, HandleAccept, HandleAcceptError, ReadMsgError, DeleteCrash, SendLater, SendMsg,
         SendMsgError, DeleteFreed, DeleteAnother, AcceptFreed, End, Delete, clientVars
<1>6. CASE UNCHANGED vars
  BY <1>6 DEF vars, clientVars
<1> QED BY <1>1, <1>2, <1>3, <1>4, <1>5, <1>6
    DEF Next, Connect, Leave, ReadMessage, ConnectAgain, TakeReply, clientVars

LEMMA InboxTyped ==
    ASSUME TypeOK, [Next]_vars
    PROVE  inbox' \in [Clients -> Seq(AnyArrival)]
<1>1. InboxStep
  BY InboxSteps
<1>2. <<>> \in Seq(AnyArrival)
  OBVIOUS
<1>3. ASSUME NEW c \in Clients, NEW s \in Seq(AnyArrival), inbox' = [inbox EXCEPT ![c] = s]
      PROVE  inbox' \in [Clients -> Seq(AnyArrival)]
  BY <1>3 DEF TypeOK
<1>4. ASSUME NEW c \in Clients
      PROVE  /\ \A n \in DOMAIN inbox[c] :
                   SubSeq(inbox[c], n + 1, Len(inbox[c])) \in Seq(AnyArrival)
             /\ \A m \in AnyArrival : Append(inbox[c], m) \in Seq(AnyArrival)
  BY Rest, AppendProperties DEF TypeOK
<1> QED BY <1>1, <1>2, <1>3, <1>4 DEF InboxStep, TypeOK

LEMMA OutboxTyped ==
    ASSUME TypeOK, [Next]_vars
    PROVE  /\ outbox' \in [Clients -> Seq(Replies)]
           /\ \A c \in Clients : Len(outbox'[c]) <= SendBuffer \/ client'[c] = "gone"
<1> USE SessionsAssumption DEF TypeOK
<1>1. ASSUME NEW c \in Clients, NEW reply \in Replies, client' = client,
             outbox' = [outbox EXCEPT ![c] = Append(@, reply)],
             client[c] = "gone" \/ Len(outbox[c]) < SendBuffer
      PROVE  /\ outbox' \in [Clients -> Seq(Replies)]
             /\ \A d \in Clients : Len(outbox'[d]) <= SendBuffer \/ client'[d] = "gone"
  <2>1. /\ Append(outbox[c], reply) \in Seq(Replies)
        /\ Len(Append(outbox[c], reply)) = Len(outbox[c]) + 1 /\ Len(outbox[c]) \in Nat
    BY AppendProperties
  <2> QED BY <1>1, <2>1
<1>2. ASSUME NEW c \in Clients, outbox' = [outbox EXCEPT ![c] = <<>>],
             \A d \in Clients : client'[d] = client[d] \/ d = c
      PROVE  /\ outbox' \in [Clients -> Seq(Replies)]
             /\ \A d \in Clients : Len(outbox'[d]) <= SendBuffer \/ client'[d] = "gone"
  BY <1>2
<1>3. ASSUME NEW c \in Clients, outbox' = [outbox EXCEPT ![c] = Tail(@)], outbox[c] # <<>>,
             client' = client
      PROVE  /\ outbox' \in [Clients -> Seq(Replies)]
             /\ \A d \in Clients : Len(outbox'[d]) <= SendBuffer \/ client'[d] = "gone"
  <2>1. /\ Tail(outbox[c]) \in Seq(Replies)
        /\ Len(Tail(outbox[c])) = Len(outbox[c]) - 1 /\ Len(outbox[c]) \in Nat
    BY <1>3, HeadTailProperties
  <2> QED BY <1>3, <2>1
<1>4. ASSUME outbox' = outbox, \A d \in Clients : client[d] = "gone" => client'[d] = "gone"
      PROVE  /\ outbox' \in [Clients -> Seq(Replies)]
             /\ \A d \in Clients : Len(outbox'[d]) <= SendBuffer \/ client'[d] = "gone"
  BY <1>4
<1>5. ASSUME NEW c \in Clients,
             \/ Connect(c) \/ Leave(c) \/ SendTail(c)
             \/ \E request \in HonestRequests : SendRequest(c, request)
             \/ \E arrival \in Arrivals : SendAnything(c, arrival)
      PROVE  outbox' = outbox /\ \A d \in Clients : client[d] = "gone" => client'[d] = "gone"
  BY <1>5 DEF Connect, Leave, SendTail, SendRequest, SendAnything, clientVars
<1>6. ASSUME NEW c \in Clients, ReadMessage(c) \/ ConnectAgain(c)
      PROVE  /\ outbox' = [outbox EXCEPT ![c] = <<>>]
             /\ \A d \in Clients : client'[d] = client[d] \/ d = c
  BY <1>6 DEF ReadMessage, ConnectAgain, clientVars
<1>7. ASSUME NEW c \in Clients, TakeReply(c)
      PROVE  outbox' = [outbox EXCEPT ![c] = Tail(@)] /\ outbox[c] # <<>> /\ client' = client
  BY <1>7 DEF TakeReply, clientVars
<1>8. ASSUME NEW s \in Addresses, ReadMsg(s)
      PROVE  /\ outbox' \in [Clients -> Seq(Replies)]
             /\ \A c \in Clients : Len(outbox'[c]) <= SendBuffer \/ client'[c] = "gone"
  <2>1. PICK n \in DOMAIN inbox[peer[s]] :
          \/ ReadBad(s, n)
          \/ ReadAndProduce(s, n)
          \/ ReadAndNotProduce(s, n)
          \/ ReadAndCrash(s, n)
          \/ ReadHello(s, n)
          \/ ReadClose(s, n)
    BY <1>8 DEF ReadMsg
  <2>2. peer[s] \in Clients
    BY <1>8 DEF ReadMsg
  <2>3. CASE ReadBad(s, n) \/ ReadAndNotProduce(s, n) \/ ReadAndCrash(s, n) \/ ReadClose(s, n)
    BY <1>4, <2>3
       DEF ReadBad, ReadAndNotProduce, ReadAndCrash, ReadClose, End, Delete, clientVars
  <2>4. ASSUME NEW request \in Replies, AsyncWrite(s, n, request)
        PROVE  /\ outbox' \in [Clients -> Seq(Replies)]
               /\ \A c \in Clients : Len(outbox'[c]) <= SendBuffer \/ client'[c] = "gone"
    BY <1>1, <1>4, <2>2, <2>4 DEF AsyncWrite, clientVars
  <2>5. \A request : request \in {"Registration", "Transaction", "Hello"} => request \in Replies
    BY DEF Replies
  <2> QED BY <2>1, <2>3, <2>4, <2>5 DEF ReadAndProduce, ReadHello
<1>9. ASSUME NEW s \in Addresses, SendLater(s)
      PROVE  /\ outbox' \in [Clients -> Seq(Replies)]
             /\ \A c \in Clients : Len(outbox'[c]) <= SendBuffer \/ client'[c] = "gone"
  <2>1. CASE peer[s] \in Clients
    BY <1>1, <1>9, <2>1 DEF SendLater, Replies, clientVars
  <2>2. CASE peer[s] \notin Clients
    BY <1>4, <1>9, <2>2 DEF SendLater, clientVars
  <2> QED BY <2>1, <2>2
<1>10. ASSUME NEW s \in Addresses,
              \/ Handler(s) /\ ~ ReadMsg(s) /\ ~ SendLater(s)
              \/ HandleAcceptError(s)
              \/ DeleteFreed(s)
              \/ DeleteAnother(s)
              \/ AcceptFreed(s)
       PROVE  outbox' = outbox /\ client' = client
  BY <1>10
     DEF Handler, HandleAccept, HandleAcceptError, ReadMsgError, DeleteCrash, SendMsg,
         SendMsgError, DeleteFreed, DeleteAnother, AcceptFreed, End, Delete, clientVars
<1>11. CASE UNCHANGED vars
  BY <1>4, <1>11 DEF vars, clientVars
<1>12. ASSUME NEW s \in Addresses,
              \/ Handler(s)
              \/ HandleAcceptError(s)
              \/ DeleteFreed(s)
              \/ DeleteAnother(s)
              \/ AcceptFreed(s)
      PROVE  /\ outbox' \in [Clients -> Seq(Replies)]
             /\ \A c \in Clients : Len(outbox'[c]) <= SendBuffer \/ client'[c] = "gone"
  BY <1>4, <1>8, <1>9, <1>10, <1>12
<1>13. ASSUME NEW c \in Clients,
              \/ Connect(c) \/ Leave(c) \/ SendTail(c)
              \/ \E request \in HonestRequests : SendRequest(c, request)
              \/ \E arrival \in Arrivals : SendAnything(c, arrival)
              \/ ReadMessage(c) \/ ConnectAgain(c) \/ TakeReply(c)
      PROVE  /\ outbox' \in [Clients -> Seq(Replies)]
             /\ \A d \in Clients : Len(outbox'[d]) <= SendBuffer \/ client'[d] = "gone"
  BY <1>2, <1>3, <1>4, <1>5, <1>6, <1>7, <1>13
<1> QED BY <1>11, <1>12, <1>13 DEF Next

LEMMA ClientsTyped ==
    ASSUME TypeOK, [Next]_vars
    PROVE  /\ client' \in [Clients -> {"off", "idle", "waiting", "gone"}]
           /\ backlog' \in Seq(Clients)
           /\ sent' \in [Clients -> Seq(Requests)]
           /\ told' \in [Clients -> Seq(Replies)]
           /\ produced' \in [Clients -> Seq({"Registration", "Transaction"})]
<1> USE SessionsAssumption DEF TypeOK
<1>1. ASSUME NEW c \in Clients,
              \/ Connect(c) \/ Leave(c) \/ SendTail(c)
              \/ ReadMessage(c) \/ ConnectAgain(c) \/ TakeReply(c)
      PROVE  /\ client' \in [Clients -> {"off", "idle", "waiting", "gone"}]
             /\ backlog' \in Seq(Clients)
             /\ UNCHANGED sent /\ told' \in [Clients -> Seq(Replies)] /\ UNCHANGED produced
  <2>1. client' \in [Clients -> {"off", "idle", "waiting", "gone"}] /\ UNCHANGED <<sent, produced>>
    BY <1>1 DEF Connect, Leave, SendTail, ReadMessage, ConnectAgain, TakeReply, clientVars
  <2>2. backlog' = backlog \/ backlog' = Append(backlog, c)
    BY <1>1 DEF Connect, Leave, SendTail, ReadMessage, ConnectAgain, TakeReply
  <2>3. told' = told \/ told' = [told EXCEPT ![c] = @ \o outbox[c]]
    BY <1>1 DEF Connect, Leave, SendTail, ReadMessage, ConnectAgain, TakeReply, clientVars
  <2>4. told[c] \o outbox[c] \in Seq(Replies)
    OBVIOUS
  <2>5. told' \in [Clients -> Seq(Replies)]
    BY <2>3, <2>4
  <2>6. backlog' \in Seq(Clients)
    <3>1. backlog \in Seq(Clients)
      OBVIOUS
    <3>2. Append(backlog, c) \in Seq(Clients)
      BY <3>1, AppendProperties
    <3> QED BY <2>2, <3>1, <3>2
  <2> QED BY <2>1, <2>5, <2>6
<1>2. ASSUME NEW c \in Clients, NEW request \in Requests,
             sent' = [sent EXCEPT ![c] = Append(@, request)]
      PROVE  sent' \in [Clients -> Seq(Requests)]
  BY <1>2
<1>3. ASSUME NEW c \in Honest, NEW request \in HonestRequests, SendRequest(c, request)
      PROVE  /\ client' \in [Clients -> {"off", "idle", "waiting", "gone"}]
             /\ UNCHANGED <<backlog, told, produced>> /\ sent' \in [Clients -> Seq(Requests)]
  BY <1>2, <1>3 DEF SendRequest, HonestRequests, Requests
<1>4. ASSUME NEW c \in Clients, NEW arrival \in Arrivals, SendAnything(c, arrival)
      PROVE  /\ UNCHANGED <<client, backlog, told, produced>>
             /\ sent' \in [Clients -> Seq(Requests)]
  BY <1>2, <1>4 DEF SendAnything
<1>5. ASSUME NEW s \in Addresses, ReadMsg(s)
      PROVE  /\ UNCHANGED clientVars /\ backlog' \in Seq(Clients)
             /\ produced' \in [Clients -> Seq({"Registration", "Transaction"})]
  <2>1. PICK n \in DOMAIN inbox[peer[s]] :
          \/ ReadBad(s, n)
          \/ ReadAndProduce(s, n)
          \/ ReadAndNotProduce(s, n)
          \/ ReadAndCrash(s, n)
          \/ ReadHello(s, n)
          \/ ReadClose(s, n)
    BY <1>5 DEF ReadMsg
  <2>2. CASE ReadAndProduce(s, n)
    <3> DEFINE request == Understood(Buffer(s, n))
    <3>1. /\ request \in {"Registration", "Transaction"}
          /\ produced' = [produced EXCEPT ![peer[s]] = Append(@, request)]
          /\ UNCHANGED <<clientVars, backlog>>
      BY <2>2 DEF ReadAndProduce, AsyncWrite
    <3>2. peer[s] \in Clients
      BY <1>5 DEF ReadMsg
    <3> HIDE DEF request
    <3>3. Append(produced[peer[s]], request) \in Seq({"Registration", "Transaction"})
      BY <3>1, <3>2, AppendProperties
    <3> QED BY <3>1, <3>2, <3>3
  <2>3. CASE ReadBad(s, n) \/ ReadAndNotProduce(s, n) \/ ReadAndCrash(s, n) \/ ReadClose(s, n)
             \/ ReadHello(s, n)
    <3>1. /\ UNCHANGED clientVars /\ (backlog' = <<>> \/ backlog' = backlog)
          /\ \/ UNCHANGED produced
             \/ produced' = [produced EXCEPT ![peer[s]] = Append(@, "Registration")]
      BY <2>3
         DEF ReadBad, ReadAndNotProduce, ReadAndCrash, ReadClose, ReadHello, End, Delete, AsyncWrite
    <3>2. <<>> \in Seq(Clients)
      OBVIOUS
    <3>3. peer[s] \in Clients
      BY <1>5 DEF ReadMsg
    <3>4. Append(produced[peer[s]], "Registration") \in Seq({"Registration", "Transaction"})
      BY <3>3, AppendProperties
    <3>5. backlog' \in Seq(Clients)
      BY <3>1, <3>2
    <3>6. CASE produced' = [produced EXCEPT ![peer[s]] = Append(@, "Registration")]
      BY <3>1, <3>3, <3>4, <3>5, <3>6
    <3>7. CASE UNCHANGED produced
      BY <3>1, <3>5, <3>7
    <3> QED BY <3>1, <3>6, <3>7
  <2> QED BY <2>1, <2>2, <2>3
<1>6. ASSUME NEW s \in Addresses,
             \/ Handler(s) /\ ~ ReadMsg(s)
             \/ HandleAcceptError(s)
             \/ DeleteFreed(s)
             \/ DeleteAnother(s)
             \/ AcceptFreed(s)
      PROVE  /\ UNCHANGED clientVars /\ backlog' \in Seq(Clients)
             /\ UNCHANGED produced
  <2>1. CASE HandleAccept(s)
    <3>1. UNCHANGED clientVars /\ UNCHANGED produced /\ backlog # <<>> /\ backlog' = Tail(backlog)
      BY <2>1 DEF HandleAccept
    <3> QED BY <3>1, HeadTailProperties
  <2>2. CASE ~ HandleAccept(s)
    <3>1. UNCHANGED clientVars /\ UNCHANGED produced /\ (backlog' = <<>> \/ backlog' = backlog)
      BY <1>6, <2>2
         DEF Handler, HandleAcceptError, ReadMsgError, DeleteCrash, SendMsg, SendLater,
             SendMsgError, DeleteFreed, DeleteAnother, AcceptFreed, End, Delete
    <3>2. <<>> \in Seq(Clients)
      OBVIOUS
    <3> QED BY <3>1, <3>2
  <2> QED BY <2>1, <2>2
<1>7. CASE UNCHANGED vars
  BY <1>7 DEF vars, clientVars
<1>8. ASSUME UNCHANGED clientVars PROVE UNCHANGED <<client, sent, told>>
  BY <1>8 DEF clientVars
<1> QED BY <1>1, <1>3, <1>4, <1>5, <1>6, <1>7, <1>8 DEF Next


-----------------------------------------------------------------------------
(* What the steps do to the Sessions and their callbacks. *)

Ends == \E how \in {"bad_request", "queue_full", "heap_error"}, who \in Clients \cup {Nobody} :
            End(how, who)

(* The callback has run and has asked for the next one of its Session. *)
Moves(s, from, to) ==
    /\ Runs(s, from) /\ Then(s, from, to)
    /\ UNCHANGED <<process, culprit, alive, peer, sent, client, backlog>>
    /\ to = "unsent" => /\ inbox[peer[s]] # <<>>
                        /\ client[peer[s]] = "gone" \/ Len(outbox[peer[s]]) >= SendBuffer
    /\ \/ UNCHANGED smashed
       \/ /\ from = "read" /\ smashed' = smashed \cup {s}
          /\ \E n \in DOMAIN inbox[peer[s]] : Head(Buffer(s, n)).part = "full"

(* The callback has deleted its Session, leaving others bound to it. *)
Frees(s, from, left) ==
    /\ Runs(s, from)
    /\ pending' = (pending \ {Callback(s, from)}) \cup left
    /\ alive' = alive \ {s} /\ peer' = [peer EXCEPT ![s] = Nobody] /\ smashed' = smashed \ {s}
    /\ UNCHANGED <<process, culprit, sent, client, backlog>>

CloseOf(s, n) == ReadCompletes(s, n) /\ Understood(Buffer(s, n)) = "Close"

ServerStep(s) ==
    \/ Ends
    \/ HandleAccept(s)
    \/ \E from, to \in {"read", "sent", "unsent"} : Moves(s, from, to)
    \/ \E from \in {"accept", "read", "unsent"} : Frees(s, from, {})
    \/ /\ Frees(s, "read", {Callback(s, "aborted")})
       /\ peer[s] # Nobody /\ \E n \in DOMAIN inbox[peer[s]] : CloseOf(s, n)
    \/ /\ pending' = pending \ {Callback(s, "aborted")}
       /\ UNCHANGED <<process, culprit, alive, peer, smashed, sent, client, backlog>>
    \/ DeleteAnother(s)

LEMMA ServerSteps ==
    ASSUME TypeOK, NEW s \in Addresses,
           \/ Handler(s)
           \/ HandleAcceptError(s)
           \/ DeleteFreed(s)
           \/ DeleteAnother(s)
           \/ AcceptFreed(s)
    PROVE  ServerStep(s)
<1> USE DEF ServerStep
<1>1. peer[s] \in Clients \cup {Nobody}
  BY DEF TypeOK
<1>2. ASSUME NEW how \in {"bad_request", "queue_full", "heap_error"},
             NEW who \in Clients \cup {Nobody}, End(how, who)
      PROVE  ServerStep(s)
  BY <1>2 DEF Ends
<1>3. CASE ReadMsg(s)
  <2>1. PICK n \in DOMAIN inbox[peer[s]] :
          \/ ReadBad(s, n)
          \/ ReadAndProduce(s, n)
          \/ ReadAndNotProduce(s, n)
          \/ ReadAndCrash(s, n)
          \/ ReadHello(s, n)
          \/ ReadClose(s, n)
    BY <1>3 DEF ReadMsg
  <2>2. CASE ReadBad(s, n) \/ ReadAndNotProduce(s, n) \/ ReadAndCrash(s, n)
    BY <1>1, <1>2, <2>2 DEF ReadBad, ReadAndNotProduce, ReadAndCrash
  <2>3. ASSUME NEW request, AsyncWrite(s, n, request), ReadCompletes(s, n)
        PROVE  \E to \in {"sent", "unsent"} : Moves(s, "read", to)
    BY <2>3 DEF AsyncWrite, ReadCompletes, Moves, SmashedBy, processVars, clientVars
  <2>4. CASE ReadAndProduce(s, n) \/ ReadHello(s, n)
    BY <2>3, <2>4 DEF ReadAndProduce, ReadHello
  <2>5. CASE ReadClose(s, n)
    <3>1. CASE End("heap_error", peer[s])
      BY <1>1, <1>2, <3>1
    <3>2. CASE Delete(s) /\ Then(s, "read", "aborted")
      BY <1>3, <2>5, <3>2
         DEF ReadMsg, ReadClose, ReadCompletes, Delete, Then, Frees, CloseOf, processVars, clientVars
    <3> QED BY <2>5, <3>1, <3>2 DEF ReadClose
  <2> QED BY <2>1, <2>2, <2>4, <2>5
<1>4. CASE HandleAccept(s) \/ DeleteAnother(s)
  BY <1>4
<1>5. CASE ReadMsgError(s) \/ SendMsgError(s) \/ HandleAcceptError(s)
  <2>1. \E from \in {"accept", "read", "unsent"} : Frees(s, from, {})
    BY <1>5 DEF ReadMsgError, SendMsgError, HandleAcceptError, Frees, Delete, processVars, clientVars
  <2> QED BY <2>1
<1>6. CASE DeleteCrash(s) \/ AcceptFreed(s) \/ (DeleteFreed(s) /\ End("heap_error", Nobody))
  BY <1>1, <1>2, <1>6 DEF DeleteCrash, AcceptFreed
<1>7. CASE SendLater(s) \/ SendMsg(s)
  <2>1. \E from, to \in {"read", "sent", "unsent"} : Moves(s, from, to)
    BY <1>7 DEF SendLater, SendMsg, Moves, processVars, clientVars
  <2> QED BY <2>1
<1>8. CASE DeleteFreed(s) /\ ~ End("heap_error", Nobody)
  BY <1>8 DEF DeleteFreed, processVars, clientVars
<1> HIDE DEF ServerStep
<1> QED BY <1>3, <1>4, <1>5, <1>6, <1>7, <1>8 DEF Handler

LEMMA ClientSteps ==
    ASSUME Next,
           \A s \in Addresses :
              ~ (Handler(s) \/ HandleAcceptError(s) \/ DeleteFreed(s) \/ DeleteAnother(s)
                   \/ AcceptFreed(s))
    PROVE  /\ UNCHANGED <<process, culprit, alive, pending, peer, smashed>>
           /\ \E c \in Clients :
                 \/ Connect(c) \/ Leave(c) \/ (SendTail(c) /\ c \notin Honest)
                 \/ ReadMessage(c) \/ (ConnectAgain(c) /\ c \notin Honest)
                 \/ (TakeReply(c) /\ c \notin Honest)
                 \/ \E request \in HonestRequests : SendRequest(c, request) /\ c \in Honest
                 \/ \E arrival \in Arrivals : SendAnything(c, arrival) /\ c \notin Honest
<1>1. \E c \in Clients :
         \/ Connect(c) \/ Leave(c) \/ (SendTail(c) /\ c \notin Honest)
         \/ ReadMessage(c) \/ (ConnectAgain(c) /\ c \notin Honest)
         \/ (TakeReply(c) /\ c \notin Honest)
         \/ \E request \in HonestRequests : SendRequest(c, request) /\ c \in Honest
         \/ \E arrival \in Arrivals : SendAnything(c, arrival) /\ c \notin Honest
  BY SessionsAssumption DEF Next
<1> QED BY <1>1
    DEF Connect, Leave, SendTail, ReadMessage, ConnectAgain, TakeReply, SendRequest,
        SendAnything, processVars, sessionVars

-----------------------------------------------------------------------------
(* The Sessions: true whatever the clients send, Close too. *)

Busy == {"read", "sent", "unsent"}

Lifetimes ==
    /\ \A s \in Addresses : s \notin alive => peer[s] = Nobody
    /\ \A s \in Addresses : s \in smashed => peer[s] # Nobody
    /\ \A s \in Addresses, op \in Busy :
          Callback(s, op) \in pending =>
              /\ s \in alive /\ peer[s] # Nobody
              /\ \A other \in Busy : Callback(s, other) \in pending => other = op
    /\ \A s \in Addresses : Callback(s, "accept") \in pending => peer[s] = Nobody

Queue ==
    /\ \A s, t \in Addresses : peer[s] = peer[t] /\ peer[s] # Nobody => s = t
    /\ \A s \in Addresses : peer[s] # Nobody => client[peer[s]] # "off"
    /\ \A i, j \in DOMAIN backlog : backlog[i] = backlog[j] => i = j
    /\ \A i \in DOMAIN backlog :
          client[backlog[i]] # "off" /\ \A s \in Addresses : peer[s] # backlog[i]

SessionsTyped ==
    /\ process \in {"up", "bad_request", "queue_full", "heap_error"}
    /\ culprit \in Clients \cup {Nobody}
    /\ alive \subseteq Addresses /\ smashed \subseteq alive
    /\ pending \subseteq [session : Addresses, op : Callbacks]
    /\ peer \in [Addresses -> Clients \cup {Nobody}]

LEMMA SameCallback ==
    /\ \A s, t, op, other : Callback(s, op) = Callback(t, other) <=> s = t /\ op = other
    /\ \A cb \in [session : Addresses, op : Callbacks] : cb = Callback(cb.session, cb.op)
    /\ \A s \in Addresses, op \in Callbacks :
          Callback(s, op) \in [session : Addresses, op : Callbacks]
BY DEF Callback

LEMMA NewAddressIsFree ==
    ASSUME SessionsTyped, NEW t \in NewAddresses
    PROVE  t \in Addresses /\ t \notin alive
<1>1. \A cb \in pending : cb.session \in Addresses
  BY DEF SessionsTyped
<1> QED BY <1>1 DEF NewAddresses

LEMMA SessionsTypedStep ==
    ASSUME TypeOK, [Next]_vars
    PROVE  SessionsTyped'
<1>1. SessionsTyped
  BY DEF TypeOK, SessionsTyped
<1> USE DEF SessionsTyped
<1>2. ASSUME NEW s \in Addresses, ServerStep(s)
      PROVE  SessionsTyped'
  <2>1. CASE Ends
    BY <1>1, <2>1 DEF Ends, End
  <2>2. CASE HandleAccept(s)
    <3>1. PICK t \in NewAddresses :
            /\ alive' = alive \cup {t}
            /\ pending' = (pending \ {Callback(s, "accept")})
                            \cup {Callback(s, "read"), Callback(t, "accept")}
      BY <2>2 DEF HandleAccept
    <3>2. t \in Addresses
      BY <1>1, NewAddressIsFree
    <3>3. Head(backlog) \in Clients
      BY <2>2 DEF HandleAccept, TypeOK
    <3>4. pending' \subseteq [session : Addresses, op : Callbacks]
      BY <1>1, <3>1, <3>2, SameCallback DEF Callbacks
    <3> QED BY <1>1, <2>2, <3>1, <3>2, <3>3, <3>4 DEF HandleAccept, processVars
  <2>3. ASSUME NEW from \in Busy, NEW to \in Busy, Moves(s, from, to)
        PROVE  SessionsTyped'
    <3>1. pending' \subseteq [session : Addresses, op : Callbacks]
      BY <1>1, <2>3, SameCallback DEF Moves, Then, Callbacks, Busy
    <3> QED BY <1>1, <2>3, <3>1 DEF Moves, Runs
  <2>4. ASSUME NEW from, NEW left \in {{}, {Callback(s, "aborted")}}, Frees(s, from, left)
        PROVE  SessionsTyped'
    <3>1. pending' \subseteq [session : Addresses, op : Callbacks]
      BY <1>1, <2>4, SameCallback DEF Frees, Callbacks
    <3> QED BY <1>1, <2>4, <3>1 DEF Frees
  <2>5. CASE /\ pending' = pending \ {Callback(s, "aborted")}
             /\ UNCHANGED <<process, culprit, alive, peer, smashed, sent, client, backlog>>
    BY <1>1, <2>5
  <2>6. CASE DeleteAnother(s)
    <3>1. pending' \subseteq [session : Addresses, op : Callbacks]
      BY <1>1, <2>6, SameCallback DEF DeleteAnother, Callbacks
    <3> QED BY <1>1, <2>6, <3>1 DEF DeleteAnother, Delete, processVars
  <2> QED BY <1>2, <2>1, <2>2, <2>3, <2>4, <2>5, <2>6 DEF ServerStep, Busy
<1>3. CASE UNCHANGED <<process, culprit, alive, pending, peer, smashed>>
  BY <1>1, <1>3
<1>4. CASE UNCHANGED vars
  BY <1>1, <1>4 DEF vars, processVars, sessionVars
<1> QED BY <1>2, <1>3, <1>4, ServerSteps, ClientSteps

LEMMA LifetimesStep ==
    ASSUME TypeOK, Lifetimes, [Next]_vars
    PROVE  Lifetimes'
<1>1. SessionsTyped
  BY DEF TypeOK, SessionsTyped
<1>2. ASSUME NEW s \in Addresses, ServerStep(s)
      PROVE  Lifetimes'
  <2>1. CASE Ends
    BY <2>1 DEF Ends, End, Lifetimes
  <2>2. CASE HandleAccept(s)
    <3>1. PICK t \in NewAddresses :
            /\ alive' = alive \cup {t}
            /\ pending' = (pending \ {Callback(s, "accept")})
                            \cup {Callback(s, "read"), Callback(t, "accept")}
      BY <2>2 DEF HandleAccept
    <3>2. t \in Addresses /\ t \notin alive
      BY <1>1, NewAddressIsFree
    <3>3. Head(backlog) \in Clients /\ Head(backlog) # Nobody
      BY <2>2, SessionsAssumption DEF HandleAccept, TypeOK
    <3>4. /\ Callback(s, "accept") \in pending /\ s \in alive /\ smashed' = smashed
          /\ peer' = [peer EXCEPT ![s] = Head(backlog)]
      BY <2>2 DEF HandleAccept, Runs
    <3>5. \A u \in Addresses : \A op :
            Callback(u, op) \in pending' <=>
              \/ Callback(u, op) \in pending /\ ~ (u = s /\ op = "accept")
              \/ u = s /\ op = "read"
              \/ u = t /\ op = "accept"
      BY <3>1, SameCallback
    <3>6. \A u \in Addresses : peer'[u] = IF u = s THEN Head(backlog) ELSE peer[u]
      BY <1>1, <3>4 DEF SessionsTyped
    <3> QED BY <3>1, <3>2, <3>3, <3>4, <3>5, <3>6 DEF Lifetimes, Busy
  <2>3. ASSUME NEW from \in Busy, NEW to \in Busy, Moves(s, from, to)
        PROVE  Lifetimes'
    <3>1. \A u \in Addresses : \A op :
            Callback(u, op) \in pending' <=>
              \/ Callback(u, op) \in pending /\ ~ (u = s /\ op = from)
              \/ u = s /\ op = to
      BY <2>3, SameCallback DEF Moves, Then
    <3>2. Callback(s, from) \in pending
      BY <2>3 DEF Moves, Runs
    <3>3. UNCHANGED <<alive, peer>> /\ smashed' \subseteq smashed \cup {s}
      BY <2>3 DEF Moves
    <3> QED BY <3>1, <3>2, <3>3 DEF Lifetimes, Busy
  <2>4. ASSUME NEW from \in {"accept", "read", "unsent"},
               NEW left \in {{}, {Callback(s, "aborted")}}, Frees(s, from, left)
        PROVE  Lifetimes'
    <3>1. \A u \in Addresses : \A op :
            Callback(u, op) \in pending' <=>
              \/ Callback(u, op) \in pending /\ ~ (u = s /\ op = from)
              \/ Callback(u, op) \in left
      BY <2>4, SameCallback DEF Frees
    <3>2. Callback(s, from) \in pending
      BY <2>4 DEF Frees, Runs
    <3>3. \A u \in Addresses : peer'[u] = IF u = s THEN Nobody ELSE peer[u]
      BY <1>1, <2>4 DEF Frees, SessionsTyped
    <3>4. alive' = alive \ {s} /\ smashed' = smashed \ {s}
      BY <2>4 DEF Frees
    <3>5. \A u, op : Callback(u, op) \in left => op = "aborted"
      BY SameCallback
    <3> QED BY <3>1, <3>2, <3>3, <3>4, <3>5 DEF Lifetimes, Busy
  <2>5. CASE /\ pending' = pending \ {Callback(s, "aborted")}
             /\ UNCHANGED <<process, culprit, alive, peer, smashed, sent, client, backlog>>
    BY <2>5, SameCallback DEF Lifetimes, Busy
  <2>6. CASE DeleteAnother(s)
    <3>1. \A u \in Addresses : \A op :
            Callback(u, op) \in pending' =>
              \/ Callback(u, op) \in pending /\ (u # s \/ op = "accept")
              \/ op = "aborted"
      BY <2>6, SameCallback DEF DeleteAnother, Callback
    <3>2. \A u \in Addresses : peer'[u] = IF u = s THEN Nobody ELSE peer[u]
      BY <1>1, <2>6 DEF DeleteAnother, Delete, SessionsTyped
    <3>3. alive' = alive \ {s} /\ smashed' = smashed \ {s}
      BY <2>6 DEF DeleteAnother, Delete
    <3> QED BY <3>1, <3>2, <3>3 DEF Lifetimes, Busy
  <2> QED BY <1>2, <2>1, <2>2, <2>3, <2>4, <2>5, <2>6 DEF ServerStep, Busy
<1>3. CASE UNCHANGED <<process, culprit, alive, pending, peer, smashed>>
  BY <1>3 DEF Lifetimes
<1>4. CASE UNCHANGED vars
  BY <1>4 DEF vars, processVars, sessionVars, Lifetimes
<1> QED BY <1>2, <1>3, <1>4, ServerSteps, ClientSteps

(* Nobody is in the backlog twice, or while a Session has him. *)
LEMMA QueueStep ==
    ASSUME TypeOK, Queue, [Next]_vars
    PROVE  Queue'
<1>1. SessionsTyped
  BY DEF TypeOK, SessionsTyped
<1>2. backlog \in Seq(Clients) /\ client \in [Clients -> {"off", "idle", "waiting", "gone"}]
  BY DEF TypeOK
<1>3. ASSUME NEW s \in Addresses, ServerStep(s)
      PROVE  Queue'
  <2>1. CASE Ends
    BY <2>1, SessionsAssumption DEF Ends, End, Queue
  <2>2. CASE HandleAccept(s)
    <3>1. /\ Head(backlog) = backlog[1] /\ Len(backlog) \in Nat /\ Len(backlog) > 0
          /\ Head(backlog) \in Clients
          /\ DOMAIN backlog = 1 .. Len(backlog)
      BY <1>2, <2>2 DEF HandleAccept
    <3>2. /\ DOMAIN backlog' = 1 .. Len(backlog) - 1
          /\ \A i \in 1 .. Len(backlog) - 1 : backlog'[i] = backlog[i + 1]
      BY <1>2, <2>2, <3>1, HeadTailProperties DEF HandleAccept
    <3>3. \A u \in Addresses : peer'[u] = IF u = s THEN Head(backlog) ELSE peer[u]
      BY <1>1, <2>2 DEF HandleAccept, SessionsTyped
    <3>4. client' = client
      BY <2>2 DEF HandleAccept, clientVars
    <3> DEFINE c == Head(backlog)
               n == Len(backlog)
    <3>5. /\ c = backlog[1] /\ n \in Nat /\ n > 0 /\ 1 \in DOMAIN backlog
          /\ \A i \in 1 .. n - 1 : i + 1 \in DOMAIN backlog /\ i + 1 # 1
      BY <3>1
    <3> HIDE DEF c, n
    <3>6. /\ client[c] # "off" /\ \A u \in Addresses : peer[u] # c
          /\ \A i \in 1 .. n - 1 : backlog[i + 1] # c
      BY <3>5 DEF Queue
    <3>7. \A i \in 1 .. n - 1 :
            /\ client[backlog[i + 1]] # "off"
            /\ \A u \in Addresses : peer[u] # backlog[i + 1]
      BY <3>5 DEF Queue
    <3>8. \A i, j \in 1 .. n - 1 : backlog[i + 1] = backlog[j + 1] => i = j
      <4>1. \A i, j \in 1 .. n - 1 : i + 1 = j + 1 => i = j
        BY <3>5
      <4> QED BY <3>5, <4>1 DEF Queue
    <3>9. /\ DOMAIN backlog' = 1 .. n - 1
          /\ \A i \in 1 .. n - 1 : backlog'[i] = backlog[i + 1]
          /\ \A u \in Addresses : peer'[u] = IF u = s THEN c ELSE peer[u]
      BY <3>2, <3>3 DEF c, n
    <3>10. \A u, v \in Addresses : peer'[u] = peer'[v] /\ peer'[u] # Nobody => u = v
      BY <3>6, <3>9 DEF Queue
    <3>11. \A u \in Addresses : peer'[u] # Nobody => client'[peer'[u]] # "off"
      BY <3>4, <3>6, <3>9 DEF Queue
    <3>12. /\ \A i, j \in DOMAIN backlog' : backlog'[i] = backlog'[j] => i = j
           /\ \A i \in DOMAIN backlog' :
                 client'[backlog'[i]] # "off" /\ \A u \in Addresses : peer'[u] # backlog'[i]
      BY <3>4, <3>6, <3>7, <3>8, <3>9
    <3> QED BY <3>10, <3>11, <3>12 DEF Queue
  <2>3. CASE UNCHANGED <<peer, client, backlog>>
    BY <2>3 DEF Queue
  <2>4. CASE peer' = [peer EXCEPT ![s] = Nobody] /\ UNCHANGED <<client, backlog>>
    <3>1. \A u \in Addresses : peer'[u] = IF u = s THEN Nobody ELSE peer[u]
      BY <1>1, <2>4 DEF SessionsTyped
    <3>2. \A i \in DOMAIN backlog : backlog[i] # Nobody
      BY <1>2, SessionsAssumption
    <3> QED BY <2>4, <3>1, <3>2 DEF Queue
  <2> QED BY <1>3, <2>1, <2>2, <2>3, <2>4
      DEF ServerStep, Moves, Frees, DeleteAnother, Delete, clientVars
<1>4. ASSUME peer' = peer, NEW c \in Clients,
             Connect(c) \/ ConnectAgain(c)
      PROVE  Queue'
  <2>1. /\ backlog' = Append(backlog, c) /\ client'[c] # "off"
        /\ \A d \in Clients : d # c => client'[d] = client[d]
    BY <1>2, <1>4 DEF Connect, ConnectAgain, clientVars
  <2>2. /\ Len(backlog) \in Nat
        /\ DOMAIN backlog = 1 .. Len(backlog) /\ DOMAIN backlog' = 1 .. Len(backlog) + 1
        /\ \A i \in 1 .. Len(backlog) : backlog'[i] = backlog[i]
        /\ backlog'[Len(backlog) + 1] = c
    BY <1>2, <2>1, AppendProperties
  <2>3. /\ \A i \in DOMAIN backlog : backlog[i] # c
        /\ \A s \in Addresses : peer[s] # c
    BY <1>4, SessionsAssumption DEF Connect, ConnectAgain, Queue, HasSession, Range
  <2>4. /\ \A i \in DOMAIN backlog : backlog[i] \in Clients
        /\ \A s \in Addresses : peer[s] # Nobody => peer[s] \in Clients
    BY <1>1, <1>2 DEF SessionsTyped
  <2> QED BY <1>4, <2>1, <2>2, <2>3, <2>4 DEF Queue
<1>5. ASSUME UNCHANGED <<peer, backlog>>,
             \A c \in Clients : client[c] # "off" => client'[c] # "off"
      PROVE  Queue'
  <2>1. /\ \A i \in DOMAIN backlog : backlog[i] \in Clients
        /\ \A s \in Addresses : peer[s] # Nobody => peer[s] \in Clients
    BY <1>1, <1>2 DEF SessionsTyped
  <2> QED BY <1>5, <2>1 DEF Queue
<1>6. ASSUME NEW c \in Clients,
             \/ Leave(c) \/ SendTail(c) \/ ReadMessage(c) \/ TakeReply(c)
             \/ \E request \in HonestRequests : SendRequest(c, request)
             \/ \E arrival \in Arrivals : SendAnything(c, arrival)
      PROVE  UNCHANGED <<peer, backlog>> /\ \A d \in Clients : client[d] # "off" => client'[d] # "off"
  BY <1>2, <1>6
     DEF Leave, SendTail, ReadMessage, TakeReply, SendRequest, SendAnything, clientVars, sessionVars
<1>7. CASE UNCHANGED vars
  BY <1>7 DEF vars, clientVars, sessionVars, Queue
<1> QED BY <1>3, <1>4, <1>5, <1>6, <1>7, ServerSteps, ClientSteps


-----------------------------------------------------------------------------
(* The Sessions as long as nobody has sent Close. *)

(* What has come from a client it has sent. *)
Authentic ==
    \A c \in Clients : \A i \in DOMAIN inbox[c] : inbox[c][i].request \in Range(sent[c])

LEMMA AuthenticStep ==
    ASSUME TypeOK, Authentic, [Next]_vars
    PROVE  /\ Authentic'
           /\ \A c \in Clients : Range(sent[c]) \subseteq Range(sent'[c])
<1> USE DEF Authentic
<1>1. InboxStep
  BY InboxSteps
<1>2. inbox \in [Clients -> Seq(AnyArrival)] /\ sent \in [Clients -> Seq(Requests)]
  BY DEF TypeOK
<1>3. ASSUME NEW c \in Clients, NEW s,
             \A i \in DOMAIN s : s[i].request \in Range(sent[c]),
             inbox' = [inbox EXCEPT ![c] = s], sent' = sent
      PROVE  Authentic'
  BY <1>2, <1>3
<1>4. ASSUME NEW c \in Clients, NEW n \in DOMAIN inbox[c]
      PROVE  \A i \in DOMAIN SubSeq(inbox[c], n + 1, Len(inbox[c])) :
                SubSeq(inbox[c], n + 1, Len(inbox[c]))[i].request \in Range(sent[c])
  <2> DEFINE s == inbox[c]
             rest == SubSeq(s, n + 1, Len(s))
  <2>1. s \in Seq(AnyArrival) /\ n \in 1 .. Len(s) /\ Len(s) \in Nat
    BY <1>2
  <2>2. \A i \in n + 1 .. Len(s) : s[i] \in AnyArrival
    BY <2>1
  <2>3. /\ rest \in Seq(AnyArrival)
        /\ Len(rest) = IF n + 1 <= Len(s) THEN Len(s) - (n + 1) + 1 ELSE 0
        /\ \A i \in 1 .. Len(s) - (n + 1) + 1 : rest[i] = s[n + 1 + i - 1]
    BY <2>1, <2>2, SubSeqProperties
  <2>4. ASSUME NEW i \in DOMAIN rest
        PROVE  \E j \in DOMAIN s : rest[i] = s[j]
    <3> HIDE DEF rest, s
    <3>1. i \in 1 .. Len(s) - (n + 1) + 1
      BY <2>1, <2>3
    <3>2. n + 1 + i - 1 \in DOMAIN s
      BY <2>1, <3>1
    <3> QED BY <2>3, <3>1, <3>2
  <2> QED BY <2>4
<1>5. ASSUME NEW c \in Clients, NEW m \in AnyArrival, m.request \in Range(sent'[c]),
             Range(sent[c]) \subseteq Range(sent'[c]),
             \A d \in Clients : d # c => sent'[d] = sent[d],
             inbox' = [inbox EXCEPT ![c] = Append(@, m)]
      PROVE  Authentic'
  <2>1. /\ DOMAIN Append(inbox[c], m) = 1 .. Len(inbox[c]) + 1
        /\ \A i \in 1 .. Len(inbox[c]) : Append(inbox[c], m)[i] = inbox[c][i]
        /\ Append(inbox[c], m)[Len(inbox[c]) + 1] = m
        /\ DOMAIN inbox[c] = 1 .. Len(inbox[c]) /\ Len(inbox[c]) \in Nat
    BY <1>2
  <2>2. \A i \in DOMAIN Append(inbox[c], m) : Append(inbox[c], m)[i].request \in Range(sent'[c])
    BY <1>5, <2>1
  <2>3. /\ inbox'[c] = Append(inbox[c], m)
        /\ \A d \in Clients : d # c => inbox'[d] = inbox[d]
    BY <1>2, <1>5
  <2> QED BY <1>5, <2>2, <2>3
<1>6. ASSUME NEW c \in Clients, NEW r \in Requests, sent' = [sent EXCEPT ![c] = Append(@, r)]
      PROVE  /\ r \in Range(sent'[c])
             /\ \A d \in Clients : Range(sent[d]) \subseteq Range(sent'[d])
             /\ \A d \in Clients : d # c => sent'[d] = sent[d]
  <2>1. /\ DOMAIN Append(sent[c], r) = 1 .. Len(sent[c]) + 1
        /\ \A i \in 1 .. Len(sent[c]) : Append(sent[c], r)[i] = sent[c][i]
        /\ Append(sent[c], r)[Len(sent[c]) + 1] = r
        /\ DOMAIN sent[c] = 1 .. Len(sent[c]) /\ Len(sent[c]) \in Nat
    BY <1>2
  <2>2. r \in Range(Append(sent[c], r)) /\ Range(sent[c]) \subseteq Range(Append(sent[c], r))
    BY <2>1 DEF Range
  <2>3. sent'[c] = Append(sent[c], r) /\ \A d \in Clients : d # c => sent'[d] = sent[d]
    BY <1>2, <1>6
  <2> QED BY <2>2, <2>3
<1>7. CASE inbox' = inbox /\ sent' = sent
  BY <1>7
<1>8. CASE inbox' = [c \in Clients |-> <<>>] /\ sent' = sent
  BY <1>8
<1>9. CASE \E c \in Clients : inbox' = [inbox EXCEPT ![c] = <<>>] /\ sent' = sent
  BY <1>3, <1>9
<1>10. CASE \E c \in Clients : \E n \in DOMAIN inbox[c] :
               inbox' = [inbox EXCEPT ![c] = SubSeq(@, n + 1, Len(@))] /\ sent' = sent
  BY <1>3, <1>4, <1>10
<1>11. ASSUME NEW c \in Clients, NEW m \in AnyArrival,
              inbox' = [inbox EXCEPT ![c] = Append(@, m)],
              sent' = [sent EXCEPT ![c] = Append(@, m.request)]
       PROVE  /\ Authentic'
              /\ \A d \in Clients : Range(sent[d]) \subseteq Range(sent'[d])
  <2>1. m.request \in Requests
    BY DEF AnyArrival
  <2> HIDE DEF Authentic
  <2> QED BY <1>5, <1>6, <1>11, <2>1
<1>12. ASSUME NEW c \in Clients, NEW m \in AnyArrival,
              inbox[c] # <<>>, m.request = Last(inbox[c]).request,
              inbox' = [inbox EXCEPT ![c] = Append(@, m)], sent' = sent
       PROVE  Authentic'
  <2>1. m.request \in Range(sent[c])
    <3>1. Len(inbox[c]) \in DOMAIN inbox[c]
      BY <1>2, <1>12
    <3> QED BY <1>12, <3>1 DEF Last
  <2> HIDE DEF Authentic
  <2> QED BY <1>5, <1>12, <2>1
<1> HIDE DEF Authentic
<1> QED BY <1>1, <1>7, <1>8, <1>9, <1>10, <1>11, <1>12 DEF InboxStep

(* A read that is understood is a request that has been sent. *)
LEMMA UnderstoodWasSent ==
    ASSUME TypeOK, Authentic, NEW s \in Addresses, peer[s] # Nobody,
           NEW n \in DOMAIN inbox[peer[s]], Understood(Buffer(s, n)) # "Bad"
    PROVE  Understood(Buffer(s, n)) \in Range(sent[peer[s]])
<1> DEFINE c == peer[s]
<1>1. c \in Clients /\ inbox[c] \in Seq(AnyArrival)
  BY DEF TypeOK
<1>2. Buffer(s, n)[1] = inbox[c][1] /\ 1 \in DOMAIN inbox[c]
  <2>1. n \in 1 .. Len(inbox[c]) /\ \A i \in 1 .. n : inbox[c][i] \in AnyArrival
    BY <1>1
  <2>2. \A i \in 1 .. n - 1 + 1 : SubSeq(inbox[c], 1, n)[i] = inbox[c][1 + i - 1]
    BY <2>1, SubSeqProperties
  <2> QED BY <1>1, <2>1, <2>2 DEF Buffer
<1>3. Understood(Buffer(s, n)) = Buffer(s, n)[1].request
  BY DEF Understood
<1> QED BY <1>1, <1>2, <1>3 DEF Authentic

Orderly ==
    NoClose =>
        /\ \A s \in Addresses, op \in Callbacks :
              Callback(s, op) \in pending => s \in alive /\ op # "aborted"
        /\ \A s \in alive : \E op \in Busy \cup {"accept"} : Callback(s, op) \in pending
        /\ \A s, t \in alive : peer[s] = Nobody /\ peer[t] = Nobody => s = t

LEMMA OrderlyStep ==
    ASSUME TypeOK, Lifetimes, Authentic, Orderly, [Next]_vars
    PROVE  Orderly'
<1> SUFFICES ASSUME NoClose' PROVE Orderly'
  BY DEF Orderly
<1>1. SessionsTyped /\ NoClose
  <2>1. \A c \in Clients : Range(sent[c]) \subseteq Range(sent'[c])
    BY AuthenticStep
  <2> QED BY <2>1 DEF NoClose, TypeOK, SessionsTyped
<1> DEFINE Waits(s, op) == Callback(s, op) \in pending
<1>2. /\ \A s \in Addresses, op \in Callbacks : Waits(s, op) => s \in alive /\ op # "aborted"
      /\ \A s \in alive : \E op \in Busy \cup {"accept"} : Waits(s, op)
      /\ \A s, t \in alive : peer[s] = Nobody /\ peer[t] = Nobody => s = t
  BY <1>1 DEF Orderly
<1>3. ASSUME NEW s \in Addresses, ServerStep(s)
      PROVE  Orderly'
  <2>1. CASE Ends
    BY <2>1 DEF Ends, End, Orderly
  <2>2. CASE HandleAccept(s)
    <3>1. PICK t \in NewAddresses :
            /\ alive' = alive \cup {t}
            /\ pending' = (pending \ {Callback(s, "accept")})
                            \cup {Callback(s, "read"), Callback(t, "accept")}
      BY <2>2 DEF HandleAccept
    <3>2. t \in Addresses /\ t \notin alive
      BY <1>1, NewAddressIsFree
    <3>3. Head(backlog) # Nobody
      BY <2>2, SessionsAssumption DEF HandleAccept, TypeOK
    <3>4. Waits(s, "accept") /\ s \in alive
      BY <2>2 DEF HandleAccept, Runs
    <3>5. \A u \in Addresses : \A op :
            Callback(u, op) \in pending' <=>
              \/ Waits(u, op) /\ ~ (u = s /\ op = "accept")
              \/ u = s /\ op = "read"
              \/ u = t /\ op = "accept"
      BY <3>1, SameCallback
    <3>6. \A u \in Addresses : peer'[u] = IF u = s THEN Head(backlog) ELSE peer[u]
      BY <1>1, <2>2 DEF HandleAccept, SessionsTyped
    <3>7. peer[s] = Nobody /\ alive \subseteq Addresses
      BY <1>1, <3>4 DEF Lifetimes, SessionsTyped
    <3> QED BY <1>2, <3>1, <3>2, <3>3, <3>4, <3>5, <3>6, <3>7 DEF Orderly, Busy
  <2>3. ASSUME NEW from \in Busy, NEW to \in Busy, Moves(s, from, to)
        PROVE  Orderly'
    <3>1. \A u \in Addresses : \A op :
            Callback(u, op) \in pending' <=>
              \/ Waits(u, op) /\ ~ (u = s /\ op = from)
              \/ u = s /\ op = to
      BY <2>3, SameCallback DEF Moves, Then
    <3>2. s \in alive /\ UNCHANGED <<alive, peer>> /\ alive \subseteq Addresses
      BY <1>1, <2>3 DEF Moves, Runs, SessionsTyped
    <3> QED BY <1>2, <3>1, <3>2 DEF Orderly, Busy
  <2>4. ASSUME NEW from \in {"accept", "read", "unsent"}, Frees(s, from, {})
        PROVE  Orderly'
    <3>1. \A u \in Addresses : \A op :
            Callback(u, op) \in pending' <=> Waits(u, op) /\ ~ (u = s /\ op = from)
      BY <2>4, SameCallback DEF Frees
    <3>2. Waits(s, from)
      BY <2>4 DEF Frees, Runs
    <3>3. \A u \in Addresses : peer'[u] = IF u = s THEN Nobody ELSE peer[u]
      BY <1>1, <2>4 DEF Frees, SessionsTyped
    <3>4. alive' = alive \ {s} /\ alive \subseteq Addresses
      BY <1>1, <2>4 DEF Frees, SessionsTyped
    <3>5. \A op \in Callbacks : Waits(s, op) => op = from
      BY <1>2, <3>2 DEF Lifetimes, Busy, Callbacks
    <3> QED BY <1>2, <3>1, <3>2, <3>3, <3>4, <3>5 DEF Orderly, Busy
  <2>5. ASSUME NEW n \in DOMAIN inbox[peer[s]], CloseOf(s, n), peer[s] # Nobody
        PROVE  FALSE
    <3>1. "Close" \in Range(sent[peer[s]]) /\ peer[s] \in Clients
      BY <2>5, UnderstoodWasSent DEF CloseOf, TypeOK
    <3> QED BY <1>1, <3>1 DEF NoClose
  <2>6. CASE /\ pending' = pending \ {Callback(s, "aborted")}
             /\ UNCHANGED <<process, culprit, alive, peer, smashed, sent, client, backlog>>
    BY <1>2, <2>6, SameCallback DEF Orderly, Busy
  <2>7. CASE DeleteAnother(s)
    <3>1. Waits(s, "aborted") /\ "aborted" \in Callbacks
      BY <2>7 DEF DeleteAnother, Runs, Callbacks
    <3> QED BY <1>2, <3>1
  <2> QED BY <1>3, <2>1, <2>2, <2>3, <2>4, <2>5, <2>6, <2>7 DEF ServerStep, Busy
<1>4. CASE UNCHANGED <<process, culprit, alive, pending, peer, smashed>>
  BY <1>2, <1>4 DEF Orderly
<1>5. CASE UNCHANGED vars
  BY <1>2, <1>5 DEF vars, sessionVars, Orderly
<1> QED BY <1>3, <1>4, <1>5, ServerSteps, ClientSteps

LEMMA OrderlyMeansOneEach ==
    ASSUME TypeOK, Lifetimes, Queue, Orderly
    PROVE  OneCallbackEach
<1> SUFFICES ASSUME NoClose PROVE OneCallbackEach
  BY DEF OneCallbackEach
<1>1. /\ pending \subseteq [session : Addresses, op : Callbacks] /\ alive \subseteq Addresses
  BY DEF TypeOK
<1>2. \A cb \in pending :
         /\ cb = Callback(cb.session, cb.op)
         /\ cb.session \in alive /\ cb.op \in Busy \cup {"accept"}
  <2>1. \A cb \in pending : cb.session \in Addresses /\ cb.op \in Callbacks
    BY <1>1
  <2> QED BY <1>1, <2>1, SameCallback DEF Orderly, Busy, Callbacks
<1>3. ASSUME NEW s \in alive
      PROVE  \E op \in Callbacks \ {"aborted"} :
                /\ {cb \in pending : cb.session = s} = {Callback(s, op)}
                /\ op = "accept" <=> peer[s] = Nobody
  <2>1. PICK op \in Busy \cup {"accept"} : Callback(s, op) \in pending
    BY DEF Orderly
  <2>2. op = "accept" <=> peer[s] = Nobody
    BY <1>1, <2>1 DEF Lifetimes, Busy
  <2>3. \A other \in Busy \cup {"accept"} : Callback(s, other) \in pending => other = op
    BY <1>1, <2>1 DEF Lifetimes, Busy
  <2>4. {cb \in pending : cb.session = s} = {Callback(s, op)}
    BY <1>2, <2>1, <2>3 DEF Callback
  <2> QED BY <2>2, <2>4 DEF Busy, Callbacks
<1>4. ASSUME NEW s \in alive, NEW t \in alive, peer[s] = peer[t]
      PROVE  s = t
  BY <1>1, <1>4 DEF Orderly, Queue
<1> QED BY <1>2, <1>3, <1>4 DEF OneCallbackEach

LEMMA NextTyped == TypeOK /\ [Next]_vars => TypeOK'
<1> SUFFICES ASSUME TypeOK, [Next]_vars PROVE TypeOK'
  OBVIOUS
<1>1. /\ SessionsTyped'
      /\ inbox' \in [Clients -> Seq(AnyArrival)]
      /\ outbox' \in [Clients -> Seq(Replies)]
      /\ \A c \in Clients : Len(outbox'[c]) <= SendBuffer \/ client'[c] = "gone"
  BY SessionsTypedStep, InboxTyped, OutboxTyped
<1>2. /\ client' \in [Clients -> {"off", "idle", "waiting", "gone"}]
      /\ backlog' \in Seq(Clients)
      /\ sent' \in [Clients -> Seq(Requests)]
      /\ told' \in [Clients -> Seq(Replies)]
      /\ produced' \in [Clients -> Seq({"Registration", "Transaction"})]
  BY ClientsTyped
<1> QED BY <1>1, <1>2 DEF TypeOK, SessionsTyped

LEMMA InitHolds == Init => Lifetimes /\ Queue /\ Authentic /\ Orderly
<1> SUFFICES ASSUME Init PROVE Lifetimes /\ Queue /\ Authentic /\ Orderly
  OBVIOUS
<1> DEFINE first == AnAddress(Addresses)
<1>1. first \in Addresses
  BY SessionsAssumption DEF AnAddress
<1>2. alive = {first} /\ \A s, op : Callback(s, op) \in pending <=> s = first /\ op = "accept"
  BY SameCallback DEF Init
<1> HIDE DEF first
<1>3. \A s \in Addresses : peer[s] = Nobody
  BY DEF Init
<1>4. backlog = <<>> /\ smashed = {} /\ \A c \in Clients : inbox[c] = <<>>
  BY DEF Init
<1>5. Lifetimes
  BY <1>2, <1>3, <1>4 DEF Lifetimes, Busy
<1>6. Queue
  BY <1>3, <1>4 DEF Queue
<1>7. Authentic
  BY <1>4 DEF Authentic
<1>8. Orderly
  BY <1>1, <1>2, <1>3 DEF Orderly, Busy
<1> QED BY <1>5, <1>6, <1>7, <1>8

SessionsInv == TypeOK /\ Lifetimes /\ Queue /\ Authentic /\ Orderly

LEMMA InitInv == Init => SessionsInv
BY InitTyped, InitHolds DEF SessionsInv

LEMMA NextInv == SessionsInv /\ [Next]_vars => SessionsInv'
BY NextTyped, LifetimesStep, QueueStep, AuthenticStep, OrderlyStep DEF SessionsInv

(* Every Session, callback, socket and buffer is what it is declared to    *)
(* be, whatever the clients send (server_connector.hpp:24-77).             *)
THEOREM SessionsAreTyped == Spec => []TypeOK
<1>1. Init => TypeOK
  BY InitTyped
<1>2. TypeOK /\ [Next]_vars => TypeOK'
  BY NextTyped
<1> QED BY <1>1, <1>2, PTL DEF Spec

(* As long as nobody sends Close, each Session waits for one callback,     *)
(* each callback finds its Session, and no client has two of them          *)
(* (server_connector.cpp:62-86, 134-149).                                  *)
THEOREM OneCallback == Spec => []OneCallbackEach
<1>1. SessionsInv => OneCallbackEach
  BY OrderlyMeansOneEach DEF SessionsInv
<1> QED BY InitInv, NextInv, <1>1, PTL DEF Spec

-----------------------------------------------------------------------------
(* The clients that run Client.cpp. *)

(* What is between an honest client and the server: one request, or one    *)
(* reply, as long as the client is there.                                  *)
Served(c) ==
    /\ Len(inbox[c]) <= 1
    /\ \A i \in DOMAIN inbox[c] :
          inbox[c][i].part = "whole" /\ inbox[c][i].request \in HonestRequests
    /\ client[c] \in {"off", "idle"} => inbox[c] = <<>> /\ outbox[c] = <<>>
    /\ client[c] = "waiting" /\ outbox[c] # <<>> => inbox[c] = <<>>

(* Its Session has all of its members, and has sent all of its replies.    *)
Kept(c) ==
    \A s \in Addresses : peer[s] = c =>
        /\ s \notin smashed
        /\ Callback(s, "unsent") \in pending => client[c] = "gone"

LEMMA HonestRead ==
    ASSUME TypeOK, NEW s \in Addresses, peer[s] \in Honest, Served(peer[s]),
           NEW n \in DOMAIN inbox[peer[s]]
    PROVE  /\ Head(Buffer(s, n)).part = "whole"
           /\ Understood(Buffer(s, n)) \in HonestRequests
           /\ Understood(Buffer(s, n)) = inbox[peer[s]][1].request
           /\ SubSeq(inbox[peer[s]], n + 1, Len(inbox[peer[s]])) = <<>>
<1> DEFINE c == peer[s]
           rest == SubSeq(inbox[c], n + 1, Len(inbox[c]))
<1>1. inbox[c] \in Seq(AnyArrival) /\ Len(inbox[c]) \in Nat /\ DOMAIN inbox[c] = 1 .. Len(inbox[c])
  BY SessionsAssumption DEF TypeOK
<1>2. n = 1 /\ Len(inbox[c]) = 1
  <2>1. Len(inbox[c]) <= 1
    BY DEF Served
  <2>2. n \in 1 .. Len(inbox[c])
    BY <1>1
  <2>3. \A k \in Nat : \A i \in 1 .. k : k <= 1 => i = 1 /\ k = 1
    OBVIOUS
  <2> QED BY <1>1, <2>1, <2>2, <2>3
<1>3. /\ Len(Buffer(s, n)) = 1 /\ Buffer(s, n)[1] = inbox[c][1]
      /\ Head(Buffer(s, n)) = inbox[c][1]
  <2>1. /\ SubSeq(inbox[c], 1, 1) \in Seq(AnyArrival)
        /\ Len(SubSeq(inbox[c], 1, 1)) = 1
        /\ \A i \in 1 .. 1 - 1 + 1 : SubSeq(inbox[c], 1, 1)[i] = inbox[c][1 + i - 1]
    <3>1. \A i \in 1 .. 1 : inbox[c][i] \in AnyArrival
      BY <1>1, <1>2
    <3> QED BY <1>1, <3>1, SubSeqProperties
  <2> QED BY <1>2, <2>1 DEF Buffer
<1>4. inbox[c][1].part = "whole" /\ inbox[c][1].request \in HonestRequests
  BY <1>1, <1>2 DEF Served
<1>5. rest = <<>>
  <2>1. \A i \in n + 1 .. Len(inbox[c]) : inbox[c][i] \in AnyArrival
    BY <1>1
  <2>2. rest \in Seq(AnyArrival) /\ Len(rest) = 0
    BY <1>1, <1>2, <2>1, SubSeqProperties
  <2> QED BY <2>2
<1> QED BY <1>3, <1>4, <1>5 DEF Understood

LEMMA ServedStep ==
    ASSUME TypeOK, NEW c \in Honest, Served(c), Kept(c), [Next]_vars
    PROVE  Served(c)'
<1>1. /\ c \in Clients
      /\ inbox \in [Clients -> Seq(AnyArrival)] /\ outbox \in [Clients -> Seq(Replies)]
      /\ sent \in [Clients -> Seq(Requests)]
      /\ client \in [Clients -> {"off", "idle", "waiting", "gone"}]
      /\ SendBuffer \in Nat \ {0}
  BY SessionsAssumption DEF TypeOK
<1>2. ASSUME inbox'[c] = inbox[c] \/ inbox'[c] = <<>>, outbox'[c] = outbox[c],
             client'[c] \in {client[c], "gone"}
      PROVE  Served(c)'
  BY <1>1, <1>2 DEF Served
<1>3. ASSUME client[c] = "gone", client' = client, inbox'[c] = inbox[c]
      PROVE  Served(c)'
  BY <1>3 DEF Served
<1>4. ASSUME NEW s \in Addresses, ReadMsg(s)
      PROVE  Served(c)'
  <2>1. PICK n \in DOMAIN inbox[peer[s]] :
          \/ ReadBad(s, n)
          \/ ReadAndProduce(s, n)
          \/ ReadAndNotProduce(s, n)
          \/ ReadAndCrash(s, n)
          \/ ReadHello(s, n)
          \/ ReadClose(s, n)
    BY <1>4 DEF ReadMsg
  <2>2. peer[s] \in Clients
    BY <1>4 DEF ReadMsg, TypeOK
  <2>3. peer[s] = c => SubSeq(inbox[peer[s]], n + 1, Len(inbox[peer[s]])) = <<>>
    BY HonestRead
  <2>4. peer[s] = c => inbox[c] # <<>>
    BY <1>1, <2>1
  <2>5. ASSUME NEW request, AsyncWrite(s, n, request)
        PROVE  Served(c)'
    <3>1. client' = client
      BY <2>5 DEF AsyncWrite, clientVars
    <3>2. inbox' = [inbox EXCEPT ![peer[s]] = SubSeq(@, n + 1, Len(@))]
      BY <2>5 DEF AsyncWrite
    <3>3. \A d \in Clients : d # peer[s] => outbox'[d] = outbox[d]
      BY <1>1, <2>2, <2>5 DEF AsyncWrite
    <3>4. CASE peer[s] # c
      BY <1>1, <1>2, <2>2, <3>1, <3>2, <3>3, <3>4
    <3>5. CASE peer[s] = c
      <4>1. inbox'[c] = <<>> /\ client[c] \in {"waiting", "gone"}
        BY <1>1, <2>3, <2>4, <3>2, <3>5 DEF Served
      <4> QED BY <3>1, <4>1 DEF Served
    <3> QED BY <3>4, <3>5
  <2>6. CASE ReadBad(s, n) \/ ReadAndNotProduce(s, n) \/ ReadAndCrash(s, n) \/ ReadClose(s, n)
    <3>1. /\ \/ inbox' = [d \in Clients |-> <<>>]
             \/ inbox' = [inbox EXCEPT ![peer[s]] = SubSeq(@, n + 1, Len(@))]
          /\ UNCHANGED <<outbox, client>>
      BY <2>6
         DEF ReadBad, ReadAndNotProduce, ReadAndCrash, ReadClose, End, Delete, clientVars
    <3>2. inbox'[c] = inbox[c] \/ inbox'[c] = <<>>
      BY <1>1, <2>2, <2>3, <3>1
    <3> QED BY <1>2, <3>1, <3>2
  <2> QED BY <2>1, <2>5, <2>6 DEF ReadAndProduce, ReadHello
<1>5. ASSUME NEW s \in Addresses, SendLater(s)
      PROVE  Served(c)'
  <2>1. /\ client' = client /\ inbox' = inbox
        /\ outbox' = [outbox EXCEPT ![peer[s]] = Append(@, "garbage")]
        /\ Callback(s, "unsent") \in pending
    BY <1>5 DEF SendLater, Runs, clientVars
  <2>2. peer[s] = c => client[c] = "gone"
    BY <2>1 DEF Kept
  <2>3. peer[s] # c => outbox'[c] = outbox[c]
    BY <1>1, <2>1
  <2> QED BY <1>2, <1>3, <2>1, <2>2, <2>3
<1>6. ASSUME NEW s \in Addresses,
             \/ Handler(s) /\ ~ ReadMsg(s) /\ ~ SendLater(s)
             \/ HandleAcceptError(s)
             \/ DeleteFreed(s)
             \/ DeleteAnother(s)
             \/ AcceptFreed(s)
      PROVE  Served(c)'
  <2>1. UNCHANGED <<outbox, client>> /\ (inbox' = inbox \/ inbox' = [d \in Clients |-> <<>>])
    BY <1>6
       DEF Handler, HandleAccept, HandleAcceptError, ReadMsgError, DeleteCrash, SendMsg,
           SendMsgError, DeleteFreed, DeleteAnother, AcceptFreed, End, Delete, clientVars
  <2> QED BY <1>1, <1>2, <2>1
<1>7. ASSUME NEW request \in HonestRequests, SendRequest(c, request)
      PROVE  Served(c)'
  <2> DEFINE m == Arrival(request, "whole")
  <2>1. /\ inbox[c] = <<>> /\ outbox[c] = <<>>
        /\ inbox'[c] = Append(inbox[c], m)
        /\ outbox' = outbox /\ client'[c] = "waiting"
    BY <1>1, <1>7 DEF SendRequest, Arrives, Served
  <2>2. m.part = "whole" /\ m.request = request
    BY DEF Arrival
  <2> HIDE DEF m
  <2>3. Len(inbox'[c]) = 1 /\ DOMAIN inbox'[c] = 1 .. 1 /\ inbox'[c][1] = m
    BY <2>1
  <2> QED BY <2>1, <2>2, <2>3 DEF Served
<1>8. CASE Connect(c)
  BY <1>1, <1>8 DEF Connect, Served
<1>9. CASE Leave(c)
  BY <1>1, <1>2, <1>9 DEF Leave
<1>10. CASE ReadMessage(c)
  BY <1>1, <1>10 DEF ReadMessage, Served
<1>11. ASSUME NEW d \in Clients, d # c,
              \/ Connect(d) \/ Leave(d) \/ SendTail(d)
              \/ ReadMessage(d) \/ ConnectAgain(d) \/ TakeReply(d)
              \/ \E request \in HonestRequests : SendRequest(d, request)
              \/ \E arrival \in Arrivals : SendAnything(d, arrival)
       PROVE  Served(c)'
  <2>1. inbox'[c] = inbox[c] /\ outbox'[c] = outbox[c] /\ client'[c] = client[c]
    BY <1>1, <1>11
       DEF Connect, Leave, SendTail, ReadMessage, ConnectAgain, TakeReply, SendRequest, SendAnything,
           Arrives, clientVars
  <2> QED BY <1>2, <2>1
<1>12. CASE UNCHANGED vars
  BY <1>2, <1>12 DEF vars, clientVars
<1> QED BY <1>4, <1>5, <1>6, <1>7, <1>8, <1>9, <1>10, <1>11, <1>12, ClientSteps

LEMMA KeptStep ==
    ASSUME TypeOK, Lifetimes, Queue, NEW c \in Honest, Served(c), Kept(c), [Next]_vars
    PROVE  Kept(c)'
<1>1. SessionsTyped /\ c \in Clients /\ c # Nobody
  BY SessionsAssumption DEF TypeOK, SessionsTyped
<1>2. /\ client \in [Clients -> {"off", "idle", "waiting", "gone"}]
      /\ outbox \in [Clients -> Seq(Replies)] /\ SendBuffer \in Nat \ {0}
  BY SessionsAssumption DEF TypeOK
<1>3. ASSUME NEW s \in Addresses, ServerStep(s)
      PROVE  Kept(c)'
  <2>1. CASE Ends
    BY <1>1, <2>1 DEF Ends, End, Kept
  <2>2. CASE HandleAccept(s)
    <3>1. PICK t \in NewAddresses :
            /\ alive' = alive \cup {t}
            /\ pending' = (pending \ {Callback(s, "accept")})
                            \cup {Callback(s, "read"), Callback(t, "accept")}
      BY <2>2 DEF HandleAccept
    <3>2. \A u \in Addresses : Callback(u, "unsent") \in pending' => Callback(u, "unsent") \in pending
      BY <3>1, SameCallback
    <3>3. \A u \in Addresses : peer'[u] = IF u = s THEN Head(backlog) ELSE peer[u]
      BY <1>1, <2>2 DEF HandleAccept, SessionsTyped
    <3>4. peer[s] = Nobody /\ Callback(s, "unsent") \notin pending /\ s \notin smashed
      BY <1>1, <2>2 DEF HandleAccept, Runs, Lifetimes, Busy
    <3>5. client' = client /\ smashed' = smashed
      BY <2>2 DEF HandleAccept, clientVars
    <3> QED BY <3>2, <3>3, <3>4, <3>5 DEF Kept
  <2>3. ASSUME NEW from \in Busy, NEW to \in Busy, Moves(s, from, to)
        PROVE  Kept(c)'
    <3>1. \A u \in Addresses :
            Callback(u, "unsent") \in pending' =>
              Callback(u, "unsent") \in pending \/ (u = s /\ to = "unsent")
      BY <2>3, SameCallback DEF Moves, Then
    <3>2. UNCHANGED <<client, peer>>
      BY <2>3 DEF Moves
    <3>3. ASSUME peer[s] = c, to = "unsent"
          PROVE  client[c] = "gone"
      <4>1. inbox[c] # <<>> /\ (client[c] = "gone" \/ Len(outbox[c]) >= SendBuffer)
        BY <2>3, <3>3 DEF Moves
      <4>2. CASE outbox[c] = <<>>
        BY <1>2, <4>1, <4>2
      <4>3. CASE outbox[c] # <<>>
        BY <1>1, <1>2, <4>1, <4>3 DEF Served
      <4> QED BY <4>2, <4>3
    <3>4. peer[s] = c => smashed' = smashed
      BY <2>3, HonestRead DEF Moves
    <3>5. smashed' \subseteq smashed \cup {s}
      BY <2>3 DEF Moves
    <3> QED BY <3>1, <3>2, <3>3, <3>4, <3>5 DEF Kept
  <2>4. ASSUME NEW from, NEW left \in {{}, {Callback(s, "aborted")}}, Frees(s, from, left)
        PROVE  Kept(c)'
    <3>1. \A u \in Addresses : Callback(u, "unsent") \in pending' => Callback(u, "unsent") \in pending
      BY <2>4, SameCallback DEF Frees
    <3>2. \A u \in Addresses : peer'[u] = IF u = s THEN Nobody ELSE peer[u]
      BY <1>1, <2>4 DEF Frees, SessionsTyped
    <3>3. smashed' \subseteq smashed /\ client' = client
      BY <2>4 DEF Frees
    <3> QED BY <1>1, <3>1, <3>2, <3>3 DEF Kept
  <2>5. CASE /\ pending' = pending \ {Callback(s, "aborted")}
             /\ UNCHANGED <<process, culprit, alive, peer, smashed, sent, client, backlog>>
    BY <2>5 DEF Kept
  <2>6. CASE DeleteAnother(s)
    <3>1. \A u \in Addresses : Callback(u, "unsent") \in pending' => Callback(u, "unsent") \in pending
      BY <2>6, SameCallback DEF DeleteAnother
    <3>2. \A u \in Addresses : peer'[u] = IF u = s THEN Nobody ELSE peer[u]
      BY <1>1, <2>6 DEF DeleteAnother, Delete, SessionsTyped
    <3>3. smashed' \subseteq smashed /\ client' = client
      BY <2>6 DEF DeleteAnother, Delete, clientVars
    <3> QED BY <1>1, <3>1, <3>2, <3>3 DEF Kept
  <2> QED BY <1>3, <2>1, <2>2, <2>3, <2>4, <2>5, <2>6 DEF ServerStep, Busy
<1>4. ASSUME UNCHANGED <<pending, peer, smashed>>, client[c] = "gone" => client'[c] = "gone"
      PROVE  Kept(c)'
  BY <1>4 DEF Kept
<1>5. ASSUME NEW d \in Clients,
             \/ Connect(d) \/ Leave(d) \/ SendTail(d)
             \/ ReadMessage(d) \/ ConnectAgain(d) \/ TakeReply(d)
             \/ \E request \in HonestRequests : SendRequest(d, request)
             \/ \E arrival \in Arrivals : SendAnything(d, arrival)
      PROVE  client[c] = "gone" => client'[c] = "gone"
  BY <1>1, <1>2, <1>5
     DEF Connect, Leave, SendTail, ReadMessage, ConnectAgain, TakeReply, SendRequest, SendAnything,
         clientVars
<1>6. CASE UNCHANGED vars
  BY <1>4, <1>6 DEF vars, sessionVars, clientVars
<1> QED BY <1>3, <1>4, <1>5, <1>6, ServerSteps, ClientSteps

LEMMA BlamelessStep ==
    ASSUME TypeOK, \A c \in Honest : Served(c) /\ Kept(c), HonestRequestsAreWhole, [Next]_vars
    PROVE  HonestRequestsAreWhole'
<1> USE DEF HonestRequestsAreWhole
<1>1. Nobody \notin Honest
  BY SessionsAssumption
<1>2. ASSUME UNCHANGED processVars
      PROVE  HonestRequestsAreWhole'
  BY <1>2 DEF processVars
<1>3. ASSUME NEW s \in Addresses, ReadMsg(s)
      PROVE  HonestRequestsAreWhole'
  <2>1. PICK n \in DOMAIN inbox[peer[s]] :
          \/ ReadBad(s, n)
          \/ ReadAndProduce(s, n)
          \/ ReadAndNotProduce(s, n)
          \/ ReadAndCrash(s, n)
          \/ ReadHello(s, n)
          \/ ReadClose(s, n)
    BY <1>3 DEF ReadMsg
  <2>2. ASSUME peer[s] \in Honest
        PROVE  /\ Head(Buffer(s, n)).part = "whole" /\ s \notin smashed
               /\ Understood(Buffer(s, n)) \notin {"Bad", "Close"}
    BY <2>2, HonestRead DEF Kept, HonestRequests
  <2>3. CASE ReadBad(s, n) \/ ReadAndCrash(s, n) \/ (ReadClose(s, n) /\ End("heap_error", peer[s]))
    <3>1. culprit' = peer[s]
      BY <2>3 DEF ReadBad, ReadAndCrash, ReadClose, End
    <3>2. peer[s] \notin Honest
      BY <2>2, <2>3 DEF ReadBad, ReadAndCrash, ReadClose, SmashedBy
    <3> QED BY <3>1, <3>2
  <2>4. CASE ReadAndNotProduce(s, n)
    BY <2>4 DEF ReadAndNotProduce, End
  <2>5. CASE ReadAndProduce(s, n) \/ ReadHello(s, n) \/ (ReadClose(s, n) /\ Delete(s))
    BY <1>2, <2>5 DEF ReadAndProduce, ReadHello, AsyncWrite, Delete
  <2> QED BY <2>1, <2>3, <2>4, <2>5 DEF ReadClose
<1>4. ASSUME NEW s \in Addresses, DeleteCrash(s)
      PROVE  HonestRequestsAreWhole'
  BY <1>4 DEF DeleteCrash, End, Kept
<1>5. ASSUME NEW s \in Addresses, DeleteFreed(s) \/ AcceptFreed(s)
      PROVE  HonestRequestsAreWhole'
  BY <1>1, <1>2, <1>5 DEF DeleteFreed, AcceptFreed, End
<1>6. ASSUME NEW s \in Addresses,
             \/ Handler(s) /\ ~ ReadMsg(s) /\ ~ DeleteCrash(s)
             \/ HandleAcceptError(s)
             \/ DeleteAnother(s)
      PROVE  UNCHANGED processVars
  BY <1>6
     DEF Handler, HandleAccept, HandleAcceptError, ReadMsgError, SendLater, SendMsg, SendMsgError,
         DeleteAnother, Delete
<1>7. UNCHANGED <<process, culprit>> => UNCHANGED processVars
  BY DEF processVars
<1>8. CASE UNCHANGED vars
  BY <1>2, <1>8 DEF vars
<1> QED BY <1>2, <1>3, <1>4, <1>5, <1>6, <1>7, <1>8, ClientSteps

-----------------------------------------------------------------------------
(* What goes to Kafka, and what the clients are told of it. *)

LEMMA ForKafkaUpto ==
    ASSUME NEW T, NEW s \in Seq(T)
    PROVE  \E f : /\ f = [n \in 0 .. Len(s) |->
                            IF n = 0 THEN <<>>
                            ELSE IF s[n] = "Hello" THEN f[n - 1]
                            ELSE Append(f[n - 1], s[n])]
                  /\ ForKafka(s) = f[Len(s)]
<1> DEFINE Body(f, n) == IF n = 0 THEN <<>>
                         ELSE IF s[n] = "Hello" THEN f[n - 1]
                         ELSE Append(f[n - 1], s[n])
           Upto(k) == \E f : f = [n \in 0 .. k |-> Body(f, n)]
           S == {k \in Nat : Upto(k)}
<1>1. 0 \in S
  <2>1. [n \in 0 .. 0 |-> <<>>] = [n \in 0 .. 0 |-> Body([m \in 0 .. 0 |-> <<>>], n)]
    OBVIOUS
  <2> QED BY <2>1
<1>2. ASSUME NEW k \in Nat, k \in S PROVE k + 1 \in S
  <2>1. PICK f : f = [n \in 0 .. k |-> Body(f, n)]
    BY <1>2
  <2> DEFINE g == [n \in 0 .. k + 1 |-> IF n = k + 1 THEN Body(f, n) ELSE f[n]]
  <2>2. \A n \in 0 .. k + 1 : g[n] = Body(g, n)
    <3>1. \A n \in 0 .. k : f[n] = Body(f, n)
      BY <2>1
    <3>2. \A n \in 0 .. k + 1 : n # 0 => n - 1 \in 0 .. k /\ g[n - 1] = f[n - 1]
      OBVIOUS
    <3>3. \A n \in 0 .. k + 1 : n = k + 1 \/ n \in 0 .. k
      OBVIOUS
    <3> QED BY <3>1, <3>2, <3>3
  <2>3. g = [n \in 0 .. k + 1 |-> Body(g, n)]
    <3> DEFINE h == [n \in 0 .. k + 1 |-> Body(g, n)]
    <3>1. \A n \in 0 .. k + 1 : g[n] = h[n]
      BY <2>2
    <3>2. g = [n \in 0 .. k + 1 |-> g[n]] 
      OBVIOUS
    <3> HIDE DEF g
    <3> QED BY <3>1, <3>2
  <2>4. Upto(k + 1)
    BY <2>3
  <2> HIDE DEF Upto
  <2> QED BY <2>4
<1>3. Len(s) \in S
  <2> HIDE DEF S
  <2> QED BY <1>1, <1>2, Induction
<1>4. \E f : f = [n \in 0 .. Len(s) |-> Body(f, n)]
  BY <1>3
<1> DEFINE F == CHOOSE f : f = [n \in 0 .. Len(s) |-> Body(f, n)]
<1>5. F = [n \in 0 .. Len(s) |-> Body(F, n)]
  BY <1>4
<1>6. ForKafka(s) = F[Len(s)]
  BY DEF ForKafka
<1> QED BY <1>5, <1>6

LEMMA ForKafkaOfNone == ForKafka(<<>>) = <<>>
<1>1. <<>> \in Seq(Nat) /\ Len(<<>>) = 0
  OBVIOUS
<1>2. PICK f : /\ f = [n \in 0 .. 0 |->
                         IF n = 0 THEN <<>>
                         ELSE IF <<>>[n] = "Hello" THEN f[n - 1]
                         ELSE Append(f[n - 1], <<>>[n])]
               /\ ForKafka(<<>>) = f[0]
  BY <1>1, ForKafkaUpto, Zenon
<1> QED BY <1>2

LEMMA ForKafkaOfOneMore ==
    ASSUME NEW T, NEW s \in Seq(T), NEW e \in T
    PROVE  ForKafka(Append(s, e)) =
              IF e = "Hello" THEN ForKafka(s) ELSE Append(ForKafka(s), e)
<1> DEFINE t == Append(s, e)
<1>1. /\ t \in Seq(T) /\ Len(s) \in Nat /\ Len(t) = Len(s) + 1 /\ t[Len(s) + 1] = e
      /\ \A n \in 1 .. Len(s) : t[n] = s[n]
  BY AppendProperties
<1> HIDE DEF t
<1>2. PICK f : /\ f = [n \in 0 .. Len(s) |->
                         IF n = 0 THEN <<>>
                         ELSE IF s[n] = "Hello" THEN f[n - 1]
                         ELSE Append(f[n - 1], s[n])]
               /\ ForKafka(s) = f[Len(s)]
  BY ForKafkaUpto
<1>3. PICK g : /\ g = [n \in 0 .. Len(t) |->
                         IF n = 0 THEN <<>>
                         ELSE IF t[n] = "Hello" THEN g[n - 1]
                         ELSE Append(g[n - 1], t[n])]
               /\ ForKafka(t) = g[Len(t)]
  BY <1>1, ForKafkaUpto
<1> DEFINE S == {n \in Nat : n <= Len(s) => f[n] = g[n]}
<1>4. 0 \in S
  BY <1>1, <1>2, <1>3
<1>5. ASSUME NEW n \in Nat, n \in S PROVE n + 1 \in S
  <2> SUFFICES ASSUME n + 1 <= Len(s) PROVE f[n + 1] = g[n + 1]
    BY <1>1
  <2>1. /\ n + 1 \in 0 .. Len(s) /\ n + 1 \in 0 .. Len(t) /\ n + 1 \in 1 .. Len(s)
        /\ n + 1 # 0 /\ (n + 1) - 1 = n
    BY <1>1
  <2>2. f[n + 1] = IF s[n + 1] = "Hello" THEN f[n] ELSE Append(f[n], s[n + 1])
    BY <1>2, <2>1
  <2>3. g[n + 1] = IF t[n + 1] = "Hello" THEN g[n] ELSE Append(g[n], t[n + 1])
    BY <1>3, <2>1
  <2>4. f[n] = g[n]
    BY <1>1, <1>5
  <2> QED BY <1>1, <2>1, <2>2, <2>3, <2>4
<1>6. Len(s) \in S
  <2> HIDE DEF S
  <2> QED BY <1>1, <1>4, <1>5, Induction
<1>7. g[Len(t)] = IF e = "Hello" THEN g[Len(s)] ELSE Append(g[Len(s)], e)
  <2>1. Len(t) \in 0 .. Len(t) /\ Len(t) # 0 /\ Len(t) - 1 = Len(s) /\ t[Len(t)] = e
    BY <1>1
  <2> QED BY <1>3, <2>1
<1> QED BY <1>1, <1>2, <1>3, <1>6, <1>7 DEF t

LEMMA ForKafkaTyped ==
    ASSUME NEW T, NEW s \in Seq(T)
    PROVE  ForKafka(s) \in Seq(T)
<1>1. PICK f : /\ f = [n \in 0 .. Len(s) |->
                         IF n = 0 THEN <<>>
                         ELSE IF s[n] = "Hello" THEN f[n - 1]
                         ELSE Append(f[n - 1], s[n])]
               /\ ForKafka(s) = f[Len(s)]
  BY ForKafkaUpto
<1> DEFINE S == {n \in Nat : n <= Len(s) => f[n] \in Seq(T)}
<1>2. 0 \in S
  BY <1>1
<1>3. ASSUME NEW n \in Nat, n \in S PROVE n + 1 \in S
  <2> SUFFICES ASSUME n + 1 <= Len(s) PROVE f[n + 1] \in Seq(T)
    OBVIOUS
  <2>1. n + 1 \in 0 .. Len(s) /\ n + 1 # 0 /\ (n + 1) - 1 = n /\ s[n + 1] \in T
    OBVIOUS
  <2>2. f[n] \in Seq(T)
    BY <1>3
  <2>3. f[n + 1] = IF s[n + 1] = "Hello" THEN f[n] ELSE Append(f[n], s[n + 1])
    BY <1>1, <2>1
  <2> QED BY <2>1, <2>2, <2>3
<1>4. Len(s) \in S
  <2> HIDE DEF S
  <2> QED BY <1>2, <1>3, Induction
<1> QED BY <1>1, <1>4

LEMMA PrefixOfItself ==
    ASSUME NEW T, NEW s \in Seq(T)
    PROVE  IsPrefix(s, s)
BY DEF IsPrefix

LEMMA PrefixOfMore ==
    ASSUME NEW T, NEW s \in Seq(T), NEW e \in T
    PROVE  IsPrefix(s, Append(s, e))
<1> DEFINE t == Append(s, e)
<1>1. /\ t \in Seq(T) /\ Len(s) \in Nat /\ Len(t) = Len(s) + 1
      /\ \A n \in 1 .. Len(s) : t[n] = s[n]
  BY AppendProperties
<1> HIDE DEF t
<1>2. \A n \in 1 .. Len(s) : s[n] \in T /\ t[n] \in T
  BY <1>1
<1>3. SubSeq(s, 1, Len(s)) = SubSeq(t, 1, Len(s))
  <2>1. /\ SubSeq(s, 1, Len(s)) = [n \in 1 .. Len(s) |-> s[n]]
        /\ SubSeq(t, 1, Len(s)) = [n \in 1 .. Len(s) |-> t[n]]
    BY <1>1
  <2> QED BY <1>1, <2>1
<1> QED BY <1>1, <1>3 DEF IsPrefix, t

(* The client has read the answers to all of its requests, but for one     *)
(* that is on its way, is being dealt with, or is answered.                *)
Answered(c) ==
    /\ told[c] = sent[c] \/ \E r \in HonestRequests : sent[c] = Append(told[c], r)
    /\ produced[c] \in {ForKafka(told[c]), ForKafka(sent[c])}
    /\ client[c] \in {"off", "idle"} => told[c] = sent[c]
    /\ inbox[c] # <<>> => /\ sent[c] = Append(told[c], inbox[c][1].request)
                          /\ produced[c] = ForKafka(told[c])
    /\ client[c] = "waiting" /\ outbox[c] # <<>> =>
          /\ sent[c] = told[c] \o outbox[c]
          /\ produced[c] = ForKafka(sent[c])

LEMMA AnsweredStep ==
    ASSUME TypeOK, NEW c \in Honest, Served(c), Kept(c), Answered(c), [Next]_vars
    PROVE  Answered(c)'
<1>1. /\ c \in Clients
      /\ inbox \in [Clients -> Seq(AnyArrival)] /\ outbox \in [Clients -> Seq(Replies)]
      /\ sent \in [Clients -> Seq(Requests)] /\ told \in [Clients -> Seq(Replies)]
      /\ produced \in [Clients -> Seq({"Registration", "Transaction"})]
      /\ client \in [Clients -> {"off", "idle", "waiting", "gone"}]
      /\ SendBuffer \in Nat \ {0}
  BY SessionsAssumption DEF TypeOK
<1>2. ASSUME inbox'[c] = inbox[c] \/ inbox'[c] = <<>>, outbox'[c] = outbox[c],
             client'[c] \in {client[c], "gone"},
             told'[c] = told[c], sent'[c] = sent[c], produced'[c] = produced[c]
      PROVE  Answered(c)'
  BY <1>2 DEF Answered
<1>3. ASSUME client[c] = "gone", client' = client, inbox'[c] = inbox[c],
             told'[c] = told[c], sent'[c] = sent[c], produced'[c] = produced[c]
      PROVE  Answered(c)'
  BY <1>3 DEF Answered
<1>4. ASSUME NEW s \in Addresses, ReadMsg(s)
      PROVE  Answered(c)'
  <2>1. PICK n \in DOMAIN inbox[peer[s]] :
          \/ ReadBad(s, n)
          \/ ReadAndProduce(s, n)
          \/ ReadAndNotProduce(s, n)
          \/ ReadAndCrash(s, n)
          \/ ReadHello(s, n)
          \/ ReadClose(s, n)
    BY <1>4 DEF ReadMsg
  <2>2. peer[s] \in Clients
    BY <1>4 DEF ReadMsg, TypeOK
  <2>3. ASSUME peer[s] = c
        PROVE  /\ SubSeq(inbox[c], n + 1, Len(inbox[c])) = <<>> /\ inbox[c] # <<>>
               /\ Understood(Buffer(s, n)) = inbox[c][1].request
    <3>1. /\ Understood(Buffer(s, n)) = inbox[peer[s]][1].request
          /\ SubSeq(inbox[peer[s]], n + 1, Len(inbox[peer[s]])) = <<>>
      BY <2>3, HonestRead, Zenon
    <3>2. inbox[peer[s]] # <<>>
      BY <1>1, <2>3
    <3> QED BY <2>3, <3>1, <3>2
  <2>4. CASE ReadBad(s, n) \/ ReadAndNotProduce(s, n) \/ ReadAndCrash(s, n) \/ ReadClose(s, n)
    <3>1. /\ \/ inbox' = [d \in Clients |-> <<>>]
             \/ inbox' = [inbox EXCEPT ![peer[s]] = SubSeq(@, n + 1, Len(@))]
          /\ UNCHANGED <<outbox, client, sent, told>>
          /\ produced' = produced \/ ReadAndCrash(s, n)
      BY <2>4
         DEF ReadBad, ReadAndNotProduce, ReadAndCrash, ReadClose, End, Delete, clientVars
    <3>2. inbox'[c] = inbox[c] \/ inbox'[c] = <<>>
      BY <1>1, <2>2, <2>3, <3>1
    <3>3. ReadAndCrash(s, n) => peer[s] # c
      BY HonestRead DEF Kept, ReadAndCrash, SmashedBy
    <3>4. produced'[c] = produced[c]
      BY <1>1, <2>2, <3>1, <3>3 DEF ReadAndCrash
    <3> QED BY <1>2, <3>1, <3>2, <3>4
  <2>5. ASSUME NEW request \in HonestRequests, AsyncWrite(s, n, request),
               request = Understood(Buffer(s, n)),
               IF request = "Hello" THEN produced' = produced
               ELSE produced' = [produced EXCEPT ![peer[s]] = Append(@, request)]
        PROVE  Answered(c)'
    <3>1. /\ UNCHANGED <<client, sent, told>>
          /\ inbox' = [inbox EXCEPT ![peer[s]] = SubSeq(@, n + 1, Len(@))]
          /\ \/ outbox' = [outbox EXCEPT ![peer[s]] = Append(@, request)]
             \/ outbox' = outbox
      BY <2>5 DEF AsyncWrite, clientVars
    <3>2. CASE peer[s] # c
      BY <1>1, <1>2, <2>2, <2>5, <3>1, <3>2
    <3>3. CASE peer[s] = c
      <4>1. /\ inbox[c] # <<>> /\ inbox'[c] = <<>>
            /\ sent[c] = Append(told[c], request) /\ produced[c] = ForKafka(told[c])
        BY <1>1, <2>3, <2>5, <3>1, <3>3 DEF Answered
      <4>2. produced'[c] = ForKafka(sent[c])
        <5>1. /\ told[c] \in Seq(Replies \cup Requests) /\ request \in Replies \cup Requests
          BY <1>1 DEF HonestRequests, Requests
        <5>2. ForKafka(sent[c]) = IF request = "Hello" THEN ForKafka(told[c])
                                  ELSE Append(ForKafka(told[c]), request)
          BY <4>1, <5>1, ForKafkaOfOneMore
        <5> QED BY <1>1, <2>5, <3>3, <4>1, <5>2
      <4>3. CASE client[c] = "waiting"
        <5>1. outbox[c] = <<>>
          BY <4>1, <4>3 DEF Served
        <5>2. outbox'[c] = <<request>> \/ outbox'[c] = <<>>
          BY <1>1, <3>1, <3>3, <5>1
        <5>3. told[c] \o <<request>> = Append(told[c], request)
          BY <1>1
        <5> QED BY <2>5, <3>1, <4>1, <4>2, <4>3, <5>2, <5>3 DEF Answered
      <4>4. CASE client[c] # "waiting"
        <5>1. client[c] = "gone"
          BY <1>1, <4>1, <4>4 DEF Served
        <5> QED BY <2>5, <3>1, <4>1, <4>2, <5>1 DEF Answered
      <4> QED BY <4>3, <4>4
    <3> QED BY <3>2, <3>3
  <2>6. CASE ReadAndProduce(s, n)
    BY <2>5, <2>6 DEF ReadAndProduce, HonestRequests
  <2>7. CASE ReadHello(s, n)
    BY <2>5, <2>7 DEF ReadHello, HonestRequests
  <2> QED BY <2>1, <2>4, <2>6, <2>7
<1>5. ASSUME NEW s \in Addresses, SendLater(s)
      PROVE  Answered(c)'
  <2>1. /\ UNCHANGED <<client, inbox, sent, told, produced>>
        /\ outbox' = [outbox EXCEPT ![peer[s]] = Append(@, "garbage")]
        /\ Callback(s, "unsent") \in pending
    BY <1>5 DEF SendLater, Runs, clientVars
  <2>2. peer[s] = c => client[c] = "gone"
    BY <2>1 DEF Kept
  <2>3. peer[s] # c => outbox'[c] = outbox[c]
    BY <1>1, <2>1
  <2> QED BY <1>2, <1>3, <2>1, <2>2, <2>3
<1>6. ASSUME NEW s \in Addresses,
             \/ Handler(s) /\ ~ ReadMsg(s) /\ ~ SendLater(s)
             \/ HandleAcceptError(s)
             \/ DeleteFreed(s)
             \/ DeleteAnother(s)
             \/ AcceptFreed(s)
      PROVE  Answered(c)'
  <2>1. /\ UNCHANGED <<outbox, client, sent, told, produced>>
        /\ inbox' = inbox \/ inbox' = [d \in Clients |-> <<>>]
    BY <1>6
       DEF Handler, HandleAccept, HandleAcceptError, ReadMsgError, DeleteCrash, SendMsg,
           SendMsgError, DeleteFreed, DeleteAnother, AcceptFreed, End, Delete, clientVars
  <2> QED BY <1>1, <1>2, <2>1
<1>7. ASSUME NEW request \in HonestRequests, SendRequest(c, request)
      PROVE  Answered(c)'
  <2> DEFINE m == Arrival(request, "whole")
  <2>1. /\ inbox[c] = <<>> /\ outbox[c] = <<>> /\ told[c] = sent[c]
        /\ produced[c] = ForKafka(told[c])
        /\ inbox'[c] = Append(inbox[c], m)
        /\ UNCHANGED <<outbox, told, produced>> /\ client'[c] = "waiting"
        /\ sent'[c] = Append(sent[c], request)
    BY <1>1, <1>7 DEF SendRequest, Arrives, Served, Answered
  <2>2. m.request = request
    BY DEF Arrival
  <2> HIDE DEF m
  <2>3. inbox'[c][1] = m
    BY <2>1
  <2> QED BY <2>1, <2>2, <2>3 DEF Answered
<1>8. CASE Connect(c)
  BY <1>1, <1>8 DEF Connect, Served, Answered
<1>9. CASE Leave(c)
  BY <1>1, <1>2, <1>9 DEF Leave
<1>10. CASE ReadMessage(c)
  <2>1. /\ told'[c] = told[c] \o outbox[c] /\ outbox'[c] = <<>> /\ client'[c] = "idle"
        /\ UNCHANGED <<inbox, sent, produced>>
        /\ client[c] = "waiting" /\ outbox[c] # <<>>
    BY <1>1, <1>10 DEF ReadMessage
  <2>2. inbox[c] = <<>>
    BY <2>1 DEF Served
  <2> QED BY <2>1, <2>2 DEF Answered
<1>11. ASSUME NEW d \in Clients, d # c,
              \/ Connect(d) \/ Leave(d) \/ SendTail(d)
              \/ ReadMessage(d) \/ ConnectAgain(d) \/ TakeReply(d)
              \/ \E request \in HonestRequests : SendRequest(d, request)
              \/ \E arrival \in Arrivals : SendAnything(d, arrival)
       PROVE  Answered(c)'
  <2>1. /\ inbox'[c] = inbox[c] /\ outbox'[c] = outbox[c] /\ client'[c] = client[c]
        /\ sent'[c] = sent[c] /\ told'[c] = told[c] /\ produced'[c] = produced[c]
    BY <1>1, <1>11
       DEF Connect, Leave, SendTail, ReadMessage, ConnectAgain, TakeReply, SendRequest, SendAnything,
           Arrives, clientVars
  <2> QED BY <1>2, <2>1
<1>12. CASE UNCHANGED vars
  BY <1>2, <1>12 DEF vars, clientVars
<1> QED BY <1>4, <1>5, <1>6, <1>7, <1>8, <1>9, <1>10, <1>11, <1>12, ClientSteps

LEMMA AnsweredMeansMatched ==
    ASSUME TypeOK, \A c \in Honest : Answered(c)
    PROVE  AnswersMatchRequests
<1> SUFFICES ASSUME NEW c \in Honest
             PROVE  /\ IsPrefix(told[c], sent[c])
                    /\ IsPrefix(ForKafka(told[c]), produced[c])
                    /\ IsPrefix(produced[c], ForKafka(sent[c]))
  BY DEF AnswersMatchRequests
<1>1. told[c] \in Seq(Replies \cup Requests) /\ produced[c] \in Seq({"Registration", "Transaction"})
  BY SessionsAssumption DEF TypeOK
<1>2. CASE told[c] = sent[c]
  <2>1. produced[c] = ForKafka(told[c])
    BY <1>2 DEF Answered
  <2> QED BY <1>1, <1>2, <2>1, PrefixOfItself
<1>3. ASSUME NEW r \in HonestRequests, sent[c] = Append(told[c], r)
      PROVE  /\ IsPrefix(told[c], sent[c])
             /\ IsPrefix(ForKafka(told[c]), produced[c])
             /\ IsPrefix(produced[c], ForKafka(sent[c]))
  <2>1. r \in Replies \cup Requests
    BY DEF HonestRequests, Requests
  <2>2. ForKafka(sent[c]) = IF r = "Hello" THEN ForKafka(told[c])
                            ELSE Append(ForKafka(told[c]), r)
    BY <1>1, <1>3, <2>1, ForKafkaOfOneMore
  <2>3. ForKafka(told[c]) \in Seq(Replies \cup Requests)
    BY <1>1, ForKafkaTyped
  <2>4. IsPrefix(told[c], sent[c])
    BY <1>1, <1>3, <2>1, PrefixOfMore
  <2>5. produced[c] = ForKafka(told[c]) \/ produced[c] = ForKafka(sent[c])
    BY DEF Answered
  <2>6. CASE r = "Hello"
    <3>1. IsPrefix(ForKafka(told[c]), ForKafka(told[c]))
      BY <2>3, PrefixOfItself
    <3> QED BY <2>2, <2>4, <2>5, <2>6, <3>1
  <2>7. CASE r # "Hello"
    <3>1. IsPrefix(ForKafka(told[c]), Append(ForKafka(told[c]), r))
      BY <2>1, <2>3, PrefixOfMore
    <3>2. IsPrefix(produced[c], produced[c])
      BY <1>1, PrefixOfItself
    <3> QED BY <2>2, <2>4, <2>5, <2>7, <3>1, <3>2
  <2> QED BY <2>6, <2>7
<1> QED BY <1>2, <1>3 DEF Answered

HonestInv ==
    /\ SessionsInv
    /\ \A c \in Honest : Served(c) /\ Kept(c) /\ Answered(c)
    /\ HonestRequestsAreWhole

LEMMA InitHonest == Init => HonestInv
<1> SUFFICES ASSUME Init PROVE HonestInv
  OBVIOUS
<1>1. ASSUME NEW c \in Honest
      PROVE  Served(c) /\ Kept(c) /\ Answered(c)
  <2>1. c \in Clients /\ c # Nobody
    BY SessionsAssumption
  <2>2. /\ inbox[c] = <<>> /\ outbox[c] = <<>> /\ client[c] = "off"
        /\ sent[c] = <<>> /\ told[c] = <<>> /\ produced[c] = <<>>
    BY <2>1 DEF Init
  <2>3. \A s \in Addresses : peer[s] # c
    BY <2>1 DEF Init
  <2> QED BY <2>2, <2>3, ForKafkaOfNone DEF Served, Kept, Answered
<1>2. HonestRequestsAreWhole
  BY SessionsAssumption DEF Init, HonestRequestsAreWhole
<1> QED BY <1>1, <1>2, InitInv DEF HonestInv

LEMMA NextHonest == HonestInv /\ [Next]_vars => HonestInv'
<1> SUFFICES ASSUME HonestInv, [Next]_vars PROVE HonestInv'
  OBVIOUS
<1>1. /\ SessionsInv /\ TypeOK /\ Lifetimes /\ Queue
      /\ \A c \in Honest : Served(c) /\ Kept(c) /\ Answered(c)
      /\ HonestRequestsAreWhole
  BY DEF HonestInv, SessionsInv
<1>2. SessionsInv'
  BY <1>1, NextInv
<1>3. \A c \in Honest : Served(c)' /\ Kept(c)' /\ Answered(c)'
  BY <1>1, ServedStep, KeptStep, AnsweredStep
<1>4. HonestRequestsAreWhole'
  BY <1>1, BlamelessStep
<1> QED BY <1>2, <1>3, <1>4 DEF HonestInv

(* A client that runs Client.cpp is never the one whose request ends the   *)
(* process, unless the producer's queue is full: its requests come whole   *)
(* and one at a time, whatever the other clients do                        *)
(* (Client.cpp:46, 95-127; server_connector.cpp:62-76).                    *)
THEOREM HonestAreWhole == Spec => []HonestRequestsAreWhole
<1>1. HonestInv => HonestRequestsAreWhole
  BY DEF HonestInv
<1> QED BY InitHonest, NextHonest, <1>1, PTL DEF Spec

(* A client that runs Client.cpp is told the answers to its requests, in   *)
(* their order and unspoilt, and what it is told has been produced to      *)
(* Kafka before (Client.cpp:46, 95-127; server_connector.cpp:62-76).       *)
THEOREM AnswersMatch == Spec => []AnswersMatchRequests
<1>1. HonestInv => AnswersMatchRequests
  BY AnsweredMeansMatched DEF HonestInv, SessionsInv
<1> QED BY InitHonest, NextHonest, <1>1, PTL DEF Spec
=============================================================================
