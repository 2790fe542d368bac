--------------------------- MODULE ExchangeProofs ---------------------------
(***************************************************************************)
(* Proofs about Exchange, for any number of connections: each side behaves *)
(* as its own module says, so that the theorems about it hold of it here;  *)
(* and the two agree.                                                      *)
(***************************************************************************)
EXTENDS Exchange, TLAPS

ClientThm == INSTANCE ClientSessionProofs

ServerThm == INSTANCE ServerSessionProofs WITH
               op <- serverOp, ec <- serverEc, buffer <- serverBuffer, link <- serverLink

-----------------------------------------------------------------------------
(* The server.                                                             *)

(* Each step is, for the server, one of its own or none.                   *)
LEMMA StepOfServer ==
  ASSUME [Next]_vars
  PROVE  [Server!Next]_Server!vars
<1> USE DEF ClientOnly, ServerOnly, Undisturbed, Disturbed
<1>1. ASSUME UNCHANGED serverVars PROVE [Server!Next]_Server!vars
  BY <1>1 DEF serverVars, Server!vars, Server!objectVars, Server!peerVars
<1>2. ASSUME NEW e \in Pairs, Server!Io(e) \/ Server!Handler(e) \/ Server!Peer(e)
                                \/ Server!Connect(e) \/ Server!Run(e)
      PROVE  [Server!Next]_Server!vars
  BY <1>2 DEF Server!Next, Conns
<1>3. ASSUME NEW e \in Pairs, ServerNotices(e) PROVE [Server!Next]_Server!vars
  BY <1>1, <1>2, <1>3 DEF ServerNotices, Server!Peer, Server!Departures
<1>4. ASSUME NEW e \in Pairs, Run(e) \/ Resolve(e) \/ Refuse(e) \/ Upgraded(e)
                                \/ ClientIoFails(e) \/ Throw(e) \/ ServerEnds(e)
      PROVE  [Server!Next]_Server!vars
  BY <1>1, <1>4 DEF Run, Resolve, Refuse, Upgraded, ClientIoFails, Throw, ServerEnds
<1>5. ASSUME NEW e \in Pairs, Connect(e) \/ Serve(e) \/ Upgrade(e) \/ Hear(e) \/ Reply(e)
                                \/ AnswerClose(e) \/ TearDown(e) \/ ServerIoFails(e)
                                \/ ServerTimeout(e) \/ ServerHandler(e)
      PROVE  [Server!Next]_Server!vars
  BY <1>2, <1>5 DEF Connect, Serve, Upgrade, Hear, Reply, AnswerClose, TearDown, ServerIoFails,
                    ServerTimeout, ServerHandler, Server!Io
<1>6. ASSUME NEW e \in Pairs, Say(e) PROVE [Server!Next]_Server!vars
  BY <1>1, <1>2, <1>6 DEF Say, Server!Peer, Messages
<1>7. ASSUME NEW e \in Pairs, Listen(e) PROVE [Server!Next]_Server!vars
  BY <1>1, <1>2, <1>7 DEF Listen, Server!Peer
<1>8. ASSUME NEW e \in Pairs, ClientHandler(e) \/ CloseAnswered(e) PROVE [Server!Next]_Server!vars
  BY <1>1, <1>2, <1>3, <1>8 DEF ClientHandler, CloseAnswered, SendClose, Server!Peer, Server!Departures
<1>9. ASSUME NEW e \in Pairs, ClientTimeout(e) PROVE [Server!Next]_Server!vars
  BY <1>3, <1>9 DEF ClientTimeout
<1>10. ASSUME NEW e \in Pairs, Break(e) PROVE [Server!Next]_Server!vars
  BY <1>1, <1>2, <1>10 DEF Break, Server!Peer, Server!Departures
<1>11. CASE UNCHANGED vars
  BY <1>1, <1>11 DEF vars
<1> QED
  BY <1>4, <1>5, <1>6, <1>7, <1>8, <1>9, <1>10, <1>11 DEF Next, ClientStep, ServerStep,
     ClientIo, ServerIo

(* The server's side of an exchange is a ServerSession                     *)
(* (server/session.cpp), so that what is proved of those holds here.       *)
LEMMA ServerSafe == Safety => Server!Safety
<1>1. Init => Server!Init
  BY DEF Init
<1>2. [Next]_vars => [Server!Next]_Server!vars
  BY StepOfServer
<1> QED
  BY <1>1, <1>2, PTL DEF Safety, Server!Safety

(* The theorems about sessions are those of ServerSessionProofs, which     *)
(* names the definitions of ServerSession anew.                            *)
LEMMA SameServerNext == [ServerThm!Next]_ServerThm!vars <=> [Server!Next]_Server!vars
BY DEF ServerThm!AcceptHandshake, Server!AcceptHandshake, ServerThm!AllRead, Server!AllRead,
       ServerThm!Complete, Server!Complete, ServerThm!Completed, Server!Completed,
       ServerThm!Connect, Server!Connect, ServerThm!Departures, Server!Departures,
       ServerThm!DoRead, Server!DoRead, ServerThm!GotText, Server!GotText, ServerThm!Handler,
       Server!Handler, ServerThm!Io, Server!Io, ServerThm!Next, Server!Next,
       ServerThm!OnAccept, Server!OnAccept, ServerThm!OnRead, Server!OnRead,
       ServerThm!OnWrite, Server!OnWrite, ServerThm!OpFails, Server!OpFails,
       ServerThm!Overdue, Server!Overdue, ServerThm!Peer, Server!Peer, ServerThm!PeerLeave,
       Server!PeerLeave, ServerThm!PeerSend, Server!PeerSend, ServerThm!PeerTake,
       Server!PeerTake, ServerThm!Pending, Server!Pending, ServerThm!AnswerClose,
       Server!AnswerClose, ServerThm!TornDown, Server!TornDown, ServerThm!ReadPart, Server!ReadPart, ServerThm!Release,
       Server!Release, ServerThm!Run, Server!Run, ServerThm!Start, Server!Start,
       ServerThm!Timeout, Server!Timeout, ServerThm!WriteOut, Server!WriteOut,
       ServerThm!objectVars, Server!objectVars, ServerThm!peerVars, Server!peerVars,
       ServerThm!vars, Server!vars

LEMMA SameServerSafety == ServerThm!Safety <=> Server!Safety
<1>1. ServerThm!Init <=> Server!Init
  BY DEF ServerThm!Init, Server!Init
<1> QED BY <1>1, SameServerNext, PTL DEF ServerThm!Safety, Server!Safety

LEMMA ServerBehaves == Safety => [](Server!TypeOK /\ Server!EchoFaithful)
<1>1. ServerThm!SessionAssumption
  BY ExchangeAssumption DEF ServerThm!SessionAssumption, ServerThm!Message, Messages, MaxSend
<1>2. ServerThm!TypeOK <=> Server!TypeOK
  BY DEF ServerThm!TypeOK, Server!TypeOK, ServerThm!Links, Server!Links,
         ServerThm!Message, Server!Message
<1>3. ServerThm!EchoFaithful <=> Server!EchoFaithful
  BY DEF ServerThm!EchoFaithful, Server!EchoFaithful, ServerThm!Faithful, Server!Faithful
<1>4. ServerThm!Safety => []ServerThm!TypeOK
  BY <1>1, ServerThm!SessionTypeOK, PTL
<1>5. ServerThm!Safety => []ServerThm!EchoFaithful
  BY <1>1, ServerThm!SessionEchoFaithful, PTL
<1> QED
  BY <1>2, <1>3, <1>4, <1>5, SameServerSafety, ServerSafe, PTL

-----------------------------------------------------------------------------
(* The client.                                                             *)

(* A reply is a message of the client, unaltered, and so one it can get.   *)
LEMMA ReplyIsMessage ==
  ASSUME Server!TypeOK', Server!EchoFaithful', Server!TypeOK,
         NEW e \in Pairs, Server!WriteOut(e)
  PROVE  outbound'[e][1] \in Replies
<1>1. outbound[e] \in Seq(Server!Message) /\ outbound'[e] \in Seq(Server!Message)
  BY DEF Server!TypeOK, Conns
<1>2. Len(outbound'[e]) >= 1
  BY <1>1 DEF Server!WriteOut, Server!TypeOK, Conns
<1>3. 1 <= Len(sent'[e]) /\ outbound'[e][1] = sent'[e][1]
  BY <1>1, <1>2 DEF Server!EchoFaithful, Server!Faithful, Conns
<1>4. sent'[e] \in Seq(Messages)
  BY DEF Server!TypeOK, Conns
<1>5. sent'[e][1] \in Messages
  BY <1>3, <1>4
<1> QED
  BY <1>3, <1>5 DEF Replies

LEMMA StepOfClient ==
  ASSUME Server!TypeOK, Server!TypeOK', Server!EchoFaithful', [Next]_vars
  PROVE  [Client!Next]_Client!vars
<1> USE DEF ClientOnly, ServerOnly, Undisturbed, Disturbed
<1>1. ASSUME UNCHANGED clientVars PROVE [Client!Next]_Client!vars
  BY <1>1 DEF clientVars, Client!vars, Client!objectVars, Client!serverVars
<1>2. ASSUME NEW e \in Pairs, Client!Io(e) \/ Client!Handler(e) \/ Client!Server(e) \/ Client!Run(e)
      PROVE  [Client!Next]_Client!vars
  BY <1>2 DEF Client!Next, Sessions
<1>3. ASSUME NEW e \in Pairs, ClientNotices(e) PROVE [Client!Next]_Client!vars
  BY <1>1, <1>2, <1>3 DEF ClientNotices, Client!Server, Client!Departures
<1>4. ASSUME NEW e \in Pairs, Run(e) \/ Resolve(e) \/ Connect(e) \/ Refuse(e) \/ Upgraded(e)
                                \/ Say(e) \/ Listen(e) \/ CloseAnswered(e) \/ ClientIoFails(e)
                                \/ ClientTimeout(e) \/ ClientHandler(e)
      PROVE  [Client!Next]_Client!vars
  BY <1>2, <1>4 DEF Run, Resolve, Connect, Refuse, Upgraded, Say, Listen, CloseAnswered,
                    ClientIoFails, ClientTimeout, ClientHandler, SendClose,
                    Client!Io, Client!Handler, Client!Notice
<1>5. ASSUME NEW e \in Pairs, Serve(e) \/ Throw(e) \/ Upgrade(e) \/ Hear(e) \/ TearDown(e)
                                \/ ServerIoFails(e)
      PROVE  [Client!Next]_Client!vars
  BY <1>1, <1>5 DEF Serve, Throw, Upgrade, Hear, TearDown, ServerIoFails
<1>6. ASSUME NEW e \in Pairs, Reply(e) PROVE [Client!Next]_Client!vars
  <2>1. outbound'[e][1] \in Replies
    BY <1>6, ReplyIsMessage DEF Reply
  <2>2. CASE Client!ServerSends(e, outbound'[e][1])
    BY <1>2, <2>1, <2>2 DEF Client!Server
  <2>3. CASE UNCHANGED clientVars
    BY <1>1, <2>3
  <2> QED
    BY <1>6, <2>2, <2>3 DEF Reply
<1>7. ASSUME NEW e \in Pairs, AnswerClose(e) PROVE [Client!Next]_Client!vars
  BY <1>1, <1>2, <1>7 DEF AnswerClose, Client!Server, Client!Departures
<1>8. ASSUME NEW e \in Pairs, ServerHandler(e) \/ ServerTimeout(e) PROVE [Client!Next]_Client!vars
  BY <1>1, <1>3, <1>8 DEF ServerHandler, ServerTimeout
<1>9. ASSUME NEW e \in Pairs, Break(e) \/ ServerEnds(e) PROVE [Client!Next]_Client!vars
  BY <1>1, <1>2, <1>9 DEF Break, ServerEnds, Client!Server, Client!Departures
<1>10. CASE UNCHANGED vars
  BY <1>1, <1>10 DEF vars
<1> QED
  BY <1>4, <1>5, <1>6, <1>7, <1>8, <1>9, <1>10 DEF Next, ClientStep, ServerStep, ClientIo,
     ServerIo

(* The client's side of an exchange is a ClientSession with a server it    *)
(* was modelled to expect (client/session.cpp).                            *)
THEOREM ExchangeImplementsClient == Safety => ImplementsClient
<1>1. Init => Client!Init
  BY DEF Init
<1>2. Server!TypeOK /\ (Server!TypeOK /\ Server!EchoFaithful)' /\ [Next]_vars
        => [Client!Next]_Client!vars
  BY StepOfClient
<1> QED
  BY <1>1, <1>2, ServerBehaves, PTL DEF Safety, ImplementsClient, Client!Safety

LEMMA SameClientNext == [ClientThm!Next]_ClientThm!vars <=> [Client!Next]_Client!vars
BY DEF ClientThm!Broken, Client!Broken, ClientThm!Closed, Client!Closed, ClientThm!Complete,
       Client!Complete, ClientThm!Connected, Client!Connected, ClientThm!Covered,
       Client!Covered, ClientThm!Departures, Client!Departures, ClientThm!Fail, Client!Fail,
       ClientThm!Finish, Client!Finish, ClientThm!Handler, Client!Handler, ClientThm!Io,
       Client!Io, ClientThm!Next, Client!Next, ClientThm!OnClose, Client!OnClose,
       ClientThm!OnConnect, Client!OnConnect, ClientThm!OnHandshake, Client!OnHandshake,
       ClientThm!OnRead, Client!OnRead, ClientThm!OnResolve, Client!OnResolve,
       ClientThm!OnWrite, Client!OnWrite, ClientThm!OpFails, Client!OpFails,
       ClientThm!Operations, Client!Operations, ClientThm!Pending, Client!Pending,
       ClientThm!ReadAnswer, Client!ReadAnswer, ClientThm!Resolved, Client!Resolved,
       ClientThm!Run, Client!Run, ClientThm!Server, Client!Server, ClientThm!ServerLeaves,
       Client!ServerLeaves, ClientThm!ServerSends, Client!ServerSends, ClientThm!ShakenHands,
       Client!ShakenHands, ClientThm!Start, Client!Start, ClientThm!Succeeded,
       Client!Succeeded, ClientThm!Timeout, Client!Timeout, ClientThm!Written, Client!Written,
       ClientThm!objectVars, Client!objectVars, ClientThm!serverVars, Client!serverVars,
       ClientThm!vars, Client!vars

LEMMA SameClientSafety == ClientThm!Safety <=> Client!Safety
<1>1. ClientThm!Init <=> Client!Init
  BY DEF ClientThm!Init, Client!Init
<1> QED BY <1>1, SameClientNext, PTL DEF ClientThm!Safety, Client!Safety

LEMMA ClientBehaves == Safety => [](Client!TypeOK /\ Client!PrintedIsAnswer)
<1>1. ClientThm!ClientSessionAssumption
  BY ExchangeAssumption DEF ClientThm!ClientSessionAssumption, Replies, Messages
<1>2. ClientThm!TypeOK <=> Client!TypeOK
  BY DEF ClientThm!TypeOK, Client!TypeOK, ClientThm!Operations, Client!Operations,
         ClientThm!Departures, Client!Departures
<1>3. ClientThm!PrintedIsAnswer <=> Client!PrintedIsAnswer
  BY DEF ClientThm!PrintedIsAnswer, Client!PrintedIsAnswer
<1>4. ClientThm!Safety => []ClientThm!TypeOK
  BY <1>1, ClientThm!ClientSessionTypeOK, PTL
<1>5. ClientThm!Safety => []ClientThm!PrintedIsAnswer
  BY <1>1, ClientThm!ClientSessionPrintedIsAnswer, PTL
<1> QED
  BY <1>2, <1>3, <1>4, <1>5, SameClientSafety, ExchangeImplementsClient, PTL DEF ImplementsClient

(* A command prints what it sent, or nothing: the answer of the server is  *)
(* the text, and the client prints the answer.                             *)
THEOREM ExchangePrintedIsSent == Safety => []PrintedIsSent
<1>1. Client!TypeOK => PrintedIsSent
  BY DEF Client!TypeOK, PrintedIsSent, Replies, Messages, Sessions
<1> QED
  BY <1>1, ClientBehaves, PTL

(* Every variable of both sides keeps its type.                            *)
THEOREM ExchangeTypeOK == Safety => []TypeOK
<1> DEFINE HistoryOK == terminated \in BOOLEAN /\ disturbed \in [Pairs -> BOOLEAN]
<1>1. Init => HistoryOK
  BY DEF Init
<1>2. HistoryOK /\ [Next]_vars => HistoryOK'
  BY DEF Next, ClientStep, ServerStep, ClientIo, ServerIo, Run, Resolve, Connect, Refuse, Serve,
         Throw, ServerEnds, Upgrade, Upgraded, Say, Hear, Reply, Listen, AnswerClose, CloseAnswered,
         TearDown, ClientHandler, SendClose, ServerHandler, ClientIoFails, ServerIoFails,
         ClientTimeout, ServerTimeout, Break, ClientOnly, ServerOnly, Undisturbed, Disturbed, vars
<1> QED
  BY <1>1, <1>2, ServerBehaves, ClientBehaves, PTL DEF Safety, TypeOK

-----------------------------------------------------------------------------
(* Agreement.                                                              *)

(* The reply has gone out, and the client has read it and closes.          *)
Parted(e) ==
  /\ Len(outbound[e]) >= 1
  /\ op[e] \in {"close", "over"} /\ buffer[e] # None

(* How far each side must have come when the other is where it is.         *)
AgreeConn(e) ==
  /\ answer[e] # None => Len(outbound[e]) >= 1
  /\ op[e] = "close" \/ (op[e] = "read" /\ ec[e] = "ok") =>
       answer[e] # None /\ buffer[e] # None
  /\ op[e] = "close" /\ ec[e] = "ok" => link[e] = "shut"
  /\ serverOp[e] # "none" => life[e] = "live"
  /\ serverOp[e] = "teardown" \/ serverEc[e] = "closed" \/ serverLink[e] \in {"closing", "closed"} =>
       Parted(e)
  /\ serverOp[e] = "teardown" => serverEc[e] # "ok"
  /\ serverEc[e] = "closed" => serverOp[e] \in {"teardown", "none"} /\ life[e] # "none"
  /\ link[e] = "closing" \/ (op[e] \in {"close", "over"} /\ ec[e] = "ok") =>
       Parted(e) /\ (serverOp[e] = "teardown" \/ life[e] = "gone")

(* Where two programs can be with which nobody interferes: neither end is  *)
(* lost, no operation has failed, the server goes only after the client    *)
(* has closed its socket, and the client only when it has printed.         *)
WellConn(e) ==
  disturbed[e] = FALSE =>
    /\ ec[e] # "error" /\ serverEc[e] # "error"
    /\ link[e] \notin {"eof", "reset", "silent"}
    /\ serverLink[e] \notin {"eof", "reset", "silent"}
    /\ link[e] = "shut" => op[e] \in {"close", "over"} /\ ec[e] = "ok"
    /\ serverLink[e] = "shut" => life[e] = "gone"
    /\ serverLink[e] = "closed" \/ serverEc[e] = "closed" \/ life[e] = "gone" => link[e] = "shut"
    /\ op[e] = "over" => printed[e] # None

AgreeInv == \A e \in Pairs : AgreeConn(e) /\ WellConn(e)

(* A client writes once.                                                   *)
AtMostOne == \A e \in Pairs : Len(sent[e]) <= 1

LEMMA AtMostOneHolds == Safety => []AtMostOne
<1>1. ASSUME Init PROVE AtMostOne
  <2>1. Len(<<>>) <= 1
    OBVIOUS
  <2>2. \A e \in Pairs : sent[e] = <<>>
    BY <1>1, Zenon DEF Init, Server!Init, Conns
  <2> QED BY <2>1, <2>2, Zenon DEF AtMostOne
<1>2. ASSUME Server!TypeOK, AtMostOne, [Server!Next]_Server!vars PROVE AtMostOne'
  <2>1. CASE UNCHANGED sent
    BY <1>2, <2>1 DEF AtMostOne
  <2>2. ASSUME NEW e \in Pairs, NEW m \in Messages, Server!PeerSend(e, m) PROVE AtMostOne'
    <3>1. sent[e] \in Seq(Messages) /\ sent' = [sent EXCEPT ![e] = Append(@, m)] /\ Len(sent[e]) < 1
      BY <1>2, <2>2 DEF Server!TypeOK, Server!PeerSend, Conns, MaxSend
    <3>2. Len(Append(sent[e], m)) <= 1
      BY <3>1
    <3>3. sent \in [Pairs -> Seq(Messages)]
      BY <1>2 DEF Server!TypeOK, Conns
    <3> QED BY <1>2, <3>1, <3>2, <3>3 DEF AtMostOne
  <2> QED
    BY <1>2, <2>1, <2>2 DEF Server!Next, Server!Connect, Server!Run, Server!Peer,
         Server!PeerTake, Server!PeerLeave, Server!Io, Server!AcceptHandshake,
         Server!ReadPart, Server!AnswerClose, Server!TornDown, Server!WriteOut, Server!OpFails,
         Server!Timeout, Server!Handler, Server!OnAccept, Server!OnRead, Server!OnWrite,
         Server!vars, Server!peerVars, Conns
<1> QED
  BY <1>1, <1>2, StepOfServer, ServerBehaves, PTL DEF Safety

LEMMA AgreeInit == Init => AgreeInv
<1> SUFFICES ASSUME Init, NEW e \in Pairs PROVE AgreeConn(e) /\ WellConn(e)
  BY DEF AgreeInv
<1>1. answer[e] = None /\ op[e] = "none" /\ ec[e] = "pending" /\ link[e] = "absent"
  BY Zenon DEF Init, Client!Init, Sessions
<1>2. /\ serverOp[e] = "none" /\ serverEc[e] = "pending" /\ serverLink[e] = "absent"
      /\ life[e] = "none"
  BY Zenon DEF Init, Server!Init, Conns
<1> QED
  BY <1>1, <1>2 DEF AgreeConn, WellConn

(* Nothing but the link changes when a side notices something.             *)
LEMMA ServerNotice ==
  ASSUME NEW e \in Pairs, ServerNotices(e)
  PROVE  /\ UNCHANGED <<life, serverOp, serverEc, outbound>>
         /\ \/ UNCHANGED serverLink
            \/ /\ link[e] # "shut"
               /\ \/ \E how \in {"eof", "reset", "silent"} :
                       serverLink' = [serverLink EXCEPT ![e] = how]
                  \/ serverLink[e] = "closing" /\ serverLink' = [serverLink EXCEPT ![e] = "closed"]
BY DEF ServerNotices, serverVars, Server!PeerLeave, Server!objectVars, Server!peerVars

LEMMA ClientNotice ==
  ASSUME NEW e \in Pairs, ClientNotices(e)
  PROVE  /\ UNCHANGED <<op, ec, answer, buffer, printed>>
         /\ \/ UNCHANGED link
            \/ /\ link[e] \in {"tcp", "open"}
               /\ \E how \in {"eof", "reset"} : link' = [link EXCEPT ![e] = how]
BY DEF ClientNotices, clientVars, Client!ServerLeaves, Client!objectVars, Client!serverVars

(* The answer to the close frame comes after the reply to the message, and *)
(* the client sends the frame after the reply.                             *)
LEMMA AgreeStep ==
  ASSUME TypeOK, AgreeInv, [Next]_vars
  PROVE  AgreeInv'
<1> SUFFICES ASSUME NEW f \in Pairs PROVE (AgreeConn(f) /\ WellConn(f))'
  BY DEF AgreeInv
<1> DEFINE Good == AgreeConn(f) /\ WellConn(f)
<1> USE ExchangeAssumption DEF ClientOnly, ServerOnly, Undisturbed, Disturbed, clientVars, serverVars
<1>1. \A e \in Pairs : AgreeConn(e) /\ WellConn(e)
  BY DEF AgreeInv
<1>2. CASE UNCHANGED vars
  BY <1>1, <1>2 DEF vars, AgreeConn, WellConn, Parted
<1> USE DEF TypeOK, Client!TypeOK, Server!TypeOK, Conns, Sessions
(* The client's own steps.                                                 *)
<1>3. ASSUME NEW e \in Pairs, Run(e) \/ Upgraded(e)
      PROVE  Good'
  <2>1. /\ \/ /\ op[e] = "none" /\ op' = [op EXCEPT ![e] = "resolve"]
              /\ ec' = [ec EXCEPT ![e] = "pending"]
           \/ /\ op[e] = "handshake" /\ UNCHANGED op
              /\ ec' = [ec EXCEPT ![e] = "ok"]
        /\ \/ UNCHANGED link
           \/ link[e] = "tcp" /\ link' = [link EXCEPT ![e] = "open"]
        /\ UNCHANGED <<answer, buffer, printed, serverVars, disturbed>>
    BY <1>3 DEF Run, Upgraded, Client!Run, Client!ShakenHands, Client!Start, Client!Complete,
         Client!Pending, Client!serverVars
  <2> QED
    BY SMTT(20), <1>1, <2>1 DEF AgreeConn, WellConn, Parted
<1>4. ASSUME NEW e \in Pairs, Resolve(e) \/ Refuse(e)
      PROVE  Good'
  <2>1. /\ op[e] \in {"resolve", "connect"} /\ ec[e] = "pending"
        /\ UNCHANGED <<op, link, answer, buffer, printed, serverVars>>
        /\ \/ ec' = [ec EXCEPT ![e] = "ok"] /\ UNCHANGED disturbed
           \/ /\ ec' = [ec EXCEPT ![e] = "error"]
              /\ disturbed' = [disturbed EXCEPT ![e] = TRUE]
    BY <1>4 DEF Resolve, Refuse, Client!Resolved, Client!OpFails, Client!Complete,
         Client!Pending, Client!serverVars
  <2> QED
    BY SMTT(20), <1>1, <2>1 DEF AgreeConn, WellConn, Parted
<1>5. ASSUME NEW e \in Pairs, ClientIoFails(e)
      PROVE  Good'
  <2>1. /\ ec[e] = "pending" /\ ec' = [ec EXCEPT ![e] = "error"]
        /\ \/ link[e] \in {"eof", "reset"}
           \/ link[e] = "closing" /\ op[e] = "read"
        /\ UNCHANGED <<op, link, answer, buffer, printed, serverVars, disturbed>>
    BY <1>5 DEF ClientIoFails, Client!Notice, Client!OpFails, Client!Broken, Client!Complete,
         Client!serverVars
  <2> QED
    BY SMTT(20), <1>1, <2>1 DEF AgreeConn, WellConn, Parted
<1>6. ASSUME NEW e \in Pairs, CloseAnswered(e) PROVE Good'
  <2>1. /\ op[e] = "close" /\ ec' = [ec EXCEPT ![e] = "ok"] /\ link[e] = "closing"
        /\ link' = [link EXCEPT ![e] = "shut"]
        /\ UNCHANGED <<op, answer, buffer, printed, disturbed>>
    BY <1>6 DEF CloseAnswered, Client!Closed, Client!Complete, Client!Pending, Client!serverVars
  <2>2. /\ UNCHANGED <<life, serverOp, serverEc, outbound>>
        /\ \/ UNCHANGED serverLink
           \/ serverLink' = [serverLink EXCEPT ![e] = "closed"]
    BY <1>6 DEF CloseAnswered, Server!PeerLeave, Server!objectVars, Server!peerVars
  <2> QED
    BY SMTT(20), <1>1, <2>1, <2>2 DEF AgreeConn, WellConn, Parted
<1>7. ASSUME NEW e \in Pairs, Connect(e) PROVE Good'
  <2>1. /\ op[e] = "connect" /\ ec' = [ec EXCEPT ![e] = "ok"] /\ link' = [link EXCEPT ![e] = "tcp"]
        /\ UNCHANGED <<op, answer, buffer, printed, disturbed>>
    BY <1>7 DEF Connect, Client!Connected, Client!Complete, Client!Pending, Client!serverVars
  <2>2. /\ serverLink[e] = "absent" /\ serverLink' = [serverLink EXCEPT ![e] = "tcp"]
        /\ UNCHANGED <<life, serverOp, serverEc, outbound>>
    BY <1>7 DEF Connect, Server!Connect, Server!objectVars, Server!peerVars
  <2> QED
    BY SMTT(20), <1>1, <2>1, <2>2 DEF AgreeConn, WellConn, Parted
(* The server's own steps.                                                 *)
<1>8. ASSUME NEW e \in Pairs, Serve(e)
      PROVE  Good'
  <2>1. /\ life[e] = "none" /\ life' = [life EXCEPT ![e] = "live"]
        /\ serverOp' = [serverOp EXCEPT ![e] = "accept"]
        /\ serverEc' = [serverEc EXCEPT ![e] = "pending"]
        /\ UNCHANGED <<op, ec, link, answer, buffer, printed, serverLink, outbound, disturbed>>
    BY <1>8 DEF Serve, Server!Run, Server!Start, Server!Complete, Server!peerVars
  <2> QED
    BY SMTT(20), <1>1, <2>1 DEF AgreeConn, WellConn, Parted
<1>9. ASSUME NEW e \in Pairs, Upgrade(e) \/ Hear(e) \/ TearDown(e) \/ ServerIoFails(e)
      PROVE  Good'
  <2>1. /\ serverEc[e] = "pending" /\ serverOp[e] # "none"
        /\ UNCHANGED <<op, ec, link, answer, buffer, printed, life, serverOp, outbound, disturbed>>
    BY <1>9 DEF Upgrade, Hear, TearDown, ServerIoFails, Server!AcceptHandshake, Server!ReadPart,
         Server!TornDown, Server!OpFails, Server!Pending, Server!peerVars
  <2>2. CASE Upgrade(e) \/ Hear(e)
    <3>1. /\ serverOp[e] \in {"accept", "read"}
          /\ \/ UNCHANGED serverEc
             \/ serverEc' = [serverEc EXCEPT ![e] = "ok"]
          /\ \/ UNCHANGED serverLink
             \/ serverLink' = [serverLink EXCEPT ![e] = "open"]
      BY <2>2 DEF Upgrade, Hear, Server!AcceptHandshake, Server!ReadPart, Server!Complete,
           Server!Pending
    <3>2. CASE f = e
      BY SMTT(20), <1>1, <2>1, <3>1, <3>2 DEF AgreeConn, WellConn, Parted
    <3>3. CASE f # e
      <4>1. serverEc'[f] = serverEc[f] /\ serverLink'[f] = serverLink[f]
        BY <3>1, <3>3
      <4> QED
        BY SMTT(20), <1>1, <2>1, <4>1 DEF AgreeConn, WellConn, Parted
    <3> QED
      BY <3>2, <3>3
  <2>3. CASE TearDown(e)
    <3>1. /\ serverOp[e] = "teardown" /\ serverLink[e] = "closed"
          /\ serverEc' = [serverEc EXCEPT ![e] = "closed"] /\ UNCHANGED serverLink
      BY <2>3 DEF TearDown, Server!TornDown, Server!Complete, Server!Pending
    <3> QED
      BY SMTT(20), <1>1, <2>1, <3>1 DEF AgreeConn, WellConn, Parted
  <2>4. CASE ServerIoFails(e)
    <3>1. /\ serverLink[e] \in {"reset", "shut", "eof"}
          /\ serverEc' = [serverEc EXCEPT ![e] = "error"] /\ UNCHANGED serverLink
      BY <2>4 DEF ServerIoFails, Server!OpFails, Server!Complete
    <3> QED
      BY SMTT(20), <1>1, <2>1, <3>1 DEF AgreeConn, WellConn, Parted
  <2> QED
    BY <1>9, <2>2, <2>3, <2>4
<1>10. ASSUME NEW e \in Pairs, Reply(e) PROVE Good'
  <2>1. /\ serverOp[e] = "write" /\ serverEc[e] = "pending"
        /\ serverEc' = [serverEc EXCEPT ![e] = "ok"]
        /\ \E m : outbound' = [outbound EXCEPT ![e] = Append(@, m)]
        /\ UNCHANGED <<life, serverOp, serverLink, disturbed>>
    BY <1>10 DEF Reply, Server!WriteOut, Server!Complete, Server!Pending
  <2>2. /\ UNCHANGED <<op, ec, link, buffer, printed>>
        /\ \A x \in Pairs : x # e => answer'[x] = answer[x]
        /\ answer[e] # None => answer' = answer
    BY <1>10 DEF Reply, Client!ServerSends, Client!objectVars
  <2>3. /\ Len(outbound'[e]) = Len(outbound[e]) + 1 /\ Len(outbound[e]) \in Nat
        /\ f # e => outbound'[f] = outbound[f]
    BY <2>1
  <2>4. CASE f = e
    <3>1. Len(outbound'[e]) >= 1
      BY <2>3
    <3> QED
      BY SMTT(20), <1>1, <2>1, <2>2, <2>4, <3>1 DEF AgreeConn, WellConn, Parted
  <2>5. CASE f # e
    <3>1. answer'[f] = answer[f] /\ outbound'[f] = outbound[f] /\ serverEc'[f] = serverEc[f]
      BY <2>1, <2>2, <2>3, <2>5
    <3> QED
      BY SMTT(20), <1>1, <2>1, <2>2, <3>1 DEF AgreeConn, WellConn, Parted
  <2> QED
    BY <2>4, <2>5
<1>11. ASSUME NEW e \in Pairs, AnswerClose(e) PROVE Good'
  <2>1. /\ serverOp[e] = "read" /\ serverEc[e] = "pending"
        /\ serverLink[e] \in {"closing", "closed"}
        /\ serverOp' = [serverOp EXCEPT ![e] = "teardown"]
        /\ UNCHANGED <<life, serverEc, outbound, serverLink, disturbed>>
    BY <1>11 DEF AnswerClose, Server!AnswerClose, Server!Pending, Server!peerVars
  <2>2. /\ UNCHANGED <<op, ec, answer, buffer, printed>>
        /\ UNCHANGED link \/ (link[e] = "open" /\ link' = [link EXCEPT ![e] = "closing"])
    BY <1>11 DEF AnswerClose, Client!ServerLeaves, Client!objectVars, Client!serverVars
  <2> QED
    BY SMTT(20), <1>1, <2>1, <2>2 DEF AgreeConn, WellConn, Parted
<1>12. ASSUME NEW e \in Pairs, ServerHandler(e) PROVE Good'
  <2>1. /\ serverOp[e] # "none" /\ UNCHANGED <<outbound, disturbed>>
        /\ \/ /\ serverEc[e] = "ok" /\ serverEc' = [serverEc EXCEPT ![e] = "pending"]
              /\ \E o \in {"read", "write"} : serverOp' = [serverOp EXCEPT ![e] = o]
              /\ UNCHANGED <<life, serverLink>>
           \/ /\ serverEc[e] \in {"closed", "error"} /\ UNCHANGED serverEc
              /\ serverOp' = [serverOp EXCEPT ![e] = "none"]
              /\ life' = [life EXCEPT ![e] = "gone"]
              /\ serverLink' = [serverLink EXCEPT ![e] = "shut"]
    <3>1. CASE Server!OnAccept(e)
      BY <1>12, <3>1 DEF ServerHandler, Server!OnAccept, Server!DoRead, Server!Start,
           Server!Release, Server!Complete, Server!Completed, Server!peerVars
    <3>2. CASE Server!OnRead(e)
      BY <1>12, <3>2 DEF ServerHandler, Server!OnRead, Server!Start,
           Server!Release, Server!Complete, Server!Completed, Server!peerVars
    <3>3. CASE Server!OnWrite(e)
      BY <1>12, <3>3 DEF ServerHandler, Server!OnWrite, Server!DoRead, Server!Start,
           Server!Release, Server!Complete, Server!Completed, Server!peerVars
    <3> QED
      BY <1>12, <3>1, <3>2, <3>3 DEF ServerHandler, Server!Handler
  <2>2. life[e] = "live"
    BY <1>1, <2>1 DEF AgreeConn
  <2>3. CASE serverEc[e] = "ok"
    <3>1. /\ UNCHANGED <<life, serverLink>> /\ serverEc' = [serverEc EXCEPT ![e] = "pending"]
          /\ serverOp[e] # "none" /\ UNCHANGED <<outbound, disturbed>>
          /\ \E o \in {"read", "write"} : serverOp' = [serverOp EXCEPT ![e] = o]
      BY <2>1, <2>3
    <3>2. UNCHANGED <<op, ec, link, answer, buffer, printed>>
      BY <1>12, <2>2, <3>1 DEF ServerHandler
    <3> QED
      BY SMTT(20), <1>1, <2>3, <3>1, <3>2 DEF AgreeConn, WellConn, Parted
  <2>4. CASE serverEc[e] # "ok"
    <3>1. /\ UNCHANGED <<op, ec, answer, buffer, printed>>
          /\ \/ UNCHANGED link
             \/ /\ link[e] \in {"tcp", "open"}
                /\ \E how \in {"eof", "reset"} : link' = [link EXCEPT ![e] = how]
      BY <1>12, ClientNotice DEF ServerHandler
    <3>2. /\ serverEc[e] \in {"closed", "error"} /\ UNCHANGED serverEc
          /\ serverOp' = [serverOp EXCEPT ![e] = "none"]
          /\ life' = [life EXCEPT ![e] = "gone"]
          /\ serverLink' = [serverLink EXCEPT ![e] = "shut"]
          /\ serverOp[e] # "none" /\ UNCHANGED <<outbound, disturbed>>
      BY <2>1, <2>4
    <3> QED
      BY SMTT(20), <1>1, <2>2, <3>1, <3>2 DEF AgreeConn, WellConn, Parted
  <2> QED
    BY <2>3, <2>4
(* The message, and the ends of the connection.                            *)
<1>13. ASSUME NEW e \in Pairs, Say(e) PROVE Good'
  <2>1. /\ op[e] = "write" /\ ec' = [ec EXCEPT ![e] = "ok"]
        /\ UNCHANGED <<op, link, answer, buffer, printed, disturbed>>
    BY <1>13 DEF Say, Client!Written, Client!Complete, Client!Pending, Client!serverVars
  <2>2. UNCHANGED <<life, serverOp, serverEc, serverLink, outbound>>
    BY <1>13 DEF Say, Server!PeerSend, Server!objectVars
  <2> QED
    BY SMTT(20), <1>1, <2>1, <2>2 DEF AgreeConn, WellConn, Parted
<1>14. ASSUME NEW e \in Pairs, Listen(e) PROVE Good'
  <2>1. /\ op[e] = "read" /\ ec' = [ec EXCEPT ![e] = "ok"] /\ answer[e] # None
        /\ buffer' = [buffer EXCEPT ![e] = answer[e]]
        /\ UNCHANGED <<op, link, answer, printed, disturbed>>
    BY <1>14 DEF Listen, Client!ReadAnswer, Client!Complete, Client!Pending, Client!serverVars
  <2>2. UNCHANGED <<life, serverOp, serverEc, serverLink, outbound>>
    BY <1>14 DEF Listen, Server!PeerTake, Server!objectVars
  <2> QED
    BY SMTT(20), <1>1, <2>1, <2>2 DEF AgreeConn, WellConn, Parted
<1>15. ASSUME NEW e \in Pairs, ClientHandler(e) PROVE Good'
  <2>1. CASE SendClose(e)
    <3>1. /\ op[e] = "read" /\ ec[e] = "ok" /\ op' = [op EXCEPT ![e] = "close"]
          /\ ec' = [ec EXCEPT ![e] = "pending"]
          /\ UNCHANGED <<link, answer, buffer, printed, disturbed>>
      BY <2>1 DEF SendClose, Client!OnRead, Client!Succeeded, Client!Start, Client!Complete,
           Client!serverVars
    <3>2. /\ UNCHANGED <<life, serverOp, serverEc, outbound>>
          /\ serverLink' \in {serverLink, [serverLink EXCEPT ![e] = "closing"]}
      BY <2>1 DEF SendClose, Server!PeerLeave, Server!objectVars, Server!peerVars
    <3>3. answer[e] # None /\ buffer[e] # None /\ Len(outbound[e]) >= 1
      BY <1>1, <3>1 DEF AgreeConn
    <3> QED
      BY SMTT(20), <1>1, <3>1, <3>2, <3>3 DEF AgreeConn, WellConn, Parted
  <2>2. CASE /\ Client!OnResolve(e) \/ Client!OnConnect(e) \/ Client!OnHandshake(e)
                \/ Client!OnWrite(e)
             /\ ClientOnly
    <3>1. /\ op[e] \in {"resolve", "connect", "handshake", "write"}
          /\ \E o \in {"connect", "handshake", "write", "read"} : op' = [op EXCEPT ![e] = o]
          /\ ec' = [ec EXCEPT ![e] = "pending"]
          /\ UNCHANGED <<link, answer, buffer, printed>>
      BY <2>2 DEF Client!OnResolve, Client!OnConnect, Client!OnHandshake, Client!OnWrite,
           Client!Succeeded, Client!Start, Client!Complete, Client!serverVars
    <3>2. UNCHANGED <<life, serverOp, serverEc, serverLink, outbound, disturbed>>
      BY <2>2
    <3> QED
      BY SMTT(20), <1>1, <3>1, <3>2 DEF AgreeConn, WellConn, Parted
  <2>3. CASE (Client!OnClose(e) \/ Client!Fail(e)) /\ ServerNotices(e) /\ Undisturbed
    <3>1. /\ op' = [op EXCEPT ![e] = "over"] /\ link' = [link EXCEPT ![e] = "shut"]
          /\ UNCHANGED <<ec, answer, buffer, disturbed>>
          /\ \/ /\ op[e] = "close" /\ ec[e] = "ok"
                /\ printed' = [printed EXCEPT ![e] = buffer[e]]
             \/ ec[e] = "error" /\ UNCHANGED printed
      BY <2>3 DEF Client!OnClose, Client!Fail, Client!Finish, Client!Succeeded, Client!serverVars
    <3>2. /\ UNCHANGED <<life, serverOp, serverEc, outbound>>
          /\ \/ UNCHANGED serverLink
             \/ /\ link[e] # "shut"
                /\ \/ \E how \in {"eof", "reset", "silent"} :
                        serverLink' = [serverLink EXCEPT ![e] = how]
                   \/ /\ serverLink[e] = "closing"
                      /\ serverLink' = [serverLink EXCEPT ![e] = "closed"]
      BY <2>3, ServerNotice
    <3>3. CASE f = e
      <4>1. CASE op[e] = "close" /\ ec[e] = "ok"
        <5>1. link[e] = "shut" /\ UNCHANGED serverLink
          BY <1>1, <3>2, <4>1 DEF AgreeConn
        <5>2. printed'[e] # None
          BY <1>1, <3>1, <4>1 DEF AgreeConn
        <5> QED
          BY SMTT(20), <1>1, <3>1, <3>2, <3>3, <4>1, <5>1, <5>2
             DEF AgreeConn, WellConn, Parted
      <4>2. CASE ec[e] = "error"
        <5>1. disturbed[e] # FALSE
          BY <1>1, <4>2 DEF WellConn
        <5>2. serverLink'[e] \in {"closing", "closed"} => serverLink[e] \in {"closing", "closed"}
          BY <3>2
        <5> QED
          BY SMTT(20), <1>1, <3>1, <3>2, <3>3, <4>2, <5>1, <5>2
             DEF AgreeConn, WellConn, Parted
      <4> QED
        BY <3>1, <4>1, <4>2
    <3>4. CASE f # e
      <4>1. op'[f] = op[f] /\ link'[f] = link[f]
        BY <3>1, <3>4
      <4>2. printed'[f] = printed[f]
        BY <3>1, <3>4
      <4>3. serverLink'[f] = serverLink[f]
        BY <3>2, <3>4
      <4> QED
        BY SMTT(20), <1>1, <3>1, <3>2, <4>1, <4>2, <4>3 DEF AgreeConn, WellConn, Parted
    <3> QED
      BY <3>3, <3>4
  <2> QED
    BY <1>15, <2>1, <2>2, <2>3 DEF ClientHandler
(* Whatever interferes is remembered; the two have agreed, if they had.    *)
<1>16. ASSUME NEW e \in Pairs, ClientTimeout(e) PROVE Good'
  <2>1. /\ ec[e] = "pending" /\ ec' = [ec EXCEPT ![e] = "error"]
        /\ link' = [link EXCEPT ![e] = "shut"]
        /\ UNCHANGED <<op, answer, buffer>>
        /\ disturbed' = [disturbed EXCEPT ![e] = TRUE]
    BY <1>16 DEF ClientTimeout, Client!Timeout, Client!Complete, Client!serverVars
  <2>2. /\ UNCHANGED <<life, serverOp, serverEc, outbound>>
        /\ \/ \E how \in {"eof", "reset", "silent"} :
                serverLink' \in {serverLink, [serverLink EXCEPT ![e] = how]}
           \/ serverLink[e] = "closing" /\ serverLink' = [serverLink EXCEPT ![e] = "closed"]
    BY <1>16, ServerNotice DEF ClientTimeout
  <2>3. UNCHANGED printed
    BY <1>16 DEF ClientTimeout, Client!Timeout
  <2> QED
    BY SMTT(20), <1>1, <2>1, <2>2, <2>3 DEF AgreeConn, WellConn, Parted
<1>17. ASSUME NEW e \in Pairs, ServerTimeout(e) \/ ServerEnds(e) PROVE Good'
  <2>1. /\ UNCHANGED <<op, ec, answer, buffer, printed>>
        /\ \/ UNCHANGED link
           \/ /\ link[e] # "shut"
              /\ \E how \in {"eof", "reset"} : link' = [link EXCEPT ![e] = how]
        /\ disturbed' = [disturbed EXCEPT ![e] = TRUE]
    <3>1. CASE ServerTimeout(e)
      BY <3>1, ClientNotice DEF ServerTimeout
    <3>2. CASE ServerEnds(e)
      BY <3>2 DEF ServerEnds, Client!ServerLeaves, Client!objectVars, Client!serverVars
    <3> QED
      BY <1>17, <3>1, <3>2
  <2>2. /\ UNCHANGED <<life, serverOp, serverEc, outbound>>
        /\ serverLink' \in {serverLink, [serverLink EXCEPT ![e] = "shut"]}
    BY <1>17 DEF ServerTimeout, ServerEnds, Server!Timeout, Server!objectVars, Server!peerVars
  <2> QED
    BY SMTT(20), <1>1, <2>1, <2>2 DEF AgreeConn, WellConn, Parted
<1>18. ASSUME NEW e \in Pairs, Break(e) PROVE Good'
  <2>1. /\ UNCHANGED <<op, ec, answer, buffer, printed>>
        /\ \E how \in {"reset", "silent"} :
             /\ link' \in {link, [link EXCEPT ![e] = how]}
             /\ link[e] = "shut" => UNCHANGED link
        /\ disturbed' = [disturbed EXCEPT ![e] = TRUE]
    BY <1>18 DEF Break, Client!ServerLeaves, Client!objectVars, Client!serverVars
  <2>2. /\ UNCHANGED <<life, serverOp, serverEc, outbound>>
        /\ \E how \in {"reset", "silent"} : serverLink' \in {serverLink, [serverLink EXCEPT ![e] = how]}
    BY <1>18 DEF Break, Server!PeerLeave, Server!objectVars, Server!peerVars
  <2> QED
    BY SMTT(20), <1>1, <2>1, <2>2 DEF AgreeConn, WellConn, Parted
<1>19. ASSUME NEW e \in Pairs, Throw(e) PROVE Good'
  BY <1>1, <1>19 DEF AgreeConn, WellConn, Parted, Throw
<1> QED
  BY <1>2, <1>3, <1>4, <1>5, <1>6, <1>7, <1>8, <1>9, <1>10, <1>11, <1>12, <1>13, <1>14, <1>15,
     <1>16, <1>17, <1>18, <1>19 DEF Next, ClientStep, ServerStep, ClientIo, ServerIo

LEMMA AgreeInvariant == Safety => []AgreeInv
BY AgreeInit, AgreeStep, ExchangeTypeOK, PTL DEF Safety

(* A client that ends without an error leaves a session that has answered  *)
(* it and has nothing left to do, and a session that ends with             *)
(* error::closed (server/session.cpp:38) leaves a client that has its      *)
(* answer: the answer to the close frame is the last thing that the server *)
(* sends, and the client does not close before it has read a reply.        *)
THEOREM ExchangeEndsAgree == Safety => []EndsAgree
<1>1. ASSUME AgreeInv, AtMostOne, Server!TypeOK, Server!EchoFaithful, Client!TypeOK
      PROVE  EndsAgree
  <2>1. ASSUME NEW e \in Pairs, Parted(e) PROVE Answered(e)
    <3>1. Len(outbound[e]) >= 1 /\ buffer[e] # None
      BY <2>1 DEF Parted
    <3>2. Len(outbound[e]) \in Nat /\ Len(sent[e]) \in Nat
      BY <1>1 DEF Server!TypeOK, Conns
    <3>3. Len(outbound[e]) <= Len(sent[e])
      BY <1>1, <3>1, <3>2 DEF Server!EchoFaithful, Server!Faithful, Conns
    <3>4. Len(sent[e]) <= 1
      BY <1>1 DEF AtMostOne
    <3>5. \A m, n \in Nat : m >= 1 /\ m <= n /\ n <= 1 => m = 1 /\ n = 1
      OBVIOUS
    <3>6. Len(outbound[e]) = 1 /\ Len(sent[e]) = 1
      BY <3>1, <3>2, <3>3, <3>4, <3>5, Zenon
    <3>7. buffer[e] = Hello
      BY <1>1, <3>1 DEF Client!TypeOK, Replies, Messages, Sessions
    <3> QED
      BY <3>6, <3>7 DEF Answered
  <2> QED
    BY <1>1, <2>1 DEF EndsAgree, AgreeInv, AgreeConn, Parted
<1> QED
  BY <1>1, AgreeInvariant, AtMostOneHolds, ServerBehaves, ClientBehaves, PTL

(* The two programs do each other no harm: a command that ends without its *)
(* text printed (client/session.cpp:69-91) was interfered with.            *)
THEOREM ExchangeLostOnlyIfDisturbed == Safety => []LostOnlyIfDisturbed
<1>1. TypeOK /\ AgreeInv => LostOnlyIfDisturbed
  BY DEF TypeOK, AgreeInv, WellConn, LostOnlyIfDisturbed
<1> QED
  BY <1>1, AgreeInvariant, ExchangeTypeOK, PTL
=============================================================================
