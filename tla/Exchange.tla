------------------------------ MODULE Exchange ------------------------------
(***************************************************************************)
(* The two programs against each other: each ClientSession talks to the    *)
(* ServerSession that serves its connection, instead of to anybody who     *)
(* might be there.  What a side does is what its own module says; this     *)
(* module says which steps of the two sides are the same step, or the      *)
(* cause and the effect of one: a message written by one is what the other *)
(* gets, a close frame or a closed socket is what the other notices.       *)
(*                                                                         *)
(* Between them is the network, which can break a connection at any time.  *)
(* disturbed remembers that something other than the two programs had its  *)
(* way with an exchange: the resolver, a full backlog, the network, a      *)
(* clock, or the end of the server process.                                *)
(***************************************************************************)
EXTENDS Naturals, Sequences

CONSTANTS
  Pairs,        (* the connect commands, and the connections they make     *)
  Parts, Window,   \* as in ServerSession
  Hello,        (* "Hello, World!", what every connect command sends       *)
  None          (* no message                                              *)

Conns == Pairs
Sessions == Pairs
Messages == {Hello}
Replies == Messages
MaxSend == 1    \* a ClientSession writes once

ASSUME ExchangeAssumption ==
  /\ Hello \in [text : BOOLEAN, data : Seq(Parts)]
  /\ Window \in Nat \ {0}
  /\ None # Hello

VARIABLES
  op, ec, link, expires, guarded, answer, buffer, printed,
  life, serverOp, serverEc, serverBuffer, textOut, serverLink,
  sent, rcvd, part, outbound, taken,
  terminated,   (* whether the server process has ended, as in Server      *)
  disturbed     (* whether anything else interfered (history)              *)

Client == INSTANCE ClientSession

Server == INSTANCE ServerSession WITH
            op <- serverOp, ec <- serverEc, buffer <- serverBuffer, link <- serverLink

clientVars == <<op, ec, link, expires, guarded, answer, buffer, printed>>
serverVars == <<life, serverOp, serverEc, serverBuffer, textOut, serverLink,
                sent, rcvd, part, outbound, taken>>
vars == <<clientVars, serverVars, terminated, disturbed>>

TypeOK ==
  /\ Client!TypeOK
  /\ Server!TypeOK
  /\ terminated \in BOOLEAN
  /\ disturbed \in [Pairs -> BOOLEAN]

Init ==
  /\ Client!Init
  /\ Server!Init
  /\ terminated = FALSE
  /\ disturbed = [e \in Pairs |-> FALSE]

Undisturbed == UNCHANGED <<terminated, disturbed>>
Disturbed(e) == disturbed' = [disturbed EXCEPT ![e] = TRUE] /\ UNCHANGED terminated

ClientOnly == UNCHANGED serverVars /\ Undisturbed
ServerOnly == UNCHANGED clientVars /\ Undisturbed

-----------------------------------------------------------------------------
(* What one side notices of the other's socket being closed: a FIN, or a   *)
(* reset if data was left unread; of a client that had lost its connection *)
(* no FIN comes any more.                                                  *)
ServerNotices(e) ==
  IF link[e] # "shut" /\ serverLink[e] \in {"tcp", "open", "closing"}
    THEN \E how \in IF link[e] \in {"tcp", "open", "closing"}
                      THEN {"eof", "closed", "reset"}
                      ELSE {"reset", "silent"} : Server!PeerLeave(e, how)
    ELSE UNCHANGED serverVars

ClientNotices(e) ==
  IF link[e] \in {"tcp", "open"}
    THEN \E how \in {"eof", "reset"} : Client!ServerLeaves(e, how)
    ELSE UNCHANGED clientVars

-----------------------------------------------------------------------------
(* From the command to the handshake.                                      *)

Run(e) == Client!Run(e) /\ ClientOnly

Resolve(e) ==
  /\ Client!Resolved(e)
  /\ UNCHANGED serverVars
  /\ IF ec'[e] = "ok" THEN Undisturbed ELSE Disturbed(e)

Connect(e) == Client!Connected(e) /\ Server!Connect(e) /\ Undisturbed

Refuse(e) ==
  /\ op[e] = "connect"
  /\ Client!OpFails(e)
  /\ UNCHANGED serverVars
  /\ Disturbed(e)

(* The accept loop of the server comes to this connection.  With one that  *)
(* has been reset meanwhile, remote_endpoint() throws, and the process     *)
(* ends.                                                                   *)
Serve(e) ==
  /\ serverLink[e] # "reset"
  /\ Server!Run(e)
  /\ ServerOnly

Throw(e) ==
  /\ serverLink[e] = "reset"
  /\ life[e] = "none"
  /\ terminated' = TRUE
  /\ UNCHANGED <<clientVars, serverVars, disturbed>>

(* With the process go its sockets.                                        *)
ServerEnds(e) ==
  /\ terminated
  /\ \E how \in {"eof", "reset"} : Client!ServerLeaves(e, how)
  /\ UNCHANGED serverVars
  /\ Disturbed(e)

(* The upgrade request arrives and is answered; the answer arrives.        *)
Upgrade(e) ==
  /\ Client!Pending(e, "handshake")
  /\ link[e] = "tcp"
  /\ Server!AcceptHandshake(e)
  /\ ServerOnly

Upgraded(e) ==
  /\ \/ serverOp[e] = "accept" /\ serverEc[e] = "ok"
     \/ serverOp[e] \in {"read", "write"}
  /\ Client!ShakenHands(e)
  /\ ClientOnly

-----------------------------------------------------------------------------
(* The message and its echo.                                               *)

(* A write succeeds on a connection that leads nowhere.                    *)
Say(e) ==
  /\ Client!Written(e)
  /\ IF link[e] = "open" /\ serverLink[e] = "open"
       THEN Server!PeerSend(e, Hello)
       ELSE UNCHANGED serverVars
  /\ Undisturbed

Hear(e) == Server!ReadPart(e) /\ ServerOnly

Reply(e) ==
  /\ Server!WriteOut(e)
  /\ IF link[e] = "open" /\ answer[e] = None
       THEN Client!ServerSends(e, outbound'[e][1])
       ELSE UNCHANGED clientVars
  /\ Undisturbed

(* Reading makes room in the server's window.                              *)
Listen(e) ==
  /\ Client!ReadAnswer(e)
  /\ IF serverLink[e] \in {"open", "closing", "eof"}
       THEN Server!PeerTake(e)
       ELSE UNCHANGED serverVars
  /\ Undisturbed

-----------------------------------------------------------------------------
(* The close handshake.                                                    *)

(* Mutant: the client closes its socket without a close frame.             *)
SendCloseAsFin(e) ==
  /\ Client!OnRead(e)
  /\ IF link[e] = "open" /\ serverLink[e] = "open"
       THEN Server!PeerLeave(e, "eof")
       ELSE UNCHANGED serverVars
  /\ Undisturbed

(* on_read starts async_close, which sends the close frame.                *)
SendClose(e) ==
  /\ Client!OnRead(e)
  /\ IF link[e] = "open" /\ serverLink[e] = "open"
       THEN Server!PeerLeave(e, "closing")
       ELSE UNCHANGED serverVars
  /\ Undisturbed

(* The answer of the server, and the FIN behind it, reach the client while *)
(* the server still reads, for the FIN of the client.                      *)
AnswerClose(e) ==
  /\ Server!AnswerClose(e)
  /\ IF link[e] = "open" THEN Client!ServerLeaves(e, "closing") ELSE UNCHANGED clientVars
  /\ Undisturbed

(* async_close ends with this FIN, which the server may or may not see.    *)
CloseAnswered(e) ==
  /\ link[e] = "closing"
  /\ Client!Closed(e)
  /\ IF serverLink[e] = "closing"
       THEN Server!PeerLeave(e, "closed")
       ELSE UNCHANGED serverVars
  /\ Undisturbed

TearDown(e) == Server!TornDown(e) /\ ServerOnly

-----------------------------------------------------------------------------
(* The rest of what each side does.                                        *)

(* Mutant: on_write starts the close instead of the read.                  *)
ClientHandlerCloses(e) ==
  \/ /\ Client!OnResolve(e) \/ Client!OnConnect(e) \/ Client!OnHandshake(e)
     /\ ClientOnly
  \/ /\ Client!Succeeded(e, "write")
     /\ Client!Start(e, "close")
     /\ UNCHANGED <<link, expires, guarded, answer, buffer, printed>>
     /\ IF link[e] = "open" /\ serverLink[e] = "open"
          THEN Server!PeerLeave(e, "closing")
          ELSE UNCHANGED serverVars
     /\ Undisturbed
  \/ /\ Client!OnClose(e) \/ Client!Fail(e)
     /\ ServerNotices(e)
     /\ Undisturbed

ClientHandler(e) ==
  \/ /\ Client!OnResolve(e) \/ Client!OnConnect(e) \/ Client!OnHandshake(e) \/ Client!OnWrite(e)
     /\ ClientOnly
  \/ SendClose(e)
  \/ /\ Client!OnClose(e) \/ Client!Fail(e)
     /\ ServerNotices(e)
     /\ Undisturbed

ServerHandler(e) ==
  /\ Server!Handler(e)
  /\ IF life'[e] = "gone" THEN ClientNotices(e) ELSE UNCHANGED clientVars
  /\ Undisturbed

ClientIoFails(e) == Client!Notice(e) /\ ClientOnly
ServerIoFails(e) == Server!OpFails(e) /\ ServerOnly

(* A clock runs out: the socket is closed.                                 *)
ClientTimeout(e) == Client!Timeout(e) /\ ServerNotices(e) /\ Disturbed(e)
ServerTimeout(e) == Server!Timeout(e) /\ ClientNotices(e) /\ Disturbed(e)

(* The network: either end loses the connection, with a reset or without a *)
(* trace, and the other end then or later, or not before it closes its own.*)
Break(e) ==
  /\ \E how \in {"reset", "silent"} :
       \/ Client!ServerLeaves(e, how) /\ UNCHANGED serverVars
       \/ Server!PeerLeave(e, how) /\ UNCHANGED clientVars
  /\ Disturbed(e)

(* Data that was on its way when the connection fell silent may not have   *)
(* arrived, but it can.                                                    *)
ClientIo(e) ==
  \/ Resolve(e)
  \/ Say(e)
  \/ Listen(e) /\ link[e] # "silent"
  \/ ClientIoFails(e)

ServerIo(e) ==
  \/ Hear(e) /\ serverLink[e] # "silent"
  \/ Reply(e)
  \/ AnswerClose(e)
  \/ TearDown(e)
  \/ ServerIoFails(e)

ClientStep(e) ==
  \/ Run(e) \/ Refuse(e) \/ Upgraded(e)
  \/ ClientIo(e) \/ Listen(e)
  \/ CloseAnswered(e)
  \/ ClientHandler(e)
  \/ ClientTimeout(e)

(* Without a process nothing listens and nothing is served.                *)
ServerStep(e) ==
  /\ ~terminated
  /\ \/ Connect(e) \/ Serve(e) \/ Throw(e) \/ Upgrade(e)
     \/ ServerIo(e) \/ Hear(e)
     \/ ServerHandler(e)
     \/ ServerTimeout(e)

Next ==
  \E e \in Pairs : ClientStep(e) \/ ServerStep(e) \/ ServerEnds(e) \/ Break(e)

(* That of the two sides, and of the server's accept loop, which comes to  *)
(* every connection unless one of them has ended the process (EverServed   *)
(* of Server).  Where one side waits for the other to connect, to shake    *)
(* hands or to close, its timer is fair and the other is not.              *)
Fairness ==
  \A e \in Pairs :
    /\ WF_vars(~terminated /\ (Serve(e) \/ Throw(e)))
    /\ WF_vars(ClientIo(e))
    /\ WF_vars(~terminated /\ ServerIo(e))
    /\ WF_vars(ClientHandler(e))
    /\ WF_vars(~terminated /\ ServerHandler(e))
    /\ WF_vars(ClientTimeout(e))
    /\ WF_vars(~terminated /\ ServerTimeout(e))
    /\ WF_vars(ServerEnds(e))

Safety == Init /\ [][Next]_vars

Spec == Safety /\ Fairness

-----------------------------------------------------------------------------
(* Properties.                                                             *)

(* Whatever this module lets the client see of the server is something the *)
(* client was modelled to expect, and the one answer it gets is a message  *)
(* it can get: so what ClientSession shows holds of it here.               *)
ImplementsClient == Client!Safety

(* What the command prints is what it was given to send: through the       *)
(* server's buffer, its text option, and back (client/session.cpp:84-91,   *)
(* server/session.cpp:46-48).                                              *)
PrintedIsSent == \A e \in Pairs : printed[e] # None => printed[e] = Hello

(* The two ends agree on a success, although neither knows how it ends for *)
(* the other: a client that ends without an error has had its one message  *)
(* answered, and leaves a session that has nothing to do but to go, which  *)
(* may still fail; and a session that ends with error::closed              *)
(* (server/session.cpp:38) has answered, and its client has the answer,    *)
(* whether or not its own close has succeeded.                             *)
Answered(e) == Len(sent[e]) = 1 /\ Len(outbound[e]) = 1 /\ buffer[e] = Hello

EndsAgree ==
  \A e \in Pairs :
    /\ op[e] = "over" /\ ec[e] = "ok" =>
         Answered(e) /\ (serverOp[e] = "teardown" \/ life[e] = "gone")
    /\ serverEc[e] = "closed" => Answered(e) /\ op[e] \in {"close", "over"}

(* A command that has ended without its text printed, even if it has got   *)
(* its answer (client/session.cpp:86-90), was interfered with: nothing     *)
(* that the two programs do to each other makes an operation of either     *)
(* fail, neither the close nor an earlier one.                             *)
LostOnlyIfDisturbed ==
  \A e \in Pairs : op[e] = "over" /\ printed[e] = None => disturbed[e]

(* The two programs get on with each other: a connect command with which   *)
(* nobody interferes ends with its text printed.                           *)
Completes ==
  \A e \in Pairs :
    (op[e] # "none") ~> (disturbed[e] \/ (op[e] = "over" /\ printed[e] = Hello))

(* Against this server a client waits for ever only if the server, or the  *)
(* way to it, vanishes: no reset, refusal or timeout on either side leaves *)
(* the client waiting for an answer that the server will not give.         *)
EndsUnlessSilent ==
  \A e \in Pairs : (op[e] # "none") ~> (op[e] = "over" \/ link[e] = "silent")

(* When the command is over, its session on the server is let go of, too,  *)
(* unless the process has ended with it.                                   *)
ServerLetsGo ==
  \A e \in Pairs :
    (op[e] = "over" /\ serverLink[e] # "absent") ~> (life[e] = "gone" \/ terminated)
=============================================================================
