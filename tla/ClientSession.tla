--------------------------- MODULE ClientSession ---------------------------
(***************************************************************************)
(* The sessions of the client: client/session.cpp.  A ClientSession makes  *)
(* one exchange with a server, as a chain of asynchronous operations each  *)
(* of which is started by the handler of the one before: resolve, connect, *)
(* websocket handshake, write the text, read one message, close, print the *)
(* message.  Any operation that fails ends the chain: fail() prints why,   *)
(* and with the handler goes the last reference to the object.             *)
(*                                                                         *)
(* Two timers can end an operation: the one of the tcp_stream, which       *)
(* on_resolve sets for the connection to be made, and those of the         *)
(* websocket, timeout::suggested(client): 30 s for the handshake and for   *)
(* the close, none for an open connection.                                 *)
(*                                                                         *)
(* The server is any websocket server: it may refuse, be slow, say what it *)
(* likes when it likes, and go in any way a TCP peer can go.               *)
(***************************************************************************)

CONSTANTS
  Sessions,   (* the ClientSession objects                                 *)
  Replies,    (* the messages a server may send                            *)
  None        (* no message                                                *)

ASSUME ClientSessionAssumption == None \notin Replies

VARIABLES
  op,         (* the operation outstanding; "over" once the object is gone *)
  ec,         (* its outcome, "pending" until the handler can run          *)
  link,       (* the TCP connection, named as in ServerSession             *)
  expires,    (* whether the timer of the tcp_stream is set                *)
  guarded,    (* whether the timeouts of the websocket are set             *)
  answer,     (* the first message the server has sent                     *)
  buffer,     (* _buffer                                                   *)
  printed     (* what on_close has printed                                 *)

serverVars == <<answer>>
objectVars == <<op, ec, expires, guarded, buffer, printed>>
vars == <<objectVars, link, serverVars>>

Operations == {"resolve", "connect", "handshake", "write", "read", "close"}

Departures == {"closing", "eof", "reset", "silent"}

TypeOK ==
  /\ op \in [Sessions -> Operations \cup {"none", "over"}]
  /\ ec \in [Sessions -> {"pending", "ok", "error"}]
  /\ link \in [Sessions -> Departures \cup {"absent", "tcp", "open", "shut"}]
  /\ expires \in [Sessions -> BOOLEAN]
  /\ guarded \in [Sessions -> BOOLEAN]
  /\ answer \in [Sessions -> Replies \cup {None}]
  /\ buffer \in [Sessions -> Replies \cup {None}]
  /\ printed \in [Sessions -> Replies \cup {None}]

Init ==
  /\ op = [s \in Sessions |-> "none"]
  /\ ec = [s \in Sessions |-> "pending"]
  /\ link = [s \in Sessions |-> "absent"]
  /\ expires = [s \in Sessions |-> FALSE]
  /\ guarded = [s \in Sessions |-> FALSE]
  /\ answer = [s \in Sessions |-> None]
  /\ buffer = [s \in Sessions |-> None]
  /\ printed = [s \in Sessions |-> None]

-----------------------------------------------------------------------------
(* The server.                                                             *)

ServerSends(s, m) ==
  /\ link[s] = "open"
  /\ answer[s] = None
  /\ answer' = [answer EXCEPT ![s] = m]
  /\ UNCHANGED <<objectVars, link>>

(* It goes with a close frame and a FIN behind it, by closing its socket   *)
(* without a close frame, with a reset, or without a word.                 *)
ServerLeaves(s, how) ==
  /\ \/ how = "closing" /\ link[s] = "open"
     \/ how = "eof" /\ link[s] \in {"tcp", "open"}
     \/ how \in {"reset", "silent"} /\ link[s] \in {"tcp", "open", "closing", "eof"}
  /\ link' = [link EXCEPT ![s] = how]
  /\ UNCHANGED <<objectVars, serverVars>>

Server(s) ==
  \/ \E m \in Replies : ServerSends(s, m)
  \/ \E how \in Departures : ServerLeaves(s, how)

-----------------------------------------------------------------------------
(* The resolver, the kernel and Beast: how operations end.                 *)

Pending(s, o) == op[s] = o /\ ec[s] = "pending"

Complete(s, e) == ec' = [ec EXCEPT ![s] = e]

Resolved(s) ==
  /\ Pending(s, "resolve")
  /\ \E e \in {"ok", "error"} : Complete(s, e)
  /\ UNCHANGED <<op, link, expires, guarded, serverVars, buffer, printed>>

Connected(s) ==
  /\ Pending(s, "connect")
  /\ Complete(s, "ok")
  /\ link' = [link EXCEPT ![s] = "tcp"]
  /\ UNCHANGED <<op, expires, guarded, serverVars, buffer, printed>>

ShakenHands(s) ==
  /\ Pending(s, "handshake")
  /\ link[s] = "tcp"
  /\ Complete(s, "ok")
  /\ link' = [link EXCEPT ![s] = "open"]
  /\ UNCHANGED <<op, expires, guarded, serverVars, buffer, printed>>

(* The text fits into an empty send buffer: a write needs no reader.       *)
Written(s) ==
  /\ Pending(s, "write")
  /\ link[s] # "reset"
  /\ Complete(s, "ok")
  /\ UNCHANGED <<op, link, expires, guarded, serverVars, buffer, printed>>

(* What came before the server went can still be read.                     *)
ReadAnswer(s) ==
  /\ Pending(s, "read")
  /\ answer[s] # None
  /\ buffer' = [buffer EXCEPT ![s] = answer[s]]
  /\ Complete(s, "ok")
  /\ UNCHANGED <<op, link, expires, guarded, serverVars, printed>>

(* The server answers the close frame and closes its sending side; Beast   *)
(* reads up to there, and closes the socket.                               *)
Closed(s) ==
  /\ Pending(s, "close")
  /\ link[s] \in {"open", "closing"}
  /\ Complete(s, "ok")
  /\ link' = [link EXCEPT ![s] = "shut"]
  /\ UNCHANGED <<op, expires, guarded, serverVars, buffer, printed>>

Broken(s) ==
  \/ op[s] = "handshake" /\ link[s] \in {"eof", "reset"}
  \/ op[s] = "write" /\ link[s] = "reset"
  \/ op[s] = "read" /\ link[s] = "reset"
  \/ op[s] = "read" /\ link[s] \in {"closing", "eof"} /\ answer[s] = None
  \/ op[s] = "close" /\ link[s] \in {"eof", "reset"}

(* Any of them fails on a broken connection; connect and handshake also    *)
(* when the server refuses.                                                *)
OpFails(s) ==
  /\ ec[s] = "pending"
  /\ Broken(s) \/ op[s] = "connect" \/ (op[s] = "handshake" /\ link[s] = "tcp")
  /\ Complete(s, "error")
  /\ UNCHANGED <<op, link, expires, guarded, serverVars, buffer, printed>>

(* A timer that is set can fire on what it covers, however little the      *)
(* server is to blame: the socket is closed and the operation fails.       *)
Covered(s) ==
  \/ expires[s] /\ op[s] \in {"connect", "handshake", "write", "read", "close"}
  \/ guarded[s] /\ op[s] \in {"handshake", "close"}

Timeout(s) ==
  /\ ec[s] = "pending"
  /\ Covered(s)
  /\ Complete(s, "error")
  /\ link' = [link EXCEPT ![s] = "shut"]
  /\ UNCHANGED <<op, expires, guarded, serverVars, buffer, printed>>

Io(s) ==
  \/ Resolved(s)
  \/ Connected(s)
  \/ ShakenHands(s)
  \/ Written(s)
  \/ ReadAnswer(s)
  \/ Closed(s)
  \/ OpFails(s)
  \/ Timeout(s)

-----------------------------------------------------------------------------
(* The session object.                                                     *)

Start(s, o) ==
  /\ op' = [op EXCEPT ![s] = o]
  /\ Complete(s, "pending")

(* Mutant: the chain ends and leaves the object in a state of its own.     *)
FinishHalfway(s) ==
  /\ op' = [op EXCEPT ![s] = "finishing"]
  /\ link' = [link EXCEPT ![s] = "shut"]
  /\ UNCHANGED <<ec, serverVars>>

(* The handler returns without a new operation: the object goes and closes *)
(* its socket.                                                             *)
Finish(s) ==
  /\ op' = [op EXCEPT ![s] = "over"]
  /\ link' = [link EXCEPT ![s] = "shut"]
  /\ UNCHANGED <<ec, serverVars>>

Run(s) ==
  /\ op[s] = "none"
  /\ Start(s, "resolve")
  /\ UNCHANGED <<link, expires, guarded, serverVars, buffer, printed>>

Succeeded(s, o) == op[s] = o /\ ec[s] = "ok"

OnResolve(s) ==
  /\ Succeeded(s, "resolve")
  /\ expires' = [expires EXCEPT ![s] = TRUE]
  /\ Start(s, "connect")
  /\ UNCHANGED <<link, guarded, serverVars, buffer, printed>>

(* Mutant: on_connect leaves the timer of the tcp_stream on.               *)
OnConnectKeepsTimer(s) ==
  /\ Succeeded(s, "connect")
  /\ guarded' = [guarded EXCEPT ![s] = TRUE]
  /\ Start(s, "handshake")
  /\ UNCHANGED <<link, expires, serverVars, buffer, printed>>

(* Mutant: on_connect sets no timeouts for the websocket.                  *)
OnConnectUnguarded(s) ==
  /\ Succeeded(s, "connect")
  /\ expires' = [expires EXCEPT ![s] = FALSE]
  /\ Start(s, "handshake")
  /\ UNCHANGED <<link, guarded, serverVars, buffer, printed>>

OnConnect(s) ==
  /\ Succeeded(s, "connect")
  /\ expires' = [expires EXCEPT ![s] = FALSE]
  /\ guarded' = [guarded EXCEPT ![s] = TRUE]
  /\ Start(s, "handshake")
  /\ UNCHANGED <<link, serverVars, buffer, printed>>

OnHandshake(s) ==
  /\ Succeeded(s, "handshake")
  /\ Start(s, "write")
  /\ UNCHANGED <<link, expires, guarded, serverVars, buffer, printed>>

OnWrite(s) ==
  /\ Succeeded(s, "write")
  /\ Start(s, "read")
  /\ UNCHANGED <<link, expires, guarded, serverVars, buffer, printed>>

OnRead(s) ==
  /\ Succeeded(s, "read")
  /\ Start(s, "close")
  /\ UNCHANGED <<link, expires, guarded, serverVars, buffer, printed>>

OnClose(s) ==
  /\ Succeeded(s, "close")
  /\ printed' = [printed EXCEPT ![s] = buffer[s]]
  /\ Finish(s)
  /\ UNCHANGED <<expires, guarded, buffer>>

(* Mutant: a chain that fails prints the buffer, too.                      *)
FailPrints(s) ==
  /\ op[s] \in Operations
  /\ ec[s] = "error"
  /\ printed' = [printed EXCEPT ![s] = buffer[s]]
  /\ Finish(s)
  /\ UNCHANGED <<expires, guarded, buffer>>

(* Each of the handlers, called with an error, does no more than fail().   *)
Fail(s) ==
  /\ op[s] \in Operations
  /\ ec[s] = "error"
  /\ Finish(s)
  /\ UNCHANGED <<expires, guarded, buffer, printed>>

Handler(s) ==
  \/ OnResolve(s)
  \/ OnConnect(s)
  \/ OnHandshake(s)
  \/ OnWrite(s)
  \/ OnRead(s)
  \/ OnClose(s)
  \/ Fail(s)

Next ==
  \E s \in Sessions :
    \/ Run(s)
    \/ Server(s)
    \/ Io(s)
    \/ Handler(s)

(* The resolver returns, what has arrived is read, what is broken fails,   *)
(* timers fire.  Nothing is assumed of the server.                         *)
ReadArrived(s) == ReadAnswer(s) /\ link[s] # "silent"

Notice(s) == OpFails(s) /\ Broken(s)

Fairness ==
  \A s \in Sessions :
    /\ WF_vars(Resolved(s))
    /\ WF_vars(Written(s))
    /\ WF_vars(ReadArrived(s))
    /\ WF_vars(Notice(s))
    /\ WF_vars(Timeout(s))
    /\ WF_vars(Handler(s))

Safety == Init /\ [][Next]_vars

Spec == Safety /\ Fairness

-----------------------------------------------------------------------------
(* Properties.                                                             *)

(* An open connection has no deadline: the timer set for connecting is off *)
(* before the first operation on the websocket, which would be cut short   *)
(* by it (client/session.cpp:31-33), so that a slow server gets the time   *)
(* it needs.                                                               *)
NoDeadlineOnceOpen ==
  [][\A s \in Sessions :
       op[s] \in {"write", "read"} /\ ec[s] = "pending" => link'[s] # "shut"]_vars

(* What is printed is what the server sent first on this connection, and   *)
(* only after a whole exchange: the close handshake was made, so that the  *)
(* connection did not break between the handshake and the end.             *)
PrintedIsAnswer ==
  \A s \in Sessions :
    printed[s] # None => op[s] = "over" /\ ec[s] = "ok" /\ printed[s] = answer[s]

(* Every operation of the chain but the read has an end, whatever the      *)
(* server does: a session that does not end is waiting for the message of  *)
(* a server that neither sends one nor is seen to go.                      *)
AwaitsAnswer(s) ==
  /\ Pending(s, "read")
  /\ (link[s] = "open" /\ answer[s] = None) \/ link[s] = "silent"

EndsUnlessUnanswered ==
  \A s \in Sessions : (op[s] # "none") ~> (op[s] = "over" \/ AwaitsAnswer(s))

(* "The websocket stream has its own timeout system"                       *)
(* (client/session.cpp:31-32), for the sake of which the timer of the      *)
(* tcp_stream is turned off.  Not so while the connection is open: the     *)
(* timeouts suggested for a client include none for that.  It does not     *)
(* hold: with a server that has vanished the session waits for ever.       *)
WebsocketTimesOut == \A s \in Sessions : (op[s] # "none") ~> (op[s] = "over")
=============================================================================
